------------------------- MODULE XpurtIngestProofs -------------------------
(***************************************************************************)
(* What ingest emits, for every schedule: a table of the shape the walker  *)
(* relies on, with each dispatch once, every real ordering kept and the    *)
(* completed ops chained.  The argument is one invariant per loop of       *)
(* load(): what completion, the graph, the sort and the table are like so  *)
(* far.                                                                    *)
(***************************************************************************)
EXTENDS XpurtIngest, FiniteSetTheorems, SequenceTheorems, WellFoundedInduction, TLAPS

\* The schedule keeps its types; completion only adds to it.
RawInv ==
  /\ IsFiniteSet(Keys) /\ Keys \subseteq AllKeys /\ raw \in [Keys -> RawEntry]
  /\ jobs \subseteq { k[1] : k \in Keys }

\* Completion.  A synthesized op comes after those of its producers that were
\* scheduled; a job that is done with has all its ops, and its synthesized
\* ones are among the dependencies of their consumers.
InIR(k) == Known(k[1]) /\ k[2] \in Dids(Net(k[1]))
IRDeps(k) == { << k[1], d >> : d \in ToSet(OpOf(Net(k[1]), k[2]).deps) }

ChainInv ==
  /\ \A k \in Keys : raw[k].made =>
       /\ InIR(k)
       /\ \A l \in IRDeps(k) \cap Keys : ~ raw[l].made => l \in raw[k].deps
  /\ \A k \in Keys : k[1] \notin jobs =>
       /\ Missing(k[1]) = {}
       /\ InIR(k) => MadeFor(k) \subseteq raw[k].deps

\* The graph.  A time dependency has its edge unless it was dropped, and none
\* has closed a cycle.
GraphInv ==
  /\ phase \in { "complete", "admit", "sort", "emit", "done", "error" }
  /\ edges \subseteq Keys \X Keys /\ todo \subseteq Keys /\ dropped \subseteq Keys
  /\ \A k \in todo : phase # "complete" /\ raw[k].tdep \in Keys
  /\ phase # "complete" =>
       /\ jobs = {} /\ DataEdges \subseteq edges
       /\ Acyclic(DataEdges) => Acyclic(edges)
       /\ \A k \in Keys : raw[k].tdep \in Keys =>
            k \in todo \cup dropped \/ << raw[k].tdep, k >> \in edges

\* The sort.  What an entry comes after has been placed before it.
OrderInv ==
  /\ order \in Seq(Keys)
  /\ \A m, n \in DOMAIN order : order[m] = order[n] => m = n
  /\ \A n \in DOMAIN order : \A p \in Keys :
       << p, order[n] >> \in edges => \E m \in 1 .. n - 1 : order[m] = p
  /\ phase \in { "complete", "admit" } => order = << >>
  /\ phase \in { "sort", "emit", "done", "error" } => todo = {}
  /\ phase \in { "emit", "done" } => Placed = Keys
  /\ phase = "error" => Placed = Keys \/ why = "cycle"
  /\ phase # "error" => why = "none"
  /\ why = "cycle" => ~ Acyclic(DataEdges)

\* The table.  It has the first entries of the order, none of them faulty.
TableInv ==
  /\ \E m \in 0 .. Len(order) : DOMAIN table = 0 .. m - 1
  /\ table = [e \in DOMAIN table |-> table[e]]
  /\ phase \in { "complete", "admit", "sort" } => DOMAIN table = {}
  /\ phase = "done" => DOMAIN table = 0 .. Len(order) - 1
  /\ \/ why \in { "none", "cycle" }
     \/ \E n \in 0 .. Len(order) - 1, k \in Keys :
          DOMAIN table = 0 .. n - 1 /\ order[n + 1] = k /\ why = Fault(k, n)
  /\ \A e \in DOMAIN table, k \in Keys : order[e + 1] = k =>
       /\ Fault(k, e) = "ok"
       /\ table[e] = [EntryOf(k) EXCEPT !.fanout =
                        IF phase = "done" THEN Fanout(e) ELSE 0]

IngestInv == RawInv /\ ChainInv /\ GraphInv /\ OrderInv /\ TableInv

(***************************************************************************)
(* Least and greatest elements, and places in ascending order.             *)
(***************************************************************************)
\* A non-empty set of naturals has a least element.
LEMMA NatHasLeast ==
  ASSUME NEW S, S \subseteq Nat, S # {}
  PROVE  \E x \in S : \A y \in S : x <= y
<1> DEFINE R == OpToRel(<, Nat)
<1>1. \A x, y \in Nat : (<< x, y >> \in R) <=> x < y
  BY DEF OpToRel
<1>2. IsWellFoundedOn(R, Nat)
  BY NatLessThanWellFounded, Zenon
<1> HIDE DEF R
<1>3. PICK x \in S : \A y \in S : ~ (<< y, x >> \in R)
  BY <1>2, WFMin, Zenon
<1>4. \A y \in S : ~ (y < x) /\ y \in Nat /\ x \in Nat
  BY <1>1, <1>3
<1> QED BY <1>3, <1>4

\* How many come before an element.
Place(S, x) == Cardinality({ y \in S : y < x })

\* A greater element has more elements before it.
LEMMA PlaceGrows ==
  ASSUME NEW S, S \subseteq Int, IsFiniteSet(S), NEW x \in S, NEW y \in S, x < y
  PROVE  Place(S, x) \in Nat /\ Place(S, y) \in Nat /\ Place(S, x) < Place(S, y)
<1> DEFINE X == { z \in S : z < x }
           Y == { z \in S : z < y }
<1>1. IsFiniteSet(X) /\ IsFiniteSet(Y) /\ Cardinality(X) \in Nat /\ Cardinality(Y) \in Nat
  <2>1. X \in SUBSET S /\ Y \in SUBSET S
    OBVIOUS
  <2> QED BY <2>1, FS_Subset, FS_CardinalityType
<1>2. X \in SUBSET Y /\ X # Y
  <2>1. x \in Int /\ y \in Int
    OBVIOUS
  <2>2. x \in Y /\ x \notin X
    BY <2>1
  <2>3. ASSUME NEW z \in X PROVE z \in Y
    <3>1. z \in S /\ z \in Int /\ z < x
      OBVIOUS
    <3> QED BY <2>1, <3>1
  <2> QED BY <2>2, <2>3
<1>3. Cardinality(X) <= Cardinality(Y) /\ Cardinality(X) # Cardinality(Y)
  <2> HIDE DEF X, Y
  <2> QED BY <1>1, <1>2, FS_Subset
<1> QED BY <1>1, <1>3 DEF Place

\* Each place from the first to the last is that of one element.
LEMMA PlacesAll ==
  ASSUME NEW S, S \subseteq Int, IsFiniteSet(S)
  PROVE  /\ Cardinality(S) \in Nat
         /\ \A x \in S : Place(S, x) \in 0 .. Cardinality(S) - 1
         /\ \A x, y \in S : Place(S, x) = Place(S, y) => x = y
         /\ \A n \in 0 .. Cardinality(S) - 1 : \E x \in S : Place(S, x) = n
<1> DEFINE c == Cardinality(S)
           f == [x \in S |-> Place(S, x)]
<1>1. c \in Nat
  BY FS_CardinalityType
<1>2. ASSUME NEW x \in S PROVE Place(S, x) \in 0 .. c - 1
  <2> DEFINE X == { y \in S : y < x }
  <2>1. X \in SUBSET S /\ X # S
    <3>1. x \notin X
      OBVIOUS
    <3> QED BY <3>1
  <2>2. IsFiniteSet(X) /\ Cardinality(X) <= c /\ Cardinality(X) # c /\ Cardinality(X) \in Nat
    <3> HIDE DEF X
    <3> QED BY <2>1, FS_Subset, FS_CardinalityType
  <2> QED BY <1>1, <2>2 DEF Place
<1>3. ASSUME NEW x \in S, NEW y \in S, Place(S, x) = Place(S, y) PROVE x = y
  <2>1. x \in Int /\ y \in Int
    OBVIOUS
  <2>2. ~ (x < y)
    <3> SUFFICES ASSUME x < y PROVE FALSE
      OBVIOUS
    <3>1. Place(S, x) \in Nat /\ Place(S, x) < Place(S, y)
      BY PlaceGrows
    <3> QED BY <1>3, <3>1
  <2>3. ~ (y < x)
    <3> SUFFICES ASSUME y < x PROVE FALSE
      OBVIOUS
    <3>1. Place(S, x) \in Nat /\ Place(S, y) < Place(S, x)
      BY PlaceGrows
    <3> QED BY <1>3, <3>1
  <2> QED BY <2>1, <2>2, <2>3
<1>4. f \in Injection(S, 0 .. c - 1)
  BY <1>2, <1>3 DEF Injection, IsInjective
<1>5. IsFiniteSet(0 .. c - 1) /\ Cardinality(0 .. c - 1) = c
  BY <1>1, FS_Interval
<1>6. f \in Surjection(S, 0 .. c - 1)
  <2> HIDE DEF f
  <2> QED BY <1>4, <1>5, FS_Injection
<1>7. \A n \in 0 .. c - 1 : \E x \in S : f[x] = n
  BY <1>6 DEF Surjection
<1> QED BY <1>1, <1>2, <1>3, <1>7

\* A finite set of naturals has a greatest element: the last one.
LEMMA NatHasGreatest ==
  ASSUME NEW S, S \subseteq Nat, IsFiniteSet(S), S # {}
  PROVE  Max(S) \in S
<1>1. Cardinality(S) \in Nat /\ Cardinality(S) # 0
  BY FS_CardinalityType, FS_EmptySet
<1>2. Cardinality(S) - 1 \in 0 .. Cardinality(S) - 1 /\ S \subseteq Int
  BY <1>1
<1>3. PICK x \in S : Place(S, x) = Cardinality(S) - 1
  BY <1>2, PlacesAll
<1>4. ASSUME NEW y \in S PROVE x >= y
  <2>1. ~ (x < y)
    <3> SUFFICES ASSUME x < y PROVE FALSE
      OBVIOUS
    <3>1. Place(S, x) < Place(S, y)
      BY <1>2, PlaceGrows
    <3>2. Place(S, y) \in 0 .. Cardinality(S) - 1
      BY <1>2, PlacesAll
    <3> QED BY <1>1, <1>3, <3>1, <3>2
  <2> QED BY <2>1
<1> QED BY <1>4 DEF Max

\* sorted(set(...)) has each element once.
LEMMA AscendingFacts ==
  ASSUME NEW S, S \subseteq Nat, IsFiniteSet(S)
  PROVE  /\ Ascending(S) \in Seq(S)
         /\ IsInjective(Ascending(S)) /\ Range(Ascending(S)) = S
<1> DEFINE c == Cardinality(S)
           At(x) == CHOOSE n \in S : Place(S, n) = x - 1
<1>1. c \in Nat /\ S \subseteq Int
  BY FS_CardinalityType
<1>2. Ascending(S) = [x \in 1 .. c |-> At(x)]
  BY DEF Ascending, Place
<1>3. ASSUME NEW x \in 1 .. c PROVE At(x) \in S /\ Place(S, At(x)) = x - 1
  <2>1. x - 1 \in 0 .. c - 1
    BY <1>1
  <2>2. \E n \in S : Place(S, n) = x - 1
    BY <2>1, <1>1, PlacesAll
  <2> QED BY <2>2
<1>4. ASSUME NEW n \in S PROVE \E x \in 1 .. c : At(x) = n
  <2>1. Place(S, n) \in 0 .. c - 1
    BY <1>1, PlacesAll
  <2> DEFINE x == Place(S, n) + 1
  <2>2. x \in 1 .. c /\ x - 1 = Place(S, n)
    BY <1>1, <2>1
  <2>3. At(x) \in S /\ Place(S, At(x)) = Place(S, n)
    BY <1>3, <2>2
  <2>4. At(x) = n
    BY <1>1, <2>3, PlacesAll
  <2> QED BY <2>2, <2>4
<1>5. Ascending(S) \in [1 .. c -> S]
  BY <1>2, <1>3
<1>6. ASSUME NEW x \in 1 .. c, NEW y \in 1 .. c, At(x) = At(y) PROVE x = y
  BY <1>3, <1>6
<1> HIDE DEF At
<1>7. IsInjective(Ascending(S))
  BY <1>2, <1>6 DEF IsInjective
<1>8. Range(Ascending(S)) = S
  <2>1. DOMAIN Ascending(S) = 1 .. c /\ \A x \in 1 .. c : Ascending(S)[x] = At(x)
    BY <1>2
  <2>2. Range(Ascending(S)) = { At(x) : x \in 1 .. c }
    BY <2>1 DEF Range
  <2>3. { At(x) : x \in 1 .. c } \subseteq S
    BY <1>3
  <2>4. S \subseteq { At(x) : x \in 1 .. c }
    BY <1>4
  <2> QED BY <2>2, <2>3, <2>4
<1> QED BY <1>1, <1>5, <1>7, <1>8

\* Something is least in what f measures.
LEMMA LeastBy ==
  ASSUME NEW S, NEW f \in [S -> Nat], S # {}
  PROVE  \E x \in S : \A y \in S : f[x] <= f[y]
<1> DEFINE T == { f[x] : x \in S }
<1>1. T \subseteq Nat /\ T # {}
  OBVIOUS
<1>2. \E n \in T : \A m \in T : n <= m
  BY <1>1, NatHasLeast
<1> QED BY <1>2

\* The image of a finite set.
LEMMA ImageFinite ==
  ASSUME NEW S, IsFiniteSet(S), NEW f, f = [x \in S |-> f[x]]
  PROVE  IsFiniteSet({ f[x] : x \in S })
<1> DEFINE T == { f[x] : x \in S }
<1>1. f \in Surjection(S, T)
  BY DEF Surjection
<1> QED BY <1>1, FS_Surjection

(***************************************************************************)
(* The graph.                                                              *)
(***************************************************************************)
\* An edge from what k does not reach to k closes no cycle: outside a set that
\* holds k, is closed under the edges and does not hold t, nothing comes after
\* anything inside.
LEMMA NoCycleClosed ==
  ASSUME Acyclic(edges), NEW k \in Keys, NEW t \in Keys, ~ Reaches(k, t)
  PROVE  Acyclic(edges \cup { << t, k >> })
<1>1. PICK C \in SUBSET Keys :
        k \in C /\ t \notin C /\ \A e \in edges : e[1] \in C => e[2] \in C
  BY DEF Reaches
<1>2. SUFFICES ASSUME NEW S \in SUBSET Keys, S # {}
               PROVE  \E m \in S : \A l \in S : << l, m >> \notin edges \cup { << t, k >> }
  BY DEF Acyclic
<1>3. CASE S \subseteq C
  <2>1. PICK m \in S : \A l \in S : << l, m >> \notin edges
    BY <1>2 DEF Acyclic
  <2>2. \A l \in S : << l, m >> # << t, k >>
    BY <1>1, <1>3
  <2> QED BY <2>1, <2>2
<1>4. CASE ~ (S \subseteq C)
  <2>1. S \ C \in SUBSET Keys /\ S \ C # {}
    BY <1>4
  <2>2. PICK m \in S \ C : \A l \in S \ C : << l, m >> \notin edges
    BY <2>1 DEF Acyclic
  <2>3. ASSUME NEW l \in S PROVE << l, m >> \notin edges \cup { << t, k >> }
    <3>1. << l, m >> # << t, k >>
      BY <1>1, <2>2
    <3>2. l \in C => << l, m >> \notin edges
      <4> SUFFICES ASSUME l \in C, << l, m >> \in edges PROVE FALSE
        OBVIOUS
      <4>1. << l, m >>[1] = l /\ << l, m >>[2] = m
        OBVIOUS
      <4> QED BY <1>1, <2>2, <4>1
    <3> QED BY <2>2, <3>1, <3>2
  <2> QED BY <2>2, <2>3
<1> QED BY <1>3, <1>4

\* Of entries that are not all placed one can be, unless there is a cycle.
LEMMA HeapNeverEmpty ==
  ASSUME Acyclic(edges), Placed \subseteq Keys, Heap = {}
  PROVE  Placed = Keys
<1> SUFFICES ASSUME Keys \ Placed # {} PROVE FALSE
  OBVIOUS
<1>1. PICK m \in Keys \ Placed : \A l \in Keys \ Placed : << l, m >> \notin edges
  BY DEF Acyclic
<1>2. m \in Heap
  BY <1>1 DEF Heap
<1> QED BY <1>2

(***************************************************************************)
(* Choices: the next job, key and op.                                      *)
(***************************************************************************)
LEMMA RawTypes ==
  ASSUME RawInv, NEW k \in Keys
  PROVE  /\ raw[k].pos \in Nat /\ raw[k].start \in Nat /\ raw[k].dur \in Nat
         /\ raw[k].target \in Seq(STRING) /\ raw[k].impl \in Impls
         /\ raw[k].deps \in SUBSET AllKeys /\ raw[k].tdep \in AllKeys \cup { None }
         /\ raw[k].made \in BOOLEAN /\ Rank[k] \in Nat
         /\ k = << k[1], k[2] >> /\ k[1] \in DOMAIN JobName /\ k[2] \in Nat
<1>1. raw[k] \in RawEntry /\ k \in AllKeys
  BY DEF RawInv
<1> QED BY <1>1, IngestAssumption DEF RawEntry

\* A job has a first entry.
LEMMA FirstIn ==
  ASSUME RawInv, NEW j \in jobs
  PROVE  First(j) \in Keys /\ First(j)[1] = j
<1> DEFINE S == { k \in Keys : k[1] = j }
           f == [k \in S |-> raw[k].pos]
<1>1. S # {}
  BY DEF RawInv
<1>2. f \in [S -> Nat]
  BY RawTypes
<1>3. PICK k \in S : \A l \in S : f[k] <= f[l]
  <2> HIDE DEF f, S
  <2> QED BY <1>1, <1>2, LeastBy
<1>4. k \in Keys /\ k[1] = j /\ \A l \in Keys : l[1] = j => raw[k].pos <= raw[l].pos
  BY <1>3
<1> QED BY <1>4 DEF First

\* The job that completion looks at next is one it has still to look at.
LEMMA NextJobIn ==
  ASSUME RawInv, jobs # {}
  PROVE  NextJob \in jobs
<1> DEFINE f == [j \in jobs |-> raw[First(j)].pos]
<1>1. f \in [jobs -> Nat]
  BY FirstIn, RawTypes
<1>2. PICK j \in jobs : \A l \in jobs : f[j] <= f[l]
  <2> HIDE DEF f
  <2> QED BY <1>1, LeastBy
<1>3. \A l \in jobs : raw[First(j)].pos <= raw[First(l)].pos
  BY <1>2
<1> QED BY <1>3 DEF NextJob

\* Of any entries one is first in the order of the keys.
LEMMA ByRank ==
  ASSUME RawInv, NEW S, S \subseteq Keys, S # {}
  PROVE  \E k \in S : \A l \in S : Rank[k] <= Rank[l]
<1> DEFINE f == [k \in S |-> Rank[k]]
<1>1. f \in [S -> Nat]
  BY RawTypes
<1>2. PICK k \in S : \A l \in S : f[k] <= f[l]
  <2> HIDE DEF f
  <2> QED BY <1>1, LeastBy
<1> QED BY <1>2

\* The heap yields one of its elements.
LEMMA PopsOne ==
  ASSUME RawInv, Heap # {}
  PROVE  (CHOOSE k \in Heap : \A l \in Heap : Before(k, l)) \in Heap
<1> DEFINE f == [k \in Heap |-> raw[k].start]
<1>1. Heap \subseteq Keys
  BY DEF Heap
<1>2. f \in [Heap -> Nat]
  BY <1>1, RawTypes
<1>3. PICK k \in Heap : \A l \in Heap : f[k] <= f[l]
  <2> HIDE DEF f
  <2> QED BY <1>2, LeastBy
<1> DEFINE S == { l \in Heap : raw[l].start = raw[k].start }
<1>4. S \subseteq Keys /\ S # {}
  BY <1>1
<1>5. PICK m \in S : \A l \in S : Rank[m] <= Rank[l]
  <2> HIDE DEF S
  <2> QED BY <1>4, ByRank
<1>6. ASSUME NEW l \in Heap PROVE Before(m, l)
  <2>1. raw[m].start = raw[k].start /\ raw[k].start <= raw[l].start
    BY <1>3, <1>5
  <2>2. raw[k].start \in Nat /\ raw[l].start \in Nat
    BY <1>1, RawTypes
  <2>3. raw[l].start = raw[k].start => Rank[m] <= Rank[l]
    BY <1>5
  <2> QED BY <2>1, <2>2, <2>3 DEF Before
<1>7. m \in Heap
  BY <1>5
<1> QED BY <1>6, <1>7

\* The least of a set of naturals.
LEMMA MinIn ==
  ASSUME NEW S, S \subseteq Nat, S # {}
  PROVE  Min(S) \in S /\ \A x \in S : Min(S) <= x
BY NatHasLeast DEF Min

(***************************************************************************)
(* The IR.                                                                 *)
(***************************************************************************)
LEMMA IROf ==
  ASSUME NEW n \in DOMAIN IR
  PROVE  /\ IR[n] \in Seq([did : Nat, cost : STRING, deps : Seq(Nat)])
         /\ \A x \in DOMAIN IR[n] :
              /\ ToSet(IR[n][x].deps) \subseteq Dids(n)
              /\ \A y \in DOMAIN IR[n] : IR[n][x].did = IR[n][y].did => x = y
BY IngestAssumption

\* A dispatch id of a network finds its op in the IR.
LEMMA OpFacts ==
  ASSUME NEW n \in DOMAIN IR, NEW d \in Dids(n)
  PROVE  /\ \E x \in DOMAIN IR[n] : OpOf(n, d) = IR[n][x] /\ IR[n][x].did = d
         /\ OpOf(n, d).deps \in Seq(Nat) /\ ToSet(OpOf(n, d).deps) \subseteq Dids(n)
         /\ OpOf(n, d).cost \in STRING /\ d \in Nat
<1>1. PICK x \in DOMAIN IR[n] : IR[n][x].did = d
  BY DEF Dids, ToSet
<1>2. OpOf(n, d) \in ToSet(IR[n]) /\ OpOf(n, d).did = d
  BY <1>1 DEF OpOf, ToSet
<1>3. PICK y \in DOMAIN IR[n] : OpOf(n, d) = IR[n][y] /\ IR[n][y].did = d
  BY <1>2 DEF ToSet
<1>4. IR[n][y] \in [did : Nat, cost : STRING, deps : Seq(Nat)]
  <2> DEFINE T == [did : Nat, cost : STRING, deps : Seq(Nat)]
  <2>1. IR[n] \in Seq(T)
    BY IROf
  <2> HIDE DEF T
  <2>2. IR[n][y] \in T
    BY <2>1
  <2> QED BY <2>2 DEF T
<1> QED BY <1>3, <1>4, IROf

(***************************************************************************)
(* Completion.                                                             *)
(***************************************************************************)
LEMMA MissingFacts ==
  ASSUME RawInv, NEW j \in jobs, NEW d \in Missing(j)
  PROVE  /\ j \in DOMAIN JobName /\ Known(j) /\ d \in Dids(Net(j)) /\ d \in Nat
         /\ << j, d >> \in AllKeys \ Keys
<1>1. Known(j) /\ d \in Dids(Net(j)) /\ << j, d >> \notin Keys
  BY DEF Missing
<1>2. j \in DOMAIN JobName
  BY RawTypes DEF RawInv
<1>3. d \in Nat
  BY <1>1, OpFacts DEF Known
<1>4. << j, d >> \in AllKeys
  BY <1>1, <1>2, IngestAssumption
<1> QED BY <1>1, <1>2, <1>3, <1>4

\* A synthesized entry is an entry, with the dependencies it was given.
LEMMA MadeRecord ==
  ASSUME NEW x, NEW c \in Nat, NEW t \in Seq(STRING), NEW D \in SUBSET AllKeys, NEW s \in Nat,
         x = [pos |-> c, target |-> t, impl |-> "", deps |-> D, tdep |-> None,
              start |-> s, dur |-> 0, made |-> TRUE]
  PROVE  x \in RawEntry /\ x.made = TRUE /\ x.deps = D
<1>1. "" \in Impls /\ TRUE \in BOOLEAN /\ 0 \in Nat
  BY IngestAssumption
<1>2. x.made = TRUE /\ x.deps = D
  OBVIOUS
<1>3. x \in RawEntry
  BY <1>1 DEF RawEntry
<1> QED BY <1>2, <1>3

\* A synthesized entry is an entry, and follows its scheduled producers.
LEMMA SynthesizedIsEntry ==
  ASSUME RawInv, NEW j \in jobs, NEW op, op.deps \in Seq(Nat)
  PROVE  /\ Synthesized(j, op) \in RawEntry /\ Synthesized(j, op).made
         /\ Synthesized(j, op).deps = { << j, d >> : d \in ToSet(op.deps) } \cap Keys
<1> DEFINE at   == Scheduled(j, op)
           from == IF at # {} THEN << j, op.deps[Min(at)] >> ELSE First(j)
           g    == [x \in at |-> raw[<< j, op.deps[x] >>].start + raw[<< j, op.deps[x] >>].dur]
           ends == { raw[<< j, op.deps[x] >>].start + raw[<< j, op.deps[x] >>].dur : x \in at }
           deps == { << j, op.deps[x] >> : x \in at }
<1>1. at \subseteq DOMAIN op.deps /\ DOMAIN op.deps = 1 .. Len(op.deps) /\ Len(op.deps) \in Nat
  BY DEF Scheduled
<1>2. IsFiniteSet(at)
  <2>1. IsFiniteSet(1 .. Len(op.deps))
    BY <1>1, FS_Interval
  <2> QED BY <1>1, <2>1, FS_Subset
<1>3. \A x \in at : << j, op.deps[x] >> \in Keys
  BY DEF Scheduled
<1>4. from \in Keys
  <2>1. CASE at # {}
    <3>1. at \subseteq Nat
      BY <1>1
    <3> HIDE DEF at
    <3>2. Min(at) \in at
      BY <2>1, <3>1, MinIn
    <3> QED BY <1>3, <2>1, <3>2
  <2>2. CASE at = {}
    BY <2>2, FirstIn
  <2> QED BY <2>1, <2>2
<1>5. deps = { << j, d >> : d \in ToSet(op.deps) } \cap Keys
  BY DEF Scheduled, ToSet
<1>6. (IF at # {} THEN Max(ends) ELSE raw[from].start) \in Nat
  <2>1. CASE at = {}
    BY <1>4, <2>1, RawTypes
  <2>2. CASE at # {}
    <3>1. ends = { g[x] : x \in at }
      OBVIOUS
    <3>2. IsFiniteSet({ g[x] : x \in at })
      <4>1. g = [x \in at |-> g[x]]
        OBVIOUS
      <4> HIDE DEF g, at
      <4> QED BY <1>2, <4>1, ImageFinite
    <3>3. ends \subseteq Nat
      <4>1. ASSUME NEW x \in at PROVE g[x] \in Nat
        <5>1. raw[<< j, op.deps[x] >>].start \in Nat /\ raw[<< j, op.deps[x] >>].dur \in Nat
          BY <1>3, RawTypes
        <5> QED BY <5>1
      <4> HIDE DEF g, ends, at
      <4> QED BY <3>1, <4>1
    <3>4. ends # {}
      BY <2>2
    <3> HIDE DEF ends, g
    <3>5. Max(ends) \in ends
      BY <3>1, <3>2, <3>3, <3>4, NatHasGreatest
    <3> QED BY <2>2, <3>3, <3>5
  <2> QED BY <2>1, <2>2
<1>7. Cardinality(Keys) \in Nat
  BY FS_CardinalityType DEF RawInv
<1>8. raw[from].target \in Seq(STRING) /\ ScalarCore \in STRING
  BY <1>4, RawTypes, IngestAssumption
<1>9. (IF op.cost = "scalar" THEN << ScalarCore >> ELSE raw[from].target) \in Seq(STRING)
  <2>1. << ScalarCore >> \in Seq(STRING)
    BY <1>8
  <2>2. CASE op.cost = "scalar"
    BY <2>1, <2>2
  <2>3. CASE op.cost # "scalar"
    BY <1>8, <2>3
  <2> QED BY <2>2, <2>3
<1>10. deps \in SUBSET AllKeys
  BY <1>5 DEF RawInv
<1>11. Synthesized(j, op) =
         [pos    |-> Cardinality(Keys),
          target |-> IF op.cost = "scalar" THEN << ScalarCore >> ELSE raw[from].target,
          impl   |-> "", deps |-> deps, tdep |-> None,
          start  |-> IF at # {} THEN Max(ends) ELSE raw[from].start,
          dur    |-> 0, made |-> TRUE]
  BY DEF Synthesized
<1> HIDE DEF at, from, ends, deps, g
<1>12. /\ Synthesized(j, op) \in RawEntry
       /\ Synthesized(j, op).made = TRUE /\ Synthesized(j, op).deps = deps
  <2> DEFINE tgt == IF op.cost = "scalar" THEN << ScalarCore >> ELSE raw[from].target
             st  == IF at # {} THEN Max(ends) ELSE raw[from].start
             c   == Cardinality(Keys)
  <2>1. tgt \in Seq(STRING)
    BY <1>9, Zenon
  <2>2. st \in Nat
    BY <1>6, Zenon
  <2>3. c \in Nat
    BY <1>7
  <2>4. Synthesized(j, op) =
          [pos |-> c, target |-> tgt, impl |-> "", deps |-> deps, tdep |-> None,
           start |-> st, dur |-> 0, made |-> TRUE]
    BY <1>11, Zenon
  <2> HIDE DEF tgt, st, c
  <2> QED BY <1>10, <2>1, <2>2, <2>3, <2>4, MadeRecord
<1> QED BY <1>5, <1>12

\* What a step of completion does to the schedule.
LEMMA SynthesizeEffect ==
  ASSUME RawInv, Synthesize
  PROVE  \E j, d :
           /\ j = NextJob /\ j \in jobs /\ d \in Missing(j)
           /\ Keys' = Keys \cup { << j, d >> }
           /\ raw' = [k \in Keys' |-> raw'[k]]
           /\ \A k \in Keys : raw'[k] = raw[k]
           /\ raw'[<< j, d >>] \in RawEntry /\ raw'[<< j, d >>].made
           /\ raw'[<< j, d >>].deps = IRDeps(<< j, d >>) \cap Keys
<1> DEFINE j == NextJob
           d == Min(Missing(j))
<1>1. j \in jobs /\ Missing(j) # {}
  BY NextJobIn DEF Synthesize
<1>2. Missing(j) \subseteq Nat
  BY <1>1, MissingFacts
<1>3. d \in Missing(j)
  <2> HIDE DEF j
  <2> QED BY <1>1, <1>2, MinIn
<1>4. raw' = [k \in Keys \cup { << j, d >> } |->
                IF k = << j, d >> THEN Synthesized(j, OpOf(Net(j), d)) ELSE raw[k]]
  BY DEF Synthesize
<1> HIDE DEF j, d
<1>5. << j, d >> \notin Keys /\ Net(j) \in DOMAIN IR /\ d \in Dids(Net(j))
  BY <1>1, <1>3, MissingFacts DEF Known
<1>6. OpOf(Net(j), d).deps \in Seq(Nat)
  BY <1>5, OpFacts
<1>7. raw'[<< j, d >>] = Synthesized(j, OpOf(Net(j), d))
  BY <1>4
<1>8. IRDeps(<< j, d >>) = { << j, x >> : x \in ToSet(OpOf(Net(j), d).deps) }
  BY DEF IRDeps
<1>9. /\ raw'[<< j, d >>] \in RawEntry /\ raw'[<< j, d >>].made
      /\ raw'[<< j, d >>].deps = IRDeps(<< j, d >>) \cap Keys
  BY <1>1, <1>6, <1>7, <1>8, SynthesizedIsEntry
<1>10. Keys' = Keys \cup { << j, d >> }
  BY <1>4 DEF Keys
<1>11. raw' = [k \in Keys' |-> raw'[k]] /\ \A k \in Keys : raw'[k] = raw[k]
  BY <1>4, <1>5, <1>10
<1>12. j = NextJob
  BY DEF j
<1> QED BY <1>1, <1>3, <1>9, <1>10, <1>11, <1>12

\* Threading a job only adds to the dependencies of its entries: all their synthesized
\* producers.
LEMMA ThreadEffect ==
  ASSUME RawInv, ThreadJob
  PROVE  /\ NextJob \in jobs /\ Missing(NextJob) = {} /\ jobs' = jobs \ { NextJob }
         /\ raw' = [k \in Keys |-> raw'[k]]
         /\ \A k \in Keys :
              /\ raw'[k] \in RawEntry /\ raw'[k].made = raw[k].made
              /\ raw[k].deps \subseteq raw'[k].deps
              /\ k[1] # NextJob => raw'[k] = raw[k]
              /\ k[1] = NextJob /\ InIR(k) => MadeFor(k) \subseteq raw'[k].deps
<1>1. NextJob \in jobs /\ Missing(NextJob) = {} /\ jobs' = jobs \ { NextJob }
  BY NextJobIn DEF ThreadJob
<1>2. raw' = [k \in Keys |->
                IF k[1] = NextJob /\ InIR(k)
                  THEN [raw[k] EXCEPT !.deps = raw[k].deps \cup MadeFor(k)] ELSE raw[k]]
  BY DEF ThreadJob, Thread, InIR
<1>3. ASSUME NEW k \in Keys
      PROVE  /\ raw'[k] \in RawEntry /\ raw'[k].made = raw[k].made
             /\ raw[k].deps \subseteq raw'[k].deps
             /\ k[1] # NextJob => raw'[k] = raw[k]
             /\ k[1] = NextJob /\ InIR(k) => MadeFor(k) \subseteq raw'[k].deps
  <2>1. raw[k] \in RawEntry
    BY DEF RawInv
  <2>2. MadeFor(k) \subseteq AllKeys
    BY DEF MadeFor, RawInv
  <2>3. CASE k[1] = NextJob /\ InIR(k)
    <3>1. raw'[k] = [raw[k] EXCEPT !.deps = raw[k].deps \cup MadeFor(k)]
      BY <1>2, <2>3
    <3> HIDE DEF InIR
    <3> QED BY <2>1, <2>2, <2>3, <3>1 DEF RawEntry
  <2>4. CASE ~ (k[1] = NextJob /\ InIR(k))
    <3>1. raw'[k] = raw[k]
      BY <1>2, <2>4
    <3> QED BY <2>1, <2>4, <3>1
  <2> QED BY <2>3, <2>4
<1>4. raw' = [k \in Keys |-> raw'[k]]
  BY <1>2
<1> QED BY <1>1, <1>3, <1>4

\* The loops after the completion leave the schedule alone.
LEMMA CompletionSteps ==
  ASSUME [Next]_vars, ~ Synthesize, ~ ThreadJob
  PROVE  UNCHANGED << raw, jobs >>
BY DEF Next, vars, BuildGraph, AdmitTimeDep, Pop, Sorted, EmitEntry, CountFanout

\* A schedule as it is read has the types.
LEMMA RawInit ==
  ASSUME Init PROVE RawInv
BY IngestAssumption DEF Init, RawInv, Keys

\* Every step keeps the types of the schedule.
LEMMA RawStep ==
  ASSUME RawInv, [Next]_vars
  PROVE  RawInv'
<1>1. CASE Synthesize
  <2>1. PICK j, d :
           /\ j \in jobs /\ d \in Missing(j)
           /\ Keys' = Keys \cup { << j, d >> }
           /\ raw' = [k \in Keys' |-> raw'[k]]
           /\ \A k \in Keys : raw'[k] = raw[k]
           /\ raw'[<< j, d >>] \in RawEntry
    BY <1>1, SynthesizeEffect
  <2>2. << j, d >> \in AllKeys
    BY <2>1, MissingFacts
  <2>3. IsFiniteSet(Keys')
    BY <2>1, FS_AddElement DEF RawInv
  <2>4. Keys' \subseteq AllKeys
    BY <2>1, <2>2 DEF RawInv
  <2>5. \A k \in Keys' : raw'[k] \in RawEntry
    BY <2>1 DEF RawInv
  <2>6. raw' \in [Keys' -> RawEntry]
    <3> DEFINE K == Keys'
    <3>1. raw' = [k \in K |-> raw'[k]] /\ \A k \in K : raw'[k] \in RawEntry
      BY <2>1, <2>5
    <3> HIDE DEF K
    <3>2. raw' \in [K -> RawEntry]
      BY <3>1
    <3> QED BY <3>2 DEF K
  <2>7. jobs' \subseteq { k[1] : k \in Keys' }
    <3>1. jobs' = jobs
      BY <1>1 DEF Synthesize
    <3> QED BY <2>1, <3>1 DEF RawInv
  <2> QED BY <2>3, <2>4, <2>6, <2>7 DEF RawInv
<1>2. CASE ThreadJob
  <2>1. /\ jobs' \subseteq jobs /\ raw' = [k \in Keys |-> raw'[k]]
        /\ \A k \in Keys : raw'[k] \in RawEntry
    BY <1>2, ThreadEffect
  <2>2. Keys' = Keys
    BY <2>1 DEF Keys
  <2>3. raw' \in [Keys -> RawEntry]
    BY <2>1
  <2> QED BY <2>1, <2>2, <2>3 DEF RawInv
<1>3. CASE ~ Synthesize /\ ~ ThreadJob
  <2>1. UNCHANGED << raw, jobs >>
    BY <1>3, CompletionSteps
  <2> QED BY <2>1 DEF RawInv, Keys
<1> QED BY <1>1, <1>2, <1>3

\* A schedule as it is read has no synthesized ops, and all its jobs are still to be
\* looked at.
LEMMA ChainInit ==
  ASSUME Init PROVE ChainInv
BY IngestAssumption DEF Init, ChainInv, Keys

\* Every step keeps synthesized ops chained.
LEMMA ChainStep ==
  ASSUME RawInv, ChainInv, [Next]_vars
  PROVE  ChainInv'
<1>1. \A k : MadeFor(k) = { l \in IRDeps(k) \cap Keys : raw[l].made }
  BY DEF MadeFor, IRDeps
<1>2. \A k : MadeFor(k)' = { l \in IRDeps(k) \cap Keys' : raw'[l].made }
  BY DEF MadeFor, IRDeps, Keys
<1>3. \A k : (InIR(k)' <=> InIR(k)) /\ IRDeps(k)' = IRDeps(k)
  BY DEF InIR, IRDeps, Known, Net, Dids, OpOf
<1>4. \A k, l : l \in IRDeps(k) => l[1] = k[1]
  BY DEF IRDeps
<1>5. CASE Synthesize
  <2>1. PICK j, d :
           /\ j \in jobs /\ d \in Missing(j)
           /\ Keys' = Keys \cup { << j, d >> }
           /\ \A k \in Keys : raw'[k] = raw[k]
           /\ raw'[<< j, d >>].made
           /\ raw'[<< j, d >>].deps = IRDeps(<< j, d >>) \cap Keys
    BY <1>5, SynthesizeEffect
  <2>2. jobs' = jobs
    BY <1>5 DEF Synthesize
  <2> DEFINE n == << j, d >>
  <2>3. n \notin Keys /\ InIR(n) /\ n[1] = j
    BY <2>1, MissingFacts DEF InIR
  <2>4. ASSUME NEW k \in Keys', raw'[k].made
        PROVE  /\ InIR(k)
               /\ \A l \in IRDeps(k) \cap Keys' : ~ raw'[l].made => l \in raw'[k].deps
    <3>1. ASSUME NEW l \in Keys', ~ raw'[l].made PROVE l \in Keys /\ ~ raw[l].made
      BY <2>1, <3>1
    <3>2. CASE k = n
      <4> HIDE DEF n
      <4> QED BY <2>1, <2>3, <3>1, <3>2 DEF n
    <3>3. CASE k # n
      <4>1. k \in Keys /\ raw'[k] = raw[k]
        BY <2>1, <3>3
      <4> QED BY <2>4, <3>1, <4>1 DEF ChainInv
    <3> QED BY <3>2, <3>3
  <2>5. ASSUME NEW k \in Keys', k[1] \notin jobs'
        PROVE  /\ Missing(k[1])' = {}
               /\ InIR(k) => MadeFor(k)' \subseteq raw'[k].deps
    <3>1. k \in Keys /\ k[1] # j /\ raw'[k] = raw[k]
      BY <2>1, <2>2, <2>3, <2>5
    <3>2. Missing(k[1])' \subseteq Missing(k[1])
      BY <2>1 DEF Missing, Known, Dids, Net, Keys
    <3>3. MadeFor(k)' \subseteq MadeFor(k)
      <4> SUFFICES ASSUME NEW l \in MadeFor(k)' PROVE l \in MadeFor(k)
        OBVIOUS
      <4>1. l \in IRDeps(k) /\ l \in Keys' /\ raw'[l].made
        BY <1>2
      <4>2. l # n
        BY <1>4, <2>3, <3>1, <4>1
      <4>3. l \in Keys /\ raw'[l] = raw[l]
        BY <2>1, <4>1, <4>2
      <4> QED BY <1>1, <4>1, <4>3
    <3> QED BY <2>2, <2>5, <3>1, <3>2, <3>3 DEF ChainInv
  <2> QED BY <1>3, <2>4, <2>5 DEF ChainInv
<1>6. CASE ThreadJob
  <2>1. /\ Missing(NextJob) = {} /\ jobs' = jobs \ { NextJob }
        /\ raw' = [k \in Keys |-> raw'[k]]
        /\ \A k \in Keys :
              /\ raw'[k].made = raw[k].made /\ raw[k].deps \subseteq raw'[k].deps
              /\ k[1] # NextJob => raw'[k] = raw[k]
              /\ k[1] = NextJob /\ InIR(k) => MadeFor(k) \subseteq raw'[k].deps
    BY <1>6, ThreadEffect
  <2>2. Keys' = Keys
    BY <2>1 DEF Keys
  <2>3. \A k \in Keys : MadeFor(k)' = MadeFor(k)
    BY <1>1, <1>2, <2>1, <2>2
  <2>4. \A i : Missing(i)' = Missing(i)
    BY <2>2 DEF Missing, Known, Dids, Net, Keys
  <2>5. ASSUME NEW k \in Keys, raw'[k].made
        PROVE  /\ InIR(k)
               /\ \A l \in IRDeps(k) \cap Keys : ~ raw'[l].made => l \in raw'[k].deps
    BY <2>1, <2>5 DEF ChainInv
  <2>6. ASSUME NEW k \in Keys, k[1] \notin jobs'
        PROVE  Missing(k[1]) = {} /\ (InIR(k) => MadeFor(k) \subseteq raw'[k].deps)
    <3>1. CASE k[1] = NextJob
      BY <2>1, <3>1
    <3>2. CASE k[1] # NextJob
      BY <2>1, <2>6, <3>2 DEF ChainInv
    <3> QED BY <3>1, <3>2
  <2> QED BY <1>3, <2>2, <2>3, <2>4, <2>5, <2>6 DEF ChainInv
<1>7. CASE ~ Synthesize /\ ~ ThreadJob
  <2>1. UNCHANGED << raw, jobs >>
    BY <1>7, CompletionSteps
  <2>2. Keys' = Keys
    BY <2>1 DEF Keys
  <2>3. \A k : MadeFor(k)' = MadeFor(k)
    BY <1>1, <1>2, <2>1, <2>2
  <2>4. \A i : Missing(i)' = Missing(i)
    BY <2>2 DEF Missing, Known, Dids, Net, Keys
  <2> QED BY <1>3, <2>1, <2>2, <2>3, <2>4 DEF ChainInv
<1> QED BY <1>5, <1>6, <1>7

\* There is no graph when a schedule is read.
LEMMA GraphInit ==
  ASSUME Init PROVE GraphInv
BY DEF Init, GraphInv

\* Every step keeps the graph acyclic where the data dependencies are, and loses no edge.
LEMMA GraphStep ==
  ASSUME RawInv, GraphInv, [Next]_vars
  PROVE  GraphInv'
<1>1. CASE Synthesize
  <2>1. phase = "complete" /\ UNCHANGED << phase, todo, edges, dropped >>
    BY <1>1 DEF Synthesize
  <2>2. todo = {}
    BY <2>1 DEF GraphInv
  <2>3. Keys \subseteq Keys'
    BY <1>1, SynthesizeEffect
  <2> QED BY <2>1, <2>2, <2>3 DEF GraphInv
<1>2. CASE ThreadJob
  <2>1. phase = "complete" /\ UNCHANGED << phase, todo, edges, dropped >>
    BY <1>2 DEF ThreadJob
  <2>2. todo = {}
    BY <2>1 DEF GraphInv
  <2>3. Keys' = Keys
    BY <1>2, ThreadEffect DEF Keys
  <2> QED BY <2>1, <2>2, <2>3 DEF GraphInv
<1>3. CASE BuildGraph
  <2>1. /\ jobs = {} /\ phase' = "admit" /\ edges' = DataEdges
        /\ todo' = { k \in Keys : raw[k].tdep \in Keys }
        /\ UNCHANGED << raw, jobs, dropped >>
    BY <1>3 DEF BuildGraph
  <2>2. Keys' = Keys /\ DataEdges' = DataEdges
    BY <2>1 DEF Keys, DataEdges
  <2>3. DataEdges \subseteq Keys \X Keys
    BY DEF DataEdges
  <2>4. edges' \subseteq Keys' \X Keys' /\ todo' \subseteq Keys' /\ dropped' \subseteq Keys'
    BY <2>1, <2>2, <2>3 DEF GraphInv
  <2>5. Acyclic(DataEdges)' => Acyclic(edges)'
    BY <2>1, <2>2 DEF Acyclic
  <2> QED BY <2>1, <2>2, <2>4, <2>5 DEF GraphInv
<1>4. CASE AdmitTimeDep
  <2> DEFINE m == CHOOSE x \in todo : \A y \in todo : Rank[x] <= Rank[y]
  <2>1. phase = "admit" /\ todo # {} /\ UNCHANGED << raw, phase, jobs >>
    BY <1>4 DEF AdmitTimeDep
  <2>2. m \in todo
    BY <2>1, ByRank DEF GraphInv
  <2>3. /\ todo' = todo \ { m }
        /\ IF Reaches(m, raw[m].tdep)
             THEN dropped' = dropped \cup { m } /\ UNCHANGED edges
             ELSE edges' = edges \cup { << raw[m].tdep, m >> } /\ UNCHANGED dropped
    BY <1>4 DEF AdmitTimeDep
  <2>4. PICK k : k = m
    OBVIOUS
  <2> HIDE DEF m
  <2>5. PICK t : t = raw[k].tdep
    OBVIOUS
  <2>6. k \in todo /\ k \in Keys /\ t \in Keys /\ todo' = todo \ { k }
    BY <2>2, <2>3, <2>4, <2>5 DEF GraphInv
  <2>7. Keys' = Keys /\ DataEdges' = DataEdges
    BY <2>1 DEF Keys, DataEdges
  <2>8. Acyclic(DataEdges)' <=> Acyclic(DataEdges)
    BY <2>7 DEF Acyclic
  <2>9. /\ jobs = {} /\ DataEdges \subseteq edges
        /\ Acyclic(DataEdges) => Acyclic(edges)
        /\ \A i \in Keys : raw[i].tdep \in Keys =>
             i \in todo \cup dropped \/ << raw[i].tdep, i >> \in edges
    BY <2>1 DEF GraphInv
  <2>10. CASE Reaches(k, t)
    <3>1. dropped' = dropped \cup { k } /\ UNCHANGED edges
      BY <2>3, <2>4, <2>5, <2>10
    <3>2. Acyclic(edges)' <=> Acyclic(edges)
      BY <2>7, <3>1 DEF Acyclic
    <3> HIDE DEF m
    <3>3. \A i \in Keys : raw[i].tdep \in Keys =>
             i \in todo' \cup dropped' \/ << raw[i].tdep, i >> \in edges'
      BY <2>6, <2>9, <3>1
    <3> QED BY <2>1, <2>6, <2>7, <2>8, <2>9, <3>1, <3>2, <3>3 DEF GraphInv
  <2>11. CASE ~ Reaches(k, t)
    <3>1. edges' = edges \cup { << t, k >> } /\ UNCHANGED dropped
      BY <2>3, <2>4, <2>5, <2>11
    <3>2. Acyclic(edges) => Acyclic(edges \cup { << t, k >> })
      BY <2>6, <2>11, NoCycleClosed
    <3>3. Acyclic(edges)' <=> Acyclic(edges \cup { << t, k >> })
      BY <2>7, <3>1 DEF Acyclic
    <3>4. \A i \in Keys : raw[i].tdep \in Keys =>
             i \in todo' \cup dropped' \/ << raw[i].tdep, i >> \in edges'
      BY <2>5, <2>6, <2>9, <3>1
    <3>5. edges' \subseteq Keys \X Keys
      BY <2>6, <3>1 DEF GraphInv
    <3> QED BY <2>1, <2>6, <2>7, <2>8, <2>9, <3>1, <3>2, <3>3, <3>4, <3>5 DEF GraphInv
  <2> QED BY <2>10, <2>11
<1>5. CASE ~ Synthesize /\ ~ ThreadJob /\ ~ BuildGraph /\ ~ AdmitTimeDep
  <2>1. UNCHANGED << raw, jobs, todo, edges, dropped >>
    BY <1>5 DEF Next, vars, Pop, Sorted, EmitEntry, CountFanout
  <2>2. \/ UNCHANGED phase
        \/ phase # "complete" /\ phase' \in { "admit", "sort", "emit", "done", "error" }
    BY <1>5 DEF Next, vars, Pop, Sorted, EmitEntry, CountFanout
  <2>3. Keys' = Keys /\ DataEdges' = DataEdges
    BY <2>1 DEF Keys, DataEdges
  <2>4. (Acyclic(DataEdges)' <=> Acyclic(DataEdges)) /\ (Acyclic(edges)' <=> Acyclic(edges))
    BY <2>1, <2>3 DEF Acyclic
  <2>5. phase' = "complete" => phase = "complete"
    BY <2>2
  <2>6. phase = "complete" => phase' = "complete"
    BY <2>2
  <2>7. phase' \in { "complete", "admit", "sort", "emit", "done", "error" }
    BY <2>2 DEF GraphInv
  <2> QED BY <2>1, <2>3, <2>4, <2>5, <2>6, <2>7 DEF GraphInv
<1> QED BY <1>1, <1>2, <1>3, <1>4, <1>5

\* Nothing is sorted when a schedule is read.
LEMMA OrderInit ==
  ASSUME Init PROVE OrderInv
BY DEF Init, OrderInv, Placed, ToSet

\* Every step keeps what is sorted in the order of the edges.
LEMMA OrderStep ==
  ASSUME RawInv, GraphInv, OrderInv, [Next]_vars
  PROVE  OrderInv'
<1>1. CASE Synthesize \/ ThreadJob \/ BuildGraph \/ AdmitTimeDep
  <2>1. /\ phase \in { "complete", "admit" } /\ phase' \in { "complete", "admit" }
        /\ UNCHANGED << why, order >>
    BY <1>1 DEF Synthesize, ThreadJob, BuildGraph, AdmitTimeDep
  <2>2. order' = << >> /\ why' = "none"
    BY <2>1 DEF OrderInv
  <2> QED BY <2>1, <2>2 DEF OrderInv
<1>2. CASE Pop
  <2> DEFINE m == CHOOSE k \in Heap : \A l \in Heap : Before(k, l)
  <2>1. /\ phase \in { "admit", "sort" } /\ Heap # {} /\ phase' = "sort"
        /\ phase = "admit" => todo = {}
        /\ order' = Append(order, m) /\ UNCHANGED << raw, why, todo, edges >>
    BY <1>2 DEF Pop
  <2>2. m \in Heap
    BY <2>1, PopsOne
  <2>3. PICK k : k = m
    OBVIOUS
  <2> HIDE DEF m
  <2>4. /\ k \in Keys /\ k \notin Placed
        /\ \A p \in Keys : << p, k >> \in edges => p \in Placed
    BY <2>2, <2>3 DEF Heap
  <2>5. order \in Seq(Keys) /\ Keys' = Keys /\ order' = Append(order, k)
    BY <2>1, <2>3 DEF OrderInv, Keys
  <2>6. /\ order' \in Seq(Keys) /\ Len(order') = Len(order) + 1 /\ Len(order) \in Nat
        /\ \A n \in 1 .. Len(order) : order'[n] = order[n]
        /\ order'[Len(order) + 1] = k
        /\ DOMAIN order = 1 .. Len(order) /\ DOMAIN order' = 1 .. Len(order) + 1
    BY <2>4, <2>5
  <2>7. \A n \in 1 .. Len(order) : order[n] \in Placed
    BY <2>6 DEF Placed, ToSet
  <2>8. \A n, i \in DOMAIN order' : order'[n] = order'[i] => n = i
    <3> SUFFICES ASSUME NEW n \in DOMAIN order', NEW i \in DOMAIN order',
                        order'[n] = order'[i]
                 PROVE  n = i
      OBVIOUS
    <3>1. CASE n \in 1 .. Len(order) /\ i \in 1 .. Len(order)
      BY <2>6, <3>1 DEF OrderInv
    <3>2. CASE n \notin 1 .. Len(order) /\ i \notin 1 .. Len(order)
      BY <2>6, <3>2
    <3>3. CASE n \in 1 .. Len(order) /\ i \notin 1 .. Len(order)
      <4>1. i = Len(order) + 1
        BY <2>6, <3>3
      <4> QED BY <2>4, <2>6, <2>7, <3>3, <4>1
    <3>4. CASE n \notin 1 .. Len(order) /\ i \in 1 .. Len(order)
      <4>1. n = Len(order) + 1
        BY <2>6, <3>4
      <4> QED BY <2>4, <2>6, <2>7, <3>4, <4>1
    <3> QED BY <3>1, <3>2, <3>3, <3>4
  <2>9. ASSUME NEW n \in DOMAIN order', NEW p \in Keys, << p, order'[n] >> \in edges
        PROVE  \E i \in 1 .. n - 1 : order'[i] = p
    <3>1. CASE n \in 1 .. Len(order)
      <4>1. PICK i \in 1 .. n - 1 : order[i] = p
        BY <2>6, <2>9, <3>1 DEF OrderInv
      <4>2. i \in 1 .. Len(order)
        BY <2>6, <3>1
      <4> QED BY <2>6, <4>1, <4>2
    <3>2. CASE n = Len(order) + 1
      <4>1. p \in Placed
        BY <2>4, <2>6, <2>9, <3>2
      <4>2. PICK i \in 1 .. Len(order) : order[i] = p
        BY <2>6, <4>1 DEF Placed, ToSet
      <4> QED BY <2>6, <3>2, <4>2
    <3> QED BY <2>6, <3>1, <3>2
  <2>10. why' = "none"
    BY <2>1 DEF OrderInv
  <2>11. todo' = {}
    BY <2>1 DEF OrderInv
  <2> QED BY <2>1, <2>5, <2>6, <2>8, <2>9, <2>10, <2>11 DEF OrderInv
<1>3. CASE Sorted
  <2>1. /\ phase \in { "admit", "sort" } /\ Heap = {}
        /\ phase = "admit" => todo = {}
        /\ UNCHANGED << raw, jobs, todo, edges, order >>
        /\ IF Placed = Keys THEN phase' = "emit" /\ UNCHANGED why
                            ELSE phase' = "error" /\ why' = "cycle"
    BY <1>3 DEF Sorted
  <2>2. Keys' = Keys /\ DataEdges' = DataEdges /\ Placed' = Placed
    BY <2>1 DEF Keys, DataEdges, Placed
  <2>3. Acyclic(DataEdges)' <=> Acyclic(DataEdges)
    BY <2>2 DEF Acyclic
  <2>4. Placed \subseteq Keys
    BY DEF OrderInv, Placed, ToSet
  <2>5. Placed # Keys => ~ Acyclic(DataEdges)
    BY <2>1, <2>4, HeapNeverEmpty DEF GraphInv
  <2>6. todo' = {} /\ why = "none"
    BY <2>1 DEF OrderInv
  <2> QED BY <2>1, <2>2, <2>3, <2>5, <2>6 DEF OrderInv
<1>4. CASE EmitEntry
  <2>1. /\ phase = "emit" /\ UNCHANGED << raw, todo, edges, order >>
        /\ \/ UNCHANGED << phase, why >>
           \/ /\ phase' = "error"
              /\ why' = Fault(order[Cardinality(DOMAIN table) + 1], Cardinality(DOMAIN table))
    BY <1>4 DEF EmitEntry
  <2>2. \A k, id : Fault(k, id) # "cycle"
    BY DEF Fault
  <2>3. Keys' = Keys /\ Placed' = Placed
    BY <2>1 DEF Keys, Placed
  <2>4. why' # "cycle" /\ phase' \in { "emit", "error" } /\ (phase' # "error" => why' = "none")
    BY <2>1, <2>2 DEF OrderInv
  <2> QED BY <2>1, <2>3, <2>4 DEF OrderInv
<1>5. CASE CountFanout
  <2>1. phase = "emit" /\ phase' = "done" /\ UNCHANGED << raw, why, todo, edges, order >>
    BY <1>5 DEF CountFanout
  <2>2. Keys' = Keys /\ Placed' = Placed /\ why' = "none"
    BY <2>1 DEF Keys, Placed, OrderInv
  <2> QED BY <2>1, <2>2 DEF OrderInv
<1>6. CASE UNCHANGED vars
  <2>1. Keys' = Keys /\ Placed' = Placed /\ DataEdges' = DataEdges
    BY <1>6 DEF vars, Keys, Placed, DataEdges
  <2>2. Acyclic(DataEdges)' <=> Acyclic(DataEdges)
    BY <2>1 DEF Acyclic
  <2> QED BY <1>6, <2>1, <2>2 DEF OrderInv, vars
<1> QED BY <1>1, <1>2, <1>3, <1>4, <1>5, <1>6 DEF Next

(***************************************************************************)
(* The table.                                                              *)
(***************************************************************************)
HartsOf(k) == [x \in DOMAIN raw[k].target |-> Cores[raw[k].target[x]].hart]
DepIds(k)  == { Id(d) : d \in raw[k].deps }
TdepId(k)  == IF raw[k].tdep = None THEN -1 ELSE Id(raw[k].tdep)

Counted(k, v) == [EntryOf(k) EXCEPT !.fanout = v]

\* The fields of an entry, whatever its fanout is set to.
LEMMA EntryFields ==
  ASSUME NEW k, NEW v, NEW y, y = Counted(k, v)
  PROVE  /\ y.net = Net(k[1]) /\ y.inst = Inst(k[1])
         /\ y.disp = Remap(Net(k[1]), k[2])
         /\ y.harts = HartsOf(k)
         /\ y.deps = Ascending(DepIds(k)) /\ y.deps = EntryOf(k).deps
         /\ y.tdep = TdepId(k) /\ y.tdep = EntryOf(k).tdep
         /\ y.fanout = v /\ y.start = raw[k].start
<1> DEFINE knd == Cores[raw[k].target[1]].kind
           imp == IF raw[k].impl = "" THEN knd ELSE raw[k].impl
           hts == HartsOf(k)
           dps == Ascending(DepIds(k))
           tdp == TdepId(k)
<1>1. EntryOf(k) = [net |-> Net(k[1]), inst |-> Inst(k[1]), disp |-> Remap(Net(k[1]), k[2]),
                    kind |-> knd, impl |-> imp, harts |-> hts, deps |-> dps, tdep |-> tdp,
                    fanout |-> 0, start |-> raw[k].start]
  BY DEF EntryOf, HartsOf, DepIds, TdepId
<1> HIDE DEF knd, imp, hts, dps, tdp
<1>2. PICK x : x = EntryOf(k)
  OBVIOUS
<1>3. \A u : [x EXCEPT !.fanout = u] =
        [net |-> Net(k[1]), inst |-> Inst(k[1]), disp |-> Remap(Net(k[1]), k[2]),
         kind |-> knd, impl |-> imp, harts |-> hts, deps |-> dps, tdep |-> tdp,
         fanout |-> u, start |-> raw[k].start]
  BY <1>1, <1>2
<1>4. y = [net |-> Net(k[1]), inst |-> Inst(k[1]), disp |-> Remap(Net(k[1]), k[2]),
           kind |-> knd, impl |-> imp, harts |-> hts, deps |-> dps, tdep |-> tdp,
           fanout |-> v, start |-> raw[k].start]
  BY <1>2, <1>3 DEF Counted
<1>5. /\ y.net = Net(k[1]) /\ y.inst = Inst(k[1]) /\ y.disp = Remap(Net(k[1]), k[2])
      /\ y.harts = hts /\ y.deps = dps /\ y.tdep = tdp
      /\ y.fanout = v /\ y.start = raw[k].start
  BY <1>4
<1>6. y.deps = EntryOf(k).deps /\ y.tdep = EntryOf(k).tdep
  BY <1>1, <1>5
<1> QED BY <1>5, <1>6 DEF hts, dps, tdp

\* An entry that is made, and one that is counted again.
LEMMA EntryCounted ==
  ASSUME NEW k
  PROVE  /\ EntryOf(k) = Counted(k, 0)
         /\ \A v, w, y : y = Counted(k, v) => [y EXCEPT !.fanout = w] = Counted(k, w)
<1> DEFINE knd == Cores[raw[k].target[1]].kind
           imp == IF raw[k].impl = "" THEN knd ELSE raw[k].impl
           R(u) == [net |-> Net(k[1]), inst |-> Inst(k[1]), disp |-> Remap(Net(k[1]), k[2]),
                    kind |-> knd, impl |-> imp, harts |-> HartsOf(k),
                    deps |-> Ascending(DepIds(k)), tdep |-> TdepId(k),
                    fanout |-> u, start |-> raw[k].start]
<1>1. EntryOf(k) = R(0)
  BY DEF EntryOf, HartsOf, DepIds, TdepId
<1> HIDE DEF knd, imp
<1>2. ASSUME NEW x, NEW v, NEW w, x = R(v) PROVE [x EXCEPT !.fanout = w] = R(w)
  BY <1>2
<1> HIDE DEF R
<1>3. PICK x : x = EntryOf(k)
  OBVIOUS
<1>4. \A u : [x EXCEPT !.fanout = u] = R(u)
  BY <1>1, <1>2, <1>3
<1>5. \A u : Counted(k, u) = R(u)
  BY <1>3, <1>4 DEF Counted
<1> QED BY <1>1, <1>2, <1>5

\* There is no table when a schedule is read.
LEMMA TableInit ==
  ASSUME Init PROVE TableInv
<1>1. phase = "complete" /\ why = "none" /\ order = << >> /\ table = << >>
  BY DEF Init
<1>2. DOMAIN table = {} /\ Len(order) = 0
  BY <1>1
<1>3. 0 \in 0 .. Len(order) /\ DOMAIN table = 0 .. 0 - 1
  BY <1>2
<1>4. table = [e \in DOMAIN table |-> table[e]]
  BY <1>1
<1> QED BY <1>1, <1>2, <1>3, <1>4 DEF TableInv

\* What the table is like depends on the schedule, the order and itself.
LEMMA TableSame ==
  ASSUME UNCHANGED << raw, order >>
  PROVE  /\ \A k, id : Fault(k, id)' = Fault(k, id)
         /\ \A k : EntryOf(k)' = EntryOf(k)
<1>1. Keys' = Keys /\ \A k : Id(k)' = Id(k)
  BY DEF Keys, Id
<1>2. \A k, id : Fault(k, id)' = Fault(k, id)
  <2> SUFFICES ASSUME NEW k, NEW id PROVE Fault(k, id)' = Fault(k, id)
    OBVIOUS
  <2>1. PICK r : r = raw[k]
    OBVIOUS
  <2>2. raw'[k] = r
    BY <2>1
  <2> QED BY <1>1, <2>1, <2>2 DEF Fault
<1>3. \A k : EntryOf(k)' = EntryOf(k)
  <2> SUFFICES ASSUME NEW k PROVE EntryOf(k)' = EntryOf(k)
    OBVIOUS
  <2>1. PICK r : r = raw[k]
    OBVIOUS
  <2>2. raw'[k] = r
    BY <2>1
  <2> QED BY <1>1, <2>1, <2>2 DEF EntryOf
<1> QED BY <1>2, <1>3

\* Counting the consumers sets what it does not read.
LEMMA FanoutSame ==
  ASSUME DOMAIN table' = DOMAIN table,
         \A c \in DOMAIN table : table'[c].deps = table[c].deps /\ table'[c].tdep = table[c].tdep
  PROVE  \A e : Fanout(e)' = Fanout(e)
<1> SUFFICES ASSUME NEW e PROVE Fanout(e)' = Fanout(e)
  OBVIOUS
<1> DEFINE X == { c \in DOMAIN table : e \in ToSet(table[c].deps) \/ table[c].tdep = e }
           Y == { c \in DOMAIN table' : e \in ToSet(table'[c].deps) \/ table'[c].tdep = e }
<1>1. X = Y
  OBVIOUS
<1>2. Fanout(e) = Cardinality(X) /\ Fanout(e)' = Cardinality(Y)
  BY DEF Fanout
<1> QED BY <1>1, <1>2

\* Every step keeps the table that of the first entries of the order.
LEMMA TableStep ==
  ASSUME RawInv, OrderInv, TableInv, [Next]_vars
  PROVE  TableInv'
<1>1. order \in Seq(Keys) /\ Len(order) \in Nat
  BY DEF OrderInv
<1>2. PICK m \in 0 .. Len(order) : DOMAIN table = 0 .. m - 1
  BY DEF TableInv
<1>3. Cardinality(DOMAIN table) = m /\ m \in Nat
  BY <1>1, <1>2, FS_Interval
<1>4. CASE Synthesize \/ ThreadJob \/ BuildGraph \/ AdmitTimeDep \/ Pop \/ Sorted
  <2>1. phase \in { "complete", "admit", "sort" } /\ UNCHANGED table
    BY <1>4 DEF Synthesize, ThreadJob, BuildGraph, AdmitTimeDep, Pop, Sorted
  <2>2. phase' # "done" /\ (why' = why \/ why' = "cycle")
    BY <1>4 DEF Synthesize, ThreadJob, BuildGraph, AdmitTimeDep, Pop, Sorted
  <2>3. why = "none"
    BY <2>1 DEF OrderInv
  <2>4. order' = order \/ Len(order') = Len(order) + 1
    BY <1>1, <1>4 DEF Synthesize, ThreadJob, BuildGraph, AdmitTimeDep, Pop, Sorted
  <2>5. 0 \in 0 .. Len(order')
    BY <1>1, <2>4
  <2>6. DOMAIN table' = {} /\ table' = [e \in DOMAIN table' |-> table'[e]]
    BY <2>1 DEF TableInv
  <2>7. {} = 0 .. 0 - 1
    OBVIOUS
  <2> QED BY <2>2, <2>3, <2>5, <2>6, <2>7 DEF TableInv
<1>5. CASE EmitEntry
  <2>1. PICK k : k = order[m + 1]
    OBVIOUS
  <2>2. /\ phase = "emit" /\ m < Len(order) /\ UNCHANGED << raw, order >>
        /\ IF Fault(k, m) = "ok"
             THEN /\ table' = [e \in 0 .. m |-> IF e = m THEN EntryOf(k) ELSE table[e]]
                  /\ UNCHANGED << phase, why >>
             ELSE phase' = "error" /\ why' = Fault(k, m) /\ UNCHANGED table
    BY <1>3, <1>5, <2>1 DEF EmitEntry
  <2>3. why = "none"
    BY <2>2 DEF OrderInv
  <2>4. Keys' = Keys /\ k \in Keys
    BY <1>1, <1>3, <2>1, <2>2 DEF Keys
  <2>5. ASSUME NEW e \in DOMAIN table, NEW i \in Keys, order[e + 1] = i
        PROVE  Fault(i, e) = "ok" /\ table[e] = [EntryOf(i) EXCEPT !.fanout = 0]
    BY <2>2, <2>5 DEF TableInv
  <2>6. CASE Fault(k, m) = "ok"
    <3>1. DOMAIN table' = 0 .. (m + 1) - 1 /\ m + 1 \in 0 .. Len(order')
      BY <1>1, <1>3, <2>2, <2>6
    <3>2. ASSUME NEW e \in DOMAIN table', NEW i \in Keys, order'[e + 1] = i
          PROVE  Fault(i, e)' = "ok" /\ table'[e] = [EntryOf(i)' EXCEPT !.fanout = 0]
      <4>1. CASE e = m
        <5>1. table'[e] = EntryOf(k) /\ i = k
          BY <1>3, <2>1, <2>2, <2>6, <3>2, <4>1
        <5>2. EntryOf(k) = [EntryOf(k) EXCEPT !.fanout = 0]
          BY EntryCounted DEF Counted
        <5>3. Fault(i, e)' = Fault(k, m) /\ EntryOf(i)' = EntryOf(k)
          BY <2>2, <4>1, <5>1, TableSame
        <5> QED BY <2>6, <5>1, <5>2, <5>3
      <4>2. CASE e # m
        <5>1. e \in DOMAIN table
          BY <1>2, <1>3, <3>1, <4>2
        <5>2. table'[e] = table[e]
          BY <1>3, <2>2, <2>6, <3>1, <4>2
        <5>3. Fault(i, e) = "ok" /\ table[e] = [EntryOf(i) EXCEPT !.fanout = 0]
          BY <2>2, <2>5, <3>2, <5>1
        <5>4. Fault(i, e)' = Fault(i, e) /\ EntryOf(i)' = EntryOf(i)
          BY <2>2, TableSame
        <5> QED BY <5>2, <5>3, <5>4
      <4> QED BY <4>1, <4>2
    <3>3. table' = [e \in DOMAIN table' |-> table'[e]]
      BY <2>2, <2>6
    <3>4. phase' = "emit" /\ why' = "none"
      BY <2>2, <2>3, <2>6
    <3> QED BY <2>4, <3>1, <3>2, <3>3, <3>4 DEF TableInv
  <2>7. CASE Fault(k, m) # "ok"
    <3>1. phase' = "error" /\ why' = Fault(k, m) /\ UNCHANGED table
      BY <2>2, <2>7
    <3>2. ASSUME NEW e \in DOMAIN table', NEW i \in Keys, order'[e + 1] = i
          PROVE  Fault(i, e)' = "ok" /\ table'[e] = [EntryOf(i)' EXCEPT !.fanout = 0]
      <4>1. Fault(i, e) = "ok" /\ table[e] = [EntryOf(i) EXCEPT !.fanout = 0]
        BY <2>2, <2>5, <3>1, <3>2
      <4>2. Fault(i, e)' = Fault(i, e) /\ EntryOf(i)' = EntryOf(i)
        BY <2>2, TableSame
      <4> QED BY <3>1, <4>1, <4>2
    <3>3. DOMAIN table' = 0 .. m - 1 /\ m \in 0 .. Len(order')
          /\ table' = [e \in DOMAIN table' |-> table'[e]]
      BY <1>2, <2>2, <3>1 DEF TableInv
    <3>4. m \in 0 .. Len(order') - 1 /\ order'[m + 1] = k /\ why' = Fault(k, m)'
      <4>1. Fault(k, m)' = Fault(k, m)
        BY <2>2, TableSame
      <4> QED BY <1>1, <1>3, <2>1, <2>2, <3>1, <4>1
    <3> QED BY <2>4, <3>1, <3>2, <3>3, <3>4 DEF TableInv
  <2> QED BY <2>6, <2>7
<1>6. CASE CountFanout
  <2>1. /\ phase = "emit" /\ m = Len(order) /\ phase' = "done"
        /\ table' = [e \in DOMAIN table |-> [table[e] EXCEPT !.fanout = Fanout(e)]]
        /\ UNCHANGED << raw, why, order >>
    BY <1>3, <1>6 DEF CountFanout
  <2>2. why' = "none" /\ Keys' = Keys
    BY <2>1 DEF OrderInv, Keys
  <2>3. ASSUME NEW e \in DOMAIN table, NEW k \in Keys, order[e + 1] = k
        PROVE  /\ Fault(k, e) = "ok"
               /\ table'[e] = [EntryOf(k) EXCEPT !.fanout = Fanout(e)]
               /\ table'[e].deps = table[e].deps /\ table'[e].tdep = table[e].tdep
    <3>1. Fault(k, e) = "ok" /\ table[e] = [EntryOf(k) EXCEPT !.fanout = 0]
      BY <2>1, <2>3 DEF TableInv
    <3>2. table'[e] = [table[e] EXCEPT !.fanout = Fanout(e)]
      BY <2>1
    <3>3. table[e] = Counted(k, 0) /\ table'[e] = Counted(k, Fanout(e))
      <4>1. table[e] = Counted(k, 0)
        BY <3>1 DEF Counted
      <4> QED BY <3>2, <4>1, EntryCounted
    <3>4. table[e].deps = EntryOf(k).deps /\ table[e].tdep = EntryOf(k).tdep
      BY <3>3, EntryFields
    <3>5. table'[e].deps = EntryOf(k).deps /\ table'[e].tdep = EntryOf(k).tdep
      BY <3>3, EntryFields
    <3>6. table'[e] = [EntryOf(k) EXCEPT !.fanout = Fanout(e)]
      BY <3>3 DEF Counted
    <3> QED BY <3>1, <3>4, <3>5, <3>6
  <2>4. DOMAIN table' = DOMAIN table /\ table' = [e \in DOMAIN table' |-> table'[e]]
    BY <2>1
  <2>5. ASSUME NEW e \in DOMAIN table PROVE order[e + 1] \in Keys
    BY <1>1, <1>2
  <2>6. \A e : Fanout(e)' = Fanout(e)
    BY <2>3, <2>4, <2>5, FanoutSame
  <2>7. ASSUME NEW e \in DOMAIN table', NEW k \in Keys, order'[e + 1] = k
        PROVE  /\ Fault(k, e)' = "ok"
               /\ table'[e] = [EntryOf(k)' EXCEPT !.fanout = Fanout(e)']
    <3>1. Fault(k, e) = "ok" /\ table'[e] = [EntryOf(k) EXCEPT !.fanout = Fanout(e)]
      BY <2>1, <2>3, <2>4, <2>7
    <3>2. Fault(k, e)' = Fault(k, e) /\ EntryOf(k)' = EntryOf(k)
      BY <2>1, TableSame
    <3> QED BY <2>6, <3>1, <3>2
  <2> QED BY <1>2, <2>1, <2>2, <2>4, <2>7 DEF TableInv
<1>7. CASE UNCHANGED vars
  <2>1. UNCHANGED << raw, order, table, phase, why >>
    BY <1>7 DEF vars
  <2>2. (\A e : Fanout(e)' = Fanout(e)) /\ Keys' = Keys
    BY <2>1 DEF Fanout, Keys
  <2>3. (\A k, n : Fault(k, n)' = Fault(k, n)) /\ \A k : EntryOf(k)' = EntryOf(k)
    BY <2>1, TableSame
  <2> QED BY <2>1, <2>2, <2>3 DEF TableInv
<1> QED BY <1>4, <1>5, <1>6, <1>7 DEF Next

(***************************************************************************)
(* The invariant.                                                          *)
(***************************************************************************)
\* Ingest keeps its invariant, for every schedule, IR and set of cores.
THEOREM IngestInvariant == Spec => []IngestInv
<1>1. Init => IngestInv
  BY RawInit, ChainInit, GraphInit, OrderInit, TableInit DEF IngestInv
<1>2. IngestInv /\ [Next]_vars => IngestInv'
  BY RawStep, ChainStep, GraphStep, OrderStep, TableStep DEF IngestInv
<1> QED BY <1>1, <1>2, PTL DEF Spec

(***************************************************************************)
(* What follows for the errors.                                            *)
(***************************************************************************)
\* A key's place in the order is its id.
LEMMA IdAt ==
  ASSUME OrderInv, NEW n \in DOMAIN order
  PROVE  Id(order[n]) = n - 1 /\ n \in 1 .. Len(order) /\ order[n] \in Keys
<1>1. order \in Seq(Keys) /\ \A x, y \in DOMAIN order : order[x] = order[y] => x = y
  BY DEF OrderInv
<1>2. (CHOOSE x \in DOMAIN order : order[x] = order[n]) = n
  BY <1>1
<1> QED BY <1>1, <1>2 DEF Id

\* An entry's id is its place in the order.
LEMMA IdOf ==
  ASSUME OrderInv, NEW k \in Placed
  PROVE  Id(k) \in 0 .. Len(order) - 1 /\ Id(k) + 1 \in DOMAIN order /\ order[Id(k) + 1] = k
<1>1. PICK n \in DOMAIN order : order[n] = k
  BY DEF Placed, ToSet
<1>2. Id(k) = n - 1 /\ n \in 1 .. Len(order) /\ Len(order) \in Nat
  BY <1>1, IdAt DEF OrderInv
<1> QED BY <1>1, <1>2

\* What an entry comes after has a smaller id.
LEMMA EdgeBackward ==
  ASSUME OrderInv, NEW n \in Nat, n + 1 \in DOMAIN order, NEW p \in Keys,
         << p, order[n + 1] >> \in edges
  PROVE  Id(p) \in Nat /\ Id(p) < n
<1>1. PICK m \in 1 .. (n + 1) - 1 : order[m] = p
  BY DEF OrderInv
<1>2. order \in Seq(Keys)
  BY DEF OrderInv
<1>3. m \in DOMAIN order
  BY <1>1, <1>2
<1>4. Id(p) = m - 1
  BY <1>1, <1>3, IdAt
<1> QED BY <1>1, <1>4

\* The error that an entry ended the ingest with.
LEMMA ErrorAt ==
  ASSUME IngestInv, why \notin { "none", "cycle" }
  PROVE  \E n \in Nat, k \in Keys :
           /\ n = Cardinality(DOMAIN table) /\ n + 1 \in DOMAIN order
           /\ order[n + 1] = k /\ why = Fault(k, n)
           /\ jobs = {} /\ todo = {} /\ DataEdges \subseteq edges
           /\ raw[k].tdep \in Keys => k \in dropped \/ << raw[k].tdep, k >> \in edges
<1>1. RawInv /\ GraphInv /\ OrderInv /\ TableInv
  BY DEF IngestInv
<1>2. phase = "error"
  BY <1>1 DEF OrderInv
<1>3. order \in Seq(Keys) /\ Len(order) \in Nat /\ todo = {}
  BY <1>1, <1>2 DEF OrderInv
<1>4. PICK n \in 0 .. Len(order) - 1, k \in Keys :
        DOMAIN table = 0 .. n - 1 /\ order[n + 1] = k /\ why = Fault(k, n)
  BY <1>1 DEF TableInv
<1>5. n \in Nat /\ n + 1 \in DOMAIN order
  BY <1>3
<1>6. Cardinality(DOMAIN table) = n
  BY <1>4, <1>5, FS_Interval
<1>7. /\ jobs = {} /\ DataEdges \subseteq edges
      /\ raw[k].tdep \in Keys => k \in dropped \/ << raw[k].tdep, k >> \in edges
  BY <1>1, <1>2, <1>3 DEF GraphInv
<1> QED BY <1>3, <1>4, <1>5, <1>6, <1>7

\* No producer's id is too great.
LEMMA NotForward ==
  ASSUME OrderInv, NEW n \in Nat, NEW k, NEW p \in Keys, n + 1 \in DOMAIN order,
         order[n + 1] = k, << p, k >> \in edges
  PROVE  ~ (Id(p) >= n)
<1>1. Id(p) \in Nat /\ Id(p) < n
  BY EdgeBackward
<1> QED BY <1>1

\* No data dependency is ever found to point forward: the sort has seen to it.
LEMMA NeverForwardDep ==
  ASSUME IngestInv
  PROVE  why # "forward dep"
<1>1. ASSUME NEW n \in Nat, NEW k \in Keys, NEW d \in raw[k].deps, raw[k].deps \subseteq Keys,
             n + 1 \in DOMAIN order, order[n + 1] = k, DataEdges \subseteq edges
      PROVE  ~ (Id(d) >= n)
  <2>1. d \in raw[k].deps \cap Keys
    BY <1>1
  <2>2. << d, k >> \in { << x, k >> : x \in raw[k].deps \cap Keys }
    BY <2>1
  <2>3. << d, k >> \in edges
    BY <1>1, <2>2 DEF DataEdges
  <2> QED BY <1>1, <2>1, <2>3, NotForward DEF IngestInv
<1>2. SUFFICES ASSUME why = "forward dep" PROVE FALSE
  OBVIOUS
<1>3. PICK n \in Nat, k \in Keys :
        n + 1 \in DOMAIN order /\ order[n + 1] = k /\ why = Fault(k, n) /\ DataEdges \subseteq edges
  BY <1>2, ErrorAt, Zenon
<1>4. raw[k].deps \subseteq Keys /\ \E d \in raw[k].deps : Id(d) >= n
  BY <1>2, <1>3 DEF Fault
<1> QED BY <1>1, <1>3, <1>4, Zenon

\* Acyclic data dependencies are always sorted, and none points forward: no
\* time dependency that was admitted stands in their way.
THEOREM DataDepsAlwaysSorted == Spec => []DataDepsAlwaysSort
<1>1. IngestInv => DataDepsAlwaysSort
  BY NeverForwardDep DEF DataDepsAlwaysSort, IngestInv, OrderInv
<1> QED BY <1>1, IngestInvariant, PTL

\* A time dependency that fails the ingest is one that was dropped.
THEOREM AdmittedTimeDepsAlwaysHold == Spec => []AdmittedTimeDepsHold
<1>1. ASSUME IngestInv PROVE AdmittedTimeDepsHold
  <2>1. ASSUME NEW n \in Nat, NEW k \in Keys, raw[k].tdep \in Keys,
               n + 1 \in DOMAIN order, order[n + 1] = k, << raw[k].tdep, k >> \in edges
        PROVE  ~ (Id(raw[k].tdep) >= n)
    BY <1>1, <2>1, NotForward DEF IngestInv
  <2>2. SUFFICES ASSUME why = "forward time_dep"
                 PROVE  order[Cardinality(DOMAIN table) + 1] \in dropped
    BY DEF AdmittedTimeDepsHold
  <2>3. PICK n \in Nat, k \in Keys :
          /\ n = Cardinality(DOMAIN table) /\ n + 1 \in DOMAIN order
          /\ order[n + 1] = k /\ why = Fault(k, n)
          /\ raw[k].tdep \in Keys => k \in dropped \/ << raw[k].tdep, k >> \in edges
    BY <1>1, <2>2, ErrorAt, Zenon
  <2>4. raw[k].tdep \in Keys /\ Id(raw[k].tdep) >= n
    BY <2>2, <2>3 DEF Fault
  <2> QED BY <2>1, <2>3, <2>4, Zenon
<1> QED BY <1>1, IngestInvariant, PTL

(***************************************************************************)
(* What follows for the table that is written.                             *)
(***************************************************************************)
\* Every entry is that of one key, without a fault.
LEMMA DoneFacts ==
  ASSUME IngestInv, phase = "done"
  PROVE  /\ jobs = {} /\ Placed = Keys /\ order \in Seq(Keys) /\ Len(order) \in Nat
         /\ DOMAIN table = 0 .. Len(order) - 1
         /\ \A k \in Keys : Id(k) \in DOMAIN table /\ order[Id(k) + 1] = k
         /\ \A e \in DOMAIN table : e \in Nat /\ order[e + 1] \in Keys /\ Id(order[e + 1]) = e
         /\ \A e \in DOMAIN table, k \in Keys : order[e + 1] = k =>
              Fault(k, e) = "ok" /\ table[e] = [EntryOf(k) EXCEPT !.fanout = Fanout(e)]
<1>1. jobs = {} /\ Placed = Keys /\ order \in Seq(Keys) /\ Len(order) \in Nat
  BY DEF IngestInv, GraphInv, OrderInv
<1>2. DOMAIN table = 0 .. Len(order) - 1
  BY DEF IngestInv, TableInv
<1>3. ASSUME NEW k \in Keys PROVE Id(k) \in DOMAIN table /\ order[Id(k) + 1] = k
  BY <1>1, <1>2, IdOf DEF IngestInv
<1>4. ASSUME NEW e \in DOMAIN table
      PROVE  e \in Nat /\ order[e + 1] \in Keys /\ Id(order[e + 1]) = e
  <2>1. e \in Nat /\ e + 1 \in DOMAIN order
    BY <1>1, <1>2
  <2> QED BY <2>1, IdAt DEF IngestInv
<1>5. ASSUME NEW e \in DOMAIN table, NEW k \in Keys, order[e + 1] = k
      PROVE  Fault(k, e) = "ok" /\ table[e] = [EntryOf(k) EXCEPT !.fanout = Fanout(e)]
  BY <1>5 DEF IngestInv, TableInv
<1> QED BY <1>1, <1>2, <1>3, <1>4, <1>5

\* What _resolve_targets and the look-ups of load() have let through.
LEMMA NoFault ==
  ASSUME NEW k, NEW e, Fault(k, e) = "ok"
  PROVE  /\ InIR(k) /\ Resolvable(raw[k].target)
         /\ raw[k].deps \subseteq Keys /\ \A d \in raw[k].deps : ~ (Id(d) >= e)
         /\ raw[k].tdep \in Keys \cup { None }
         /\ raw[k].tdep # None => ~ (Id(raw[k].tdep) >= e)
BY DEF Fault, InIR

\* An entry's columns.
LEMMA DoneEntry ==
  ASSUME IngestInv, phase = "done", NEW e \in DOMAIN table
  PROVE  \E k \in Keys :
           /\ order[e + 1] = k /\ Id(k) = e /\ e \in Nat /\ InIR(k)
           /\ table[e].net = Net(k[1]) /\ table[e].inst = Inst(k[1])
           /\ table[e].disp = Remap(Net(k[1]), k[2])
           /\ table[e].start = raw[k].start /\ table[e].fanout = Fanout(e)
           /\ Resolvable(raw[k].target)
           /\ table[e].harts = HartsOf(k)
           /\ table[e].deps \in Seq(DepIds(k))
           /\ IsInjective(table[e].deps)
           /\ Range(table[e].deps) = DepIds(k)
           /\ DepIds(k) \subseteq 0 .. e - 1
           /\ table[e].tdep \in (0 .. e - 1) \cup { -1 }
<1>1. PICK k \in Keys : order[e + 1] = k
  BY DoneFacts
<1>2. Id(k) = e /\ e \in Nat /\ Fault(k, e) = "ok"
  BY <1>1, DoneFacts
<1>3. PICK y : y = table[e]
  OBVIOUS
<1>4. y = Counted(k, Fanout(e))
  BY <1>1, <1>3, DoneFacts DEF Counted
<1>5. /\ y.net = Net(k[1]) /\ y.inst = Inst(k[1])
      /\ y.disp = Remap(Net(k[1]), k[2]) /\ y.harts = HartsOf(k)
      /\ y.deps = Ascending(DepIds(k)) /\ y.tdep = TdepId(k)
      /\ y.fanout = Fanout(e) /\ y.start = raw[k].start
  BY <1>4, EntryFields
<1>6. /\ InIR(k) /\ Resolvable(raw[k].target)
      /\ raw[k].deps \subseteq Keys /\ \A d \in raw[k].deps : ~ (Id(d) >= e)
      /\ raw[k].tdep \in Keys \cup { None }
      /\ raw[k].tdep # None => ~ (Id(raw[k].tdep) >= e)
  BY <1>2, NoFault
<1>7. \A d \in Keys : Id(d) \in Nat
  BY DoneFacts
<1>8. \A d \in Keys : ~ (Id(d) >= e) => Id(d) \in 0 .. e - 1
  BY <1>2, <1>7
<1> DEFINE D == DepIds(k)
<1>9. D \subseteq 0 .. e - 1
  BY <1>6, <1>8 DEF DepIds
<1>10. IsFiniteSet(D) /\ D \subseteq Nat
  <2> DEFINE f == [d \in raw[k].deps |-> Id(d)]
  <2>1. D = { f[d] : d \in raw[k].deps }
    BY DEF DepIds
  <2>2. f = [d \in raw[k].deps |-> f[d]]
    OBVIOUS
  <2>3. IsFiniteSet(raw[k].deps)
    BY <1>6, FS_Subset DEF IngestInv, RawInv
  <2>4. D \subseteq Nat
    BY <1>6, <1>7 DEF DepIds
  <2> HIDE DEF f, D
  <2>5. IsFiniteSet({ f[d] : d \in raw[k].deps })
    BY <2>2, <2>3, ImageFinite
  <2> QED BY <2>1, <2>4, <2>5
<1>11. y.tdep \in (0 .. e - 1) \cup { -1 }
  <2>1. CASE raw[k].tdep = None
    BY <1>5, <2>1 DEF TdepId
  <2>2. CASE raw[k].tdep # None
    BY <1>5, <1>6, <1>8, <2>2 DEF TdepId
  <2> QED BY <2>1, <2>2
<1>12. y.deps = Ascending(D)
  BY <1>5
<1> HIDE DEF D
<1>13. /\ y.deps \in Seq(D)
       /\ IsInjective(y.deps) /\ Range(y.deps) = D
  BY <1>10, <1>12, AscendingFacts
<1> QED BY <1>1, <1>2, <1>3, <1>5, <1>6, <1>9, <1>11, <1>13 DEF D

\* The table has the shape on which the walker's freedom from deadlock rests:
\* no schedule that load() accepts gives another.
THEOREM EmittedTableIsWellFormed == Spec => []EmittedTableWellFormed
<1>1. ASSUME IngestInv, phase = "done" PROVE BackwardEdges(table)
  <2> SUFFICES ASSUME NEW e \in DOMAIN table, NEW p \in Preds(table, e) PROVE p \in 0 .. e - 1
    BY DEF BackwardEdges, Entries
  <2>1. PICK k \in Keys :
          /\ Range(table[e].deps) = DepIds(k) /\ DepIds(k) \subseteq 0 .. e - 1
          /\ table[e].tdep \in (0 .. e - 1) \cup { -1 }
    BY <1>1, DoneEntry
  <2> QED BY <2>1 DEF Preds
<1>2. ASSUME IngestInv, phase = "done" PROVE BalancedEdges(table)
  <2> SUFFICES ASSUME NEW e \in DOMAIN table
               PROVE  /\ IsInjective(table[e].deps)
                      /\ table[e].fanout = Cardinality(Consumers(table, e))
    BY DEF BalancedEdges, Entries
  <2>1. IsInjective(table[e].deps) /\ table[e].fanout = Fanout(e) /\ e \in Nat
    BY <1>2, DoneEntry
  <2>2. ASSUME NEW c \in DOMAIN table
        PROVE  (e \in ToSet(table[c].deps) \/ table[c].tdep = e) <=> e \in Preds(table, c)
    <3>1. e # -1
      BY <2>1
    <3> QED BY <3>1 DEF ToSet, Range, Preds
  <2>3. { c \in DOMAIN table : e \in ToSet(table[c].deps) \/ table[c].tdep = e }
          = Consumers(table, e)
    BY <2>2 DEF Consumers, Entries
  <2> QED BY <2>1, <2>3 DEF Fanout
<1>3. ASSUME IngestInv, phase = "done" PROVE DistinctHarts(table)
  <2> SUFFICES ASSUME NEW e \in DOMAIN table
               PROVE  table[e].harts # << >> /\ IsInjective(table[e].harts)
    BY DEF DistinctHarts, Entries
  <2>1. PICK k \in Keys : table[e].harts = HartsOf(k) /\ Resolvable(raw[k].target)
    BY <1>3, DoneEntry
  <2>2. raw[k].target \in Seq(STRING) /\ raw[k].target # << >>
    BY <1>3, <2>1, RawTypes DEF IngestInv, Resolvable
  <2>3. DOMAIN HartsOf(k) # {}
    <3>1. Len(raw[k].target) \in Nat /\ Len(raw[k].target) # 0
          /\ DOMAIN raw[k].target = 1 .. Len(raw[k].target)
      BY <2>2, EmptySeq
    <3>2. 1 \in DOMAIN raw[k].target
      BY <3>1
    <3> QED BY <3>2 DEF HartsOf
  <2>4. HartsOf(k) # << >>
    BY <2>3
  <2>5. IsInjective(HartsOf(k))
    BY <2>1 DEF IsInjective, HartsOf, Resolvable
  <2> QED BY <2>1, <2>4, <2>5
<1>4. IngestInv => EmittedTableWellFormed
  BY <1>1, <1>2, <1>3 DEF EmittedTableWellFormed
<1> QED BY <1>4, IngestInvariant, PTL

\* Its columns have the types that the walker's table is assumed to have.
LEMMA RemapType ==
  ASSUME NEW n, NEW d, n \in DOMAIN IR, d \in Dids(n)
  PROVE  Remap(n, d) \in Nat \cup { -1 }
<1> DEFINE at == CHOOSE x \in DOMAIN IR[n] : IR[n][x].did = d
           B  == { x \in 1 .. at - 1 : IR[n][x].cost # "zero" }
<1>1. at \in DOMAIN IR[n]
  BY DEF Dids, ToSet
<1>2. DOMAIN IR[n] \subseteq Nat
  <2>1. \E T : IR[n] \in Seq(T)
    BY IROf
  <2> QED BY <2>1
<1>3. IsFiniteSet(B)
  <2>1. at \in Nat
    BY <1>1, <1>2
  <2> HIDE DEF at
  <2>2. IsFiniteSet(1 .. at - 1)
    BY <2>1, FS_Interval
  <2> QED BY <2>2, FS_Subset
<1>4. Cardinality(B) \in Nat
  BY <1>3, FS_CardinalityType
<1>5. Remap(n, d) = IF IR[n][at].cost = "zero" THEN -1 ELSE Cardinality(B)
  BY DEF Remap
<1> HIDE DEF B, at
<1> QED BY <1>4, <1>5

\* A table that load() returns has the types that the walker's theorems assume.
THEOREM EmittedTableIsTyped == Spec => [](phase = "done" => IsTable(table))
<1>1. ASSUME IngestInv, phase = "done" PROVE IsTable(table)
  <2>1. DOMAIN table = 0 .. Len(order) - 1 /\ Len(order) \in Nat
    BY <1>1, DoneFacts
  <2>2. IsFiniteSet(DOMAIN table) /\ DOMAIN table \subseteq Nat
    BY <2>1, FS_Interval
  <2>3. ASSUME NEW e \in DOMAIN table
        PROVE  /\ table[e].harts \in Seq(Int) \ { << >> }
               /\ table[e].deps \in Seq(DOMAIN table)
               /\ table[e].tdep \in DOMAIN table \cup { -1 }
               /\ table[e].disp \in Int /\ table[e].fanout \in Nat /\ table[e].start \in Nat
    <3>1. PICK k \in Keys :
            /\ InIR(k) /\ table[e].disp = Remap(Net(k[1]), k[2])
            /\ table[e].start = raw[k].start /\ table[e].fanout = Fanout(e)
            /\ Resolvable(raw[k].target) /\ table[e].harts = HartsOf(k)
            /\ table[e].deps \in Seq(DepIds(k)) /\ DepIds(k) \subseteq 0 .. e - 1
            /\ table[e].tdep \in (0 .. e - 1) \cup { -1 }
      BY <1>1, DoneEntry
    <3>2. raw[k].target \in Seq(STRING) /\ raw[k].target # << >> /\ raw[k].start \in Nat
      BY <1>1, <3>1, RawTypes DEF IngestInv, Resolvable
    <3>3. HartsOf(k) \in Seq(Int) \ { << >> }
      <4>1. \A x \in DOMAIN raw[k].target : Cores[raw[k].target[x]].hart \in Int
        BY <3>1, IngestAssumption DEF Resolvable, ToSet
      <4>2. DOMAIN raw[k].target = 1 .. Len(raw[k].target) /\ Len(raw[k].target) \in Nat
            /\ Len(raw[k].target) # 0
        BY <3>2, EmptySeq
      <4>3. HartsOf(k) \in [1 .. Len(raw[k].target) -> Int] /\ DOMAIN HartsOf(k) # {}
        BY <4>1, <4>2 DEF HartsOf
      <4>4. HartsOf(k) \in Seq(Int)
        BY <4>2, <4>3
      <4> QED BY <4>3, <4>4
    <3>4. 0 .. e - 1 \subseteq DOMAIN table
      BY <2>1
    <3>5. table[e].deps \in Seq(DOMAIN table)
      <4>1. DepIds(k) \subseteq DOMAIN table
        BY <3>1, <3>4
      <4> QED BY <3>1, <4>1
    <3>6. table[e].disp \in Int
      <4>1. Remap(Net(k[1]), k[2]) \in Nat \cup { -1 }
        BY <3>1, RemapType DEF InIR, Known
      <4> QED BY <3>1, <4>1
    <3>7. table[e].fanout \in Nat
      <4> DEFINE C == { c \in DOMAIN table : e \in ToSet(table[c].deps) \/ table[c].tdep = e }
      <4>1. C \subseteq DOMAIN table /\ Fanout(e) = Cardinality(C)
        BY DEF Fanout
      <4> HIDE DEF C
      <4>2. Cardinality(C) \in Nat
        BY <2>2, <4>1, FS_Subset, FS_CardinalityType
      <4> QED BY <3>1, <4>1, <4>2
    <3> QED BY <3>1, <3>2, <3>3, <3>4, <3>5, <3>6, <3>7
  <2> QED BY <2>2, <2>3 DEF IsTable, Entries
<1>2. IngestInv => (phase = "done" => IsTable(table))
  BY <1>1
<1> QED BY <1>2, IngestInvariant, PTL

\* Every IR edge that begins or ends at a synthesized op is an edge of the
\* table, whatever the scheduler left out.
THEOREM SynthesizedOpsAreChained == Spec => []SynthesizedOpsChained
<1>1. ASSUME IngestInv, phase = "done", NEW k \in Keys,
             NEW d \in ToSet(OpOf(Net(k[1]), k[2]).deps),
             raw[k].made \/ raw[<< k[1], d >>].made
      PROVE  Id(<< k[1], d >>) \in Preds(table, Id(k))
  <2>1. /\ jobs = {} /\ Id(k) \in DOMAIN table /\ order[Id(k) + 1] = k
    BY <1>1, DoneFacts
  <2>2. InIR(k) /\ Range(table[Id(k)].deps) = DepIds(k)
    <3>1. PICK l \in Keys :
            order[Id(k) + 1] = l /\ InIR(l) /\ Range(table[Id(k)].deps) = DepIds(l)
      BY <1>1, <2>1, DoneEntry
    <3> QED BY <2>1, <3>1
  <2>3. << k[1], d >> \in Keys
    <3>1. d \in Dids(Net(k[1]))
      BY <1>1, <2>2, OpFacts DEF InIR, Known
    <3>2. Missing(k[1]) = {}
      BY <1>1, <2>1 DEF IngestInv, ChainInv
    <3> QED BY <2>2, <3>1, <3>2 DEF Missing, InIR
  <2>4. << k[1], d >> \in IRDeps(k)
    BY <1>1 DEF IRDeps
  <2>5. << k[1], d >> \in raw[k].deps
    <3>1. CASE raw[<< k[1], d >>].made
      <4>1. << k[1], d >> \in MadeFor(k)
        BY <1>1, <2>3, <3>1 DEF MadeFor
      <4>2. MadeFor(k) \subseteq raw[k].deps
        BY <1>1, <2>1, <2>2 DEF IngestInv, ChainInv
      <4> QED BY <4>1, <4>2
    <3>2. CASE ~ raw[<< k[1], d >>].made
      BY <1>1, <2>3, <2>4, <3>2 DEF IngestInv, ChainInv
    <3> QED BY <3>1, <3>2
  <2>6. Id(<< k[1], d >>) \in DepIds(k)
    BY <2>5 DEF DepIds
  <2> QED BY <2>2, <2>6 DEF Preds
<1>2. IngestInv => SynthesizedOpsChained
  BY <1>1 DEF SynthesizedOpsChained
<1> QED BY <1>2, IngestInvariant, PTL

(***************************************************************************)
(* Each dispatch once.                                                     *)
(***************************************************************************)
\* network_remap numbers the ops of a network that cost something from 0.
LEMMA RemapNumbers ==
  ASSUME NEW n \in DOMAIN IR
  PROVE  /\ OpCount(n) \in Nat
         /\ \A d \in Dids(n) : Remap(n, d) >= 0 => Remap(n, d) \in 0 .. OpCount(n) - 1
         /\ \A c, d \in Dids(n) : Remap(n, c) >= 0 /\ Remap(n, c) = Remap(n, d) => c = d
         /\ \A i \in 0 .. OpCount(n) - 1 : \E d \in Dids(n) : Remap(n, d) = i
<1> DEFINE S == { x \in DOMAIN IR[n] : IR[n][x].cost # "zero" }
           At(d) == CHOOSE x \in DOMAIN IR[n] : IR[n][x].did = d
<1>1. DOMAIN IR[n] = 1 .. Len(IR[n]) /\ Len(IR[n]) \in Nat
  <2>1. \E T : IR[n] \in Seq(T)
    BY IROf
  <2> QED BY <2>1
<1>2. IsFiniteSet(S) /\ S \subseteq Int
  <2>1. IsFiniteSet(1 .. Len(IR[n]))
    BY <1>1, FS_Interval
  <2>2. S \subseteq 1 .. Len(IR[n])
    BY <1>1
  <2> QED BY <2>1, <2>2, FS_Subset
<1>3. OpCount(n) = Cardinality(S)
  BY DEF OpCount
<1>4. \A d \in Dids(n) : At(d) \in DOMAIN IR[n] /\ IR[n][At(d)].did = d
  BY DEF Dids, ToSet
<1>5. ASSUME NEW x \in S
      PROVE  Cardinality({ y \in 1 .. x - 1 : IR[n][y].cost # "zero" }) = Place(S, x)
  <2>1. { y \in 1 .. x - 1 : IR[n][y].cost # "zero" } = { y \in S : y < x }
    BY <1>1
  <2> QED BY <2>1 DEF Place
<1>6. ASSUME NEW d \in Dids(n)
      PROVE  /\ At(d) \notin S => Remap(n, d) = -1
             /\ At(d) \in S => Remap(n, d) = Place(S, At(d))
  <2>1. Remap(n, d) = IF IR[n][At(d)].cost = "zero" THEN -1
                      ELSE Cardinality({ x \in 1 .. At(d) - 1 : IR[n][x].cost # "zero" })
    BY DEF Remap
  <2>2. At(d) \in S <=> IR[n][At(d)].cost # "zero"
    BY <1>4
  <2> HIDE DEF At, S
  <2> QED BY <1>5, <2>1, <2>2
<1>7. /\ Cardinality(S) \in Nat
      /\ \A x \in S : Place(S, x) \in 0 .. Cardinality(S) - 1
      /\ \A x, y \in S : Place(S, x) = Place(S, y) => x = y
      /\ \A i \in 0 .. Cardinality(S) - 1 : \E x \in S : Place(S, x) = i
  <2> HIDE DEF S
  <2> QED BY <1>2, PlacesAll
<1>8. \A x \in DOMAIN IR[n] : IR[n][x].did \in Dids(n) /\ At(IR[n][x].did) = x
  <2> SUFFICES ASSUME NEW x \in DOMAIN IR[n]
               PROVE  IR[n][x].did \in Dids(n) /\ At(IR[n][x].did) = x
    OBVIOUS
  <2>1. IR[n][x].did \in Dids(n)
    BY DEF Dids, ToSet
  <2>2. At(IR[n][x].did) \in DOMAIN IR[n] /\ IR[n][At(IR[n][x].did)].did = IR[n][x].did
    BY <1>4, <2>1
  <2> HIDE DEF At
  <2> QED BY <2>1, <2>2, IROf
<1>9. S \subseteq DOMAIN IR[n]
  OBVIOUS
<1> HIDE DEF S, At
<1>10. ASSUME NEW d \in Dids(n), Remap(n, d) >= 0
       PROVE  At(d) \in S /\ Remap(n, d) = Place(S, At(d))
  BY <1>6, <1>10
<1>11. ASSUME NEW c \in Dids(n), NEW d \in Dids(n), Remap(n, c) >= 0, Remap(n, c) = Remap(n, d)
       PROVE  c = d
  <2>1. At(c) \in S /\ At(d) \in S /\ Place(S, At(c)) = Place(S, At(d))
    BY <1>10, <1>11
  <2>2. At(c) = At(d)
    BY <1>7, <2>1
  <2> QED BY <1>4, <2>2
<1>12. ASSUME NEW i \in 0 .. Cardinality(S) - 1 PROVE \E d \in Dids(n) : Remap(n, d) = i
  <2>1. PICK x \in S : Place(S, x) = i
    BY <1>7
  <2>2. IR[n][x].did \in Dids(n) /\ At(IR[n][x].did) = x
    BY <1>8, <1>9
  <2> QED BY <1>6, <2>1, <2>2
<1>13. \A d \in Dids(n) : Remap(n, d) >= 0 => Remap(n, d) \in 0 .. Cardinality(S) - 1
  BY <1>7, <1>10
<1> QED BY <1>3, <1>7, <1>11, <1>12, <1>13

\* No two jobs of a schedule are read as the same instance of a network, as
\* "mlp" and "mlp0" would be.
OneJobPerInstance ==
  \A i, j \in DOMAIN JobName : Net(i) = Net(j) /\ Inst(i) = Inst(j) => i = j

\* Unless two jobs are read as one instance, the entries of an instance are
\* the indices of its network's function table, each once.
THEOREM EveryDispatchIsOnce ==
  ASSUME OneJobPerInstance
  PROVE  Spec => []EveryDispatchOnce
<1>1. ASSUME IngestInv, phase = "done", NEW j \in { k[1] : k \in Keys }
      PROVE  LET mine == { e \in DOMAIN table : table[e].net = Net(j)
                             /\ table[e].inst = Inst(j) /\ table[e].disp >= 0 }
             IN  /\ { table[e].disp : e \in mine } = 0 .. OpCount(Net(j)) - 1
                 /\ Cardinality(mine) = OpCount(Net(j))
  <2> DEFINE mine == { e \in DOMAIN table : table[e].net = Net(j)
                         /\ table[e].inst = Inst(j) /\ table[e].disp >= 0 }
             n == Net(j)
             f == [e \in mine |-> table[e].disp]
  <2>1. ASSUME NEW e \in DOMAIN table
        PROVE  \E k \in Keys :
                 /\ order[e + 1] = k /\ Id(k) = e /\ InIR(k)
                 /\ k[1] \in DOMAIN JobName /\ k = << k[1], k[2] >>
                 /\ table[e].net = Net(k[1]) /\ table[e].inst = Inst(k[1])
                 /\ table[e].disp = Remap(Net(k[1]), k[2])
    <3>1. PICK k \in Keys :
            /\ order[e + 1] = k /\ Id(k) = e /\ InIR(k)
            /\ table[e].net = Net(k[1]) /\ table[e].inst = Inst(k[1])
            /\ table[e].disp = Remap(Net(k[1]), k[2])
      BY <1>1, DoneEntry
    <3>2. k[1] \in DOMAIN JobName /\ k = << k[1], k[2] >>
      BY <1>1, RawTypes DEF IngestInv
    <3> QED BY <3>1, <3>2
  <2>2. PICK l \in Keys : l[1] = j
    OBVIOUS
  <2>3. j \in DOMAIN JobName
    BY <1>1, <2>2, RawTypes DEF IngestInv
  <2>4. n \in DOMAIN IR
    <3>1. Id(l) \in DOMAIN table /\ order[Id(l) + 1] = l
      BY <1>1, DoneFacts
    <3>2. InIR(l)
      BY <2>1, <3>1
    <3> QED BY <2>2, <3>2 DEF InIR, Known
  <2>5. ASSUME NEW e \in mine
        PROVE  \E d \in Dids(n) :
                 order[e + 1] = << j, d >> /\ Id(<< j, d >>) = e /\ f[e] = Remap(n, d)
    <3>1. PICK k \in Keys :
            /\ order[e + 1] = k /\ Id(k) = e /\ InIR(k)
            /\ k[1] \in DOMAIN JobName /\ k = << k[1], k[2] >>
            /\ table[e].net = Net(k[1]) /\ table[e].inst = Inst(k[1])
            /\ table[e].disp = Remap(Net(k[1]), k[2])
      BY <2>1
    <3>2. k[1] = j
      BY <2>3, <3>1 DEF OneJobPerInstance
    <3>3. k[2] \in Dids(n) /\ k = << j, k[2] >> /\ f[e] = Remap(n, k[2])
      BY <3>1, <3>2 DEF InIR
    <3> QED BY <3>1, <3>3
  <2>6. ASSUME NEW d \in Dids(n), Remap(n, d) >= 0
        PROVE  Id(<< j, d >>) \in mine /\ f[Id(<< j, d >>)] = Remap(n, d)
    <3>1. Missing(j) = {}
      <4>1. jobs = {}
        BY <1>1, DoneFacts
      <4> QED BY <1>1, <2>2, <4>1 DEF IngestInv, ChainInv
    <3>2. << j, d >> \in Keys
      BY <2>4, <3>1 DEF Missing, Known
    <3>3. PICK e : e = Id(<< j, d >>)
      OBVIOUS
    <3>4. e \in DOMAIN table /\ order[e + 1] = << j, d >>
      BY <1>1, <3>2, <3>3, DoneFacts
    <3>5. /\ table[e].net = Net(j) /\ table[e].inst = Inst(j)
          /\ table[e].disp = Remap(n, d)
      BY <2>1, <3>4
    <3>6. e \in mine
      BY <2>6, <3>4, <3>5
    <3> QED BY <3>3, <3>5, <3>6
  <2>7. /\ OpCount(n) \in Nat
        /\ \A d \in Dids(n) : Remap(n, d) >= 0 => Remap(n, d) \in 0 .. OpCount(n) - 1
        /\ \A c, d \in Dids(n) : Remap(n, c) >= 0 /\ Remap(n, c) = Remap(n, d) => c = d
        /\ \A i \in 0 .. OpCount(n) - 1 : \E d \in Dids(n) : Remap(n, d) = i
    BY <2>4, RemapNumbers
  <2>8. \A e \in mine : f[e] = table[e].disp /\ f[e] >= 0
    OBVIOUS
  <2>9. f = [e \in mine |-> f[e]]
    OBVIOUS
  <2> HIDE DEF f, mine, n
  <2>10. ASSUME NEW e \in mine PROVE f[e] \in 0 .. OpCount(n) - 1
    <3>1. PICK d \in Dids(n) : f[e] = Remap(n, d)
      BY <2>5
    <3>2. Remap(n, d) >= 0
      BY <2>8, <3>1
    <3> QED BY <2>7, <3>1, <3>2
  <2>11. ASSUME NEW e \in mine, NEW g \in mine, f[e] = f[g] PROVE e = g
    <3>1. PICK c \in Dids(n) :
            order[e + 1] = << j, c >> /\ Id(<< j, c >>) = e /\ f[e] = Remap(n, c)
      BY <2>5
    <3>2. PICK d \in Dids(n) :
            order[g + 1] = << j, d >> /\ Id(<< j, d >>) = g /\ f[g] = Remap(n, d)
      BY <2>5
    <3>3. c = d
      BY <2>7, <2>8, <2>11, <3>1, <3>2
    <3> QED BY <3>1, <3>2, <3>3
  <2>12. ASSUME NEW i \in 0 .. OpCount(n) - 1 PROVE \E e \in mine : f[e] = i
    <3>1. PICK d \in Dids(n) : Remap(n, d) = i
      BY <2>7
    <3>2. Remap(n, d) >= 0
      BY <3>1
    <3> QED BY <2>6, <3>1, <3>2
  <2>13. f \in Injection(mine, 0 .. OpCount(n) - 1)
    BY <2>9, <2>10, <2>11 DEF Injection, IsInjective
  <2>14. f \in Surjection(mine, 0 .. OpCount(n) - 1)
    BY <2>9, <2>10, <2>12 DEF Surjection
  <2>15. Cardinality(mine) = OpCount(n)
    <3>1. IsFiniteSet(mine)
      <4>1. IsFiniteSet(DOMAIN table)
        <5>1. DOMAIN table = 0 .. Len(order) - 1 /\ Len(order) \in Nat
          BY <1>1, DoneFacts
        <5>2. IsFiniteSet(0 .. Len(order) - 1)
          BY <5>1, FS_Interval
        <5> QED BY <5>1, <5>2
      <4>2. mine \subseteq DOMAIN table
        BY DEF mine
      <4> QED BY <4>1, <4>2, FS_Subset
    <3>2. ExistsBijection(mine, 0 .. OpCount(n) - 1)
      BY <2>13, <2>14 DEF ExistsBijection, Bijection
    <3>3. Cardinality(0 .. OpCount(n) - 1) = OpCount(n)
      BY <2>7, FS_Interval
    <3> QED BY <3>1, <3>2, <3>3, FS_Bijection
  <2>16. { table[e].disp : e \in mine } = 0 .. OpCount(n) - 1
    BY <2>8, <2>10, <2>12
  <2> QED BY <2>15, <2>16 DEF mine, n
<1>2. IngestInv => EveryDispatchOnce
  BY <1>1, Zenon DEF EveryDispatchOnce
<1> QED BY <1>2, IngestInvariant, PTL
=============================================================================
