--------------------------- MODULE MCXpurtWalker ---------------------------
(***************************************************************************)
(* Hand-picked dispatch tables, each with one of the situations that make  *)
(* the walker hard.  The fan-out is filled in the way ingest does it.      *)
(***************************************************************************)
EXTENDS XpurtWalker

Row(net, inst, disp, kind, harts, deps, tdep, start) ==
  [net |-> net, inst |-> inst, disp |-> disp, kind |-> kind, impl |-> kind,
   harts |-> harts, deps |-> deps, tdep |-> tdep, fanout |-> 0,
   start |-> start]

\* The table of a sequence of rows.
AsTable(rows) ==
  LET t == [e \in 0 .. Len(rows) - 1 |-> rows[e + 1]]
  IN  [e \in DOMAIN t |-> [t[e] EXCEPT !.fanout = Cardinality(Consumers(t, e))]]

\* Two heads that finish in either order, a join across kinds and harts, a
\* producer that is a data and a time dependency of one consumer.
Diamond == AsTable(<<
  Row("a", 0, 0, "p", << 0 >>, << >>, -1, 0),
  Row("a", 0, 1, "p", << 1 >>, << 0 >>, 0, 0),
  Row("a", 0, 2, "e", << 0 >>, << 0 >>, 1, 1) >>)

\* Overlapping composite blocks in opposite orders, a zero-cost view that
\* waits for both, and an entry that waits for the view.
Blocks == AsTable(<<
  Row("b", 0, 0, "p", << 0, 1 >>, << >>, -1, 0),
  Row("b", 0, 1, "e", << 1, 0 >>, << >>, -1, 0),
  Row("b", 0, -1, "p", << 1 >>, << 0, 1 >>, -1, 0),
  Row("c", 0, 0, "e", << 1 >>, << 2 >>, -1, 1) >>)

\* Two instances of one model in a pipeline over two harts.
Periodic == AsTable(<<
  Row("b", 0, 0, "p", << 0 >>, << >>, -1, 0),
  Row("b", 0, 1, "p", << 1 >>, << 0 >>, -1, 0),
  Row("b", 1, 0, "p", << 0 >>, << >>, -1, 1),
  Row("b", 1, 1, "p", << 1 >>, << 2 >>, -1, 1) >>)

\* An entry of a network the binary does not know, between two it knows.
Stranger == AsTable(<<
  Row("c", 0, 0, "p", << 0 >>, << >>, -1, 0),
  Row("x", 0, 0, "p", << 1 >>, << 0 >>, -1, 0),
  Row("c", 1, 0, "p", << 0 >>, << 1 >>, -1, 1) >>)

\* Tables main() or a worker refuses.
Kindless == AsTable(<< Row("c", 0, 0, "q", << 0 >>, << >>, -1, 0) >>)
OtherImpl == AsTable(<<
  [Row("c", 0, 0, "p", << 0 >>, << >>, -1, 0) EXCEPT !.impl = "q"],
  Row("c", 1, 0, "p", << 1 >>, << >>, -1, 0) >>)
Unbound == AsTable(<<
  Row("a", 0, 0, "p", << 1 >>, << >>, -1, 0),
  Row("a", 0, 1, "p", << 0 >>, << >>, -1, 0),
  Row("a", 0, 2, "p", << -1 >>, << >>, -1, 0),
  Row("c", 0, 0, "e", << -1 >>, << >>, -1, 0) >>)
TooWide == AsTable(<< Row("c", 0, 0, "p", << 0, 1, 2 >>, << >>, -1, 0) >>)
FarHart == AsTable(<< Row("c", 0, 0, "p", << 3 >>, << >>, -1, 0) >>)
TwiceHart == AsTable(<< Row("c", 0, 0, "p", << 1, 1 >>, << >>, -1, 0) >>)
ManyPools == AsTable(<<
  Row("c", 0, 0, "p", << 0, 1 >>, << >>, -1, 0),
  Row("c", 1, 0, "p", << 1, 0 >>, << >>, -1, 0),
  Row("c", 2, 0, "p", << 1, 2 >>, << >>, -1, 0) >>)
ManyWorkers == AsTable(<<
  Row("a", 0, 0, "p", << 0 >>, << >>, -1, 0),
  Row("a", 0, 1, "p", << 1 >>, << >>, -1, 0),
  Row("a", 0, 2, "e", << 0 >>, << >>, -1, 0),
  Row("c", 0, 0, "e", << 1 >>, << >>, -1, 0) >>)
Empty == AsTable(<< >>)

\* More consumers than the semaphore has room for: a give is lost, and what
\* the walker guarantees of well-formed tables only is not to be had.
Crowded == AsTable(<<
  Row("a", 0, 0, "p", << 0 >>, << >>, -1, 0),
  Row("a", 0, 1, "p", << 1 >>, << 0 >>, -1, 0),
  Row("a", 0, 2, "p", << 1 >>, << 0 >>, -1, 0),
  Row("c", 0, 0, "e", << 0 >>, << 0 >>, -1, 0) >>)

\* Three entries over two harts with any edges backward: ways to overlap
\* the reserved harts, in both orders, and to wait for each other.
HartLists(e) == CASE e = 0 -> {<<0>>, <<0, 1>>}
                  [] e = 1 -> {<<0>>, <<1>>, <<1, 0>>}
                  [] e = 2 -> {<<0>>, <<1, 0>>}
DepLists(e) == CASE e = 0 -> {<<>>}
                 [] e = 1 -> {<<>>, <<0>>}
                 [] e = 2 -> {<<>>, <<0>>, <<1>>, <<0, 1>>}
Rows(e) == {Row("a", 0, e, k, h, d, td, 0) :
              k \in IF e = 1 THEN {"e"} ELSE {"p"},
              h \in HartLists(e),
              d \in DepLists(e), td \in IF e = 2 THEN -1 .. 1 ELSE {-1}}
SmallTables == {AsTable(<<a, b, c>>) : a \in Rows(0), b \in Rows(1), c \in Rows(2)}

MCTables == { Diamond, Blocks, Periodic, Stranger, Kindless, OtherImpl, Unbound,
              TooWide, FarHart, TwiceHart, ManyPools, ManyWorkers, Empty, Crowded }
            \cup SmallTables
PeriodicTables == { Periodic }

MCOpCount == [m \in { "a", "b", "c" } |->
                IF m = "a" THEN 3 ELSE IF m = "b" THEN 2 ELSE 1]
=============================================================================
