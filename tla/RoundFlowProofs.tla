-------------------------- MODULE RoundFlowProofs --------------------------
(***************************************************************************)
(* What a crash between any two steps of a round leaves behind is          *)
(* consistent, for any hints, items, rounds, crashes and restarts.         *)
(***************************************************************************)
EXTENDS RoundFlow, FiniteSetTheorems, WellFoundedInduction, TLAPS

\* A non-empty set of naturals has a least element.
LEMMA NatHasLeast ==
  ASSUME NEW S, S \subseteq Nat, S # {}
  PROVE  \E x \in S : \A y \in S : x <= y
<1> DEFINE R == OpToRel(<, Nat)
<1>1. \A x, y \in Nat : (<< x, y >> \in R) <=> x < y
  BY DEF OpToRel
<1>2. IsWellFoundedOn(R, Nat)
  BY NatLessThanWellFounded, Zenon
<1> HIDE DEF R
<1>3. PICK x \in S : \A y \in S : ~ (<< y, x >> \in R)
  BY <1>2, WFMin, Zenon
<1>4. \A y \in S : ~ (y < x) /\ y \in Nat /\ x \in Nat
  BY <1>1, <1>3
<1> QED BY <1>3, <1>4

(* The invariant, in parts.  A process that is alive has the disk's        *)
(* number of rounds; what it may have in memory only depends on where it   *)
(* is.                                                                     *)

BeforeRound == {"loop", "import_barrier", "move_barrier", "save_barrier",
                "resumed"}
InPlanRun   == {"kb", "kb_run", "pause", "wait", "import_halfway",
                "move_halfway", "ack_halfway", "save_halfway", "halfway_done"}
InWave      == {"prepare", "wave_kb", "wave_run", "finish", "save_wave",
                "wave_mark"}
Deciding    == {"wave"} \cup InWave \cup {"end"}
AfterSent   == {"save_hints", "cands", "schedule"} \cup Deciding

Counts ==
    Alive => /\ stM.n = stD.n
             /\ pc \notin BeforeRound \cup {"fix"} => stM.n < Rounds

\* The hint's last evidence is of the current round.
Recorded(h, doc, st) == doc[h] # <<>> /\ Last(doc[h]).round = st.n

DecisionInv ==
    /\ \A h \in Hints : prog.decided[h] # None =>
          Recorded(h, docD, stD) /\ prog.decided[h] = Outcome(docD[h])
    /\ Alive => \A h \in Hints : prog.decided[h] # None =>
          Recorded(h, docM, stM) /\ prog.decided[h] = Outcome(docM[h])
    /\ At("finish") => \A h \in Wave : h \in ready \/ Recorded(h, docM, stM)
    /\ At("save_wave") => \A h \in Wave : Recorded(h, docM, stM)
    /\ At("wave_mark") => docD = docM /\ \A h \in Wave : Recorded(h, docM, stM)

Majority(ev) == Count(ev, "accepted") > Count(ev, "rejected")
CachedInv ==
    /\ \A h \in Hints : Majority(docD[h]) => h \in cache
    /\ Alive => \A h \in Hints : Majority(docM[h]) => h \in cache

SentInv ==
    /\ prog.plan \cap stD.sent = {}
    /\ ~Done("plan") => prog.plan = {}
    /\ Alive /\ pc \notin AfterSent => stM.sent = stD.sent
    /\ \A i \in stD.sent : result[i] = "won" => i \in cache
    /\ Alive => \A i \in stM.sent : result[i] = "won" => i \in cache
    /\ Done("ingest") \/ pc \in {"ingest", "ingest_mark", "sent"} =>
          Done("plan") /\ \A i \in prog.plan : result[i] # None
    /\ Done("ingest") \/ pc \in {"ingest_mark", "sent"} =>
          \A i \in prog.plan : result[i] = "won" => i \in cache
    /\ pc \in InPlanRun \cup {"export", "export_mark"} => Done("plan")

JournalInv ==
    /\ \A p \in Hints \cup {Plan} : journal[p] # None => journal[p] = export[p]
    /\ ~Done("export") => journal[Plan] = None
    /\ pc \in InPlanRun => Done("export")
    /\ At("export_mark") => ~Done("export")
    /\ JournalMatchesExport

\* What has left the inbox is imported or refused, and what an import has
\* found is so before it is moved.
PackageInv ==
    /\ stM.rows <= known /\ stD.rows <= known /\ known <= delivered
    /\ inbox \subseteq 1..delivered
    /\ \A p \in listed : p <= known \/ p \in refused
    /\ \A p \in 1..delivered : p \in inbox \/ p <= known \/ p \in refused

CharInv ==
    /\ parked # None => stD.n > 0 \/ Done("gs_char")
    /\ pc \in {"char", "char_mark"} => stM.n = 0
    /\ pc \in {"import_barrier", "move_barrier", "save_barrier", "resumed"} => parked = "parked"

\* A layout of waves: every hint in one wave, conflicting hints in rank order.
Layout(ws) ==
    /\ \A v, w \in DOMAIN ws : \A h \in ws[v] \cap ws[w] : v = w
    /\ \A v, w \in DOMAIN ws : \A g \in ws[v], h \in ws[w] :
          Conflict(g, h) /\ Rank[g] < Rank[h] => v < w

NoneDecided == \A h \in Hints : prog.decided[h] = None
Whole(w)    == \/ \A h \in prog.waves[w] : prog.decided[h] = None
               \/ \A h \in prog.waves[w] : prog.decided[h] # None

WaveInv ==
    /\ Layout(waves) /\ Layout(prog.waves)
    /\ At("schedule") =>
          /\ ~Done("decide") /\ Done("cands") /\ Placed(waves) \subseteq prog.cands
          /\ \A g \in Placed(waves), h \in prog.cands \ Placed(waves) :
                Rank[g] < Rank[h]
    /\ ~At("schedule") /\ Alive => waves = <<>>
    /\ Done("decide") => Done("cands") /\ prog.cands \subseteq Placed(prog.waves)
    /\ ~Done("decide") => NoneDecided
    /\ \A w \in DOMAIN prog.waves : Whole(w)
    /\ pc \in Deciding => Done("decide")
    /\ pc \in InWave => \E w \in DOMAIN prog.waves : Open(w)
    /\ pc \notin InWave => ready = {}
    /\ pc \in InWave => ready \subseteq Wave
    /\ pc \in {"wave_kb", "wave_run"} => ready = Wave
    /\ At("save_wave") \/ At("wave_mark") => ready = {}
    /\ At("prepare") => ready # Wave
    /\ At("finish") => ready # {}

FlowInv ==
    /\ RoundTypeOK
    /\ Counts /\ DecisionInv /\ CachedInv /\ SentInv /\ JournalInv
    /\ PackageInv /\ CharInv /\ WaveInv

USE FlowAssumption

-----------------------------------------------------------------------------
(* Evidence.                                                               *)

\* The votes of one kind in an evidence are finitely many.
LEMMA VotesFinite ==
  ASSUME NEW ev \in Evidence, NEW v
  PROVE  /\ Len(ev) \in Nat /\ DOMAIN ev = 1..Len(ev)
         /\ IsFiniteSet({i \in DOMAIN ev : ev[i].vote = v})
         /\ Count(ev, v) \in Nat
<1> DEFINE S == {i \in DOMAIN ev : ev[i].vote = v}
<1>1. Len(ev) \in Nat /\ DOMAIN ev = 1..Len(ev)
  BY DEF Evidence
<1>2. S \subseteq 1..Len(ev)
  BY <1>1
<1>3. IsFiniteSet(1..Len(ev))
  BY <1>1, FS_Interval
<1>4. IsFiniteSet(S)
  BY <1>2, <1>3, FS_Subset
<1>5. Cardinality(S) \in Nat
  BY <1>4, FS_CardinalityType
<1> QED
  BY <1>1, <1>4, <1>5 DEF Count

\* A vote added to the evidence counts for its own kind only.
LEMMA CountAppend ==
  ASSUME NEW ev \in Evidence, NEW x \in [round : 0..Rounds, vote : Votes], NEW v
  PROVE  Count(Append(ev, x), v) = IF x.vote = v THEN Count(ev, v) + 1 ELSE Count(ev, v)
<1> DEFINE S == {i \in DOMAIN ev : ev[i].vote = v}
           T == {i \in DOMAIN Append(ev, x) : Append(ev, x)[i].vote = v}
<1>1. Len(ev) \in Nat /\ DOMAIN ev = 1..Len(ev) /\ IsFiniteSet(S)
  BY VotesFinite
<1>2. /\ DOMAIN Append(ev, x) = 1..Len(ev) + 1
      /\ Append(ev, x)[Len(ev) + 1] = x
      /\ \A i \in 1..Len(ev) : Append(ev, x)[i] = ev[i]
  BY <1>1 DEF Evidence
<1>3. T = IF x.vote = v THEN S \cup {Len(ev) + 1} ELSE S
  BY <1>1, <1>2
<1>4. Len(ev) + 1 \notin S
  BY <1>1
<1> HIDE DEF S, T
<1>5. Cardinality(T) = IF x.vote = v THEN Cardinality(S) + 1 ELSE Cardinality(S)
  BY <1>1, <1>3, <1>4, FS_AddElement
<1> QED
  BY <1>5 DEF S, T, Count

\* A hint that was voted on is accepted, rejected, undecided or unresolved.
LEMMA OutcomeOfVote ==
  ASSUME NEW ev \in Evidence, ev # <<>>
  PROVE  Outcome(ev) \in {"accepted", "rejected", "undecided", "infra_unresolved"}
<1> DEFINE S(v) == {i \in DOMAIN ev : ev[i].vote = v}
<1>1. Len(ev) \in Nat /\ DOMAIN ev = 1..Len(ev) /\ Len(ev) # 0
  BY DEF Evidence
<1>2. Last(ev).vote \in Votes
  <2> DEFINE R == [round : 0..Rounds, vote : Votes]
  <2>1. ev \in Seq(R)
    BY DEF Evidence
  <2> HIDE DEF R
  <2>2. ev[Len(ev)] \in R
    BY <1>1, <2>1
  <2> QED
    BY <2>2 DEF Last, R
<1>3. \A v : Last(ev).vote = v => S(v) # {}
  BY <1>1 DEF Last
<1>4. \A v : Count(ev, v) \in Nat
  BY VotesFinite
<1>5. \A v : IsFiniteSet(S(v)) /\ Count(ev, v) = Cardinality(S(v))
  BY VotesFinite DEF Count
<1> HIDE DEF S
<1>6. \A v : Last(ev).vote = v => Count(ev, v) # 0
  BY <1>3, <1>5, FS_EmptySet
<1> QED
  BY <1>2, <1>4, <1>6 DEF Outcome, Status, Votes

\* The recorded status is that of the majority, unless the last vote is lost (record_decision).
LEMMA StatusIsMajority ==
  ASSUME NEW ev \in Evidence
  PROVE  /\ Status(ev) = "accepted" => Majority(ev)
         /\ Majority(ev) /\ (ev = <<>> \/ Last(ev).vote # "lost") => Status(ev) = "accepted"
<1>1. Count(ev, "accepted") \in Nat /\ Count(ev, "rejected") \in Nat
  BY VotesFinite
<1> QED
  BY <1>1 DEF Status, Majority

\* Without evidence there is no majority.
LEMMA NoEvidence ==
  ~Majority(<<>>)
BY FS_EmptySet DEF Majority, Count

-----------------------------------------------------------------------------
(* Ranks and waves.                                                        *)

\* Of any hints one is first in rank order.
LEMMA FirstOfHints ==
  ASSUME NEW S \in SUBSET Hints, S # {}
  PROVE  /\ First(S) \in S
         /\ \A g \in S : Rank[First(S)] <= Rank[g]
<1> DEFINE R == {Rank[h] : h \in S}
<1>1. R \subseteq Nat /\ R # {}
  OBVIOUS
<1>3. \E n \in R : \A m \in R : n <= m
  BY <1>1, NatHasLeast
<1>4. \E h \in S : \A g \in S : Rank[h] <= Rank[g]
  BY <1>3
<1> QED
  BY <1>4 DEF First

\* The current wave is the first one with an undecided hint.
LEMMA CurrentWave ==
  ASSUME prog.waves \in Seq(SUBSET Hints), \E w \in DOMAIN prog.waves : Open(w)
  PROVE  \E w \in DOMAIN prog.waves :
            /\ Wave = prog.waves[w] /\ Open(w)
            /\ \A v \in DOMAIN prog.waves : Open(v) => w <= v
<1> DEFINE R == {w \in DOMAIN prog.waves : Open(w)}
<1>1. R \subseteq Nat /\ R # {}
  OBVIOUS
<1>3. \E n \in R : \A m \in R : n <= m
  BY <1>1, NatHasLeast
<1>4. \E w \in DOMAIN prog.waves :
         Open(w) /\ \A v \in DOMAIN prog.waves : Open(v) => w <= v
  BY <1>3
<1> QED
  BY <1>4 DEF Wave

\* A hint that comes after all that are placed keeps the layout (schedule).
LEMMA PutKeepsLayout ==
  ASSUME NEW ws \in Seq(SUBSET Hints), NEW h \in Hints \ Placed(ws), Layout(ws),
         \A g \in Placed(ws) : Rank[g] < Rank[h], NEW w \in Room(ws, h)
  PROVE  /\ Put(ws, w, h) \in Seq(SUBSET Hints) /\ Layout(Put(ws, w, h))
         /\ Placed(Put(ws, w, h)) = Placed(ws) \cup {h}
<1> DEFINE us == Put(ws, w, h)
<1>1. Len(ws) \in Nat /\ DOMAIN ws = 1..Len(ws) /\ w \in 1..Len(ws) + 1
  BY DEF Room
<1>2. us \in Seq(SUBSET Hints) /\ DOMAIN us = DOMAIN ws \cup {w}
  <2>1. CASE w > Len(ws)
    <3>1. w = Len(ws) + 1 /\ us = Append(ws, {h})
      BY <1>1, <2>1 DEF Put
    <3>2. {h} \in SUBSET Hints
      OBVIOUS
    <3>3. Append(ws, {h}) \in Seq(SUBSET Hints) /\ Len(Append(ws, {h})) = Len(ws) + 1
      BY <3>2
    <3>4. DOMAIN Append(ws, {h}) = 1..Len(ws) + 1
      BY <3>3
    <3> HIDE DEF us
    <3> QED
      BY <1>1, <3>1, <3>3, <3>4
  <2>2. CASE ~(w > Len(ws))
    <3>1. w \in DOMAIN ws /\ us = [ws EXCEPT ![w] = @ \cup {h}]
      BY <1>1, <2>2 DEF Put
    <3>2. ws[w] \cup {h} \in SUBSET Hints
      BY <1>1, <3>1
    <3>3. DOMAIN [ws EXCEPT ![w] = @ \cup {h}] = DOMAIN ws
      OBVIOUS
    <3>4. [ws EXCEPT ![w] = ws[w] \cup {h}] \in Seq(SUBSET Hints)
      BY <3>1, <3>2
    <3> HIDE DEF us
    <3> QED
      BY <1>1, <3>1, <3>3, <3>4
  <2> QED
    BY <2>1, <2>2
<1>3. /\ us[w] = (IF w \in DOMAIN ws THEN ws[w] ELSE {}) \cup {h}
      /\ \A v \in DOMAIN ws \ {w} : us[v] = ws[v]
  BY <1>1 DEF Put
<1>4. Placed(us) = Placed(ws) \cup {h}
  BY <1>2, <1>3 DEF Placed
<1>5. \A v \in DOMAIN ws : h \notin ws[v]
  BY DEF Placed
<1>6. \A v \in DOMAIN ws : \A g \in ws[v] :
         /\ g \in Hints /\ Rank[g] \in Nat /\ Rank[h] \in Nat /\ Rank[g] < Rank[h]
         /\ Conflict(g, h) => v < w
  BY <1>1 DEF Placed, Room, Before
<1> HIDE DEF us
<1>7. \A u, v \in DOMAIN us : \A g \in us[u] \cap us[v] : u = v
  BY <1>2, <1>3, <1>5 DEF Layout
<1>8. \A u, v \in DOMAIN us : \A f \in us[u], g \in us[v] :
         Conflict(f, g) /\ Rank[f] < Rank[g] => u < v
  <2>1. SUFFICES ASSUME NEW u \in DOMAIN us, NEW v \in DOMAIN us,
                        NEW f \in us[u], NEW g \in us[v],
                        Conflict(f, g), Rank[f] < Rank[g]
                 PROVE  u < v
    OBVIOUS
  <2>4. CASE f = h
    BY <1>2, <1>3, <1>6, <2>1, <2>4
  <2>5. CASE f # h /\ g = h
    BY <1>2, <1>3, <1>5, <1>6, <2>1, <2>5
  <2>6. CASE f # h /\ g # h
    BY <1>2, <1>3, <2>1, <2>6 DEF Layout
  <2> QED
    BY <2>4, <2>5, <2>6
<1> QED
  BY <1>2, <1>4, <1>7, <1>8 DEF us, Layout

\* Ranks are distinct.
LEMMA OneRank ==
  ASSUME NEW g \in Hints, NEW h \in Hints, Rank[g] = Rank[h]
  PROVE  g = h
BY DEF IsInjective

\* Before a hint is placed there are no waves to respect an order.
LEMMA NonePlaced ==
  Placed(<<>>) = {} /\ Layout(<<>>)
BY DEF Placed, Layout

\* A round's record has its type when the round begins.
LEMMA NewRoundType ==
  NewRound \in RoundRecords
<1>1. <<>> \in Seq(SUBSET Hints)
  OBVIOUS
<1> QED
  BY <1>1 DEF NewRound, RoundRecords

\* No exported problem is a value of the exports' type.
LEMMA NoFilesType ==
  NoFiles \in Exports
BY DEF NoFiles, Exports

\* While a wave is decided it is not empty, and none of it is decided yet.
LEMMA UndecidedWave ==
  ASSUME prog \in RoundRecords, WaveInv, pc \in InWave
  PROVE  /\ Wave \subseteq Hints /\ Wave # {}
         /\ \A h \in Wave : prog.decided[h] = None
<1>1. PICK w \in DOMAIN prog.waves : Wave = prog.waves[w] /\ Open(w)
  BY CurrentWave DEF WaveInv, RoundRecords
<1>2. prog.waves[w] \subseteq Hints
  BY DEF RoundRecords
<1> QED
  BY <1>1, <1>2 DEF WaveInv, Whole, Open

-----------------------------------------------------------------------------
(* The steps that choose a hint.                                           *)

\* A vote on a hint is evidence of the current round.
LEMMA VotedEvidence ==
  ASSUME stM \in States, NEW ev \in Evidence, NEW v \in Votes
  PROVE  LET x == [round |-> stM.n, vote |-> v] IN
         /\ x \in [round : 0..Rounds, vote : Votes]
         /\ Append(ev, x) \in Evidence
         /\ Append(ev, x) # <<>> /\ Last(Append(ev, x)).round = stM.n
<1> DEFINE x == [round |-> stM.n, vote |-> v]
<1>1. x \in [round : 0..Rounds, vote : Votes] /\ x.round = stM.n
  BY DEF States
<1> HIDE DEF x
<1>2. Append(ev, x) \in Evidence
  BY <1>1 DEF Evidence
<1>3. Len(ev) \in Nat /\ Len(Append(ev, x)) = Len(ev) + 1 /\ Append(ev, x)[Len(ev) + 1] = x
  BY DEF Evidence
<1>4. Append(ev, x) # <<>> /\ Last(Append(ev, x)).round = stM.n
  <2>1. Append(ev, x) # <<>>
    BY <1>3
  <2>2. Append(ev, x)[Len(Append(ev, x))] = x
    BY <1>3
  <2> QED
    BY <1>1, <2>1, <2>2 DEF Last
<1> QED
  BY <1>1, <1>2, <1>4 DEF x

\* The hint that is placed comes before those that are not placed yet.
LEMMA PlacedNext ==
  ASSUME RoundTypeOK, WaveInv, PlaceHint
  PROVE  /\ waves' \in Seq(SUBSET Hints) /\ Layout(waves')
         /\ \E h \in prog.cands \ Placed(waves) : \E w \in Room(waves, h) :
               /\ \A g \in prog.cands \ Placed(waves) : Rank[h] <= Rank[g]
               /\ h \in Hints /\ waves' = Put(waves, w, h)
               /\ Placed(waves') = Placed(waves) \cup {h}
<1> DEFINE S == prog.cands \ Placed(waves)
           h == First(S)
<1>1. S \in SUBSET Hints /\ S # {}
  BY DEF RoundTypeOK, RoundRecords, PlaceHint
<1>2. PICK w \in Room(waves, h) : waves' = Put(waves, w, h)
  BY DEF PlaceHint
<1> HIDE DEF h
<1>3. h \in S /\ \A g \in S : Rank[h] <= Rank[g]
  BY <1>1, FirstOfHints DEF h
<1>4. h \in Hints \ Placed(waves) /\ \A g \in Placed(waves) : Rank[g] < Rank[h]
  BY <1>1, <1>3 DEF WaveInv, PlaceHint, At
<1>5. waves \in Seq(SUBSET Hints) /\ Layout(waves)
  BY DEF RoundTypeOK, WaveInv
<1>6. /\ Put(waves, w, h) \in Seq(SUBSET Hints) /\ Layout(Put(waves, w, h))
      /\ Placed(Put(waves, w, h)) = Placed(waves) \cup {h}
  BY <1>4, <1>5, PutKeepsLayout
<1> QED
  BY <1>2, <1>3, <1>4, <1>6

\* A hint of the current wave is prepared.
LEMMA PreparedNext ==
  ASSUME RoundTypeOK, WaveInv, Prepare
  PROVE  \E h \in Wave \ ready :
            /\ h \in Hints /\ export' = [export EXCEPT ![h] = Exported(h)]
            /\ ready' = ready \cup {h}
            /\ pc' = IF Wave \subseteq ready' THEN "wave_kb" ELSE "prepare"
<1>1. Wave \subseteq Hints /\ ready \subseteq Wave /\ ready # Wave
  BY UndecidedWave DEF RoundTypeOK, WaveInv, Prepare, At, InWave
<1>2. First(Wave \ ready) \in Wave \ ready
  BY <1>1, FirstOfHints
<1> QED
  BY <1>1, <1>2 DEF Prepare, Goto

\* A hint of the current wave gets its vote.
GetsVote(h, v) ==
    LET ev == Append(docM[h], [round |-> stM.n, vote |-> v]) IN
    /\ h \in ready
    /\ docM' = [docM EXCEPT ![h] = ev]
    /\ cache' = cache \cup NewSlots(h, v, ev)
    /\ ready' = ready \ {h}
    /\ pc' = IF ready = {h} THEN "save_wave" ELSE "finish"

\* finish_hint gives one vote to one hint.
LEMMA FinishedNext ==
  ASSUME RoundTypeOK, WaveInv, FinishHint
  PROVE  \E h \in Hints, v \in Votes : GetsVote(h, v)
<1>1. ready \in SUBSET Hints /\ ready # {}
  BY DEF RoundTypeOK, WaveInv, FinishHint, At
<1>2. First(ready) \in ready
  BY <1>1, FirstOfHints
<1> QED
  BY <1>1, <1>2 DEF FinishHint, GetsVote, Goto

-----------------------------------------------------------------------------
(* Every step keeps every part of the invariant. *)

\* The files stay well formed.
LEMMA TypeStep ==
  ASSUME FlowInv, [Next]_vars
  PROVE  RoundTypeOK'
<1>t. RoundTypeOK /\ Counts /\ DecisionInv /\ WaveInv
  BY DEF FlowInv
<1> USE DEF At, Goto, Alive, Done, Mark, vars, memory, files, syncs, packages,
    bounds
<1>1. ASSUME NEW at, NEW move, NEW next, NEW none, Import(at, move, next, none)
      PROVE  RoundTypeOK'
  <2>0. stM \in States /\ inbox \in SUBSET Nat /\ known \in Nat
    BY <1>t DEF RoundTypeOK
  <2>1. CASE Move(move, next)
    BY <1>t, <2>1 DEF RoundTypeOK, Move
  <2>2. CASE Merge(at, move, none) /\ inbox # {}
    <3>1. PICK m \in {known} \cup {p \in inbox : p > known} :
            /\ known' = m
            /\ refused' = refused \cup {p \in inbox : p > m}
            /\ stM' = [stM EXCEPT !.rows = @ + Counted(m)]
      BY <2>2 DEF Merge
    <3>2. m \in Nat /\ Counted(m) \in Nat
      BY <2>0 DEF Counted
    <3>3. stM' \in States
      BY <2>0, <3>1, <3>2 DEF States
    <3> QED
      BY <1>t, <2>0, <2>2, <3>1, <3>2, <3>3 DEF RoundTypeOK, Merge
  <2>3. CASE Merge(at, move, none) /\ inbox = {}
    BY <1>t, <2>3 DEF RoundTypeOK, Merge
  <2> QED
    BY <1>1, <2>1, <2>2, <2>3 DEF Import
<1>2. CASE MakePlan
  <2> DEFINE plan == IF Done("plan") THEN prog.plan ELSE Items \ stM.sent
  <2>1. plan \in SUBSET Items
    BY <1>t DEF RoundTypeOK, RoundRecords
  <2>2. prog' = [prog EXCEPT !.phases = @ \cup {"plan"}, !.plan = plan]
    BY <1>2 DEF MakePlan
  <2>3. result' \in [Items -> {"won", "slow", "lost", None}]
    BY <1>t, <1>2 DEF RoundTypeOK, MakePlan
  <2> HIDE DEF plan
  <2>4. prog' \in RoundRecords
    BY <1>t, <2>1, <2>2 DEF RoundTypeOK, RoundRecords, Phases
  <2> QED
    BY <1>t, <1>2, <2>3, <2>4 DEF RoundTypeOK, MakePlan
<1>3. CASE Export
  <2>1. Seed(Plan) \in Seeds
    BY <1>t DEF RoundTypeOK, Seed, Seeds
  <2>2. export' \in Exports
    BY <1>t, <1>3, <2>1 DEF RoundTypeOK, Exports, Export
  <2> QED
    BY <1>t, <1>3, <2>2 DEF RoundTypeOK, Export
<1>4. CASE MarkSent
  <2>1. stM.n \in 0..Rounds /\ stM \in States
    BY <1>t DEF RoundTypeOK, States
  <2> DEFINE held == {i \in prog.plan : Held(i)}
             sent == stM.sent \cup (prog.plan \ held)
             retry == [i \in Items |-> IF i \in held THEN stM.retry[i] \cup {stM.n}
                                                  ELSE stM.retry[i]]
  <2>2. sent \in SUBSET Items /\ retry \in [Items -> SUBSET (0..Rounds)]
    BY <1>t, <2>1 DEF RoundTypeOK, RoundRecords, States
  <2>3. stM' = [stM EXCEPT !.sent = sent, !.retry = retry]
    BY <1>4 DEF MarkSent
  <2> HIDE DEF sent, retry
  <2>4. stM' \in States
    BY <2>1, <2>2, <2>3 DEF States
  <2> QED
    BY <1>t, <1>4, <2>4 DEF RoundTypeOK, MarkSent
<1>5. CASE PickCandidates
  <2> DEFINE todo == {h \in Hints : Status(docM[h]) = "proposed"}
             ahead(h) == {g \in todo : Rank[g] < Rank[h]}
             cands == {h \in todo : Cardinality(ahead(h)) < MaxVariants}
  <2>1. IsFiniteSet(todo) /\ Cardinality(todo) \in Nat
    <3>1. IsFiniteSet(todo)
      BY FS_Subset
    <3> QED
      BY <3>1, FS_CardinalityType
  <2>2. cands \in SUBSET Hints
    OBVIOUS
  <2>3. prog' = IF Done("cands") THEN prog
                ELSE [prog EXCEPT !.phases = @ \cup {"cands"}, !.cands = cands,
                                  !.todo = Cardinality(todo)]
    BY <1>5 DEF PickCandidates
  <2> HIDE DEF todo, cands
  <2>4. prog' \in RoundRecords
    BY <1>t, <2>1, <2>2, <2>3 DEF RoundTypeOK, RoundRecords, Phases
  <2> QED
    BY <1>t, <1>5, <2>4 DEF RoundTypeOK, PickCandidates
<1>6. CASE PlaceHint
  <2>1. waves' \in Seq(SUBSET Hints)
    BY <1>t, <1>6, PlacedNext
  <2> QED
    BY <1>t, <1>6, <2>1 DEF RoundTypeOK, PlaceHint
<1>7. CASE FixWaves
  <2>1. prog' \in RoundRecords
    BY <1>t, <1>7 DEF RoundTypeOK, FixWaves, RoundRecords, Phases
  <2>2. <<>> \in Seq(SUBSET Hints)
    OBVIOUS
  <2> QED
    BY <1>t, <1>7, <2>1, <2>2 DEF RoundTypeOK, FixWaves
<1>8. CASE Prepare
  <2>1. PICK h \in Hints : /\ export' = [export EXCEPT ![h] = Exported(h)]
                          /\ ready' = ready \cup {h}
    BY <1>t, <1>8, PreparedNext
  <2>2. Seed(h) \in Seeds
    BY <1>t DEF RoundTypeOK, Seed, Seeds
  <2>3. Exported(h) \in Seeds \cup {None}
    BY <1>t, <2>2 DEF RoundTypeOK, Exports, Exported
  <2>4. export' \in Exports
    BY <1>t, <2>1, <2>3 DEF RoundTypeOK, Exports
  <2> QED
    BY <1>t, <1>8, <2>1, <2>4 DEF RoundTypeOK, Prepare
<1>9. CASE FinishHint
  <2>1. PICK h \in Hints, v \in Votes : GetsVote(h, v)
    BY <1>t, <1>9, FinishedNext
  <2>2. docM' \in [Hints -> Evidence] /\ cache' \in SUBSET (Hints \cup Items)
        /\ ready' \in SUBSET Hints
    BY <1>t, <2>1, VotedEvidence DEF RoundTypeOK, GetsVote, NewSlots
  <2> QED
    BY <1>t, <1>9, <2>2 DEF RoundTypeOK, FinishHint
<1>10. CASE MarkWave
  <2>1. \A h \in Wave : h \in Hints => Outcome(docM[h]) \in
           {"accepted", "rejected", "undecided", "infra_unresolved"}
    BY <1>t, <1>10, OutcomeOfVote DEF RoundTypeOK, DecisionInv, Recorded, MarkWave
  <2> DEFINE d == [h \in Hints |-> IF h \in Wave THEN Outcome(docM[h])
                                                ELSE prog.decided[h]]
  <2>2. d \in [Hints -> {"accepted", "rejected", "undecided", "infra_unresolved",
                        None}]
    BY <1>t, <2>1 DEF RoundTypeOK, RoundRecords
  <2>3. prog' = [prog EXCEPT !.decided = d]
    BY <1>10 DEF MarkWave
  <2> HIDE DEF d
  <2>4. prog' \in RoundRecords
    BY <1>t, <2>2, <2>3 DEF RoundTypeOK, RoundRecords
  <2> QED
    BY <1>t, <1>10, <2>4 DEF RoundTypeOK, MarkWave
<1>11. CASE EndRound
  <2>1. stM \in States /\ stM.n + 1 \in 0..Rounds
    BY <1>t, <1>11 DEF RoundTypeOK, Counts, States, EndRound, BeforeRound
  <2>2. stM' \in States /\ stD' = stM'
    BY <1>11, <2>1 DEF EndRound, States
  <2>3. prog' \in RoundRecords
    BY <1>11, NewRoundType DEF EndRound
  <2>4. export' \in Exports /\ journal' \in Exports
    BY <1>11, NoFilesType DEF EndRound
  <2> QED
    BY <1>t, <1>11, <2>2, <2>3, <2>4 DEF RoundTypeOK, EndRound
<1>12. CASE Crash
  <2>1. docM' \in [Hints -> Evidence] /\ stM' \in States /\ waves' \in Seq(SUBSET Hints)
    BY <1>t, <1>12 DEF Crash, Evidence, NewState, States
  <2>2. crashes' \in Nat
    BY <1>t, <1>12 DEF Crash, RoundTypeOK
  <2>3. torn' \in {torn, TRUE}
    BY <1>12 DEF Crash
  <2>4. torn' \in BOOLEAN
    BY <1>t, <2>3 DEF RoundTypeOK
  <2> QED
    BY <1>t, <1>12, <2>1, <2>2, <2>4 DEF RoundTypeOK, Crash
<1>13. CASE DropPartialRounds
  <2>1. prog' \in RoundRecords
    BY <1>13, NewRoundType DEF DropPartialRounds, RoundRecords, Kept, Phases
  <2>2. result' \in [Items -> {"won", "slow", "lost", None}]
    BY <1>t, <1>13 DEF RoundTypeOK, DropPartialRounds
  <2>3. export' \in Exports /\ journal' \in Exports
    BY <1>13, NoFilesType DEF DropPartialRounds
  <2>4. drops' \in Nat
    BY <1>t, <1>13 DEF RoundTypeOK, DropPartialRounds
  <2> QED
    BY <1>t, <1>13, <2>1, <2>2, <2>3, <2>4 DEF RoundTypeOK, DropPartialRounds
<1>14. CASE Deliver
  <2>0. inbox \in SUBSET Nat /\ delivered \in Nat
    BY <1>t DEF RoundTypeOK
  <2>1. delivered' \in Nat /\ inbox' = inbox \cup {delivered'}
    BY <2>0, <1>14 DEF Deliver
  <2>2. inbox' \in SUBSET Nat
    BY <2>0, <2>1
  <2> QED
    BY <1>t, <1>14, <2>1, <2>2 DEF RoundTypeOK, Deliver
<1>27. CASE StartKb
  <2>1. journal' \in Exports
    BY <1>t, <1>27 DEF StartKb, Opened, RoundTypeOK, Exports
  <2> QED
    BY <1>t, <1>27, <2>1 DEF RoundTypeOK, StartKb
<1>29. CASE KbEnds
  <2>1. result' \in [Items -> {"won", "slow", "lost", None}]
    BY <1>t, <1>29 DEF KbEnds, RoundTypeOK
  <2> QED
    BY <1>t, <1>29, <2>1 DEF RoundTypeOK, KbEnds
<1>38. CASE StartWave
  <2>1. journal' \in Exports
    BY <1>t, <1>38 DEF StartWave, Opened, RoundTypeOK, Exports
  <2> QED
    BY <1>t, <1>38, <2>1 DEF RoundTypeOK, StartWave
<1> USE DEF RoundTypeOK, Counts, DecisionInv, WaveInv, RoundRecords, States,
    NewState, NewRound, NoFiles, BeforeRound, Phases, Exports
<1>15. CASE Start
  BY <1>t, <1>15 DEF Start, Finished
<1>16. CASE SaveState("save_barrier", "resumed")
  BY <1>t, <1>16 DEF SaveState
<1>17. CASE MarkResumed
  BY <1>t, <1>17 DEF MarkResumed
<1>18. CASE BeginRound
  BY <1>t, <1>18 DEF BeginRound, RoundsLeft, NewRound
<1>19. CASE SaveState("save_round", "profile")
  BY <1>t, <1>19 DEF SaveState
<1>20. CASE Profile
  BY <1>t, <1>20 DEF Profile
<1>21. CASE Characterize
  BY <1>t, <1>21 DEF Characterize
<1>22. CASE MarkChar
  BY <1>t, <1>22 DEF MarkChar
<1>23. CASE Park
  BY <1>t, <1>23 DEF Park
<1>24. CASE SaveState("park_save", "down")
  BY <1>t, <1>24 DEF SaveState
<1>25. CASE Reprofile
  BY <1>t, <1>25 DEF Reprofile
<1>26. CASE MarkExport
  BY <1>t, <1>26 DEF MarkExport
<1>28. CASE KbPauses
  BY <1>t, <1>28 DEF KbPauses
<1>30. CASE WritePaused
  BY <1>t, <1>30 DEF WritePaused
<1>31. CASE WaitForAck
  BY <1>t, <1>31 DEF WaitForAck
<1>32. CASE SaveState("save_halfway", "halfway_done")
  BY <1>t, <1>32 DEF SaveState
<1>33. CASE WriteDone
  BY <1>t, <1>33 DEF WriteDone, EndStage
<1>34. CASE Ingest
  BY <1>t, <1>34 DEF Ingest, Ingested
<1>35. CASE MarkIngest
  BY <1>t, <1>35 DEF MarkIngest
<1>36. CASE SaveHints("save_hints", "cands")
  BY <1>t, <1>36 DEF SaveHints, Saved
<1>37. CASE NextWave
  BY <1>t, <1>37 DEF NextWave
<1>39. CASE WaveEnds
  BY <1>t, <1>39 DEF WaveEnds
<1>40. CASE SaveHints("save_wave", "wave_mark")
  BY <1>t, <1>40 DEF SaveHints, Saved
<1>41. CASE Fixpoint
  BY <1>t, <1>41 DEF Fixpoint
<1>42. CASE Complete
  BY <1>t, <1>42 DEF Complete, RoundsLeft
<1>43. CASE UNCHANGED vars
  BY <1>t, <1>43
<1>44. CASE RemoveAck
  <2>1. ack' \in BOOLEAN
    BY <1>t, <1>44, Zenon DEF RemoveAck
  <2>2. UNCHANGED <<memory, files, halfway, parked, inbox, listed, known,
                    refused, delivered, bounds>>
    BY <1>44 DEF RemoveAck
  <2> QED BY <1>t, <2>1, <2>2
<1> QED
  BY <1>1, <1>2, <1>3, <1>4, <1>5, <1>6, <1>7, <1>8, <1>9, <1>10,
    <1>11, <1>12, <1>13, <1>14, <1>15, <1>16, <1>17, <1>18, <1>19, <1>20,
    <1>21, <1>22, <1>23, <1>24, <1>25, <1>26, <1>27, <1>28, <1>29, <1>30,
    <1>31, <1>32, <1>33, <1>34, <1>35, <1>36, <1>37, <1>38, <1>39, <1>40,
    <1>41, <1>42, <1>43, <1>44
  DEF Next, Process, Round, Run, Decide

\* The process and the disk agree on the number of rounds.
LEMMA CountsStep ==
  ASSUME FlowInv, [Next]_vars
  PROVE  Counts'
<1>t. RoundTypeOK /\ Counts
  BY DEF FlowInv
<1> USE DEF At, Goto, Alive, Done, Mark, vars, memory, files, syncs, packages,
    bounds
<1> USE DEF Counts, RoundTypeOK, BeforeRound, RoundRecords, States, NewState
<1>1. CASE Start \/ Import("import_barrier", "move_barrier", "save_barrier", "save_barrier") \/
          SaveState("save_barrier", "resumed") \/ MarkResumed \/
          BeginRound \/ Import("import_round", "move_round", "save_round", "profile") \/
          SaveState("save_round", "profile") \/ Profile \/ Characterize
  BY <1>t, <1>1 DEF Start, Finished, Import, Merge, Move, RemoveAck, SaveState, MarkResumed,
    BeginRound, RoundsLeft, NewRound, Profile, Characterize
<1>2. CASE MarkChar \/ Park \/ SaveState("park_save", "down") \/ Reprofile \/
          MakePlan \/ Export \/ MarkExport \/ StartKb \/ KbPauses
  BY <1>t, <1>2 DEF MarkChar, Park, SaveState, Reprofile, MakePlan, Export,
    MarkExport, StartKb, Opened, KbPauses
<1>3. CASE KbEnds \/ WritePaused \/ WaitForAck \/
          Import("import_halfway", "move_halfway", "ack_halfway", "ack_halfway") \/
          RemoveAck \/
          SaveState("save_halfway", "halfway_done") \/ WriteDone \/ Ingest \/
          MarkIngest \/ MarkSent
  BY <1>t, <1>3 DEF KbEnds, WritePaused, WaitForAck, Import, Merge, Move, RemoveAck, SaveState,
    WriteDone, EndStage, Ingest, Ingested, MarkIngest, MarkSent
<1>4. CASE SaveHints("save_hints", "cands") \/ PickCandidates \/ PlaceHint \/
          FixWaves \/ NextWave \/ Prepare \/ StartWave \/ WaveEnds \/
          FinishHint
  BY <1>t, <1>4 DEF SaveHints, Saved, PickCandidates, PlaceHint, FixWaves,
    NextWave, Prepare, Exported, StartWave, Opened, WaveEnds, FinishHint,
    NewSlots
<1>5. CASE SaveHints("save_wave", "wave_mark") \/ MarkWave \/ EndRound \/
          Fixpoint \/ Complete \/ Crash \/ DropPartialRounds \/ Deliver \/
          UNCHANGED vars
  BY <1>t, <1>5 DEF SaveHints, Saved, MarkWave, EndRound, NewRound, NoFiles,
    Fixpoint, Complete, RoundsLeft, Crash, NewState, DropPartialRounds, Kept,
    Deliver
<1> QED
  BY <1>1, <1>2, <1>3, <1>4, <1>5
  DEF Next, Process, Round, Run, Decide

\* A run parks after its characterization is marked.
LEMMA CharInvStep ==
  ASSUME FlowInv, [Next]_vars
  PROVE  CharInv'
<1>t. RoundTypeOK /\ Counts /\ CharInv
  BY DEF FlowInv
<1> USE DEF At, Goto, Alive, Done, Mark, vars, memory, files, syncs, packages,
    bounds
<1>1. CASE EndRound
  <2>1. stM.n \in Nat /\ stM'.n = stM.n + 1 /\ stD' = stM'
    BY <1>t, <1>1 DEF RoundTypeOK, States, EndRound
  <2>2. pc' \in {"fix", "loop"}
    BY <1>1 DEF EndRound
  <2> QED
    BY <2>1, <2>2 DEF CharInv
<1> USE DEF CharInv, RoundTypeOK, Counts, BeforeRound, RoundRecords, States,
    NewState
<1>2. CASE Start
  BY <1>t, <1>2 DEF Start, Finished
<1>3. CASE Import("import_barrier", "move_barrier", "save_barrier", "save_barrier")
  BY <1>t, <1>3 DEF Import, Merge, Move, RemoveAck
<1>4. CASE SaveState("save_barrier", "resumed")
  BY <1>t, <1>4 DEF SaveState
<1>5. CASE MarkResumed
  BY <1>t, <1>5 DEF MarkResumed
<1>6. CASE BeginRound
  BY <1>t, <1>6 DEF BeginRound, RoundsLeft, NewRound
<1>7. CASE Import("import_round", "move_round", "save_round", "profile")
  BY <1>t, <1>7 DEF Import, Merge, Move, RemoveAck
<1>8. CASE SaveState("save_round", "profile")
  BY <1>t, <1>8 DEF SaveState
<1>9. CASE Profile
  BY <1>t, <1>9 DEF Profile
<1>10. CASE Characterize
  BY <1>t, <1>10 DEF Characterize
<1>11. CASE MarkChar
  BY <1>t, <1>11 DEF MarkChar
<1>12. CASE Park
  BY <1>t, <1>12 DEF Park
<1>13. CASE SaveState("park_save", "down")
  BY <1>t, <1>13 DEF SaveState
<1>14. CASE Reprofile
  BY <1>t, <1>14 DEF Reprofile
<1>15. CASE MakePlan
  BY <1>t, <1>15 DEF MakePlan
<1>16. CASE Export
  BY <1>t, <1>16 DEF Export
<1>17. CASE MarkExport
  BY <1>t, <1>17 DEF MarkExport
<1>18. CASE StartKb
  BY <1>t, <1>18 DEF StartKb, Opened
<1>19. CASE KbPauses
  BY <1>t, <1>19 DEF KbPauses
<1>20. CASE KbEnds
  BY <1>t, <1>20 DEF KbEnds
<1>21. CASE WritePaused
  BY <1>t, <1>21 DEF WritePaused
<1>22. CASE WaitForAck
  BY <1>t, <1>22 DEF WaitForAck
<1>23. CASE Import("import_halfway", "move_halfway", "ack_halfway", "ack_halfway") \/
          RemoveAck
  BY <1>t, <1>23 DEF Import, Merge, Move, RemoveAck
<1>24. CASE SaveState("save_halfway", "halfway_done")
  BY <1>t, <1>24 DEF SaveState
<1>25. CASE WriteDone
  BY <1>t, <1>25 DEF WriteDone, EndStage
<1>26. CASE Ingest
  BY <1>t, <1>26 DEF Ingest, Ingested
<1>27. CASE MarkIngest
  BY <1>t, <1>27 DEF MarkIngest
<1>28. CASE MarkSent
  BY <1>t, <1>28 DEF MarkSent
<1>29. CASE SaveHints("save_hints", "cands")
  BY <1>t, <1>29 DEF SaveHints, Saved
<1>30. CASE PickCandidates
  BY <1>t, <1>30 DEF PickCandidates
<1>31. CASE PlaceHint
  BY <1>t, <1>31 DEF PlaceHint
<1>32. CASE FixWaves
  BY <1>t, <1>32 DEF FixWaves
<1>33. CASE NextWave
  BY <1>t, <1>33 DEF NextWave
<1>34. CASE Prepare
  BY <1>t, <1>34 DEF Prepare, Exported
<1>35. CASE StartWave
  BY <1>t, <1>35 DEF StartWave, Opened
<1>36. CASE WaveEnds
  BY <1>t, <1>36 DEF WaveEnds
<1>37. CASE FinishHint
  BY <1>t, <1>37 DEF FinishHint, NewSlots
<1>38. CASE SaveHints("save_wave", "wave_mark")
  BY <1>t, <1>38 DEF SaveHints, Saved
<1>39. CASE MarkWave
  BY <1>t, <1>39 DEF MarkWave
<1>40. CASE Fixpoint
  BY <1>t, <1>40 DEF Fixpoint
<1>41. CASE Complete
  BY <1>t, <1>41 DEF Complete, RoundsLeft
<1>42. CASE Crash
  BY <1>t, <1>42 DEF Crash, NewState
<1>43. CASE DropPartialRounds
  BY <1>t, <1>43 DEF DropPartialRounds, Kept, NewRound
<1>44. CASE Deliver
  BY <1>t, <1>44 DEF Deliver
<1>45. CASE UNCHANGED vars
  BY <1>t, <1>45
<1> QED
  BY <1>1, <1>2, <1>3, <1>4, <1>5, <1>6, <1>7, <1>8, <1>9, <1>10,
    <1>11, <1>12, <1>13, <1>14, <1>15, <1>16, <1>17, <1>18, <1>19, <1>20,
    <1>21, <1>22, <1>23, <1>24, <1>25, <1>26, <1>27, <1>28, <1>29, <1>30,
    <1>31, <1>32, <1>33, <1>34, <1>35, <1>36, <1>37, <1>38, <1>39, <1>40,
    <1>41, <1>42, <1>43, <1>44, <1>45
  DEF Next, Process, Round, Run, Decide

\* An import accounts for every package it has found, before it moves them.
LEMMA PackageInvStep ==
  ASSUME FlowInv, [Next]_vars
  PROVE  PackageInv'
<1>t. RoundTypeOK /\ PackageInv
  BY DEF FlowInv
<1>n. /\ stM.rows \in Nat /\ stD.rows \in Nat /\ delivered \in Nat
      /\ inbox \in SUBSET Nat /\ listed \in SUBSET Nat /\ known \in Nat
  BY <1>t DEF RoundTypeOK, States
<1> USE DEF At, Goto, Alive, Done, Mark, vars, memory, files, syncs, packages,
    bounds
<1>1. ASSUME NEW at, NEW move, NEW next, NEW none, Import(at, move, next, none)
      PROVE  PackageInv'
  <2>1. CASE Move(move, next)
    BY <1>t, <1>n, <2>1 DEF PackageInv, Move
  <2>2. CASE Merge(at, move, none) /\ inbox # {}
    <3>1. PICK m \in {known} \cup {p \in inbox : p > known} :
            /\ known' = m
            /\ refused' = refused \cup {p \in inbox : p > m}
            /\ stM' = [stM EXCEPT !.rows = @ + Counted(m)]
      BY <2>2 DEF Merge
    <3>2. m \in Nat /\ known <= m /\ m <= delivered
      BY <1>t, <1>n, <3>1 DEF PackageInv
    <3>3. stM'.rows = stM.rows + (m - known)
      BY <1>t, <3>1 DEF RoundTypeOK, States, Counted
    <3>4. /\ stD' = stD /\ delivered' = delivered
          /\ inbox' = inbox /\ listed' = inbox
      BY <2>2 DEF Merge
    <3>5. \A p \in listed' : p <= known' \/ p \in refused'
      BY <1>n, <3>1, <3>2, <3>4
    <3>6. \A p \in 1..delivered' : p \in inbox' \/ p <= known' \/ p \in refused'
      BY <1>t, <1>n, <3>1, <3>2, <3>4 DEF PackageInv
    <3>7. /\ stM'.rows <= known' /\ stD'.rows <= known' /\ known' <= delivered'
          /\ inbox' \subseteq 1..delivered'
      BY <1>t, <1>n, <3>1, <3>2, <3>3, <3>4 DEF PackageInv
    <3> QED
      BY <3>5, <3>6, <3>7 DEF PackageInv
  <2>3. CASE Merge(at, move, none) /\ inbox = {}
    BY <1>t, <2>3 DEF PackageInv, Merge
  <2> QED
    BY <1>1, <2>1, <2>2, <2>3 DEF Import
<1>2. CASE Crash
  <2>1. stM'.rows = 0 /\ stD' = stD /\ listed' = {}
    BY <1>2 DEF Crash, NewState
  <2>2. inbox' = inbox /\ delivered' = delivered /\ known' = known /\ refused' = refused
    BY <1>2 DEF Crash
  <2> QED
    BY <1>t, <1>n, <2>1, <2>2 DEF PackageInv
<1>3. CASE Deliver
  <2>1. /\ stM' = stM /\ stD' = stD /\ listed' = listed
        /\ known' = known /\ refused' = refused
        /\ delivered' = delivered + 1 /\ inbox' = inbox \cup {delivered'}
    BY <1>3 DEF Deliver
  <2> QED
    BY <1>t, <1>n, <2>1 DEF PackageInv
<1> USE DEF PackageInv, RoundTypeOK, RoundRecords, States, NewState
<1>4. CASE Start \/ SaveState("save_barrier", "resumed") \/ MarkResumed \/
          BeginRound \/ SaveState("save_round", "profile") \/ Profile
  BY <1>t, <1>4 DEF Start, Finished, SaveState, MarkResumed, BeginRound,
    RoundsLeft, NewRound, Profile
<1>5. CASE Characterize \/ MarkChar \/ Park \/
          SaveState("park_save", "down") \/ Reprofile \/ MakePlan
  BY <1>t, <1>5 DEF Characterize, MarkChar, Park, SaveState, Reprofile,
    MakePlan
<1>6. CASE Export \/ MarkExport \/ StartKb \/ KbPauses \/ KbEnds \/
          WritePaused
  BY <1>t, <1>6 DEF Export, MarkExport, StartKb, Opened, KbPauses, KbEnds,
    WritePaused
<1>7. CASE WaitForAck \/ RemoveAck \/ SaveState("save_halfway", "halfway_done") \/
          WriteDone \/ Ingest \/ MarkIngest \/ MarkSent
  BY <1>t, <1>7 DEF WaitForAck, RemoveAck, SaveState, WriteDone, EndStage, Ingest,
    Ingested, MarkIngest, MarkSent
<1>8. CASE SaveHints("save_hints", "cands") \/ PickCandidates \/ PlaceHint \/
          FixWaves \/ NextWave \/ Prepare
  BY <1>t, <1>8 DEF SaveHints, Saved, PickCandidates, PlaceHint, FixWaves,
    NextWave, Prepare, Exported
<1>9. CASE StartWave \/ WaveEnds \/ FinishHint \/
          SaveHints("save_wave", "wave_mark") \/ MarkWave \/ EndRound
  BY <1>t, <1>9 DEF StartWave, Opened, WaveEnds, FinishHint, NewSlots,
    SaveHints, Saved, MarkWave, EndRound, NewRound, NoFiles
<1>10. CASE Fixpoint \/ Complete \/ DropPartialRounds
  BY <1>t, <1>10 DEF Fixpoint, Complete, RoundsLeft, DropPartialRounds, Kept,
    NewRound
<1>11. CASE UNCHANGED vars
  BY <1>t, <1>11
<1> QED
  BY <1>1, <1>2, <1>3, <1>4, <1>5, <1>6, <1>7, <1>8, <1>9, <1>10,
    <1>11
  DEF Next, Process, Round, Run, Decide

\* A journal is about the export it was opened for.
LEMMA JournalInvStep ==
  ASSUME FlowInv, [Next]_vars
  PROVE  JournalInv'
<1>t. RoundTypeOK /\ JournalInv /\ WaveInv
  BY DEF FlowInv
<1> USE DEF At, Goto, Alive, Done, Mark, vars, memory, files, syncs, packages,
    bounds
<1>1. CASE StartWave
  <2>1. Plan \notin Wave /\ Wave \subseteq Hints /\ Wave' = Wave
    <3>1. Wave \subseteq Hints
      BY <1>t, <1>1, UndecidedWave DEF RoundTypeOK, StartWave, InWave
    <3>2. Wave' = Wave
      BY <1>1 DEF StartWave, Wave, Open
    <3> QED
      BY <3>1, <3>2
  <2>2. \A p \in Hints \cup {Plan} :
           journal'[p] = IF p \in Wave THEN Opened(p) ELSE journal[p]
    BY <1>t, <1>1 DEF RoundTypeOK, Exports, StartWave
  <2>3. journal'[Plan] = journal[Plan]
    BY <2>1, <2>2
  <2> QED
    BY <1>t, <1>1, <2>1, <2>2, <2>3
    DEF JournalInv, JournalMatchesExport, StartWave, Opened, InPlanRun
<1>2. CASE Deliver
  <2>1. Wave' = Wave
    BY <1>2 DEF Wave, Open, Deliver
  <2> QED
    BY <1>t, <1>2, <2>1 DEF JournalInv, JournalMatchesExport, Deliver
<1>3. CASE UNCHANGED vars
  <2>1. Wave' = Wave
    BY <1>3 DEF Wave, Open
  <2> QED
    BY <1>t, <1>3, <2>1 DEF JournalInv, JournalMatchesExport
<1> USE DEF JournalInv, RoundTypeOK, WaveInv, JournalMatchesExport,
    RoundRecords, InPlanRun, NewRound, NoFiles, Exports
<1>4. CASE Start
  BY <1>t, <1>4 DEF Start, Finished
<1>5. CASE Import("import_barrier", "move_barrier", "save_barrier", "save_barrier")
  BY <1>t, <1>5 DEF Import, Merge, Move, RemoveAck
<1>6. CASE SaveState("save_barrier", "resumed")
  BY <1>t, <1>6 DEF SaveState
<1>7. CASE MarkResumed
  BY <1>t, <1>7 DEF MarkResumed
<1>8. CASE BeginRound
  BY <1>t, <1>8 DEF BeginRound, RoundsLeft, NewRound
<1>9. CASE Import("import_round", "move_round", "save_round", "profile")
  BY <1>t, <1>9 DEF Import, Merge, Move, RemoveAck
<1>10. CASE SaveState("save_round", "profile")
  BY <1>t, <1>10 DEF SaveState
<1>11. CASE Profile
  BY <1>t, <1>11 DEF Profile
<1>12. CASE Characterize
  BY <1>t, <1>12 DEF Characterize
<1>13. CASE MarkChar
  BY <1>t, <1>13 DEF MarkChar
<1>14. CASE Park
  BY <1>t, <1>14 DEF Park
<1>15. CASE SaveState("park_save", "down")
  BY <1>t, <1>15 DEF SaveState
<1>16. CASE Reprofile
  BY <1>t, <1>16 DEF Reprofile
<1>17. CASE MakePlan
  BY <1>t, <1>17 DEF MakePlan
<1>18. CASE Export
  BY <1>t, <1>18 DEF Export
<1>19. CASE MarkExport
  BY <1>t, <1>19 DEF MarkExport
<1>20. CASE StartKb
  BY <1>t, <1>20 DEF StartKb, Opened
<1>21. CASE KbPauses
  BY <1>t, <1>21 DEF KbPauses
<1>22. CASE KbEnds
  BY <1>t, <1>22 DEF KbEnds
<1>23. CASE WritePaused
  BY <1>t, <1>23 DEF WritePaused
<1>24. CASE WaitForAck
  BY <1>t, <1>24 DEF WaitForAck
<1>25. CASE Import("import_halfway", "move_halfway", "ack_halfway", "ack_halfway") \/
          RemoveAck
  BY <1>t, <1>25 DEF Import, Merge, Move, RemoveAck
<1>26. CASE SaveState("save_halfway", "halfway_done")
  BY <1>t, <1>26 DEF SaveState
<1>27. CASE WriteDone
  BY <1>t, <1>27 DEF WriteDone, EndStage
<1>28. CASE Ingest
  BY <1>t, <1>28 DEF Ingest, Ingested
<1>29. CASE MarkIngest
  BY <1>t, <1>29 DEF MarkIngest
<1>30. CASE MarkSent
  BY <1>t, <1>30 DEF MarkSent
<1>31. CASE SaveHints("save_hints", "cands")
  BY <1>t, <1>31 DEF SaveHints, Saved
<1>32. CASE PickCandidates
  BY <1>t, <1>32 DEF PickCandidates
<1>33. CASE PlaceHint
  BY <1>t, <1>33 DEF PlaceHint
<1>34. CASE FixWaves
  BY <1>t, <1>34 DEF FixWaves
<1>35. CASE NextWave
  BY <1>t, <1>35 DEF NextWave
<1>36. CASE Prepare
  BY <1>t, <1>36 DEF Prepare, Exported
<1>37. CASE WaveEnds
  BY <1>t, <1>37 DEF WaveEnds
<1>38. CASE FinishHint
  BY <1>t, <1>38 DEF FinishHint, NewSlots
<1>39. CASE SaveHints("save_wave", "wave_mark")
  BY <1>t, <1>39 DEF SaveHints, Saved
<1>40. CASE MarkWave
  BY <1>t, <1>40 DEF MarkWave
<1>41. CASE EndRound
  BY <1>t, <1>41 DEF EndRound, NewRound, NoFiles
<1>42. CASE Fixpoint
  BY <1>t, <1>42 DEF Fixpoint
<1>43. CASE Complete
  BY <1>t, <1>43 DEF Complete, RoundsLeft
<1>44. CASE Crash
  BY <1>t, <1>44 DEF Crash, NewState
<1>45. CASE DropPartialRounds
  BY <1>t, <1>45 DEF DropPartialRounds, Kept, NewRound
<1> QED
  BY <1>1, <1>2, <1>3, <1>4, <1>5, <1>6, <1>7, <1>8, <1>9, <1>10,
    <1>11, <1>12, <1>13, <1>14, <1>15, <1>16, <1>17, <1>18, <1>19, <1>20,
    <1>21, <1>22, <1>23, <1>24, <1>25, <1>26, <1>27, <1>28, <1>29, <1>30,
    <1>31, <1>32, <1>33, <1>34, <1>35, <1>36, <1>37, <1>38, <1>39, <1>40,
    <1>41, <1>42, <1>43, <1>44, <1>45
  DEF Next, Process, Round, Run, Decide

\* A majority of accepting votes has its slots in the cache.
LEMMA CachedInvStep ==
  ASSUME FlowInv, [Next]_vars
  PROVE  CachedInv'
<1>t. RoundTypeOK /\ CachedInv /\ WaveInv
  BY DEF FlowInv
<1> USE DEF At, Goto, Alive, Done, Mark, vars, memory, files, syncs, packages,
    bounds
<1>1. CASE FinishHint
  <2>1. PICK h \in Hints, v \in Votes : GetsVote(h, v)
    BY <1>t, <1>1, FinishedNext
  <2> DEFINE x  == [round |-> stM.n, vote |-> v]
             ev == Append(docM[h], x)
  <2>2. docM[h] \in Evidence /\ ev \in Evidence /\ x \in [round : 0..Rounds, vote : Votes]
    BY <1>t, <2>1, VotedEvidence DEF RoundTypeOK
  <2>3. Majority(ev) => h \in cache'
    <3>1. CASE v = "lost"
      <4>1. Count(ev, "accepted") = Count(docM[h], "accepted")
            /\ Count(ev, "rejected") = Count(docM[h], "rejected")
        BY <2>2, <3>1, CountAppend
      <4> QED
        BY <1>t, <1>1, <2>1, <4>1 DEF Majority, CachedInv, FinishHint, GetsVote
    <3>2. CASE v # "lost"
      <4>1. Last(ev) = x /\ ev # <<>>
        BY <2>2 DEF Evidence, Last
      <4> HIDE DEF ev
      <4>2. Majority(ev) => Status(ev) = "accepted"
        BY <2>2, <3>2, <4>1, StatusIsMajority
      <4> QED
        BY <2>1, <3>2, <4>2 DEF GetsVote, NewSlots, ev
    <3> QED
      BY <3>1, <3>2
  <2>4. \A g \in Hints \ {h} : docM'[g] = docM[g]
    BY <1>t, <2>1 DEF RoundTypeOK, GetsVote
  <2>5. docM'[h] = ev
    BY <1>t, <2>1 DEF RoundTypeOK, GetsVote
  <2>6. cache \subseteq cache'
    BY <2>1 DEF GetsVote
  <2> HIDE DEF ev
  <2>7. docD' = docD /\ Alive
    BY <1>1 DEF FinishHint
  <2> QED
    BY <1>t, <2>3, <2>4, <2>5, <2>6, <2>7 DEF CachedInv
<1> USE DEF CachedInv, RoundTypeOK, WaveInv, RoundRecords
<1>2. CASE Start \/ Import("import_barrier", "move_barrier", "save_barrier", "save_barrier") \/
          SaveState("save_barrier", "resumed") \/ MarkResumed \/ BeginRound
  BY <1>t, <1>2 DEF Start, Finished, Import, Merge, Move, RemoveAck, SaveState, MarkResumed,
    BeginRound, RoundsLeft, NewRound
<1>3. CASE Import("import_round", "move_round", "save_round", "profile") \/
          SaveState("save_round", "profile") \/ Profile \/ Characterize \/
          MarkChar
  BY <1>t, <1>3 DEF Import, Merge, Move, RemoveAck, SaveState, Profile, Characterize, MarkChar
<1>4. CASE Park \/ SaveState("park_save", "down") \/ Reprofile \/ MakePlan \/
          Export
  BY <1>t, <1>4 DEF Park, SaveState, Reprofile, MakePlan, Export
<1>5. CASE MarkExport \/ StartKb \/ KbPauses \/ KbEnds \/ WritePaused
  BY <1>t, <1>5 DEF MarkExport, StartKb, Opened, KbPauses, KbEnds,
    WritePaused
<1>6. CASE WaitForAck \/ Import("import_halfway", "move_halfway", "ack_halfway", "ack_halfway") \/
          RemoveAck \/
          SaveState("save_halfway", "halfway_done") \/ WriteDone \/ Ingest
  BY <1>t, <1>6 DEF WaitForAck, Import, Merge, Move, RemoveAck, SaveState, WriteDone, EndStage,
    Ingest, Ingested
<1>7. CASE MarkIngest \/ MarkSent \/ SaveHints("save_hints", "cands") \/
          PickCandidates \/ PlaceHint
  BY <1>t, <1>7 DEF MarkIngest, MarkSent, SaveHints, Saved, PickCandidates,
    PlaceHint
<1>8. CASE FixWaves \/ NextWave \/ Prepare \/ StartWave \/ WaveEnds
  BY <1>t, <1>8 DEF FixWaves, NextWave, Prepare, Exported, StartWave, Opened,
    WaveEnds
<1>9. CASE SaveHints("save_wave", "wave_mark") \/ MarkWave \/ EndRound \/
          Fixpoint \/ Complete
  BY <1>t, <1>9 DEF SaveHints, Saved, MarkWave, EndRound, NewRound, NoFiles,
    Fixpoint, Complete, RoundsLeft
<1>10. CASE Crash \/ DropPartialRounds \/ Deliver \/ UNCHANGED vars
  BY <1>t, <1>10 DEF Crash, NewState, DropPartialRounds, Kept, NewRound,
    Deliver
<1> QED
  BY <1>1, <1>2, <1>3, <1>4, <1>5, <1>6, <1>7, <1>8, <1>9, <1>10
  DEF Next, Process, Round, Run, Decide

\* An item is sent after its winner is ingested.
LEMMA SentInvStep ==
  ASSUME FlowInv, [Next]_vars
  PROVE  SentInv'
<1>t. RoundTypeOK /\ SentInv
  BY DEF FlowInv
<1> USE DEF At, Goto, Alive, Done, Mark, vars, memory, files, syncs, packages,
    bounds
<1> USE DEF SentInv, RoundTypeOK, RoundRecords, States, NewState, NewRound,
    InPlanRun, AfterSent, Deciding, InWave
<1>1. CASE Start
  BY <1>t, <1>1 DEF Start, Finished
<1>2. CASE Import("import_barrier", "move_barrier", "save_barrier", "save_barrier")
  BY <1>t, <1>2 DEF Import, Merge, Move, RemoveAck
<1>3. CASE SaveState("save_barrier", "resumed")
  BY <1>t, <1>3 DEF SaveState
<1>4. CASE MarkResumed
  BY <1>t, <1>4 DEF MarkResumed
<1>5. CASE BeginRound
  BY <1>t, <1>5 DEF BeginRound, RoundsLeft, NewRound
<1>6. CASE Import("import_round", "move_round", "save_round", "profile")
  BY <1>t, <1>6 DEF Import, Merge, Move, RemoveAck
<1>7. CASE SaveState("save_round", "profile")
  BY <1>t, <1>7 DEF SaveState
<1>8. CASE Profile
  BY <1>t, <1>8 DEF Profile
<1>9. CASE Characterize
  BY <1>t, <1>9 DEF Characterize
<1>10. CASE MarkChar
  BY <1>t, <1>10 DEF MarkChar
<1>11. CASE Park
  BY <1>t, <1>11 DEF Park
<1>12. CASE SaveState("park_save", "down")
  BY <1>t, <1>12 DEF SaveState
<1>13. CASE Reprofile
  BY <1>t, <1>13 DEF Reprofile
<1>14. CASE MakePlan
  BY <1>t, <1>14 DEF MakePlan
<1>15. CASE Export
  BY <1>t, <1>15 DEF Export
<1>16. CASE MarkExport
  BY <1>t, <1>16 DEF MarkExport
<1>17. CASE StartKb
  BY <1>t, <1>17 DEF StartKb, Opened
<1>18. CASE KbPauses
  BY <1>t, <1>18 DEF KbPauses
<1>19. CASE KbEnds
  BY <1>t, <1>19 DEF KbEnds
<1>20. CASE WritePaused
  BY <1>t, <1>20 DEF WritePaused
<1>21. CASE WaitForAck
  BY <1>t, <1>21 DEF WaitForAck
<1>22. CASE Import("import_halfway", "move_halfway", "ack_halfway", "ack_halfway") \/
          RemoveAck
  BY <1>t, <1>22 DEF Import, Merge, Move, RemoveAck
<1>23. CASE SaveState("save_halfway", "halfway_done")
  BY <1>t, <1>23 DEF SaveState
<1>24. CASE WriteDone
  BY <1>t, <1>24 DEF WriteDone, EndStage
<1>25. CASE Ingest
  BY <1>t, <1>25 DEF Ingest, Ingested
<1>26. CASE MarkIngest
  BY <1>t, <1>26 DEF MarkIngest
<1>27. CASE MarkSent
  BY <1>t, <1>27 DEF MarkSent
<1>28. CASE SaveHints("save_hints", "cands")
  BY <1>t, <1>28 DEF SaveHints, Saved
<1>29. CASE PickCandidates
  BY <1>t, <1>29 DEF PickCandidates
<1>30. CASE PlaceHint
  BY <1>t, <1>30 DEF PlaceHint
<1>31. CASE FixWaves
  BY <1>t, <1>31 DEF FixWaves
<1>32. CASE NextWave
  BY <1>t, <1>32 DEF NextWave
<1>33. CASE Prepare
  BY <1>t, <1>33 DEF Prepare, Exported
<1>34. CASE StartWave
  BY <1>t, <1>34 DEF StartWave, Opened
<1>35. CASE WaveEnds
  BY <1>t, <1>35 DEF WaveEnds
<1>36. CASE FinishHint
  BY <1>t, <1>36 DEF FinishHint, NewSlots
<1>37. CASE SaveHints("save_wave", "wave_mark")
  BY <1>t, <1>37 DEF SaveHints, Saved
<1>38. CASE MarkWave
  BY <1>t, <1>38 DEF MarkWave
<1>39. CASE EndRound
  BY <1>t, <1>39 DEF EndRound, NewRound, NoFiles
<1>40. CASE Fixpoint
  BY <1>t, <1>40 DEF Fixpoint
<1>41. CASE Complete
  BY <1>t, <1>41 DEF Complete, RoundsLeft
<1>42. CASE Crash
  BY <1>t, <1>42 DEF Crash, NewState
<1>43. CASE DropPartialRounds
  BY <1>t, <1>43 DEF DropPartialRounds, Kept, NewRound
<1>44. CASE Deliver
  BY <1>t, <1>44 DEF Deliver
<1>45. CASE UNCHANGED vars
  BY <1>t, <1>45
<1> QED
  BY <1>1, <1>2, <1>3, <1>4, <1>5, <1>6, <1>7, <1>8, <1>9, <1>10,
    <1>11, <1>12, <1>13, <1>14, <1>15, <1>16, <1>17, <1>18, <1>19, <1>20,
    <1>21, <1>22, <1>23, <1>24, <1>25, <1>26, <1>27, <1>28, <1>29, <1>30,
    <1>31, <1>32, <1>33, <1>34, <1>35, <1>36, <1>37, <1>38, <1>39, <1>40,
    <1>41, <1>42, <1>43, <1>44, <1>45
  DEF Next, Process, Round, Run, Decide

\* An import touches neither hints nor progress.
LEMMA ImportFrame ==
  ASSUME RoundTypeOK, NEW at, NEW move, NEW next, NEW none,
         Import(at, move, next, none)
  PROVE  /\ pc \in {at, move} /\ pc' \in {move, next, none}
         /\ stM'.n = stM.n /\ stD' = stD
         /\ docM' = docM /\ docD' = docD /\ prog' = prog /\ ready' = ready
<1> USE DEF At, Goto, memory, files, RoundTypeOK, States
<1>1. CASE Move(move, next)
  BY <1>1 DEF Move
<1>2. CASE Merge(at, move, none)
  BY <1>2 DEF Merge
<1> QED
  BY <1>1, <1>2 DEF Import

\* A decision is saved before it is marked.
LEMMA DecisionInvStep ==
  ASSUME FlowInv, [Next]_vars
  PROVE  DecisionInv'
<1>t. RoundTypeOK /\ Counts /\ DecisionInv /\ WaveInv
  BY DEF FlowInv
<1> USE DEF At, Goto, Alive, Done, Mark, vars, memory, files, syncs, packages,
    bounds
<1>1. CASE WaveEnds
  <2>1. Wave' = Wave
    BY <1>1 DEF Wave, Open, WaveEnds
  <2>2. ready = Wave
    BY <1>t, <1>1 DEF WaveInv, WaveEnds
  <2> QED
    BY <1>t, <1>1, <2>1, <2>2 DEF DecisionInv, Recorded, WaveEnds
<1>2. CASE FinishHint
  <2>1. PICK h \in Hints, v \in Votes : GetsVote(h, v)
    BY <1>t, <1>2, FinishedNext
  <2>2. Wave' = Wave /\ prog' = prog /\ stM' = stM /\ docD' = docD /\ stD' = stD
    BY <1>2 DEF Wave, Open, FinishHint
  <2>3. prog.decided[h] = None
    BY <1>t, <1>2, <2>1, UndecidedWave DEF RoundTypeOK, WaveInv, GetsVote, FinishHint, InWave
  <2>4. \A g \in Hints \ {h} : docM'[g] = docM[g]
    BY <1>t, <2>1 DEF RoundTypeOK, GetsVote
  <2>5. docM'[h] # <<>> /\ Last(docM'[h]).round = stM.n
    BY <1>t, <2>1, VotedEvidence DEF RoundTypeOK, GetsVote
  <2>6. \A g \in Wave : g \in Hints /\ (g \in ready \/ Recorded(g, docM, stM))
    BY <1>t, <1>2, UndecidedWave DEF RoundTypeOK, DecisionInv, FinishHint, WaveInv, InWave
  <2>7. pc' = "save_wave" => ready = {h}
    BY <1>2, <2>1 DEF FinishHint, GetsVote
  <2>8. pc' \in {"save_wave", "finish"} /\ ready' = ready \ {h} /\ Alive
    BY <1>2, <2>1 DEF FinishHint, GetsVote
  <2>9. \A g \in Wave : g \in ready' \/ Recorded(g, docM, stM)'
    BY <2>2, <2>4, <2>5, <2>6, <2>8 DEF Recorded
  <2> QED
    BY <1>t, <2>2, <2>3, <2>4, <2>7, <2>8, <2>9 DEF DecisionInv, Recorded
<1>3. CASE SaveHints("save_wave", "wave_mark")
  <2>1. Wave' = Wave
    BY <1>3 DEF Wave, Open, SaveHints
  <2> QED
    BY <1>t, <1>3, <2>1 DEF DecisionInv, Recorded, SaveHints, Saved, Counts
<1>4. CASE Deliver
  <2>1. Wave' = Wave
    BY <1>4 DEF Wave, Open, Deliver
  <2> QED
    BY <1>t, <1>4, <2>1 DEF DecisionInv, Recorded, Deliver
<1>5. CASE UNCHANGED vars
  <2>1. Wave' = Wave
    BY <1>5 DEF Wave, Open
  <2> QED
    BY <1>t, <1>5, <2>1 DEF DecisionInv, Recorded
<1> USE DEF DecisionInv, RoundTypeOK, Counts, WaveInv, Recorded, InWave,
    Deciding, NewRound, RoundRecords, Whole, NoneDecided
<1>6. CASE Start
  BY <1>t, <1>6 DEF Start, Finished
<1>7. CASE Import("import_barrier", "move_barrier", "save_barrier", "save_barrier")
  BY <1>t, <1>7, ImportFrame
<1>8. CASE SaveState("save_barrier", "resumed")
  BY <1>t, <1>8 DEF SaveState
<1>9. CASE MarkResumed
  BY <1>t, <1>9 DEF MarkResumed
<1>10. CASE BeginRound
  BY <1>t, <1>10 DEF BeginRound, RoundsLeft, NewRound
<1>11. CASE Import("import_round", "move_round", "save_round", "profile")
  <2>1. /\ pc \in {"import_round", "move_round"}
        /\ pc' \in {"move_round", "save_round", "profile"}
        /\ stM'.n = stM.n /\ stD' = stD
        /\ docM' = docM /\ docD' = docD /\ prog' = prog
    BY <1>t, <1>11, ImportFrame
  <2> QED
    BY <1>t, <2>1
<1>12. CASE SaveState("save_round", "profile")
  BY <1>t, <1>12 DEF SaveState
<1>13. CASE Profile
  BY <1>t, <1>13 DEF Profile
<1>14. CASE Characterize
  BY <1>t, <1>14 DEF Characterize
<1>15. CASE MarkChar
  BY <1>t, <1>15 DEF MarkChar
<1>16. CASE Park
  BY <1>t, <1>16 DEF Park
<1>17. CASE SaveState("park_save", "down")
  BY <1>t, <1>17 DEF SaveState
<1>18. CASE Reprofile
  BY <1>t, <1>18 DEF Reprofile
<1>19. CASE MakePlan
  BY <1>t, <1>19 DEF MakePlan
<1>20. CASE Export
  BY <1>t, <1>20 DEF Export
<1>21. CASE MarkExport
  BY <1>t, <1>21 DEF MarkExport
<1>22. CASE StartKb
  BY <1>t, <1>22 DEF StartKb, Opened
<1>23. CASE KbPauses
  BY <1>t, <1>23 DEF KbPauses
<1>24. CASE KbEnds
  BY <1>t, <1>24 DEF KbEnds
<1>25. CASE WritePaused
  BY <1>t, <1>25 DEF WritePaused
<1>26. CASE WaitForAck
  BY <1>t, <1>26 DEF WaitForAck
<1>27. CASE Import("import_halfway", "move_halfway", "ack_halfway", "ack_halfway")
  BY <1>t, <1>27, ImportFrame
<1>46. CASE RemoveAck
  BY <1>t, <1>46 DEF RemoveAck
<1>28. CASE SaveState("save_halfway", "halfway_done")
  BY <1>t, <1>28 DEF SaveState
<1>29. CASE WriteDone
  BY <1>t, <1>29 DEF WriteDone, EndStage
<1>30. CASE Ingest
  BY <1>t, <1>30 DEF Ingest, Ingested
<1>31. CASE MarkIngest
  BY <1>t, <1>31 DEF MarkIngest
<1>32. CASE MarkSent
  BY <1>t, <1>32 DEF MarkSent
<1>33. CASE SaveHints("save_hints", "cands")
  BY <1>t, <1>33 DEF SaveHints, Saved
<1>34. CASE PickCandidates
  BY <1>t, <1>34 DEF PickCandidates
<1>35. CASE PlaceHint
  BY <1>t, <1>35 DEF PlaceHint
<1>36. CASE FixWaves
  BY <1>t, <1>36 DEF FixWaves
<1>37. CASE NextWave
  BY <1>t, <1>37 DEF NextWave
<1>38. CASE Prepare
  BY <1>t, <1>38 DEF Prepare, Exported
<1>39. CASE StartWave
  BY <1>t, <1>39 DEF StartWave, Opened
<1>40. CASE MarkWave
  BY <1>t, <1>40 DEF MarkWave
<1>41. CASE EndRound
  BY <1>t, <1>41 DEF EndRound, NewRound, NoFiles
<1>42. CASE Fixpoint
  BY <1>t, <1>42 DEF Fixpoint
<1>43. CASE Complete
  BY <1>t, <1>43 DEF Complete, RoundsLeft
<1>44. CASE Crash
  BY <1>t, <1>44 DEF Crash, NewState
<1>45. CASE DropPartialRounds
  BY <1>t, <1>45 DEF DropPartialRounds, Kept, NewRound
<1> QED
  BY <1>1, <1>2, <1>3, <1>4, <1>5, <1>6, <1>7, <1>8, <1>9, <1>10,
    <1>11, <1>12, <1>13, <1>14, <1>15, <1>16, <1>17, <1>18, <1>19, <1>20,
    <1>21, <1>22, <1>23, <1>24, <1>25, <1>26, <1>27, <1>28, <1>29, <1>30,
    <1>31, <1>32, <1>33, <1>34, <1>35, <1>36, <1>37, <1>38, <1>39, <1>40,
    <1>41, <1>42, <1>43, <1>44, <1>45, <1>46
  DEF Next, Process, Round, Run, Decide

\* Waves keep the rank order and are decided as a whole.
LEMMA WaveInvStep ==
  ASSUME FlowInv, [Next]_vars
  PROVE  WaveInv'
<1>t. RoundTypeOK /\ DecisionInv /\ WaveInv
  BY DEF FlowInv
<1> USE DEF At, Goto, Alive, Done, Mark, vars, memory, files, syncs, packages,
    bounds
<1>1. CASE PickCandidates
  <2>1. CASE Done("cands")
    <3>1. prog' = prog /\ waves' = waves /\ ready' = ready
      BY <1>1, <2>1 DEF PickCandidates
    <3>2. pc = "cands" /\ pc' = IF Done("decide") THEN "wave" ELSE "schedule"
      BY <1>1 DEF PickCandidates
    <3>3. CASE Done("decide")
      BY <1>t, <3>1, <3>2, <3>3
      DEF WaveInv, Layout, Deciding, InWave, Whole, NoneDecided
    <3>4. CASE ~Done("decide")
      <4>1. waves = <<>> /\ ready = {} /\ pc' = "schedule"
        BY <1>t, <3>2, <3>4 DEF WaveInv, InWave
      <4> QED
        BY <1>t, <2>1, <3>1, <3>2, <3>4, <4>1, NonePlaced
        DEF WaveInv, Layout, Deciding, InWave, Whole, NoneDecided
    <3> QED
      BY <3>3, <3>4
  <2>2. CASE ~Done("cands")
    <3>1. ~Done("decide")
      BY <1>t, <2>2 DEF WaveInv
    <3>2. /\ prog'.waves = prog.waves /\ prog'.decided = prog.decided
          /\ prog'.phases = prog.phases \cup {"cands"}
      BY <1>t, <1>1, <2>2 DEF PickCandidates, RoundTypeOK, RoundRecords
    <3>3. waves' = waves /\ ready' = ready /\ waves = <<>> /\ ready = {} /\ pc' = "schedule"
      BY <1>t, <1>1, <3>1 DEF PickCandidates, WaveInv, InWave
    <3> QED
      BY <1>t, <3>1, <3>2, <3>3, NonePlaced
      DEF WaveInv, Layout, Deciding, InWave, Whole, NoneDecided
  <2> QED
    BY <2>1, <2>2
<1>2. CASE PlaceHint
  <2>1. PICK h \in prog.cands \ Placed(waves) :
            /\ \A g \in prog.cands \ Placed(waves) : Rank[h] <= Rank[g]
            /\ h \in Hints /\ Placed(waves') = Placed(waves) \cup {h}
    BY <1>t, <1>2, PlacedNext
  <2>2. Layout(waves')
    BY <1>t, <1>2, PlacedNext
  <2>3. UNCHANGED <<pc, prog, ready>> /\ pc = "schedule"
    BY <1>2 DEF PlaceHint
  <2>4. \A g \in Placed(waves)', f \in prog.cands \ Placed(waves)' : Rank[g] < Rank[f]
    <3>1. Placed(waves)' = Placed(waves) \cup {h}
      BY <2>1 DEF Placed
    <3>2. \A f \in prog.cands \ Placed(waves) : f # h => Rank[h] < Rank[f]
      BY <1>t, <2>1, OneRank DEF RoundTypeOK, RoundRecords
    <3> QED
      BY <1>t, <1>2, <3>1, <3>2 DEF WaveInv, PlaceHint
  <2>5. Placed(waves)' \subseteq prog.cands
    BY <1>t, <1>2, <2>1, <2>2 DEF WaveInv, PlaceHint, Placed
  <2> QED
    BY <1>t, <2>2, <2>3, <2>4, <2>5
    DEF WaveInv, Layout, NoneDecided, Whole, Deciding, InWave, Open
<1>3. CASE FixWaves
  <2>1. /\ prog'.waves = waves /\ prog'.decided = prog.decided /\ prog'.cands = prog.cands
        /\ prog'.phases = prog.phases \cup {"decide"}
    BY <1>t, <1>3 DEF FixWaves, RoundTypeOK, RoundRecords
  <2>2. ready' = ready /\ waves' = <<>> /\ pc' = "wave" /\ pc = "schedule"
        /\ prog.cands \subseteq Placed(waves)
    BY <1>3 DEF FixWaves
  <2>3. NoneDecided /\ ready = {} /\ Done("cands")
    BY <1>t, <2>2 DEF WaveInv, InWave
  <2>4. \A w \in DOMAIN waves : waves[w] \subseteq Hints
    BY <1>t DEF RoundTypeOK
  <2> QED
    BY <1>t, <2>1, <2>2, <2>3, <2>4
    DEF WaveInv, Layout, Placed, Deciding, InWave, Whole, NoneDecided
<1>4. CASE NextWave
  <2>1. CASE \E w \in DOMAIN prog.waves : Open(w)
    <3>1. /\ UNCHANGED <<waves, prog, ready>> /\ pc = "wave" /\ pc' = "prepare"
      BY <1>4, <2>1 DEF NextWave
    <3>2. Wave' = Wave /\ \A w : Open(w)' = Open(w)
      BY <3>1 DEF Wave, Open
    <3>3. PICK w \in DOMAIN prog.waves : Wave = prog.waves[w] /\ Open(w)
      BY <1>t, <2>1, CurrentWave DEF RoundTypeOK, RoundRecords
    <3>4. Wave # {}
      BY <3>3 DEF Open
    <3> QED
      BY <1>t, <2>1, <3>1, <3>2, <3>4
      DEF WaveInv, Layout, NoneDecided, Whole, Deciding, InWave
  <2>2. CASE ~\E w \in DOMAIN prog.waves : Open(w)
    <3>1. /\ UNCHANGED <<waves, prog, ready>> /\ pc = "wave" /\ pc' = "end"
      BY <1>4, <2>2 DEF NextWave
    <3> QED
      BY <1>t, <3>1 DEF WaveInv, Layout, NoneDecided, Whole, Deciding, InWave
  <2> QED
    BY <2>1, <2>2
<1>5. CASE Prepare
  <2>1. PICK h \in Wave \ ready : ready' = ready \cup {h}
    BY <1>t, <1>5, PreparedNext
  <2>2. /\ prog' = prog /\ waves' = waves /\ pc = "prepare"
        /\ pc' = IF Wave \subseteq ready' THEN "wave_kb" ELSE "prepare"
    BY <1>t, <1>5, PreparedNext DEF Prepare
  <2>3. Wave' = Wave /\ (\A w : Open(w)' = Open(w)) /\ Wave \subseteq Hints
    <3>1. Wave \subseteq Hints
      BY <1>t, <2>2, UndecidedWave DEF RoundTypeOK, InWave
    <3> QED
      BY <2>2, <3>1 DEF Wave, Open
  <2> QED
    BY <1>t, <2>1, <2>2, <2>3 DEF WaveInv, Layout, NoneDecided, Whole, Deciding, InWave
<1>6. CASE StartWave
  <2>1. Wave' = Wave /\ \A w : Open(w)' = Open(w)
    BY <1>6 DEF Wave, Open, StartWave
  <2>2. /\ UNCHANGED <<waves, prog, ready, docM, stM>>
        /\ pc = "wave_kb" /\ pc' = "wave_run"
    BY <1>6 DEF StartWave
  <2> QED
    BY <1>t, <1>6, <2>1, <2>2 DEF WaveInv, NoneDecided, Whole, Deciding, InWave, Layout
<1>7. CASE WaveEnds
  <2>1. Wave' = Wave /\ \A w : Open(w)' = Open(w)
    BY <1>7 DEF Wave, Open, WaveEnds
  <2>2. /\ UNCHANGED <<waves, prog, ready, docM, stM>>
        /\ pc = "wave_run" /\ pc' = "finish"
    BY <1>7 DEF WaveEnds
  <2>3. Wave # {}
    BY <1>t, <2>2, UndecidedWave DEF RoundTypeOK, WaveInv, InWave
  <2> QED
    BY <1>t, <1>7, <2>1, <2>2, <2>3 DEF WaveInv, NoneDecided, Whole, Deciding, InWave, Layout
<1>8. CASE FinishHint
  <2>1. PICK h \in Hints, v \in Votes : GetsVote(h, v)
    BY <1>t, <1>8, FinishedNext
  <2>2. Wave' = Wave /\ \A w : Open(w)' = Open(w)
    BY <1>8 DEF Wave, Open, FinishHint
  <2>3. /\ UNCHANGED <<waves, prog>> /\ ready' = ready \ {h} /\ h \in ready
        /\ pc = "finish" /\ pc' = IF ready = {h} THEN "save_wave" ELSE "finish"
    BY <1>8, <2>1 DEF FinishHint, GetsVote
  <2> QED
    BY <1>t, <2>2, <2>3 DEF WaveInv, NoneDecided, Whole, Deciding, InWave, Layout
<1>9. CASE MarkWave
  <2>1. PICK w \in DOMAIN prog.waves : Wave = prog.waves[w] /\ Open(w)
    BY <1>t, <1>9, CurrentWave DEF WaveInv, InWave, MarkWave, RoundTypeOK, RoundRecords
  <2> DEFINE d == [h \in Hints |-> IF h \in Wave THEN Outcome(docM[h])
                                                ELSE prog.decided[h]]
  <2>2. prog' = [prog EXCEPT !.decided = d]
    BY <1>9 DEF MarkWave
  <2> HIDE DEF d
  <2>3. /\ prog'.waves = prog.waves /\ prog'.cands = prog.cands
        /\ prog'.phases = prog.phases /\ prog'.decided = d
    BY <1>t, <2>2 DEF RoundTypeOK, RoundRecords
  <2>4. \A h \in Hints : d[h] = IF h \in Wave THEN Outcome(docM[h]) ELSE prog.decided[h]
    BY DEF d
  <2>5. \A h \in Hints \cap Wave : d[h] # None
    BY <1>t, <1>9, <2>4, OutcomeOfVote
    DEF RoundTypeOK, DecisionInv, Recorded, MarkWave
  <2>6. \A v \in DOMAIN prog.waves : prog.waves[v] \subseteq Hints
    BY <1>t DEF RoundTypeOK, RoundRecords
  <2>7. \A v \in DOMAIN prog.waves : v # w => prog.waves[v] \cap Wave = {}
    BY <1>t, <2>1 DEF WaveInv, Layout
  <2>8. \A v \in DOMAIN prog.waves : Whole(v)'
    <3>1. TAKE v \in DOMAIN prog.waves
    <3>2. CASE v = w
      BY <2>1, <2>3, <2>5, <2>6, <3>2 DEF Whole
    <3>3. CASE v # w
      BY <1>t, <2>3, <2>4, <2>6, <2>7, <3>3 DEF Whole, WaveInv
    <3> QED
      BY <3>2, <3>3
  <2>9. /\ pc' = "wave" /\ ready' = ready /\ ready = {} /\ waves' = waves
        /\ waves = <<>> /\ Done("decide") /\ pc = "wave_mark"
    BY <1>t, <1>9 DEF MarkWave, WaveInv, Deciding, InWave
  <2> QED
    BY <1>t, <2>3, <2>8, <2>9 DEF WaveInv, Layout, Deciding, InWave
<1>10. CASE Deliver
  <2>1. Wave' = Wave /\ \A w : Open(w)' = Open(w)
    BY <1>10 DEF Wave, Open, Deliver
  <2>2. /\ UNCHANGED <<waves, prog, ready, docM, stM>>
        /\ pc' = pc
    BY <1>10 DEF Deliver
  <2> QED
    BY <1>t, <1>10, <2>1, <2>2 DEF WaveInv, NoneDecided, Whole, Deciding, InWave, Layout
<1>11. CASE UNCHANGED vars
  <2>1. Wave' = Wave /\ \A w : Open(w)' = Open(w)
    BY <1>11 DEF Wave, Open, vars
  <2>2. /\ UNCHANGED <<waves, prog, ready, docM, stM>>
        /\ pc' = pc
    BY <1>11 DEF vars
  <2> QED
    BY <1>t, <1>11, <2>1, <2>2 DEF WaveInv, NoneDecided, Whole, Deciding, InWave, Layout
<1> USE DEF WaveInv, RoundTypeOK, DecisionInv, InWave, Deciding, NewRound,
    RoundRecords, Whole, Open, Layout, NoneDecided
<1>12. CASE Start
  BY <1>t, <1>12 DEF Start, Finished
<1>13. CASE Import("import_barrier", "move_barrier", "save_barrier", "save_barrier")
  BY <1>t, <1>13 DEF Import, Merge, Move, RemoveAck
<1>14. CASE SaveState("save_barrier", "resumed")
  BY <1>t, <1>14 DEF SaveState
<1>15. CASE MarkResumed
  BY <1>t, <1>15 DEF MarkResumed
<1>16. CASE BeginRound
  BY <1>t, <1>16 DEF BeginRound, RoundsLeft, NewRound
<1>17. CASE Import("import_round", "move_round", "save_round", "profile")
  BY <1>t, <1>17 DEF Import, Merge, Move, RemoveAck
<1>18. CASE SaveState("save_round", "profile")
  BY <1>t, <1>18 DEF SaveState
<1>19. CASE Profile
  BY <1>t, <1>19 DEF Profile
<1>20. CASE Characterize
  BY <1>t, <1>20 DEF Characterize
<1>21. CASE MarkChar
  BY <1>t, <1>21 DEF MarkChar
<1>22. CASE Park
  BY <1>t, <1>22 DEF Park
<1>23. CASE SaveState("park_save", "down")
  BY <1>t, <1>23 DEF SaveState
<1>24. CASE Reprofile
  BY <1>t, <1>24 DEF Reprofile
<1>25. CASE MakePlan
  BY <1>t, <1>25 DEF MakePlan
<1>26. CASE Export
  BY <1>t, <1>26 DEF Export
<1>27. CASE MarkExport
  BY <1>t, <1>27 DEF MarkExport
<1>28. CASE StartKb
  BY <1>t, <1>28 DEF StartKb, Opened
<1>29. CASE KbPauses
  BY <1>t, <1>29 DEF KbPauses
<1>30. CASE KbEnds
  BY <1>t, <1>30 DEF KbEnds
<1>31. CASE WritePaused
  BY <1>t, <1>31 DEF WritePaused
<1>32. CASE WaitForAck
  BY <1>t, <1>32 DEF WaitForAck
<1>33. CASE Import("import_halfway", "move_halfway", "ack_halfway", "ack_halfway") \/
          RemoveAck
  BY <1>t, <1>33 DEF Import, Merge, Move, RemoveAck
<1>34. CASE SaveState("save_halfway", "halfway_done")
  BY <1>t, <1>34 DEF SaveState
<1>35. CASE WriteDone
  BY <1>t, <1>35 DEF WriteDone, EndStage
<1>36. CASE Ingest
  BY <1>t, <1>36 DEF Ingest, Ingested
<1>37. CASE MarkIngest
  BY <1>t, <1>37 DEF MarkIngest
<1>38. CASE MarkSent
  BY <1>t, <1>38 DEF MarkSent
<1>39. CASE SaveHints("save_hints", "cands")
  BY <1>t, <1>39 DEF SaveHints, Saved
<1>40. CASE SaveHints("save_wave", "wave_mark")
  BY <1>t, <1>40 DEF SaveHints, Saved
<1>41. CASE EndRound
  BY <1>t, <1>41 DEF EndRound, NewRound, NoFiles
<1>42. CASE Fixpoint
  BY <1>t, <1>42 DEF Fixpoint
<1>43. CASE Complete
  BY <1>t, <1>43 DEF Complete, RoundsLeft
<1>44. CASE Crash
  BY <1>t, <1>44 DEF Crash, NewState
<1>45. CASE DropPartialRounds
  BY <1>t, <1>45 DEF DropPartialRounds, Kept, NewRound
<1> QED
  BY <1>1, <1>2, <1>3, <1>4, <1>5, <1>6, <1>7, <1>8, <1>9, <1>10,
    <1>11, <1>12, <1>13, <1>14, <1>15, <1>16, <1>17, <1>18, <1>19, <1>20,
    <1>21, <1>22, <1>23, <1>24, <1>25, <1>26, <1>27, <1>28, <1>29, <1>30,
    <1>31, <1>32, <1>33, <1>34, <1>35, <1>36, <1>37, <1>38, <1>39, <1>40,
    <1>41, <1>42, <1>43, <1>44, <1>45
  DEF Next, Process, Round, Run, Decide

-----------------------------------------------------------------------------
(* The theorems.                                                           *)

\* The invariant holds in an empty work directory.
LEMMA FlowInit ==
  Init => FlowInv
<1> SUFFICES ASSUME Init PROVE FlowInv
  OBVIOUS
<1>1. <<>> \in Evidence /\ <<>> \in Seq(SUBSET Hints)
  BY DEF Evidence
<1>2. NewState \in States
  BY DEF NewState, States
<1>3. RoundTypeOK
  <2>1. /\ docM \in [Hints -> Evidence] /\ docD \in [Hints -> Evidence]
        /\ result \in [Items -> {"won", "slow", "lost", None}]
    BY <1>1 DEF Init
  <2>2. /\ stM \in States /\ stD \in States /\ prog \in RoundRecords
        /\ export \in Exports /\ journal \in Exports
    BY <1>2, NewRoundType, NoFilesType DEF Init
  <2>3. waves \in Seq(SUBSET Hints) /\ ready \in SUBSET Hints
        /\ cache \in SUBSET (Hints \cup Items) /\ mode \in Modes
    BY <1>1 DEF Init
  <2>4. /\ ack \in BOOLEAN /\ torn \in BOOLEAN
        /\ halfway \in {None, "paused", "done"} /\ parked \in {None, "parked", "resumed"}
    BY DEF Init
  <2>5. /\ inbox = {} /\ listed = {} /\ refused = {} /\ known = 0
        /\ delivered = 0 /\ crashes = 0 /\ drops = 0
    BY DEF Init
  <2>6. /\ {known, delivered, crashes, drops} \subseteq Nat
        /\ inbox \in SUBSET Nat /\ listed \in SUBSET Nat /\ refused \in SUBSET Nat
    BY <2>5
  <2> QED
    BY <2>1, <2>2, <2>3, <2>4, <2>6 DEF RoundTypeOK
<1>4. Counts /\ CharInv
  BY DEF Init, Counts, CharInv, Alive
<1>5. PackageInv
  BY DEF Init, PackageInv, NewState
<1>6. JournalInv
  BY DEF Init, JournalInv, JournalMatchesExport, NoFiles, InPlanRun, At, NewRound, Done
<1>7. CachedInv
  BY NoEvidence DEF Init, CachedInv, Alive
<1>8. SentInv
  BY DEF Init, SentInv, Alive, Done, NewRound, NewState, InPlanRun
<1>9. DecisionInv
  BY DEF Init, DecisionInv, Alive, At, NewRound
<1>10. WaveInv
  BY NonePlaced DEF Init, WaveInv, Layout, Alive, At, Done, NewRound, NoneDecided,
    Deciding, InWave
<1> QED
  BY <1>3, <1>4, <1>5, <1>6, <1>7, <1>8, <1>9, <1>10 DEF FlowInv

\* Whatever is interrupted, the files and the process stay consistent.
THEOREM FlowInvariant ==
  Spec => []FlowInv
<1>1. FlowInv /\ [Next]_vars => FlowInv'
  BY TypeStep, CountsStep, CharInvStep, PackageInvStep, JournalInvStep, CachedInvStep,
    SentInvStep, DecisionInvStep, WaveInvStep DEF FlowInv
<1> QED
  BY <1>1, FlowInit, PTL DEF Spec

\* The variables and the files keep their types.
THEOREM RoundTypeCorrect ==
  Spec => []RoundTypeOK
<1>1. FlowInv => RoundTypeOK
  BY DEF FlowInv
<1> QED
  BY <1>1, FlowInvariant, PTL

\* A decision that the progress of the round takes for made is in the hints
\* file, after any crash (decide_hints saves before it marks).
THEOREM DecisionsRecorded ==
  Spec => []DecidedIsRecorded
<1>1. FlowInv => DecidedIsRecorded
  BY DEF FlowInv, DecisionInv, Recorded, DecidedIsRecorded
<1> QED
  BY <1>1, FlowInvariant, PTL

\* An accepted hint of the hints file has its kernels in the cache.
THEOREM AcceptedCached ==
  Spec => []AcceptedIsCached
<1>1. FlowInv => AcceptedIsCached
  BY StatusIsMajority DEF FlowInv, RoundTypeOK, CachedInv, AcceptedIsCached
<1> QED
  BY <1>1, FlowInvariant, PTL

\* No crash loses the winner of an item that is left out as sent.
THEOREM SentIngested ==
  Spec => []SentIsIngested
<1>1. FlowInv => SentIsIngested
  BY DEF FlowInv, SentInv, SentIsIngested
<1> QED
  BY <1>1, FlowInvariant, PTL

\* A run goes on with a journal of the problem that is exported.
THEOREM JournalsMatch ==
  Spec => []JournalMatchesExport
<1>1. FlowInv => JournalMatchesExport
  BY DEF FlowInv, JournalInv
<1> QED
  BY <1>1, FlowInvariant, PTL

\* No crash, and no package that arrives meanwhile, makes an import lose a
\* package or count one twice.
THEOREM PackagesKept ==
  Spec => []NoPackageLost
<1>1. FlowInv => NoPackageLost
  <2>1. SUFFICES ASSUME FlowInv PROVE NoPackageLost
    OBVIOUS
  <2>2. stM.rows \in Nat /\ stD.rows \in Nat /\ known \in Nat
    BY <2>1 DEF FlowInv, RoundTypeOK, States
  <2> QED
    BY <2>1, <2>2 DEF FlowInv, PackageInv, NoPackageLost
<1> QED
  BY <1>1, FlowInvariant, PTL

\* A hint's problems are built after the conflicting hints before it are
\* decided: the waves give what deciding one by one gives.
THEOREM RankOrder ==
  Spec => []DecidedInRankOrder
<1>1. FlowInv => DecidedInRankOrder
  <2>1. SUFFICES ASSUME FlowInv, NEW h \in ready, NEW g \in prog.cands,
                        Conflict(g, h), Rank[g] < Rank[h]
                 PROVE  prog.decided[g] # None
    BY DEF DecidedInRankOrder
  <2>2. WaveInv /\ prog \in RoundRecords /\ pc \in InWave
    BY <2>1 DEF FlowInv, RoundTypeOK, WaveInv
  <2>3. PICK w \in DOMAIN prog.waves :
           /\ Wave = prog.waves[w]
           /\ \A v \in DOMAIN prog.waves : Open(v) => w <= v
    BY <2>2, CurrentWave DEF WaveInv, RoundRecords
  <2>4. Done("decide")
    BY <2>2 DEF WaveInv, Deciding
  <2>5. PICK v \in DOMAIN prog.waves : g \in prog.waves[v]
    BY <2>1, <2>2, <2>4 DEF WaveInv, Placed
  <2>6. h \in prog.waves[w]
    BY <2>1, <2>2, <2>3 DEF WaveInv
  <2>7. v < w /\ v \in Nat /\ w \in Nat
    BY <2>1, <2>2, <2>5, <2>6 DEF WaveInv, Layout, RoundRecords
  <2>8. ~Open(v)
    BY <2>3, <2>5, <2>7
  <2> QED
    BY <2>5, <2>8 DEF Open
<1> QED
  BY <1>1, FlowInvariant, PTL

\* Once a run has parked, its characterization is not run again.
THEOREM OneCharacterization ==
  Spec => CharacterizedOnce
<1>1. FlowInv /\ [Next]_vars =>
        [parked # None => ~(At("char") /\ pc' = "char_mark")]_vars
  <2>1. SUFFICES ASSUME FlowInv, [Next]_vars, parked # None, pc = "char",
                        pc' = "char_mark"
                 PROVE  FALSE
    BY DEF At
  <2>2. stM.n = stD.n /\ stM.n = 0 /\ Done("gs_char")
    BY <2>1 DEF FlowInv, RoundTypeOK, States, Counts, CharInv, Alive
  <2> USE DEF At, Goto
  <2>3. CASE Round
    BY <2>1, <2>2, <2>3 DEF Round, BeginRound, Import, Merge, Move, SaveState, Profile,
      Characterize, MarkChar, Park, Reprofile, MakePlan, Export, MarkExport
  <2>4. CASE Run
    BY <2>1, <2>4 DEF Run, StartKb, KbPauses, KbEnds, WritePaused, WaitForAck, Import,
      Merge, Move, RemoveAck, SaveState, WriteDone, Ingest, MarkIngest, MarkSent, SaveHints
  <2>5. CASE Decide
    BY <2>1, <2>5 DEF Decide, PickCandidates, PlaceHint, FixWaves, NextWave, Prepare,
      StartWave, WaveEnds, FinishHint, SaveHints, MarkWave, EndRound, Fixpoint, Complete
  <2>6. CASE Start \/ Import("import_barrier", "move_barrier", "save_barrier", "save_barrier") \/
              SaveState("save_barrier", "resumed") \/ MarkResumed \/ UNCHANGED vars
    BY <2>1, <2>6 DEF Start, Import, Merge, Move, SaveState, MarkResumed, vars
  <2>7. CASE Crash \/ DropPartialRounds \/ Deliver
    BY <2>1, <2>7 DEF Crash, DropPartialRounds, Deliver
  <2> QED
    BY <2>1, <2>3, <2>4, <2>5, <2>6, <2>7 DEF Next, Process
<1> QED
  BY <1>1, FlowInvariant, PTL DEF Spec, CharacterizedOnce
=============================================================================
