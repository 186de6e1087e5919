----------------------------- MODULE RoundFlow -----------------------------
(***************************************************************************)
(* The rounds of the graph optimiser over one work directory               *)
(* (src/pipeline/kb_graph_opt.py, _run): profile, characterize, plan,      *)
(* export, the KernelBlaster run, ingest, and the decision of the hints in *)
(* waves.  A process may die between any two steps; the next process finds *)
(* what is on disk: the hints file, state.json, the cache, the progress of *)
(* the round (kb_resume.py), the markers of the knowledge exchange         *)
(* (kb_halfway.py, kb_barrier.py), the exported problems and               *)
(* KernelBlaster's journals of them.                                       *)
(*                                                                         *)
(* Data is reduced to what the properties tell apart.  The cache is the    *)
(* set of the items and hints whose winners it holds; a problem is the     *)
(* part of the cache it was seeded from when it was exported; a decision   *)
(* is its round and its vote.  KernelBlaster and the controller that sends *)
(* knowledge packages are external.                                        *)
(***************************************************************************)
EXTENDS Integers, Sequences, FiniteSets, Functions

CONSTANTS
    Hints,
    Rank,         \* a hint's place by estimated gain, ties in the file's order
    Conflicts,    \* the pairs {g, h} of hints whose footprints conflict
    Width,        \* hints decided in one wave (--parallel-hints)
    MaxVariants,  \* candidates of a round (--max-variants)
    Items,        \* what a plan may select
    Rounds,       \* rounds of the work directory (--rounds)
    InfraRetry,   \* re-evaluations of a lost hint (MB_INFRA_RETRY)
    RetryMax,     \* times a lost item is planned again (MB_SENT_RETRY_MAX)
    Modes,        \* the knowledge exchanges considered: see Init
    MaxCrashes, MaxDrops, MaxPackages,   \* bounds of the environment
    None,         \* no file, no result
    TornWrites    \* may a crash leave half of the cache's index.json?

Plan  == "plan"                  \* the problems of the plan, as one

ASSUME FlowAssumption ==
    /\ IsFiniteSet(Hints) /\ Rank \in [Hints -> Nat] /\ IsInjective(Rank)
    /\ Hints \cap Items = {} /\ IsFiniteSet(Items)
    /\ Plan \notin Hints
    /\ None \notin {"accepted", "rejected", "undecided", "infra_unresolved",
                    "proposed", "won", "slow", "lost",
                    "paused", "done", "parked", "resumed"}
    /\ Rounds \in Nat /\ Width \in Nat \ {0} /\ MaxVariants \in Nat
    /\ InfraRetry \in Nat \ {0} /\ RetryMax \in Nat
    /\ Modes \subseteq {"plain", "halfway", "park"}
    /\ MaxCrashes \in Nat /\ MaxDrops \in Nat /\ MaxPackages \in Nat
    /\ TornWrites \in BOOLEAN

VARIABLES
    mode,      \* the command line: is a sync or a park asked for?
    pc,        \* the next step of the process, "down" when there is none
    docM, docD,      \* the evidence of each hint: in memory, on disk
    stM, stD,        \* state.json
    cache,           \* the cache, written through
    torn,            \* index.json was cut off by a crash
    prog,            \* rNN/progress.json
    export,          \* the exported problems
    journal,         \* KernelBlaster's journals of these problems
    result,          \* the results of the plan's items
    waves,           \* the waves, while they are laid out in memory
    ready,           \* the jobs of the wave, in memory
    halfway,         \* stage of halfway.json
    parked,          \* stage of parked.json
    inbox, ack,      \* packages in the refresh inbox; the controller's ack
    delivered,       \* packages the controller has sent so far, by number
    listed,          \* packages an import under way has found, in memory
    known,           \* the newest package in KernelBlaster's database
    refused,         \* history: the packages whose import has failed
    crashes, drops

memory  == <<docM, stM, waves, ready>>
files   == <<docD, stD, cache, torn, prog, export, journal, result>>
packages == <<inbox, listed, known, refused, ack, delivered>>
syncs   == <<halfway, parked, packages>>
bounds  == <<mode, crashes, drops>>
vars    == <<pc, memory, files, syncs, bounds>>

-----------------------------------------------------------------------------
(* The hints: record_decision and what it makes of the evidence.           *)

Votes == {"accepted", "rejected", "lost"}
Last(ev) == ev[Len(ev)]
Count(ev, v) == Cardinality({i \in DOMAIN ev : ev[i].vote = v})

\* Lost decisions do not vote; the majority of the others decides, a tie
\* rejects; one loss more than the retries allowed ends the hint unresolved.
Status(ev) ==
    IF /\ ev # <<>> /\ Last(ev).vote = "lost"
       /\ Count(ev, "lost") > InfraRetry THEN "infra_unresolved"
    ELSE IF Count(ev, "accepted") + Count(ev, "rejected") = 0 THEN "proposed"
    ELSE IF Count(ev, "accepted") > Count(ev, "rejected") THEN "accepted"
    ELSE "rejected"

\* What a wave reports of a hint: an undecided one keeps its status.
Outcome(ev) ==
    IF Last(ev).vote = "lost" /\ Status(ev) # "infra_unresolved"
    THEN "undecided" ELSE Status(ev)

(* Waves: a hint goes to the first wave after every earlier hint it        *)
(* conflicts with, and that has room.                                      *)
Conflict(g, h) == {g, h} \in Conflicts
Before_None(ws, h) == {}
Before(ws, h) == {w \in DOMAIN ws : \E g \in ws[w] : Conflict(g, h)}
Room(ws, h)   == {w \in 1..Len(ws) + 1 :
                    /\ \A v \in Before(ws, h) : v < w
                    /\ w \in DOMAIN ws => Cardinality(ws[w]) < Width}
Put(ws, w, h) == IF w > Len(ws) THEN Append(ws, {h})
                 ELSE [ws EXCEPT ![w] = @ \cup {h}]
Placed(ws)    == UNION {ws[w] : w \in DOMAIN ws}
First(S)      == CHOOSE h \in S : \A g \in S : Rank[h] <= Rank[g]

Reads(p) == IF p = Plan THEN Hints \cup Items
            ELSE {p} \cup {g \in Hints : Conflict(g, p)}
Seed(p)  == cache \cap Reads(p)

-----------------------------------------------------------------------------
NewState == [n |-> 0, sent |-> {}, retry |-> [i \in Items |-> {}],
             fix |-> FALSE, complete |-> FALSE, rows |-> 0]
NewRound == [on |-> FALSE, phases |-> {}, plan |-> {}, todo |-> 0,
             cands |-> {}, waves |-> <<>>,
             decided |-> [h \in Hints |-> None]]
NoFiles  == [p \in Hints \cup {Plan} |-> None]

Init ==
    /\ mode \in Modes
    /\ pc = "down"
    /\ docM = [h \in Hints |-> <<>>] /\ docD = docM
    /\ stM = NewState /\ stD = NewState
    /\ cache = {} /\ torn = FALSE
    /\ prog = NewRound
    /\ export = NoFiles /\ journal = NoFiles
    /\ result = [i \in Items |-> None]
    /\ waves = <<>> /\ ready = {}
    /\ halfway = None /\ parked = None
    /\ inbox = {} /\ ack = FALSE /\ delivered = 0
    /\ listed = {} /\ known = 0 /\ refused = {}
    /\ crashes = 0 /\ drops = 0

Done(phase)   == phase \in prog.phases
At(p)         == pc = p
Goto(p)       == pc' = p
Alive         == pc \notin {"down", "returned", "failed"}
Mark(phase)   == prog' = [prog EXCEPT !.phases = @ \cup {phase}]

-----------------------------------------------------------------------------
(* A process starts: it reads the hints, the cache and the state.          *)

Finished == stD.fix \/ stD.n >= Rounds

Start ==
    /\ At("down")
    /\ docM' = docD /\ stM' = stD /\ waves' = <<>> /\ ready' = {}
    /\ Goto(IF torn THEN "failed"      \* json.loads of half an index raises
            ELSE IF Finished /\ stD.complete THEN "returned"
            ELSE IF parked = "parked" THEN "import_barrier" ELSE "loop")
    /\ UNCHANGED <<files, syncs, bounds>>

\* The packages found are imported from the newest on until one import
\* succeeds, and what was new is counted; a package holds what the earlier
\* ones hold.  An import is one transaction of the knowledge database.
Counted_Package(m) == m
Counted(m) == m - known
Merge(at, move, none) ==
    /\ At(at)
    /\ listed' = inbox
    /\ \/ inbox = {} /\ Goto(none) /\ UNCHANGED <<stM, known, refused>>
       \/ /\ inbox # {} /\ Goto(move)
          /\ \E m \in {known} \cup {p \in inbox : p > known} :
                /\ known' = m
                /\ refused' = refused \cup {p \in inbox : p > m}
                /\ stM' = [stM EXCEPT !.rows = @ + Counted(m)]
    /\ UNCHANGED <<docM, waves, ready, files, halfway, parked, inbox, ack,
                   delivered, bounds>>

\* Every package found is moved away, imported or not; one that cannot be
\* moved is passed over, one that has come since stays.
Move(at, next) ==
    /\ At(at)
    /\ \E gone \in SUBSET listed : inbox' = inbox \ gone
    /\ listed' = {}
    /\ Goto(next)
    /\ UNCHANGED <<memory, files, halfway, parked, known, refused, ack,
                   delivered, bounds>>

\* refresh_at_round, at its three callers; none is where a caller goes on
\* when there is no package.
Import(at, move, next, none) == Merge(at, move, none) \/ Move(move, next)

SaveState(at, next) ==
    /\ At(at)
    /\ stD' = stM
    /\ Goto(next)
    /\ UNCHANGED <<memory, docD, cache, torn, prog, export, journal, result,
                   syncs, bounds>>

MarkResumed ==
    /\ At("resumed")
    /\ parked' = "resumed"
    /\ Goto("loop")
    /\ UNCHANGED <<memory, files, halfway, packages, bounds>>

-----------------------------------------------------------------------------
(* A round up to the KernelBlaster run of its plan.                        *)

RoundsLeft == ~stM.fix /\ stM.n < Rounds

BeginRound ==
    /\ At("loop") /\ RoundsLeft
    /\ stM' = [stM EXCEPT !.complete = FALSE]
    /\ prog' = [prog EXCEPT !.on = TRUE]
    /\ Goto(IF prog.on THEN "profile" ELSE "import_round")
    /\ UNCHANGED <<docM, waves, ready, docD, stD, cache, torn, export, journal,
                   result, syncs, bounds>>

Profile ==
    /\ At("profile")
    /\ Mark("profile")
    /\ Goto(IF mode = "park" /\ stM.n = 0 THEN "char" ELSE "plan")
    /\ UNCHANGED <<memory, docD, stD, cache, torn, export, journal, result,
                   syncs, bounds>>

\* The characterization pass: a short KernelBlaster run whose winners are
\* ingested, then marked; a marked one is not run again.
Characterize ==
    /\ At("char") /\ ~Done("gs_char")
    /\ \E winners \in SUBSET Items : cache' = cache \cup winners
    /\ Goto("char_mark")
    /\ UNCHANGED <<memory, docD, stD, torn, prog, export, journal, result,
                   syncs, bounds>>

MarkChar ==
    /\ At("char_mark")
    /\ Mark("gs_char")
    /\ Goto("char")
    /\ UNCHANGED <<memory, docD, stD, cache, torn, export, journal, result,
                   syncs, bounds>>

\* The flag is on until the run has parked: the controller resumes it
\* without.  The process writes parked.json, saves its state and exits.
Park ==
    /\ At("char") /\ Done("gs_char")
    /\ parked = None /\ ~Done("gs_char_profile")
    /\ parked' = "parked"
    /\ Goto("park_save")
    /\ UNCHANGED <<memory, files, halfway, packages, bounds>>

Reprofile ==
    /\ At("char") /\ Done("gs_char")
    /\ parked # None \/ Done("gs_char_profile")
    /\ Mark("gs_char_profile")
    /\ Goto("plan")
    /\ UNCHANGED <<memory, docD, stD, cache, torn, export, journal, result,
                   syncs, bounds>>

\* The plan leaves out what was sent; a resumed round keeps its plan.
MakePlan ==
    /\ At("plan")
    /\ LET plan == IF Done("plan") THEN prog.plan ELSE Items \ stM.sent IN
        /\ prog' = [prog EXCEPT !.phases = @ \cup {"plan"}, !.plan = plan]
        /\ result' = IF Done("plan") THEN result
                     ELSE [i \in Items |-> IF i \in plan THEN None ELSE result[i]]
        /\ Goto(IF plan = {} THEN "save_hints" ELSE "export")
    /\ UNCHANGED <<memory, docD, stD, cache, torn, export, journal, syncs, bounds>>

Export ==
    /\ At("export")
    /\ IF Done("export") THEN UNCHANGED export /\ Goto("kb")
       ELSE export' = [export EXCEPT ![Plan] = Seed(Plan)] /\ Goto("export_mark")
    /\ UNCHANGED <<memory, docD, stD, cache, torn, prog, journal, result,
                   syncs, bounds>>

MarkExport ==
    /\ At("export_mark")
    /\ Mark("export")
    /\ Goto("kb")
    /\ UNCHANGED <<memory, docD, stD, cache, torn, export, journal, result,
                   syncs, bounds>>

-----------------------------------------------------------------------------
(* The KernelBlaster run, and the exchange of knowledge half-way: the run  *)
(* parks and exits, a package is waited for and imported, and the same run *)
(* is started again.                                                       *)

\* A run opens the journal of its problem, or goes on with the one it finds.
Opened(p) == IF journal[p] = None THEN export[p] ELSE journal[p]

StartKb ==
    /\ At("kb")
    /\ IF mode = "halfway" /\ halfway = "paused"
       THEN UNCHANGED journal /\ Goto("pause")
       ELSE journal' = [journal EXCEPT ![Plan] = Opened(Plan)] /\ Goto("kb_run")
    /\ UNCHANGED <<memory, docD, stD, cache, torn, prog, export, result,
                   syncs, bounds>>

KbPauses ==
    /\ At("kb_run") /\ mode = "halfway" /\ halfway = None
    /\ Goto("pause")
    /\ UNCHANGED <<memory, files, syncs, bounds>>

\* The second half, or a run that is never paused: each problem ends with
\* a winner, slower than its seed, or lost to the infrastructure.
KbEnds ==
    /\ At("kb_run") /\ (mode = "halfway" => halfway = "done")
    /\ \E res \in [prog.plan -> {"won", "slow", "lost"}] :
        result' = [i \in Items |-> IF i \in prog.plan /\ result[i] = None
                                   THEN res[i] ELSE result[i]]
    /\ Goto("ingest")
    /\ UNCHANGED <<memory, docD, stD, cache, torn, prog, export, journal,
                   syncs, bounds>>

WritePaused ==
    /\ At("pause")
    /\ halfway' = "paused"
    /\ Goto("wait")
    /\ UNCHANGED <<memory, files, parked, packages, bounds>>

\* The wait is bounded: without an ack the run goes on without a package.
WaitForAck ==
    /\ At("wait")
    /\ \/ ack /\ Goto("import_halfway")
       \/ ~ack /\ Goto("save_halfway")
    /\ UNCHANGED <<memory, files, syncs, bounds>>

\* The ack goes after the packages it announced, if it can be moved.
RemoveAck ==
    /\ At("ack_halfway")
    /\ ack' \in {ack, FALSE}
    /\ Goto("save_halfway")
    /\ UNCHANGED <<memory, files, halfway, parked, inbox, listed, known, refused,
                   delivered, bounds>>

EndStage_Paused == "paused"
EndStage == "done"
WriteDone ==
    /\ At("halfway_done")
    /\ halfway' = EndStage
    /\ Goto("kb")
    /\ UNCHANGED <<memory, files, parked, packages, bounds>>

-----------------------------------------------------------------------------
(* After the run: winners into the cache, items marked sent.               *)

Ingested_Planned == Done("plan")
Ingested == Done("ingest")
Ingest ==
    /\ At("ingest")
    /\ IF Ingested THEN UNCHANGED cache /\ Goto("sent")
       ELSE /\ cache' = cache \cup {i \in prog.plan : result[i] = "won"}
            /\ Goto("ingest_mark")
    /\ UNCHANGED <<memory, docD, stD, torn, prog, export, journal, result,
                   syncs, bounds>>

MarkIngest ==
    /\ At("ingest_mark")
    /\ Mark("ingest")
    /\ Goto("sent")
    /\ UNCHANGED <<memory, docD, stD, cache, torn, export, journal, result,
                   syncs, bounds>>

\* A lost item stays eligible, RetryMax times; a round counts once.
Held(i) == /\ result[i] = "lost"
           /\ \/ stM.n \in stM.retry[i]
              \/ Cardinality(stM.retry[i]) < RetryMax

MarkSent ==
    /\ At("sent")
    /\ LET held == {i \in prog.plan : Held(i)} IN
        stM' = [stM EXCEPT
                  !.sent  = @ \cup (prog.plan \ held),
                  !.retry = [i \in Items |-> IF i \in held THEN @[i] \cup {stM.n}
                                             ELSE @[i]]]
    /\ Goto("save_hints")
    /\ UNCHANGED <<docM, waves, ready, files, syncs, bounds>>

Saved_Old == docD
Saved == docM
SaveHints(at, next) ==
    /\ At(at)
    /\ docD' = Saved
    /\ Goto(next)
    /\ UNCHANGED <<memory, stD, cache, torn, prog, export, journal, result,
                   syncs, bounds>>

-----------------------------------------------------------------------------
(* The decisions: candidates and waves are fixed once, then wave by wave.  *)

PickCandidates ==
    /\ At("cands")
    /\ LET todo  == {h \in Hints : Status(docM[h]) = "proposed"}
           ahead(h) == {g \in todo : Rank[g] < Rank[h]}
           cands == {h \in todo : Cardinality(ahead(h)) < MaxVariants}
       IN prog' = IF Done("cands") THEN prog
                  ELSE [prog EXCEPT !.phases = @ \cup {"cands"}, !.cands = cands,
                                    !.todo = Cardinality(todo)]
    /\ Goto(IF Done("decide") THEN "wave" ELSE "schedule")
    /\ UNCHANGED <<memory, docD, stD, cache, torn, export, journal, result,
                   syncs, bounds>>

\* The candidates in rank order, each into the first wave it may enter.
PlaceHint ==
    /\ At("schedule") /\ ~(prog.cands \subseteq Placed(waves))
    /\ LET h == First(prog.cands \ Placed(waves)) IN
        \E w \in Room(waves, h) :
            /\ \A v \in Room(waves, h) : w <= v
            /\ waves' = Put(waves, w, h)
    /\ UNCHANGED <<pc, docM, stM, ready, files, syncs, bounds>>

FixWaves ==
    /\ At("schedule") /\ prog.cands \subseteq Placed(waves)
    /\ prog' = [prog EXCEPT !.phases = @ \cup {"decide"}, !.waves = waves]
    /\ waves' = <<>>
    /\ Goto("wave")
    /\ UNCHANGED <<docM, stM, ready, docD, stD, cache, torn, export, journal, result,
                   syncs, bounds>>

Open(w) == \E h \in prog.waves[w] : prog.decided[h] = None
Wave    == prog.waves[CHOOSE w \in DOMAIN prog.waves :
                        Open(w) /\ \A v \in DOMAIN prog.waves : Open(v) => w <= v]
NextWave ==
    /\ At("wave")
    /\ Goto(IF \E w \in DOMAIN prog.waves : Open(w) THEN "prepare" ELSE "end")
    /\ UNCHANGED <<memory, files, syncs, bounds>>

\* The problems a hint exported earlier in this round are kept (job.json).
Exported_Again(h) == Seed(h)
Exported(h) == IF export[h] # None THEN export[h] ELSE Seed(h)
Prepare ==
    /\ At("prepare")
    /\ LET h == First(Wave \ ready) IN
        /\ export' = [export EXCEPT ![h] = Exported(h)]
        /\ ready' = ready \cup {h}
        /\ Goto(IF Wave \subseteq ready \cup {h} THEN "wave_kb" ELSE "prepare")
    /\ UNCHANGED <<docM, stM, waves, docD, stD, cache, torn, prog, journal, result,
                   syncs, bounds>>

StartWave ==
    /\ At("wave_kb")
    /\ journal' = [p \in DOMAIN journal |-> IF p \in Wave THEN Opened(p)
                                            ELSE journal[p]]
    /\ Goto("wave_run")
    /\ UNCHANGED <<memory, docD, stD, cache, torn, prog, export, result,
                   syncs, bounds>>

WaveEnds ==
    /\ At("wave_run")
    /\ Goto("finish")
    /\ UNCHANGED <<memory, files, syncs, bounds>>

\* The evidence in memory, an accepted hint's slots in the cache.
NewSlots_Stale(h, v, ev) == IF v # "lost" /\ Status(docM[h]) = "accepted" THEN {h} ELSE {}
NewSlots(h, v, ev) == IF v # "lost" /\ Status(ev) = "accepted" THEN {h} ELSE {}
FinishHint ==
    /\ At("finish")
    /\ LET h == First(ready) IN
        \E v \in Votes :
            LET ev == Append(docM[h], [round |-> stM.n, vote |-> v]) IN
            /\ docM' = [docM EXCEPT ![h] = ev]
            /\ cache' = cache \cup NewSlots(h, v, ev)
            /\ ready' = ready \ {h}
            /\ Goto(IF ready = {h} THEN "save_wave" ELSE "finish")
    /\ UNCHANGED <<stM, waves, docD, stD, torn, prog, export, journal, result,
                   syncs, bounds>>

MarkWave ==
    /\ At("wave_mark")
    /\ prog' = [prog EXCEPT !.decided =
                  [h \in Hints |-> IF h \in Wave THEN Outcome(docM[h]) ELSE @[h]]]
    /\ Goto("wave")
    /\ UNCHANGED <<memory, docD, stD, cache, torn, export, journal, result,
                   syncs, bounds>>

-----------------------------------------------------------------------------
(* The end of a round, the fixpoint, the end of the run.                   *)

Quiet == /\ \A h \in Hints : prog.decided[h] \notin {"accepted", "undecided"}
         /\ prog.plan = {} /\ prog.todo <= MaxVariants

EndRound ==
    /\ At("end")
    /\ stM' = [stM EXCEPT !.n = @ + 1] /\ stD' = stM'
    /\ Goto(IF Quiet THEN "fix" ELSE "loop")
    /\ prog' = NewRound /\ export' = NoFiles /\ journal' = NoFiles
    /\ halfway' = None /\ ack' = FALSE
    /\ UNCHANGED <<docM, waves, ready, docD, cache, torn, result, parked,
                   inbox, listed, known, refused, delivered, bounds>>

Fixpoint ==
    /\ At("fix")
    /\ stM' = [stM EXCEPT !.fix = TRUE] /\ stD' = stM'
    /\ Goto("loop")
    /\ UNCHANGED <<docM, waves, ready, docD, cache, torn, prog, export, journal,
                   result, syncs, bounds>>

Complete ==
    /\ At("loop") /\ ~RoundsLeft
    /\ stM' = [stM EXCEPT !.complete = TRUE] /\ stD' = stM'
    /\ Goto("returned")
    /\ UNCHANGED <<docM, waves, ready, docD, cache, torn, prog, export, journal,
                   result, syncs, bounds>>

-----------------------------------------------------------------------------
(* The environment: processes die, a worker restarts a run from a pack     *)
(* without the journals (drop_partial_rounds), the controller sends.       *)

Crash ==
    /\ Alive /\ crashes < MaxCrashes
    /\ crashes' = crashes + 1
    /\ torn' \in IF TornWrites /\ pc \in {"char", "ingest", "finish"}
                 THEN {torn, TRUE} ELSE {torn}
    /\ Goto("down")
    /\ docM' = [h \in Hints |-> <<>>] /\ stM' = NewState /\ waves' = <<>> /\ ready' = {}
    /\ listed' = {}
    /\ UNCHANGED <<docD, stD, cache, prog, export, journal, result, halfway, parked,
                   inbox, known, refused, ack, delivered, mode, drops>>

Kept_ProfileOnly == IF parked # None /\ stD.n = 0 /\ Done("gs_char")
                    THEN {"profile"} ELSE {}
Kept == IF parked # None /\ stD.n = 0 /\ Done("gs_char")
        THEN {"profile", "gs_char"} ELSE {}

DropPartialRounds ==
    /\ At("down") /\ prog.on /\ drops < MaxDrops
    /\ drops' = drops + 1
    /\ prog' = [NewRound EXCEPT !.on = Kept # {}, !.phases = prog.phases \cap Kept]
    /\ result' = [i \in Items |-> IF i \in prog.plan THEN None ELSE result[i]]
    /\ export' = NoFiles /\ journal' = NoFiles
    /\ halfway' = None
    /\ UNCHANGED <<pc, memory, docD, stD, cache, torn, parked, packages,
                   mode, crashes>>

Deliver ==
    /\ halfway = "paused" \/ parked = "parked"
    /\ delivered < MaxPackages
    /\ delivered' = delivered + 1 /\ inbox' = inbox \cup {delivered'}
    /\ ack' = (ack \/ halfway = "paused")
    /\ UNCHANGED <<pc, memory, files, halfway, parked, listed, known, refused, bounds>>

-----------------------------------------------------------------------------
Round ==
    \/ BeginRound \/ Import("import_round", "move_round", "save_round", "profile")
    \/ SaveState("save_round", "profile")
    \/ Profile \/ Characterize \/ MarkChar \/ Park \/ SaveState("park_save", "down")
    \/ Reprofile \/ MakePlan \/ Export \/ MarkExport
Run ==
    \/ StartKb \/ KbPauses \/ KbEnds \/ WritePaused \/ WaitForAck
    \/ Import("import_halfway", "move_halfway", "ack_halfway", "ack_halfway")
    \/ RemoveAck
    \/ SaveState("save_halfway", "halfway_done") \/ WriteDone
    \/ Ingest \/ MarkIngest \/ MarkSent \/ SaveHints("save_hints", "cands")
Decide ==
    \/ PickCandidates \/ PlaceHint \/ FixWaves \/ NextWave \/ Prepare \/ StartWave \/ WaveEnds
    \/ FinishHint \/ SaveHints("save_wave", "wave_mark") \/ MarkWave
    \/ EndRound \/ Fixpoint \/ Complete
Process ==
    \/ Start
    \/ Import("import_barrier", "move_barrier", "save_barrier", "save_barrier")
    \/ SaveState("save_barrier", "resumed") \/ MarkResumed
    \/ Round \/ Run \/ Decide

Next == Process \/ Crash \/ DropPartialRounds \/ Deliver

\* The process takes its next step, and the command is run again after a
\* process has died.
Spec == Init /\ [][Next]_vars /\ WF_vars(Process)

-----------------------------------------------------------------------------
(* Properties.                                                             *)

Evidence == Seq([round : 0..Rounds, vote : Votes])
States   == [n : 0..Rounds, sent : SUBSET Items,
             retry : [Items -> SUBSET (0..Rounds)],
             fix : BOOLEAN, complete : BOOLEAN, rows : Nat]

Seeds    == SUBSET (Hints \cup Items)
Exports  == [Hints \cup {Plan} -> Seeds \cup {None}]
Phases   == {"profile", "gs_char", "gs_char_profile", "plan", "export",
             "ingest", "cands", "decide"}
RoundRecords ==
    [on : BOOLEAN, phases : SUBSET Phases, plan : SUBSET Items, todo : Nat,
     cands : SUBSET Hints, waves : Seq(SUBSET Hints),
     decided : [Hints -> {"accepted", "rejected", "undecided",
                          "infra_unresolved", None}]]

\* The variables' types (the files of the work directory are well formed).
RoundTypeOK ==
    /\ mode \in Modes
    /\ docM \in [Hints -> Evidence] /\ docD \in [Hints -> Evidence]
    /\ stM \in States /\ stD \in States
    /\ cache \in SUBSET (Hints \cup Items)
    /\ export \in Exports /\ journal \in Exports
    /\ waves \in Seq(SUBSET Hints)
    /\ result \in [Items -> {"won", "slow", "lost", None}]
    /\ prog \in RoundRecords
    /\ ready \in SUBSET Hints
    /\ halfway \in {None, "paused", "done"} /\ parked \in {None, "parked", "resumed"}
    /\ ack \in BOOLEAN /\ torn \in BOOLEAN
    /\ inbox \in SUBSET Nat /\ listed \in SUBSET Nat /\ refused \in SUBSET Nat
    /\ {known, delivered, crashes, drops} \subseteq Nat

\* Whatever the moment of a crash, a decision that progress.json takes for
\* made is in the hints file, as the last one of its hint, and with the same
\* outcome (decide_hints: save_hints before mark).
DecidedIsRecorded ==
    \A h \in Hints : prog.decided[h] # None =>
        /\ docD[h] # <<>> /\ Last(docD[h]).round = stD.n
        /\ prog.decided[h] = Outcome(docD[h])

\* A hint that the hints file calls accepted has its slots in the cache, so
\* that the next profile applies kernels that exist (finish_hint ingests
\* before the file is saved).
AcceptedIsCached == \A h \in Hints : Status(docD[h]) = "accepted" => h \in cache

\* An item that state.json leaves out of later plans because it was sent has
\* its winner in the cache, if it won: no crash loses a winner for good.
SentIsIngested == \A i \in stD.sent : result[i] = "won" => i \in cache

\* A KernelBlaster run that goes on with a journal goes on with the problem
\* the journal is about, although the cache may have changed since
\* (progress.json's export, job.json's prepared).
JournalMatchesExport ==
    /\ At("kb_run") => journal[Plan] = export[Plan]
    /\ At("wave_run") => \A h \in Wave : journal[h] = export[h]

\* When a hint's problems are built, every conflicting hint of higher rank
\* has been decided: a round gives what deciding them one by one in rank
\* order gives (schedule).
DecidedInRankOrder ==
    \A h \in ready, g \in prog.cands :
        Conflict(g, h) /\ Rank[g] < Rank[h] => prog.decided[g] # None

\* The characterization of a run that has parked is never run again, not
\* even when the run is restarted from a pack (drop_partial_rounds).
CharacterizedOnce ==
    [][parked # None => ~(At("char") /\ pc' = "char_mark")]_vars

\* Wherever a crash falls in an import, and whatever arrives meanwhile: a
\* package has left the inbox only after it was imported or its import
\* failed, and state.json never counts more than the database has been given
\* (refresh_at_round: list, import, move, record; then the save).
NoPackageLost ==
    /\ \A p \in 1..delivered : p \in inbox \/ p <= known \/ p \in refused
    /\ stM.rows <= known /\ stD.rows <= known

\* With finitely many crashes, the run returns its summary.
FlowReturns == <>(pc = "returned")

\* The comment at kb_resume.py:211: a decision is never recorded twice.
NeverRecordedTwice ==
    \A h \in Hints : \A i, j \in DOMAIN docD[h] :
        docD[h][i].round = docD[h][j].round => i = j
=============================================================================
