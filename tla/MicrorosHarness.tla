--------------------------- MODULE MicrorosHarness ---------------------------
(***************************************************************************)
(* The micro-ROS harness (src/harness_microros/src/main.c): threads pinned *)
(* to harts open their sessions with the broker one after the other, then  *)
(* run their networks when a timer fires, until one of them ends the       *)
(* window; every dispatch leaves an entry in a table all threads share,    *)
(* which main() dumps after it has joined them.                            *)
(***************************************************************************)
EXTENDS Integers, Sequences, FiniteSets

CONSTANTS
    Builds,        \* the builds considered
    MaxIters,      \* NET_A_MAX_ITERS
    Dispatches,    \* of one run of a network: its OP_COUNT
    TraceMax,      \* ROS_TRACE_MAX
    MaxTicks,      \* bound: firings of a timer
    MayFail,       \* an initialisation can fail
    None

Nets == {"a", "b", "c"}

\* "node": an executor per network.  "single": one for a and b.  "bc": a, and
\* one for b and c with two timers; "fused": with one timer, "fusedNoC": which
\* leaves c out.  "norclc": b and c without an executor.  "direct": no
\* micro-ROS at all.
Modes == {"node", "single", "bc", "fused", "fusedNoC", "norclc", "direct"}

ASSUME HarnessAssumption ==
    /\ Builds \subseteq [mode : Modes, nets : {{"a", "b"}, Nets},
                         oneShot : SUBSET Nets]
    /\ \A x \in Builds :
          x.mode \in {"bc", "fused", "fusedNoC", "norclc"} => x.nets = Nets
    /\ {MaxIters, TraceMax, MaxTicks} \subseteq Nat \ {0}
    /\ Dispatches \in [Nets -> Nat \ {0}]
    /\ MayFail \in BOOLEAN /\ None \notin Nat

VARIABLES
    build,         \* the configuration of the build
    ready,         \* the nets whose ready flag is set
    done,          \* net_b_done
    pc,            \* of a thread
    failed,        \* the threads whose initialisation failed
    due,           \* the timers that have expired
    todo,          \* the networks a thread still has to run in this turn
    disp, idx,     \* the dispatch it is at, the entry it has taken
    iter,          \* runs of a network
    count, trace,  \* ros_trace_count, ros_trace
    main           \* "join", "dump"

flags == <<ready, done, failed>>
work  == <<todo, disp, idx, iter, count, trace>>
vars  == <<build, flags, pc, due, work, main>>

Threads == CASE build.mode \in {"node", "direct"}       -> build.nets
             [] build.mode = "single"                   -> {"se"}
             [] build.mode \in {"bc", "fused", "fusedNoC", "norclc"} ->
                  {"a", "bc"}
Rclc(t) == ~ (build.mode = "direct" \/ (build.mode = "norclc" /\ t = "bc"))

Init ==
    /\ build \in Builds
    /\ ready = {} /\ done = FALSE /\ failed = {}
    /\ pc = [t \in Threads |-> "start"]
    /\ due = {} /\ todo = [t \in Threads |-> <<>>]
    /\ disp = [t \in Threads |-> 0] /\ idx = [t \in Threads |-> None]
    /\ iter = [n \in Nets |-> 0]
    /\ count = 0 /\ trace = [i \in 0..TraceMax - 1 |-> None]
    /\ main = "join"

-----------------------------------------------------------------------------
(* The sessions: b goes first, then a, then c.                             *)

AwaitedBy_OnlyA(t) == IF t = "a" /\ Rclc(t) THEN {"b"} ELSE {}
AwaitedBy(t) == CASE ~ Rclc(t) \/ t \notin Nets -> {}
                  [] t = "a"                    -> {"b"}
                  [] t = "b"                    -> {}
                  [] t = "c"                    -> {"a"}

\* The flags a thread sets when its session is open.
Announced_OnlyNodes(t) == {t} \cap {"a", "b"}
Announced(t) == IF t = "bc" THEN {"b"} ELSE {t} \cap {"a", "b"}

Start(t) ==
    /\ pc[t] = "start"
    /\ AwaitedBy(t) \subseteq ready
    /\ \/ Rclc(t) /\ pc' = [pc EXCEPT ![t] = "init"] /\ UNCHANGED ready
       \/ build.mode = "direct" /\ pc' = [pc EXCEPT ![t] = "loop"] /\ UNCHANGED ready
       \/ /\ t = "bc" /\ ~ Rclc(t)              \* then it waits for net_a
          /\ pc' = [pc EXCEPT ![t] = "yield"]
          /\ ready' = ready \cup Announced(t)
    /\ UNCHANGED <<build, done, failed, due, work, main>>

SessionOpen(t) ==
    /\ pc[t] = "init"
    /\ ready' = ready \cup Announced(t)
    /\ pc' = [pc EXCEPT ![t] = "loop"]
    /\ UNCHANGED <<build, done, failed, due, work, main>>

\* Each failing call returns from the thread; no flag is set.
SessionFails(t) ==
    /\ MayFail /\ pc[t] = "init"
    /\ pc' = [pc EXCEPT ![t] = "exit"]
    /\ failed' = failed \cup {t}
    /\ UNCHANGED <<build, ready, done, due, work, main>>

SeesNetA(t) ==
    /\ pc[t] = "yield" /\ "a" \in ready
    /\ pc' = [pc EXCEPT ![t] = "loop"]
    /\ UNCHANGED <<build, flags, due, work, main>>

-----------------------------------------------------------------------------
(* The loops.                                                              *)

OneShot(n) == n \in build.oneShot

UnderCap(n) == iter[n] < MaxIters

\* The condition of the thread's loop.
Goes(t) ==
    CASE t \in Nets -> IF OneShot(t) THEN iter[t] = 0 ELSE ~ done /\ UnderCap(t)
      [] t = "se"   -> IF OneShot("b") THEN iter["b"] < 1 ELSE UnderCap("b")
      [] t = "bc"   -> UnderCap("b")

\* The timers of the thread's executor, in the order it serves them.
Timers(t) == CASE ~ Rclc(t)                          -> <<>>
               [] t \in Nets                         -> <<t>>
               [] t = "se"                           -> <<"a", "b">>
               [] t = "bc" /\ build.mode \in {"fused", "fusedNoC"} -> <<"b">>
               [] t = "bc" /\ build.mode = "bc"    -> <<"b", "c">>

Tick(n) ==
    /\ n \notin due /\ iter[n] < MaxTicks
    /\ \E t \in Threads : pc[t] \in {"loop", "run"} /\ \E i \in DOMAIN Timers(t) : Timers(t)[i] = n
    /\ due' = due \cup {n}
    /\ UNCHANGED <<build, flags, pc, work, main>>

\* The networks that one turn of the loop runs.
Due(m, n) == CASE m \in due /\ n \in due -> <<m, n>>
               [] m \in due /\ n \notin due -> <<m>>
               [] OTHER                     -> <<n>>
Turn(t) == CASE t = "bc" /\ build.mode \in {"fused", "norclc"} -> <<"b", "c", "c">>
             [] t = "bc" /\ build.mode = "fusedNoC"            -> <<"b">>
             [] t = "bc" /\ build.mode = "bc"                  -> Due("b", "c")
             [] t = "se"                                       -> Due("a", "b")
             [] OTHER                                          -> <<t>>

Spin(t) ==
    /\ pc[t] = "loop" /\ Goes(t)
    /\ Rclc(t) => \E i \in DOMAIN Timers(t) : Timers(t)[i] \in due
    /\ todo' = [todo EXCEPT ![t] = Turn(t)]
    /\ due' = due \ {Timers(t)[i] : i \in DOMAIN Timers(t)}
    /\ disp' = [disp EXCEPT ![t] = 0]
    /\ pc' = [pc EXCEPT ![t] = "run"]
    /\ UNCHANGED <<build, flags, idx, iter, count, trace, main>>

\* A dispatch has run: it takes an entry of the trace...
Reserve(t) ==
    /\ pc[t] = "run" /\ idx[t] = None
    /\ idx' = [idx EXCEPT ![t] = count]
    /\ count' = count + 1
    /\ UNCHANGED <<build, flags, pc, due, todo, disp, iter, trace, main>>

\* ... and writes it; after the last one the run is counted, and the next
\* network of the turn runs.
Entry(t) == <<Head(todo[t]), iter[Head(todo[t])], disp[t]>>
Record(t) ==
    /\ pc[t] = "run" /\ idx[t] # None
    /\ trace' = IF idx[t] < TraceMax THEN [trace EXCEPT ![idx[t]] = Entry(t)] ELSE trace
    /\ idx' = [idx EXCEPT ![t] = None]
    /\ IF disp[t] + 1 < Dispatches[Head(todo[t])]
       THEN disp' = [disp EXCEPT ![t] = @ + 1] /\ UNCHANGED <<pc, todo, iter>>
       ELSE /\ disp' = [disp EXCEPT ![t] = 0]
            /\ iter' = [iter EXCEPT ![Head(todo[t])] = @ + 1]
            /\ todo' = [todo EXCEPT ![t] = Tail(@)]
            /\ pc' = [pc EXCEPT ![t] = IF Len(todo[t]) = 1 THEN "loop" ELSE "run"]
    /\ UNCHANGED <<build, flags, due, count, main>>

\* Who ends the window: the one-shot network, the shared executor, or a
\* network at the cap; without micro-ROS the cap ends only its own thread.
EndsWindow(t) ==
    \/ t \notin Nets
    \/ OneShot(t)
    \/ Rclc(t) /\ ~ UnderCap(t)

Leave(t) ==
    /\ pc[t] = "loop" /\ ~ Goes(t)
    /\ done' = (done \/ EndsWindow(t))
    /\ pc' = [pc EXCEPT ![t] = "exit"]
    /\ UNCHANGED <<build, ready, failed, due, work, main>>

Joined_Two == Threads \ {"c"}
Joined     == Threads

Main ==
    /\ main = "join" /\ \A t \in Joined : pc[t] = "exit"
    /\ main' = "dump"
    /\ UNCHANGED <<build, flags, pc, due, work>>

Step(t) == \/ Start(t) \/ SessionOpen(t) \/ SessionFails(t) \/ SeesNetA(t)
           \/ Spin(t) \/ Reserve(t) \/ Record(t) \/ Leave(t)
Next    == (\E t \in Threads : Step(t)) \/ (\E n \in Nets : Tick(n)) \/ Main

\* Zephyr runs every thread, and timers expire.
Spec == /\ Init /\ [][Next]_vars /\ WF_vars(Main)
        /\ \A t \in {"a", "b", "c", "se", "bc"} : WF_vars(t \in Threads /\ Step(t))
        /\ \A n \in Nets : WF_vars(Tick(n))

-----------------------------------------------------------------------------
(* Properties.                                                             *)

\* The variables' types; net_b, which ends most windows, never runs past its cap.
HarnessTypeOK ==
    /\ build \in Builds /\ ready \subseteq {"a", "b"} /\ done \in BOOLEAN
    /\ pc \in [Threads -> {"start", "init", "yield", "loop", "run", "exit"}]
    /\ failed \subseteq Threads /\ due \subseteq Nets
    /\ todo \in [Threads -> Seq(Nets)] /\ disp \in [Threads -> Nat]
    /\ idx \in [Threads -> Nat \cup {None}] /\ count \in Nat
    /\ iter \in [Nets -> Nat] /\ iter["b"] <= MaxIters
    /\ trace \in [0..TraceMax - 1 -> (Nets \X Nat \X Nat) \cup {None}]
    /\ main \in {"join", "dump"}

\* No two threads are in the handshake with the broker at the same time,
\* whichever of them fails ("serialize session init", node_thread_fn).
InitsSerialized ==
    \A s, t \in Threads : pc[s] = "init" /\ pc[t] = "init" => s = t

\* When main() dumps the trace, every entry it dumps has been written, no two
\* are the same, and unless the table was too small every run of every
\* network is there (trace_record, emit_trace_block).
Dumped  == {trace[i] : i \in {j \in 0..TraceMax - 1 : j < count}}
AllRuns == UNION {{n} \X (0..iter[n] - 1) \X (0..Dispatches[n] - 1) : n \in Nets}
TraceWhole ==
    main = "dump" =>
        /\ Dumped \subseteq AllRuns
        /\ Cardinality(Dumped) = IF count < TraceMax THEN count ELSE TraceMax
        /\ count <= TraceMax => AllRuns = Dumped

\* Unless an initialisation fails, all threads return and main() goes on: a
\* failed thread leaves its flag unset, and who waits for it waits forever.
AllReturn == <>(main = "dump" \/ failed # {})
=============================================================================
