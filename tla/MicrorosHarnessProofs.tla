----------------------- MODULE MicrorosHarnessProofs -----------------------
(***************************************************************************)
(* In every build, at most one thread is in the handshake with the broker: *)
(* each waits for a flag that the thread before it sets after its own.     *)
(* Then the types, and the cap on the runs of net_b; and the trace, which  *)
(* is complete when main() dumps it.                                       *)
(***************************************************************************)
EXTENDS MicrorosHarness, FiniteSetTheorems, TLAPS

\* A thread in its handshake has seen the flag it waited for; a flag is set
\* by one thread, after its handshake; and that of a only after that of b.
SessionInv ==
    /\ build \in Builds
    /\ pc \in [Threads -> {"start", "init", "yield", "loop", "run", "exit"}]
    /\ \A t \in Threads : pc[t] = "init" => AwaitedBy(t) \subseteq ready /\ Rclc(t)
    /\ \A t \in Threads : pc[t] \in {"start", "init"} => Announced(t) \cap ready = {}
    /\ "a" \in ready => "b" \in ready

\* The threads of a build: never both b and bc.
LEMMA ThreadsOf ==
  ASSUME build \in Builds
  PROVE  /\ build.mode \in Modes /\ build.nets \in {{"a", "b"}, Nets}
         /\ \/ build.mode \in {"node", "direct"} /\ Threads = build.nets
            \/ build.mode = "single" /\ Threads = {"se"}
            \/ build.mode \in {"bc", "fused", "fusedNoC", "norclc"} /\ Threads = {"a", "bc"}
         /\ Threads \subseteq {"a", "b", "c", "se", "bc"}
         /\ ~ ("b" \in Threads /\ "bc" \in Threads)
<1>1. build.mode \in Modes /\ build.nets \in {{"a", "b"}, Nets}
  BY HarnessAssumption
<1>2. \/ build.mode \in {"node", "direct"} /\ Threads = build.nets
      \/ build.mode = "single" /\ Threads = {"se"}
      \/ build.mode \in {"bc", "fused", "fusedNoC", "norclc"} /\ Threads = {"a", "bc"}
  BY <1>1 DEF Threads, Modes
<1> QED BY <1>1, <1>2 DEF Nets

\* No two threads of a build set the same flag.
LEMMA OwnFlags ==
  ASSUME build \in Builds, NEW s \in Threads, NEW t \in Threads, s # t
  PROVE  Announced(s) \cap Announced(t) = {}
BY ThreadsOf DEF Announced

\* No thread is in its handshake and no flag is set when main() starts.
LEMMA SessionInit ==
  ASSUME Init PROVE SessionInv
BY DEF Init, SessionInv

\* A step that sets no flag and begins no handshake.
LEMMA SessionQuiet ==
  ASSUME SessionInv, build' = build, ready' = ready, NEW t \in Threads, NEW p,
         p \in {"yield", "loop", "run", "exit"}, pc' = [pc EXCEPT ![t] = p]
  PROVE  SessionInv'
<1>1. Threads' = Threads
  BY DEF Threads
<1>2. \A s : (AwaitedBy(s))' = AwaitedBy(s) /\ ((Rclc(s))' <=> Rclc(s))
  BY DEF AwaitedBy, Rclc
<1>3. /\ pc' \in [Threads -> {"start", "init", "yield", "loop", "run", "exit"}]
      /\ pc'[t] = p /\ \A s \in Threads : s # t => pc'[s] = pc[s]
  BY DEF SessionInv
<1>4. \A s \in Threads : pc'[s] \in {"start", "init"} => pc[s] = pc'[s]
  BY <1>3
<1>5. \A s : (Announced(s))' = Announced(s)
  BY DEF Announced
<1> QED BY <1>1, <1>2, <1>3, <1>4, <1>5 DEF SessionInv

\* A thread sets its flags and goes on.
LEMMA SessionAnnounce ==
  ASSUME SessionInv, build' = build, NEW t \in Threads, pc[t] \in {"start", "init"},
         ready' = ready \cup Announced(t), NEW p, p \in {"yield", "loop"},
         pc' = [pc EXCEPT ![t] = p],
         t = "a" => "b" \in ready
  PROVE  SessionInv'
<1>1. Threads' = Threads
  BY DEF Threads
<1>2. \A s : /\ (AwaitedBy(s))' = AwaitedBy(s) /\ ((Rclc(s))' <=> Rclc(s))
             /\ (Announced(s))' = Announced(s)
  BY DEF AwaitedBy, Rclc, Announced
<1>3. /\ pc' \in [Threads -> {"start", "init", "yield", "loop", "run", "exit"}]
      /\ pc'[t] = p /\ \A s \in Threads : s # t => pc'[s] = pc[s]
  BY DEF SessionInv
<1>4. \A s \in Threads : pc'[s] \in {"start", "init"} => pc[s] = pc'[s] /\ s # t
  BY <1>3
<1>5. \A s \in Threads : pc'[s] \in {"start", "init"} => Announced(s) \cap ready' = {}
  BY <1>4, OwnFlags DEF SessionInv
<1>6. \A s \in Threads : pc'[s] = "init" => AwaitedBy(s) \subseteq ready' /\ Rclc(s)
  BY <1>4 DEF SessionInv
<1>7. "a" \in ready' => "b" \in ready'
  <2>1. "a" \in Announced(t) => t = "a"
    BY DEF Announced
  <2> QED BY <2>1 DEF SessionInv
<1> QED BY <1>1, <1>2, <1>3, <1>5, <1>6, <1>7 DEF SessionInv

\* A thread begins its handshake when the flag it waits for is set.
LEMMA SessionBegin ==
  ASSUME SessionInv, build' = build, ready' = ready, NEW t \in Threads,
         pc[t] = "start", Rclc(t), AwaitedBy(t) \subseteq ready,
         pc' = [pc EXCEPT ![t] = "init"]
  PROVE  SessionInv'
<1>1. Threads' = Threads
  BY DEF Threads
<1>2. \A s : /\ (AwaitedBy(s))' = AwaitedBy(s) /\ ((Rclc(s))' <=> Rclc(s))
             /\ (Announced(s))' = Announced(s)
  BY DEF AwaitedBy, Rclc, Announced
<1>3. /\ pc' \in [Threads -> {"start", "init", "yield", "loop", "run", "exit"}]
      /\ pc'[t] = "init" /\ \A s \in Threads : s # t => pc'[s] = pc[s]
  BY DEF SessionInv
<1>4. \A s \in Threads : pc'[s] \in {"start", "init"} => Announced(s) \cap ready' = {}
  BY <1>3 DEF SessionInv
<1>5. \A s \in Threads : pc'[s] = "init" => AwaitedBy(s) \subseteq ready' /\ Rclc(s)
  BY <1>3 DEF SessionInv
<1> QED BY <1>1, <1>2, <1>3, <1>4, <1>5 DEF SessionInv

\* The flags keep threads apart in every step of a thread.
LEMMA SessionStep ==
  ASSUME SessionInv, NEW t \in Threads, Step(t) PROVE SessionInv'
<1>1. CASE Start(t)
  <2>1. build' = build /\ pc[t] = "start" /\ AwaitedBy(t) \subseteq ready
    BY <1>1 DEF Start
  <2>2. CASE Rclc(t) /\ pc' = [pc EXCEPT ![t] = "init"] /\ UNCHANGED ready
    BY <2>1, <2>2, SessionBegin
  <2>3. CASE build.mode = "direct" /\ pc' = [pc EXCEPT ![t] = "loop"] /\ UNCHANGED ready
    BY <2>1, <2>3, SessionQuiet
  <2>4. CASE /\ t = "bc" /\ ~ Rclc(t) /\ pc' = [pc EXCEPT ![t] = "yield"]
             /\ ready' = ready \cup Announced(t)
    BY <2>1, <2>4, SessionAnnounce
  <2> QED BY <1>1, <2>2, <2>3, <2>4 DEF Start
<1>2. CASE SessionOpen(t)
  <2>1. /\ build' = build /\ pc[t] = "init" /\ ready' = ready \cup Announced(t)
        /\ pc' = [pc EXCEPT ![t] = "loop"]
    BY <1>2 DEF SessionOpen
  <2>2. t = "a" => "b" \in ready
    <3>1. t = "a" => AwaitedBy(t) = {"b"} \/ ~ Rclc(t)
      BY DEF AwaitedBy, Nets
    <3> QED BY <2>1, <3>1 DEF SessionInv
  <2> QED BY <2>1, <2>2, SessionAnnounce
<1>3. CASE SessionFails(t)
  BY <1>3, SessionQuiet DEF SessionFails
<1>4. CASE SeesNetA(t)
  BY <1>4, SessionQuiet DEF SeesNetA, flags
<1>5. CASE Spin(t)
  BY <1>5, SessionQuiet DEF Spin, flags
<1>6. CASE Reserve(t)
  BY <1>6 DEF Reserve, flags, SessionInv, Threads, AwaitedBy, Rclc, Announced
<1>7. CASE Record(t)
  <2>1. build' = build /\ ready' = ready /\ pc[t] = "run"
    BY <1>7 DEF Record, flags
  <2>2. pc' = pc \/ pc' = [pc EXCEPT ![t] = "loop"] \/ pc' = [pc EXCEPT ![t] = "run"]
    BY <1>7 DEF Record
  <2>3. pc = [pc EXCEPT ![t] = "run"]
    BY <2>1 DEF SessionInv
  <2> QED BY <2>1, <2>2, <2>3, SessionQuiet
<1>8. CASE Leave(t)
  BY <1>8, SessionQuiet DEF Leave
<1> QED BY <1>1, <1>2, <1>3, <1>4, <1>5, <1>6, <1>7, <1>8 DEF Step

\* The handshakes with the broker are serialized: simultaneous ones would
\* saturate its queue (node_thread_fn, bc_executor_thread_fn).
THEOREM OneHandshake == Spec => []InitsSerialized
<1>1. Init => SessionInv
  BY SessionInit
<1>2. SessionInv /\ [Next]_vars => SessionInv'
  <2> SUFFICES ASSUME SessionInv, [Next]_vars PROVE SessionInv'
    OBVIOUS
  <2>1. ASSUME NEW t \in Threads, Step(t) PROVE SessionInv'
    BY <2>1, SessionStep
  <2>2. CASE UNCHANGED <<build, ready, pc>>
    BY <2>2 DEF SessionInv, Threads, AwaitedBy, Rclc, Announced
  <2>3. ASSUME NEW n \in Nets, Tick(n) PROVE UNCHANGED <<build, ready, pc>>
    BY <2>3 DEF Tick, flags
  <2>4. CASE Main
    BY <2>2, <2>4 DEF Main, flags
  <2>5. CASE UNCHANGED vars
    BY <2>2, <2>5 DEF vars, flags
  <2> QED BY <2>1, <2>2, <2>3, <2>4, <2>5 DEF Next
<1>3. SessionInv => InitsSerialized
  <2> SUFFICES ASSUME SessionInv, NEW s \in Threads, NEW t \in Threads,
                      pc[s] = "init", pc[t] = "init", s # t
               PROVE  FALSE
    BY DEF InitsSerialized
  <2>1. /\ AwaitedBy(s) \subseteq ready /\ Rclc(s) /\ Announced(s) \cap ready = {}
        /\ AwaitedBy(t) \subseteq ready /\ Rclc(t) /\ Announced(t) \cap ready = {}
    BY DEF SessionInv
  <2>2. \/ build.mode = "node" /\ Threads \subseteq {"a", "b", "c"}
        \/ build.mode \in {"bc", "fused", "fusedNoC", "norclc"} /\ Threads = {"a", "bc"}
    BY <2>1, ThreadsOf DEF SessionInv, Rclc, Nets
  <2>3. CASE build.mode = "node" /\ Threads \subseteq {"a", "b", "c"}
    <3>1. "a" \in ready => "b" \in ready
      BY <2>3 DEF SessionInv
    <3>2. /\ Rclc("a") => AwaitedBy("a") = {"b"} /\ Announced("a") = {"a"}
          /\ Rclc("c") => AwaitedBy("c") = {"a"}
          /\ Announced("b") = {"b"}
      BY <2>3 DEF AwaitedBy, Announced, Nets
    <3>3. \/ s = "a" /\ t \in {"b", "c"}
          \/ s = "b" /\ t \in {"a", "c"}
          \/ s = "c" /\ t \in {"a", "b"}
      BY <2>3
    <3>4. pc["b"] = "init" /\ "b" \in Threads => "b" \notin ready
      BY <3>2 DEF SessionInv
    <3>5. pc["a"] = "init" /\ "a" \in Threads => "b" \in ready /\ "a" \notin ready
      BY <3>2 DEF SessionInv
    <3>6. pc["c"] = "init" /\ "c" \in Threads => "a" \in ready
      BY <3>2 DEF SessionInv
    <3> QED BY <3>1, <3>3, <3>4, <3>5, <3>6
  <2>4. CASE build.mode \in {"bc", "fused", "fusedNoC", "norclc"} /\ Threads = {"a", "bc"}
    <3>1. /\ Rclc("a") => AwaitedBy("a") = {"b"}
          /\ Announced("bc") = {"b"}
      BY <2>4 DEF AwaitedBy, Announced, Nets
    <3>2. \/ s = "a" /\ t = "bc"
          \/ s = "bc" /\ t = "a"
      BY <2>4
    <3> QED BY <2>1, <3>1, <3>2
  <2> QED BY <2>2, <2>3, <2>4
<1> QED BY <1>1, <1>2, <1>3, PTL DEF Spec

-----------------------------------------------------------------------------
(* The types, and the cap on the runs of b: at most one thread has b to    *)
(* run, once, and found it below the cap when it began the turn.           *)

WithB == { u \in Seq(Nets) : \E i \in 1..Len(u) : u[i] = "b" }
Turns == { u \in Seq(Nets) : \A i, j \in 1..Len(u) : u[i] = "b" /\ u[j] = "b" => i = j }

TurnInv ==
    /\ todo \in [Threads -> Turns]
    /\ \A t \in Threads : pc[t] = "run" => todo[t] # <<>>
    /\ \A t \in Threads : todo[t] \in WithB => t \in {"b", "se", "bc"} /\ iter["b"] < MaxIters

TypeInv == HarnessTypeOK /\ TurnInv

\* b is run by one thread.
LEMMA OneRunsB ==
  ASSUME build \in Builds, NEW s \in Threads, NEW t \in Threads,
         s \in {"b", "se", "bc"}, t \in {"b", "se", "bc"}
  PROVE  s = t
BY ThreadsOf DEF Nets

\* What is left of a turn when its first network has run.
LEMMA TurnsRest ==
  ASSUME NEW u \in Turns, u # <<>>
  PROVE  /\ Head(u) \in Nets /\ Tail(u) \in Turns /\ Len(u) \in Nat
         /\ Len(u) # 1 => Tail(u) # <<>>
         /\ Head(u) = "b" => u \in WithB
         /\ Tail(u) \in WithB => u \in WithB /\ Head(u) # "b"
<1>1. Head(u) = u[1] /\ Head(u) \in Nets /\ Tail(u) \in Seq(Nets) /\ Len(u) \in Nat \ {0}
  BY DEF Turns
<1>2. /\ Len(Tail(u)) = Len(u) - 1
      /\ \A i \in 1..Len(Tail(u)) : Tail(u)[i] = u[i + 1] /\ i + 1 \in 1..Len(u)
  BY <1>1 DEF Turns
<1>3. Tail(u) \in Turns
  <2> DEFINE w == Tail(u)
  <2>1. ASSUME NEW i \in 1..Len(w), NEW j \in 1..Len(w), w[i] = "b", w[j] = "b"
        PROVE  i = j
    <3>1. u[i + 1] = "b" /\ u[j + 1] = "b" /\ i + 1 \in 1..Len(u) /\ j + 1 \in 1..Len(u)
      BY <1>2, <2>1
    <3>2. i + 1 = j + 1
      BY <3>1 DEF Turns
    <3> QED BY <3>2
  <2> HIDE DEF w
  <2>2. w \in Seq(Nets)
    BY <1>1 DEF w
  <2>3. w \in Turns
    BY <2>1, <2>2 DEF Turns
  <2> QED BY <2>3 DEF w
<1>4. Len(u) # 1 => Tail(u) # <<>>
  BY <1>1, <1>2
<1>5. Head(u) = "b" => u \in WithB
  BY <1>1 DEF WithB, Turns
<1>6. ASSUME Tail(u) \in WithB PROVE u \in WithB /\ Head(u) # "b"
  <2>1. PICK i \in 1..Len(Tail(u)) : Tail(u)[i] = "b"
    BY <1>6 DEF WithB
  <2>2. i + 1 \in 1..Len(u) /\ u[i + 1] = "b" /\ i + 1 # 1 /\ 1 \in 1..Len(u)
    BY <1>1, <1>2, <2>1
  <2>3. u \in WithB
    BY <2>2 DEF WithB, Turns
  <2>4. u[1] # "b"
    BY <2>2 DEF Turns
  <2> QED BY <1>1, <2>3, <2>4
<1> QED BY <1>1, <1>3, <1>4, <1>5, <1>6

\* The turns there are.
LEMMA TurnsAre ==
  ASSUME NEW m \in Nets, NEW n \in Nets, m # n
  PROVE  /\ <<m>> \in Turns \ {<<>>} /\ <<m, n>> \in Turns \ {<<>>}
         /\ <<"b", "c", "c">> \in Turns \ {<<>>}
         /\ <<m>> \in WithB => m = "b"
<1>1. Len(<<m>>) = 1 /\ Len(<<m, n>>) = 2 /\ Len(<<"b", "c", "c">>) = 3 /\ Len(<<>>) = 0
  OBVIOUS
<1>2. <<m>> \in Turns
  BY <1>1 DEF Turns
<1>3. <<m, n>> \in Turns
  <2>1. <<m, n>> \in Seq(Nets)
    OBVIOUS
  <2>2. <<m, n>>[1] = m /\ <<m, n>>[2] = n /\ \A i \in 1..2 : i = 1 \/ i = 2
    OBVIOUS
  <2> QED BY <1>1, <2>1, <2>2 DEF Turns
<1>4. <<"b", "c", "c">> \in Turns
  <2> DEFINE w == <<"b", "c", "c">>
  <2>1. w \in Seq(Nets) /\ w[1] = "b" /\ w[2] = "c" /\ w[3] = "c" /\ Len(w) = 3
    BY DEF Nets
  <2>2. \A i \in 1..3 : i = 1 \/ i = 2 \/ i = 3
    OBVIOUS
  <2> HIDE DEF w
  <2>3. w \in Turns
    BY <2>1, <2>2 DEF Turns
  <2> QED BY <2>3 DEF w
<1>5. <<m>> \in WithB => m = "b"
  BY <1>1 DEF WithB
<1> QED BY <1>1, <1>2, <1>3, <1>4, <1>5

\* A turn of a thread whose loop goes on, and whose timer has expired.
LEMMA TurnOf ==
  ASSUME TypeInv, NEW t \in Threads, Goes(t),
         Rclc(t) => \E i \in DOMAIN Timers(t) : Timers(t)[i] \in due
  PROVE  /\ Turn(t) \in Turns \ {<<>>}
         /\ Turn(t) \in WithB => t \in {"b", "se", "bc"} /\ iter["b"] < MaxIters
<1> USE DEF TypeInv, HarnessTypeOK
<1>1. iter["b"] \in Nat /\ MaxIters \in Nat \ {0}
  BY HarnessAssumption DEF Nets
<1>2. CASE t \in {"a", "b", "c"}
  <2>1. Turn(t) = <<t>>
    BY <1>2 DEF Turn
  <2>2. t = "b" => iter["b"] < MaxIters
    BY <1>1 DEF Goes, Nets, UnderCap
  <2>3. PICK n \in Nets : n # t
    BY DEF Nets
  <2>4. t \in Nets
    BY <1>2 DEF Nets
  <2> QED BY <2>1, <2>2, <2>3, <2>4, TurnsAre
<1>3. CASE t = "se"
  <2>1. Turn(t) = Due("a", "b") /\ build.mode = "single"
    BY <1>3, ThreadsOf DEF Turn, Nets
  <2>2. Rclc(t) /\ Timers(t) = <<"a", "b">>
    BY <1>3, <2>1 DEF Rclc, Timers, Nets
  <2>3. "a" \in due \/ "b" \in due
    BY <2>2
  <2>4. iter["b"] < MaxIters
    BY <1>1, <1>3 DEF Goes, Nets, UnderCap
  <2>5. Turn(t) \in {<<"a">>, <<"b">>, <<"a", "b">>}
    BY <2>1, <2>3 DEF Due
  <2>6. "a" \in Nets /\ "b" \in Nets
    BY DEF Nets
  <2>7. /\ <<"a">> \in Turns \ {<<>>} /\ <<"a", "b">> \in Turns \ {<<>>}
        /\ <<"b">> \in Turns \ {<<>>}
    BY <2>6, TurnsAre
  <2> QED BY <1>3, <2>4, <2>5, <2>7
<1>4. CASE t = "bc"
  <2>1. build.mode \in {"bc", "fused", "fusedNoC", "norclc"}
    BY <1>4, ThreadsOf DEF Nets
  <2>2. iter["b"] < MaxIters
    BY <1>1, <1>4 DEF Goes, Nets, UnderCap
  <2>3. CASE build.mode = "bc"
    <3>1. Rclc(t) /\ Timers(t) = <<"b", "c">> /\ Turn(t) = Due("b", "c")
      BY <1>4, <2>3 DEF Rclc, Timers, Turn, Nets
    <3>2. "b" \in due \/ "c" \in due
      BY <3>1
    <3>3. Turn(t) \in {<<"b">>, <<"c">>, <<"b", "c">>}
      BY <3>1, <3>2 DEF Due
    <3>4. "b" \in Nets /\ "c" \in Nets
      BY DEF Nets
    <3>5. /\ <<"b">> \in Turns \ {<<>>} /\ <<"b", "c">> \in Turns \ {<<>>}
          /\ <<"c">> \in Turns \ {<<>>}
      BY <3>4, TurnsAre
    <3> QED BY <1>4, <2>2, <3>3, <3>5
  <2>4. CASE build.mode \in {"fused", "norclc"}
    <3>1. Turn(t) = <<"b", "c", "c">>
      BY <1>4, <2>4 DEF Turn
    <3>2. "b" \in Nets /\ "c" \in Nets
      BY DEF Nets
    <3> QED BY <1>4, <2>2, <3>1, <3>2, TurnsAre
  <2>5. CASE build.mode = "fusedNoC"
    <3>1. Turn(t) = <<"b">>
      BY <1>4, <2>5 DEF Turn, Nets
    <3>2. "b" \in Nets /\ "c" \in Nets
      BY DEF Nets
    <3> QED BY <1>4, <2>2, <3>1, <3>2, TurnsAre
  <2> QED BY <2>1, <2>3, <2>4, <2>5
<1> QED BY <1>2, <1>3, <1>4, ThreadsOf

\* The types hold when main() starts.
LEMMA TypeInit ==
  ASSUME Init PROVE TypeInv
<1>1. MaxIters \in Nat /\ TraceMax \in Nat
  BY HarnessAssumption
<1>2. HarnessTypeOK
  <2>1. iter \in [Nets -> Nat] /\ iter["b"] <= MaxIters
    BY <1>1 DEF Init, Nets
  <2>2. /\ build \in Builds /\ ready \subseteq {"a", "b"} /\ done \in BOOLEAN
        /\ pc \in [Threads -> {"start", "init", "yield", "loop", "run", "exit"}]
        /\ failed \subseteq Threads /\ due \subseteq Nets
    BY DEF Init
  <2>3. <<>> \in Seq(Nets)
    OBVIOUS
  <2>4. todo \in [Threads -> Seq(Nets)] /\ disp \in [Threads -> Nat]
    BY <2>3 DEF Init
  <2>5. /\ idx \in [Threads -> Nat \cup {None}] /\ count \in Nat
        /\ trace \in [0..TraceMax - 1 -> (Nets \X Nat \X Nat) \cup {None}]
        /\ main \in {"join", "dump"}
    BY DEF Init
  <2> QED BY <2>1, <2>2, <2>4, <2>5 DEF HarnessTypeOK
<1>3. <<>> \in Turns \ WithB
  BY DEF Turns, WithB
<1> QED BY <1>1, <1>2, <1>3 DEF Init, TypeInv, TurnInv

\* The steps that leave the turns alone.
LEMMA TypeQuiet ==
  ASSUME TypeInv, NEW t \in Threads,
         Start(t) \/ SessionOpen(t) \/ SessionFails(t) \/ SeesNetA(t) \/ Leave(t)
  PROVE  TypeInv'
<1> USE DEF TypeInv, HarnessTypeOK
<1>1. /\ build' = build /\ todo' = todo /\ disp' = disp /\ idx' = idx /\ iter' = iter
      /\ count' = count /\ trace' = trace /\ due' = due /\ main' = main
  BY DEF Start, SessionOpen, SessionFails, SeesNetA, Leave, work, flags
<1>2. Threads' = Threads
  BY <1>1 DEF Threads
<1>3. \E p \in {"init", "yield", "loop", "exit"} : pc' = [pc EXCEPT ![t] = p]
  BY DEF Start, SessionOpen, SessionFails, SeesNetA, Leave
<1>4. ready' \subseteq {"a", "b"}
  BY DEF Start, SessionOpen, SessionFails, SeesNetA, Leave, Announced, flags
<1>5. done' \in BOOLEAN /\ failed' \subseteq Threads
  BY DEF Start, SessionOpen, SessionFails, SeesNetA, Leave, EndsWindow, OneShot, flags
<1>6. HarnessTypeOK'
  BY <1>1, <1>2, <1>3, <1>4, <1>5
<1>7. TurnInv'
  BY <1>1, <1>2, <1>3 DEF TurnInv
<1> QED BY <1>6, <1>7

\* A turn of an executor's loop begins below the cap on net_b, which it has looked at.
LEMMA TypeSpin ==
  ASSUME TypeInv, NEW t \in Threads, Spin(t) PROVE TypeInv'
<1> USE DEF TypeInv, HarnessTypeOK
<1>1. /\ Turn(t) \in Turns \ {<<>>}
      /\ Turn(t) \in WithB => t \in {"b", "se", "bc"} /\ iter["b"] < MaxIters
  BY TurnOf DEF Spin
<1>2. /\ UNCHANGED <<build, ready, done, failed, idx, iter, count, trace, main>>
      /\ todo' = [todo EXCEPT ![t] = Turn(t)] /\ disp' = [disp EXCEPT ![t] = 0]
      /\ pc' = [pc EXCEPT ![t] = "run"] /\ due' \subseteq Nets
  BY DEF Spin, flags
<1>3. Threads' = Threads
  BY <1>2 DEF Threads
<1>4. todo' \in [Threads -> Turns] /\ todo' \in [Threads -> Seq(Nets)]
  BY <1>1, <1>2 DEF TurnInv, Turns
<1>5. HarnessTypeOK'
  BY <1>2, <1>3, <1>4
<1>6. TurnInv'
  BY <1>1, <1>2, <1>3, <1>4 DEF TurnInv
<1> QED BY <1>5, <1>6

\* Taking an entry of the trace (atomic_inc) keeps the types.
LEMMA TypeReserve ==
  ASSUME TypeInv, NEW t \in Threads, Reserve(t) PROVE TypeInv'
<1> USE DEF TypeInv, HarnessTypeOK
<1>1. /\ UNCHANGED <<build, ready, done, failed, pc, due, todo, disp, iter, trace, main>>
      /\ idx' = [idx EXCEPT ![t] = count] /\ count' = count + 1
  BY DEF Reserve, flags
<1>2. Threads' = Threads
  BY <1>1 DEF Threads
<1> QED BY <1>1, <1>2 DEF TurnInv

\* Writing the entry, and ending the run with the last of them, keeps the types.
LEMMA TypeRecord ==
  ASSUME TypeInv, NEW t \in Threads, Record(t) PROVE TypeInv'
<1> USE DEF TypeInv, HarnessTypeOK
<1>1. /\ UNCHANGED <<build, ready, done, failed, due, count, main>>
      /\ idx' = [idx EXCEPT ![t] = None] /\ pc[t] = "run"
  BY DEF Record, flags
<1>2. Threads' = Threads
  BY <1>1 DEF Threads
<1>3. /\ todo[t] \in Turns /\ todo[t] # <<>> /\ Head(todo[t]) \in Nets
      /\ iter[Head(todo[t])] \in Nat /\ disp[t] \in Nat
  BY <1>1, TurnsRest DEF TurnInv
<1>4. trace' \in [0..TraceMax - 1 -> (Nets \X Nat \X Nat) \cup {None}]
  <2>1. Entry(t) \in Nets \X Nat \X Nat
    BY <1>3 DEF Entry
  <2>2. trace' = trace \/ trace' = [trace EXCEPT ![idx[t]] = Entry(t)]
    BY DEF Record
  <2> QED BY <2>1, <2>2
<1>5. CASE disp[t] + 1 < Dispatches[Head(todo[t])]
  <2>1. disp' = [disp EXCEPT ![t] = @ + 1] /\ UNCHANGED <<pc, todo, iter>>
    BY <1>5 DEF Record
  <2>2. HarnessTypeOK'
    BY <1>1, <1>2, <1>3, <1>4, <2>1
  <2>3. TurnInv'
    BY <1>2, <2>1 DEF TurnInv
  <2> QED BY <2>2, <2>3
<1>6. CASE ~ (disp[t] + 1 < Dispatches[Head(todo[t])])
  <2> DEFINE n == Head(todo[t])
  <2>1. /\ disp' = [disp EXCEPT ![t] = 0] /\ iter' = [iter EXCEPT ![n] = @ + 1]
        /\ todo' = [todo EXCEPT ![t] = Tail(todo[t])]
        /\ pc' = [pc EXCEPT ![t] = IF Len(todo[t]) = 1 THEN "loop" ELSE "run"]
    BY <1>6 DEF Record
  <2>2. /\ Tail(todo[t]) \in Turns
        /\ Len(todo[t]) # 1 => Tail(todo[t]) # <<>>
        /\ n = "b" => todo[t] \in WithB
        /\ Tail(todo[t]) \in WithB => todo[t] \in WithB /\ n # "b"
    BY <1>3, TurnsRest
  <2>3. iter' \in [Nets -> Nat] /\ (n # "b" => iter'["b"] = iter["b"])
    BY <1>3, <2>1 DEF Nets
  <2>4. n = "b" => /\ t \in {"b", "se", "bc"}
                   /\ iter["b"] < MaxIters /\ iter'["b"] = iter["b"] + 1
    BY <1>3, <2>1, <2>2 DEF TurnInv, Nets
  <2>5. iter'["b"] <= MaxIters
    <3>1. iter["b"] \in Nat /\ MaxIters \in Nat
      BY HarnessAssumption DEF Nets
    <3> QED BY <2>3, <2>4, <3>1
  <2>6. todo' \in [Threads -> Turns] /\ todo' \in [Threads -> Seq(Nets)]
    <3>1. Turns \subseteq Seq(Nets)
      BY DEF Turns
    <3> QED BY <2>1, <2>2, <3>1 DEF TurnInv
  <2>7. HarnessTypeOK'
    BY <1>1, <1>2, <1>4, <2>1, <2>3, <2>5, <2>6
  <2>8. \A s \in Threads : pc'[s] = "run" => todo'[s] # <<>>
    BY <2>1, <2>2 DEF TurnInv
  <2>9. ASSUME NEW s \in Threads, todo'[s] \in WithB
        PROVE  s \in {"b", "se", "bc"} /\ iter'["b"] < MaxIters
    <3>1. todo[s] \in WithB
      BY <2>1, <2>2, <2>9 DEF TurnInv
    <3>2. s \in {"b", "se", "bc"} /\ iter["b"] < MaxIters
      BY <3>1 DEF TurnInv
    <3>3. n # "b"
      <4>1. s = t => n # "b"
        BY <2>1, <2>2, <2>9 DEF TurnInv
      <4>2. n = "b" => s = t
        BY <2>4, <3>2, OneRunsB
      <4> QED BY <4>1, <4>2
    <3> QED BY <2>3, <3>2, <3>3
  <2> QED BY <1>2, <2>6, <2>7, <2>8, <2>9 DEF TurnInv
<1> QED BY <1>5, <1>6

\* The types, and the cap on the runs of net_b, are kept by every step.
LEMMA TypeStep == TypeInv /\ [Next]_vars => TypeInv'
<1> SUFFICES ASSUME TypeInv, [Next]_vars PROVE TypeInv'
  OBVIOUS
<1>1. ASSUME NEW t \in Threads, Step(t) PROVE TypeInv'
  BY <1>1, TypeQuiet, TypeSpin, TypeReserve, TypeRecord DEF Step
<1>2. ASSUME NEW n \in Nets, Tick(n) PROVE TypeInv'
  BY <1>2 DEF Tick, flags, work, TypeInv, HarnessTypeOK, TurnInv, Threads
<1>3. CASE Main
  BY <1>3 DEF Main, flags, work, TypeInv, HarnessTypeOK, TurnInv, Threads
<1>4. CASE UNCHANGED vars
  BY <1>4 DEF vars, flags, work, TypeInv, HarnessTypeOK, TurnInv, Threads
<1> QED BY <1>1, <1>2, <1>3, <1>4 DEF Next

\* Every variable of the harness keeps its type, and b, which ends the window,
\* never runs more often than NET_A_MAX_ITERS.
THEOREM HarnessTypes == Spec => []HarnessTypeOK
<1>1. TypeInv => HarnessTypeOK
  BY DEF TypeInv
<1> QED BY <1>1, TypeInit, TypeStep, PTL DEF Spec

-----------------------------------------------------------------------------
(* The trace.  What has been recorded so far is known from the counters of *)
(* the networks and the threads: the entries written are these, each once, *)
(* and an entry that is not written yet belongs to one thread.             *)

\* The networks that a thread runs.
Runs(t) == CASE t \in Nets -> {t}
             [] t = "se"   -> {"a", "b"}
             [] t = "bc"   -> {"b", "c"}

\* The dispatches recorded of the runs that are under way.
Begun(t) == {Head(todo[t])} \X {iter[Head(todo[t])]} \X (0..disp[t] - 1)
Recorded == AllRuns \cup UNION {Begun(t) : t \in {s \in Threads : pc[s] = "run"}}

Kept       == {i \in 0..TraceMax - 1 : i < count}
Pending(i) == \E t \in Threads : idx[t] = i

OwnNets ==
    /\ \A t \in Threads : todo[t] \in Seq(Runs(t))
    /\ \A t \in Threads : pc[t] = "run" => disp[t] < Dispatches[Head(todo[t])]

OwnEntries ==
    /\ \A t \in Threads : idx[t] # None => pc[t] = "run" /\ idx[t] < count
    /\ \A s, t \in Threads : s # t /\ idx[s] # None => idx[s] # idx[t]

TraceKnown ==
    /\ \A i \in Kept : Pending(i) \/ trace[i] \in Recorded
    /\ \A i, j \in Kept : i # j => Pending(i) \/ Pending(j) \/ trace[i] # trace[j]
    /\ count <= TraceMax =>
         \A x \in Recorded : \E i \in Kept : ~ Pending(i) /\ trace[i] = x

TraceInv == /\ OwnNets /\ OwnEntries /\ TraceKnown
            /\ main = "dump" => \A t \in Threads : pc[t] = "exit"

\* No network is run by two threads.
LEMMA RunsApart ==
  ASSUME build \in Builds, NEW s \in Threads, NEW t \in Threads, s # t
  PROVE  Runs(s) \cap Runs(t) = {}
<1>1. CASE Threads \subseteq Nets
  <2>1. Runs(s) = {s} /\ Runs(t) = {t}
    BY <1>1 DEF Runs, Nets
  <2> QED BY <2>1
<1>2. CASE Threads = {"a", "bc"}
  BY <1>2 DEF Runs, Nets
<1>3. CASE Threads = {"se"}
  BY <1>3
<1>4. build.nets \subseteq Nets
  BY ThreadsOf DEF Nets
<1> QED BY <1>1, <1>2, <1>3, <1>4, ThreadsOf

\* What a turn of a thread runs is its own.
LEMMA TurnOwn ==
  ASSUME TypeInv, NEW t \in Threads
  PROVE  Turn(t) \in Seq(Runs(t))
<1>1. build \in Builds
  BY DEF TypeInv, HarnessTypeOK
<1>2. CASE t \in Nets
  <2>1. Turn(t) = <<t>> /\ Runs(t) = {t}
    BY <1>2 DEF Turn, Runs, Nets
  <2>2. <<t>> \in Seq({t})
    OBVIOUS
  <2> QED BY Zenon, <2>1, <2>2
<1>3. CASE t = "se"
  <2>1. Turn(t) = Due("a", "b") /\ Runs(t) = {"a", "b"}
    BY <1>3, <1>1, ThreadsOf DEF Turn, Runs, Nets
  <2>2. Due("a", "b") \in {<<"a">>, <<"b">>, <<"a", "b">>}
    BY DEF Due
  <2>3. {<<"a">>, <<"b">>, <<"a", "b">>} \subseteq Seq({"a", "b"})
    OBVIOUS
  <2> QED BY Zenon, <2>1, <2>2, <2>3
<1>4. CASE t = "bc"
  <2>1. build.mode \in {"bc", "fused", "fusedNoC", "norclc"} /\ Runs(t) = {"b", "c"}
    BY <1>4, <1>1, ThreadsOf DEF Runs, Nets
  <2>2. Turn(t) \in {Due("b", "c"), <<"b", "c", "c">>, <<"b">>}
    BY <1>4, <2>1 DEF Turn, Nets
  <2>3. Due("b", "c") \in {<<"b">>, <<"c">>, <<"b", "c">>}
    BY DEF Due
  <2>4. {<<"b">>, <<"c">>, <<"b", "c">>, <<"b", "c", "c">>} \subseteq Seq({"b", "c"})
    OBVIOUS
  <2> QED BY Zenon, <2>1, <2>2, <2>3, <2>4
<1>5. t \in Nets \/ t = "se" \/ t = "bc"
  BY <1>1, ThreadsOf DEF Nets
<1> QED BY <1>2, <1>3, <1>4, <1>5

\* A thread that runs something runs one of its own networks.
LEMMA AtOwn ==
  ASSUME TypeInv, OwnNets, NEW t \in Threads, pc[t] = "run"
  PROVE  /\ Head(todo[t]) \in Runs(t) /\ Head(todo[t]) \in Nets
         /\ iter[Head(todo[t])] \in Nat /\ disp[t] \in Nat
         /\ todo[t] # <<>> /\ Tail(todo[t]) \in Seq(Runs(t))
<1>1. todo[t] \in Turns /\ todo[t] # <<>> /\ todo[t] \in Seq(Runs(t))
  BY DEF TypeInv, TurnInv, OwnNets
<1>2. Head(todo[t]) \in Nets
  BY <1>1, TurnsRest
<1> QED BY <1>1, <1>2 DEF TypeInv, HarnessTypeOK

\* The members of AllRuns and of Recorded.
AllRunsAre ==
  \A x : x \in AllRuns <=>
           \E n \in Nets, i \in Nat, d \in Nat :
             x = <<n, i, d>> /\ i < iter[n] /\ d < Dispatches[n]
Going(t, n, d) == pc[t] = "run" /\ Head(todo[t]) = n /\ d < disp[t]
RecordedAre ==
  \A x : x \in Recorded <=>
           \E n \in Nets, i \in Nat, d \in Nat :
             /\ x = <<n, i, d>>
             /\ \/ i < iter[n] /\ d < Dispatches[n]
                \/ i = iter[n] /\ \E t \in Threads : Going(t, n, d)

\* The dispatches of the runs that have ended, element by element.
LEMMA MembersOfAllRuns == TypeInv => AllRunsAre
<1> SUFFICES ASSUME TypeInv PROVE AllRunsAre
  OBVIOUS
<1>1. iter \in [Nets -> Nat] /\ Dispatches \in [Nets -> Nat \ {0}]
  BY HarnessAssumption DEF TypeInv, HarnessTypeOK
<1>2. ASSUME NEW n \in Nets, NEW x
      PROVE  x \in {n} \X (0..iter[n] - 1) \X (0..Dispatches[n] - 1) <=>
               \E i \in Nat, d \in Nat :
                 x = <<n, i, d>> /\ i < iter[n] /\ d < Dispatches[n]
  <2>1. iter[n] \in Nat /\ Dispatches[n] \in Nat
    BY <1>1
  <2> QED BY <2>1
<1>3. \A x : x \in AllRuns <=>
               \E n \in Nets : x \in {n} \X (0..iter[n] - 1) \X (0..Dispatches[n] - 1)
  BY DEF AllRuns
<1> QED BY <1>2, <1>3 DEF AllRunsAre

\* What has been recorded: those, and of each run under way its first dispatches.
LEMMA MembersOfRecorded == TypeInv /\ OwnNets => RecordedAre
<1> SUFFICES ASSUME TypeInv, OwnNets, NEW x
             PROVE  x \in Recorded <=>
                      \E n \in Nets, i \in Nat, d \in Nat :
                        /\ x = <<n, i, d>>
                        /\ \/ i < iter[n] /\ d < Dispatches[n]
                           \/ i = iter[n] /\ \E t \in Threads : Going(t, n, d)
  BY DEF RecordedAre
<1>1. ASSUME NEW t \in Threads, pc[t] = "run"
      PROVE  x \in Begun(t) <=>
               \E n \in Nets, i \in Nat, d \in Nat :
                 x = <<n, i, d>> /\ i = iter[n] /\ Going(t, n, d)
  <2> DEFINE h == Head(todo[t])
  <2>1. h \in Nets /\ iter[h] \in Nat /\ disp[t] \in Nat
    BY <1>1, AtOwn
  <2>2. Begun(t) = {h} \X {iter[h]} \X (0..disp[t] - 1)
    BY DEF Begun
  <2>3. \A n, d : Going(t, n, d) <=> h = n /\ d < disp[t]
    BY <1>1 DEF Going
  <2> HIDE DEF h
  <2> QED BY <2>1, <2>2, <2>3
<1>2. x \in Recorded <=>
        x \in AllRuns \/ \E t \in Threads : pc[t] = "run" /\ x \in Begun(t)
  BY DEF Recorded
<1>3. x \in AllRuns <=> \E n \in Nets, i \in Nat, d \in Nat :
                          x = <<n, i, d>> /\ i < iter[n] /\ d < Dispatches[n]
  BY MembersOfAllRuns DEF AllRunsAre
<1>4. \A t \in Threads : \A n, d : Going(t, n, d) => pc[t] = "run"
  BY DEF Going
<1> QED BY <1>1, <1>2, <1>3, <1>4

\* The same after a step.
LEMMA MembersNext == TypeInv' /\ OwnNets' => RecordedAre'
BY MembersOfRecorded, PTL

\* Steps by which nothing is recorded.
LEMMA RecordedFrame ==
  ASSUME TypeInv, OwnNets, TypeInv', OwnNets', iter' = iter, Threads' = Threads,
         \A t \in Threads, n \in Nets, d \in Nat : Going(t, n, d)' <=> Going(t, n, d)
  PROVE  Recorded' = Recorded
<1>1. \A x : x \in Recorded <=>
           \E n \in Nets, i \in Nat, d \in Nat :
             /\ x = <<n, i, d>>
             /\ \/ i < iter[n] /\ d < Dispatches[n]
                \/ i = iter[n] /\ \E t \in Threads : Going(t, n, d)
  BY MembersOfRecorded DEF RecordedAre
<1>2. \A x : x \in Recorded' <=>
           \E n \in Nets, i \in Nat, d \in Nat :
             /\ x = <<n, i, d>>
             /\ \/ i < iter[n] /\ d < Dispatches[n]
                \/ i = iter[n] /\ \E t \in Threads : Going(t, n, d)'
  BY MembersNext DEF RecordedAre
<1>3. \A x : x \in Recorded' <=> x \in Recorded
  BY <1>1, <1>2
<1> QED BY <1>3

\* What is known of the trace stays so when nothing is recorded and no entry
\* is taken.
LEMMA KnownFrame ==
  ASSUME TraceKnown, Recorded' = Recorded, Threads' = Threads,
         count' = count, trace' = trace, idx' = idx
  PROVE  TraceKnown'
<1>1. Kept' = Kept
  BY DEF Kept
<1>2. \A i : Pending(i)' <=> Pending(i)
  BY DEF Pending
<1> QED BY <1>1, <1>2 DEF TraceKnown

\* The sessions, and the end of a loop.
LEMMA TraceQuiet ==
  ASSUME TypeInv, TypeInv', TraceInv, NEW t \in Threads,
         Start(t) \/ SessionOpen(t) \/ SessionFails(t) \/ SeesNetA(t) \/ Leave(t)
  PROVE  TraceInv'
<1>1. UNCHANGED <<build, todo, disp, idx, iter, count, trace, main>>
  BY DEF Start, SessionOpen, SessionFails, SeesNetA, Leave, work, flags
<1>2. Threads' = Threads
  BY <1>1 DEF Threads
<1>3. /\ pc[t] \notin {"run", "exit"} /\ pc'[t] # "run"
      /\ \A s \in Threads : s # t => pc'[s] = pc[s]
  BY DEF Start, SessionOpen, SessionFails, SeesNetA, Leave, TypeInv, HarnessTypeOK
<1>4. OwnNets'
  BY <1>1, <1>2, <1>3 DEF TraceInv, OwnNets
<1>5. OwnEntries'
  BY <1>1, <1>2, <1>3 DEF TraceInv, OwnEntries
<1>6. Recorded' = Recorded
  <2>1. \A s \in Threads, n \in Nets, d \in Nat : Going(s, n, d)' <=> Going(s, n, d)
    BY <1>1, <1>3 DEF Going
  <2> QED BY <1>1, <1>2, <1>4, <2>1, RecordedFrame DEF TraceInv
<1>7. TraceKnown'
  BY <1>1, <1>2, <1>6, KnownFrame DEF TraceInv
<1>8. main = "join"
  BY <1>3 DEF TraceInv, TypeInv, HarnessTypeOK
<1> QED BY <1>1, <1>4, <1>5, <1>7, <1>8 DEF TraceInv

\* A turn that begins records nothing and takes no entry.
LEMMA TraceSpin ==
  ASSUME TypeInv, TypeInv', TraceInv, NEW t \in Threads, Spin(t) PROVE TraceInv'
<1>1. /\ UNCHANGED <<build, idx, iter, count, trace, main>> /\ pc[t] = "loop"
      /\ todo' = [todo EXCEPT ![t] = Turn(t)] /\ disp' = [disp EXCEPT ![t] = 0]
      /\ pc' = [pc EXCEPT ![t] = "run"]
  BY DEF Spin, flags
<1>2. Threads' = Threads
  BY <1>1 DEF Threads
<1>3. /\ todo'[t] = Turn(t) /\ disp'[t] = 0 /\ pc'[t] = "run"
      /\ \A s \in Threads : s # t => pc'[s] = pc[s] /\ todo'[s] = todo[s] /\ disp'[s] = disp[s]
      /\ todo' \in [Threads -> Turns]
  BY <1>1, <1>2 DEF TypeInv, HarnessTypeOK, TurnInv
<1>4. OwnNets'
  <2>1. \A s \in Threads : todo'[s] \in Seq(Runs(s))
    BY <1>3, TurnOwn DEF TraceInv, OwnNets
  <2>2. disp'[t] < Dispatches[Head(todo'[t])]
    <3>1. todo'[t] \in Turns /\ todo'[t] # <<>>
      BY <1>2, <1>3 DEF TypeInv, TurnInv
    <3>2. Head(todo'[t]) \in Nets
      BY <3>1, TurnsRest
    <3> QED BY <1>3, <3>2, HarnessAssumption
  <2>3. \A s \in Threads : pc'[s] = "run" => disp'[s] < Dispatches[Head(todo'[s])]
    BY <1>3, <2>2 DEF TraceInv, OwnNets
  <2> QED BY <1>2, <2>1, <2>3 DEF OwnNets
<1>5. OwnEntries'
  BY <1>1, <1>2, <1>3 DEF TraceInv, OwnEntries
<1>6. Recorded' = Recorded
  <2>1. \A s \in Threads, n \in Nets, d \in Nat : Going(s, n, d)' <=> Going(s, n, d)
    BY <1>1, <1>3 DEF Going
  <2> QED BY <1>1, <1>2, <1>4, <2>1, RecordedFrame DEF TraceInv
<1>7. TraceKnown'
  BY <1>1, <1>2, <1>6, KnownFrame DEF TraceInv
<1>8. main = "join"
  BY <1>1 DEF TraceInv, TypeInv, HarnessTypeOK
<1> QED BY <1>1, <1>4, <1>5, <1>7, <1>8 DEF TraceInv

\* An entry is taken: it is nobody else's (ros_trace_count is incremented with
\* the lock).
LEMMA TraceReserve ==
  ASSUME TypeInv, TypeInv', TraceInv, NEW t \in Threads, Reserve(t) PROVE TraceInv'
<1>1. /\ UNCHANGED <<build, pc, todo, disp, iter, trace, main>>
      /\ pc[t] = "run" /\ idx[t] = None
      /\ idx' = [idx EXCEPT ![t] = count] /\ count' = count + 1
  BY DEF Reserve, flags
<1>2. Threads' = Threads
  BY <1>1 DEF Threads
<1>3. /\ count \in Nat /\ None \notin Nat /\ TraceMax \in Nat
      /\ idx'[t] = count /\ \A s \in Threads : s # t => idx'[s] = idx[s]
      /\ \A s \in Threads : idx[s] \in Nat \cup {None}
  BY <1>1, HarnessAssumption DEF TypeInv, HarnessTypeOK
<1>4. OwnNets'
  BY <1>1, <1>2 DEF TraceInv, OwnNets
<1>5. OwnEntries'
  BY <1>1, <1>2, <1>3 DEF TraceInv, OwnEntries
<1>6. Recorded' = Recorded
  <2>1. \A s \in Threads, n \in Nets, d \in Nat : Going(s, n, d)' <=> Going(s, n, d)
    BY <1>1 DEF Going
  <2> QED BY <1>1, <1>2, <1>4, <2>1, RecordedFrame DEF TraceInv
<1>7. \A i \in Nat : Pending(i)' <=> Pending(i) \/ i = count
  BY <1>2, <1>3, <1>1 DEF Pending
<1>8. Kept \subseteq Nat /\ \A i : i \in Kept' <=> i \in Kept \/ (i = count /\ count < TraceMax)
  BY <1>1, <1>3 DEF Kept
<1>9. \A i \in Kept : i # count
  BY <1>3 DEF Kept
<1>10. TraceKnown'
  <2>1. \A i \in Kept' : i \in Nat /\ (Pending(i)' \/ i \in Kept)
    BY <1>3, <1>7, <1>8
  <2>2. \A i \in Kept' : Pending(i)' \/ trace'[i] \in Recorded'
    BY <1>1, <1>6, <1>7, <2>1 DEF TraceInv, TraceKnown
  <2>3. \A i, j \in Kept' : i # j => Pending(i)' \/ Pending(j)' \/ trace'[i] # trace'[j]
    BY <1>1, <1>7, <2>1 DEF TraceInv, TraceKnown
  <2>4. count' <= TraceMax =>
          \A x \in Recorded' : \E i \in Kept' : ~ Pending(i)' /\ trace'[i] = x
    <3> SUFFICES ASSUME count' <= TraceMax, NEW x \in Recorded
                 PROVE  \E i \in Kept' : ~ Pending(i)' /\ trace'[i] = x
      BY <1>6
    <3>1. count <= TraceMax
      BY <1>1, <1>3
    <3>2. PICK i \in Kept : ~ Pending(i) /\ trace[i] = x
      BY <3>1 DEF TraceInv, TraceKnown
    <3> QED BY <1>1, <1>7, <1>8, <1>9, <3>2
  <2> QED BY <2>2, <2>3, <2>4 DEF TraceKnown
<1>11. main = "join"
  BY <1>1 DEF TraceInv, TypeInv, HarnessTypeOK
<1> QED BY <1>1, <1>4, <1>5, <1>10, <1>11 DEF TraceInv

\* An entry is written: that dispatch had not been recorded, and is now.
LEMMA RecordedGrows ==
  ASSUME TypeInv, TypeInv', TraceInv, NEW t \in Threads, Record(t)
  PROVE  /\ OwnNets'
         /\ Entry(t) \notin Recorded /\ Recorded' = Recorded \cup {Entry(t)}
<1> DEFINE h == Head(todo[t])
<1>1. PICK n \in Nets : n = h
  BY AtOwn DEF Record, TraceInv
<1>2. PICK i \in Nat, d \in Nat, D \in Nat : i = iter[n] /\ d = disp[t] /\ D = Dispatches[n]
  BY <1>1, HarnessAssumption DEF TypeInv, HarnessTypeOK
<1>3. /\ build' = build /\ pc[t] = "run" /\ D > d /\ Entry(t) = <<n, i, d>>
      /\ \A s \in Threads : pc[s] = "run" /\ s # t => Head(todo[s]) # n
  <2>1. build' = build /\ pc[t] = "run"
    BY DEF Record, flags
  <2>2. D > d
    BY <1>1, <1>2, <2>1 DEF TraceInv, OwnNets
  <2>3. ASSUME NEW s \in Threads, pc[s] = "run", s # t PROVE Head(todo[s]) # n
    <3>1. Head(todo[s]) \in Runs(s) /\ n \in Runs(t)
      BY <1>1, <2>1, <2>3, AtOwn DEF TraceInv
    <3> QED BY <2>3, <3>1, RunsApart DEF TypeInv, HarnessTypeOK
  <2> QED BY <1>1, <1>2, <2>1, <2>2, <2>3 DEF Entry
<1>4. Threads' = Threads
  BY <1>3 DEF Threads
<1>5. /\ iter \in [Nets -> Nat] /\ disp \in [Threads -> Nat]
      /\ todo \in [Threads -> Turns]
      /\ pc \in [Threads -> {"start", "init", "yield", "loop", "run", "exit"}]
  BY DEF TypeInv, HarnessTypeOK, TurnInv
<1>6. \A x : x \in Recorded <=>
           \E m \in Nets, j \in Nat, e \in Nat :
             /\ x = <<m, j, e>>
             /\ \/ j < iter[m] /\ e < Dispatches[m]
                \/ j = iter[m] /\ \E s \in Threads : Going(s, m, e)
  BY MembersOfRecorded DEF RecordedAre, TraceInv
<1>7. \A e \in Nat : (\E s \in Threads : Going(s, n, e)) <=> e < d
  BY <1>1, <1>2, <1>3 DEF Going
<1>8. Entry(t) \notin Recorded
  BY <1>2, <1>3, <1>6, <1>7
<1>9. CASE d + 1 < D
  <2>1. disp' = [disp EXCEPT ![t] = d + 1] /\ UNCHANGED <<pc, todo, iter>>
    BY <1>1, <1>2, <1>9 DEF Record
  <2>2. OwnNets'
    <3>1. disp'[t] < Dispatches[Head(todo'[t])]
      BY <1>1, <1>2, <1>5, <1>9, <2>1
    <3> QED BY <1>4, <1>5, <2>1, <3>1 DEF TraceInv, OwnNets
  <2>3. \A x : x \in Recorded' <=>
             \E m \in Nets, j \in Nat, e \in Nat :
               /\ x = <<m, j, e>>
               /\ \/ j < iter[m] /\ e < Dispatches[m]
                  \/ j = iter[m] /\ \E s \in Threads : Going(s, m, e)'
    BY <1>4, <2>1, <2>2, MembersNext DEF RecordedAre
  <2>4. \A m \in Nets, e \in Nat :
          (\E s \in Threads : Going(s, m, e)') <=>
            (\E s \in Threads : Going(s, m, e)) \/ (m = n /\ e = d)
    <3>1. \A m, e : \A s \in Threads : s # t => (Going(s, m, e)' <=> Going(s, m, e))
      BY <1>5, <2>1 DEF Going
    <3>2. \A m, e : Going(t, m, e)' <=> m = n /\ e < d + 1
      BY <1>1, <1>3, <1>5, <2>1 DEF Going
    <3>3. \A m, e : Going(t, m, e) <=> m = n /\ e < d
      BY <1>1, <1>2, <1>3 DEF Going
    <3>4. \A e \in Nat : e < d + 1 <=> e < d \/ e = d
      BY <1>2
    <3> QED BY <3>1, <3>2, <3>3, <3>4
  <2>5. \A x : x \in Recorded' <=> x \in Recorded \/ x = <<n, i, d>>
    BY <1>1, <1>2, <1>6, <2>3, <2>4
  <2> QED BY <1>3, <1>8, <2>2, <2>5
<1>10. CASE ~ (d + 1 < D)
  <2>1. /\ disp' = [disp EXCEPT ![t] = 0] /\ iter' = [iter EXCEPT ![n] = i + 1]
        /\ todo' = [todo EXCEPT ![t] = Tail(todo[t])]
        /\ \A s \in Threads : s # t => pc'[s] = pc[s]
    BY <1>1, <1>2, <1>5, <1>10 DEF Record
  <2>2. OwnNets'
    <3>1. Tail(todo[t]) \in Seq(Runs(t))
      BY <1>3, AtOwn DEF TraceInv
    <3>2. \A s \in Threads : todo'[s] \in Seq(Runs(s))
      BY <1>5, <2>1, <3>1 DEF TraceInv, OwnNets
    <3>3. pc'[t] = "run" => disp'[t] < Dispatches[Head(todo'[t])]
      <4> SUFFICES ASSUME pc'[t] = "run" PROVE disp'[t] < Dispatches[Head(todo'[t])]
        OBVIOUS
      <4>1. todo'[t] \in Turns /\ todo'[t] # <<>>
        BY <1>4 DEF TypeInv, TurnInv
      <4>2. Head(todo'[t]) \in Nets
        BY <4>1, TurnsRest
      <4>3. disp'[t] = 0
        BY <1>5, <2>1
      <4>4. Dispatches[Head(todo'[t])] \in Nat \ {0}
        BY <4>2, HarnessAssumption
      <4> QED BY <4>3, <4>4
    <3>4. \A s \in Threads : pc'[s] = "run" => disp'[s] < Dispatches[Head(todo'[s])]
      BY <1>5, <2>1, <3>3 DEF TraceInv, OwnNets
    <3> QED BY <1>4, <3>2, <3>4 DEF OwnNets
  <2>3. \A x : x \in Recorded' <=>
             \E m \in Nets, j \in Nat, e \in Nat :
               /\ x = <<m, j, e>>
               /\ \/ j < iter'[m] /\ e < Dispatches[m]
                  \/ j = iter'[m] /\ \E s \in Threads : Going(s, m, e)'
    BY <1>4, <2>2, MembersNext DEF RecordedAre
  <2>4. /\ iter'[n] = i + 1 /\ \A m \in Nets : m # n => iter'[m] = iter[m]
    BY <1>5, <2>1
  <2>5. ASSUME NEW m \in Nets, NEW e \in Nat
        PROVE  (\E s \in Threads : Going(s, m, e)') <=>
                 (\E s \in Threads : Going(s, m, e)) /\ m # n
    <3>1. \A s \in Threads : s # t => (Going(s, m, e)' <=> Going(s, m, e))
      BY <1>5, <2>1 DEF Going
    <3>2. ~ Going(t, m, e)'
      BY <1>5, <2>1, <2>5 DEF Going
    <3>3. \A s \in Threads : Going(s, m, e) => (s = t <=> m = n)
      BY <1>1, <1>3 DEF Going
    <3> QED BY <3>1, <3>2, <3>3
  <2>6. D = d + 1 /\ \A j \in Nat : j < i + 1 <=> j < i \/ j = i
    BY <1>2, <1>3, <1>10
  <2>7. \A e \in Nat : e < D <=> e < d \/ e = d
    BY <1>2, <2>6
  <2>8. ASSUME NEW x PROVE x \in Recorded' <=> x \in Recorded \/ x = <<n, i, d>>
    <3>1. ASSUME NEW m \in Nets, NEW j \in Nat, NEW e \in Nat, x = <<m, j, e>>
          PROVE  x \in Recorded' <=> x \in Recorded \/ x = <<n, i, d>>
      <4>1. CASE m = n
        <5>1. x \in Recorded' <=> j < i + 1 /\ e < D
          BY <1>2, <2>3, <2>4, <2>5, <3>1, <4>1
        <5>2. x \in Recorded <=> (j < i /\ e < D) \/ (j = i /\ e < d)
          BY <1>2, <1>6, <1>7, <3>1, <4>1
        <5> QED BY <2>6, <2>7, <3>1, <4>1, <5>1, <5>2
      <4>2. CASE m # n
        BY <1>6, <2>3, <2>4, <2>5, <3>1, <4>2
      <4> QED BY <4>1, <4>2
    <3> QED BY <1>1, <1>2, <1>6, <2>3, <3>1
  <2> QED BY <1>3, <1>8, <2>2, <2>8
<1> QED BY <1>2, <1>9, <1>10

\* Writing an entry adds what was recorded to the trace, where there was room.
LEMMA TraceRecord ==
  ASSUME TypeInv, TypeInv', TraceInv, NEW t \in Threads, Record(t) PROVE TraceInv'
<1> DEFINE e == Entry(t)
<1>1. /\ UNCHANGED <<build, count, main>> /\ pc[t] = "run" /\ idx[t] # None
      /\ idx' = [idx EXCEPT ![t] = None]
      /\ trace' = IF idx[t] < TraceMax THEN [trace EXCEPT ![idx[t]] = e] ELSE trace
  BY DEF Record, flags
<1>2. Threads' = Threads
  BY <1>1 DEF Threads
<1>3. PICK k \in Nat : k = idx[t]
  BY <1>1 DEF TypeInv, HarnessTypeOK
<1>4. /\ count \in Nat /\ None \notin Nat /\ TraceMax \in Nat /\ k < count
      /\ idx'[t] = None /\ \A s \in Threads : s # t => idx'[s] = idx[s] /\ idx[s] # k
      /\ DOMAIN trace = 0..TraceMax - 1
  BY <1>1, <1>3, HarnessAssumption DEF TypeInv, HarnessTypeOK, TraceInv, OwnEntries
<1>5. OwnNets' /\ e \notin Recorded /\ Recorded' = Recorded \cup {e}
  BY RecordedGrows
<1>6. OwnEntries'
  <2>1. \A s \in Threads : s # t => pc'[s] = pc[s]
    BY DEF Record, TypeInv, HarnessTypeOK
  <2> QED BY <1>1, <1>2, <1>4, <2>1 DEF TraceInv, OwnEntries
<1>7. Kept' = Kept /\ Kept \subseteq Nat /\ (k < TraceMax <=> k \in Kept)
  BY <1>1, <1>3, <1>4 DEF Kept
<1>8. \A i \in Nat : Pending(i)' <=> Pending(i) /\ i # k
  BY <1>2, <1>3, <1>4 DEF Pending
<1>9. /\ k \in Kept => trace'[k] = e
      /\ \A i \in Kept : i # k => trace'[i] = trace[i]
  BY <1>1, <1>3, <1>4, <1>7 DEF Kept
<1>10. TraceKnown'
  <2>1. ASSUME NEW i \in Kept, ~ Pending(i)'
        PROVE  \/ i = k /\ trace'[i] = e
               \/ i # k /\ ~ Pending(i) /\ trace'[i] = trace[i] /\ trace[i] \in Recorded
    BY <1>7, <1>8, <1>9, <2>1 DEF TraceInv, TraceKnown
  <2>2. \A i \in Kept' : Pending(i)' \/ trace'[i] \in Recorded'
    BY <1>5, <1>7, <2>1
  <2>3. \A i, j \in Kept' : i # j => Pending(i)' \/ Pending(j)' \/ trace'[i] # trace'[j]
    BY <1>5, <1>7, <2>1 DEF TraceInv, TraceKnown
  <2>4. ASSUME count' <= TraceMax, NEW x \in Recorded'
        PROVE  \E i \in Kept' : ~ Pending(i)' /\ trace'[i] = x
    <3>1. CASE x = e
      <4>1. k \in Kept
        BY <1>1, <1>4, <1>7, <2>4
      <4> QED BY <1>7, <1>8, <1>9, <3>1, <4>1
    <3>2. CASE x \in Recorded
      <4>1. PICK i \in Kept : ~ Pending(i) /\ trace[i] = x
        BY <1>1, <2>4, <3>2 DEF TraceInv, TraceKnown
      <4>2. i # k
        BY <1>3, <4>1 DEF Pending
      <4> QED BY <1>7, <1>8, <1>9, <4>1, <4>2
    <3> QED BY <1>5, <2>4, <3>1, <3>2
  <2> QED BY <2>2, <2>3, <2>4 DEF TraceKnown
<1>11. main = "join"
  BY <1>1 DEF TraceInv, TypeInv, HarnessTypeOK
<1> QED BY <1>1, <1>5, <1>6, <1>10, <1>11 DEF TraceInv

\* The trace is empty, and nothing was recorded, when main() starts.
LEMMA TraceInit ==
  ASSUME Init PROVE TraceInv
<1>1. OwnNets
  <2>1. \A t \in Threads : todo[t] = <<>> /\ <<>> \in Seq(Runs(t))
    BY DEF Init
  <2>2. \A t \in Threads : pc[t] = "start"
    BY DEF Init
  <2> QED BY Zenon, <2>1, <2>2 DEF OwnNets
<1>2. OwnEntries
  BY DEF Init, OwnEntries
<1>3. Kept = {}
  BY HarnessAssumption DEF Init, Kept
<1>4. Recorded = {}
  <2>1. RecordedAre
    BY <1>1, TypeInit, MembersOfRecorded
  <2>2. \A n \in Nets : iter[n] = 0
    BY DEF Init
  <2>3. \A t \in Threads : \A n, d : ~ Going(t, n, d)
    BY DEF Init, Going
  <2> QED BY <2>1, <2>2, <2>3 DEF RecordedAre
<1> QED BY <1>1, <1>2, <1>3, <1>4 DEF Init, TraceInv, TraceKnown

\* Only the threads touch the trace; main() has joined them when it dumps it.
LEMMA TraceStep ==
  ASSUME TypeInv, TypeInv', TraceInv, [Next]_vars PROVE TraceInv'
<1>1. ASSUME NEW t \in Threads, Step(t) PROVE TraceInv'
  BY <1>1, TraceQuiet, TraceSpin, TraceReserve, TraceRecord DEF Step
<1>2. ASSUME UNCHANGED <<build, pc, todo, disp, idx, iter, count, trace>>
      PROVE  OwnNets' /\ OwnEntries' /\ TraceKnown'
  <2>1. Threads' = Threads
    BY <1>2 DEF Threads
  <2>2. OwnNets' /\ OwnEntries'
    BY <1>2, <2>1 DEF TraceInv, OwnNets, OwnEntries
  <2>3. Recorded' = Recorded
    BY <1>2, <2>1 DEF Recorded, AllRuns, Begun
  <2> QED BY <1>2, <2>1, <2>2, <2>3, KnownFrame DEF TraceInv
<1>3. ASSUME NEW n \in Nets, Tick(n) PROVE TraceInv'
  BY <1>2, <1>3 DEF Tick, flags, work, TraceInv, Threads
<1>4. CASE Main
  BY <1>2, <1>4 DEF Main, flags, work, TraceInv, Threads, Joined
<1>5. CASE UNCHANGED vars
  BY <1>2, <1>5 DEF vars, flags, work, TraceInv, Threads
<1> QED BY <1>1, <1>3, <1>4, <1>5 DEF Next

\* Counting what is kept of the trace: as many entries as were taken, or as
\* there is room for.
LEMMA KeptEntriesCount ==
  ASSUME TypeInv, TraceKnown, \A i \in Kept : ~ Pending(i)
  PROVE  Cardinality(Dumped) = IF count < TraceMax THEN count ELSE TraceMax
<1> DEFINE m == IF count < TraceMax THEN count ELSE TraceMax
           f == [i \in Kept |-> trace[i]]
<1>1. count \in Nat /\ TraceMax \in Nat
  BY HarnessAssumption DEF TypeInv, HarnessTypeOK
<1>2. Kept = 0..m - 1 /\ m \in Nat
  BY <1>1 DEF Kept
<1>3. IsFiniteSet(Kept) /\ Cardinality(Kept) = m
  <2> HIDE DEF m
  <2> QED BY <1>2, FS_Interval
<1>4. Dumped = {trace[i] : i \in Kept}
  BY DEF Dumped, Kept
<1>5. f \in Bijection(Kept, Dumped)
  <2>1. f \in Surjection(Kept, Dumped)
    BY <1>4 DEF Surjection
  <2>2. \A i, j \in Kept : i # j => trace[i] # trace[j]
    BY DEF TraceKnown
  <2>3. f \in [Kept -> Dumped] /\ \A i \in Kept : f[i] = trace[i]
    BY <1>4
  <2> HIDE DEF f
  <2>4. f \in Injection(Kept, Dumped)
    BY <2>2, <2>3 DEF Injection, IsInjective
  <2> QED BY <2>1, <2>4 DEF Bijection
<1>6. ExistsBijection(Kept, Dumped)
  BY <1>5 DEF ExistsBijection
<1> QED BY <1>3, <1>6, FS_Bijection

\* When main() dumps the trace, every entry it dumps has been written by the
\* thread that took it, none is there twice, and if there was room for all,
\* every dispatch of every run is there (trace_record, emit_trace_block).
THEOREM TraceIsWhole == Spec => []TraceWhole
<1>1. TypeInv /\ TraceInv => TraceWhole
  <2> SUFFICES ASSUME TypeInv, TraceInv, main = "dump"
               PROVE  /\ Dumped \subseteq AllRuns
                      /\ Cardinality(Dumped) = IF count < TraceMax THEN count ELSE TraceMax
                      /\ count <= TraceMax => AllRuns = Dumped
    BY DEF TraceWhole
  <2>1. \A t \in Threads : pc[t] = "exit" /\ idx[t] = None
    BY DEF TraceInv, OwnEntries
  <2>2. Recorded = AllRuns
    BY <2>1 DEF Recorded
  <2>3. \A i \in Kept : ~ Pending(i)
    BY <2>1, HarnessAssumption DEF Pending, Kept
  <2>4. Dumped = {trace[i] : i \in Kept}
    BY DEF Dumped, Kept
  <2>5. TraceKnown
    BY DEF TraceInv
  <2>6. Dumped \subseteq AllRuns
    BY <2>2, <2>3, <2>4, <2>5 DEF TraceKnown
  <2>7. count <= TraceMax => AllRuns \subseteq Dumped
    BY <2>2, <2>4, <2>5 DEF TraceKnown
  <2> QED BY <2>3, <2>5, <2>6, <2>7, KeptEntriesCount
<1>2. Init => TraceInv
  BY TraceInit
<1>3. TypeInv /\ TypeInv' /\ TraceInv /\ [Next]_vars => TraceInv'
  BY TraceStep
<1> QED BY <1>1, <1>2, <1>3, TypeInit, TypeStep, PTL DEF Spec
=============================================================================
