--------------------------- MODULE DemoScenarioProofs ---------------------------
(***************************************************************************)
(* Proofs about DemoScenario and the EventSimulator processes it starts,   *)
(* for every set of scenarios and every value of the times.  Where an      *)
(* argument needs one time to be longer than another, the theorem says so. *)
(***************************************************************************)
EXTENDS DemoScenario, Integers, TLAPS

\* The script's own part of TypeOK.
DemoTypeOK ==
    /\ place \in {"next", "waiting", "cycle", "stopping", "cooling", "finished"}
    /\ turn \in 1..Len(Order) \/ (Over /\ turn = Len(Order) + 1)
    /\ demoTimer \in Nat
    /\ results \subseteq Scenarios

(***************************************************************************)
(* What a scenario injects follows from where the main thread and the      *)
(* scenario-runner thread are.                                             *)
(***************************************************************************)
Phases ==
    /\ main # "done" <=> restore = "unscheduled"
    /\ main = "inject" => anomaly = "NONE" /\ ~burst
    /\ main = "burst" => anomaly = Anomaly[scenario] /\ ~burst
    /\ main = "schedule" \/ restore = "waiting" =>
        anomaly = Anomaly[scenario] /\ burst = ErrorBurst[scenario]
    /\ restore \in {"clearing", "finished"} => anomaly = "NONE"
    /\ restore = "finished" => ~burst

\* How far a process can be follows from where the script is.
Lives ==
    /\ OneSimulator
    /\ place \in {"waiting", "cycle"} => life \in {"none", "booting", "running"}
    /\ place = "stopping" => life \in {"none", "blocked", "terminating", "closing"}
    /\ life = "blocked" => pipeFull
    /\ life \in {"none", "booting"} => main = "inject"
    /\ connected => sending = {}

\* The hook's wait and the script's began together, and time passes for both.
BothWait ==
    place = "stopping" /\ life = "terminating" =>
        timer["hook"] + StopTimeout <= demoTimer + ShutdownTimeout

IInv == SimTypeOK /\ DemoTypeOK /\ Phases /\ Lives /\ BothWait

-----------------------------------------------------------------------------
LEMMA InvInit == Init => IInv
<1> SUFFICES ASSUME Init PROVE IInv
    OBVIOUS
<1>1. Len(Order) \in Nat /\ Len(Order) >= 1
    BY DemoAssumption
<1>2. SimTypeOK
    BY DEF Init, SimInit, SimTypeOK, Stopped, AnomalyStates
<1>3. DemoTypeOK
    BY <1>1 DEF Init, DemoTypeOK
<1> QED
    BY <1>2, <1>3 DEF Init, SimInit, IInv, Phases, Lives, OneSimulator, Over, BothWait

\* When the process is gone, it is as if it had not been.
LEMMA ExitInv ==
    ASSUME IInv, Exit, DemoTypeOK'
    PROVE  IInv'
<1>1. /\ life' = "none" /\ timer' = Stopped /\ scenario' = scenario
      /\ main' = "inject" /\ anomaly' = "NONE" /\ burst' = FALSE /\ restore' = "unscheduled"
      /\ connected' = FALSE /\ sending' = {} /\ unacked' = FALSE /\ pipeFull' = FALSE
      /\ events' = {}
    BY DEF Exit, Blank
<1>2. SimTypeOK'
    BY <1>1 DEF IInv, SimTypeOK, Stopped, AnomalyStates
<1> QED
    BY <1>1, <1>2 DEF IInv, Phases, Lives, OneSimulator, BothWait

\* A demo script that does nothing keeps its types.
LEMMA DemoIdle ==
    ASSUME IInv, UNCHANGED demoVars
    PROVE  DemoTypeOK' /\ UNCHANGED <<place, turn, demoTimer, results>> /\ Over' = Over
BY DEF IInv, DemoTypeOK, demoVars, Over

\* The event a generator generates is one of the events there are.
LEMMA EventType ==
    ASSUME IInv, NEW g \in Generators
    PROVE  EventOf(g) \in Events
<1>1. anomaly \in AnomalyStates
    BY DEF IInv, SimTypeOK
<1>2. (CASE g = "metric" -> anomaly
         [] g = "log" -> IF burst THEN "burst" ELSE "calm"
         [] g = "heartbeat" -> "calm") \in AnomalyStates \cup {"burst", "calm"}
    BY <1>1 DEF Generators
<1> QED BY <1>2 DEF EventOf, Events

(***************************************************************************)
(* Steps that only change timers of the generators, or what is sent.       *)
(***************************************************************************)
LEMMA SendingInv ==
    ASSUME IInv, UNCHANGED demoVars,
           UNCHANGED <<life, scenario, main, anomaly, burst, restore>>,
           timer' \in [Timers -> Nat], timer'["hook"] = timer["hook"],
           connected' \in BOOLEAN, unacked' \in BOOLEAN, pipeFull' \in BOOLEAN,
           sending' \subseteq Generators, events' \subseteq Events,
           connected' => sending' = {},
           pipeFull => pipeFull'
    PROVE  IInv'
<1>1. /\ DemoTypeOK' /\ UNCHANGED <<place, turn, demoTimer, results>> /\ Over' = Over
    BY DemoIdle
<1>2. SimTypeOK'
    BY DEF IInv, SimTypeOK
<1> QED
    BY <1>1, <1>2 DEF IInv, Phases, Lives, OneSimulator, BothWait

LEMMA SimStepInv ==
    ASSUME IInv, SimStep, UNCHANGED demoVars
    PROVE  IInv'
<1> USE SimulatorAssumption
<1>0. DemoTypeOK' /\ UNCHANGED <<place, turn, demoTimer, results>> /\ Over' = Over
    BY DemoIdle
<1>1. CASE Boot
    <2>1. /\ life = "booting" /\ life' = "running"
          /\ timer' = [t \in Timers |-> IF t \in Generators THEN FirstRun[t] ELSE timer[t]]
          /\ UNCHANGED <<scenario, main, anomaly, burst, restore, connected, sending, unacked,
                         pipeFull, events>>
        BY <1>1 DEF Boot, Booted
    <2>2. timer' \in [Timers -> Nat]
        BY <2>1 DEF IInv, SimTypeOK
    <2>3. SimTypeOK'
        BY <2>1, <2>2 DEF IInv, SimTypeOK
    <2> QED
        BY <1>0, <2>1, <2>3 DEF IInv, Phases, Lives, OneSimulator, BothWait
<1>2. CASE InjectAnomaly
    <2>1. Anomaly[scenario] \in AnomalyStates
        BY DEF IInv, SimTypeOK
    <2> QED
        BY <1>0, <1>2, <2>1 DEF InjectAnomaly, IInv, SimTypeOK, Phases, Lives, OneSimulator,
            BothWait
<1>3. CASE StartBurst
    <2>1. ErrorBurst[scenario] \in BOOLEAN
        BY DEF IInv, SimTypeOK
    <2>2. /\ life = "running" /\ main = "burst" /\ main' = "schedule"
          /\ burst' = (ErrorBurst[scenario] \/ burst)
          /\ UNCHANGED <<life, scenario, anomaly, restore, timer, connected, sending, unacked,
                         pipeFull, events>>
        BY <1>3 DEF StartBurst
    <2>3. burst' = ErrorBurst[scenario]
        BY <2>1, <2>2, Zenon DEF IInv, Phases
    <2>4. SimTypeOK'
        BY <2>1, <2>2, <2>3 DEF IInv, SimTypeOK
    <2> QED
        BY <1>0, <2>2, <2>3, <2>4 DEF IInv, Phases, Lives, OneSimulator, BothWait
<1>4. CASE ScheduleRestore
    <2>1. /\ life = "running" /\ main = "schedule" /\ main' = "done" /\ restore' = "waiting"
          /\ timer' = [timer EXCEPT !["restore"] = Duration[scenario]]
          /\ UNCHANGED <<life, scenario, anomaly, burst, connected, sending, unacked, pipeFull,
                         events>>
        BY <1>4 DEF ScheduleRestore
    <2>2. timer' \in [Timers -> Nat]
        BY <2>1 DEF IInv, SimTypeOK
    <2>3. SimTypeOK'
        BY <2>1, <2>2 DEF IInv, SimTypeOK
    <2> QED
        BY <1>0, <2>1, <2>3 DEF IInv, Phases, Lives, OneSimulator, BothWait
<1>5. CASE ClearAnomaly
    BY <1>0, <1>5 DEF ClearAnomaly, IInv, SimTypeOK, AnomalyStates, Phases, Lives, OneSimulator,
        BothWait
<1>6. CASE ClearBurst
    BY <1>0, <1>6 DEF ClearBurst, IInv, SimTypeOK, Phases, Lives, OneSimulator, BothWait
<1>7. ASSUME NEW g \in Generators, Generate(g) PROVE IInv'
    <2>1. EventOf(g) \in Events
        BY EventType
    <2>2. /\ events' = events \cup {EventOf(g)}
          /\ timer' = [timer EXCEPT ![g] = Period[g]]
          /\ \/ connected /\ unacked' = TRUE /\ sending' = sending
             \/ ~connected /\ sending' = sending \cup {g} /\ unacked' = unacked
          /\ UNCHANGED <<life, scenario, main, anomaly, burst, restore, connected, pipeFull>>
        BY <1>7 DEF Generate
    <2>3. timer' \in [Timers -> Nat] /\ timer'["hook"] = timer["hook"]
        BY <2>2 DEF IInv, SimTypeOK, Timers, Generators
    <2> QED
        BY <2>1, <2>2, <2>3, SendingInv DEF IInv, SimTypeOK, Lives
<1>8. CASE Drain
    BY <1>0, <1>8 DEF Drain, Drained, IInv, SimTypeOK, Phases, Lives, OneSimulator, BothWait
<1>9. CASE Close
    BY <1>0, <1>9, ExitInv DEF Close
<1> QED
    BY <1>1, <1>2, <1>3, <1>4, <1>5, <1>6, <1>7, <1>8, <1>9 DEF SimStep

LEMMA EnvironmentInv ==
    ASSUME IInv, Environment, UNCHANGED demoVars
    PROVE  IInv'
<1>1. CASE Connect
    BY <1>1, SendingInv DEF Connect, IInv, SimTypeOK
<1>2. ASSUME NEW g \in Generators, SendFails(g) PROVE IInv'
    BY <1>2, SendingInv DEF SendFails, IInv, SimTypeOK, Lives
<1>3. CASE Acknowledge
    BY <1>3, SendingInv DEF Acknowledge, IInv, SimTypeOK, Lives
<1>4. CASE Dies
    BY <1>4, DemoIdle, ExitInv DEF Dies
<1>5. CASE PipeFills
    BY <1>5, SendingInv DEF PipeFills, IInv, SimTypeOK, Lives
<1> QED
    BY <1>1, <1>2, <1>3, <1>4, <1>5 DEF Environment, Outside

\* The current scenario is one of the scenarios, unless the demo is over.
LEMMA CurrentIs ==
    ASSUME IInv, ~Over
    PROVE  /\ Current \in Scenarios /\ turn \in 1..Len(Order) /\ Len(Order) \in Nat
           /\ Wait[Current] \in Nat
<1>1. turn \in 1..Len(Order)
    BY DEF IInv, DemoTypeOK
<1>2. Len(Order) \in Nat /\ Order[turn] \in Scenarios
    BY <1>1, DemoAssumption
<1> QED BY <1>1, <1>2, DemoAssumption DEF Current

LEMMA DemoStepInv ==
    ASSUME IInv, DemoStep
    PROVE  IInv'
<1> USE DemoAssumption
<1>1. CASE StartSimulator
    <2>1. /\ place = "next" /\ place' = "waiting" /\ demoTimer' = Wait[Current]
          /\ UNCHANGED <<turn, results>>
          /\ life' = "booting" /\ scenario' = Current
          /\ main' = "inject" /\ anomaly' = "NONE" /\ burst' = FALSE /\ restore' = "unscheduled"
          /\ connected' = FALSE /\ sending' = {} /\ unacked' = FALSE /\ pipeFull' = FALSE
          /\ events' = {}
        BY <1>1 DEF StartSimulator, Launch, Blank
    <2>2. ~Over /\ ~Over'
        BY <2>1 DEF Over
    <2>3. timer' \in [Timers -> Nat]
        <3>1. PICK b \in 0..MaxBoot : timer' = [Stopped EXCEPT !["boot"] = b]
            BY <1>1 DEF StartSimulator, Launch
        <3>2. b \in Nat
            BY SimulatorAssumption
        <3>3. Stopped \in [Timers -> Nat]
            BY DEF Stopped
        <3> QED BY <3>1, <3>2, <3>3
    <2>4. SimTypeOK'
        BY <2>1, <2>2, <2>3, CurrentIs DEF SimTypeOK, AnomalyStates
    <2>5. DemoTypeOK'
        BY <2>1, <2>2, CurrentIs DEF IInv, DemoTypeOK
    <2> QED
        BY <2>1, <2>2, <2>4, <2>5 DEF IInv, Phases, Lives, OneSimulator, BothWait
<1>2. CASE StartFails
    <2>1. /\ place = "next" /\ place' = "cooling" /\ demoTimer' = Cooldown
          /\ results' = results \cup {Current} /\ UNCHANGED turn
          /\ UNCHANGED simVars
        BY <1>2 DEF StartFails, Cool
    <2>2. ~Over /\ ~Over'
        BY <2>1 DEF Over
    <2>3. DemoTypeOK'
        BY <2>1, <2>2, CurrentIs DEF IInv, DemoTypeOK
    <2> QED
        BY <2>1, <2>2, <2>3 DEF simVars, IInv, SimTypeOK, Phases, Lives, OneSimulator, BothWait
<1>3. CASE BeginCycle
    <2>1. /\ place = "waiting" /\ place' = "cycle" /\ UNCHANGED <<turn, demoTimer, results>>
          /\ UNCHANGED simVars
        BY <1>3 DEF BeginCycle
    <2>2. ~Over /\ ~Over'
        BY <2>1 DEF Over
    <2>3. DemoTypeOK'
        BY <2>1, <2>2 DEF IInv, DemoTypeOK
    <2> QED
        BY <2>1, <2>2, <2>3 DEF simVars, IInv, SimTypeOK, Phases, Lives, OneSimulator, BothWait
<1>4. CASE Reap
    <2>1. /\ place = "stopping" /\ life = "none" /\ place' = "cooling" /\ demoTimer' = Cooldown
          /\ results' = results \cup {Current} /\ UNCHANGED turn
          /\ UNCHANGED simVars
        BY <1>4 DEF Reap, Cool
    <2>2. ~Over /\ ~Over'
        BY <2>1 DEF Over
    <2>3. DemoTypeOK'
        BY <2>1, <2>2, CurrentIs DEF IInv, DemoTypeOK
    <2> QED
        BY <2>1, <2>2, <2>3 DEF simVars, IInv, SimTypeOK, Phases, Lives, OneSimulator, BothWait
<1>5. CASE KillSimulator
    BY <1>5, DemoIdle, ExitInv DEF KillSimulator
<1>6. CASE NextScenario
    <2>1. /\ place = "cooling" /\ turn' = turn + 1
          /\ place' = IF turn < Len(Order) THEN "next" ELSE "finished"
          /\ UNCHANGED <<demoTimer, results>> /\ UNCHANGED simVars
        BY <1>6 DEF NextScenario
    <2>2. ~Over
        BY <2>1 DEF Over
    <2>3. turn' \in 1..Len(Order) \/ (Over' /\ turn' = Len(Order) + 1)
        BY <2>1, <2>2, CurrentIs DEF Over
    <2>4. DemoTypeOK'
        BY <2>1, <2>3 DEF IInv, DemoTypeOK
    <2>5. life = "none" /\ place' # "stopping" /\ place' \notin {"waiting", "cycle"}
        BY <2>1 DEF IInv, Lives, OneSimulator
    <2> QED
        BY <2>1, <2>4, <2>5 DEF simVars, IInv, SimTypeOK, Phases, Lives, OneSimulator, BothWait
<1> QED
    BY <1>1, <1>2, <1>3, <1>4, <1>5, <1>6 DEF DemoStep

LEMMA EndCycleInv ==
    ASSUME IInv, EndCycle
    PROVE  IInv'
<1> USE DemoAssumption, SimulatorAssumption
<1>1. place = "cycle"
    BY DEF EndCycle
<1>2. ~Over
    BY <1>1 DEF Over
<1>3. CASE life = "none"
    <2>1. /\ place' = "cooling" /\ demoTimer' = Cooldown
          /\ results' = results \cup {Current} /\ UNCHANGED turn
          /\ UNCHANGED simVars
        BY <1>3 DEF EndCycle, Cool
    <2>2. DemoTypeOK' /\ ~Over'
        BY <1>1, <1>2, <2>1, CurrentIs DEF IInv, DemoTypeOK, Over
    <2> QED
        BY <1>1, <1>3, <2>1, <2>2 DEF simVars, IInv, SimTypeOK, Phases, Lives, OneSimulator, BothWait
<1>4. CASE life # "none"
    <2>1. /\ Terminate /\ place' = "stopping" /\ demoTimer' = StopTimeout
          /\ UNCHANGED <<turn, results>>
        BY <1>4 DEF EndCycle
    <2>2. DemoTypeOK' /\ ~Over'
        BY <1>1, <1>2, <2>1 DEF IInv, DemoTypeOK, Over
    <2>3. CASE life = "booting"
        BY <2>1, <2>2, <2>3, ExitInv DEF Terminate
    <2>4. CASE life # "booting"
        <3>1. /\ life' = IF pipeFull THEN "blocked" ELSE "terminating"
              /\ timer' = [timer EXCEPT !["hook"] = ShutdownTimeout]
              /\ UNCHANGED <<scenario, main, anomaly, burst, restore, connected, sending, unacked,
                             pipeFull, events>>
            BY <2>1, <2>4 DEF Terminate
        <3>2. timer' \in [Timers -> Nat] /\ timer'["hook"] = ShutdownTimeout
            BY <3>1 DEF IInv, SimTypeOK, Timers
        <3>3. SimTypeOK'
            BY <3>1, <3>2 DEF IInv, SimTypeOK
        <3> QED
            BY <2>1, <2>2, <3>1, <3>2, <3>3 DEF IInv, Phases, Lives, OneSimulator, BothWait
    <2> QED BY <2>3, <2>4
<1> QED BY <1>3, <1>4

\* Time passes only for timers that are running, and when nothing is due.
LEMMA TickIs ==
    ASSUME IInv, Tick
    PROVE  /\ ~Urgent /\ ~DemoUrgent /\ ~Over
           /\ timer' \in [Timers -> Nat]
           /\ \A t \in Timers : timer'[t] = IF timer[t] = 0 THEN 0 ELSE timer[t] - 1
           /\ demoTimer' = IF demoTimer = 0 THEN 0 ELSE demoTimer - 1
           /\ UNCHANGED <<place, turn, results>>
           /\ UNCHANGED <<life, scenario, main, anomaly, burst, restore, connected, sending,
                          unacked, pipeFull, events>>
<1>1. timer \in [Timers -> Nat]
    BY DEF IInv, SimTypeOK
<1>2. timer' = [t \in Timers |-> IF timer[t] = 0 THEN 0 ELSE timer[t] - 1]
    BY DEF Tick, SimTick
<1>3. \A t \in Timers : (IF timer[t] = 0 THEN 0 ELSE timer[t] - 1) \in Nat
    BY <1>1
<1>4. timer' \in [Timers -> Nat]
    BY <1>2, <1>3
<1> QED BY <1>2, <1>4 DEF Tick, SimTick

LEMMA TickInv ==
    ASSUME IInv, Tick
    PROVE  IInv'
<1> USE TickIs
<1>1. SimTypeOK'
    BY DEF IInv, SimTypeOK
<1>2. DemoTypeOK' /\ Over' = Over
    BY DEF IInv, DemoTypeOK, Over
<1>3. BothWait'
    <2> SUFFICES ASSUME place = "stopping", life = "terminating"
                 PROVE  timer'["hook"] + StopTimeout <= demoTimer' + ShutdownTimeout
        BY DEF BothWait
    <2>1. timer["hook"] # 0 /\ demoTimer # 0
        BY DEF Urgent, Drained, DemoUrgent
    <2>2. "hook" \in Timers /\ timer["hook"] \in Nat /\ demoTimer \in Nat
        BY DEF Timers, IInv, SimTypeOK, DemoTypeOK
    <2>3. timer["hook"] + StopTimeout <= demoTimer + ShutdownTimeout
        BY DEF IInv, BothWait
    <2>4. timer'["hook"] = timer["hook"] - 1 /\ demoTimer' = demoTimer - 1
        BY <2>1, <2>2
    <2>5. ShutdownTimeout \in Nat /\ StopTimeout \in Nat
        BY DemoAssumption, SimulatorAssumption
    <2> DEFINE h == timer["hook"]
               hh == timer'["hook"]
    <2>6. h \in Nat /\ hh = h - 1 /\ h + StopTimeout <= demoTimer + ShutdownTimeout
        BY <2>2, <2>3, <2>4
    <2> HIDE DEF h, hh
    <2>7. hh + StopTimeout <= demoTimer' + ShutdownTimeout
        BY ONLY <2>2, <2>4, <2>5, <2>6
    <2> QED BY <2>7 DEF hh
<1> QED
    BY <1>1, <1>2, <1>3 DEF IInv, Phases, Lives, OneSimulator

LEMMA InvNext == IInv /\ [Next]_vars => IInv'
<1> SUFFICES ASSUME IInv, [Next]_vars PROVE IInv'
    OBVIOUS
<1>1. CASE UNCHANGED vars
    BY <1>1 DEF vars, simVars, demoVars, IInv, SimTypeOK, DemoTypeOK, Over, Phases, Lives,
        OneSimulator, BothWait
<1> QED
    BY <1>1, SimStepInv, EnvironmentInv, DemoStepInv, EndCycleInv, TickInv DEF Next, Step, Done

LEMMA Invariance == Spec => []IInv
BY InvInit, InvNext, PTL DEF Spec

-----------------------------------------------------------------------------
(***************************************************************************)
(* The script never runs past its scenarios, and the simulator's threads   *)
(* and timers keep their types.                                            *)
(***************************************************************************)
THEOREM TypeCorrect == Spec => []TypeOK
<1>1. IInv => TypeOK
    BY DEF IInv, DemoTypeOK, TypeOK
<1> QED BY <1>1, Invariance, PTL

(***************************************************************************)
(* Whatever the durations and timeouts, no simulator outlives its scenario.*)
(***************************************************************************)
THEOREM OneAtATime == Spec => []OneSimulator
<1>1. IInv => OneSimulator
    BY DEF IInv, Lives
<1> QED BY <1>1, Invariance, PTL

(***************************************************************************)
(* Whatever the durations, what is injected is on its way to be restored.  *)
(***************************************************************************)
THEOREM RestoreIsComing == Spec => []InjectedHasEnd
<1>1. IInv => InjectedHasEnd
    BY DEF IInv, SimTypeOK, Phases, InjectedHasEnd
<1> QED BY <1>1, Invariance, PTL

(***************************************************************************)
(* If the script waits longer for the process than the process for its     *)
(* threads, only the broker or a full pipe gets a simulator killed.        *)
(***************************************************************************)
THEOREM StopFits ==
    ASSUME HookFits
    PROVE  Spec => KilledOnlyByBroker
<1>1. ASSUME IInv
      PROVE  place = "stopping" /\ place' = "stopping" /\ demoTimer = 0 /\ life' = "none"
                => life \in {"none", "closing"} \/ pipeFull
    <2> SUFFICES ASSUME place = "stopping", demoTimer = 0, life \notin {"none", "closing"}
                 PROVE  pipeFull
        OBVIOUS
    <2>1. life \in {"blocked", "terminating"}
        BY <1>1 DEF IInv, Lives
    <2>2. life # "terminating"
        <3>1. timer["hook"] \in Nat
            BY <1>1 DEF IInv, SimTypeOK, Timers
        <3> QED BY <1>1, <3>1, DemoAssumption, SimulatorAssumption DEF IInv, BothWait, HookFits
    <2> QED BY <1>1, <2>1, <2>2 DEF IInv, Lives
<1> QED BY <1>1, Invariance, PTL DEF Spec, KilledOnlyByBroker

-----------------------------------------------------------------------------
\* The metric of the scenario's anomaly.
AnomalousMetric == [from |-> "metric", mode |-> Anomaly[scenario]]

(***************************************************************************)
(* While the script waits, what is left of its wait bounds what is left of *)
(* the boot, of the scenario, and of the time to the next metric.          *)
(***************************************************************************)
OnTime ==
    place = "waiting" =>
        /\ demoTimer <= Wait[scenario]
        /\ life = "booting" => timer["boot"] + Wait[scenario] <= demoTimer + MaxBoot
        /\ life = "running" /\ main # "done" =>
            /\ Wait[scenario] <= demoTimer + MaxBoot
            /\ timer["metric"] <= FirstRun["metric"] \/ timer["metric"] <= Period["metric"]
        /\ life = "running" /\ main = "done" =>
            /\ restore = "waiting" /\ demoTimer < timer["restore"]
            /\ AnomalousMetric \in events \/ timer["metric"] <= demoTimer

\* The numbers OnTime compares.
LEMMA TimesAre ==
    ASSUME IInv
    PROVE  /\ demoTimer \in Nat /\ timer["boot"] \in Nat /\ timer["restore"] \in Nat
           /\ timer["metric"] \in Nat /\ timer \in [Timers -> Nat]
           /\ {"boot", "restore", "hook", "metric"} \subseteq Timers /\ "metric" \in Generators
           /\ scenario \in Scenarios /\ Wait[scenario] \in Nat /\ Duration[scenario] \in Nat
           /\ MaxBoot \in Nat /\ FirstRun["metric"] \in Nat /\ Period["metric"] \in Nat
BY SimulatorAssumption, DemoAssumption DEF IInv, SimTypeOK, DemoTypeOK, Timers, Generators

LEMMA OnTimeStep ==
    ASSUME WaitsFit, IInv, OnTime, [Next]_vars
    PROVE  OnTime'
<1> USE TimesAre
<1>1. CASE SimStep /\ UNCHANGED demoVars
    <2> SUFFICES ASSUME place = "waiting" PROVE OnTime'
        BY <1>1 DEF demoVars, OnTime
    <2>0. UNCHANGED <<place, demoTimer>> /\ life \in {"none", "booting", "running"}
        BY <1>1 DEF demoVars, IInv, Lives
    <2>1. CASE Boot
        <3>1. /\ life = "booting" /\ timer["boot"] = 0 /\ life' = "running"
              /\ timer' = [t \in Timers |-> IF t \in Generators THEN FirstRun[t] ELSE timer[t]]
              /\ UNCHANGED <<scenario, main>>
            BY <2>1 DEF Boot, Booted
        <3>2. timer'["metric"] = FirstRun["metric"] /\ main = "inject"
            BY <3>1 DEF IInv, Lives
        <3> QED BY <2>0, <3>1, <3>2 DEF OnTime
    <2>2. CASE InjectAnomaly \/ StartBurst
        <3>1. main # "done" /\ main' # "done" /\ UNCHANGED <<life, scenario, timer>>
            BY <2>2 DEF InjectAnomaly, StartBurst
        <3> QED BY <2>0, <3>1 DEF OnTime
    <2>3. CASE ScheduleRestore
        <3>1. /\ life = "running" /\ main = "schedule" /\ main' = "done" /\ restore' = "waiting"
              /\ timer' = [timer EXCEPT !["restore"] = Duration[scenario]]
              /\ UNCHANGED <<life, scenario, events>>
            BY <2>3 DEF ScheduleRestore
        <3>2. timer'["restore"] = Duration[scenario] /\ timer'["metric"] = timer["metric"]
            BY <3>1
        <3>3. timer["metric"] <= demoTimer /\ demoTimer < Duration[scenario]
            BY <3>1 DEF OnTime, WaitsFit
        <3> QED BY <2>0, <3>1, <3>2, <3>3 DEF OnTime
    <2>4. ~ClearAnomaly /\ ~ClearBurst
        <3>1. restore \in {"waiting", "clearing"} => life = "running" /\ main = "done"
            BY <2>0 DEF IInv, Lives, Phases
        <3> QED BY <3>1 DEF ClearAnomaly, ClearBurst, OnTime
    <2>5. ASSUME NEW g \in Generators, Generate(g) PROVE OnTime'
        <3>1. /\ life \in {"running", "blocked"}
              /\ events' = events \cup {EventOf(g)}
              /\ timer' = [timer EXCEPT ![g] = Period[g]]
              /\ UNCHANGED <<life, scenario, main, restore>>
            BY <2>5 DEF Generate, GeneratorDue
        <3>2. timer'["restore"] = timer["restore"]
              /\ (g # "metric" => timer'["metric"] = timer["metric"])
              /\ (g = "metric" => timer'["metric"] = Period["metric"])
            BY <3>1 DEF Timers, Generators
        <3>3. g = "metric" /\ restore = "waiting" => AnomalousMetric \in events'
            BY <3>1 DEF IInv, Phases, AnomalousMetric, EventOf
        <3>4. AnomalousMetric \in events => AnomalousMetric' \in events'
            BY <3>1 DEF AnomalousMetric
        <3>5. AnomalousMetric' = AnomalousMetric
            BY <3>1 DEF AnomalousMetric
        <3> QED BY <2>0, <3>1, <3>2, <3>3, <3>4, <3>5 DEF OnTime
    <2>6. CASE Drain
        BY <2>0, <2>6 DEF Drain, Drained
    <2>7. CASE Close
        BY <2>0, <2>7 DEF Close, Closed
    <2> QED
        BY <1>1, <2>1, <2>2, <2>3, <2>4, <2>5, <2>6, <2>7 DEF SimStep
<1>2. CASE Environment /\ UNCHANGED demoVars
    <2>1. UNCHANGED <<place, demoTimer>>
        BY <1>2 DEF demoVars
    <2>2. CASE Dies
        BY <2>1, <2>2 DEF Dies, Exit, OnTime
    <2>3. CASE ~Dies
        <3>1. UNCHANGED <<life, scenario, main, restore, timer, events>>
            BY <1>2, <2>3 DEF Environment, Outside, Connect, SendFails, Acknowledge, PipeFills
        <3> QED BY <2>1, <3>1 DEF OnTime, AnomalousMetric
    <2> QED BY <2>2, <2>3
<1>3. CASE DemoStep
    <2>1. CASE StartSimulator
        <3>1. /\ demoTimer' = Wait[Current] /\ life' = "booting" /\ scenario' = Current
              /\ place = "next"
            BY <2>1 DEF StartSimulator, Launch
        <3>2. PICK b \in 0..MaxBoot : timer' = [Stopped EXCEPT !["boot"] = b]
            BY <2>1 DEF StartSimulator, Launch
        <3>3. timer'["boot"] = b
            BY <3>2 DEF Stopped
        <3>4. Wait[Current] \in Nat
            BY <3>1, CurrentIs DEF Over
        <3> QED BY <3>1, <3>3, <3>4 DEF OnTime
    <2>2. CASE StartFails \/ BeginCycle \/ Reap \/ KillSimulator \/ NextScenario
        <3>1. place' # "waiting"
            BY <2>2 DEF StartFails, BeginCycle, Reap, KillSimulator, NextScenario, Cool, demoVars
        <3> QED BY <3>1 DEF OnTime
    <2> QED BY <1>3, <2>1, <2>2 DEF DemoStep
<1>4. CASE EndCycle
    BY <1>4 DEF EndCycle, Cool, OnTime
<1>5. CASE Tick
    <2> SUFFICES ASSUME place = "waiting" PROVE OnTime'
        BY <1>5, TickIs DEF OnTime
    <2>1. /\ ~Urgent /\ demoTimer # 0 /\ UNCHANGED <<place, life, scenario, main, restore, events>>
          /\ demoTimer' = demoTimer - 1
          /\ \A t \in Timers : timer'[t] = IF timer[t] = 0 THEN 0 ELSE timer[t] - 1
        BY <1>5, TickIs DEF DemoUrgent
    <2>2. AnomalousMetric' = AnomalousMetric
        BY <2>1 DEF AnomalousMetric
    <2>3. CASE life = "booting"
        <3>1. timer["boot"] # 0
            BY <2>1, <2>3 DEF Urgent, Booted
        <3> QED BY <2>1, <2>3, <3>1 DEF OnTime
    <2>4. CASE life = "running"
        <3>1. main = "done"
            BY <2>1, <2>4 DEF Urgent
        <3>2. timer'["restore"] = timer["restore"] - 1
            BY <2>1, <2>4, <3>1 DEF OnTime
        <3> QED BY <2>1, <2>2, <2>4, <3>1, <3>2 DEF OnTime
    <2>5. CASE life \notin {"booting", "running"}
        BY <2>1, <2>5 DEF OnTime
    <2> QED BY <2>3, <2>4, <2>5
<1>6. CASE UNCHANGED vars
    BY <1>6 DEF vars, simVars, demoVars, OnTime, AnomalousMetric
<1> QED
    BY <1>1, <1>2, <1>3, <1>4, <1>5, <1>6 DEF Next, Step, Done

(***************************************************************************)
(* If the times fit, the agent's cycle begins when what it is asked to find*)
(* has been injected and, unless the broker held it up, generated.         *)
(***************************************************************************)
THEOREM ScenarioIsSeen ==
    ASSUME WaitsFit
    PROVE  Spec => AgentSeesScenario
<1>1. Init => OnTime
    BY DEF Init, OnTime
<1>2. IInv /\ OnTime /\ [Next]_vars => OnTime'
    BY OnTimeStep
<1>3. ASSUME IInv, OnTime, [Next]_vars
      PROVE  place = "waiting" /\ place' = "cycle" /\ life # "none" => Injected
    <2> SUFFICES ASSUME place = "waiting", place' = "cycle", life # "none" PROVE Injected
        OBVIOUS
    <2>1. demoTimer = 0
        BY <1>3 DEF Next, Step, demoVars, DemoStep, StartSimulator, StartFails, BeginCycle, Reap,
            KillSimulator, NextScenario, Cool, EndCycle, Tick, Done, vars
    <2>2. life \in {"booting", "running"}
        BY <1>3 DEF IInv, Lives
    <2>3. life = "running" /\ main = "done"
        BY <1>3, <2>1, <2>2, TimesAre DEF OnTime, WaitsFit
    <2>4. /\ restore = "waiting"
          /\ AnomalousMetric \in events \/ timer["metric"] = 0
        BY <1>3, <2>1, <2>3, TimesAre DEF OnTime
    <2>5. anomaly = Anomaly[scenario] /\ burst = ErrorBurst[scenario]
        BY <1>3, <2>4 DEF IInv, Phases
    <2>6. connected /\ timer["metric"] = 0 => GeneratorDue("metric")
        BY <1>3, <2>3 DEF IInv, Lives, GeneratorDue
    <2> QED BY <2>4, <2>5, <2>6 DEF Injected, AnomalousMetric
<1> QED
    BY <1>1, <1>2, <1>3, Invariance, PTL DEF Spec, AgentSeesScenario
=================================================================================
