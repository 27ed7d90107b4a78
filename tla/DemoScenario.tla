----------------------------- MODULE DemoScenario -----------------------------
(***************************************************************************)
(* scripts/demo_scenario.py --all and the simulator processes it starts:   *)
(* for each scenario a simulator, a wait, one monitoring cycle of the      *)
(* agent, the end of the simulator (SIGTERM, then SIGKILL) and a pause.    *)
(* A cycle takes any time.  It returns, with a report or none, or it       *)
(* raises: the script's finally stops the simulator, and its summary has   *)
(* an entry either way.  Files are left out; their directory, demo-output, *)
(* is in every checkout, with the examples.                                *)
(***************************************************************************)
EXTENDS EventSimulator, Sequences

CONSTANTS
    Order,          \* SCENARIOS
    Wait,           \* SCENARIO_WAIT_SECONDS
    StopTimeout,    \* of proc.wait in stop_simulator
    Cooldown        \* the pause between scenarios

ASSUME DemoAssumption ==
    /\ Order \in Seq(Scenarios) /\ Order # << >>
    /\ Wait \in [Scenarios -> Nat]
    /\ StopTimeout \in Nat /\ Cooldown \in Nat

(***************************************************************************)
(* The times of the scenarios fit together: a process is up before the     *)
(* script's wait is over, with the time of one more metric to spare, and   *)
(* the scenario lasts longer than the wait.                                *)
(***************************************************************************)
WaitsFit ==
    \A s \in Scenarios :
        /\ MaxBoot < Wait[s] /\ Wait[s] < Duration[s]
        /\ MaxBoot + FirstRun["metric"] <= Wait[s]
        /\ MaxBoot + Period["metric"] <= Wait[s]

\* The simulator's own shutdown is shorter than the script's patience with it.
HookFits == ShutdownTimeout < StopTimeout

VARIABLES
    place,      \* "next", "waiting", "cycle", "stopping", "cooling" or "finished"
    turn,       \* the place of the scenario in Order
    demoTimer,  \* what is left of the wait, the timeout or the pause
    results     \* the scenarios the summary has an entry for

demoVars == <<place, turn, demoTimer, results>>
vars == <<simVars, demoVars>>

Current == Order[turn]

Init ==
    /\ SimInit
    /\ place = "next" /\ turn = 1 /\ demoTimer = 0 /\ results = {}

-----------------------------------------------------------------------------
\* The scenario is over, with its entry in the results; then the pause.
Cool ==
    /\ place' = "cooling" /\ demoTimer' = Cooldown
    /\ results' = results \cup {Current}
    /\ UNCHANGED turn

StartSimulator ==
    /\ place = "next"
    /\ Launch(Current)
    /\ place' = "waiting" /\ demoTimer' = Wait[Current]
    /\ UNCHANGED <<turn, results>>

\* Popen raises (no java): there is nothing to stop.
StartFails ==
    /\ place = "next"
    /\ Cool
    /\ UNCHANGED simVars

BeginCycle ==
    /\ place = "waiting" /\ demoTimer = 0
    /\ place' = "cycle"
    /\ UNCHANGED <<turn, demoTimer, results, simVars>>

\* A script without the finally: a cycle that raises leaves the simulator running.
EndCycleOrRaise ==
    /\ place = "cycle"
    /\ \/ /\ life # "none"
          /\ Terminate
          /\ place' = "stopping" /\ demoTimer' = StopTimeout
          /\ UNCHANGED <<turn, results>>
       \/ Cool /\ UNCHANGED simVars

\* The cycle returns or raises; stop_simulator, unless the process has died.
EndCycle ==
    /\ place = "cycle"
    /\ IF life = "none"
       THEN Cool /\ UNCHANGED simVars
       ELSE /\ Terminate
            /\ place' = "stopping" /\ demoTimer' = StopTimeout
            /\ UNCHANGED <<turn, results>>

\* wait() returns: the process is gone, of itself or killed.
Reap ==
    /\ place = "stopping" /\ life = "none"
    /\ Cool
    /\ UNCHANGED simVars

\* A stop that trusts a process that has begun to close.
KillUnlessClosing ==
    /\ place = "stopping" /\ demoTimer = 0 /\ life \notin {"none", "closing"}
    /\ Exit
    /\ UNCHANGED demoVars

\* The wait times out: SIGKILL, and wait again.
KillSimulator ==
    /\ place = "stopping" /\ demoTimer = 0 /\ life # "none"
    /\ Exit
    /\ UNCHANGED demoVars

\* A pause after which one scenario more is started than there are.
NextScenarioPastEnd ==
    /\ place = "cooling" /\ demoTimer = 0
    /\ turn' = turn + 1
    /\ place' = IF turn > Len(Order) THEN "finished" ELSE "next"
    /\ UNCHANGED <<demoTimer, results, simVars>>

\* The next scenario, or the summary and the end.
NextScenario ==
    /\ place = "cooling" /\ demoTimer = 0
    /\ turn' = turn + 1
    /\ place' = IF turn < Len(Order) THEN "next" ELSE "finished"
    /\ UNCHANGED <<demoTimer, results, simVars>>

DemoStep ==
    StartSimulator \/ StartFails \/ BeginCycle \/ Reap \/ KillSimulator \/ NextScenario

\* The script has something to do that takes no time.
DemoUrgent ==
    \/ place = "next"
    \/ place \in {"waiting", "cooling"} /\ demoTimer = 0
    \/ place = "stopping" /\ (demoTimer = 0 \/ life = "none")

Over == place = "finished"

Tick ==
    /\ ~Urgent /\ ~DemoUrgent /\ ~Over
    /\ SimTick
    /\ demoTimer' = IF demoTimer = 0 THEN 0 ELSE demoTimer - 1
    /\ UNCHANGED <<place, turn, results>>

Done == Over /\ UNCHANGED vars

Step == (SimStep /\ UNCHANGED demoVars) \/ DemoStep \/ Tick

Environment == Outside \/ (place = "cycle" /\ PipeFills)

Next == Step \/ (Environment /\ UNCHANGED demoVars) \/ EndCycle \/ Done

Spec == Init /\ [][Next]_vars

(***************************************************************************)
(* Time passes, and what is due is done; a cycle of the agent ends         *)
(* (MonitorCycle's CycleEnds).  The broker may stay silent for ever.       *)
(***************************************************************************)
FairSpec == Spec /\ WF_vars(Step) /\ WF_vars(EndCycle)

-----------------------------------------------------------------------------
TypeOK ==
    /\ SimTypeOK
    /\ place \in {"next", "waiting", "cycle", "stopping", "cooling", "finished"}
    /\ turn \in 1..Len(Order) \/ (Over /\ turn = Len(Order) + 1)
    /\ demoTimer \in Nat
    /\ results \subseteq Scenarios

(***************************************************************************)
(* No simulator outlives its scenario, whichever way the cycle ended and   *)
(* whether the process obeyed SIGTERM: two of them would write into the    *)
(* same topic, the normal values of one over the anomaly of the other.     *)
(***************************************************************************)
OneSimulator == place \in {"next", "cooling"} \/ Over => life = "none"

(***************************************************************************)
(* What the agent is asked to find is there when its cycle begins: the     *)
(* script's wait is long enough for the process to be up and shorter than  *)
(* the scenario, and unless the broker holds the generator up, metrics of  *)
(* the anomaly have been generated.                                        *)
(***************************************************************************)
Injected ==
    /\ anomaly = Anomaly[scenario] /\ burst = ErrorBurst[scenario]
    /\ connected /\ ~GeneratorDue("metric")
        => [from |-> "metric", mode |-> Anomaly[scenario]] \in events

AgentSeesScenario ==
    [][place = "waiting" /\ place' = "cycle" /\ life # "none" => Injected]_vars

(***************************************************************************)
(* A simulator is killed only while its producer waits for the broker, or  *)
(* if it cannot write its log: the wait for the generators' threads always *)
(* fits into the script's timeout.                                         *)
(***************************************************************************)
KilledOnlyByBroker ==
    [][place = "stopping" /\ place' = "stopping" /\ demoTimer = 0 /\ life' = "none"
        => life \in {"none", "closing"} \/ pipeFull]_vars

(***************************************************************************)
(* What is injected has an end: at any time, with the main thread and the  *)
(* scenario-runner thread wherever they are, an anomaly or a burst is in   *)
(* force only while its restore is still to come.                          *)
(***************************************************************************)
InjectedHasEnd ==
    anomaly # "NONE" \/ burst =>
        main \in {"burst", "schedule"} \/ restore \in {"waiting", "clearing"}

(***************************************************************************)
(* The demo runs through, a dead, stuck or unstartable simulator and       *)
(* cycles that raise notwithstanding, and has a result for every scenario. *)
(***************************************************************************)
DemoFinishes == <>[](Over /\ results = Scenarios)

(***************************************************************************)
(* error-burst "simulates cascading failure generating high error rate in  *)
(* logs": by the end of a scenario with an error burst, a log has been     *)
(* generated in that mode (the code starts the log generator only after    *)
(* 500 seconds, later than any scenario ends).                             *)
(***************************************************************************)
BurstShowsInLogs ==
    restore = "finished" /\ ErrorBurst[scenario] => [from |-> "log", mode |-> "burst"] \in events
==============================================================================
