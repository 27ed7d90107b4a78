---------------------------- MODULE EventSimulator ----------------------------
(***************************************************************************)
(* The process `java -jar event-simulator.jar <scenario>`: EventSimulator, *)
(* its ScenarioRunner and its generators.  main starts the generators on a *)
(* pool of threads, injects the scenario and schedules its end on a thread *)
(* of its own; SIGTERM runs the shutdown hook.                             *)
(*                                                                         *)
(* Timers count down; a step whose time has come is taken before time      *)
(* passes (Urgent), so a step takes no time unless it waits for the        *)
(* broker.  An event is the generator it comes from and the mode it was    *)
(* generated in; which metric a generator draws, and with what luck a log  *)
(* is an error, is left out, and so are the counters, which are logged and *)
(* nothing more.  The broker and the producer's own threads are outside.   *)
(***************************************************************************)
EXTENDS Naturals

CONSTANTS
    Scenarios,
    Anomaly,            \* the AnomalyState of a scenario
    ErrorBurst,         \* whether it sets the log generator's error burst mode
    Duration,           \* scenario.<name>.duration.seconds
    FirstRun, Period,   \* of each generator: initial delay and interval
    ShutdownTimeout,    \* simulator.shutdown.timeout.seconds
    MaxBoot             \* bound: how long a JVM takes to reach main

AnomalyStates ==
    {"NONE", "LATENCY_SPIKE", "THROUGHPUT_DROP", "BACKPRESSURE", "CHECKPOINT_SLOW",
     "MEMORY_PRESSURE"}

Generators == {"metric", "log", "heartbeat"}

ASSUME SimulatorAssumption ==
    /\ Anomaly \in [Scenarios -> AnomalyStates]
    /\ ErrorBurst \in [Scenarios -> BOOLEAN]
    /\ Duration \in [Scenarios -> Nat]
    /\ FirstRun \in [Generators -> Nat]
    /\ Period \in [Generators -> Nat \ {0}]
    /\ ShutdownTimeout \in Nat
    /\ MaxBoot \in Nat

VARIABLES
    life,       \* "none", "booting", "running", "blocked", "terminating" or "closing"
    scenario,   \* args[0]
    main,       \* where the main thread is in ScenarioRunner.run: "inject", "burst", "schedule" or "done"
    anomaly,    \* MetricGenerator.anomaly
    burst,      \* LogGenerator.errorBurstMode
    restore,    \* the scenario's end: "unscheduled", "waiting", "clearing" or "finished"
    timer,      \* the time left: of the boot, the restore, the hook's wait, each generator's next run
    connected,  \* whether the producer has the topic's metadata
    sending,    \* the generators whose thread waits in KafkaProducer.send
    unacked,    \* whether the producer has records the broker has not answered
    pipeFull,   \* whether the pipe its log goes to is full: whoever logs waits
    events      \* the kinds of events generated so far

simVars == <<life, scenario, main, anomaly, burst, restore, timer, connected, sending, unacked, pipeFull, events>>

Timers == {"boot", "restore", "hook"} \cup Generators

Stopped == [t \in Timers |-> 0]

Events == [from: Generators, mode: AnomalyStates \cup {"burst", "calm"}]

\* What a process starts with.  When it is gone, its state is put back to this.
Blank ==
    /\ main' = "inject"
    /\ anomaly' = "NONE" /\ burst' = FALSE
    /\ restore' = "unscheduled"
    /\ connected' = FALSE /\ sending' = {} /\ unacked' = FALSE /\ pipeFull' = FALSE
    /\ events' = {}

SimInit ==
    /\ life = "none" /\ scenario \in Scenarios
    /\ main = "inject"
    /\ anomaly = "NONE" /\ burst = FALSE
    /\ restore = "unscheduled"
    /\ timer = Stopped
    /\ connected = FALSE /\ sending = {} /\ unacked = FALSE /\ pipeFull = FALSE
    /\ events = {}

-----------------------------------------------------------------------------
\* A process is created for scenario s.
Launch(s) ==
    /\ life' = "booting" /\ scenario' = s
    /\ \E b \in 0..MaxBoot : timer' = [Stopped EXCEPT !["boot"] = b]
    /\ Blank

\* The process is gone, with everything it had in memory.
Exit ==
    /\ life' = "none" /\ timer' = Stopped
    /\ Blank
    /\ UNCHANGED scenario

\* main: the constructor, the shutdown hook, and start(), which schedules the generators.
Booted == life = "booting" /\ timer["boot"] = 0

Boot ==
    /\ Booted
    /\ life' = "running"
    /\ timer' = [t \in Timers |-> IF t \in Generators THEN FirstRun[t] ELSE timer[t]]
    /\ UNCHANGED <<scenario, main, anomaly, burst, restore, connected, sending, unacked, pipeFull, events>>

(***************************************************************************)
(* ScenarioRunner.run, in the main thread: the anomaly, the burst, and the *)
(* restore on the scenario-runner thread.  The generators are running.     *)
(***************************************************************************)
InjectAnomaly ==
    /\ life = "running" /\ main = "inject"
    /\ main' = "burst"
    /\ anomaly' = IF Anomaly[scenario] # "NONE" THEN Anomaly[scenario] ELSE anomaly
    /\ UNCHANGED <<life, scenario, burst, restore, timer, connected, sending, unacked, pipeFull, events>>

StartBurst ==
    /\ life = "running" /\ main = "burst"
    /\ main' = "schedule"
    /\ burst' = (ErrorBurst[scenario] \/ burst)
    /\ UNCHANGED <<life, scenario, anomaly, restore, timer, connected, sending, unacked, pipeFull, events>>

\* A duration taken as milliseconds.
ScheduleRestoreAtOnce ==
    /\ life = "running" /\ main = "schedule"
    /\ main' = "done"
    /\ restore' = "waiting"
    /\ timer' = [timer EXCEPT !["restore"] = 0]
    /\ UNCHANGED <<life, scenario, anomaly, burst, connected, sending, unacked, pipeFull, events>>

\* A run that schedules an end only for the scenarios with an anomaly of a metric.
ScheduleRestoreOfMetrics ==
    /\ life = "running" /\ main = "schedule"
    /\ main' = "done"
    /\ restore' = IF Anomaly[scenario] # "NONE" THEN "waiting" ELSE restore
    /\ timer' = [timer EXCEPT !["restore"] = Duration[scenario]]
    /\ UNCHANGED <<life, scenario, anomaly, burst, connected, sending, unacked, pipeFull, events>>

ScheduleRestore ==
    /\ life = "running" /\ main = "schedule"
    /\ main' = "done"
    /\ restore' = "waiting"
    /\ timer' = [timer EXCEPT !["restore"] = Duration[scenario]]
    /\ UNCHANGED <<life, scenario, anomaly, burst, connected, sending, unacked, pipeFull, events>>

\* The scenario-runner thread.  Nothing shuts it down, so it runs on beside the hook.
RestoreDue == restore = "clearing" \/ (restore = "waiting" /\ timer["restore"] = 0)

ClearAnomaly ==
    /\ restore = "waiting" /\ timer["restore"] = 0
    /\ restore' = "clearing"
    /\ anomaly' = "NONE"
    /\ UNCHANGED <<life, scenario, main, burst, timer, connected, sending, unacked, pipeFull, events>>

ClearBurst ==
    /\ restore = "clearing"
    /\ restore' = "finished"
    /\ burst' = FALSE
    /\ UNCHANGED <<life, scenario, main, anomaly, timer, connected, sending, unacked, pipeFull, events>>

-----------------------------------------------------------------------------
\* What generator g generates now: generateValue and LogGenerator.generate read the mode.
EventOf(g) ==
    [from |-> g,
     mode |-> CASE g = "metric" -> anomaly
                [] g = "log" -> IF burst THEN "burst" ELSE "calm"
                [] g = "heartbeat" -> "calm"]

\* The pool has a thread for each task, and a task does not overlap with itself.
GeneratorDue(g) == life \in {"running", "blocked"} /\ timer[g] = 0 /\ g \notin sending

(***************************************************************************)
(* A generator's task: generate, then safeSend.  The first sends wait for  *)
(* the topic's metadata; from then on a record is queued at once.          *)
(***************************************************************************)
Generate(g) ==
    /\ GeneratorDue(g)
    /\ events' = events \cup {EventOf(g)}
    /\ timer' = [timer EXCEPT ![g] = Period[g]]
    /\ IF connected
       THEN unacked' = TRUE /\ UNCHANGED sending
       ELSE sending' = sending \cup {g} /\ UNCHANGED unacked
    /\ UNCHANGED <<life, scenario, main, anomaly, burst, restore, connected, pipeFull>>

\* The producer gets the metadata: the waiting records are queued.
Connect ==
    /\ ~connected /\ sending # {}
    /\ connected' = TRUE /\ sending' = {} /\ unacked' = TRUE
    /\ UNCHANGED <<life, scenario, main, anomaly, burst, restore, timer, pipeFull, events>>

\* max.block.ms is over: the send fails, safeSend or the callback logs and counts it.
SendFails(g) ==
    /\ g \in sending /\ ~pipeFull
    /\ sending' = sending \ {g}
    /\ UNCHANGED <<life, scenario, main, anomaly, burst, restore, timer, connected, unacked, pipeFull, events>>

\* The broker answers, or delivery.timeout.ms is over: the callbacks count.
Acknowledge ==
    /\ unacked
    /\ unacked' = FALSE
    /\ UNCHANGED <<life, scenario, main, anomaly, burst, restore, timer, connected, sending, pipeFull, events>>

-----------------------------------------------------------------------------
(***************************************************************************)
(* The log goes to a pipe of the process that started this one, which does *)
(* not read it.  To fill it takes minutes of warnings, or of waiting for a *)
(* human; by then the scenario is over.                                    *)
(***************************************************************************)
PipeFills ==
    /\ life = "running" /\ restore = "finished" /\ ~pipeFull
    /\ pipeFull' = TRUE
    /\ UNCHANGED <<life, scenario, main, anomaly, burst, restore, timer, connected, sending, unacked, events>>

(***************************************************************************)
(* SIGTERM: before main there is no hook; after it, stop() logs, and shuts *)
(* the pool down.  If it cannot log, the generators go on.                 *)
(***************************************************************************)
Terminate ==
    IF life = "booting" THEN Exit
    ELSE /\ life' = IF pipeFull THEN "blocked" ELSE "terminating"
         /\ timer' = [timer EXCEPT !["hook"] = ShutdownTimeout]
         /\ UNCHANGED <<scenario, main, anomaly, burst, restore, connected, sending, unacked, pipeFull, events>>

\* A stop that waits for the pool as long as it takes.
DrainedWithoutTimeout == life = "terminating" /\ sending = {}

\* awaitTermination returns: the tasks are done, or the wait is over (then shutdownNow).
Drained == life = "terminating" /\ (sending = {} \/ timer["hook"] = 0)

\* A thread shutdownNow interrupts leaves send with an exception.
Drain ==
    /\ Drained
    /\ life' = "closing" /\ sending' = {}
    /\ UNCHANGED <<scenario, main, anomaly, burst, restore, timer, connected, unacked, pipeFull, events>>

\* producer.close() waits for the records in flight, without a timeout; then the JVM halts.
Closed == life = "closing" /\ ~unacked

Close == Closed /\ Exit

\* The process dies of itself: out of memory, killed by the system.
Dies == life # "none" /\ Exit

-----------------------------------------------------------------------------
\* The steps of the process itself.
SimStep ==
    \/ Boot \/ InjectAnomaly \/ StartBurst \/ ScheduleRestore
    \/ ClearAnomaly \/ ClearBurst
    \/ \E g \in Generators : Generate(g)
    \/ Drain \/ Close

\* What happens to it.
Outside == Connect \/ (\E g \in Generators : SendFails(g)) \/ Acknowledge \/ Dies

\* A step is due that takes no time.
Urgent ==
    \/ Booted
    \/ life = "running" /\ main # "done"
    \/ RestoreDue
    \/ \E g \in Generators : GeneratorDue(g)
    \/ Drained \/ Closed

SimTick ==
    /\ timer' = [t \in Timers |-> IF timer[t] = 0 THEN 0 ELSE timer[t] - 1]
    /\ UNCHANGED <<life, scenario, main, anomaly, burst, restore, connected, sending, unacked, pipeFull, events>>

SimTypeOK ==
    /\ life \in {"none", "booting", "running", "blocked", "terminating", "closing"}
    /\ scenario \in Scenarios
    /\ main \in {"inject", "burst", "schedule", "done"}
    /\ anomaly \in AnomalyStates /\ burst \in BOOLEAN
    /\ restore \in {"unscheduled", "waiting", "clearing", "finished"}
    /\ timer \in [Timers -> Nat]
    /\ connected \in BOOLEAN /\ unacked \in BOOLEAN /\ pipeFull \in BOOLEAN
    /\ sending \subseteq Generators
    /\ events \subseteq Events
==============================================================================
