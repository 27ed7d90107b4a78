---------------------------- MODULE MCDemoScenario ----------------------------
(* DemoScenario with the numbers of application.properties, EventSimulator.java  *)
(* and demo_scenario.py in units of five seconds.  The intervals of one and two  *)
(* seconds become one unit, so the model generates fewer events than the code.   *)
EXTENDS DemoScenario

MCOrder == <<"latency-spike", "throughput-drop", "error-burst", "backpressure",
             "checkpoint-timeout", "memory-pressure">>

MCScenarios == {MCOrder[i] : i \in DOMAIN MCOrder}

MCAnomaly == [s \in MCScenarios |->
    CASE s = "latency-spike" -> "LATENCY_SPIKE"
      [] s = "throughput-drop" -> "THROUGHPUT_DROP"
      [] s = "error-burst" -> "NONE"
      [] s = "backpressure" -> "BACKPRESSURE"
      [] s = "checkpoint-timeout" -> "CHECKPOINT_SLOW"
      [] s = "memory-pressure" -> "MEMORY_PRESSURE"]

MCErrorBurst == [s \in MCScenarios |-> s \in {"error-burst", "checkpoint-timeout"}]

MCDuration == [s \in MCScenarios |->
    CASE s = "latency-spike" -> 6
      [] s = "throughput-drop" -> 9
      [] s = "error-burst" -> 4
      [] s = "backpressure" -> 8
      [] s = "checkpoint-timeout" -> 12
      [] s = "memory-pressure" -> 7]

MCWait == [s \in MCScenarios |->
    CASE s = "checkpoint-timeout" -> 5
      [] s \in {"throughput-drop", "backpressure"} -> 4
      [] s \in {"latency-spike", "memory-pressure"} -> 3
      [] s = "error-burst" -> 2]

MCFirstRun == [g \in Generators |-> IF g = "log" THEN 100 ELSE 0]
MCPeriod == [g \in Generators |-> 1]

\* The configured times are as the theorems of DemoScenarioProofs need them.
ASSUME TimesFit == WaitsFit /\ HookFits
===============================================================================
