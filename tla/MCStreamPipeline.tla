--------------------------- MODULE MCStreamPipeline ---------------------------
(***************************************************************************)
(* One source with a metric that has a static threshold and one that has   *)
(* none, its logs, and a record that does not parse.  A warm-up of two     *)
(* samples and a log minimum of one event let both signals fire within a   *)
(* topic of three events; two failures let one hit a restored job.         *)
(***************************************************************************)
EXTENDS StreamPipeline

Metric(n, v) == [kind |-> "metric", source |-> "sink", name |-> n, value |-> v]

LogOf(s) == [kind |-> "log", source |-> "sink", severity |-> s]

MCEvents ==
    {Metric("latency_ms", 1), Metric("latency_ms", 3), Metric("latency_ms", 20),
     Metric("records_per_second", 9), LogOf(4), [kind |-> "corrupt"]}

MCThresholds == [n \in {"latency_ms"} |-> 15]
==============================================================================
