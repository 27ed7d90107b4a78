--------------------------- MODULE AnomalyDetector ---------------------------
(***************************************************************************)
(* AnomalyDetector, the keyed operator of the stream processor: for one    *)
(* event it raises alerts against the state of the event's key and moves   *)
(* that state on.  A metric has an exponentially weighted mean and         *)
(* variance, a log stream has a count of its errors.                       *)
(*                                                                         *)
(* Doubles are exact here: a baseline has a unit, a power of AlphaDen that *)
(* grows with every sample; its mean is counted in units of 1 / unit and   *)
(* its variance in units of 1 / unit^2, so that no update has to divide.   *)
(***************************************************************************)
EXTENDS Integers

CONSTANTS
    None,
    AlphaNum,               \* anomaly.ema.alpha is AlphaNum/AlphaDen
    AlphaDen,
    Sigma,                  \* anomaly.baseline.deviation.sigma
    WarmupSamples,          \* anomaly.warmup.samples
    ErrorRatePercent,       \* anomaly.error.rate.threshold, in percent
    ErrorRateMinEvents,     \* anomaly.error.rate.min.events
    LogSeverityThreshold,   \* anomaly.log.severity.threshold
    Thresholds              \* the static thresholds, by metric name

ASSUME DetectorAssumption ==
    /\ None \notin Int
    /\ AlphaDen \in Nat \ {0} /\ AlphaNum \in 0..AlphaDen
    /\ Sigma \in Nat /\ WarmupSamples \in Nat
    /\ ErrorRatePercent \in Nat /\ ErrorRateMinEvents \in Nat
    /\ LogSeverityThreshold \in Nat

\* A key that has only the source: all of a component's metrics share one baseline.
KeyBySource(e) == <<e.source, "any">>

\* keyFor: every metric of a source has a key of its own, and so have its logs.
KeyFor(e) ==
    CASE e.kind = "metric" -> <<e.source, e.name>>
      [] e.kind = "log" -> <<e.source, "log">>
      [] OTHER -> <<e.source, "other">>

\* The state of a key that has seen nothing: mean, variance, count and error count.
Fresh == [mean |-> None, variance |-> 0, unit |-> 1, count |-> 0, errors |-> 0]

Square(x) == x * x

Delta(s, e) == e.value * s.unit - s.mean

-----------------------------------------------------------------------------
\* A known-bad value, whatever the baseline.
OverThreshold(e) == e.name \in DOMAIN Thresholds /\ e.value > Thresholds[e.name]

\* A value further from the mean than Sigma standard deviations, after the warm-up.
Deviates(s, e) ==
    /\ s.mean # None
    /\ s.count >= WarmupSamples
    /\ s.variance > 0
    /\ Square(Delta(s, e)) > Square(Sigma) * s.variance

\* The log stream of the key, with e, has too many errors over its whole life.
Errors(s, e) == s.errors + (IF e.severity >= LogSeverityThreshold THEN 1 ELSE 0)

ErrorRateHigh(s, e) ==
    /\ s.count + 1 > ErrorRateMinEvents
    /\ 100 * Errors(s, e) > ErrorRatePercent * (s.count + 1)

\* The rules that fire on e, when its key is in state s.
Rules(s, e) ==
    CASE e.kind = "metric" -> {r \in {"threshold", "baseline_deviation"} :
                                  IF r = "threshold" THEN OverThreshold(e) ELSE Deviates(s, e)}
      [] e.kind = "log" -> {r \in {"error_rate_high"} : ErrorRateHigh(s, e)}
      [] OTHER -> {}

\* mean + alpha * delta, in the next unit.
Mean(s, e) == AlphaDen * s.mean + AlphaNum * Delta(s, e)

\* (1 - alpha) * (variance + alpha * delta^2), in the next unit.
Variance(s, e) ==
    (AlphaDen - AlphaNum) * (AlphaDen * s.variance + AlphaNum * Square(Delta(s, e)))

\* The state of the key of e after e: seeded by its first metric, weighted from then on.
After(s, e) ==
    CASE e.kind = "metric" /\ s.mean = None ->
            [s EXCEPT !.mean = e.value, !.variance = 0, !.unit = 1, !.count = 1]
      [] e.kind = "metric" /\ s.mean # None ->
            [s EXCEPT !.mean = Mean(s, e),
                      !.variance = Variance(s, e),
                      !.unit = AlphaDen * @,
                      !.count = @ + 1]
      [] e.kind = "log" -> [s EXCEPT !.count = @ + 1, !.errors = Errors(s, e)]
      [] OTHER -> s
==============================================================================
