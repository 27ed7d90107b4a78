--------------------------- MODULE VolatilityGauge ---------------------------
(***************************************************************************)
(* The cross-cycle memory of the monitoring agent (agent/volatility.py).   *)
(*                                                                         *)
(* The gauge is a Python object owned by the coordinator and called from   *)
(* one task only, so it has no behaviour of its own: each method is an     *)
(* operator on its memory, and MonitorCycle keeps the memory as a variable.*)
(*                                                                         *)
(* A fingerprint stands for the string "<type>:<component or unknown>".    *)
(* An observed value is the leading number _parse_value finds in the       *)
(* anomaly's observed_value, in some fixed unit, or NoValue.               *)
(***************************************************************************)
EXTENDS Integers

CONSTANTS
    Fingerprints,   \* the dedup keys of the anomalies the monitor can detect
    Values,         \* the numbers an observed_value can start with
    NoValue,        \* no number in observed_value, or no observed_value
    OngoingGap,     \* config.agent_incident_ongoing_gap
    WorsenNum,      \* config.agent_incident_worsen_pct is WorsenNum/WorsenDen
    WorsenDen,
    Dedup           \* config.agent_incident_dedup

ASSUME GaugeAssumption ==
    /\ Values \subseteq Int
    /\ NoValue \notin Values
    /\ OngoingGap \in Nat
    /\ WorsenNum \in Nat
    /\ WorsenDen \in Nat \ {0}
    /\ Dedup \in BOOLEAN

Reading == Values \cup {NoValue}

\* _IncidentMemory; type and component are the fingerprint it is stored under.
Incident == [first: Nat, last: Nat, occurrences: Nat, value: Reading, reported: BOOLEAN]

\* self._memory: a dict that holds the fingerprints seen since the agent started.
IsMemory(m) == DOMAIN m \subseteq Fingerprints /\ m \in [DOMAIN m -> Incident]

Statuses == {"new", "ongoing", "worsening"}

-----------------------------------------------------------------------------
\* _is_active with the comparison off by one: an incident of the previous cycle is a new one.
IsActiveStrict(m, c) == c - m.last < OngoingGap

\* The same comparison off by one the other way.
IsActiveLonger(m, c) == c - m.last <= OngoingGap + 1

IsActive(m, c) == c - m.last <= OngoingGap

\* The active window without its gap: every earlier incident is carried over.
PriorContextUnbounded(memory, c) == {f \in DOMAIN memory : c > memory[f].last}

\* prior_context: the incidents the detection prompt says were active before cycle c.
PriorContext(memory, c) ==
    {f \in DOMAIN memory : IsActive(memory[f], c) /\ c > memory[f].last}

\* _worsened: the value rose by at least the configured fraction.
Worsened(prior, current) ==
    /\ prior # NoValue
    /\ current # NoValue
    /\ prior > 0
    /\ (current - prior) * WorsenDen >= WorsenNum * prior

\* The status branch of observe: new, or the same fingerprint back after a gap.
StatusOf(memory, f, v, c) ==
    IF f \notin DOMAIN memory \/ ~IsActive(memory[f], c)
    THEN "new"
    ELSE IF Worsened(memory[f].value, v) THEN "worsening" ELSE "ongoing"

Fresh(v, c) ==
    [first |-> c, last |-> c, occurrences |-> 1, value |-> v, reported |-> FALSE]

\* The same occurrence of an incident, sighted again.
Again(m, v, c) ==
    [first |-> m.first, last |-> c, occurrences |-> m.occurrences + 1, value |-> v,
     reported |-> m.reported]

\* An observe that keeps the old record of an incident that returns after a gap.
ObserveKeepsRecord(memory, f, v, c) ==
    [g \in DOMAIN memory \cup {f} |->
        IF g # f THEN memory[g]
        ELSE IF f \notin DOMAIN memory THEN Fresh(v, c)
        ELSE Again(memory[f], v, c)]

\* observe's update of the memory.
Observe(memory, f, v, c) ==
    [g \in DOMAIN memory \cup {f} |->
        IF g # f THEN memory[g]
        ELSE IF StatusOf(memory, f, v, c) = "new" THEN Fresh(v, c)
        ELSE Again(memory[f], v, c)]

\* A should_report that forgets the incident whose pipeline aborted.
ShouldReportChangesOnly(status, m) == status \in {"new", "worsening"} \/ ~Dedup

\* should_report, on the record observe has just updated.
ShouldReport(status, m) == status \in {"new", "worsening"} \/ ~Dedup \/ ~m.reported

\* delta.resolved: the other incidents that were active in the cycle before.
ResolvedBy(memory, f, c) == {g \in DOMAIN memory \ {f} : IsActive(memory[g], c - 1)}

\* A note_all_clear that goes on about incidents long gone.
AllClearEver(memory, c) == DOMAIN memory

\* note_all_clear, which returns the resolved incidents and changes nothing.
AllClear(memory, c) == {g \in DOMAIN memory : IsActive(memory[g], c - 1)}

\* A mark_reported that is never called.
MarkNothing(memory, f) == memory

MarkReported(memory, f) ==
    IF f \in DOMAIN memory THEN [memory EXCEPT ![f].reported = TRUE] ELSE memory
=============================================================================
