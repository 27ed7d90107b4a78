# StreamOps Agent: a TLA+ verification project

StreamOps Agent watches a streaming platform. A simulator writes events to Kafka;
a Flink job turns them into alerts; an agent built on an LLM polls the platform,
diagnoses what it finds with sub-agents and files incident reports. This
directory models the parts of it whose correctness depends on order, failure and
history, checks the models with TLC on small instances, and proves the most
important properties with TLAPS for every value of the constants.

Paths below are relative to `src/`; `agent/` is
`mcp-server/src/streamops_mcp/agent/`.

## 1. Inventory

| Component | State | Operations | Hard behaviours | What makes it correct |
|---|---|---|---|---|
| Volatility gauge (`agent/volatility.py`) | per fingerprint: first and last cycle, occurrences, last value, reported | `prior_context`, `observe`, `mark_reported`, `note_all_clear` | decisions that depend on a history of cycles; two comparisons off by one from each other | one report per occurrence; nothing suppressed that was not reported; prompt and gauge agree |
| Coordinator (`agent/monitor.py` `run_cycle`, `agent/main.py`) | cycle count, the gauge, the locals of a cycle | poll, observe, diagnose, gate, report (with retries and a fallback), escalate, mark | every step can raise or return early; the process dies with its memory | a report is returned exactly if it is filed; what aborts stays owed |
| Escalation, audit (`agent/escalation.py`, `agent/audit.py`) | the audit file | `escalate` with two blocking prompts, `log_incident` | a prompt has no timeout; an append can fail | no CRITICAL incident and no unresolved conflict is filed unasked |
| Parallel diagnosis (`agent/monitor.py` `_run_diagnostics` and its merge) | the forks, their attempts and answers | plan, fork, retry, gather, merge, record conflicts | forks finish in any order, some fail, some do not parse, their ids collide | the merge is valid, keeps the evidence, and shows disagreement |
| Tool loops (`_detect_anomalies`, `_spawn_diagnostic_agent`, `agent/executor.py`) | the conversation, the round | API call, tool call, results | failing tools, unexpected stop reasons, the round limit | a conversation the API accepts; the loop ends |
| Schemas (`agent/schemas/`) | - | validators | a merged report has to pass them | attribution integrity, size limits |
| Stream processor (`java/stream-processor`) | source offset, keyed baselines, sink buffer, checkpoint | deserialize, detect, emit, checkpoint, restart | failures between any two of these; bytes that do not parse | state and offset belong together; alerts at least once; baselines apart |
| Event simulator (`java/event-simulator`) | injected anomaly, error-burst flag, counters, two schedulers | scenarios, three generators, shutdown | a main thread, a pool and a scenario thread on two flags; a silent broker; SIGTERM at any time | a scenario is visible for its duration and ends; the process stops |
| Demo script (`scripts/demo_scenario.py`) | the simulator process, the results | start, wait, one agent cycle, SIGTERM and SIGKILL, pause | its waits against the scenarios' durations; a process that died or does not stop | the agent sees what was injected; no two simulators |
| MCP tools (`mcp-server/src/streamops_mcp/tools`) | none | read Kafka, Flink, Prometheus | poll loops over a topic that is written to and deleted from | they return, and return what they say |
| Prompts, sanitizer, configuration, logging, `check.py` | none of the system's | text and settings | - | - |

How they interact: the coordinator is one asyncio task. It calls the gauge
directly, awaits the API in the tool loops, runs the forks concurrently under
`asyncio.gather`, and calls `input()` on the same thread. The only thing that
survives the process is the audit file. The simulator, the Flink job and the
agent share nothing but Kafka topics and HTTP endpoints. The demo script starts
simulators as child processes and runs the coordinator inside its own.

The hazards, each at its line and with the properties that watch it, are in
`PROJECT.json`.

## 2. Modules

    DiagnosisGate      VolatilityGauge          AnomalyDetector   EventSimulator
       |      \          /                            |                |
       |      MonitorCycle  --implements-->     StreamPipeline    DemoScenario
       |        |         IncidentReporting
    ForkDiag-   |
    nostics   MonitorHistory        AgentLoop       EventTools

Each of MonitorCycle, MonitorHistory, ForkDiagnostics, AgentLoop, StreamPipeline,
DemoScenario and EventTools has its theorems in a module of its name with
`Proofs`, and its instance for TLC in one with `MC`. MonitorHistoryProofs builds on MonitorCycleProofs;
what StreamPipelineProofs and ForkDiagnosticsProofs need of numbers is in
NumberFacts.

**VolatilityGauge** has an operator for each method of the gauge. The gauge is an
object with no behaviour of its own, so its memory is a variable of MonitorCycle.
A fingerprint is a model value; an observed value is the number `_parse_value`
finds or `NoValue`; the worsening fraction is a quotient of naturals, so the
comparison is exact.

**DiagnosisGate** holds what both sides of `_run_diagnostics` know of a
diagnosis: the confidence levels and the fail-fast gate.

**MonitorCycle** is the coordinator. `pc` is the place in `run_cycle` where the
task waits or a call can raise; `idle` is `run_loop`'s sleep.

| `pc` | Actions | Code |
|---|---|---|
| idle | StartCycle | `run_loop` calls `run_cycle` |
| detect | DetectHealthy, DetectFails, DetectAnomaly | `_detect_anomalies` returns None, raises, or returns an anomaly the gauge observes |
| diagnose | DiagnosticsFail, DiagnosticsReturn | `_run_diagnostics` and the gate (multi-agent only) |
| report | ReportReturns, ReportRetries, ReportGivesUp, ReportRaises | `_spawn_report_agent` under `_retry_subagent`, or bare in single-agent mode |
| critical, conflicts | AnswerCritical, AnswerConflicts | the two `input()` calls of `escalate` |
| audit | WriteAudit, AuditFails | `log_incident`, then `mark_reported` and the return |
| any | Restart | the process dies; only the audit file is left |

Each action is all the code between two such places. An incident report keeps
its severity, whether it names weak claims and which code built it; a diagnosis
whether it parsed, the set of its claims' confidence levels, its unresolved
conflicts and whether it is too large for the handoff. The audit lines carry the
cycle and the occurrence they are for, which the file's own lines do not, so
that properties can speak of them.

**IncidentReporting** is the promise to the operator without cycles, retries,
prompts or crashes: a sighting is pursued and then filed or dropped; an incident
the operator has been told of is pursued again only if it worsened, is a new
occurrence, or the agent restarted. `RefinesReporting` maps `delta` to what is
pursued, the reported flags to what has been told, and the audit file to what is
filed.

**MonitorHistory** adds four history variables (last change, announcements of
resolution, incidents standing unchanged since they were filed, failed detections
since the last sighting). They follow the steps and constrain none.

**ForkDiagnostics** is `_run_diagnostics`. Each fork answers with one of
`Findings` or something unparsed, or errs and retries; `Gather` merges. Here the
diagnosis has its lists of claims, sources and conflicts with their ids, because
collisions of ids are the point; a prefixed id is a pair. The forks are numbered
from 1, their prefixes from 0 as in the code.

**AgentLoop** is both tool loops. A text is what the parsers make of it. Only the
last two messages are kept: the code looks at no other, and the API's rule about
tool results, checked at each call, needs no more.

**AnomalyDetector** has an operator for each part of the keyed operator. Doubles
are exact: alpha is a quotient of naturals, and a baseline's mean and variance are
counted in units of 1/`unit` and 1/`unit`^2, where `unit` grows by alpha's
denominator with every sample, so that no update divides. The rounding of doubles
is not modelled, nor is the code's MIN_STDDEV of 1e-9, which is there for it. A
key is the pair of source and metric name; the code concatenates them with a `|`,
which no source of the simulator has in its name.
The runs have alpha = 1/2, which brings the variance closer to its bound than the
configured 1/10.

**StreamPipeline** is the job around it. Flink and Kafka are modelled from what
the job asks of them: a consistent snapshot of offset and keyed state
(`enableCheckpointing`), a sink whose flush a checkpoint waits for
(`AT_LEAST_ONCE`), `OffsetsInitializer.latest()` where there is no checkpoint. A failure without one is a
global failover or a resubmission; a regional failover, in which Flink may keep
what the source has read, would be kinder to the alerts.
The topic has one partition, since the events of a key share one.

**EventSimulator** is the process of one simulator, from its start to its exit.
Each of its threads is a set of actions: `main` (Boot, InjectAnomaly, StartBurst,
ScheduleRestore), the generators' pool (Generate), the scenario-runner (ClearAnomaly,
ClearBurst) and the shutdown hook (Terminate, Drain, Close). Timers count down,
and what is due is done before time passes; only waiting for the broker takes
time. The broker, the producer's threads and the JVM's start are outside.
`events` is the set of kinds of events generated so far: the generator and the
mode it read.

**DemoScenario** is the script with its simulators. Its waits, the simulator's
timers and its timeouts run on the same clock; a cycle of the agent takes any
time, which MonitorCycle justifies, for it waits for a human. The simulator writes
its log into a pipe the script never reads; `PipeFills` is the moment it is full,
from which on whoever logs waits. The directory its files go to is in every
checkout (`demo-output/examples`), so the summary can always be written. 64 kB are more than a scenario's worth of log
lines, so it may only happen in a cycle that is longer than the scenario.

**EventTools** is `get_recent_events` and `search_logs`: a call reads the high
watermarks one partition at a time, then polls. The calls block the event loop,
so there is one at a time. A message is whether the call wants it. Producers and
retention go on meanwhile, and the broker may be slow (an empty poll although
there is more). Offsets are counted from the newest message, since the topic has
no first one; a start offset that retention has passed is `Lost`. `disturbed` says
whether the topic has changed, or the broker been slow, since the call began.

## 3. Runs

Passing runs:

| Run | Bounds | Shows |
|---|---|---|
| monitor_cycle | 2 fingerprints, values 4 and 5 (a rise of exactly 25%) and none, 4 diagnoses (unparsed; weak with a conflict; strong and weak with a conflict; too large), 1 retry, 3 cycles, 1 restart, both modes | 255,552 states. Sec. 5 |
| monitor_history | the same without retries and restarts, 4 cycles | a gap of one cycle opens, runs out, and the incident returns |
| fork_diagnostics | up to 3 forks, 1 retry, 4 findings whose ids all collide, 2 types, all three hypothesis modes | 14,996 states |
| agent_loop | 3 rounds, up to 2 tool calls an answer | 448 states: first, middle and last round; a tool fails between two that work |
| stream_pipeline | 6 kinds of event, 3 events, 2 failures, warm-up of 2 | 115,183 states: the deviation alert needs all three, and a failure fits between any two steps |
| demo_scenario | all six scenarios, durations, waits and timeouts of the code in units of 5 s, a JVM start of up to one unit | 199,913 states: each process step against each deadline of the script |
| event_tools | 2 partitions of up to 2 messages, a count of 3 that is cut to 2, 2 empty polls, depth 5 | 864,188 states: a depth that does not divide by the partitions, a window of all that is retained and of more (with and without earlier deletions), writes and deletions between any two polls |

Two fingerprints are enough for the gauge: `observe` touches one record and reads
the others one at a time. Three cycles let an incident be reported, suppressed
and worse, or reported, gone and back; the fourth, in monitor_history, lets an
announcement of resolution be repeated. Three forks are the fewest with a
disagreement in which the primary has no part. The bounds on cycles, restarts,
topic length and failures (`MaxCycles`, `MaxRestarts`, `MaxEvents`,
`MaxCrashes`), on the JVM's start (`MaxBoot`) and on what a partition retains
(`Capacity`) are the only ones in the guards. `Capacity` bounds no behaviour in
time: what is deleted makes room, so the topic is written to for ever. In units of
5 s the generators' intervals of 1 and 2 s become one unit; that makes fewer
events, and no property counts them.

What the properties say, in short:

- *monitor_cycle*: `SuppressedIsOnFile` (a suppressed sighting's occurrence is on
  file), `ReportedOncePerOccurrence`, `ReturnedIffFiled`, `FiledIsSubstantiated`,
  `AskedExactlyOnce`, `FallbackAfterRetries`, `PromptAgreesWithGauge`,
  `CycleEnds`, `RefinesReporting`.
- *monitor_history*: `ResolvedThenFresh`, `AnnouncedAtMostGapPlusOne`,
  `ReportedOnceWhileStanding`, `NewIfResolvedOrMissed` (an incident is taken for
  a new one only if its end was announced or as many detections as the gap failed
  since it was last sighted).
- *fork_diagnostics*: `AnswerIsAttributed`, `EvidenceIsKept`,
  `AbortsOnlyIfAllFail`, `GateOpensForAnyFork`, `DisagreementSurfaces`,
  `Diagnosed`.
- *agent_loop*: `ConversationIsValid`, `Ends`.
- *stream_pipeline*: `StateIsReplay`, `BaselineIsItsOwn` (mean within the values
  seen, variance at most a quarter of their range squared),
  `CommittedAlertsAreOut`, `AlertsDelivered`, `AlertsSurviveFailures`.
- *demo_scenario*: `AgentSeesScenario` (the numbers of three files fit together:
  every cycle begins while its scenario is in force and, unless the broker held
  them up, after metrics of it were generated), `OneSimulator`, `InjectedHasEnd`,
  `KilledOnlyByBroker` (SIGKILL is for a producer that waits for the broker or a
  process that cannot log, never for a slow pool), `DemoFinishes`.
- *event_tools*: `SearchMissesNothing` (of every partition whose start offset was
  still there), `SearchEnds`, `RecentEnds`. Without the condition of the last, TLC
  finds `get_recent_events` reading for ever on a topic that is written to as fast
  as it reads, because nothing bounds what its filter passes over; that is the
  only thing that can keep it going.

Runs that TLC must find violated; each is a statement of the repository the code
does not keep:

| Run | Statement | What happens |
|---|---|---|
| lost_worsening | "suppressed until it materially changes or resolves" (`agent/volatility.py:9-11`) | a worsening whose cycle aborts is suppressed from then on |
| silent_dissent | forks that differ "produce a cross-fork ConflictRecord ... never silently resolved" (`docs/fork-diagnostics-runbook.md:16-19`) | a fork without claims leaves none |
| dropped_alerts | "so alerts aren't dropped on failure/restart" (`StreamProcessorApp.java:90`) | before the first checkpoint they are |
| silent_error_burst | error-burst "simulates cascading failure generating high error rate in logs" (`ScenarioRunner.java:45`) | the log generator's first run is after 500 s, the scenario lasts 20 |
| newest_event_missed | "Retrieve the N most recent events" (`tools/events.py:50`) | the window is one longer than the count the loop stops at: the oldest are returned |

`Done` steps stand for the states in which the program has nothing more to do,
so deadlock is checked in every run.

Also seen while modelling, and not checked: a resolution is announced in as many
cycles as the gap has, and one more, although `observe` "marks" it (the bound is
`AnnouncedAtMostGapPlusOne`); after a failed fork the prefix of a claim is not the
number its fork is logged under; the chart of `README.md:113-115` has a loop that
runs out of rounds use the accumulated text, where the code keeps the last
round's; with the default gap of 1, one failed detection between two sightings
makes a standing incident a new one, which is reported again
(`NewIfResolvedOrMissed` says that fewer than the gap never do); a reader whose
start offset retention has passed is put at the end (`auto.offset.reset: latest`),
so `search_logs` and `get_recent_events` return nothing from that partition
although it has messages; the fallback report is always MEDIUM, so a diagnosis too large
for the handoff reaches no CRITICAL prompt.

## 4. Fairness

- *MonitorCycle*: weak fairness of the coordinator's steps taken together. There
  is one task, so whichever step is enabled is the next; API calls end because
  the SDK has timeouts. `HumanFairness` is separate and an assumption about
  people: `input()` has no timeout, and without it `CycleEnds` is false.
- *ForkDiagnostics*: weak fairness of each fork and of the coordinator: one event
  loop serves them, and every fork waits for a call with a timeout or a sleep.
- *AgentLoop*: weak fairness of the loop. That every tool returns is assumed;
  EventTools says when that is so for the two that poll.
- *DemoScenario*: weak fairness of what is due and of time (`Step`), and of the
  end of a cycle (`CycleEnds`). None for the broker: it may stay silent for ever,
  and the demo still ends.
- *EventTools*: weak fairness of the watermark reads, the polls that are no errors
  and the end of the loop. The client's calls have timeouts; a client that reports
  errors for ever would keep either loop going, since errors are not counted. No
  fairness for producers or retention.
- *StreamPipeline*: weak fairness of start, processing, delivery and
  checkpointing, which Flink schedules. Failures and new events have none.

The safety properties and all theorems are about the specifications without
fairness.

## 5. Proofs

Every safety property a passing run checks, invariant or action property, and the
refinement of IncidentReporting are also theorems. They hold for every value of
the constants that satisfies the named assumptions (`GaugeAssumption`,
`MonitorAssumption`, `ForkAssumption`, `LoopAssumption`, `DetectorAssumption`,
`PipelineAssumption`, `EventsAssumption`, `SimulatorAssumption`,
`DemoAssumption`, `ToolsAssumption`), which TLC evaluates in the runs. Two of them
say more than types: the findings of ForkAssumption are what `DiagnosisReport` has
already validated, and EventsAssumption excludes a metric that is called `log`,
whose key `keyFor` would also give to its source's logs.

Three theorems have a hypothesis of their own. `AbortsOnlyWithoutSurvivors` needs
that None is no diagnosis. `StopFits` needs that the simulator's wait for its
threads is shorter than the script's for the process (`HookFits`; 5 s and 10 s in
the code), and `ScenarioIsSeen` that every wait is longer than the start of a
process, with the first metric and one period to spare, and shorter than the
scenario (`WaitsFit`; waits of 10 to 25 s, scenarios of 20 to 60 s, metrics every
second, and a start taken to last no more than 5 s). MCDemoScenario assumes both
of the configured numbers, so TLC evaluates them too. Without them the theorems
would be false: that three files agree on their times is what those properties
are about.

The invariant of each module is a conjunction of named parts; each is kept by
every step, action by action.

**MonitorCycleProofs**. The safety properties are not inductive by themselves:
that a suppressed incident is on file depends on how `reported` came to be set
many steps earlier. The invariant `IInv` adds to `TypeOK`

- which locals are set at which `pc` (`LocalsOK`),
- that no record and no audit line is from a later cycle than the present one,
  and which record a line can belong to (`MemoryClock`, `FileClock`),
- that the record of the last cycle's report is on file (`LastReportOnFile`),
- that a record counts as reported exactly if this process has filed a line since
  its first cycle (`GaugeMatchesFile`), the heart of the argument,
- and that what is being pursued is still owed (`PursuedIsOwed`).

It has a lemma per group of actions. From it follow `TypeCorrect`,
`SuppressionSound`, `ReportedOnce`, `ReturnsWhatItFiled` and `PromptAgrees` (from
`MemoryClock`: the two comparisons of the gauge differ by one only for records
of the future). A second layer, `Carried`, says what the answers, the substance
of the diagnosis and the attempt count are between the gate and the file; with it
`RetriesExhausted`, `FiledSubstantiated` and `FiledAfterAsking`. `Implements`
proves `Spec => RefinesReporting`: the ends of a cycle map to `Drop`, a sighting
to `Pursue`, `WriteAudit` to `File` (which needs the line to be new and the
incident still owed, hence `FileClock` and `PursuedIsOwed`), `Restart` to
`Forget`, and the rest to stuttering.

**MonitorHistoryProofs**. The history variables are tied to the memory they are
about: an incident has been announced no more often than cycles have passed since
it was last seen, nor more often than the gap allows (`AnnouncedSinceSeen`); what
is pursued was sighted in this cycle (`PursuedIsCurrent`); a standing incident is
reported, was seen in the last detection and is not pursued (`StandingIsQuiet`);
of an incident whose end has not been announced, every detection since it was last
sighted has failed, or more of them than the gap allows (`MissedSinceSeen`), from
which `NewHasReason` follows.
Their types (`HistoryTypeOK`) are proved and in no run. `HSpec => Spec` brings in
the coordinator's own invariant.

**ForkDiagnosticsProofs**. The invariant says that a fork has a finding exactly if
it answered and that the answer is the aggregate of forks that have all ended; the
rest is about the merge as a function. Prefixes of different forks differ, so
prefixed ids do not collide whatever the forks chose (`MergedClaimsInjective`,
`MergedSourcesInjective`) and no reference leaves its fork (`MergeKeepsEvidence`).
The primary fork exists because there is a best rank, a maximum taken over the
finite set of survivors, and if any two forks with claims differ, one of them
differs from the primary, which the cross-fork conflicts are recorded against
(`DisagreementIsKept`).

**AgentLoopProofs**. While tools run, the results so far and the calls to come add
up to the calls of the last answer; the detection loop never comes round with a
last word of the model's, which is where a conversation would go wrong.

**StreamPipelineProofs**. For `SurvivesFailures` the invariant says that the buffer
holds only alerts on events already read, that what the pending checkpoint is
behind of and not yet delivered is what it waits for, and that the complete
checkpoint is behind everything in the buffer. A second layer, `AllSound`, says
of the running job, of the pending checkpoint and of the complete one that their
state is the replay of the topic between their two offsets; appending to the topic
does not change it, and a failure copies one of them to another. `Replay` is a
recursive function, and that it exists and continues by one step is an
induction over the offset. The theorems of the library that take a predicate
cannot be instantiated by the provers, but well-foundedness can be cited with a
set in its place: that is `SetInduction` in NumberFacts. A third,
`AlertsAreSomewhere`, gives `CommittedAlertsDelivered`. `BaselineOfItsOwn` needs
more than its own bound on the variance, which an update does not hand on: the
variance is at most the product of the mean's distances from the least and the
greatest value, and that is (`VarianceStep`).

**DemoScenarioProofs**. `Phases` says what is injected from where the main thread
and the scenario-runner are, `Lives` which states a process can be in from where
the script is, and `BothWait` that the hook's timer and the script's began
together. `OnTime` bounds, while the script waits, what is left of the boot, of
the scenario and of the time to the next metric by what is left of the wait.

**EventToolsProofs**. An undisturbed search has returned what was wanted of the
messages it has passed by on each partition whose start offset was there, and once
a poll has returned nothing no message is left (`SearchSoFar`); at its end it has
passed by the whole window.

Only model-checked: the liveness properties (`CycleEnds`, `Diagnosed`, `Ends`,
`AlertsDelivered`, `DemoFinishes`, `SearchEnds`, `RecentEnds`), for the
prover has neither ENABLED nor fairness beyond propositional steps.

## 6. Not modelled

- How text maps to an anomaly, a diagnosis or a report (JSON extraction,
  keywords, `parse_error` aside), prompts, runbooks, sanitizing, logging: they
  choose values the models take as given.
- `AuditLogger.query`, and the MCP tools but for the poll loops: one request and
  its answer, without state. `get_consumer_lag` reads the committed offsets before
  the watermarks, so it overstates and never understates; `get_topic_throughput`
  divides all that is retained by the seconds asked for.
- Prompt and runbook files: a process reads each once. An index whose scan failed
  stays partial (`prompts/__init__.py:94`), which the hazards list.
- Watermarks: assigned by the job and used by none of its operators. Several
  partitions and subtasks: keys do not interact.
- `MonitorToDiagnosticHandoff`: it shortens the summary it passes on and raises
  nothing.
- Of the simulator, which metric is drawn and with what value, and the chance
  that a log is an error; the progress log and the counters it reads.
- Protobuf and Kryo serialization, `check.py`, compose files.

## 7. Plan

1. *Error rate*: the detector's log rule over long streams, with counters in
   place of the topic.
2. *Composition*: MonitorCycle with ForkDiagnostics' answer in place of a given
   diagnosis, so that the path from a fork's conflict to the prompt is one.
3. *Abstract specifications*: the job as a detector that reads the topic once and
   raises each alert at least once, and StreamPipeline shown to implement it; the
   tool loops as a call that returns an outcome.
4. *Proofs*: those refinements.
