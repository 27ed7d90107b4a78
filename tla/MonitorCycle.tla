----------------------------- MODULE MonitorCycle -----------------------------
(***************************************************************************)
(* The coordinator of the monitoring agent: main.run_loop around           *)
(* MonitorAgent.run_cycle, with the volatility gauge it consults, the      *)
(* Report sub-agent it retries, the escalation chain with its two blocking *)
(* prompts, the audit file, and the process dying at any point.            *)
(*                                                                         *)
(* One asyncio task runs all of it.  A step is what runs between two points*)
(* where the task waits (an API call, input()) or where a call can raise.  *)
(* The model answers the API calls: a detection, a diagnosis, a report.    *)
(* What happens inside _run_diagnostics is the module ForkDiagnostics.     *)
(***************************************************************************)
EXTENDS VolatilityGauge, DiagnosisGate

CONSTANTS
    None,           \* Python's None
    Diagnoses,      \* the diagnoses _run_diagnostics can return
    MaxRetries,     \* config.agent_max_retries
    MaxCycles,      \* bound: cycles the first process runs (1 is --single-cycle); a later
                    \* one runs as many less as there were restarts before it
    MaxRestarts     \* bound: times the process dies and is started again

Severity == {"LOW", "MEDIUM", "HIGH", "CRITICAL"}

\* What escalation reads of an IncidentReport; origin says which code built it.
Report ==
    [severity: Severity, low: BOOLEAN,
     origin: {"agent", "unparsed", "transient", "permanent"}]

\* A human's answer; the code keeps None for both "unasked" and "eof".
Answer == {"unasked", "yes", "no", "eof"}

\* One line of the audit file.  boot, cycle, status and first say which sighting it is for.
Entry == [boot: Nat, cycle: Nat, fp: Fingerprints, status: Statuses, first: Nat]

\* What a cycle keeps of the VolatilityDelta: which sighting it pursues.
Delta == [fp: Fingerprints, status: Statuses]

ASSUME MonitorAssumption ==
    /\ Diagnoses \subseteq Diagnosis
    /\ \A d \in Diagnoses : WellFormed(d)
    /\ MaxRetries \in Nat
    /\ MaxCycles \in Nat
    /\ MaxRestarts \in Nat
    /\ None \notin Diagnosis \cup Report \cup Delta

VARIABLES
    multiAgent,     \* the --single-agent flag, fixed when the process starts
    pc,             \* where run_cycle is; "idle" is run_loop's sleep
    boot,           \* how many times the process was started before this time
    cycle,          \* self._cycle_count
    memory,         \* self._gauge._memory
    delta,          \* the VolatilityDelta this cycle pursues, or None
    resolved,       \* the fingerprints this cycle logs as "Resolved since last cycle"
    diagnosis,
    attempt,        \* the attempt of _retry_subagent for the Report agent
    report,
    approved,       \* human_approved
    acknowledged,   \* conflicts_acknowledged
    outcome,        \* how run_cycle ended: a report, None, or an exception
    audit           \* the lines of the audit file; survives the process

vars == <<multiAgent, pc, boot, cycle, memory, delta, resolved, diagnosis, attempt, report,
          approved, acknowledged, outcome, audit>>

\* The variables by what they are about.
mode == <<multiAgent, boot, cycle>>     \* the process and its cycle counter
verdict == <<delta, resolved>>          \* what the gauge said this cycle
work == <<diagnosis, attempt, report>>  \* what the sub-agents produced this cycle
answers == <<approved, acknowledged>>   \* what the human said this cycle

PCs == {"idle", "detect", "diagnose", "report", "critical", "conflicts", "audit"}

-----------------------------------------------------------------------------
Init ==
    /\ multiAgent \in BOOLEAN
    /\ pc = "idle"
    /\ boot = 0
    /\ cycle = 0
    /\ memory = [f \in {} |-> None]
    /\ delta = None
    /\ resolved = {}
    /\ diagnosis = None
    /\ attempt = 0
    /\ report = None
    /\ approved = "unasked"
    /\ acknowledged = "unasked"
    /\ outcome = "none"
    /\ audit = {}

\* The locals of run_cycle before it sets them, and after it has ended.
NoLocals ==
    /\ delta' = None
    /\ diagnosis' = None
    /\ attempt' = 0
    /\ report' = None
    /\ approved' = "unasked"
    /\ acknowledged' = "unasked"

\* run_cycle returns or raises: run_loop logs which, and sleeps until the next cycle.
EndCycle(how) ==
    /\ pc' = "idle"
    /\ outcome' = how
    /\ NoLocals

\* run_loop wakes and calls run_cycle.
StartCycle ==
    /\ pc = "idle"
    /\ cycle + boot < MaxCycles
    /\ pc' = "detect"
    /\ cycle' = cycle + 1
    /\ resolved' = {}
    /\ outcome' = "none"
    /\ UNCHANGED <<multiAgent, boot, memory, delta, work, answers, audit>>

\* _detect_anomalies returns None.
DetectHealthy ==
    /\ pc = "detect"
    /\ resolved' = AllClear(memory, cycle)
    /\ EndCycle("none")
    /\ UNCHANGED <<mode, memory, audit>>

\* _detect_anomalies raises (nothing retries its API calls); run_loop logs "Cycle failed".
DetectFails ==
    /\ pc = "detect"
    /\ EndCycle("failed")
    /\ UNCHANGED <<mode, memory, resolved, audit>>

\* _extract_diagnosis_from_detection: the single agent's diagnosis has no claims.
DetectionDiagnosis(big) ==
    [type |-> "typed", claims |-> {}, unresolved |-> 0, oversized |-> big]

(***************************************************************************)
(* _detect_anomalies returns an anomaly; the gauge observes it and         *)
(* run_cycle either suppresses it and returns None, or goes on to the      *)
(* diagnosis (multi-agent) or straight to the Report agent (single-agent). *)
(***************************************************************************)
DetectAnomaly(f, v, big) ==
    LET status == StatusOf(memory, f, v, cycle)
        reports == ShouldReport(status, memory'[f])
    IN  /\ pc = "detect"
        /\ memory' = Observe(memory, f, v, cycle)
        /\ resolved' = ResolvedBy(memory, f, cycle)
        /\ IF reports
           THEN /\ delta' = [fp |-> f, status |-> status]
                /\ pc' = IF multiAgent THEN "diagnose" ELSE "report"
                /\ diagnosis' = IF multiAgent THEN None ELSE DetectionDiagnosis(big)
                /\ UNCHANGED <<answers, attempt, report, outcome>>
           ELSE EndCycle("none")
        /\ UNCHANGED <<mode, audit>>

\* _run_diagnostics returns None: run_cycle aborts and returns None.
DiagnosticsFail ==
    /\ pc = "diagnose"
    /\ EndCycle("none")
    /\ UNCHANGED <<mode, memory, resolved, audit>>

\* _run_diagnostics returns d, and the fail-fast gate lets it through or ends the cycle.
DiagnosticsReturn(d) ==
    /\ pc = "diagnose"
    /\ IF Reportable(d)
       THEN /\ diagnosis' = d
            /\ pc' = "report"
            /\ UNCHANGED <<delta, answers, attempt, report, outcome>>
       ELSE EndCycle("none")
    /\ UNCHANGED <<mode, memory, resolved, audit>>

-----------------------------------------------------------------------------
\* An escalate that asks about the conflicts of a CRITICAL incident only.
FirstPromptDropsConflicts(r, d) == IF r.severity = "CRITICAL" THEN "critical" ELSE "audit"

(***************************************************************************)
(* What escalate does first that can block: the CRITICAL confirmation, the *)
(* acknowledgment of unresolved conflicts for any lower severity, or       *)
(* neither.  A CRITICAL incident is not asked about its conflicts again.   *)
(***************************************************************************)
FirstPrompt(r, d) ==
    IF r.severity = "CRITICAL" THEN "critical"
    ELSE IF d.unresolved > 0 THEN "conflicts" ELSE "audit"

\* The multi-agent coordinator adds the diagnosis's low-confidence claims to a report without.
CarryLowClaims(r, d) ==
    IF multiAgent THEN [r EXCEPT !.low = @ \/ d.claims \cap LowLevels # {}] ELSE r

\* run_cycle has its report: copy the low-confidence claims and call escalate.
Escalate(r) ==
    /\ report' = CarryLowClaims(r, diagnosis)
    /\ pc' = FirstPrompt(r, diagnosis)

(***************************************************************************)
(* The Report agent answers.  _parse_incident falls back to a MEDIUM       *)
(* report if the answer is not an IncidentReport.  An oversized diagnosis  *)
(* never gets here: DiagnosticToReportHandoff raises first.                *)
(***************************************************************************)
ReportReturns(r) ==
    /\ pc = "report"
    /\ ~diagnosis.oversized
    /\ Escalate(r)
    /\ UNCHANGED <<mode, verdict, answers, memory, diagnosis, attempt, outcome, audit>>

\* _fallback_report: MEDIUM, whatever the diagnosis says.
FallbackReport(transient) ==
    [severity |-> "MEDIUM", low |-> FALSE,
     origin |-> IF transient THEN "transient" ELSE "permanent"]

\* _retry_subagent that gives up one attempt early.
RetriesEarly(transient) == transient /\ attempt + 1 < MaxRetries

\* _retry_subagent that makes one attempt too many.
RetriesOnceMore(transient) == transient /\ attempt <= MaxRetries

\* _retry_subagent tries again: the error is transient and attempts are left.
Retries(transient) == transient /\ attempt < MaxRetries

\* The error of the Report agent: the API's, or the handoff's ValueError for a large diagnosis.
ReportError(transient) == pc = "report" /\ (transient => ~diagnosis.oversized)

\* _retry_subagent sleeps and calls _spawn_report_agent again.
ReportRetries(transient) ==
    /\ ReportError(transient)
    /\ multiAgent
    /\ Retries(transient)
    /\ attempt' = attempt + 1
    /\ UNCHANGED <<mode, verdict, answers, pc, memory, diagnosis, report, outcome, audit>>

\* _retry_subagent gives up: run_cycle escalates the fallback report.
ReportGivesUp(transient) ==
    /\ ReportError(transient)
    /\ multiAgent
    /\ ~Retries(transient)
    /\ Escalate(FallbackReport(transient))
    /\ UNCHANGED <<mode, verdict, answers, memory, diagnosis, attempt, outcome, audit>>

\* In single-agent mode the call is not wrapped: the exception ends the cycle.
ReportRaises(transient) ==
    /\ ReportError(transient)
    /\ ~multiAgent
    /\ EndCycle("failed")
    /\ UNCHANGED <<mode, memory, resolved, audit>>

\* _handle_critical's input() returns, or meets the end of the input.
AnswerCritical(a) ==
    /\ pc = "critical"
    /\ approved' = a
    /\ pc' = "audit"
    /\ UNCHANGED <<mode, verdict, work, memory, acknowledged, outcome, audit>>

\* _confirm_unresolved_conflicts' input() returns, or meets the end of the input.
AnswerConflicts(a) ==
    /\ pc = "conflicts"
    /\ acknowledged' = a
    /\ pc' = "audit"
    /\ UNCHANGED <<mode, verdict, work, memory, approved, outcome, audit>>

\* The line log_incident appends for this cycle.
NewEntry ==
    [boot |-> boot, cycle |-> cycle, fp |-> delta.fp, status |-> delta.status,
     first |-> memory[delta.fp].first]

\* log_incident appends its line, escalate returns, the incident is marked, the report returned.
WriteAudit ==
    /\ pc = "audit"
    /\ audit' = audit \cup {NewEntry}
    /\ memory' = MarkReported(memory, delta.fp)
    /\ EndCycle("report")
    /\ UNCHANGED <<mode, resolved>>

\* An audit failure that is swallowed: the report counts as filed.
AuditFailsSwallowed ==
    /\ pc = "audit"
    /\ memory' = MarkReported(memory, delta.fp)
    /\ EndCycle("report")
    /\ UNCHANGED <<mode, resolved, audit>>

\* An audit failure answered by asking the Report agent again.
AuditFailsRetried ==
    /\ pc = "audit"
    /\ pc' = "report"
    /\ UNCHANGED <<mode, verdict, work, answers, memory, outcome, audit>>

\* _append raises (the disk, the permissions): nothing is marked, run_loop logs the failure.
AuditFails ==
    /\ pc = "audit"
    /\ EndCycle("failed")
    /\ UNCHANGED <<mode, memory, resolved, audit>>

(***************************************************************************)
(* The process dies (SIGKILL, Ctrl-C, the host) and is started again, in   *)
(* the same mode: everything but the audit file is gone.  Dying between    *)
(* the append and mark_reported leaves the same state as dying after it.   *)
(***************************************************************************)
Restart ==
    /\ boot < MaxRestarts
    /\ boot' = boot + 1
    /\ cycle' = 0
    /\ memory' = [f \in {} |-> None]
    /\ resolved' = {}
    /\ EndCycle("none")
    /\ UNCHANGED <<multiAgent, audit>>

-----------------------------------------------------------------------------
\* What the Report agent's answer becomes: any report of its own, or the unparsed fallback.
AgentReports ==
    {r \in Report : r.origin = "agent"} \cup
    {[severity |-> "MEDIUM", low |-> FALSE, origin |-> "unparsed"]}

Detect ==
    \/ DetectHealthy
    \/ DetectFails
    \/ \E f \in Fingerprints, v \in Reading, big \in BOOLEAN : DetectAnomaly(f, v, big)

Diagnose == DiagnosticsFail \/ \E d \in Diagnoses : DiagnosticsReturn(d)

WriteReport ==
    \/ \E r \in AgentReports : ReportReturns(r)
    \/ \E transient \in BOOLEAN :
        ReportRetries(transient) \/ ReportGivesUp(transient) \/ ReportRaises(transient)

Human == \E a \in Answer \ {"unasked"} : AnswerCritical(a) \/ AnswerConflicts(a)

Finish == WriteAudit \/ AuditFails

\* The process has run its cycles: with MaxCycles = 1, --single-cycle exits here.
Done == pc = "idle" /\ cycle + boot >= MaxCycles /\ UNCHANGED vars

Next ==
    StartCycle \/ Detect \/ Diagnose \/ WriteReport \/ Human \/ Finish \/ Restart \/ Done

(***************************************************************************)
(* The SDK's calls time out and the event loop runs what is ready, so the  *)
(* coordinator keeps moving.  A prompt has no timeout: that a human (or    *)
(* the end of a closed input) answers it is an assumption of its own.      *)
(***************************************************************************)
CoordinatorFairness == WF_vars(StartCycle \/ Detect \/ Diagnose \/ WriteReport \/ Finish)
HumanFairness == WF_vars(Human)

Spec == Init /\ [][Next]_vars
FairSpec == Spec /\ CoordinatorFairness /\ HumanFairness

-----------------------------------------------------------------------------
\* The types of the variables, and which of them are set where.
TypeOK ==
    /\ multiAgent \in BOOLEAN
    /\ pc \in PCs
    /\ boot \in 0..MaxRestarts
    /\ cycle \in 0..MaxCycles
    /\ IsMemory(memory)
    /\ delta \in Delta \cup {None}
    /\ resolved \subseteq Fingerprints
    /\ diagnosis \in Diagnosis \cup {None}
    /\ attempt \in 0..MaxRetries
    /\ report \in Report \cup {None}
    /\ approved \in Answer
    /\ acknowledged \in Answer
    /\ outcome \in {"none", "report", "failed"}
    /\ audit \subseteq Entry

\* The lines this process wrote about fingerprint f since cycle c.
FiledSince(f, c) == {e \in audit : e.boot = boot /\ e.fp = f /\ e.cycle >= c}

\* This step's detection returned fingerprint f.
Sighted(f) ==
    pc = "detect" /\ boot' = boot /\ f \in DOMAIN memory' /\ memory'[f].last = cycle

(***************************************************************************)
(* A sighting is suppressed only if the audit file has a line about this   *)
(* very occurrence of the incident.  Every way an earlier cycle can have   *)
(* ended between observe and mark_reported (a diagnosis that fails or is   *)
(* gated, an exception, an audit file that can't be written) has to leave  *)
(* the report owed.                                                        *)
(***************************************************************************)
SuppressedIsOnFile ==
    [][\A f \in Fingerprints : Sighted(f) /\ pc' = "idle"
        => FiledSince(f, memory'[f].first) # {}]_vars

(***************************************************************************)
(* An occurrence that only persists is on file once: a line written for an *)
(* "ongoing" sighting is the first of its occurrence, so the reports after *)
(* it are for a worsening or for a new occurrence.                         *)
(***************************************************************************)
ReportedOncePerOccurrence ==
    Dedup => \A d, e \in audit :
        d.boot = e.boot /\ d.fp = e.fp /\ e.first <= d.cycle /\ d.cycle < e.cycle
            => e.status # "ongoing"

(***************************************************************************)
(* run_cycle returns a report exactly when the audit file has the line of  *)
(* that cycle: no report is returned unfiled, and a cycle that returns None*)
(* or fails has filed nothing.                                             *)
(***************************************************************************)
ReturnedIffFiled ==
    pc = "idle" /\ cycle > 0 =>
        (outcome = "report" <=> \E e \in audit : e.boot = boot /\ e.cycle = cycle)

(***************************************************************************)
(* In multi-agent mode nothing is filed about a diagnosis that is a parse  *)
(* error, has no claims or has only LOW and UNSOURCED ones, and a report   *)
(* whose diagnosis has such claims names some to the operator.             *)
(***************************************************************************)
FiledIsSubstantiated ==
    [][audit' # audit /\ multiAgent =>
        /\ \E level \in {"HIGH", "MEDIUM"} : level \in diagnosis.claims
        /\ diagnosis.claims \cap LowLevels # {} => report.low]_vars

(***************************************************************************)
(* No diagnosis with unresolved conflicts and no CRITICAL incident reaches *)
(* the audit file without exactly one prompt to the human in its cycle, and*)
(* nothing else asks.                                                      *)
(***************************************************************************)
AskedExactlyOnce ==
    [][audit' # audit =>
        /\ approved # "unasked" <=> report.severity = "CRITICAL"
        /\ acknowledged # "unasked" <=>
                diagnosis.unresolved > 0 /\ report.severity # "CRITICAL"]_vars

(***************************************************************************)
(* A transient error of the Report agent costs the report its own severity *)
(* only after every configured retry, and a permanent one is not retried.  *)
(***************************************************************************)
FallbackAfterRetries ==
    report # None =>
        /\ report.origin = "transient" => attempt = MaxRetries
        /\ diagnosis.oversized => report.origin = "permanent" /\ attempt = 0

(***************************************************************************)
(* The detection prompt and the gauge agree: the incidents prior_context   *)
(* says are carried over are the ones observe would not call new.          *)
(***************************************************************************)
PromptAgreesWithGauge ==
    pc = "detect" => \A f \in Fingerprints, v \in Reading :
        f \in PriorContext(memory, cycle) <=> StatusOf(memory, f, v, cycle) # "new"

(***************************************************************************)
(* If the API calls end and someone answers the prompts, every cycle ends: *)
(* the loop sleeps and polls again.                                        *)
(***************************************************************************)
CycleEnds == pc # "idle" ~> pc = "idle"

-----------------------------------------------------------------------------
\* The operator's view: what is pursued, what the memory calls reported, the audit file.
Reporting == INSTANCE IncidentReporting WITH
    pursued <- delta,
    told <- {f \in DOMAIN memory : memory[f].reported},
    filed <- audit

(***************************************************************************)
(* The coordinator with its cycles, retries, gates, prompts and crashes    *)
(* files reports only as IncidentReporting allows: once per occurrence, and*)
(* again only for a worsening, a new occurrence, or after a restart.       *)
(***************************************************************************)
RefinesReporting == Reporting!Spec
===============================================================================
