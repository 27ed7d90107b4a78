-------------------------- MODULE MonitorCycleProofs --------------------------
(***************************************************************************)
(* Proofs about MonitorCycle, for every set of fingerprints, readings and  *)
(* diagnoses and every value of the configuration.                         *)
(***************************************************************************)
EXTENDS MonitorCycle, TLAPS

(***************************************************************************)
(* The inductive invariant.  What a cycle has got so far follows from where*)
(* it is.                                                                  *)
(***************************************************************************)
LocalsOK ==
    /\ delta = None <=> pc \in {"idle", "detect"}
    /\ diagnosis = None <=> pc \in {"idle", "detect", "diagnose"}
    /\ report = None <=> pc \in {"idle", "detect", "diagnose", "report"}
    /\ pc \in {"idle", "detect", "diagnose"} => attempt = 0
    /\ delta # None => delta.fp \in DOMAIN memory
    /\ pc # "idle" => outcome = "none"

\* The gauge's cycle numbers: nothing it remembers is of the future.
MemoryClock ==
    \A f \in DOMAIN memory :
        /\ memory[f].first <= memory[f].last
        /\ memory[f].last <= cycle
        /\ pc = "detect" => memory[f].last < cycle

\* The file's cycle numbers: a line of this cycle exists only if the cycle ended with a report.
FileClock ==
    \A e \in audit :
        /\ e.boot <= boot
        /\ e.boot = boot => e.cycle <= cycle
        /\ e.boot = boot /\ e.cycle = cycle => pc = "idle" /\ outcome = "report"

\* The returned report of the last cycle is on file.
LastReportOnFile ==
    outcome = "report" => \E e \in audit : e.boot = boot /\ e.cycle = cycle

\* The gauge and the file agree on what has been reported.
GaugeMatchesFile ==
    \A f \in DOMAIN memory : memory[f].reported <=> FiledSince(f, memory[f].first) # {}

\* A sighting that is pursued though nothing changed is owed its first report.
PursuedIsOwed ==
    Dedup /\ delta # None =>
        (delta.status = "ongoing" => ~memory[delta.fp].reported)

IInv ==
    /\ TypeOK
    /\ LocalsOK
    /\ MemoryClock
    /\ FileClock
    /\ LastReportOnFile
    /\ GaugeMatchesFile
    /\ PursuedIsOwed
    /\ ReportedOncePerOccurrence

-----------------------------------------------------------------------------
(* The gauge's operators. *)

\* The record of an incident that is sighted again.
LEMMA AgainType ==
    ASSUME NEW r \in Incident, NEW v \in Reading, NEW c \in Nat
    PROVE  /\ Again(r, v, c) \in Incident
           /\ Again(r, v, c).last = c
           /\ Again(r, v, c).first = r.first
           /\ Again(r, v, c).reported = r.reported
BY DEF Again, Incident

\* observe keeps the memory a dictionary of incidents.
LEMMA ObserveType ==
    ASSUME NEW m, IsMemory(m), NEW f \in Fingerprints, NEW v \in Reading, NEW c \in Nat
    PROVE  IsMemory(Observe(m, f, v, c)) /\ DOMAIN Observe(m, f, v, c) = DOMAIN m \cup {f}
<1>1. \A g \in DOMAIN m : m[g] \in Incident
    BY DEF IsMemory
<1>2. Fresh(v, c) \in Incident
    BY DEF Fresh, Incident
<1>3. f \in DOMAIN m => Again(m[f], v, c) \in Incident
    BY <1>1, AgainType
<1>4. StatusOf(m, f, v, c) # "new" => f \in DOMAIN m
    BY DEF StatusOf
<1> QED
    BY <1>1, <1>2, <1>3, <1>4 DEF Observe, IsMemory

\* The record observe leaves for the incident it was called with.
LEMMA ObserveSame ==
    ASSUME NEW m, IsMemory(m), NEW f \in Fingerprints, NEW v \in Reading, NEW c \in Nat
    PROVE  /\ Observe(m, f, v, c)[f].last = c
           /\ StatusOf(m, f, v, c) = "new" =>
                /\ Observe(m, f, v, c)[f].first = c
                /\ ~Observe(m, f, v, c)[f].reported
           /\ StatusOf(m, f, v, c) # "new" =>
                /\ f \in DOMAIN m
                /\ Observe(m, f, v, c)[f].first = m[f].first
                /\ Observe(m, f, v, c)[f].reported = m[f].reported
<1>1. CASE StatusOf(m, f, v, c) = "new"
    <2>1. Observe(m, f, v, c)[f] = Fresh(v, c)
        BY <1>1 DEF Observe
    <2> QED
        BY <1>1, <2>1 DEF Fresh
<1>2. CASE StatusOf(m, f, v, c) # "new"
    <2>1. f \in DOMAIN m
        BY <1>2 DEF StatusOf
    <2>2. Observe(m, f, v, c)[f] = Again(m[f], v, c)
        BY <1>2 DEF Observe
    <2>3. m[f] \in Incident
        BY <2>1 DEF IsMemory
    <2> QED
        BY <1>2, <2>1, <2>2, <2>3, AgainType
<1> QED
    BY <1>1, <1>2

\* observe leaves the other incidents alone.
LEMMA ObserveOther ==
    ASSUME NEW m, NEW f, NEW v, NEW c, NEW g \in DOMAIN m, g # f
    PROVE  Observe(m, f, v, c)[g] = m[g]
BY DEF Observe

\* mark_reported sets one flag and changes nothing else.
LEMMA MarkType ==
    ASSUME NEW m, IsMemory(m), NEW f \in DOMAIN m
    PROVE  /\ IsMemory(MarkReported(m, f))
           /\ DOMAIN MarkReported(m, f) = DOMAIN m
           /\ MarkReported(m, f)[f].reported
           /\ MarkReported(m, f)[f].first = m[f].first
           /\ MarkReported(m, f)[f].last = m[f].last
           /\ \A g \in DOMAIN m \ {f} : MarkReported(m, f)[g] = m[g]
<1>1. m \in [DOMAIN m -> Incident] /\ m[f] \in Incident
    BY DEF IsMemory
<1>2. MarkReported(m, f) = [m EXCEPT ![f].reported = TRUE]
    BY DEF MarkReported
<1>3. [m[f] EXCEPT !.reported = TRUE] \in Incident
    BY <1>1 DEF Incident
<1> QED
    BY <1>1, <1>2, <1>3 DEF IsMemory, Incident

-----------------------------------------------------------------------------
(* The inductive invariant holds initially and is kept by every step. *)

LEMMA InitInv == Init => IInv
<1> SUFFICES ASSUME Init PROVE IInv
    OBVIOUS
<1> USE MonitorAssumption
<1>1. DOMAIN memory = {} /\ IsMemory(memory)
    BY DEF Init, IsMemory
<1>2. TypeOK
    BY <1>1 DEF Init, TypeOK, PCs, Answer
<1> QED
    BY <1>1, <1>2 DEF Init, IInv, LocalsOK, MemoryClock, FileClock, LastReportOnFile,
        GaugeMatchesFile, PursuedIsOwed, ReportedOncePerOccurrence

(***************************************************************************)
(* A cycle that ends without a report and without touching the gauge or the*)
(* file: healthy, failed, aborted or gated.                                *)
(***************************************************************************)
LEMMA QuietEnd ==
    ASSUME IInv, pc # "idle", UNCHANGED <<mode, memory, audit>>,
           resolved' \subseteq Fingerprints,
           NEW how \in {"none", "failed"}, EndCycle(how)
    PROVE  IInv'
<1> USE MonitorAssumption DEF IInv, EndCycle, NoLocals, mode
<1>1. TypeOK'
    BY DEF TypeOK, PCs, Answer
<1>2. LocalsOK'
    BY DEF LocalsOK
<1>3. MemoryClock'
    BY DEF MemoryClock
<1>4. FileClock' /\ LastReportOnFile'
    BY DEF FileClock, LastReportOnFile
<1>5. GaugeMatchesFile' /\ PursuedIsOwed'
    BY DEF GaugeMatchesFile, FiledSince, PursuedIsOwed
<1>6. ReportedOncePerOccurrence'
    BY DEF ReportedOncePerOccurrence
<1> QED
    BY <1>1, <1>2, <1>3, <1>4, <1>5, <1>6

(***************************************************************************)
(* A step from one wait of a cycle to the next, after its detection.       *)
(***************************************************************************)
LEMMA QuietMove ==
    ASSUME IInv, pc \notin {"idle", "detect"}, pc' \notin {"idle", "detect"},
           UNCHANGED <<mode, verdict, memory, outcome, audit>>,
           TypeOK', LocalsOK'
    PROVE  IInv'
<1> USE DEF IInv, mode, verdict
<1>1. MemoryClock'
    BY DEF MemoryClock
<1>2. FileClock' /\ LastReportOnFile'
    BY DEF FileClock, LastReportOnFile
<1>3. GaugeMatchesFile' /\ PursuedIsOwed'
    BY DEF GaugeMatchesFile, FiledSince, PursuedIsOwed
<1>4. ReportedOncePerOccurrence'
    BY DEF ReportedOncePerOccurrence
<1> QED
    BY <1>1, <1>2, <1>3, <1>4

LEMMA StartInv == IInv /\ StartCycle => IInv'
<1> SUFFICES ASSUME IInv, StartCycle PROVE IInv'
    OBVIOUS
<1> USE MonitorAssumption DEF IInv, StartCycle, work, answers
<1>0. boot \in Nat /\ cycle \in Nat /\ cycle' = cycle + 1
    BY DEF TypeOK
<1>1. TypeOK'
    BY <1>0 DEF TypeOK, PCs
<1>2. LocalsOK'
    BY DEF LocalsOK
<1>3. MemoryClock'
    <2>1. \A f \in DOMAIN memory : memory[f] \in Incident
        BY DEF TypeOK, IsMemory
    <2> QED
        BY <1>0, <2>1 DEF MemoryClock, Incident
<1>4. FileClock' /\ LastReportOnFile'
    <2>1. audit \subseteq Entry
        BY DEF TypeOK
    <2> QED
        BY <1>0, <2>1 DEF FileClock, LastReportOnFile, Entry
<1>5. GaugeMatchesFile' /\ PursuedIsOwed'
    BY DEF GaugeMatchesFile, FiledSince, PursuedIsOwed, LocalsOK
<1>6. ReportedOncePerOccurrence'
    BY DEF ReportedOncePerOccurrence
<1> QED
    BY <1>1, <1>2, <1>3, <1>4, <1>5, <1>6

\* The lines of this process about f since a cycle that has not ended are none.
LEMMA NothingFiledYet ==
    ASSUME IInv, pc # "idle", NEW f
    PROVE  FiledSince(f, cycle) = {}
<1>1. audit \subseteq Entry /\ cycle \in Nat
    BY MonitorAssumption DEF IInv, TypeOK
<1> QED
    BY <1>1 DEF IInv, FileClock, FiledSince, Entry

LEMMA SightingInv ==
    ASSUME IInv, NEW f \in Fingerprints, NEW v \in Reading, NEW big \in BOOLEAN,
           DetectAnomaly(f, v, big)
    PROVE  IInv'
<1> DEFINE status == StatusOf(memory, f, v, cycle)
           reports == ShouldReport(status, memory'[f])
<1> USE MonitorAssumption DEF IInv
<1>1. /\ pc = "detect" /\ UNCHANGED <<multiAgent, boot, cycle, audit>>
      /\ memory' = Observe(memory, f, v, cycle)
      /\ resolved' = ResolvedBy(memory, f, cycle)
    BY DEF DetectAnomaly, mode
<1>2. \/ /\ reports
         /\ delta' = [fp |-> f, status |-> status]
         /\ pc' = IF multiAgent THEN "diagnose" ELSE "report"
         /\ diagnosis' = IF multiAgent THEN None ELSE DetectionDiagnosis(big)
         /\ UNCHANGED <<answers, attempt, report, outcome>>
      \/ /\ pc' = "idle" /\ outcome' = "none" /\ delta' = None /\ diagnosis' = None
         /\ attempt' = 0 /\ report' = None /\ approved' = "unasked"
         /\ acknowledged' = "unasked"
    BY DEF DetectAnomaly, EndCycle, NoLocals
<1>3. cycle \in Nat /\ boot \in Nat /\ IsMemory(memory) /\ audit \subseteq Entry
    BY DEF TypeOK
<1>4. IsMemory(memory') /\ DOMAIN memory' = DOMAIN memory \cup {f}
    BY <1>1, <1>3, ObserveType
<1>5. /\ memory'[f].last = cycle
      /\ status = "new" => memory'[f].first = cycle /\ ~memory'[f].reported
      /\ status # "new" => /\ f \in DOMAIN memory
                           /\ memory'[f].first = memory[f].first
                           /\ memory'[f].reported = memory[f].reported
    BY <1>1, <1>3, ObserveSame
<1>6. \A g \in DOMAIN memory : g # f => memory'[g] = memory[g]
    BY <1>1, ObserveOther
<1>7. status \in Statuses
    BY DEF StatusOf, Statuses
<1>8. DetectionDiagnosis(big) \in Diagnosis
    BY DEF DetectionDiagnosis, Diagnosis
<1>9. delta = None /\ diagnosis = None /\ report = None /\ attempt = 0 /\ outcome = "none"
    BY <1>1 DEF LocalsOK
<1>10. TypeOK'
    <2>1. resolved' \subseteq Fingerprints
        BY <1>1, <1>3 DEF ResolvedBy, IsMemory
    <2>2. [fp |-> f, status |-> status] \in Delta
        BY <1>7 DEF Delta
    <2> QED
        BY <1>1, <1>2, <1>4, <1>8, <1>9, <2>1, <2>2 DEF TypeOK, PCs, Answer, answers
<1>11. LocalsOK'
    <2>1. [fp |-> f, status |-> status] # None /\ DetectionDiagnosis(big) # None
        BY <1>7, <1>8 DEF Delta
    <2>2. [fp |-> f, status |-> status].fp \in DOMAIN memory'
        BY <1>4
    <2> QED
        BY <1>2, <1>9, <2>1, <2>2 DEF LocalsOK
<1>12. pc' # "detect"
    BY <1>2
<1>13. MemoryClock'
    <2>1. \A g \in DOMAIN memory : memory[g] \in Incident
        BY <1>3 DEF IsMemory
    <2> QED
        BY <1>1, <1>3, <1>4, <1>5, <1>6, <1>12, <2>1 DEF MemoryClock, Incident
<1>14. FileClock'
    <2>1. \A e \in audit : ~(e.boot = boot /\ e.cycle = cycle)
        BY <1>1 DEF FileClock
    <2> QED
        BY <1>1, <2>1 DEF FileClock
<1>15. LastReportOnFile'
    BY <1>2, <1>9 DEF LastReportOnFile
<1>16. GaugeMatchesFile'
    <2>1. FiledSince(f, cycle) = {}
        BY <1>1, NothingFiledYet
    <2>2. \A g, c : FiledSince(g, c)' = FiledSince(g, c)
        BY <1>1 DEF FiledSince
    <2>3. memory'[f].reported <=> FiledSince(f, memory'[f].first) # {}
        BY <1>5, <2>1 DEF GaugeMatchesFile
    <2>4. ASSUME NEW g \in DOMAIN memory, g # f
          PROVE  memory'[g].reported <=> FiledSince(g, memory'[g].first) # {}
        BY <1>1, <1>6, <2>4 DEF GaugeMatchesFile
    <2>5. \A g \in DOMAIN memory' : memory'[g].reported <=> FiledSince(g, memory'[g].first) # {}
        BY <1>4, <2>3, <2>4
    <2> QED
        BY <2>2, <2>5 DEF GaugeMatchesFile
<1>17. PursuedIsOwed'
    <2>1. reports /\ Dedup /\ status = "ongoing" => ~memory'[f].reported
        BY DEF ShouldReport
    <2>2. [fp |-> f, status |-> status].fp = f /\ [fp |-> f, status |-> status].status = status
        OBVIOUS
    <2> QED
        BY <1>2, <2>1, <2>2 DEF PursuedIsOwed
<1>18. ReportedOncePerOccurrence'
    BY <1>1 DEF ReportedOncePerOccurrence
<1> QED
    BY <1>10, <1>11, <1>13, <1>14, <1>15, <1>16, <1>17, <1>18

LEMMA WriteAuditInv == IInv /\ WriteAudit => IInv'
<1> SUFFICES ASSUME IInv, WriteAudit PROVE IInv'
    OBVIOUS
<1>0. PICK f : f = delta.fp
    OBVIOUS
<1> USE MonitorAssumption DEF IInv
<1>1. /\ pc = "audit" /\ pc' = "idle" /\ outcome' = "report" /\ NoLocals
      /\ UNCHANGED <<multiAgent, boot, cycle, resolved>>
      /\ audit' = audit \cup {NewEntry}
      /\ memory' = MarkReported(memory, f)
    BY <1>0 DEF WriteAudit, EndCycle, mode
<1>2. cycle \in Nat /\ boot \in Nat /\ IsMemory(memory) /\ audit \subseteq Entry
    BY DEF TypeOK
<1>3. delta \in Delta /\ delta # None /\ f \in DOMAIN memory
    BY <1>0, <1>1 DEF TypeOK, LocalsOK
<1>4. f \in Fingerprints /\ delta.status \in Statuses
    BY <1>0, <1>3 DEF Delta
<1>5. memory[f] \in Incident
    BY <1>2, <1>3 DEF IsMemory
<1>6. memory[f].first \in Nat /\ memory[f].last \in Nat /\ memory[f].first <= cycle
    BY <1>2, <1>3, <1>5 DEF Incident, MemoryClock
<1>7. /\ NewEntry \in Entry
      /\ NewEntry.boot = boot /\ NewEntry.cycle = cycle /\ NewEntry.fp = f
      /\ NewEntry.status = delta.status /\ NewEntry.first = memory[f].first
    BY <1>0, <1>2, <1>4, <1>6 DEF NewEntry, Entry
<1>8. /\ IsMemory(memory')
      /\ DOMAIN memory' = DOMAIN memory
      /\ memory'[f].reported
      /\ memory'[f].first = memory[f].first
      /\ memory'[f].last = memory[f].last
      /\ \A g \in DOMAIN memory \ {f} : memory'[g] = memory[g]
    BY <1>1, <1>2, <1>3, MarkType
<1>9. TypeOK'
    BY <1>1, <1>7, <1>8 DEF TypeOK, PCs, Answer, NoLocals
<1>10. LocalsOK'
    BY <1>1 DEF LocalsOK, NoLocals
<1>11. MemoryClock'
    BY <1>1, <1>8 DEF MemoryClock
<1>12. FileClock' /\ LastReportOnFile'
    BY <1>1, <1>2, <1>7 DEF FileClock, LastReportOnFile, Entry
<1>13. GaugeMatchesFile'
    <2>1. NewEntry \in FiledSince(f, memory[f].first)'
        <3>1. NewEntry \in audit' /\ NewEntry.cycle >= memory[f].first
            BY <1>1, <1>2, <1>6, <1>7
        <3> QED
            BY <1>1, <1>7, <1>8, <3>1 DEF FiledSince
    <2>2. \A g \in DOMAIN memory \ {f} :
            FiledSince(g, memory[g].first)' = FiledSince(g, memory[g].first)
        BY <1>1, <1>7, <1>8 DEF FiledSince
    <2> QED
        BY <1>8, <2>1, <2>2 DEF GaugeMatchesFile
<1>14. PursuedIsOwed'
    BY <1>1 DEF PursuedIsOwed, NoLocals
<1>15. ReportedOncePerOccurrence'
    <2> SUFFICES ASSUME Dedup, NEW d \in audit', NEW e \in audit',
                        d.boot = e.boot, d.fp = e.fp, e.first <= d.cycle, d.cycle < e.cycle
                 PROVE  e.status # "ongoing"
        BY DEF ReportedOncePerOccurrence
    <2>1. CASE d \in audit /\ e \in audit
        BY <2>1 DEF ReportedOncePerOccurrence
    <2>2. CASE d = NewEntry
        <3>1. e.cycle <= cycle /\ e.cycle \in Nat
            BY <1>1, <1>2, <1>7, <2>2 DEF FileClock, Entry
        <3> QED
            BY <1>2, <1>7, <2>2, <3>1 DEF Entry
    <2>3. CASE d \in audit /\ e = NewEntry
        <3>1. d \in FiledSince(f, memory[f].first)
            BY <1>2, <1>6, <1>7, <2>3 DEF FiledSince, Entry
        <3>2. memory[f].reported
            BY <1>3, <3>1 DEF GaugeMatchesFile
        <3> QED
            BY <1>0, <1>3, <1>7, <2>3, <3>2 DEF PursuedIsOwed
    <2> QED
        BY <1>1, <2>1, <2>2, <2>3
<1> QED
    BY <1>9, <1>10, <1>11, <1>12, <1>13, <1>14, <1>15

LEMMA RestartInv == IInv /\ Restart => IInv'
<1> SUFFICES ASSUME IInv, Restart PROVE IInv'
    OBVIOUS
<1> USE MonitorAssumption DEF IInv, Restart, EndCycle, NoLocals
<1>1. boot \in Nat /\ boot' = boot + 1 /\ audit' = audit /\ audit \subseteq Entry
    BY DEF TypeOK
<1>2. DOMAIN memory' = {} /\ IsMemory(memory')
    BY DEF IsMemory
<1>3. TypeOK'
    BY <1>1, <1>2 DEF TypeOK, PCs, Answer
<1>4. LocalsOK' /\ PursuedIsOwed'
    BY DEF LocalsOK, PursuedIsOwed
<1>5. MemoryClock' /\ GaugeMatchesFile'
    BY <1>2 DEF MemoryClock, GaugeMatchesFile
<1>6. FileClock' /\ LastReportOnFile'
    BY <1>1 DEF FileClock, LastReportOnFile, Entry
<1>7. ReportedOncePerOccurrence'
    BY DEF ReportedOncePerOccurrence
<1> QED
    BY <1>3, <1>4, <1>5, <1>6, <1>7

\* What CarryLowClaims and the prompts make of a report.
LEMMA EscalateType ==
    ASSUME TypeOK, NEW r \in Report, diagnosis \in Diagnosis, Escalate(r)
    PROVE  report' \in Report /\ pc' \in {"critical", "conflicts", "audit"}
<1>1. pc' \in {"critical", "conflicts", "audit"}
    BY DEF Escalate, FirstPrompt
<1>2. CarryLowClaims(r, diagnosis) \in Report
    <2>1. CASE multiAgent
        <3> DEFINE low == r.low \/ diagnosis.claims \cap LowLevels # {}
        <3>1. CarryLowClaims(r, diagnosis)
                = [severity |-> r.severity, low |-> low, origin |-> r.origin]
            BY <2>1 DEF CarryLowClaims, Report
        <3> QED
            BY <3>1 DEF Report
    <2>2. CASE ~multiAgent
        BY <2>2 DEF CarryLowClaims
    <2> QED
        BY <2>1, <2>2
<1> QED
    BY <1>1, <1>2 DEF Escalate

LEMMA StepInv == IInv /\ [Next]_vars => IInv'
<1> SUFFICES ASSUME IInv, [Next]_vars PROVE IInv'
    OBVIOUS
<1> USE MonitorAssumption
<1>0. TypeOK /\ LocalsOK
    BY DEF IInv
<1>1. CASE StartCycle
    BY <1>1, StartInv
<1>2. CASE DetectHealthy
    <2>1. resolved' \subseteq Fingerprints
        BY <1>0, <1>2 DEF DetectHealthy, AllClear, TypeOK, IsMemory
    <2> QED
        BY <1>2, <2>1, QuietEnd DEF DetectHealthy
<1>3. CASE DetectFails
    BY <1>0, <1>3, QuietEnd DEF DetectFails, TypeOK
<1>4. CASE \E f \in Fingerprints, v \in Reading, big \in BOOLEAN : DetectAnomaly(f, v, big)
    BY <1>4, SightingInv
<1>5. CASE DiagnosticsFail
    BY <1>0, <1>5, QuietEnd DEF DiagnosticsFail, TypeOK
<1>6. ASSUME NEW d \in Diagnoses, DiagnosticsReturn(d)
      PROVE  IInv'
    <2>1. d \in Diagnosis /\ d # None
        OBVIOUS
    <2>2. CASE Reportable(d)
        <3>1. TypeOK'
            BY <1>0, <1>6, <2>1, <2>2 DEF DiagnosticsReturn, TypeOK, PCs, mode, answers
        <3>2. LocalsOK'
            BY <1>0, <1>6, <2>1, <2>2 DEF DiagnosticsReturn, LocalsOK
        <3> QED
            BY <1>6, <2>2, <3>1, <3>2, QuietMove DEF DiagnosticsReturn, verdict
    <2>3. CASE ~Reportable(d)
        BY <1>0, <1>6, <2>3, QuietEnd DEF DiagnosticsReturn, TypeOK
    <2> QED
        BY <2>2, <2>3
<1>7. ASSUME NEW r \in Report, pc = "report", Escalate(r),
             UNCHANGED <<mode, verdict, answers, memory, diagnosis, attempt, outcome, audit>>
      PROVE  IInv'
    <2>1. diagnosis \in Diagnosis
        BY <1>0, <1>7 DEF TypeOK, LocalsOK
    <2>2. report' \in Report /\ pc' \in {"critical", "conflicts", "audit"}
        BY <1>0, <1>7, <2>1, EscalateType
    <2>3. TypeOK'
        BY <1>0, <1>7, <2>2 DEF TypeOK, PCs, mode, verdict, answers
    <2>4. LocalsOK'
        BY <1>0, <1>7, <2>2 DEF LocalsOK, verdict
    <2> QED
        BY <1>7, <2>2, <2>3, <2>4, QuietMove
<1>8. CASE \E r \in AgentReports : ReportReturns(r)
    <2>1. [severity |-> "MEDIUM", low |-> FALSE, origin |-> "unparsed"] \in Report
        BY DEF Report, Severity
    <2>2. AgentReports \subseteq Report
        BY <2>1 DEF AgentReports
    <2> QED
        BY <1>7, <1>8, <2>2 DEF ReportReturns
<1>9. ASSUME NEW transient \in BOOLEAN, ReportRetries(transient)
      PROVE  IInv'
    <2>1. attempt' = attempt + 1 /\ attempt' \in 0..MaxRetries /\ pc = "report"
        BY <1>0, <1>9 DEF ReportRetries, ReportError, Retries, TypeOK
    <2>2. TypeOK'
        BY <1>0, <1>9, <2>1 DEF ReportRetries, TypeOK, mode, verdict, answers
    <2>3. LocalsOK'
        BY <1>0, <1>9, <2>1 DEF ReportRetries, LocalsOK, verdict
    <2> QED
        BY <1>9, <2>1, <2>2, <2>3, QuietMove DEF ReportRetries
<1>10. ASSUME NEW transient \in BOOLEAN, ReportGivesUp(transient)
       PROVE  IInv'
    <2>1. FallbackReport(transient) \in Report
        BY DEF FallbackReport, Report, Severity
    <2> QED
        BY <1>7, <1>10, <2>1 DEF ReportGivesUp, ReportError
<1>11. ASSUME NEW transient \in BOOLEAN, ReportRaises(transient)
       PROVE  IInv'
    BY <1>0, <1>11, QuietEnd DEF ReportRaises, ReportError, TypeOK
<1>12. ASSUME NEW a \in Answer, AnswerCritical(a) \/ AnswerConflicts(a)
       PROVE  IInv'
    <2>1. /\ pc \in {"critical", "conflicts"} /\ pc' = "audit"
          /\ UNCHANGED <<mode, verdict, work, memory, outcome, audit>>
          /\ approved' \in {a, approved} /\ acknowledged' \in {a, acknowledged}
        BY <1>12 DEF AnswerCritical, AnswerConflicts
    <2>2. TypeOK'
        BY <1>0, <2>1 DEF TypeOK, PCs, mode, verdict, work
    <2>3. LocalsOK'
        BY <1>0, <2>1 DEF LocalsOK, verdict, work
    <2> QED
        BY <2>1, <2>2, <2>3, QuietMove
<1>13. CASE WriteAudit
    BY <1>13, WriteAuditInv
<1>14. CASE AuditFails
    BY <1>0, <1>14, QuietEnd DEF AuditFails, TypeOK
<1>15. CASE Restart
    BY <1>15, RestartInv
<1>16. CASE UNCHANGED vars
    BY <1>16 DEF vars, IInv, TypeOK, LocalsOK, MemoryClock, FileClock, LastReportOnFile,
        GaugeMatchesFile, FiledSince, PursuedIsOwed, ReportedOncePerOccurrence
<1> QED
    BY <1>1, <1>2, <1>3, <1>4, <1>5, <1>6, <1>8, <1>9, <1>10, <1>11, <1>12, <1>13, <1>14,
        <1>15, <1>16
        DEF Next, Detect, Diagnose, WriteReport, Human, Finish, Done

LEMMA Invariance == Spec => []IInv
    BY InitInv, StepInv, PTL DEF Spec

(***************************************************************************)
(* Every variable keeps its type.                                          *)
(***************************************************************************)
THEOREM TypeCorrect == Spec => []TypeOK
<1>1. IInv => TypeOK
    BY DEF IInv
<1> QED
    BY <1>1, Invariance, PTL

(***************************************************************************)
(* A sighting that is suppressed has a line in the audit file about this   *)
(* occurrence of the incident, however the cycles before it ended.         *)
(***************************************************************************)
THEOREM SuppressionSound == Spec => SuppressedIsOnFile
<1>1. ASSUME IInv, IInv', [Next]_vars
      PROVE  \A f \in Fingerprints : Sighted(f) /\ pc' = "idle"
                => FiledSince(f, memory'[f].first) # {}
    <2> SUFFICES ASSUME NEW f \in Fingerprints, Sighted(f), pc' = "idle"
                 PROVE  FiledSince(f, memory'[f].first) # {}
        OBVIOUS
    <2>1. pc = "detect" /\ boot' = boot /\ f \in DOMAIN memory' /\ memory'[f].last = cycle
        BY <1>1 DEF Sighted
    <2>2. IsMemory(memory) /\ cycle \in Nat /\ MemoryClock
        BY <1>1, MonitorAssumption DEF IInv, TypeOK
    <2>3. memory' # memory
        <3>1. f \in DOMAIN memory => memory[f].last < cycle /\ memory[f] \in Incident
            BY <2>1, <2>2 DEF MemoryClock, IsMemory
        <3> QED
            BY <2>1, <2>2, <3>1 DEF Incident
    <2>4. PICK g \in Fingerprints, v \in Reading, big \in BOOLEAN : DetectAnomaly(g, v, big)
        BY <1>1, <2>1, <2>3 DEF Next, Detect, Diagnose, WriteReport, Human, Finish, Done,
            StartCycle, DetectHealthy, DetectFails, DiagnosticsFail, DiagnosticsReturn,
            ReportReturns, ReportRetries, ReportGivesUp, ReportRaises, ReportError,
            AnswerCritical, AnswerConflicts, WriteAudit, AuditFails, Restart, vars
    <2>5. memory' = Observe(memory, g, v, cycle) /\ audit' = audit
        BY <2>4 DEF DetectAnomaly
    <2>6. f = g
        <3>0. DOMAIN Observe(memory, g, v, cycle) = DOMAIN memory \cup {g}
            BY Zenon DEF Observe
        <3>1. f \in DOMAIN memory \cup {g}
            BY <2>1, <2>5, <3>0
        <3>2. f # g => memory'[f] = memory[f] /\ memory[f] \in Incident
            BY <2>2, <2>5, <3>1, ObserveOther DEF IsMemory
        <3> QED
            BY <2>1, <2>2, <3>1, <3>2 DEF MemoryClock, Incident
    <2>7. memory'[f].reported
        BY <1>1, <2>4, <2>6 DEF DetectAnomaly, ShouldReport
    <2> QED
        BY <1>1, <2>1, <2>5, <2>7 DEF IInv, GaugeMatchesFile, FiledSince
<1> QED
    BY <1>1, Invariance, PTL DEF Spec, SuppressedIsOnFile

(***************************************************************************)
(* With dedup on, a line for an "ongoing" sighting is the first of its     *)
(* occurrence in the audit file.                                           *)
(***************************************************************************)
THEOREM ReportedOnce == Spec => []ReportedOncePerOccurrence
<1>1. IInv => ReportedOncePerOccurrence
    BY DEF IInv
<1> QED
    BY <1>1, Invariance, PTL

(***************************************************************************)
(* run_cycle returns a report if and only if that cycle filed one.         *)
(***************************************************************************)
THEOREM ReturnsWhatItFiled == Spec => []ReturnedIffFiled
<1>1. IInv => ReturnedIffFiled
    BY DEF IInv, FileClock, LastReportOnFile, ReturnedIffFiled
<1> QED
    BY <1>1, Invariance, PTL

-----------------------------------------------------------------------------
(* What the coordinator carries from its sub-agents and the human to the file. *)

\* Each prompt was answered if and only if escalate asks it for this report.
PromptsOK ==
    /\ pc # "audit" => approved = "unasked" /\ acknowledged = "unasked"
    /\ pc = "critical" => report.severity = "CRITICAL"
    /\ pc = "conflicts" => report.severity # "CRITICAL" /\ diagnosis.unresolved > 0
    /\ pc = "audit" =>
        /\ approved # "unasked" <=> report.severity = "CRITICAL"
        /\ acknowledged # "unasked" <=>
                diagnosis.unresolved > 0 /\ report.severity # "CRITICAL"

\* What got past the gate is substantive, and its weak claims are in the report.
SubstanceOK ==
    /\ multiAgent /\ diagnosis # None => Reportable(diagnosis)
    /\ multiAgent /\ report # None =>
        (diagnosis.claims \cap LowLevels # {} => report.low)

\* A diagnosis too large to hand over fails at the first attempt.
RetriesOK ==
    /\ FallbackAfterRetries
    /\ diagnosis # None /\ diagnosis.oversized => attempt = 0

Carried == PromptsOK /\ SubstanceOK /\ RetriesOK

\* The end of a cycle leaves nothing to carry.
LEMMA EndCarried ==
    ASSUME NEW how, EndCycle(how)
    PROVE  Carried'
BY DEF EndCycle, NoLocals, Carried, PromptsOK, SubstanceOK, RetriesOK, FallbackAfterRetries

\* A report on its way into escalate carries the weak claims and meets the right prompt.
LEMMA EscalateCarried ==
    ASSUME IInv, Carried, NEW r \in Report, pc = "report", Escalate(r),
           UNCHANGED <<mode, answers, diagnosis, attempt>>,
           r.origin = "transient" => attempt = MaxRetries,
           diagnosis.oversized => r.origin = "permanent"
    PROVE  Carried'
<1> USE MonitorAssumption
<1>1. diagnosis \in Diagnosis /\ report' = CarryLowClaims(r, diagnosis)
    BY DEF IInv, TypeOK, LocalsOK, Escalate
<1>2. /\ report'.severity = r.severity /\ report'.origin = r.origin
      /\ multiAgent /\ diagnosis.claims \cap LowLevels # {} => report'.low
    <2>1. CASE multiAgent
        <3> DEFINE low == r.low \/ diagnosis.claims \cap LowLevels # {}
        <3>1. CarryLowClaims(r, diagnosis)
                = [severity |-> r.severity, low |-> low, origin |-> r.origin]
            BY <2>1 DEF CarryLowClaims, Report
        <3>2. report'.low = low /\ report'.severity = r.severity /\ report'.origin = r.origin
            BY <1>1, <3>1
        <3> QED
            BY <3>2
    <2>2. CASE ~multiAgent
        BY <1>1, <2>2 DEF CarryLowClaims
    <2> QED
        BY <2>1, <2>2
<1>3. PromptsOK'
    BY <1>2 DEF Carried, PromptsOK, Escalate, FirstPrompt, answers
<1>4. SubstanceOK'
    BY <1>2 DEF Carried, SubstanceOK, mode
<1>5. RetriesOK'
    BY <1>1, <1>2 DEF Carried, RetriesOK, FallbackAfterRetries
<1> QED
    BY <1>3, <1>4, <1>5 DEF Carried

LEMMA StepCarried == IInv /\ Carried /\ [Next]_vars => Carried'
<1> SUFFICES ASSUME IInv, Carried, [Next]_vars PROVE Carried'
    OBVIOUS
<1> USE MonitorAssumption
<1>0. TypeOK /\ LocalsOK
    BY DEF IInv
<1>1. CASE StartCycle
    BY <1>0, <1>1 DEF StartCycle, LocalsOK, Carried, PromptsOK, SubstanceOK, RetriesOK,
        FallbackAfterRetries, work, answers
<1>2. CASE DetectHealthy \/ DetectFails \/ DiagnosticsFail \/ WriteAudit \/ AuditFails \/ Restart
    BY <1>2, EndCarried DEF DetectHealthy, DetectFails, DiagnosticsFail, WriteAudit,
        AuditFails, Restart
<1>3. ASSUME NEW f \in Fingerprints, NEW v \in Reading, NEW big \in BOOLEAN,
             DetectAnomaly(f, v, big)
      PROVE  Carried'
    <2>1. \/ /\ pc = "detect" /\ pc' = IF multiAgent THEN "diagnose" ELSE "report"
             /\ diagnosis' = IF multiAgent THEN None ELSE DetectionDiagnosis(big)
             /\ UNCHANGED <<multiAgent, answers, attempt, report>>
          \/ EndCycle("none")
        BY <1>3 DEF DetectAnomaly, mode
    <2>2. (report = None /\ attempt = 0) \/ EndCycle("none")
        BY <1>0, <2>1 DEF LocalsOK
    <2>3. multiAgent \in BOOLEAN
        BY <1>0 DEF TypeOK
    <2> QED
        BY <2>1, <2>2, <2>3, EndCarried DEF Carried, PromptsOK, SubstanceOK, RetriesOK,
            FallbackAfterRetries, answers
<1>4. ASSUME NEW d \in Diagnoses, DiagnosticsReturn(d)
      PROVE  Carried'
    <2>1. CASE Reportable(d)
        BY <1>0, <1>4, <2>1 DEF DiagnosticsReturn, LocalsOK, Carried, PromptsOK, SubstanceOK,
            RetriesOK, FallbackAfterRetries, answers
    <2>2. CASE ~Reportable(d)
        BY <1>4, <2>2, EndCarried DEF DiagnosticsReturn
    <2> QED
        BY <2>1, <2>2
<1>5. CASE \E r \in AgentReports : ReportReturns(r)
    <2>1. PICK r \in AgentReports : ReportReturns(r)
        BY <1>5
    <2>2. [severity |-> "MEDIUM", low |-> FALSE, origin |-> "unparsed"] \in Report
        BY DEF Report, Severity
    <2>3. r \in Report /\ r.origin \in {"agent", "unparsed"}
        <3>1. CASE r \in {q \in Report : q.origin = "agent"}
            BY <3>1
        <3>2. CASE r = [severity |-> "MEDIUM", low |-> FALSE, origin |-> "unparsed"]
            BY <3>2, <2>2
        <3> QED
            BY <3>1, <3>2 DEF AgentReports
    <2>4. /\ pc = "report" /\ Escalate(r) /\ ~diagnosis.oversized
          /\ UNCHANGED <<mode, answers, diagnosis, attempt>>
        BY <2>1 DEF ReportReturns
    <2>5. r.origin # "transient"
        BY <2>3
    <2> QED
        BY <2>3, <2>4, <2>5, EscalateCarried
<1>6. ASSUME NEW transient \in BOOLEAN, ReportRetries(transient)
      PROVE  Carried'
    BY <1>0, <1>6 DEF ReportRetries, ReportError, Retries, LocalsOK, Carried, PromptsOK,
        SubstanceOK, RetriesOK, FallbackAfterRetries, mode, answers
<1>7. ASSUME NEW transient \in BOOLEAN, ReportGivesUp(transient)
      PROVE  Carried'
    <2>1. FallbackReport(transient) \in Report
        BY DEF FallbackReport, Report, Severity
    <2>2. /\ FallbackReport(transient).origin = IF transient THEN "transient" ELSE "permanent"
          /\ transient => attempt = MaxRetries
        BY <1>0, <1>7 DEF FallbackReport, ReportGivesUp, Retries, TypeOK
    <2> QED
        BY <1>7, <2>1, <2>2, EscalateCarried DEF ReportGivesUp, ReportError
<1>8. ASSUME NEW transient \in BOOLEAN, ReportRaises(transient)
      PROVE  Carried'
    BY <1>8, EndCarried DEF ReportRaises
<1>9. ASSUME NEW a \in Answer \ {"unasked"}, AnswerCritical(a) \/ AnswerConflicts(a)
      PROVE  Carried'
    <2>1. Carried /\ UNCHANGED <<mode, work>> /\ pc \in {"critical", "conflicts"} /\ pc' = "audit"
        BY <1>9 DEF AnswerCritical, AnswerConflicts
    <2>2. PromptsOK'
        BY <1>9, <2>1 DEF AnswerCritical, AnswerConflicts, Carried, PromptsOK, work
    <2> QED
        BY <2>1, <2>2 DEF Carried, SubstanceOK, RetriesOK, FallbackAfterRetries, mode, work
<1>10. CASE UNCHANGED vars
    BY <1>10 DEF vars, Carried, PromptsOK, SubstanceOK, RetriesOK, FallbackAfterRetries
<1> QED
    BY <1>1, <1>2, <1>3, <1>4, <1>5, <1>6, <1>7, <1>8, <1>9, <1>10
        DEF Next, Detect, Diagnose, WriteReport, Human, Finish, Done

LEMMA CarriedInvariance == Spec => []Carried
<1>1. Init => Carried
    BY DEF Init, Carried, PromptsOK, SubstanceOK, RetriesOK, FallbackAfterRetries
<1> QED
    BY <1>1, StepCarried, Invariance, PTL DEF Spec

(***************************************************************************)
(* The Report agent's severity is given up only after every retry of a     *)
(* transient error, or for a permanent one.                                *)
(***************************************************************************)
THEOREM RetriesExhausted == Spec => []FallbackAfterRetries
<1>1. Carried => FallbackAfterRetries
    BY DEF Carried, RetriesOK
<1> QED
    BY <1>1, CarriedInvariance, PTL

\* Only log_incident changes the file, and it runs when everything has been asked.
LEMMA OnlyWriteAuditFiles ==
    ASSUME [Next]_vars, audit' # audit
    PROVE  pc = "audit"
BY DEF Next, Detect, Diagnose, WriteReport, Human, Finish, Done, StartCycle, DetectHealthy,
    DetectFails, DetectAnomaly, DiagnosticsFail, DiagnosticsReturn, ReportReturns,
    ReportRetries, ReportGivesUp, ReportRaises, AnswerCritical, AnswerConflicts, WriteAudit,
    AuditFails, Restart, vars

(***************************************************************************)
(* In multi-agent mode nothing is filed without a HIGH or MEDIUM claim, and*)
(* a report on a diagnosis with weak claims names some.                    *)
(***************************************************************************)
THEOREM FiledSubstantiated == Spec => FiledIsSubstantiated
<1>1. ASSUME IInv, Carried, [Next]_vars, audit' # audit, multiAgent
      PROVE  /\ \E level \in {"HIGH", "MEDIUM"} : level \in diagnosis.claims
             /\ diagnosis.claims \cap LowLevels # {} => report.low
    <2>1. diagnosis # None /\ report # None
        BY <1>1, OnlyWriteAuditFiles DEF IInv, LocalsOK
    <2>2. diagnosis.claims \subseteq Confidence
        BY <1>1, <2>1 DEF IInv, TypeOK, Diagnosis
    <2> QED
        BY <1>1, <2>1, <2>2 DEF Carried, SubstanceOK, Reportable, Confidence, LowLevels
<1> QED
    BY <1>1, Invariance, CarriedInvariance, PTL DEF Spec, FiledIsSubstantiated

(***************************************************************************)
(* What is filed has met exactly the prompts its severity and its conflicts*)
(* call for.                                                               *)
(***************************************************************************)
THEOREM FiledAfterAsking == Spec => AskedExactlyOnce
<1>1. ASSUME Carried, [Next]_vars, audit' # audit
      PROVE  /\ approved # "unasked" <=> report.severity = "CRITICAL"
             /\ acknowledged # "unasked" <=>
                    diagnosis.unresolved > 0 /\ report.severity # "CRITICAL"
    BY <1>1, OnlyWriteAuditFiles DEF Carried, PromptsOK
<1> QED
    BY <1>1, CarriedInvariance, PTL DEF Spec, AskedExactlyOnce

(***************************************************************************)
(* When a detection is asked for, the incidents its prompt carries over are*)
(* those observe will not call new, whatever value they are sighted with.  *)
(***************************************************************************)
THEOREM PromptAgrees == Spec => []PromptAgreesWithGauge
<1>1. IInv => PromptAgreesWithGauge
    <2> SUFFICES ASSUME IInv, pc = "detect", NEW f \in Fingerprints, NEW v \in Reading
                 PROVE  f \in PriorContext(memory, cycle) <=> StatusOf(memory, f, v, cycle) # "new"
        BY DEF PromptAgreesWithGauge
    <2>1. f \in DOMAIN memory => memory[f].last < cycle
        BY DEF IInv, MemoryClock
    <2>2. f \in DOMAIN memory => memory[f].last \in Nat
        BY DEF IInv, TypeOK, IsMemory, Incident
    <2>3. cycle \in Nat
        BY MonitorAssumption DEF IInv, TypeOK
    <2> QED
        BY <2>1, <2>2, <2>3 DEF PriorContext, StatusOf
<1> QED
    BY <1>1, Invariance, PTL

-----------------------------------------------------------------------------
(* The coordinator implements IncidentReporting. *)

\* Every step that leaves the pursued sighting, the gauge and the file alone is a stutter.
LEMMA Stutters ==
    ASSUME delta' = delta, memory' = memory, audit' = audit
    PROVE  [Reporting!Next]_(Reporting!vars)
BY DEF Reporting!vars

\* A cycle that ends without a report drops what it pursued, if anything.
LEMMA EndIsDrop ==
    ASSUME NEW how, EndCycle(how), memory' = memory, audit' = audit
    PROVE  [Reporting!Next]_(Reporting!vars)
BY DEF EndCycle, NoLocals, Reporting!vars, Reporting!Next, Reporting!Drop

\* observe and should_report pursue what is owed, and suppress the rest.
LEMMA SightingIsPursue ==
    ASSUME IInv, NEW f \in Fingerprints, NEW v \in Reading, NEW big \in BOOLEAN,
           DetectAnomaly(f, v, big)
    PROVE  [Reporting!Next]_(Reporting!vars)
<1>0. PICK status : status = StatusOf(memory, f, v, cycle)
    OBVIOUS
<1>1. PICK told : told = {g \in DOMAIN memory : memory[g].reported}
    OBVIOUS
<1>2. PICK told2 : told2 = {g \in DOMAIN memory' : memory'[g].reported}
    OBVIOUS
<1>3. delta = None /\ memory' = Observe(memory, f, v, cycle) /\ audit' = audit
    BY DEF IInv, LocalsOK, DetectAnomaly
<1>4. IsMemory(memory) /\ cycle \in Nat
    BY MonitorAssumption DEF IInv, TypeOK
<1>5. /\ DOMAIN memory' = DOMAIN memory \cup {f}
      /\ status = "new" => ~memory'[f].reported
      /\ status # "new" => f \in DOMAIN memory /\ memory'[f].reported = memory[f].reported
    <2>1. DOMAIN Observe(memory, f, v, cycle) = DOMAIN memory \cup {f}
        BY Zenon DEF Observe
    <2>2. /\ status = "new" => ~Observe(memory, f, v, cycle)[f].reported
          /\ status # "new" => /\ f \in DOMAIN memory
                              /\ Observe(memory, f, v, cycle)[f].reported = memory[f].reported
        BY <1>0, <1>4, ObserveSame
    <2> QED BY <1>3, <2>1, <2>2
<1>6. \A g \in DOMAIN memory : g # f => memory'[g] = memory[g]
    BY <1>3, ObserveOther
<1>7. status \in {"new", "ongoing", "worsening"}
    BY <1>0 DEF StatusOf
<1>8. told2 = IF status = "new" THEN told \ {f} ELSE told
    BY <1>1, <1>2, <1>5, <1>6
<1>9. CASE ShouldReport(status, memory'[f])
    <2>1. delta' = [fp |-> f, status |-> status]
        BY <1>0, <1>9 DEF DetectAnomaly
    <2>2. Dedup => status # "ongoing" \/ f \notin told
        BY <1>1, <1>5, <1>7, <1>9 DEF ShouldReport
    <2>3. Reporting!Pursue(f, status)
        BY <1>1, <1>2, <1>3, <1>8, <2>1, <2>2 DEF Reporting!Pursue, Reporting!Owed
    <2> QED
        BY <1>7, <2>3 DEF Reporting!Next
<1>10. CASE ~ShouldReport(status, memory'[f])
    <2>1. delta' = None
        BY <1>0, <1>10 DEF DetectAnomaly, EndCycle, NoLocals
    <2>2. told2 = told
        BY <1>8, <1>10 DEF ShouldReport
    <2> QED
        BY <1>1, <1>2, <1>3, <2>1, <2>2 DEF Reporting!vars
<1> QED
    BY <1>9, <1>10

\* log_incident and mark_reported file one new line about what is pursued.
LEMMA WriteAuditIsFile == IInv /\ WriteAudit => Reporting!File
<1> SUFFICES ASSUME IInv, WriteAudit PROVE Reporting!File
    OBVIOUS
<1>0. PICK f : f = delta.fp
    OBVIOUS
<1>1. /\ pc = "audit" /\ delta' = None
      /\ audit' = audit \cup {NewEntry}
      /\ memory' = MarkReported(memory, f)
    BY <1>0 DEF WriteAudit, EndCycle, NoLocals
<1>2. IsMemory(memory) /\ delta \in Delta /\ delta # None /\ f \in DOMAIN memory
    BY <1>0, <1>1 DEF IInv, TypeOK, LocalsOK
<1>3. NewEntry.fp = f /\ NewEntry.boot = boot /\ NewEntry.cycle = cycle
    BY <1>0 DEF NewEntry
<1>4. NewEntry \notin audit
    BY <1>1, <1>3 DEF IInv, FileClock
<1>5. Dedup => delta.status # "ongoing" \/ ~memory[f].reported
    BY <1>0, <1>2 DEF IInv, PursuedIsOwed
<1>6. {g \in DOMAIN memory : memory[g].reported}' =
        {g \in DOMAIN memory : memory[g].reported} \cup {f}
    <2>1. /\ DOMAIN memory' = DOMAIN memory
          /\ memory'[f].reported
          /\ \A g \in DOMAIN memory \ {f} : memory'[g] = memory[g]
        BY <1>1, <1>2, MarkType
    <2> QED
        BY <1>2, <2>1
<1> QED
    BY <1>0, <1>1, <1>2, <1>3, <1>4, <1>5, <1>6 DEF Reporting!File, Reporting!Owed

LEMMA StepRefines == IInv /\ [Next]_vars => [Reporting!Next]_(Reporting!vars)
<1> SUFFICES ASSUME IInv, [Next]_vars PROVE [Reporting!Next]_(Reporting!vars)
    OBVIOUS
<1>1. CASE StartCycle
    BY <1>1, Stutters DEF StartCycle
<1>2. CASE DetectHealthy \/ DetectFails \/ DiagnosticsFail \/ AuditFails
    BY <1>2, EndIsDrop DEF DetectHealthy, DetectFails, DiagnosticsFail, AuditFails
<1>3. CASE \E f \in Fingerprints, v \in Reading, big \in BOOLEAN : DetectAnomaly(f, v, big)
    BY <1>3, SightingIsPursue
<1>4. ASSUME NEW d \in Diagnoses, DiagnosticsReturn(d)
      PROVE  [Reporting!Next]_(Reporting!vars)
    BY <1>4, EndIsDrop, Stutters DEF DiagnosticsReturn
<1>5. CASE WriteReport
    BY <1>5, EndIsDrop, Stutters DEF WriteReport, ReportReturns, ReportRetries,
        ReportGivesUp, ReportRaises, verdict
<1>6. CASE Human
    BY <1>6, Stutters DEF Human, AnswerCritical, AnswerConflicts, verdict
<1>7. CASE WriteAudit
    BY <1>7, WriteAuditIsFile DEF Reporting!Next
<1>8. CASE Restart
    <2>1. DOMAIN memory' = {} /\ delta' = None /\ audit' = audit
        BY <1>8 DEF Restart, EndCycle, NoLocals
    <2> QED
        BY <2>1 DEF Reporting!Next, Reporting!Forget
<1>9. CASE UNCHANGED vars
    BY <1>9, Stutters DEF vars
<1> QED
    BY <1>1, <1>2, <1>3, <1>4, <1>5, <1>6, <1>7, <1>8, <1>9
        DEF Next, Detect, Diagnose, Finish, Done

(***************************************************************************)
(* The coordinator, with its cycles, retries, gates, prompts and crashes,  *)
(* implements IncidentReporting.                                           *)
(***************************************************************************)
THEOREM Implements == Spec => RefinesReporting
<1>1. Init => Reporting!Init
    <2>1. Init => DOMAIN memory = {} /\ delta = None /\ audit = {}
        BY DEF Init
    <2> QED
        BY <2>1 DEF Reporting!Init
<1> QED
    BY <1>1, StepRefines, Invariance, PTL DEF Spec, RefinesReporting, Reporting!Spec
===============================================================================
