-------------------------- MODULE MonitorHistoryProofs --------------------------
(***************************************************************************)
(* Proofs about what the gauge promises over several cycles, for every     *)
(* gap, threshold and set of fingerprints: what MonitorHistory records of  *)
(* the coordinator's steps, on top of the invariant of MonitorCycleProofs. *)
(***************************************************************************)
EXTENDS MonitorHistory, MonitorCycleProofs

(***************************************************************************)
(* The inductive invariant of the history.  An incident is announced at    *)
(* most once in each cycle that has detected without it.                   *)
(***************************************************************************)
AnnouncedSinceSeen ==
    \A f \in Fingerprints :
        /\ announced[f] <= OngoingGap + 1
        /\ f \notin DOMAIN memory => announced[f] = 0
        /\ f \in DOMAIN memory =>
            announced[f] <= cycle - memory[f].last - (IF pc = "detect" THEN 1 ELSE 0)

(***************************************************************************)
(* While an incident has not been announced as resolved, every detection   *)
(* since it was last sighted has failed, or more than the gap has cycles.  *)
(***************************************************************************)
MissedSinceSeen ==
    \A f \in DOMAIN memory :
        announced[f] = 0 =>
            \/ missed[f] >= cycle - memory[f].last - (IF pc = "detect" THEN 1 ELSE 0)
            \/ missed[f] > OngoingGap

\* What is pursued was sighted in this very cycle.
PursuedIsCurrent == delta # None => memory[delta.fp].last = cycle

\* The settings under which an unchanged incident is ongoing and not reported again.
Settled == Dedup /\ OngoingGap > 0 /\ WorsenNum > 0

\* A standing incident was sighted in the last detection, is reported, and is not pursued.
StandingIsQuiet ==
    Settled =>
        /\ \A f \in standing :
            /\ memory[f].reported
            /\ memory[f].last = cycle - (IF pc = "detect" THEN 1 ELSE 0)
        /\ delta # None => delta.fp \notin standing

HInv ==
    /\ HistoryTypeOK
    /\ AnnouncedSinceSeen
    /\ MissedSinceSeen
    /\ PursuedIsCurrent
    /\ StandingIsQuiet

-----------------------------------------------------------------------------
(* The coordinator's own invariant holds of it with its history. *)

LEMMA HistoryIsMonitor == HSpec => Spec
<1>1. HInit => Init
    BY DEF HInit
<1>2. [HNext]_<<vars, history>> => [Next]_vars
    BY DEF HNext
<1> QED
    BY <1>1, <1>2, PTL DEF HSpec, Spec

LEMMA HistoryInit == HInit => HInv
<1> SUFFICES ASSUME HInit PROVE HInv
    OBVIOUS
<1>1. DOMAIN memory = {} /\ delta = None /\ cycle = 0 /\ standing = {}
    BY DEF HInit, Init
<1>2. \A f \in Fingerprints : changed[f] = 0 /\ announced[f] = 0
    BY DEF HInit
<1>3. HistoryTypeOK
    BY <1>1, MonitorAssumption DEF HInit, HistoryTypeOK
<1> QED
    BY <1>1, <1>2, <1>3, GaugeAssumption
        DEF HInv, AnnouncedSinceSeen, MissedSinceSeen, PursuedIsCurrent, StandingIsQuiet

\* The numbers the memory holds.
LEMMA MemoryNumbers ==
    ASSUME IInv, NEW f \in DOMAIN memory
    PROVE  /\ f \in Fingerprints
           /\ memory[f].last \in Nat /\ memory[f].last <= cycle
           /\ memory[f].value \in Reading /\ memory[f].reported \in BOOLEAN
           /\ pc = "detect" => memory[f].last < cycle
BY DEF IInv, TypeOK, IsMemory, Incident, MemoryClock

(***************************************************************************)
(* A step that is no detection and no restart: the gauge keeps its incidents*)
(* and when each was seen, and mark_reported may set one flag.             *)
(***************************************************************************)
LEMMA BetweenDetections ==
    ASSUME IInv, HInv, HNext, pc # "detect", boot' = boot,
           DOMAIN memory' = DOMAIN memory,
           \A f \in DOMAIN memory : memory'[f].last = memory[f].last
                                 /\ (memory[f].reported => memory'[f].reported),
           \/ pc' # "detect" /\ cycle' = cycle
           \/ pc' = "detect" /\ cycle' = cycle + 1 /\ delta' = None,
           delta' \in {delta, None},
           \/ audit' = audit
           \/ delta # None /\ delta' = None /\ memory'[delta.fp].reported /\ pc' # "detect"
    PROVE  HInv'
<1> USE MonitorAssumption, GaugeAssumption
<1>1. cycle \in Nat
    BY DEF IInv, TypeOK
<1>2. changed' = changed /\ announced' = announced /\ missed' = missed
    <2>1. /\ changed \in [Fingerprints -> 0..MaxCycles] /\ announced \in [Fingerprints -> Nat]
          /\ missed \in [Fingerprints -> Nat]
        BY DEF HInv, HistoryTypeOK
    <2> QED
        BY <2>1 DEF HNext, RecordChange, RecordAnnouncement, RecordMissed, Restarted, Sighted,
            Detected
<1>3. standing' = IF audit' # audit THEN standing \cup {delta.fp} ELSE standing
    BY DEF HNext, RecordStanding, Restarted
<1>4. delta # None => delta.fp \in DOMAIN memory
    BY DEF IInv, LocalsOK
<1>5. HistoryTypeOK'
    BY <1>2, <1>3, <1>4 DEF HInv, HistoryTypeOK
<1>6. AnnouncedSinceSeen'
    BY <1>1, <1>2, MemoryNumbers DEF HInv, HistoryTypeOK, AnnouncedSinceSeen
<1>6a. MissedSinceSeen'
    BY <1>1, <1>2, MemoryNumbers DEF HInv, HistoryTypeOK, MissedSinceSeen
<1>7. PursuedIsCurrent'
    BY <1>4 DEF HInv, PursuedIsCurrent, IInv, LocalsOK
<1>8. StandingIsQuiet'
    <2>1. ASSUME Settled, NEW f \in standing'
          PROVE  memory'[f].reported /\ memory'[f].last = cycle
        <3>1. CASE f \in standing
            <4>1. f \in DOMAIN memory /\ memory[f].reported /\ memory[f].last = cycle - 0
                BY <2>1, <3>1 DEF HInv, HistoryTypeOK, StandingIsQuiet
            <4> QED
                BY <1>1, <4>1
        <3>2. CASE f \notin standing
            <4>1. f = delta.fp /\ delta # None /\ memory'[f].reported
                BY <1>3, <2>1, <3>2
            <4>2. memory[f].last = cycle
                BY <4>1 DEF HInv, PursuedIsCurrent
            <4> QED
                BY <1>4, <4>1, <4>2
        <3> QED
            BY <3>1, <3>2
    <2>2. Settled /\ delta' # None => delta'.fp \notin standing'
        BY <1>3 DEF HInv, StandingIsQuiet
    <2> QED
        BY <1>1, <2>1, <2>2 DEF StandingIsQuiet, Settled
<1> QED
    BY <1>5, <1>6, <1>6a, <1>7, <1>8 DEF HInv

\* The start of the process over: no memory, no history.
LEMMA RestartForgets ==
    ASSUME IInv, HNext, Restart
    PROVE  HInv'
<1> USE MonitorAssumption, GaugeAssumption
<1>1. boot' # boot /\ DOMAIN memory' = {} /\ delta' = None
    BY DEF Restart, EndCycle, NoLocals, IInv, TypeOK
<1>2. standing' = {} /\ \A f \in Fingerprints : changed'[f] = 0 /\ announced'[f] = 0
    BY <1>1 DEF HNext, RecordChange, RecordAnnouncement, RecordStanding, Restarted
<1>3. HistoryTypeOK'
    BY <1>1, <1>2 DEF HNext, RecordChange, RecordAnnouncement, RecordMissed, HistoryTypeOK,
        Restarted
<1> QED
    BY <1>1, <1>2, <1>3
        DEF HInv, AnnouncedSinceSeen, MissedSinceSeen, PursuedIsCurrent, StandingIsQuiet

\* A detection without an anomaly, or one that fails: what was standing is not any more.
LEMMA NothingSighted ==
    ASSUME IInv, HInv, HNext, pc = "detect", pc' = "idle",
           UNCHANGED <<boot, cycle, memory, audit>>, delta' = None,
           \/ outcome' = "failed"
           \/ resolved' = AllClear(memory, cycle)
    PROVE  HInv'
<1> USE MonitorAssumption, GaugeAssumption
<1>1. cycle \in Nat
    BY DEF IInv, TypeOK
<1>2. \A f \in Fingerprints : ~Sighted(f)
    BY MemoryNumbers DEF Sighted
<1>3. changed' = changed /\ standing' = {}
    <2>1. changed \in [Fingerprints -> 0..MaxCycles] /\ standing \subseteq Fingerprints
        BY MemoryNumbers DEF HInv, HistoryTypeOK
    <2> QED
        BY <1>2, <2>1 DEF HNext, RecordChange, RecordStanding, Restarted
<1>4. \A f \in Fingerprints :
        announced'[f] = IF Detected /\ f \in resolved' THEN announced[f] + 1 ELSE announced[f]
    BY <1>2 DEF HNext, RecordAnnouncement, Restarted
<1>4a. \A f \in Fingerprints :
        missed'[f] = IF outcome' = "failed" THEN missed[f] + 1 ELSE missed[f]
    BY <1>2 DEF HNext, RecordMissed, Restarted
<1>5. HistoryTypeOK'
    <2>1. missed' \in [Fingerprints -> Nat]
        BY DEF HInv, HistoryTypeOK, HNext, RecordMissed
    <2> QED
        BY <1>3, <1>4, <2>1 DEF HInv, HistoryTypeOK, HNext, RecordAnnouncement
<1>6. AnnouncedSinceSeen'
    <2> SUFFICES ASSUME NEW f \in Fingerprints
                 PROVE  /\ announced'[f] <= OngoingGap + 1
                        /\ f \notin DOMAIN memory => announced'[f] = 0
                        /\ f \in DOMAIN memory => announced'[f] <= cycle - memory[f].last
        BY <1>1, MemoryNumbers DEF AnnouncedSinceSeen
    <2>1. announced[f] \in Nat /\ announced[f] <= OngoingGap + 1
        BY DEF HInv, HistoryTypeOK, AnnouncedSinceSeen
    <2>2. f \notin DOMAIN memory => announced[f] = 0
        BY DEF HInv, AnnouncedSinceSeen
    <2>3. f \in DOMAIN memory =>
            memory[f].last \in Nat /\ announced[f] <= cycle - memory[f].last - 1
        BY MemoryNumbers DEF HInv, AnnouncedSinceSeen
    <2>4. Detected /\ f \in resolved' => f \in DOMAIN memory /\ cycle - 1 - memory[f].last <= OngoingGap
        BY DEF Detected, AllClear, IsActive
    <2> QED
        BY <1>1, <1>4, <2>1, <2>2, <2>3, <2>4
<1>6a. MissedSinceSeen'
    <2> SUFFICES ASSUME NEW f \in DOMAIN memory, announced'[f] = 0
                 PROVE  missed'[f] >= cycle - memory[f].last \/ missed'[f] > OngoingGap
        BY <1>1, MemoryNumbers DEF MissedSinceSeen
    <2>1. /\ f \in Fingerprints /\ memory[f].last \in Nat
          /\ announced[f] \in Nat /\ missed[f] \in Nat
        BY MemoryNumbers DEF HInv, HistoryTypeOK
    <2>2. announced[f] = 0 /\ ~(Detected /\ f \in resolved')
        BY <1>4, <2>1
    <2>3. missed[f] >= cycle - memory[f].last - 1 \/ missed[f] > OngoingGap
        BY <2>2 DEF HInv, MissedSinceSeen
    <2>4. CASE outcome' = "failed"
        BY <1>1, <1>4a, <2>1, <2>3, <2>4
    <2>5. CASE outcome' # "failed"
        <3>1. cycle - 1 - memory[f].last > OngoingGap
            BY <1>1, <2>1, <2>2, <2>5 DEF Detected, AllClear, IsActive
        <3> QED
            BY <1>1, <1>4a, <2>1, <2>3, <2>5, <3>1
    <2> QED
        BY <2>4, <2>5
<1>7. PursuedIsCurrent' /\ StandingIsQuiet'
    BY <1>3 DEF PursuedIsCurrent, StandingIsQuiet
<1> QED
    BY <1>5, <1>6, <1>6a, <1>7 DEF HInv

\* A standing incident sighted with the same value is ongoing, and suppressed.
LEMMA StandingIsOngoing ==
    ASSUME IInv, HInv, Settled, pc = "detect", NEW f \in standing
    PROVE  StatusOf(memory, f, memory[f].value, cycle) = "ongoing"
<1> USE MonitorAssumption, GaugeAssumption
<1>1. f \in DOMAIN memory /\ memory[f].last = cycle - 1 /\ cycle \in Nat
    BY DEF HInv, HistoryTypeOK, StandingIsQuiet, IInv, TypeOK
<1>2. IsActive(memory[f], cycle)
    BY <1>1 DEF IsActive, Settled
<1>3. PICK v \in Reading : v = memory[f].value
    BY <1>1, MemoryNumbers
<1>4. ~Worsened(v, v)
    <2> SUFFICES ASSUME v # NoValue, v > 0, (v - v) * WorsenDen >= WorsenNum * v
                 PROVE  FALSE
        BY DEF Worsened
    <2>1. v \in Int /\ v - v = 0 /\ 0 * WorsenDen = 0
        BY DEF Reading
    <2>2. WorsenNum * v > 0
        BY <2>1 DEF Settled
    <2> QED
        BY <2>1, <2>2
<1> QED
    BY <1>1, <1>2, <1>3, <1>4 DEF StatusOf

\* A detection with an anomaly.
LEMMA Sighting ==
    ASSUME IInv, HInv, HNext, NEW f \in Fingerprints, NEW v \in Reading, NEW big \in BOOLEAN,
           DetectAnomaly(f, v, big)
    PROVE  HInv'
<1> USE MonitorAssumption, GaugeAssumption
<1>1. /\ pc = "detect" /\ UNCHANGED <<boot, cycle, audit>>
      /\ memory' = Observe(memory, f, v, cycle)
      /\ resolved' = ResolvedBy(memory, f, cycle)
    BY DEF DetectAnomaly, mode
<1>2. cycle \in Nat /\ boot \in Nat /\ IsMemory(memory) /\ delta = None /\ outcome = "none"
    BY <1>1 DEF IInv, TypeOK, LocalsOK
<1>3. /\ pc' # "detect" /\ outcome' = "none"
      /\ delta' # None => delta'.fp = f
    BY <1>2 DEF DetectAnomaly, EndCycle, NoLocals
<1>4. DOMAIN memory' = DOMAIN memory \cup {f} /\ memory'[f].last = cycle
    BY <1>1, <1>2, ObserveType, ObserveSame
<1>5. \A g \in DOMAIN memory : g # f => memory'[g] = memory[g]
    BY <1>1, ObserveOther
<1>6. Sighted(f) /\ \A g \in Fingerprints : g # f => ~Sighted(g)
    <2>1. Sighted(f)
        BY <1>1, <1>4 DEF Sighted
    <2>2. ASSUME NEW g \in Fingerprints, g # f PROVE ~Sighted(g)
        BY <1>4, <1>5, <2>2, MemoryNumbers DEF Sighted
    <2> QED
        BY <2>1, <2>2
<1>7. /\ announced'[f] = 0
      /\ \A g \in Fingerprints : g # f =>
            announced'[g] = IF g \in resolved' THEN announced[g] + 1 ELSE announced[g]
    BY <1>1, <1>3, <1>6 DEF HNext, RecordAnnouncement, Restarted, Detected
<1>8. \A g \in standing' : g = f /\ f \in standing /\ memory'[f].value = memory[f].value
    <2>1. standing \subseteq Fingerprints
        BY MemoryNumbers DEF HInv, HistoryTypeOK
    <2> QED
        BY <1>1, <1>3, <1>6, <2>1 DEF HNext, RecordStanding, Restarted
<1>9. HistoryTypeOK'
    <2>1. changed' \in [Fingerprints -> 0..MaxCycles]
        <3>1. cycle \in 0..MaxCycles /\ changed \in [Fingerprints -> 0..MaxCycles] /\ boot' = boot
            BY <1>1 DEF IInv, TypeOK, HInv, HistoryTypeOK
        <3>2. changed' = [g \in Fingerprints |->
                IF Sighted(g) /\ SightedStatus(g) # "ongoing" THEN cycle ELSE changed[g]]
            BY <3>1 DEF HNext, RecordChange, Restarted
        <3> QED
            BY <3>1, <3>2
    <2>2. announced' \in [Fingerprints -> Nat]
        BY DEF HNext, RecordAnnouncement, HInv, HistoryTypeOK
    <2>3. missed' \in [Fingerprints -> Nat]
        BY DEF HNext, RecordMissed, HInv, HistoryTypeOK
    <2> QED
        BY <1>4, <1>8, <2>1, <2>2, <2>3 DEF HistoryTypeOK
<1>10. AnnouncedSinceSeen'
    <2> SUFFICES ASSUME NEW g \in Fingerprints
                 PROVE  /\ announced'[g] <= OngoingGap + 1
                        /\ g \notin DOMAIN memory' => announced'[g] = 0
                        /\ g \in DOMAIN memory' => announced'[g] <= cycle - memory'[g].last
        <3>1. \A g \in DOMAIN memory' : memory'[g].last \in Nat
            BY <1>2, <1>4, <1>5, MemoryNumbers
        <3> QED
            BY <1>1, <1>2, <1>3, <3>1 DEF AnnouncedSinceSeen
    <2>1. CASE g = f
        BY <1>2, <1>4, <1>7, <2>1
    <2>2. CASE g # f
        <3>1. announced[g] \in Nat /\ announced[g] <= OngoingGap + 1
            BY DEF HInv, HistoryTypeOK, AnnouncedSinceSeen
        <3>2. g \notin DOMAIN memory => announced[g] = 0
            BY DEF HInv, AnnouncedSinceSeen
        <3>3. g \in DOMAIN memory =>
                memory[g].last \in Nat /\ announced[g] <= cycle - memory[g].last - 1
            BY <1>1, MemoryNumbers DEF HInv, AnnouncedSinceSeen
        <3>4. g \in resolved' => g \in DOMAIN memory /\ cycle - 1 - memory[g].last <= OngoingGap
            BY <1>1 DEF ResolvedBy, IsActive
        <3> QED
            BY <1>2, <1>4, <1>5, <1>7, <2>2, <3>1, <3>2, <3>3, <3>4
    <2> QED
        BY <2>1, <2>2
<1>10a. MissedSinceSeen'
    <2> SUFFICES ASSUME NEW g \in DOMAIN memory', announced'[g] = 0
                 PROVE  missed'[g] >= cycle - memory'[g].last \/ missed'[g] > OngoingGap
        <3>1. \A h \in DOMAIN memory' : memory'[h].last \in Nat
            BY <1>2, <1>4, <1>5, MemoryNumbers
        <3> QED
            BY <1>1, <1>2, <1>3, <3>1 DEF MissedSinceSeen
    <2>1. CASE g = f
        <3>1. missed'[f] = 0
            BY <1>6 DEF HNext, RecordMissed
        <3> QED
            BY <1>2, <1>4, <2>1, <3>1
    <2>2. CASE g # f
        <3>1. /\ g \in DOMAIN memory /\ memory'[g] = memory[g]
              /\ g \in Fingerprints /\ memory[g].last \in Nat
              /\ announced[g] \in Nat /\ missed[g] \in Nat
            BY <1>4, <1>5, <2>2, MemoryNumbers DEF HInv, HistoryTypeOK
        <3>2. announced[g] = 0 /\ g \notin resolved'
            BY <1>7, <2>2, <3>1
        <3>3. missed'[g] = missed[g]
            BY <1>1, <1>3, <1>6, <2>2, <3>1 DEF HNext, RecordMissed, Restarted
        <3>4. missed[g] >= cycle - memory[g].last - 1 \/ missed[g] > OngoingGap
            BY <1>1, <3>1, <3>2 DEF HInv, MissedSinceSeen
        <3>5. cycle - 1 - memory[g].last > OngoingGap
            BY <1>1, <1>2, <2>2, <3>1, <3>2 DEF ResolvedBy, IsActive
        <3> QED
            BY <1>2, <3>1, <3>3, <3>4, <3>5
    <2> QED
        BY <2>1, <2>2
<1>11. PursuedIsCurrent'
    BY <1>1, <1>3, <1>4 DEF PursuedIsCurrent
<1>12. StandingIsQuiet'
    <2> SUFFICES ASSUME Settled, NEW g \in standing'
                 PROVE  memory'[g].reported /\ memory'[g].last = cycle /\ delta' = None
        BY <1>1, <1>2, <1>3 DEF StandingIsQuiet, Settled
    <2>1. g = f /\ f \in standing /\ memory'[f].value = memory[f].value
        BY <1>8
    <2>2. memory'[f].value = v
        BY <1>1, <1>4 DEF Observe, Fresh, Again
    <2>3. StatusOf(memory, f, v, cycle) = "ongoing"
        BY <1>1, <2>1, <2>2, StandingIsOngoing
    <2>4. memory'[f].reported
        BY <1>1, <1>2, <2>1, <2>3, ObserveSame DEF HInv, StandingIsQuiet
    <2>5. ~ShouldReport("ongoing", memory'[f])
        BY <2>4 DEF ShouldReport, Settled
    <2>6. delta' = None
        BY <2>3, <2>5 DEF DetectAnomaly, EndCycle, NoLocals
    <2> QED
        BY <1>4, <2>1, <2>4, <2>6
<1> QED
    BY <1>9, <1>10, <1>10a, <1>11, <1>12 DEF HInv

LEMMA HistoryStep == IInv /\ HInv /\ [HNext]_<<vars, history>> => HInv'
<1> SUFFICES ASSUME IInv, HInv, [HNext]_<<vars, history>> PROVE HInv'
    OBVIOUS
<1>1. CASE UNCHANGED <<vars, history>>
    BY <1>1 DEF vars, history, HInv, HistoryTypeOK, AnnouncedSinceSeen, MissedSinceSeen,
        PursuedIsCurrent, StandingIsQuiet
<1> SUFFICES ASSUME HNext PROVE HInv'
    BY <1>1
<1>2. CASE StartCycle
    BY <1>2, BetweenDetections DEF StartCycle, IInv, LocalsOK
<1>3. CASE DetectHealthy \/ DetectFails
    BY <1>3, NothingSighted DEF DetectHealthy, DetectFails, EndCycle, NoLocals, mode
<1>4. CASE \E f \in Fingerprints, v \in Reading, big \in BOOLEAN : DetectAnomaly(f, v, big)
    BY <1>4, Sighting
<1>5. CASE DiagnosticsFail \/ AuditFails
    BY <1>5, BetweenDetections DEF DiagnosticsFail, AuditFails, EndCycle, NoLocals, mode
<1>6. ASSUME NEW d \in Diagnoses, DiagnosticsReturn(d) PROVE HInv'
    BY <1>6, BetweenDetections DEF DiagnosticsReturn, EndCycle, NoLocals, mode
<1>7. CASE \E r \in AgentReports : ReportReturns(r)
    BY <1>7, BetweenDetections DEF ReportReturns, Escalate, FirstPrompt, mode, verdict
<1>8. ASSUME NEW transient \in BOOLEAN,
             ReportRetries(transient) \/ ReportGivesUp(transient) \/ ReportRaises(transient)
      PROVE  HInv'
    BY <1>8, BetweenDetections DEF ReportRetries, ReportGivesUp, ReportRaises, ReportError,
        Escalate, FirstPrompt, EndCycle, NoLocals, mode, verdict
<1>9. CASE Human
    BY <1>9, BetweenDetections DEF Human, AnswerCritical, AnswerConflicts, mode, verdict
<1>10. CASE WriteAudit
    <2>0. PICK f : f = delta.fp
        OBVIOUS
    <2>1. /\ pc = "audit" /\ pc' = "idle" /\ delta' = None /\ UNCHANGED <<boot, cycle>>
          /\ memory' = MarkReported(memory, f)
        BY <1>10, <2>0 DEF WriteAudit, EndCycle, NoLocals, mode
    <2>2. delta # None /\ f \in DOMAIN memory /\ IsMemory(memory)
        BY <2>0, <2>1 DEF IInv, LocalsOK, TypeOK
    <2>3. /\ DOMAIN memory' = DOMAIN memory /\ memory'[f].reported
          /\ memory'[f].last = memory[f].last
          /\ \A g \in DOMAIN memory \ {f} : memory'[g] = memory[g]
        BY <2>1, <2>2, MarkType
    <2> QED
        BY <2>0, <2>1, <2>2, <2>3, BetweenDetections
<1>11. CASE Restart
    BY <1>11, RestartForgets
<1>12. CASE Done
    BY <1>12, BetweenDetections DEF Done, vars
<1> QED
    BY <1>2, <1>3, <1>4, <1>5, <1>6, <1>7, <1>8, <1>9, <1>10, <1>11, <1>12
        DEF HNext, Next, Detect, Diagnose, WriteReport, Finish

LEMMA HistoryInvariance == HSpec => [](IInv /\ HInv)
BY HistoryIsMonitor, Invariance, HistoryInit, HistoryStep, PTL DEF HSpec

-----------------------------------------------------------------------------
(***************************************************************************)
(* What the history records has its types, and only incidents the gauge    *)
(* remembers are standing.                                                 *)
(***************************************************************************)
THEOREM HistoryTypeCorrect == HSpec => []HistoryTypeOK
<1>1. HInv => HistoryTypeOK
    BY DEF HInv
<1> QED
    BY <1>1, HistoryInvariance, PTL

(***************************************************************************)
(* Whatever the gap, no incident is announced as resolved more often than  *)
(* once for each cycle of it and once more.                                *)
(***************************************************************************)
THEOREM AnnouncementsEnd == HSpec => []AnnouncedAtMostGapPlusOne
<1>1. HInv => AnnouncedAtMostGapPlusOne
    BY DEF HInv, AnnouncedSinceSeen, AnnouncedAtMostGapPlusOne
<1> QED
    BY <1>1, HistoryInvariance, PTL

(***************************************************************************)
(* With a gap of one at most, an incident announced as resolved is new when*)
(* it is sighted again.                                                    *)
(***************************************************************************)
THEOREM ResolvedIsFresh == HSpec => ResolvedThenFresh
<1>1. ASSUME IInv, HInv
      PROVE  OngoingGap <= 1 =>
                \A f \in Fingerprints : Sighted(f) /\ announced[f] > 0 => SightedStatus(f) = "new"
    <2> SUFFICES ASSUME OngoingGap <= 1, NEW f \in Fingerprints, Sighted(f), announced[f] > 0
                 PROVE  SightedStatus(f) = "new"
        OBVIOUS
    <2>1. CASE f \notin DOMAIN memory
        BY <2>1 DEF SightedStatus, StatusOf
    <2>2. CASE f \in DOMAIN memory
        <3>1. memory[f].last \in Nat /\ cycle \in Nat /\ announced[f] \in Nat /\ OngoingGap \in Nat
            BY <1>1, <2>2, MemoryNumbers, MonitorAssumption, GaugeAssumption
                DEF IInv, TypeOK, HInv, HistoryTypeOK
        <3>2. announced[f] <= cycle - memory[f].last - 1
            BY <1>1, <2>2 DEF Sighted, HInv, AnnouncedSinceSeen
        <3>3. ~IsActive(memory[f], cycle)
            BY <1>1, <3>1, <3>2 DEF IsActive
        <3> QED
            BY <3>3 DEF SightedStatus, StatusOf
    <2> QED
        BY <2>1, <2>2
<1> QED
    BY <1>1, HistoryInvariance, PTL DEF HSpec, ResolvedThenFresh

(***************************************************************************)
(* Whatever the gap, an incident whose end has not been announced is new   *)
(* again only after that many detections have failed.                      *)
(***************************************************************************)
THEOREM NewHasReason == HSpec => NewIfResolvedOrMissed
<1>1. ASSUME IInv, HInv
      PROVE  \A f \in Fingerprints :
                /\ Sighted(f) /\ f \in DOMAIN memory /\ SightedStatus(f) = "new"
                /\ announced[f] = 0
                => missed[f] >= OngoingGap
    <2> SUFFICES ASSUME NEW f \in Fingerprints, Sighted(f), f \in DOMAIN memory,
                        SightedStatus(f) = "new", announced[f] = 0
                 PROVE  missed[f] >= OngoingGap
        OBVIOUS
    <2>1. /\ memory[f].last \in Nat /\ cycle \in Nat /\ missed[f] \in Nat /\ OngoingGap \in Nat
        BY <1>1, MemoryNumbers, MonitorAssumption, GaugeAssumption
            DEF IInv, TypeOK, HInv, HistoryTypeOK
    <2>2. cycle - memory[f].last > OngoingGap
        BY <2>1 DEF SightedStatus, StatusOf, IsActive
    <2>3. missed[f] >= cycle - memory[f].last - 1 \/ missed[f] > OngoingGap
        BY <1>1 DEF Sighted, HInv, MissedSinceSeen
    <2> QED
        BY <2>1, <2>2, <2>3
<1> QED
    BY <1>1, HistoryInvariance, PTL DEF HSpec, NewIfResolvedOrMissed

(***************************************************************************)
(* An incident that is on file and that every cycle since has sighted with *)
(* the same value is not filed again.                                      *)
(***************************************************************************)
THEOREM StandingFiledOnce == HSpec => ReportedOnceWhileStanding
<1>1. ASSUME IInv, HInv, [HNext]_<<vars, history>>
      PROVE  Dedup /\ OngoingGap > 0 /\ WorsenNum > 0 /\ audit' # audit
                => delta.fp \notin standing
    <2> SUFFICES ASSUME Dedup, OngoingGap > 0, WorsenNum > 0, audit' # audit
                 PROVE  delta.fp \notin standing
        OBVIOUS
    <2>1. [Next]_vars
        BY <1>1 DEF HNext, vars, history
    <2>2. pc = "audit"
        BY <1>1, <2>1, OnlyWriteAuditFiles
    <2> QED
        BY <1>1, <2>2 DEF IInv, LocalsOK, HInv, StandingIsQuiet, Settled
<1> QED
    BY <1>1, HistoryInvariance, PTL DEF HSpec, ReportedOnceWhileStanding
===============================================================================
