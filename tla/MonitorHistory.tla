---------------------------- MODULE MonitorHistory ----------------------------
(***************************************************************************)
(* MonitorCycle with history variables, for what the gauge promises over   *)
(* several cycles: what "resolved", "unchanged" and "suppressed" mean to   *)
(* the operator who reads the log and the audit file.  The history is      *)
(* computed from the coordinator's steps and never constrains them.        *)
(***************************************************************************)
EXTENDS MonitorCycle

VARIABLES
    changed,    \* the last cycle in which each incident was new or worse
    announced,  \* how often each was logged as resolved since it was last sighted
    missed,     \* how many detections have failed since each was last sighted
    standing    \* the incidents filed, and sighted unchanged in every cycle since

history == <<changed, announced, missed, standing>>

\* This step's detection returned, with an anomaly or without.
Detected == pc = "detect" /\ boot' = boot /\ outcome' # "failed"

\* The gauge's status for the f that was just sighted.
SightedStatus(f) == StatusOf(memory, f, memory'[f].value, cycle)

Restarted == boot' # boot

HInit ==
    /\ Init
    /\ changed = [f \in Fingerprints |-> 0]
    /\ announced = [f \in Fingerprints |-> 0]
    /\ missed = [f \in Fingerprints |-> 0]
    /\ standing = {}

RecordChange ==
    changed' = [f \in Fingerprints |->
        IF Restarted THEN 0
        ELSE IF Sighted(f) /\ SightedStatus(f) # "ongoing" THEN cycle
        ELSE changed[f]]

RecordAnnouncement ==
    announced' = [f \in Fingerprints |->
        IF Restarted \/ Sighted(f) THEN 0
        ELSE IF Detected /\ f \in resolved' THEN announced[f] + 1
        ELSE announced[f]]

RecordMissed ==
    missed' = [f \in Fingerprints |->
        IF Restarted \/ Sighted(f) THEN 0
        ELSE IF pc = "detect" /\ outcome' = "failed" THEN missed[f] + 1
        ELSE missed[f]]

RecordStanding ==
    standing' =
        IF Restarted THEN {}
        ELSE IF pc = "detect" /\ pc' # "detect"
             THEN {f \in standing : Sighted(f) /\ memory'[f].value = memory[f].value}
        ELSE IF audit' # audit THEN standing \cup {delta.fp}
        ELSE standing

HNext == Next /\ RecordChange /\ RecordAnnouncement /\ RecordMissed /\ RecordStanding

HSpec == HInit /\ [][HNext]_<<vars, history>>

-----------------------------------------------------------------------------
\* The types of the history variables: a part of what the proofs carry along.
HistoryTypeOK ==
    /\ changed \in [Fingerprints -> 0..MaxCycles]
    /\ announced \in [Fingerprints -> Nat]
    /\ missed \in [Fingerprints -> Nat]
    /\ standing \subseteq DOMAIN memory

(***************************************************************************)
(* With the default gap, an incident the log has called resolved is not    *)
(* later taken for the same occurrence: if it is sighted again it is new,  *)
(* so it is diagnosed and reported, never suppressed.                      *)
(***************************************************************************)
ResolvedThenFresh ==
    [][OngoingGap <= 1 =>
        \A f \in Fingerprints : Sighted(f) /\ announced[f] > 0
            => SightedStatus(f) = "new"]_<<vars, history>>

(***************************************************************************)
(* An incident is not announced as resolved for ever: at most once for each*)
(* cycle of the gap, and once more.                                        *)
(***************************************************************************)
AnnouncedAtMostGapPlusOne == \A f \in Fingerprints : announced[f] <= OngoingGap + 1

(***************************************************************************)
(* "A persistent, unchanged anomaly is diagnosed and reported once": an    *)
(* incident on file that every cycle since has sighted with the same value *)
(* is not filed again, whatever happened to the other incidents.  A cycle  *)
(* whose detection failed breaks the row: with the default gap the incident*)
(* comes back as a new one.                                                *)
(***************************************************************************)
ReportedOnceWhileStanding ==
    [][Dedup /\ OngoingGap > 0 /\ WorsenNum > 0 /\ audit' # audit
        => delta.fp \notin standing]_<<vars, history>>

(***************************************************************************)
(* "Suppressed until it ... resolves": an incident the gauge remembers is  *)
(* taken for a new one, and so diagnosed and reported again, only if it has*)
(* been announced as resolved, or if at least as many detections as the gap*)
(* has cycles have failed since it was last sighted.  The second is how the*)
(* code goes on after an outage of the API, in which nothing was seen to   *)
(* end; with the default gap one failed detection is enough.               *)
(***************************************************************************)
NewIfResolvedOrMissed ==
    [][\A f \in Fingerprints :
        /\ Sighted(f) /\ f \in DOMAIN memory /\ SightedStatus(f) = "new"
        /\ announced[f] = 0
        => missed[f] >= OngoingGap]_<<vars, history>>

(***************************************************************************)
(* An incident is suppressed only "until it materially changes": whoever is*)
(* suppressed has been filed since it last got worse.  The code loses a    *)
(* worsening whose pipeline aborted: the next cycle's sighting is ongoing, *)
(* and the incident still counts as reported.                              *)
(***************************************************************************)
SuppressedIsUnchanged ==
    [][\A f \in Fingerprints : Sighted(f) /\ pc' = "idle"
        => FiledSince(f, changed[f]) # {}]_<<vars, history>>

===============================================================================
