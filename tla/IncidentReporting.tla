-------------------------- MODULE IncidentReporting --------------------------
(***************************************************************************)
(* What the agent promises the operator, without saying how: an incident   *)
(* that persists is reported once, then suppressed until it changes or is  *)
(* gone long enough to count as a new one (agent/volatility.py, lines 9 to *)
(* 11).  There are no cycles, diagnoses, retries or prompts here.  A       *)
(* sighting is pursued until it is filed or dropped; `told` are the        *)
(* incidents the operator has been told of in their present occurrence.    *)
(* MonitorCycle implements this, see RefinesReporting there.               *)
(***************************************************************************)
CONSTANTS Fingerprints, Dedup, None

VARIABLES
    pursued,    \* the sighting being pursued, [fp, status], or None
    told,
    filed       \* the reports the operator has

vars == <<pursued, told, filed>>

Init == pursued = None /\ told = {} /\ filed = {}

\* A known incident is told again only if it worsened; a new occurrence has not been told.
Owed(f, status) == Dedup => status # "ongoing" \/ f \notin told

\* An incident is seen and its report is owed.
Pursue(f, status) ==
    /\ pursued = None
    /\ Owed(f, status)
    /\ pursued' = [fp |-> f, status |-> status]
    /\ told' = IF status = "new" THEN told \ {f} ELSE told
    /\ UNCHANGED filed

\* The report of the pursued incident reaches the operator's file, as one new entry about it.
File ==
    /\ pursued # None
    /\ Owed(pursued.fp, pursued.status)
    /\ \E e \in filed' \ filed : e.fp = pursued.fp /\ filed' = filed \cup {e}
    /\ told' = told \cup {pursued.fp}
    /\ pursued' = None

\* The pursuit fails: the incident is as owed as it was.
Drop == pursued # None /\ pursued' = None /\ UNCHANGED <<told, filed>>

\* The agent restarts without its memory: it may tell everything once more.
Forget == pursued' = None /\ told' = {} /\ UNCHANGED filed

Next ==
    \/ \E f \in Fingerprints, status \in {"new", "ongoing", "worsening"} : Pursue(f, status)
    \/ File
    \/ Drop
    \/ Forget

Spec == Init /\ [][Next]_vars
==============================================================================
