---------------------------- MODULE DiagnosisGate ----------------------------
(***************************************************************************)
(* What the coordinator reads of a DiagnosisReport (agent/schemas), and its*)
(* fail-fast gate.  MonitorCycle takes such diagnoses from outside;        *)
(* ForkDiagnostics shows where they come from.                             *)
(***************************************************************************)
EXTENDS Integers

Confidence == {"HIGH", "MEDIUM", "LOW", "UNSOURCED"}
LowLevels == {"LOW", "UNSOURCED"}

(***************************************************************************)
(* Whether it is the parse-error fallback, the confidence levels of its    *)
(* claims, how many of its conflicts are unresolved, and whether its JSON  *)
(* exceeds agent_handoff_max_context_chars.                                *)
(***************************************************************************)
Diagnosis ==
    [type: {"typed", "parse_error"}, claims: SUBSET Confidence, unresolved: Nat,
     oversized: BOOLEAN]

\* The validator of DiagnosisReport: a conflict is between claims.
WellFormed(d) == d.unresolved > 0 => d.claims # {}

\* _verify_diagnosis_precondition without its check of the claims' confidence.
ReportableAnyClaims(d) == d.type # "parse_error" /\ d.claims # {}

\* _verify_diagnosis_precondition returns None: the diagnosis is fit to delegate.
Reportable(d) ==
    /\ d.type # "parse_error"
    /\ d.claims # {}
    /\ ~(d.claims \subseteq LowLevels)
==============================================================================
