--------------------------- MODULE ForkDiagnostics ---------------------------
(***************************************************************************)
(* _run_diagnostics: plan the hypotheses of an anomaly, run one Diagnostic *)
(* sub-agent per hypothesis concurrently, each with its own retries, gather*)
(* them, and merge what the survivors found into one DiagnosisReport.      *)
(*                                                                         *)
(* The forks are coroutines of one event loop that share nothing; their    *)
(* steps interleave at the API calls and the retry sleeps.  What a         *)
(* sub-agent does between its spawn and its answer is the module AgentLoop.*)
(***************************************************************************)
EXTENDS DiagnosisGate, Sequences, FiniteSets

CONSTANTS
    None,           \* Python's None
    MaxForks,       \* bound: the largest config.agent_diagnostic_forks considered
    MaxRetries,     \* config.agent_max_retries
    Types,          \* the anomaly types a Diagnostic agent can conclude
    Ids,            \* the strings a Diagnostic agent names its claims and sources by
    Findings        \* the DiagnosisReports a Diagnostic agent can answer with

ParseError == "parse_error"

Ranks == [HIGH |-> 3, MEDIUM |-> 2, LOW |-> 1, UNSOURCED |-> 0]

(***************************************************************************)
(* A DiagnosisReport is its type, its claims and its source ids as lists   *)
(* (indexed from 1, or by fork and position in a merged one), and its      *)
(* conflicts, each between two claim ids.                                  *)
(***************************************************************************)
ClaimRecord == [id: Ids, source: Ids, confidence: Confidence]
ConflictRecord == [a: Ids, b: Ids, unresolved: BOOLEAN]

\* The fields of a DiagnosisReport that pydantic has validated.
Typed(d) ==
    /\ d.type \in Types
    /\ d.claims \in Seq(ClaimRecord)
    /\ d.sources \in Seq(Ids)
    /\ d.conflicts \subseteq ConflictRecord

Injective(list) == \A j, k \in DOMAIN list : list[j] = list[k] => j = k

\* _check_attribution_integrity: DiagnosisReport raises ValueError unless this holds.
Attributed(d) ==
    /\ Injective(d.sources)
    /\ Injective([j \in DOMAIN d.claims |-> d.claims[j].id])
    /\ \A j \in DOMAIN d.claims :
        d.claims[j].confidence # "UNSOURCED"
            => \E k \in DOMAIN d.sources : d.sources[k] = d.claims[j].source
    /\ \A c \in d.conflicts :
        {c.a, c.b} \subseteq {d.claims[j].id : j \in DOMAIN d.claims}

\* _parse_diagnosis's fallback for an answer that is not a DiagnosisReport.
Unparsed == [type |-> ParseError, claims |-> << >>, sources |-> << >>, conflicts |-> {}]

ASSUME ForkAssumption ==
    /\ MaxForks \in Nat
    /\ MaxRetries \in Nat
    /\ ParseError \notin Types
    /\ \A d \in Findings : Typed(d) /\ Attributed(d)
    /\ None \notin Findings \cup {Unparsed}

VARIABLES
    cap,        \* config.agent_diagnostic_forks
    mode,       \* config.agent_hypothesis_mode
    pc,         \* "plan", "forks" or "done"
    forks,      \* the sub-agents spawned, 1..n; the code numbers them from 0
    status,     \* of each fork: "running", "answered" or "failed"
    attempt,    \* of each fork: the attempt of its _retry_subagent
    finding,    \* of each fork: the DiagnosisReport it answered with, or None
    answer      \* what _run_diagnostics returns: a DiagnosisReport, or None

vars == <<cap, mode, pc, forks, status, attempt, finding, answer>>

Init ==
    /\ cap \in 0..MaxForks
    /\ mode \in {"static", "map", "llm"}
    /\ pc = "plan"
    /\ forks = {}
    /\ status = << >>
    /\ attempt = << >>
    /\ finding = << >>
    /\ answer = None

-----------------------------------------------------------------------------
(***************************************************************************)
(* _plan_hypotheses: how many hypotheses there can be.  There are four     *)
(* generic angles and three for each known type; the model names up to cap *)
(* of its own, and where it fails the map answers.                         *)
(***************************************************************************)
Generic == 4
Mapped == {3, Generic}

PoolSizes ==
    CASE mode = "static" -> {Generic}
      [] mode = "map" -> Mapped
      [] mode = "llm" -> 1..cap \cup Mapped

\* pool[:cap]; a cap of one or less plans no hypothesis, and no hypothesis is one agent.
Spawned(pool) == IF cap <= 1 THEN 1 ELSE IF pool <= cap THEN pool ELSE cap

Plan ==
    /\ pc = "plan"
    /\ pc' = "forks"
    /\ \E pool \in PoolSizes : forks' = 1..Spawned(pool)
    /\ status' = [f \in forks' |-> "running"]
    /\ attempt' = [f \in forks' |-> 0]
    /\ finding' = [f \in forks' |-> None]
    /\ UNCHANGED <<cap, mode, answer>>

\* A _retry_subagent that makes one attempt too many.
RetriesOnceMore(f, transient) == transient /\ attempt[f] <= MaxRetries

Retries(f, transient) == transient /\ attempt[f] < MaxRetries

\* A call of fork f raises: its _retry_subagent tries again or lets the error out.
ForkErrs(f, transient) ==
    /\ pc = "forks" /\ status[f] = "running"
    /\ IF Retries(f, transient)
       THEN attempt' = [attempt EXCEPT ![f] = @ + 1] /\ UNCHANGED status
       ELSE status' = [status EXCEPT ![f] = "failed"] /\ UNCHANGED attempt
    /\ UNCHANGED <<cap, mode, pc, forks, finding, answer>>

\* Fork f answers, with a DiagnosisReport or with something that does not parse as one.
ForkAnswers(f, d) ==
    /\ pc = "forks" /\ status[f] = "running"
    /\ status' = [status EXCEPT ![f] = "answered"]
    /\ finding' = [finding EXCEPT ![f] = d]
    /\ UNCHANGED <<cap, mode, pc, forks, attempt, answer>>

-----------------------------------------------------------------------------
Survivors == {f \in forks : status[f] = "answered"}

\* A merge that gives every fork the same prefix.
PrefixShared(f) == 0

\* The index of a survivor in the list of survivors, which prefixes its ids.
Prefix(f) == Cardinality({g \in Survivors : g < f})

\* A claim under the prefix of its fork.
Namespaced(f, claim) == [claim EXCEPT !.id = <<Prefix(f), @>>, !.source = <<Prefix(f), @>>]

Rank(d, j) == Ranks[d.claims[j].confidence]

\* _representative_claim_id: the first of the claims of highest confidence.
Representative(d) ==
    CHOOSE j \in DOMAIN d.claims : \A k \in DOMAIN d.claims :
        Rank(d, k) < Rank(d, j) \/ (Rank(d, k) = Rank(d, j) /\ j <= k)

HasClaims(f) == DOMAIN finding[f].claims # {}

\* fork_rank
BestRank(f) == IF HasClaims(f) THEN Rank(finding[f], Representative(finding[f])) ELSE -1

\* A merge that takes the first survivor's conclusion.
PrimaryIsFirst == CHOOSE f \in Survivors : \A g \in Survivors : f <= g

\* _primary_fork_index: the first of the survivors with the most confident claim.
Primary ==
    CHOOSE f \in Survivors : \A g \in Survivors :
        BestRank(g) < BestRank(f) \/ (BestRank(g) = BestRank(f) /\ f <= g)

RepresentativeId(f) == <<Prefix(f), finding[f].claims[Representative(finding[f])].id>>

\* A merge that lets a clearly less confident fork be overruled in silence.
CrossForkConflictsOfPeers ==
    {[a |-> RepresentativeId(Primary), b |-> RepresentativeId(f), unresolved |-> TRUE] :
        f \in {g \in Survivors \ {Primary} :
            /\ HasClaims(Primary) /\ HasClaims(g)
            /\ BestRank(g) = BestRank(Primary)
            /\ finding[g].type # finding[Primary].type}}

\* _cross_fork_conflicts: the primary fork against each that concluded another type.
CrossForkConflicts ==
    {[a |-> RepresentativeId(Primary), b |-> RepresentativeId(f), unresolved |-> TRUE] :
        f \in {g \in Survivors \ {Primary} :
            /\ HasClaims(Primary) /\ HasClaims(g)
            /\ finding[g].type # finding[Primary].type}}

\* A merge that keeps the claims of the primary fork only.
ClaimedByPrimary == {Primary} \X DOMAIN finding[Primary].claims

\* The pairs <<fork, position>> of the survivors' claims, and of their sources.
Claimed == UNION {{f} \X DOMAIN finding[f].claims : f \in Survivors}
Consulted == UNION {{f} \X DOMAIN finding[f].sources : f \in Survivors}

ForkConflicts ==
    UNION {{[c EXCEPT !.a = <<Prefix(f), @>>, !.b = <<Prefix(f), @>>] : c \in finding[f].conflicts} :
        f \in Survivors}

\* _merge_fork_diagnoses, for two survivors or more.
Merged ==
    [type      |-> finding[Primary].type,
     claims    |-> [fj \in Claimed |-> Namespaced(fj[1], finding[fj[1]].claims[fj[2]])],
     sources   |-> [fj \in Consulted |-> <<Prefix(fj[1]), finding[fj[1]].sources[fj[2]]>>],
     conflicts |-> ForkConflicts \cup CrossForkConflicts]

\* A gather without return_exceptions: one failed fork loses what the others found.
AggregateAll ==
    IF Survivors # forks THEN None
    ELSE IF Cardinality(Survivors) = 1 THEN finding[Primary] ELSE Merged

\* What comes of the survivors.
Aggregate ==
    IF Survivors = {} THEN None
    ELSE IF Cardinality(Survivors) = 1 THEN finding[Primary] ELSE Merged

\* A gather that waits for an answer of every fork.
GatherAnswers ==
    /\ pc = "forks"
    /\ \A f \in forks : status[f] = "answered"
    /\ pc' = "done"
    /\ answer' = Aggregate
    /\ UNCHANGED <<cap, mode, forks, status, attempt, finding>>

\* gather has every fork's result, and _run_diagnostics returns.
Gather ==
    /\ pc = "forks"
    /\ \A f \in forks : status[f] # "running"
    /\ pc' = "done"
    /\ answer' = Aggregate
    /\ UNCHANGED <<cap, mode, forks, status, attempt, finding>>

Done == pc = "done" /\ UNCHANGED vars

ForkStep(f) ==
    \/ \E transient \in BOOLEAN : ForkErrs(f, transient)
    \/ \E d \in Findings \cup {Unparsed} : ForkAnswers(f, d)

Next == Plan \/ (\E f \in forks : ForkStep(f)) \/ Gather \/ Done

\* The loop runs the coordinator and every fork: the SDK's calls time out, the sleeps end.
Fairness ==
    /\ WF_vars(Plan)
    /\ WF_vars(Gather)
    /\ \A f \in 1..(MaxForks + 1) : WF_vars(f \in forks /\ ForkStep(f))

Spec == Init /\ [][Next]_vars
FairSpec == Spec /\ Fairness

-----------------------------------------------------------------------------
TypeOK ==
    /\ cap \in 0..MaxForks
    /\ mode \in {"static", "map", "llm"}
    /\ pc \in {"plan", "forks", "done"}
    /\ forks \subseteq 1..(MaxForks + 1)
    /\ status \in [forks -> {"running", "answered", "failed"}]
    /\ attempt \in [forks -> 0..MaxRetries]
    /\ finding \in [forks -> Findings \cup {Unparsed, None}]

\* What the coordinator reads of a DiagnosisReport; its size is not modelled here.
Summary(d) ==
    [type |-> IF d.type = ParseError THEN ParseError ELSE "typed",
     claims |-> {d.claims[j].confidence : j \in DOMAIN d.claims},
     unresolved |-> Cardinality({c \in d.conflicts : c.unresolved})]

(***************************************************************************)
(* The merged report is a valid DiagnosisReport: whatever ids the forks    *)
(* chose independently, no two claims or sources collide, no claim or      *)
(* conflict dangles, so building it never raises.                          *)
(***************************************************************************)
AnswerIsAttributed == pc = "done" /\ answer # None => Attributed(answer)

(***************************************************************************)
(* The merged report carries every survivor's evidence: each of their      *)
(* claims is in it with its confidence, and a source it cites is one its   *)
(* own fork consulted, never another fork's source of the same name.       *)
(***************************************************************************)
EvidenceIsKept ==
    pc = "done" /\ Cardinality(Survivors) > 1 =>
        \A f \in Survivors : \A j \in DOMAIN finding[f].claims :
            /\ <<f, j>> \in DOMAIN answer.claims
            /\ answer.claims[<<f, j>>].confidence = finding[f].claims[j].confidence
            /\ \A i \in DOMAIN answer.sources :
                answer.sources[i] = answer.claims[<<f, j>>].source
                    => i[1] = f /\ finding[f].sources[i[2]] = finding[f].claims[j].source

(***************************************************************************)
(* "The cycle only aborts if every fork fails": one that answered is       *)
(* enough, however the others ended.                                       *)
(***************************************************************************)
AbortsOnlyIfAllFail == pc = "done" => (answer = None <=> \A f \in forks : status[f] = "failed")

(***************************************************************************)
(* Merging does not change what the gate decides: a merged diagnosis is fit*)
(* to report exactly if one of the forks' is.  A fork that could not be    *)
(* parsed or found only weak claims never blocks one that did better.      *)
(***************************************************************************)
GateOpensForAnyFork ==
    pc = "done" /\ answer # None =>
        (Reportable(Summary(answer)) <=> \E f \in Survivors : Reportable(Summary(finding[f])))

(***************************************************************************)
(* Disagreement reaches the human: if two forks with claims conclude       *)
(* different types, the answer has an unresolved conflict between claims of*)
(* two forks, whichever two they are and whichever fork is primary.        *)
(***************************************************************************)
DisagreementSurfaces ==
    pc = "done" =>
        \A f, g \in Survivors :
            HasClaims(f) /\ HasClaims(g) /\ finding[f].type # finding[g].type
                => \E c \in answer.conflicts : c.unresolved /\ c.a[1] # c.b[1]

\* If the calls end, the diagnosis ends: a fork that fails never keeps the others waiting.
Diagnosed == pc = "plan" ~> pc = "done"

(***************************************************************************)
(* "Forks that reach a different anomaly_type than the primary fork produce*)
(* a cross-fork ConflictRecord, never silently resolved": each of them does*)
(* (the code leaves out a fork whose diagnosis has no claims).             *)
(***************************************************************************)
DissentIsRecorded ==
    pc = "done" /\ Survivors # {} =>
        \A f \in Survivors :
            finding[f].type \in Types /\ finding[f].type # finding[Primary].type
                => \E c \in answer.conflicts : c.a[1] = Prefix(Primary) /\ c.b[1] = Prefix(f)
==============================================================================
