------------------------ MODULE ForkDiagnosticsProofs ------------------------
(***************************************************************************)
(* Proofs about ForkDiagnostics, for every number of forks and retries and *)
(* whatever reports the forks answer with: the merged diagnosis is valid,  *)
(* it keeps the forks' evidence and their disagreement, and it is lost or  *)
(* gated only if all of them are.                                          *)
(***************************************************************************)
EXTENDS ForkDiagnostics, NumberFacts, FiniteSetTheorems, TLAPS

(***************************************************************************)
(* The inductive invariant: a fork has a finding exactly if it answered,   *)
(* and what is returned is the aggregate of forks that have all ended.     *)
(***************************************************************************)
FindingsMatch ==
    \A f \in forks : finding[f] = None <=> status[f] # "answered"

AnswerIsAggregate ==
    pc = "done" => answer = Aggregate /\ \A f \in forks : status[f] # "running"

NoForksYet == pc = "plan" => forks = {}

IInv == TypeOK /\ FindingsMatch /\ AnswerIsAggregate /\ NoForksYet

LEMMA InvInit == Init => IInv
<1> SUFFICES ASSUME Init PROVE IInv
    OBVIOUS
<1>1. pc = "plan" /\ forks = {} /\ DOMAIN status = {} /\ DOMAIN attempt = {} /\ DOMAIN finding = {}
    BY DEF Init
<1>2. /\ status \in [forks -> {"running", "answered", "failed"}]
      /\ attempt \in [forks -> 0..MaxRetries]
      /\ finding \in [forks -> Findings \cup {Unparsed, None}]
    BY <1>1 DEF Init
<1> QED
    BY <1>1, <1>2 DEF Init, IInv, TypeOK, FindingsMatch, AnswerIsAggregate, NoForksYet

\* What the survivors aggregate to depends on the forks and their findings only.
LEMMA AggregateSame ==
    ASSUME UNCHANGED <<forks, status, finding>>
    PROVE  Aggregate' = Aggregate
<1>1. Survivors' = Survivors
    BY DEF Survivors
<1>2. Primary' = Primary
    BY <1>1 DEF Primary, BestRank, HasClaims
<1>3. ForkConflicts' = ForkConflicts
    BY <1>1 DEF ForkConflicts, Prefix
<1>4. \A f : RepresentativeId(f)' = RepresentativeId(f) 
    BY <1>1 DEF RepresentativeId, Prefix
<1>5. CrossForkConflicts' = CrossForkConflicts
    BY <1>1, <1>2 DEF CrossForkConflicts, RepresentativeId, Prefix, HasClaims, BestRank
<1>6. Claimed' = Claimed /\ Consulted' = Consulted
    BY <1>1 DEF Claimed, Consulted
<1>7. Merged' = Merged
    BY <1>1, <1>2, <1>3, <1>5, <1>6 DEF Merged, Namespaced, Prefix
<1> QED BY <1>1, <1>2, <1>7 DEF Aggregate

\* However many hypotheses there are, no more forks are spawned than cap, or one.
LEMMA SpawnedBound ==
    ASSUME cap \in 0..MaxForks, mode \in {"static", "map", "llm"}, NEW pool \in PoolSizes
    PROVE  1..Spawned(pool) \subseteq 1..(MaxForks + 1)
<1>1. MaxForks \in Nat
    BY ForkAssumption
<1>2. pool \in Int
    BY <1>1 DEF PoolSizes, Generic, Mapped
<1>3. Spawned(pool) \in Int /\ Spawned(pool) <= MaxForks + 1
    BY <1>1, <1>2 DEF Spawned
<1> QED BY <1>1, <1>3

LEMMA InvNext == IInv /\ [Next]_vars => IInv'
<1> SUFFICES ASSUME IInv, [Next]_vars PROVE IInv'
    OBVIOUS
<1> USE DEF IInv, TypeOK, FindingsMatch, AnswerIsAggregate, NoForksYet
<1>1. CASE Plan
    <2>1. PICK pool \in PoolSizes : forks' = 1..Spawned(pool)
        BY <1>1 DEF Plan
    <2>2. forks' \subseteq 1..(MaxForks + 1)
        BY <2>1, SpawnedBound
    <2>3. 0 \in 0..MaxRetries
        BY ForkAssumption
    <2>4. /\ pc' = "forks" /\ UNCHANGED <<cap, mode, answer>>
          /\ status' = [f \in forks' |-> "running"]
          /\ attempt' = [f \in forks' |-> 0]
          /\ finding' = [f \in forks' |-> None]
        BY <1>1 DEF Plan
    <2> QED BY <2>2, <2>3, <2>4
<1>2. ASSUME NEW f \in forks, NEW transient \in BOOLEAN, ForkErrs(f, transient)
      PROVE  IInv'
    <2>1. /\ pc = "forks" /\ UNCHANGED <<cap, mode, pc, forks, finding, answer>>
          /\ status[f] = "running"
        BY <1>2 DEF ForkErrs
    <2>2. CASE Retries(f, transient)
        <3>1. attempt[f] + 1 \in 0..MaxRetries
            BY <2>2, ForkAssumption DEF Retries
        <3>2. attempt' = [attempt EXCEPT ![f] = attempt[f] + 1] /\ UNCHANGED status
            BY <1>2, <2>2 DEF ForkErrs
        <3> QED BY <2>1, <3>1, <3>2
    <2>3. CASE ~Retries(f, transient)
        <3>1. status' = [status EXCEPT ![f] = "failed"] /\ UNCHANGED attempt
            BY <1>2, <2>3 DEF ForkErrs
        <3> QED BY <2>1, <3>1
    <2> QED BY <2>2, <2>3
<1>3. ASSUME NEW f \in forks, NEW d \in Findings \cup {Unparsed}, ForkAnswers(f, d)
      PROVE  IInv'
    <2>1. d # None
        BY ForkAssumption
    <2>2. /\ pc = "forks" /\ UNCHANGED <<cap, mode, pc, forks, attempt, answer>>
          /\ status' = [status EXCEPT ![f] = "answered"]
          /\ finding' = [finding EXCEPT ![f] = d]
        BY <1>3 DEF ForkAnswers
    <2> HIDE DEF Unparsed
    <2> QED BY <2>1, <2>2
<1>4. CASE Gather
    <2>1. /\ pc' = "done" /\ answer' = Aggregate
          /\ UNCHANGED <<cap, mode, forks, status, attempt, finding>>
          /\ \A f \in forks : status[f] # "running"
        BY <1>4 DEF Gather
    <2>2. Aggregate' = Aggregate
        BY <2>1, AggregateSame
    <2> QED BY <2>1, <2>2
<1>5. CASE UNCHANGED vars
    <2>1. Aggregate' = Aggregate
        BY <1>5, AggregateSame DEF vars
    <2> QED BY <1>5, <2>1 DEF vars
<1> QED
    BY <1>1, <1>2, <1>3, <1>4, <1>5 DEF Next, ForkStep, Done

LEMMA Invariance == Spec => []IInv
BY InvInit, InvNext, PTL DEF Spec

(***************************************************************************)
(* Forks, attempts and findings have their types: no sub-agent is tried    *)
(* more often than configured, however its attempts fail.                  *)
(***************************************************************************)
THEOREM TypeCorrect == Spec => []TypeOK
<1>1. IInv => TypeOK
    BY DEF IInv
<1> QED BY <1>1, Invariance, PTL

-----------------------------------------------------------------------------
(* The choice of a representative claim and of a primary fork. *)

\* Among finitely many ranks one is the best, and its first holder is the choice.
LEMMA BestExists ==
    ASSUME NEW S, S \subseteq Nat, S # {},
           NEW r, \A j \in S : r[j] \in -1..3
    PROVE  \E j \in S : \A k \in S : r[k] < r[j] \/ (r[k] = r[j] /\ j <= k)
<1>1. \E b \in -1..3 : (\E j \in S : r[j] = b) /\ \A k \in S : r[k] <= b
    <2>1. CASE \E j \in S : r[j] = 3
        BY <2>1
    <2>2. CASE (\E j \in S : r[j] = 2) /\ \A j \in S : r[j] # 3
        BY <2>2
    <2>3. CASE (\E j \in S : r[j] = 1) /\ \A j \in S : r[j] \notin {2, 3}
        BY <2>3
    <2>4. CASE (\E j \in S : r[j] = 0) /\ \A j \in S : r[j] \notin {1, 2, 3}
        BY <2>4
    <2>5. CASE \A j \in S : r[j] \notin {0, 1, 2, 3}
        <3>1. \A j \in S : r[j] = -1
            BY <2>5
        <3>2. \E j \in S : r[j] = -1
            BY <3>1
        <3>3. \A k \in S : r[k] <= -1
            BY <3>1
        <3> DEFINE b == -1
        <3>4. b \in -1..3 /\ (\E j \in S : r[j] = b) /\ \A k \in S : r[k] <= b
            BY <3>2, <3>3
        <3> HIDE DEF b
        <3> QED BY <3>4
    <2> QED BY <2>1, <2>2, <2>3, <2>4, <2>5
<1>2. PICK b \in -1..3 : (\E j \in S : r[j] = b) /\ \A k \in S : r[k] <= b
    BY <1>1
<1> DEFINE Top == {j \in S : r[j] = b}
<1>3. PICK j \in Top : \A k \in Top : j <= k
    BY <1>2, LeastExists
<1>4. ASSUME NEW k \in S PROVE r[k] < r[j] \/ (r[k] = r[j] /\ j <= k)
    BY <1>2, <1>3
<1> QED BY <1>3, <1>4

\* The reports a fork can answer with.
Answers == Findings \cup {Unparsed}

LEMMA AnswerShape ==
    ASSUME NEW d \in Answers
    PROVE  /\ d # None
           /\ d.claims \in Seq(ClaimRecord)
           /\ d.sources \in Seq(Ids)
           /\ d.conflicts \subseteq ConflictRecord
           /\ Attributed(d)
           /\ d.type = ParseError => DOMAIN d.claims = {}
<1>1. CASE d \in Findings
    BY <1>1, ForkAssumption DEF Typed
<1>2. CASE d = Unparsed
    <2>1. d.claims = << >> /\ d.sources = << >> /\ d.conflicts = {}
        BY <1>2 DEF Unparsed
    <2>2. DOMAIN d.claims = {} /\ DOMAIN d.sources = {}
        BY <2>1
    <2>3. Attributed(d)
        BY <2>1, <2>2 DEF Attributed, Injective
    <2> QED BY <1>2, <2>1, <2>2, <2>3, ForkAssumption
<1> QED BY <1>1, <1>2 DEF Answers

LEMMA RankRange ==
    ASSUME NEW d \in Answers, NEW j \in DOMAIN d.claims
    PROVE  /\ Rank(d, j) \in 0..3
           /\ Rank(d, j) >= 2 <=> d.claims[j].confidence \notin LowLevels
<1>1. d.claims[j] \in ClaimRecord
    BY AnswerShape
<1>2. d.claims[j].confidence \in {"HIGH", "MEDIUM", "LOW", "UNSOURCED"}
    BY <1>1 DEF ClaimRecord, Confidence
<1>3. /\ Ranks["HIGH"] = 3 /\ Ranks["MEDIUM"] = 2 /\ Ranks["LOW"] = 1 /\ Ranks["UNSOURCED"] = 0
    BY DEF Ranks
<1> QED BY <1>2, <1>3 DEF Rank, LowLevels

\* The representative of a report with claims is one of them, and none is more confident.
LEMMA RepresentativeIs ==
    ASSUME NEW d \in Answers, DOMAIN d.claims # {}
    PROVE  /\ Representative(d) \in DOMAIN d.claims
           /\ \A k \in DOMAIN d.claims : Rank(d, k) <= Rank(d, Representative(d))
<1> DEFINE r == [j \in DOMAIN d.claims |-> Rank(d, j)]
<1>1. DOMAIN d.claims \subseteq Nat
    BY AnswerShape
<1>2. \A j \in DOMAIN d.claims : r[j] \in -1..3
    BY RankRange
<1>3. \E j \in DOMAIN d.claims : \A k \in DOMAIN d.claims :
        r[k] < r[j] \/ (r[k] = r[j] /\ j <= k)
    <2> HIDE DEF r
    <2> QED BY <1>1, <1>2, BestExists
<1>4. \E j \in DOMAIN d.claims : \A k \in DOMAIN d.claims :
        Rank(d, k) < Rank(d, j) \/ (Rank(d, k) = Rank(d, j) /\ j <= k)
    BY <1>3
<1>5. /\ Representative(d) \in DOMAIN d.claims
      /\ \A k \in DOMAIN d.claims :
            \/ Rank(d, k) < Rank(d, Representative(d))
            \/ Rank(d, k) = Rank(d, Representative(d)) /\ Representative(d) <= k
    BY <1>4, Zenon DEF Representative
<1> QED BY <1>5, RankRange

\* The survivors have answers, and are finitely many numbers.
LEMMA SurvivorsAre ==
    ASSUME IInv
    PROVE  /\ Survivors \subseteq Nat /\ IsFiniteSet(Survivors)
           /\ \A f \in Survivors : f \in forks /\ finding[f] \in Answers
<1>1. forks \subseteq 1..(MaxForks + 1) /\ Survivors \subseteq forks
    BY DEF IInv, TypeOK, Survivors
<1>2. IsFiniteSet(1..(MaxForks + 1)) /\ 1..(MaxForks + 1) \subseteq Nat
    BY FS_Interval, ForkAssumption
<1>3. Survivors \in SUBSET (1..(MaxForks + 1))
    BY <1>1
<1>4. IsFiniteSet(Survivors)
    BY <1>2, <1>3, FS_Subset
<1>5. \A f \in Survivors : finding[f] \in Answers
    BY DEF IInv, TypeOK, FindingsMatch, Survivors, Answers
<1> QED BY <1>1, <1>2, <1>4, <1>5

\* A fork without claims ranks below every fork with some.
LEMMA BestRankRange ==
    ASSUME IInv, NEW f \in Survivors
    PROVE  /\ BestRank(f) \in -1..3
           /\ BestRank(f) >= 0 <=> HasClaims(f)
           /\ \A j \in DOMAIN finding[f].claims : Rank(finding[f], j) <= BestRank(f)
<1>1. finding[f] \in Answers
    BY SurvivorsAre
<1>2. CASE HasClaims(f)
    <2>1. /\ Representative(finding[f]) \in DOMAIN finding[f].claims
          /\ \A k \in DOMAIN finding[f].claims :
                Rank(finding[f], k) <= Rank(finding[f], Representative(finding[f]))
        BY <1>1, <1>2, RepresentativeIs DEF HasClaims
    <2>2. Rank(finding[f], Representative(finding[f])) \in 0..3
        BY <1>1, <2>1, RankRange
    <2> QED BY <1>2, <2>1, <2>2 DEF BestRank
<1>3. CASE ~HasClaims(f)
    BY <1>3 DEF BestRank, HasClaims
<1> QED BY <1>2, <1>3

\* The primary fork is a survivor, and no other has a more confident claim.
LEMMA PrimaryIs ==
    ASSUME IInv, Survivors # {}
    PROVE  Primary \in Survivors /\ \A g \in Survivors : BestRank(g) <= BestRank(Primary)
<1> DEFINE r == [f \in Survivors |-> BestRank(f)]
<1>1. \A f \in Survivors : r[f] \in -1..3
    BY BestRankRange
<1>2. \E f \in Survivors : \A g \in Survivors : r[g] < r[f] \/ (r[g] = r[f] /\ f <= g)
    <2> HIDE DEF r
    <2> QED BY <1>1, SurvivorsAre, BestExists
<1>3. \E f \in Survivors : \A g \in Survivors :
        BestRank(g) < BestRank(f) \/ (BestRank(g) = BestRank(f) /\ f <= g)
    BY <1>2
<1>4. /\ Primary \in Survivors
      /\ \A g \in Survivors :
            \/ BestRank(g) < BestRank(Primary)
            \/ BestRank(g) = BestRank(Primary) /\ Primary <= g
    BY <1>3, Zenon DEF Primary
<1> QED BY <1>4, BestRankRange

\* The prefixes keep the forks' ids apart.
LEMMA PrefixesDiffer ==
    ASSUME IInv, NEW f \in Survivors, NEW g \in Survivors, Prefix(f) = Prefix(g)
    PROVE  f = g
<1>1. ASSUME NEW a \in Survivors, NEW b \in Survivors, a < b
      PROVE  Prefix(a) # Prefix(b)
    <2> DEFINE A == {h \in Survivors : h < a}
               B == {h \in Survivors : h < b}
    <2>1. IsFiniteSet(B)
        BY SurvivorsAre, FS_Subset
    <2>2. A \subseteq B /\ a \in B /\ a \notin A
        BY <1>1, SurvivorsAre
    <2>3. Cardinality(A) # Cardinality(B)
        <3> HIDE DEF A, B
        <3> QED BY <2>1, <2>2, FS_Subset
    <2> QED BY <2>3 DEF Prefix
<1>2. f \in Nat /\ g \in Nat
    BY SurvivorsAre
<1> QED BY <1>1, <1>2

\* Survivors that are not one are at least two different ones.
LEMMA OneSurvivor ==
    ASSUME IInv, Cardinality(Survivors) = 1
    PROVE  Survivors = {Primary}
<1>1. PICK f : Survivors = {f}
    BY SurvivorsAre, FS_Singleton
<1> QED BY <1>1, PrimaryIs

LEMMA SeveralSurvivors ==
    ASSUME IInv, NEW f \in Survivors, NEW g \in Survivors, f # g
    PROVE  Survivors # {} /\ Cardinality(Survivors) # 1
BY OneSurvivor

-----------------------------------------------------------------------------
(* The merged report. *)

\* The claims and sources of a merged report, each under the prefix of its fork.
LEMMA MergedParts ==
    ASSUME IInv
    PROVE  /\ DOMAIN Merged.claims = Claimed /\ DOMAIN Merged.sources = Consulted
           /\ \A f \in Survivors : \A j \in DOMAIN finding[f].claims :
                /\ <<f, j>> \in Claimed
                /\ Merged.claims[<<f, j>>].id = <<Prefix(f), finding[f].claims[j].id>>
                /\ Merged.claims[<<f, j>>].source = <<Prefix(f), finding[f].claims[j].source>>
                /\ Merged.claims[<<f, j>>].confidence = finding[f].claims[j].confidence
           /\ \A f \in Survivors : \A j \in DOMAIN finding[f].sources :
                /\ <<f, j>> \in Consulted
                /\ Merged.sources[<<f, j>>] = <<Prefix(f), finding[f].sources[j]>>
<1>1. DOMAIN Merged.claims = Claimed /\ DOMAIN Merged.sources = Consulted
    BY DEF Merged
<1>2. ASSUME NEW f \in Survivors, NEW j \in DOMAIN finding[f].claims
      PROVE  /\ <<f, j>> \in Claimed
             /\ Merged.claims[<<f, j>>].id = <<Prefix(f), finding[f].claims[j].id>>
             /\ Merged.claims[<<f, j>>].source = <<Prefix(f), finding[f].claims[j].source>>
             /\ Merged.claims[<<f, j>>].confidence = finding[f].claims[j].confidence
    <2>1. <<f, j>> \in Claimed
        BY DEF Claimed
    <2>2. finding[f].claims[j] \in ClaimRecord
        BY SurvivorsAre, AnswerShape
    <2>3. Merged.claims[<<f, j>>] = Namespaced(f, finding[f].claims[j])
        BY <2>1 DEF Merged
    <2> DEFINE claim == finding[f].claims[j]
    <2>4. /\ Namespaced(f, claim).id = <<Prefix(f), claim.id>>
          /\ Namespaced(f, claim).source = <<Prefix(f), claim.source>>
          /\ Namespaced(f, claim).confidence = claim.confidence
        <3> HIDE DEF claim
        <3> QED BY <2>2 DEF claim, Namespaced, ClaimRecord
    <2> QED BY <2>1, <2>3, <2>4
<1>3. ASSUME NEW f \in Survivors, NEW j \in DOMAIN finding[f].sources
      PROVE  /\ <<f, j>> \in Consulted
             /\ Merged.sources[<<f, j>>] = <<Prefix(f), finding[f].sources[j]>>
    <2>1. <<f, j>> \in Consulted
        BY DEF Consulted
    <2> QED BY <2>1 DEF Merged
<1> QED BY <1>1, <1>2, <1>3

\* A pair in Claimed or Consulted is a survivor and a position in its list.
LEMMA PairsAre ==
    /\ \A i \in Claimed : \E f \in Survivors : \E j \in DOMAIN finding[f].claims : i = <<f, j>>
    /\ \A i \in Consulted : \E f \in Survivors : \E j \in DOMAIN finding[f].sources : i = <<f, j>>
BY DEF Claimed, Consulted

LEMMA MergedSourcesInjective ==
    ASSUME IInv
    PROVE  Injective(Merged.sources)
<1> SUFFICES ASSUME NEW i \in Consulted, NEW k \in Consulted,
                    Merged.sources[i] = Merged.sources[k]
             PROVE  i = k
    BY MergedParts DEF Injective
<1>1. PICK f \in Survivors : \E j \in DOMAIN finding[f].sources : i = <<f, j>>
    BY PairsAre
<1>1a. PICK j \in DOMAIN finding[f].sources : i = <<f, j>>
    BY <1>1
<1>2. PICK g \in Survivors : \E l \in DOMAIN finding[g].sources : k = <<g, l>>
    BY PairsAre
<1>2a. PICK l \in DOMAIN finding[g].sources : k = <<g, l>>
    BY <1>2
<1>3. <<Prefix(f), finding[f].sources[j]>> = <<Prefix(g), finding[g].sources[l]>>
    BY <1>1a, <1>2a, MergedParts
<1>4. f = g
    BY <1>3, PrefixesDiffer
<1>5. j = l
    BY <1>3, <1>4, SurvivorsAre, AnswerShape DEF Attributed, Injective
<1> QED BY <1>1a, <1>2a, <1>4, <1>5

LEMMA MergedClaimsInjective ==
    ASSUME IInv
    PROVE  Injective([i \in DOMAIN Merged.claims |-> Merged.claims[i].id])
<1> SUFFICES ASSUME NEW i \in Claimed, NEW k \in Claimed,
                    Merged.claims[i].id = Merged.claims[k].id
             PROVE  i = k
    BY MergedParts DEF Injective
<1>1. PICK f \in Survivors : \E j \in DOMAIN finding[f].claims : i = <<f, j>>
    BY PairsAre
<1>1a. PICK j \in DOMAIN finding[f].claims : i = <<f, j>>
    BY <1>1
<1>2. PICK g \in Survivors : \E l \in DOMAIN finding[g].claims : k = <<g, l>>
    BY PairsAre
<1>2a. PICK l \in DOMAIN finding[g].claims : k = <<g, l>>
    BY <1>2
<1>3. <<Prefix(f), finding[f].claims[j].id>> = <<Prefix(g), finding[g].claims[l].id>>
    BY <1>1a, <1>2a, MergedParts
<1>4. f = g
    BY <1>3, PrefixesDiffer
<1>5. Injective([m \in DOMAIN finding[f].claims |-> finding[f].claims[m].id])
    BY SurvivorsAre, AnswerShape DEF Attributed
<1>6. j = l
    BY <1>2a, <1>3, <1>4, <1>5 DEF Injective
<1> QED BY <1>1a, <1>2a, <1>4, <1>6

\* The ids of the claims of d.
ClaimIds(d) == {d.claims[j].id : j \in DOMAIN d.claims}

LEMMA MergedIds ==
    ASSUME IInv, NEW f \in Survivors, NEW id \in ClaimIds(finding[f])
    PROVE  <<Prefix(f), id>> \in ClaimIds(Merged)
<1>1. PICK j \in DOMAIN finding[f].claims : id = finding[f].claims[j].id
    BY DEF ClaimIds
<1>2. <<f, j>> \in DOMAIN Merged.claims /\ Merged.claims[<<f, j>>].id = <<Prefix(f), id>>
    BY <1>1, MergedParts
<1> QED BY <1>2 DEF ClaimIds

LEMMA RepresentativeIdIs ==
    ASSUME IInv, NEW f \in Survivors, HasClaims(f)
    PROVE  RepresentativeId(f) \in ClaimIds(Merged)
<1>1. Representative(finding[f]) \in DOMAIN finding[f].claims
    BY SurvivorsAre, RepresentativeIs DEF HasClaims
<1>2. finding[f].claims[Representative(finding[f])].id \in ClaimIds(finding[f])
    BY <1>1 DEF ClaimIds
<1> QED BY <1>2, MergedIds DEF RepresentativeId

\* Merging reports that are valid gives a valid report.
LEMMA MergedAttributed ==
    ASSUME IInv
    PROVE  Attributed(Merged)
<1>1. ASSUME NEW i \in DOMAIN Merged.claims, Merged.claims[i].confidence # "UNSOURCED"
      PROVE  \E k \in DOMAIN Merged.sources : Merged.sources[k] = Merged.claims[i].source
    <2>1. PICK f \in Survivors : \E j \in DOMAIN finding[f].claims : i = <<f, j>>
        BY MergedParts, PairsAre
    <2>1a. PICK j \in DOMAIN finding[f].claims : i = <<f, j>>
        BY <2>1
    <2>2. /\ finding[f].claims[j].confidence # "UNSOURCED"
          /\ Merged.claims[i].source = <<Prefix(f), finding[f].claims[j].source>>
        BY <1>1, <2>1a, MergedParts
    <2>3. PICK k \in DOMAIN finding[f].sources :
            finding[f].sources[k] = finding[f].claims[j].source
        BY <2>2, SurvivorsAre, AnswerShape DEF Attributed
    <2>4. <<f, k>> \in DOMAIN Merged.sources /\ Merged.sources[<<f, k>>] = Merged.claims[i].source
        BY <2>2, <2>3, MergedParts
    <2> QED BY <2>4
<1>2. ASSUME NEW c \in ForkConflicts
      PROVE  {c.a, c.b} \subseteq ClaimIds(Merged)
    <2>1. PICK f \in Survivors : \E d \in finding[f].conflicts :
            c = [d EXCEPT !.a = <<Prefix(f), d.a>>, !.b = <<Prefix(f), d.b>>]
        BY DEF ForkConflicts
    <2>1a. PICK d \in finding[f].conflicts :
            c = [d EXCEPT !.a = <<Prefix(f), d.a>>, !.b = <<Prefix(f), d.b>>]
        BY <2>1
    <2>2. d \in ConflictRecord
        BY SurvivorsAre, AnswerShape
    <2>3. c.a = <<Prefix(f), d.a>> /\ c.b = <<Prefix(f), d.b>>
        BY <2>1a, <2>2 DEF ConflictRecord
    <2>4. d.a \in ClaimIds(finding[f]) /\ d.b \in ClaimIds(finding[f])
        BY SurvivorsAre, AnswerShape DEF Attributed, ClaimIds
    <2> QED BY <2>3, <2>4, MergedIds
<1>3. ASSUME NEW c \in CrossForkConflicts
      PROVE  {c.a, c.b} \subseteq ClaimIds(Merged)
    <2>1. PICK f \in Survivors \ {Primary} :
            /\ HasClaims(Primary) /\ HasClaims(f)
            /\ c = [a |-> RepresentativeId(Primary), b |-> RepresentativeId(f), unresolved |-> TRUE]
        BY DEF CrossForkConflicts
    <2>2. Primary \in Survivors
        BY PrimaryIs
    <2>3. c.a = RepresentativeId(Primary) /\ c.b = RepresentativeId(f)
        BY <2>1
    <2> QED BY <2>1, <2>2, <2>3, RepresentativeIdIs
<1>4. Merged.conflicts = ForkConflicts \cup CrossForkConflicts
    BY DEF Merged
<1>5. \A c \in Merged.conflicts :
        {c.a, c.b} \subseteq {Merged.claims[j].id : j \in DOMAIN Merged.claims}
    BY <1>2, <1>3, <1>4, Zenon DEF ClaimIds
<1> QED
    BY <1>1, <1>5, MergedSourcesInjective, MergedClaimsInjective, Zenon DEF Attributed

(***************************************************************************)
(* However the forks named their claims and sources, what _run_diagnostics *)
(* returns passes the validator of DiagnosisReport.                        *)
(***************************************************************************)
THEOREM MergeIsValid == Spec => []AnswerIsAttributed
<1>1. IInv => AnswerIsAttributed
    <2> SUFFICES ASSUME IInv, pc = "done", answer # None PROVE Attributed(answer)
        BY DEF AnswerIsAttributed
    <2>1. answer = Aggregate
        BY DEF IInv, AnswerIsAggregate
    <2>2. CASE Survivors # {} /\ Cardinality(Survivors) = 1
        BY <2>1, <2>2, PrimaryIs, SurvivorsAre, AnswerShape DEF Aggregate
    <2>3. CASE Survivors # {} /\ Cardinality(Survivors) # 1
        BY <2>1, <2>3, MergedAttributed DEF Aggregate
    <2> QED BY <2>1, <2>2, <2>3 DEF Aggregate
<1> QED BY <1>1, Invariance, PTL

(***************************************************************************)
(* No survivor's claim is lost or takes another fork's source for its own. *)
(***************************************************************************)
THEOREM MergeKeepsEvidence == Spec => []EvidenceIsKept
<1>1. IInv => EvidenceIsKept
    <2> SUFFICES ASSUME IInv, pc = "done", Cardinality(Survivors) > 1,
                        NEW f \in Survivors, NEW j \in DOMAIN finding[f].claims
                 PROVE  /\ <<f, j>> \in DOMAIN answer.claims
                        /\ answer.claims[<<f, j>>].confidence = finding[f].claims[j].confidence
                        /\ \A i \in DOMAIN answer.sources :
                             answer.sources[i] = answer.claims[<<f, j>>].source
                                => i[1] = f /\ finding[f].sources[i[2]] = finding[f].claims[j].source
        BY DEF EvidenceIsKept
    <2>1. answer = Merged
        BY DEF IInv, AnswerIsAggregate, Aggregate
    <2>2. ASSUME NEW i \in DOMAIN answer.sources,
                 answer.sources[i] = answer.claims[<<f, j>>].source
          PROVE  i[1] = f /\ finding[f].sources[i[2]] = finding[f].claims[j].source
        <3>1. PICK g \in Survivors : \E k \in DOMAIN finding[g].sources : i = <<g, k>>
            BY <2>1, MergedParts, PairsAre
        <3>1a. PICK k \in DOMAIN finding[g].sources : i = <<g, k>>
            BY <3>1
        <3>2. <<Prefix(g), finding[g].sources[k]>> = <<Prefix(f), finding[f].claims[j].source>>
            BY <2>1, <2>2, <3>1a, MergedParts
        <3>3. g = f
            BY <3>2, PrefixesDiffer
        <3> QED BY <3>1a, <3>2, <3>3
    <2> QED BY <2>1, <2>2, MergedParts
<1> QED BY <1>1, Invariance, PTL

(***************************************************************************)
(* The diagnosis is None exactly if every fork failed.  Python's None is   *)
(* no DiagnosisReport, which the hypothesis says.                          *)
(***************************************************************************)
THEOREM AbortsOnlyWithoutSurvivors ==
    ASSUME \A t, c, s, x : None # [type |-> t, claims |-> c, sources |-> s, conflicts |-> x]
    PROVE  Spec => []AbortsOnlyIfAllFail
<1>1. IInv => AbortsOnlyIfAllFail
    <2> SUFFICES ASSUME IInv, pc = "done"
                 PROVE  answer = None <=> \A f \in forks : status[f] = "failed"
        BY DEF AbortsOnlyIfAllFail
    <2>1. answer = Aggregate /\ \A f \in forks : status[f] \in {"answered", "failed"}
        BY DEF IInv, AnswerIsAggregate, TypeOK
    <2>2. Survivors = {} <=> \A f \in forks : status[f] = "failed"
        BY <2>1 DEF Survivors
    <2>3. Survivors # {} => Aggregate # None
        <3>1. ASSUME Survivors # {} PROVE finding[Primary] # None
            BY <3>1, PrimaryIs, SurvivorsAre, AnswerShape
        <3>2. Merged # None
            BY DEF Merged
        <3> QED BY <3>1, <3>2 DEF Aggregate
    <2> QED BY <2>1, <2>2, <2>3 DEF Aggregate
<1> QED BY <1>1, Invariance, PTL

-----------------------------------------------------------------------------
\* A report is fit to delegate if it has a claim that is not weak.
LEMMA ReportableIs ==
    ASSUME NEW d, d.type = ParseError => DOMAIN d.claims = {}
    PROVE  Reportable(Summary(d))
            <=> \E j \in DOMAIN d.claims : d.claims[j].confidence \notin LowLevels
<1>1. /\ Summary(d).type = IF d.type = ParseError THEN ParseError ELSE "typed"
      /\ Summary(d).claims = {d.claims[j].confidence : j \in DOMAIN d.claims}
    BY DEF Summary
<1>2. ParseError = "parse_error"
    BY DEF ParseError
<1> QED BY <1>1, <1>2 DEF Reportable

LEMMA StrongIsRank ==
    ASSUME IInv, NEW f \in Survivors
    PROVE  (\E j \in DOMAIN finding[f].claims : finding[f].claims[j].confidence \notin LowLevels)
            <=> BestRank(f) >= 2
<1>1. finding[f] \in Answers
    BY SurvivorsAre
<1>2. ASSUME NEW j \in DOMAIN finding[f].claims, finding[f].claims[j].confidence \notin LowLevels
      PROVE  BestRank(f) >= 2
    <2>1. Rank(finding[f], j) >= 2 /\ Rank(finding[f], j) \in 0..3
        BY <1>1, <1>2, RankRange
    <2> QED BY <2>1, BestRankRange
<1>3. ASSUME BestRank(f) >= 2
      PROVE  \E j \in DOMAIN finding[f].claims : finding[f].claims[j].confidence \notin LowLevels
    <2>1. HasClaims(f)
        BY <1>3, BestRankRange
    <2>2. Representative(finding[f]) \in DOMAIN finding[f].claims
        BY <1>1, <2>1, RepresentativeIs DEF HasClaims
    <2>3. Rank(finding[f], Representative(finding[f])) >= 2
        BY <1>3, <2>1 DEF BestRank
    <2> QED BY <1>1, <2>2, <2>3, RankRange
<1> QED BY <1>2, <1>3

(***************************************************************************)
(* The gate lets the merged diagnosis through exactly if it would have let *)
(* one of the forks' through.                                              *)
(***************************************************************************)
THEOREM GateIsPreserved == Spec => []GateOpensForAnyFork
<1>1. IInv => GateOpensForAnyFork
    <2> SUFFICES ASSUME IInv, pc = "done", answer # None
                 PROVE  Reportable(Summary(answer))
                            <=> \E f \in Survivors : Reportable(Summary(finding[f]))
        BY DEF GateOpensForAnyFork
    <2> DEFINE Strong(f) ==
            \E j \in DOMAIN finding[f].claims : finding[f].claims[j].confidence \notin LowLevels
    <2>1. answer = Aggregate /\ Survivors # {}
        BY DEF IInv, AnswerIsAggregate, Aggregate
    <2>2. Primary \in Survivors /\ \A g \in Survivors : BestRank(g) <= BestRank(Primary)
        BY <2>1, PrimaryIs
    <2>3. \A f \in Survivors : Reportable(Summary(finding[f])) <=> Strong(f)
        BY SurvivorsAre, AnswerShape, ReportableIs
    <2>4. CASE Cardinality(Survivors) = 1
        <3>1. answer = finding[Primary] /\ Survivors = {Primary}
            BY <2>1, <2>4, OneSurvivor DEF Aggregate
        <3> QED BY <3>1
    <2>5. CASE Cardinality(Survivors) # 1
        <3>1. answer = Merged
            BY <2>1, <2>5 DEF Aggregate
        <3>2. Merged.type = ParseError => DOMAIN Merged.claims = {}
            <4>1. SUFFICES ASSUME finding[Primary].type = ParseError
                           PROVE  DOMAIN Merged.claims = {}
                BY DEF Merged
            <4>2. ~HasClaims(Primary)
                BY <2>2, <4>1, SurvivorsAre, AnswerShape DEF HasClaims
            <4>3. \A g \in Survivors : ~HasClaims(g)
                BY <2>2, <4>2, BestRankRange
            <4> QED BY <4>3, MergedParts, PairsAre DEF HasClaims
        <3>3. Reportable(Summary(Merged))
                <=> \E i \in DOMAIN Merged.claims : Merged.claims[i].confidence \notin LowLevels
            BY <3>2, ReportableIs
        <3>4. (\E i \in DOMAIN Merged.claims : Merged.claims[i].confidence \notin LowLevels)
                <=> \E f \in Survivors : Strong(f)
            <4>1. ASSUME NEW i \in DOMAIN Merged.claims,
                         Merged.claims[i].confidence \notin LowLevels
                  PROVE  \E f \in Survivors : Strong(f)
                <5>1. PICK f \in Survivors : \E j \in DOMAIN finding[f].claims : i = <<f, j>>
                    BY MergedParts, PairsAre
                <5>2. PICK j \in DOMAIN finding[f].claims : i = <<f, j>>
                    BY <5>1
                <5>3. finding[f].claims[j].confidence \notin LowLevels
                    BY <4>1, <5>2, MergedParts
                <5> QED BY <5>3
            <4>2. ASSUME NEW f \in Survivors, Strong(f)
                  PROVE  \E i \in DOMAIN Merged.claims :
                            Merged.claims[i].confidence \notin LowLevels
                <5>1. PICK j \in DOMAIN finding[f].claims :
                        finding[f].claims[j].confidence \notin LowLevels
                    BY <4>2
                <5>2. /\ <<f, j>> \in DOMAIN Merged.claims
                      /\ Merged.claims[<<f, j>>].confidence = finding[f].claims[j].confidence
                    BY MergedParts
                <5> QED BY <5>1, <5>2
            <4> QED BY <4>1, <4>2
        <3> QED BY <2>3, <3>1, <3>3, <3>4
    <2> QED BY <2>4, <2>5
<1> QED BY <1>1, Invariance, PTL

(***************************************************************************)
(* Two forks with claims that disagree about the type leave an unresolved  *)
(* conflict between two forks in the answer, for a human to acknowledge.   *)
(***************************************************************************)
THEOREM DisagreementIsKept == Spec => []DisagreementSurfaces
<1>1. IInv => DisagreementSurfaces
    <2> SUFFICES ASSUME IInv, pc = "done", NEW f \in Survivors, NEW g \in Survivors,
                        HasClaims(f), HasClaims(g), finding[f].type # finding[g].type
                 PROVE  \E c \in answer.conflicts : c.unresolved /\ c.a[1] # c.b[1]
        BY DEF DisagreementSurfaces
    <2>1. answer = Merged
        BY SeveralSurvivors DEF IInv, AnswerIsAggregate, Aggregate
    <2>2. Primary \in Survivors /\ HasClaims(Primary)
        BY PrimaryIs, BestRankRange
    <2>3. PICK h \in {f, g} : finding[h].type # finding[Primary].type
        OBVIOUS
    <2>4. h \in Survivors \ {Primary} /\ HasClaims(h)
        BY <2>3
    <2> DEFINE c == [a |-> RepresentativeId(Primary), b |-> RepresentativeId(h), unresolved |-> TRUE]
    <2>5. c \in CrossForkConflicts
        BY <2>2, <2>3, <2>4, Zenon DEF CrossForkConflicts
    <2>6. c.a[1] = Prefix(Primary) /\ c.b[1] = Prefix(h)
        BY DEF RepresentativeId
    <2>7. c.a[1] # c.b[1]
        BY <2>2, <2>4, <2>6, PrefixesDiffer
    <2>8. c \in answer.conflicts
        BY <2>1, <2>5 DEF Merged
    <2> QED BY <2>7, <2>8
<1> QED BY <1>1, Invariance, PTL
==============================================================================
