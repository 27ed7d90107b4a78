-------------------------- MODULE MCForkDiagnostics --------------------------
(* ForkDiagnostics on up to three forks whose ids collide: each names its claims *)
(* C1, C2 and its source s1.                                                     *)
EXTENDS ForkDiagnostics

Claim(id, confidence) == [id |-> id, source |-> "s1", confidence |-> confidence]

Finding(type, claims, conflicts) ==
    [type |-> type, claims |-> claims, sources |-> <<"s1">>, conflicts |-> conflicts]

MCFindings == {
    Finding("latency", <<Claim("C1", "HIGH")>>, {}),
    Finding("skew", <<Claim("C1", "LOW"), Claim("C2", "MEDIUM")>>,
            {[a |-> "C1", b |-> "C2", unresolved |-> TRUE]}),
    Finding("skew", <<Claim("C1", "LOW")>>, {}),
    Finding("skew", << >>, {})}
==============================================================================
