---------------------------- MODULE MCMonitorCycle ----------------------------
(* MonitorCycle on a small instance: two fingerprints, readings on both sides of *)
(* the 25% worsening threshold, one diagnosis of each kind the coordinator       *)
(* tells apart.                                                                  *)
EXTENDS MonitorCycle

MCValues == {4, 5}

MCDiagnoses == {
    [type |-> "parse_error", claims |-> {}, unresolved |-> 0, oversized |-> FALSE],
    [type |-> "typed", claims |-> {"LOW", "UNSOURCED"}, unresolved |-> 1, oversized |-> FALSE],
    [type |-> "typed", claims |-> {"HIGH", "LOW"}, unresolved |-> 1, oversized |-> FALSE],
    [type |-> "typed", claims |-> {"MEDIUM"}, unresolved |-> 0, oversized |-> TRUE]}
===============================================================================
