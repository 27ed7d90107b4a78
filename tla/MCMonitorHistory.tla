--------------------------- MODULE MCMonitorHistory ---------------------------
(* MonitorHistory on a small instance: the diagnosis is either fit to report or  *)
(* gated, and there are enough cycles for a gap to run out.                      *)
EXTENDS MonitorHistory

MCValues == {4, 5}

MCDiagnoses == {
    [type |-> "parse_error", claims |-> {}, unresolved |-> 0, oversized |-> FALSE],
    [type |-> "typed", claims |-> {"HIGH"}, unresolved |-> 0, oversized |-> FALSE]}
===============================================================================
