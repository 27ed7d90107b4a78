----------------------------- MODULE MCAgentLoop -----------------------------
(***************************************************************************)
(* Both tool loops with up to three rounds and up to two tools asked for   *)
(* in an answer: a first, a middle and a last round, and a tool that fails *)
(* between two that work.                                                  *)
(***************************************************************************)
EXTENDS AgentLoop

Rounds == 3
Calls == 2
==============================================================================
