------------------------------ MODULE AgentLoop ------------------------------
(***************************************************************************)
(* The two tool loops of the agent: _detect_anomalies, by which the        *)
(* coordinator polls the infrastructure, and _spawn_diagnostic_agent, by   *)
(* which a sub-agent investigates.  Each calls the API with the            *)
(* conversation so far, executes the tools the answer asks for one after   *)
(* another, and goes on until the model ends its turn, stops in some other *)
(* way, or the rounds run out.                                             *)
(*                                                                         *)
(* The API and the tools are outside: the model answers for them.  A text  *)
(* is what the parsers make of it: "finding" is the JSON the loop asked    *)
(* for, "keyword" is prose _mentions_anomaly takes for an anomaly, "calm"  *)
(* is any other text.                                                      *)
(***************************************************************************)
EXTENDS Naturals, Sequences

CONSTANTS
    MaxRounds,      \* config.agent_max_tool_rounds
    MaxCalls        \* bound: the tools one answer asks for

ASSUME LoopAssumption == MaxRounds \in Nat /\ MaxCalls \in Nat

Loops == {"detection", "diagnostic"}
Texts == {"finding", "keyword", "calm"}

\* What the API stops with; "other" is max_tokens, refusal, pause_turn and the like.
StopReasons == {"end_turn", "tool_use", "other"}

VARIABLES
    loop,       \* which of the two loops this is
    pc,         \* "round", "tools" or "done"
    round,      \* the rounds begun
    messages,   \* the last two of the conversation: [role, calls], calls counting the
                \* tool_use or tool_result blocks
    pending,    \* the tool calls of the last answer that are not executed yet
    results,    \* the tool_results collected for them
    text,       \* assistant_text, or "unbound" before the first answer
    outcome     \* what the loop returns, or "raised"

vars == <<loop, pc, round, messages, pending, results, text, outcome>>

Init ==
    /\ loop \in Loops
    /\ pc = "round"
    /\ round = 0
    /\ messages = <<[role |-> "user", calls |-> 0]>>
    /\ pending = 0
    /\ results = 0
    /\ text = "unbound"
    /\ outcome = "none"

LastRole == messages[Len(messages)].role

\* The messages with one more: the last and the new one.
And(role, calls) == <<messages[Len(messages)], [role |-> role, calls |-> calls]>>

Return(what) == pc' = "done" /\ outcome' = what

-----------------------------------------------------------------------------
(***************************************************************************)
(* _mentions_anomaly, _parse_detection and _parse_diagnosis: prose with a  *)
(* keyword becomes an anomaly of type "unknown", and a diagnosis that does *)
(* not parse becomes the parse-error fallback.                             *)
(***************************************************************************)
Verdict(t) ==
    IF loop = "detection"
    THEN CASE t = "finding" -> "anomaly"
           [] t = "keyword" -> "unknown anomaly"
           [] t = "calm" -> "healthy"
    ELSE IF t = "finding" THEN "diagnosis" ELSE "parse_error"

\* A loop that goes round once more than it may.
RoundsOverLate == round > MaxRounds \/ (loop = "diagnostic" /\ LastRole # "user")

\* The loop's range is used up, or (the diagnostic loop's check) the last word is the model's.
RoundsOver == round = MaxRounds \/ (loop = "diagnostic" /\ LastRole # "user")

\* After the last round the text of the last answer decides; with no round there is none.
GiveUp ==
    /\ pc = "round" /\ RoundsOver
    /\ Return(IF text = "unbound" THEN "raised" ELSE Verdict(text))
    /\ UNCHANGED <<loop, round, messages, pending, results, text>>

\* The API raises: neither loop catches it, its caller may.
CallRaises ==
    /\ pc = "round" /\ ~RoundsOver
    /\ Return("raised")
    /\ round' = round + 1
    /\ UNCHANGED <<loop, messages, pending, results, text>>

\* The detection loop breaks and parses; the diagnostic loop finds out in its next round.
AfterOther(t) ==
    IF loop = "detection" THEN Return(Verdict(t)) ELSE pc' = "round" /\ UNCHANGED outcome

\* A loop that counts only the rounds in which no tool is used.
CallReturnsUncounted(stop, t, n) ==
    /\ pc = "round" /\ ~RoundsOver
    /\ stop = "end_turn" => n = 0
    /\ round' = IF stop = "tool_use" THEN round ELSE round + 1
    /\ text' = t
    /\ messages' = And("assistant", n)
    /\ CASE stop = "end_turn" -> Return(Verdict(t)) /\ UNCHANGED <<pending, results>>
         [] stop = "tool_use" /\ (n > 0 \/ loop = "detection") ->
                pc' = "tools" /\ pending' = n /\ results' = 0 /\ UNCHANGED outcome
         [] OTHER -> AfterOther(t) /\ UNCHANGED <<pending, results>>
    /\ UNCHANGED loop

(***************************************************************************)
(* The API answers with text t and n tool calls, and stops for the given   *)
(* reason.  With no call to execute the detection loop sends an empty      *)
(* message back; the diagnostic loop sends none, and finds out.            *)
(***************************************************************************)
CallReturns(stop, t, n) ==
    /\ pc = "round" /\ ~RoundsOver
    /\ stop = "end_turn" => n = 0
    /\ round' = round + 1
    /\ text' = t
    /\ messages' = And("assistant", n)
    /\ CASE stop = "end_turn" -> Return(Verdict(t)) /\ UNCHANGED <<pending, results>>
         [] stop = "tool_use" /\ (n > 0 \/ loop = "detection") ->
                pc' = "tools" /\ pending' = n /\ results' = 0 /\ UNCHANGED outcome
         [] OTHER -> AfterOther(t) /\ UNCHANGED <<pending, results>>
    /\ UNCHANGED loop

\* An executor that lets a tool's exception out, so that its result is missing.
ToolReturnsUnlessItFails(fails) ==
    /\ pc = "tools" /\ pending > 0
    /\ pending' = pending - 1
    /\ results' = IF fails THEN results ELSE results + 1
    /\ UNCHANGED <<loop, pc, round, messages, text, outcome>>

\* execute_tool: a tool that is unknown or raises has a result too, a structured error.
ToolReturns(fails) ==
    /\ pc = "tools" /\ pending > 0
    /\ pending' = pending - 1
    /\ results' = results + 1
    /\ UNCHANGED <<loop, pc, round, messages, text, outcome>>

\* The results of all the tools go back as one user message.
SendResults ==
    /\ pc = "tools" /\ pending = 0
    /\ pc' = "round"
    /\ messages' = And("user", results)
    /\ UNCHANGED <<loop, round, pending, results, text, outcome>>

Done == pc = "done" /\ UNCHANGED vars

Next ==
    \/ GiveUp
    \/ CallRaises
    \/ \E stop \in StopReasons, t \in Texts, n \in 0..MaxCalls : CallReturns(stop, t, n)
    \/ \E fails \in BOOLEAN : ToolReturns(fails)
    \/ SendResults
    \/ Done

Spec == Init /\ [][Next]_vars

\* The API's calls time out, and every tool returns in the end: both are awaited, not polled.
FairSpec == Spec /\ WF_vars(Next)

-----------------------------------------------------------------------------
TypeOK ==
    /\ loop \in Loops
    /\ pc \in {"round", "tools", "done"}
    /\ round \in 0..MaxRounds
    /\ messages \in Seq([role: {"user", "assistant"}, calls: 0..MaxCalls])
    /\ Len(messages) \in 1..2
    /\ pending \in 0..MaxCalls
    /\ results \in 0..MaxCalls
    /\ text \in Texts \cup {"unbound"}
    /\ outcome \in {"none", "anomaly", "unknown anomaly", "healthy", "diagnosis",
                    "parse_error", "raised"}

(***************************************************************************)
(* The API gets only conversations it accepts: at every call the last word *)
(* is the user's, it follows an answer, and it has a tool_result for every *)
(* tool_use block of that answer - whatever tools failed and however the   *)
(* model stopped (_detect_anomalies, _spawn_diagnostic_agent, execute_tool)*)
(***************************************************************************)
ConversationIsValid ==
    pc = "round" /\ ~RoundsOver =>
        /\ LastRole = "user"
        /\ Len(messages) = 2 => messages[1] = [role |-> "assistant", calls |-> messages[2].calls]

\* However the API and the tools answer, the loop returns or raises (the range of rounds).
Ends == <>(pc = "done")
==============================================================================
