--------------------------- MODULE AgentLoopProofs ---------------------------
(***************************************************************************)
(* That the loops keep to their rounds and the API only gets conversations *)
(* it accepts, for every number of rounds and of tool calls.               *)
(***************************************************************************)
EXTENDS AgentLoop, SequenceTheorems, TLAPS

\* The last of one or two messages.
Last == messages[Len(messages)]

\* An answer with its tools at work, or with their results sent back.
Answered ==
    Len(messages) = 2 /\ LastRole = "user" =>
        messages[1] = [role |-> "assistant", calls |-> messages[2].calls]

\* While the tools work, the last word is the answer that asked for them.
ToolsAreOwed ==
    pc = "tools" => Last = [role |-> "assistant", calls |-> results + pending]

\* The detection loop never comes round with a last word of the model's.
DetectionAsks == loop = "detection" /\ pc = "round" => LastRole = "user"

IInv == TypeOK /\ Answered /\ ToolsAreOwed /\ DetectionAsks

Messages == [role: {"user", "assistant"}, calls: 0..MaxCalls]

Outcomes ==
    {"none", "anomaly", "unknown anomaly", "healthy", "diagnosis", "parse_error", "raised"}

LEMMA LastInSet ==
    ASSUME NEW S, NEW seq \in Seq(S), Len(seq) \in 1..2
    PROVE  seq[Len(seq)] \in S
BY ElementOfSeq

\* One more message makes two, the new one last.
LEMMA AndIs ==
    ASSUME messages \in Seq(Messages),
           Len(messages) \in 1..2,
           NEW r \in {"user", "assistant"}, NEW n \in 0..MaxCalls,
           messages' = And(r, n)
    PROVE  /\ messages' \in Seq(Messages)
           /\ Len(messages') = 2
           /\ messages'[1] = Last
           /\ messages'[2] = [role |-> r, calls |-> n]
           /\ LastRole' = r
           /\ Last' = [role |-> r, calls |-> n]
<1>1. Last \in Messages
    BY LastInSet, Zenon DEF Last
<1>0. [role |-> r, calls |-> n] \in Messages
    BY DEF Messages
<1>2. messages' = <<Last, [role |-> r, calls |-> n]>>
    BY DEF And, Last
<1> QED BY <1>0, <1>1, <1>2 DEF Last, LastRole

LEMMA InvInit == Init => IInv
<1> SUFFICES ASSUME Init PROVE IInv
    OBVIOUS
<1>1. messages = <<[role |-> "user", calls |-> 0]>> /\ 0 \in 0..MaxCalls /\ 0 \in 0..MaxRounds
    BY LoopAssumption DEF Init
<1>2. Len(messages) = 1 /\ LastRole = "user"
    BY <1>1 DEF LastRole
<1>3. TypeOK
    BY <1>1, <1>2 DEF Init, TypeOK
<1> QED BY <1>1, <1>2, <1>3 DEF Init, IInv, Answered, ToolsAreOwed, DetectionAsks

\* The parsers' verdict is an outcome.
LEMMA VerdictType ==
    ASSUME NEW t \in Texts
    PROVE  Verdict(t) \in Outcomes
BY DEF Verdict, Texts, Outcomes

LEMMA InvNext == IInv /\ [Next]_vars => IInv'
<1> SUFFICES ASSUME IInv, [Next]_vars PROVE IInv'
    OBVIOUS
<1>0. /\ loop \in Loops /\ pc \in {"round", "tools", "done"}
      /\ round \in 0..MaxRounds /\ MaxRounds \in Nat /\ MaxCalls \in Nat
      /\ messages \in Seq(Messages) /\ Len(messages) \in 1..2
      /\ pending \in 0..MaxCalls /\ results \in 0..MaxCalls
      /\ text \in Texts \cup {"unbound"} /\ outcome \in Outcomes
    BY LoopAssumption DEF IInv, TypeOK, Messages, Outcomes
<1>0a. ASSUME /\ loop' \in Loops /\ pc' \in {"round", "tools", "done"}
              /\ round' \in 0..MaxRounds
              /\ messages' \in Seq(Messages) /\ Len(messages') \in 1..2
              /\ pending' \in 0..MaxCalls /\ results' \in 0..MaxCalls
              /\ text' \in Texts \cup {"unbound"} /\ outcome' \in Outcomes
       PROVE  TypeOK'
    BY <1>0a, Zenon DEF TypeOK, Messages, Outcomes
<1>1. CASE GiveUp
    <2>1. outcome' \in Outcomes /\ pc' = "done" /\ UNCHANGED <<loop, round, messages, pending, results, text>>
        <3>1. text # "unbound" => Verdict(text) \in Outcomes
            BY <1>0, VerdictType
        <3> QED
            BY <1>1, <3>1 DEF GiveUp, Return, Outcomes
    <2>2. TypeOK'
        BY <1>0a, <1>0, <2>1
    <2> QED
        BY <2>1, <2>2 DEF IInv, Answered, ToolsAreOwed, DetectionAsks, Last, LastRole
<1>2. CASE CallRaises
    <2>1. /\ outcome' = "raised" /\ pc' = "done" /\ round' \in 0..MaxRounds
          /\ UNCHANGED <<loop, messages, pending, results, text>>
        BY <1>0, <1>2 DEF CallRaises, Return, RoundsOver
    <2>2. TypeOK'
        BY <1>0a, <1>0, <2>1 DEF Outcomes
    <2> QED
        BY <2>1, <2>2 DEF IInv, Answered, ToolsAreOwed, DetectionAsks, Last, LastRole
<1>3. ASSUME NEW stop \in StopReasons, NEW t \in Texts, NEW n \in 0..MaxCalls,
             CallReturns(stop, t, n)
      PROVE  IInv'
    <2>1. /\ messages' = And("assistant", n) /\ UNCHANGED loop
          /\ text' = t /\ round' = round + 1 /\ ~RoundsOver /\ pc = "round"
        BY <1>3 DEF CallReturns
    <2>2. /\ messages' \in Seq(Messages)
          /\ Len(messages') = 2
          /\ LastRole' = "assistant"
          /\ Last' = [role |-> "assistant", calls |-> n]
        BY <1>0, <2>1, AndIs
    <2>3. \/ pc' = "done" /\ outcome' = Verdict(t) /\ UNCHANGED <<pending, results>>
          \/ pc' = "tools" /\ pending' = n /\ results' = 0 /\ UNCHANGED outcome
          \/ /\ pc' = "round" /\ loop = "diagnostic" /\ UNCHANGED outcome
             /\ UNCHANGED <<pending, results>>
        BY <1>0, <1>3 DEF CallReturns, AfterOther, Return, Loops, StopReasons
    <2>4. round' \in 0..MaxRounds
        BY <1>0, <2>1 DEF RoundsOver
    <2>5. TypeOK'
        <3>1. outcome' \in Outcomes /\ pending' \in 0..MaxCalls /\ results' \in 0..MaxCalls
            BY <1>0, <2>3, VerdictType
        <3> QED
            BY <1>0a, <1>0, <2>1, <2>2, <2>3, <2>4, <3>1
    <2>6. ToolsAreOwed'
        BY <2>2, <2>3 DEF ToolsAreOwed
    <2> QED
        BY <1>0, <2>1, <2>2, <2>3, <2>5, <2>6 DEF IInv, Answered, DetectionAsks, Loops
<1>4. ASSUME NEW fails \in BOOLEAN, ToolReturns(fails) PROVE IInv'
    <2>1. /\ pc = "tools" /\ pending > 0
          /\ pending' = pending - 1 /\ results' = results + 1
          /\ UNCHANGED <<loop, pc, round, messages, text, outcome>>
        BY <1>4 DEF ToolReturns
    <2>2. Last = [role |-> "assistant", calls |-> results + pending]
        BY <2>1 DEF IInv, ToolsAreOwed
    <2>3. results' + pending' = results + pending
        BY <1>0, <2>1
    <2>4. Last' = Last /\ LastRole' = LastRole
        BY <2>1 DEF Last, LastRole
    <2>5. ToolsAreOwed'
        BY <2>2, <2>3, <2>4 DEF ToolsAreOwed
    <2>6. Answered'
        BY <2>1 DEF IInv, Answered, LastRole
    <2>7. TypeOK'
        <3>1. Last.calls \in 0..MaxCalls
            BY <1>0, LastInSet, Zenon DEF Last, Messages
        <3>2. results + pending \in 0..MaxCalls
            BY <2>2, <3>1
        <3> QED
            BY <1>0a, <1>0, <2>1, <3>2
    <2> QED
        BY <2>1, <2>4, <2>5, <2>6, <2>7 DEF IInv, DetectionAsks
<1>5. CASE SendResults
    <2>1. /\ pc = "tools" /\ pending = 0 /\ pc' = "round"
          /\ messages' = And("user", results)
          /\ UNCHANGED <<loop, round, pending, results, text, outcome>>
        BY <1>5 DEF SendResults
    <2>2. Last = [role |-> "assistant", calls |-> results]
        BY <1>0, <2>1 DEF IInv, ToolsAreOwed
    <2>3. /\ messages' \in Seq(Messages)
          /\ Len(messages') = 2
          /\ messages'[1] = Last
          /\ messages'[2] = [role |-> "user", calls |-> results]
          /\ LastRole' = "user"
        BY <1>0, <2>1, AndIs
    <2>4. TypeOK'
        BY <1>0a, <1>0, <2>1, <2>3
    <2> QED
        BY <2>1, <2>2, <2>3, <2>4 DEF IInv, Answered, ToolsAreOwed, DetectionAsks
<1>6. CASE UNCHANGED vars
    BY <1>6 DEF vars, IInv, TypeOK, Answered, ToolsAreOwed, DetectionAsks, Last, LastRole
<1> QED
    BY <1>1, <1>2, <1>3, <1>4, <1>5, <1>6 DEF Next, Done

LEMMA Invariance == Spec => []IInv
BY InvInit, InvNext, PTL DEF Spec

(***************************************************************************)
(* Neither loop begins more rounds than configured, and no conversation    *)
(* carries more results than calls were asked for.                         *)
(***************************************************************************)
THEOREM TypeCorrect == Spec => []TypeOK
<1>1. IInv => TypeOK
    BY DEF IInv
<1> QED
    BY <1>1, Invariance, PTL

(***************************************************************************)
(* Every conversation the API is called with ends in a user's message that *)
(* answers all the tool calls of the message before it.                    *)
(***************************************************************************)
THEOREM ValidConversation == Spec => []ConversationIsValid
<1>1. IInv => ConversationIsValid
    BY DEF IInv, TypeOK, Answered, DetectionAsks, ConversationIsValid, RoundsOver, Loops
<1> QED
    BY <1>1, Invariance, PTL
==============================================================================
