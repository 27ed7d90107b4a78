------------------------------ MODULE EventTools ------------------------------
(***************************************************************************)
(* get_recent_events and search_logs: a consumer of its own for each call, *)
(* a start offset for each partition from its high watermark, and a poll   *)
(* loop, while producers write and retention deletes.  Calls follow one    *)
(* another: poll() blocks the event loop, so no two of them interleave.    *)
(*                                                                         *)
(* A message is whether it is wanted: it parses, is of the type asked for, *)
(* and contains the pattern.  Of a partition the model keeps the retained  *)
(* messages, oldest first, and offsets are counted from their end.  The    *)
(* topic's partitions, its messages and the consumer are outside.          *)
(***************************************************************************)
EXTENDS Integers, Sequences, FiniteSets

CONSTANTS
    NumPartitions,
    Requests,           \* the counts asked for
    MaxCount,           \* events_max_count
    EmptyPolls,         \* events_empty_poll_threshold
    ScanDepth,          \* events_log_scan_depth
    Capacity            \* bound: the messages a partition retains

Partitions == 1..NumPartitions

ASSUME ToolsAssumption ==
    /\ NumPartitions \in Nat \ {0}
    /\ Requests \subseteq Nat
    /\ MaxCount \in Nat /\ EmptyPolls \in Nat \ {0} /\ ScanDepth \in Nat
    /\ Capacity \in Nat

VARIABLES
    log,        \* of each partition: the retained messages
    deleted,    \* of each partition: whether retention has deleted from it
    old,        \* of each partition: how many retained messages are older than the call
    pc,         \* "idle", "watermarks", "polling" or "done"
    tool,       \* "recent" or "search"
    count,      \* min(count, events_max_count)
    unread,     \* of each partition: the messages from the position on, Lost, or Unassigned
    empty,      \* empty_polls
    scanned,    \* messages_scanned
    found,      \* len(events), len(matches)
    returned,   \* those of them that are older than the call: <<partition, rank>>
    disturbed   \* whether the topic has changed or been slow since the call began

topicVars == <<log, deleted>>
vars == <<log, deleted, old, pc, tool, count, unread, empty, scanned, found, returned, disturbed>>

Unassigned == -1
Lost == -2      \* the position is below the low watermark

Least(a, b) == IF a <= b THEN a ELSE b

\* The rank of the i-th retained message of p: 1 is the newest at the time of the call.
Rank(p, i) == old[p] - i + 1

Init ==
    /\ log \in [Partitions -> UNION {[1..n -> BOOLEAN] : n \in 0..Capacity}]
    /\ deleted \in [Partitions -> BOOLEAN]
    /\ old = [p \in Partitions |-> 0]
    /\ pc = "idle" /\ tool = "recent" /\ count = 0
    /\ unread = [p \in Partitions |-> Unassigned]
    /\ empty = 0 /\ scanned = 0 /\ found = 0 /\ returned = {}
    /\ disturbed = FALSE

-----------------------------------------------------------------------------
\* A producer writes to partition p.
Produce(p, wanted) ==
    /\ Len(log[p]) < Capacity
    /\ log' = [log EXCEPT ![p] = Append(@, wanted)]
    /\ unread' = [unread EXCEPT ![p] = IF @ >= 0 THEN @ + 1 ELSE @]
    /\ disturbed' = (pc # "idle" \/ disturbed)
    /\ UNCHANGED <<deleted, old, pc, tool, count, empty, scanned, found, returned>>

\* Retention deletes the oldest message of p, read or not.
Delete(p) ==
    /\ log[p] # << >>
    /\ log' = [log EXCEPT ![p] = Tail(@)]
    /\ deleted' = [deleted EXCEPT ![p] = TRUE]
    /\ old' = [old EXCEPT ![p] = IF @ > 0 THEN @ - 1 ELSE 0]
    /\ unread' = [unread EXCEPT ![p] = IF @ = Len(log[p]) THEN Lost ELSE @]
    /\ disturbed' = (pc # "idle" \/ disturbed)
    /\ UNCHANGED <<pc, tool, count, empty, scanned, found, returned>>

-----------------------------------------------------------------------------
\* A call with an argument count of n; the consumer is created and the topic looked up.
Call(t, n) ==
    /\ pc = "idle"
    /\ pc' = "watermarks" /\ tool' = t /\ count' = Least(n, MaxCount)
    /\ old' = [p \in Partitions |-> Len(log[p])]
    /\ UNCHANGED <<topicVars, unread, empty, scanned, found, returned, disturbed>>

\* A window of a search that is one message too short.
WindowOneShort ==
    IF tool = "recent" THEN count \div NumPartitions + 1 ELSE ScanDepth \div NumPartitions - 1

\* How far before the high watermark a partition is read.
Window ==
    IF tool = "recent" THEN count \div NumPartitions + 1 ELSE ScanDepth \div NumPartitions

(***************************************************************************)
(* max(0, high - window).  It takes no account of the low watermark: where *)
(* messages before the window's start have been deleted, it is an offset   *)
(* that is not there any more.                                             *)
(***************************************************************************)
StartOf(p) ==
    IF Window <= Len(log[p]) THEN Window
    ELSE IF deleted[p] THEN Lost ELSE Len(log[p])

\* The high watermark of the next partition; with the last one the consumer is assigned.
ReadWatermark(p) ==
    /\ pc = "watermarks"
    /\ unread[p] = Unassigned /\ \A q \in 1..(p - 1) : unread[q] # Unassigned
    /\ unread' = [unread EXCEPT ![p] = StartOf(p)]
    /\ pc' = IF p = NumPartitions THEN "polling" ELSE pc
    /\ UNCHANGED <<topicVars, old, tool, count, empty, scanned, found, returned, disturbed>>

-----------------------------------------------------------------------------
\* A loop that is not bounded by the depth of the search.
MoreWithoutDepth == pc = "polling" /\ found < count /\ empty < EmptyPolls

\* The loop's condition.
More ==
    /\ pc = "polling"
    /\ found < count /\ empty < EmptyPolls
    /\ tool = "search" => scanned < ScanDepth

\* auto.offset.reset: a position that is not there any more goes to the end.
ResetToLatest(p) ==
    /\ pc = "polling" /\ unread[p] = Lost
    /\ unread' = [unread EXCEPT ![p] = 0]
    /\ UNCHANGED <<topicVars, old, pc, tool, count, empty, scanned, found, returned, disturbed>>

\* An empty poll that is passed over like an error.
PollNothingUncounted ==
    /\ More
    /\ disturbed' = (disturbed \/ \E p \in Partitions : unread[p] # 0)
    /\ UNCHANGED <<topicVars, old, pc, tool, count, unread, empty, scanned, found, returned>>

\* poll returns None: there is nothing, or the broker is slow.
PollNothing ==
    /\ More
    /\ empty' = empty + 1
    /\ disturbed' = (disturbed \/ \E p \in Partitions : unread[p] # 0)
    /\ UNCHANGED <<topicVars, old, pc, tool, count, unread, scanned, found, returned>>

\* poll returns an error: the loop goes on and nothing is counted.
PollError == More /\ UNCHANGED vars

\* The next message of p, the i-th of those retained.
NextIndex(p) == Len(log[p]) - unread[p] + 1

Take(p) ==
    LET i == NextIndex(p)
    IN  IF log[p][i]
        THEN /\ found' = found + 1
             /\ returned' = IF Rank(p, i) > 0 THEN returned \cup {<<p, Rank(p, i)>>} ELSE returned
        ELSE UNCHANGED <<found, returned>>

\* A search that counts only what it returns.
PollMessageUncounted(p) ==
    /\ More /\ unread[p] > 0
    /\ unread' = [unread EXCEPT ![p] = @ - 1]
    /\ scanned' = IF tool = "search" /\ log[p][NextIndex(p)] THEN scanned + 1 ELSE scanned
    /\ Take(p)
    /\ UNCHANGED <<topicVars, old, pc, tool, count, empty, disturbed>>

\* poll returns a message of some partition; it is kept if it is wanted.
PollMessage(p) ==
    /\ More /\ unread[p] > 0
    /\ unread' = [unread EXCEPT ![p] = @ - 1]
    /\ scanned' = IF tool = "search" THEN scanned + 1 ELSE scanned
    /\ Take(p)
    /\ UNCHANGED <<topicVars, old, pc, tool, count, empty, disturbed>>

\* The loop is over: the consumer is closed and the result returned.
Finish ==
    /\ pc = "polling" /\ ~More
    /\ pc' = "done"
    /\ UNCHANGED <<topicVars, old, tool, count, unread, empty, scanned, found, returned, disturbed>>

\* The agent has the result or the error; what is left of the call is forgotten.
Forget ==
    /\ pc' = "idle"
    /\ old' = [p \in Partitions |-> 0]
    /\ tool' = "recent" /\ count' = 0
    /\ unread' = [p \in Partitions |-> Unassigned]
    /\ empty' = 0 /\ scanned' = 0 /\ found' = 0 /\ returned' = {}
    /\ disturbed' = FALSE
    /\ UNCHANGED topicVars

Return == pc = "done" /\ Forget

\* The topic is not there, or any call of the client raises: an error is returned.
Fails == pc \in {"watermarks", "polling"} /\ Forget

Poll == PollNothing \/ \E p \in Partitions : PollMessage(p)

Write == \E p \in Partitions, wanted \in BOOLEAN : Produce(p, wanted)

\* A message is written that the call's filter will pass over.
WriteUnwanted == \E p \in Partitions : Produce(p, FALSE)

Next ==
    \/ Write \/ \E p \in Partitions : Delete(p)
    \/ \E t \in {"recent", "search"}, n \in Requests : Call(t, n)
    \/ \E p \in Partitions : ReadWatermark(p) \/ ResetToLatest(p)
    \/ Poll \/ PollError \/ Finish \/ Fails \/ Return

Spec == Init /\ [][Next]_vars

(***************************************************************************)
(* A call is one thread that goes on; the client's calls time out.  Not    *)
(* every poll is an error.  Nobody has to write, or to stop writing.       *)
(***************************************************************************)
FairSpec ==
    /\ Spec
    /\ WF_vars(\E p \in Partitions : ReadWatermark(p))
    /\ WF_vars(Poll) /\ WF_vars(Finish)

-----------------------------------------------------------------------------
TypeOK ==
    /\ \A p \in Partitions : log[p] \in Seq(BOOLEAN) /\ Len(log[p]) <= Capacity
    /\ deleted \in [Partitions -> BOOLEAN]
    /\ \A p \in Partitions : old[p] \in 0..Len(log[p])
    /\ pc \in {"idle", "watermarks", "polling", "done"}
    /\ tool \in {"recent", "search"}
    /\ count \in 0..MaxCount
    /\ \A p \in Partitions : unread[p] \in {Unassigned, Lost} \cup 0..Len(log[p])
    /\ empty \in 0..EmptyPolls /\ scanned \in 0..ScanDepth
    /\ found \in 0..count /\ returned \subseteq Partitions \X (1..Capacity)
    /\ Cardinality(returned) <= found
    /\ disturbed \in BOOLEAN

(***************************************************************************)
(* A search that comes back with less than was asked for, its depth not    *)
(* used up and the topic left alone meanwhile, has missed nothing: every   *)
(* wanted message in the last ScanDepth \div NumPartitions of a partition  *)
(* is among the matches, unless the partition's start offset was no longer *)
(* there when the call began.  That takes nothing away from the others.    *)
(***************************************************************************)
SearchMissesNothing ==
    pc = "done" /\ tool = "search" /\ found < count /\ scanned < ScanDepth /\ ~disturbed =>
        \A p \in Partitions : \A i \in DOMAIN log[p] :
            StartOf(p) # Lost /\ log[p][i] /\ Rank(p, i) \in 1..(ScanDepth \div NumPartitions) => <<p, Rank(p, i)>> \in returned

(***************************************************************************)
(* A search ends, however much is written while it runs: what it scans is  *)
(* bounded, wanted or not.                                                 *)
(***************************************************************************)
SearchEnds == (pc = "polling" /\ tool = "search") ~> pc # "polling"

(***************************************************************************)
(* get_recent_events has no such bound, but only messages its filter passes*)
(* over can keep it going: it ends unless they are written for ever.       *)
(***************************************************************************)
RecentEnds ==
    ([]<><<WriteUnwanted>>_vars) \/ ((pc = "polling" /\ tool = "recent") ~> pc # "polling")

(***************************************************************************)
(* "Retrieve the N most recent events": if an event is returned, so is     *)
(* every newer one of its partition that was there at the time of the call *)
(* (the code starts at high - (count \div partitions + 1) and stops after  *)
(* count events, so the newest is left out).                               *)
(***************************************************************************)
MostRecentReturned ==
    pc = "done" /\ tool = "recent" /\ ~disturbed =>
        \A pr \in returned : \A i \in DOMAIN log[pr[1]] :
            log[pr[1]][i] /\ Rank(pr[1], i) \in 1..(pr[2] - 1) => <<pr[1], Rank(pr[1], i)>> \in returned
==============================================================================
