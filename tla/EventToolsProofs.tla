---------------------------- MODULE EventToolsProofs ----------------------------
(***************************************************************************)
(* Proofs about EventTools, for every number of partitions, depth, count   *)
(* and capacity: a search returns no more than was asked for, and one that *)
(* comes back with less has missed nothing.                                *)
(***************************************************************************)
EXTENDS EventTools, FiniteSetTheorems, SequenceTheorems, TLAPS

Logs == [Partitions -> Seq(BOOLEAN)]

\* The variables that are functions are functions of the partitions.
PerPartition ==
    /\ log \in Logs
    /\ old \in [Partitions -> Int]
    /\ unread \in [Partitions -> Int]

\* A call begins with nothing counted, and between calls nothing is left of the last one.
FreshStart ==
    /\ pc \in {"idle", "watermarks"} => empty = 0 /\ scanned = 0 /\ found = 0 /\ returned = {}
    /\ pc = "idle" => ~disturbed /\ \A p \in Partitions : unread[p] = Unassigned

\* A search whose topic has been left alone.
Undisturbed == tool = "search" /\ pc \in {"watermarks", "polling"} /\ ~disturbed

\* The messages it has passed by on partition p, so far as they are in its window.
Passed(p) ==
    {i \in 1..Len(log[p]) :
        /\ log[p][i] /\ Rank(p, i) \in 1..(ScanDepth \div NumPartitions)
        /\ i <= Len(log[p]) - unread[p]}

(***************************************************************************)
(* An undisturbed search has returned what was wanted of the messages it   *)
(* passed by on a partition whose start offset was there, and once a poll  *)
(* has returned nothing, there is nothing left.                            *)
(***************************************************************************)
SearchSoFar ==
    Undisturbed =>
        \A p \in Partitions :
            /\ old[p] = Len(log[p])
            /\ unread[p] = Lost => StartOf(p) = Lost
            /\ unread[p] >= 0 /\ StartOf(p) # Lost
                => \A i \in Passed(p) : <<p, Rank(p, i)>> \in returned
            /\ empty > 0 => unread[p] = 0

IInv ==
    /\ TypeOK
    /\ PerPartition
    /\ FreshStart
    /\ SearchSoFar
    /\ SearchMissesNothing

-----------------------------------------------------------------------------
\* A retained log is a sequence.
LEMMA InitLog ==
    ASSUME NEW n \in 0..Capacity, NEW l \in [1..n -> BOOLEAN]
    PROVE  l \in Seq(BOOLEAN) /\ Len(l) = n
<1>1. n \in Nat
    BY ToolsAssumption
<1>2. l \in Seq(BOOLEAN)
    BY <1>1
<1>3. DOMAIN l = 1..n
    OBVIOUS
<1> QED BY <1>1, <1>2, <1>3, LenProperties

LEMMA InvInit == Init => IInv
<1> SUFFICES ASSUME Init PROVE IInv
    OBVIOUS
<1> USE ToolsAssumption
<1>1. \A p \in Partitions : log[p] \in Seq(BOOLEAN) /\ Len(log[p]) <= Capacity
    <2> SUFFICES ASSUME NEW p \in Partitions
                 PROVE  log[p] \in Seq(BOOLEAN) /\ Len(log[p]) <= Capacity
        OBVIOUS
    <2>0. log[p] \in UNION {[1..n -> BOOLEAN] : n \in 0..Capacity}
        BY DEF Init
    <2>1. PICK n \in 0..Capacity : log[p] \in [1..n -> BOOLEAN]
        BY <2>0
    <2> QED BY <2>1, InitLog
<1>2. PerPartition
    BY <1>1 DEF Init, PerPartition, Logs, Unassigned
<1>3. Cardinality({}) = 0
    BY FS_EmptySet
<1>4. TypeOK
    <2>1. \A p \in Partitions : Len(log[p]) \in Nat
        BY <1>1
    <2>2. /\ \A p \in Partitions : old[p] = 0 /\ unread[p] = Unassigned
          /\ found = 0 /\ count = 0 /\ empty = 0 /\ scanned = 0 /\ Cardinality(returned) = 0
        BY <1>3 DEF Init
    <2>3. found \in 0..count /\ returned \subseteq Partitions \X (1..Capacity)
        BY <2>2 DEF Init
    <2>4. Cardinality(returned) <= found
        BY <2>2
    <2>5. \A p \in Partitions :
            old[p] \in 0..Len(log[p]) /\ unread[p] \in {Unassigned, Lost} \cup 0..Len(log[p])
        BY <2>1, <2>2
    <2>6. /\ pc = "idle" /\ tool = "recent" /\ disturbed = FALSE
          /\ deleted \in [Partitions -> BOOLEAN]
          /\ count \in 0..MaxCount /\ empty \in 0..EmptyPolls /\ scanned \in 0..ScanDepth
        BY <2>2 DEF Init
    <2> QED BY <1>1, <2>3, <2>4, <2>5, <2>6 DEF TypeOK
<1> QED
    BY <1>2, <1>4 DEF Init, IInv, FreshStart, SearchSoFar, Undisturbed, SearchMissesNothing

\* What the invariant says of one partition.
LEMMA PartitionType ==
    ASSUME IInv, NEW p \in Partitions
    PROVE  /\ log[p] \in Seq(BOOLEAN) /\ Len(log[p]) \in Nat /\ Len(log[p]) <= Capacity
           /\ DOMAIN log[p] = 1..Len(log[p])
           /\ old[p] \in Nat /\ old[p] <= Len(log[p])
           /\ unread[p] \in Int /\ unread[p] <= Len(log[p])
           /\ unread[p] \in {Unassigned, Lost} \/ unread[p] \in Nat
BY ToolsAssumption DEF IInv, TypeOK, PerPartition, Unassigned, Lost

\* One more event found is at most one more returned.
LEMMA OneMore ==
    ASSUME NEW S, IsFiniteSet(S), NEW x
    PROVE  Cardinality(S \cup {x}) <= Cardinality(S) + 1
<1>1. Cardinality(S \cup {x}) = IF x \in S THEN Cardinality(S) ELSE Cardinality(S) + 1
    BY FS_AddElement
<1>2. Cardinality(S) \in Nat
    BY FS_CardinalityType
<1> QED BY <1>1, <1>2

LEMMA ReturnedFinite ==
    ASSUME IInv
    PROVE  IsFiniteSet(returned)
<1>1. IsFiniteSet(Partitions) /\ IsFiniteSet(1..Capacity)
    BY ToolsAssumption, FS_Interval DEF Partitions
<1>2. IsFiniteSet(Partitions \X (1..Capacity))
    BY <1>1, FS_Product
<1> QED BY <1>2, FS_Subset DEF IInv, TypeOK

\* A window is a number of messages.
LEMMA WindowType ==
    ASSUME IInv
    PROVE  Window \in Nat
<1>1. count \in Nat /\ ScanDepth \in Nat /\ NumPartitions \in Nat \ {0}
    BY ToolsAssumption DEF IInv, TypeOK
<1>2. \A a \in Nat, n \in Nat \ {0} : a \div n \in Nat
    OBVIOUS
<1> QED BY <1>1, <1>2 DEF Window

-----------------------------------------------------------------------------
(* The topic changes. *)

LEMMA ProduceInv ==
    ASSUME IInv, NEW p \in Partitions, NEW wanted \in BOOLEAN, Produce(p, wanted)
    PROVE  IInv'
<1> USE ToolsAssumption
<1>1. /\ Len(log[p]) < Capacity
      /\ log' = [log EXCEPT ![p] = Append(log[p], wanted)]
      /\ unread' = [unread EXCEPT ![p] = IF unread[p] >= 0 THEN unread[p] + 1 ELSE unread[p]]
      /\ disturbed' = (pc # "idle" \/ disturbed)
      /\ UNCHANGED <<deleted, old, pc, tool, count, empty, scanned, found, returned>>
    BY DEF Produce
<1>2. log \in Logs /\ old \in [Partitions -> Int] /\ unread \in [Partitions -> Int]
    BY DEF IInv, PerPartition
<1>3. /\ Append(log[p], wanted) \in Seq(BOOLEAN)
      /\ Len(Append(log[p], wanted)) = Len(log[p]) + 1
      /\ \A i \in 1..Len(log[p]) : Append(log[p], wanted)[i] = log[p][i]
    BY <1>2 DEF Logs
<1>4. /\ log'[p] = Append(log[p], wanted)
      /\ \A q \in Partitions \ {p} : log'[q] = log[q] /\ unread'[q] = unread[q]
      /\ unread'[p] = IF unread[p] >= 0 THEN unread[p] + 1 ELSE unread[p]
    BY <1>1, <1>2 DEF Logs
<1>5. PerPartition'
    BY <1>1, <1>2, <1>3 DEF PerPartition, Logs
<1>6. TypeOK'
    <2>1. \A q \in Partitions :
            /\ log'[q] \in Seq(BOOLEAN) /\ Len(log'[q]) <= Capacity
            /\ old'[q] \in 0..Len(log'[q])
            /\ unread'[q] \in {Unassigned, Lost} \cup 0..Len(log'[q])
        <3> SUFFICES ASSUME NEW q \in Partitions
                     PROVE  /\ log'[q] \in Seq(BOOLEAN) /\ Len(log'[q]) <= Capacity
                            /\ old'[q] \in 0..Len(log'[q])
                            /\ unread'[q] \in {Unassigned, Lost} \cup 0..Len(log'[q])
            OBVIOUS
        <3>1. CASE q = p
            <4>1. /\ Len(log'[p]) = Len(log[p]) + 1 /\ Len(log[p]) \in Nat
                  /\ log'[p] \in Seq(BOOLEAN)
                BY <1>3, <1>4, PartitionType
            <4>2. /\ old[p] \in Nat /\ old[p] <= Len(log[p])
                  /\ unread[p] \in {Unassigned, Lost} \/ unread[p] \in Nat
                  /\ unread[p] <= Len(log[p])
                BY PartitionType
            <4>3. unread'[p] \in {Unassigned, Lost} \cup 0..(Len(log[p]) + 1)
                BY <1>4, <4>1, <4>2 DEF Unassigned, Lost
            <4> QED BY <1>1, <3>1, <4>1, <4>2, <4>3
        <3>2. CASE q # p
            BY <1>1, <1>4, <3>2, PartitionType
        <3> QED BY <3>1, <3>2
    <2> QED BY <1>1, <2>1 DEF IInv, TypeOK
<1>7. FreshStart'
    <2>1. unread[p] = Unassigned => unread'[p] = Unassigned
        BY <1>4 DEF Unassigned
    <2> QED BY <1>1, <1>4, <2>1 DEF IInv, FreshStart
<1>8. SearchSoFar'
    BY <1>1 DEF SearchSoFar, Undisturbed
<1>9. SearchMissesNothing'
    BY <1>1 DEF SearchMissesNothing
<1> QED BY <1>5, <1>6, <1>7, <1>8, <1>9 DEF IInv

LEMMA DeleteInv ==
    ASSUME IInv, NEW p \in Partitions, Delete(p)
    PROVE  IInv'
<1> USE ToolsAssumption
<1>1. /\ log[p] # << >>
      /\ log' = [log EXCEPT ![p] = Tail(log[p])]
      /\ deleted' = [deleted EXCEPT ![p] = TRUE]
      /\ old' = [old EXCEPT ![p] = IF old[p] > 0 THEN old[p] - 1 ELSE 0]
      /\ unread' = [unread EXCEPT ![p] = IF unread[p] = Len(log[p]) THEN Lost ELSE unread[p]]
      /\ disturbed' = (pc # "idle" \/ disturbed)
      /\ UNCHANGED <<pc, tool, count, empty, scanned, found, returned>>
    BY DEF Delete
<1>2. log \in Logs /\ old \in [Partitions -> Int] /\ unread \in [Partitions -> Int]
    BY DEF IInv, PerPartition
<1>3. /\ Tail(log[p]) \in Seq(BOOLEAN)
      /\ Len(Tail(log[p])) = Len(log[p]) - 1
      /\ \A i \in 1..(Len(log[p]) - 1) : Tail(log[p])[i] = log[p][i + 1]
      /\ Len(log[p]) \in Nat \ {0}
    BY <1>1, <1>2 DEF Logs
<1>4. /\ log'[p] = Tail(log[p])
      /\ \A q \in Partitions \ {p} :
            log'[q] = log[q] /\ old'[q] = old[q] /\ unread'[q] = unread[q]
      /\ old'[p] = IF old[p] > 0 THEN old[p] - 1 ELSE 0
      /\ unread'[p] = IF unread[p] = Len(log[p]) THEN Lost ELSE unread[p]
    BY <1>1, <1>2 DEF Logs
<1>5. PerPartition'
    <2>1. log' \in Logs
        BY <1>1, <1>2, <1>3 DEF Logs
    <2>2. old' \in [Partitions -> Int] /\ unread' \in [Partitions -> Int]
        BY <1>1, <1>2 DEF Lost
    <2> QED BY <2>1, <2>2 DEF PerPartition
<1>6. TypeOK'
    <2>1. \A q \in Partitions :
            /\ log'[q] \in Seq(BOOLEAN) /\ Len(log'[q]) <= Capacity
            /\ old'[q] \in 0..Len(log'[q])
            /\ unread'[q] \in {Unassigned, Lost} \cup 0..Len(log'[q])
        <3> SUFFICES ASSUME NEW q \in Partitions
                     PROVE  /\ log'[q] \in Seq(BOOLEAN) /\ Len(log'[q]) <= Capacity
                            /\ old'[q] \in 0..Len(log'[q])
                            /\ unread'[q] \in {Unassigned, Lost} \cup 0..Len(log'[q])
            OBVIOUS
        <3>1. CASE q = p
            <4>1. /\ Len(log'[p]) = Len(log[p]) - 1 /\ Len(log[p]) \in Nat \ {0}
                  /\ log'[p] \in Seq(BOOLEAN) /\ Len(log[p]) <= Capacity
                BY <1>3, <1>4, PartitionType
            <4>2. /\ old[p] \in Nat /\ old[p] <= Len(log[p])
                  /\ unread[p] \in {Unassigned, Lost} \/ unread[p] \in Nat
                  /\ unread[p] <= Len(log[p])
                BY PartitionType
            <4>3. unread'[p] \in {Unassigned, Lost} \cup 0..(Len(log[p]) - 1)
                BY <1>4, <4>1, <4>2
            <4>4. old'[p] \in 0..(Len(log[p]) - 1)
                BY <1>4, <4>1, <4>2
            <4> QED BY <3>1, <4>1, <4>3, <4>4
        <3>2. CASE q # p
            BY <1>4, <3>2, PartitionType
        <3> QED BY <3>1, <3>2
    <2>2. deleted' \in [Partitions -> BOOLEAN]
        BY <1>1 DEF IInv, TypeOK
    <2> QED BY <1>1, <2>1, <2>2 DEF IInv, TypeOK
<1>7. FreshStart'
    <2>1. unread[p] = Unassigned => unread'[p] = Unassigned
        BY <1>3, <1>4 DEF Unassigned
    <2> QED BY <1>1, <1>4, <2>1 DEF IInv, FreshStart
<1>8. SearchSoFar'
    BY <1>1 DEF SearchSoFar, Undisturbed
<1>9. SearchMissesNothing'
    BY <1>1 DEF SearchMissesNothing
<1> QED BY <1>5, <1>6, <1>7, <1>8, <1>9 DEF IInv

-----------------------------------------------------------------------------
(* A call goes on. *)

LEMMA CallInv ==
    ASSUME IInv, NEW t \in {"recent", "search"}, NEW n \in Requests, Call(t, n)
    PROVE  IInv'
<1> USE ToolsAssumption
<1>1. /\ pc = "idle" /\ pc' = "watermarks" /\ tool' = t /\ count' = Least(n, MaxCount)
      /\ old' = [p \in Partitions |-> Len(log[p])]
      /\ UNCHANGED <<log, deleted, unread, empty, scanned, found, returned, disturbed>>
    BY DEF Call, topicVars
<1>2. Least(n, MaxCount) \in 0..MaxCount
    BY DEF Least
<1>3. /\ found = 0 /\ returned = {} /\ empty = 0 /\ scanned = 0 /\ ~disturbed
      /\ \A p \in Partitions : unread[p] = Unassigned
    BY <1>1 DEF IInv, FreshStart
<1>4. PerPartition'
    BY <1>1, PartitionType DEF IInv, PerPartition
<1>5. TypeOK'
    BY <1>1, <1>2, <1>3, PartitionType DEF IInv, TypeOK
<1>6. FreshStart'
    BY <1>1, <1>3 DEF FreshStart
<1>7. SearchSoFar'
    BY <1>1, <1>3 DEF SearchSoFar, Unassigned, Lost
<1>8. SearchMissesNothing'
    BY <1>1 DEF SearchMissesNothing
<1> QED BY <1>4, <1>5, <1>6, <1>7, <1>8 DEF IInv

LEMMA ReadWatermarkInv ==
    ASSUME IInv, NEW p \in Partitions, ReadWatermark(p)
    PROVE  IInv'
<1> USE ToolsAssumption
<1>1. /\ pc = "watermarks" /\ unread' = [unread EXCEPT ![p] = StartOf(p)]
      /\ pc' \in {"watermarks", "polling"}
      /\ UNCHANGED <<log, deleted, old, tool, count, empty, scanned, found, returned, disturbed>>
    BY DEF ReadWatermark, topicVars
<1>2. /\ StartOf(p) \in {Lost} \cup 0..Len(log[p])
      /\ StartOf(p) >= 0 => StartOf(p) = Window \/ StartOf(p) = Len(log[p])
    BY WindowType, PartitionType DEF StartOf, Lost
<1>3. /\ unread'[p] = StartOf(p)
      /\ \A q \in Partitions \ {p} : unread'[q] = unread[q]
    BY <1>1 DEF IInv, PerPartition
<1>4. PerPartition'
    <2>1. StartOf(p) \in Int
        BY <1>2, PartitionType DEF Lost
    <2> QED BY <1>1, <2>1 DEF IInv, PerPartition
<1>5. TypeOK'
    <2>1. \A q \in Partitions : unread'[q] \in {Unassigned, Lost} \cup 0..Len(log[q])
        BY <1>2, <1>3 DEF IInv, TypeOK
    <2> QED BY <1>1, <2>1 DEF IInv, TypeOK
<1>6. empty = 0
    BY <1>1 DEF IInv, FreshStart
<1>7. FreshStart'
    BY <1>1 DEF IInv, FreshStart
<1>8. SearchSoFar'
    <2> SUFFICES ASSUME tool = "search", ~disturbed, NEW q \in Partitions
                 PROVE  /\ old[q] = Len(log[q])
                        /\ unread'[q] = Lost => StartOf(q) = Lost
                        /\ unread'[q] >= 0 /\ StartOf(q) # Lost
                            => \A i \in Passed(q)' : <<q, old[q] - i + 1>> \in returned
        BY <1>1, <1>6 DEF SearchSoFar, Undisturbed, Rank, StartOf, Window
    <2>1. /\ old[q] = Len(log[q])
          /\ unread[q] = Lost => StartOf(q) = Lost
          /\ unread[q] >= 0 /\ StartOf(q) # Lost
                => \A i \in Passed(q) : <<q, old[q] - i + 1>> \in returned
        BY <1>1 DEF IInv, SearchSoFar, Undisturbed, Rank
    <2>2. CASE q # p
        BY <1>1, <1>3, <2>1, <2>2 DEF Passed, Rank
    <2>3. CASE q = p
        <3>1. ASSUME unread'[p] >= 0 PROVE Passed(p)' = {}
            <4> SUFFICES ASSUME NEW i \in 1..Len(log[p]),
                                old[p] - i + 1 \in 1..(ScanDepth \div NumPartitions),
                                i <= Len(log[p]) - StartOf(p)
                         PROVE  FALSE
                BY <1>1, <1>3 DEF Passed, Rank
            <4>1. StartOf(p) = ScanDepth \div NumPartitions \/ StartOf(p) = Len(log[p])
                BY <1>2, <1>3, <3>1 DEF Window
            <4>2. StartOf(p) \in Int /\ Len(log[p]) \in Nat /\ old[p] = Len(log[p])
                BY <1>2, <2>1, <2>3, PartitionType DEF Lost
            <4> QED BY <4>1, <4>2
        <3> QED BY <1>3, <2>1, <2>3, <3>1
    <2> QED BY <2>2, <2>3
<1>9. SearchMissesNothing'
    BY <1>1 DEF SearchMissesNothing
<1> QED BY <1>4, <1>5, <1>7, <1>8, <1>9 DEF IInv

LEMMA ResetInv ==
    ASSUME IInv, NEW p \in Partitions, ResetToLatest(p)
    PROVE  IInv'
<1> USE ToolsAssumption
<1>1. /\ pc = "polling" /\ unread[p] = Lost /\ unread' = [unread EXCEPT ![p] = 0]
      /\ UNCHANGED <<log, deleted, old, pc, tool, count, empty, scanned, found, returned,
                     disturbed>>
    BY DEF ResetToLatest, topicVars
<1>2. \A q \in Partitions : unread'[q] \in {Unassigned, Lost} \cup 0..Len(log[q])
    BY <1>1, PartitionType DEF IInv, PerPartition, TypeOK
<1>3. TypeOK' /\ PerPartition'
    BY <1>1, <1>2 DEF IInv, TypeOK, PerPartition
<1>4. /\ unread'[p] = 0
      /\ \A q \in Partitions \ {p} : unread'[q] = unread[q]
    BY <1>1 DEF IInv, PerPartition
<1>5. SearchSoFar'
    <2> SUFFICES ASSUME tool = "search", ~disturbed, NEW q \in Partitions
                 PROVE  /\ old[q] = Len(log[q])
                        /\ unread'[q] = Lost => StartOf(q) = Lost
                        /\ unread'[q] >= 0 /\ StartOf(q) # Lost
                            => \A i \in Passed(q)' : <<q, old[q] - i + 1>> \in returned
                        /\ empty > 0 => unread'[q] = 0
        BY <1>1 DEF SearchSoFar, Undisturbed, Rank, StartOf, Window
    <2>1. /\ old[q] = Len(log[q])
          /\ unread[q] = Lost => StartOf(q) = Lost
          /\ unread[q] >= 0 /\ StartOf(q) # Lost
                => \A i \in Passed(q) : <<q, old[q] - i + 1>> \in returned
          /\ empty > 0 => unread[q] = 0
        BY <1>1 DEF IInv, SearchSoFar, Undisturbed, Rank
    <2>2. CASE q = p
        BY <1>1, <1>4, <2>1, <2>2 DEF Lost
    <2>3. CASE q # p
        BY <1>1, <1>4, <2>1, <2>3 DEF Passed, Rank
    <2> QED BY <2>2, <2>3
<1> QED BY <1>1, <1>3, <1>5 DEF IInv, FreshStart, SearchMissesNothing

LEMMA PollNothingInv == IInv /\ PollNothing => IInv'
<1> SUFFICES ASSUME IInv, PollNothing PROVE IInv'
    OBVIOUS
<1> USE ToolsAssumption
<1>1. /\ More /\ empty' = empty + 1
      /\ disturbed' = (disturbed \/ \E p \in Partitions : unread[p] # 0)
      /\ UNCHANGED <<log, deleted, old, pc, tool, count, unread, scanned, found, returned>>
    BY DEF PollNothing, topicVars
<1>2. pc = "polling" /\ empty < EmptyPolls
    BY <1>1 DEF More
<1>3. TypeOK' /\ PerPartition'
    <2>1. empty' \in 0..EmptyPolls /\ disturbed' \in BOOLEAN
        BY <1>1, <1>2 DEF IInv, TypeOK
    <2> QED BY <1>1, <2>1 DEF IInv, TypeOK, PerPartition
<1>4. SearchSoFar'
    <2>1. \A p \in Partitions : Passed(p)' = Passed(p)
        BY <1>1 DEF Passed, Rank
    <2> QED BY <1>1, <1>2, <2>1 DEF IInv, SearchSoFar, Undisturbed, Rank, StartOf, Window
<1> QED BY <1>1, <1>2, <1>3, <1>4 DEF IInv, FreshStart, SearchMissesNothing

LEMMA PollMessageInv ==
    ASSUME IInv, NEW p \in Partitions, PollMessage(p)
    PROVE  IInv'
<1> USE ToolsAssumption
<1> DEFINE k == NextIndex(p)
<1>1. /\ More /\ unread[p] > 0
      /\ unread' = [unread EXCEPT ![p] = unread[p] - 1]
      /\ scanned' = IF tool = "search" THEN scanned + 1 ELSE scanned
      /\ Take(p)
      /\ UNCHANGED <<log, deleted, old, pc, tool, count, empty, disturbed>>
    BY DEF PollMessage, topicVars
<1>2. pc = "polling" /\ found < count /\ (tool = "search" => scanned < ScanDepth)
    BY <1>1 DEF More
<1>3. k \in 1..Len(log[p]) /\ k = Len(log[p]) - unread[p] + 1
    BY <1>1, PartitionType DEF NextIndex, Unassigned, Lost
<1>4. \/ /\ log[p][k]
         /\ found' = found + 1
         /\ returned' = IF old[p] - k + 1 > 0 THEN returned \cup {<<p, old[p] - k + 1>>} ELSE returned
      \/ ~log[p][k] /\ UNCHANGED <<found, returned>>
    BY <1>1 DEF Take, Rank
<1> HIDE DEF k
<1>5. /\ unread'[p] = unread[p] - 1
      /\ \A q \in Partitions \ {p} : unread'[q] = unread[q]
    BY <1>1 DEF IInv, PerPartition
<1>6. PerPartition'
    BY <1>1 DEF IInv, PerPartition
<1>7. TypeOK'
    <2>1. \A q \in Partitions : unread'[q] \in {Unassigned, Lost} \cup 0..Len(log[q])
        <3>1. unread'[p] \in 0..Len(log[p])
            BY <1>1, <1>5, PartitionType DEF Unassigned, Lost
        <3> QED BY <1>5, <3>1 DEF IInv, TypeOK
    <2>2. returned' \subseteq Partitions \X (1..Capacity)
        <3>1. returned \subseteq Partitions \X (1..Capacity)
            BY DEF IInv, TypeOK
        <3>2. old[p] - k + 1 > 0 => old[p] - k + 1 \in 1..Capacity
            BY <1>3, PartitionType
        <3> QED BY <1>4, <3>1, <3>2
    <2>3. found' \in 0..count /\ Cardinality(returned') <= found'
        <3>1. /\ found \in 0..count /\ count \in Nat /\ Cardinality(returned) <= found
              /\ Cardinality(returned) \in Nat
            BY ReturnedFinite, FS_CardinalityType DEF IInv, TypeOK
        <3>2. \A x : Cardinality(returned \cup {x}) \in Nat
                /\ Cardinality(returned \cup {x}) <= Cardinality(returned) + 1
            BY ReturnedFinite, OneMore, FS_AddElement, FS_CardinalityType
        <3>3. CASE returned' = returned
            BY <1>2, <1>4, <3>1, <3>3
        <3>4. CASE /\ found' = found + 1
                   /\ returned' = returned \cup {<<p, old[p] - k + 1>>}
            <4> DEFINE x == <<p, old[p] - k + 1>>
            <4>1. /\ Cardinality(returned') \in Nat
                  /\ Cardinality(returned') <= Cardinality(returned) + 1
                <5> HIDE DEF x
                <5> QED BY <3>2, <3>4 DEF x
            <4> QED BY <1>2, <3>1, <3>4, <4>1
        <3> QED BY <1>4, <3>3, <3>4
    <2>4. scanned' \in 0..ScanDepth
        BY <1>1, <1>2 DEF IInv, TypeOK
    <2> QED BY <1>1, <2>1, <2>2, <2>3, <2>4 DEF IInv, TypeOK
<1>8. SearchSoFar'
    <2> SUFFICES ASSUME tool = "search", ~disturbed, NEW q \in Partitions
                 PROVE  /\ old[q] = Len(log[q])
                        /\ unread'[q] = Lost => StartOf(q) = Lost
                        /\ unread'[q] >= 0 /\ StartOf(q) # Lost
                            => \A i \in Passed(q)' : <<q, old[q] - i + 1>> \in returned'
                        /\ ~(empty > 0)
        BY <1>1 DEF SearchSoFar, Undisturbed, Rank, StartOf, Window
    <2>1. Undisturbed
        BY <1>2 DEF Undisturbed
    <2>2. /\ \A r \in Partitions : old[r] = Len(log[r])
          /\ \A r \in Partitions : unread[r] = Lost => StartOf(r) = Lost
          /\ \A r \in Partitions :
                unread[r] >= 0 /\ StartOf(r) # Lost
                    => \A i \in Passed(r) : <<r, old[r] - i + 1>> \in returned
          /\ ~(empty > 0)
        BY <1>1, <2>1 DEF IInv, SearchSoFar, Rank
    <2>3. returned \subseteq returned'
        BY <1>4
    <2>4. CASE q # p
        BY <1>1, <1>5, <2>2, <2>3, <2>4 DEF Passed, Rank
    <2>5. CASE q = p
        <3>0. unread'[p] \in Nat /\ unread'[p] # Lost
            BY <1>1, <1>5, PartitionType DEF Lost, Unassigned
        <3> SUFFICES ASSUME StartOf(p) # Lost, NEW i \in Passed(p)'
                     PROVE  <<p, old[p] - i + 1>> \in returned'
            BY <2>2, <2>5, <3>0
        <3>1. /\ i \in 1..Len(log[p]) /\ log[p][i]
              /\ old[p] - i + 1 \in 1..(ScanDepth \div NumPartitions)
              /\ i <= Len(log[p]) - (unread[p] - 1)
            BY <1>1, <1>5 DEF Passed, Rank
        <3>2. CASE i = k
            BY <1>4, <3>1, <3>2
        <3>3. CASE i # k
            <4>0. Len(log[p]) \in Nat /\ unread[p] \in Int /\ i \in Int
                BY <3>1, PartitionType
            <4>1. i <= Len(log[p]) - unread[p]
                <5> DEFINE n == Len(log[p])
                           r == unread[p]
                <5>1. /\ n \in Nat /\ r \in Int /\ i \in Int
                      /\ i <= n - (r - 1) /\ i # k /\ k = n - r + 1
                    BY <1>3, <3>1, <3>3, <4>0
                <5> HIDE DEF n, r
                <5>2. i <= n - r
                    BY ONLY <5>1
                <5> QED BY <5>2 DEF n, r
            <4>2. i \in Passed(p)
                BY <3>1, <4>1 DEF Passed, Rank
            <4> QED BY <1>1, <2>2, <2>3, <4>2, PartitionType
        <3> QED BY <3>2, <3>3
    <2> QED BY <2>2, <2>4, <2>5
<1> QED
    BY <1>1, <1>2, <1>6, <1>7, <1>8 DEF IInv, FreshStart, SearchMissesNothing

LEMMA FinishInv == IInv /\ Finish => IInv'
<1> SUFFICES ASSUME IInv, Finish PROVE IInv'
    OBVIOUS
<1> USE ToolsAssumption
<1>1. /\ pc = "polling" /\ ~More /\ pc' = "done"
      /\ UNCHANGED <<log, deleted, old, tool, count, unread, empty, scanned, found, returned,
                     disturbed>>
    BY DEF Finish, topicVars
<1>2. TypeOK' /\ PerPartition'
    BY <1>1 DEF IInv, TypeOK, PerPartition
<1>3. SearchMissesNothing'
    <2> SUFFICES ASSUME tool = "search", found < count, scanned < ScanDepth, ~disturbed,
                        NEW p \in Partitions, NEW i \in DOMAIN log[p],
                        StartOf(p) # Lost,
                        log[p][i], Rank(p, i) \in 1..(ScanDepth \div NumPartitions)
                 PROVE  <<p, Rank(p, i)>> \in returned
        BY <1>1 DEF SearchMissesNothing, Rank, StartOf, Window
    <2>1. empty > 0
        BY <1>1 DEF More, IInv, TypeOK
    <2>2. unread[p] = 0 /\ \A j \in Passed(p) : <<p, Rank(p, j)>> \in returned
        BY <1>1, <2>1 DEF IInv, SearchSoFar, Undisturbed
    <2>3. i \in Passed(p)
        BY <2>2, PartitionType DEF Passed
    <2> QED BY <2>2, <2>3
<1> QED BY <1>1, <1>2, <1>3 DEF IInv, FreshStart, SearchSoFar, Undisturbed

LEMMA ForgetInv == IInv /\ Forget => IInv'
<1> SUFFICES ASSUME IInv, Forget PROVE IInv'
    OBVIOUS
<1> USE ToolsAssumption
<1>1. /\ pc' = "idle" /\ old' = [p \in Partitions |-> 0] /\ tool' = "recent" /\ count' = 0
      /\ unread' = [p \in Partitions |-> Unassigned]
      /\ empty' = 0 /\ scanned' = 0 /\ found' = 0 /\ returned' = {} /\ disturbed' = FALSE
      /\ UNCHANGED <<log, deleted>>
    BY DEF Forget, topicVars
<1>2. Cardinality({}) = 0
    BY FS_EmptySet
<1>3. TypeOK'
    <2>1. \A p \in Partitions : old'[p] \in 0..Len(log[p]) /\ unread'[p] = Unassigned
        BY <1>1, PartitionType
    <2>2. /\ 0 \in 0..MaxCount /\ 0 \in 0..EmptyPolls /\ 0 \in 0..ScanDepth
          /\ found' \in 0..count' /\ Cardinality(returned') <= found'
        BY <1>1, <1>2
    <2> QED BY <1>1, <2>1, <2>2 DEF IInv, TypeOK
<1>4. PerPartition'
    BY <1>1 DEF IInv, PerPartition, Unassigned
<1> QED
    BY <1>1, <1>3, <1>4 DEF IInv, FreshStart, SearchSoFar, Undisturbed, SearchMissesNothing

LEMMA InvNext == IInv /\ [Next]_vars => IInv'
<1> SUFFICES ASSUME IInv, [Next]_vars PROVE IInv'
    OBVIOUS
<1>1. CASE UNCHANGED vars
    BY <1>1 DEF vars, topicVars, IInv, TypeOK, PerPartition, FreshStart, SearchSoFar,
        Undisturbed, Passed, Rank, StartOf, Window, SearchMissesNothing
<1>2. CASE Write
    BY <1>2, ProduceInv DEF Write
<1>3. CASE \E p \in Partitions : Delete(p)
    BY <1>3, DeleteInv
<1>4. CASE \E t \in {"recent", "search"}, n \in Requests : Call(t, n)
    BY <1>4, CallInv
<1>5. CASE \E p \in Partitions : ReadWatermark(p) \/ ResetToLatest(p)
    BY <1>5, ReadWatermarkInv, ResetInv
<1>6. CASE Poll
    BY <1>6, PollNothingInv, PollMessageInv DEF Poll
<1>7. CASE PollError
    BY <1>1, <1>7 DEF PollError
<1>8. CASE Finish
    BY <1>8, FinishInv
<1>9. CASE Fails \/ Return
    BY <1>9, ForgetInv DEF Fails, Return
<1> QED BY <1>1, <1>2, <1>3, <1>4, <1>5, <1>6, <1>7, <1>8, <1>9 DEF Next

LEMMA Invariance == Spec => []IInv
BY InvInit, InvNext, PTL DEF Spec

(***************************************************************************)
(* A call returns no more than it was asked for or may, reads no further   *)
(* than its depth, and never past the end of a partition, however messages *)
(* are written and deleted around it.                                      *)
(***************************************************************************)
THEOREM TypeCorrect == Spec => []TypeOK
<1>1. IInv => TypeOK
    BY DEF IInv
<1> QED BY <1>1, Invariance, PTL

(***************************************************************************)
(* An undisturbed search that returns less than was asked for, with depth  *)
(* to spare, has returned every wanted message of the window of each       *)
(* partition whose start offset was still there.                           *)
(***************************************************************************)
THEOREM NothingMissed == Spec => []SearchMissesNothing
<1>1. IInv => SearchMissesNothing
    BY DEF IInv
<1> QED BY <1>1, Invariance, PTL
=================================================================================
