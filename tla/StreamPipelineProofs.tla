------------------------- MODULE StreamPipelineProofs -------------------------
(***************************************************************************)
(* Proofs about StreamPipeline, for every topic, every detector and every  *)
(* number of failures: no alert is lost to a failure once the job has a    *)
(* checkpoint, a checkpoint commits to nothing that may still be lost, and *)
(* whatever failed before, the state is that of an uninterrupted job, in   *)
(* which every metric has a baseline of its own.                           *)
(***************************************************************************)
EXTENDS StreamPipeline, NumberFacts, SequenceTheorems, TLAPS

\* Whatever is in the sink's buffer belongs to an event the job has read.
BufferIsRead == \A a \in buffer : a.at \in Nat /\ a.at <= offset

\* A failed job has nothing left in memory.
FailedIsEmpty == status = "starting" => buffer = {} /\ pending = None

\* The barrier is behind the source, and the sink owes it only what it had at the barrier.
PendingHolds ==
    pending # None =>
        /\ pending.offset \in Nat /\ pending.offset <= offset
        /\ \A a \in buffer : a.at <= pending.offset => a \in pending.unflushed

\* What the checkpoint takes as read is out of the buffer.
CheckpointHolds ==
    checkpoint # None =>
        /\ checkpoint.offset \in Nat
        /\ status = "running" => checkpoint.offset <= offset
        /\ \A a \in buffer : a.at > checkpoint.offset

IInv ==
    /\ offset \in Nat /\ Len(topic) \in Nat
    /\ topic \in Seq(Events)
    /\ status \in {"starting", "running"}
    /\ BufferIsRead
    /\ FailedIsEmpty
    /\ PendingHolds
    /\ CheckpointHolds

\* An alert is on the event it is raised on.
LEMMA AlertsOnAt ==
    ASSUME NEW st, NEW e, NEW n, NEW a \in AlertsOn(st, e, n)
    PROVE  a.at = n
BY DEF AlertsOn

LEMMA InvInit == Init => IInv
BY DEF Init, IInv, BufferIsRead, FailedIsEmpty, PendingHolds, CheckpointHolds

\* The invariant is kept by every step, and by a step that changes nothing.
LEMMA InvNext == IInv /\ [Next]_vars => IInv'
<1> SUFFICES ASSUME IInv, [Next]_vars PROVE IInv'
    OBVIOUS
<1> USE DEF IInv, BufferIsRead, FailedIsEmpty, PendingHolds, CheckpointHolds
<1>1. ASSUME NEW e \in Events, Produce(e) PROVE IInv'
    BY <1>1 DEF Produce
<1>2. CASE Start
    BY <1>2 DEF Start
<1>3. CASE Process
    <2>1. /\ offset' = offset + 1
          /\ status = "running"
          /\ UNCHANGED <<topic, status, pending, checkpoint>>
        BY <1>3 DEF Process
    <2>2. PICK new : buffer' = buffer \cup new /\ \A a \in new : a.at = offset + 1
        <3> DEFINE raised == AlertsOn(state, topic[offset + 1], offset + 1)
        <3>1. buffer' = buffer \cup raised
            BY <1>3 DEF Process
        <3>2. \A a \in raised : a.at = offset + 1
            BY AlertsOnAt
        <3> HIDE DEF raised
        <3> QED BY <3>1, <3>2
    <2>3. BufferIsRead'
        BY <2>1, <2>2
    <2>4. PendingHolds'
        BY <2>1, <2>2
    <2>5. CheckpointHolds'
        BY <2>1, <2>2
    <2> QED BY <2>1, <2>3, <2>4, <2>5
<1>4. ASSUME NEW b \in buffer, Deliver(b) PROVE IInv'
    BY <1>4 DEF Deliver
<1>5. CASE Snapshot
    BY <1>5 DEF Snapshot
<1>6. CASE Complete
    BY <1>6 DEF Complete
<1>7. CASE Crash
    BY <1>7 DEF Crash
<1>8. CASE UNCHANGED vars
    BY <1>8 DEF vars
<1> QED
    BY <1>1, <1>2, <1>3, <1>4, <1>5, <1>6, <1>7, <1>8 DEF Next, Step

(***************************************************************************)
(* Only a delivery and a failure take an alert out of the buffer; and what *)
(* a failure takes is past the checkpoint.                                 *)
(***************************************************************************)
LEMMA StepSurvives ==
    ASSUME IInv, [Next]_vars, checkpoint' # None, NEW a \in buffer
    PROVE  a \in buffer' \cup alerts' \/ a.at > checkpoint'.offset
<1>1. ASSUME NEW e \in Events, Produce(e) PROVE a \in buffer'
    BY <1>1 DEF Produce
<1>2. CASE Start
    BY <1>2 DEF Start
<1>3. CASE Process
    BY <1>3 DEF Process
<1>4. ASSUME NEW b \in buffer, Deliver(b) PROVE a \in buffer' \cup alerts'
    BY <1>4 DEF Deliver
<1>5. CASE Snapshot
    BY <1>5 DEF Snapshot
<1>6. CASE Complete
    BY <1>6 DEF Complete
<1>7. CASE Crash
    BY <1>7 DEF Crash, IInv, CheckpointHolds
<1>8. CASE UNCHANGED vars
    BY <1>8 DEF vars
<1> QED
    BY <1>1, <1>2, <1>3, <1>4, <1>5, <1>6, <1>7, <1>8 DEF Next, Step

(***************************************************************************)
(* With a checkpoint, no failure of the job loses an alert: it is in       *)
(* stream-alerts, or the restarted job reads its event again.              *)
(***************************************************************************)
THEOREM SurvivesFailures == Spec => AlertsSurviveFailures
<1>1. IInv /\ [Next]_vars =>
        [checkpoint' # None =>
            \A a \in buffer : a \in buffer' \cup alerts' \/ a.at > checkpoint'.offset]_vars
    BY StepSurvives
<1> QED
    BY <1>1, InvInit, InvNext, PTL DEF Spec, AlertsSurviveFailures

-----------------------------------------------------------------------------
(* The replay of a sequence of events. *)

\* Replay on any sequence of events: Replay(from, n) is ReplayOf(topic, from, n).
ReplayOf(t, from, n) ==
    LET f[i \in from..n] == IF i = from THEN NoState ELSE Absorb(f[i - 1], t[i])
    IN  f[n]

\* f is a replay of the events from + 1 to n of t.
IsReplay(f, t, from, n) ==
    f = [i \in from..n |-> IF i = from THEN NoState ELSE Absorb(f[i - 1], t[i])]

LEMMA ReplayExists ==
    ASSUME NEW t, NEW from \in Nat
    PROVE  \A n \in Nat : from <= n => \E f : IsReplay(f, t, from, n)
<1> DEFINE S == {n \in Nat : \E f : IsReplay(f, t, from, n)}
<1>1. from \in S
    <2> DEFINE f == [i \in from..from |-> NoState]
    <2>1. IsReplay(f, t, from, from)
        BY DEF IsReplay
    <2> QED BY <2>1
<1>2. ASSUME NEW n \in Nat, from <= n, n \in S
      PROVE  n + 1 \in S
    <2>1. PICK f : IsReplay(f, t, from, n)
        BY <1>2
    <2> DEFINE g == [i \in from..(n + 1) |-> IF i = n + 1 THEN Absorb(f[n], t[n + 1]) ELSE f[i]]
    <2>2. \A i \in from..n : f[i] = IF i = from THEN NoState ELSE Absorb(f[i - 1], t[i])
        BY <2>1 DEF IsReplay
    <2>3. \A i \in from..(n + 1) :
            g[i] = IF i = from THEN NoState ELSE Absorb(g[i - 1], t[i])
        <3>1. g[n + 1] = Absorb(f[n], t[n + 1]) /\ \A i \in from..n : g[i] = f[i]
            BY <1>2
        <3> HIDE DEF g
        <3>2. (n + 1) - 1 = n /\ n \in from..n /\ n + 1 # from
            BY <1>2
        <3>3. \A i \in from..n : i # from => i - 1 \in from..n
            OBVIOUS
        <3>4. \A i \in from..(n + 1) : i \in from..n \/ i = n + 1
            OBVIOUS
        <3> QED BY <2>2, <3>1, <3>2, <3>3, <3>4
    <2>4. IsReplay(g, t, from, n + 1)
        BY <2>3 DEF IsReplay
    <2> QED BY <1>2, <2>4
<1> HIDE DEF S
<1>3. \A n \in Nat : from <= n => n \in S
    BY <1>1, <1>2, SetInduction
<1> QED BY <1>3 DEF S

\* Two replays from the same place agree as far as both go.
LEMMA ReplaysAgree ==
    ASSUME NEW t, NEW from \in Nat, NEW n \in Nat, NEW m \in Nat,
           NEW f, IsReplay(f, t, from, n), NEW g, IsReplay(g, t, from, m)
    PROVE  \A i \in Nat : from <= i /\ i <= n /\ i <= m => f[i] = g[i]
<1> DEFINE S == {i \in Nat : i <= n /\ i <= m => f[i] = g[i]}
<1>0. /\ \A i \in from..n : f[i] = IF i = from THEN NoState ELSE Absorb(f[i - 1], t[i])
      /\ \A i \in from..m : g[i] = IF i = from THEN NoState ELSE Absorb(g[i - 1], t[i])
    BY DEF IsReplay
<1>1. from \in S
    BY <1>0
<1>2. ASSUME NEW i \in Nat, from <= i, i \in S
      PROVE  i + 1 \in S
    <2> SUFFICES ASSUME i + 1 <= n, i + 1 <= m PROVE f[i + 1] = g[i + 1]
        OBVIOUS
    <2>1. f[i] = g[i]
        BY <1>2
    <2>2. f[i + 1] = Absorb(f[i], t[i + 1]) /\ g[i + 1] = Absorb(g[i], t[i + 1])
        BY <1>0, <1>2
    <2> QED BY <2>1, <2>2
<1> HIDE DEF S
<1>3. \A i \in Nat : from <= i => i \in S
    BY <1>1, <1>2, SetInduction
<1> QED BY <1>3 DEF S

LEMMA ReplayOfIs ==
    ASSUME NEW t, NEW from \in Nat, NEW n \in Nat, from <= n,
           NEW f, IsReplay(f, t, from, n)
    PROVE  ReplayOf(t, from, n) = f[n]
<1> DEFINE g == CHOOSE g : IsReplay(g, t, from, n)
<1>1. IsReplay(g, t, from, n)
    BY Zenon
<1>2. ReplayOf(t, from, n) = g[n]
    BY Zenon DEF ReplayOf, IsReplay
<1>3. f[n] = g[n]
    <2> HIDE DEF g
    <2> QED BY <1>1, ReplaysAgree
<1> QED BY <1>2, <1>3

\* Replaying no event gives the initial state; one event more is absorbed last.
LEMMA ReplayNone ==
    ASSUME NEW t, NEW from \in Nat
    PROVE  ReplayOf(t, from, from) = NoState
<1>1. PICK f : IsReplay(f, t, from, from)
    BY ReplayExists
<1>2. f[from] = NoState
    BY <1>1 DEF IsReplay
<1> QED BY <1>1, <1>2, ReplayOfIs

LEMMA ReplayOneMore ==
    ASSUME NEW t, NEW from \in Nat, NEW n \in Nat, from <= n
    PROVE  ReplayOf(t, from, n + 1) = Absorb(ReplayOf(t, from, n), t[n + 1])
<1>1. PICK f : IsReplay(f, t, from, n)
    BY ReplayExists
<1>2. PICK g : IsReplay(g, t, from, n + 1)
    BY ReplayExists
<1>3. g[n + 1] = Absorb(g[n], t[n + 1])
    BY <1>2 DEF IsReplay
<1>4. f[n] = g[n]
    BY <1>1, <1>2, ReplaysAgree
<1>5. ReplayOf(t, from, n) = f[n] /\ ReplayOf(t, from, n + 1) = g[n + 1]
    BY <1>1, <1>2, ReplayOfIs
<1> QED BY <1>3, <1>4, <1>5

\* What is appended to the events does not change a replay of those before it.
LEMMA ReplayPrefix ==
    ASSUME NEW t, NEW u, NEW from \in Nat, NEW n \in Nat, from <= n,
           \A i \in 1..n : t[i] = u[i]
    PROVE  ReplayOf(u, from, n) = ReplayOf(t, from, n)
<1>1. PICK f : IsReplay(f, t, from, n)
    BY ReplayExists
<1>2. \A i \in from..n : i # from => i \in 1..n
    OBVIOUS
<1>3. [i \in from..n |-> IF i = from THEN NoState ELSE Absorb(f[i - 1], t[i])]
        = [i \in from..n |-> IF i = from THEN NoState ELSE Absorb(f[i - 1], u[i])]
    BY <1>2
<1>4. IsReplay(f, u, from, n)
    BY <1>1, <1>3 DEF IsReplay
<1> QED BY <1>1, <1>4, ReplayOfIs

LEMMA ReplayIs ==
    ASSUME NEW from, NEW n PROVE Replay(from, n) = ReplayOf(topic, from, n)
BY DEF Replay, ReplayOf

-----------------------------------------------------------------------------
(* The detector's arithmetic and its types. *)

LEMMA SquareType ==
    ASSUME NEW x \in Int
    PROVE  Square(x) \in Nat
BY DEF Square

\* The numbers of a baseline stay numbers, whatever the value.
LEMMA UpdateType ==
    ASSUME NEW s \in States, s.mean \in Int, NEW e, e.value \in Int
    PROVE  /\ Delta(s, e) \in Int /\ Mean(s, e) \in Int
           /\ Variance(s, e) \in Nat /\ AlphaDen * s.unit \in Nat \ {0}
<1>1. AlphaDen \in Nat \ {0} /\ AlphaNum \in Nat /\ AlphaDen - AlphaNum \in Nat
    BY DetectorAssumption
<1>2. s.unit \in Nat \ {0} /\ s.variance \in Nat
    BY DEF States
<1>3. Delta(s, e) \in Int
    BY <1>2 DEF Delta
<1>4. Mean(s, e) \in Int
    BY <1>1, <1>3 DEF Mean
<1>5. AlphaDen * s.variance \in Nat /\ AlphaNum * Square(Delta(s, e)) \in Nat
    BY <1>1, <1>2, <1>3, SquareType, NatProduct
<1>6. AlphaDen * s.variance + AlphaNum * Square(Delta(s, e)) \in Nat
    BY <1>5
<1>7. Variance(s, e) \in Nat
    BY <1>1, <1>6, NatProduct, Zenon DEF Variance
<1>8. AlphaDen * s.unit \in Nat \ {0}
    BY <1>1, <1>2
<1> QED BY <1>3, <1>4, <1>7, <1>8

\* An event counts once at most, as an error only if it is a log.
LEMMA AfterType ==
    ASSUME NEW s \in States, s.errors <= s.count, s.count + 1 <= MaxEvents,
           NEW e \in Events, e.kind = "metric" => s.errors = 0
    PROVE  /\ After(s, e) \in States
           /\ After(s, e).errors <= After(s, e).count
           /\ After(s, e).count <= s.count + 1
           /\ e.kind # "log" => After(s, e).errors = s.errors
<1> USE PipelineAssumption, DetectorAssumption
<1>0. /\ s.mean \in Int \cup {None} /\ s.variance \in Nat /\ s.unit \in Nat \ {0}
      /\ s.count \in 0..MaxEvents /\ s.errors \in 0..MaxEvents
      /\ s.count + 1 \in 0..MaxEvents /\ 1 \in 0..MaxEvents
    BY DEF States
<1>1. CASE e.kind = "metric" /\ s.mean = None
    <2> DEFINE r == After(s, e)
    <2>1. e.value \in Int
        BY <1>1, EventsAssumption
    <2>2. r = [s EXCEPT !.mean = e.value, !.variance = 0, !.unit = 1, !.count = 1]
        BY <1>1, Zenon DEF After
    <2> HIDE DEF r
    <2>3. r = [mean |-> e.value, variance |-> 0, unit |-> 1, count |-> 1, errors |-> s.errors]
        BY <2>2 DEF States
    <2>4. r \in States /\ r.count = 1 /\ r.errors = s.errors
        BY <1>0, <2>1, <2>3 DEF States
    <2> QED BY <1>0, <1>1, <2>4 DEF r
<1>2. CASE e.kind = "metric" /\ s.mean # None
    <2>1. e.value \in Int /\ s.mean \in Int
        BY <1>0, <1>2, EventsAssumption
    <2> DEFINE m == Mean(s, e)
               v == Variance(s, e)
               u == AlphaDen * s.unit
               r == After(s, e)
    <2>2. m \in Int /\ v \in Nat /\ u \in Nat \ {0}
        BY <2>1, UpdateType
    <2>3. r = [s EXCEPT !.mean = m, !.variance = v, !.unit = u, !.count = s.count + 1]
        BY <1>2, Zenon DEF After
    <2> HIDE DEF m, v, u, r
    <2>4. r \in States /\ r.count = s.count + 1 /\ r.errors = s.errors
        BY <1>0, <2>2, <2>3 DEF States
    <2> QED BY <1>0, <1>2, <2>4 DEF r
<1>3. CASE e.kind = "log"
    <2> DEFINE n == Errors(s, e)
               r == After(s, e)
    <2>1. n \in {s.errors, s.errors + 1}
        BY <1>0 DEF Errors
    <2>2. n \in 0..MaxEvents
        BY <1>0, <2>1
    <2>3. r = [s EXCEPT !.count = s.count + 1, !.errors = n]
        BY <1>3, Zenon DEF After
    <2> HIDE DEF n, r
    <2>4. r \in States /\ r.count = s.count + 1 /\ r.errors = n
        BY <1>0, <2>2, <2>3 DEF States
    <2> QED BY <1>0, <1>3, <2>1, <2>4 DEF r
<1>4. CASE e.kind \notin {"metric", "log"}
    BY <1>0, <1>4 DEF After
<1> QED BY <1>1, <1>2, <1>3, <1>4

(***************************************************************************)
(* A state of all keys that fits a job that went back to s and has read up *)
(* to o: a key has counted some of those events, and errors only if it is  *)
(* the key of a source's logs.                                             *)
(***************************************************************************)
Fits(s, o, st) ==
    /\ st \in [Keys -> States]
    /\ \A k \in Keys : st[k].count + s <= o /\ st[k].errors <= st[k].count
    /\ \A k \in Keys : k[2] # "log" => st[k].errors = 0

LEMMA FitsFresh ==
    ASSUME NEW s \in Nat
    PROVE  Fits(s, s, NoState)
<1>1. Fresh \in States /\ Fresh.count = 0 /\ Fresh.errors = 0
    BY PipelineAssumption DEF Fresh, States
<1> QED BY <1>1 DEF Fits, NoState

LEMMA FitsAbsorb ==
    ASSUME NEW s \in Nat, NEW o \in Nat, NEW st, Fits(s, o, st), o + 1 <= MaxEvents,
           NEW e \in Events
    PROVE  Fits(s, o + 1, Absorb(st, e))
<1>1. \A k \in Keys : /\ st[k] \in States
                      /\ st[k].count \in Nat /\ st[k].errors \in Nat
                      /\ st[k].count + s <= o /\ st[k].errors <= st[k].count
                      /\ k[2] # "log" => st[k].errors = 0
    BY PipelineAssumption DEF Fits, States
<1>2. CASE Collected(e)
    <2> DEFINE k0 == KeyFor(e)
               a == After(st[k0], e)
    <2>1. k0 \in Keys
        BY <1>2 DEF Keys
    <2>2. /\ e.kind = "metric" => k0[2] # "log"
          /\ k0[2] # "log" => e.kind # "log"
        BY EventsAssumption DEF KeyFor
    <2>3. /\ a \in States /\ a.errors <= a.count /\ a.count <= st[k0].count + 1
          /\ e.kind # "log" => a.errors = st[k0].errors
        BY <1>1, <2>1, <2>2, AfterType, PipelineAssumption
    <2>4. Absorb(st, e) = [st EXCEPT ![k0] = a]
        BY <1>2 DEF Absorb
    <2>5. a.count \in Nat
        BY <2>3, PipelineAssumption DEF States
    <2> HIDE DEF k0, a
    <2>6. Absorb(st, e) \in [Keys -> States]
        BY <2>3, <2>4 DEF Fits
    <2>7. ASSUME NEW k \in Keys
          PROVE  LET r == Absorb(st, e)[k]
                 IN  /\ r.count + s <= o + 1 /\ r.errors <= r.count
                     /\ k[2] # "log" => r.errors = 0
        <3>1. CASE k = k0
            <4>1. Absorb(st, e)[k] = a
                BY <2>4, <3>1 DEF Fits
            <4> QED BY <1>1, <2>1, <2>2, <2>3, <2>5, <3>1, <4>1
        <3>2. CASE k # k0
            <4>1. Absorb(st, e)[k] = st[k]
                BY <2>4, <3>2 DEF Fits
            <4> QED BY <1>1, <4>1
        <3> QED BY <3>1, <3>2
    <2> QED BY <2>6, <2>7 DEF Fits
<1>3. CASE ~Collected(e)
    BY <1>1, <1>3 DEF Absorb, Fits
<1> QED BY <1>2, <1>3

-----------------------------------------------------------------------------
LEMMA AlertsOnType ==
    ASSUME NEW st, NEW e, NEW n \in 1..MaxEvents
    PROVE  AlertsOn(st, e, n) \subseteq Alerts
<1>1. \A s : Rules(s, e) \subseteq {"threshold", "baseline_deviation", "error_rate_high"}
    BY DEF Rules
<1> QED BY <1>1 DEF AlertsOn, Alerts

\* Due on any sequence of events: Due(from, n) is DueOf(topic, from, n).
DueOf(t, from, n) == UNION {AlertsOn(ReplayOf(t, from, i - 1), t[i], i) : i \in (from + 1)..n}

LEMMA DueNone ==
    ASSUME NEW t, NEW n \in Nat
    PROVE  DueOf(t, n, n) = {}
BY DEF DueOf

LEMMA DueOneMore ==
    ASSUME NEW t, NEW from \in Nat, NEW n \in Nat, from <= n
    PROVE  DueOf(t, from, n + 1)
            = DueOf(t, from, n) \cup AlertsOn(ReplayOf(t, from, n), t[n + 1], n + 1)
<1>1. (from + 1)..(n + 1) = ((from + 1)..n) \cup {n + 1}
    OBVIOUS
<1>2. (n + 1) - 1 = n
    OBVIOUS
<1> QED BY <1>1, <1>2, Zenon DEF DueOf

LEMMA DuePrefix ==
    ASSUME NEW t, NEW u, NEW from \in Nat, NEW n \in Nat, from <= n,
           \A i \in 1..n : t[i] = u[i]
    PROVE  DueOf(u, from, n) = DueOf(t, from, n)
<1>1. ASSUME NEW i \in (from + 1)..n
      PROVE  AlertsOn(ReplayOf(u, from, i - 1), u[i], i)
                = AlertsOn(ReplayOf(t, from, i - 1), t[i], i)
    <2>1. i - 1 \in Nat /\ from <= i - 1 /\ \A j \in 1..(i - 1) : t[j] = u[j]
        OBVIOUS
    <2>2. ReplayOf(u, from, i - 1) = ReplayOf(t, from, i - 1)
        BY <2>1, ReplayPrefix
    <2>3. t[i] = u[i]
        OBVIOUS
    <2> QED BY <2>2, <2>3
<1> QED BY <1>1, Zenon DEF DueOf

LEMMA DueIs ==
    ASSUME NEW from, NEW n PROVE Due(from, n) = DueOf(topic, from, n)
BY DEF Due, DueOf, Replay, ReplayOf

-----------------------------------------------------------------------------
(***************************************************************************)
(* The values of the metrics with key k among the events s + 1 to o of t.  *)
(***************************************************************************)
Of(t, s, o, k) == {j \in (s + 1)..o : t[j].kind = "metric" /\ KeyFor(t[j]) = k}

ValuesOf(t, s, o, k) == {t[j].value : j \in Of(t, s, o, k)}

(***************************************************************************)
(* The mean is between the two values, and the variance at most the product*)
(* of its distances from them.  That bound on the variance, unlike the one *)
(* in BaselineIsItsOwn, is handed on from sample to sample.                *)
(***************************************************************************)
Within(b, low, high) ==
    /\ low * b.unit <= b.mean /\ b.mean <= high * b.unit
    /\ b.variance <= (high * b.unit - b.mean) * (b.mean - low * b.unit)

Baseline(b, values) ==
    IF values = {} THEN b.mean = None
    ELSE b.mean # None /\ \E low, high \in values : Within(b, low, high)

MetricKeys == {KeyFor(e) : e \in {x \in Events : x.kind = "metric"}}

Own(t, s, o, st) == \A k \in MetricKeys : Baseline(st[k], ValuesOf(t, s, o, k))

LEMMA MetricKeysAreKeys == MetricKeys \subseteq Keys
BY DEF MetricKeys, Keys, Collected

\* Bounds may move apart.
LEMMA WithinWider ==
    ASSUME NEW b \in States, b.mean \in Int,
           NEW low \in Int, NEW high \in Int, Within(b, low, high),
           NEW lower \in Int, NEW higher \in Int, lower <= low, high <= higher
    PROVE  Within(b, lower, higher)
<1> DEFINE u == b.unit
<1>1. u \in Nat /\ b.variance \in Nat
    BY DEF States
<1> HIDE DEF u
<1>2. u * lower <= u * low /\ u * high <= u * higher
    BY <1>1, ProductGrows
<1>3. /\ lower * u = u * lower /\ low * u = u * low /\ high * u = u * high
      /\ higher * u = u * higher
      /\ {lower * u, low * u, high * u, higher * u} \subseteq Int
    BY <1>1
<1> DEFINE x == high * u - b.mean
           y == b.mean - low * u
           xx == higher * u - b.mean
           yy == b.mean - lower * u
<1>4. low * u <= b.mean /\ b.mean <= high * u /\ b.variance <= x * y
    BY DEF Within, u
<1>5. x \in Nat /\ y \in Nat /\ xx \in Nat /\ yy \in Nat /\ x <= xx /\ y <= yy
    BY <1>2, <1>3, <1>4
<1>6. lower * u <= b.mean /\ b.mean <= higher * u
    BY <1>2, <1>3, <1>4
<1> HIDE DEF x, y, xx, yy
<1>7. x * y <= xx * yy /\ x * y \in Nat /\ xx * yy \in Nat
    BY <1>5, ProductsGrow, NatProduct
<1>8. b.variance <= xx * yy
    BY <1>1, <1>4, <1>7
<1> QED BY <1>6, <1>8 DEF Within, u, xx, yy

\* An update by a value within the bounds leaves the baseline within them.
LEMMA WithinAfter ==
    ASSUME NEW b \in States, b.mean \in Int,
           NEW low \in Int, NEW high \in Int, Within(b, low, high),
           NEW e, e.value \in Int, low <= e.value, e.value <= high,
           NEW a, a.mean = Mean(b, e), a.variance = Variance(b, e), a.unit = AlphaDen * b.unit
    PROVE  Within(a, low, high)
<1> DEFINE u == b.unit
           D == AlphaDen
           N == AlphaNum
           x == high * u - b.mean
           y == b.mean - low * u
           d == e.value * u - b.mean
<1>1. u \in Nat \ {0} /\ b.variance \in Nat /\ D \in Nat \ {0} /\ N \in 0..D
    BY DetectorAssumption DEF States
<1>2. low * u <= b.mean /\ b.mean <= high * u /\ b.variance <= x * y
    BY DEF Within
<1>3. /\ a.mean = D * b.mean + N * d /\ a.unit = D * u
      /\ a.variance = (D - N) * (D * b.variance + N * (d * d))
    BY DEF Mean, Variance, Delta, Square
<1> HIDE DEF D, N, u
<1>4. /\ u * low <= u * e.value /\ u * e.value <= u * high
      /\ low * u = u * low /\ high * u = u * high /\ e.value * u = u * e.value
      /\ {low * u, high * u, e.value * u} \subseteq Int
    BY <1>1, ProductGrows
<1>5. x \in Nat /\ y \in Nat /\ d \in Int /\ 0 - y <= d /\ d <= x
    BY <1>2, <1>4
<1>6. high * a.unit - a.mean = D * x - N * d /\ a.mean - low * a.unit = D * y + N * d
    BY <1>1, <1>3, <1>4
<1>7. /\ high * a.unit \in Int /\ low * a.unit \in Int /\ a.mean \in Int
      /\ D * x - N * d \in Int /\ D * y + N * d \in Int
    BY <1>1, <1>3, <1>4, <1>5
<1>8. D * y + N * d >= 0
    BY <1>1, <1>5, MeanStep
<1>9. D * x - N * d >= 0
    <2>1. D * x + N * (0 - d) >= 0
        BY <1>1, <1>5, MeanStep
    <2>2. N * (0 - d) = 0 - N * d /\ N * d \in Int /\ D * x \in Int
        BY <1>1, <1>5
    <2> QED BY <2>1, <2>2
<1>10. a.variance <= (D * x - N * d) * (D * y + N * d)
    <2> HIDE DEF x, y, d
    <2>1. (D - N) * (D * b.variance + N * (d * d)) <= (D * x - N * d) * (D * y + N * d)
        BY <1>1, <1>2, <1>5, VarianceStep
    <2> QED BY <1>3, <2>1
<1>11. low * a.unit <= a.mean /\ a.mean <= high * a.unit
    <2> DEFINE p == D * x - N * d
               q == D * y + N * d
    <2>1. /\ high * a.unit - a.mean = p /\ a.mean - low * a.unit = q
          /\ p \in Int /\ q \in Int /\ p >= 0 /\ q >= 0
        BY <1>6, <1>7, <1>8, <1>9
    <2> HIDE DEF p, q
    <2> QED BY <1>7, <2>1
<1> QED BY <1>6, <1>10, <1>11 DEF Within

\* A key with one value more.
LEMMA BaselineAfter ==
    ASSUME NEW b \in States, NEW e \in Events, e.kind = "metric",
           NEW values, values \subseteq Int, Baseline(b, values)
    PROVE  Baseline(After(b, e), values \cup {e.value})
<1> DEFINE v == e.value
           a == After(b, e)
<1>0. v \in Int /\ None \notin Int
    BY EventsAssumption, DetectorAssumption
<1>1. CASE values = {}
    <2>1. b.mean = None
        BY <1>1 DEF Baseline
    <2>2. a = [b EXCEPT !.mean = v, !.variance = 0, !.unit = 1, !.count = 1]
        BY <2>1, Zenon DEF After
    <2> HIDE DEF a, v
    <2>3. a.mean = v /\ a.variance = 0 /\ a.unit = 1
        BY <2>2 DEF States
    <2>4. Within(a, v, v)
        BY <1>0, <2>3 DEF Within
    <2>5. a.mean # None /\ v \in values \cup {v}
        BY <1>0, <2>3
    <2> QED BY <2>4, <2>5 DEF Baseline, a, v
<1>2. CASE values # {}
    <2>1. PICK low \in values, high \in values : Within(b, low, high)
        BY <1>2 DEF Baseline
    <2>2. b.mean # None /\ b.mean \in Int
        BY <1>2 DEF Baseline, States
    <2>3. a = [b EXCEPT !.mean = Mean(b, e), !.variance = Variance(b, e),
                        !.unit = AlphaDen * b.unit, !.count = b.count + 1]
        BY <2>2, Zenon DEF After
    <2> HIDE DEF a
    <2>4. /\ a.mean = Mean(b, e) /\ a.variance = Variance(b, e)
          /\ a.unit = AlphaDen * b.unit
        BY <2>3 DEF States
    <2>5. low \in Int /\ high \in Int /\ low * b.unit <= high * b.unit
        BY <2>1, <2>2 DEF Within, States
    <2> DEFINE least == IF v < low THEN v ELSE low
               most == IF v > high THEN v ELSE high
    <2>6. /\ least \in values \cup {v} /\ most \in values \cup {v}
          /\ least \in Int /\ most \in Int
          /\ least <= low /\ high <= most /\ least <= v /\ v <= most
        BY <1>0, <2>1, <2>5
    <2> HIDE DEF least, most
    <2>7. Within(b, least, most)
        BY <2>1, <2>2, <2>5, <2>6, WithinWider
    <2>8. Within(a, least, most)
        BY <1>0, <2>2, <2>4, <2>6, <2>7, WithinAfter
    <2>9. a.mean \in Int
        BY <1>0, <2>2, <2>4, UpdateType
    <2> QED BY <1>0, <2>6, <2>8, <2>9 DEF Baseline, a
<1> QED BY <1>1, <1>2

\* One more event adds its value to those of its own key, and none to another's.
ValuesGrow(t, s, o, k) ==
    /\ t[o + 1].kind = "metric" /\ KeyFor(t[o + 1]) = k =>
            ValuesOf(t, s, o + 1, k) = ValuesOf(t, s, o, k) \cup {t[o + 1].value}
    /\ ~(t[o + 1].kind = "metric" /\ KeyFor(t[o + 1]) = k) =>
            ValuesOf(t, s, o + 1, k) = ValuesOf(t, s, o, k)

LEMMA ValuesOneMore ==
    ASSUME NEW t, NEW s \in Nat, NEW o \in Nat, s <= o, NEW k
    PROVE  ValuesGrow(t, s, o, k)
<1>1. (s + 1)..(o + 1) = ((s + 1)..o) \cup {o + 1}
    OBVIOUS
<1>2. /\ t[o + 1].kind = "metric" /\ KeyFor(t[o + 1]) = k =>
            Of(t, s, o + 1, k) = Of(t, s, o, k) \cup {o + 1}
      /\ ~(t[o + 1].kind = "metric" /\ KeyFor(t[o + 1]) = k) =>
            Of(t, s, o + 1, k) = Of(t, s, o, k)
    BY <1>1, Zenon DEF Of
<1> QED BY <1>2, Zenon DEF ValuesOf, ValuesGrow

LEMMA ValuesPrefix ==
    ASSUME NEW t, NEW u, NEW s \in Nat, NEW o \in Nat, NEW k, \A i \in 1..o : t[i] = u[i]
    PROVE  ValuesOf(u, s, o, k) = ValuesOf(t, s, o, k)
<1>1. \A i \in (s + 1)..o : t[i] = u[i]
    OBVIOUS
<1>2. Of(u, s, o, k) = Of(t, s, o, k)
    BY <1>1, Zenon DEF Of
<1>3. \A j \in Of(t, s, o, k) : t[j] = u[j]
    BY <1>1 DEF Of
<1> QED BY <1>2, <1>3, Zenon DEF ValuesOf

LEMMA ValuesAreNumbers ==
    ASSUME NEW t \in Seq(Events), NEW s \in Nat, NEW o \in Nat, o <= Len(t), NEW k
    PROVE  ValuesOf(t, s, o, k) \subseteq Int
<1>1. \A j \in (s + 1)..o : t[j] \in Events
    BY ElementOfSeq
<1> QED BY <1>1, EventsAssumption DEF ValuesOf, Of

LEMMA OwnFresh ==
    ASSUME NEW t, NEW n \in Nat
    PROVE  Own(t, n, n, NoState)
<1> SUFFICES ASSUME NEW k \in MetricKeys PROVE Baseline(NoState[k], ValuesOf(t, n, n, k))
    BY DEF Own
<1>1. NoState[k].mean = None
    BY MetricKeysAreKeys DEF NoState, Fresh
<1>2. ValuesOf(t, n, n, k) = {}
    BY DEF ValuesOf, Of
<1> QED BY <1>1, <1>2 DEF Baseline

LEMMA OwnAbsorb ==
    ASSUME NEW t, NEW s \in Nat, NEW o \in Nat, s <= o, o + 1 <= Len(t), t \in Seq(Events),
           NEW st \in [Keys -> States], Own(t, s, o, st)
    PROVE  Own(t, s, o + 1, Absorb(st, t[o + 1]))
<1> DEFINE e == t[o + 1]
<1>0. s \in Nat /\ o \in Nat /\ s <= o
    OBVIOUS
<1>1. e \in Events
    BY ElementOfSeq
<1> SUFFICES ASSUME NEW k \in MetricKeys
             PROVE  Baseline(Absorb(st, e)[k], ValuesOf(t, s, o + 1, k))
    BY DEF Own
<1>2. k \in Keys /\ st[k] \in States /\ Baseline(st[k], ValuesOf(t, s, o, k))
    BY MetricKeysAreKeys DEF Own
<1>3. ValuesOf(t, s, o, k) \subseteq Int
    BY ValuesAreNumbers
<1>4. k[2] # "log"
    BY EventsAssumption DEF MetricKeys, KeyFor
<1>5. ValuesGrow(t, s, o, k)
    BY ValuesOneMore
<1>6. CASE e.kind = "metric" /\ KeyFor(e) = k
    <2>1. Absorb(st, e)[k] = After(st[k], e)
        BY <1>2, <1>6 DEF Absorb, Collected
    <2>2. ValuesOf(t, s, o + 1, k) = ValuesOf(t, s, o, k) \cup {e.value}
        BY <1>5, <1>6, Zenon DEF ValuesGrow
    <2> QED BY <1>1, <1>2, <1>3, <1>6, <2>1, <2>2, BaselineAfter
<1>7. CASE ~(e.kind = "metric" /\ KeyFor(e) = k)
    <2>1. ValuesOf(t, s, o + 1, k) = ValuesOf(t, s, o, k)
        BY <1>5, <1>7, Zenon DEF ValuesGrow
    <2>2. Absorb(st, e)[k] = st[k]
        <3>1. CASE ~Collected(e)
            BY <3>1 DEF Absorb
        <3>2. CASE Collected(e) /\ KeyFor(e) # k
            BY <1>2, <3>2 DEF Absorb
        <3>3. CASE Collected(e) /\ KeyFor(e) = k
            <4>1. e.kind \notin {"metric", "log"}
                BY <1>4, <1>7, <3>3 DEF KeyFor
            <4>2. After(st[k], e) = st[k]
                BY <4>1 DEF After
            <4> QED BY <1>2, <3>3, <4>2 DEF Absorb
        <3> QED BY <3>1, <3>2, <3>3
    <2> QED BY <1>2, <2>1, <2>2
<1> QED BY <1>6, <1>7

-----------------------------------------------------------------------------
(***************************************************************************)
(* What a job that went back to offset s and has read the events t up to o *)
(* holds in st: a state of the right shape, the replay of what it read, in *)
(* which every metric has a baseline of its own.                           *)
(***************************************************************************)
Sound(t, s, o, st) ==
    /\ s \in Nat /\ o \in Nat /\ s <= o /\ o <= Len(t)
    /\ Fits(s, o, st)
    /\ st = ReplayOf(t, s, o)
    /\ Own(t, s, o, st)

\* The running job, the pending checkpoint and the complete one are sound.
AllSound ==
    /\ Len(topic) <= MaxEvents
    /\ Sound(topic, start, offset, state)
    /\ \A c \in {pending, checkpoint} \ {None} : Sound(topic, c.start, c.offset, c.state)

LEMMA SoundFresh ==
    ASSUME NEW t \in Seq(Events), NEW n \in 0..Len(t)
    PROVE  Sound(t, n, n, NoState)
BY FitsFresh, ReplayNone, OwnFresh DEF Sound

\* It stays so when an event is appended that is not read yet.
LEMMA SoundAppend ==
    ASSUME NEW t \in Seq(Events), NEW e \in Events, NEW s, NEW o, NEW st, Sound(t, s, o, st)
    PROVE  /\ Sound(Append(t, e), s, o, st)
           /\ DueOf(Append(t, e), s, o) = DueOf(t, s, o)
<1>1. Len(Append(t, e)) = Len(t) + 1 /\ \A i \in 1..Len(t) : Append(t, e)[i] = t[i]
    OBVIOUS
<1>2. s \in Nat /\ o \in Nat /\ s <= o /\ o <= Len(t) /\ Len(t) \in Nat
    BY DEF Sound
<1> DEFINE u == Append(t, e)
<1>3. \A i \in 1..o : t[i] = u[i]
    BY <1>1, <1>2
<1> HIDE DEF u
<1>4. ReplayOf(u, s, o) = ReplayOf(t, s, o) /\ DueOf(u, s, o) = DueOf(t, s, o)
    BY <1>2, <1>3, ReplayPrefix, DuePrefix
<1>5. \A k : ValuesOf(u, s, o, k) = ValuesOf(t, s, o, k)
    BY <1>2, <1>3, ValuesPrefix
<1>6. Own(u, s, o, st)
    BY <1>5 DEF Sound, Own
<1> USE DEF u
<1> QED BY <1>1, <1>2, <1>4, <1>6 DEF Sound

\* And when the next event is absorbed.
LEMMA SoundAbsorb ==
    ASSUME NEW t \in Seq(Events), Len(t) <= MaxEvents,
           NEW s, NEW o, NEW st, Sound(t, s, o, st), o < Len(t)
    PROVE  Sound(t, s, o + 1, Absorb(st, t[o + 1]))
<1>1. s \in Nat /\ o \in Nat /\ s <= o /\ o + 1 <= Len(t) /\ o + 1 <= MaxEvents
    BY PipelineAssumption DEF Sound
<1>2. t[o + 1] \in Events
    BY <1>1, ElementOfSeq
<1>3. Fits(s, o + 1, Absorb(st, t[o + 1]))
    BY <1>1, <1>2, FitsAbsorb DEF Sound
<1>4. ReplayOf(t, s, o + 1) = Absorb(ReplayOf(t, s, o), t[o + 1])
    BY <1>1, ReplayOneMore
<1>5. Own(t, s, o + 1, Absorb(st, t[o + 1]))
    BY <1>1, OwnAbsorb DEF Sound, Fits
<1> QED BY <1>1, <1>3, <1>4, <1>5 DEF Sound

LEMMA SoundInit == Init => AllSound
<1> SUFFICES ASSUME Init PROVE AllSound
    OBVIOUS
<1>1. topic \in Seq(Events) /\ Len(topic) = 0
    BY DEF Init
<1>2. Sound(topic, 0, 0, NoState)
    <2>1. 0 \in 0..Len(topic)
        BY <1>1
    <2> QED BY <1>1, <2>1, SoundFresh
<1> QED BY <1>1, <1>2, PipelineAssumption DEF Init, AllSound

LEMMA SoundNext == IInv /\ AllSound /\ [Next]_vars => AllSound'
<1> SUFFICES ASSUME IInv, AllSound, [Next]_vars PROVE AllSound'
    OBVIOUS
<1>0. topic \in Seq(Events) /\ Len(topic) \in Nat
    BY DEF IInv
<1>1. ASSUME NEW e \in Events, Produce(e) PROVE AllSound'
    <2>1. /\ topic' = Append(topic, e) /\ Len(topic) < MaxEvents
          /\ UNCHANGED <<start, offset, state, pending, checkpoint>>
        BY <1>1 DEF Produce
    <2>2. Len(topic') <= MaxEvents
        BY <1>0, <2>1, PipelineAssumption
    <2>3. Sound(topic', start, offset, state)
        BY <1>0, <2>1, SoundAppend DEF AllSound
    <2>4. \A c \in {pending, checkpoint} \ {None} : Sound(topic', c.start, c.offset, c.state)
        BY <1>0, <2>1, SoundAppend DEF AllSound
    <2> QED BY <2>1, <2>2, <2>3, <2>4 DEF AllSound
<1>2. CASE Start
    <2>1. UNCHANGED <<topic, pending, checkpoint>>
        BY <1>2 DEF Start
    <2>2. Sound(topic, start', offset', state')
        <3>1. CASE checkpoint = None
            BY <1>0, <1>2, <3>1, SoundFresh DEF Start
        <3>2. CASE checkpoint # None
            BY <1>2, <3>2 DEF Start, AllSound
        <3> QED BY <3>1, <3>2
    <2> QED BY <2>1, <2>2 DEF AllSound
<1>3. CASE Process
    <2>1. /\ offset < Len(topic) /\ offset' = offset + 1
          /\ state' = Absorb(state, topic[offset + 1])
          /\ UNCHANGED <<topic, start, pending, checkpoint>>
        BY <1>3 DEF Process
    <2>2. Sound(topic, start, offset', state')
        BY <1>0, <2>1, SoundAbsorb DEF AllSound
    <2> QED BY <2>1, <2>2 DEF AllSound
<1>4. ASSUME NEW b \in buffer, Deliver(b) PROVE AllSound'
    BY <1>4 DEF Deliver, AllSound
<1>5. CASE Snapshot
    BY <1>5 DEF Snapshot, AllSound
<1>6. CASE Complete
    BY <1>6 DEF Complete, AllSound
<1>7. CASE Crash
    BY <1>7 DEF Crash, AllSound
<1>8. CASE UNCHANGED vars
    BY <1>8 DEF vars, AllSound
<1> QED
    BY <1>1, <1>2, <1>3, <1>4, <1>5, <1>6, <1>7, <1>8 DEF Next, Step

-----------------------------------------------------------------------------
\* Types that the invariants above leave open.
Shapes ==
    /\ crashes \in 0..MaxCrashes
    /\ buffer \subseteq Alerts /\ alerts \subseteq Alerts
    /\ \A a \in buffer : start < a.at
    /\ \A c \in {pending, checkpoint} \ {None} :
        c \in [start: Nat, offset: Nat, state: [Keys -> States], unflushed: SUBSET Alerts]

LEMMA ShapesNext == IInv /\ AllSound /\ Shapes /\ [Next]_vars => Shapes'
<1> SUFFICES ASSUME IInv, AllSound, Shapes, [Next]_vars PROVE Shapes'
    OBVIOUS
<1> USE DEF Shapes
<1>0. start \in Nat /\ offset \in Nat /\ start <= offset /\ Len(topic) \in Nat
      /\ Len(topic) <= MaxEvents /\ state \in [Keys -> States]
    BY DEF IInv, AllSound, Sound, Fits
<1>1. ASSUME NEW e \in Events, Produce(e) PROVE Shapes'
    BY <1>1 DEF Produce
<1>2. CASE Start
    <2>1. buffer = {} /\ buffer' = buffer
        BY <1>2 DEF Start, IInv, FailedIsEmpty
    <2> QED BY <1>2, <2>1 DEF Start
<1>3. CASE Process
    <2>1. /\ offset < Len(topic)
          /\ buffer' = buffer \cup AlertsOn(state, topic[offset + 1], offset + 1)
          /\ UNCHANGED <<start, pending, checkpoint, alerts, crashes>>
        BY <1>3 DEF Process
    <2>2. offset + 1 \in 1..MaxEvents
        BY <1>0, <2>1, PipelineAssumption
    <2>3. \A a \in AlertsOn(state, topic[offset + 1], offset + 1) :
            a \in Alerts /\ a.at = offset + 1
        BY <2>2, AlertsOnType, AlertsOnAt
    <2>4. \A a \in buffer' : a \in Alerts /\ start < a.at
        BY <1>0, <2>1, <2>3
    <2> QED BY <2>1, <2>4
<1>4. ASSUME NEW b \in buffer, Deliver(b) PROVE Shapes'
    BY <1>4 DEF Deliver
<1>5. CASE Snapshot
    <2>1. pending' = [start |-> start, offset |-> offset, state |-> state, unflushed |-> buffer]
        BY <1>5 DEF Snapshot
    <2>2. pending' \in [start: Nat, offset: Nat, state: [Keys -> States], unflushed: SUBSET Alerts]
        BY <1>0, <2>1
    <2> QED BY <1>5, <2>2 DEF Snapshot
<1>6. CASE Complete
    <2>1. /\ pending # None
          /\ checkpoint' = [start |-> pending.start, offset |-> pending.offset,
                            state |-> pending.state, unflushed |-> {}]
        BY <1>6 DEF Complete
    <2>2. checkpoint' \in [start: Nat, offset: Nat, state: [Keys -> States],
                           unflushed: SUBSET Alerts]
        BY <2>1
    <2> QED BY <1>6, <2>2 DEF Complete
<1>7. CASE Crash
    BY <1>7, PipelineAssumption DEF Crash
<1>8. CASE UNCHANGED vars
    BY <1>8 DEF vars
<1> QED
    BY <1>1, <1>2, <1>3, <1>4, <1>5, <1>6, <1>7, <1>8 DEF Next, Step

LEMMA TypeFollows == IInv /\ AllSound /\ Shapes => TypeOK
<1> SUFFICES ASSUME IInv, AllSound, Shapes PROVE TypeOK
    OBVIOUS
<1>1. /\ start \in 0..offset /\ offset \in 0..Len(topic)
      /\ state \in [Keys -> States]
      /\ \A k \in Keys : state[k].count + start <= offset /\ state[k].errors <= state[k].count
    BY DEF IInv, AllSound, Sound, Fits
<1>2. \A c \in {pending, checkpoint} \ {None} : c \in Checkpoints
    <2> SUFFICES ASSUME NEW c \in {pending, checkpoint} \ {None} PROVE c \in Checkpoints
        OBVIOUS
    <2>1. c \in [start: Nat, offset: Nat, state: [Keys -> States], unflushed: SUBSET Alerts]
        BY DEF Shapes
    <2>2. c.start \in 0..MaxEvents /\ c.offset \in 0..MaxEvents
        BY PipelineAssumption DEF IInv, AllSound, Sound
    <2> QED BY <2>1, <2>2 DEF Checkpoints
<1> QED BY <1>1, <1>2 DEF TypeOK, IInv, AllSound, Shapes, BufferIsRead

-----------------------------------------------------------------------------
(***************************************************************************)
(* Every alert on what a job has read is somewhere: a running job's in     *)
(* stream-alerts or in the sink's buffer, a pending checkpoint's in        *)
(* stream-alerts or among those the sink still owes it, and a complete     *)
(* one's in stream-alerts.                                                 *)
(***************************************************************************)
AlertsAreSomewhere ==
    /\ status = "running" => DueOf(topic, start, offset) \subseteq alerts \cup buffer
    /\ pending # None =>
        DueOf(topic, pending.start, pending.offset)
            \subseteq alerts \cup (buffer \cap pending.unflushed)
    /\ checkpoint # None => DueOf(topic, checkpoint.start, checkpoint.offset) \subseteq alerts

LEMMA SomewhereNext ==
    IInv /\ AllSound /\ AlertsAreSomewhere /\ [Next]_vars => AlertsAreSomewhere'
<1> SUFFICES ASSUME IInv, AllSound, AlertsAreSomewhere, [Next]_vars PROVE AlertsAreSomewhere'
    OBVIOUS
<1> USE DEF AlertsAreSomewhere
<1>0. topic \in Seq(Events) /\ Len(topic) \in Nat
    BY DEF IInv
<1>1. ASSUME NEW e \in Events, Produce(e) PROVE AlertsAreSomewhere'
    <2>1. /\ topic' = Append(topic, e)
          /\ UNCHANGED <<status, start, offset, buffer, pending, checkpoint, alerts>>
        BY <1>1 DEF Produce
    <2>2. DueOf(topic', start, offset) = DueOf(topic, start, offset)
        BY <1>0, <2>1, SoundAppend DEF AllSound
    <2>3. \A c \in {pending, checkpoint} \ {None} :
            DueOf(topic', c.start, c.offset) = DueOf(topic, c.start, c.offset)
        BY <1>0, <2>1, SoundAppend DEF AllSound
    <2> QED BY <2>1, <2>2, <2>3
<1>2. CASE Start
    <2>1. buffer = {} /\ pending = None
        BY <1>2 DEF Start, IInv, FailedIsEmpty
    <2>2. CASE checkpoint = None
        BY <1>0, <1>2, <2>1, <2>2, DueNone DEF Start
    <2>3. CASE checkpoint # None
        BY <1>2, <2>1, <2>3 DEF Start
    <2> QED BY <2>2, <2>3
<1>3. CASE Process
    <2> DEFINE raised == AlertsOn(state, topic[offset + 1], offset + 1)
    <2>1. /\ offset' = offset + 1 /\ status = "running"
          /\ buffer' = buffer \cup raised
          /\ UNCHANGED <<topic, status, start, pending, checkpoint, alerts>>
        BY <1>3 DEF Process
    <2>2. start \in Nat /\ offset \in Nat /\ start <= offset
          /\ state = ReplayOf(topic, start, offset)
        BY DEF AllSound, Sound
    <2>3. DueOf(topic, start, offset') = DueOf(topic, start, offset) \cup raised
        BY <2>1, <2>2, DueOneMore
    <2> HIDE DEF raised
    <2> QED BY <2>1, <2>3
<1>4. ASSUME NEW b \in buffer, Deliver(b) PROVE AlertsAreSomewhere'
    BY <1>4 DEF Deliver
<1>5. CASE Snapshot
    BY <1>5 DEF Snapshot
<1>6. CASE Complete
    BY <1>6 DEF Complete
<1>7. CASE Crash
    BY <1>7 DEF Crash
<1>8. CASE UNCHANGED vars
    BY <1>8 DEF vars
<1> QED
    BY <1>1, <1>2, <1>3, <1>4, <1>5, <1>6, <1>7, <1>8 DEF Next, Step

-----------------------------------------------------------------------------
LEMMA SomewhereInit == Init => AlertsAreSomewhere
<1> SUFFICES ASSUME Init PROVE AlertsAreSomewhere
    OBVIOUS
<1>1. status = "starting" /\ pending = None /\ checkpoint = None
    BY DEF Init
<1> QED BY <1>1 DEF AlertsAreSomewhere

LEMMA ShapesInit == Init => Shapes
BY PipelineAssumption DEF Init, Shapes

LEMMA Invariance == Spec => [](IInv /\ AllSound /\ Shapes /\ AlertsAreSomewhere)
<1>1. Init => IInv /\ AllSound /\ Shapes /\ AlertsAreSomewhere
    BY InvInit, SoundInit, ShapesInit, SomewhereInit
<1>2. IInv /\ AllSound /\ Shapes /\ AlertsAreSomewhere /\ [Next]_vars
        => (IInv /\ AllSound /\ Shapes /\ AlertsAreSomewhere)'
    BY InvNext, SoundNext, ShapesNext, SomewhereNext
<1> QED BY <1>1, <1>2, PTL DEF Spec

(***************************************************************************)
(* Offsets, states, alerts and checkpoints have their types, and a job's   *)
(* state has counted no more events than the job has read.                 *)
(***************************************************************************)
THEOREM TypeCorrect == Spec => []TypeOK
BY Invariance, TypeFollows, PTL

(***************************************************************************)
(* Wherever the job failed, and whichever checkpoint it came back from, its*)
(* keyed state is that of a job that read the same events in one go.       *)
(***************************************************************************)
THEOREM StateReplayed == Spec => []StateIsReplay
<1>1. AllSound => StateIsReplay
    BY ReplayIs DEF AllSound, Sound, StateIsReplay
<1> QED BY <1>1, Invariance, PTL

(***************************************************************************)
(* All the alerts an uninterrupted job raises on the events a complete     *)
(* checkpoint takes as read are in stream-alerts.                          *)
(***************************************************************************)
THEOREM CommittedAlertsDelivered == Spec => []CommittedAlertsAreOut
<1>1. AlertsAreSomewhere => CommittedAlertsAreOut
    BY DueIs DEF AlertsAreSomewhere, CommittedAlertsAreOut
<1> QED BY <1>1, Invariance, PTL

(***************************************************************************)
(* Whatever else arrives and wherever the job fails, the baseline of a     *)
(* metric is within the values of that metric, and its variance within     *)
(* what values of that range can have.                                     *)
(***************************************************************************)
THEOREM BaselineOfItsOwn == Spec => []BaselineIsItsOwn
<1>1. ASSUME IInv, AllSound, NEW e \in Events, e.kind = "metric"
      PROVE  LET b == state[KeyFor(e)]
                 seen == {topic[i].value : i \in {j \in (start + 1)..offset :
                            /\ topic[j].kind = "metric"
                            /\ topic[j].source = e.source /\ topic[j].name = e.name}}
             IN  /\ seen = {} <=> b.mean = None
                 /\ seen # {} => \E low, high \in seen :
                        /\ low * b.unit <= b.mean /\ b.mean <= high * b.unit
                        /\ 4 * b.variance <= Square((high - low) * b.unit)
    <2> DEFINE k == KeyFor(e)
               b == state[k]
               chosen == {j \in (start + 1)..offset :
                            /\ topic[j].kind = "metric"
                            /\ topic[j].source = e.source /\ topic[j].name = e.name}
               seen == {topic[i].value : i \in chosen}
    <2>1. k \in MetricKeys /\ k = <<e.source, e.name>>
        BY <1>1 DEF MetricKeys, KeyFor
    <2>2. chosen = Of(topic, start, offset, k)
        BY <2>1 DEF Of, KeyFor
    <2>3. seen = ValuesOf(topic, start, offset, k)
        BY <2>2, Zenon DEF ValuesOf
    <2>4. Baseline(b, seen)
        BY <1>1, <2>1, <2>3 DEF AllSound, Sound, Own
    <2>5. ASSUME NEW low \in seen, NEW high \in seen, Within(b, low, high), b.mean # None
          PROVE  4 * b.variance <= Square((high - low) * b.unit)
        <3> DEFINE x == high * b.unit - b.mean
                   y == b.mean - low * b.unit
        <3>1. b \in States /\ low \in Int /\ high \in Int
            <4>1. ValuesOf(topic, start, offset, k) \subseteq Int
                BY <1>1, ValuesAreNumbers DEF IInv, AllSound, Sound
            <4> QED BY <1>1, <2>1, <2>3, <4>1, MetricKeysAreKeys DEF AllSound, Sound, Fits
        <3>2. b.mean \in Int /\ b.variance \in Nat /\ b.unit \in Int
            BY <2>5, <3>1 DEF States
        <3> HIDE DEF b
        <3>3. x \in Nat /\ y \in Nat /\ b.variance <= x * y /\ x + y = (high - low) * b.unit
            BY <2>5, <3>1, <3>2 DEF Within
        <3> HIDE DEF x, y
        <3>4. 4 * (x * y) <= (x + y) * (x + y) /\ x * y \in Nat
            BY <3>3, FourTimes, NatProduct
        <3>5. 4 * b.variance <= 4 * (x * y)
            BY <3>2, <3>3, <3>4
        <3>6. (x + y) * (x + y) \in Int
            BY <3>3
        <3>7. 4 * b.variance <= (x + y) * (x + y)
            BY <3>2, <3>4, <3>5, <3>6
        <3> QED BY <3>3, <3>7 DEF Square
    <2> QED BY <2>4, <2>5 DEF Baseline, Within
<1>2. IInv /\ AllSound => BaselineIsItsOwn
    BY <1>1 DEF BaselineIsItsOwn
<1> QED BY <1>2, Invariance, PTL
==============================================================================
