---------------------------- MODULE StreamPipeline ----------------------------
(***************************************************************************)
(* The Flink job of StreamProcessorApp: stream-events is read from Kafka,  *)
(* deserialized, keyed, run through the AnomalyDetector, and the alerts    *)
(* are written to stream-alerts.  Flink takes a checkpoint now and then: a *)
(* consistent snapshot of the source's offset and the detector's state,    *)
(* complete once the sink has flushed the alerts from before it            *)
(* (DeliveryGuarantee.AT_LEAST_ONCE).  A failed job restarts from its last *)
(* complete checkpoint, and from the end of the topic if it has none       *)
(* (OffsetsInitializer.latest()).                                          *)
(*                                                                         *)
(* Kafka and Flink are outside; what the job asks of them is modelled.     *)
(* The topic has one partition: events of one key share a partition, and   *)
(* events of different keys do not meet in the detector.                   *)
(***************************************************************************)
EXTENDS AnomalyDetector, Sequences, FiniteSets

CONSTANTS
    Events,         \* the events the topic may hold
    MaxEvents,      \* bound: the length of the topic
    MaxCrashes      \* bound: the failures of the job

ASSUME PipelineAssumption == MaxEvents \in Nat /\ MaxCrashes \in Nat

\* A metric has a number, and a name other than the one that marks the key of the logs.
ASSUME EventsAssumption ==
    \A e \in Events : e.kind = "metric" => e.value \in Int /\ e.name # "log"

VARIABLES
    topic,          \* stream-events
    status,         \* of the job: "starting" or "running"
    start,          \* the offset its state and its alerts go back to
    offset,         \* of the source: the events read
    state,          \* the detector's keyed state
    buffer,         \* the alerts in the sink's producer, not acknowledged yet
    pending,        \* the checkpoint being taken, or None
    checkpoint,     \* the last complete one, or None
    alerts,         \* stream-alerts: [at, rule], at being the event's place in the topic
    crashes

vars == <<topic, status, start, offset, state, buffer, pending, checkpoint, alerts, crashes>>

\* StreamEventDeserializer: bytes that do not parse are counted, logged and dropped.
Collected(e) == e.kind # "corrupt"

Keys == {KeyFor(e) : e \in {x \in Events : Collected(x)}}

NoState == [k \in Keys |-> Fresh]

\* The state of all keys after e.
Absorb(st, e) ==
    IF Collected(e) THEN [st EXCEPT ![KeyFor(e)] = After(@, e)] ELSE st

\* The alerts on the n-th event e of the topic.
AlertsOn(st, e, n) ==
    IF Collected(e) THEN {[at |-> n, rule |-> r] : r \in Rules(st[KeyFor(e)], e)} ELSE {}

Init ==
    /\ topic = <<>>
    /\ status = "starting"
    /\ start = 0 /\ offset = 0 /\ state = NoState
    /\ buffer = {}
    /\ pending = None /\ checkpoint = None
    /\ alerts = {}
    /\ crashes = 0

-----------------------------------------------------------------------------
\* The simulator or another producer; it does not know of the job.
Produce(e) ==
    /\ Len(topic) < MaxEvents
    /\ topic' = Append(topic, e)
    /\ UNCHANGED <<status, start, offset, state, buffer, pending, checkpoint, alerts, crashes>>

\* A start from no checkpoint that leaves the keyed state as the failure left it.
StartKeepsState ==
    /\ status = "starting"
    /\ status' = "running"
    /\ IF checkpoint = None
       THEN start' = Len(topic) /\ offset' = Len(topic) /\ UNCHANGED state
       ELSE /\ start' = checkpoint.start
            /\ offset' = checkpoint.offset
            /\ state' = checkpoint.state
    /\ UNCHANGED <<topic, buffer, pending, checkpoint, alerts, crashes>>

\* The job starts from its last complete checkpoint, or from the end of the topic.
Start ==
    /\ status = "starting"
    /\ status' = "running"
    /\ IF checkpoint = None
       THEN start' = Len(topic) /\ offset' = Len(topic) /\ state' = NoState
       ELSE /\ start' = checkpoint.start
            /\ offset' = checkpoint.offset
            /\ state' = checkpoint.state
    /\ UNCHANGED <<topic, buffer, pending, checkpoint, alerts, crashes>>

\* A source that stops at a record it cannot parse.
ProcessUnlessCorrupt ==
    /\ status = "running" /\ offset < Len(topic)
    /\ LET e == topic[offset + 1]
       IN  /\ Collected(e)
           /\ offset' = offset + 1
           /\ state' = Absorb(state, e)
           /\ buffer' = buffer \cup AlertsOn(state, e, offset + 1)
    /\ UNCHANGED <<topic, status, start, pending, checkpoint, alerts, crashes>>

\* The next event goes through the source, the detector and into the sink's buffer.
Process ==
    /\ status = "running" /\ offset < Len(topic)
    /\ LET e == topic[offset + 1]
       IN  /\ offset' = offset + 1
           /\ state' = Absorb(state, e)
           /\ buffer' = buffer \cup AlertsOn(state, e, offset + 1)
    /\ UNCHANGED <<topic, status, start, pending, checkpoint, alerts, crashes>>

\* Kafka acknowledges an alert of the sink.
Deliver(a) ==
    /\ status = "running" /\ a \in buffer
    /\ alerts' = alerts \cup {a}
    /\ buffer' = buffer \ {a}
    /\ UNCHANGED <<topic, status, start, offset, state, pending, checkpoint, crashes>>

\* A checkpoint that holds the source's offset and forgets the detector's state.
SnapshotOffsetOnly ==
    /\ status = "running" /\ pending = None
    /\ pending' = [start |-> start, offset |-> offset, state |-> NoState, unflushed |-> buffer]
    /\ UNCHANGED <<topic, status, start, offset, state, buffer, checkpoint, alerts, crashes>>

\* The barrier of a checkpoint passes: what is behind it is what the checkpoint will hold.
Snapshot ==
    /\ status = "running" /\ pending = None
    /\ pending' = [start |-> start, offset |-> offset, state |-> state, unflushed |-> buffer]
    /\ UNCHANGED <<topic, status, start, offset, state, buffer, checkpoint, alerts, crashes>>

\* A checkpoint that does not wait for the sink (DeliveryGuarantee.NONE).
CompleteUnflushed ==
    /\ status = "running" /\ pending # None
    /\ checkpoint' = pending /\ pending' = None
    /\ UNCHANGED <<topic, status, start, offset, state, buffer, alerts, crashes>>

\* The sink has flushed what it had at the barrier; the checkpoint is complete.
Complete ==
    /\ status = "running" /\ pending # None
    /\ pending.unflushed \cap buffer = {}
    /\ checkpoint' = [start |-> pending.start, offset |-> pending.offset,
                      state |-> pending.state, unflushed |-> {}]
    /\ pending' = None
    /\ UNCHANGED <<topic, status, start, offset, state, buffer, alerts, crashes>>

\* The job fails: what is only in its memory is gone.
Crash ==
    /\ status = "running" /\ crashes < MaxCrashes
    /\ status' = "starting" /\ crashes' = crashes + 1
    /\ buffer' = {} /\ pending' = None
    /\ UNCHANGED <<topic, start, offset, state, checkpoint, alerts>>

Step == Start \/ Process \/ (\E a \in buffer : Deliver(a)) \/ Snapshot \/ Complete

Next == (\E e \in Events : Produce(e)) \/ Step \/ Crash

Spec == Init /\ [][Next]_vars

\* Flink runs the job and its checkpoints; nobody has to produce, or to fail.
FairSpec ==
    /\ Spec
    /\ WF_vars(Start) /\ WF_vars(Process) /\ WF_vars(\E a \in buffer : Deliver(a))
    /\ WF_vars(Snapshot) /\ WF_vars(Complete)

-----------------------------------------------------------------------------
\* The detector's state after reading the events from + 1 to n of the topic, one by one.
Replay(from, n) ==
    LET f[i \in from..n] == IF i = from THEN NoState ELSE Absorb(f[i - 1], topic[i])
    IN  f[n]

\* The alerts an uninterrupted job raises on those events.
Due(from, n) == UNION {AlertsOn(Replay(from, i - 1), topic[i], i) : i \in (from + 1)..n}

States ==
    [mean: Int \cup {None}, variance: Nat, unit: Nat \ {0},
     count: 0..MaxEvents, errors: 0..MaxEvents]

Alerts == [at: 1..MaxEvents, rule: {"threshold", "baseline_deviation", "error_rate_high"}]

Checkpoints ==
    [start: 0..MaxEvents, offset: 0..MaxEvents, state: [Keys -> States],
     unflushed: SUBSET Alerts]

TypeOK ==
    /\ topic \in Seq(Events) /\ Len(topic) <= MaxEvents
    /\ status \in {"starting", "running"}
    /\ start \in 0..offset /\ offset \in 0..Len(topic)
    /\ state \in [Keys -> States]
    /\ \A k \in Keys : state[k].count + start <= offset /\ state[k].errors <= state[k].count
    /\ buffer \subseteq Alerts /\ alerts \subseteq Alerts
    /\ \A a \in buffer : start < a.at /\ a.at <= offset
    /\ {pending, checkpoint} \subseteq Checkpoints \cup {None}
    /\ crashes \in 0..MaxCrashes

(***************************************************************************)
(* Whatever failed before, a running job's state is that of a job that     *)
(* read the same events without interruption: the offset and the state it  *)
(* restores belong together (enableCheckpointing, the keyed ValueStates).  *)
(***************************************************************************)
StateIsReplay == status = "running" => state = Replay(start, offset)

(***************************************************************************)
(* The baseline of a metric is about that metric of that source and no     *)
(* other: its mean lies between the least and the greatest value seen, and *)
(* its variance is at most the square of half their distance (keyFor and   *)
(* the weighted update of processMetric).                                  *)
(***************************************************************************)
BaselineIsItsOwn ==
    status = "running" =>
        \A e \in Events : e.kind = "metric" =>
            LET s == state[KeyFor(e)]
                seen == {topic[i].value : i \in {j \in (start + 1)..offset :
                            /\ topic[j].kind = "metric"
                            /\ topic[j].source = e.source /\ topic[j].name = e.name}}
            IN  /\ seen = {} <=> s.mean = None
                /\ seen # {} => \E low, high \in seen :
                        /\ low * s.unit <= s.mean /\ s.mean <= high * s.unit
                        /\ 4 * s.variance <= Square((high - low) * s.unit)

(***************************************************************************)
(* A checkpoint commits to nothing that may still be lost: the alerts on   *)
(* all the events it takes as read are in stream-alerts (the sink's        *)
(* AT_LEAST_ONCE guarantee).                                               *)
(***************************************************************************)
CommittedAlertsAreOut ==
    checkpoint # None => Due(checkpoint.start, checkpoint.offset) \subseteq alerts

(***************************************************************************)
(* A checkpoint completes in the end, and from then on every alert on an   *)
(* event since the job's start reaches stream-alerts, through failures and *)
(* records that do not parse.                                              *)
(***************************************************************************)
AlertsDelivered ==
    <>[](checkpoint # None /\ Due(checkpoint.start, Len(topic)) \subseteq alerts)

(***************************************************************************)
(* With a checkpoint, an alert that leaves the sink's buffer, by a failure *)
(* or otherwise, is in stream-alerts, or it is on an event the job goes    *)
(* back to.                                                                *)
(***************************************************************************)
AlertsSurviveFailures ==
    [][checkpoint' # None =>
        \A a \in buffer : a \in buffer' \cup alerts' \/ a.at > checkpoint'.offset]_vars

(***************************************************************************)
(* StreamProcessorApp.java: "At-least-once so alerts aren't dropped on     *)
(* failure/restart (checkpointing is on)".  An alert that leaves the       *)
(* sink's buffer is in stream-alerts, or the job will go back and raise it *)
(* again.  A job that fails before its first checkpoint does not.          *)
(***************************************************************************)
RestartOffset == IF checkpoint = None THEN Len(topic) ELSE checkpoint.offset

AlertsAreNotDropped ==
    [][\A a \in buffer : a \in buffer' \cup alerts' \/ a.at > RestartOffset']_vars
==============================================================================
