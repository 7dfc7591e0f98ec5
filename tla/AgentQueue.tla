----------------------------- MODULE AgentQueue -----------------------------
(***************************************************************************)
(* The Agent's side of the event channel: EventQueue of core/protocol.py   *)
(* over the durable counter that StateSession models.  The queue and the   *)
(* offered highwater live in memory; the counter and the stream survive.   *)
(***************************************************************************)
EXTENDS Integers, FiniteSets, FiniteSetsExt

CONSTANTS
    MaxId,          \* MAX_EVENT_ID
    QueueMax,       \* EventQueue's max_size
    MaxBoot,        \* bound: starts of the Agent
    MaxStream,      \* bound: lineages created by initialize
    MaxRollback     \* bound: times an old backup of both records is restored

ASSUME QueueAssumption == MaxId \in Nat \ {0} /\ QueueMax \in Nat \ {0}
ASSUME AgentBounds == {MaxBoot, MaxStream} \subseteq Nat \ {0} /\ MaxRollback \in Nat

VARIABLES
    up,             \* the Agent runs
    stream,         \* stream_id of the records
    next,           \* next_event_id of the records
    boot,           \* boot_id of this run, or of the last one
    floor,          \* _resume_floor
    offered,        \* _offered_highwater
    queue,          \* ids in _queue
    issued,         \* history: every event made visible
    lost,           \* history: events that left the queue unasked
    rollbacks       \* counts Rollback, bounded by MaxRollback

agentVars == <<up, stream, next, boot, floor, offered, queue, issued, lost, rollbacks>>

-----------------------------------------------------------------------------
Streams == 1 .. MaxStream
Boots == 1 .. MaxBoot
Ids == 1 .. MaxId

\* An event is told apart by where it was issued: after a rollback the same
\* id of the same stream names another event.
Event == [stream : Streams, boot : Boots, id : Ids]

Here(i) == [stream |-> stream, boot |-> boot, id |-> i]
HeldEvents == {Here(i) : i \in queue}

\* _cursor_locked: what /status and /events report of the queue.
CurrentCursor ==
    [stream |-> stream, boot |-> boot, floor |-> floor, offered |-> offered, next |-> next]

\* A paired Agent that has issued and offered n events in this run; the last
\* reader may not have acknowledged them yet.
AgentInit(n) ==
    /\ up = TRUE
    /\ stream = 1 /\ boot = 1
    /\ next = n + 1
    /\ floor = 0
    /\ offered = n
    /\ queue \in {{}, 1 .. n}
    /\ issued = {Here(i) : i \in 1 .. n}
    /\ lost = {}
    /\ rollbacks = 0

\* EventQueue.add: durable before visible, and the oldest give way.
Emit ==
    /\ up
    /\ next <= MaxId
    /\ next' = next + 1
    /\ LET all == queue \cup {next}
           old == IF Cardinality(all) > QueueMax THEN {Min(all)} ELSE {}
       IN  /\ queue' = all \ old
           /\ lost' = lost \cup {Here(i) : i \in old}
    /\ issued' = issued \cup {Here(next)}
    /\ UNCHANGED <<up, stream, boot, floor, offered, rollbacks>>

\* The process ends, perhaps after an id was reserved and before its event
\* was visible.
AgentStop ==
    /\ up
    /\ up' = FALSE
    /\ next' \in {next} \cup ({next + 1} \cap 1 .. MaxId + 1)
    /\ lost' = lost \cup HeldEvents
    /\ queue' = {} /\ floor' = 0 /\ offered' = 0
    /\ UNCHANGED <<stream, boot, issued, rollbacks>>

\* EventQueue.__init__ on an opened session.
AgentStart ==
    /\ ~up /\ boot < MaxBoot /\ next <= MaxId
    /\ up' = TRUE
    /\ boot' = boot + 1
    /\ floor' = next - 1
    /\ offered' = floor'
    /\ UNCHANGED <<stream, next, queue, issued, lost, rollbacks>>

\* agent-state initialize: a stopped Agent gets a new stream.
NewPairing ==
    /\ ~up /\ stream < MaxStream
    /\ stream' = stream + 1
    /\ next' = 1
    /\ UNCHANGED <<up, boot, floor, offered, queue, issued, lost, rollbacks>>

\* Both records are restored together from an old backup.
Rollback ==
    /\ ~up /\ rollbacks < MaxRollback
    /\ next' \in 1 .. next - 1
    /\ rollbacks' = rollbacks + 1
    /\ UNCHANGED <<up, stream, boot, floor, offered, queue, issued, lost>>

-----------------------------------------------------------------------------
(* GET /events.                                                            *)

\* _payload_locked: an acknowledgement beyond what was offered is refused.
AckAdmitted(ack) == -1 <= ack /\ ack <= Max({floor, offered})

\* network_payload: the reader must name this stream and this run.
SameRun(m) == m.stream = stream /\ m.boot = boot

\* Mutation of Serve: the reply itself clears the queue.
ServeClearing(ack) ==
    LET rest == {i \in queue : i > ack}
    IN  /\ queue' = {}
        /\ offered' = Max({offered} \cup rest)
        /\ UNCHANGED <<up, stream, next, boot, floor, issued, lost, rollbacks>>

\* payload(ack): trim what is acknowledged, offer the rest, keep it.
Serve(ack) ==
    LET rest == {i \in queue : i > ack}
    IN  /\ queue' = rest
        /\ offered' = Max({offered} \cup rest)
        /\ UNCHANGED <<up, stream, next, boot, floor, issued, lost, rollbacks>>

\* payload(None): a legacy reader takes the queue with it.
LegacyRead ==
    /\ up /\ queue # {}
    /\ queue' = {}
    /\ offered' = Max({offered} \cup queue)
    /\ lost' = lost \cup HeldEvents
    /\ UNCHANGED <<up, stream, next, boot, floor, issued, rollbacks>>

AgentTypeOK ==
    /\ up \in BOOLEAN
    /\ stream \in Streams /\ boot \in Boots
    /\ next \in 1 .. MaxId + 1
    /\ floor \in 0 .. MaxId /\ offered \in 0 .. MaxId
    /\ queue \in SUBSET Ids
    /\ issued \in SUBSET Event /\ lost \in SUBSET Event
    /\ rollbacks \in 0 .. MaxRollback
    /\ up => floor <= offered /\ offered < next   \* what parse_cursor demands
=============================================================================
