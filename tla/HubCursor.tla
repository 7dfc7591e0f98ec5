----------------------------- MODULE HubCursor ------------------------------
(***************************************************************************)
(* The Hub's side of the event channel: what hub/server/store.py keeps of  *)
(* one Agent (registration, cursor binding, acknowledgement, consumed      *)
(* highwater, events, outbox) and what hub/server/poller.py remembers.     *)
(* Every action is one transaction or one step of the poller's thread; the *)
(* API thread's edits may come between any two.                            *)
(***************************************************************************)
EXTENDS AgentQueue

CONSTANTS
    BodyMax,        \* EVENT_BYTES, in events: the longest reply read
    Malformed,      \* ids whose event decode_events refuses
    MaxReg,         \* bound: registrations of this Agent
    MaxFault        \* bound: Hub crashes, disk faults and damaged values

ASSUME HubAssumption == BodyMax \in Nat /\ Malformed \in SUBSET Nat
ASSUME HubBounds == MaxReg \in Nat \ {0} /\ MaxFault \in Nat

VARIABLES
    hubUp,          \* the Hub runs
    server,         \* registered server_id, 0 when removed
    lastReg,        \* AUTOINCREMENT of servers.id
    enabled,        \* servers.enabled
    binding,        \* row of event_cursors
    ackDisk,        \* its entry of last_event_ids in config
    consumed,       \* row of upstream_consumed
    stored,         \* rows of events
    outbox,         \* event ids with a row in delivery_outbox
    ackMem,         \* its entry of Poller.last_event_ids
    poll,           \* the poller's thread: where it stands, what it read
    recorded,       \* history: events ever stored
    receipts,       \* history: events refused with a quarantine receipt
    enqueued,       \* history: ids this registration put into the outbox
    faults          \* bounded by MaxFault

durable == <<server, lastReg, enabled, binding, ackDisk, consumed, stored, outbox>>
hubHistory == <<recorded, receipts, enqueued>>
hubVars == <<hubUp, durable, ackMem, poll, hubHistory, faults>>

-----------------------------------------------------------------------------
Absent == -2        \* the map has no entry
Damaged == -3       \* the config value does not parse

Binding == [state : {"fresh", "unverified", "bound"}, stream : 0 .. MaxStream,
            boot : 0 .. MaxBoot, floor : -1 .. MaxId]

Unbound(state, s) == [state |-> state, stream |-> s, boot |-> 0, floor |-> -1]

Bound(c) == [state |-> "bound", stream |-> c.stream, boot |-> c.boot, floor |-> c.floor]

NothingConsumed == [stream |-> 0, high |-> -1]
Idle == [pc |-> "idle"]

\* Mutation of FloorOver: the stored rows and the outbox are not looked at.
FloorWithoutRows(ack) == Max({-1, ack, consumed.high})

\* event_floor: nothing at or below it was left unread.
FloorOver(ack) == Max({-1, ack, consumed.high} \cup {e.id : e \in stored} \cup outbox)

\* ... which is refused while the consumed highwater is of another stream.
FloorReadable == consumed = NothingConsumed \/ consumed.stream = binding.stream

-----------------------------------------------------------------------------
(* Poller._admit_cursor.  Each disjunct is one admitted branch: the        *)
(* acknowledgement it leaves, and the event_floor it was judged by.        *)

\* Mutation of SameBinding: a new run is taken as it comes.
SameBindingTrusting(c, f) ==
    /\ binding.state = "bound"
    /\ binding.stream = c.stream
    /\ binding.boot = c.boot => binding.floor = c.floor

\* The bound stream: a new run must resume past the floor, the same run must
\* have offered it.
SameBinding(c, f) ==
    /\ binding.state = "bound"
    /\ binding.stream = c.stream
    /\ IF binding.boot # c.boot THEN c.floor >= f
       ELSE binding.floor = c.floor /\ c.offered >= f

\* A registration without a bound stream that has read something before.
Adoptable(c, f) ==
    /\ binding.state # "bound" /\ f # -1
    /\ binding.stream # c.stream => c.floor >= f
    /\ c.offered >= f

\* A registration that has read nothing starts from the beginning.
Unread(f) == binding.state # "bound" /\ f = -1

Admissible(c, f) ==
    /\ FloorReadable
    /\ \/ SameBinding(c, f) /\ (ackMem = Absent => c.offered >= f)
       \/ Adoptable(c, f)
       \/ Unread(f)

\* What last_event_ids holds after admission.
AckAfter(f) == IF binding.state = "bound" /\ ackMem # Absent THEN ackMem ELSE f

\* commit_event_cursor, skipped when it would change nothing.  It fails for
\* a server that is gone, and it replaces a config found damaged at start.
BindTo(c, f) ==
    LET a == AckAfter(f)
        same == binding = Bound(c) /\ ackMem # Absent
    IN  /\ binding' = Bound(c)
        /\ ackMem' = a
        /\ ackDisk' = IF same THEN ackDisk ELSE a
        /\ UNCHANGED <<server, lastReg, enabled, consumed, stored, outbox>>

-----------------------------------------------------------------------------
(* HubStore.commit_upstream_batch, one transaction.                        *)

CommitAdmitted(p) ==
    /\ poll.reg = server
    /\ binding = Bound(p)
    /\ ackDisk # Damaged
    /\ FloorReadable
    /\ p.offered >= FloorOver(ackDisk)

\* Events beyond the floor; a malformed one is replaced by its receipt.
NewRows(events, f) == {e \in events : e.id > f /\ e.id \notin Malformed}

\* Mutation of Refused: a malformed event is skipped without a receipt.
RefusedSilently(events, f) == {e \in events : e.id <= f /\ e \notin stored}

\* Events at or below the floor that differ from the row kept for the id, and
\* malformed ones, leave a receipt.
Refused(events, f) ==
    {e \in events : e.id \in Malformed \/ (e.id <= f /\ e \notin stored)}

\* Mutation of CommitBatch: rows and acknowledgement are separate commits and
\* the acknowledgement comes first.
CommitAckOnly(events, p, active) ==
    /\ ackDisk' = p.offered /\ ackMem' = p.offered
    /\ consumed' = [stream |-> p.stream, high |-> p.offered]
    /\ UNCHANGED <<server, lastReg, enabled, binding, stored, outbox, hubHistory>>

CommitBatch(events, p, active) ==
    LET f == FloorOver(ackDisk)
        new == NewRows(events, f)
    IN  /\ stored' = stored \cup new
        /\ recorded' = recorded \cup new
        /\ receipts' = receipts \cup Refused(events, f)
        /\ outbox' = IF active THEN outbox \cup {e.id : e \in new} ELSE outbox
        /\ enqueued' = enqueued \cup outbox'
        /\ consumed' = [stream |-> p.stream, high |-> p.offered]
        /\ ackDisk' = p.offered /\ ackMem' = p.offered
        /\ UNCHANGED <<server, lastReg, enabled, binding>>

-----------------------------------------------------------------------------
(* The API thread and the delivery worker.                                 *)

Register ==
    /\ hubUp /\ server = 0 /\ lastReg < MaxReg
    /\ server' = lastReg + 1 /\ lastReg' = lastReg + 1
    /\ enabled' = TRUE
    /\ binding' = Unbound("fresh", 0)
    /\ UNCHANGED <<hubUp, ackDisk, consumed, stored, outbox, ackMem, poll, hubHistory, faults>>

\* remove_server: the child rows go with it.  Its entry stays in the
\* acknowledgement maps, under an id that is never given out again.
Remove ==
    /\ hubUp /\ server # 0
    /\ server' = 0
    /\ enabled' = FALSE
    /\ binding' = Unbound("unverified", 0)
    /\ consumed' = NothingConsumed
    /\ stored' = {} /\ outbox' = {} /\ enqueued' = {}
    /\ ackMem' = Absent
    /\ ackDisk' = IF ackDisk = Damaged THEN Damaged ELSE Absent
    /\ UNCHANGED <<hubUp, lastReg, poll, recorded, receipts, faults>>

SetEnabled ==
    /\ hubUp /\ server # 0
    /\ enabled' = ~enabled
    /\ UNCHANGED <<hubUp, server, lastReg, binding, ackDisk, consumed, stored, outbox,
                   ackMem, poll, hubHistory, faults>>

\* complete_delivery, or pruning: the outbox row is gone.
Delivered ==
    /\ hubUp /\ outbox # {}
    /\ outbox' = outbox \ {Min(outbox)}
    /\ UNCHANGED <<hubUp, server, lastReg, enabled, binding, ackDisk, consumed, stored,
                   ackMem, poll, hubHistory, faults>>

-----------------------------------------------------------------------------
(* Start, crash, and the offline tool.                                     *)

\* Poller._load_acks: a damaged config is an empty map.
HubStart ==
    /\ ~hubUp
    /\ hubUp' = TRUE
    /\ ackMem' = IF ackDisk = Damaged THEN Absent ELSE ackDisk
    /\ UNCHANGED <<durable, poll, hubHistory, faults>>

\* hub-cursor adopt-event-cursor: the record of a stopped Agent, exported
\* when its next id was n, is bound without a run.
AdoptOffline(n) ==
    LET f == FloorOver(IF ackDisk = Damaged THEN Absent ELSE ackDisk)
    IN  /\ ~hubUp /\ server # 0 /\ ~enabled
        /\ FloorReadable
        /\ binding.stream \in {0, stream}
        \* every stream after the first comes from a new pairing
        /\ stream > 1 => binding.state = "fresh" \/ binding.stream = stream
        /\ n > f
        /\ binding' = Unbound("bound", stream)
        /\ ackDisk' = f
        /\ UNCHANGED <<hubUp, server, lastReg, enabled, consumed, stored, outbox,
                       ackMem, poll, hubHistory, faults>>

\* The config value of the acknowledgements is damaged from outside.
DamageAcks ==
    /\ faults < MaxFault
    /\ ackDisk' = Damaged
    /\ faults' = faults + 1
    /\ UNCHANGED <<hubUp, server, lastReg, enabled, binding, consumed, stored, outbox,
                   ackMem, poll, hubHistory>>

\* A fresh Hub, or one upgraded with n events of the Agent's first stream
\* already read, whose history may or may not tell the stream.
HubInit(n) ==
    /\ hubUp = TRUE
    /\ \/ /\ n = 0
          /\ server = 0 /\ lastReg = 0 /\ enabled = FALSE
          /\ binding = Unbound("unverified", 0)
          /\ ackDisk = Absent
       \/ /\ server = 1 /\ lastReg = 1 /\ enabled = TRUE
          /\ binding \in {Unbound("unverified", s) : s \in 0 .. 1}
          /\ ackDisk \in {Absent, IF n = 0 THEN -1 ELSE n}
    /\ ackMem = ackDisk
    /\ consumed = NothingConsumed
    /\ stored = {Here(i) : i \in 1 .. n}
    /\ recorded = stored
    /\ outbox = {} /\ enqueued = 1 .. n      \* the old Hub delivered them
    /\ receipts = {}
    /\ poll = Idle
    /\ faults = 0

HubTypeOK ==
    /\ hubUp \in BOOLEAN
    /\ lastReg \in 0 .. MaxReg /\ server \in {0, lastReg}
    /\ enabled \in BOOLEAN
    /\ binding \in Binding
    /\ ackDisk \in Damaged .. MaxId /\ ackMem \in Absent .. MaxId
    /\ consumed \in [stream : 0 .. MaxStream, high : -1 .. MaxId]
    /\ stored \in SUBSET Event /\ recorded \in SUBSET Event /\ receipts \in SUBSET Event
    /\ outbox \in SUBSET Ids /\ enqueued \in SUBSET Ids
    /\ faults \in 0 .. MaxFault
=============================================================================
