---------------------------- MODULE EventChannel ----------------------------
(***************************************************************************)
(* One Agent, one Hub and the network between them.  A poll reads the      *)
(* cursor with /status, admits it, asks for the events beyond the durable  *)
(* acknowledgement, checks the proof in the reply and commits the batch.   *)
(* A request the Hub gave up on may still reach the Agent, in any run.     *)
(***************************************************************************)
EXTENDS HubCursor

CONSTANTS
    MaxLate,        \* bound: abandoned requests still under way
    MaxUpheaval     \* bound: registrations, lineages and rollbacks, all together

VARIABLES
    net,            \* requests under way
    reply           \* what the helper holds for the poller, or NoReply

vars == <<agentVars, hubVars, net, reply>>

NoReply == [kind |-> "none"]
Refusal == [kind |-> "refused"]
Answer(events, proof) == [kind |-> "events", events |-> events, proof |-> proof]

Request == [ack : -1 .. MaxId, stream : Streams, boot : Boots, live : BOOLEAN]
Cursor == [stream : Streams, boot : Boots, floor : 0 .. MaxId, offered : 0 .. MaxId,
           next : 1 .. MaxId + 1]

Init ==
    /\ \E n \in 0 .. 1 : AgentInit(n) /\ HubInit(n)
    /\ net = {}
    /\ reply = NoReply

\* A request that nobody waits for any more.
Abandoned == {[m EXCEPT !.live = FALSE] : m \in net}

\* The poller gives up; what it asked is lost, or late.
GiveUp ==
    /\ poll' = Idle
    /\ reply' = NoReply
    /\ net' \in {n \in SUBSET Abandoned : Cardinality(n) <= MaxLate}

-----------------------------------------------------------------------------
(* The poller.                                                             *)

\* poll_once and fetch_status: an enabled server that answers.
PollStatus ==
    /\ hubUp /\ poll = Idle /\ server # 0 /\ enabled
    /\ up
    /\ poll' = [pc |-> "admit", reg |-> server, cur |-> CurrentCursor]
    /\ UNCHANGED <<agentVars, hubUp, durable, ackMem, hubHistory, faults, net, reply>>

\* _admit_cursor and the request that follows.
Admit ==
    /\ hubUp /\ poll.pc = "admit"
    /\ LET f == FloorOver(ackMem)
       IN  /\ poll.reg = server
           /\ Admissible(poll.cur, f)
           /\ BindTo(poll.cur, f)
           /\ net' = net \cup {[ack |-> AckAfter(f), stream |-> poll.cur.stream,
                                boot |-> poll.cur.boot, live |-> TRUE]}
    /\ poll' = [poll EXCEPT !.pc = "wait"]
    /\ UNCHANGED <<agentVars, hubUp, hubHistory, faults, reply>>

\* The channel pauses: a cursor refused, or a server that is gone.
Refuse ==
    /\ hubUp /\ poll.pc = "admit"
    /\ poll.reg # server \/ ~Admissible(poll.cur, FloorOver(ackMem))
    /\ poll' = Idle
    /\ UNCHANGED <<agentVars, hubUp, durable, ackMem, hubHistory, faults, net, reply>>

\* The request reaches the Agent, in this run or a later one.
AgentServe(m) ==
    /\ up
    /\ net' = net \ {m}
    /\ \/ /\ SameRun(m) /\ AckAdmitted(m.ack)
          /\ Serve(m.ack)
          /\ reply' = IF m.live THEN Answer({e \in HeldEvents : e.id > m.ack}, CurrentCursor')
                      ELSE reply
       \/ /\ ~(SameRun(m) /\ AckAdmitted(m.ack))
          /\ reply' = IF m.live THEN Refusal ELSE reply
          /\ UNCHANGED agentVars
    /\ UNCHANGED hubVars

\* fetch_events: the reply is of the run that was admitted.
ProofHolds(p) ==
    LET c == poll.cur
    IN  /\ p.stream = c.stream /\ p.boot = c.boot /\ p.floor = c.floor
        /\ p.next >= c.next /\ p.offered >= c.offered

\* decode_events: an envelope over the cap is refused whole.
Readable(r) ==
    /\ r.kind = "events"
    /\ Cardinality(r.events) <= BodyMax
    /\ ProofHolds(r.proof)

\* _poll_server: the batch becomes durable, or nothing of it does.
Commit ==
    /\ hubUp /\ poll.pc = "wait"
    /\ Readable(reply) /\ CommitAdmitted(reply.proof)
    /\ \E active \in BOOLEAN : CommitBatch(reply.events, reply.proof, active)
    /\ poll' = Idle
    /\ reply' = NoReply
    /\ UNCHANGED <<agentVars, hubUp, faults, net>>

\* Mutation of Reject: the error path does not end the poll.
RejectHanging ==
    /\ hubUp /\ poll.pc = "wait" /\ reply # NoReply
    /\ ~(Readable(reply) /\ CommitAdmitted(reply.proof))
    /\ reply' = NoReply
    /\ UNCHANGED <<agentVars, hubVars, net>>

\* The reply is refused, by the helper, the proof or the store.
Reject ==
    /\ hubUp /\ poll.pc = "wait" /\ reply # NoReply
    /\ ~(Readable(reply) /\ CommitAdmitted(reply.proof))
    /\ GiveUp
    /\ UNCHANGED <<agentVars, hubUp, durable, ackMem, hubHistory, faults>>

\* No reply within the budget, or a reply that is lost or not committed.
Timeout ==
    /\ hubUp /\ poll.pc = "wait"
    /\ faults < MaxFault
    /\ faults' = faults + 1
    /\ GiveUp
    /\ UNCHANGED <<agentVars, hubUp, durable, ackMem, hubHistory>>

HubCrash ==
    /\ hubUp /\ faults < MaxFault
    /\ hubUp' = FALSE
    /\ ackMem' = Absent
    /\ faults' = faults + 1
    /\ GiveUp
    /\ UNCHANGED <<agentVars, durable, hubHistory>>

-----------------------------------------------------------------------------
AgentStep == Emit \/ AgentStop \/ AgentStart \/ NewPairing \/ Rollback \/ LegacyRead

OperatorStep ==
    \/ Register \/ Remove \/ SetEnabled \/ Delivered \/ HubStart \/ DamageAcks
    \/ (~up /\ \E n \in 1 .. next : AdoptOffline(n))

Next ==
    /\ \/ AgentStep /\ UNCHANGED <<hubVars, net, reply>>
       \/ OperatorStep /\ UNCHANGED <<agentVars, net, reply>>
       \/ PollStatus \/ Admit \/ Refuse
       \/ \E m \in net : AgentServe(m)
       \/ Commit \/ Reject \/ Timeout \/ HubCrash
    /\ lastReg' + stream' + rollbacks' <= MaxUpheaval

Spec == Init /\ [][Next]_vars

-----------------------------------------------------------------------------
TypeOK ==
    /\ AgentTypeOK
    /\ HubTypeOK
    /\ poll = Idle \/ poll \in [pc : {"admit", "wait"}, reg : 1 .. MaxReg, cur : Cursor]
    /\ net \in SUBSET Request
    /\ \/ reply \in {NoReply, Refusal}
       \/ reply \in [kind : {"events"}, events : SUBSET Event, proof : Cursor]

\* No event is lost unnoticed: an event the Agent made visible is still in
\* its queue, or the Hub stored it or holds a receipt for it, or the Agent
\* itself let it go (protocol.py, _payload_locked trims what is acknowledged).
NoLoss == issued \subseteq HeldEvents \cup recorded \cup receipts \cup lost

\* The acknowledgement a request carries is one the Agent it was meant for
\* accepts, however late it arrives (poller.py _admit_cursor, "The agent
\* refuses an ack above what it has offered").
AckHonoured == \A m \in net : up /\ SameRun(m) => AckAdmitted(m.ack)

\* The Hub never holds two events under one id, so INSERT OR IGNORE never
\* swallows one (store.py, commit_upstream_batch), rollbacks included.
OneEventPerId == \A d, e \in stored : d.id = e.id => d = e

\* What the acknowledgement covers is accounted for: nothing of the run the
\* registration is bound to is skipped (store.py, event_floor).
AckCovers ==
    \A e \in issued :
        /\ e.stream = binding.stream /\ e.boot = binding.boot
        /\ e.id <= FloorOver(ackDisk)
        => e \in recorded \cup receipts \cup lost

\* An event of a registration is put into the outbox at most once, whatever
\* was delivered, repeated or restarted since (dedupe_key, commit_upstream_batch).
EnqueuedOnce == [][(outbox' \ outbox) \cap enqueued = {}]_vars

\* The channel as a whole is an at-least-once hand-over.
Handoff == INSTANCE EventHandoff
    WITH held <- HeldEvents, kept <- recorded \cup receipts, dropped <- lost
HandoffSpec == Handoff!Spec

-----------------------------------------------------------------------------
\* The poller's thread runs while the Hub is up, the Agent's server answers
\* what it receives, and both programs are started again.
Progress ==
    \/ PollStatus \/ Admit \/ Refuse \/ Commit \/ Reject
    \/ \E m \in net : AgentServe(m)
    \/ HubStart /\ UNCHANGED <<agentVars, net, reply>>
    \/ AgentStart /\ UNCHANGED <<hubVars, net, reply>>

FairSpec == Spec /\ WF_vars(Progress)

\* The registration takes the Agent as it is now.
Served ==
    /\ server # 0 /\ enabled /\ ackDisk # Damaged
    /\ Admissible(CurrentCursor, FloorOver(ackMem))
    /\ Cardinality(queue) <= BodyMax

\* Of an Agent that stays admitted every event is stored in the end, or was
\* let go: nothing waits in the queue for ever (poller.py, fetch_events).
EventuallySettled ==
    <>[](hubUp => Served) => []<>(HeldEvents \subseteq recorded \cup receipts \cup lost)

\* Nothing the Agent showed is lost, skipped, acknowledged too far or taken
\* for another event.
ChannelSafe == TypeOK /\ NoLoss /\ AckHonoured /\ OneEventPerId /\ AckCovers
=============================================================================
