------------------------- MODULE EventChannelProofs -------------------------
(***************************************************************************)
(* The safety of the event channel, for any Agents, queues and bounds.     *)
(* The argument: a cursor tells the truth about a past moment of one run   *)
(* (Past); what an acknowledgement covers has left the Agent into the      *)
(* Hub's hands or by a named loss (Through), and that is so of every       *)
(* acknowledgement: in the Hub's memory, on its disk, and under way.       *)
(***************************************************************************)
EXTENDS EventChannel, FiniteSetTheorems, WellFoundedInduction, TLAPS

\* Events that need nobody's attention any more.
Settled == recorded \cup receipts \cup lost

\* Event e was issued by the run that r names (a cursor, a request, a binding).
OfRun(e, r) == e.stream = r.stream /\ e.boot = r.boot

\* The events of run r with ids up to n are settled.
Through(r, n) == \A e \in issued : OfRun(e, r) /\ e.id <= n => e \in Settled

ThisRun == [stream |-> stream, boot |-> boot]

\* Cursor c was true once: of its own run, it is behind the present one.
Past(c) ==
    /\ c.boot <= boot
    /\ up /\ OfRun(ThisRun, c) => c.floor = floor /\ c.offered <= offered
    /\ \A e \in issued : OfRun(e, c) => c.floor < e.id

AgentInv ==
    /\ ~up => queue = {}
    /\ HeldEvents \subseteq issued
    /\ HeldEvents \cap lost = {}
    /\ \A e \in issued : e.boot <= boot
    /\ up => \A e \in issued : OfRun(e, ThisRun) => floor < e.id /\ e.id < next

HistoryInv ==
    /\ stored \subseteq recorded
    /\ Settled \subseteq issued
    /\ NoLoss
    /\ OneEventPerId

CursorInv ==
    /\ poll # Idle => Past(poll.cur)
    /\ reply.kind = "events" => Past(reply.proof)

\* A request may be served without a loss, however late it comes.
NetInv ==
    \A m \in net :
        /\ m.boot <= boot
        /\ up /\ SameRun(m) => AckAdmitted(m.ack)
        /\ Through(m, m.ack)

\* A reply holds what its proof covers and the Hub does not have.
ReplyInv ==
    reply.kind = "events" =>
        /\ \A e \in reply.events :
              e \in issued /\ OfRun(e, reply.proof) /\ e.id <= reply.proof.offered
        /\ \A e \in issued :
              OfRun(e, reply.proof) /\ e.id <= reply.proof.offered => e \in reply.events \cup Settled

\* What either acknowledgement covers is settled, and no event is yet to come.
BindingInv ==
    /\ binding.boot <= boot
    /\ \A x \in {ackDisk, ackMem} :
          /\ Through(binding, FloorOver(x))
          /\ up /\ OfRun(ThisRun, binding) => FloorOver(x) < next

\* Before an upgraded registration is bound nobody has asked the Agent for
\* anything, so what it has offered was read by the Hub of old, or lost.
UpgradeInv ==
    binding.state # "bound" /\ binding.stream # 0 =>
        /\ net = {}
        /\ up => Through(ThisRun, offered)
        /\ poll # Idle => Through(poll.cur, poll.cur.offered)

EnqueueInv ==
    \A i \in enqueued : i <= consumed.high \/ \E e \in stored : i <= e.id

IInv ==
    /\ TypeOK /\ AgentInv /\ HistoryInv /\ CursorInv /\ NetInv
    /\ ReplyInv /\ BindingInv /\ UpgradeInv /\ EnqueueInv
-----------------------------------------------------------------------------
(* Facts about the operators the model is built from.                      *)

\* A set of naturals has a least element.
LEMMA LeastNat ==
    ASSUME NEW S \in SUBSET Nat, S # {}
    PROVE  \E x \in S : \A y \in S : x <= y
<1> DEFINE R == OpToRel(<, Nat)
<1>1. IsWellFoundedOn(R, Nat)
    BY NatLessThanWellFounded
<1> HIDE DEF R
<1>2. PICK x \in S : \A y \in S : ~ (<<y, x>> \in R)
    BY <1>1, WFMin
<1>3. ASSUME NEW y \in S PROVE x <= y
    <2>1. ~ (y < x)
        BY <1>2, <1>3 DEF R, OpToRel
    <2> QED BY <2>1, x \in Nat, y \in Nat
<1> QED BY <1>3

\* Min and Max of bounded sets of integers are what their names say.
LEMMA MinOf ==
    ASSUME NEW S \in SUBSET Nat, S # {}
    PROVE  Min(S) \in S /\ \A x \in S : Min(S) <= x
BY LeastNat DEF Min

LEMMA MaxOf ==
    ASSUME NEW S \in SUBSET Int, S # {}, NEW k \in Int, \A x \in S : x <= k
    PROVE  Max(S) \in S /\ \A x \in S : x <= Max(S)
<1> DEFINE D == {k - x : x \in S}
<1>1. D # {}
    OBVIOUS
<1>2. \A x \in S : k - x \in Nat
    OBVIOUS
<1>3. D \in SUBSET Nat
    BY <1>2
<1> HIDE DEF D
<1>4. PICK d \in D : \A e \in D : d <= e
    BY <1>1, <1>3, LeastNat
<1>5. PICK m \in S : d = k - m
    BY DEF D
<1>6. ASSUME NEW x \in S PROVE m >= x
    <2>1. k - x \in D
        BY DEF D
    <2> QED BY <2>1, <1>4, <1>5
<1> QED BY <1>5, <1>6 DEF Max

\* The floor is the highest id the Hub has a trace of: F is that of an
\* acknowledgement a, a consumed highwater h, rows S and outbox ids O.
Highest(F, a, h, S, O) ==
    /\ F \in -1 .. MaxId
    /\ a <= F /\ h <= F
    /\ \A e \in S : e.id <= F
    /\ \A i \in O : i <= F
    /\ F \in {-1, a, h} \/ F \in O \/ \E e \in S : F = e.id

LEMMA HighestIs ==
    ASSUME NEW a \in Damaged .. MaxId, NEW h \in -1 .. MaxId,
           NEW S \in SUBSET Event, NEW O \in SUBSET Ids
    PROVE  Highest(Max({-1, a, h} \cup {e.id : e \in S} \cup O), a, h, S, O)
<1> DEFINE T == {-1, a, h} \cup {e.id : e \in S} \cup O
<1>1. MaxId \in Nat
    BY QueueAssumption
<1>2. \A e \in S : e.id \in 1 .. MaxId
    BY DEF Event, Ids
<1>3. \A x \in T : x \in {-1, a, h} \/ x \in O \/ \E e \in S : x = e.id
    OBVIOUS
<1>4. -1 \in T /\ a \in T /\ h \in T /\ (\A e \in S : e.id \in T) /\ O \subseteq T
    OBVIOUS
<1> HIDE DEF T
<1>5. ASSUME NEW x \in T PROVE x \in Int /\ x <= MaxId
    <2>1. CASE x \in {-1, a, h} BY <1>1, <2>1 DEF Damaged
    <2>2. CASE x \in O BY <1>1, <2>2 DEF Damaged, Ids
    <2>3. CASE \E e \in S : x = e.id BY <1>1, <1>2, <2>3 DEF Damaged
    <2> QED BY <1>3, <2>1, <2>2, <2>3
<1>6. Max(T) \in T /\ \A x \in T : x <= Max(T)
    <2>1. T \in SUBSET Int /\ T # {}
        BY <1>4, <1>5
    <2>2. MaxId \in Int /\ \A x \in T : x <= MaxId
        BY <1>1, <1>5
    <2> QED BY <2>1, <2>2, MaxOf
<1>7. Max(T) \in -1 .. MaxId
    <2>1. Max(T) \in Int /\ Max(T) <= MaxId
        BY <1>5, <1>6
    <2>2. -1 <= Max(T)
        BY <1>4, <1>6
    <2> QED BY <1>1, <2>1, <2>2
<1>8. Highest(Max(T), a, h, S, O)
    BY <1>3, <1>4, <1>6, <1>7 DEF Highest
<1> QED BY <1>8 DEF T

\* What the queue holds are the events of this run with its ids.
LEMMA HeldIs ==
    ASSUME NEW s \in Streams, NEW b \in Boots, NEW Q \in SUBSET Ids
    PROVE  LET H == {[stream |-> s, boot |-> b, id |-> i] : i \in Q}
           IN  /\ H \subseteq Event
               /\ \A e \in Event : e \in H <=> e.stream = s /\ e.boot = b /\ e.id \in Q
BY DEF Event

-----------------------------------------------------------------------------
(* Type correctness.                                                       *)

\* The floor over either acknowledgement, now and after a step.
FloorOK == \A a \in Damaged .. MaxId : Highest(FloorOver(a), a, consumed.high, stored, outbox)

LEMMA FloorTrue == TypeOK => FloorOK
BY HighestIs DEF TypeOK, HubTypeOK, FloorOK, FloorOver

LEMMA FloorNext == TypeOK' => FloorOK'
BY FloorTrue, PTL

HeldOK ==
    /\ HeldEvents \subseteq Event
    /\ \A e \in Event : e \in HeldEvents <=> OfRun(e, ThisRun) /\ e.id \in queue

LEMMA HeldTrue == TypeOK => HeldOK
BY HeldIs DEF TypeOK, AgentTypeOK, HeldEvents, Here, OfRun, ThisRun, HeldOK

LEMMA HeldNext == TypeOK' => HeldOK'
BY HeldTrue, PTL

\* Only a running Agent has a queue, and it issued what is in it.
LEMMA QueueIds ==
    TypeOK /\ AgentInv => \A i \in queue : up /\ floor < i /\ i < next
<1> SUFFICES ASSUME TypeOK, AgentInv, NEW i \in queue PROVE up /\ floor < i /\ i < next
    OBVIOUS
<1>1. up
    BY DEF AgentInv
<1>2. Here(i) \in issued
    BY DEF AgentInv, HeldEvents
<1>3. OfRun(Here(i), ThisRun) /\ Here(i).id = i
    BY DEF OfRun, Here, ThisRun
<1> QED BY <1>1, <1>2, <1>3 DEF AgentInv

LEMMA CursorType == TypeOK /\ up => CurrentCursor \in Cursor
BY QueueAssumption DEF TypeOK, AgentTypeOK, CurrentCursor, Cursor, Ids

LEMMA TypeInit == Init => TypeOK
<1> SUFFICES ASSUME Init PROVE TypeOK
    OBVIOUS
<1> PICK n \in 0 .. 1 : AgentInit(n) /\ HubInit(n)
    BY DEF Init
<1> USE QueueAssumption, AgentBounds, HubBounds
<1>1. 1 .. n \subseteq Ids /\ {Here(i) : i \in 1 .. n} \subseteq Event
    BY DEF Ids, Here, Event, AgentInit, Streams, Boots
<1>2. AgentTypeOK
    BY <1>1 DEF AgentInit, AgentTypeOK, Streams, Boots, Ids
<1>3. hubUp \in BOOLEAN /\ enabled \in BOOLEAN /\ server \in {0, lastReg} /\ lastReg \in 0 .. MaxReg
    <2>1. hubUp \in BOOLEAN /\ enabled \in BOOLEAN
        BY Zenon DEF HubInit
    <2>2. <<server, lastReg>> \in {<<0, 0>>, <<1, 1>>}
        BY Zenon DEF HubInit
    <2> QED BY <2>1, <2>2
<1>4. binding \in Binding
    BY DEF HubInit, Binding, Unbound
<1>5. ackDisk \in Damaged .. MaxId /\ ackMem \in Absent .. MaxId
    <2>1. ackDisk \in {Absent, -1, n} /\ ackMem = ackDisk
        BY DEF HubInit
    <2> QED BY <2>1 DEF Damaged, Absent
<1>6. consumed \in [stream : 0 .. MaxStream, high : -1 .. MaxId]
    BY DEF HubInit, NothingConsumed
<1>7. /\ stored \in SUBSET Event /\ recorded \in SUBSET Event /\ receipts \in SUBSET Event
      /\ outbox \in SUBSET Ids /\ enqueued \in SUBSET Ids
    <2>1. stored \subseteq Event /\ recorded = stored
        BY <1>1 DEF HubInit
    <2>2. receipts = {} /\ outbox = {} /\ enqueued \subseteq Ids
        BY <1>1 DEF HubInit
    <2> QED BY <2>1, <2>2
<1>8. poll = Idle /\ net \in SUBSET Request /\ reply = NoReply /\ faults \in 0 .. MaxFault
    BY DEF HubInit, Init
<1> QED BY <1>2, <1>3, <1>4, <1>5, <1>6, <1>7, <1>8 DEF TypeOK, HubTypeOK

\* The Agent keeps its types, by itself and when it serves a request.
LEMMA AgentTypeStep ==
    ASSUME TypeOK, AgentInv, AgentStep
    PROVE  AgentTypeOK'
<1>0. AgentTypeOK /\ HeldEvents \subseteq Event /\ \A i \in queue : i < next
    BY HeldTrue, QueueIds DEF TypeOK, HeldOK
<1> USE QueueAssumption, AgentBounds, <1>0 DEF AgentTypeOK
<1>1. CASE Emit
    <2>1. next \in Ids /\ Here(next) \in Event
        BY <1>1 DEF Emit, Ids, Here, Event
    <2>2. PICK old \in {{}, {Min(queue \cup {next})}} :
                /\ queue' = (queue \cup {next}) \ old
                /\ lost' = lost \cup {Here(i) : i \in old}
        BY <1>1 DEF Emit
    <2>3. Min(queue \cup {next}) \in Ids
        <3>1. queue \cup {next} \in SUBSET Nat /\ queue \cup {next} # {}
            BY <2>1 DEF Ids
        <3> QED BY <2>1, <3>1, MinOf
    <2>4. queue' \in SUBSET Ids
        BY <2>1, <2>2
    <2>5. lost' \in SUBSET Event
        BY <2>2, <2>3 DEF Here, Event
    <2>6. issued' \in SUBSET Event
        BY <1>1, <2>1 DEF Emit
    <2>7. up' \in BOOLEAN
        BY <1>1, Zenon DEF Emit
    <2>8. UNCHANGED <<stream, boot, floor, offered, rollbacks>> /\ up /\ up'
        BY <1>1 DEF Emit
    <2>9. next' \in 1 .. MaxId + 1 /\ floor <= offered /\ offered < next'
        BY <1>1, <2>8 DEF Emit
    <2> QED BY <2>4, <2>5, <2>6, <2>7, <2>8, <2>9
<1>2. CASE AgentStop
    <2>1. next' \in 1 .. MaxId + 1
        BY <1>2 DEF AgentStop
    <2>2. up' \in BOOLEAN /\ ~up'
        BY <1>2, Zenon DEF AgentStop
    <2>3. lost' \in SUBSET Event /\ queue' \in SUBSET Ids
        BY <1>2 DEF AgentStop
    <2>4. floor' \in 0 .. MaxId /\ offered' \in 0 .. MaxId
        BY <1>2 DEF AgentStop
    <2>5. UNCHANGED <<stream, boot, issued, rollbacks>>
        BY <1>2 DEF AgentStop
    <2> QED BY <2>1, <2>2, <2>3, <2>4, <2>5
<1>3. CASE AgentStart BY <1>3 DEF AgentStart, Boots, Ids
<1>4. CASE NewPairing BY <1>4 DEF NewPairing, Streams
<1>5. CASE Rollback BY <1>5 DEF Rollback
<1>6. CASE LegacyRead
    <2>1. Max({offered} \cup queue) \in {offered} \cup queue /\ offered <= Max({offered} \cup queue)
        <3>1. {offered} \cup queue \in SUBSET Int /\ {offered} \cup queue # {} /\ MaxId \in Int
            BY DEF Ids
        <3>2. \A x \in {offered} \cup queue : x <= MaxId
            BY DEF Ids
        <3> QED BY <3>1, <3>2, MaxOf
    <2>2. up' \in BOOLEAN /\ up' = up
        BY <1>6, Zenon DEF LegacyRead
    <2>3. lost' \in SUBSET Event /\ queue' \in SUBSET Ids
        BY <1>6 DEF LegacyRead
    <2>4. offered' \in 0 .. MaxId /\ (up => floor <= offered' /\ offered' < next)
        <3>1. offered' \in {offered} \cup queue /\ offered <= offered' /\ up
            BY <1>6, <2>1 DEF LegacyRead
        <3>2. offered' \in 0 .. MaxId /\ offered' < next
            BY <3>1 DEF Ids
        <3> QED BY <3>1, <3>2
    <2>5. UNCHANGED <<stream, next, boot, floor, issued, rollbacks>>
        BY <1>6 DEF LegacyRead
    <2> QED BY <2>2, <2>3, <2>4, <2>5
<1> QED BY <1>1, <1>2, <1>3, <1>4, <1>5, <1>6 DEF AgentStep

\* What the poller, the operator and the store do keeps the Hub's types.
LEMMA FloorType ==
    TypeOK => \A a \in Damaged .. MaxId : FloorOver(a) \in -1 .. MaxId
BY FloorTrue DEF FloorOK, Highest

LEMMA UnboundType ==
    ASSUME NEW x \in {"fresh", "unverified", "bound"}, NEW s \in 0 .. MaxStream
    PROVE  Unbound(x, s) \in Binding
BY QueueAssumption, AgentBounds DEF Unbound, Binding

LEMMA OperatorTypeStep ==
    ASSUME TypeOK, OperatorStep
    PROVE  HubTypeOK' /\ (poll' = poll)
<1> USE HubBounds
<1>0. HubTypeOK BY DEF TypeOK
<1>1. CASE Register
    <2>1. Unbound("fresh", 0) \in Binding
        BY UnboundType, AgentBounds
    <2>2. enabled' \in BOOLEAN /\ hubUp' \in BOOLEAN
        BY <1>0, <1>1, Zenon DEF Register, HubTypeOK
    <2>3. lastReg' \in 0 .. MaxReg /\ server' = lastReg'
        BY <1>0, <1>1 DEF Register, HubTypeOK
    <2>4. binding' \in Binding
        BY <1>1, <2>1 DEF Register
    <2>5. UNCHANGED <<ackDisk, consumed, stored, outbox, ackMem, poll, hubHistory, faults>>
        BY <1>1 DEF Register
    <2> QED BY <1>0, <2>2, <2>3, <2>4, <2>5 DEF HubTypeOK, hubHistory
<1>2. CASE Remove
    <2>1. Unbound("unverified", 0) \in Binding
        BY UnboundType, AgentBounds
    <2>2. ackDisk' \in Damaged .. MaxId /\ ackMem' \in Absent .. MaxId
        BY <1>0, <1>2, QueueAssumption DEF Remove, HubTypeOK, Damaged, Absent
    <2>3. consumed' \in [stream : 0 .. MaxStream, high : -1 .. MaxId]
        BY <1>2, AgentBounds, QueueAssumption DEF Remove, NothingConsumed
    <2> QED BY <1>0, <1>2, <2>1, <2>2, <2>3 DEF Remove, HubTypeOK
<1>3. CASE SetEnabled
    <2>1. enabled' \in BOOLEAN /\ hubUp' \in BOOLEAN
        BY <1>0, <1>3, Zenon DEF SetEnabled, HubTypeOK
    <2>2. UNCHANGED <<server, lastReg, binding, ackDisk, consumed, stored, outbox, ackMem,
                      poll, hubHistory, faults>>
        BY <1>3 DEF SetEnabled
    <2> QED BY <1>0, <2>1, <2>2 DEF HubTypeOK, hubHistory
<1>4. CASE Delivered
    <2>1. outbox' \in SUBSET Ids
        BY <1>0, <1>4 DEF Delivered, HubTypeOK
    <2>2. UNCHANGED <<hubUp, server, lastReg, enabled, binding, ackDisk, consumed, stored,
                      ackMem, poll, hubHistory, faults>>
        BY <1>4 DEF Delivered
    <2> QED BY <1>0, <2>1, <2>2 DEF HubTypeOK, hubHistory
<1>5. CASE HubStart
    <2>1. ackMem' \in Absent .. MaxId
        BY <1>0, <1>5, QueueAssumption DEF HubStart, HubTypeOK, Damaged, Absent
    <2> QED BY <1>0, <1>5, <2>1 DEF HubStart, HubTypeOK, durable, hubHistory
<1>6. CASE DamageAcks
    <2>1. ackDisk' \in Damaged .. MaxId
        BY <1>6, QueueAssumption DEF DamageAcks, Damaged
    <2> QED BY <1>0, <1>6, <2>1 DEF DamageAcks, HubTypeOK, hubHistory
<1>7. ASSUME NEW n \in 1 .. next, AdoptOffline(n) PROVE HubTypeOK' /\ poll' = poll
    <2>1. Unbound("bound", stream) \in Binding
        BY UnboundType, AgentBounds DEF TypeOK, AgentTypeOK, Streams
    <2>2. ackDisk' \in Damaged .. MaxId
        BY <1>0, <1>7, FloorType, QueueAssumption DEF AdoptOffline, HubTypeOK, Absent, Damaged
    <2> QED BY <1>0, <1>7, <2>1, <2>2 DEF AdoptOffline, HubTypeOK, hubHistory
<1> QED BY <1>1, <1>2, <1>3, <1>4, <1>5, <1>6, <1>7 DEF OperatorStep

\* A step that gives up leaves requests that were under way, and no reply.
LEMMA GiveUpType ==
    ASSUME TypeOK, GiveUp
    PROVE  poll' = Idle /\ reply' = NoReply /\ net' \in SUBSET Request
<1>1. Abandoned \subseteq Request
    BY DEF TypeOK, Abandoned, Request
<1> QED BY <1>1 DEF GiveUp

\* The acknowledgement a request carries.
LEMMA AckType ==
    TypeOK => LET f == FloorOver(ackMem)
              IN  f \in -1 .. MaxId /\ AckAfter(f) \in -1 .. MaxId /\ AckAfter(f) <= f
<1> SUFFICES ASSUME TypeOK, NEW f, f = FloorOver(ackMem)
             PROVE  f \in -1 .. MaxId /\ AckAfter(f) \in -1 .. MaxId /\ AckAfter(f) <= f
    OBVIOUS
<1>1. ackMem \in Absent .. MaxId /\ ackMem \in Damaged .. MaxId
    BY QueueAssumption DEF TypeOK, HubTypeOK, Absent, Damaged
<1>2. f \in -1 .. MaxId /\ ackMem <= f
    BY <1>1, FloorTrue DEF FloorOK, Highest
<1> QED BY <1>1, <1>2, QueueAssumption DEF AckAfter, Absent

LEMMA TypeStep ==
    ASSUME TypeOK, AgentInv, [Next]_vars
    PROVE  TypeOK'
<1>0. AgentTypeOK /\ HubTypeOK
    BY DEF TypeOK
<1>1. CASE UNCHANGED vars
    BY <1>1 DEF vars, agentVars, hubVars, durable, hubHistory, TypeOK, AgentTypeOK, HubTypeOK
<1>2. CASE AgentStep /\ UNCHANGED <<hubVars, net, reply>>
    BY <1>2, <1>0, AgentTypeStep DEF hubVars, durable, hubHistory, TypeOK, HubTypeOK
<1>3. CASE OperatorStep /\ UNCHANGED <<agentVars, net, reply>>
    <2>1. AgentTypeOK'
        BY <1>3, <1>0 DEF agentVars, AgentTypeOK
    <2>2. HubTypeOK' /\ poll' = poll
        BY <1>3, OperatorTypeStep
    <2> QED BY <1>3, <2>1, <2>2 DEF TypeOK
<1>4. ASSUME UNCHANGED agentVars PROVE AgentTypeOK'
    BY <1>4, <1>0 DEF agentVars, AgentTypeOK
<1>5. ASSUME UNCHANGED <<hubUp, durable, ackMem, hubHistory, faults>> PROVE HubTypeOK'
    BY <1>5, <1>0 DEF durable, hubHistory, HubTypeOK
<1>6. CASE PollStatus
    <2>1. CurrentCursor \in Cursor /\ server \in 1 .. MaxReg
        BY <1>6, <1>0, CursorType, HubBounds DEF PollStatus, HubTypeOK
    <2>2. poll' \in [pc : {"admit", "wait"}, reg : 1 .. MaxReg, cur : Cursor]
        BY <1>6, <2>1 DEF PollStatus
    <2>3. UNCHANGED <<agentVars, hubUp, durable, ackMem, hubHistory, faults, net, reply>>
        BY <1>6 DEF PollStatus
    <2> QED BY <1>4, <1>5, <2>2, <2>3 DEF TypeOK
<1>7. CASE Admit
    <2> DEFINE f == FloorOver(ackMem)
    <2>1. poll \in [pc : {"admit", "wait"}, reg : 1 .. MaxReg, cur : Cursor]
        BY <1>7 DEF Admit, TypeOK, Idle
    <2>2. poll' \in [pc : {"admit", "wait"}, reg : 1 .. MaxReg, cur : Cursor]
        BY <1>7, <2>1 DEF Admit
    <2>3. /\ BindTo(poll.cur, f)
          /\ net' = net \cup {[ack |-> AckAfter(f), stream |-> poll.cur.stream,
                               boot |-> poll.cur.boot, live |-> TRUE]}
        BY <1>7 DEF Admit
    <2>4. AckAfter(f) \in -1 .. MaxId
        BY AckType
    <2>5. poll.cur \in Cursor
        BY <2>1
    <2> HIDE DEF f
    <2>6. [ack |-> AckAfter(f), stream |-> poll.cur.stream, boot |-> poll.cur.boot, live |-> TRUE]
              \in Request
        BY <2>4, <2>5 DEF Request, Cursor
    <2>7. net' \in SUBSET Request
        BY <2>3, <2>6 DEF TypeOK
    <2>8. Bound(poll.cur) \in Binding
        BY <2>5, QueueAssumption DEF Bound, Binding, Cursor, Streams, Boots
    <2>9. ackMem' \in Absent .. MaxId /\ ackDisk' \in Damaged .. MaxId
        BY <2>3, <2>4, <1>0, QueueAssumption DEF BindTo, HubTypeOK, Absent, Damaged
    <2>10. binding' \in Binding /\ UNCHANGED <<server, lastReg, enabled, consumed, stored, outbox>>
        BY <2>3, <2>8 DEF BindTo
    <2>11. UNCHANGED <<agentVars, hubUp, hubHistory, faults, reply>>
        BY <1>7 DEF Admit
    <2>12. HubTypeOK'
        BY <2>9, <2>10, <2>11, <1>0 DEF HubTypeOK, hubHistory
    <2> QED BY <1>4, <2>2, <2>7, <2>11, <2>12 DEF TypeOK
<1>8. CASE Refuse
    BY <1>8, <1>4, <1>5 DEF Refuse, TypeOK
<1>9. ASSUME NEW m \in net, AgentServe(m) PROVE TypeOK'
    <2> USE <1>9
    <2>1. UNCHANGED hubVars /\ net' \in SUBSET Request
        BY DEF AgentServe, TypeOK
    <2>2. HubTypeOK' /\ poll' = poll
        BY <2>1, <1>5 DEF hubVars
    <2>3. m.ack \in -1 .. MaxId
        BY DEF TypeOK, Request
    <2>4. CASE SameRun(m) /\ AckAdmitted(m.ack) /\ Serve(m.ack) /\
               reply' = IF m.live THEN Answer({e \in HeldEvents : e.id > m.ack}, CurrentCursor')
                        ELSE reply
        <3>1. queue' \in SUBSET Ids /\ (\A i \in queue' : i \in queue)
            BY <2>4, <1>0 DEF Serve, AgentTypeOK
        <3>2. UNCHANGED <<up, stream, next, boot, floor, issued, lost, rollbacks>>
            BY <2>4 DEF Serve
        <3>3. offered' \in {offered} \cup queue' /\ offered <= offered'
            <4>1. offered' = Max({offered} \cup queue')
                BY <2>4 DEF Serve
            <4>2. {offered} \cup queue' \in SUBSET Int /\ {offered} \cup queue' # {} /\ MaxId \in Int
                BY <3>1, <1>0, QueueAssumption DEF AgentTypeOK, Ids
            <4>3. \A x \in {offered} \cup queue' : x <= MaxId
                BY <3>1, <1>0, QueueAssumption DEF AgentTypeOK, Ids
            <4> QED BY <4>1, <4>2, <4>3, MaxOf
        <3>4. up
            BY DEF AgentServe
        <3>5. offered' \in 0 .. MaxId /\ floor <= offered' /\ offered' < next
            BY <3>1, <3>3, <3>4, <1>0, QueueIds, QueueAssumption DEF AgentTypeOK, Ids
        <3>6. AgentTypeOK'
            BY <3>1, <3>2, <3>5, <1>0 DEF AgentTypeOK
        <3>7. CurrentCursor' \in Cursor
            BY <3>2, <3>4, <3>5, <3>6, QueueAssumption DEF CurrentCursor, Cursor, AgentTypeOK
        <3>8. {e \in HeldEvents : e.id > m.ack} \in SUBSET Event
            BY HeldTrue DEF HeldOK
        <3>9. reply' = reply \/ reply' \in [kind : {"events"}, events : SUBSET Event, proof : Cursor]
            BY <2>4, <3>7, <3>8 DEF Answer
        <3> QED BY <2>1, <2>2, <3>6, <3>9 DEF TypeOK
    <2>5. CASE reply' = (IF m.live THEN Refusal ELSE reply) /\ UNCHANGED agentVars
        BY <2>1, <2>2, <2>5, <1>4 DEF TypeOK
    <2> QED BY <2>4, <2>5 DEF AgentServe
<1>10. CASE Commit
    <2> DEFINE p == reply.proof
               f == FloorOver(ackDisk)
    <2>1. reply \in [kind : {"events"}, events : SUBSET Event, proof : Cursor]
        BY <1>10 DEF Commit, Readable, TypeOK, NoReply, Refusal
    <2>2. p \in Cursor /\ reply.events \in SUBSET Event
        BY <2>1
    <2>3. PICK active \in BOOLEAN : CommitBatch(reply.events, p, active)
        BY <1>10 DEF Commit
    <2> HIDE DEF p, f
    <2>4. NewRows(reply.events, f) \in SUBSET Event /\ Refused(reply.events, f) \in SUBSET Event
        BY <2>2 DEF NewRows, Refused
    <2>5. {e.id : e \in NewRows(reply.events, f)} \in SUBSET Ids
        BY <2>4 DEF Event
    <2>6. stored' \in SUBSET Event /\ recorded' \in SUBSET Event /\ receipts' \in SUBSET Event
        BY <2>3, <2>4, <1>0 DEF CommitBatch, HubTypeOK, f
    <2>7. outbox' \in SUBSET Ids /\ enqueued' \in SUBSET Ids
        BY <2>3, <2>5, <1>0 DEF CommitBatch, HubTypeOK, f
    <2>8. p.offered \in 0 .. MaxId /\ p.stream \in 0 .. MaxStream
        BY <2>2, AgentBounds DEF Cursor, Streams
    <2>9. consumed' \in [stream : 0 .. MaxStream, high : -1 .. MaxId]
        BY <2>3, <2>8, QueueAssumption DEF CommitBatch
    <2>10. ackDisk' \in Damaged .. MaxId /\ ackMem' \in Absent .. MaxId
        BY <2>3, <2>8, QueueAssumption DEF CommitBatch, Damaged, Absent
    <2>11. UNCHANGED <<server, lastReg, enabled, binding>>
        BY <2>3 DEF CommitBatch
    <2>12. UNCHANGED <<agentVars, hubUp, faults, net>> /\ poll' = Idle /\ reply' = NoReply
        BY <1>10 DEF Commit
    <2>13. HubTypeOK'
        BY <2>6, <2>7, <2>9, <2>10, <2>11, <2>12, <1>0 DEF HubTypeOK
    <2> QED BY <1>4, <2>12, <2>13 DEF TypeOK
<1>11. CASE Reject
    BY <1>11, <1>4, <1>5, GiveUpType DEF Reject, TypeOK
<1>12. ASSUME faults < MaxFault, faults' = faults + 1, GiveUp, UNCHANGED <<agentVars, durable, hubHistory>>,
              hubUp' \in BOOLEAN, ackMem' \in Absent .. MaxId
       PROVE  TypeOK'
    <2>1. HubTypeOK'
        BY <1>12, <1>0, HubBounds DEF HubTypeOK, durable, hubHistory
    <2> QED BY <1>12, <1>4, <2>1, GiveUpType DEF TypeOK
<1>13. CASE Timeout
    <2>1. hubUp' \in BOOLEAN /\ ackMem' \in Absent .. MaxId
        BY <1>13, <1>0, Zenon DEF Timeout, HubTypeOK
    <2> QED BY <1>12, <1>13, <2>1 DEF Timeout
<1>14. CASE HubCrash
    <2>1. hubUp' \in BOOLEAN
        BY <1>14, Zenon DEF HubCrash
    <2>2. ackMem' \in Absent .. MaxId
        BY <1>14, QueueAssumption DEF HubCrash, Absent
    <2> QED BY <1>12, <1>14, <2>1, <2>2 DEF HubCrash
<1> QED
    BY <1>1, <1>2, <1>3, <1>6, <1>7, <1>8, <1>9, <1>10, <1>11, <1>13, <1>14 DEF Next

-----------------------------------------------------------------------------
(* What every step does to the Agent: it runs on, or it rests and any later *)
(* run has a higher boot.  Nothing that is settled becomes unsettled.       *)

Runs ==
    /\ up /\ up'
    /\ UNCHANGED <<stream, boot, floor>>
    /\ offered <= offered' /\ next <= next'
    /\ issued \subseteq issued'
    /\ \A e \in issued' \ issued : OfRun(e, ThisRun) /\ e.id = next /\ next < next'
    /\ Settled \subseteq Settled'

Rests ==
    /\ issued' = issued
    /\ boot <= boot' /\ (up' => boot < boot')
    /\ Settled \subseteq Settled'

Moves == Runs \/ Rests

\* A cursor that was true stays true of its moment.
LEMMA PastStep ==
    ASSUME TypeOK, TypeOK', Moves, NEW c \in Cursor, Past(c)
    PROVE  /\ c.boot <= boot'
           /\ up' /\ OfRun(ThisRun', c) => c.floor = floor' /\ c.offered <= offered'
           /\ \A e \in issued' : OfRun(e, c) => c.floor < e.id
<1>0. /\ c.boot \in Int /\ c.floor \in Int /\ c.offered \in Int
      /\ boot \in Int /\ boot' \in Int /\ next \in Int /\ offered \in Int /\ offered' \in Int
      /\ floor \in Int /\ (up => floor <= offered /\ offered < next)
    BY DEF Cursor, Boots, TypeOK, AgentTypeOK
<1>1. CASE Runs
    <2>1. ASSUME NEW e \in issued', OfRun(e, c) PROVE c.floor < e.id
        <3>1. CASE e \in issued BY <2>1, <3>1 DEF Past
        <3>2. CASE e \notin issued
            <4>1. OfRun(e, ThisRun) /\ e.id = next
                BY <1>1, <3>2 DEF Runs
            <4>2. OfRun(ThisRun, c)
                BY <2>1, <4>1 DEF OfRun
            <4>3. c.floor = floor
                BY <1>1, <4>2 DEF Past, Runs
            <4> QED BY <1>0, <1>1, <4>1, <4>3 DEF Runs
        <3> QED BY <3>1, <3>2
    <2> QED BY <1>0, <1>1, <2>1 DEF Runs, Past, OfRun, ThisRun
<1>2. CASE Rests
    BY <1>0, <1>2 DEF Rests, Past, OfRun, ThisRun
<1> QED BY <1>1, <1>2 DEF Moves

\* What is settled up to some id stays so, if no event up to it is to come.
LEMMA ThroughStep ==
    ASSUME TypeOK, Moves, NEW r, NEW n \in Int, Through(r, n),
           up /\ OfRun(ThisRun, r) => n < next
    PROVE  \A e \in issued' : OfRun(e, r) /\ e.id <= n => e \in Settled'
<1>1. CASE Runs
    <2>1. ASSUME NEW e \in issued', OfRun(e, r), e.id <= n PROVE e \in Settled'
        <3>1. e \in issued
            <4> SUFFICES ASSUME e \notin issued PROVE FALSE
                OBVIOUS
            <4>1. OfRun(e, ThisRun) /\ e.id = next
                BY <1>1 DEF Runs
            <4>2. OfRun(ThisRun, r)
                BY <2>1, <4>1 DEF OfRun
            <4> QED BY <1>1, <2>1, <4>1, <4>2 DEF Runs, TypeOK, AgentTypeOK
        <3> QED BY <1>1, <2>1, <3>1 DEF Runs, Through
    <2> QED BY <2>1
<1>2. CASE Rests
    BY <1>2 DEF Rests, Through
<1> QED BY <1>1, <1>2 DEF Moves

\* The acknowledgements stay covered by what the Agent does.
LEMMA BindingFrame ==
    ASSUME IInv, TypeOK', Moves, UNCHANGED <<binding, ackDisk, ackMem, consumed, stored, outbox>>
    PROVE  BindingInv'
<1>0. /\ boot \in Int /\ boot' \in Int /\ next \in Int /\ next' \in Int /\ binding.boot \in Int
      /\ ackDisk \in Damaged .. MaxId /\ ackMem \in Damaged .. MaxId
    BY QueueAssumption DEF IInv, TypeOK, AgentTypeOK, HubTypeOK, Boots, Binding, Absent, Damaged
<1>1. binding'.boot <= boot'
    BY <1>0 DEF IInv, BindingInv, Moves, Runs, Rests
<1>2. ASSUME NEW x \in {ackDisk, ackMem}
      PROVE  /\ \A e \in issued' : OfRun(e, binding) /\ e.id <= FloorOver(x) => e \in Settled'
             /\ up' /\ OfRun(ThisRun', binding) => FloorOver(x) < next'
    <2> DEFINE n == FloorOver(x)
    <2>1. n \in Int
        BY <1>0, FloorType DEF IInv
    <2>2. Through(binding, n) /\ (up /\ OfRun(ThisRun, binding) => n < next)
        BY DEF IInv, BindingInv
    <2> HIDE DEF n
    <2>3. \A e \in issued' : OfRun(e, binding) /\ e.id <= n => e \in Settled'
        BY <2>1, <2>2, ThroughStep DEF IInv
    <2>4. up' /\ OfRun(ThisRun', binding) => n < next'
        <3>1. CASE Runs BY <1>0, <2>1, <2>2, <3>1 DEF Runs, OfRun, ThisRun
        <3>2. CASE Rests BY <1>0, <3>2 DEF Rests, OfRun, ThisRun, IInv, BindingInv
        <3> QED BY <3>1, <3>2 DEF Moves
    <2> QED BY <2>3, <2>4 DEF n
<1> QED BY <1>1, <1>2 DEF BindingInv, Through, FloorOver, OfRun, ThisRun

\* What a cursor says lies within what the Agent may still issue.
LEMMA CursorBehind ==
    ASSUME TypeOK, NEW c \in Cursor, Past(c), up, OfRun(ThisRun, c)
    PROVE  c.offered < next /\ c.floor < next
BY DEF Past, Cursor, TypeOK, AgentTypeOK, OfRun, ThisRun

\* A running Agent accepts what it has offered, and no more.
AckOK == \A a \in -1 .. MaxId : up => (AckAdmitted(a) <=> a <= offered)

LEMMA AckIs == TypeOK => AckOK
<1> USE DEF AckOK
<1> SUFFICES ASSUME TypeOK, up, NEW a \in -1 .. MaxId
             PROVE  AckAdmitted(a) <=> a <= offered
    OBVIOUS
<1>1. floor \in Int /\ offered \in Int /\ floor <= offered
    BY DEF TypeOK, AgentTypeOK
<1>2. Max({floor, offered}) = offered
    <2>1. Max({floor, offered}) \in {floor, offered} /\ offered <= Max({floor, offered})
        BY <1>1, MaxOf
    <2> QED BY <1>1, <2>1
<1> QED BY <1>1, <1>2 DEF AckAdmitted

LEMMA AckIsNext == TypeOK' => AckOK'
BY AckIs, PTL

\* Requests under way stay harmless, whatever the Agent does.
LEMMA NetFrame ==
    ASSUME IInv, TypeOK', Moves, NEW m \in net
    PROVE  /\ m.boot <= boot'
           /\ up' /\ m.stream = stream' /\ m.boot = boot' => m.ack <= offered'
           /\ \A e \in issued' : OfRun(e, m) /\ e.id <= m.ack => e \in Settled'
<1>0. /\ m \in Request /\ m.boot \in Int /\ m.ack \in -1 .. MaxId /\ m.ack \in Int
      /\ boot \in Int /\ boot' \in Int /\ offered \in Int /\ offered' \in Int /\ next \in Int
      /\ (up => offered < next)
    BY QueueAssumption DEF IInv, TypeOK, AgentTypeOK, Request, Boots
<1>1. m.boot <= boot /\ Through(m, m.ack)
    BY DEF IInv, NetInv
<1>2. up /\ SameRun(m) => m.ack <= offered
    BY <1>0, AckIs DEF IInv, NetInv, AckOK
<1>3. up /\ OfRun(ThisRun, m) => m.ack < next
    BY <1>0, <1>2 DEF OfRun, ThisRun, SameRun
<1>4. \A e \in issued' : OfRun(e, m) /\ e.id <= m.ack => e \in Settled'
    BY <1>0, <1>1, <1>3, ThroughStep DEF IInv
<1>5. CASE Runs
    BY <1>0, <1>1, <1>2, <1>4, <1>5 DEF Runs, SameRun
<1>6. CASE Rests
    BY <1>0, <1>1, <1>4, <1>6 DEF Rests
<1> QED BY <1>5, <1>6 DEF Moves

\* Requests that are still under way, and perhaps given up.
LEMMA NetKept ==
    ASSUME IInv, TypeOK', Moves, net' \subseteq net \cup Abandoned
    PROVE  NetInv'
<1> SUFFICES ASSUME NEW m \in net'
             PROVE  /\ m.boot <= boot'
                    /\ up' /\ m.stream = stream' /\ m.boot = boot' => AckAdmitted(m.ack)'
                    /\ \A e \in issued' : OfRun(e, m) /\ e.id <= m.ack => e \in Settled'
    BY DEF NetInv, SameRun, Through, OfRun
<1>1. PICK k \in net : m.boot = k.boot /\ m.stream = k.stream /\ m.ack = k.ack
    BY DEF Abandoned, IInv, TypeOK, Request
<1>2. k.ack \in -1 .. MaxId
    BY DEF IInv, TypeOK, Request
<1> QED BY <1>1, <1>2, NetFrame, AckIsNext DEF OfRun, AckOK

LEMMA CursorFrame ==
    ASSUME IInv, TypeOK', Moves
    PROVE  /\ poll # Idle /\ poll'.cur = poll.cur => Past(poll.cur)'
           /\ reply.kind = "events" /\ reply' = reply => Past(reply.proof)'
<1>1. ASSUME poll # Idle, poll'.cur = poll.cur PROVE Past(poll.cur)'
    <2>1. poll.cur \in Cursor
        BY <1>1 DEF IInv, TypeOK
    <2>2. Past(poll.cur)
        BY <1>1 DEF IInv, CursorInv
    <2> QED BY <1>1, <2>1, <2>2, PastStep DEF IInv, Past, OfRun, ThisRun
<1>2. ASSUME reply.kind = "events", reply' = reply PROVE Past(reply.proof)'
    <2>1. reply.proof \in Cursor
        BY <1>2 DEF IInv, TypeOK, NoReply, Refusal
    <2>2. Past(reply.proof)
        BY <1>2 DEF IInv, CursorInv
    <2> QED BY <1>2, <2>1, <2>2, PastStep DEF IInv, Past, OfRun, ThisRun
<1> QED BY <1>1, <1>2

LEMMA ReplyFrame ==
    ASSUME IInv, TypeOK', Moves, reply' = reply
    PROVE  ReplyInv'
<1> SUFFICES ASSUME reply.kind = "events" PROVE ReplyInv'
    BY DEF ReplyInv
<1> DEFINE p == reply.proof
<1>1. p \in Cursor /\ p.offered \in Int
    BY DEF IInv, TypeOK, NoReply, Refusal, Cursor
<1>2. Past(p)
    BY DEF IInv, CursorInv
<1>3. up /\ OfRun(ThisRun, p) => p.offered < next
    BY <1>1, <1>2, CursorBehind DEF IInv
<1>4. /\ \A e \in reply.events : e \in issued /\ OfRun(e, p) /\ e.id <= p.offered
      /\ \A e \in issued : OfRun(e, p) /\ e.id <= p.offered => e \in reply.events \cup Settled
    BY DEF IInv, ReplyInv
<1>5. issued \subseteq issued' /\ Settled \subseteq Settled'
    BY DEF Moves, Runs, Rests
<1>6. ASSUME NEW e \in issued', OfRun(e, p), e.id <= p.offered PROVE e \in issued
    <2>1. CASE Rests BY <2>1 DEF Rests
    <2>2. CASE Runs
        <3> SUFFICES ASSUME e \notin issued PROVE FALSE
            OBVIOUS
        <3>1. OfRun(e, ThisRun) /\ e.id = next
            BY <2>2 DEF Runs
        <3>2. OfRun(ThisRun, p)
            BY <1>6, <3>1 DEF OfRun
        <3> QED BY <1>1, <1>3, <1>6, <2>2, <3>1, <3>2 DEF Runs, IInv, TypeOK, AgentTypeOK
    <2> QED BY <2>1, <2>2 DEF Moves
<1> QED BY <1>4, <1>5, <1>6 DEF ReplyInv, OfRun

LEMMA UpgradeFrame ==
    ASSUME IInv, TypeOK', Moves, UNCHANGED binding, net' \subseteq net \cup Abandoned,
           poll' # Idle => poll # Idle /\ poll'.cur = poll.cur,
           offered' = offered \/ Rests
    PROVE  UpgradeInv'
<1> SUFFICES ASSUME binding.state # "bound" /\ binding.stream # 0
             PROVE  /\ net' = {}
                    /\ up' => \A e \in issued' : OfRun(e, ThisRun') /\ e.id <= offered' => e \in Settled'
                    /\ poll' # Idle =>
                          \A e \in issued' : OfRun(e, poll.cur) /\ e.id <= poll.cur.offered
                                                => e \in Settled'
    BY DEF UpgradeInv, Through, OfRun, ThisRun
<1>1. net = {} /\ (up => Through(ThisRun, offered)) /\ (poll # Idle => Through(poll.cur, poll.cur.offered))
    BY DEF IInv, UpgradeInv
<1>2. net' = {}
    BY <1>1 DEF Abandoned
<1>3. ASSUME poll # Idle
      PROVE  \A e \in issued' : OfRun(e, poll.cur) /\ e.id <= poll.cur.offered => e \in Settled'
    <2>1. poll.cur \in Cursor /\ poll.cur.offered \in Int
        BY <1>3 DEF IInv, TypeOK, Cursor
    <2>2. Past(poll.cur)
        BY <1>3 DEF IInv, CursorInv
    <2>3. up /\ OfRun(ThisRun, poll.cur) => poll.cur.offered < next
        BY <2>1, <2>2, CursorBehind DEF IInv
    <2> QED BY <1>1, <1>3, <2>1, <2>3, ThroughStep DEF IInv
<1>4. ASSUME up' PROVE \A e \in issued' : OfRun(e, ThisRun') /\ e.id <= offered' => e \in Settled'
    <2>1. CASE Rests
        <3>1. \A e \in issued' : e.boot <= boot /\ boot < boot'
            BY <1>4, <2>1 DEF Rests, IInv, AgentInv
        <3>2. \A e \in issued' : e.boot \in Int /\ boot \in Int /\ boot' \in Int
            BY DEF IInv, TypeOK, AgentTypeOK, Event, Boots
        <3> QED BY <3>1, <3>2 DEF OfRun, ThisRun
    <2>2. CASE Runs /\ offered' = offered
        <3>1. offered \in Int /\ offered < next /\ ThisRun' = ThisRun /\ Through(ThisRun, offered)
            BY <1>1, <2>2 DEF Runs, ThisRun, IInv, TypeOK, AgentTypeOK
        <3> QED BY <2>2, <3>1, ThroughStep DEF IInv
    <2> QED BY <2>1, <2>2 DEF Moves
<1> QED BY <1>2, <1>3, <1>4

-----------------------------------------------------------------------------
(* The steps of the Agent.                                                 *)

LEMMA EmitStep ==
    ASSUME IInv, TypeOK', Emit, UNCHANGED <<hubVars, net, reply>>
    PROVE  Moves /\ AgentInv' /\ HistoryInv' /\ offered' = offered
<1>0. /\ TypeOK /\ AgentInv /\ HistoryInv /\ up /\ up'
      /\ UNCHANGED <<stream, boot, floor, offered, recorded, receipts, stored>>
      /\ next \in Ids /\ next' = next + 1 /\ issued' = issued \cup {Here(next)}
    BY DEF IInv, Emit, Ids, hubVars, hubHistory, durable, TypeOK, AgentTypeOK
<1>1. PICK old \in {{}, {Min(queue \cup {next})}} :
            /\ queue' = (queue \cup {next}) \ old
            /\ lost' = lost \cup {Here(i) : i \in old}
            /\ old # {} => Cardinality(queue \cup {next}) > QueueMax
    BY DEF Emit
<1>2. Min(queue \cup {next}) \in queue \cup {next} /\ \A i \in queue : i < next
    <2>1. queue \cup {next} \in SUBSET Nat /\ queue \cup {next} # {}
        BY <1>0 DEF TypeOK, AgentTypeOK, Ids
    <2> QED BY <1>0, <2>1, MinOf, QueueIds
<1>3. \A i : Here(i).id = i /\ OfRun(Here(i), ThisRun)
    BY DEF Here, OfRun, ThisRun
<1>4. Here(next) \in Event /\ Here(next) \notin issued
    <2>1. Here(next) \in Event
        BY <1>0 DEF Here, Event, TypeOK, AgentTypeOK
    <2>2. Here(next) \notin issued
        BY <1>0, <1>3 DEF AgentInv, Ids
    <2> QED BY <2>1, <2>2
<1>5. HeldEvents' = {Here(i) : i \in queue'}
    BY <1>0 DEF HeldEvents, Here
<1>6. HeldEvents' \cap lost' = {} /\ HeldEvents' \subseteq issued' /\ lost' \subseteq issued'
    <2>1. \A i \in queue : Here(i) \in issued /\ Here(i) \notin lost
        BY <1>0 DEF AgentInv, HeldEvents
    <2>2. lost \subseteq issued
        BY <1>0 DEF HistoryInv, Settled
    <2>3. \A i \in queue \cup {next} : Here(i) \in issued' /\ Here(i) \notin lost
        BY <1>0, <1>4, <2>1, <2>2
    <2>4. \A i \in old : i \in queue \cup {next}
        BY <1>2
    <2>5. HeldEvents' \subseteq issued'
        BY <1>1, <1>5, <2>3
    <2>6. lost' \subseteq issued'
        BY <1>0, <1>1, <2>2, <2>3, <2>4
    <2>7. ASSUME NEW i \in queue' PROVE Here(i) \notin lost'
        <3>1. Here(i) \notin lost /\ i \notin old
            BY <1>1, <2>3
        <3>2. \A j \in old : Here(j) # Here(i)
            BY <1>3, <3>1
        <3> QED BY <1>1, <3>1, <3>2
    <2> QED BY <1>5, <2>5, <2>6, <2>7
<1>7. issued' \subseteq HeldEvents' \cup recorded' \cup receipts' \cup lost'
    <2>1. \A i \in queue \cup {next} : Here(i) \in HeldEvents' \cup lost'
        BY <1>1, <1>5
    <2>2. \A e \in HeldEvents : e \in HeldEvents' \cup lost'
        BY <2>1 DEF HeldEvents
    <2>3. issued \subseteq HeldEvents \cup recorded \cup receipts \cup lost
        BY <1>0 DEF HistoryInv, NoLoss
    <2>4. lost \subseteq lost'
        BY <1>1
    <2> QED BY <1>0, <2>1, <2>2, <2>3, <2>4
<1>8. Runs
    <2>1. next <= next' /\ next < next' /\ offered <= offered'
        BY <1>0 DEF Ids, TypeOK, AgentTypeOK
    <2>2. Settled \subseteq Settled'
        BY <1>0, <1>1 DEF Settled
    <2> QED BY <1>0, <1>3, <2>1, <2>2 DEF Runs
<1>9. AgentInv'
    <2>1. \A e \in issued' : e.boot <= boot'
        BY <1>0 DEF AgentInv, Here, TypeOK, AgentTypeOK, Boots
    <2>2. ASSUME NEW e \in issued', OfRun(e, ThisRun) PROVE floor < e.id /\ e.id < next'
        <3>1. CASE e = Here(next)
            BY <1>0, <1>3, <3>1 DEF TypeOK, AgentTypeOK, Ids
        <3>2. CASE e \in issued
            BY <1>0, <2>2, <3>2 DEF AgentInv, TypeOK, AgentTypeOK, Ids, Event
        <3> QED BY <1>0, <3>1, <3>2
    <2> QED BY <1>0, <1>6, <2>1, <2>2 DEF AgentInv, OfRun, ThisRun
<1>10. HistoryInv'
    BY <1>0, <1>6, <1>7 DEF HistoryInv, Settled, NoLoss, OneEventPerId
<1> QED BY <1>0, <1>8, <1>9, <1>10 DEF Moves

\* A stop, or what is done to a stopped Agent, and its next start.
LEMMA RestStep ==
    ASSUME IInv, TypeOK', AgentStop \/ AgentStart \/ NewPairing \/ Rollback,
           UNCHANGED <<hubVars, net, reply>>
    PROVE  Rests /\ AgentInv' /\ HistoryInv'
<1>0. /\ TypeOK /\ AgentInv /\ HistoryInv
      /\ UNCHANGED <<issued, recorded, receipts, stored>>
    BY DEF IInv, hubVars, hubHistory, durable, AgentStop, AgentStart, NewPairing, Rollback
<1>1. queue' = {} /\ lost' = lost \cup HeldEvents
    <2>1. CASE AgentStop BY <2>1 DEF AgentStop
    <2>2. CASE ~up /\ UNCHANGED <<queue, lost>>
        BY <2>2, <1>0 DEF AgentInv, HeldEvents
    <2> QED BY <2>1, <2>2 DEF AgentStart, NewPairing, Rollback
<1>2. boot \in Int /\ boot' \in Int /\ boot <= boot' /\ (up' => boot < boot')
    BY <1>0 DEF TypeOK, AgentTypeOK, Boots, AgentStop, AgentStart, NewPairing, Rollback
<1>3. Rests
    BY <1>0, <1>1, <1>2 DEF Rests, Settled
<1>4. HeldEvents' = {}
    BY <1>1 DEF HeldEvents
<1>5. \A e \in issued : e.boot <= boot'
    <2>1. \A e \in issued : e.boot \in Int /\ e.boot <= boot
        BY <1>0 DEF AgentInv, TypeOK, AgentTypeOK, Event, Boots
    <2> QED BY <1>2, <2>1
<1>6. up' => \A e \in issued : e.boot < boot'
    <2>1. \A e \in issued : e.boot \in Int /\ e.boot <= boot
        BY <1>0 DEF AgentInv, TypeOK, AgentTypeOK, Event, Boots
    <2> QED BY <1>2, <2>1
<1>7. AgentInv'
    <2>1. ~up' => queue' = {}
        BY <1>1
    <2>2. up' => \A e \in issued' : ~OfRun(e, ThisRun')
        BY <1>0, <1>2, <1>6 DEF OfRun, ThisRun, TypeOK, AgentTypeOK, Event, Boots
    <2> QED BY <1>0, <1>4, <1>5, <2>1, <2>2 DEF AgentInv, OfRun, ThisRun
<1>8. HistoryInv'
    <2>1. issued' \subseteq recorded' \cup receipts' \cup lost'
        BY <1>0, <1>1 DEF HistoryInv, NoLoss
    <2>2. lost' \subseteq issued'
        BY <1>0, <1>1 DEF HistoryInv, AgentInv, Settled
    <2> QED BY <1>0, <2>1, <2>2 DEF HistoryInv, Settled, NoLoss, OneEventPerId
<1> QED BY <1>3, <1>7, <1>8

LEMMA LegacyStep ==
    ASSUME IInv, TypeOK', LegacyRead, UNCHANGED <<hubVars, net, reply>>
    PROVE  Runs /\ AgentInv' /\ HistoryInv' /\ issued \subseteq Settled'
<1>0. /\ TypeOK /\ AgentInv /\ HistoryInv /\ up /\ up' /\ queue' = {}
      /\ UNCHANGED <<stream, next, boot, floor, issued, recorded, receipts, stored>>
      /\ lost' = lost \cup HeldEvents /\ offered' = Max({offered} \cup queue)
    BY DEF IInv, LegacyRead, hubVars, hubHistory, durable
<1>1. offered <= offered'
    <2>1. {offered} \cup queue \in SUBSET Int /\ {offered} \cup queue # {} /\ MaxId \in Int
        BY <1>0, QueueAssumption DEF TypeOK, AgentTypeOK, Ids
    <2>2. \A x \in {offered} \cup queue : x <= MaxId
        BY <1>0, QueueAssumption DEF TypeOK, AgentTypeOK, Ids
    <2> QED BY <1>0, <2>1, <2>2, MaxOf
<1>2. HeldEvents' = {}
    BY <1>0 DEF HeldEvents
<1>3. issued \subseteq Settled'
    BY <1>0 DEF HistoryInv, NoLoss, Settled
<1>4. Runs
    BY <1>0, <1>1 DEF Runs, Settled, TypeOK, AgentTypeOK
<1>5. AgentInv'
    BY <1>0, <1>2 DEF AgentInv, OfRun, ThisRun
<1>6. HistoryInv'
    <2>1. lost' \subseteq issued'
        BY <1>0 DEF HistoryInv, AgentInv, Settled
    <2> QED BY <1>0, <1>3, <2>1 DEF HistoryInv, Settled, NoLoss, OneEventPerId
<1> QED BY <1>3, <1>4, <1>5, <1>6

\* Everything about the Hub and the network survives what the Agent does.
LEMMA AgentStepKeeps ==
    ASSUME IInv, TypeOK', AgentStep, UNCHANGED <<hubVars, net, reply>>
    PROVE  IInv'
<1>0. UNCHANGED <<binding, ackDisk, ackMem, consumed, stored, outbox, enqueued, poll, net, reply>>
    BY DEF hubVars, hubHistory, durable
<1>1. Moves /\ AgentInv' /\ HistoryInv' /\ (offered' = offered \/ Rests \/ LegacyRead)
    BY EmitStep, RestStep, LegacyStep DEF AgentStep, Moves
<1>2. CursorInv'
    BY <1>0, <1>1, CursorFrame DEF CursorInv
<1>3. NetInv'
    BY <1>0, <1>1, NetKept
<1>4. ReplyInv'
    BY <1>0, <1>1, ReplyFrame
<1>5. BindingInv'
    BY <1>0, <1>1, BindingFrame
<1>6. UpgradeInv'
    <2>1. CASE offered' = offered \/ Rests
        BY <1>0, <1>1, <2>1, UpgradeFrame
    <2>2. CASE LegacyRead
        <3>1. issued' \subseteq Settled'
            BY <2>2, LegacyStep DEF LegacyRead, Runs
        <3> QED BY <1>0, <3>1 DEF IInv, UpgradeInv, Through
    <2> QED BY <1>1, <2>1, <2>2
<1>7. EnqueueInv'
    BY <1>0 DEF IInv, EnqueueInv
<1> QED BY <1>1, <1>2, <1>3, <1>4, <1>5, <1>6, <1>7 DEF IInv

-----------------------------------------------------------------------------
(* The steps of the operator and the delivery worker.                      *)

LEMMA AgentStill ==
    ASSUME IInv, UNCHANGED agentVars, recorded \subseteq recorded', receipts \subseteq receipts'
    PROVE  Moves /\ AgentInv' /\ HeldEvents' = HeldEvents /\ Settled \subseteq Settled'
<1>1. UNCHANGED <<up, stream, next, boot, floor, offered, queue, issued, lost>>
    BY DEF agentVars
<1>2. HeldEvents' = HeldEvents
    BY <1>1 DEF HeldEvents, Here
<1>3. AgentInv'
    BY <1>1, <1>2 DEF IInv, AgentInv, OfRun, ThisRun
<1>4. Settled \subseteq Settled'
    BY <1>1 DEF Settled
<1>5. offered <= offered' /\ next <= next' /\ boot <= boot'
    BY <1>1 DEF IInv, TypeOK, AgentTypeOK, Boots
<1> QED BY <1>1, <1>2, <1>3, <1>4, <1>5 DEF Moves, Runs, Rests

\* A binding that names no run covers nothing.
LEMMA NoRun ==
    ASSUME TypeOK', binding'.boot = 0
    PROVE  BindingInv'
<1>1. \A e \in issued' : ~OfRun(e, binding')
    BY DEF TypeOK, AgentTypeOK, Event, Boots, OfRun
<1>2. ~OfRun(ThisRun', binding') /\ 0 <= boot'
    BY DEF TypeOK, AgentTypeOK, Boots, OfRun, ThisRun
<1> QED BY <1>1, <1>2 DEF BindingInv, Through, OfRun, ThisRun

\* Fewer traces, lower floor.
LEMMA FloorLess ==
    ASSUME TypeOK, TypeOK', UNCHANGED consumed, stored' \subseteq stored, outbox' \subseteq outbox,
           NEW a \in Damaged .. MaxId, NEW b \in Damaged .. MaxId, a <= b \/ a <= -1
    PROVE  FloorOver(a)' <= FloorOver(b)
<1>1. FloorOver(a)' \in -1 .. MaxId /\ (FloorOver(a)' \in {-1, a, consumed.high} \/ FloorOver(a)' \in outbox
                                        \/ \E e \in stored : FloorOver(a)' = e.id)
    BY FloorNext DEF FloorOK, Highest
<1>2. /\ FloorOver(b) \in -1 .. MaxId /\ b <= FloorOver(b) /\ consumed.high <= FloorOver(b)
      /\ (\A i \in outbox : i <= FloorOver(b)) /\ \A e \in stored : e.id <= FloorOver(b)
    BY FloorTrue DEF FloorOK, Highest
<1>3. CASE FloorOver(a)' = a
    BY <1>1, <1>2, <1>3, QueueAssumption DEF Damaged
<1> QED BY <1>1, <1>2, <1>3

\* An acknowledgement no higher than one that was covered is covered.
LEMMA LowerAck ==
    ASSUME IInv, TypeOK', Moves, UNCHANGED <<agentVars, binding>>,
           NEW a \in Damaged .. MaxId, NEW x \in {ackDisk, ackMem}, FloorOver(a)' <= FloorOver(x)
    PROVE  /\ \A e \in issued' : OfRun(e, binding') /\ e.id <= FloorOver(a)' => e \in Settled'
           /\ up' /\ OfRun(ThisRun', binding') => FloorOver(a)' < next'
<1> DEFINE f == FloorOver(x)
<1>1. f \in Int /\ next \in Int
    BY FloorType, QueueAssumption DEF IInv, TypeOK, AgentTypeOK, HubTypeOK, Absent, Damaged
<1>2. FloorOver(a)' \in Int
    BY FloorNext DEF FloorOK, Highest
<1>3. Through(binding, f) /\ (up /\ OfRun(ThisRun, binding) => f < next)
    BY DEF IInv, BindingInv
<1>4. Settled \subseteq Settled' /\ UNCHANGED <<issued, up, stream, boot, next>>
    BY DEF Moves, Runs, Rests, agentVars
<1>5. \A e \in issued : e.id \in Int
    BY DEF IInv, TypeOK, AgentTypeOK, Event, Ids
<1> HIDE DEF f
<1>6. FloorOver(a)' <= f
    BY DEF f
<1> QED BY <1>1, <1>2, <1>3, <1>4, <1>5, <1>6 DEF Through, OfRun, ThisRun

\* Neither acknowledgement is raised, and nothing is added to the traces.
LEMMA BindingKept ==
    ASSUME IInv, TypeOK', Moves, UNCHANGED <<agentVars, binding, consumed>>,
           stored' \subseteq stored, outbox' \subseteq outbox,
           ackDisk' \in {ackDisk, Damaged}, ackMem' \in {ackMem, ackDisk, Absent}
    PROVE  BindingInv'
<1>0. /\ TypeOK /\ ackDisk \in Damaged .. MaxId /\ ackMem \in Damaged .. MaxId
      /\ Absent \in Damaged .. MaxId /\ Damaged \in Damaged .. MaxId
    BY QueueAssumption DEF IInv, TypeOK, HubTypeOK, Absent, Damaged
<1>1. ASSUME NEW a \in {ackDisk', ackMem'}
      PROVE  a \in Damaged .. MaxId /\ \E x \in {ackDisk, ackMem} : FloorOver(a)' <= FloorOver(x)
    <2>1. a \in {ackDisk, ackMem, Damaged, Absent}
        OBVIOUS
    <2>2. a \in Damaged .. MaxId
        BY <1>0, <2>1
    <2>3. PICK x \in {ackDisk, ackMem} : a <= x \/ a <= -1
        BY <1>0, <2>1 DEF Absent, Damaged
    <2>4. FloorOver(a)' <= FloorOver(x)
        BY <1>0, <2>2, <2>3, FloorLess
    <2> QED BY <2>2, <2>4
<1>2. ASSUME NEW a \in {ackDisk', ackMem'}
      PROVE  /\ \A e \in issued' : OfRun(e, binding') /\ e.id <= FloorOver(a)' => e \in Settled'
             /\ up' /\ OfRun(ThisRun', binding') => FloorOver(a)' < next'
    BY <1>1, LowerAck
<1>3. binding'.boot <= boot'
    BY DEF IInv, BindingInv, agentVars
<1> QED BY <1>2, <1>3 DEF BindingInv, Through, OfRun, ThisRun

LEMMA OperatorKeeps ==
    ASSUME IInv, TypeOK', OperatorStep, UNCHANGED <<agentVars, net, reply>>
    PROVE  IInv'
<1>0. /\ TypeOK /\ UNCHANGED <<recorded, receipts, poll, net, reply, issued, lost, offered>>
      /\ stored' \in {stored, {}}
    BY DEF IInv, agentVars, OperatorStep, Register, Remove, SetEnabled, Delivered, HubStart,
           DamageAcks, AdoptOffline, hubHistory, durable
<1>1. Moves /\ AgentInv' /\ HeldEvents' = HeldEvents
    BY <1>0, AgentStill
<1>2. HistoryInv'
    BY <1>0, <1>1 DEF IInv, HistoryInv, Settled, NoLoss, OneEventPerId
<1>3. CursorInv'
    BY <1>0, <1>1, CursorFrame DEF CursorInv
<1>4. NetInv'
    BY <1>0, <1>1, NetKept
<1>5. ReplyInv'
    BY <1>0, <1>1, ReplyFrame
<1>6. ackDisk \in Damaged .. MaxId /\ ackMem \in Damaged .. MaxId /\ Absent \in Damaged .. MaxId
      /\ Damaged \in Damaged .. MaxId
    BY <1>0, QueueAssumption DEF TypeOK, HubTypeOK, Absent, Damaged
<1>7. BindingInv'
    <2>1. CASE binding'.boot = 0
        BY <2>1, NoRun
    <2>2. CASE /\ UNCHANGED <<binding, consumed>>
               /\ stored' \subseteq stored /\ outbox' \subseteq outbox
               /\ ackDisk' \in {ackDisk, Damaged} /\ ackMem' \in {ackMem, ackDisk, Absent}
        BY <1>0, <1>1, <2>2, BindingKept
    <2>3. CASE Register BY <2>1, <2>3 DEF Register, Unbound
    <2>4. CASE Remove BY <2>1, <2>4 DEF Remove, Unbound
    <2>5. CASE SetEnabled BY <2>2, <2>5 DEF SetEnabled
    <2>6. CASE Delivered BY <2>2, <2>6 DEF Delivered
    <2>7. CASE HubStart BY <2>2, <2>7 DEF HubStart, durable
    <2>8. CASE DamageAcks BY <2>2, <2>8 DEF DamageAcks
    <2>9. ASSUME NEW n \in 1 .. next, AdoptOffline(n) PROVE BindingInv'
        BY <2>1, <2>9 DEF AdoptOffline, Unbound
    <2> QED BY <2>3, <2>4, <2>5, <2>6, <2>7, <2>8, <2>9 DEF OperatorStep
<1>8. UpgradeInv'
    <2>1. CASE binding'.state = "bound" \/ binding'.stream = 0
        BY <2>1 DEF UpgradeInv
    <2>2. CASE UNCHANGED binding
        BY <1>0, <1>1, <2>2, UpgradeFrame
    <2> QED BY <2>1, <2>2 DEF OperatorStep, Register, Remove, SetEnabled, Delivered, HubStart,
                              DamageAcks, AdoptOffline, Unbound, durable
<1>9. EnqueueInv'
    <2>1. CASE Remove BY <2>1 DEF Remove, EnqueueInv
    <2>2. CASE UNCHANGED <<enqueued, consumed, stored>>
        BY <2>2 DEF IInv, EnqueueInv
    <2> QED BY <2>1, <2>2 DEF OperatorStep, Register, SetEnabled, Delivered, HubStart,
                              DamageAcks, AdoptOffline, hubHistory, durable
<1> QED BY <1>1, <1>2, <1>3, <1>4, <1>5, <1>7, <1>8, <1>9 DEF IInv

-----------------------------------------------------------------------------
(* The steps of the poller that leave the Hub's store alone.               *)

\* The cursor that /status reports is true of the present moment.
LEMMA NowPast == TypeOK /\ AgentInv /\ up => Past(CurrentCursor)
BY DEF AgentInv, TypeOK, AgentTypeOK, Boots, Past, CurrentCursor, OfRun, ThisRun

LEMMA PollKeeps ==
    ASSUME IInv, TypeOK', PollStatus
    PROVE  IInv'
<1>0. /\ TypeOK /\ up /\ UNCHANGED <<agentVars, hubHistory, durable, ackMem, net, reply>>
      /\ poll' = [pc |-> "admit", reg |-> server, cur |-> CurrentCursor]
    BY DEF IInv, PollStatus
<1>1. UNCHANGED <<recorded, receipts, enqueued, stored, consumed, binding, ackDisk, outbox>>
    BY <1>0 DEF hubHistory, durable
<1>2. Moves /\ AgentInv' /\ HeldEvents' = HeldEvents
    BY <1>1, <1>0, AgentStill
<1>3. UNCHANGED <<issued, lost, up, boot, stream, floor, offered, next>>
    BY <1>0 DEF agentVars
<1>4. HistoryInv'
    BY <1>1, <1>2, <1>3 DEF IInv, HistoryInv, Settled, NoLoss, OneEventPerId
<1>5. CursorInv'
    <2>1. poll'.cur = CurrentCursor
        BY <1>0
    <2>2. Past(poll'.cur)
        BY <1>0, <2>1, NowPast DEF IInv
    <2>3. reply.kind = "events" => Past(reply.proof)
        BY DEF IInv, CursorInv
    <2> QED BY <1>0, <1>3, <2>2, <2>3 DEF CursorInv, Past, OfRun, ThisRun
<1>6. NetInv'
    BY <1>0, <1>2, NetKept
<1>7. ReplyInv'
    BY <1>0, <1>2, ReplyFrame
<1>8. BindingInv'
    BY <1>0, <1>1, <1>2, BindingFrame
<1>9. UpgradeInv'
    <2>1. ASSUME binding.state # "bound" /\ binding.stream # 0
          PROVE  net = {} /\ Through(ThisRun, offered)
        BY <1>0, <2>1 DEF IInv, UpgradeInv
    <2>2. poll'.cur.offered = offered /\ OfRun(ThisRun, poll'.cur) /\ \A e : OfRun(e, poll'.cur) <=> OfRun(e, ThisRun)
        BY <1>0 DEF CurrentCursor, OfRun, ThisRun
    <2> QED BY <1>0, <1>1, <1>3, <2>1, <2>2 DEF UpgradeInv, Through, Settled, OfRun, ThisRun
<1>10. EnqueueInv'
    BY <1>1 DEF IInv, EnqueueInv
<1> QED BY <1>2, <1>4, <1>5, <1>6, <1>7, <1>8, <1>9, <1>10 DEF IInv

\* A poll that ends without a commit, whatever becomes of its request.
LEMMA EndedKeeps ==
    ASSUME IInv, TypeOK', UNCHANGED <<agentVars, durable, hubHistory>>, poll' = Idle,
           ackMem' \in {ackMem, Absent}, net' \subseteq net \cup Abandoned,
           reply' \in {reply, NoReply}
    PROVE  IInv'
<1>1. UNCHANGED <<recorded, receipts, enqueued, stored, consumed, binding, ackDisk, outbox>>
    BY DEF hubHistory, durable
<1>2. Moves /\ AgentInv' /\ HeldEvents' = HeldEvents
    BY <1>1, AgentStill
<1>3. UNCHANGED <<issued, lost, up, boot, stream, floor, offered, next>>
    BY DEF agentVars
<1>4. HistoryInv'
    BY <1>1, <1>2, <1>3 DEF IInv, HistoryInv, Settled, NoLoss, OneEventPerId
<1>5. CursorInv'
    <2>1. reply.kind = "events" => Past(reply.proof)
        BY DEF IInv, CursorInv
    <2> QED BY <1>3, <2>1 DEF CursorInv, Past, OfRun, ThisRun, NoReply
<1>6. NetInv'
    BY <1>2, NetKept
<1>7. ReplyInv'
    <2>1. CASE reply' = NoReply BY <2>1 DEF ReplyInv, NoReply
    <2> QED BY <2>1, <1>2, ReplyFrame
<1>8. BindingInv'
    BY <1>1, <1>2, BindingKept
<1>9. UpgradeInv'
    BY <1>1, <1>2, <1>3, UpgradeFrame
<1>10. EnqueueInv'
    BY <1>1 DEF IInv, EnqueueInv
<1> QED BY <1>2, <1>4, <1>5, <1>6, <1>7, <1>8, <1>9, <1>10 DEF IInv

LEMMA RefuseKeeps ==
    ASSUME IInv, TypeOK', Refuse \/ Reject \/ Timeout \/ HubCrash
    PROVE  IInv'
<1>1. CASE Refuse BY <1>1, EndedKeeps DEF Refuse
<1>2. CASE Reject BY <1>2, EndedKeeps DEF Reject, GiveUp
<1>3. CASE Timeout BY <1>3, EndedKeeps DEF Timeout, GiveUp
<1>4. CASE HubCrash BY <1>4, EndedKeeps DEF HubCrash, GiveUp
<1> QED BY <1>1, <1>2, <1>3, <1>4

-----------------------------------------------------------------------------
(* A request reaches the Agent.                                            *)

LEMMA NowPastNext == TypeOK' /\ AgentInv' /\ up' => Past(CurrentCursor)'
BY NowPast, PTL

\* What the acknowledgement lets the Agent trim is settled.
LEMMA ServeStep ==
    ASSUME IInv, TypeOK', UNCHANGED hubVars, up,
           NEW m \in net, SameRun(m), AckAdmitted(m.ack), Serve(m.ack)
    PROVE  /\ Moves /\ AgentInv' /\ HistoryInv'
           /\ HeldEvents' \subseteq {e \in HeldEvents : e.id > m.ack}
           /\ \A i \in queue : i > m.ack => i <= offered'
           /\ UNCHANGED <<recorded, receipts, lost, issued, up, stream, boot, floor>>
<1>0. /\ UNCHANGED <<up, stream, next, boot, floor, issued, lost, recorded, receipts, stored>>
      /\ queue' = {i \in queue : i > m.ack} /\ offered' = Max({offered} \cup queue')
    BY DEF Serve, hubVars, hubHistory, durable
<1>1. TypeOK /\ AgentInv /\ HistoryInv /\ m.ack \in Int
    BY QueueAssumption DEF IInv, TypeOK, Request
<1>2. offered <= offered' /\ \A i \in queue' : i <= offered'
    <2>1. {offered} \cup queue' \in SUBSET Int /\ {offered} \cup queue' # {} /\ MaxId \in Int
        BY <1>0, <1>1, QueueAssumption DEF TypeOK, AgentTypeOK, Ids
    <2>2. \A x \in {offered} \cup queue' : x <= MaxId
        BY <1>0, <1>1, QueueAssumption DEF TypeOK, AgentTypeOK, Ids
    <2> QED BY <1>0, <2>1, <2>2, MaxOf
<1>3. HeldOK /\ HeldOK'
    BY <1>1, HeldTrue, HeldNext
<1>4. \A e \in Event : e \in HeldEvents' <=> e \in HeldEvents /\ e.id > m.ack
    BY <1>0, <1>3 DEF HeldOK, OfRun, ThisRun
<1>5. HeldEvents' \subseteq {e \in HeldEvents : e.id > m.ack}
    BY <1>3, <1>4 DEF HeldOK
<1>6. AgentInv'
    BY <1>0, <1>1, <1>5 DEF AgentInv, OfRun, ThisRun
<1>7. Settled' = Settled
    BY <1>0 DEF Settled
<1>8. NoLoss'
    <2>1. ASSUME NEW e \in issued, e \notin Settled PROVE e \in HeldEvents'
        <3>1. e \in HeldEvents /\ e \in Event
            BY <1>1, <1>3, <2>1 DEF HistoryInv, NoLoss, Settled, HeldOK
        <3>2. OfRun(e, m) /\ e.id \in Int
            BY <1>3, <3>1 DEF HeldOK, OfRun, ThisRun, SameRun, Event, Ids
        <3>3. ~(e.id <= m.ack)
            BY <2>1, <3>2 DEF IInv, NetInv, Through
        <3> QED BY <1>1, <1>4, <3>1, <3>2, <3>3
    <2> QED BY <1>0, <1>7, <2>1 DEF NoLoss, Settled
<1>9. HistoryInv'
    BY <1>0, <1>1, <1>7, <1>8 DEF HistoryInv, OneEventPerId
<1>10. Moves
    BY <1>0, <1>1, <1>2, <1>7 DEF Moves, Runs, TypeOK, AgentTypeOK
<1> QED BY <1>0, <1>2, <1>5, <1>6, <1>9, <1>10

LEMMA AgentServeKeeps ==
    ASSUME IInv, TypeOK', NEW m \in net, AgentServe(m)
    PROVE  IInv'
<1>0. /\ TypeOK /\ up /\ UNCHANGED hubVars /\ net' = net \ {m}
      /\ UNCHANGED <<binding, ackDisk, ackMem, consumed, stored, outbox, poll, enqueued,
                     recorded, receipts>>
    BY DEF IInv, AgentServe, hubVars, durable, hubHistory
<1>1. EnqueueInv'
    BY <1>0 DEF IInv, EnqueueInv
<1>2. UpgradeInv'
    BY <1>0 DEF IInv, UpgradeInv
<1>3. CASE /\ SameRun(m) /\ AckAdmitted(m.ack) /\ Serve(m.ack)
           /\ reply' = IF m.live THEN Answer({e \in HeldEvents : e.id > m.ack}, CurrentCursor')
                       ELSE reply
    <2> DEFINE E == {e \in HeldEvents : e.id > m.ack}
    <2>1. /\ Moves /\ AgentInv' /\ HistoryInv'
          /\ HeldEvents' \subseteq E
          /\ \A i \in queue : i > m.ack => i <= offered'
          /\ UNCHANGED <<recorded, receipts, lost, issued, up, stream, boot, floor>>
        BY <1>0, <1>3, ServeStep
    <2>2. NetInv' /\ BindingInv'
        BY <1>0, <2>1, NetKept, BindingFrame
    <2>3. poll # Idle => Past(poll.cur)'
        BY <1>0, <2>1, CursorFrame
    <2>4. CASE reply' = reply
        BY <1>0, <1>1, <1>2, <2>1, <2>2, <2>3, <2>4, CursorFrame, ReplyFrame DEF IInv, CursorInv
    <2>5. CASE reply' = Answer(E, CurrentCursor')
        <3>1. /\ reply'.kind = "events" /\ reply'.events = E /\ reply'.proof = CurrentCursor'
            BY <2>5 DEF Answer
        <3>2. Past(CurrentCursor)'
            BY <1>0, <2>1, NowPastNext
        <3>3. CursorInv'
            BY <1>0, <2>3, <3>1, <3>2 DEF CursorInv, Past, OfRun, ThisRun
        <3>4. HeldOK /\ E \subseteq issued
            BY <1>0, HeldTrue DEF IInv, AgentInv
        <3>5. \A e : OfRun(e, CurrentCursor') <=> OfRun(e, ThisRun)
            BY <2>1 DEF OfRun, CurrentCursor, ThisRun
        <3>6. ASSUME NEW e \in E
              PROVE  e \in issued' /\ OfRun(e, CurrentCursor') /\ e.id <= offered'
            BY <2>1, <3>4, <3>5, <3>6 DEF HeldOK
        <3>7. issued' \subseteq E \cup Settled'
            BY <2>1 DEF HistoryInv, NoLoss, Settled
        <3>8. CurrentCursor'.offered = offered'
            BY DEF CurrentCursor
        <3>9. ReplyInv'
            BY <3>1, <3>6, <3>7, <3>8 DEF ReplyInv, OfRun
        <3> QED BY <1>1, <1>2, <2>1, <2>2, <3>3, <3>9 DEF IInv
    <2> QED BY <1>3, <2>4, <2>5
<1>4. CASE reply' = (IF m.live THEN Refusal ELSE reply) /\ UNCHANGED agentVars
    <2>1. Moves /\ AgentInv' /\ HeldEvents' = HeldEvents /\ UNCHANGED <<issued, lost>>
        BY <1>0, <1>4, AgentStill DEF agentVars
    <2>2. HistoryInv'
        BY <1>0, <2>1 DEF IInv, HistoryInv, Settled, NoLoss, OneEventPerId
    <2>3. NetInv' /\ BindingInv'
        BY <1>0, <2>1, NetKept, BindingFrame
    <2>4. poll # Idle => Past(poll.cur)'
        BY <1>0, <2>1, CursorFrame
    <2>5. CASE reply' = reply
        BY <1>0, <1>1, <1>2, <2>1, <2>2, <2>3, <2>4, <2>5, CursorFrame, ReplyFrame
           DEF IInv, CursorInv
    <2>6. CASE reply' = Refusal
        <3>1. reply'.kind # "events"
            BY <2>6 DEF Refusal
        <3>2. CursorInv' /\ ReplyInv'
            BY <1>0, <2>4, <3>1 DEF CursorInv, ReplyInv
        <3> QED BY <1>1, <1>2, <2>1, <2>2, <2>3, <3>2 DEF IInv
    <2> QED BY <1>4, <2>5, <2>6
<1> QED BY <1>3, <1>4 DEF AgentServe

-----------------------------------------------------------------------------
(* A cursor is admitted.                                                   *)

\* The heart of the protocol: a cursor that is admitted names a run of which
\* everything up to the Hub's floor is settled and was offered.
LEMMA AdmitCovers ==
    ASSUME IInv, poll # Idle, NEW f, f = FloorOver(ackMem), Admissible(poll.cur, f)
    PROVE  Through(poll.cur, f) /\ (up /\ OfRun(ThisRun, poll.cur) => f <= offered)
<1> DEFINE c == poll.cur
<1>0. /\ c \in Cursor /\ Past(c)
      /\ c.stream \in Streams /\ c.boot \in Int /\ c.floor \in Int /\ c.offered \in Int
      /\ \A e \in issued : e.id \in Int /\ e.id >= 1
    BY DEF IInv, CursorInv, TypeOK, AgentTypeOK, Cursor, Boots, Event, Ids
<1>1. f \in Int /\ offered \in Int /\ floor \in Int /\ (up => floor <= offered)
    <2>1. ackMem \in Damaged .. MaxId
        BY QueueAssumption DEF IInv, TypeOK, HubTypeOK, Absent, Damaged
    <2> QED BY <2>1, FloorType DEF IInv, TypeOK, AgentTypeOK
<1> HIDE DEF c
<1>2. CASE c.floor >= f
    BY <1>0, <1>1, <1>2 DEF Past, Through, c
<1>3. ASSUME c.offered >= f PROVE up /\ OfRun(ThisRun, c) => f <= offered
    BY <1>0, <1>1, <1>3 DEF Past
<1>4. CASE /\ binding.stream = c.stream /\ binding.boot = c.boot /\ c.offered >= f
    <2>1. Through(binding, f)
        BY DEF IInv, BindingInv
    <2>2. \A e \in issued : OfRun(e, c) <=> OfRun(e, binding)
        BY <1>4 DEF OfRun
    <2> QED BY <1>3, <1>4, <2>1, <2>2 DEF Through, c
<1>5. CASE binding.state # "bound" /\ binding.stream = c.stream /\ c.offered >= f
    <2>1. binding.stream # 0
        BY <1>0, <1>5 DEF Streams
    <2>2. Through(c, c.offered)
        BY <1>5, <2>1 DEF IInv, UpgradeInv, c
    <2> QED BY <1>0, <1>1, <1>3, <1>5, <2>2 DEF Through, c
<1>6. CASE f = -1
    BY <1>0, <1>1, <1>6 DEF Through, c, IInv, TypeOK, AgentTypeOK
<1> QED
    BY <1>2, <1>4, <1>5, <1>6 DEF Admissible, SameBinding, Adoptable, Unread, c

LEMMA AdmitKeeps ==
    ASSUME IInv, TypeOK', Admit
    PROVE  IInv'
<1> SUFFICES ASSUME NEW c, c = poll.cur, NEW f, f = FloorOver(ackMem), NEW a, a = AckAfter(f)
             PROVE  IInv'
    OBVIOUS
<1> DEFINE new == [ack |-> a, stream |-> c.stream, boot |-> c.boot, live |-> TRUE]
<1>0. /\ TypeOK /\ UNCHANGED <<agentVars, hubHistory, consumed, stored, outbox, reply>>
      /\ Admissible(c, f) /\ poll # Idle /\ poll' # Idle /\ poll'.cur = c
      /\ net' = net \cup {new} /\ binding' = Bound(c) /\ ackMem' = a
      /\ ackDisk' = (IF binding = Bound(c) /\ ackMem # Absent THEN ackDisk ELSE a)
    <2>1. poll # Idle /\ poll.pc = "admit"
        BY DEF Admit, Idle
    <2>2. poll \in [pc : {"admit", "wait"}, reg : 1 .. MaxReg, cur : Cursor]
        BY <2>1 DEF IInv, TypeOK
    <2>3. poll' = [poll EXCEPT !.pc = "wait"]
        BY DEF Admit
    <2>4. poll'.cur = c /\ poll'.pc = "wait"
        BY <2>2, <2>3
    <2>5. poll' # Idle
        BY <2>4 DEF Idle
    <2> QED BY <2>1, <2>4, <2>5 DEF IInv, Admit, BindTo
<1>1. UNCHANGED <<recorded, receipts, enqueued, issued, lost, up, stream, boot, next, offered>>
    BY <1>0 DEF hubHistory, agentVars
<1>2. Moves /\ AgentInv' /\ HeldEvents' = HeldEvents
    BY <1>0, <1>1, AgentStill
<1>3. HistoryInv'
    BY <1>0, <1>1, <1>2 DEF IInv, HistoryInv, Settled, NoLoss, OneEventPerId
<1>4. CursorInv' /\ ReplyInv'
    BY <1>0, <1>2, CursorFrame, ReplyFrame DEF IInv, CursorInv
<1>5. Through(c, f) /\ (up /\ OfRun(ThisRun, c) => f <= offered)
    BY <1>0, AdmitCovers
<1>6. f \in -1 .. MaxId /\ a \in -1 .. MaxId /\ a <= f
    BY <1>0, AckType
<1>7. c \in Cursor /\ c.boot <= boot
    BY <1>0 DEF TypeOK, IInv, CursorInv, Past
<1>8. \A e \in issued : e.id \in Int
    BY <1>0 DEF TypeOK, AgentTypeOK, Event, Ids
<1>9. FloorOver(a)' \in Int /\ FloorOver(a)' <= f
    <2>1. a \in Damaged .. MaxId /\ ackMem \in Damaged .. MaxId
        BY <1>0, <1>6, QueueAssumption DEF TypeOK, HubTypeOK, Absent, Damaged
    <2>2. Highest(f, ackMem, consumed.high, stored, outbox)
        BY <1>0, <2>1, FloorTrue DEF FloorOK
    <2>3. Highest(FloorOver(a)', a, consumed.high, stored, outbox)
        BY <1>0, <2>1, FloorNext DEF FloorOK
    <2> QED BY <1>6, <2>2, <2>3 DEF Highest
<1>10. NetInv'
    <2> SUFFICES ASSUME NEW m \in net'
                 PROVE  /\ m.boot <= boot'
                        /\ up' /\ m.stream = stream' /\ m.boot = boot' => AckAdmitted(m.ack)'
                        /\ \A e \in issued' : OfRun(e, m) /\ e.id <= m.ack => e \in Settled'
        BY DEF NetInv, SameRun, Through, OfRun
    <2>1. CASE m \in net
        <3>1. m.ack \in -1 .. MaxId
            BY <1>0, <2>1 DEF TypeOK, Request
        <3> QED BY <1>2, <2>1, <3>1, NetFrame, AckIsNext DEF AckOK
    <2>2. CASE m = new
        <3>1. m.ack = a /\ m.stream = c.stream /\ m.boot = c.boot /\ \A e : OfRun(e, m) <=> OfRun(e, c)
            BY <2>2 DEF OfRun
        <3>2. up /\ m.stream = stream /\ m.boot = boot => a <= offered
            BY <1>0, <1>5, <1>6, <3>1 DEF OfRun, ThisRun, TypeOK, AgentTypeOK
        <3>3. up' /\ m.stream = stream' /\ m.boot = boot' => AckAdmitted(a)'
            BY <1>1, <1>6, <3>2, AckIsNext DEF AckOK
        <3>4. \A e \in issued : OfRun(e, c) /\ e.id <= a => e \in Settled
            BY <1>5, <1>6, <1>8 DEF Through
        <3>5. Settled' = Settled
            BY <1>1 DEF Settled
        <3> QED BY <1>1, <1>7, <3>1, <3>3, <3>4, <3>5
    <2> QED BY <1>0, <2>1, <2>2
<1>11. BindingInv'
    <2>1. binding'.boot = c.boot /\ binding'.stream = c.stream
        BY <1>0 DEF Bound
    <2>2. /\ \A e \in issued' : OfRun(e, binding') /\ e.id <= FloorOver(a)' => e \in Settled'
          /\ up' /\ OfRun(ThisRun', binding') => FloorOver(a)' < next'
        <3>1. \A e \in issued : OfRun(e, c) /\ e.id <= FloorOver(a)' => e \in Settled
            BY <1>5, <1>6, <1>8, <1>9 DEF Through
        <3>2. up /\ OfRun(ThisRun, c) => FloorOver(a)' < next
            BY <1>0, <1>5, <1>6, <1>9 DEF TypeOK, AgentTypeOK
        <3>3. Settled' = Settled
            BY <1>1 DEF Settled
        <3> QED BY <1>1, <2>1, <3>1, <3>2, <3>3 DEF OfRun, ThisRun
    <2>3. binding'.boot <= boot' /\ ackMem' = a
        BY <1>0, <1>1, <1>7, <2>1
    <2>4. CASE ackDisk' = a
        BY <2>2, <2>3, <2>4 DEF BindingInv, Through, OfRun, ThisRun
    <2>5. CASE ackDisk' = ackDisk /\ binding' = binding
        <3>1. PICK d \in Damaged .. MaxId : d = ackDisk
            BY <1>0 DEF TypeOK, HubTypeOK
        <3>2. d \in Int /\ d <= d
            BY <3>1, QueueAssumption DEF Damaged
        <3>3. FloorOver(d)' <= FloorOver(d)
            BY <1>0, <3>1, <3>2, FloorLess
        <3>4. FloorOver(d)' <= FloorOver(ackDisk)
            BY <3>1, <3>3
        <3>5. /\ \A e \in issued' : OfRun(e, binding') /\ e.id <= FloorOver(d)' => e \in Settled'
              /\ up' /\ OfRun(ThisRun', binding') => FloorOver(d)' < next'
            BY <1>0, <1>2, <2>5, <3>1, <3>4, LowerAck
        <3> QED BY <2>2, <2>3, <2>5, <3>1, <3>5 DEF BindingInv, Through, OfRun, ThisRun
    <2> QED BY <1>0, <2>4, <2>5
<1>12. UpgradeInv'
    BY <1>0 DEF UpgradeInv, Bound
<1>13. EnqueueInv'
    BY <1>0, <1>1 DEF IInv, EnqueueInv
<1> QED BY <1>2, <1>3, <1>4, <1>10, <1>11, <1>12, <1>13 DEF IInv

-----------------------------------------------------------------------------
(* A batch is committed.                                                   *)

\* What a commit adds, of a reply with proof p and over the floor f.
LEMMA CommitIs ==
    ASSUME IInv, Commit
    PROVE  /\ reply.kind = "events" /\ reply.proof \in Cursor /\ reply.events \in SUBSET Event
           /\ binding = Bound(reply.proof) /\ FloorOver(ackDisk) <= reply.proof.offered
           /\ stored' = stored \cup NewRows(reply.events, FloorOver(ackDisk))
           /\ recorded' = recorded \cup NewRows(reply.events, FloorOver(ackDisk))
           /\ receipts' = receipts \cup Refused(reply.events, FloorOver(ackDisk))
           /\ outbox' \subseteq outbox \cup {e.id : e \in NewRows(reply.events, FloorOver(ackDisk))}
           /\ enqueued' = enqueued \cup outbox'
           /\ consumed' = [stream |-> reply.proof.stream, high |-> reply.proof.offered]
           /\ ackDisk' = reply.proof.offered /\ ackMem' = reply.proof.offered
           /\ UNCHANGED <<agentVars, hubUp, faults, net, server, lastReg, enabled, binding>>
           /\ poll' = Idle /\ reply' = NoReply
<1>1. reply \in [kind : {"events"}, events : SUBSET Event, proof : Cursor]
    BY DEF IInv, Commit, Readable, TypeOK, NoReply, Refusal
<1>2. PICK active \in BOOLEAN : CommitBatch(reply.events, reply.proof, active)
    BY DEF Commit
<1>3. reply.proof \in Cursor /\ reply.events \in SUBSET Event /\ reply.kind = "events"
    BY <1>1
<1>4. binding = Bound(reply.proof) /\ reply.proof.offered >= FloorOver(ackDisk)
    BY DEF Commit, CommitAdmitted
<1>5. FloorOver(ackDisk) \in Int /\ reply.proof.offered \in Int
    BY <1>3, FloorType DEF IInv, TypeOK, HubTypeOK, Cursor
<1>6. FloorOver(ackDisk) <= reply.proof.offered
    BY <1>4, <1>5
<1>7. UNCHANGED <<agentVars, hubUp, faults, net>> /\ poll' = Idle /\ reply' = NoReply
    BY DEF Commit
<1> HIDE DEF FloorOver
<1>8. outbox' \subseteq outbox \cup {e.id : e \in NewRows(reply.events, FloorOver(ackDisk))}
    BY <1>2 DEF CommitBatch
<1> QED BY <1>2, <1>3, <1>4, <1>6, <1>7, <1>8 DEF CommitBatch

LEMMA CommitKeeps ==
    ASSUME IInv, TypeOK', Commit
    PROVE  IInv'
<1> SUFFICES ASSUME NEW p, p = reply.proof, NEW f, f = FloorOver(ackDisk),
                    NEW rows, rows = NewRows(reply.events, f)
             PROVE  IInv'
    OBVIOUS
<1>0. /\ TypeOK /\ UNCHANGED <<agentVars, binding, net>> /\ reply.kind = "events"
      /\ p \in Cursor /\ p.offered \in 0 .. MaxId /\ f \in -1 .. MaxId /\ f <= p.offered
      /\ binding = Bound(p)
    BY CommitIs, FloorType DEF IInv, TypeOK, HubTypeOK, Cursor
<1>1. /\ stored' = stored \cup rows /\ recorded' = recorded \cup rows
      /\ receipts' = receipts \cup Refused(reply.events, f)
      /\ outbox' \subseteq outbox \cup {e.id : e \in rows} /\ enqueued' = enqueued \cup outbox'
      /\ consumed'.high = p.offered /\ ackDisk' = p.offered /\ ackMem' = p.offered
      /\ poll' = Idle /\ reply' = NoReply
    BY CommitIs
<1>2. Moves /\ AgentInv' /\ HeldEvents' = HeldEvents /\ Settled \subseteq Settled'
    BY <1>0, <1>1, AgentStill
<1>3. UNCHANGED <<issued, lost, up, stream, boot, next, offered>>
    BY <1>0 DEF agentVars
<1>4. /\ \A e \in reply.events : e \in issued /\ OfRun(e, p) /\ e.id <= p.offered
      /\ \A e \in issued : OfRun(e, p) /\ e.id <= p.offered => e \in reply.events \cup Settled
    BY <1>0 DEF IInv, ReplyInv
<1>5. \A e \in issued \cup stored : e \in Event /\ e.id \in Int
    BY <1>0 DEF TypeOK, AgentTypeOK, HubTypeOK, Event, Ids
<1>6. /\ rows \subseteq reply.events /\ \A e \in rows : e.id > f
      /\ Refused(reply.events, f) \subseteq reply.events
    BY DEF NewRows, Refused
<1>7. consumed.high <= f /\ (\A e \in stored : e.id <= f) /\ (\A i \in outbox : i <= f)
    BY <1>0, FloorTrue DEF FloorOK, Highest, TypeOK, HubTypeOK
<1>8. Through(binding, f) /\ p.boot = binding.boot /\ \A e : OfRun(e, p) <=> OfRun(e, binding)
    BY <1>0 DEF IInv, BindingInv, Bound, OfRun
<1>9. \A e \in issued' : OfRun(e, binding') /\ e.id <= p.offered => e \in Settled'
    <2>1. ASSUME NEW e \in reply.events PROVE e \in Settled'
        <3>1. CASE e.id <= f
            BY <1>2, <1>4, <1>8, <3>1 DEF Through
        <3>2. CASE e.id > f /\ e.id \notin Malformed
            BY <1>1, <3>2 DEF NewRows, Settled
        <3>3. CASE e.id \in Malformed
            BY <1>1, <3>3 DEF Refused, Settled
        <3> QED BY <1>0, <1>4, <1>5, <3>1, <3>2, <3>3
    <2> QED BY <1>0, <1>2, <1>3, <1>4, <1>8, <2>1 DEF OfRun
<1>10. HistoryInv'
    <2>1. stored' \subseteq recorded'
        BY <1>1 DEF IInv, HistoryInv
    <2>2. Settled' \subseteq issued'
        BY <1>1, <1>3, <1>4, <1>6 DEF IInv, HistoryInv, Settled
    <2>3. NoLoss'
        BY <1>2, <1>3 DEF IInv, HistoryInv, NoLoss, Settled
    <2>4. ASSUME NEW d \in stored', NEW e \in stored', d.id = e.id PROVE d = e
        <3>1. CASE d \in stored /\ e \in stored
            BY <2>4, <3>1 DEF IInv, HistoryInv, OneEventPerId
        <3>2. CASE d \in rows /\ e \in rows
            <4>1. OfRun(d, p) /\ OfRun(e, p) /\ d \in Event /\ e \in Event
                BY <1>4, <1>5, <1>6, <3>2
            <4> QED BY <2>4, <4>1 DEF OfRun, Event
        <3>3. CASE d \in stored /\ e \in rows
            BY <1>0, <1>4, <1>5, <1>6, <1>7, <2>4, <3>3
        <3>4. CASE d \in rows /\ e \in stored
            BY <1>0, <1>4, <1>5, <1>6, <1>7, <2>4, <3>4
        <3> QED BY <1>1, <3>1, <3>2, <3>3, <3>4
    <2> QED BY <2>1, <2>2, <2>3, <2>4 DEF HistoryInv, OneEventPerId
<1>11. CursorInv' /\ ReplyInv'
    BY <1>1 DEF CursorInv, ReplyInv, NoReply
<1>12. NetInv'
    BY <1>0, <1>2, NetKept
<1>13. FloorOver(p.offered)' \in Int /\ FloorOver(p.offered)' <= p.offered
    <2>1. p.offered \in Damaged .. MaxId
        BY <1>0, QueueAssumption DEF Damaged
    <2>2. Highest(FloorOver(p.offered)', p.offered, p.offered, stored', outbox')
        BY <1>1, <2>1, FloorNext DEF FloorOK
    <2>3. \A e \in stored' : e.id <= p.offered
        BY <1>0, <1>1, <1>4, <1>5, <1>6, <1>7
    <2>4. \A i \in outbox' : i <= p.offered
        <3>1. \A i \in outbox : i \in Int
            BY <1>0 DEF TypeOK, HubTypeOK, Ids
        <3> QED BY <1>0, <1>1, <1>4, <1>6, <1>7, <3>1
    <2> QED BY <1>0, <2>2, <2>3, <2>4, QueueAssumption DEF Highest
<1>14. BindingInv'
    <2>1. \A e \in issued' : OfRun(e, binding') /\ e.id <= FloorOver(p.offered)' => e \in Settled'
        BY <1>0, <1>3, <1>5, <1>9, <1>13
    <2>2. up /\ OfRun(ThisRun, p) => p.offered < next
        BY <1>0, CursorBehind DEF IInv, CursorInv
    <2>3. up' /\ OfRun(ThisRun', binding') => FloorOver(p.offered)' < next'
        <3>1. next \in Int
            BY <1>0 DEF TypeOK, AgentTypeOK
        <3> QED BY <1>0, <1>3, <1>8, <1>13, <2>2, <3>1 DEF OfRun, ThisRun
    <2>4. binding'.boot <= boot'
        BY <1>0, <1>3 DEF IInv, BindingInv
    <2> QED BY <1>1, <2>1, <2>3, <2>4 DEF BindingInv, Through, OfRun, ThisRun
<1>15. UpgradeInv'
    BY <1>0 DEF UpgradeInv, Bound
<1>16. EnqueueInv'
    <2>1. \A i \in enqueued \cup outbox : i \in Int
        BY <1>0 DEF TypeOK, HubTypeOK, Ids
    <2>2. consumed.high \in Int
        BY <1>0 DEF TypeOK, HubTypeOK
    <2>3. \A i \in enqueued : i <= p.offered
        BY <1>0, <1>5, <1>7, <2>1, <2>2 DEF IInv, EnqueueInv
    <2>4. \A i \in outbox' : i <= p.offered
        BY <1>0, <1>1, <1>4, <1>6, <1>7, <2>1
    <2> QED BY <1>1, <2>3, <2>4 DEF EnqueueInv
<1> QED BY <1>2, <1>10, <1>11, <1>12, <1>14, <1>15, <1>16 DEF IInv

-----------------------------------------------------------------------------
(* The inductive invariant, and what follows from it.                      *)

LEMMA InitIInv == Init => IInv
<1> SUFFICES ASSUME Init PROVE IInv
    OBVIOUS
<1>0. TypeOK
    BY TypeInit
<1> PICK n \in 0 .. 1 : AgentInit(n) /\ HubInit(n)
    BY DEF Init
<1>1. /\ up /\ stream = 1 /\ boot = 1 /\ next = n + 1 /\ floor = 0 /\ offered = n
      /\ queue \subseteq 1 .. n /\ lost = {} /\ issued = {Here(i) : i \in 1 .. n}
    BY DEF AgentInit
<1>2. /\ binding.boot = 0 /\ stored = issued /\ recorded = issued /\ receipts = {}
      /\ enqueued = 1 .. n /\ net = {} /\ poll = Idle /\ reply = NoReply
    BY <1>1 DEF HubInit, Init, Unbound
<1>3. \A i : Here(i).id = i /\ Here(i).boot = boot
    BY DEF Here
<1>4. AgentInv
    BY <1>1, <1>3 DEF AgentInv, HeldEvents
<1>5. HistoryInv
    BY <1>1, <1>2, <1>3 DEF HistoryInv, Settled, NoLoss, OneEventPerId
<1>6. CursorInv /\ NetInv /\ ReplyInv
    BY <1>2 DEF CursorInv, NetInv, ReplyInv, NoReply
<1>7. BindingInv
    <2>1. \A e \in issued : ~OfRun(e, binding)
        BY <1>1, <1>2, <1>3 DEF OfRun
    <2>2. ~OfRun(ThisRun, binding)
        BY <1>1, <1>2 DEF OfRun, ThisRun
    <2> QED BY <1>1, <1>2, <2>1, <2>2 DEF BindingInv, Through
<1>8. UpgradeInv
    BY <1>2 DEF UpgradeInv, Through, Settled
<1>9. EnqueueInv
    <2>1. ASSUME NEW i \in enqueued PROVE \E e \in stored : i <= e.id
        <3>1. Here(i) \in stored /\ i <= Here(i).id
            BY <1>1, <1>2, <1>3, <2>1
        <3> QED BY <3>1
    <2> QED BY <2>1 DEF EnqueueInv
<1> QED BY <1>0, <1>4, <1>5, <1>6, <1>7, <1>8, <1>9 DEF IInv

LEMMA StepIInv == IInv /\ [Next]_vars => IInv'
<1> SUFFICES ASSUME IInv, [Next]_vars PROVE IInv'
    OBVIOUS
<1>0. TypeOK'
    BY TypeStep DEF IInv
<1>1. CASE UNCHANGED vars
    <2>1. UNCHANGED <<agentVars, hubHistory, durable, ackMem, poll, net, reply>>
        BY <1>1 DEF vars, hubVars
    <2>2. UNCHANGED <<recorded, receipts, enqueued, stored, consumed, binding, ackDisk, outbox>>
        BY <2>1 DEF hubHistory, durable
    <2>3. UNCHANGED <<up, stream, next, boot, floor, offered, queue, issued, lost>>
        BY <2>1 DEF agentVars
    <2>4. Moves /\ AgentInv' /\ HeldEvents' = HeldEvents
        BY <2>1, <2>2, AgentStill
    <2>5. HistoryInv' /\ EnqueueInv'
        BY <2>2, <2>3, <2>4 DEF IInv, HistoryInv, Settled, NoLoss, OneEventPerId, EnqueueInv
    <2>6. CursorInv'
        BY <1>0, <2>1, <2>4, CursorFrame DEF CursorInv
    <2>7. NetInv' /\ ReplyInv' /\ BindingInv' /\ UpgradeInv'
        BY <1>0, <2>1, <2>2, <2>3, <2>4, NetKept, ReplyFrame, BindingFrame, UpgradeFrame
    <2> QED BY <1>0, <2>4, <2>5, <2>6, <2>7 DEF IInv
<1>2. CASE AgentStep /\ UNCHANGED <<hubVars, net, reply>>
    BY <1>0, <1>2, AgentStepKeeps
<1>3. CASE OperatorStep /\ UNCHANGED <<agentVars, net, reply>>
    BY <1>0, <1>3, OperatorKeeps
<1>4. CASE PollStatus
    BY <1>0, <1>4, PollKeeps
<1>5. CASE Admit
    BY <1>0, <1>5, AdmitKeeps
<1>6. CASE Refuse \/ Reject \/ Timeout \/ HubCrash
    BY <1>0, <1>6, RefuseKeeps
<1>7. ASSUME NEW m \in net, AgentServe(m) PROVE IInv'
    BY <1>0, <1>7, AgentServeKeeps
<1>8. CASE Commit
    BY <1>0, <1>8, CommitKeeps
<1> QED BY <1>1, <1>2, <1>3, <1>4, <1>5, <1>6, <1>7, <1>8 DEF Next

\* Everything the argument rests on holds in every reachable state.
THEOREM Invariance == Spec => []IInv
BY InitIInv, StepIInv, PTL DEF Spec

\* Nothing the Agent showed is lost, skipped, acknowledged too far or taken
\* for another event, whatever crashed, was late, rolled back or re-registered.
THEOREM SafeChannel == Spec => []ChannelSafe
<1>1. IInv => ChannelSafe
    <2> SUFFICES ASSUME IInv PROVE ChannelSafe
        OBVIOUS
    <2>1. AckHonoured
        BY DEF IInv, NetInv, AckHonoured
    <2>2. AckCovers
        <3>1. Through(binding, FloorOver(ackDisk))
            BY DEF IInv, BindingInv
        <3> QED BY <3>1 DEF AckCovers, Through, OfRun, Settled
    <2> QED BY <2>1, <2>2 DEF IInv, HistoryInv, ChannelSafe
<1> QED BY <1>1, Invariance, PTL

\* Only a commit puts ids into the outbox, and those lie above everything the
\* registration ever put there: an event is enqueued at most once.
THEOREM OutboxOnce == Spec => EnqueuedOnce
<1>1. ASSUME IInv, [Next]_vars
      PROVE  [(outbox' \ outbox) \cap enqueued = {}]_vars
    <2>1. CASE outbox' \subseteq outbox
        BY <2>1
    <2>2. CASE Commit
        <3>1. outbox' \subseteq outbox \cup {e.id : e \in NewRows(reply.events, FloorOver(ackDisk))}
            BY <1>1, <2>2, CommitIs
        <3>2. Highest(FloorOver(ackDisk), ackDisk, consumed.high, stored, outbox)
            BY <1>1, FloorTrue DEF IInv, TypeOK, HubTypeOK, FloorOK
        <3>3. ASSUME NEW i \in enqueued PROVE i \in Int /\ i <= FloorOver(ackDisk)
            <4>1. i <= consumed.high \/ \E e \in stored : i <= e.id
                BY <1>1, <3>3 DEF IInv, EnqueueInv
            <4>2. i \in Int /\ consumed.high \in Int /\ \A e \in stored : e.id \in Int
                BY <1>1, <3>3 DEF IInv, TypeOK, HubTypeOK, Event, Ids
            <4> QED BY <3>2, <4>1, <4>2, QueueAssumption DEF Highest
        <3>4. ASSUME NEW e \in NewRows(reply.events, FloorOver(ackDisk)) PROVE e.id \notin enqueued
            <4>1. e.id > FloorOver(ackDisk)
                BY <3>4 DEF NewRows
            <4>2. FloorOver(ackDisk) \in Int
                BY <3>2 DEF Highest
            <4> QED BY <3>3, <4>1, <4>2
        <3> QED BY <3>1, <3>4
    <2>3. outbox' \subseteq outbox \/ Commit
        BY <1>1 DEF Next, vars, hubVars, durable, AgentStep, OperatorStep, Register, Remove, SetEnabled,
              Delivered, HubStart, DamageAcks, AdoptOffline, PollStatus, Admit, BindTo, Refuse,
              AgentServe, Reject, Timeout, HubCrash
    <2> QED BY <2>1, <2>2, <2>3
<1> QED BY <1>1, Invariance, PTL DEF Spec, EnqueuedOnce

-----------------------------------------------------------------------------
(* The channel is an at-least-once hand-over.                              *)

LEMMA EmitRefines ==
    ASSUME IInv, TypeOK', Emit, UNCHANGED <<hubVars, net, reply>>
    PROVE  Handoff!Issue
<1>0. /\ TypeOK /\ AgentInv /\ HistoryInv /\ next \in Ids
      /\ UNCHANGED <<stream, boot, recorded, receipts>>
    BY DEF IInv, Emit, Ids, hubVars, hubHistory, durable, TypeOK, AgentTypeOK
<1>1. PICK old \in {{}, {Min(queue \cup {next})}} :
            /\ queue' = (queue \cup {next}) \ old
            /\ lost' = lost \cup {Here(i) : i \in old}
            /\ old # {} => Cardinality(queue \cup {next}) > QueueMax
    BY DEF Emit
<1>2. Here(next) \in Event /\ \A i, j : Here(i) = Here(j) => i = j
    BY <1>0 DEF Here, Event, TypeOK, AgentTypeOK
<1>3. Here(next) \notin HeldEvents \cup (recorded \cup receipts) \cup lost
    <2>1. Here(next).id = next /\ OfRun(Here(next), ThisRun)
        BY DEF Here, OfRun, ThisRun
    <2>2. Here(next) \notin issued
        BY <1>0, <2>1 DEF AgentInv, Emit, Ids
    <2> QED BY <1>0, <2>2 DEF AgentInv, HistoryInv, Settled
<1>4. old \subseteq queue
    <2>1. queue \cup {next} \in SUBSET Nat /\ queue \cup {next} # {}
        BY <1>0 DEF TypeOK, AgentTypeOK, Ids
    <2>2. Min(queue \cup {next}) \in queue \cup {next} /\ \A i \in queue : Min(queue \cup {next}) <= i
        BY <2>1, MinOf
    <2>3. \A i \in queue : i \in Int /\ i < next
        BY <1>0, QueueIds DEF TypeOK, AgentTypeOK, Ids
    <2>4. ASSUME queue = {} PROVE old = {}
        <3>1. queue \cup {next} = {next}
            BY <2>4
        <3>2. Cardinality({next}) = 1
            BY FS_Singleton
        <3> QED BY <1>1, <3>1, <3>2, QueueAssumption
    <2>5. ASSUME queue # {} PROVE Min(queue \cup {next}) \in queue
        <3>1. next \in Int
            BY <1>0 DEF Ids
        <3> QED BY <2>2, <2>3, <2>5, <3>1
    <2> QED BY <2>4, <2>5
<1>5. next \notin queue
    BY <1>0, QueueIds DEF Ids
<1>6. HeldEvents = {Here(i) : i \in queue} /\ HeldEvents' = {Here(i) : i \in queue'}
    BY <1>0 DEF HeldEvents, Here
<1>7. Here(next) \in HeldEvents' /\ HeldEvents' \subseteq HeldEvents \cup {Here(next)}
    BY <1>1, <1>4, <1>5, <1>6
<1>8. {Here(i) : i \in old} = HeldEvents \ HeldEvents'
    <2>1. ASSUME NEW i \in old PROVE Here(i) \in HeldEvents /\ Here(i) \notin HeldEvents'
        BY <1>1, <1>2, <1>4, <1>6, <2>1
    <2>2. ASSUME NEW i \in queue, Here(i) \notin HeldEvents' PROVE i \in old
        BY <1>1, <1>6, <2>2
    <2> QED BY <1>6, <2>1, <2>2
<1> QED BY <1>0, <1>1, <1>2, <1>3, <1>7, <1>8 DEF Handoff!Issue

LEMMA ServeRefines ==
    ASSUME IInv, TypeOK', NEW m \in net, AgentServe(m)
    PROVE  Handoff!Settle
<1>0. /\ up /\ UNCHANGED <<hubVars, recorded, receipts>>
    BY DEF AgentServe, hubVars, hubHistory
<1>1. CASE SameRun(m) /\ AckAdmitted(m.ack) /\ Serve(m.ack)
    <2>1. HeldEvents' \subseteq HeldEvents /\ HistoryInv' /\ UNCHANGED <<issued, lost>>
        BY <1>0, <1>1, ServeStep
    <2>2. HeldEvents \subseteq issued /\ HeldEvents \cap lost = {}
        BY DEF IInv, AgentInv
    <2>3. issued \subseteq HeldEvents' \cup recorded \cup receipts \cup lost
        BY <1>0, <2>1 DEF HistoryInv, NoLoss
    <2> QED BY <1>0, <2>1, <2>2, <2>3 DEF Handoff!Settle
<1>2. CASE UNCHANGED agentVars
    BY <1>0, <1>2 DEF Handoff!Settle, agentVars, HeldEvents, Here
<1> QED BY <1>1, <1>2 DEF AgentServe

LEMMA CommitRefines ==
    ASSUME IInv, Commit
    PROVE  Handoff!Keep
<1>1. /\ UNCHANGED agentVars /\ reply.kind = "events"
      /\ recorded' = recorded \cup NewRows(reply.events, FloorOver(ackDisk))
      /\ receipts' = receipts \cup Refused(reply.events, FloorOver(ackDisk))
    BY CommitIs
<1>2. reply.events \subseteq HeldEvents \cup (recorded \cup receipts) \cup lost
    BY <1>1 DEF IInv, ReplyInv, HistoryInv, NoLoss
<1>3. UNCHANGED <<HeldEvents, lost>>
    BY <1>1 DEF agentVars, HeldEvents, Here
<1> QED BY <1>1, <1>2, <1>3 DEF NewRows, Refused, Handoff!Keep

LEMMA HandoffStep ==
    ASSUME IInv, TypeOK', [Next]_vars
    PROVE  [Handoff!Next]_(Handoff!vars)
<1> USE DEF Handoff!vars, Handoff!Next
<1>1. CASE UNCHANGED <<agentVars, recorded, receipts>>
    BY <1>1 DEF agentVars, HeldEvents, Here
<1>2. CASE AgentStep /\ UNCHANGED <<hubVars, net, reply>>
    <2>1. UNCHANGED <<recorded, receipts>>
        BY <1>2 DEF hubVars, hubHistory
    <2>2. CASE Emit
        BY <1>2, <2>2, EmitRefines
    <2>3. CASE queue' = {} /\ lost' = lost \cup HeldEvents
        BY <2>1, <2>3 DEF HeldEvents, Handoff!Lose
    <2>4. CASE ~up /\ UNCHANGED <<queue, lost>>
        BY <2>1, <2>4 DEF IInv, AgentInv, HeldEvents
    <2> QED BY <1>2, <2>2, <2>3, <2>4 DEF AgentStep, AgentStop, AgentStart, NewPairing, Rollback, LegacyRead
<1>3. ASSUME NEW m \in net, AgentServe(m) PROVE Handoff!Settle
    BY <1>3, ServeRefines
<1>4. CASE Commit
    BY <1>4, CommitRefines
<1>5. \/ UNCHANGED <<agentVars, recorded, receipts>>
      \/ AgentStep /\ UNCHANGED <<hubVars, net, reply>>
      \/ \E m \in net : AgentServe(m)
      \/ Commit
    BY DEF Next, vars, hubVars, hubHistory, OperatorStep, Register, Remove, SetEnabled, Delivered,
           HubStart, DamageAcks, AdoptOffline, PollStatus, Admit, Refuse, Reject, Timeout, HubCrash
<1> QED BY <1>1, <1>2, <1>3, <1>4, <1>5

\* Every behaviour of the channel is one of the hand-over: what the Agent lets
\* go of, the Hub keeps, or it is lost in a way the design names.
THEOREM Refinement == Spec => HandoffSpec
<1>1. Init => Handoff!Init
    <2> SUFFICES ASSUME Init PROVE Handoff!Init
        OBVIOUS
    <2>1. IInv /\ lost = {}
        BY InitIInv DEF Init, AgentInit
    <2> QED BY <2>1, HeldTrue DEF IInv, TypeOK, HubTypeOK, HeldOK, Handoff!Init
<1>2. IInv /\ [Next]_vars => [Handoff!Next]_(Handoff!vars)
    BY HandoffStep, TypeStep DEF IInv
<1> QED BY <1>1, <1>2, Invariance, PTL DEF Spec, HandoffSpec, Handoff!Spec
=============================================================================
