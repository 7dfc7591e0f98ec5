-------------------------------- MODULE MCHub --------------------------------
(***************************************************************************)
(* The Hub's sending side for TLC: the owner of the helper process and the *)
(* outbox it drains share no state that either model keeps, so each is     *)
(* checked by itself; `part` says which of the two a behaviour is of.      *)
(***************************************************************************)
EXTENDS DeliveryWorker

CONSTANTS Sids, Names, NoName, MaxRow, Limit, MaxAttempts, MaxFault, MaxAdmin

VARIABLES
    part,
    name, seen, rows, due, active, cycle, batch, pc, outcome, owner, fate, oks, lost, faults, admin

O == INSTANCE Outbox

outboxVars == <<name, seen, rows, due, active, cycle, batch, pc, outcome, owner, fate, oks,
                lost, faults, admin>>
hub == <<part, vars, outboxVars>>

HubInit == part \in {"delivery", "outbox"} /\ Init /\ O!Init

Delivery(A) == part = "delivery" /\ A /\ UNCHANGED <<part, outboxVars>>
Drains(A) == part = "outbox" /\ A /\ UNCHANGED <<part, vars>>

HubNext == Delivery(Next) \/ Drains(O!Next)

\* The fairness of each part, while it is the one that runs.
HubSpec ==
    /\ HubInit /\ [][HubNext]_hub
    /\ WF_hub(Delivery(WorkerStep))
    /\ \A t \in Testers :
        WF_hub(Delivery(TestCalls(t) \/ TestEnds(t) \/ (RequestStep(t) /\ UNCHANGED wvars)))
    /\ WF_hub(Delivery(RequestStep(Service) /\ UNCHANGED wvars))
    /\ WF_hub(Drains(O!Drain))
    /\ \A i \in 1 .. MaxRow : WF_hub(Drains(i \in O!Present /\ O!Elapse(i)))

-----------------------------------------------------------------------------
\* No notification leaves the table unseen, and none goes out twice but for a
\* success that was not recorded (Poller._drain_outbox).
OutboxSafe == O!TypeOK /\ O!NoSilentLoss /\ O!DuplicatesNeedFaults

\* While OpenClaw is on, a due row is sent or given up (Poller._drain_outbox).
OutboxSettles == O!EventuallySettled
=============================================================================
