---------------------------- MODULE RemoteAttempt ---------------------------
(***************************************************************************)
(* One stage of a film run by a remote GPU worker: the controller's store  *)
(* (workflow/film_store.py, worker_store.py, remote_attempts.py), the      *)
(* worker's session and run threads (remote_worker.py, remote_dispatch.py) *)
(* and the HTTP requests between them.  Either side may lose what it has   *)
(* in memory, a request may be given up and still arrive, a child process  *)
(* may outlive the worker that launched it.  Every action is one store     *)
(* transaction, one request handler or one step of a worker thread.        *)
(***************************************************************************)
EXTENDS Naturals, FiniteSets

CONSTANTS
    MaxAttempt,     \* bound: attempts the worker makes at the stage
    MaxFault        \* bound: crashes, lost replies, failed reads and writes,
                    \* lost results, interventions of the operator

VARIABLES
    stage,          \* stages.status
    cur,            \* stages.current_attempt_id, 0 for none
    asg,            \* assignments.state, by attempt
    from,           \* assignments.boot_id
    end,            \* how the attempt was resolved (its evidence)
    wboot,          \* workers.current_boot_id, 0 for none
    reconciled,     \* worker_boots.reconciled of that boot
    beat,           \* FleetLive: boot of the last heartbeat, 0 for none
    requeued,       \* host.cancels
    file,           \* attempts/<a>.json: its outcome so far
    work,           \* work/<a>/: the stage's result
    child,          \* attempts whose recorded child process lives
    boot,           \* the worker's boot id, 0 while it is down
    sess,           \* where its session thread stands
    trusted,        \* RemoteDispatcher._reconciled
    held,           \* _held
    queue,          \* _deliver
    cancelled,      \* _cancelled
    doomed,         \* _resolved: to be collected on a complete inventory
    run,            \* what the run thread does
    holding,        \* _holding: the GPU lease
    net,            \* requests under way
    answer,         \* the reply to the boot request
    made, boots,    \* attempts and boots so far
    faults,
    misread         \* history: attempts settled by a boot request of an earlier
                    \* process, or whose record went after their claim landed

store == <<stage, cur, asg, from, end>>
bootRow == <<wboot, reconciled>>
fleet == <<beat, requeued>>
disk == <<file, work, child>>
session == <<sess, trusted, answer>>
lists == <<held, queue, cancelled, doomed>>
worker == <<boot, session, lists, run, holding>>
counts == <<made, boots>>
vars == <<store, bootRow, fleet, disk, worker, net, counts, faults, misread>>

Attempts == 1 .. MaxAttempt
Boots == 0 .. MaxFault + 1
Idle == [at |-> "idle", a |-> 0, out |-> "none"]
NoReply == [ok |-> FALSE, held |-> {}, gone |-> {}, finish |-> {}, some |-> FALSE]

Init ==
    /\ stage = "pending" /\ cur = 0
    /\ asg = [a \in Attempts |-> "none"] /\ from = [a \in Attempts |-> 0]
    /\ end = [a \in Attempts |-> "none"]
    /\ wboot = 0 /\ reconciled = FALSE /\ beat = 0 /\ requeued = {}
    /\ file = [a \in Attempts |-> "none"] /\ work = [a \in Attempts |-> "none"]
    /\ child = {}
    /\ boot = 0 /\ sess = "down" /\ trusted = FALSE /\ answer = NoReply
    /\ held = {} /\ queue = {} /\ cancelled = {} /\ doomed = {}
    /\ run = Idle /\ holding = FALSE
    /\ net = {} /\ made = 0 /\ boots = 0 /\ faults = 0 /\ misread = {}

Fault == faults < MaxFault /\ faults' = faults + 1

Open == {a \in Attempts : asg[a] \in {"running", "unknown"}}

\* The attempt files a listing of the folder shows, and those with an outcome.
Listed == {a \in Attempts : file[a] \notin {"none", "refused"}}
Settled == {a \in Listed : file[a] # "open"}

\* The attempt of _active.
Active == IF run.at \in {"claimed", "running", "settling", "deliver", "finishing"}
          THEN {run.a} ELSE {}

\* An inventory in which the entries U could not be read; 0 stands for one that
\* is no record, such as the temporary file of a save.
Unread(U) == IF U = {} THEN UNCHANGED faults ELSE Fault

Ghost(m) == [m EXCEPT !.live = FALSE]

-----------------------------------------------------------------------------
(* The boot of a worker.                                                   *)

Start ==
    /\ boot = 0
    /\ boots' = boots + 1 /\ boot' = boots + 1 /\ sess' = "recover"
    /\ UNCHANGED <<store, bootRow, fleet, disk, trusted, answer, lists, run, holding, net,
                   made, faults, misread>>

\* The records A go with their work folders, if nothing in the folder is unknown;
\* else they wait.  A record put aside stays.
Collect(A, U) ==
    IF U = {}
    THEN /\ file' = [a \in Attempts |-> IF a \in A \cap Listed THEN "none" ELSE file[a]]
         /\ work' = [a \in Attempts |-> IF a \in A \cap Open /\ work[a] # "none"
                                        THEN "lost" ELSE work[a]]
         /\ doomed' = doomed \ A /\ cancelled' = cancelled \ A /\ held' = held \ A
         /\ misread' = misread \cup (A \cap Open)
    ELSE doomed' = doomed \cup A /\ UNCHANGED <<file, work, cancelled, held, misread>>

\* The controller is asked about every record.
Recover(U) ==
    /\ sess = "recover" /\ Unread(U)
    /\ answer' = [NoReply EXCEPT !.held = U,
                                 !.gone = {a \in Listed \ U : asg[a] \in {"none", "resolved"}}]
    /\ sess' = "collect"
    /\ UNCHANGED <<store, bootRow, fleet, disk, boot, trusted, lists, run, holding, net,
                   counts, misread>>

\* What it does not know, or has resolved, is collected.
RecoverCollect ==
    /\ sess = "collect" /\ Collect(answer.gone, answer.held)
    /\ answer' = NoReply /\ sess' = "boot"
    /\ UNCHANGED <<store, bootRow, fleet, child, boot, trusted, queue, run, holding, net,
                   counts, faults>>

\* _sweep_orphans on a complete inventory, between two ticks of the run thread.
Sweep ==
    /\ doomed # {} /\ boot # 0 /\ run.at \in {"idle", "unsaved", "settling"}
    /\ Collect(doomed, {})
    /\ UNCHANGED <<store, bootRow, fleet, child, boot, session, queue, run, holding,
                   net, counts, faults>>

\* Mutation of Report: an unreadable record is left out.
ReportReadable(U) ==
    [kind |-> "boot", boot |-> boot, live |-> TRUE,
     alive |-> (Listed \cap child) \ U,
     show |-> {a \in Listed \ U : work[a] \in {"good", "bad"} \/ file[a] # "open"},
     blind |-> FALSE]

\* An unreadable record counts as one with a living child.
Report(U) ==
    [kind |-> "boot", boot |-> boot, live |-> TRUE,
     alive |-> (Listed \cap child) \cup U,
     show |-> {a \in Listed \ U : work[a] \in {"good", "bad"} \/ file[a] # "open"},
     blind |-> U # {}]

PostBoot(U) ==
    /\ sess = "boot" /\ Unread(U)
    /\ net' = net \cup {Report(U)}
    /\ sess' = "posted"
    /\ UNCHANGED <<store, bootRow, fleet, disk, boot, trusted, answer, lists, run, holding,
                   counts, misread>>

Earlier(m) == {a \in Open : from[a] # m.boot}
Held(m) == {a \in Earlier(m) : a \in m.alive \/ (m.blind /\ a \notin m.show)}
Finish(m) == {a \in Earlier(m) : a \notin m.alive /\ a \in m.show}
Interrupted(m) == Earlier(m) \ (Held(m) \cup Finish(m))

\* Mutation of SettleBoot: a new boot puts a stage in doubt that nothing holds.
SettleBootAll(m) ==
    LET gone     == Interrupted(m)
        isolated == wboot # m.boot
    IN /\ asg' = [a \in Attempts |-> IF a \in gone THEN "resolved"
                                     ELSE IF isolated /\ a \in Open THEN "unknown" ELSE asg[a]]
       /\ end' = [a \in Attempts |-> IF a \in gone THEN "interrupted" ELSE end[a]]
       /\ stage' = IF gone # {} THEN "failed"
                   ELSE IF isolated THEN "unknown" ELSE stage
       /\ wboot' = m.boot /\ reconciled' = (Open = gone)
       /\ misread' = misread \cup {a \in gone : from[a] > m.boot}
       /\ UNCHANGED <<cur, from>>

\* record_boot isolates what is open when the boot id is new, settle_boot gives
\* the verdicts, and the boot is reconciled once nothing is open.
SettleBoot(m) ==
    LET gone     == Interrupted(m)
        isolated == wboot # m.boot
    IN /\ asg' = [a \in Attempts |-> IF a \in gone THEN "resolved"
                                     ELSE IF isolated /\ a \in Open THEN "unknown" ELSE asg[a]]
       /\ end' = [a \in Attempts |-> IF a \in gone THEN "interrupted" ELSE end[a]]
       /\ stage' = IF gone # {} THEN "failed"
                   ELSE IF isolated /\ Open # {} THEN "unknown" ELSE stage
       /\ wboot' = m.boot /\ reconciled' = (Open = gone)
       /\ misread' = misread \cup {a \in gone : from[a] > m.boot}
       /\ UNCHANGED <<cur, from>>

HandleBoot(m) ==
    /\ m.kind = "boot"
    /\ SettleBoot(m)
    /\ net' = net \ {m}
    /\ answer' = IF m.live
                 THEN [ok |-> Open = Interrupted(m), held |-> Held(m), gone |-> Interrupted(m),
                       finish |-> Finish(m), some |-> TRUE]
                 ELSE answer
    /\ UNCHANGED <<fleet, disk, boot, sess, trusted, lists, run, holding, counts, faults>>

\* The reply is lost: the same bytes are sent again.
LoseBootReply(m) ==
    /\ m.kind = "boot" /\ m.live /\ Fault
    /\ SettleBoot(m)
    /\ UNCHANGED <<fleet, disk, worker, net, counts>>

\* The verdicts, over the folder as it is now: what cannot be read is held.
Booted(U) ==
    /\ sess = "posted" /\ answer.some /\ Unread(U)
    /\ LET now   == answer.held \cup (U \cap (answer.gone \cup answer.finish))
           ready == (answer.finish \ U) \cap Listed
           loose == Settled \ (U \cup answer.gone \cup answer.held \cup Active)
           gone  == answer.gone \ U
       IN /\ file' = [a \in Attempts |->
                        IF a \in gone /\ U = {} THEN "none"
                        ELSE IF a \in ready /\ file[a] = "open"
                             THEN IF work[a] \in {"good", "bad"} THEN "ok" ELSE "failed"
                        ELSE file[a]]
          /\ IF U = {} THEN doomed' = doomed \ gone /\ cancelled' = cancelled \ gone
                       ELSE doomed' = doomed \cup gone /\ UNCHANGED cancelled
          /\ held' = now /\ queue' = queue \cup ready \cup loose
          /\ holding' = (holding \/ now # {})
    /\ trusted' = answer.ok /\ answer' = NoReply /\ sess' = "beat"
    /\ UNCHANGED <<store, bootRow, fleet, work, child, boot, run, net, counts, misread>>

\* Mutation of Heartbeat: the controller's call for reconciliation is ignored.
HeartbeatDeaf ==
    /\ sess = "beat"
    /\ beat' = boot
    /\ cancelled' = cancelled \cup (requeued \cap Open) \cup {a \in Active : a \notin Open}
    /\ sess' = IF ~trusted /\ held = {} THEN "boot" ELSE "beat"
    /\ UNCHANGED <<store, bootRow, requeued, disk, boot, trusted, answer, held, queue, doomed,
                   run, holding, net, counts, faults, misread>>

\* A beat names what to cancel and whether the boot has to be posted again.
Heartbeat ==
    /\ sess = "beat"
    /\ beat' = boot
    /\ cancelled' = cancelled \cup (requeued \cap Open)
                              \cup {a \in Active : a \notin Open \/ cur # a}
    /\ sess' = IF wboot # boot \/ ~reconciled \/ ~trusted THEN "boot" ELSE "beat"
    /\ UNCHANGED <<store, bootRow, requeued, disk, boot, trusted, answer, held, queue, doomed,
                   run, holding, net, counts, faults, misread>>

-----------------------------------------------------------------------------
(* The run thread.                                                         *)

Goto(at) == run' = [run EXCEPT !.at = at]

\* Mutation of Release: a held child does not keep the GPU.
ReleaseAlways(h) == holding' = FALSE

\* _release, when h is what is held.
Release(h) == holding' = (holding /\ h # {})

\* The gate, the attempt file, and the first send of the claim.  The stage's
\* version that the claim names stands for the attempt that was current.
Claim ==
    /\ run = Idle /\ queue = {} /\ held = {} /\ trusted
    /\ stage = "pending" /\ made < MaxAttempt
    /\ made' = made + 1
    /\ file' = [file EXCEPT ![made'] = "open"]
    /\ run' = [at |-> "claiming", a |-> made', out |-> "none"]
    /\ net' = net \cup {[kind |-> "claim", a |-> made', boot |-> boot, base |-> cur,
                         live |-> TRUE]}
    /\ holding' = TRUE
    /\ UNCHANGED <<store, bootRow, fleet, work, child, boot, session, lists, boots,
                   faults, misread>>

Admissible(m) ==
    /\ stage = "pending" /\ cur = m.base
    /\ wboot = m.boot /\ reconciled /\ Open = {}
    /\ beat = wboot

\* A new claim, or the replay of one the store already has.
AcceptClaim(m) ==
    /\ m.kind = "claim"
    /\ \/ asg[m.a] # "none" /\ UNCHANGED store
       \/ /\ asg[m.a] = "none" /\ Admissible(m)
          /\ asg' = [asg EXCEPT ![m.a] = "running"] /\ from' = [from EXCEPT ![m.a] = m.boot]
          /\ cur' = m.a /\ stage' = "running"
          /\ UNCHANGED end
    /\ net' = net \ {m}
    /\ IF m.live THEN Goto("claimed") /\ file' = [file EXCEPT ![m.a] = "open"]
                 ELSE UNCHANGED <<run, file>>
    /\ UNCHANGED <<bootRow, fleet, work, child, boot, session, lists, holding, counts,
                   faults, misread>>

RefuseClaim(m) ==
    /\ m.kind = "claim" /\ asg[m.a] = "none" /\ ~Admissible(m)
    /\ net' = net \ {m}
    /\ IF m.live
       THEN /\ file' = [file EXCEPT ![m.a] = "none"]
            /\ run' = Idle /\ Release(held)
       ELSE UNCHANGED <<file, run, holding>>
    /\ UNCHANGED <<store, bootRow, fleet, work, child, boot, session, lists, counts,
                   faults, misread>>

\* run_stage launches the child and the attempt's file records it.
Launch ==
    /\ run.at = "claimed"
    /\ child' = child \cup {run.a} /\ file' = [file EXCEPT ![run.a] = "open"]
    /\ Goto("running")
    /\ UNCHANGED <<store, bootRow, fleet, work, boot, session, lists, holding, net,
                   counts, faults, misread>>

\* The ledger and the outputs are written; a bad one will not be accepted.
StageSucceeds(w) ==
    /\ run.at = "running" /\ w \in {"good", "bad"}
    /\ IF w = "bad" THEN Fault ELSE UNCHANGED faults
    /\ work' = [work EXCEPT ![run.a] = w]
    /\ run' = [run EXCEPT !.at = "settling", !.out = "ok"]
    /\ UNCHANGED <<store, bootRow, fleet, file, child, boot, session, lists, holding, net,
                   counts, misread>>

\* A failure, or a stop by the controller or by the worker's own shutdown.
StageFails(out) ==
    /\ run.at \in {"claimed", "running"} /\ out \in {"failed", "cancelled"}
    /\ run' = [run EXCEPT !.at = "settling", !.out = out]
    /\ UNCHANGED <<store, bootRow, fleet, disk, boot, session, lists, holding, net, counts,
                   faults, misread>>

\* The Job is gone: its outcome is saved, or kept until it can be.
Settle(saved) ==
    /\ run.at = "settling" /\ run.a \notin child
    /\ IF saved THEN UNCHANGED faults ELSE Fault
    /\ file' = IF saved THEN [file EXCEPT ![run.a] = run.out] ELSE file
    /\ queue' = queue \cup {run.a}
    /\ Goto(IF saved THEN "deliver" ELSE "unsaved")
    /\ UNCHANGED <<store, bootRow, fleet, work, child, boot, session, held, cancelled, doomed,
                   holding, net, counts, misread>>

SaveAgain ==
    /\ run.at = "unsaved"
    /\ file' = [file EXCEPT ![run.a] = run.out]
    /\ Goto("deliver")
    /\ UNCHANGED <<store, bootRow, fleet, work, child, boot, session, lists, holding, net,
                   counts, faults, misread>>

\* The next attempt to deliver; one without an outcome leaves the list.
Deliver(a) ==
    /\ run = Idle /\ a \in queue
    /\ IF a \in Settled
       THEN run' = [at |-> "deliver", a |-> a, out |-> file[a]] /\ UNCHANGED queue
       ELSE queue' = queue \ {a} /\ UNCHANGED run
    /\ UNCHANGED <<store, bootRow, fleet, disk, boot, session, held, cancelled, doomed,
                   holding, net, counts, faults, misread>>

\* _check_result: a success whose result is gone finishes as a free retry.
Checked == IF run.out = "ok" /\ work[run.a] = "lost" THEN "cancelled" ELSE run.out

\* Mutation of Outcome: the operator's stop wins over a stage that ended well.
OutcomeStopped == IF run.a \in cancelled THEN "cancelled" ELSE Checked

\* _finish_body: the operator's stop wins over a failure, never over a success.
Outcome ==
    IF Checked = "ok" THEN IF work[run.a] = "bad" THEN "bad" ELSE "ok"
    ELSE IF run.a \in cancelled THEN "cancelled" ELSE Checked

SendFinish ==
    /\ run.at = "deliver"
    /\ file' = [file EXCEPT ![run.a] = Checked]
    /\ run' = [run EXCEPT !.at = "finishing", !.out = Checked]
    /\ net' = net \cup {[kind |-> "finish", a |-> run.a, out |-> Outcome, live |-> TRUE]}
    /\ UNCHANGED <<store, bootRow, fleet, work, child, boot, session, lists, holding, counts,
                   faults, misread>>

\* _done: the attempt is collected and the GPU freed.
Done(a) ==
    /\ file' = [file EXCEPT ![a] = "none"]
    /\ queue' = queue \ {a} /\ cancelled' = cancelled \ {a}
    /\ doomed' = doomed \ {a} /\ held' = held \ {a}
    /\ run' = Idle /\ Release(held \ {a})

\* The controller resolves an open attempt; anything else is stored or stale.
HandleFinish(m) ==
    /\ m.kind = "finish" /\ ~(m.a \in Open /\ m.out = "bad")
    /\ IF m.a \in Open /\ cur = m.a
       THEN /\ asg' = [asg EXCEPT ![m.a] = "resolved"]
            /\ end' = [end EXCEPT ![m.a] = IF m.out = "ok" THEN "succeeded" ELSE m.out]
            /\ stage' = IF m.out = "ok" THEN "succeeded" ELSE "failed"
            /\ requeued' = requeued \ {m.a} /\ UNCHANGED <<cur, from>>
       ELSE UNCHANGED <<store, requeued>>
    /\ net' = net \ {m}
    /\ IF m.live THEN Done(m.a) ELSE UNCHANGED <<file, lists, run, holding>>
    /\ UNCHANGED <<bootRow, beat, work, child, boot, session, counts, faults, misread>>

\* 422 for a success: the worker finishes it as failed.
RejectResult(m) ==
    /\ m.kind = "finish" /\ m.a \in Open /\ m.out = "bad"
    /\ net' = net \ {m}
    /\ IF m.live
       THEN /\ file' = [file EXCEPT ![m.a] = "failed"]
            /\ run' = [run EXCEPT !.at = "deliver", !.out = "failed"]
       ELSE UNCHANGED <<file, run>>
    /\ UNCHANGED <<store, bootRow, fleet, work, child, boot, session, lists, holding, counts,
                   faults, misread>>

\* _refused: a failure the controller will never accept is put aside.
RefuseFinish(m) ==
    /\ m.kind = "finish" /\ m.live /\ m.out \in {"failed", "cancelled"} /\ Fault
    /\ net' = net \ {m}
    /\ file' = [file EXCEPT ![m.a] = "refused"]
    /\ queue' = queue \ {m.a} /\ cancelled' = cancelled \ {m.a}
    /\ run' = Idle /\ Release(held)
    /\ UNCHANGED <<store, bootRow, fleet, work, child, boot, session, held, doomed,
                   counts, misread>>

\* The gate is closed: an idle thread gives the GPU back.
IdleRelease ==
    /\ run = Idle /\ queue = {} /\ holding /\ Release(held)
    /\ UNCHANGED <<store, bootRow, fleet, disk, boot, session, lists, run, net, counts,
                   faults, misread>>

-----------------------------------------------------------------------------
(* Requests without an answer, crashes, processes and the operator.        *)

\* The worker gives up on a request, which may still arrive, and sends it again.
GiveUp(m) ==
    /\ m.live /\ Fault
    /\ IF m.kind = "finish"
       THEN net' = (net \ {m}) \cup {Ghost(m)} /\ Goto("deliver")
       ELSE net' = net \cup {Ghost(m)} /\ UNCHANGED run
    /\ UNCHANGED <<store, bootRow, fleet, disk, boot, session, lists, holding, counts,
                   misread>>

\* Children may survive; the lease and everything else in memory does not.
Crash ==
    /\ boot # 0 /\ Fault
    /\ boot' = 0 /\ sess' = "down" /\ trusted' = FALSE /\ answer' = NoReply
    /\ held' = {} /\ queue' = {} /\ cancelled' = {} /\ doomed' = {}
    /\ run' = Idle /\ holding' = FALSE
    /\ net' = {Ghost(m) : m \in net}
    /\ UNCHANGED <<store, bootRow, fleet, disk, counts, misread>>

\* An error ends the session; the loop begins another with the same dispatcher.
SessionBreaks ==
    /\ sess = "beat" /\ Fault
    /\ sess' = "recover"
    /\ UNCHANGED <<store, bootRow, fleet, disk, boot, trusted, answer, lists, run, holding, net,
                   counts, misread>>

ChildEnds(a) ==
    /\ a \in child
    /\ child' = child \ {a}
    /\ UNCHANGED <<store, bootRow, fleet, file, work, worker, net, counts, faults, misread>>

LoseResult(a) ==
    /\ work[a] \in {"good", "bad"} /\ file[a] # "none" /\ Fault
    /\ work' = [work EXCEPT ![a] = "lost"]
    /\ UNCHANGED <<store, bootRow, fleet, file, child, worker, net, counts, misread>>

\* The operator's stop-and-requeue of a running attempt.  The code refuses it
\* when the last beat showed the stage settled; the model does not count on it.
Requeue(a) ==
    /\ a \in Open /\ cur = a /\ a \notin requeued /\ Fault
    /\ requeued' = requeued \cup {a}
    /\ UNCHANGED <<store, bootRow, beat, disk, worker, net, counts, misread>>

\* The operator declares a silent worker's attempt stopped, rightly or not.
Attest(a) ==
    /\ a \in Open /\ Fault
    /\ asg' = [asg EXCEPT ![a] = "resolved"] /\ end' = [end EXCEPT ![a] = "attested"]
    /\ stage' = "failed"
    /\ UNCHANGED <<cur, from, bootRow, fleet, disk, worker, net, counts, misread>>

\* The retry that follows a resolution, or the controller's next start.
FreeRetry ==
    /\ stage = "failed" /\ Open = {} /\ cur # 0
    /\ end[cur] \in {"interrupted", "cancelled", "attested"}
    /\ stage' = "pending"
    /\ UNCHANGED <<cur, asg, from, end, bootRow, fleet, disk, worker, net, counts,
                   faults, misread>>

OperatorRetry ==
    /\ stage = "failed" /\ Open = {}
    /\ stage' = "pending"
    /\ UNCHANGED <<cur, asg, from, end, bootRow, fleet, disk, worker, net, counts,
                   faults, misread>>

ControllerRestart ==
    /\ beat # 0 /\ Fault
    /\ beat' = 0 /\ requeued' = {}
    /\ UNCHANGED <<store, bootRow, disk, worker, net, counts, misread>>

-----------------------------------------------------------------------------
Handle(m) ==
    \/ HandleBoot(m) \/ LoseBootReply(m)
    \/ AcceptClaim(m) \/ RefuseClaim(m)
    \/ HandleFinish(m) \/ RejectResult(m) \/ RefuseFinish(m)
    \/ GiveUp(m)

Session ==
    \/ Heartbeat \/ RecoverCollect
    \/ \E U \in SUBSET (Listed \cup {0}) : Recover(U) \/ PostBoot(U) \/ Booted(U)

RunThread ==
    \/ Claim \/ Launch \/ SaveAgain \/ SendFinish \/ IdleRelease \/ Sweep
    \/ \E w \in {"good", "bad"} : StageSucceeds(w)
    \/ \E out \in {"failed", "cancelled"} : StageFails(out)
    \/ \E saved \in BOOLEAN : Settle(saved)
    \/ \E a \in Attempts : Deliver(a)

Next ==
    \/ Start \/ Session \/ RunThread \/ Crash \/ SessionBreaks
    \/ \E m \in net : Handle(m)
    \/ \E a \in Attempts : ChildEnds(a) \/ LoseResult(a) \/ Requeue(a) \/ Attest(a)
    \/ FreeRetry \/ OperatorRetry \/ ControllerRestart

Spec == Init /\ [][Next]_vars

\* The worker is started again, its threads go on, requests that were not given
\* up are answered, and child processes end.
FairSpec ==
    /\ Spec
    /\ WF_vars(Start) /\ WF_vars(Session)
    /\ WF_vars(Launch \/ SaveAgain \/ SendFinish \/ StageSucceeds("good")
               \/ Settle(TRUE) \/ \E a \in Attempts : Deliver(a))
    /\ \A k \in {"boot", "claim", "finish"} :
          WF_vars(\E m \in {n \in net : n.live /\ n.kind = k} : Handle(m))
    /\ WF_vars(\E a \in Attempts : ChildEnds(a))

-----------------------------------------------------------------------------
\* The variables have their types; a stage runs, or is in doubt, exactly
\* while its current attempt is open, and no other attempt ever is.
TypeOK ==
    /\ stage \in {"pending", "running", "unknown", "failed", "succeeded"}
    /\ cur \in 0 .. MaxAttempt /\ made \in 0 .. MaxAttempt
    /\ asg \in [Attempts -> {"none", "running", "unknown", "resolved"}]
    /\ end \in [Attempts -> {"none", "succeeded", "failed", "cancelled", "interrupted",
                             "attested"}]
    /\ {wboot, beat, boot, boots} \subseteq Boots /\ from \in [Attempts -> Boots]
    /\ file \in [Attempts -> {"none", "open", "ok", "failed", "cancelled", "refused"}]
    /\ work \in [Attempts -> {"none", "good", "bad", "lost"}]
    /\ {reconciled, trusted, holding} \subseteq BOOLEAN
    /\ sess \in {"down", "recover", "collect", "boot", "posted", "beat"}
    /\ \A A \in {child, requeued, held, queue, cancelled, doomed} : A \subseteq Attempts
    /\ run.at \in {"idle", "claiming", "claimed", "running", "settling", "unsaved", "deliver",
                   "finishing"}
    /\ faults \in 0 .. MaxFault /\ misread \subseteq Attempts
    /\ Open \subseteq {cur} /\ (stage \in {"running", "unknown"} <=> Open # {})

\* An attempt is resolved only when its child is dead, unless the operator said so
\* (settle_boot, finish).  As the comments at remote_attempts.py:408 have it, "a lost
\* reply is never proof of a stop: only the worker's own report of its dead children
\* is".  What misread names breaks this.
ResolvedMeansStopped ==
    \A a \in child : asg[a] = "resolved" => end[a] = "attested"

\* But for what was misread, no lost reply, restart, unreadable record or repeated
\* boot is taken for a stop.
StoppedUnlessMisread ==
    \A a \in child : asg[a] = "resolved" => end[a] = "attested" \/ a \in misread

\* A result that was finished and is still there is never run again: while its
\* attempt is open the worker keeps the record that leads to it, and it is
\* resolved as a success whatever was cancelled or restarted (section 11 CX5).
FinishedWorkKept ==
    \A a \in Attempts : work[a] = "good" /\ a \notin misread =>
        /\ a \in Open => a \in Listed
        /\ asg[a] = "resolved" => end[a] \in {"succeeded", "attested"}

\* A worker that lives does not give up the GPU while a child it is answerable
\* for runs, of this boot or an earlier one (_release, section 11 CX2), unless the
\* attempt was misread.
GpuKept ==
    [][boot' = boot /\ holding /\ ~holding' =>
         \A a \in child : end[a] = "attested" \/ a \in misread]_vars

\* An attempt that the controller has given out and the worker has on record, or had
\* until it was misread, does not stay open: it is resolved in the end, unless the
\* controller refused even its failure.  Only the current attempt is ever open (TypeOK).
EveryClaimSettles ==
    []<>(cur \notin Open \cap (Listed \cup misread) \/ file[cur] = "refused")

\* What an attempt's end says of it is true: it has stopped, and its finished
\* work counts.
EndsTrue == TypeOK /\ StoppedUnlessMisread /\ FinishedWorkKept

\* The GPU is held while a child may run, and every attempt is settled.
AttemptsEnd == GpuKept /\ EveryClaimSettles
=============================================================================
