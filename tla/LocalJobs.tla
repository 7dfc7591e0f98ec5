----------------------------- MODULE LocalJobs ------------------------------
(***************************************************************************)
(* The controller's own execution of stages: the boot that settles what an *)
(* earlier process left, the one dispatch thread that admits, claims, runs *)
(* and resolves, the processes of an attempt, the GPU it shares with the   *)
(* manual tasks of the same agent, a pause, a stop and a crash.            *)
(***************************************************************************)
EXTENDS LocalStore

CONSTANTS MaxFault      \* bound: crashes, stops, pauses, hung children, failed writes

VARIABLES
    boot,           \* boot_id of the running process, counted
    reconciled,     \* LocalRuntime.reconciled
    began,          \* the dispatch thread has started
    pc, cur, todo,  \* where the thread is, with which job, what its pass has left
    outcome,        \* the ExecOutcome of cur
    fresh,          \* the version read for the resolution is still the row's
    renewer,        \* the renewal thread of the attempt
    tree,           \* tree[j]: the processes of the attempt, and the boot they started in
    gpu,            \* who has the process-wide lease
    paused, pauser, \* the flag, and the caller of set_paused(True)
    cancel,         \* the stop event
    stranded,       \* history: jobs whose resolution failed in this process
    faults

thread == <<boot, reconciled, began, pc, cur, todo, outcome, fresh, renewer>>
control == <<paused, pauser, cancel>>
vars == <<rows, file, thread, tree, gpu, control, stranded, faults>>

Classes == {"ok", "transient", "attention"}
Nobody == -1
NoTree == [state |-> "none", boot |-> 0, named |-> TRUE]

Init ==
    /\ StoreInit
    /\ boot = 0 /\ reconciled = FALSE /\ began = FALSE
    /\ pc = "down" /\ cur = Nobody /\ todo = {} /\ outcome = "none"
    /\ fresh = FALSE /\ renewer = "none"
    /\ tree = [j \in Jobs |-> NoTree]
    /\ gpu = "free"
    /\ paused = FALSE /\ pauser = "none" /\ cancel = FALSE
    /\ stranded = {} /\ faults = 0

Fault == faults < MaxFault /\ faults' = faults + 1
Goto(l) == pc' = l
Living(j) == tree[j].state # "none"

\* _release, _release_if_holding.
GiveBack == gpu' = IF gpu = "workflow" THEN "free" ELSE gpu

-----------------------------------------------------------------------------
(* The boot, and what earlier boots left.                                  *)

\* open, ensure_worker and start_boot up to the settlement.
Boot ==
    /\ pc = "down" /\ boot < MaxBoot
    /\ boot' = boot + 1
    /\ reconciled' = FALSE /\ began' = FALSE
    /\ RecordBoot(boot')
    /\ Goto("settle")
    /\ UNCHANGED <<file, cur, todo, outcome, fresh, renewer, tree, gpu, control, stranded,
                   faults>>

\* What settle_previous lists.
Left == {j \in Jobs : Held(j) /\ asg[j] # boot}

\* Mutation of Gone: the children the file names are not waited for.
GoneAnyway(j) == TRUE

\* _wait_gone, of the children the file names.
Gone(j) == file[j] = "child" => ~Living(j)

\* _resolve_interrupted.
Interrupt(j) ==
    /\ pc = "settle" /\ j \in Left /\ Gone(j)
    /\ Resolve(j, "interrupted")
    /\ file' = [file EXCEPT ![j] = "none"]
    /\ Goto("requeue") /\ cur' = j
    /\ UNCHANGED <<boot, reconciled, began, todo, outcome, fresh, renewer, tree, gpu,
                   control, stranded, faults>>

\* _resolve_interrupted, its retry.
Requeue ==
    /\ pc = "requeue"
    /\ RetryIfDue({cur})
    /\ Goto("settle") /\ cur' = Nobody
    /\ UNCHANGED <<asg, last, transients, tries, bootRow, file, boot, reconciled, began, todo,
                   outcome, fresh, renewer, tree, gpu, control, stranded, faults>>

\* settle_previous, its end: reconciled, or blocked by a child that runs.
SettleEnds ==
    /\ pc = "settle" /\ \A j \in Left : ~Gone(j)
    /\ reconciled' = (Left = {})
    /\ IF Left = {} THEN RecordBoot(boot) ELSE UNCHANGED rows
    /\ Goto(IF began THEN "top" ELSE "retries")
    /\ UNCHANGED <<file, boot, began, cur, todo, outcome, fresh, renewer, tree, gpu, control,
                   stranded, faults>>

\* _loop begins.
LoopBegins ==
    /\ pc = "retries"
    /\ ReconcileRetries
    /\ began' = TRUE /\ Goto("top")
    /\ UNCHANGED <<asg, last, transients, tries, bootRow, file, boot, reconciled, cur, todo,
                   outcome, fresh, renewer, tree, gpu, control, stranded, faults>>

-----------------------------------------------------------------------------
(* Admission: held from the check for a pause to the claim.                *)

Admitting == pc \in {"admit", "ready", "send"}

\* run_once of a boot that is not reconciled.
SettleAgain ==
    /\ pc = "top" /\ ~cancel /\ ~reconciled
    /\ Goto("settle")
    /\ UNCHANGED <<rows, file, boot, reconciled, began, cur, todo, outcome, fresh, renewer,
                   tree, gpu, control, stranded, faults>>

\* run_once and the head of _admit_and_run: the pending jobs, read once.
Admit ==
    /\ pc = "top" /\ ~cancel /\ reconciled
    /\ IF paused
       THEN GiveBack /\ UNCHANGED <<pc, todo>>
       ELSE /\ todo' = {j \in Jobs : stage[j] = "pending"}
            /\ Goto("admit")
            /\ UNCHANGED gpu
    /\ UNCHANGED <<rows, file, boot, reconciled, began, cur, outcome, fresh, renewer, tree,
                   control, stranded, faults>>

First == CHOOSE j \in todo : \A k \in todo : j <= k

\* _paused_exit, and a pass that found nothing to run.
PassEnds ==
    /\ pc = "admit" /\ (paused \/ todo = {})
    /\ GiveBack
    /\ todo' = {} /\ Goto("top")
    /\ UNCHANGED <<rows, file, boot, reconciled, began, cur, outcome, fresh, renewer, tree,
                   control, stranded, faults>>

\* A GPU stage waits in the lease's queue while the pass looks further.
GpuTaken ==
    /\ pc = "admit" /\ ~paused /\ todo # {}
    /\ First \in GpuJobs /\ gpu = "manual"
    /\ todo' = todo \ {First}
    /\ UNCHANGED <<rows, file, boot, reconciled, began, pc, cur, outcome, fresh, renewer, tree,
                   gpu, control, stranded, faults>>

\* _acquire or _leave_queue, and _execute is entered.
Pick ==
    /\ pc = "admit" /\ ~paused /\ todo # {}
    /\ First \in GpuJobs => gpu # "manual"
    /\ gpu' = IF First \in GpuJobs THEN "workflow" ELSE gpu
    /\ cur' = First /\ todo' = todo \ {First}
    /\ Goto("ready")
    /\ UNCHANGED <<rows, file, boot, reconciled, began, outcome, fresh, renewer, tree, control,
                   stranded, faults>>

\* _execute and _execute_step: the flag is read once more.
CheckPause ==
    /\ pc = "ready"
    /\ IF paused THEN GiveBack /\ Goto("admit") ELSE UNCHANGED gpu /\ Goto("send")
    /\ UNCHANGED <<rows, file, boot, reconciled, began, cur, todo, outcome, fresh, renewer,
                   tree, control, stranded, faults>>

\* The claim, and the admission is over.
Claim ==
    /\ pc = "send" /\ ClaimAdmitted(cur, boot)
    /\ RecordClaim(cur, boot)
    /\ renewer' = IF cur \in Compute THEN "idle" ELSE "none"
    /\ Goto("run") /\ todo' = {}
    /\ UNCHANGED <<boot, reconciled, began, cur, outcome, fresh, tree, gpu, control, stranded,
                   faults>>

\* The claim is recorded, and what follows it raises before the stage starts.
ClaimBreaks ==
    /\ pc = "send" /\ ClaimAdmitted(cur, boot) /\ Fault
    /\ RecordClaim(cur, boot)
    /\ stranded' = stranded \cup {cur}
    /\ Goto("top") /\ cur' = Nobody /\ todo' = {}
    /\ UNCHANGED <<boot, reconciled, began, outcome, fresh, renewer, tree, gpu, control>>

\* Refused by the store, or the film is routed to another worker.
ClaimRefused ==
    /\ pc = "send"
    /\ \/ ~ClaimAdmitted(cur, boot) /\ UNCHANGED faults
       \/ Fault
    /\ GiveBack
    /\ Goto("admit")
    /\ UNCHANGED <<rows, file, boot, reconciled, began, cur, todo, outcome, fresh, renewer,
                   tree, control, stranded>>

-----------------------------------------------------------------------------
(* The stage.                                                              *)

\* OwnedJob.launch: the processes of the attempt, taken as one tree.
Launch ==
    /\ pc = "run" /\ file[cur] = "open" /\ ~Living(cur)
    /\ tree' = [tree EXCEPT ![cur] = [state |-> "live", boot |-> boot, named |-> FALSE]]
    /\ Goto("launched")
    /\ UNCHANGED <<rows, file, boot, reconciled, began, cur, todo, outcome, fresh, renewer,
                   gpu, control, stranded, faults>>

\* launched: the attempt file names the child.
NameChild ==
    /\ pc = "launched"
    /\ file' = [file EXCEPT ![cur] = "child"]
    /\ tree' = [tree EXCEPT ![cur].named = TRUE]
    /\ Goto("run")
    /\ UNCHANGED <<rows, boot, reconciled, began, cur, todo, outcome, fresh, renewer, gpu,
                   control, stranded, faults>>

\* The file cannot be written: launch raises, classify_exception.
NameFails ==
    /\ pc = "launched" /\ Fault
    /\ outcome' \in {"transient", "attention"}
    /\ Goto("ended")
    /\ UNCHANGED <<rows, file, boot, reconciled, began, cur, todo, fresh, renewer, tree, gpu,
                   control, stranded>>

\* The executor returns; what is not done at a stop counts as cancelled.
Returns ==
    /\ pc = "run"
    /\ \E c \in Classes : outcome' = IF cancel /\ c # "ok" THEN "cancelled" ELSE c
    /\ Goto("ended")
    /\ UNCHANGED <<rows, file, boot, reconciled, began, cur, todo, fresh, renewer, tree, gpu,
                   control, stranded, faults>>

\* Mutation of Joined: the renewal thread is only told to end.
JoinedLater == TRUE

\* stop_renew is set and the renewal thread joined.
Joined == renewer # "sending"

\* terminate and settle: the tree is gone, or hangs.
Settle ==
    /\ pc = "ended" /\ Joined
    /\ renewer' = IF renewer = "sending" THEN "sending" ELSE "none"
    /\ IF tree[cur].state = "stuck"
       THEN Goto("unsettled") /\ UNCHANGED tree
       ELSE Goto("settled") /\ tree' = [tree EXCEPT ![cur] = NoTree]
    /\ UNCHANGED <<rows, file, boot, reconciled, began, cur, todo, outcome, fresh, gpu,
                   control, stranded, faults>>

\* _finish_unsettled, at the next tick.
FinishUnsettled ==
    /\ pc = "unsettled" /\ ~cancel /\ ~Living(cur)
    /\ Goto("settled")
    /\ UNCHANGED <<rows, file, boot, reconciled, began, cur, todo, outcome, fresh, renewer,
                   tree, gpu, control, stranded, faults>>

\* _renew, on its own thread.
Renew ==
    /\ \/ /\ renewer = "idle" /\ pc \in {"run", "launched"}
          /\ renewer' = "sending" /\ UNCHANGED fresh
       \/ /\ renewer = "sending"
          /\ renewer' = IF pc \in {"run", "launched"} THEN "idle" ELSE "none"
          /\ fresh' = FALSE
    /\ UNCHANGED <<rows, file, boot, reconciled, began, pc, cur, todo, outcome, tree, gpu,
                   control, stranded, faults>>

-----------------------------------------------------------------------------
(* The resolution.                                                         *)

\* _resolve: open_assignment.
ReadVersion ==
    /\ pc = "settled"
    /\ fresh' = TRUE
    /\ Goto("resolve")
    /\ UNCHANGED <<rows, file, boot, reconciled, began, cur, todo, outcome, renewer, tree, gpu,
                   control, stranded, faults>>

\* resolve_assignment, and the attempt file goes.
ResolveDone ==
    /\ pc = "resolve" /\ fresh
    /\ Resolve(cur, outcome)
    /\ file' = [file EXCEPT ![cur] = "none"]
    /\ Goto("retry") /\ outcome' = "none" /\ fresh' = FALSE
    /\ UNCHANGED <<boot, reconciled, began, cur, todo, renewer, tree, gpu, control, stranded,
                   faults>>

\* The store refuses a version that is not the row's; or it fails, and is
\* perhaps no longer available, which ends dispatch.
ResolveFails ==
    /\ pc = "resolve"
    /\ IF fresh
       THEN Fault /\ stranded' = stranded \cup {cur} /\ \E l \in {"top", "dead"} : Goto(l)
       ELSE Goto("top") /\ UNCHANGED <<stranded, faults>>
    /\ GiveBack
    /\ cur' = Nobody /\ outcome' = "none" /\ fresh' = FALSE
    /\ UNCHANGED <<rows, file, boot, reconciled, began, todo, renewer, tree, control>>

\* _retry_if_due, and the lease is given back.
Retry ==
    /\ pc = "retry"
    /\ RetryIfDue({cur})
    /\ GiveBack
    /\ Goto("top") /\ cur' = Nobody
    /\ UNCHANGED <<asg, last, transients, tries, bootRow, file, boot, reconciled, began, todo,
                   outcome, fresh, renewer, tree, control, stranded, faults>>

-----------------------------------------------------------------------------
(* The operator, the system and the other tasks.                           *)

SetPaused ==
    /\ began /\ pc # "down" /\ pauser = "none" /\ Fault
    /\ paused' = TRUE /\ pauser' = "waiting"
    /\ UNCHANGED <<rows, file, thread, tree, gpu, cancel, stranded>>

\* Mutation of PauseReturns: set_paused does not wait for the admission.
PauseReturnsAtOnce ==
    /\ pauser = "waiting"
    /\ pauser' = "told"
    /\ UNCHANGED <<rows, file, thread, tree, gpu, paused, cancel, stranded, faults>>

\* set_paused returns once it had the admission lock.
PauseReturns ==
    /\ pauser = "waiting" /\ ~Admitting
    /\ pauser' = "told"
    /\ UNCHANGED <<rows, file, thread, tree, gpu, paused, cancel, stranded, faults>>

Unpause ==
    /\ pauser = "told"
    /\ paused' = FALSE /\ pauser' = "none"
    /\ UNCHANGED <<rows, file, thread, tree, gpu, cancel, stranded, faults>>

\* retry_failed_stage.
OperatorRetry(j) ==
    /\ pc # "down" /\ Retryable(j)
    /\ stage' = [stage EXCEPT ![j] = "pending"]
    /\ UNCHANGED <<asg, last, transients, tries, bootRow, file, thread, tree, gpu, control,
                   stranded, faults>>

\* skip_stage.
Skip(j) ==
    /\ pc # "down" /\ j \in Compute /\ stage[j] = "pending" /\ ~Held(j)
    /\ stage' = [stage EXCEPT ![j] = "skipped"]
    /\ UNCHANGED <<asg, last, transients, tries, bootRow, file, thread, tree, gpu, control,
                   stranded, faults>>

\* A Jasna or subtitle task of the same process.
ManualTakes ==
    /\ pc # "down" /\ gpu = "free"
    /\ gpu' = "manual"
    /\ UNCHANGED <<rows, file, thread, tree, control, stranded, faults>>

ManualEnds ==
    /\ gpu = "manual"
    /\ gpu' = "free"
    /\ UNCHANGED <<rows, file, thread, tree, control, stranded, faults>>

ChildExits(j) ==
    /\ tree[j].state = "live"
    /\ tree' = [tree EXCEPT ![j] = NoTree]
    /\ UNCHANGED <<rows, file, thread, gpu, control, stranded, faults>>

\* A child hangs in a driver and survives its job object, for a while.
Hangs(j) ==
    /\ tree[j].state = "live" /\ pc # "launched" /\ Fault
    /\ tree' = [tree EXCEPT ![j].state = "stuck"]
    /\ UNCHANGED <<rows, file, thread, gpu, control, stranded>>

Unhangs(j) ==
    /\ tree[j].state = "stuck"
    /\ tree' = [tree EXCEPT ![j] = NoTree]
    /\ UNCHANGED <<rows, file, thread, gpu, control, stranded, faults>>

\* LocalWorkflowHost.stop sets the event.
Stop ==
    /\ began /\ pc # "down" /\ ~cancel /\ Fault
    /\ cancel' = TRUE
    /\ UNCHANGED <<rows, file, thread, tree, gpu, paused, pauser, stranded>>

\* Mutation of LoopEnds: the lease is given back whatever still runs.
LoopEndsReleasing ==
    /\ pc \in {"top", "unsettled"} /\ cancel
    /\ GiveBack
    /\ Goto("exited")
    /\ UNCHANGED <<rows, file, boot, reconciled, began, cur, todo, outcome, fresh, renewer,
                   tree, control, stranded, faults>>

\* _loop ends; a tree that still runs keeps the GPU.
LoopEnds ==
    /\ pc \in {"top", "unsettled"} /\ cancel
    /\ IF pc = "unsettled" THEN UNCHANGED gpu ELSE GiveBack
    /\ Goto("exited")
    /\ UNCHANGED <<rows, file, boot, reconciled, began, cur, todo, outcome, fresh, renewer,
                   tree, control, stranded, faults>>

\* The process is gone: its job objects kill what can be killed.
Down ==
    /\ Goto("down") /\ cur' = Nobody /\ todo' = {} /\ outcome' = "none"
    /\ fresh' = FALSE /\ renewer' = "none"
    /\ tree' = [j \in Jobs |-> IF tree[j].state = "live" THEN NoTree ELSE tree[j]]
    /\ gpu' = "free"
    /\ paused' = FALSE /\ pauser' = "none" /\ cancel' = FALSE
    /\ stranded' = {}
    /\ UNCHANGED <<rows, file, boot, reconciled, began>>

Exit == pc \in {"exited", "dead"} /\ cancel /\ Down /\ UNCHANGED faults

Crash == pc # "down" /\ Fault /\ Down

-----------------------------------------------------------------------------
Thread ==
    \/ \E j \in Jobs : Interrupt(j)
    \/ Requeue \/ SettleEnds \/ LoopBegins \/ SettleAgain
    \/ Admit \/ PassEnds \/ GpuTaken \/ Pick \/ CheckPause
    \/ Claim \/ ClaimBreaks \/ ClaimRefused
    \/ Launch \/ NameChild \/ NameFails \/ Returns \/ Settle \/ FinishUnsettled
    \/ ReadVersion \/ ResolveDone \/ ResolveFails \/ Retry \/ LoopEnds

Next ==
    \/ Boot \/ Thread \/ Renew
    \/ SetPaused \/ PauseReturns \/ Unpause
    \/ \E j \in Jobs : OperatorRetry(j) \/ Skip(j) \/ ChildExits(j) \/ Hangs(j) \/ Unhangs(j)
    \/ ManualTakes \/ ManualEnds
    \/ Stop \/ Exit \/ Crash

Spec == Init /\ [][Next]_vars

\* The thread runs, a renewal ends, a hung child goes in the end, the agent is
\* started again and a stopped one exits.
FairSpec ==
    /\ Spec
    /\ WF_vars(Thread) /\ WF_vars(renewer = "sending" /\ Renew)
    /\ WF_vars(\E j \in Jobs : Unhangs(j))
    /\ WF_vars(Boot \/ Exit)

-----------------------------------------------------------------------------
TypeOK ==
    /\ stage \in [Jobs -> {"pending", "running", "succeeded", "failed", "unknown", "skipped"}]
    /\ asg \in [Jobs -> 0 .. MaxBoot]
    /\ last \in [Jobs -> Classes \cup FreeRetry \cup {"none"}]
    /\ transients \in [Jobs -> 0 .. MaxTry] /\ tries \in [Jobs -> 0 .. MaxTry]
    /\ bootRow \in [id : 0 .. MaxBoot, reconciled : BOOLEAN]
    /\ file \in [Jobs -> {"none", "open", "child"}]
    /\ boot \in 0 .. MaxBoot /\ todo \in SUBSET Jobs /\ cur \in Jobs \cup {Nobody}
    /\ tree \in [Jobs -> [state : {"none", "live", "stuck"}, boot : 0 .. MaxBoot, named : BOOLEAN]]
    /\ gpu \in {"free", "workflow", "manual"} /\ renewer \in {"none", "idle", "sending"}
    /\ pauser \in {"none", "waiting", "told"} /\ stranded \in SUBSET Jobs

\* An attempt is resolved only when no process of it is left, in this boot or
\* an earlier one, so no two compute stages run at once and a retry never
\* meets the processes of the attempt before (settle_previous, _finish_unsettled).
\* A child whose attempt file could not be written is beyond the settlement.
ResolvedMeansGone ==
    /\ \A j \in Jobs : Living(j) /\ tree[j].named => Held(j)
    /\ \A j, k \in Compute :
         Living(j) /\ Living(k) /\ tree[j].named /\ tree[k].named => j = k

\* No manual task of the agent has the GPU while a child of a GPU stage that
\* this process started is alive, hung and stopped ones included (_loop, C4).
LeaseCovers ==
    \A j \in GpuJobs :
        Living(j) /\ tree[j].boot = boot /\ pc # "down" => gpu = "workflow"

\* Once set_paused has returned no stage is claimed until dispatch resumes
\* (_admission).
PauseHonoured ==
    [][\A j \in Jobs : ~Held(j) /\ Held(j)' => pauser # "told"]_vars

Over == pc = "down" /\ boot = MaxBoot

\* What is claimed is resolved in the end, through hung children, stops and
\* crashes, unless the store refused its resolution in this very process or
\* dispatch has ended for it (_resolve, settle_previous).
Settles ==
    \A j \in Jobs : Held(j) ~> (~Held(j) \/ j \in stranded \/ pc = "dead" \/ Over)

\* A stage that was interrupted or cancelled is put back into the queue,
\* wherever the agent stopped between its resolution and its retry
\* (reconcile_retries).
Requeued ==
    \A j \in Jobs :
        stage[j] = "failed" /\ last[j] \in FreeRetry ~> (stage[j] # "failed" \/ pc = "dead" \/ Over)

\* No process of an attempt runs where nothing answers for it.
Contained == TypeOK /\ ResolvedMeansGone /\ LeaseCovers

\* What was claimed is resolved, and what was interrupted runs again.
JobsRecover == Settles /\ Requeued
=============================================================================
