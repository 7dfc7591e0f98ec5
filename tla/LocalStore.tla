----------------------------- MODULE LocalStore -----------------------------
(***************************************************************************)
(* What the workflow store and the attempt files keep of the controller's  *)
(* own work: the stage of a film, its attempts by class, the unresolved    *)
(* assignment that holds the machine, and what a boot finds of earlier     *)
(* ones.                                                                   *)
(***************************************************************************)
EXTENDS Integers, FiniteSets

CONSTANTS
    GpuJobs,        \* compute stages that need the GPU, in the order of list_jobs
    CpuJobs,        \* compute stages that do not
    StepJobs,       \* return and scrape, claimed by a component
    MaxRetries,     \* MAX_AUTO_RETRIES
    MaxTry,         \* bound: attempts of a job
    MaxBoot         \* bound: starts of the agent

Compute == GpuJobs \cup CpuJobs
Jobs == Compute \cup StepJobs

ASSUME JobsAssumption ==
    /\ Jobs \subseteq Nat /\ IsFiniteSet(Jobs)
    /\ MaxRetries \in Nat /\ MaxTry \in Nat /\ MaxBoot \in Nat

VARIABLES
    stage,          \* stages.status
    asg,            \* the unresolved assignment: its boot, or Resolved
    last,           \* the class of the job's last ended attempt
    transients,     \* how many attempts ended as transient
    tries,          \* attempts made, up to MaxTry
    bootRow,        \* workers.boot_id and worker_boots.reconciled
    file            \* attempts/<id>.json of the open attempt: whether it names a child

rows == <<stage, asg, last, transients, tries, bootRow>>

Resolved == 0
Held(j) == asg[j] # Resolved
Owned(js) == {j \in js : Held(j)}

StoreInit ==
    /\ stage = [j \in Jobs |-> "pending"]
    /\ asg = [j \in Jobs |-> Resolved]
    /\ last = [j \in Jobs |-> "none"]
    /\ transients = [j \in Jobs |-> 0]
    /\ tries = [j \in Jobs |-> 0]
    /\ bootRow = [id |-> 0, reconciled |-> FALSE]
    /\ file = [j \in Jobs |-> "none"]

\* _check_worker_claim: the boot is reconciled, the machine has no owner.
WorkerMayClaim(b) ==
    bootRow = [id |-> b, reconciled |-> TRUE] /\ Owned(Compute) = {}

\* claim: still pending, and admissible for who claims it.
ClaimAdmitted(j, b) ==
    /\ stage[j] = "pending" /\ tries[j] < MaxTry
    /\ j \in Compute => WorkerMayClaim(b)

\* claim: the attempt and the assignment, and the file written around it.
RecordClaim(j, b) ==
    /\ stage' = [stage EXCEPT ![j] = "running"]
    /\ asg' = [asg EXCEPT ![j] = b]
    /\ tries' = [tries EXCEPT ![j] = @ + 1]
    /\ file' = [file EXCEPT ![j] = "open"]
    /\ UNCHANGED <<last, transients, bootRow>>

\* resolve_assignment.
Resolve(j, class) ==
    /\ stage' = [stage EXCEPT ![j] = IF class = "ok" THEN "succeeded" ELSE "failed"]
    /\ asg' = [asg EXCEPT ![j] = Resolved]
    /\ last' = [last EXCEPT ![j] = class]
    /\ transients' = [transients EXCEPT ![j] = IF class = "transient" THEN @ + 1 ELSE @]
    /\ UNCHANGED <<tries, bootRow>>

FreeRetry == {"interrupted", "cancelled"}

\* should_retry.
ShouldRetry(j) ==
    \/ last[j] \in FreeRetry
    \/ last[j] = "transient" /\ transients[j] <= MaxRetries

\* retry_stage: refused while an assignment of the job is open.
Retryable(j) == stage[j] = "failed" /\ ~Held(j)

\* retry_if_due.
RetryIfDue(js) ==
    stage' = [j \in Jobs |-> IF j \in js /\ Retryable(j) /\ ShouldRetry(j)
                             THEN "pending" ELSE stage[j]]

\* Mutation of ReconcileRetries: the dispatch thread starts without it.
ReconcileRetriesNever == UNCHANGED stage

\* reconcile_retries, when the dispatch thread starts.
ReconcileRetries == RetryIfDue(Jobs)

\* record_boot: a boot that is new isolates the open work of the worker, and
\* is reconciled when there is none.
RecordBoot(b) ==
    /\ bootRow' = [id |-> b, reconciled |-> Owned(Compute) = {}]
    /\ stage' = [j \in Jobs |-> IF bootRow.id # b /\ j \in Owned(Compute)
                                THEN "unknown" ELSE stage[j]]
    /\ UNCHANGED <<asg, last, transients, tries>>
=============================================================================
