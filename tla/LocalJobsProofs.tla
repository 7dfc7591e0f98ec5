-------------------------- MODULE LocalJobsProofs ---------------------------
(***************************************************************************)
(* That no process of a stage runs where nothing answers for it, and that  *)
(* a pause holds, for any set of jobs and any number of boots, attempts    *)
(* and faults.  The argument: a process of this boot belongs to the job    *)
(* the dispatch thread has in hand, which keeps the GPU of a GPU stage     *)
(* until the process is gone; a process the attempt file names, of this    *)
(* boot or an earlier one, keeps its assignment open; and an open compute  *)
(* assignment keeps every other one from being claimed.                    *)
(***************************************************************************)
EXTENDS LocalJobs, TLAPS, WellFoundedInduction

\* The store: a job in the queue has no open attempt, one compute assignment
\* holds the machine, and only an attempt that was made can end.
StoreInv ==
    /\ \A j \in Jobs : stage[j] = "pending" => ~Held(j)
    /\ \A j, k \in Compute : Held(j) /\ Held(k) => j = k
    /\ \A j \in Jobs : transients[j] <= tries[j] /\ (Held(j) => transients[j] < tries[j])

\* Where the thread has a job in hand, and where that job has an attempt.
InHand == {"requeue", "ready", "send", "run", "launched", "ended", "unsettled",
           "settled", "resolve", "retry"}
Attempting == {"run", "launched", "ended", "unsettled", "settled", "resolve"}

\* The attempt in hand is this boot's own, and over before it is resolved.
ThreadInv ==
    /\ pc # "down" => boot # 0
    /\ pc \in InHand => cur \in Jobs
    /\ pc \in Attempting => asg[cur] = boot
    /\ pc \in {"ended", "unsettled", "settled", "resolve"} => outcome \in Classes \cup FreeRetry
    /\ pc \in {"settled", "resolve"} => ~Living(cur)

\* The lease is the workflow's while a GPU stage is in hand.
LeaseInv == pc \in InHand \ {"requeue"} /\ cur \in GpuJobs => gpu = "workflow"

\* A process of this boot is the one in hand, or was when the thread stopped.
OwnInv ==
    \A j \in Jobs :
        Living(j) =>
            /\ tree[j].boot <= boot
            /\ tree[j].boot = boot /\ pc # "down" =>
                 /\ j = cur /\ pc \in {"run", "launched", "ended", "unsettled", "exited"}
                 /\ j \in GpuJobs => gpu = "workflow"

\* A process the attempt file names keeps the attempt open, and the file.
NamedInv ==
    \A j \in Jobs : Living(j) /\ tree[j].named => Held(j) /\ file[j] = "child"

\* A caller that was told of the pause was told after the admission ended.
PauseInv ==
    /\ pauser # "none" => paused
    /\ pauser = "told" => ~Admitting

IInv ==
    /\ TypeOK /\ StoreInv /\ ThreadInv /\ LeaseInv /\ OwnInv /\ NamedInv /\ PauseInv

(* What a step leaves alone.                                               *)

LEMMA StoreKept ==
    ASSUME StoreInv, UNCHANGED <<stage, asg, transients, tries>>
    PROVE  StoreInv'
BY DEF StoreInv, Jobs, Compute, Held, Resolved

LEMMA ThreadKept ==
    ASSUME ThreadInv, UNCHANGED <<boot, pc, cur, outcome, asg, tree>>
    PROVE  ThreadInv'
BY DEF ThreadInv, InHand, Jobs, Compute, Attempting, Classes, FreeRetry, Living

LEMMA LeaseKept ==
    ASSUME LeaseInv, UNCHANGED <<pc, cur, gpu>>
    PROVE  LeaseInv'
BY DEF LeaseInv, InHand

LEMMA OwnKept ==
    ASSUME OwnInv, UNCHANGED <<tree, boot, pc, cur, gpu>>
    PROVE  OwnInv'
BY DEF OwnInv, Jobs, Compute, Living

LEMMA NamedKept ==
    ASSUME NamedInv, UNCHANGED <<tree, asg, file>>
    PROVE  NamedInv'
BY DEF NamedInv, Jobs, Compute, Living, Held, Resolved

LEMMA PauseKept ==
    ASSUME PauseInv, UNCHANGED <<pauser, paused, pc>>
    PROVE  PauseInv'
BY DEF PauseInv, Admitting

-----------------------------------------------------------------------------
(* The boot, and what earlier boots left.                                  *)

LEMMA BootKeeps ==
    ASSUME IInv, Boot
    PROVE  IInv'
<1>1. TypeOK'
  BY JobsAssumption DEF IInv, Boot, RecordBoot, Goto, TypeOK, control
<1>2. StoreInv'
  BY DEF IInv, Boot, RecordBoot, Held, Goto, StoreInv, control
<1>3. ThreadInv'
  BY DEF IInv, TypeOK, Boot, RecordBoot, Goto, ThreadInv, InHand, Attempting, Living,
         control
<1>4. LeaseInv'
  BY DEF IInv, Boot, RecordBoot, Goto, LeaseInv, InHand, control
<1>5. OwnInv'
  BY DEF IInv, TypeOK, Boot, RecordBoot, Goto, OwnInv, Living, control
<1>6. PauseInv'
  BY DEF IInv, Boot, RecordBoot, Goto, PauseInv, Admitting, control
<1>7. NamedInv'
  BY NamedKept DEF IInv, Boot, RecordBoot, Goto, control
<1> QED BY <1>1, <1>2, <1>3, <1>4, <1>5, <1>6, <1>7 DEF IInv

LEMMA InterruptKeeps ==
    ASSUME IInv, NEW j \in Jobs, Interrupt(j)
    PROVE  IInv'
<1>1. TypeOK'
  BY JobsAssumption DEF IInv, Interrupt, Resolved, Living, Resolve, Goto, TypeOK, Classes,
                        FreeRetry, control
<1>2. StoreInv'
  BY DEF IInv, Interrupt, Held, Living, Resolve, Goto, StoreInv, control
<1>3. ThreadInv'
  BY DEF IInv, Interrupt, Living, Resolve, Goto, ThreadInv, InHand, Attempting, control
<1>4. LeaseInv'
  BY DEF IInv, Interrupt, Living, Resolve, Goto, LeaseInv, InHand, control
<1>5. OwnInv'
  BY DEF IInv, Interrupt, Living, Resolve, Goto, OwnInv, control
<1>6. NamedInv'
  BY DEF IInv, Interrupt, Left, Held, Gone, Living, Resolve, Goto, NamedInv, control
<1>7. PauseInv'
  BY DEF IInv, Interrupt, Living, Resolve, Goto, PauseInv, Admitting, control
<1> QED BY <1>1, <1>2, <1>3, <1>4, <1>5, <1>6, <1>7 DEF IInv

LEMMA RequeueKeeps ==
    ASSUME IInv, Requeue
    PROVE  IInv'
<1>1. TypeOK'
  BY JobsAssumption DEF IInv, Requeue, RetryIfDue, Retryable, ShouldRetry, Goto, TypeOK,
                        control
<1>2. StoreInv'
  BY DEF IInv, Requeue, RetryIfDue, Retryable, Held, ShouldRetry, Goto, StoreInv, control
<1>3. ThreadInv'
  BY DEF IInv, Requeue, RetryIfDue, Retryable, ShouldRetry, Goto, ThreadInv, InHand,
         Attempting, Living, control
<1>4. LeaseInv'
  BY DEF IInv, Requeue, RetryIfDue, Retryable, ShouldRetry, Goto, LeaseInv, InHand, control
<1>5. OwnInv'
  BY DEF IInv, Requeue, RetryIfDue, Retryable, ShouldRetry, Goto, OwnInv, Living, control
<1>6. PauseInv'
  BY DEF IInv, Requeue, RetryIfDue, Retryable, ShouldRetry, Goto, PauseInv, Admitting,
         control
<1>7. NamedInv'
  BY NamedKept DEF IInv, Requeue, RetryIfDue, Goto, control
<1> QED BY <1>1, <1>2, <1>3, <1>4, <1>5, <1>6, <1>7 DEF IInv

LEMMA SettleEndsKeeps ==
    ASSUME IInv, SettleEnds
    PROVE  IInv'
<1>1. TypeOK'
  <2>1. /\ stage' \in [Jobs -> {"pending", "running", "succeeded", "failed", "unknown", "skipped"}]
        /\ bootRow' \in [id : 0 .. MaxBoot, reconciled : BOOLEAN]
    <3>1. CASE Left = {}
      <4>1. (Owned(Compute) = {}) \in BOOLEAN /\ boot \in 0 .. MaxBoot
        BY DEF IInv, TypeOK
      <4>2. RecordBoot(boot)
        BY <3>1 DEF SettleEnds
      <4> QED BY <4>1, <4>2 DEF IInv, TypeOK, RecordBoot
    <3>2. CASE Left # {}
      BY <3>2 DEF IInv, TypeOK, SettleEnds, rows
    <3> QED BY <3>1, <3>2
  <2>2. UNCHANGED <<asg, last, transients, tries, file, boot, todo, cur, tree, gpu, renewer,
                    pauser, stranded>>
    BY DEF SettleEnds, RecordBoot, rows, control
  <2> QED BY <2>1, <2>2 DEF IInv, TypeOK
<1>2. StoreInv'
  BY DEF IInv, SettleEnds, Held, Living, RecordBoot, Goto, StoreInv, rows, control
<1>3. ThreadInv'
  BY DEF IInv, SettleEnds, Living, RecordBoot, Goto, ThreadInv, InHand, Attempting, rows,
         control
<1>4. LeaseInv'
  BY DEF IInv, SettleEnds, Living, RecordBoot, Goto, LeaseInv, InHand, rows, control
<1>5. OwnInv'
  BY DEF IInv, SettleEnds, Living, RecordBoot, Goto, OwnInv, rows, control
<1>6. PauseInv'
  BY DEF IInv, SettleEnds, Living, RecordBoot, Goto, PauseInv, Admitting, rows, control
<1>7. NamedInv'
  BY NamedKept DEF IInv, SettleEnds, RecordBoot, Goto, rows, control
<1> QED BY <1>1, <1>2, <1>3, <1>4, <1>5, <1>6, <1>7 DEF IInv

LEMMA LoopBeginsKeeps ==
    ASSUME IInv, LoopBegins
    PROVE  IInv'
<1>1. TypeOK'
  BY JobsAssumption DEF IInv, LoopBegins, ReconcileRetries, RetryIfDue, Retryable,
                        ShouldRetry, Goto, TypeOK, control
<1>2. StoreInv'
  BY DEF IInv, LoopBegins, ReconcileRetries, RetryIfDue, Retryable, Held, ShouldRetry, Goto,
         StoreInv, control
<1>3. ThreadInv'
  BY DEF IInv, LoopBegins, ReconcileRetries, RetryIfDue, Retryable, ShouldRetry, Goto,
         ThreadInv, InHand, Attempting, Living, control
<1>4. LeaseInv'
  BY DEF IInv, LoopBegins, ReconcileRetries, RetryIfDue, Retryable, ShouldRetry, Goto,
         LeaseInv, InHand, control
<1>5. OwnInv'
  BY DEF IInv, LoopBegins, ReconcileRetries, RetryIfDue, Retryable, ShouldRetry, Goto,
         OwnInv, Living, control
<1>6. PauseInv'
  BY DEF IInv, LoopBegins, ReconcileRetries, RetryIfDue, Retryable, ShouldRetry, Goto,
         PauseInv, Admitting, control
<1>7. NamedInv'
  BY NamedKept DEF IInv, LoopBegins, ReconcileRetries, RetryIfDue, Goto, control
<1> QED BY <1>1, <1>2, <1>3, <1>4, <1>5, <1>6, <1>7 DEF IInv

-----------------------------------------------------------------------------
(* Admission.                                                              *)

LEMMA SettleAgainKeeps ==
    ASSUME IInv, SettleAgain
    PROVE  IInv'
<1>1. TypeOK'
  BY JobsAssumption DEF IInv, SettleAgain, Goto, TypeOK, rows, control
<1>2. ThreadInv'
  BY DEF IInv, SettleAgain, Goto, ThreadInv, InHand, Attempting, Living, rows, control
<1>3. LeaseInv'
  BY DEF IInv, SettleAgain, Goto, LeaseInv, InHand, rows, control
<1>4. OwnInv'
  BY DEF IInv, SettleAgain, Goto, OwnInv, Living, rows, control
<1>5. PauseInv'
  BY DEF IInv, SettleAgain, Goto, PauseInv, Admitting, rows, control
<1>6. StoreInv' /\ NamedInv'
  BY StoreKept, NamedKept DEF IInv, SettleAgain, Goto, rows, control
<1> QED BY <1>1, <1>2, <1>3, <1>4, <1>5, <1>6 DEF IInv

LEMMA AdmitKeeps ==
    ASSUME IInv, Admit
    PROVE  IInv'
<1>1. TypeOK'
  BY JobsAssumption DEF IInv, Admit, GiveBack, Goto, TypeOK, rows, control
<1>2. ThreadInv'
  BY DEF IInv, Admit, GiveBack, Goto, ThreadInv, InHand, Attempting, Living, rows, control
<1>3. LeaseInv'
  BY DEF IInv, Admit, GiveBack, Goto, LeaseInv, InHand, rows, control
<1>4. OwnInv'
  BY DEF IInv, Admit, GiveBack, Goto, OwnInv, Living, rows, control
<1>5. PauseInv'
  BY DEF IInv, Admit, GiveBack, Goto, PauseInv, Admitting, rows, control
<1>6. StoreInv' /\ NamedInv'
  BY StoreKept, NamedKept DEF IInv, Admit, GiveBack, Goto, rows, control
<1> QED BY <1>1, <1>2, <1>3, <1>4, <1>5, <1>6 DEF IInv

LEMMA PassEndsKeeps ==
    ASSUME IInv, PassEnds
    PROVE  IInv'
<1>1. TypeOK'
  BY JobsAssumption DEF IInv, PassEnds, GiveBack, Goto, TypeOK, rows, control
<1>2. ThreadInv'
  BY DEF IInv, PassEnds, GiveBack, Goto, ThreadInv, InHand, Attempting, Living, rows,
         control
<1>3. LeaseInv'
  BY DEF IInv, PassEnds, GiveBack, Goto, LeaseInv, InHand, rows, control
<1>4. OwnInv'
  BY DEF IInv, PassEnds, GiveBack, Goto, OwnInv, Living, rows, control
<1>5. PauseInv'
  BY DEF IInv, PassEnds, GiveBack, Goto, PauseInv, Admitting, rows, control
<1>6. StoreInv' /\ NamedInv'
  BY StoreKept, NamedKept DEF IInv, PassEnds, GiveBack, Goto, rows, control
<1> QED BY <1>1, <1>2, <1>3, <1>4, <1>5, <1>6 DEF IInv

LEMMA GpuTakenKeeps ==
    ASSUME IInv, GpuTaken
    PROVE  IInv'
<1>1. TypeOK'
  BY JobsAssumption DEF IInv, GpuTaken, TypeOK, rows, control
<1>2. StoreInv' /\ ThreadInv' /\ LeaseInv' /\ OwnInv' /\ NamedInv' /\ PauseInv'
  BY StoreKept, ThreadKept, LeaseKept, OwnKept, NamedKept, PauseKept
  DEF IInv, GpuTaken, rows, control
<1> QED BY <1>1, <1>2 DEF IInv

\* The pass takes the first of its jobs in the order of list_jobs.
LEMMA FirstIn ==
    ASSUME JobsAssumption, todo \subseteq Jobs, todo # {}
    PROVE  First \in todo
<1>1. todo \subseteq Nat
  BY DEF JobsAssumption
<1>2. PICK n \in todo : \A k \in todo : ~ (<<k, n>> \in OpToRel(<, Nat))
  BY <1>1, NatLessThanWellFounded, WFMin
<1>3. n \in Nat /\ \A k \in todo : k \in Nat
  BY <1>1
<1>4. ASSUME NEW k \in todo PROVE n <= k
  <2>1. <<k, n>> \in Nat \X Nat
    BY <1>3
  <2>2. ~ (k < n)
    BY <1>2, <2>1 DEF OpToRel
  <2> QED BY <1>3, <2>2
<1> QED BY <1>4 DEF First

LEMMA PickKeeps ==
    ASSUME IInv, First \in todo, Pick
    PROVE  IInv'
<1>1. TypeOK'
  BY JobsAssumption DEF IInv, Pick, Goto, TypeOK, rows, control
<1>2. ThreadInv'
  BY DEF IInv, TypeOK, Pick, Goto, ThreadInv, InHand, Attempting, Living, rows, control
<1>3. LeaseInv'
  BY DEF IInv, Pick, Goto, LeaseInv, InHand, rows, control
<1>4. OwnInv'
  BY DEF IInv, Pick, Goto, OwnInv, Living, rows, control
<1>5. PauseInv'
  BY DEF IInv, Pick, Goto, PauseInv, Admitting, rows, control
<1>6. StoreInv' /\ NamedInv'
  BY StoreKept, NamedKept DEF IInv, Pick, Goto, rows, control
<1> QED BY <1>1, <1>2, <1>3, <1>4, <1>5, <1>6 DEF IInv

LEMMA CheckPauseKeeps ==
    ASSUME IInv, CheckPause
    PROVE  IInv'
<1>1. TypeOK'
  BY JobsAssumption DEF IInv, CheckPause, GiveBack, Goto, TypeOK, rows, control
<1>2. ThreadInv'
  BY DEF IInv, CheckPause, GiveBack, Goto, ThreadInv, InHand, Attempting, Living, rows,
         control
<1>3. LeaseInv'
  BY DEF IInv, CheckPause, GiveBack, Goto, LeaseInv, InHand, rows, control
<1>4. OwnInv'
  BY DEF IInv, CheckPause, GiveBack, Goto, OwnInv, Living, rows, control
<1>5. PauseInv'
  BY DEF IInv, CheckPause, GiveBack, Goto, PauseInv, Admitting, rows, control
<1>6. StoreInv' /\ NamedInv'
  BY StoreKept, NamedKept DEF IInv, CheckPause, GiveBack, Goto, rows, control
<1> QED BY <1>1, <1>2, <1>3, <1>4, <1>5, <1>6 DEF IInv

LEMMA ClaimKeeps ==
    ASSUME IInv, Claim
    PROVE  IInv'
<1>1. TypeOK'
  BY JobsAssumption DEF IInv, ThreadInv, StoreInv, Claim, ClaimAdmitted, WorkerMayClaim,
                        RecordClaim, Goto, TypeOK, control, InHand, Attempting, Living
<1>2. StoreInv'
  BY DEF IInv, TypeOK, Claim, ClaimAdmitted, WorkerMayClaim, Owned, Held, RecordClaim, Goto,
         StoreInv, control
<1>3. ThreadInv'
  BY DEF IInv, TypeOK, Claim, ClaimAdmitted, WorkerMayClaim, RecordClaim, Goto, ThreadInv,
         InHand, Attempting, Living, control
<1>4. LeaseInv'
  BY DEF IInv, Claim, ClaimAdmitted, WorkerMayClaim, RecordClaim, Goto, LeaseInv, InHand,
         control
<1>5. OwnInv'
  BY DEF IInv, Claim, ClaimAdmitted, WorkerMayClaim, RecordClaim, Goto, OwnInv, Living,
         control
<1>6. NamedInv'
  BY DEF IInv, ThreadInv, StoreInv, Claim, ClaimAdmitted, WorkerMayClaim, Held, RecordClaim,
         Goto, NamedInv, Living, control, InHand, Attempting
<1>7. PauseInv'
  BY DEF IInv, Claim, ClaimAdmitted, WorkerMayClaim, RecordClaim, Goto, PauseInv, Admitting,
         control
<1> QED BY <1>1, <1>2, <1>3, <1>4, <1>5, <1>6, <1>7 DEF IInv

LEMMA ClaimBreaksKeeps ==
    ASSUME IInv, ClaimBreaks
    PROVE  IInv'
<1>1. TypeOK'
  BY JobsAssumption DEF IInv, ThreadInv, StoreInv, ClaimBreaks, ClaimAdmitted,
                        WorkerMayClaim, RecordClaim, Goto, TypeOK, control, InHand,
                        Attempting, Living
<1>2. StoreInv'
  BY DEF IInv, TypeOK, ClaimBreaks, ClaimAdmitted, WorkerMayClaim, Owned, Held, Fault,
         RecordClaim, Goto, StoreInv, control
<1>3. ThreadInv'
  BY DEF IInv, ClaimBreaks, ClaimAdmitted, WorkerMayClaim, RecordClaim, Goto, ThreadInv,
         InHand, Attempting, Living, control
<1>4. LeaseInv'
  BY DEF IInv, ClaimBreaks, ClaimAdmitted, WorkerMayClaim, RecordClaim, Goto, LeaseInv,
         InHand, control
<1>5. OwnInv'
  BY DEF IInv, ClaimBreaks, ClaimAdmitted, WorkerMayClaim, RecordClaim, Goto, OwnInv,
         Living, control
<1>6. NamedInv'
  BY DEF IInv, ThreadInv, StoreInv, ClaimBreaks, ClaimAdmitted, WorkerMayClaim, Held,
         RecordClaim, Goto, NamedInv, Living, control, InHand, Attempting
<1>7. PauseInv'
  BY DEF IInv, ClaimBreaks, ClaimAdmitted, WorkerMayClaim, RecordClaim, Goto, PauseInv,
         Admitting, control
<1> QED BY <1>1, <1>2, <1>3, <1>4, <1>5, <1>6, <1>7 DEF IInv

LEMMA ClaimRefusedKeeps ==
    ASSUME IInv, ClaimRefused
    PROVE  IInv'
<1>1. TypeOK'
  BY JobsAssumption DEF IInv, ClaimRefused, ClaimAdmitted, WorkerMayClaim, GiveBack, Goto,
                        TypeOK, rows, control
<1>2. ThreadInv'
  BY DEF IInv, ClaimRefused, ClaimAdmitted, WorkerMayClaim, GiveBack, Goto, ThreadInv,
         InHand, Attempting, Living, rows, control
<1>3. LeaseInv'
  BY DEF IInv, ClaimRefused, ClaimAdmitted, WorkerMayClaim, GiveBack, Goto, LeaseInv,
         InHand, rows, control
<1>4. OwnInv'
  BY DEF IInv, ClaimRefused, ClaimAdmitted, WorkerMayClaim, GiveBack, Goto, OwnInv, Living,
         rows, control
<1>5. PauseInv'
  BY DEF IInv, ClaimRefused, ClaimAdmitted, WorkerMayClaim, GiveBack, Goto, PauseInv,
         Admitting, rows, control
<1>6. StoreInv' /\ NamedInv'
  BY StoreKept, NamedKept DEF IInv, ClaimRefused, GiveBack, Goto, rows, control
<1> QED BY <1>1, <1>2, <1>3, <1>4, <1>5, <1>6 DEF IInv

-----------------------------------------------------------------------------
(* The stage.                                                              *)

LEMMA LaunchKeeps ==
    ASSUME IInv, Launch
    PROVE  IInv'
<1>1. TypeOK'
  BY JobsAssumption DEF IInv, Launch, Living, Goto, TypeOK, rows, control
<1>2. ThreadInv'
  BY DEF IInv, Launch, Living, Goto, ThreadInv, InHand, Attempting, rows, control
<1>3. LeaseInv'
  BY DEF IInv, Launch, Living, Goto, LeaseInv, InHand, rows, control
<1>4. OwnInv'
  BY DEF IInv, TypeOK, ThreadInv, LeaseInv, Launch, Living, Goto, OwnInv, rows, control,
         InHand, Attempting
<1>5. NamedInv'
  BY DEF IInv, Launch, Living, Goto, NamedInv, Held, rows, control
<1>6. PauseInv'
  BY DEF IInv, Launch, Living, Goto, PauseInv, Admitting, rows, control
<1>7. StoreInv'
  BY StoreKept DEF IInv, Launch, Goto, rows, control
<1> QED BY <1>1, <1>2, <1>3, <1>4, <1>5, <1>6, <1>7 DEF IInv

LEMMA NameChildKeeps ==
    ASSUME IInv, NameChild
    PROVE  IInv'
<1>1. TypeOK'
  BY JobsAssumption DEF IInv, NameChild, Goto, TypeOK, rows, control
<1>2. ThreadInv'
  BY DEF IInv, NameChild, Goto, ThreadInv, InHand, Attempting, Living, rows, control
<1>3. LeaseInv'
  BY DEF IInv, NameChild, Goto, LeaseInv, InHand, rows, control
<1>4. OwnInv'
  BY DEF IInv, NameChild, Goto, OwnInv, Living, rows, control
<1>5. NamedInv'
  BY DEF IInv, TypeOK, ThreadInv, NameChild, Goto, NamedInv, Living, Held, Resolved, rows,
         control, InHand, Attempting
<1>6. PauseInv'
  BY DEF IInv, NameChild, Goto, PauseInv, Admitting, rows, control
<1>7. StoreInv'
  BY StoreKept DEF IInv, NameChild, Goto, rows, control
<1> QED BY <1>1, <1>2, <1>3, <1>4, <1>5, <1>6, <1>7 DEF IInv

LEMMA NameFailsKeeps ==
    ASSUME IInv, NameFails
    PROVE  IInv'
<1>1. TypeOK'
  BY JobsAssumption DEF IInv, NameFails, Goto, TypeOK, rows, control
<1>2. ThreadInv'
  BY DEF IInv, NameFails, Goto, ThreadInv, InHand, Attempting, Classes, FreeRetry, Living,
         rows, control
<1>3. LeaseInv'
  BY DEF IInv, NameFails, Goto, LeaseInv, InHand, rows, control
<1>4. OwnInv'
  BY DEF IInv, NameFails, Goto, OwnInv, Living, rows, control
<1>5. PauseInv'
  BY DEF IInv, NameFails, Goto, PauseInv, Admitting, rows, control
<1>6. StoreInv' /\ NamedInv'
  BY StoreKept, NamedKept DEF IInv, NameFails, Goto, rows, control
<1> QED BY <1>1, <1>2, <1>3, <1>4, <1>5, <1>6 DEF IInv

LEMMA ReturnsKeeps ==
    ASSUME IInv, Returns
    PROVE  IInv'
<1>1. TypeOK'
  BY JobsAssumption DEF IInv, Returns, Goto, TypeOK, rows, control
<1>2. ThreadInv'
  BY DEF IInv, Returns, Classes, Goto, ThreadInv, InHand, Attempting, FreeRetry, Living,
         rows, control
<1>3. LeaseInv'
  BY DEF IInv, Returns, Goto, LeaseInv, InHand, rows, control
<1>4. OwnInv'
  BY DEF IInv, Returns, Goto, OwnInv, Living, rows, control
<1>5. PauseInv'
  BY DEF IInv, Returns, Goto, PauseInv, Admitting, rows, control
<1>6. StoreInv' /\ NamedInv'
  BY StoreKept, NamedKept DEF IInv, Returns, Goto, rows, control
<1> QED BY <1>1, <1>2, <1>3, <1>4, <1>5, <1>6 DEF IInv

LEMMA SettleKeeps ==
    ASSUME IInv, Settle
    PROVE  IInv'
<1>1. TypeOK'
  <2>1. cur \in Jobs
    BY DEF IInv, ThreadInv, Settle, InHand
  <2>2. tree' \in [Jobs -> [state : {"none", "live", "stuck"}, boot : 0 .. MaxBoot,
                            named : BOOLEAN]]
    <3>1. NoTree \in [state : {"none", "live", "stuck"}, boot : 0 .. MaxBoot, named : BOOLEAN]
      BY JobsAssumption DEF NoTree
    <3> QED BY <2>1, <3>1 DEF IInv, TypeOK, Settle
  <2>3. renewer' \in {"none", "idle", "sending"}
    BY DEF Settle
  <2>4. UNCHANGED <<stage, asg, last, transients, tries, bootRow, file, boot, todo, cur, gpu,
                    pauser, stranded>>
    BY DEF Settle, rows, control
  <2> QED BY <2>2, <2>3, <2>4 DEF IInv, TypeOK
<1>2. ThreadInv'
  BY DEF IInv, TypeOK, Settle, Joined, Goto, NoTree, ThreadInv, InHand, Attempting, Living,
         rows, control
<1>3. LeaseInv'
  BY DEF IInv, Settle, Joined, Goto, LeaseInv, InHand, rows, control
<1>4. OwnInv'
  BY DEF IInv, TypeOK, Settle, Joined, Goto, NoTree, OwnInv, Living, rows, control
<1>5. NamedInv'
  BY DEF IInv, TypeOK, Settle, Joined, Goto, NoTree, NamedInv, Living, Held, rows, control
<1>6. PauseInv'
  BY DEF IInv, Settle, Joined, Goto, PauseInv, Admitting, rows, control
<1>7. StoreInv'
  BY StoreKept DEF IInv, Settle, Goto, rows, control
<1> QED BY <1>1, <1>2, <1>3, <1>4, <1>5, <1>6, <1>7 DEF IInv

LEMMA FinishUnsettledKeeps ==
    ASSUME IInv, FinishUnsettled
    PROVE  IInv'
<1>1. TypeOK'
  BY JobsAssumption DEF IInv, FinishUnsettled, Living, Goto, TypeOK, rows, control
<1>2. ThreadInv'
  BY DEF IInv, FinishUnsettled, Living, Goto, ThreadInv, InHand, Attempting, rows, control
<1>3. LeaseInv'
  BY DEF IInv, FinishUnsettled, Living, Goto, LeaseInv, InHand, rows, control
<1>4. OwnInv'
  BY DEF IInv, FinishUnsettled, Living, Goto, OwnInv, rows, control
<1>5. PauseInv'
  BY DEF IInv, FinishUnsettled, Living, Goto, PauseInv, Admitting, rows, control
<1>6. StoreInv' /\ NamedInv'
  BY StoreKept, NamedKept DEF IInv, FinishUnsettled, Goto, rows, control
<1> QED BY <1>1, <1>2, <1>3, <1>4, <1>5, <1>6 DEF IInv

LEMMA RenewKeeps ==
    ASSUME IInv, Renew
    PROVE  IInv'
<1>1. TypeOK'
  BY JobsAssumption DEF IInv, Renew, TypeOK, rows, control
<1>2. StoreInv' /\ ThreadInv' /\ LeaseInv' /\ OwnInv' /\ NamedInv' /\ PauseInv'
  BY StoreKept, ThreadKept, LeaseKept, OwnKept, NamedKept, PauseKept
  DEF IInv, Renew, rows, control
<1> QED BY <1>1, <1>2 DEF IInv

-----------------------------------------------------------------------------
(* The resolution.                                                         *)

LEMMA ReadVersionKeeps ==
    ASSUME IInv, ReadVersion
    PROVE  IInv'
<1>1. TypeOK'
  BY JobsAssumption DEF IInv, ReadVersion, Goto, TypeOK, rows, control
<1>2. ThreadInv'
  BY DEF IInv, ReadVersion, Goto, ThreadInv, InHand, Attempting, Living, rows, control
<1>3. LeaseInv'
  BY DEF IInv, ReadVersion, Goto, LeaseInv, InHand, rows, control
<1>4. OwnInv'
  BY DEF IInv, ReadVersion, Goto, OwnInv, Living, rows, control
<1>5. PauseInv'
  BY DEF IInv, ReadVersion, Goto, PauseInv, Admitting, rows, control
<1>6. StoreInv' /\ NamedInv'
  BY StoreKept, NamedKept DEF IInv, ReadVersion, Goto, rows, control
<1> QED BY <1>1, <1>2, <1>3, <1>4, <1>5, <1>6 DEF IInv

LEMMA ResolveDoneKeeps ==
    ASSUME IInv, ResolveDone
    PROVE  IInv'
<1>1. TypeOK'
  BY JobsAssumption DEF IInv, ThreadInv, StoreInv, ResolveDone, Resolve, Resolved, Goto,
                        TypeOK, control, InHand, Attempting, Living, Held
<1>2. StoreInv'
  BY DEF IInv, TypeOK, ThreadInv, ResolveDone, Resolve, Resolved, Goto, StoreInv, Held,
         control, InHand, Attempting, Living
<1>3. ThreadInv'
  BY DEF IInv, ResolveDone, Resolve, Goto, ThreadInv, InHand, Attempting, Living, control
<1>4. LeaseInv'
  BY DEF IInv, ResolveDone, Resolve, Goto, LeaseInv, InHand, control
<1>5. OwnInv'
  BY DEF IInv, ResolveDone, Resolve, Goto, OwnInv, Living, control
<1>6. NamedInv'
  BY DEF IInv, ThreadInv, ResolveDone, Resolve, Goto, NamedInv, Living, Held, control,
         InHand, Attempting
<1>7. PauseInv'
  BY DEF IInv, ResolveDone, Resolve, Goto, PauseInv, Admitting, control
<1> QED BY <1>1, <1>2, <1>3, <1>4, <1>5, <1>6, <1>7 DEF IInv

LEMMA ResolveFailsKeeps ==
    ASSUME IInv, ResolveFails
    PROVE  IInv'
<1>1. TypeOK'
  BY JobsAssumption DEF IInv, ThreadInv, ResolveFails, Goto, GiveBack, TypeOK, rows,
                        control, InHand, Attempting, Living
<1>2. ThreadInv'
  BY DEF IInv, ResolveFails, Goto, GiveBack, ThreadInv, InHand, Attempting, Living, rows,
         control
<1>3. LeaseInv'
  BY DEF IInv, ResolveFails, Goto, GiveBack, LeaseInv, InHand, rows, control
<1>4. OwnInv'
  BY DEF IInv, ResolveFails, Goto, GiveBack, OwnInv, Living, rows, control
<1>5. PauseInv'
  BY DEF IInv, ResolveFails, Goto, GiveBack, PauseInv, Admitting, rows, control
<1>6. StoreInv' /\ NamedInv'
  BY StoreKept, NamedKept DEF IInv, ResolveFails, Goto, GiveBack, rows, control
<1> QED BY <1>1, <1>2, <1>3, <1>4, <1>5, <1>6 DEF IInv

LEMMA RetryKeeps ==
    ASSUME IInv, Retry
    PROVE  IInv'
<1>1. TypeOK'
  BY JobsAssumption DEF IInv, Retry, RetryIfDue, Retryable, ShouldRetry, GiveBack, Goto,
                        TypeOK, control
<1>2. StoreInv'
  BY DEF IInv, Retry, RetryIfDue, Retryable, Held, ShouldRetry, GiveBack, Goto, StoreInv,
         control
<1>3. ThreadInv'
  BY DEF IInv, Retry, RetryIfDue, Retryable, ShouldRetry, GiveBack, Goto, ThreadInv, InHand,
         Attempting, Living, control
<1>4. LeaseInv'
  BY DEF IInv, Retry, RetryIfDue, Retryable, ShouldRetry, GiveBack, Goto, LeaseInv, InHand,
         control
<1>5. OwnInv'
  BY DEF IInv, Retry, RetryIfDue, Retryable, ShouldRetry, GiveBack, Goto, OwnInv, Living,
         control
<1>6. PauseInv'
  BY DEF IInv, Retry, RetryIfDue, Retryable, ShouldRetry, GiveBack, Goto, PauseInv,
         Admitting, control
<1>7. NamedInv'
  BY NamedKept DEF IInv, Retry, RetryIfDue, GiveBack, Goto, control
<1> QED BY <1>1, <1>2, <1>3, <1>4, <1>5, <1>6, <1>7 DEF IInv

LEMMA LoopEndsKeeps ==
    ASSUME IInv, LoopEnds
    PROVE  IInv'
<1>1. TypeOK'
  BY JobsAssumption DEF IInv, LoopEnds, GiveBack, Goto, TypeOK, rows, control
<1>2. ThreadInv'
  BY DEF IInv, LoopEnds, GiveBack, Goto, ThreadInv, InHand, Attempting, Living, rows,
         control
<1>3. LeaseInv'
  BY DEF IInv, LoopEnds, GiveBack, Goto, LeaseInv, InHand, rows, control
<1>4. OwnInv'
  BY DEF IInv, LoopEnds, GiveBack, Goto, OwnInv, Living, rows, control
<1>5. PauseInv'
  BY DEF IInv, LoopEnds, GiveBack, Goto, PauseInv, Admitting, rows, control
<1>6. StoreInv' /\ NamedInv'
  BY StoreKept, NamedKept DEF IInv, LoopEnds, GiveBack, Goto, rows, control
<1> QED BY <1>1, <1>2, <1>3, <1>4, <1>5, <1>6 DEF IInv

-----------------------------------------------------------------------------
(* The operator, the system and the other tasks.                           *)

LEMMA SetPausedKeeps ==
    ASSUME IInv, SetPaused
    PROVE  IInv'
<1>1. TypeOK'
  BY JobsAssumption DEF IInv, SetPaused, TypeOK, rows, thread
<1>2. PauseInv'
  BY DEF IInv, SetPaused, PauseInv, Admitting, rows, thread
<1>3. StoreInv' /\ ThreadInv' /\ LeaseInv' /\ OwnInv' /\ NamedInv'
  BY StoreKept, ThreadKept, LeaseKept, OwnKept, NamedKept DEF IInv, SetPaused, rows, thread
<1> QED BY <1>1, <1>2, <1>3 DEF IInv

LEMMA PauseReturnsKeeps ==
    ASSUME IInv, PauseReturns
    PROVE  IInv'
<1>1. TypeOK'
  BY JobsAssumption DEF IInv, PauseReturns, Admitting, TypeOK, rows, thread
<1>2. PauseInv'
  BY DEF IInv, PauseReturns, Admitting, PauseInv, rows, thread
<1>3. StoreInv' /\ ThreadInv' /\ LeaseInv' /\ OwnInv' /\ NamedInv'
  BY StoreKept, ThreadKept, LeaseKept, OwnKept, NamedKept
  DEF IInv, PauseReturns, rows, thread
<1> QED BY <1>1, <1>2, <1>3 DEF IInv

LEMMA UnpauseKeeps ==
    ASSUME IInv, Unpause
    PROVE  IInv'
<1>1. TypeOK'
  BY JobsAssumption DEF IInv, Unpause, TypeOK, rows, thread
<1>2. PauseInv'
  BY DEF IInv, Unpause, PauseInv, Admitting, rows, thread
<1>3. StoreInv' /\ ThreadInv' /\ LeaseInv' /\ OwnInv' /\ NamedInv'
  BY StoreKept, ThreadKept, LeaseKept, OwnKept, NamedKept DEF IInv, Unpause, rows, thread
<1> QED BY <1>1, <1>2, <1>3 DEF IInv

LEMMA OperatorRetryKeeps ==
    ASSUME IInv, NEW j \in Jobs, OperatorRetry(j)
    PROVE  IInv'
<1>1. TypeOK'
  BY JobsAssumption DEF IInv, OperatorRetry, Retryable, TypeOK, thread, control
<1>2. StoreInv'
  BY DEF IInv, OperatorRetry, Retryable, Held, StoreInv, thread, control
<1>3. ThreadInv' /\ LeaseInv' /\ OwnInv' /\ NamedInv' /\ PauseInv'
  BY ThreadKept, LeaseKept, OwnKept, NamedKept, PauseKept
  DEF IInv, OperatorRetry, thread, control
<1> QED BY <1>1, <1>2, <1>3 DEF IInv

LEMMA SkipKeeps ==
    ASSUME IInv, NEW j \in Jobs, Skip(j)
    PROVE  IInv'
<1>1. TypeOK'
  BY JobsAssumption DEF IInv, Skip, TypeOK, thread, control
<1>2. StoreInv'
  BY DEF IInv, Skip, Held, StoreInv, thread, control
<1>3. ThreadInv' /\ LeaseInv' /\ OwnInv' /\ NamedInv' /\ PauseInv'
  BY ThreadKept, LeaseKept, OwnKept, NamedKept, PauseKept DEF IInv, Skip, thread, control
<1> QED BY <1>1, <1>2, <1>3 DEF IInv

LEMMA ManualTakesKeeps ==
    ASSUME IInv, ManualTakes
    PROVE  IInv'
<1>1. TypeOK'
  BY JobsAssumption DEF IInv, ManualTakes, TypeOK, rows, thread, control
<1>2. LeaseInv'
  BY DEF IInv, ManualTakes, LeaseInv, InHand, rows, thread, control
<1>3. OwnInv'
  BY DEF IInv, ManualTakes, OwnInv, Living, rows, thread, control
<1>4. StoreInv' /\ ThreadInv' /\ NamedInv' /\ PauseInv'
  BY StoreKept, ThreadKept, NamedKept, PauseKept
  DEF IInv, ManualTakes, rows, thread, control
<1> QED BY <1>1, <1>2, <1>3, <1>4 DEF IInv

LEMMA ManualEndsKeeps ==
    ASSUME IInv, ManualEnds
    PROVE  IInv'
<1>1. TypeOK'
  BY JobsAssumption DEF IInv, ManualEnds, TypeOK, rows, thread, control
<1>2. LeaseInv'
  BY DEF IInv, ManualEnds, LeaseInv, InHand, rows, thread, control
<1>3. OwnInv'
  BY DEF IInv, ManualEnds, OwnInv, Living, rows, thread, control
<1>4. StoreInv' /\ ThreadInv' /\ NamedInv' /\ PauseInv'
  BY StoreKept, ThreadKept, NamedKept, PauseKept DEF IInv, ManualEnds, rows, thread, control
<1> QED BY <1>1, <1>2, <1>3, <1>4 DEF IInv

LEMMA ChildExitsKeeps ==
    ASSUME IInv, NEW j \in Jobs, ChildExits(j)
    PROVE  IInv'
<1>1. TypeOK'
  BY JobsAssumption DEF IInv, ChildExits, NoTree, TypeOK, rows, thread, control
<1>2. ThreadInv'
  BY DEF IInv, ChildExits, ThreadInv, InHand, Attempting, Living, rows, thread, control
<1>3. OwnInv'
  BY DEF IInv, ChildExits, NoTree, OwnInv, Living, rows, thread, control
<1>4. NamedInv'
  BY DEF IInv, ChildExits, NoTree, NamedInv, Living, Held, rows, thread, control
<1>5. StoreInv' /\ LeaseInv' /\ PauseInv'
  BY StoreKept, LeaseKept, PauseKept DEF IInv, ChildExits, rows, thread, control
<1> QED BY <1>1, <1>2, <1>3, <1>4, <1>5 DEF IInv

LEMMA HangsKeeps ==
    ASSUME IInv, NEW j \in Jobs, Hangs(j)
    PROVE  IInv'
<1>1. TypeOK'
  BY JobsAssumption DEF IInv, Hangs, TypeOK, rows, thread, control
<1>2. ThreadInv'
  BY DEF IInv, Hangs, ThreadInv, InHand, Attempting, Living, rows, thread, control
<1>3. OwnInv'
  BY DEF IInv, Hangs, OwnInv, Living, rows, thread, control
<1>4. NamedInv'
  BY DEF IInv, Hangs, NamedInv, Living, Held, rows, thread, control
<1>5. StoreInv' /\ LeaseInv' /\ PauseInv'
  BY StoreKept, LeaseKept, PauseKept DEF IInv, Hangs, rows, thread, control
<1> QED BY <1>1, <1>2, <1>3, <1>4, <1>5 DEF IInv

LEMMA UnhangsKeeps ==
    ASSUME IInv, NEW j \in Jobs, Unhangs(j)
    PROVE  IInv'
<1>1. TypeOK'
  BY JobsAssumption DEF IInv, Unhangs, NoTree, TypeOK, rows, thread, control
<1>2. ThreadInv'
  BY DEF IInv, Unhangs, ThreadInv, InHand, Attempting, Living, rows, thread, control
<1>3. OwnInv'
  BY DEF IInv, Unhangs, NoTree, OwnInv, Living, rows, thread, control
<1>4. NamedInv'
  BY DEF IInv, Unhangs, NoTree, NamedInv, Living, Held, rows, thread, control
<1>5. StoreInv' /\ LeaseInv' /\ PauseInv'
  BY StoreKept, LeaseKept, PauseKept DEF IInv, Unhangs, rows, thread, control
<1> QED BY <1>1, <1>2, <1>3, <1>4, <1>5 DEF IInv

LEMMA StopKeeps ==
    ASSUME IInv, Stop
    PROVE  IInv'
<1>1. TypeOK'
  BY JobsAssumption DEF IInv, Stop, TypeOK, rows, thread
<1>2. StoreInv' /\ ThreadInv' /\ LeaseInv' /\ OwnInv' /\ NamedInv' /\ PauseInv'
  BY StoreKept, ThreadKept, LeaseKept, OwnKept, NamedKept, PauseKept
  DEF IInv, Stop, rows, thread
<1> QED BY <1>1, <1>2 DEF IInv

LEMMA ExitKeeps ==
    ASSUME IInv, Exit
    PROVE  IInv'
<1>1. TypeOK'
  BY JobsAssumption DEF IInv, Exit, Down, Goto, NoTree, TypeOK, rows
<1>2. ThreadInv'
  BY DEF IInv, Exit, Down, Goto, ThreadInv, InHand, Attempting, Living, rows
<1>3. LeaseInv'
  BY DEF IInv, Exit, Down, Goto, LeaseInv, InHand, rows
<1>4. OwnInv'
  BY DEF IInv, Exit, Down, Goto, NoTree, OwnInv, Living, rows
<1>5. NamedInv'
  BY DEF IInv, Exit, Down, Goto, NoTree, NamedInv, Living, Held, rows
<1>6. PauseInv'
  BY DEF IInv, Exit, Down, Goto, PauseInv, Admitting, rows
<1>7. StoreInv'
  BY StoreKept DEF IInv, Exit, Down, Goto, rows
<1> QED BY <1>1, <1>2, <1>3, <1>4, <1>5, <1>6, <1>7 DEF IInv

LEMMA CrashKeeps ==
    ASSUME IInv, Crash
    PROVE  IInv'
<1>1. TypeOK'
  BY JobsAssumption DEF IInv, Crash, Down, Goto, NoTree, TypeOK, rows
<1>2. ThreadInv'
  BY DEF IInv, Crash, Down, Goto, ThreadInv, InHand, Attempting, Living, rows
<1>3. LeaseInv'
  BY DEF IInv, Crash, Down, Goto, LeaseInv, InHand, rows
<1>4. OwnInv'
  BY DEF IInv, Crash, Down, Goto, NoTree, OwnInv, Living, rows
<1>5. NamedInv'
  BY DEF IInv, Crash, Down, Goto, NoTree, NamedInv, Living, Held, rows
<1>6. PauseInv'
  BY DEF IInv, Crash, Down, Goto, PauseInv, Admitting, rows
<1>7. StoreInv'
  BY StoreKept DEF IInv, Crash, Down, Goto, rows
<1> QED BY <1>1, <1>2, <1>3, <1>4, <1>5, <1>6, <1>7 DEF IInv

-----------------------------------------------------------------------------
(* The theorems.                                                           *)

\* Every step keeps the invariant.
LEMMA Step ==
    ASSUME IInv, [Next]_vars
    PROVE  IInv'
<1>1. CASE Boot
  BY <1>1, BootKeeps
<1>2. CASE Thread
  <2>1. ASSUME NEW j \in Jobs, Interrupt(j) PROVE IInv'
    BY <2>1, InterruptKeeps
  <2>2. CASE Requeue
    BY <2>2, RequeueKeeps
  <2>3. CASE SettleEnds
    BY <2>3, SettleEndsKeeps
  <2>4. CASE LoopBegins
    BY <2>4, LoopBeginsKeeps
  <2>5. CASE SettleAgain
    BY <2>5, SettleAgainKeeps
  <2>6. CASE Admit
    BY <2>6, AdmitKeeps
  <2>7. CASE PassEnds
    BY <2>7, PassEndsKeeps
  <2>8. CASE GpuTaken
    BY <2>8, GpuTakenKeeps
  <2>9. CASE Pick
    <3>1. First \in todo
      BY <2>9, JobsAssumption, FirstIn DEF IInv, TypeOK, Pick
    <3> QED BY <2>9, <3>1, PickKeeps
  <2>10. CASE CheckPause
    BY <2>10, CheckPauseKeeps
  <2>11. CASE Claim
    BY <2>11, ClaimKeeps
  <2>12. CASE ClaimBreaks
    BY <2>12, ClaimBreaksKeeps
  <2>13. CASE ClaimRefused
    BY <2>13, ClaimRefusedKeeps
  <2>14. CASE Launch
    BY <2>14, LaunchKeeps
  <2>15. CASE NameChild
    BY <2>15, NameChildKeeps
  <2>16. CASE NameFails
    BY <2>16, NameFailsKeeps
  <2>17. CASE Returns
    BY <2>17, ReturnsKeeps
  <2>18. CASE Settle
    BY <2>18, SettleKeeps
  <2>19. CASE FinishUnsettled
    BY <2>19, FinishUnsettledKeeps
  <2>20. CASE ReadVersion
    BY <2>20, ReadVersionKeeps
  <2>21. CASE ResolveDone
    BY <2>21, ResolveDoneKeeps
  <2>22. CASE ResolveFails
    BY <2>22, ResolveFailsKeeps
  <2>23. CASE Retry
    BY <2>23, RetryKeeps
  <2>24. CASE LoopEnds
    BY <2>24, LoopEndsKeeps
  <2> QED BY <1>2, <2>1, <2>2, <2>3, <2>4, <2>5, <2>6, <2>7, <2>8, <2>9, <2>10, <2>11,
             <2>12, <2>13, <2>14, <2>15, <2>16, <2>17, <2>18, <2>19, <2>20, <2>21, <2>22,
             <2>23, <2>24
  DEF Thread
<1>3. CASE Renew
  BY <1>3, RenewKeeps
<1>4. CASE SetPaused
  BY <1>4, SetPausedKeeps
<1>5. CASE PauseReturns
  BY <1>5, PauseReturnsKeeps
<1>6. CASE Unpause
  BY <1>6, UnpauseKeeps
<1>7. ASSUME NEW j \in Jobs, OperatorRetry(j) PROVE IInv'
  BY <1>7, OperatorRetryKeeps
<1>8. ASSUME NEW j \in Jobs, Skip(j) PROVE IInv'
  BY <1>8, SkipKeeps
<1>9. CASE ManualTakes
  BY <1>9, ManualTakesKeeps
<1>10. CASE ManualEnds
  BY <1>10, ManualEndsKeeps
<1>11. ASSUME NEW j \in Jobs, ChildExits(j) PROVE IInv'
  BY <1>11, ChildExitsKeeps
<1>12. ASSUME NEW j \in Jobs, Hangs(j) PROVE IInv'
  BY <1>12, HangsKeeps
<1>13. ASSUME NEW j \in Jobs, Unhangs(j) PROVE IInv'
  BY <1>13, UnhangsKeeps
<1>14. CASE Stop
  BY <1>14, StopKeeps
<1>15. CASE Exit
  BY <1>15, ExitKeeps
<1>16. CASE Crash
  BY <1>16, CrashKeeps
<1>17. CASE UNCHANGED vars
  BY <1>17, StoreKept, ThreadKept, LeaseKept, OwnKept, NamedKept, PauseKept
  DEF IInv, TypeOK, vars, rows, thread, control
<1> QED BY <1>1, <1>2, <1>3, <1>4, <1>5, <1>6, <1>7, <1>8, <1>9, <1>10, <1>11, <1>12, <1>13,
           <1>14, <1>15, <1>16, <1>17
  DEF Next

LEMMA Start == Init => IInv
<1> SUFFICES ASSUME Init PROVE IInv
  OBVIOUS
<1>1. TypeOK
  BY JobsAssumption DEF Init, StoreInit, TypeOK, NoTree, Resolved, Nobody
<1>2. \A j \in Jobs : ~Held(j) /\ ~Living(j) /\ transients[j] = 0 /\ tries[j] = 0
  BY DEF Init, StoreInit, Held, Living, NoTree, Resolved
<1>3. StoreInv /\ OwnInv /\ NamedInv
  BY <1>2 DEF StoreInv, OwnInv, NamedInv, Jobs
<1>4. ThreadInv /\ LeaseInv /\ PauseInv
  BY DEF Init, ThreadInv, LeaseInv, PauseInv, InHand, Attempting
<1> QED BY <1>1, <1>3, <1>4 DEF IInv

\* The inductive invariant, for all values of the constants.
THEOREM Invariance == Spec => []IInv
<1>1. Init => IInv
  BY Start
<1>2. IInv /\ [Next]_vars => IInv'
  BY Step
<1> QED BY <1>1, <1>2, PTL DEF Spec

LEMMA Contains == IInv => Contained
<1> SUFFICES ASSUME IInv PROVE Contained
  OBVIOUS
<1>1. ResolvedMeansGone
  <2>1. \A j \in Jobs : Living(j) /\ tree[j].named => Held(j)
    BY DEF IInv, NamedInv
  <2> QED BY <2>1 DEF IInv, StoreInv, ResolvedMeansGone, Jobs
<1>2. LeaseCovers
  BY DEF IInv, OwnInv, LeaseCovers, Jobs, Compute
<1> QED BY <1>1, <1>2 DEF IInv, Contained

\* No process of an attempt runs where nothing answers for it: what is resolved
\* has no named process left, and a GPU stage's child has the lease (_resolve,
\* _wait_gone, _loop).
THEOREM Answered == Spec => []Contained
BY Invariance, Contains, PTL

\* Only the claim opens an attempt, and it is made inside the admission.
LEMMA ClaimsInside ==
    ASSUME IInv, [Next]_vars, NEW j \in Jobs, ~Held(j), Held(j)'
    PROVE  pauser # "told"
<1>1. CASE Claim \/ ClaimBreaks
  BY <1>1 DEF Claim, ClaimBreaks, IInv, PauseInv, Admitting
<1>2. CASE UNCHANGED asg
  BY <1>2 DEF Held
<1>3. CASE \E k \in Jobs : \E c : Resolve(k, c)
  BY <1>3 DEF Resolve, IInv, TypeOK, Held
<1>4. CASE ResolveDone
  BY <1>4, <1>3 DEF ResolveDone, IInv, ThreadInv, InHand
<1>5. CASE \E k \in Jobs : Interrupt(k)
  BY <1>5, <1>3 DEF Interrupt
<1>6. CASE Thread
  BY <1>6, <1>1, <1>2, <1>4, <1>5
  DEF Thread, Requeue, SettleEnds, RecordBoot, LoopBegins, SettleAgain, Admit, PassEnds, GpuTaken,
      Pick, CheckPause, ClaimRefused, Launch, NameChild, NameFails, Returns, Settle,
      FinishUnsettled, ReadVersion, ResolveFails, Retry, LoopEnds, rows
<1> QED
  BY <1>2, <1>6
  DEF Next, Boot, RecordBoot, Renew, SetPaused, PauseReturns, Unpause, OperatorRetry, Skip,
      ChildExits, Hangs, Unhangs, ManualTakes, ManualEnds, Stop, Exit, Crash, Down, rows, vars

\* Once set_paused has returned, no stage is claimed until dispatch resumes, for
\* every interleaving of the pause with the dispatch thread (_admission).
THEOREM Paused == Spec => PauseHonoured
<1>1. IInv /\ [Next]_vars => [\A j \in Jobs : ~Held(j) /\ Held(j)' => pauser # "told"]_vars
  BY ClaimsInside
<1> QED BY <1>1, Invariance, PTL DEF Spec, PauseHonoured
=============================================================================
