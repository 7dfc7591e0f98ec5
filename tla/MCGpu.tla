-------------------------------- MODULE MCGpu --------------------------------
(***************************************************************************)
(* The process-wide GPU lease and a task that uses it, for TLC.  The lease *)
(* is checked with tasks that do nothing but take and give it, the         *)
(* subtitle task with a lease that anybody may hold; `part` says which of  *)
(* the two a behaviour is of.  Two of the lease's tasks poll quickly, one  *)
(* slowly, whose window is longer than ReserveMin.                         *)
(***************************************************************************)
EXTENDS Avsubs

CONSTANTS Runs, NoRun, Poll, ReserveMin, StaleMin, StaleFactor

ASSUME LeaseAssumption ==
    /\ NoRun \notin Runs
    /\ Poll \in [Runs -> Nat \ {0}]
    /\ {ReserveMin, StaleMin} \subseteq Nat \ {0}
    /\ StaleFactor \in Nat /\ StaleFactor > 1

VARIABLES part, holder, waiters, reserved, left, closed, since, task, line

L == INSTANCE GpuLease

MCPoll == <<1, 1, 2>>

leaseVars == <<holder, waiters, reserved, left, closed, since, task, line>>
both == <<part, vars, leaseVars>>

\* The part that does not run stays in one state.
BothInit ==
    /\ part \in {"lease", "subtitles"} /\ Init /\ L!Init
    /\ part = "lease" => ja = [f \in Films |-> "none"]

Leases(B) == part = "lease" /\ B /\ UNCHANGED <<part, vars>>
Subtitles(B) == part = "subtitles" /\ B /\ UNCHANGED <<part, leaseVars>>

BothNext == Leases(L!Next) \/ Subtitles(Next)

Polls(r) == task[r] = "waiting" /\ L!Try(r)
Either(B, C) == Leases(B) \/ Subtitles(C)

\* The fairness of each part while it is the one that runs; as `part` never
\* changes, a condition on either of two actions is the two conditions.
BothSpec ==
    /\ BothInit /\ [][BothNext]_both
    /\ WF_both(Either(L!Tick, Worker))
    /\ WF_both(Either(Polls(1), Stopper))
    /\ WF_both(Either(Polls(2), AsrExits))
    /\ WF_both(Either(Polls(3), Translates))
    /\ WF_both(Either(L!Release(1), OtherEnds))
    /\ WF_both(Leases(L!Release(2))) /\ WF_both(Leases(L!Release(3)))

-----------------------------------------------------------------------------
\* The lease has one holder at a time, whoever releases late (GpuLease.release).
GpuExclusive == L!GpuExclusive

\* Turns are kept, and every task that keeps polling has its turn
\* (GpuLease.try_acquire).
Turns == L!Turns
=============================================================================
