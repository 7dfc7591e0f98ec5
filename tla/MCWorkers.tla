----------------------------- MODULE MCWorkers ------------------------------
(***************************************************************************)
(* GPU workers, for TLC: how one joins, and how one runs a stage.  The two *)
(* share no variable; `part` says which of them a behaviour is of.         *)
(***************************************************************************)
EXTENDS Enrolment, FiniteSets

CONSTANTS MaxAttempt, MaxFault

ASSUME AttemptAssumption ==
    MaxAttempt \in Nat /\ MaxFault \in Nat

VARIABLES part, stage, cur, attempts, from, end, wboot, reconciled, beat, requeued, file,
          results, child, boot, sess, trusted, held, queue, cancelled, doomed, run, holding,
          net, answer, made, boots, faults, misread

R == INSTANCE RemoteAttempt WITH asg <- attempts, work <- results

attemptVars == <<stage, cur, attempts, from, end, wboot, reconciled, beat, requeued, file,
                 results, child, boot, sess, trusted, held, queue, cancelled, doomed, run,
                 holding, net, answer, made, boots, faults, misread>>
both == <<part, vars, attemptVars>>

BothInit ==
    /\ part \in {"enrolment", "attempt"} /\ Init /\ R!Init

Enrols(B) == part = "enrolment" /\ B /\ UNCHANGED <<part, attemptVars>>
Runs(B) == part = "attempt" /\ B /\ UNCHANGED <<part, vars>>
Either(B, C) == Enrols(B) \/ Runs(C)

BothNext == Either(Next, R!Next)

Answers(K) == \E m \in {n \in net : n.live /\ n.kind \in K} : R!Handle(m)
RunThreads ==
    \/ R!Launch \/ R!SaveAgain \/ R!SendFinish \/ R!StageSucceeds("good")
    \/ R!Settle(TRUE) \/ \E a \in R!Attempts : R!Deliver(a)

\* The fairness of each part while it is the one that runs; as `part` never
\* changes, a condition on either of two actions is the two conditions.
BothSpec ==
    /\ BothInit /\ [][BothNext]_both
    /\ WF_both(Either(JoinStep, R!Start \/ R!Session))
    /\ WF_both(Either(LoopStep, RunThreads))
    /\ WF_both(Either(Enable /\ Elsewhere /\ UNCHANGED troubles, Answers({"boot"})))
    /\ WF_both(Either(Finish \/ Unstick, Answers({"claim", "finish"})))
    /\ WF_both(Runs(\E a \in R!Attempts : R!ChildEnds(a)))

-----------------------------------------------------------------------------
\* An attempt is resolved as what became of it (RemoteAttempt).
EndsTrue == R!EndsTrue

\* Every attempt is settled and every stage ends (RemoteAttempt).
AttemptsEnd == R!AttemptsEnd
=============================================================================
