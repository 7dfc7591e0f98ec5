------------------------ MODULE DeliveryWorkerProofs ------------------------
(***************************************************************************)
(* The safety properties of DeliveryWorker, for any threads and any        *)
(* bounds.  The argument: whoever is at a point in Busy holds `_creating`, *)
(* so there is one of them, and the helper it works on is the owned one;   *)
(* the helper that lives is the owned one; a stop() that returns True held *)
(* the sender lock, without which no thread is inside the transport.       *)
(***************************************************************************)
EXTENDS DeliveryWorker, FiniteSetTheorems, TLAPS

\* Where a thread owns the transport's one helper slot.
Busy == {"spawned", "waiting", "cleaning", "retrying"}

OwnerInv ==
    /\ \A t \in Threads : at[t] \in Busy => creating
    /\ \A t, u \in Threads : at[t] \in Busy /\ at[u] \in Busy => t = u
    /\ \A t \in Threads : mine[t] = IF at[t] \in Busy THEN owned ELSE 0
    /\ \A t \in Threads : at[t] \in Busy \ {"spawned"} => owned # 0
    /\ alive = IF owned = 0 THEN {} ELSE {owned}

\* Only the holder of the sender lock is inside the transport.
CallInv ==
    /\ at[Worker] # "out" => thread \in {"calling", "tidied"}
    /\ \A t \in Testers : at[t] # "out" => test[t] = "calling"
    /\ at[Service] # "out" => service = "retrying"

QuietInv ==
    /\ service # "idle" => stop
    /\ service \in {"joined", "holding", "retrying"} => thread = "dead"
    /\ quiet => /\ stop /\ thread = "dead" /\ owned = 0 /\ ~creating
                /\ \A t \in Threads : at[t] = "out"

IInv == TypeOK /\ OwnerInv /\ CallInv /\ QuietInv

\* What the threads do, apart from what the transport does for them.
OwnSteps ==
    \/ Start \/ RequestStop \/ Join \/ TakeSender \/ StopTimesOut \/ StopDone \/ StopRetries
    \/ \E t \in Testers : TestBegins(t) \/ TestCalls(t) \/ TestEnds(t)
    \/ Loop \/ DrainEnds \/ DrainSends \/ SendCalls \/ SendEnds
    \/ Leave \/ TidyBegins \/ TidyEnds

LEMMA InitIInv == Init => IInv
<1> SUFFICES ASSUME Init PROVE IInv OBVIOUS
<1> USE ThreadsAssumption, TransportAssumption DEF Init, TransportInit
<1>1. TransportTypeOK
  <2>1. FlagsOK BY DEF FlagsOK
  <2>2. HelpersOK BY DEF HelpersOK, Helpers
  <2>3. CallsOK BY DEF CallsOK, Points, Follows
  <2> QED BY <2>1, <2>2, <2>3 DEF TransportTypeOK
<1>2. SenderHeld BY DEF SenderHeld
<1>3. TypeOK BY <1>1, <1>2 DEF TypeOK
<1>4. OwnerInv BY DEF OwnerInv, Busy
<1>5. CallInv /\ QuietInv BY DEF CallInv, QuietInv
<1> QED BY <1>3, <1>4, <1>5 DEF IInv

\* A step of the transport keeps everything a thread inside it relies on.
LEMMA TransportStep ==
    ASSUME IInv, NEW t \in Threads, RequestStep(t), UNCHANGED wvars
    PROVE  IInv'
<1> USE ThreadsAssumption, TransportAssumption
    DEF Move, Return, Cancelled, transport, helpers, Reap, Release, TakeRetained
<1>t. TransportTypeOK /\ OwnerInv BY DEF IInv, TypeOK
<1>1. at[t] # "out" /\ \A u \in Threads : u # t => at'[u] = at[u]
  <2> USE <1>t DEF TransportTypeOK, CallsOK
  <2>1. CASE Ask(t)                BY <2>1 DEF Ask
  <2>2. CASE RetryForRequest(t)    BY <2>2 DEF RetryForRequest
  <2>3. CASE Admit(t)              BY <2>3 DEF Admit
  <2>4. CASE Spawn(t)              BY <2>4 DEF Spawn
  <2>5. CASE Feed(t)               BY <2>5 DEF Feed
  <2>6. CASE Outcome(t)            BY <2>6 DEF Outcome
  <2>7. CASE CleanUp(t)            BY <2>7 DEF CleanUp
  <2>8. CASE CleanUpRetry(t)       BY <2>8 DEF CleanUpRetry
  <2> QED BY <2>1, <2>2, <2>3, <2>4, <2>5, <2>6, <2>7, <2>8 DEF RequestStep
<1>2. CallInv' /\ QuietInv'
  <2>1. /\ stop' = stop /\ thread' = thread /\ test' = test /\ service' = service
        /\ quiet' = quiet
    BY DEF wvars
  <2>2. ~quiet BY <1>1 DEF IInv, QuietInv
  <2> QED BY <1>1, <2>1, <2>2 DEF IInv, CallInv, QuietInv
<1>3. FlagsOK'
  <2> USE <1>t DEF TransportTypeOK, FlagsOK
  <2>1. CASE Ask(t)                BY <2>1 DEF Ask
  <2>2. CASE RetryForRequest(t)    BY <2>2 DEF RetryForRequest
  <2>3. CASE Admit(t)              BY <2>3 DEF Admit
  <2>4. CASE Spawn(t)              BY <2>4 DEF Spawn
  <2>5. CASE Feed(t)               BY <2>5 DEF Feed
  <2>6. CASE Outcome(t)            BY <2>6 DEF Outcome
  <2>7. CASE CleanUp(t)            BY <2>7 DEF CleanUp
  <2>8. CASE CleanUpRetry(t)       BY <2>8 DEF CleanUpRetry
  <2> QED BY <2>1, <2>2, <2>3, <2>4, <2>5, <2>6, <2>7, <2>8 DEF RequestStep
<1>4. HelpersOK'
  <2> USE <1>t DEF TransportTypeOK, HelpersOK, CallsOK, Helpers
  <2>1. CASE Ask(t)                BY <2>1 DEF Ask
  <2>2. CASE RetryForRequest(t)    BY <2>2 DEF RetryForRequest
  <2>3. CASE Admit(t)              BY <2>3 DEF Admit
  <2>4. CASE Spawn(t)
    <3>1. CASE born' = born + 1 /\ born < MaxHelper /\ owned' = born' /\ alive' = alive \cup {born'}
      BY <2>4, <3>1 DEF Spawn
    <3> QED BY <2>4, <3>1 DEF Spawn
  <2>5. CASE Feed(t)               BY <2>5 DEF Feed
  <2>6. CASE Outcome(t)            BY <2>6 DEF Outcome
  <2>r. ASSUME NEW reaped \in BOOLEAN, Reap(t, reaped) PROVE HelpersOK'
    <3>1. gen' \in Nat /\ owned' \in 0 .. MaxHelper /\ born' \in 0 .. MaxHelper BY <2>r
    <3>2. alive' \subseteq 1 .. MaxHelper BY <2>r
    <3>3. stuck' \in 0 .. MaxStuck BY <2>r
    <3> QED BY <3>1, <3>2, <3>3
  <2>7. CASE CleanUp(t)
    <3>1. \E reaped \in BOOLEAN : Reap(t, reaped) BY <2>7 DEF CleanUp
    <3> QED BY <2>r, <3>1
  <2>8. CASE CleanUpRetry(t)
    <3>1. \E reaped \in BOOLEAN : Reap(t, reaped) BY <2>8 DEF CleanUpRetry
    <3> QED BY <2>r, <3>1
  <2> QED BY <2>1, <2>2, <2>3, <2>4, <2>5, <2>6, <2>7, <2>8 DEF RequestStep
<1>5. CallsOK'
  <2> USE <1>t DEF TransportTypeOK, HelpersOK, CallsOK, Points, Follows
  <2>1. CASE Ask(t)                BY <2>1 DEF Ask
  <2>2. CASE RetryForRequest(t)    BY <2>2 DEF RetryForRequest
  <2>3. CASE Admit(t)              BY <2>3 DEF Admit
  <2>4. CASE Spawn(t)              BY <2>4 DEF Spawn
  <2>5. CASE Feed(t)               BY <2>5 DEF Feed
  <2>6. CASE Outcome(t)            BY <2>6 DEF Outcome
  <2>7. CASE CleanUp(t)            BY <2>7 DEF CleanUp
  <2>8. CASE CleanUpRetry(t)       BY <2>8 DEF CleanUpRetry
  <2> QED BY <2>1, <2>2, <2>3, <2>4, <2>5, <2>6, <2>7, <2>8 DEF RequestStep
<1>6. OwnerInv'
  <2> USE <1>t DEF TransportTypeOK, FlagsOK, HelpersOK, CallsOK, OwnerInv, Busy, Helpers,
          Points, Follows
  <2>1. CASE Ask(t)                BY <2>1 DEF Ask
  <2>2. CASE RetryForRequest(t)    BY <2>2 DEF RetryForRequest
  <2>3. CASE Admit(t)              BY <2>3 DEF Admit
  <2>4. CASE Spawn(t)              BY <2>4 DEF Spawn
  <2>5. CASE Feed(t)               BY <2>5 DEF Feed
  <2>6. CASE Outcome(t)            BY <2>6 DEF Outcome
  <2>7. CASE CleanUp(t)            BY <2>7 DEF CleanUp
  <2>8. CASE CleanUpRetry(t)       BY <2>8 DEF CleanUpRetry
  <2> QED BY <2>1, <2>2, <2>3, <2>4, <2>5, <2>6, <2>7, <2>8 DEF RequestStep
<1> QED BY <1>2, <1>3, <1>4, <1>5, <1>6
    DEF IInv, TypeOK, TransportTypeOK, SenderHeld, wvars

LEMMA OwnStep ==
    ASSUME IInv, OwnSteps
    PROVE  IInv'
<1> USE ThreadsAssumption, TransportAssumption
    DEF IInv, TypeOK, TransportTypeOK, FlagsOK, HelpersOK, CallsOK, SenderHeld, Points, Follows, Helpers, OwnerInv,
        CallInv, QuietInv, Busy, Move, transport, helpers, calls, tvars, Clean, Cancel,
        GiveSender, TakeSenderFor, Goto
<1>1. CASE Start
  <2>1. FlagsOK' /\ CallsOK' BY <1>1 DEF Start
  <2>2. \A t \in Threads : at[t] \notin Busy BY <1>1 DEF Start
  <2>3. OwnerInv' BY <1>1, <2>2 DEF Start
  <2>4. HelpersOK' BY <1>1 DEF Start
  <2>5. SenderHeld' /\ CallInv' /\ QuietInv' BY <1>1 DEF Start
  <2> QED BY <1>1, <2>1, <2>3, <2>4, <2>5 DEF Start
<1>2. CASE RequestStop           BY <1>2 DEF RequestStop
<1>3. CASE Join                  BY <1>3 DEF Join
<1>4. CASE TakeSender            BY <1>4 DEF TakeSender
<1>5. CASE StopTimesOut          BY <1>5 DEF StopTimesOut
<1>6. CASE StopDone              BY <1>6 DEF StopDone
<1>7. CASE StopRetries           BY <1>7 DEF StopRetries, TakeRetained
<1>8. ASSUME NEW t \in Testers, TestBegins(t) PROVE IInv'   BY <1>8 DEF TestBegins
<1>9. ASSUME NEW t \in Testers, TestCalls(t)  PROVE IInv'   BY <1>9 DEF TestCalls, Call
<1>10. ASSUME NEW t \in Testers, TestEnds(t)  PROVE IInv'   BY <1>10 DEF TestEnds
<1>11. CASE Loop                 BY <1>11 DEF Loop
<1>12. CASE DrainEnds            BY <1>12 DEF DrainEnds
<1>13. CASE DrainSends           BY <1>13 DEF DrainSends
<1>14. CASE SendCalls            BY <1>14 DEF SendCalls, Call
<1>15. CASE SendEnds             BY <1>15 DEF SendEnds
<1>16. CASE Leave                BY <1>16 DEF Leave
<1>17. CASE TidyBegins
  <2>1. FlagsOK' /\ HelpersOK' BY <1>17 DEF TidyBegins, TakeRetained
  <2>4. CallsOK' BY <1>17 DEF TidyBegins, TakeRetained
  <2>2. OwnerInv' BY <1>17 DEF TidyBegins, TakeRetained
  <2>3. SenderHeld' /\ CallInv' /\ QuietInv' BY <1>17 DEF TidyBegins, TakeRetained
  <2> QED BY <1>17, <2>1, <2>2, <2>3, <2>4 DEF TidyBegins
<1>18. CASE TidyEnds             BY <1>18 DEF TidyEnds
<1> QED BY <1>1, <1>2, <1>3, <1>4, <1>5, <1>6, <1>7, <1>8, <1>9, <1>10, <1>11, <1>12,
           <1>13, <1>14, <1>15, <1>16, <1>17, <1>18 DEF OwnSteps

\* Every reachable state of the sender satisfies the inductive invariant.
THEOREM InvariantHolds == Spec => []IInv
<1>1. ASSUME IInv, [Next]_vars PROVE IInv'
  <2>1. CASE OwnSteps BY <1>1, <2>1, OwnStep
  <2>2. CASE \E t \in Threads : RequestStep(t) /\ UNCHANGED wvars
    BY <1>1, <2>2, TransportStep
  <2>3. CASE UNCHANGED vars
    BY <1>1, <2>3 DEF IInv, TypeOK, TransportTypeOK, FlagsOK, HelpersOK, CallsOK, SenderHeld, OwnerInv, CallInv, QuietInv,
                      vars, tvars, wvars, transport, helpers, calls
  <2> QED BY <1>1, <2>1, <2>2, <2>3, ThreadsAssumption
          DEF Next, WorkerStep, ServiceStep, TestStep, OwnSteps
<1> QED BY <1>1, InitIInv, PTL DEF Spec

\* Type correctness, and the sender lock has the holder its two ends give it.
THEOREM TypeSafety == Spec => []TypeOK
<1>1. IInv => TypeOK BY DEF IInv
<1> QED BY <1>1, InvariantHolds, PTL

\* The owner never has two helper processes.
THEOREM AtMostOneHelper == Spec => []OneHelper
<1>1. ASSUME IInv PROVE OneHelper
  <2>1. CASE alive = {} BY <2>1, FS_EmptySet DEF OneHelper
  <2>2. CASE alive = {owned}
    <3>1. Cardinality(alive) = 1 BY <2>2, FS_Singleton
    <3> QED BY <3>1 DEF OneHelper
  <2> QED BY <1>1, <2>1, <2>2 DEF IInv, OwnerInv
<1> QED BY <1>1, InvariantHolds, PTL

\* A transport that calls itself clean has left no helper behind.
THEOREM CleanIsGone == Spec => []CleanMeansGone
<1>1. IInv => CleanMeansGone BY DEF IInv, OwnerInv, CleanMeansGone, Clean
<1> QED BY <1>1, InvariantHolds, PTL

\* A stop() that returned True left nothing running until the next start.
THEOREM StopIsQuiet == Spec => []StopMeansQuiet
<1>1. IInv => StopMeansQuiet BY DEF IInv, OwnerInv, QuietInv, StopMeansQuiet
<1> QED BY <1>1, InvariantHolds, PTL
=============================================================================
