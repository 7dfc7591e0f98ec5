--------------------------- MODULE DeliveryWorker ---------------------------
(***************************************************************************)
(* The owner of OpenClaw sending, hub/server/delivery_worker.py, over its  *)
(* HelperTransport: one worker thread that drains the outbox, tests sent   *)
(* by API threads through the same sender lock, and the service thread     *)
(* that starts and stops the owner (HubService, hub/server/app.py).        *)
(***************************************************************************)
EXTENDS HelperTransport

CONSTANTS
    Worker,         \* the thread running _run
    Service,        \* the thread inside HubService's lifecycle lock
    Testers,        \* API threads that may send a test notification
    NoThread,       \* the sender lock is free
    MaxStart        \* bound: starts of the owner

ASSUME ThreadsAssumption ==
    /\ Threads = {Worker, Service} \cup Testers
    /\ Worker # Service /\ {Worker, Service} \cap Testers = {}
    /\ NoThread \notin Threads

VARIABLES
    stop,           \* _stop
    sender,         \* holder of the _sender lock
    thread,         \* where the worker thread stands
    test,           \* test[t]: where API thread t stands in send_payload
    service,        \* where the service stands in stop()
    quiet           \* history: the last stop() returned True, nothing started since

wvars == <<stop, sender, thread, test, service, quiet>>
vars == <<tvars, wvars>>

Init ==
    /\ TransportInit
    /\ stop = FALSE
    /\ sender = NoThread
    /\ thread = "dead"
    /\ test = [t \in Testers |-> "idle"]
    /\ service = "idle"
    /\ quiet = FALSE

-----------------------------------------------------------------------------
(* The service.                                                            *)

\* Mutation of Start: it does not ask whether the transport is clean.
StartDirty ==
    /\ service = "idle" /\ thread = "dead" /\ gen < MaxStart
    /\ IF stop THEN /\ gen' = gen + 1
                    /\ stopped' = FALSE /\ owned' = 0 /\ creating' = FALSE
               ELSE UNCHANGED transport
    /\ stop' = FALSE
    /\ thread' = "loop"
    /\ quiet' = FALSE
    /\ UNCHANGED <<helpers, calls, stuck, sender, test, service>>

\* start: a stopped owner gets a new transport, once the old one is clean.
Start ==
    /\ service = "idle" /\ thread = "dead" /\ gen < MaxStart
    /\ Clean
    /\ IF stop THEN /\ gen' = gen + 1
                    /\ stopped' = FALSE /\ owned' = 0 /\ creating' = FALSE
               ELSE UNCHANGED transport
    /\ stop' = FALSE
    /\ thread' = "loop"
    /\ quiet' = FALSE
    /\ UNCHANGED <<helpers, calls, stuck, sender, test, service>>

\* stop begins with request_stop.
RequestStop ==
    /\ service = "idle"
    /\ stop' = TRUE
    /\ Cancel
    /\ service' = "joining"
    /\ UNCHANGED <<gen, owned, creating, helpers, calls, stuck, sender, thread, test, quiet>>

Join ==
    /\ service = "joining" /\ thread = "dead"
    /\ service' = "joined"
    /\ UNCHANGED <<tvars, stop, sender, thread, test, quiet>>

\* Mutation of TakeSender: a manual test is not waited for.
TakeSenderNever ==
    /\ service = "joined"
    /\ service' = "holding"
    /\ UNCHANGED <<tvars, stop, sender, thread, test, quiet>>

\* A manual test must finish its own cleanup first.
TakeSender ==
    /\ service = "joined" /\ sender = NoThread
    /\ sender' = Service
    /\ service' = "holding"
    /\ UNCHANGED <<tvars, stop, thread, test, quiet>>

\* Mutation of StopTimesOut: the late return forgets the sender lock.
StopTimesOutHolding ==
    /\ service # "idle" /\ at[Service] = "out"
    /\ service \in {"holding", "retrying"} => ~Clean
    /\ service' = "idle"
    /\ UNCHANGED <<tvars, sender, stop, thread, test, quiet>>

\* Every wait of stop() has a deadline, after which it returns False.
StopTimesOut ==
    /\ service # "idle" /\ at[Service] = "out"
    /\ service \in {"holding", "retrying"} => ~Clean
    /\ service' = "idle"
    /\ sender' = IF sender = Service THEN NoThread ELSE sender
    /\ UNCHANGED <<tvars, stop, thread, test, quiet>>

\* stop returns True: nothing of the owner is left.
StopDone ==
    /\ service \in {"holding", "retrying"} /\ at[Service] = "out" /\ Clean
    /\ service' = "idle"
    /\ sender' = IF sender = Service THEN NoThread ELSE sender
    /\ quiet' = TRUE
    /\ UNCHANGED <<tvars, stop, thread, test>>

StopRetries ==
    /\ service = "holding" /\ ~Clean
    /\ TakeRetained(Service, "return")
    /\ service' = "retrying"
    /\ UNCHANGED <<gen, stopped, owned, helpers, ref, stuck, stop, sender, thread, test, quiet>>

-----------------------------------------------------------------------------
(* send_payload, for the worker and for an API thread.                     *)

\* Taken without waiting; a busy sender is refused (delivery_busy).
TakeSenderFor(t) ==
    /\ sender = NoThread
    /\ sender' = t

GiveSender(t) == sender' = IF sender = t THEN NoThread ELSE sender

TestBegins(t) ==
    /\ test[t] = "idle" /\ at[t] = "out"
    /\ TakeSenderFor(t)
    /\ test' = [test EXCEPT ![t] = "locked"]
    /\ UNCHANGED <<tvars, stop, thread, service, quiet>>

TestCalls(t) ==
    /\ test[t] = "locked" /\ ~stop
    /\ Call(t)
    /\ test' = [test EXCEPT ![t] = "calling"]
    /\ UNCHANGED <<transport, helpers, stuck, stop, sender, thread, service, quiet>>

\* The test ends: refused by a stop that came first, or answered.
TestEnds(t) ==
    /\ \/ test[t] = "locked" /\ stop
       \/ test[t] = "calling" /\ at[t] = "out"
    /\ GiveSender(t)
    /\ test' = [test EXCEPT ![t] = "idle"]
    /\ UNCHANGED <<tvars, stop, thread, service, quiet>>

-----------------------------------------------------------------------------
(* _run and the drain it calls.                                            *)

Goto(p) == thread' = p

\* `while not self.cancelled()`, and the end of the pause.
Loop ==
    /\ thread \in {"loop", "pause"}
    /\ Goto(IF stop THEN "leaving" ELSE IF thread = "loop" THEN "drain" ELSE "loop")
    /\ UNCHANGED <<tvars, stop, sender, test, service, quiet>>

\* The batch is over, the outbox empty, or the drain was cancelled.
DrainEnds ==
    /\ thread = "drain"
    /\ Goto("pause")
    /\ UNCHANGED <<tvars, stop, sender, test, service, quiet>>

\* A due row is sent, unless a manual test has the sender.
DrainSends ==
    /\ thread = "drain" /\ ~stop
    /\ IF sender = NoThread THEN TakeSenderFor(Worker) /\ Goto("locked")
       ELSE UNCHANGED sender /\ Goto("pause")
    /\ UNCHANGED <<tvars, stop, test, service, quiet>>

SendCalls ==
    /\ thread = "locked"
    /\ IF stop THEN /\ GiveSender(Worker) /\ Goto("drain")
                    /\ UNCHANGED calls
       ELSE Call(Worker) /\ Goto("calling") /\ UNCHANGED sender
    /\ UNCHANGED <<transport, helpers, stuck, stop, test, service, quiet>>

SendEnds ==
    /\ thread = "calling" /\ at[Worker] = "out"
    /\ GiveSender(Worker)
    /\ Goto("drain")
    /\ UNCHANGED <<tvars, stop, test, service, quiet>>

\* The thread's own end: cancel, then clean up if no test owns the sender.
Leave ==
    /\ thread = "leaving"
    /\ Cancel
    /\ IF sender = NoThread THEN TakeSenderFor(Worker) /\ Goto("tidying")
       ELSE UNCHANGED sender /\ Goto("dead")
    /\ UNCHANGED <<gen, owned, creating, helpers, calls, stuck, stop, test, service, quiet>>

TidyBegins ==
    /\ thread = "tidying"
    /\ Goto("tidied")
    /\ TakeRetained(Worker, "return") \/ ((owned = 0 \/ creating) /\ UNCHANGED <<creating, at, mine, then>>)
    /\ UNCHANGED <<gen, stopped, owned, helpers, ref, stuck, stop, sender, test, service, quiet>>

TidyEnds ==
    /\ thread = "tidied" /\ at[Worker] = "out"
    /\ GiveSender(Worker)
    /\ Goto("dead")
    /\ UNCHANGED <<tvars, stop, test, service, quiet>>

-----------------------------------------------------------------------------
WorkerStep ==
    \/ Loop \/ DrainEnds \/ DrainSends \/ SendCalls \/ SendEnds
    \/ Leave \/ TidyBegins \/ TidyEnds
    \/ RequestStep(Worker) /\ UNCHANGED wvars

TestStep(t) ==
    \/ TestBegins(t) \/ TestCalls(t) \/ TestEnds(t)
    \/ RequestStep(t) /\ UNCHANGED wvars

ServiceStep ==
    \/ Start \/ RequestStop \/ Join \/ TakeSender \/ StopTimesOut
    \/ StopDone \/ StopRetries
    \/ RequestStep(Service) /\ UNCHANGED wvars

Next == WorkerStep \/ ServiceStep \/ \E t \in Testers : TestStep(t)

Spec == Init /\ [][Next]_vars

\* Every thread that is running goes on; what the operator asks for is free.
FairSpec ==
    /\ Spec
    /\ WF_vars(WorkerStep)
    /\ \A t \in Testers :
        WF_vars(TestCalls(t) \/ TestEnds(t) \/ (RequestStep(t) /\ UNCHANGED wvars))
    /\ WF_vars(RequestStep(Service) /\ UNCHANGED wvars)

-----------------------------------------------------------------------------
\* The sender lock is held exactly by whoever is between its two ends.
SenderHeld ==
    /\ sender = Service <=> service \in {"holding", "retrying"}
    /\ sender = Worker <=> thread \in {"locked", "calling", "tidying", "tidied"}
    /\ \A t \in Testers : sender = t <=> test[t] # "idle"

\* The variables have their types, and the lock has the holder it should have.
TypeOK ==
    /\ TransportTypeOK
    /\ stop \in BOOLEAN /\ quiet \in BOOLEAN
    /\ sender \in Threads \cup {NoThread}
    /\ thread \in {"dead", "loop", "pause", "drain", "locked", "calling",
                   "leaving", "tidying", "tidied"}
    /\ test \in [Testers -> {"idle", "locked", "calling"}]
    /\ service \in {"idle", "joining", "joined", "holding", "retrying"}
    /\ SenderHeld

\* The owner never has two helper processes, whatever failed to be cleaned up
\* before (delivery_worker.py: "one thread and one HTTP helper at a time").
OneHelper == Cardinality(alive) <= 1

\* Transport.clean never says so while a helper lives.
CleanMeansGone == Clean => alive = {}

\* Once stop() has returned True no helper lives, none is being made and no
\* thread is on its way to one, until the owner is started again.
StopMeansQuiet ==
    quiet => /\ thread = "dead" /\ alive = {} /\ ~creating
             /\ \A t \in Threads : at[t] = "out"

\* A stop request ends the worker's thread and every creation under way.
Winddown == stop ~> (~stop \/ (thread = "dead" /\ ~creating))
=============================================================================
