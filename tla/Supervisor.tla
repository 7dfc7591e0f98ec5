----------------------------- MODULE Supervisor -----------------------------
(***************************************************************************)
(* The lifecycle of one monitor instance in monitors/supervisor.py: the    *)
(* runtimes that operators register, replace and stop, the worker thread   *)
(* and the cleanup thread of each, the watchdog, and the start and stop of *)
(* the whole supervisor.  The registry lock is held for one action at a    *)
(* time; every call of a plugin and every start of a thread lies between   *)
(* two actions.  Deadlines are choices: a wait may end early.              *)
(***************************************************************************)
EXTENDS Naturals

CONSTANTS
    Ops,            \* threads of the control API
    MaxRuntime,     \* bound: runtimes reserved for the instance
    MaxTrouble      \* bound: stop requests, threads that fail to start or die and
                    \* cleanups that fail, together

ASSUME SupervisorAssumption == {MaxRuntime, MaxTrouble} \subseteq Nat

VARIABLES
    reg,            \* _monitors[iid], or 0
    pending,        \* _pending[iid]: the runtime it is reserved for, or 0
    retired,        \* _retired[iid]
    rt,             \* rt[m]: the _Managed record of runtime m and its threads
    made,           \* runtimes reserved so far
    asked,          \* runtimes that some thread is about to _retire
    op,             \* op[o]: what API thread o is doing
    running,        \* _running
    closed,         \* _closed
    boot,           \* start(): "no", "starting" or "done"
    watch,          \* the watchdog has decided to restart the worker
    halt,           \* stop(): "no", "marking" or "done"
    stops, faults

registry == <<reg, pending, retired>>
whole == <<running, closed, boot, halt>>
vars == <<registry, rt, made, asked, op, whole, watch, stops, faults>>

Runtimes == 1 .. MaxRuntime
None == 0
Idle == [at |-> "idle", new |-> None, old |-> None]

\* worker: "made" has a Thread object, "born" runs but has not looked at stop,
\* "starting" and "checking" are in the plugin, "failed" has failed to start it.
\* cleanup: "made" has a Thread object, "waiting" waits for initialized,
\* "stopping" is in the plugin, "joining" waits for the worker, "pruning" has
\* set cleanup_done.
Fresh == [worker |-> "none", launching |-> FALSE, cleanup |-> "none", error |-> FALSE,
          created |-> FALSE, stop |-> FALSE, cancel |-> FALSE, retiring |-> FALSE]

Init ==
    /\ reg = None /\ pending = None /\ retired = {}
    /\ rt = [m \in Runtimes |-> Fresh]
    /\ made = 0 /\ asked = {}
    /\ op = [o \in Ops |-> Idle]
    /\ running = FALSE /\ closed = FALSE /\ boot = "no" /\ halt = "no"
    /\ watch = FALSE
    /\ stops = 0 /\ faults = 0

Fault == stops + faults < MaxTrouble /\ faults' = faults + 1

-----------------------------------------------------------------------------
(* What a runtime looks like to the code.                                  *)

Alive(m) == rt[m].worker \in {"born", "starting", "looping", "checking", "failed"}

\* initialized is set: the plugin's start is not in progress, nor still to come.
Initialized(m) == rt[m].worker \notin {"made", "born", "starting"}

Cleaned(m) == rt[m].cleanup \in {"pruning", "done"} /\ ~rt[m].error

\* _prune's complete.
Complete(m) == rt[m].retiring /\ Cleaned(m) /\ ~Alive(m)

\* _prune: complete runtimes leave the books.
Prune ==
    /\ reg' = IF reg # None /\ Complete(reg) THEN None ELSE reg
    /\ retired' = {m \in retired : ~Complete(m)}

\* Registered or in _retired.
Held == (IF reg = None THEN {} ELSE {reg}) \cup retired

\* The instance has nobody on the books after a _prune.
Gone == \A m \in Held : Complete(m)

Goto(o, at) == op' = [op EXCEPT ![o].at = at]
-----------------------------------------------------------------------------
(* Starting a worker, retiring a runtime.                                  *)

\* _start_worker's conditions, for the runtime that is registered now.
MayStart ==
    /\ reg # None /\ ~closed
    /\ ~rt[reg].retiring /\ ~rt[reg].stop /\ ~rt[reg].cancel
    /\ ~rt[reg].launching /\ ~Alive(reg)

\* _start_worker under the lock: a Thread object, or start_failed.
MakeWorker ==
    \/ /\ rt' = [rt EXCEPT ![reg].worker = "made", ![reg].launching = TRUE]
       /\ UNCHANGED <<asked, faults>>
    \/ /\ Fault
       /\ rt' = [rt EXCEPT ![reg].worker = "none"]
       /\ asked' = asked \cup {reg}

\* t.start(), or an unstarted thread whose runtime is retired.
LaunchWorker(m) ==
    /\ rt[m].worker = "made"
    /\ \/ /\ rt' = [rt EXCEPT ![m].worker = "born"]
          /\ UNCHANGED <<asked, faults>>
       \/ /\ Fault
          /\ rt' = [rt EXCEPT ![m].worker = "none"]
          /\ asked' = asked \cup {m}
    /\ UNCHANGED <<registry, made, op, whole, watch, stops>>

\* The end of _start_worker: worker_launch_pending is cleared.
LaunchEnds(m) ==
    /\ rt[m].launching /\ rt[m].worker # "made"
    /\ rt' = [rt EXCEPT ![m].launching = FALSE]
    /\ UNCHANGED <<registry, made, asked, op, whole, watch, stops, faults>>

\* request_stop's locked section: everything of the instance is marked, the
\* reservation included; _retire follows for each runtime on the books.
Mark ==
    /\ rt' = [m \in Runtimes |->
                IF m \in Held THEN [rt[m] EXCEPT !.cancel = TRUE, !.stop = TRUE, !.retiring = TRUE]
                ELSE IF m = pending THEN [rt[m] EXCEPT !.cancel = TRUE]
                ELSE rt[m]]
    /\ asked' = asked \cup Held

\* No cleanup yet, or a failed one.
NeedsCleanup(m) ==
    rt[m].cleanup = "none" \/ (rt[m].cleanup = "done" /\ rt[m].error)

\* _retire's locked section: one cleanup thread at a time, none after success.
Retire(m) ==
    /\ m \in asked
    /\ asked' = asked \ {m}
    /\ \/ /\ NeedsCleanup(m)
          /\ \/ /\ rt' = [rt EXCEPT ![m].retiring = TRUE, ![m].stop = TRUE,
                                     ![m].cleanup = "made", ![m].error = FALSE]
                /\ UNCHANGED faults
             \/ /\ Fault
                /\ rt' = [rt EXCEPT ![m].retiring = TRUE, ![m].stop = TRUE,
                                     ![m].cleanup = "done", ![m].error = TRUE]
       \/ /\ ~NeedsCleanup(m)
          /\ rt' = [rt EXCEPT ![m].retiring = TRUE, ![m].stop = TRUE]
          /\ UNCHANGED faults
    /\ UNCHANGED <<registry, made, op, whole, watch, stops>>

\* _retire's t.start().
LaunchCleanup(m) ==
    /\ rt[m].cleanup = "made"
    /\ \/ /\ rt' = [rt EXCEPT ![m].cleanup = "waiting"]
          /\ UNCHANGED faults
       \/ /\ Fault
          /\ rt' = [rt EXCEPT ![m].cleanup = "done", ![m].error = TRUE]
    /\ UNCHANGED <<registry, made, asked, op, whole, watch, stops>>

-----------------------------------------------------------------------------
(* _cleanup.                                                               *)

\* Mutation of CleanupCalls: it does not wait for initialized.
CleanupCallsAtOnce(m) ==
    /\ rt[m].cleanup = "waiting"
    /\ rt' = [rt EXCEPT ![m].cleanup = "stopping"]
    /\ UNCHANGED <<registry, made, asked, op, whole, watch, stops, faults>>

\* initialized.wait() returned: instance.stop begins.
CleanupCalls(m) ==
    /\ rt[m].cleanup = "waiting" /\ Initialized(m)
    /\ rt' = [rt EXCEPT ![m].cleanup = "stopping"]
    /\ UNCHANGED <<registry, made, asked, op, whole, watch, stops, faults>>

\* instance.stop returns or raises.
StopReturns(m) ==
    /\ rt[m].cleanup = "stopping"
    /\ \/ /\ rt' = [rt EXCEPT ![m].cleanup = "joining"]
          /\ UNCHANGED faults
       \/ /\ Fault
          /\ rt' = [rt EXCEPT ![m].cleanup = "joining", ![m].error = TRUE]
    /\ UNCHANGED <<registry, made, asked, op, whole, watch, stops>>

\* The join ends, or its time does: cleanup_done is set.
JoinEnds(m) ==
    /\ rt[m].cleanup = "joining"
    /\ rt' = [rt EXCEPT ![m].cleanup = "pruning"]
    /\ UNCHANGED <<registry, made, asked, op, whole, watch, stops, faults>>

CleanupEnds(m) ==
    /\ rt[m].cleanup = "pruning"
    /\ Prune
    /\ rt' = [rt EXCEPT ![m].cleanup = "done"]
    /\ UNCHANGED <<pending, made, asked, op, whole, watch, stops, faults>>

-----------------------------------------------------------------------------
(* _run.                                                                   *)

WorkerStep(m, from, to) ==
    /\ rt[m].worker = from
    /\ rt' = [rt EXCEPT ![m].worker = to]
    /\ UNCHANGED <<registry, made, asked, op, whole, watch, stops>>

Begins(m) ==
    /\ WorkerStep(m, "born", IF rt[m].stop \/ rt[m].cancel THEN "looping" ELSE "starting")
    /\ UNCHANGED faults

StartReturns(m) == WorkerStep(m, "starting", "looping") /\ UNCHANGED faults

\* instance.start raises: the worker retires its own runtime.
StartFails(m) ==
    /\ rt[m].worker = "starting" /\ Fault
    /\ rt' = [rt EXCEPT ![m].worker = "failed", ![m].stop = TRUE]
    /\ asked' = asked \cup {m}
    /\ UNCHANGED <<registry, made, op, whole, watch, stops>>

GivesUp(m) == m \notin asked /\ WorkerStep(m, "failed", "dead") /\ UNCHANGED faults

\* The loop's conditions: check, or the end of the thread.
Loops(m) ==
    /\ WorkerStep(m, "looping",
            IF ~rt[m].stop /\ ~rt[m].cancel /\ running /\ reg = m THEN "checking" ELSE "dead")
    /\ UNCHANGED faults

\* check returns, or raises an Exception; then the wait, which stop ends.
CheckReturns(m) == WorkerStep(m, "checking", "looping") /\ UNCHANGED faults

\* The plugin raises what _run does not catch.
Dies(m) == (WorkerStep(m, "starting", "dead") \/ WorkerStep(m, "checking", "dead")) /\ Fault
-----------------------------------------------------------------------------
(* The control API: register and reconfigure, each in a thread of its own. *)

Reserve(o, at, old) ==
    /\ made < MaxRuntime
    /\ made' = made + 1
    /\ pending' = made + 1
    /\ op' = [op EXCEPT ![o] = [at |-> at, new |-> made + 1, old |-> old]]

\* register: the name is free of every earlier runtime.
ReserveNew(o) ==
    /\ op[o].at = "idle"
    /\ ~closed /\ Gone /\ pending = None
    /\ Prune
    /\ Reserve(o, "creating", None)
    /\ UNCHANGED <<rt, asked, whole, watch, stops, faults>>

\* plugin.create returned: registered, and stopped at once if cancelled.
Creates(o) ==
    /\ op[o].at = "creating"
    /\ reg' = op[o].new
    /\ rt' = [rt EXCEPT ![op[o].new].created = TRUE]
    /\ Goto(o, IF rt[op[o].new].cancel \/ closed THEN "cancelling" ELSE "registered")
    /\ UNCHANGED <<pending, retired, made, asked, whole, watch, stops, faults>>

\* plugin.create raised.
CreateFails(o) ==
    /\ op[o].at \in {"creating", "replacing"}
    /\ Goto(o, "clearing")
    /\ UNCHANGED <<registry, rt, made, asked, whole, watch, stops, faults>>

\* request_stop of a registration that was cancelled meanwhile.
Cancels(o) ==
    /\ op[o].at = "cancelling"
    /\ Mark
    /\ Goto(o, "clearing")
    /\ UNCHANGED <<registry, made, whole, watch, stops, faults>>

\* The worker is started, unless the supervisor is not running yet.
Starts(o) ==
    /\ op[o].at = "registered"
    /\ IF running /\ MayStart
       THEN MakeWorker /\ Goto(o, "launching")
       ELSE Goto(o, "clearing") /\ UNCHANGED <<rt, asked, faults>>
    /\ UNCHANGED <<registry, made, whole, watch, stops>>

\* reconfigure: one operation at a time, on a runtime nobody is stopping.
ReserveChange(o) ==
    /\ op[o].at = "idle"
    /\ ~closed /\ pending = None
    /\ reg # None /\ ~rt[reg].retiring /\ {m \in retired : ~Complete(m)} = {}
    /\ Prune
    /\ Reserve(o, "replacing", reg)
    /\ UNCHANGED <<rt, asked, whole, watch, stops, faults>>

\* The replacement exists: now the old runtime is retired.
Replaces(o) ==
    /\ op[o].at = "replacing"
    /\ rt' = [rt EXCEPT ![op[o].new].created = TRUE]
    /\ asked' = asked \cup {op[o].old}
    /\ Goto(o, "waiting")
    /\ UNCHANGED <<registry, made, whole, watch, stops, faults>>

\* Mutation of Waited: when the time is up, the old runtime is only set aside.
WaitedNoLonger(o) ==
    /\ op[o].at = "waiting"
    /\ op[o].old \notin asked /\ rt[op[o].old].cleanup # "made"
    /\ reg' = None /\ retired' = {m \in Held : ~Complete(m)}
    /\ Goto(o, "installing")
    /\ UNCHANGED <<pending, rt, made, asked, whole, watch, stops, faults>>

\* The old runtime is gone, or the time is up and the replacement is not used.
Waited(o) ==
    /\ op[o].at = "waiting"
    /\ op[o].old \notin asked /\ rt[op[o].old].cleanup # "made"
    /\ Prune
    /\ Goto(o, IF Gone THEN "installing" ELSE "discarding")
    /\ UNCHANGED <<pending, rt, made, asked, whole, watch, stops, faults>>

\* Mutation of Installs: a stop or a cancellation is not looked at again.
InstallsAnyway(o) ==
    /\ op[o].at = "installing"
    /\ reg' = op[o].new /\ Goto(o, "registered")
    /\ UNCHANGED <<pending, retired, rt, made, asked, whole, watch, stops, faults>>

Installs(o) ==
    /\ op[o].at = "installing"
    /\ IF rt[op[o].new].cancel \/ closed
       THEN Goto(o, "discarding") /\ UNCHANGED reg
       ELSE reg' = op[o].new /\ Goto(o, "registered")
    /\ UNCHANGED <<pending, retired, rt, made, asked, whole, watch, stops, faults>>

\* Mutation of Discards: the unused replacement is dropped, not cleaned up.
DiscardsQuietly(o) ==
    /\ op[o].at = "discarding"
    /\ Goto(o, "clearing")
    /\ UNCHANGED <<registry, rt, made, asked, whole, watch, stops, faults>>

\* A replacement that is not used is retired as well.
Discards(o) ==
    /\ op[o].at = "discarding"
    /\ retired' = retired \cup {op[o].new}
    /\ asked' = asked \cup {op[o].new}
    /\ Goto(o, "clearing")
    /\ UNCHANGED <<reg, pending, rt, made, whole, watch, stops, faults>>

\* Mutation of Clears: only an operation that went well ends its reservation.
ClearsAfterSuccess(o) ==
    /\ \/ op[o].at = "clearing" /\ op[o].new \notin asked /\ rt[op[o].new].cleanup # "made"
       \/ op[o].at = "launching" /\ ~rt[op[o].new].launching
    /\ pending' = IF pending = reg THEN None ELSE pending
    /\ op' = [op EXCEPT ![o] = Idle]
    /\ UNCHANGED <<reg, retired, rt, made, asked, whole, watch, stops, faults>>

\* The reservation ends with the operation.
Clears(o) ==
    /\ \/ op[o].at = "clearing" /\ op[o].new \notin asked /\ rt[op[o].new].cleanup # "made"
       \/ op[o].at = "launching" /\ ~rt[op[o].new].launching
    /\ pending' = IF pending = op[o].new THEN None ELSE pending
    /\ op' = [op EXCEPT ![o] = Idle]
    /\ UNCHANGED <<reg, retired, rt, made, asked, whole, watch, stops, faults>>

-----------------------------------------------------------------------------
(* Stop requests, the watchdog, start and stop of the supervisor.          *)

\* request_stop, of an instance that is known.
RequestStop ==
    /\ stops + faults < MaxTrouble /\ stops' = stops + 1
    /\ Held # {} \/ pending # None
    /\ Mark
    /\ UNCHANGED <<registry, made, op, whole, watch, faults>>

\* A restart of the process was granted: the event of an operation that has not
\* answered yet is set.
Revoke ==
    /\ \E m \in {reg, pending} \ {None} : rt' = [rt EXCEPT ![m].cancel = TRUE]
    /\ UNCHANGED <<registry, made, asked, op, whole, watch, stops, faults>>

\* has, and the last part of stop_result.
Look ==
    /\ Prune
    /\ UNCHANGED <<pending, rt, made, asked, op, whole, watch, stops, faults>>

\* Mutation of StartAll: it leaves the workers to the watchdog.
StartAllLater ==
    /\ boot = "no" /\ ~closed
    /\ running' = TRUE
    /\ boot' = "done"
    /\ UNCHANGED <<registry, rt, made, asked, op, closed, halt, watch, stops, faults>>

\* start(): from now on a registration starts its own worker.
StartAll ==
    /\ boot = "no" /\ ~closed
    /\ running' = TRUE
    /\ boot' = IF reg = None THEN "done" ELSE "starting"
    /\ UNCHANGED <<registry, rt, made, asked, op, closed, halt, watch, stops, faults>>

\* Each instance that start() found.
StartOne ==
    /\ boot = "starting"
    /\ boot' = "done"
    /\ IF MayStart THEN MakeWorker ELSE UNCHANGED <<rt, asked, faults>>
    /\ UNCHANGED <<registry, made, op, running, closed, halt, watch, stops>>

\* _watch, under both locks: the worker ended though nobody asked it to.
Watches ==
    /\ boot = "done" /\ running /\ ~watch
    /\ reg # None /\ ~rt[reg].stop /\ ~rt[reg].launching /\ rt[reg].worker = "dead"
    /\ watch' = TRUE
    /\ UNCHANGED <<registry, rt, made, asked, op, whole, stops, faults>>

\* _start_worker again, outside the locks.
Restarts ==
    /\ watch
    /\ watch' = FALSE
    /\ IF MayStart THEN MakeWorker ELSE UNCHANGED <<rt, asked, faults>>
    /\ UNCHANGED <<registry, made, op, whole, stops>>

\* stop(): nothing is registered or started from now on.
StopAll ==
    /\ halt = "no"
    /\ closed' = TRUE /\ running' = FALSE
    /\ halt' = IF Held = {} /\ pending = None THEN "done" ELSE "marking"
    /\ UNCHANGED <<registry, rt, made, asked, op, boot, watch, stops, faults>>

\* request_stop for each instance that stop() found.
StopOne ==
    /\ halt = "marking"
    /\ halt' = "done"
    /\ Mark
    /\ UNCHANGED <<registry, made, op, running, closed, boot, watch, stops, faults>>

-----------------------------------------------------------------------------
Operation(o) ==
    \/ Creates(o) \/ CreateFails(o) \/ Cancels(o) \/ Starts(o)
    \/ Replaces(o) \/ Waited(o) \/ Installs(o) \/ Discards(o) \/ Clears(o)

Launching(m) == LaunchWorker(m) \/ LaunchEnds(m)

Retiring(m) == Retire(m) \/ LaunchCleanup(m)

Cleanup(m) == CleanupCalls(m) \/ StopReturns(m) \/ JoinEnds(m) \/ CleanupEnds(m)

Worker(m) ==
    \/ Begins(m) \/ StartReturns(m) \/ StartFails(m) \/ GivesUp(m)
    \/ Loops(m) \/ CheckReturns(m) \/ Dies(m)

Next ==
    \/ \E o \in Ops : ReserveNew(o) \/ ReserveChange(o) \/ Operation(o)
    \/ \E m \in Runtimes : Launching(m) \/ Retiring(m) \/ Cleanup(m) \/ Worker(m)
    \/ RequestStop \/ Revoke \/ Look
    \/ StartAll \/ StartOne \/ Watches \/ Restarts \/ StopAll \/ StopOne

Spec == Init /\ [][Next]_vars

\* Threads keep running, plugin calls return, waits end.
FairSpec ==
    /\ Spec
    /\ \A o \in Ops : WF_vars(Operation(o))
    /\ \A m \in Runtimes :
        /\ WF_vars(Launching(m)) /\ WF_vars(Retiring(m))
        /\ WF_vars(Cleanup(m)) /\ WF_vars(Worker(m))
    /\ WF_vars(StartOne) /\ WF_vars(Watches) /\ WF_vars(Restarts) /\ WF_vars(StopOne)

-----------------------------------------------------------------------------
\* The variables have their types; a runtime is registered or retired, never
\* both, and each reservation belongs to an operation under way.
TypeOK ==
    /\ reg \in 0 .. MaxRuntime /\ pending \in 0 .. MaxRuntime
    /\ retired \subseteq Runtimes /\ asked \subseteq Runtimes /\ reg \notin retired
    /\ rt \in [Runtimes -> [
            worker : {"none", "made", "born", "starting", "looping", "checking", "failed", "dead"},
            launching : BOOLEAN,
            cleanup : {"none", "made", "waiting", "stopping", "joining", "pruning", "done"},
            error : BOOLEAN, created : BOOLEAN, stop : BOOLEAN, cancel : BOOLEAN,
            retiring : BOOLEAN]]
    /\ made \in 0 .. MaxRuntime /\ {faults, stops} \subseteq 0 .. MaxTrouble
    /\ op \in [Ops -> [at : {"idle", "creating", "cancelling", "registered", "launching",
                            "replacing", "waiting", "installing", "discarding", "clearing"},
                       new : 0 .. MaxRuntime, old : 0 .. MaxRuntime]]
    /\ {running, closed, watch} \subseteq BOOLEAN
    /\ boot \in {"no", "starting", "done"} /\ halt \in {"no", "marking", "done"}
    /\ pending # None => \E o \in Ops : op[o].at # "idle" /\ op[o].new = pending

\* A runtime that works for the instance: its thread is in the plugin or about
\* to be, or its plugin is being stopped.
Active(m) == Alive(m) \/ (rt[m].worker # "none" /\ rt[m].cleanup = "stopping")

\* Two runtimes of one instance never work at once, however a replacement, a
\* stop that timed out and a restart by the watchdog interleave.
OneRuntime == \A m, n \in Runtimes : Active(m) /\ Active(n) => m = n

\* A plugin's stop is never called while its start runs or is still to come,
\* and never after it has once succeeded.
StartStopApart ==
    \A m \in Runtimes : rt[m].cleanup \in {"stopping", "joining"} \/ Cleaned(m) => Initialized(m)

\* A plugin that was created is on the books, or in the hands of an operation,
\* until its stop succeeded and its thread ended.
NothingLeaks ==
    \A m \in Runtimes : rt[m].created =>
        \/ m \in Held \/ (\E o \in Ops : op[o].new = m)
        \/ Cleaned(m) /\ ~Alive(m)

\* A registered runtime works: whoever comes first, start or register, starts
\* its worker, and the watchdog replaces one that died, unless it was stopped.
KeptRunning ==
    (running /\ reg # None /\ rt[reg].worker \in {"none", "dead"})
        ~> (~running \/ reg = None \/ Alive(reg) \/ rt[reg].stop \/ rt[reg].cancel)

\* A stop of the runtime, or of the supervisor, ends: the plugin's stop has
\* succeeded and its thread has ended, or an error is there to be seen.
StopEnds ==
    \A m \in Runtimes :
        (rt[m].created /\ (rt[m].retiring \/ halt = "done"))
            ~> ((Cleaned(m) /\ ~Alive(m)) \/ rt[m].error)

\* One runtime works at a time, its start and stop do not overlap, and none is
\* forgotten.
RuntimesApart == TypeOK /\ OneRuntime /\ StartStopApart /\ NothingLeaks

\* Who is registered works, and who is stopped comes to rest.
Served == KeptRunning /\ StopEnds
=============================================================================
