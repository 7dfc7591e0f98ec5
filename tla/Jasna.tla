------------------------------- MODULE Jasna --------------------------------
(***************************************************************************)
(* One managed restoration task: its queue of films, the restoration child *)
(* and the transcription child that take turns on the process-wide GPU     *)
(* lease, the translator beside them, the thread that polls it all, and a  *)
(* stop that comes from another thread at any moment.                      *)
(***************************************************************************)
EXTENDS SubtitleJobs

CONSTANTS
    Restored0,      \* films whose restored video exists at the first start
    Transcribed0,   \* films whose transcript may exist then
    AbortAfter,     \* _ABORT_AFTER_FAILURES
    Unet,           \* whether the tier is configured with unet-4x
    MaxRun,         \* bound: starts
    MaxTrouble      \* bound: failures of children, disks and folders

VARIABLES
    run,            \* the generation of _run
    video, failed,  \* the restored videos; the films this run gave up
    kind, pending,  \* _kinds, _pending
    cur, proc,      \* _current; the child of _process
    unetRetry, plainUsed, unetOff,  \* _unet_retry_pending, _plain_retry_used, _run_unet_disabled
    unet,           \* _current_unet
    fails,          \* _consecutive_failures
    stopping, error, aborted, emitted, hadWork,
    advance, waiting,       \* _advance_requested, _gpu_waiting
    subsJob,        \* _subs_job
    holder, carried,        \* _gpu_holder by the kind of its token; _carried
    lease, queued,  \* the GPU lease, and whether this run is one of its waiters
    at, pc, film,   \* the step of check, where in it, and the film of _start_subs
    stopper,        \* the thread in stop()
    trouble

flags == <<stopping, error, aborted, emitted, hadWork>>
queue == <<run, video, failed, kind, pending>>
current == <<cur, unetRetry, plainUsed, unetOff, unet, fails>>
gpu == <<holder, carried, lease, queued, waiting>>
vars == <<disk, asrVars, trVars, book, flags, queue, current, proc, gpu, advance, subsJob,
          at, pc, film, stopper, trouble>>

Init ==
    /\ \E T \in SUBSET Transcribed0 :
         ja = [f \in Films |-> IF f \in T THEN "theirs" ELSE "none"]
    /\ zh = [f \in Films |-> "none"]
    /\ tries = [f \in Films |-> 0] /\ child = None /\ asr = "none"
    /\ translator = "none" /\ asked = {} /\ answers = {}
    /\ settled = [f \in Films |-> "none"] /\ strikes = 0 /\ disabled = FALSE
    /\ only = <<>> /\ cleanup = <<>>
    /\ run = 0 /\ video = Restored0 /\ failed = {}
    /\ kind = [f \in Films |-> "none"] /\ pending = <<>>
    /\ cur = None /\ proc = "none"
    /\ unetRetry = FALSE /\ plainUsed = FALSE /\ unetOff = FALSE /\ unet = FALSE /\ fails = 0
    /\ stopping = FALSE /\ error = FALSE /\ aborted = FALSE /\ emitted = FALSE /\ hadWork = FALSE
    /\ advance = FALSE /\ waiting = FALSE /\ subsJob = None
    /\ holder = "none" /\ carried = FALSE /\ lease = "free" /\ queued = FALSE
    /\ at = "off" /\ pc = "phase" /\ film = None /\ stopper = "none"
    /\ trouble = 0

Trouble == trouble < MaxTrouble /\ trouble' = trouble + 1
Goto(l) == pc' = l
InOrder(S) == SetToSortSeq(S, <)

\* What holds _launch_lock beyond one step.
Locked == pc \in {"popen", "spawned"}

AsrLive == subsJob # None /\ child = subsJob
GpuChildLive == proc # "none" \/ AsrLive

\* _translating.
Translating == translator = "running" /\ asked # {}

\* _gpu_release.
Freed == IF lease = "us" THEN "free" ELSE lease

\* _gpu_give: once, and only for the holder.
Give(h) ==
    IF holder = h THEN holder' = "none" /\ lease' = Freed ELSE UNCHANGED <<holder, lease>>

-----------------------------------------------------------------------------
(* A start.                                                                *)

\* plan_subs.
KindOf(f) ==
    CASE zh[f] # "none" -> "none" [] ja[f] # "none" -> "translate" [] OTHER -> "full"

\* _reset_subs: nothing of an earlier run is left, its hold included.
ResetSubs ==
    /\ tries' = [f \in Films |-> 0] /\ child' = None /\ asr' = "none"
    /\ asked' = {} /\ answers' = {} /\ strikes' = 0 /\ disabled' = FALSE /\ cleanup' = <<>>
    /\ waiting' = FALSE /\ subsJob' = None /\ carried' = FALSE /\ queued' = FALSE
    /\ holder' = "none" /\ lease' = (IF holder # "none" THEN Freed ELSE lease)

\* _start_managed: the queue, and whether the start has work.
StartManaged(jobs) ==
    LET todo == Films \ video
    IN /\ pending' = InOrder(todo)
       /\ hadWork' = (todo # {} \/ jobs # {})
       /\ advance' = (todo = {})
       /\ Goto(IF todo = {} THEN "dispatch" ELSE "launch")

\* _setup_subs: the jobs, and the translator when there are any.
SetupSubs(jobs) ==
    /\ kind' = [f \in Films |-> KindOf(f)]
    /\ only' = InOrder(video \cap jobs)
    /\ settled' = [f \in Films |-> IF f \in jobs THEN "open" ELSE "none"]
    /\ translator' = IF jobs # {} THEN "running" ELSE "none"

\* start; what an earlier run left has been stopped by now.
Start ==
    /\ at = "off" /\ run < MaxRun /\ stopper \in {"none", "over"}
    /\ LET jobs == {f \in Films : KindOf(f) # "none"}
       IN StartManaged(jobs) /\ SetupSubs(jobs)
    /\ ResetSubs
    /\ run' = run + 1 /\ at' = "start"
    /\ ja' = [f \in Films |-> IF ja[f] = "ours" THEN "theirs" ELSE ja[f]]
    /\ zh' = [f \in Films |-> IF zh[f] = "ours" THEN "theirs" ELSE zh[f]]
    /\ failed' = {} /\ cur' = None /\ proc' = "none"
    /\ unetRetry' = FALSE /\ plainUsed' = FALSE /\ unetOff' = FALSE /\ unet' = FALSE /\ fails' = 0
    /\ stopping' = FALSE /\ error' = FALSE /\ aborted' = FALSE /\ emitted' = FALSE
    /\ film' = None /\ stopper' = "none"
    /\ UNCHANGED <<video, trouble>>

-----------------------------------------------------------------------------
(* Deferred work and the dispatch loop.                                    *)

\* _publish_current.
WithCurrent == video \cup {cur}

\* A stop: the children end, what holds the GPU is given, the wait is over.
\* s is what is left of a transcription that was running.
StopBody(s) ==
    /\ proc' = CASE proc = "live" -> "bad" [] proc = "ok" -> "none" [] OTHER -> proc
    /\ video' = IF proc = "ok" THEN WithCurrent ELSE video
    /\ IF AsrLive
       THEN /\ ja' = IF asr = "exited" /\ s = "none" THEN Published(ja, child) ELSE ja
            /\ child' = IF s = "stuck" THEN child ELSE None
            /\ asr' = IF s = "stuck" THEN "stuck" ELSE "none"
            /\ subsJob' = IF s = "stuck" THEN subsJob ELSE None
       ELSE UNCHANGED <<ja, child, asr, subsJob>>
    /\ holder' = "none" /\ lease' = (IF holder # "none" THEN Freed ELSE lease)
    /\ queued' = FALSE /\ waiting' = FALSE

\* How a transcription can end when it is killed.
Leaves(s) ==
    /\ s \in {"none", "lost", "stuck"}
    /\ s = "stuck" => AsrLive /\ asr \in {"live", "stuck"}
    /\ trouble' = IF s = "stuck" /\ asr = "live" THEN trouble + 1 ELSE trouble
    /\ trouble' <= MaxTrouble

\* _run_deferred: the cleanup of _disable_subs.
RunCleanup ==
    /\ pc = "deferred" /\ cleanup # <<>> /\ Head(cleanup).kind = "cleanup"
    /\ cleanup' = Tail(cleanup)
    /\ Cancels
    /\ LET job == Head(cleanup).job
       IN IF job # None /\ child = job
          THEN \E s \in {"none", "stuck"} :
                 /\ Leaves(s) /\ Killed(s)
                 /\ Give("asr")
                 /\ IF s = "none" /\ subsJob = job
                    THEN subsJob' = None /\ advance' = TRUE
                    ELSE UNCHANGED <<subsJob, advance>>
          ELSE UNCHANGED <<asrVars, holder, lease, subsJob, advance, trouble>>
    /\ UNCHANGED <<disk, settled, strikes, disabled, only, flags, queue, current, proc,
                   carried, queued, waiting, at, pc, film, stopper>>

\* _run_deferred: the stop of _stop_unreachable.
RunStop ==
    /\ pc = "deferred" /\ cleanup # <<>> /\ Head(cleanup).kind = "stop"
    /\ cleanup' = Tail(cleanup)
    /\ stopping' = TRUE
    /\ Cancels
    /\ \E s \in {"none", "lost", "stuck"} : Leaves(s) /\ StopBody(s)
    /\ UNCHANGED <<zh, tries, settled, strikes, disabled, only, error, aborted, emitted, hadWork,
                   run, kind, failed, pending, current, carried, advance, at, pc, film, stopper>>

DeferredDone ==
    /\ pc = "deferred" /\ cleanup = <<>>
    /\ Goto("dispatch")
    /\ UNCHANGED <<disk, asrVars, trVars, book, flags, queue, current, proc, gpu, advance,
                   subsJob, at, film, stopper, trouble>>

\* Mutation of AllDone: a job that is settled is taken to have no child left.
AllDoneSettled ==
    /\ hadWork /\ ~emitted /\ ~stopping /\ ~aborted /\ ~error
    /\ pending = <<>> /\ proc = "none" /\ only = <<>> /\ Unsettled = {}
    /\ asked = {} /\ answers = {}

\* _maybe_done, its conditions.
AllDone ==
    /\ hadWork /\ ~emitted /\ ~stopping /\ ~aborted /\ ~error
    /\ pending = <<>> /\ proc = "none"
    /\ subsJob = None /\ only = <<>> /\ Unsettled = {}
    /\ asked = {} /\ answers = {}

\* _maybe_done.
MaybeDone ==
    IF AllDone
    THEN emitted' = TRUE /\ queued' = FALSE /\ translator' = "none"
    ELSE UNCHANGED <<emitted, queued, translator>>

\* The steps of check.
After(phase) ==
    CASE phase = "results" -> "results"
      [] phase = "advance" -> IF error \/ aborted THEN "rest" ELSE "exit"
      [] phase = "exit" -> IF error \/ aborted THEN "rest" ELSE "poll"
      [] phase = "poll" -> "retry"
      [] phase = "retry" -> "retried"
      [] OTHER -> "rest"

\* _dispatch ends; after an exit, so does what is carried.
DispatchEnds ==
    /\ pc = "dispatch" /\ ~advance
    /\ Goto("phase") /\ at' = After(at)
    /\ IF at = "exit" /\ carried
       THEN carried' = FALSE /\ Give("restore")
       ELSE UNCHANGED <<carried, holder, lease>>
    /\ UNCHANGED <<disk, asrVars, trVars, book, flags, queue, current, proc, queued, waiting,
                   advance, subsJob, film, stopper, trouble>>

\* _advance.
Advance ==
    /\ pc = "dispatch" /\ advance
    /\ advance' = FALSE
    /\ \/ /\ aborted \/ stopping \/ error \/ GpuChildLive
          /\ UNCHANGED <<pc, film, only, emitted, queued, translator>>
       \/ /\ ~(aborted \/ stopping \/ error \/ GpuChildLive)
          /\ IF pending # <<>>
             THEN Goto("launch") /\ UNCHANGED <<film, only, emitted, queued, translator>>
             ELSE IF ~disabled /\ only # <<>>
             THEN Goto("subs") /\ film' = Head(only) /\ only' = Tail(only)
                  /\ UNCHANGED <<emitted, queued, translator>>
             ELSE MaybeDone /\ UNCHANGED <<pc, film, only>>
    /\ UNCHANGED <<disk, asrVars, asked, answers, settled, strikes, disabled, cleanup, stopping,
                   error, aborted, hadWork, queue, current, proc, holder, carried, lease, waiting,
                   subsJob, at, stopper, trouble>>

-----------------------------------------------------------------------------
(* The GPU for the next film, _launch_next and _start_subs.                *)

Token == IF pc \in {"launch", "take", "record"} THEN "launch" ELSE "asr"

\* The hold of the film goes on, or was given by a stop.
Carry ==
    /\ pc \in {"launch", "subsGpu"} /\ carried
    /\ carried' = FALSE
    /\ IF pc = "launch" /\ (stopping \/ pending = <<>>)
       THEN Give("restore") /\ Goto("dispatch") /\ UNCHANGED waiting
       ELSE IF holder = "restore"
       THEN holder' = Token /\ waiting' = FALSE /\ UNCHANGED lease
            /\ Goto(IF pc = "launch" THEN "held" ELSE "subsHeld")
       ELSE UNCHANGED <<holder, lease, waiting>>
            /\ Goto(CASE stopping -> "dispatch" [] pc = "launch" -> "take" [] OTHER -> "subsTake")
    /\ UNCHANGED <<disk, asrVars, trVars, book, flags, queue, current, proc, queued, advance,
                   subsJob, at, film, stopper, trouble>>

NothingCarried ==
    /\ pc \in {"launch", "subsGpu"} /\ ~carried
    /\ Goto(CASE pc = "subsGpu" -> IF stopping THEN "deferred" ELSE "subsTake"
              [] stopping \/ pending = <<>> -> "dispatch"
              [] OTHER -> "take")
    /\ UNCHANGED <<disk, asrVars, trVars, book, flags, queue, current, proc, gpu, advance,
                   subsJob, at, film, stopper, trouble>>

\* _gpu_acquire: granted.
Take ==
    /\ pc \in {"take", "subsTake"} /\ lease # "other"
    /\ lease' = "us" /\ queued' = FALSE
    /\ Goto(IF pc = "take" THEN "record" ELSE "subsRecord")
    /\ UNCHANGED <<disk, asrVars, trVars, book, flags, queue, current, proc, holder, carried,
                   waiting, advance, subsJob, at, film, stopper, trouble>>

\* Mutation of Refused: a wait registered after the stop stays.
RefusedQueued ==
    /\ pc \in {"take", "subsTake"} /\ lease = "other"
    /\ queued' = TRUE /\ waiting' = TRUE
    /\ only' = IF pc = "subsTake" THEN <<film>> \o only ELSE only
    /\ Goto("dispatch")
    /\ UNCHANGED <<disk, asrVars, trVars, settled, strikes, disabled, cleanup, flags, queue,
                   current, proc, holder, carried, lease, advance, subsJob, at, film, stopper,
                   trouble>>

\* _gpu_acquire: refused; a film of _start_subs stays first in line.
Refused ==
    /\ pc \in {"take", "subsTake"} /\ lease = "other"
    /\ queued' = ~stopping /\ waiting' = TRUE
    /\ only' = IF pc = "subsTake" THEN <<film>> \o only ELSE only
    /\ Goto("dispatch")
    /\ UNCHANGED <<disk, asrVars, trVars, settled, strikes, disabled, cleanup, flags, queue,
                   current, proc, holder, carried, lease, advance, subsJob, at, film, stopper,
                   trouble>>

\* _gpu_take records who holds.
RecordHold ==
    /\ pc \in {"record", "subsRecord"}
    /\ holder' = Token /\ waiting' = FALSE
    /\ Goto(IF pc = "record" THEN "held" ELSE "subsHeld")
    /\ UNCHANGED <<disk, asrVars, trVars, book, flags, queue, current, proc, carried, lease,
                   queued, advance, subsJob, at, film, stopper, trouble>>

-----------------------------------------------------------------------------
(* The restoration child.                                                  *)

\* _launch_locked, up to the child.
Launch ==
    /\ pc = "held" /\ ~stopping /\ pending # <<>>
    /\ LET f == Head(pending)
           retry == f = cur /\ unetRetry
       IN /\ cur' = f /\ pending' = Tail(pending)
          /\ unetRetry' = retry
          /\ plainUsed' = (f = cur /\ plainUsed)
          /\ unet' = (Unet /\ ~unetOff /\ ~retry)
    /\ Goto("popen")
    /\ UNCHANGED <<disk, asrVars, trVars, book, flags, run, kind, video, failed, unetOff, fails, proc,
                   gpu, advance, subsJob, at, film, stopper, trouble>>

\* Mutation of LaunchGivenUp: the hold is not given back.
LaunchGivenUpHeld ==
    /\ pc = "held" /\ (stopping \/ pending = <<>>)
    /\ Goto("dispatch")
    /\ UNCHANGED <<disk, asrVars, trVars, book, flags, queue, current, proc, gpu, advance, subsJob,
                   at, film, stopper, trouble>>

\* _launch_locked returns without a launch, _launch_next.
LaunchGivenUp ==
    /\ pc = "held" /\ (stopping \/ pending = <<>>)
    /\ Give("launch")
    /\ Goto("dispatch")
    /\ UNCHANGED <<disk, asrVars, trVars, book, flags, queue, current, proc, carried, queued,
                   waiting, advance, subsJob, at, film, stopper, trouble>>

\* Mutation of Launched: the flag is not read again after Popen.
LaunchedAnyway ==
    /\ pc = "popen"
    /\ holder' = "restore" /\ proc' = "live"
    /\ Goto("dispatch")
    /\ UNCHANGED <<disk, asrVars, trVars, book, flags, queue, current, carried, lease, queued,
                   waiting, advance, subsJob, at, film, stopper, trouble>>

\* The child is recorded, unless a stop came meanwhile.
Launched ==
    /\ pc = "popen"
    /\ IF stopping
       THEN Give("launch") /\ UNCHANGED proc
       ELSE holder' = "restore" /\ proc' = "live" /\ UNCHANGED lease
    /\ Goto("dispatch")
    /\ UNCHANGED <<disk, asrVars, trVars, book, flags, queue, current, carried, queued, waiting,
                   advance, subsJob, at, film, stopper, trouble>>

\* Popen raises, _emit_launch_error.
LaunchFails ==
    /\ pc = "popen" /\ Trouble
    /\ error' = TRUE /\ queued' = FALSE
    /\ Give("launch")
    /\ Goto("dispatch")
    /\ UNCHANGED <<disk, asrVars, trVars, book, stopping, aborted, emitted, hadWork, queue,
                   current, proc, carried, waiting, advance, subsJob, at, film, stopper>>

\* _handle_exit while stopping.
ExitStopping ==
    /\ at = "exit" /\ pc = "phase" /\ proc \in {"ok", "bad"} /\ stopping
    /\ video' = IF proc = "ok" THEN WithCurrent ELSE video
    /\ proc' = "none"
    /\ Give("restore")
    /\ at' = After("exit")
    /\ UNCHANGED <<disk, asrVars, trVars, book, flags, run, kind, failed, pending, current, carried,
                   queued, waiting, advance, subsJob, pc, film, stopper, trouble>>

Exiting == at = "exit" /\ pc = "phase" /\ ~stopping

\* _handle_exit, _handle_success: published, and its subtitles are next.
ExitSuccess ==
    /\ Exiting /\ proc = "ok"
    /\ proc' = "none" /\ video' = WithCurrent
    /\ fails' = 0 /\ unetRetry' = FALSE /\ unetOff' = (unetOff \/ unetRetry)
    /\ IF ~disabled /\ settled[cur] = "open"
       THEN /\ film' = cur /\ Goto("subs")
            /\ carried' = (kind[cur] = "full")
            /\ UNCHANGED advance
       ELSE advance' = TRUE /\ Goto("deferred") /\ UNCHANGED <<film, carried>>
    /\ IF carried' THEN UNCHANGED <<holder, lease>> ELSE Give("restore")
    /\ UNCHANGED <<disk, asrVars, trVars, book, flags, run, kind, failed, pending, cur, plainUsed, unet,
                   queued, waiting, subsJob, at, stopper, trouble>>

\* A failed restore is made once more: without unet-4x, or as it was.
Retries == unet \/ ~plainUsed

\* _handle_failure: once more, without unet-4x or as it is.
ExitRetry ==
    /\ Exiting /\ proc = "bad" /\ Retries
    /\ proc' = "none"
    /\ pending' = <<cur>> \o pending
    /\ unetRetry' = (unetRetry \/ unet) /\ plainUsed' = (plainUsed \/ ~unet)
    /\ carried' = TRUE /\ advance' = TRUE /\ Goto("deferred")
    /\ UNCHANGED <<disk, asrVars, trVars, book, flags, run, kind, video, failed, cur, unetOff, unet, fails,
                   holder, lease, queued, waiting, subsJob, at, film, stopper, trouble>>

\* _fail_current: no restored video, no subtitles; the third in a row aborts.
FailedBook(f, abort) ==
    LET b == Settled(Book, f, "skipped", subsJob)
    IN IF abort THEN Disabled(b, subsJob) ELSE b

\* _handle_failure and _handle_success without a publication, _fail_current.
ExitFailure ==
    /\ Exiting
    /\ \/ proc = "bad" /\ ~Retries /\ UNCHANGED trouble
       \/ proc = "ok" /\ Trouble
    /\ LET abort == fails + 1 >= AbortAfter
       IN /\ Keep(FailedBook(cur, abort))
          /\ aborted' = abort
          /\ queued' = (queued /\ ~abort)
    /\ proc' = "none" /\ failed' = failed \cup {cur} /\ fails' = fails + 1
    /\ Give("restore")
    /\ advance' = TRUE /\ Goto("deferred")
    /\ UNCHANGED <<disk, asrVars, trVars, stopping, error, emitted, hadWork, run, kind, video, pending,
                   cur, unetRetry, plainUsed, unetOff, unet, carried, waiting, subsJob, at, film,
                   stopper>>

-----------------------------------------------------------------------------
(* The subtitles of one film.                                              *)

\* What a fresh listing of the output folder says of a film, _recheck.
Recheck(f, see) ==
    CASE see = "lost" -> "lost" [] zh[f] # "none" -> "exists" [] OTHER -> "go on"

\* The transcript is there: it is handed to the translator.
SubsTranslate ==
    /\ pc = "subs" /\ kind[film] # "full"
    /\ IF stopping \/ disabled
       THEN UNCHANGED <<book, error, trVars, advance, trouble>>
       ELSE /\ advance' = TRUE
            /\ \/ /\ Trouble /\ error' = TRUE
                  /\ Keep(Unreachable(Book)) /\ UNCHANGED trVars
               \/ /\ Trouble /\ Keep(Settled(Book, film, "failed", subsJob))
                  /\ UNCHANGED <<trVars, error>>
               \/ /\ Recheck(film, "listed") = "exists"
                  /\ Keep(Settled(Book, film, "skipped", subsJob))
                  /\ UNCHANGED <<trVars, error, trouble>>
               \/ /\ Recheck(film, "listed") = "go on" /\ Submit(film)
                  /\ UNCHANGED <<book, error, trouble>>
    /\ Goto("deferred")
    /\ UNCHANGED <<disk, asrVars, stopping, aborted, emitted, hadWork, queue, current, proc, gpu,
                   subsJob, at, film, stopper>>

SubsTranscribe ==
    /\ pc = "subs" /\ kind[film] = "full"
    /\ Goto("subsGpu")
    /\ UNCHANGED <<disk, asrVars, trVars, book, flags, queue, current, proc, gpu, advance,
                   subsJob, at, film, stopper, trouble>>

\* Under the lock with the GPU: nothing starts.
SubsGivenUp ==
    /\ pc = "subsHeld"
    /\ \/ /\ stopping \/ disabled
          /\ UNCHANGED <<book, error, advance, trouble>>
       \/ /\ ~stopping /\ ~disabled /\ Trouble
          /\ Keep(Unreachable(Book)) /\ error' = TRUE /\ UNCHANGED advance
       \/ /\ ~stopping /\ ~disabled /\ Recheck(film, "listed") = "exists"
          /\ Keep(Settled(Book, film, "skipped", subsJob))
          /\ advance' = TRUE /\ UNCHANGED <<error, trouble>>
    /\ Give("asr")
    /\ Goto("deferred")
    /\ UNCHANGED <<disk, asrVars, trVars, stopping, aborted, emitted, hadWork, queue, current,
                   proc, carried, queued, waiting, subsJob, at, film, stopper>>

\* start_asr.
StartAsr ==
    /\ pc = "subsHeld" /\ ~stopping /\ ~disabled /\ Recheck(film, "listed") = "go on"
    /\ AsrStarts(film)
    /\ Goto("spawned")
    /\ UNCHANGED <<disk, trVars, book, flags, queue, current, proc, gpu, advance, subsJob, at,
                   film, stopper, trouble>>

\* start_asr fails, twice or because the media changed.
StartAsrFails ==
    /\ pc = "subsHeld" /\ ~stopping /\ ~disabled /\ Trouble
    /\ \E how \in {"failed", "skipped"} :
         /\ AsrFails(film, how = "skipped")
         /\ Keep(Settled(Book, film, how, subsJob))
    /\ Give("asr")
    /\ advance' = TRUE /\ Goto("deferred")
    /\ UNCHANGED <<disk, trVars, flags, queue, current, proc, carried, queued, waiting, subsJob,
                   at, film, stopper>>

\* _fence_internal: something raised beside the child that was just started.
\* The job has failed, and the child keeps the GPU.
FencedLive ==
    /\ pc = "spawned" /\ ~stopping /\ Trouble
    /\ Keep(Settled(Book, film, "failed", subsJob))
    /\ subsJob' = film /\ advance' = TRUE
    /\ Goto("deferred")
    /\ UNCHANGED <<disk, asrVars, trVars, flags, queue, current, proc, gpu, at, film, stopper>>

\* The child of start_asr is recorded, unless a stop came meanwhile.
Spawned ==
    /\ pc = "spawned"
    /\ IF stopping
       THEN \E s \in {"none", "stuck"} :
              /\ s = "stuck" => asr = "live" /\ trouble < MaxTrouble
              /\ trouble' = IF s = "stuck" THEN trouble + 1 ELSE trouble
              /\ Killed(s)
              /\ subsJob' = IF s = "stuck" THEN film ELSE None
              /\ Give("asr")
       ELSE subsJob' = film /\ UNCHANGED <<asrVars, holder, lease, trouble>>
    /\ Goto("deferred")
    /\ UNCHANGED <<disk, trVars, book, flags, queue, current, proc, carried, queued, waiting,
                   advance, at, film, stopper>>

-----------------------------------------------------------------------------
(* The transcription child, _poll_subs.                                    *)

Polling == at = "poll" /\ pc = "phase" /\ subsJob # None
Owned == ~stopping /\ ~disabled /\ settled[subsJob] = "open"

\* Nothing to do, or a stop owns the job.
PollIdle ==
    /\ at = "poll" /\ pc = "phase"
    /\ subsJob = None \/ stopping \/ asr # "exited"
    /\ Goto("dispatch")
    /\ UNCHANGED <<disk, asrVars, trVars, book, flags, queue, current, proc, gpu, advance,
                   subsJob, at, film, stopper, trouble>>

\* poll_asr: an exited child is reaped.
Reaped == child' = None /\ asr' = "none"

\* Mutation of JobOver: nobody is asked for the next film.
JobOverQuiet ==
    subsJob' = None /\ UNCHANGED advance /\ Give("asr") /\ Goto("deferred")

\* A job has ended: its child is gone, the GPU is given, the next film is due.
JobOver == subsJob' = None /\ advance' = TRUE /\ Give("asr") /\ Goto("deferred")

\* _reap_survivor.
ReapSurvivor ==
    /\ Polling /\ ~stopping /\ ~Owned /\ asr = "exited"
    /\ Reaped /\ JobOver
    /\ UNCHANGED <<disk, tries, trVars, book, flags, queue, current, proc, carried, queued,
                   waiting, at, film, stopper, trouble>>

\* The transcription succeeded: published, then translated.
PollSucceeded ==
    /\ Polling /\ Owned /\ asr = "exited"
    /\ \/ /\ Publishes(ja, subsJob) = "ok"
          /\ ja' = Published(ja, subsJob)
          /\ \/ /\ Recheck(subsJob, "listed") = "go on" /\ Submit(subsJob)
                /\ UNCHANGED <<book, error, trouble>>
             \/ /\ Trouble /\ error' = TRUE /\ Keep(Unreachable(Book)) /\ UNCHANGED trVars
       \/ /\ Publishes(ja, subsJob) = "ok" /\ Recheck(subsJob, "listed") = "exists"
          /\ ja' = DiscardOwn(subsJob)
          /\ Keep(Settled(Book, subsJob, "skipped", subsJob))
          /\ UNCHANGED <<trVars, error, trouble>>
       \/ /\ Publishes(ja, subsJob) = "exists"
          /\ Keep(Settled(Book, subsJob, "skipped", subsJob))
          /\ UNCHANGED <<ja, trVars, error, trouble>>
    /\ Reaped /\ JobOver
    /\ UNCHANGED <<zh, tries, stopping, aborted, emitted, hadWork, queue, current, proc, carried,
                   queued, waiting, at, film, stopper>>

\* No speech: both files are empty and the transcript goes again.
PollNoSpeech ==
    /\ Polling /\ Owned /\ asr = "exited"
    /\ LET how == IF ja[subsJob] = "none" /\ zh[subsJob] = "none" THEN "completed" ELSE "skipped"
       IN /\ zh' = IF ja[subsJob] = "none" THEN Published(zh, subsJob) ELSE zh
          /\ Keep(Settled(Book, subsJob, how, subsJob))
    /\ Reaped /\ JobOver
    /\ UNCHANGED <<ja, tries, trVars, flags, queue, current, proc, carried, queued, waiting, at,
                   film, stopper, trouble>>

\* The attempt failed and is made again, _poll_subs_locked.
PollRetry ==
    /\ Polling /\ Owned /\ asr = "exited" /\ tries[subsJob] < AsrTries /\ Trouble
    /\ AsrStarts(subsJob)
    /\ film' = subsJob /\ Goto("spawned")
    /\ UNCHANGED <<disk, trVars, book, flags, queue, current, proc, gpu, advance, subsJob, at,
                   stopper>>

\* The attempt failed for good, could not be made again, or the media changed.
PollFailed ==
    /\ Polling /\ Owned /\ asr = "exited" /\ Trouble
    /\ \E how \in {"failed", "skipped"} : Keep(Settled(Book, subsJob, how, subsJob))
    /\ Reaped /\ JobOver
    /\ UNCHANGED <<disk, tries, trVars, flags, queue, current, proc, carried, queued, waiting, at,
                   film, stopper>>

-----------------------------------------------------------------------------
(* Results, retries and the end of a check.                                *)

Check ==
    /\ at = "rest" /\ pc = "phase" /\ stopper # "over"
    /\ at' = "results"
    /\ UNCHANGED <<disk, asrVars, trVars, book, flags, queue, current, proc, gpu, advance,
                   subsJob, pc, film, stopper, trouble>>

\* _settle_results: nothing left, or a stop.
ResultsEnd ==
    /\ at = "results" /\ pc = "phase" /\ (answers = {} \/ stopping \/ translator = "none")
    /\ at' = "advance" /\ Goto("dispatch")
    /\ UNCHANGED <<disk, asrVars, trVars, book, flags, queue, current, proc, gpu, advance,
                   subsJob, film, stopper, trouble>>

\* _settle_completed: the transcript has served.
Completed(f) == [ja EXCEPT ![f] = "none"]

\* _settle_results: one result, settled under the lock.
Result ==
    /\ at = "results" /\ pc = "phase" /\ ~stopping /\ translator # "none"
    /\ \E r \in answers :
         LET f == r[1] IN
         /\ answers' = answers \ {r}
         /\ IF settled[f] # "open"
            THEN UNCHANGED <<disk, book, error, trouble>>
            ELSE \/ /\ r[2] = "translated" /\ Publishes(zh, f) = "ok"
                    /\ zh' = Published(zh, f) /\ ja' = Completed(f)
                    /\ Keep(Settled(Book, f, "completed", subsJob))
                    /\ UNCHANGED <<error, trouble>>
                 \/ /\ r[2] = "translated" /\ Publishes(zh, f) = "exists"
                    /\ ja' = DiscardOwn(f)
                    /\ Keep(Settled(Book, f, "skipped", subsJob))
                    /\ UNCHANGED <<zh, error, trouble>>
                 \/ /\ r[2] = "translated" /\ Trouble /\ error' = TRUE
                    /\ Keep(Unreachable(Book)) /\ UNCHANGED disk
                 \/ /\ r[2] # "translated"
                    /\ Keep(Settled(Book, f, IF r[2] = "failed" THEN "failed" ELSE "skipped",
                                    subsJob))
                    /\ UNCHANGED <<disk, error, trouble>>
    /\ Goto("deferred")
    /\ UNCHANGED <<asrVars, translator, asked, stopping, aborted, emitted, hadWork, queue,
                   current, proc, gpu, advance, subsJob, at, film, stopper>>

\* The restoration child still runs, or there is none.
ExitIdle ==
    /\ at = "exit" /\ pc = "phase" /\ proc \in {"none", "live"}
    /\ at' = After("exit")
    /\ UNCHANGED <<disk, asrVars, trVars, book, flags, queue, current, proc, gpu, advance,
                   subsJob, pc, film, stopper, trouble>>

\* _retry_gpu_wait.
RetryWait ==
    /\ at = "retry" /\ pc = "phase"
    /\ IF waiting /\ ~GpuChildLive /\ ~stopping /\ ~aborted /\ ~error
       THEN waiting' = FALSE /\ advance' = TRUE /\ Goto("dispatch") /\ UNCHANGED at
       ELSE at' = "done" /\ UNCHANGED <<waiting, advance, pc>>
    /\ UNCHANGED <<disk, asrVars, trVars, book, flags, queue, current, proc, holder, carried,
                   lease, queued, subsJob, film, stopper, trouble>>

\* _retry_gpu_wait, its end: a wait that nothing needs is withdrawn.
RetryEnds ==
    /\ at = "retried" /\ pc = "phase"
    /\ queued' = (queued /\ (waiting \/ GpuChildLive))
    /\ at' = "done"
    /\ UNCHANGED <<disk, asrVars, trVars, book, flags, queue, current, proc, holder, carried,
                   lease, waiting, advance, subsJob, pc, film, stopper, trouble>>

\* The end of a check.
CheckEnds ==
    /\ at = "done" /\ pc = "phase"
    /\ MaybeDone
    /\ at' = "rest"
    /\ UNCHANGED <<disk, asrVars, asked, answers, book, stopping, error, aborted, hadWork, queue,
                   current, proc, holder, carried, lease, waiting, advance, subsJob, pc, film,
                   stopper, trouble>>

\* The supervisor's loop ends once the stop has returned.
Leave ==
    /\ at = "rest" /\ pc = "phase" /\ stopper = "over"
    /\ at' = "off"
    /\ UNCHANGED <<disk, asrVars, trVars, book, flags, queue, current, proc, gpu, advance,
                   subsJob, pc, film, stopper, trouble>>

-----------------------------------------------------------------------------
(* stop, from another thread.                                              *)

StopFlag ==
    /\ at # "off" /\ stopper = "none"
    /\ stopping' = TRUE /\ stopper' = "flagged"
    /\ UNCHANGED <<disk, asrVars, trVars, book, error, aborted, emitted, hadWork, queue, current,
                   proc, gpu, advance, subsJob, at, pc, film, trouble>>

StopCancel ==
    /\ stopper = "flagged"
    /\ Cancels /\ stopper' = "cancelled"
    /\ UNCHANGED <<disk, asrVars, book, flags, queue, current, proc, gpu, advance, subsJob, at,
                   pc, film, trouble>>

StopLocked ==
    /\ stopper = "cancelled" /\ ~Locked
    /\ \E s \in {"none", "lost", "stuck"} :
         Leaves(s) /\ StopBody(s)
    /\ stopper' = "over"
    /\ UNCHANGED <<zh, tries, trVars, book, flags, run, kind, failed, pending, current, carried,
                   advance, at, pc, film>>

\* The lock could not be taken in time: the recorded children end without it.
StopUnlocked ==
    /\ stopper = "cancelled" /\ Locked
    /\ proc' = IF proc = "live" THEN "bad" ELSE proc
    /\ IF AsrLive THEN child' = None /\ asr' = "none" ELSE UNCHANGED <<child, asr>>
    /\ holder' = "none" /\ lease' = (IF holder # "none" THEN Freed ELSE lease)
    /\ queued' = FALSE /\ waiting' = FALSE
    /\ stopper' = "over"
    /\ UNCHANGED <<disk, tries, trVars, book, flags, queue, current, carried, advance, subsJob,
                   at, pc, film, trouble>>

-----------------------------------------------------------------------------
(* The children, the translator, the other task on the GPU, and people.    *)

RestoreExits ==
    /\ proc = "live"
    /\ \/ proc' = "ok" /\ UNCHANGED trouble
       \/ proc' = "bad" /\ Trouble
    /\ UNCHANGED <<disk, asrVars, trVars, book, flags, queue, current, gpu, advance, subsJob, at,
                   pc, film, stopper>>

AsrExits ==
    /\ asr \in {"live", "stuck"} /\ pc # "spawned"
    /\ asr' = "exited"
    /\ UNCHANGED <<disk, tries, child, trVars, book, flags, queue, current, proc, gpu, advance,
                   subsJob, at, pc, film, stopper, trouble>>

Translates ==
    /\ \E f \in asked : Answer(f)
    /\ UNCHANGED <<disk, asrVars, book, flags, queue, current, proc, gpu, advance, subsJob, at,
                   pc, film, stopper, trouble>>

\* Another task: never while the lease is kept for this run.
OtherTakes ==
    /\ lease = "free" /\ ~queued
    /\ lease' = "other"
    /\ UNCHANGED <<disk, asrVars, trVars, book, flags, queue, current, proc, holder, carried,
                   queued, waiting, advance, subsJob, at, pc, film, stopper, trouble>>

OtherEnds ==
    /\ lease = "other"
    /\ lease' = "free"
    /\ UNCHANGED <<disk, asrVars, trVars, book, flags, queue, current, proc, holder, carried,
                   queued, waiting, advance, subsJob, at, pc, film, stopper, trouble>>

\* Somebody puts a subtitle or a transcript next to a video.
Appears ==
    /\ Trouble
    /\ \E f \in Films :
         \/ zh[f] = "none" /\ zh' = [zh EXCEPT ![f] = "theirs"] /\ UNCHANGED ja
         \/ ja[f] = "none" /\ ja' = [ja EXCEPT ![f] = "theirs"] /\ UNCHANGED zh
    /\ UNCHANGED <<asrVars, trVars, book, flags, queue, current, proc, gpu, advance, subsJob, at,
                   pc, film, stopper>>

-----------------------------------------------------------------------------
Worker ==
    \/ Start \/ Check \/ Leave
    \/ RunCleanup \/ RunStop \/ DeferredDone \/ DispatchEnds \/ Advance
    \/ Carry \/ NothingCarried \/ Take \/ Refused \/ RecordHold
    \/ Launch \/ LaunchGivenUp \/ Launched \/ LaunchFails
    \/ ExitStopping \/ ExitSuccess \/ ExitRetry \/ ExitFailure \/ ExitIdle
    \/ SubsTranslate \/ SubsTranscribe \/ SubsGivenUp
    \/ StartAsr \/ StartAsrFails \/ FencedLive \/ Spawned
    \/ PollIdle \/ ReapSurvivor \/ PollSucceeded \/ PollNoSpeech \/ PollRetry \/ PollFailed
    \/ ResultsEnd \/ Result \/ RetryWait \/ RetryEnds \/ CheckEnds

Stopper == StopCancel \/ StopLocked \/ StopUnlocked

Next ==
    \/ Worker \/ StopFlag \/ Stopper
    \/ RestoreExits \/ AsrExits \/ Translates \/ OtherTakes \/ OtherEnds \/ Appears

Spec == Init /\ [][Next]_vars

\* Both threads run, the children end, the translator answers, the other task
\* gives the GPU back.
FairSpec ==
    /\ Spec
    /\ WF_vars(Worker) /\ WF_vars(Stopper)
    /\ WF_vars(RestoreExits \/ AsrExits) /\ WF_vars(Translates) /\ WF_vars(OtherEnds)

-----------------------------------------------------------------------------
\* A child that this run started and knows of has the GPU for itself: while it
\* runs the lease is this run's (file-scoped holds, _gpu_transfer).
LeaseCoversChild ==
    /\ proc = "live" => lease = "us"
    /\ (asr = "live" /\ subsJob = child /\ child # None) => lease = "us"
    /\ (pc \in {"popen", "spawned"} /\ ~stopping) => lease = "us"

\* Between two checks the run holds the GPU only for a child, and stands in
\* line only when it will come again; after a stop it does neither.
NothingLeaks ==
    at \in {"rest", "off"} /\ pc = "phase" =>
        /\ lease = "us" => GpuChildLive
        /\ queued => (waiting \/ GpuChildLive) /\ ~aborted /\ ~error
        /\ stopper = "over" => lease # "us" /\ ~queued

\* Completion is reported once everything the start had planned has come to an
\* end: every film restored or given up, every subtitle job settled, no child.
DoneMeansAll ==
    [][~emitted /\ emitted' =>
         /\ Films \subseteq video \cup failed
         /\ Unsettled = {} /\ proc = "none" /\ child = None /\ lease # "us"]_vars

\* A transcript goes only when the Chinese subtitle of its film is there, and
\* one this run did not make only for a subtitle this run made.
TranscriptKept ==
    [][\A f \in Films :
         ja[f] # "none" /\ ja'[f] = "none" =>
            zh'[f] # "none" /\ (ja[f] = "theirs" => zh'[f] = "ours")]_vars

\* The run is over, one way or the other.
Ended == emitted \/ aborted \/ error \/ stopping

\* A start with work comes to an end: completion, an abort, an error or a stop.
Finishes == (at = "start" /\ hadWork) ~> Ended

\* After a stop, or an abort, the GPU is free of this run.
StopReleases == (stopper = "flagged") ~> (stopper = "over" /\ lease # "us" /\ ~queued)

\* The GPU is held for exactly the children of this run, and waited for only
\* by a run that will use it.
GpuHonest == LeaseCoversChild /\ NothingLeaks

\* Completion is true, and the run's own clean-up spares what is needed.
DoneAndKept == DoneMeansAll /\ TranscriptKept

\* A run ends, and a stop ends it for the others too.
RunEnds == Finishes /\ StopReleases
=============================================================================
