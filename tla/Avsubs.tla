------------------------------- MODULE Avsubs -------------------------------
(***************************************************************************)
(* A subtitle task over a library: films without a transcript take the     *)
(* process-wide GPU one by one for a transcription child, films with one   *)
(* go to the translator at once, the thread that polls both settles each   *)
(* film, and a stop comes from another thread at any moment.  Of           *)
(* SubtitleJobs, `only` is the queue and `disabled` the abort.             *)
(***************************************************************************)
EXTENDS SubtitleJobs

CONSTANTS
    Transcribed0,   \* films whose transcript may exist at the first start
    MaxRun,         \* bound: starts
    MaxTrouble      \* bound: failures of children, disks, folders and keys

VARIABLES
    run,            \* the generation of _run
    texts,          \* what _start_translate_only has still to hand over
    asrJob,         \* _asr_job
    survivor,       \* whether it is one of _survivor_jobs
    stopping, error, emitted, hadWork, advance, waiting,
    held,           \* _gpu_held_run
    lease, queued,  \* the GPU lease, and whether this run is one of its waiters
    at, pc, film,   \* the step of check, where in it, and the film of _start_asr
    stopper,        \* the thread in stop()
    trouble

flags == <<stopping, error, emitted, hadWork>>
job == <<asrJob, survivor>>
gpu == <<held, lease, queued, waiting>>
place == <<at, pc, film>>
vars == <<disk, asrVars, trVars, book, run, texts, job, flags, advance, gpu, place, stopper,
          trouble>>

Init ==
    /\ \E T \in SUBSET Transcribed0 :
         ja = [f \in Films |-> IF f \in T THEN "theirs" ELSE "none"]
    /\ zh = [f \in Films |-> "none"]
    /\ tries = [f \in Films |-> 0] /\ child = None /\ asr = "none"
    /\ translator = "none" /\ asked = {} /\ answers = {}
    /\ settled = [f \in Films |-> "none"] /\ strikes = 0 /\ disabled = FALSE
    /\ only = <<>> /\ cleanup = <<>>
    /\ run = 0 /\ texts = <<>> /\ asrJob = None /\ survivor = FALSE
    /\ stopping = FALSE /\ error = FALSE /\ emitted = FALSE /\ hadWork = FALSE
    /\ advance = FALSE /\ waiting = FALSE /\ held = FALSE /\ lease = "free" /\ queued = FALSE
    /\ at = "off" /\ pc = "phase" /\ film = None /\ stopper = "none" /\ trouble = 0

Trouble == trouble < MaxTrouble /\ trouble' = trouble + 1
Goto(l) == pc' = l
InOrder(S) ==
    CHOOSE s \in [1 .. Cardinality(S) -> S] : \A i, j \in DOMAIN s : i < j => s[i] < s[j]

\* What holds _launch_lock for long: the creation of a child.
Locked == pc = "spawned"

\* How a child has ended.
Exited == {"ok", "empty", "bad"}

\* _asr_live.
AsrLive == asrJob # None /\ child = asrJob

\* _gpu_rel.
Release == held' = FALSE /\ lease' = IF held THEN "free" ELSE lease

-----------------------------------------------------------------------------
(* Settlement.                                                             *)

\* _abort: every open job is skipped, the children end after the lock.
Aborted(b) ==
    [b EXCEPT !.disabled = TRUE, !.only = <<>>,
        !.settled = [f \in Films |-> IF b.settled[f] = "open" THEN "skipped" ELSE b.settled[f]],
        !.cleanup = Append(@, [kind |-> "cleanup", job |-> asrJob])]

\* _settle; counts: whether a failure belongs to the streak.
Settle(b, f, how, counts) ==
    IF b.settled[f] # "open" THEN b
    ELSE LET n == CASE how = "completed" -> 0
                    [] how = "failed" /\ counts -> b.strikes + 1
                    [] OTHER -> b.strikes
             c == [b EXCEPT !.settled[f] = how, !.strikes = n]
         IN IF n >= DisableAfter /\ ~b.disabled THEN Aborted(c) ELSE c

\* _settle of a film nobody can translate, _alert_no_key: the streak is over.
WithoutKey(b, f) == [Settle(b, f, "skipped", TRUE) EXCEPT !.strikes = 0]

\* _stop_unreachable: the library is gone, nothing is settled.
LibraryGone == Trouble /\ error' = TRUE /\ Keep(Unreachable(Book))

\* _settle_completed: the transcript has served, whoever made it.
Completed(f) == [ja EXCEPT ![f] = "none"]

\* _skip_existing: a subtitle is there, and this run's transcript has no use.
SkipExisting(f) ==
    /\ Keep(Settle(Book, f, "skipped", TRUE))
    /\ ja' = DiscardOwn(f)

\* An empty transcript needs no request: the empty subtitle is published.
HandEmpty(f) ==
    /\ IF Publishes(zh, f) = "ok"
       THEN /\ zh' = Published(zh, f) /\ ja' = Completed(f)
            /\ Keep(Settle(Book, f, "completed", TRUE))
       ELSE SkipExisting(f) /\ UNCHANGED zh
    /\ UNCHANGED trouble

\* _submit_translation of a transcript with lines.
Hand(f) ==
    \/ Submit(f) /\ UNCHANGED <<book, disk, trouble>>
    \/ Trouble /\ Keep(WithoutKey(Book, f)) /\ UNCHANGED <<disk, trVars>>

-----------------------------------------------------------------------------
(* A start.                                                                *)

\* plan_tree: a film with a subtitle has no job.
Jobs == {f \in Films : zh[f] = "none"}

\* _reset, after the stop of what an earlier run left (start).
Reset ==
    /\ run' = run + 1
    /\ tries' = [f \in Films |-> 0] /\ child' = None /\ asr' = "none"
    /\ asked' = {} /\ answers' = {} /\ strikes' = 0 /\ disabled' = FALSE /\ cleanup' = <<>>
    /\ asrJob' = None /\ survivor' = FALSE
    /\ stopping' = FALSE /\ emitted' = FALSE /\ waiting' = FALSE
    /\ Release /\ queued' = FALSE
    /\ film' = None /\ stopper' = "none"
    /\ ja' = [f \in Films |-> IF ja[f] = "ours" THEN "theirs" ELSE ja[f]]
    /\ zh' = [f \in Films |-> IF zh[f] = "ours" THEN "theirs" ELSE zh[f]]

MayStart == at = "off" /\ run < MaxRun /\ stopper \in {"none", "over"}

\* start.
Start ==
    /\ MayStart /\ Reset
    /\ settled' = [f \in Films |-> IF f \in Jobs THEN "open" ELSE "none"]
    /\ LET full == {f \in Jobs : ja[f] = "none"}
       IN only' = InOrder(full) /\ texts' = InOrder(Jobs \ full)
    /\ hadWork' = (Jobs # {}) /\ error' = FALSE /\ advance' = FALSE
    /\ translator' = IF Jobs # {} THEN "running" ELSE "none"
    /\ IF Jobs # {} THEN at' = "start" /\ Goto("texts") ELSE at' = "rest" /\ Goto("phase")
    /\ UNCHANGED trouble

\* start gives up: no library, no program (every job is skipped), no translator.
StartFails ==
    /\ MayStart /\ Reset /\ Trouble
    /\ \E s \in {"open", "skipped"} :
         settled' = [f \in Films |-> IF f \in Jobs THEN s ELSE "none"]
    /\ only' = <<>> /\ texts' = <<>> /\ hadWork' = FALSE /\ error' = TRUE /\ advance' = FALSE
    /\ translator' = "none" /\ at' = "rest" /\ Goto("phase")

\* _start_translate_only: one existing transcript.
HandText ==
    /\ pc = "texts" /\ texts # <<>> /\ ~stopping /\ ~disabled
    /\ texts' = Tail(texts)
    /\ LET f == Head(texts) IN
         \/ Hand(f)
         \/ HandEmpty(f) /\ UNCHANGED trVars
         \/ Trouble /\ Keep(Settle(Book, f, "failed", FALSE)) /\ UNCHANGED <<disk, trVars>>
    /\ UNCHANGED <<asrVars, run, job, flags, advance, gpu, place, stopper>>

\* _start_translate_only is done, or a stop or an abort has come.
TextsDone ==
    /\ pc = "texts" /\ (texts = <<>> \/ stopping \/ disabled)
    /\ texts' = <<>> /\ advance' = TRUE
    /\ Goto("deferred")
    /\ UNCHANGED <<disk, asrVars, trVars, book, run, job, flags, gpu, at, film, stopper, trouble>>

-----------------------------------------------------------------------------
(* Deferred work and the dispatch loop.                                    *)

\* _stop_asr: a live child is killed, one that has exited keeps its transcript.
\* s is what is left of it.
StopAsr(s) ==
    IF ~AsrLive
    THEN asrJob' = None /\ UNCHANGED <<child, asr, survivor, ja>>
    ELSE /\ ja' = IF asr \in {"ok", "empty"} /\ settled[child] = "open" /\ ~survivor
                  THEN Published(ja, child) ELSE ja
         /\ child' = IF s = "stuck" THEN child ELSE None
         /\ asr' = s
         /\ asrJob' = IF s = "stuck" THEN asrJob ELSE None
         /\ survivor' = (s = "stuck")

\* A kill takes a child, or the child survives it.
Leaves(s) ==
    /\ s \in {"none", "stuck"}
    /\ s = "stuck" => asr \in {"live", "stuck"}
    /\ IF s = "stuck" /\ asr = "live" THEN Trouble ELSE UNCHANGED trouble

\* The rest of stop: the hold and the wait are over.
LetGo == Release /\ queued' = FALSE /\ waiting' = FALSE

\* The cleanup of _abort.
RunCleanup ==
    /\ pc = "deferred" /\ cleanup # <<>> /\ Head(cleanup).kind = "cleanup"
    /\ cleanup' = Tail(cleanup)
    /\ Cancels
    /\ LET j == Head(cleanup).job
       IN IF j # None /\ child = j
          THEN \E s \in {"none", "stuck"} :
                 /\ Leaves(s) /\ Killed(s)
                 /\ survivor' = (s = "stuck")
                 /\ asrJob' = IF s = "none" /\ asrJob = j THEN None ELSE asrJob
          ELSE /\ asrJob' = IF asrJob = j THEN None ELSE asrJob
               /\ UNCHANGED <<asrVars, survivor, trouble>>
    /\ LetGo
    /\ UNCHANGED <<disk, settled, strikes, disabled, only, run, texts, flags, advance, place,
                   stopper>>

\* The stop of _stop_unreachable.
RunStop ==
    /\ pc = "deferred" /\ cleanup # <<>> /\ Head(cleanup).kind = "stop"
    /\ cleanup' = Tail(cleanup)
    /\ stopping' = TRUE
    /\ Cancels
    /\ \E s \in {"none", "stuck"} : Leaves(s) /\ StopAsr(s)
    /\ LetGo
    /\ UNCHANGED <<zh, tries, settled, strikes, disabled, only, run, texts, error, emitted,
                   hadWork, advance, place, stopper>>

DeferredDone ==
    /\ pc = "deferred" /\ cleanup = <<>>
    /\ Goto("dispatch")
    /\ UNCHANGED <<disk, asrVars, trVars, book, run, texts, job, flags, advance, gpu, at, film,
                   stopper, trouble>>

\* check: what follows each of its parts.
After(phase) ==
    CASE phase = "results" -> "results"
      [] phase = "poll" -> IF disabled \/ error THEN "rest" ELSE "retry"
      [] phase = "retry" -> "retried"
      [] OTHER -> "rest"

DispatchEnds ==
    /\ pc = "dispatch" /\ ~advance
    /\ Goto("phase") /\ at' = After(at)
    /\ UNCHANGED <<disk, asrVars, trVars, book, run, texts, job, flags, advance, gpu, film,
                   stopper, trouble>>

\* _maybe_done, its conditions.
AllDone ==
    /\ hadWork /\ ~emitted /\ ~stopping /\ ~disabled /\ ~error
    /\ only = <<>> /\ asrJob = None /\ Unsettled = {}
    /\ asked = {} /\ answers = {}

\* _maybe_done.
MaybeDone ==
    IF AllDone
    THEN emitted' = TRUE /\ queued' = FALSE /\ translator' = "none"
    ELSE UNCHANGED <<emitted, queued, translator>>

\* _advance.
Advance ==
    /\ pc = "dispatch" /\ advance
    /\ advance' = FALSE
    /\ IF stopping \/ disabled \/ error \/ AsrLive
       THEN UNCHANGED <<pc, emitted, queued, translator>>
       ELSE IF only = <<>> THEN MaybeDone /\ UNCHANGED pc
       ELSE Goto("take") /\ UNCHANGED <<emitted, queued, translator>>
    /\ UNCHANGED <<disk, asrVars, asked, answers, book, run, texts, job, stopping, error, hadWork,
                   held, lease, waiting, at, film, stopper, trouble>>

\* _gpu_try: granted by the lease.
Take ==
    /\ pc = "take" /\ lease # "other"
    /\ lease' = "us" /\ queued' = FALSE
    /\ Goto("record")
    /\ UNCHANGED <<disk, asrVars, trVars, book, run, texts, job, flags, advance, held, waiting,
                   at, film, stopper, trouble>>

\* _gpu_try: the hold is recorded, and the head of the queue is next.
RecordHold ==
    /\ pc = "record"
    /\ held' = TRUE /\ waiting' = FALSE
    /\ IF only = <<>> THEN Goto("give") /\ UNCHANGED <<film, only>>
       ELSE Goto("held") /\ film' = Head(only) /\ only' = Tail(only)
    /\ UNCHANGED <<disk, asrVars, trVars, settled, strikes, disabled, cleanup, run, texts, job,
                   flags, advance, lease, queued, at, stopper, trouble>>

\* _gpu_try: refused, and a wait is registered unless a stop has come.
Refused ==
    /\ pc = "take" /\ lease = "other"
    /\ queued' = ~stopping /\ waiting' = TRUE
    /\ Goto("dispatch")
    /\ UNCHANGED <<disk, asrVars, trVars, book, run, texts, job, flags, advance, held, lease, at,
                   film, stopper, trouble>>

-----------------------------------------------------------------------------
(* _start_asr and _poll_asr.                                               *)

Holding == pc = "held" /\ ~stopping /\ ~disabled

\* Under the lock with the GPU: nothing starts.
GivenUp ==
    /\ pc = "held"
    /\ \/ /\ stopping \/ disabled
          /\ UNCHANGED <<book, error, ja, advance, trouble>>
       \/ Holding /\ LibraryGone /\ UNCHANGED <<ja, advance>>
       \/ /\ Holding /\ zh[film] # "none"
          /\ SkipExisting(film) /\ advance' = TRUE /\ UNCHANGED <<error, trouble>>
       \/ /\ Holding /\ Trouble  \* an unreadable folder, or one that raises
          /\ \E how \in {"skipped", "failed"} : Keep(Settle(Book, film, how, TRUE))
          /\ advance' = TRUE /\ UNCHANGED <<error, ja>>
    /\ Goto("give")
    /\ UNCHANGED <<zh, asrVars, trVars, run, texts, job, stopping, emitted, hadWork, gpu, at,
                   film, stopper>>

\* start_asr.
StartAsr ==
    /\ Holding /\ zh[film] = "none"
    /\ AsrStarts(film)
    /\ Goto("spawned")
    /\ UNCHANGED <<disk, trVars, book, run, texts, job, flags, advance, gpu, at, film, stopper,
                   trouble>>

\* start_asr fails twice, or the media has changed.
StartAsrFails ==
    /\ Holding /\ Trouble
    /\ \E how \in {"failed", "skipped"} :
         AsrFails(film, how = "skipped") /\ Keep(Settle(Book, film, how, TRUE))
    /\ advance' = TRUE /\ Goto("give")
    /\ UNCHANGED <<disk, trVars, run, texts, job, flags, gpu, at, film, stopper>>

\* _kill_for_stop: a child that survives stays the live one.
KillForStop ==
    \E s \in {"none", "stuck"} :
        /\ Leaves(s) /\ Killed(s)
        /\ asrJob' = IF s = "stuck" THEN film ELSE None
        /\ survivor' = (s = "stuck")

\* Mutation of Spawned: the flag is not read again after the child was made.
SpawnedAnyway ==
    /\ pc = "spawned"
    /\ asrJob' = film /\ survivor' = FALSE
    /\ Goto("give")
    /\ UNCHANGED <<disk, asrVars, trVars, book, run, texts, flags, advance, gpu, at, film,
                   stopper, trouble>>

\* The child of start_asr is recorded, unless a stop came meanwhile.
Spawned ==
    /\ pc = "spawned"
    /\ IF stopping THEN KillForStop
       ELSE asrJob' = film /\ survivor' = FALSE /\ UNCHANGED <<asrVars, trouble>>
    /\ Goto("give")
    /\ UNCHANGED <<disk, trVars, book, run, texts, flags, advance, gpu, at, film, stopper>>

\* _start_asr, its fence: something raised beside the new child, which is killed.
Fenced ==
    /\ pc = "spawned" /\ at # "poll" /\ trouble < MaxTrouble
    /\ KillForStop
    /\ Keep(Settle(Book, film, "failed", TRUE))
    /\ advance' = TRUE /\ Goto("give")
    /\ UNCHANGED <<disk, trVars, run, texts, flags, gpu, at, film, stopper>>

\* After the lock: the hold goes when no child is left (_start_asr, _poll_asr).
GiveBack ==
    /\ pc = "give"
    /\ IF child = None THEN Release ELSE UNCHANGED <<held, lease>>
    /\ Goto("deferred")
    /\ UNCHANGED <<disk, asrVars, trVars, book, run, texts, job, flags, advance, queued, waiting,
                   at, film, stopper, trouble>>

Polling == at = "poll" /\ pc = "phase" /\ asrJob # None
Owned == Polling /\ ~stopping /\ settled[asrJob] = "open"

\* poll_asr of a child that has exited: it is reaped.
Reaped == child' = None /\ asr' = "none"

\* Mutation of JobOver: nobody asks for the next film.
JobOverQuiet == asrJob' = None /\ survivor' = FALSE /\ UNCHANGED advance /\ Goto("give")

\* The job has ended: the GPU is to be given, the next film is due.
JobOver == asrJob' = None /\ survivor' = FALSE /\ advance' = TRUE /\ Goto("give")

\* _poll_asr: nothing to do, or the job is the stop's.
PollIdle ==
    /\ at = "poll" /\ pc = "phase"
    /\ \/ asrJob = None
       \/ asr \notin Exited
       \/ stopping /\ ~survivor
    /\ Goto("dispatch")
    /\ UNCHANGED <<disk, asrVars, trVars, book, run, texts, job, flags, advance, gpu, at, film,
                   stopper, trouble>>

\* Mutation of PollStopping: any child that has exited is reaped.
PollStoppingAll ==
    /\ Polling /\ stopping /\ asr \in Exited
    /\ Reaped /\ asrJob' = None /\ survivor' = FALSE
    /\ Goto("dispatch")
    /\ UNCHANGED <<disk, tries, trVars, book, run, texts, flags, advance, gpu, at, film, stopper,
                   trouble>>

\* _poll_asr_locked while stopping: only what outlived its kill is reaped.
PollStopping ==
    /\ Polling /\ stopping /\ survivor /\ asr \in Exited
    /\ Reaped /\ asrJob' = None /\ survivor' = FALSE
    /\ Goto("dispatch")
    /\ UNCHANGED <<disk, tries, trVars, book, run, texts, flags, advance, gpu, at, film, stopper,
                   trouble>>

\* _reap_settled.
ReapSettled ==
    /\ Polling /\ ~stopping /\ settled[asrJob] # "open" /\ asr \in Exited
    /\ Reaped /\ JobOver
    /\ UNCHANGED <<disk, tries, trVars, book, run, texts, flags, gpu, at, film, stopper, trouble>>

\* The transcription succeeded: published, looked at once more, handed over.
PollSucceeded ==
    /\ Owned /\ asr = "ok"
    /\ IF Publishes(ja, asrJob) = "exists"
       THEN /\ Keep(Settle(Book, asrJob, "skipped", TRUE))
            /\ UNCHANGED <<disk, trVars, error, trouble>>
       ELSE \/ /\ zh[asrJob] = "none" /\ UNCHANGED <<zh, error>>
               /\ \/ Submit(asrJob) /\ UNCHANGED <<book, trouble>>
                  \/ Trouble /\ Keep(WithoutKey(Book, asrJob)) /\ UNCHANGED trVars
               /\ ja' = Published(ja, asrJob)
            \/ /\ zh[asrJob] # "none" /\ Keep(Settle(Book, asrJob, "skipped", TRUE))
               /\ UNCHANGED <<disk, trVars, error, trouble>>  \* ours, and gone again
            \/ /\ LibraryGone /\ ja' = Published(ja, asrJob) /\ UNCHANGED <<zh, trVars>>
    /\ Reaped /\ JobOver
    /\ UNCHANGED <<tries, run, texts, stopping, emitted, hadWork, gpu, at, film, stopper>>

\* publish_empty: no speech.
PollNoSpeech ==
    /\ Owned /\ asr = "empty"
    /\ LET none == ja[asrJob] = "none" /\ zh[asrJob] = "none"
       IN /\ zh' = IF none THEN Published(zh, asrJob) ELSE zh
          /\ Keep(Settle(Book, asrJob, IF none THEN "completed" ELSE "skipped", TRUE))
    /\ Reaped /\ JobOver
    /\ UNCHANGED <<ja, tries, trVars, run, texts, flags, gpu, at, film, stopper, trouble>>

\* The attempt failed and is made again with the same hold.
PollRetry ==
    /\ Owned /\ asr = "bad" /\ tries[asrJob] < AsrTries
    /\ AsrStarts(asrJob)
    /\ film' = asrJob /\ Goto("spawned")
    /\ UNCHANGED <<disk, trVars, book, run, texts, job, flags, advance, gpu, at, stopper, trouble>>

\* It failed for good, the media has changed, or the poll raised (_fence_poll).
PollFailed ==
    /\ Owned /\ asr \in Exited
    /\ \/ asr = "bad" /\ tries[asrJob] >= AsrTries /\ UNCHANGED trouble
       \/ Trouble
    /\ \E how \in {"failed", "skipped"} : Keep(Settle(Book, asrJob, how, TRUE))
    /\ Reaped /\ JobOver
    /\ UNCHANGED <<disk, tries, trVars, run, texts, flags, gpu, at, film, stopper>>

\* _fence_poll beside a child that still runs: it keeps the GPU.
FencedLive ==
    /\ Owned /\ asr = "live" /\ Trouble
    /\ Keep(Settle(Book, asrJob, "failed", TRUE))
    /\ advance' = TRUE /\ Goto("deferred")
    /\ UNCHANGED <<disk, asrVars, trVars, run, texts, job, flags, gpu, at, film, stopper>>

-----------------------------------------------------------------------------
(* check, and its results.                                                 *)

Check ==
    /\ at = "rest" /\ pc = "phase" /\ stopper # "over"
    /\ at' = "results"
    /\ UNCHANGED <<disk, asrVars, trVars, book, run, texts, job, flags, advance, gpu, pc, film,
                   stopper, trouble>>

\* Nothing left, or a stop; an error ends the check here.
ResultsEnd ==
    /\ at = "results" /\ pc = "phase" /\ (answers = {} \/ stopping \/ translator = "none")
    /\ at' = IF error THEN "rest" ELSE "poll"
    /\ UNCHANGED <<disk, asrVars, trVars, book, run, texts, job, flags, advance, gpu, pc, film,
                   stopper, trouble>>

\* One translated film: published, refused, failed, or the library is gone.
Publish(f) ==
    \/ HandEmpty(f) /\ UNCHANGED error
    \/ LibraryGone /\ UNCHANGED disk
    \/ /\ Trouble /\ Keep(Settle(Book, f, "failed", TRUE))
       /\ UNCHANGED <<disk, error>>

\* What cannot be translated: failed, paused, or without a key.
NotTranslated(f, o) ==
    /\ \/ o = "failed" /\ Keep(Settle(Book, f, "failed", TRUE)) /\ UNCHANGED trouble
       \/ o = "paused" /\ Keep(Settle(Book, f, "skipped", TRUE)) /\ UNCHANGED trouble
       \/ o = "paused" /\ Trouble /\ Keep(WithoutKey(Book, f))
    /\ UNCHANGED <<disk, error>>

\* _settle_results: one result under the lock, its film open or not.
Result ==
    /\ at = "results" /\ pc = "phase" /\ ~stopping /\ translator # "none"
    /\ \E r \in answers :
         /\ answers' = answers \ {r}
         /\ CASE settled[r[1]] # "open" -> UNCHANGED <<disk, book, error, trouble>>
              [] r[2] = "translated" -> Publish(r[1])
              [] OTHER -> NotTranslated(r[1], r[2])
    /\ Goto("deferred")
    /\ waiting' = (waiting /\ ~disabled')
    /\ UNCHANGED <<asrVars, translator, asked, run, texts, job, stopping, emitted, hadWork,
                   advance, held, lease, queued, at, film, stopper>>

\* check: a refused wait is tried again.
RetryWait ==
    /\ at = "retry" /\ pc = "phase"
    /\ IF waiting /\ ~AsrLive /\ ~stopping
       THEN waiting' = FALSE /\ advance' = TRUE /\ Goto("dispatch") /\ UNCHANGED at
       ELSE at' = "done" /\ UNCHANGED <<waiting, advance, pc>>
    /\ UNCHANGED <<disk, asrVars, trVars, book, run, texts, job, flags, held, lease, queued, film,
                   stopper, trouble>>

\* A wait that nothing needs is withdrawn.
RetryEnds ==
    /\ at = "retried" /\ pc = "phase"
    /\ queued' = (queued /\ (waiting \/ AsrLive))
    /\ at' = "done"
    /\ UNCHANGED <<disk, asrVars, trVars, book, run, texts, job, flags, advance, held, lease,
                   waiting, pc, film, stopper, trouble>>

CheckEnds ==
    /\ at = "done" /\ pc = "phase"
    /\ IF error \/ disabled THEN UNCHANGED <<emitted, queued, translator>> ELSE MaybeDone
    /\ at' = "rest"
    /\ UNCHANGED <<disk, asrVars, asked, answers, book, run, texts, job, stopping, error, hadWork,
                   advance, held, lease, waiting, pc, film, stopper, trouble>>

\* The supervisor's loop ends once the stop has returned.
Leave ==
    /\ at = "rest" /\ pc = "phase" /\ stopper = "over"
    /\ at' = "off"
    /\ UNCHANGED <<disk, asrVars, trVars, book, run, texts, job, flags, advance, gpu, pc, film,
                   stopper, trouble>>

-----------------------------------------------------------------------------
(* stop, from another thread.                                              *)

StopFlag ==
    /\ at # "off" /\ stopper = "none"
    /\ stopping' = TRUE /\ stopper' = "flagged"
    /\ UNCHANGED <<disk, asrVars, trVars, book, run, texts, job, error, emitted, hadWork, advance,
                   gpu, place, trouble>>

StopCancel ==
    /\ stopper = "flagged"
    /\ Cancels /\ stopper' = "cancelled"
    /\ UNCHANGED <<disk, asrVars, book, run, texts, job, flags, advance, gpu, place, trouble>>

StopLocked ==
    /\ stopper = "cancelled" /\ ~Locked
    /\ \E s \in {"none", "stuck"} : Leaves(s) /\ StopAsr(s)
    /\ LetGo
    /\ stopper' = "over"
    /\ UNCHANGED <<zh, tries, trVars, book, run, texts, flags, advance, place>>

\* The lock could not be taken in time: a recorded child is killed without it.
StopUnlocked ==
    /\ stopper = "cancelled" /\ Locked
    /\ IF AsrLive
       THEN \E s \in {"none", "stuck"} :
              Leaves(s) /\ Killed(s) /\ survivor' = (s = "stuck")
       ELSE UNCHANGED <<asrVars, survivor, trouble>>
    /\ LetGo
    /\ stopper' = "over"
    /\ UNCHANGED <<disk, trVars, book, run, texts, asrJob, flags, advance, place>>

-----------------------------------------------------------------------------
(* The child, the translator, the other task on the GPU, and people.       *)

AsrExits ==
    /\ asr \in {"live", "stuck"} /\ pc # "spawned"
    /\ \E e \in Exited :
         /\ asr' = e
         /\ IF e = "ok" THEN UNCHANGED trouble ELSE Trouble
    /\ UNCHANGED <<disk, tries, child, trVars, book, run, texts, job, flags, advance, gpu, place,
                   stopper>>

Translates ==
    /\ \E f \in asked : Answer(f)
    /\ UNCHANGED <<disk, asrVars, book, run, texts, job, flags, advance, gpu, place, stopper,
                   trouble>>

\* Another task: never while the lease is kept for this run.
OtherTakes ==
    /\ lease = "free" /\ ~queued
    /\ lease' = "other"
    /\ UNCHANGED <<disk, asrVars, trVars, book, run, texts, job, flags, advance, held, queued,
                   waiting, place, stopper, trouble>>

OtherEnds ==
    /\ lease = "other"
    /\ lease' = "free"
    /\ UNCHANGED <<disk, asrVars, trVars, book, run, texts, job, flags, advance, held, queued,
                   waiting, place, stopper, trouble>>

\* Somebody puts a subtitle or a transcript next to a video.
Appears ==
    /\ Trouble
    /\ \E f \in Films :
         \/ zh[f] = "none" /\ zh' = [zh EXCEPT ![f] = "theirs"] /\ UNCHANGED ja
         \/ ja[f] = "none" /\ ja' = [ja EXCEPT ![f] = "theirs"] /\ UNCHANGED zh
    /\ UNCHANGED <<asrVars, trVars, book, run, texts, job, flags, advance, gpu, place, stopper>>

-----------------------------------------------------------------------------
Worker ==
    \/ Start \/ StartFails \/ HandText \/ TextsDone \/ Check \/ Leave
    \/ RunCleanup \/ RunStop \/ DeferredDone \/ DispatchEnds \/ Advance
    \/ Take \/ RecordHold \/ Refused
    \/ GivenUp \/ StartAsr \/ StartAsrFails \/ Spawned \/ Fenced \/ GiveBack
    \/ PollIdle \/ PollStopping \/ ReapSettled \/ PollSucceeded \/ PollNoSpeech \/ PollRetry
    \/ PollFailed \/ FencedLive
    \/ ResultsEnd \/ Result \/ RetryWait \/ RetryEnds \/ CheckEnds

Stopper == StopCancel \/ StopLocked \/ StopUnlocked

Next ==
    \/ Worker \/ StopFlag \/ Stopper
    \/ AsrExits \/ Translates \/ OtherTakes \/ OtherEnds \/ Appears

Spec == Init /\ [][Next]_vars

\* Both threads run, the child ends, the translator answers, the other task
\* gives the GPU back.
FairSpec ==
    /\ Spec
    /\ WF_vars(Worker) /\ WF_vars(Stopper)
    /\ WF_vars(AsrExits) /\ WF_vars(Translates) /\ WF_vars(OtherEnds)

-----------------------------------------------------------------------------
\* A child the run knows of has the GPU for itself, one that outlived a kill
\* included, until a stop or an abort gave it up.  Between two checks the run
\* holds the GPU only for a child and stands in line only when it will come
\* again; after a stop it does neither, and leaves no child but one that outlived
\* its kill (_start_asr, _gpu_rel, stop).
GpuForTheChild ==
    /\ AsrLive /\ ~stopping /\ ~disabled => lease = "us" /\ held
    /\ pc = "spawned" /\ ~stopping => lease = "us"
    /\ at \in {"rest", "off"} /\ pc = "phase" =>
        /\ lease = "us" => AsrLive \/ stopper \in {"flagged", "cancelled"}
        /\ queued => waiting /\ ~disabled /\ ~error
        /\ stopper = "over" => lease # "us" /\ ~queued /\ (child # None => survivor)

\* A transcript goes only when its film has a Chinese subtitle, and one that is
\* not this run's only for a subtitle of this run; a transcription that ended
\* well is not dropped: it is on disk, or its film has its terminal state.
TranscriptsKept ==
    [][/\ \A f \in Films :
            ja[f] # "none" /\ ja'[f] = "none" =>
                zh'[f] # "none" /\ (ja[f] = "theirs" => zh'[f] = "ours")
       /\ (asr = "ok" /\ AsrLive /\ ~survivor /\ child' = None /\ run' = run) =>
            ja'[child] # "none" \/ settled'[child] # "open"]_vars

\* A start with work comes to an end: completion, an abort, an error or a stop;
\* and a stop leaves the GPU and its line.
RunsEnd ==
    /\ (at = "start") ~> (emitted \/ disabled \/ error \/ stopping)
    /\ (stopper = "flagged") ~> (stopper = "over" /\ lease # "us" /\ ~queued)

\* What a run owes its films: nothing it has is thrown away, and it ends.
FilmsServed == TranscriptsKept /\ RunsEnd
=============================================================================
