# TaskPaw V3: models, checks and proofs

TaskPaw runs an *Agent* on each machine that works for the user (video
restoration, subtitles, sensors) and a *Hub* that polls the Agents, keeps their
events, and notifies the user through OpenClaw.  A *workflow* layer on top takes
films in, distributes their stages over several machines and files the result in a
library.  This directory holds TLA+ models of the parts whose correctness depends on
the order of things: durable counters, message hand-over, process ownership, leases,
retries, restarts and deletions.  TLC checks them on small instances; TLAPS proves
the results listed under *Proofs* for every value of the constants.

`PROJECT.json` maps every definition to the lines it models, names every run with
its properties, and lists the hazards the properties are for.

## 1. Inventory

Paths are below `src/taskpaw_v3/`.

| Component | Code | State | Operations | What is hard | Modelled in |
|---|---|---|---|---|---|
| Event counter and state session | `core/state.py`, `agent/state.py` | anchor file, primary file, OS lease; `_record`, `_pending`, `_closing` | open, reserve, close; offline initialize, migrate, recover | crash between two file replacements, failed writes, close racing a write | `StateSession` |
| Agent event queue | `core/protocol.py` | `_events`, offered highwater, boot id | add, pop with acknowledgement, legacy drain, cursor | overflow; a late request of an earlier boot | `AgentQueue` |
| Hub poller and event store | `hub/server/poller.py`, `store.py` | registration, cursor binding, acknowledgement, consumed highwater, events, receipts | poll status, admit, fetch, commit, register, remove, adopt offline, restart | stale cursor, lost reply, crash before and after the commit, ids reissued by a restored backup | `HubCursor`, `EventChannel`, `EventHandoff` |
| Monitor administration | `agent/server/admin.py`, `restart_routes.py` | `_config`, `agent.yaml`, owners, overrides, epochs, a save in the background | add, remove, start, stop, edit, save of the settings, grant of a restart | requests that read before they reserve; a stop beside a write; death between file and memory | `Admin` |
| OpenClaw delivery owner | `hub/server/delivery_worker.py`, `upstream_worker.py` | helper process, `_creating`, `_owned`, `_stopped`, generation; worker thread, sender lock | request, cancel, clean up; start, stop, test, drain | a helper that outlives its second, stop and start racing a send | `HelperTransport`, `DeliveryWorker` |
| Notification outbox | `hub/server/store.py`, `poller.py` | `delivery_outbox`, quarantine, due order, switch | enqueue, drain, retry with backoff, quarantine, dead letter, prune, repair; rename, remove | unknown outcome of a send, crash after it, one bad row, ageing, renames | `Outbox` |
| GPU lease | `core/gpu_lease.py` | holder, waiters, reservation and deadline, closed | try_acquire, release, withdraw, close | fairness between quick and slow pollers, vanished waiters, late releases | `GpuLease` |
| Subtitle task | `monitors/plugins/avsubs.py` | queue of films, transcription child, hold, wait | start, check, stop | a stop beside every step, children that survive a kill | `SubtitleJobs`, `Avsubs` |
| Restoration task | `monitors/plugins/jasna.py` | restoration child beside it, degradation, retries | start, check, stop | two children and one GPU, clean-up of transcripts | `SubtitleJobs`, `Jasna` |
| Translator | `monitors/subs/translate.py`, `checkpoint.py` | queue, deferred films, breakers, workers, checkpoints | submit, translate, bisect, defer, publish, stop | outages that look like refusals, books that look idle too early | `Translator` |
| Monitor supervisor | `monitors/supervisor.py` | registered, pending and retired runtimes, worker and cleanup threads | add, reconfigure, remove, restart, start, stop, watchdog | deadlines that pass while threads live, a plugin's stop against its start | `Supervisor` |
| Worker enrolment and registry | `workflow/remote_worker.py`, `worker_store.py`, `devices.py` | pairing codes, credential, identity files, probe, approval, boot | join, pair, confirm, approve, drain, revoke, retire, refresh | a credential that is revoked while its successor is on the way | `WorkerRegistry`, `Enrolment` |
| Remote execution | `workflow/remote_attempts.py`, `remote_dispatch.py`, `worker_store.py` | stages, attempts, assignments, boots; attempt files, work folders, children | claim, run, settle, deliver, finish, boot and reconcile, requeue, attest | lossy HTTP between two parties that both crash; a child that outlives its parent; late requests | `RemoteAttempt` |
| Local execution | `workflow/local_dispatch.py`, `local_runtime.py`, `local_host.py` | boots, assignments, attempt files, processes, lease | boot settlement, admission, claim, renewal, resolution, pause, stop | a pause beside a claim, hung children of earlier boots | `LocalStore`, `LocalJobs` |
| Intake | `workflow/intake*.py` | packages, operations, snapshots, helper process and probe | scan, notify, snapshot, settle, stop, restart, reclaim | folders that change while they are copied, a stop between any two steps | `IntakeStore`, `IntakeHelper`, `Intake` |
| Finalisation | `workflow/finalize.py`, `library_archive.py`, `approval_store.py`, `film_delete.py` | approval, archive operation, journal, receipts, clean-ups, markers | confirm, approve, archive, recover, clean up, reclaim, retire | crash between a rename and its rows; deleting originals that another film needs | `Archive` |

Not modelled, each with its reason in `PROJECT.json` under `components`: the
workflow's scheduler and routing, transfer and return of results, the availability
alerts, the library's and the operator's pages, the status page and its LLM
summaries, web servers, configuration files, proxies, power and sensors, the
activity hook, migration, packaging and the user interface.  The first three have
state of their own and are the next candidates; the others render, forward, measure
or run once.

How the parts meet: the counter feeds the queue, the queue the Hub's store, the
store the outbox, the outbox the delivery owner.  The supervisor runs the plugins;
administration registers and replaces them; plugins and the workflow's stages take
turns on the GPU lease.  Intake makes a film's input, local and remote execution run
its stages, finalisation copies it into the library and deletes what it replaces.

### What has to be right

* **Counter**: no id of a stream becomes visible twice; either file alone suffices
  to go on; a failed write never blocks the retry of the same id; close never gives
  up the lease under a write, and does give it up afterwards.
* **Channel**: an event is stored at the Hub before the Agent lets it go, except
  through a loss the design names; an acknowledgement the Agent would refuse is never
  sent within one run; an event is notified once; nothing waits for ever.
* **Administration**: what was answered as saved or stopped is, after every
  interleaving and restart; every request is answered.
* **Delivery owner and outbox**: never two helpers; after a successful stop nothing
  runs; no row vanishes without a reason; a second send needs a first one whose
  outcome was lost; every row is settled.
* **GPU**: one user at a time; first come, first served among the tasks that keep
  trying; a task holds it exactly for its children, and a stop frees it.
* **Films of a task**: completion is true; transcripts and translated lines survive
  what they are needed for; a refusal is the line's own; every film gets one result.
* **Supervisor**: one runtime at work per instance; start and stop of a plugin apart;
  no plugin forgotten; stops end; a registered runtime is kept running.
* **Workers**: the credential in force is never lost on the way; nothing runs that
  the controller does not know or did not approve; an attempt is resolved only when
  its child is dead; finished work is not thrown away.
* **Local stages**: nothing is resolved while its processes run; no claim after an
  acknowledged pause; what is claimed is settled and requeued.
* **Intake**: a film's input is one whole version of the folder; what the planner
  sees is current; a clean stop is clean; what holds still gets in.
* **Finalisation**: what counts as archived is in the library; an original goes only
  when every film made from it is archived; nothing in the library is overwritten.

## 2. Plan

Done, in this order: the counter; the channel with its abstract specification; the
delivery owner; the outbox; the GPU lease; the supervisor; remote attempts;
enrolment; finalisation; intake; local execution; restoration and translation; the
subtitle task; administration.  Proofs followed the runs: first the counter and the
delivery owner, then the channel with its refinement, supervisor, archive, local
execution, enrolment, the GPU, remote attempts and administration.

Left: (1) the inductive invariants of `Outbox`, `Jasna`, `Translator` and `Intake`, whose
safety is model-checked only; (2) transfer and return of results, a manifest that resumes
at every step without losing the only copy of a file; (3) the scheduler's pass over the
store with its routes, against a reference definition; (4) availability alerts, one
announcement per incident across restarts.

Small systems are checked together where that saves a start of TLC: `MCAgent`, `MCHub`,
`MCGpu` and `MCWorkers` each hold two specifications that share no variable.  A variable `part`
picks one of them in the initial state, so the state spaces add up and do not multiply,
and each part's fairness holds only while it is the one that runs.

## 3. Modules, runs and bounds

Every `.cfg` sets `CHECK_DEADLOCK FALSE`: the systems may really stop (an operator
stops the service, a process ends), and the bounds on counters stop the rest.
Every bound is a `CONSTANT` named `Max...` with a comment, and is a guard of the
action it limits; nothing is cut off by a state constraint.  Where several kinds of
mishap share one bound (`MaxTrouble`, `MaxFault`), a run has every one of them, in
every order, up to that number together.  Fairness is weak fairness of threads that
have something to do, of requests nobody gave up, and of children and waits that end;
operators, crashes, time-outs and failures are never fair.

| Run | Module | Properties |
|---|---|---|
| `agent` | `MCAgent` = `StateSession` \| `Admin` | `NeverReissued`, `RetryAdmitted`, `CloseReleases` \| `AdminTrue`, `AdminMoves` |
| `event_channel` | `EventChannel` | `ChannelSafe`, `EnqueuedOnce`, `HandoffSpec`, `EventuallySettled` |
| `hub` | `MCHub` = `DeliveryWorker` \| `Outbox` | `OneHelper`, `StopMeansQuiet`, `Winddown` \| `OutboxSafe`, `OutboxSettles` |
| `gpu` | `MCGpu` = `GpuLease` \| `Avsubs` | `GpuExclusive`, `Turns` \| `GpuForTheChild`, `FilmsServed` |
| `jasna` | `Jasna` | `GpuHonest`, `DoneAndKept`, `RunEnds` |
| `translator` | `MCTranslator` | `BooksTrue`, `LinesKept`, `FilmsEnd` |
| `supervisor` | `Supervisor` | `RuntimesApart`, `Served` |
| `workers` | `MCWorkers` = `Enrolment` \| `RemoteAttempt` | `KeyKept`, `NothingRunsUnseen`, `ClaimsApproved`, `JoinSettles` \| `EndsTrue`, `AttemptsEnd` |
| `resolved_early` | `RemoteAttempt` | `ResolvedMeansStopped` is refuted |
| `archive` | `MCArchive` | `LibrarySafe`, `ArchiveEnds` |
| `intake` | `Intake` | `IntakeTrue`, `PublishedAsAdmitted`, `IntakeMoves` |
| `local_jobs` | `LocalJobs` | `Contained`, `PauseHonoured`, `JobsRecover` |

### StateSession (`MCAgent`)

The two files are `anchor` and `primary`, records with a `kind` (missing, corrupt,
V1, V2), server, stream and `next`.  `lease` is the OS lock; `pc[p]` is the place
of process `p` inside `reserve` or inside the offline tool.  A reservation is
`BeginReserve`, `CheckReserve`, `WriteAnchor`, `WritePrimary`, `Finish`, `Publish`,
one action between any two points where the process may die, where a write may
fail before or after the replacement (`FailAnchor`, `FailPrimary`), or where the
shutdown thread sets `_closing` (`Close`).  `Initialize`, `FirstRun`, `Migrate` and
`Recover` are the operator's tools, `Damage` a file lost or corrupted from outside.
The history variable `published` holds every event id that became visible.

`NeverReissued`: what is about to be published was never published.  `RetryAdmitted`:
the files the session's own failed writes left are accepted by the next reservation.
`CloseReleases`: a close during a write is followed by the release of the lease.

Bounds: two processes, two ids, two lineages, one damage.  Two processes are needed
for a stale owner; two ids let a crashed reservation be followed by another one; the
second lineage shows that a recovered or migrated stream does not meet the old one.

### AgentQueue, HubCursor, EventChannel, EventHandoff

`AgentQueue` is the Agent: durable `stream` and counter, volatile `queue`, boot
number, `floor` and `offered`.  `HubCursor` is the Hub's database row by row
(registration, `binding`, acknowledgement on disk and in memory, `consumed`, stored
events, receipts, outbox) with each transaction an action, and the operator's
register, remove, enable and offline adoption.  `EventChannel` composes them: a
poll is `PollStatus`, `Admit` or `Refuse`, `AgentServe`, `Commit` or `Reject`; requests
are in `net`, with `live = FALSE` when the Hub gave up on them, and may reach the Agent
in any later run.  `recorded`, `lost`, `issued` are history.

`ChannelSafe` is `NoLoss` (an issued event is in the Agent's queue, was recorded by the
Hub, or was lost in a way the design names), `AckHonoured` (a request that meets the run
it was made for carries an acknowledgement that run accepts), `OneEventPerId` and
`AckCovers` (everything up to the durable acknowledgement is stored, was pruned, or is
malformed).  `EnqueuedOnce`: one notification per event.  `EventuallySettled`: of an Agent
that stays admitted nothing waits in the queue for ever.  `EventHandoff` knows only
`held`, `kept` and `dropped`, and one rule: an event leaves `held` only when it is kept or
by a loss.  `HandoffSpec` is that specification with `held` = the queue, `kept` =
recorded or receipts, `dropped` = the named losses (overflow, restart, legacy reader).

Bounds: two ids, the second of them malformed; a reply of at most one event; two
boots and two streams; one fault, one late request, and `MaxUpheaval` 3 registrations,
restarts, rolled-back counters and damaged acknowledgements together.  Time-outs are
not fair but bounded, because a Hub whose every request times out settles nothing.

### Admin (`MCAgent`)

One monitor, two request threads, the thread that saves a stop, the settings, the
grant of a restart and the boot that follows.  The supervisor is the promises the
module `Supervisor` has; a config is the set of its edited fields.  `AdminTrue`: a stop
answered as saved is in the file and one answered as stopped stays (`StopsHold`); an
answered edit is in the file as long as the monitor is (`EditsHold`); with nobody at work
memory and file agree and what runs is configured (`Together`).  `AdminMoves`: after
a granted restart nothing is written or started; every request is answered and the name
is free again.  Bounds: two threads, two fields, three requests, one trouble (a failed
write, creation or thread, or a death).

The code has three windows, which the history `told.slip` names and the properties
except.  *joined*: a second stop shares the write in flight (`admin.py:623`), which was
drafted before the second stop's override; it is answered as saved while `agent.yaml`
says `enabled: true`, although `app.py:520` says stops are persisted.  *stale*: `_patch` and
`remove` read the entry before `_reserve` takes the revision, so that another commit in
between is overwritten or undone (docstring at `admin.py:129`).  *dropped*: the config of a
disabling edit that meets another stop is dropped and the edit answered as saved.
After the last two nothing more is claimed of the edits.

### HelperTransport, DeliveryWorker, Outbox (`MCHub`)

`HelperTransport` is the `Transport` object: `creating`, `owned`, `stopped`, `gen`,
and for each thread the point `at[t]` it has reached in `request` or `cleanup`.
The lock covers single steps, so a step is one locked region; what happens between
two locked regions is another action.  `alive` is the truth about the processes.
A cleanup may overrun its second and return with the helper alive (`Reap(t, FALSE)`).
`DeliveryWorker` extends it by the owner: the worker thread, tests from API threads, and
the service's start and stop.  `OneHelper`: at most one process.  `StopMeansQuiet`: after a
`stop()` that returned true nothing runs until the next start.  `Winddown`: a stop
request ends with the worker dead, or is withdrawn by a start.  The POSIX order of
spawn and ownership is the one modelled; on Windows `_owned` is set before the start,
which only narrows the window.

In `Outbox` `rows` is the table with its quarantine, `due` the order of
`next_attempt_at`; a drain is `Query` (the batch is a snapshot), then per row
`Quarantine`, `Expire`, or `BeginSend`, `SendReturns` or `SendUncertain`, `Record` or
`RecordBlind`.  Age is counted in three classes (under a day, under a week, older), which
is what the code tells apart.  `OutboxSafe`: a row leaves the table only by a success, a
removal or as an old dead letter, and two successful sends need an outcome that was
lost.  `OutboxSettles`: a due row is sent, dead, quarantined or removed in the end.
What the code does and a docstring denies: `remove_server` says it deletes *all* child
rows (`store.py:468`), but rows carry the name the server had when they were written
and a rename does not change them (`store.py:491`); rows queued before a rename survive
the removal and are sent.

Bounds: worker, service and two testers, three helpers, two overruns, three starts;
two rows, a batch of one (so that a batch never covers the table), two attempts, one
fault, one administrative act.

### GpuLease, SubtitleJobs, Avsubs (`MCGpu`)

`holder`, `waiters`, `reserved` and `left` are the fields of the lease; time is counted
in ticks and a waiter's last attempt by its age.  A task is out, waiting, holding,
releasing late or vanished; `line` is the history of arrival.  `GpuExclusive`: what the
lease calls free or another's is not in use.  `Turns`: the types; a grant goes to the
first of those that kept trying; who waits gets its turn, unless it gives up or the
lease closes.  Three tasks, two quick ones and one slow enough that its interval
exceeds the fixed windows.

`Avsubs` is the stand-alone subtitle task over `SubtitleJobs`, which it shares with
`Jasna`: `only` is its queue and `disabled` its abort.  `at` and `pc` are the step of
`check`, `stopper` the thread in `stop()`, `lease` what the rest of the machine sees.
`GpuForTheChild`: a child has the GPU until a stop or an abort gave it up; between two
checks the run holds it only for a child and waits only if it will come again; after
a stop it does neither.  `FilmsServed`: a transcript goes only when its film has a Chinese
subtitle, a transcription that ended well is not dropped, and a start with work ends.
Two films, one start, one trouble; locally two starts, two troubles and three films
passed as well.  The lock time-out of `stop` is modelled only while a child is being
created; a survivor of a kill keeps the GPU except after a stop or an abort, and an
earlier run's survivor is no longer tracked after a new start, as in the code.  Notices,
the progress view, name collisions and planning errors are left out; `OtherTakes` stands
for the queue of the lease, which `GpuLease` has.

### SubtitleJobs, Jasna

A managed restoration run: its queue of films, the restoration child and the
transcription child with one GPU between them, retries, degradation, abort, completion
and the stop from another thread.  `GpuHonest`: a child has the lease, and between two
checks nothing is held or waited for without a reason.  `DoneAndKept`: completion is
reported when the plan has run out; a transcript goes only for a subtitle that serves
its film.  `RunEnds`: a start with work ends, a stop frees the GPU.  The numbers 3 in the
code are `DisableAfter`; a survivor of a kill gives the GPU back on purpose; an
unlocked stop frees the lease while a child created in that moment is not recorded yet,
which `Launched` undoes when it sees the flag.  Not modelled: the offer and download of
the LTX model, the passive mode, the progress view, a missing WhisperJAV or key.  Bounds: two
films, two starts, one trouble; two troubles with one start and three films passed
locally.

### Translator (`MCTranslator`)

The thread of the translator with its queue, deferred films, breakers, batch sizes,
workers and checkpoints, and the task that submits, polls and publishes.  `BooksTrue`:
while a submitted film has no result the translator never looks idle; a film has one
result; only a line the service really refuses is held against it.  `LinesKept`: a
line stays Japanese only when every service of the chain has failed it; what the
checkpoint has is not lost before publication.  `FilmsEnd`: every film gets a result
though no service recovers, and a stop ends the thread wherever it waits.  Two films, two
services, and two faults together (chain changes, outages, lost workers, failed writes
or publications, stops, restarts).  A garbled answer depends on the line; time is ticks;
a cached probe may be used or not; an account outage does not end within one attempt;
one thread submits.  Blank lines, pruning, the fallbacks of single requests, the progress
view and `_internal_error` (`translate.py:769`: an exception nobody expects ends the film, or
the deferred ones, with a failed result) are left out.

### Supervisor

One instance id.  `rt[m]` is the `_Managed` record of runtime `m` with its worker and
cleanup threads; `reg`, `pending`, `retired` are the registry.  The registry lock is held
for one action; plugin calls and thread starts lie between actions, and every deadline
is a choice.  API threads (`op[o]`) add, reconfigure and remove; `asked` are runtimes that
some thread is about to `_retire`; the runtime's number stands for its cancel token.
`RuntimesApart`: two runtimes never work at once, start and stop of a plugin are apart, no
created plugin is forgotten.  `Served`: who is registered works, unless stopped; stops
end.  Two operations, two runtimes, one stop or fault.  A plugin that never returns is in
the safety part, where nothing is fair.  Event emission, backoff and the degraded
status are left out.

### WorkerRegistry, Enrolment (`MCWorkers`)

`WorkerRegistry` is the controller's row of one worker with its codes, credential,
admission, probe and approval, each operation a transaction.  `Enrolment` is the worker:
the join (`jpc`), the loop (`lpc`), the two identity files, the identities in memory, the
dispatcher and its job.  `KeyKept`: the credential in force is on disk and in the
process.  `NothingRunsUnseen`: a running job is assigned to a worker that is not retired.
`ClaimsApproved`: only the approved configuration claims.  `JoinSettles`: a paired worker
ends up running as what it was paired as.  Two codes, two configurations, two joins, one
trouble.

The history `slip` names what the code itself may lose, and the properties except
exactly that: *overwritten* (the loop and a join write the pending file at the same time,
`remote_worker.py:612`, `:802`), *abandoned* (`:566`, against the docstring at `:628`), *unheld*
(a credential in force that only the dead process knew, against `:633`; it takes two
troubles), *toggled* (`set_paused` hands the dispatcher a probe that was not posted,
`:484`, `:864`), and *replaced*, which is by design.  A pairing request given up never
arrives later; a call that changes nothing and is not answered is a step not taken;
boot ids are equal or different and no more.

### RemoteAttempt (`MCWorkers`)

One stage of one film, one worker that may be restarted, one controller.  On the
controller's side `stage`, `cur`, `asg`, `from` and `end` are the rows of the store,
`wboot` and `reconciled` the worker's boot row, `beat` and `requeued` what `FleetLive`
and the host keep in memory.  On the worker's side `file`, `work` and `child` are what
survives a crash (the attempt's record, its work folder, its child process), the rest
is the dispatcher's memory: `sess` is the place of the session thread, `run` that of the
run thread, `held`, `queue`, `cancelled`, `doomed` their shared lists, `holding` the GPU
lease.  `net` holds the requests under way; a request with `live = FALSE` was given up by
its sender and may still arrive.

`EndsTrue`: at most the current attempt is open, exactly while the stage runs or is in
doubt; an attempt is resolved only when its child is dead or the operator said so
(`StoppedUnlessMisread`); a result that exists keeps its record while the attempt is open
and resolves it as a success (`FinishedWorkKept`).  `AttemptsEnd`: a living worker gives up
the GPU only when no child it answers for lives (`GpuKept`), and an attempt given out and
on record is resolved in the end (`EveryClaimSettles`).  Two attempts, so that a retry can
meet what the first one left, and two faults, so that one can strike while another is
dealt with.

The boot handler is one action although it is several transactions: each compares the
versions of what it changes, and a concurrent change makes it start over.  A graceful
stop is a crash after the last save.  `Requeue` is possible whenever an attempt is open;
the code refuses it when the last beat showed the stage settled, and no property relies
on that.  An unreadable entry can be read the next time.

Every kind of request may arrive late, and a session may break and start over at any
time, also during a claim.  The code then breaks what its comments promise, and the run
`resolved_early` shows it: `ResolvedMeansStopped` (nothing but the worker's own report or the
operator proves a stop, `remote_attempts.py:408`) is refuted.  *Late boot*: `record_boot`
(`worker_store.py:460`) takes every boot id other than the current one for a newer boot; the
boot request of a process that died, handled after its successor has booted and claimed,
names no living child, so that `settle_boot` resolves the running attempt as interrupted.
One fault suffices, and this is the trace TLC prints.  *Recover race*: `recover()`
(`remote_dispatch.py:703`) deletes the records for which the controller answers 404, which
the comment at line 681 takes for claims that never landed; the run thread goes on
meanwhile, and such a claim may land after the answer.  Then the record of a running
attempt is gone, the worker may die, and the boot that follows leaves the attempt out.

The history `misread` holds exactly the attempts of these two kinds: those settled by a
boot request of an earlier process than the one that claimed them, and those whose record
was deleted after their claim had landed.  `EndsTrue` and `GpuKept` except them and nothing
else: once such an attempt is settled beside its living child, the stage can be claimed
again, and the second attempt takes the GPU and gives it up while the first child lives.
`EveryClaimSettles` holds of them as of the others.  A known limit besides: a claim refused
on its second send may still be admitted by its first one, and nobody settles that
assignment until the worker's next boot; `EveryClaimSettles` speaks of attempts on record.

### Archive (`MCArchive`)

The API thread (confirmation), the dispatch thread (one film after the other) and the
library's worker (one copy at a time, journalled) meet in two databases; around them the
INBOX may change, folders appear on the NAS, reads, copies and writes fail, and the hub
may stop at any step.  `LibrarySafe`: what counts as archived is in the library, an
original goes only when every film made from it is archived, a cleaned film keeps its
marker until its folders are gone.  `ArchiveEnds`: a folder of the library is never
overwritten; an archive operation ends, and so does the clean-up.  Two films that share an
original, two revisions, one trouble.  Left out: revocation of an approval (no caller), its
expiry after ten years, aliases of a work copy among the originals; a re-ingest that
fails its checks is one outcome, *attention*.

The dispatch thread visits the films that `list_jobs` shows (`Listed`): a film that was
ingested again while its archive operation is open is not polled until the new revision
has been scraped, which nothing forces.  A read that fails in the library's worker leaves
a task as it is until the hub starts again: `run_next` has taken it out of the queue
already, `recover` passes over it or over all of them.  The history `lost` holds those
tasks.  `OpenArchiveSettles` therefore speaks of films in reach: it excepts a film that is
not listed, a task in `lost`, and an engine that stopped itself after a failed write
(`broken`), which starts again with the hub.

### IntakeStore, IntakeHelper, Intake

`IntakeStore` has the rows (root, scan, package, operation, film) with each command a
transaction; `IntakeHelper` the suspended helper in its Job, its probe and their owner;
`Intake` the discovery and snapshot threads, the stop and the hub around them.
`IntakeTrue`: the copy a film is made from is whole and of the admitted version; what the
planner sees is the newest snapshot; a helper that may run has the store's one slot and is
recorded before it runs; a clean stop is clean.  `PublishedAsAdmitted`: nothing was
reported or seen of the package since its admission.  `IntakeMoves`: a change voids the
context, and what holds still gets in.  One package, one change, one configuration, one
trouble; two packages, and two changes with two troubles, passed before linked members and
the age of the last scan were added.  A stop counts
as a trouble only with a change left; policy mismatches are rejections; generations are
counted up only where one is still compared with.  A row that has lost the identity of
its directory is never matched with it again (`intake_discovery.py:245`); `GetsIn` excepts
such a folder.  A reported package whose snapshot links to its own files may be looked at
instead of noticed (`UnchangedLinked`), whether it has such members being a choice.  An
admission may be refused because the last complete scan is older than `rescan_seconds`
(`BeginLate`, one trouble each).  Not modelled: a snapshot that is not eligible, which is
`blocked` where others are restored (`intake_store.py:360`), and a package that is
archived, which needs attention when it changes and is not admitted (`:367`, `:902`, `:993`);
`Archive` has what follows from an archived package.

### LocalStore, LocalJobs

The controller's own stages: the boot that settles what earlier ones left, the dispatch
thread (admit, claim, launch, wait, resolve), the renewal, the processes of an attempt in
`tree` with the boot they belong to, the GPU shared with manual tasks, pause, stop and
crash.  `Contained`: no attempt is resolved while a process its file names is left, no two
compute attempts have one at once, a child of a GPU stage has the lease.  `PauseHonoured`:
after an acknowledged pause nothing is claimed.  `JobsRecover`: what is claimed is settled
and requeued.  One GPU job, one step job, two tries, two boots, two faults (crashes, stops,
pauses, hung children, failed writes).  A resolution that raises leaves its assignment open
until the next start (`stranded`); a child whose attempt file could not be written is
beyond settlement; after a restart the process-wide lease does not know an earlier
boot's hung child.  Backoff, routes, missing executors, 4K and remote modes are left
out, and so is an `OSError` between a resolution and the retry that follows it
(`local_dispatch.py:434`, `:857`), after which the stage stays failed until the operator
retries it or the next start does (`:428`).

## 4. Proofs

tlapm checks every theorem and lemma, for any constants that satisfy the named
assumptions, which TLC evaluates on every run.  Each module below has the inductive
invariant as a conjunction of named parts, one lemma per action that says the action
keeps it, frame lemmas (`...Kept`) for the parts an action does not touch, a lemma `Step`
(or `InvStep`) that splits the next-state relation, and the theorems at the end.  TLC
checked every invariant, on instances at least as large as the runs', before its proof.

| Module | Theorems | Property |
|---|---|---|
| `AgentProofs` | `IdsNeverReissued`, `RetryAlwaysAdmitted`, `AnchorNeverBehind`, `EitherRecordSuffices`; `AdminHolds`, `GrantIsFinal` | `NeverReissued`, `RetryAdmitted`, `AdminTrue`, `RestartQuiet` (in `AdminMoves`) |
| `EventChannelProofs` | `SafeChannel`, `OutboxOnce`, `Refinement` | `ChannelSafe`, `EnqueuedOnce`, `HandoffSpec` |
| `DeliveryWorkerProofs` | `AtMostOneHelper`, `StopIsQuiet`, `CleanIsGone`, `TypeSafety` | `OneHelper`, `StopMeansQuiet` |
| `GpuProofs` | `Exclusive`, `ForTheChild`, `Invariance` | `GpuExclusive`, `GpuForTheChild` |
| `SupervisorProofs` | `Apart`, `Invariance` | `RuntimesApart` |
| `WorkerProofs` | `HasItsKey`, `Seen`, `Approved`, `Invariance`, `EndsHold` | `KeyKept`, `NothingRunsUnseen`, `ClaimsApproved`, `EndsTrue` |
| `ArchiveProofs` | `Safe`, `NeverOver`, `Invariance` | `LibrarySafe`, `NoOverwrite` (in `ArchiveEnds`) |
| `LocalJobsProofs` | `Answered`, `Paused`, `Invariance` | `Contained`, `PauseHonoured` |

**`AgentProofs`.**  `NeverReissued` is not inductive: a published id stays
unpublished only because what a process is about to publish comes from a record that
both files have passed.  `ClaimInv` says so: a process that writes holds the lease
(`WriterHoldsLease`), the files cover every visible or claimed id (`SurvivorCovers`), the
holder's record covers every visible id (`HolderCovers`), and lineages in use have been
drawn (`LineagesDrawn`).  `DiskCoherent` relates the files to the place of the holder while
nothing was damaged; with `ClaimInv` it is inductive and gives `AnchorNeverBehind` and
`RetryAlwaysAdmitted`.

The administration has an invariant of its own, `AInv`, that needs no bound on requests or
troubles.  `MutexInv` and `OwnerInv` say who may be where while the lock or the name is
taken; `FileInv` that the file differs from the memory only between a write and what
follows it; `FreshInv` and `EditInv` that drafts carry every edit that was answered;
`QuietInv`, `OffInv` and `StillInv` that a stop, answered or at work, has cancelled whoever
would enable the monitor; `LiveInv` that what runs is configured or about to be stopped.
`GrantIsFinal` follows from `MutexInv`: after the grant nobody has the mutation lock, so
nobody can get it, and every write and start is made under it.

**`EventChannelProofs`.**  An acknowledgement travels: it is judged by a cursor that was
read earlier, stored, sent, and may arrive in a later run.  `Past` says that a cursor tells
the truth about some past moment of one run, `Through` that everything an acknowledgement
covers is settled (recorded, kept as a receipt, or lost by name).  `AdmitCovers`, `NetInv`,
`ReplyInv`, `BindingInv`, `UpgradeInv` carry that through admission, requests, replies, the
database and the offline adoption; `EnqueueInv` says that the ids a commit adds lie above
all that were enqueued.  The refinement of `EventHandoff` follows from these, action by
action: most stutter, `AgentServe`, `Commit` and the losses map to its steps.

**`DeliveryWorkerProofs`.**  `TypeOK`, `OwnerInv` (which thread a living helper and `_creating`
belong to), `CallInv` (where a thread may stand inside a call) and `QuietInv` (what a
finished stop has established).

**`GpuProofs`.**  For the lease `LeaseInv`: a task believes it holds the GPU exactly when the
lease says so, but for late releases.  For the subtitle run: `PlaceInv` (which steps meet
which film, job and lock), `ChildInv` (the child is the recorded job but while it is made),
`HoldInv` (who holds the GPU has a child, is about to make or give back one, or is being
stopped), `WaitInv` (who waits has no child and comes again; an abort or error leaves the
clean-up that ends the wait) and `BookInv` (after an abort no job is open).  The queue's
order is a `CHOOSE`; `HasOrder` shows that one exists for any finite set of films, by a
smallest counterexample, because induction theorems are out of the provers' reach.

**`SupervisorProofs`.**  `OpInv` (one operation holds the reservation, for the runtime it
prepares), `StagedInv` (what is prepared has no worker before it is registered, and
`retired` is empty meanwhile), `CleanupInv`, `WorkerInv`, `LeakInv`: a runtime leaves the
books only when it is complete, which nothing undoes.

**`WorkerProofs`.**  Joining: `CredInv`, `WhereInv`, `FilesInv`, `WritesInv`, `CopiesInv`, `ProbeInv`: a
credential belongs to one code, which is spent once it is confirmed or in force; a
pairing join has halted the loop; what is kept is confirmed; what the loop writes or a
join adopts is in force; what is in force is on disk and in memory; what is approved was
posted.  Running a stage: `RInv`.  `StoreInv` and `FreshInv` (one open attempt, the current
one; what was not made is nowhere), `HandInv` and `DiskInv` (the attempt in hand was admitted
in this boot; what runs or is on disk was admitted; an outcome on file is about no process),
`GoneInv`, `FinishInv`, `AnswerInv` (what is to be collected, reported or judged is over),
`BootInv` (a boot request under way names every attempt of an earlier boot that lives or
has a result, unless it was misread), `ClaimInv` (a claim of the attempt in hand is of this
boot), and `OrderInv`: nothing names a boot or an attempt yet to come, so that a boot request
is of the claiming process or a later one, or what it settles is misread.  `EndsHold` needs
no bound on what is lost, late or restarted; it excepts `misread`, as section 3 says.

**`ArchiveProofs`.**  A folder of the library never changes once it is there (`NasGrows`), so
that a journal row that says committed is and stays true (`RowInv`, `WorkerInv`).  While an
archive operation is open its film's approval and context stand still (`ApprovalInv`); an
archived film has its receipt, which stops any re-ingest, and clean-ups of originals run
only while the whole package is archived (`ArchivedInv`); the marker precedes the recorded
clean-up (`ReclaimInv`).

**`LocalJobsProofs`.**  A process of this boot belongs to the job in hand, which keeps the
GPU until the process is gone (`OwnInv`, `LeaseInv`); a named process of any boot keeps its
assignment and its file (`NamedInv`); one open compute assignment holds the machine
(`StoreInv`); a caller who was told of a pause was told outside the admission (`ThreadInv`,
`PauseInv`).

Only model-checked:

* all liveness (`CloseReleases`, `EventuallySettled`, `Winddown`, `OutboxSettles`, `Granted`,
  `Served`, `RunEnds`, `FilmsEnd`, `AttemptsEnd`, `JoinSettles`, `JobsRecover`, `IntakeMoves` and the
  liveness in `AdminMoves`, `FilmsServed` and `ArchiveEnds`): fairness and `ENABLED` are out of
  the provers' reach;
* the types of `GpuLease` and the safety of `Outbox`, whose sequences are filtered by
  `SelectSeq`, a recursive definition about which nothing can be proved here;
* `GpuHonest`, `BooksTrue`, `IntakeTrue` and the action properties
  `DoneAndKept`, `LinesKept`, `PublishedAsAdmitted`, which no proof has been written for.

## 5. Abstractions

* Records, names, payloads and messages are numbers, model values or short records;
  formatting, logging, metrics and wording are left out.
* A SQLite transaction is one action, an `os.replace` is one action; a crash falls
  between them.
* A lock region is one action when nothing inside it waits or calls out.
* Deadlines and time-outs are choices, except in `GpuLease` and `Translator`, where the
  order of intervals is what matters.
* HTTP requests may be lost, answered late, or executed after their sender gave
  up; they are not forged and not altered.
* The file system does what it is told: a replacement is atomic and durable.
  Damage from outside is an action of its own.
* Where the code breaks a promise of its own comments, the model does what the code
  does.  A history variable (`slip`, `told.slip`, `stranded`, `lost`, `misread`)
  names the case, the property excepts exactly it, and the section of the module
  describes it.  Where the promise is stated of every case, a run refutes it
  (`resolved_early`).
