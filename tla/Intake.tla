------------------------------- MODULE Intake -------------------------------
(***************************************************************************)
(* Intake: from a folder in the INBOX to the input of a film                *)
(* (workflow/intake.py, intake_runner.py, local_host.py).                   *)
(*                                                                          *)
(* The discovery thread scans the root, the snapshot thread copies one      *)
(* stable package at a time with the help of a process of its own, and a    *)
(* stop may come from a third thread.  They share the store; the watcher    *)
(* only hints that a scan is due.  The folders change under all of them,    *)
(* and the hub may exit at any step: its Job then ends the helper.          *)
(***************************************************************************)
EXTENDS IntakeStore, IntakeHelper

CONSTANTS
    MaxChange,      \* bound: changes of the folders, and stops
    MaxConfig,      \* bound: configurations that differ from the stored one
    MaxTrouble      \* bound: failures, lost replies, timeouts and exits of the hub

ASSUME IntakeAssumption == MaxChange \in Nat /\ MaxConfig \in Nat /\ MaxTrouble \in Nat

VARIABLES
    disk, absent,   \* the version of each folder; folders that are not there
    hints, lost,    \* DirectoryWatcher: folders it reported; its failure
    hub,            \* LocalHost: down, opened, settled, serving
    stop,           \* IntakeService._stop, _pending_owners, and the stopping thread
    s,              \* the discovery thread
    stable,         \* IntakeService._stable: the signature of a stable package
    r,              \* the snapshot thread and SnapshotRunner's memory
    h,              \* its helper and the owner object
    stale,          \* history: the operation's package was reported or seen to change
    changes, troubles

files == <<disk, absent, hints, changes>>
memory == <<hub, lost, stop, s, stable, r, h>>
vars == <<storeVars, files, memory, stale, troubles>>

Present == Packages \ absent
Scanning0 == [at |-> "idle", todo |-> {}, seen |-> {}, p |-> CHOOSE p \in Packages : TRUE,
              got |-> [dig |-> NoVersion, whole |-> FALSE, named |-> FALSE], whole |-> FALSE]
NoResult == [proof |-> "none", births |-> 0, snap |-> FALSE, copy |-> {}, why |-> ""]
Resting == [at |-> "idle", p |-> CHOOSE p \in Packages : TRUE, owns |-> FALSE,
            cancelled |-> FALSE, why |-> "", result |-> NoResult, retried |-> FALSE]
NotStopped == [set |-> FALSE, at |-> "none", held |-> FALSE, tried |-> FALSE,
               ok |-> FALSE, kept |-> FALSE]
Unknown == <<0, 0, 0>>

Init ==
    /\ StoreInit
    /\ disk = [p \in Packages |-> <<1, 1>>] /\ absent = {} /\ hints = {} /\ lost = FALSE
    /\ hub = "down" /\ stop = NotStopped
    /\ s = Scanning0 /\ stable = [p \in Packages |-> Unknown]
    /\ r = Resting /\ h = NoHelper /\ stale = FALSE
    /\ changes = 0 /\ troubles = 0

Trouble == troubles < MaxTrouble /\ troubles' = troubles + 1
Quiet == UNCHANGED <<files, lost, hub, troubles>>
\* A write that concerns p's source while its snapshot is in flight.
Stales(p) == stale' = (stale \/ (op.unres /\ op.p = p))

\* _owns_snapshot: the folder is read by this process's own helper.
OwnsSnapshot(p) ==
    /\ pkg[p].busy /\ pkg[p].st # "unknown" /\ r.owns /\ r.at # "idle" /\ op.p = p

-----------------------------------------------------------------------------
(* The folders, and the hub around the intake.                              *)

\* Someone changes, removes, puts back or replaces a folder; the watcher hints.
Change(p) ==
    /\ changes < MaxChange /\ changes' = changes + 1
    /\ \/ p \notin absent /\ disk' = [disk EXCEPT ![p] = <<@[1], @[2] + 1>>]
          /\ UNCHANGED absent
       \/ p \notin absent /\ absent' = absent \cup {p} /\ UNCHANGED disk
       \/ p \in absent /\ absent' = absent \ {p}
          /\ disk' \in {disk, [disk EXCEPT ![p] = <<@[1] + 1, 1>>]}
    /\ hints' = IF hub = "serving" THEN hints \cup {p} ELSE hints
    /\ UNCHANGED <<storeVars, memory, stale, troubles>>

\* The planner makes a context from an input whose source is admissible.
Plan(p) ==
    /\ SourceAdmissible(p) /\ film[p].ctx # "ready"
    /\ film' = [film EXCEPT ![p].ctx = "ready"]
    /\ UNCHANGED <<root, scan, pkg, op, fresh, files, memory, stale, troubles>>

\* The process exits, after a stop or at any step; the Job ends the helper with it.
Exit ==
    /\ hub # "down" /\ Trouble
    /\ hub' = "down" /\ hints' = {} /\ lost' = FALSE
    /\ stop' = NotStopped
    /\ s' = Scanning0 /\ stable' = [p \in Packages |-> Unknown] /\ r' = Resting
    /\ h' = NoHelper
    /\ fresh' = [t \in DOMAIN fresh |-> {}]
    /\ UNCHANGED <<root, scan, pkg, op, film, disk, absent, changes, stale>>

\* _boot: the store is opened under a new boot.
Open ==
    /\ hub = "down" /\ hub' = "opened" /\ Recovered
    /\ UNCHANGED <<files, lost, stop, s, stable, r, h, stale, troubles>>

\* settle_intake: operations of exited boots, then the private copies nothing uses.
SettleIntake ==
    /\ hub = "opened" /\ hub' = "settled"
    /\ IF op.unres /\ ~op.mine THEN AbandonedSettled ELSE UNCHANGED <<root, scan, pkg, op, fresh>>
    /\ Reclaimed(Orphan)
    /\ UNCHANGED <<files, lost, stop, s, stable, r, h, stale, troubles>>

\* configure_intake: the settings name another root or policy than the stored ones.
Configure ==
    /\ hub = "settled" /\ hub' = "configured" /\ root.rev <= MaxConfig
    /\ \E policy \in {1, root.pol + 1} : Configured(policy) /\ (root.rev = 0 => policy = 1)
    /\ UNCHANGED <<files, lost, stop, s, stable, r, h, stale, troubles>>

\* IntakeService.start: a scan is required, the watcher starts with a full rescan.
Start ==
    /\ hub \in {"settled", "configured"} /\ root.rev > 0 /\ hub' = "serving"
    /\ ScanBegun("scan") /\ hints' = Packages
    /\ UNCHANGED <<root, pkg, op, film, fresh, disk, absent, changes, lost, stop, s, stable,
                   r, h, stale, troubles>>

\* The watcher fails: every later batch asks for a full rescan.
WatcherFails ==
    /\ hub = "serving" /\ ~lost /\ Trouble /\ lost' = TRUE
    /\ UNCHANGED <<storeVars, files, hub, stop, s, stable, r, h, stale>>

-----------------------------------------------------------------------------
(* The discovery thread: scan_once.                                         *)

\* ready_packages: stable packages that still are what they were remembered as, and no
\* run or pending result that would come first.
Pending == r.result.proof # "none"
Signature(row) == <<row.dig[1], row.dig[2], row.gen>>
Ready(p) ==
    /\ r.at = "idle" /\ ~r.owns /\ ~Pending
    /\ ~stop.set /\ ~scan.required /\ pkg[p].st = "waiting"
    /\ stable[p] = Signature(pkg[p])

\* The rows of a batch whose folder was reported; all of them after an overflow.
Batch(B) == {p \in (IF lost THEN Packages ELSE B) : pkg[p].there}
Admitting == r.at \in {"begin", "work"}

\* _loop drains the hints; a scan without any waits for rescan_seconds, before which the
\* loop starts what is ready, and an admission is over.  _begin_scan, and the rows _dirty
\* is going to compare.
StartScan ==
    /\ hub = "serving" /\ ~stop.set /\ s.at = "idle"
    /\ \E B \in SUBSET hints :
         /\ B # {} \/ ~(Admitting \/ \E p \in Packages : Ready(p))
         /\ hints' = hints \ B
         /\ s' = [Scanning0 EXCEPT !.at = "dirty", !.todo = Batch(B)]
         /\ Reads("scan", Batch(B))
    /\ ScanBegun("scan")
    /\ stop' = [stop EXCEPT !.held = FALSE]
    /\ UNCHANGED <<root, pkg, op, film, disk, absent, changes, hub, lost, stable, r, h,
                   stale, troubles>>

\* _notice: the row as it was read gets the notice, and loses its signature.
Notice(p, missing) ==
    /\ p \in fresh["scan"] /\ Noticed(p, missing) /\ Stales(p)
    /\ stable' = [stable EXCEPT ![p] = Unknown]

\* A package whose snapshot links to its own files is looked at first: a report of one
\* that is as its row has it says nothing.
UnchangedLinked(p) ==
    /\ pkg[p].snap.gen = pkg[p].gen /\ pkg[p].snap.rev = pkg[p].rev
    /\ p \notin absent /\ pkg[p].named /\ pkg[p].dig = disk[p]

\* _dirty: every reported package gets a notice, except the one this process copies, and
\* one that has linked members and did not change.
Dirty ==
    /\ s.at \in {"dirty", "late"} /\ s.todo # {}
    /\ LET p == CHOOSE p \in s.todo : TRUE IN
         /\ s' = [s EXCEPT !.todo = @ \ {p}]
         /\ \/ (OwnsSnapshot(p) \/ UnchangedLinked(p)) /\ UNCHANGED <<storeVars, stable, stale>>
            \/ ~OwnsSnapshot(p) /\ Notice(p, FALSE)
    /\ UNCHANGED <<stop, r, h>> /\ Quiet

\* walk_root: the folders that are there.
Walk ==
    /\ s.at = "dirty" /\ s.todo = {}
    /\ s' = [s EXCEPT !.at = "look", !.todo = Present, !.whole = TRUE]
    /\ UNCHANGED <<storeVars, stop, stable, r, h, stale>> /\ Quiet

\* find_intake, then observe_package; a folder this process copies is only marked seen.
Look ==
    /\ s.at = "look" /\ s.todo # {} /\ ~stop.set
    /\ LET p == CHOOSE p \in s.todo : TRUE IN
         IF OwnsSnapshot(p)
         THEN /\ s' = [s EXCEPT !.todo = @ \ {p}, !.seen = @ \cup {p}]
              /\ UNCHANGED fresh
         ELSE /\ p \notin absent
              /\ s' = [s EXCEPT !.at = "record", !.p = p,
                                !.got = [dig |-> disk[p], whole |-> TRUE, named |-> TRUE]]
              /\ Reads("scan", {p})
    /\ UNCHANGED <<root, scan, pkg, op, film, stop, stable, r, h, stale>> /\ Quiet

\* What is left of a folder that cannot be read whole: its identity, if it could be
\* opened at all, and the members of the row if they are of the same directory.
Known(p) == IF pkg[p].named /\ pkg[p].dig[1] = disk[p][1] THEN pkg[p].dig
            ELSE <<disk[p][1], 0>>
Parts(p) == {[dig |-> pkg[p].dig, whole |-> FALSE, named |-> FALSE]} \cup
            IF p \in absent THEN {}
            ELSE {[dig |-> Known(p), whole |-> FALSE, named |-> TRUE]}

\* A folder that is busy, or gone by now, is observed in part.
LookInPart ==
    /\ s.at = "look" /\ s.todo # {} /\ ~stop.set
    /\ LET p == CHOOSE p \in s.todo : TRUE IN
         /\ ~OwnsSnapshot(p)
         /\ IF p \in absent THEN UNCHANGED troubles ELSE Trouble
         /\ \E got \in Parts(p) : s' = [s EXCEPT !.at = "record", !.p = p, !.got = got]
         /\ Reads("scan", {p})
    /\ UNCHANGED <<root, scan, pkg, op, film, files, lost, hub, stop, stable, r, h, stale>>

\* _remember: the signature of a package that waits; a signature that changed is dropped
\* and remembered by the next scan.
Remembered(p, row, seen) ==
    IF row.st # "waiting" \/ ~seen.whole \/ stable[p] \notin {Unknown, Signature(row)}
    THEN Unknown ELSE Signature(row)

\* observe_intake with the row's version, then mark_intake_scan_seen; nothing is written
\* for a package that is as it was.
Record ==
    /\ s.at = "record"
    /\ s' = [s EXCEPT !.at = "look", !.todo = @ \ {s.p}, !.seen = @ \cup {s.p}]
    /\ IF ObservationUnchanged(s.p, s.got)
       THEN UNCHANGED <<storeVars, stale>>
       ELSE /\ pkg[s.p].there => s.p \in fresh["scan"]
            /\ Observed(s.p, s.got)
            /\ IF Changed(s.p, s.got) THEN Stales(s.p) ELSE UNCHANGED stale
    /\ stable' = [stable EXCEPT ![s.p] = Remembered(s.p, pkg'[s.p], s.got)]
    /\ UNCHANGED <<stop, r, h>> /\ Quiet

\* What the watcher reported meanwhile makes the scan incomplete; a complete one lists
\* the packages it did not see.
\* Mutation of Unseen: only the watcher ever reports that a folder went.
UnseenNever == {}

Unseen == {p \in Packages \ s.seen : pkg[p].there /\ pkg[p].st # "missing"}
Later ==
    /\ s.at = "look" /\ (s.todo = {} \/ stop.set)
    /\ \E B \in SUBSET hints :
         LET whole == s.whole /\ ~stop.set /\ B = {} /\ ~lost
             rows  == IF whole THEN Unseen ELSE Batch(B) IN
         /\ hints' = hints \ B
         /\ s' = [s EXCEPT !.at = IF whole THEN "missing" ELSE "late", !.todo = rows,
                           !.whole = whole]
         /\ Reads("scan", rows)
    /\ UNCHANGED <<root, scan, pkg, op, film, disk, absent, changes, lost, hub, stop,
                   stable, r, h, stale, troubles>>

Missing ==
    /\ s.at = "missing" /\ s.todo # {}
    /\ LET p == CHOOSE p \in s.todo : TRUE IN
         s' = [s EXCEPT !.todo = @ \ {p}] /\ Notice(p, TRUE)
    /\ UNCHANGED <<stop, r, h>> /\ Quiet

\* A row another thread has written meanwhile, or a failure: the scan is not complete.
Raced(p) == p \notin fresh["scan"] /\ pkg[p].there
ScanFails ==
    /\ \/ s.at \in {"dirty", "late", "missing"} /\ s.todo # {}
          /\ Raced(CHOOSE p \in s.todo : TRUE) /\ UNCHANGED troubles
       \/ s.at = "record" /\ Raced(s.p) /\ UNCHANGED troubles
       \/ s.at \in {"dirty", "look", "record", "late", "missing"} /\ Trouble
    /\ s' = [s EXCEPT !.at = "finish", !.whole = FALSE, !.todo = {}]
    /\ UNCHANGED <<storeVars, files, lost, hub, stop, stable, r, h, stale>>

\* finish_intake_root_scan is always tried.
FinishScan ==
    /\ (s.at \in {"late", "missing"} /\ s.todo = {}) \/ s.at = "finish"
    /\ ScanFinished("scan", s.whole) /\ s' = Scanning0
    /\ stop' = [stop EXCEPT !.held = IF scan.by = "scan" THEN FALSE ELSE @]
    /\ fresh' = [fresh EXCEPT !["scan"] = {}]
    /\ UNCHANGED <<root, pkg, op, film, stable, r, h, stale>> /\ Quiet

\* An observation that cannot be closed keeps its handles and ends the discovery.
Unresolved ==
    /\ s.at \in {"dirty", "look"} /\ Trouble
    /\ s' = [s EXCEPT !.at = "finish", !.whole = FALSE, !.todo = {}]
    /\ stop' = [stop EXCEPT !.set = TRUE, !.kept = TRUE]
    /\ UNCHANGED <<storeVars, files, lost, hub, stable, r, h, stale>>

-----------------------------------------------------------------------------
(* The snapshot thread: run_ready_once and SnapshotRunner.run.              *)

Running == UNCHANGED <<files, hub, lost, stop, s>>
Goes(at) == r' = [r EXCEPT !.at = at]
\* The run is over; the signature it started from is dropped.
Ends(owns, result) ==
    /\ r' = [Resting EXCEPT !.owns = owns, !.result = result]
    /\ stable' = [stable EXCEPT ![r.p] = Unknown]

\* run_ready_once; run reads the row, its observation and the policy.
RunReady(p) ==
    /\ hub = "serving" /\ Ready(p)
    /\ r' = [Resting EXCEPT !.at = "begin", !.p = p]
    /\ Reads("run", {p})
    /\ UNCHANGED <<root, scan, pkg, op, film, stable, h, stale, troubles>> /\ Running

\* begin_intake_snapshot, or the run is refused.
Begin ==
    /\ r.at = "begin"
    /\ IF r.p \in fresh["run"] /\ Admissible(r.p)
       THEN /\ Begun(r.p) /\ stale' = FALSE /\ h' = NoHelper
            /\ r' = [r EXCEPT !.at = "work", !.owns = TRUE] /\ UNCHANGED stable
       ELSE Ends(FALSE, NoResult) /\ UNCHANGED <<storeVars, h, stale>>
    /\ UNCHANGED troubles /\ Running

\* It is refused as well when the last complete scan has become older than
\* rescan_seconds.
BeginLate ==
    /\ r.at = "begin" /\ Trouble
    /\ Ends(FALSE, NoResult) /\ UNCHANGED <<storeVars, h, stale>> /\ Running

\* get_intake_work: a package that changed since needs no process at all.
GetWork ==
    /\ r.at = "work"
    /\ IF Launchable THEN Goes("launch")
       ELSE r' = [r EXCEPT !.at = "drop",
                    !.result = [NoResult EXCEPT !.proof = "no_process",
                                                !.why = "source_changed"]]
    /\ UNCHANGED <<storeVars, stable, h, stale, troubles>> /\ Running

\* start_snapshot_suspended
Launch ==
    /\ r.at = "launch" /\ Goes("record")
    /\ \/ h' \in Launches /\ UNCHANGED troubles
       \/ h' \in FailedLaunches /\ Trouble
    /\ UNCHANGED <<storeVars, stable, stale>> /\ Running

\* _record: births and doubts reach the store before anything is done with them.
Records(from, to) ==
    /\ r.at = from /\ OwnerRecorded(h.births, h.fault) /\ Goes(to)
    /\ UNCHANGED <<stable, h, stale, troubles>> /\ Running
RecordOwner == Records("record", "resume")
RecordProbe == Records("probe", "ack")

\* The run goes on to settle; what went wrong is its reason.
Aborts(why) == r' = [r EXCEPT !.at = "settle", !.why = why]

ResumeHelper ==
    /\ r.at = "resume"
    /\ IF ~r.cancelled /\ Resumable(h) THEN h' = Resume(h) /\ Goes("check")
       ELSE Aborts("failed") /\ UNCHANGED h
    /\ UNCHANGED <<storeVars, stable, stale, troubles>> /\ Running

\* The loop asks first whether the result could still be published.
CheckAllowed ==
    /\ r.at = "check"
    /\ IF r.cancelled THEN Aborts("failed")
       ELSE IF ~op.allowed THEN Aborts("source_changed") ELSE Goes("wait")
    /\ UNCHANGED <<storeVars, stable, h, stale, troubles>> /\ Running

\* next_event
NextEvent ==
    /\ r.at = "wait"
    /\ \/ h.event = "probe" /\ ~h.stopping /\ ~h.fault
          /\ h' = ObserveProbe(h) /\ Goes("probe")
       \/ h.event = "result" /\ h' = Taken(h) /\ Aborts("complete")
       \/ h.event \in {"failed", "source_changed"} /\ h' = Taken(h) /\ Aborts(h.event)
       \/ h.event \in {"none", "probe"} /\ (h.stopping \/ h.fault \/ h.proc = "gone")
          /\ Aborts("failed") /\ UNCHANGED h
    /\ UNCHANGED <<storeVars, stable, stale, troubles>> /\ Running

\* No event before the deadline of the phase: a fault that is never forgotten.
Timeout ==
    /\ r.at = "wait" /\ h.event = "none" /\ Trouble
    /\ h' = Deadline(h) /\ Aborts("failed")
    /\ UNCHANGED <<storeVars, stable, stale>> /\ Running

\* ack_probe, unless the run was cancelled or its source changed meanwhile.
AckProbe ==
    /\ r.at = "ack"
    /\ IF r.cancelled \/ ~op.allowed \/ h.stopping \/ h.fault
       THEN Aborts("source_changed") /\ UNCHANGED h
       ELSE Goes("check") /\ h' = IF h.proc = "live" THEN Acked(h) ELSE h
    /\ UNCHANGED <<storeVars, stable, stale, troubles>> /\ Running

\* settle: ask the Job to end, then wait for every process, at most thirty seconds.
SettleStarts ==
    /\ r.at = "settle" /\ h' = RequestStop(h) /\ Goes("gone")
    /\ UNCHANGED <<storeVars, stable, stale, troubles>> /\ Running
SettleEnds ==
    /\ r.at = "gone" /\ Goes("census")
    /\ \/ ~Alive(h) /\ UNCHANGED <<h, troubles>>
       \/ Alive(h) /\ Trouble /\ h' = Fault(h)
    /\ UNCHANGED <<storeVars, stable, stale>> /\ Running

\* _record keeps the births of the final census; the second settle then is the exit
\* proof the result rests on.
Why == IF r.cancelled THEN "cancelled" ELSE r.why
Census ==
    /\ r.at = "census" /\ OwnerRecorded(h.births, h.fault)
    /\ r' = [r EXCEPT !.at = "persist", !.retried = FALSE,
               !.result = [proof |-> ExitProof(h), births |-> h.births, copy |-> h.read,
                           why |-> Why,
                           snap |-> Why = "complete" /\ ExitProof(h) = "stopped"]]
    /\ UNCHANGED <<stable, h, stale, troubles>> /\ Running

\* Mutation of RecordFails: the run goes on without the record.
RecordFailsOn ==
    /\ r.at \in {"record", "probe", "census"} /\ Trouble
    /\ IF r.at = "census" THEN Ends(TRUE, NoResult)
       ELSE Goes(IF r.at = "record" THEN "resume" ELSE "ack") /\ UNCHANGED stable
    /\ UNCHANGED <<storeVars, h, stale>> /\ Running

\* A record the store refuses (another write came between) or cannot take: before the
\* settle the run still ends orderly, after it only a restart resolves the operation.
RecordFails ==
    /\ r.at \in {"record", "probe", "census"} /\ Trouble
    /\ IF r.at = "census" THEN Ends(TRUE, NoResult)
       ELSE Aborts("failed") /\ UNCHANGED stable
    /\ UNCHANGED <<storeVars, h, stale>> /\ Running

-----------------------------------------------------------------------------
(* _persist_terminal: two attempts, then the result waits to be retried.    *)

\* The run still holds its lock when no process was ever created.
Persisting == r.at \in {"persist", "drop"}

Persist ==
    /\ Persisting /\ op.proof = "none" /\ Finished(r.result) /\ Goes("reclaim")
    /\ UNCHANGED <<stable, h, stale, troubles>> /\ Running

\* A reply lost after the commit is found on the next attempt, by the same exit proof.
FindReply ==
    /\ Persisting /\ op.proof = r.result.proof /\ Goes("reclaim")
    /\ UNCHANGED <<storeVars, stable, h, stale, troubles>> /\ Running

\* The private copy of a failed run is reclaimed, and the slot is given up unless the
\* exit is unknown.
Close ==
    /\ r.at = "reclaim"
    /\ Reclaimed(op.st \in {"failed", "cancelled"})
    /\ Ends(op.unres, NoResult) /\ h' = IF op.unres THEN h ELSE NoHelper
    /\ UNCHANGED <<root, scan, pkg, op, fresh, stale, troubles>> /\ Running

Attempted == IF r.retried THEN Ends(TRUE, r.result)
             ELSE r' = [r EXCEPT !.retried = TRUE] /\ UNCHANGED stable
\* The store fails one attempt, after its commit, or before it; or it fails both.
ReplyLost ==
    /\ Persisting /\ op.proof = "none" /\ Trouble
    /\ Finished(r.result) /\ Attempted
    /\ UNCHANGED <<h, stale>> /\ Running
StoreBusy ==
    /\ Persisting /\ Trouble /\ (Attempted \/ Ends(TRUE, r.result))
    /\ UNCHANGED <<storeVars, h, stale>> /\ Running

\* A candidate the store rejects is recorded as blocked; the exit proof stays.
Rejected ==
    /\ r.at = "persist" /\ r.result.snap /\ ~r.retried /\ op.proof = "none" /\ Trouble
    /\ r' = [r EXCEPT !.retried = TRUE, !.result.snap = FALSE, !.result.why = "blocked"]
    /\ UNCHANGED <<storeVars, stable, h, stale>> /\ Running

\* retry_settlement, from the discovery loop.
RetrySettlement ==
    /\ hub = "serving" /\ ~stop.set /\ r.at = "idle" /\ Pending
    /\ r' = [r EXCEPT !.at = "persist", !.retried = FALSE, !.p = op.p]
    /\ UNCHANGED <<storeVars, stable, h, stale, troubles>> /\ Running

-----------------------------------------------------------------------------
(* The helper process.                                                      *)

Helping(next) ==
    /\ h' = next
    /\ UNCHANGED <<storeVars, hub, lost, stop, s, stable, r, stale, files>>
\* The package as the helper finds it.
Folder == IF op.p \in absent THEN NoVersion ELSE disk[op.p]

HelperStep ==
    /\ UNCHANGED troubles
    /\ \/ Working(h, "start") /\ Helping(Copies(h, Folder, op.dig))
       \/ Working(h, "copying") /\ Helping(CopiesRest(h, Folder, op.dig))
       \/ Working(h, "copied") /\ Helping(Announces(h))
       \/ Working(h, "probed") /\ Helping(Builds(h, Folder, op.dig))
       \/ Working(h, "built") /\ Helping(PublishesCopy(h, Folder, op.dig))

\* It may fail by itself; a Job that was terminated ends it wherever it is.
HelperFails == h.proc = "live" /\ Trouble /\ Helping(Fails(h, "failed"))
Killed == h.stopping /\ Alive(h) /\ Helping([h EXCEPT !.proc = "gone"]) /\ UNCHANGED troubles

-----------------------------------------------------------------------------
(* The stopping thread: stop and _request_stop.                             *)

Stopping == UNCHANGED <<files, hub, lost, s, stable, stale>>

\* Shutdown asks the intake to stop; the hub may end there for good.
Stop ==
    /\ hub = "serving" /\ stop.at = "none"
    /\ changes < MaxChange /\ changes' = changes + 1
    /\ stop' = [stop EXCEPT !.set = TRUE, !.at = "fence"]
    /\ UNCHANGED <<storeVars, disk, absent, hints, hub, lost, s, stable, r, h, stale, troubles>>

\* The fence reads the scan row and begins a scan nobody will run; a scan that began or
\* ended in between is waited for and the fence is put once more.
FenceReads ==
    /\ stop.at = "fence" /\ (stop.tried => s.at = "idle")
    /\ stop' = [stop EXCEPT !.at = "begin", !.held = TRUE]
    /\ UNCHANGED <<storeVars, r, h, troubles>> /\ Stopping
FenceBegins ==
    /\ stop.at = "begin"
    /\ IF stop.held THEN ScanBegun("stop") /\ stop' = [stop EXCEPT !.at = "cancel", !.ok = TRUE]
       ELSE UNCHANGED scan /\
            stop' = IF stop.tried THEN [stop EXCEPT !.at = "cancel"]
                    ELSE [stop EXCEPT !.at = "fence", !.tried = TRUE]
    /\ UNCHANGED <<root, pkg, op, film, fresh, r, h, troubles>> /\ Stopping
FenceFails ==
    /\ stop.at \in {"fence", "begin"} /\ Trouble
    /\ stop' = [stop EXCEPT !.at = "cancel"]
    /\ UNCHANGED <<storeVars, r, h>> /\ Stopping

\* SnapshotRunner.stop needs the runner's lock, which run holds until the launch is over.
RunnerLock == r.at \notin {"work", "launch", "drop"}
StopRunner ==
    /\ stop.at = "cancel" /\ RunnerLock
    /\ IF r.owns
       THEN /\ IF op.st \in {"completed", "cancelled", "failed"}
               THEN UNCHANGED storeVars ELSE Cancelled
            /\ r' = [r EXCEPT !.cancelled = TRUE]
            /\ stop' = [stop EXCEPT !.at = "kill"]
       ELSE UNCHANGED <<storeVars, r>> /\ stop' = [stop EXCEPT !.at = "done"]
    /\ UNCHANGED <<h, troubles>> /\ Stopping

\* The run records at the same time: the cancellation is refused and the stop is not ok.
StopRefused ==
    /\ stop.at = "cancel" /\ r.owns /\ r.at \in {"record", "probe", "census", "persist"}
    /\ RunnerLock
    /\ stop' = [stop EXCEPT !.at = "done", !.ok = FALSE]
    /\ UNCHANGED <<storeVars, r, h, troubles>> /\ Stopping

StopNative ==
    /\ stop.at = "kill" /\ stop' = [stop EXCEPT !.at = "done"]
    /\ h' = IF r.owns /\ h # NoHelper THEN RequestStop(h) ELSE h
    /\ UNCHANGED <<storeVars, r, troubles>> /\ Stopping

\* Mutation of StopAnswers: what the runner retains is not asked.
StopAnswersFenced ==
    /\ stop.at = "done" /\ s.at = "idle" /\ r.at = "idle"
    /\ stop' = [stop EXCEPT !.at = IF stop.ok /\ ~stop.kept /\ ~lost THEN "clean" ELSE "unclean"]
    /\ UNCHANGED <<storeVars, r, h, troubles>> /\ Stopping

\* stop's answer, when the threads have ended: clean only if nothing is retained.
StopAnswers ==
    /\ stop.at = "done" /\ s.at = "idle" /\ r.at = "idle"
    /\ stop' = [stop EXCEPT !.at = IF stop.ok /\ ~stop.kept /\ ~r.owns /\ ~lost
                                   THEN "clean" ELSE "unclean"]
    /\ UNCHANGED <<storeVars, r, h, troubles>> /\ Stopping

-----------------------------------------------------------------------------

Discovery ==
    \/ StartScan \/ Dirty \/ Walk \/ Look \/ LookInPart \/ Record \/ Later
    \/ Missing \/ ScanFails \/ FinishScan \/ Unresolved
Snapshot ==
    \/ \E p \in Packages : RunReady(p)
    \/ Begin \/ BeginLate \/ GetWork \/ Launch \/ RecordOwner \/ ResumeHelper \/ CheckAllowed
    \/ NextEvent \/ Timeout \/ RecordProbe \/ AckProbe \/ SettleStarts \/ SettleEnds
    \/ Census \/ RecordFails \/ Persist \/ FindReply \/ Close
    \/ ReplyLost \/ StoreBusy \/ Rejected \/ RetrySettlement
Helper == HelperStep \/ HelperFails \/ Killed
Stopper ==
    FenceReads \/ FenceBegins \/ FenceFails \/ StopRunner \/ StopRefused \/ StopNative
    \/ StopAnswers
Boot == Open \/ SettleIntake \/ Configure \/ Start
World == Exit \/ WatcherFails \/ Stop \/ \E p \in Packages : Change(p) \/ Plan(p)

Next == Discovery \/ Snapshot \/ Helper \/ Stopper \/ Boot \/ World

Spec == Init /\ [][Next]_vars

\* Every thread runs, the operating system ends a terminated Job, the hub is started again.
FairSpec ==
    /\ Spec
    /\ WF_vars(Discovery) /\ WF_vars(Snapshot) /\ WF_vars(Helper) /\ WF_vars(Stopper)
    /\ WF_vars(Boot)

-----------------------------------------------------------------------------
(* What must hold.                                                          *)

TypeOK ==
    /\ root.rev \in Nat /\ scan.by \in {"none", "scan", "stop"}
    /\ hub \in {"down", "opened", "settled", "configured", "serving"}
    /\ stop.at \in {"none", "fence", "begin", "cancel", "kill", "done", "clean", "unclean"}
    /\ s.at \in {"idle", "dirty", "look", "record", "late", "missing", "finish"}
    /\ r.at \in {"idle", "begin", "work", "launch", "drop", "record", "resume", "check",
                  "wait", "probe", "ack", "settle", "gone", "census", "persist", "reclaim"}
    /\ op.st \in {"none", "admitted", "running", "stopping", "unknown", "completed",
                   "failed", "cancelled"}
    /\ \A p \in Packages : pkg[p].st \in {"receiving", "waiting", "snapshotting", "ready",
                                         "rejected", "missing", "unknown"}
    /\ troubles <= MaxTrouble /\ changes <= MaxChange

\* The copy a film is made from is there, and all of it is of the one version of the
\* folder that was admitted, whatever was written into the folder meanwhile.
InputWhole ==
    \A p \in Packages : film[p].snap.gen > 0 => film[p].copy = {film[p].snap.dig}

\* What the planner may act on is the newest snapshot of the package as the store last
\* saw it: a notice, a change, a new directory or a new configuration voids it.
ContextCurrent ==
    \A p \in Packages : film[p].ctx = "ready" =>
        /\ pkg[p].st = "ready" /\ ~pkg[p].dirty
        /\ film[p].snap = pkg[p].snap /\ film[p].snap.gen = pkg[p].gen
        /\ film[p].snap.dig = pkg[p].dig /\ film[p].snap.rev = root.rev

\* A helper that may still run has the one slot of the store: its operation is open and
\* of this boot; it never runs before its birth, nor its probe before the probe's, is
\* recorded.  No package is left busy without an open operation.
SlotHeld ==
    /\ Alive(h) => op.unres /\ op.mine /\ r.owns
    /\ h.proc = "live" => op.births >= 1
    /\ h.proc = "live" /\ h.step \in {"probed", "built"} => op.births = 2
    /\ \A p \in Packages : pkg[p].busy => op.unres /\ op.p = p

\* A stop that answered "clean" left no helper, no open operation, no thread that will
\* open one, and a store that wants a scan before anything else is admitted.
CleanStop ==
    stop.at = "clean" => ~Alive(h) /\ ~op.unres /\ ~r.owns /\ ~Pending /\ scan.required

\* A snapshot is published only if nothing was reported or seen of its package since it
\* was admitted.
PublishedAsAdmitted ==
    [][\A p \in Packages : film'[p].snap # film[p].snap => ~stale]_vars

\* The service ended, is ending, or says that it retains something; or its watcher failed.
Ended == hub # "serving" \/ stop.set \/ lost
Retained == r.owns /\ r.at = "idle"

\* A context made from a folder that changed since is voided, by a notification or by the
\* next rescan.
ChangeCaught ==
    \A p \in Packages :
        (film[p].ctx = "ready" /\ (p \in absent \/ disk[p] # film[p].snap.dig))
            ~> (film[p].ctx # "ready" \/ Ended)

\* A folder that stays as it is gets in, or is rejected, unless the service ends or says
\* that it cannot go on, or the folder's row has lost its identity.
In(p) == pkg[p].st \in {"ready", "rejected"} /\ pkg[p].dig = disk[p]
GetsIn ==
    \A p \in Packages :
        hub = "serving" ~> (In(p) \/ p \in absent \/ Ended \/ Retained
                            \/ (pkg[p].there /\ ~pkg[p].named))

\* What the planner sees is whole and current, and the helper's slot and a
\* clean stop say what is true.
IntakeTrue == TypeOK /\ InputWhole /\ ContextCurrent /\ SlotHeld /\ CleanStop

\* Changes are noticed, and what holds still gets in.
IntakeMoves == ChangeCaught /\ GetsIn
=============================================================================
