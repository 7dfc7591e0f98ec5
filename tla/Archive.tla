------------------------------- MODULE Archive ------------------------------
(***************************************************************************)
(* The end of a film's line: the operator's confirmation, the copy of the  *)
(* finished package into the library and the deletion of what it replaces  *)
(* (workflow/finalize.py, library_archive.py, approval_store.py).          *)
(*                                                                         *)
(* Three threads of the hub work on it: the API thread (confirmation), the *)
(* dispatch thread (Finalizer.run_once: one film after the other) and the  *)
(* library's worker (one copy at a time, journalled).  They meet only in   *)
(* two databases.  Around them the INBOX may change, a folder may appear   *)
(* on the NAS, reads, copies and writes may fail, and the hub may stop at  *)
(* any step.  The films of one INBOX package are modelled.                 *)
(***************************************************************************)
EXTENDS Naturals, FiniteSets, Sequences

CONSTANTS
    Films,          \* the films of the package
    Sources,        \* its originals in the INBOX
    Inputs,         \* the originals each film was made from; some are shared
    Paired,         \* films whose operator may add a second target
    NewActor,       \* films archived under an actor folder that is to be made
    MaxConfirm,     \* bound: confirmations of each film
    MaxRev,         \* bound: input revisions of a film
    MaxTrouble      \* bound: troubles (changes, failures, restarts)

ASSUME ArchiveAssumption ==
    /\ IsFiniteSet(Films) /\ Films # {} /\ IsFiniteSet(Sources)
    /\ Inputs \in [Films -> SUBSET Sources]
    /\ Paired \subseteq Films /\ NewActor \subseteq Films
    /\ MaxConfirm \in [Films -> Nat] /\ MaxRev \in Nat \ {0} /\ MaxTrouble \in Nat

VARIABLES
    \* the workflow store
    pkg,            \* intake_packages: state and dirty; "rescan" after a restart
    rev, scraped, removed,  \* films: input revision, scrape stage, removed_at
    ctx, ctxN,      \* films.context_state, current_context_revision
    appr,           \* the approval of the current context
    arch, op,       \* the archive stage and its last operation
    receipt,        \* the archive receipt
    clean,          \* the two cleanup stages with their operation's items
    retained,       \* source_refs with retained = 1
    \* library.db, the engine and its worker
    task,           \* archive_tasks and archive_events, by film and confirmation
    recorded,       \* archived_targets
    queue, todo,    \* tasks in memory: queued, and to be recovered
    broken, frozen, \* the engine stopped after a failed write
    lost,           \* history: tasks a failed read left as they were
    wk,             \* what the worker does
    \* threads of the hub
    conf,           \* a confirmation between its two transactions
    fin,            \* a cleanup the dispatch thread is in the middle of
    \* files
    src, work, nas, \* originals, finished packages, library folders
    dirs, snap,     \* films' private work folders, the package's snapshot
    markers,        \* reclaim/<film>
    troubles

pkgRow == pkg
filmRow == <<rev, scraped, removed, ctx, ctxN, appr>>
stages == <<arch, op, receipt, clean, retained>>
rows == <<task, recorded>>
engine == <<queue, todo, broken, frozen, lost, wk>>
private == <<dirs, snap, markers>>
vars == <<pkgRow, filmRow, stages, rows, engine, conf, fin, src, work, nas, private,
          troubles>>

Scopes == {"workcopy", "input"}
Revs == 1 .. MaxRev
Confirms(f) == 1 .. MaxConfirm[f]
None == [second |-> FALSE, rev |-> 0]
Targets(second) == IF second THEN {1, 2} ELSE {1}
Members(f, scope) == IF scope = "input" THEN Inputs[f] ELSE {"package"}
Items == Sources \cup {"package"}
NoTask == [status |-> "none", second |-> FALSE, rev |-> 0, mkdir |-> {},
           tgt |-> [t \in {1, 2} |-> "pending"], moved |-> {},
           log |-> [t \in {1, 2} |-> {}]]
Sleeping == [at |-> "idle", f |-> CHOOSE f \in Films : TRUE, n |-> 0, t |-> 1,
             tgt |-> NoTask.tgt]
Nothing == [i \in {} |-> "pending"]
Resting == [at |-> "idle", f |-> CHOOSE f \in Films : TRUE, scope |-> "input",
            got |-> Nothing]
Pending == [st |-> "pending", items |-> Nothing]

\* The source references that the films' input manifests of revision r add.
Refs(r) == UNION {{<<f, r, s>> : s \in Inputs[f]} : f \in Films}

Init ==
    /\ pkg = "ready"
    /\ rev = [f \in Films |-> 1] /\ scraped = Films /\ removed = {}
    /\ ctx = [f \in Films |-> "none"] /\ ctxN = [f \in Films |-> 0]
    /\ appr = [f \in Films |-> None]
    /\ arch = [f \in Films |-> "pending"]
    /\ op = [f \in Films |-> [st |-> "none", n |-> 0, rev |-> 0]]
    /\ receipt = [f \in Films |-> [n |-> 0, rev |-> 0, second |-> FALSE]]
    /\ clean = [f \in Films |-> [s \in Scopes |-> Pending]]
    /\ retained = Refs(1)
    /\ task = [f \in Films |-> [n \in Confirms(f) |-> NoTask]]
    /\ recorded = [f \in Films |-> [t \in {1, 2} |-> 0]]
    /\ queue = <<>> /\ todo = {} /\ broken = FALSE /\ frozen = {} /\ lost = {}
    /\ wk = Sleeping
    /\ conf = [f \in Films |-> None] /\ fin = Resting
    /\ src = [s \in Sources |-> "same"]
    /\ work = [f \in Films |-> [r \in Revs |-> "whole"]]
    /\ nas = [f \in Films |-> [t \in {1, 2} |-> 0]]
    /\ dirs = Films /\ snap = TRUE /\ markers = {}
    /\ troubles = 0

Trouble == troubles < MaxTrouble /\ troubles' = troubles + 1
Live == Films \ removed

\* A folder of the library: 0 absent, a revision for the package made from it, Foreign
\* for anything else.
Foreign == MaxRev + 1

SourceAdmissible(f) == f \notin removed /\ pkg = "ready"

\* This engine committed the package made from revision r into the folder.
OwnCopy(f, t, r) == nas[f][t] = r /\ recorded[f][t] = r

-----------------------------------------------------------------------------
(* The API thread.                                                         *)

\* LibraryArchive.target: the folder is absent or holds this engine's copy.
Free(f, t, r) == nas[f][t] = 0 \/ OwnCopy(f, t, r)

\* put_approval_context: a new context, which no approval covers yet.
PutContext(f) ==
    /\ ctxN' = [ctxN EXCEPT ![f] = @ + 1] /\ ctx' = [ctx EXCEPT ![f] = "ready"]
    /\ appr' = [appr EXCEPT ![f] = None]

\* confirm: every target is free and every member as it was; then the context.
ConfirmPut(f, second) ==
    /\ f \in scraped \ removed /\ arch[f] \in {"pending", "failed"} /\ op[f].st # "open"
    /\ second => f \in Paired
    /\ \A t \in Targets(second) : Free(f, t, rev[f])
    /\ \A s \in Inputs[f] : src[s] = "same"
    /\ work[f][rev[f]] = "whole"
    /\ SourceAdmissible(f) /\ ctxN[f] < MaxConfirm[f]
    /\ PutContext(f)
    /\ conf' = [conf EXCEPT ![f] = [second |-> second, rev |-> rev[f]]]
    /\ UNCHANGED <<pkg, rev, scraped, removed, stages, rows, engine, fin, src, work, nas,
                   private, troubles>>

\* approve: the film's version is still that of the context.
ConfirmApprove(f) ==
    /\ conf[f] # None /\ SourceAdmissible(f) /\ ctx[f] = "ready"
    /\ appr' = [appr EXCEPT ![f] = conf[f]] /\ conf' = [conf EXCEPT ![f] = None]
    /\ UNCHANGED <<pkg, rev, scraped, removed, ctx, ctxN, stages, rows, engine, fin, src,
                   work, nas, private, troubles>>

\* remove_film; it releases the film's hold on shared originals.
RemoveFilm(f) ==
    /\ f \in Live /\ op[f].st = "none" /\ clean[f] = [s \in Scopes |-> Pending]
    /\ ~(appr[f] # None /\ ctx[f] = "ready")
    /\ Trouble
    /\ removed' = removed \cup {f} /\ conf' = [conf EXCEPT ![f] = None]
    /\ retained' = {x \in retained : x[1] # f}
    /\ UNCHANGED <<pkg, rev, scraped, ctx, ctxN, appr, arch, op, receipt, clean, rows,
                   engine, fin, src, work, nas, private>>

-----------------------------------------------------------------------------
(* The dispatch thread: archive.                                           *)

\* _binding_manifests: the approval is for the film's current manifests.
Bound(f) == appr[f] # None /\ appr[f].rev = rev[f]

\* _approved: and its context stands; a change of the source may be allowed.
Approved(f, allow) ==
    /\ Bound(f)
    /\ ctx[f] = "ready" \/ (allow /\ ctx[f] = "srcinv")

\* _external_attempt: one unresolved operation of a kind, for the current revision.
OpenAttempt(f) ==
    /\ arch[f] \in {"pending", "failed"} /\ op[f].st # "open"
    /\ arch' = [arch EXCEPT ![f] = "running"]
    /\ op' = [op EXCEPT ![f] = [st |-> "open", n |-> ctxN[f], rev |-> rev[f]]]

\* run_once visits the films that list_jobs shows: their scrape of the current revision
\* has succeeded.
Listed(f) == f \in scraped \ removed

\* begin_archive; an approval is used once.
BeginArchive(f) ==
    /\ Listed(f) /\ fin.at = "idle" /\ op[f].n # ctxN[f]
    /\ SourceAdmissible(f) /\ Approved(f, FALSE) /\ OpenAttempt(f)
    /\ UNCHANGED <<pkg, filmRow, receipt, clean, retained, rows, engine, conf, fin, src,
                   work, nas, private, troubles>>

\* Mutation of ExternalFact: the stage takes the result whatever its revision.
ExternalFactAnyRevision(f, status) == arch' = [arch EXCEPT ![f] = status]

\* The stage takes the result of its operation while the film is still at the
\* operation's revision and context.
ExternalFact(f, status) ==
    arch' = [arch EXCEPT ![f] =
                IF rev[f] = op[f].rev /\ ctxN[f] = op[f].n THEN status ELSE @]

\* fail_archive.
Fail(f) ==
    /\ op' = [op EXCEPT ![f].st = "failed"] /\ ExternalFact(f, "failed")
    /\ UNCHANGED receipt

\* Mutation of Enqueue: the task is queued again whether or not it is.
EnqueueTwice(f, n) == queue' = Append(queue, <<f, n>>)

Enqueue(f, n) ==
    queue' = IF \E k \in DOMAIN queue : queue[k] = <<f, n>> THEN queue
             ELSE Append(queue, <<f, n>>)

\* What lookup answers.
Looked(f) == IF <<f, op[f].n>> \in frozen THEN "needs_review" ELSE task[f][op[f].n].status

\* archive: the row, then the queue; nothing while the engine is stopped.
Accepted(f) ==
    /\ ~broken
    /\ task' = [task EXCEPT ![f][op[f].n] =
                  [NoTask EXCEPT !.status = "queued", !.second = appr[f].second,
                                 !.rev = op[f].rev]]
    /\ Enqueue(f, op[f].n)

\* _submit: the task is accepted once under the operation's key; a refusal needs a
\* new confirmation.
Submit(f) ==
    /\ Listed(f) /\ op[f].st = "open" /\ Looked(f) = "none" /\ fin.at = "idle"
    /\ \/ /\ Accepted(f)
          /\ UNCHANGED <<stages, todo, broken, frozen, lost, wk, troubles>>
       \/ /\ ~broken /\ Trouble /\ Fail(f)
          /\ UNCHANGED <<clean, retained, task, engine>>
    /\ UNCHANGED <<pkg, filmRow, recorded, conf, fin, src, work, nas, private>>

\* accept_archive_receipt.
TakeReceipt(f) ==
    /\ op' = [op EXCEPT ![f].st = "verified"] /\ ExternalFact(f, "succeeded")
    /\ receipt' = [receipt EXCEPT ![f] = [n |-> op[f].n, rev |-> op[f].rev,
                                          second |-> appr[f].second]]

\* _accept: a completed task's receipt is for the files and targets approved.
Accept(f) ==
    /\ Listed(f) /\ op[f].st = "open" /\ Looked(f) = "completed" /\ fin.at = "idle"
    /\ TakeReceipt(f)
    /\ UNCHANGED <<pkg, filmRow, clean, retained, rows, engine, conf, fin, src, work, nas,
                   private, troubles>>

\* _poll.
PollFailed(f) ==
    /\ Listed(f) /\ op[f].st = "open" /\ Looked(f) \in {"failed", "needs_review"}
    /\ fin.at = "idle" /\ Fail(f)
    /\ UNCHANGED <<pkg, filmRow, clean, retained, rows, engine, conf, fin, src, work, nas,
                   private, troubles>>

-----------------------------------------------------------------------------
(* The dispatch thread: cleanup.                                           *)

\* _cleanups: this approval's archive is accepted.
Archived(f) == arch[f] = "succeeded" /\ appr[f] # None /\ receipt[f].n = ctxN[f]

PackageArchived == \A f \in Live : arch[f] = "succeeded"

\* _shared_sources: every other reference to an original is covered by its film's
\* approval and receipt.
SharedSources(f) ==
    \A x \in retained :
        (x[1] # f /\ x[3] \in Inputs[f]) =>
            Approved(x[1], FALSE) /\ appr[x[1]].rev = x[2] /\ receipt[x[1]].rev = x[2]

\* Mutation of OthersDone: only this film is looked at.
OthersDoneAlone(f) == TRUE

\* An original may serve films that are not archived yet.
OthersDone(f) == PackageArchived /\ SharedSources(f)

\* begin_cleanup: the operation with its items.
BeginCleanup(f, scope) ==
    /\ clean[f][scope] = Pending /\ Approved(f, TRUE)
    /\ scope = "input" => OthersDone(f)
    /\ clean' = [clean EXCEPT ![f][scope] =
                    [st |-> "running", items |-> [i \in Members(f, scope) |-> "pending"]]]

\* _admit: the work copy first; only a file of it that is being written lets the
\* originals go before.
Admit(f, scope) ==
    /\ fin.at = "idle" /\ Archived(f) /\ BeginCleanup(f, scope)
    /\ IF scope = "input" /\ clean[f]["workcopy"] = Pending THEN Trouble
       ELSE UNCHANGED troubles
    /\ fin' = [at |-> "clean", f |-> f, scope |-> scope, got |-> Nothing]
    /\ UNCHANGED <<pkg, filmRow, arch, op, receipt, retained, rows, engine, conf, src,
                   work, nas, private>>

\* Mutation of Retryable: only members never tried are tried.
RetryablePending(items) == {i \in DOMAIN items : items[i] = "pending"}

Retryable(items) == {i \in DOMAIN items : items[i] \in {"pending", "blocked_writing"}}

\* _cleanup: an operation left open is taken up again.
Resume(f, scope) ==
    /\ fin.at = "idle" /\ Archived(f) /\ clean[f][scope].st \in {"running", "unknown"}
    /\ Retryable(clean[f][scope].items) # {}
    /\ scope = "input" => PackageArchived
    /\ fin' = [at |-> "clean", f |-> f, scope |-> scope, got |-> Nothing]
    /\ UNCHANGED <<pkg, filmRow, stages, rows, engine, conf, src, work, nas, private,
                   troubles>>

Left == Retryable(clean[fin.f][fin.scope].items) \ DOMAIN fin.got

\* What is found under a member's name.
Found(i) == IF fin.scope = "input" THEN src[i] ELSE work[fin.f][rev[fin.f]]

\* _posix_delete and its Windows twin: what was checked is what is deleted.
Unlink(i) ==
    IF fin.scope = "input" THEN src' = [src EXCEPT ![i] = "deleted"] /\ UNCHANGED work
    ELSE work' = [work EXCEPT ![fin.f][rev[fin.f]] = "deleted"] /\ UNCHANGED src

\* delete_exact: identity, size and content are checked on the handle that deletes.
DeleteExact(i) ==
    LET Got(status) == fin' = [fin EXCEPT !.got = [j \in DOMAIN @ \cup {i} |->
                                  IF j = i THEN status ELSE fin.got[j]]]
    IN /\ fin.at = "clean" /\ i \in Left
       /\ \/ Found(i) \in {"same", "whole"} /\ Got("deleted") /\ Unlink(i) /\ UNCHANGED troubles
          \/ /\ Found(i) = "changed" /\ Got("blocked_changed")
             /\ UNCHANGED <<src, work, troubles>>
          \/ /\ Found(i) \in {"gone", "deleted"} /\ Got("already_absent")
             /\ UNCHANGED <<src, work, troubles>>
          \/ /\ Found(i) \in {"same", "whole"} /\ Got("blocked_writing") /\ Trouble
             /\ UNCHANGED <<src, work>>
       /\ UNCHANGED <<pkg, filmRow, stages, rows, engine, conf, nas, private>>

\* The reclaim marker is on disk before the result is recorded; a shutdown records
\* what was done so far.
TouchMarker ==
    /\ fin.at = "clean" /\ fin.got # Nothing
    /\ (Left = {} /\ UNCHANGED troubles) \/ (Left # {} /\ Trouble)
    /\ markers' = markers \cup {fin.f} /\ fin' = [fin EXCEPT !.at = "record"]
    /\ UNCHANGED <<pkg, filmRow, stages, rows, engine, conf, src, work, nas, dirs, snap>>

\* record_cleanup_result: originals that are gone are released for every film.
RecordResult ==
    LET f == fin.f
        Now == [i \in Members(f, fin.scope) |->
                    IF i \in DOMAIN fin.got THEN fin.got[i] ELSE clean[f][fin.scope].items[i]]
        Gone == {i \in DOMAIN fin.got : fin.got[i] \in {"deleted", "already_absent"}}
        done == \A i \in DOMAIN Now : Now[i] \in {"deleted", "already_absent"}
    IN /\ fin.at = "record" /\ fin' = Resting
       /\ clean' = [clean EXCEPT ![f][fin.scope] =
                        [st |-> IF done THEN "succeeded" ELSE "unknown", items |-> Now]]
       /\ retained' = IF fin.scope = "input" THEN {x \in retained : x[3] \notin Gone}
                      ELSE retained
       /\ UNCHANGED <<pkg, filmRow, arch, op, receipt, rows, engine, conf, src, work, nas,
                      private, troubles>>

Cleaned(f, scope) == clean[f][scope].st = "succeeded"
PackageDone(scope) == Live # {} /\ \A g \in Live : Cleaned(g, scope)

\* Contexts that a change of the source invalidates; a confirmation under way then
\* fails its version check.
Invalidate ==
    /\ ctx' = [f \in Films |-> IF ctx[f] = "ready" THEN "srcinv" ELSE ctx[f]]
    /\ conf' = [f \in Films |-> IF ctx[f] = "ready" THEN None ELSE conf[f]]

\* Mutation of ReclaimComplete: a film's own folders are all there is.
ReclaimCompleteOwn(f, leftDirs, leftSnap, leftPkg) == f \notin leftDirs

ReclaimComplete(f, leftDirs, leftSnap, leftPkg) ==
    Cleaned(f, "workcopy") /\ f \notin leftDirs /\ ~leftSnap /\ leftPkg = "retired"

\* _reclaim_film: the film's folders; a locked one stays for the next tick.
ReclaimFilm(f) ==
    \/ /\ dirs' = IF Cleaned(f, "workcopy") THEN dirs \ {f} ELSE dirs
       /\ UNCHANGED troubles
    \/ f \in dirs /\ Cleaned(f, "workcopy") /\ UNCHANGED dirs /\ Trouble

\* remove_work_tree: the snapshot the films share.
ReclaimSnapshot(f) ==
    snap' = (snap /\ ~(Cleaned(f, "workcopy") /\ PackageDone("workcopy")))

\* _retire, retire_archived_package: the package, once every original is cleaned.
Retire(f) ==
    IF Cleaned(f, "input") /\ PackageDone("input") THEN pkg' = "retired" /\ Invalidate
    ELSE UNCHANGED <<pkg, ctx, conf>>

\* _reclaim: the marker goes when nothing is left.
Reclaim(f) ==
    /\ fin.at = "idle" /\ f \in markers
    /\ ReclaimFilm(f) /\ ReclaimSnapshot(f) /\ Retire(f)
    /\ markers' = IF ReclaimComplete(f, dirs', snap', pkg') THEN markers \ {f} ELSE markers
    /\ UNCHANGED <<rev, scraped, removed, ctxN, appr, stages, rows, engine, fin, src, work,
                   nas>>

-----------------------------------------------------------------------------
(* The library's worker: one task after the other.                         *)

At(step) == wk.at = step
Row == task[wk.f][wk.n]
Goes(step) == wk' = [wk EXCEPT !.at = step]
Saves(row) == task' = [task EXCEPT ![wk.f][wk.n] = row]

\* The worker leaves the task with this status.
Ends(row, status) == Saves([row EXCEPT !.status = status]) /\ wk' = Sleeping

\* run_next: the head of the queue leaves it before its row is read.  A row that is not
\* queued is passed over; one that cannot be read stays queued with nobody to run it.
RunNext ==
    /\ At("idle") /\ todo = {} /\ ~broken /\ queue # <<>>
    /\ queue' = Tail(queue)
    /\ LET f == Head(queue)[1]
           n == Head(queue)[2]
       IN \/ /\ wk' = IF task[f][n].status = "queued"
                      THEN [Sleeping EXCEPT !.at = "start", !.f = f, !.n = n] ELSE wk
             /\ UNCHANGED <<lost, troubles>>
          \/ Trouble /\ lost' = lost \cup {Head(queue)} /\ UNCHANGED wk
    /\ UNCHANGED <<pkgRow, filmRow, stages, rows, todo, broken, frozen, conf, fin, src,
                   work, nas, private>>

\* The step after the targets before t are done.
NextStep(tgt) ==
    LET left == {t \in Targets(Row.second) : tgt[t] # "committed"}
        t == IF left = {} THEN 2 ELSE CHOOSE u \in left : \A v \in left : u <= v
        made == \E n \in Confirms(wk.f) : "succeeded" \in task[wk.f][n].mkdir
    IN [wk EXCEPT !.tgt = tgt, !.t = t,
            !.at = CASE left = {} -> "finish"
                     [] t = 1 /\ wk.f \in NewActor /\ ~made -> "mkdir"
                     [] OTHER -> "copy"]

\* _preflight: the package is whole and every target absent or this engine's copy.
Preflight ==
    LET free == \A t \in Targets(Row.second) : Free(wk.f, t, Row.rev)
        tgt == [t \in {1, 2} |-> IF OwnCopy(wk.f, t, Row.rev) THEN "committed" ELSE "pending"]
    IN /\ At("start")
       /\ IF work[wk.f][Row.rev] = "whole" /\ free
          THEN Saves([Row EXCEPT !.status = "running"]) /\ wk' = NextStep(tgt)
          ELSE Ends(Row, "failed")
       /\ UNCHANGED <<recorded, nas>>

\* _mkdir_actor: journalled before and after.
MkdirActor ==
    /\ At("mkdir") /\ Saves([Row EXCEPT !.mkdir = {"started"}]) /\ Goes("made")
    /\ UNCHANGED <<recorded, nas>>

MadeActor ==
    /\ At("made") /\ Saves([Row EXCEPT !.mkdir = @ \cup {"succeeded"}]) /\ Goes("copy")
    /\ UNCHANGED <<recorded, nas>>

\* _copy_target: the staging path is saved before it exists.
CopyStart ==
    /\ At("copy") /\ Saves([Row EXCEPT !.tgt = [wk.tgt EXCEPT ![wk.t] = "copying"]])
    /\ Goes("verify")
    /\ UNCHANGED <<recorded, nas>>

\* _copy and _verify: what was read and what was written hash to the approved files.
Verify ==
    /\ At("verify")
    /\ IF work[wk.f][Row.rev] = "whole"
       THEN /\ Saves([Row EXCEPT !.tgt[wk.t] = "committing", !.log[wk.t] = {"started"}])
            /\ Goes("rename")
       ELSE Ends([Row EXCEPT !.tgt[wk.t] = "failed"], "failed")
    /\ UNCHANGED <<recorded, nas>>

\* Mutation of Rename: the folder is replaced.
RenameReplaces ==
    /\ At("rename") /\ Saves([Row EXCEPT !.moved = @ \cup {wk.t}]) /\ Goes("record")
    /\ nas' = [nas EXCEPT ![wk.f][wk.t] = Row.rev]
    /\ UNCHANGED recorded

\* _commit: never over a folder that is there.
Rename ==
    /\ At("rename")
    /\ IF nas[wk.f][wk.t] = 0
       THEN /\ nas' = [nas EXCEPT ![wk.f][wk.t] = Row.rev]
            /\ Saves([Row EXCEPT !.moved = @ \cup {wk.t}]) /\ Goes("record")
       ELSE /\ Ends([Row EXCEPT !.tgt[wk.t] = "failed", !.log[wk.t] = @ \cup {"failed"}],
                    "failed")
            /\ UNCHANGED nas
    /\ UNCHANGED recorded

\* _record.
RecordTarget ==
    /\ At("record") /\ recorded' = [recorded EXCEPT ![wk.f][wk.t] = Row.rev]
    /\ Goes("event")
    /\ UNCHANGED <<task, nas>>

\* The commit is journalled; the next target.
Committed ==
    /\ At("event") /\ Saves([Row EXCEPT !.log[wk.t] = @ \cup {"succeeded"}])
    /\ wk' = NextStep([wk.tgt EXCEPT ![wk.t] = "committed"])
    /\ UNCHANGED <<recorded, nas>>

Finish ==
    /\ At("finish") /\ Ends([Row EXCEPT !.tgt = wk.tgt], "completed")
    /\ UNCHANGED <<recorded, nas>>

Works ==
    /\ \/ Preflight \/ MkdirActor \/ MadeActor \/ CopyStart \/ Verify \/ Rename
       \/ RecordTarget \/ Committed \/ Finish
    /\ UNCHANGED <<pkgRow, filmRow, stages, queue, todo, broken, frozen, lost, conf, fin, src,
                   work, private, troubles>>

\* An error of the file system: only a commit that may have happened needs review.
WorkFails ==
    /\ Trouble
    /\ \/ /\ wk.at \in {"start", "copy", "verify"} /\ Ends(Row, "failed")
          /\ UNCHANGED nas
       \/ /\ At("made") /\ Ends([Row EXCEPT !.mkdir = @ \cup {"failed"}], "failed")
          /\ UNCHANGED nas
       \/ /\ wk.at \in {"rename", "record"}
          /\ Ends([Row EXCEPT !.tgt[wk.t] = "needs_review", !.log[wk.t] = @ \cup {"failed"}],
                  "needs_review")
          /\ \/ UNCHANGED nas
             \/ nas[wk.f][wk.t] = 0 /\ nas' = [nas EXCEPT ![wk.f][wk.t] = Row.rev]
    /\ UNCHANGED <<pkgRow, filmRow, stages, recorded, queue, todo, broken, frozen, lost, conf,
                   fin, src, work, private>>

\* _freeze: a failed write of library.db stops the engine; its last save may fail too.
Freeze(f, n) ==
    /\ broken' = TRUE /\ frozen' = frozen \cup {<<f, n>>} /\ queue' = <<>> /\ todo' = {}
    /\ task' \in {task, [task EXCEPT ![f][n].status = "needs_review"]}
    /\ wk' = Sleeping
    /\ UNCHANGED <<pkgRow, filmRow, stages, recorded, lost, conf, fin, src, work, nas,
                   private>>

WorkFreezes == wk.at \notin {"idle", "recover"} /\ Trouble /\ Freeze(wk.f, wk.n)

-----------------------------------------------------------------------------
(* A restart of the hub, and recovery.                                     *)

Restart ==
    /\ Trouble
    /\ queue' = <<>> /\ todo' = {} /\ broken' = FALSE /\ frozen' = {} /\ lost' = {}
    /\ wk' = [Sleeping EXCEPT !.at = "recover"]
    /\ conf' = [f \in Films |-> None] /\ fin' = Resting
    /\ pkg' = IF pkg = "ready" THEN "rescan" ELSE pkg
    /\ UNCHANGED <<filmRow, stages, rows, src, work, nas, private>>

\* The tasks that the last run left, and those accepted since.
Unfinished ==
    UNION {{<<f, n>> : n \in {m \in Confirms(f) : task[f][m].status \in {"queued", "running"}}}
           : f \in Films}

\* recover reads them, or fails of the trouble that stopped the hub.
RecoverReads ==
    /\ At("recover") /\ wk' = Sleeping
    /\ \/ todo' = Unfinished /\ UNCHANGED lost
       \/ lost' = Unfinished /\ UNCHANGED todo
    /\ UNCHANGED <<pkgRow, filmRow, stages, rows, queue, broken, frozen, conf, fin, src,
                   work, nas, private, troubles>>

\* _reconcile and _recover_commit: what became of target t.
Reconciled(f, row, t) ==
    LET sure == row.tgt[t] = "committed" \/ "succeeded" \in row.log[t]
        open == row.log[t] = {"started"}
        there == t \in row.moved /\ nas[f][t] = row.rev
    IN CASE sure \/ (open /\ there) -> "committed"
         [] ~sure /\ ((open /\ ~there) \/ "failed" \in row.log[t]) -> "needs_review"
         [] row.log[t] = {} /\ ~sure /\ t = 1 /\ row.mkdir = {"started"} -> "needs_review"
         [] OTHER -> IF row.tgt[t] \in {"copying", "committing"} THEN "failed" ELSE row.tgt[t]

Reconcile(f, n) ==
    LET row == task[f][n]
        now == [t \in {1, 2} |->
                    IF t \in Targets(row.second) THEN Reconciled(f, row, t) ELSE "pending"]
        st == {now[t] : t \in Targets(row.second)}
        found == {t \in Targets(row.second) : now[t] = "committed" /\ row.log[t] = {"started"}}
    IN /\ task' = [task EXCEPT ![f][n] =
                [row EXCEPT !.tgt = now,
                    !.log = [t \in {1, 2} |->
                                IF t \in found THEN @[t] \cup {"succeeded"} ELSE @[t]],
                    !.status = IF st = {"committed"} THEN "completed"
                               ELSE IF "needs_review" \in st THEN "needs_review" ELSE "failed"]]
       /\ recorded' = [recorded EXCEPT ![f] =
                [t \in {1, 2} |-> IF t \in found THEN row.rev ELSE @[t]]]

\* Mutation of RecoverTask: a queued task is not queued again.
RecoverTaskDrops(f, n) ==
    /\ At("idle") /\ <<f, n>> \in todo /\ todo' = todo \ {<<f, n>>}
    /\ IF task[f][n].status = "queued" THEN UNCHANGED <<rows, queue>>
       ELSE Reconcile(f, n) /\ UNCHANGED queue
    /\ UNCHANGED <<pkgRow, filmRow, stages, broken, frozen, lost, wk, conf, fin, src, work,
                   nas, private, troubles>>

\* A queued task is queued again, a running one reconciled; when that fails of the
\* trouble that stopped the hub, the task is left as it is.
RecoverTask(f, n) ==
    /\ At("idle") /\ <<f, n>> \in todo /\ todo' = todo \ {<<f, n>>}
    /\ \/ task[f][n].status = "queued" /\ Enqueue(f, n) /\ UNCHANGED <<rows, lost>>
       \/ task[f][n].status # "queued" /\ Reconcile(f, n) /\ UNCHANGED <<queue, lost>>
       \/ /\ task[f][n].status # "queued" /\ lost' = lost \cup {<<f, n>>}
          /\ UNCHANGED <<rows, queue>>
    /\ UNCHANGED <<pkgRow, filmRow, stages, broken, frozen, wk, conf, fin, src, work, nas,
                   private, troubles>>

\* Of the trouble that stopped the hub.
RecoverFreezes(f, n) ==
    /\ At("idle") /\ <<f, n>> \in todo /\ task[f][n].status = "running" /\ Freeze(f, n)
    /\ UNCHANGED troubles

-----------------------------------------------------------------------------
(* Intake, the disks and the NAS.                                          *)

\* A dirty notice of the watcher; without a change it is a trouble.
Touch ==
    /\ pkg \in {"ready", "rescan"} /\ pkg' = "dirty" /\ Invalidate
    /\ IF \E s \in Sources : src[s] # "same" THEN UNCHANGED troubles ELSE Trouble
    /\ UNCHANGED <<rev, scraped, removed, ctxN, appr, stages, rows, engine, fin, src, work,
                   nas, private>>

\* observe_intake, an unchanged package: the snapshot is taken up again.
RescanSame ==
    /\ pkg \in {"dirty", "rescan"} /\ \A s \in Sources : src[s] = "same"
    /\ pkg' = "ready"
    /\ UNCHANGED <<filmRow, stages, rows, engine, conf, fin, src, work, nas, private,
                   troubles>>

ReceiptHeld == \E f \in Films : receipt[f].n # 0

\* A change of an archived package, or one this model does not follow, is the
\* operator's.
RescanChanged ==
    /\ pkg \in {"dirty", "rescan"}
    /\ \/ ReceiptHeld /\ \E s \in Sources : src[s] # "same"
       \/ \E s \in Sources : src[s] \in {"gone", "deleted"}
       \/ \E s \in Sources : src[s] # "same" /\ \E f \in Live : rev[f] = MaxRev
    /\ pkg' = "attention" /\ Invalidate
    /\ UNCHANGED <<rev, scraped, removed, ctxN, appr, stages, rows, engine, fin, src, work,
                   nas, private, troubles>>

\* A new snapshot becomes the films' next input revision (put_input): the stages
\* start over, what is known of the old revision's originals stays.
Reingest ==
    LET Revised(f) == IF f \in Live THEN rev[f] + 1 ELSE rev[f]
        Changed == {s \in Sources : src[s] = "changed"}
    IN /\ pkg \in {"dirty", "rescan"} /\ ~ReceiptHeld /\ Changed # {}
       /\ \A s \in Sources : src[s] \in {"same", "changed"}
       /\ \A f \in Live : rev[f] < MaxRev
       /\ pkg' = "ready" /\ src' = [s \in Sources |-> "same"]
       /\ rev' = [f \in Films |-> Revised(f)] /\ scraped' = scraped \ Live
       /\ ctx' = [f \in Films |-> IF ctx[f] # "none" THEN "invalid" ELSE "none"]
       /\ conf' = [f \in Films |-> None]
       /\ arch' = [f \in Films |-> IF f \in Live THEN "pending" ELSE arch[f]]
       /\ clean' = [f \in Films |->
                       IF f \in Live THEN [s \in Scopes |-> Pending] ELSE clean[f]]
       /\ retained' = {x \in retained : x[3] \notin Changed}
                      \cup UNION {{<<f, Revised(f), s>> : s \in Inputs[f]} : f \in Live}
       /\ UNCHANGED <<removed, ctxN, appr, op, receipt, rows, engine, fin, work, nas,
                      private, troubles>>

\* The line makes the package of the new revision.
ScrapeAgain(f) ==
    /\ f \in Live \ scraped /\ SourceAdmissible(f) /\ scraped' = scraped \cup {f}
    /\ UNCHANGED <<pkg, rev, removed, ctx, ctxN, appr, stages, rows, engine, conf, fin,
                   src, work, nas, private, troubles>>

ReplaceSource(s) ==
    /\ Trouble /\ src[s] = "same" /\ src' = [src EXCEPT ![s] = "changed"]
    /\ UNCHANGED <<work, nas>>

RemoveSource(s) ==
    /\ Trouble /\ src[s] \in {"same", "changed"} /\ src' = [src EXCEPT ![s] = "gone"]
    /\ UNCHANGED <<work, nas>>

\* Someone changes or removes the finished package.
ChangeWork(f) ==
    /\ Trouble /\ work[f][rev[f]] = "whole"
    /\ \E w \in {"changed", "gone"} : work' = [work EXCEPT ![f][rev[f]] = w]
    /\ UNCHANGED <<src, nas>>

\* Someone makes a folder of this name in the library.
ForeignFolder(f, t) ==
    /\ Trouble /\ nas[f][t] = 0 /\ nas' = [nas EXCEPT ![f][t] = Foreign]
    /\ UNCHANGED <<src, work>>

Disturb ==
    /\ \/ \E s \in Sources : ReplaceSource(s) \/ RemoveSource(s)
       \/ \E f \in Films : ChangeWork(f) \/ \E t \in {1, 2} : ForeignFolder(f, t)
    /\ UNCHANGED <<pkg, filmRow, stages, rows, engine, conf, fin, private>>

-----------------------------------------------------------------------------
Worker == RunNext \/ Works \/ RecoverReads \/ \E f \in Films : \E n \in Confirms(f) : RecoverTask(f, n)

\* One step of the dispatch thread.
ArchiveTick(f) == BeginArchive(f) \/ Submit(f) \/ Accept(f) \/ PollFailed(f)
CleanTick ==
    \/ \E f \in Films, scope \in Scopes : Admit(f, scope) \/ Resume(f, scope)
    \/ (\E i \in Items : DeleteExact(i)) \/ TouchMarker \/ RecordResult
Dispatch == CleanTick \/ \E f \in Films : ArchiveTick(f) \/ Reclaim(f)
Intake == Touch \/ RescanSame \/ RescanChanged \/ Reingest

Next ==
    \/ \E f \in Films :
        \/ \E second \in BOOLEAN : ConfirmPut(f, second)
        \/ ConfirmApprove(f) \/ RemoveFilm(f) \/ ScrapeAgain(f)
    \/ Dispatch \/ Worker \/ WorkFails \/ WorkFreezes \/ Restart
    \/ \E f \in Films : \E n \in Confirms(f) : RecoverFreezes(f, n)
    \/ Intake \/ Disturb

Spec == Init /\ [][Next]_vars

\* The dispatch thread ticks and the worker waits for work as long as the hub runs;
\* the operator, the disks and the stop of the hub owe nothing.
FairSpec == Spec /\ WF_vars(Worker) /\ WF_vars(Dispatch)

-----------------------------------------------------------------------------
\* Types; the queue holds no task twice, and a frozen task keeps the engine stopped.
TypeOK ==
    /\ pkg \in {"ready", "rescan", "dirty", "attention", "retired"}
    /\ rev \in [Films -> Revs] /\ scraped \subseteq Films /\ removed \subseteq Films
    /\ ctx \in [Films -> {"none", "ready", "srcinv", "invalid"}]
    /\ \A f \in Films : ctxN[f] \in 0 .. MaxConfirm[f]
    /\ arch \in [Films -> {"pending", "running", "failed", "succeeded"}]
    /\ \A f \in Films : op[f].st \in {"none", "open", "failed", "verified"}
    /\ \A f \in Films : receipt[f].n \in 0 .. ctxN[f]
    /\ retained \subseteq Films \X Revs \X Sources
    /\ frozen # {} => broken
    /\ \A j, k \in DOMAIN queue : queue[j] = queue[k] => j = k
    /\ fin.at \in {"idle", "clean", "record"}
    /\ dirs \subseteq Films /\ markers \subseteq Films /\ snap \in BOOLEAN

\* accept_archive_receipt, _commit, recover: a film counts as archived only when every
\* folder its operator chose holds the package of its current revision.
ArchivedMeansKept ==
    \A f \in Films : arch[f] = "succeeded" =>
        /\ receipt[f].rev = rev[f]
        /\ \A t \in Targets(receipt[f].second) : nas[f][t] = rev[f]

\* _package_archived, _shared_sources, delete_exact: an original is deleted only once
\* every film made from it that is still on the list is in the library.
OriginalsKept ==
    \A s \in Sources : src[s] = "deleted" =>
        \A f \in Live : s \in Inputs[f] =>
            arch[f] = "succeeded" /\ \A t \in Targets(receipt[f].second) : nas[f][t] = rev[f]

\* _commit: a folder of the library is never replaced, whoever made it.
NoOverwrite ==
    [][\A f \in Films, t \in {1, 2} : nas[f][t] # 0 => nas'[f][t] = nas[f][t]]_vars

\* _reclaim: until the private folders, the snapshot and the package of a cleaned
\* film are gone, its marker stays and the next run finds it.
ReclaimKept ==
    \A f \in Films \ markers :
        Cleaned(f, "workcopy") => f \notin dirs /\ ~snap /\ pkg = "retired"

\* Out of reach: the film is not listed, since its new revision waits for a scrape; or a
\* failed read left its task to the next start of the hub; or a failed write stopped the
\* engine.
OutOfReach(f) == ~Listed(f) \/ broken \/ <<f, op[f].n>> \in lost

\* _poll: an archive operation of a film that stays in reach comes to an end, through
\* failures and restarts.
OpenArchiveSettles ==
    \A f \in Films : (op[f].st = "open") ~> (op[f].st # "open" \/ OutOfReach(f))

Blocked(f, scope) ==
    LET items == clean[f][scope].items IN \E i \in DOMAIN items : items[i] = "blocked_changed"

\* _cleanup, _reclaim: the private folders of an archived film are deleted in the end,
\* unless its package was changed after it was archived.
CleanedUp ==
    \A f \in Films :
        (arch[f] = "succeeded") ~>
            (f \notin dirs \/ Blocked(f, "workcopy"))

\* What counts as archived is in the library, and no original that a film still
\* needs is gone.
LibrarySafe == TypeOK /\ ArchivedMeansKept /\ OriginalsKept /\ ReclaimKept

\* An archive task that was begun comes to an end without writing over anything,
\* and so does the clean-up.
ArchiveEnds == NoOverwrite /\ OpenArchiveSettles /\ CleanedUp
=============================================================================
