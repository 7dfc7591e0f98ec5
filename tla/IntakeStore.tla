----------------------------- MODULE IntakeStore ----------------------------
(***************************************************************************)
(* The intake's side of the workflow store (workflow/intake_store.py): one  *)
(* root, its scan, a row per package folder, the snapshot operation and the *)
(* films made from a package.  Each command is one transaction.             *)
(*                                                                          *)
(* A version of a package folder stands for its observation digest: <<d, v>> *)
(* is the v-th content of the d-th directory that had this path.            *)
(***************************************************************************)
EXTENDS Naturals

CONSTANT Packages

VARIABLES
    root,       \* intake_roots: config_revision and policy_revision
    scan,       \* intake_root_scans: required, and who began the scan last
    pkg,        \* intake_packages
    op,         \* intake_operations: the last one
    film,       \* the film of a package with its input and context state
    fresh       \* rows whose version a thread still holds for its compare-and-set

storeVars == <<root, scan, pkg, op, film, fresh>>

NoVersion == <<0, 0>>
NoSnapshot == [gen |-> 0, rev |-> 0, dig |-> NoVersion]
NoRow == [there |-> FALSE, gen |-> 0, rev |-> 0, dirty |-> TRUE, dig |-> NoVersion,
          named |-> FALSE, stable |-> "no", st |-> "receiving", busy |-> FALSE, snap |-> NoSnapshot]
NoOp == [st |-> "none", p |-> CHOOSE p \in Packages : TRUE, gen |-> 0, rev |-> 0,
         pol |-> 0, dig |-> NoVersion, unres |-> FALSE, allowed |-> FALSE, births |-> 0,
         unsure |-> FALSE, mine |-> FALSE, gone |-> FALSE, proof |-> "none"]
NoFilm == [snap |-> NoSnapshot, pol |-> 0, copy |-> {}, ctx |-> "invalidated"]

StoreInit ==
    /\ root = [rev |-> 0, pol |-> 1]
    /\ scan = [required |-> FALSE, by |-> "none"]
    /\ pkg = [p \in Packages |-> NoRow]
    /\ op = NoOp
    /\ film = [p \in Packages |-> NoFilm]
    /\ fresh = [t \in {"scan", "run"} |-> {}]

\* Reading a row for a later compare-and-set, and writing it.
Reads(t, S) == fresh' = [fresh EXCEPT ![t] = @ \cup S]
Writes(p) == fresh' = [t \in DOMAIN fresh |-> fresh[t] \ {p}]

\* source_generation + 1.  It is only ever compared with the generation an operation or a
\* snapshot holds, so one that neither holds is not counted up again.
NextGen(p) ==
    IF pkg[p].gen \in {pkg[p].snap.gen, film[p].snap.gen} \cup
                     (IF op.unres /\ op.p = p THEN {op.gen} ELSE {})
    THEN pkg[p].gen + 1 ELSE pkg[p].gen

\* Mutation of Invalidated: the contexts made from the film stay.
InvalidatedOperation(p) ==
    /\ op' = IF op.unres /\ op.p = p THEN [op EXCEPT !.allowed = FALSE] ELSE op
    /\ UNCHANGED film

\* _invalidate_intake_dependents: the unresolved snapshot of the package may not be
\* published any more, and a context made from its film is void.
Invalidated(p) ==
    /\ op' = IF op.unres /\ op.p = p THEN [op EXCEPT !.allowed = FALSE] ELSE op
    /\ film' = [film EXCEPT ![p].ctx = "invalidated"]

\* open: what the last run left is not trusted.
Recovered ==
    /\ scan' = [scan EXCEPT !.required = TRUE]
    /\ op' = IF op.unres THEN [op EXCEPT !.st = "unknown", !.mine = FALSE] ELSE op
    /\ pkg' = [p \in Packages |->
                 IF pkg[p].busy /\ op.unres THEN [pkg[p] EXCEPT !.st = "unknown"]
                 ELSE IF ~pkg[p].busy /\ pkg[p].st \in {"receiving", "waiting"}
                 THEN [pkg[p] EXCEPT !.stable = "no"] ELSE pkg[p]]
    /\ fresh' = [t \in DOMAIN fresh |-> {}]
    /\ UNCHANGED <<root, film>>

\* configure_intake_root: a new revision voids what was known of every package.
Configured(policy) ==
    /\ root' = [rev |-> root.rev + 1, pol |-> policy]
    /\ scan' = [scan EXCEPT !.required = TRUE]
    /\ pkg' = [p \in Packages |-> IF ~pkg[p].there THEN pkg[p] ELSE
                 [pkg[p] EXCEPT !.rev = root.rev + 1, !.gen = NextGen(p),
                                !.dirty = TRUE, !.stable = "no", !.st = "receiving"]]
    /\ op' = [op EXCEPT !.allowed = FALSE]
    /\ film' = [p \in Packages |-> [film[p] EXCEPT !.ctx = "invalidated"]]
    /\ fresh' = [t \in DOMAIN fresh |-> {}]

-----------------------------------------------------------------------------
(* Observations.  seen = [dig, whole, named]: the version read, whether it  *)
(* is a complete observation that no writer disturbs, and whether the       *)
(* identity of the directory could be read.                                 *)

\* _observation_state
ObservedState(seen) == IF seen.whole THEN "waiting" ELSE "receiving"

\* The row differs from what was seen, or nothing reliable was seen.
Changed(p, seen) ==
    /\ pkg[p].there
    /\ \/ pkg[p].dig # seen.dig \/ pkg[p].rev # root.rev
       \/ pkg[p].named # seen.named \/ ~seen.whole

\* Another directory has the package's path.
Replaced(p, seen) == pkg[p].named /\ seen.named /\ pkg[p].dig[1] # seen.dig[1]

\* A directory whose path belongs to a row that has lost its identity is taken for a new
\* package, and that package for the row.
Unplaced(p, seen) == pkg[p].there /\ ~pkg[p].named /\ seen.named

\* An unchanged package whose snapshot is still of this generation has it back.
Restored(p, seen) ==
    /\ pkg[p].there /\ ~Changed(p, seen) /\ ~pkg[p].busy /\ pkg[p].st # "unknown"
    /\ pkg[p].snap = [gen |-> pkg[p].gen, rev |-> root.rev, dig |-> seen.dig]

\* Mutation of StableSince: every observation starts the wait again.
StableSinceAgain(p, seen) == IF seen.whole THEN "since" ELSE "no"

\* _observation_values: since when the package is stable.
StableSince(p, seen) ==
    CASE ~seen.whole \/ Restored(p, seen)             -> "no"
      [] ~pkg[p].there \/ Changed(p, seen)            -> "since"
      [] pkg[p].st = "rejected"                       -> "no"
      [] pkg[p].stable = "no"                         -> "since"
      [] pkg[p].st = "waiting"                        -> "long"
      [] OTHER                                        -> pkg[p].stable

ObservedRow(p, seen) ==
    [there  |-> TRUE, rev |-> root.rev, dig |-> seen.dig, named |-> seen.named,
     gen    |-> IF Changed(p, seen) THEN NextGen(p)
                ELSE IF pkg[p].there THEN pkg[p].gen ELSE 1,
     dirty  |-> ~Restored(p, seen) /\ (Changed(p, seen) \/ pkg[p].dirty),
     stable |-> StableSince(p, seen),
     st     |-> CASE Changed(p, seen) \/ ~pkg[p].there -> ObservedState(seen)
                  [] pkg[p].st = "rejected"            -> "rejected"
                  [] Restored(p, seen)                 -> "ready"
                  [] pkg[p].st \in {"snapshotting", "ready", "unknown"} -> pkg[p].st
                  [] OTHER                             -> ObservedState(seen),
     busy   |-> pkg[p].busy, snap |-> pkg[p].snap]

\* intake_observation_unchanged: nothing but times would be written.
ObservationUnchanged(p, seen) ==
    /\ pkg[p].there /\ ~Changed(p, seen) /\ ObservedRow(p, seen) = pkg[p]
    /\ pkg[p].st # "waiting"

\* "existing_package": the row is told that its source changed and keeps what it has;
\* the reread does the same again.
TouchedRow(p) ==
    [pkg[p] EXCEPT !.gen = NextGen(p), !.dirty = TRUE, !.stable = "no", !.st = "receiving"]

\* A package of its own, in the place of the one that is retired.
NewRow(seen) ==
    [NoRow EXCEPT !.there = TRUE, !.gen = 1, !.rev = root.rev, !.dig = seen.dig,
       !.named = seen.named, !.st = ObservedState(seen),
       !.stable = IF seen.whole THEN "since" ELSE "no"]

\* observe_intake
Observed(p, seen) ==
    /\ pkg' = [pkg EXCEPT ![p] = CASE Replaced(p, seen) -> NewRow(seen)
                                   [] Unplaced(p, seen) -> TouchedRow(p)
                                   [] OTHER             -> ObservedRow(p, seen)]
    /\ IF Replaced(p, seen)
       THEN /\ op' = IF op.p = p THEN [op EXCEPT !.allowed = FALSE, !.gone = TRUE] ELSE op
            /\ film' = [film EXCEPT ![p].ctx = "invalidated"]
       ELSE IF Changed(p, seen) THEN Invalidated(p) ELSE UNCHANGED <<op, film>>
    /\ Writes(p)
    /\ UNCHANGED <<root, scan>>

\* record_intake_source_notice
Noticed(p, missing) ==
    /\ pkg[p].there
    /\ Invalidated(p)
    /\ pkg' = [pkg EXCEPT ![p].gen = IF missing THEN NextGen(p) ELSE @, ![p].dirty = TRUE,
                 ![p].stable = "no",
                 ![p].st = IF @ = "unknown" THEN @
                           ELSE IF missing \/ @ = "missing" THEN "missing"
                           ELSE "receiving"]
    /\ Writes(p)
    /\ UNCHANGED <<root, scan>>

\* begin_intake_root_scan
ScanBegun(who) == scan' = [required |-> TRUE, by |-> who]

\* finish_intake_root_scan: only the scan that began last may say it is complete.
ScanFinished(who, complete) ==
    scan' = IF scan.by = who THEN [scan EXCEPT !.required = ~complete, !.by = "none"]
            ELSE scan

-----------------------------------------------------------------------------
(* The snapshot operation.                                                  *)

Admissible(p) ==
    /\ ~scan.required /\ ~op.unres
    /\ pkg[p].there /\ pkg[p].rev = root.rev
    /\ pkg[p].st = "waiting" /\ pkg[p].stable = "long"

\* begin_intake_snapshot
Begun(p) ==
    /\ op' = [NoOp EXCEPT !.st = "admitted", !.p = p, !.gen = pkg[p].gen, !.rev = root.rev,
                !.pol = root.pol, !.dig = pkg[p].dig, !.unres = TRUE, !.allowed = TRUE,
                !.mine = TRUE]
    /\ pkg' = [pkg EXCEPT ![p].busy = TRUE, ![p].st = "snapshotting"]
    /\ Writes(p)
    /\ UNCHANGED <<root, scan, film>>

\* get_intake_work
Launchable ==
    /\ op.st = "admitted" /\ op.births = 0 /\ op.allowed /\ ~op.gone
    /\ pkg[op.p].stable # "no" /\ pkg[op.p].gen = op.gen /\ root.rev = op.rev
    /\ pkg[op.p].busy

\* record_intake_owner: births are only added, and doubt is never taken back.
OwnerRecorded(births, unsure) ==
    /\ op.unres /\ births >= op.births /\ (op.unsure => unsure)
    /\ op' = [op EXCEPT !.births = births, !.unsure = unsure,
                !.st = IF unsure THEN "unknown"
                       ELSE IF @ \in {"admitted", "running"} THEN "running" ELSE @]
    /\ UNCHANGED <<root, scan, pkg, film, fresh>>

\* cancel_intake_snapshot
Cancelled ==
    /\ op' = IF op.unres THEN [op EXCEPT !.allowed = FALSE,
                                 !.st = IF @ = "unknown" THEN @ ELSE "stopping"] ELSE op
    /\ UNCHANGED <<root, scan, pkg, film, fresh>>

\* finish_intake_snapshot compares the exit proof with the recorded owner.
ProofAccepted(result) ==
    result.proof # "unknown" =>
        /\ ~op.unsure
        /\ result.proof = "stopped" => op.births = result.births /\ op.births > 0
        /\ result.proof = "no_process" => op.births = 0

\* Mutation of CurrentSnapshot: a notice that came without a new generation is missed.
CurrentSnapshotByRow(result) ==
    /\ result.snap /\ ~op.gone
    /\ pkg[op.p].gen = op.gen /\ pkg[op.p].rev = op.rev /\ pkg[op.p].dig = op.dig
    /\ pkg[op.p].busy

\* The snapshot is of the package as it still is.
CurrentSnapshot(result) ==
    /\ result.snap /\ op.allowed /\ ~op.gone
    /\ pkg[op.p].gen = op.gen /\ pkg[op.p].rev = op.rev /\ pkg[op.p].dig = op.dig
    /\ pkg[op.p].busy

\* A film that exists keeps the policy it was made with; a new directory makes a new film.
FilmExists == film[op.p].snap.gen > 0 /\ film[op.p].snap.dig[1] = op.dig[1]
PublicationBlocked == FilmExists /\ film[op.p].pol # op.pol

Publishes(result) == CurrentSnapshot(result) /\ ~PublicationBlocked

SnapshotOf == [gen |-> op.gen, rev |-> op.rev, dig |-> op.dig]

\* The package row of the operation, if the operation is still its active one.
FinishedRow(row, result) ==
    [row EXCEPT
       !.busy = result.proof = "unknown",
       !.snap = IF Publishes(result) THEN SnapshotOf ELSE @,
       !.dirty = @ /\ ~Publishes(result),
       !.st = CASE result.proof = "unknown"                       -> "unknown"
                [] CurrentSnapshot(result) /\ PublicationBlocked  -> "rejected"
                [] CurrentSnapshot(result)                        -> "ready"
                [] row.gen = op.gen /\ result.why = "source_changed" -> "receiving"
                [] row.gen = op.gen /\ result.why = "blocked"        -> "rejected"
                [] row.gen = op.gen                               -> "waiting"
                [] OTHER                                          -> @]

\* finish_intake_snapshot
Finished(result) ==
    /\ op.unres /\ ProofAccepted(result)
    /\ film' = IF ~Publishes(result) THEN film
               ELSE [film EXCEPT ![op.p] =
                       [snap |-> SnapshotOf, copy |-> result.copy, ctx |-> "invalidated",
                        pol |-> IF FilmExists THEN @.pol ELSE op.pol]]
    /\ pkg' = IF op.gone \/ ~pkg[op.p].busy THEN pkg
              ELSE [pkg EXCEPT ![op.p] = FinishedRow(@, result)]
    /\ op' = [op EXCEPT !.unres = result.proof = "unknown", !.proof = result.proof,
                !.st = CASE result.proof = "unknown" -> "unknown"
                         [] result.snap              -> "completed"
                         [] result.why = "cancelled" -> "cancelled"
                         [] OTHER                    -> "failed"]
    /\ Writes(op.p)
    /\ UNCHANGED <<root, scan>>

\* settle_abandoned_intake: an operation of an exited boot.
AbandonedSettled ==
    /\ op' = [op EXCEPT !.st = "cancelled", !.unres = FALSE, !.allowed = FALSE]
    /\ pkg' = IF op.gone \/ ~pkg[op.p].busy THEN pkg
              ELSE [pkg EXCEPT ![op.p].st = "waiting", ![op.p].busy = FALSE,
                               ![op.p].stable = "no"]
    /\ UNCHANGED <<root, scan, fresh>>

\* _require_source_admissible
SourceAdmissible(p) ==
    /\ film[p].snap.gen > 0 /\ ~scan.required
    /\ ~pkg[p].dirty /\ pkg[p].st = "ready"
    /\ film[p].snap = pkg[p].snap /\ film[p].snap.gen = pkg[p].gen /\ pkg[p].rev = root.rev

\* Mutation of Orphan: every settled operation has left nothing of use.
OrphanSettled == op.st \in {"completed", "failed", "cancelled"} /\ ~op.unres

\* intake_orphans: the data of a settled operation that no film was made from.
Orphan == /\ op.st \in {"completed", "failed", "cancelled"} /\ ~op.unres
          /\ film[op.p].snap # SnapshotOf

\* reclaim_intake: what is reclaimed is lost to any film that was made from it.
Reclaimed(orphan) ==
    film' = IF orphan /\ film[op.p].snap = SnapshotOf
            THEN [film EXCEPT ![op.p].copy = {}] ELSE film
=============================================================================
