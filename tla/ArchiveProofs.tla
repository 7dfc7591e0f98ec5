---------------------------- MODULE ArchiveProofs ----------------------------
(***************************************************************************)
(* That the library is safe, for any films, originals and confirmations:   *)
(* what counts as archived is there, no original a film still needs is     *)
(* deleted, and what a clean-up has left to do is not forgotten.  The      *)
(* argument: a folder of the library never changes once it is there; a row *)
(* of the journal that says "committed" is about such a folder; while an   *)
(* archive operation is open its film's approval stands still; and a film  *)
(* that is archived stays so, whatever intake finds in the INBOX.          *)
(***************************************************************************)
EXTENDS Archive, TLAPS

\* A folder holds the package made from revision r.
Kept(f, t, r) == r \in Revs /\ nas[f][t] = r

-----------------------------------------------------------------------------
(* Types.                                                                  *)

Approval == [second : BOOLEAN, rev : 0 .. MaxRev]
Operation == [st : {"none", "open", "failed", "verified"}, n : Nat, rev : 0 .. MaxRev]
Receipt == [n : Nat, rev : 0 .. MaxRev, second : BOOLEAN]
Marks == {"pending", "copying", "committing", "committed", "failed", "needs_review"}
Events == {"started", "succeeded", "failed"}
TaskRow ==
    [status : {"none", "queued", "running", "completed", "failed", "needs_review"},
     second : BOOLEAN, rev : 0 .. MaxRev, mkdir : SUBSET Events,
     tgt : [{1, 2} -> Marks], moved : SUBSET {1, 2}, log : [{1, 2} -> SUBSET Events]]
Steps == {"idle", "recover", "start", "mkdir", "made", "copy", "verify", "rename", "record",
          "event", "finish"}
Job == [at : Steps, f : Films, n : Nat, t : {1, 2}, tgt : [{1, 2} -> Marks]]
Tickets == {x \in Films \X Nat : x[2] \in Confirms(x[1])}

StoreType ==
    /\ pkg \in {"ready", "rescan", "dirty", "attention", "retired"}
    /\ rev \in [Films -> Revs] /\ scraped \subseteq Films /\ removed \subseteq Films
    /\ ctx \in [Films -> {"none", "ready", "srcinv", "invalid"}]
    /\ ctxN \in [Films -> Nat] /\ \A f \in Films : ctxN[f] <= MaxConfirm[f]
    /\ appr \in [Films -> Approval] /\ conf \in [Films -> Approval]
    /\ arch \in [Films -> {"pending", "running", "failed", "succeeded"}]
    /\ op \in [Films -> Operation] /\ receipt \in [Films -> Receipt]
    /\ retained \subseteq Films \X Revs \X Sources
    /\ src \in [Sources -> {"same", "changed", "gone", "deleted"}]

EngineType ==
    /\ task = [f \in Films |-> task[f]]
    /\ \A f \in Films : task[f] \in [Confirms(f) -> TaskRow]
    /\ recorded \in [Films -> [{1, 2} -> 0 .. MaxRev]]
    /\ nas \in [Films -> [{1, 2} -> 0 .. Foreign]]
    /\ queue \in Seq(Tickets) /\ \A j, k \in DOMAIN queue : queue[j] = queue[k] => j = k
    /\ todo \subseteq Tickets
    /\ broken \in BOOLEAN /\ (frozen # {} => broken)
    /\ wk \in Job /\ (wk.at \notin {"idle", "recover"} => wk.n \in Confirms(wk.f))

CleanType ==
    /\ clean = [f \in Films |-> [s \in Scopes |-> clean[f][s]]]
    /\ fin.at \in {"idle", "clean", "record"} /\ fin.f \in Films /\ fin.scope \in Scopes
    /\ fin = [at |-> fin.at, f |-> fin.f, scope |-> fin.scope, got |-> fin.got]
    /\ dirs \subseteq Films /\ markers \subseteq Films /\ snap \in BOOLEAN

-----------------------------------------------------------------------------
(* The inductive invariant.                                                *)

\* A context is confirmed before it is approved; while the operation of an
\* approval is open, the approval stands.
ApprovalInv ==
    \A f \in Films :
        /\ ctx[f] # "none" \/ appr[f] # None => ctxN[f] > 0
        /\ conf[f] # None => ctxN[f] > 0 /\ appr[f] = None
        /\ op[f].n <= ctxN[f] /\ receipt[f].n <= ctxN[f]
        /\ op[f].st = "open" =>
            /\ op[f].n = ctxN[f] /\ op[f].n > 0 /\ op[f].rev \in Revs
            /\ appr[f] # None /\ arch[f] # "succeeded"

\* A row of the journal is about folders that are there, and about what its
\* operation was approved for.
RowTrue(f, n, row) ==
    /\ row.status # "none" => n <= op[f].n /\ row.rev \in Revs
    /\ row.status = "none" => row = NoTask
    /\ (op[f].st = "open" /\ n = op[f].n /\ row.status # "none") =>
            row.second = appr[f].second /\ row.rev = op[f].rev
    /\ \A t \in {1, 2} : row.tgt[t] = "committed" \/ "succeeded" \in row.log[t] =>
            Kept(f, t, row.rev)
    /\ row.status = "completed" => \A t \in Targets(row.second) : Kept(f, t, row.rev)

RowInv == \A f \in Films : \A n \in Confirms(f) : RowTrue(f, n, task[f][n])

\* The worker's own step is as far as the library is.
WorkerInv ==
    /\ wk.at # "idle" => todo = {}
    /\ \A x \in todo : task[x[1]][x[2]].status \in {"queued", "running"}
    /\ wk.at \notin {"idle", "recover"} =>
        /\ Row.status \in {"queued", "running"}
        /\ wk.at # "start" =>
            \A t \in {1, 2} : wk.tgt[t] = "committed" => Kept(wk.f, t, Row.rev)
        /\ wk.at \in {"record", "event"} => Kept(wk.f, wk.t, Row.rev)
        /\ wk.at = "finish" => \A t \in Targets(Row.second) : wk.tgt[t] = "committed"

\* An archived film has its receipt, and stays archived.
ArchivedInv ==
    /\ ArchivedMeansKept /\ OriginalsKept
    /\ \A f \in Films : arch[f] = "succeeded" => receipt[f].n > 0
    /\ (fin.at # "idle" /\ fin.scope = "input") => PackageArchived

\* The marker is there before the clean-up is recorded.
ReclaimInv ==
    /\ ReclaimKept
    /\ fin.at = "record" => fin.f \in markers

IInv ==
    /\ StoreType /\ EngineType /\ CleanType
    /\ ApprovalInv /\ RowInv /\ WorkerInv /\ ArchivedInv /\ ReclaimInv

-----------------------------------------------------------------------------
(* What most steps leave alone.                                            *)

\* _commit: a folder that is there stays as it is.
NasGrows ==
    /\ nas' \in [Films -> [{1, 2} -> 0 .. Foreign]]
    /\ \A f \in Films, t \in {1, 2} : nas[f][t] # 0 => nas'[f][t] = nas[f][t]

LEMMA KeptStays ==
    ASSUME NasGrows, NEW f \in Films, NEW t \in {1, 2}, NEW r, Kept(f, t, r)
    PROVE  Kept(f, t, r)'
BY ArchiveAssumption DEF NasGrows, Kept, Revs

LEMMA NasSame ==
    ASSUME EngineType, UNCHANGED nas
    PROVE  NasGrows
BY DEF EngineType, NasGrows

\* A row that is not written, while its film's operation stands, ends, or is
\* followed by a later one.
LEMMA RowStays ==
    ASSUME NasGrows, NEW f \in Films, NEW n \in Nat, NEW row \in TaskRow, RowTrue(f, n, row),
           op[f].n \in Nat, op'[f].n \in Nat, op[f].n <= op'[f].n,
           op'[f].st = "open" => \/ op'[f] = op[f] /\ appr'[f] = appr[f]
                                 \/ op'[f].n > op[f].n
    PROVE  RowTrue(f, n, row)'
<1>1. \A t \in {1, 2} : Kept(f, t, row.rev) => Kept(f, t, row.rev)'
    BY KeptStays
<1>2. Targets(row.second) \subseteq {1, 2}
    BY DEF Targets
<1>3. row.status # "none" => n <= op'[f].n /\ row.rev \in Revs
    BY DEF RowTrue
<1>4. (op'[f].st = "open" /\ n = op'[f].n /\ row.status # "none") =>
            row.second = appr'[f].second /\ row.rev = op'[f].rev
    BY DEF RowTrue
<1> QED BY <1>1, <1>2, <1>3, <1>4 DEF RowTrue

\* The engine does nothing.
EngineRests ==
    /\ UNCHANGED <<rows, engine>> /\ NasGrows
    /\ \A f \in Films :
        /\ op[f].n \in Nat /\ op'[f].n \in Nat /\ op[f].n <= op'[f].n
        /\ op'[f].st = "open" => \/ op'[f] = op[f] /\ appr'[f] = appr[f]
                                 \/ op'[f].n > op[f].n

LEMMA EngineFrame ==
    ASSUME EngineType, RowInv, WorkerInv, EngineRests
    PROVE  EngineType' /\ RowInv' /\ WorkerInv'
<1>1. UNCHANGED <<task, recorded, queue, todo, broken, frozen, wk>> /\ NasGrows
    BY DEF EngineRests, rows, engine
<1>2. EngineType'
    BY <1>1 DEF EngineType, NasGrows
<1>3. RowInv'
    <2> SUFFICES ASSUME NEW f \in Films, NEW n \in Confirms(f) PROVE RowTrue(f, n, task[f][n])'
        BY DEF RowInv, Confirms
    <2>1. task[f][n] \in TaskRow /\ n \in Nat
        <3>1. task[f][n] \in TaskRow
            BY DEF EngineType
        <3>2. n \in Nat
            BY ArchiveAssumption DEF Confirms
        <3> QED BY <3>1, <3>2
    <2>2. PICK row \in TaskRow : row = task[f][n]
        BY <2>1
    <2>3. RowTrue(f, n, row)
        BY <2>2 DEF RowInv
    <2>4. RowTrue(f, n, row)'
        BY <1>1, <2>1, <2>3, RowStays DEF EngineRests
    <2> QED BY <1>1, <2>2, <2>4
<1>4. WorkerInv'
    <2>1. ASSUME wk.at \notin {"idle", "recover"} PROVE Row \in TaskRow /\ wk.f \in Films
        BY <2>1 DEF Row, EngineType, Job
    <2> QED BY <1>1, <2>1, KeptStays DEF WorkerInv, Row, Targets, EngineType, Job
<1> QED BY <1>2, <1>3, <1>4

\* An archived film stays so, and nothing else becomes archived or is deleted.
LEMMA ArchivedFrame ==
    ASSUME ArchivedInv, NasGrows, removed \subseteq removed',
           \A f \in Films : arch'[f] = "succeeded" => arch[f] = "succeeded",
           \A f \in Films : arch[f] = "succeeded" =>
                arch'[f] = "succeeded" /\ receipt'[f] = receipt[f] /\ rev'[f] = rev[f],
           \A s \in Sources : src'[s] = "deleted" => src[s] = "deleted",
           fin'.at # "idle" /\ fin'.scope = "input" =>
                (fin.at # "idle" /\ fin.scope = "input") \/ PackageArchived,
           rev \in [Films -> Revs]
    PROVE  ArchivedInv'
<1>1. Live' \subseteq Live /\ Live \subseteq Films
    BY DEF Live
<1>2. \A f \in Films : \A t \in Targets(receipt[f].second) :
            nas[f][t] = rev[f] => nas'[f][t] = rev[f]
    BY ArchiveAssumption DEF NasGrows, Targets, Revs
<1>3. ArchivedMeansKept'
    BY <1>2 DEF ArchivedInv, ArchivedMeansKept
<1>4. OriginalsKept'
    BY <1>1, <1>2 DEF ArchivedInv, OriginalsKept
<1>5. (fin'.at # "idle" /\ fin'.scope = "input") => PackageArchived'
    BY <1>1 DEF ArchivedInv, PackageArchived
<1> QED BY <1>3, <1>4, <1>5 DEF ArchivedInv

LEMMA CleanFrame ==
    ASSUME CleanType, ReclaimInv, UNCHANGED <<clean, fin, private>>,
           pkg = "retired" => pkg' = "retired"
    PROVE  CleanType' /\ ReclaimInv'
BY DEF CleanType, ReclaimInv, ReclaimKept, Cleaned, private

\* A step of the engine: the hub's own tables, threads and files rest.
HubRests == UNCHANGED <<pkgRow, filmRow, stages, conf, fin, src, private>> /\ NasGrows

LEMMA HubFrame ==
    ASSUME StoreType, CleanType, ApprovalInv, ArchivedInv, ReclaimInv, HubRests
    PROVE  StoreType' /\ CleanType' /\ ApprovalInv' /\ ArchivedInv' /\ ReclaimInv'
<1>1. /\ UNCHANGED <<pkg, rev, scraped, removed, ctx, ctxN, appr, arch, op, receipt, clean>>
      /\ UNCHANGED <<retained, conf, fin, src, private>> /\ NasGrows
    BY DEF HubRests, pkgRow, filmRow, stages
<1>2. StoreType'
    BY <1>1 DEF StoreType
<1>3. ApprovalInv'
    BY <1>1 DEF ApprovalInv
<1>4. CleanType' /\ ReclaimInv'
    BY <1>1, CleanFrame
<1>5. ArchivedInv'
    BY <1>1, ArchivedFrame DEF StoreType
<1> QED BY <1>2, <1>3, <1>4, <1>5

-----------------------------------------------------------------------------
(* The journal.                                                            *)

LEMMA ConfirmsIs ==
    ASSUME NEW f \in Films, NEW n \in Confirms(f)
    PROVE  n \in Nat /\ <<f, n>> \in Tickets
<1>1. n \in Nat
    BY ArchiveAssumption DEF Confirms
<1> QED BY <1>1 DEF Tickets

LEMMA TicketIs ==
    ASSUME NEW x \in Tickets
    PROVE  x[1] \in Films /\ x[2] \in Confirms(x[1]) /\ x = <<x[1], x[2]>>
BY DEF Tickets

\* One row is written.
LEMMA RowWritten ==
    ASSUME EngineType, NEW f \in Films, NEW n \in Confirms(f), NEW row \in TaskRow,
           task' = [task EXCEPT ![f][n] = row]
    PROVE  /\ task' = [g \in Films |-> task'[g]]
           /\ \A g \in Films : task'[g] \in [Confirms(g) -> TaskRow]
           /\ task'[f][n] = row
           /\ \A g \in Films : \A m \in Confirms(g) :
                g # f \/ m # n => task'[g][m] = task[g][m]
<1>1. task = [g \in Films |-> task[g]] /\ task[f] \in [Confirms(f) -> TaskRow]
    BY DEF EngineType
<1>2. task'[f] = [task[f] EXCEPT ![n] = row] /\ \A g \in Films : g # f => task'[g] = task[g]
    BY <1>1
<1>3. task' = [g \in Films |-> task'[g]]
    BY <1>1
<1>4. task'[f] \in [Confirms(f) -> TaskRow]
    BY <1>1, <1>2
<1> QED BY <1>1, <1>2, <1>3, <1>4 DEF EngineType

\* What a row that is written must say; the hub's tables rest.
RowFit(f, n, row) ==
    /\ row \in TaskRow
    /\ row.status # "none" /\ n <= op[f].n /\ row.rev \in Revs
    /\ op[f].st = "open" /\ n = op[f].n => row.second = appr[f].second /\ row.rev = op[f].rev
    /\ \A t \in {1, 2} : row.tgt[t] = "committed" \/ "succeeded" \in row.log[t] =>
            nas'[f][t] = row.rev
    /\ row.status = "completed" => \A t \in Targets(row.second) : nas'[f][t] = row.rev

LEMMA RowFits ==
    ASSUME EngineType, StoreType, ApprovalInv, RowInv, NasGrows, UNCHANGED <<op, appr>>,
           NEW f \in Films, NEW n \in Confirms(f), NEW row, RowFit(f, n, row),
           task' = [task EXCEPT ![f][n] = row]
    PROVE  RowInv'
<1> USE DEF RowFit
<1>1. task'[f][n] = row
    BY RowWritten
<1>2. RowTrue(f, n, row)'
    <2>1. \A t \in {1, 2} : nas'[f][t] = row.rev => Kept(f, t, row.rev)'
        BY DEF Kept
    <2>2. Targets(row.second) \subseteq {1, 2}
        BY DEF Targets
    <2> QED BY <2>1, <2>2 DEF RowTrue
<1>3. ASSUME NEW g \in Films, NEW m \in Confirms(g), g # f \/ m # n
      PROVE  RowTrue(g, m, task[g][m])'
    <2>1. task'[g][m] = task[g][m]
        BY <1>3, RowWritten
    <2>2. PICK old \in TaskRow : old = task[g][m]
        BY DEF EngineType
    <2>3. RowTrue(g, m, old) /\ m \in Nat
        BY <2>2, ConfirmsIs DEF RowInv
    <2>4. op[g].n \in Nat
        BY DEF StoreType, Operation
    <2>5. RowTrue(g, m, old)'
        BY <2>3, <2>4, RowStays
    <2> QED BY <2>1, <2>2, <2>5
<1>4. ASSUME NEW g \in Films, NEW m \in Confirms(g) PROVE RowTrue(g, m, task[g][m])'
    <2>1. CASE g = f /\ m = n
        BY <1>1, <1>2, <2>1
    <2> QED BY <1>3, <2>1
<1> QED BY <1>4 DEF RowInv, Confirms

-----------------------------------------------------------------------------
(* The library's worker.                                                   *)

Awake == wk.at \notin {"idle", "recover"}

\* What is known of the row the worker is at.
LEMMA RowIs ==
    ASSUME IInv, Awake
    PROVE  /\ wk.f \in Films /\ wk.n \in Confirms(wk.f) /\ wk.t \in {1, 2}
           /\ wk \in Job /\ wk.tgt \in [{1, 2} -> Marks]
           /\ Row \in TaskRow /\ Row.status \in {"queued", "running"}
           /\ Row.rev \in Revs /\ wk.n <= op[wk.f].n
           /\ op[wk.f].st = "open" /\ wk.n = op[wk.f].n =>
                Row.second = appr[wk.f].second /\ Row.rev = op[wk.f].rev
           /\ \A t \in {1, 2} : Row.tgt[t] = "committed" \/ "succeeded" \in Row.log[t] =>
                nas[wk.f][t] = Row.rev
<1>1. /\ wk.f \in Films /\ wk.n \in Confirms(wk.f) /\ wk.t \in {1, 2}
      /\ wk \in Job /\ wk.tgt \in [{1, 2} -> Marks]
    BY DEF IInv, EngineType, Job, Awake
<1>2. Row \in TaskRow /\ RowTrue(wk.f, wk.n, Row)
    BY <1>1 DEF IInv, EngineType, RowInv, Row
<1>3. Row.status \in {"queued", "running"}
    BY DEF IInv, WorkerInv, Awake
<1> QED BY <1>1, <1>2, <1>3 DEF RowTrue, Kept

LEMMA SleepingIs ==
    ASSUME EngineType, NEW f \in Films
    PROVE  Sleeping \in Job /\ Sleeping.at = "idle"
<1>1. (CHOOSE g \in Films : TRUE) \in Films
    OBVIOUS
<1>2. NoTask.tgt \in [{1, 2} -> Marks]
    BY DEF NoTask, Marks
<1> QED BY <1>1, <1>2 DEF Sleeping, Job, Steps

\* Where the worker goes from here is as far as the library is.
JobFit(row) ==
    /\ wk' \in Job /\ wk'.f = wk.f /\ wk'.n = wk.n
    /\ wk'.at \notin {"idle", "recover", "start"}
    /\ row.status \in {"queued", "running"}
    /\ \A t \in {1, 2} : wk'.tgt[t] = "committed" => nas'[wk.f][t] = row.rev
    /\ wk'.at \in {"record", "event"} => nas'[wk.f][wk'.t] = row.rev
    /\ wk'.at = "finish" => \A t \in Targets(row.second) : wk'.tgt[t] = "committed"

LEMMA WorkerMove ==
    ASSUME IInv, HubRests, UNCHANGED <<queue, todo, broken, frozen>>, Awake,
           recorded' \in [Films -> [{1, 2} -> 0 .. MaxRev]],
           NEW row, RowFit(wk.f, wk.n, row), task' = [task EXCEPT ![wk.f][wk.n] = row],
           wk' = Sleeping \/ JobFit(row)
    PROVE  IInv'
<1>1. StoreType' /\ CleanType' /\ ApprovalInv' /\ ArchivedInv' /\ ReclaimInv'
    BY HubFrame DEF IInv
<1>2. /\ wk.f \in Films /\ wk.n \in Confirms(wk.f) /\ wk \in Job
    BY RowIs
<1>3. NasGrows /\ UNCHANGED <<op, appr>>
    BY DEF HubRests, stages, filmRow
<1>4. RowInv'
    BY <1>2, <1>3, RowFits DEF IInv
<1>5. row \in TaskRow /\ row.rev \in Revs
    BY DEF RowFit
<1>6. /\ task' = [g \in Films |-> task'[g]]
      /\ \A g \in Films : task'[g] \in [Confirms(g) -> TaskRow]
      /\ task'[wk.f][wk.n] = row
    BY <1>2, <1>5, RowWritten DEF IInv
<1>7. wk' \in Job /\ (wk'.at \notin {"idle", "recover"} => wk'.f = wk.f /\ wk'.n = wk.n)
    BY <1>2, SleepingIs DEF JobFit, IInv
<1>8. EngineType'
    <2>1. wk'.at \notin {"idle", "recover"} => wk'.n \in Confirms(wk'.f)
        BY <1>2, <1>7
    <2>2. nas' \in [Films -> [{1, 2} -> 0 .. Foreign]]
        BY <1>3 DEF NasGrows
    <2>3. /\ queue' \in Seq(Tickets) /\ \A j, k \in DOMAIN queue' : queue'[j] = queue'[k] => j = k
          /\ todo' \subseteq Tickets /\ broken' \in BOOLEAN /\ (frozen' # {} => broken')
        BY DEF IInv, EngineType
    <2> QED BY <1>6, <1>7, <2>1, <2>2, <2>3, Zenon DEF EngineType, Confirms
<1>9. WorkerInv'
    <2>1. todo' = {}
        BY DEF IInv, WorkerInv, Awake
    <2>2. CASE wk' = Sleeping
        <3>1. wk'.at = "idle"
            BY <1>2, <2>2, SleepingIs DEF IInv
        <3> QED BY <2>1, <3>1 DEF WorkerInv
    <2>3. CASE JobFit(row)
        <3>1. Row' = row
            BY <1>6, <2>3 DEF Row, JobFit
        <3>2. \A t \in {1, 2} : wk'.tgt[t] = "committed" => Kept(wk.f, t, row.rev)'
            BY <1>5, <2>3 DEF JobFit, Kept
        <3>3. wk'.at \in {"record", "event"} => nas'[wk'.f][wk'.t] = row.rev
            BY <2>3 DEF JobFit
        <3>4. \A t \in {1, 2} : wk'.tgt[t] = "committed" => row.rev \in Revs /\ nas'[wk'.f][t] = row.rev
            BY <1>5, <2>3 DEF JobFit
        <3>5. /\ row.status \in {"queued", "running"}
              /\ wk'.at = "finish" => \A t \in Targets(row.second) : wk'.tgt[t] = "committed"
            BY <2>3 DEF JobFit
        <3> QED BY <1>5, <2>1, <3>1, <3>3, <3>4, <3>5 DEF WorkerInv, Kept
    <2> QED BY <2>2, <2>3
<1> QED BY <1>1, <1>4, <1>8, <1>9 DEF IInv

\* The worker's row before and after a step.
LEMMA RowGoesOn ==
    ASSUME IInv, Awake, NasGrows, NEW row \in TaskRow, row.status # "none",
           row.second = Row.second, row.rev = Row.rev,
           \A t \in {1, 2} : row.tgt[t] = "committed" => nas'[wk.f][t] = Row.rev,
           \A t \in {1, 2} : "succeeded" \in row.log[t] =>
                "succeeded" \in Row.log[t] \/ nas'[wk.f][t] = Row.rev,
           row.status = "completed" => \A t \in Targets(row.second) : nas'[wk.f][t] = Row.rev
    PROVE  RowFit(wk.f, wk.n, row)
<1>1. \A t \in {1, 2} : nas[wk.f][t] = Row.rev => nas'[wk.f][t] = Row.rev
    BY RowIs, ArchiveAssumption DEF NasGrows, Revs
<1> QED BY <1>1, RowIs DEF RowFit

LEMMA NextStepIs ==
    ASSUME IInv, Awake, NEW tgt \in [{1, 2} -> Marks], wk' = NextStep(tgt)
    PROVE  /\ wk' \in Job /\ wk'.f = wk.f /\ wk'.n = wk.n /\ wk'.tgt = tgt
           /\ wk'.at \in {"finish", "mkdir", "copy"}
           /\ wk'.at = "finish" => \A t \in Targets(Row.second) : tgt[t] = "committed"
<1> DEFINE left == {t \in Targets(Row.second) : tgt[t] # "committed"}
           u == IF left = {} THEN 2 ELSE CHOOSE i \in left : \A v \in left : i <= v
           made == \E n \in Confirms(wk.f) : "succeeded" \in task[wk.f][n].mkdir
           at == CASE left = {} -> "finish"
                   [] u = 1 /\ wk.f \in NewActor /\ ~made -> "mkdir"
                   [] OTHER -> "copy"
<1>1. wk' = [wk EXCEPT !.tgt = tgt, !.t = u, !.at = at]
    BY Zenon DEF NextStep
<1>2. left \subseteq {1, 2}
    BY DEF Targets
<1>3. u \in {1, 2}
    <2>1. CASE left # {}
        <3>1. \E i \in left : \A v \in left : i <= v
            BY <1>2, <2>1
        <3>2. u \in left
            BY <2>1, <3>1
        <3> QED BY <1>2, <3>2
    <2> QED BY <2>1
<1>4. at \in {"finish", "mkdir", "copy"} /\ (at = "finish" => left = {})
    BY DEF at
<1> HIDE DEF left, u, at
<1>5. PICK job \in Job : job = wk
    BY RowIs
<1>6. wk' = [job EXCEPT !.tgt = tgt, !.t = u, !.at = at]
    BY <1>1, <1>5
<1>7. wk' \in Job
    BY <1>3, <1>4, <1>6 DEF Job, Steps
<1>8. wk'.f = wk.f /\ wk'.n = wk.n /\ wk'.tgt = tgt /\ wk'.at = at
    BY <1>5, <1>6 DEF Job
<1>9. left = {} => \A t \in Targets(Row.second) : tgt[t] = "committed"
    BY DEF left
<1> QED BY <1>4, <1>7, <1>8, <1>9

\* A step of the worker that leaves the hub's tables and the folders alone.
WorkRest ==
    /\ UNCHANGED <<pkgRow, filmRow, stages, queue, todo, broken, frozen, conf, fin, src,
                   private>>

LEMMA RestIs ==
    ASSUME IInv, WorkRest, NasGrows
    PROVE  HubRests /\ UNCHANGED <<queue, todo, broken, frozen>>
BY DEF WorkRest, HubRests

LEMMA SavesIs ==
    ASSUME NEW row, Saves(row)
    PROVE  task' = [task EXCEPT ![wk.f][wk.n] = row]
BY DEF Saves

\* The worker gives the task up.
LEMMA EndsKeeps ==
    ASSUME IInv, Awake, WorkRest, NasGrows, UNCHANGED recorded,
           NEW row \in TaskRow, row.second = Row.second, row.rev = Row.rev,
           \A t \in {1, 2} : row.tgt[t] = "committed" => nas'[wk.f][t] = Row.rev,
           \A t \in {1, 2} : "succeeded" \in row.log[t] => "succeeded" \in Row.log[t],
           NEW status \in {"failed", "needs_review", "completed"}, Ends(row, status),
           status = "completed" => \A t \in Targets(Row.second) : nas'[wk.f][t] = Row.rev
    PROVE  IInv'
<1> DEFINE last == [row EXCEPT !.status = status]
<1>1. /\ last \in TaskRow /\ last.status = status /\ last.second = row.second
      /\ last.rev = row.rev /\ last.tgt = row.tgt /\ last.log = row.log
    BY DEF TaskRow
<1>2. task' = [task EXCEPT ![wk.f][wk.n] = last] /\ wk' = Sleeping
    BY DEF Ends, Saves
<1> HIDE DEF last
<1>3. RowFit(wk.f, wk.n, last)
    BY <1>1, RowGoesOn
<1>4. recorded' \in [Films -> [{1, 2} -> 0 .. MaxRev]]
    BY DEF IInv, EngineType
<1> QED BY <1>2, <1>3, <1>4, RestIs, WorkerMove

\* The worker goes on with the task.
LEMMA GoesOnKeeps ==
    ASSUME IInv, Awake, WorkRest, NasGrows,
           recorded' \in [Films -> [{1, 2} -> 0 .. MaxRev]],
           NEW row \in TaskRow, row.second = Row.second, row.rev = Row.rev,
           row.status \in {"queued", "running"},
           \A t \in {1, 2} : row.tgt[t] = "committed" => nas'[wk.f][t] = Row.rev,
           \A t \in {1, 2} : "succeeded" \in row.log[t] =>
                "succeeded" \in Row.log[t] \/ nas'[wk.f][t] = Row.rev,
           task' = [task EXCEPT ![wk.f][wk.n] = row],
           wk' \in Job, wk'.f = wk.f, wk'.n = wk.n, wk'.at \notin {"idle", "recover", "start"},
           \A t \in {1, 2} : wk'.tgt[t] = "committed" => nas'[wk.f][t] = Row.rev,
           wk'.at \in {"record", "event"} => nas'[wk.f][wk'.t] = Row.rev,
           wk'.at = "finish" => \A t \in Targets(Row.second) : wk'.tgt[t] = "committed"
    PROVE  IInv'
<1>1. RowFit(wk.f, wk.n, row)
    BY RowGoesOn
<1>2. JobFit(row)
    BY DEF JobFit
<1> QED BY <1>1, <1>2, RestIs, WorkerMove

LEMMA GoesIs ==
    ASSUME IInv, Awake, NEW at \in Steps, Goes(at)
    PROVE  /\ wk' \in Job /\ wk'.at = at /\ wk'.f = wk.f /\ wk'.n = wk.n
           /\ wk'.t = wk.t /\ wk'.tgt = wk.tgt
BY RowIs DEF Goes, Job

\* The folders a task has committed so far.
LEMMA DoneIs ==
    ASSUME IInv, Awake, NasGrows
    PROVE  /\ \A t \in {1, 2} : Row.tgt[t] = "committed" => nas'[wk.f][t] = Row.rev
           /\ wk.at # "start" =>
                \A t \in {1, 2} : wk.tgt[t] = "committed" => nas'[wk.f][t] = Row.rev
           /\ wk.at \in {"record", "event"} => nas'[wk.f][wk.t] = Row.rev
<1>1. \A t \in {1, 2} : nas[wk.f][t] = Row.rev => nas'[wk.f][t] = Row.rev
    BY RowIs, ArchiveAssumption DEF NasGrows, Revs
<1>2. /\ wk.at # "start" =>
            \A t \in {1, 2} : wk.tgt[t] = "committed" => nas[wk.f][t] = Row.rev
      /\ wk.at \in {"record", "event"} => nas[wk.f][wk.t] = Row.rev
    BY DEF IInv, WorkerInv, Kept, Awake
<1> QED BY <1>1, <1>2, RowIs

LEMMA PreflightKeeps ==
    ASSUME IInv, Awake, WorkRest, Preflight
    PROVE  IInv'
<1> DEFINE tgt == [t \in {1, 2} |-> IF OwnCopy(wk.f, t, Row.rev) THEN "committed" ELSE "pending"]
           row == [Row EXCEPT !.status = "running"]
<1>1. UNCHANGED <<recorded, nas>> /\ NasGrows
    BY NasSame DEF Preflight, IInv
<1>2. CASE Saves(row) /\ wk' = NextStep(tgt)
    <2>1. tgt \in [{1, 2} -> Marks]
        BY DEF Marks
    <2>2. /\ wk' \in Job /\ wk'.f = wk.f /\ wk'.n = wk.n /\ wk'.tgt = tgt
          /\ wk'.at \in {"finish", "mkdir", "copy"}
          /\ wk'.at = "finish" => \A t \in Targets(Row.second) : tgt[t] = "committed"
        BY <1>2, <2>1, NextStepIs
    <2>3. \A t \in {1, 2} : tgt[t] = "committed" => nas'[wk.f][t] = Row.rev
        BY <1>1 DEF OwnCopy
    <2>4. /\ row \in TaskRow /\ row.status = "running" /\ row.second = Row.second
          /\ row.rev = Row.rev /\ row.tgt = Row.tgt /\ row.log = Row.log
        BY RowIs DEF TaskRow
    <2>5. task' = [task EXCEPT ![wk.f][wk.n] = row]
        BY <1>2, SavesIs
    <2>6. recorded' \in [Films -> [{1, 2} -> 0 .. MaxRev]]
        BY <1>1 DEF IInv, EngineType
    <2> HIDE DEF tgt, row
    <2> QED BY <1>1, <2>2, <2>3, <2>4, <2>5, <2>6, DoneIs, GoesOnKeeps
<1>3. CASE Ends(Row, "failed")
    BY <1>1, <1>3, RowIs, DoneIs, EndsKeeps
<1> QED BY <1>2, <1>3 DEF Preflight

LEMMA MkdirKeeps ==
    ASSUME IInv, Awake, WorkRest, MkdirActor \/ MadeActor
    PROVE  IInv'
<1>1. UNCHANGED <<recorded, nas>> /\ NasGrows
    BY NasSame DEF MkdirActor, MadeActor, IInv
<1>2. PICK at \in {"made", "copy"}, mkdir \in SUBSET Events :
            Goes(at) /\ Saves([Row EXCEPT !.mkdir = mkdir])
    <2>1. CASE MkdirActor
        BY <2>1 DEF MkdirActor, Events
    <2>2. CASE MadeActor
        BY <2>2, RowIs DEF MadeActor, TaskRow, Events
    <2> QED BY <2>1, <2>2
<1> DEFINE row == [Row EXCEPT !.mkdir = mkdir]
<1>3. /\ row \in TaskRow /\ row.status = Row.status /\ row.second = Row.second
      /\ row.rev = Row.rev /\ row.tgt = Row.tgt /\ row.log = Row.log
    BY RowIs DEF TaskRow
<1>4. task' = [task EXCEPT ![wk.f][wk.n] = row]
    BY <1>2, SavesIs
<1>5. /\ wk' \in Job /\ wk'.at \in {"made", "copy"} /\ wk'.f = wk.f /\ wk'.n = wk.n
      /\ wk'.tgt = wk.tgt
    BY <1>2, GoesIs DEF Steps
<1>6. recorded' \in [Films -> [{1, 2} -> 0 .. MaxRev]] /\ wk.at # "start"
    BY <1>1 DEF IInv, EngineType, MkdirActor, MadeActor, At
<1> HIDE DEF row
<1> QED BY <1>1, <1>3, <1>4, <1>5, <1>6, RowIs, DoneIs, GoesOnKeeps

LEMMA CopyKeeps ==
    ASSUME IInv, Awake, WorkRest, CopyStart
    PROVE  IInv'
<1>1. UNCHANGED <<recorded, nas>> /\ NasGrows /\ wk.at = "copy"
    BY NasSame DEF CopyStart, IInv, At
<1> DEFINE tgt == [wk.tgt EXCEPT ![wk.t] = "copying"]
           row == [Row EXCEPT !.tgt = tgt]
<1>2. /\ tgt \in [{1, 2} -> Marks]
      /\ \A t \in {1, 2} : tgt[t] = "committed" => wk.tgt[t] = "committed"
    BY RowIs DEF Marks
<1>3. task' = [task EXCEPT ![wk.f][wk.n] = row]
    BY SavesIs DEF CopyStart
<1> HIDE DEF tgt
<1>4. /\ row \in TaskRow /\ row.status = Row.status /\ row.second = Row.second
      /\ row.rev = Row.rev /\ row.tgt = tgt /\ row.log = Row.log
    BY <1>2, RowIs DEF TaskRow
<1>5. /\ wk' \in Job /\ wk'.at = "verify" /\ wk'.f = wk.f /\ wk'.n = wk.n
      /\ wk'.tgt = wk.tgt
    BY GoesIs DEF Steps, CopyStart
<1>6. recorded' \in [Films -> [{1, 2} -> 0 .. MaxRev]]
    BY <1>1 DEF IInv, EngineType
<1> HIDE DEF row
<1> QED BY <1>1, <1>2, <1>3, <1>4, <1>5, <1>6, RowIs, DoneIs, GoesOnKeeps

LEMMA VerifyKeeps ==
    ASSUME IInv, Awake, WorkRest, Verify
    PROVE  IInv'
<1>1. UNCHANGED <<recorded, nas>> /\ NasGrows /\ wk.at = "verify"
    BY NasSame DEF Verify, IInv, At
<1>2. PICK r \in TaskRow : r = Row
    BY RowIs
<1>3. wk.t \in {1, 2} /\ r.tgt \in [{1, 2} -> Marks] /\ r.log \in [{1, 2} -> SUBSET Events]
    BY <1>2, RowIs DEF TaskRow
<1>4. CASE Saves([r EXCEPT !.tgt[wk.t] = "committing", !.log[wk.t] = {"started"}])
           /\ Goes("rename")
    <2> DEFINE row == [r EXCEPT !.tgt[wk.t] = "committing", !.log[wk.t] = {"started"}]
               tgt == [r.tgt EXCEPT ![wk.t] = "committing"]
               log == [r.log EXCEPT ![wk.t] = {"started"}]
    <2>1. /\ tgt \in [{1, 2} -> Marks] /\ log \in [{1, 2} -> SUBSET Events]
          /\ \A t \in {1, 2} : tgt[t] = "committed" => r.tgt[t] = "committed"
          /\ \A t \in {1, 2} : "succeeded" \in log[t] => "succeeded" \in r.log[t]
        BY <1>3 DEF Marks, Events
    <2>2. row = [r EXCEPT !.tgt = tgt, !.log = log]
        BY DEF TaskRow
    <2>3. task' = [task EXCEPT ![wk.f][wk.n] = row]
        BY <1>4, SavesIs
    <2> HIDE DEF row, tgt, log
    <2>4. /\ row \in TaskRow /\ row.status = r.status /\ row.second = r.second
          /\ row.rev = r.rev /\ row.tgt = tgt /\ row.log = log
        BY <2>1, <2>2 DEF TaskRow
    <2>5. /\ wk' \in Job /\ wk'.at = "rename" /\ wk'.f = wk.f /\ wk'.n = wk.n
          /\ wk'.tgt = wk.tgt
        BY <1>4, GoesIs DEF Steps
    <2>6. recorded' \in [Films -> [{1, 2} -> 0 .. MaxRev]]
        BY <1>1 DEF IInv, EngineType
    <2> QED BY <1>1, <1>2, <2>1, <2>3, <2>4, <2>5, <2>6, RowIs, DoneIs, GoesOnKeeps
<1>5. CASE Ends([r EXCEPT !.tgt[wk.t] = "failed"], "failed")
    <2> DEFINE row == [r EXCEPT !.tgt[wk.t] = "failed"]
               tgt == [r.tgt EXCEPT ![wk.t] = "failed"]
    <2>1. /\ tgt \in [{1, 2} -> Marks]
          /\ \A t \in {1, 2} : tgt[t] = "committed" => r.tgt[t] = "committed"
        BY <1>3 DEF Marks
    <2>2. row = [r EXCEPT !.tgt = tgt]
        BY DEF TaskRow
    <2>3. Ends(row, "failed")
        BY <1>5
    <2> HIDE DEF row, tgt
    <2>4. /\ row \in TaskRow /\ row.second = r.second
          /\ row.rev = r.rev /\ row.tgt = tgt /\ row.log = r.log
        BY <2>1, <2>2 DEF TaskRow
    <2> QED BY <1>1, <1>2, <2>1, <2>3, <2>4, RowIs, DoneIs, EndsKeeps
<1> QED BY <1>2, <1>4, <1>5 DEF Verify

\* A folder appears where there was none.
LEMMA FolderMade ==
    ASSUME EngineType, NEW f \in Films, NEW t \in {1, 2}, NEW r \in 0 .. Foreign,
           nas[f][t] = 0, nas' = [nas EXCEPT ![f][t] = r]
    PROVE  NasGrows /\ nas'[f][t] = r
BY DEF EngineType, NasGrows

LEMMA RenameKeeps ==
    ASSUME IInv, Awake, WorkRest, Rename
    PROVE  IInv'
<1>1. UNCHANGED recorded /\ wk.at = "rename" /\ EngineType
    BY DEF Rename, IInv, At
<1>2. PICK r \in TaskRow : r = Row
    BY RowIs
<1>3. /\ wk.t \in {1, 2} /\ r.tgt \in [{1, 2} -> Marks] /\ r.log \in [{1, 2} -> SUBSET Events]
      /\ r.moved \subseteq {1, 2} /\ wk.f \in Films /\ r.rev \in 0 .. Foreign
    BY <1>2, RowIs, ArchiveAssumption DEF TaskRow, Foreign
<1>4. CASE nas[wk.f][wk.t] = 0
    <2> DEFINE moved == r.moved \cup {wk.t}
               row == [r EXCEPT !.moved = moved]
    <2>1. /\ nas' = [nas EXCEPT ![wk.f][wk.t] = r.rev]
          /\ Saves([r EXCEPT !.moved = @ \cup {wk.t}]) /\ Goes("record")
        BY <1>2, <1>4 DEF Rename
    <2>2. NasGrows /\ nas'[wk.f][wk.t] = r.rev
        <3>1. nas' = [nas EXCEPT ![wk.f][wk.t] = r.rev]
            BY <2>1
        <3>2. EngineType /\ wk.f \in Films /\ wk.t \in {1, 2} /\ r.rev \in 0 .. Foreign
            BY <1>1, <1>3
        <3> HIDE DEF row, moved
        <3> QED BY <1>4, <3>1, <3>2 DEF EngineType, NasGrows
    <2>3. row = [r EXCEPT !.moved = @ \cup {wk.t}]
        OBVIOUS
    <2>4. task' = [task EXCEPT ![wk.f][wk.n] = row]
        BY <2>1, <2>3, SavesIs
    <2>5. /\ row \in TaskRow /\ row.status = r.status /\ row.second = r.second
          /\ row.rev = r.rev /\ row.tgt = r.tgt /\ row.log = r.log
        BY <1>3 DEF TaskRow
    <2>6. /\ wk' \in Job /\ wk'.at = "record" /\ wk'.f = wk.f /\ wk'.n = wk.n
          /\ wk'.tgt = wk.tgt /\ wk'.t = wk.t
        BY <2>1, GoesIs DEF Steps
    <2>7. recorded' \in [Films -> [{1, 2} -> 0 .. MaxRev]]
        BY <1>1 DEF EngineType
    <2> HIDE DEF row, moved
    <2> QED BY <1>1, <1>2, <2>2, <2>4, <2>5, <2>6, <2>7, RowIs, DoneIs, GoesOnKeeps
<1>5. CASE nas[wk.f][wk.t] # 0
    <2> DEFINE tgt == [r.tgt EXCEPT ![wk.t] = "failed"]
               log == [r.log EXCEPT ![wk.t] = @ \cup {"failed"}]
               row == [r EXCEPT !.tgt[wk.t] = "failed", !.log[wk.t] = @ \cup {"failed"}]
    <2>1. /\ tgt \in [{1, 2} -> Marks] /\ log \in [{1, 2} -> SUBSET Events]
          /\ \A t \in {1, 2} : tgt[t] = "committed" => r.tgt[t] = "committed"
          /\ \A t \in {1, 2} : "succeeded" \in log[t] => "succeeded" \in r.log[t]
        BY <1>3 DEF Marks, Events
    <2>2. row = [r EXCEPT !.tgt = tgt, !.log = log]
        BY DEF TaskRow
    <2>3. Ends(row, "failed") /\ UNCHANGED nas
        BY <1>2, <1>5 DEF Rename
    <2> HIDE DEF row, tgt, log
    <2>4. /\ row \in TaskRow /\ row.second = r.second
          /\ row.rev = r.rev /\ row.tgt = tgt /\ row.log = log
        BY <2>1, <2>2 DEF TaskRow
    <2>5. NasGrows
        BY <1>1, <2>3, NasSame
    <2> QED BY <1>1, <1>2, <2>1, <2>3, <2>4, <2>5, RowIs, DoneIs, EndsKeeps
<1> QED BY <1>4, <1>5

LEMMA RecordKeeps ==
    ASSUME IInv, Awake, WorkRest, RecordTarget
    PROVE  IInv'
<1>1. UNCHANGED <<task, nas>> /\ wk.at = "record" /\ EngineType /\ NasGrows
    BY NasSame DEF RecordTarget, IInv, At
<1>2. wk.t \in {1, 2} /\ wk.f \in Films /\ wk.n \in Confirms(wk.f) /\ Row.rev \in 0 .. MaxRev
    BY RowIs DEF TaskRow
<1>3. recorded' \in [Films -> [{1, 2} -> 0 .. MaxRev]]
    BY <1>1, <1>2 DEF RecordTarget, EngineType
<1>4. task' = [task EXCEPT ![wk.f][wk.n] = Row]
    BY <1>1, <1>2 DEF EngineType, Row
<1>5. /\ wk' \in Job /\ wk'.at = "event" /\ wk'.f = wk.f /\ wk'.n = wk.n
      /\ wk'.tgt = wk.tgt /\ wk'.t = wk.t
    BY GoesIs DEF Steps, RecordTarget
<1> QED BY <1>1, <1>3, <1>4, <1>5, RowIs, DoneIs, GoesOnKeeps

LEMMA CommittedKeeps ==
    ASSUME IInv, Awake, WorkRest, Committed
    PROVE  IInv'
<1>1. UNCHANGED <<recorded, nas>> /\ wk.at = "event" /\ EngineType /\ NasGrows
    BY NasSame DEF Committed, IInv, At
<1>2. PICK r \in TaskRow : r = Row
    BY RowIs
<1>3. wk.t \in {1, 2} /\ r.log \in [{1, 2} -> SUBSET Events] /\ wk.tgt \in [{1, 2} -> Marks]
    BY <1>2, RowIs DEF TaskRow
<1>4. nas'[wk.f][wk.t] = r.rev
    BY <1>1, <1>2, DoneIs
<1> DEFINE log == [r.log EXCEPT ![wk.t] = @ \cup {"succeeded"}]
           row == [r EXCEPT !.log[wk.t] = @ \cup {"succeeded"}]
           tgt == [wk.tgt EXCEPT ![wk.t] = "committed"]
<1>5. /\ log \in [{1, 2} -> SUBSET Events] /\ tgt \in [{1, 2} -> Marks]
      /\ \A t \in {1, 2} : "succeeded" \in log[t] => "succeeded" \in r.log[t] \/ t = wk.t
      /\ \A t \in {1, 2} : tgt[t] = "committed" => wk.tgt[t] = "committed" \/ t = wk.t
    BY <1>3 DEF Marks, Events
<1>6. row = [r EXCEPT !.log = log]
    BY DEF TaskRow
<1>7. task' = [task EXCEPT ![wk.f][wk.n] = row] /\ wk' = NextStep(tgt)
    BY <1>2, SavesIs DEF Committed
<1> HIDE DEF log, row, tgt
<1>8. /\ row \in TaskRow /\ row.status = r.status /\ row.second = r.second
      /\ row.rev = r.rev /\ row.tgt = r.tgt /\ row.log = log
    BY <1>5, <1>6 DEF TaskRow
<1>9. /\ wk' \in Job /\ wk'.f = wk.f /\ wk'.n = wk.n /\ wk'.tgt = tgt
      /\ wk'.at \in {"finish", "mkdir", "copy"}
      /\ wk'.at = "finish" => \A t \in Targets(Row.second) : tgt[t] = "committed"
    BY <1>5, <1>7, NextStepIs
<1>10. recorded' \in [Films -> [{1, 2} -> 0 .. MaxRev]]
    BY <1>1 DEF EngineType
<1>11. /\ \A t \in {1, 2} : row.tgt[t] = "committed" => nas'[wk.f][t] = Row.rev
       /\ \A t \in {1, 2} : tgt[t] = "committed" => nas'[wk.f][t] = Row.rev
    BY <1>1, <1>2, <1>4, <1>5, <1>8, DoneIs
<1>12. \A t \in {1, 2} : "succeeded" \in row.log[t] =>
            "succeeded" \in Row.log[t] \/ nas'[wk.f][t] = Row.rev
    BY <1>2, <1>4, <1>5, <1>8
<1>13. Row.status \in {"queued", "running"}
    BY RowIs
<1> QED BY <1>1, <1>2, <1>7, <1>8, <1>9, <1>10, <1>11, <1>12, <1>13, GoesOnKeeps

LEMMA FinishKeeps ==
    ASSUME IInv, Awake, WorkRest, Finish
    PROVE  IInv'
<1>1. UNCHANGED <<recorded, nas>> /\ wk.at = "finish" /\ EngineType /\ NasGrows
    BY NasSame DEF Finish, IInv, At
<1>2. PICK r \in TaskRow : r = Row
    BY RowIs
<1> DEFINE row == [r EXCEPT !.tgt = wk.tgt]
<1>3. /\ row \in TaskRow /\ row.second = r.second
      /\ row.rev = r.rev /\ row.tgt = wk.tgt /\ row.log = r.log
    BY RowIs DEF TaskRow
<1>4. \A t \in Targets(Row.second) : wk.tgt[t] = "committed"
    BY <1>1 DEF IInv, WorkerInv
<1>5. \A t \in Targets(Row.second) : nas'[wk.f][t] = Row.rev
    BY <1>1, <1>4, DoneIs DEF Targets
<1>6. Ends(row, "completed")
    BY <1>2 DEF Finish
<1> HIDE DEF row
<1> QED BY <1>1, <1>2, <1>3, <1>5, <1>6, DoneIs, EndsKeeps

LEMMA WorksKeeps ==
    ASSUME IInv, Works
    PROVE  IInv'
<1>1. WorkRest
    BY DEF Works, WorkRest
<1>2. Awake
    BY DEF Works, Awake, At, Preflight, MkdirActor, MadeActor, CopyStart, Verify, Rename,
           RecordTarget, Committed, Finish
<1> QED BY <1>1, <1>2, PreflightKeeps, MkdirKeeps, CopyKeeps, VerifyKeeps, RenameKeeps,
           RecordKeeps, CommittedKeeps, FinishKeeps DEF Works

\* An error of the file system.
LEMMA WorkFailsKeeps ==
    ASSUME IInv, WorkFails
    PROVE  IInv'
<1>1. WorkRest /\ UNCHANGED recorded /\ EngineType
    BY DEF WorkFails, WorkRest, IInv
<1>2. Awake
    BY DEF WorkFails, Awake, At
<1>3. PICK r \in TaskRow : r = Row
    BY <1>2, RowIs
<1>4. /\ wk.t \in {1, 2} /\ r.tgt \in [{1, 2} -> Marks] /\ r.log \in [{1, 2} -> SUBSET Events]
      /\ wk.f \in Films /\ r.rev \in 0 .. Foreign /\ r.mkdir \subseteq Events
    BY <1>2, <1>3, RowIs, ArchiveAssumption DEF TaskRow, Foreign
<1>5. CASE UNCHANGED nas /\ Ends(r, "failed")
    BY <1>1, <1>2, <1>3, <1>5, NasSame, DoneIs, EndsKeeps
<1>6. CASE UNCHANGED nas /\ Ends([r EXCEPT !.mkdir = @ \cup {"failed"}], "failed")
    <2> DEFINE row == [r EXCEPT !.mkdir = @ \cup {"failed"}]
    <2>1. /\ row \in TaskRow /\ row.second = r.second
          /\ row.rev = r.rev /\ row.tgt = r.tgt /\ row.log = r.log
        BY <1>4 DEF TaskRow, Events
    <2>2. Ends(row, "failed")
        BY <1>6
    <2> HIDE DEF row
    <2> QED BY <1>1, <1>2, <1>3, <1>6, <2>1, <2>2, NasSame, DoneIs, EndsKeeps
<1>7. CASE /\ Ends([r EXCEPT !.tgt[wk.t] = "needs_review", !.log[wk.t] = @ \cup {"failed"}],
                   "needs_review")
           /\ UNCHANGED nas \/ (nas[wk.f][wk.t] = 0 /\ nas' = [nas EXCEPT ![wk.f][wk.t] = r.rev])
    <2> DEFINE tgt == [r.tgt EXCEPT ![wk.t] = "needs_review"]
               log == [r.log EXCEPT ![wk.t] = @ \cup {"failed"}]
               row == [r EXCEPT !.tgt[wk.t] = "needs_review", !.log[wk.t] = @ \cup {"failed"}]
    <2>1. /\ tgt \in [{1, 2} -> Marks] /\ log \in [{1, 2} -> SUBSET Events]
          /\ \A t \in {1, 2} : tgt[t] = "committed" => r.tgt[t] = "committed"
          /\ \A t \in {1, 2} : "succeeded" \in log[t] => "succeeded" \in r.log[t]
        BY <1>4 DEF Marks, Events
    <2>2. row = [r EXCEPT !.tgt = tgt, !.log = log]
        BY DEF TaskRow
    <2>3. Ends(row, "needs_review")
        BY <1>7
    <2> HIDE DEF row, tgt, log
    <2>4. /\ row \in TaskRow /\ row.second = r.second
          /\ row.rev = r.rev /\ row.tgt = tgt /\ row.log = log
        BY <2>1, <2>2 DEF TaskRow
    <2>5. NasGrows
        BY <1>1, <1>4, <1>7, NasSame, FolderMade
    <2> QED BY <1>1, <1>2, <1>3, <2>1, <2>3, <2>4, <2>5, DoneIs, EndsKeeps
<1> QED BY <1>3, <1>5, <1>6, <1>7 DEF WorkFails

-----------------------------------------------------------------------------
(* The queue, a stop of the engine and its recovery.                       *)

Lined(q) == q \in Seq(Tickets) /\ \A j, k \in DOMAIN q : q[j] = q[k] => j = k

LEMMA EmptyLined == Lined(<<>>)
BY DEF Lined

LEMMA TailLined ==
    ASSUME NEW q, Lined(q), q # <<>>
    PROVE  Lined(Tail(q)) /\ Head(q) \in Tickets
<1>1. q \in Seq(Tickets) /\ Len(q) > 0
    BY DEF Lined
<1>2. /\ Tail(q) \in Seq(Tickets) /\ Len(Tail(q)) = Len(q) - 1
      /\ \A i \in 1 .. Len(q) - 1 : Tail(q)[i] = q[i + 1]
    BY <1>1
<1>3. \A j, k \in 1 .. Len(q) - 1 : q[j + 1] = q[k + 1] => j + 1 = k + 1
    BY <1>1 DEF Lined
<1>4. \A j, k \in 1 .. Len(q) - 1 : j + 1 = k + 1 => j = k
    BY <1>1
<1> QED BY <1>1, <1>2, <1>3, <1>4 DEF Lined

\* Enqueue: a task stands in the queue once.
LEMMA EnqueueLined ==
    ASSUME Lined(queue), NEW f \in Films, NEW n \in Confirms(f), Enqueue(f, n)
    PROVE  Lined(queue')
<1>1. <<f, n>> \in Tickets /\ queue \in Seq(Tickets)
    BY ConfirmsIs DEF Lined
<1>2. CASE \E k \in DOMAIN queue : queue[k] = <<f, n>>
    BY <1>2 DEF Enqueue
<1>3. CASE \A k \in DOMAIN queue : queue[k] # <<f, n>>
    <2>1. queue' = Append(queue, <<f, n>>)
        BY <1>3 DEF Enqueue
    <2> QED BY <1>1, <1>3, <2>1 DEF Lined
<1> QED BY <1>2, <1>3

\* The rows rest while the engine moves.
LEMMA RowsRest ==
    ASSUME IInv, UNCHANGED task, NasGrows, UNCHANGED <<op, appr>>
    PROVE  RowInv'
<1> SUFFICES ASSUME NEW f \in Films, NEW n \in Confirms(f) PROVE RowTrue(f, n, task[f][n])'
    BY DEF RowInv, Confirms
<1>1. PICK row \in TaskRow : row = task[f][n]
    BY DEF IInv, EngineType
<1>2. RowTrue(f, n, row) /\ n \in Nat /\ op[f].n \in Nat
    BY <1>1, ConfirmsIs DEF IInv, RowInv, StoreType, Operation
<1>3. RowTrue(f, n, row)'
    BY <1>2, RowStays
<1> QED BY <1>1, <1>3

LEMMA FreezeKeeps ==
    ASSUME IInv, NEW f \in Films, NEW n \in Confirms(f),
           task[f][n].status \in {"queued", "running"}, Freeze(f, n)
    PROVE  IInv'
<1>1. /\ UNCHANGED <<recorded, nas, op, appr>> /\ NasGrows /\ HubRests
      /\ broken' = TRUE /\ queue' = <<>> /\ todo' = {} /\ wk' = Sleeping
    BY NasSame DEF Freeze, HubRests, filmRow, stages, IInv
<1>2. StoreType' /\ CleanType' /\ ApprovalInv' /\ ArchivedInv' /\ ReclaimInv'
    BY <1>1, HubFrame DEF IInv
<1>3. Sleeping \in Job /\ Sleeping.at = "idle"
    BY SleepingIs DEF IInv
<1>4. WorkerInv'
    BY <1>1, <1>3 DEF WorkerInv
<1>5. RowInv' /\ task' = [g \in Films |-> task'[g]]
      /\ \A g \in Films : task'[g] \in [Confirms(g) -> TaskRow]
    <2>1. CASE UNCHANGED task
        BY <1>1, <2>1, RowsRest DEF IInv, EngineType
    <2>2. CASE task' = [task EXCEPT ![f][n].status = "needs_review"]
        <3>1. PICK r \in TaskRow : r = task[f][n]
            BY DEF IInv, EngineType
        <3> DEFINE row == [r EXCEPT !.status = "needs_review"]
        <3>2. task' = [task EXCEPT ![f][n] = row]
            BY <2>2, <3>1 DEF IInv, EngineType
        <3>3. RowTrue(f, n, r) /\ r.status \in {"queued", "running"}
            BY <3>1 DEF IInv, RowInv
        <3>4. /\ row \in TaskRow /\ row.status = "needs_review" /\ row.second = r.second
              /\ row.rev = r.rev /\ row.tgt = r.tgt /\ row.log = r.log
            BY DEF TaskRow
        <3> HIDE DEF row
        <3>5. RowFit(f, n, row)
            BY <1>1, <3>3, <3>4 DEF RowFit, RowTrue, Kept
        <3> QED BY <1>1, <3>2, <3>4, <3>5, RowFits, RowWritten DEF IInv
    <2> QED BY <2>1, <2>2 DEF Freeze
<1>6. EngineType'
    <2>1. Lined(queue')
        BY <1>1, EmptyLined
    <2>2. broken' \in BOOLEAN /\ (frozen' # {} => broken')
        BY <1>1
    <2> QED BY <1>1, <1>3, <1>5, <2>1, <2>2 DEF IInv, EngineType, NasGrows, Lined
<1> QED BY <1>2, <1>4, <1>5, <1>6 DEF IInv

LEMMA FreezesKeep ==
    ASSUME IInv, WorkFreezes \/ \E f \in Films : \E n \in Confirms(f) : RecoverFreezes(f, n)
    PROVE  IInv'
<1>1. CASE WorkFreezes
    <2>1. Awake /\ Freeze(wk.f, wk.n)
        BY <1>1 DEF WorkFreezes, Awake
    <2> QED BY <2>1, RowIs, FreezeKeeps DEF Row
<1>2. ASSUME NEW f \in Films, NEW n \in Confirms(f), RecoverFreezes(f, n) PROVE IInv'
    BY <1>2, FreezeKeeps DEF RecoverFreezes
<1> QED BY <1>1, <1>2

LEMMA RunNextKeeps ==
    ASSUME IInv, RunNext
    PROVE  IInv'
<1>1. /\ UNCHANGED <<task, recorded, nas, op, appr, todo, broken, frozen>>
      /\ NasGrows /\ HubRests /\ todo = {} /\ wk.at = "idle"
    BY NasSame DEF RunNext, HubRests, filmRow, stages, rows, IInv, At
<1>2. StoreType' /\ CleanType' /\ ApprovalInv' /\ ArchivedInv' /\ ReclaimInv' /\ RowInv'
    BY <1>1, HubFrame, RowsRest DEF IInv
<1>3. Lined(queue') /\ Head(queue) \in Tickets
    BY TailLined DEF IInv, EngineType, RunNext, Lined
<1>4. PICK f \in Films : f = Head(queue)[1]
    BY <1>3, TicketIs
<1>44. PICK n \in Confirms(f) : n = Head(queue)[2]
    BY <1>3, <1>4, TicketIs
<1>5. n \in Nat /\ Sleeping \in Job
    BY ConfirmsIs, SleepingIs DEF IInv
<1>6. \/ wk' = wk
      \/ /\ wk' = [Sleeping EXCEPT !.at = "start", !.f = f, !.n = n]
         /\ task[f][n].status = "queued"
    BY <1>4, <1>44 DEF RunNext
<1>7. CASE wk' = wk
    <2>1. EngineType'
        BY <1>1, <1>3, <1>7 DEF IInv, EngineType, Lined
    <2>2. WorkerInv'
        BY <1>1, <1>7 DEF IInv, WorkerInv
    <2> QED BY <1>2, <2>1, <2>2 DEF IInv
<1>8. CASE wk' = [Sleeping EXCEPT !.at = "start", !.f = f, !.n = n] /\ task[f][n].status = "queued"
    <2>1. PICK job \in Job : job = Sleeping
        BY <1>5
    <2>2. wk' = [job EXCEPT !.at = "start", !.f = f, !.n = n]
        BY <1>8, <2>1
    <2>3. wk' \in Job /\ wk'.at = "start" /\ wk'.f = f /\ wk'.n = n
        BY <1>5, <2>2 DEF Job, Steps
    <2>4. EngineType'
        BY <1>1, <1>3, <2>3 DEF IInv, EngineType, Lined
    <2>5. WorkerInv'
        BY <1>1, <1>8, <2>3 DEF WorkerInv, Row
    <2> QED BY <1>2, <2>4, <2>5 DEF IInv
<1> QED BY <1>6, <1>7, <1>8

LEMMA RecoverReadsKeeps ==
    ASSUME IInv, RecoverReads
    PROVE  IInv'
<1>1. /\ UNCHANGED <<task, recorded, nas, op, appr, queue, broken, frozen>>
      /\ NasGrows /\ HubRests /\ wk' = Sleeping
    BY NasSame DEF RecoverReads, HubRests, filmRow, stages, rows, IInv
<1>2. StoreType' /\ CleanType' /\ ApprovalInv' /\ ArchivedInv' /\ ReclaimInv' /\ RowInv'
    BY <1>1, HubFrame, RowsRest DEF IInv
<1>3. Sleeping \in Job /\ Sleeping.at = "idle"
    <2>1. wk.f \in Films
        BY DEF IInv, EngineType, Job
    <2> QED BY <2>1, SleepingIs DEF IInv
<1>4. \A x \in todo' : x \in Tickets /\ task[x[1]][x[2]].status \in {"queued", "running"}
    <2>1. CASE todo' = Unfinished
        BY <2>1, ConfirmsIs DEF Unfinished
    <2>2. CASE todo' = todo
        BY <2>2 DEF IInv, EngineType, WorkerInv
    <2> QED BY <2>1, <2>2 DEF RecoverReads
<1>5. EngineType'
    BY <1>1, <1>3, <1>4 DEF IInv, EngineType
<1>6. WorkerInv'
    BY <1>1, <1>3, <1>4 DEF WorkerInv
<1> QED BY <1>2, <1>5, <1>6 DEF IInv

\* Only what is in the library is found to be committed.
LEMMA ReconciledIs ==
    ASSUME NEW f \in Films, NEW n, NEW row \in TaskRow, RowTrue(f, n, row), NEW t \in {1, 2}
    PROVE  /\ Reconciled(f, row, t) \in Marks
           /\ Reconciled(f, row, t) = "committed" => nas[f][t] = row.rev
<1> DEFINE sure == row.tgt[t] = "committed" \/ "succeeded" \in row.log[t]
           open == row.log[t] = {"started"}
           there == t \in row.moved /\ nas[f][t] = row.rev
           is == CASE sure \/ (open /\ there) -> "committed"
                   [] ~sure /\ ((open /\ ~there) \/ "failed" \in row.log[t]) -> "needs_review"
                   [] row.log[t] = {} /\ ~sure /\ t = 1 /\ row.mkdir = {"started"} ->
                        "needs_review"
                   [] OTHER -> IF row.tgt[t] \in {"copying", "committing"} THEN "failed"
                               ELSE row.tgt[t]
<1>1. Reconciled(f, row, t) = is
    BY Zenon DEF Reconciled
<1>2. row.tgt[t] \in Marks
    BY DEF TaskRow
<1>3. sure => nas[f][t] = row.rev
    BY DEF RowTrue, Kept
<1>4. CASE sure \/ (open /\ there)
    <2>1. is = "committed"
        BY <1>4
    <2> QED BY <1>1, <1>3, <1>4, <2>1 DEF Marks
<1>5. CASE ~sure /\ ~(open /\ there)
    <2>1. is \in {"needs_review", "failed"} \/ is = row.tgt[t]
        BY <1>5
    <2> HIDE DEF is
    <2> QED BY <1>1, <1>2, <1>5, <2>1 DEF Marks
<1> QED BY <1>4, <1>5

\* recover: an interrupted task is reconciled with the library.
LEMMA ReconcileFit ==
    ASSUME IInv, NEW f \in Films, NEW n \in Confirms(f), task[f][n].status = "running",
           Reconcile(f, n), UNCHANGED nas
    PROVE  /\ \E row : RowFit(f, n, row) /\ task' = [task EXCEPT ![f][n] = row]
           /\ recorded' \in [Films -> [{1, 2} -> 0 .. MaxRev]]
<1>1. PICK r \in TaskRow : r = task[f][n]
    BY DEF IInv, EngineType
<1>2. RowTrue(f, n, r) /\ r.status = "running" /\ r.rev \in Revs
    BY <1>1 DEF IInv, RowInv, RowTrue
<1> DEFINE now == [t \in {1, 2} |->
                    IF t \in Targets(r.second) THEN Reconciled(f, r, t) ELSE "pending"]
           st == {now[t] : t \in Targets(r.second)}
           found == {t \in Targets(r.second) : now[t] = "committed" /\ r.log[t] = {"started"}}
           log == [t \in {1, 2} |-> IF t \in found THEN r.log[t] \cup {"succeeded"} ELSE r.log[t]]
           status == IF st = {"committed"} THEN "completed"
                     ELSE IF "needs_review" \in st THEN "needs_review" ELSE "failed"
           row == [r EXCEPT !.tgt = now, !.log = log, !.status = status]
<1>3. /\ task' = [task EXCEPT ![f][n] = row]
      /\ recorded' = [recorded EXCEPT ![f] =
                        [t \in {1, 2} |-> IF t \in found THEN r.rev ELSE @[t]]]
    <2> DEFINE Now(x) == [t \in {1, 2} |->
                            IF t \in Targets(x.second) THEN Reconciled(f, x, t) ELSE "pending"]
               St(x) == {Now(x)[t] : t \in Targets(x.second)}
               Confirmed(x) == {t \in Targets(x.second) :
                                Now(x)[t] = "committed" /\ x.log[t] = {"started"}}
               Noted(x) == [x EXCEPT !.tgt = Now(x),
                    !.log = [t \in {1, 2} |->
                                IF t \in Confirmed(x) THEN @[t] \cup {"succeeded"} ELSE @[t]],
                    !.status = IF St(x) = {"committed"} THEN "completed"
                               ELSE IF "needs_review" \in St(x) THEN "needs_review" ELSE "failed"]
               Marked(x) == [recorded EXCEPT ![f] =
                                [t \in {1, 2} |-> IF t \in Confirmed(x) THEN x.rev ELSE @[t]]]
    <2>1. task' = [task EXCEPT ![f][n] = Noted(task[f][n])] /\ recorded' = Marked(task[f][n])
        BY Zenon DEF Reconcile
    <2> HIDE DEF Noted, Marked
    <2>2. task' = [task EXCEPT ![f][n] = Noted(r)] /\ recorded' = Marked(r)
        BY <1>1, <2>1
    <2> USE DEF Noted, Marked
    <2>3. /\ Marked(r) = [recorded EXCEPT ![f] =
                            [t \in {1, 2} |-> IF t \in found THEN r.rev ELSE @[t]]]
          /\ Noted(r) = row
        OBVIOUS
    <2> HIDE DEF Noted, Marked, row
    <2> QED BY <2>2, <2>3
<1>4. /\ now \in [{1, 2} -> Marks]
      /\ \A t \in {1, 2} : now[t] = "committed" => nas[f][t] = r.rev
    <2>1. ASSUME NEW t \in {1, 2}
          PROVE  now[t] \in Marks /\ (now[t] = "committed" => nas[f][t] = r.rev)
        BY <1>2, ReconciledIs DEF Marks
    <2> HIDE DEF now
    <2>2. now = [t \in {1, 2} |-> now[t]]
        BY DEF now
    <2> QED BY <2>1, <2>2
<1>5. /\ log \in [{1, 2} -> SUBSET Events]
      /\ \A t \in {1, 2} : "succeeded" \in log[t] => "succeeded" \in r.log[t] \/ now[t] = "committed"
    <2>1. r.log \in [{1, 2} -> SUBSET Events]
        BY DEF TaskRow
    <2>2. \A t \in found : now[t] = "committed"
        OBVIOUS
    <2> HIDE DEF found, now
    <2> QED BY <2>1, <2>2 DEF Events
<1>6. /\ status \in {"completed", "needs_review", "failed"}
      /\ status = "completed" => \A t \in Targets(r.second) : now[t] = "committed"
    <2>1. status = "completed" => st = {"committed"}
        OBVIOUS
    <2>2. \A t \in Targets(r.second) : now[t] \in st
        OBVIOUS
    <2>3. status \in {"completed", "needs_review", "failed"}
        OBVIOUS
    <2> HIDE DEF now, st, status
    <2> QED BY <2>1, <2>2, <2>3
<1>7. recorded' \in [Films -> [{1, 2} -> 0 .. MaxRev]]
    <2>1. recorded \in [Films -> [{1, 2} -> 0 .. MaxRev]] /\ r.rev \in 0 .. MaxRev
        BY DEF IInv, EngineType, TaskRow
    <2> HIDE DEF found
    <2> QED BY <1>3, <2>1
<1> HIDE DEF now, log, status
<1>8. row \in TaskRow /\ row.status = status /\ row.second = r.second
      /\ row.rev = r.rev /\ row.tgt = now /\ row.log = log
    BY <1>4, <1>5, <1>6 DEF TaskRow
<1>9. Targets(r.second) \subseteq {1, 2}
    BY DEF Targets
<1> HIDE DEF row
<1>10. RowFit(f, n, row)
    <2>1. \A t \in {1, 2} : row.tgt[t] = "committed" \/ "succeeded" \in row.log[t] =>
            nas'[f][t] = row.rev
        BY <1>2, <1>4, <1>5, <1>8 DEF RowTrue, Kept
    <2>2. row.status = "completed" => \A t \in Targets(row.second) : nas'[f][t] = row.rev
        BY <1>4, <1>6, <1>8, <1>9
    <2>3. /\ row.status # "none" /\ n <= op[f].n /\ row.rev \in Revs
          /\ op[f].st = "open" /\ n = op[f].n =>
                row.second = appr[f].second /\ row.rev = op[f].rev
        BY <1>2, <1>6, <1>8 DEF RowTrue
    <2> QED BY <1>8, <2>1, <2>2, <2>3 DEF RowFit
<1> QED BY <1>3, <1>7, <1>10

LEMMA RecoverTaskKeeps ==
    ASSUME IInv, NEW f \in Films, NEW n \in Confirms(f), RecoverTask(f, n)
    PROVE  IInv'
<1>1. /\ UNCHANGED <<nas, op, appr, broken, frozen, wk>> /\ NasGrows /\ HubRests
      /\ wk.at = "idle" /\ <<f, n>> \in todo /\ todo' = todo \ {<<f, n>>}
    BY NasSame DEF RecoverTask, HubRests, filmRow, stages, IInv, At
<1>2. StoreType' /\ CleanType' /\ ApprovalInv' /\ ArchivedInv' /\ ReclaimInv'
    BY <1>1, HubFrame DEF IInv
<1>3. task[f][n].status \in {"queued", "running"}
    BY <1>1 DEF IInv, WorkerInv
<1>4. Lined(queue)
    BY DEF IInv, EngineType, Lined
<1>5. /\ RowInv' /\ Lined(queue')
      /\ recorded' \in [Films -> [{1, 2} -> 0 .. MaxRev]]
      /\ task' = [g \in Films |-> task'[g]]
      /\ \A g \in Films : task'[g] \in [Confirms(g) -> TaskRow]
      /\ \A g \in Films : \A m \in Confirms(g) :
            g # f \/ m # n => task'[g][m] = task[g][m]
    <2>1. CASE task[f][n].status = "queued"
        <3>1. UNCHANGED <<task, recorded>> /\ Enqueue(f, n)
            BY <2>1 DEF RecoverTask, rows
        <3> QED BY <1>1, <1>4, <3>1, RowsRest, EnqueueLined DEF IInv, EngineType
    <2>2. CASE Reconcile(f, n) /\ UNCHANGED queue /\ task[f][n].status = "running"
        <3>1. Reconcile(f, n) /\ UNCHANGED queue
            BY <2>2
        <3>2. PICK row : RowFit(f, n, row) /\ task' = [task EXCEPT ![f][n] = row]
            BY <1>1, <2>2, <3>1, ReconcileFit
        <3>3. recorded' \in [Films -> [{1, 2} -> 0 .. MaxRev]]
            BY <1>1, <2>2, <3>1, ReconcileFit
        <3>4. row \in TaskRow
            BY <3>2 DEF RowFit
        <3>5. RowInv'
            BY <1>1, <3>2, RowFits DEF IInv
        <3> QED BY <1>4, <3>1, <3>2, <3>3, <3>4, <3>5, RowWritten DEF IInv
    <2>3. CASE UNCHANGED <<rows, queue>>
        <3>1. UNCHANGED <<task, recorded, queue>>
            BY <2>3 DEF rows
        <3> QED BY <1>1, <1>4, <3>1, RowsRest DEF IInv, EngineType
    <2> QED BY <1>3, <2>1, <2>2, <2>3 DEF RecoverTask
<1>6. EngineType'
    BY <1>1, <1>5 DEF IInv, EngineType, Lined
<1>7. WorkerInv'
    <2>1. ASSUME NEW x \in todo' PROVE task'[x[1]][x[2]].status \in {"queued", "running"}
        <3>1. x \in todo /\ x \in Tickets /\ x # <<f, n>>
            BY <1>1 DEF IInv, EngineType
        <3>2. x[1] \in Films /\ x[2] \in Confirms(x[1]) /\ (x[1] # f \/ x[2] # n)
            BY <3>1, TicketIs
        <3>3. task'[x[1]][x[2]] = task[x[1]][x[2]]
            BY <1>5, <3>2
        <3> QED BY <3>1, <3>3 DEF IInv, WorkerInv
    <2> QED BY <1>1, <2>1 DEF WorkerInv
<1> QED BY <1>2, <1>5, <1>6, <1>7 DEF IInv

LEMMA RestartKeeps ==
    ASSUME IInv, Restart
    PROVE  IInv'
<1>1. /\ UNCHANGED <<rev, scraped, removed, ctx, ctxN, appr, arch, op, receipt, clean>>
      /\ UNCHANGED <<retained, task, recorded, src, work, nas, dirs, snap, markers>>
      /\ NasGrows
      /\ queue' = <<>> /\ todo' = {} /\ broken' = FALSE /\ frozen' = {}
      /\ wk' = [Sleeping EXCEPT !.at = "recover"]
      /\ conf' = [f \in Films |-> None] /\ fin' = Resting
      /\ pkg' = IF pkg = "ready" THEN "rescan" ELSE pkg
    BY NasSame DEF Restart, filmRow, stages, rows, private, IInv
<1>2. PICK g \in Films : TRUE
    BY DEF IInv, EngineType, Job
<1>3. None \in Approval /\ (CHOOSE f \in Films : TRUE) \in Films
    BY <1>2, ArchiveAssumption DEF None, Approval
<1>4. StoreType'
    BY <1>1, <1>3 DEF IInv, StoreType
<1>5. EngineType' /\ WorkerInv'
    <2>1. PICK job \in Job : job = Sleeping
        BY <1>2, SleepingIs DEF IInv
    <2>2. wk' = [job EXCEPT !.at = "recover"]
        BY <1>1, <2>1
    <2>3. wk' \in Job /\ wk'.at = "recover"
        BY <2>2 DEF Job, Steps
    <2>4. Lined(queue')
        BY <1>1, EmptyLined
    <2>5. EngineType'
        BY <1>1, <2>3, <2>4 DEF IInv, EngineType, Lined
    <2> QED BY <1>1, <2>3, <2>5 DEF WorkerInv
<1>6. RowInv'
    BY <1>1, RowsRest
<1>7. ApprovalInv'
    BY <1>1 DEF IInv, ApprovalInv
<1>8. fin'.at = "idle" /\ fin'.f \in Films /\ fin'.scope \in Scopes
      /\ fin' = [at |-> fin'.at, f |-> fin'.f, scope |-> fin'.scope, got |-> fin'.got]
    BY <1>1, <1>3 DEF Resting, Scopes
<1>9. CleanType'
    BY <1>1, <1>8 DEF IInv, CleanType
<1>10. ReclaimInv'
    BY <1>1, <1>8 DEF IInv, ReclaimInv, ReclaimKept, Cleaned
<1>11. ArchivedInv'
    BY <1>1, <1>8, ArchivedFrame DEF IInv, StoreType
<1> QED BY <1>4, <1>5, <1>6, <1>7, <1>9, <1>10, <1>11 DEF IInv

-----------------------------------------------------------------------------
(* The API thread, and the dispatch thread's archive steps.                *)

LEMMA EngineStill ==
    ASSUME IInv, UNCHANGED <<rows, engine, nas, op, appr>>
    PROVE  NasGrows /\ EngineRests
<1>1. NasGrows
    BY NasSame DEF IInv
<1>2. \A f \in Films : op[f].n \in Nat
    BY DEF IInv, StoreType, Operation
<1> QED BY <1>1, <1>2 DEF EngineRests

LEMMA ApprovalsIs ==
    ASSUME IInv, NEW f \in Films
    PROVE  /\ appr[f] \in Approval /\ conf[f] \in Approval /\ None \in Approval
           /\ rev[f] \in Revs /\ rev[f] \in 0 .. MaxRev /\ ctxN[f] \in Nat
           /\ op[f] \in Operation /\ receipt[f] \in Receipt
           /\ op[f].n \in Nat /\ receipt[f].n \in Nat
           /\ MaxConfirm[f] \in Nat /\ ctxN[f] <= MaxConfirm[f]
BY ArchiveAssumption DEF IInv, StoreType, Approval, None, Operation, Receipt, Revs

LEMMA ConfirmPutKeeps ==
    ASSUME IInv, NEW f \in Films, NEW second \in BOOLEAN, ConfirmPut(f, second)
    PROVE  IInv'
<1>1. /\ UNCHANGED <<pkg, rev, scraped, removed, arch, op, receipt, clean, retained>>
      /\ UNCHANGED <<rows, engine, fin, src, nas, private>>
      /\ ctxN' = [ctxN EXCEPT ![f] = @ + 1] /\ ctx' = [ctx EXCEPT ![f] = "ready"]
      /\ appr' = [appr EXCEPT ![f] = None]
      /\ conf' = [conf EXCEPT ![f] = [second |-> second, rev |-> rev[f]]]
      /\ op[f].st # "open" /\ ctxN[f] < MaxConfirm[f]
    BY DEF ConfirmPut, PutContext, stages
<1>2. NasGrows
    BY <1>1, NasSame DEF IInv
<1>3. [second |-> second, rev |-> rev[f]] \in Approval
    BY ApprovalsIs DEF Approval
<1>4. StoreType'
    <2>1. ctxN' \in [Films -> Nat] /\ \A g \in Films : ctxN'[g] <= MaxConfirm[g]
        BY <1>1, ApprovalsIs DEF IInv, StoreType
    <2>2. ctx' \in [Films -> {"none", "ready", "srcinv", "invalid"}]
        BY <1>1 DEF IInv, StoreType
    <2>3. appr' \in [Films -> Approval] /\ conf' \in [Films -> Approval]
        BY <1>1, <1>3, ApprovalsIs DEF IInv, StoreType
    <2> QED BY <1>1, <2>1, <2>2, <2>3 DEF IInv, StoreType
<1>5. EngineRests
    <2>1. \A g \in Films : g # f => appr'[g] = appr[g]
        BY <1>1 DEF IInv, StoreType
    <2> QED BY <1>1, <1>2, <2>1, ApprovalsIs DEF EngineRests
<1>6. ApprovalInv'
    <2>1. ASSUME NEW g \in Films, g # f
          PROVE  /\ ctx'[g] = ctx[g] /\ appr'[g] = appr[g] /\ conf'[g] = conf[g]
                 /\ ctxN'[g] = ctxN[g]
        BY <1>1, <2>1 DEF IInv, StoreType
    <2>2. appr'[f] = None /\ ctxN'[f] = ctxN[f] + 1 /\ ctxN'[f] > 0 /\ ctxN'[f] > ctxN[f]
        BY <1>1, ApprovalsIs DEF IInv, StoreType
    <2>3. op[f].n <= ctxN'[f] /\ receipt[f].n <= ctxN'[f]
        BY <2>2, ApprovalsIs DEF IInv, ApprovalInv
    <2> QED BY <1>1, <2>1, <2>2, <2>3 DEF IInv, ApprovalInv
<1>7. CleanType' /\ ReclaimInv'
    BY <1>1, CleanFrame DEF IInv
<1>8. ArchivedInv'
    BY <1>1, <1>2, ArchivedFrame DEF IInv, StoreType
<1> QED BY <1>4, <1>5, <1>6, <1>7, <1>8, EngineFrame DEF IInv

LEMMA ConfirmApproveKeeps ==
    ASSUME IInv, NEW f \in Films, ConfirmApprove(f)
    PROVE  IInv'
<1>1. /\ UNCHANGED <<pkg, rev, scraped, removed, ctx, ctxN, arch, op, receipt, clean, retained>>
      /\ UNCHANGED <<rows, engine, fin, src, nas, private>>
      /\ appr' = [appr EXCEPT ![f] = conf[f]] /\ conf' = [conf EXCEPT ![f] = None]
      /\ conf[f] # None
    BY DEF ConfirmApprove, stages
<1>2. NasGrows
    BY <1>1, NasSame DEF IInv
<1>3. op[f].st # "open" /\ ctxN[f] > 0
    BY <1>1 DEF IInv, ApprovalInv
<1>4. StoreType'
    <2>1. appr' \in [Films -> Approval] /\ conf' \in [Films -> Approval]
        BY <1>1, ApprovalsIs DEF IInv, StoreType
    <2> QED BY <1>1, <2>1 DEF IInv, StoreType
<1>5. \A g \in Films : g # f => appr'[g] = appr[g] /\ conf'[g] = conf[g]
    BY <1>1 DEF IInv, StoreType
<1>6. EngineRests
    BY <1>1, <1>2, <1>3, <1>5, ApprovalsIs DEF EngineRests
<1>7. ApprovalInv'
    <2>1. conf'[f] = None
        BY <1>1 DEF IInv, StoreType
    <2> QED BY <1>1, <1>3, <1>5, <2>1 DEF IInv, ApprovalInv
<1>8. CleanType' /\ ReclaimInv'
    BY <1>1, CleanFrame DEF IInv
<1>9. ArchivedInv'
    BY <1>1, <1>2, ArchivedFrame DEF IInv, StoreType
<1> QED BY <1>4, <1>6, <1>7, <1>8, <1>9, EngineFrame DEF IInv

\* A film taken off the list; its clean-ups have not begun.
LEMMA RemoveKeeps ==
    ASSUME IInv, NEW f \in Films, RemoveFilm(f)
    PROVE  IInv'
<1>1. /\ UNCHANGED <<pkg, rev, scraped, ctx, ctxN, appr, arch, op, receipt, clean>>
      /\ UNCHANGED <<rows, engine, fin, src, nas, private>>
      /\ removed' = removed \cup {f} /\ conf' = [conf EXCEPT ![f] = None]
      /\ retained' \subseteq retained
    BY DEF RemoveFilm
<1>2. NasGrows /\ EngineRests
    BY <1>1, EngineStill
<1>3. conf' \in [Films -> Approval] /\ \A g \in Films : conf'[g] \in {conf[g], None}
    BY <1>1, ApprovalsIs DEF IInv, StoreType
<1>4. StoreType'
    BY <1>1, <1>3 DEF IInv, StoreType
<1>5. ApprovalInv'
    BY <1>1, <1>3 DEF IInv, ApprovalInv
<1>6. CleanType' /\ ReclaimInv'
    BY <1>1, CleanFrame DEF IInv
<1>7. ArchivedInv'
    BY <1>1, <1>2, ArchivedFrame DEF IInv, StoreType
<1> QED BY <1>2, <1>4, <1>5, <1>6, <1>7, EngineFrame DEF IInv

LEMMA BeginKeeps ==
    ASSUME IInv, NEW f \in Films, BeginArchive(f)
    PROVE  IInv'
<1>1. /\ UNCHANGED <<pkg, rev, scraped, removed, ctx, ctxN, appr, receipt, clean, retained>>
      /\ UNCHANGED <<rows, engine, conf, fin, src, nas, private>>
      /\ op[f].n # ctxN[f] /\ appr[f] # None /\ arch[f] \in {"pending", "failed"}
      /\ arch' = [arch EXCEPT ![f] = "running"]
      /\ op' = [op EXCEPT ![f] = [st |-> "open", n |-> ctxN[f], rev |-> rev[f]]]
    BY DEF BeginArchive, OpenAttempt, filmRow, Approved, Bound
<1>2. NasGrows
    BY <1>1, NasSame DEF IInv
<1>3. /\ ctxN[f] > 0 /\ op[f].n <= ctxN[f] /\ conf[f] = None
    BY <1>1 DEF IInv, ApprovalInv
<1>4. /\ op'[f] = [st |-> "open", n |-> ctxN[f], rev |-> rev[f]] /\ arch'[f] = "running"
      /\ \A g \in Films : g # f => op'[g] = op[g] /\ arch'[g] = arch[g]
    BY <1>1 DEF IInv, StoreType
<1>5. StoreType'
    <2>1. [st |-> "open", n |-> ctxN[f], rev |-> rev[f]] \in Operation
        BY ApprovalsIs DEF Operation
    <2>2. op' \in [Films -> Operation]
        BY <1>1, <2>1 DEF IInv, StoreType
    <2>3. arch' \in [Films -> {"pending", "running", "failed", "succeeded"}]
        BY <1>1 DEF IInv, StoreType
    <2> QED BY <1>1, <2>2, <2>3 DEF IInv, StoreType
<1>6. op'[f].n = ctxN[f] /\ op'[f].n > op[f].n /\ op'[f].n \in Nat
    BY <1>1, <1>3, <1>4, ApprovalsIs
<1>7. EngineRests
    BY <1>1, <1>2, <1>4, <1>6, ApprovalsIs DEF EngineRests
<1>8. ApprovalInv'
    BY <1>1, <1>3, <1>4, ApprovalsIs DEF IInv, ApprovalInv
<1>9. CleanType' /\ ReclaimInv'
    BY <1>1, CleanFrame DEF IInv
<1>10. ArchivedInv'
    BY <1>1, <1>2, <1>4, ArchivedFrame DEF IInv, StoreType
<1> QED BY <1>5, <1>7, <1>8, <1>9, <1>10, EngineFrame DEF IInv

\* The operation is over, and its film is not archived.
LEMMA FailKeeps ==
    ASSUME IInv, NEW f \in Films, op[f].st = "open", Fail(f),
           UNCHANGED <<pkg, filmRow, clean, retained, rows, engine, conf, fin, src, nas, private>>
    PROVE  IInv'
<1>1. /\ UNCHANGED <<pkg, rev, scraped, removed, ctx, ctxN, appr, receipt, clean, retained>>
      /\ UNCHANGED <<rows, engine, conf, fin, src, nas, private>>
      /\ op' = [op EXCEPT ![f].st = "failed"]
      /\ arch' = [arch EXCEPT ![f] = "failed"] \/ arch' = arch
    BY DEF Fail, filmRow, ExternalFact, IInv, StoreType
<1>2. NasGrows
    BY <1>1, NasSame DEF IInv
<1>3. /\ op' \in [Films -> Operation] /\ op'[f].st = "failed" /\ op'[f].n = op[f].n
      /\ \A g \in Films : g # f => op'[g] = op[g]
    BY <1>1 DEF IInv, StoreType, Operation
<1>4. /\ arch' \in [Films -> {"pending", "running", "failed", "succeeded"}]
      /\ arch'[f] = "failed" \/ arch'[f] = arch[f]
      /\ \A g \in Films : g # f => arch'[g] = arch[g]
    BY <1>1 DEF IInv, StoreType
<1>5. StoreType'
    BY <1>1, <1>3, <1>4 DEF IInv, StoreType
<1>6. EngineRests
    BY <1>1, <1>2, <1>3, ApprovalsIs DEF EngineRests
<1>7. ApprovalInv'
    BY <1>1, <1>3, <1>4 DEF IInv, ApprovalInv
<1>8. CleanType' /\ ReclaimInv'
    BY <1>1, CleanFrame DEF IInv
<1>9. arch[f] # "succeeded"
    BY DEF IInv, ApprovalInv
<1>10. ArchivedInv'
    BY <1>1, <1>2, <1>4, <1>9, ArchivedFrame DEF IInv, StoreType
<1> QED BY <1>5, <1>6, <1>7, <1>8, <1>10, EngineFrame DEF IInv

\* The task is accepted: a row of its own, for what was approved.
LEMMA AcceptedKeeps ==
    ASSUME IInv, NEW f \in Films, op[f].st = "open", Looked(f) = "none", Accepted(f),
           UNCHANGED <<stages, todo, broken, frozen, lost, wk>>,
           UNCHANGED <<pkg, filmRow, recorded, conf, fin, src, nas, private>>
    PROVE  IInv'
<1> DEFINE n == op[f].n
           row == [NoTask EXCEPT !.status = "queued", !.second = appr[f].second, !.rev = op[f].rev]
<1>1. NasGrows /\ HubRests
    BY NasSame DEF HubRests, pkgRow, IInv
<1>2. StoreType' /\ CleanType' /\ ApprovalInv' /\ ArchivedInv' /\ ReclaimInv'
    BY <1>1, HubFrame DEF IInv
<1>3. n \in Confirms(f) /\ op[f].rev \in Revs /\ op[f].rev \in 0 .. MaxRev
    BY ApprovalsIs DEF IInv, ApprovalInv, Confirms, Revs
<1>4. task[f][n].status = "none"
    BY DEF Looked
<1>5. task' = [task EXCEPT ![f][n] = row] /\ Enqueue(f, n)
    BY DEF Accepted
<1>6. /\ row.status = "queued" /\ row.second = appr[f].second /\ row.rev = op[f].rev
      /\ row.tgt = NoTask.tgt /\ row.log = NoTask.log /\ row \in TaskRow
    BY <1>3, ApprovalsIs DEF NoTask, TaskRow, Marks, Events, Approval
<1> HIDE DEF row
<1>7. RowFit(f, n, row)
    BY <1>3, <1>6, ApprovalsIs DEF RowFit, NoTask
<1>8. RowInv'
    BY <1>1, <1>3, <1>5, <1>7, RowFits DEF IInv, filmRow, stages
<1>9. /\ task' = [g \in Films |-> task'[g]]
      /\ \A g \in Films : task'[g] \in [Confirms(g) -> TaskRow]
      /\ \A g \in Films : \A m \in Confirms(g) :
            g # f \/ m # n => task'[g][m] = task[g][m]
    BY <1>3, <1>5, <1>6, RowWritten DEF IInv
<1>10. Lined(queue')
    BY <1>3, <1>5, EnqueueLined DEF IInv, EngineType, Lined
<1>11. EngineType'
    BY <1>1, <1>9, <1>10 DEF IInv, EngineType, Lined, NasGrows
<1>12. WorkerInv'
    <2>1. ASSUME NEW x \in todo PROVE task'[x[1]][x[2]].status \in {"queued", "running"}
        <3>1. task[x[1]][x[2]].status \in {"queued", "running"} /\ x \in Tickets
            BY DEF IInv, WorkerInv, EngineType
        <3>2. x[1] \in Films /\ x[2] \in Confirms(x[1]) /\ (x[1] # f \/ x[2] # n)
            BY <1>4, <3>1, TicketIs
        <3> QED BY <1>9, <3>1, <3>2
    <2>2. CASE Awake
        <3>1. wk.f \in Films /\ wk.n \in Confirms(wk.f) /\ Row.status \in {"queued", "running"}
            BY <2>2, RowIs
        <3>2. wk.f # f \/ wk.n # n
            BY <1>4, <3>1 DEF Row
        <3>3. Row' = Row
            BY <1>9, <3>1, <3>2 DEF Row
        <3> QED BY <2>1, <2>2, <3>3 DEF IInv, WorkerInv, Awake, Kept, HubRests
    <2>3. CASE ~Awake
        BY <2>1, <2>3 DEF IInv, WorkerInv, Awake
    <2> QED BY <2>2, <2>3
<1> QED BY <1>2, <1>8, <1>11, <1>12 DEF IInv

LEMMA SubmitKeeps ==
    ASSUME IInv, NEW f \in Films, Submit(f)
    PROVE  IInv'
<1>1. CASE Accepted(f) /\ UNCHANGED <<stages, todo, broken, frozen, lost, wk>>
    BY <1>1, AcceptedKeeps DEF Submit
<1>2. CASE Fail(f) /\ UNCHANGED <<clean, retained, task, engine>>
    BY <1>2, FailKeeps DEF Submit, rows
<1> QED BY <1>1, <1>2 DEF Submit

\* A completed task makes the film archived, if it is still what was approved.
LEMMA AcceptKeeps ==
    ASSUME IInv, NEW f \in Films, Accept(f)
    PROVE  IInv'
<1> DEFINE n == op[f].n
           got == [n |-> op[f].n, rev |-> op[f].rev, second |-> appr[f].second]
<1>1. /\ UNCHANGED <<pkg, rev, scraped, removed, ctx, ctxN, appr, clean, retained>>
      /\ UNCHANGED <<rows, engine, conf, fin, src, nas, private>>
      /\ op[f].st = "open" /\ Looked(f) = "completed"
      /\ op' = [op EXCEPT ![f].st = "verified"]
      /\ receipt' = [receipt EXCEPT ![f] = got]
      /\ ExternalFact(f, "succeeded")
    BY DEF Accept, TakeReceipt, filmRow
<1>2. NasGrows
    BY <1>1, NasSame DEF IInv
<1>3. /\ op' \in [Films -> Operation] /\ op'[f].st = "verified" /\ op'[f].n = op[f].n
      /\ \A g \in Films : g # f => op'[g] = op[g]
    BY <1>1 DEF IInv, StoreType, Operation
<1>4. got \in Receipt
    BY ApprovalsIs DEF Receipt, Operation, Approval
<1>5. /\ receipt' \in [Films -> Receipt] /\ receipt'[f] = got
      /\ \A g \in Films : g # f => receipt'[g] = receipt[g]
    BY <1>1, <1>4 DEF IInv, StoreType
<1>6. /\ arch' \in [Films -> {"pending", "running", "failed", "succeeded"}]
      /\ \A g \in Films : g # f => arch'[g] = arch[g]
      /\ arch'[f] = "succeeded" => arch[f] = "succeeded" \/ rev[f] = op[f].rev
    BY <1>1 DEF ExternalFact, IInv, StoreType
<1>7. /\ n \in Confirms(f) /\ n > 0 /\ arch[f] # "succeeded" /\ n = ctxN[f]
      /\ op[f].rev \in Revs
    BY <1>1, ApprovalsIs DEF IInv, ApprovalInv, Confirms
<1>8. \A t \in Targets(appr[f].second) : nas[f][t] = op[f].rev
    <2>1. task[f][n].status = "completed" /\ RowTrue(f, n, task[f][n])
        BY <1>1, <1>7 DEF Looked, IInv, RowInv
    <2> QED BY <1>1, <2>1 DEF RowTrue, Kept
<1>9. StoreType'
    BY <1>1, <1>3, <1>5, <1>6 DEF IInv, StoreType
<1>10. EngineRests
    BY <1>1, <1>2, <1>3, ApprovalsIs DEF EngineRests
<1>11. ApprovalInv'
    BY <1>1, <1>3, <1>5, <1>6, <1>7 DEF IInv, ApprovalInv
<1>12. CleanType' /\ ReclaimInv'
    BY <1>1, CleanFrame DEF IInv
<1>13. ArchivedInv'
    <2>1. \A g \in Films : arch[g] = "succeeded" =>
            arch'[g] = "succeeded" /\ receipt'[g] = receipt[g] /\ rev'[g] = rev[g]
        BY <1>1, <1>5, <1>6, <1>7
    <2>2. ArchivedMeansKept'
        <3>1. CASE arch'[f] = "succeeded"
            BY <1>1, <1>5, <1>6, <1>7, <1>8, <3>1 DEF IInv, ArchivedInv, ArchivedMeansKept
        <3>2. CASE arch'[f] # "succeeded"
            BY <1>1, <1>5, <1>6, <3>2 DEF IInv, ArchivedInv, ArchivedMeansKept
        <3> QED BY <3>1, <3>2
    <2>3. Live' = Live /\ Live \subseteq Films
        BY <1>1 DEF Live
    <2>4. OriginalsKept'
        BY <1>1, <2>1, <2>3 DEF IInv, ArchivedInv, OriginalsKept
    <2>5. \A g \in Films : arch'[g] = "succeeded" => receipt'[g].n > 0
        BY <1>5, <1>6, <1>7 DEF IInv, ArchivedInv
    <2>6. fin'.at # "idle" /\ fin'.scope = "input" => PackageArchived'
        BY <1>1, <2>1, <2>3 DEF IInv, ArchivedInv, PackageArchived
    <2> QED BY <2>2, <2>4, <2>5, <2>6 DEF ArchivedInv
<1> QED BY <1>9, <1>10, <1>11, <1>12, <1>13, EngineFrame DEF IInv

LEMMA TickKeeps ==
    ASSUME IInv, NEW f \in Films, ArchiveTick(f)
    PROVE  IInv'
<1>1. PollFailed(f) => IInv'
    BY FailKeeps DEF PollFailed
<1> QED BY <1>1, BeginKeeps, SubmitKeeps, AcceptKeeps DEF ArchiveTick

-----------------------------------------------------------------------------
(* The dispatch thread's clean-up steps.                                   *)

\* The store's rows on films stay; what the clean-up tables say may change.
LEMMA CleanKeeps ==
    ASSUME IInv, UNCHANGED <<rev, scraped, removed, ctxN, appr, arch, op, receipt, rows, engine, nas>>,
           pkg' \in {"ready", "rescan", "dirty", "attention", "retired"},
           retained' \subseteq retained,
           ctx' \in [Films -> {"none", "ready", "srcinv", "invalid"}],
           conf' \in [Films -> Approval],
           \A f \in Films : ctx'[f] # "none" => ctx[f] # "none",
           \A f \in Films : conf'[f] # None => conf'[f] = conf[f],
           src' \in [Sources -> {"same", "changed", "gone", "deleted"}],
           CleanType', ReclaimInv', ArchivedInv'
    PROVE  IInv'
<1>1. StoreType'
    BY DEF IInv, StoreType
<1>2. ApprovalInv'
    BY DEF IInv, ApprovalInv
<1>3. EngineRests
    BY EngineStill
<1> QED BY <1>1, <1>2, <1>3, EngineFrame DEF IInv

\* _admit and _cleanup: originals only after every film of the package.
LEMMA BeginCleanKeeps ==
    ASSUME IInv, NEW f \in Films, NEW scope \in Scopes, Admit(f, scope) \/ Resume(f, scope)
    PROVE  IInv'
<1>1. /\ UNCHANGED <<pkg, rev, scraped, removed, ctx, ctxN, appr, arch, op, receipt, retained>>
      /\ UNCHANGED <<rows, engine, conf, src, nas, private>>
      /\ fin' = [at |-> "clean", f |-> f, scope |-> scope, got |-> Nothing]
      /\ scope = "input" => PackageArchived
    BY DEF Admit, Resume, BeginCleanup, OthersDone, filmRow, stages
<1>2. NasGrows
    BY <1>1, NasSame DEF IInv
<1>3. /\ clean' = [g \in Films |-> [s \in Scopes |-> clean'[g][s]]]
      /\ \A g \in Films : clean'[g]["workcopy"].st = "succeeded" =>
            clean[g]["workcopy"].st = "succeeded"
    <2>1. CASE UNCHANGED clean
        BY <2>1 DEF IInv, CleanType
    <2>2. CASE Admit(f, scope)
        <3>1. PICK x : clean' = [clean EXCEPT ![f][scope] = [st |-> "running", items |-> x]]
            BY <2>2 DEF Admit, BeginCleanup
        <3>2. "workcopy" \in Scopes
            BY DEF Scopes
        <3> QED BY <3>1, <3>2 DEF IInv, CleanType
    <2> QED BY <2>1, <2>2 DEF Resume, stages
<1>4. CleanType'
    BY <1>1, <1>3 DEF IInv, CleanType, private
<1>5. ReclaimInv'
    BY <1>1, <1>3 DEF IInv, ReclaimInv, ReclaimKept, Cleaned, private
<1>6. ArchivedInv'
    BY <1>1, <1>2, ArchivedFrame DEF IInv, StoreType
<1>7. src' \in [Sources -> {"same", "changed", "gone", "deleted"}] /\ conf' \in [Films -> Approval]
    BY <1>1 DEF IInv, StoreType
<1> QED BY <1>1, <1>4, <1>5, <1>6, <1>7, CleanKeeps DEF IInv, StoreType

\* delete_exact: the films made from the original are in the library.
LEMMA DeleteKeeps ==
    ASSUME IInv, NEW i \in Items, DeleteExact(i)
    PROVE  IInv'
<1>1. /\ UNCHANGED <<pkg, rev, scraped, removed, ctx, ctxN, appr, arch, op, receipt, clean, retained>>
      /\ UNCHANGED <<rows, engine, conf, nas, private>>
      /\ fin.at = "clean"
    BY DEF DeleteExact, filmRow, stages
<1>2. PICK x : fin' = [fin EXCEPT !.got = x]
    BY DEF DeleteExact
<1>3. fin'.at = fin.at /\ fin'.f = fin.f /\ fin'.scope = fin.scope
      /\ fin' = [at |-> fin'.at, f |-> fin'.f, scope |-> fin'.scope, got |-> fin'.got]
    BY <1>2 DEF IInv, CleanType
<1>4. UNCHANGED src \/ (fin.scope = "input" /\ src' = [src EXCEPT ![i] = "deleted"])
    BY DEF DeleteExact, Unlink
<1>5. NasGrows
    BY <1>1, NasSame DEF IInv
<1>6. CleanType'
    BY <1>1, <1>3 DEF IInv, CleanType, private
<1>7. ReclaimInv'
    BY <1>1, <1>3 DEF IInv, ReclaimInv, ReclaimKept, Cleaned, private
<1>8. ArchivedInv'
    <2>1. Live' = Live /\ Live \subseteq Films
        BY <1>1 DEF Live
    <2>2. OriginalsKept'
        <3>1. CASE UNCHANGED src
            BY <1>1, <2>1, <3>1 DEF IInv, ArchivedInv, OriginalsKept
        <3>2. CASE fin.scope = "input"
            <4>1. \A f \in Live : arch[f] = "succeeded"
                BY <1>1, <3>2 DEF IInv, ArchivedInv, PackageArchived
            <4>2. \A f \in Live : \A t \in Targets(receipt[f].second) : nas[f][t] = rev[f]
                BY <2>1, <4>1 DEF IInv, ArchivedInv, ArchivedMeansKept
            <4> QED BY <1>1, <2>1, <4>1, <4>2 DEF OriginalsKept
        <3> QED BY <1>4, <3>1, <3>2
    <2>3. ArchivedMeansKept'
        BY <1>1 DEF IInv, ArchivedInv, ArchivedMeansKept
    <2>4. fin'.at # "idle" /\ fin'.scope = "input" => PackageArchived'
        BY <1>1, <1>3, <2>1 DEF IInv, ArchivedInv, PackageArchived
    <2> QED BY <1>1, <2>2, <2>3, <2>4 DEF IInv, ArchivedInv
<1>9. src' \in [Sources -> {"same", "changed", "gone", "deleted"}] /\ conf' \in [Films -> Approval]
    BY <1>1, <1>4 DEF IInv, StoreType
<1> QED BY <1>1, <1>6, <1>7, <1>8, <1>9, CleanKeeps DEF IInv, StoreType

\* The marker, then the result.
LEMMA ResultKeeps ==
    ASSUME IInv, TouchMarker \/ RecordResult
    PROVE  IInv'
<1>1. /\ UNCHANGED <<pkg, rev, scraped, removed, ctx, ctxN, appr, arch, op, receipt>>
      /\ UNCHANGED <<rows, engine, conf, src, nas, dirs, snap>>
      /\ retained' \subseteq retained
    BY DEF TouchMarker, RecordResult, filmRow, stages, private
<1>2. NasGrows
    BY <1>1, NasSame DEF IInv
<1>3. PICK g \in Films : g = fin.f
    BY DEF IInv, CleanType
<1>4. CASE TouchMarker
    <2>1. UNCHANGED clean /\ markers' = markers \cup {g} /\ fin' = [fin EXCEPT !.at = "record"]
          /\ fin.at = "clean"
        BY <1>3, <1>4 DEF TouchMarker, stages
    <2>2. /\ fin'.at = "record" /\ fin'.f = fin.f /\ fin'.scope = fin.scope
          /\ fin' = [at |-> fin'.at, f |-> fin'.f, scope |-> fin'.scope, got |-> fin'.got]
        BY <2>1 DEF IInv, CleanType
    <2>3. CleanType' /\ ReclaimInv'
        BY <1>1, <1>3, <2>1, <2>2 DEF IInv, CleanType, ReclaimInv, ReclaimKept, Cleaned
    <2>4. ArchivedInv'
        BY <1>1, <1>2, <2>1, <2>2, ArchivedFrame DEF IInv, StoreType
    <2>5. src' \in [Sources -> {"same", "changed", "gone", "deleted"}]
          /\ conf' \in [Films -> Approval]
        BY <1>1 DEF IInv, StoreType
    <2> QED BY <1>1, <2>3, <2>4, <2>5, CleanKeeps DEF IInv, StoreType
<1>5. CASE RecordResult
    <2>1. fin.at = "record" /\ fin' = Resting /\ UNCHANGED markers
        BY <1>5 DEF RecordResult, private
    <2>2. PICK x : clean' = [clean EXCEPT ![g][fin.scope] = x]
        BY <1>3, <1>5 DEF RecordResult
    <2>3. /\ clean' = [h \in Films |-> [s \in Scopes |-> clean'[h][s]]]
          /\ \A h \in Films : h # g => clean'[h] = clean[h]
        BY <2>2 DEF IInv, CleanType
    <2>4. /\ fin'.at = "idle" /\ fin'.f \in Films /\ fin'.scope \in Scopes
          /\ fin' = [at |-> fin'.at, f |-> fin'.f, scope |-> fin'.scope, got |-> fin'.got]
        BY <1>3, <2>1 DEF Resting, Scopes
    <2>5. CleanType'
        BY <1>1, <2>1, <2>3, <2>4 DEF IInv, CleanType
    <2>6. g \in markers
        BY <1>3, <2>1 DEF IInv, ReclaimInv
    <2>7. ReclaimInv'
        BY <1>1, <2>1, <2>3, <2>4, <2>6 DEF IInv, ReclaimInv, ReclaimKept, Cleaned
    <2>8. ArchivedInv'
        BY <1>1, <1>2, <2>1, <2>4, ArchivedFrame DEF IInv, StoreType
    <2>9. src' \in [Sources -> {"same", "changed", "gone", "deleted"}]
          /\ conf' \in [Films -> Approval]
        BY <1>1 DEF IInv, StoreType
    <2> QED BY <1>1, <2>5, <2>7, <2>8, <2>9, CleanKeeps DEF IInv, StoreType
<1> QED BY <1>4, <1>5

LEMMA InvalidateIs ==
    ASSUME IInv, Invalidate
    PROVE  /\ ctx' \in [Films -> {"none", "ready", "srcinv", "invalid"}]
           /\ conf' \in [Films -> Approval]
           /\ \A f \in Films : ctx'[f] # "none" => ctx[f] # "none"
           /\ \A f \in Films : conf'[f] # None => conf'[f] = conf[f]
BY ApprovalsIs DEF Invalidate, IInv, StoreType

LEMMA UnconfirmedIs ==
    ASSUME IInv, UNCHANGED <<ctx, conf>>
    PROVE  /\ ctx' \in [Films -> {"none", "ready", "srcinv", "invalid"}]
           /\ conf' \in [Films -> Approval]
           /\ \A f \in Films : ctx'[f] # "none" => ctx[f] # "none"
           /\ \A f \in Films : conf'[f] # None => conf'[f] = conf[f]
BY DEF IInv, StoreType

\* _reclaim: a marker goes when nothing is left.
LEMMA ReclaimKeeps ==
    ASSUME IInv, NEW f \in Films, Reclaim(f)
    PROVE  IInv'
<1>1. /\ UNCHANGED <<rev, scraped, removed, ctxN, appr, arch, op, receipt, clean, retained>>
      /\ UNCHANGED <<rows, engine, fin, src, nas>> /\ fin.at = "idle"
    BY DEF Reclaim, stages
<1>2. NasGrows
    BY <1>1, NasSame DEF IInv
<1>3. dirs' \subseteq dirs /\ snap' \in BOOLEAN /\ (snap' => snap)
    BY DEF Reclaim, ReclaimFilm, ReclaimSnapshot, IInv, CleanType
<1>4. /\ pkg' \in {pkg, "retired"}
      /\ ctx' \in [Films -> {"none", "ready", "srcinv", "invalid"}]
      /\ conf' \in [Films -> Approval]
      /\ \A g \in Films : ctx'[g] # "none" => ctx[g] # "none"
      /\ \A g \in Films : conf'[g] # None => conf'[g] = conf[g]
    BY InvalidateIs, UnconfirmedIs DEF Reclaim, Retire
<1>5. /\ markers' \subseteq markers /\ \A g \in Films : g \in markers /\ g # f => g \in markers'
      /\ f \notin markers' => f \notin dirs' /\ ~snap' /\ pkg' = "retired"
    BY DEF Reclaim, ReclaimComplete
<1>6. CleanType'
    BY <1>1, <1>3, <1>5, Zenon DEF IInv, CleanType
<1>7. ReclaimInv'
    <2>1. ASSUME NEW g \in Films, g \notin markers', Cleaned(g, "workcopy")
          PROVE  g \notin dirs' /\ ~snap' /\ pkg' = "retired"
        <3>1. CASE g = f
            BY <1>5, <2>1, <3>1
        <3>2. CASE g # f
            <4>1. g \notin markers
                BY <1>5, <2>1, <3>2
            <4> QED BY <1>3, <1>4, <2>1, <4>1 DEF IInv, ReclaimInv, ReclaimKept
        <3> QED BY <3>1, <3>2
    <2> QED BY <1>1, <2>1 DEF ReclaimInv, ReclaimKept, Cleaned
<1>8. ArchivedInv'
    BY <1>1, <1>2, ArchivedFrame DEF IInv, StoreType
<1>9. /\ pkg' \in {"ready", "rescan", "dirty", "attention", "retired"}
      /\ src' \in [Sources -> {"same", "changed", "gone", "deleted"}]
    BY <1>1, <1>4 DEF IInv, StoreType
<1> QED BY <1>1, <1>4, <1>6, <1>7, <1>8, <1>9, CleanKeeps

-----------------------------------------------------------------------------
(* Intake, the disks and the NAS.                                          *)

\* A notice of the watcher, and a rescan that finds no new revision.
LEMMA NoticeKeeps ==
    ASSUME IInv, Touch \/ RescanSame \/ RescanChanged
    PROVE  IInv'
<1>1. /\ UNCHANGED <<rev, scraped, removed, ctxN, appr, arch, op, receipt, clean, retained>>
      /\ UNCHANGED <<rows, engine, fin, src, nas, private>>
      /\ pkg # "retired" /\ pkg' \in {"dirty", "ready", "attention"}
      /\ Invalidate \/ UNCHANGED <<ctx, conf>>
    BY DEF Touch, RescanSame, RescanChanged, filmRow, stages
<1>2. NasGrows
    BY <1>1, NasSame DEF IInv
<1>3. CleanType' /\ ReclaimInv'
    BY <1>1, CleanFrame DEF IInv
<1>4. ArchivedInv'
    BY <1>1, <1>2, ArchivedFrame DEF IInv, StoreType
<1>5. src' \in [Sources -> {"same", "changed", "gone", "deleted"}]
    BY <1>1 DEF IInv, StoreType
<1> QED BY <1>1, <1>3, <1>4, <1>5, InvalidateIs, UnconfirmedIs, CleanKeeps

\* A new revision of the films: none of them is archived.
LEMMA ReingestKeeps ==
    ASSUME IInv, Reingest
    PROVE  IInv'
<1> DEFINE Revised(f) == IF f \in Live THEN rev[f] + 1 ELSE rev[f]
           Added == UNION {{<<f, Revised(f), s>> : s \in Inputs[f]} : f \in Live}
<1>1. /\ UNCHANGED <<removed, ctxN, appr, op, receipt, rows, engine, fin, nas, private>>
      /\ pkg' = "ready" /\ pkg # "retired" /\ src' = [s \in Sources |-> "same"]
      /\ scraped' = scraped \ Live
      /\ rev' = [f \in Films |-> Revised(f)] /\ \A f \in Live : rev[f] < MaxRev
      /\ ctx' = [f \in Films |-> IF ctx[f] # "none" THEN "invalid" ELSE "none"]
      /\ conf' = [f \in Films |-> None]
      /\ arch' = [f \in Films |-> IF f \in Live THEN "pending" ELSE arch[f]]
      /\ clean' = [f \in Films |-> IF f \in Live THEN [s \in Scopes |-> Pending] ELSE clean[f]]
      /\ \A f \in Films : receipt[f].n = 0
    BY DEF Reingest, ReceiptHeld
<1>2. retained' \subseteq retained \cup Added
    BY DEF Reingest
<1>3. NasGrows /\ EngineRests
    BY <1>1, EngineStill
<1>4. \A f \in Films : Revised(f) \in Revs
    <2>1. \A f \in Films : rev[f] \in Revs
        BY DEF IInv, StoreType
    <2> QED BY <1>1, <2>1, ArchiveAssumption DEF Revs
<1>5. StoreType'
    <2>1. Added \subseteq Films \X Revs \X Sources
        <3>1. Live \subseteq Films /\ \A f \in Films : Inputs[f] \subseteq Sources
            BY ArchiveAssumption DEF Live
        <3> HIDE DEF Revised
        <3> QED BY <1>4, <3>1
    <2>2. retained' \subseteq Films \X Revs \X Sources
        BY <1>2, <2>1 DEF IInv, StoreType
    <2>3. rev' \in [Films -> Revs]
        BY <1>1, <1>4
    <2>4. conf' \in [Films -> Approval]
        BY <1>1, ApprovalsIs
    <2>5. /\ ctx' \in [Films -> {"none", "ready", "srcinv", "invalid"}]
          /\ arch' \in [Films -> {"pending", "running", "failed", "succeeded"}]
          /\ scraped' \subseteq Films
          /\ src' \in [Sources -> {"same", "changed", "gone", "deleted"}]
        BY <1>1 DEF IInv, StoreType
    <2> HIDE DEF Added, Revised
    <2> QED BY <1>1, <2>2, <2>3, <2>4, <2>5 DEF IInv, StoreType
<1>6. \A f \in Films : arch[f] # "succeeded" /\ arch'[f] # "succeeded"
    BY <1>1 DEF IInv, ArchivedInv
<1>7. ApprovalInv'
    <2>1. \A f \in Films : conf'[f] = None /\ (ctx'[f] # "none" => ctx[f] # "none")
        BY <1>1
    <2> QED BY <1>1, <1>6, <2>1 DEF IInv, ApprovalInv
<1>8. /\ clean' = [f \in Films |-> [s \in Scopes |-> clean'[f][s]]]
      /\ \A f \in Films : clean'[f]["workcopy"].st = "succeeded" =>
            clean[f]["workcopy"].st = "succeeded"
    <2>1. \A f \in Films : clean'[f] \in {clean[f], [s \in Scopes |-> Pending]}
        BY <1>1
    <2>2. "workcopy" \in Scopes /\ Pending.st = "pending"
        BY DEF Scopes, Pending
    <2>3. \A f \in Films : clean[f] = [s \in Scopes |-> clean[f][s]]
        BY DEF IInv, CleanType
    <2>4. \A f \in Films : clean'[f] = [s \in Scopes |-> clean'[f][s]]
        BY <2>1, <2>3
    <2> QED BY <1>1, <2>1, <2>2, <2>4
<1>9. CleanType'
    BY <1>1, <1>8 DEF IInv, CleanType, private
<1>10. ReclaimInv'
    BY <1>1, <1>8 DEF IInv, ReclaimInv, ReclaimKept, Cleaned, private
<1>11. ArchivedInv'
    BY <1>1, <1>3, <1>6, ArchivedFrame DEF IInv, StoreType
<1> QED BY <1>3, <1>5, <1>7, <1>9, <1>10, <1>11, EngineFrame DEF IInv

LEMMA ScrapeKeeps ==
    ASSUME IInv, NEW f \in Films, ScrapeAgain(f)
    PROVE  IInv'
<1>1. /\ UNCHANGED <<pkg, rev, removed, ctx, ctxN, appr, arch, op, receipt, clean, retained>>
      /\ UNCHANGED <<rows, engine, conf, fin, src, nas, private>>
      /\ scraped' \subseteq Films
    BY DEF ScrapeAgain, stages, IInv, StoreType
<1>2. NasGrows /\ EngineRests
    BY <1>1, EngineStill
<1>3. StoreType'
    BY <1>1 DEF IInv, StoreType
<1>4. ApprovalInv'
    BY <1>1 DEF IInv, ApprovalInv
<1>5. CleanType' /\ ReclaimInv'
    BY <1>1, CleanFrame DEF IInv
<1>6. ArchivedInv'
    BY <1>1, <1>2, ArchivedFrame DEF IInv, StoreType
<1> QED BY <1>2, <1>3, <1>4, <1>5, <1>6, EngineFrame DEF IInv

LEMMA DisturbKeeps ==
    ASSUME IInv, Disturb
    PROVE  IInv'
<1>1. /\ UNCHANGED <<pkg, rev, scraped, removed, ctx, ctxN, appr, arch, op, receipt, clean>>
      /\ UNCHANGED <<retained, rows, engine, conf, fin, private>>
    BY DEF Disturb, filmRow, stages
<1>2. /\ src' \in [Sources -> {"same", "changed", "gone", "deleted"}]
      /\ \A s \in Sources : src'[s] = "deleted" => src[s] = "deleted"
    <2>1. src \in [Sources -> {"same", "changed", "gone", "deleted"}]
        BY DEF IInv, StoreType
    <2>2. CASE UNCHANGED src
        BY <2>1, <2>2
    <2>3. ASSUME NEW s \in Sources, ReplaceSource(s) \/ RemoveSource(s)
          PROVE  /\ src' \in [Sources -> {"same", "changed", "gone", "deleted"}]
                 /\ \A z \in Sources : src'[z] = "deleted" => src[z] = "deleted"
        BY <2>1, <2>3 DEF ReplaceSource, RemoveSource
    <2> QED BY <2>2, <2>3 DEF Disturb, ChangeWork, ForeignFolder
<1>3. NasGrows
    <2>1. CASE UNCHANGED nas
        BY <2>1, NasSame DEF IInv
    <2>2. ASSUME NEW f \in Films, NEW t \in {1, 2}, ForeignFolder(f, t) PROVE NasGrows
        <3>1. Foreign \in 0 .. Foreign
            BY ArchiveAssumption DEF Foreign
        <3>2. nas[f][t] = 0 /\ nas' = [nas EXCEPT ![f][t] = Foreign]
            BY <2>2 DEF ForeignFolder
        <3> QED BY <3>1, <3>2, FolderMade DEF IInv
    <2> QED BY <2>1, <2>2 DEF Disturb, ReplaceSource, RemoveSource, ChangeWork
<1>4. EngineRests
    BY <1>1, <1>3, ApprovalsIs DEF EngineRests
<1>5. StoreType'
    BY <1>1, <1>2 DEF IInv, StoreType
<1>6. ApprovalInv'
    BY <1>1 DEF IInv, ApprovalInv
<1>7. CleanType' /\ ReclaimInv'
    BY <1>1, CleanFrame DEF IInv
<1>8. ArchivedInv'
    BY <1>1, <1>2, <1>3, ArchivedFrame DEF IInv, StoreType
<1> QED BY <1>4, <1>5, <1>6, <1>7, <1>8, EngineFrame DEF IInv

-----------------------------------------------------------------------------
(* The theorems.                                                           *)

LEMMA InitInv == Init => IInv
<1> SUFFICES ASSUME Init PROVE IInv
    OBVIOUS
<1>1. None \in Approval /\ 1 \in Revs /\ 0 \in 0 .. MaxRev /\ 0 \in 0 .. Foreign
    BY ArchiveAssumption DEF None, Approval, Revs, Foreign
<1>2. NoTask \in TaskRow
    BY <1>1 DEF NoTask, TaskRow, Marks, Events
<1>3. (CHOOSE g \in Films : TRUE) \in Films
    BY ArchiveAssumption
<1>4. EngineType
    <2>1. Sleeping \in Job /\ Sleeping.at = "idle"
        <3>1. NoTask.tgt \in [{1, 2} -> Marks]
            BY DEF NoTask, Marks
        <3> QED BY <1>3, <3>1 DEF Sleeping, Job, Steps
    <2>2. Lined(queue)
        BY EmptyLined DEF Init
    <2>3. task = [g \in Films |-> task[g]] /\ \A g \in Films : task[g] \in [Confirms(g) -> TaskRow]
        BY <1>2 DEF Init
    <2>4. /\ recorded \in [Films -> [{1, 2} -> 0 .. MaxRev]]
          /\ nas \in [Films -> [{1, 2} -> 0 .. Foreign]]
        BY <1>1 DEF Init
    <2> QED BY <2>1, <2>2, <2>3, <2>4 DEF Init, EngineType, Lined
<1>5. StoreType
    <2>1. retained \subseteq Films \X Revs \X Sources
        BY <1>1, ArchiveAssumption DEF Init, Refs
    <2>2. op \in [Films -> Operation] /\ receipt \in [Films -> Receipt]
        BY <1>1 DEF Init, Operation, Receipt
    <2>3. ctxN \in [Films -> Nat] /\ \A g \in Films : ctxN[g] <= MaxConfirm[g]
        BY ArchiveAssumption DEF Init
    <2> QED BY <1>1, <2>1, <2>2, <2>3 DEF Init, StoreType
<1>6. fin.at = "idle" /\ fin.f \in Films /\ fin.scope \in Scopes
      /\ fin = [at |-> fin.at, f |-> fin.f, scope |-> fin.scope, got |-> fin.got]
    BY <1>3 DEF Init, Resting, Scopes
<1>7. CleanType
    BY <1>6 DEF Init, CleanType
<1>8. ApprovalInv
    BY DEF Init, ApprovalInv
<1>9. RowInv
    <2>1. \A g \in Films : \A n \in Confirms(g) : task[g][n] = NoTask
        BY DEF Init
    <2> QED BY <2>1 DEF RowInv, RowTrue, NoTask
<1>10. WorkerInv
    BY DEF Init, WorkerInv, Sleeping
<1>11. ArchivedInv
    BY <1>6 DEF Init, ArchivedInv, ArchivedMeansKept, OriginalsKept
<1>12. ReclaimInv
    BY <1>6 DEF Init, ReclaimInv, ReclaimKept, Cleaned, Pending, Scopes
<1> QED BY <1>4, <1>5, <1>7, <1>8, <1>9, <1>10, <1>11, <1>12 DEF IInv

LEMMA SameKeeps ==
    ASSUME IInv, UNCHANGED vars
    PROVE  IInv'
<1>1. /\ UNCHANGED <<pkg, rev, scraped, removed, ctx, ctxN, appr, arch, op, receipt, clean>>
      /\ UNCHANGED <<retained, rows, engine, conf, fin, src, nas, private>>
    BY DEF vars, pkgRow, filmRow, stages
<1>2. NasGrows /\ EngineRests
    BY <1>1, EngineStill
<1>3. HubRests
    BY <1>1, <1>2 DEF HubRests, pkgRow, filmRow, stages
<1> QED BY <1>2, <1>3, HubFrame, EngineFrame DEF IInv

LEMMA StepInv == IInv /\ [Next]_vars => IInv'
<1> SUFFICES ASSUME IInv, [Next]_vars PROVE IInv'
    OBVIOUS
<1>1. CASE Dispatch
    <2>1. ASSUME CleanTick PROVE IInv'
        BY <2>1, BeginCleanKeeps, DeleteKeeps, ResultKeeps DEF CleanTick
    <2> QED BY <1>1, <2>1, TickKeeps, ReclaimKeeps DEF Dispatch
<1>2. CASE Worker
    BY <1>2, RunNextKeeps, WorksKeeps, RecoverReadsKeeps, RecoverTaskKeeps DEF Worker
<1>3. CASE Intake
    BY <1>3, NoticeKeeps, ReingestKeeps DEF Intake
<1>4. ASSUME NEW f \in Films, NEW second \in BOOLEAN,
             ConfirmPut(f, second) \/ ConfirmApprove(f) \/ RemoveFilm(f) \/ ScrapeAgain(f)
      PROVE  IInv'
    BY <1>4, ConfirmPutKeeps, ConfirmApproveKeeps, RemoveKeeps, ScrapeKeeps
<1>5. CASE UNCHANGED vars
    BY <1>5, SameKeeps
<1> QED BY <1>1, <1>2, <1>3, <1>4, <1>5, WorkFailsKeeps, FreezesKeep, RestartKeeps, DisturbKeeps
    DEF Next

\* The whole argument is an invariant of every run, whatever the films, their
\* originals and the bounds.
THEOREM Invariance == Spec => []IInv
BY InitInv, StepInv, PTL DEF Spec

LEMMA InvSafe == IInv => LibrarySafe
<1> SUFFICES ASSUME IInv PROVE LibrarySafe
    OBVIOUS
<1>1. ArchivedMeansKept /\ OriginalsKept /\ ReclaimKept
    BY DEF IInv, ArchivedInv, ReclaimInv
<1>2. \A f \in Films : ctxN[f] \in 0 .. MaxConfirm[f] /\ receipt[f].n \in 0 .. ctxN[f]
    BY ApprovalsIs DEF IInv, ApprovalInv
<1>3. \A f \in Films : op[f].st \in {"none", "open", "failed", "verified"}
    BY ApprovalsIs DEF Operation
<1>4. TypeOK
    BY <1>2, <1>3 DEF IInv, StoreType, EngineType, CleanType, TypeOK
<1> QED BY <1>1, <1>4 DEF LibrarySafe

\* Whatever the operator confirms, removes and repeats, whatever fails, stops or
\* changes on the disks: a film counts as archived only with its packages in the
\* library, an original is deleted only when every film made from it is, and no
\* clean-up is forgotten.
THEOREM Safe == Spec => []LibrarySafe
BY Invariance, InvSafe, PTL

LEMMA StepNas == IInv /\ [Next]_vars =>
    \A f \in Films, t \in {1, 2} : nas[f][t] # 0 => nas'[f][t] = nas[f][t]
<1> SUFFICES ASSUME IInv, [Next]_vars
             PROVE  \A f \in Films, t \in {1, 2} : nas[f][t] # 0 => nas'[f][t] = nas[f][t]
    OBVIOUS
<1>1. CASE UNCHANGED nas
    BY <1>1
<1>2. ASSUME NEW f \in Films, NEW t \in {1, 2}, nas[f][t] = 0, NEW r,
             nas' = [nas EXCEPT ![f][t] = r]
      PROVE  \A g \in Films, u \in {1, 2} : nas[g][u] # 0 => nas'[g][u] = nas[g][u]
    BY <1>2 DEF IInv, EngineType
<1>3. CASE Works
    <2>1. CASE Rename
        <3>1. wk.f \in Films /\ wk.t \in {1, 2}
            BY <2>1, RowIs DEF Rename, At, Awake
        <3> QED BY <1>1, <1>2, <2>1, <3>1 DEF Rename
    <2> QED BY <1>1, <1>3, <2>1
        DEF Works, Preflight, MkdirActor, MadeActor, CopyStart, Verify, RecordTarget,
            Committed, Finish
<1>4. CASE WorkFails
    <2>1. wk.f \in Films /\ wk.t \in {1, 2}
        BY <1>4, RowIs DEF WorkFails, At, Awake
    <2> QED BY <1>1, <1>2, <1>4, <2>1 DEF WorkFails
<1>5. CASE Disturb
    BY <1>1, <1>2, <1>5 DEF Disturb, ReplaceSource, RemoveSource, ChangeWork, ForeignFolder
<1>6. CASE Dispatch
    BY <1>1, <1>6
       DEF Dispatch, CleanTick, Admit, Resume, DeleteExact, TouchMarker, RecordResult,
           ArchiveTick, BeginArchive, Submit, Accept, PollFailed, Reclaim
<1>7. CASE Worker
    BY <1>1, <1>3, <1>7 DEF Worker, RunNext, RecoverReads, RecoverTask
<1>8. CASE WorkFreezes \/ Restart \/ \E f \in Films : \E n \in Confirms(f) : RecoverFreezes(f, n)
    BY <1>1, <1>8 DEF WorkFreezes, RecoverFreezes, Freeze, Restart
<1>9. CASE Intake
    BY <1>1, <1>9 DEF Intake, Touch, RescanSame, RescanChanged, Reingest
<1>10. ASSUME NEW f \in Films, NEW second \in BOOLEAN,
              ConfirmPut(f, second) \/ ConfirmApprove(f) \/ RemoveFilm(f) \/ ScrapeAgain(f)
       PROVE  UNCHANGED nas
    BY <1>10 DEF ConfirmPut, ConfirmApprove, RemoveFilm, ScrapeAgain
<1>11. CASE UNCHANGED vars
    BY <1>1, <1>11 DEF vars
<1> QED BY <1>1, <1>4, <1>5, <1>6, <1>7, <1>8, <1>9, <1>10, <1>11 DEF Next

\* No step replaces a folder of the library, whoever made it.
THEOREM NeverOver == Spec => NoOverwrite
<1>1. IInv /\ [Next]_vars =>
        [\A f \in Films, t \in {1, 2} : nas[f][t] # 0 => nas'[f][t] = nas[f][t]]_vars
    BY StepNas
<1> QED BY <1>1, Invariance, PTL DEF Spec, NoOverwrite
=============================================================================
