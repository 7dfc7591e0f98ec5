-------------------------- MODULE SupervisorProofs --------------------------
(***************************************************************************)
(* That the runtimes of one monitor stay apart, for any number of API      *)
(* threads, runtimes and faults.  The argument: at most one operation has  *)
(* the instance reserved; the runtime it prepares has no worker before it  *)
(* is registered; and a runtime leaves the books only when it is complete, *)
(* which nothing undoes.  So every runtime whose worker is not done for is *)
(* the registered one.                                                     *)
(***************************************************************************)
EXTENDS Supervisor, TLAPS

\* An operation whose runtime is not on the books yet.
Staged == {"creating", "replacing", "waiting", "installing", "discarding"}

\* The instance is reserved for one operation, and for its runtime.
OpInv ==
    /\ \A o \in Ops : op[o].at # "idle" => op[o].new = pending /\ pending # None
    /\ \A o, p \in Ops : op[o].at # "idle" /\ op[p].at # "idle" => o = p
    /\ reg <= made /\ pending <= made /\ \A m \in retired : m <= made

\* What is prepared has no worker, and there is no other one to take its place.
StagedInv ==
    \A o \in Ops :
        op[o].at \in Staged =>
            /\ retired = {} /\ reg # op[o].new /\ rt[op[o].new].worker = "none"
            /\ op[o].at \in {"creating", "replacing"} => ~rt[op[o].new].created
            /\ op[o].at \in {"creating", "installing"} => reg = None
            /\ op[o].at \in {"replacing", "waiting"} => op[o].old \in Runtimes

\* Cleanup follows retirement, and the plugin's stop follows its start.
CleanupInv ==
    \A m \in Runtimes :
        /\ rt[m].cleanup # "none" => rt[m].retiring
        /\ rt[m].cleanup \in {"stopping", "joining"} \/ Cleaned(m) => Initialized(m)

\* A worker is the registered runtime's, or it is over.
WorkerInv ==
    \A m \in Runtimes :
        /\ rt[m].worker # "none" => m = reg \/ Complete(m)
        /\ m > made => rt[m].worker = "none" /\ ~rt[m].created

\* What was created is on the books, or prepared, or over.
LeakInv ==
    \A m \in Runtimes :
        rt[m].created =>
            \/ m \in Held \/ Complete(m)
            \/ \E o \in Ops : op[o].at \in Staged /\ op[o].new = m

IInv == TypeOK /\ OpInv /\ StagedInv /\ CleanupInv /\ WorkerInv /\ LeakInv

-----------------------------------------------------------------------------
(* Types.                                                                  *)

Record == [
    worker : {"none", "made", "born", "starting", "looping", "checking", "failed", "dead"},
    launching : BOOLEAN,
    cleanup : {"none", "made", "waiting", "stopping", "joining", "pruning", "done"},
    error : BOOLEAN, created : BOOLEAN, stop : BOOLEAN, cancel : BOOLEAN, retiring : BOOLEAN]

Call == [at : {"idle", "creating", "cancelling", "registered", "launching",
               "replacing", "waiting", "installing", "discarding", "clearing"},
         new : 0 .. MaxRuntime, old : 0 .. MaxRuntime]

Table == rt \in [Runtimes -> Record]

LEMMA TableTrue == TypeOK => Table /\ op \in [Ops -> Call]
BY DEF TypeOK, Table, Record, Call

\* What any step does to the record of any runtime.
Ages(m) ==
    /\ Complete(m) => Complete(m)'
    /\ rt'[m].cleanup # "none" => rt'[m].retiring
    /\ rt'[m].cleanup \in {"stopping", "joining"} \/ Cleaned(m)' => Initialized(m)'
    /\ rt'[m].worker # "none" => rt[m].worker # "none" \/ m = reg

\* ... and it does not create the plugin.
AgesOnly(m) == Ages(m) /\ rt'[m].created = rt[m].created

\* A record that is not touched.
LEMMA Untouched ==
    ASSUME CleanupInv, NEW m \in Runtimes, rt'[m] = rt[m]
    PROVE  AgesOnly(m)
BY DEF CleanupInv, AgesOnly, Ages, Complete, Cleaned, Alive, Initialized

LEMMA SameRecords ==
    ASSUME Table, CleanupInv, UNCHANGED rt
    PROVE  Table' /\ \A m \in Runtimes : AgesOnly(m)
BY Untouched DEF Table

LEMMA CompleteIs ==
    ASSUME Table, CleanupInv, NEW k \in Runtimes
    PROVE  /\ rt[k] \in Record
           /\ Complete(k) => /\ rt[k].retiring /\ rt[k].cleanup \in {"pruning", "done"}
                             /\ ~rt[k].error /\ rt[k].worker \in {"none", "dead"}
           /\ rt[k].cleanup # "none" => rt[k].retiring
           /\ rt[k].cleanup \in {"stopping", "joining"}
                \/ (rt[k].cleanup \in {"pruning", "done"} /\ ~rt[k].error)
                => rt[k].worker \notin {"made", "born", "starting"}
BY DEF Table, CleanupInv, Complete, Cleaned, Alive, Initialized, Record

\* One record changes, and not its cleanup.
LEMMA WorkerOnly ==
    ASSUME Table, CleanupInv, NEW k \in Runtimes, Table',
           \A m \in Runtimes : m # k => rt'[m] = rt[m],
           rt'[k].created = rt[k].created, rt'[k].cleanup = rt[k].cleanup,
           rt'[k].error = rt[k].error, rt'[k].retiring = rt[k].retiring,
           rt'[k].worker = rt[k].worker
           \/ (rt[k].worker \in {"made", "born"})
           \/ (rt[k].worker \in {"starting", "looping", "checking", "failed"}
               /\ rt'[k].worker \notin {"made", "born", "starting"})
           \/ (k = reg /\ ~rt[k].retiring)
    PROVE  \A m \in Runtimes : AgesOnly(m)
<1>1. AgesOnly(k)
    BY CompleteIs DEF AgesOnly, Ages, Complete, Cleaned, Alive, Initialized, Record
<1> QED BY <1>1, Untouched

LEMMA WorkerAges ==
    ASSUME Table, CleanupInv, NEW k \in Runtimes, Worker(k) \/ Launching(k)
    PROVE  Table' /\ \A m \in Runtimes : AgesOnly(m)
<1> USE DEF Table, Record, WorkerStep
<1>1. CASE Begins(k) BY <1>1, WorkerOnly DEF Begins
<1>2. CASE StartReturns(k) BY <1>2, WorkerOnly DEF StartReturns
<1>3. CASE StartFails(k)
    <2>1. rt' = [m \in Runtimes |-> rt'[m]] /\ \A m \in Runtimes : m # k => rt'[m] = rt[m]
        BY <1>3 DEF StartFails
    <2>2. /\ rt'[k].created = rt[k].created /\ rt'[k].cleanup = rt[k].cleanup
          /\ rt'[k].error = rt[k].error /\ rt'[k].retiring = rt[k].retiring
          /\ rt'[k].worker = "failed" /\ rt[k].worker = "starting"
        <3>1. rt[k] \in Record /\ rt'[k] = [rt[k] EXCEPT !.worker = "failed", !.stop = TRUE]
            BY <1>3 DEF StartFails
        <3> QED BY <1>3, <3>1 DEF StartFails
    <2>3. rt'[k] \in Record
        <3>1. rt[k] \in Record /\ rt'[k] = [rt[k] EXCEPT !.worker = "failed", !.stop = TRUE]
            BY <1>3 DEF StartFails
        <3> QED BY <3>1
    <2>4. Table'
        BY <2>1, <2>3
    <2> QED BY <2>1, <2>2, <2>4, WorkerOnly
<1>4. CASE GivesUp(k) BY <1>4, WorkerOnly DEF GivesUp
<1>5. CASE Loops(k) BY <1>5, WorkerOnly DEF Loops
<1>6. CASE CheckReturns(k) BY <1>6, WorkerOnly DEF CheckReturns
<1>7. CASE Dies(k) BY <1>7, WorkerOnly DEF Dies
<1>8. CASE LaunchWorker(k) BY <1>8, WorkerOnly DEF LaunchWorker
<1>9. CASE LaunchEnds(k) BY <1>9, WorkerOnly DEF LaunchEnds
<1> QED BY <1>1, <1>2, <1>3, <1>4, <1>5, <1>6, <1>7, <1>8, <1>9 DEF Worker, Launching

LEMMA RetireAges ==
    ASSUME Table, CleanupInv, NEW k \in Runtimes, Retire(k)
    PROVE  Table' /\ \A m \in Runtimes : AgesOnly(m)
<1>1. rt' = [m \in Runtimes |-> rt'[m]] /\ \A m \in Runtimes : m # k => rt'[m] = rt[m]
    BY DEF Retire, Table
<1>2. PICK r \in Record : r = rt[k]
    BY DEF Table
<1>3. \/ NeedsCleanup(k) /\ rt'[k] = [r EXCEPT !.retiring = TRUE, !.stop = TRUE,
                                                !.cleanup = "made", !.error = FALSE]
      \/ NeedsCleanup(k) /\ rt'[k] = [r EXCEPT !.retiring = TRUE, !.stop = TRUE,
                                                !.cleanup = "done", !.error = TRUE]
      \/ rt'[k] = [r EXCEPT !.retiring = TRUE, !.stop = TRUE]
    BY <1>2 DEF Retire, Table
<1>4. rt'[k] \in Record
    BY <1>3 DEF Record
<1>5. /\ rt'[k].created = r.created /\ rt'[k].worker = r.worker /\ rt'[k].retiring
      /\ \/ NeedsCleanup(k) /\ rt'[k].cleanup = "made"
         \/ NeedsCleanup(k) /\ rt'[k].cleanup = "done" /\ rt'[k].error
         \/ rt'[k].cleanup = r.cleanup /\ rt'[k].error = r.error
    BY <1>3 DEF Record
<1>6. AgesOnly(k)
    BY <1>2, <1>5, CompleteIs
       DEF NeedsCleanup, AgesOnly, Ages, Complete, Cleaned, Alive, Initialized
<1>7. Table'
    BY <1>1, <1>4 DEF Table
<1> QED BY <1>1, <1>6, <1>7, Untouched

LEMMA CleanupAges ==
    ASSUME Table, CleanupInv, NEW k \in Runtimes, Cleanup(k) \/ Retiring(k)
    PROVE  Table' /\ \A m \in Runtimes : AgesOnly(m)
<1> USE DEF Table, CleanupInv, AgesOnly, Ages, Complete, Cleaned, Alive, Initialized, Record
<1>1. CASE CleanupCalls(k) BY <1>1 DEF CleanupCalls
<1>2. CASE StopReturns(k) BY <1>2 DEF StopReturns
<1>3. CASE JoinEnds(k) BY <1>3 DEF JoinEnds
<1>4. CASE CleanupEnds(k) BY <1>4 DEF CleanupEnds
<1>5. CASE Retire(k) BY <1>5, RetireAges
<1>6. CASE LaunchCleanup(k) BY <1>6 DEF LaunchCleanup
<1> QED BY <1>1, <1>2, <1>3, <1>4, <1>5, <1>6 DEF Cleanup, Retiring

LEMMA MarkAges ==
    ASSUME Table, CleanupInv, Mark
    PROVE  Table' /\ \A m \in Runtimes : AgesOnly(m)
<1>1. ASSUME NEW m \in Runtimes
      PROVE  /\ rt'[m] \in Record /\ rt'[m].worker = rt[m].worker /\ rt'[m].created = rt[m].created
             /\ rt'[m].cleanup = rt[m].cleanup /\ rt'[m].error = rt[m].error
             /\ (rt[m].retiring => rt'[m].retiring)
    BY DEF Mark, Table, Record
<1>2. ASSUME NEW m \in Runtimes PROVE AgesOnly(m)
    BY <1>1, CompleteIs DEF AgesOnly, Ages, Complete, Cleaned, Alive, Initialized
<1>3. rt' = [m \in Runtimes |-> rt'[m]]
    BY DEF Mark
<1> QED BY <1>1, <1>2, <1>3 DEF Table

LEMMA MakeAges ==
    ASSUME Table, CleanupInv, reg \in 0 .. MaxRuntime, MayStart, MakeWorker
    PROVE  Table' /\ \A m \in Runtimes : AgesOnly(m)
<1>1. reg \in Runtimes /\ ~rt[reg].retiring
    BY SupervisorAssumption DEF MayStart, Runtimes, None
<1>2. Table' /\ \A m \in Runtimes : m # reg => rt'[m] = rt[m]
    BY <1>1 DEF MakeWorker, Table, Record
<1>3. /\ rt'[reg].created = rt[reg].created /\ rt'[reg].cleanup = rt[reg].cleanup
      /\ rt'[reg].error = rt[reg].error /\ rt'[reg].retiring = rt[reg].retiring
    BY <1>1 DEF MakeWorker, Table, Record
<1> QED BY <1>1, <1>2, <1>3, WorkerOnly

-----------------------------------------------------------------------------
(* The books.                                                              *)

\* Who leaves the books is complete.
LEMMA PruneIs ==
    ASSUME Prune
    PROVE  /\ reg' \in {reg, None} /\ retired' \subseteq retired
           /\ reg # None /\ ~Complete(reg) => reg' = reg
           /\ \A m : m \in Held /\ ~Complete(m) => m \in Held'
           /\ Gone => reg' = None /\ retired' = {}
BY DEF Prune, Held, Gone

\* A step that leaves the reservation alone: the books may be pruned, and an
\* operation whose runtime is on the books, or was never created, may go on.
LEMMA Frame ==
    ASSUME IInv, TypeOK', UNCHANGED <<pending, made>>,
           UNCHANGED <<reg, retired>> \/ Prune,
           \A m \in Runtimes : AgesOnly(m),
           \A o \in Ops :
               /\ op'[o].new = op[o].new /\ op'[o].old = op[o].old
               /\ \/ op'[o].at = op[o].at
                  \/ /\ op[o].at # "idle" /\ op'[o].at \notin Staged \cup {"idle"}
                     /\ op[o].at \in Staged => ~rt[op[o].new].created
    PROVE  IInv'
<1>1. /\ reg' \in {reg, None} /\ retired' \subseteq retired
      /\ \A m : m \in Held /\ ~Complete(m) => m \in Held'
    BY PruneIs DEF Held
<1>2. /\ reg \in 0 .. MaxRuntime /\ made \in 0 .. MaxRuntime /\ pending \in 0 .. MaxRuntime
      /\ retired \subseteq Runtimes /\ reg' \in 0 .. MaxRuntime
    BY DEF IInv, TypeOK
<1>3. \A o \in Ops : op[o].at # "idle" => op[o].new \in Runtimes
    BY <1>2, SupervisorAssumption DEF IInv, OpInv, Runtimes, None
<1>4. OpInv'
    BY <1>1, <1>2, SupervisorAssumption DEF IInv, OpInv, Runtimes, None
<1>5. StagedInv'
    <2> SUFFICES ASSUME NEW o \in Ops, op'[o].at \in Staged
                 PROVE  /\ retired' = {} /\ reg' # op'[o].new /\ rt'[op'[o].new].worker = "none"
                        /\ op'[o].at \in {"creating", "replacing"} => ~rt'[op'[o].new].created
                        /\ op'[o].at \in {"creating", "installing"} => reg' = None
                        /\ op'[o].at \in {"replacing", "waiting"} => op'[o].old \in Runtimes
        BY DEF StagedInv
    <2>1. op'[o].at = op[o].at /\ op[o].at \in Staged /\ op[o].at # "idle"
        BY DEF Staged
    <2>2. /\ retired = {} /\ reg # op[o].new /\ rt[op[o].new].worker = "none"
          /\ op[o].at \in {"creating", "replacing"} => ~rt[op[o].new].created
          /\ op[o].at \in {"creating", "installing"} => reg = None
          /\ op[o].at \in {"replacing", "waiting"} => op[o].old \in Runtimes
        BY <2>1 DEF IInv, StagedInv
    <2>3. op[o].new \in Runtimes /\ op[o].new # None
        BY <1>3, <2>1 DEF Runtimes, None
    <2>4. /\ rt'[op[o].new].created = rt[op[o].new].created
          /\ rt'[op[o].new].worker = "none"
        BY <2>2, <2>3 DEF AgesOnly, Ages
    <2>5. retired' = {} /\ reg' # op[o].new /\ (reg = None => reg' = None)
        BY <1>1, <2>2, <2>3
    <2> QED BY <2>1, <2>2, <2>4, <2>5
<1>6. CleanupInv'
    BY DEF CleanupInv, AgesOnly, Ages
<1>7. WorkerInv'
    <2>1. ASSUME NEW m \in Runtimes, rt'[m].worker # "none" PROVE m = reg' \/ Complete(m)'
        <3>1. m = reg \/ Complete(m)
            BY <2>1 DEF IInv, WorkerInv, AgesOnly, Ages
        <3>2. m = reg /\ ~Complete(m) => m = reg'
            BY <1>1, PruneIs DEF Runtimes, None
        <3> QED BY <3>1, <3>2 DEF AgesOnly, Ages
    <2>2. ASSUME NEW m \in Runtimes, m > made PROVE rt'[m].worker = "none" /\ ~rt'[m].created
        <3>1. m # reg
            BY <1>2, <2>2 DEF IInv, OpInv, Runtimes
        <3> QED BY <2>2, <3>1 DEF IInv, WorkerInv, AgesOnly, Ages
    <2> QED BY <2>1, <2>2 DEF WorkerInv
<1>8. LeakInv'
    <2> SUFFICES ASSUME NEW m \in Runtimes, rt'[m].created
                 PROVE  \/ m \in Held' \/ Complete(m)'
                        \/ \E o \in Ops : op'[o].at \in Staged /\ op'[o].new = m
        BY DEF LeakInv
    <2>1. rt[m].created /\ (Complete(m) => Complete(m)')
        BY DEF AgesOnly, Ages
    <2>2. CASE m \in Held \/ Complete(m)
        BY <1>1, <2>1, <2>2
    <2>3. ASSUME NEW o \in Ops, op[o].at \in Staged, op[o].new = m
          PROVE  op'[o].at \in Staged /\ op'[o].new = m
        BY <2>1, <2>3 DEF Staged
    <2> QED BY <2>1, <2>2, <2>3 DEF IInv, LeakInv
<1> QED BY <1>4, <1>5, <1>6, <1>7, <1>8 DEF IInv

-----------------------------------------------------------------------------
(* The steps of the operations.                                            *)

\* A reservation: the books are empty, or hold the runtime to be replaced.
LEMMA ReserveKeeps ==
    ASSUME IInv, TypeOK', NEW o \in Ops, ReserveNew(o) \/ ReserveChange(o)
    PROVE  IInv'
<1> DEFINE n == made + 1
<1>1. /\ pending = None /\ UNCHANGED rt /\ Prune /\ made < MaxRuntime /\ made' = n /\ pending' = n
    BY DEF ReserveNew, ReserveChange, Reserve
<1>2. /\ reg \in 0 .. MaxRuntime /\ made \in 0 .. MaxRuntime /\ retired \subseteq Runtimes
      /\ reg' \in {reg, None} /\ reg <= made
    BY <1>1, PruneIs DEF IInv, TypeOK, OpInv
<1>3. n \in Runtimes /\ n > made /\ n # reg /\ n # None /\ n # reg'
    BY <1>1, <1>2, SupervisorAssumption DEF Runtimes, None
<1>4. \A p \in Ops : op[p].at = "idle"
    BY <1>1 DEF IInv, OpInv
<1>5. /\ op \in [Ops -> Call] /\ Table
    BY TableTrue DEF IInv
<1>6. /\ retired' = {} /\ (reg' = None \/ (reg' = reg /\ reg \in Runtimes))
      /\ \A m : m \in Held /\ m # reg' => Complete(m)
      /\ op'[o].new = n /\ op'[o].at \in {"creating", "replacing"}
      /\ (op'[o].at = "creating" => reg' = None)
      /\ (op'[o].at = "replacing" => op'[o].old \in Runtimes)
      /\ \A p \in Ops : p # o => op'[p] = op[p]
    <2>1. CASE ReserveNew(o)
        <3>1. reg' = None /\ retired' = {} /\ \A m : m \in Held => Complete(m)
            BY <2>1, PruneIs DEF ReserveNew, Gone
        <3>2. op' = [op EXCEPT ![o] = [at |-> "creating", new |-> n, old |-> None]]
            BY <2>1 DEF ReserveNew, Reserve
        <3> QED BY <1>5, <3>1, <3>2
    <2>2. CASE ReserveChange(o)
        <3>1. /\ reg # None /\ ~rt[reg].retiring /\ {m \in retired : ~Complete(m)} = {} /\ Prune
              /\ op' = [op EXCEPT ![o] = [at |-> "replacing", new |-> n, old |-> reg]]
            BY <2>2 DEF ReserveChange, Reserve
        <3>2. reg \in Runtimes /\ ~Complete(reg)
            BY <1>2, <3>1, SupervisorAssumption DEF Runtimes, None, Complete
        <3>3. reg' = reg /\ retired' = {}
            BY <3>1, <3>2 DEF Prune
        <3>4. \A m : m \in Held /\ m # reg => Complete(m)
            BY <3>1 DEF Held
        <3> QED BY <1>5, <3>1, <3>2, <3>3, <3>4
    <2> QED BY <2>1, <2>2
<1>7. \A m \in Runtimes : (Complete(m) <=> Complete(m)') /\ AgesOnly(m)
    BY <1>1, <1>5, SameRecords DEF IInv, Complete, Cleaned, Alive
<1>8. rt[n].worker = "none" /\ ~rt[n].created
    BY <1>3 DEF IInv, WorkerInv
<1>9. OpInv'
    <2>1. \A p \in Ops : op'[p].at # "idle" => p = o
        BY <1>4, <1>6
    <2>2. reg' <= made' /\ pending' <= made' /\ \A m \in retired' : m <= made'
        BY <1>1, <1>2, <1>3, <1>6 DEF Runtimes, None
    <2>3. op'[o].new = pending' /\ pending' # None
        BY <1>1, <1>3, <1>6
    <2> QED BY <2>1, <2>2, <2>3 DEF OpInv
<1>10. StagedInv'
    BY <1>1, <1>3, <1>4, <1>6, <1>8 DEF StagedInv, Staged
<1>11. CleanupInv'
    BY <1>7 DEF CleanupInv, AgesOnly, Ages
<1>12. WorkerInv'
    <2>1. ASSUME NEW m \in Runtimes, rt[m].worker # "none" PROVE m = reg' \/ Complete(m)
        <3>1. m = reg => m \in Held
            BY DEF Held, Runtimes, None
        <3> QED BY <1>6, <2>1, <3>1 DEF IInv, WorkerInv
    <2>2. \A m \in Runtimes : m > n => m > made
        BY <1>2 DEF Runtimes
    <2> QED BY <1>1, <1>7, <2>1, <2>2 DEF IInv, WorkerInv
<1>13. LeakInv'
    <2> SUFFICES ASSUME NEW m \in Runtimes, rt[m].created PROVE m \in Held' \/ Complete(m)'
        BY <1>1 DEF LeakInv
    <2>1. m \in Held \/ Complete(m)
        BY <1>4 DEF IInv, LeakInv, Staged
    <2>2. m = reg' => m \in Held'
        BY DEF Held, Runtimes, None
    <2> QED BY <1>6, <1>7, <2>1, <2>2
<1> QED BY <1>9, <1>10, <1>11, <1>12, <1>13 DEF IInv

\* A step of the operation that has the instance reserved, whose runtime is not
\* on the books yet: it stays prepared, or is put on the books.
LEMMA StagedMove ==
    ASSUME IInv, TypeOK', NEW o \in Ops, op[o].at \in Staged, UNCHANGED <<pending, made>>,
           \A p \in Ops : p # o => op'[p] = op[p],
           op'[o].new = op[o].new, op'[o].old = op[o].old, op'[o].at # "idle",
           \A m \in Runtimes : Ages(m),
           \A m \in Runtimes : m # op[o].new => rt'[m].created = rt[m].created,
           \A m \in Held : m \in Held' \/ Complete(m),
           reg' \in {reg, None, op[o].new}, retired' \subseteq {op[o].new},
           \/ /\ op'[o].at \in {"waiting", "installing", "discarding"}
              /\ retired' = {} /\ reg' # op[o].new
              /\ op'[o].at = "installing" => reg' = None
              /\ op'[o].at = "waiting" => op[o].old \in Runtimes
           \/ op'[o].at \notin Staged /\ op[o].new \in Held'
    PROVE  IInv'
<1> DEFINE n == op[o].new
<1>1. /\ reg \in 0 .. MaxRuntime /\ made \in 0 .. MaxRuntime /\ pending \in 0 .. MaxRuntime
      /\ reg <= made /\ pending <= made /\ n = pending /\ n # None /\ n \in Runtimes
      /\ \A p \in Ops : op[p].at # "idle" => p = o
    BY SupervisorAssumption DEF IInv, TypeOK, OpInv, Staged, Runtimes, None
<1>2. retired = {} /\ reg # n /\ rt[n].worker = "none"
    BY DEF IInv, StagedInv
<1>3. \A p \in Ops : op'[p].at # "idle" => p = o
    BY <1>1
<1>4. OpInv'
    <2>1. reg' <= made' /\ pending' <= made' /\ \A m \in retired' : m <= made'
        BY <1>1 DEF None
    <2> QED BY <1>1, <1>3, <2>1 DEF OpInv
<1>5. StagedInv'
    <2>1. rt'[n].worker = "none"
        BY <1>1, <1>2 DEF Ages
    <2> SUFFICES ASSUME NEW p \in Ops, op'[p].at \in Staged
                 PROVE  /\ retired' = {} /\ reg' # op'[p].new /\ rt'[op'[p].new].worker = "none"
                        /\ op'[p].at \in {"creating", "replacing"} => ~rt'[op'[p].new].created
                        /\ op'[p].at \in {"creating", "installing"} => reg' = None
                        /\ op'[p].at \in {"replacing", "waiting"} => op'[p].old \in Runtimes
        BY DEF StagedInv
    <2>2. p = o
        BY <1>3 DEF Staged
    <2> QED BY <2>1, <2>2
<1>6. CleanupInv'
    BY DEF CleanupInv, Ages
<1>7. WorkerInv'
    <2>1. ASSUME NEW m \in Runtimes, rt'[m].worker # "none" PROVE m = reg' \/ Complete(m)'
        <3>1. m = reg \/ Complete(m)
            BY <2>1 DEF IInv, WorkerInv, Ages
        <3>2. CASE m = reg
            <4>1. m \in Held /\ m # n
                BY <1>2, <3>2 DEF Held, Runtimes, None
            <4>2. CASE m \in Held'
                BY <4>1, <4>2 DEF Held
            <4> QED BY <4>1, <4>2 DEF Ages
        <3> QED BY <3>1, <3>2 DEF Ages
    <2>2. ASSUME NEW m \in Runtimes, m > made PROVE rt'[m].worker = "none" /\ ~rt'[m].created
        <3>1. m # reg /\ m # n
            BY <1>1, <2>2 DEF Runtimes
        <3> QED BY <2>2, <3>1 DEF IInv, WorkerInv, Ages
    <2> QED BY <2>1, <2>2 DEF WorkerInv
<1>8. LeakInv'
    <2> SUFFICES ASSUME NEW m \in Runtimes, rt'[m].created
                 PROVE  \/ m \in Held' \/ Complete(m)'
                        \/ \E p \in Ops : op'[p].at \in Staged /\ op'[p].new = m
        BY DEF LeakInv
    <2>1. CASE m = n
        BY <2>1 DEF Staged
    <2>2. CASE m # n
        <3>1. m \in Held \/ Complete(m)
            BY <1>1, <2>2 DEF IInv, LeakInv, Staged
        <3> QED BY <3>1 DEF Ages
    <2> QED BY <2>1, <2>2
<1> QED BY <1>4, <1>5, <1>6, <1>7, <1>8 DEF IInv

\* One record changes, and neither its worker nor its cleanup.
LEMMA TouchAges ==
    ASSUME Table, CleanupInv, NEW k \in Runtimes,
           rt' = [rt EXCEPT ![k].created = TRUE] \/ rt' = [rt EXCEPT ![k].cancel = TRUE]
    PROVE  /\ Table' /\ \A m \in Runtimes : Ages(m)
           /\ \A m \in Runtimes : m # k => rt'[m].created = rt[m].created
           /\ rt' = [rt EXCEPT ![k].cancel = TRUE] => \A m \in Runtimes : AgesOnly(m)
<1> USE DEF Table, Record
<1>1. /\ rt' = [m \in Runtimes |-> rt'[m]] /\ \A m \in Runtimes : m # k => rt'[m] = rt[m]
      /\ rt'[k] \in Record
      /\ rt'[k].worker = rt[k].worker /\ rt'[k].cleanup = rt[k].cleanup
      /\ rt'[k].error = rt[k].error /\ rt'[k].retiring = rt[k].retiring
      /\ rt' = [rt EXCEPT ![k].cancel = TRUE] => rt'[k].created = rt[k].created
    <2>1. CASE rt' = [rt EXCEPT ![k].created = TRUE]
        <3>1. rt' = [m \in Runtimes |-> rt'[m]] /\ \A m \in Runtimes : m # k => rt'[m] = rt[m]
            BY <2>1
        <3>2. rt[k] \in Record /\ rt'[k] = [rt[k] EXCEPT !.created = TRUE]
            BY <2>1
        <3>3. rt' = [rt EXCEPT ![k].cancel = TRUE] => rt'[k] = [rt[k] EXCEPT !.cancel = TRUE]
            OBVIOUS
        <3> HIDE <2>1
        <3>4. rt'[k] \in Record
            BY <3>2
        <3> QED BY <3>1, <3>2, <3>3, <3>4
    <2>2. CASE rt' = [rt EXCEPT ![k].cancel = TRUE]
        BY <2>2
    <2> QED BY <2>1, <2>2
<1>2. Table'
    BY <1>1 DEF Table
<1>3. Ages(k)
    BY <1>1 DEF CleanupInv, Ages, Complete, Cleaned, Alive, Initialized
<1> QED BY <1>1, <1>2, <1>3, Untouched DEF AgesOnly

LEMMA GotoIs ==
    ASSUME op \in [Ops -> Call], NEW o \in Ops, NEW at, Goto(o, at)
    PROVE  /\ op'[o].at = at /\ op'[o].new = op[o].new /\ op'[o].old = op[o].old
           /\ \A p \in Ops : p # o => op'[p] = op[p]
BY DEF Goto, Call

\* What is known of the runtime an operation prepares.
LEMMA StagedIs ==
    ASSUME IInv, NEW o \in Ops, op[o].at # "idle"
    PROVE  /\ op[o].new \in Runtimes /\ op[o].new = pending
           /\ \A p \in Ops : op[p].at # "idle" => p = o
           /\ op[o].at \in Staged => retired = {} /\ reg # op[o].new
<1>1. /\ op[o].new = pending /\ pending # None /\ pending \in 0 .. MaxRuntime
      /\ \A p \in Ops : op[p].at # "idle" => p = o
    BY DEF IInv, TypeOK, OpInv
<1>2. op[o].new \in Runtimes
    BY <1>1, SupervisorAssumption DEF Runtimes, None
<1>3. op[o].at \in Staged => retired = {} /\ reg # op[o].new
    BY DEF IInv, StagedInv
<1> QED BY <1>1, <1>2, <1>3

\* plugin.create returned: the runtime is registered, where there was none.
LEMMA CreatesKeeps ==
    ASSUME IInv, TypeOK', NEW o \in Ops, Creates(o)
    PROVE  IInv'
<1>1. Table /\ op \in [Ops -> Call] /\ CleanupInv /\ op[o].at = "creating"
    BY TableTrue DEF IInv, Creates
<1>2. /\ op[o].new \in Runtimes /\ op[o].at \in Staged /\ op[o].at # "idle"
      /\ retired = {} /\ reg = None
    BY <1>1, StagedIs DEF Staged, IInv, StagedInv
<1>3. PICK at \in {"cancelling", "registered"} : Goto(o, at)
    BY DEF Creates
<1>4. /\ op'[o].new = op[o].new /\ op'[o].old = op[o].old
      /\ op'[o].at \notin Staged /\ op'[o].at # "idle"
      /\ \A p \in Ops : p # o => op'[p] = op[p]
    BY <1>1, <1>3, GotoIs DEF Staged
<1>5. /\ \A m \in Runtimes : Ages(m)
      /\ \A m \in Runtimes : m # op[o].new => rt'[m].created = rt[m].created
    BY <1>1, <1>2, TouchAges DEF Creates
<1>6. reg' = op[o].new /\ retired' = {} /\ UNCHANGED <<pending, made>>
    BY <1>2 DEF Creates
<1>7. Held = {} /\ op[o].new \in Held'
    BY <1>2, <1>6 DEF Held, Runtimes, None
<1> QED BY <1>2, <1>4, <1>5, <1>6, <1>7, StagedMove

\* The replacement exists.
LEMMA ReplacesKeeps ==
    ASSUME IInv, TypeOK', NEW o \in Ops, Replaces(o)
    PROVE  IInv'
<1>1. Table /\ op \in [Ops -> Call] /\ CleanupInv /\ op[o].at = "replacing"
    BY TableTrue DEF IInv, Replaces
<1>2. /\ op[o].new \in Runtimes /\ op[o].at \in Staged /\ op[o].at # "idle"
      /\ retired = {} /\ reg # op[o].new /\ op[o].old \in Runtimes
    BY <1>1, StagedIs DEF Staged, IInv, StagedInv
<1>3. /\ op'[o].new = op[o].new /\ op'[o].old = op[o].old /\ op'[o].at = "waiting"
      /\ \A p \in Ops : p # o => op'[p] = op[p]
    BY <1>1, GotoIs DEF Replaces
<1>4. /\ \A m \in Runtimes : Ages(m)
      /\ \A m \in Runtimes : m # op[o].new => rt'[m].created = rt[m].created
    BY <1>1, <1>2, TouchAges DEF Replaces
<1>5. UNCHANGED <<reg, retired, pending, made>>
    BY DEF Replaces, registry
<1>6. Held' = Held /\ op'[o].at # "idle"
    BY <1>3, <1>5 DEF Held
<1> QED BY <1>2, <1>3, <1>4, <1>5, <1>6, StagedMove

\* The old runtime is off the books, or the replacement is not used.
LEMMA WaitedKeeps ==
    ASSUME IInv, TypeOK', NEW o \in Ops, Waited(o)
    PROVE  IInv'
<1>1. Table /\ op \in [Ops -> Call] /\ CleanupInv /\ op[o].at = "waiting"
    BY TableTrue DEF IInv, Waited
<1>2. /\ op[o].new \in Runtimes /\ op[o].at \in Staged /\ op[o].at # "idle"
      /\ retired = {} /\ reg # op[o].new
    BY <1>1, StagedIs DEF Staged
<1>3. PICK at \in {"installing", "discarding"} : Goto(o, at) /\ (at = "installing" => Gone)
    BY DEF Waited
<1>4. /\ op'[o].new = op[o].new /\ op'[o].old = op[o].old
      /\ op'[o].at \in {"installing", "discarding"} /\ (op'[o].at = "installing" => Gone)
      /\ \A p \in Ops : p # o => op'[p] = op[p]
    BY <1>1, <1>3, GotoIs
<1>5. \A m \in Runtimes : AgesOnly(m)
    BY <1>1, SameRecords DEF Waited
<1>6. Prune /\ UNCHANGED <<pending, made>>
    BY DEF Waited
<1>7. /\ reg' \in {reg, None} /\ retired' \subseteq {} /\ (Gone => reg' = None)
      /\ \A m \in Held : m \in Held' \/ Complete(m)
    BY <1>2, <1>6, PruneIs
<1>8. reg' # op[o].new
    BY <1>2, <1>7 DEF Runtimes, None
<1> QED BY <1>2, <1>4, <1>5, <1>6, <1>7, <1>8, StagedMove DEF AgesOnly

LEMMA InstallsKeeps ==
    ASSUME IInv, TypeOK', NEW o \in Ops, Installs(o)
    PROVE  IInv'
<1>1. Table /\ op \in [Ops -> Call] /\ CleanupInv /\ op[o].at = "installing"
    BY TableTrue DEF IInv, Installs
<1>2. /\ op[o].new \in Runtimes /\ op[o].at \in Staged /\ op[o].at # "idle"
      /\ retired = {} /\ reg = None
    BY <1>1, StagedIs DEF Staged, IInv, StagedInv
<1>3. /\ UNCHANGED <<pending, retired, made, rt>>
      /\ \/ Goto(o, "discarding") /\ reg' = reg
         \/ Goto(o, "registered") /\ reg' = op[o].new
    BY DEF Installs
<1>4. /\ op'[o].new = op[o].new /\ op'[o].old = op[o].old
      /\ \/ op'[o].at = "discarding" /\ reg' = reg
         \/ op'[o].at = "registered" /\ reg' = op[o].new
      /\ \A p \in Ops : p # o => op'[p] = op[p]
    BY <1>1, <1>3, GotoIs
<1>5. \A m \in Runtimes : AgesOnly(m)
    BY <1>1, <1>3, SameRecords
<1>6. Held = {} /\ (reg' = op[o].new => op[o].new \in Held')
    BY <1>2 DEF Held, Runtimes, None
<1>7. op'[o].at # "idle" /\ (op'[o].at = "registered" => op'[o].at \notin Staged)
    BY <1>4 DEF Staged
<1>8. retired' = {} /\ reg # op[o].new
    BY <1>2, <1>3 DEF Runtimes, None
<1> QED BY <1>2, <1>3, <1>4, <1>5, <1>6, <1>7, <1>8, StagedMove DEF AgesOnly

LEMMA DiscardsKeeps ==
    ASSUME IInv, TypeOK', NEW o \in Ops, Discards(o)
    PROVE  IInv'
<1>1. Table /\ op \in [Ops -> Call] /\ CleanupInv /\ op[o].at = "discarding"
    BY TableTrue DEF IInv, Discards
<1>2. op[o].new \in Runtimes /\ op[o].at \in Staged /\ op[o].at # "idle" /\ retired = {}
    BY <1>1, StagedIs DEF Staged
<1>3. /\ op'[o].new = op[o].new /\ op'[o].old = op[o].old /\ op'[o].at = "clearing"
      /\ \A p \in Ops : p # o => op'[p] = op[p]
    BY <1>1, GotoIs DEF Discards
<1>4. \A m \in Runtimes : AgesOnly(m)
    BY <1>1, SameRecords DEF Discards
<1>5. UNCHANGED <<reg, pending, made>> /\ retired' = {op[o].new}
    BY <1>2 DEF Discards
<1>6. Held \subseteq Held' /\ op[o].new \in Held'
    BY <1>2, <1>5 DEF Held
<1>7. op'[o].at \notin Staged /\ op'[o].at # "idle"
    BY <1>3 DEF Staged
<1> QED BY <1>2, <1>3, <1>4, <1>5, <1>6, <1>7, StagedMove DEF AgesOnly

\* The reservation ends: its runtime is on the books, or was never created.
LEMMA ClearsKeeps ==
    ASSUME IInv, TypeOK', NEW o \in Ops, Clears(o)
    PROVE  IInv'
<1>1. /\ Table /\ op \in [Ops -> Call] /\ CleanupInv
      /\ op[o].at \in {"clearing", "launching"}
    BY TableTrue DEF IInv, Clears
<1>2. op[o].at \notin Staged \cup {"idle"}
    BY <1>1 DEF Staged
<1>3. \A p \in Ops : op[p].at # "idle" => p = o
    BY <1>2, StagedIs
<1>4. \A p \in Ops : op'[p].at = "idle"
    BY <1>1, <1>3 DEF Clears, Idle
<1>5. UNCHANGED <<reg, retired, rt, made>> /\ pending' = None
    BY <1>2, StagedIs DEF Clears
<1>6. OpInv'
    BY <1>4, <1>5 DEF IInv, TypeOK, OpInv, None
<1>7. StagedInv'
    BY <1>4 DEF StagedInv, Staged
<1>8. CleanupInv' /\ WorkerInv'
    BY <1>5 DEF IInv, CleanupInv, WorkerInv, Complete, Cleaned, Alive, Initialized
<1>9. LeakInv'
    <2>1. \A m \in Runtimes : rt[m].created => m \in Held \/ Complete(m)
        BY <1>2, <1>3 DEF IInv, LeakInv, Staged
    <2> QED BY <1>5, <2>1 DEF LeakInv, Held, Complete, Cleaned, Alive
<1> QED BY <1>6, <1>7, <1>8, <1>9 DEF IInv

\* A creation that failed, a registration that was cancelled, and the start of
\* the worker leave the books as they are.
LEMMA PassesKeeps ==
    ASSUME IInv, TypeOK', NEW o \in Ops, CreateFails(o) \/ Cancels(o) \/ Starts(o)
    PROVE  IInv'
<1>1. Table /\ op \in [Ops -> Call] /\ CleanupInv /\ reg \in 0 .. MaxRuntime
    BY TableTrue DEF IInv, TypeOK
<1>2. UNCHANGED <<pending, made, reg, retired>>
    BY DEF CreateFails, Cancels, Starts, registry
<1>3. PICK at \in {"clearing", "launching"} : Goto(o, at)
    BY DEF CreateFails, Cancels, Starts
<1>4. /\ op'[o].new = op[o].new /\ op'[o].old = op[o].old /\ op'[o].at \notin Staged \cup {"idle"}
      /\ \A p \in Ops : p # o => op'[p] = op[p]
    BY <1>1, <1>3, GotoIs DEF Staged
<1>5. /\ op[o].at # "idle"
      /\ op[o].at \in Staged => op[o].at \in {"creating", "replacing"}
    BY DEF CreateFails, Cancels, Starts, Staged
<1>6. op[o].at \in Staged => ~rt[op[o].new].created
    BY <1>5 DEF IInv, StagedInv
<1>7. Table' /\ \A m \in Runtimes : AgesOnly(m)
    <2>1. CASE UNCHANGED rt
        BY <1>1, <2>1, SameRecords
    <2>2. CASE Mark
        BY <1>1, <2>2, MarkAges
    <2>3. CASE MayStart /\ MakeWorker
        BY <1>1, <2>3, MakeAges
    <2> QED BY <2>1, <2>2, <2>3 DEF CreateFails, Cancels, Starts
<1> QED BY <1>2, <1>4, <1>5, <1>6, <1>7, Frame

LEMMA OperationKeeps ==
    ASSUME IInv, TypeOK', NEW o \in Ops, Operation(o)
    PROVE  IInv'
BY CreatesKeeps, ReplacesKeeps, WaitedKeeps, InstallsKeeps, DiscardsKeeps, ClearsKeeps,
   PassesKeeps DEF Operation

-----------------------------------------------------------------------------
(* The steps of everybody else.                                            *)

LEMMA ThreadsKeep ==
    ASSUME IInv, TypeOK', NEW k \in Runtimes,
           Launching(k) \/ Retiring(k) \/ Cleanup(k) \/ Worker(k)
    PROVE  IInv'
<1>1. Table /\ CleanupInv
    BY TableTrue DEF IInv
<1>2. \A m \in Runtimes : AgesOnly(m)
    BY <1>1, WorkerAges, CleanupAges
<1>3. UNCHANGED <<pending, made, op>> /\ (UNCHANGED <<reg, retired>> \/ Prune)
    <2>1. CASE Launching(k)
        BY <2>1 DEF Launching, LaunchWorker, LaunchEnds, registry
    <2>2. CASE Retiring(k)
        BY <2>2 DEF Retiring, Retire, LaunchCleanup, registry
    <2>3. CASE Cleanup(k)
        BY <2>3 DEF Cleanup, CleanupCalls, StopReturns, JoinEnds, CleanupEnds, registry
    <2>4. CASE Worker(k)
        BY <2>4 DEF Worker, Begins, StartReturns, StartFails, GivesUp, Loops, CheckReturns,
                    Dies, WorkerStep, registry
    <2> QED BY <2>1, <2>2, <2>3, <2>4
<1> QED BY <1>2, <1>3, Frame

Outside ==
    \/ RequestStop \/ Revoke \/ Look
    \/ StartAll \/ StartOne \/ Watches \/ Restarts \/ StopAll \/ StopOne

LEMMA OutsideKeeps ==
    ASSUME IInv, TypeOK', Outside
    PROVE  IInv'
<1>1. Table /\ CleanupInv /\ reg \in 0 .. MaxRuntime /\ pending \in 0 .. MaxRuntime
    BY TableTrue DEF IInv, TypeOK
<1>2. UNCHANGED <<pending, made, op>> /\ (UNCHANGED <<reg, retired>> \/ Prune)
    BY DEF Outside, RequestStop, Revoke, Look, StartAll, StartOne, Watches, Restarts,
           StopAll, StopOne, registry
<1>3. \A m \in Runtimes : AgesOnly(m)
    <2>1. CASE UNCHANGED rt
        BY <1>1, <2>1, SameRecords
    <2>2. CASE Mark
        BY <1>1, <2>2, MarkAges
    <2>3. CASE MayStart /\ MakeWorker
        BY <1>1, <2>3, MakeAges
    <2>4. CASE Revoke
        <3>1. PICK m \in {reg, pending} \ {None} : rt' = [rt EXCEPT ![m].cancel = TRUE]
            BY <2>4 DEF Revoke
        <3>2. m \in Runtimes
            BY <1>1, SupervisorAssumption DEF Runtimes, None
        <3> QED BY <1>1, <3>1, <3>2, TouchAges
    <2> QED BY <2>1, <2>2, <2>3, <2>4
        DEF Outside, RequestStop, Look, StartAll, StartOne, Watches, Restarts, StopAll, StopOne
<1> QED BY <1>2, <1>3, Frame

-----------------------------------------------------------------------------
(* The types.                                                              *)

AnyOp(o) == ReserveNew(o) \/ ReserveChange(o) \/ Operation(o)
AnyThread(m) == Launching(m) \/ Retiring(m) \/ Cleanup(m) \/ Worker(m)

LEMMA NextIs ==
    Next => (\E o \in Ops : AnyOp(o)) \/ (\E m \in Runtimes : AnyThread(m)) \/ Outside
BY DEF Next, AnyOp, AnyThread, Outside

LEMMA TableStep ==
    ASSUME IInv, Next
    PROVE  Table'
<1>1. Table /\ CleanupInv /\ reg \in 0 .. MaxRuntime /\ pending \in 0 .. MaxRuntime
    BY TableTrue DEF IInv, TypeOK
<1>2. ASSUME NEW o \in Ops, AnyOp(o) PROVE Table'
    <2>1. CASE UNCHANGED rt
        BY <1>1, <2>1, SameRecords
    <2>2. CASE Mark
        BY <1>1, <2>2, MarkAges
    <2>3. CASE MayStart /\ MakeWorker
        BY <1>1, <2>3, MakeAges
    <2>4. CASE Creates(o) \/ Replaces(o)
        <3>1. op[o].new \in Runtimes
            BY <2>4, StagedIs DEF Creates, Replaces
        <3> QED BY <1>1, <2>4, <3>1, TouchAges DEF Creates, Replaces
    <2> QED BY <1>2, <2>1, <2>2, <2>3, <2>4
        DEF AnyOp, Operation, ReserveNew, ReserveChange, CreateFails, Cancels, Starts,
            Waited, Installs, Discards, Clears
<1>3. ASSUME NEW m \in Runtimes, AnyThread(m) PROVE Table'
    BY <1>1, <1>3, WorkerAges, CleanupAges DEF AnyThread
<1>4. CASE Outside
    <2>1. CASE UNCHANGED rt
        BY <1>1, <2>1, SameRecords
    <2>2. CASE Mark
        BY <1>1, <2>2, MarkAges
    <2>3. CASE MayStart /\ MakeWorker
        BY <1>1, <2>3, MakeAges
    <2>4. CASE Revoke
        <3>1. PICK m \in {reg, pending} \ {None} : rt' = [rt EXCEPT ![m].cancel = TRUE]
            BY <2>4 DEF Revoke
        <3>2. m \in Runtimes
            BY <1>1, SupervisorAssumption DEF Runtimes, None
        <3> QED BY <1>1, <3>1, <3>2, TouchAges
    <2> QED BY <1>4, <2>1, <2>2, <2>3, <2>4
        DEF Outside, RequestStop, Look, StartAll, StartOne, Watches, Restarts, StopAll, StopOne
<1> QED BY <1>2, <1>3, <1>4, NextIs

LEMMA AskedStep ==
    ASSUME IInv, Next
    PROVE  asked' \subseteq Runtimes
<1>1. /\ reg \in 0 .. MaxRuntime /\ retired \subseteq Runtimes /\ asked \subseteq Runtimes
    BY DEF IInv, TypeOK
<1>2. Mark => asked' \subseteq Runtimes
    <2>1. Held \subseteq Runtimes
        <3>1. reg # None => reg \in Runtimes
            BY <1>1, SupervisorAssumption DEF Runtimes, None
        <3> QED BY <1>1, <3>1 DEF Held
    <2>2. Mark => asked' = asked \cup Held
        BY DEF Mark
    <2> QED BY <1>1, <2>1, <2>2
<1>3. MayStart /\ MakeWorker => asked' \subseteq Runtimes
    BY <1>1, SupervisorAssumption DEF MayStart, MakeWorker, Runtimes, None
<1>4. UNCHANGED asked => asked' \subseteq Runtimes
    BY <1>1
<1>5. ASSUME NEW o \in Ops, AnyOp(o) PROVE asked' \subseteq Runtimes
    <2>1. CASE Replaces(o)
        <3>1. op[o].old \in Runtimes
            BY <2>1 DEF Replaces, IInv, StagedInv, Staged
        <3> QED BY <1>1, <2>1, <3>1 DEF Replaces
    <2>2. CASE Discards(o)
        <3>1. op[o].new \in Runtimes
            BY <2>2, StagedIs DEF Discards
        <3> QED BY <1>1, <2>2, <3>1 DEF Discards
    <2> QED BY <1>2, <1>3, <1>4, <1>5, <2>1, <2>2
        DEF AnyOp, Operation, ReserveNew, ReserveChange, Creates, CreateFails, Cancels, Starts,
            Waited, Installs, Clears
<1>6. ASSUME NEW m \in Runtimes, AnyThread(m) PROVE asked' \subseteq Runtimes
    <2>1. CASE Launching(m)
        BY <1>1, <2>1 DEF Launching, LaunchWorker, LaunchEnds
    <2>2. CASE Retiring(m)
        BY <1>1, <2>2 DEF Retiring, Retire, LaunchCleanup
    <2>3. CASE Cleanup(m)
        BY <1>1, <2>3 DEF Cleanup, CleanupCalls, StopReturns, JoinEnds, CleanupEnds
    <2>4. CASE Worker(m)
        BY <1>1, <2>4 DEF Worker, Begins, StartReturns, StartFails, GivesUp, Loops,
                          CheckReturns, Dies, WorkerStep
    <2> QED BY <1>6, <2>1, <2>2, <2>3, <2>4 DEF AnyThread
<1>7. Outside => asked' \subseteq Runtimes
    BY <1>2, <1>3, <1>4
       DEF Outside, RequestStop, Revoke, Look, StartAll, StartOne, Watches, Restarts,
           StopAll, StopOne
<1> QED BY <1>5, <1>6, <1>7, NextIs

\* Who holds the reservation, and what is on the books.
Books ==
    /\ reg \in 0 .. MaxRuntime /\ pending \in 0 .. MaxRuntime /\ made \in 0 .. MaxRuntime
    /\ retired \subseteq Runtimes /\ reg \notin retired
    /\ op \in [Ops -> Call]
    /\ pending # None => \E o \in Ops : op[o].at # "idle" /\ op[o].new = pending

\* The books are only pruned, and no operation moves.
LEMMA BooksSame ==
    ASSUME Books, UNCHANGED <<pending, made, op>>, UNCHANGED <<reg, retired>> \/ Prune
    PROVE  Books'
<1>1. reg' \in {reg, None} /\ retired' \subseteq retired
    BY PruneIs
<1>2. None \notin Runtimes /\ None \in 0 .. MaxRuntime
    BY SupervisorAssumption DEF Runtimes, None
<1> QED BY <1>1, <1>2 DEF Books

\* The operation that holds the reservation goes on.
Onward == {"cancelling", "registered", "launching", "waiting", "installing", "discarding",
           "clearing"}

LEMMA BooksMove ==
    ASSUME IInv, NEW o \in Ops, op[o].at # "idle", NEW at \in Onward, Goto(o, at),
           UNCHANGED <<pending, made>>, reg' \in {reg, None, op[o].new},
           retired' \subseteq Runtimes, reg' \notin retired'
    PROVE  Books'
<1>1. Books
    BY TableTrue DEF IInv, TypeOK, Books
<1>2. op[o].new \in Runtimes /\ op[o].new = pending
    BY StagedIs
<1>3. op' \in [Ops -> Call]
    BY <1>1 DEF Books, Goto, Call, Onward
<1>4. op'[o].at # "idle" /\ op'[o].new = pending'
    BY <1>1, <1>2, GotoIs DEF Books, Onward
<1>5. reg' \in 0 .. MaxRuntime
    BY <1>1, <1>2, SupervisorAssumption DEF Books, Runtimes, None
<1> QED BY <1>1, <1>3, <1>4, <1>5 DEF Books

LEMMA BooksStep ==
    ASSUME IInv, Next
    PROVE  Books'
<1>1. Books /\ None \notin Runtimes
    BY TableTrue, SupervisorAssumption DEF IInv, TypeOK, Books, Runtimes, None
<1>2. ASSUME NEW o \in Ops, NEW at \in {"creating", "replacing"}, NEW old \in 0 .. MaxRuntime,
             Reserve(o, at, old), Prune
      PROVE  Books'
    <2>1. /\ made' = made + 1 /\ pending' = made + 1 /\ made < MaxRuntime
          /\ op' = [op EXCEPT ![o] = [at |-> at, new |-> made + 1, old |-> old]]
        BY <1>2 DEF Reserve
    <2>2. made + 1 \in 0 .. MaxRuntime
        BY <1>1, <2>1, SupervisorAssumption DEF Books
    <2>3. op' \in [Ops -> Call] /\ op'[o].at # "idle" /\ op'[o].new = pending'
        BY <1>1, <2>1, <2>2 DEF Books, Call
    <2>4. reg' \in {reg, None} /\ retired' \subseteq retired
        BY <1>2, PruneIs
    <2>5. reg' \in 0 .. MaxRuntime /\ retired' \subseteq Runtimes /\ reg' \notin retired'
        BY <1>1, <2>4, SupervisorAssumption DEF Books, None
    <2> QED BY <2>1, <2>2, <2>3, <2>5 DEF Books
<1>3. ASSUME NEW o \in Ops, ReserveNew(o) \/ ReserveChange(o) PROVE Books'
    <2>1. CASE ReserveNew(o)
        <3>1. None \in 0 .. MaxRuntime
            BY SupervisorAssumption DEF None
        <3> QED BY <1>2, <2>1, <3>1 DEF ReserveNew
    <2>2. CASE ReserveChange(o)
        BY <1>1, <1>2, <2>2 DEF ReserveChange, Books
    <2> QED BY <1>3, <2>1, <2>2
<1>4. ASSUME NEW o \in Ops, Operation(o) PROVE Books'
    <2>1. CASE Creates(o)
        <3>1. PICK at \in {"cancelling", "registered"} : Goto(o, at)
            BY <2>1 DEF Creates
        <3>2. op[o].at # "idle" /\ retired = {}
            BY <2>1, StagedIs DEF Creates, Staged
        <3> QED BY <2>1, <3>1, <3>2, BooksMove DEF Creates, Onward
    <2>2. CASE CreateFails(o) \/ Cancels(o)
        BY <1>1, <2>2, BooksMove DEF CreateFails, Cancels, Onward, registry, Books
    <2>3. CASE Starts(o)
        <3>1. PICK at \in {"clearing", "launching"} : Goto(o, at)
            BY <2>3 DEF Starts
        <3> QED BY <1>1, <2>3, <3>1, BooksMove DEF Starts, Onward, registry, Books
    <2>4. CASE Replaces(o)
        BY <1>1, <2>4, BooksMove DEF Replaces, Onward, registry, Books
    <2>5. CASE Waited(o)
        <3>1. PICK at \in {"installing", "discarding"} : Goto(o, at)
            BY <2>5 DEF Waited
        <3>2. /\ reg' \in {reg, None} /\ retired' \subseteq retired
              /\ op[o].at # "idle" /\ UNCHANGED <<pending, made>>
            BY <2>5, PruneIs DEF Waited
        <3> QED BY <1>1, <3>1, <3>2, BooksMove DEF Onward, Books
    <2>6. CASE Installs(o)
        <3>1. op[o].at # "idle" /\ retired = {} /\ op[o].new \in Runtimes
            BY <2>6, StagedIs DEF Installs, Staged
        <3>2. /\ UNCHANGED <<pending, made, retired>> /\ reg' \in {reg, op[o].new}
              /\ \E at \in {"discarding", "registered"} : Goto(o, at)
            BY <2>6 DEF Installs
        <3> QED BY <3>1, <3>2, BooksMove DEF Onward
    <2>7. CASE Discards(o)
        <3>1. /\ op[o].at # "idle" /\ retired = {} /\ op[o].new \in Runtimes
              /\ reg # op[o].new
            BY <2>7, StagedIs DEF Discards, Staged
        <3>2. /\ UNCHANGED <<reg, pending, made>> /\ retired' = {op[o].new}
              /\ Goto(o, "clearing")
            BY <2>7, <3>1 DEF Discards
        <3> QED BY <3>1, <3>2, BooksMove DEF Onward
    <2>8. CASE Clears(o)
        <3>1. op[o].at # "idle"
            BY <2>8 DEF Clears
        <3>2. /\ UNCHANGED <<reg, retired, made>> /\ pending' = None
              /\ op' = [op EXCEPT ![o] = Idle]
            BY <2>8, <3>1, StagedIs DEF Clears
        <3>3. Idle \in Call /\ None \in 0 .. MaxRuntime
            BY SupervisorAssumption DEF Idle, Call, None
        <3>4. op' \in [Ops -> Call]
            BY <1>1, <3>2, <3>3 DEF Books
        <3> QED BY <1>1, <3>2, <3>3, <3>4 DEF Books
    <2> QED BY <1>4, <2>1, <2>2, <2>3, <2>4, <2>5, <2>6, <2>7, <2>8 DEF Operation
<1>5. ASSUME NEW m \in Runtimes, AnyThread(m) PROVE Books'
    <2>1. CASE Launching(m)
        BY <1>1, <2>1, BooksSame DEF Launching, LaunchWorker, LaunchEnds, registry
    <2>2. CASE Retiring(m)
        BY <1>1, <2>2, BooksSame DEF Retiring, Retire, LaunchCleanup, registry
    <2>3. CASE Cleanup(m)
        BY <1>1, <2>3, BooksSame
           DEF Cleanup, CleanupCalls, StopReturns, JoinEnds, CleanupEnds, registry
    <2>4. CASE Worker(m)
        BY <1>1, <2>4, BooksSame DEF Worker, Begins, StartReturns, StartFails, GivesUp, Loops,
                                     CheckReturns, Dies, WorkerStep, registry
    <2> QED BY <1>5, <2>1, <2>2, <2>3, <2>4 DEF AnyThread
<1>6. Outside => Books'
    BY <1>1, BooksSame
       DEF Outside, RequestStop, Revoke, Look, StartAll, StartOne, Watches, Restarts,
           StopAll, StopOne, registry
<1> QED BY <1>3, <1>4, <1>5, <1>6, NextIs DEF AnyOp

\* Flags and counters.
Scalars ==
    /\ {faults, stops} \subseteq 0 .. MaxTrouble
    /\ {running, closed, watch} \subseteq BOOLEAN
    /\ boot \in {"no", "starting", "done"} /\ halt \in {"no", "marking", "done"}

LEMMA ScalarsStep ==
    ASSUME IInv, Next
    PROVE  Scalars'
<1>1. Scalars
    BY DEF IInv, TypeOK, Scalars
<1>2. UNCHANGED <<faults, stops, whole, watch>> => Scalars'
    BY <1>1 DEF Scalars, whole
<1>3. Fault /\ UNCHANGED <<stops, whole, watch>> => Scalars'
    <2>1. Fault /\ UNCHANGED stops => {faults, stops}' \subseteq 0 .. MaxTrouble
        BY <1>1, SupervisorAssumption DEF Scalars, Fault
    <2> QED BY <1>1, <2>1, Zenon DEF Scalars, whole
<1>4. MakeWorker /\ UNCHANGED <<stops, whole, watch>> => Scalars'
    BY <1>2, <1>3 DEF MakeWorker
<1>5. ASSUME NEW o \in Ops, AnyOp(o) PROVE Scalars'
    <2>1. UNCHANGED <<stops, whole, watch>> /\ (UNCHANGED faults \/ MakeWorker)
        BY <1>5, Zenon
           DEF AnyOp, Operation, ReserveNew, ReserveChange, Creates, CreateFails, Cancels, Starts,
               Replaces, Waited, Installs, Discards, Clears
    <2> QED BY <1>2, <1>4, <2>1, Zenon
<1>6. ASSUME NEW m \in Runtimes, AnyThread(m) PROVE Scalars'
    <2>1. UNCHANGED <<stops, whole, watch>> /\ (UNCHANGED faults \/ Fault)
        <3>1. CASE Launching(m)
            BY <3>1 DEF Launching, LaunchWorker, LaunchEnds
        <3>2. CASE Retiring(m)
            BY <3>2 DEF Retiring, Retire, LaunchCleanup
        <3>3. CASE Cleanup(m)
            BY <3>3 DEF Cleanup, CleanupCalls, StopReturns, JoinEnds, CleanupEnds
        <3>4. CASE Worker(m)
            BY <3>4 DEF Worker, Begins, StartReturns, StartFails, GivesUp, Loops,
                        CheckReturns, Dies, WorkerStep
        <3> QED BY <1>6, <3>1, <3>2, <3>3, <3>4 DEF AnyThread
    <2> QED BY <1>2, <1>3, <2>1
<1>7. CASE Outside
    <2>1. CASE RequestStop
        <3>1. {faults, stops}' \subseteq 0 .. MaxTrouble
            BY <1>1, <2>1, SupervisorAssumption DEF Scalars, RequestStop
        <3> QED BY <1>1, <2>1, <3>1, Zenon DEF Scalars, RequestStop, whole
    <2>2. CASE Revoke \/ Look
        BY <1>2, <2>2, Zenon DEF Revoke, Look
    <2>3. CASE StartAll
        <3>1. boot' \in {"no", "starting", "done"}
            BY <2>3 DEF StartAll
        <3> QED BY <1>1, <2>3, <3>1, Zenon DEF Scalars, StartAll
    <2>4. CASE StartOne
        <3>1. {faults, stops}' \subseteq 0 .. MaxTrouble
            BY <1>1, <2>4, SupervisorAssumption DEF Scalars, StartOne, MakeWorker, Fault
        <3>2. boot' \in {"no", "starting", "done"}
            BY <2>4 DEF StartOne
        <3> QED BY <1>1, <2>4, <3>1, <3>2, Zenon DEF Scalars, StartOne
    <2>5. CASE Watches
        BY <1>1, <2>5, Zenon DEF Scalars, Watches, whole
    <2>6. CASE Restarts
        <3>1. {faults, stops}' \subseteq 0 .. MaxTrouble
            BY <1>1, <2>6, SupervisorAssumption DEF Scalars, Restarts, MakeWorker, Fault
        <3> QED BY <1>1, <2>6, <3>1, Zenon DEF Scalars, Restarts, whole
    <2>7. CASE StopAll
        <3>1. halt' \in {"no", "marking", "done"}
            BY <2>7 DEF StopAll
        <3> QED BY <1>1, <2>7, <3>1, Zenon DEF Scalars, StopAll
    <2>8. CASE StopOne
        <3>1. halt' \in {"no", "marking", "done"}
            BY <2>8 DEF StopOne
        <3> QED BY <1>1, <2>8, <3>1, Zenon DEF Scalars, StopOne
    <2> QED BY <1>7, <2>1, <2>2, <2>3, <2>4, <2>5, <2>6, <2>7, <2>8 DEF Outside
<1> QED BY <1>5, <1>6, <1>7, NextIs

LEMMA TypeNow == TypeOK <=> Table /\ asked \subseteq Runtimes /\ Books /\ Scalars
BY DEF TypeOK, Table, Record, Books, Call, Scalars

LEMMA TypeNext == Table' /\ (asked \subseteq Runtimes)' /\ Books' /\ Scalars' => TypeOK'
BY TypeNow, PTL

LEMMA TypeStep ==
    ASSUME IInv, Next
    PROVE  TypeOK'
BY TableStep, AskedStep, BooksStep, ScalarsStep, TypeNext
-----------------------------------------------------------------------------
(* The theorems.                                                           *)

LEMMA InitInv == Init => IInv
<1> SUFFICES ASSUME Init PROVE IInv
    OBVIOUS
<1>1. Fresh \in Record
    BY DEF Fresh, Record
<1>2. None \in 0 .. MaxRuntime /\ None \notin Runtimes /\ 0 \in 0 .. MaxTrouble
    BY SupervisorAssumption DEF None, Runtimes
<1>3. Idle \in Call
    BY <1>2 DEF Idle, Call
<1>4. Table /\ Books /\ asked \subseteq Runtimes
    BY <1>1, <1>2, <1>3 DEF Init, Table, Books, None
<1>5. Scalars
    BY <1>2 DEF Init, Scalars
<1>6. TypeOK
    BY <1>4, <1>5, TypeNow
<1>7. OpInv /\ StagedInv
    BY DEF Init, OpInv, StagedInv, Staged, Idle, None
<1>8. CleanupInv /\ WorkerInv /\ LeakInv
    BY DEF Init, CleanupInv, WorkerInv, LeakInv, Cleaned, Initialized, Fresh
<1> QED BY <1>6, <1>7, <1>8 DEF IInv

LEMMA StepInv == IInv /\ [Next]_vars => IInv'
<1> SUFFICES ASSUME IInv, [Next]_vars PROVE IInv'
    OBVIOUS
<1>1. CASE Next
    <2>1. TypeOK'
        BY <1>1, TypeStep
    <2>2. ASSUME NEW o \in Ops, AnyOp(o) PROVE IInv'
        BY <2>1, <2>2, ReserveKeeps, OperationKeeps DEF AnyOp
    <2>3. ASSUME NEW m \in Runtimes, AnyThread(m) PROVE IInv'
        BY <2>1, <2>3, ThreadsKeep DEF AnyThread
    <2>4. Outside => IInv'
        BY <2>1, OutsideKeeps
    <2> QED BY <1>1, <2>2, <2>3, <2>4, NextIs
<1>2. CASE UNCHANGED vars
    <2>1. /\ UNCHANGED <<reg, pending, retired, rt, made, op>>
        BY <1>2 DEF vars, registry
    <2>2. TypeOK'
        BY <1>2 DEF vars, registry, whole, IInv, TypeOK
    <2>3. \A m \in Runtimes : AgesOnly(m)
        BY <2>1, SameRecords, TableTrue DEF IInv
    <2> QED BY <2>1, <2>2, <2>3, Frame
<1> QED BY <1>1, <1>2

\* The whole argument is an invariant of every run of the supervisor.
THEOREM Invariance == Spec => []IInv
BY InitInv, StepInv, PTL DEF Spec

LEMMA InvApart == IInv => RuntimesApart
<1> SUFFICES ASSUME IInv PROVE RuntimesApart
    OBVIOUS
<1>1. \A m \in Runtimes : Active(m) => m = reg
    BY DEF IInv, WorkerInv, Active, Alive, Complete, Cleaned
<1>2. OneRuntime
    BY <1>1 DEF OneRuntime
<1>3. StartStopApart
    BY DEF IInv, CleanupInv, StartStopApart
<1>4. NothingLeaks
    BY DEF IInv, LeakInv, NothingLeaks, Complete
<1> QED BY <1>2, <1>3, <1>4 DEF IInv, RuntimesApart

\* Whatever operators, threads, faults and stops do, and in whatever order:
\* never do two runtimes of one monitor work at once, never is a plugin stopped
\* while it starts, and none that was created is forgotten before it is over.
THEOREM Apart == Spec => []RuntimesApart
BY Invariance, InvApart, PTL
=============================================================================
