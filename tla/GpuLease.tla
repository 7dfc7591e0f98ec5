------------------------------ MODULE GpuLease ------------------------------
(***************************************************************************)
(* The process-wide GPU lease of core/gpu_lease.py and the tasks that use  *)
(* it: a free lease is reserved for the earliest waiter, who must come for *)
(* it within a window; waiters that stopped trying are forgotten.  Time is *)
(* counted in ticks; what is kept is how long ago things happened.         *)
(***************************************************************************)
EXTENDS Integers, Sequences, SequencesExt

CONSTANTS
    Runs,           \* (instance, generation) of the tasks
    NoRun,          \* nobody
    Poll,           \* Poll[r]: the poll interval of r, in ticks
    ReserveMin,     \* RESERVE_MIN_S
    StaleMin,       \* STALE_MIN_S
    StaleFactor     \* STALE_FACTOR

VARIABLES
    holder,         \* _holder
    waiters,        \* _waiters, in the order of registration
    reserved,       \* the run of _reserved
    left,           \* ticks to the deadline of _reserved
    closed,         \* _closed
    since,          \* since[r]: ticks since waiter r tried last, up to MaxSince
    task,           \* task[r]: what the task itself is doing
    line            \* history: tasks that wait and keep trying, by arrival

lease == <<holder, waiters, reserved, left, closed>>
vars == <<lease, since, task, line>>

Larger(a, b) == IF a > b THEN a ELSE b
Stale(r) == Larger(StaleMin, StaleFactor * Poll[r])

\* Mutation of Window: slow tasks get no longer than quick ones.
WindowFixed(r) == ReserveMin

Window(r) == Larger(ReserveMin, 2 * Poll[r])

MaxWindow == CHOOSE n \in {Window(r) : r \in Runs} : \A r \in Runs : Window(r) <= n
MaxSince == 1 + CHOOSE n \in {Stale(r) : r \in Runs} : \A r \in Runs : Stale(r) <= n

Init ==
    /\ holder = NoRun /\ waiters = <<>> /\ reserved = NoRun /\ left = 0 /\ closed = FALSE
    /\ since = [r \in Runs |-> 0]
    /\ task = [r \in Runs |-> "out"]
    /\ line = <<>>

Without(seq, r) == SelectSeq(seq, LAMBDA q : q # r)

-----------------------------------------------------------------------------
(* The lease.                                                              *)

\* _prune, from a holder, waiters and a reservation.
Pruned(h, ws, res) ==
    LET fresh == SelectSeq(ws, LAMBDA r : since[r] <= Stale(r))
        over  == res # NoRun /\ left = 0
        kept  == IF over THEN Without(fresh, res) ELSE fresh
        still == IF ~over /\ Contains(kept, res) THEN res ELSE NoRun
        next  == IF h = NoRun /\ still = NoRun /\ kept # <<>> THEN Head(kept) ELSE still
    IN [waiters |-> kept, reserved |-> next,
        left |-> IF next = NoRun THEN 0 ELSE IF next = still THEN left ELSE Window(next)]

Keep(p) == waiters' = p.waiters /\ reserved' = p.reserved /\ left' = p.left

\* Mutation of Free: a reservation only decides who is next in the queue.
FreeBarging(p, r) == holder = NoRun

\* A free lease that nobody else has reserved.
Free(p, r) == holder = NoRun /\ p.reserved \in {NoRun, r}

\* Mutation of Grant: the run stays among the waiters.
GrantQueued(p, r) ==
    /\ holder' = r
    /\ waiters' = p.waiters
    /\ reserved' = NoRun /\ left' = 0

Grant(p, r) ==
    /\ holder' = r
    /\ waiters' = Without(p.waiters, r)
    /\ reserved' = NoRun /\ left' = 0

\* try_acquire: the lease is granted or confirmed.
Acquires(r) ==
    LET p == Pruned(holder, waiters, reserved)
    IN \/ holder = r /\ Keep(p) /\ UNCHANGED holder
       \/ holder # r /\ ~closed /\ Free(p, r) /\ Grant(p, r)

\* try_acquire: refused, and registered unless the lease is closed; a waiter
\* that tries again keeps its place.
Refused(r) ==
    LET p == Pruned(holder, waiters, reserved)
    IN /\ holder # r
       /\ \/ closed /\ Keep(p)
          \/ /\ ~closed /\ ~Free(p, r)
             /\ waiters' = IF Contains(p.waiters, r) THEN p.waiters ELSE Append(p.waiters, r)
             /\ reserved' = p.reserved /\ left' = p.left
       /\ UNCHANGED holder

\* Mutation of FreedBy: the generation of a run is not compared.
FreedByAnyone(r) == holder # NoRun

\* Only the run that holds the lease gives it up.
FreedBy(r) == holder = r

\* release.
ReleaseBy(r) ==
    IF FreedBy(r)
    THEN holder' = NoRun /\ Keep(Pruned(NoRun, waiters, reserved))
    ELSE UNCHANGED <<holder, waiters, reserved, left>>

\* withdraw.
WithdrawBy(r) ==
    /\ Keep(Pruned(holder, Without(waiters, r), IF reserved = r THEN NoRun ELSE reserved))
    /\ UNCHANGED holder

\* Mutation of CloseIfIdle: only a reservation is asked about.
CloseUnreserved ==
    /\ reserved = NoRun
    /\ closed' = TRUE
    /\ waiters' = <<>> /\ reserved' = NoRun /\ left' = 0
    /\ UNCHANGED <<holder, since, task, line>>

\* close_if_idle, for a restart of the process.
CloseIfIdle ==
    /\ holder = NoRun
    /\ closed' = TRUE
    /\ waiters' = <<>> /\ reserved' = NoRun /\ left' = 0
    /\ UNCHANGED <<holder, since, task, line>>

\* blocking_label, reserved_for and waiters prune as well.
Look ==
    /\ Keep(Pruned(holder, waiters, reserved))
    /\ UNCHANGED <<holder, closed, since, task, line>>

-----------------------------------------------------------------------------
(* The tasks.                                                              *)

\* A task tries at the start of a file, and then at every poll.
Try(r) ==
    /\ task[r] \in {"out", "waiting"}
    /\ since' = [since EXCEPT ![r] = 0]
    /\ \/ /\ Acquires(r)
          /\ task' = [task EXCEPT ![r] = "holding"]
          /\ line' = Without(line, r)
       \/ /\ Refused(r)
          /\ task' = [task EXCEPT ![r] = "waiting"]
          /\ line' = IF Contains(line, r) THEN line ELSE Append(line, r)
    /\ UNCHANGED closed

\* The file is done, or the task stops.
Release(r) ==
    /\ task[r] = "holding"
    /\ ReleaseBy(r)
    /\ task' = [task EXCEPT ![r] = "out"]
    /\ UNCHANGED <<closed, since, line>>

\* A stop path releases whatever the task may still hold.
ReleaseLate(r) ==
    /\ task[r] # "holding"
    /\ ReleaseBy(r)
    /\ UNCHANGED <<closed, since, task, line>>

Withdraw(r) ==
    /\ task[r] = "waiting"
    /\ WithdrawBy(r)
    /\ task' = [task EXCEPT ![r] = "out"]
    /\ line' = Without(line, r)
    /\ UNCHANGED <<closed, since>>

\* A task that stops and forgets to withdraw; its next start is another run.
Vanish(r) ==
    /\ task[r] = "waiting"
    /\ task' = [task EXCEPT ![r] = "gone"]
    /\ line' = Without(line, r)
    /\ UNCHANGED <<lease, since>>

\* A task that waits tries within its poll interval.
Tick ==
    /\ \A r \in Runs : task[r] = "waiting" => since[r] < Poll[r]
    /\ since' = [r \in Runs |-> IF ~Contains(waiters, r) THEN 0
                               ELSE IF since[r] < MaxSince THEN since[r] + 1 ELSE MaxSince]
    /\ left' = IF left = 0 THEN 0 ELSE left - 1
    /\ UNCHANGED <<holder, waiters, reserved, closed, task, line>>

Next ==
    \/ \E r \in Runs : Try(r) \/ Release(r) \/ ReleaseLate(r) \/ Withdraw(r) \/ Vanish(r)
    \/ Tick \/ Look \/ CloseIfIdle

Spec == Init /\ [][Next]_vars

\* Time passes, waiting tasks poll, files end.
FairSpec ==
    /\ Spec
    /\ WF_vars(Tick)
    /\ \A r \in Runs : WF_vars(task[r] = "waiting" /\ Try(r)) /\ WF_vars(Release(r))

-----------------------------------------------------------------------------
\* The variables have their types; a reservation is for a waiter, and only
\* while the lease is free.
TypeOK ==
    /\ holder \in Runs \cup {NoRun} /\ reserved \in Runs \cup {NoRun}
    /\ waiters \in Seq(Runs) /\ IsInjective(waiters) /\ ~Contains(waiters, holder)
    /\ left \in 0 .. MaxWindow /\ closed \in BOOLEAN
    /\ since \in [Runs -> 0 .. MaxSince]
    /\ task \in [Runs -> {"out", "waiting", "holding", "gone"}]
    /\ reserved # NoRun => holder = NoRun /\ Contains(waiters, reserved)

\* One task runs its GPU child at a time, whatever is released late, and none
\* does once a restart of the process was granted.
GpuExclusive ==
    /\ \A r \in Runs : task[r] = "holding" <=> holder = r
    /\ closed => holder = NoRun

\* A free lease goes to the task that has been polling for it longest, however
\* slowly it polls (_prune, try_acquire).
FirstCome ==
    [][\A r \in Runs : holder # r /\ holder' = r => line = <<>> \/ Head(line) = r]_vars

\* A task that keeps polling gets the lease in the end.
Granted == \A r \in Runs : task[r] = "waiting" ~> (task[r] # "waiting" \/ closed)

\* Turns are kept in both senses: the order of the line, and that it moves.
Turns == []TypeOK /\ FirstCome /\ Granted
=============================================================================
