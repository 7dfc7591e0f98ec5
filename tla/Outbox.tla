------------------------------- MODULE Outbox -------------------------------
(***************************************************************************)
(* The delivery_outbox table of the Hub (hub/server/store.py) and the one  *)
(* thread that drains it (Poller._drain_outbox): retries with backoff,     *)
(* quarantine, dead letters and their pruning, while servers are renamed   *)
(* and removed.  Rows carry the server's name, not its id.                 *)
(***************************************************************************)
EXTENDS Integers, Sequences, SequencesExt

CONSTANTS
    Sids, Names,    \* server ids, never reused, and the names they may have
    NoName,         \* the name of an id that is not registered
    MaxRow,         \* bound: rows ever enqueued
    Limit,          \* rows of one batch (10)
    MaxAttempts,    \* failed sends that make a dead letter (10)
    MaxFault,       \* bound: failed writes, crashes and cancelled sends
    MaxAdmin        \* bound: renames, removals, switches and offline repairs

VARIABLES
    name,           \* servers: the name of each registered id
    seen,           \* ids that were registered
    rows,           \* delivery_outbox with outbox_quarantine, by row id
    due,            \* due rows in the order of next_attempt_at
    active,         \* get_active(): OpenClaw is switched on
    cycle,          \* its value when the poll cycle began
    batch,          \* the rest of the snapshot being drained
    pc,             \* where the drain stands
    outcome,        \* what the last send returned
    owner,          \* history: the id each row was enqueued for
    fate,           \* history: how each row left the table
    oks,            \* history: sends of each row that succeeded
    lost,           \* history: sends of each row whose outcome was not recorded
    faults, admin   \* bounded by MaxFault and MaxAdmin

table == <<rows, due>>
drain == <<batch, pc, outcome>>
servers == <<name, seen>>
history == <<owner, fate, oks, lost>>
vars == <<servers, table, active, cycle, drain, history, faults, admin>>

Ids == 1 .. MaxRow
Used == 1 .. Len(owner)
Present == {i \in Used : fate[i] = "none"}
\* Age in days, as far as it matters: under a day, under a week, older.
Ages == 0 .. 2

Row == [name : Names, state : {"pending", "failed", "dead"}, attempts : 0 .. MaxAttempts,
        good : BOOLEAN, quarantined : BOOLEAN, age : Ages]

Init ==
    /\ name = [s \in Sids |-> NoName] /\ seen = {}
    /\ rows = <<>> /\ due = <<>>
    /\ active = TRUE /\ cycle = TRUE
    /\ batch = <<>> /\ pc = "idle" /\ outcome = "none"
    /\ owner = <<>> /\ fate = <<>> /\ oks = <<>> /\ lost = <<>>
    /\ faults = 0 /\ admin = 0

Undue(i) == SelectSeq(due, LAMBDA j : j # i)

-----------------------------------------------------------------------------
(* The table's other writers.                                              *)

AddServer(s, n) ==
    /\ s \notin seen /\ \A u \in Sids : name[u] # n
    /\ name' = [name EXCEPT ![s] = n]
    /\ seen' = seen \cup {s}
    /\ UNCHANGED <<table, active, cycle, drain, history, faults, admin>>

\* commit_upstream_batch and hub events: a row for an event of a server.
Enqueue(s) ==
    /\ name[s] # NoName /\ cycle /\ Len(rows) < MaxRow
    /\ rows' = Append(rows, [name |-> name[s], state |-> "pending", attempts |-> 0,
                             good |-> TRUE, quarantined |-> FALSE, age |-> 0])
    /\ due' = Append(due, Len(rows'))
    /\ owner' = Append(owner, s) /\ fate' = Append(fate, "none")
    /\ oks' = Append(oks, 0) /\ lost' = Append(lost, 0)
    /\ UNCHANGED <<servers, active, cycle, drain, faults, admin>>

Administer == admin < MaxAdmin /\ admin' = admin + 1

\* update_server changes the name in `servers` and nowhere else.
Rename(s, n) ==
    /\ Administer
    /\ name[s] # NoName /\ \A u \in Sids : name[u] # n
    /\ name' = [name EXCEPT ![s] = n]
    /\ UNCHANGED <<seen, table, active, cycle, drain, history, faults>>

\* remove_server deletes the rows that carry the server's present name.
RemoveServer(s) ==
    /\ Administer
    /\ name[s] # NoName
    /\ LET gone == {i \in Present : rows[i].name = name[s]}
       IN /\ fate' = [i \in Used |-> IF i \in gone THEN "removed" ELSE fate[i]]
          /\ due' = SelectSeq(due, LAMBDA i : i \notin gone)
    /\ name' = [name EXCEPT ![s] = NoName]
    /\ UNCHANGED <<seen, rows, active, cycle, drain, owner, oks, lost, faults>>

\* The operator switches OpenClaw on or off.
Switch ==
    /\ Administer
    /\ active' = ~active
    /\ UNCHANGED <<servers, table, cycle, drain, history, faults>>

\* poll_once reads the switch for its whole cycle.
CycleBegins ==
    /\ cycle' = active
    /\ UNCHANGED <<servers, table, active, drain, history, faults, admin>>

Fault == faults < MaxFault /\ faults' = faults + 1

\* A row becomes one that validate_row refuses.
Damage(i) ==
    /\ Fault
    /\ rows[i].good
    /\ rows' = [rows EXCEPT ![i].good = FALSE]
    /\ UNCHANGED <<servers, due, active, cycle, drain, history, admin>>

\* Mutation of Repair: a released dead letter is due again.
RepairReviving(i) ==
    /\ Administer
    /\ rows[i].quarantined
    /\ rows' = [rows EXCEPT ![i].quarantined = FALSE, ![i].good = TRUE]
    /\ due' = <<i>> \o due
    /\ UNCHANGED <<servers, active, cycle, drain, history, faults>>

\* outbox_migration --retry-quarantined: rows that became readable.
Repair(i) ==
    /\ Administer
    /\ rows[i].quarantined
    /\ rows' = [rows EXCEPT ![i].quarantined = FALSE, ![i].good = TRUE]
    /\ due' = IF rows[i].state = "dead" THEN due ELSE <<i>> \o due
    /\ UNCHANGED <<servers, active, cycle, drain, history, faults>>

GrowsOld(i) ==
    /\ rows[i].age < 2
    /\ rows' = [rows EXCEPT ![i].age = @ + 1]
    /\ UNCHANGED <<servers, due, active, cycle, drain, history, faults, admin>>

\* The backoff of a failed row has passed.
Elapse(i) ==
    /\ rows[i].state = "failed" /\ ~rows[i].quarantined /\ ~Contains(due, i)
    /\ due' = Append(due, i)
    /\ UNCHANGED <<servers, rows, active, cycle, drain, history, faults, admin>>

\* prune_dead_letters at the end of a poll cycle.
Prune ==
    LET old == {i \in Present : rows[i].state = "dead" /\ ~rows[i].quarantined /\ rows[i].age = 2}
    IN /\ old # {}
       /\ fate' = [i \in Used |-> IF i \in old /\ rows[i].good THEN "pruned" ELSE fate[i]]
       /\ rows' = [i \in Used |-> IF i \in old /\ ~rows[i].good
                                  THEN [rows[i] EXCEPT !.quarantined = TRUE] ELSE rows[i]]
       /\ UNCHANGED <<servers, due, active, cycle, drain, owner, oks, lost, faults, admin>>

-----------------------------------------------------------------------------
(* The drain.                                                              *)

Current == Head(batch)

Snapshot(i) == [id |-> i, good |-> rows[i].good, attempts |-> rows[i].attempts]

\* due_deliveries: up to Limit rows, read once; they may change meanwhile.
Query ==
    /\ pc = "idle" /\ active /\ due # <<>>
    /\ batch' = [k \in 1 .. (IF Len(due) < Limit THEN Len(due) ELSE Limit) |-> Snapshot(due[k])]
    /\ pc' = "row"
    /\ UNCHANGED <<servers, table, active, cycle, outcome, history, faults, admin>>

\* The next row, unless the batch or its time is over.
Advance ==
    /\ batch' \in {Tail(batch), <<>>}
    /\ pc' = IF batch' = <<>> THEN "idle" ELSE "row"
    /\ outcome' = "none"

Abandon == batch' = <<>> /\ pc' = "idle" /\ outcome' = "none"

\* Switched off between two rows.
Break ==
    /\ pc = "row" /\ ~active
    /\ Abandon
    /\ UNCHANGED <<servers, table, active, cycle, history, faults, admin>>

\* Mutation of Exclude: the exclusion is not written down.
ExcludeForNow(i) == UNCHANGED table

\* quarantine_delivery: the row stays, and is never due again.
Exclude(i) ==
    /\ rows' = [rows EXCEPT ![i].quarantined = TRUE]
    /\ due' = Undue(i)

\* A row that cannot be read must not hold up the others.
Quarantine ==
    /\ pc = "row" /\ active /\ ~Current.good
    /\ \/ /\ IF Current.id \in Present THEN Exclude(Current.id) ELSE UNCHANGED table
          /\ UNCHANGED faults
       \/ Fault /\ UNCHANGED table
    /\ Advance
    /\ UNCHANGED <<servers, active, cycle, history, admin>>

Expired == Current.attempts >= MaxAttempts \/ rows[Current.id].age > 0

\* mark_delivery_dead_letter.
MarkDead(i, attempts) ==
    /\ rows' = [rows EXCEPT ![i].state = "dead", ![i].attempts = attempts]
    /\ due' = Undue(i)

\* mark_delivery_failed: the row is due again after its backoff.
MarkFailed(i, attempts) ==
    /\ rows' = [rows EXCEPT ![i].state = "failed", ![i].attempts = attempts]
    /\ due' = Undue(i)

\* A row past its age or its attempts is not sent any more.
Expire ==
    /\ pc = "row" /\ active /\ Current.good /\ Expired
    /\ \/ /\ IF Current.id \in Present THEN MarkDead(Current.id, Current.attempts)
             ELSE UNCHANGED table
          /\ UNCHANGED faults
       \/ Fault /\ UNCHANGED table
    /\ Advance
    /\ UNCHANGED <<servers, active, cycle, history, admin>>

BeginSend ==
    /\ pc = "row" /\ active /\ Current.good /\ ~Expired
    /\ pc' = "send"
    /\ UNCHANGED <<servers, table, active, cycle, batch, outcome, history, faults, admin>>

SendReturns ==
    /\ pc = "send"
    /\ pc' = "record"
    /\ \/ outcome' = "ok"   /\ oks' = [oks EXCEPT ![Current.id] = @ + 1]
       \/ outcome' = "fail" /\ UNCHANGED oks
    /\ UNCHANGED <<servers, table, active, cycle, batch, owner, fate, lost, faults, admin>>

\* A busy or cancelled sender: the row is kept as it is.
SendUncertain ==
    /\ pc = "send"
    /\ Fault
    /\ Abandon
    /\ UNCHANGED <<servers, table, active, cycle, history, admin>>

\* Mutation of RecordSuccess: the receipt is written and the row is kept.
RecordSuccessKeeping(i) == UNCHANGED <<table, fate>>

\* complete_delivery.
RecordSuccess(i) ==
    /\ due' = Undue(i)
    /\ fate' = [fate EXCEPT ![i] = "delivered"]
    /\ UNCHANGED rows

\* The last attempt makes a dead letter.
RecordFailure(i) ==
    IF Current.attempts + 1 >= MaxAttempts
    THEN MarkDead(i, Current.attempts + 1)
    ELSE MarkFailed(i, Current.attempts + 1)

\* Mutation of Record: a row leaves the table whatever the send returned.
RecordBlind ==
    /\ pc = "record"
    /\ LET i == Current.id
       IN \/ /\ IF i \in Present THEN RecordSuccess(i) ELSE UNCHANGED <<table, fate>>
             /\ UNCHANGED <<lost, faults>>
          \/ /\ Fault
             /\ lost' = [lost EXCEPT ![i] = @ + 1]
             /\ UNCHANGED <<table, fate>>
    /\ Advance
    /\ UNCHANGED <<servers, active, cycle, owner, oks, admin>>

\* What the send returned is written, or the write fails and only this row
\* is left as it was.  A row that was removed meanwhile is not written.
Record ==
    /\ pc = "record"
    /\ LET i == Current.id
       IN \/ /\ \/ i \notin Present /\ UNCHANGED <<table, fate>>
                \/ i \in Present /\ outcome = "ok" /\ RecordSuccess(i)
                \/ i \in Present /\ outcome = "fail" /\ RecordFailure(i) /\ UNCHANGED fate
             /\ UNCHANGED <<lost, faults>>
          \/ /\ Fault
             /\ lost' = [lost EXCEPT ![i] = @ + 1]
             /\ UNCHANGED <<table, fate>>
    /\ Advance
    /\ UNCHANGED <<servers, active, cycle, owner, oks, admin>>

\* The Hub dies; the table survives, what was not recorded is forgotten.
Crash ==
    /\ pc # "idle"
    /\ Fault
    /\ lost' = IF pc = "record" THEN [lost EXCEPT ![Current.id] = @ + 1] ELSE lost
    /\ Abandon
    /\ UNCHANGED <<servers, table, active, cycle, owner, fate, oks, admin>>

-----------------------------------------------------------------------------
Drain == Query \/ Break \/ Quarantine \/ Expire \/ BeginSend \/ SendReturns \/ Record

Next ==
    \/ \E s \in Sids, n \in Names : AddServer(s, n) \/ Rename(s, n)
    \/ \E s \in Sids : Enqueue(s) \/ RemoveServer(s)
    \/ \E i \in Present : Damage(i) \/ Repair(i) \/ GrowsOld(i) \/ Elapse(i)
    \/ Switch \/ CycleBegins \/ Prune
    \/ Drain \/ SendUncertain \/ Crash

Spec == Init /\ [][Next]_vars

\* The delivery thread keeps draining and backoffs end.
FairSpec ==
    /\ Spec
    /\ WF_vars(Drain)
    /\ \A i \in Ids : WF_vars(i \in Present /\ Elapse(i))

-----------------------------------------------------------------------------
\* The variables have their types, and a due row is one that may be sent.
TypeOK ==
    /\ name \in [Sids -> Names \cup {NoName}] /\ seen \subseteq Sids
    /\ rows \in Seq(Row) /\ Len(rows) <= MaxRow
    /\ \A i \in ToSet(due) : /\ i \in Present /\ ~rows[i].quarantined
                             /\ rows[i].state \in {"pending", "failed"}
    /\ IsInjective(due)
    /\ active \in BOOLEAN /\ cycle \in BOOLEAN
    /\ pc \in {"idle", "row", "send", "record"} /\ outcome \in {"none", "ok", "fail"}
    /\ (pc = "idle") = (batch = <<>>)
    /\ faults \in 0 .. MaxFault /\ admin \in 0 .. MaxAdmin

\* A row leaves the table only for a confirmed delivery, as a week-old dead
\* letter, or with a server that has its name.
NoSilentLoss ==
    \A i \in Used \ Present : \/ fate[i] = "delivered" /\ oks[i] > 0
                              \/ fate[i] = "pruned" /\ rows[i].state = "dead" /\ rows[i].age = 2
                              \/ fate[i] = "removed"

\* A notification goes out twice only after its first success was not recorded.
DuplicatesNeedFaults == \A i \in Used : oks[i] <= 1 + lost[i]

\* While OpenClaw is on, a due row is sent or given up, whatever is wrong
\* with the rows before it.
EventuallySettled ==
    \A i \in Ids :
        i \in Used ~> (~active \/ i \notin Present \/ rows[i].quarantined \/ rows[i].state = "dead")
=============================================================================
