---------------------------- MODULE StateSession ----------------------------
(***************************************************************************)
(* The durable event-id counter of a TaskPaw Agent (core/state.py), the    *)
(* queue's use of it (core/protocol.py, EventQueue.add) and the offline    *)
(* lineage tool (agent/state.py).                                          *)
(*                                                                         *)
(* The counter lives in two files that are replaced one after the other,   *)
(* the anchor first.  A process owns them while it holds the OS lease.     *)
(* Every step between two writes is an action of its own, so a process may *)
(* die, a write may fail and the shutdown thread may run between any two.  *)
(***************************************************************************)
EXTENDS Integers, FiniteSets

CONSTANTS
    Procs,          \* operating-system processes that may open the state
    NoProc,         \* the lease is free
    MAX_EVENT_ID,   \* the last id of a lineage
    MaxLineage,     \* bound: lineages created by initialize and migrate
    MaxDamage       \* bound: records lost or corrupted from outside

ASSUME ProcsAssumption == NoProc \notin Procs
ASSUME MaxIdAssumption == MAX_EVENT_ID \in Nat \ {0}
ASSUME BoundsAssumption == MaxLineage \in Nat /\ MaxDamage \in Nat

VARIABLES
    primary,        \* agent.state.json
    anchor,         \* agent.state.highwater.json
    config,         \* server_id in agent.yaml
    faulted,        \* a .fault-* backup exists beside the records
    lease,          \* holder of the OS lock
    pc,             \* pc[p]: where process p stands
    rec,            \* rec[p]: StateSession.record, or the record a tool writes
    pending,        \* pending[p]: StateSession._pending is set
    closing,        \* closing[p]: StateSession._closing
    published,      \* history: <<stream, id>> of every event made visible
    fresh,          \* the next lineage id nobody has used
    damages         \* counts Damage, bounded by MaxDamage

files == <<primary, anchor, config, faulted>>
session == <<lease, pc, rec, pending, closing>>
vars == <<primary, anchor, config, faulted, lease, pc, rec, pending, closing,
          published, fresh, damages>>

-----------------------------------------------------------------------------
Kinds == {"missing", "corrupt", "legacy", "v2"}

\* What one of the two files may hold.  A legacy record carries only `next`.
Record == [kind : Kinds, server : Nat, stream : Nat, next : Nat]

Blank(k) == [kind |-> k, server |-> 0, stream |-> 0, next |-> 0]

Legacy(next) == [kind |-> "legacy", server |-> 0, stream |-> 0, next |-> next]

V2(server, stream, next) ==
    [kind |-> "v2", server |-> server, stream |-> stream, next |-> next]

Readable(r) == r.kind = "v2"
Exists(r) == r.kind # "missing"
SameIdentity(r, s) == r.server = s.server /\ r.stream = s.stream

\* Mutation of Bump: only the counter is written back, as in the V1 file.
BumpCounterOnly(r) == [next |-> r.next + 1]

\* The record that reserves the id after r.next.
Bump(r) == [r EXCEPT !.next = @ + 1]

\* The event a process has reserved, or is about to publish.
Claim(p) == <<rec[p].stream, rec[p].next - 1>>

-----------------------------------------------------------------------------
\* pc values of a running Agent and of an offline tool.
AgentPC == {"idle", "reserving", "writing", "anchored", "written", "aborted", "reserved"}
ToolPC == {"toolAnchor", "toolPrimary", "toolConfig"}
Active == {"reserving", "writing", "anchored", "written", "aborted"}

\* A process that has durably reserved an id which is not yet visible.
Claiming(p) == pc[p] \in {"written", "reserved"}

Init ==
    /\ \/ primary = Blank("missing") /\ anchor = Blank("missing")
       \/ primary = Legacy(1) /\ anchor = Blank("missing")
    /\ config = 0
    /\ faulted = FALSE
    /\ lease = NoProc
    /\ pc = [p \in Procs |-> "off"]
    /\ rec = [p \in Procs |-> Blank("missing")]
    /\ pending = [p \in Procs |-> FALSE]
    /\ closing = [p \in Procs |-> FALSE]
    /\ published = {}
    /\ fresh = 1
    /\ damages = 0

Goto(p, l) == pc' = [pc EXCEPT ![p] = l]
Release(p) == lease' = IF lease = p THEN NoProc ELSE lease

\* The process is gone, and its memory with it.
Gone(p) ==
    /\ Goto(p, "off")
    /\ rec' = [rec EXCEPT ![p] = Blank("missing")]
    /\ pending' = [pending EXCEPT ![p] = FALSE]
    /\ closing' = [closing EXCEPT ![p] = FALSE]

-----------------------------------------------------------------------------
(* StateSession.open: both records, equal, of the configured server, with  *)
(* an id left.                                                             *)

Openable ==
    /\ Readable(primary)
    /\ primary = anchor
    /\ primary.server = config
    /\ primary.next <= MAX_EVENT_ID

Open(p) ==
    /\ pc[p] = "off" /\ lease = NoProc
    /\ Openable
    /\ lease' = p
    /\ Goto(p, "idle")
    /\ rec' = [rec EXCEPT ![p] = primary]
    /\ UNCHANGED <<files, pending, closing, published, fresh, damages>>

\* A refused open backs up whatever is there and gives the lease back.
OpenRefused(p) ==
    /\ pc[p] = "off" /\ lease = NoProc
    /\ ~Openable
    /\ Exists(primary) \/ Exists(anchor)
    /\ faulted' = TRUE
    /\ UNCHANGED <<primary, anchor, config, session, published, fresh, damages>>

-----------------------------------------------------------------------------
(* EventQueue.add and StateSession.reserve.                                *)

BeginReserve(p) ==
    /\ pc[p] = "idle"
    /\ ~closing[p]
    /\ rec[p].next <= MAX_EVENT_ID
    /\ Goto(p, "reserving")
    /\ UNCHANGED <<files, lease, rec, pending, closing, published, fresh, damages>>

\* The records on disk must be the session's own; while an earlier write of
\* the same target failed, the target itself is accepted too.
ReserveAdmissible(p) ==
    LET target == Bump(rec[p])
        allowed == {rec[p]} \cup (IF pending[p] THEN {target} ELSE {})
    IN  /\ primary \in allowed
        /\ anchor \in allowed
        /\ ~(primary = target /\ anchor # target)

\* Mutation of CheckReserve: the attempted target is not remembered.
CheckForgetful(p) ==
    /\ pc[p] = "reserving"
    /\ Goto(p, IF ReserveAdmissible(p) THEN "writing" ELSE "aborted")
    /\ UNCHANGED <<files, lease, rec, pending, closing, published, fresh, damages>>

CheckReserve(p) ==
    /\ pc[p] = "reserving"
    /\ \/ /\ ReserveAdmissible(p)
          /\ pending' = [pending EXCEPT ![p] = TRUE]
          /\ Goto(p, "writing")
       \/ /\ ~ReserveAdmissible(p)
          /\ Goto(p, "aborted")
          /\ UNCHANGED pending
    /\ UNCHANGED <<files, lease, rec, closing, published, fresh, damages>>

WriteAnchor(p) ==
    /\ pc[p] = "writing"
    /\ anchor' = Bump(rec[p])
    /\ Goto(p, "anchored")
    /\ UNCHANGED <<primary, config, faulted, lease, rec, pending, closing,
                   published, fresh, damages>>

\* The write raises; the replacement may or may not have taken place.
FailAnchor(p) ==
    /\ pc[p] = "writing"
    /\ anchor' \in {anchor, Bump(rec[p])}
    /\ Goto(p, "aborted")
    /\ UNCHANGED <<primary, config, faulted, lease, rec, pending, closing,
                   published, fresh, damages>>

WritePrimary(p) ==
    /\ pc[p] = "anchored"
    /\ primary' = Bump(rec[p])
    /\ rec' = [rec EXCEPT ![p] = Bump(@)]
    /\ pending' = [pending EXCEPT ![p] = FALSE]
    /\ Goto(p, "written")
    /\ UNCHANGED <<anchor, config, faulted, lease, closing, published, fresh, damages>>

FailPrimary(p) ==
    /\ pc[p] = "anchored"
    /\ primary' \in {primary, Bump(rec[p])}
    /\ Goto(p, "aborted")
    /\ UNCHANGED <<anchor, config, faulted, lease, rec, pending, closing,
                   published, fresh, damages>>

\* Mutations of Finish: a failed write is swallowed; a close is forgotten.
FinishSwallowing(p) ==
    /\ pc[p] \in {"written", "aborted"} /\ Goto(p, "reserved")
    /\ IF closing[p] THEN Release(p) ELSE UNCHANGED lease
    /\ UNCHANGED <<files, rec, pending, closing, published, fresh, damages>>

FinishKeeping(p) ==
    /\ \/ pc[p] = "written" /\ Goto(p, "reserved")
       \/ pc[p] = "aborted" /\ Goto(p, "idle")
    /\ UNCHANGED <<files, lease, rec, pending, closing, published, fresh, damages>>

\* The `finally` of reserve: a close that arrived meanwhile takes effect.
Finish(p) ==
    /\ \/ pc[p] = "written" /\ Goto(p, "reserved")
       \/ pc[p] = "aborted" /\ Goto(p, "idle")
    /\ IF closing[p] THEN Release(p) ELSE UNCHANGED lease
    /\ UNCHANGED <<files, rec, pending, closing, published, fresh, damages>>

\* The event is appended to the queue and its id becomes visible.
Publish(p) ==
    /\ pc[p] = "reserved"
    /\ published' = published \cup {Claim(p)}
    /\ Goto(p, "idle")
    /\ UNCHANGED <<files, lease, rec, pending, closing, fresh, damages>>

-----------------------------------------------------------------------------
(* EventQueue.close by the shutdown thread, the end of the process, and    *)
(* its sudden death.  The OS unlocks the lease when the process is gone.   *)

\* Mutation of Close: the lease goes although a reservation is under way.
CloseAtOnce(p) ==
    /\ pc[p] \in AgentPC
    /\ ~closing[p]
    /\ closing' = [closing EXCEPT ![p] = TRUE]
    /\ Release(p)
    /\ UNCHANGED <<files, pc, rec, pending, published, fresh, damages>>

Close(p) ==
    /\ pc[p] \in AgentPC
    /\ ~closing[p]
    /\ closing' = [closing EXCEPT ![p] = TRUE]
    /\ IF pc[p] \in Active THEN UNCHANGED lease ELSE Release(p)
    /\ UNCHANGED <<files, pc, rec, pending, published, fresh, damages>>

Exit(p) ==
    /\ pc[p] = "idle" /\ closing[p]
    /\ Gone(p)
    /\ UNCHANGED <<files, lease, published, fresh, damages>>

Crash(p) ==
    /\ pc[p] # "off"
    /\ Gone(p)
    /\ Release(p)
    /\ UNCHANGED <<files, published, fresh, damages>>

-----------------------------------------------------------------------------
(* The offline tool: initialize, migrate and recover, each under the lease. *)

Trusted == Readable(primary) /\ primary = anchor /\ primary.server = config

\* What every command that writes does once it knows the record to write.
ToolBegin(p, r) ==
    /\ pc[p] = "off" /\ lease = NoProc
    /\ lease' = p
    /\ Goto(p, "toolAnchor")
    /\ rec' = [rec EXCEPT ![p] = r]
    /\ faulted' = (faulted \/ Exists(primary) \/ Exists(anchor))
    /\ UNCHANGED <<primary, anchor, config, pending, closing, published, damages>>

\* initialize --confirm-new-pairing: refused on a verified lineage.
Initialize(p) ==
    /\ ~Trusted
    /\ fresh <= MaxLineage
    /\ ToolBegin(p, V2(fresh, fresh, 1))
    /\ fresh' = fresh + 1

\* The first run of a fresh install keeps the configured server_id and needs
\* the absence of any record and of any fault backup.
FirstRun(p) ==
    /\ ~Exists(primary) /\ ~Exists(anchor) /\ ~faulted
    /\ fresh <= MaxLineage
    /\ ToolBegin(p, V2(config, fresh, 1))
    /\ fresh' = fresh + 1

Migrate(p) ==
    /\ primary.kind = "legacy" /\ ~Exists(anchor)
    /\ fresh <= MaxLineage
    /\ ToolBegin(p, V2(config, fresh, primary.next))
    /\ fresh' = fresh + 1

\* recover --confirm-surviving-record-intact: the highest readable record of
\* the configured server; two records of different lineages are refused.
Recoverable(r) ==
    LET readable == {f \in {primary, anchor} : Readable(f)}
    IN  /\ r \in readable
        /\ \A f \in readable : /\ f.server = config
                               /\ SameIdentity(f, r)
                               /\ f.next <= r.next

Recover(p) ==
    /\ \E r \in {primary, anchor} : Recoverable(r) /\ ToolBegin(p, r)
    /\ UNCHANGED fresh

ToolAnchor(p) ==
    /\ pc[p] = "toolAnchor"
    /\ anchor' = rec[p]
    /\ Goto(p, "toolPrimary")
    /\ UNCHANGED <<primary, config, faulted, lease, rec, pending, closing,
                   published, fresh, damages>>

ToolPrimary(p) ==
    /\ pc[p] = "toolPrimary"
    /\ primary' = rec[p]
    /\ Goto(p, "toolConfig")
    /\ UNCHANGED <<anchor, config, faulted, lease, rec, pending, closing,
                   published, fresh, damages>>

\* initialize saves the new server_id; the others leave it as it was.
ToolConfig(p) ==
    /\ pc[p] = "toolConfig"
    /\ config' = rec[p].server
    /\ Gone(p)
    /\ Release(p)
    /\ UNCHANGED <<primary, anchor, faulted, published, fresh, damages>>

-----------------------------------------------------------------------------
(* External: a record is deleted or damaged on disk.                       *)

Damage ==
    /\ damages < MaxDamage
    /\ damages' = damages + 1
    /\ \E k \in {"missing", "corrupt"} :
          \/ primary' = Blank(k) /\ UNCHANGED anchor
          \/ anchor' = Blank(k) /\ UNCHANGED primary
    /\ UNCHANGED <<config, faulted, session, published, fresh>>

-----------------------------------------------------------------------------
Reserve(p) ==
    \/ BeginReserve(p) \/ CheckReserve(p)
    \/ WriteAnchor(p) \/ FailAnchor(p) \/ WritePrimary(p) \/ FailPrimary(p)
    \/ Finish(p) \/ Publish(p)

Lifecycle(p) == Open(p) \/ OpenRefused(p) \/ Close(p) \/ Exit(p) \/ Crash(p)

Tool(p) ==
    \/ Initialize(p) \/ FirstRun(p) \/ Migrate(p) \/ Recover(p)
    \/ ToolAnchor(p) \/ ToolPrimary(p) \/ ToolConfig(p)

Next == Damage \/ \E p \in Procs : Reserve(p) \/ Lifecycle(p) \/ Tool(p)

Spec == Init /\ [][Next]_vars

\* The thread that is inside reserve runs on until it is through.
Progress(p) ==
    CheckReserve(p) \/ WriteAnchor(p) \/ FailAnchor(p) \/ WritePrimary(p)
    \/ FailPrimary(p) \/ Finish(p)

FairSpec == Spec /\ \A p \in Procs : WF_vars(Progress(p))

-----------------------------------------------------------------------------
TypeOK ==
    /\ primary \in Record /\ anchor \in Record
    /\ config \in Nat
    /\ faulted \in BOOLEAN
    /\ lease \in Procs \cup {NoProc}
    /\ pc \in [Procs -> {"off"} \cup AgentPC \cup ToolPC]
    /\ rec \in [Procs -> Record]
    /\ pending \in [Procs -> BOOLEAN]
    /\ closing \in [Procs -> BOOLEAN]
    /\ published \subseteq Nat \X Int
    /\ fresh \in Nat
    /\ damages \in Nat

\* An id is visible at most once per event stream, across crashes, failed
\* writes, lost records, recovery and a process that is still closing while
\* its successor runs: what a process is about to publish was never
\* published, and no other process is about to publish it (EventQueue.add).
NeverReissued ==
    \A p \in Procs : Claiming(p) =>
        /\ Claim(p) \notin published
        /\ \A q \in Procs \ {p} : Claiming(q) => Claim(q) # Claim(p)

\* Ids that are visible or about to be.
Claimed == published \cup {Claim(p) : p \in {q \in Procs : Claiming(q)}}

\* Record r lies beyond every id in C that belongs to its stream.
Beyond(r, C) == Readable(r) => \A c \in C : c[1] = r.stream => c[2] < r.next

\* Either record alone is enough to continue its stream safely: this is what
\* allows `recover` to go on from the one that survived (agent/state.py).
SurvivorCovers == Beyond(primary, Claimed) /\ Beyond(anchor, Claimed)

\* The anchor is never behind the primary, and ahead of it by one id at most
\* (write_pair), unless a record was damaged from outside.
AnchorLeads ==
    (/\ damages = 0
     /\ Readable(primary) /\ Readable(anchor) /\ SameIdentity(primary, anchor))
    => anchor.next - primary.next \in {0, 1}

\* A reservation is not refused for what the session's own failed writes left
\* behind: the queue can always retry the same id (StateSession._pending).
RetryAdmitted ==
    \A p \in Procs : (pc[p] = "reserving" /\ damages = 0) => ReserveAdmissible(p)

\* Whoever is between the checks and the last write owns the lease, however
\* close() raced with it; so does every session that has not been closed.
WriterHoldsLease ==
    \A p \in Procs :
        \/ pc[p] \in Active \cup ToolPC
        \/ pc[p] \in AgentPC /\ ~closing[p]
        => lease = p

\* What the holder of the lease works from covers every claimed id too, and
\* between its two writes the anchor is the record it wrote, or unreadable.
HolderCovers ==
    \A p \in Procs : pc[p] # "off" =>
        /\ Readable(rec[p])
        /\ lease = p => Beyond(rec[p], Claimed)
        /\ pc[p] = "anchored" => (Readable(anchor) => anchor = Bump(rec[p]))
        /\ Claiming(p) => rec[p].next > 0

\* A stream id that has not been drawn yet is in no record and on no event.
LineagesDrawn ==
    /\ \A f \in {primary, anchor} : Readable(f) => f.stream < fresh
    /\ \A p \in Procs : pc[p] # "off" => rec[p].stream < fresh
    /\ \A c \in published : c[1] < fresh

\* An id is claimed only by the owner of the lease, from a record beyond all
\* claims, and a claim outlives the lease.
ClaimInv ==
    /\ TypeOK
    /\ WriterHoldsLease
    /\ NeverReissued
    /\ SurvivorCovers
    /\ HolderCovers
    /\ LineagesDrawn

\* What the owner of the lease knows of the two files, from where it stands.
KnowsDisk(p) ==
    LET target == Bump(rec[p])
        attempted == pending[p] /\ anchor = target /\ primary \in {rec[p], target}
        settled == primary = rec[p] /\ anchor = rec[p]
    IN  /\ pc[p] \in {"idle", "reserving", "writing", "aborted", "reserved"}
                => settled \/ attempted
        /\ pc[p] = "writing" => pending[p]
        /\ pc[p] = "anchored" => attempted
        /\ pc[p] = "written" => settled
        /\ pc[p] = "toolAnchor" => (Readable(primary) /\ SameIdentity(primary, rec[p])
                                      => rec[p].next - primary.next \in {0, 1})
        /\ pc[p] = "toolPrimary" => anchor = rec[p]

\* Without outside damage, the files are what their owner takes them to be.
DiskCoherent == damages = 0 => \A p \in Procs : lease = p => KnowsDisk(p)

\* The inductive invariant.
IInv == ClaimInv /\ DiskCoherent /\ AnchorLeads

\* Closing is bounded: the lease becomes free for the next process even when
\* a reservation was under way (StateSession.close).
CloseReleases == \A p \in Procs : []<>(closing[p] => lease # p)
=============================================================================
