------------------------------ MODULE Enrolment ------------------------------
(***************************************************************************)
(* A GPU worker that joins the media workflow (workflow/remote_worker.py): *)
(* the join a user starts with a pairing code, the files that hold the     *)
(* credential, the one loop that runs on it, the dispatcher of the session *)
(* and its job.  Calls may be lost on their way back, the disk may refuse, *)
(* the process may die, another code may be entered at any time.  A call   *)
(* that changes nothing at the controller and is not answered is a step    *)
(* not taken.                                                              *)
(***************************************************************************)
EXTENDS WorkerRegistry

CONSTANTS
    Configs,        \* configurations of the worker's tools and card
    MaxJoin,        \* bound: joins
    MaxTrouble      \* bound: lost replies, refused writes, crashes, stops, slow
                    \* loops, unread cards, stuck children, codes that run
                    \* out, drains

VARIABLES
    identFile, pendFile,    \* worker-identity.json and its .pending
    up, closed,             \* the process runs; stop() was called
    ident, pcheck,          \* identity and _pending_check
    unsaved, refused,       \* _unsaved, _refused
    stop, lpc, back,        \* _stop; where the loop is, and comes back to
    jpc, join,              \* where the join is; its identity, the one before
                            \* it, and whether its request may have landed
    hw, tiers,              \* the configuration; the last probe found tiers
    disp, job,              \* the dispatcher; the processes of its attempt
    joins, slip, troubles   \* slip: what lost a credential on the way

files == <<identFile, pendFile>>
memory == <<up, closed, ident, pcheck, unsaved, refused>>
loop == <<stop, lpc, back>>
joining == <<jpc, join>>
work == <<hw, tiers, disp, job>>
counts == <<joins, slip, troubles>>
vars == <<registry, files, memory, loop, joining, work, counts>>

\* A WorkerIdentity: its credential, the code it came from, and whether the
\* controller has confirmed it.
Id(c, k, ok) == [cred |-> c, code |-> k, ok |-> ok]
NoId == Id(0, 0, FALSE)
Confirmed(id) == [id EXCEPT !.ok = TRUE]
NoJoin == [id |-> NoId, old |-> NoId, held |-> FALSE]

\* A RemoteDispatcher: the credential and boot it is bound to, whether it has
\* executors, has been started or halted, and what it last observed.
NoDisp == [cred |-> 0, boot |-> 0, exec |-> FALSE, started |-> FALSE,
           halted |-> FALSE, tiers |-> FALSE, settled |-> FALSE]

Init ==
    /\ RegistryInit
    /\ identFile = NoId /\ pendFile = NoId
    /\ up = TRUE /\ closed = FALSE /\ ident = NoId /\ pcheck = NoId
    /\ unsaved = FALSE /\ refused = {}
    /\ stop = FALSE /\ lpc = "none" /\ back = "top"
    /\ jpc = "idle" /\ join = NoJoin
    /\ hw = (CHOOSE c \in Configs : TRUE) /\ tiers = FALSE /\ disp = NoDisp /\ job = "none"
    /\ joins = 0 /\ slip = {} /\ troubles = 0

Trouble == troubles < MaxTrouble /\ troubles' = troubles + 1
Goto(l) == lpc' = l /\ back' = "top"
Call(l, b) == lpc' = l /\ back' = b
Usable == ident # NoId /\ ident.cred \notin refused
Copies == {identFile.cred, pendFile.cred}

\* _spawn
Spawn == IF closed THEN UNCHANGED loop ELSE stop' = FALSE /\ Goto("top")

-----------------------------------------------------------------------------
(* The join.                                                               *)

\* Mutation of Chosen: every join makes a new credential.
ChosenAnew(k) == Id(joins + 1, k, FALSE)

\* The same code again keeps the credential that may be paired already.
Chosen(k) ==
    LET was == IF ident # NoId THEN ident ELSE identFile
    IN  Id(IF pendFile # NoId /\ pendFile.code = k THEN pendFile.cred
           ELSE IF was # NoId /\ was.code = k THEN was.cred ELSE joins + 1, k, FALSE)

\* _join up to the pending file.
Join(k) ==
    /\ up /\ ~closed /\ jpc = "idle" /\ joins < MaxJoin
    /\ code[k] # "none"
    /\ joins' = joins + 1
    /\ join' = [id |-> Chosen(k), old |-> IF ident # NoId THEN ident ELSE identFile,
                held |-> FALSE]
    /\ pendFile' = Chosen(k)
    /\ slip' = IF pendFile.cred \in {0, identFile.cred, Chosen(k).cred}
               THEN slip ELSE slip \cup {"overwritten"}
    /\ jpc' = "saved"
    /\ UNCHANGED <<registry, identFile, memory, loop, work, troubles>>

\* _halt, which asks ...
JoinAsks ==
    /\ jpc = "saved" /\ jpc' = "halt" /\ stop' = TRUE
    /\ UNCHANGED <<registry, files, memory, lpc, back, join, work, counts>>

\* ... and waits.
JoinHalts ==
    /\ jpc = "halt" /\ lpc = "none"
    /\ jpc' = "pair" /\ pcheck' = NoId
    /\ slip' = IF pcheck.cred \in {0, join.id.cred} THEN slip ELSE slip \cup {"replaced"}
    /\ UNCHANGED <<registry, files, up, closed, ident, unsaved, refused, loop, join, work,
                   joins, troubles>>

\* The loop does not end within the time of the join.
JoinGivesUp ==
    /\ jpc = "halt" /\ lpc # "none" /\ Trouble
    /\ jpc' = "idle" /\ join' = NoJoin /\ slip' = slip \cup {"abandoned"}
    /\ UNCHANGED <<registry, files, memory, loop, work, joins>>

\* The request lands; its reply may be lost.
PairLands ==
    /\ jpc = "pair" /\ Pairable(join.id.code)
    /\ Paired(join.id.code, join.id.cred)
    /\ \/ jpc' = "adopt" /\ UNCHANGED <<join, troubles>>
       \/ Trouble /\ jpc' = "ask" /\ join' = [join EXCEPT !.held = TRUE]
    /\ UNCHANGED <<files, memory, loop, work, joins, slip>>

PairRefused ==
    /\ jpc = "pair" /\ ~Pairable(join.id.code) /\ jpc' = "ask"
    /\ UNCHANGED <<registry, files, memory, loop, join, work, counts>>

PairUnsent ==
    /\ jpc = "pair" /\ Trouble
    /\ jpc' = "ask" /\ join' = [join EXCEPT !.held = TRUE]
    /\ UNCHANGED <<registry, files, memory, loop, work, joins, slip>>

\* _recover
JoinProves ==
    /\ jpc = "ask" /\ Accepts(join.id.cred) /\ jpc' = "adopt"
    /\ UNCHANGED <<registry, files, memory, loop, join, work, counts>>

\* /self refuses, or is not answered; an outage that took the first reply
\* takes this one too.
Unproved ==
    IF Accepts(join.id.cred) /\ ~join.held THEN Trouble ELSE UNCHANGED troubles

\* Mutation of JoinFails: what failed is forgotten.
JoinForgets ==
    /\ jpc = "ask"
    /\ Unproved
    /\ jpc' = "idle" /\ join' = NoJoin
    /\ IF join.old.ok
       THEN ident' = join.old /\ pcheck' = NoId /\ Spawn
       ELSE UNCHANGED <<ident, pcheck, loop>>
    /\ UNCHANGED <<slip, registry, files, up, closed, unsaved, refused, work, joins>>

\* _resume: the working identity goes on, and what may have landed is held.
JoinFails ==
    /\ jpc = "ask"
    /\ Unproved
    /\ jpc' = "idle" /\ join' = NoJoin
    /\ IF join.old.ok \/ join.held
       THEN /\ ident' = IF join.old.ok THEN join.old ELSE NoId
            /\ pcheck' = join.id /\ Spawn
            /\ UNCHANGED slip
       ELSE /\ UNCHANGED <<ident, pcheck, loop>>
            /\ slip' = IF Accepts(join.id.cred) THEN slip \cup {"unheld"} ELSE slip
    /\ UNCHANGED <<registry, files, up, closed, unsaved, refused, work, joins>>

\* The end of _join: the worker runs on the new identity, written or not.
JoinAdopts ==
    /\ jpc = "adopt" /\ jpc' = "idle" /\ join' = NoJoin
    /\ ident' = Confirmed(join.id) /\ refused' = refused \ {join.id.cred}
    /\ disp' = [disp EXCEPT !.settled = FALSE]
    /\ \/ /\ identFile' = Confirmed(join.id) /\ pendFile' = NoId /\ unsaved' = FALSE
          /\ UNCHANGED troubles
       \/ Trouble /\ unsaved' = TRUE /\ UNCHANGED files
    /\ Spawn
    /\ UNCHANGED <<registry, up, closed, pcheck, hw, tiers, job, joins, slip>>

-----------------------------------------------------------------------------
(* The process.                                                            *)

Stop ==
    /\ up /\ ~closed /\ Trouble /\ closed' = TRUE /\ stop' = TRUE
    /\ UNCHANGED <<registry, files, up, ident, pcheck, unsaved, refused, lpc, back, joining,
                   work, joins, slip>>

Emptied == /\ up' = FALSE /\ closed' = FALSE /\ ident' = NoId /\ pcheck' = NoId
           /\ unsaved' = FALSE /\ refused' = {} /\ stop' = FALSE /\ lpc' = "none"
           /\ back' = "top" /\ jpc' = "idle" /\ join' = NoJoin /\ tiers' = FALSE
           /\ disp' = NoDisp

\* stop() has joined the loop and the dispatcher.
Down ==
    /\ up /\ closed /\ jpc = "idle" /\ lpc = "none" /\ job # "live"
    /\ Emptied
    /\ UNCHANGED <<registry, files, hw, job, counts>>

Crash ==
    /\ up /\ Trouble /\ Emptied
    /\ job' \in IF job = "live" THEN {"none", "stuck"} ELSE {job}
    /\ UNCHANGED <<registry, files, hw, joins, slip>>

\* start, of a process whose settings may be others.
Start ==
    /\ ~up /\ up' = TRUE
    /\ ident' = identFile /\ pcheck' = pendFile
    /\ hw' \in Configs
    /\ IF identFile = NoId /\ pendFile = NoId THEN UNCHANGED loop ELSE Spawn
    /\ UNCHANGED <<registry, files, closed, unsaved, refused, joining, tiers, disp, job,
                   counts>>

-----------------------------------------------------------------------------
(* The loop.                                                               *)

LoopEnds ==
    /\ stop /\ lpc \in {"top", "self", "boot", "beat"} /\ Goto("none")
    /\ UNCHANGED <<registry, files, memory, stop, joining, work, counts>>

\* A first join that never landed, and every identity refused.
Unjoined ==
    /\ lpc = "top" /\ ~stop /\ pcheck = NoId /\ ident = NoId
    /\ Goto("none") /\ stop' = TRUE
    /\ UNCHANGED <<registry, files, memory, joining, work, counts>>

Revoked ==
    /\ lpc = "top" /\ ~stop /\ pcheck = NoId /\ ident # NoId /\ ~Usable
    /\ job # "live"
    /\ Goto("none") /\ stop' = TRUE
    /\ disp' = IF job = "none" THEN NoDisp ELSE [disp EXCEPT !.halted = TRUE]
    /\ UNCHANGED <<registry, files, memory, joining, hw, tiers, job, counts>>

Session ==
    /\ lpc = "top" /\ ~stop /\ Usable /\ Goto("self")
    /\ UNCHANGED <<registry, files, memory, stop, joining, work, counts>>

\* _check_pending, of the loop and of the waits of a session.
Checking ==
    up /\ pcheck # NoId /\ ~stop /\ lpc \in {"top", "self", "boot", "beat"}

PendingConfirmed ==
    /\ Checking /\ Accepts(pcheck.cred)
    /\ ident' = Confirmed(pcheck) /\ pcheck' = NoId /\ unsaved' = TRUE
    /\ disp' = [disp EXCEPT !.settled = FALSE]
    /\ Goto("save")
    /\ UNCHANGED <<registry, files, up, closed, refused, stop, joining, hw, tiers, job, counts>>

\* _drop_pending looks whether a join wrote a newer file ...
PendingRefused ==
    /\ Checking /\ ~Accepts(pcheck.cred)
    /\ pcheck' = NoId
    /\ IF pendFile.cred \in {0, pcheck.cred} THEN Call("unlink", lpc) ELSE UNCHANGED <<lpc, back>>
    /\ UNCHANGED <<registry, files, up, closed, ident, unsaved, refused, stop, joining, work,
                   counts>>

\* ... and unlinks.
Unlink ==
    /\ lpc = "unlink" /\ Goto(back)
    /\ pendFile' = NoId
    /\ slip' = IF jpc # "idle" THEN slip \cup {"overwritten"} ELSE slip
    /\ UNCHANGED <<registry, identFile, memory, stop, joining, work, joins, troubles>>

\* _promote
Save ==
    /\ lpc = "save" /\ Call("rename", back)
    /\ pendFile' = ident
    /\ slip' = IF jpc # "idle" /\ pendFile # ident THEN slip \cup {"overwritten"} ELSE slip
    /\ UNCHANGED <<registry, identFile, memory, stop, joining, work, joins, troubles>>

SaveRefused ==
    /\ lpc \in {"save", "rename"} /\ Goto(back)
    /\ UNCHANGED <<registry, files, memory, stop, joining, work, counts>>

Rename ==
    /\ lpc = "rename" /\ Goto(back)
    /\ identFile' = pendFile /\ pendFile' = NoId /\ unsaved' = FALSE
    /\ slip' = IF pendFile # ident THEN slip \cup {"overwritten"} ELSE slip
    /\ UNCHANGED <<registry, up, closed, ident, pcheck, refused, stop, joining, work,
                   joins, troubles>>

\* A 401 or 403 refuses the identity it was sent with.
Refused ==
    /\ lpc \in {"self", "post", "boot", "beat"} /\ ~Accepts(ident.cred)
    /\ lpc = "post" => ~stop /\ probed # hw
    /\ refused' = refused \cup {ident.cred} /\ Goto("top")
    /\ UNCHANGED <<registry, files, up, closed, ident, pcheck, unsaved, stop, joining,
                   work, counts>>

SelfView ==
    /\ lpc = "self" /\ Accepts(ident.cred)
    /\ Call("refresh", "dispatcher")
    /\ UNCHANGED <<registry, files, memory, stop, joining, work, counts>>

\* _refresh: the probe, and the executors of a dispatcher built without one.
Refresh ==
    /\ lpc = "refresh"
    /\ \/ /\ tiers' = TRUE /\ Call("post", back)
          /\ disp' = [disp EXCEPT !.exec = @ \/ (disp.cred # 0 /\ ~disp.halted /\ job = "none")]
          /\ UNCHANGED troubles
       \/ Trouble /\ tiers' = FALSE /\ Goto(back) /\ UNCHANGED disp
    /\ UNCHANGED <<registry, files, memory, stop, joining, hw, job, joins, slip>>

\* Mutation of Differs: a changed setting is not a changed probe.
DiffersIfNone == probed = Nothing

\* probe_changed
Differs == probed # hw

\* _refresh, the post.
Post ==
    /\ lpc = "post"
    /\ IF ~Differs \/ stop
       THEN Goto(back) /\ UNCHANGED <<registry, troubles>>
       ELSE /\ Accepts(ident.cred) /\ Posted(hw)
            /\ \/ Goto(back) /\ UNCHANGED troubles
               \/ Trouble /\ UNCHANGED <<lpc, back>>
    /\ UNCHANGED <<files, memory, stop, joining, work, joins, slip>>

\* Mutation of Foreign: a dispatcher goes on under the next identity.
ForeignIfHalted == disp.cred # 0 /\ disp.halted

\* A dispatcher of another identity, or one already stopped.
Foreign == disp.cred # 0 /\ (disp.halted \/ disp.cred # ident.cred)

\* A boot id the controller does not have.
NewBoot == IF bootRow = 1 THEN 2 ELSE 1

\* _ensure_dispatcher
EnsureDispatcher ==
    /\ lpc = "dispatcher" /\ ~(Foreign /\ job # "none")
    /\ disp' = IF disp.cred = 0 \/ Foreign
               THEN [NoDisp EXCEPT !.cred = ident.cred, !.boot = NewBoot, !.exec = tiers]
               ELSE disp
    /\ Goto("boot")
    /\ UNCHANGED <<registry, files, memory, stop, joining, hw, tiers, job, counts>>

\* RemoteDispatcher.stop, of a session's end or a revocation.
StopsJob ==
    /\ job = "live"
    /\ \/ lpc = "dispatcher" /\ Foreign
       \/ lpc = "top" /\ ~stop /\ pcheck = NoId /\ ident # NoId /\ ~Usable
       \/ closed /\ lpc = "none" /\ jpc = "idle"
    /\ disp' = [disp EXCEPT !.halted = TRUE]
    /\ \/ job' = "none" /\ UNCHANGED troubles
       \/ Trouble /\ job' = "stuck"
    /\ UNCHANGED <<registry, files, memory, loop, joining, hw, tiers, joins, slip>>

\* Live processes of the earlier session: nothing new runs beside them.
Busy ==
    /\ lpc = "dispatcher" /\ Foreign /\ job = "stuck" /\ Goto("top")
    /\ UNCHANGED <<registry, files, memory, stop, joining, work, counts>>

\* _boot_once, with the reports of the attempt files.
BootOnce ==
    /\ lpc = "boot" /\ ~stop /\ Accepts(ident.cred)
    /\ Booted(disp.boot, job = "none")
    /\ \/ /\ disp' = [disp EXCEPT !.settled = asg' = "none", !.started = TRUE]
          /\ Goto("beat") /\ UNCHANGED troubles
       \/ Trouble /\ UNCHANGED <<disp, lpc, back>>
    /\ UNCHANGED <<files, memory, stop, joining, hw, tiers, job, joins, slip>>

\* A heartbeat that is answered, and what follows it.
Beat ==
    /\ lpc = "beat" /\ ~stop /\ Accepts(ident.cred)
    /\ disp' = [disp EXCEPT !.tiers = tiers]
    /\ IF unsaved THEN Call("save", "beat")
       ELSE Goto(IF bootRow # disp.boot \/ ~disp.settled THEN "boot" ELSE "beat")
    /\ UNCHANGED <<registry, files, memory, stop, joining, hw, tiers, job, counts>>

BeatProbes ==
    /\ lpc = "beat" /\ ~stop /\ Call("refresh", "beat")
    /\ UNCHANGED <<registry, files, memory, stop, joining, work, counts>>

\* set_paused hands the last probe to the dispatcher.
SetPaused ==
    /\ up /\ disp.cred # 0 /\ disp.tiers # tiers
    /\ disp' = [disp EXCEPT !.tiers = tiers]
    /\ slip' = IF tiers /\ Differs THEN slip \cup {"toggled"} ELSE slip
    /\ UNCHANGED <<registry, files, memory, loop, joining, hw, tiers, job, joins, troubles>>

-----------------------------------------------------------------------------
(* The dispatcher, as far as enrolment sees it (RemoteAttempt has it).     *)

Claim ==
    /\ up /\ disp.started /\ ~disp.halted /\ disp.exec /\ disp.tiers /\ disp.settled
    /\ job = "none" /\ MayClaim(disp.cred, disp.boot)
    /\ Claimed /\ job' = "live"
    /\ UNCHANGED <<files, memory, loop, joining, hw, tiers, disp, counts>>

Finish ==
    /\ up /\ job = "live" /\ job' = "none"
    /\ IF Accepts(disp.cred) /\ asg = "open" THEN Resolved ELSE UNCHANGED registry
    /\ UNCHANGED <<files, memory, loop, joining, hw, tiers, disp, counts>>

Unstick ==
    /\ job = "stuck" /\ job' = "none"
    /\ UNCHANGED <<registry, files, memory, loop, joining, hw, tiers, disp, counts>>

\* The operator declares the attempt of a revoked worker stopped.
Attest ==
    /\ admission = "revoked" /\ asg = "unknown" /\ job = "none" /\ Resolved
    /\ UNCHANGED <<files, memory, loop, joining, work, counts>>

Elsewhere == UNCHANGED <<files, memory, loop, joining, work, joins, slip>>

Operator ==
    /\ \/ \E k \in Codes : AddDevice(k) \/ Repair(k)
       \/ Approve \/ Enable \/ SetAdmission("enabled") \/ Revoke \/ Retire
    /\ UNCHANGED troubles /\ Elsewhere

\* A code runs out, a worker is drained.
OperatorSlows ==
    /\ SetAdmission("draining") \/ \E k \in Codes : Expire(k)
    /\ Trouble /\ Elsewhere

JoinStep ==
    \/ JoinAsks \/ JoinHalts \/ PairLands \/ PairRefused \/ JoinProves \/ JoinFails
    \/ JoinAdopts

LoopStep ==
    \/ LoopEnds \/ Unjoined \/ Revoked \/ Session \/ PendingConfirmed \/ PendingRefused
    \/ Unlink \/ Save \/ Rename \/ Refused \/ SelfView \/ Refresh \/ Post
    \/ EnsureDispatcher \/ StopsJob \/ Busy \/ BootOnce \/ Beat

Next ==
    \/ Operator \/ OperatorSlows \/ JoinStep \/ LoopStep
    \/ \E k \in Codes : Join(k)
    \/ JoinGivesUp \/ PairUnsent \/ Stop \/ Down \/ Crash \/ Start
    \/ SaveRefused \/ BeatProbes \/ SetPaused \/ Claim \/ Finish \/ Unstick \/ Attest

Spec == Init /\ [][Next]_vars

\* The threads run; a job ends and a stuck child dies some day.
FairSpec ==
    /\ Spec /\ WF_vars(JoinStep) /\ WF_vars(LoopStep) /\ WF_vars(Enable /\ Elsewhere /\ UNCHANGED troubles)
    /\ WF_vars(Finish \/ Unstick)

-----------------------------------------------------------------------------
TypeOK ==
    /\ enrol \in {"absent", "pending_pairing", "pending_validation", "verified", "retired"}
    /\ admission \in {"disabled", "enabled", "draining", "revoked"}
    /\ lpc \in {"none", "top", "self", "refresh", "post", "dispatcher", "boot", "beat",
                "save", "rename", "unlink"}
    /\ jpc \in {"idle", "saved", "halt", "pair", "ask", "adopt"}
    /\ job \in {"none", "live", "stuck"} /\ asg \in {"none", "open", "unknown"}

Alive == live # 0 /\ slip \cap {"overwritten", "replaced", "unheld"} = {}

\* Whatever is lost on the way, the worker still has the credential the
\* controller has in force: on disk, and in the running process
\* (WorkerHost._join, _promote, _check_pending).
KeyKept ==
    /\ TypeOK
    /\ Alive => live \in Copies
    /\ Alive /\ up => live \in {ident.cred, pcheck.cred, join.id.cred}

\* While processes of the worker's attempt run, the controller has it
\* assigned, over re-pairings, revocations and restarts alike
\* (WorkerHost._ensure_dispatcher, record_boot, retire_worker).
NothingRunsUnseen == job # "none" => asg # "none" /\ enrol # "retired"

\* Only what the operator approved claims work (WorkerHost._refresh,
\* _check_worker_claim).
ClaimsApproved ==
    [][asg = "none" /\ asg' = "open" /\ "toggled" \notin slip => approved = hw]_vars

\* A worker the controller has paired ends up running as what it was paired
\* as (WorkerHost._loop).
JoinSettles ==
    []<>(\/ live = 0 \/ slip # {} \/ ~up \/ closed
         \/ ident.cred = live /\ lpc \in {"boot", "beat"})
=============================================================================
