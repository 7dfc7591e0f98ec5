---------------------------- MODULE IntakeHelper ----------------------------
(***************************************************************************)
(* The one helper process an intake snapshot runs in, and the object that   *)
(* owns it (workflow/intake_owner.py, intake_worker.py, intake_copy.py,     *)
(* intake_build.py, intake_probe.py), as operators over its record h.       *)
(*                                                                          *)
(* The helper is created suspended inside a Job, recorded in the store and  *)
(* only then resumed.  It copies the package in two halves, starts a probe  *)
(* that stays suspended until the owner has recorded it, builds the         *)
(* snapshot and sends one result.  A failure the owner cannot explain is    *)
(* kept for good: an exit it cannot prove is "unknown".                     *)
(***************************************************************************)
EXTENDS Naturals, FiniteSets

\* proc    the helper process: "none", "suspended", "live", "gone"
\* step    where the helper program is
\* read    the versions of the package its copy was made from
\* event   the event the owner has read from the pipe and not yet handed out
\* births  the processes the owner holds: the launcher, then the probe
\* fault   OwnedIntakeSnapshot._failures is not empty
\* denied  no process was created, and that is proved
NoHelper == [proc |-> "none", step |-> "idle", read |-> {}, event |-> "none",
             births |-> 0, fault |-> FALSE, stopping |-> FALSE, denied |-> FALSE]

Alive(h) == h.proc \in {"suspended", "live"}
Working(h, step) == h.proc = "live" /\ h.step = step

\* _start: suspended in the Job; or provably not created; or created, not identified.
Launches == {[NoHelper EXCEPT !.proc = "suspended", !.births = 1]}
FailedLaunches == {[NoHelper EXCEPT !.denied = TRUE, !.event = "failed"],
                   [NoHelper EXCEPT !.proc = "suspended", !.fault = TRUE,
                                    !.event = "failed"]}

\* _fault: a failure code is never taken back.
Fault(h) == [h EXCEPT !.fault = TRUE]

\* request_stop: nothing more is sent, and the Job is terminated.
RequestStop(h) == [h EXCEPT !.stopping = TRUE]

\* resume_helper: once, after its birth is recorded.
Resumable(h) == h.proc = "suspended" /\ h.births = 1 /\ ~h.stopping /\ ~h.fault
Resume(h) == [h EXCEPT !.proc = "live", !.step = "start"]

\* _receive: a stopping owner drops what still arrives.
Receive(h, event) == IF h.stopping THEN h ELSE [h EXCEPT !.event = event]

\* next_event takes what is queued.
Taken(h) == [h EXCEPT !.event = "none"]

\* The program ends: its failure is sent, its process exits.
Fails(h, why) == [Receive(h, why) EXCEPT !.proc = "gone", !.step = "failed"]

\* check_observation: the held files are those of the admitted observation.
SourceAsAdmitted(version, admitted) == version = admitted

\* HeldPackage and the first files of PrivateCopy.copy_members.
Copies(h, version, admitted) ==
    IF SourceAsAdmitted(version, admitted)
    THEN [h EXCEPT !.step = "copying", !.read = {version}] ELSE Fails(h, "source_changed")

\* The rest of copy_members; it ends with a recheck of the source.
CopiesRest(h, version, admitted) ==
    IF SourceAsAdmitted(version, admitted)
    THEN [h EXCEPT !.step = "copied", !.read = @ \cup {version}] ELSE Fails(h, "source_changed")

\* probe_video: the probe is created suspended and announced.
Announces(h) == [Receive(h, "probe") EXCEPT !.step = "announced"]

\* observe_probe: its birth is opened and held.
ObserveProbe(h) == [Taken(h) EXCEPT !.births = 2]

\* ack_probe, and the probe's answer.
Acked(h) == [h EXCEPT !.step = "probed"]

\* build_snapshot: the source is checked once more.
Builds(h, version, admitted) ==
    IF SourceAsAdmitted(version, admitted)
    THEN [h EXCEPT !.step = "built"] ELSE Fails(h, "source_changed")

\* publish rechecks before and after the rename; the result leaves when all is closed.
PublishesCopy(h, version, admitted) ==
    IF SourceAsAdmitted(version, admitted)
    THEN [Receive(h, "result") EXCEPT !.proc = "gone", !.step = "sent"] ELSE Fails(h, "source_changed")

\* _admit_time: a deadline that passed is a fault and stops the helper.
Deadline(h) == RequestStop(Fault(h))

\* settle: unknown unless every held process is gone and nothing ever failed.
ExitProof(h) == CASE h.fault \/ Alive(h) -> "unknown"
                  [] h.denied            -> "no_process"
                  [] h.births > 0        -> "stopped"
                  [] OTHER               -> "unknown"
=============================================================================
