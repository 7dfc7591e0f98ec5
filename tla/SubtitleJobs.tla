---------------------------- MODULE SubtitleJobs ----------------------------
(***************************************************************************)
(* The subtitle jobs of one run of a restoration task: the transcript and  *)
(* the subtitle of each film on disk, the transcription child, the         *)
(* translator's requests and results, and how a job becomes terminal.      *)
(***************************************************************************)
EXTENDS Integers, FiniteSets, Sequences, SequencesExt

CONSTANTS
    Films,          \* videos of the input folder, in the order of their names
    DisableAfter,   \* _SUBS_DISABLE_AFTER
    AsrTries        \* _ASR_MAX_ATTEMPTS

ASSUME FilmsAssumption ==
    /\ Films \subseteq Nat \ {0} /\ IsFiniteSet(Films)
    /\ {DisableAfter, AsrTries} \subseteq Nat \ {0}

VARIABLES
    ja, zh,         \* the .ja.srt and the .zh.srt of a film: none, ours of this run, theirs
    tries,          \* SubsJob.attempt
    child, asr,     \* the job with a child, and the state of that child
    translator, asked, answers,     \* the translator, its requests, its results
    settled, strikes, disabled, only, cleanup   \* _settled, _subs_consecutive_failures,
                    \* _subs_disabled, _subs_only, _deferred

disk == <<ja, zh>>
asrVars == <<tries, child, asr>>
trVars == <<translator, asked, answers>>
book == <<settled, strikes, disabled, only, cleanup>>

None == 0
Terminal == {"completed", "failed", "skipped"}
Book == [settled |-> settled, strikes |-> strikes, disabled |-> disabled, only |-> only,
         cleanup |-> cleanup]
Keep(b) ==
    /\ settled' = b.settled /\ strikes' = b.strikes /\ disabled' = b.disabled
    /\ only' = b.only /\ cleanup' = b.cleanup

\* Jobs whose settlement is still to come.
Unsettled == {f \in Films : settled[f] = "open"}

\* _disable_subs: every open job is skipped, the children end after the lock.
Disabled(b, job) ==
    IF b.disabled THEN b
    ELSE [b EXCEPT !.disabled = TRUE,
              !.settled = [f \in Films |-> IF b.settled[f] = "open" THEN "skipped"
                                           ELSE b.settled[f]],
              !.only = <<>>,
              !.cleanup = Append(@, [kind |-> "cleanup", job |-> job])]

\* _settle, of a job that is not terminal yet.
Settled(b, f, how, job) ==
    IF b.settled[f] # "open" THEN b
    ELSE LET n == CASE how = "completed" -> 0
                    [] how = "failed" -> b.strikes + 1
                    [] OTHER -> b.strikes
             c == [b EXCEPT !.settled[f] = how, !.strikes = n]
         IN IF n >= DisableAfter THEN Disabled(c, job) ELSE c

\* _stop_unreachable: the library cannot be opened.
Unreachable(b) == [b EXCEPT !.cleanup = Append(@, [kind |-> "stop", job |-> None])]

-----------------------------------------------------------------------------
(* The files.                                                              *)

\* Mutation of DiscardOwn: a refused subtitle takes any transcript with it.
DiscardAny(f) == [ja EXCEPT ![f] = "none"]

\* discard_own_ja.
DiscardOwn(f) == [ja EXCEPT ![f] = IF @ = "ours" THEN "none" ELSE @]

\* _publish, publish_ja and publish_zh: nothing is replaced.
Publishes(file, f) == IF file[f] = "none" THEN "ok" ELSE "exists"
Published(file, f) == [file EXCEPT ![f] = IF @ = "none" THEN "ours" ELSE @]

\* start_asr succeeds.
AsrStarts(f) ==
    /\ tries' = [tries EXCEPT ![f] = @ + 1]
    /\ child' = f /\ asr' = "live"

\* start_asr raises, or the media has changed.
AsrFails(f, changed) ==
    /\ tries' = IF changed THEN tries ELSE [tries EXCEPT ![f] = @ + 1]
    /\ child' = None /\ asr' = "none"

\* SubsJob.terminate: the direct child goes, or survives.
Killed(s) ==
    /\ child' = IF s = "stuck" THEN child ELSE None
    /\ asr' = IF s = "stuck" THEN "stuck" ELSE "none"
    /\ UNCHANGED tries

-----------------------------------------------------------------------------
(* The translator's thread.                                                *)

\* submit; ignored after a cancel.
Submit(f) ==
    /\ asked' = IF translator = "running" THEN asked \cup {f} ELSE asked
    /\ UNCHANGED <<translator, answers>>

\* cancel.
Cancels ==
    /\ translator' = IF translator = "running" THEN "cancelled" ELSE translator
    /\ asked' = {}
    /\ UNCHANGED answers

\* _finish: the result is put, then the film forgotten.
Answer(f) ==
    /\ translator = "running" /\ f \in asked
    /\ \E o \in {"translated", "paused", "failed"} : answers' = answers \cup {<<f, o>>}
    /\ asked' = asked \ {f}
    /\ UNCHANGED translator
=============================================================================
