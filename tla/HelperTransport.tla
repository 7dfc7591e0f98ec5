--------------------------- MODULE HelperTransport --------------------------
(***************************************************************************)
(* Transport of hub/server/upstream_worker.py: it runs one HTTP request in *)
(* one helper process that it owns until the process is reaped.  Several   *)
(* threads may ask, cancel and clean up; its lock covers single steps, so  *)
(* `_creating` and `_owned` are what keeps the owners apart.               *)
(***************************************************************************)
EXTENDS Integers, FiniteSets

CONSTANTS
    Threads,        \* threads that call the transport
    MaxHelper,      \* bound: helper processes started
    MaxStuck        \* bound: cleanups that overrun their second

ASSUME TransportAssumption == MaxHelper \in Nat /\ MaxStuck \in Nat

VARIABLES
    gen,            \* which Transport object the owner holds
    stopped,        \* its _stopped
    owned,          \* its _owned: a helper, or 0
    creating,       \* its _creating
    born,           \* helpers started so far
    alive,          \* helper processes the system has
    at,             \* at[t]: where thread t stands in the transport
    ref,            \* ref[t]: the Transport object t called
    mine,           \* mine[t]: the helper t works on
    then,           \* then[t]: what follows the cleanup t is in
    stuck           \* counts overrun cleanups, bounded by MaxStuck

transport == <<gen, stopped, owned, creating>>
helpers == <<born, alive>>
calls == <<at, ref, mine, then>>
tvars == <<transport, helpers, calls, stuck>>

Helpers == 1 .. MaxHelper
Points == {"out", "asked", "retained", "admitted", "spawned", "waiting", "cleaning", "retrying"}
Follows == {"none", "return", "admitted"}

TransportInit ==
    /\ gen = 1 /\ stopped = FALSE /\ owned = 0 /\ creating = FALSE
    /\ born = 0 /\ alive = {}
    /\ at = [t \in Threads |-> "out"]
    /\ ref = [t \in Threads |-> 0]
    /\ mine = [t \in Threads |-> 0]
    /\ then = [t \in Threads |-> "none"]
    /\ stuck = 0

Move(t, p) == at' = [at EXCEPT ![t] = p]

\* The call returns to thread t; its reasons are left to the caller.
Return(t) ==
    /\ Move(t, "out")
    /\ ref' = [ref EXCEPT ![t] = 0]
    /\ mine' = [mine EXCEPT ![t] = 0]
    /\ then' = [then EXCEPT ![t] = "none"]

\* A replaced transport was cancelled before it was replaced.
Cancelled(t) == stopped \/ ref[t] # gen

\* Transport.clean.
Clean == owned = 0 /\ ~creating

\* Transport.cancel.
Cancel == stopped' = TRUE

-----------------------------------------------------------------------------
(* Transport.request.                                                      *)

Call(t) ==
    /\ at[t] = "out"
    /\ Move(t, "asked")
    /\ ref' = [ref EXCEPT ![t] = gen]
    /\ UNCHANGED <<mine, then>>

\* Under the lock: is it stopped, and does it retain a helper?
Ask(t) ==
    /\ at[t] = "asked"
    /\ IF Cancelled(t)
       THEN Return(t)
       ELSE /\ Move(t, IF owned # 0 /\ ~creating THEN "retained" ELSE "admitted")
            /\ UNCHANGED <<ref, mine, then>>
    /\ UNCHANGED <<transport, helpers, stuck>>

\* retry_cleanup: whoever sets `_creating` owns the retained helper.
TakeRetained(t, next) ==
    /\ owned # 0 /\ ~creating
    /\ creating' = TRUE
    /\ Move(t, "retrying")
    /\ mine' = [mine EXCEPT ![t] = owned]
    /\ then' = [then EXCEPT ![t] = next]

\* The request goes on when nothing is retained any more, and is refused
\* while another thread cleans up.
RetryForRequest(t) ==
    /\ at[t] = "retained"
    /\ \/ /\ ref[t] # gen \/ (owned = 0 /\ ~creating)
          /\ Move(t, "admitted")
          /\ UNCHANGED <<creating, ref, mine, then>>
       \/ /\ ref[t] = gen /\ creating
          /\ Return(t) /\ UNCHANGED creating
       \/ /\ ref[t] = gen
          /\ TakeRetained(t, "admitted") /\ UNCHANGED ref
    /\ UNCHANGED <<gen, stopped, owned, helpers, stuck>>

\* Under the lock again: nothing may be owned or under way.
Admit(t) ==
    /\ at[t] = "admitted"
    /\ IF Cancelled(t) \/ (owned # 0 \/ creating)
       THEN Return(t) /\ UNCHANGED creating
       ELSE /\ creating' = TRUE
            /\ Move(t, "spawned")
            /\ UNCHANGED <<ref, mine, then>>
    /\ UNCHANGED <<gen, stopped, owned, helpers, stuck>>

\* Mutation of Spawn: a creation that raises leaves `_creating` set.
SpawnLeaking(t) ==
    /\ at[t] = "spawned" /\ mine[t] = 0
    /\ \/ /\ born < MaxHelper
          /\ born' = born + 1
          /\ alive' = alive \cup {born'}
          /\ owned' = born'
          /\ mine' = [mine EXCEPT ![t] = born']
          /\ UNCHANGED <<at, ref, then>>
       \/ /\ Return(t)
          /\ UNCHANGED <<owned, born, alive>>
    /\ UNCHANGED <<gen, stopped, creating, stuck>>

\* The process is created and owned, or creation raises.
Spawn(t) ==
    /\ at[t] = "spawned" /\ mine[t] = 0
    /\ \/ /\ born < MaxHelper
          /\ born' = born + 1
          /\ alive' = alive \cup {born'}
          /\ owned' = born'
          /\ mine' = [mine EXCEPT ![t] = born']
          /\ UNCHANGED <<creating, at, ref, then>>
       \/ /\ creating' = FALSE
          /\ Return(t)
          /\ UNCHANGED <<owned, born, alive>>
    /\ UNCHANGED <<gen, stopped, stuck>>

\* The helper gets its request, unless a Stop or the deadline came first or a
\* step of the set-up raised.
Feed(t) ==
    /\ at[t] = "spawned" /\ mine[t] # 0
    /\ \/ ~stopped /\ Move(t, "waiting")
       \/ Move(t, "cleaning")
    /\ UNCHANGED <<transport, helpers, ref, mine, then, stuck>>

\* The helper replied, failed, ran out of time or was cancelled.
Outcome(t) ==
    /\ at[t] = "waiting"
    /\ Move(t, "cleaning")
    /\ UNCHANGED <<transport, helpers, ref, mine, then, stuck>>

\* Mutation of Release: an overrun cleanup gives the helper up.
ReleaseOverrun(reaped) == creating' = FALSE /\ owned' = 0

\* The owner lets go of the helper only when it is gone.
Release(reaped) ==
    /\ creating' = FALSE
    /\ owned' = IF reaped THEN 0 ELSE owned

\* _cleanup reaps the helper, or overruns its second and leaves it.
Reap(t, reaped) ==
    /\ IF reaped THEN alive' = alive \ {mine[t]} /\ UNCHANGED stuck
       ELSE stuck < MaxStuck /\ stuck' = stuck + 1 /\ UNCHANGED alive
    /\ Release(reaped)
    /\ UNCHANGED <<gen, stopped, born>>

\* The end of a request: what the helper said is returned either way.
CleanUp(t) ==
    /\ at[t] = "cleaning"
    /\ \E reaped \in BOOLEAN : Reap(t, reaped)
    /\ Return(t)

\* The end of retry_cleanup: only a request whose helper slot is free goes on.
CleanUpRetry(t) ==
    /\ at[t] = "retrying"
    /\ \E reaped \in BOOLEAN :
        /\ Reap(t, reaped)
        /\ IF then[t] = "admitted" /\ reaped
           THEN /\ Move(t, "admitted")
                /\ mine' = [mine EXCEPT ![t] = 0]
                /\ then' = [then EXCEPT ![t] = "none"]
                /\ UNCHANGED ref
           ELSE Return(t)

RequestStep(t) ==
    \/ Ask(t) \/ RetryForRequest(t) \/ Admit(t) \/ Spawn(t) \/ Feed(t)
    \/ Outcome(t) \/ CleanUp(t) \/ CleanUpRetry(t)

FlagsOK == stopped \in BOOLEAN /\ creating \in BOOLEAN

HelpersOK ==
    /\ gen \in Nat /\ owned \in 0 .. MaxHelper
    /\ born \in 0 .. MaxHelper /\ alive \subseteq Helpers
    /\ stuck \in 0 .. MaxStuck

CallsOK ==
    /\ at \in [Threads -> Points] /\ ref \in [Threads -> Nat]
    /\ mine \in [Threads -> 0 .. MaxHelper] /\ then \in [Threads -> Follows]

TransportTypeOK == FlagsOK /\ HelpersOK /\ CallsOK
=============================================================================
