------------------------------ MODULE MCAgent -------------------------------
(***************************************************************************)
(* What an agent keeps on disk, for TLC: the two records of the ids it has *)
(* issued (StateSession), and the entry of a monitor in its configuration  *)
(* (Admin).  Their files are different ones and the two share no variable; *)
(* `part` says which of them a behaviour is of.                            *)
(***************************************************************************)
EXTENDS StateSession

CONSTANTS Reqs, Fields, Manual, MaxAsk, MaxTrouble

\* A thread is none of the other holders of the mutation lock and of the name.
ASSUME AdminAssumption ==
    Reqs \cap {"none", "saver", "settings", "expired", "lapsed"} = {} /\ Manual \in BOOLEAN

VARIABLES part, conf, disk, desired, mutation, owner, stopping, override, removed, epoch,
          partial, save, restarting, sup, req, settings, asked, trouble, told

A == INSTANCE Admin

adminVars == <<conf, disk, desired, mutation, owner, stopping, override, removed, epoch,
               partial, save, restarting, sup, req, settings, asked, trouble, told>>
both == <<part, vars, adminVars>>

\* The part that does not run stays in one state.
AgentInit ==
    /\ part \in {"session", "admin"} /\ Init /\ A!Init
    /\ part = "admin" => primary.kind = "missing"

Records(B) == part = "session" /\ B /\ UNCHANGED <<part, adminVars>>
Edits(B) == part = "admin" /\ B /\ UNCHANGED <<part, vars>>

AgentNext == Records(Next) \/ Edits(A!Next)

\* The fairness of each part, while it is the one that runs.
AgentSpec ==
    /\ AgentInit /\ [][AgentNext]_both
    /\ \A p \in Procs : WF_both(Records(Progress(p)))
    /\ WF_both(Edits(A!Work))

-----------------------------------------------------------------------------
\* What was answered as saved or stopped is what the file says and what runs, and
\* with nobody at work the memory is the file (Admin).
AdminTrue == A!AdminTrue

\* After the grant of a restart nothing is written or started, and every request is
\* answered (Admin).
AdminMoves == A!AdminMoves
=============================================================================
