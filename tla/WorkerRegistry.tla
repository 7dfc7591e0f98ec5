--------------------------- MODULE WorkerRegistry ---------------------------
(***************************************************************************)
(* What the controller keeps of one GPU worker (workflow/worker_store.py): *)
(* its enrolment and admission, the probe it posted and what the operator  *)
(* approved of it, its pairing codes, its one live credential, its boot    *)
(* and the assignment it holds.  Every definition is one transaction; an   *)
(* operator's command carries the version of the page it was read from, so *)
(* a command that lost its race is one that was never given.               *)
(***************************************************************************)
EXTENDS Naturals

CONSTANTS Codes         \* pairing codes the operator may issue

VARIABLES
    enrol,          \* workers.enrollment_state
    admission,      \* workers.admission_state
    probed,         \* capability.probed: the configuration the worker posted
    approved,       \* capability.approved, of which configuration
    code,           \* pairings: "none", "open", "used", "expired"
    live,           \* the credential that is not revoked, 0 for none
    bootRow,        \* workers.current_boot_id, 0 for none
    asg,            \* the unresolved assignment: "none", "open", "unknown"
    enabling        \* devices.approve is between its two writes

registry == <<enrol, admission, probed, approved, code, live, bootRow, asg, enabling>>

Nothing == "nothing"

RegistryInit ==
    /\ enrol = "absent" /\ admission = "disabled"
    /\ probed = Nothing /\ approved = Nothing
    /\ code = [k \in Codes |-> "none"] /\ live = 0
    /\ bootRow = 0 /\ asg = "none" /\ enabling = FALSE

Barred == enrol = "retired" \/ admission = "revoked"

\* The guard of every call of the worker: its credential, now.
Accepts(c) == c = live

-----------------------------------------------------------------------------
(* The operator.                                                           *)

\* devices.add_device: the row, then a code.
AddDevice(k) ==
    /\ enrol = "absent" /\ code[k] = "none"
    /\ enrol' = "pending_pairing"
    /\ code' = [code EXCEPT ![k] = "open"]
    /\ UNCHANGED <<admission, probed, approved, live, bootRow, asg, enabling>>

\* devices.repair: another code for a row that is neither revoked nor retired.
Repair(k) ==
    /\ enrol # "absent" /\ ~Barred /\ code[k] = "none"
    /\ code' = [code EXCEPT ![k] = "open"]
    /\ UNCHANGED <<enrol, admission, probed, approved, live, bootRow, asg, enabling>>

Expire(k) ==
    /\ code[k] = "open"
    /\ code' = [code EXCEPT ![k] = "expired"]
    /\ UNCHANGED <<enrol, admission, probed, approved, live, bootRow, asg, enabling>>

\* devices.approve: what the worker proposed becomes what it may run.
Approve ==
    /\ ~Barred /\ probed # Nothing /\ ~enabling
    /\ enrol \in {"pending_validation", "verified"}
    /\ approved' = probed /\ enrol' = "verified" /\ enabling' = TRUE
    /\ UNCHANGED <<admission, probed, code, live, bootRow, asg>>

\* devices._enable reads the worker again.
Enable ==
    /\ enabling /\ enabling' = FALSE
    /\ admission' = IF enrol = "verified" /\ ~Barred THEN "enabled" ELSE admission
    /\ UNCHANGED <<enrol, probed, approved, code, live, bootRow, asg>>

SetAdmission(state) ==
    /\ enrol # "absent" /\ ~Barred
    /\ state = "enabled" => enrol = "verified"
    /\ admission' = state
    /\ UNCHANGED <<enrol, probed, approved, code, live, bootRow, asg, enabling>>

\* _isolate_worker_assignments
Isolated == IF asg = "open" THEN "unknown" ELSE asg

\* Nothing reads the capability, the codes or the boot of a revoked row again:
\* they are forgotten here.
Revoke ==
    /\ enrol # "absent" /\ ~Barred
    /\ admission' = "revoked" /\ live' = 0 /\ asg' = Isolated
    /\ probed' = Nothing /\ approved' = Nothing /\ bootRow' = 0 /\ enabling' = FALSE
    /\ code' = [k \in Codes |-> "expired"]
    /\ UNCHANGED enrol

Retire ==
    /\ admission = "revoked" /\ enrol # "retired" /\ asg = "none"
    /\ enrol' = "retired"
    /\ UNCHANGED <<admission, probed, approved, code, live, bootRow, asg, enabling>>

-----------------------------------------------------------------------------
(* The worker's calls.                                                     *)

Pairable(k) == code[k] = "open" /\ ~Barred

\* _pairing_principal and complete_pairing: the credential the worker chose
\* takes the place of the one it had.
Paired(k, c) ==
    /\ code' = [code EXCEPT ![k] = "used"]
    /\ live' = c
    /\ enrol' = "pending_validation" /\ admission' = "disabled" /\ bootRow' = 0
    /\ UNCHANGED <<probed, approved, asg, enabling>>

\* Mutation of Posted: what was approved stays so.
PostedOnly(hw) ==
    /\ probed' = hw
    /\ UNCHANGED <<enrol, admission, approved, code, live, bootRow, asg, enabling>>

\* record_capabilities of the worker: a new probe is to be approved again.
Posted(hw) ==
    /\ probed' = hw /\ approved' = Nothing
    /\ enrol' = "pending_validation" /\ admission' = "disabled"
    /\ UNCHANGED <<code, live, bootRow, asg, enabling>>

\* Mutation of Booted: what the attempt still runs is not asked for.
BootedBlind(b, gone) ==
    /\ bootRow' = b
    /\ asg' = IF bootRow # b THEN "none" ELSE asg
    /\ UNCHANGED <<enrol, admission, probed, approved, code, live, enabling>>

\* record_boot, and the attempt files it settles: `gone` says that the
\* reported attempt has no process left.
Booted(b, gone) ==
    /\ bootRow' = b
    /\ asg' = LET a == IF bootRow # b THEN Isolated ELSE asg
              IN  IF a = "unknown" /\ gone THEN "none" ELSE a
    /\ UNCHANGED <<enrol, admission, probed, approved, code, live, enabling>>

\* _check_worker_claim.  The profile it compares is coarser than the
\* configuration of the tools.
MayClaim(c, b) ==
    /\ Accepts(c) /\ enrol = "verified" /\ admission = "enabled"
    /\ approved # Nothing /\ bootRow = b /\ asg = "none"

Claimed ==
    /\ asg' = "open"
    /\ UNCHANGED <<enrol, admission, probed, approved, code, live, bootRow, enabling>>

Resolved ==
    /\ asg' = "none"
    /\ UNCHANGED <<enrol, admission, probed, approved, code, live, bootRow, enabling>>
=============================================================================
