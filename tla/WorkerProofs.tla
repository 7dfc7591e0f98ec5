---------------------------- MODULE WorkerProofs ----------------------------
(***************************************************************************)
(* Joining: a worker never loses the credential the controller has in      *)
(* force, no process of it runs unassigned, and it claims only as what the *)
(* operator approved, for any set of codes and configurations and any      *)
(* number of joins and troubles. What is in force is on disk, and in       *)
(* memory as the identity or as what is to be checked; a join keeps what   *)
(* was in force as the identity it falls back to or as the one it proves;  *)
(* a code pairs once, so what was confirmed is never paired again behind a *)
(* join; and the loop, which waits for nobody, writes only what it has     *)
(* just used.                                                              *)
(*                                                                         *)
(* Running a stage: an attempt is resolved only once it has stopped, and   *)
(* finished work is kept, for any number of attempts and faults. One       *)
(* attempt at a time is open in the store; what is on disk or runs was     *)
(* admitted; an outcome, in a file or under way, is about an attempt that  *)
(* is over; and a boot request that is under way is of this boot and names *)
(* every earlier attempt that lives or has a result.                       *)
(***************************************************************************)
EXTENDS MCWorkers, TLAPS

Identity == [cred : Nat, code : Codes \cup {0}, ok : BOOLEAN]
Dispatcher == [cred : Nat, boot : Nat, exec : BOOLEAN, started : BOOLEAN, halted : BOOLEAN,
               tiers : BOOLEAN, settled : BOOLEAN]
Joining == [id : Identity, old : Identity, held : BOOLEAN]

Types ==
    /\ TypeOK
    /\ identFile \in Identity /\ pendFile \in Identity
    /\ ident \in Identity /\ pcheck \in Identity
    /\ join \in Joining
    /\ code \in [Codes -> {"none", "open", "used", "expired"}]
    /\ live \in Nat /\ joins \in Nat /\ bootRow \in Nat
    /\ disp \in Dispatcher
    /\ back \in {"top", "self", "boot", "beat", "dispatcher"}
    /\ up \in BOOLEAN /\ stop \in BOOLEAN /\ tiers \in BOOLEAN /\ unsaved \in BOOLEAN

Identities == {identFile, pendFile, ident, pcheck, join.id, join.old}

\* A code pairs at most once.
Spent(k) == code[k] \in {"used", "expired"}

\* A credential belongs to one code, which is spent once it is confirmed or in
\* force.
CredInv ==
    /\ live <= joins
    /\ \A x \in Identities :
         /\ x.cred <= joins
         /\ x.cred = 0 => x = NoId
         /\ x # NoId => x.code \in Codes
         /\ x.ok \/ (x.cred = live /\ live # 0) => Spent(x.code)
    /\ \A x, y \in Identities : x.cred = y.cred => x.code = y.code
    /\ jpc # "idle" => join.id # NoId
    /\ jpc = "adopt" => Spent(join.id.code)

\* Where the threads are: a join that pairs has halted the loop, and the loop
\* speaks as somebody.
WhereInv ==
    /\ jpc \in {"pair", "ask", "adopt"} => lpc = "none"
    /\ ~up => ~closed /\ jpc = "idle" /\ lpc = "none" /\ disp = NoDisp
    /\ lpc \notin {"refresh", "post", "save", "rename", "unlink"} => back = "top"
    /\ lpc \notin {"refresh", "post"} => back # "dispatcher"
    /\ lpc \notin {"none", "top", "unlink"} \/ back # "top" => ident # NoId

\* What is kept is confirmed, and a join's own file is its own, unless the two
\* threads wrote over each other.
FilesInv ==
    "overwritten" \notin slip =>
        /\ \A x \in {identFile, ident, join.old} : x = NoId \/ x.ok
        /\ jpc # "idle" => pendFile = join.id /\ ~join.id.ok

\* What the loop is about to write, and what a join is about to adopt.
WritesInv ==
    /\ lpc \in {"save", "rename"} /\ live # 0 => ident.cred = live
    /\ lpc = "unlink" /\ Alive => live = identFile.cred
    /\ jpc = "adopt" /\ live # 0 => join.id.cred = live

\* What is in force is on disk, and in memory: as the identity, if that is what
\* the disk says, and through a join as what it falls back to or proves.
CopiesInv ==
    Alive =>
        /\ live \in Copies
        /\ up /\ jpc \in {"idle", "saved", "halt"} =>
             /\ live \in {ident.cred, pcheck.cred}
             /\ live = identFile.cred => live = ident.cred
        /\ jpc \in {"pair", "ask", "adopt"} => live \in {ident.cred, join.id.cred}
        /\ jpc # "idle" =>
             /\ live \in {join.old.cred, join.id.cred}
             /\ live = identFile.cred => live = join.old.cred

\* Where the loop has posted what its last probe found.
Posting ==
    \/ lpc \in {"dispatcher", "boot", "beat"}
    \/ lpc \notin {"refresh", "post"} /\ back \in {"boot", "beat"}
Known == probed = hw \/ admission = "revoked"

\* What is approved is what was posted, and what the dispatcher may run is known.
ProbeInv ==
    /\ admission = "revoked" => live = 0
    /\ approved # Nothing => approved = probed
    /\ ~up => ~tiers
    /\ Posting /\ tiers /\ ~stop => Known
    /\ disp.tiers /\ "toggled" \notin slip => Known

IInv ==
    /\ Types /\ CredInv /\ WhereInv /\ FilesInv /\ WritesInv /\ CopiesInv /\ ProbeInv
    /\ NothingRunsUnseen
-----------------------------------------------------------------------------
LEMMA Constants == NoId \in Identity /\ NoJoin \in Joining /\ NoDisp \in Dispatcher
BY DEF NoId, Id, Identity, NoJoin, Joining, NoDisp, Dispatcher

LEMMA ConfirmedIs ==
    ASSUME NEW x \in Identity
    PROVE  /\ Confirmed(x) \in Identity
           /\ Confirmed(x).cred = x.cred /\ Confirmed(x).code = x.code /\ Confirmed(x).ok
BY DEF Confirmed, Identity

\* A step that only forgets credentials.
LEMMA CredFewer ==
    ASSUME CredInv, UNCHANGED <<live, joins, code>>, joins \in Nat,
           Identities' \subseteq Identities \cup {NoId},
           jpc' # "idle" => join'.id # NoId, jpc' # "adopt"
    PROVE  CredInv'
<1>1. NoId.cred = 0 /\ NoId.code = 0 /\ NoId.ok = FALSE
  BY DEF NoId, Id
<1>2. \A x \in Identities' : x \in Identities \/ x = NoId
  OBVIOUS
<1>3. \A k : Spent(k)' = Spent(k)
  BY DEF Spent
<1>4. ASSUME NEW x \in Identities'
      PROVE  /\ x.cred <= joins /\ (x.cred = 0 => x = NoId) /\ (x # NoId => x.code \in Codes)
             /\ x.ok \/ (x.cred = live /\ live # 0) => Spent(x.code)
  BY <1>1, <1>2 DEF CredInv
<1>5. ASSUME NEW x \in Identities', NEW y \in Identities', x.cred = y.cred
      PROVE  x.code = y.code
  BY <1>1, <1>2, <1>5 DEF CredInv
<1> QED BY <1>3, <1>4, <1>5 DEF CredInv

(* What a step leaves alone.                                               *)

LEMMA TypesKept ==
    ASSUME Types, UNCHANGED <<enrol, admission, lpc, jpc, job, asg, identFile, pendFile,
                              ident, pcheck, join, code, live, joins, bootRow, disp, back, up,
                              stop, tiers, unsaved>>
    PROVE  Types'
BY DEF Types, TypeOK, Identity, Joining, Dispatcher

LEMMA CredKept ==
    ASSUME CredInv, UNCHANGED <<identFile, pendFile, ident, pcheck, join, live, joins, code,
                                jpc>>
    PROVE  CredInv'
BY DEF CredInv, Identities, NoId, Id, Spent

LEMMA WhereKept ==
    ASSUME WhereInv, UNCHANGED <<closed, jpc, lpc, up, disp, back, ident>>
    PROVE  WhereInv'
BY DEF WhereInv, NoDisp, NoId, Id

LEMMA FilesKept ==
    ASSUME FilesInv, UNCHANGED <<slip, identFile, pendFile, ident, join, jpc>>
    PROVE  FilesInv'
BY DEF FilesInv, NoId, Id

LEMMA WritesKept ==
    ASSUME WritesInv, UNCHANGED <<lpc, live, ident, slip, identFile, jpc, join>>
    PROVE  WritesInv'
BY DEF WritesInv, Alive

LEMMA CopiesKept ==
    ASSUME CopiesInv, UNCHANGED <<live, slip, identFile, pendFile, ident, pcheck, join, up,
                                  jpc>>
    PROVE  CopiesInv'
BY DEF CopiesInv, Alive, Copies

LEMMA ProbeKept ==
    ASSUME ProbeInv, UNCHANGED <<admission, live, approved, probed, up, tiers, lpc, back,
                                 stop, hw, disp, slip>>
    PROVE  ProbeInv'
BY DEF ProbeInv, Nothing, Posting, Known

LEMMA NothingRunsUnseenKept ==
    ASSUME NothingRunsUnseen, UNCHANGED <<job, asg, enrol>>
    PROVE  NothingRunsUnseen'
BY DEF NothingRunsUnseen

-----------------------------------------------------------------------------
(* The operator.                                                           *)

LEMMA AddDeviceKeeps ==
    ASSUME IInv, NEW k \in Codes, AddDevice(k), Elsewhere
    PROVE  IInv'
<1>1. Types'
  BY Constants
     DEF IInv, Types, WhereInv, AddDevice, Elsewhere, files, memory, loop, joining, work,
         TypeOK, Identity, Joining, Dispatcher
<1>2. CredInv'
  BY DEF IInv, CredInv, AddDevice, Elsewhere, files, memory, loop, joining, work, Identities,
         Spent
<1>3. NothingRunsUnseen'
  BY DEF IInv, NothingRunsUnseen, AddDevice, Elsewhere, files, memory, loop, joining, work
<1>4. WhereInv' /\ FilesInv' /\ WritesInv' /\ CopiesInv' /\ ProbeInv'
  BY WhereKept, FilesKept, WritesKept, CopiesKept, ProbeKept
     DEF IInv, AddDevice, Elsewhere, files, memory, loop, joining, work
<1> QED BY <1>1, <1>2, <1>3, <1>4 DEF IInv

LEMMA RepairKeeps ==
    ASSUME IInv, NEW k \in Codes, Repair(k), Elsewhere
    PROVE  IInv'
<1>1. Types'
  BY Constants
     DEF IInv, Types, WhereInv, Repair, Barred, Elsewhere, files, memory, loop, joining, work,
         TypeOK, Identity, Joining, Dispatcher
<1>2. CredInv'
  BY DEF IInv, CredInv, Repair, Barred, Elsewhere, files, memory, loop, joining, work,
         Identities, Spent
<1>3. WhereInv' /\ FilesInv' /\ WritesInv' /\ CopiesInv' /\ ProbeInv' /\ NothingRunsUnseen'
  BY WhereKept, FilesKept, WritesKept, CopiesKept, ProbeKept, NothingRunsUnseenKept
     DEF IInv, Repair, Barred, Elsewhere, files, memory, loop, joining, work
<1> QED BY <1>1, <1>2, <1>3 DEF IInv

LEMMA ExpireKeeps ==
    ASSUME IInv, NEW k \in Codes, Expire(k), Elsewhere
    PROVE  IInv'
<1>1. Types'
  BY Constants
     DEF IInv, Types, WhereInv, Expire, Elsewhere, files, memory, loop, joining, work, TypeOK,
         Identity, Joining, Dispatcher
<1>2. CredInv'
  BY DEF IInv, CredInv, Expire, Elsewhere, files, memory, loop, joining, work, Identities,
         Spent
<1>3. WhereInv' /\ FilesInv' /\ WritesInv' /\ CopiesInv' /\ ProbeInv' /\ NothingRunsUnseen'
  BY WhereKept, FilesKept, WritesKept, CopiesKept, ProbeKept, NothingRunsUnseenKept
     DEF IInv, Expire, Elsewhere, files, memory, loop, joining, work
<1> QED BY <1>1, <1>2, <1>3 DEF IInv

LEMMA ApproveKeeps ==
    ASSUME IInv, Approve, Elsewhere
    PROVE  IInv'
<1>1. Types'
  BY Constants
     DEF IInv, Types, WhereInv, Approve, Barred, Nothing, Elsewhere, files, memory, loop,
         joining, work, TypeOK, Identity, Joining, Dispatcher
<1>2. ProbeInv'
  BY DEF IInv, ProbeInv, Approve, Barred, Nothing, Elsewhere, files, memory, loop, joining,
         work, Posting, Known
<1>3. NothingRunsUnseen'
  BY DEF IInv, NothingRunsUnseen, Approve, Barred, Nothing, Elsewhere, files, memory, loop,
         joining, work
<1>4. CredInv' /\ WhereInv' /\ FilesInv' /\ WritesInv' /\ CopiesInv'
  BY CredKept, WhereKept, FilesKept, WritesKept, CopiesKept
     DEF IInv, Approve, Barred, Nothing, Elsewhere, files, memory, loop, joining, work
<1> QED BY <1>1, <1>2, <1>3, <1>4 DEF IInv

LEMMA EnableKeeps ==
    ASSUME IInv, Enable, Elsewhere
    PROVE  IInv'
<1>1. Types'
  BY Constants
     DEF IInv, Types, WhereInv, Enable, Barred, Elsewhere, files, memory, loop, joining, work,
         TypeOK, Identity, Joining, Dispatcher
<1>2. ProbeInv'
  BY DEF IInv, ProbeInv, Enable, Barred, Elsewhere, files, memory, loop, joining, work,
         Nothing, Posting, Known
<1>3. CredInv' /\ WhereInv' /\ FilesInv' /\ WritesInv' /\ CopiesInv' /\ NothingRunsUnseen'
  BY CredKept, WhereKept, FilesKept, WritesKept, CopiesKept, NothingRunsUnseenKept
     DEF IInv, Enable, Barred, Elsewhere, files, memory, loop, joining, work
<1> QED BY <1>1, <1>2, <1>3 DEF IInv

LEMMA SetAdmissionKeeps ==
    ASSUME IInv, NEW s \in {"enabled", "draining"}, SetAdmission(s), Elsewhere
    PROVE  IInv'
<1>1. Types'
  BY Constants
     DEF IInv, Types, WhereInv, SetAdmission, Barred, Elsewhere, files, memory, loop, joining,
         work, TypeOK, Identity, Joining, Dispatcher
<1>2. ProbeInv'
  BY DEF IInv, ProbeInv, SetAdmission, Barred, Elsewhere, files, memory, loop, joining, work,
         Nothing, Posting, Known
<1>3. CredInv' /\ WhereInv' /\ FilesInv' /\ WritesInv' /\ CopiesInv' /\ NothingRunsUnseen'
  BY CredKept, WhereKept, FilesKept, WritesKept, CopiesKept, NothingRunsUnseenKept
     DEF IInv, SetAdmission, Barred, Elsewhere, files, memory, loop, joining, work
<1> QED BY <1>1, <1>2, <1>3 DEF IInv

LEMMA RevokeKeeps ==
    ASSUME IInv, Revoke, Elsewhere
    PROVE  IInv'
<1>1. Types'
  BY Constants
     DEF IInv, Types, WhereInv, Revoke, Barred, Isolated, Nothing, Elsewhere, files, memory,
         loop, joining, work, TypeOK, Identity, Joining, Dispatcher
<1>2. CredInv'
  <2>1. \A k \in Codes : Spent(k)'
    BY DEF Revoke, Spent
  <2>2. UNCHANGED <<Identities, joins, jpc, join>> /\ live' = 0
    BY DEF Revoke, Elsewhere, Identities, files, memory, joining
  <2>3. \A x \in Identities : x.ok => x # NoId
    BY DEF NoId, Id
  <2>4. 0 <= joins
    BY DEF IInv, Types
  <2>5. \A x \in Identities : x.ok => Spent(x.code)'
    BY <2>1, <2>3 DEF IInv, CredInv
  <2>6. jpc = "adopt" => Spent(join.id.code)'
    <3>1. jpc = "adopt" => join.id.code \in Codes
      BY DEF IInv, CredInv, Identities
    <3> QED BY <2>1, <2>2, <3>1
  <2> QED BY <2>2, <2>4, <2>5, <2>6 DEF IInv, CredInv
<1>3. WritesInv'
  BY DEF IInv, WritesInv, Revoke, Barred, Isolated, Nothing, Elsewhere, files, memory, loop,
         joining, work, Alive
<1>4. CopiesInv'
  BY DEF IInv, CopiesInv, Revoke, Barred, Isolated, Nothing, Elsewhere, files, memory, loop,
         joining, work, Alive, Copies
<1>5. ProbeInv'
  BY DEF IInv, ProbeInv, Revoke, Barred, Isolated, Nothing, Elsewhere, files, memory, loop,
         joining, work, Posting, Known
<1>6. NothingRunsUnseen'
  BY DEF IInv, NothingRunsUnseen, Revoke, Barred, Isolated, Nothing, Elsewhere, files, memory,
         loop, joining, work
<1>7. WhereInv' /\ FilesInv'
  BY WhereKept, FilesKept
     DEF IInv, Revoke, Barred, Isolated, Nothing, Elsewhere, files, memory, loop, joining,
         work
<1> QED BY <1>1, <1>2, <1>3, <1>4, <1>5, <1>6, <1>7 DEF IInv

LEMMA RetireKeeps ==
    ASSUME IInv, Retire, Elsewhere
    PROVE  IInv'
<1>1. Types'
  BY Constants
     DEF IInv, Types, WhereInv, Retire, Elsewhere, files, memory, loop, joining, work, TypeOK,
         Identity, Joining, Dispatcher
<1>2. NothingRunsUnseen'
  BY DEF IInv, NothingRunsUnseen, Retire, Elsewhere, files, memory, loop, joining, work
<1>3. CredInv' /\ WhereInv' /\ FilesInv' /\ WritesInv' /\ CopiesInv' /\ ProbeInv'
  BY CredKept, WhereKept, FilesKept, WritesKept, CopiesKept, ProbeKept
     DEF IInv, Retire, Elsewhere, files, memory, loop, joining, work
<1> QED BY <1>1, <1>2, <1>3 DEF IInv

-----------------------------------------------------------------------------
(* The join.                                                               *)

LEMMA JoinKeeps ==
    ASSUME IInv, NEW k \in Codes, Join(k)
    PROVE  IInv'
<1>1. Types'
  BY Constants
     DEF IInv, Types, WhereInv, Join, Chosen, Id, registry, memory, loop, work, TypeOK,
         Identity, Joining, Dispatcher
<1>2. CredInv'
  <2>. DEFINE new == Chosen(k)
              was == IF ident # NoId THEN ident ELSE identFile
  <2>1. /\ join' = [id |-> new, old |-> was, held |-> FALSE]
        /\ pendFile' = new /\ joins' = joins + 1
        /\ jpc' = "saved" /\ UNCHANGED <<identFile, ident, pcheck, live, code>>
    BY DEF Join, registry, memory
  <2>2. was \in Identities /\ Identities' \subseteq Identities \cup {new}
    BY <2>1 DEF Identities
  <2>3. /\ new.code = k /\ new.ok = FALSE
        /\ \/ new.cred = joins + 1
           \/ \E y \in Identities : y # NoId /\ new.cred = y.cred /\ y.code = k
    <3>1. CASE pendFile # NoId /\ pendFile.code = k
      BY <3>1 DEF Chosen, Id, Identities
    <3>2. CASE ~(pendFile # NoId /\ pendFile.code = k) /\ was # NoId /\ was.code = k
      BY <3>2, <2>2 DEF Chosen, Id
    <3>3. CASE ~(pendFile # NoId /\ pendFile.code = k) /\ ~(was # NoId /\ was.code = k)
      BY <3>3 DEF Chosen, Id
    <3> QED BY <3>1, <3>2, <3>3
  <2>. HIDE DEF new, was
  <2>4. joins \in Nat /\ live \in Nat /\ live <= joins
    BY DEF IInv, Types, CredInv
  <2>5. \A y \in Identities : y.cred \in Nat /\ y.cred <= joins /\ (y # NoId => y.cred # 0)
    BY DEF IInv, Types, CredInv, Identities, Identity, Joining
  <2>6. new.cred # 0 /\ new # NoId /\ new.cred <= joins + 1
    <3>1. new.cred # 0 /\ new.cred <= joins + 1
      BY <2>3, <2>4, <2>5
    <3> QED BY <3>1 DEF NoId, Id
  <2>7. ASSUME NEW y \in Identities, y.cred = new.cred PROVE y.code = k
    BY <2>3, <2>4, <2>5, <2>7 DEF IInv, CredInv
  <2>8. new.cred = live => Spent(k)
    BY <2>3, <2>4, <2>5, <2>6 DEF IInv, CredInv
  <2>9. \A x : Spent(x)' = Spent(x)
    BY <2>1 DEF Spent
  <2>10. ASSUME NEW x \in Identities'
         PROVE  /\ x.cred <= joins' /\ (x.cred = 0 => x = NoId) /\ (x # NoId => x.code \in Codes)
                /\ x.ok \/ (x.cred = live /\ live # 0) => Spent(x.code)
    <3>1. CASE x = new
      BY <3>1, <2>1, <2>3, <2>6, <2>8
    <3>2. CASE x \in Identities
      BY <3>2, <2>1, <2>4, <2>5 DEF IInv, CredInv
    <3> QED BY <2>2, <3>1, <3>2
  <2>11. ASSUME NEW x \in Identities', NEW y \in Identities',
         x.cred = y.cred PROVE x.code = y.code
    BY <2>2, <2>3, <2>7, <2>11 DEF IInv, CredInv
  <2>12. live' <= joins' /\ join'.id # NoId /\ jpc' # "adopt"
    BY <2>1, <2>4, <2>6
  <2> QED BY <2>1, <2>9, <2>10, <2>11, <2>12 DEF CredInv
<1>3. WhereInv'
  BY DEF IInv, WhereInv, WhereInv, Join, Chosen, registry, memory, loop, work
<1>4. FilesInv'
  BY DEF IInv, FilesInv, Join, Chosen, NoId, Id, registry, memory, loop, work
<1>5. WritesInv'
  BY DEF IInv, WritesInv, Join, Chosen, registry, memory, loop, work, Alive
<1>6. CopiesInv'
  BY DEF IInv, CopiesInv, Join, Chosen, registry, memory, loop, work, Alive, Copies
<1>7. ProbeInv'
  BY DEF IInv, ProbeInv, Join, Chosen, registry, memory, loop, work, Nothing, Posting, Known
<1>8. NothingRunsUnseen'
  BY NothingRunsUnseenKept DEF IInv, Join, Chosen, NoId, Id, registry, memory, loop, work
<1> QED BY <1>1, <1>2, <1>3, <1>4, <1>5, <1>6, <1>7, <1>8 DEF IInv

LEMMA JoinAsksKeeps ==
    ASSUME IInv, JoinAsks
    PROVE  IInv'
<1>1. Types'
  BY Constants
     DEF IInv, Types, WhereInv, JoinAsks, registry, files, memory, work, counts, TypeOK,
         Identity, Joining, Dispatcher
<1>2. CredInv'
  BY DEF IInv, CredInv, JoinAsks, registry, files, memory, work, counts, Identities, Spent
<1>3. WhereInv'
  BY DEF IInv, WhereInv, WhereInv, JoinAsks, registry, files, memory, work, counts
<1>4. FilesInv'
  BY DEF IInv, FilesInv, JoinAsks, registry, files, memory, work, counts
<1>5. WritesInv'
  BY DEF IInv, WritesInv, JoinAsks, registry, files, memory, work, counts, Alive
<1>6. CopiesInv'
  BY DEF IInv, CopiesInv, JoinAsks, registry, files, memory, work, counts, Alive, Copies
<1>7. ProbeInv'
  BY DEF IInv, ProbeInv, JoinAsks, registry, files, memory, work, counts, Nothing, Posting,
         Known
<1>8. NothingRunsUnseen'
  BY NothingRunsUnseenKept DEF IInv, JoinAsks, registry, files, memory, work, counts
<1> QED BY <1>1, <1>2, <1>3, <1>4, <1>5, <1>6, <1>7, <1>8 DEF IInv

LEMMA JoinHaltsKeeps ==
    ASSUME IInv, JoinHalts
    PROVE  IInv'
<1>1. Types'
  BY Constants
     DEF IInv, Types, WhereInv, JoinHalts, registry, files, loop, work, TypeOK, Identity,
         Joining, Dispatcher
<1>2. CredInv'
  BY DEF IInv, Types, CredInv, JoinHalts, NoId, Id, registry, files, loop, work, Identities,
         Spent
<1>3. WhereInv'
  BY DEF IInv, WhereInv, WhereInv, JoinHalts, registry, files, loop, work
<1>4. FilesInv'
  BY DEF IInv, FilesInv, JoinHalts, registry, files, loop, work
<1>5. WritesInv'
  BY DEF IInv, WritesInv, JoinHalts, registry, files, loop, work, Alive
<1>6. CopiesInv'
  BY DEF IInv, WhereInv, CopiesInv, JoinHalts, registry, files, loop, work, Alive, Copies
<1>7. ProbeInv'
  BY DEF IInv, ProbeInv, JoinHalts, registry, files, loop, work, Nothing, Posting, Known
<1>8. NothingRunsUnseen'
  BY NothingRunsUnseenKept DEF IInv, JoinHalts, NoId, Id, registry, files, loop, work
<1> QED BY <1>1, <1>2, <1>3, <1>4, <1>5, <1>6, <1>7, <1>8 DEF IInv

LEMMA JoinGivesUpKeeps ==
    ASSUME IInv, JoinGivesUp
    PROVE  IInv'
<1>1. Types'
  BY Constants
     DEF IInv, Types, WhereInv, JoinGivesUp, Trouble, registry, files, memory, loop, work,
         TypeOK, Identity, Joining, Dispatcher
<1>2. CredInv'
  BY DEF IInv, Types, CredInv, JoinGivesUp, Trouble, NoJoin, NoId, Id, registry, files,
         memory, loop, work, Identities, Spent, NoDisp
<1>3. WhereInv'
  BY DEF IInv, WhereInv, WhereInv, JoinGivesUp, Trouble, registry, files, memory, loop, work
<1>4. FilesInv'
  BY DEF IInv, FilesInv, JoinGivesUp, Trouble, NoJoin, registry, files, memory, loop, work,
         NoDisp
<1>5. WritesInv'
  BY DEF IInv, WritesInv, JoinGivesUp, Trouble, registry, files, memory, loop, work, Alive
<1>6. CopiesInv'
  BY DEF IInv, CopiesInv, FilesInv, JoinGivesUp, Trouble, registry, files, memory, loop, work,
         Alive, Copies
<1>7. ProbeInv'
  BY DEF IInv, ProbeInv, JoinGivesUp, Trouble, registry, files, memory, loop, work, Nothing,
         Posting, Known
<1>8. NothingRunsUnseen'
  BY NothingRunsUnseenKept
     DEF IInv, JoinGivesUp, Trouble, NoJoin, NoId, Id, registry, files, memory, loop, work
<1> QED BY <1>1, <1>2, <1>3, <1>4, <1>5, <1>6, <1>7, <1>8 DEF IInv

LEMMA PairLandsKeeps ==
    ASSUME IInv, PairLands
    PROVE  IInv'
<1>1. Types'
  <2>a. join.id \in Identity /\ join.old \in Identity
    BY DEF IInv, Types, Joining
  <2>b. join.id.cred \in Nat /\ join.id.code \in Codes \cup {0}
    BY <2>a DEF Identity
  <2>1. TypeOK'
    BY Constants
       DEF IInv, Types, TypeOK, PairLands, Pairable, Barred, Paired, Trouble, files, memory,
           loop, work
  <2>2. /\ code' \in [Codes -> {"none", "open", "used", "expired"}]
        /\ live' \in Nat /\ joins' \in Nat /\ bootRow' \in Nat
    BY Constants, <2>b
       DEF IInv, Types, PairLands, Pairable, Barred, Paired, Trouble, files, memory, loop,
           work
  <2>c. [join EXCEPT !.held = TRUE] \in Joining
    BY DEF IInv, Types, Joining
  <2>5. join' \in Joining
    BY <2>c
       DEF IInv, Types, PairLands, Pairable, Barred, Paired, Trouble, files, memory, loop,
           work
  <2>8. /\ identFile' \in Identity /\ pendFile' \in Identity /\ ident' \in Identity
        /\ pcheck' \in Identity /\ disp' \in Dispatcher
        /\ back' \in {"top", "self", "boot", "beat", "dispatcher"} /\ up' \in BOOLEAN
        /\ stop' \in BOOLEAN /\ tiers' \in BOOLEAN /\ unsaved' \in BOOLEAN
    BY DEF IInv, Types, PairLands, Pairable, Barred, Paired, Trouble, files, memory, loop,
           work
  <2> QED BY <2>1, <2>2, <2>5, <2>8 DEF Types
<1>2. CredInv'
  <2>1. join.id \in Identities /\ join.id \in Identity /\ join.id # NoId
    BY DEF IInv, Types, CredInv, Identities, Joining, PairLands
  <2>2. join.id.code \in Codes /\ join.id.cred <= joins
    BY <2>1 DEF IInv, CredInv
  <2>3. live' = join.id.cred /\ code' = [code EXCEPT ![join.id.code] = "used"]
    BY DEF PairLands, Paired
  <2>4. \A j \in Codes : Spent(j) \/ j = join.id.code => Spent(j)'
    BY <2>2, <2>3 DEF IInv, Types, Spent
  <2>5. UNCHANGED <<identFile, pendFile, ident, pcheck, joins>> /\ join'.id = join.id /\
                    join'.old = join.old
    BY DEF IInv, Types, Joining, PairLands, files, memory
  <2>6. UNCHANGED Identities
    BY <2>5 DEF Identities
  <2>7. ASSUME NEW x \in Identities, x.ok \/ x.cred = live' PROVE Spent(x.code)'
    <3>1. x.cred = live' => x.code = join.id.code
      BY <2>1, <2>3 DEF IInv, CredInv
    <3>2. CASE x.cred = live'
      BY <2>2, <2>4, <3>1, <3>2
    <3>3. CASE x.ok
      <4>1. Spent(x.code) /\ x.code \in Codes
        BY <3>3 DEF IInv, CredInv, NoId, Id
      <4> QED BY <2>4, <4>1
    <3> QED BY <2>7, <3>2, <3>3
  <2>8. Spent(join.id.code)'
    BY <2>2, <2>4, <2>5
  <2> QED BY <2>1, <2>2, <2>3, <2>5, <2>6, <2>7, <2>8 DEF IInv, CredInv
<1>3. WhereInv'
  BY DEF IInv, WhereInv, WhereInv, PairLands, Pairable, Barred, Paired, Trouble, files,
         memory, loop, work
<1>4. FilesInv'
  BY DEF IInv, Types, FilesInv, PairLands, Pairable, Barred, Paired, Trouble, files, memory,
         loop, work, TypeOK, Identity, Joining, Dispatcher, NoDisp
<1>5. WritesInv'
  BY DEF IInv, WhereInv, WritesInv, PairLands, Pairable, Barred, Paired, Trouble, files,
         memory, loop, work, Alive
<1>6. CopiesInv'
  BY DEF IInv, Types, CopiesInv, CredInv, FilesInv, PairLands, Pairable, Barred, Paired,
         Trouble, files, memory, loop, work, Alive, Copies, TypeOK, Identity, Joining,
         Dispatcher, Identities, Spent
<1>7. ProbeInv'
  BY DEF IInv, ProbeInv, PairLands, Pairable, Barred, Paired, Trouble, files, memory, loop,
         work, Nothing, Posting, Known
<1>8. NothingRunsUnseen'
  BY DEF IInv, NothingRunsUnseen, PairLands, Pairable, Barred, Paired, Trouble, files, memory,
         loop, work
<1> QED BY <1>1, <1>2, <1>3, <1>4, <1>5, <1>6, <1>7, <1>8 DEF IInv

LEMMA PairRefusedKeeps ==
    ASSUME IInv, PairRefused
    PROVE  IInv'
<1>1. Types'
  BY Constants
     DEF IInv, Types, WhereInv, PairRefused, Pairable, Barred, registry, files, memory, loop,
         work, counts, TypeOK, Identity, Joining, Dispatcher
<1>2. CredInv'
  BY DEF IInv, CredInv, PairRefused, Pairable, Barred, registry, files, memory, loop, work,
         counts, Identities, Spent
<1>3. WhereInv'
  BY DEF IInv, WhereInv, WhereInv, PairRefused, Pairable, Barred, registry, files, memory,
         loop, work, counts
<1>4. FilesInv'
  BY DEF IInv, FilesInv, PairRefused, Pairable, Barred, registry, files, memory, loop, work,
         counts
<1>5. WritesInv'
  BY DEF IInv, WritesInv, PairRefused, Pairable, Barred, registry, files, memory, loop, work,
         counts, Alive
<1>6. CopiesInv'
  BY DEF IInv, CopiesInv, PairRefused, Pairable, Barred, registry, files, memory, loop, work,
         counts, Alive, Copies
<1>7. ProbeInv' /\ NothingRunsUnseen'
  BY ProbeKept, NothingRunsUnseenKept
     DEF IInv, PairRefused, Pairable, Barred, registry, files, memory, loop, work, counts
<1> QED BY <1>1, <1>2, <1>3, <1>4, <1>5, <1>6, <1>7 DEF IInv

LEMMA PairUnsentKeeps ==
    ASSUME IInv, PairUnsent
    PROVE  IInv'
<1>1. Types'
  <2>1. TypeOK'
    BY Constants
       DEF IInv, Types, TypeOK, PairUnsent, Trouble, registry, files, memory, loop, work
  <2>5. join' \in Joining
    BY Constants
       DEF IInv, Types, Joining, Identity, PairUnsent, Trouble, registry, files, memory, loop,
           work
  <2>8. /\ code' \in [Codes -> {"none", "open", "used", "expired"}] /\ live' \in Nat
        /\ joins' \in Nat /\ bootRow' \in Nat /\ identFile' \in Identity
        /\ pendFile' \in Identity /\ ident' \in Identity /\ pcheck' \in Identity
        /\ disp' \in Dispatcher
        /\ back' \in {"top", "self", "boot", "beat", "dispatcher"} /\ up' \in BOOLEAN
        /\ stop' \in BOOLEAN /\ tiers' \in BOOLEAN /\ unsaved' \in BOOLEAN
    BY DEF IInv, Types, PairUnsent, Trouble, registry, files, memory, loop, work
  <2> QED BY <2>1, <2>5, <2>8 DEF Types
<1>2. CredInv'
  BY DEF IInv, CredInv, PairUnsent, Trouble, registry, files, memory, loop, work, Identities,
         Spent
<1>3. WhereInv'
  BY DEF IInv, WhereInv, WhereInv, PairUnsent, Trouble, registry, files, memory, loop, work
<1>4. FilesInv'
  BY DEF IInv, FilesInv, PairUnsent, Trouble, registry, files, memory, loop, work
<1>5. WritesInv'
  BY DEF IInv, WritesInv, PairUnsent, Trouble, registry, files, memory, loop, work, Alive
<1>6. CopiesInv'
  BY DEF IInv, CopiesInv, PairUnsent, Trouble, registry, files, memory, loop, work, Alive,
         Copies
<1>7. ProbeInv' /\ NothingRunsUnseen'
  BY ProbeKept, NothingRunsUnseenKept
     DEF IInv, PairUnsent, Trouble, registry, files, memory, loop, work
<1> QED BY <1>1, <1>2, <1>3, <1>4, <1>5, <1>6, <1>7 DEF IInv

LEMMA JoinProvesKeeps ==
    ASSUME IInv, JoinProves
    PROVE  IInv'
<1>1. Types'
  BY Constants
     DEF IInv, Types, WhereInv, JoinProves, Accepts, registry, files, memory, loop, work,
         counts, TypeOK, Identity, Joining, Dispatcher
<1>2. CredInv'
  BY DEF IInv, CredInv, JoinProves, Accepts, registry, files, memory, loop, work, counts,
         Identities, Spent
<1>3. WhereInv'
  BY DEF IInv, WhereInv, WhereInv, JoinProves, Accepts, registry, files, memory, loop, work,
         counts
<1>4. FilesInv'
  BY DEF IInv, FilesInv, JoinProves, Accepts, registry, files, memory, loop, work, counts
<1>5. WritesInv'
  BY DEF IInv, WritesInv, JoinProves, Accepts, registry, files, memory, loop, work, counts,
         Alive
<1>6. CopiesInv'
  BY DEF IInv, CopiesInv, JoinProves, Accepts, registry, files, memory, loop, work, counts,
         Alive, Copies
<1>7. ProbeInv' /\ NothingRunsUnseen'
  BY ProbeKept, NothingRunsUnseenKept
     DEF IInv, JoinProves, Accepts, registry, files, memory, loop, work, counts
<1> QED BY <1>1, <1>2, <1>3, <1>4, <1>5, <1>6, <1>7 DEF IInv

LEMMA JoinFailsKeeps ==
    ASSUME IInv, JoinFails
    PROVE  IInv'
<1>1. Types'
  <2>a. join.id \in Identity /\ join.old \in Identity
    BY DEF IInv, Types, Joining
  <2>b. join.id.cred \in Nat /\ join.id.code \in Codes \cup {0}
    BY <2>a DEF Identity
  <2>1. TypeOK'
    BY Constants
       DEF IInv, Types, TypeOK, JoinFails, Unproved, Accepts, Trouble, Spawn, loop, Goto,
           registry, files, work
  <2>4. ident' \in Identity /\ pcheck' \in Identity
    BY Constants, <2>a
       DEF IInv, Types, JoinFails, Unproved, Accepts, Trouble, Spawn, loop, Goto, registry,
           files, work
  <2>5. join' \in Joining
    BY Constants
       DEF IInv, Types, Joining, Identity, JoinFails, Unproved, Accepts, Trouble, Spawn, loop,
           Goto, registry, files, work
  <2>8. /\ code' \in [Codes -> {"none", "open", "used", "expired"}] /\ live' \in Nat
        /\ joins' \in Nat /\ bootRow' \in Nat /\ identFile' \in Identity
        /\ pendFile' \in Identity /\ disp' \in Dispatcher
        /\ back' \in {"top", "self", "boot", "beat", "dispatcher"} /\ up' \in BOOLEAN
        /\ stop' \in BOOLEAN /\ tiers' \in BOOLEAN /\ unsaved' \in BOOLEAN
    BY DEF IInv, Types, JoinFails, Unproved, Accepts, Trouble, Spawn, loop, Goto, registry,
           files, work
  <2> QED BY <2>1, <2>4, <2>5, <2>8 DEF Types
<1>2. CredInv'
  BY DEF IInv, Types, CredInv, JoinFails, Unproved, Accepts, Trouble, NoJoin, NoId, Id, Spawn,
         loop, Goto, registry, files, work, Identities, Spent, NoDisp
<1>3. WhereInv'
  BY DEF IInv, WhereInv, WhereInv, JoinFails, Unproved, Accepts, Trouble, Spawn, loop, Goto,
         registry, files, work
<1>4. FilesInv'
  BY DEF IInv, FilesInv, JoinFails, Unproved, Accepts, Trouble, NoJoin, Spawn, loop, Goto,
         registry, files, work, NoDisp
<1>5. WritesInv'
  BY DEF IInv, WhereInv, WritesInv, JoinFails, Unproved, Accepts, Trouble, Spawn, loop, Goto,
         registry, files, work, Alive
<1>6. CopiesInv'
  BY DEF IInv, CopiesInv, FilesInv, CredInv, JoinFails, Unproved, Accepts, Trouble, Spawn,
         loop, Goto, registry, files, work, Alive, Copies, Identities, Spent
<1>7. ProbeInv'
  BY DEF IInv, ProbeInv, JoinFails, Unproved, Accepts, Trouble, Spawn, loop, Goto, registry,
         files, work, Nothing, Posting, Known
<1>8. NothingRunsUnseen'
  BY NothingRunsUnseenKept
     DEF IInv, JoinFails, Unproved, Accepts, Trouble, NoJoin, NoId, Id, Spawn, loop, Goto,
         registry, files, work
<1> QED BY <1>1, <1>2, <1>3, <1>4, <1>5, <1>6, <1>7, <1>8 DEF IInv

LEMMA JoinAdoptsKeeps ==
    ASSUME IInv, JoinAdopts
    PROVE  IInv'
<1>1. Types'
  <2>a. join.id \in Identity /\ join.old \in Identity
    BY DEF IInv, Types, Joining
  <2>b. join.id.cred \in Nat /\ join.id.code \in Codes \cup {0}
    BY <2>a DEF Identity
  <2>c. Confirmed(join.id) \in Identity
    BY <2>a, ConfirmedIs
  <2>1. TypeOK'
    BY Constants
       DEF IInv, Types, TypeOK, JoinAdopts, Confirmed, Trouble, files, Spawn, loop, Goto,
           registry
  <2>3. identFile' \in Identity /\ pendFile' \in Identity
    BY Constants, <2>c
       DEF IInv, Types, JoinAdopts, Trouble, files, Spawn, loop, Goto, registry
  <2>4. ident' \in Identity /\ pcheck' \in Identity
    BY Constants, <2>c
       DEF IInv, Types, JoinAdopts, Trouble, files, Spawn, loop, Goto, registry
  <2>5. join' \in Joining
    BY Constants
       DEF IInv, Types, Joining, Identity, JoinAdopts, Confirmed, Trouble, files, Spawn, loop,
           Goto, registry
  <2>6. disp' \in Dispatcher
    BY Constants
       DEF IInv, Types, Dispatcher, JoinAdopts, Confirmed, Trouble, files, Spawn, loop, Goto,
           registry
  <2>8. /\ code' \in [Codes -> {"none", "open", "used", "expired"}] /\ live' \in Nat
        /\ joins' \in Nat /\ bootRow' \in Nat
        /\ back' \in {"top", "self", "boot", "beat", "dispatcher"} /\ up' \in BOOLEAN
        /\ stop' \in BOOLEAN /\ tiers' \in BOOLEAN /\ unsaved' \in BOOLEAN
    BY DEF IInv, Types, JoinAdopts, Confirmed, Trouble, files, Spawn, loop, Goto, registry
  <2> QED BY <2>1, <2>3, <2>4, <2>5, <2>6, <2>8 DEF Types
<1>2. CredInv'
  BY DEF IInv, Types, CredInv, JoinAdopts, NoJoin, NoId, Id, Confirmed, Trouble, files, Spawn,
         loop, Goto, registry, Identities, Spent, TypeOK, Identity, Joining, Dispatcher,
         NoDisp
<1>3. WhereInv'
  BY DEF IInv, WhereInv, WhereInv, JoinAdopts, Confirmed, Trouble, files, Spawn, loop, Goto,
         registry
<1>4. FilesInv'
  BY DEF IInv, Types, FilesInv, JoinAdopts, NoJoin, Confirmed, Trouble, files, Spawn, loop,
         Goto, registry, TypeOK, Identity, Joining, Dispatcher, NoDisp
<1>5. WritesInv'
  BY DEF IInv, WhereInv, WritesInv, JoinAdopts, Confirmed, Trouble, files, Spawn, loop, Goto,
         registry, Alive
<1>6. CopiesInv'
  BY DEF IInv, Types, CopiesInv, WritesInv, CredInv, JoinAdopts, Confirmed, Trouble, files,
         Spawn, loop, Goto, registry, Alive, Copies, TypeOK, Identity, Joining, Dispatcher,
         Identities, Spent
<1>7. ProbeInv'
  BY DEF IInv, ProbeInv, JoinAdopts, Confirmed, Trouble, files, Spawn, loop, Goto, registry,
         Nothing, Posting, Known
<1>8. NothingRunsUnseen'
  BY NothingRunsUnseenKept
     DEF IInv, JoinAdopts, NoJoin, NoId, Id, Confirmed, Trouble, files, Spawn, loop, Goto,
         registry
<1> QED BY <1>1, <1>2, <1>3, <1>4, <1>5, <1>6, <1>7, <1>8 DEF IInv

-----------------------------------------------------------------------------
(* The process.                                                            *)

LEMMA StopKeeps ==
    ASSUME IInv, Stop
    PROVE  IInv'
<1>1. Types'
  BY Constants
     DEF IInv, Types, WhereInv, Stop, Trouble, registry, files, joining, work, TypeOK,
         Identity, Joining, Dispatcher
<1>2. WhereInv'
  BY DEF IInv, WhereInv, WhereInv, Stop, Trouble, registry, files, joining, work
<1>3. ProbeInv'
  BY DEF IInv, ProbeInv, Stop, Trouble, registry, files, joining, work, Nothing, Posting,
         Known
<1>4. CredInv' /\ FilesInv' /\ WritesInv' /\ CopiesInv' /\ NothingRunsUnseen'
  BY CredKept, FilesKept, WritesKept, CopiesKept, NothingRunsUnseenKept
     DEF IInv, Stop, Trouble, registry, files, joining, work
<1> QED BY <1>1, <1>2, <1>3, <1>4 DEF IInv

LEMMA DownKeeps ==
    ASSUME IInv, Down
    PROVE  IInv'
<1>1. Types'
  <2>1. TypeOK'
    BY Constants DEF IInv, Types, TypeOK, Down, Emptied, registry, files, counts
  <2>4. ident' \in Identity /\ pcheck' \in Identity
    BY Constants DEF IInv, Types, Down, Emptied, registry, files, counts
  <2>5. join' \in Joining
    BY Constants DEF IInv, Types, Joining, Identity, Down, Emptied, registry, files, counts
  <2>6. disp' \in Dispatcher
    BY Constants DEF IInv, Types, Dispatcher, Down, Emptied, registry, files, counts
  <2>8. /\ code' \in [Codes -> {"none", "open", "used", "expired"}] /\ live' \in Nat
        /\ joins' \in Nat /\ bootRow' \in Nat /\ identFile' \in Identity
        /\ pendFile' \in Identity
        /\ back' \in {"top", "self", "boot", "beat", "dispatcher"} /\ up' \in BOOLEAN
        /\ stop' \in BOOLEAN /\ tiers' \in BOOLEAN /\ unsaved' \in BOOLEAN
    BY DEF IInv, Types, Down, Emptied, registry, files, counts
  <2> QED BY <2>1, <2>4, <2>5, <2>6, <2>8 DEF Types
<1>2. CredInv'
  BY DEF IInv, Types, CredInv, Down, Emptied, NoId, Id, NoJoin, NoDisp, registry, files,
         counts, Identities, Spent
<1>3. WhereInv'
  BY DEF IInv, WhereInv, WhereInv, Down, Emptied, registry, files, counts
<1>4. FilesInv'
  BY DEF IInv, FilesInv, Down, Emptied, NoJoin, NoDisp, registry, files, counts
<1>5. WritesInv'
  BY DEF IInv, WritesInv, Down, Emptied, registry, files, counts, Alive
<1>6. CopiesInv'
  BY DEF IInv, CopiesInv, Down, Emptied, registry, files, counts, Alive, Copies
<1>7. ProbeInv'
  BY DEF IInv, ProbeInv, Down, Emptied, NoJoin, NoDisp, registry, files, counts, Nothing,
         Posting, Known
<1>8. NothingRunsUnseen'
  BY NothingRunsUnseenKept
     DEF IInv, Down, Emptied, NoId, Id, NoJoin, NoDisp, registry, files, counts
<1> QED BY <1>1, <1>2, <1>3, <1>4, <1>5, <1>6, <1>7, <1>8 DEF IInv

LEMMA CrashKeeps ==
    ASSUME IInv, Crash
    PROVE  IInv'
<1>1. Types'
  <2>1. TypeOK'
    BY Constants DEF IInv, Types, TypeOK, Crash, Trouble, Emptied, registry, files
  <2>4. ident' \in Identity /\ pcheck' \in Identity
    BY Constants DEF IInv, Types, Crash, Trouble, Emptied, registry, files
  <2>5. join' \in Joining
    BY Constants DEF IInv, Types, Joining, Identity, Crash, Trouble, Emptied, registry, files
  <2>6. disp' \in Dispatcher
    BY Constants DEF IInv, Types, Dispatcher, Crash, Trouble, Emptied, registry, files
  <2>8. /\ code' \in [Codes -> {"none", "open", "used", "expired"}] /\ live' \in Nat
        /\ joins' \in Nat /\ bootRow' \in Nat /\ identFile' \in Identity
        /\ pendFile' \in Identity
        /\ back' \in {"top", "self", "boot", "beat", "dispatcher"} /\ up' \in BOOLEAN
        /\ stop' \in BOOLEAN /\ tiers' \in BOOLEAN /\ unsaved' \in BOOLEAN
    BY DEF IInv, Types, Crash, Trouble, Emptied, registry, files
  <2> QED BY <2>1, <2>4, <2>5, <2>6, <2>8 DEF Types
<1>2. CredInv'
  BY DEF IInv, Types, CredInv, Crash, Trouble, Emptied, NoId, Id, NoJoin, NoDisp, registry,
         files, Identities, Spent
<1>3. WhereInv'
  BY DEF IInv, WhereInv, WhereInv, Crash, Trouble, Emptied, registry, files
<1>4. FilesInv'
  BY DEF IInv, FilesInv, Crash, Trouble, Emptied, NoJoin, NoDisp, registry, files
<1>5. WritesInv'
  BY DEF IInv, WritesInv, Crash, Trouble, Emptied, registry, files, Alive
<1>6. CopiesInv'
  BY DEF IInv, CopiesInv, Crash, Trouble, Emptied, registry, files, Alive, Copies
<1>7. ProbeInv'
  BY DEF IInv, ProbeInv, Crash, Trouble, Emptied, NoJoin, NoDisp, registry, files, Nothing,
         Posting, Known
<1>8. NothingRunsUnseen'
  BY DEF IInv, NothingRunsUnseen, Crash, Trouble, Emptied, registry, files
<1> QED BY <1>1, <1>2, <1>3, <1>4, <1>5, <1>6, <1>7, <1>8 DEF IInv

LEMMA StartKeeps ==
    ASSUME IInv, Start
    PROVE  IInv'
<1>1. Types'
  <2>1. TypeOK'
    BY Constants
       DEF IInv, Types, TypeOK, Start, loop, Spawn, Goto, registry, files, joining, counts
  <2>4. ident' \in Identity /\ pcheck' \in Identity
    BY Constants DEF IInv, Types, Start, loop, Spawn, Goto, registry, files, joining, counts
  <2>8. /\ code' \in [Codes -> {"none", "open", "used", "expired"}] /\ live' \in Nat
        /\ joins' \in Nat /\ bootRow' \in Nat /\ identFile' \in Identity
        /\ pendFile' \in Identity /\ join' \in Joining /\ disp' \in Dispatcher
        /\ back' \in {"top", "self", "boot", "beat", "dispatcher"} /\ up' \in BOOLEAN
        /\ stop' \in BOOLEAN /\ tiers' \in BOOLEAN /\ unsaved' \in BOOLEAN
    BY DEF IInv, Types, Start, loop, Spawn, Goto, registry, files, joining, counts
  <2> QED BY <2>1, <2>4, <2>8 DEF Types
<1>2. CredInv'
  BY DEF IInv, CredInv, Start, loop, Spawn, Goto, registry, files, joining, counts,
         Identities, Spent
<1>3. WhereInv'
  BY DEF IInv, WhereInv, WhereInv, Start, loop, Spawn, Goto, registry, files, joining, counts
<1>4. FilesInv'
  BY DEF IInv, FilesInv, Start, loop, Spawn, Goto, registry, files, joining, counts
<1>5. WritesInv'
  BY DEF IInv, WhereInv, WritesInv, Start, loop, Spawn, Goto, registry, files, joining,
         counts, Alive
<1>6. CopiesInv'
  BY DEF IInv, WhereInv, CopiesInv, Start, loop, Spawn, Goto, registry, files, joining,
         counts, Alive, Copies
<1>7. ProbeInv'
  BY DEF IInv, WhereInv, ProbeInv, Start, loop, Spawn, Goto, registry, files, joining, counts,
         Nothing, Posting, Known, NoDisp
<1>8. NothingRunsUnseen'
  BY NothingRunsUnseenKept
     DEF IInv, Start, NoId, Id, loop, Spawn, Goto, registry, files, joining, counts
<1> QED BY <1>1, <1>2, <1>3, <1>4, <1>5, <1>6, <1>7, <1>8 DEF IInv

-----------------------------------------------------------------------------
(* The loop.                                                               *)

LEMMA LoopEndsKeeps ==
    ASSUME IInv, LoopEnds
    PROVE  IInv'
<1>1. Types'
  BY Constants
     DEF IInv, Types, WhereInv, LoopEnds, Goto, registry, files, memory, joining, work,
         counts, TypeOK, Identity, Joining, Dispatcher
<1>2. WhereInv'
  BY DEF IInv, WhereInv, WhereInv, LoopEnds, Goto, registry, files, memory, joining, work,
         counts
<1>3. WritesInv'
  BY DEF IInv, WritesInv, LoopEnds, Goto, registry, files, memory, joining, work, counts,
         Alive
<1>4. ProbeInv'
  BY DEF IInv, ProbeInv, LoopEnds, Goto, registry, files, memory, joining, work, counts,
         Nothing, Posting, Known
<1>5. CredInv' /\ FilesInv' /\ CopiesInv' /\ NothingRunsUnseen'
  BY CredKept, FilesKept, CopiesKept, NothingRunsUnseenKept
     DEF IInv, LoopEnds, Goto, registry, files, memory, joining, work, counts
<1> QED BY <1>1, <1>2, <1>3, <1>4, <1>5 DEF IInv

LEMMA UnjoinedKeeps ==
    ASSUME IInv, Unjoined
    PROVE  IInv'
<1>1. Types'
  BY Constants
     DEF IInv, Types, WhereInv, Unjoined, Goto, registry, files, memory, joining, work,
         counts, TypeOK, Identity, Joining, Dispatcher
<1>2. WhereInv'
  BY DEF IInv, WhereInv, WhereInv, Unjoined, Goto, registry, files, memory, joining, work,
         counts
<1>3. WritesInv'
  BY DEF IInv, WritesInv, Unjoined, Goto, registry, files, memory, joining, work, counts,
         Alive
<1>4. ProbeInv'
  BY DEF IInv, ProbeInv, Unjoined, Goto, registry, files, memory, joining, work, counts,
         Nothing, Posting, Known
<1>5. CredInv' /\ FilesInv' /\ CopiesInv' /\ NothingRunsUnseen'
  BY CredKept, FilesKept, CopiesKept, NothingRunsUnseenKept
     DEF IInv, Unjoined, NoId, Id, Goto, registry, files, memory, joining, work, counts
<1> QED BY <1>1, <1>2, <1>3, <1>4, <1>5 DEF IInv

LEMMA RevokedKeeps ==
    ASSUME IInv, Revoked
    PROVE  IInv'
<1>1. Types'
  <2>1. TypeOK'
    BY Constants
       DEF IInv, Types, TypeOK, Revoked, Usable, Goto, registry, files, memory, joining,
           counts
  <2>6. disp' \in Dispatcher
    BY Constants
       DEF IInv, Types, Dispatcher, Revoked, Usable, Goto, registry, files, memory, joining,
           counts
  <2>8. /\ code' \in [Codes -> {"none", "open", "used", "expired"}] /\ live' \in Nat
        /\ joins' \in Nat /\ bootRow' \in Nat /\ identFile' \in Identity
        /\ pendFile' \in Identity /\ ident' \in Identity /\ pcheck' \in Identity
        /\ join' \in Joining
        /\ back' \in {"top", "self", "boot", "beat", "dispatcher"} /\ up' \in BOOLEAN
        /\ stop' \in BOOLEAN /\ tiers' \in BOOLEAN /\ unsaved' \in BOOLEAN
    BY DEF IInv, Types, Revoked, Usable, Goto, registry, files, memory, joining, counts
  <2> QED BY <2>1, <2>6, <2>8 DEF Types
<1>2. WhereInv'
  BY DEF IInv, WhereInv, WhereInv, Revoked, Usable, Goto, registry, files, memory, joining,
         counts
<1>3. WritesInv'
  BY DEF IInv, WritesInv, Revoked, Usable, Goto, registry, files, memory, joining, counts,
         Alive
<1>4. ProbeInv'
  BY DEF IInv, ProbeInv, Revoked, Usable, Goto, NoDisp, registry, files, memory, joining,
         counts, Nothing, Posting, Known
<1>5. CredInv' /\ FilesInv' /\ CopiesInv' /\ NothingRunsUnseen'
  BY CredKept, FilesKept, CopiesKept, NothingRunsUnseenKept
     DEF IInv, Revoked, NoId, Id, Usable, Goto, NoDisp, registry, files, memory, joining,
         counts
<1> QED BY <1>1, <1>2, <1>3, <1>4, <1>5 DEF IInv

LEMMA SessionKeeps ==
    ASSUME IInv, Session
    PROVE  IInv'
<1>1. Types'
  BY Constants
     DEF IInv, Types, WhereInv, Session, Usable, Goto, registry, files, memory, joining, work,
         counts, TypeOK, Identity, Joining, Dispatcher
<1>2. WhereInv'
  BY DEF IInv, WhereInv, WhereInv, Session, Usable, Goto, registry, files, memory, joining,
         work, counts
<1>3. WritesInv'
  BY DEF IInv, WritesInv, Session, Usable, Goto, registry, files, memory, joining, work,
         counts, Alive
<1>4. ProbeInv'
  BY DEF IInv, ProbeInv, Session, Usable, Goto, registry, files, memory, joining, work,
         counts, Nothing, Posting, Known
<1>5. CredInv' /\ FilesInv' /\ CopiesInv' /\ NothingRunsUnseen'
  BY CredKept, FilesKept, CopiesKept, NothingRunsUnseenKept
     DEF IInv, Session, Usable, NoId, Id, Goto, registry, files, memory, joining, work, counts
<1> QED BY <1>1, <1>2, <1>3, <1>4, <1>5 DEF IInv

LEMMA PendingConfirmedKeeps ==
    ASSUME IInv, PendingConfirmed
    PROVE  IInv'
<1>1. Types'
  <2>a. Confirmed(pcheck) \in Identity
    BY ConfirmedIs DEF IInv, Types
  <2>1. TypeOK'
    BY Constants
       DEF IInv, Types, TypeOK, PendingConfirmed, Checking, Accepts, Confirmed, Goto,
           registry, files, joining, counts
  <2>4. ident' \in Identity /\ pcheck' \in Identity
    BY Constants, <2>a
       DEF IInv, Types, PendingConfirmed, Checking, Accepts, Goto, registry, files, joining,
           counts
  <2>6. disp' \in Dispatcher
    BY Constants
       DEF IInv, Types, Dispatcher, PendingConfirmed, Checking, Accepts, Confirmed, Goto,
           registry, files, joining, counts
  <2>8. /\ code' \in [Codes -> {"none", "open", "used", "expired"}] /\ live' \in Nat
        /\ joins' \in Nat /\ bootRow' \in Nat /\ identFile' \in Identity
        /\ pendFile' \in Identity /\ join' \in Joining
        /\ back' \in {"top", "self", "boot", "beat", "dispatcher"} /\ up' \in BOOLEAN
        /\ stop' \in BOOLEAN /\ tiers' \in BOOLEAN /\ unsaved' \in BOOLEAN
    BY DEF IInv, Types, PendingConfirmed, Checking, Accepts, Confirmed, Goto, registry, files,
           joining, counts
  <2> QED BY <2>1, <2>4, <2>6, <2>8 DEF Types
<1>2. CredInv'
  BY DEF IInv, Types, CredInv, PendingConfirmed, Checking, NoId, Id, Accepts, Confirmed, Goto,
         registry, files, joining, counts, Identities, Spent
<1>3. WhereInv'
  BY DEF IInv, WhereInv, WhereInv, PendingConfirmed, Checking, NoId, Id, Accepts, Confirmed,
         Goto, registry, files, joining, counts
<1>4. FilesInv'
  BY DEF IInv, FilesInv, PendingConfirmed, Checking, Accepts, Confirmed, Goto, registry,
         files, joining, counts
<1>5. WritesInv'
  BY DEF IInv, WritesInv, PendingConfirmed, Checking, Accepts, Confirmed, Goto, registry,
         files, joining, counts, Alive
<1>6. CopiesInv'
  BY DEF IInv, CopiesInv, PendingConfirmed, Checking, Accepts, Confirmed, Goto, registry,
         files, joining, counts, Alive, Copies
<1>7. ProbeInv'
  BY DEF IInv, ProbeInv, PendingConfirmed, Checking, Accepts, Confirmed, Goto, registry,
         files, joining, counts, Nothing, Posting, Known
<1>8. NothingRunsUnseen'
  BY NothingRunsUnseenKept
     DEF IInv, PendingConfirmed, Checking, NoId, Id, Accepts, Confirmed, Goto, registry,
         files, joining, counts
<1> QED BY <1>1, <1>2, <1>3, <1>4, <1>5, <1>6, <1>7, <1>8 DEF IInv

LEMMA PendingRefusedKeeps ==
    ASSUME IInv, PendingRefused
    PROVE  IInv'
<1>1. Types'
  BY Constants
     DEF IInv, Types, WhereInv, PendingRefused, Checking, Accepts, Call, registry, files,
         joining, work, counts, TypeOK, Identity, Joining, Dispatcher
<1>2. CredInv'
  <2>1. UNCHANGED <<live, joins, code, jpc, join>> /\ Identities' \subseteq Identities \cup
                    {NoId}
    BY DEF PendingRefused, Identities, registry, files, joining, counts, loop
  <2>2. jpc # "adopt"
    BY DEF IInv, WhereInv, PendingRefused, Checking
  <2> QED BY <2>1, <2>2, CredFewer DEF IInv, Types, CredInv
<1>3. WhereInv'
  BY DEF IInv, WhereInv, WhereInv, PendingRefused, Checking, Accepts, Call, registry, files,
         joining, work, counts
<1>4. WritesInv'
  BY DEF IInv, WritesInv, CopiesInv, CredInv, PendingRefused, Checking, Accepts, Call,
         registry, files, joining, work, counts, Alive, Copies, Identities, Spent
<1>5. CopiesInv'
  BY DEF IInv, CopiesInv, PendingRefused, Checking, Accepts, Call, registry, files, joining,
         work, counts, Alive, Copies
<1>6. ProbeInv'
  BY DEF IInv, ProbeInv, PendingRefused, Checking, Accepts, Call, registry, files, joining,
         work, counts, Nothing, Posting, Known
<1>7. FilesInv' /\ NothingRunsUnseen'
  BY FilesKept, NothingRunsUnseenKept
     DEF IInv, PendingRefused, Checking, NoId, Id, Accepts, Call, registry, files, joining,
         work, counts
<1> QED BY <1>1, <1>2, <1>3, <1>4, <1>5, <1>6, <1>7 DEF IInv

LEMMA UnlinkKeeps ==
    ASSUME IInv, Unlink
    PROVE  IInv'
<1>1. Types'
  BY Constants
     DEF IInv, Types, WhereInv, Unlink, Goto, registry, memory, joining, work, TypeOK,
         Identity, Joining, Dispatcher
<1>2. CredInv'
  BY DEF IInv, Types, CredInv, Unlink, Goto, NoId, Id, registry, memory, joining, work,
         Identities, Spent
<1>3. WhereInv'
  BY DEF IInv, WhereInv, WhereInv, Unlink, Goto, registry, memory, joining, work
<1>4. FilesInv'
  BY DEF IInv, FilesInv, Unlink, Goto, registry, memory, joining, work
<1>5. WritesInv'
  BY DEF IInv, Types, WritesInv, Unlink, Goto, registry, memory, joining, work, Alive
<1>6. CopiesInv'
  BY DEF IInv, CopiesInv, WritesInv, Unlink, Goto, registry, memory, joining, work, Alive,
         Copies
<1>7. ProbeInv'
  BY DEF IInv, WhereInv, ProbeInv, Unlink, Goto, registry, memory, joining, work, Nothing,
         Posting, Known
<1>8. NothingRunsUnseen'
  BY NothingRunsUnseenKept DEF IInv, Unlink, Goto, NoId, Id, registry, memory, joining, work
<1> QED BY <1>1, <1>2, <1>3, <1>4, <1>5, <1>6, <1>7, <1>8 DEF IInv

LEMMA SaveKeeps ==
    ASSUME IInv, Save
    PROVE  IInv'
<1>1. Types'
  BY Constants
     DEF IInv, Types, WhereInv, Save, Call, registry, memory, joining, work, TypeOK, Identity,
         Joining, Dispatcher
<1>2. CredInv'
  BY DEF IInv, CredInv, Save, Call, registry, memory, joining, work, Identities, Spent
<1>3. WhereInv'
  BY DEF IInv, WhereInv, WhereInv, Save, Call, registry, memory, joining, work
<1>4. FilesInv'
  BY DEF IInv, FilesInv, Save, Call, registry, memory, joining, work
<1>5. WritesInv'
  BY DEF IInv, WritesInv, Save, Call, registry, memory, joining, work, Alive
<1>6. CopiesInv'
  BY DEF IInv, CopiesInv, WritesInv, Save, Call, registry, memory, joining, work, Alive,
         Copies
<1>7. ProbeInv'
  BY DEF IInv, ProbeInv, Save, Call, registry, memory, joining, work, Nothing, Posting, Known
<1>8. NothingRunsUnseen'
  BY NothingRunsUnseenKept DEF IInv, Save, Call, registry, memory, joining, work
<1> QED BY <1>1, <1>2, <1>3, <1>4, <1>5, <1>6, <1>7, <1>8 DEF IInv

LEMMA SaveRefusedKeeps ==
    ASSUME IInv, SaveRefused
    PROVE  IInv'
<1>1. Types'
  BY Constants
     DEF IInv, Types, WhereInv, SaveRefused, Goto, registry, files, memory, joining, work,
         counts, TypeOK, Identity, Joining, Dispatcher
<1>2. WhereInv'
  BY DEF IInv, WhereInv, WhereInv, SaveRefused, Goto, registry, files, memory, joining, work,
         counts
<1>3. WritesInv'
  BY DEF IInv, Types, WritesInv, SaveRefused, Goto, registry, files, memory, joining, work,
         counts, Alive
<1>4. ProbeInv'
  BY DEF IInv, WhereInv, ProbeInv, SaveRefused, Goto, registry, files, memory, joining, work,
         counts, Nothing, Posting, Known
<1>5. CredInv' /\ FilesInv' /\ CopiesInv' /\ NothingRunsUnseen'
  BY CredKept, FilesKept, CopiesKept, NothingRunsUnseenKept
     DEF IInv, SaveRefused, Goto, registry, files, memory, joining, work, counts
<1> QED BY <1>1, <1>2, <1>3, <1>4, <1>5 DEF IInv

LEMMA RenameKeeps ==
    ASSUME IInv, Rename
    PROVE  IInv'
<1>1. Types'
  <2>1. TypeOK'
    BY Constants DEF IInv, Types, TypeOK, Rename, Goto, registry, joining, work
  <2>3. identFile' \in Identity /\ pendFile' \in Identity
    BY Constants DEF IInv, Types, Rename, Goto, registry, joining, work
  <2>8. /\ code' \in [Codes -> {"none", "open", "used", "expired"}] /\ live' \in Nat
        /\ joins' \in Nat /\ bootRow' \in Nat /\ ident' \in Identity
        /\ pcheck' \in Identity /\ join' \in Joining /\ disp' \in Dispatcher
        /\ back' \in {"top", "self", "boot", "beat", "dispatcher"} /\ up' \in BOOLEAN
        /\ stop' \in BOOLEAN /\ tiers' \in BOOLEAN /\ unsaved' \in BOOLEAN
    BY DEF IInv, Types, Rename, Goto, registry, joining, work
  <2> QED BY <2>1, <2>3, <2>8 DEF Types
<1>2. CredInv'
  BY DEF IInv, Types, CredInv, Rename, Goto, NoId, Id, registry, joining, work, Identities,
         Spent
<1>3. WhereInv'
  BY DEF IInv, WhereInv, WhereInv, Rename, Goto, registry, joining, work
<1>4. FilesInv'
  BY DEF IInv, FilesInv, Rename, Goto, registry, joining, work
<1>5. WritesInv'
  BY DEF IInv, WritesInv, Rename, Goto, registry, joining, work, Alive
<1>6. CopiesInv'
  BY DEF IInv, WhereInv, CopiesInv, WritesInv, FilesInv, Rename, Goto, registry, joining,
         work, Alive, Copies
<1>7. ProbeInv'
  BY DEF IInv, WhereInv, ProbeInv, Rename, Goto, registry, joining, work, Nothing, Posting,
         Known
<1>8. NothingRunsUnseen'
  BY NothingRunsUnseenKept DEF IInv, Rename, Goto, NoId, Id, registry, joining, work
<1> QED BY <1>1, <1>2, <1>3, <1>4, <1>5, <1>6, <1>7, <1>8 DEF IInv

LEMMA RefusedKeeps ==
    ASSUME IInv, Refused
    PROVE  IInv'
<1>1. Types'
  BY Constants
     DEF IInv, Types, WhereInv, Refused, Accepts, Goto, registry, files, joining, work,
         counts, TypeOK, Identity, Joining, Dispatcher
<1>2. WhereInv'
  BY DEF IInv, WhereInv, WhereInv, Refused, Accepts, Goto, registry, files, joining, work,
         counts
<1>3. WritesInv'
  BY DEF IInv, WritesInv, Refused, Accepts, Goto, registry, files, joining, work, counts,
         Alive
<1>4. ProbeInv'
  BY DEF IInv, ProbeInv, Refused, Accepts, Goto, registry, files, joining, work, counts,
         Nothing, Posting, Known
<1>5. CredInv' /\ FilesInv' /\ CopiesInv' /\ NothingRunsUnseen'
  BY CredKept, FilesKept, CopiesKept, NothingRunsUnseenKept
     DEF IInv, Refused, Accepts, Goto, registry, files, joining, work, counts
<1> QED BY <1>1, <1>2, <1>3, <1>4, <1>5 DEF IInv

LEMMA SelfViewKeeps ==
    ASSUME IInv, SelfView
    PROVE  IInv'
<1>1. Types'
  BY Constants
     DEF IInv, Types, WhereInv, SelfView, Accepts, Call, registry, files, memory, joining,
         work, counts, TypeOK, Identity, Joining, Dispatcher
<1>2. WhereInv'
  BY DEF IInv, WhereInv, WhereInv, SelfView, Accepts, Call, registry, files, memory, joining,
         work, counts
<1>3. WritesInv'
  BY DEF IInv, WritesInv, SelfView, Accepts, Call, registry, files, memory, joining, work,
         counts, Alive
<1>4. ProbeInv'
  BY DEF IInv, ProbeInv, SelfView, Accepts, Call, registry, files, memory, joining, work,
         counts, Nothing, Posting, Known
<1>5. CredInv' /\ FilesInv' /\ CopiesInv' /\ NothingRunsUnseen'
  BY CredKept, FilesKept, CopiesKept, NothingRunsUnseenKept
     DEF IInv, SelfView, Accepts, Call, registry, files, memory, joining, work, counts
<1> QED BY <1>1, <1>2, <1>3, <1>4, <1>5 DEF IInv

LEMMA RefreshKeeps ==
    ASSUME IInv, Refresh
    PROVE  IInv'
<1>1. Types'
  <2>1. TypeOK'
    BY Constants
       DEF IInv, Types, TypeOK, Refresh, Call, Trouble, Goto, registry, files, memory, joining
  <2>6. disp' \in Dispatcher
    BY Constants
       DEF IInv, Types, Dispatcher, Refresh, Call, Trouble, Goto, registry, files, memory,
           joining
  <2>8. /\ code' \in [Codes -> {"none", "open", "used", "expired"}] /\ live' \in Nat
        /\ joins' \in Nat /\ bootRow' \in Nat /\ identFile' \in Identity
        /\ pendFile' \in Identity /\ ident' \in Identity /\ pcheck' \in Identity
        /\ join' \in Joining
        /\ back' \in {"top", "self", "boot", "beat", "dispatcher"} /\ up' \in BOOLEAN
        /\ stop' \in BOOLEAN /\ tiers' \in BOOLEAN /\ unsaved' \in BOOLEAN
    BY DEF IInv, Types, Refresh, Call, Trouble, Goto, registry, files, memory, joining
  <2> QED BY <2>1, <2>6, <2>8 DEF Types
<1>2. WhereInv'
  BY DEF IInv, WhereInv, WhereInv, Refresh, Call, Trouble, Goto, registry, files, memory,
         joining
<1>3. WritesInv'
  BY DEF IInv, Types, WritesInv, Refresh, Call, Trouble, Goto, registry, files, memory,
         joining, Alive
<1>4. ProbeInv'
  BY DEF IInv, Types, WhereInv, ProbeInv, Refresh, Call, Trouble, Goto, registry, files,
         memory, joining, Nothing, Posting, Known, TypeOK, Identity, Joining, Dispatcher
<1>5. CredInv' /\ FilesInv' /\ CopiesInv' /\ NothingRunsUnseen'
  BY CredKept, FilesKept, CopiesKept, NothingRunsUnseenKept
     DEF IInv, Refresh, Call, Trouble, Goto, registry, files, memory, joining
<1> QED BY <1>1, <1>2, <1>3, <1>4, <1>5 DEF IInv

LEMMA PostKeeps ==
    ASSUME IInv, Post
    PROVE  IInv'
<1>1. Types'
  BY Constants
     DEF IInv, Types, WhereInv, Post, Differs, Goto, registry, Accepts, Posted, Nothing,
         Trouble, files, memory, joining, work, TypeOK, Identity, Joining, Dispatcher
<1>2. WhereInv'
  BY DEF IInv, WhereInv, WhereInv, Post, Differs, Goto, registry, Accepts, Posted, Nothing,
         Trouble, files, memory, joining, work
<1>3. WritesInv'
  BY DEF IInv, Types, WritesInv, Post, Differs, Goto, registry, Accepts, Posted, Nothing,
         Trouble, files, memory, joining, work, Alive
<1>4. ProbeInv'
  BY DEF IInv, ProbeInv, Post, Differs, Goto, registry, Accepts, Posted, Nothing, Trouble,
         files, memory, joining, work, Posting, Known
<1>5. NothingRunsUnseen'
  BY DEF IInv, NothingRunsUnseen, Post, Differs, Goto, registry, Accepts, Posted, Nothing,
         Trouble, files, memory, joining, work
<1>6. CredInv' /\ FilesInv' /\ CopiesInv'
  BY CredKept, FilesKept, CopiesKept
     DEF IInv, Post, Differs, Goto, registry, Accepts, Posted, Nothing, Trouble, files,
         memory, joining, work
<1> QED BY <1>1, <1>2, <1>3, <1>4, <1>5, <1>6 DEF IInv

LEMMA EnsureDispatcherKeeps ==
    ASSUME IInv, EnsureDispatcher
    PROVE  IInv'
<1>1. Types'
  <2>a. ident.cred \in Nat /\ NewBoot \in Nat
    BY DEF IInv, Types, Identity, NewBoot
  <2>1. TypeOK'
    BY Constants
       DEF IInv, Types, TypeOK, EnsureDispatcher, Foreign, NewBoot, Goto, registry, files,
           memory, joining, counts
  <2>6. disp' \in Dispatcher
    BY Constants, <2>a
       DEF IInv, Types, Dispatcher, EnsureDispatcher, Foreign, NewBoot, Goto, registry, files,
           memory, joining, counts
  <2>8. /\ code' \in [Codes -> {"none", "open", "used", "expired"}] /\ live' \in Nat
        /\ joins' \in Nat /\ bootRow' \in Nat /\ identFile' \in Identity
        /\ pendFile' \in Identity /\ ident' \in Identity /\ pcheck' \in Identity
        /\ join' \in Joining
        /\ back' \in {"top", "self", "boot", "beat", "dispatcher"} /\ up' \in BOOLEAN
        /\ stop' \in BOOLEAN /\ tiers' \in BOOLEAN /\ unsaved' \in BOOLEAN
    BY DEF IInv, Types, EnsureDispatcher, Foreign, NewBoot, Goto, registry, files, memory,
           joining, counts
  <2> QED BY <2>1, <2>6, <2>8 DEF Types
<1>2. WhereInv'
  BY DEF IInv, WhereInv, WhereInv, EnsureDispatcher, Foreign, NewBoot, Goto, registry, files,
         memory, joining, counts
<1>3. WritesInv'
  BY DEF IInv, WritesInv, EnsureDispatcher, Foreign, NewBoot, Goto, registry, files, memory,
         joining, counts, Alive
<1>4. ProbeInv'
  BY DEF IInv, ProbeInv, EnsureDispatcher, Foreign, NoDisp, NewBoot, Goto, registry, files,
         memory, joining, counts, Nothing, Posting, Known
<1>5. CredInv' /\ FilesInv' /\ CopiesInv' /\ NothingRunsUnseen'
  BY CredKept, FilesKept, CopiesKept, NothingRunsUnseenKept
     DEF IInv, EnsureDispatcher, Foreign, NoDisp, NewBoot, Goto, registry, files, memory,
         joining, counts
<1> QED BY <1>1, <1>2, <1>3, <1>4, <1>5 DEF IInv

LEMMA StopsJobKeeps ==
    ASSUME IInv, StopsJob
    PROVE  IInv'
<1>1. Types'
  <2>1. TypeOK'
    BY Constants
       DEF IInv, Types, TypeOK, StopsJob, Foreign, Usable, Trouble, registry, files, memory,
           loop, joining
  <2>6. disp' \in Dispatcher
    BY Constants
       DEF IInv, Types, Dispatcher, StopsJob, Foreign, Usable, Trouble, registry, files,
           memory, loop, joining
  <2>8. /\ code' \in [Codes -> {"none", "open", "used", "expired"}] /\ live' \in Nat
        /\ joins' \in Nat /\ bootRow' \in Nat /\ identFile' \in Identity
        /\ pendFile' \in Identity /\ ident' \in Identity /\ pcheck' \in Identity
        /\ join' \in Joining
        /\ back' \in {"top", "self", "boot", "beat", "dispatcher"} /\ up' \in BOOLEAN
        /\ stop' \in BOOLEAN /\ tiers' \in BOOLEAN /\ unsaved' \in BOOLEAN
    BY DEF IInv, Types, StopsJob, Foreign, Usable, Trouble, registry, files, memory, loop,
           joining
  <2> QED BY <2>1, <2>6, <2>8 DEF Types
<1>2. WhereInv'
  BY DEF IInv, WhereInv, WhereInv, StopsJob, Foreign, Usable, Trouble, registry, files,
         memory, loop, joining
<1>3. ProbeInv'
  BY DEF IInv, ProbeInv, StopsJob, Foreign, Usable, Trouble, registry, files, memory, loop,
         joining, Nothing, Posting, Known
<1>4. NothingRunsUnseen'
  BY DEF IInv, NothingRunsUnseen, StopsJob, Foreign, Usable, Trouble, registry, files, memory,
         loop, joining
<1>5. CredInv' /\ FilesInv' /\ WritesInv' /\ CopiesInv'
  BY CredKept, FilesKept, WritesKept, CopiesKept
     DEF IInv, StopsJob, Foreign, NoId, Id, Usable, Trouble, registry, files, memory, loop,
         joining
<1> QED BY <1>1, <1>2, <1>3, <1>4, <1>5 DEF IInv

LEMMA BusyKeeps ==
    ASSUME IInv, Busy
    PROVE  IInv'
<1>1. Types'
  BY Constants
     DEF IInv, Types, WhereInv, Busy, Foreign, Goto, registry, files, memory, joining, work,
         counts, TypeOK, Identity, Joining, Dispatcher
<1>2. WhereInv'
  BY DEF IInv, WhereInv, WhereInv, Busy, Foreign, Goto, registry, files, memory, joining,
         work, counts
<1>3. WritesInv'
  BY DEF IInv, WritesInv, Busy, Foreign, Goto, registry, files, memory, joining, work, counts,
         Alive
<1>4. ProbeInv'
  BY DEF IInv, ProbeInv, Busy, Foreign, Goto, registry, files, memory, joining, work, counts,
         Nothing, Posting, Known
<1>5. CredInv' /\ FilesInv' /\ CopiesInv' /\ NothingRunsUnseen'
  BY CredKept, FilesKept, CopiesKept, NothingRunsUnseenKept
     DEF IInv, Busy, Foreign, Goto, registry, files, memory, joining, work, counts
<1> QED BY <1>1, <1>2, <1>3, <1>4, <1>5 DEF IInv

LEMMA BootOnceKeeps ==
    ASSUME IInv, BootOnce
    PROVE  IInv'
<1>1. Types'
  <2>a. disp.boot \in Nat
    BY DEF IInv, Types, Dispatcher
  <2>1. TypeOK'
    BY Constants
       DEF IInv, Types, TypeOK, BootOnce, Accepts, Booted, Isolated, Goto, Trouble, files,
           memory, joining
  <2>2. /\ code' \in [Codes -> {"none", "open", "used", "expired"}]
        /\ live' \in Nat /\ joins' \in Nat /\ bootRow' \in Nat
    BY Constants, <2>a
       DEF IInv, Types, BootOnce, Accepts, Booted, Isolated, Goto, Trouble, files, memory,
           joining
  <2>6. disp' \in Dispatcher
    BY Constants
       DEF IInv, Types, Dispatcher, BootOnce, Accepts, Booted, Isolated, Goto, Trouble, files,
           memory, joining
  <2>8. /\ identFile' \in Identity /\ pendFile' \in Identity /\ ident' \in Identity
        /\ pcheck' \in Identity /\ join' \in Joining
        /\ back' \in {"top", "self", "boot", "beat", "dispatcher"} /\ up' \in BOOLEAN
        /\ stop' \in BOOLEAN /\ tiers' \in BOOLEAN /\ unsaved' \in BOOLEAN
    BY DEF IInv, Types, BootOnce, Accepts, Booted, Isolated, Goto, Trouble, files, memory,
           joining
  <2> QED BY <2>1, <2>2, <2>6, <2>8 DEF Types
<1>2. WhereInv'
  BY DEF IInv, WhereInv, WhereInv, BootOnce, Accepts, Booted, Isolated, Goto, Trouble, files,
         memory, joining
<1>3. WritesInv'
  BY DEF IInv, WritesInv, BootOnce, Accepts, Booted, Isolated, Goto, Trouble, files, memory,
         joining, Alive
<1>4. ProbeInv'
  BY DEF IInv, Types, ProbeInv, BootOnce, Accepts, Booted, Isolated, Goto, Trouble, files,
         memory, joining, Nothing, Posting, Known, TypeOK, Identity, Joining, Dispatcher
<1>5. NothingRunsUnseen'
  BY DEF IInv, NothingRunsUnseen, BootOnce, Accepts, Booted, Isolated, Goto, Trouble, files,
         memory, joining
<1>6. CredInv' /\ FilesInv' /\ CopiesInv'
  BY CredKept, FilesKept, CopiesKept
     DEF IInv, BootOnce, Accepts, Booted, Isolated, Goto, Trouble, files, memory, joining
<1> QED BY <1>1, <1>2, <1>3, <1>4, <1>5, <1>6 DEF IInv

LEMMA BeatKeeps ==
    ASSUME IInv, Beat
    PROVE  IInv'
<1>1. Types'
  BY Constants
     DEF IInv, Types, WhereInv, Beat, Accepts, Call, Goto, registry, files, memory, joining,
         counts, TypeOK, Identity, Joining, Dispatcher
<1>2. WhereInv'
  BY DEF IInv, WhereInv, WhereInv, Beat, Accepts, Call, Goto, registry, files, memory,
         joining, counts
<1>3. WritesInv'
  BY DEF IInv, WritesInv, Beat, Accepts, Call, Goto, registry, files, memory, joining, counts,
         Alive
<1>4. ProbeInv'
  BY DEF IInv, ProbeInv, Beat, Accepts, Call, Goto, registry, files, memory, joining, counts,
         Nothing, Posting, Known
<1>5. CredInv' /\ FilesInv' /\ CopiesInv' /\ NothingRunsUnseen'
  BY CredKept, FilesKept, CopiesKept, NothingRunsUnseenKept
     DEF IInv, Beat, Accepts, Call, Goto, registry, files, memory, joining, counts
<1> QED BY <1>1, <1>2, <1>3, <1>4, <1>5 DEF IInv

LEMMA BeatProbesKeeps ==
    ASSUME IInv, BeatProbes
    PROVE  IInv'
<1>1. Types'
  BY Constants
     DEF IInv, Types, WhereInv, BeatProbes, Call, registry, files, memory, joining, work,
         counts, TypeOK, Identity, Joining, Dispatcher
<1>2. WhereInv'
  BY DEF IInv, WhereInv, WhereInv, BeatProbes, Call, registry, files, memory, joining, work,
         counts
<1>3. WritesInv'
  BY DEF IInv, WritesInv, BeatProbes, Call, registry, files, memory, joining, work, counts,
         Alive
<1>4. ProbeInv'
  BY DEF IInv, ProbeInv, BeatProbes, Call, registry, files, memory, joining, work, counts,
         Nothing, Posting, Known
<1>5. CredInv' /\ FilesInv' /\ CopiesInv' /\ NothingRunsUnseen'
  BY CredKept, FilesKept, CopiesKept, NothingRunsUnseenKept
     DEF IInv, BeatProbes, Call, registry, files, memory, joining, work, counts
<1> QED BY <1>1, <1>2, <1>3, <1>4, <1>5 DEF IInv

-----------------------------------------------------------------------------
(* The dispatcher.                                                         *)

LEMMA SetPausedKeeps ==
    ASSUME IInv, SetPaused
    PROVE  IInv'
<1>1. Types'
  BY Constants
     DEF IInv, Types, WhereInv, SetPaused, Differs, registry, files, memory, loop, joining,
         TypeOK, Identity, Joining, Dispatcher
<1>2. WhereInv'
  BY DEF IInv, WhereInv, WhereInv, SetPaused, Differs, registry, files, memory, loop, joining
<1>3. FilesInv'
  BY DEF IInv, FilesInv, SetPaused, Differs, registry, files, memory, loop, joining
<1>4. WritesInv'
  BY DEF IInv, WritesInv, SetPaused, Differs, registry, files, memory, loop, joining, Alive
<1>5. CopiesInv'
  BY DEF IInv, CopiesInv, SetPaused, Differs, registry, files, memory, loop, joining, Alive,
         Copies
<1>6. ProbeInv'
  BY DEF IInv, ProbeInv, SetPaused, Differs, registry, files, memory, loop, joining, Nothing,
         Posting, Known
<1>7. CredInv' /\ NothingRunsUnseen'
  BY CredKept, NothingRunsUnseenKept
     DEF IInv, SetPaused, Differs, registry, files, memory, loop, joining
<1> QED BY <1>1, <1>2, <1>3, <1>4, <1>5, <1>6, <1>7 DEF IInv

LEMMA ClaimKeeps ==
    ASSUME IInv, Claim
    PROVE  IInv'
<1>1. Types'
  BY Constants
     DEF IInv, Types, WhereInv, Claim, MayClaim, Accepts, Nothing, Claimed, files, memory,
         loop, joining, counts, TypeOK, Identity, Joining, Dispatcher
<1>2. NothingRunsUnseen'
  BY DEF IInv, NothingRunsUnseen, Claim, MayClaim, Accepts, Nothing, Claimed, files, memory,
         loop, joining, counts
<1>3. CredInv' /\ WhereInv' /\ FilesInv' /\ WritesInv' /\ CopiesInv' /\ ProbeInv'
  BY CredKept, WhereKept, FilesKept, WritesKept, CopiesKept, ProbeKept
     DEF IInv, Claim, MayClaim, Accepts, Nothing, Claimed, files, memory, loop, joining,
         counts
<1> QED BY <1>1, <1>2, <1>3 DEF IInv

LEMMA FinishKeeps ==
    ASSUME IInv, Finish
    PROVE  IInv'
<1>1. Types'
  BY Constants
     DEF IInv, Types, WhereInv, Finish, Accepts, Resolved, registry, files, memory, loop,
         joining, counts, TypeOK, Identity, Joining, Dispatcher
<1>2. NothingRunsUnseen'
  BY DEF IInv, NothingRunsUnseen, Finish, Accepts, Resolved, registry, files, memory, loop,
         joining, counts
<1>3. CredInv' /\ WhereInv' /\ FilesInv' /\ WritesInv' /\ CopiesInv' /\ ProbeInv'
  BY CredKept, WhereKept, FilesKept, WritesKept, CopiesKept, ProbeKept
     DEF IInv, Finish, Accepts, Resolved, registry, files, memory, loop, joining, counts
<1> QED BY <1>1, <1>2, <1>3 DEF IInv

LEMMA UnstickKeeps ==
    ASSUME IInv, Unstick
    PROVE  IInv'
<1>1. Types'
  BY Constants
     DEF IInv, Types, WhereInv, Unstick, registry, files, memory, loop, joining, counts,
         TypeOK, Identity, Joining, Dispatcher
<1>2. NothingRunsUnseen'
  BY DEF IInv, NothingRunsUnseen, Unstick, registry, files, memory, loop, joining, counts
<1>3. CredInv' /\ WhereInv' /\ FilesInv' /\ WritesInv' /\ CopiesInv' /\ ProbeInv'
  BY CredKept, WhereKept, FilesKept, WritesKept, CopiesKept, ProbeKept
     DEF IInv, Unstick, registry, files, memory, loop, joining, counts
<1> QED BY <1>1, <1>2, <1>3 DEF IInv

LEMMA AttestKeeps ==
    ASSUME IInv, Attest
    PROVE  IInv'
<1>1. Types'
  BY Constants
     DEF IInv, Types, WhereInv, Attest, Resolved, files, memory, loop, joining, work, counts,
         TypeOK, Identity, Joining, Dispatcher
<1>2. NothingRunsUnseen'
  BY DEF IInv, NothingRunsUnseen, Attest, Resolved, files, memory, loop, joining, work, counts
<1>3. CredInv' /\ WhereInv' /\ FilesInv' /\ WritesInv' /\ CopiesInv' /\ ProbeInv'
  BY CredKept, WhereKept, FilesKept, WritesKept, CopiesKept, ProbeKept
     DEF IInv, Attest, Resolved, files, memory, loop, joining, work, counts
<1> QED BY <1>1, <1>2, <1>3 DEF IInv

-----------------------------------------------------------------------------
(* The theorems.                                                           *)

\* Every step keeps the invariant.
LEMMA Step ==
    ASSUME IInv, [Next]_vars
    PROVE  IInv'
<1>1. CASE Operator
  <2>1. Elsewhere
    BY <1>1 DEF Operator
  <2>2. ASSUME NEW k \in Codes, AddDevice(k) PROVE IInv'
    BY <2>1, <2>2, AddDeviceKeeps
  <2>3. ASSUME NEW k \in Codes, Repair(k) PROVE IInv'
    BY <2>1, <2>3, RepairKeeps
  <2>4. CASE Approve
    BY <2>1, <2>4, ApproveKeeps
  <2>5. CASE Enable
    BY <2>1, <2>5, EnableKeeps
  <2>6. CASE SetAdmission("enabled")
    BY <2>1, <2>6, SetAdmissionKeeps
  <2>7. CASE Revoke
    BY <2>1, <2>7, RevokeKeeps
  <2>8. CASE Retire
    BY <2>1, <2>8, RetireKeeps
  <2> QED BY <1>1, <2>2, <2>3, <2>4, <2>5, <2>6, <2>7, <2>8 DEF Operator
<1>2. CASE OperatorSlows
  <2>1. Elsewhere
    BY <1>2 DEF OperatorSlows
  <2>2. ASSUME NEW k \in Codes, Expire(k) PROVE IInv'
    BY <2>1, <2>2, ExpireKeeps
  <2>3. CASE SetAdmission("draining")
    BY <2>1, <2>3, SetAdmissionKeeps
  <2> QED BY <1>2, <2>2, <2>3 DEF OperatorSlows
<1>3. CASE JoinStep
  <2>1. CASE JoinAsks
    BY <2>1, JoinAsksKeeps
  <2>2. CASE JoinHalts
    BY <2>2, JoinHaltsKeeps
  <2>3. CASE PairLands
    BY <2>3, PairLandsKeeps
  <2>4. CASE PairRefused
    BY <2>4, PairRefusedKeeps
  <2>5. CASE JoinProves
    BY <2>5, JoinProvesKeeps
  <2>6. CASE JoinFails
    BY <2>6, JoinFailsKeeps
  <2>7. CASE JoinAdopts
    BY <2>7, JoinAdoptsKeeps
  <2> QED BY <1>3, <2>1, <2>2, <2>3, <2>4, <2>5, <2>6, <2>7 DEF JoinStep
<1>4. CASE LoopStep
  <2>1. CASE LoopEnds
    BY <2>1, LoopEndsKeeps
  <2>2. CASE Unjoined
    BY <2>2, UnjoinedKeeps
  <2>3. CASE Revoked
    BY <2>3, RevokedKeeps
  <2>4. CASE Session
    BY <2>4, SessionKeeps
  <2>5. CASE PendingConfirmed
    BY <2>5, PendingConfirmedKeeps
  <2>6. CASE PendingRefused
    BY <2>6, PendingRefusedKeeps
  <2>7. CASE Unlink
    BY <2>7, UnlinkKeeps
  <2>8. CASE Save
    BY <2>8, SaveKeeps
  <2>9. CASE Rename
    BY <2>9, RenameKeeps
  <2>10. CASE Refused
    BY <2>10, RefusedKeeps
  <2>11. CASE SelfView
    BY <2>11, SelfViewKeeps
  <2>12. CASE Refresh
    BY <2>12, RefreshKeeps
  <2>13. CASE Post
    BY <2>13, PostKeeps
  <2>14. CASE EnsureDispatcher
    BY <2>14, EnsureDispatcherKeeps
  <2>15. CASE StopsJob
    BY <2>15, StopsJobKeeps
  <2>16. CASE Busy
    BY <2>16, BusyKeeps
  <2>17. CASE BootOnce
    BY <2>17, BootOnceKeeps
  <2>18. CASE Beat
    BY <2>18, BeatKeeps
  <2> QED BY <1>4, <2>1, <2>2, <2>3, <2>4, <2>5, <2>6, <2>7, <2>8, <2>9, <2>10, <2>11, <2>12,
             <2>13, <2>14, <2>15, <2>16, <2>17, <2>18
      DEF LoopStep
<1>5. ASSUME NEW k \in Codes, Join(k) PROVE IInv'
  BY <1>5, JoinKeeps
<1>6. CASE JoinGivesUp
  BY <1>6, JoinGivesUpKeeps
<1>7. CASE PairUnsent
  BY <1>7, PairUnsentKeeps
<1>8. CASE Stop
  BY <1>8, StopKeeps
<1>9. CASE Down
  BY <1>9, DownKeeps
<1>10. CASE Crash
  BY <1>10, CrashKeeps
<1>11. CASE Start
  BY <1>11, StartKeeps
<1>12. CASE SaveRefused
  BY <1>12, SaveRefusedKeeps
<1>13. CASE BeatProbes
  BY <1>13, BeatProbesKeeps
<1>14. CASE SetPaused
  BY <1>14, SetPausedKeeps
<1>15. CASE Claim
  BY <1>15, ClaimKeeps
<1>16. CASE Finish
  BY <1>16, FinishKeeps
<1>17. CASE Unstick
  BY <1>17, UnstickKeeps
<1>18. CASE Attest
  BY <1>18, AttestKeeps
<1>19. CASE UNCHANGED vars
  BY <1>19, TypesKept, CredKept, WhereKept, FilesKept, WritesKept, CopiesKept, ProbeKept,
     NothingRunsUnseenKept
     DEF IInv, vars, registry, files, memory, loop, joining, work, counts
<1> QED BY <1>1, <1>2, <1>3, <1>4, <1>5, <1>6, <1>7, <1>8, <1>9, <1>10, <1>11, <1>12, <1>13,
           <1>14, <1>15, <1>16, <1>17, <1>18, <1>19
    DEF Next

LEMMA Begin == Init => IInv
<1> SUFFICES ASSUME Init PROVE IInv
  OBVIOUS
<1>1. Types
  BY Constants DEF Init, RegistryInit, Types, TypeOK
<1>2. Identities = {NoId}
  BY DEF Init, NoJoin, Identities
<1>3. CredInv
  BY <1>2 DEF Init, RegistryInit, CredInv, NoId, Id
<1>4. WhereInv /\ FilesInv /\ WritesInv /\ CopiesInv
  BY DEF Init, RegistryInit, WhereInv, FilesInv, WritesInv, CopiesInv, Alive, NoJoin
<1>5. ProbeInv /\ NothingRunsUnseen
  BY DEF Init, RegistryInit, ProbeInv, Posting, NothingRunsUnseen, NoDisp
<1> QED BY <1>1, <1>3, <1>4, <1>5 DEF IInv

\* The inductive invariant, for all values of the constants.
THEOREM Invariance == Spec => []IInv
<1>1. Init => IInv
  BY Begin
<1>2. IInv /\ [Next]_vars => IInv'
  BY Step
<1> QED BY <1>1, <1>2, PTL DEF Spec

\* Whatever is lost on the way, the worker still has the credential that the
\* controller has in force, on disk and in the running process (_join, _promote,
\* _check_pending).
THEOREM HasItsKey == Spec => []KeyKept
<1>1. IInv => KeyKept
  BY DEF IInv, Types, CopiesInv, KeyKept, TypeOK
<1> QED BY <1>1, Invariance, PTL

\* While processes of the worker's attempt run, the controller has it assigned
\* (_ensure_dispatcher, record_boot, retire_worker).
THEOREM Seen == Spec => []NothingRunsUnseen
<1>1. IInv => NothingRunsUnseen
  BY DEF IInv
<1> QED BY <1>1, Invariance, PTL

\* A claim is the only step that opens an assignment.
LEMMA OnlyClaims ==
    ASSUME [Next]_vars, asg = "none", asg' = "open"
    PROVE  Claim
<1>1. ~Revoke /\ ~(\E b, g : Booted(b, g)) /\ ~Resolved /\ ~(UNCHANGED asg)
  BY DEF Revoke, Isolated, Booted, Resolved
<1>2. ~Operator /\ ~OperatorSlows /\ ~JoinStep
  BY <1>1
     DEF Operator, OperatorSlows, JoinStep, AddDevice, Repair, Approve, Enable, SetAdmission,
         Retire, Expire, JoinAsks, JoinHalts, PairLands, Paired, PairRefused, JoinProves,
         JoinFails, JoinAdopts, registry
<1>3. ~LoopStep
  BY <1>1
     DEF LoopStep, LoopEnds, Unjoined, Revoked, Session, PendingConfirmed, PendingRefused,
         Unlink, Save, Rename, Refused, SelfView, Refresh, Post, Posted, EnsureDispatcher,
         StopsJob, Busy, BootOnce, Beat, registry
<1>4. ~(\E k \in Codes : Join(k)) /\ ~UNCHANGED vars
  BY <1>1 DEF Join, registry, vars
<1> QED
  BY <1>1, <1>2, <1>3, <1>4
     DEF Next, JoinGivesUp, PairUnsent, Stop, Down, Crash, Start, SaveRefused, BeatProbes,
         SetPaused, Finish, Unstick, Attest, registry

\* Only what the operator approved claims work, unless set_paused handed the
\* dispatcher a probe that was not posted yet (_refresh, _check_worker_claim).
THEOREM Approved == Spec => ClaimsApproved
<1>1. ASSUME IInv, [Next]_vars, asg = "none", asg' = "open", "toggled" \notin slip
      PROVE  approved = hw
  <2>1. Claim
    BY <1>1, OnlyClaims
  <2>2. disp.tiers /\ approved # Nothing /\ admission = "enabled"
    BY <2>1 DEF Claim, MayClaim
  <2> QED BY <1>1, <2>2 DEF IInv, ProbeInv, Known
<1>2. IInv /\ [Next]_vars =>
      [asg = "none" /\ asg' = "open" /\ "toggled" \notin slip => approved = hw]_vars
  BY <1>1
<1> QED BY <1>2, Invariance, PTL DEF Spec, ClaimsApproved

-----------------------------------------------------------------------------
(* Running a stage (RemoteAttempt).                                        *)

BootMsg == [kind : {"boot"}, boot : R!Boots, live : BOOLEAN, alive : SUBSET (R!Attempts \cup {0}),
            show : SUBSET R!Attempts, blind : BOOLEAN]
ClaimMsg == [kind : {"claim"}, a : R!Attempts, boot : R!Boots, base : Nat, live : BOOLEAN]
FinishMsg == [kind : {"finish"}, a : R!Attempts,
              out : {"ok", "bad", "failed", "cancelled"}, live : BOOLEAN]
Message == BootMsg \cup ClaimMsg \cup FinishMsg
Running == [at : {"idle", "claiming", "claimed", "running", "settling", "unsaved", "deliver",
                  "finishing"},
            a : 0 .. MaxAttempt, out : {"none", "ok", "failed", "cancelled"}]
Reply == [ok : BOOLEAN, held : SUBSET (R!Attempts \cup {0}), gone : SUBSET R!Attempts,
          finish : SUBSET R!Attempts, some : BOOLEAN]

\* One attempt at a time is open, the current one, and only a stage that runs or is
\* in doubt has one.
StoreInv ==
    /\ stage \in {"pending", "running", "unknown", "failed", "succeeded"}
    /\ cur \in 0 .. MaxAttempt
    /\ attempts \in [R!Attempts -> {"none", "running", "unknown", "resolved"}]
    /\ end \in [R!Attempts -> {"none", "succeeded", "failed", "cancelled", "interrupted",
                             "attested"}]
    /\ from \in [R!Attempts -> R!Boots]
    /\ R!Open \subseteq {cur} /\ (stage \in {"running", "unknown"} <=> R!Open # {})

\* Every boot but the present one was ended by a fault.
CountInv ==
    /\ made \in 0 .. MaxAttempt /\ faults \in 0 .. MaxFault
    /\ wboot \in R!Boots /\ beat \in R!Boots /\ boot \in R!Boots /\ boots \in R!Boots
    /\ boots <= faults + (IF boot = 0 THEN 0 ELSE 1)

FlagInv == reconciled \in BOOLEAN /\ trusted \in BOOLEAN /\ holding \in BOOLEAN

SetInv ==
    /\ child \subseteq R!Attempts /\ requeued \subseteq R!Attempts /\ held \subseteq R!Attempts
    /\ queue \subseteq R!Attempts /\ cancelled \subseteq R!Attempts /\ doomed \subseteq R!Attempts
    /\ misread \subseteq R!Attempts

FileInv ==
    /\ file \in [R!Attempts -> {"none", "open", "ok", "failed", "cancelled", "refused"}]
    /\ results \in [R!Attempts -> {"none", "good", "bad", "lost"}]

PlaceInv ==
    /\ sess \in {"down", "recover", "collect", "boot", "posted", "beat"}
    /\ run \in Running

ReplyInv == answer \in Reply

NetInv == net \subseteq Message

\* What was not made yet is nowhere.
FreshInv ==
    \A a \in R!Attempts : a > made =>
        /\ attempts[a] = "none" /\ file[a] = "none" /\ results[a] = "none" /\ a \notin child
        /\ a \notin doomed /\ a \notin answer.gone

\* Nothing names an attempt or a boot yet to come.
OrderInv ==
    /\ \A m \in net : m.kind \in {"claim", "finish"} => m.a <= made
    /\ \A m \in net : m.kind \in {"boot", "claim"} => m.boot <= boots
    /\ run.a <= made /\ cur <= made
    /\ \A a \in R!Attempts : from[a] <= boots
    /\ boot \in {0, boots}

\* Where the worker's threads are.
ThreadInv ==
    /\ boot = 0 <=> sess = "down"
    /\ run.at = "idle" <=> run = R!Idle
    /\ boot = 0 => run = R!Idle /\ queue = {} /\ ~trusted
    /\ run.at # "idle" => run.a \in R!Attempts
    /\ run.at \in {"claiming", "claimed", "running"} <=> (run.at # "idle" /\ run.out = "none")
    /\ sess \notin {"collect", "posted"} => answer = R!NoReply
    /\ sess = "collect" => ~answer.some /\ answer.finish = {}
    /\ sess = "posted" => answer.held \subseteq R!Attempts /\ (answer.some \/ answer = R!NoReply)

\* The attempt in hand was admitted in this boot, and unless it was misread only the
\* operator may have resolved it before its end; what is over has no process, and a
\* result is a success.
Begun(a) == attempts[a] # "none"
Excused(a) == attempts[a] = "resolved" => end[a] = "attested" \/ a \in misread
Own(a) == Begun(a) /\ from[a] = boot /\ Excused(a)
Launching(a) == run.a = a /\ run.at \in {"claiming", "claimed", "running"}
HandInv ==
    /\ run.at = "claiming" => run.a \notin child /\ results[run.a] = "none"
                               /\ (Begun(run.a) => Own(run.a))
    /\ run.at = "claimed" => run.a \notin child /\ results[run.a] = "none" /\ Own(run.a)
    /\ run.at = "running" => results[run.a] = "none" /\ Own(run.a)
                              /\ (run.a \in R!Open => file[run.a] = "open" \/ run.a \in misread)
    /\ run.at = "settling" => Own(run.a)
    /\ run.at \in {"unsaved", "deliver", "finishing"} => run.a \notin child /\ Begun(run.a)
    /\ run.at \in {"settling", "unsaved", "deliver", "finishing"} /\ results[run.a] = "good"
         => run.out = "ok"

\* What is on disk or runs was admitted; a record with an outcome is about no process.
DiskInv ==
    /\ \A a \in R!Attempts : a \in child \/ results[a] # "none" => Begun(a)
    /\ \A a \in child : a \in R!Open => file[a] = "open" \/ a \in misread
    /\ \A a \in R!Attempts : file[a] \in {"ok", "failed", "cancelled", "refused"} =>
        Begun(a) /\ a \notin child /\ ~Launching(a) /\ (results[a] = "good" => file[a] = "ok")

\* What the controller's answer lets go is over.
GoneInv == sess = "posted" => \A a \in answer.gone : attempts[a] = "resolved"

\* A boot request that somebody waits for is of this boot.
CallInv ==
    \A m \in net : m.kind = "boot" /\ m.live => m.boot = boot /\ sess = "posted" /\ ~answer.some

\* Of the attempts of earlier boots a boot request names what lives and what is there,
\* but for what was misread.
Named(m, a) ==
    /\ a \in child => a \in m.alive \/ (a \notin m.show /\ (m.blind \/ a \in misread))
    /\ results[a] = "good" => a \in m.alive \/ a \in m.show \/ m.blind \/ a \in misread
BootInv ==
    \A m \in net : m.kind = "boot" => \A a \in R!Open : from[a] < m.boot => Named(m, a)

\* A claim of the attempt in hand is of this boot; who waits for one waits for its own.
ClaimInv ==
    \A m \in net : m.kind = "claim" =>
        /\ m.live => run.at = "claiming" /\ m.a = run.a
        /\ run.at = "claiming" /\ m.a = run.a => m.boot = boot

\* What is reported as finished is over.
FinishInv ==
    \A m \in net : m.kind = "finish" =>
        /\ Begun(m.a) /\ m.a \notin child /\ ~Launching(m.a)
        /\ ~(run.a = m.a /\ run.at = "settling")
        /\ results[m.a] = "good" => m.out = "ok"
        /\ m.live => run.at = "finishing" /\ m.a = run.a

\* Nobody waits for two requests of a kind.
OneCall == \A m, n \in net : m.live /\ n.live /\ m.kind = n.kind => m = n

\* The verdicts of the controller's answer are about earlier boots.
AnswerInv ==
    /\ sess = "posted" => \A a \in answer.gone : from[a] # boot
    /\ \A a \in answer.finish : Begun(a) /\ from[a] # boot /\ a \notin child

EndsInv == R!StoppedUnlessMisread /\ R!FinishedWorkKept

RInv == StoreInv /\ CountInv /\ FlagInv /\ SetInv /\ FileInv /\ PlaceInv /\ ReplyInv
        /\ NetInv /\ FreshInv /\ OrderInv /\ ThreadInv /\ HandInv /\ DiskInv /\ GoneInv
        /\ CallInv /\ BootInv /\ ClaimInv /\ FinishInv /\ OneCall /\ AnswerInv /\ EndsInv

LEMMA TypesOk ==
    ASSUME StoreInv, CountInv, FlagInv, SetInv, FileInv, PlaceInv
    PROVE  R!TypeOK
<1>1. /\ \A A \in {child, requeued, held, queue, cancelled, doomed} : A \subseteq R!Attempts
      /\ misread \subseteq R!Attempts
  BY DEF SetInv
<1>2. {wboot, beat, boot, boots} \subseteq R!Boots
      /\ {reconciled, trusted, holding} \subseteq BOOLEAN
  BY DEF CountInv, FlagInv
<1> QED
  BY <1>1, <1>2 DEF R!TypeOK, StoreInv, CountInv, FileInv, PlaceInv, Running

LEMMA Kinds ==
    ASSUME NEW m \in Message
    PROVE  /\ m.kind \in {"boot", "claim", "finish"} /\ m.live \in BOOLEAN
           /\ m.kind = "boot" => m \in BootMsg /\ m.boot \in R!Boots
           /\ m.kind = "claim" => m \in ClaimMsg /\ m.a \in R!Attempts /\ m.boot \in R!Boots
           /\ m.kind = "finish" => m \in FinishMsg /\ m.a \in R!Attempts
                                    /\ m.out \in {"ok", "bad", "failed", "cancelled"}
BY DEF Message, BootMsg, ClaimMsg, FinishMsg

LEMMA Idles == R!Idle \in Running /\ R!Idle.at = "idle" /\ R!Idle.a = 0 /\ R!Idle.out = "none"
BY AttemptAssumption DEF R!Idle, Running

LEMMA NoReplies == /\ R!NoReply \in Reply /\ ~R!NoReply.some /\ R!NoReply.gone = {}
                   /\ R!NoReply.finish = {} /\ R!NoReply.held = {}
BY DEF R!NoReply, Reply

LEMMA Replies ==
    ASSUME NEW ok \in BOOLEAN, NEW some \in BOOLEAN, NEW h \in SUBSET (R!Attempts \cup {0}),
           NEW g \in SUBSET R!Attempts, NEW f \in SUBSET R!Attempts
    PROVE  [ok |-> ok, held |-> h, gone |-> g, finish |-> f, some |-> some] \in Reply
BY DEF Reply

\* Collecting records loses no result of an attempt that is not misread.
LEMMA Collects ==
    ASSUME FileInv, NEW A, NEW U, R!Collect(A, U), A \subseteq R!Attempts,
           misread \subseteq R!Attempts
    PROVE  /\ results' \in [R!Attempts -> {"none", "good", "bad", "lost"}]
           /\ \A a \in R!Attempts : results'[a] # results[a] =>
                results[a] # "none" /\ results'[a] = "lost" /\ a \in misread'
           /\ file' \in [R!Attempts -> {"none", "open", "ok", "failed", "cancelled", "refused"}]
           /\ \A a \in R!Attempts : file'[a] # file[a] =>
                file'[a] = "none" /\ (a \in R!Open => a \in misread')
           /\ doomed' \subseteq doomed \cup A /\ cancelled' \subseteq cancelled
           /\ held' \subseteq held
           /\ misread \subseteq misread' /\ misread' \subseteq R!Attempts
<1>1. CASE U = {}
  <2>1. /\ file' = [a \in R!Attempts |-> IF a \in A \cap R!Listed THEN "none" ELSE file[a]]
        /\ results' = [a \in R!Attempts |-> IF a \in A \cap R!Open /\ results[a] # "none"
                                            THEN "lost" ELSE results[a]]
        /\ doomed' = doomed \ A /\ cancelled' = cancelled \ A /\ held' = held \ A
        /\ misread' = misread \cup (A \cap R!Open)
    BY <1>1 DEF R!Collect
  <2> QED
    BY <2>1 DEF FileInv
<1>2. CASE U # {}
  BY <1>2 DEF R!Collect, FileInv
<1> QED
  BY <1>1, <1>2

\* What a boot interrupts has no process and no finished work, or is misread.
LEMMA Verdicts ==
    ASSUME StoreInv, CountInv, SetInv, NetInv, OrderInv, BootInv, NEW m \in net,
           m.kind = "boot", R!SettleBoot(m)
    PROVE  /\ \A a \in R!Interrupted(m) :
                a \in R!Open /\ from[a] # m.boot
                /\ (a \in misread' \/ (a \notin child /\ results[a] # "good"))
           /\ \A a \in R!Interrupted(m) : from[a] = boot /\ boot # 0 => a \in misread'
           /\ \A a \in R!Finish(m) :
                a \in R!Open /\ from[a] # m.boot /\ (from[a] < m.boot => a \notin child)
           /\ R!Interrupted(m) \subseteq R!Open /\ R!Finish(m) \subseteq R!Open
           /\ R!Held(m) \subseteq R!Open /\ R!Open \subseteq R!Attempts
           /\ misread \subseteq misread' /\ misread' \subseteq R!Attempts
<1>1. m.boot \in Nat /\ m.boot <= boots /\ boots \in Nat /\ boot \in {0, boots}
  BY Kinds DEF OrderInv, NetInv, R!Boots, CountInv
<1>2. \A a \in R!Open : a \in R!Attempts /\ from[a] \in Nat /\ from[a] <= boots
  BY DEF R!Open, StoreInv, OrderInv, R!Boots
<1>3. \A a \in R!Open : from[a] < m.boot => Named(m, a)
  BY DEF BootInv
<1>4. \A a \in R!Earlier(m) : a \in R!Open /\ from[a] # m.boot
  BY DEF R!Earlier
<1>5. misread' = misread \cup {a \in R!Interrupted(m) : from[a] > m.boot}
  BY DEF R!SettleBoot
<1>6. \A a \in R!Interrupted(m) : /\ a \in R!Earlier(m) /\ a \notin m.alive
                                   /\ (m.blind => a \in m.show) /\ (a \in m.show => FALSE)
  BY DEF R!Interrupted, R!Held, R!Finish
<1>7. \A a \in R!Finish(m) : a \in R!Earlier(m) /\ a \notin m.alive /\ a \in m.show
  BY DEF R!Finish
<1>8. ASSUME NEW a \in R!Interrupted(m)
      PROVE  /\ a \in R!Open /\ from[a] # m.boot
             /\ a \in misread' \/ (a \notin child /\ results[a] # "good")
             /\ from[a] = boot /\ boot # 0 => a \in misread'
  <2>1. a \in R!Open /\ from[a] # m.boot /\ from[a] \in Nat /\ from[a] <= boots
    BY <1>2, <1>4, <1>6
  <2>2. CASE from[a] > m.boot
    BY <1>5, <2>1, <2>2
  <2>3. CASE from[a] < m.boot
    <3>1. Named(m, a)
      BY <1>3, <2>1, <2>3
    <3>2. a \in misread \/ (a \notin child /\ results[a] # "good")
      BY <1>6, <3>1 DEF Named
    <3>3. boot # 0 => from[a] # boot
      BY <1>1, <2>1, <2>3
    <3> QED BY <1>5, <2>1, <3>2, <3>3
  <2> QED BY <1>1, <2>1, <2>2, <2>3
<1>9. \A a \in R!Finish(m) :
          a \in R!Open /\ from[a] # m.boot /\ (from[a] < m.boot => a \notin child)
  BY <1>3, <1>4, <1>7 DEF Named
<1>10. /\ R!Interrupted(m) \subseteq R!Open /\ R!Finish(m) \subseteq R!Open
       /\ R!Held(m) \subseteq R!Open /\ R!Open \subseteq R!Attempts
  BY DEF R!Interrupted, R!Finish, R!Held, R!Earlier, R!Open
<1>11. misread \subseteq misread' /\ misread' \subseteq R!Attempts
  BY <1>5, <1>10 DEF SetInv
<1> QED
  BY <1>8, <1>9, <1>10, <1>11

LEMMA Settles ==
    ASSUME StoreInv, NEW m, R!SettleBoot(m)
    PROVE  /\ StoreInv'
           /\ R!Open' = R!Open \ R!Interrupted(m) /\ from' = from /\ cur' = cur
           /\ wboot' = m.boot /\ reconciled' \in BOOLEAN
           /\ \A a \in R!Attempts : a \notin R!Open => attempts'[a] = attempts[a]
           /\ \A a \in R!Attempts : a \notin R!Interrupted(m) => end'[a] = end[a]
           /\ \A a \in R!Attempts : attempts'[a] = "resolved" <=>
                                    (attempts[a] = "resolved" \/ a \in R!Interrupted(m))
           /\ \A a \in R!Attempts : Begun(a)' <=> Begun(a)
<1> DEFINE gone == R!Interrupted(m)
<1>1. gone \subseteq R!Open /\ R!Open \subseteq R!Attempts
  BY DEF R!Interrupted, R!Earlier, R!Open
<1>2. /\ \A a \in R!Attempts : attempts'[a] = IF a \in gone THEN "resolved"
                                 ELSE IF wboot # m.boot
                                       /\ a \in R!Open THEN "unknown" ELSE attempts[a]
      /\ \A a \in R!Attempts : end'[a] = IF a \in gone THEN "interrupted" ELSE end[a]
      /\ stage' = IF gone # {} THEN "failed"
                  ELSE IF wboot # m.boot /\ R!Open # {} THEN "unknown" ELSE stage
      /\ attempts' \in [R!Attempts -> {"none", "running", "unknown", "resolved"}]
      /\ end' \in [R!Attempts -> {"none", "succeeded", "failed", "cancelled", "interrupted",
                             "attested"}]
      /\ wboot' = m.boot /\ reconciled' \in BOOLEAN /\ from' = from /\ cur' = cur
  BY DEF R!SettleBoot, StoreInv
<1>3. \A a \in R!Attempts : /\ a \in R!Open' <=> a \in R!Open \ gone
                            /\ Begun(a)' <=> Begun(a)
                            /\ attempts'[a] = "resolved" <=> (attempts[a] = "resolved"
                                  \/ a \in gone)
  BY <1>1, <1>2 DEF R!Open, Begun, StoreInv
<1>4. R!Open' = R!Open \ gone
  BY <1>1, <1>3 DEF R!Open
<1>5. R!Open' \subseteq {cur'} /\ (stage' \in {"running", "unknown"} <=> R!Open' # {})
  <2>0. R!Open \subseteq {cur} /\ (stage \in {"running", "unknown"} <=> R!Open # {})
    BY DEF StoreInv
  <2>1. CASE gone = {}
    BY <1>2, <1>4, <2>0, <2>1
  <2>2. CASE gone # {}
    <3>1. gone = R!Open
      BY <1>1, <2>0, <2>2
    <3> QED BY <1>2, <1>4, <2>2, <3>1
  <2> QED BY <2>1, <2>2
<1>6. stage' \in {"pending", "running", "unknown", "failed", "succeeded"}
  BY <1>2 DEF StoreInv
<1>7. StoreInv'
  BY <1>2, <1>5, <1>6 DEF StoreInv
<1> QED
  BY <1>1, <1>2, <1>3, <1>4, <1>7

\* A request that was given up is the same request.
LEMMA Ghosts ==
    ASSUME NEW m \in Message
    PROVE  /\ R!Ghost(m) \in Message /\ R!Ghost(m).kind = m.kind /\ ~R!Ghost(m).live
           /\ m.kind = "boot" => /\ R!Ghost(m).boot = m.boot /\ R!Ghost(m).alive = m.alive
                                /\ R!Ghost(m).show = m.show /\ R!Ghost(m).blind = m.blind
           /\ m.kind = "claim" => R!Ghost(m).boot = m.boot /\ R!Ghost(m).a = m.a
           /\ m.kind = "finish" => R!Ghost(m).out = m.out /\ R!Ghost(m).a = m.a
<1>1. CASE m \in BootMsg
  BY <1>1 DEF R!Ghost, Message, BootMsg
<1>2. CASE m \in ClaimMsg
  BY <1>2 DEF R!Ghost, Message, ClaimMsg
<1>3. CASE m \in FinishMsg
  BY <1>3 DEF R!Ghost, Message, FinishMsg
<1> QED
  BY <1>1, <1>2, <1>3 DEF Message

LEMMA RunFields ==
    ASSUME PlaceInv
    PROVE  /\ run.at \in {"idle", "claiming", "claimed", "running", "settling", "unsaved",
                          "deliver", "finishing"}
           /\ run.a \in 0 .. MaxAttempt /\ run.out \in {"none", "ok", "failed", "cancelled"}
           /\ \A at : /\ [run EXCEPT !.at = at].at = at
                      /\ [run EXCEPT !.at = at].a = run.a
                      /\ [run EXCEPT !.at = at].out = run.out
           /\ \A at, out : /\ [run EXCEPT !.at = at, !.out = out].at = at
                           /\ [run EXCEPT !.at = at, !.out = out].a = run.a
                           /\ [run EXCEPT !.at = at, !.out = out].out = out
BY DEF PlaceInv, Running

LEMMA StoreStays ==
    ASSUME StoreInv, UNCHANGED <<stage, cur, attempts, end, from>>
    PROVE  StoreInv'
BY DEF StoreInv, R!Attempts, R!Boots, R!Open

LEMMA CountStays ==
    ASSUME CountInv, UNCHANGED <<made, faults, wboot, beat, boot, boots>>
    PROVE  CountInv'
BY DEF CountInv, R!Boots

LEMMA FlagStays ==
    ASSUME FlagInv, UNCHANGED <<reconciled, trusted, holding>>
    PROVE  FlagInv'
BY DEF FlagInv

LEMMA SetStays ==
    ASSUME SetInv, UNCHANGED <<child, requeued, held, queue, cancelled, doomed, misread>>
    PROVE  SetInv'
BY DEF SetInv, R!Attempts

LEMMA FileStays ==
    ASSUME FileInv, UNCHANGED <<file, results>>
    PROVE  FileInv'
BY DEF FileInv, R!Attempts

LEMMA PlaceStays ==
    ASSUME PlaceInv, UNCHANGED <<sess, run>>
    PROVE  PlaceInv'
BY DEF PlaceInv, Running

LEMMA ReplyStays ==
    ASSUME ReplyInv, UNCHANGED <<answer>>
    PROVE  ReplyInv'
BY DEF ReplyInv, Reply, R!Attempts

LEMMA NetStays ==
    ASSUME NetInv, UNCHANGED <<net>>
    PROVE  NetInv'
BY DEF NetInv, Message, BootMsg, R!Boots, R!Attempts, ClaimMsg, FinishMsg

LEMMA FreshStays ==
    ASSUME FreshInv, UNCHANGED <<attempts, file, results, child, doomed, answer, made>>
    PROVE  FreshInv'
BY DEF FreshInv, R!Attempts

LEMMA OrderStays ==
    ASSUME OrderInv, UNCHANGED <<net, made, run, cur, from, boots, boot>>
    PROVE  OrderInv'
BY DEF OrderInv, R!Attempts

LEMMA ThreadStays ==
    ASSUME ThreadInv, UNCHANGED <<boot, sess, run, queue, trusted, answer>>
    PROVE  ThreadInv'
BY DEF ThreadInv, R!Idle, R!Attempts, R!NoReply

LEMMA HandStays ==
    ASSUME HandInv, UNCHANGED <<run, attempts, from, boot, end, child, results, file, misread>>
    PROVE  HandInv'
BY DEF HandInv, Begun, Own, Excused, R!Open, R!Attempts

LEMMA DiskStays ==
    ASSUME DiskInv, UNCHANGED <<child, results, attempts, file, run, misread>>
    PROVE  DiskInv'
BY DEF DiskInv, R!Attempts, Begun, R!Open, Launching

LEMMA GoneStays ==
    ASSUME GoneInv, UNCHANGED <<answer, attempts, sess>>
    PROVE  GoneInv'
BY DEF GoneInv

LEMMA BootStays ==
    ASSUME BootInv, UNCHANGED <<net, attempts, from, child, results, misread>>
    PROVE  BootInv'
BY DEF BootInv, Named, R!Open, R!Attempts

LEMMA CallStays ==
    ASSUME CallInv, UNCHANGED <<net, boot, sess, answer>>
    PROVE  CallInv'
BY DEF CallInv

\* A step outside of a boot request leaves what is said about them.
LEMMA NoBootStays ==
    ASSUME BootInv, CallInv, sess # "posted" \/ answer.some,
           UNCHANGED <<net, attempts, from, child, results, misread>>
    PROVE  BootInv' /\ CallInv'
<1>1. CallInv'
  BY DEF CallInv
<1> QED BY <1>1, BootStays

LEMMA ClaimStays ==
    ASSUME ClaimInv, UNCHANGED <<net, run, boot>>
    PROVE  ClaimInv'
BY DEF ClaimInv

LEMMA FinishStays ==
    ASSUME FinishInv, UNCHANGED <<net, attempts, child, run, results>>
    PROVE  FinishInv'
BY DEF FinishInv, Begun, Launching

LEMMA OneCallStays ==
    ASSUME OneCall, UNCHANGED <<net>>
    PROVE  OneCall'
BY DEF OneCall

LEMMA AnswerStays ==
    ASSUME AnswerInv, UNCHANGED <<sess, answer, attempts, from, boot, child>>
    PROVE  AnswerInv'
BY DEF AnswerInv, Begun

LEMMA EndsStays ==
    ASSUME EndsInv, UNCHANGED <<child, attempts, end, results, file, misread>>
    PROVE  EndsInv'
BY DEF EndsInv, R!StoppedUnlessMisread, R!FinishedWorkKept, R!Attempts, R!Open, R!Listed

\* No boot request is of a later boot than the attempt in hand.
LEMMA NotLater ==
    ASSUME CountInv, StoreInv, NetInv, OrderInv, ThreadInv, run.at # "idle", Own(run.a)
    PROVE  \A m \in net : m.kind = "boot" => ~(from[run.a] < m.boot)
<1>1. boot # 0 /\ boot = boots /\ boots \in Nat /\ from[run.a] = boots
  BY DEF ThreadInv, OrderInv, CountInv, R!Boots, Own, R!Idle
<1>2. \A m \in net : m.kind = "boot" => m.boot \in Nat /\ m.boot <= boots
  BY Kinds DEF NetInv, OrderInv, R!Boots
<1> QED BY <1>1, <1>2

LEMMA StartHolds ==
    ASSUME RInv, R!Start
    PROVE  RInv'
<1>1. CountInv'
  BY AttemptAssumption
     DEF RInv, CountInv, R!Start, R!store, R!bootRow, R!fleet, R!disk, R!lists, R!Boots
<1>2. PlaceInv'
  BY DEF RInv, PlaceInv, R!Start
<1>3. OrderInv'
  BY Kinds, AttemptAssumption
     DEF RInv, OrderInv, R!Start, StoreInv, CountInv, NetInv, R!store, R!Boots, R!counts
<1>4. ThreadInv'
  BY DEF RInv, ThreadInv, R!Start, ThreadInv, CountInv, R!Boots
<1>5. HandInv'
  BY DEF RInv, HandInv, ThreadInv, DiskInv, BootInv, CallInv, Named, ClaimInv, FinishInv, R!Start,
        R!store,
         R!bootRow, R!fleet, R!disk, R!lists, Begun, Own, Excused, R!Open, R!Attempts, Launching
<1>6. GoneInv'
  BY DEF RInv, GoneInv, ThreadInv, HandInv, DiskInv, BootInv, CallInv, Named, ClaimInv, FinishInv,
        R!Start,
         R!store, R!bootRow, R!fleet, R!disk, R!lists, Launching, R!Attempts, Begun,
         Own, Excused, R!Open
<1>7. BootInv' /\ CallInv'
  BY NoBootStays DEF RInv, ThreadInv, R!Start, R!store, R!disk
<1>8. ClaimInv'
  BY DEF RInv, ClaimInv, ThreadInv, R!Start
<1>9. AnswerInv'
  BY NoReplies DEF RInv, AnswerInv, R!Start, ThreadInv, R!store, R!disk, Begun
<1>10. StoreInv' /\ FlagInv' /\ SetInv' /\ FileInv' /\ ReplyInv' /\ NetInv'
       /\ FreshInv' /\ DiskInv' /\ FinishInv' /\ OneCall' /\ EndsInv'
  BY StoreStays, FlagStays, SetStays, FileStays, ReplyStays, NetStays, FreshStays, DiskStays,
     FinishStays, OneCallStays, EndsStays
     DEF RInv, R!Start, R!store, R!bootRow, R!fleet, R!disk, R!lists
<1> QED BY <1>1, <1>2, <1>3, <1>4, <1>5, <1>6, <1>7, <1>8, <1>9, <1>10 DEF RInv

LEMMA RecoverHolds ==
    ASSUME RInv, NEW U \in SUBSET (R!Listed \cup {0}), R!Recover(U)
    PROVE  RInv'
<1>1. CountInv'
  BY AttemptAssumption, NoReplies
     DEF RInv, CountInv, R!Recover, R!Unread, R!Fault, R!Listed, R!Attempts, R!store,
         R!bootRow, R!fleet, R!counts, R!Boots
<1>2. PlaceInv'
  BY DEF RInv, PlaceInv, R!Recover
<1>3. ReplyInv'
  BY NoReplies
     DEF RInv, ReplyInv, StoreInv, R!Recover, R!Unread, R!Fault, R!NoReply, R!Listed,
         R!Attempts, R!store, R!bootRow, R!fleet, R!disk, R!lists, R!counts, Reply, R!Boots,
         R!Open
<1>4. FreshInv'
  BY AttemptAssumption, NoReplies
     DEF RInv, FreshInv, StoreInv, FileInv, SetInv, BootInv, CallInv, Named, R!Recover, R!Unread,
           R!Fault,
         R!Listed, R!Attempts, R!store, R!bootRow, R!fleet, R!disk, R!lists, R!counts,
         R!Boots, R!Open
<1>5. ThreadInv'
  BY NoReplies DEF RInv, ThreadInv, StoreInv, R!Recover
<1>6. GoneInv'
  BY DEF RInv, GoneInv, R!Recover
<1>7. BootInv' /\ CallInv'
  BY NoBootStays DEF RInv, R!Recover, R!store, R!disk
<1>8. AnswerInv'
  BY NoReplies
     DEF RInv, AnswerInv, ThreadInv, FreshInv, BootInv, CallInv, Named, R!Recover, R!Unread,
           R!Fault,
         R!Listed, R!Attempts, R!store, R!bootRow, R!fleet, R!disk, R!lists, R!counts, Begun,
         R!Open
<1>9. StoreInv' /\ FlagInv' /\ SetInv' /\ FileInv' /\ NetInv' /\ OrderInv' /\ HandInv'
      /\ DiskInv' /\ ClaimInv' /\ FinishInv' /\ OneCall' /\ EndsInv'
  BY StoreStays, FlagStays, SetStays, FileStays, NetStays, OrderStays, HandStays, DiskStays,
     ClaimStays, FinishStays, OneCallStays, EndsStays
     DEF RInv, R!Recover, R!Unread, R!Fault, R!NoReply, R!Listed, R!Attempts, R!store,
         R!bootRow, R!fleet, R!disk, R!lists, R!counts
<1> QED BY <1>1, <1>2, <1>3, <1>4, <1>5, <1>6, <1>7, <1>8, <1>9 DEF RInv

LEMMA RecoverCollectHolds ==
    ASSUME RInv, R!RecoverCollect
    PROVE  RInv'
<1>1. R!Collect(answer.gone, answer.held) /\ FileInv /\ answer.gone \subseteq R!Attempts
      /\ misread \subseteq R!Attempts
  BY DEF RInv, R!RecoverCollect, ReplyInv, Reply, SetInv
<1>2. /\ results' \in [R!Attempts -> {"none", "good", "bad", "lost"}]
      /\ \A a \in R!Attempts : results'[a] # results[a] =>
           results[a] # "none" /\ results'[a] = "lost" /\ a \in misread'
      /\ file' \in [R!Attempts -> {"none", "open", "ok", "failed", "cancelled", "refused"}]
      /\ \A a \in R!Attempts : file'[a] # file[a] =>
           file'[a] = "none" /\ (a \in R!Open => a \in misread')
      /\ doomed' \subseteq doomed \cup answer.gone /\ cancelled' \subseteq cancelled
      /\ held' \subseteq held
      /\ misread \subseteq misread' /\ misread' \subseteq R!Attempts
  BY <1>1, Collects
<1>3. /\ UNCHANGED <<R!store, R!bootRow, R!fleet, child, boot, trusted, queue, run, holding, net,
                     R!counts, faults>>
      /\ answer' = R!NoReply /\ sess' = "boot" /\ sess = "collect" /\ R!Open' = R!Open
  BY DEF R!RecoverCollect, R!Open, R!store
<1>4. SetInv'
  BY <1>2, <1>3 DEF RInv, SetInv, ReplyInv, Reply, R!fleet
<1>5. FileInv'
  BY <1>2 DEF FileInv
<1>6. PlaceInv'
  BY DEF RInv, PlaceInv, R!RecoverCollect
<1>7. ReplyInv'
  BY NoReplies DEF RInv, ReplyInv, R!RecoverCollect
<1>8. FreshInv'
  BY <1>2, <1>3, NoReplies DEF RInv, FreshInv, R!store, R!counts
<1>9. ThreadInv'
  BY DEF RInv, ThreadInv, R!RecoverCollect
<1>10. HandInv'
  BY <1>2, <1>3 DEF RInv, HandInv, ThreadInv, Own, Excused, Begun, R!store
<1>11. DiskInv'
  BY <1>2, <1>3 DEF RInv, DiskInv, Begun, Launching, R!store, SetInv
<1>12. GoneInv' /\ CallInv'
  BY <1>3, NoReplies DEF RInv, GoneInv, CallInv
<1>13. BootInv'
  BY <1>2, <1>3 DEF RInv, BootInv, Named, R!store, R!Open
<1>14. FinishInv'
  BY <1>2, <1>3, Kinds DEF RInv, FinishInv, Begun, Launching, R!store, NetInv
<1>15. AnswerInv'
  BY <1>3, NoReplies DEF RInv, AnswerInv
<1>16. EndsInv'
  BY <1>2, <1>3 DEF RInv, EndsInv, R!StoppedUnlessMisread, R!FinishedWorkKept, R!Listed,
                    R!store, SetInv
<1>17. StoreInv' /\ CountInv' /\ FlagInv' /\ NetInv' /\ OrderInv' /\ ClaimInv' /\ OneCall'
  BY <1>3, StoreStays, CountStays, FlagStays, NetStays, OrderStays, ClaimStays, OneCallStays
     DEF RInv, R!store, R!bootRow, R!fleet, R!counts
<1> QED BY <1>4, <1>5, <1>6, <1>7, <1>8, <1>9, <1>10, <1>11, <1>12, <1>13, <1>14, <1>15,
           <1>16, <1>17
    DEF RInv

LEMMA SweepHolds ==
    ASSUME RInv, R!Sweep
    PROVE  RInv'
<1>1. R!Collect(doomed, {}) /\ FileInv /\ doomed \subseteq R!Attempts
      /\ misread \subseteq R!Attempts
  BY DEF RInv, R!Sweep, SetInv
<1>2. /\ results' \in [R!Attempts -> {"none", "good", "bad", "lost"}]
      /\ \A a \in R!Attempts : results'[a] # results[a] =>
           results[a] # "none" /\ results'[a] = "lost" /\ a \in misread'
      /\ file' \in [R!Attempts -> {"none", "open", "ok", "failed", "cancelled", "refused"}]
      /\ \A a \in R!Attempts : file'[a] # file[a] =>
           file'[a] = "none" /\ (a \in R!Open => a \in misread')
      /\ doomed' \subseteq doomed \cup doomed /\ cancelled' \subseteq cancelled
      /\ held' \subseteq held
      /\ misread \subseteq misread' /\ misread' \subseteq R!Attempts
  BY <1>1, Collects
<1>3. /\ UNCHANGED <<R!store, R!bootRow, R!fleet, child, boot, R!session, queue, run, holding,
                     net, R!counts, faults>>
      /\ R!Open' = R!Open
  BY DEF R!Sweep, R!Open, R!store
<1>4. SetInv'
  BY <1>2, <1>3 DEF RInv, SetInv, R!fleet
<1>5. FileInv'
  BY <1>2 DEF FileInv
<1>6. FreshInv'
  BY <1>2, <1>3 DEF RInv, FreshInv, R!store, R!counts, R!session
<1>7. HandInv'
  BY <1>2, <1>3 DEF RInv, HandInv, ThreadInv, Own, Excused, Begun, R!store
<1>8. DiskInv'
  BY <1>2, <1>3 DEF RInv, DiskInv, Begun, Launching, R!store, SetInv
<1>9. BootInv'
  BY <1>2, <1>3 DEF RInv, BootInv, Named, R!store, R!Open
<1>10. FinishInv'
  BY <1>2, <1>3, Kinds DEF RInv, FinishInv, Begun, Launching, R!store, NetInv
<1>11. EndsInv'
  BY <1>2, <1>3 DEF RInv, EndsInv, R!StoppedUnlessMisread, R!FinishedWorkKept, R!Listed,
                    R!store, SetInv
<1>12. StoreInv' /\ CountInv' /\ FlagInv' /\ PlaceInv' /\ ReplyInv' /\ NetInv' /\ OrderInv'
       /\ ThreadInv' /\ GoneInv' /\ CallInv' /\ ClaimInv' /\ OneCall' /\ AnswerInv'
  BY <1>3, StoreStays, CountStays, FlagStays, PlaceStays, ReplyStays, NetStays, OrderStays,
     ThreadStays, GoneStays, CallStays, ClaimStays, OneCallStays, AnswerStays
     DEF RInv, R!store, R!bootRow, R!fleet, R!session, R!counts
<1> QED BY <1>4, <1>5, <1>6, <1>7, <1>8, <1>9, <1>10, <1>11, <1>12 DEF RInv

LEMMA PostBootHolds ==
    ASSUME RInv, NEW U \in SUBSET (R!Listed \cup {0}), R!PostBoot(U)
    PROVE  RInv'
<1>1. CountInv'
  BY AttemptAssumption
     DEF RInv, CountInv, R!PostBoot, R!Unread, R!Fault, R!Report, R!Listed, R!Attempts,
         R!store, R!bootRow, R!fleet, R!counts, R!Boots
<1>2. PlaceInv'
  BY DEF RInv, PlaceInv, R!PostBoot
<1>3. NetInv'
  <2>1. R!Report(U) \in BootMsg
    <3>1. R!Listed \subseteq R!Attempts /\ boot \in R!Boots
      BY DEF R!Listed, RInv, CountInv
    <3> QED BY <3>1 DEF R!Report, BootMsg
  <2> QED BY <2>1 DEF RInv, NetInv, R!PostBoot, Message
<1>4. OrderInv'
  <2>1. R!Report(U).kind = "boot" /\ R!Report(U).boot = boot /\ boot <= boots
    BY DEF RInv, OrderInv, CountInv, R!Boots, R!Report
  <2>2. net' = net \cup {R!Report(U)} /\ UNCHANGED <<made, run, cur, from, boots, boot>>
    BY DEF R!PostBoot, R!store, R!counts
  <2> QED BY <2>1, <2>2 DEF RInv, OrderInv
<1>5. ThreadInv'
  BY DEF RInv, ThreadInv, StoreInv, FileInv, SetInv, DiskInv, BootInv, CallInv, Named, EndsInv,
        R!PostBoot,
         R!Unread, R!Fault, R!Report, R!Listed, R!Attempts, R!store, R!bootRow, R!fleet,
         R!disk, R!lists, R!counts, R!Idle, R!NoReply, R!Boots, R!Open, Begun, Launching,
         R!StoppedUnlessMisread, R!FinishedWorkKept
<1>6. GoneInv'
  <2>1. answer.gone = {}
    BY NoReplies DEF RInv, ThreadInv, R!PostBoot
  <2> QED
    BY <2>1 DEF RInv, GoneInv, R!PostBoot
<1>7. BootInv' /\ CallInv'
  <2>1. ~answer.some /\ answer' = answer /\ sess' = "posted" /\ boot' = boot
    BY NoReplies DEF RInv, ThreadInv, R!PostBoot
  <2>2. \A m \in net : m.kind # "boot" \/ ~m.live
    BY DEF RInv, CallInv, R!PostBoot
  <2>3. \A a \in R!Open : /\ a \in child => a \in R!Listed \/ a \in misread
                          /\ results[a] = "good" => a \in R!Listed \/ a \in misread
    BY DEF RInv, DiskInv, EndsInv, R!FinishedWorkKept, R!Open, R!Listed
  <2>4. R!Report(U).live /\ R!Report(U).boot = boot
    BY DEF R!Report
  <2>5. \A a \in R!Open : Named(R!Report(U), a)
    <3>1. /\ R!Report(U).alive = (R!Listed \cap child) \cup U
          /\ R!Report(U).show = {a \in R!Listed \ U : results[a] \in {"good", "bad"}
                                                     \/ file[a] # "open"}
      BY DEF R!Report
    <3> QED BY <2>3, <3>1 DEF Named
  <2>6. /\ UNCHANGED <<attempts, from, child, results, misread>> /\ R!Open' = R!Open
        /\ net' = net \cup {R!Report(U)}
    BY DEF R!PostBoot, R!store, R!disk, R!Open
  <2>7. \A m, a : Named(m, a)' <=> Named(m, a)
    BY <2>6 DEF Named
  <2>8. BootInv'
    BY <2>5, <2>6, <2>7 DEF RInv, BootInv
  <2>9. CallInv'
    BY <2>1, <2>2, <2>4, <2>6 DEF CallInv
  <2> QED BY <2>8, <2>9
<1>8. ClaimInv'
  BY DEF RInv, ClaimInv, R!PostBoot, R!Report
<1>9. FinishInv'
  BY DEF RInv, FinishInv, R!PostBoot, R!Report, R!store, R!disk, Begun, Launching
<1>10. OneCall'
  <2>1. \A m \in net : m.kind # "boot" \/ ~m.live
    BY DEF RInv, CallInv, R!PostBoot
  <2>2. R!Report(U).kind = "boot" /\ net' = net \cup {R!Report(U)}
    BY DEF R!Report, R!PostBoot
  <2> QED BY <2>1, <2>2 DEF RInv, OneCall
<1>11. AnswerInv'
  BY NoReplies DEF RInv, AnswerInv, R!PostBoot, ThreadInv, R!store, R!disk, Begun
<1>12. StoreInv' /\ FlagInv' /\ SetInv' /\ FileInv' /\ ReplyInv' /\ FreshInv'
       /\ HandInv' /\ DiskInv' /\ EndsInv'
  BY StoreStays, FlagStays, SetStays, FileStays, ReplyStays, FreshStays, HandStays, DiskStays,
     EndsStays
     DEF RInv, R!PostBoot, R!Unread, R!Fault, R!Report, R!Listed, R!Attempts, R!store,
         R!bootRow, R!fleet, R!disk, R!lists, R!counts
<1> QED BY <1>1, <1>2, <1>3, <1>4, <1>5, <1>6, <1>7, <1>8, <1>9, <1>10, <1>11, <1>12 DEF RInv

LEMMA HandleBootHolds ==
    ASSUME RInv, NEW m \in net, R!HandleBoot(m)
    PROVE  RInv'
<1>1. m.kind = "boot" /\ m \in net /\ R!SettleBoot(m)
  BY DEF R!HandleBoot
<1>2. /\ \A a \in R!Interrupted(m) :
           a \in R!Open /\ from[a] # m.boot
           /\ (a \in misread' \/ (a \notin child /\ results[a] # "good"))
      /\ \A a \in R!Interrupted(m) : from[a] = boot /\ boot # 0 => a \in misread'
      /\ \A a \in R!Finish(m) :
           a \in R!Open /\ from[a] # m.boot /\ (from[a] < m.boot => a \notin child)
      /\ R!Interrupted(m) \subseteq R!Open /\ R!Finish(m) \subseteq R!Open
      /\ R!Held(m) \subseteq R!Open /\ R!Open \subseteq R!Attempts
      /\ misread \subseteq misread' /\ misread' \subseteq R!Attempts
  BY <1>1, Verdicts DEF RInv
<1>3. /\ StoreInv'
      /\ R!Open' = R!Open \ R!Interrupted(m) /\ from' = from /\ cur' = cur
      /\ wboot' = m.boot /\ reconciled' \in BOOLEAN
      /\ \A a \in R!Attempts : a \notin R!Open => attempts'[a] = attempts[a]
      /\ \A a \in R!Attempts : a \notin R!Interrupted(m) => end'[a] = end[a]
      /\ \A a \in R!Attempts : attempts'[a] = "resolved" <=>
                               (attempts[a] = "resolved" \/ a \in R!Interrupted(m))
      /\ \A a \in R!Attempts : Begun(a)' <=> Begun(a)
  BY <1>1, Settles DEF RInv
<1>4. /\ m \in BootMsg /\ m.boot \in R!Boots /\ m.boot \in Nat /\ m.boot <= boots
      /\ m.live => m.boot = boot /\ sess = "posted" /\ ~answer.some
  BY <1>1, Kinds DEF RInv, CallInv, NetInv, OrderInv, R!Boots
<1>5. /\ UNCHANGED <<made, beat, requeued, boot, boots, faults, child, results, file, doomed,
                     held, queue, cancelled, run, sess, trusted, holding>>
      /\ net' = net \ {m}
  BY DEF R!HandleBoot, R!counts, R!fleet, R!disk, R!lists
<1>6. \/ /\ m.live
         /\ answer' = [ok |-> R!Open = R!Interrupted(m), held |-> R!Held(m),
                       gone |-> R!Interrupted(m), finish |-> R!Finish(m), some |-> TRUE]
      \/ ~m.live /\ answer' = answer
  BY <1>4 DEF R!HandleBoot, BootMsg
<1>7. \A a \in R!Interrupted(m) : a \in R!Attempts /\ Begun(a)
  BY <1>2 DEF Begun, R!Open
<1>8. CountInv'
  BY <1>3, <1>4, <1>5 DEF RInv, CountInv
<1>9. FlagInv'
  BY <1>3, <1>5 DEF RInv, FlagInv
<1>10. ReplyInv'
  <2>1. CASE m.live
    <3>1. (R!Open = R!Interrupted(m)) \in BOOLEAN
      BY Zenon
    <3>2. /\ R!Held(m) \in SUBSET (R!Attempts \cup {0})
          /\ R!Interrupted(m) \in SUBSET R!Attempts /\ R!Finish(m) \in SUBSET R!Attempts
      BY <1>2
    <3>3. \A ok \in BOOLEAN, h \in SUBSET (R!Attempts \cup {0}), g, f \in SUBSET R!Attempts :
            [ok |-> ok, held |-> h, gone |-> g, finish |-> f, some |-> TRUE] \in Reply
      BY Replies
    <3>4. [ok |-> R!Open = R!Interrupted(m), held |-> R!Held(m),
           gone |-> R!Interrupted(m), finish |-> R!Finish(m), some |-> TRUE] \in Reply
      BY <3>1, <3>2, <3>3, Zenon
    <3> QED BY <1>6, <2>1, <3>4, Zenon DEF ReplyInv
  <2>2. CASE ~m.live
    BY <1>6, <2>2 DEF RInv, ReplyInv
  <2> QED BY <2>1, <2>2
<1>11. NetInv'
  BY <1>5 DEF RInv, NetInv
<1>12. FreshInv'
  <2>5. answer'.gone \subseteq answer.gone \cup R!Interrupted(m)
    BY <1>6
  <2>6. \A a \in R!Attempts : a > made => /\ attempts[a] = "none" /\ ~Begun(a) /\ a \notin R!Open
                                       /\ a \notin R!Interrupted(m)
    BY <1>2 DEF RInv, FreshInv, R!Open, Begun
  <2> QED
    BY <1>3, <1>5, <2>5, <2>6 DEF RInv, FreshInv
<1>13. OrderInv'
  BY <1>3, <1>5 DEF RInv, OrderInv
<1>14. ThreadInv'
  <2>1. sess = "posted" => answer'.held \subseteq R!Attempts
        /\ (answer'.some \/ answer' = R!NoReply)
    BY <1>2, <1>6 DEF RInv, ThreadInv
  <2>2. sess # "posted" => answer' = answer
    BY <1>4, <1>6
  <2> QED
    BY <1>5, <2>1, <2>2 DEF RInv, ThreadInv
<1>15. HandInv'
  <2>5. Own(run.a) /\ run.a \in R!Attempts /\ boot # 0 => Own(run.a)'
    BY <1>2, <1>3, <1>5 DEF Own, Excused
  <2>6. run.at # "idle" => run.a \in R!Attempts /\ boot # 0
    BY DEF RInv, ThreadInv
  <2> QED
    BY <1>2, <1>3, <1>5, <2>5, <2>6 DEF RInv, HandInv
<1>16. DiskInv'
  BY <1>2, <1>3, <1>5 DEF RInv, DiskInv, Launching, SetInv
<1>17. GoneInv'
  BY <1>2, <1>3, <1>5, <1>6, <1>7 DEF RInv, GoneInv, ReplyInv, Reply
<1>18. BootInv' /\ CallInv'
  <2>1. \A n, a : Named(n, a) => Named(n, a)'
    BY <1>2, <1>5 DEF Named
  <2>2. BootInv'
    BY <1>3, <1>5, <2>1 DEF RInv, BootInv
  <2>3. CallInv'
    BY <1>1, <1>5, <1>6 DEF RInv, CallInv, OneCall
  <2> QED BY <2>2, <2>3
<1>19. ClaimInv'
  BY <1>5 DEF RInv, ClaimInv
<1>20. FinishInv'
  BY <1>3, <1>5, Kinds DEF RInv, FinishInv, NetInv, Launching
<1>21. OneCall'
  BY <1>5 DEF RInv, OneCall
<1>22. AnswerInv'
  <2>1. CASE m.live
    <3>1. \A a \in R!Finish(m) : a \in R!Attempts /\ Begun(a) /\ from[a] # boot /\ a \notin child
      <4>1. \A a \in R!Open : from[a] \in Nat /\ from[a] <= boots
        BY DEF RInv, StoreInv, OrderInv, R!Boots, R!Open
      <4>2. boot \in {0, boots} /\ boots \in Nat
        BY DEF RInv, OrderInv, CountInv, R!Boots
      <4>3. boot # 0
        BY <1>4, <2>1 DEF RInv, ThreadInv
      <4> QED BY <1>2, <1>4, <2>1, <4>1, <4>2, <4>3 DEF Begun, R!Open
    <3> QED BY <1>2, <1>3, <1>4, <1>5, <1>6, <2>1, <3>1 DEF AnswerInv
  <2>2. CASE ~m.live
    BY <1>3, <1>5, <1>6, <2>2 DEF RInv, AnswerInv, ReplyInv, Reply
  <2> QED BY <2>1, <2>2
<1>23. EndsInv'
  BY <1>2, <1>3, <1>5
     DEF RInv, EndsInv, R!StoppedUnlessMisread, R!FinishedWorkKept, R!Listed, SetInv
<1>24. SetInv' /\ FileInv' /\ PlaceInv'
  BY <1>2, <1>5 DEF RInv, SetInv, FileInv, PlaceInv
<1> QED BY <1>3, <1>8, <1>9, <1>10, <1>11, <1>12, <1>13, <1>14, <1>15, <1>16, <1>17, <1>18,
           <1>19, <1>20, <1>21, <1>22, <1>23, <1>24
    DEF RInv

LEMMA LoseBootReplyHolds ==
    ASSUME RInv, NEW m \in net, R!LoseBootReply(m)
    PROVE  RInv'
<1>1. m.kind = "boot" /\ m \in net /\ R!SettleBoot(m)
  BY DEF R!LoseBootReply
<1>2. /\ \A a \in R!Interrupted(m) :
           a \in R!Open /\ from[a] # m.boot
           /\ (a \in misread' \/ (a \notin child /\ results[a] # "good"))
      /\ \A a \in R!Interrupted(m) : from[a] = boot /\ boot # 0 => a \in misread'
      /\ \A a \in R!Finish(m) :
           a \in R!Open /\ from[a] # m.boot /\ (from[a] < m.boot => a \notin child)
      /\ R!Interrupted(m) \subseteq R!Open /\ R!Finish(m) \subseteq R!Open
      /\ R!Held(m) \subseteq R!Open /\ R!Open \subseteq R!Attempts
      /\ misread \subseteq misread' /\ misread' \subseteq R!Attempts
  BY <1>1, Verdicts DEF RInv
<1>3. /\ StoreInv'
      /\ R!Open' = R!Open \ R!Interrupted(m) /\ from' = from /\ cur' = cur
      /\ wboot' = m.boot /\ reconciled' \in BOOLEAN
      /\ \A a \in R!Attempts : a \notin R!Open => attempts'[a] = attempts[a]
      /\ \A a \in R!Attempts : a \notin R!Interrupted(m) => end'[a] = end[a]
      /\ \A a \in R!Attempts : attempts'[a] = "resolved" <=>
                               (attempts[a] = "resolved" \/ a \in R!Interrupted(m))
      /\ \A a \in R!Attempts : Begun(a)' <=> Begun(a)
  BY <1>1, Settles DEF RInv
<1>4. /\ m.boot \in R!Boots /\ UNCHANGED <<made, beat, requeued, R!worker, net, boots>>
      /\ UNCHANGED <<child, results, file>>
      /\ faults' = faults + 1 /\ faults' <= MaxFault
  BY <1>1, Kinds, AttemptAssumption
     DEF RInv, CountInv, NetInv, R!LoseBootReply, R!counts, R!fleet, R!disk, R!Fault
<1>5. UNCHANGED <<boot, sess, trusted, answer, held, queue, cancelled, doomed, run, holding>>
  BY <1>4 DEF R!worker, R!session, R!lists
<1>6. CountInv'
  <2>6. boots \in Nat /\ faults \in Nat /\ MaxFault \in Nat
    BY AttemptAssumption DEF RInv, CountInv, R!Boots
  <2> QED
    BY <1>3, <1>4, <1>5, <2>6 DEF RInv, CountInv
<1>7. FlagInv'
  BY <1>3, <1>5 DEF RInv, FlagInv
<1>8. FreshInv'
  <2>6. \A a \in R!Attempts : a > made => /\ attempts[a] = "none" /\ ~Begun(a) /\ a \notin R!Open
                                       /\ a \notin R!Interrupted(m)
    BY <1>2 DEF RInv, FreshInv, R!Open, Begun
  <2> QED
    BY <1>3, <1>4, <1>5, <2>6 DEF RInv, FreshInv
<1>9. OrderInv'
  BY <1>3, <1>4, <1>5 DEF RInv, OrderInv
<1>10. HandInv'
  <2>5. Own(run.a) /\ run.a \in R!Attempts /\ boot # 0 => Own(run.a)'
    BY <1>2, <1>3, <1>5 DEF Own, Excused
  <2>6. run.at # "idle" => run.a \in R!Attempts /\ boot # 0
    BY DEF RInv, ThreadInv
  <2> QED
    BY <1>2, <1>3, <1>4, <1>5, <2>5, <2>6 DEF RInv, HandInv
<1>11. DiskInv'
  BY <1>2, <1>3, <1>4, <1>5 DEF RInv, DiskInv, Launching, SetInv
<1>12. GoneInv'
  BY <1>3, <1>5 DEF RInv, GoneInv, ReplyInv, Reply
<1>13. BootInv' /\ CallInv'
  <2>1. \A n, a : Named(n, a) => Named(n, a)'
    BY <1>2, <1>4 DEF Named
  <2>2. BootInv'
    BY <1>3, <1>4, <2>1 DEF RInv, BootInv
  <2> QED BY <2>2, <1>4, <1>5, CallStays DEF RInv
<1>14. FinishInv'
  BY <1>3, <1>4, <1>5, Kinds DEF RInv, FinishInv, NetInv, Launching
<1>15. AnswerInv'
  BY <1>3, <1>4, <1>5 DEF RInv, AnswerInv, ReplyInv, Reply
<1>16. EndsInv'
  BY <1>2, <1>3, <1>4
     DEF RInv, EndsInv, R!StoppedUnlessMisread, R!FinishedWorkKept, R!Listed, SetInv
<1>17. SetInv' /\ FileInv' /\ PlaceInv' /\ ReplyInv' /\ NetInv'
       /\ ThreadInv' /\ ClaimInv' /\ OneCall'
  BY <1>2, <1>4, <1>5, FileStays, PlaceStays, ReplyStays, NetStays, ThreadStays,
     ClaimStays, OneCallStays
     DEF RInv, SetInv
<1> QED BY <1>3, <1>6, <1>7, <1>8, <1>9, <1>10, <1>11, <1>12, <1>13, <1>14, <1>15, <1>16,
           <1>17
    DEF RInv

LEMMA BootedHolds ==
    ASSUME RInv, NEW U \in SUBSET (R!Listed \cup {0}), R!Booted(U)
    PROVE  RInv'
<1>1. CountInv'
  BY AttemptAssumption, NoReplies
     DEF RInv, CountInv, R!Booted, R!Unread, R!Fault, R!Listed, R!Attempts, R!Settled,
         R!Active, R!bootRow, R!fleet, R!counts, R!Boots
<1>2. FlagInv'
  <2>1. trusted' \in BOOLEAN
    BY DEF RInv, ReplyInv, Reply, R!Booted
  <2>2. holding' \in BOOLEAN
    BY Zenon DEF R!Booted
  <2> QED
    BY <2>1, <2>2 DEF RInv, FlagInv, R!Booted, R!bootRow
<1>3. SetInv'
  BY NoReplies
     DEF RInv, SetInv, PlaceInv, ThreadInv, ReplyInv, NetInv, R!Booted, R!Unread, R!Fault,
         R!Listed, R!Attempts, R!Settled, R!Active, R!store, R!fleet, Reply
<1>4. FileInv'
  BY DEF RInv, FileInv, R!Booted
<1>5. PlaceInv'
  BY DEF RInv, PlaceInv, R!Booted
<1>6. ReplyInv'
  BY NoReplies
     DEF RInv, ReplyInv, StoreInv, R!Booted, R!Unread, R!Fault, R!Listed, R!Attempts,
         R!Settled, R!Active, R!NoReply, R!store, R!bootRow, R!fleet, R!counts, Reply,
         R!Boots, R!Open
<1>7. FreshInv'
  BY AttemptAssumption, NoReplies
     DEF RInv, FreshInv, StoreInv, FileInv, SetInv, BootInv, CallInv, Named, AnswerInv, GoneInv,
           HandInv,
         R!Booted, R!Unread, R!Fault, R!Listed, R!Attempts, R!Settled, R!Active, R!store,
         R!bootRow, R!fleet, R!counts, R!Boots, R!Open, Begun, Launching, Own, Excused
<1>8. ThreadInv'
  BY NoReplies DEF RInv, ThreadInv, StoreInv, R!Booted
<1>9. HandInv'
  BY NoReplies
     DEF RInv, HandInv, ThreadInv, DiskInv, BootInv, CallInv, Named, AnswerInv, GoneInv, R!Booted,
           R!Unread,
         R!Fault, R!Listed, R!Attempts, R!Settled, R!Active, R!store, R!bootRow, R!fleet,
         R!counts, Begun, Own, Excused, R!Open, Launching
<1>10. DiskInv'
  BY NoReplies
     DEF RInv, DiskInv, ThreadInv, HandInv, BootInv, CallInv, Named, AnswerInv, GoneInv, R!Booted,
           R!Unread,
         R!Fault, R!Listed, R!Attempts, R!Settled, R!Active, R!store, R!bootRow, R!fleet,
         R!counts, Begun, R!Open, Launching, Own, Excused
<1>11. GoneInv'
  BY NoReplies
     DEF RInv, GoneInv, ThreadInv, HandInv, DiskInv, BootInv, CallInv, Named, AnswerInv, R!Booted,
           R!Unread,
         R!Fault, R!Listed, R!Attempts, R!Settled, R!Active, R!store, R!bootRow, R!fleet,
         R!counts, Launching, Begun, Own, Excused, R!Open
<1>12. BootInv' /\ CallInv'
  BY NoBootStays DEF RInv, R!Booted, R!store
<1>13. AnswerInv'
  BY NoReplies DEF RInv, AnswerInv, ThreadInv, R!Booted
<1>14. EndsInv'
  BY NoReplies
     DEF RInv, EndsInv, BootInv, CallInv, Named, AnswerInv, GoneInv, HandInv, R!Booted, R!Unread,
           R!Fault,
         R!Listed, R!Attempts, R!Settled, R!Active, R!store, R!bootRow, R!fleet, R!counts,
         R!StoppedUnlessMisread, R!FinishedWorkKept, R!Open, Begun, Launching, Own, Excused
<1>15. StoreInv' /\ NetInv' /\ OrderInv' /\ ClaimInv' /\ FinishInv' /\ OneCall'
  BY StoreStays, NetStays, OrderStays, ClaimStays, FinishStays, OneCallStays
     DEF RInv, R!Booted, R!Unread, R!store, R!counts
<1> QED BY <1>1, <1>2, <1>3, <1>4, <1>5, <1>6, <1>7, <1>8, <1>9, <1>10, <1>11, <1>12, <1>13,
           <1>14, <1>15
    DEF RInv

LEMMA HeartbeatHolds ==
    ASSUME RInv, R!Heartbeat
    PROVE  RInv'
<1>1. CountInv'
  BY AttemptAssumption
     DEF RInv, CountInv, R!Heartbeat, R!Open, R!Attempts, R!Active, R!store, R!bootRow,
         R!disk, R!counts, R!Boots
<1>2. SetInv'
  BY DEF RInv, SetInv, PlaceInv, ThreadInv, ReplyInv, NetInv, R!Heartbeat, R!Open, R!Attempts,
         R!Active, R!store, R!bootRow, R!disk, R!counts, Running, Reply, Message, BootMsg,
         R!Boots, ClaimMsg, FinishMsg
<1>3. PlaceInv'
  BY DEF RInv, PlaceInv, R!Heartbeat
<1>4. ThreadInv'
  BY DEF RInv, ThreadInv, R!Heartbeat
<1>5. GoneInv'
  BY DEF RInv, GoneInv, ThreadInv, HandInv, DiskInv, R!Heartbeat, R!Open, R!Attempts,
         R!Active, R!store, R!bootRow, R!disk, R!counts, Launching, Begun, Own, Excused
<1>6. BootInv' /\ CallInv'
  BY NoBootStays DEF RInv, R!Heartbeat, R!store, R!disk
<1>7. AnswerInv'
  BY DEF RInv, AnswerInv, ThreadInv, R!Heartbeat, R!store, R!disk, Begun
<1>8. StoreInv' /\ FlagInv' /\ FileInv' /\ ReplyInv' /\ NetInv' /\ FreshInv'
      /\ OrderInv' /\ HandInv' /\ DiskInv' /\ ClaimInv' /\ FinishInv' /\ OneCall' /\ EndsInv'
  BY StoreStays, FlagStays, FileStays, ReplyStays, NetStays, FreshStays, OrderStays,
     HandStays, DiskStays, ClaimStays, FinishStays, OneCallStays, EndsStays
     DEF RInv, R!Heartbeat, R!Open, R!Attempts, R!store, R!bootRow, R!disk, R!counts
<1> QED BY <1>1, <1>2, <1>3, <1>4, <1>5, <1>6, <1>7, <1>8 DEF RInv

LEMMA ClaimHolds ==
    ASSUME RInv, R!Claim
    PROVE  RInv'
<1>1. /\ run.at = "idle" /\ boot # 0 /\ made' = made + 1 /\ made' \in R!Attempts
      /\ run' = [at |-> "claiming", a |-> made', out |-> "none"]
      /\ file' = [file EXCEPT ![made'] = "open"] /\ holding' = TRUE
      /\ UNCHANGED <<R!store, R!bootRow, R!fleet, results, child, boot, R!session, R!lists,
                     boots, faults, misread>>
  BY Idles, AttemptAssumption DEF RInv, CountInv, ThreadInv, R!Claim, R!Attempts
<1>2. /\ attempts[made'] = "none" /\ file[made'] = "none" /\ results[made'] = "none"
      /\ made' \notin child /\ made' \notin doomed /\ made' \notin answer.gone
      /\ \A a \in R!Attempts : a <= made => a # made'
      /\ made \in Nat /\ boot \in R!Boots /\ made' > made
  BY <1>1 DEF RInv, FreshInv, CountInv
<1>3. PICK c \in Message : /\ net' = net \cup {c} /\ c.kind = "claim" /\ c.a = made'
                           /\ c.boot = boot /\ c.live
  <2> DEFINE new == [kind |-> "claim", a |-> made', boot |-> boot, base |-> cur, live |-> TRUE]
  <2>1. new \in Message
    BY <1>1, <1>2 DEF RInv, StoreInv, Message, ClaimMsg
  <2>2. net' = net \cup {new}
    BY <1>1 DEF R!Claim
  <2> QED BY <2>1, <2>2
<1>4. /\ \A m \in net : m.kind \in {"claim", "finish"} =>
             ~m.live /\ m.a # made' /\ m.a <= made /\ m.a \in R!Attempts
      /\ \A m \in net : m \in Message
  BY <1>1, <1>2, Kinds DEF RInv, ClaimInv, FinishInv, OrderInv, NetInv
<1>5. /\ \A a \in R!Attempts : a # made' => file'[a] = file[a]
      /\ file'[made'] = "open"
      /\ \A a \in R!Attempts : a # made' => ~Launching(a)'
      /\ ~ \E a \in R!Attempts : Launching(a)
      /\ R!Open' = R!Open /\ made' \notin R!Open
  BY <1>1, <1>2 DEF RInv, FileInv, Launching, R!Open, R!store
<1>6. CountInv'
  BY AttemptAssumption, Idles
     DEF RInv, CountInv, R!Claim, R!store, R!bootRow, R!fleet, R!session, R!lists, R!Boots
<1>7. FlagInv'
  BY Idles DEF RInv, FlagInv, R!Claim, R!store, R!bootRow, R!fleet, R!session, R!lists
<1>8. FileInv'
  BY DEF RInv, FileInv, R!Claim
<1>9. PlaceInv'
  BY <1>1, <1>2, <1>3, <1>4, <1>5 DEF RInv, PlaceInv, Running, R!session, R!Attempts
<1>10. NetInv'
  BY <1>1, <1>2, <1>3, <1>4, <1>5 DEF RInv, NetInv
<1>11. FreshInv'
  BY <1>1, <1>2, <1>3, <1>4, <1>5, Kinds, AttemptAssumption
     DEF RInv, FreshInv, R!store, R!session, R!lists, R!Attempts
<1>12. OrderInv'
  <2>7. boot <= boots /\ cur <= made /\ cur \in Nat
        /\ \A m \in net : m.kind \in {"boot", "claim"} => m.boot <= boots
    BY DEF RInv, OrderInv, StoreInv, CountInv, R!Boots
  <2>8. \A m \in net' : /\ m.kind \in {"claim", "finish"} => m.a <= made'
                        /\ m.kind \in {"boot", "claim"} => m.boot <= boots'
    BY <1>1, <1>2, <1>3, <1>4, <2>7 DEF R!Attempts
  <2>9. run'.a <= made' /\ cur' <= made' /\ boot' <= boots'
    BY <1>1, <1>2, <2>7 DEF R!store
  <2> QED
    BY <1>1, <2>8, <2>9 DEF RInv, OrderInv, R!store
<1>13. ThreadInv'
  BY <1>1, <1>2, <1>3, <1>4, <1>5 DEF RInv, ThreadInv, R!session
<1>14. HandInv'
  BY <1>1, <1>2, <1>3, <1>4, <1>5, AttemptAssumption DEF RInv, HandInv, R!store, Begun
<1>15. DiskInv'
  BY <1>1, <1>2, <1>3, <1>4, <1>5, Kinds, AttemptAssumption
     DEF RInv, DiskInv, Begun, R!Open, R!store, SetInv
<1>16. GoneInv'
  BY <1>1, <1>2, <1>3, <1>4, <1>5, Kinds, AttemptAssumption
     DEF RInv, GoneInv, R!store, R!session, R!lists, SetInv, ReplyInv, Reply
<1>17. BootInv' /\ CallInv'
  BY <1>1, <1>2, <1>3, <1>4, <1>5 DEF RInv, BootInv, CallInv, Named, R!store, R!session
<1>18. ClaimInv'
  BY <1>1, <1>2, <1>3, <1>4, <1>5 DEF RInv, ClaimInv
<1>19. FinishInv'
  BY <1>1, <1>2, <1>3, <1>4, <1>5 DEF RInv, FinishInv, Begun, R!store
<1>20. OneCall'
  BY <1>1, <1>2, <1>3, <1>4, <1>5 DEF RInv, OneCall
<1>21. EndsInv'
  BY <1>1, <1>2, <1>3, <1>4, <1>5, Kinds, AttemptAssumption
     DEF RInv, EndsInv, R!StoppedUnlessMisread, R!FinishedWorkKept, R!Listed, R!Open, R!store
<1>22. StoreInv' /\ SetInv' /\ ReplyInv' /\ AnswerInv'
  BY StoreStays, SetStays, ReplyStays, AnswerStays
     DEF RInv, R!Claim, R!Idle, R!store, R!bootRow, R!fleet, R!session, R!lists
<1> QED BY <1>6, <1>7, <1>8, <1>9, <1>10, <1>11, <1>12, <1>13, <1>14, <1>15, <1>16, <1>17,
           <1>18, <1>19, <1>20, <1>21, <1>22
    DEF RInv

LEMMA AcceptClaimHolds ==
    ASSUME RInv, NEW m \in net, R!AcceptClaim(m)
    PROVE  RInv'
<1>1. /\ m.kind = "claim" /\ m.a \in R!Attempts /\ m.boot \in R!Boots /\ m \in Message
      /\ m.live \in BOOLEAN
      /\ m.a <= made /\ m.boot <= boots /\ net' = net \ {m}
  BY Kinds DEF RInv, NetInv, OrderInv, R!AcceptClaim
<1>2. /\ m.live => run.at = "claiming" /\ m.a = run.a /\ m.boot = boot
      /\ run.at = "claiming" /\ m.a = run.a => m.boot = boot
  BY <1>1 DEF RInv, ClaimInv
<1>3. \/ Begun(m.a) /\ UNCHANGED R!store
      \/ /\ ~Begun(m.a) /\ m.a \notin child /\ results[m.a] = "none" /\ R!Open = {}
            /\ R!Open' = {m.a}
         /\ attempts' = [attempts EXCEPT ![m.a] = "running"]
               /\ from' = [from EXCEPT ![m.a] = m.boot]
         /\ cur' = m.a /\ stage' = "running" /\ UNCHANGED end
  BY <1>1 DEF RInv, R!AcceptClaim, Begun, R!Admissible, DiskInv, StoreInv, R!Open
<1>4. \/ /\ m.live /\ run'.at = "claimed" /\ run'.a = run.a /\ run'.out = run.out
         /\ file' = [file EXCEPT ![m.a] = "open"]
      \/ ~m.live /\ UNCHANGED <<run, file>>
  <2>1. CASE m.live
    <3>1. run' = [run EXCEPT !.at = "claimed"] /\ file' = [file EXCEPT ![m.a] = "open"]
      BY <2>1 DEF R!AcceptClaim, R!Goto
    <3> QED BY <2>1, <3>1, RunFields DEF RInv
  <2>2. CASE ~m.live
    BY <2>2 DEF R!AcceptClaim
  <2> QED BY <2>1, <2>2
<1>5. UNCHANGED <<R!bootRow, R!fleet, results, child, boot, R!session, R!lists, holding,
                  R!counts, faults, misread>>
  BY DEF R!AcceptClaim
<1>6. /\ \A a \in R!Attempts : a # m.a => attempts'[a] = attempts[a] /\ from'[a] = from[a]
      /\ Begun(m.a)' /\ Begun(m.a) => attempts'[m.a] = attempts[m.a] /\ from'[m.a] = from[m.a]
      /\ ~Begun(m.a) => attempts'[m.a] = "running" /\ from'[m.a] = m.boot
      /\ end' = end /\ cur' \in {cur, m.a}
      /\ \A a \in R!Attempts : Begun(a) => Begun(a)'
      /\ \A a \in R!Attempts : a \in R!Open' => a \in R!Open \/ (a = m.a /\ ~Begun(a))
  BY <1>1, <1>3 DEF RInv, StoreInv, Begun, R!Open, R!store
<1>7. /\ \A a \in R!Attempts : Launching(a)' <=> Launching(a)
      /\ \A a \in R!Attempts : file'[a] = file[a] \/ (m.live /\ a = m.a /\ file'[a] = "open")
      /\ run'.a = run.a /\ run'.out = run.out
      /\ m.live => run.at = "claiming" /\ run'.at = "claimed" /\ file'[m.a] = "open"
      /\ ~m.live => run' = run /\ file' = file
  BY <1>1, <1>2, <1>4 DEF RInv, FileInv, Launching
<1>8. StoreInv'
  <2>8. CASE UNCHANGED R!store
    BY <2>8 DEF RInv, StoreInv, R!store, R!Open
  <2>9. CASE /\ R!Open' = {m.a} /\ cur' = m.a /\ stage' = "running" /\ UNCHANGED end
             /\ attempts' = [attempts EXCEPT ![m.a] = "running"]
                   /\ from' = [from EXCEPT ![m.a] = m.boot]
    BY <1>1, <2>9 DEF RInv, StoreInv, R!Attempts
  <2> QED BY <1>3, <2>8, <2>9
<1>9. FileInv'
  BY DEF RInv, FileInv, R!AcceptClaim
<1>10. PlaceInv'
  BY AttemptAssumption, Kinds
     DEF RInv, PlaceInv, ThreadInv, FileInv, R!AcceptClaim, R!store, R!Admissible, R!Open,
         R!Attempts, R!Goto, R!bootRow, R!fleet, R!session, Running
<1>11. NetInv'
  BY DEF RInv, NetInv, R!AcceptClaim
<1>12. FreshInv'
  BY <1>1, <1>2, <1>5, <1>6, <1>7, Idles, AttemptAssumption
     DEF RInv, FreshInv, R!session, R!lists, R!counts, CountInv, R!Attempts
<1>13. OrderInv'
  BY <1>1, <1>2, <1>5, <1>6, <1>7 DEF RInv, OrderInv, R!counts
<1>14. ThreadInv'
  BY <1>1, <1>2, <1>5, <1>6, <1>7, Idles DEF RInv, ThreadInv, R!session, R!lists
<1>15. HandInv'
  BY <1>1, <1>2, <1>5, <1>6, <1>7, Idles, AttemptAssumption
     DEF RInv, HandInv, Own, Excused, ThreadInv, Begun, R!Open
<1>16. DiskInv'
  BY <1>1, <1>2, <1>5, <1>6, <1>7 DEF RInv, DiskInv, SetInv
<1>17. GoneInv'
  BY <1>1, <1>2, <1>5, <1>6, <1>7, Idles, AttemptAssumption
     DEF RInv, GoneInv, SetInv, ReplyInv, Reply, R!session, R!lists, Begun
<1>18. BootInv' /\ CallInv'
  BY <1>1, <1>2, <1>5, <1>6, <1>7, Idles, AttemptAssumption
     DEF RInv, BootInv, CallInv, Named, R!Open, Begun, R!session, DiskInv
<1>19. ClaimInv'
  BY <1>1, <1>2, <1>5, <1>6, <1>7 DEF RInv, ClaimInv, OneCall
<1>20. FinishInv'
  <2>8. \A n \in net' : n.kind = "finish" => n \in net /\ n.a \in R!Attempts
        /\ (n.live => ~m.live)
    <3>1. \A n \in net : n.kind = "finish" => n.a \in R!Attempts
      BY Kinds DEF RInv, NetInv
    <3> QED BY <1>1, <1>2, <3>1 DEF RInv, FinishInv
  <2> QED
    BY <1>1, <1>5, <1>6, <1>7, <2>8 DEF RInv, FinishInv
<1>21. OneCall'
  BY Kinds
     DEF RInv, OneCall, ClaimInv, HandInv, FreshInv, GoneInv, DiskInv, StoreInv, FileInv,
         SetInv, R!AcceptClaim, R!store, R!Admissible, R!Open, R!Attempts, R!Goto, R!bootRow,
         R!fleet, R!session, R!lists, R!counts, Begun, Own, Excused, Launching, R!Boots
<1>22. AnswerInv'
  BY <1>1, <1>2, <1>5, <1>6, <1>7, Idles, AttemptAssumption
     DEF RInv, AnswerInv, GoneInv, ReplyInv, Reply, R!session, Begun
<1>23. EndsInv'
  BY <1>1, <1>2, <1>5, <1>6, <1>7, Idles, AttemptAssumption
     DEF RInv, EndsInv, R!StoppedUnlessMisread, R!FinishedWorkKept, R!Listed, SetInv, DiskInv
<1>24. CountInv' /\ FlagInv' /\ SetInv' /\ ReplyInv'
  BY CountStays, FlagStays, SetStays, ReplyStays
     DEF RInv, R!AcceptClaim, R!store, R!Admissible, R!Open, R!Attempts, R!Goto,
         R!bootRow, R!fleet, R!session, R!lists, R!counts
<1> QED BY <1>8, <1>9, <1>10, <1>11, <1>12, <1>13, <1>14, <1>15, <1>16, <1>17, <1>18, <1>19,
           <1>20, <1>21, <1>22, <1>23, <1>24
    DEF RInv

LEMMA RefuseClaimHolds ==
    ASSUME RInv, NEW m \in net, R!RefuseClaim(m)
    PROVE  RInv'
<1>1. /\ m.kind = "claim" /\ m.a \in R!Attempts /\ attempts[m.a] = "none" /\ net' = net \ {m}
      /\ m.live => run.at = "claiming" /\ m.a = run.a
  BY Kinds DEF RInv, NetInv, ClaimInv, R!RefuseClaim
<1>2. \/ m.live /\ run' = R!Idle /\ file' = [file EXCEPT ![m.a] = "none"]
      \/ ~m.live /\ UNCHANGED <<run, file>>
  BY DEF R!RefuseClaim
<1>3. UNCHANGED <<R!store, R!bootRow, R!fleet, results, child, boot, R!session, R!lists,
                  R!counts, faults, misread>>
  BY DEF R!RefuseClaim
<1>4. FlagInv'
  BY Kinds, Idles
     DEF RInv, FlagInv, R!RefuseClaim, R!Admissible, R!Open, R!Attempts, R!Release, R!store,
         R!bootRow, R!fleet, R!session, R!lists, R!counts
<1>5. FileInv'
  BY DEF RInv, FileInv, R!RefuseClaim
<1>6. PlaceInv'
  BY AttemptAssumption, Kinds, Idles
     DEF RInv, PlaceInv, ThreadInv, FileInv, R!RefuseClaim, R!Admissible, R!Open, R!Attempts,
         R!Idle, R!Release, R!store, R!bootRow, R!fleet, R!session, R!lists, R!counts,
         Running, R!NoReply
<1>7. NetInv'
  BY DEF RInv, NetInv, R!RefuseClaim
<1>8. FreshInv'
  BY <1>1, <1>2, <1>3, Idles, AttemptAssumption
     DEF RInv, FreshInv, FileInv, R!store, R!session, R!lists, R!counts
<1>9. OrderInv'
  BY <1>1, <1>2, <1>3, Idles DEF RInv, OrderInv, CountInv, R!store, R!counts
<1>10. ThreadInv'
  BY Kinds, Idles
     DEF RInv, ThreadInv, StoreInv, FileInv, SetInv, ClaimInv, OneCall, R!RefuseClaim,
         R!Admissible, R!Open, R!Attempts, R!Idle, R!Release, R!store, R!bootRow, R!fleet,
         R!session, R!lists, R!counts, R!NoReply, R!Boots
<1>11. HandInv'
  BY Kinds, Idles
     DEF RInv, HandInv, ThreadInv, DiskInv, ClaimInv, OneCall, StoreInv, FileInv, SetInv,
         R!RefuseClaim, R!Admissible, R!Open, R!Attempts, R!Release, R!store, R!bootRow,
         R!fleet, R!session, R!lists, Begun, Own, Excused, Launching, R!Boots
<1>12. DiskInv'
  BY <1>1, <1>2, <1>3, Idles, AttemptAssumption
     DEF RInv, DiskInv, FileInv, Launching, Begun, R!Open, R!store
<1>13. GoneInv'
  BY Kinds, Idles
     DEF RInv, GoneInv, ThreadInv, HandInv, DiskInv, ClaimInv, OneCall, StoreInv, FileInv,
         SetInv, R!RefuseClaim, R!Admissible, R!Open, R!Attempts, R!Release, R!store,
         R!bootRow, R!fleet, R!session, R!lists, R!counts, Launching, Begun, Own, Excused,
         R!Boots
<1>14. BootInv' /\ CallInv'
  BY Kinds, Idles
     DEF RInv, BootInv, CallInv, Named, ThreadInv, ClaimInv, OneCall, StoreInv, FileInv, SetInv,
         R!RefuseClaim, R!Admissible, R!Open, R!Attempts, R!Release, R!store, R!bootRow,
         R!session
<1>15. ClaimInv'
  BY Kinds, Idles DEF RInv, ClaimInv, ThreadInv, OneCall, R!RefuseClaim
<1>16. FinishInv'
  BY Kinds, Idles
     DEF RInv, FinishInv, ThreadInv, HandInv, ClaimInv, OneCall, StoreInv, FileInv, SetInv,
         R!RefuseClaim, R!Admissible, R!Open, R!Attempts, R!Release, R!store, R!bootRow,
         R!fleet, R!session, R!lists, R!counts, Begun, Launching, Own, Excused, R!Boots
<1>17. OneCall'
  BY Kinds, Idles
     DEF RInv, OneCall, ClaimInv, StoreInv, FileInv, SetInv, R!RefuseClaim, R!Admissible,
         R!Open, R!Attempts, R!Release, R!store, R!bootRow, R!fleet, R!session, R!lists,
         R!counts, R!Boots
<1>18. EndsInv'
  BY <1>1, <1>2, <1>3, Idles, AttemptAssumption
     DEF RInv, EndsInv, R!StoppedUnlessMisread, R!FinishedWorkKept, R!Listed, R!Open, FileInv,
         R!store
<1>19. StoreInv' /\ CountInv' /\ SetInv' /\ ReplyInv' /\ AnswerInv'
  BY StoreStays, CountStays, SetStays, ReplyStays, AnswerStays
     DEF RInv, R!RefuseClaim, R!Admissible, R!Open, R!Attempts, R!Idle, R!Release,
         R!store, R!bootRow, R!fleet, R!session, R!lists, R!counts
<1> QED BY <1>4, <1>5, <1>6, <1>7, <1>8, <1>9, <1>10, <1>11, <1>12, <1>13, <1>14, <1>15,
           <1>16, <1>17, <1>18, <1>19
    DEF RInv

LEMMA LaunchHolds ==
    ASSUME RInv, R!Launch
    PROVE  RInv'
<1>1. /\ run.at = "claimed" /\ run.a \in R!Attempts /\ Own(run.a) /\ results[run.a] = "none"
      /\ run.a \notin child
  BY DEF RInv, ThreadInv, HandInv, R!Launch
<1>2. /\ child' = child \cup {run.a} /\ file' = [file EXCEPT ![run.a] = "open"]
      /\ run'.at = "running" /\ run'.a = run.a /\ run'.out = run.out
      /\ UNCHANGED <<R!store, R!bootRow, R!fleet, results, boot, R!session, R!lists, holding,
                     net,
                 R!counts, faults, misread>>
  BY DEF RInv, R!Launch, R!Goto
<1>3. SetInv'
  BY DEF RInv, SetInv, PlaceInv, ThreadInv, ReplyInv, NetInv, R!Launch, R!Goto, R!store,
         R!fleet, R!lists
<1>4. FileInv'
  BY DEF RInv, FileInv, R!Launch
<1>5. PlaceInv'
  BY AttemptAssumption
     DEF RInv, PlaceInv, ThreadInv, FileInv, R!Launch, R!Goto, R!store, R!bootRow, R!fleet,
         R!session, R!lists, Running
<1>6. FreshInv'
  BY AttemptAssumption
     DEF RInv, FreshInv, StoreInv, FileInv, SetInv, HandInv, FinishInv, GoneInv, AnswerInv,
         R!Launch, R!Goto, R!store, R!bootRow, R!fleet, R!session, R!lists, R!counts, Begun,
         Own, Excused
<1>7. OrderInv'
  BY DEF RInv, OrderInv, StoreInv, CountInv, NetInv, HandInv, FinishInv, GoneInv, AnswerInv,
         R!Launch, R!Goto, R!store, R!bootRow, R!fleet, R!session, R!lists, R!counts,
         R!Attempts, R!Boots, R!Open, Begun, Own, Excused, Launching
<1>8. ThreadInv'
  BY DEF RInv, ThreadInv, StoreInv, FileInv, SetInv, HandInv, FinishInv, GoneInv, AnswerInv,
         R!Launch, R!Goto, R!store, R!bootRow, R!fleet, R!session, R!lists, R!counts, R!Idle
<1>9. HandInv'
  BY <1>1, <1>2 DEF RInv, HandInv, Own, Excused, Begun, FileInv, R!store, R!Open
<1>10. DiskInv'
  BY <1>1, <1>2 DEF RInv, DiskInv, Own, Excused, Begun, Launching, FileInv, SetInv, R!store,
        R!Open
<1>11. GoneInv'
  BY DEF RInv, GoneInv, ThreadInv, HandInv, DiskInv, FinishInv, AnswerInv, R!Launch, R!Goto,
         R!store, R!bootRow, R!fleet, R!session, R!lists, R!counts, Launching,
         R!Attempts, Begun, Own, Excused, R!Open
<1>12. BootInv' /\ CallInv'
  <2>1. \A m \in net : m.kind = "boot" => ~(from[run.a] < m.boot)
    BY <1>1, NotLater DEF RInv, ThreadInv
  <2>2. \A m, a : a # run.a /\ Named(m, a) => Named(m, a)'
    BY <1>2 DEF Named
  <2>3. R!Open' = R!Open /\ from' = from /\ net' = net
    BY <1>2 DEF R!Open, R!store
  <2>4. CallInv'
    BY <1>2, CallStays DEF RInv, R!session
  <2> QED BY <2>1, <2>2, <2>3, <2>4 DEF RInv, BootInv
<1>13. ClaimInv'
  BY DEF RInv, ClaimInv, ThreadInv, HandInv, FinishInv, GoneInv, AnswerInv, R!Launch, R!Goto
<1>14. FinishInv'
  BY DEF RInv, FinishInv, ThreadInv, HandInv, GoneInv, AnswerInv, R!Launch, R!Goto, R!store,
         R!bootRow, R!fleet, R!session, R!lists, R!counts, Begun, Launching, R!Attempts, Own,
               Excused,
         R!Open
<1>15. AnswerInv'
  BY DEF RInv, AnswerInv, ThreadInv, HandInv, FinishInv, GoneInv, R!Launch, R!Goto, R!store,
         R!bootRow, R!fleet, R!session, R!lists, R!counts, Begun, Own, Excused
<1>16. EndsInv'
  BY DEF RInv, EndsInv, HandInv, FinishInv, GoneInv, AnswerInv, R!Launch, R!Goto, R!store,
         R!bootRow, R!fleet, R!session, R!lists, R!counts, R!StoppedUnlessMisread,
         R!FinishedWorkKept, R!Attempts, R!Open, R!Listed, Begun, Own, Excused, Launching
<1>17. StoreInv' /\ CountInv' /\ FlagInv' /\ ReplyInv' /\ NetInv' /\ OneCall'
  BY StoreStays, CountStays, FlagStays, ReplyStays, NetStays, OneCallStays
     DEF RInv, R!Launch, R!Goto, R!store, R!bootRow, R!fleet, R!session, R!lists,
         R!counts
<1> QED BY <1>3, <1>4, <1>5, <1>6, <1>7, <1>8, <1>9, <1>10, <1>11, <1>12, <1>13, <1>14, <1>15,
           <1>16, <1>17
    DEF RInv

LEMMA StageSucceedsHolds ==
    ASSUME RInv, NEW w \in {"good", "bad"}, R!StageSucceeds(w)
    PROVE  RInv'
<1>1. /\ run.at \in {"claimed", "running"} /\ run'.at = "settling" /\ run'.a = run.a
      /\ run'.out \in {"ok", "failed", "cancelled"}
      /\ UNCHANGED <<boot, R!session, R!lists>>
  BY DEF RInv, R!StageSucceeds
<1>2. CountInv'
  BY AttemptAssumption
     DEF RInv, CountInv, R!StageSucceeds, R!Fault, R!store, R!bootRow, R!fleet, R!session,
         R!lists, R!counts, R!Boots
<1>3. FileInv'
  BY DEF RInv, FileInv, R!StageSucceeds
<1>4. PlaceInv'
  BY AttemptAssumption
     DEF RInv, PlaceInv, ThreadInv, FileInv, R!StageSucceeds, R!Fault, R!store, R!bootRow,
         R!fleet, R!session, R!lists, Running
<1>5. FreshInv'
  BY AttemptAssumption
     DEF RInv, FreshInv, StoreInv, FileInv, SetInv, HandInv, FinishInv, GoneInv, DiskInv,
         R!StageSucceeds, R!Fault, R!store, R!bootRow, R!fleet, R!session, R!lists, R!counts,
         Begun, Own, Excused
<1>6. OrderInv'
  BY DEF RInv, OrderInv, StoreInv, CountInv, NetInv, HandInv, FinishInv, GoneInv, DiskInv,
         R!StageSucceeds, R!Fault, R!store, R!bootRow, R!fleet, R!session, R!lists, R!counts,
         R!Attempts, R!Boots, R!Open, Begun, Own, Excused, Launching
<1>7. ThreadInv'
  BY <1>1, Idles DEF RInv, ThreadInv, R!session
<1>8. HandInv'
  BY DEF RInv, HandInv, ThreadInv, DiskInv, FinishInv, GoneInv, R!StageSucceeds, R!Fault,
         R!store, R!bootRow, R!fleet, R!session, R!lists, R!counts, Begun, Own, Excused, R!Open,
         R!Attempts, Launching
<1>9. DiskInv'
  BY DEF RInv, DiskInv, ThreadInv, HandInv, FinishInv, GoneInv, R!StageSucceeds, R!Fault,
         R!store, R!bootRow, R!fleet, R!session, R!lists, R!counts, R!Attempts, Begun, R!Open,
         Launching, Own, Excused
<1>10. GoneInv'
  BY DEF RInv, GoneInv, ThreadInv, HandInv, DiskInv, FinishInv, R!StageSucceeds, R!Fault,
         R!store, R!bootRow, R!fleet, R!session, R!lists, R!counts, Launching,
         R!Attempts, Begun, Own, Excused, R!Open
<1>11. BootInv' /\ CallInv'
  <2>1. \A m \in net : m.kind = "boot" => ~(from[run.a] < m.boot)
    BY NotLater DEF RInv, ThreadInv, HandInv, R!StageSucceeds
  <2>2. \A a \in R!Attempts : a # run.a => results'[a] = results[a]
    BY DEF R!StageSucceeds, RInv, FileInv
  <2>3. UNCHANGED <<child, misread, attempts, from, net, sess, answer>> /\ R!Open' = R!Open
    BY <1>1 DEF R!StageSucceeds, R!store, R!session, R!Open
  <2>4. \A m, a : a \in R!Attempts /\ a # run.a /\ Named(m, a) => Named(m, a)'
    BY <2>2, <2>3 DEF Named
  <2>5. R!Open \subseteq R!Attempts
    BY DEF R!Open
  <2>6. CallInv'
    BY <1>1, <2>3, CallStays DEF RInv
  <2> QED BY <2>1, <2>3, <2>4, <2>5, <2>6 DEF RInv, BootInv
<1>12. ClaimInv'
  BY DEF RInv, ClaimInv, R!StageSucceeds
<1>13. FinishInv'
  BY DEF RInv, FinishInv, ThreadInv, HandInv, GoneInv, DiskInv, R!StageSucceeds, R!Fault,
         R!store, R!bootRow, R!fleet, R!session, R!lists, R!counts, Begun, Launching,
         R!Attempts, Own, Excused, R!Open
<1>14. EndsInv'
  BY DEF RInv, EndsInv, HandInv, FinishInv, GoneInv, DiskInv, R!StageSucceeds, R!Fault,
         R!store, R!bootRow, R!fleet, R!session, R!lists, R!counts, R!StoppedUnlessMisread,
         R!FinishedWorkKept, R!Attempts, R!Open, R!Listed, Begun, Own, Excused, Launching
<1>15. StoreInv' /\ FlagInv' /\ SetInv' /\ ReplyInv' /\ NetInv' /\ OneCall'
       /\ AnswerInv'
  BY StoreStays, FlagStays, SetStays, ReplyStays, NetStays, OneCallStays, AnswerStays
     DEF RInv, R!StageSucceeds, R!Fault, R!store, R!bootRow, R!fleet, R!session,
         R!lists, R!counts
<1> QED BY <1>2, <1>3, <1>4, <1>5, <1>6, <1>7, <1>8, <1>9, <1>10, <1>11, <1>12, <1>13, <1>14,
           <1>15
    DEF RInv

LEMMA StageFailsHolds ==
    ASSUME RInv, NEW out \in {"failed", "cancelled"}, R!StageFails(out)
    PROVE  RInv'
<1>1. /\ run.at \in {"claimed", "running"} /\ run'.at = "settling" /\ run'.a = run.a
      /\ run'.out \in {"ok", "failed", "cancelled"}
      /\ UNCHANGED <<boot, R!session, R!lists>>
  BY DEF RInv, R!StageFails
<1>2. PlaceInv'
  BY AttemptAssumption
     DEF RInv, PlaceInv, ThreadInv, FileInv, R!StageFails, R!store, R!bootRow, R!fleet,
         R!disk, R!session, R!lists, Running
<1>3. OrderInv'
  BY DEF RInv, OrderInv, StoreInv, CountInv, NetInv, HandInv, FinishInv, R!StageFails,
         R!store, R!bootRow, R!fleet, R!disk, R!session, R!lists, R!counts, R!Attempts,
         R!Boots, R!Open, Begun, Own, Excused, Launching
<1>4. ThreadInv'
  BY <1>1, Idles DEF RInv, ThreadInv, R!session
<1>5. HandInv'
  BY DEF RInv, HandInv, ThreadInv, DiskInv, FinishInv, R!StageFails, R!store, R!bootRow,
         R!fleet, R!disk, R!session, R!lists, R!counts, Begun, Own, Excused, R!Open, R!Attempts,
         Launching
<1>6. DiskInv'
  BY DEF RInv, DiskInv, ThreadInv, HandInv, FinishInv, R!StageFails, R!store, R!bootRow,
         R!fleet, R!disk, R!session, R!lists, R!counts, R!Attempts, Begun, R!Open, Launching,
         Own, Excused
<1>7. GoneInv'
  BY DEF RInv, GoneInv, ThreadInv, HandInv, DiskInv, FinishInv, R!StageFails, R!store,
         R!bootRow, R!fleet, R!disk, R!session, R!lists, R!counts, Launching,
         R!Attempts, Begun, Own, Excused, R!Open
<1>8. ClaimInv'
  BY DEF RInv, ClaimInv, R!StageFails
<1>9. FinishInv'
  BY DEF RInv, FinishInv, ThreadInv, HandInv, R!StageFails, R!store, R!bootRow, R!fleet,
         R!disk, R!session, R!lists, R!counts, Begun, Launching, R!Attempts, Own, Excused, R!Open
<1>10. StoreInv' /\ CountInv' /\ FlagInv' /\ SetInv' /\ FileInv' /\ ReplyInv'
       /\ NetInv' /\ FreshInv' /\ BootInv' /\ CallInv' /\ OneCall' /\ AnswerInv' /\ EndsInv'
  BY StoreStays, CountStays, FlagStays, SetStays, FileStays, ReplyStays, NetStays, FreshStays,
     BootStays, CallStays, OneCallStays, AnswerStays, EndsStays
     DEF RInv, R!StageFails, R!store, R!bootRow, R!fleet, R!disk, R!session, R!lists,
         R!counts
<1> QED BY <1>2, <1>3, <1>4, <1>5, <1>6, <1>7, <1>8, <1>9, <1>10 DEF RInv

LEMMA SettleHolds ==
    ASSUME RInv, NEW saved \in BOOLEAN, R!Settle(saved)
    PROVE  RInv'
<1>1. run.out \in {"ok", "failed", "cancelled"} /\ results' = results
  BY RunFields DEF RInv, ThreadInv, R!Settle
<1>2. CountInv'
  BY AttemptAssumption
     DEF RInv, CountInv, R!Settle, R!Fault, R!Goto, R!bootRow, R!fleet, R!counts, R!Boots
<1>3. SetInv'
  BY DEF RInv, SetInv, PlaceInv, ThreadInv, ReplyInv, NetInv, R!Settle, R!Fault, R!Goto,
         R!store, R!fleet
<1>4. FileInv'
  BY <1>1 DEF RInv, FileInv, R!Settle
<1>5. PlaceInv'
  BY AttemptAssumption
     DEF RInv, PlaceInv, ThreadInv, FileInv, R!Settle, R!Fault, R!Goto, R!store, R!bootRow,
         R!fleet, R!session, Running
<1>6. FreshInv'
  BY AttemptAssumption
     DEF RInv, FreshInv, StoreInv, FileInv, SetInv, HandInv, DiskInv, R!Settle, R!Fault,
         R!Goto, R!store, R!bootRow, R!fleet, R!session, R!counts, R!Attempts, R!Boots, Begun,
         Own, Excused
<1>7. OrderInv'
  BY DEF RInv, OrderInv, StoreInv, CountInv, NetInv, HandInv, DiskInv, R!Settle, R!Fault,
         R!Goto, R!store, R!bootRow, R!fleet, R!session, R!counts, R!Attempts, R!Boots,
         R!Open, Begun, Own, Excused, Launching
<1>8. ThreadInv'
  BY DEF RInv, ThreadInv, StoreInv, FileInv, SetInv, HandInv, DiskInv, R!Settle, R!Fault,
         R!Goto, R!store, R!bootRow, R!fleet, R!session, R!counts, R!Idle, R!Attempts,
         R!NoReply, R!Boots, R!Open, Begun, Own, Excused, Launching
<1>9. HandInv'
  BY DEF RInv, HandInv, ThreadInv, DiskInv, R!Settle, R!Fault, R!Goto, R!store, R!bootRow,
         R!fleet, R!session, R!counts, Begun, Own, Excused, R!Open, R!Attempts, Launching
<1>10. DiskInv'
  BY DEF RInv, DiskInv, ThreadInv, HandInv, R!Settle, R!Fault, R!Goto, R!store, Begun, R!Open,
         Launching, Own, Excused
<1>11. GoneInv'
  BY DEF RInv, GoneInv, ThreadInv, HandInv, DiskInv, R!Settle, R!Fault, R!Goto, R!store,
         R!bootRow, R!fleet, R!session, R!counts, Launching, R!Attempts, Begun, Own, Excused,
         R!Open
<1>12. ClaimInv'
  BY DEF RInv, ClaimInv, ThreadInv, HandInv, DiskInv, R!Settle, R!Fault, R!Goto, R!store,
         R!bootRow, R!fleet, R!session, R!counts, R!Attempts, Begun, Own, Excused, R!Open,
               Launching
<1>13. FinishInv'
  BY DEF RInv, FinishInv, ThreadInv, HandInv, DiskInv, R!Settle, R!Fault, R!Goto, R!store,
         R!bootRow, R!fleet, R!session, R!counts, Begun, Launching, R!Attempts, Own, Excused,
               R!Open
<1>14. EndsInv'
  BY DEF RInv, EndsInv, HandInv, DiskInv, R!Settle, R!Fault, R!Goto, R!store, R!bootRow,
         R!fleet, R!session, R!counts, R!StoppedUnlessMisread, R!FinishedWorkKept, R!Attempts,
         R!Open, R!Listed, Begun, Own, Excused, Launching
<1>15. StoreInv' /\ FlagInv' /\ ReplyInv' /\ NetInv' /\ BootInv' /\ CallInv' /\ OneCall'
       /\ AnswerInv'
  BY StoreStays, FlagStays, ReplyStays, NetStays, BootStays, CallStays, OneCallStays, AnswerStays
     DEF RInv, R!Settle, R!Fault, R!Goto, R!store, R!bootRow, R!fleet, R!session,
         R!counts
<1> QED BY <1>2, <1>3, <1>4, <1>5, <1>6, <1>7, <1>8, <1>9, <1>10, <1>11, <1>12, <1>13, <1>14,
           <1>15
    DEF RInv

LEMMA SaveAgainHolds ==
    ASSUME RInv, R!SaveAgain
    PROVE  RInv'
<1>1. run.out \in {"ok", "failed", "cancelled"} /\ results' = results
  BY RunFields DEF RInv, ThreadInv, R!SaveAgain
<1>2. FileInv'
  BY <1>1 DEF RInv, FileInv, R!SaveAgain
<1>3. PlaceInv'
  BY AttemptAssumption
     DEF RInv, PlaceInv, ThreadInv, FileInv, R!SaveAgain, R!Goto, R!store, R!bootRow, R!fleet,
         R!session, R!lists, Running
<1>4. FreshInv'
  BY AttemptAssumption
     DEF RInv, FreshInv, StoreInv, FileInv, SetInv, HandInv, DiskInv, R!SaveAgain, R!Goto,
         R!store, R!bootRow, R!fleet, R!session, R!lists, R!counts, R!Attempts, R!Boots,
         R!Open, Begun, Own, Excused, Launching
<1>5. OrderInv'
  BY DEF RInv, OrderInv, StoreInv, CountInv, NetInv, HandInv, DiskInv, R!SaveAgain, R!Goto,
         R!store, R!bootRow, R!fleet, R!session, R!lists, R!counts, R!Attempts, R!Boots,
         R!Open, Begun, Own, Excused, Launching
<1>6. ThreadInv'
  BY DEF RInv, ThreadInv, StoreInv, FileInv, SetInv, HandInv, DiskInv, R!SaveAgain, R!Goto,
         R!store, R!bootRow, R!fleet, R!session, R!lists, R!counts, R!Idle, R!Attempts,
         R!NoReply, R!Boots, R!Open, Begun, Own, Excused, Launching
<1>7. HandInv'
  BY DEF RInv, HandInv, ThreadInv, DiskInv, R!SaveAgain, R!Goto, R!store, R!bootRow, R!fleet,
         R!session, R!lists, R!counts, Begun, Own, Excused, R!Open, R!Attempts, Launching
<1>8. DiskInv'
  BY DEF RInv, DiskInv, ThreadInv, HandInv, R!SaveAgain, R!Goto, R!store, R!bootRow, R!fleet,
         R!session, R!lists, R!counts, R!Attempts, Begun, R!Open, Launching, Own, Excused
<1>9. GoneInv'
  BY DEF RInv, GoneInv, ThreadInv, HandInv, DiskInv, R!SaveAgain, R!Goto, R!store, R!bootRow,
         R!fleet, R!session, R!lists, R!counts, Launching, R!Attempts, Begun, Own, Excused,
         R!Open
<1>10. ClaimInv'
  BY DEF RInv, ClaimInv, ThreadInv, HandInv, DiskInv, R!SaveAgain, R!Goto, R!store, R!bootRow,
         R!fleet, R!session, R!lists, R!counts, R!Attempts, Begun, Own, Excused, R!Open, Launching
<1>11. FinishInv'
  BY DEF RInv, FinishInv, ThreadInv, HandInv, DiskInv, R!SaveAgain, R!Goto, R!store,
         R!bootRow, R!fleet, R!session, R!lists, R!counts, Begun, Launching, R!Attempts, Own,
               Excused,
         R!Open
<1>12. EndsInv'
  BY DEF RInv, EndsInv, HandInv, DiskInv, R!SaveAgain, R!Goto, R!store, R!bootRow, R!fleet,
         R!session, R!lists, R!counts, R!StoppedUnlessMisread, R!FinishedWorkKept, R!Attempts,
         R!Open, R!Listed, Begun, Own, Excused, Launching
<1>13. StoreInv' /\ CountInv' /\ FlagInv' /\ SetInv' /\ ReplyInv' /\ NetInv'
       /\ BootInv' /\ CallInv' /\ OneCall' /\ AnswerInv'
  BY StoreStays, CountStays, FlagStays, SetStays, ReplyStays, NetStays, BootStays, CallStays,
     OneCallStays, AnswerStays
     DEF RInv, R!SaveAgain, R!Goto, R!store, R!bootRow, R!fleet, R!session, R!lists,
         R!counts
<1> QED BY <1>2, <1>3, <1>4, <1>5, <1>6, <1>7, <1>8, <1>9, <1>10, <1>11, <1>12, <1>13 DEF RInv

LEMMA DeliverHolds ==
    ASSUME RInv, NEW a \in R!Attempts, R!Deliver(a)
    PROVE  RInv'
<1>1. /\ run.at = "idle"
      /\ \/ run' = [at |-> "deliver", a |-> a, out |-> file[a]] /\ a \in R!Settled
         \/ run' = run
      /\ queue' \subseteq queue
      /\ UNCHANGED <<R!store, R!bootRow, R!fleet, R!disk, boot, R!session, held, cancelled,
                     doomed,
                holding, net, R!counts, faults, misread>>
  BY Idles DEF R!Deliver
<1>2. a \in R!Settled => file[a] \in {"ok", "failed", "cancelled"}
  BY DEF RInv, FileInv, R!Settled, R!Listed
<1>3. SetInv'
  BY Idles
     DEF RInv, SetInv, PlaceInv, ThreadInv, ReplyInv, NetInv, R!Deliver, R!Settled, R!Listed,
         R!Attempts, R!store, R!bootRow, R!fleet, R!disk
<1>4. PlaceInv'
  BY AttemptAssumption, Idles
     DEF RInv, PlaceInv, ThreadInv, FileInv, R!Deliver, R!Idle, R!Settled, R!Listed,
         R!Attempts, R!store, R!bootRow, R!fleet, R!disk, R!session, R!counts, Running,
         R!NoReply
<1>5. OrderInv'
  BY <1>1, <1>2, Idles, AttemptAssumption
     DEF RInv, OrderInv, FreshInv, CountInv, R!store, R!counts, R!Attempts, R!Settled,
         R!Listed
<1>6. ThreadInv'
  BY Idles
     DEF RInv, ThreadInv, StoreInv, FileInv, SetInv, DiskInv, FreshInv, FinishInv, R!Deliver,
         R!Idle, R!Settled, R!Listed, R!Attempts, R!store, R!bootRow, R!fleet, R!disk,
         R!session, R!counts, R!NoReply, R!Boots, R!Open, Begun, Launching
<1>7. HandInv'
  BY <1>1, <1>2, Idles, AttemptAssumption
     DEF RInv, HandInv, DiskInv, ThreadInv, Begun, R!store, R!disk
<1>8. DiskInv'
  BY Idles
     DEF RInv, DiskInv, ThreadInv, HandInv, FreshInv, FinishInv, R!Deliver, R!Settled,
         R!Listed, R!Attempts, R!store, R!bootRow, R!fleet, R!disk, R!session, R!counts,
         Begun, R!Open, Launching, Own, Excused
<1>9. GoneInv'
  BY Idles
     DEF RInv, GoneInv, ThreadInv, HandInv, DiskInv, FreshInv, FinishInv, R!Deliver,
         R!Settled, R!Listed, R!Attempts, R!store, R!bootRow, R!fleet, R!disk, R!session,
         R!counts, Launching, Begun, Own, Excused, R!Open
<1>10. ClaimInv'
  BY Idles
     DEF RInv, ClaimInv, ThreadInv, DiskInv, FreshInv, FinishInv, R!Deliver, R!Settled,
         R!Listed, R!Attempts, R!store, R!bootRow, R!fleet, R!disk, R!session, R!counts,
         Begun, R!Open, Launching
<1>11. FinishInv'
  BY Idles
     DEF RInv, FinishInv, ThreadInv, HandInv, DiskInv, FreshInv, R!Deliver, R!Settled,
         R!Listed, R!Attempts, R!store, R!bootRow, R!fleet, R!disk, R!session, R!counts,
         Begun, Launching, Own, Excused, R!Open
<1>12. StoreInv' /\ CountInv' /\ FlagInv' /\ FileInv' /\ ReplyInv' /\ NetInv'
       /\ FreshInv' /\ BootInv' /\ CallInv' /\ OneCall' /\ AnswerInv' /\ EndsInv'
  BY StoreStays, CountStays, FlagStays, FileStays, ReplyStays, NetStays, FreshStays,
     BootStays, CallStays, OneCallStays, AnswerStays, EndsStays
     DEF RInv, R!Deliver, R!Idle, R!Settled, R!Listed, R!Attempts, R!store, R!bootRow,
         R!fleet, R!disk, R!session, R!counts
<1> QED BY <1>3, <1>4, <1>5, <1>6, <1>7, <1>8, <1>9, <1>10, <1>11, <1>12 DEF RInv

LEMMA SendFinishHolds ==
    ASSUME RInv, R!SendFinish
    PROVE  RInv'
<1>1. /\ run.at = "deliver" /\ run.a \in R!Attempts /\ run.out \in {"ok", "failed", "cancelled"}
      /\ run.a \notin child /\ Begun(run.a) /\ (results[run.a] = "good" => run.out = "ok")
  BY RunFields DEF RInv, ThreadInv, HandInv, R!SendFinish
<1>2. /\ R!Checked \in {"ok", "failed", "cancelled"}
      /\ R!Outcome \in {"ok", "bad", "failed", "cancelled"}
      /\ results[run.a] = "good" => R!Checked = "ok" /\ R!Outcome = "ok"
  BY <1>1 DEF R!Checked, R!Outcome
<1>3. /\ file' = [file EXCEPT ![run.a] = R!Checked]
      /\ run'.at = "finishing" /\ run'.a = run.a /\ run'.out = R!Checked
      /\ UNCHANGED <<R!store, R!bootRow, R!fleet, results, child, boot, R!session, R!lists,
                     holding, R!counts, faults, misread>>
  BY DEF RInv, R!SendFinish
<1>4. PICK c \in Message : /\ net' = net \cup {c} /\ c.kind = "finish" /\ c.a = run.a
                           /\ c.live /\ c.out = R!Outcome
  <2> DEFINE new == [kind |-> "finish", a |-> run.a, out |-> R!Outcome, live |-> TRUE]
  <2>1. new \in Message
    BY <1>1, <1>2 DEF Message, FinishMsg
  <2>2. net' = net \cup {new}
    BY DEF R!SendFinish
  <2> QED BY <2>1, <2>2
<1>5. \A m \in net : ~(m.kind = "finish" /\ m.live)
  BY <1>1 DEF RInv, FinishInv
<1>6. FileInv'
  BY <1>1, <1>2, <1>3, <1>4, <1>5 DEF RInv, FileInv
<1>7. PlaceInv'
  BY AttemptAssumption
     DEF RInv, PlaceInv, ThreadInv, FileInv, R!SendFinish, R!Checked, R!Outcome, R!store,
         R!bootRow, R!fleet, R!session, R!lists, Running
<1>8. NetInv'
  BY <1>1, <1>2, <1>3, <1>4, <1>5 DEF RInv, NetInv
<1>9. FreshInv'
  BY <1>1, <1>2, <1>3, <1>4, <1>5, Kinds, Idles
     DEF RInv, FreshInv, FileInv, Begun, R!store, R!session, R!lists, R!counts
<1>10. OrderInv'
  BY <1>1, <1>2, <1>3, <1>4, <1>5 DEF RInv, OrderInv, R!store, R!counts
<1>11. ThreadInv'
  BY <1>1, <1>2, <1>3, <1>4, <1>5, Kinds, Idles DEF RInv, ThreadInv, R!session, R!lists
<1>12. HandInv'
  BY DEF RInv, HandInv, ThreadInv, DiskInv, FinishInv, FreshInv, R!SendFinish, R!Checked,
         R!Outcome, R!store, R!bootRow, R!fleet, R!session, R!lists, R!counts, Begun, Own,
               Excused,
         R!Open, R!Attempts, Launching
<1>13. DiskInv'
  BY <1>1, <1>2, <1>3, <1>4, <1>5, Kinds, Idles
     DEF RInv, DiskInv, FileInv, Launching, Begun, R!Open, R!store
<1>14. GoneInv'
  BY DEF RInv, GoneInv, ThreadInv, HandInv, DiskInv, FinishInv, FreshInv, R!SendFinish,
         R!Checked, R!Outcome, R!store, R!bootRow, R!fleet, R!session, R!lists, R!counts,
               Launching, R!Attempts, Begun, Own, Excused, R!Open
<1>15. BootInv' /\ CallInv'
  BY DEF RInv, BootInv, CallInv, Named, ThreadInv, HandInv, FinishInv, FreshInv, R!SendFinish,
        R!Checked,
         R!Outcome, R!store, R!bootRow, R!fleet, R!session, R!lists, R!counts, R!Open,
         R!Attempts, Begun, Own, Excused, Launching
<1>16. ClaimInv'
  BY <1>1, <1>2, <1>3, <1>4, <1>5 DEF RInv, ClaimInv
<1>17. FinishInv'
  BY <1>1, <1>2, <1>3, <1>4, <1>5, Kinds, Idles
     DEF RInv, FinishInv, Begun, Launching, R!store, NetInv
<1>18. OneCall'
  BY <1>1, <1>2, <1>3, <1>4, <1>5 DEF RInv, OneCall
<1>19. EndsInv'
  BY DEF RInv, EndsInv, HandInv, FinishInv, FreshInv, R!SendFinish, R!Checked, R!Outcome,
         R!store, R!bootRow, R!fleet, R!session, R!lists, R!counts, R!StoppedUnlessMisread,
         R!FinishedWorkKept, R!Attempts, R!Open, R!Listed, Begun, Own, Excused, Launching
<1>20. StoreInv' /\ CountInv' /\ FlagInv' /\ SetInv' /\ ReplyInv' /\ AnswerInv'
  BY StoreStays, CountStays, FlagStays, SetStays, ReplyStays, AnswerStays
     DEF RInv, R!SendFinish, R!Checked, R!Outcome, R!store, R!bootRow, R!fleet,
         R!session, R!lists, R!counts
<1> QED BY <1>6, <1>7, <1>8, <1>9, <1>10, <1>11, <1>12, <1>13, <1>14, <1>15, <1>16, <1>17,
           <1>18, <1>19, <1>20
    DEF RInv

LEMMA HandleFinishHolds ==
    ASSUME RInv, NEW m \in net, R!HandleFinish(m)
    PROVE  RInv'
<1>1. /\ m.kind = "finish" /\ m.a \in R!Attempts /\ m \in Message /\ m.live \in BOOLEAN
      /\ m.out \in {"ok", "bad", "failed", "cancelled"} /\ net' = net \ {m}
  BY Kinds DEF RInv, NetInv, R!HandleFinish
<1>2. /\ Begun(m.a) /\ m.a \notin child /\ ~Launching(m.a)
      /\ ~(run.a = m.a /\ run.at = "settling")
      /\ results[m.a] = "good" => m.out = "ok"
      /\ m.live => run.at = "finishing" /\ m.a = run.a
  BY <1>1 DEF RInv, FinishInv
<1>3. /\ \/ /\ m.a \in R!Open /\ cur = m.a /\ attempts' = [attempts EXCEPT ![m.a] = "resolved"]
            /\ end' = [end EXCEPT ![m.a] = IF m.out = "ok" THEN "succeeded" ELSE m.out]
            /\ stage' = IF m.out = "ok" THEN "succeeded" ELSE "failed"
            /\ m.out # "bad"
         \/ m.a \notin R!Open /\ UNCHANGED <<attempts, end, stage>>
      /\ UNCHANGED <<cur, from>> /\ requeued' \subseteq requeued
  BY DEF RInv, StoreInv, R!HandleFinish, R!store
<1>4. \/ /\ m.live /\ run' = R!Idle /\ file' = [file EXCEPT ![m.a] = "none"]
         /\ queue' \subseteq queue /\ cancelled' \subseteq cancelled
         /\ doomed' \subseteq doomed /\ held' \subseteq held
      \/ ~m.live /\ UNCHANGED <<run, file, R!lists>>
  BY <1>1 DEF R!HandleFinish, R!Done
<1>5. UNCHANGED <<R!bootRow, beat, results, child, boot, R!session, R!counts, faults, misread>>
  BY DEF R!HandleFinish
<1>6. /\ \A a \in R!Attempts : a # m.a => attempts'[a] = attempts[a] /\ end'[a] = end[a]
      /\ attempts[m.a] = "resolved" => attempts'[m.a] = attempts[m.a] /\ end'[m.a] = end[m.a]
      /\ attempts[m.a] # "resolved" /\ attempts'[m.a] = "resolved" => end'[m.a] # "none" /\
           end'[m.a] = IF m.out = "ok" THEN "succeeded" ELSE m.out
      /\ \A a \in R!Attempts : (Begun(a)' <=> Begun(a))
            /\ (attempts[a] = "resolved" => attempts'[a] = "resolved")
      /\ R!Open' = R!Open \ {m.a} /\ R!Open \subseteq R!Attempts
  BY <1>1, <1>2, <1>3 DEF RInv, StoreInv, Begun, R!Open
<1>7. /\ \A a \in R!Attempts : Launching(a)' => Launching(a)
      /\ \A a \in R!Attempts : file'[a] = file[a] \/ (m.live /\ a = m.a /\ file'[a] = "none")
      /\ m.live => run'.at = "idle" /\ run'.a = 0 /\ file'[m.a] = "none"
      /\ ~m.live => run' = run /\ file' = file
  BY <1>1, <1>2, <1>4, Idles DEF RInv, FileInv, Launching
<1>8. \A n \in net' : n \in net /\ n \in Message /\ (m.live => n.kind # "finish" \/ ~n.live)
  BY <1>1 DEF RInv, OneCall, NetInv
<1>9. StoreInv'
  <2>9. CASE m.a \in R!Open
    <3>1. R!Open = {m.a} /\ R!Open' = {}
      BY <1>6, <2>9 DEF RInv, StoreInv
    <3> QED
      BY <1>1, <1>3, <2>9, <3>1 DEF RInv, StoreInv
  <2>10. CASE m.a \notin R!Open
    BY <1>3, <2>10 DEF RInv, StoreInv, R!Open
  <2> QED BY <2>9, <2>10
<1>10. FlagInv'
  BY Kinds, Idles
     DEF RInv, FlagInv, R!HandleFinish, R!Open, R!Attempts, R!store, R!Done, R!Release,
         R!bootRow, R!session
<1>11. SetInv'
  BY <1>3, <1>4, <1>5 DEF RInv, SetInv, R!lists
<1>12. FileInv'
  BY Idles DEF RInv, FileInv, R!HandleFinish, R!Done
<1>13. PlaceInv'
  BY AttemptAssumption, Kinds, Idles
     DEF RInv, PlaceInv, ThreadInv, FileInv, R!HandleFinish, R!Open, R!Attempts, R!store,
         R!Done, R!Idle, R!Release, R!lists, R!session
<1>14. NetInv'
  BY DEF RInv, NetInv, R!HandleFinish
<1>15. FreshInv'
  BY <1>4, <1>1, <1>2, <1>5, <1>6, <1>7, <1>8, Idles, AttemptAssumption
     DEF RInv, FreshInv, Begun, R!session, R!lists, R!counts
<1>16. OrderInv'
  BY <1>3, <1>1, <1>2, <1>5, <1>6, <1>7, <1>8 DEF RInv, OrderInv, CountInv, R!counts
<1>17. ThreadInv'
  BY Kinds, Idles
     DEF RInv, ThreadInv, StoreInv, FileInv, SetInv, FinishInv, OneCall, HandInv, ClaimInv,
         R!HandleFinish, R!Open, R!Attempts, R!store, R!Done, R!Idle, R!Release, R!lists,
         R!bootRow, R!session, R!counts, R!NoReply, R!Boots, Begun, Launching, Own, Excused
<1>18. HandInv'
  <2>9. CASE m.live
    BY <1>7, <2>9 DEF HandInv
  <2>10. CASE ~m.live
    <3>1. UNCHANGED <<run, file, child, results, boot, from, misread>>
      BY <1>3, <1>5, <1>7, <2>10
    <3>2. run.a \in R!Attempts /\ run.a # m.a /\ Own(run.a) => Own(run.a)'
      BY <3>1, <1>6 DEF Own, Excused
    <3>3. run.at # "idle" => run.a \in R!Attempts
      BY DEF RInv, ThreadInv
    <3>4. run.at \in {"claiming", "claimed", "running", "settling"} => run.a # m.a
      BY <1>2 DEF Launching
    <3> QED
      BY <1>6, <3>1, <3>2, <3>3, <3>4 DEF RInv, HandInv
  <2> QED
    BY <1>1, <2>9, <2>10
<1>19. DiskInv'
  BY <1>1, <1>2, <1>5, <1>6, <1>7, <1>8 DEF RInv, DiskInv
<1>20. GoneInv'
  BY <1>4, <1>1, <1>2, <1>5, <1>6, <1>7, <1>8, Kinds, Idles, AttemptAssumption
     DEF R!lists, RInv, GoneInv, SetInv, ReplyInv, Reply, R!session
<1>21. BootInv' /\ CallInv'
  BY <1>3, <1>1, <1>2, <1>5, <1>6, <1>7, <1>8 DEF RInv, BootInv, CallInv, Named, R!session
<1>22. ClaimInv'
  BY Kinds, Idles
     DEF RInv, ClaimInv, ThreadInv, FinishInv, OneCall, HandInv, StoreInv, FileInv, SetInv,
         R!HandleFinish, R!Open, R!Attempts, R!store, R!Done, R!Release, R!lists, R!bootRow,
         R!session, R!counts, Begun, Launching, Own, Excused, R!Boots
<1>23. FinishInv'
  BY <1>1, <1>2, <1>5, <1>6, <1>7, <1>8, Kinds DEF RInv, FinishInv
<1>24. OneCall'
  BY Kinds, Idles DEF RInv, OneCall, FinishInv, R!HandleFinish
<1>25. AnswerInv'
  BY <1>3, <1>1, <1>2, <1>5, <1>6, <1>7, <1>8 DEF RInv, AnswerInv, ReplyInv, Reply, R!session
<1>26. EndsInv'
  BY <1>1, <1>2, <1>5, <1>6, <1>7, <1>8, Kinds, Idles, AttemptAssumption
     DEF RInv, EndsInv, R!StoppedUnlessMisread, R!FinishedWorkKept, R!Listed, SetInv, R!Open
<1>27. CountInv' /\ ReplyInv'
  BY CountStays, ReplyStays
     DEF RInv, R!HandleFinish, R!Open, R!Attempts, R!store, R!Done, R!bootRow,
         R!session, R!counts
<1> QED BY <1>9, <1>10, <1>11, <1>12, <1>13, <1>14, <1>15, <1>16, <1>17, <1>18, <1>19, <1>20,
           <1>21, <1>22, <1>23, <1>24, <1>25, <1>26, <1>27
    DEF RInv

LEMMA RejectResultHolds ==
    ASSUME RInv, NEW m \in net, R!RejectResult(m)
    PROVE  RInv'
<1>1. /\ m.kind = "finish" /\ m.a \in R!Attempts /\ m \in Message /\ m.live \in BOOLEAN
      /\ net' = net \ {m}
      /\ Begun(m.a) /\ m.a \notin child /\ ~Launching(m.a) /\ results[m.a] # "good"
      /\ m.live => run.at = "finishing" /\ m.a = run.a
  BY Kinds DEF RInv, NetInv, R!RejectResult, FinishInv
<1>2. \/ /\ m.live /\ file' = [file EXCEPT ![m.a] = "failed"]
         /\ run'.at = "deliver" /\ run'.a = run.a /\ run'.out = "failed"
      \/ ~m.live /\ UNCHANGED <<run, file>>
  <2>1. CASE m.live
    <3>1. /\ run' = [run EXCEPT !.at = "deliver", !.out = "failed"]
          /\ file' = [file EXCEPT ![m.a] = "failed"]
      BY <2>1 DEF R!RejectResult
    <3> QED BY <2>1, <3>1, RunFields DEF RInv
  <2>2. CASE ~m.live
    BY <2>2 DEF R!RejectResult
  <2> QED BY <2>1, <2>2
<1>3. /\ UNCHANGED <<attempts, end, stage, cur, from, R!bootRow, R!fleet, results, child,
                     boot, R!session,
                     R!lists, holding, R!counts, faults, misread>>
      /\ R!Open' = R!Open
  BY DEF R!RejectResult, R!store, R!Open
<1>4. /\ \A a \in R!Attempts : Launching(a)' <=> Launching(a)
      /\ \A a \in R!Attempts : Begun(a)' <=> Begun(a)
      /\ \A a \in R!Attempts : file'[a] = file[a] \/ (m.live /\ a = m.a /\ file'[a] = "failed")
      /\ m.live => run.at = "finishing" /\ run'.at = "deliver" /\ file'[m.a] = "failed"
                   /\ run'.out = "failed"
      /\ ~m.live => run' = run /\ file' = file
      /\ run'.a = run.a
  BY <1>1, <1>2, <1>3 DEF RInv, FileInv, Launching, Begun
<1>5. \A n \in net' : n \in net /\ n \in Message /\ (m.live => n.kind # "finish" \/ ~n.live)
  BY <1>1 DEF RInv, OneCall, NetInv
<1>6. FileInv'
  BY DEF RInv, FileInv, R!RejectResult
<1>7. PlaceInv'
  BY AttemptAssumption, Kinds
     DEF RInv, PlaceInv, ThreadInv, FileInv, R!RejectResult, R!Open, R!Attempts, R!store,
         R!bootRow, R!fleet, R!session, R!lists, Running, R!Idle
<1>8. NetInv'
  BY DEF RInv, NetInv, R!RejectResult
<1>9. FreshInv'
  BY <1>1, <1>3, <1>4, <1>5, Kinds, Idles
     DEF RInv, FreshInv, Begun, R!session, R!lists, R!counts
<1>10. OrderInv'
  BY <1>1, <1>3, <1>4, <1>5 DEF RInv, OrderInv, R!counts
<1>11. ThreadInv'
  BY <1>1, <1>3, <1>4, <1>5, Idles DEF RInv, ThreadInv, R!session, R!lists
<1>12. HandInv'
  BY <1>1, <1>3, <1>4, <1>5 DEF RInv, HandInv, Own, Excused, ThreadInv
<1>13. DiskInv'
  BY <1>1, <1>3, <1>4, <1>5 DEF RInv, DiskInv, SetInv
<1>14. GoneInv'
  BY <1>1, <1>3, <1>4, <1>5, Kinds, Idles
     DEF RInv, GoneInv, R!session, R!lists, SetInv, ReplyInv, Reply
<1>15. BootInv' /\ CallInv'
  BY Kinds
     DEF RInv, BootInv, CallInv, Named, ThreadInv, FinishInv, OneCall, HandInv, ClaimInv,
           R!RejectResult,
         R!Open, R!Attempts, R!store, R!bootRow, R!session
<1>16. ClaimInv'
  BY <1>1, <1>3, <1>4, <1>5 DEF RInv, ClaimInv
<1>17. FinishInv'
  BY <1>1, <1>3, <1>4, <1>5, Kinds DEF RInv, FinishInv
<1>18. OneCall'
  BY Kinds DEF RInv, OneCall, R!RejectResult
<1>19. EndsInv'
  BY <1>1, <1>3, <1>4, <1>5, Kinds, Idles
     DEF RInv, EndsInv, R!StoppedUnlessMisread, R!FinishedWorkKept, R!Listed, R!Open
<1>20. StoreInv' /\ CountInv' /\ FlagInv' /\ SetInv' /\ ReplyInv' /\ AnswerInv'
  BY StoreStays, CountStays, FlagStays, SetStays, ReplyStays, AnswerStays
     DEF RInv, R!RejectResult, R!Open, R!Attempts, R!store, R!bootRow, R!fleet,
         R!session, R!lists, R!counts
<1> QED BY <1>6, <1>7, <1>8, <1>9, <1>10, <1>11, <1>12, <1>13, <1>14, <1>15, <1>16, <1>17,
           <1>18, <1>19, <1>20
    DEF RInv

LEMMA RefuseFinishHolds ==
    ASSUME RInv, NEW m \in net, R!RefuseFinish(m)
    PROVE  RInv'
<1>1. CountInv'
  BY AttemptAssumption, Kinds, Idles
     DEF RInv, CountInv, R!RefuseFinish, R!Fault, R!Release, R!bootRow, R!fleet, R!counts,
         R!Boots
<1>2. FlagInv'
  BY Kinds, Idles
     DEF RInv, FlagInv, R!RefuseFinish, R!Fault, R!Release, R!store, R!bootRow, R!fleet,
         R!session, R!counts
<1>3. SetInv'
  BY Kinds, Idles
     DEF RInv, SetInv, PlaceInv, ThreadInv, ReplyInv, NetInv, R!RefuseFinish, R!Fault,
         R!Release, R!store, R!fleet
<1>4. FileInv'
  BY DEF RInv, FileInv, R!RefuseFinish
<1>5. PlaceInv'
  BY AttemptAssumption, Kinds, Idles
     DEF RInv, PlaceInv, ThreadInv, FileInv, R!RefuseFinish, R!Fault, R!Idle, R!Release,
         R!store, R!bootRow, R!fleet, R!session, R!counts, Running, R!Attempts, R!NoReply
<1>6. NetInv'
  BY DEF RInv, NetInv, R!RefuseFinish
<1>7. FreshInv'
  BY Kinds
     DEF RInv, FreshInv, R!RefuseFinish, NetInv, FinishInv, Begun, FileInv, R!store,
         R!session, R!counts
<1>8. OrderInv'
  BY Idles DEF RInv, OrderInv, R!RefuseFinish, CountInv, R!store, R!counts
<1>9. ThreadInv'
  BY Kinds, Idles
     DEF RInv, ThreadInv, StoreInv, FileInv, SetInv, FinishInv, OneCall, ClaimInv,
         R!RefuseFinish, R!Fault, R!Idle, R!Release, R!store, R!bootRow, R!fleet, R!session,
         R!counts, R!Attempts, R!NoReply, R!Boots, R!Open, Begun, Launching
<1>10. HandInv'
  BY Kinds, Idles
     DEF RInv, HandInv, ThreadInv, DiskInv, FinishInv, OneCall, ClaimInv, R!RefuseFinish,
         R!Fault, R!Release, R!store, R!bootRow, R!fleet, R!session, R!counts, Begun, Own,
               Excused,
         R!Open, R!Attempts, Launching
<1>11. DiskInv'
  BY Kinds, Idles
     DEF RInv, DiskInv, ThreadInv, HandInv, FinishInv, OneCall, ClaimInv, R!RefuseFinish,
         R!Fault, R!Release, R!store, R!bootRow, R!fleet, R!session, R!counts, R!Attempts,
         Begun, R!Open, Launching, Own, Excused
<1>12. GoneInv'
  BY Kinds, Idles
     DEF RInv, GoneInv, ThreadInv, HandInv, DiskInv, FinishInv, OneCall, ClaimInv,
         R!RefuseFinish, R!Fault, R!Release, R!store, R!bootRow, R!fleet, R!session, R!counts,
               Launching, R!Attempts, Begun, Own, Excused, R!Open
<1>13. BootInv' /\ CallInv'
  BY Kinds, Idles
     DEF RInv, BootInv, CallInv, Named, ThreadInv, FinishInv, OneCall, ClaimInv, R!RefuseFinish,
           R!Fault,
         R!Release, R!store, R!bootRow, R!fleet, R!session, R!Open
<1>14. ClaimInv'
  BY Kinds, Idles
     DEF RInv, ClaimInv, ThreadInv, FinishInv, OneCall, R!RefuseFinish, R!Fault, R!Release,
         R!store, R!bootRow, R!fleet, R!session, R!counts, R!Attempts, Begun, Launching
<1>15. FinishInv'
  BY Kinds, Idles
     DEF RInv, FinishInv, ThreadInv, HandInv, OneCall, ClaimInv, R!RefuseFinish, R!Fault,
         R!Release, R!store, R!bootRow, R!fleet, R!session, R!counts, Begun, Launching,
         R!Attempts, Own, Excused, R!Open
<1>16. OneCall'
  BY Kinds, Idles
     DEF RInv, OneCall, FinishInv, ClaimInv, R!RefuseFinish, R!Fault, R!Release, R!store,
         R!bootRow, R!fleet, R!session, R!counts, Begun, Launching
<1>17. EndsInv'
  BY Kinds, Idles
     DEF RInv, EndsInv, FinishInv, OneCall, ClaimInv, R!RefuseFinish, R!Fault, R!Release,
         R!store, R!bootRow, R!fleet, R!session, R!counts, R!StoppedUnlessMisread,
         R!FinishedWorkKept, R!Attempts, R!Open, R!Listed, Begun, Launching
<1>18. StoreInv' /\ ReplyInv' /\ AnswerInv'
  BY StoreStays, ReplyStays, AnswerStays
     DEF RInv, R!RefuseFinish, R!Fault, R!Idle, R!Release, R!store, R!bootRow,
         R!fleet, R!session, R!counts
<1> QED BY <1>1, <1>2, <1>3, <1>4, <1>5, <1>6, <1>7, <1>8, <1>9, <1>10, <1>11, <1>12, <1>13,
           <1>14, <1>15, <1>16, <1>17, <1>18
    DEF RInv

LEMMA IdleReleaseHolds ==
    ASSUME RInv, R!IdleRelease
    PROVE  RInv'
<1>1. FlagInv'
  BY Idles DEF RInv, FlagInv, R!IdleRelease, R!Release, R!store, R!bootRow, R!session
<1>2. StoreInv' /\ CountInv' /\ SetInv' /\ FileInv' /\ PlaceInv' /\ ReplyInv'
      /\ NetInv' /\ FreshInv' /\ OrderInv' /\ ThreadInv' /\ HandInv' /\ DiskInv' /\ GoneInv'
            /\ BootInv' /\ CallInv' /\ ClaimInv' /\ FinishInv' /\ OneCall' /\ AnswerInv'
                 /\ EndsInv'
  BY StoreStays, CountStays, SetStays, FileStays, PlaceStays, ReplyStays, NetStays,
     FreshStays, OrderStays, ThreadStays, HandStays, DiskStays, GoneStays, BootStays, CallStays,
     ClaimStays, FinishStays, OneCallStays, AnswerStays, EndsStays
     DEF RInv, R!IdleRelease, R!Idle, R!Release, R!store, R!bootRow, R!fleet, R!disk,
         R!session, R!lists, R!counts
<1> QED BY <1>1, <1>2 DEF RInv

LEMMA GiveUpHolds ==
    ASSUME RInv, NEW m \in net, R!GiveUp(m)
    PROVE  RInv'
<1>1. /\ m \in Message /\ m.kind \in {"boot", "claim", "finish"} /\ m.live
      /\ m.kind # "boot" => m.a \in R!Attempts
  BY Kinds DEF RInv, NetInv, R!GiveUp
<1>2. /\ R!Ghost(m) \in Message /\ R!Ghost(m).kind = m.kind /\ ~R!Ghost(m).live
      /\ m.kind = "boot" => /\ R!Ghost(m).boot = m.boot /\ R!Ghost(m).alive = m.alive
                           /\ R!Ghost(m).show = m.show /\ R!Ghost(m).blind = m.blind
      /\ m.kind = "claim" => R!Ghost(m).boot = m.boot /\ R!Ghost(m).a = m.a
      /\ m.kind = "finish" => R!Ghost(m).out = m.out /\ R!Ghost(m).a = m.a
  BY <1>1, Ghosts
<1>3. /\ m.kind = "finish" => run.at = "finishing" /\ m.a = run.a
      /\ m.kind = "claim" => run.at = "claiming" /\ m.a = run.a
  BY <1>1 DEF RInv, FinishInv, ClaimInv
<1>4. \/ /\ m.kind = "finish" /\ net' = (net \ {m}) \cup {R!Ghost(m)}
         /\ run'.at = "deliver" /\ run'.a = run.a /\ run'.out = run.out
      \/ m.kind # "finish" /\ net' = net \cup {R!Ghost(m)} /\ UNCHANGED run
  <2>1. CASE m.kind = "finish"
    <3>1. run' = [run EXCEPT !.at = "deliver"] /\ net' = (net \ {m}) \cup {R!Ghost(m)}
      BY <2>1 DEF R!GiveUp, R!Goto
    <3> QED BY <2>1, <3>1, RunFields DEF RInv
  <2>2. CASE m.kind # "finish"
    BY <2>2 DEF R!GiveUp
  <2> QED BY <2>1, <2>2
<1>5. /\ UNCHANGED <<attempts, end, stage, cur, from, file, R!bootRow, R!fleet, results,
                     child, boot, R!session,
                     R!lists, holding, R!counts, misread>>
      /\ R!Open' = R!Open
  BY DEF R!GiveUp, R!store, R!disk, R!Open
<1>6. /\ \A a \in R!Attempts : Launching(a)' <=> Launching(a)
      /\ \A a \in R!Attempts : Begun(a)' <=> Begun(a)
      /\ run'.a = run.a /\ run'.out = run.out
      /\ run'.at = run.at \/ (run.at = "finishing" /\ run'.at = "deliver")
  BY <1>3, <1>4, <1>5 DEF Launching, Begun
<1>7. /\ \A n \in net' : n \in net \/ n = R!Ghost(m)
      /\ \A n \in net' : n \in Message /\ (run'.at # run.at => n.kind # "finish" \/ ~n.live)
  BY <1>1, <1>2, <1>3, <1>4 DEF RInv, NetInv, OneCall
<1>8. CountInv'
  BY AttemptAssumption, Kinds
     DEF RInv, CountInv, R!GiveUp, R!Fault, R!Ghost, R!Goto, R!store, R!bootRow, R!fleet,
         R!counts, R!Boots
<1>9. PlaceInv'
  BY AttemptAssumption, Kinds
     DEF RInv, PlaceInv, ThreadInv, FileInv, R!GiveUp, R!Fault, R!Ghost, R!Goto, R!store,
         R!bootRow, R!fleet, R!disk, R!session, R!lists, Running
<1>10. NetInv'
  BY <1>1, <1>2, <1>3, <1>5, <1>6, <1>7 DEF RInv, NetInv
<1>11. OrderInv'
  <2>1. /\ R!Ghost(m).kind \in {"claim", "finish"} => R!Ghost(m).a <= made
        /\ R!Ghost(m).kind \in {"boot", "claim"} => R!Ghost(m).boot <= boots
    BY <1>1, <1>2 DEF RInv, OrderInv, R!GiveUp
  <2>2. UNCHANGED <<made, boots, boot, cur, from>> /\ run'.a = run.a
    BY <1>5, <1>6 DEF R!counts
  <2> QED BY <1>7, <2>1, <2>2 DEF RInv, OrderInv
<1>12. ThreadInv'
  <2>1. UNCHANGED <<boot, sess, trusted, answer, queue>>
    BY <1>5 DEF R!session, R!lists
  <2>2. CASE run' = run
    BY <2>1, <2>2, ThreadStays DEF RInv
  <2>3. CASE run.at = "finishing" /\ run'.at = "deliver" /\ run'.a = run.a /\ run'.out = run.out
    BY <2>1, <2>3, Idles DEF RInv, ThreadInv
  <2> QED BY <1>3, <1>4, <2>2, <2>3
<1>13. HandInv'
  <2>1. UNCHANGED <<attempts, from, boot, end, child, results, file, misread>>
    BY <1>5
  <2>2. CASE run' = run
    BY <2>1, <2>2, HandStays DEF RInv
  <2>3. CASE run.at = "finishing" /\ run'.at = "deliver" /\ run'.a = run.a /\ run'.out = run.out
    BY <2>1, <2>3 DEF RInv, HandInv, Begun
  <2> QED BY <1>3, <1>4, <2>2, <2>3
<1>14. DiskInv'
  BY <1>1, <1>2, <1>3, <1>5, <1>6, <1>7 DEF RInv, DiskInv
<1>15. GoneInv'
  BY <1>1, <1>2, <1>3, <1>5, <1>6, <1>7, Kinds, Idles
     DEF RInv, GoneInv, R!session, R!lists, SetInv, ReplyInv, Reply
<1>16. BootInv' /\ CallInv'
  <2>1. BootInv'
    BY <1>1, <1>2, <1>5, <1>7 DEF RInv, BootInv, Named
  <2>2. CallInv'
    BY <1>1, <1>2, <1>5, <1>7 DEF RInv, CallInv, R!session
  <2> QED BY <2>1, <2>2
<1>17. ClaimInv'
  BY <1>1, <1>2, <1>3, <1>5, <1>6, <1>7 DEF RInv, ClaimInv
<1>18. FinishInv'
  BY <1>1, <1>2, <1>3, <1>5, <1>6, <1>7, Kinds DEF RInv, FinishInv
<1>19. OneCall'
  BY <1>1, <1>2, <1>3, <1>5, <1>6, <1>7 DEF RInv, OneCall
<1>20. StoreInv' /\ FlagInv' /\ SetInv' /\ FileInv' /\ ReplyInv' /\ FreshInv'
       /\ AnswerInv' /\ EndsInv'
  BY StoreStays, FlagStays, SetStays, FileStays, ReplyStays, FreshStays, AnswerStays,
     EndsStays
     DEF RInv, R!GiveUp, R!Fault, R!Ghost, R!Goto, R!store, R!bootRow, R!fleet,
         R!disk, R!session, R!lists, R!counts
<1> QED BY <1>8, <1>9, <1>10, <1>11, <1>12, <1>13, <1>14, <1>15, <1>16, <1>17, <1>18, <1>19,
           <1>20
    DEF RInv

LEMMA CrashHolds ==
    ASSUME RInv, R!Crash
    PROVE  RInv'
<1>1. \A n \in net' : \E m \in net : n = R!Ghost(m)
  BY DEF R!Crash
<1>2. \A n \in net' : \E m \in net :
        /\ n \in Message /\ m \in Message /\ n.kind = m.kind /\ ~n.live
        /\ n.kind = "boot" => /\ n.boot = m.boot /\ n.alive = m.alive
                             /\ n.show = m.show /\ n.blind = m.blind
        /\ n.kind = "claim" => n.boot = m.boot /\ n.a = m.a
        /\ n.kind = "finish" => n.out = m.out /\ n.a = m.a
  <2>1. \A m \in net : m \in Message
    BY DEF RInv, NetInv
  <2> QED BY <1>1, <2>1, Ghosts
<1>3. /\ UNCHANGED <<R!store, R!bootRow, R!fleet, R!disk, R!counts, misread>>
      /\ boot' = 0 /\ sess' = "down"
      /\ run' = R!Idle /\ answer' = R!NoReply /\ doomed' = {} /\ queue' = {} /\ ~trusted'
      /\ run'.at = "idle" /\ run'.a = 0
  BY Idles DEF R!Crash
<1>4. CountInv'
  BY AttemptAssumption, Idles, NoReplies
     DEF RInv, CountInv, R!Crash, R!Fault, R!Ghost, R!store, R!bootRow, R!fleet, R!disk,
         R!counts, R!Boots
<1>5. FlagInv'
  BY Idles, NoReplies DEF RInv, FlagInv, R!Crash, R!bootRow
<1>6. SetInv'
  BY Idles, NoReplies
     DEF RInv, SetInv, PlaceInv, ThreadInv, ReplyInv, NetInv, R!Crash, R!Fault, R!Ghost,
         R!store, R!fleet, R!disk
<1>7. PlaceInv'
  BY AttemptAssumption, Idles, NoReplies
     DEF RInv, PlaceInv, ThreadInv, FileInv, R!Crash, R!Fault, R!NoReply, R!Idle, R!Ghost,
         R!store, R!bootRow, R!fleet, R!disk, R!counts, Running, R!Attempts
<1>8. ReplyInv'
  BY Idles, NoReplies
     DEF RInv, ReplyInv, StoreInv, R!Crash, R!Fault, R!NoReply, R!Idle, R!Ghost, R!store,
         R!bootRow, R!fleet, R!disk, R!counts, Reply, R!Attempts, R!Boots, R!Open
<1>9. NetInv'
  BY <1>1, <1>2, <1>3 DEF RInv, NetInv
<1>10. FreshInv'
  BY <1>1, <1>2, <1>3, NoReplies DEF RInv, FreshInv, R!store, R!disk, R!counts
<1>11. OrderInv'
  BY <1>1, <1>2, <1>3, AttemptAssumption
     DEF RInv, OrderInv, CountInv, R!Boots, R!store, R!counts
<1>12. ThreadInv'
  BY Idles, NoReplies
     DEF RInv, ThreadInv, StoreInv, FileInv, SetInv, ClaimInv, BootInv, CallInv, Named, R!Crash,
           R!Fault,
         R!NoReply, R!Idle, R!Ghost, R!store, R!bootRow, R!fleet, R!disk, R!counts,
         R!Attempts, R!Boots, R!Open
<1>13. HandInv'
  BY Idles, NoReplies
     DEF RInv, HandInv, ThreadInv, DiskInv, ClaimInv, BootInv, CallInv, Named, R!Crash, R!Fault,
           R!Ghost,
         R!store, R!bootRow, R!fleet, R!disk, R!counts, Begun, Own, Excused, R!Open, R!Attempts,
         Launching
<1>14. DiskInv'
  BY Idles, NoReplies
     DEF RInv, DiskInv, ThreadInv, HandInv, ClaimInv, BootInv, CallInv, Named, R!Crash, R!Fault,
           R!Ghost,
         R!store, R!bootRow, R!fleet, R!disk, R!counts, R!Attempts, Begun, R!Open, Launching,
         Own, Excused
<1>15. GoneInv'
  BY Idles, NoReplies DEF RInv, GoneInv, R!Crash
<1>16. BootInv' /\ CallInv'
  <2>1. R!Open' = R!Open /\ \A m, a : Named(m, a)' <=> Named(m, a)
    BY <1>3 DEF R!Open, R!store, R!disk, Named
  <2>2. BootInv'
    BY <1>2, <1>3, <2>1 DEF RInv, BootInv, Named, R!store
  <2>3. CallInv'
    BY <1>2 DEF CallInv
  <2> QED BY <2>2, <2>3
<1>17. ClaimInv'
  BY <1>1, <1>2, <1>3 DEF RInv, ClaimInv
<1>18. FinishInv'
  BY <1>1, <1>2, <1>3, AttemptAssumption
     DEF RInv, FinishInv, Begun, Launching, R!store, R!disk
<1>19. OneCall'
  BY <1>1, <1>2, <1>3 DEF RInv, OneCall
<1>20. AnswerInv'
  BY Idles, NoReplies
     DEF RInv, AnswerInv, ThreadInv, ClaimInv, BootInv, CallInv, Named, R!Crash, R!Fault, R!Ghost,
           R!store,
         R!bootRow, R!fleet, R!disk, R!counts, Begun, R!Attempts, R!Open
<1>21. StoreInv' /\ FileInv' /\ EndsInv'
  BY StoreStays, FileStays, EndsStays
     DEF RInv, R!Crash, R!Fault, R!NoReply, R!Idle, R!Ghost, R!store, R!bootRow,
         R!fleet, R!disk, R!counts
<1> QED BY <1>4, <1>5, <1>6, <1>7, <1>8, <1>9, <1>10, <1>11, <1>12, <1>13, <1>14, <1>15,
           <1>16, <1>17, <1>18, <1>19, <1>20, <1>21
    DEF RInv

LEMMA SessionBreaksHolds ==
    ASSUME RInv, R!SessionBreaks
    PROVE  RInv'
<1>1. CountInv'
  BY AttemptAssumption
     DEF RInv, CountInv, R!SessionBreaks, R!Fault, R!store, R!bootRow, R!fleet, R!counts,
         R!Boots
<1>2. PlaceInv'
  BY DEF RInv, PlaceInv, R!SessionBreaks
<1>3. ThreadInv'
  BY DEF RInv, ThreadInv, R!SessionBreaks
<1>4. GoneInv'
  BY DEF RInv, GoneInv, ThreadInv, HandInv, DiskInv, R!SessionBreaks, R!Fault, R!store,
         R!bootRow, R!fleet, R!disk, R!lists, R!counts, Launching, R!Attempts, Begun,
         Own, Excused, R!Open
<1>5. BootInv' /\ CallInv'
  BY NoBootStays DEF RInv, R!SessionBreaks, R!store, R!disk
<1>6. AnswerInv'
  BY DEF RInv, AnswerInv, ThreadInv, R!SessionBreaks, R!Fault, R!store, R!bootRow, R!fleet,
         R!disk, R!lists, R!counts, Begun, R!Attempts
<1>7. StoreInv' /\ FlagInv' /\ SetInv' /\ FileInv' /\ ReplyInv' /\ NetInv' /\ FreshInv'
      /\ OrderInv' /\ HandInv' /\ DiskInv' /\ ClaimInv' /\ FinishInv' /\ OneCall' /\ EndsInv'
  BY StoreStays, FlagStays, SetStays, FileStays, ReplyStays, NetStays, FreshStays, OrderStays,
     HandStays, DiskStays, ClaimStays, FinishStays, OneCallStays, EndsStays
     DEF RInv, R!SessionBreaks, R!Fault, R!store, R!bootRow, R!fleet, R!disk, R!lists,
         R!counts
<1> QED BY <1>1, <1>2, <1>3, <1>4, <1>5, <1>6, <1>7 DEF RInv

LEMMA ChildEndsHolds ==
    ASSUME RInv, NEW a \in R!Attempts, R!ChildEnds(a)
    PROVE  RInv'
<1>1. SetInv'
  BY DEF RInv, SetInv, PlaceInv, ThreadInv, ReplyInv, NetInv, R!ChildEnds, R!store, R!fleet,
         R!worker, R!lists
<1>2. FreshInv'
  BY AttemptAssumption
     DEF RInv, FreshInv, StoreInv, FileInv, SetInv, R!ChildEnds, R!store, R!bootRow, R!fleet,
         R!worker, R!session, R!lists, R!counts, R!Attempts, R!Boots, R!Open
<1>3. HandInv'
  BY DEF RInv, HandInv, ThreadInv, DiskInv, R!ChildEnds, R!store, R!worker, Begun, Own, Excused,
        R!Open
<1>4. DiskInv'
  BY DEF RInv, DiskInv, ThreadInv, HandInv, R!ChildEnds, R!store, R!bootRow, R!fleet,
         R!worker, R!session, R!lists, R!counts, R!Attempts, Begun, R!Open, Launching, Own,
               Excused
<1>5. GoneInv'
  BY DEF RInv, GoneInv, ThreadInv, HandInv, DiskInv, R!ChildEnds, R!store, R!bootRow, R!fleet,
         R!worker, R!session, R!lists, R!counts, Launching, R!Attempts, Begun, Own, Excused,
         R!Open
<1>6. BootInv' /\ CallInv'
  BY DEF RInv, BootInv, CallInv, Named, ThreadInv, R!ChildEnds, R!store, R!bootRow, R!fleet,
        R!worker,
         R!session, R!lists, R!counts, R!Open, R!Attempts
<1>7. FinishInv'
  BY DEF RInv, FinishInv, ThreadInv, HandInv, R!ChildEnds, R!store, R!bootRow, R!fleet,
         R!worker, R!session, R!lists, R!counts, Begun, Launching, R!Attempts, Own, Excused,
               R!Open
<1>8. AnswerInv'
  BY DEF RInv, AnswerInv, ThreadInv, R!ChildEnds, R!store, R!bootRow, R!fleet, R!worker,
         R!session, R!lists, R!counts, Begun, R!Attempts
<1>9. EndsInv'
  BY DEF RInv, EndsInv, R!ChildEnds, R!store, R!bootRow, R!fleet, R!worker, R!session,
         R!lists, R!counts, R!StoppedUnlessMisread, R!FinishedWorkKept, R!Attempts, R!Open,
         R!Listed
<1>10. StoreInv' /\ CountInv' /\ FlagInv' /\ FileInv' /\ PlaceInv' /\ ReplyInv'
       /\ NetInv' /\ OrderInv' /\ ThreadInv' /\ ClaimInv' /\ OneCall'
  BY StoreStays, CountStays, FlagStays, FileStays, PlaceStays, ReplyStays, NetStays,
     OrderStays, ThreadStays, ClaimStays, OneCallStays
     DEF RInv, R!ChildEnds, R!store, R!bootRow, R!fleet, R!worker, R!session, R!lists,
         R!counts
<1> QED BY <1>1, <1>2, <1>3, <1>4, <1>5, <1>6, <1>7, <1>8, <1>9, <1>10 DEF RInv

LEMMA LoseResultHolds ==
    ASSUME RInv, NEW a \in R!Attempts, R!LoseResult(a)
    PROVE  RInv'
<1>1. CountInv'
  BY AttemptAssumption
     DEF RInv, CountInv, R!LoseResult, R!Fault, R!store, R!bootRow, R!fleet, R!worker,
         R!session, R!lists, R!counts, R!Boots
<1>2. FileInv'
  BY DEF RInv, FileInv, R!LoseResult
<1>3. FreshInv'
  BY AttemptAssumption
     DEF RInv, FreshInv, StoreInv, FileInv, SetInv, DiskInv, HandInv, R!LoseResult, R!Fault,
         R!store, R!bootRow, R!fleet, R!worker, R!session, R!lists, R!counts, R!Attempts,
         R!Boots, R!Open, Begun, Launching, Own, Excused
<1>4. HandInv'
  BY DEF RInv, HandInv, ThreadInv, DiskInv, R!LoseResult, R!Fault, R!store, R!worker, Begun,
         Own, Excused, R!Open
<1>5. DiskInv'
  BY DEF RInv, DiskInv, ThreadInv, HandInv, R!LoseResult, R!Fault, R!store, R!bootRow,
         R!fleet, R!worker, R!session, R!lists, R!counts, R!Attempts, Begun, R!Open,
         Launching, Own, Excused
<1>6. GoneInv'
  BY DEF RInv, GoneInv, ThreadInv, HandInv, DiskInv, R!LoseResult, R!Fault, R!store,
         R!bootRow, R!fleet, R!worker, R!session, R!lists, R!counts, Launching,
         R!Attempts, Begun, Own, Excused, R!Open
<1>7. BootInv' /\ CallInv'
  BY DEF RInv, BootInv, CallInv, Named, ThreadInv, DiskInv, HandInv, R!LoseResult, R!Fault,
        R!store,
         R!bootRow, R!fleet, R!worker, R!session, R!lists, R!counts, R!Open, R!Attempts,
         Begun, Launching, Own, Excused
<1>8. FinishInv'
  BY DEF RInv, FinishInv, ThreadInv, HandInv, DiskInv, R!LoseResult, R!Fault, R!store,
         R!bootRow, R!fleet, R!worker, R!session, R!lists, R!counts, Begun, Launching,
         R!Attempts, Own, Excused, R!Open
<1>9. EndsInv'
  BY DEF RInv, EndsInv, DiskInv, HandInv, R!LoseResult, R!Fault, R!store, R!bootRow, R!fleet,
         R!worker, R!session, R!lists, R!counts, R!StoppedUnlessMisread, R!FinishedWorkKept,
         R!Attempts, R!Open, R!Listed, Begun, Launching, Own, Excused
<1>10. StoreInv' /\ FlagInv' /\ SetInv' /\ PlaceInv' /\ ReplyInv' /\ NetInv'
       /\ OrderInv' /\ ThreadInv' /\ ClaimInv' /\ OneCall' /\ AnswerInv'
  BY StoreStays, FlagStays, SetStays, PlaceStays, ReplyStays, NetStays, OrderStays,
     ThreadStays, ClaimStays, OneCallStays, AnswerStays
     DEF RInv, R!LoseResult, R!Fault, R!store, R!bootRow, R!fleet, R!worker,
         R!session, R!lists, R!counts
<1> QED BY <1>1, <1>2, <1>3, <1>4, <1>5, <1>6, <1>7, <1>8, <1>9, <1>10 DEF RInv

LEMMA RequeueHolds ==
    ASSUME RInv, NEW a \in R!Attempts, R!Requeue(a)
    PROVE  RInv'
<1>1. CountInv'
  BY AttemptAssumption
     DEF RInv, CountInv, R!Requeue, R!Open, R!Attempts, R!Fault, R!store, R!bootRow, R!disk,
         R!worker, R!session, R!lists, R!counts, R!Boots
<1>2. SetInv'
  BY DEF RInv, SetInv, PlaceInv, ThreadInv, ReplyInv, NetInv, R!Requeue, R!Open, R!Attempts,
         R!Fault, R!store, R!bootRow, R!disk, R!worker, R!session, R!lists, R!counts, Running,
         Reply, Message, BootMsg, R!Boots, ClaimMsg, FinishMsg
<1>3. StoreInv' /\ FlagInv' /\ FileInv' /\ PlaceInv' /\ ReplyInv' /\ NetInv'
      /\ FreshInv' /\ OrderInv' /\ ThreadInv' /\ HandInv' /\ DiskInv' /\ GoneInv' /\ BootInv'
           /\ CallInv'
            /\ ClaimInv' /\ FinishInv' /\ OneCall' /\ AnswerInv' /\ EndsInv'
  BY StoreStays, FlagStays, FileStays, PlaceStays, ReplyStays, NetStays, FreshStays,
     OrderStays, ThreadStays, HandStays, DiskStays, GoneStays, BootStays, CallStays, ClaimStays,
     FinishStays, OneCallStays, AnswerStays, EndsStays
     DEF RInv, R!Requeue, R!Open, R!Attempts, R!Fault, R!store, R!bootRow, R!disk,
         R!worker, R!session, R!lists, R!counts
<1> QED BY <1>1, <1>2, <1>3 DEF RInv

LEMMA AttestHolds ==
    ASSUME RInv, NEW a \in R!Attempts, R!Attest(a)
    PROVE  RInv'
<1>1. StoreInv'
  BY DEF RInv, StoreInv, R!Attest, R!Open
<1>2. CountInv'
  BY AttemptAssumption
     DEF RInv, CountInv, R!Attest, R!Open, R!Attempts, R!Fault, R!bootRow, R!fleet, R!disk,
         R!worker, R!session, R!lists, R!counts, R!Boots
<1>3. FreshInv'
  BY AttemptAssumption
     DEF RInv, FreshInv, StoreInv, FileInv, SetInv, HandInv, R!Attest, R!Open, R!Attempts,
         R!Fault, R!bootRow, R!fleet, R!disk, R!worker, R!session, R!lists, R!counts, R!Boots,
         Begun, Own, Excused
<1>4. HandInv'
  BY DEF RInv, HandInv, ThreadInv, DiskInv, StoreInv, FileInv, SetInv, R!Attest, R!Open,
         R!Attempts, R!Fault, R!bootRow, R!fleet, R!disk, R!worker, R!session, R!lists,
         R!counts, Begun, Own, Excused, Launching, R!Boots
<1>5. DiskInv'
  BY DEF RInv, DiskInv, ThreadInv, HandInv, StoreInv, FileInv, SetInv, R!Attest, R!Open,
         R!Attempts, R!Fault, R!bootRow, R!fleet, R!disk, R!worker, R!session, R!lists,
         R!counts, Begun, Launching, Own, Excused, R!Boots
<1>6. GoneInv'
  BY DEF RInv, GoneInv, R!Attest, StoreInv, SetInv, ReplyInv, Reply, Launching, R!disk,
         R!worker, R!session, R!lists
<1>7. BootInv' /\ CallInv'
  BY DEF RInv, BootInv, CallInv, Named, ThreadInv, StoreInv, FileInv, SetInv, HandInv, R!Attest,
        R!Open,
         R!Attempts, R!Fault, R!bootRow, R!fleet, R!disk, R!worker, R!session, R!lists,
         R!counts, R!Boots, Begun, Own, Excused
<1>8. FinishInv'
  BY DEF RInv, FinishInv, ThreadInv, HandInv, StoreInv, FileInv, SetInv, R!Attest, R!Open,
         R!Attempts, R!Fault, R!bootRow, R!fleet, R!disk, R!worker, R!session, R!lists,
         R!counts, Begun, Launching, Own, Excused, R!Boots
<1>9. AnswerInv'
  BY DEF RInv, AnswerInv, ThreadInv, StoreInv, FileInv, SetInv, HandInv, R!Attest, R!Open,
         R!Attempts, R!Fault, R!bootRow, R!fleet, R!disk, R!worker, R!session, Begun
<1>10. EndsInv'
  BY DEF RInv, EndsInv, StoreInv, FileInv, SetInv, HandInv, R!Attest, R!Open, R!Attempts,
         R!Fault, R!bootRow, R!fleet, R!disk, R!worker, R!session, R!lists, R!counts,
         R!StoppedUnlessMisread, R!FinishedWorkKept, R!Listed, R!Boots, Begun, Own, Excused
<1>11. FlagInv' /\ SetInv' /\ FileInv' /\ PlaceInv' /\ ReplyInv' /\ NetInv'
       /\ OrderInv' /\ ThreadInv' /\ ClaimInv' /\ OneCall'
  BY FlagStays, SetStays, FileStays, PlaceStays, ReplyStays, NetStays, OrderStays,
     ThreadStays, ClaimStays, OneCallStays
     DEF RInv, R!Attest, R!Open, R!Attempts, R!Fault, R!bootRow, R!fleet, R!disk,
         R!worker, R!session, R!lists, R!counts
<1> QED BY <1>1, <1>2, <1>3, <1>4, <1>5, <1>6, <1>7, <1>8, <1>9, <1>10, <1>11 DEF RInv

LEMMA FreeRetryHolds ==
    ASSUME RInv, R!FreeRetry
    PROVE  RInv'
<1>1. StoreInv'
  BY AttemptAssumption DEF RInv, StoreInv, NetInv, BootInv, CallInv, Named, R!FreeRetry, R!Open
<1>2. CountInv' /\ FlagInv' /\ SetInv' /\ FileInv' /\ PlaceInv' /\ ReplyInv' /\ NetInv'
      /\ FreshInv' /\ OrderInv' /\ ThreadInv' /\ HandInv' /\ DiskInv' /\ GoneInv' /\ BootInv'
           /\ CallInv'
            /\ ClaimInv' /\ FinishInv' /\ OneCall' /\ AnswerInv' /\ EndsInv'
  BY CountStays, FlagStays, SetStays, FileStays, PlaceStays, ReplyStays, NetStays, FreshStays,
     OrderStays, ThreadStays, HandStays, DiskStays, GoneStays, BootStays, CallStays, ClaimStays,
     FinishStays, OneCallStays, AnswerStays, EndsStays
     DEF RInv, R!FreeRetry, R!Open, R!Attempts, R!bootRow, R!fleet, R!disk, R!worker,
         R!session, R!lists, R!counts
<1> QED BY <1>1, <1>2 DEF RInv

LEMMA OperatorRetryHolds ==
    ASSUME RInv, R!OperatorRetry
    PROVE  RInv'
<1>1. StoreInv'
  BY AttemptAssumption DEF RInv, StoreInv, NetInv, BootInv, CallInv, Named, R!OperatorRetry,
        R!Open
<1>2. CountInv' /\ FlagInv' /\ SetInv' /\ FileInv' /\ PlaceInv' /\ ReplyInv' /\ NetInv'
      /\ FreshInv' /\ OrderInv' /\ ThreadInv' /\ HandInv' /\ DiskInv' /\ GoneInv' /\ BootInv'
           /\ CallInv'
            /\ ClaimInv' /\ FinishInv' /\ OneCall' /\ AnswerInv' /\ EndsInv'
  BY CountStays, FlagStays, SetStays, FileStays, PlaceStays, ReplyStays, NetStays, FreshStays,
     OrderStays, ThreadStays, HandStays, DiskStays, GoneStays, BootStays, CallStays, ClaimStays,
     FinishStays, OneCallStays, AnswerStays, EndsStays
     DEF RInv, R!OperatorRetry, R!Open, R!Attempts, R!bootRow, R!fleet, R!disk,
         R!worker, R!session, R!lists, R!counts
<1> QED BY <1>1, <1>2 DEF RInv

LEMMA ControllerRestartHolds ==
    ASSUME RInv, R!ControllerRestart
    PROVE  RInv'
<1>1. CountInv'
  BY AttemptAssumption
     DEF RInv, CountInv, R!ControllerRestart, R!Fault, R!store, R!bootRow, R!disk, R!worker,
         R!session, R!lists, R!counts, R!Boots
<1>2. SetInv'
  BY DEF RInv, SetInv, PlaceInv, ThreadInv, ReplyInv, NetInv, R!ControllerRestart, R!Fault,
         R!store, R!disk, R!worker, R!lists
<1>3. StoreInv' /\ FlagInv' /\ FileInv' /\ PlaceInv' /\ ReplyInv' /\ NetInv'
      /\ FreshInv' /\ OrderInv' /\ ThreadInv' /\ HandInv' /\ DiskInv' /\ GoneInv' /\ BootInv'
           /\ CallInv'
            /\ ClaimInv' /\ FinishInv' /\ OneCall' /\ AnswerInv' /\ EndsInv'
  BY StoreStays, FlagStays, FileStays, PlaceStays, ReplyStays, NetStays, FreshStays,
     OrderStays, ThreadStays, HandStays, DiskStays, GoneStays, BootStays, CallStays, ClaimStays,
     FinishStays, OneCallStays, AnswerStays, EndsStays
     DEF RInv, R!ControllerRestart, R!Fault, R!store, R!bootRow, R!disk, R!worker,
         R!session, R!lists, R!counts
<1> QED BY <1>1, <1>2, <1>3 DEF RInv

LEMMA AllStays ==
    ASSUME RInv, UNCHANGED <<stage, cur, attempts, from, end, wboot, reconciled, beat,
                             requeued, file, results, child, boot, sess, trusted, held, queue,
                             cancelled, doomed, run, holding, net, answer, made, boots,
                             faults, misread>>
    PROVE  RInv'
BY StoreStays, CountStays, FlagStays, SetStays, FileStays, PlaceStays, ReplyStays, NetStays,
   FreshStays, OrderStays, ThreadStays, HandStays, DiskStays, GoneStays, BootStays, CallStays,
   ClaimStays, FinishStays, OneCallStays, AnswerStays, EndsStays
   DEF RInv

LEMMA HandleHolds ==
    ASSUME RInv, NEW m \in net, R!Handle(m)
    PROVE  RInv'
BY HandleBootHolds, LoseBootReplyHolds, AcceptClaimHolds, RefuseClaimHolds, HandleFinishHolds,
   RejectResultHolds, RefuseFinishHolds, GiveUpHolds DEF R!Handle

LEMMA SessionHolds ==
    ASSUME RInv, R!Session
    PROVE  RInv'
<1>1. CASE R!Heartbeat
  BY <1>1, HeartbeatHolds
<1>2. CASE R!RecoverCollect
  BY <1>2, RecoverCollectHolds
<1>3. ASSUME NEW U \in SUBSET (R!Listed \cup {0}), R!Recover(U) \/ R!PostBoot(U) \/ R!Booted(U)
      PROVE  RInv'
  BY <1>3, RecoverHolds, PostBootHolds, BootedHolds
<1> QED BY <1>1, <1>2, <1>3 DEF R!Session

LEMMA RunThreadHolds ==
    ASSUME RInv, R!RunThread
    PROVE  RInv'
<1>1. CASE R!Claim \/ R!Launch \/ R!SaveAgain
  BY <1>1, ClaimHolds, LaunchHolds, SaveAgainHolds
<1>2. CASE R!SendFinish \/ R!IdleRelease \/ R!Sweep
  BY <1>2, SendFinishHolds, IdleReleaseHolds, SweepHolds
<1>3. ASSUME NEW w \in {"good", "bad"}, R!StageSucceeds(w)
      PROVE  RInv'
  BY <1>3, StageSucceedsHolds
<1>4. ASSUME NEW out \in {"failed", "cancelled"}, R!StageFails(out)
      PROVE  RInv'
  BY <1>4, StageFailsHolds
<1>5. ASSUME NEW saved \in BOOLEAN, R!Settle(saved)
      PROVE  RInv'
  BY <1>5, SettleHolds
<1>6. ASSUME NEW a \in R!Attempts, R!Deliver(a)
      PROVE  RInv'
  BY <1>6, DeliverHolds
<1> QED BY <1>1, <1>2, <1>3, <1>4, <1>5, <1>6 DEF R!RunThread

\* Every step of an attempt keeps the invariant.
LEMMA AttemptStep ==
    ASSUME RInv, R!Next
    PROVE  RInv'
<1>1. CASE R!Start \/ R!Crash \/ R!SessionBreaks
  BY <1>1, StartHolds, CrashHolds, SessionBreaksHolds
<1>2. CASE R!Session
  BY <1>2, SessionHolds
<1>3. CASE R!RunThread
  BY <1>3, RunThreadHolds
<1>4. ASSUME NEW m \in net, R!Handle(m)
      PROVE  RInv'
  BY <1>4, HandleHolds
<1>5. ASSUME NEW a \in R!Attempts, R!ChildEnds(a) \/ R!LoseResult(a) \/ R!Requeue(a)
      \/ R!Attest(a)
      PROVE  RInv'
  BY <1>5, ChildEndsHolds, LoseResultHolds, RequeueHolds, AttestHolds
<1>6. CASE R!FreeRetry \/ R!OperatorRetry \/ R!ControllerRestart
  BY <1>6, FreeRetryHolds, OperatorRetryHolds, ControllerRestartHolds
<1> QED BY <1>1, <1>2, <1>3, <1>4, <1>5, <1>6 DEF R!Next

LEMMA AttemptBegin ==
    ASSUME R!Init
    PROVE  RInv
<1>1. R!Open = {} /\ R!Listed = {} /\ \A a \in R!Attempts : ~Launching(a)
  BY Idles DEF R!Init, R!Open, R!Listed, Launching
<1>2. StoreInv
  BY <1>1, AttemptAssumption DEF R!Init, StoreInv, R!Boots
<1>3. CountInv
  BY AttemptAssumption DEF R!Init, CountInv, R!Boots
<1>4. FlagInv /\ SetInv /\ FileInv
  BY DEF R!Init, FlagInv, SetInv, FileInv
<1>5. PlaceInv /\ ReplyInv /\ NetInv /\ FreshInv /\ OrderInv
  BY Idles, NoReplies, AttemptAssumption
     DEF R!Init, PlaceInv, ReplyInv, NetInv, FreshInv, OrderInv, R!Attempts
<1>6. ThreadInv /\ HandInv
  BY Idles, NoReplies DEF R!Init, ThreadInv, HandInv
<1>7. DiskInv /\ GoneInv /\ AnswerInv
  BY NoReplies DEF R!Init, DiskInv, GoneInv, AnswerInv
<1>8. BootInv /\ CallInv /\ ClaimInv /\ FinishInv /\ OneCall
  BY DEF R!Init, BootInv, CallInv, Named, ClaimInv, FinishInv, OneCall
<1>9. EndsInv
  BY <1>1 DEF R!Init, EndsInv, R!StoppedUnlessMisread, R!FinishedWorkKept
<1> QED BY <1>2, <1>3, <1>4, <1>5, <1>6, <1>7, <1>8, <1>9 DEF RInv

LEMMA AttemptEnds ==
    ASSUME RInv
    PROVE  R!TypeOK /\ R!StoppedUnlessMisread /\ R!FinishedWorkKept
BY TypesOk DEF RInv, EndsInv

\* An attempt is resolved only when it has stopped, unless the operator said so, and
\* its finished work counts: whatever is lost, late, repeated, unreadable or restarted,
\* and for any number of attempts and faults.  The attempts left out are those of
\* misread: settled by a boot request of an earlier process, or their record gone after
\* their claim landed (settle_boot, finish, _booted, _collect).
THEOREM EndsHold == BothSpec => []EndsTrue
<1>1. BothInit => RInv
  BY AttemptBegin DEF BothInit
<1>2. ASSUME RInv, [BothNext]_both
      PROVE  RInv'
  <2>1. CASE R!Next
    BY <1>2, <2>1, AttemptStep
  <2>2. CASE UNCHANGED attemptVars
    BY <1>2, <2>2, AllStays DEF attemptVars
  <2> QED BY <1>2, <2>1, <2>2 DEF BothNext, Either, Enrols, Runs, both
<1>3. RInv => EndsTrue
  BY AttemptEnds DEF EndsTrue, R!EndsTrue
<1>4. RInv /\ [BothNext]_both => RInv'
  BY <1>2
<1> QED BY <1>1, <1>3, <1>4, PTL DEF BothSpec
=============================================================================
