---------------------------- MODULE AgentProofs -----------------------------
(***************************************************************************)
(* What an agent keeps on disk, proved.  First that what the monitors'     *)
(* administration answers is true, for any number of API threads, fields   *)
(* and failures.  The argument: the mutation lock has one holder, so the   *)
(* file and the memory differ only between a write and what follows it; an *)
(* edit is of the entry as it is, unless a reservation went stale; and a   *)
(* stop that was answered binds: it cancelled whoever would enable the     *)
(* monitor, and the override makes off of everything written later.  Then  *)
(* that no event id is issued twice, for any set of processes and any      *)
(* bounds: what was issued is behind both records, or behind the one that  *)
(* is left.                                                                *)
(***************************************************************************)
EXTENDS MCAgent, TLAPS

-----------------------------------------------------------------------------
(* The administration.                                                     *)

\* What the threads hold the mutation lock for, and where a stop stands.
Commits == {"writing", "written", "applying", "creating", "replacing", "swapping", "removing",
            "removed"}
Runs == {"applying", "creating", "replacing", "swapping"}
Stops == {"marked", "storing", "waiting"}
Drafts == {"add", "start", "edit"}

Entry == [there : BOOLEAN, on : BOOLEAN, v : SUBSET Fields]
Request == [at : A!Places, kind : {A!None, "add", "remove", "start", "edit", "editoff"},
            spec : Entry, field : SUBSET Fields, cancel : BOOLEAN, fresh : BOOLEAN,
            verdict : {A!None, "saved", "failed", "pending"}, sole : BOOLEAN]
Answers == [off : BOOLEAN, still : BOOLEAN, fields : SUBSET Fields,
            slip : SUBSET {"stale", "dropped", "joined"}]

TypeInv ==
    /\ conf \in Entry /\ disk \in [mon : Entry, set : Nat] /\ desired \in Nat
    /\ mutation \in Reqs \cup {A!None, "saver", "settings"}
    /\ owner \in Reqs \cup {A!None, "expired", "lapsed"} /\ epoch \in Reqs \cup {A!None}
    /\ stopping \in BOOLEAN /\ override \in BOOLEAN /\ removed \in BOOLEAN
    /\ partial \in BOOLEAN /\ restarting \in BOOLEAN
    /\ save \in [at : {A!None, "begun", "written"}, spec : Entry, by : Reqs \cup {A!None}]
    /\ sup \in [at : {"none", "live", "going"}, v : SUBSET Fields]
    /\ req \in [Reqs -> Request]
    /\ settings \in [at : {"idle", "writing", "written"}, set : Nat]
    /\ told \in Answers

\* The mutation lock has one holder; after the grant of a restart it has none.
MutexInv ==
    /\ \A r \in Reqs : req[r].at \in Commits <=> mutation = r
    /\ save.at # A!None <=> mutation = "saver"
    /\ settings.at # "idle" <=> mutation = "settings"
    /\ restarting => mutation = A!None

\* The file and the memory differ only between the write and what follows it.
FileInv ==
    /\ disk.set = (IF settings.at = "written" THEN settings.set ELSE desired)
    /\ settings.at # "written" /\ save.at # "written" /\ (\A r \in Reqs : req[r].at # "written")
         => disk.mon = conf
    /\ save.at = "written" \/ settings.at = "written" => disk.mon.there = conf.there
    /\ ~conf.there => conf = A!Absent
    /\ ~disk.mon.there => disk.mon = A!Absent
    /\ removed => ~conf.there /\ ~disk.mon.there
    /\ \A r \in Reqs :
        /\ req[r].at \in {"writing", "written"} /\ req[r].kind = "add" => ~removed
        /\ req[r].at \in {"removing", "removed"} => ~conf.there
        /\ req[r].at = "written" /\ req[r].kind = "remove" => ~disk.mon.there
        /\ req[r].at = "written" /\ req[r].kind # "add" /\ ~conf.there => ~disk.mon.there

\* What a request is about, by its place.
RequestInv ==
    \A r \in Reqs :
        LET q == req[r]
        IN  /\ q.at = "idle" => /\ q.kind = A!None /\ q.spec = A!Absent /\ q.field = {}
                                /\ ~q.cancel /\ ~q.fresh /\ q.verdict = A!None /\ ~q.sole
            /\ q.at = "read" => ~q.cancel
            /\ q.at = "leaving" => q.spec = A!Absent /\ q.kind # A!None
            /\ q.at \in {"read", "validating", "ready"} => q.kind # A!None
            /\ q.at = "validating" => q.kind \in {"edit", "editoff"}
            /\ q.at = "parking" => q.kind = "editoff"
            /\ q.at \in {"ready", "writing", "written"} => q.kind \in Drafts \cup {"remove"}
            /\ q.at \in Runs => q.kind \in Drafts
            /\ q.at \in {"removing", "removed"} => q.kind = "remove"
            /\ q.at \in Stops => q.kind \in {A!None, "editoff"}
            /\ q.verdict # A!None => q.at = "waiting"
            /\ q.sole => q.at \in Stops
            /\ q.at \notin {"idle", "leaving"} /\ q.kind \in Drafts => q.spec.there
            /\ q.at \notin {"leaving", "waiting"} /\ q.kind = "editoff"
                 => q.spec.there /\ ~q.spec.on
            /\ q.kind = "remove" => q.spec = A!Absent
            /\ q.kind \notin {"edit", "editoff"} => q.field = {}
            /\ q.at # "waiting" => q.field \subseteq q.spec.v

\* An addition or a removal keeps the name until it is over.
OwnerInv ==
    /\ owner \in Reqs => req[owner].at \notin {"idle", "read"} /\ req[owner].kind # A!None
    /\ \A r \in Reqs : req[r].kind \in {"add", "remove"} /\ req[r].at \notin {"idle", "read"}
                         => owner = r

\* What is written is of the entry as it is, but for a stale reservation.
FreshInv ==
    "stale" \notin told.slip =>
        /\ \A r \in Reqs :
            /\ req[r].kind \in {"start", "edit", "editoff"} /\ req[r].fresh
                 /\ req[r].at \in {"read", "validating", "ready", "parking", "marked", "storing"}
                 => conf.there /\ conf.v \subseteq req[r].spec.v
            /\ req[r].at = "writing" /\ req[r].kind # "remove" => conf.v \subseteq req[r].spec.v
            /\ req[r].at = "writing" /\ req[r].kind \in {"start", "edit"} => conf.there
            /\ req[r].at = "written" /\ req[r].kind # "remove" => disk.mon.there
            /\ req[r].at \in Runs => conf.there
        /\ save.at = "begun" /\ save.spec.there => conf.v \subseteq save.spec.v

\* The write of a stop, and who waits for it.
SaveInv ==
    /\ save.at = A!None => save.by = A!None /\ save.spec = A!Absent
    /\ save.spec.there => ~save.spec.on
    /\ ~save.spec.there => save.spec = A!Absent
    /\ \A r \in Reqs :
        /\ save.by = r => req[r].at = "waiting" /\ req[r].verdict = A!None
        /\ save.by = r /\ save.at = "begun" /\ req[r].kind = "editoff"
             => save.spec.there /\ req[r].field \subseteq save.spec.v
        /\ req[r].at = "waiting" /\ req[r].verdict = A!None
             => /\ save.at # A!None
                /\ req[r].kind = "editoff" => save.by = r \/ "dropped" \in told.slip

\* Edits that were answered as saved, or are about to be, are in the file and in the
\* memory.
EditInv ==
    /\ told.slip \subseteq {"joined"} =>
        /\ told.fields \subseteq conf.v /\ told.fields \subseteq disk.mon.v
        /\ \A r \in Reqs :
             req[r].at \in Runs \/ (req[r].at = "waiting" /\ req[r].verdict = "saved")
               => req[r].field \subseteq conf.v /\ req[r].field \subseteq disk.mon.v
        /\ \A r \in Reqs : req[r].at = "written" \/ (save.at = "written" /\ save.by = r)
                             => req[r].field \subseteq disk.mon.v
    /\ told.fields # {} => told.slip \subseteq {"joined"}

\* A stop binds, answered or still at work: nobody who would enable the monitor goes on.
Quiet ==
    \/ told.off /\ "joined" \notin told.slip
    \/ told.still
    \/ \E r \in Reqs : req[r].sole

\* What is written is off: the override says so, there is nothing to enable, or it is
\* off and nobody enables it.
Calm ==
    \/ override
    \/ /\ \A r \in Reqs : req[r].at # "idle" => req[r].kind # "add"
       /\ \/ ~conf.there /\ ~disk.mon.there
          \/ /\ ~conf.on /\ ~disk.mon.on
             /\ \A r \in Reqs : /\ req[r].at # "idle" => req[r].kind # "start"
                                /\ req[r].kind = "edit" => ~req[r].spec.on

QuietInv ==
    Quiet =>
        /\ \A r \in Reqs : req[r].at # "idle" /\ req[r].kind \in {"add", "start"} => req[r].cancel
        /\ Calm

OffInv ==
    "joined" \notin told.slip =>
        /\ told.off \/ (\E r \in Reqs : req[r].sole /\ req[r].verdict = "saved") =>
            /\ ~conf.on /\ ~disk.mon.on
            /\ \A r \in Reqs : req[r].kind = "start" => req[r].at \notin {"writing", "written"}
        /\ (\E r \in Reqs : req[r].sole /\ req[r].at = "waiting" /\ req[r].verdict = A!None)
             => ~(save.at = "written" /\ disk.mon.on)

StillInv ==
    told.still => /\ sup.at # "live"
                  /\ \A r \in Reqs : req[r].at \notin {"creating", "replacing", "swapping"}

\* What runs is configured, or is about to be stopped.
LiveInv ==
    "stale" \notin told.slip /\ sup.at = "live" =>
        conf.there \/ \E r \in Reqs : req[r].at = "removing"

AInv ==
    /\ TypeInv /\ MutexInv /\ FileInv /\ RequestInv /\ OwnerInv /\ FreshInv
    /\ SaveInv /\ EditInv /\ QuietInv /\ OffInv /\ StillInv /\ LiveInv

-----------------------------------------------------------------------------
(* What a step does to the requests.                                       *)

\* Another request may lose its freshness, its fields or its claim to be alone, and
\* may be cancelled.
Weaker(q) ==
    /\ req'[q].at = req[q].at /\ req'[q].kind = req[q].kind /\ req'[q].spec = req[q].spec
    /\ req'[q].verdict = req[q].verdict /\ req'[q].field \subseteq req[q].field
    /\ req'[q].fresh => req[q].fresh
    /\ req'[q].sole => req[q].sole
    /\ req[q].cancel => req'[q].cancel
    /\ req'[q].cancel => req[q].cancel \/ req[q].at \notin {"idle", "read"}
Others(r) == req' \in [Reqs -> Request] /\ \A q \in Reqs : q # r => Weaker(q)

\* The request r goes on to the place `at`, gives back the name, or is over.
Moved(r, at) ==
    /\ Others(r)
    /\ req'[r].at = at /\ req'[r].kind = req[r].kind /\ req'[r].spec = req[r].spec
    /\ req'[r].field = req[r].field /\ req'[r].cancel = req[r].cancel
    /\ req'[r].fresh = req[r].fresh /\ req'[r].verdict = req[r].verdict
    /\ req'[r].sole = req[r].sole
Left(r) ==
    /\ Others(r)
    /\ req'[r].at = "leaving" /\ req'[r].kind = req[r].kind /\ req'[r].spec = A!Absent
    /\ req'[r].field = {} /\ req'[r].cancel = req[r].cancel
    /\ ~req'[r].fresh /\ req'[r].verdict = A!None /\ ~req'[r].sole
Freed(r) ==
    /\ Others(r)
    /\ req'[r].at = "idle" /\ req'[r].kind = A!None /\ req'[r].spec = A!Absent
    /\ req'[r].field = {} /\ ~req'[r].cancel
    /\ ~req'[r].fresh /\ req'[r].verdict = A!None /\ ~req'[r].sole

\* The request r was answered: its edit is promised.
Answered(r) ==
    /\ mutation' = A!None /\ partial' \in BOOLEAN /\ told' \in Answers
    /\ told'.off = told.off /\ told'.still = told.still /\ told'.slip = told.slip
    /\ told'.slip \subseteq {"joined"} => told'.fields = told.fields \cup req[r].field
    /\ ~(told'.slip \subseteq {"joined"}) => told'.fields = {}
    /\ UNCHANGED <<conf, disk, desired, owner, stopping, override, removed, epoch, save,
                   restarting, settings>>

\* The request r stops the monitor: the owner of the name is cancelled.
Marked(r) ==
    /\ Others(r) /\ override' = TRUE /\ stopping' = TRUE /\ epoch' = r
    /\ req'[r].at = "marked" /\ req'[r].kind = req[r].kind /\ req'[r].spec = req[r].spec
    /\ req'[r].field = req[r].field /\ req'[r].cancel = req[r].cancel
    /\ req'[r].fresh = req[r].fresh /\ req'[r].verdict = req[r].verdict
    /\ req'[r].sole => \A q \in Reqs :
         q # r /\ req'[q].at # "idle" /\ req'[q].kind \in {"add", "start"} => req'[q].cancel
    /\ UNCHANGED <<owner, removed, partial>>

\* The write of a stop is over: everybody who waits for it learns how it went.
Ended(verdict) ==
    /\ mutation' = A!None /\ req' \in [Reqs -> Request]
    /\ save' \in [at : {A!None, "begun", "written"}, spec : Entry, by : Reqs \cup {A!None}]
    /\ save'.at = A!None /\ save'.spec = A!Absent /\ save'.by = A!None
    /\ \A q \in Reqs :
        /\ req'[q].at = req[q].at /\ req'[q].kind = req[q].kind /\ req'[q].spec = req[q].spec
        /\ req'[q].field = req[q].field /\ req'[q].cancel = req[q].cancel
        /\ req'[q].sole = req[q].sole
        /\ req'[q].fresh = (req[q].fresh /\ save.at # "written")
        /\ req'[q].verdict = IF req[q].at = "waiting" /\ req[q].verdict = A!None THEN verdict
                             ELSE req[q].verdict

LEMMA Frees ==
    /\ A!Free \in Request /\ A!Absent \in Entry
    /\ A!Free.at = "idle" /\ A!Free.kind = A!None /\ A!Free.spec = A!Absent /\ A!Free.field = {}
    /\ ~A!Free.cancel /\ ~A!Free.fresh /\ A!Free.verdict = A!None /\ ~A!Free.sole
    /\ ~A!Absent.there /\ ~A!Absent.on /\ A!Absent.v = {}
<1>1. A!Absent = [there |-> FALSE, on |-> FALSE, v |-> {}]
  BY DEF A!Absent, A!Free
<1> QED BY <1>1 DEF A!Free, A!Absent, Request, Entry, A!None, A!Places

LEMMA GotoMoves ==
    ASSUME TypeInv, NEW r \in Reqs, NEW at \in A!Places, A!Goto(r, at)
    PROVE  Moved(r, at)
BY SMTT(30) DEF Moved, Others, Weaker, A!Goto, TypeInv, Request

LEMMA LeaveLeaves ==
    ASSUME TypeInv, NEW r \in Reqs, A!Leave(r)
    PROVE  Left(r)
<1> DEFINE new == [A!Free EXCEPT !.at = "leaving", !.kind = req[r].kind, !.cancel = req[r].cancel]
<1>1. req[r] \in Request
  BY DEF TypeInv
<1>2. /\ new \in Request /\ new.at = "leaving" /\ new.kind = req[r].kind /\ new.spec = A!Absent
      /\ new.field = {} /\ new.cancel = req[r].cancel /\ ~new.fresh /\ new.verdict = A!None
      /\ ~new.sole
  BY <1>1, Frees DEF Request, A!Places
<1>3. req' = [req EXCEPT ![r] = new]
  BY DEF A!Leave
<1> HIDE DEF new
<1> QED BY <1>2, <1>3 DEF Left, Others, Weaker, TypeInv

LEMMA FreeFrees ==
    ASSUME TypeInv, NEW r \in Reqs, req' = [req EXCEPT ![r] = A!Free]
    PROVE  Freed(r)
BY Frees DEF Freed, Others, Weaker, TypeInv

LEMMA Slipped ==
    ASSUME NEW t \in Answers, NEW w \in SUBSET {"stale", "dropped", "joined"}
    PROVE  /\ A!Slips(t, w) \in Answers
           /\ A!Slips(t, w).off = t.off /\ A!Slips(t, w).still = t.still
           /\ A!Slips(t, w).slip = t.slip \cup w
           /\ t.slip \cup w \subseteq {"joined"} => A!Slips(t, w).fields = t.fields
           /\ ~(t.slip \cup w \subseteq {"joined"}) => A!Slips(t, w).fields = {}
BY DEF A!Slips, Answers

LEMMA Candidates ==
    ASSUME NEW c \in Entry, NEW start \in BOOLEAN, override \in BOOLEAN
    PROVE  /\ A!Candidate(c, start) \in Entry
           /\ A!Candidate(c, start).there = c.there /\ A!Candidate(c, start).v = c.v
           /\ A!Candidate(c, start).on => c.on
           /\ override /\ ~start => ~A!Candidate(c, start).on
           /\ ~c.on => A!Candidate(c, start) = c
BY DEF A!Candidate, Entry

LEMMA AnswerAnswers ==
    ASSUME TypeInv, NEW r \in Reqs, NEW runtime, A!Answer(r, runtime)
    PROVE  Answered(r)
<1> DEFINE t == [told EXCEPT !.fields = @ \cup req[r].field]
<1>1. t \in Answers /\ t.off = told.off /\ t.still = told.still /\ t.slip = told.slip
      /\ t.fields = told.fields \cup req[r].field
  BY DEF TypeInv, Answers, Request
<1>2. told' = A!Slips(t, {})
  BY DEF A!Answer
<1> HIDE DEF t
<1>3. {} \in SUBSET {"stale", "dropped", "joined"} /\ t.slip \cup {} = t.slip
  OBVIOUS
<1>4. mutation' = A!None
      /\ UNCHANGED <<conf, disk, desired, owner, stopping, override, removed, epoch, save,
                     restarting, settings>>
  BY DEF A!Answer
<1>5. partial' \in BOOLEAN
  BY DEF A!Answer, TypeInv
<1>6. /\ told' \in Answers
      /\ told'.off = told.off /\ told'.still = told.still /\ told'.slip = told.slip
      /\ told'.slip \subseteq {"joined"} => told'.fields = told.fields \cup req[r].field
      /\ ~(told'.slip \subseteq {"joined"}) => told'.fields = {}
  <2>1. /\ A!Slips(t, {}) \in Answers
        /\ A!Slips(t, {}).off = t.off /\ A!Slips(t, {}).still = t.still
        /\ A!Slips(t, {}).slip = t.slip
        /\ t.slip \subseteq {"joined"} => A!Slips(t, {}).fields = t.fields
        /\ ~(t.slip \subseteq {"joined"}) => A!Slips(t, {}).fields = {}
    <3>1. t \in Answers
      BY <1>1
    <3> QED BY <1>3, <3>1, Slipped
  <2> QED BY <1>1, <1>2, <2>1
<1> QED BY <1>4, <1>5, <1>6 DEF Answered

LEMMA MarkMarks ==
    ASSUME TypeInv, OwnerInv, NEW r \in Reqs, A!Mark(r)
    PROVE  Marked(r)
<1>1. /\ override' = TRUE /\ stopping' = TRUE /\ epoch' = r
      /\ UNCHANGED <<owner, removed, partial>>
      /\ req' = [q \in Reqs |->
            IF q = r THEN [req[r] EXCEPT !.at = "marked", !.sole = A!Enabling(r) \ {owner} = {}]
            ELSE IF q = owner THEN [req[q] EXCEPT !.cancel = TRUE] ELSE req[q]]
  BY DEF A!Mark
<1>2. req \in [Reqs -> Request] /\ (owner \in Reqs => req[owner].at \notin {"idle", "read"})
  BY DEF TypeInv, OwnerInv
<1>3. \A q \in Reqs : q # r => /\ req'[q] \in Request /\ Weaker(q)
                               /\ q = owner => req'[q].cancel
  BY <1>1, <1>2 DEF Weaker, Request
<1> DEFINE alone == A!Enabling(r) \ {owner} = {}
<1>4. /\ req'[r] \in Request /\ req'[r].at = "marked" /\ req'[r].kind = req[r].kind
      /\ req'[r].spec = req[r].spec /\ req'[r].field = req[r].field
      /\ req'[r].cancel = req[r].cancel /\ req'[r].fresh = req[r].fresh
      /\ req'[r].verdict = req[r].verdict /\ (req'[r].sole <=> alone)
  <2>1. /\ req[r] \in Request /\ alone \in BOOLEAN
        /\ req'[r] = [req[r] EXCEPT !.at = "marked", !.sole = alone]
    BY <1>1, <1>2
  <2>2. "marked" \in A!Places
    BY DEF A!Places
  <2> HIDE DEF alone
  <2> QED BY <2>1, <2>2 DEF Request
<1>5. Others(r)
  BY <1>1, <1>3, <1>4 DEF Others
<1>6. ASSUME req'[r].sole, NEW q \in Reqs, q # r, req'[q].at # "idle",
             req'[q].kind \in {"add", "start"}
      PROVE  req'[q].cancel
  <2>1. q \notin A!Enabling(r) \ {owner}
    BY <1>4, <1>6
  <2>2. q = owner \/ req[q].at = "idle" \/ req[q].cancel \/ req[q].kind \notin {"add", "start"}
    BY <1>6, <2>1 DEF A!Enabling
  <2> QED BY <1>3, <1>6, <2>2 DEF Weaker
<1> QED BY <1>1, <1>4, <1>5, <1>6 DEF Marked

LEMMA SaverEnded ==
    ASSUME TypeInv, NEW verdict \in {"saved", "failed"}, A!SaverEnds(verdict)
    PROVE  Ended(verdict)
<1> DEFINE s(q) == IF save.at = "written" THEN [req[q] EXCEPT !.fresh = FALSE] ELSE req[q]
           new(q) == IF req[q].at = "waiting" /\ req[q].verdict = A!None
                     THEN [s(q) EXCEPT !.verdict = verdict] ELSE s(q)
<1>1. mutation' = A!None /\ save' = A!NoSave /\ req' = [q \in Reqs |-> new(q)]
  BY DEF A!SaverEnds
<1>2. ASSUME NEW q \in Reqs
      PROVE  /\ s(q) \in Request
             /\ s(q).at = req[q].at /\ s(q).kind = req[q].kind /\ s(q).spec = req[q].spec
             /\ s(q).field = req[q].field /\ s(q).cancel = req[q].cancel
             /\ s(q).sole = req[q].sole /\ s(q).fresh = (req[q].fresh /\ save.at # "written")
             /\ s(q).verdict = req[q].verdict
  <2>1. req[q] \in Request
    BY DEF TypeInv
  <2> QED BY <2>1 DEF Request
<1>3. ASSUME NEW q \in Reqs
      PROVE  /\ new(q) \in Request
             /\ new(q).at = req[q].at /\ new(q).kind = req[q].kind /\ new(q).spec = req[q].spec
             /\ new(q).field = req[q].field /\ new(q).cancel = req[q].cancel
             /\ new(q).sole = req[q].sole /\ new(q).fresh = (req[q].fresh /\ save.at # "written")
             /\ new(q).verdict = IF req[q].at = "waiting" /\ req[q].verdict = A!None THEN verdict
                                 ELSE req[q].verdict
  <2> HIDE DEF s
  <2>1. s(q) \in Request
    BY <1>2
  <2> QED BY <1>2, <2>1 DEF Request
<1> HIDE DEF new
<1>4. A!NoSave \in [at : {A!None, "begun", "written"}, spec : Entry, by : Reqs \cup {A!None}]
      /\ A!NoSave.at = A!None /\ A!NoSave.spec = A!Absent /\ A!NoSave.by = A!None
  BY DEF A!NoSave, A!Absent, A!Free, Entry, A!None
<1> QED BY <1>1, <1>3, <1>4 DEF Ended

LEMMA Same ==
    ASSUME NEW q \in Reqs, req'[q] = req[q]
    PROVE  Weaker(q)
BY DEF Weaker

LEMMA Wants ==
    ASSUME conf \in Entry, NEW f \in Fields, 
           NEW kind \in {"add", "remove", "start", "edit", "editoff"}, A!Askable(kind)
    PROVE  /\ A!Wanted(kind, f) \in Entry
           /\ kind = "remove" => A!Wanted(kind, f) = A!Absent
           /\ kind # "remove" => A!Wanted(kind, f).there
           /\ kind \in {"start", "edit", "editoff"} =>
                conf.there /\ conf.v \subseteq A!Wanted(kind, f).v
           /\ kind = "edit" => A!Wanted(kind, f).on = conf.on
           /\ kind = "editoff" => ~A!Wanted(kind, f).on
           /\ kind \in {"edit", "editoff"} => f \in A!Wanted(kind, f).v
           /\ kind = "add" => ~removed /\ (~conf.there \/ partial)
<1>0. Manual \in BOOLEAN
  BY AdminAssumption
<1>1. CASE kind = "add"
  <2>1. A!Wanted(kind, f) = [there |-> TRUE, on |-> ~Manual, v |-> {}]
    BY <1>1 DEF A!Wanted
  <2>2. ~removed /\ (~conf.there \/ partial)
    BY <1>1 DEF A!Askable
  <2>3. A!Wanted(kind, f) \in Entry /\ A!Wanted(kind, f).there
    BY <1>0, <2>1 DEF Entry
  <2> QED BY <1>1, <2>2, <2>3
<1>2. CASE kind = "remove"
  BY <1>2, Frees DEF A!Wanted
<1>3. CASE kind = "start"
  <2>1. A!Wanted(kind, f) = [conf EXCEPT !.on = conf.on \/ ~Manual]
    BY <1>3 DEF A!Wanted
  <2>2. conf.there
    BY <1>3 DEF A!Askable
  <2> QED BY <1>0, <1>3, <2>1, <2>2 DEF Entry
<1>4. CASE kind = "edit"
  <2>1. A!Wanted(kind, f) = [conf EXCEPT !.v = conf.v \cup {f}]
    BY <1>4 DEF A!Wanted
  <2>2. conf.there
    BY <1>4 DEF A!Askable
  <2> QED BY <1>4, <2>1, <2>2 DEF Entry
<1>5. CASE kind = "editoff"
  <2>1. A!Wanted(kind, f) = [conf EXCEPT !.v = conf.v \cup {f}, !.on = FALSE]
    BY <1>5 DEF A!Wanted
  <2>2. conf.there
    BY <1>5 DEF A!Askable
  <2> QED BY <1>5, <2>1, <2>2 DEF Entry
<1> QED BY <1>1, <1>2, <1>3, <1>4, <1>5

LEMMA EnterReads ==
    ASSUME TypeInv, NEW r \in Reqs, NEW f \in Fields,
           NEW kind \in {"add", "remove", "start", "edit", "editoff"},
           A!Wanted(kind, f) \in Entry, A!Enters(r, kind, f)
    PROVE  /\ Others(r)
           /\ req'[r].at = "read" /\ req'[r].kind = kind /\ req'[r].spec = A!Wanted(kind, f)
           /\ req'[r].field = (IF kind \in {"edit", "editoff"} THEN {f} ELSE {})
           /\ req'[r].fresh <=> kind \notin {"add", "remove"}
           /\ ~req'[r].cancel /\ req'[r].verdict = A!None /\ ~req'[r].sole
           /\ kind \in {"add", "start"} => \A q \in Reqs : ~req'[q].sole
<1> DEFINE spec == A!Wanted(kind, f)
<1>1. req \in [Reqs -> Request] /\ spec \in Entry /\ "read" \in A!Places
  BY DEF TypeInv, A!Places
<1>2. /\ req' = [q \in Reqs |-> req'[q]]
      /\ req'[r] = [A!Free EXCEPT !.at = "read", !.kind = kind, !.spec = spec,
                          !.field = IF kind \in {"edit", "editoff"} THEN {f} ELSE {},
                          !.fresh = kind \notin {"add", "remove"}]
      /\ \A q \in Reqs : q # r => req'[q] = [req[q] EXCEPT !.sole = @
           /\ kind \notin {"add", "start"}]
  BY DEF A!Enters
<1> HIDE DEF spec
<1>3. /\ req'[r] \in Request /\ req'[r].at = "read" /\ req'[r].kind = kind /\ req'[r].spec = spec
      /\ req'[r].field = (IF kind \in {"edit", "editoff"} THEN {f} ELSE {})
      /\ (req'[r].fresh <=> kind \notin {"add", "remove"}) /\ ~req'[r].cancel
      /\ req'[r].verdict = A!None /\ ~req'[r].sole
  <2>1. CASE kind \in {"edit", "editoff"}
    <3>1. req'[r] = [A!Free EXCEPT !.at = "read", !.kind = kind, !.spec = spec, !.field = {f},
          !.fresh = TRUE]
      BY <1>2, <2>1
    <3>2. /\ req'[r] \in Request /\ req'[r].at = "read" /\ req'[r].kind = kind
          /\ req'[r].spec = spec /\ req'[r].field = {f} /\ req'[r].fresh /\ ~req'[r].cancel
          /\ req'[r].verdict = A!None /\ ~req'[r].sole
      <4>1. {f} \in SUBSET Fields /\ TRUE \in BOOLEAN
        OBVIOUS
      <4> QED BY ZenonT(60), <1>1, <3>1, <4>1, Frees DEF Request
    <3> QED BY <2>1, <3>2
  <2>2. CASE kind = "start"
    <3>1. req'[r] = [A!Free EXCEPT !.at = "read", !.kind = kind, !.spec = spec, !.field = {},
          !.fresh = TRUE]
      BY <1>2, <2>2
    <3> QED BY <1>1, <2>2, <3>1, Frees DEF Request
  <2>3. CASE kind \in {"add", "remove"}
    <3>1. req'[r] = [A!Free EXCEPT !.at = "read", !.kind = kind, !.spec = spec, !.field = {},
          !.fresh = FALSE]
      BY <1>2, <2>3
    <3> QED BY <1>1, <2>3, <3>1, Frees DEF Request
  <2> QED BY <2>1, <2>2, <2>3
<1>4. ASSUME NEW q \in Reqs, q # r
      PROVE  req'[q] \in Request /\ Weaker(q) /\ (kind \in {"add", "start"} => ~req'[q].sole)
  <2>1. req[q] \in Request
    BY <1>1
  <2>2. CASE kind \in {"add", "start"}
    <3>1. req'[q] = [req[q] EXCEPT !.sole = FALSE]
      BY <1>2, <1>4, <2>2
    <3>2. req'[q] \in Request /\ ~req'[q].sole
        /\ req'[q].at = req[q].at /\ req'[q].kind = req[q].kind /\ req'[q].spec = req[q].spec
        /\ req'[q].field = req[q].field /\ req'[q].cancel = req[q].cancel
        /\ req'[q].verdict = req[q].verdict /\ req'[q].fresh = req[q].fresh
      BY <2>1, <3>1 DEF Request
    <3> QED BY <3>2 DEF Weaker
  <2>3. CASE kind \notin {"add", "start"}
    <3>1. req'[q] = [req[q] EXCEPT !.sole = req[q].sole]
      BY <1>2, <1>4, <2>1, <2>3 DEF Request
    <3>2. req'[q] = req[q]
      BY <2>1, <3>1 DEF Request
    <3> QED BY <2>1, <2>3, <3>2, Same
  <2> QED BY <2>2, <2>3
<1>5. req' \in [Reqs -> Request]
  BY <1>2, <1>3, <1>4
<1> QED BY <1>3, <1>4, <1>5 DEF Others, spec

LEMMA Binds ==
    ASSUME TypeInv, NEW kind \in {"add", "remove", "start", "edit", "editoff"},
           told' = A!Binding(kind)
    PROVE  /\ told' \in Answers /\ told'.slip = told.slip
           /\ told'.off = (told.off /\ kind \notin {"add", "start"})
           /\ told'.still = (told.still /\ kind \notin {"add", "start"})
           /\ told'.fields = (IF kind = "remove" THEN {} ELSE told.fields)
<1>1. told \in Answers
  BY DEF TypeInv
<1>2. CASE kind = "remove"
  <2>1. told' = [told EXCEPT !.off = told.off, !.still = told.still, !.fields = {}]
    BY <1>1, <1>2 DEF A!Binding, Answers
  <2> QED BY <1>1, <1>2, <2>1 DEF Answers
<1>3. CASE kind \in {"add", "start"}
  <2>1. told' = [told EXCEPT !.off = FALSE, !.still = FALSE, !.fields = told.fields]
    BY <1>3 DEF A!Binding
  <2> QED BY <1>1, <1>3, <2>1 DEF Answers
<1>4. CASE kind \in {"edit", "editoff"}
  <2>1. told' = [told EXCEPT !.off = told.off, !.still = told.still, !.fields = told.fields]
    BY <1>1, <1>4 DEF A!Binding, Answers
  <2> QED BY <1>1, <1>4, <2>1 DEF Answers
<1> QED BY <1>2, <1>3, <1>4

LEMMA Restarted ==
    ASSUME NEW r \in Reqs, TypeInv, NEW at \in A!Places, NEW isnew \in BOOLEAN,
           req' = [req EXCEPT ![r].at = at, ![r].fresh = isnew]
    PROVE  /\ Others(r) /\ req'[r].at = at /\ req'[r].fresh = isnew
           /\ req'[r].kind = req[r].kind /\ req'[r].spec = req[r].spec
           /\ req'[r].field = req[r].field /\ req'[r].cancel = req[r].cancel
           /\ req'[r].verdict = req[r].verdict /\ req'[r].sole = req[r].sole
<1>1. req \in [Reqs -> Request]
  BY DEF TypeInv
<1>2. /\ req' \in [Reqs -> Request] /\ \A q \in Reqs : q # r => req'[q] = req[q]
      /\ req'[r].at = at /\ req'[r].fresh = isnew
      /\ req'[r].kind = req[r].kind /\ req'[r].spec = req[r].spec
      /\ req'[r].field = req[r].field /\ req'[r].cancel = req[r].cancel
      /\ req'[r].verdict = req[r].verdict /\ req'[r].sole = req[r].sole
  BY ZenonT(60), <1>1 DEF Request
<1> QED BY <1>2, Same DEF Others

LEMMA ReserveReserves ==
    ASSUME AInv, NEW r \in Reqs, A!Reserve(r)
    PROVE  \/ Freed(r) /\ owner' = A!Pruned /\ UNCHANGED <<epoch, told>>
           \/ /\ Others(r) /\ A!Pruned = A!None /\ save.at = A!None /\ owner' = r /\ epoch' = r
              /\ req[r].kind \in {"edit", "editoff"} => req'[r].at = "validating"
              /\ req[r].kind \notin {"edit", "editoff"} => req'[r].at = "ready"
              /\ req'[r].kind = req[r].kind /\ req'[r].spec = req[r].spec
              /\ req'[r].field = req[r].field /\ req'[r].cancel = req[r].cancel
              /\ req'[r].fresh <=> (req[r].kind \notin {"add", "remove"})
              /\ req'[r].verdict = req[r].verdict /\ req'[r].sole = req[r].sole
              /\ \/ (req[r].fresh \/ req[r].kind \in {"add", "remove"}) /\ told' = told
                 \/ told' = A!Slips(told, {"stale"})
<1>0. TypeInv
  BY DEF AInv
<1>1. CASE A!MayReserve
  <2> DEFINE Tells == \/ (req[r].fresh \/ req[r].kind \in {"add", "remove"}) /\ told' = told
            \/ told' = A!Slips(told, {"stale"})
  <2>1. owner' = r /\ epoch' = r /\ A!Pruned = A!None /\ save.at = A!None
    BY <1>1 DEF A!Reserve, A!MayReserve
  <2>2. Tells
    BY <1>1 DEF A!Reserve
  <2>3. CASE req[r].kind \in {"edit", "editoff"}
    <3>1. req' = [req EXCEPT ![r].at = "validating", ![r].fresh = TRUE]
      BY <1>1, <2>3 DEF A!Reserve
    <3>2. "validating" \in A!Places /\ TRUE \in BOOLEAN
      BY DEF A!Places
    <3>4. /\ Others(r) /\ req'[r].at = "validating" /\ req'[r].fresh = TRUE
           /\ req'[r].kind = req[r].kind /\ req'[r].spec = req[r].spec
           /\ req'[r].field = req[r].field /\ req'[r].cancel = req[r].cancel
           /\ req'[r].verdict = req[r].verdict /\ req'[r].sole = req[r].sole
      BY <1>0, <3>1, <3>2, Restarted
    <3> QED BY <2>1, <2>2, <2>3, <3>4
  <2>4. CASE req[r].kind \notin {"edit", "editoff"}
    <3> DEFINE isnew == req[r].kind \notin {"add", "remove"}
    <3>1. req' = [req EXCEPT ![r].at = "ready", ![r].fresh = isnew]
      <4>1. CASE isnew
        <5>1. req' = [req EXCEPT ![r].at = "ready", ![r].fresh = TRUE]
          BY <1>1, <2>4, <4>1 DEF A!Reserve
        <5>2. isnew = TRUE
          BY <4>1
        <5> HIDE DEF isnew
        <5> QED BY <5>1, <5>2
      <4>2. CASE ~isnew
        <5>1. req' = [req EXCEPT ![r].at = "ready", ![r].fresh = FALSE]
          BY <1>1, <2>4, <4>2 DEF A!Reserve
        <5>2. isnew = FALSE
          BY <4>2
        <5> HIDE DEF isnew
        <5> QED BY <5>1, <5>2
      <4> QED BY <4>1, <4>2
    <3>2. "ready" \in A!Places /\ isnew \in BOOLEAN
      BY DEF A!Places
    <3>3. isnew <=> (req[r].kind \notin {"add", "remove"})
      OBVIOUS
    <3> HIDE DEF isnew
    <3>4. /\ Others(r) /\ req'[r].at = "ready" /\ req'[r].fresh = isnew
           /\ req'[r].kind = req[r].kind /\ req'[r].spec = req[r].spec
           /\ req'[r].field = req[r].field /\ req'[r].cancel = req[r].cancel
           /\ req'[r].verdict = req[r].verdict /\ req'[r].sole = req[r].sole
      BY <1>0, <3>1, <3>2, Restarted
    <3> QED BY <2>1, <2>2, <2>4, <3>3, <3>4
  <2> QED BY <2>3, <2>4
<1>2. CASE ~A!MayReserve
  <2>1. req' = [req EXCEPT ![r] = A!Free] /\ owner' = A!Pruned /\ UNCHANGED <<epoch, told>>
    BY <1>2 DEF A!Reserve
  <2> QED BY <1>0, <2>1, FreeFrees
<1> QED BY <1>0, <1>1, <1>2

LEMMA WrittenWrites ==
    ASSUME AInv, NEW r \in Reqs, A!Written(r)
    PROVE  /\ req' \in [Reqs -> Request] /\ \A q \in Reqs : q # r => Weaker(q)
                /\ req'[q].fresh = req[q].fresh
           /\ req'[r].at = "written" /\ ~req'[r].fresh
           /\ req'[r].kind = req[r].kind /\ req'[r].spec = req[r].spec
           /\ req'[r].field \subseteq req[r].field
           /\ req'[r].cancel = req[r].cancel /\ req'[r].verdict = req[r].verdict
           /\ req'[r].sole = req[r].sole
           /\ req[r].kind = "remove" => \A q \in Reqs : req'[q].field = {}
           /\ req[r].kind # "remove" => \A q \in Reqs : req'[q].field = req[q].field
<1> DEFINE gone == req[r].kind = "remove"
<1>1. req \in [Reqs -> Request] /\ gone \in BOOLEAN
  BY DEF AInv, TypeInv
<1>2. req' = [q \in Reqs |-> [req[q] EXCEPT !.at = IF q = r THEN "written" ELSE @,
                                            !.fresh = @ /\ q # r,
                                            !.field = IF gone THEN {} ELSE @]]
  BY DEF A!Written
<1> HIDE DEF gone
<1>3. ASSUME NEW q \in Reqs, q # r
      PROVE  /\ req'[q] \in Request
             /\ req'[q].at = req[q].at /\ req'[q].fresh = req[q].fresh
             /\ req'[q].field = (IF gone THEN {} ELSE req[q].field)
             /\ req'[q].kind = req[q].kind /\ req'[q].spec = req[q].spec
             /\ req'[q].cancel = req[q].cancel /\ req'[q].verdict = req[q].verdict
             /\ req'[q].sole = req[q].sole
  <2>1. req'[q] = [req[q] EXCEPT !.at = req[q].at, !.fresh = req[q].fresh,
                                 !.field = IF gone THEN {} ELSE @]
    BY <1>1, <1>2, <1>3 DEF Request
  <2>2. req[q] \in Request /\ (IF gone THEN {} ELSE req[q].field) \in SUBSET Fields
    BY <1>1 DEF Request
  <2> QED BY <1>1, <2>1, <2>2 DEF Request
<1>4. /\ req'[r] \in Request /\ req'[r].at = "written" /\ ~req'[r].fresh
      /\ req'[r].field = (IF gone THEN {} ELSE req[r].field)
      /\ req'[r].kind = req[r].kind /\ req'[r].spec = req[r].spec
      /\ req'[r].cancel = req[r].cancel /\ req'[r].verdict = req[r].verdict
      /\ req'[r].sole = req[r].sole
  <2>1. req'[r] = [req[r] EXCEPT !.at = "written", !.fresh = FALSE,
                                 !.field = IF gone THEN {} ELSE @]
    BY <1>1, <1>2 DEF Request
  <2>2. /\ req[r] \in Request /\ (IF gone THEN {} ELSE req[r].field) \in SUBSET Fields
        /\ "written" \in A!Places
    BY <1>1 DEF Request, A!Places
  <2> QED BY <1>1, <2>1, <2>2 DEF Request
<1>5. req' \in [Reqs -> Request]
  BY <1>2, <1>3, <1>4
<1>6. \A q \in Reqs : q # r => Weaker(q)
  BY <1>3 DEF Weaker
<1>7. /\ req[r].kind = "remove" => \A q \in Reqs : req'[q].field = {}
      /\ req[r].kind # "remove" => \A q \in Reqs : req'[q].field = req[q].field
  BY <1>3, <1>4 DEF gone
<1>8. req'[r].field \subseteq req[r].field
  BY <1>4
<1> QED BY <1>3, <1>4, <1>5, <1>6, <1>7, <1>8

LEMMA Begun ==
    ASSUME TypeInv, NEW r \in Reqs,
           req' = [req EXCEPT ![r].at = "waiting", ![r].fresh = FALSE, ![r].spec = A!Absent]
    PROVE  /\ Others(r) /\ req'[r].at = "waiting" /\ req'[r].kind = req[r].kind
           /\ req'[r].spec = A!Absent /\ req'[r].field = req[r].field
           /\ req'[r].cancel = req[r].cancel /\ ~req'[r].fresh
           /\ req'[r].verdict = req[r].verdict /\ req'[r].sole = req[r].sole
<1>1. req \in [Reqs -> Request]
  BY DEF TypeInv
<1>2. A!Absent \in Entry /\ "waiting" \in A!Places /\ FALSE \in BOOLEAN
  <2>1. A!Absent \in Entry
    BY Frees
  <2> QED BY <2>1 DEF A!Places
<1> DEFINE isnew == FALSE
<1>3. /\ isnew \in BOOLEAN /\ ~isnew
      /\ req' = [req EXCEPT ![r].at = "waiting", ![r].fresh = isnew, ![r].spec = A!Absent]
  OBVIOUS
<1> HIDE DEF isnew
<1>4. req[r] \in Request /\ req'[r] = [req[r] EXCEPT !.at = "waiting", !.fresh = isnew,
                                                       !.spec = A!Absent]
  BY <1>1, <1>3
<1>5. /\ req'[r] \in Request /\ req'[r].at = "waiting" /\ req'[r].kind = req[r].kind
      /\ req'[r].spec = A!Absent /\ req'[r].field = req[r].field /\ req'[r].cancel = req[r].cancel
      /\ req'[r].fresh = isnew /\ req'[r].verdict = req[r].verdict /\ req'[r].sole = req[r].sole
  BY <1>2, <1>3, <1>4 DEF Request
<1>6. \A q \in Reqs : q # r => req'[q] = req[q]
  BY <1>1, <1>3
<1>7. req' \in [Reqs -> Request]
  BY <1>1, <1>3, <1>5, <1>6
<1>8. ~req'[r].fresh
  BY Zenon, <1>3, <1>5
<1> QED BY <1>5, <1>6, <1>7, <1>8, Same DEF Others

LEMMA Refused ==
    ASSUME TypeInv, NEW r \in Reqs, NEW v \in {"failed", "pending"},
           req' = [req EXCEPT ![r].at = "waiting", ![r].verdict = v]
    PROVE  /\ Others(r) /\ req'[r].at = "waiting" /\ req'[r].kind = req[r].kind
           /\ req'[r].spec = req[r].spec /\ req'[r].field = req[r].field
           /\ req'[r].cancel = req[r].cancel /\ req'[r].fresh = req[r].fresh
           /\ req'[r].verdict = v /\ req'[r].sole = req[r].sole
<1>1. req \in [Reqs -> Request]
  BY DEF TypeInv
<1>2. "waiting" \in A!Places /\ v \in {A!None, "saved", "failed", "pending"}
  BY DEF A!Places
<1>3. /\ req' \in [Reqs -> Request] /\ \A q \in Reqs : q # r => req'[q] = req[q]
      /\ req'[r].at = "waiting" /\ req'[r].kind = req[r].kind /\ req'[r].spec = req[r].spec
      /\ req'[r].field = req[r].field /\ req'[r].cancel = req[r].cancel
      /\ req'[r].fresh = req[r].fresh /\ req'[r].verdict = v /\ req'[r].sole = req[r].sole
  BY ZenonT(60), <1>1, <1>2 DEF Request
<1> QED BY <1>3, Same DEF Others

LEMMA Unfresh ==
    ASSUME NEW x \in Request, NEW isnew \in BOOLEAN, NEW y, y = [x EXCEPT !.fresh = isnew]
    PROVE  /\ y \in Request /\ (y.fresh <=> isnew)
           /\ y.at = x.at /\ y.kind = x.kind /\ y.spec = x.spec
           /\ y.field = x.field /\ y.cancel = x.cancel
           /\ y.verdict = x.verdict /\ y.sole = x.sole
BY DEF Request

LEMMA Stale ==
    ASSUME NEW x \in Request, NEW y, y = [x EXCEPT !.fresh = FALSE]
    PROVE  /\ y \in Request /\ ~y.fresh
           /\ y.at = x.at /\ y.kind = x.kind /\ y.spec = x.spec
           /\ y.field = x.field /\ y.cancel = x.cancel
           /\ y.verdict = x.verdict /\ y.sole = x.sole
<1> DEFINE isnew == FALSE
<1>1. isnew \in BOOLEAN /\ ~isnew /\ y = [x EXCEPT !.fresh = isnew]
  OBVIOUS
<1> HIDE DEF isnew
<1>2. y.fresh <=> isnew
  BY <1>1, Unfresh
<1>3. ~y.fresh
  BY <1>1, <1>2
<1> QED BY ZenonT(60), <1>1, <1>3, Unfresh

LEMMA EndOutdates ==
    ASSUME AInv, A!SettingsEnd
    PROVE  req' \in [Reqs -> Request] /\ \A q \in Reqs : Weaker(q) /\ ~req'[q].fresh
<1>1. req \in [Reqs -> Request] /\ A!None \notin Reqs
  BY AdminAssumption DEF AInv, TypeInv, A!None
<1>2. req' = [q \in Reqs |-> IF q = A!None THEN req[q] ELSE [req[q] EXCEPT !.fresh = FALSE]]
  BY DEF A!SettingsEnd, A!Outdated
<1>3. ASSUME NEW q \in Reqs PROVE req'[q] = [req[q] EXCEPT !.fresh = FALSE]
  BY <1>1, <1>2
<1>4. ASSUME NEW q \in Reqs PROVE req'[q] \in Request /\ Weaker(q) /\ ~req'[q].fresh
  <2>1. req[q] \in Request
    BY <1>1
  <2>3. req'[q] = [req[q] EXCEPT !.fresh = FALSE]
    BY <1>3
  <2>2. /\ req'[q] \in Request /\ ~req'[q].fresh
        /\ req'[q].at = req[q].at /\ req'[q].kind = req[q].kind /\ req'[q].spec = req[q].spec
        /\ req'[q].field = req[q].field /\ req'[q].cancel = req[q].cancel
        /\ req'[q].verdict = req[q].verdict /\ req'[q].sole = req[q].sole
    BY Zenon, <2>1, <2>3, Stale
  <2> QED BY <2>2 DEF Weaker
<1> QED BY <1>2, <1>4

LEMMA GrantCancels ==
    ASSUME AInv, A!Grants
    PROVE  req' \in [Reqs -> Request] /\ \A q \in Reqs : Weaker(q) /\ req'[q].sole = req[q].sole
<1>1. req \in [Reqs -> Request] /\ (owner \in Reqs => req[owner].at \notin {"idle", "read"})
  BY DEF AInv, TypeInv, OwnerInv
<1>2. req' = IF owner \in Reqs THEN [req EXCEPT ![owner].cancel = TRUE] ELSE req
  BY DEF A!Grants
<1>3. CASE owner \in Reqs
  <2>1. req' \in [Reqs -> Request] /\ \A q \in Reqs : q # owner => req'[q] = req[q]
    <3>1. req' = [req EXCEPT ![owner].cancel = TRUE]
      BY <1>2, <1>3
    <3>2. req[owner] \in Request
      BY <1>1, <1>3
    <3>3. [req[owner] EXCEPT !.cancel = TRUE] \in Request
      BY <3>2 DEF Request
    <3>4. req' = [req EXCEPT ![owner] = [req[owner] EXCEPT !.cancel = TRUE]]
      BY <3>1
    <3> QED BY <1>1, <1>3, <3>3, <3>4
  <2>2. req'[owner] = [req[owner] EXCEPT !.cancel = TRUE]
    BY <1>1, <1>2, <1>3
  <2>3. Weaker(owner) /\ req'[owner].sole = req[owner].sole
    BY <1>1, <1>3, <2>2 DEF Request, Weaker
  <2> QED BY <2>1, <2>3, Same
<1>4. CASE owner \notin Reqs
  BY <1>1, <1>2, <1>4, Same
<1> QED BY <1>3, <1>4

LEMMA Outdates ==
    ASSUME TypeInv, NEW r \in Reqs, NEW at \in A!Places,
          req' = [A!Outdated(r) EXCEPT ![r].at = at]
    PROVE  /\ Others(r) /\ \A q \in Reqs : q # r => ~req'[q].fresh
           /\ req'[r].at = at /\ req'[r].kind = req[r].kind /\ req'[r].spec = req[r].spec
           /\ req'[r].field = req[r].field /\ req'[r].cancel = req[r].cancel
           /\ req'[r].verdict = req[r].verdict /\ req'[r].sole = req[r].sole
<1>1. req \in [Reqs -> Request]
  BY DEF TypeInv
<1>2. /\ req' = [q \in Reqs |-> req'[q]]
      /\ req'[r] = [req[r] EXCEPT !.at = at]
      /\ \A q \in Reqs : q # r => req'[q] = [req[q] EXCEPT !.fresh = FALSE]
  BY DEF A!Outdated
<1>3. /\ req'[r] \in Request
      /\ req'[r].at = at /\ req'[r].kind = req[r].kind /\ req'[r].spec = req[r].spec
      /\ req'[r].field = req[r].field /\ req'[r].cancel = req[r].cancel
      /\ req'[r].verdict = req[r].verdict /\ req'[r].sole = req[r].sole
  <2>1. req[r] \in Request /\ req'[r] = [req[r] EXCEPT !.at = at]
    BY <1>1, <1>2
  <2> QED BY <2>1 DEF Request
<1>4. ASSUME NEW q \in Reqs, q # r
      PROVE  req'[q] \in Request /\ Weaker(q) /\ ~req'[q].fresh
  <2>1. req[q] \in Request
    BY <1>1
  <2>3. req'[q] = [req[q] EXCEPT !.fresh = FALSE]
    BY <1>2, <1>4
  <2>2. /\ req'[q] \in Request /\ ~req'[q].fresh
        /\ req'[q].at = req[q].at /\ req'[q].kind = req[q].kind /\ req'[q].spec = req[q].spec
        /\ req'[q].field = req[q].field /\ req'[q].cancel = req[q].cancel
        /\ req'[q].verdict = req[q].verdict /\ req'[q].sole = req[q].sole
    BY Zenon, <2>1, <2>3, Stale
  <2> QED BY <2>2 DEF Weaker
<1>5. req' \in [Reqs -> Request]
  BY <1>2, <1>3, <1>4
<1> QED BY <1>3, <1>4, <1>5 DEF Others

LEMMA SignalCancels ==
    ASSUME TypeInv, NEW r \in Reqs, A!Signals(r)
    PROVE  /\ Others(r)
           /\ req'[r].at = "storing" /\ req'[r].kind = req[r].kind /\ req'[r].spec = req[r].spec
           /\ req'[r].field = req[r].field /\ req'[r].cancel = req[r].cancel
           /\ req'[r].fresh = req[r].fresh /\ req'[r].verdict = req[r].verdict
           /\ req'[r].sole = req[r].sole
<1>1. req \in [Reqs -> Request]
  BY DEF TypeInv
<1>2. /\ req' = [q \in Reqs |-> req'[q]]
      /\ req'[r] = [req[r] EXCEPT !.at = "storing"]
      /\ \A q \in Reqs : q # r /\ q \in A!Pending => req'[q] = [req[q] EXCEPT !.cancel = TRUE]
      /\ \A q \in Reqs : q # r /\ q \notin A!Pending => req'[q] = req[q]
  BY DEF A!Signals
<1>3. /\ req'[r] \in Request
      /\ req'[r].at = "storing" /\ req'[r].kind = req[r].kind /\ req'[r].spec = req[r].spec
      /\ req'[r].field = req[r].field /\ req'[r].cancel = req[r].cancel
      /\ req'[r].fresh = req[r].fresh /\ req'[r].verdict = req[r].verdict
      /\ req'[r].sole = req[r].sole
  <2>1. req[r] \in Request /\ req'[r] = [req[r] EXCEPT !.at = "storing"] /\ "storing" \in A!Places
    BY <1>1, <1>2 DEF A!Places
  <2> QED BY <2>1 DEF Request
<1>4. ASSUME NEW q \in Reqs, q # r
      PROVE  req'[q] \in Request /\ Weaker(q)
  <2>1. CASE q \in A!Pending
    <3>1. /\ req[q] \in Request /\ req'[q] = [req[q] EXCEPT !.cancel = TRUE]
          /\ req[q].at \notin {"idle", "read"}
      BY <1>1, <1>2, <1>4, <2>1 DEF A!Pending
    <3>2. /\ req'[q] \in Request /\ req'[q].cancel
          /\ req'[q].at = req[q].at /\ req'[q].kind = req[q].kind /\ req'[q].spec = req[q].spec
          /\ req'[q].field = req[q].field /\ req'[q].fresh = req[q].fresh
          /\ req'[q].verdict = req[q].verdict /\ req'[q].sole = req[q].sole
      BY <3>1 DEF Request
    <3> QED BY <3>1, <3>2 DEF Weaker
  <2>2. CASE q \notin A!Pending
    <3>1. req'[q] = req[q]
      BY <1>2, <1>4, <2>2
    <3> QED BY <1>1, <3>1, Same
  <2> QED BY <2>1, <2>2
<1>5. req' \in [Reqs -> Request]
  BY <1>2, <1>3, <1>4
<1> QED BY <1>3, <1>4, <1>5 DEF Others



\* A request that goes no further and enables nothing new leaves a stop as it was.
LEMMA Calmer ==
    ASSUME QuietInv, NEW r \in Reqs, Others(r), UNCHANGED <<conf, disk, override>>,
           Quiet' => Quiet, req[r].at # "idle",
           req'[r].kind = req[r].kind \/ req'[r].kind = A!None,
           req'[r].spec = req[r].spec \/ req'[r].spec = A!Absent,
           req[r].cancel => req'[r].cancel \/ req'[r].at = "idle"
    PROVE  QuietInv'
<1>1. ~A!Absent.on
  BY Frees
<1>2. \A q \in Reqs : /\ req'[q].at # "idle" => req[q].at # "idle"
                      /\ req'[q].kind = req[q].kind \/ req'[q].kind = A!None
                      /\ req'[q].spec.on => req[q].spec.on
                      /\ req[q].cancel => req'[q].cancel \/ req'[q].at = "idle"
  BY <1>1 DEF Others, Weaker
<1>3. Calm => Calm'
  BY <1>2 DEF Calm, A!None
<1> QED BY <1>2, <1>3 DEF QuietInv, A!None

LEMMA Calms ==
    ASSUME QuietInv, NEW r \in Reqs, Others(r), UNCHANGED <<conf, disk, override>>,
           told'.off => told.off, told'.still => told.still, told.slip \subseteq told'.slip,
           req[r].at # "idle", req'[r].sole => req[r].sole,
           req'[r].kind = req[r].kind \/ req'[r].kind = A!None,
           req'[r].spec = req[r].spec \/ req'[r].spec = A!Absent,
           req[r].cancel => req'[r].cancel \/ req'[r].at = "idle"
    PROVE  QuietInv'
<1>1. Quiet' => Quiet
  BY DEF Quiet, Others, Weaker
<1> QED BY <1>1, Calmer

LEMMA TypeStays ==
    ASSUME TypeInv, UNCHANGED <<conf, disk, desired, mutation, owner, epoch, stopping,
                                override, removed, partial, restarting, save, sup, req,
                                settings, told>>
    PROVE  TypeInv'
BY DEF TypeInv, Entry, A!None, Request, A!Places, Answers

LEMMA MutexStays ==
    ASSUME MutexInv, UNCHANGED <<req, mutation, save, settings, restarting>>
    PROVE  MutexInv'
BY DEF MutexInv, Commits, A!None

LEMMA FileStays ==
    ASSUME FileInv, UNCHANGED <<disk, conf, desired, settings, save, req, removed>>
    PROVE  FileInv'
BY DEF FileInv, A!Absent, A!Free, A!None

LEMMA RequestStays ==
    ASSUME RequestInv, UNCHANGED <<req>>
    PROVE  RequestInv'
BY DEF RequestInv, A!None, A!Absent, A!Free, Drafts, Runs, Stops

LEMMA OwnerStays ==
    ASSUME OwnerInv, UNCHANGED <<owner, req>>
    PROVE  OwnerInv'
BY DEF OwnerInv, A!None

LEMMA FreshStays ==
    ASSUME FreshInv, UNCHANGED <<told, req, conf, disk, save>>
    PROVE  FreshInv'
BY DEF FreshInv, Runs

LEMMA SaveStays ==
    ASSUME SaveInv, UNCHANGED <<save, req, told>>
    PROVE  SaveInv'
BY DEF SaveInv, A!None, A!Absent, A!Free

LEMMA EditStays ==
    ASSUME EditInv, UNCHANGED <<told, req, conf, disk, save>>
    PROVE  EditInv'
BY DEF EditInv, Runs

LEMMA QuietStays ==
    ASSUME QuietInv, UNCHANGED <<told, req, override, conf, disk>>
    PROVE  QuietInv'
BY DEF QuietInv, Quiet, Calm

LEMMA OffStays ==
    ASSUME OffInv, UNCHANGED <<told, conf, disk, req, save>>
    PROVE  OffInv'
BY DEF OffInv, A!None

LEMMA StillStays ==
    ASSUME StillInv, UNCHANGED <<told, sup, req>>
    PROVE  StillInv'
BY DEF StillInv

LEMMA LiveStays ==
    ASSUME LiveInv, UNCHANGED <<told, sup, conf, req>>
    PROVE  LiveInv'
BY DEF LiveInv

LEMMA AskHolds ==
    ASSUME AInv, NEW r \in Reqs, A!Ask(r)
    PROVE  AInv'
<1>1. /\ req[r].at = "idle" /\ conf \in Entry /\ TypeInv
      /\ UNCHANGED <<conf, disk, desired, mutation, owner, stopping, override, removed, epoch,
                     partial, save, restarting, sup, settings>>
  BY DEF A!Ask, A!Idle, A!book, AInv, TypeInv
<1>2. PICK kind \in {"add", "remove", "start", "edit", "editoff"}, f \in Fields :
        A!Askable(kind) /\ A!Enters(r, kind, f) /\ told' = A!Binding(kind)
  BY Zenon DEF A!Ask
<1>3. /\ A!Wanted(kind, f) \in Entry
      /\ kind = "remove" => A!Wanted(kind, f) = A!Absent
      /\ kind # "remove" => A!Wanted(kind, f).there
      /\ kind = "add" => ~removed /\ (~conf.there \/ partial)
      /\ kind \in {"start", "edit", "editoff"} =>
            conf.there /\ conf.v \subseteq A!Wanted(kind, f).v
      /\ kind = "edit" => A!Wanted(kind, f).on = conf.on
      /\ kind = "editoff" => ~A!Wanted(kind, f).on
      /\ kind \in {"edit", "editoff"} => f \in A!Wanted(kind, f).v
  BY <1>1, <1>2, Wants
<1>4. /\ Others(r)
      /\ req'[r].at = "read" /\ req'[r].kind = kind /\ req'[r].spec = A!Wanted(kind, f)
      /\ req'[r].field = (IF kind \in {"edit", "editoff"} THEN {f} ELSE {})
      /\ req'[r].fresh <=> kind \notin {"add", "remove"}
      /\ ~req'[r].cancel /\ req'[r].verdict = A!None /\ ~req'[r].sole
      /\ kind \in {"add", "start"} => \A q \in Reqs : ~req'[q].sole
  BY <1>1, <1>2, <1>3, EnterReads
<1>5. /\ told' \in Answers /\ told'.slip = told.slip
      /\ told'.off = (told.off /\ kind \notin {"add", "start"})
      /\ told'.still = (told.still /\ kind \notin {"add", "start"})
      /\ told'.fields = (IF kind = "remove" THEN {} ELSE told.fields)
  BY <1>1, <1>2, Binds
<1>6. TypeInv'
  BY <1>1, <1>2, <1>3, <1>4, <1>5, AdminAssumption
     DEF AInv, TypeInv, Others, Weaker, Entry, A!None, Request, A!Places, Answers
<1>7. MutexInv'
  BY <1>1, <1>2, <1>3, <1>4, <1>5 DEF AInv, Others, Weaker, MutexInv, Commits, A!None
<1>8. FileInv'
  BY <1>1, <1>2, <1>3, <1>4, <1>5 DEF AInv, Others, Weaker, FileInv, A!None
<1>9. RequestInv'
  BY <1>1, <1>2, <1>3, <1>4, <1>5
     DEF AInv, Others, Weaker, RequestInv, A!None, Drafts, Runs, Stops
<1>10. OwnerInv'
  BY SMTT(30), <1>1, <1>2, <1>3, <1>4, <1>5 DEF AInv, Others, Weaker, OwnerInv, A!None
<1>11. FreshInv'
  BY <1>1, <1>2, <1>3, <1>4, <1>5 DEF AInv, Others, Weaker, FreshInv, Runs, A!None
<1>12. SaveInv'
  BY <1>1, <1>2, <1>3, <1>4, <1>5 DEF AInv, Others, Weaker, SaveInv, A!None
<1>13. EditInv'
  <2>1. told'.fields \subseteq told.fields /\ told'.slip = told.slip
    BY <1>5
  <2>2. \A q \in Reqs : req'[q].at \in Runs \/ req'[q].at \in {"waiting", "written"} =>
          /\ q # r /\ req'[q].at = req[q].at /\ req'[q].verdict = req[q].verdict
          /\ req'[q].field \subseteq req[q].field
    BY <1>4 DEF Others, Weaker, Runs
  <2>3. \A q \in Reqs : save.by = q => req[q].at = "waiting"
    BY DEF AInv, SaveInv
  <2> QED BY <1>1, <1>4, <2>1, <2>2, <2>3 DEF AInv, EditInv, Others, Weaker
<1>14. QuietInv'
  <2>1. CASE kind \in {"add", "start"}
    <3>1. ~Quiet'
      BY <1>4, <1>5, <2>1 DEF Quiet
    <3> QED BY <3>1 DEF QuietInv
  <2>2. CASE kind \notin {"add", "start"}
    <3>1. (told'.off => told.off) /\ (told'.still => told.still) /\ told'.slip = told.slip
      BY <1>5
    <3>2. Quiet' => Quiet
      BY <1>1, <1>4, <3>1 DEF Quiet, Others, Weaker
    <3>3. kind = "edit" => (req'[r].spec.on => conf.on)
      BY <1>3, <1>4
    <3> QED BY <1>1, <1>4, <2>2, <3>2, <3>3 DEF AInv, QuietInv, Calm, Others, Weaker
  <2> QED BY <2>1, <2>2
<1>15. OffInv'
  <2>1. /\ told'.off => told.off /\ kind \notin {"add", "start"}
        /\ told'.slip = told.slip
    BY <1>5
  <2> QED BY <1>1, <1>4, <2>1 DEF AInv, OffInv, Others, Weaker, A!None
<1>16. StillInv'
  BY <1>1, <1>2, <1>3, <1>4, <1>5, AdminAssumption, Frees
     DEF AInv, StillInv, TypeInv, MutexInv, RequestInv, QuietInv, FileInv, Others, Weaker,
         A!None, Request, Answers, Commits, Drafts, Runs, Stops, Quiet, Calm
<1>17. LiveInv'
  BY <1>1, <1>2, <1>3, <1>4, <1>5 DEF AInv, Others, Weaker, LiveInv, A!None
<1> QED BY <1>6, <1>7, <1>8, <1>9, <1>10, <1>11, <1>12, <1>13, <1>14, <1>15, <1>16, <1>17
    DEF AInv

LEMMA ReserveHolds ==
    ASSUME AInv, NEW r \in Reqs, A!Reserve(r)
    PROVE  AInv'
<1>1. /\ req[r].at = "read" /\ stopping' \in BOOLEAN
      /\ UNCHANGED <<conf, disk, desired, mutation, override, removed, partial, save,
                     restarting, sup, settings>>
  BY DEF A!Reserve, AInv, TypeInv
<1>2. \/ /\ Freed(r) /\ owner' = A!Pruned /\ UNCHANGED <<epoch, told>>
      \/ /\ Others(r) /\ A!Pruned = A!None /\ save.at = A!None /\ owner' = r /\ epoch' = r
         /\ req[r].kind \in {"edit", "editoff"} => req'[r].at = "validating"
         /\ req[r].kind \notin {"edit", "editoff"} => req'[r].at = "ready"
         /\ req'[r].kind = req[r].kind /\ req'[r].spec = req[r].spec
         /\ req'[r].field = req[r].field /\ req'[r].cancel = req[r].cancel
         /\ req'[r].fresh <=> (req[r].kind \notin {"add", "remove"})
         /\ req'[r].verdict = req[r].verdict /\ req'[r].sole = req[r].sole
         /\ \/ (req[r].fresh \/ req[r].kind \in {"add", "remove"}) /\ told' = told
            \/ told' = A!Slips(told, {"stale"})
  BY ReserveReserves
<1>3. A!Slips(told, {"stale"}) \in Answers /\ A!Slips(told, {"stale"}).off = told.off
      /\ A!Slips(told, {"stale"}).still = told.still /\ A!Slips(told, {"stale"}).fields = {}
      /\ A!Slips(told, {"stale"}).slip = told.slip \cup {"stale"}
  <2>1. told \in Answers /\ {"stale"} \in SUBSET {"stale", "dropped", "joined"}
    BY DEF AInv, TypeInv
  <2>2. ~(told.slip \cup {"stale"} \subseteq {"joined"})
    OBVIOUS
  <2> QED BY <2>1, <2>2, Slipped
<1>4. /\ A!Pruned \in {owner, A!None}
      /\ owner \in Reqs /\ req[owner].kind \in {"add", "remove"} => A!Pruned = owner
  BY AdminAssumption DEF A!Pruned
<1>5. TypeInv'
  BY <1>1, <1>2, <1>3, <1>4, AdminAssumption
     DEF AInv, TypeInv, Freed, Others, Weaker, Entry, A!None, Request, A!Places, Answers
<1>6. MutexInv'
  BY <1>1, <1>2, <1>3, <1>4 DEF AInv, Freed, Others, Weaker, MutexInv, Commits, A!None
<1>7. FileInv'
  BY <1>1, <1>2, <1>3, <1>4 DEF AInv, Freed, Others, Weaker, FileInv, A!None
<1>8. RequestInv'
  BY SMTT(30), <1>1, <1>2, <1>3, <1>4, AdminAssumption, Frees
     DEF AInv, RequestInv, TypeInv, Freed, Others, Weaker, A!None, Drafts, Runs, Stops,
         Request, Answers
<1>9. OwnerInv'
  BY SMTT(30), <1>1, <1>2, <1>3, <1>4, AdminAssumption, Frees
     DEF AInv, Freed, Others, Weaker, OwnerInv, A!None, RequestInv, Drafts, Runs, Stops,
         MutexInv, Commits
<1>10. FreshInv'
  BY SMTT(30), <1>1, <1>2, <1>3, <1>4 DEF AInv, Freed, Others, Weaker, FreshInv, Runs, A!None
<1>11. SaveInv'
  BY <1>1, <1>2, <1>3, <1>4 DEF AInv, Freed, Others, Weaker, SaveInv, A!None
<1>12. EditInv'
  BY SMTT(30), <1>1, <1>2, <1>3, <1>4 DEF AInv, Freed, Others, Weaker, EditInv, Runs, A!None
<1>13. QuietInv'
  BY SMTT(30), <1>1, <1>2, <1>3, <1>4
     DEF AInv, Freed, Others, Weaker, QuietInv, Quiet, Calm, A!None
<1>14. OffInv'
  BY SMTT(30), <1>1, <1>2, <1>3, <1>4 DEF AInv, Freed, Others, Weaker, OffInv, A!None
<1>15. StillInv'
  BY <1>1, <1>2, <1>3, <1>4 DEF AInv, Freed, Others, Weaker, StillInv, A!None
<1>16. LiveInv'
  BY <1>1, <1>2, <1>3, <1>4 DEF AInv, Freed, Others, Weaker, LiveInv, A!None
<1> QED BY <1>5, <1>6, <1>7, <1>8, <1>9, <1>10, <1>11, <1>12, <1>13, <1>14, <1>15, <1>16
    DEF AInv

LEMMA ValidatesHolds ==
    ASSUME AInv, NEW r \in Reqs, A!Validates(r)
    PROVE  AInv'
<1>1. req[r].at = "validating"
      /\ UNCHANGED <<conf, disk, desired, mutation, owner, stopping, override, removed, epoch,
                     partial, save, restarting, sup, settings, told>>
  BY DEF A!Validates, A!book
<1>2. \/ Moved(r, "parking") /\ req[r].kind = "editoff" /\ req[r].fresh
      \/ Moved(r, "ready") /\ req[r].kind # "editoff" /\ req[r].fresh
      \/ Left(r)
  BY GotoMoves, LeaveLeaves DEF A!Validates, AInv, A!Places
<1>3. TypeInv'
  BY SMTT(30), <1>1, <1>2, AdminAssumption
     DEF AInv, TypeInv, Moved, Left, Others, Weaker, Entry, A!None, Request, A!Places, Answers
<1>4. MutexInv'
  BY <1>1, <1>2 DEF AInv, Moved, Left, Others, Weaker, MutexInv, Commits, A!None
<1>5. FileInv'
  BY SMTT(30), <1>1, <1>2 DEF AInv, Moved, Left, Others, Weaker, FileInv, A!None
<1>6. RequestInv'
  BY SMTT(30), <1>1, <1>2
     DEF AInv, Moved, Left, Others, Weaker, RequestInv, A!None, Drafts, Runs, Stops
<1>7. OwnerInv'
  BY SMTT(30), <1>1, <1>2 DEF AInv, Moved, Left, Others, Weaker, OwnerInv, A!None
<1>8. FreshInv'
  BY SMTT(90), <1>1, <1>2 DEF AInv, Moved, Left, Others, Weaker, FreshInv, Runs, A!None
<1>9. SaveInv'
  BY <1>1, <1>2 DEF AInv, Moved, Left, Others, Weaker, SaveInv, A!None
<1>10. EditInv'
  BY <1>1, <1>2 DEF AInv, Moved, Left, Others, Weaker, EditInv, Runs, A!None
<1>11. QuietInv'
  BY <1>1, <1>2, Calms DEF AInv, Moved, Left
<1>12. OffInv'
  BY SMTT(30), <1>1, <1>2 DEF AInv, Moved, Left, Others, Weaker, OffInv, A!None
<1>13. StillInv'
  BY <1>1, <1>2 DEF AInv, Moved, Left, Others, Weaker, StillInv, A!None
<1>14. LiveInv'
  BY <1>1, <1>2 DEF AInv, Moved, Left, Others, Weaker, LiveInv, A!None
<1> QED BY <1>3, <1>4, <1>5, <1>6, <1>7, <1>8, <1>9, <1>10, <1>11, <1>12, <1>13, <1>14
    DEF AInv

LEMMA ExpiresHolds ==
    ASSUME AInv, NEW r \in Reqs, A!Expires(r)
    PROVE  AInv'
<1>1. req[r].at = "validating"
      /\ UNCHANGED <<conf, disk, desired, mutation, stopping, override, removed, epoch,
                     partial, save, restarting, sup, settings, told>>
  BY DEF A!Expires, A!book
<1>2. Freed(r) /\ owner' = (IF owner = r THEN "expired" ELSE owner)
  BY FreeFrees DEF A!Expires, AInv
<1>3. TypeInv'
  BY <1>1, <1>2, AdminAssumption
     DEF AInv, TypeInv, Freed, Others, Weaker, Entry, A!None, Request, A!Places, Answers
<1>4. MutexInv'
  BY <1>1, <1>2 DEF AInv, Freed, Others, Weaker, MutexInv, Commits, A!None
<1>5. FileInv'
  BY <1>1, <1>2 DEF AInv, Freed, Others, Weaker, FileInv, A!None
<1>6. RequestInv'
  BY <1>1, <1>2 DEF AInv, Freed, Others, Weaker, RequestInv, A!None, Drafts, Runs, Stops
<1>7. OwnerInv'
  BY <1>1, <1>2, AdminAssumption, Frees
     DEF AInv, Freed, Others, Weaker, OwnerInv, A!None, RequestInv, Drafts, Runs, Stops,
         MutexInv, Commits
<1>8. FreshInv'
  BY SMTT(30), <1>1, <1>2 DEF AInv, Freed, Others, Weaker, FreshInv, Runs, A!None
<1>9. SaveInv'
  BY <1>1, <1>2 DEF AInv, Freed, Others, Weaker, SaveInv, A!None
<1>10. EditInv'
  BY SMTT(30), <1>1, <1>2 DEF AInv, Freed, Others, Weaker, EditInv, Runs, A!None
<1>11. QuietInv'
  BY SMTT(30), <1>1, <1>2 DEF AInv, Freed, Others, Weaker, QuietInv, Quiet, Calm, A!None
<1>12. OffInv'
  BY SMTT(30), <1>1, <1>2 DEF AInv, Freed, Others, Weaker, OffInv, A!None
<1>13. StillInv'
  BY <1>1, <1>2 DEF AInv, Freed, Others, Weaker, StillInv, A!None
<1>14. LiveInv'
  BY <1>1, <1>2 DEF AInv, Freed, Others, Weaker, LiveInv, A!None
<1> QED BY <1>3, <1>4, <1>5, <1>6, <1>7, <1>8, <1>9, <1>10, <1>11, <1>12, <1>13, <1>14
    DEF AInv

LEMMA LapsesHolds ==
    ASSUME AInv, A!Lapses
    PROVE  AInv'
<1>1. owner = "expired" /\ owner' = "lapsed"
      /\ UNCHANGED <<conf, disk, desired, mutation, stopping, override, removed, epoch,
                     partial, save, restarting, sup, req, settings, told>>
  BY DEF A!Lapses, A!book
<1>2. TypeInv'
  BY <1>1, AdminAssumption DEF AInv, TypeInv, Entry, A!None, Request, A!Places, Answers
<1>3. OwnerInv'
  BY <1>1, AdminAssumption, Frees
     DEF AInv, OwnerInv, A!None, RequestInv, Drafts, Runs, Stops, MutexInv, Commits
<1>4. MutexInv' /\ FileInv' /\ RequestInv' /\ FreshInv' /\ SaveInv' /\ EditInv' /\ QuietInv'
      /\ OffInv' /\ StillInv' /\ LiveInv'
  BY <1>1, MutexStays, FileStays, RequestStays, FreshStays, SaveStays, EditStays, QuietStays,
     OffStays, StillStays, LiveStays
     DEF AInv
<1> QED BY <1>2, <1>3, <1>4 DEF AInv

LEMMA BeginsHolds ==
    ASSUME AInv, NEW r \in Reqs, A!Begins(r)
    PROVE  AInv'
<1>1. req[r].at = "ready" /\ mutation = A!None
      /\ UNCHANGED <<conf, disk, desired, owner, stopping, override, removed, epoch, partial,
                     save, restarting, sup, settings, told>>
  BY DEF A!Begins, A!book
<1>2. \/ Left(r) /\ mutation' = mutation
      \/ /\ Moved(r, "writing") /\ mutation' = r /\ ~restarting
         /\ req[r].kind \in {"start", "edit"} => ~req[r].cancel /\ req[r].fresh
         /\ req[r].kind = "add" => ~removed /\ (conf.there => conf = req[r].spec)
  BY GotoMoves, LeaveLeaves DEF A!Begins, AInv, A!Places
<1>3. TypeInv'
  BY <1>1, <1>2, AdminAssumption
     DEF AInv, TypeInv, Moved, Left, Others, Weaker, Entry, A!None, Request, A!Places, Answers
<1>4. MutexInv'
  BY <1>1, <1>2, AdminAssumption, Frees
     DEF AInv, Moved, Left, Others, Weaker, MutexInv, Commits, A!None, RequestInv, Drafts,
         Runs, Stops
<1>5. FileInv'
  BY <1>1, <1>2 DEF AInv, Moved, Left, Others, Weaker, FileInv, A!None
<1>6. RequestInv'
  BY <1>1, <1>2 DEF AInv, Moved, Left, Others, Weaker, RequestInv, A!None, Drafts, Runs, Stops
<1>7. OwnerInv'
  BY SMTT(30), <1>1, <1>2 DEF AInv, Moved, Left, Others, Weaker, OwnerInv, A!None
<1>8. FreshInv'
  BY SMTT(90), <1>1, <1>2, AdminAssumption, Frees
     DEF AInv, Moved, Left, Others, Weaker, FreshInv, Runs, QuietInv, Quiet, Calm, RequestInv,
         A!None, Drafts, Stops, FileInv
<1>9. SaveInv'
  BY <1>1, <1>2 DEF AInv, Moved, Left, Others, Weaker, SaveInv, A!None
<1>10. EditInv'
  BY <1>1, <1>2 DEF AInv, Moved, Left, Others, Weaker, EditInv, Runs, A!None
<1>11. QuietInv'
  BY <1>1, <1>2, AdminAssumption, Frees
     DEF AInv, Moved, Left, Others, Weaker, QuietInv, Quiet, Calm, RequestInv, A!None, Drafts,
         Runs, Stops, MutexInv, Commits
<1>12. OffInv'
  BY <1>1, <1>2, Frees
     DEF AInv, Moved, Left, Others, Weaker, OffInv, A!None, QuietInv, Quiet, Calm, RequestInv,
         Drafts, Runs, Stops
<1>13. StillInv'
  BY <1>1, <1>2 DEF AInv, Moved, Left, Others, Weaker, StillInv, A!None
<1>14. LiveInv'
  BY <1>1, <1>2 DEF AInv, Moved, Left, Others, Weaker, LiveInv, A!None
<1> QED BY <1>3, <1>4, <1>5, <1>6, <1>7, <1>8, <1>9, <1>10, <1>11, <1>12, <1>13, <1>14
    DEF AInv

LEMMA BusyHolds ==
    ASSUME AInv, NEW r \in Reqs, A!Busy(r)
    PROVE  AInv'
<1>1. req[r].at = "ready"
      /\ UNCHANGED <<conf, disk, desired, mutation, owner, stopping, override, removed, epoch,
                     partial, save, restarting, sup, settings, told>>
  BY DEF A!Busy, A!book
<1>2. Left(r)
  BY LeaveLeaves DEF A!Busy, AInv
<1>3. TypeInv'
  BY <1>1, <1>2, AdminAssumption
     DEF AInv, TypeInv, Left, Others, Weaker, Entry, A!None, Request, A!Places, Answers
<1>4. MutexInv'
  BY <1>1, <1>2 DEF AInv, Left, Others, Weaker, MutexInv, Commits, A!None
<1>5. FileInv'
  BY <1>1, <1>2 DEF AInv, Left, Others, Weaker, FileInv, A!None
<1>6. RequestInv'
  BY <1>1, <1>2 DEF AInv, Left, Others, Weaker, RequestInv, A!None, Drafts, Runs, Stops
<1>7. OwnerInv'
  BY SMTT(30), <1>1, <1>2 DEF AInv, Left, Others, Weaker, OwnerInv, A!None
<1>8. FreshInv'
  BY <1>1, <1>2 DEF AInv, Left, Others, Weaker, FreshInv, Runs, A!None
<1>9. SaveInv'
  BY <1>1, <1>2 DEF AInv, Left, Others, Weaker, SaveInv, A!None
<1>10. EditInv'
  BY SMTT(30), <1>1, <1>2 DEF AInv, Left, Others, Weaker, EditInv, Runs, A!None
<1>11. QuietInv'
  BY <1>1, <1>2, AdminAssumption, Frees
     DEF AInv, Left, Others, Weaker, QuietInv, Quiet, Calm, RequestInv, A!None, Drafts, Runs,
         Stops, MutexInv, Commits
<1>12. OffInv'
  BY <1>1, <1>2 DEF AInv, Left, Others, Weaker, OffInv, A!None
<1>13. StillInv'
  BY <1>1, <1>2 DEF AInv, Left, Others, Weaker, StillInv, A!None
<1>14. LiveInv'
  BY <1>1, <1>2 DEF AInv, Left, Others, Weaker, LiveInv, A!None
<1> QED BY <1>3, <1>4, <1>5, <1>6, <1>7, <1>8, <1>9, <1>10, <1>11, <1>12, <1>13, <1>14
    DEF AInv

LEMMA WritesHolds ==
    ASSUME AInv, NEW r \in Reqs, A!Writes(r)
    PROVE  AInv'
<1>1. req[r].at = "writing"
      /\ UNCHANGED <<conf, desired, owner, stopping, override, removed, epoch, partial, save,
                     restarting, sup, settings>>
  BY DEF A!Writes, A!book
<1>2. \/ Left(r) /\ mutation' = A!None /\ UNCHANGED <<disk, told>>
      \/ A!Written(r) /\ disk' = [mon |-> A!Draft(r), set |-> desired] /\ mutation' = mutation
  BY LeaveLeaves DEF A!Writes, AInv
<1>3. A!Written(r) =>
        /\ req' \in [Reqs -> Request]
        /\ \A q \in Reqs : q # r => Weaker(q) /\ req'[q].fresh = req[q].fresh
        /\ req'[r].at = "written" /\ ~req'[r].fresh
        /\ req'[r].kind = req[r].kind /\ req'[r].spec = req[r].spec
        /\ req'[r].field \subseteq req[r].field /\ req'[r].cancel = req[r].cancel
        /\ req'[r].verdict = req[r].verdict /\ req'[r].sole = req[r].sole
        /\ req[r].kind = "remove" => \A q \in Reqs : req'[q].field = {}
        /\ req[r].kind # "remove" => \A q \in Reqs : req'[q].field = req[q].field
  BY WrittenWrites
<1>4. A!Written(r) =>
        /\ told' \in Answers /\ told'.off = told.off /\ told'.still = told.still
        /\ told'.slip = told.slip
        /\ told'.fields = IF req[r].kind = "remove" THEN {} ELSE told.fields
  BY ZenonT(60) DEF A!Written, AInv, TypeInv, Answers
<1>5. /\ A!Draft(r) \in Entry
      /\ req[r].kind \in {"start", "edit"} /\ ~conf.there => A!Draft(r) = A!Absent
      /\ conf.there \/ req[r].kind \notin {"start", "edit"} =>
            /\ A!Draft(r).there = req[r].spec.there /\ A!Draft(r).v = req[r].spec.v
            /\ A!Draft(r).on => req[r].spec.on
            /\ override /\ req[r].kind # "start" => ~A!Draft(r).on
      /\ ~A!Draft(r).there => A!Draft(r) = A!Absent
  <2>1. req[r].spec \in Entry /\ override \in BOOLEAN
    BY DEF AInv, TypeInv, Request
  <2>2. req[r].kind # "remove" => req[r].spec.there
    BY <1>1 DEF AInv, RequestInv, Drafts
  <2>3. req[r].kind = "remove" => req[r].spec = A!Absent
    BY DEF AInv, RequestInv
  <2> DEFINE start == req[r].kind = "start"
  <2>4. start \in BOOLEAN
    OBVIOUS
  <2>5. A!Draft(r) = IF req[r].kind \in {"start", "edit"} /\ ~conf.there THEN A!Absent
                   ELSE A!Candidate(req[r].spec, start)
    BY DEF A!Draft
  <2>6. start <=> req[r].kind = "start"
    OBVIOUS
  <2> HIDE DEF start
  <2> QED BY <2>1, <2>2, <2>3, <2>4, <2>5, <2>6, Candidates, Frees
<1>6. TypeInv'
  BY <1>1, <1>2, <1>3, <1>4, <1>5, AdminAssumption
     DEF AInv, TypeInv, Left, Others, Weaker, Entry, A!None, Request, A!Places, Answers
<1>7. MutexInv'
  BY <1>1, <1>2, <1>3, <1>4, <1>5, AdminAssumption, Frees
     DEF AInv, Left, Others, Weaker, MutexInv, Commits, A!None, RequestInv, Drafts, Runs,
         Stops
<1>8. FileInv'
  BY SMTT(30), <1>1, <1>2, <1>3, <1>4, <1>5, AdminAssumption, Frees
     DEF AInv, Left, Others, Weaker, FileInv, A!None, RequestInv, Drafts, Runs, Stops,
         MutexInv, Commits
<1>9. RequestInv'
  BY SMTT(30), <1>1, <1>2, <1>3, <1>4, <1>5
     DEF AInv, Left, Others, Weaker, RequestInv, A!None, Drafts, Runs, Stops
<1>10. OwnerInv'
  BY SMTT(30), <1>1, <1>2, <1>3, <1>4, <1>5 DEF AInv, Left, Others, Weaker, OwnerInv, A!None
<1>11. FreshInv'
  BY SMTT(30), <1>1, <1>2, <1>3, <1>4, <1>5, AdminAssumption, Frees
     DEF AInv, Left, Others, Weaker, FreshInv, Runs, RequestInv, A!None, Drafts, Stops,
         MutexInv, Commits
<1>12. SaveInv'
  BY <1>1, <1>2, <1>3, <1>4, <1>5 DEF AInv, Left, Others, Weaker, SaveInv, A!None
<1>13. EditInv'
  <2>1. CASE Left(r) /\ mutation' = A!None /\ UNCHANGED <<disk, told>>
    BY <1>1, <2>1 DEF AInv, EditInv, Left, Others, Weaker, Runs, A!None
  <2>2. CASE A!Written(r) /\ disk' = [mon |-> A!Draft(r), set |-> desired]
    <3>1. /\ mutation = r /\ save.at # "written"
          /\ \A q \in Reqs : q # r => req[q].at \notin Runs \cup {"written"}
      BY <1>1, AdminAssumption DEF AInv, MutexInv, Commits, Runs, A!None
    <3>2. CASE req[r].kind = "remove"
      BY <1>1, <1>3, <1>4, <2>2, <3>2 DEF AInv, EditInv
    <3>3. CASE req[r].kind # "remove"
      <4>1. disk'.mon = A!Draft(r)
        BY <2>2
      <4>2. told.slip \subseteq {"joined"} =>
              conf.v \subseteq A!Draft(r).v /\ req[r].field \subseteq A!Draft(r).v
        BY <1>1, <1>5, <3>3 DEF AInv, FreshInv, RequestInv, Drafts
      <4>3. told'.slip = told.slip /\ told'.fields = told.fields
        BY <1>4, <2>2, <3>3
      <4> QED BY <1>1, <1>3, <2>2, <3>1, <3>3, <4>1, <4>2, <4>3
              DEF AInv, EditInv, Weaker, Runs, A!None
    <3> QED BY <3>2, <3>3
  <2> QED BY <1>2, <2>1, <2>2
<1>14. QuietInv'
  BY SMTT(30), <1>1, <1>2, <1>3, <1>4, <1>5, AdminAssumption, Frees
     DEF AInv, Left, Others, Weaker, QuietInv, Quiet, Calm, RequestInv, A!None, Drafts, Runs,
         Stops, MutexInv, Commits
<1>15. OffInv'
  BY SMTT(90), <1>1, <1>2, <1>3, <1>4, <1>5, AdminAssumption, Frees
     DEF AInv, OffInv, TypeInv, MutexInv, FileInv, RequestInv, QuietInv, SaveInv, Left,
         Others, Weaker, A!None, Request, Answers, Commits, Drafts, Runs, Stops, Quiet, Calm
<1>16. StillInv'
  BY ZenonT(60), <1>1, <1>2, <1>3, <1>4, <1>5, AdminAssumption, Frees
     DEF AInv, StillInv, TypeInv, MutexInv, RequestInv, QuietInv, FileInv, Left, Others,
         Weaker, A!None, Request, Answers, Commits, Drafts, Runs, Stops, Quiet, Calm
<1>17. LiveInv'
  BY <1>1, <1>2, <1>3, <1>4, <1>5 DEF AInv, Left, Others, Weaker, LiveInv, A!None
<1> QED BY <1>6, <1>7, <1>8, <1>9, <1>10, <1>11, <1>12, <1>13, <1>14, <1>15, <1>16, <1>17
    DEF AInv

LEMMA PublishesHolds ==
    ASSUME AInv, NEW r \in Reqs, A!Publishes(r)
    PROVE  AInv'
<1>1. req[r].at = "written"
  BY DEF A!Publishes
<1>2. UNCHANGED <<disk, desired, mutation, owner, stopping, epoch, partial, save, restarting,
                  sup, settings, told>>
  BY Zenon DEF A!Publishes
<1>3. /\ conf' = disk.mon /\ override' = (override /\ (req[r].kind # "start" \/ req[r].cancel))
      /\ removed' = (removed \/ req[r].kind = "remove")
  BY DEF A!Publishes
<1>4. /\ Others(r) /\ \A q \in Reqs : q # r => ~req'[q].fresh
      /\ req[r].kind = "remove" => req'[r].at = "removing"
      /\ req[r].kind # "remove" => req'[r].at = "applying"
      /\ req'[r].kind = req[r].kind /\ req'[r].spec = req[r].spec
      /\ req'[r].field = req[r].field /\ req'[r].cancel = req[r].cancel
      /\ req'[r].verdict = req[r].verdict /\ req'[r].sole = req[r].sole
  <2>1. CASE req[r].kind = "remove"
    <3>1. req' = [A!Outdated(r) EXCEPT ![r].at = "removing"] /\ "removing" \in A!Places
      BY <2>1 DEF A!Publishes, A!Places
    <3> QED BY <2>1, <3>1, Outdates DEF AInv
  <2>2. CASE req[r].kind # "remove"
    <3>1. req' = [A!Outdated(r) EXCEPT ![r].at = "applying"] /\ "applying" \in A!Places
      BY <2>2 DEF A!Publishes, A!Places
    <3> QED BY <2>2, <3>1, Outdates DEF AInv
  <2> QED BY <2>1, <2>2
<1>5. TypeInv'
  BY <1>1, <1>2, <1>3, <1>4, AdminAssumption
     DEF AInv, TypeInv, Others, Weaker, Entry, A!None, Request, A!Places, Answers
<1>6. MutexInv'
  BY <1>1, <1>2, <1>3, <1>4 DEF AInv, Others, Weaker, MutexInv, Commits, A!None
<1>7. FileInv'
  BY <1>1, <1>2, <1>3, <1>4, AdminAssumption, Frees
     DEF AInv, FileInv, TypeInv, MutexInv, RequestInv, Others, Weaker, A!None, Request,
         Answers, Commits, Drafts, Runs, Stops
<1>8. RequestInv'
  BY <1>1, <1>2, <1>3, <1>4 DEF AInv, Others, Weaker, RequestInv, A!None, Drafts, Runs, Stops
<1>9. OwnerInv'
  BY SMTT(30), <1>1, <1>2, <1>3, <1>4 DEF AInv, Others, Weaker, OwnerInv, A!None
<1>10. FreshInv'
  BY <1>1, <1>2, <1>3, <1>4, AdminAssumption, Frees
     DEF AInv, Others, Weaker, FreshInv, Runs, RequestInv, A!None, Drafts, Stops, MutexInv,
         Commits
<1>11. SaveInv'
  BY <1>1, <1>2, <1>3, <1>4 DEF AInv, Others, Weaker, SaveInv, A!None
<1>12. EditInv'
  BY SMTT(30), <1>1, <1>2, <1>3, <1>4 DEF AInv, Others, Weaker, EditInv, Runs, A!None
<1>13. QuietInv'
  <2>1. Quiet' => Quiet
    BY <1>2, <1>4 DEF Quiet, Others, Weaker
  <2>2. Quiet => (override => override')
    BY <1>1, <1>3 DEF AInv, QuietInv
  <2> QED BY <1>1, <1>2, <1>3, <1>4, <2>1, <2>2 DEF AInv, QuietInv, Calm, Others, Weaker
<1>14. OffInv'
  BY <1>1, <1>2, <1>3, <1>4 DEF AInv, Others, Weaker, OffInv, A!None
<1>15. StillInv'
  BY <1>1, <1>2, <1>3, <1>4 DEF AInv, Others, Weaker, StillInv, A!None
<1>16. LiveInv'
  BY <1>1, <1>2, <1>3, <1>4, AdminAssumption, Frees
     DEF AInv, LiveInv, TypeInv, MutexInv, RequestInv, FileInv, FreshInv, Others, Weaker,
         A!None, Request, Answers, Commits, Drafts, Runs, Stops
<1> QED BY <1>5, <1>6, <1>7, <1>8, <1>9, <1>10, <1>11, <1>12, <1>13, <1>14, <1>15, <1>16
    DEF AInv

\* An edit that is answered was in the file and in the memory, and stays there.
LEMMA EditAnswered ==
    ASSUME AInv, NEW r \in Reqs, req[r].at \in Runs, Answered(r), Left(r)
    PROVE  EditInv'
<1>1. UNCHANGED <<conf, disk, save>> /\ told'.slip = told.slip
  BY DEF Answered
<1>2. ASSUME NEW q \in Reqs, q # r
      PROVE  /\ req'[q].at = req[q].at /\ req'[q].verdict = req[q].verdict
             /\ req'[q].field \subseteq req[q].field
  BY <1>2 DEF Left, Others, Weaker
<1>3. req'[r].at = "leaving" /\ req'[r].field = {}
  BY DEF Left
<1>4. CASE told.slip \subseteq {"joined"}
  <2>1. /\ told.fields \subseteq conf.v /\ told.fields \subseteq disk.mon.v
        /\ req[r].field \subseteq conf.v /\ req[r].field \subseteq disk.mon.v
    BY <1>4 DEF AInv, EditInv
  <2>2. told'.fields = told.fields \cup req[r].field
    BY <1>1, <1>4 DEF Answered
  <2>3. told'.fields \subseteq conf'.v /\ told'.fields \subseteq disk'.mon.v
    BY <1>1, <2>1, <2>2
  <2>4. ASSUME NEW q \in Reqs,
               req'[q].at \in Runs \/ (req'[q].at = "waiting" /\ req'[q].verdict = "saved")
        PROVE  req'[q].field \subseteq conf'.v /\ req'[q].field \subseteq disk'.mon.v
    <3>1. q # r
      BY <1>3, <2>4 DEF Runs
    <3>2. req[q].at \in Runs \/ (req[q].at = "waiting" /\ req[q].verdict = "saved")
      BY <1>2, <2>4, <3>1
    <3>3. req[q].field \subseteq conf.v /\ req[q].field \subseteq disk.mon.v
      BY <1>4, <3>2 DEF AInv, EditInv
    <3> QED BY <1>1, <1>2, <3>1, <3>3
  <2>5. ASSUME NEW q \in Reqs, req'[q].at = "written" \/ (save'.at = "written" /\ save'.by = q)
        PROVE  req'[q].field \subseteq disk'.mon.v
    <3>1. CASE q = r
      BY <1>3, <3>1
    <3>2. CASE q # r
      <4>1. req[q].at = "written" \/ (save.at = "written" /\ save.by = q)
        BY <1>1, <1>2, <2>5, <3>2
      <4>2. req[q].field \subseteq disk.mon.v
        BY <1>4, <4>1 DEF AInv, EditInv
      <4> QED BY <1>1, <1>2, <3>2, <4>2
    <3> QED BY <3>1, <3>2
  <2> QED BY <1>1, <1>4, <2>3, <2>4, <2>5 DEF EditInv
<1>5. CASE ~(told.slip \subseteq {"joined"})
  <2>1. told'.fields = {}
    BY <1>1, <1>5 DEF Answered
  <2> QED BY <1>1, <1>5, <2>1 DEF EditInv
<1> QED BY <1>4, <1>5

\* An edit that goes on to the runtime is where it was.
LEMMA EditMoved ==
    ASSUME AInv, NEW r \in Reqs, NEW at \in Runs, req[r].at \in Runs, Moved(r, at),
           UNCHANGED <<conf, disk, save, told>>
    PROVE  EditInv'
<1>1. req'[r].at = at /\ req'[r].field = req[r].field
  BY DEF Moved
<1>2. ASSUME NEW q \in Reqs, q # r
      PROVE  /\ req'[q].at = req[q].at /\ req'[q].verdict = req[q].verdict
             /\ req'[q].field \subseteq req[q].field
  BY <1>2 DEF Moved, Others, Weaker
<1>3. ASSUME told.slip \subseteq {"joined"}, NEW q \in Reqs,
             req'[q].at \in Runs \/ (req'[q].at = "waiting" /\ req'[q].verdict = "saved")
      PROVE  req'[q].field \subseteq conf.v /\ req'[q].field \subseteq disk.mon.v
  <2>1. req[q].at \in Runs \/ (req[q].at = "waiting" /\ req[q].verdict = "saved")
    BY <1>2, <1>3
  <2>2. req[q].field \subseteq conf.v /\ req[q].field \subseteq disk.mon.v
    BY <1>3, <2>1 DEF AInv, EditInv
  <2> QED BY <1>1, <1>2, <2>2
<1>4. ASSUME told.slip \subseteq {"joined"}, NEW q \in Reqs,
             req'[q].at = "written" \/ (save.at = "written" /\ save.by = q)
      PROVE  req'[q].field \subseteq disk.mon.v
  <2>1. CASE q = r
    <3>1. req[q].field \subseteq disk.mon.v
      BY <1>4, <2>1 DEF AInv, EditInv
    <3> QED BY <1>1, <2>1, <3>1
  <2>2. CASE q # r
    <3>1. req[q].at = "written" \/ (save.at = "written" /\ save.by = q)
      BY <1>2, <1>4, <2>2
    <3>2. req[q].field \subseteq disk.mon.v
      BY <1>4, <3>1 DEF AInv, EditInv
    <3> QED BY <1>2, <2>2, <3>2
  <2> QED BY <2>1, <2>2
<1>5. told.slip \subseteq {"joined"} =>
        told.fields \subseteq conf.v /\ told.fields \subseteq disk.mon.v
  BY DEF AInv, EditInv
<1>6. told.fields # {} => told.slip \subseteq {"joined"}
  BY DEF AInv, EditInv
<1> QED BY <1>3, <1>4, <1>5, <1>6 DEF EditInv

LEMMA AppliesHolds ==
    ASSUME AInv, NEW r \in Reqs, A!Applies(r)
    PROVE  AInv'
<1>1. req[r].at = "applying" /\ sup' = sup
  BY DEF A!Applies
<1>2. \/ Answered(r) /\ Left(r)
      \/ /\ UNCHANGED <<conf, disk, desired, mutation, owner, stopping, override, removed,
                        epoch, partial, save, restarting, sup, settings, told>>
         /\ ~req[r].cancel
         /\ \/ Moved(r, "replacing") /\ sup.at = "live"
            \/ Moved(r, "creating") /\ sup.at = "none" /\ A!WantsRun(r)
  BY AnswerAnswers, LeaveLeaves, GotoMoves DEF A!Applies, AInv, A!Places, A!book
<1>3. TypeInv'
  BY SMTT(30), <1>1, <1>2, AdminAssumption
     DEF AInv, TypeInv, Moved, Left, Answered, Others, Weaker, Entry, A!None, Request,
         A!Places, Answers
<1>4. MutexInv'
  BY SMTT(90), <1>1, <1>2, AdminAssumption, Frees
     DEF AInv, Moved, Left, Answered, Others, Weaker, MutexInv, Commits, A!None, RequestInv,
         Drafts, Runs, Stops
<1>5. FileInv'
  BY SMTT(30), <1>1, <1>2 DEF AInv, Moved, Left, Answered, Others, Weaker, FileInv, A!None
<1>6. RequestInv'
  BY SMTT(90), <1>1, <1>2
     DEF AInv, Moved, Left, Answered, Others, Weaker, RequestInv, A!None, Drafts, Runs, Stops
<1>7. OwnerInv'
  BY <1>1, <1>2 DEF AInv, Moved, Left, Answered, Others, Weaker, OwnerInv, A!None
<1>8. FreshInv'
  BY SMTT(30), <1>1, <1>2
     DEF AInv, Moved, Left, Answered, Others, Weaker, FreshInv, Runs, A!None
<1>9. SaveInv'
  BY <1>1, <1>2 DEF AInv, Moved, Left, Answered, Others, Weaker, SaveInv, A!None
<1>10. EditInv'
  BY <1>1, <1>2, EditAnswered, EditMoved DEF Runs
<1>11. QuietInv'
  BY <1>1, <1>2, Calms DEF AInv, Moved, Left, Answered
<1>12. OffInv'
  BY SMTT(30), <1>1, <1>2 DEF AInv, Moved, Left, Answered, Others, Weaker, OffInv, A!None
<1>13. StillInv'
  <2>1. told.still /\ ~req[r].cancel => ~A!WantsRun(r)
    BY <1>1 DEF AInv, QuietInv, Quiet, Calm, A!WantsRun
  <2>2. CASE Answered(r) /\ Left(r)
    <3>1. told'.still = told.still
      BY <2>2 DEF Answered
    <3> QED BY <1>1, <2>2, <3>1 DEF AInv, StillInv, Left, Others, Weaker
  <2>3. CASE told' = told /\ Moved(r, "replacing") /\ sup.at = "live"
    BY <1>1, <2>3 DEF AInv, StillInv
  <2>4. CASE told' = told /\ ~req[r].cancel /\ A!WantsRun(r)
    BY <2>1, <2>4 DEF StillInv
  <2> QED BY <1>2, <2>2, <2>3, <2>4
<1>14. LiveInv'
  BY <1>1, <1>2 DEF AInv, Moved, Left, Answered, Others, Weaker, LiveInv, A!None
<1> QED BY <1>3, <1>4, <1>5, <1>6, <1>7, <1>8, <1>9, <1>10, <1>11, <1>12, <1>13, <1>14
    DEF AInv

LEMMA CreatesHolds ==
    ASSUME AInv, NEW r \in Reqs, A!Creates(r)
    PROVE  AInv'
<1>1. req[r].at = "creating" /\ Answered(r) /\ Left(r)
  BY AnswerAnswers, LeaveLeaves DEF A!Creates, AInv
<1>2. \/ sup' = [at |-> "going", v |-> {}] \/ sup' = sup
      \/ sup' = [at |-> "live", v |-> req[r].spec.v] /\ ~req[r].cancel
  BY DEF A!Creates
<1>3. sup' \in [at : {"none", "live", "going"}, v : SUBSET Fields]
      /\ (sup'.at = "live" => sup.at = "live" \/ ~req[r].cancel)
  BY <1>2 DEF AInv, TypeInv, Request, Entry
<1>4. TypeInv'
  BY <1>1, <1>2, <1>3, AdminAssumption
     DEF AInv, TypeInv, Left, Answered, Others, Weaker, Entry, A!None, Request, A!Places,
         Answers
<1>5. MutexInv'
  BY <1>1, <1>2, <1>3, AdminAssumption, Frees
     DEF AInv, Left, Answered, Others, Weaker, MutexInv, Commits, A!None, RequestInv, Drafts,
         Runs, Stops
<1>6. FileInv'
  BY <1>1, <1>2, <1>3 DEF AInv, Left, Answered, Others, Weaker, FileInv, A!None
<1>7. RequestInv'
  BY <1>1, <1>2, <1>3
     DEF AInv, Left, Answered, Others, Weaker, RequestInv, A!None, Drafts, Runs, Stops
<1>8. OwnerInv'
  BY SMTT(30), <1>1, <1>2, <1>3 DEF AInv, Left, Answered, Others, Weaker, OwnerInv, A!None
<1>9. FreshInv'
  BY <1>1, <1>2, <1>3 DEF AInv, Left, Answered, Others, Weaker, FreshInv, Runs, A!None
<1>10. SaveInv'
  BY <1>1, <1>2, <1>3 DEF AInv, Left, Answered, Others, Weaker, SaveInv, A!None
<1>11. EditInv'
  BY <1>1, EditAnswered DEF Runs
<1>12. QuietInv'
  BY <1>1, <1>2, Calms DEF AInv, Left, Answered
<1>13. OffInv'
  BY <1>1, <1>2, <1>3 DEF AInv, Left, Answered, Others, Weaker, OffInv, A!None
<1>14. StillInv'
  BY <1>1, <1>2, <1>3 DEF AInv, Left, Answered, Others, Weaker, StillInv, A!None
<1>15. LiveInv'
  BY <1>1, <1>2, <1>3, AdminAssumption, Frees
     DEF AInv, LiveInv, TypeInv, MutexInv, RequestInv, FileInv, FreshInv, Left, Answered,
         Others, Weaker, A!None, Request, Answers, Commits, Drafts, Runs, Stops
<1> QED BY <1>4, <1>5, <1>6, <1>7, <1>8, <1>9, <1>10, <1>11, <1>12, <1>13, <1>14, <1>15
    DEF AInv

LEMMA ReplacesHolds ==
    ASSUME AInv, NEW r \in Reqs, A!Replaces(r)
    PROVE  AInv'
<1>1. req[r].at = "replacing"
  BY DEF A!Replaces
<1>2. \/ Answered(r) /\ Left(r) /\ sup' = sup
      \/ Moved(r, "swapping") /\ sup' = A!Going
         /\ UNCHANGED <<conf, disk, desired, mutation, owner, stopping, override, removed,
                        epoch, partial, save, restarting, settings, told>>
  BY AnswerAnswers, LeaveLeaves, GotoMoves DEF A!Replaces, AInv, A!Places
<1>3. A!Going \in [at : {"none", "live", "going"}, v : SUBSET Fields] /\ A!Going.at # "live"
  BY DEF A!Going, AInv, TypeInv
<1>4. TypeInv'
  BY <1>1, <1>2, <1>3, AdminAssumption
     DEF AInv, TypeInv, Moved, Left, Answered, Others, Weaker, Entry, A!None, Request,
         A!Places, Answers
<1>5. MutexInv'
  BY <1>1, <1>2, <1>3, AdminAssumption, Frees
     DEF AInv, Moved, Left, Answered, Others, Weaker, MutexInv, Commits, A!None, RequestInv,
         Drafts, Runs, Stops
<1>6. FileInv'
  BY <1>1, <1>2, <1>3 DEF AInv, Moved, Left, Answered, Others, Weaker, FileInv, A!None
<1>7. RequestInv'
  BY SMTT(90), <1>1, <1>2, <1>3
     DEF AInv, Moved, Left, Answered, Others, Weaker, RequestInv, A!None, Drafts, Runs, Stops
<1>8. OwnerInv'
  BY SMTT(30), <1>1, <1>2, <1>3
     DEF AInv, Moved, Left, Answered, Others, Weaker, OwnerInv, A!None
<1>9. FreshInv'
  BY SMTT(30), <1>1, <1>2, <1>3
     DEF AInv, Moved, Left, Answered, Others, Weaker, FreshInv, Runs, A!None
<1>10. SaveInv'
  BY <1>1, <1>2, <1>3 DEF AInv, Moved, Left, Answered, Others, Weaker, SaveInv, A!None
<1>11. EditInv'
  BY <1>1, <1>2, EditAnswered, EditMoved DEF Runs
<1>12. QuietInv'
  BY <1>1, <1>2, Calms DEF AInv, Moved, Left, Answered
<1>13. OffInv'
  BY <1>1, <1>2, <1>3 DEF AInv, Moved, Left, Answered, Others, Weaker, OffInv, A!None
<1>14. StillInv'
  BY ZenonT(60), <1>1, <1>2, <1>3, AdminAssumption, Frees
     DEF AInv, StillInv, TypeInv, MutexInv, RequestInv, QuietInv, FileInv, Moved, Left,
         Answered, Others, Weaker, A!None, Request, Answers, Commits, Drafts, Runs, Stops,
         Quiet, Calm
<1>15. LiveInv'
  BY <1>1, <1>2, <1>3 DEF AInv, Moved, Left, Answered, Others, Weaker, LiveInv, A!None
<1> QED BY <1>4, <1>5, <1>6, <1>7, <1>8, <1>9, <1>10, <1>11, <1>12, <1>13, <1>14, <1>15
    DEF AInv

LEMMA SwapsHolds ==
    ASSUME AInv, NEW r \in Reqs, A!Swaps(r)
    PROVE  AInv'
<1>1. req[r].at = "swapping" /\ Answered(r) /\ Left(r)
  BY AnswerAnswers, LeaveLeaves DEF A!Swaps, AInv
<1>2. \/ sup' = [at |-> "going", v |-> {}]
      \/ sup' = [at |-> "live", v |-> req[r].spec.v] /\ ~req[r].cancel
  BY DEF A!Swaps
<1>3. sup' \in [at : {"none", "live", "going"}, v : SUBSET Fields]
      /\ (sup'.at = "live" => ~req[r].cancel)
  BY <1>2 DEF AInv, TypeInv, Request, Entry
<1>4. TypeInv'
  BY <1>1, <1>2, <1>3, AdminAssumption
     DEF AInv, TypeInv, Left, Answered, Others, Weaker, Entry, A!None, Request, A!Places,
         Answers
<1>5. MutexInv'
  BY <1>1, <1>2, <1>3, AdminAssumption, Frees
     DEF AInv, Left, Answered, Others, Weaker, MutexInv, Commits, A!None, RequestInv, Drafts,
         Runs, Stops
<1>6. FileInv'
  BY <1>1, <1>2, <1>3 DEF AInv, Left, Answered, Others, Weaker, FileInv, A!None
<1>7. RequestInv'
  BY <1>1, <1>2, <1>3
     DEF AInv, Left, Answered, Others, Weaker, RequestInv, A!None, Drafts, Runs, Stops
<1>8. OwnerInv'
  BY SMTT(30), <1>1, <1>2, <1>3 DEF AInv, Left, Answered, Others, Weaker, OwnerInv, A!None
<1>9. FreshInv'
  BY SMTT(30), <1>1, <1>2, <1>3
     DEF AInv, Left, Answered, Others, Weaker, FreshInv, Runs, A!None
<1>10. SaveInv'
  BY <1>1, <1>2, <1>3 DEF AInv, Left, Answered, Others, Weaker, SaveInv, A!None
<1>11. EditInv'
  BY <1>1, EditAnswered DEF Runs
<1>12. QuietInv'
  BY <1>1, <1>2, <1>3, AdminAssumption, Frees
     DEF AInv, Left, Answered, Others, Weaker, QuietInv, Quiet, Calm, RequestInv, A!None,
         Drafts, Runs, Stops, MutexInv, Commits
<1>13. OffInv'
  BY <1>1, <1>2, <1>3 DEF AInv, Left, Answered, Others, Weaker, OffInv, A!None
<1>14. StillInv'
  BY <1>1, <1>2, <1>3 DEF AInv, Left, Answered, Others, Weaker, StillInv, A!None
<1>15. LiveInv'
  BY <1>1, <1>2, <1>3, AdminAssumption, Frees
     DEF AInv, LiveInv, TypeInv, MutexInv, RequestInv, FileInv, FreshInv, Left, Answered,
         Others, Weaker, A!None, Request, Answers, Commits, Drafts, Runs, Stops
<1> QED BY <1>4, <1>5, <1>6, <1>7, <1>8, <1>9, <1>10, <1>11, <1>12, <1>13, <1>14, <1>15
    DEF AInv

LEMMA RemovesHolds ==
    ASSUME AInv, NEW r \in Reqs, A!Removes(r)
    PROVE  AInv'
<1>1. req[r].at = "removing" /\ sup' = A!Going /\ Moved(r, "removed")
      /\ UNCHANGED <<conf, disk, desired, mutation, owner, stopping, override, removed, epoch,
                     partial, save, restarting, settings, told>>
  BY GotoMoves DEF A!Removes, AInv, A!Places, A!book
<1>2. A!Going \in [at : {"none", "live", "going"}, v : SUBSET Fields] /\ A!Going.at # "live"
  BY DEF A!Going, AInv, TypeInv
<1>3. TypeInv'
  BY <1>1, <1>2, AdminAssumption
     DEF AInv, TypeInv, Moved, Others, Weaker, Entry, A!None, Request, A!Places, Answers
<1>4. MutexInv'
  BY <1>1, <1>2 DEF AInv, Moved, Others, Weaker, MutexInv, Commits, A!None
<1>5. FileInv'
  BY <1>1, <1>2 DEF AInv, Moved, Others, Weaker, FileInv, A!None
<1>6. RequestInv'
  BY <1>1, <1>2 DEF AInv, Moved, Others, Weaker, RequestInv, A!None, Drafts, Runs, Stops
<1>7. OwnerInv'
  BY <1>1, <1>2 DEF AInv, Moved, Others, Weaker, OwnerInv, A!None
<1>8. FreshInv'
  BY <1>1, <1>2 DEF AInv, Moved, Others, Weaker, FreshInv, Runs, A!None
<1>9. SaveInv'
  BY <1>1, <1>2 DEF AInv, Moved, Others, Weaker, SaveInv, A!None
<1>10. EditInv'
  BY SMTT(30), <1>1, <1>2 DEF AInv, Moved, Others, Weaker, EditInv, Runs, A!None
<1>11. QuietInv'
  BY <1>1, <1>2 DEF AInv, Moved, Others, Weaker, QuietInv, Quiet, Calm, A!None
<1>12. OffInv'
  BY <1>1, <1>2 DEF AInv, Moved, Others, Weaker, OffInv, A!None
<1>13. StillInv'
  BY <1>1, <1>2 DEF AInv, Moved, Others, Weaker, StillInv, A!None
<1>14. LiveInv'
  BY <1>1, <1>2 DEF AInv, Moved, Others, Weaker, LiveInv, A!None
<1> QED BY <1>3, <1>4, <1>5, <1>6, <1>7, <1>8, <1>9, <1>10, <1>11, <1>12, <1>13, <1>14
    DEF AInv

LEMMA RemoveAnswersHolds ==
    ASSUME AInv, NEW r \in Reqs, A!RemoveAnswers(r)
    PROVE  AInv'
<1>1. /\ req[r].at = "removed" /\ mutation' = A!None /\ Left(r) /\ partial' \in BOOLEAN
      /\ removed' \in BOOLEAN /\ override' \in BOOLEAN /\ (removed' => removed)
      /\ UNCHANGED <<conf, disk, desired, owner, stopping, epoch, save, restarting, sup,
                     settings, told>>
  BY LeaveLeaves DEF A!RemoveAnswers, AInv, TypeInv
<1>2. TypeInv'
  BY <1>1, AdminAssumption
     DEF AInv, TypeInv, Left, Others, Weaker, Entry, A!None, Request, A!Places, Answers
<1>3. MutexInv'
  BY <1>1, AdminAssumption, Frees
     DEF AInv, Left, Others, Weaker, MutexInv, Commits, A!None, RequestInv, Drafts, Runs,
         Stops
<1>4. FileInv'
  BY <1>1 DEF AInv, Left, Others, Weaker, FileInv, A!None
<1>5. RequestInv'
  BY <1>1 DEF AInv, Left, Others, Weaker, RequestInv, A!None, Drafts, Runs, Stops
<1>6. OwnerInv'
  BY <1>1 DEF AInv, Left, Others, Weaker, OwnerInv, A!None
<1>7. FreshInv'
  BY <1>1 DEF AInv, Left, Others, Weaker, FreshInv, Runs, A!None
<1>8. SaveInv'
  BY <1>1 DEF AInv, Left, Others, Weaker, SaveInv, A!None
<1>9. EditInv'
  BY <1>1 DEF AInv, Left, Others, Weaker, EditInv, Runs, A!None
<1>10. QuietInv'
  BY SMTT(30), <1>1, AdminAssumption, Frees
     DEF AInv, QuietInv, TypeInv, MutexInv, FileInv, RequestInv, OwnerInv, OffInv, Left,
         Others, Weaker, Quiet, Calm, A!None, Request, Answers, Commits, Drafts, Runs, Stops
<1>11. OffInv'
  BY <1>1 DEF AInv, Left, Others, Weaker, OffInv, A!None
<1>12. StillInv'
  BY <1>1 DEF AInv, Left, Others, Weaker, StillInv, A!None
<1>13. LiveInv'
  BY <1>1 DEF AInv, Left, Others, Weaker, LiveInv, A!None
<1> QED BY <1>2, <1>3, <1>4, <1>5, <1>6, <1>7, <1>8, <1>9, <1>10, <1>11, <1>12, <1>13 DEF AInv

LEMMA LeavesHolds ==
    ASSUME AInv, NEW r \in Reqs, A!Leaves(r)
    PROVE  AInv'
<1>1. req[r].at = "leaving" /\ Freed(r)
      /\ UNCHANGED <<conf, disk, desired, mutation, save, restarting, sup, settings, told>>
  BY FreeFrees DEF A!Leaves, AInv
<1>2. /\ owner' = IF owner = r THEN A!None ELSE owner
      /\ removed' = removed /\ override' \in BOOLEAN /\ stopping' \in BOOLEAN
      /\ partial' \in BOOLEAN /\ epoch' \in Reqs \cup {A!None}
      /\ override' # override => ~conf.there /\ owner' = A!None
  BY DEF A!Leaves, A!Release, AInv, TypeInv, A!book
<1>3. TypeInv'
  BY <1>1, <1>2, AdminAssumption
     DEF AInv, TypeInv, Freed, Others, Weaker, Entry, A!None, Request, A!Places, Answers
<1>4. MutexInv'
  BY <1>1, <1>2 DEF AInv, Freed, Others, Weaker, MutexInv, Commits, A!None
<1>5. FileInv'
  BY <1>1, <1>2 DEF AInv, Freed, Others, Weaker, FileInv, A!None
<1>6. RequestInv'
  BY <1>1, <1>2 DEF AInv, Freed, Others, Weaker, RequestInv, A!None, Drafts, Runs, Stops
<1>7. OwnerInv'
  BY SMTT(30), <1>1, <1>2, AdminAssumption, Frees
     DEF AInv, Freed, Others, Weaker, OwnerInv, A!None, RequestInv, Drafts, Runs, Stops,
         MutexInv, Commits
<1>8. FreshInv'
  BY <1>1, <1>2 DEF AInv, Freed, Others, Weaker, FreshInv, Runs, A!None
<1>9. SaveInv'
  BY <1>1, <1>2 DEF AInv, Freed, Others, Weaker, SaveInv, A!None
<1>10. EditInv'
  BY SMTT(30), <1>1, <1>2 DEF AInv, Freed, Others, Weaker, EditInv, Runs, A!None
<1>11. QuietInv'
  <2>1. CASE override' = override
    BY <1>1, <2>1, Calms DEF AInv, Freed
  <2>2. CASE override' # override
    <3>1. ~conf.there /\ owner' = A!None /\ owner \in {r, A!None}
      BY <1>2, <2>2
    <3>2. Quiet' => Quiet
      BY <1>1 DEF Quiet, Freed, Others, Weaker
    <3>3. ~disk.mon.there
      BY <1>1, <3>1, AdminAssumption DEF AInv, FileInv, OwnerInv, A!None
    <3>4. ASSUME Quiet, NEW q \in Reqs, q # r, req[q].at # "idle"
          PROVE  req[q].kind # "add"
      BY <3>1, <3>4, AdminAssumption DEF AInv, QuietInv, RequestInv, OwnerInv, A!None
    <3>5. \A q \in Reqs : q # r => /\ req'[q].at = req[q].at /\ req'[q].kind = req[q].kind
                                   /\ req[q].cancel => req'[q].cancel
      BY <1>1 DEF Freed, Others, Weaker
    <3>6. req'[r].at = "idle" /\ conf' = conf /\ disk' = disk
      BY <1>1 DEF Freed
    <3>7. Quiet => \A q \in Reqs : req'[q].at # "idle" => req'[q].kind # "add"
      BY <3>4, <3>5, <3>6
    <3>8. Quiet => \A q \in Reqs : req'[q].at # "idle" /\ req'[q].kind \in {"add", "start"}
                                     => req'[q].cancel
      BY <3>5, <3>6 DEF AInv, QuietInv
    <3> QED BY <3>1, <3>2, <3>3, <3>6, <3>7, <3>8 DEF QuietInv, Calm
  <2> QED BY <2>1, <2>2
<1>12. OffInv'
  BY SMTT(30), <1>1, <1>2 DEF AInv, Freed, Others, Weaker, OffInv, A!None
<1>13. StillInv'
  BY <1>1, <1>2 DEF AInv, Freed, Others, Weaker, StillInv, A!None
<1>14. LiveInv'
  BY <1>1, <1>2 DEF AInv, Freed, Others, Weaker, LiveInv, A!None
<1> QED BY <1>3, <1>4, <1>5, <1>6, <1>7, <1>8, <1>9, <1>10, <1>11, <1>12, <1>13, <1>14
    DEF AInv

LEMMA AskStopHolds ==
    ASSUME AInv, NEW r \in Reqs, A!AskStop(r)
    PROVE  AInv'
<1>1. req[r].at = "idle" /\ Marked(r)
      /\ UNCHANGED <<conf, disk, desired, mutation, owner, removed, partial, save, restarting,
                     sup, settings, told>>
  BY MarkMarks DEF A!AskStop, A!Idle, AInv, Marked
<1>2. TypeInv'
  BY <1>1, AdminAssumption
     DEF AInv, TypeInv, Marked, Others, Weaker, Entry, A!None, Request, A!Places, Answers
<1>3. MutexInv'
  BY <1>1 DEF AInv, Marked, Others, Weaker, MutexInv, Commits, A!None
<1>4. FileInv'
  BY <1>1 DEF AInv, Marked, Others, Weaker, FileInv, A!None
<1>5. RequestInv'
  BY <1>1 DEF AInv, Marked, Others, Weaker, RequestInv, A!None, Drafts, Runs, Stops
<1>6. OwnerInv'
  BY <1>1 DEF AInv, Marked, Others, Weaker, OwnerInv, A!None, RequestInv, Drafts, Runs, Stops
<1>7. FreshInv'
  BY <1>1 DEF AInv, Marked, Others, Weaker, FreshInv, Runs, RequestInv, A!None, Drafts, Stops
<1>8. SaveInv'
  BY <1>1 DEF AInv, Marked, Others, Weaker, SaveInv, A!None
<1>9. EditInv'
  BY SMTT(30), <1>1 DEF AInv, Marked, Others, Weaker, EditInv, Runs, A!None
<1>10. QuietInv'
  BY <1>1
     DEF AInv, Marked, Others, Weaker, QuietInv, Quiet, Calm, RequestInv, A!None, Drafts,
         Runs, Stops
<1>11. OffInv'
  BY <1>1 DEF AInv, Marked, Others, Weaker, OffInv, A!None, RequestInv, Drafts, Runs, Stops
<1>12. StillInv'
  BY <1>1 DEF AInv, Marked, Others, Weaker, StillInv, A!None
<1>13. LiveInv'
  BY <1>1 DEF AInv, Marked, Others, Weaker, LiveInv, A!None
<1> QED BY <1>2, <1>3, <1>4, <1>5, <1>6, <1>7, <1>8, <1>9, <1>10, <1>11, <1>12, <1>13 DEF AInv

LEMMA ParksHolds ==
    ASSUME AInv, NEW r \in Reqs, A!Parks(r)
    PROVE  AInv'
<1>1. req[r].at = "parking"
      /\ UNCHANGED <<conf, disk, desired, mutation, owner, removed, partial, save, restarting,
                     sup, settings, told>>
  BY DEF A!Parks, A!Mark, A!book
<1>2. \/ Left(r) /\ UNCHANGED <<stopping, override, epoch>>
      \/ Marked(r)
  BY LeaveLeaves, MarkMarks DEF A!Parks, AInv, A!book
<1>3. TypeInv'
  <2>1. CASE Left(r) /\ UNCHANGED <<stopping, override, epoch>>
    BY <1>1, <2>1 DEF AInv, TypeInv, Left, Others
  <2>2. CASE Marked(r)
    BY <1>1, <2>2 DEF AInv, TypeInv, Marked, Others
  <2> QED BY <1>2, <2>1, <2>2
<1>4. MutexInv'
  BY <1>1, <1>2 DEF AInv, Left, Marked, Others, Weaker, MutexInv, Commits, A!None
<1>5. FileInv'
  BY <1>1, <1>2 DEF AInv, Left, Marked, Others, Weaker, FileInv, A!None
<1>6. RequestInv'
  BY SMTT(30), <1>1, <1>2
     DEF AInv, Left, Marked, Others, Weaker, RequestInv, A!None, Drafts, Runs, Stops
<1>7. OwnerInv'
  BY SMTT(30), <1>1, <1>2 DEF AInv, Left, Marked, Others, Weaker, OwnerInv, A!None
<1>8. FreshInv'
  BY <1>1, <1>2 DEF AInv, Left, Marked, Others, Weaker, FreshInv, Runs, A!None
<1>9. SaveInv'
  BY SMTT(30), <1>1, <1>2 DEF AInv, Left, Marked, Others, Weaker, A!book, SaveInv, A!None
<1>10. EditInv'
  BY SMTT(30), <1>1, <1>2
     DEF AInv, Left, Marked, Others, Weaker, A!book, EditInv, Runs, A!None
<1>11. QuietInv'
  BY SMTT(30), <1>1, <1>2
     DEF AInv, Left, Marked, Others, Weaker, QuietInv, Quiet, Calm, RequestInv, A!None,
         Drafts, Runs, Stops
<1>12. OffInv'
  BY SMTT(30), <1>1, <1>2
     DEF AInv, Left, Marked, Others, Weaker, OffInv, A!None, RequestInv, Drafts, Runs, Stops
<1>13. StillInv'
  BY <1>1, <1>2 DEF AInv, Left, Marked, Others, Weaker, StillInv, A!None
<1>14. LiveInv'
  BY <1>1, <1>2 DEF AInv, Left, Marked, Others, Weaker, LiveInv, A!None
<1> QED BY <1>3, <1>4, <1>5, <1>6, <1>7, <1>8, <1>9, <1>10, <1>11, <1>12, <1>13, <1>14
    DEF AInv

LEMMA SignalsHolds ==
    ASSUME AInv, NEW r \in Reqs, A!Signals(r)
    PROVE  AInv'
<1>1. req[r].at = "marked" /\ sup' = A!Going
  BY DEF A!Signals
<1>2. UNCHANGED <<conf, disk, desired, mutation, owner, stopping, override, removed, epoch,
                  partial, save, restarting, settings, told>>
  BY Zenon DEF A!Signals, A!book
<1>3. /\ Others(r)
      /\ req'[r].at = "storing" /\ req'[r].kind = req[r].kind /\ req'[r].spec = req[r].spec
      /\ req'[r].field = req[r].field /\ req'[r].cancel = req[r].cancel
      /\ req'[r].fresh = req[r].fresh /\ req'[r].verdict = req[r].verdict
      /\ req'[r].sole = req[r].sole
  BY SignalCancels DEF AInv
<1>4. A!Going \in [at : {"none", "live", "going"}, v : SUBSET Fields] /\ A!Going.at # "live"
  BY DEF A!Going, AInv, TypeInv
<1>5. TypeInv'
  BY <1>1, <1>2, <1>3, <1>4, AdminAssumption
     DEF AInv, TypeInv, Others, Weaker, Entry, A!None, Request, A!Places, Answers
<1>6. MutexInv'
  BY <1>1, <1>2, <1>3, <1>4 DEF AInv, Others, Weaker, MutexInv, Commits, A!None
<1>7. FileInv'
  BY <1>1, <1>2, <1>3, <1>4 DEF AInv, Others, Weaker, FileInv, A!None
<1>8. RequestInv'
  BY <1>1, <1>2, <1>3, <1>4 DEF AInv, Others, Weaker, RequestInv, A!None, Drafts, Runs, Stops
<1>9. OwnerInv'
  BY SMTT(30), <1>1, <1>2, <1>3, <1>4 DEF AInv, Others, Weaker, OwnerInv, A!None
<1>10. FreshInv'
  BY <1>1, <1>2, <1>3, <1>4 DEF AInv, Others, Weaker, FreshInv, Runs, A!None
<1>11. SaveInv'
  BY <1>1, <1>2, <1>3, <1>4 DEF AInv, Others, Weaker, SaveInv, A!None
<1>12. EditInv'
  BY SMTT(30), <1>1, <1>2, <1>3, <1>4 DEF AInv, Others, Weaker, EditInv, Runs, A!None
<1>13. QuietInv'
  BY SMTT(30), <1>1, <1>2, <1>3, <1>4 DEF AInv, Others, Weaker, QuietInv, Quiet, Calm, A!None
<1>14. OffInv'
  BY SMTT(30), <1>1, <1>2, <1>3, <1>4 DEF AInv, Others, Weaker, OffInv, A!None
<1>15. StillInv'
  BY <1>1, <1>2, <1>3, <1>4 DEF AInv, Others, Weaker, StillInv, A!None
<1>16. LiveInv'
  BY <1>1, <1>2, <1>3, <1>4 DEF AInv, Others, Weaker, LiveInv, A!None
<1> QED BY <1>5, <1>6, <1>7, <1>8, <1>9, <1>10, <1>11, <1>12, <1>13, <1>14, <1>15, <1>16
    DEF AInv

LEMMA StoresHolds ==
    ASSUME AInv, NEW r \in Reqs, A!Stores(r)
    PROVE  AInv'
<1>1. req[r].at = "storing"
      /\ UNCHANGED <<conf, disk, desired, owner, stopping, override, removed, epoch, partial,
                     restarting, sup, settings>>
  BY DEF A!Stores, A!book
<1>2. \/ /\ save.at # A!None /\ Moved(r, "waiting") /\ UNCHANGED <<mutation, save>>
         /\ \E w \in SUBSET {"stale", "dropped", "joined"} :
                /\ told' = A!Slips(told, w)
                /\ req[r].kind = "editoff" => "dropped" \in w
                /\ save.at = "written" /\ disk.mon.on => "joined" \in w
      \/ /\ save.at = A!None /\ mutation = A!None /\ ~restarting /\ mutation' = "saver"
         /\ save' = [at |-> "begun",
                     spec |-> IF req[r].kind = "editoff" THEN req[r].spec ELSE A!Absent, by |-> r]
         /\ Others(r)
         /\ req'[r].at = "waiting" /\ req'[r].kind = req[r].kind /\ req'[r].spec = A!Absent
         /\ req'[r].field = req[r].field /\ req'[r].cancel = req[r].cancel
         /\ ~req'[r].fresh /\ req'[r].verdict = req[r].verdict /\ req'[r].sole = req[r].sole
         /\ \/ req[r].kind = "editoff" /\ ~req[r].fresh /\ told' = A!Slips(told, {"stale"})
            \/ ~(req[r].kind = "editoff" /\ ~req[r].fresh) /\ told' = told
      \/ /\ save.at = A!None /\ UNCHANGED <<mutation, save, told>>
         /\ Others(r)
         /\ req'[r].at = "waiting" /\ req'[r].kind = req[r].kind /\ req'[r].spec = req[r].spec
         /\ req'[r].field = req[r].field /\ req'[r].cancel = req[r].cancel
         /\ req'[r].fresh = req[r].fresh /\ req'[r].verdict \in {"failed", "pending"}
         /\ req'[r].sole = req[r].sole
  <2>1. CASE save.at # A!None
    <3> DEFINE w == {x \in {"dropped", "joined"} :
                        IF x = "dropped" THEN req[r].kind = "editoff"
                        ELSE save.at = "written" /\ disk.mon.on}
    <3>1. A!Goto(r, "waiting") /\ told' = A!Slips(told, w) /\ UNCHANGED <<mutation, save>>
      BY <2>1 DEF A!Stores
    <3>2. Moved(r, "waiting")
      BY <3>1, GotoMoves DEF AInv, A!Places
    <3> QED BY <2>1, <3>1, <3>2
  <2>2. CASE save.at = A!None /\ mutation = A!None /\ ~restarting /\ mutation' = "saver"
    <3>1. /\ save' = [at |-> "begun",
                      spec |-> IF req[r].kind = "editoff" THEN req[r].spec ELSE A!Absent,
                            by |-> r]
          /\ req' = [req EXCEPT ![r].at = "waiting", ![r].fresh = FALSE, ![r].spec = A!Absent]
          /\ told' = IF req[r].kind = "editoff" /\ ~req[r].fresh
                     THEN A!Slips(told, {"stale"}) ELSE told
      BY <2>2 DEF A!Stores, A!None
    <3>2. /\ Others(r) /\ req'[r].at = "waiting" /\ req'[r].kind = req[r].kind
          /\ req'[r].spec = A!Absent /\ req'[r].field = req[r].field
          /\ req'[r].cancel = req[r].cancel /\ ~req'[r].fresh
          /\ req'[r].verdict = req[r].verdict /\ req'[r].sole = req[r].sole
      BY <3>1, Begun DEF AInv
    <3> QED BY <2>2, <3>1, <3>2
  <2>3. CASE save.at = A!None /\ ~(mutation = A!None /\ ~restarting /\ mutation' = "saver")
    <3>1. PICK v \in {"failed", "pending"} :
            req' = [req EXCEPT ![r].at = "waiting", ![r].verdict = v]
      BY <2>3 DEF A!Stores
    <3>2. UNCHANGED <<mutation, save, told>>
      BY <2>3 DEF A!Stores
    <3>3. /\ Others(r) /\ req'[r].at = "waiting" /\ req'[r].kind = req[r].kind
          /\ req'[r].spec = req[r].spec /\ req'[r].field = req[r].field
          /\ req'[r].cancel = req[r].cancel /\ req'[r].fresh = req[r].fresh
          /\ req'[r].verdict = v /\ req'[r].sole = req[r].sole
      BY <3>1, Refused DEF AInv
    <3> QED BY <2>3, <3>2, <3>3
  <2> QED BY <2>1, <2>2, <2>3
<1>3. \A w \in SUBSET {"stale", "dropped", "joined"} :
        /\ A!Slips(told, w) \in Answers /\ A!Slips(told, w).off = told.off
        /\ A!Slips(told, w).still = told.still /\ A!Slips(told, w).slip = told.slip \cup w
        /\ A!Slips(told, w).fields = IF told.slip \cup w \subseteq {"joined"} THEN told.fields
                                   ELSE {}
  BY ZenonT(60), Slipped DEF AInv, TypeInv
<1>4. TypeInv'
  BY SMTT(30), <1>1, <1>2, <1>3, AdminAssumption
     DEF AInv, TypeInv, Moved, Others, Weaker, Entry, A!None, Request, A!Places, Answers
<1>5. MutexInv'
  BY SMTT(90), <1>1, <1>2, <1>3, AdminAssumption, Frees
     DEF AInv, Moved, Others, Weaker, MutexInv, Commits, A!None, RequestInv, Drafts, Runs,
         Stops
<1>6. FileInv'
  BY SMTT(90), <1>1, <1>2, <1>3 DEF AInv, Moved, Others, Weaker, FileInv, A!None
<1>7. RequestInv'
  BY SMTT(90), <1>1, <1>2, <1>3
     DEF AInv, Moved, Others, Weaker, RequestInv, A!None, Drafts, Runs, Stops
<1>8. OwnerInv'
  BY SMTT(30), <1>1, <1>2, <1>3 DEF AInv, Moved, Others, Weaker, OwnerInv, A!None
<1>9. FreshInv'
  <2>1. told.slip \subseteq told'.slip /\ Others(r)
        /\ (save' = save \/ (mutation' = "saver" /\ mutation = A!None))
    BY <1>2, <1>3 DEF Moved
  <2>2. req'[r].at = "waiting"
    BY <1>2 DEF Moved
  <2>3. CASE save' = save
    BY <1>1, <2>1, <2>2, <2>3 DEF AInv, FreshInv, Others, Weaker, Runs
  <2>4. CASE mutation' = "saver" /\ mutation = A!None
    <3>1. mutation' # mutation
      BY <2>4 DEF A!None
    <3>2. /\ save'.at = "begun"
               /\ save'.spec = IF req[r].kind = "editoff" THEN req[r].spec ELSE A!Absent
          /\ \/ req[r].kind = "editoff" /\ ~req[r].fresh /\ told' = A!Slips(told, {"stale"})
             \/ ~(req[r].kind = "editoff" /\ ~req[r].fresh) /\ told' = told
      BY <1>2, <3>1
    <3>3. "stale" \notin told'.slip /\ save'.spec.there => conf.v \subseteq save'.spec.v
      BY <1>1, <1>3, <3>2, Frees DEF AInv, FreshInv
    <3>4. "stale" \notin told'.slip => \A q \in Reqs :
              /\ req'[q].kind \in {"start", "edit", "editoff"} /\ req'[q].fresh
                   /\ req'[q].at \in {"read", "validating", "ready", "parking", "marked",
                        "storing"}
                   => conf.there /\ conf.v \subseteq req'[q].spec.v
              /\ req'[q].at = "writing"
                   /\ req'[q].kind # "remove" => conf.v \subseteq req'[q].spec.v
              /\ req'[q].at = "writing" /\ req'[q].kind \in {"start", "edit"} => conf.there
              /\ req'[q].at = "written" /\ req'[q].kind # "remove" => disk.mon.there
              /\ req'[q].at \in Runs => conf.there
      BY <2>1, <2>2 DEF AInv, FreshInv, Others, Weaker, Runs
    <3> QED BY <1>1, <3>3, <3>4 DEF FreshInv
  <2> QED BY <2>1, <2>3, <2>4
<1>10. SaveInv'
  BY SMTT(90), <1>1, <1>2, <1>3
     DEF AInv, Moved, Others, Weaker, SaveInv, A!None, RequestInv, Drafts, Runs, Stops
<1>11. EditInv'
  BY SMTT(90), <1>1, <1>2, <1>3
     DEF AInv, Moved, Others, Weaker, EditInv, Runs, RequestInv, A!None, Drafts, Stops
<1>12. QuietInv'
  BY SMTT(90), <1>1, <1>2, <1>3
     DEF AInv, Moved, Others, Weaker, QuietInv, Quiet, Calm, RequestInv, A!None, Drafts, Runs,
         Stops
<1>13. OffInv'
  BY SMTT(30), <1>1, <1>2, <1>3 DEF AInv, Moved, Others, Weaker, OffInv, A!None
<1>14. StillInv'
  BY <1>1, <1>2, <1>3 DEF AInv, Moved, Others, Weaker, StillInv, A!None
<1>15. LiveInv'
  BY SMTT(30), <1>1, <1>2, <1>3 DEF AInv, Moved, Others, Weaker, LiveInv, A!None
<1> QED BY <1>4, <1>5, <1>6, <1>7, <1>8, <1>9, <1>10, <1>11, <1>12, <1>13, <1>14, <1>15
    DEF AInv

LEMMA SaverWritesHolds ==
    ASSUME AInv, A!SaverWrites
    PROVE  AInv'
<1>1. save.at = "begun"
      /\ UNCHANGED <<conf, desired, owner, stopping, override, removed, epoch, partial,
                     restarting, sup, settings>>
  BY DEF A!SaverWrites, A!book
<1>2. /\ A!SaverSpec \in Entry /\ A!SaverSpec \in {conf, save.spec}
      /\ A!SaverSpec = save.spec => A!SaverSpec = conf \/ (save.spec.there /\ conf.there)
      /\ ~save.spec.there => A!SaverSpec = conf
  BY DEF A!SaverSpec, AInv, TypeInv
<1>3. /\ A!Candidate(A!SaverSpec, FALSE) \in Entry
      /\ A!Candidate(A!SaverSpec, FALSE).there = A!SaverSpec.there
      /\ A!Candidate(A!SaverSpec, FALSE).v = A!SaverSpec.v
      /\ A!Candidate(A!SaverSpec, FALSE).on => A!SaverSpec.on
      /\ override => ~A!Candidate(A!SaverSpec, FALSE).on
      /\ ~A!SaverSpec.on => A!Candidate(A!SaverSpec, FALSE) = A!SaverSpec
  BY <1>2, Candidates DEF AInv, TypeInv
<1>4. \/ Ended("saved") /\ A!SaverSpec = conf /\ ~conf.on /\ disk' = disk
      \/ Ended("failed") /\ disk' = disk
      \/ /\ disk' \in [mon : Entry, set : Nat] /\ disk'.set = desired
         /\ disk'.mon.there = A!SaverSpec.there /\ disk'.mon.v = A!SaverSpec.v
         /\ disk'.mon.on => A!SaverSpec.on
         /\ override => ~disk'.mon.on
         /\ ~A!SaverSpec.on => disk'.mon = A!SaverSpec
         /\ ~(A!SaverSpec = conf /\ ~conf.on)
         /\ save' \in [at : {A!None, "begun", "written"}, spec : Entry, by : Reqs \cup {A!None}]
         /\ save'.at = "written" /\ save'.spec = save.spec /\ save'.by = save.by
         /\ UNCHANGED <<mutation, req>>
  <2>1. CASE /\ ~(A!SaverSpec = conf /\ ~conf.on)
             /\ disk' = [mon |-> A!Candidate(A!SaverSpec, FALSE), set |-> desired]
             /\ save' = [save EXCEPT !.at = "written"]
             /\ UNCHANGED <<mutation, req>>
    <3>1. desired \in Nat
          /\ save \in [at : {A!None, "begun", "written"}, spec : Entry, by : Reqs \cup {A!None}]
      BY DEF AInv, TypeInv
    <3>2. /\ disk' \in [mon : Entry, set : Nat] /\ disk'.set = desired
          /\ disk'.mon = A!Candidate(A!SaverSpec, FALSE)
      BY <1>3, <2>1, <3>1
    <3>3. /\ save' \in [at : {A!None, "begun", "written"}, spec : Entry, by : Reqs \cup {A!None}]
          /\ save'.at = "written" /\ save'.spec = save.spec /\ save'.by = save.by
      BY <2>1, <3>1
    <3> QED BY <1>3, <2>1, <3>2, <3>3
  <2>2. CASE A!SaverSpec = conf /\ ~conf.on /\ A!SaverEnds("saved")
        /\ UNCHANGED <<disk, A!bounds>>
    BY <2>2, SaverEnded DEF AInv
  <2>3. CASE A!SaverEnds("failed") /\ UNCHANGED disk
    BY <2>3, SaverEnded DEF AInv
  <2> QED BY <2>1, <2>2, <2>3 DEF A!SaverWrites
<1>5. /\ told' \in Answers /\ told'.off = told.off /\ told'.still = told.still
      /\ save.spec.there /\ A!SaverSpec # save.spec =>
            told'.slip = told.slip \cup {"dropped"} /\ told'.fields = {}
      /\ ~(save.spec.there /\ A!SaverSpec # save.spec) => told' = told
  BY Slipped DEF A!SaverWrites, AInv, TypeInv
<1>6. TypeInv'
  BY <1>1, <1>2, <1>3, <1>4, <1>5, AdminAssumption
     DEF AInv, TypeInv, Ended, Entry, A!None, Request, A!Places, Answers
<1>7. MutexInv'
  BY <1>1, <1>2, <1>3, <1>4, <1>5, AdminAssumption, Frees
     DEF AInv, Ended, MutexInv, Commits, A!None, RequestInv, Drafts, Runs, Stops
<1>8. FileInv'
  <2>1. /\ mutation = "saver" /\ settings.at = "idle" /\ disk.mon = conf
        /\ \A q \in Reqs : req[q].at \notin Commits
    BY <1>1, AdminAssumption DEF AInv, MutexInv, FileInv, TypeInv, Commits, A!None
  <2>2. CASE disk' = disk /\ save'.at = A!None /\ req' \in [Reqs -> Request]
             /\ \A q \in Reqs : req'[q].at = req[q].at
    BY <1>1, <2>1, <2>2 DEF AInv, FileInv, Commits, A!None
  <2>3. CASE /\ disk'.set = desired /\ disk'.mon.there = A!SaverSpec.there
             /\ ~A!SaverSpec.on => disk'.mon = A!SaverSpec
             /\ save'.at = "written" /\ UNCHANGED <<mutation, req>>
    <3>1. A!SaverSpec.there = conf.there
      BY <1>2 DEF AInv, TypeInv, Entry
    <3>2. ~conf.there => A!SaverSpec = conf /\ ~conf.on
      <4>1. ~conf.there => conf = A!Absent /\ A!SaverSpec = conf
        BY <1>2 DEF AInv, FileInv
      <4> QED BY <4>1, Frees
    <3>3. ~disk'.mon.there => disk'.mon = A!Absent
      BY <2>3, <3>1, <3>2 DEF AInv, FileInv
    <3> QED BY <1>1, <2>1, <2>3, <3>1, <3>3 DEF AInv, FileInv, Commits
  <2>4. A!NoSave.at = A!None
    BY DEF A!NoSave
  <2> QED BY <1>4, <2>2, <2>3, <2>4 DEF Ended
<1>9. RequestInv'
  BY SMTT(30), <1>1, <1>2, <1>3, <1>4, <1>5, AdminAssumption, Frees
     DEF AInv, RequestInv, TypeInv, Ended, A!None, Drafts, Runs, Stops, Request, Answers
<1>10. OwnerInv'
  BY <1>1, <1>2, <1>3, <1>4, <1>5 DEF AInv, Ended, OwnerInv, A!None
<1>11. FreshInv'
  BY SMTT(90), <1>1, <1>2, <1>3, <1>4, <1>5, AdminAssumption, Frees
     DEF AInv, FreshInv, TypeInv, MutexInv, FileInv, RequestInv, SaveInv, Ended, Runs, A!None,
         Request, Answers, Commits, Drafts, Stops
<1>12. SaveInv'
  <2>1. CASE Ended("saved") \/ Ended("failed")
    <3>1. save'.at = A!None /\ save'.by = A!None /\ save'.spec = A!Absent
      BY <2>1 DEF Ended, A!NoSave
    <3>2. \A q \in Reqs : ~(req'[q].at = "waiting" /\ req'[q].verdict = A!None)
      BY <2>1 DEF Ended, A!None
    <3> QED BY <3>1, <3>2, Frees, AdminAssumption DEF SaveInv, A!None
  <2>2. CASE /\ save'.at = "written" /\ save'.spec = save.spec /\ save'.by = save.by
             /\ UNCHANGED <<mutation, req>>
    <3>1. told.slip \subseteq told'.slip
      BY <1>5
    <3> QED BY <1>1, <2>2, <3>1 DEF AInv, SaveInv, A!None
  <2> QED BY <1>4, <2>1, <2>2
<1>13. EditInv'
  <2>1. /\ mutation = "saver" /\ settings.at = "idle" /\ disk.mon = conf
        /\ \A q \in Reqs : req[q].at \notin Commits
    BY <1>1, AdminAssumption DEF AInv, MutexInv, FileInv, TypeInv, Commits, A!None
  <2>2. told'.slip \subseteq {"joined"} =>
          /\ told' = told /\ "dropped" \notin told.slip /\ "stale" \notin told.slip
          /\ save.spec.there => A!SaverSpec = save.spec
    BY <1>5
  <2>3. told'.fields # {} => told'.slip \subseteq {"joined"}
    BY <1>5 DEF AInv, EditInv
  <2>4. told'.slip \subseteq {"joined"} => conf.v \subseteq A!SaverSpec.v
    BY <1>1, <1>2, <2>2 DEF AInv, FreshInv
  <2>5. ASSUME told'.slip \subseteq {"joined"}, NEW q \in Reqs, req[q].at = "waiting",
               req[q].verdict = A!None
        PROVE  req[q].field \subseteq A!SaverSpec.v
    <3>1. CASE req[q].kind = "editoff"
      <4>1. save.by = q
        BY <2>2, <2>5, <3>1 DEF AInv, SaveInv
      <4>2. save.spec.there /\ req[q].field \subseteq save.spec.v
        BY <1>1, <3>1, <4>1 DEF AInv, SaveInv
      <4> QED BY <2>2, <2>5, <4>2
    <3>2. CASE req[q].kind # "editoff"
      <4>1. req[q].field = {}
        BY <2>5, <3>2 DEF AInv, RequestInv, Stops, A!None
      <4> QED BY <4>1
    <3> QED BY <3>1, <3>2
  <2>6. CASE Ended("saved") /\ A!SaverSpec = conf /\ disk' = disk
    <3>1. ASSUME told'.slip \subseteq {"joined"}
          PROVE  told.slip \subseteq {"joined"} /\ told'.fields = told.fields
      BY <2>2, <3>1
    <3>2. ASSUME told'.slip \subseteq {"joined"}, NEW q \in Reqs,
                 req'[q].at = "waiting" /\ req'[q].verdict = "saved"
          PROVE  req'[q].field \subseteq conf.v
      BY <2>5, <2>6, <3>1, <3>2 DEF Ended, AInv, EditInv
    <3>3. \A q \in Reqs : req'[q].at \notin Runs /\ req'[q].at # "written"
      BY <2>1, <2>6 DEF Ended, Commits, Runs
    <3>4. save'.at # "written"
      BY <2>6 DEF Ended, A!NoSave, A!None
    <3> QED BY <1>1, <2>1, <2>3, <2>6, <3>1, <3>2, <3>3, <3>4 DEF AInv, EditInv
  <2>7. CASE Ended("failed") /\ disk' = disk
    <3>1. ASSUME told'.slip \subseteq {"joined"}
          PROVE  told.slip \subseteq {"joined"} /\ told'.fields = told.fields
      BY <2>2, <3>1
    <3>2. \A q \in Reqs : req'[q].at \notin Runs /\ req'[q].at # "written"
      BY <2>1, <2>7 DEF Ended, Commits, Runs
    <3>3. save'.at # "written"
      BY <2>7 DEF Ended, A!NoSave, A!None
    <3>4. \A q \in Reqs : req'[q].at = "waiting" /\ req'[q].verdict = "saved" =>
              /\ req[q].at = "waiting" /\ req[q].verdict = "saved"
              /\ req'[q].field = req[q].field
      BY <2>7 DEF Ended
    <3> QED BY <1>1, <2>1, <2>3, <2>7, <3>1, <3>2, <3>3, <3>4 DEF AInv, EditInv
  <2>8. CASE disk'.mon.v = A!SaverSpec.v /\ save'.by = save.by /\ UNCHANGED <<mutation, req>>
    <3>1. ASSUME told'.slip \subseteq {"joined"}
          PROVE  /\ told.slip \subseteq {"joined"} /\ told'.fields = told.fields
                 /\ conf.v \subseteq disk'.mon.v
      BY <2>2, <2>4, <2>8, <3>1
    <3>2. ASSUME told'.slip \subseteq {"joined"}, NEW q \in Reqs, save.by = q
          PROVE  req[q].field \subseteq disk'.mon.v
      BY <1>1, <2>5, <2>8, <3>2 DEF AInv, SaveInv
    <3>3. \A q \in Reqs : req[q].at \notin Runs /\ req[q].at # "written"
      BY <2>1 DEF Commits, Runs
    <3> QED BY <1>1, <2>1, <2>3, <2>8, <3>1, <3>2, <3>3 DEF AInv, EditInv
  <2> QED BY <1>4, <2>6, <2>7, <2>8
<1>14. QuietInv'
  <2>1. told'.off = told.off /\ told'.still = told.still /\ told.slip \subseteq told'.slip
    BY <1>5
  <2>2. CASE (Ended("saved") \/ Ended("failed")) /\ disk' = disk
    <3>1. \A q \in Reqs :
              /\ req'[q].at = req[q].at /\ req'[q].kind = req[q].kind
                   /\ req'[q].spec = req[q].spec
              /\ req'[q].cancel = req[q].cancel /\ req'[q].sole = req[q].sole
      BY <2>2 DEF Ended
    <3>2. Quiet' => Quiet
      BY <2>1, <3>1 DEF Quiet
    <3>3. Calm => Calm'
      BY <1>1, <2>2, <3>1 DEF Calm
    <3> QED BY <3>1, <3>2, <3>3 DEF AInv, QuietInv
  <2>3. CASE /\ disk'.mon.there = A!SaverSpec.there /\ (disk'.mon.on => A!SaverSpec.on)
             /\ UNCHANGED <<mutation, req>>
    <3>1. Quiet' => Quiet
      BY <2>1, <2>3 DEF Quiet
    <3>2. ~conf.there => ~disk'.mon.there
      BY <1>2, <2>3 DEF AInv, TypeInv, Entry
    <3>3. ~conf.on => ~disk'.mon.on
      <4>1. save.spec.there => ~save.spec.on
        BY DEF AInv, SaveInv
      <4>2. ~conf.on => ~A!SaverSpec.on
        BY <1>2, <4>1
      <4> QED BY <2>3, <4>2
    <3>4. Calm => Calm'
      BY <1>1, <2>3, <3>2, <3>3 DEF Calm
    <3> QED BY <2>3, <3>1, <3>4 DEF AInv, QuietInv
  <2> QED BY <1>4, <2>2, <2>3
<1>15. OffInv'
  BY SMTT(30), <1>1, <1>2, <1>3, <1>4, <1>5, AdminAssumption, Frees
     DEF AInv, OffInv, TypeInv, MutexInv, FileInv, RequestInv, QuietInv, SaveInv, Ended,
         A!None, Request, Answers, Commits, Drafts, Runs, Stops, Quiet, Calm
<1>16. StillInv'
  BY <1>1, <1>2, <1>3, <1>4, <1>5 DEF AInv, Ended, StillInv, A!None
<1>17. LiveInv'
  BY <1>1, <1>2, <1>3, <1>4, <1>5 DEF AInv, Ended, LiveInv, A!None
<1> QED BY <1>6, <1>7, <1>8, <1>9, <1>10, <1>11, <1>12, <1>13, <1>14, <1>15, <1>16, <1>17
    DEF AInv

LEMMA SaverPublishesHolds ==
    ASSUME AInv, A!SaverPublishes
    PROVE  AInv'
<1>1. save.at = "written" /\ conf' = disk.mon /\ Ended("saved")
      /\ UNCHANGED <<disk, desired, owner, stopping, override, removed, epoch, partial,
                     restarting, sup, settings, told>>
  BY SaverEnded DEF A!SaverPublishes, AInv, A!book
<1>2. TypeInv'
  BY <1>1, AdminAssumption DEF AInv, TypeInv, Ended, Entry, A!None, Request, A!Places, Answers
<1>3. MutexInv'
  BY <1>1, AdminAssumption, Frees
     DEF AInv, Ended, MutexInv, Commits, A!None, RequestInv, Drafts, Runs, Stops
<1>4. FileInv'
  BY <1>1 DEF AInv, Ended, FileInv, A!None
<1>5. RequestInv'
  BY <1>1, AdminAssumption, Frees
     DEF AInv, RequestInv, TypeInv, Ended, A!None, Drafts, Runs, Stops, Request, Answers
<1>6. OwnerInv'
  BY <1>1 DEF AInv, Ended, OwnerInv, A!None
<1>7. FreshInv'
  BY <1>1, AdminAssumption, Frees
     DEF AInv, FreshInv, TypeInv, MutexInv, FileInv, RequestInv, SaveInv, Ended, Runs, A!None,
         Request, Answers, Commits, Drafts, Stops
<1>8. SaveInv'
  BY <1>1, AdminAssumption, Frees
     DEF AInv, Ended, SaveInv, A!None, RequestInv, Drafts, Runs, Stops, MutexInv, Commits
<1>9. EditInv'
  BY <1>1, AdminAssumption, Frees
     DEF AInv, Ended, EditInv, Runs, SaveInv, A!None, RequestInv, Drafts, Stops
<1>10. QuietInv'
  BY <1>1 DEF AInv, Ended, QuietInv, Quiet, Calm, A!None
<1>11. OffInv'
  BY <1>1, AdminAssumption, Frees
     DEF AInv, Ended, OffInv, A!None, RequestInv, Drafts, Runs, Stops, MutexInv, Commits
<1>12. StillInv'
  BY <1>1 DEF AInv, Ended, StillInv, A!None
<1>13. LiveInv'
  BY <1>1, AdminAssumption, Frees DEF AInv, Ended, LiveInv, FileInv, A!None, MutexInv, Commits
<1> QED BY <1>2, <1>3, <1>4, <1>5, <1>6, <1>7, <1>8, <1>9, <1>10, <1>11, <1>12, <1>13 DEF AInv

LEMMA StopAnswersHolds ==
    ASSUME AInv, NEW r \in Reqs, A!StopAnswers(r)
    PROVE  AInv'
<1>1. /\ req[r].at = "waiting" /\ stopping' \in BOOLEAN /\ partial' \in BOOLEAN
      /\ UNCHANGED <<conf, disk, desired, mutation, owner, override, removed, epoch,
                     restarting, sup, settings>>
  BY DEF A!StopAnswers, AInv, TypeInv
<1>2. (Left(r) /\ req[r].kind = "editoff") \/ (Freed(r) /\ req[r].kind # "editoff")
  <2>1. CASE req[r].kind = "editoff"
    <3>1. A!Leave(r)
      BY <2>1 DEF A!StopAnswers
    <3> QED BY <2>1, <3>1, LeaveLeaves DEF AInv
  <2>2. CASE req[r].kind # "editoff"
    BY <2>2, FreeFrees DEF A!StopAnswers, AInv
  <2> QED BY <2>1, <2>2
<1>3. /\ told' \in Answers /\ told'.slip = told.slip
      /\ told'.off = (told.off \/ (req[r].verdict = "saved" /\ req[r].sole))
      /\ told'.still = (told.still \/ (~A!Has /\ req[r].sole))
      /\ told.slip \subseteq {"joined"} => told'.fields =
            (IF req[r].verdict = "saved" THEN told.fields \cup req[r].field ELSE told.fields)
      /\ ~(told.slip \subseteq {"joined"}) => told'.fields = {}
  <2> DEFINE t == [told EXCEPT !.off = @ \/ (req[r].verdict = "saved" /\ req[r].sole),
                               !.still = @ \/ (~A!Has /\ req[r].sole),
                               !.fields = IF req[r].verdict = "saved" THEN @ \cup req[r].field
                                          ELSE @]
  <2>1. /\ t \in Answers /\ t.slip = told.slip
        /\ t.off = (told.off \/ (req[r].verdict = "saved" /\ req[r].sole))
        /\ t.still = (told.still \/ (~A!Has /\ req[r].sole))
        /\ t.fields = IF req[r].verdict = "saved" THEN told.fields \cup req[r].field
                      ELSE told.fields
    BY DEF AInv, TypeInv, Answers, Request
  <2>2. told' = A!Slips(t, {})
    BY DEF A!StopAnswers
  <2>3. {} \in SUBSET {"stale", "dropped", "joined"} /\ t.slip \cup {} = t.slip
    OBVIOUS
  <2> HIDE DEF t
  <2>4. /\ A!Slips(t, {}) \in Answers /\ A!Slips(t, {}).slip = t.slip
        /\ A!Slips(t, {}).off = t.off /\ A!Slips(t, {}).still = t.still
        /\ t.slip \subseteq {"joined"} => A!Slips(t, {}).fields = t.fields
        /\ ~(t.slip \subseteq {"joined"}) => A!Slips(t, {}).fields = {}
    BY Zenon, <2>1, <2>3, Slipped
  <2> QED BY <2>1, <2>2, <2>4
<1>4. \/ /\ save.by = r /\ save'.by = A!None /\ save'.at = save.at
         /\ save'.spec = IF req[r].cancel THEN A!Absent ELSE save.spec
         /\ save' \in [at : {A!None, "begun", "written"}, spec : Entry, by : Reqs \cup {A!None}]
      \/ save.by # r /\ save' = save
  BY Frees DEF A!StopAnswers, AInv, TypeInv
<1>5. TypeInv'
  BY <1>1, <1>2, <1>3, <1>4, AdminAssumption
     DEF AInv, TypeInv, Left, Freed, Others, Weaker, Entry, A!None, Request, A!Places, Answers
<1>6. MutexInv'
  BY <1>1, <1>2, <1>3, <1>4 DEF AInv, Left, Freed, Others, Weaker, MutexInv, Commits, A!None
<1>7. FileInv'
  BY <1>1, <1>2, <1>3, <1>4 DEF AInv, Left, Freed, Others, Weaker, FileInv, A!None
<1>8. RequestInv'
  BY SMTT(30), <1>1, <1>2, <1>3, <1>4
     DEF AInv, Left, Freed, Others, Weaker, RequestInv, A!None, Drafts, Runs, Stops
<1>9. OwnerInv'
  <2>1. req[r].kind \in {A!None, "editoff"}
    BY <1>1 DEF AInv, RequestInv, Stops
  <2>2. owner \in Reqs => owner # r \/ (req'[r].at = "leaving" /\ req'[r].kind # A!None)
    <3>1. owner \in Reqs => req[owner].kind # A!None
      BY DEF AInv, OwnerInv
    <3>2. owner = r => req[r].kind = "editoff"
      BY <2>1, <3>1
    <3>3. req[r].kind = "editoff" => Left(r)
      BY <1>2
    <3>4. CASE owner = r
      <4>1. req[r].kind = "editoff" /\ Left(r)
        BY <3>2, <3>3, <3>4
      <4> QED BY <4>1 DEF Left, A!None
    <3> QED BY <3>4
  <2>3. req'[r].kind \in {A!None, "editoff"}
    BY <1>2, <2>1 DEF Left, Freed
  <2>4. Others(r)
    BY <1>2 DEF Left, Freed
  <2> QED BY <1>1, <2>2, <2>3, <2>4 DEF AInv, OwnerInv, Others, Weaker, A!None
<1>10. FreshInv'
  BY SMTT(90), <1>1, <1>2, <1>3, <1>4, AdminAssumption, Frees
     DEF AInv, Left, Freed, Others, Weaker, FreshInv, Runs, RequestInv, A!None, Drafts, Stops,
         MutexInv, Commits
<1>11. SaveInv'
  BY SMTT(90), <1>1, <1>2, <1>3, <1>4, AdminAssumption, Frees
     DEF AInv, Left, Freed, Others, Weaker, SaveInv, A!None, RequestInv, Drafts, Runs, Stops,
         MutexInv, Commits
<1>12. EditInv'
  BY SMTT(90), <1>1, <1>2, <1>3, <1>4, AdminAssumption, Frees
     DEF AInv, Left, Freed, Others, Weaker, EditInv, Runs, RequestInv, A!None, Drafts, Stops,
         MutexInv, Commits
<1>13. QuietInv'
  <2>1. Quiet' => Quiet
    BY <1>2, <1>3 DEF Quiet, Left, Freed, Others, Weaker
  <2>2. Others(r) /\ (req'[r].kind = req[r].kind \/ req'[r].kind = A!None)
        /\ (req'[r].spec = req[r].spec \/ req'[r].spec = A!Absent)
        /\ (req[r].cancel => req'[r].cancel \/ req'[r].at = "idle")
    BY <1>2 DEF Left, Freed
  <2> QED BY <1>1, <2>1, <2>2, Calmer DEF AInv
<1>14. OffInv'
  BY SMTT(90), <1>1, <1>2, <1>3, <1>4, AdminAssumption, Frees
     DEF AInv, OffInv, TypeInv, MutexInv, FileInv, RequestInv, QuietInv, SaveInv, Left, Freed,
         Others, Weaker, A!None, Request, Answers, Commits, Drafts, Runs, Stops, Quiet, Calm
<1>15. StillInv'
  BY <1>1, <1>2, <1>3
     DEF AInv, StillInv, A!Has, A!Pending, Left, Freed, Others, Weaker
<1>16. LiveInv'
  BY <1>1, <1>2, <1>3, <1>4 DEF AInv, Left, Freed, Others, Weaker, LiveInv, A!None
<1> QED BY <1>5, <1>6, <1>7, <1>8, <1>9, <1>10, <1>11, <1>12, <1>13, <1>14, <1>15, <1>16
    DEF AInv

LEMMA StatusViewHolds ==
    ASSUME AInv, A!StatusView
    PROVE  AInv'
<1>1. removed /\ sup.at = "none"
      /\ UNCHANGED <<conf, disk, desired, mutation, owner, save, restarting, sup, req,
                     settings, told>>
  BY DEF A!StatusView
<1>2. removed' = FALSE
      /\ \/ owner = A!None /\ stopping' = FALSE /\ override' = FALSE /\ epoch' = A!None
              /\ partial' = FALSE
         \/ UNCHANGED <<stopping, override, epoch, partial>>
  BY DEF A!StatusView
<1>3. TypeInv'
  <2>1. /\ stopping' \in BOOLEAN /\ override' \in BOOLEAN /\ removed' \in BOOLEAN
        /\ partial' \in BOOLEAN /\ epoch' \in Reqs \cup {A!None}
    BY <1>2 DEF AInv, TypeInv
  <2> QED BY <1>1, <2>1 DEF AInv, TypeInv
<1>4. FileInv'
  BY <1>1, <1>2 DEF AInv, FileInv, A!None
<1>5. QuietInv'
  BY <1>1, <1>2, AdminAssumption, Frees
     DEF AInv, QuietInv, TypeInv, MutexInv, FileInv, RequestInv, OwnerInv, OffInv, Quiet,
         Calm, A!None, Request, Answers, Commits, Drafts, Runs, Stops
<1>6. MutexInv' /\ RequestInv' /\ OwnerInv' /\ FreshInv' /\ SaveInv' /\ EditInv' /\ OffInv'
      /\ StillInv' /\ LiveInv'
  BY <1>1, <1>2, MutexStays, RequestStays, OwnerStays, FreshStays, SaveStays, EditStays,
     OffStays, StillStays, LiveStays
     DEF AInv
<1> QED BY <1>3, <1>4, <1>5, <1>6 DEF AInv

LEMMA SettingsBeginHolds ==
    ASSUME AInv, A!SettingsBegin
    PROVE  AInv'
<1>1. /\ settings.at = "idle" /\ mutation = A!None /\ ~restarting /\ mutation' = "settings"
      /\ settings' = [at |-> "writing", set |-> desired + 1]
      /\ UNCHANGED <<conf, disk, desired, owner, stopping, override, removed, epoch, partial,
                     save, restarting, sup, req, told>>
  BY DEF A!SettingsBegin, A!book
<1>2. TypeInv'
  BY <1>1, AdminAssumption DEF AInv, TypeInv, Entry, A!None, Request, A!Places, Answers
<1>3. MutexInv'
  BY <1>1, AdminAssumption, Frees
     DEF AInv, MutexInv, Commits, A!None, RequestInv, Drafts, Runs, Stops
<1>4. FileInv'
  BY <1>1 DEF AInv, FileInv, A!None
<1>5. RequestInv' /\ OwnerInv' /\ FreshInv' /\ SaveInv' /\ EditInv' /\ QuietInv' /\ OffInv'
      /\ StillInv' /\ LiveInv'
  BY <1>1, RequestStays, OwnerStays, FreshStays, SaveStays, EditStays, QuietStays, OffStays,
     StillStays, LiveStays
     DEF AInv
<1> QED BY <1>2, <1>3, <1>4, <1>5 DEF AInv

LEMMA SettingsWriteHolds ==
    ASSUME AInv, A!SettingsWrite
    PROVE  AInv'
<1>1. settings.at = "writing"
      /\ UNCHANGED <<conf, desired, owner, stopping, override, removed, epoch, partial, save,
                     restarting, sup, req, told>>
  BY DEF A!SettingsWrite, A!book
<1>2. /\ A!Candidate(conf, FALSE) \in Entry
      /\ A!Candidate(conf, FALSE).there = conf.there
      /\ A!Candidate(conf, FALSE).v = conf.v
      /\ A!Candidate(conf, FALSE).on => conf.on
      /\ override => ~A!Candidate(conf, FALSE).on
      /\ ~conf.on => A!Candidate(conf, FALSE) = conf
  BY Candidates DEF AInv, TypeInv
<1>3. settings' \in [at : {"idle", "writing", "written"}, set : Nat]
      /\ \/ /\ disk' \in [mon : Entry, set : Nat] /\ disk'.set = settings.set
            /\ disk'.mon.there = conf.there /\ disk'.mon.v = conf.v
            /\ disk'.mon.on => conf.on
            /\ override => ~disk'.mon.on
            /\ ~conf.on => disk'.mon = conf
            /\ settings'.at = "written" /\ settings'.set = settings.set /\ mutation' = mutation
         \/ settings'.at = "idle" /\ settings'.set = 0 /\ mutation' = A!None /\ disk' = disk
  <2>1. settings \in [at : {"idle", "writing", "written"}, set : Nat]
    BY DEF AInv, TypeInv
  <2>2. CASE /\ disk' = [mon |-> A!Candidate(conf, FALSE), set |-> settings.set]
             /\ settings' = [settings EXCEPT !.at = "written"] /\ mutation' = mutation
    <3>1. disk' \in [mon : Entry, set : Nat] /\ disk'.set = settings.set
          /\ disk'.mon = A!Candidate(conf, FALSE)
      BY <1>2, <2>1, <2>2
    <3>2. /\ settings' \in [at : {"idle", "writing", "written"}, set : Nat]
          /\ settings'.at = "written" /\ settings'.set = settings.set
      BY <2>1, <2>2
    <3> QED BY <1>2, <2>2, <3>1, <3>2
  <2>3. CASE settings' = [at |-> "idle", set |-> 0] /\ mutation' = A!None /\ disk' = disk
    BY <2>3
  <2> QED BY <2>2, <2>3 DEF A!SettingsWrite
<1>4. TypeInv'
  BY <1>1, <1>2, <1>3, AdminAssumption
     DEF AInv, TypeInv, Entry, A!None, Request, A!Places, Answers
<1>5. MutexInv'
  BY <1>1, <1>2, <1>3, AdminAssumption, Frees
     DEF AInv, MutexInv, Commits, A!None, RequestInv, Drafts, Runs, Stops
<1>6. FileInv'
  BY <1>1, <1>2, <1>3, AdminAssumption, Frees
     DEF AInv, FileInv, A!None, RequestInv, Drafts, Runs, Stops, MutexInv, Commits
<1>7. FreshInv'
  BY <1>1, <1>2, <1>3, AdminAssumption, Frees
     DEF AInv, FreshInv, Runs, RequestInv, A!None, Drafts, Stops, MutexInv, Commits
<1>8. EditInv'
  BY <1>1, <1>2, <1>3, AdminAssumption, Frees
     DEF AInv, EditInv, Runs, RequestInv, A!None, Drafts, Stops, MutexInv, Commits
<1>9. QuietInv'
  BY <1>1, <1>2, <1>3 DEF AInv, QuietInv, Quiet, Calm, A!None
<1>10. OffInv'
  BY <1>1, <1>2, <1>3, AdminAssumption, Frees
     DEF AInv, OffInv, A!None, RequestInv, Drafts, Runs, Stops, MutexInv, Commits
<1>11. RequestInv' /\ OwnerInv' /\ SaveInv' /\ StillInv' /\ LiveInv'
  BY <1>1, <1>2, <1>3, RequestStays, OwnerStays, SaveStays, StillStays, LiveStays DEF AInv
<1> QED BY <1>4, <1>5, <1>6, <1>7, <1>8, <1>9, <1>10, <1>11 DEF AInv

LEMMA SettingsEndHolds ==
    ASSUME AInv, A!SettingsEnd
    PROVE  AInv'
<1>1. /\ settings.at = "written" /\ conf' = disk.mon /\ desired' = settings.set
      /\ settings' = [at |-> "idle", set |-> 0] /\ mutation' = A!None
      /\ UNCHANGED <<disk, owner, stopping, override, removed, epoch, partial, save,
                     restarting, sup, told>>
  BY DEF A!SettingsEnd, A!book
<1>2. req' \in [Reqs -> Request] /\ \A q \in Reqs : Weaker(q) /\ ~req'[q].fresh
  BY EndOutdates
<1>3. TypeInv'
  BY <1>1, <1>2, AdminAssumption
     DEF AInv, TypeInv, Weaker, Entry, A!None, Request, A!Places, Answers
<1>4. MutexInv'
  BY <1>1, <1>2, AdminAssumption, Frees
     DEF AInv, Weaker, MutexInv, Commits, A!None, RequestInv, Drafts, Runs, Stops
<1>5. FileInv'
  BY <1>1, <1>2 DEF AInv, Weaker, FileInv, A!None
<1>6. RequestInv'
  BY <1>1, <1>2 DEF AInv, Weaker, RequestInv, A!None, Drafts, Runs, Stops
<1>7. OwnerInv'
  BY <1>1, <1>2 DEF AInv, Weaker, OwnerInv, A!None
<1>8. FreshInv'
  BY <1>1, <1>2, AdminAssumption, Frees
     DEF AInv, Weaker, FreshInv, Runs, RequestInv, A!None, Drafts, Stops, MutexInv, Commits
<1>9. SaveInv'
  BY <1>1, <1>2 DEF AInv, Weaker, SaveInv, A!None
<1>10. EditInv'
  BY <1>1, <1>2 DEF AInv, Weaker, EditInv, Runs, A!None
<1>11. QuietInv'
  BY <1>1, <1>2 DEF AInv, Weaker, QuietInv, Quiet, Calm, A!None
<1>12. OffInv'
  BY <1>1, <1>2 DEF AInv, Weaker, OffInv, A!None
<1>13. StillInv'
  BY <1>1, <1>2 DEF AInv, Weaker, StillInv, A!None
<1>14. LiveInv'
  BY <1>1, <1>2, AdminAssumption, Frees
     DEF AInv, Weaker, LiveInv, FileInv, A!None, MutexInv, Commits
<1> QED BY <1>3, <1>4, <1>5, <1>6, <1>7, <1>8, <1>9, <1>10, <1>11, <1>12, <1>13, <1>14
    DEF AInv

LEMMA GrantsHolds ==
    ASSUME AInv, A!Grants
    PROVE  AInv'
<1>1. ~restarting /\ mutation = A!None /\ restarting' = TRUE
      /\ UNCHANGED <<conf, disk, desired, mutation, owner, stopping, override, removed, epoch,
                     partial, save, sup, settings, told>>
  BY DEF A!Grants, A!book
<1>2. req' \in [Reqs -> Request] /\ \A q \in Reqs : Weaker(q) /\ req'[q].sole = req[q].sole
  BY GrantCancels
<1>3. TypeInv'
  BY <1>1, <1>2, AdminAssumption
     DEF AInv, TypeInv, Weaker, Entry, A!None, Request, A!Places, Answers
<1>4. MutexInv'
  BY <1>1, <1>2 DEF AInv, Weaker, MutexInv, Commits, A!None
<1>5. FileInv'
  BY <1>1, <1>2 DEF AInv, Weaker, FileInv, A!None
<1>6. RequestInv'
  BY SMTT(30), <1>1, <1>2 DEF AInv, Weaker, RequestInv, A!None, Drafts, Runs, Stops
<1>7. OwnerInv'
  BY <1>1, <1>2 DEF AInv, Weaker, OwnerInv, A!None
<1>8. FreshInv'
  BY <1>1, <1>2 DEF AInv, Weaker, FreshInv, Runs, A!None
<1>9. SaveInv'
  BY <1>1, <1>2 DEF AInv, Weaker, SaveInv, A!None
<1>10. EditInv'
  BY <1>1, <1>2 DEF AInv, Weaker, EditInv, Runs, A!None
<1>11. QuietInv'
  BY <1>1, <1>2 DEF AInv, Weaker, QuietInv, Quiet, Calm, A!None
<1>12. OffInv'
  BY <1>1, <1>2 DEF AInv, Weaker, OffInv, A!None
<1>13. StillInv'
  BY <1>1, <1>2 DEF AInv, Weaker, StillInv, A!None
<1>14. LiveInv'
  BY <1>1, <1>2 DEF AInv, Weaker, LiveInv, A!None
<1> QED BY <1>3, <1>4, <1>5, <1>6, <1>7, <1>8, <1>9, <1>10, <1>11, <1>12, <1>13, <1>14
    DEF AInv

LEMMA RebootsHolds ==
    ASSUME AInv, A!Reboots
    PROVE  AInv'
<1>1. /\ conf' = disk.mon /\ desired' = disk.set /\ mutation' = A!None /\ owner' = A!None
      /\ stopping' = FALSE /\ override' = FALSE /\ removed' = FALSE /\ epoch' = A!None
      /\ partial' = FALSE /\ save' = A!NoSave /\ restarting' = FALSE
      /\ settings' = [at |-> "idle", set |-> 0] /\ disk' = disk
  BY DEF A!Reboots
<1>2. /\ sup' \in [at : {"none", "live", "going"}, v : SUBSET Fields]
      /\ sup'.at = "live" => disk.mon.on
  BY DEF A!Reboots, AInv, TypeInv, Entry
<1>3. /\ req' \in [Reqs -> Request]
      /\ \A q \in Reqs :
            /\ req'[q].at = "idle" /\ req'[q].kind = A!None /\ req'[q].spec = A!Absent
            /\ req'[q].field = {} /\ ~req'[q].cancel /\ ~req'[q].fresh
            /\ req'[q].verdict = A!None /\ ~req'[q].sole
  BY Frees DEF A!Reboots
<1>4. /\ told' \in Answers /\ told'.off = told.off /\ told'.fields = told.fields
      /\ told'.slip = told.slip /\ told'.still = (told.off /\ "joined" \notin told.slip)
  BY DEF A!Reboots, AInv, TypeInv, Answers
<1>5. A!NoSave \in [at : {A!None, "begun", "written"}, spec : Entry, by : Reqs \cup {A!None}]
      /\ A!NoSave.at = A!None /\ A!NoSave.spec = A!Absent /\ A!NoSave.by = A!None
  BY DEF A!NoSave, A!Absent, A!Free, Entry, A!None
<1>6. TypeInv'
  BY <1>1, <1>2, <1>3, <1>4, <1>5, AdminAssumption
     DEF AInv, TypeInv, Entry, A!None, Request, A!Places, Answers
<1>7. MutexInv'
  BY <1>1, <1>2, <1>3, <1>4, <1>5, AdminAssumption, Frees
     DEF AInv, MutexInv, Commits, A!None, RequestInv, Drafts, Runs, Stops
<1>8. FileInv'
  BY <1>1, <1>2, <1>3, <1>4, <1>5 DEF AInv, FileInv, A!None
<1>9. RequestInv'
  BY <1>1, <1>2, <1>3, <1>4, <1>5 DEF AInv, RequestInv, A!None, Drafts, Runs, Stops
<1>10. OwnerInv'
  BY <1>1, <1>2, <1>3, <1>4, <1>5, AdminAssumption, Frees
     DEF AInv, OwnerInv, A!None, RequestInv, Drafts, Runs, Stops, MutexInv, Commits
<1>11. FreshInv'
  BY <1>1, <1>2, <1>3, <1>4, <1>5 DEF AInv, FreshInv, Runs, A!None
<1>12. SaveInv'
  BY <1>1, <1>2, <1>3, <1>4, <1>5, AdminAssumption, Frees
     DEF AInv, SaveInv, A!None, RequestInv, Drafts, Runs, Stops, MutexInv, Commits
<1>13. EditInv'
  BY <1>1, <1>2, <1>3, <1>4, <1>5 DEF AInv, EditInv, Runs, A!None
<1>14. QuietInv'
  BY <1>1, <1>2, <1>3, <1>4, <1>5, AdminAssumption, Frees
     DEF AInv, QuietInv, TypeInv, MutexInv, FileInv, RequestInv, OwnerInv, OffInv, Quiet,
         Calm, A!None, Request, Answers, Commits, Drafts, Runs, Stops
<1>15. OffInv'
  BY <1>1, <1>2, <1>3, <1>4, <1>5 DEF AInv, OffInv, A!None
<1>16. StillInv'
  BY <1>1, <1>2, <1>3, <1>4 DEF AInv, StillInv, OffInv
<1>17. LiveInv'
  BY <1>1, <1>2, <1>3, <1>4, <1>5, AdminAssumption, Frees
     DEF AInv, LiveInv, FileInv, A!None, MutexInv, Commits
<1> QED BY <1>6, <1>7, <1>8, <1>9, <1>10, <1>11, <1>12, <1>13, <1>14, <1>15, <1>16, <1>17
    DEF AInv

LEMMA RetiresHolds ==
    ASSUME AInv, A!Retires
    PROVE  AInv'
<1>1. sup.at = "going" /\ sup' = [at |-> "none", v |-> {}]
      /\ UNCHANGED <<conf, disk, desired, mutation, owner, stopping, override, removed, epoch,
                     partial, save, restarting, req, settings, told>>
  BY DEF A!Retires, A!book
<1>2. TypeInv'
  BY <1>1, AdminAssumption DEF AInv, TypeInv, Entry, A!None, Request, A!Places, Answers
<1>3. StillInv'
  BY <1>1 DEF AInv, StillInv, A!None
<1>4. LiveInv'
  BY <1>1 DEF AInv, LiveInv, A!None
<1>5. MutexInv' /\ FileInv' /\ RequestInv' /\ OwnerInv' /\ FreshInv' /\ SaveInv' /\ EditInv'
      /\ QuietInv' /\ OffInv'
  BY <1>1, MutexStays, FileStays, RequestStays, OwnerStays, FreshStays, SaveStays, EditStays,
     QuietStays, OffStays
     DEF AInv
<1> QED BY <1>2, <1>3, <1>4, <1>5 DEF AInv

-----------------------------------------------------------------------------
(* Every behaviour.                                                        *)

LEMMA AdminBegins == A!Init => AInv
<1> SUFFICES ASSUME A!Init PROVE AInv
  OBVIOUS
<1>1. /\ conf \in Entry /\ conf.there /\ disk.mon = conf /\ disk.set = 0 /\ desired = 0
      /\ disk \in [mon : Entry, set : Nat]
  BY AdminAssumption DEF A!Init, Entry
<1>2. /\ save \in [at : {A!None, "begun", "written"}, spec : Entry, by : Reqs \cup {A!None}]
      /\ save.at = A!None /\ save.by = A!None /\ save.spec = A!Absent /\ A!None \notin Reqs
  BY Frees, AdminAssumption DEF A!Init, A!NoSave, A!Absent, A!None
<1>3. /\ settings \in [at : {"idle", "writing", "written"}, set : Nat] /\ settings.at = "idle"
      /\ sup \in [at : {"none", "live", "going"}, v : SUBSET Fields]
      /\ told \in Answers /\ told.fields = {} /\ told.slip = {} /\ ~told.off /\ ~told.still
  BY DEF A!Init, A!Nothing, Answers
<1>4. req \in [Reqs -> Request] /\ \A r \in Reqs : req[r] = A!Free
  BY Frees DEF A!Init
<1>5. TypeInv
  BY <1>1, <1>2, <1>3, <1>4 DEF A!Init, TypeInv
<1>6. MutexInv /\ FileInv
  BY <1>1, <1>2, <1>3, <1>4, Frees, AdminAssumption
  DEF A!Init, MutexInv, FileInv, Commits, A!None
<1>7. RequestInv /\ OwnerInv
  BY <1>2, <1>4, Frees DEF A!Init, RequestInv, OwnerInv, Drafts, Runs, Stops, A!None
<1>8. FreshInv /\ SaveInv /\ EditInv
  BY <1>1, <1>2, <1>3, <1>4, Frees DEF FreshInv, SaveInv, EditInv, Runs, A!None
<1>9. QuietInv /\ OffInv /\ StillInv /\ LiveInv
  BY <1>1, <1>3, <1>4, Frees DEF QuietInv, Quiet, OffInv, StillInv, LiveInv
<1> QED BY <1>5, <1>6, <1>7, <1>8, <1>9 DEF AInv

LEMMA AdminSteps == AInv /\ [A!Next]_(A!vars) => AInv'
<1> SUFFICES ASSUME AInv, [A!Next]_(A!vars) PROVE AInv'
  OBVIOUS
<1>1. CASE UNCHANGED A!vars
  BY <1>1, TypeStays, MutexStays, FileStays, RequestStays, OwnerStays, FreshStays, SaveStays,
     EditStays, QuietStays, OffStays, StillStays, LiveStays DEF AInv, A!vars, A!book, A!bounds
<1>2. ASSUME NEW r \in Reqs, A!Ask(r) \/ A!AskStop(r) \/ A!Expires(r)
      PROVE  AInv'
  BY <1>2, AskHolds, AskStopHolds, ExpiresHolds
<1>3. ASSUME NEW r \in Reqs, A!Moves(r)
      PROVE  AInv'
  BY <1>3, ReserveHolds, ValidatesHolds, BeginsHolds, BusyHolds, WritesHolds, PublishesHolds,
     AppliesHolds, CreatesHolds, ReplacesHolds, SwapsHolds, RemovesHolds, RemoveAnswersHolds,
     LeavesHolds, ParksHolds, SignalsHolds, StoresHolds, StopAnswersHolds DEF A!Moves
<1>4. CASE A!Background
  BY <1>4, SaverWritesHolds, SaverPublishesHolds, SettingsWriteHolds, SettingsEndHolds,
     LapsesHolds, RetiresHolds DEF A!Background
<1>5. CASE A!StatusView \/ A!SettingsBegin \/ A!Grants \/ A!Reboots
  BY <1>5, StatusViewHolds, SettingsBeginHolds, GrantsHolds, RebootsHolds
<1> QED BY <1>1, <1>2, <1>3, <1>4, <1>5 DEF A!Next

LEMMA AdminTells == AInv => A!AdminTrue
<1> SUFFICES ASSUME AInv PROVE A!AdminTrue
  OBVIOUS
<1>1. A!TypeOK
  BY DEF AInv, TypeInv, A!TypeOK, Entry, Request
<1>2. A!StopsHold
  BY DEF AInv, OffInv, StillInv, A!StopsHold
<1>3. A!EditsHold
  BY DEF AInv, EditInv, A!EditsHold
<1>4. A!Together
  <2> SUFFICES ASSUME mutation = A!None PROVE A!Together
    BY DEF A!Together
  <2>1. /\ save.at = A!None /\ settings.at = "idle" /\ \A r \in Reqs : req[r].at \notin Commits
    BY AdminAssumption DEF AInv, MutexInv, A!None
  <2>2. disk.mon = conf /\ disk.set = desired
    BY <2>1 DEF AInv, FileInv, Commits, A!None
  <2>3. disk = [mon |-> conf, set |-> desired]
    BY <2>2 DEF AInv, TypeInv
  <2>4. (\A r \in Reqs : req[r].at = "idle") /\ sup.at = "live" /\ "stale" \notin told.slip
        => conf.there
    BY DEF AInv, LiveInv
  <2> QED BY <2>3, <2>4 DEF A!Together
<1> QED BY <1>1, <1>2, <1>3, <1>4 DEF A!AdminTrue

\* The books are true for any number of requests, edits, failed writes and crashes: what
\* was answered as saved or stopped is what the file says and what runs, and with nobody
\* at work the memory is the file (_commit, persist_stop, _stop, restart_now).
THEOREM AdminHolds == A!Spec => []AdminTrue
<1>1. AInv => AdminTrue
  BY AdminTells DEF AdminTrue
<1> QED BY <1>1, AdminBegins, AdminSteps, PTL DEF A!Spec

\* After the grant of a restart nobody writes the file and nothing is started: whoever
\* would has to have the mutation lock, and has not (begin_restart, _commit).
THEOREM GrantIsFinal == A!Spec => A!RestartQuiet
<1>1. ASSUME AInv, A!Next, restarting, restarting'
      PROVE  disk' = disk /\ (sup'.at = "live" => sup.at = "live")
  <2>1. /\ save.at = A!None /\ settings.at = "idle" /\ \A r \in Reqs : req[r].at \notin Commits
    BY <1>1, AdminAssumption DEF AInv, MutexInv, A!None
  <2>2. ~A!Reboots
    BY <1>1 DEF A!Reboots
  <2>3. ASSUME NEW r \in Reqs, A!Ask(r) \/ A!AskStop(r) \/ A!Expires(r)
        PROVE  disk' = disk /\ sup' = sup
    BY <2>3 DEF A!Ask, A!AskStop, A!Expires
  <2>4. ASSUME NEW r \in Reqs, A!Moves(r)
        PROVE  disk' = disk /\ (sup'.at = "live" => sup.at = "live")
    <3>1. CASE A!Reserve(r) \/ A!Validates(r) \/ A!Begins(r) \/ A!Busy(r) \/ A!Leaves(r)
          \/ A!Parks(r)
               \/ A!Stores(r) \/ A!StopAnswers(r)
      BY <3>1
         DEF A!Reserve, A!Validates, A!Begins, A!Busy, A!Leaves, A!Parks, A!Stores,
             A!StopAnswers
    <3>2. CASE A!Signals(r)
      BY <3>2 DEF A!Signals, A!Going
    <3>3. CASE A!Writes(r) \/ A!Publishes(r) \/ A!Applies(r) \/ A!Creates(r) \/ A!Replaces(r)
          \/ A!Swaps(r)
               \/ A!Removes(r) \/ A!RemoveAnswers(r)
      BY <2>1, <3>3
         DEF Commits, A!Writes, A!Publishes, A!Applies, A!Creates, A!Replaces, A!Swaps,
             A!Removes,
         A!RemoveAnswers
    <3> QED BY <2>4, <3>1, <3>2, <3>3 DEF A!Moves
  <2>5. ASSUME A!Background
        PROVE  disk' = disk /\ (sup'.at = "live" => sup.at = "live")
    BY <2>1, <2>5
       DEF A!Background, A!SaverWrites, A!SaverPublishes, A!SettingsWrite, A!SettingsEnd,
           A!Lapses,
       A!Retires, A!None
  <2>6. ASSUME A!StatusView \/ A!SettingsBegin \/ A!Grants
        PROVE  disk' = disk /\ sup' = sup
    BY <2>6 DEF A!StatusView, A!SettingsBegin, A!Grants
  <2> QED BY <1>1, <2>2, <2>3, <2>4, <2>5, <2>6 DEF A!Next
<1>2. AInv /\ [A!Next]_(A!vars) =>
        [restarting /\ restarting' => disk' = disk
              /\ (sup'.at = "live" => sup.at = "live")]_(A!vars)
  BY <1>1
<1> QED BY <1>2, AdminBegins, AdminSteps, PTL DEF A!Spec, A!RestartQuiet

-----------------------------------------------------------------------------
(* Facts about the operators the model is built from.                      *)

\* A record beyond some ids is beyond fewer of them.
LEMMA BeyondFewer ==
    ASSUME NEW r, NEW C, NEW D, D \subseteq C, Beyond(r, C)
    PROVE  Beyond(r, D)
BY DEF Beyond

\* Reserving the next id keeps a record a record of the same lineage.
LEMMA BumpRecord ==
    ASSUME NEW r \in Record
    PROVE  /\ Bump(r) \in Record
           /\ Bump(r).next = r.next + 1
           /\ Bump(r).stream = r.stream
           /\ Bump(r).kind = r.kind
BY DEF Bump, Record

\* The records the tools write are records.
LEMMA V2Record ==
    ASSUME NEW s \in Nat, NEW t \in Nat, NEW n \in Nat
    PROVE  /\ V2(s, t, n) \in Record
           /\ Readable(V2(s, t, n))
           /\ V2(s, t, n).stream = t
           /\ V2(s, t, n).next = n
BY DEF V2, Record, Kinds, Readable

LEMMA BlankRecord ==
    ASSUME NEW k \in Kinds
    PROVE  /\ Blank(k) \in Record
           /\ Blank(k).kind = k
BY DEF Blank, Record, Kinds

-----------------------------------------------------------------------------
(* Type correctness.                                                       *)

USE DEF AgentPC, ToolPC

LEMMA TypeInit == Init => TypeOK
<1> SUFFICES ASSUME Init PROVE TypeOK
    OBVIOUS
<1> USE DEF Init
<1>1. Blank("missing") \in Record /\ Legacy(1) \in Record
    BY DEF Blank, Legacy, Record, Kinds
<1>2. pc \in [Procs -> {"off"} \cup AgentPC \cup ToolPC]
    OBVIOUS
<1>3. rec \in [Procs -> Record]
    BY <1>1
<1>4. /\ pending \in [Procs -> BOOLEAN]
      /\ closing \in [Procs -> BOOLEAN]
    BY Zenon
<1> QED BY <1>1, <1>2, <1>3, <1>4 DEF TypeOK

LEMMA TypeStep == TypeOK /\ [Next]_vars => TypeOK'
<1> SUFFICES ASSUME TypeOK, [Next]_vars PROVE TypeOK'
    OBVIOUS
<1> USE DEF TypeOK
<1>1. CASE UNCHANGED vars
    BY <1>1 DEF vars
<1>2. CASE Damage
    BY <1>2, BlankRecord DEF Damage, session, Kinds
<1>3. ASSUME NEW p \in Procs, Reserve(p) PROVE TypeOK'
    <2> Bump(rec[p]) \in Record
        BY BumpRecord
    <2>1. CASE BeginReserve(p) BY <2>1 DEF BeginReserve, Goto, files
    <2>2. CASE CheckReserve(p) BY <2>2 DEF CheckReserve, Goto, files
    <2>3. CASE WriteAnchor(p) BY <2>3 DEF WriteAnchor, Goto
    <2>4. CASE FailAnchor(p) BY <2>4 DEF FailAnchor, Goto
    <2>5. CASE WritePrimary(p) BY <2>5 DEF WritePrimary, Goto
    <2>6. CASE FailPrimary(p) BY <2>6 DEF FailPrimary, Goto
    <2>7. CASE Finish(p) BY <2>7 DEF Finish, Goto, Release, files
    <2>8. CASE Publish(p)
        <3>1. Claim(p) \in Nat \X Int
            BY DEF Claim, Record
        <3> QED BY <2>8, <3>1 DEF Publish, Goto, files
    <2> QED BY <1>3, <2>1, <2>2, <2>3, <2>4, <2>5, <2>6, <2>7, <2>8 DEF Reserve
<1>4. ASSUME NEW p \in Procs, Lifecycle(p) PROVE TypeOK'
    <2> Blank("missing") \in Record
        BY BlankRecord DEF Kinds
    <2>1. CASE Open(p) BY <2>1 DEF Open, Goto, files
    <2>2. CASE OpenRefused(p) BY <2>2 DEF OpenRefused, session
    <2>3. CASE Close(p) BY <2>3 DEF Close, Release, files
    <2>4. CASE Exit(p) BY <2>4 DEF Exit, Gone, Goto, files
    <2>5. CASE Crash(p) BY <2>5 DEF Crash, Gone, Goto, Release, files
    <2> QED BY <1>4, <2>1, <2>2, <2>3, <2>4, <2>5 DEF Lifecycle
<1>5. ASSUME NEW p \in Procs, Tool(p) PROVE TypeOK'
    <2> Blank("missing") \in Record
        BY BlankRecord DEF Kinds
    <2>1. ASSUME NEW r \in Record, ToolBegin(p, r), fresh' \in Nat PROVE TypeOK'
        <3>1. faulted' \in BOOLEAN
            BY <2>1, Zenon DEF ToolBegin, Exists
        <3> QED BY <2>1, <3>1 DEF ToolBegin, Goto
    <2>2. CASE Initialize(p)
        <3>1. V2(fresh, fresh, 1) \in Record
            BY V2Record
        <3> QED BY <2>1, <2>2, <3>1 DEF Initialize
    <2>3. CASE FirstRun(p)
        <3>1. V2(config, fresh, 1) \in Record
            BY V2Record
        <3> QED BY <2>1, <2>3, <3>1 DEF FirstRun
    <2>4. CASE Migrate(p)
        <3>1. primary.next \in Nat
            BY DEF Record
        <3>2. V2(config, fresh, primary.next) \in Record
            BY <3>1, V2Record
        <3> QED BY <2>1, <2>4, <3>2 DEF Migrate
    <2>5. CASE Recover(p)
        BY <2>1, <2>5 DEF Recover
    <2>6. CASE ToolAnchor(p) BY <2>6 DEF ToolAnchor, Goto
    <2>7. CASE ToolPrimary(p) BY <2>7 DEF ToolPrimary, Goto
    <2>8. CASE ToolConfig(p)
        <3>1. rec[p].server \in Nat
            BY DEF Record
        <3> QED BY <2>8, <3>1 DEF ToolConfig, Gone, Goto, Release
    <2> QED BY <1>5, <2>2, <2>3, <2>4, <2>5, <2>6, <2>7, <2>8 DEF Tool
<1> QED BY <1>1, <1>2, <1>3, <1>4, <1>5 DEF Next

\* Every value the model's variables take is of its type.
THEOREM TypeCorrect == Spec => []TypeOK
<1>1. Init => TypeOK
    BY TypeInit
<1>2. TypeOK /\ [Next]_vars => TypeOK'
    BY TypeStep
<1> QED BY <1>1, <1>2, PTL DEF Spec

-----------------------------------------------------------------------------
(* The inductive invariant.                                                *)

LEMMA InvInit == Init => ClaimInv
<1> SUFFICES ASSUME Init PROVE ClaimInv
    OBVIOUS
<1>1. TypeOK
    BY TypeInit
<1>2. \A p \in Procs : pc[p] = "off"
    BY DEF Init
<1>3. Claimed = {}
    BY <1>2 DEF Init, Claimed, Claiming
<1>4. ~Readable(primary) /\ ~Readable(anchor)
    BY DEF Init, Blank, Legacy, Readable
<1>5. WriterHoldsLease /\ HolderCovers
    BY <1>2 DEF WriterHoldsLease, HolderCovers, Active
<1>6. NeverReissued
    BY <1>2 DEF NeverReissued, Claiming
<1>7. SurvivorCovers
    BY <1>4 DEF SurvivorCovers, Beyond
<1>8. LineagesDrawn
    BY <1>2, <1>4 DEF Init, LineagesDrawn
<1> QED BY <1>1, <1>5, <1>6, <1>7, <1>8 DEF ClaimInv

\* A step that writes no file, publishes nothing and starts no claim: at most
\* it moves processes on, ends them and gives the lease back.
LEMMA QuietStep ==
    ASSUME ClaimInv, TypeOK', WriterHoldsLease',
           UNCHANGED <<primary, anchor, published, fresh>>,
           \A q \in Procs : pc'[q] # "off" => pc[q] # "off" /\ rec'[q] = rec[q],
           \A q \in Procs : Claiming(q)' => Claiming(q),
           \A q \in Procs : pc'[q] = "anchored" => pc[q] = "anchored",
           \A q \in Procs : lease' = q => lease = q
    PROVE  ClaimInv'
<1> USE DEF ClaimInv
<1>1. \A q \in Procs : Claiming(q)' => Claim(q)' = Claim(q) /\ rec'[q] = rec[q]
    BY DEF Claiming, Claim
<1>2. Claimed' \subseteq Claimed
    BY <1>1 DEF Claimed
<1>3. NeverReissued'
    BY <1>1 DEF NeverReissued
<1>4. SurvivorCovers'
    BY <1>2, BeyondFewer DEF SurvivorCovers
<1>5. HolderCovers'
    BY <1>1, <1>2, BeyondFewer DEF HolderCovers
<1>6. LineagesDrawn'
    BY DEF LineagesDrawn
<1> QED BY <1>3, <1>4, <1>5, <1>6

\* A step that replaces one or both files by something that covers every
\* claim, and claims nothing.
LEMMA FileStep ==
    ASSUME ClaimInv, TypeOK', WriterHoldsLease',
           UNCHANGED <<published, fresh, rec, lease>>,
           \A q \in Procs : pc'[q] # "off" => pc[q] # "off",
           \A q \in Procs : Claiming(q)' <=> Claiming(q),
           Beyond(primary', Claimed), Beyond(anchor', Claimed),
           \A f \in {primary', anchor'} : Readable(f) => f.stream < fresh,
           \A q \in Procs : pc'[q] = "anchored" =>
                (Readable(anchor') => anchor' = Bump(rec[q]))
    PROVE  ClaimInv'
<1> USE DEF ClaimInv
<1>1. \A q \in Procs : Claim(q)' = Claim(q)
    BY DEF Claim
<1>2. Claimed' = Claimed
    BY <1>1 DEF Claimed
<1>3. NeverReissued'
    BY <1>1 DEF NeverReissued
<1>4. SurvivorCovers'
    BY <1>2 DEF SurvivorCovers
<1>5. HolderCovers'
    BY <1>2 DEF HolderCovers
<1>6. LineagesDrawn'
    BY DEF LineagesDrawn
<1> QED BY <1>3, <1>4, <1>5, <1>6

\* The record of the owner of the lease, and the next one, cover all claims.
LEMMA BumpCovers ==
    ASSUME ClaimInv, NEW p \in Procs, lease = p, pc[p] # "off"
    PROVE  /\ Bump(rec[p]) \in Record
           /\ Readable(Bump(rec[p]))
           /\ Beyond(rec[p], Claimed)
           /\ Beyond(Bump(rec[p]), Claimed)
           /\ Bump(rec[p]).stream < fresh
<1>1. rec[p] \in Record
    BY DEF ClaimInv, TypeOK
<1>2. /\ Readable(rec[p])
      /\ Beyond(rec[p], Claimed)
      /\ rec[p].stream < fresh
    BY DEF ClaimInv, HolderCovers, LineagesDrawn
<1>3. \A c \in Claimed : c[2] \in Int
    BY DEF ClaimInv, TypeOK, Claimed, Claim, Record
<1>4. rec[p].next \in Nat
    BY <1>1 DEF Record
<1> QED BY <1>1, <1>2, <1>3, <1>4, BumpRecord DEF Beyond, Readable

LEMMA InvReserve ==
    ASSUME ClaimInv, TypeOK', NEW p \in Procs, Reserve(p)
    PROVE  ClaimInv'
<1> USE DEF ClaimInv, Active
<1>1. CASE BeginReserve(p)
    <2>1. WriterHoldsLease'
        BY <1>1 DEF BeginReserve, Goto, TypeOK, WriterHoldsLease
    <2> QED BY <1>1, <2>1, QuietStep DEF BeginReserve, Goto, TypeOK, Claiming, files
<1>2. CASE CheckReserve(p)
    <2>1. WriterHoldsLease'
        BY <1>2 DEF CheckReserve, Goto, TypeOK, WriterHoldsLease
    <2> QED BY <1>2, <2>1, QuietStep DEF CheckReserve, Goto, TypeOK, Claiming, files
<1>3. CASE Finish(p)
    <2>1. WriterHoldsLease'
        BY <1>3 DEF Finish, Goto, Release, TypeOK, WriterHoldsLease
    <2> QED BY <1>3, <2>1, QuietStep, ProcsAssumption
            DEF Finish, Goto, Release, TypeOK, Claiming, files
<1>4. ASSUME pc[p] = "writing", Goto(p, "anchored") \/ Goto(p, "aborted"),
             anchor' \in {anchor, Bump(rec[p])},
             pc'[p] = "anchored" => anchor' = Bump(rec[p]),
             UNCHANGED <<primary, config, faulted, lease, rec, pending, closing,
                         published, fresh, damages>>
      PROVE  ClaimInv'
    <2>1. lease = p
        BY <1>4 DEF WriterHoldsLease
    <2>2. /\ Readable(Bump(rec[p])) /\ Bump(rec[p]).stream < fresh
          /\ Beyond(Bump(rec[p]), Claimed)
        BY <1>4, <2>1, BumpCovers
    <2>3. WriterHoldsLease'
        BY <1>4 DEF Goto, TypeOK, WriterHoldsLease
    <2>4. /\ Beyond(primary', Claimed) /\ Beyond(anchor', Claimed)
          /\ \A f \in {primary', anchor'} : Readable(f) => f.stream < fresh
        BY <1>4, <2>2 DEF SurvivorCovers, LineagesDrawn
    <2>5. \A q \in Procs : pc'[q] = "anchored" =>
                (Readable(anchor') => anchor' = Bump(rec[q]))
        BY <1>4, <2>1 DEF Goto, TypeOK, WriterHoldsLease
    <2>6. \A q \in Procs : Claiming(q)' <=> Claiming(q)
        BY <1>4 DEF Goto, TypeOK, Claiming
    <2>7. \A q \in Procs : pc'[q] # "off" => pc[q] # "off"
        BY <1>4 DEF Goto, TypeOK
    <2> QED BY <1>4, <2>3, <2>4, <2>5, <2>6, <2>7, FileStep
<1>5. CASE WriteAnchor(p)
    BY <1>4, <1>5 DEF WriteAnchor
<1>6. CASE FailAnchor(p)
    BY <1>4, <1>6 DEF FailAnchor, Goto, TypeOK
<1>7. CASE FailPrimary(p)
    <2>1. lease = p
        BY <1>7 DEF FailPrimary, WriterHoldsLease
    <2>2. /\ Readable(Bump(rec[p])) /\ Bump(rec[p]).stream < fresh
          /\ Beyond(Bump(rec[p]), Claimed)
        BY <1>7, <2>1, BumpCovers DEF FailPrimary
    <2>3. WriterHoldsLease'
        BY <1>7 DEF FailPrimary, Goto, TypeOK, WriterHoldsLease
    <2>4. /\ Beyond(primary', Claimed) /\ Beyond(anchor', Claimed)
          /\ \A f \in {primary', anchor'} : Readable(f) => f.stream < fresh
        BY <1>7, <2>2 DEF FailPrimary, SurvivorCovers, LineagesDrawn
    <2>5. \A q \in Procs : pc'[q] = "anchored" =>
                (Readable(anchor') => anchor' = Bump(rec[q]))
        BY <1>7 DEF FailPrimary, Goto, TypeOK, HolderCovers
    <2>6. \A q \in Procs : Claiming(q)' <=> Claiming(q)
        BY <1>7 DEF FailPrimary, Goto, TypeOK, Claiming
    <2>7. \A q \in Procs : pc'[q] # "off" => pc[q] # "off"
        BY <1>7 DEF FailPrimary, Goto, TypeOK
    <2> QED BY <1>7, <2>3, <2>4, <2>5, <2>6, <2>7, FileStep DEF FailPrimary
<1>8. CASE WritePrimary(p)
    <2> DEFINE new == <<rec[p].stream, rec[p].next>>
    <2> USE <1>8 DEF WritePrimary, Goto, TypeOK
    <2>1. lease = p
        BY DEF WriterHoldsLease
    <2>2. /\ Readable(Bump(rec[p])) /\ Bump(rec[p]).stream < fresh
          /\ Beyond(rec[p], Claimed) /\ Beyond(Bump(rec[p]), Claimed)
        BY <2>1, BumpCovers
    <2>3. rec[p] \in Record /\ rec[p].next \in Nat /\ Readable(rec[p])
        BY DEF Record, HolderCovers
    <2>4. /\ rec'[p] = Bump(rec[p]) /\ pc'[p] = "written"
          /\ rec'[p].next = rec[p].next + 1 /\ rec'[p].stream = rec[p].stream
        BY <2>3, BumpRecord
    <2>5. Claim(p)' = new
        BY <2>3, <2>4 DEF Claim
    <2>6. \A q \in Procs \ {p} : Claim(q)' = Claim(q) /\ (Claiming(q)' <=> Claiming(q))
        BY DEF Claim, Claiming
    <2>7. ~Claiming(p) /\ Claiming(p)'
        BY <2>4 DEF Claiming
    <2>8. Claimed' = Claimed \cup {new}
        BY <2>5, <2>6, <2>7 DEF Claimed
    <2>9. new \notin Claimed
        BY <2>2, <2>3 DEF Beyond
    <2>10. Beyond(Bump(rec[p]), Claimed')
        BY <2>2, <2>3, <2>8, BumpRecord DEF Beyond
    <2>11. WriterHoldsLease'
        BY DEF WriterHoldsLease
    <2>12. NeverReissued'
        BY <2>5, <2>6, <2>7, <2>9 DEF NeverReissued, Claimed
    <2>13. SurvivorCovers'
        <3>1. Readable(anchor) => anchor = Bump(rec[p])
            BY DEF HolderCovers
        <3> QED BY <2>10, <3>1 DEF SurvivorCovers, Beyond
    <2>14. HolderCovers'
        <3>1. ASSUME NEW q \in Procs, q # p, pc'[q] # "off"
              PROVE  /\ Readable(rec'[q])
                     /\ lease' # q
                     /\ pc'[q] # "anchored"
                     /\ Claiming(q)' => rec'[q].next > 0
            BY <3>1, <2>1, <2>6 DEF HolderCovers, WriterHoldsLease
        <3>2. Readable(rec'[p]) /\ Beyond(rec'[p], Claimed') /\ rec'[p].next > 0
            BY <2>2, <2>3, <2>4, <2>10
        <3> QED BY <2>4, <3>1, <3>2 DEF HolderCovers
    <2>15. LineagesDrawn'
        BY <2>2, <2>4 DEF LineagesDrawn
    <2> QED BY <2>11, <2>12, <2>13, <2>14, <2>15
<1>9. CASE Publish(p)
    <2> USE <1>9 DEF Publish, Goto, TypeOK
    <2>1. \A q \in Procs : Claim(q)' = Claim(q)
        BY DEF Claim
    <2>2. /\ Claiming(p) /\ ~Claiming(p)'
          /\ \A q \in Procs \ {p} : Claiming(q)' <=> Claiming(q)
        BY DEF Claiming
    <2>3. Claimed' = Claimed
        BY <2>1, <2>2 DEF Claimed
    <2>4. WriterHoldsLease'
        BY DEF WriterHoldsLease, files
    <2>5. NeverReissued'
        BY <2>1, <2>2 DEF NeverReissued
    <2>6. SurvivorCovers'
        BY <2>3 DEF SurvivorCovers, files
    <2>7. HolderCovers'
        BY <2>2, <2>3 DEF HolderCovers, files
    <2>8. LineagesDrawn'
        BY DEF LineagesDrawn, Claim, files
    <2> QED BY <2>4, <2>5, <2>6, <2>7, <2>8
<1> QED BY <1>1, <1>2, <1>3, <1>5, <1>6, <1>7, <1>8, <1>9 DEF Reserve

LEMMA InvLifecycle ==
    ASSUME ClaimInv, TypeOK', NEW p \in Procs, Lifecycle(p)
    PROVE  ClaimInv'
<1> USE ProcsAssumption DEF ClaimInv, Active
<1>1. CASE Open(p)
    <2> USE <1>1 DEF Open, Goto, TypeOK, files
    <2>1. \A q \in Procs : Claiming(q)' <=> Claiming(q)
        BY DEF Claiming
    <2>2. \A q \in Procs : Claiming(q)' => q # p
        BY DEF Claiming
    <2>3. \A q \in Procs \ {p} : Claim(q)' = Claim(q)
        BY DEF Claim
    <2>4. Claimed' = Claimed
        BY <2>1, <2>2, <2>3 DEF Claimed
    <2>5. WriterHoldsLease'
        BY DEF WriterHoldsLease
    <2>6. NeverReissued'
        BY <2>1, <2>2, <2>3 DEF NeverReissued
    <2>7. SurvivorCovers'
        BY <2>4 DEF SurvivorCovers
    <2>8. HolderCovers'
        <3>1. rec'[p] = primary /\ Readable(primary) /\ Beyond(primary, Claimed')
            BY <2>4 DEF SurvivorCovers, Openable
        <3> QED BY <2>1, <2>2, <2>4, <3>1 DEF HolderCovers
    <2>9. LineagesDrawn'
        BY DEF LineagesDrawn, Openable
    <2> QED BY <2>5, <2>6, <2>7, <2>8, <2>9
<1>2. CASE OpenRefused(p)
    <2>1. WriterHoldsLease'
        BY <1>2 DEF OpenRefused, session, WriterHoldsLease
    <2> QED BY <1>2, <2>1, QuietStep DEF OpenRefused, session, Claiming
<1>3. CASE Close(p)
    <2>1. WriterHoldsLease'
        BY <1>3 DEF Close, Release, files, TypeOK, WriterHoldsLease
    <2> QED BY <1>3, <2>1, QuietStep DEF Close, Release, files, Claiming
<1>4. CASE Exit(p)
    <2>1. WriterHoldsLease'
        BY <1>4 DEF Exit, Gone, Goto, files, TypeOK, WriterHoldsLease
    <2> QED BY <1>4, <2>1, QuietStep DEF Exit, Gone, Goto, files, TypeOK, Claiming
<1>5. CASE Crash(p)
    <2>1. WriterHoldsLease'
        BY <1>5 DEF Crash, Gone, Goto, Release, files, TypeOK, WriterHoldsLease
    <2> QED BY <1>5, <2>1, QuietStep
            DEF Crash, Gone, Goto, Release, files, TypeOK, Claiming
<1> QED BY <1>1, <1>2, <1>3, <1>4, <1>5 DEF Lifecycle

LEMMA InvTool ==
    ASSUME ClaimInv, TypeOK', NEW p \in Procs, Tool(p)
    PROVE  ClaimInv'
<1> USE ProcsAssumption DEF ClaimInv, Active
<1>1. ASSUME NEW r \in Record, ToolBegin(p, r), fresh' \in Nat, fresh' >= fresh,
             Readable(r), r.stream < fresh', Beyond(r, Claimed)
      PROVE  ClaimInv'
    <2> USE <1>1 DEF ToolBegin, Goto, TypeOK
    <2>1. \A q \in Procs : Claiming(q)' <=> Claiming(q)
        BY DEF Claiming
    <2>2. \A q \in Procs : Claiming(q)' => q # p
        BY DEF Claiming
    <2>3. \A q \in Procs \ {p} : Claim(q)' = Claim(q)
        BY DEF Claim
    <2>4. Claimed' = Claimed
        BY <2>1, <2>2, <2>3 DEF Claimed
    <2>5. WriterHoldsLease'
        BY DEF WriterHoldsLease
    <2>6. NeverReissued'
        BY <2>1, <2>2, <2>3 DEF NeverReissued
    <2>7. SurvivorCovers'
        BY <2>4 DEF SurvivorCovers
    <2>8. HolderCovers'
        BY <2>1, <2>2, <2>4 DEF HolderCovers
    <2>9. LineagesDrawn'
        <3>1. \A f \in Record : f.stream \in Nat
            BY DEF Record
        <3>2. \A c \in published : c[1] \in Nat
            OBVIOUS
        <3> QED BY <3>1, <3>2 DEF LineagesDrawn
    <2> QED BY <2>5, <2>6, <2>7, <2>8, <2>9
<1>2. ASSUME NEW s \in Nat, NEW n \in Nat, ToolBegin(p, V2(s, fresh, n)),
             fresh' = fresh + 1
      PROVE  ClaimInv'
    <2>1. fresh \in Nat
        BY DEF TypeOK
    <2>2. /\ V2(s, fresh, n) \in Record /\ Readable(V2(s, fresh, n))
          /\ V2(s, fresh, n).stream = fresh
        BY <2>1, V2Record
    <2>3. \A c \in Claimed : c[1] # fresh
        <3>1. \A c \in published : c[1] < fresh
            BY DEF LineagesDrawn
        <3>2. \A q \in Procs : Claiming(q) => Claim(q)[1] < fresh
            BY DEF LineagesDrawn, Claiming, Claim
        <3> QED BY <2>1, <3>1, <3>2 DEF Claimed, TypeOK
    <2>4. Beyond(V2(s, fresh, n), Claimed)
        BY <2>2, <2>3 DEF Beyond
    <2> QED BY <1>1, <1>2, <2>1, <2>2, <2>4
<1>3. CASE Initialize(p)
    BY <1>2, <1>3 DEF Initialize, TypeOK
<1>4. CASE FirstRun(p)
    BY <1>2, <1>4 DEF FirstRun, TypeOK
<1>5. CASE Migrate(p)
    <2>1. primary.next \in Nat /\ config \in Nat
        BY DEF TypeOK, Record
    <2> QED BY <1>2, <1>5, <2>1 DEF Migrate
<1>6. CASE Recover(p)
    <2>1. PICK r \in {primary, anchor} : Recoverable(r) /\ ToolBegin(p, r)
        BY <1>6 DEF Recover
    <2>2. r \in Record /\ Readable(r) /\ r.stream < fresh /\ Beyond(r, Claimed)
        BY <2>1 DEF Recoverable, TypeOK, SurvivorCovers, LineagesDrawn
    <2> QED BY <1>1, <1>6, <2>1, <2>2 DEF Recover, TypeOK
<1>7. CASE ToolAnchor(p)
    <2> USE <1>7 DEF ToolAnchor, Goto, TypeOK
    <2>1. lease = p
        BY DEF WriterHoldsLease
    <2>2. Readable(rec[p]) /\ rec[p].stream < fresh /\ Beyond(rec[p], Claimed)
        BY <2>1, BumpCovers DEF HolderCovers, LineagesDrawn
    <2>3. WriterHoldsLease'
        BY DEF WriterHoldsLease
    <2>4. /\ Beyond(primary', Claimed) /\ Beyond(anchor', Claimed)
          /\ \A f \in {primary', anchor'} : Readable(f) => f.stream < fresh
        BY <2>2 DEF SurvivorCovers, LineagesDrawn
    <2>5. \A q \in Procs : pc'[q] # "anchored"
        BY <2>1 DEF WriterHoldsLease
    <2>6. \A q \in Procs : Claiming(q)' <=> Claiming(q)
        BY DEF Claiming
    <2>7. \A q \in Procs : pc'[q] # "off" => pc[q] # "off"
        OBVIOUS
    <2> QED BY <2>3, <2>4, <2>5, <2>6, <2>7, FileStep
<1>8. CASE ToolPrimary(p)
    <2> USE <1>8 DEF ToolPrimary, Goto, TypeOK
    <2>1. lease = p
        BY DEF WriterHoldsLease
    <2>2. Readable(rec[p]) /\ rec[p].stream < fresh /\ Beyond(rec[p], Claimed)
        BY <2>1, BumpCovers DEF HolderCovers, LineagesDrawn
    <2>3. WriterHoldsLease'
        BY DEF WriterHoldsLease
    <2>4. /\ Beyond(primary', Claimed) /\ Beyond(anchor', Claimed)
          /\ \A f \in {primary', anchor'} : Readable(f) => f.stream < fresh
        BY <2>2 DEF SurvivorCovers, LineagesDrawn
    <2>5. \A q \in Procs : pc'[q] # "anchored"
        BY <2>1 DEF WriterHoldsLease
    <2>6. \A q \in Procs : Claiming(q)' <=> Claiming(q)
        BY DEF Claiming
    <2>7. \A q \in Procs : pc'[q] # "off" => pc[q] # "off"
        OBVIOUS
    <2> QED BY <2>3, <2>4, <2>5, <2>6, <2>7, FileStep
<1>9. CASE ToolConfig(p)
    <2> USE <1>9 DEF ToolConfig, Gone, Goto, Release, TypeOK
    <2>1. WriterHoldsLease'
        BY DEF WriterHoldsLease
    <2> QED BY <2>1, QuietStep DEF Claiming
<1> QED BY <1>3, <1>4, <1>5, <1>6, <1>7, <1>8, <1>9, Zenon DEF Tool

LEMMA InvDamage ==
    ASSUME ClaimInv, TypeOK', Damage
    PROVE  ClaimInv'
<1> USE DEF ClaimInv, Damage, session
<1>1. \A f \in {primary', anchor'} : Readable(f) => f \in {primary, anchor}
    BY BlankRecord DEF Kinds, Readable
<1>2. Readable(anchor') => anchor' = anchor
    BY BlankRecord DEF Kinds, Readable
<1>3. Beyond(primary', Claimed) /\ Beyond(anchor', Claimed)
    BY <1>1 DEF SurvivorCovers, Beyond
<1>4. \A f \in {primary', anchor'} : Readable(f) => f.stream < fresh
    BY <1>1 DEF LineagesDrawn
<1>5. \A q \in Procs : pc'[q] = "anchored" =>
            (Readable(anchor') => anchor' = Bump(rec[q]))
    BY <1>2 DEF HolderCovers
<1>6. \A q \in Procs : Claiming(q)' <=> Claiming(q)
    BY DEF Claiming
<1>7. WriterHoldsLease'
    BY DEF WriterHoldsLease
<1> QED BY <1>3, <1>4, <1>5, <1>6, <1>7, FileStep

LEMMA InvStep == ClaimInv /\ [Next]_vars => ClaimInv'
<1> SUFFICES ASSUME ClaimInv, [Next]_vars PROVE ClaimInv'
    OBVIOUS
<1>1. TypeOK'
    BY TypeStep DEF ClaimInv
<1>2. CASE UNCHANGED vars
    <2>1. \A q \in Procs : Claim(q)' = Claim(q) /\ (Claiming(q)' <=> Claiming(q))
        BY <1>2 DEF vars, Claim, Claiming
    <2>2. WriterHoldsLease'
        BY <1>2 DEF ClaimInv, vars, WriterHoldsLease
    <2> QED BY <1>1, <1>2, <2>1, <2>2, QuietStep DEF vars
<1>3. CASE Damage
    BY <1>1, <1>3, InvDamage
<1>4. ASSUME NEW p \in Procs, Reserve(p) \/ Lifecycle(p) \/ Tool(p)
      PROVE  ClaimInv'
    BY <1>1, <1>4, InvReserve, InvLifecycle, InvTool
<1> QED BY <1>2, <1>3, <1>4 DEF Next

\* The inductive invariant holds of every behaviour.
THEOREM Invariance == Spec => []ClaimInv
<1>1. Init => ClaimInv
    BY InvInit
<1>2. ClaimInv /\ [Next]_vars => ClaimInv'
    BY InvStep
<1> QED BY <1>1, <1>2, PTL DEF Spec

\* No event id of a stream is made visible twice, whatever processes crash,
\* which writes fail and which of the two records is lost (EventQueue.add).
THEOREM IdsNeverReissued == Spec => []NeverReissued
<1>1. ClaimInv => NeverReissued
    BY DEF ClaimInv
<1> QED BY <1>1, Invariance, PTL

\* Either durable record alone lies beyond every id that was made visible.
THEOREM EitherRecordSuffices == Spec => []SurvivorCovers
<1>1. ClaimInv => SurvivorCovers
    BY DEF ClaimInv
<1> QED BY <1>1, Invariance, PTL

-----------------------------------------------------------------------------
(* The two files as their owner knows them.                                *)

DiskInv == DiskCoherent /\ AnchorLeads

LEMMA DiskInit == Init => DiskInv
BY ProcsAssumption DEF Init, DiskInv, DiskCoherent, AnchorLeads, Blank, Legacy, Readable

\* A step that leaves the files alone and moves their owner between points
\* that know the same of them, or takes the lease away.
LEMMA DiskQuiet ==
    ASSUME DiskInv, UNCHANGED <<primary, anchor, damages>>,
           \A q \in Procs : lease' = q => lease = q /\ (KnowsDisk(q) => KnowsDisk(q)')
    PROVE  DiskInv'
BY DEF DiskInv, DiskCoherent, AnchorLeads

\* A step of the owner that ends with it knowing the files as they are.
LEMMA DiskWrite ==
    ASSUME DiskInv, NEW p \in Procs, lease' = p,
           damages = 0 /\ damages' = 0 => KnowsDisk(p)' /\ AnchorLeads',
           UNCHANGED damages
    PROVE  DiskInv'
BY ProcsAssumption DEF DiskInv, DiskCoherent, AnchorLeads

LEMMA DiskReserve ==
    ASSUME ClaimInv, DiskInv, NEW p \in Procs, Reserve(p)
    PROVE  DiskInv'
<1> USE ProcsAssumption DEF ClaimInv, TypeOK, Goto, Active, files
<1>0. /\ rec[p] \in Record /\ rec[p].next \in Nat
      /\ Bump(rec[p]) \in Record /\ Bump(rec[p]).next = rec[p].next + 1
      /\ Readable(Bump(rec[p])) <=> Readable(rec[p])
      /\ Bump(rec[p]) # rec[p]
    BY BumpRecord DEF Record, Readable
<1>1. CASE BeginReserve(p)
    BY <1>1, DiskQuiet DEF BeginReserve, KnowsDisk
<1>2. CASE CheckReserve(p)
    <2>1. lease = p
        BY <1>2 DEF CheckReserve, WriterHoldsLease
    <2>2. KnowsDisk(p) => KnowsDisk(p)'
        BY <1>2 DEF CheckReserve, KnowsDisk, ReserveAdmissible
    <2> QED BY <1>2, <2>1, <2>2, DiskQuiet DEF CheckReserve
<1>3. CASE WriteAnchor(p)
    <2>1. lease = p
        BY <1>3 DEF WriteAnchor, WriterHoldsLease
    <2>2. ASSUME damages = 0 PROVE KnowsDisk(p)' /\ AnchorLeads'
        <3>1. KnowsDisk(p)
            BY <2>1, <2>2 DEF DiskInv, DiskCoherent
        <3>2. KnowsDisk(p)'
            BY <1>3, <3>1 DEF WriteAnchor, KnowsDisk
        <3>3. AnchorLeads'
            BY <1>0, <1>3, <3>1 DEF WriteAnchor, KnowsDisk, AnchorLeads
        <3> QED BY <3>2, <3>3
    <2> QED BY <1>3, <2>1, <2>2, DiskWrite DEF WriteAnchor
<1>4. CASE FailAnchor(p)
    <2>1. lease = p
        BY <1>4 DEF FailAnchor, WriterHoldsLease
    <2>2. ASSUME damages = 0 PROVE KnowsDisk(p)' /\ AnchorLeads'
        <3>1. KnowsDisk(p)
            BY <2>1, <2>2 DEF DiskInv, DiskCoherent
        <3>2. KnowsDisk(p)'
            BY <1>4, <3>1 DEF FailAnchor, KnowsDisk
        <3>3. AnchorLeads'
            BY <1>0, <1>4, <3>1 DEF FailAnchor, KnowsDisk, AnchorLeads, DiskInv
        <3> QED BY <3>2, <3>3
    <2> QED BY <1>4, <2>1, <2>2, DiskWrite DEF FailAnchor
<1>5. CASE WritePrimary(p)
    <2>1. lease = p
        BY <1>5 DEF WritePrimary, WriterHoldsLease
    <2>2. ASSUME damages = 0 PROVE KnowsDisk(p)' /\ AnchorLeads'
        <3>1. KnowsDisk(p)
            BY <2>1, <2>2 DEF DiskInv, DiskCoherent
        <3>2. KnowsDisk(p)'
            BY <1>5, <3>1 DEF WritePrimary, KnowsDisk
        <3>3. AnchorLeads'
            BY <1>0, <1>5, <3>1 DEF WritePrimary, KnowsDisk, AnchorLeads
        <3> QED BY <3>2, <3>3
    <2> QED BY <1>5, <2>1, <2>2, DiskWrite DEF WritePrimary
<1>6. CASE FailPrimary(p)
    <2>1. lease = p
        BY <1>6 DEF FailPrimary, WriterHoldsLease
    <2>2. ASSUME damages = 0 PROVE KnowsDisk(p)' /\ AnchorLeads'
        <3>1. KnowsDisk(p)
            BY <2>1, <2>2 DEF DiskInv, DiskCoherent
        <3>2. KnowsDisk(p)'
            BY <1>6, <3>1 DEF FailPrimary, KnowsDisk
        <3>3. primary' \in {rec[p], Bump(rec[p])} /\ anchor' = Bump(rec[p])
            BY <1>6, <3>1 DEF FailPrimary, KnowsDisk
        <3>4. anchor'.next - primary'.next \in {0, 1}
            BY <1>0, <3>3
        <3>5. AnchorLeads'
            BY <3>4 DEF AnchorLeads
        <3> QED BY <3>2, <3>5
    <2> QED BY <1>6, <2>1, <2>2, DiskWrite DEF FailPrimary
<1>7. CASE Finish(p)
    <2>1. lease = p
        BY <1>7 DEF Finish, WriterHoldsLease
    <2>2. KnowsDisk(p) => KnowsDisk(p)'
        BY <1>7 DEF Finish, KnowsDisk
    <2> QED BY <1>7, <2>1, <2>2, DiskQuiet DEF Finish, Release
<1>8. CASE Publish(p)
    BY <1>8, DiskQuiet DEF Publish, KnowsDisk
<1> QED BY <1>1, <1>2, <1>3, <1>4, <1>5, <1>6, <1>7, <1>8 DEF Reserve

LEMMA DiskLifecycle ==
    ASSUME ClaimInv, DiskInv, NEW p \in Procs, Lifecycle(p)
    PROVE  DiskInv'
<1> USE ProcsAssumption DEF ClaimInv, TypeOK, Goto, Active, files
<1>1. CASE Open(p)
    <2>1. KnowsDisk(p)'
        BY <1>1 DEF Open, Openable, KnowsDisk
    <2>2. AnchorLeads'
        BY <1>1 DEF Open, DiskInv, AnchorLeads
    <2> QED BY <1>1, <2>1, <2>2, DiskWrite DEF Open
<1>2. CASE OpenRefused(p)
    BY <1>2, DiskQuiet DEF OpenRefused, session, KnowsDisk
<1>3. CASE Close(p)
    BY <1>3, DiskQuiet DEF Close, Release, KnowsDisk
<1>4. CASE Exit(p)
    <2>1. KnowsDisk(p)'
        BY <1>4 DEF Exit, Gone, KnowsDisk
    <2>2. \A q \in Procs \ {p} : KnowsDisk(q) => KnowsDisk(q)'
        BY <1>4 DEF Exit, Gone, KnowsDisk
    <2> QED BY <1>4, <2>1, <2>2, DiskQuiet DEF Exit
<1>5. CASE Crash(p)
    <2>1. KnowsDisk(p)'
        BY <1>5 DEF Crash, Gone, KnowsDisk
    <2>2. \A q \in Procs \ {p} : KnowsDisk(q) => KnowsDisk(q)'
        BY <1>5 DEF Crash, Gone, KnowsDisk
    <2> QED BY <1>5, <2>1, <2>2, DiskQuiet DEF Crash, Release
<1> QED BY <1>1, <1>2, <1>3, <1>4, <1>5 DEF Lifecycle

LEMMA DiskTool ==
    ASSUME ClaimInv, DiskInv, NEW p \in Procs, Tool(p)
    PROVE  DiskInv'
<1> USE ProcsAssumption DEF ClaimInv, TypeOK, Goto, Active
<1>1. ASSUME NEW r \in Record, ToolBegin(p, r),
             damages = 0 /\ Readable(primary) /\ SameIdentity(primary, r)
                => r.next - primary.next \in {0, 1}
      PROVE  DiskInv'
    <2>1. damages = 0 => KnowsDisk(p)'
        BY <1>1 DEF ToolBegin, KnowsDisk
    <2>2. AnchorLeads'
        BY <1>1 DEF ToolBegin, DiskInv, AnchorLeads
    <2> QED BY <1>1, <2>1, <2>2, DiskWrite DEF ToolBegin
<1>2. ASSUME NEW s \in Nat, NEW n \in Nat, ToolBegin(p, V2(s, fresh, n))
      PROVE  DiskInv'
    <2>1. V2(s, fresh, n) \in Record /\ V2(s, fresh, n).stream = fresh
        BY V2Record
    <2>2. Readable(primary) => primary.stream # fresh
        BY DEF LineagesDrawn, Record
    <2> QED BY <1>1, <1>2, <2>1, <2>2 DEF SameIdentity
<1>3. CASE Initialize(p)
    BY <1>2, <1>3 DEF Initialize
<1>4. CASE FirstRun(p)
    BY <1>2, <1>4 DEF FirstRun
<1>5. CASE Migrate(p)
    <2>1. primary.next \in Nat
        BY DEF Record
    <2> QED BY <1>2, <1>5, <2>1 DEF Migrate
<1>6. CASE Recover(p)
    <2>1. PICK r \in {primary, anchor} : Recoverable(r) /\ ToolBegin(p, r)
        BY <1>6 DEF Recover
    <2>2. primary.next \in Nat /\ anchor.next \in Nat
        BY DEF Record
    <2>3. damages = 0 /\ Readable(primary) /\ SameIdentity(primary, r)
                => r.next - primary.next \in {0, 1}
        BY <2>1, <2>2 DEF Recoverable, SameIdentity, DiskInv, AnchorLeads
    <2> QED BY <1>1, <2>1, <2>3
<1>7. CASE ToolAnchor(p)
    <2>1. lease = p
        BY <1>7 DEF ToolAnchor, WriterHoldsLease
    <2>2. ASSUME damages = 0 PROVE KnowsDisk(p)' /\ AnchorLeads'
        <3>1. KnowsDisk(p)
            BY <2>1, <2>2 DEF DiskInv, DiskCoherent
        <3>2. KnowsDisk(p)'
            BY <1>7 DEF ToolAnchor, KnowsDisk
        <3>3. AnchorLeads'
            BY <1>7, <3>1 DEF ToolAnchor, KnowsDisk, AnchorLeads, SameIdentity
        <3> QED BY <3>2, <3>3
    <2> QED BY <1>7, <2>1, <2>2, DiskWrite DEF ToolAnchor
<1>8. CASE ToolPrimary(p)
    <2>1. lease = p
        BY <1>8 DEF ToolPrimary, WriterHoldsLease
    <2>2. ASSUME damages = 0 PROVE KnowsDisk(p)' /\ AnchorLeads'
        <3>1. KnowsDisk(p)
            BY <2>1, <2>2 DEF DiskInv, DiskCoherent
        <3>2. KnowsDisk(p)'
            BY <1>8 DEF ToolPrimary, KnowsDisk
        <3>3. AnchorLeads'
            BY <1>8, <3>1 DEF ToolPrimary, KnowsDisk, AnchorLeads, Record
        <3> QED BY <3>2, <3>3
    <2> QED BY <1>8, <2>1, <2>2, DiskWrite DEF ToolPrimary
<1>9. CASE ToolConfig(p)
    <2>1. lease = p
        BY <1>9 DEF ToolConfig, WriterHoldsLease
    <2> QED BY <1>9, <2>1, DiskQuiet DEF ToolConfig, Release
<1> QED BY <1>3, <1>4, <1>5, <1>6, <1>7, <1>8, <1>9, Zenon DEF Tool

LEMMA DiskStep == ClaimInv /\ DiskInv /\ [Next]_vars => DiskInv'
<1> SUFFICES ASSUME ClaimInv, DiskInv, [Next]_vars PROVE DiskInv'
    OBVIOUS
<1>1. CASE UNCHANGED vars
    BY <1>1, DiskQuiet DEF vars, KnowsDisk
<1>2. CASE Damage
    <2>1. damages \in Nat
        BY DEF ClaimInv, TypeOK
    <2> QED BY <1>2, <2>1 DEF Damage, DiskInv, DiskCoherent, AnchorLeads
<1>3. ASSUME NEW p \in Procs, Reserve(p) \/ Lifecycle(p) \/ Tool(p)
      PROVE  DiskInv'
    BY <1>3, DiskReserve, DiskLifecycle, DiskTool
<1> QED BY <1>1, <1>2, <1>3 DEF Next

\* Without outside damage the anchor is never behind the primary and at most
\* one id ahead: what `recover` skips is at most the id in flight (write_pair).
THEOREM AnchorNeverBehind == Spec => []AnchorLeads
<1>1. Init => DiskInv
    BY DiskInit
<1>2. ClaimInv /\ DiskInv /\ [Next]_vars => DiskInv'
    BY DiskStep
<1>3. DiskInv => AnchorLeads
    BY DEF DiskInv
<1> QED BY <1>1, <1>2, <1>3, Invariance, PTL DEF Spec

\* The conjunction the runs check is an invariant.
THEOREM FullInvariance == Spec => []IInv
<1>1. Init => DiskInv
    BY DiskInit
<1>2. ClaimInv /\ DiskInv /\ [Next]_vars => DiskInv'
    BY DiskStep
<1>3. ClaimInv /\ DiskInv => IInv
    BY DEF DiskInv, IInv
<1> QED BY <1>1, <1>2, <1>3, Invariance, PTL DEF Spec

\* The queue can always retry an id after its own failed writes: reserve never
\* refuses the session for them (StateSession._pending).
THEOREM RetryAlwaysAdmitted == Spec => []RetryAdmitted
<1>1. IInv => RetryAdmitted
    <2> SUFFICES ASSUME IInv, damages = 0, NEW p \in Procs, pc[p] = "reserving"
                 PROVE  ReserveAdmissible(p)
        BY DEF RetryAdmitted
    <2>1. lease = p
        BY DEF IInv, ClaimInv, WriterHoldsLease, Active
    <2>2. KnowsDisk(p)
        BY <2>1 DEF IInv, DiskCoherent
    <2> QED BY <2>2 DEF KnowsDisk, ReserveAdmissible
<1> QED BY <1>1, FullInvariance, PTL
=============================================================================
