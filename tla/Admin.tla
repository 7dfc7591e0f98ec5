------------------------------- MODULE Admin -------------------------------
(***************************************************************************)
(* Live administration of one monitor (agent/server/admin.py): add, remove,*)
(* start, stop and edit requests that run at the same time, the thread that*)
(* writes a stop to agent.yaml, the save of the agent's own settings, the  *)
(* grant of a restart (restart_routes.py) and the boot that reads the file *)
(* again.  An edit sets one field of the monitor's config, so that a config*)
(* is the set of the fields edited.  The supervisor is what Supervisor     *)
(* promises: a runtime that is told to stop is gone some time later, and   *)
(* one whose cancel event is set is never installed.  Every wait may end   *)
(* early.                                                                  *)
(***************************************************************************)
EXTENDS Naturals, FiniteSets

CONSTANTS
    Reqs,           \* threads of the control API
    Fields,         \* fields of the monitor's config
    Manual,         \* the plugin is started by hand (manual_start)
    MaxAsk,         \* bound: requests and saves of the settings
    MaxTrouble      \* bound: failed writes, creations and threads, and crashes

VARIABLES
    conf,           \* the monitor's entry in _config.monitors
    disk,           \* its entry in agent.yaml, and the settings there
    desired,        \* version of the settings in _desired
    mutation,       \* holder of _mutation
    owner,          \* _owners[iid]; "expired" and "lapsed": a validation nobody waits for
    stopping,       \* iid \in _stopping
    override,       \* iid \in _overrides
    removed,        \* iid \in _removed
    epoch,          \* _epochs[iid]: the request it belongs to
    partial,        \* _results[iid] says persisted_runtime_failed
    save,           \* _stop_saves[iid] and its thread
    restarting,
    sup,            \* the supervisor's runtime: "none", "live" or "going"
    req,            \* req[r]: what request thread r is doing
    settings,       \* what update_config is doing
    asked, trouble,
    told            \* history: what the answers promised

book == <<stopping, override, removed, epoch, partial>>
bounds == <<asked, trouble>>
vars == <<conf, disk, desired, mutation, owner, book, save, restarting, sup, req, settings,
          bounds, told>>

None == "none"
Free == [at |-> "idle", kind |-> None, spec |-> [there |-> FALSE, on |-> FALSE, v |-> {}],
         field |-> {}, cancel |-> FALSE, fresh |-> FALSE, verdict |-> None, sole |-> FALSE]
NoSave == [at |-> None, spec |-> Free.spec, by |-> None]
Absent == Free.spec

\* off: a stop was answered as persisted; still: as stopped; fields: edits that
\* were answered as persisted; slip: windows in which the code breaks a promise.
Nothing == [off |-> FALSE, still |-> FALSE, fields |-> {}, slip |-> {}]

Init ==
    /\ conf = [there |-> TRUE, on |-> ~Manual, v |-> {}]
    /\ disk = [mon |-> conf, set |-> 0] /\ desired = 0
    /\ mutation = None /\ owner = None
    /\ stopping = FALSE /\ override = FALSE /\ removed = FALSE /\ epoch = None
    /\ partial = FALSE /\ save = NoSave /\ restarting = FALSE
    /\ sup = [at |-> IF conf.on THEN "live" ELSE "none", v |-> {}]
    /\ req = [r \in Reqs |-> Free]
    /\ settings = [at |-> "idle", set |-> 0]
    /\ asked = 0 /\ trouble = 0
    /\ told = Nothing

\* After a window of that kind the answers about edits bind no more.
Slips(t, windows) ==
    LET all == t.slip \cup windows
    IN  [t EXCEPT !.slip = all, !.fields = IF all \subseteq {"joined"} THEN @ ELSE {}]

Trouble == trouble < MaxTrouble /\ trouble' = trouble + 1 /\ UNCHANGED asked

-----------------------------------------------------------------------------
(* Reading the books.                                                      *)

\* The runtime a request has reserved with the supervisor but not installed.
Pending == {r \in Reqs : req[r].at \in {"creating", "replacing", "swapping"}}

\* sup.has(iid).
Has == sup.at # "none" \/ Pending # {}

\* _candidate: an entry that was stopped is written as disabled, unless this
\* save starts it.
Candidate(spec, start) ==
    IF override /\ ~start THEN [spec EXCEPT !.on = FALSE] ELSE spec

\* _prune_validation.
Pruned ==
    IF \/ owner = "lapsed"
       \/ owner \in Reqs /\ req[owner].cancel /\ req[owner].kind \in {"start", "edit", "editoff"}
                         /\ req[owner].at # "validating"
    THEN None ELSE owner

\* _reserve, after _refresh_stops.
MayReserve ==
    /\ ~restarting /\ Pruned = None /\ save.at = None
    /\ ~(stopping /\ Has)

\* A live runtime is told to stop.
Going == IF sup.at = "live" THEN [at |-> "going", v |-> {}] ELSE sup

\* Other requests that may still enable the monitor.
Enabling(r) == {q \in Reqs \ {r} : req[q].at # "idle" /\ ~req[q].cancel
                                    /\ req[q].kind \in {"add", "start"}}

Goto(r, at) == req' = [req EXCEPT ![r].at = at]

\* What is left to do is to give the name back.
Leave(r) == req' = [req EXCEPT ![r] =
    [Free EXCEPT !.at = "leaving", !.kind = req[r].kind, !.cancel = req[r].cancel]]

\* _release, of the name's reservation and, with it, of a name that is gone.
Release(r) ==
    /\ owner' = IF owner = r THEN None ELSE owner
    /\ IF ~conf.there /\ ~removed /\ owner' = None /\ save.at = None
       THEN /\ partial' = FALSE /\ override' = FALSE /\ epoch' = None
            /\ UNCHANGED <<stopping, removed>>
       ELSE UNCHANGED book

-----------------------------------------------------------------------------
(* Asking.  The first look at the entry and the reservation of the name are*)
(* two sections of the lock.                                               *)

\* One idle thread is as good as another, and so is one field nobody has set yet.
Idle == {r \in Reqs : req[r].at = "idle"}
Unset == Fields \ (conf.v \cup disk.mon.v \cup UNION {req[r].field : r \in Reqs})

\* What the first look at the entry lets pass, and the entry the request will write.
Askable(kind) ==
    CASE kind = "add" -> (~conf.there \/ partial) /\ ~removed
      [] kind = "remove" -> conf.there \/ removed
      [] OTHER -> conf.there /\ sup.at # "going"

Wanted(kind, f) ==
    CASE kind = "add" -> [there |-> TRUE, on |-> ~Manual, v |-> {}]
      [] kind = "remove" -> Absent
      [] kind = "start" -> [conf EXCEPT !.on = @ \/ ~Manual]
      [] kind = "edit" -> [conf EXCEPT !.v = @ \cup {f}]
      [] OTHER -> [conf EXCEPT !.v = @ \cup {f}, !.on = FALSE]

\* It has been let pass.
Enters(r, kind, f) ==
    req' = [q \in Reqs |->
        IF q # r THEN [req[q] EXCEPT !.sole = @ /\ kind \notin {"add", "start"}]
        ELSE [Free EXCEPT !.at = "read", !.kind = kind, !.spec = Wanted(kind, f),
                          !.field = IF kind \in {"edit", "editoff"} THEN {f} ELSE {},
                          !.fresh = kind \notin {"add", "remove"}]]

\* An answer of the past no longer binds what is asked from now on.
Binding(kind) ==
    [told EXCEPT !.off = @ /\ kind \notin {"add", "start"},
                 !.still = @ /\ kind \notin {"add", "start"},
                 !.fields = IF kind = "remove" THEN {} ELSE @]

Ask(r) ==
    /\ Idle # {} /\ r = (CHOOSE q \in Idle : TRUE) /\ asked < MaxAsk
    /\ asked' = asked + 1
    /\ \E kind \in {"add", "remove", "start", "edit", "editoff"}, f \in Fields :
        /\ f = CHOOSE g \in Fields : Unset = {} \/ g \in Unset
        /\ Askable(kind)
        /\ Enters(r, kind, f)
        /\ told' = Binding(kind)
    /\ UNCHANGED <<conf, disk, desired, mutation, owner, book, save, restarting, sup, settings,
                   trouble>>

\* _reserve: busy, or the name is this request's.
Reserve(r) ==
    /\ req[r].at = "read"
    /\ IF MayReserve
       THEN /\ owner' = r /\ epoch' = r
            /\ stopping' = (stopping /\ Has)
            /\ req' = [req EXCEPT ![r].at = IF req[r].kind \in {"edit", "editoff"}
                                            THEN "validating" ELSE "ready",
                                  ![r].fresh = req[r].kind \notin {"add", "remove"}]
            /\ told' = IF req[r].fresh \/ req[r].kind \in {"add", "remove"} THEN told
                       ELSE Slips(told, {"stale"})
            /\ UNCHANGED <<override, removed, partial>>
       ELSE /\ owner' = Pruned
            /\ stopping' = (stopping /\ Has)
            /\ req' = [req EXCEPT ![r] = Free]
            /\ UNCHANGED <<override, removed, partial, epoch, told>>
    /\ UNCHANGED <<conf, disk, desired, mutation, save, restarting, sup, settings, bounds>>

\* The validator's thread ends in time: the config is good, or the request is over.
Validates(r) ==
    /\ req[r].at = "validating"
    /\ \/ /\ ~restarting /\ ~req[r].cancel /\ req[r].fresh
          /\ Goto(r, IF req[r].kind = "editoff" THEN "parking" ELSE "ready")
       \/ Leave(r)
    /\ UNCHANGED <<conf, disk, desired, mutation, owner, book, save, restarting, sup, settings,
                   bounds, told>>

\* It does not: the request is answered and the thread keeps the name.
Expires(r) ==
    /\ req[r].at = "validating" /\ Trouble
    /\ req' = [req EXCEPT ![r] = Free]
    /\ owner' = IF owner = r THEN "expired" ELSE owner
    /\ UNCHANGED <<conf, disk, desired, mutation, book, save, restarting, sup, settings, told>>

\* The late validator ends; the next _prune_validation sees it.
Lapses ==
    /\ owner = "expired"
    /\ owner' = "lapsed"
    /\ UNCHANGED <<conf, disk, desired, mutation, book, save, restarting, sup, req, settings,
                   bounds, told>>

-----------------------------------------------------------------------------
(* The commit: the file first, then the memory.                            *)

\* Mutation of Begins: the revision of the reservation is not looked at again.
BeginsAnyway(r) ==
    /\ req[r].at = "ready" /\ mutation = None
    /\ IF \/ restarting
          \/ req[r].kind \in {"start", "edit"} /\ req[r].cancel
          \/ req[r].kind = "add" /\ (removed \/ (conf.there /\ ~(partial /\ conf = req[r].spec)))
       THEN Leave(r) /\ UNCHANGED mutation
       ELSE Goto(r, "writing") /\ mutation' = r
    /\ UNCHANGED <<conf, disk, desired, owner, book, save, restarting, sup, settings, bounds, told>>

\* Mutation of Begins: the grant of a restart is not looked at again.
BeginsGranted(r) ==
    /\ req[r].at = "ready" /\ mutation = None
    /\ IF \/ req[r].kind \in {"start", "edit"} /\ (req[r].cancel \/ ~req[r].fresh)
          \/ req[r].kind = "add" /\ (removed \/ (conf.there /\ ~(partial /\ conf = req[r].spec)))
       THEN Leave(r) /\ UNCHANGED mutation
       ELSE Goto(r, "writing") /\ mutation' = r
    /\ UNCHANGED <<conf, disk, desired, owner, book, save, restarting, sup, settings, bounds, told>>

\* The mutation lock, and what is looked at again under it.
Begins(r) ==
    /\ req[r].at = "ready" /\ mutation = None
    /\ IF \/ restarting
          \/ req[r].kind \in {"start", "edit"} /\ (req[r].cancel \/ ~req[r].fresh)
          \/ req[r].kind = "add" /\ (removed \/ (conf.there /\ ~(partial /\ conf = req[r].spec)))
       THEN Leave(r) /\ UNCHANGED mutation
       ELSE Goto(r, "writing") /\ mutation' = r
    /\ UNCHANGED <<conf, disk, desired, owner, book, save, restarting, sup, settings, bounds, told>>

\* Somebody else keeps the mutation lock for too long.
Busy(r) ==
    /\ req[r].at = "ready" /\ mutation # None
    /\ Leave(r)
    /\ UNCHANGED <<conf, disk, desired, mutation, owner, book, save, restarting, sup, settings,
                   bounds, told>>

\* An entry that is gone is not written back.
Draft(r) ==
    IF req[r].kind \in {"start", "edit"} /\ ~conf.there THEN Absent
    ELSE Candidate(req[r].spec, req[r].kind = "start")

\* Edits go with the entry they belong to.
Written(r) ==
    LET gone == req[r].kind = "remove"
    IN  /\ req' = [q \in Reqs |-> [req[q] EXCEPT !.at = IF q = r THEN "written" ELSE @,
                                                 !.fresh = @ /\ q # r,
                                                 !.field = IF gone THEN {} ELSE @]]
        /\ told' = IF gone THEN [told EXCEPT !.fields = {}] ELSE told

\* _candidate and save_yaml, of the settings too; a failed one leaves the file
\* as it was and ends the request.
Writes(r) ==
    /\ req[r].at = "writing"
    /\ \/ /\ disk' = [mon |-> Draft(r), set |-> desired]
          /\ Written(r)
          /\ UNCHANGED <<mutation, bounds>>
       \/ /\ Trouble
          /\ mutation' = None
          /\ Leave(r)
          /\ UNCHANGED <<disk, told>>
    /\ UNCHANGED <<conf, desired, owner, book, save, restarting, sup, settings>>

\* Every other reservation is of an earlier revision now.
Outdated(except) == [q \in Reqs |-> IF q = except THEN req[q] ELSE [req[q] EXCEPT !.fresh = FALSE]]

\* The rest of _commit, and _removed.
Publishes(r) ==
    /\ req[r].at = "written"
    /\ conf' = disk.mon
    /\ override' = (override /\ (req[r].kind # "start" \/ req[r].cancel))
    /\ removed' = (removed \/ req[r].kind = "remove")
    /\ req' = [Outdated(r) EXCEPT ![r].at = IF req[r].kind = "remove" THEN "removing" ELSE "applying"]
    /\ UNCHANGED <<disk, desired, mutation, owner, stopping, epoch, partial, save, restarting, sup,
                   settings, bounds, told>>

-----------------------------------------------------------------------------
(* _runtime_apply: the supervisor is told.                                 *)

\* _result of an operation that was persisted, and the mutation lock.
Answer(r, runtime) ==
    /\ mutation' = None
    /\ partial' = IF epoch = r THEN runtime = "failed" ELSE partial
    /\ told' = Slips([told EXCEPT !.fields = @ \cup req[r].field], {})
    /\ UNCHANGED <<conf, disk, desired, owner, stopping, override, removed, epoch, save, restarting,
                   settings>>

\* The request starts the monitor, or an edit finds that it should be running.
WantsRun(r) ==
    \/ req[r].kind = "start"
    \/ req[r].kind = "add" /\ req[r].spec.on
    \/ req[r].kind = "edit" /\ ~Has /\ conf.there /\ conf.on /\ ~override /\ ~Manual

\* The runtime there is already is left as it is, or replaced; else one is made.
Applies(r) ==
    /\ req[r].at = "applying"
    /\ IF req[r].cancel \/ sup.at = "going"
       THEN Answer(r, "stopped") /\ Leave(r)
       ELSE IF sup.at = "live" /\ ~(WantsRun(r) /\ sup.v = req[r].spec.v)
            THEN Goto(r, "replacing") /\ UNCHANGED <<conf, disk, desired, owner, mutation, book,
                                                     save, restarting, settings, told>>
            ELSE IF sup.at = "none" /\ WantsRun(r)
                 THEN Goto(r, "creating") /\ UNCHANGED <<conf, disk, desired, owner, mutation, book,
                                                         save, restarting, settings, told>>
                 ELSE Answer(r, "applied") /\ Leave(r)
    /\ UNCHANGED <<sup, bounds>>

\* Supervisor.register: a runtime that was cancelled is stopped as it appears,
\* one that cannot start is stopped by itself, and none is made of a bad config.
Creates(r) ==
    /\ req[r].at = "creating"
    /\ \/ /\ sup' = IF req[r].cancel THEN [at |-> "going", v |-> {}]
                    ELSE [at |-> "live", v |-> req[r].spec.v]
          /\ Answer(r, IF req[r].cancel THEN "failed" ELSE "applied")
          /\ UNCHANGED bounds
       \/ /\ Trouble
          /\ \/ sup' = [at |-> "going", v |-> {}]
             \/ UNCHANGED sup
          /\ Answer(r, "failed")
    /\ Leave(r)

\* Supervisor.reconfigure: the replacement exists, the old runtime is retired.
Replaces(r) ==
    /\ req[r].at = "replacing"
    /\ \/ /\ sup' = Going
          /\ Goto(r, "swapping")
          /\ UNCHANGED <<mutation, partial, told, bounds>>
       \/ /\ Trouble
          /\ Answer(r, "failed") /\ Leave(r)
          /\ UNCHANGED sup
    /\ UNCHANGED <<conf, disk, desired, owner, stopping, override, removed, epoch, save, restarting,
                   settings>>

\* The old runtime is gone and nobody cancelled: the replacement takes its place.
\* Otherwise it is retired as well.
Swaps(r) ==
    /\ req[r].at = "swapping"
    /\ IF sup.at = "none" /\ ~req[r].cancel
       THEN sup' = [at |-> "live", v |-> req[r].spec.v] /\ Answer(r, "applied")
       ELSE sup' = [at |-> "going", v |-> {}] /\ Answer(r, "failed")
    /\ Leave(r)
    /\ UNCHANGED bounds

\* unregister's request to stop.
Removes(r) ==
    /\ req[r].at = "removing"
    /\ sup' = Going
    /\ Goto(r, "removed")
    /\ UNCHANGED <<conf, disk, desired, mutation, owner, book, save, restarting, settings, bounds,
                   told>>

\* A removal that is complete is forgotten; another one stays in _removed.
RemoveAnswers(r) ==
    /\ req[r].at = "removed"
    /\ mutation' = None
    /\ IF ~Has /\ epoch = r
       THEN removed' = FALSE /\ override' = FALSE
       ELSE UNCHANGED <<removed, override>>
    /\ partial' = (partial /\ epoch # r)
    /\ Leave(r)
    /\ UNCHANGED <<conf, disk, desired, owner, stopping, epoch, save, restarting, sup, settings,
                   bounds, told>>

Leaves(r) ==
    /\ req[r].at = "leaving"
    /\ Release(r)
    /\ req' = [req EXCEPT ![r] = Free]
    /\ UNCHANGED <<conf, disk, desired, mutation, save, restarting, sup, settings, bounds, told>>

-----------------------------------------------------------------------------
(* Stop: the signal first, then the file.                                  *)

\* _stop's admission: the name's current request is cancelled.
Mark(r) ==
    /\ override' = TRUE /\ stopping' = TRUE /\ epoch' = r
    /\ UNCHANGED <<removed, partial, owner>>
    /\ req' = [q \in Reqs |-> IF q = r THEN [req[r] EXCEPT !.at = "marked", !.sole = Enabling(r) \ {owner} = {}]
                              ELSE IF q = owner THEN [req[q] EXCEPT !.cancel = TRUE]
                              ELSE req[q]]

AskStop(r) ==
    /\ Idle # {} /\ r = (CHOOSE q \in Idle : TRUE) /\ asked < MaxAsk
    /\ conf.there \/ removed \/ owner # None
    /\ asked' = asked + 1
    /\ Mark(r)
    /\ UNCHANGED <<conf, disk, desired, mutation, save, restarting, sup, settings, trouble, told>>

\* An edit that also disables goes on as a stop with a candidate.
Parks(r) ==
    /\ req[r].at = "parking"
    /\ IF req[r].cancel \/ epoch # r
       THEN Leave(r) /\ UNCHANGED <<owner, book>>
       ELSE Mark(r)
    /\ UNCHANGED <<conf, disk, desired, mutation, save, restarting, sup, settings, bounds, told>>

\* Supervisor.request_stop.
Signals(r) ==
    /\ req[r].at = "marked"
    /\ sup' = Going
    /\ req' = [q \in Reqs |-> IF q = r THEN [req[r] EXCEPT !.at = "storing"]
                              ELSE IF q \in Pending THEN [req[q] EXCEPT !.cancel = TRUE]
                              ELSE req[q]]
    /\ UNCHANGED <<conf, disk, desired, mutation, owner, book, save, restarting, settings, bounds,
                   told>>

\* The write that is under way is shared; without the mutation lock there is none.
Stores(r) ==
    /\ req[r].at = "storing"
    /\ IF save.at # None
       THEN /\ Goto(r, "waiting")
            /\ told' = Slips(told, {w \in {"dropped", "joined"} :
                                       IF w = "dropped" THEN req[r].kind = "editoff"
                                       ELSE save.at = "written" /\ disk.mon.on})
            /\ UNCHANGED <<mutation, save, bounds>>
       ELSE IF mutation = None /\ ~restarting
       THEN \/ /\ mutation' = "saver"
               /\ save' = [at |-> "begun", spec |-> IF req[r].kind = "editoff" THEN req[r].spec ELSE Absent,
                           by |-> r]
               /\ req' = [req EXCEPT ![r].at = "waiting", ![r].fresh = FALSE, ![r].spec = Absent]
               /\ told' = IF req[r].kind = "editoff" /\ ~req[r].fresh
                          THEN Slips(told, {"stale"}) ELSE told
               /\ UNCHANGED bounds
            \/ /\ Trouble
               /\ req' = [req EXCEPT ![r].at = "waiting", ![r].verdict = "failed"]
               /\ UNCHANGED <<mutation, save, told>>
       ELSE /\ req' = [req EXCEPT ![r].at = "waiting", ![r].verdict = "pending"]
            /\ UNCHANGED <<mutation, save, bounds, told>>
    /\ UNCHANGED <<conf, disk, desired, owner, book, restarting, sup, settings>>

\* The end of the writer's thread: everybody who waits for it learns how it went.
SaverEnds(verdict) ==
    /\ mutation' = None /\ save' = NoSave
    /\ req' = [q \in Reqs |->
                LET s == IF save.at = "written" THEN [req[q] EXCEPT !.fresh = FALSE] ELSE req[q]
                IN IF req[q].at = "waiting" /\ req[q].verdict = None
                   THEN [s EXCEPT !.verdict = verdict] ELSE s]

\* The candidate of the edit that stops, unless somebody else stopped it too.
SaverSpec ==
    IF save.spec.there /\ conf.there /\ ~(save.by \in Reqs /\ req[save.by].cancel)
    THEN save.spec ELSE conf

\* persist_stop: an entry that is off already needs no write.
SaverWrites ==
    /\ save.at = "begun"
    /\ told' = IF save.spec.there /\ SaverSpec # save.spec
               THEN Slips(told, {"dropped"}) ELSE told
    /\ \/ /\ SaverSpec = conf /\ ~conf.on
          /\ SaverEnds("saved")
          /\ UNCHANGED <<disk, bounds>>
       \/ /\ ~(SaverSpec = conf /\ ~conf.on)
          /\ disk' = [mon |-> Candidate(SaverSpec, FALSE), set |-> desired]
          /\ save' = [save EXCEPT !.at = "written"]
          /\ UNCHANGED <<mutation, req, bounds>>
       \/ /\ Trouble
          /\ ~(SaverSpec = conf /\ ~conf.on)
          /\ SaverEnds("failed")
          /\ UNCHANGED disk
    /\ UNCHANGED <<conf, desired, owner, book, restarting, sup, settings>>

SaverPublishes ==
    /\ save.at = "written"
    /\ conf' = disk.mon
    /\ SaverEnds("saved")
    /\ UNCHANGED <<disk, desired, owner, book, restarting, sup, settings, bounds, told>>

\* The deadline, or the end of the runtime and of the write.
StopAnswers(r) ==
    /\ req[r].at = "waiting"
    /\ LET saved == req[r].verdict = "saved"
           alone == req[r].sole
       IN  /\ stopping' = (stopping /\ (Has \/ epoch # r))
           /\ partial' = (partial /\ epoch # r)
           /\ told' = Slips([told EXCEPT !.off = @ \/ (saved /\ alone),
                                   !.still = @ \/ (~Has /\ alone),
                                   !.fields = IF saved THEN @ \cup req[r].field ELSE @], {})
    /\ save' = IF save.by = r
               THEN [save EXCEPT !.by = None, !.spec = IF req[r].cancel THEN Absent ELSE @]
               ELSE save
    /\ IF req[r].kind = "editoff" THEN Leave(r) ELSE req' = [req EXCEPT ![r] = Free]
    /\ UNCHANGED <<conf, disk, desired, mutation, owner, override, removed, epoch, restarting, sup,
                   settings, bounds>>

-----------------------------------------------------------------------------
(* The status view, the settings, the restart, the supervisor.             *)

\* status_view: a removed monitor whose runtime is gone is forgotten.
StatusView ==
    /\ removed /\ sup.at = "none"
    /\ removed' = FALSE
    /\ IF owner = None /\ save.at = None
       THEN stopping' = FALSE /\ override' = FALSE /\ epoch' = None /\ partial' = FALSE
       ELSE UNCHANGED <<stopping, override, epoch, partial>>
    /\ UNCHANGED <<conf, disk, desired, mutation, owner, save, restarting, sup, req, settings,
                   bounds, told>>

\* update_config: the mutation lock is held throughout.
SettingsBegin ==
    /\ settings.at = "idle" /\ mutation = None /\ ~restarting /\ asked < MaxAsk
    /\ asked' = asked + 1
    /\ mutation' = "settings"
    /\ settings' = [at |-> "writing", set |-> desired + 1]
    /\ UNCHANGED <<conf, disk, desired, owner, book, save, restarting, sup, req, trouble, told>>

\* _save: the monitors are written again with them.
SettingsWrite ==
    /\ settings.at = "writing"
    /\ \/ /\ disk' = [mon |-> Candidate(conf, FALSE), set |-> settings.set]
          /\ settings' = [settings EXCEPT !.at = "written"]
          /\ UNCHANGED <<mutation, bounds>>
       \/ /\ Trouble
          /\ settings' = [at |-> "idle", set |-> 0] /\ mutation' = None
          /\ UNCHANGED disk
    /\ UNCHANGED <<conf, desired, owner, book, save, restarting, sup, req, told>>

SettingsEnd ==
    /\ settings.at = "written"
    /\ conf' = disk.mon /\ desired' = settings.set
    /\ req' = Outdated(None)
    /\ settings' = [at |-> "idle", set |-> 0] /\ mutation' = None
    /\ UNCHANGED <<disk, owner, book, save, restarting, sup, bounds, told>>

\* restart_now and begin_restart: no save is under way, and the request that
\* holds the name is cancelled.
Grants ==
    /\ ~restarting /\ mutation = None
    /\ restarting' = TRUE
    /\ req' = IF owner \in Reqs THEN [req EXCEPT ![owner].cancel = TRUE] ELSE req
    /\ UNCHANGED <<conf, disk, desired, mutation, owner, book, save, sup, settings, bounds, told>>

\* The next boot, after a restart or a crash: the file is all there is.
Reboots ==
    /\ \/ restarting /\ UNCHANGED bounds
       \/ ~restarting /\ Trouble
    /\ conf' = disk.mon /\ desired' = disk.set
    /\ sup' = IF disk.mon.on THEN [at |-> "live", v |-> disk.mon.v] ELSE [at |-> "none", v |-> {}]
    /\ mutation' = None /\ owner' = None
    /\ stopping' = FALSE /\ override' = FALSE /\ removed' = FALSE /\ epoch' = None
    /\ partial' = FALSE /\ save' = NoSave /\ restarting' = FALSE
    /\ req' = [r \in Reqs |-> Free] /\ settings' = [at |-> "idle", set |-> 0]
    /\ told' = [told EXCEPT !.still = told.off /\ "joined" \notin told.slip]
    /\ UNCHANGED disk

\* A runtime that was told to stop is gone.
Retires ==
    /\ sup.at = "going"
    /\ sup' = [at |-> "none", v |-> {}]
    /\ UNCHANGED <<conf, disk, desired, mutation, owner, book, save, restarting, req, settings,
                   bounds, told>>

Moves(r) ==
    \/ Reserve(r) \/ Validates(r) \/ Begins(r) \/ Busy(r) \/ Writes(r) \/ Publishes(r)
    \/ Applies(r) \/ Creates(r) \/ Replaces(r) \/ Swaps(r) \/ Removes(r) \/ RemoveAnswers(r)
    \/ Leaves(r) \/ Parks(r) \/ Signals(r) \/ Stores(r) \/ StopAnswers(r)

Background == SaverWrites \/ SaverPublishes \/ SettingsWrite \/ SettingsEnd \/ Lapses \/ Retires

Next ==
    \/ \E r \in Reqs : Ask(r) \/ AskStop(r) \/ Moves(r) \/ Expires(r)
    \/ Background \/ StatusView \/ SettingsBegin \/ Grants \/ Reboots

Spec == Init /\ [][Next]_vars

\* The process gets on with what it began, in whatever order.
Work == (\E r \in Reqs : Moves(r)) \/ Background

FairSpec == Spec /\ WF_vars(Work)
-----------------------------------------------------------------------------
(* Properties.                                                             *)

Places == {"idle", "read", "validating", "ready", "writing", "written", "applying", "creating",
           "replacing", "swapping", "removing", "removed", "parking", "marked", "storing",
           "waiting", "leaving"}

TypeOK ==
    /\ {conf, disk.mon} \subseteq [there : BOOLEAN, on : BOOLEAN, v : SUBSET Fields]
    /\ mutation \in Reqs \cup {None, "saver", "settings"}
    /\ owner \in Reqs \cup {None, "expired", "lapsed"}
    /\ epoch \in Reqs \cup {None}
    /\ {stopping, override, removed, partial, restarting} \subseteq BOOLEAN
    /\ save.at \in {None, "begun", "written"}
    /\ sup.at \in {"none", "live", "going"}
    /\ \A r \in Reqs : req[r].at \in Places

\* A stop that was answered as saved is in the file, and one that was answered
\* as stopped stays stopped, whatever was in flight, until somebody asks for a
\* start.  The code breaks it for a stop that joins a write drafted before it.
StopsHold ==
    /\ told.off => ~disk.mon.on \/ "joined" \in told.slip
    /\ told.still => sup.at # "live"

\* An edit that was answered as saved is in the file as long as the monitor is,
\* whoever saves next.  The code loses one whose request read the entry before
\* somebody else's commit and reserved the name after it, and the config of a
\* disabling edit that met another stop.
EditsHold == told.fields \subseteq disk.mon.v

\* With nobody at work, the memory is the file, and what runs is configured.
Together ==
    mutation = None =>
        /\ disk = [mon |-> conf, set |-> desired]
        /\ (\A r \in Reqs : req[r].at = "idle") /\ sup.at = "live" /\ "stale" \notin told.slip
            => conf.there

AdminTrue == TypeOK /\ StopsHold /\ EditsHold /\ Together

\* Once a restart is granted the file stays as it is and nothing is started.
RestartQuiet ==
    [][restarting /\ restarting' => disk' = disk /\ (sup'.at = "live" => sup.at = "live")]_vars

\* So it is, and every request is answered, and the name is free for another one again
\* and again.
AdminMoves ==
    /\ RestartQuiet
    /\ \A r \in Reqs : []<>(req[r].at = "idle")
    /\ []<>(Pruned = None /\ save.at = None /\ ~(stopping /\ sup.at = "going"))
=============================================================================
