------------------------------ MODULE Translator ------------------------------
\* The subtitle translator (monitors/subs/translate.py): one thread takes films
\* from a queue and has their lines translated by a chain of services, each
\* through a worker process of its own. A service that fails is put aside for a
\* cool-down, a line a service will not translate goes to the next one, a film
\* none can take waits beside the queue, and what is done is kept in a checkpoint
\* that survives the run. The task that submits the films (Jasna, AVSubs) and the
\* services are the environment.
EXTENDS Integers, FiniteSets, SequencesExt

CONSTANTS Films,       \* positive numbers
          CuesOf,      \* [Films -> number of lines]
          Providers,   \* labels of the services
          Chains,      \* the chains the configuration may publish
          Chain0,      \* the chain at the start
          Failover,    \* the configuration's switch
          Refuses,     \* <<service, film, line>> it never gives a usable answer to
          Fits,        \* [Providers -> lines an answer has room for]
          Cool,        \* cool-down of each level, in ticks
          PauseAfter,  \* ticks of deferral after which a film is given back
          BatchSize, MinBatch, GrowAfter, Retries,
          MaxFault     \* changes of the chain, outages, lost workers, failed
                       \* writes and publications, stops and restarts, together

VARIABLES conf,     \* the published chain
          svc,      \* [Providers -> up | down | account]
          faults,   \* how many so far
          film,     \* [Films -> the film as this run's thread has it]
          disk,     \* [Films -> checkpoint]
          prov,     \* [Providers -> breaker, batch size, last probe]
          pub,      \* the chain as the thread read it last
          th,       \* the thread
          reqs,     \* the queue of requests
          nq,       \* the counter behind queued()
          reg,      \* services with a registered worker
          live,     \* services with a living worker process
          lock,     \* TRUE: the thread spawns under the spawn lock
          stop,     \* cancel(): none, flag, grab, done; and the workers it took
          out,      \* [Films -> results put for it in this run]
          task      \* [Films -> fresh | counted | put | taken | published]

vars == <<conf, svc, faults, film, disk, prov, pub, th, reqs, nq, reg, live, lock,
          stop, out, task>>
world == <<conf, svc, faults>>
books == <<reqs, nq, out, task>>
workers == <<reg, live, lock, stop>>

Nobody == ""
Closed == -1
Cues(f) == 1..CuesOf[f]
Blank(f) == [zh |-> [c \in Cues(f) |-> Nobody], refused |-> [c \in Cues(f) |-> {}]]
NewFilm(f) == [at |-> "none", seen |-> {}, waited |-> 0, zh |-> Blank(f).zh,
               refused |-> Blank(f).refused, failed |-> Blank(f).refused]
Fresh == [open |-> Closed, level |-> 0, probed |-> FALSE, size |-> BatchSize,
          clean |-> 0, shrinks |-> [n \in 1..BatchSize |-> 0]]
Rest == [pc |-> "next", f |-> 0, start |-> 1, p |-> Nobody, ask |-> {}, what |-> "",
         tries |-> 0, first |-> "", last |-> "", batch |-> {}, agenda |-> <<>>,
         failed |-> {}]
NoStop == [at |-> "none", took |-> {}]

Init == /\ conf = Chain0
        /\ svc = [p \in Providers |-> "up"]
        /\ faults = 0
        /\ film = [f \in Films |-> NewFilm(f)] /\ disk = [f \in Films |-> Blank(f)]
        /\ prov = [p \in Providers |-> Fresh] /\ pub = <<>> /\ th = Rest
        /\ reqs = <<>> /\ nq = 0 /\ reg = {} /\ live = {} /\ lock = FALSE
        /\ stop = NoStop /\ out = [f \in Films |-> <<>>]
        /\ task = [f \in Films |-> "fresh"]

Cancelled == stop.at # "none"
At(pc) == th.pc = pc /\ ~Cancelled
Goto(pc) == th' = [th EXCEPT !.pc = pc]
Fault == faults < MaxFault /\ faults' = faults + 1
Trouble == Fault /\ UNCHANGED <<conf, svc>>

-----------------------------------------------------------------------------
\* The chain and the routes.

\* Mutation of Refresh: a film's services are those of the chain at its dequeue.
RefreshBlind(fm) == LET now == ToSet(conf)
                        gone == ToSet(pub) \ now
                    IN /\ pub' = conf
                       /\ prov' = [p \in Providers |-> IF p \in now THEN prov[p] ELSE Fresh]
                       /\ reg' = reg \ gone /\ live' = live \ (reg \cap gone)
                       /\ film' = [f \in Films |->
                                     IF fm[f].at = "working" /\ fm[f].seen = {}
                                     THEN [fm[f] EXCEPT !.seen = now] ELSE fm[f]]
\* A departed service is retired: its state is dropped, its worker torn down.
\* Every label is added to what the worked and the deferred films have seen.
Refresh(fm) == LET now == ToSet(conf)
                   gone == ToSet(pub) \ now
               IN /\ pub' = conf
                  /\ prov' = [p \in Providers |-> IF p \in now THEN prov[p] ELSE Fresh]
                  /\ reg' = reg \ gone /\ live' = live \ (reg \cap gone)
                  /\ film' = [f \in Films |->
                                IF fm[f].at \in {"working", "deferred"}
                                THEN [fm[f] EXCEPT !.seen = @ \cup now] ELSE fm[f]]
Retired(p) == p \notin ToSet(conf)

Without(f, c) == film[f].refused[c] \cup film[f].failed[c]
Exhausted(f, c) == pub # <<>> /\ film[f].seen \subseteq Without(f, c)
OpenCues(f) == {c \in Cues(f) : film[f].zh[c] = Nobody /\ ~Exhausted(f, c)}

\* The first service line c has not given up that is closed, or whose cool-down
\* has ended (it is probed first); without failover a line waits for the first.
Route(f, c) ==
    LET usable(k) == pub[k] \notin Without(f, c)
        stands(k) == usable(k) /\ prov[pub[k]].open <= 0
        fixed == ~Failover /\ pub # <<>> /\ usable(1) /\ ~stands(1)
        K == {k \in DOMAIN pub : stands(k)}
    IN IF fixed \/ K = {} THEN Nobody ELSE pub[CHOOSE k \in K : \A j \in K : k <= j]

Lowest(S) == CHOOSE c \in S : \A d \in S : c <= d

\* The lines of S that have a route, with their services. The walk through them
\* takes the first one's service, and the next ones on the same route up to the
\* service's batch size.
Routes(f, S) == [c \in {d \in S : Route(f, d) # Nobody} |-> Route(f, c)]
First(r) == r[Lowest(DOMAIN r)]
NextBatch(r) == {c \in DOMAIN r :
                   /\ \A d \in DOMAIN r : d <= c => r[d] = First(r)
                   /\ Cardinality({d \in DOMAIN r : d <= c}) <= prov[First(r)].size}
\* The service the walk meets that has to be probed before it can go on, if any.
Due(r) == LET more == {c \in DOMAIN r : \A d \in NextBatch(r) : d < c}
          IN IF DOMAIN r = {} THEN Nobody
             ELSE IF prov[First(r)].open = 0 THEN First(r)
             ELSE IF Cardinality(NextBatch(r)) < prov[First(r)].size /\ more # {}
                     /\ prov[r[Lowest(more)]].open = 0
                  THEN r[Lowest(more)] ELSE Nobody

\* The breaker of p opens: a longer cool-down each time, the longest at once when
\* the account is at fault. The cool-down leaves the batch size as it is.
Severe(why) == why = "account"
Open(p, why) == LET top == Len(Cool)
                    level == IF Severe(why) \/ prov[p].level = top
                             THEN top ELSE prov[p].level + 1
                IN prov' = [prov EXCEPT ![p].open = Cool[level], ![p].level = level,
                                        ![p].probed = FALSE]
Probed(p) == prov' = [prov EXCEPT ![p].probed = TRUE]
HalfOpen(p) == prov' = [prov EXCEPT ![p].probed = TRUE, ![p].open = Closed,
                                    ![p].level = 0]

-----------------------------------------------------------------------------
\* One request: the service's worker is there or is spawned, the line is written,
\* the reply comes, or the worker is gone.

Request(what, p, ask) == th' = [th EXCEPT !.pc = "call", !.what = what, !.p = p,
                                          !.ask = ask]
EnsureWorker == /\ At("call")
                /\ IF th.p \in reg \/ th.p \notin ToSet(pub)
                   THEN Goto("reply") /\ UNCHANGED lock
                   ELSE Goto("spawn") /\ lock' = TRUE
                /\ UNCHANGED <<world, film, disk, prov, pub, books, reg, live, stop>>

\* The worker runs; it is registered only when no stop was asked for meanwhile.
Spawned == /\ th.pc = "spawn"
           /\ lock' = FALSE
           /\ IF Cancelled THEN Goto("exit") /\ UNCHANGED <<reg, live>>
              ELSE Goto("reply") /\ reg' = reg \cup {th.p} /\ live' = live \cup {th.p}
           /\ UNCHANGED <<world, film, disk, prov, pub, books, stop>>
SpawnFails == /\ th.pc = "spawn" /\ Trouble
              /\ lock' = FALSE /\ Goto("reply")
              /\ UNCHANGED <<film, disk, prov, pub, books, reg, live, stop>>

\* A worker that ends, or that does not answer in time and is killed.
WorkerLost == /\ At("reply") /\ th.p \in reg /\ Trouble
              /\ reg' = reg \ {th.p} /\ live' = live \ {th.p}
              /\ UNCHANGED <<film, disk, prov, pub, th, books, lock, stop>>

\* The answer to the lines S is usable: the right lines, none of them empty.
Validates(p, S) == \A c \in S : <<p, th.f, c>> \notin Refuses
Reply == IF th.p \notin reg \/ svc[th.p] = "down" THEN "network"
         ELSE IF svc[th.p] = "account" THEN "account"
         ELSE IF Cardinality(th.ask) > Fits[th.p] THEN "length"
         ELSE IF Validates(th.p, th.ask) THEN "ok" ELSE "content"
Transient(why) == why \in {"network", "length"}
LeafTransient(why) == why = "network"
ShrinksBatch(why) == why = "length"       \* and a timeout, one kind of "network"
Answer(what) == At("reply") /\ th.what = what

\* The checkpoint is written whole or not at all; a failed write is not fatal.
Save(f, fm) == \/ /\ disk' = [disk EXCEPT ![f] = [zh |-> fm.zh, refused |-> fm.refused]]
                  /\ UNCHANGED world
               \/ Trouble /\ UNCHANGED disk
Done(f, p, S) == LET fm == [film[f] EXCEPT !.zh = [c \in Cues(f) |->
                                                     IF c \in S THEN p ELSE @[c]]]
                 IN film' = [film EXCEPT ![f] = fm] /\ Save(f, fm)

-----------------------------------------------------------------------------
\* One batch: the attempt and its retries.

Over == [th EXCEPT !.pc = "work", !.p = Nobody, !.ask = {}, !.what = "", !.tries = 0,
                   !.first = "", !.last = "", !.batch = {}, !.agenda = <<>>,
                   !.failed = {}]

\* A clean answer to full batches lets the batch grow again, but never back to a
\* size it has been shrunk from twice.
Grown(p) == LET clean == IF Cardinality(th.batch) < prov[p].size THEN prov[p].clean
                         ELSE IF prov[p].clean < GrowAfter THEN prov[p].clean + 1
                         ELSE GrowAfter
                target == IF 2 * prov[p].size < BatchSize THEN 2 * prov[p].size
                          ELSE BatchSize
                grows == /\ clean >= GrowAfter /\ target > prov[p].size
                         /\ prov[p].shrinks[target] < 2
            IN prov' = [prov EXCEPT ![p].clean = IF grows THEN 0 ELSE clean,
                                    ![p].size = IF grows THEN target ELSE @]
Shrunk(p) == LET half == prov[p].size \div 2
             IN prov' = [prov EXCEPT ![p].shrinks[prov[p].size] = IF @ < 2 THEN @ + 1 ELSE 2,
                                     ![p].size = IF half < MinBatch THEN MinBatch ELSE half,
                                     ![p].clean = 0]

Lower(S) == CHOOSE T \in SUBSET S : /\ Cardinality(T) = Cardinality(S) \div 2
                                    /\ \A x \in T, y \in S \ T : x < y
Halves(S) == <<Lower(S), S \ Lower(S)>>

\* A single line has nothing to split: its failure goes to the confirming probe.
Bisect(first, last) ==
    th' = IF Cardinality(th.batch) > 1
          THEN [th EXCEPT !.pc = "part", !.agenda = Halves(th.batch), !.first = first,
                          !.last = ""]
          ELSE [th EXCEPT !.pc = "part", !.first = first, !.last = "",
                          !.failed = {<<CHOOSE c \in th.batch : TRUE,
                                        LeafTransient(last) \/ last = "length">>}]

TopOk == /\ Answer("top") /\ Reply = "ok"
         /\ Done(th.f, th.p, th.batch) /\ Grown(th.p) /\ th' = Over
         /\ UNCHANGED <<pub, books, workers>>
\* What is not the service's fault is split at once; what may pass is retried.
TopFails == /\ Answer("top") /\ Reply # "ok"
            /\ prov' = [prov EXCEPT ![th.p].clean = 0]
            /\ IF Reply = "content" THEN Bisect(Reply, Reply)
               ELSE th' = [th EXCEPT !.pc = IF Transient(Reply) THEN "sleep" ELSE "check",
                                     !.first = Reply, !.last = Reply]
            /\ UNCHANGED <<world, film, disk, pub, books, workers>>
\* A wait re-reads the chain; a service that left it meanwhile ends the attempt.
Sleep == /\ At("sleep") /\ Refresh(film)
         /\ th' = IF Retired(th.p) THEN Over
                  ELSE [th EXCEPT !.pc = "call", !.what = "retry", !.tries = @ + 1]
         /\ UNCHANGED <<world, disk, books, lock, stop>>
RetryOk == /\ Answer("retry") /\ Reply = "ok"
           /\ Done(th.f, th.p, th.batch) /\ th' = Over
           /\ UNCHANGED <<prov, pub, books, workers>>
RetryFails == /\ Answer("retry") /\ Reply # "ok"
              /\ th' = [th EXCEPT !.pc = IF Transient(Reply) /\ th.tries < Retries
                                         THEN "sleep" ELSE "check", !.last = Reply]
              /\ UNCHANGED <<world, film, disk, prov, pub, books, workers>>

\* Is it the service? A probe answers; one answered a moment ago still counts.
Check == /\ At("check")
         /\ \/ prov[th.p].probed /\ Bisect(th.first, th.last)
            \/ Request("check", th.p, {})
         /\ UNCHANGED <<world, film, disk, prov, pub, books, workers>>
CheckOk == /\ Answer("check") /\ Reply = "ok"
           /\ Probed(th.p) /\ Bisect(th.first, th.last)
           /\ UNCHANGED <<world, film, disk, pub, books, workers>>
ProbeFails == /\ Answer("check") \/ Answer("leafprobe") \/ Answer("confirm")
              /\ Reply # "ok" /\ Open(th.p, Reply) /\ th' = Over
              /\ UNCHANGED <<world, film, disk, pub, books, workers>>

-----------------------------------------------------------------------------
\* The failure is the lines': the batch is split down to single lines.

Part == /\ At("part") /\ th.agenda # <<>> /\ Refresh(film)
        /\ IF Retired(th.p) THEN th' = Over ELSE Request("part", th.p, Head(th.agenda))
        /\ UNCHANGED <<world, disk, books, lock, stop>>
PartOk == /\ Answer("part") /\ Reply = "ok"
          /\ Done(th.f, th.p, th.ask)
          /\ th' = [th EXCEPT !.pc = "part", !.agenda = Tail(@), !.ask = {}, !.what = ""]
          /\ UNCHANGED <<prov, pub, books, workers>>
Fails(c, memory) == th' = [th EXCEPT !.pc = "part", !.agenda = Tail(@), !.ask = {},
                                     !.what = "", !.failed = @ \cup {<<c, memory>>}]
PartFails == /\ Answer("part") /\ Reply # "ok"
             /\ IF Cardinality(th.ask) > 1
                THEN th' = [th EXCEPT !.pc = "part", !.agenda = Halves(th.ask) \o Tail(@),
                                      !.ask = {}, !.what = ""]
                ELSE IF LeafTransient(Reply) THEN Goto("leafsleep")
                ELSE Fails(Lowest(th.ask), Reply = "length")
             /\ UNCHANGED <<world, film, disk, prov, pub, books, workers>>
LeafSleep == /\ At("leafsleep") /\ Refresh(film)
             /\ IF Retired(th.p) THEN th' = Over ELSE Request("leaf", th.p, th.ask)
             /\ UNCHANGED <<world, disk, books, lock, stop>>
LeafOk == /\ Answer("leaf") /\ Reply = "ok"
          /\ Done(th.f, th.p, th.ask)
          /\ th' = [th EXCEPT !.pc = "part", !.agenda = Tail(@), !.ask = {}, !.what = ""]
          /\ UNCHANGED <<prov, pub, books, workers>>
LeafFails == /\ Answer("leaf") /\ Reply # "ok"
             /\ IF LeafTransient(Reply) THEN Request("leafprobe", th.p, {})
                ELSE Fails(Lowest(th.ask), Reply = "length")
             /\ UNCHANGED <<world, film, disk, prov, pub, books, workers>>
LeafProbeOk == /\ Answer("leafprobe") /\ Reply = "ok" /\ Probed(th.p)
               /\ Fails(Lowest(Head(th.agenda)), TRUE)
               /\ UNCHANGED <<world, film, disk, pub, books, workers>>

\* Every part has been asked: one fresh probe before a failure is held against a
\* line; a clean bisection shrinks the batch when the batch was at fault.
Confirm == /\ At("part") /\ th.agenda = <<>> /\ th.failed # {}
           /\ Request("confirm", th.p, {})
           /\ UNCHANGED <<world, film, disk, prov, pub, books, workers>>
\* Mutation of ConfirmOk: the failures are recorded whatever the probe says.
ConfirmAnyway ==
    /\ Answer("confirm") /\ Probed(th.p)
    /\ LET lines(memory) == {c \in Cues(th.f) : <<c, memory>> \in th.failed}
           add(g, S) == [c \in Cues(th.f) |-> IF c \in S THEN g[c] \cup {th.p} ELSE g[c]]
           fm == [film[th.f] EXCEPT !.failed = add(@, lines(TRUE)),
                                    !.refused = add(@, lines(FALSE))]
       IN /\ film' = [film EXCEPT ![th.f] = fm]
          /\ IF lines(FALSE) # {} THEN Save(th.f, fm) ELSE UNCHANGED <<world, disk>>
    /\ th' = Over
    /\ UNCHANGED <<pub, books, workers>>
ConfirmOk ==
    /\ Answer("confirm") /\ Reply = "ok" /\ Probed(th.p)
    /\ LET lines(memory) == {c \in Cues(th.f) : <<c, memory>> \in th.failed}
           add(g, S) == [c \in Cues(th.f) |-> IF c \in S THEN g[c] \cup {th.p} ELSE g[c]]
           fm == [film[th.f] EXCEPT !.failed = add(@, lines(TRUE)),
                                    !.refused = add(@, lines(FALSE))]
       IN /\ film' = [film EXCEPT ![th.f] = fm]
          /\ IF lines(FALSE) # {} THEN Save(th.f, fm) ELSE UNCHANGED <<world, disk>>
    /\ th' = Over
    /\ UNCHANGED <<pub, books, workers>>
Split == /\ At("part") /\ th.agenda = <<>> /\ th.failed = {}
         /\ \/ (ShrinksBatch(th.first) \/ th.first = "network") /\ Shrunk(th.p)
            \/ ~ShrinksBatch(th.first) /\ UNCHANGED prov
         /\ th' = Over
         /\ UNCHANGED <<world, film, disk, pub, books, workers>>

-----------------------------------------------------------------------------
\* Working a film, and choosing the next one.

\* Mutation of Put: the film is forgotten first, its result still to be put.
PutForgotten(f, outcome, back) == /\ film' = [film EXCEPT ![f] = NewFilm(f)]
                                  /\ th' = [Rest EXCEPT !.pc = "forget", !.f = f,
                                                        !.what = back]
                                  /\ UNCHANGED out
Put(f, outcome, back) == /\ out' = [out EXCEPT ![f] = Append(@, outcome)]
                         /\ th' = [Rest EXCEPT !.pc = "forget", !.f = f, !.what = back]
                         /\ UNCHANGED film
\* Mutation of Forget: a deferred film stays in the list of deferred films.
ForgetWorked == /\ th.pc = "forget"
                /\ film' = IF film[th.f].at = "deferred" THEN film
                           ELSE [film EXCEPT ![th.f] = NewFilm(th.f)]
                /\ th' = [Rest EXCEPT !.pc = th.what]
                /\ UNCHANGED <<world, disk, prov, pub, books, workers>>
\* The result is on the queue; only now the film is forgotten.
Forget == /\ th.pc = "forget"
          /\ film' = [film EXCEPT ![th.f] = NewFilm(th.f)]
          /\ th' = [Rest EXCEPT !.pc = th.what]
          /\ UNCHANGED <<world, disk, prov, pub, books, workers>>

Work == /\ At("work") /\ Refresh(film) /\ Goto("plan")
        /\ UNCHANGED <<world, disk, books, lock, stop>>
WorkEnds == /\ At("plan")
            /\ \/ pub = <<>> /\ Put(th.f, "no_key", "next")
               \/ pub # <<>> /\ OpenCues(th.f) = {} /\ Put(th.f, "translated", "next")
            /\ UNCHANGED <<world, disk, prov, pub, reqs, nq, task, workers>>
Ahead == {c \in OpenCues(th.f) : c >= th.start}
Defer(r) == /\ DOMAIN r = {} /\ th.start = 1
            /\ film' = [film EXCEPT ![th.f].at = "deferred"] /\ th' = Rest
            /\ UNCHANGED prov
NextPass(r) == /\ DOMAIN r = {} /\ th.start > 1
               /\ th' = [th EXCEPT !.pc = "work", !.start = 1]
               /\ UNCHANGED <<film, prov>>
Batch(r) == /\ DOMAIN r # {} /\ Due(r) = Nobody
            /\ th' = [th EXCEPT !.pc = "call", !.what = "top", !.p = First(r),
                                !.ask = NextBatch(r), !.batch = NextBatch(r),
                                !.start = 1 + CHOOSE c \in NextBatch(r) :
                                                \A d \in NextBatch(r) : d <= c]
            /\ UNCHANGED <<film, prov>>
\* Routing meets a service whose cool-down has ended: it is probed on the spot.
Probe(r) == Due(r) # Nobody /\ Request("half", Due(r), {}) /\ UNCHANGED <<film, prov>>
Plan == /\ At("plan") /\ pub # <<>> /\ OpenCues(th.f) # {}
        /\ \E r \in {Routes(th.f, Ahead)} : Defer(r) \/ NextPass(r) \/ Batch(r) \/ Probe(r)
        /\ UNCHANGED <<world, disk, pub, books, workers>>

Deferred == {f \in Films : film[f].at = "deferred"}
Late(f) == film[f].waited >= PauseAfter

NextFilm == /\ At("next") /\ Refresh(film) /\ Goto("pick")
            /\ UNCHANGED <<world, disk, books, lock, stop>>
\* Mutation of GiveBack: no film is given back for having waited too long.
GiveBackNever(f) == /\ At("pick") /\ f \in Deferred
                    /\ pub = <<>> /\ Put(f, "no_key", "pick")
                    /\ UNCHANGED <<world, disk, prov, pub, reqs, nq, task, workers>>
GiveBack(f) == /\ At("pick") /\ f \in Deferred
               /\ \/ pub = <<>> /\ Put(f, "no_key", "pick")
                  \/ pub # <<>> /\ Late(f) /\ Put(f, "paused", "pick")
               /\ UNCHANGED <<world, disk, prov, pub, reqs, nq, task, workers>>
Kept == pub # <<>> /\ \A f \in Deferred : ~Late(f)
Resume(f) == /\ film' = [film EXCEPT ![f].at = "working"]
             /\ th' = [Rest EXCEPT !.pc = "work", !.f = f] /\ UNCHANGED prov
\* A deferred film can go on when no line is open, or one has a route.
Revisit == /\ At("pick") /\ Kept
           /\ \E f \in Deferred : \E r \in {Routes(f, OpenCues(f))} :
                \/ (OpenCues(f) = {} \/ (DOMAIN r # {} /\ prov[First(r)].open # 0))
                   /\ Resume(f)
                \/ DOMAIN r # {} /\ prov[First(r)].open = 0 /\ Probe(r)
           /\ UNCHANGED <<world, disk, pub, books, workers>>
Stuck(f) == OpenCues(f) # {} /\ \A c \in OpenCues(f) : Route(f, c) = Nobody

ProbeEnds == /\ Answer("half")
             /\ IF Reply = "ok" THEN HalfOpen(th.p) ELSE Open(th.p, Reply)
             /\ th' = [th EXCEPT !.pc = IF th.f = 0 THEN "pick" ELSE "plan",
                                 !.p = Nobody, !.what = ""]
             /\ UNCHANGED <<world, film, disk, pub, books, workers>>

\* Mutation of Dequeued: what services have refused is not read back.
DequeuedUnrefused(f) == [NewFilm(f) EXCEPT !.at = "working", !.zh = disk[f].zh]
\* The film as the checkpoint has it; it counts as worked from here on.
Dequeued(f) == [NewFilm(f) EXCEPT !.at = "working", !.zh = disk[f].zh,
                                  !.refused = disk[f].refused]
Dequeue(f) == /\ nq' = nq - 1 /\ reqs' = Tail(reqs)
              /\ Refresh([film EXCEPT ![f] = Dequeued(f)])
              /\ th' = [Rest EXCEPT !.pc = "work", !.f = f]
              /\ UNCHANGED <<world, disk, out, task, lock, stop>>
PickNext == /\ At("pick") /\ (Deferred = {} \/ Kept) /\ \A f \in Deferred : Stuck(f)
            /\ IF reqs # <<>> THEN Dequeue(Head(reqs))
               ELSE /\ Goto(IF Deferred = {} THEN "get" ELSE "idle")
                    /\ UNCHANGED <<world, film, disk, prov, pub, books, workers>>
\* Only deferred films are left: the wait ends with a request, with a slice that
\* finds another chain, or with time (Tick).
Wake == /\ At("idle") /\ (reqs # <<>> \/ conf # pub) /\ Goto("next")
        /\ UNCHANGED <<world, film, disk, prov, pub, books, workers>>
\* Nothing at all to do: the thread waits in the queue, where a stop leaves a mark.
Get == /\ th.pc = "get" /\ reqs # <<>>
       /\ IF Head(reqs) = 0 THEN /\ Goto("exit")
                                 /\ UNCHANGED <<world, film, disk, prov, pub, books, workers>>
          ELSE Dequeue(Head(reqs))

\* The thread meets the flag: it forgets its films and takes its workers along.
Raise == /\ Cancelled /\ th.pc \notin {"spawn", "get", "forget", "exit", "ended"}
         /\ Goto("exit")
         /\ UNCHANGED <<world, film, disk, prov, pub, books, workers>>
ThreadEnds == /\ th.pc = "exit"
              /\ film' = [f \in Films |-> NewFilm(f)]
              /\ th' = [Rest EXCEPT !.pc = "ended"]
              /\ reg' = {} /\ live' = live \ reg
              /\ UNCHANGED <<world, disk, prov, pub, books, lock, stop>>

-----------------------------------------------------------------------------
\* The task that owns the translator.

\* One thread of the task submits, in the order of its plan.
Submit(f) == /\ task[f] = "fresh" /\ ~Cancelled
             /\ \A g \in Films : task[g] = "fresh" => g >= f
             /\ \A g \in Films : task[g] # "counted"
             /\ nq' = nq + 1 /\ task' = [task EXCEPT ![f] = "counted"]
             /\ UNCHANGED <<world, film, disk, prov, pub, th, reqs, out, workers>>
Enqueue(f) == /\ task[f] = "counted"
              /\ reqs' = Append(reqs, f) /\ task' = [task EXCEPT ![f] = "put"]
              /\ UNCHANGED <<world, film, disk, prov, pub, th, nq, out, workers>>
\* The checkpoint goes only after the translation has been published.
Publish(f) == /\ task[f] = "put" /\ out[f] # <<>>
              /\ IF Head(out[f]) # "translated"
                 THEN task' = [task EXCEPT ![f] = "taken"] /\ UNCHANGED <<disk, world>>
                 ELSE \/ /\ task' = [task EXCEPT ![f] = "published"]
                         /\ disk' = [disk EXCEPT ![f] = Blank(f)] /\ UNCHANGED world
                      \/ /\ Trouble /\ task' = [task EXCEPT ![f] = "taken"]
                         /\ UNCHANGED disk
              /\ UNCHANGED <<film, prov, pub, th, reqs, nq, out, workers>>

Cancel == /\ stop.at = "none" /\ Trouble /\ stop' = [NoStop EXCEPT !.at = "flag"]
          /\ UNCHANGED <<film, disk, prov, pub, th, books, reg, live, lock>>
\* The workers are taken under the spawn lock and torn down outside it.
CancelGrab == /\ stop.at = "flag" /\ ~lock
              /\ stop' = [at |-> "grab", took |-> reg] /\ reg' = {}
              /\ UNCHANGED <<world, film, disk, prov, pub, th, books, live, lock>>
\* Mutation of CancelEnds: no mark is left in the queue of requests.
CancelEndsQuiet == /\ stop.at = "grab"
                   /\ live' = live \ stop.took /\ stop' = [at |-> "done", took |-> {}]
                   /\ UNCHANGED <<world, film, disk, prov, pub, th, books, reg, lock>>
CancelEnds == /\ stop.at = "grab"
              /\ live' = live \ stop.took /\ stop' = [at |-> "done", took |-> {}]
              /\ reqs' = Append(reqs, 0)
              /\ UNCHANGED <<world, film, disk, prov, pub, th, nq, out, task, reg, lock>>

\* The next run, after a stop or after the agent has died: only the checkpoints
\* and the published files are left of this one.
Restart == /\ Trouble /\ UNCHANGED disk
           /\ film' = [f \in Films |-> NewFilm(f)]
           /\ prov' = [p \in Providers |-> Fresh] /\ pub' = <<>> /\ th' = Rest
           /\ reqs' = <<>> /\ nq' = 0 /\ reg' = {} /\ live' = {} /\ lock' = FALSE
           /\ stop' = NoStop /\ out' = [f \in Films |-> <<>>]
           /\ task' = [f \in Films |-> IF task[f] = "published" THEN task[f] ELSE "fresh"]

-----------------------------------------------------------------------------
\* The configuration, the services and time.

SaveConfig == /\ Fault /\ conf' \in Chains \ {conf}
              /\ UNCHANGED <<svc, film, disk, prov, pub, th, books, workers>>
Outage == /\ Fault
          /\ \E p \in Providers, why \in {"down", "account"} :
               svc[p] = "up" /\ svc' = [svc EXCEPT ![p] = why]
          /\ UNCHANGED <<conf, film, disk, prov, pub, th, books, workers>>
\* A key or a credit is put right by a person: not within one attempt.
Recovery == /\ \E p \in Providers : /\ svc[p] # "up"
                                    /\ svc[p] = "account" => th.batch = {}
                                    /\ svc' = [svc EXCEPT ![p] = "up"]
            /\ UNCHANGED <<conf, faults, film, disk, prov, pub, th, books, workers>>
\* A tick is minutes: it passes between batches and where the thread waits, not
\* between the answer of a probe and the step taken on it.
Tick == /\ th.pc \in {"idle", "work", "sleep", "leafsleep"}
        /\ \/ \E p \in Providers : prov[p].open > 0
           \/ \E f \in Deferred : ~Late(f)
        /\ prov' = [p \in Providers |->
                      [prov[p] EXCEPT !.open = IF @ > 0 THEN @ - 1 ELSE @,
                                      !.probed = FALSE]]
        /\ film' = [f \in Films |->
                      IF f \in Deferred /\ ~Late(f)
                      THEN [film[f] EXCEPT !.waited = @ + 1] ELSE film[f]]
        /\ Goto(IF th.pc = "idle" THEN "next" ELSE th.pc)
        /\ UNCHANGED <<world, disk, pub, books, workers>>

Attempting == TopOk \/ TopFails \/ Sleep \/ RetryOk \/ RetryFails \/ Check \/ CheckOk
              \/ ProbeFails \/ Part \/ PartOk \/ PartFails \/ LeafSleep \/ LeafOk
              \/ LeafFails \/ LeafProbeOk \/ Confirm \/ ConfirmOk \/ Split
Choosing == Work \/ WorkEnds \/ Plan \/ NextFilm \/ Revisit \/ ProbeEnds \/ PickNext
            \/ Wake \/ Get \/ \E f \in Films : GiveBack(f)
Thread == Attempting \/ Choosing \/ EnsureWorker \/ Spawned \/ Forget \/ Raise
          \/ ThreadEnds
Task == CancelGrab \/ CancelEnds \/ \E f \in Films : Enqueue(f) \/ Publish(f)
World == SpawnFails \/ WorkerLost \/ SaveConfig \/ Outage \/ Recovery
Next == Thread \/ Task \/ World \/ Tick \/ Cancel \/ Restart
        \/ \E f \in Films : Submit(f)

FairSpec == Init /\ [][Next]_vars /\ WF_vars(Thread) /\ WF_vars(Task) /\ WF_vars(Tick)

-----------------------------------------------------------------------------
Queued == LET waiting == nq + Cardinality(Deferred)
          IN IF Deferred # {} /\ \A f \in Films : film[f].at # "working"
             THEN waiting - 1 ELSE waiting
InFlight == Deferred # {} \/ \E f \in Films : film[f].at = "working"

\* While a film that was submitted has no result, the translator never looks
\* idle: the task ends its run when queued() and in_flight() report nothing
\* (translate.py:616-633, 846-881).
NeverLooksIdle == (~Cancelled /\ Queued = 0 /\ ~InFlight) =>
                    \A f \in Films : task[f] \in {"counted", "put"} => out[f] # <<>>

\* A film is given back once in a run, whatever it waited for (846-881).
OneResult == \A f \in Films : Len(out[f]) <= 1

\* A line is held against a service for good only when it is the line: never for
\* an outage that came in the middle of a batch (1265-1347).
RefusalsReal == \A f \in Films : \A c \in Cues(f) : \A p \in disk[f].refused[c] :
                  <<p, f, c>> \in Refuses

\* A film is published with a line left in Japanese only when every service of the
\* chain the thread has read has failed that line (511-516, 1038-1069).
KeptWhenAllFailed ==
    [][\A f \in Films : (out'[f] # out[f] /\ out'[f] # <<>> /\ Last(out'[f]) = "translated")
         => \A c \in Cues(f) : film[f].zh[c] # Nobody
                               \/ (pub # <<>> /\ ToSet(pub) \subseteq Without(f, c))]_vars

\* What the checkpoint has of a film is never lost before the film is published,
\* across stops, deaths of the agent and failed writes (checkpoint.py:160-212).
CheckpointKept ==
    [][\A f \in Films : \/ task'[f] = "published"
                        \/ \A c \in Cues(f) :
                             /\ disk[f].zh[c] # Nobody => disk'[f].zh[c] = disk[f].zh[c]
                             /\ disk[f].refused[c] \subseteq disk'[f].refused[c]]_vars

\* Every film that is submitted gets a result, though no service ever recovers,
\* unless the run is stopped (907-940).
Settles == \A f \in Films : (task[f] = "put") ~> (out[f] # <<>> \/ Cancelled \/ task[f] # "put")

\* A stop ends the thread, wherever it waits, and leaves no worker behind.
StopEnds == Cancelled ~> (~Cancelled \/ (th.pc = "ended" /\ live = {}))

\* The task can trust the books: idle means done, a result comes once, and a
\* refusal is the line's own.
BooksTrue == NeverLooksIdle /\ OneResult /\ RefusalsReal

\* No line is given up too early, and none that was won is lost.
LinesKept == KeptWhenAllFailed /\ CheckpointKept

\* Every film and every stop comes to an end.
FilmsEnd == Settles /\ StopEnds
=============================================================================
