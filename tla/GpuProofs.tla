----------------------------- MODULE GpuProofs ------------------------------
(***************************************************************************)
(* That the GPU is one task's at a time and that a subtitle run holds it   *)
(* for its child, for any set of tasks and films and all bounds.  The      *)
(* argument for the run: who holds the GPU has a child, is about to make   *)
(* or to give back one, or is being stopped; a child is the recorded job   *)
(* but while it is made; and what gives a run up, an abort or an error,    *)
(* leaves work behind that is done before the run may wait again.          *)
(***************************************************************************)
EXTENDS MCGpu, FiniteSetTheorems, WellFoundedInduction, TLAPS

Places == {"off", "rest", "start", "results", "poll", "retry", "retried", "done"}
Points == {"phase", "texts", "deferred", "dispatch", "take", "record", "held", "spawned", "give"}
Ends == {"none", "open"} \cup Terminal

Entry == [kind : {"cleanup", "stop"}, job : Films \cup {None}]
Books == [settled : [Films -> Ends], strikes : Nat, disabled : BOOLEAN, only : Seq(Films),
          cleanup : Seq(Entry)]

\* After an abort no job is open, and a clean-up is that of an abort.
BookTrue(b) ==
    /\ b \in Books
    /\ b.disabled => \A f \in Films : b.settled[f] # "open"
    /\ \A i \in DOMAIN b.cleanup : b.cleanup[i].kind = "cleanup" => b.disabled

BookInv == BookTrue(Book)

Types ==
    /\ at \in Places /\ pc \in Points
    /\ stopper \in {"none", "flagged", "cancelled", "over"} /\ lease \in {"free", "us", "other"}
    /\ child \in Films \cup {None} /\ asrJob \in Films \cup {None}
    /\ asr \in {"none", "live", "stuck"} \cup Exited
    /\ held \in BOOLEAN /\ queued \in BOOLEAN /\ waiting \in BOOLEAN /\ survivor \in BOOLEAN
    /\ stopping \in BOOLEAN /\ error \in BOOLEAN /\ advance \in BOOLEAN

\* Where the thread is in a check, and whether a stop has come.
PlaceInv ==
    /\ at \in {"off", "rest", "retried", "done"} => pc = "phase"
    /\ stopper # "none" => stopping
    /\ stopping /\ pc \in {"take", "record", "held", "spawned"} => stopper # "none"
    /\ pc = "take" => ~disabled /\ ~error
    /\ pc \in {"held", "spawned"} => film \in Films

\* A child is the job on record, but while it is made.
ChildInv ==
    /\ child = None <=> asr = "none"
    /\ survivor => child # None
    /\ asr = "stuck" => survivor
    /\ pc # "spawned" => child = asrJob
    /\ pc = "spawned" => child \in {None, film} /\ asrJob \in {None, film}
    /\ pc = "spawned" /\ ~stopping => child = film /\ asr = "live"
    /\ pc \in {"take", "record", "held"} => child = None
    /\ stopper = "over" /\ child # None => survivor \/ pc = "spawned"

\* Who holds the GPU has a use for it, or is being stopped.
HoldInv ==
    /\ held => lease = "us"
    /\ lease = "us" => held \/ pc = "record"
    /\ pc = "record" => lease = "us"
    /\ pc \in {"take", "record"} => ~held
    /\ pc \in {"held", "spawned"} /\ ~stopping => held
    /\ AsrLive /\ ~stopping /\ ~disabled => held
    /\ held => child # None \/ pc \in {"held", "give"} \/ stopper \in {"flagged", "cancelled"}
    /\ held /\ stopping =>
         stopper \in {"flagged", "cancelled"} \/ (pc \in {"held", "give"} /\ child = None)

\* Who waits for the GPU has no child, and comes again; what ends that is
\* followed by work that ends the wait.
WaitInv ==
    /\ queued => child = None /\ pc \notin {"record", "held", "spawned"} /\ stopper # "over"
    /\ cleanup # <<>> => pc \in {"texts", "give", "deferred"}
    /\ queued /\ (disabled \/ error) => cleanup # <<>>
    /\ queued /\ ~waiting => (at = "retry" /\ pc # "phase") \/ at = "retried" \/ cleanup # <<>>

IInv == Types /\ BookInv /\ PlaceInv /\ ChildInv /\ HoldInv /\ WaitInv

-----------------------------------------------------------------------------
(* The queue of films.                                                     *)

LEMMA Least ==
    ASSUME NEW S \in SUBSET Nat, S # {}
    PROVE  \E x \in S : \A y \in S : x <= y
<1> DEFINE R == OpToRel(<, Nat)
<1>1. IsWellFoundedOn(R, Nat)
  BY NatLessThanWellFounded
<1> HIDE DEF R
<1>2. PICK x \in S : \A y \in S : ~ (<<y, x>> \in R)
  BY <1>1, WFMin
<1>3. ASSUME NEW y \in S PROVE x <= y
  <2>1. ~ (y < x)
    BY <1>2 DEF R, OpToRel
  <2> QED BY <2>1, x \in Nat, y \in Nat
<1> QED BY <1>3

Rising(s) == \A i, j \in DOMAIN s : i < j => s[i] < s[j]
Ordered(S) == \E s \in [1 .. Cardinality(S) -> S] : Rising(s)

\* A set of films has an order by name: a smallest set without one, less its
\* first film, has one.
LEMMA HasOrder ==
    ASSUME NEW T \in SUBSET Nat, IsFiniteSet(T)
    PROVE  Ordered(T)
<1> DEFINE Bad == {n \in Nat : \E S \in SUBSET T : Cardinality(S) = n /\ ~Ordered(S)}
<1>1. SUFFICES ASSUME Bad # {} PROVE FALSE
  <2>1. Cardinality(T) \in Nat
    BY FS_CardinalityType
  <2> QED BY <2>1
<1>2. PICK n \in Bad : \A m \in Bad : n <= m
  BY <1>1, Least
<1>3. PICK S \in SUBSET T : Cardinality(S) = n /\ ~Ordered(S)
  BY <1>2
<1>4. IsFiniteSet(S)
  BY FS_Subset
<1>5. S # {}
  <2>1. SUFFICES ASSUME S = {} PROVE FALSE
    OBVIOUS
  <2>2. Cardinality(S) = 0
    BY <2>1, FS_EmptySet
  <2>3. [i \in 1 .. 0 |-> 0] \in [1 .. 0 -> S] /\ Rising([i \in 1 .. 0 |-> 0])
    BY DEF Rising
  <2> QED BY <1>3, <2>2, <2>3 DEF Ordered
<1>6. PICK x \in S : \A y \in S : x <= y
  BY <1>5, Least
<1> DEFINE R == S \ {x}
<1>7. Cardinality(R) = n - 1 /\ n - 1 \in Nat
  <2>1. IsFiniteSet(R) /\ Cardinality(R) = n - 1
    BY <1>3, <1>4, FS_RemoveElement
  <2> QED BY <2>1, FS_CardinalityType
<1>8. Ordered(R)
  BY <1>2, <1>7
<1>9. PICK r \in [1 .. n - 1 -> R] : Rising(r)
  BY <1>7, <1>8 DEF Ordered
<1> DEFINE s == [i \in 1 .. n |-> IF i = 1 THEN x ELSE r[i - 1]]
<1>10. s \in [1 .. n -> S]
  BY <1>7, <1>9
<1>11. ASSUME NEW i \in 1 .. n, NEW j \in 1 .. n, i < j PROVE s[i] < s[j]
  <2>1. j - 1 \in 1 .. n - 1 /\ r[j - 1] \in R /\ s[j] = r[j - 1]
    BY <1>7, <1>9, <1>11
  <2>2. CASE i = 1
    <3>1. s[i] = x /\ x \in Nat /\ r[j - 1] \in Nat /\ x # r[j - 1] /\ x <= r[j - 1]
      BY <1>6, <2>1, <2>2
    <3> HIDE DEF s
    <3> QED BY <2>1, <3>1
  <2>3. CASE i # 1
    <3>1. i - 1 \in 1 .. n - 1 /\ i - 1 < j - 1 /\ s[i] = r[i - 1]
      BY <1>7, <1>11, <2>3
    <3> QED BY <1>9, <2>1, <3>1 DEF Rising
  <2> QED BY <2>2, <2>3
<1> HIDE DEF s
<1>12. DOMAIN s = 1 .. n
  BY <1>10
<1>13. Rising(s)
  BY <1>11, <1>12 DEF Rising
<1> QED BY <1>3, <1>10, <1>13 DEF Ordered

LEMMA QueueType ==
    ASSUME NEW S \in SUBSET Films
    PROVE  InOrder(S) \in Seq(Films)
<1>1. IsFiniteSet(S) /\ S \subseteq Nat
  BY FS_Subset, FilmsAssumption
<1>2. Cardinality(S) \in Nat
  BY <1>1, FS_CardinalityType
<1>3. InOrder(S) \in [1 .. Cardinality(S) -> S]
  BY <1>1, HasOrder DEF InOrder, Ordered, Rising
<1> QED BY <1>2, <1>3

-----------------------------------------------------------------------------
(* The books.                                                              *)

\* What an entry does to the books: an abort or an error leaves work behind.
Books1(b, c) ==
    /\ BookTrue(c)
    /\ b.disabled => c.disabled
    /\ c.cleanup = <<>> => c.disabled = b.disabled /\ b.cleanup = <<>>

LEMMA Appended ==
    ASSUME NEW q \in Seq(Entry), NEW e \in Entry
    PROVE  /\ Append(q, e) \in Seq(Entry) /\ Append(q, e) # <<>>
           /\ DOMAIN Append(q, e) = 1 .. Len(q) + 1
           /\ \A i \in 1 .. Len(q) : Append(q, e)[i] = q[i]
           /\ Append(q, e)[Len(q) + 1] = e
<1>1. Len(Append(q, e)) = Len(q) + 1 /\ Len(q) \in Nat
  OBVIOUS
<1>2. Append(q, e) # <<>>
  BY <1>1
<1> QED BY <1>1, <1>2

LEMMA AbortTrue ==
    ASSUME NEW b \in Books, asrJob \in Films \cup {None}
    PROVE  /\ BookTrue(Aborted(b)) /\ Aborted(b).disabled
           /\ Aborted(b).cleanup # <<>>
<1> DEFINE c == Aborted(b)
           e == [kind |-> "cleanup", job |-> asrJob]
<1>1. e \in Entry
  BY DEF Entry
<1>2. c.settled = [f \in Films |-> IF b.settled[f] = "open" THEN "skipped" ELSE b.settled[f]]
  BY DEF Aborted, Books
<1>3. c.disabled = TRUE /\ c.only = <<>> /\ c.cleanup = Append(b.cleanup, e)
  BY DEF Aborted, Books
<1>4. c \in Books
  <2> DEFINE S == [f \in Films |-> IF b.settled[f] = "open" THEN "skipped" ELSE b.settled[f]]
  <2>1. S \in [Films -> Ends]
    BY DEF Books, Ends, Terminal
  <2>2. Append(b.cleanup, e) \in Seq(Entry) /\ <<>> \in Seq(Films)
    BY <1>1, Appended DEF Books
  <2>3. c = [b EXCEPT !.disabled = TRUE, !.only = <<>>, !.settled = S,
                      !.cleanup = Append(@, e)]
    BY DEF Aborted
  <2> HIDE DEF c, e, S
  <2> QED BY <2>1, <2>2, <2>3 DEF Books
<1>5. c.cleanup # <<>>
  <2>1. b.cleanup \in Seq(Entry)
    BY DEF Books
  <2> QED BY <1>1, <1>3, <2>1, Appended
<1>6. \A f \in Films : c.settled[f] # "open"
  BY <1>2
<1> HIDE DEF c
<1>7. BookTrue(c)
  BY <1>3, <1>4, <1>6 DEF BookTrue
<1> QED BY <1>3, <1>5, <1>7 DEF c

LEMMA SettleTrue ==
    ASSUME IInv, NEW f, NEW how \in Terminal, NEW counts \in BOOLEAN
    PROVE  Books1(Book, Settle(Book, f, how, counts))
<1> DEFINE b == Book
           n == CASE how = "completed" -> 0
                  [] how = "failed" /\ counts -> b.strikes + 1
                  [] OTHER -> b.strikes
           c == [b EXCEPT !.settled[f] = how, !.strikes = n]
<1>1. b \in Books /\ BookTrue(b)
  BY DEF IInv, BookInv, BookTrue
<1>2. CASE b.settled[f] # "open"
  BY <1>1, <1>2 DEF Settle, Books1
<1>3. CASE b.settled[f] = "open"
  <2>1. Settle(b, f, how, counts) = IF n >= DisableAfter /\ ~b.disabled THEN Aborted(c) ELSE c
    BY <1>3 DEF Settle
  <2>2. n \in Nat
    BY <1>1 DEF Books, Terminal
  <2>3. c.settled = [b.settled EXCEPT ![f] = how] /\ c.disabled = b.disabled
        /\ c.cleanup = b.cleanup
    BY <1>1 DEF Books
  <2>4. c \in Books
    <3>1. [b.settled EXCEPT ![f] = how] \in [Films -> Ends]
      BY <1>1 DEF Books, Ends
    <3>2. c = [b EXCEPT !.settled = [b.settled EXCEPT ![f] = how], !.strikes = n]
      BY <1>1
    <3> HIDE DEF n, c, b
    <3> QED BY <1>1, <2>2, <3>1, <3>2 DEF Books
  <2>5. CASE n >= DisableAfter /\ ~b.disabled
    <3>1. asrJob \in Films \cup {None}
      BY DEF IInv, Types
    <3>2. BookTrue(Aborted(c)) /\ Aborted(c).disabled /\ Aborted(c).cleanup # <<>>
      BY <2>4, <3>1, AbortTrue
    <3> QED BY <2>1, <2>5, <3>2 DEF Books1
  <2>6. CASE ~(n >= DisableAfter /\ ~b.disabled)
    <3>1. \A g \in Films : c.settled[g] \in {b.settled[g], how}
      BY <1>1, <2>3 DEF Books
    <3>2. how # "open"
      BY DEF Terminal
    <3> HIDE DEF c, b, n
    <3>3. BookTrue(c)
      BY <1>1, <2>3, <2>4, <3>1, <3>2 DEF BookTrue
    <3> QED BY <2>1, <2>3, <2>6, <3>3 DEF Books1, b
  <2> QED BY <2>5, <2>6
<1> QED BY <1>2, <1>3

LEMMA WithoutKeyTrue ==
    ASSUME IInv, NEW f
    PROVE  Books1(Book, WithoutKey(Book, f))
<1> DEFINE c == Settle(Book, f, "skipped", TRUE)
           d == [c EXCEPT !.strikes = 0]
<1>1. Books1(Book, c)
  BY SettleTrue DEF Terminal
<1>2. WithoutKey(Book, f) = d
  BY DEF WithoutKey
<1> HIDE DEF c
<1>3. /\ d = [settled |-> c.settled, strikes |-> 0, disabled |-> c.disabled,
              only |-> c.only, cleanup |-> c.cleanup]
      /\ d \in Books
  BY <1>1 DEF Books1, BookTrue, Books
<1> QED BY <1>1, <1>2, <1>3 DEF Books1, BookTrue

LEMMA UnreachableTrue ==
    ASSUME IInv
    PROVE  Books1(Book, Unreachable(Book)) /\ Unreachable(Book).cleanup # <<>>
<1> DEFINE e == [kind |-> "stop", job |-> None]
           c == Unreachable(Book)
           q == Book.cleanup
<1>1. Book \in Books /\ BookTrue(Book) /\ e \in Entry
  BY DEF IInv, BookInv, BookTrue, Entry
<1>2. c = [Book EXCEPT !.cleanup = Append(q, e)]
  BY DEF Unreachable
<1>3. q \in Seq(Entry) /\ e.kind = "stop"
  BY <1>1 DEF Books
<1> HIDE DEF e, c, q
<1>4. /\ Append(q, e) \in Seq(Entry) /\ Append(q, e) # <<>>
      /\ DOMAIN Append(q, e) = 1 .. Len(q) + 1
      /\ \A i \in 1 .. Len(q) : Append(q, e)[i] = q[i]
      /\ Append(q, e)[Len(q) + 1] = e
  BY <1>1, <1>3, Appended
<1>5. c \in Books /\ c.settled = Book.settled /\ c.disabled = Book.disabled
      /\ c.cleanup = Append(q, e)
  BY <1>1, <1>2, <1>4 DEF Books
<1>6. \A i \in DOMAIN Append(q, e) : Append(q, e)[i].kind = "cleanup" => Book.disabled
  <2>1. \A i \in 1 .. Len(q) : q[i].kind = "cleanup" => Book.disabled
    BY <1>1, <1>3 DEF BookTrue, q
  <2>2. ASSUME NEW i \in 1 .. Len(q) + 1, Append(q, e)[i].kind = "cleanup"
        PROVE  Book.disabled
    <3>1. i \in 1 .. Len(q) \/ i = Len(q) + 1
      BY <1>3
    <3> QED BY <1>3, <1>4, <2>1, <2>2, <3>1
  <2> QED BY <1>4, <2>2
<1> QED BY <1>1, <1>4, <1>5, <1>6 DEF Books1, BookTrue, c

\* What a step makes of the books, and of error with them.
BookStep ==
    /\ BookInv'
    /\ disabled => disabled'
    /\ cleanup' = <<>> => disabled' = disabled /\ cleanup = <<>>

LEMMA Kept ==
    ASSUME IInv, NEW c, Books1(Book, c), Keep(c)
    PROVE  BookStep
<1>1. Book' = c
  BY DEF Keep, Book, Books1, BookTrue, Books
<1> QED BY <1>1 DEF BookStep, BookInv, Books1, Book

LEMMA SettleKeeps ==
    ASSUME IInv, NEW f, NEW how \in Terminal, NEW counts \in BOOLEAN,
           Keep(Settle(Book, f, how, counts))
    PROVE  BookStep
BY SettleTrue, Kept

LEMMA WithoutKeyKeeps ==
    ASSUME IInv, NEW f, Keep(WithoutKey(Book, f))
    PROVE  BookStep
BY WithoutKeyTrue, Kept

LEMMA GoneKeeps ==
    ASSUME IInv, LibraryGone
    PROVE  BookStep /\ error' = TRUE /\ cleanup' # <<>>
<1>1. Keep(Unreachable(Book)) /\ error' = TRUE
  BY DEF LibraryGone
<1>2. cleanup' # <<>>
  BY <1>1, UnreachableTrue DEF Keep
<1> QED BY <1>1, <1>2, UnreachableTrue, Kept

LEMMA BookSame ==
    ASSUME IInv, UNCHANGED book
    PROVE  BookStep
BY DEF IInv, BookStep, BookInv, BookTrue, Book, book

-----------------------------------------------------------------------------
(* What a step leaves alone.                                               *)

LEMMA TypesKept ==
    ASSUME Types, UNCHANGED <<at, pc, stopper, lease, child, asrJob, asr, held, queued,
                              waiting, survivor, stopping, error, advance>>
    PROVE  Types'
BY DEF Types, None

LEMMA PlaceKept ==
    ASSUME PlaceInv, UNCHANGED <<at, pc, stopper, stopping, disabled, error, film>>
    PROVE  PlaceInv'
BY DEF PlaceInv

LEMMA ChildKept ==
    ASSUME ChildInv, UNCHANGED <<child, asr, survivor, pc, asrJob, film, stopper, stopping>>
    PROVE  ChildInv'
BY DEF ChildInv, None

LEMMA HoldKept ==
    ASSUME HoldInv, UNCHANGED <<held, lease, pc, stopping, asrJob, child, disabled, stopper>>
    PROVE  HoldInv'
BY DEF HoldInv, AsrLive, None

LEMMA WaitKept ==
    ASSUME WaitInv, UNCHANGED <<queued, child, pc, stopper, cleanup, disabled, error, waiting,
                                at>>
    PROVE  WaitInv'
BY DEF WaitInv, None

-----------------------------------------------------------------------------
(* A start.                                                                *)

LEMMA StartKeeps ==
    ASSUME IInv, Start
    PROVE  IInv'
<1>1. BookInv'
  <2> DEFINE S == [f \in Films |-> IF f \in Jobs THEN "open" ELSE "none"]
             b == [settled |-> S, strikes |-> 0, disabled |-> FALSE, only |-> only',
                   cleanup |-> <<>>]
  <2>1. S \in [Films -> Ends]
    BY DEF Ends, Terminal
  <2>2. only' \in Seq(Films)
    BY QueueType DEF Start, Jobs
  <2>3. Book' = b
    BY DEF Start, Reset, Book
  <2> HIDE DEF S
  <2>4. <<>> \in Seq(Entry) /\ DOMAIN <<>> = {}
    OBVIOUS
  <2>5. b \in Books
    BY <2>1, <2>2, <2>4 DEF Books
  <2> HIDE DEF b
  <2>6. BookTrue(b)
    BY <2>4, <2>5 DEF BookTrue, b
  <2> QED BY <2>3, <2>6 DEF BookInv
<1>2. Types'
  <2>1. at' \in Places /\ pc' \in Points
    BY DEF IInv, Types, Places, Points, Start, MayStart, Reset, None, Release, Jobs, Goto
  <2>2. stopper' \in {"none", "flagged", "cancelled", "over"} /\ lease' \in {"free", "us", "other"}
    BY DEF IInv, Types, Start, MayStart, Reset, None, Release, Jobs
  <2>3. /\ child' \in Films \cup {None} /\ asrJob' \in Films \cup {None}
        /\ asr' \in {"none", "live", "stuck"} \cup Exited
    BY DEF IInv, Types, PlaceInv, Start, MayStart, Reset, None, Release, Jobs
  <2>4. /\ held' \in BOOLEAN /\ queued' \in BOOLEAN /\ waiting' \in BOOLEAN /\ survivor' \in BOOLEAN
        /\ stopping' \in BOOLEAN /\ error' \in BOOLEAN /\ advance' \in BOOLEAN
    BY DEF IInv, Types, Start, MayStart, Reset, None, Release, Jobs
  <2> QED BY <2>1, <2>2, <2>3, <2>4 DEF Types
<1>3. PlaceInv'
  BY DEF IInv, Types, PlaceInv, BookInv, BookTrue, Books, Book, Entry, Start, MayStart, Reset,
         None, Release, Jobs, Goto
<1>4. ChildInv'
  BY DEF IInv, Types, ChildInv, Start, MayStart, Reset, None, Release, Jobs, Goto
<1>5. HoldInv'
  BY DEF IInv, Types, HoldInv, PlaceInv, ChildInv, Start, MayStart, Reset, None, Release,
         Jobs, Goto, AsrLive
<1>6. WaitInv'
  BY DEF IInv, Types, WaitInv, BookInv, BookTrue, Books, Book, Entry, Start, MayStart, Reset,
         None, Release, Jobs
<1> QED BY <1>1, <1>2, <1>3, <1>4, <1>5, <1>6 DEF IInv

LEMMA StartFailsKeeps ==
    ASSUME IInv, StartFails
    PROVE  IInv'
<1>1. BookInv'
  <2>1. PICK s \in {"open", "skipped"} :
          settled' = [f \in Films |-> IF f \in Jobs THEN s ELSE "none"]
    BY DEF StartFails
  <2> DEFINE S == [f \in Films |-> IF f \in Jobs THEN s ELSE "none"]
             b == [settled |-> S, strikes |-> 0, disabled |-> FALSE, only |-> only',
                   cleanup |-> <<>>]
  <2>2. S \in [Films -> Ends]
    BY DEF Ends, Terminal
  <2>3. only' \in Seq(Films)
    BY DEF StartFails
  <2>4. Book' = b
    BY <2>1 DEF StartFails, Reset, Book
  <2> HIDE DEF S
  <2>5. <<>> \in Seq(Entry) /\ DOMAIN <<>> = {}
    OBVIOUS
  <2>6. b \in Books
    BY <2>2, <2>3, <2>5 DEF Books
  <2> HIDE DEF b
  <2>7. BookTrue(b)
    BY <2>5, <2>6 DEF BookTrue, b
  <2> QED BY <2>4, <2>7 DEF BookInv
<1>2. Types'
  <2>1. at' \in Places /\ pc' \in Points
    BY DEF IInv, Types, Places, Points, StartFails, MayStart, Reset, None, Release, Jobs, Goto
  <2>2. stopper' \in {"none", "flagged", "cancelled", "over"} /\ lease' \in {"free", "us", "other"}
    BY DEF IInv, Types, StartFails, MayStart, Reset, None, Release, Jobs
  <2>3. /\ child' \in Films \cup {None} /\ asrJob' \in Films \cup {None}
        /\ asr' \in {"none", "live", "stuck"} \cup Exited
    BY DEF IInv, Types, PlaceInv, StartFails, MayStart, Reset, None, Release, Jobs
  <2>4. /\ held' \in BOOLEAN /\ queued' \in BOOLEAN /\ waiting' \in BOOLEAN /\ survivor' \in BOOLEAN
        /\ stopping' \in BOOLEAN /\ error' \in BOOLEAN /\ advance' \in BOOLEAN
    BY DEF IInv, Types, StartFails, MayStart, Reset, None, Release, Jobs
  <2> QED BY <2>1, <2>2, <2>3, <2>4 DEF Types
<1>3. PlaceInv'
  BY DEF IInv, Types, PlaceInv, BookInv, BookTrue, Books, Book, Entry, StartFails, MayStart,
         Reset, None, Release, Jobs, Goto
<1>4. ChildInv'
  BY DEF IInv, Types, ChildInv, StartFails, MayStart, Reset, None, Release, Jobs, Goto
<1>5. HoldInv'
  BY DEF IInv, Types, HoldInv, PlaceInv, ChildInv, StartFails, MayStart, Reset, None, Release,
         Jobs, Goto, AsrLive
<1>6. WaitInv'
  BY DEF IInv, Types, WaitInv, BookInv, BookTrue, Books, Book, Entry, StartFails, MayStart,
         Reset, None, Release, Jobs
<1> QED BY <1>1, <1>2, <1>3, <1>4, <1>5, <1>6 DEF IInv

LEMMA HandTextKeeps ==
    ASSUME IInv, HandText
    PROVE  IInv'
<1>1. BookStep
  BY SettleKeeps, WithoutKeyKeeps, GoneKeeps, BookSame
     DEF Terminal, HandText, Hand, HandEmpty, SkipExisting, flags
<1>2. PlaceInv'
  BY <1>1
     DEF IInv, Types, PlaceInv, BookStep, HandText, Hand, HandEmpty, SkipExisting, job, flags,
         gpu, place, None
<1>3. HoldInv'
  BY <1>1
     DEF IInv, Types, HoldInv, BookStep, HandText, Hand, HandEmpty, SkipExisting, asrVars,
         job, flags, gpu, place, AsrLive, None
<1>4. WaitInv'
  BY <1>1
     DEF IInv, Types, WaitInv, BookStep, HandText, Hand, HandEmpty, SkipExisting, asrVars,
         job, flags, gpu, place, None
<1>5. Types' /\ ChildInv'
  BY TypesKept, ChildKept
     DEF IInv, HandText, Hand, HandEmpty, SkipExisting, asrVars, job, flags, gpu, place
<1> QED BY <1>1, <1>2, <1>3, <1>4, <1>5 DEF IInv, BookStep

LEMMA TextsDoneKeeps ==
    ASSUME IInv, TextsDone
    PROVE  IInv'
<1>1. BookStep
  BY BookSame DEF TextsDone
<1>2. Types'
  BY DEF IInv, Types, TextsDone, Goto, asrVars, job, flags, gpu, Places, Points, None
<1>3. PlaceInv'
  BY <1>1 DEF IInv, Types, PlaceInv, BookStep, TextsDone, Goto, job, flags, gpu, None
<1>4. ChildInv'
  BY DEF IInv, Types, ChildInv, TextsDone, Goto, asrVars, job, flags, gpu, None
<1>5. HoldInv'
  BY <1>1
     DEF IInv, Types, HoldInv, BookStep, TextsDone, Goto, asrVars, job, flags, gpu, AsrLive,
         None
<1>6. WaitInv'
  BY <1>1 DEF IInv, Types, WaitInv, BookStep, TextsDone, Goto, asrVars, job, flags, gpu, None
<1> QED BY <1>1, <1>2, <1>3, <1>4, <1>5, <1>6 DEF IInv, BookStep

-----------------------------------------------------------------------------
(* Deferred work and the dispatch loop.                                    *)

LEMMA RunCleanupKeeps ==
    ASSUME IInv, RunCleanup
    PROVE  IInv'
<1>1. BookInv'
  BY DEF IInv, BookInv, BookTrue, Books, Book, Entry, RunCleanup, Cancels, job, None, Leaves,
         Killed, LetGo, Release, flags, place
<1>2. Types'
  <2>1. at' \in Places /\ pc' \in Points
    BY DEF IInv, Types, RunCleanup, Cancels, job, None, Leaves, Killed, LetGo, Release, flags,
           place
  <2>2. stopper' \in {"none", "flagged", "cancelled", "over"} /\ lease' \in {"free", "us", "other"}
    BY DEF IInv, Types, RunCleanup, Cancels, job, None, Leaves, Killed, LetGo, Release, flags,
           place
  <2>3. /\ child' \in Films \cup {None} /\ asrJob' \in Films \cup {None}
        /\ asr' \in {"none", "live", "stuck"} \cup Exited
    BY DEF IInv, Types, PlaceInv, RunCleanup, Cancels, job, None, Leaves, Killed, asrVars,
           LetGo, Release, flags, place
  <2>4. /\ held' \in BOOLEAN /\ queued' \in BOOLEAN /\ waiting' \in BOOLEAN /\ survivor' \in BOOLEAN
        /\ stopping' \in BOOLEAN /\ error' \in BOOLEAN /\ advance' \in BOOLEAN
    BY DEF IInv, Types, RunCleanup, Cancels, job, None, Leaves, Killed, LetGo, Release, flags,
           place
  <2> QED BY <2>1, <2>2, <2>3, <2>4 DEF Types
<1>3. ChildInv'
  BY DEF IInv, Types, ChildInv, RunCleanup, Cancels, job, None, Leaves, Killed, asrVars,
         LetGo, Release, flags, place
<1>4. HoldInv'
  BY DEF IInv, Types, HoldInv, BookInv, BookTrue, Books, Book, Entry, RunCleanup, Cancels,
         job, None, Leaves, Killed, LetGo, Release, flags, place, AsrLive
<1>5. WaitInv'
  BY DEF IInv, Types, WaitInv, BookInv, BookTrue, Books, Book, Entry, RunCleanup, Cancels,
         job, None, Leaves, Killed, LetGo, Release, flags, place
<1>6. PlaceInv'
  BY PlaceKept
     DEF IInv, RunCleanup, Cancels, job, None, Leaves, Killed, LetGo, Release, flags, place
<1> QED BY <1>1, <1>2, <1>3, <1>4, <1>5, <1>6 DEF IInv

LEMMA RunStopKeeps ==
    ASSUME IInv, RunStop
    PROVE  IInv'
<1>1. BookInv'
  BY DEF IInv, BookInv, BookTrue, Books, Book, Entry, RunStop, Cancels, Leaves, StopAsr,
         AsrLive, None, LetGo, Release, place
<1>2. Types'
  <2>1. at' \in Places /\ pc' \in Points
    BY DEF IInv, Types, RunStop, Cancels, Leaves, StopAsr, AsrLive, None, LetGo, Release,
           place
  <2>2. stopper' \in {"none", "flagged", "cancelled", "over"} /\ lease' \in {"free", "us", "other"}
    BY DEF IInv, Types, RunStop, Cancels, Leaves, StopAsr, AsrLive, None, LetGo, Release,
           place
  <2>3. /\ child' \in Films \cup {None} /\ asrJob' \in Films \cup {None}
        /\ asr' \in {"none", "live", "stuck"} \cup Exited
    BY DEF IInv, Types, PlaceInv, RunStop, Cancels, Leaves, StopAsr, AsrLive, None, LetGo,
           Release, place
  <2>4. /\ held' \in BOOLEAN /\ queued' \in BOOLEAN /\ waiting' \in BOOLEAN /\ survivor' \in BOOLEAN
        /\ stopping' \in BOOLEAN /\ error' \in BOOLEAN /\ advance' \in BOOLEAN
    BY DEF IInv, Types, RunStop, Cancels, Leaves, StopAsr, AsrLive, None, LetGo, Release,
           place
  <2> QED BY <2>1, <2>2, <2>3, <2>4 DEF Types
<1>3. PlaceInv'
  BY DEF IInv, Types, PlaceInv, BookInv, BookTrue, Books, Book, Entry, RunStop, Cancels,
         Leaves, StopAsr, AsrLive, None, LetGo, Release, place
<1>4. ChildInv'
  BY DEF IInv, Types, ChildInv, RunStop, Cancels, Leaves, StopAsr, AsrLive, None, LetGo,
         Release, place
<1>5. HoldInv'
  BY DEF IInv, Types, HoldInv, RunStop, Cancels, Leaves, StopAsr, AsrLive, None, LetGo,
         Release, place
<1>6. WaitInv'
  BY DEF IInv, Types, WaitInv, BookInv, BookTrue, Books, Book, Entry, RunStop, Cancels,
         Leaves, StopAsr, AsrLive, None, LetGo, Release, place
<1> QED BY <1>1, <1>2, <1>3, <1>4, <1>5, <1>6 DEF IInv

LEMMA DeferredDoneKeeps ==
    ASSUME IInv, DeferredDone
    PROVE  IInv'
<1>1. BookStep
  BY BookSame DEF DeferredDone
<1>2. Types'
  BY DEF IInv, Types, DeferredDone, Goto, asrVars, job, flags, gpu, Places, Points, None
<1>3. PlaceInv'
  BY <1>1 DEF IInv, Types, PlaceInv, BookStep, DeferredDone, Goto, job, flags, gpu, None
<1>4. ChildInv'
  BY DEF IInv, Types, ChildInv, DeferredDone, Goto, asrVars, job, flags, gpu, None
<1>5. HoldInv'
  BY <1>1
     DEF IInv, Types, HoldInv, BookStep, DeferredDone, Goto, asrVars, job, flags, gpu,
         AsrLive, None
<1>6. WaitInv'
  BY <1>1
     DEF IInv, Types, WaitInv, BookStep, DeferredDone, Goto, asrVars, book, job, flags, gpu,
         None
<1> QED BY <1>1, <1>2, <1>3, <1>4, <1>5, <1>6 DEF IInv, BookStep

LEMMA DispatchEndsKeeps ==
    ASSUME IInv, DispatchEnds
    PROVE  IInv'
<1>1. BookStep
  BY BookSame DEF DispatchEnds
<1>2. Types'
  BY DEF IInv, Types, DispatchEnds, Goto, After, asrVars, job, flags, gpu, Places, Points,
         None
<1>3. PlaceInv'
  BY <1>1
     DEF IInv, Types, PlaceInv, BookStep, DispatchEnds, Goto, After, job, flags, gpu, None
<1>4. ChildInv'
  BY DEF IInv, Types, ChildInv, DispatchEnds, Goto, After, asrVars, job, flags, gpu, None
<1>5. HoldInv'
  BY <1>1
     DEF IInv, Types, HoldInv, BookStep, DispatchEnds, Goto, After, asrVars, job, flags, gpu,
         AsrLive, None
<1>6. WaitInv'
  BY <1>1
     DEF IInv, Types, WaitInv, PlaceInv, BookStep, DispatchEnds, Goto, After, asrVars, book,
         job, flags, gpu, None
<1> QED BY <1>1, <1>2, <1>3, <1>4, <1>5, <1>6 DEF IInv, BookStep

LEMMA AdvanceKeeps ==
    ASSUME IInv, Advance
    PROVE  IInv'
<1>1. BookStep
  BY BookSame DEF Advance
<1>2. Types'
  <2>1. at' \in Places /\ pc' \in Points
    BY DEF IInv, Types, Places, Points, Advance, AsrLive, None, MaybeDone, AllDone, Goto, job
  <2>2. stopper' \in {"none", "flagged", "cancelled", "over"} /\ lease' \in {"free", "us", "other"}
    BY DEF IInv, Types, Advance, AsrLive, None, MaybeDone, AllDone, job
  <2>3. /\ child' \in Films \cup {None} /\ asrJob' \in Films \cup {None}
        /\ asr' \in {"none", "live", "stuck"} \cup Exited
    BY DEF IInv, Types, PlaceInv, Advance, AsrLive, None, MaybeDone, AllDone, asrVars, job
  <2>4. /\ held' \in BOOLEAN /\ queued' \in BOOLEAN /\ waiting' \in BOOLEAN /\ survivor' \in BOOLEAN
        /\ stopping' \in BOOLEAN /\ error' \in BOOLEAN /\ advance' \in BOOLEAN
    BY DEF IInv, Types, Advance, AsrLive, None, MaybeDone, AllDone, job
  <2> QED BY <2>1, <2>2, <2>3, <2>4 DEF Types
<1>3. PlaceInv'
  BY <1>1
     DEF IInv, Types, PlaceInv, BookStep, Advance, AsrLive, None, MaybeDone, AllDone, Goto,
         book, job
<1>4. ChildInv'
  BY DEF IInv, Types, ChildInv, Advance, AsrLive, None, MaybeDone, AllDone, Goto, asrVars, job
<1>5. HoldInv'
  BY <1>1
     DEF IInv, Types, HoldInv, PlaceInv, ChildInv, BookStep, Advance, AsrLive, None,
         MaybeDone, AllDone, Goto, asrVars, job
<1>6. WaitInv'
  BY <1>1
     DEF IInv, Types, WaitInv, BookStep, Advance, AsrLive, None, MaybeDone, AllDone, Goto,
         asrVars, book, job
<1> QED BY <1>1, <1>2, <1>3, <1>4, <1>5, <1>6 DEF IInv, BookStep

LEMMA TakeKeeps ==
    ASSUME IInv, Take
    PROVE  IInv'
<1>1. BookStep
  BY BookSame DEF Take
<1>2. Types'
  <2>1. at' \in Places /\ pc' \in Points
    BY DEF IInv, Types, Places, Points, Take, Goto, job, flags
  <2>2. stopper' \in {"none", "flagged", "cancelled", "over"} /\ lease' \in {"free", "us", "other"}
    BY DEF IInv, Types, Take, job, flags
  <2>3. /\ child' \in Films \cup {None} /\ asrJob' \in Films \cup {None}
        /\ asr' \in {"none", "live", "stuck"} \cup Exited
    BY DEF IInv, Types, PlaceInv, Take, asrVars, job, flags
  <2>4. /\ held' \in BOOLEAN /\ queued' \in BOOLEAN /\ waiting' \in BOOLEAN /\ survivor' \in BOOLEAN
        /\ stopping' \in BOOLEAN /\ error' \in BOOLEAN /\ advance' \in BOOLEAN
    BY DEF IInv, Types, Take, job, flags
  <2> QED BY <2>1, <2>2, <2>3, <2>4 DEF Types
<1>3. PlaceInv'
  BY <1>1 DEF IInv, Types, PlaceInv, BookStep, Take, Goto, job, flags, None
<1>4. ChildInv'
  BY DEF IInv, Types, ChildInv, Take, Goto, asrVars, job, flags, None
<1>5. HoldInv'
  BY <1>1 DEF IInv, Types, HoldInv, BookStep, Take, Goto, asrVars, job, flags, AsrLive, None
<1>6. WaitInv'
  BY <1>1 DEF IInv, Types, WaitInv, BookStep, Take, book, job, flags, None
<1> QED BY <1>1, <1>2, <1>3, <1>4, <1>5, <1>6 DEF IInv, BookStep

LEMMA RecordHoldKeeps ==
    ASSUME IInv, RecordHold
    PROVE  IInv'
<1>1. BookInv'
  <2>1. only' \in Seq(Films)
    <3>1. only \in Seq(Films) /\ (only # <<>> => Tail(only) \in Seq(Films))
      BY DEF IInv, BookInv, BookTrue, Books, Book
    <3> QED BY <3>1 DEF RecordHold
  <2>2. Book' = [Book EXCEPT !.only = only']
    BY DEF RecordHold, Book
  <2> QED BY <2>1, <2>2 DEF IInv, BookInv, BookTrue, Books, Book
<1>2. Types'
  <2>1. at' \in Places /\ pc' \in Points
    BY DEF IInv, Types, Places, Points, RecordHold, Goto, job, flags
  <2>2. stopper' \in {"none", "flagged", "cancelled", "over"} /\ lease' \in {"free", "us", "other"}
    BY DEF IInv, Types, RecordHold, job, flags
  <2>3. /\ child' \in Films \cup {None} /\ asrJob' \in Films \cup {None}
        /\ asr' \in {"none", "live", "stuck"} \cup Exited
    BY DEF IInv, Types, PlaceInv, RecordHold, asrVars, job, flags
  <2>4. /\ held' \in BOOLEAN /\ queued' \in BOOLEAN /\ waiting' \in BOOLEAN /\ survivor' \in BOOLEAN
        /\ stopping' \in BOOLEAN /\ error' \in BOOLEAN /\ advance' \in BOOLEAN
    BY DEF IInv, Types, RecordHold, job, flags
  <2> QED BY <2>1, <2>2, <2>3, <2>4 DEF Types
<1>3. PlaceInv'
  BY DEF IInv, Types, PlaceInv, BookInv, BookTrue, Books, Book, Entry, RecordHold, Goto, job,
         flags, None
<1>4. ChildInv'
  BY DEF IInv, Types, ChildInv, RecordHold, Goto, asrVars, job, flags, None
<1>5. HoldInv'
  BY DEF IInv, Types, HoldInv, PlaceInv, ChildInv, RecordHold, Goto, asrVars, job, flags,
         AsrLive, None
<1>6. WaitInv'
  BY DEF IInv, Types, WaitInv, BookInv, BookTrue, Books, Book, Entry, RecordHold, job, flags,
         None
<1> QED BY <1>1, <1>2, <1>3, <1>4, <1>5, <1>6 DEF IInv

LEMMA RefusedKeeps ==
    ASSUME IInv, Refused
    PROVE  IInv'
<1>1. BookStep
  BY BookSame DEF Refused
<1>2. Types'
  BY DEF IInv, Types, Refused, Goto, asrVars, job, flags, Places, Points, None
<1>3. PlaceInv'
  BY <1>1 DEF IInv, Types, PlaceInv, BookStep, Refused, Goto, job, flags, None
<1>4. ChildInv'
  BY DEF IInv, Types, ChildInv, Refused, Goto, asrVars, job, flags, None
<1>5. HoldInv'
  BY <1>1
     DEF IInv, Types, HoldInv, BookStep, Refused, Goto, asrVars, job, flags, AsrLive, None
<1>6. WaitInv'
  BY <1>1
     DEF IInv, Types, WaitInv, PlaceInv, ChildInv, HoldInv, BookStep, Refused, Goto, asrVars,
         book, job, flags, None, AsrLive
<1> QED BY <1>1, <1>2, <1>3, <1>4, <1>5, <1>6 DEF IInv, BookStep

-----------------------------------------------------------------------------
(* _start_asr and _poll_asr.                                               *)

LEMMA GivenUpKeeps ==
    ASSUME IInv, GivenUp
    PROVE  IInv'
<1>1. BookStep /\ (error' # error => cleanup' # <<>>)
  BY SettleKeeps, WithoutKeyKeeps, GoneKeeps, BookSame
     DEF Terminal, GivenUp, Holding, SkipExisting
<1>2. Types'
  <2>1. at' \in Places /\ pc' \in Points
    BY DEF IInv, Types, Places, Points, GivenUp, Holding, LibraryGone, SkipExisting, Goto,
           job, gpu
  <2>2. stopper' \in {"none", "flagged", "cancelled", "over"} /\ lease' \in {"free", "us", "other"}
    BY DEF IInv, Types, GivenUp, Holding, LibraryGone, SkipExisting, job, gpu
  <2>3. /\ child' \in Films \cup {None} /\ asrJob' \in Films \cup {None}
        /\ asr' \in {"none", "live", "stuck"} \cup Exited
    BY DEF IInv, Types, PlaceInv, GivenUp, Holding, LibraryGone, SkipExisting, asrVars, job,
           gpu
  <2>4. /\ held' \in BOOLEAN /\ queued' \in BOOLEAN /\ waiting' \in BOOLEAN /\ survivor' \in BOOLEAN
        /\ stopping' \in BOOLEAN /\ error' \in BOOLEAN /\ advance' \in BOOLEAN
    BY DEF IInv, Types, GivenUp, Holding, LibraryGone, SkipExisting, job, gpu
  <2> QED BY <2>1, <2>2, <2>3, <2>4 DEF Types
<1>3. PlaceInv'
  BY <1>1
     DEF IInv, Types, PlaceInv, BookStep, GivenUp, Holding, LibraryGone, SkipExisting, Goto,
         job, gpu, None
<1>4. ChildInv'
  BY DEF IInv, Types, ChildInv, GivenUp, Holding, LibraryGone, SkipExisting, Goto, asrVars,
         job, gpu, None
<1>5. HoldInv'
  BY <1>1
     DEF IInv, Types, HoldInv, BookStep, GivenUp, Holding, LibraryGone, SkipExisting, Goto,
         asrVars, job, gpu, AsrLive, None
<1>6. WaitInv'
  BY <1>1
     DEF IInv, Types, WaitInv, BookStep, GivenUp, Holding, LibraryGone, SkipExisting, Goto,
         job, gpu, None
<1> QED BY <1>1, <1>2, <1>3, <1>4, <1>5, <1>6 DEF IInv, BookStep

LEMMA StartAsrKeeps ==
    ASSUME IInv, StartAsr
    PROVE  IInv'
<1>1. BookStep
  BY BookSame DEF StartAsr
<1>2. Types'
  BY DEF IInv, Types, PlaceInv, StartAsr, Holding, AsrStarts, Goto, job, flags, gpu, Places,
         Points, None
<1>3. PlaceInv'
  BY <1>1
     DEF IInv, Types, PlaceInv, BookStep, StartAsr, Holding, AsrStarts, Goto, job, flags, gpu,
         None
<1>4. ChildInv'
  BY FilmsAssumption
     DEF IInv, Types, ChildInv, PlaceInv, HoldInv, StartAsr, Holding, AsrStarts, Goto, job,
         flags, gpu, None, AsrLive
<1>5. HoldInv'
  BY <1>1, FilmsAssumption
     DEF IInv, Types, HoldInv, PlaceInv, ChildInv, BookStep, StartAsr, Holding, AsrStarts,
         Goto, job, flags, gpu, AsrLive, None
<1>6. WaitInv'
  BY <1>1
     DEF IInv, Types, WaitInv, BookStep, StartAsr, Holding, AsrStarts, book, job, flags, gpu,
         None
<1> QED BY <1>1, <1>2, <1>3, <1>4, <1>5, <1>6 DEF IInv, BookStep

LEMMA StartAsrFailsKeeps ==
    ASSUME IInv, StartAsrFails
    PROVE  IInv'
<1>1. BookStep
  BY SettleKeeps, WithoutKeyKeeps, GoneKeeps, BookSame
     DEF Terminal, StartAsrFails, Holding, AsrFails, None, flags
<1>2. Types'
  BY DEF IInv, Types, StartAsrFails, Holding, AsrFails, None, Goto, job, flags, gpu, Places,
         Points
<1>3. PlaceInv'
  BY <1>1
     DEF IInv, Types, PlaceInv, BookStep, StartAsrFails, Holding, AsrFails, None, Goto, job,
         flags, gpu
<1>4. ChildInv'
  BY DEF IInv, Types, ChildInv, StartAsrFails, Holding, AsrFails, None, Goto, job, flags, gpu
<1>5. HoldInv'
  BY <1>1
     DEF IInv, Types, HoldInv, BookStep, StartAsrFails, Holding, AsrFails, None, Goto, job,
         flags, gpu, AsrLive
<1>6. WaitInv'
  BY <1>1
     DEF IInv, Types, WaitInv, BookStep, StartAsrFails, Holding, AsrFails, None, Goto, job,
         flags, gpu
<1> QED BY <1>1, <1>2, <1>3, <1>4, <1>5, <1>6 DEF IInv, BookStep

LEMMA SpawnedKeeps ==
    ASSUME IInv, Spawned
    PROVE  IInv'
<1>1. BookStep
  BY BookSame DEF Spawned
<1>2. Types'
  <2>1. at' \in Places /\ pc' \in Points
    BY DEF IInv, Types, Places, Points, Spawned, KillForStop, Leaves, Killed, None, Goto,
           flags, gpu
  <2>2. stopper' \in {"none", "flagged", "cancelled", "over"} /\ lease' \in {"free", "us", "other"}
    BY DEF IInv, Types, Spawned, KillForStop, Leaves, Killed, None, flags, gpu
  <2>3. /\ child' \in Films \cup {None} /\ asrJob' \in Films \cup {None}
        /\ asr' \in {"none", "live", "stuck"} \cup Exited
    BY DEF IInv, Types, PlaceInv, Spawned, KillForStop, Leaves, Killed, None, asrVars, flags,
           gpu
  <2>4. /\ held' \in BOOLEAN /\ queued' \in BOOLEAN /\ waiting' \in BOOLEAN /\ survivor' \in BOOLEAN
        /\ stopping' \in BOOLEAN /\ error' \in BOOLEAN /\ advance' \in BOOLEAN
    BY DEF IInv, Types, Spawned, KillForStop, Leaves, Killed, None, flags, gpu
  <2> QED BY <2>1, <2>2, <2>3, <2>4 DEF Types
<1>3. PlaceInv'
  BY <1>1
     DEF IInv, Types, PlaceInv, BookStep, Spawned, KillForStop, Leaves, Killed, None, Goto,
         flags, gpu
<1>4. ChildInv'
  BY FilmsAssumption
     DEF IInv, Types, ChildInv, PlaceInv, Spawned, KillForStop, Leaves, Killed, None, asrVars,
         Goto, flags, gpu
<1>5. HoldInv'
  BY <1>1, FilmsAssumption
     DEF IInv, Types, HoldInv, BookStep, Spawned, KillForStop, Leaves, Killed, None, Goto,
         flags, gpu, AsrLive
<1>6. WaitInv'
  BY <1>1
     DEF IInv, Types, WaitInv, BookStep, Spawned, KillForStop, Leaves, Killed, None, book,
         flags, gpu
<1> QED BY <1>1, <1>2, <1>3, <1>4, <1>5, <1>6 DEF IInv, BookStep

LEMMA FencedKeeps ==
    ASSUME IInv, Fenced
    PROVE  IInv'
<1>1. BookStep
  BY SettleKeeps, WithoutKeyKeeps, GoneKeeps, BookSame
     DEF Terminal, Fenced, KillForStop, Leaves, Killed, None, flags
<1>2. Types'
  BY DEF IInv, Types, PlaceInv, Fenced, KillForStop, Leaves, Killed, None, Goto, flags, gpu,
         Places, Points
<1>3. PlaceInv'
  BY <1>1
     DEF IInv, Types, PlaceInv, BookStep, Fenced, KillForStop, Leaves, Killed, None, Goto,
         flags, gpu
<1>4. ChildInv'
  <2>1. PICK s \in {"none", "stuck"} :
          /\ Leaves(s) /\ Killed(s)
          /\ asrJob' = IF s = "stuck" THEN film ELSE None
          /\ survivor' = (s = "stuck")
    BY DEF Fenced, KillForStop
  <2>2. /\ pc = "spawned" /\ pc' = "give" /\ film \in Films /\ child \in {None, film}
        /\ child = None <=> asr = "none"
    BY DEF Fenced, Goto, IInv, PlaceInv, ChildInv
  <2>3. CASE s = "none"
    BY <2>1, <2>2, <2>3 DEF ChildInv, Killed
  <2>4. CASE s = "stuck"
    <3>1. child' = film /\ asr' = "stuck" /\ asrJob' = film /\ survivor' = TRUE
      BY <2>1, <2>2, <2>4 DEF Killed, Leaves
    <3> QED BY <2>2, <3>1, FilmsAssumption DEF ChildInv, None
  <2> QED BY <2>1, <2>3, <2>4
<1>5. HoldInv'
  BY <1>1, FilmsAssumption
     DEF IInv, Types, HoldInv, BookStep, Fenced, KillForStop, Leaves, Killed, None, Goto,
         flags, gpu, AsrLive
<1>6. WaitInv'
  BY <1>1
     DEF IInv, Types, WaitInv, BookStep, Fenced, KillForStop, Leaves, Killed, None, Goto,
         flags, gpu
<1> QED BY <1>1, <1>2, <1>3, <1>4, <1>5, <1>6 DEF IInv, BookStep

LEMMA GiveBackKeeps ==
    ASSUME IInv, GiveBack
    PROVE  IInv'
<1>1. BookStep
  BY BookSame DEF GiveBack
<1>2. Types'
  <2>1. at' \in Places /\ pc' \in Points
    BY DEF IInv, Types, Places, Points, GiveBack, None, Release, Goto, job, flags
  <2>2. stopper' \in {"none", "flagged", "cancelled", "over"} /\ lease' \in {"free", "us", "other"}
    BY DEF IInv, Types, GiveBack, None, Release, job, flags
  <2>3. /\ child' \in Films \cup {None} /\ asrJob' \in Films \cup {None}
        /\ asr' \in {"none", "live", "stuck"} \cup Exited
    BY DEF IInv, Types, PlaceInv, GiveBack, None, Release, asrVars, job, flags
  <2>4. /\ held' \in BOOLEAN /\ queued' \in BOOLEAN /\ waiting' \in BOOLEAN /\ survivor' \in BOOLEAN
        /\ stopping' \in BOOLEAN /\ error' \in BOOLEAN /\ advance' \in BOOLEAN
    BY DEF IInv, Types, GiveBack, None, Release, job, flags
  <2> QED BY <2>1, <2>2, <2>3, <2>4 DEF Types
<1>3. PlaceInv'
  BY <1>1 DEF IInv, Types, PlaceInv, BookStep, GiveBack, None, Release, Goto, job, flags
<1>4. ChildInv'
  BY DEF IInv, Types, ChildInv, GiveBack, None, Release, Goto, asrVars, job, flags
<1>5. HoldInv'
  BY <1>1, FilmsAssumption
     DEF IInv, Types, HoldInv, PlaceInv, ChildInv, BookStep, GiveBack, None, Release, Goto,
         asrVars, job, flags, AsrLive
<1>6. WaitInv'
  BY <1>1
     DEF IInv, Types, WaitInv, BookStep, GiveBack, None, Release, Goto, asrVars, job, flags
<1> QED BY <1>1, <1>2, <1>3, <1>4, <1>5, <1>6 DEF IInv, BookStep

LEMMA PollIdleKeeps ==
    ASSUME IInv, PollIdle
    PROVE  IInv'
<1>1. BookStep
  BY BookSame DEF PollIdle
<1>2. Types'
  BY DEF IInv, Types, PollIdle, None, Goto, asrVars, job, flags, gpu, Places, Points
<1>3. PlaceInv'
  BY <1>1 DEF IInv, Types, PlaceInv, BookStep, PollIdle, None, Goto, job, flags, gpu
<1>4. ChildInv'
  BY DEF IInv, Types, ChildInv, PollIdle, None, Goto, asrVars, job, flags, gpu
<1>5. HoldInv'
  BY <1>1
     DEF IInv, Types, HoldInv, BookStep, PollIdle, None, Goto, asrVars, job, flags, gpu,
         AsrLive
<1>6. WaitInv'
  BY <1>1
     DEF IInv, Types, WaitInv, BookStep, PollIdle, None, Goto, asrVars, book, job, flags, gpu
<1> QED BY <1>1, <1>2, <1>3, <1>4, <1>5, <1>6 DEF IInv, BookStep

LEMMA PollStoppingKeeps ==
    ASSUME IInv, PollStopping
    PROVE  IInv'
<1>1. BookStep
  BY BookSame DEF PollStopping
<1>2. Types'
  BY DEF IInv, Types, PollStopping, Polling, None, Reaped, Goto, flags, gpu, Places, Points
<1>3. PlaceInv'
  BY <1>1
     DEF IInv, Types, PlaceInv, BookStep, PollStopping, Polling, None, Reaped, Goto, flags,
         gpu
<1>4. ChildInv'
  BY DEF IInv, Types, ChildInv, PollStopping, Polling, None, Reaped, flags, gpu
<1>5. HoldInv'
  BY <1>1
     DEF IInv, Types, HoldInv, BookStep, PollStopping, Polling, None, Reaped, Goto, flags,
         gpu, AsrLive
<1>6. WaitInv'
  BY <1>1
     DEF IInv, Types, WaitInv, BookStep, PollStopping, Polling, None, Reaped, Goto, book,
         flags, gpu
<1> QED BY <1>1, <1>2, <1>3, <1>4, <1>5, <1>6 DEF IInv, BookStep

LEMMA ReapSettledKeeps ==
    ASSUME IInv, ReapSettled
    PROVE  IInv'
<1>1. BookStep
  BY BookSame DEF ReapSettled
<1>2. Types'
  BY DEF IInv, Types, ReapSettled, Polling, None, Reaped, JobOver, Goto, flags, gpu, Places,
         Points
<1>3. PlaceInv'
  BY <1>1
     DEF IInv, Types, PlaceInv, BookStep, ReapSettled, Polling, None, Reaped, JobOver, Goto,
         flags, gpu
<1>4. ChildInv'
  BY DEF IInv, Types, ChildInv, ReapSettled, Polling, None, Reaped, JobOver, Goto, flags, gpu
<1>5. HoldInv'
  BY <1>1
     DEF IInv, Types, HoldInv, BookStep, ReapSettled, Polling, None, Reaped, JobOver, Goto,
         flags, gpu, AsrLive
<1>6. WaitInv'
  BY <1>1
     DEF IInv, Types, WaitInv, BookStep, ReapSettled, Polling, None, Reaped, JobOver, Goto,
         flags, gpu
<1> QED BY <1>1, <1>2, <1>3, <1>4, <1>5, <1>6 DEF IInv, BookStep

LEMMA PollSucceededKeeps ==
    ASSUME IInv, PollSucceeded
    PROVE  IInv'
<1>1. BookStep /\ (error' # error => cleanup' # <<>>)
  BY SettleKeeps, WithoutKeyKeeps, GoneKeeps, BookSame
     DEF Terminal, PollSucceeded, Owned, Polling, None, Reaped, JobOver
<1>2. Types'
  BY DEF IInv, Types, PollSucceeded, Owned, Polling, None, LibraryGone, Reaped, JobOver, Goto,
         gpu, Places, Points
<1>3. PlaceInv'
  BY <1>1
     DEF IInv, Types, PlaceInv, BookStep, PollSucceeded, Owned, Polling, None, LibraryGone,
         Reaped, JobOver, Goto, gpu
<1>4. ChildInv'
  BY DEF IInv, Types, ChildInv, PollSucceeded, Owned, Polling, None, LibraryGone, Reaped,
         JobOver, Goto, gpu
<1>5. HoldInv'
  BY <1>1
     DEF IInv, Types, HoldInv, BookStep, PollSucceeded, Owned, Polling, None, LibraryGone,
         Reaped, JobOver, Goto, gpu, AsrLive
<1>6. WaitInv'
  BY <1>1
     DEF IInv, Types, WaitInv, BookStep, PollSucceeded, Owned, Polling, None, LibraryGone,
         Reaped, JobOver, Goto, gpu
<1> QED BY <1>1, <1>2, <1>3, <1>4, <1>5, <1>6 DEF IInv, BookStep

LEMMA PollNoSpeechKeeps ==
    ASSUME IInv, PollNoSpeech
    PROVE  IInv'
<1>1. BookStep
  BY SettleKeeps, WithoutKeyKeeps, GoneKeeps, BookSame
     DEF Terminal, PollNoSpeech, Owned, Polling, None, Reaped, JobOver, flags
<1>2. Types'
  BY DEF IInv, Types, PollNoSpeech, Owned, Polling, None, Reaped, JobOver, Goto, flags, gpu,
         Places, Points
<1>3. PlaceInv'
  BY <1>1
     DEF IInv, Types, PlaceInv, BookStep, PollNoSpeech, Owned, Polling, None, Reaped, JobOver,
         Goto, flags, gpu
<1>4. ChildInv'
  BY DEF IInv, Types, ChildInv, PollNoSpeech, Owned, Polling, None, Reaped, JobOver, Goto,
         flags, gpu
<1>5. HoldInv'
  BY <1>1
     DEF IInv, Types, HoldInv, BookStep, PollNoSpeech, Owned, Polling, None, Reaped, JobOver,
         Goto, flags, gpu, AsrLive
<1>6. WaitInv'
  BY <1>1
     DEF IInv, Types, WaitInv, BookStep, PollNoSpeech, Owned, Polling, None, Reaped, JobOver,
         Goto, flags, gpu
<1> QED BY <1>1, <1>2, <1>3, <1>4, <1>5, <1>6 DEF IInv, BookStep

LEMMA PollRetryKeeps ==
    ASSUME IInv, PollRetry
    PROVE  IInv'
<1>1. BookStep
  BY BookSame DEF PollRetry
<1>2. Types'
  BY DEF IInv, Types, PollRetry, Owned, Polling, None, AsrStarts, Goto, job, flags, gpu,
         Places, Points
<1>3. PlaceInv'
  BY <1>1, FilmsAssumption
     DEF IInv, Types, PlaceInv, ChildInv, BookStep, PollRetry, Owned, Polling, None,
         AsrStarts, Goto, job, flags, gpu
<1>4. ChildInv'
  BY FilmsAssumption
     DEF IInv, Types, ChildInv, PollRetry, Owned, Polling, None, AsrStarts, Goto, job, flags,
         gpu
<1>5. HoldInv'
  BY <1>1, FilmsAssumption
     DEF IInv, Types, HoldInv, PlaceInv, ChildInv, BookInv, BookTrue, Books, Book, BookStep,
         PollRetry, Owned, Polling, None, AsrStarts, Goto, job, flags, gpu, AsrLive, Entry
<1>6. WaitInv'
  BY <1>1
     DEF IInv, Types, WaitInv, PlaceInv, ChildInv, BookStep, PollRetry, Owned, Polling, None,
         AsrStarts, book, job, flags, gpu
<1> QED BY <1>1, <1>2, <1>3, <1>4, <1>5, <1>6 DEF IInv, BookStep

LEMMA PollFailedKeeps ==
    ASSUME IInv, PollFailed
    PROVE  IInv'
<1>1. BookStep
  BY SettleKeeps, WithoutKeyKeeps, GoneKeeps, BookSame
     DEF Terminal, PollFailed, Owned, Polling, None, Reaped, JobOver, flags
<1>2. Types'
  BY DEF IInv, Types, PollFailed, Owned, Polling, None, Reaped, JobOver, Goto, flags, gpu,
         Places, Points
<1>3. PlaceInv'
  BY <1>1
     DEF IInv, Types, PlaceInv, BookStep, PollFailed, Owned, Polling, None, Reaped, JobOver,
         Goto, flags, gpu
<1>4. ChildInv'
  BY DEF IInv, Types, ChildInv, PollFailed, Owned, Polling, None, Reaped, JobOver, Goto,
         flags, gpu
<1>5. HoldInv'
  BY <1>1
     DEF IInv, Types, HoldInv, BookStep, PollFailed, Owned, Polling, None, Reaped, JobOver,
         Goto, flags, gpu, AsrLive
<1>6. WaitInv'
  BY <1>1
     DEF IInv, Types, WaitInv, BookStep, PollFailed, Owned, Polling, None, Reaped, JobOver,
         Goto, flags, gpu
<1> QED BY <1>1, <1>2, <1>3, <1>4, <1>5, <1>6 DEF IInv, BookStep

LEMMA FencedLiveKeeps ==
    ASSUME IInv, FencedLive
    PROVE  IInv'
<1>1. BookStep
  BY SettleKeeps, WithoutKeyKeeps, GoneKeeps, BookSame
     DEF Terminal, FencedLive, Owned, Polling, None, flags
<1>2. Types'
  BY DEF IInv, Types, FencedLive, Owned, Polling, None, Goto, asrVars, job, flags, gpu,
         Places, Points
<1>3. PlaceInv'
  BY <1>1
     DEF IInv, Types, PlaceInv, BookStep, FencedLive, Owned, Polling, None, Goto, job, flags,
         gpu
<1>4. ChildInv'
  BY DEF IInv, Types, ChildInv, FencedLive, Owned, Polling, None, Goto, asrVars, job, flags,
         gpu
<1>5. HoldInv'
  BY <1>1
     DEF IInv, Types, HoldInv, BookStep, FencedLive, Owned, Polling, None, Goto, asrVars, job,
         flags, gpu, AsrLive
<1>6. WaitInv'
  BY <1>1
     DEF IInv, Types, WaitInv, BookStep, FencedLive, Owned, Polling, None, Goto, asrVars, job,
         flags, gpu
<1> QED BY <1>1, <1>2, <1>3, <1>4, <1>5, <1>6 DEF IInv, BookStep

-----------------------------------------------------------------------------
(* check, and its results.                                                 *)

LEMMA CheckKeeps ==
    ASSUME IInv, Check
    PROVE  IInv'
<1>1. BookStep
  BY BookSame DEF Check
<1>2. Types'
  BY DEF IInv, Types, Check, asrVars, job, flags, gpu, Places, Points, None
<1>3. PlaceInv'
  BY <1>1 DEF IInv, Types, PlaceInv, BookStep, Check, job, flags, gpu, None
<1>4. WaitInv'
  BY <1>1 DEF IInv, Types, WaitInv, BookStep, Check, asrVars, book, job, flags, gpu, None
<1>5. ChildInv' /\ HoldInv'
  BY ChildKept, HoldKept DEF IInv, Check, asrVars, book, job, flags, gpu
<1> QED BY <1>1, <1>2, <1>3, <1>4, <1>5 DEF IInv, BookStep

LEMMA ResultsEndKeeps ==
    ASSUME IInv, ResultsEnd
    PROVE  IInv'
<1>1. BookStep
  BY BookSame DEF ResultsEnd
<1>2. Types'
  BY DEF IInv, Types, ResultsEnd, asrVars, job, flags, gpu, Places, Points, None
<1>3. PlaceInv'
  BY <1>1 DEF IInv, Types, PlaceInv, BookStep, ResultsEnd, job, flags, gpu, None
<1>4. WaitInv'
  BY <1>1 DEF IInv, Types, WaitInv, BookStep, ResultsEnd, asrVars, book, job, flags, gpu, None
<1>5. ChildInv' /\ HoldInv'
  BY ChildKept, HoldKept DEF IInv, ResultsEnd, asrVars, book, job, flags, gpu
<1> QED BY <1>1, <1>2, <1>3, <1>4, <1>5 DEF IInv, BookStep

LEMMA ResultKeeps ==
    ASSUME IInv, Result
    PROVE  IInv'
<1>1. BookStep /\ (error' # error => cleanup' # <<>>)
  BY SettleKeeps, WithoutKeyKeeps, GoneKeeps, BookSame
     DEF Terminal, Result, Publish, HandEmpty, SkipExisting, NotTranslated
<1>2. Types'
  <2>1. at' \in Places /\ pc' \in Points
    BY DEF IInv, Types, Places, Points, Result, Publish, HandEmpty, SkipExisting, LibraryGone,
           NotTranslated, Goto, job
  <2>2. stopper' \in {"none", "flagged", "cancelled", "over"} /\ lease' \in {"free", "us", "other"}
    BY DEF IInv, Types, Result, Publish, HandEmpty, SkipExisting, LibraryGone, NotTranslated,
           job
  <2>3. /\ child' \in Films \cup {None} /\ asrJob' \in Films \cup {None}
        /\ asr' \in {"none", "live", "stuck"} \cup Exited
    BY DEF IInv, Types, PlaceInv, Result, Publish, HandEmpty, SkipExisting, LibraryGone,
           NotTranslated, asrVars, job
  <2>4. /\ held' \in BOOLEAN /\ queued' \in BOOLEAN /\ waiting' \in BOOLEAN /\ survivor' \in BOOLEAN
        /\ stopping' \in BOOLEAN /\ error' \in BOOLEAN /\ advance' \in BOOLEAN
    BY <1>1
       DEF BookStep, BookInv, BookTrue, Books, Book, IInv, Types, Result, Publish, HandEmpty,
           SkipExisting, LibraryGone, NotTranslated, job
  <2> QED BY <2>1, <2>2, <2>3, <2>4 DEF Types
<1>3. PlaceInv'
  BY <1>1
     DEF IInv, Types, PlaceInv, BookStep, Result, Publish, HandEmpty, SkipExisting,
         LibraryGone, NotTranslated, Goto, job, None
<1>4. ChildInv'
  BY DEF IInv, Types, ChildInv, Result, Publish, HandEmpty, SkipExisting, LibraryGone,
         NotTranslated, Goto, asrVars, job, None
<1>5. HoldInv'
  BY <1>1
     DEF IInv, Types, HoldInv, BookStep, Result, Publish, HandEmpty, SkipExisting,
         LibraryGone, NotTranslated, Goto, asrVars, job, AsrLive, None
<1>6. WaitInv'
  BY <1>1
     DEF IInv, Types, WaitInv, BookStep, Result, Publish, HandEmpty, SkipExisting,
         LibraryGone, NotTranslated, Goto, asrVars, job, None
<1> QED BY <1>1, <1>2, <1>3, <1>4, <1>5, <1>6 DEF IInv, BookStep

LEMMA RetryWaitKeeps ==
    ASSUME IInv, RetryWait
    PROVE  IInv'
<1>1. BookStep
  BY BookSame DEF RetryWait
<1>2. Types'
  <2>1. at' \in Places /\ pc' \in Points
    BY DEF IInv, Types, Places, Points, RetryWait, AsrLive, None, Goto, job, flags
  <2>2. stopper' \in {"none", "flagged", "cancelled", "over"} /\ lease' \in {"free", "us", "other"}
    BY DEF IInv, Types, RetryWait, AsrLive, None, job, flags
  <2>3. /\ child' \in Films \cup {None} /\ asrJob' \in Films \cup {None}
        /\ asr' \in {"none", "live", "stuck"} \cup Exited
    BY DEF IInv, Types, PlaceInv, RetryWait, AsrLive, None, asrVars, job, flags
  <2>4. /\ held' \in BOOLEAN /\ queued' \in BOOLEAN /\ waiting' \in BOOLEAN /\ survivor' \in BOOLEAN
        /\ stopping' \in BOOLEAN /\ error' \in BOOLEAN /\ advance' \in BOOLEAN
    BY DEF IInv, Types, RetryWait, AsrLive, None, job, flags
  <2> QED BY <2>1, <2>2, <2>3, <2>4 DEF Types
<1>3. PlaceInv'
  BY <1>1 DEF IInv, Types, PlaceInv, BookStep, RetryWait, AsrLive, None, Goto, job, flags
<1>4. ChildInv'
  BY DEF IInv, Types, ChildInv, RetryWait, AsrLive, None, Goto, asrVars, job, flags
<1>5. HoldInv'
  BY <1>1
     DEF IInv, Types, HoldInv, BookStep, RetryWait, AsrLive, None, Goto, asrVars, job, flags
<1>6. WaitInv'
  BY <1>1
     DEF IInv, Types, WaitInv, BookStep, RetryWait, AsrLive, None, Goto, asrVars, book, job,
         flags
<1> QED BY <1>1, <1>2, <1>3, <1>4, <1>5, <1>6 DEF IInv, BookStep

LEMMA RetryEndsKeeps ==
    ASSUME IInv, RetryEnds
    PROVE  IInv'
<1>1. BookStep
  BY BookSame DEF RetryEnds
<1>2. Types'
  BY DEF IInv, Types, RetryEnds, AsrLive, None, asrVars, job, flags, Places, Points
<1>3. PlaceInv'
  BY <1>1 DEF IInv, Types, PlaceInv, BookStep, RetryEnds, AsrLive, None, job, flags
<1>4. WaitInv'
  BY <1>1
     DEF IInv, Types, WaitInv, BookStep, RetryEnds, AsrLive, None, asrVars, book, job, flags
<1>5. ChildInv' /\ HoldInv'
  BY ChildKept, HoldKept DEF IInv, RetryEnds, AsrLive, None, asrVars, book, job, flags
<1> QED BY <1>1, <1>2, <1>3, <1>4, <1>5 DEF IInv, BookStep

LEMMA CheckEndsKeeps ==
    ASSUME IInv, CheckEnds
    PROVE  IInv'
<1>1. BookStep
  BY BookSame DEF CheckEnds
<1>2. Types'
  <2>1. at' \in Places /\ pc' \in Points
    BY DEF IInv, Types, Places, Points, CheckEnds, MaybeDone, AllDone, None, job
  <2>2. stopper' \in {"none", "flagged", "cancelled", "over"} /\ lease' \in {"free", "us", "other"}
    BY DEF IInv, Types, CheckEnds, MaybeDone, AllDone, None, job
  <2>3. /\ child' \in Films \cup {None} /\ asrJob' \in Films \cup {None}
        /\ asr' \in {"none", "live", "stuck"} \cup Exited
    BY DEF IInv, Types, PlaceInv, CheckEnds, MaybeDone, AllDone, None, asrVars, job
  <2>4. /\ held' \in BOOLEAN /\ queued' \in BOOLEAN /\ waiting' \in BOOLEAN /\ survivor' \in BOOLEAN
        /\ stopping' \in BOOLEAN /\ error' \in BOOLEAN /\ advance' \in BOOLEAN
    BY DEF IInv, Types, CheckEnds, MaybeDone, AllDone, None, job
  <2> QED BY <2>1, <2>2, <2>3, <2>4 DEF Types
<1>3. PlaceInv'
  BY <1>1 DEF IInv, Types, PlaceInv, BookStep, CheckEnds, MaybeDone, AllDone, None, job
<1>4. WaitInv'
  BY <1>1
     DEF IInv, Types, WaitInv, BookStep, CheckEnds, MaybeDone, AllDone, None, asrVars, book,
         job
<1>5. ChildInv' /\ HoldInv'
  BY ChildKept, HoldKept DEF IInv, CheckEnds, MaybeDone, AllDone, None, asrVars, book, job
<1> QED BY <1>1, <1>2, <1>3, <1>4, <1>5 DEF IInv, BookStep

LEMMA LeaveKeeps ==
    ASSUME IInv, Leave
    PROVE  IInv'
<1>1. BookStep
  BY BookSame DEF Leave
<1>2. Types'
  BY DEF IInv, Types, Leave, asrVars, job, flags, gpu, Places, Points, None
<1>3. PlaceInv'
  BY <1>1 DEF IInv, Types, PlaceInv, BookStep, Leave, job, flags, gpu, None
<1>4. WaitInv'
  BY <1>1 DEF IInv, Types, WaitInv, BookStep, Leave, book, job, flags, gpu, None
<1>5. ChildInv' /\ HoldInv'
  BY ChildKept, HoldKept DEF IInv, Leave, asrVars, book, job, flags, gpu
<1> QED BY <1>1, <1>2, <1>3, <1>4, <1>5 DEF IInv, BookStep

-----------------------------------------------------------------------------
(* stop.                                                                   *)

LEMMA StopFlagKeeps ==
    ASSUME IInv, StopFlag
    PROVE  IInv'
<1>1. BookStep
  BY BookSame DEF StopFlag
<1>2. Types'
  BY DEF IInv, Types, StopFlag, asrVars, job, gpu, place, None
<1>3. PlaceInv'
  BY <1>1 DEF IInv, Types, PlaceInv, BookStep, StopFlag, book, job, gpu, place, None
<1>4. ChildInv'
  BY DEF IInv, Types, ChildInv, StopFlag, asrVars, job, gpu, place, None
<1>5. HoldInv'
  BY <1>1 DEF IInv, Types, HoldInv, BookStep, StopFlag, job, gpu, place, AsrLive, None
<1>6. WaitInv'
  BY <1>1 DEF IInv, Types, WaitInv, BookStep, StopFlag, asrVars, book, job, gpu, place, None
<1> QED BY <1>1, <1>2, <1>3, <1>4, <1>5, <1>6 DEF IInv, BookStep

LEMMA StopCancelKeeps ==
    ASSUME IInv, StopCancel
    PROVE  IInv'
<1>1. BookStep
  BY BookSame DEF StopCancel
<1>2. Types'
  BY DEF IInv, Types, StopCancel, Cancels, asrVars, job, flags, gpu, place, None
<1>3. PlaceInv'
  BY <1>1
     DEF IInv, Types, PlaceInv, BookStep, StopCancel, Cancels, book, job, flags, gpu, place,
         None
<1>4. ChildInv'
  BY DEF IInv, Types, ChildInv, StopCancel, Cancels, asrVars, job, flags, gpu, place, None
<1>5. HoldInv'
  BY <1>1
     DEF IInv, Types, HoldInv, BookStep, StopCancel, Cancels, asrVars, job, flags, gpu, place,
         AsrLive, None
<1>6. WaitInv'
  BY <1>1
     DEF IInv, Types, WaitInv, BookStep, StopCancel, Cancels, asrVars, book, job, flags, gpu,
         place, None
<1> QED BY <1>1, <1>2, <1>3, <1>4, <1>5, <1>6 DEF IInv, BookStep

LEMMA StopLockedKeeps ==
    ASSUME IInv, StopLocked
    PROVE  IInv'
<1>1. BookStep
  BY BookSame DEF StopLocked
<1>2. Types'
  <2>1. at' \in Places /\ pc' \in Points
    BY DEF IInv, Types, StopLocked, Locked, Leaves, StopAsr, AsrLive, None, LetGo, Release,
           flags, place
  <2>2. stopper' \in {"none", "flagged", "cancelled", "over"} /\ lease' \in {"free", "us", "other"}
    BY DEF IInv, Types, StopLocked, Locked, Leaves, StopAsr, AsrLive, None, LetGo, Release,
           flags, place
  <2>3. /\ child' \in Films \cup {None} /\ asrJob' \in Films \cup {None}
        /\ asr' \in {"none", "live", "stuck"} \cup Exited
    BY DEF IInv, Types, PlaceInv, StopLocked, Locked, Leaves, StopAsr, AsrLive, None, LetGo,
           Release, flags, place
  <2>4. /\ held' \in BOOLEAN /\ queued' \in BOOLEAN /\ waiting' \in BOOLEAN /\ survivor' \in BOOLEAN
        /\ stopping' \in BOOLEAN /\ error' \in BOOLEAN /\ advance' \in BOOLEAN
    BY DEF IInv, Types, StopLocked, Locked, Leaves, StopAsr, AsrLive, None, LetGo, Release,
           flags, place
  <2> QED BY <2>1, <2>2, <2>3, <2>4 DEF Types
<1>3. PlaceInv'
  BY <1>1
     DEF IInv, Types, PlaceInv, BookStep, StopLocked, Locked, Leaves, StopAsr, AsrLive, None,
         LetGo, Release, book, flags, place
<1>4. ChildInv'
  BY DEF IInv, Types, ChildInv, StopLocked, Locked, Leaves, StopAsr, AsrLive, None, LetGo,
         Release, flags, place
<1>5. HoldInv'
  BY <1>1
     DEF IInv, Types, HoldInv, PlaceInv, ChildInv, BookStep, StopLocked, Locked, Leaves,
         StopAsr, AsrLive, None, LetGo, Release, flags, place
<1>6. WaitInv'
  BY <1>1
     DEF IInv, Types, WaitInv, BookStep, StopLocked, Locked, Leaves, StopAsr, AsrLive, None,
         LetGo, Release, book, flags, place
<1> QED BY <1>1, <1>2, <1>3, <1>4, <1>5, <1>6 DEF IInv, BookStep

LEMMA StopUnlockedKeeps ==
    ASSUME IInv, StopUnlocked
    PROVE  IInv'
<1>1. BookStep
  BY BookSame DEF StopUnlocked
<1>2. Types'
  <2>1. at' \in Places /\ pc' \in Points
    BY DEF IInv, Types, StopUnlocked, Locked, AsrLive, None, Leaves, Killed, LetGo, Release,
           flags, place
  <2>2. stopper' \in {"none", "flagged", "cancelled", "over"} /\ lease' \in {"free", "us", "other"}
    BY DEF IInv, Types, StopUnlocked, Locked, AsrLive, None, Leaves, Killed, LetGo, Release,
           flags, place
  <2>3. /\ child' \in Films \cup {None} /\ asrJob' \in Films \cup {None}
        /\ asr' \in {"none", "live", "stuck"} \cup Exited
    BY DEF IInv, Types, PlaceInv, StopUnlocked, Locked, AsrLive, None, Leaves, Killed,
           asrVars, LetGo, Release, flags, place
  <2>4. /\ held' \in BOOLEAN /\ queued' \in BOOLEAN /\ waiting' \in BOOLEAN /\ survivor' \in BOOLEAN
        /\ stopping' \in BOOLEAN /\ error' \in BOOLEAN /\ advance' \in BOOLEAN
    BY DEF IInv, Types, StopUnlocked, Locked, AsrLive, None, Leaves, Killed, LetGo, Release,
           flags, place
  <2> QED BY <2>1, <2>2, <2>3, <2>4 DEF Types
<1>3. PlaceInv'
  BY <1>1
     DEF IInv, Types, PlaceInv, BookStep, StopUnlocked, Locked, AsrLive, None, Leaves, Killed,
         LetGo, Release, flags, place
<1>4. ChildInv'
  BY DEF IInv, Types, ChildInv, PlaceInv, StopUnlocked, Locked, AsrLive, None, Leaves, Killed,
         asrVars, LetGo, Release, flags, place
<1>5. HoldInv'
  BY <1>1
     DEF IInv, Types, HoldInv, PlaceInv, ChildInv, BookStep, StopUnlocked, Locked, AsrLive,
         None, Leaves, Killed, LetGo, Release, flags, place
<1>6. WaitInv'
  BY <1>1
     DEF IInv, Types, WaitInv, BookStep, StopUnlocked, Locked, AsrLive, None, Leaves, Killed,
         LetGo, Release, book, flags, place
<1> QED BY <1>1, <1>2, <1>3, <1>4, <1>5, <1>6 DEF IInv, BookStep

-----------------------------------------------------------------------------
(* The child, the translator, the other task and people.                   *)

LEMMA AsrExitsKeeps ==
    ASSUME IInv, AsrExits
    PROVE  IInv'
<1>1. BookStep
  BY BookSame DEF AsrExits
<1>2. Types'
  BY DEF IInv, Types, AsrExits, job, flags, gpu, place, None
<1>3. ChildInv'
  BY DEF IInv, Types, ChildInv, AsrExits, Exited, job, flags, gpu, place, None
<1>4. PlaceInv' /\ HoldInv' /\ WaitInv'
  BY PlaceKept, HoldKept, WaitKept DEF IInv, AsrExits, book, job, flags, gpu, place
<1> QED BY <1>1, <1>2, <1>3, <1>4 DEF IInv, BookStep

LEMMA TranslatesKeeps ==
    ASSUME IInv, Translates
    PROVE  IInv'
<1>1. BookStep
  BY BookSame DEF Translates
<1>2. Types' /\ PlaceInv' /\ ChildInv' /\ HoldInv' /\ WaitInv'
  BY TypesKept, PlaceKept, ChildKept, HoldKept, WaitKept
     DEF IInv, Translates, asrVars, book, job, flags, gpu, place
<1> QED BY <1>1, <1>2 DEF IInv, BookStep

LEMMA OtherTakesKeeps ==
    ASSUME IInv, OtherTakes
    PROVE  IInv'
<1>1. BookStep
  BY BookSame DEF OtherTakes
<1>2. Types'
  BY DEF IInv, Types, OtherTakes, asrVars, job, flags, place, None
<1>3. HoldInv'
  BY <1>1
     DEF IInv, Types, HoldInv, BookStep, OtherTakes, asrVars, job, flags, place, AsrLive, None
<1>4. PlaceInv' /\ ChildInv' /\ WaitInv'
  BY PlaceKept, ChildKept, WaitKept DEF IInv, OtherTakes, asrVars, book, job, flags, place
<1> QED BY <1>1, <1>2, <1>3, <1>4 DEF IInv, BookStep

LEMMA OtherEndsKeeps ==
    ASSUME IInv, OtherEnds
    PROVE  IInv'
<1>1. BookStep
  BY BookSame DEF OtherEnds
<1>2. Types'
  BY DEF IInv, Types, OtherEnds, asrVars, job, flags, place, None
<1>3. HoldInv'
  BY <1>1
     DEF IInv, Types, HoldInv, BookStep, OtherEnds, asrVars, job, flags, place, AsrLive, None
<1>4. PlaceInv' /\ ChildInv' /\ WaitInv'
  BY PlaceKept, ChildKept, WaitKept DEF IInv, OtherEnds, asrVars, book, job, flags, place
<1> QED BY <1>1, <1>2, <1>3, <1>4 DEF IInv, BookStep

LEMMA AppearsKeeps ==
    ASSUME IInv, Appears
    PROVE  IInv'
<1>1. BookStep
  BY BookSame DEF Appears
<1>2. Types' /\ PlaceInv' /\ ChildInv' /\ HoldInv' /\ WaitInv'
  BY TypesKept, PlaceKept, ChildKept, HoldKept, WaitKept
     DEF IInv, Appears, asrVars, book, job, flags, gpu, place
<1> QED BY <1>1, <1>2 DEF IInv, BookStep

-----------------------------------------------------------------------------
(* The theorems.                                                           *)

\* Every step keeps the invariant.
LEMMA Step ==
    ASSUME IInv, [Next]_vars
    PROVE  IInv'
<1>1. CASE Worker
  BY <1>1, StartKeeps, StartFailsKeeps, HandTextKeeps, TextsDoneKeeps, CheckKeeps, LeaveKeeps,
     RunCleanupKeeps, RunStopKeeps, DeferredDoneKeeps, DispatchEndsKeeps, AdvanceKeeps,
     TakeKeeps, RecordHoldKeeps, RefusedKeeps, GivenUpKeeps, StartAsrKeeps,
     StartAsrFailsKeeps, SpawnedKeeps, FencedKeeps, GiveBackKeeps, PollIdleKeeps,
     PollStoppingKeeps, ReapSettledKeeps, PollSucceededKeeps, PollNoSpeechKeeps,
     PollRetryKeeps, PollFailedKeeps, FencedLiveKeeps, ResultsEndKeeps, ResultKeeps,
     RetryWaitKeeps, RetryEndsKeeps, CheckEndsKeeps
     DEF Worker
<1>2. CASE StopFlag \/ StopCancel \/ StopLocked \/ StopUnlocked
  BY <1>2, StopFlagKeeps, StopCancelKeeps, StopLockedKeeps, StopUnlockedKeeps
<1>3. CASE AsrExits \/ Translates \/ OtherTakes \/ OtherEnds \/ Appears
  BY <1>3, AsrExitsKeeps, TranslatesKeeps, OtherTakesKeeps, OtherEndsKeeps, AppearsKeeps
<1>4. CASE UNCHANGED vars
  <2>1. BookStep
    BY <1>4, BookSame DEF vars
  <2>2. Types' /\ PlaceInv' /\ ChildInv' /\ HoldInv' /\ WaitInv'
    BY <1>4, TypesKept, PlaceKept, ChildKept, HoldKept, WaitKept
    DEF IInv, vars, asrVars, book, job, flags, gpu, place
  <2> QED BY <2>1, <2>2 DEF IInv, BookStep
<1> QED BY <1>1, <1>2, <1>3, <1>4 DEF Next, Stopper

LEMMA Begin == Init => IInv
<1> SUFFICES ASSUME Init PROVE IInv
  OBVIOUS
<1>1. Types /\ PlaceInv /\ ChildInv /\ HoldInv /\ WaitInv
  BY DEF Init, Types, Places, Points, Exited, PlaceInv, ChildInv, HoldInv, WaitInv, None,
         AsrLive
<1>2. settled \in [Films -> Ends] /\ <<>> \in Seq(Films) /\ <<>> \in Seq(Entry) /\ DOMAIN <<>> = {}
  BY DEF Init, Ends
<1>3. BookInv
  BY <1>2 DEF Init, BookInv, BookTrue, Books, Book
<1> QED BY <1>1, <1>3 DEF IInv

\* The inductive invariant, for any films and all bounds.
THEOREM Invariance == Spec => []IInv
<1>1. Init => IInv
  BY Begin
<1>2. IInv /\ [Next]_vars => IInv'
  BY Step
<1> QED BY <1>1, <1>2, PTL DEF Spec

\* A child the run knows of has the GPU for itself until a stop or an abort gives
\* it up; between two checks the run holds the GPU only for a child, and after a
\* stop it neither holds nor waits (_start_asr, _gpu_rel, stop).
THEOREM ForTheChild == Spec => []GpuForTheChild
<1>1. IInv => GpuForTheChild
  BY DEF IInv, Types, PlaceInv, ChildInv, HoldInv, WaitInv, GpuForTheChild, AsrLive
<1> QED BY <1>1, Invariance, PTL

-----------------------------------------------------------------------------
(* The lease.                                                              *)

\* A task holds the GPU exactly when the lease says so.
LeaseInv ==
    /\ task \in [Runs -> {"out", "waiting", "holding", "gone"}]
    /\ GpuExclusive

LEMMA TryKeeps ==
    ASSUME LeaseInv, NEW r \in Runs, L!Try(r)
    PROVE  LeaseInv'
<1>1. CASE L!Acquires(r) /\ task' = [task EXCEPT ![r] = "holding"]
  <2>1. task[r] # "holding"
    BY DEF L!Try
  <2>2. holder # r
    BY <2>1 DEF LeaseInv, GpuExclusive, L!GpuExclusive
  <2>3. ~closed /\ holder = NoRun /\ holder' = r
    BY <1>1, <2>2 DEF L!Acquires, L!Free, L!Grant
  <2> QED BY <1>1, <2>3, LeaseAssumption
      DEF L!Try, LeaseInv, GpuExclusive, L!GpuExclusive
<1>2. CASE L!Refused(r) /\ task' = [task EXCEPT ![r] = "waiting"]
  <2>1. task[r] # "holding"
    BY DEF L!Try
  <2>2. holder' = holder
    BY <1>2 DEF L!Refused
  <2> QED BY <1>2, <2>1, <2>2 DEF L!Try, LeaseInv, GpuExclusive, L!GpuExclusive
<1> QED BY <1>1, <1>2 DEF L!Try

LEMMA LeaseStep ==
    ASSUME LeaseInv, [BothNext]_both
    PROVE  LeaseInv'
<1>1. CASE \E r \in Runs : L!Try(r)
  BY <1>1, TryKeeps
<1>2. ASSUME NEW r \in Runs, L!Release(r) PROVE LeaseInv'
  <2>1. holder = r
    BY <1>2 DEF L!Release, LeaseInv, GpuExclusive, L!GpuExclusive
  <2>2. holder' = NoRun
    BY <1>2, <2>1 DEF L!Release, L!ReleaseBy, L!FreedBy
  <2> QED BY <1>2, <2>1, <2>2, LeaseAssumption
      DEF L!Release, LeaseInv, GpuExclusive, L!GpuExclusive
<1>3. ASSUME NEW r \in Runs, L!ReleaseLate(r) PROVE LeaseInv'
  <2>1. holder # r
    BY <1>3 DEF L!ReleaseLate, LeaseInv, GpuExclusive, L!GpuExclusive
  <2>2. holder' = holder
    BY <1>3, <2>1 DEF L!ReleaseLate, L!ReleaseBy, L!FreedBy
  <2> QED BY <1>3, <2>2 DEF L!ReleaseLate, LeaseInv, GpuExclusive, L!GpuExclusive
<1>4. CASE \E r \in Runs : L!Withdraw(r) \/ L!Vanish(r)
  BY <1>4
     DEF L!Withdraw, L!WithdrawBy, L!Vanish, L!lease, LeaseInv, GpuExclusive, L!GpuExclusive
<1>5. CASE L!Tick \/ L!Look \/ UNCHANGED leaseVars
  BY <1>5 DEF L!Tick, L!Look, leaseVars, LeaseInv, GpuExclusive, L!GpuExclusive
<1>6. CASE L!CloseIfIdle
  BY <1>6 DEF L!CloseIfIdle, LeaseInv, GpuExclusive, L!GpuExclusive
<1>7. CASE L!Next
  BY <1>1, <1>2, <1>3, <1>4, <1>5, <1>6, <1>7 DEF L!Next
<1> QED BY <1>5, <1>7 DEF BothNext, Leases, Subtitles, both

\* However late a task gives back what it held, one task uses the GPU at a time,
\* and none once a restart of the process was granted (GpuLease.release).
THEOREM Exclusive == BothSpec => []GpuExclusive
<1>1. BothInit => LeaseInv
  BY LeaseAssumption DEF BothInit, L!Init, LeaseInv, GpuExclusive, L!GpuExclusive
<1>2. LeaseInv /\ [BothNext]_both => LeaseInv'
  BY LeaseStep
<1>3. LeaseInv => GpuExclusive
  BY DEF LeaseInv
<1> QED BY <1>1, <1>2, <1>3, PTL DEF BothSpec
=============================================================================
