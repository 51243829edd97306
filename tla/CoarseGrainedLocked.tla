------------------------ MODULE CoarseGrainedLocked ------------------------
(***************************************************************************)
(* The readers-writer lock around roleEndpointMap and the socket maps      *)
(* (util/CoarseGrainedLocked.hpp), step by step: the atomic counters       *)
(* writerWaiting and reader, the mutex, and the condition variables        *)
(* modified and readerExit.  A condition variable's wait tests its         *)
(* predicate under the mutex and then, in a step of its own, releases the  *)
(* mutex and goes to sleep; a woken thread acquires the mutex and tests    *)
(* again.  A thread may also wake up spuriously.                           *)
(*                                                                         *)
(* The protected value is abstracted to its number of entries: a predicate *)
(* waits for a number, a writer's update changes it.                       *)
(***************************************************************************)
EXTENDS Integers, FiniteSets

CONSTANTS
    Writers,    \* threads that call getView: the management thread
    Readers,    \* threads that call getReadOnlyView: senders, the program
    Needed,     \* Needed[r]: the predicate of reader r is value >= Needed[r]
    Changes,    \* what an update may add: 1 for an Embody, -1 for an erase
    MaxViews    \* bound: views a thread ever takes

NoThread == "no thread"

ASSUME ThreadsAssumption ==
    /\ IsFiniteSet(Writers) /\ IsFiniteSet(Readers)
    /\ Writers \cap Readers = {}
    /\ NoThread \notin Writers \cup Readers
ASSUME NeededAssumption == Needed \in [Readers -> Nat]
ASSUME ChangesAssumption == Changes \subseteq Int
ASSUME BoundsAssumption == MaxViews \in Nat

VARIABLES
    value,          \* the number of entries of the protected map
    writerWaiting,
    reader,
    mutex,          \* its owner or NoThread
    pc,
    views           \* views[t]: the views thread t has taken

vars == <<value, writerWaiting, reader, mutex, pc, views>>

Threads == Writers \cup Readers

\* Where a thread in getView and ~View is.
WriterStates == {"idle", "lock", "granted", "test", "block", "asleep", "awake",
                 "viewing", "unlock"}
\* Where a thread in getReadOnlyView and ~ReadOnlyView is.
ReaderStates == {"idle", "lock", "test", "block", "asleep", "awake",
                 "enter", "leave", "reading", "notify"}

Init ==
    /\ value = 0
    /\ writerWaiting = 0
    /\ reader = 0
    /\ mutex = NoThread
    /\ pc = [t \in Threads |-> "idle"]
    /\ views = [t \in Threads |-> 0]

Goto(t, label) == pc' = [pc EXCEPT ![t] = label]

\* Thread t calls for a view.
TakeView(t) == views[t] < MaxViews /\ views' = [views EXCEPT ![t] = @ + 1]

\* Thread t has the mutex from now on, or gives it up.
Acquire(t) == mutex = NoThread /\ mutex' = t
Release(t) == mutex' = NoThread

\* notify_all of the condition variable on which the threads of a set sleep,
\* thread t going on at the given label.
NotifyAll(sleepers, t, label) ==
    LET woken == {u \in sleepers : pc[u] = "asleep"}
    IN  pc' = [[u \in Threads |-> IF u \in woken THEN "awake" ELSE pc[u]] EXCEPT ![t] = label]

-----------------------------------------------------------------------------
(* getView and ~View *)

\* A message to handle has arrived: writerWaiting++ without the mutex.
WriterCalls(w) ==
    /\ pc[w] = "idle"
    /\ TakeView(w)
    /\ writerWaiting' = writerWaiting + 1
    /\ Goto(w, "lock")
    /\ UNCHANGED <<value, reader, mutex>>

WriterLocks(w) ==
    /\ pc[w] = "lock"
    /\ Acquire(w)
    /\ Goto(w, "granted")
    /\ UNCHANGED <<value, writerWaiting, reader, views>>

\* writerWaiting--, nobody is told.
WriterGranted(w) ==
    /\ pc[w] = "granted"
    /\ writerWaiting' = writerWaiting - 1
    /\ Goto(w, "test")
    /\ UNCHANGED <<value, reader, mutex, views>>

\* Mutant: the writer does not wait for the readers to leave.
WriterTestsNothing(w) ==
    /\ pc[w] = "test"
    /\ Goto(w, "viewing")
    /\ UNCHANGED <<value, writerWaiting, reader, mutex, views>>

\* The predicate of readerExit.wait: no reader is left.
WriterTests(w) ==
    /\ pc[w] = "test"
    /\ Goto(w, IF reader = 0 THEN "viewing" ELSE "block")
    /\ UNCHANGED <<value, writerWaiting, reader, mutex, views>>

\* The predicate was false: release the mutex and sleep on readerExit.
WriterBlocks(w) ==
    /\ pc[w] = "block"
    /\ Release(w)
    /\ Goto(w, "asleep")
    /\ UNCHANGED <<value, writerWaiting, reader, views>>

WriterReacquires(w) ==
    /\ pc[w] = "awake"
    /\ Acquire(w)
    /\ Goto(w, "test")
    /\ UNCHANGED <<value, writerWaiting, reader, views>>

Change ==
    \E change \in Changes : value + change \in Nat /\ value' = value + change

\* Mutant: ~View does not notify.
UpdateSilently(w) ==
    /\ pc[w] = "viewing"
    /\ Change
    /\ Goto(w, "unlock")
    /\ UNCHANGED <<writerWaiting, reader, mutex, views>>

\* The view is used to change the value, then ~View calls modified.notify_all while
\* the lock, a member of the view, is still held.
Update(w) ==
    /\ pc[w] = "viewing"
    /\ Change
    /\ NotifyAll(Readers, w, "unlock")
    /\ UNCHANGED <<writerWaiting, reader, mutex, views>>

WriterUnlocks(w) ==
    /\ pc[w] = "unlock"
    /\ Release(w)
    /\ Goto(w, "idle")
    /\ UNCHANGED <<value, writerWaiting, reader, views>>

-----------------------------------------------------------------------------
(* getReadOnlyView and ~ReadOnlyView *)

ReaderCalls(r) ==
    /\ pc[r] = "idle"
    /\ TakeView(r)
    /\ Goto(r, "lock")
    /\ UNCHANGED <<value, writerWaiting, reader, mutex>>

ReaderLocks(r) ==
    /\ pc[r] = "lock"
    /\ Acquire(r)
    /\ Goto(r, "test")
    /\ UNCHANGED <<value, writerWaiting, reader, views>>

\* Mutant: the reader only gives way to waiting writers.
ReaderAdmittedAnyway(r) == writerWaiting = 0

\* The predicate of modified.wait.
ReaderAdmitted(r) == value >= Needed[r] /\ writerWaiting = 0

ReaderTests(r) ==
    /\ pc[r] = "test"
    /\ Goto(r, IF ReaderAdmitted(r) THEN "enter" ELSE "block")
    /\ UNCHANGED <<value, writerWaiting, reader, mutex, views>>

\* The predicate was false: release the mutex and sleep on modified.
ReaderBlocks(r) ==
    /\ pc[r] = "block"
    /\ Release(r)
    /\ Goto(r, "asleep")
    /\ UNCHANGED <<value, writerWaiting, reader, views>>

ReaderReacquires(r) ==
    /\ pc[r] = "awake"
    /\ Acquire(r)
    /\ Goto(r, "test")
    /\ UNCHANGED <<value, writerWaiting, reader, views>>

\* Mutant: the view is not counted when it is constructed.
ReaderEntersUncounted(r) ==
    /\ pc[r] = "enter"
    /\ Goto(r, "leave")
    /\ UNCHANGED <<value, writerWaiting, reader, mutex, views>>

\* The constructor of the view: reader++.
ReaderEnters(r) ==
    /\ pc[r] = "enter"
    /\ reader' = reader + 1
    /\ Goto(r, "leave")
    /\ UNCHANGED <<value, writerWaiting, mutex, views>>

\* getReadOnlyView returns and its lock is released; the view is in use.
ReaderUnlocks(r) ==
    /\ pc[r] = "leave"
    /\ Release(r)
    /\ Goto(r, "reading")
    /\ UNCHANGED <<value, writerWaiting, reader, views>>

\* ~ReadOnlyView, first half: reader-- without the mutex.
ReaderExits(r) ==
    /\ pc[r] = "reading"
    /\ reader' = reader - 1
    /\ Goto(r, "notify")
    /\ UNCHANGED <<value, writerWaiting, mutex, views>>

\* ~ReadOnlyView, second half: readerExit.notify_all without the mutex.
ReaderNotifies(r) ==
    /\ pc[r] = "notify"
    /\ NotifyAll(Writers, r, "idle")
    /\ UNCHANGED <<value, writerWaiting, reader, mutex, views>>

-----------------------------------------------------------------------------

\* A condition variable may let a thread go for no reason.
SpuriousWakeup(t) ==
    /\ pc[t] = "asleep"
    /\ Goto(t, "awake")
    /\ UNCHANGED <<value, writerWaiting, reader, mutex, views>>

WriterStep(w) ==
    \/ WriterCalls(w)
    \/ WriterLocks(w)
    \/ WriterGranted(w)
    \/ WriterTests(w)
    \/ WriterBlocks(w)
    \/ WriterReacquires(w)
    \/ Update(w)
    \/ WriterUnlocks(w)

ReaderStep(r) ==
    \/ ReaderLocks(r)
    \/ ReaderTests(r)
    \/ ReaderBlocks(r)
    \/ ReaderReacquires(r)
    \/ ReaderEnters(r)
    \/ ReaderUnlocks(r)
    \/ ReaderExits(r)
    \/ ReaderNotifies(r)

Next ==
    \/ \E w \in Writers : WriterStep(w)
    \/ \E r \in Readers : ReaderCalls(r) \/ ReaderStep(r)
    \/ \E t \in Threads : SpuriousWakeup(t)

Spec == Init /\ [][Next]_vars

\* Every thread that can go on again and again goes on, the mutex starves nobody,
\* and the writers take their views; no reader is obliged to take one and nothing
\* wakes a sleeping thread but a notification.
Fairness ==
    /\ \A w \in Writers : SF_vars(WriterStep(w))
    /\ \A r \in Readers : SF_vars(ReaderStep(r))

FairSpec == Spec /\ Fairness

-----------------------------------------------------------------------------
(* Properties *)

Holding(t) == pc[t] \in {"granted", "test", "block", "viewing", "unlock", "enter", "leave"}
Counted(r) == pc[r] \in {"leave", "reading"}
Viewing(w) == pc[w] \in {"viewing", "unlock"}
WaitsForLock(w) == pc[w] \in {"lock", "granted"}

\* Every variable has its type.
TypeOK ==
    /\ value \in Nat
    /\ writerWaiting \in Nat
    /\ reader \in Nat
    /\ mutex \in Threads \cup {NoThread}
    /\ pc \in [Threads -> WriterStates \cup ReaderStates]
    /\ \A w \in Writers : pc[w] \in WriterStates
    /\ \A r \in Readers : pc[r] \in ReaderStates
    /\ views \in [Threads -> Nat]

\* "It should not be possible to get a view and a readonly view at the same time"
\* nor "to get two views at the same time": while a View exists no ReadOnlyView
\* does, although the latter does not hold the mutex.
Exclusion ==
    \A w \in Writers : pc[w] = "viewing" =>
        /\ \A r \in Readers : pc[r] # "reading"
        /\ \A u \in Writers \ {w} : ~Viewing(u)

\* The predicate a read-only view was waited for holds as long as the view
\* exists, not only when it was tested.
PredicateHolds ==
    \A r \in Readers : Counted(r) => value >= Needed[r]

\* No wake-up of modified is lost: a reader asleep although it could be admitted
\* has a writer on its way that will notify it, because writerWaiting falls before
\* the writer waits for the readers and rises before it has the mutex.
ReaderNotForgotten ==
    \A r \in Readers : pc[r] = "asleep" /\ ReaderAdmitted(r) =>
        \E w \in Writers : pc[w] \in {"test", "block", "asleep", "awake", "viewing"}

\* "will block until the predicate is satisfied": a reader whose predicate becomes
\* true for good once the writers have added their entries gets its view.
ReaderReturns ==
    \A r \in Readers : pc[r] = "lock" ~> pc[r] = "reading"

=============================================================================
