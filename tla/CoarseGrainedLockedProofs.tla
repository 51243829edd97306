--------------------- MODULE CoarseGrainedLockedProofs ---------------------
(***************************************************************************)
(* What the readers-writer lock guarantees for any number of writers and   *)
(* readers: exclusion, stable predicates and no lost wake-up of readers.   *)
(***************************************************************************)
EXTENDS CoarseGrainedLocked, FiniteSetTheorems, TLAPS

-----------------------------------------------------------------------------
(* The inductive invariant *)

CountedReaders == {r \in Readers : Counted(r)}
LockWaiters == {w \in Writers : WaitsForLock(w)}

\* The owner of the mutex is where one holds it, and nobody else is.
MutexOwner == \A t \in Threads : Holding(t) <=> mutex = t

\* The atomic counters count.
Counters ==
    /\ reader = Cardinality(CountedReaders)
    /\ writerWaiting = Cardinality(LockWaiters)

\* No reader is counted while a View exists.
NoReaderInView == \A w \in Writers : Viewing(w) => reader = 0

\* A reader that has been admitted finds its predicate true.
Admitted == \A r \in Readers : pc[r] = "enter" \/ Counted(r) => value >= Needed[r]

\* What has kept a reader out cannot change before it sleeps.
KeptOut == \A r \in Readers : pc[r] = "block" => ~ReaderAdmitted(r)

IInv ==
    /\ TypeOK
    /\ MutexOwner
    /\ Counters
    /\ NoReaderInView
    /\ Admitted
    /\ KeptOut
    /\ ReaderNotForgotten

-----------------------------------------------------------------------------
(* Counting *)

LEMMA CountedFinite ==
    /\ IsFiniteSet(CountedReaders) /\ Cardinality(CountedReaders) \in Nat
    /\ IsFiniteSet(LockWaiters) /\ Cardinality(LockWaiters) \in Nat
<1>1. CountedReaders \subseteq Readers /\ LockWaiters \subseteq Writers
  BY DEF CountedReaders, LockWaiters
<1>. QED  BY <1>1, ThreadsAssumption, FS_Subset, FS_CardinalityType

\* Where everybody is after one thread has gone on.
LEMMA GotoAll ==
    ASSUME TypeOK, NEW t \in Threads, NEW label, Goto(t, label)
    PROVE  \A u \in Threads : pc'[u] = IF u = t THEN label ELSE pc[u]
<1>. QED  BY DEF Goto, TypeOK

LEMMA NotifyAllAll ==
    ASSUME NEW sleepers, NEW t \in Threads, NEW label, NotifyAll(sleepers, t, label)
    PROVE  \A u \in Threads :
            pc'[u] = IF u = t THEN label
                     ELSE IF u \in sleepers /\ pc[u] = "asleep" THEN "awake" ELSE pc[u]
<1>. QED  BY DEF NotifyAll

\* The counters of a step that moves nobody into or out of what they count.
LEMMA CountersKept ==
    ASSUME Counters, UNCHANGED <<reader, writerWaiting>>,
           \A r \in Readers : Counted(r)' <=> Counted(r),
           \A w \in Writers : WaitsForLock(w)' <=> WaitsForLock(w)
    PROVE  Counters'
<1>1. CountedReaders' = CountedReaders /\ LockWaiters' = LockWaiters
  BY DEF CountedReaders, LockWaiters
<1>. QED  BY <1>1 DEF Counters

-----------------------------------------------------------------------------
(* The steps *)

\* A step of a writer that changes none of the counters.
LEMMA QuietWriterKept ==
    ASSUME IInv, NEW w \in Writers,
           \/ WriterLocks(w) \/ WriterTests(w) \/ WriterBlocks(w)
           \/ WriterReacquires(w) \/ WriterUnlocks(w)
    PROVE  IInv'
<1>. USE DEF IInv
<1>1. PICK label \in WriterStates :
        /\ Goto(w, label)
        /\ \/ pc[w] = "lock" /\ label = "granted" /\ Acquire(w)
           \/ pc[w] = "awake" /\ label = "test" /\ Acquire(w)
           \/ pc[w] = "test" /\ label = "viewing" /\ reader = 0 /\ mutex' = mutex
           \/ pc[w] = "test" /\ label = "block" /\ mutex' = mutex
           \/ pc[w] = "block" /\ label = "asleep" /\ Release(w)
           \/ pc[w] = "unlock" /\ label = "idle" /\ Release(w)
  BY DEF WriterLocks, WriterTests, WriterBlocks, WriterReacquires, WriterUnlocks, WriterStates
<1>2. UNCHANGED <<value, writerWaiting, reader, views>>
  BY DEF WriterLocks, WriterTests, WriterBlocks, WriterReacquires, WriterUnlocks
<1>3. w \in Threads /\ w \notin Readers /\ Writers \subseteq Threads /\ Readers \subseteq Threads
  BY ThreadsAssumption DEF Threads
<1>4. \A u \in Threads : pc'[u] = IF u = w THEN label ELSE pc[u]
  BY <1>1, <1>3, GotoAll
<1>5. \A r \in Readers : pc'[r] = pc[r]
  BY <1>3, <1>4
<1>6. TypeOK'
  BY <1>1, <1>2, <1>3, <1>5 DEF TypeOK, Goto, Acquire, Release
<1>7. MutexOwner'
  BY <1>1, <1>3, <1>4, ThreadsAssumption DEF MutexOwner, Holding, Acquire, Release, Threads
<1>8. Counters'
  BY <1>1, <1>2, <1>3, <1>4, CountersKept DEF Counted, WaitsForLock
<1>9. NoReaderInView'
  BY <1>1, <1>2, <1>3, <1>4 DEF NoReaderInView, Viewing
<1>10. Admitted' /\ KeptOut'
  BY <1>2, <1>5 DEF Admitted, KeptOut, Counted, ReaderAdmitted
<1>11. ReaderNotForgotten'
  BY <1>1, <1>2, <1>3, <1>4, <1>5 DEF ReaderNotForgotten, ReaderAdmitted
<1>. QED  BY <1>6, <1>7, <1>8, <1>9, <1>10, <1>11

\* A step of a reader that changes none of the counters.
LEMMA QuietReaderKept ==
    ASSUME IInv, NEW r \in Readers,
           \/ ReaderCalls(r) \/ ReaderLocks(r) \/ ReaderTests(r) \/ ReaderBlocks(r)
           \/ ReaderReacquires(r) \/ ReaderUnlocks(r)
    PROVE  IInv'
<1>. USE DEF IInv
<1>1. PICK label \in ReaderStates :
        /\ Goto(r, label)
        /\ \/ pc[r] = "idle" /\ label = "lock" /\ mutex' = mutex
           \/ pc[r] = "lock" /\ label = "test" /\ Acquire(r)
           \/ pc[r] = "awake" /\ label = "test" /\ Acquire(r)
           \/ pc[r] = "test" /\ label = "enter" /\ ReaderAdmitted(r) /\ mutex' = mutex
           \/ pc[r] = "test" /\ label = "block" /\ ~ReaderAdmitted(r) /\ mutex' = mutex
           \/ pc[r] = "block" /\ label = "asleep" /\ Release(r)
           \/ pc[r] = "leave" /\ label = "reading" /\ Release(r)
  BY DEF ReaderCalls, ReaderLocks, ReaderTests, ReaderBlocks, ReaderReacquires, ReaderUnlocks,
         ReaderStates
<1>2. UNCHANGED <<value, writerWaiting, reader>>
  BY DEF ReaderCalls, ReaderLocks, ReaderTests, ReaderBlocks, ReaderReacquires, ReaderUnlocks
<1>3. r \in Threads /\ r \notin Writers /\ Writers \subseteq Threads /\ Readers \subseteq Threads
  BY ThreadsAssumption DEF Threads
<1>4. \A u \in Threads : pc'[u] = IF u = r THEN label ELSE pc[u]
  BY <1>1, <1>3, GotoAll
<1>5. \A w \in Writers : pc'[w] = pc[w]
  BY <1>3, <1>4
<1>6. views' \in [Threads -> Nat]
  <2>1. views' \in {views, [views EXCEPT ![r] = @ + 1]}
    BY DEF ReaderCalls, ReaderLocks, ReaderTests, ReaderBlocks, ReaderReacquires,
           ReaderUnlocks, TakeView
  <2>. QED  BY <1>3, <2>1 DEF TypeOK
<1>7. TypeOK'
  BY <1>1, <1>2, <1>3, <1>5, <1>6 DEF TypeOK, Goto, Acquire, Release
<1>8. MutexOwner'
  BY <1>1, <1>3, <1>4, ThreadsAssumption DEF MutexOwner, Holding, Acquire, Release, Threads
<1>9. Counters'
  BY <1>1, <1>2, <1>3, <1>4, CountersKept DEF Counted, WaitsForLock
<1>10. NoReaderInView'
  BY <1>2, <1>5 DEF NoReaderInView, Viewing
<1>11. Admitted'
  BY <1>1, <1>2, <1>3, <1>4 DEF Admitted, Counted, ReaderAdmitted
<1>12. KeptOut'
  BY <1>1, <1>2, <1>3, <1>4 DEF KeptOut, ReaderAdmitted
<1>13. ReaderNotForgotten'
  BY <1>1, <1>2, <1>3, <1>4, <1>5 DEF ReaderNotForgotten, KeptOut, ReaderAdmitted
<1>. QED  BY <1>7, <1>8, <1>9, <1>10, <1>11, <1>12, <1>13

\* writerWaiting++: no more readers are admitted than before.
LEMMA WriterCallsKept ==
    ASSUME IInv, NEW w \in Writers, WriterCalls(w)
    PROVE  IInv'
<1>. USE DEF IInv
<1>1. w \in Threads /\ w \notin Readers /\ Writers \subseteq Threads /\ Readers \subseteq Threads
  BY ThreadsAssumption DEF Threads
<1>2. /\ pc[w] = "idle" /\ Goto(w, "lock") /\ TakeView(w)
      /\ writerWaiting' = writerWaiting + 1
      /\ UNCHANGED <<value, reader, mutex>>
  BY DEF WriterCalls
<1>3. \A u \in Threads : pc'[u] = IF u = w THEN "lock" ELSE pc[u]
  BY <1>1, <1>2, GotoAll
<1>4. TypeOK'
  BY <1>1, <1>2 DEF TypeOK, Goto, TakeView, WriterStates
<1>5. MutexOwner'
  BY <1>1, <1>2, <1>3 DEF MutexOwner, Holding
<1>6. Counters'
  <2>1. CountedReaders' = CountedReaders
    BY <1>1, <1>3 DEF CountedReaders, Counted
  <2>2. LockWaiters' = LockWaiters \cup {w} /\ w \notin LockWaiters
    BY <1>1, <1>2, <1>3 DEF LockWaiters, WaitsForLock
  <2>3. Cardinality(LockWaiters') = Cardinality(LockWaiters) + 1
    BY <2>2, CountedFinite, FS_AddElement
  <2>. QED  BY <1>2, <2>1, <2>3 DEF Counters
<1>7. NoReaderInView'
  BY <1>1, <1>2, <1>3 DEF NoReaderInView, Viewing
<1>8. Admitted'
  BY <1>1, <1>2, <1>3 DEF Admitted, Counted
<1>9. writerWaiting' # 0
  BY <1>2 DEF TypeOK
<1>10. KeptOut' /\ ReaderNotForgotten'
  BY <1>9 DEF KeptOut, ReaderNotForgotten, ReaderAdmitted
<1>. QED  BY <1>4, <1>5, <1>6, <1>7, <1>8, <1>10

\* writerWaiting--: the writer is now on its way to its view.
LEMMA WriterGrantedKept ==
    ASSUME IInv, NEW w \in Writers, WriterGranted(w)
    PROVE  IInv'
<1>. USE DEF IInv
<1>1. w \in Threads /\ w \notin Readers /\ Writers \subseteq Threads /\ Readers \subseteq Threads
  BY ThreadsAssumption DEF Threads
<1>2. /\ pc[w] = "granted" /\ Goto(w, "test")
      /\ writerWaiting' = writerWaiting - 1
      /\ UNCHANGED <<value, reader, mutex, views>>
  BY DEF WriterGranted
<1>3. \A u \in Threads : pc'[u] = IF u = w THEN "test" ELSE pc[u]
  BY <1>1, <1>2, GotoAll
<1>4. Counters' /\ writerWaiting' \in Nat
  <2>1. CountedReaders' = CountedReaders
    BY <1>1, <1>3 DEF CountedReaders, Counted
  <2>2. LockWaiters' = LockWaiters \ {w} /\ w \in LockWaiters
    BY <1>1, <1>2, <1>3 DEF LockWaiters, WaitsForLock
  <2>3. /\ IsFiniteSet(LockWaiters')
        /\ Cardinality(LockWaiters') = Cardinality(LockWaiters) - 1
    BY <2>2, CountedFinite, FS_RemoveElement
  <2>4. Cardinality(LockWaiters') \in Nat
    BY <2>3, FS_CardinalityType
  <2>. QED  BY <1>2, <2>1, <2>3, <2>4 DEF Counters
<1>5. TypeOK'
  BY <1>1, <1>2, <1>4 DEF TypeOK, Goto, WriterStates
<1>6. MutexOwner'
  BY <1>1, <1>2, <1>3 DEF MutexOwner, Holding
<1>7. NoReaderInView'
  BY <1>1, <1>2, <1>3 DEF NoReaderInView, Viewing
<1>8. Admitted'
  BY <1>1, <1>2, <1>3 DEF Admitted, Counted
<1>9. KeptOut'
  <2>1. \A r \in Readers : pc'[r] # "block"
    BY <1>1, <1>2, <1>3 DEF MutexOwner, Holding
  <2>. QED  BY <2>1 DEF KeptOut
<1>10. ReaderNotForgotten'
  BY <1>1, <1>3 DEF ReaderNotForgotten
<1>. QED  BY <1>4, <1>5, <1>6, <1>7, <1>8, <1>9, <1>10

\* While a View exists no reader is counted or about to be.
LEMMA NobodyReads ==
    ASSUME IInv, NEW w \in Writers, Viewing(w)
    PROVE  \A r \in Readers : ~Counted(r) /\ pc[r] # "enter"
<1>. USE DEF IInv
<1>1. Cardinality(CountedReaders) = 0
  BY DEF NoReaderInView, Counters
<1>2. CountedReaders = {}
  BY <1>1, CountedFinite, FS_EmptySet
<1>3. \A r \in Readers : pc[r] # "enter"
  BY ThreadsAssumption DEF MutexOwner, Holding, Viewing, Threads
<1>. QED  BY <1>2, <1>3 DEF CountedReaders

\* The value changes; every sleeping reader is woken to test it.
LEMMA UpdateKept ==
    ASSUME IInv, NEW w \in Writers, Update(w)
    PROVE  IInv'
<1>. USE DEF IInv
<1>1. w \in Threads /\ w \notin Readers /\ Writers \subseteq Threads /\ Readers \subseteq Threads
  BY ThreadsAssumption DEF Threads
<1>2. /\ pc[w] = "viewing" /\ NotifyAll(Readers, w, "unlock")
      /\ value' \in Nat
      /\ UNCHANGED <<writerWaiting, reader, mutex, views>>
  BY DEF Update, Change
<1>3. \A u \in Threads :
        pc'[u] = IF u = w THEN "unlock"
                 ELSE IF u \in Readers /\ pc[u] = "asleep" THEN "awake" ELSE pc[u]
  BY <1>1, <1>2, NotifyAllAll
<1>4. \A r \in Readers : ~Counted(r) /\ pc[r] # "enter" /\ pc[r] # "block"
  <2>1. \A r \in Readers : ~Counted(r) /\ pc[r] # "enter"
    BY <1>2, NobodyReads DEF Viewing
  <2>2. \A r \in Readers : pc[r] # "block"
    BY <1>1, <1>2 DEF MutexOwner, Holding
  <2>. QED  BY <2>1, <2>2
<1>5. TypeOK'
  <2>1. pc' \in [Threads -> WriterStates \cup ReaderStates]
    BY <1>2 DEF NotifyAll, TypeOK, WriterStates
  <2>2. \A v \in Writers : pc'[v] \in WriterStates
    BY <1>1, <1>3, ThreadsAssumption DEF TypeOK, WriterStates
  <2>3. \A r \in Readers : pc'[r] \in ReaderStates
    BY <1>1, <1>3 DEF TypeOK, ReaderStates
  <2>. QED  BY <1>2, <2>1, <2>2, <2>3 DEF TypeOK
<1>6. MutexOwner'
  BY <1>1, <1>2, <1>3 DEF MutexOwner, Holding
<1>7. Counters'
  BY <1>1, <1>2, <1>3, ThreadsAssumption, CountersKept DEF Counted, WaitsForLock
<1>8. NoReaderInView'
  BY <1>1, <1>2, <1>3, ThreadsAssumption DEF NoReaderInView, Viewing
<1>9. Admitted'
  BY <1>1, <1>3, <1>4 DEF Admitted, Counted
<1>10. KeptOut'
  BY <1>1, <1>3, <1>4 DEF KeptOut
<1>11. ReaderNotForgotten'
  BY <1>1, <1>3 DEF ReaderNotForgotten
<1>. QED  BY <1>5, <1>6, <1>7, <1>8, <1>9, <1>10, <1>11

\* reader++, under the mutex, so that no writer is in a View.
LEMMA ReaderEntersKept ==
    ASSUME IInv, NEW r \in Readers, ReaderEnters(r)
    PROVE  IInv'
<1>. USE DEF IInv
<1>1. r \in Threads /\ r \notin Writers /\ Writers \subseteq Threads /\ Readers \subseteq Threads
  BY ThreadsAssumption DEF Threads
<1>2. /\ pc[r] = "enter" /\ Goto(r, "leave")
      /\ reader' = reader + 1
      /\ UNCHANGED <<value, writerWaiting, mutex, views>>
  BY DEF ReaderEnters
<1>3. \A u \in Threads : pc'[u] = IF u = r THEN "leave" ELSE pc[u]
  BY <1>1, <1>2, GotoAll
<1>4. TypeOK'
  BY <1>1, <1>2 DEF TypeOK, Goto, ReaderStates
<1>5. MutexOwner'
  BY <1>1, <1>2, <1>3 DEF MutexOwner, Holding
<1>6. Counters'
  <2>1. LockWaiters' = LockWaiters
    BY <1>1, <1>3 DEF LockWaiters, WaitsForLock
  <2>2. CountedReaders' = CountedReaders \cup {r} /\ r \notin CountedReaders
    BY <1>1, <1>2, <1>3 DEF CountedReaders, Counted
  <2>3. Cardinality(CountedReaders') = Cardinality(CountedReaders) + 1
    BY <2>2, CountedFinite, FS_AddElement
  <2>. QED  BY <1>2, <2>1, <2>3 DEF Counters
<1>7. NoReaderInView'
  <2>1. \A w \in Writers : ~Viewing(w)
    BY <1>1, <1>2 DEF MutexOwner, Holding, Viewing
  <2>. QED  BY <1>1, <1>3, <2>1 DEF NoReaderInView, Viewing
<1>8. Admitted' /\ KeptOut'
  BY <1>1, <1>2, <1>3 DEF Admitted, KeptOut, Counted, ReaderAdmitted
<1>9. ReaderNotForgotten'
  BY <1>1, <1>2, <1>3 DEF ReaderNotForgotten, ReaderAdmitted
<1>. QED  BY <1>4, <1>5, <1>6, <1>7, <1>8, <1>9

\* reader--, without the mutex.
LEMMA ReaderExitsKept ==
    ASSUME IInv, NEW r \in Readers, ReaderExits(r)
    PROVE  IInv'
<1>. USE DEF IInv
<1>1. r \in Threads /\ r \notin Writers /\ Writers \subseteq Threads /\ Readers \subseteq Threads
  BY ThreadsAssumption DEF Threads
<1>2. /\ pc[r] = "reading" /\ Goto(r, "notify")
      /\ reader' = reader - 1
      /\ UNCHANGED <<value, writerWaiting, mutex, views>>
  BY DEF ReaderExits
<1>3. \A u \in Threads : pc'[u] = IF u = r THEN "notify" ELSE pc[u]
  BY <1>1, <1>2, GotoAll
<1>4. Counters' /\ reader' \in Nat
  <2>1. LockWaiters' = LockWaiters
    BY <1>1, <1>3 DEF LockWaiters, WaitsForLock
  <2>2. CountedReaders' = CountedReaders \ {r} /\ r \in CountedReaders
    BY <1>1, <1>2, <1>3 DEF CountedReaders, Counted
  <2>3. /\ IsFiniteSet(CountedReaders')
        /\ Cardinality(CountedReaders') = Cardinality(CountedReaders) - 1
    BY <2>2, CountedFinite, FS_RemoveElement
  <2>4. Cardinality(CountedReaders') \in Nat
    BY <2>3, FS_CardinalityType
  <2>. QED  BY <1>2, <2>1, <2>3, <2>4 DEF Counters
<1>5. TypeOK'
  BY <1>1, <1>2, <1>4 DEF TypeOK, Goto, ReaderStates
<1>6. MutexOwner'
  BY <1>1, <1>2, <1>3 DEF MutexOwner, Holding
<1>7. NoReaderInView'
  <2>1. \A w \in Writers : ~Viewing(w)
    BY <1>2, NobodyReads DEF Counted
  <2>. QED  BY <1>1, <1>3, <2>1 DEF NoReaderInView, Viewing
<1>8. Admitted' /\ KeptOut'
  BY <1>1, <1>2, <1>3 DEF Admitted, KeptOut, Counted, ReaderAdmitted
<1>9. ReaderNotForgotten'
  BY <1>1, <1>2, <1>3 DEF ReaderNotForgotten, ReaderAdmitted
<1>. QED  BY <1>4, <1>5, <1>6, <1>7, <1>8, <1>9

\* readerExit.notify_all: writers wake up to test again.
LEMMA ReaderNotifiesKept ==
    ASSUME IInv, NEW r \in Readers, ReaderNotifies(r)
    PROVE  IInv'
<1>. USE DEF IInv
<1>1. r \in Threads /\ r \notin Writers /\ Writers \subseteq Threads /\ Readers \subseteq Threads
  BY ThreadsAssumption DEF Threads
<1>2. /\ pc[r] = "notify" /\ NotifyAll(Writers, r, "idle")
      /\ UNCHANGED <<value, writerWaiting, reader, mutex, views>>
  BY DEF ReaderNotifies
<1>3. \A u \in Threads :
        pc'[u] = IF u = r THEN "idle"
                 ELSE IF u \in Writers /\ pc[u] = "asleep" THEN "awake" ELSE pc[u]
  BY <1>1, <1>2, NotifyAllAll
<1>4. TypeOK'
  <2>1. pc' \in [Threads -> WriterStates \cup ReaderStates]
    BY <1>2 DEF NotifyAll, TypeOK, WriterStates
  <2>2. \A w \in Writers : pc'[w] \in WriterStates
    BY <1>1, <1>3 DEF TypeOK, WriterStates
  <2>3. \A u \in Readers : pc'[u] \in ReaderStates
    BY <1>1, <1>3, ThreadsAssumption DEF TypeOK, ReaderStates
  <2>. QED  BY <1>2, <2>1, <2>2, <2>3 DEF TypeOK
<1>5. MutexOwner'
  BY <1>1, <1>2, <1>3 DEF MutexOwner, Holding
<1>6. Counters'
  BY <1>1, <1>2, <1>3, ThreadsAssumption, CountersKept DEF Counted, WaitsForLock
<1>7. NoReaderInView'
  BY <1>1, <1>2, <1>3 DEF NoReaderInView, Viewing
<1>8. \A u \in Readers : pc'[u] = IF u = r THEN "idle" ELSE pc[u]
  BY <1>1, <1>3, ThreadsAssumption
<1>9. Admitted' /\ KeptOut'
  BY <1>2, <1>8 DEF Admitted, KeptOut, Counted, ReaderAdmitted
<1>10. ReaderNotForgotten'
  BY <1>1, <1>2, <1>3, <1>8 DEF ReaderNotForgotten, ReaderAdmitted
<1>. QED  BY <1>4, <1>5, <1>6, <1>7, <1>9, <1>10

LEMMA SpuriousWakeupKept ==
    ASSUME IInv, NEW t \in Threads, SpuriousWakeup(t)
    PROVE  IInv'
<1>. USE DEF IInv
<1>1. Writers \subseteq Threads /\ Readers \subseteq Threads
  BY DEF Threads
<1>2. /\ pc[t] = "asleep" /\ Goto(t, "awake")
      /\ UNCHANGED <<value, writerWaiting, reader, mutex, views>>
  BY DEF SpuriousWakeup
<1>3. \A u \in Threads : pc'[u] = IF u = t THEN "awake" ELSE pc[u]
  BY <1>2, GotoAll
<1>4. TypeOK'
  BY <1>1, <1>2, <1>3 DEF TypeOK, Goto, WriterStates, ReaderStates
<1>5. MutexOwner'
  BY <1>2, <1>3 DEF MutexOwner, Holding
<1>6. Counters'
  BY <1>1, <1>2, <1>3, CountersKept DEF Counted, WaitsForLock
<1>7. NoReaderInView'
  BY <1>1, <1>2, <1>3 DEF NoReaderInView, Viewing
<1>8. Admitted' /\ KeptOut'
  BY <1>1, <1>2, <1>3 DEF Admitted, KeptOut, Counted, ReaderAdmitted
<1>9. ReaderNotForgotten'
  BY <1>1, <1>2, <1>3 DEF ReaderNotForgotten, ReaderAdmitted
<1>. QED  BY <1>4, <1>5, <1>6, <1>7, <1>8, <1>9

-----------------------------------------------------------------------------
(* The theorems *)

LEMMA InitIInv == Init => IInv
<1>. SUFFICES ASSUME Init PROVE IInv
  OBVIOUS
<1>1. \A t \in Threads : pc[t] = "idle"
  BY DEF Init
<1>2. Readers \subseteq Threads /\ Writers \subseteq Threads
  BY DEF Threads
<1>3. TypeOK
  BY <1>2 DEF Init, TypeOK, WriterStates, ReaderStates
<1>4. MutexOwner
  BY <1>1, ThreadsAssumption DEF Init, MutexOwner, Holding, Threads
<1>5. Counters
  <2>1. CountedReaders = {} /\ LockWaiters = {}
    BY <1>1, <1>2 DEF CountedReaders, LockWaiters, Counted, WaitsForLock
  <2>2. Cardinality(CountedReaders) = 0 /\ Cardinality(LockWaiters) = 0
    BY <2>1, FS_EmptySet
  <2>. QED  BY <2>2 DEF Init, Counters
<1>6. NoReaderInView /\ Admitted /\ KeptOut /\ ReaderNotForgotten
  BY <1>1, <1>2 DEF NoReaderInView, Admitted, KeptOut, ReaderNotForgotten, Viewing, Counted
<1>. QED  BY <1>3, <1>4, <1>5, <1>6 DEF IInv

LEMMA StepIInv == IInv /\ [Next]_vars => IInv'
<1>. SUFFICES ASSUME IInv, [Next]_vars PROVE IInv'
  OBVIOUS
<1>1. ASSUME NEW w \in Writers, WriterStep(w)
      PROVE  IInv'
  BY <1>1, WriterCallsKept, WriterGrantedKept, QuietWriterKept, UpdateKept DEF WriterStep
<1>2. ASSUME NEW r \in Readers, ReaderCalls(r) \/ ReaderStep(r)
      PROVE  IInv'
  BY <1>2, QuietReaderKept, ReaderEntersKept, ReaderExitsKept, ReaderNotifiesKept
     DEF ReaderStep
<1>3. ASSUME NEW t \in Threads, SpuriousWakeup(t)
      PROVE  IInv'
  BY <1>3, SpuriousWakeupKept
<1>4. CASE UNCHANGED vars
  BY <1>4 DEF vars, IInv, TypeOK, MutexOwner, Counters, NoReaderInView, Admitted, KeptOut,
              ReaderNotForgotten, CountedReaders, LockWaiters, Holding, Counted, Viewing,
              WaitsForLock, ReaderAdmitted
<1>. QED  BY <1>1, <1>2, <1>3, <1>4 DEF Next

\* Every variable of the lock keeps its type: in particular the two unsigned
\* counters never fall below zero (CoarseGrainedLocked.hpp:16,21).
THEOREM LockTypeCorrect == Spec => []TypeOK
<1>1. IInv => TypeOK
  BY DEF IInv
<1>. QED  BY InitIInv, StepIInv, <1>1, PTL DEF Spec

\* A View excludes every other view, for any number of threads (the comments of
\* test/cracen2/util/CoarseGrainedLocked.cpp:51,62).
THEOREM LockExclusion == Spec => []Exclusion
<1>1. ASSUME IInv PROVE Exclusion
  <2>. SUFFICES ASSUME NEW w \in Writers, pc[w] = "viewing"
                PROVE  /\ \A r \in Readers : pc[r] # "reading"
                       /\ \A u \in Writers \ {w} : ~Viewing(u)
    BY DEF Exclusion
  <2>1. \A r \in Readers : pc[r] # "reading"
    BY <1>1, NobodyReads DEF Viewing, Counted
  <2>2. \A u \in Writers \ {w} : ~Viewing(u)
    BY <1>1 DEF IInv, MutexOwner, Holding, Viewing, Threads
  <2>. QED  BY <2>1, <2>2
<1>. QED  BY InitIInv, StepIInv, <1>1, PTL DEF Spec

\* The predicate a ReadOnlyView was waited for holds while the view exists
\* (CoarseGrainedLocked.hpp:107-111).
THEOREM LockPredicateHolds == Spec => []PredicateHolds
<1>1. IInv => PredicateHolds
  BY DEF IInv, Admitted, PredicateHolds
<1>. QED  BY InitIInv, StepIInv, <1>1, PTL DEF Spec

\* No notification of the condition variable modified is lost
\* (CoarseGrainedLocked.hpp:37-39,102,109).
THEOREM LockReaderNotForgotten == Spec => []ReaderNotForgotten
<1>1. IInv => ReaderNotForgotten
  BY DEF IInv
<1>. QED  BY InitIInv, StepIInv, <1>1, PTL DEF Spec

=============================================================================
