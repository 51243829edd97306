------------------------- MODULE AtomicQueueProofs -------------------------
(***************************************************************************)
(* What the bounded queue guarantees for any number of threads and any     *)
(* capacity: notify_one wakes enough of them, and nobody sleeps on after   *)
(* destroy().                                                              *)
(***************************************************************************)
EXTENDS AtomicQueue, FiniteSetTheorems, TLAPS

-----------------------------------------------------------------------------
(* The inductive invariant *)

\* The first notification of destroy() has left no pop asleep.
TakersReleased == destroyer \in {"pushed", "done"} => Asleep(Takers) = {}

IInv ==
    /\ TypeOK
    /\ TakersSuffice
    /\ PushersSuffice
    /\ TakersReleased
    /\ NobodySleepsOn

-----------------------------------------------------------------------------
(* Counting *)

LEMMA GroupFinite ==
    /\ IsFiniteSet(Takers) /\ IsFiniteSet(Pushers)
    /\ Takers \subseteq Threads /\ Pushers \subseteq Threads
    /\ Takers \cap Pushers = {}
<1>1. IsFiniteSet(Takers)
  BY QueueThreadsAssumption, FS_Union DEF Takers
<1>. QED  BY <1>1, QueueThreadsAssumption DEF Takers, Threads

\* A set that loses one element at most.
LEMMA LosesOne ==
    ASSUME NEW S, NEW T, NEW t, IsFiniteSet(S), IsFiniteSet(T), S \ {t} \subseteq T
    PROVE  Cardinality(S) - 1 <= Cardinality(T)
<1>1. /\ IsFiniteSet(S \ {t})
      /\ Cardinality(S \ {t}) = IF t \in S THEN Cardinality(S) - 1 ELSE Cardinality(S)
  BY FS_RemoveElement
<1>3. Cardinality(S) \in Nat /\ Cardinality(T) \in Nat /\ Cardinality(S \ {t}) \in Nat
  BY <1>1, FS_CardinalityType
<1>2. Cardinality(S \ {t}) <= Cardinality(T)
  BY FS_Subset
<1>. QED  BY <1>1, <1>2, <1>3

\* A set that gains one element at least.
LEMMA GainsOne ==
    ASSUME NEW S, NEW T, NEW u, IsFiniteSet(S), IsFiniteSet(T), u \notin S,
           S \cup {u} \subseteq T
    PROVE  Cardinality(S) + 1 <= Cardinality(T)
<1>1. IsFiniteSet(S \cup {u}) /\ Cardinality(S \cup {u}) = Cardinality(S) + 1
  BY FS_AddElement
<1>2. Cardinality(S \cup {u}) <= Cardinality(T)
  BY FS_Subset
<1>. QED  BY <1>1, <1>2, FS_CardinalityType

LEMMA WokenFinite ==
    ASSUME NEW group, IsFiniteSet(group)
    PROVE  /\ IsFiniteSet(Woken(group)) /\ Cardinality(Woken(group)) \in Nat
           /\ IsFiniteSet(Woken(group)') /\ Cardinality(Woken(group)') \in Nat
<1>1. Woken(group) \subseteq group /\ Woken(group)' \subseteq group
  BY DEF Woken
<1>. QED  BY <1>1, FS_Subset, FS_CardinalityType

-----------------------------------------------------------------------------
(* What a step does to the sleepers and the woken of a group *)

\* A group of which nobody moves.
LEMMA GroupKept ==
    ASSUME NEW group, \A u \in group : pc'[u] = pc[u]
    PROVE  Asleep(group)' = Asleep(group) /\ Woken(group)' = Woken(group)
<1>. QED  BY DEF Asleep, Woken

\* A call returns and notifies: its own group loses one thread on its way, the group
\* it notifies wins one if somebody in it sleeps on.
LEMMA ReturnMoves ==
    ASSUME TypeOK, NEW own, NEW group, NEW t \in own, AtMutex(t),
           own \subseteq Threads, group \subseteq Threads, own \cap group = {},
           IsFiniteSet(own), IsFiniteSet(group),
           pc' \in ReturnNotifyingOne(t, group)
    PROVE  /\ pc' \in [Threads -> ThreadStates]
           /\ Asleep(own)' = Asleep(own)
           /\ Cardinality(Woken(own)) - 1 <= Cardinality(Woken(own)')
           /\ Asleep(group)' # {} =>
                /\ Asleep(group) # {}
                /\ Cardinality(Woken(group)) + 1 <= Cardinality(Woken(group)')
<1>1. t \in Threads /\ t \notin group
  OBVIOUS
<1>2. CASE Asleep(group) = {}
  <2>1. pc' = [pc EXCEPT ![t] = "idle"]
    BY <1>2 DEF ReturnNotifyingOne
  <2>2. \A u \in Threads : pc'[u] = IF u = t THEN "idle" ELSE pc[u]
    BY <2>1, <1>1 DEF TypeOK
  <2>3. Asleep(own)' = Asleep(own)
    BY <2>2 DEF Asleep, AtMutex
  <2>4. Woken(own) \ {t} \subseteq Woken(own)'
    BY <2>2 DEF Woken
  <2>5. Asleep(group)' = {}
    BY <2>2, <1>2, <1>1 DEF Asleep
  <2>6. pc' \in [Threads -> ThreadStates]
    BY <2>1 DEF TypeOK, ThreadStates
  <2>. QED  BY <2>3, <2>4, <2>5, <2>6, LosesOne, WokenFinite
<1>3. CASE Asleep(group) # {}
  <2>1. PICK u \in Asleep(group) :
            pc' = [[pc EXCEPT ![t] = "idle"] EXCEPT ![u] = "awake"]
    BY <1>3 DEF ReturnNotifyingOne
  <2>2. u \in group /\ u \in Threads /\ pc[u] = "asleep" /\ u # t /\ u \notin own
    BY <2>1, <1>1 DEF Asleep
  <2>3. \A v \in Threads :
            pc'[v] = IF v = u THEN "awake" ELSE IF v = t THEN "idle" ELSE pc[v]
    BY <2>1, <2>2, <1>1 DEF TypeOK
  <2>4. Asleep(own)' = Asleep(own)
    BY <2>2, <2>3 DEF Asleep, AtMutex
  <2>5. Woken(own) \ {t} \subseteq Woken(own)'
    BY <2>2, <2>3 DEF Woken
  <2>6. Woken(group) \cup {u} \subseteq Woken(group)' /\ u \notin Woken(group)
    BY <2>2, <2>3, <1>1 DEF Woken
  <2>7. pc' \in [Threads -> ThreadStates]
    BY <2>1 DEF TypeOK, ThreadStates
  <2>8. Cardinality(Woken(group)) + 1 <= Cardinality(Woken(group)')
    BY <2>6, GainsOne, WokenFinite
  <2>. QED  BY <1>3, <2>4, <2>5, <2>7, <2>8, LosesOne, WokenFinite
<1>. QED  BY <1>2, <1>3

\* One thread moves on its own, the queue stays as it is.
LEMMA OneMoves ==
    ASSUME TypeOK, NEW t \in Threads, NEW label \in ThreadStates,
           pc' = [pc EXCEPT ![t] = label]
    PROVE  /\ pc' \in [Threads -> ThreadStates]
           /\ \A u \in Threads : pc'[u] = IF u = t THEN label ELSE pc[u]
<1>. QED  BY DEF TypeOK

-----------------------------------------------------------------------------
(* The steps *)

LEMMA CallKept ==
    ASSUME IInv, NEW t \in Threads, Call(t)
    PROVE  IInv'
<1>1. pc' \in [Threads -> ThreadStates] /\ \A u \in Threads : pc'[u] = IF u = t THEN "called" ELSE pc[u]
  BY OneMoves DEF IInv, Call, ThreadStates
<1>2. /\ Asleep(Takers)' = Asleep(Takers) /\ Woken(Takers)' = Woken(Takers)
      /\ Asleep(Pushers)' = Asleep(Pushers) /\ Woken(Pushers)' = Woken(Pushers)
      /\ Asleep(Threads)' = Asleep(Threads)
  BY <1>1, GroupFinite DEF Call, Asleep, Woken
<1>3. UNCHANGED <<data, active, destroyer>>
  BY DEF Call
<1>. QED  BY <1>1, <1>2, <1>3
  DEF IInv, TypeOK, TakersSuffice, PushersSuffice, TakersReleased, NobodySleepsOn

\* Somebody stops to sleep without having been notified.
LEMMA WakeupKept ==
    ASSUME IInv, NEW t \in Threads, SpuriousWakeup(t) \/ Expires(t)
    PROVE  IInv'
<1>1. PICK label \in {"awake", "expired"} : pc' = [pc EXCEPT ![t] = label]
  BY DEF SpuriousWakeup, Expires
<1>2. pc' \in [Threads -> ThreadStates] /\ \A u \in Threads : pc'[u] = IF u = t THEN label ELSE pc[u]
  BY <1>1, OneMoves DEF IInv, ThreadStates
<1>3. UNCHANGED <<data, active, destroyer>>
  BY DEF SpuriousWakeup, Expires
<1>4. ASSUME NEW group, group \subseteq Threads, IsFiniteSet(group)
      PROVE  /\ Asleep(group)' \subseteq Asleep(group)
             /\ Cardinality(Woken(group)) <= Cardinality(Woken(group)')
  <2>1. Asleep(group)' \subseteq Asleep(group) /\ Woken(group) \subseteq Woken(group)'
    BY <1>1, <1>2, <1>4 DEF Asleep, Woken
  <2>. QED  BY <2>1, <1>4, WokenFinite, FS_Subset
<1>5. TypeOK'
  BY <1>2, <1>3 DEF IInv, TypeOK
<1>6. TakersSuffice' /\ PushersSuffice'
  BY <1>3, <1>4, GroupFinite, WokenFinite, MaxSizeAssumption
    DEF IInv, TypeOK, TakersSuffice, PushersSuffice
<1>7. Asleep(Threads)' \subseteq Asleep(Threads)
  BY <1>1, <1>2 DEF Asleep
<1>. QED  BY <1>3, <1>4, <1>5, <1>6, <1>7, GroupFinite DEF IInv, TakersReleased, NobodySleepsOn

LEMMA ThrowsKept ==
    ASSUME IInv, NEW t \in Threads, Throws(t)
    PROVE  IInv'
<1>1. pc' \in [Threads -> ThreadStates] /\ \A u \in Threads : pc'[u] = IF u = t THEN "thrown" ELSE pc[u]
  BY OneMoves DEF IInv, Throws, ThreadStates
<1>2. UNCHANGED <<data, active, destroyer>> /\ ~active
  BY DEF Throws
<1>3. /\ Asleep(Takers)' = Asleep(Takers)
      /\ Asleep(Threads)' = Asleep(Threads)
  BY <1>1, GroupFinite DEF Throws, AtMutex, Asleep
<1>. QED  BY <1>1, <1>2, <1>3
  DEF IInv, TypeOK, TakersSuffice, PushersSuffice, TakersReleased, NobodySleepsOn

LEMMA PushesKept ==
    ASSUME IInv, NEW p \in Pushers, Pushes(p)
    PROVE  IInv'
<1>1. /\ pc' \in [Threads -> ThreadStates]
      /\ Asleep(Pushers)' = Asleep(Pushers)
      /\ Cardinality(Woken(Pushers)) - 1 <= Cardinality(Woken(Pushers)')
      /\ Asleep(Takers)' # {} =>
            /\ Asleep(Takers) # {}
            /\ Cardinality(Woken(Takers)) + 1 <= Cardinality(Woken(Takers)')
  BY ReturnMoves, GroupFinite DEF IInv, Pushes
<1>2. data' \in Seq(Values) /\ Len(data') = Len(data) + 1 /\ Len(data') <= MaxSize
  BY MaxSizeAssumption DEF IInv, TypeOK, Pushes
<1>3. active /\ destroyer = "none" /\ UNCHANGED <<active, destroyer>>
  BY DEF IInv, TypeOK, Pushes
<1>4. TypeOK'
  BY <1>1, <1>2, <1>3 DEF IInv, TypeOK
<1>5. TakersSuffice'
  BY <1>1, <1>2, <1>3, GroupFinite, WokenFinite DEF IInv, TypeOK, TakersSuffice
<1>6. PushersSuffice'
  BY <1>1, <1>2, <1>3, GroupFinite, WokenFinite, MaxSizeAssumption
    DEF IInv, TypeOK, PushersSuffice
<1>. QED  BY <1>3, <1>4, <1>5, <1>6 DEF IInv, TakersReleased, NobodySleepsOn

LEMMA TakesKept ==
    ASSUME IInv, NEW c \in Takers, Takes(c)
    PROVE  IInv'
<1>1. /\ pc' \in [Threads -> ThreadStates]
      /\ Asleep(Takers)' = Asleep(Takers)
      /\ Cardinality(Woken(Takers)) - 1 <= Cardinality(Woken(Takers)')
      /\ Asleep(Pushers)' # {} =>
            /\ Asleep(Pushers) # {}
            /\ Cardinality(Woken(Pushers)) + 1 <= Cardinality(Woken(Pushers)')
  BY ReturnMoves, GroupFinite DEF IInv, Takes
<1>2. data' \in Seq(Values) /\ Len(data') = Len(data) - 1 /\ Len(data') <= MaxSize
  BY MaxSizeAssumption DEF IInv, TypeOK, Takes
<1>3. active /\ destroyer = "none" /\ UNCHANGED <<active, destroyer>>
  BY DEF IInv, TypeOK, Takes
<1>4. TypeOK'
  BY <1>1, <1>2, <1>3 DEF IInv, TypeOK
<1>5. TakersSuffice'
  BY <1>1, <1>2, <1>3, GroupFinite, WokenFinite DEF IInv, TypeOK, TakersSuffice
<1>6. PushersSuffice'
  BY <1>1, <1>2, <1>3, GroupFinite, WokenFinite, MaxSizeAssumption
    DEF IInv, TypeOK, PushersSuffice
<1>. QED  BY <1>3, <1>4, <1>5, <1>6 DEF IInv, TakersReleased, NobodySleepsOn

LEMMA PushWaitsKept ==
    ASSUME IInv, NEW p \in Pushers, PushWaits(p)
    PROVE  IInv'
<1>1. pc' \in [Threads -> ThreadStates] /\ \A u \in Threads : pc'[u] = IF u = p THEN "asleep" ELSE pc[u]
  BY OneMoves, GroupFinite DEF IInv, PushWaits, ThreadStates
<1>2. Asleep(Takers)' = Asleep(Takers) /\ Woken(Takers)' = Woken(Takers)
  BY <1>1, GroupKept, GroupFinite
<1>3. /\ UNCHANGED <<data, active, destroyer>> /\ active /\ destroyer = "none"
      /\ MaxSize - Len(data) = 0
  <2>1. UNCHANGED <<data, active, destroyer>> /\ active /\ Len(data) = MaxSize
    BY DEF PushWaits
  <2>2. destroyer = "none"
    BY <2>1 DEF IInv, TypeOK
  <2>. QED  BY <2>1, <2>2, MaxSizeAssumption
<1>4. PushersSuffice'
  BY <1>3, GroupFinite, WokenFinite DEF PushersSuffice
<1>. QED  BY <1>1, <1>2, <1>3, <1>4
  DEF IInv, TypeOK, TakersSuffice, TakersReleased, NobodySleepsOn

\* A pop falls asleep or a tryPop gives up: the queue is empty.
LEMMA NothingToTakeKept ==
    ASSUME IInv, NEW c \in Takers, TakeWaits(c) \/ TryPopFails(c)
    PROVE  IInv'
<1>1. PICK label \in {"asleep", "idle"} : pc' = [pc EXCEPT ![c] = label]
  BY DEF TakeWaits, TryPopFails
<1>2. pc' \in [Threads -> ThreadStates] /\ \A u \in Threads : pc'[u] = IF u = c THEN label ELSE pc[u]
  BY <1>1, OneMoves, GroupFinite DEF IInv, ThreadStates
<1>3. Asleep(Pushers)' = Asleep(Pushers) /\ Woken(Pushers)' = Woken(Pushers)
  BY <1>2, GroupKept, GroupFinite
<1>4. /\ UNCHANGED <<data, active, destroyer>> /\ active /\ destroyer = "none"
      /\ Len(data) = 0
  BY DEF IInv, TypeOK, TakeWaits, TryPopFails
<1>5. TakersSuffice'
  BY <1>4, GroupFinite, WokenFinite DEF TakersSuffice
<1>. QED  BY <1>2, <1>3, <1>4, <1>5
  DEF IInv, TypeOK, PushersSuffice, TakersReleased, NobodySleepsOn

\* The three steps of destroy().
LEMMA DestroyKept ==
    ASSUME IInv, Destroy
    PROVE  IInv'
<1>1. CASE Deactivate
  BY <1>1 DEF Deactivate, IInv, TypeOK, TakersSuffice, PushersSuffice, TakersReleased,
              NobodySleepsOn
<1>2. CASE NotifyPushed
  <2>1. \A u \in Threads : pc'[u] = IF u \in Asleep(Takers) THEN "awake" ELSE pc[u]
    BY <1>2 DEF NotifyPushed, AllNotified
  <2>2. pc' \in [Threads -> ThreadStates]
    BY <1>2 DEF NotifyPushed, AllNotified, IInv, TypeOK, ThreadStates
  <2>3. Asleep(Takers)' = {}
    BY <2>1, GroupFinite DEF Asleep
  <2>. QED  BY <1>2, <2>2, <2>3
    DEF NotifyPushed, IInv, TypeOK, TakersSuffice, PushersSuffice, TakersReleased,
        NobodySleepsOn
<1>3. CASE NotifyPoped
  <2>1. \A u \in Threads : pc'[u] = IF u \in Asleep(Pushers) THEN "awake" ELSE pc[u]
    BY <1>3 DEF NotifyPoped, AllNotified
  <2>2. pc' \in [Threads -> ThreadStates]
    BY <1>3 DEF NotifyPoped, AllNotified, IInv, TypeOK, ThreadStates
  <2>3. Asleep(Takers) = {}
    BY <1>3 DEF NotifyPoped, IInv, TakersReleased
  <2>4. Asleep(Takers)' = {} /\ Asleep(Pushers)' = {}
    BY <2>1, <2>3, GroupFinite DEF Asleep
  <2>5. Asleep(Threads)' = {}
    BY <2>4 DEF Asleep, Threads
  <2>. QED  BY <1>3, <2>2, <2>4, <2>5
    DEF NotifyPoped, IInv, TypeOK, TakersSuffice, PushersSuffice, TakersReleased,
        NobodySleepsOn
<1>. QED  BY <1>1, <1>2, <1>3 DEF Destroy

-----------------------------------------------------------------------------
(* The invariant *)

LEMMA InitInv == Init => IInv
<1>. SUFFICES ASSUME Init PROVE IInv
  OBVIOUS
<1>1. TypeOK
  <2>1. <<>> \in Seq(Values) /\ Len(<<>>) <= MaxSize
    BY MaxSizeAssumption
  <2>2. pc \in [Threads -> ThreadStates]
    BY DEF Init, ThreadStates
  <2>. QED  BY <2>1, <2>2 DEF Init, TypeOK
<1>2. Asleep(Threads) = {} /\ Asleep(Takers) = {} /\ Asleep(Pushers) = {}
  BY GroupFinite DEF Init, Asleep
<1>. QED  BY <1>1, <1>2
  DEF IInv, TakersSuffice, PushersSuffice, TakersReleased, NobodySleepsOn

LEMMA NextInv == IInv /\ [Next]_vars => IInv'
<1>. SUFFICES ASSUME IInv, [Next]_vars PROVE IInv'
  OBVIOUS
<1>1. ASSUME NEW t \in Threads, Call(t) PROVE IInv'
  BY <1>1, CallKept
<1>2. ASSUME NEW t \in Threads, SpuriousWakeup(t) PROVE IInv'
  BY <1>2, WakeupKept
<1>3. ASSUME NEW p \in Pushers, PushStep(p) PROVE IInv'
  <2>1. p \in Threads
    BY GroupFinite
  <2>. QED  BY <1>3, <2>1, PushesKept, PushWaitsKept, ThrowsKept DEF PushStep
<1>4. ASSUME NEW c \in Takers, TakeStep(c) PROVE IInv'
  <2>1. c \in Threads
    BY GroupFinite
  <2>. QED  BY <1>4, <2>1, TakesKept, NothingToTakeKept, ThrowsKept DEF TakeStep
<1>5. ASSUME NEW c \in TryPoppers, Timeout(c) PROVE IInv'
  <2>1. c \in Takers /\ c \in Threads
    BY DEF Takers, Threads
  <2>. QED  BY <1>5, <2>1, WakeupKept, NothingToTakeKept DEF Timeout
<1>6. CASE Destroy
  BY <1>6, DestroyKept
<1>7. CASE UNCHANGED vars
  BY <1>7 DEF vars, IInv, TypeOK, TakersSuffice, PushersSuffice, TakersReleased,
              NobodySleepsOn, Asleep, Woken
<1>. QED  BY <1>1, <1>2, <1>3, <1>4, <1>5, <1>6, <1>7 DEF Next

LEMMA Invariance == Spec => []IInv
<1>. QED  BY InitInv, NextInv, PTL DEF Spec

\* The queue keeps its type and never exceeds maxSize, whatever the number of threads.
THEOREM QueueTypeCorrect == Spec => []TypeOK
<1>1. IInv => TypeOK
  BY DEF IInv
<1>. QED  BY <1>1, Invariance, PTL

\* No wake-up of pushed is lost: the woken suffice for the values in the queue.
THEOREM QueueTakersSuffice == Spec => []TakersSuffice
<1>1. IInv => TakersSuffice
  BY DEF IInv
<1>. QED  BY <1>1, Invariance, PTL

\* No wake-up of poped is lost: the woken suffice for the room in the queue.
THEOREM QueuePushersSuffice == Spec => []PushersSuffice
<1>1. IInv => PushersSuffice
  BY DEF IInv
<1>. QED  BY <1>1, Invariance, PTL

\* destroy() leaves nobody waiting, although it notifies after its critical section.
THEOREM QueueNobodySleepsOn == Spec => []NobodySleepsOn
<1>1. IInv => NobodySleepsOn
  BY DEF IInv
<1>. QED  BY <1>1, Invariance, PTL

=============================================================================
