---------------------------- MODULE AtomicQueue ----------------------------
(***************************************************************************)
(* The bounded queue of util/AtomicQueue.hpp: push, pop and tryPop wait on *)
(* the condition variables poped and pushed, destroy() makes whoever waits *)
(* and whoever comes later throw.                                          *)
(*                                                                         *)
(* data and active change under the mutex only, and a wait releases it     *)
(* when it falls asleep: what a thread does from acquiring the mutex to    *)
(* releasing it is one step.  The notifications of destroy() come after    *)
(* its critical section and are steps of their own.  A waiting thread may  *)
(* also wake up spuriously.                                                *)
(***************************************************************************)
EXTENDS Integers, Sequences, FiniteSets

CONSTANTS
    Pushers,        \* threads that call push
    Poppers,        \* threads that call pop
    TryPoppers,     \* threads that call tryPop
    Values,
    MaxSize

ASSUME QueueThreadsAssumption ==
    /\ IsFiniteSet(Pushers) /\ IsFiniteSet(Poppers) /\ IsFiniteSet(TryPoppers)
    /\ Pushers \cap (Poppers \cup TryPoppers) = {}
    /\ Poppers \cap TryPoppers = {}
ASSUME MaxSizeAssumption == MaxSize \in Nat \ {0}

VARIABLES
    data,
    active,
    destroyer,  \* how far the call of destroy() is
    pc          \* pc[t]: where thread t is

vars == <<data, active, destroyer, pc>>

Takers == Poppers \cup TryPoppers
Threads == Pushers \cup Takers

\* idle: in no call; called: about to acquire the mutex; asleep: waiting; awake:
\* notified; expired: the timeout of tryPop has passed; thrown: left by exception.
ThreadStates == {"idle", "called", "asleep", "awake", "expired", "thrown"}

\* The states in which a thread competes for the mutex to test its predicate.
AtMutex(t) == pc[t] \in {"called", "awake", "expired"}

Init ==
    /\ data = <<>>
    /\ active = TRUE
    /\ destroyer = "none"
    /\ pc = [t \in Threads |-> "idle"]

Asleep(group) == {t \in group : pc[t] = "asleep"}

\* What pc may be after thread t returns and notify_one has let one thread of the
\* group go on that waits, if one does.
ReturnNotifyingOne(t, group) ==
    LET returned == [pc EXCEPT ![t] = "idle"]
    IN  IF Asleep(group) = {} THEN {returned}
        ELSE {[returned EXCEPT ![u] = "awake"] : u \in Asleep(group)}

\* pc after notify_all.
AllNotified(group) ==
    [t \in Threads |-> IF t \in Asleep(group) THEN "awake" ELSE pc[t]]

-----------------------------------------------------------------------------

Call(t) ==
    /\ pc[t] = "idle"
    /\ pc' = [pc EXCEPT ![t] = "called"]
    /\ UNCHANGED <<data, active, destroyer>>

\* notFull and isFilled throw when the queue is inactive.
Throws(t) ==
    /\ AtMutex(t)
    /\ ~active
    /\ pc' = [pc EXCEPT ![t] = "thrown"]
    /\ UNCHANGED <<data, active, destroyer>>

\* Mutant: push does not notify.
PushesSilently(p) ==
    /\ AtMutex(p)
    /\ active
    /\ Len(data) < MaxSize
    /\ \E value \in Values : data' = Append(data, value)
    /\ pc' = [pc EXCEPT ![p] = "idle"]
    /\ UNCHANGED <<active, destroyer>>

\* Mutant: one value too many.
PushesBeyond(p) ==
    /\ AtMutex(p)
    /\ active
    /\ Len(data) <= MaxSize
    /\ \E value \in Values : data' = Append(data, value)
    /\ pc' \in ReturnNotifyingOne(p, Takers)
    /\ UNCHANGED <<active, destroyer>>

\* push with room left.
Pushes(p) ==
    /\ AtMutex(p)
    /\ active
    /\ Len(data) < MaxSize
    /\ \E value \in Values : data' = Append(data, value)
    /\ pc' \in ReturnNotifyingOne(p, Takers)
    /\ UNCHANGED <<active, destroyer>>

\* push into a full queue.
PushWaits(p) ==
    /\ AtMutex(p)
    /\ active
    /\ Len(data) = MaxSize
    /\ pc' = [pc EXCEPT ![p] = "asleep"]
    /\ UNCHANGED <<data, active, destroyer>>

\* Mutant: pop does not notify.
TakesSilently(c) ==
    /\ AtMutex(c)
    /\ active
    /\ data # <<>>
    /\ data' = Tail(data)
    /\ pc' = [pc EXCEPT ![c] = "idle"]
    /\ UNCHANGED <<active, destroyer>>

\* pop or tryPop with a value to take.
Takes(c) ==
    /\ AtMutex(c)
    /\ active
    /\ data # <<>>
    /\ data' = Tail(data)
    /\ pc' \in ReturnNotifyingOne(c, Pushers)
    /\ UNCHANGED <<active, destroyer>>

\* pop or tryPop of an empty queue.
TakeWaits(c) ==
    /\ pc[c] \in {"called", "awake"}
    /\ active
    /\ data = <<>>
    /\ pc' = [pc EXCEPT ![c] = "asleep"]
    /\ UNCHANGED <<data, active, destroyer>>

\* The timeout of tryPop passes while it waits; the predicate is tested once more.
Expires(c) ==
    /\ pc[c] = "asleep"
    /\ pc' = [pc EXCEPT ![c] = "expired"]
    /\ UNCHANGED <<data, active, destroyer>>

\* Mutant: tryPop waits again.
TryPopWaitsOn(c) ==
    /\ pc[c] = "expired"
    /\ active
    /\ data = <<>>
    /\ pc' = [pc EXCEPT ![c] = "asleep"]
    /\ UNCHANGED <<data, active, destroyer>>

\* tryPop returns nothing.
TryPopFails(c) ==
    /\ pc[c] = "expired"
    /\ active
    /\ data = <<>>
    /\ pc' = [pc EXCEPT ![c] = "idle"]
    /\ UNCHANGED <<data, active, destroyer>>

SpuriousWakeup(t) ==
    /\ pc[t] = "asleep"
    /\ pc' = [pc EXCEPT ![t] = "awake"]
    /\ UNCHANGED <<data, active, destroyer>>

\* destroy(): deactivate under the mutex ...
Deactivate ==
    /\ destroyer = "none"
    /\ active' = FALSE
    /\ destroyer' = "inactive"
    /\ UNCHANGED <<data, pc>>

\* Mutant: whoever waits in pop is not notified.
NotifyNobody ==
    /\ destroyer = "inactive"
    /\ destroyer' = "pushed"
    /\ UNCHANGED <<data, active, pc>>

\* ... then pushed.notify_all() ...
NotifyPushed ==
    /\ destroyer = "inactive"
    /\ pc' = AllNotified(Takers)
    /\ destroyer' = "pushed"
    /\ UNCHANGED <<data, active>>

\* Mutant: the same condition variable is notified again.
NotifyPushedAgain ==
    /\ destroyer = "pushed"
    /\ pc' = AllNotified(Takers)
    /\ destroyer' = "done"
    /\ UNCHANGED <<data, active>>

\* ... then poped.notify_all().
NotifyPoped ==
    /\ destroyer = "pushed"
    /\ pc' = AllNotified(Pushers)
    /\ destroyer' = "done"
    /\ UNCHANGED <<data, active>>

Destroy == Deactivate \/ NotifyPushed \/ NotifyPoped

PushStep(p) == Pushes(p) \/ PushWaits(p) \/ Throws(p)
TakeStep(c) == Takes(c) \/ TakeWaits(c) \/ Throws(c)
Timeout(c) == Expires(c) \/ TryPopFails(c)

Next ==
    \/ \E t \in Threads : Call(t) \/ SpuriousWakeup(t)
    \/ \E p \in Pushers : PushStep(p)
    \/ \E c \in Takers : TakeStep(c)
    \/ \E c \in TryPoppers : Timeout(c)
    \/ Destroy

Spec == Init /\ [][Next]_vars

\* A thread that competes for the mutex gets it in the end, the deadline of a tryPop,
\* which is fixed when the call begins, passes in spite of spurious wakeups, and the
\* owner that has begun to destroy the queue goes on; nobody has to call.
Fairness ==
    /\ \A p \in Pushers : SF_vars(PushStep(p))
    /\ \A c \in Takers : SF_vars(TakeStep(c))
    /\ \A c \in TryPoppers : SF_vars(Timeout(c))
    /\ WF_vars(NotifyPushed \/ NotifyPoped)

FairSpec == Spec /\ Fairness

-----------------------------------------------------------------------------

Woken(group) == {t \in group : pc[t] \in {"awake", "expired"}}

\* Every variable has its type and the queue never holds more than maxSize values.
TypeOK ==
    /\ data \in Seq(Values)
    /\ Len(data) <= MaxSize
    /\ active \in BOOLEAN
    /\ destroyer \in {"none", "inactive", "pushed", "done"}
    /\ active = (destroyer = "none")
    /\ pc \in [Threads -> ThreadStates]

\* notify_one wakes enough: while a pop or tryPop sleeps, there are no more values in
\* the queue than woken threads on their way to fetch one, whatever newcomers steal
\* from the woken and whoever times out.
TakersSuffice ==
    active /\ Asleep(Takers) # {} => Len(data) <= Cardinality(Woken(Takers))

\* The same for push: while one sleeps, there is no more room than woken pushers.
PushersSuffice ==
    active /\ Asleep(Pushers) # {} => MaxSize - Len(data) <= Cardinality(Woken(Pushers))

\* When destroy() has returned nobody waits any more, although its notifications
\* are not made under the mutex: nobody falls asleep after the deactivation.
NobodySleepsOn == destroyer = "done" => Asleep(Threads) = {}

\* A call under way when the queue is destroyed returns or throws.
DestroyEndsCalls ==
    \A t \in Threads :
        (~active /\ pc[t] # "idle") ~> pc[t] \in {"idle", "thrown"}

\* A tryPop always comes back, with a value or without.
TryPopReturns ==
    \A c \in TryPoppers : pc[c] = "called" ~> pc[c] \in {"idle", "thrown"}

=============================================================================
