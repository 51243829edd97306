---------------------------- MODULE Cracen2Proofs ----------------------------
(***************************************************************************)
(* What a Cracen2 object guarantees for any number of message types,       *)
(* messages and sending threads, for queues of any size and at any point   *)
(* of its release: no queue grows beyond its size, the program misses no   *)
(* message that arrives and gets those of a type in order, and the sends   *)
(* that are pending stay below a bound although nobody locks their number. *)
(***************************************************************************)
EXTENDS Cracen2, SequenceTheorems, FiniteSetTheorems, FunctionTheorems, TLAPS

-----------------------------------------------------------------------------
(* The inductive invariant *)

\* The receiver has an element in its hand from get to push, and no other time; a
\* thread that has thrown keeps it.
InHand ==
    /\ receiver = "push" => element \in Data
    /\ receiver \notin {"push", "thrown"} => element = NoElement

\* A queue holds messages of its type, and is active until the destructor comes to it.
QueuesSorted ==
    \A t \in Types : \A i \in DOMAIN inputQueues[t] : TypeOf(inputQueues[t][i]) = t
ActiveUntilDestroyed == active <=> phase \in {"using", "stopping", "released"}

IInv ==
    /\ TypeOK /\ InHand /\ QueuesSorted /\ ActiveUntilDestroyed
    /\ NothingLost /\ BacklogBounded

-----------------------------------------------------------------------------
(* Queues *)

LEMMA TailFacts ==
    ASSUME NEW S, NEW s \in Seq(S), s # <<>>
    PROVE  /\ Tail(s) \in Seq(S) /\ Head(s) \in S /\ Head(s) = s[1]
           /\ Len(s) \in Nat \ {0} /\ DOMAIN s = 1 .. Len(s)
           /\ Len(Tail(s)) = Len(s) - 1 /\ DOMAIN Tail(s) = 1 .. Len(s) - 1
           /\ \A i \in 1 .. Len(s) - 1 : Tail(s)[i] = s[i + 1]
<1>1. Len(s) \in Nat /\ DOMAIN s = 1 .. Len(s)
  BY LenProperties
<1>2. /\ Tail(s) \in Seq(S) /\ Head(s) \in S
      /\ Len(Tail(s)) = Len(s) - 1
      /\ \A i \in 1 .. Len(Tail(s)) : Tail(s)[i] = s[i + 1]
  BY <1>1, HeadTailProperties
<1>3. DOMAIN Tail(s) = 1 .. Len(Tail(s))
  BY <1>2, LenProperties
<1>4. Len(s) # 0 /\ Head(s) = s[1]
  BY <1>1, EmptySeq
<1>. QED  BY <1>1, <1>2, <1>3, <1>4

LEMMA AppendFacts ==
    ASSUME NEW S, NEW s \in Seq(S), NEW x \in S
    PROVE  /\ Append(s, x) \in Seq(S)
           /\ Len(s) \in Nat /\ DOMAIN s = 1 .. Len(s)
           /\ Len(Append(s, x)) = Len(s) + 1 /\ DOMAIN Append(s, x) = 1 .. Len(s) + 1
           /\ \A i \in 1 .. Len(s) : Append(s, x)[i] = s[i]
           /\ Append(s, x)[Len(s) + 1] = x
<1>1. Len(s) \in Nat /\ DOMAIN s = 1 .. Len(s)
  BY LenProperties
<1>2. /\ Append(s, x) \in Seq(S)
      /\ Len(Append(s, x)) = Len(s) + 1
      /\ \A i \in 1 .. Len(s) : Append(s, x)[i] = s[i]
      /\ Append(s, x)[Len(s) + 1] = x
  BY AppendProperties
<1>3. DOMAIN Append(s, x) = 1 .. Len(s) + 1
  BY <1>2, LenProperties
<1>. QED  BY <1>1, <1>2, <1>3

-----------------------------------------------------------------------------
(* Types *)

\* Messages and the values of an empty hand.
LEMMA DataTypes ==
    /\ \A m \in Data : TypeOf(m) \in Types /\ m[2] \in Nat /\ m # Close
    /\ \A t \in Types : \A n \in Nat : n >= 1 /\ n <= MaxArrivals[t] =>
            <<t, n>> \in Data /\ TypeOf(<<t, n>>) = t
    /\ TypeOf(Close) \notin Types /\ TypeOf(NoElement) \notin Types
<1>1. \A t \in Types : MaxArrivals[t] \in Nat
  BY TypesAssumption
<1>2. ASSUME NEW m \in Data
      PROVE  TypeOf(m) \in Types /\ m[2] \in Nat
  <2>1. PICK t \in Types : m \in {t} \X (1 .. MaxArrivals[t])
    BY DEF Data
  <2>. QED  BY <1>1, <2>1 DEF TypeOf
<1>3. TypeOf(Close) \notin Types /\ TypeOf(NoElement) \notin Types
  BY TypesAssumption DEF Close, NoElement, TypeOf
<1>4. \A t \in Types : \A n \in Nat : n >= 1 /\ n <= MaxArrivals[t] =>
            <<t, n>> \in Data /\ TypeOf(<<t, n>>) = t
  BY <1>1 DEF Data, TypeOf
<1>. QED  BY <1>2, <1>3, <1>4

LEMMA TypesKept ==
    ASSUME TypeOK, InHand, [Next]_vars
    PROVE  TypeOK' /\ InHand'
<1>0. \A t \in Types : MaxArrivals[t] \in Nat /\ InputQueueSize[t] \in Nat
  BY TypesAssumption
<1>1. ASSUME NEW t \in Types, Arrives(t)
      PROVE  TypeOK' /\ InHand'
  <2>1. <<t, arrived'[t]>> \in Data /\ arrived' \in [Types -> Nat]
        /\ \A u \in Types : arrived'[u] <= MaxArrivals[u]
    <3>1. arrived[t] \in Nat /\ MaxArrivals[t] \in Nat /\ arrived[t] < MaxArrivals[t]
      BY <1>0, <1>1 DEF Arrives, TypeOK
    <3>2. arrived'[t] = arrived[t] + 1 /\ arrived' = [arrived EXCEPT ![t] = arrived[t] + 1]
      BY <1>1 DEF Arrives, TypeOK
    <3>3. arrived'[t] \in Nat /\ arrived'[t] >= 1 /\ arrived'[t] <= MaxArrivals[t]
      BY <3>1, <3>2
    <3>4. <<t, arrived'[t]>> \in Data
      BY <3>3, DataTypes
    <3>. QED  BY <3>2, <3>3, <3>4 DEF TypeOK
  <2>2. ready' \in Seq(Data \cup {Close}) /\ Len(ready') = Len(ready) + 1 /\ Len(ready) \in Nat
    BY <1>1, <2>1, AppendFacts DEF Arrives, TypeOK
  <2>3. Waiting' >= 0
    BY <1>1, <2>2, TypesAssumption DEF Arrives, Waiting, TypeOK
  <2>. QED  BY <1>1, <2>1, <2>2, <2>3 DEF Arrives, outVars, ownerVars, TypeOK, InHand
<1>2. CASE CloseArrives
  <2>2. ready' \in Seq(Data \cup {Close}) /\ Len(ready') = Len(ready) + 1 /\ Len(ready) \in Nat
    BY <1>2, AppendFacts DEF CloseArrives, TypeOK
  <2>3. Waiting' >= 0
    BY <1>2, <2>2, TypesAssumption DEF CloseArrives, Waiting, TypeOK
  <2>. QED  BY <1>2, <2>2, <2>3 DEF CloseArrives, outVars, ownerVars, TypeOK, InHand
<1>3. CASE GetsData \/ GetsClose
  <2>1. /\ ready' \in Seq(Data \cup {Close}) /\ Head(ready) \in Data \cup {Close}
        /\ Len(ready') = Len(ready) - 1 /\ Len(ready) \in Nat
    <3>1. ready \in Seq(Data \cup {Close})
      BY DEF TypeOK
    <3>2. ready # <<>> /\ ready' = Tail(ready)
      BY <1>3 DEF GetsData, GetsClose
    <3>. QED  BY <3>1, <3>2, TailFacts
  <2>2. Waiting' >= 0
    BY <1>3, <2>1, TypesAssumption DEF GetsData, GetsClose, Waiting, TypeOK
  <2>. QED  BY <1>3, <2>1, <2>2 DEF GetsData, GetsClose, outVars, ownerVars, TypeOK, InHand
<1>4. CASE ReceiverChecks \/ GetThrows \/ PushThrows \/ Rearms
  <2>1. Waiting' >= 0
    <3>1. Len(ready) \in Nat
      BY LenProperties DEF TypeOK
    <3>. QED  BY <1>4, <3>1, TypesAssumption
              DEF ReceiverChecks, GetThrows, PushThrows, Rearms, Waiting, TypeOK
  <2>. QED  BY <1>4, <2>1 DEF ReceiverChecks, GetThrows, PushThrows, Rearms, outVars, ownerVars,
                              TypeOK, InHand
<1>5. CASE PushesElement
  <2>. DEFINE t == TypeOf(element)
  <2>1. element \in Data /\ t \in Types
    BY <1>5, DataTypes DEF PushesElement, InHand
  <2>2. /\ inputQueues'[t] \in Seq(Data)
        /\ Len(inputQueues[t]) \in Nat /\ Len(inputQueues'[t]) = Len(inputQueues[t]) + 1
    BY <1>5, <2>1, AppendFacts DEF PushesElement, TypeOK
  <2>3. inputQueues' \in [Types -> Seq(Data)]
    BY <1>5, <2>1, <2>2 DEF PushesElement, TypeOK
  <2>4. \A u \in Types : Len(inputQueues'[u]) <= InputQueueSize[u]
    BY <1>0, <1>5, <2>1, <2>2 DEF PushesElement, TypeOK
  <2>5. Waiting' >= 0
    BY <1>5 DEF PushesElement, Waiting, TypeOK
  <2>. QED  BY <1>5, <2>3, <2>4, <2>5 DEF PushesElement, outVars, ownerVars, TypeOK, InHand
<1>6. CASE Receive
  <2>1. wanted \in Types
    BY <1>6 DEF Receive, TypeOK
  <2>2. /\ inputQueues'[wanted] \in Seq(Data)
        /\ Len(inputQueues[wanted]) \in Nat
        /\ Len(inputQueues'[wanted]) = Len(inputQueues[wanted]) - 1
    BY <1>6, <2>1, TailFacts DEF Receive, TypeOK
  <2>3. inputQueues' \in [Types -> Seq(Data)]
    BY <1>6, <2>1, <2>2 DEF Receive, TypeOK
  <2>4. \A u \in Types : Len(inputQueues'[u]) <= InputQueueSize[u]
    BY <1>0, <1>6, <2>1, <2>2 DEF Receive, TypeOK
  <2>5. Waiting' >= 0
    BY <1>6 DEF Receive, Waiting, TypeOK
  <2>. QED  BY <1>6, <2>3, <2>4, <2>5 DEF Receive, outVars, TypeOK, InHand
<1>7. ASSUME NEW u \in Users, CallSend(u) \/ Passes(u) \/ PushesSend(u)
      PROVE  TypeOK' /\ InHand'
  <2>1. Waiting' >= 0
    BY <1>7 DEF CallSend, Passes, PushesSend, inVars, Waiting, TypeOK
  <2>2. /\ pendingSends' \in 0 .. Capacity
        /\ user' \in [Users -> {"idle", "spin", "push"}]
        /\ left' \in [Users -> 0 .. FanOut]
        /\ \A v \in Users : left'[v] > 0 <=> user'[v] = "push"
    <3>1. CASE CallSend(u)
      BY <3>1 DEF CallSend, TypeOK
    <3>2. CASE Passes(u)
      <4>1. PICK n \in 0 .. FanOut :
              /\ left' = [left EXCEPT ![u] = n]
              /\ user' = [user EXCEPT ![u] = IF n = 0 THEN "idle" ELSE "push"]
        BY <3>2 DEF Passes
      <4>. QED  BY <3>2, <4>1, SendsAssumption DEF Passes, TypeOK
    <3>3. CASE PushesSend(u)
      <4>1. left[u] \in 1 .. FanOut /\ left[u] - 1 \in 0 .. FanOut
        BY <3>3, SendsAssumption DEF PushesSend, TypeOK
      <4>. QED  BY <3>3, <4>1, SendsAssumption DEF PushesSend, TypeOK
    <3>. QED  BY <1>7, <3>1, <3>2, <3>3
  <2>. QED  BY <1>7, <2>1, <2>2
            DEF CallSend, Passes, PushesSend, inVars, ownerVars, TypeOK, InHand
<1>8. CASE SenderStep
  <2>1. Waiting' >= 0
    BY <1>8 DEF SenderStep, SenderChecks, SenderPops, SenderTimesOut, SendCompletes, SendThrows,
                inVars, Waiting, TypeOK
  <2>2. pendingSends' \in 0 .. Capacity
    BY <1>8, SendsAssumption
       DEF SenderStep, SenderChecks, SenderPops, SenderTimesOut, SendCompletes, SendThrows, TypeOK
  <2>. QED  BY <1>8, <2>1, <2>2
            DEF SenderStep, SenderChecks, SenderPops, SenderTimesOut, SendCompletes, SendThrows,
                inVars, ownerVars, TypeOK, InHand
<1>9. ASSUME Release \/ Shutdown \/ DestroysQueues \/ \E t \in Types : CallReceive(t)
      PROVE  TypeOK' /\ InHand'
  <2>1. Waiting' >= 0
    BY <1>9 DEF Release, Shutdown, Acknowledged, Closes, DestroysClient, JoinsThreads,
                DestroysQueues, CallReceive, inVars, Waiting, TypeOK
  <2>2. \E i \in DOMAIN Phases : phase' = Phases[i]
    <3>1. Phases[2] = "stopping" /\ Phases[3] = "released" /\ Phases[4] = "queuesGone"
          /\ Phases[5] = "clientGone" /\ Phases[6] = "gone" /\ {2, 3, 4, 5, 6} \subseteq DOMAIN Phases
      BY DEF Phases
    <3>. HIDE DEF Phases
    <3>. QED  BY <1>9, <3>1 DEF Release, Shutdown, Acknowledged, Closes, DestroysClient,
                JoinsThreads, DestroysQueues, CallReceive, ToPhase, TypeOK
  <2>3. running' \in BOOLEAN /\ broken' \in BOOLEAN
    BY <1>9, TransportAssumption DEF Release, Shutdown, Acknowledged, Closes, DestroysClient,
                JoinsThreads, DestroysQueues, CallReceive, TypeOK
  <2>4. UNCHANGED <<ready, arrived, receiver, element, seenClose, inputQueues,
                    pendingSends, sender, user, left>>
    BY <1>9 DEF Release, Shutdown, Acknowledged, Closes, DestroysClient, JoinsThreads,
                DestroysQueues, CallReceive, inVars, outVars
  <2>5. loopback' \in BOOLEAN /\ wanted' \in Types \cup {NoType} /\ active' \in BOOLEAN
    BY <1>9 DEF Release, Shutdown, Acknowledged, Closes, DestroysClient, JoinsThreads,
                DestroysQueues, CallReceive, inVars, TypeOK
  <2>. QED  BY <2>1, <2>2, <2>3, <2>4, <2>5 DEF TypeOK, InHand
<1>10. ASSUME UNCHANGED vars
       PROVE  TypeOK' /\ InHand'
  BY <1>10 DEF vars, inVars, outVars, ownerVars, TypeOK, InHand, Waiting
<1>. QED  BY <1>1, <1>2, <1>3, <1>4, <1>5, <1>6, <1>7, <1>8, <1>9, <1>10
          DEF Next, ReceiverStep, UserStep

LEMMA QueuesStaySorted ==
    ASSUME TypeOK, InHand, QueuesSorted, [Next]_vars
    PROVE  QueuesSorted'
<1>1. CASE PushesElement
  <2>. SUFFICES ASSUME NEW t \in Types, NEW i \in DOMAIN inputQueues'[t]
                PROVE  TypeOf(inputQueues'[t][i]) = t
    BY DEF QueuesSorted
  <2>1. CASE t = TypeOf(element)
    <3>1. /\ inputQueues[t] \in Seq(Data) /\ element \in Data
          /\ inputQueues'[t] = Append(inputQueues[t], element)
      BY <1>1, <2>1 DEF PushesElement, TypeOK, InHand
    <3>2. /\ Len(inputQueues[t]) \in Nat /\ DOMAIN inputQueues[t] = 1 .. Len(inputQueues[t])
          /\ i \in 1 .. Len(inputQueues[t]) + 1
          /\ \A j \in 1 .. Len(inputQueues[t]) : inputQueues'[t][j] = inputQueues[t][j]
          /\ inputQueues'[t][Len(inputQueues[t]) + 1] = element
      BY <3>1, AppendFacts
    <3>. QED  BY <2>1, <3>2 DEF QueuesSorted
  <2>2. CASE t # TypeOf(element)
    <3>1. inputQueues'[t] = inputQueues[t]
      BY <1>1, <2>2 DEF PushesElement, TypeOK
    <3>. QED  BY <3>1 DEF QueuesSorted
  <2>. QED  BY <2>1, <2>2
<1>2. CASE Receive
  <2>. SUFFICES ASSUME NEW t \in Types, NEW i \in DOMAIN inputQueues'[t]
                PROVE  TypeOf(inputQueues'[t][i]) = t
    BY DEF QueuesSorted
  <2>1. CASE t = wanted
    <3>1. /\ inputQueues[t] \in Seq(Data) /\ inputQueues[t] # <<>>
          /\ inputQueues'[t] = Tail(inputQueues[t])
      BY <1>2, <2>1 DEF Receive, TypeOK
    <3>2. /\ Len(inputQueues[t]) \in Nat /\ DOMAIN inputQueues[t] = 1 .. Len(inputQueues[t])
          /\ i \in 1 .. Len(inputQueues[t]) - 1
          /\ inputQueues'[t][i] = inputQueues[t][i + 1]
      BY <3>1, TailFacts
    <3>. QED  BY <3>2 DEF QueuesSorted
  <2>2. CASE t # wanted
    <3>1. inputQueues'[t] = inputQueues[t]
      BY <1>2, <2>2 DEF Receive, TypeOK
    <3>. QED  BY <3>1 DEF QueuesSorted
  <2>. QED  BY <2>1, <2>2
<1>3. CASE UNCHANGED inputQueues
  BY <1>3 DEF QueuesSorted
<1>4. PushesElement \/ Receive \/ UNCHANGED inputQueues
  BY DEF Next, vars, inVars, Arrives, CallReceive, CloseArrives, ReceiverStep, ReceiverChecks,
         GetsData, GetsClose, GetThrows, PushThrows, Rearms,
         SenderStep, SenderChecks, SenderPops, SenderTimesOut, SendCompletes, SendThrows,
         CallSend, UserStep, Passes, PushesSend,
         Release, DestroysQueues, Shutdown, Acknowledged, Closes, DestroysClient, JoinsThreads
<1>. QED  BY <1>1, <1>2, <1>3, <1>4

LEMMA StaysActive ==
    ASSUME ActiveUntilDestroyed, [Next]_vars
    PROVE  ActiveUntilDestroyed'
<1>1. CASE UNCHANGED <<active, phase>>
  BY <1>1 DEF ActiveUntilDestroyed
<1>2. CASE Release \/ Closes \/ DestroysQueues \/ DestroysClient \/ JoinsThreads
  BY <1>2 DEF Release, Closes, DestroysQueues, DestroysClient, JoinsThreads, ToPhase,
              ActiveUntilDestroyed
<1>3. \/ Release \/ Closes \/ DestroysQueues \/ DestroysClient \/ JoinsThreads
      \/ UNCHANGED <<active, phase>>
  BY DEF Next, vars, ownerVars, Arrives, CallReceive, CloseArrives, Receive, ReceiverStep,
         ReceiverChecks, GetsData, GetsClose, GetThrows, PushesElement, PushThrows, Rearms,
         SenderStep, SenderChecks, SenderPops, SenderTimesOut, SendCompletes, SendThrows,
         CallSend, UserStep, Passes, PushesSend, Shutdown, Acknowledged
<1>. QED  BY <1>1, <1>2, <1>3

-----------------------------------------------------------------------------
(* The backlog *)

LEMMA UnpushedBound ==
    ASSUME TypeOK
    PROVE  /\ IsFiniteSet(Unpushed)
           /\ Cardinality(Unpushed) \in Nat /\ Cardinality(Users) \in Nat
           /\ Cardinality(Unpushed) <= Cardinality(Users) * FanOut
<1>1. FanOut \in Nat /\ IsFiniteSet(Users) /\ Cardinality(Users) \in Nat
  BY SendsAssumption, UsersAssumption, FS_CardinalityType
<1>2. IsFiniteSet(1 .. FanOut) /\ Cardinality(1 .. FanOut) = FanOut
  BY <1>1, FS_Interval
<1>3. /\ IsFiniteSet(Users \X (1 .. FanOut))
      /\ Cardinality(Users \X (1 .. FanOut)) = Cardinality(Users) * FanOut
  BY <1>1, <1>2, FS_Product
<1>4. Unpushed \subseteq Users \X (1 .. FanOut)
  BY <1>1 DEF Unpushed, TypeOK
<1>5. IsFiniteSet(Unpushed) /\ Cardinality(Unpushed) <= Cardinality(Users \X (1 .. FanOut))
  BY <1>3, <1>4, FS_Subset
<1>. QED  BY <1>1, <1>3, <1>5, FS_CardinalityType

LEMMA BacklogKept ==
    ASSUME TypeOK, TypeOK', BacklogBounded, [Next]_vars
    PROVE  BacklogBounded'
<1>. DEFINE bound == Cardinality(Users) * FanOut
<1>1. /\ pendingSends \in Nat /\ pendingSends' \in Nat /\ Backlog \in Nat /\ bound \in Nat
      /\ Cardinality(Unpushed) \in Nat /\ IsFiniteSet(Unpushed)
  BY UnpushedBound, SendsAssumption, SMTT(20) DEF TypeOK
<1>2. Cardinality(Unpushed)' \in Nat /\ Cardinality(Unpushed)' <= bound
  <2>1. (TypeOK => Cardinality(Unpushed) \in Nat /\ Cardinality(Unpushed) <= bound)'
    BY UnpushedBound, PTL
  <2>. QED  BY <2>1
<1>. HIDE DEF bound
<1>3. ASSUME UNCHANGED left, pendingSends' <= pendingSends
      PROVE  BacklogBounded'
  <2>1. Cardinality(Unpushed)' = Cardinality(Unpushed)
    BY <1>3 DEF Unpushed
  <2>. QED  BY <1>1, <1>3, <2>1 DEF BacklogBounded, bound
<1>4. ASSUME NEW u \in Users, Passes(u)
      PROVE  BacklogBounded'
  <2>1. pendingSends' <= Backlog
    BY <1>4 DEF Passes
  <2>2. pendingSends' + Cardinality(Unpushed)' <= Backlog + bound
    BY <1>1, <1>2, <2>1
  <2>. QED  BY <2>2 DEF BacklogBounded, bound
<1>5. ASSUME NEW u \in Users, PushesSend(u)
      PROVE  BacklogBounded'
  <2>1. left[u] \in Nat /\ left[u] > 0 /\ left \in [Users -> Nat]
    BY <1>5, SendsAssumption DEF PushesSend, TypeOK
  <2>2. left' = [left EXCEPT ![u] = left[u] - 1] /\ pendingSends' = pendingSends + 1
    BY <1>5 DEF PushesSend
  <2>3. <<u, left[u]>> \in Unpushed
    BY <2>1 DEF Unpushed
  <2>4. Unpushed' = Unpushed \ {<<u, left[u]>>}
    <3>1. ASSUME NEW v \in Users, NEW n
          PROVE  n \in 1 .. left'[v] <=> n \in 1 .. left[v] /\ ~(v = u /\ n = left[u])
      <4>1. CASE v = u
        <5>1. left'[v] = left[u] - 1
          BY <2>1, <2>2, <4>1
        <5>. QED  BY <2>1, <4>1, <5>1
      <4>2. CASE v # u
        <5>1. left'[v] = left[v]
          BY <2>1, <2>2, <4>2
        <5>. QED  BY <4>2, <5>1
      <4>. QED  BY <4>1, <4>2
    <3>2. ASSUME NEW x, x \in Unpushed'
          PROVE  x \in Unpushed /\ x # <<u, left[u]>>
      <4>0. PICK v \in Users : x \in {v} \X (1 .. left'[v])
        BY <3>2 DEF Unpushed
      <4>1. PICK n \in 1 .. left'[v] : x = <<v, n>>
        BY <4>0
      <4>. QED  BY <3>1, <4>1 DEF Unpushed
    <3>3. ASSUME NEW x, x \in Unpushed, x # <<u, left[u]>>
          PROVE  x \in Unpushed'
      <4>1. PICK v \in Users : x \in {v} \X (1 .. left[v])
        BY <3>3 DEF Unpushed
      <4>2. PICK n \in 1 .. left[v] : x = <<v, n>>
        BY <4>1
      <4>3. n \in 1 .. left'[v]
        BY <3>1, <3>3, <4>2
      <4>. QED  BY <4>2, <4>3 DEF Unpushed
    <3>. QED  BY <3>2, <3>3
  <2>5. Cardinality(Unpushed \ {<<u, left[u]>>}) = Cardinality(Unpushed) - 1
    BY <1>1, <2>3, FS_RemoveElement
  <2>6. Cardinality(Unpushed)' = Cardinality(Unpushed) - 1
    BY <2>4, <2>5
  <2>. QED  BY <1>1, <2>2, <2>6 DEF BacklogBounded, bound
<1>6. ASSUME UNCHANGED outVars
      PROVE  BacklogBounded'
  BY <1>1, <1>3, <1>6 DEF outVars
<1>7. ASSUME NEW u \in Users, CallSend(u)
      PROVE  BacklogBounded'
  BY <1>1, <1>3, <1>7 DEF CallSend
<1>8. ASSUME SenderStep
      PROVE  BacklogBounded'
  BY <1>1, <1>3, <1>8 DEF SenderStep, SenderChecks, SenderPops, SenderTimesOut, SendCompletes,
                          SendThrows
<1>9. ASSUME \/ \E t \in Types : Arrives(t) \/ CallReceive(t)
             \/ CloseArrives \/ Receive \/ ReceiverStep
             \/ Release \/ DestroysQueues \/ Shutdown
             \/ UNCHANGED vars
      PROVE  BacklogBounded'
  <2>1. UNCHANGED outVars
    BY <1>9 DEF Arrives, CallReceive, CloseArrives, Receive, ReceiverStep, ReceiverChecks,
                GetsData, GetsClose, GetThrows, PushesElement, PushThrows, Rearms,
                Release, DestroysQueues, Shutdown, Acknowledged, Closes, DestroysClient,
                JoinsThreads, vars
  <2>. QED  BY <1>6, <2>1
<1>. QED  BY <1>4, <1>5, <1>7, <1>8, <1>9 DEF Next, UserStep

-----------------------------------------------------------------------------
(* The way of the messages *)

\* A message of type t is at index i of stage k of the way.
Place(t, k, i) ==
    \/ k = 1 /\ i \in DOMAIN inputQueues[t] /\ TypeOf(inputQueues[t][i]) = t
    \/ k = 2 /\ i = 1 /\ TypeOf(element) = t
    \/ k = 3 /\ i \in DOMAIN ready /\ TypeOf(ready[i]) = t

At(t, k, i) ==
    IF k = 1 THEN inputQueues[t][i][2] ELSE IF k = 2 THEN element[2] ELSE ready[i][2]

Behind(k, i, l, j) == k < l \/ (k = l /\ i < j)

LEMMA PlaceTypes ==
    ASSUME TypeOK, NEW t \in Types, NEW k \in 1 .. 3, NEW i, Place(t, k, i)
    PROVE  i \in Nat /\ i >= 1 /\ At(t, k, i) \in Int
<1>1. ASSUME NEW S, NEW s \in Seq(S)
      PROVE  \A j \in DOMAIN s : j \in Nat /\ j >= 1 /\ s[j] \in S
  <2>1. Len(s) \in Nat /\ DOMAIN s = 1 .. Len(s)
    BY LenProperties
  <2>. QED  BY <2>1, ElementOfSeq
<1>2. \A m \in Data \cup {Close, NoElement} : m[2] \in Int
  BY DataTypes DEF Close, NoElement
<1>3. CASE k = 1
  <2>1. i \in Nat /\ i >= 1 /\ inputQueues[t][i] \in Data
    BY <1>1, <1>3 DEF Place, TypeOK
  <2>2. At(t, k, i) = inputQueues[t][i][2]
    BY <1>3 DEF At
  <2>. QED  BY <1>2, <2>1, <2>2
<1>4. CASE k = 2
  <2>1. i = 1 /\ element \in Data \cup {NoElement} /\ At(t, k, i) = element[2]
    BY <1>4 DEF Place, TypeOK, At
  <2>. QED  BY <1>2, <2>1
<1>5. CASE k = 3
  <2>1. i \in Nat /\ i >= 1 /\ ready[i] \in Data \cup {Close}
    BY <1>1, <1>5 DEF Place, TypeOK
  <2>2. At(t, k, i) = ready[i][2]
    BY <1>5 DEF At
  <2>. QED  BY <1>2, <2>1, <2>2
<1>. QED  BY <1>3, <1>4, <1>5

\* Places in the words of the proofs.
LEMMA PlacesArePlaces ==
    ASSUME TypeOK, NEW t \in Types
    PROVE  /\ \A p \in Places(t) :
                /\ p[1] \in 1 .. 3 /\ p[2] \in Nat
                /\ Place(t, p[1], p[2]) /\ Number(t, p) = At(t, p[1], p[2])
           /\ \A k \in 1 .. 3, i \in Nat : Place(t, k, i) => <<k, i>> \in Places(t)
<1>1. /\ DOMAIN Way(t) = 1 .. 3
      /\ Way(t)[1] = inputQueues[t] /\ Way(t)[2] = <<element>> /\ Way(t)[3] = ready
      /\ DOMAIN <<element>> = {1} /\ <<element>>[1] = element
  BY DEF Way
<1>2. ASSUME NEW p, NEW k \in 1 .. 3, p \in {k} \X DOMAIN Way(t)[k],
             TypeOf(Way(t)[p[1]][p[2]]) = t
      PROVE  /\ p[1] \in 1 .. 3 /\ p[2] \in Nat
             /\ Place(t, p[1], p[2]) /\ Number(t, p) = At(t, p[1], p[2])
  <2>1. p[1] = k /\ p[2] \in DOMAIN Way(t)[k]
    BY <1>2
  <2>2. Place(t, k, p[2]) /\ Way(t)[k][p[2]][2] = At(t, k, p[2])
    <3>1. CASE k = 1
      BY <1>1, <1>2, <2>1, <3>1 DEF Place, At
    <3>2. CASE k = 2
      BY <1>1, <1>2, <2>1, <3>2 DEF Place, At
    <3>3. CASE k = 3
      BY <1>1, <1>2, <2>1, <3>3 DEF Place, At
    <3>. QED  BY <3>1, <3>2, <3>3
  <2>. QED  BY <2>1, <2>2, PlaceTypes DEF Number
<1>3. ASSUME NEW p \in Places(t)
      PROVE  /\ p[1] \in 1 .. 3 /\ p[2] \in Nat
             /\ Place(t, p[1], p[2]) /\ Number(t, p) = At(t, p[1], p[2])
  <2>1. PICK k \in DOMAIN Way(t) : p \in {k} \X DOMAIN Way(t)[k]
    BY DEF Places
  <2>2. TypeOf(Way(t)[p[1]][p[2]]) = t
    BY DEF Places
  <2>. QED  BY <1>1, <1>2, <2>1, <2>2
<1>4. ASSUME NEW k \in 1 .. 3, NEW i \in Nat, Place(t, k, i)
      PROVE  <<k, i>> \in Places(t)
  <2>1. i \in DOMAIN Way(t)[k] /\ TypeOf(Way(t)[k][i]) = t
    <3>1. CASE k = 1
      BY <1>1, <1>4, <3>1 DEF Place
    <3>2. CASE k = 2
      BY <1>1, <1>4, <3>2 DEF Place
    <3>3. CASE k = 3
      BY <1>1, <1>4, <3>3 DEF Place
    <3>. QED  BY <3>1, <3>2, <3>3
  <2>2. <<k, i>> \in {k} \X DOMAIN Way(t)[k] /\ k \in DOMAIN Way(t)
        /\ <<k, i>>[1] = k /\ <<k, i>>[2] = i
    BY <1>1, <2>1
  <2>. QED  BY <2>1, <2>2 DEF Places
<1>. QED  BY <1>3, <1>4

\* What is on its way is in order ...
InOrder(t) ==
    \A k, l \in 1 .. 3, i, j \in Nat :
        Place(t, k, i) /\ Place(t, l, j) /\ Behind(k, i, l, j) => At(t, k, i) < At(t, l, j)

\* ... and what the program has not got yet.
IsOnWay(t, n) == \E k \in 1 .. 3, i \in Nat : Place(t, k, i) /\ At(t, k, i) = n

Complete(t) ==
    \E got \in 0 .. arrived[t] : \A n : n \in got + 1 .. arrived[t] <=> IsOnWay(t, n)

\* A step leaves the same messages on their way.
SameOnWay(t) == \A n : IsOnWay(t, n)' <=> IsOnWay(t, n)

\* A step adds the message that has arrived last, ...
Grows(t) ==
    /\ arrived'[t] = arrived[t] + 1
    /\ \A n : IsOnWay(t, n)' <=> IsOnWay(t, n) \/ n = arrived[t] + 1

\* ... or takes the oldest.
Shrinks(t) ==
    \E first : /\ IsOnWay(t, first)
               /\ \A n \in Int : IsOnWay(t, n) => first <= n
               /\ \A n : IsOnWay(t, n)' <=> IsOnWay(t, n) /\ n # first

LEMMA NothingLostMeans ==
    ASSUME TypeOK
    PROVE  NothingLost <=> \A t \in Types : InOrder(t) /\ Complete(t)
<1>1. ASSUME NEW t \in Types, NEW n
      PROVE  n \in {Number(t, p) : p \in Places(t)} <=> IsOnWay(t, n)
  <2>1. ASSUME n \in {Number(t, p) : p \in Places(t)}
        PROVE  IsOnWay(t, n)
    BY <2>1, PlacesArePlaces DEF IsOnWay
  <2>2. ASSUME IsOnWay(t, n)
        PROVE  n \in {Number(t, p) : p \in Places(t)}
    <3>1. PICK k \in 1 .. 3, i \in Nat : Place(t, k, i) /\ At(t, k, i) = n
      BY <2>2 DEF IsOnWay
    <3>2. <<k, i>> \in Places(t) /\ <<k, i>>[1] = k /\ <<k, i>>[2] = i
      BY <3>1, PlacesArePlaces
    <3>3. Number(t, <<k, i>>) = n
      BY <3>1, <3>2, PlacesArePlaces
    <3>. QED  BY <3>2, <3>3
  <2>. QED  BY <2>1, <2>2
<1>2. ASSUME NEW t \in Types
      PROVE  (\E got \in 0 .. arrived[t] :
                {Number(t, p) : p \in Places(t)} = got + 1 .. arrived[t])
             <=> \E got \in 0 .. arrived[t] : \A n : n \in got + 1 .. arrived[t] <=> IsOnWay(t, n)
  <2>. DEFINE numbers == {Number(t, p) : p \in Places(t)}
  <2>1. \A n : n \in numbers <=> IsOnWay(t, n)
    BY <1>1
  <2>. HIDE DEF numbers
  <2>2. \A got \in 0 .. arrived[t] : numbers = got + 1 .. arrived[t]
            <=> \A n : n \in got + 1 .. arrived[t] <=> IsOnWay(t, n)
    BY <2>1
  <2>. QED  BY <2>2 DEF numbers
<1>3. ASSUME NEW t \in Types
      PROVE  (\A p, q \in Places(t) : Ahead(p, q) => Number(t, p) < Number(t, q))
             <=> \A k, l \in 1 .. 3, i, j \in Nat :
                    Place(t, k, i) /\ Place(t, l, j) /\ Behind(k, i, l, j)
                        => At(t, k, i) < At(t, l, j)
  <2>1. ASSUME \A p, q \in Places(t) : Ahead(p, q) => Number(t, p) < Number(t, q),
               NEW k \in 1 .. 3, NEW l \in 1 .. 3, NEW i \in Nat, NEW j \in Nat,
               Place(t, k, i), Place(t, l, j), Behind(k, i, l, j)
        PROVE  At(t, k, i) < At(t, l, j)
    <3>1. <<k, i>> \in Places(t) /\ <<l, j>> \in Places(t)
      BY <2>1, PlacesArePlaces
    <3>2. <<k, i>>[1] = k /\ <<k, i>>[2] = i /\ <<l, j>>[1] = l /\ <<l, j>>[2] = j
      OBVIOUS
    <3>3. Ahead(<<k, i>>, <<l, j>>)
      BY <2>1, <3>2 DEF Ahead, Behind
    <3>4. Number(t, <<k, i>>) = At(t, k, i) /\ Number(t, <<l, j>>) = At(t, l, j)
      BY <3>1, <3>2, PlacesArePlaces
    <3>. QED  BY <2>1, <3>1, <3>3, <3>4
  <2>2. ASSUME \A k, l \in 1 .. 3, i, j \in Nat :
                    Place(t, k, i) /\ Place(t, l, j) /\ Behind(k, i, l, j)
                        => At(t, k, i) < At(t, l, j),
               NEW p \in Places(t), NEW q \in Places(t), Ahead(p, q)
        PROVE  Number(t, p) < Number(t, q)
    <3>1. Behind(p[1], p[2], q[1], q[2])
      BY <2>2 DEF Ahead, Behind
    <3>. QED  BY <2>2, <3>1, PlacesArePlaces
  <2>. QED  BY <2>1, <2>2
<1>. QED  BY <1>2, <1>3 DEF NothingLost, InOrder, Complete

-----------------------------------------------------------------------------
(* What a step does to the way *)

\* After the step place (k, i) of type t holds what place (m, j) did before.
Moved(t, k, i, m, j) ==
    /\ Place(t, k, i)' <=> Place(t, m, j)
    /\ Place(t, m, j) => At(t, k, i)' = At(t, m, j)

\* A place has an index that counts from one, and there is one hand only.
LEMMA PlaceIndex ==
    ASSUME TypeOK, NEW t \in Types
    PROVE  /\ ~Place(t, 1, 0) /\ ~Place(t, 3, 0)
           /\ \A i \in Nat : Place(t, 2, i) => i = 1
           /\ receiver \notin {"push", "thrown"} /\ InHand => ~Place(t, 2, 1)
<1>1. ~Place(t, 1, 0) /\ ~Place(t, 3, 0)
  BY PlaceTypes
<1>2. \A i \in Nat : Place(t, 2, i) => i = 1
  BY DEF Place
<1>3. receiver \notin {"push", "thrown"} /\ InHand => ~Place(t, 2, 1)
  BY DataTypes DEF Place, InHand
<1>. QED  BY <1>1, <1>2, <1>3

LEMMA Unmoved ==
    ASSUME TypeOK, TypeOK', NEW t \in Types, InOrder(t), Complete(t),
           inputQueues'[t] = inputQueues[t], UNCHANGED <<element, ready>>,
           arrived'[t] = arrived[t]
    PROVE  InOrder(t)' /\ Complete(t)' /\ SameOnWay(t)
<1>1. \A k \in 1 .. 3, i \in Nat :
        (Place(t, k, i)' <=> Place(t, k, i)) /\ At(t, k, i)' = At(t, k, i)
  BY DEF Place, At
<1>. QED  BY <1>1 DEF InOrder, Complete, IsOnWay, SameOnWay

\* The receiver takes a message out of the pending receives.
LEMMA GotInOrder ==
    ASSUME TypeOK, TypeOK', InHand, InHand', NEW t \in Types, InOrder(t), Complete(t),
           GetsData \/ GetsClose
    PROVE  InOrder(t)' /\ Complete(t)' /\ SameOnWay(t)
<1>1. /\ DOMAIN ready = 1 .. Len(ready) /\ DOMAIN ready' = 1 .. Len(ready) - 1
      /\ Len(ready) \in Nat \ {0} /\ Head(ready) = ready[1]
      /\ \A i \in 1 .. Len(ready) - 1 : ready'[i] = ready[i + 1]
  BY TailFacts, ZenonT(40) DEF GetsData, GetsClose, TypeOK
<1>2. \A i \in Nat : Moved(t, 1, i, 1, i)
  BY DEF Moved, Place, At, GetsData, GetsClose
<1>3. Moved(t, 2, 1, 3, 1)
  <2>1. CASE GetsData
    <3>1. element' = ready[1] /\ 1 \in DOMAIN ready
      BY <1>1, <2>1 DEF GetsData
    <3>. QED  BY <3>1 DEF Moved, Place, At
  <2>2. CASE GetsClose
    <3>1. ready[1] = Close /\ element' = NoElement
      BY <1>1, <2>2 DEF GetsClose, InHand
    <3>. QED  BY <3>1, DataTypes DEF Moved, Place
  <2>. QED  BY <2>1, <2>2
<1>4. \A i \in Nat \ {0} : Moved(t, 3, i, 3, i + 1)
  <2>1. \A i \in Nat \ {0} : (i \in DOMAIN ready' <=> i + 1 \in DOMAIN ready)
                             /\ (i + 1 \in DOMAIN ready => ready'[i] = ready[i + 1])
    BY <1>1
  <2>. QED  BY <2>1 DEF Moved, Place, At
<1>5. ~Place(t, 2, 1)
  BY PlaceIndex DEF GetsData, GetsClose
<1>6. /\ ~Place(t, 1, 0) /\ ~Place(t, 3, 0) /\ \A i \in Nat : Place(t, 2, i) => i = 1
      /\ ~Place(t, 3, 0)' /\ \A i \in Nat : Place(t, 2, i)' => i = 1
  <2>1. (TypeOK => ~Place(t, 3, 0) /\ \A i \in Nat : Place(t, 2, i) => i = 1)'
    BY PlaceIndex, PTL
  <2>. QED  BY <2>1, PlaceIndex
<1>7. InOrder(t)'
  BY <1>2, <1>3, <1>4, <1>6 DEF InOrder, Moved, Behind
<1>8. \A n : IsOnWay(t, n)' <=> IsOnWay(t, n)
  BY <1>2, <1>3, <1>4, <1>5, <1>6 DEF IsOnWay, Moved
<1>9. arrived' = arrived
  BY DEF GetsData, GetsClose
<1>. QED  BY <1>7, <1>8, <1>9 DEF Complete, SameOnWay

\* The receiver puts the message in its hand into the queue of its type.
LEMMA PushedInOrder ==
    ASSUME TypeOK, TypeOK', InHand, InHand', NEW t \in Types, InOrder(t), Complete(t),
           PushesElement
    PROVE  InOrder(t)' /\ Complete(t)' /\ SameOnWay(t)
<1>1. \A i \in Nat : Moved(t, 3, i, 3, i)
  BY DEF Moved, Place, At, PushesElement
<1>2. ~Place(t, 2, 1)'
  BY DataTypes DEF Place, PushesElement
<1>3. /\ ~Place(t, 1, 0) /\ ~Place(t, 3, 0) /\ \A i \in Nat : Place(t, 2, i) => i = 1
      /\ ~Place(t, 1, 0)' /\ ~Place(t, 3, 0)' /\ \A i \in Nat : Place(t, 2, i)' => i = 1
  <2>1. (TypeOK => /\ ~Place(t, 1, 0) /\ ~Place(t, 3, 0)
                   /\ \A i \in Nat : Place(t, 2, i) => i = 1)'
    BY PlaceIndex, PTL
  <2>. QED  BY <2>1, PlaceIndex
<1>4. arrived' = arrived
  BY DEF PushesElement
<1>5. CASE t = TypeOf(element)
  <2>1. /\ inputQueues[t] \in Seq(Data) /\ element \in Data
        /\ inputQueues'[t] = Append(inputQueues[t], element)
    BY <1>5 DEF PushesElement, TypeOK, InHand
  <2>2. PICK n \in Nat : n = Len(inputQueues[t])
    BY <2>1, LenProperties
  <2>3. /\ DOMAIN inputQueues[t] = 1 .. n /\ DOMAIN inputQueues'[t] = 1 .. n + 1
        /\ \A i \in 1 .. n : inputQueues'[t][i] = inputQueues[t][i]
        /\ inputQueues'[t][n + 1] = element
    BY <2>1, <2>2, AppendFacts
  <2>4. ~Place(t, 1, n + 1)
    BY <2>2, <2>3 DEF Place
  <2>5. Moved(t, 1, n + 1, 2, 1)
    <3>1. n + 1 \in DOMAIN inputQueues'[t]
      BY <2>3
    <3>. QED  BY <1>5, <2>3, <3>1 DEF Moved, Place, At
  <2>6. \A i \in Nat : i # n + 1 => Moved(t, 1, i, 1, i)
    <3>1. \A i \in Nat : i # n + 1 =>
            (i \in 1 .. n + 1 <=> i \in 1 .. n)
      BY <2>2
    <3>. QED  BY <2>3, <3>1 DEF Moved, Place, At
  <2>7. \A i \in Nat : Place(t, 1, i) \/ Place(t, 1, i)' => i <= n + 1
    BY <2>2, <2>3 DEF Place
  <2>8. InOrder(t)'
    BY <1>1, <1>2, <1>3, <2>4, <2>5, <2>6, <2>7 DEF InOrder, Moved, Behind
  <2>9. \A m : IsOnWay(t, m)' <=> IsOnWay(t, m)
    BY <1>1, <1>2, <1>3, <2>4, <2>5, <2>6 DEF IsOnWay, Moved
  <2>. QED  BY <1>4, <2>8, <2>9 DEF Complete, SameOnWay
<1>6. CASE t # TypeOf(element)
  <2>1. inputQueues'[t] = inputQueues[t]
    BY <1>6 DEF PushesElement, TypeOK
  <2>2. \A i \in Nat : Moved(t, 1, i, 1, i)
    BY <2>1 DEF Moved, Place, At
  <2>3. ~Place(t, 2, 1)
    BY <1>6 DEF Place
  <2>4. InOrder(t)'
    BY <1>1, <1>2, <1>3, <2>2 DEF InOrder, Moved, Behind
  <2>5. \A m : IsOnWay(t, m)' <=> IsOnWay(t, m)
    BY <1>1, <1>2, <1>3, <2>2, <2>3 DEF IsOnWay, Moved
  <2>. QED  BY <1>4, <2>4, <2>5 DEF Complete, SameOnWay
<1>. QED  BY <1>5, <1>6

\* The program takes the oldest message of the type it waits for.
LEMMA ReceivedInOrder ==
    ASSUME TypeOK, TypeOK', NEW t \in Types, InOrder(t), Complete(t), Receive, t = wanted
    PROVE  InOrder(t)' /\ Complete(t)' /\ (Place(t, 1, 1) => Shrinks(t))
<1>1. /\ inputQueues[t] \in Seq(Data) /\ inputQueues[t] # <<>>
      /\ inputQueues'[t] = Tail(inputQueues[t])
  BY DEF Receive, TypeOK
<1>2. PICK n \in Nat \ {0} : n = Len(inputQueues[t])
  BY <1>1, TailFacts
<1>3. /\ DOMAIN inputQueues[t] = 1 .. n /\ DOMAIN inputQueues'[t] = 1 .. n - 1
      /\ \A i \in 1 .. n - 1 : inputQueues'[t][i] = inputQueues[t][i + 1]
  BY <1>1, <1>2, TailFacts
<1>4. \A i \in Nat : Moved(t, 2, i, 2, i) /\ Moved(t, 3, i, 3, i)
  BY DEF Moved, Place, At, Receive
<1>5. \A i \in Nat \ {0} : Moved(t, 1, i, 1, i + 1)
  <2>1. \A i \in Nat \ {0} : i \in 1 .. n - 1 <=> i + 1 \in 1 .. n
    BY <1>2
  <2>. QED  BY <1>3, <2>1 DEF Moved, Place, At
<1>6. ~Place(t, 1, 0) /\ ~Place(t, 1, 0)' /\ ~Place(t, 2, 0) /\ ~Place(t, 3, 0)
  <2>1. (TypeOK => ~Place(t, 1, 0))'
    BY PlaceIndex, PTL
  <2>. QED  BY <2>1, PlaceIndex
<1>7. InOrder(t)'
  BY <1>4, <1>5, <1>6 DEF InOrder, Moved, Behind
<1>8. \A m : IsOnWay(t, m)' <=> \E k \in 1 .. 3, i \in Nat :
            Place(t, k, i) /\ At(t, k, i) = m /\ ~(k = 1 /\ i = 1)
  BY <1>4, <1>5, <1>6 DEF IsOnWay, Moved
<1>9. PICK got \in 0 .. arrived[t] : \A m : m \in got + 1 .. arrived[t] <=> IsOnWay(t, m)
  BY DEF Complete
<1>10. arrived' = arrived /\ arrived[t] \in Nat
  BY DEF Receive, TypeOK
<1>11. CASE ~Place(t, 1, 1)
  <2>1. \A m : IsOnWay(t, m)' <=> IsOnWay(t, m)
    BY <1>8, <1>11 DEF IsOnWay
  <2>2. Complete(t)'
    BY <1>9, <1>10, <2>1 DEF Complete
  <2>. QED  BY <1>7, <1>11, <2>2
<1>12. CASE Place(t, 1, 1)
  <2>1. \A k \in 1 .. 3, i \in Nat : Place(t, k, i) /\ ~(k = 1 /\ i = 1) =>
            At(t, 1, 1) < At(t, k, i)
    BY <1>6, <1>12 DEF InOrder, Behind
  <2>2. PICK m : m = At(t, 1, 1)
    OBVIOUS
  <2>3. m \in got + 1 .. arrived[t]
    BY <1>9, <1>12, <2>2 DEF IsOnWay
  <2>4. \A x \in Int : IsOnWay(t, x) => m <= x
    BY <2>1, <2>2, <2>3 DEF IsOnWay
  <2>5. m = got + 1
    <3>1. IsOnWay(t, got + 1)
      BY <1>9, <1>10, <2>3
    <3>. QED  BY <2>3, <2>4, <3>1
  <2>6. \A x : IsOnWay(t, x)' <=> IsOnWay(t, x) /\ x # m
    <3>1. ASSUME NEW x, IsOnWay(t, x)'
          PROVE  IsOnWay(t, x) /\ x # m
      <4>1. PICK k \in 1 .. 3, i \in Nat :
                Place(t, k, i) /\ At(t, k, i) = x /\ ~(k = 1 /\ i = 1)
        BY <1>8, <3>1
      <4>2. At(t, k, i) \in Int
        BY <4>1, PlaceTypes
      <4>. QED  BY <2>1, <2>2, <2>3, <4>1, <4>2 DEF IsOnWay
    <3>2. ASSUME NEW x, IsOnWay(t, x), x # m
          PROVE  IsOnWay(t, x)'
      BY <1>8, <2>2, <3>2 DEF IsOnWay
    <3>. QED  BY <3>1, <3>2
  <2>7. got + 1 \in 0 .. arrived[t]
        /\ \A x : x \in got + 1 + 1 .. arrived[t] <=> IsOnWay(t, x)'
    BY <1>9, <1>10, <2>3, <2>5, <2>6
  <2>8. Shrinks(t)
    <3>1. IsOnWay(t, m)
      BY <1>9, <2>3
    <3>. QED  BY <2>4, <2>6, <3>1 DEF Shrinks
  <2>9. Complete(t)'
    BY <1>10, <2>7 DEF Complete
  <2>. QED  BY <1>7, <2>8, <2>9
<1>. QED  BY <1>11, <1>12

\* A message arrives behind all others.
LEMMA ArrivedInOrder ==
    ASSUME TypeOK, TypeOK', NEW t \in Types, InOrder(t), Complete(t),
           (\E u \in Types : Arrives(u)) \/ CloseArrives
    PROVE  /\ InOrder(t)' /\ Complete(t)'
           /\ (arrived'[t] = arrived[t] /\ SameOnWay(t)) \/ Grows(t)
<1>1. PICK x \in Data \cup {Close} :
        /\ ready' = Append(ready, x)
        /\ IF TypeOf(x) = t THEN x[2] = arrived[t] + 1 /\ arrived'[t] = arrived[t] + 1
                            ELSE arrived'[t] = arrived[t]
  <2>1. ASSUME NEW u \in Types, Arrives(u)
        PROVE  \E x \in Data \cup {Close} :
                /\ ready' = Append(ready, x)
                /\ IF TypeOf(x) = t THEN x[2] = arrived[t] + 1 /\ arrived'[t] = arrived[t] + 1
                                    ELSE arrived'[t] = arrived[t]
    <3>1. /\ arrived' = [arrived EXCEPT ![u] = arrived[u] + 1]
          /\ ready' = Append(ready, <<u, arrived'[u]>>)
      BY <2>1 DEF Arrives
    <3>2. /\ arrived[u] \in Nat /\ arrived'[u] = arrived[u] + 1
          /\ arrived'[u] <= MaxArrivals[u]
          /\ t # u => arrived'[t] = arrived[t]
      BY <3>1 DEF TypeOK
    <3>3. <<u, arrived'[u]>> \in Data /\ TypeOf(<<u, arrived'[u]>>) = u
      BY <3>2, DataTypes
    <3>4. <<u, arrived'[u]>>[2] = arrived'[u]
      OBVIOUS
    <3>. QED  BY <3>1, <3>2, <3>3, <3>4
  <2>2. CASE CloseArrives
    BY <2>2, DataTypes DEF CloseArrives
  <2>. QED  BY <2>1, <2>2
<1>2. PICK n \in Nat : n = Len(ready)
  BY LenProperties DEF TypeOK
<1>3. /\ DOMAIN ready = 1 .. n /\ DOMAIN ready' = 1 .. n + 1
      /\ \A i \in 1 .. n : ready'[i] = ready[i]
      /\ ready'[n + 1] = x
  BY <1>1, <1>2, AppendFacts DEF TypeOK
<1>4. UNCHANGED <<inputQueues, element>>
  BY DEF Arrives, CloseArrives
<1>5. \A k \in 1 .. 3, i \in Nat : ~(k = 3 /\ i = n + 1) => Moved(t, k, i, k, i)
  <2>1. \A i \in Nat : i # n + 1 => (i \in 1 .. n + 1 <=> i \in 1 .. n)
    BY <1>2
  <2>. QED  BY <1>3, <1>4, <2>1 DEF Moved, Place, At
<1>6. ~Place(t, 3, n + 1) /\ \A i \in Nat : Place(t, 3, i)' => i <= n + 1
  BY <1>2, <1>3 DEF Place
<1>7. PICK got \in 0 .. arrived[t] : \A m : m \in got + 1 .. arrived[t] <=> IsOnWay(t, m)
  BY DEF Complete
<1>8. arrived[t] \in Nat
  BY DEF TypeOK
<1>9. CASE TypeOf(x) # t
  <2>1. ~Place(t, 3, n + 1)'
    BY <1>3, <1>9 DEF Place
  <2>2. InOrder(t)'
    BY <1>5, <2>1 DEF InOrder, Moved
  <2>3. \A m : IsOnWay(t, m)' <=> IsOnWay(t, m)
    BY <1>5, <1>6, <2>1 DEF IsOnWay, Moved
  <2>. QED  BY <1>1, <1>9, <2>2, <2>3 DEF Complete, SameOnWay
<1>10. CASE TypeOf(x) = t
  <2>1. /\ Place(t, 3, n + 1)' /\ At(t, 3, n + 1)' = arrived[t] + 1
        /\ arrived'[t] = arrived[t] + 1
    <3>1. n + 1 \in DOMAIN ready'
      BY <1>3
    <3>. QED  BY <1>1, <1>3, <1>10, <3>1 DEF Place, At
  <2>2. \A k \in 1 .. 3, i \in Nat : Place(t, k, i) => At(t, k, i) < arrived[t] + 1
    <3>1. \A k \in 1 .. 3, i \in Nat : Place(t, k, i) => At(t, k, i) \in got + 1 .. arrived[t]
      BY <1>7 DEF IsOnWay
    <3>. QED  BY <1>8, <3>1
  <2>3. InOrder(t)'
    BY <1>5, <1>6, <2>1, <2>2 DEF InOrder, Moved, Behind
  <2>4. \A m : IsOnWay(t, m)' <=> IsOnWay(t, m) \/ m = arrived[t] + 1
    BY <1>5, <1>6, <2>1 DEF IsOnWay, Moved
  <2>5. got \in 0 .. arrived'[t] /\ \A m : m \in got + 1 .. arrived'[t] <=> IsOnWay(t, m)'
    BY <1>7, <1>8, <2>1, <2>4
  <2>. QED  BY <2>1, <2>3, <2>4, <2>5 DEF Complete, Grows
<1>. QED  BY <1>9, <1>10

LEMMA WayKept ==
    ASSUME TypeOK, TypeOK', InHand, InHand', [Next]_vars,
           \A t \in Types : InOrder(t) /\ Complete(t)
    PROVE  \A t \in Types : InOrder(t)' /\ Complete(t)'
<1>. SUFFICES ASSUME NEW t \in Types
              PROVE  InOrder(t)' /\ Complete(t)'
  OBVIOUS
<1>. InOrder(t) /\ Complete(t)
  OBVIOUS
<1>1. CASE (\E u \in Types : Arrives(u)) \/ CloseArrives
  BY <1>1, ArrivedInOrder
<1>2. CASE GetsData \/ GetsClose
  BY <1>2, GotInOrder
<1>3. CASE PushesElement
  BY <1>3, PushedInOrder
<1>4. CASE Receive
  <2>1. CASE t = wanted
    BY <1>4, <2>1, ReceivedInOrder
  <2>2. CASE t # wanted
    <3>1. inputQueues'[t] = inputQueues[t]
      BY <1>4, <2>2 DEF Receive, TypeOK
    <3>. QED  BY <1>4, <3>1, Unmoved DEF Receive
  <2>. QED  BY <2>1, <2>2
<1>5. ASSUME \/ \E u \in Types : CallReceive(u)
             \/ ReceiverChecks \/ GetThrows \/ PushThrows \/ Rearms
             \/ SenderStep
             \/ \E u \in Users : CallSend(u) \/ UserStep(u)
             \/ Release \/ DestroysQueues \/ Shutdown
             \/ UNCHANGED vars
      PROVE  InOrder(t)' /\ Complete(t)'
  <2>1. UNCHANGED <<inputQueues, element, ready, arrived>>
    BY <1>5 DEF CallReceive, ReceiverChecks, GetThrows, PushThrows, Rearms,
                SenderStep, SenderChecks, SenderPops, SenderTimesOut, SendCompletes, SendThrows,
                CallSend, UserStep, Passes, PushesSend, Release, DestroysQueues,
                Shutdown, Acknowledged, Closes, DestroysClient, JoinsThreads, vars, inVars
  <2>. QED  BY <2>1, Unmoved
<1>. QED  BY <1>1, <1>2, <1>3, <1>4, <1>5 DEF Next, ReceiverStep

-----------------------------------------------------------------------------
(* The theorems *)

LEMMA InitIInv == Init => IInv
<1>. SUFFICES ASSUME Init
              PROVE  IInv
  OBVIOUS
<1>0. \A t \in Types : MaxArrivals[t] \in Nat /\ InputQueueSize[t] \in Nat
  BY TypesAssumption
<1>1. TypeOK /\ InHand
  <2>1. ready = <<>> /\ Len(ready) = 0 /\ <<>> \in Seq(Data \cup {Close}) /\ <<>> \in Seq(Data)
    BY DEF Init
  <2>2. Waiting >= 0
    BY <2>1, TypesAssumption DEF Init, Waiting
  <2>3. \E i \in DOMAIN Phases : phase = Phases[i]
    BY DEF Init, Phases
  <2>4. \A t \in Types : /\ Len(inputQueues[t]) <= InputQueueSize[t]
                         /\ arrived[t] <= MaxArrivals[t]
    BY <1>0 DEF Init
  <2>5. arrived \in [Types -> Nat] /\ inputQueues \in [Types -> Seq(Data)]
    BY <2>1 DEF Init
  <2>6. /\ pendingSends \in 0 .. Capacity
        /\ user \in [Users -> {"idle", "spin", "push"}]
        /\ left \in [Users -> 0 .. FanOut]
        /\ \A u \in Users : left[u] > 0 <=> user[u] = "push"
    BY SendsAssumption DEF Init
  <2>7. InHand
    BY DEF Init, InHand
  <2>. QED  BY <2>1, <2>2, <2>3, <2>4, <2>5, <2>6, <2>7 DEF Init, TypeOK
<1>2. \A t \in Types : InOrder(t) /\ Complete(t)
  <2>. SUFFICES ASSUME NEW t \in Types
                PROVE  InOrder(t) /\ Complete(t)
    OBVIOUS
  <2>1. \A k \in 1 .. 3, i \in Nat : ~Place(t, k, i)
    BY DataTypes DEF Init, Place
  <2>2. arrived[t] = 0
    BY DEF Init
  <2>3. 0 \in 0 .. arrived[t] /\ \A n : n \in 0 + 1 .. arrived[t] <=> IsOnWay(t, n)
    BY <2>1, <2>2 DEF IsOnWay
  <2>. QED  BY <2>1, <2>3 DEF InOrder, Complete
<1>3. NothingLost
  BY <1>1, <1>2, NothingLostMeans
<1>4. BacklogBounded
  <2>1. Unpushed = {}
    BY DEF Init, Unpushed
  <2>2. Cardinality(Unpushed) = 0
    BY <2>1, FS_EmptySet
  <2>3. pendingSends = 0 /\ Backlog \in Nat /\ FanOut \in Nat /\ Cardinality(Users) \in Nat
    BY SendsAssumption, UsersAssumption, FS_CardinalityType DEF Init
  <2>. QED  BY <2>2, <2>3 DEF BacklogBounded
<1>5. QueuesSorted /\ ActiveUntilDestroyed
  BY DEF Init, QueuesSorted, ActiveUntilDestroyed
<1>. QED  BY <1>1, <1>3, <1>4, <1>5 DEF IInv

LEMMA StepIInv ==
    ASSUME IInv, [Next]_vars
    PROVE  IInv'
<1>1. TypeOK' /\ InHand'
  BY TypesKept DEF IInv
<1>0. QueuesSorted' /\ ActiveUntilDestroyed'
  BY QueuesStaySorted, StaysActive DEF IInv
<1>2. \A t \in Types : InOrder(t)' /\ Complete(t)'
  BY <1>1, WayKept, NothingLostMeans DEF IInv
<1>3. NothingLost'
  <2>1. (TypeOK => (NothingLost <=> \A t \in Types : InOrder(t) /\ Complete(t)))'
    BY NothingLostMeans, PTL
  <2>. QED  BY <1>1, <1>2, <2>1
<1>4. BacklogBounded'
  BY <1>1, BacklogKept DEF IInv
<1>. QED  BY <1>0, <1>1, <1>3, <1>4 DEF IInv

\* The invariant holds throughout the life of a Cracen2 object.
THEOREM Invariance == Spec => []IInv
<1>1. IInv /\ [Next]_vars => IInv'
  BY StepIInv
<1>. QED  BY <1>1, InitIInv, PTL DEF Spec

\* Every variable of Cracen2.hpp has its type; no input queue holds more than
\* InputQueueSize messages and pendingSends no more than its capacity.
THEOREM TypeCorrect == Spec => []TypeOK
<1>1. IInv => TypeOK
  BY DEF IInv
<1>. QED  BY <1>1, Invariance, PTL

\* Between its arrival and the call of receive that returns it no message is lost,
\* doubled or overtaken by a later one of its type, release() or not.
THEOREM ReceivesMissNothing == Spec => []NothingLost
<1>1. IInv => NothingLost
  BY DEF IInv
<1>. QED  BY <1>1, Invariance, PTL

\* The unlocked look at pendingSends.size() in send admits one fan-out per thread beyond
\* the backlog and no more, whatever the number of threads.
THEOREM BacklogStaysBounded == Spec => []BacklogBounded
<1>1. IInv => BacklogBounded
  BY DEF IInv
<1>. QED  BY <1>1, Invariance, PTL

\* Whoever pushes the future of a send finds room for it.
PushFindsRoom == \A u \in Users : user[u] = "push" => pendingSends < Capacity

\* If one fan-out of every thread fits beyond the backlog, as with 20 and 200 in
\* Cracen2.hpp for 180 sends, push on pendingSends never waits: send blocks nowhere but
\* in its loop.
THEOREM PushesOfSendsNeverWait ==
    ASSUME Backlog + Cardinality(Users) * FanOut <= Capacity
    PROVE  Spec => []PushFindsRoom
<1>. DEFINE bound == Cardinality(Users) * FanOut
<1>0. Backlog + bound <= Capacity
  OBVIOUS
<1>1. ASSUME TypeOK, BacklogBounded
      PROVE  PushFindsRoom
  <2>. SUFFICES ASSUME NEW u \in Users, user[u] = "push"
                PROVE  pendingSends < Capacity
    BY DEF PushFindsRoom
  <2>1. left[u] \in Nat /\ left[u] > 0
    BY <1>1, SendsAssumption DEF TypeOK
  <2>2. <<u, left[u]>> \in Unpushed
    BY <2>1 DEF Unpushed
  <2>3. IsFiniteSet(Unpushed) /\ Cardinality(Unpushed) \in Nat /\ Cardinality(Users) \in Nat
    BY <1>1, UnpushedBound
  <2>4. Cardinality(Unpushed) # 0
    BY <2>2, <2>3, FS_EmptySet
  <2>5. /\ pendingSends \in Nat /\ Backlog \in Nat /\ Capacity \in Nat /\ bound \in Nat
        /\ pendingSends + Cardinality(Unpushed) <= Backlog + bound
    BY <1>1, <2>3, SendsAssumption DEF TypeOK, BacklogBounded
  <2>. HIDE DEF bound
  <2>. QED  BY <1>0, <2>3, <2>4, <2>5
<1>2. IInv => PushFindsRoom
  BY <1>1 DEF IInv
<1>. QED  BY <1>2, Invariance, PTL

-----------------------------------------------------------------------------
(* The channels *)

\* A set whose elements are numbered without a gap is as large as the interval of the
\* numbers.
Numbered(S, f, a, b) ==
    /\ a <= b
    /\ \A x \in S : f[x] \in a + 1 .. b
    /\ \A x, y \in S : f[x] = f[y] => x = y
    /\ \A n \in a + 1 .. b : \E x \in S : f[x] = n

LEMMA Counted ==
    ASSUME NEW S, NEW a \in Nat, NEW b \in Nat, NEW f, Numbered(S, f, a, b)
    PROVE  IsFiniteSet(S) /\ Cardinality(S) = b - a
<1>. USE DEF Numbered
<1>. DEFINE T == a + 1 .. b
            g == [n \in T |-> CHOOSE x \in S : f[x] = n]
<1>1. \A n \in T : g[n] \in S /\ f[g[n]] = n
  OBVIOUS
<1>2. g \in Bijection(T, S)
  <2>1. g \in [T -> S]
    BY <1>1
  <2>2. \A m, n \in T : g[m] = g[n] => m = n
    BY <1>1, Zenon
  <2>3. \A x \in S : \E n \in T : g[n] = x
    <3>1. \A x \in S : f[x] \in T /\ g[f[x]] = x
      <4>. HIDE DEF g
      <4>. QED  BY <1>1
    <3>. QED  BY <3>1
  <2>. HIDE DEF g, T
  <2>. QED  BY <2>1, <2>2, <2>3, Fun_IsBij
<1>3. IsFiniteSet(T) /\ Cardinality(T) = b - a
  <2>1. a + 1 \in Int /\ b \in Int
    OBVIOUS
  <2>2. IsFiniteSet(T) /\ Cardinality(T) = IF a + 1 > b THEN 0 ELSE b - (a + 1) + 1
    BY <2>1, FS_Interval
  <2>3. a + 1 > b => b - a = 0
    OBVIOUS
  <2>4. b - (a + 1) + 1 = b - a
    OBVIOUS
  <2>. QED  BY <2>2, <2>3, <2>4
<1>4. ExistsBijection(T, S)
  BY <1>2 DEF ExistsBijection
<1>. HIDE DEF T
<1>. QED  BY <1>3, <1>4, FS_Bijection

\* The messages of type t up to number got have been handed over, the others that have
\* arrived are on their way.
HandedOver(t, got) ==
    got \in 0 .. arrived[t] /\ \A n : n \in got + 1 .. arrived[t] <=> IsOnWay(t, n)

LEMMA PlacesCompare ==
    ASSUME NEW t
    PROVE  \A p, q \in Places(t) : p = q \/ p[1] # q[1] \/ p[2] # q[2]
<1>1. ASSUME NEW p \in Places(t)
      PROVE  p = <<p[1], p[2]>>
  <2>1. PICK k \in DOMAIN Way(t) : p \in {k} \X DOMAIN Way(t)[k]
    BY DEF Places
  <2>. QED  BY <2>1
<1>. QED  BY <1>1

\* What is on its way, place by place, are the numbers from one on.
LEMMA ChannelIs ==
    ASSUME TypeOK, NothingLost, NEW t \in Types, NEW got, HandedOver(t, got)
    PROVE  Channel(t) = [k \in 1 .. arrived[t] - got |-> got + k]
<1>. DEFINE P == Places(t)
            f == [p \in P |-> Number(t, p)]
            last == arrived[t]
            B(p) == {q \in P : Ahead(q, p)}
<1>1. got \in Nat /\ last \in Nat /\ got <= last
  BY DEF TypeOK, HandedOver
<1>2. /\ \A p \in P : p[1] \in Nat /\ p[2] \in Nat
      /\ \A p, q \in P : Ahead(p, q) => f[p] < f[q]
      /\ \A p, q \in P : p = q \/ p[1] # q[1] \/ p[2] # q[2]
  BY PlacesArePlaces, PlacesCompare DEF NothingLost
<1>3. /\ \A p \in P : f[p] \in got + 1 .. last
      /\ \A n \in got + 1 .. last : \E p \in P : f[p] = n
  <2>1. ASSUME NEW p \in P
        PROVE  f[p] \in got + 1 .. last
    <3>1. /\ p[1] \in 1 .. 3 /\ p[2] \in Nat /\ Place(t, p[1], p[2])
          /\ f[p] = At(t, p[1], p[2])
      BY PlacesArePlaces
    <3>2. IsOnWay(t, f[p])
      BY <3>1 DEF IsOnWay
    <3>. QED  BY <3>2 DEF HandedOver
  <2>2. ASSUME NEW n \in got + 1 .. last
        PROVE  \E p \in P : f[p] = n
    <3>1. IsOnWay(t, n)
      BY DEF HandedOver
    <3>2. PICK k \in 1 .. 3, i \in Nat : Place(t, k, i) /\ At(t, k, i) = n
      BY <3>1 DEF IsOnWay
    <3>3. <<k, i>> \in P /\ <<k, i>>[1] = k /\ <<k, i>>[2] = i
      BY <3>2, PlacesArePlaces
    <3>4. Number(t, <<k, i>>) = At(t, <<k, i>>[1], <<k, i>>[2])
      BY <3>3, PlacesArePlaces
    <3>5. f[<<k, i>>] = n
      BY <3>2, <3>3, <3>4
    <3>. QED  BY <3>3, <3>5
  <2>. QED  BY <2>1, <2>2
<1>. HIDE DEF P, f, last
<1>4. \A p, q \in P : f[p] \in Nat /\ (p = q \/ Ahead(p, q) \/ Ahead(q, p))
  <2>1. \A p, q \in P : p = q \/ Ahead(p, q) \/ Ahead(q, p)
    BY <1>2 DEF Ahead
  <2>. QED  BY <1>1, <1>3, <2>1
<1>5. /\ \A p, q \in P : f[p] = f[q] => p = q
      /\ \A p, q \in P : Ahead(p, q) <=> f[p] < f[q]
  BY <1>2, <1>4
<1>6. Cardinality(P) = last - got
  <2>1. Numbered(P, f, got, last)
    BY <1>1, <1>3, <1>5 DEF Numbered
  <2>. QED  BY <1>1, <2>1, Counted, Zenon
<1>7. ASSUME NEW p \in P
      PROVE  Cardinality(B(p)) = f[p] - 1 - got
  <2>1. \A q \in B(p) : f[q] \in got + 1 .. f[p] - 1
    BY <1>1, <1>3, <1>5
  <2>2. \A n \in got + 1 .. f[p] - 1 : \E q \in B(p) : f[q] = n
    BY <1>1, <1>3, <1>5
  <2>3. \A q, r \in B(p) : f[q] = f[r] => q = r
    BY <1>5
  <2>4. f[p] - 1 \in Nat /\ got <= f[p] - 1
    BY <1>1, <1>3
  <2>. HIDE DEF B
  <2>5. Numbered(B(p), f, got, f[p] - 1)
    BY <2>1, <2>2, <2>3, <2>4 DEF Numbered
  <2>. QED  BY <1>1, <2>4, <2>5, Counted, Zenon
<1>. HIDE DEF B
<1>8. \A k \in 1 .. last - got :
        Number(t, CHOOSE p \in P : Cardinality(B(p)) = k - 1) = got + k
  <2>. SUFFICES ASSUME NEW k \in 1 .. last - got
                PROVE  Number(t, CHOOSE p \in P : Cardinality(B(p)) = k - 1) = got + k
    OBVIOUS
  <2>. DEFINE c == CHOOSE q \in P : Cardinality(B(q)) = k - 1
  <2>1. \E q \in P : Cardinality(B(q)) = k - 1
    <3>1. got + k \in got + 1 .. last
      BY <1>1
    <3>2. PICK p \in P : f[p] = got + k
      BY <1>3, <3>1
    <3>3. Cardinality(B(p)) = f[p] - 1 - got
      BY <1>7
    <3>4. f[p] - 1 - got = k - 1
      BY <1>1, <3>2
    <3>. QED  BY <3>2, <3>3, <3>4
  <2>2. c \in P /\ Cardinality(B(c)) = k - 1
    BY <2>1
  <2>. HIDE DEF c
  <2>3. f[c] = got + k
    <3>1. f[c] - 1 - got = k - 1 /\ f[c] \in Nat
      BY <1>4, <1>7, <2>2
    <3>. QED  BY <1>1, <3>1
  <2>4. Number(t, c) = got + k
    BY <2>2, <2>3 DEF f
  <2>. QED  BY <2>4 DEF c
<1>9. Channel(t) = [k \in 1 .. last - got |->
                        Number(t, CHOOSE p \in P : Cardinality(B(p)) = k - 1)]
  BY <1>6 DEF Channel, P, B
<1>. QED  BY <1>8, <1>9 DEF last

LEMMA SomeHandedOver ==
    ASSUME TypeOK, NothingLost, NEW t \in Types
    PROVE  \E got \in Nat : HandedOver(t, got)
<1>1. PICK got \in 0 .. arrived[t] : \A n : n \in got + 1 .. arrived[t] <=> IsOnWay(t, n)
  BY NothingLostMeans DEF Complete
<1>2. got \in Nat
  BY DEF TypeOK
<1>. QED  BY <1>1, <1>2 DEF HandedOver

\* There is room for a message that arrives.
LEMMA PlacesBound ==
    ASSUME TypeOK, InHand, ~Terminated, Waiting > 0, NEW t \in Types
    PROVE  /\ Cardinality(Places(t)) \in Nat
           /\ Cardinality(Places(t)) < InputQueueSize[t] + Prefetch
<1>. DEFINE Q == {1} \X (1 .. Len(inputQueues[t]))
            H == IF receiver = "push" THEN {<<2, 1>>} ELSE {}
            R == {3} \X (1 .. Len(ready))
            q == Len(inputQueues[t])
            h == IF receiver = "push" THEN 1 ELSE 0
            r == Len(ready)
<1>1. /\ q \in Nat /\ q <= InputQueueSize[t] /\ InputQueueSize[t] \in Nat
      /\ DOMAIN inputQueues[t] = 1 .. q
      /\ r \in Nat /\ DOMAIN ready = 1 .. r
      /\ h \in {0, 1}
  BY LenProperties, TypesAssumption DEF TypeOK
<1>2. h + r < Prefetch
  <2>1. receiver \in {"push", "rearm"} => Prefetch - r - 1 > 0
    BY DEF Waiting
  <2>2. receiver \notin {"push", "rearm"} => Prefetch - r - 0 > 0
    BY DEF Waiting
  <2>3. r \in Nat /\ Prefetch \in Nat
    BY <1>1, TypesAssumption
  <2>. HIDE DEF r
  <2>. QED  BY <2>1, <2>2, <2>3
<1>3. Places(t) \subseteq (Q \cup H) \cup R
  <2>. SUFFICES ASSUME NEW p \in Places(t)
                PROVE  p \in (Q \cup H) \cup R
    OBVIOUS
  <2>1. /\ p[1] \in 1 .. 3 /\ p[2] \in Nat /\ Place(t, p[1], p[2])
    BY PlacesArePlaces
  <2>2. p = <<p[1], p[2]>>
    <3>1. PICK k \in DOMAIN Way(t) : p \in {k} \X DOMAIN Way(t)[k]
      BY DEF Places
    <3>. QED  BY <3>1
  <2>3. CASE p[1] = 1
    <3>1. p[2] \in 1 .. q
      BY <1>1, <2>1, <2>3 DEF Place
    <3>. QED  BY <2>2, <2>3, <3>1
  <2>4. CASE p[1] = 2
    <3>1. p[2] = 1 /\ TypeOf(element) = t
      BY <2>1, <2>4 DEF Place
    <3>2. receiver = "push"
      BY <3>1, DataTypes DEF InHand, Terminated
    <3>. QED  BY <2>2, <2>4, <3>1, <3>2
  <2>5. CASE p[1] = 3
    <3>1. p[2] \in 1 .. r
      BY <1>1, <2>1, <2>5 DEF Place
    <3>. QED  BY <2>2, <2>5, <3>1
  <2>. QED  BY <2>1, <2>3, <2>4, <2>5
<1>4. /\ IsFiniteSet(Q) /\ Cardinality(Q) = q
      /\ IsFiniteSet(R) /\ Cardinality(R) = r
  <2>1. ASSUME NEW k, NEW n \in Nat
        PROVE  IsFiniteSet({k} \X (1 .. n)) /\ Cardinality({k} \X (1 .. n)) = n
    <3>1. IsFiniteSet({k}) /\ Cardinality({k}) = 1
      BY FS_Singleton
    <3>2. IsFiniteSet(1 .. n) /\ Cardinality(1 .. n) = n
      BY FS_Interval
    <3>3. /\ IsFiniteSet({k} \X (1 .. n))
          /\ Cardinality({k} \X (1 .. n)) = Cardinality({k}) * Cardinality(1 .. n)
      BY <3>1, <3>2, FS_Product
    <3>. QED  BY <3>1, <3>2, <3>3
  <2>. QED  BY <1>1, <2>1
<1>5. IsFiniteSet(H) /\ Cardinality(H) = h
  BY FS_Singleton, FS_EmptySet
<1>. HIDE DEF Q, H, R, q, h, r
<1>6. IsFiniteSet(Q \cup H) /\ Cardinality(Q \cup H) <= q + h
  <2>1. /\ IsFiniteSet(Q \cup H)
        /\ Cardinality(Q \cup H) = Cardinality(Q) + Cardinality(H) - Cardinality(Q \cap H)
    BY <1>4, <1>5, FS_Union
  <2>2. Cardinality(Q \cap H) \in Nat
    BY <1>4, FS_Intersection, FS_CardinalityType
  <2>. QED  BY <1>1, <1>4, <1>5, <2>1, <2>2
<1>7. IsFiniteSet((Q \cup H) \cup R) /\ Cardinality((Q \cup H) \cup R) <= q + h + r
  <2>1. /\ IsFiniteSet((Q \cup H) \cup R)
        /\ Cardinality((Q \cup H) \cup R) =
                Cardinality(Q \cup H) + Cardinality(R) - Cardinality((Q \cup H) \cap R)
    BY <1>4, <1>6, FS_Union
  <2>2. Cardinality((Q \cup H) \cap R) \in Nat /\ Cardinality(Q \cup H) \in Nat
    BY <1>4, <1>6, FS_Intersection, FS_CardinalityType
  <2>. QED  BY <1>1, <1>4, <1>6, <2>1, <2>2
<1>8. /\ Cardinality(Places(t)) <= Cardinality((Q \cup H) \cup R)
      /\ Cardinality(Places(t)) \in Nat /\ Cardinality((Q \cup H) \cup R) \in Nat
  BY <1>3, <1>7, FS_Subset, FS_CardinalityType
<1>. QED  BY <1>1, <1>2, <1>7, <1>8, TypesAssumption

\* The same after a step.
ChannelsAre ==
    \A t \in Types : \A got \in Nat : HandedOver(t, got) =>
        Channel(t) = [k \in 1 .. arrived[t] - got |-> got + k]

LEMMA ChannelIsAlways == TypeOK /\ NothingLost => ChannelsAre
BY ChannelIs DEF ChannelsAre

LEMMA ChannelIsNext ==
    ASSUME IInv', NEW t \in Types, NEW got \in Nat, HandedOver(t, got)'
    PROVE  Channel(t)' = [k \in 1 .. arrived'[t] - got |-> got + k]
<1>1. (TypeOK /\ NothingLost => ChannelsAre)'
  BY ChannelIsAlways, PTL
<1>2. ChannelsAre'
  BY <1>1 DEF IInv
<1>. QED  BY <1>2 DEF ChannelsAre

\* A step after which the same messages are on their way.
LEMMA ChannelSame ==
    ASSUME IInv, IInv', NEW t \in Types, SameOnWay(t), arrived'[t] = arrived[t]
    PROVE  Channel(t)' = Channel(t)
<1>1. PICK got \in Nat : HandedOver(t, got)
  BY SomeHandedOver DEF IInv
<1>2. HandedOver(t, got)'
  BY <1>1 DEF HandedOver, SameOnWay
<1>3. Channel(t) = [k \in 1 .. arrived[t] - got |-> got + k]
  BY <1>1, ChannelIs DEF IInv
<1>4. Channel(t)' = [k \in 1 .. arrived'[t] - got |-> got + k]
  BY <1>2, ChannelIsNext
<1>. QED  BY <1>3, <1>4

\* A message arrives at the end of its channel ...
LEMMA ChannelArrives ==
    ASSUME IInv, IInv', NEW t \in Types, Grows(t)
    PROVE  Channel(t)' = Append(Channel(t), arrived'[t])
<1>. USE DEF Grows
<1>1. PICK got \in Nat : HandedOver(t, got)
  BY SomeHandedOver DEF IInv
<1>2. arrived[t] \in Nat /\ got <= arrived[t]
  BY <1>1 DEF IInv, TypeOK, HandedOver
<1>3. HandedOver(t, got)'
  <2>1. \A n : n \in got + 1 .. arrived[t] + 1 <=> n \in got + 1 .. arrived[t] \/ n = arrived[t] + 1
    BY <1>2
  <2>2. got \in 0 .. arrived'[t]
    BY <1>2
  <2>. QED  BY <1>1, <2>1, <2>2 DEF HandedOver
<1>. DEFINE m == arrived[t] - got
            s == Channel(t)
            r == Channel(t)'
<1>4. m \in Nat /\ got + (m + 1) = arrived[t] + 1
  BY <1>2
<1>5. s = [k \in 1 .. m |-> got + k]
  BY <1>1, ChannelIs DEF IInv
<1>6. r = [k \in 1 .. m + 1 |-> got + k]
  <2>1. r = [k \in 1 .. arrived'[t] - got |-> got + k]
    BY <1>3, ChannelIsNext
  <2>2. arrived'[t] - got = m + 1
    BY <1>2
  <2>. QED  BY <2>1, <2>2
<1>. HIDE DEF m, s, r
<1>7. s \in Seq(Nat) /\ Len(s) = m /\ r \in Seq(Nat) /\ Len(r) = m + 1
  BY <1>4, <1>5, <1>6
<1>8. /\ Append(s, got + (m + 1)) \in Seq(Nat) /\ Len(Append(s, got + (m + 1))) = m + 1
      /\ \A i \in 1 .. m : Append(s, got + (m + 1))[i] = s[i]
      /\ Append(s, got + (m + 1))[m + 1] = got + (m + 1)
  BY <1>4, <1>7, AppendFacts
<1>9. \A i \in 1 .. m + 1 : r[i] = Append(s, got + (m + 1))[i]
  BY <1>4, <1>5, <1>6, <1>8
<1>10. r = Append(s, got + (m + 1))
  BY <1>7, <1>8, <1>9, SeqEqual
<1>. QED  BY <1>4, <1>10 DEF s, r

\* ... and leaves it at its head.
LEMMA ChannelReceives ==
    ASSUME IInv, IInv', NEW t \in Types, arrived'[t] = arrived[t], Shrinks(t)
    PROVE  Channel(t) # <<>> /\ Channel(t)' = Tail(Channel(t))
<1>0. PICK first : /\ IsOnWay(t, first)
                   /\ \A n \in Int : IsOnWay(t, n) => first <= n
                   /\ \A n : IsOnWay(t, n)' <=> IsOnWay(t, n) /\ n # first
  BY DEF Shrinks
<1>1. PICK got \in Nat : HandedOver(t, got)
  BY SomeHandedOver DEF IInv
<1>2. arrived[t] \in Nat /\ got <= arrived[t]
  BY <1>1 DEF IInv, TypeOK, HandedOver
<1>3. first = got + 1 /\ got + 1 <= arrived[t]
  <2>1. first \in got + 1 .. arrived[t]
    BY <1>0, <1>1 DEF HandedOver
  <2>2. got + 1 \in got + 1 .. arrived[t]
    BY <1>2, <2>1
  <2>3. IsOnWay(t, got + 1)
    BY <1>1, <2>2 DEF HandedOver
  <2>. QED  BY <1>0, <1>2, <2>1, <2>3
<1>4. HandedOver(t, got + 1)'
  <2>1. \A n : n \in got + 1 + 1 .. arrived[t] <=> n \in got + 1 .. arrived[t] /\ n # got + 1
    BY <1>2
  <2>2. got + 1 \in 0 .. arrived'[t]
    BY <1>2, <1>3
  <2>. QED  BY <1>0, <1>1, <1>3, <2>1, <2>2 DEF HandedOver
<1>. DEFINE m == arrived[t] - got
            s == Channel(t)
            r == Channel(t)'
<1>5. m \in Nat \ {0}
  BY <1>2, <1>3
<1>6. s = [k \in 1 .. m |-> got + k]
  BY <1>1, ChannelIs DEF IInv
<1>7. r = [k \in 1 .. m - 1 |-> got + 1 + k]
  <2>1. r = [k \in 1 .. arrived'[t] - (got + 1) |-> got + 1 + k]
    BY <1>4, ChannelIsNext
  <2>2. arrived'[t] - (got + 1) = m - 1
    BY <1>2
  <2>. QED  BY <2>1, <2>2
<1>. HIDE DEF m, s, r
<1>8. s \in Seq(Nat) /\ Len(s) = m /\ r \in Seq(Nat) /\ Len(r) = m - 1
  BY <1>5, <1>6, <1>7
<1>9. s # <<>>
  BY <1>5, <1>8, EmptySeq
<1>10. /\ Tail(s) \in Seq(Nat) /\ Len(Tail(s)) = m - 1
       /\ \A i \in 1 .. m - 1 : Tail(s)[i] = s[i + 1]
  BY <1>8, <1>9, TailFacts
<1>11. \A i \in 1 .. m - 1 : r[i] = Tail(s)[i]
  BY <1>5, <1>6, <1>7, <1>10
<1>12. r = Tail(s)
  BY <1>8, <1>10, <1>11, SeqEqual
<1>. QED  BY <1>9, <1>12 DEF s, r

-----------------------------------------------------------------------------
(* The refinement *)

StagesAre ==
    /\ Stage \in {"open", "released", "destroyed"}
    /\ Stage = "open" <=> phase \in {"using", "stopping"}
    /\ Stage = "released" <=> phase = "released"
    /\ Stage = "destroyed" <=> phase \in {"queuesGone", "clientGone", "gone"}
    /\ Stage # "destroyed" <=> active
    /\ ~Reached("released") <=> phase \in {"using", "stopping"}

LEMMA StageMeans == TypeOK /\ ActiveUntilDestroyed => StagesAre
<1>. SUFFICES ASSUME TypeOK, ActiveUntilDestroyed
              PROVE  StagesAre
  OBVIOUS
<1>1. /\ DOMAIN Phases = 1 .. 6
      /\ Phases[1] = "using" /\ Phases[2] = "stopping" /\ Phases[3] = "released"
      /\ Phases[4] = "queuesGone" /\ Phases[5] = "clientGone" /\ Phases[6] = "gone"
  BY DEF Phases
<1>. HIDE DEF Phases
<1>2. phase \in {"using", "stopping", "released", "queuesGone", "clientGone", "gone"}
  BY <1>1 DEF TypeOK
<1>3. Reached("released") <=> phase \in {"released", "queuesGone", "clientGone", "gone"}
  BY <1>1, <1>2 DEF Reached
<1>4. Reached("queuesGone") <=> phase \in {"queuesGone", "clientGone", "gone"}
  BY <1>1, <1>2 DEF Reached
<1>. QED  BY <1>2, <1>3, <1>4 DEF Stage, ActiveUntilDestroyed, StagesAre

LEMMA StagesThen ==
    ASSUME IInv, IInv'
    PROVE  StagesAre /\ StagesAre'
<1>1. (TypeOK /\ ActiveUntilDestroyed => StagesAre)'
  BY StageMeans, PTL
<1>. QED  BY <1>1, StageMeans DEF IInv

LEMMA StageKept ==
    ASSUME phase' = phase
    PROVE  Stage' = Stage
BY DEF Stage, Reached

LEMMA LinesKept ==
    ASSUME IInv, IInv', \A t \in Types : SameOnWay(t), arrived' = arrived
    PROVE  Lines' = Lines
<1>1. \A t \in Types : Channel(t)' = Channel(t)
  BY ChannelSame
<1>. QED  BY <1>1 DEF Lines

LEMMA ArrivesImplements ==
    ASSUME IInv, IInv', ~Terminated, NEW t \in Types, Arrives(t)
    PROVE  Channels!Arrive(t)
<1>1. \A u \in Types : InOrder(u) /\ Complete(u)
  BY NothingLostMeans DEF IInv
<1>2. arrived' = [arrived EXCEPT ![t] = arrived[t] + 1] /\ arrived \in [Types -> Nat]
  BY DEF Arrives, IInv, TypeOK
<1>3. \A u \in Types : (arrived'[u] = arrived[u] /\ SameOnWay(u)) \/ Grows(u)
  <2>. SUFFICES ASSUME NEW u \in Types
                PROVE  (arrived'[u] = arrived[u] /\ SameOnWay(u)) \/ Grows(u)
    OBVIOUS
  <2>. QED  BY <1>1, ArrivedInOrder DEF IInv
<1>4. Channel(t)' = Append(Channel(t), arrived'[t])
  <2>1. arrived'[t] # arrived[t]
    BY <1>2
  <2>. QED  BY <1>3, <2>1, ChannelArrives
<1>5. ASSUME NEW u \in Types, u # t
      PROVE  Channel(u)' = Channel(u)
  <2>1. arrived'[u] = arrived[u] /\ arrived[u] \in Nat
    BY <1>2, <1>5
  <2>2. ~Grows(u)
    BY <2>1 DEF Grows
  <2>. QED  BY <1>3, <2>1, <2>2, ChannelSame
<1>6. Lines' = [Lines EXCEPT ![t] = Append(Lines[t], arrived'[t])]
  BY <1>4, <1>5 DEF Lines
<1>7. Len(Lines[t]) < Rooms[t]
  <2>1. TypeOK /\ InHand /\ Waiting > 0
    BY DEF IInv, Arrives
  <2>2. Cardinality(Places(t)) < InputQueueSize[t] + Prefetch /\ Cardinality(Places(t)) \in Nat
    BY <2>1, PlacesBound
  <2>3. Len(Channel(t)) = Cardinality(Places(t))
    BY <2>2 DEF Channel
  <2>. QED  BY <2>2, <2>3 DEF Lines, Rooms
<1>8. Stage = "open" /\ Stage' = Stage /\ wanted' = wanted
  BY StagesThen, StageKept DEF Arrives, ownerVars, StagesAre
<1>. QED  BY <1>2, <1>6, <1>7, <1>8 DEF Channels!Arrive

LEMMA ReceiveImplements ==
    ASSUME IInv, IInv', Receive
    PROVE  Channels!HandOver
<1>1. wanted \in Types /\ arrived' = arrived /\ wanted' = NoType /\ wanted # NoType
  BY DEF Receive, IInv, TypeOK
<1>2. PICK t \in Types : t = wanted
  BY <1>1
<1>3. /\ InOrder(t) /\ Complete(t) /\ TypeOK /\ TypeOK'
      /\ inputQueues[t] \in Seq(Data) /\ inputQueues[t] # <<>>
  BY <1>2, NothingLostMeans DEF IInv, Receive, TypeOK
<1>4. Place(t, 1, 1)
  <2>1. 1 \in DOMAIN inputQueues[t]
    <3>1. DOMAIN inputQueues[t] = 1 .. Len(inputQueues[t]) /\ Len(inputQueues[t]) \in Nat \ {0}
      BY <1>3, TailFacts
    <3>. QED  BY <3>1
  <2>. QED  BY <2>1 DEF Place, IInv, QueuesSorted
<1>5. Channel(t) # <<>> /\ Channel(t)' = Tail(Channel(t))
  <2>1. Shrinks(t)
    BY <1>2, <1>3, <1>4, ReceivedInOrder
  <2>. QED  BY <1>1, <2>1, ChannelReceives
<1>6. ASSUME NEW u \in Types, u # t
      PROVE  Channel(u)' = Channel(u)
  <2>1. inputQueues'[u] = inputQueues[u]
    BY <1>2, <1>6 DEF Receive, IInv, TypeOK
  <2>2. InOrder(u) /\ Complete(u)
    BY NothingLostMeans DEF IInv
  <2>3. SameOnWay(u)
    BY <1>1, <1>3, <2>1, <2>2, Unmoved DEF Receive
  <2>. QED  BY <1>1, <2>3, ChannelSame
<1>7. Lines' = [Lines EXCEPT ![t] = Tail(Lines[t])] /\ Lines[t] # <<>>
  BY <1>5, <1>6 DEF Lines
<1>8. Stage # "destroyed" /\ Stage' = Stage
  BY StagesThen, StageKept DEF Receive, StagesAre
<1>. QED  BY <1>1, <1>2, <1>7, <1>8 DEF Channels!HandOver

\* The steps that leave the messages where they are to the program.
LEMMA OthersKeepLines ==
    ASSUME IInv, IInv', [Next]_vars, ~Receive, \A t \in Types : ~Arrives(t)
    PROVE  Lines' = Lines /\ arrived' = arrived
<1>1. \A t \in Types : InOrder(t) /\ Complete(t)
  BY NothingLostMeans DEF IInv
<1>2. CASE GetsData \/ GetsClose
  <2>1. arrived' = arrived
    BY <1>2 DEF GetsData, GetsClose
  <2>2. \A t \in Types : SameOnWay(t)
    BY <1>1, <1>2, GotInOrder DEF IInv
  <2>. QED  BY <2>1, <2>2, LinesKept
<1>3. CASE PushesElement
  <2>1. arrived' = arrived
    BY <1>3 DEF PushesElement
  <2>2. \A t \in Types : SameOnWay(t)
    BY <1>1, <1>3, PushedInOrder DEF IInv
  <2>. QED  BY <2>1, <2>2, LinesKept
<1>4. CASE CloseArrives
  <2>1. arrived' = arrived /\ arrived \in [Types -> Nat]
    BY <1>4 DEF CloseArrives, IInv, TypeOK
  <2>2. \A t \in Types : SameOnWay(t)
    <3>. SUFFICES ASSUME NEW t \in Types
                  PROVE  SameOnWay(t)
      OBVIOUS
    <3>1. (arrived'[t] = arrived[t] /\ SameOnWay(t)) \/ Grows(t)
      BY <1>1, <1>4, ArrivedInOrder DEF IInv
    <3>2. ~Grows(t)
      BY <2>1 DEF Grows
    <3>. QED  BY <3>1, <3>2
  <2>. QED  BY <2>1, <2>2, LinesKept
<1>5. ASSUME UNCHANGED <<inputQueues, element, ready, arrived>>
      PROVE  Lines' = Lines /\ arrived' = arrived
  <2>1. \A t \in Types : SameOnWay(t)
    BY <1>1, <1>5, Unmoved DEF IInv
  <2>. QED  BY <1>5, <2>1, LinesKept
<1>6. \/ GetsData \/ GetsClose \/ PushesElement \/ CloseArrives
      \/ UNCHANGED <<inputQueues, element, ready, arrived>>
  BY DEF Next, CallReceive, ReceiverStep, ReceiverChecks, GetThrows, PushThrows, Rearms,
         SenderStep, SenderChecks, SenderPops, SenderTimesOut, SendCompletes, SendThrows,
         CallSend, UserStep, Passes, PushesSend, Release, DestroysQueues,
         Shutdown, Acknowledged, Closes, DestroysClient, JoinsThreads, vars, inVars
<1>. QED  BY <1>2, <1>3, <1>4, <1>5, <1>6

LEMMA StepImplements ==
    ASSUME IInv, IInv', [Next]_vars
    PROVE  [Channels!Next]_(Channels!channelVars)
<1>1. ASSUME NEW t \in Types, Arrives(t), ~Terminated
      PROVE  Channels!Next
  BY <1>1, ArrivesImplements DEF Channels!Next
<1>2. ASSUME Receive
      PROVE  Channels!Next
  BY <1>2, ReceiveImplements DEF Channels!Next
<1>3. ASSUME NEW t \in Types, CallReceive(t)
      PROVE  Channels!Next
  <2>1. Lines' = Lines /\ arrived' = arrived
    <3>1. \A u \in Types : SameOnWay(u)
      <4>1. \A u \in Types : InOrder(u) /\ Complete(u)
        BY NothingLostMeans DEF IInv
      <4>. QED  BY <1>3, <4>1, Unmoved DEF CallReceive, inVars, IInv
    <3>. QED  BY <1>3, <3>1, LinesKept DEF CallReceive, inVars
  <2>2. Stage # "destroyed" /\ Stage' = Stage
    BY <1>3, StagesThen, StageKept DEF CallReceive, StagesAre
  <2>3. Channels!Call(t)
    BY <1>3, <2>1, <2>2 DEF CallReceive, Channels!Call
  <2>. QED  BY <2>3 DEF Channels!Next
<1>4. ASSUME Lines' = Lines, arrived' = arrived, Closes
      PROVE  Channels!Next
  <2>1. Stage = "open" /\ Stage' = "released"
    BY <1>4, StagesThen DEF Closes, ToPhase, StagesAre
  <2>. QED  BY <1>4, <2>1 DEF Closes, Channels!Release, Channels!Next
<1>5. ASSUME Lines' = Lines, arrived' = arrived, DestroysQueues
      PROVE  Channels!Next
  <2>1. Stage = "released" /\ Stage' = "destroyed"
    BY <1>5, StagesThen DEF DestroysQueues, ToPhase, StagesAre
  <2>. QED  BY <1>5, <2>1 DEF DestroysQueues, Channels!Destroy, Channels!Next
<1>6. ASSUME Lines' = Lines, arrived' = arrived, UNCHANGED wanted,
             Release \/ DestroysClient \/ JoinsThreads \/ UNCHANGED phase
      PROVE  UNCHANGED Channels!channelVars
  <2>1. Stage' = Stage
    <3>1. CASE UNCHANGED phase
      BY <3>1, StageKept
    <3>2. CASE Release
      BY <3>2, StagesThen DEF Release, ToPhase, StagesAre
    <3>3. CASE DestroysClient \/ JoinsThreads
      BY <3>3, StagesThen DEF DestroysClient, JoinsThreads, ToPhase, StagesAre
    <3>. QED  BY <1>6, <3>1, <3>2, <3>3
  <2>. QED  BY <1>6, <2>1 DEF Channels!channelVars
<1>7. \/ \E t \in Types : (Arrives(t) /\ ~Terminated) \/ CallReceive(t)
      \/ Receive \/ Closes \/ DestroysQueues
      \/ /\ UNCHANGED wanted
         /\ Release \/ DestroysClient \/ JoinsThreads \/ UNCHANGED phase
  BY DEF Next, CloseArrives, ReceiverStep, ReceiverChecks, GetsData, GetsClose, GetThrows,
         PushesElement, PushThrows, Rearms,
         SenderStep, SenderChecks, SenderPops, SenderTimesOut, SendCompletes, SendThrows,
         CallSend, UserStep, Passes, PushesSend, Release, Shutdown, Acknowledged,
         DestroysClient, JoinsThreads, vars, ownerVars
<1>8. CASE Receive \/ \E t \in Types : Arrives(t)
  <2>1. Receive \/ \E t \in Types : Arrives(t) /\ ~Terminated
    <3>1. CASE Receive
      BY <3>1
    <3>2. ASSUME NEW t \in Types, Arrives(t)
          PROVE  ~Terminated
      <4>1. arrived'[t] # arrived[t]
        BY <3>2 DEF Arrives, IInv, TypeOK
      <4>. QED  BY <4>1 DEF Next, vars, inVars
    <3>. QED  BY <1>8, <3>1, <3>2
  <2>. QED  BY <1>1, <1>2, <2>1
<1>9. CASE ~Receive /\ \A t \in Types : ~Arrives(t)
  <2>1. Lines' = Lines /\ arrived' = arrived
    BY <1>9, OthersKeepLines
  <2>. QED  BY <1>3, <1>4, <1>5, <1>6, <1>7, <1>9, <2>1
<1>. QED  BY <1>8, <1>9

\* A Cracen2 object is to its program one FIFO channel per message type, with room for
\* InputQueueSize messages and the pending receives, from its constructor to its
\* destructor: what receiver, senders and release() do in between cannot be seen.
THEOREM Cracen2ImplementsChannels == Spec => ImplementsChannels
<1>1. Init => Channels!Init
  <2>. SUFFICES ASSUME Init
                PROVE  Channels!Init
    OBVIOUS
  <2>1. IInv
    BY InitIInv
  <2>2. ASSUME NEW t \in Types
        PROVE  Channel(t) = <<>>
    <3>1. PICK got \in Nat : HandedOver(t, got)
      BY <2>1, SomeHandedOver DEF IInv
    <3>2. arrived[t] - got = 0
      BY <3>1 DEF Init, HandedOver
    <3>3. Channel(t) = [k \in 1 .. 0 |-> got + k]
      BY <2>1, <3>1, <3>2, ChannelIs DEF IInv
    <3>. QED  BY <3>3
  <2>3. Lines = [t \in Types |-> <<>>]
    BY <2>2 DEF Lines
  <2>4. Stage = "open"
    BY <2>1, StageMeans DEF Init, IInv, StagesAre
  <2>. QED  BY <2>3, <2>4 DEF Init, Channels!Init
<1>2. IInv /\ IInv' /\ [Next]_vars => [Channels!Next]_(Channels!channelVars)
  BY StepImplements
<1>. QED  BY <1>1, <1>2, Invariance, PTL DEF Spec, ImplementsChannels, Channels!Spec

=============================================================================
