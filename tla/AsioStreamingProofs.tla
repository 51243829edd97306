------------------------ MODULE AsioStreamingProofs ------------------------
(***************************************************************************)
(* The sockets over TCP have the types of AsioStreaming, lose nothing      *)
(* before a connection is closed or out of step and hand over nothing      *)
(* twice, keep the order of a connection for the datagrams that were never *)
(* put back, and implement Transport without its order.                    *)
(***************************************************************************)
EXTENDS AsioStreaming, FiniteSetTheorems, SequenceTheorems, TLAPS

(* The inductive invariant *)

\* Connections have both their sockets, one of which has each end in its map until it
\* closes it; those not yet accepted wait in the order in which they were made.
Known(e) == e[1] \in DOMAIN connections
Waits(n, s) ==
    /\ n \in DOMAIN connections
    /\ connections[n].to = s
    /\ <<n, "to">> \notin closed \cup sockets[s]
Connected ==
    /\ Len(connections) <= MaxConnections
    /\ \A e \in Torn : Known(e)
    /\ \A s \in Sockets : \A e \in sockets[s] : Known(e) /\ Owner(e) = s /\ e \notin closed
    /\ \A s \in Sockets : \A i \in DOMAIN backlog[s] :
        /\ Waits(backlog[s][i], s)
        /\ \A j \in DOMAIN backlog[s] : i < j => backlog[s][i] < backlog[s][j]

\* A write is for an end of the socket; a datagram among the jobs has been put back and
\* is, like those received, at the socket it was sent to; what is on its way to an end
\* comes from the opposite one.
SentTo(s, m) == Known(m.over) /\ Owner(Opposite(m.over)) = s
JobInPlace(s, job) ==
    /\ job.run = "write" => Known(job.message.over) /\ Owner(job.message.over) = s
    /\ job.run = "handle" => job.message \in putBack /\ SentTo(s, job.message)
InPlace ==
    /\ \A s \in Sockets : \A i \in DOMAIN jobs[s] : JobInPlace(s, jobs[s][i])
    /\ \A e \in Ends : \A i \in DOMAIN stream[e] : stream[e][i].over = Opposite(e) /\ Known(e)
    /\ \A s \in Sockets : \A i \in DOMAIN received[s] : SentTo(s, received[s][i])

\* The messages in the lines L, of which none is in two places.
Holds(L, n) == \E l \in Lines : \E i \in DOMAIN L[l] : L[l][i].number = n
Numbers(L) == {n \in Nat : Holds(L, n)}
Once(L) ==
    \A k, l \in Lines : \A i \in DOMAIN L[k], j \in DOMAIN L[l] :
        L[k][i].number = L[l][j].number => k = l /\ i = j

\* None is anywhere but those that were sent, and these are somewhere while every
\* connection is open and in step.
Kept ==
    /\ Once(InLine)
    /\ Numbers(InLine) \subseteq 1 .. sends
    /\ Torn = {} => 1 .. sends \subseteq Numbers(InLine)

\* The stages of a datagram: still to be written, on its way, received or put back.
In(F, x) == \E d \in DOMAIN F : \E i \in DOMAIN F[d] : F[d][i] = x
Writing == {m \in Messages : In(jobs, WriteJob(m))}
Flowing == {m \in Messages : In(stream, m)}
Arrivals == {m \in Messages : In(jobs, HandleJob(m)) \/ In(received, m)}

\* Of the messages of A and B that were sent over one end, those of A are the earlier.
Earlier(A, B) == \A a \in A, b \in B : a.over = b.over => a.number < b.number

\* The datagrams of a connection are in order from stage to stage, and in the first two.
WritesInTurn(js) ==
    \A i, j \in DOMAIN js :
        i < j /\ js[i].run = "write" /\ js[j].run = "write"
            => js[i].message.number < js[j].message.number
StreamInTurn(q) == \A i, j \in DOMAIN q : i < j => q[i].number < q[j].number
InTurn ==
    /\ Earlier(Arrivals, Flowing) /\ Earlier(Arrivals, Writing) /\ Earlier(Flowing, Writing)
    /\ \A s \in Sockets : WritesInTurn(jobs[s])
    /\ \A e \in Ends : StreamInTurn(stream[e])

IInv == TypeOK /\ Connected /\ InPlace /\ Kept /\ InTurn /\ InOrderUnlessPutBack

-----------------------------------------------------------------------------
(* Ends, messages and jobs *)

LEMMA EndsFacts ==
    ASSUME NEW e \in Ends
    PROVE  /\ Opposite(e) \in Ends /\ Opposite(e) # e
           /\ Opposite(Opposite(e)) = e
           /\ Opposite(e)[1] = e[1]
           /\ e[1] \in 1 .. MaxConnections /\ e[2] \in {"from", "to"} /\ e = <<e[1], e[2]>>
  BY DEF Ends, Opposite

LEMMA JobsFacts ==
    ASSUME NEW m \in Messages
    PROVE  /\ WriteJob(m) \in Jobs /\ HandleJob(m) \in Jobs
           /\ WriteJob(m).run = "write" /\ WriteJob(m).message = m
           /\ HandleJob(m).run = "handle" /\ HandleJob(m).message = m
           /\ m.number \in 1 .. MaxSends /\ m.over \in Ends
  BY DEF Jobs, WriteJob, HandleJob, Messages

LEMMA MessageOfJob ==
    ASSUME NEW job \in Jobs
    PROVE  job.message \in Messages /\ job.run \in {"write", "handle"}
  BY DEF Jobs

\* Taking from the head of a sequence and adding at its end.
LEMMA TailFacts ==
    ASSUME NEW S, NEW q \in Seq(S), q # <<>>
    PROVE  /\ Head(q) \in S /\ Head(q) = q[1] /\ 1 \in DOMAIN q
           /\ Tail(q) \in Seq(S) /\ Len(Tail(q)) = Len(q) - 1
           /\ \A i \in DOMAIN Tail(q) : i \in Nat /\ i + 1 \in DOMAIN q /\ Tail(q)[i] = q[i + 1]
           /\ \A i \in DOMAIN q : i = 1 \/ (i - 1 \in DOMAIN Tail(q) /\ Tail(q)[i - 1] = q[i])
<1>1. Len(q) \in Nat /\ Len(q) # 0 /\ DOMAIN q = 1 .. Len(q)
  BY LenProperties, EmptySeq
<1>2. /\ Tail(q) \in Seq(S) /\ Len(Tail(q)) = Len(q) - 1 /\ Head(q) = q[1]
      /\ \A i \in 1 .. Len(Tail(q)) : Tail(q)[i] = q[i + 1]
  BY <1>1, HeadTailProperties
<1>3. DOMAIN Tail(q) = 1 .. Len(q) - 1
  BY <1>2, LenProperties
<1>4. \A i \in 1 .. Len(q) - 1 : Tail(q)[i] = q[i + 1]
  BY <1>2
<1>5. PICK l \in Nat : l = Len(q) /\ l # 0
  BY <1>1
<1>6. \A i \in 1 .. l : i = 1 \/ i - 1 \in 1 .. l - 1
  OBVIOUS
<1>7. \A i \in 1 .. l - 1 : i \in Nat /\ i + 1 \in 1 .. l
  OBVIOUS
<1>8. 1 \in DOMAIN q /\ Head(q) \in S
  BY <1>1, <1>2, HeadTailProperties
<1>9. \A i \in DOMAIN q : i = 1 \/ (i - 1 \in DOMAIN Tail(q) /\ Tail(q)[i - 1] = q[i])
  <2>. TAKE i \in DOMAIN q
  <2>. SUFFICES ASSUME i # 1 PROVE i - 1 \in DOMAIN Tail(q) /\ Tail(q)[i - 1] = q[i]
    OBVIOUS
  <2>1. i - 1 \in 1 .. Len(q) - 1 /\ i \in Int
    BY <1>1, <1>5, <1>6
  <2>2. Tail(q)[i - 1] = q[(i - 1) + 1] /\ (i - 1) + 1 = i
    BY <2>1, <1>4
  <2>. QED  BY <2>1, <2>2, <1>3
<1>. QED  BY <1>1, <1>2, <1>3, <1>4, <1>5, <1>7, <1>8, <1>9

LEMMA AppendFacts ==
    ASSUME NEW S, NEW q \in Seq(S), NEW x \in S
    PROVE  /\ Append(q, x) \in Seq(S) /\ Append(q, x) # <<>>
           /\ Len(Append(q, x)) = Len(q) + 1 /\ Len(q) + 1 \in DOMAIN Append(q, x)
           /\ Append(q, x)[Len(q) + 1] = x
           /\ \A i \in DOMAIN q : i \in DOMAIN Append(q, x) /\ Append(q, x)[i] = q[i] /\ i < Len(q) + 1
           /\ \A i \in DOMAIN Append(q, x) : i \in DOMAIN q \/ i = Len(q) + 1
           /\ q # <<>> => Head(Append(q, x)) = Head(q)
<1>1. Len(q) \in Nat /\ DOMAIN q = 1 .. Len(q) /\ Append(q, x) \in Seq(S)
  BY LenProperties, AppendProperties
<1>2. Len(Append(q, x)) = Len(q) + 1
  BY AppendProperties
<1>3. DOMAIN Append(q, x) = 1 .. Len(q) + 1
  BY <1>1, <1>2, LenProperties
<1>4. \A i \in 1 .. Len(q) : Append(q, x)[i] = q[i]
  BY AppendProperties
<1>5. Append(q, x)[Len(q) + 1] = x
  BY AppendProperties
<1>6. PICK l \in Nat : l = Len(q)
  BY <1>1
<1>7. /\ \A i \in 1 .. l : i \in 1 .. l + 1 /\ i < l + 1
      /\ \A i \in 1 .. l + 1 : i \in 1 .. l \/ i = l + 1
      /\ l + 1 \in 1 .. l + 1
  OBVIOUS
<1>8. q # <<>> => Head(Append(q, x)) = Head(q)
  BY <1>4, <1>1, EmptySeq
<1>9. Append(q, x) # <<>>
  BY <1>2, <1>1
<1>. QED  BY <1>1, <1>2, <1>3, <1>4, <1>5, <1>6, <1>7, <1>8, <1>9

-----------------------------------------------------------------------------
(* Lines of messages *)

\* Only the lines of A change from L to K.
Only(A, L, K) == \A p \in Lines \ A : K[p] = L[p]

\* Line a loses its head; m comes to its end.
Shrinks(a, L, K) == L[a] # <<>> /\ K[a] = Tail(L[a]) /\ Only({a}, L, K)
Grows(a, m, L, K) == K[a] = Append(L[a], m) /\ Only({a}, L, K)

\* The head of line a goes to the end of line b, or behind the others of its own.
Moves(a, b, L, K) ==
    /\ a # b /\ L[a] # <<>>
    /\ K[a] = Tail(L[a]) /\ K[b] = Append(L[b], Head(L[a]))
    /\ Only({a, b}, L, K)
GoesBehind(a, L, K) ==
    /\ L[a] # <<>>
    /\ K[a] = Append(Tail(L[a]), Head(L[a]))
    /\ Only({a}, L, K)

\* Lines are cleared.
Clears(L, K) == \A l \in Lines : K[l] = L[l] \/ K[l] = <<>>

\* The head of a line is taken away.
LEMMA TakeFromLine ==
    ASSUME NEW L \in [Lines -> Seq(Messages)], NEW K \in [Lines -> Seq(Messages)],
           NEW a \in Lines, Shrinks(a, L, K), Once(L), NEW m \in Messages, m = Head(L[a])
    PROVE  /\ Once(K)
           /\ m.number \notin Numbers(K)
           /\ Numbers(L) = Numbers(K) \cup {m.number}
<1>. /\ L[a] # <<>> /\ K[a] = Tail(L[a])
     /\ \A p \in Lines : p # a => K[p] = L[p]
  BY DEF Shrinks, Only
<1>. DEFINE At(p, i) == IF p = a THEN i + 1 ELSE i
<1>1. /\ Head(L[a]) = L[a][1] /\ 1 \in DOMAIN L[a]
      /\ \A i \in DOMAIN K[a] : i \in Nat /\ i + 1 \in DOMAIN L[a] /\ K[a][i] = L[a][i + 1]
      /\ \A i \in DOMAIN L[a] : i = 1 \/ (i - 1 \in DOMAIN K[a] /\ K[a][i - 1] = L[a][i])
  BY TailFacts
<1>2. ASSUME NEW p \in Lines, NEW i \in DOMAIN K[p]
      PROVE  At(p, i) \in DOMAIN L[p] /\ L[p][At(p, i)] = K[p][i]
  BY <1>1
<1>3. ASSUME NEW p \in Lines, NEW i \in DOMAIN K[p]
      PROVE  i \in Nat
  BY LenProperties
<1>4. ASSUME NEW p \in Lines, NEW i \in DOMAIN K[p], NEW j \in DOMAIN K[p], At(p, i) = At(p, j)
      PROVE  i = j
  <2>. i \in Nat /\ j \in Nat
    BY <1>3
  <2>. QED  BY <1>4
<1>5. ASSUME NEW p \in Lines, NEW i \in DOMAIN K[p]
      PROVE  ~(p = a /\ At(p, i) = 1)
  <2>. i \in 1 .. Len(K[p])
    BY LenProperties
  <2>. QED  OBVIOUS
<1>. HIDE DEF At
<1>6. Once(K)
  <2>. SUFFICES ASSUME NEW k \in Lines, NEW l \in Lines, NEW i \in DOMAIN K[k], NEW j \in DOMAIN K[l],
                       K[k][i].number = K[l][j].number
                PROVE  k = l /\ i = j
    BY Zenon DEF Once
  <2>1. k = l /\ At(k, i) = At(l, j)
    BY <1>2 DEF Once
  <2>. QED  BY <2>1, <1>4
<1>7. ~Holds(K, Head(L[a]).number)
  <2>. SUFFICES ASSUME NEW l \in Lines, NEW i \in DOMAIN K[l], K[l][i].number = Head(L[a]).number
                PROVE  FALSE
    BY Zenon DEF Holds
  <2>1. l = a /\ At(l, i) = 1
    BY <1>1, <1>2 DEF Once
  <2>. QED  BY <2>1, <1>5
<1>8. ASSUME NEW n \in Nat, Holds(L, n)
      PROVE  Holds(K, n) \/ n = Head(L[a]).number
  <2>1. PICK l \in Lines : \E i \in DOMAIN L[l] : L[l][i].number = n
    BY <1>8, Zenon DEF Holds
  <2>2. PICK i \in DOMAIN L[l] : L[l][i].number = n
    BY <2>1
  <2>3. CASE l # a
    BY <2>2, <2>3 DEF Holds
  <2>4. CASE l = a
    BY <2>2, <2>4, <1>1 DEF Holds
  <2>. QED  BY <2>3, <2>4
<1>9. ASSUME NEW n \in Nat, Holds(K, n)
      PROVE  Holds(L, n)
  BY <1>9, <1>2 DEF Holds
<1>10. Holds(L, Head(L[a]).number)
  BY <1>1 DEF Holds
<1>11. Head(L[a]).number \in Nat
  BY <1>1, TailFacts, JobsFacts
<1>12. /\ Head(L[a]).number \notin Numbers(K)
       /\ Numbers(L) = Numbers(K) \cup {Head(L[a]).number}
  BY <1>7, <1>8, <1>9, <1>10, <1>11 DEF Numbers
<1>. QED  BY <1>6, <1>12

\* A message that is in no line comes to the end of one.
LEMMA AddToLine ==
    ASSUME NEW L \in [Lines -> Seq(Messages)], NEW K \in [Lines -> Seq(Messages)],
           NEW a \in Lines, NEW m \in Messages, Grows(a, m, L, K),
           Once(L), m.number \notin Numbers(L)
    PROVE  Once(K) /\ Numbers(K) = Numbers(L) \cup {m.number}
<1>. K[a] = Append(L[a], m) /\ \A p \in Lines : p # a => K[p] = L[p]
  BY DEF Grows, Only
<1>. DEFINE last == Len(L[a]) + 1
<1>1. /\ K[a][last] = m /\ last \in DOMAIN K[a] /\ last \notin DOMAIN L[a]
      /\ \A i \in DOMAIN L[a] : i \in DOMAIN K[a] /\ K[a][i] = L[a][i]
      /\ \A i \in DOMAIN K[a] : i \in DOMAIN L[a] \/ i = last
  <2>1. last \notin DOMAIN L[a]
    BY LenProperties
  <2>2. L[a] \in Seq(Messages)
    OBVIOUS
  <2>. QED  BY <2>1, <2>2, AppendFacts
<1>. HIDE DEF last
<1>0. m.number \in Nat /\ ~Holds(L, m.number)
  BY JobsFacts DEF Numbers
<1>2. ASSUME NEW p \in Lines, NEW i \in DOMAIN K[p]
      PROVE  \/ i \in DOMAIN L[p] /\ K[p][i] = L[p][i]
             \/ p = a /\ i = last /\ K[p][i].number = m.number
  BY <1>1
<1>3. ASSUME NEW p \in Lines, NEW i \in DOMAIN L[p]
      PROVE  i \in DOMAIN K[p] /\ K[p][i] = L[p][i] /\ L[p][i].number # m.number
  BY <1>0, <1>1 DEF Holds
<1>4. Once(K)
  <2>. SUFFICES ASSUME NEW k \in Lines, NEW l \in Lines, NEW i \in DOMAIN K[k], NEW j \in DOMAIN K[l],
                       K[k][i].number = K[l][j].number
                PROVE  k = l /\ i = j
    BY Zenon DEF Once
  <2>1. CASE i \in DOMAIN L[k] /\ K[k][i] = L[k][i] /\ j \in DOMAIN L[l] /\ K[l][j] = L[l][j]
    BY <2>1 DEF Once
  <2>2. CASE i \in DOMAIN L[k] /\ K[k][i] = L[k][i] /\ K[l][j].number = m.number
    BY <2>2, <1>3
  <2>3. CASE j \in DOMAIN L[l] /\ K[l][j] = L[l][j] /\ K[k][i].number = m.number
    BY <2>3, <1>3
  <2>. QED  BY <1>2, <2>1, <2>2, <2>3
<1>5. ASSUME NEW n \in Nat
      PROVE  Holds(K, n) <=> Holds(L, n) \/ n = m.number
  <2>1. Holds(K, n) => Holds(L, n) \/ n = m.number
    BY <1>2 DEF Holds
  <2>2. Holds(L, n) => Holds(K, n)
    BY <1>3 DEF Holds
  <2>3. Holds(K, m.number)
    BY <1>1 DEF Holds
  <2>. QED  BY <2>1, <2>2, <2>3
<1>. QED  BY <1>0, <1>4, <1>5 DEF Numbers

LEMMA ClearLines ==
    ASSUME NEW L, NEW K, Clears(L, K), Once(L)
    PROVE  Once(K) /\ Numbers(K) \subseteq Numbers(L)
<1>1. \A p \in Lines : \A i \in DOMAIN K[p] : i \in DOMAIN L[p] /\ K[p][i] = L[p][i]
  BY EmptySeq DEF Clears
<1>. QED  BY <1>1 DEF Once, Holds, Numbers

-----------------------------------------------------------------------------
(* What a step does to the messages *)

SendsMessage(s, m) ==
    /\ m \in Messages /\ m.number = sends + 1 /\ m.over \in sockets'[s]
    /\ jobs' = [jobs EXCEPT ![s] = Append(jobs[s], WriteJob(m))]
    /\ sends' = sends + 1
    /\ UNCHANGED <<stream, received, putBack, Torn, garbled>>

Takes(s, job) == jobs[s] # <<>> /\ job = Head(jobs[s])

WritesMessage(s, job) ==
    /\ Takes(s, job) /\ job.run = "write"
    /\ Len(stream[Opposite(job.message.over)]) < Capacity
    /\ jobs' = [jobs EXCEPT ![s] = Tail(jobs[s])]
    /\ stream' = [stream EXCEPT ![Opposite(job.message.over)] =
                    Append(stream[Opposite(job.message.over)], job.message)]
    /\ UNCHANGED <<sends, received, putBack, Torn, garbled>>

DropsMessage(s, job) ==
    /\ Takes(s, job) /\ job.run = "write"
    /\ {job.message.over, Opposite(job.message.over)} \cap Torn # {}
    /\ jobs' = [jobs EXCEPT ![s] = Tail(jobs[s])]
    /\ UNCHANGED <<stream, sends, received, putBack, Torn, garbled>>

HandsOver(s, job) ==
    /\ Takes(s, job) /\ job.run = "handle"
    /\ jobs' = [jobs EXCEPT ![s] = Tail(jobs[s])]
    /\ received' = [received EXCEPT ![s] = Append(received[s], job.message)]
    /\ UNCHANGED <<stream, sends, putBack, Torn, garbled>>

PutsBackAgain(s, job) ==
    /\ Takes(s, job) /\ job.run = "handle"
    /\ jobs' = [jobs EXCEPT ![s] = Append(Tail(jobs[s]), HandleJob(job.message))]
    /\ putBack' = putBack \cup {job.message}
    /\ UNCHANGED <<stream, sends, received, Torn, garbled>>

ReadsMessage(s, e, m) ==
    /\ e \in sockets[s]
    /\ stream[e] # <<>> /\ m = Head(stream[e])
    /\ stream' = [stream EXCEPT ![e] = Tail(stream[e])]
    /\ UNCHANGED sends

\* A datagram is handled whole, or another one in its place.
WholeOrGarbled(e, m) ==
    \/ UNCHANGED <<Torn, garbled>>
    \/ Torn' = Torn \cup {e} /\ garbled' = garbled \cup {m.number}

ReadsOver(s, e, m) ==
    /\ ReadsMessage(s, e, m) /\ WholeOrGarbled(e, m)
    /\ received' = [received EXCEPT ![s] = Append(received[s], m)]
    /\ UNCHANGED <<jobs, putBack>>

PutsBack(s, e, m) ==
    /\ ReadsMessage(s, e, m) /\ WholeOrGarbled(e, m)
    /\ jobs' = [jobs EXCEPT ![s] = Append(jobs[s], HandleJob(m))]
    /\ putBack' = putBack \cup {m}
    /\ UNCHANGED received

SwallowsMessage(s, e, m) ==
    /\ ReadsMessage(s, e, m)
    /\ Torn' = Torn \cup {e}
    /\ UNCHANGED <<jobs, received, putBack, garbled>>

ClearsStreams(s) ==
    /\ sockets[s] # {}
    /\ Torn' = Torn \cup sockets[s]
    /\ stream' \in [Ends -> Seq(Messages)]
    /\ \A e \in Ends :
        \/ stream'[e] = stream[e]
        \/ stream'[e] = <<>> /\ {e, Opposite(e)} \cap sockets[s] # {}
    /\ UNCHANGED <<jobs, sends, received, putBack, garbled>>

MovesNothing == UNCHANGED <<jobs, stream, sends, received, putBack, Torn, garbled>>

\* The parts of TypeOK that belong together.
MapsOK ==
    /\ listening \subseteq Sockets
    /\ connections \in Seq([from : Sockets, to : Sockets])
    /\ sockets \in [Sockets -> SUBSET Ends]
    /\ reading \subseteq Ends \ closed
    /\ closed \subseteq Ends
    /\ outOfStep \subseteq Ends /\ midRead \subseteq outOfStep
    /\ backlog \in [Sockets -> Seq(1 .. MaxConnections)]
LinesOK ==
    /\ stream \in [Ends -> Seq(Messages)]
    /\ \A e \in Ends : Len(stream[e]) <= Capacity
    /\ jobs \in [Sockets -> Seq(Jobs)]
    /\ received \in [Sockets -> Seq(Messages)]
    /\ putBack \subseteq Messages
    /\ sends \in 0 .. MaxSends
    /\ garbled \subseteq 1 .. MaxSends
ThreadsOK ==
    /\ thread \in
           [Sockets -> {"idle", "writing", "misreading", "deadlock", "undefined", "thrown"}]
    /\ mutex \in [Sockets -> BOOLEAN]
    /\ \A s \in Sockets : thread[s] = "writing" => mutex[s] /\ Runs(s, "write")
CallsOK ==
    /\ promiseQueue \in [Sockets -> 0 .. PromiseQueueSize]
    /\ receives \in 0 .. MaxReceives

LEMMA TypeParts == MapsOK /\ Connected /\ LinesOK /\ ThreadsOK /\ CallsOK => TypeOK
  BY DEF MapsOK, Connected, LinesOK, ThreadsOK, CallsOK, TypeOK

LEMMA PartsOfType == TypeOK => MapsOK /\ LinesOK /\ ThreadsOK /\ CallsOK
  BY DEF MapsOK, LinesOK, ThreadsOK, CallsOK, TypeOK

LEMMA Shapes ==
    ASSUME TypeOK, NEW s \in Sockets, ProgramCalls(s) \/ ServiceThread(s)
    PROVE  \/ \E m \in Messages : SendsMessage(s, m)
           \/ \E job \in Jobs : \/ WritesMessage(s, job) \/ DropsMessage(s, job)
                                \/ HandsOver(s, job) \/ PutsBackAgain(s, job)
           \/ \E e \in Ends, m \in Messages :
                \/ ReadsOver(s, e, m) \/ PutsBack(s, e, m) \/ SwallowsMessage(s, e, m)
           \/ ClearsStreams(s) \/ MovesNothing
<1>. DEFINE Goal == \/ \E m \in Messages : SendsMessage(s, m)
                    \/ \E job \in Jobs : \/ WritesMessage(s, job) \/ DropsMessage(s, job)
                                         \/ HandsOver(s, job) \/ PutsBackAgain(s, job)
                    \/ \E e \in Ends, m \in Messages :
                        \/ ReadsOver(s, e, m) \/ PutsBack(s, e, m) \/ SwallowsMessage(s, e, m)
                    \/ ClearsStreams(s) \/ MovesNothing
<1>1. MapsOK /\ LinesOK /\ ThreadsOK
  BY PartsOfType
<1>2. ASSUME jobs[s] # <<>>
      PROVE  Head(jobs[s]) \in Jobs
  BY <1>1, <1>2, TailFacts DEF LinesOK
<1>3. ASSUME NEW e \in sockets'[s], e \in Ends, SendOver(s, e), UNCHANGED <<closed, outOfStep>>
      PROVE  Goal
  <2>. DEFINE m == [number |-> sends', over |-> e]
  <2>1. m \in Messages /\ m.number = sends + 1 /\ m.over = e
    BY <1>1, <1>3, BoundsAssumption DEF Messages, SendOver, LinesOK
  <2>2. jobs' = [jobs EXCEPT ![s] = Append(jobs[s], WriteJob(m))]
    BY <1>3 DEF SendOver, Post
  <2>. HIDE DEF m
  <2>3. SendsMessage(s, m)
    BY <1>3, <2>1, <2>2 DEF SendsMessage, SendOver, receiveVars, Torn
  <2>. QED  BY <2>1, <2>3
<1>4. CASE Bind(s) \/ AsyncReceiveFrom(s)
  BY <1>4 DEF Bind, AsyncReceiveFrom, MovesNothing, mapVars, receiveVars, Torn
<1>5. CASE \E to \in Sockets : SendConnected(s, to)
  BY <1>1, <1>3, <1>5 DEF SendConnected, Outgoing, mapVars, MapsOK
<1>6. CASE \E to \in Sockets : SendConnecting(s, to)
  <2>1. PICK to \in Sockets : SendConnecting(s, to)
    BY <1>6
  <2>2. <<Len(connections) + 1, "from">> \in Ends
    BY <1>1, <2>1, LenProperties, BoundsAssumption DEF SendConnecting, Ends, MapsOK
  <2>3. <<Len(connections) + 1, "from">> \in sockets'[s]
    BY <1>1, <2>1 DEF SendConnecting, MapsOK
  <2>. QED  BY <1>3, <2>1, <2>2, <2>3 DEF SendConnecting
<1>7. CASE \E e \in Ends : Reply(s, e)
  BY <1>3, <1>7 DEF Reply, mapVars
<1>8. CASE Close(s)
  <2>1. /\ sockets[s] # {} /\ Torn' = Torn \cup sockets[s]
        /\ UNCHANGED <<jobs, sends, received, putBack, garbled>>
    BY <1>8 DEF Close, receiveVars, Torn
  <2>2. PICK dropped \in SUBSET {Opposite(e) : e \in sockets[s]} :
            stream' = [e \in Ends |-> IF e \in sockets[s] \cup dropped THEN <<>> ELSE stream[e]]
    BY <1>8 DEF Close
  <2>3. \A e \in Ends :
            \/ stream'[e] = stream[e]
            \/ stream'[e] = <<>> /\ {e, Opposite(e)} \cap sockets[s] # {}
    <3>. SUFFICES ASSUME NEW e \in Ends, e \in sockets[s] \cup dropped
                  PROVE  {e, Opposite(e)} \cap sockets[s] # {}
      BY <2>2
    <3>1. ASSUME NEW f \in sockets[s], e = Opposite(f)
          PROVE  Opposite(e) \in sockets[s]
      BY <1>1, <3>1, EndsFacts DEF MapsOK
    <3>. QED  BY <3>1
  <2>4. stream' \in [Ends -> Seq(Messages)]
    BY <1>1, <2>2, <2>3, EmptySeq DEF LinesOK
  <2>. QED  BY <2>1, <2>3, <2>4 DEF ClearsStreams
<1>9. CASE LocksMutex(s)
  BY <1>9 DEF LocksMutex, MovesNothing, mapVars, receiveVars, Torn
<1>10. CASE RunsHandle(s)
  <2>. DEFINE job == Head(jobs[s])
  <2>1. Takes(s, job) /\ job.run = "handle" /\ job \in Jobs
    BY <1>2, <1>10 DEF RunsHandle, Runs, Takes
  <2>2. HandsOver(s, job) \/ PutsBackAgain(s, job)
    BY <1>10, <2>1 DEF RunsHandle, HandleDatagram, HandsOver, PutsBackAgain, mapVars, Torn
  <2>. HIDE DEF job
  <2>. QED  BY <2>1, <2>2
<1>11. CASE WriteEnds(s)
  <2>1. PICK e \in Ends : \/ WriteReturns(s, e) \/ WriteVanishes(s, e)
                          \/ WriteThrows(s, e) \/ WriteUndefined(s, e)
    BY <1>11 DEF WriteEnds
  <2>. DEFINE job == Head(jobs[s])
  <2>2. Takes(s, job) /\ job.run = "write" /\ job \in Jobs /\ job.message.over = e
    BY <1>1, <1>2, <2>1
       DEF WriteReturns, WriteVanishes, WriteThrows, WriteUndefined, Writes, ThreadsOK, Runs, Takes
  <2>3. CASE WriteReturns(s, e)
    <3>1. WritesMessage(s, job)
      BY <2>2, <2>3 DEF WriteReturns, Settles, EndsJob, WritesMessage, mapVars, receiveVars, Torn
    <3>. QED  BY <2>2, <3>1
  <2>4. CASE WriteVanishes(s, e) \/ WriteThrows(s, e)
    <3>1. DropsMessage(s, job)
      BY <2>2, <2>4
         DEF WriteVanishes, WriteThrows, Settles, EndsJob, DropsMessage, mapVars, receiveVars, Torn
    <3>. QED  BY <2>2, <3>1
  <2>5. CASE WriteUndefined(s, e)
    BY <2>5 DEF WriteUndefined, MovesNothing, mapVars, receiveVars, Torn
  <2>. QED  BY <2>1, <2>3, <2>4, <2>5
<1>12. ASSUME NEW e \in Ends, Reads(s, e) \/ HandsGarbage(s, e)
       PROVE  Goal
  <2>. DEFINE m == Head(stream[e])
  <2>1. m \in Messages /\ stream[e] # <<>>
    BY <1>1, <1>12, TailFacts DEF Reads, HandsGarbage, Misreads, LinesOK
  <2>2. ReadsMessage(s, e, m)
    BY <1>12, <2>1 DEF Reads, HandsGarbage, Misreads, ReadsMessage, mapVars
  <2>3. WholeOrGarbled(e, m)
    BY <1>12 DEF Reads, HandsGarbage, Misreads, WholeOrGarbled, mapVars, Torn
  <2>4. HandleDatagram(s, m, jobs[s])
    BY <1>12 DEF Reads, HandsGarbage
  <2>5. jobs' = [jobs EXCEPT ![s] = jobs[s]] => jobs' = jobs
    BY <1>1 DEF LinesOK
  <2>. HIDE DEF m
  <2>6. ReadsOver(s, e, m) \/ PutsBack(s, e, m)
    BY <2>2, <2>3, <2>4, <2>5 DEF HandleDatagram, ReadsOver, PutsBack
  <2>. QED  BY <2>1, <2>6
<1>13. ASSUME NEW e \in Ends, Swallows(s, e)
       PROVE  Goal
  <2>. DEFINE m == Head(stream[e])
  <2>1. m \in Messages /\ stream[e] # <<>>
    BY <1>1, <1>13, TailFacts DEF Swallows, Misreads, LinesOK
  <2>2. ReadsMessage(s, e, m)
    BY <1>13, <2>1 DEF Swallows, Misreads, ReadsMessage
  <2>3. SwallowsMessage(s, e, m)
    BY <1>13, <2>2 DEF Swallows, Misreads, SwallowsMessage, receiveVars, Torn
  <2>. HIDE DEF m
  <2>. QED  BY <2>1, <2>3
<1>14. CASE \E e \in Ends : ReadEnds(s, e) \/ ReadThrows(s, e)
  BY <1>14 DEF ReadEnds, ReadThrows, MovesNothing, mapVars, receiveVars, Torn
<1>15. CASE Accepts(s)
  BY <1>15 DEF Accepts, MovesNothing, receiveVars, Torn
<1>. QED  BY <1>4, <1>5, <1>6, <1>7, <1>8, <1>9, <1>10, <1>11, <1>12, <1>13, <1>14, <1>15
          DEF ProgramCalls, ServiceThread, RunsJob, ReadHandler

-----------------------------------------------------------------------------
(* Connections and maps *)

\* A connection is made; the ends there are keep their owners.
LEMMA EndMade ==
    ASSUME MapsOK, NEW s \in Sockets, NEW to \in Sockets, Len(connections) < MaxConnections,
           connections' = Append(connections, [from |-> s, to |-> to])
    PROVE  /\ connections' \in Seq([from : Sockets, to : Sockets])
           /\ Len(connections') = Len(connections) + 1 /\ Len(connections') <= MaxConnections
           /\ Len(connections) + 1 \in DOMAIN connections' /\ Len(connections) + 1 \in 1 .. MaxConnections
           /\ Len(connections) + 1 \notin DOMAIN connections
           /\ connections'[Len(connections) + 1] = [from |-> s, to |-> to]
           /\ \A n \in DOMAIN connections :
                n \in DOMAIN connections' /\ connections'[n] = connections[n] /\ n < Len(connections) + 1
           /\ \A e \in Ends : Known(e) => Known(e)' /\ Owner(e)' = Owner(e)
<1>. DEFINE c == [from |-> s, to |-> to]
<1>1. c \in [from : Sockets, to : Sockets] /\ connections' = Append(connections, c)
  OBVIOUS
<1>. HIDE DEF c
<1>2. connections \in Seq([from : Sockets, to : Sockets])
  BY DEF MapsOK
<1>3. /\ connections' \in Seq([from : Sockets, to : Sockets])
      /\ Len(connections') = Len(connections) + 1
      /\ Len(connections) + 1 \in DOMAIN connections'
      /\ connections'[Len(connections) + 1] = c
      /\ \A n \in DOMAIN connections :
            n \in DOMAIN connections' /\ connections'[n] = connections[n] /\ n < Len(connections) + 1
  BY <1>1, <1>2, AppendFacts
<1>4. Len(connections) \in Nat /\ DOMAIN connections = 1 .. Len(connections) /\ MaxConnections \in Nat
  BY <1>2, LenProperties, BoundsAssumption
<1>5. /\ Len(connections') <= MaxConnections
      /\ Len(connections) + 1 \in 1 .. MaxConnections
      /\ Len(connections) + 1 \notin DOMAIN connections
  BY <1>3, <1>4
<1>6. \A e \in Ends : Known(e) => Known(e)' /\ Owner(e)' = Owner(e)
  BY <1>3 DEF Known, Owner
<1>. QED  BY <1>3, <1>5, <1>6 DEF c

LEMMA MapsStep ==
    ASSUME MapsOK, Connected, NEW s \in Sockets, ProgramCalls(s) \/ ServiceThread(s)
    PROVE  MapsOK' /\ Connected'
<1>1. CASE UNCHANGED <<connectionVars, mapVars>>
  BY <1>1 DEF MapsOK, Connected, connectionVars, mapVars, Known, Owner, Waits, Torn
<1>2. CASE Bind(s)
  BY <1>2 DEF Bind, MapsOK, Connected, mapVars, Known, Owner, Waits, Torn
<1>3. CASE \E e \in Ends : ReadEnds(s, e)
  BY <1>3 DEF ReadEnds, MapsOK, Connected, connectionVars, Known, Owner, Waits, Torn
<1>4. CASE Close(s)
  <2>1. /\ sockets' = [sockets EXCEPT ![s] = {}]
        /\ closed' = closed \cup sockets[s]
        /\ reading' = reading \ sockets[s]
        /\ UNCHANGED <<connectionVars, outOfStep, midRead>>
    BY <1>4 DEF Close
  <2>2. MapsOK'
    BY <2>1 DEF MapsOK, connectionVars
  <2>3. Connected'
    <3>1. (Len(connections) <= MaxConnections /\ \A e \in Torn : Known(e))'
      BY <2>1 DEF Connected, Known, connectionVars, MapsOK, Torn
    <3>2. (\A t \in Sockets : \A e \in sockets[t] : Known(e) /\ Owner(e) = t /\ e \notin closed)'
      BY <2>1 DEF Connected, Known, Owner, connectionVars, MapsOK
    <3>3. ASSUME NEW t \in Sockets, NEW i \in DOMAIN backlog[t]
          PROVE  Waits(backlog[t][i], t)'
      <4>1. Waits(backlog[t][i], t)
        BY DEF Connected
      <4>. DEFINE e == <<backlog[t][i], "to">>
      <4>2. Owner(e) = t /\ e \notin closed \cup sockets[t]
        BY <4>1 DEF Waits, Owner
      <4>3. e \notin sockets[s]
        BY <4>2 DEF Connected
      <4>4. e \notin closed' \cup sockets'[t]
        BY <2>1, <4>2, <4>3 DEF MapsOK
      <4>. QED  BY <2>1, <4>1, <4>4 DEF Waits, connectionVars
    <3>. QED  BY <2>1, <3>1, <3>2, <3>3 DEF Connected, connectionVars
  <2>. QED  BY <2>2, <2>3
<1>5. CASE \E to \in Sockets : SendConnecting(s, to)
  <2>1. PICK to \in Sockets : SendConnecting(s, to)
    BY <1>5
  <2>0. PICK n \in Nat : n = Len(connections) + 1
    BY LenProperties DEF MapsOK
  <2>. DEFINE e == <<n, "from">>
  <2>2. /\ Len(connections) < MaxConnections
        /\ connections' = Append(connections, [from |-> s, to |-> to])
        /\ backlog' = [backlog EXCEPT ![to] = Append(backlog[to], n)]
        /\ sockets' = [sockets EXCEPT ![s] = sockets[s] \cup {e}]
        /\ reading' = reading \cup {e}
        /\ UNCHANGED <<listening, closed, outOfStep, midRead>>
    BY <2>0, <2>1 DEF SendConnecting
  <2>3. /\ connections' \in Seq([from : Sockets, to : Sockets])
        /\ Len(connections') <= MaxConnections
        /\ n \in DOMAIN connections' /\ n \in 1 .. MaxConnections /\ n \notin DOMAIN connections
        /\ connections'[n] = [from |-> s, to |-> to]
        /\ \A k \in DOMAIN connections :
                k \in DOMAIN connections' /\ connections'[k] = connections[k] /\ k < n
        /\ \A f \in Ends : Known(f) => Known(f)' /\ Owner(f)' = Owner(f)
    BY <2>0, <2>2, EndMade
  <2>4. e \in Ends /\ e \notin closed /\ Known(e)' /\ Owner(e)' = s
    <3>1. e \in Ends /\ e[1] = n /\ e[2] = "from"
      BY <2>3 DEF Ends
    <3>2. Owner(e)' = connections'[n].from
      BY <3>1 DEF Owner
    <3>. QED  BY <2>3, <3>1, <3>2 DEF Connected, Known, Torn
  <2>. HIDE DEF e
  <2>5. MapsOK'
    <3>1. backlog' \in [Sockets -> Seq(1 .. MaxConnections)]
      BY <2>2, <2>3, AppendFacts DEF MapsOK
    <3>. QED  BY <2>2, <2>3, <2>4, <3>1 DEF MapsOK
  <2>6. (\A f \in Torn : Known(f))'
    BY <2>2, <2>3 DEF Connected, MapsOK, Torn
  <2>7. (\A t \in Sockets : \A f \in sockets[t] : Known(f) /\ Owner(f) = t /\ f \notin closed)'
    BY <2>2, <2>3, <2>4 DEF Connected, MapsOK
  <2>8. ASSUME NEW t \in Sockets, NEW k \in DOMAIN connections, Waits(k, t)
        PROVE  Waits(k, t)'
    BY <2>2, <2>3, <2>8 DEF Waits, e, MapsOK
  <2>9. Waits(n, to)'
    <3>1. <<n, "to">> \notin closed
      BY <2>3 DEF Connected, Known, Torn
    <3>2. <<n, "to">> \notin sockets[to]
      BY <2>3 DEF Connected, Known
    <3>3. <<n, "to">> # e
      BY DEF e
    <3>4. <<n, "to">> \notin sockets'[to]
      BY <2>2, <3>2, <3>3 DEF MapsOK
    <3>. QED  BY <2>2, <2>3, <3>1, <3>4 DEF Waits
  <2>10. (\A t \in Sockets : \A i \in DOMAIN backlog[t] :
            /\ Waits(backlog[t][i], t)
            /\ \A j \in DOMAIN backlog[t] : i < j => backlog[t][i] < backlog[t][j])'
    <3>1. ASSUME NEW t \in Sockets, NEW i \in DOMAIN backlog[t]
          PROVE  /\ backlog[t][i] \in DOMAIN connections
                 /\ \A k \in DOMAIN connections : k = backlog[t][i] => Waits(k, t)' /\ k < n
                 /\ \A j \in DOMAIN backlog[t] : i < j => backlog[t][i] < backlog[t][j]
      <4>1. Waits(backlog[t][i], t) /\ \A j \in DOMAIN backlog[t] : i < j => backlog[t][i] < backlog[t][j]
        BY DEF Connected
      <4>2. backlog[t][i] \in DOMAIN connections
        BY <4>1 DEF Waits
      <4>3. \A k \in DOMAIN connections : k = backlog[t][i] => Waits(k, t)' /\ k < n
        BY <4>1, <2>3, <2>8
      <4>. QED  BY <4>1, <4>2, <4>3
    <3>2. \A t \in Sockets : t # to => backlog'[t] = backlog[t]
      BY <2>2 DEF MapsOK
    <3>3. /\ backlog'[to] = Append(backlog[to], n)
          /\ backlog[to] \in Seq(1 .. MaxConnections)
      BY <2>2 DEF MapsOK
    <3>. DEFINE last == Len(backlog[to]) + 1
    <3>4. /\ backlog'[to][last] = n
          /\ \A i \in DOMAIN backlog[to] : backlog'[to][i] = backlog[to][i] /\ i < last
          /\ \A i \in DOMAIN backlog'[to] : i \in DOMAIN backlog[to] \/ i = last
          /\ last \in Nat
      BY <2>3, <3>3, AppendFacts, LenProperties
    <3>. HIDE DEF last
    <3>5. \A t \in Sockets : t # to => \A i \in DOMAIN backlog'[t] :
            /\ Waits(backlog[t][i], t)'
            /\ \A j \in DOMAIN backlog'[t] : i < j => backlog'[t][i] < backlog'[t][j]
      BY <3>1, <3>2
    <3>6. ASSUME NEW i \in DOMAIN backlog'[to]
          PROVE  Waits(backlog[to][i], to)'
      <4>1. CASE i \in DOMAIN backlog[to]
        <5>1. PICK k \in DOMAIN connections : k = backlog[to][i]
          BY <3>1, <4>1
        <5>2. Waits(k, to)' /\ k = backlog'[to][i]
          BY <3>1, <3>4, <4>1, <5>1
        <5>. QED  BY <5>2 DEF Waits
      <4>2. CASE i = last
        BY <2>9, <3>4, <4>2 DEF Waits
      <4>. QED  BY <3>4, <4>1, <4>2
    <3>7. ASSUME NEW i \in DOMAIN backlog'[to], NEW j \in DOMAIN backlog'[to], i < j
          PROVE  backlog'[to][i] < backlog'[to][j]
      <4>1. CASE i \in DOMAIN backlog[to] /\ j \in DOMAIN backlog[to]
        BY <3>1, <3>4, <3>7, <4>1
      <4>2. CASE i \in DOMAIN backlog[to] /\ j = last
        BY <3>1, <3>4, <4>2
      <4>3. CASE i = last
        <5>1. j \in Int /\ (j \in DOMAIN backlog[to] => j < last)
          BY <3>3, <3>4, LenProperties
        <5>. QED  BY <3>4, <3>7, <4>3, <5>1
      <4>. QED  BY <3>4, <4>1, <4>2, <4>3
    <3>. QED  BY <3>5, <3>6, <3>7, Zenon
  <2>11. Connected'
    BY <2>3, <2>6, <2>7, <2>10 DEF Connected
  <2>. QED  BY <2>5, <2>11
<1>6. CASE Accepts(s)
  <2>. DEFINE n == Head(backlog[s])
              e == <<n, "to">>
  <2>1. /\ backlog[s] # <<>>
        /\ backlog' = [backlog EXCEPT ![s] = Tail(backlog[s])]
        /\ sockets' = [sockets EXCEPT ![s] = sockets[s] \cup {e}]
        /\ reading' = reading \cup {e}
        /\ UNCHANGED <<listening, connections, closed, outOfStep, midRead>>
    BY <1>6 DEF Accepts
  <2>2. /\ n = backlog[s][1] /\ 1 \in DOMAIN backlog[s] /\ n \in 1 .. MaxConnections
        /\ Tail(backlog[s]) \in Seq(1 .. MaxConnections)
        /\ \A i \in DOMAIN Tail(backlog[s]) :
            i \in Nat /\ i + 1 \in DOMAIN backlog[s] /\ Tail(backlog[s])[i] = backlog[s][i + 1]
    <3>1. backlog[s] \in Seq(1 .. MaxConnections)
      BY DEF MapsOK
    <3>. QED  BY <2>1, <3>1, TailFacts
  <2>3. Waits(n, s)
    BY <2>2 DEF Connected
  <2>4. e \in Ends /\ e \notin closed /\ Known(e) /\ Owner(e) = s
    <3>1. e \in Ends /\ e[1] = n /\ e[2] = "to"
      BY <2>2 DEF Ends
    <3>2. Owner(e) = connections[n].to
      BY DEF Owner
    <3>. QED  BY <2>3, <3>1, <3>2 DEF Waits, Known
  <2>. HIDE DEF n
  <2>5. MapsOK'
    <3>. HIDE DEF e
    <3>1. backlog' \in [Sockets -> Seq(1 .. MaxConnections)]
      BY <2>1, <2>2 DEF MapsOK
    <3>. QED  BY <2>1, <2>4, <3>1 DEF MapsOK
  <2>6. (\A f \in Torn : Known(f))'
    BY <2>1 DEF Connected, Known, Torn
  <2>7. (\A t \in Sockets : \A f \in sockets[t] : Known(f) /\ Owner(f) = t /\ f \notin closed)'
    <3>. HIDE DEF e
    <3>. QED  BY <2>1, <2>4 DEF Connected, MapsOK, Known, Owner
  <2>8. ASSUME NEW t \in Sockets, NEW k, Waits(k, t), t # s \/ k # n
        PROVE  Waits(k, t)'
    <3>1. <<k, "to">> \notin sockets'[t]
      BY <2>1, <2>8 DEF Waits, MapsOK
    <3>. QED  BY <2>1, <2>8, <3>1 DEF Waits
  <2>9. ASSUME NEW t \in Sockets, NEW i \in DOMAIN backlog'[t]
        PROVE  /\ Waits(backlog[t][i], t)'
               /\ \A j \in DOMAIN backlog'[t] : i < j => backlog'[t][i] < backlog'[t][j]
    <3>1. CASE t # s
      <4>1. backlog'[t] = backlog[t]
        BY <2>1, <3>1 DEF MapsOK
      <4>2. /\ Waits(backlog[t][i], t)
            /\ \A j \in DOMAIN backlog[t] : i < j => backlog[t][i] < backlog[t][j]
        BY <4>1 DEF Connected
      <4>. QED  BY <2>8, <3>1, <4>1, <4>2
    <3>2. CASE t = s
      <4>1. backlog'[t] = Tail(backlog[s])
        BY <2>1, <3>2 DEF MapsOK
      <4>2. i \in Nat /\ i + 1 \in DOMAIN backlog[s] /\ backlog'[t][i] = backlog[s][i + 1]
        BY <2>2, <4>1
      <4>3. i # 0
        BY <2>2, <4>1, LenProperties
      <4>4. backlog[s][1] < backlog[s][i + 1] /\ Waits(backlog[s][i + 1], s)
        BY <2>2, <4>2, <4>3 DEF Connected
      <4>5. backlog[s][i + 1] \in Nat /\ n \in Nat
        <5>. backlog[s] \in Seq(1 .. MaxConnections)
          BY DEF MapsOK
        <5>. DEFINE k == i + 1
        <5>2. k \in 1 .. Len(backlog[s])
          BY <4>2, LenProperties
        <5>. HIDE DEF k
        <5>3. backlog[s][k] \in 1 .. MaxConnections
          BY <5>2, ElementOfSeq
        <5>1. backlog[s][i + 1] \in 1 .. MaxConnections
          BY <5>3 DEF k
        <5>. QED  BY <5>1, <2>2, BoundsAssumption
      <4>6. backlog[s][i + 1] # n
        BY <2>2, <4>4, <4>5
      <4>7. Waits(backlog[t][i], t)'
        BY <2>8, <3>2, <4>2, <4>4, <4>6
      <4>8. ASSUME NEW j \in DOMAIN backlog'[t], i < j
            PROVE  backlog'[t][i] < backlog'[t][j]
        <5>1. j \in Nat /\ j + 1 \in DOMAIN backlog[s] /\ backlog'[t][j] = backlog[s][j + 1]
          BY <2>2, <4>1
        <5>2. i + 1 < j + 1
          BY <4>2, <4>8, <5>1
        <5>. QED  BY <4>2, <5>1, <5>2 DEF Connected
      <4>. QED  BY <4>7, <4>8
    <3>. QED  BY <3>1, <3>2
  <2>10. (Len(connections) <= MaxConnections)'
    BY <2>1 DEF Connected
  <2>11. Connected'
    BY <2>6, <2>7, <2>9, <2>10 DEF Connected
  <2>. QED  BY <2>5, <2>11
<1>7. ASSUME NEW e \in Ends, HandsGarbage(s, e) \/ Swallows(s, e)
      PROVE  MapsOK' /\ Connected'
  <2>1. /\ e \in sockets[s] /\ outOfStep' = outOfStep \cup {e} /\ midRead' \subseteq midRead \cup {e}
        /\ UNCHANGED <<connectionVars, sockets, reading, closed>>
    BY <1>7 DEF HandsGarbage, Swallows, Misreads
  <2>2. MapsOK'
    BY <2>1 DEF MapsOK, connectionVars
  <2>3. Connected'
    BY <2>1 DEF Connected, connectionVars, Known, Owner, Waits, Torn
  <2>. QED  BY <2>2, <2>3
<1>8. \/ UNCHANGED <<connectionVars, mapVars>> \/ Bind(s) \/ Close(s) \/ Accepts(s)
      \/ \E e \in Ends : ReadEnds(s, e) \/ HandsGarbage(s, e) \/ Swallows(s, e)
      \/ \E to \in Sockets : SendConnecting(s, to)
  <2>1. ASSUME NEW e \in Ends, Reply(s, e) \/ Reads(s, e) \/ ReadThrows(s, e)
        PROVE  UNCHANGED <<connectionVars, mapVars>>
    BY <2>1 DEF Reply, Reads, ReadThrows
  <2>2. ASSUME NEW e \in Ends,
               WriteReturns(s, e) \/ WriteVanishes(s, e) \/ WriteThrows(s, e) \/ WriteUndefined(s, e)
        PROVE  UNCHANGED <<connectionVars, mapVars>>
    BY <2>2 DEF WriteReturns, WriteVanishes, WriteThrows, WriteUndefined, Settles
  <2>3. ASSUME AsyncReceiveFrom(s) \/ LocksMutex(s) \/ RunsHandle(s)
               \/ \E to \in Sockets : SendConnected(s, to)
        PROVE  UNCHANGED <<connectionVars, mapVars>>
    BY <2>3 DEF AsyncReceiveFrom, LocksMutex, RunsHandle, SendConnected
  <2>. QED  BY <2>1, <2>2, <2>3 DEF ProgramCalls, ServiceThread, RunsJob, ReadHandler, WriteEnds
<1>. QED  BY <1>1, <1>2, <1>3, <1>4, <1>5, <1>6, <1>7, <1>8

-----------------------------------------------------------------------------
(* The other types *)

\* A job that is taken, and what is left.
LEMMA JobTaken ==
    ASSUME LinesOK, NEW s \in Sockets, NEW job \in Jobs, Takes(s, job)
    PROVE  /\ jobs[s] \in Seq(Jobs) /\ jobs[s] # <<>>
           /\ 1 \in DOMAIN jobs[s] /\ jobs[s][1] = job /\ Head(jobs[s]) = job
           /\ Tail(jobs[s]) \in Seq(Jobs)
           /\ \A i \in DOMAIN Tail(jobs[s]) :
                i \in Nat /\ i + 1 \in DOMAIN jobs[s] /\ Tail(jobs[s])[i] = jobs[s][i + 1]
           /\ job.message \in Messages /\ job.message.over \in Ends
  BY TailFacts, MessageOfJob, JobsFacts DEF Takes, LinesOK

LEMMA LinesStep ==
    ASSUME TypeOK, NEW s \in Sockets, ProgramCalls(s) \/ ServiceThread(s)
    PROVE  LinesOK'
<1>1. LinesOK
  BY PartsOfType
<1>2. ASSUME NEW m \in Messages, SendsMessage(s, m)
      PROVE  LinesOK'
  <2>1. jobs' \in [Sockets -> Seq(Jobs)]
    BY <1>1, <1>2, JobsFacts, AppendFacts DEF LinesOK, SendsMessage
  <2>2. sends' \in 0 .. MaxSends
    <3>1. m.number \in 1 .. MaxSends /\ m.number = sends'
      BY <1>2, JobsFacts DEF SendsMessage
    <3>. QED  BY <3>1, BoundsAssumption
  <2>. QED  BY <1>1, <1>2, <2>1, <2>2 DEF LinesOK, SendsMessage
<1>3. ASSUME NEW job \in Jobs, WritesMessage(s, job)
      PROVE  LinesOK'
  <2>1. Takes(s, job)
    BY <1>3 DEF WritesMessage
  <2>2. /\ jobs[s] \in Seq(Jobs) /\ Tail(jobs[s]) \in Seq(Jobs)
        /\ job.message \in Messages /\ Opposite(job.message.over) \in Ends
    BY <1>1, <2>1, JobTaken, EndsFacts
  <2>3. PICK e \in Ends : e = Opposite(job.message.over)
    BY <2>2
  <2>4. jobs' \in [Sockets -> Seq(Jobs)]
    BY <1>1, <1>3, <2>2 DEF LinesOK, WritesMessage
  <2>5. /\ Append(stream[e], job.message) \in Seq(Messages)
        /\ Len(Append(stream[e], job.message)) = Len(stream[e]) + 1
    BY <1>1, <2>2, AppendFacts DEF LinesOK
  <2>6. stream' = [stream EXCEPT ![e] = Append(stream[e], job.message)] /\ Len(stream[e]) < Capacity
    BY <1>3, <2>3 DEF WritesMessage
  <2>7. stream' \in [Ends -> Seq(Messages)]
    BY <1>1, <2>5, <2>6 DEF LinesOK
  <2>8. Len(stream[e]) + 1 <= Capacity
    <3>1. Len(stream[e]) \in Nat /\ Capacity \in Nat
      BY <1>1, LenProperties, SizesAssumption DEF LinesOK
    <3>. QED  BY <2>6, <3>1
  <2>9. \A f \in Ends : Len(stream'[f]) <= Capacity
    BY <1>1, <2>5, <2>6, <2>8 DEF LinesOK
  <2>. QED  BY <1>1, <1>3, <2>4, <2>7, <2>9 DEF LinesOK, WritesMessage
<1>4. ASSUME NEW job \in Jobs, DropsMessage(s, job)
      PROVE  LinesOK'
  <2>1. Tail(jobs[s]) \in Seq(Jobs)
    BY <1>1, <1>4, JobTaken DEF DropsMessage
  <2>. QED  BY <1>1, <1>4, <2>1 DEF LinesOK, DropsMessage
<1>5. ASSUME NEW job \in Jobs, HandsOver(s, job)
      PROVE  LinesOK'
  <2>1. Tail(jobs[s]) \in Seq(Jobs) /\ job.message \in Messages
    BY <1>1, <1>5, JobTaken DEF HandsOver
  <2>2. Append(received[s], job.message) \in Seq(Messages)
    BY <1>1, <2>1, AppendFacts DEF LinesOK
  <2>. QED  BY <1>1, <1>5, <2>1, <2>2 DEF LinesOK, HandsOver
<1>6. ASSUME NEW job \in Jobs, PutsBackAgain(s, job)
      PROVE  LinesOK'
  <2>1. Tail(jobs[s]) \in Seq(Jobs) /\ job.message \in Messages
    BY <1>1, <1>6, JobTaken DEF PutsBackAgain
  <2>2. Append(Tail(jobs[s]), HandleJob(job.message)) \in Seq(Jobs)
    BY <2>1, JobsFacts, AppendFacts
  <2>. QED  BY <1>1, <1>6, <2>1, <2>2 DEF LinesOK, PutsBackAgain
<1>7. ASSUME NEW e \in Ends, NEW m \in Messages, ReadsMessage(s, e, m)
      PROVE  /\ stream' \in [Ends -> Seq(Messages)]
             /\ \A f \in Ends : Len(stream'[f]) <= Capacity
  <2>1. /\ stream[e] \in Seq(Messages) /\ stream[e] # <<>>
        /\ stream' = [stream EXCEPT ![e] = Tail(stream[e])]
    BY <1>1, <1>7 DEF LinesOK, ReadsMessage
  <2>2. Tail(stream[e]) \in Seq(Messages) /\ Len(Tail(stream[e])) = Len(stream[e]) - 1
    BY <2>1, TailFacts
  <2>3. Len(stream[e]) \in Nat /\ Capacity \in Nat /\ Len(stream[e]) <= Capacity
    BY <1>1, <2>1, LenProperties, SizesAssumption DEF LinesOK
  <2>4. Len(Tail(stream[e])) <= Capacity
    BY <2>2, <2>3
  <2>. QED  BY <1>1, <2>1, <2>2, <2>4 DEF LinesOK
<1>14. ASSUME NEW e \in Ends, NEW m \in Messages, WholeOrGarbled(e, m)
       PROVE  garbled' \subseteq 1 .. MaxSends
  <2>1. garbled \subseteq 1 .. MaxSends /\ m.number \in 1 .. MaxSends
    BY <1>1, JobsFacts DEF LinesOK
  <2>2. garbled' = garbled \/ garbled' = garbled \cup {m.number}
    BY <1>14 DEF WholeOrGarbled
  <2>. QED  BY <2>1, <2>2
<1>8. ASSUME NEW e \in Ends, NEW m \in Messages, ReadsOver(s, e, m)
      PROVE  LinesOK'
  <2>1. ReadsMessage(s, e, m)
    BY <1>8 DEF ReadsOver
  <2>2. Append(received[s], m) \in Seq(Messages)
    BY <1>1, AppendFacts DEF LinesOK
  <2>3. received' \in [Sockets -> Seq(Messages)]
    BY <1>1, <1>8, <2>2 DEF LinesOK, ReadsOver
  <2>4. garbled' \subseteq 1 .. MaxSends
    BY <1>8, <1>14 DEF ReadsOver
  <2>. QED  BY <1>1, <1>7, <1>8, <2>1, <2>3, <2>4 DEF LinesOK, ReadsOver, ReadsMessage
<1>9. ASSUME NEW e \in Ends, NEW m \in Messages, PutsBack(s, e, m)
      PROVE  LinesOK'
  <2>1. ReadsMessage(s, e, m)
    BY <1>9 DEF PutsBack
  <2>2. Append(jobs[s], HandleJob(m)) \in Seq(Jobs)
    BY <1>1, JobsFacts, AppendFacts DEF LinesOK
  <2>3. jobs' \in [Sockets -> Seq(Jobs)]
    BY <1>1, <1>9, <2>2 DEF LinesOK, PutsBack
  <2>4. garbled' \subseteq 1 .. MaxSends
    BY <1>9, <1>14 DEF PutsBack
  <2>. QED  BY <1>1, <1>7, <1>9, <2>1, <2>3, <2>4 DEF LinesOK, PutsBack, ReadsMessage
<1>10. ASSUME NEW e \in Ends, NEW m \in Messages, SwallowsMessage(s, e, m)
       PROVE  LinesOK'
  BY <1>1, <1>7, <1>10 DEF LinesOK, SwallowsMessage, ReadsMessage
<1>11. CASE ClearsStreams(s)
  <2>1. Capacity \in Nat /\ Len(<<>>) = 0
    BY SizesAssumption
  <2>2. \A f \in Ends : Len(stream'[f]) <= Capacity
    BY <1>1, <1>11, <2>1 DEF LinesOK, ClearsStreams
  <2>. QED  BY <1>1, <1>11, <2>2 DEF LinesOK, ClearsStreams
<1>12. CASE MovesNothing
  BY <1>1, <1>12 DEF LinesOK, MovesNothing
<1>. QED  BY <1>2, <1>3, <1>4, <1>5, <1>6, <1>8, <1>9, <1>10, <1>11, <1>12, Shapes

\* While a thread writes, the job it has begun stays the first.
LEMMA ThreadsStep ==
    ASSUME TypeOK, NEW s \in Sockets, ProgramCalls(s) \/ ServiceThread(s)
    PROVE  ThreadsOK'
<1>1. LinesOK /\ ThreadsOK
  BY PartsOfType
<1>2. ASSUME NEW job \in Jobs, jobs' = [jobs EXCEPT ![s] = Append(jobs[s], job)]
      PROVE  \A t \in Sockets : Runs(t, "write") => Runs(t, "write")'
  <2>1. /\ Append(jobs[s], job) # <<>>
        /\ jobs[s] # <<>> => Head(Append(jobs[s], job)) = Head(jobs[s])
    BY <1>1, AppendFacts DEF LinesOK
  <2>. QED  BY <1>1, <1>2, <2>1 DEF Runs, LinesOK
<1>3. ASSUME UNCHANGED threadVars, \A t \in Sockets : Runs(t, "write") => Runs(t, "write")'
      PROVE  ThreadsOK'
  BY <1>1, <1>3 DEF ThreadsOK, threadVars
<1>4. ASSUME UNCHANGED <<threadVars, jobs>>
      PROVE  ThreadsOK'
  BY <1>1, <1>4 DEF ThreadsOK, threadVars, Runs
<1>5. ASSUME NEW does \in {"idle", "misreading", "undefined", "thrown"}, ToThread(s, does),
             \A t \in Sockets \ {s} : jobs'[t] = jobs[t] /\ mutex'[t] = mutex[t],
             mutex' \in [Sockets -> BOOLEAN]
      PROVE  ThreadsOK'
  BY <1>1, <1>5 DEF ThreadsOK, ToThread, Runs
<1>6. ASSUME NEW e \in Ends, SendOver(s, e)
      PROVE  ThreadsOK'
  <2>. DEFINE m == [number |-> sends', over |-> e]
  <2>1. m \in Messages
    BY <1>1, <1>6, BoundsAssumption DEF Messages, SendOver, LinesOK
  <2>2. jobs' = [jobs EXCEPT ![s] = Append(jobs[s], WriteJob(m))] /\ UNCHANGED threadVars
    BY <1>6 DEF SendOver, Post
  <2>. HIDE DEF m
  <2>3. WriteJob(m) \in Jobs
    BY <2>1, JobsFacts
  <2>. QED  BY <1>2, <1>3, <2>2, <2>3
<1>7. CASE Bind(s) \/ AsyncReceiveFrom(s) \/ Close(s) \/ Accepts(s) \/ \E e \in Ends : ReadEnds(s, e)
  BY <1>4, <1>7 DEF Bind, AsyncReceiveFrom, Close, Accepts, ReadEnds
<1>8. CASE \E to \in Sockets : SendConnected(s, to)
  <2>1. PICK e \in sockets[s] : SendOver(s, e)
    BY <1>8 DEF SendConnected, Outgoing
  <2>. QED  BY <1>6, <2>1, PartsOfType DEF MapsOK
<1>9. CASE \E to \in Sockets : SendConnecting(s, to)
  <2>1. PICK to \in Sockets : SendConnecting(s, to)
    BY <1>9
  <2>2. <<Len(connections) + 1, "from">> \in Ends
    BY <2>1, PartsOfType, LenProperties, BoundsAssumption DEF SendConnecting, Ends, MapsOK
  <2>. QED  BY <1>6, <2>1, <2>2 DEF SendConnecting
<1>10. CASE \E e \in Ends : Reply(s, e)
  BY <1>6, <1>10 DEF Reply
<1>11. CASE LocksMutex(s)
  BY <1>1, <1>11 DEF LocksMutex, ToThread, ThreadsOK, Runs
<1>12. CASE RunsHandle(s)
  <2>1. UNCHANGED threadVars /\ Idle(s)
    BY <1>12 DEF RunsHandle
  <2>2. \A t \in Sockets \ {s} : jobs'[t] = jobs[t]
    BY <1>1, <1>12 DEF RunsHandle, HandleDatagram, LinesOK
  <2>. QED  BY <1>1, <2>1, <2>2 DEF ThreadsOK, threadVars, Runs, Idle
<1>13. CASE \E e \in Ends : HandsGarbage(s, e)
  <2>1. PICK e \in Ends : HandsGarbage(s, e)
    BY <1>13
  <2>2. ToThread(s, "idle") /\ UNCHANGED mutex
    BY <2>1 DEF HandsGarbage, Misreads
  <2>3. \A t \in Sockets \ {s} : jobs'[t] = jobs[t]
    BY <1>1, <2>1 DEF HandsGarbage, HandleDatagram, LinesOK
  <2>. QED  BY <1>1, <1>5, <2>2, <2>3 DEF ThreadsOK
<1>14. CASE \E e \in Ends : Swallows(s, e)
  <2>1. PICK e \in Ends : Swallows(s, e)
    BY <1>14
  <2>2. PICK does \in {"misreading", "thrown"} : ToThread(s, does)
    BY <2>1 DEF Swallows
  <2>3. UNCHANGED <<mutex, jobs>>
    BY <2>1 DEF Swallows, Misreads
  <2>. QED  BY <1>1, <1>5, <2>2, <2>3 DEF ThreadsOK
<1>15. CASE \E e \in Ends : Reads(s, e)
  <2>1. UNCHANGED threadVars /\ Idle(s)
    BY <1>15 DEF Reads
  <2>2. \A t \in Sockets \ {s} : jobs'[t] = jobs[t]
    BY <1>1, <1>15 DEF Reads, HandleDatagram, LinesOK
  <2>. QED  BY <1>1, <2>1, <2>2 DEF ThreadsOK, threadVars, Runs, Idle
<1>16. CASE \E e \in Ends : ReadThrows(s, e)
  BY <1>1, <1>5, <1>16 DEF ReadThrows, ThreadsOK
<1>17. CASE WriteEnds(s)
  <2>1. PICK e \in Ends : \/ WriteReturns(s, e) \/ WriteVanishes(s, e)
                          \/ WriteThrows(s, e) \/ WriteUndefined(s, e)
    BY <1>17 DEF WriteEnds
  <2>2. CASE WriteReturns(s, e) \/ WriteVanishes(s, e) \/ WriteThrows(s, e)
    <3>1. Settles(s) /\ (Unlocks(s) \/ UNCHANGED mutex)
      BY <2>2 DEF WriteReturns, WriteVanishes, WriteThrows
    <3>2. ToThread(s, "idle") /\ jobs' = [jobs EXCEPT ![s] = Tail(jobs[s])]
      BY <3>1 DEF Settles, EndsJob
    <3>. QED  BY <1>1, <1>5, <3>1, <3>2 DEF Unlocks, ThreadsOK, LinesOK
  <2>3. CASE WriteUndefined(s, e)
    BY <1>1, <1>5, <2>3 DEF WriteUndefined, ThreadsOK
  <2>. QED  BY <2>1, <2>2, <2>3
<1>. QED  BY <1>7, <1>8, <1>9, <1>10, <1>11, <1>12, <1>13, <1>14, <1>15, <1>16, <1>17
          DEF ProgramCalls, ServiceThread, RunsJob, ReadHandler

LEMMA CallsStep ==
    ASSUME CallsOK, NEW s \in Sockets, ProgramCalls(s) \/ ServiceThread(s)
    PROVE  CallsOK'
<1>1. CASE AsyncReceiveFrom(s)
  BY <1>1, SizesAssumption, BoundsAssumption DEF AsyncReceiveFrom, CallsOK
<1>2. ASSUME NEW m, NEW others, HandleDatagram(s, m, others)
      PROVE  CallsOK'
  BY <1>2, SizesAssumption DEF HandleDatagram, CallsOK
<1>3. CASE RunsHandle(s) \/ \E e \in Ends : Reads(s, e) \/ HandsGarbage(s, e)
  BY <1>2, <1>3 DEF RunsHandle, Reads, HandsGarbage
<1>4. \/ UNCHANGED <<promiseQueue, receives>> \/ AsyncReceiveFrom(s)
      \/ RunsHandle(s) \/ \E e \in Ends : Reads(s, e) \/ HandsGarbage(s, e)
  <2>1. ASSUME Bind(s) \/ Close(s) \/ LocksMutex(s) \/ Accepts(s)
               \/ (\E e \in Ends :
                        Reply(s, e) \/ Swallows(s, e) \/ ReadEnds(s, e) \/ ReadThrows(s, e))
               \/ (\E to \in Sockets : SendConnected(s, to) \/ SendConnecting(s, to))
        PROVE  UNCHANGED <<promiseQueue, receives>>
    BY <2>1 DEF Bind, Close, LocksMutex, Accepts, Reply, Swallows, ReadEnds, ReadThrows,
                SendConnected, SendConnecting, SendOver, receiveVars
  <2>2. ASSUME WriteEnds(s)
        PROVE  UNCHANGED <<promiseQueue, receives>>
    BY <2>2 DEF WriteEnds, WriteReturns, WriteVanishes, WriteThrows, WriteUndefined, Settles,
                receiveVars
  <2>. QED  BY <2>1, <2>2 DEF ProgramCalls, ServiceThread, RunsJob, ReadHandler
<1>. QED  BY <1>1, <1>3, <1>4 DEF CallsOK

-----------------------------------------------------------------------------
(* Everything is where it belongs *)

LEMMA OwnersStay ==
    ASSUME MapsOK, NEW s \in Sockets, ProgramCalls(s) \/ ServiceThread(s)
    PROVE  \A e \in Ends : Known(e) => Known(e)' /\ Owner(e)' = Owner(e)
<1>1. CASE UNCHANGED connections
  BY <1>1 DEF Known, Owner
<1>2. CASE \E to \in Sockets : SendConnecting(s, to)
  BY <1>2, EndMade DEF SendConnecting
<1>3. UNCHANGED connections \/ \E to \in Sockets : SendConnecting(s, to)
  <2>1. ASSUME Bind(s) \/ Close(s) \/ LocksMutex(s) \/ Accepts(s) \/ AsyncReceiveFrom(s) \/ RunsHandle(s)
               \/ (\E e \in Ends : \/ Reply(s, e) \/ Reads(s, e) \/ HandsGarbage(s, e) \/ Swallows(s, e)
                                  \/ ReadEnds(s, e) \/ ReadThrows(s, e))
               \/ (\E to \in Sockets : SendConnected(s, to))
        PROVE  UNCHANGED connections
    BY <2>1 DEF Bind, Close, LocksMutex, Accepts, AsyncReceiveFrom, RunsHandle, Reply, Reads,
                HandsGarbage, Swallows, Misreads, ReadEnds, ReadThrows, SendConnected, connectionVars
  <2>2. ASSUME WriteEnds(s)
        PROVE  UNCHANGED connections
    BY <2>2 DEF WriteEnds, WriteReturns, WriteVanishes, WriteThrows, WriteUndefined, Settles,
                connectionVars
  <2>. QED  BY <2>1, <2>2 DEF ProgramCalls, ServiceThread, RunsJob, ReadHandler
<1>. QED  BY <1>1, <1>2, <1>3

\* A job stays in its place while ends keep their owners and nothing put back is forgotten.
LEMMA JobsStay ==
    ASSUME \A e \in Ends : Known(e) => Known(e)' /\ Owner(e)' = Owner(e),
           putBack \subseteq putBack'
    PROVE  \A s \in Sockets : \A job \in Jobs :
                JobInPlace(s, job) => (JobInPlace(s, job))'
<1>. SUFFICES ASSUME NEW s \in Sockets, NEW job \in Jobs, JobInPlace(s, job)
              PROVE  (JobInPlace(s, job))'
  OBVIOUS
<1>1. job.message.over \in Ends
  BY MessageOfJob, JobsFacts
<1>2. PICK e \in Ends : e = job.message.over
  BY <1>1
<1>3. Opposite(e) \in Ends /\ (Known(Opposite(e)) <=> Known(e))
  BY EndsFacts DEF Known
<1>. QED  BY <1>2, <1>3 DEF JobInPlace, SentTo

LEMMA SentStays ==
    ASSUME \A e \in Ends : Known(e) => Known(e)' /\ Owner(e)' = Owner(e),
           NEW s \in Sockets, NEW m \in Messages, SentTo(s, m)
    PROVE  SentTo(s, m)'
<1>1. m.over \in Ends /\ Opposite(m.over) \in Ends /\ Known(Opposite(m.over))
  BY JobsFacts, EndsFacts DEF SentTo, Known
<1>. QED  BY <1>1 DEF SentTo

LEMMA InPlaceStep ==
    ASSUME TypeOK, Connected, InPlace, MapsOK', Connected', LinesOK',
           NEW s \in Sockets, ProgramCalls(s) \/ ServiceThread(s)
    PROVE  InPlace'
<1>. DEFINE JobsInPlace == \A t \in Sockets : \A i \in DOMAIN jobs[t] : JobInPlace(t, jobs[t][i])
            StreamsInPlace ==
                \A e \in Ends : \A i \in DOMAIN stream[e] : stream[e][i].over = Opposite(e) /\ Known(e)
            ReceivedInPlace ==
                \A t \in Sockets : \A i \in DOMAIN received[t] : SentTo(t, received[t][i])
<1>1. MapsOK /\ LinesOK
  BY PartsOfType
<1>2. \A e \in Ends : Known(e) => Known(e)' /\ Owner(e)' = Owner(e)
  BY <1>1, OwnersStay
<1>3. ASSUME putBack \subseteq putBack',
             \A t \in Sockets : \A i \in DOMAIN jobs'[t] :
                \/ \E k \in DOMAIN jobs[t] : jobs'[t][i] = jobs[t][k]
                \/ \E job \in Jobs : jobs'[t][i] = job /\ JobInPlace(t, job)'
      PROVE  JobsInPlace'
  <2>1. \A t \in Sockets : \A job \in Jobs : JobInPlace(t, job) => (JobInPlace(t, job))'
    BY <1>2, <1>3, JobsStay
  <2>2. ASSUME NEW t \in Sockets, NEW i \in DOMAIN jobs'[t]
        PROVE  JobInPlace(t, jobs[t][i])'
    <3>1. CASE \E k \in DOMAIN jobs[t] : jobs'[t][i] = jobs[t][k]
      <4>1. PICK k \in DOMAIN jobs[t] : jobs'[t][i] = jobs[t][k]
        BY <3>1
      <4>2. jobs[t][k] \in Jobs
        BY <1>1, LenProperties, ElementOfSeq DEF LinesOK
      <4>3. PICK job \in Jobs : job = jobs[t][k]
        BY <4>2
      <4>4. JobInPlace(t, job)'
        BY <2>1, <4>3 DEF InPlace
      <4>. QED  BY <4>1, <4>3, <4>4 DEF JobInPlace
    <3>2. CASE \E job \in Jobs : jobs'[t][i] = job /\ JobInPlace(t, job)'
      BY <3>2 DEF JobInPlace
    <3>. QED  BY <1>3, <3>1, <3>2
  <2>. QED  BY <2>2
<1>4. ASSUME NEW job \in Jobs, Takes(s, job), jobs' = [jobs EXCEPT ![s] = Tail(jobs[s])],
             putBack \subseteq putBack'
      PROVE  JobsInPlace'
  <2>1. \A i \in DOMAIN Tail(jobs[s]) :
            i + 1 \in DOMAIN jobs[s] /\ Tail(jobs[s])[i] = jobs[s][i + 1]
    BY <1>1, <1>4, JobTaken
  <2>. QED  BY <1>1, <1>3, <1>4, <2>1 DEF LinesOK
<1>5. ASSUME NEW job \in Jobs, jobs' = [jobs EXCEPT ![s] = Append(jobs[s], job)],
             putBack \subseteq putBack', JobInPlace(s, job)'
      PROVE  JobsInPlace'
  <2>. DEFINE last == Len(jobs[s]) + 1
  <2>0. jobs[s] \in Seq(Jobs)
    BY <1>1 DEF LinesOK
  <2>1. /\ Append(jobs[s], job)[last] = job
        /\ \A i \in DOMAIN jobs[s] : Append(jobs[s], job)[i] = jobs[s][i]
        /\ \A i \in DOMAIN Append(jobs[s], job) : i \in DOMAIN jobs[s] \/ i = last
    BY <2>0, AppendFacts
  <2>. HIDE DEF last
  <2>. QED  BY <1>1, <1>3, <1>5, <2>1 DEF LinesOK
<1>18. ASSUME \A f \in Ends : \A i \in DOMAIN stream'[f] :
                stream'[f][i].over = Opposite(f) /\ (Known(f) \/ Known(f)')
      PROVE  StreamsInPlace'
  BY <1>2, <1>18
<1>6. ASSUME NEW e \in Ends, NEW m \in Messages, ReadsMessage(s, e, m)
      PROVE  StreamsInPlace' /\ SentTo(s, m)'
  <2>1. /\ stream[e] \in Seq(Messages) /\ stream[e] # <<>> /\ m = Head(stream[e])
        /\ stream' = [stream EXCEPT ![e] = Tail(stream[e])] /\ e \in sockets[s]
    BY <1>1, <1>6 DEF ReadsMessage, LinesOK
  <2>2. /\ Head(stream[e]) = stream[e][1] /\ 1 \in DOMAIN stream[e]
        /\ \A i \in DOMAIN Tail(stream[e]) :
              i + 1 \in DOMAIN stream[e] /\ Tail(stream[e])[i] = stream[e][i + 1]
    BY <2>1, TailFacts
  <2>3. \A f \in Ends : \A i \in DOMAIN stream'[f] :
            stream'[f][i].over = Opposite(f) /\ Known(f)
    BY <1>1, <2>1, <2>2 DEF InPlace, LinesOK
  <2>4. m.over = Opposite(e) /\ Known(e) /\ Owner(e) = s
    BY <2>1, <2>2 DEF InPlace, Connected
  <2>5. Opposite(m.over) = e /\ Known(m.over)
    BY <2>4, EndsFacts DEF Known
  <2>6. SentTo(s, m)
    BY <2>4, <2>5 DEF SentTo
  <2>. QED  BY <1>2, <1>18, <2>3, <2>6, SentStays
<1>7. ASSUME UNCHANGED stream
      PROVE  StreamsInPlace'
  BY <1>7, <1>18 DEF InPlace
<1>8. ASSUME UNCHANGED <<jobs, putBack>>
      PROVE  JobsInPlace'
  BY <1>3, <1>8
<1>19. ASSUME NEW t \in Sockets, NEW i \in DOMAIN received[t]
       PROVE  \E m \in Messages : m = received[t][i] /\ SentTo(t, m)'
  <2>1. received[t][i] \in Messages /\ SentTo(t, received[t][i])
    BY <1>1, LenProperties, ElementOfSeq DEF LinesOK, InPlace
  <2>2. PICK m \in Messages : m = received[t][i]
    BY <2>1
  <2>3. SentTo(t, m)'
    BY <1>2, <2>1, <2>2, SentStays
  <2>. QED  BY <2>2, <2>3
<1>24. ASSUME \A t \in Sockets : \A i \in DOMAIN received'[t] :
                \E m \in Messages : m = received'[t][i] /\ SentTo(t, m)'
       PROVE  ReceivedInPlace'
  BY <1>24 DEF SentTo
<1>20. ASSUME UNCHANGED received
       PROVE  ReceivedInPlace'
  BY <1>19, <1>20, <1>24
<1>21. ASSUME NEW m \in Messages, SentTo(s, m)',
              received' = [received EXCEPT ![s] = Append(received[s], m)]
       PROVE  ReceivedInPlace'
  <2>. DEFINE last == Len(received[s]) + 1
  <2>0. received[s] \in Seq(Messages)
    BY <1>1 DEF LinesOK
  <2>1. /\ Append(received[s], m)[last] = m
        /\ \A i \in DOMAIN received[s] : Append(received[s], m)[i] = received[s][i]
        /\ \A i \in DOMAIN Append(received[s], m) : i \in DOMAIN received[s] \/ i = last
    BY <2>0, AppendFacts
  <2>. HIDE DEF last
  <2>2. \A t \in Sockets : \A i \in DOMAIN received'[t] :
            \/ i \in DOMAIN received[t] /\ received'[t][i] = received[t][i]
            \/ t = s /\ received'[t][i] = m
    BY <1>1, <1>21, <2>1 DEF LinesOK
  <2>. QED  BY <1>19, <1>21, <1>24, <2>2
<1>9. JobsInPlace' /\ StreamsInPlace' /\ ReceivedInPlace' => InPlace'
  BY DEF InPlace
<1>. HIDE DEF JobsInPlace, StreamsInPlace, ReceivedInPlace
<1>10. ASSUME NEW m \in Messages, SendsMessage(s, m)
       PROVE  InPlace'
  <2>1. m.over \in Ends /\ Known(m.over)' /\ Owner(m.over)' = s
    BY <1>10, JobsFacts DEF SendsMessage, Connected
  <2>2. PICK job \in Jobs : job = WriteJob(m)
    BY JobsFacts
  <2>3. job.message = m /\ job.run = "write"
    BY <2>2, JobsFacts
  <2>4. JobInPlace(s, job)'
    BY <2>1, <2>3 DEF JobInPlace
  <2>5. jobs' = [jobs EXCEPT ![s] = Append(jobs[s], job)] /\ UNCHANGED <<stream, received, putBack>>
    BY <1>10, <2>2 DEF SendsMessage
  <2>6. JobsInPlace'
    BY <1>5, <2>4, <2>5
  <2>. QED  BY <1>7, <1>9, <1>20, <2>5, <2>6
<1>11. ASSUME NEW job \in Jobs, WritesMessage(s, job)
       PROVE  InPlace'
  <2>1. JobsInPlace'
    BY <1>4, <1>11 DEF WritesMessage
  <2>2. job.message \in Messages /\ job.message.over \in Ends
    BY <1>1, <1>11, JobTaken DEF WritesMessage
  <2>3. PICK m \in Messages : m = job.message
    BY <2>2
  <2>4. PICK e \in Ends : e = Opposite(m.over)
    BY <2>2, <2>3, EndsFacts
  <2>5. m.over = Opposite(e)
    BY <2>2, <2>3, <2>4, EndsFacts
  <2>6. /\ stream[e] \in Seq(Messages)
        /\ stream' = [stream EXCEPT ![e] = Append(stream[e], m)]
    BY <1>1, <1>11, <2>3, <2>4 DEF WritesMessage, LinesOK
  <2>. DEFINE last == Len(stream[e]) + 1
  <2>7. /\ Append(stream[e], m)[last] = m
        /\ \A i \in DOMAIN stream[e] : Append(stream[e], m)[i] = stream[e][i]
        /\ \A i \in DOMAIN Append(stream[e], m) : i \in DOMAIN stream[e] \/ i = last
    BY <2>6, AppendFacts
  <2>. HIDE DEF last
  <2>8. StreamsInPlace'
    <3>1. Known(e)
      <4>1. Takes(s, job) /\ job.run = "write"
        BY <1>11 DEF WritesMessage
      <4>2. Known(m.over)
        BY <1>1, <2>3, <4>1, JobTaken DEF InPlace, JobInPlace
      <4>. QED  BY <2>2, <2>3, <2>4, <4>2, EndsFacts DEF Known
    <3>2. \A f \in Ends : \A i \in DOMAIN stream'[f] :
            stream'[f][i].over = Opposite(f) /\ Known(f)
      BY <1>1, <2>5, <2>6, <2>7, <3>1 DEF InPlace, LinesOK
    <3>. QED  BY <1>18, <3>2
  <2>9. UNCHANGED received
    BY <1>11 DEF WritesMessage
  <2>. QED  BY <1>9, <1>20, <2>1, <2>8, <2>9
<1>12. ASSUME NEW job \in Jobs, DropsMessage(s, job)
       PROVE  InPlace'
  BY <1>4, <1>7, <1>9, <1>12, <1>20 DEF DropsMessage
<1>22. ASSUME NEW job \in Jobs, Takes(s, job), job.run = "handle"
       PROVE  job.message \in Messages /\ SentTo(s, job.message)'
  <2>1. job.message \in Messages /\ SentTo(s, job.message)
    BY <1>1, <1>22, JobTaken DEF InPlace, JobInPlace
  <2>2. PICK m \in Messages : m = job.message
    BY <2>1
  <2>3. SentTo(s, m)'
    BY <1>2, <2>1, <2>2, SentStays
  <2>. QED  BY <2>2, <2>3 DEF SentTo
<1>23. ASSUME NEW job \in Jobs, HandsOver(s, job)
       PROVE  InPlace'
  <2>1. /\ Takes(s, job) /\ job.run = "handle" /\ UNCHANGED <<stream, putBack>>
        /\ jobs' = [jobs EXCEPT ![s] = Tail(jobs[s])]
        /\ received' = [received EXCEPT ![s] = Append(received[s], job.message)]
    BY <1>23 DEF HandsOver
  <2>2. ReceivedInPlace'
    <3>1. PICK m \in Messages : m = job.message
      BY <1>22, <2>1
    <3>2. SentTo(s, m)'
      BY <1>22, <2>1, <3>1 DEF SentTo
    <3>. QED  BY <1>21, <2>1, <3>1, <3>2
  <2>. QED  BY <1>4, <1>7, <1>9, <2>1, <2>2
<1>13. ASSUME NEW job \in Jobs, PutsBackAgain(s, job)
       PROVE  InPlace'
  <2>1. /\ Takes(s, job) /\ job.run = "handle" /\ UNCHANGED <<stream, received>>
        /\ putBack' = putBack \cup {job.message}
        /\ jobs' = [jobs EXCEPT ![s] = Append(Tail(jobs[s]), HandleJob(job.message))]
    BY <1>13 DEF PutsBackAgain
  <2>2. PICK again \in Jobs : again = HandleJob(job.message)
    BY <1>1, <2>1, JobTaken, JobsFacts
  <2>3. again.message = job.message /\ again.run = "handle"
    BY <1>1, <2>1, <2>2, JobTaken, JobsFacts
  <2>4. JobInPlace(s, again)'
    BY <1>22, <2>1, <2>3 DEF JobInPlace, SentTo
  <2>5. /\ Tail(jobs[s]) \in Seq(Jobs)
        /\ \A i \in DOMAIN Tail(jobs[s]) :
              i + 1 \in DOMAIN jobs[s] /\ Tail(jobs[s])[i] = jobs[s][i + 1]
    BY <1>1, <2>1, JobTaken
  <2>. DEFINE last == Len(Tail(jobs[s])) + 1
  <2>6. /\ Append(Tail(jobs[s]), again)[last] = again
        /\ \A i \in DOMAIN Tail(jobs[s]) : Append(Tail(jobs[s]), again)[i] = Tail(jobs[s])[i]
        /\ \A i \in DOMAIN Append(Tail(jobs[s]), again) : i \in DOMAIN Tail(jobs[s]) \/ i = last
    BY <2>5, AppendFacts
  <2>. HIDE DEF last
  <2>7. \A t \in Sockets : \A i \in DOMAIN jobs'[t] :
            \/ \E k \in DOMAIN jobs[t] : jobs'[t][i] = jobs[t][k]
            \/ jobs'[t][i] = again /\ t = s
    BY <1>1, <2>1, <2>2, <2>5, <2>6 DEF LinesOK
  <2>8. JobsInPlace'
    BY <1>3, <2>1, <2>4, <2>7
  <2>. QED  BY <1>7, <1>9, <1>20, <2>1, <2>8
<1>14. ASSUME NEW e \in Ends, NEW m \in Messages, ReadsOver(s, e, m)
       PROVE  InPlace'
  BY <1>6, <1>8, <1>9, <1>14, <1>21 DEF ReadsOver
<1>15. ASSUME NEW e \in Ends, NEW m \in Messages, PutsBack(s, e, m)
       PROVE  InPlace'
  <2>1. PICK job \in Jobs : job = HandleJob(m)
    BY JobsFacts
  <2>2. job.message = m /\ job.run = "handle"
    BY <2>1, JobsFacts
  <2>3. jobs' = [jobs EXCEPT ![s] = Append(jobs[s], job)] /\ putBack' = putBack \cup {m}
    BY <1>15, <2>1 DEF PutsBack
  <2>4. JobInPlace(s, job)'
    BY <1>6, <1>15, <2>2, <2>3 DEF PutsBack, JobInPlace, SentTo
  <2>5. JobsInPlace'
    BY <1>5, <2>3, <2>4
  <2>. QED  BY <1>6, <1>9, <1>15, <1>20, <2>5 DEF PutsBack
<1>25. ASSUME NEW e \in Ends, NEW m \in Messages, SwallowsMessage(s, e, m)
       PROVE  InPlace'
  BY <1>6, <1>8, <1>9, <1>20, <1>25 DEF SwallowsMessage
<1>16. CASE ClearsStreams(s)
  <2>1. \A f \in Ends : \A i \in DOMAIN stream'[f] : stream'[f][i].over = Opposite(f) /\ Known(f)
    BY <1>16, EmptySeq DEF ClearsStreams, InPlace
  <2>. QED  BY <1>8, <1>9, <1>16, <1>18, <1>20, <2>1 DEF ClearsStreams
<1>17. CASE MovesNothing
  BY <1>7, <1>8, <1>9, <1>17, <1>20 DEF MovesNothing
<1>. QED  BY <1>10, <1>11, <1>12, <1>13, <1>14, <1>15, <1>16, <1>17, <1>23, <1>25, Shapes

-----------------------------------------------------------------------------
(* Nothing is lost *)

LEMMA LineNames ==
    /\ \A l \in Lines : \/ \E s \in Sockets : l = JobsOf(s) \/ l = ReceivedBy(s)
                        \/ \E e \in Ends : l = StreamTo(e)
    /\ \A s \in Sockets : JobsOf(s) \in Lines /\ ReceivedBy(s) \in Lines
    /\ \A e \in Ends : StreamTo(e) \in Lines
    /\ \A s, t \in Sockets : /\ s # t => JobsOf(s) # JobsOf(t) /\ ReceivedBy(s) # ReceivedBy(t)
                             /\ JobsOf(s) # ReceivedBy(t)
    /\ \A s \in Sockets, e \in Ends : JobsOf(s) # StreamTo(e) /\ ReceivedBy(s) # StreamTo(e)
    /\ \A e, f \in Ends : e # f => StreamTo(e) # StreamTo(f)
  BY DEF Lines, JobsOf, StreamTo, ReceivedBy

LEMMA MessagesOfJobs ==
    ASSUME NEW js \in Seq(Jobs)
    PROVE  /\ MessagesOf(js) \in Seq(Messages)
           /\ \A job \in Jobs : MessagesOf(Append(js, job)) = Append(MessagesOf(js), job.message)
           /\ js # <<>> => /\ MessagesOf(js) # <<>> /\ Head(MessagesOf(js)) = Head(js).message
                           /\ MessagesOf(Tail(js)) = Tail(MessagesOf(js))
<1>1. ASSUME NEW q \in Seq(Jobs)
      PROVE  /\ MessagesOf(q) \in Seq(Messages) /\ DOMAIN MessagesOf(q) = DOMAIN q
             /\ Len(MessagesOf(q)) = Len(q)
             /\ \A i \in DOMAIN q : MessagesOf(q)[i] = q[i].message
  <2>1. DOMAIN MessagesOf(q) = 1 .. Len(q) /\ Len(q) \in Nat /\ DOMAIN q = 1 .. Len(q)
    BY LenProperties DEF MessagesOf
  <2>2. \A i \in 1 .. Len(q) : MessagesOf(q)[i] = q[i].message /\ q[i].message \in Messages
    BY <2>1, ElementOfSeq, MessageOfJob DEF MessagesOf
  <2>3. MessagesOf(q) \in [1 .. Len(q) -> Messages]
    BY <2>1, <2>2 DEF MessagesOf
  <2>4. MessagesOf(q) \in Seq(Messages)
    BY <2>1, <2>3, IsASeq
  <2>5. Len(MessagesOf(q)) = Len(q)
    BY <2>1, <2>4, LenProperties
  <2>. QED  BY <2>1, <2>2, <2>4, <2>5
<1>2. ASSUME NEW job \in Jobs
      PROVE  MessagesOf(Append(js, job)) = Append(MessagesOf(js), job.message)
  <2>1. PICK m \in Messages : m = job.message
    BY MessageOfJob
  <2>2. PICK a \in Seq(Jobs) : a = Append(js, job)
    BY AppendFacts
  <2>3. PICK b \in Seq(Messages) : b = Append(MessagesOf(js), m)
    BY <1>1, AppendFacts
  <2>4. PICK q \in Seq(Messages) : q = MessagesOf(js)
    BY <1>1
  <2>5. Len(js) \in Nat /\ DOMAIN js = 1 .. Len(js)
    BY LenProperties
  <2>6. /\ Len(a) = Len(js) + 1 /\ a[Len(js) + 1] = job
        /\ \A i \in 1 .. Len(js) : a[i] = js[i]
    BY <2>2, AppendProperties
  <2>7. /\ Len(b) = Len(js) + 1 /\ b[Len(js) + 1] = m
        /\ \A i \in 1 .. Len(js) : b[i] = js[i].message
    <3>1. Len(q) = Len(js) /\ \A i \in 1 .. Len(js) : q[i] = js[i].message
      BY <1>1, <2>4, <2>5
    <3>. QED  BY <2>3, <2>4, <3>1, AppendProperties
  <2>8. PICK c \in Seq(Messages) : c = MessagesOf(a)
    BY <1>1
  <2>9. Len(c) = Len(a) /\ \A i \in 1 .. Len(a) : c[i] = a[i].message
    BY <1>1, <2>8, LenProperties
  <2>10. \A i \in 1 .. Len(js) + 1 : i \in 1 .. Len(js) \/ i = Len(js) + 1
    BY <2>5
  <2>11. \A i \in 1 .. Len(c) : c[i] = b[i]
    BY <2>1, <2>6, <2>7, <2>9, <2>10
  <2>12. c = b
    BY <2>6, <2>7, <2>9, <2>11, SeqEqual
  <2>. QED  BY <2>1, <2>2, <2>3, <2>8, <2>12
<1>3. ASSUME js # <<>>
      PROVE  /\ MessagesOf(js) # <<>> /\ Head(MessagesOf(js)) = Head(js).message
             /\ MessagesOf(Tail(js)) = Tail(MessagesOf(js))
  <2>1. PICK q \in Seq(Messages) : q = MessagesOf(js)
    BY <1>1
  <2>2. Len(q) = Len(js) /\ \A i \in DOMAIN js : q[i] = js[i].message
    BY <1>1, <2>1
  <2>3. Len(js) \in Nat /\ Len(js) # 0 /\ DOMAIN js = 1 .. Len(js)
    BY <1>3, LenProperties, EmptySeq
  <2>4. q # <<>>
    BY <2>2, <2>3, EmptySeq
  <2>5. PICK a \in Seq(Jobs) : a = Tail(js)
    BY <1>3, TailFacts
  <2>6. PICK b \in Seq(Messages) : b = Tail(q)
    BY <2>4, TailFacts
  <2>7. /\ Len(a) = Len(js) - 1 /\ Head(js) = js[1] /\ 1 \in DOMAIN js
        /\ \A i \in DOMAIN a : i + 1 \in DOMAIN js /\ a[i] = js[i + 1]
    BY <1>3, <2>5, TailFacts
  <2>8. /\ Len(b) = Len(q) - 1 /\ Head(q) = q[1]
        /\ \A i \in DOMAIN b : b[i] = q[i + 1]
    BY <2>4, <2>6, TailFacts
  <2>9. PICK c \in Seq(Messages) : c = MessagesOf(a)
    BY <1>1
  <2>10. Len(c) = Len(a) /\ DOMAIN c = DOMAIN a /\ \A i \in DOMAIN a : c[i] = a[i].message
    BY <1>1, <2>9
  <2>11. DOMAIN c = 1 .. Len(c) /\ DOMAIN b = 1 .. Len(b) /\ Len(b) = Len(c)
    BY <2>2, <2>7, <2>8, <2>10, LenProperties
  <2>12. \A i \in 1 .. Len(c) : c[i] = b[i]
    <3>1. ASSUME NEW i \in DOMAIN a
          PROVE  c[i] = js[i + 1].message /\ q[i + 1] = js[i + 1].message
      BY <2>2, <2>7, <2>10
    <3>2. DOMAIN a = 1 .. Len(c) /\ DOMAIN b = 1 .. Len(c)
      BY <2>10, <2>11
    <3>3. \A i \in 1 .. Len(c) : b[i] = q[i + 1]
      BY <2>8, <3>2
    <3>. QED  BY <3>1, <3>2, <3>3
  <2>13. c = b
    BY <2>11, <2>12, SeqEqual
  <2>14. Head(q) = Head(js).message
    BY <2>2, <2>7, <2>8
  <2>. QED  BY <2>1, <2>4, <2>5, <2>6, <2>9, <2>13, <2>14
<1>. QED  BY <1>1, <1>2, <1>3

LEMMA LineFacts ==
    ASSUME LinesOK
    PROVE  /\ InLine \in [Lines -> Seq(Messages)]
           /\ \A s \in Sockets : InLine[JobsOf(s)] = MessagesOf(jobs[s])
           /\ \A s \in Sockets : InLine[ReceivedBy(s)] = received[s]
           /\ \A e \in Ends : InLine[StreamTo(e)] = stream[e]
<1>1. ASSUME NEW s \in Sockets
      PROVE  InLine[JobsOf(s)] = MessagesOf(jobs[s]) /\ InLine[ReceivedBy(s)] = received[s]
  BY LineNames DEF InLine, JobsOf, ReceivedBy
<1>2. ASSUME NEW e \in Ends
      PROVE  InLine[StreamTo(e)] = stream[e]
  BY LineNames DEF InLine, StreamTo
<1>3. ASSUME NEW l \in Lines
      PROVE  InLine[l] \in Seq(Messages)
  <2>1. CASE \E s \in Sockets : l = JobsOf(s)
    BY <1>1, <2>1, MessagesOfJobs DEF LinesOK
  <2>2. CASE \E s \in Sockets : l = ReceivedBy(s)
    BY <1>1, <2>2 DEF LinesOK
  <2>3. CASE \E e \in Ends : l = StreamTo(e)
    BY <1>2, <2>3 DEF LinesOK
  <2>. QED  BY <2>1, <2>2, <2>3, LineNames
<1>. DEFINE Of(l) == CASE l[1] = "jobs" -> MessagesOf(jobs[l[2]])
                       [] l[1] = "stream" -> stream[l[2]]
                       [] l[1] = "received" -> received[l[2]]
<1>4. InLine = [l \in Lines |-> Of(l)]
  BY DEF InLine
<1>. HIDE DEF Of
<1>5. InLine \in [Lines -> Seq(Messages)]
  BY <1>3, <1>4
<1>. QED  BY <1>1, <1>2, <1>5

LEMMA LineFactsNext ==
    LinesOK' =>
        (/\ InLine \in [Lines -> Seq(Messages)]
         /\ \A s \in Sockets : InLine[JobsOf(s)] = MessagesOf(jobs[s])
         /\ \A s \in Sockets : InLine[ReceivedBy(s)] = received[s]
         /\ \A e \in Ends : InLine[StreamTo(e)] = stream[e])'
<1>1. LinesOK =>
        (/\ InLine \in [Lines -> Seq(Messages)]
         /\ \A s \in Sockets : InLine[JobsOf(s)] = MessagesOf(jobs[s])
         /\ \A s \in Sockets : InLine[ReceivedBy(s)] = received[s]
         /\ \A e \in Ends : InLine[StreamTo(e)] = stream[e])
  BY LineFacts
<1>. QED  BY <1>1, PTL

LEMMA MovesOver ==
    ASSUME NEW L \in [Lines -> Seq(Messages)], NEW K \in [Lines -> Seq(Messages)],
           NEW a \in Lines, NEW b \in Lines, Moves(a, b, L, K)
    PROVE  \E J \in [Lines -> Seq(Messages)] :
                Shrinks(a, L, J) /\ Head(L[a]) \in Messages /\ Grows(b, Head(L[a]), J, K)
<1>1. Tail(L[a]) \in Seq(Messages) /\ Head(L[a]) \in Messages
  BY TailFacts DEF Moves
<1>2. PICK J \in [Lines -> Seq(Messages)] : J = [L EXCEPT ![a] = Tail(L[a])]
  BY <1>1
<1>3. Shrinks(a, L, J) /\ Grows(b, Head(L[a]), J, K)
  BY <1>1, <1>2 DEF Moves, Shrinks, Grows, Only
<1>. QED  BY <1>1, <1>3

LEMMA MovesBehind ==
    ASSUME NEW L \in [Lines -> Seq(Messages)], NEW K \in [Lines -> Seq(Messages)],
           NEW a \in Lines, GoesBehind(a, L, K)
    PROVE  \E J \in [Lines -> Seq(Messages)] :
                Shrinks(a, L, J) /\ Head(L[a]) \in Messages /\ Grows(a, Head(L[a]), J, K)
<1>1. Tail(L[a]) \in Seq(Messages) /\ Head(L[a]) \in Messages
  BY TailFacts DEF GoesBehind
<1>2. PICK J \in [Lines -> Seq(Messages)] : J = [L EXCEPT ![a] = Tail(L[a])]
  BY <1>1
<1>3. Shrinks(a, L, J) /\ Grows(a, Head(L[a]), J, K)
  BY <1>1, <1>2 DEF GoesBehind, Shrinks, Grows, Only
<1>. QED  BY <1>1, <1>3

\* A message that moves is where it was once, and nothing else has changed.
LEMMA MovesKeep ==
    ASSUME NEW L \in [Lines -> Seq(Messages)], NEW K \in [Lines -> Seq(Messages)], Once(L),
           NEW a \in Lines, NEW b \in Lines, Moves(a, b, L, K) \/ GoesBehind(a, L, K)
    PROVE  Once(K) /\ Numbers(K) = Numbers(L)
<1>1. ASSUME NEW J \in [Lines -> Seq(Messages)], NEW m \in Messages, NEW c \in Lines,
             Shrinks(a, L, J), m = Head(L[a]), Grows(c, m, J, K)
      PROVE  Once(K) /\ Numbers(K) = Numbers(L)
  <2>1. /\ Once(J) /\ m.number \notin Numbers(J)
        /\ Numbers(L) = Numbers(J) \cup {m.number}
    BY <1>1, TakeFromLine
  <2>2. Once(K) /\ Numbers(K) = Numbers(J) \cup {m.number}
    BY <1>1, <2>1, AddToLine
  <2>. QED  BY <2>1, <2>2
<1>2. CASE Moves(a, b, L, K)
  BY <1>1, <1>2, MovesOver
<1>3. CASE GoesBehind(a, L, K)
  BY <1>1, <1>3, MovesBehind
<1>. QED  BY <1>2, <1>3

\* The message that a step takes is the head of its line.
LEMMA Heads ==
    ASSUME LinesOK, NEW s \in Sockets
    PROVE  /\ \A job \in Jobs : Takes(s, job) =>
                /\ InLine[JobsOf(s)] # <<>> /\ Head(InLine[JobsOf(s)]) = job.message
                /\ Tail(InLine[JobsOf(s)]) = MessagesOf(Tail(jobs[s]))
                /\ job.message \in Messages /\ Tail(jobs[s]) \in Seq(Jobs)
           /\ \A e \in Ends : \A m \in Messages : ReadsMessage(s, e, m) =>
                /\ InLine[StreamTo(e)] # <<>> /\ Head(InLine[StreamTo(e)]) = m
                /\ Tail(InLine[StreamTo(e)]) = stream'[e]
                /\ \A f \in Ends : f = e \/ stream'[f] = stream[f]
<1>1. InLine[JobsOf(s)] = MessagesOf(jobs[s])
  BY LineFacts
<1>2. ASSUME NEW job \in Jobs, Takes(s, job)
      PROVE  /\ InLine[JobsOf(s)] # <<>> /\ Head(InLine[JobsOf(s)]) = job.message
             /\ Tail(InLine[JobsOf(s)]) = MessagesOf(Tail(jobs[s]))
             /\ job.message \in Messages /\ Tail(jobs[s]) \in Seq(Jobs)
  <2>1. /\ jobs[s] \in Seq(Jobs) /\ jobs[s] # <<>> /\ Head(jobs[s]) = job
        /\ Tail(jobs[s]) \in Seq(Jobs) /\ job.message \in Messages
    BY <1>2, JobTaken
  <2>2. /\ MessagesOf(jobs[s]) # <<>> /\ Head(MessagesOf(jobs[s])) = job.message
        /\ MessagesOf(Tail(jobs[s])) = Tail(MessagesOf(jobs[s]))
    BY <2>1, MessagesOfJobs
  <2>. QED  BY <1>1, <2>1, <2>2
<1>3. ASSUME NEW e \in Ends, NEW m \in Messages, ReadsMessage(s, e, m)
      PROVE  /\ InLine[StreamTo(e)] # <<>> /\ Head(InLine[StreamTo(e)]) = m
             /\ Tail(InLine[StreamTo(e)]) = stream'[e]
             /\ \A f \in Ends : f = e \/ stream'[f] = stream[f]
  <2>1. /\ stream[e] # <<>> /\ m = Head(stream[e])
        /\ stream' = [stream EXCEPT ![e] = Tail(stream[e])]
    BY <1>3 DEF ReadsMessage
  <2>2. InLine[StreamTo(e)] = stream[e]
    BY LineFacts
  <2>. QED  BY <2>1, <2>2 DEF LinesOK
<1>. QED  BY <1>2, <1>3

\* What a step does to the lines.
LinesMove(s, L, K) ==
    \/ \E m \in Messages : SendsMessage(s, m) /\ Grows(JobsOf(s), m, L, K)
    \/ \E job \in Jobs :
        \/ /\ WritesMessage(s, job)
           /\ \E e \in Ends : Moves(JobsOf(s), StreamTo(e), L, K)
        \/ DropsMessage(s, job) /\ Shrinks(JobsOf(s), L, K)
        \/ HandsOver(s, job) /\ Moves(JobsOf(s), ReceivedBy(s), L, K)
        \/ PutsBackAgain(s, job) /\ GoesBehind(JobsOf(s), L, K)
    \/ \E e \in Ends, m \in Messages :
        \/ ReadsOver(s, e, m) /\ Moves(StreamTo(e), ReceivedBy(s), L, K)
        \/ PutsBack(s, e, m) /\ Moves(StreamTo(e), JobsOf(s), L, K)
        \/ SwallowsMessage(s, e, m) /\ Shrinks(StreamTo(e), L, K)
    \/ ClearsStreams(s) /\ Clears(L, K)
    \/ MovesNothing /\ K = L

LEMMA LinesMoveInSteps ==
    ASSUME TypeOK, LinesOK', NEW s \in Sockets, ProgramCalls(s) \/ ServiceThread(s),
           NEW L \in [Lines -> Seq(Messages)], NEW K \in [Lines -> Seq(Messages)],
           L = InLine, K = InLine'
    PROVE  LinesMove(s, L, K)
<1>1. LinesOK
  BY PartsOfType
<1>4. /\ \A t \in Sockets : L[JobsOf(t)] = MessagesOf(jobs[t]) /\ L[ReceivedBy(t)] = received[t]
      /\ \A e \in Ends : L[StreamTo(e)] = stream[e]
  BY <1>1, LineFacts
<1>5. /\ \A t \in Sockets : K[JobsOf(t)] = MessagesOf(jobs'[t]) /\ K[ReceivedBy(t)] = received'[t]
      /\ \A e \in Ends : K[StreamTo(e)] = stream'[e]
  BY LineFactsNext
<1>8. ASSUME NEW A \in SUBSET Lines,
             \A t \in Sockets : JobsOf(t) \in A \/ jobs'[t] = jobs[t],
             \A t \in Sockets : ReceivedBy(t) \in A \/ received'[t] = received[t],
             \A e \in Ends : StreamTo(e) \in A \/ stream'[e] = stream[e]
      PROVE  Only(A, L, K)
  <2>1. ASSUME NEW l \in Lines \ A
        PROVE  K[l] = L[l]
    <3>1. CASE \E t \in Sockets : l = JobsOf(t)
      BY <1>4, <1>5, <1>8, <3>1
    <3>2. CASE \E t \in Sockets : l = ReceivedBy(t)
      BY <1>4, <1>5, <1>8, <3>2
    <3>3. CASE \E e \in Ends : l = StreamTo(e)
      BY <1>4, <1>5, <1>8, <3>3
    <3>. QED  BY <3>1, <3>2, <3>3, LineNames
  <2>. QED  BY <2>1 DEF Only
<1>9. ASSUME NEW job \in Jobs, Takes(s, job)
      PROVE  /\ L[JobsOf(s)] # <<>> /\ Head(L[JobsOf(s)]) = job.message
             /\ Tail(L[JobsOf(s)]) = MessagesOf(Tail(jobs[s]))
             /\ job.message \in Messages /\ Tail(jobs[s]) \in Seq(Jobs)
  BY <1>1, <1>9, Heads
<1>. JobsOf(s) \in Lines /\ ReceivedBy(s) \in Lines /\ JobsOf(s) # ReceivedBy(s)
  BY LineNames
<1>10. ASSUME NEW m \in Messages, SendsMessage(s, m)
       PROVE  LinesMove(s, L, K)
  <2>1. /\ jobs' = [jobs EXCEPT ![s] = Append(jobs[s], WriteJob(m))]
        /\ m.number = sends + 1 /\ sends' = sends + 1 /\ UNCHANGED <<stream, received>>
    BY <1>10 DEF SendsMessage
  <2>2. WriteJob(m) \in Jobs /\ WriteJob(m).message = m /\ jobs[s] \in Seq(Jobs)
    BY <1>1, JobsFacts DEF LinesOK
  <2>3. MessagesOf(Append(jobs[s], WriteJob(m))) = Append(MessagesOf(jobs[s]), m)
    BY <2>2, MessagesOfJobs
  <2>4. K[JobsOf(s)] = Append(L[JobsOf(s)], m)
    BY <1>1, <1>4, <1>5, <2>1, <2>3 DEF LinesOK
  <2>5. \A t \in Sockets : t = s \/ jobs'[t] = jobs[t]
    BY <1>1, <2>1 DEF LinesOK
  <2>6. Grows(JobsOf(s), m, L, K)
    BY <1>8, <2>1, <2>4, <2>5 DEF Grows
  <2>. QED  BY <1>10, <2>6 DEF LinesMove
<1>11. ASSUME NEW job \in Jobs, WritesMessage(s, job)
       PROVE  LinesMove(s, L, K)
  <2>1. PICK e \in Ends : e = Opposite(job.message.over)
    BY <1>1, <1>11, JobTaken, EndsFacts DEF WritesMessage
  <2>2. /\ jobs' = [jobs EXCEPT ![s] = Tail(jobs[s])] /\ Takes(s, job)
        /\ stream' = [stream EXCEPT ![e] = Append(stream[e], job.message)]
        /\ UNCHANGED <<sends, received>>
    BY <1>11, <2>1 DEF WritesMessage
  <2>3. StreamTo(e) \in Lines /\ JobsOf(s) # StreamTo(e)
    BY LineNames
  <2>4. L[JobsOf(s)] # <<>> /\ K[JobsOf(s)] = Tail(L[JobsOf(s)])
    BY <1>1, <1>5, <1>9, <2>2 DEF LinesOK
  <2>5. K[StreamTo(e)] = Append(L[StreamTo(e)], Head(L[JobsOf(s)]))
    <3>1. stream'[e] = Append(stream[e], job.message)
      BY <1>1, <2>2 DEF LinesOK
    <3>2. K[StreamTo(e)] = stream'[e] /\ L[StreamTo(e)] = stream[e]
      BY <1>4, <1>5
    <3>3. Head(L[JobsOf(s)]) = job.message
      BY <1>9, <2>2
    <3>. QED  BY <3>1, <3>2, <3>3
  <2>6. /\ \A t \in Sockets : t = s \/ jobs'[t] = jobs[t]
        /\ \A f \in Ends : f = e \/ stream'[f] = stream[f]
    BY <1>1, <2>2 DEF LinesOK
  <2>7. Only({JobsOf(s), StreamTo(e)}, L, K)
    BY <1>8, <2>2, <2>3, <2>6
  <2>8. Moves(JobsOf(s), StreamTo(e), L, K)
    BY <2>3, <2>4, <2>5, <2>7 DEF Moves
  <2>. QED  BY <1>11, <2>8 DEF LinesMove
<1>12. ASSUME NEW job \in Jobs, DropsMessage(s, job)
       PROVE  LinesMove(s, L, K)
  <2>1. /\ jobs' = [jobs EXCEPT ![s] = Tail(jobs[s])] /\ Takes(s, job)
        /\ UNCHANGED <<stream, sends, received>>
    BY <1>12 DEF DropsMessage
  <2>2. L[JobsOf(s)] # <<>> /\ K[JobsOf(s)] = Tail(L[JobsOf(s)])
    BY <1>1, <1>5, <1>9, <2>1 DEF LinesOK
  <2>3. \A t \in Sockets : t = s \/ jobs'[t] = jobs[t]
    BY <1>1, <2>1 DEF LinesOK
  <2>4. Shrinks(JobsOf(s), L, K)
    BY <1>8, <2>1, <2>2, <2>3 DEF Shrinks
  <2>. QED  BY <1>12, <2>4 DEF LinesMove
<1>13. ASSUME NEW job \in Jobs, HandsOver(s, job)
       PROVE  LinesMove(s, L, K)
  <2>1. /\ jobs' = [jobs EXCEPT ![s] = Tail(jobs[s])] /\ Takes(s, job)
        /\ received' = [received EXCEPT ![s] = Append(received[s], job.message)]
        /\ UNCHANGED <<stream, sends>>
    BY <1>13 DEF HandsOver
  <2>2. L[JobsOf(s)] # <<>> /\ K[JobsOf(s)] = Tail(L[JobsOf(s)])
    BY <1>1, <1>5, <1>9, <2>1 DEF LinesOK
  <2>3. K[ReceivedBy(s)] = Append(L[ReceivedBy(s)], Head(L[JobsOf(s)]))
    <3>1. received'[s] = Append(received[s], job.message)
      BY <1>1, <2>1 DEF LinesOK
    <3>2. K[ReceivedBy(s)] = received'[s] /\ L[ReceivedBy(s)] = received[s]
      BY <1>4, <1>5
    <3>3. Head(L[JobsOf(s)]) = job.message
      BY <1>9, <2>1
    <3>. QED  BY <3>1, <3>2, <3>3
  <2>4. \A t \in Sockets : t = s \/ (jobs'[t] = jobs[t] /\ received'[t] = received[t])
    BY <1>1, <2>1 DEF LinesOK
  <2>5. Only({JobsOf(s), ReceivedBy(s)}, L, K)
    BY <1>8, <2>1, <2>4
  <2>6. Moves(JobsOf(s), ReceivedBy(s), L, K)
    BY <2>2, <2>3, <2>5 DEF Moves
  <2>. QED  BY <1>13, <2>6 DEF LinesMove
<1>14. ASSUME NEW job \in Jobs, PutsBackAgain(s, job)
       PROVE  LinesMove(s, L, K)
  <2>1. /\ jobs' = [jobs EXCEPT ![s] = Append(Tail(jobs[s]), HandleJob(job.message))]
        /\ Takes(s, job) /\ UNCHANGED <<stream, sends, received>>
    BY <1>14 DEF PutsBackAgain
  <2>2. /\ Tail(jobs[s]) \in Seq(Jobs) /\ HandleJob(job.message) \in Jobs
        /\ HandleJob(job.message).message = job.message
    BY <1>9, <2>1, JobsFacts
  <2>3. MessagesOf(Append(Tail(jobs[s]), HandleJob(job.message)))
            = Append(MessagesOf(Tail(jobs[s])), job.message)
    BY <2>2, MessagesOfJobs
  <2>4. K[JobsOf(s)] = Append(Tail(L[JobsOf(s)]), Head(L[JobsOf(s)]))
    BY <1>1, <1>5, <1>9, <2>1, <2>3 DEF LinesOK
  <2>5. \A t \in Sockets : t = s \/ jobs'[t] = jobs[t]
    BY <1>1, <2>1 DEF LinesOK
  <2>6. Only({JobsOf(s)}, L, K)
    BY <1>8, <2>1, <2>5
  <2>7. GoesBehind(JobsOf(s), L, K)
    BY <1>9, <2>1, <2>4, <2>6 DEF GoesBehind
  <2>. QED  BY <1>14, <2>7 DEF LinesMove
<1>15. ASSUME NEW e \in Ends, NEW m \in Messages, ReadsMessage(s, e, m)
       PROVE  /\ StreamTo(e) \in Lines /\ JobsOf(s) # StreamTo(e) /\ ReceivedBy(s) # StreamTo(e)
              /\ L[StreamTo(e)] # <<>> /\ Head(L[StreamTo(e)]) = m
              /\ K[StreamTo(e)] = Tail(L[StreamTo(e)])
              /\ \A f \in Ends : f = e \/ stream'[f] = stream[f]
  <2>1. /\ L[StreamTo(e)] # <<>> /\ Head(L[StreamTo(e)]) = m
        /\ Tail(L[StreamTo(e)]) = stream'[e]
        /\ \A f \in Ends : f = e \/ stream'[f] = stream[f]
    BY <1>1, <1>15, Heads
  <2>. QED  BY <1>5, <2>1, LineNames
<1>16. ASSUME NEW e \in Ends, NEW m \in Messages, ReadsOver(s, e, m)
       PROVE  LinesMove(s, L, K)
  <2>1. /\ received' = [received EXCEPT ![s] = Append(received[s], m)]
        /\ ReadsMessage(s, e, m) /\ UNCHANGED <<jobs, sends>>
    BY <1>16 DEF ReadsOver, ReadsMessage
  <2>2. K[ReceivedBy(s)] = Append(L[ReceivedBy(s)], Head(L[StreamTo(e)]))
    <3>1. received'[s] = Append(received[s], m)
      BY <1>1, <2>1 DEF LinesOK
    <3>2. K[ReceivedBy(s)] = received'[s] /\ L[ReceivedBy(s)] = received[s]
      BY <1>4, <1>5
    <3>3. Head(L[StreamTo(e)]) = m
      BY <1>15, <2>1
    <3>. QED  BY <3>1, <3>2, <3>3
  <2>3. \A t \in Sockets : t = s \/ received'[t] = received[t]
    BY <1>1, <2>1 DEF LinesOK
  <2>4. Only({StreamTo(e), ReceivedBy(s)}, L, K)
    BY <1>8, <1>15, <2>1, <2>3
  <2>5. Moves(StreamTo(e), ReceivedBy(s), L, K)
    BY <1>15, <2>1, <2>2, <2>4 DEF Moves
  <2>. QED  BY <1>16, <2>5 DEF LinesMove
<1>17. ASSUME NEW e \in Ends, NEW m \in Messages, PutsBack(s, e, m)
       PROVE  LinesMove(s, L, K)
  <2>1. /\ jobs' = [jobs EXCEPT ![s] = Append(jobs[s], HandleJob(m))]
        /\ ReadsMessage(s, e, m) /\ UNCHANGED <<received, sends>>
    BY <1>17 DEF PutsBack, ReadsMessage
  <2>2. HandleJob(m) \in Jobs /\ HandleJob(m).message = m /\ jobs[s] \in Seq(Jobs)
    BY <1>1, JobsFacts DEF LinesOK
  <2>3. MessagesOf(Append(jobs[s], HandleJob(m))) = Append(MessagesOf(jobs[s]), m)
    BY <2>2, MessagesOfJobs
  <2>4. K[JobsOf(s)] = Append(L[JobsOf(s)], Head(L[StreamTo(e)]))
    <3>1. jobs'[s] = Append(jobs[s], HandleJob(m))
      BY <1>1, <2>1 DEF LinesOK
    <3>2. K[JobsOf(s)] = MessagesOf(jobs'[s]) /\ L[JobsOf(s)] = MessagesOf(jobs[s])
      BY <1>4, <1>5
    <3>3. Head(L[StreamTo(e)]) = m
      BY <1>15, <2>1
    <3>. QED  BY <2>3, <3>1, <3>2, <3>3
  <2>5. \A t \in Sockets : t = s \/ jobs'[t] = jobs[t]
    BY <1>1, <2>1 DEF LinesOK
  <2>6. Only({StreamTo(e), JobsOf(s)}, L, K)
    BY <1>8, <1>15, <2>1, <2>5
  <2>7. Moves(StreamTo(e), JobsOf(s), L, K)
    BY <1>15, <2>1, <2>4, <2>6 DEF Moves
  <2>. QED  BY <1>17, <2>7 DEF LinesMove
<1>20. ASSUME NEW e \in Ends, NEW m \in Messages, SwallowsMessage(s, e, m)
       PROVE  LinesMove(s, L, K)
  <2>1. ReadsMessage(s, e, m) /\ UNCHANGED <<jobs, received>>
    BY <1>20 DEF SwallowsMessage
  <2>2. Only({StreamTo(e)}, L, K)
    BY <1>8, <1>15, <2>1
  <2>3. Shrinks(StreamTo(e), L, K)
    BY <1>15, <2>1, <2>2 DEF Shrinks
  <2>. QED  BY <1>20, <2>3 DEF LinesMove
<1>18. CASE ClearsStreams(s)
  <2>1. \A l \in Lines : K[l] = L[l] \/ K[l] = <<>>
    <3>1. /\ \A t \in Sockets : jobs'[t] = jobs[t] /\ received'[t] = received[t]
          /\ \A e \in Ends : stream'[e] = stream[e] \/ stream'[e] = <<>>
      BY <1>18 DEF ClearsStreams
    <3>2. ASSUME NEW l \in Lines
          PROVE  K[l] = L[l] \/ K[l] = <<>>
      <4>1. CASE \E t \in Sockets : l = JobsOf(t)
        <5>1. PICK t \in Sockets : l = JobsOf(t)
          BY <4>1
        <5>2. K[l] = MessagesOf(jobs'[t]) /\ L[l] = MessagesOf(jobs[t])
          BY <1>4, <1>5, <5>1
        <5>. QED  BY <3>1, <5>2
      <4>2. CASE \E t \in Sockets : l = ReceivedBy(t)
        <5>1. PICK t \in Sockets : l = ReceivedBy(t)
          BY <4>2
        <5>2. K[l] = received'[t] /\ L[l] = received[t]
          BY <1>4, <1>5, <5>1
        <5>. QED  BY <3>1, <5>2
      <4>3. CASE \E e \in Ends : l = StreamTo(e)
        <5>1. PICK e \in Ends : l = StreamTo(e)
          BY <4>3
        <5>2. K[l] = stream'[e] /\ L[l] = stream[e]
          BY <1>4, <1>5, <5>1
        <5>. QED  BY <3>1, <5>2
      <4>. QED  BY <4>1, <4>2, <4>3, LineNames
    <3>. QED  BY <3>2
  <2>. QED  BY <1>18, <2>1 DEF LinesMove, Clears
<1>19. CASE MovesNothing
  <2>1. K = L
    BY <1>19 DEF MovesNothing, InLine
  <2>. QED  BY <1>19, <2>1 DEF LinesMove
<1>. QED  BY <1>10, <1>11, <1>12, <1>13, <1>14, <1>16, <1>17, <1>18, <1>19, <1>20, Shapes

LEMMA KeptStep ==
    ASSUME TypeOK, LinesOK', Kept, NEW s \in Sockets, ProgramCalls(s) \/ ServiceThread(s)
    PROVE  Kept'
<1>1. LinesOK
  BY PartsOfType
<1>2. PICK L \in [Lines -> Seq(Messages)] : L = InLine
  BY <1>1, LineFacts
<1>3. PICK K \in [Lines -> Seq(Messages)] : K = InLine'
  BY LineFactsNext
<1>4. LinesMove(s, L, K)
  BY <1>2, <1>3, LinesMoveInSteps
<1>5. Once(L) /\ Numbers(L) \subseteq 1 .. sends /\ (Torn = {} => 1 .. sends \subseteq Numbers(L))
  BY <1>2 DEF Kept
<1>6. \A t \in Sockets : JobsOf(t) \in Lines /\ ReceivedBy(t) \in Lines
  BY LineNames
<1>7. \A e \in Ends : StreamTo(e) \in Lines
  BY LineNames
<1>8. ASSUME UNCHANGED sends, Torn \subseteq Torn', NEW a \in Lines, NEW b \in Lines,
             Moves(a, b, L, K) \/ GoesBehind(a, L, K)
      PROVE  Kept'
  <2>1. Once(K) /\ Numbers(K) = Numbers(L)
    BY <1>5, <1>8, MovesKeep
  <2>. QED  BY <1>3, <1>5, <1>8, <2>1 DEF Kept
<1>9. ASSUME NEW m \in Messages, SendsMessage(s, m), Grows(JobsOf(s), m, L, K)
      PROVE  Kept'
  <2>1. sends \in Nat /\ m.number = sends + 1 /\ sends' = sends + 1 /\ Torn' = Torn
    BY <1>1, <1>9 DEF SendsMessage, LinesOK
  <2>2. m.number \notin Numbers(L)
    BY <1>5, <2>1
  <2>3. Once(K) /\ Numbers(K) = Numbers(L) \cup {m.number}
    BY <1>5, <1>6, <1>9, <2>2, AddToLine
  <2>4. 1 .. sends' = (1 .. sends) \cup {m.number}
    BY <2>1
  <2>. QED  BY <1>3, <1>5, <2>1, <2>3, <2>4 DEF Kept
<1>10. ASSUME NEW job \in Jobs, DropsMessage(s, job), Shrinks(JobsOf(s), L, K)
       PROVE  Kept'
  <2>1. Torn' # {} /\ UNCHANGED sends
    BY <1>10 DEF DropsMessage
  <2>2. PICK m \in Messages : m = Head(L[JobsOf(s)])
    BY <1>6, <1>10, TailFacts DEF Shrinks
  <2>3. Once(K) /\ Numbers(L) = Numbers(K) \cup {m.number}
    BY <1>5, <1>6, <1>10, <2>2, TakeFromLine
  <2>. QED  BY <1>3, <1>5, <2>1, <2>3 DEF Kept
<1>11. CASE ClearsStreams(s) /\ Clears(L, K)
  <2>1. Torn' # {} /\ UNCHANGED sends
    BY <1>11 DEF ClearsStreams
  <2>2. Once(K) /\ Numbers(K) \subseteq Numbers(L)
    BY <1>5, <1>11, ClearLines
  <2>. QED  BY <1>3, <1>5, <2>1, <2>2 DEF Kept
<1>12. CASE MovesNothing /\ K = L
  BY <1>3, <1>5, <1>12 DEF MovesNothing, Kept
<1>14. CASE \E job \in Jobs :
            \/ WritesMessage(s, job) /\ \E e \in Ends : Moves(JobsOf(s), StreamTo(e), L, K)
            \/ HandsOver(s, job) /\ Moves(JobsOf(s), ReceivedBy(s), L, K)
            \/ PutsBackAgain(s, job) /\ GoesBehind(JobsOf(s), L, K)
  <2>1. UNCHANGED sends /\ Torn \subseteq Torn'
    BY <1>14 DEF WritesMessage, HandsOver, PutsBackAgain
  <2>. QED  BY <1>6, <1>7, <1>8, <1>14, <2>1
<1>15. CASE \E e \in Ends, m \in Messages :
            \/ ReadsOver(s, e, m) /\ Moves(StreamTo(e), ReceivedBy(s), L, K)
            \/ PutsBack(s, e, m) /\ Moves(StreamTo(e), JobsOf(s), L, K)
  <2>1. UNCHANGED sends /\ Torn \subseteq Torn'
    BY <1>15 DEF ReadsOver, PutsBack, ReadsMessage, WholeOrGarbled
  <2>. QED  BY <1>6, <1>7, <1>8, <1>15, <2>1
<1>16. ASSUME NEW e \in Ends, NEW m \in Messages, SwallowsMessage(s, e, m),
              Shrinks(StreamTo(e), L, K)
       PROVE  Kept'
  <2>1. Torn' # {} /\ UNCHANGED sends
    BY <1>16 DEF SwallowsMessage, ReadsMessage
  <2>2. PICK n \in Messages : n = Head(L[StreamTo(e)])
    BY <1>7, <1>16, TailFacts DEF Shrinks
  <2>3. Once(K) /\ Numbers(L) = Numbers(K) \cup {n.number}
    BY <1>5, <1>7, <1>16, <2>2, TakeFromLine
  <2>. QED  BY <1>3, <1>5, <2>1, <2>3 DEF Kept
<1>. QED  BY <1>4, <1>9, <1>10, <1>11, <1>12, <1>14, <1>15, <1>16 DEF LinesMove

-----------------------------------------------------------------------------
(* The order of a connection *)

\* Taking from the head of one of many lines, and adding at the end of one.
Loses(F, d, G) == F[d] # <<>> /\ G = [F EXCEPT ![d] = Tail(F[d])]
LEMMA TailIn ==
    ASSUME NEW D, NEW S, NEW F \in [D -> Seq(S)], NEW G, NEW d \in D, Loses(F, d, G),
           NEW x, In(G, x)
    PROVE  In(F, x)
<1>. F[d] # <<>> /\ G = [F EXCEPT ![d] = Tail(F[d])]
  BY DEF Loses
<1>1. PICK c \in D : \E i \in DOMAIN G[c] : G[c][i] = x
  BY DEF In
<1>2. F[d] \in Seq(S)
  OBVIOUS
<1>3. \A i \in DOMAIN Tail(F[d]) : i + 1 \in DOMAIN F[d] /\ Tail(F[d])[i] = F[d][i + 1]
  BY <1>2, TailFacts
<1>4. \E k \in DOMAIN F[c] : F[c][k] = x
  BY <1>1, <1>3
<1>. QED  BY <1>4 DEF In

Adds(F, d, y, G) == G = [F EXCEPT ![d] = Append(F[d], y)]
LEMMA AppendIn ==
    ASSUME NEW D, NEW S, NEW F \in [D -> Seq(S)], NEW G, NEW d \in D, NEW y \in S,
           Adds(F, d, y, G), NEW x, In(G, x)
    PROVE  In(F, x) \/ x = y
<1>. G = [F EXCEPT ![d] = Append(F[d], y)]
  BY DEF Adds
<1>1. PICK c \in D : \E i \in DOMAIN G[c] : G[c][i] = x
  BY DEF In
<1>2. F[d] \in Seq(S)
  OBVIOUS
<1>3. \A i \in DOMAIN Append(F[d], y) :
        Append(F[d], y)[i] = y \/ (i \in DOMAIN F[d] /\ Append(F[d], y)[i] = F[d][i])
  BY <1>2, AppendFacts
<1>4. x = y \/ \E k \in DOMAIN F[c] : F[c][k] = x
  BY <1>1, <1>3
<1>. QED  BY <1>4 DEF In

TakesAndAdds(F, d, y, G) == G = [F EXCEPT ![d] = Append(Tail(F[d]), y)]
LEMMA TailAppendIn ==
    ASSUME NEW D, NEW S, NEW F \in [D -> Seq(S)], NEW G, NEW d \in D, F[d] # <<>>, NEW y \in S,
           TakesAndAdds(F, d, y, G), NEW x, In(G, x)
    PROVE  In(F, x) \/ x = y
<1>. G = [F EXCEPT ![d] = Append(Tail(F[d]), y)]
  BY DEF TakesAndAdds
<1>1. F[d] \in Seq(S)
  OBVIOUS
<1>2. PICK H \in [D -> Seq(S)] : H = [F EXCEPT ![d] = Tail(F[d])]
  BY <1>1, TailFacts
<1>3. Adds(H, d, y, G)
  BY <1>2 DEF Adds
<1>4. In(H, x) \/ x = y
  BY <1>3, AppendIn
<1>5. In(H, x) => In(F, x)
  <2>1. Loses(F, d, H)
    BY <1>2 DEF Loses
  <2>. QED  BY <2>1, TailIn
<1>. QED  BY <1>4, <1>5

LEMMA TurnOfTail ==
    ASSUME NEW js \in Seq(Jobs), js # <<>>, WritesInTurn(js)
    PROVE  /\ WritesInTurn(Tail(js))
           /\ Head(js).run = "write" =>
                \A i \in DOMAIN Tail(js) : Tail(js)[i].run = "write" =>
                    Head(js).message.number < Tail(js)[i].message.number
<1>1. /\ Head(js) = js[1] /\ 1 \in DOMAIN js
      /\ \A i \in DOMAIN Tail(js) : i \in Nat /\ i + 1 \in DOMAIN js /\ Tail(js)[i] = js[i + 1]
  BY TailFacts
<1>2. \A i \in DOMAIN Tail(js) : i \in Nat /\ i # 0
  BY TailFacts, LenProperties
<1>3. ASSUME NEW i \in DOMAIN Tail(js), NEW j \in DOMAIN Tail(js), i < j,
             Tail(js)[i].run = "write", Tail(js)[j].run = "write"
      PROVE  Tail(js)[i].message.number < Tail(js)[j].message.number
  <2>1. i + 1 < j + 1
    BY <1>2, <1>3
  <2>2. js[i + 1].run = "write" /\ js[j + 1].run = "write"
    BY <1>1, <1>3
  <2>3. js[i + 1].message.number < js[j + 1].message.number
    BY <1>1, <2>1, <2>2 DEF WritesInTurn
  <2>. QED  BY <1>1, <2>3
<1>4. ASSUME NEW i \in DOMAIN Tail(js), Head(js).run = "write", Tail(js)[i].run = "write"
      PROVE  Head(js).message.number < Tail(js)[i].message.number
  <2>1. 1 < i + 1
    BY <1>2
  <2>2. js[1].message.number < js[i + 1].message.number
    BY <1>1, <1>4, <2>1 DEF WritesInTurn
  <2>. QED  BY <1>1, <2>2
<1>. QED  BY <1>3, <1>4 DEF WritesInTurn

LEMMA TurnOfAppend ==
    ASSUME NEW js \in Seq(Jobs), WritesInTurn(js), NEW job \in Jobs,
           job.run = "write" => \A i \in DOMAIN js : js[i].run = "write" =>
                                    js[i].message.number < job.message.number
    PROVE  WritesInTurn(Append(js, job))
<1>. DEFINE last == Len(js) + 1
<1>1. /\ Append(js, job)[last] = job
      /\ \A i \in DOMAIN js : Append(js, job)[i] = js[i] /\ i < last
      /\ \A i \in DOMAIN Append(js, job) : i \in DOMAIN js \/ i = last
      /\ last \in Nat /\ \A i \in DOMAIN js : i \in Nat
  BY AppendFacts, LenProperties
<1>. HIDE DEF last
<1>2. ASSUME NEW i \in DOMAIN Append(js, job), NEW j \in DOMAIN Append(js, job), i < j,
             Append(js, job)[i].run = "write", Append(js, job)[j].run = "write"
      PROVE  Append(js, job)[i].message.number < Append(js, job)[j].message.number
  <2>1. i \in DOMAIN js
    BY <1>1, <1>2
  <2>2. CASE j \in DOMAIN js
    BY <1>1, <1>2, <2>1, <2>2 DEF WritesInTurn
  <2>3. CASE j = last
    BY <1>1, <1>2, <2>1, <2>3
  <2>. QED  BY <1>1, <2>2, <2>3
<1>. QED  BY <1>2 DEF WritesInTurn

LEMMA StreamOfTail ==
    ASSUME NEW q \in Seq(Messages), q # <<>>, StreamInTurn(q)
    PROVE  /\ StreamInTurn(Tail(q))
           /\ \A i \in DOMAIN Tail(q) : Head(q).number < Tail(q)[i].number
<1>1. /\ Head(q) = q[1] /\ 1 \in DOMAIN q
      /\ \A i \in DOMAIN Tail(q) : i \in Nat /\ i + 1 \in DOMAIN q /\ Tail(q)[i] = q[i + 1]
  BY TailFacts
<1>2. \A i \in DOMAIN Tail(q) : i \in Nat /\ i # 0
  BY TailFacts, LenProperties
<1>3. ASSUME NEW i \in DOMAIN Tail(q), NEW j \in DOMAIN Tail(q), i < j
      PROVE  Tail(q)[i].number < Tail(q)[j].number
  <2>1. i + 1 < j + 1
    BY <1>2, <1>3
  <2>2. q[i + 1].number < q[j + 1].number
    BY <1>1, <2>1 DEF StreamInTurn
  <2>. QED  BY <1>1, <2>2
<1>4. ASSUME NEW i \in DOMAIN Tail(q)
      PROVE  Head(q).number < Tail(q)[i].number
  <2>1. 1 < i + 1
    BY <1>2
  <2>2. q[1].number < q[i + 1].number
    BY <1>1, <2>1 DEF StreamInTurn
  <2>. QED  BY <1>1, <2>2
<1>. QED  BY <1>3, <1>4 DEF StreamInTurn

LEMMA StreamOfAppend ==
    ASSUME NEW q \in Seq(Messages), StreamInTurn(q), NEW m \in Messages,
           \A i \in DOMAIN q : q[i].number < m.number
    PROVE  StreamInTurn(Append(q, m))
<1>. DEFINE last == Len(q) + 1
<1>1. /\ Append(q, m)[last] = m
      /\ \A i \in DOMAIN q : Append(q, m)[i] = q[i] /\ i < last
      /\ \A i \in DOMAIN Append(q, m) : i \in DOMAIN q \/ i = last
      /\ last \in Nat /\ \A i \in DOMAIN q : i \in Nat
  BY AppendFacts, LenProperties
<1>. HIDE DEF last
<1>2. ASSUME NEW i \in DOMAIN Append(q, m), NEW j \in DOMAIN Append(q, m), i < j
      PROVE  Append(q, m)[i].number < Append(q, m)[j].number
  <2>1. i \in DOMAIN q
    BY <1>1, <1>2
  <2>2. CASE j \in DOMAIN q
    BY <1>1, <1>2, <2>1, <2>2 DEF StreamInTurn
  <2>3. CASE j = last
    BY <1>1, <1>2, <2>1, <2>3
  <2>. QED  BY <1>1, <2>2, <2>3
<1>. QED  BY <1>2 DEF StreamInTurn

\* What the parts of the invariant say of the messages of a stage.
LEMMA StageFacts ==
    ASSUME LinesOK
    PROVE  /\ \A t \in Sockets : \A i \in DOMAIN jobs[t] :
                /\ jobs[t][i] \in Jobs /\ jobs[t][i].message \in Messages
                /\ jobs[t][i].run = "write" => jobs[t][i].message \in Writing
                /\ jobs[t][i].run = "handle" => jobs[t][i].message \in Arrivals
           /\ \A e \in Ends : \A i \in DOMAIN stream[e] : stream[e][i] \in Flowing
           /\ \A t \in Sockets : \A i \in DOMAIN received[t] : received[t][i] \in Arrivals
<1>1. ASSUME NEW t \in Sockets, NEW i \in DOMAIN jobs[t]
      PROVE  /\ jobs[t][i] \in Jobs /\ jobs[t][i].message \in Messages
             /\ jobs[t][i].run = "write" => jobs[t][i].message \in Writing
             /\ jobs[t][i].run = "handle" => jobs[t][i].message \in Arrivals
  <2>1. jobs[t][i] \in Jobs /\ In(jobs, jobs[t][i])
    BY ElementOfSeq, LenProperties DEF LinesOK, In
  <2>2. PICK job \in Jobs : job = jobs[t][i]
    BY <2>1
  <2>3. job.message \in Messages
    BY MessageOfJob
  <2>4. /\ job.run = "write" => job = WriteJob(job.message)
        /\ job.run = "handle" => job = HandleJob(job.message)
    BY DEF Jobs, WriteJob, HandleJob
  <2>. QED  BY <2>1, <2>2, <2>3, <2>4 DEF Writing, Arrivals
<1>2. ASSUME NEW e \in Ends, NEW i \in DOMAIN stream[e]
      PROVE  stream[e][i] \in Flowing
  <2>1. stream[e][i] \in Messages
    BY ElementOfSeq, LenProperties DEF LinesOK
  <2>2. In(stream, stream[e][i])
    BY DEF In, LinesOK
  <2>. QED  BY <2>1, <2>2 DEF Flowing
<1>3. ASSUME NEW t \in Sockets, NEW i \in DOMAIN received[t]
      PROVE  received[t][i] \in Arrivals
  <2>1. received[t][i] \in Messages
    BY ElementOfSeq, LenProperties DEF LinesOK
  <2>2. In(received, received[t][i])
    BY DEF In, LinesOK
  <2>. QED  BY <2>1, <2>2 DEF Arrivals
<1>. QED  BY <1>1, <1>2, <1>3

\* Where the messages of a stage are.
LEMMA StagePlaces ==
    ASSUME LinesOK
    PROVE  /\ \A m \in Writing : m \in Messages /\
                \E t \in Sockets : \E i \in DOMAIN jobs[t] :
                    jobs[t][i].run = "write" /\ jobs[t][i].message = m
           /\ \A m \in Flowing : m \in Messages /\
                \E e \in Ends : \E i \in DOMAIN stream[e] : stream[e][i] = m
           /\ \A m \in Arrivals : m \in Messages /\
                \E t \in Sockets :
                    \/ \E i \in DOMAIN jobs[t] : jobs[t][i].message = m
                    \/ \E i \in DOMAIN received[t] : received[t][i] = m
<1>1. DOMAIN jobs = Sockets /\ DOMAIN stream = Ends /\ DOMAIN received = Sockets
  BY DEF LinesOK
<1>2. ASSUME NEW m \in Writing
      PROVE  m \in Messages /\ \E t \in Sockets : \E i \in DOMAIN jobs[t] :
                                  jobs[t][i].run = "write" /\ jobs[t][i].message = m
  <2>1. m \in Messages /\ In(jobs, WriteJob(m))
    BY DEF Writing
  <2>2. PICK t \in Sockets : \E i \in DOMAIN jobs[t] : jobs[t][i] = WriteJob(m)
    BY <1>1, <2>1 DEF In
  <2>. QED  BY <2>1, <2>2, JobsFacts
<1>3. ASSUME NEW m \in Flowing
      PROVE  m \in Messages /\ \E e \in Ends : \E i \in DOMAIN stream[e] : stream[e][i] = m
  BY <1>1 DEF Flowing, In
<1>4. ASSUME NEW m \in Arrivals
      PROVE  m \in Messages /\ \E t \in Sockets : \/ \E i \in DOMAIN jobs[t] : jobs[t][i].message = m
                                                  \/ \E i \in DOMAIN received[t] : received[t][i] = m
  <2>1. CASE In(received, m)
    BY <1>1, <2>1 DEF Arrivals, In
  <2>2. CASE In(jobs, HandleJob(m))
    <3>1. m \in Messages
      BY DEF Arrivals
    <3>2. PICK t \in Sockets : \E i \in DOMAIN jobs[t] : jobs[t][i] = HandleJob(m)
      BY <1>1, <2>2 DEF In
    <3>. QED  BY <3>1, <3>2, JobsFacts
  <2>. QED  BY <2>1, <2>2 DEF Arrivals
<1>. QED  BY <1>2, <1>3, <1>4

LEMMA StagePlacesNext ==
    LinesOK' =>
        (/\ \A m \in Writing : \E t \in Sockets : \E i \in DOMAIN jobs[t] :
                jobs[t][i].run = "write" /\ jobs[t][i].message = m
         /\ \A m \in Flowing : \E e \in Ends : \E i \in DOMAIN stream[e] : stream[e][i] = m)'
<1>1. LinesOK =>
        (/\ \A m \in Writing : \E t \in Sockets : \E i \in DOMAIN jobs[t] :
                jobs[t][i].run = "write" /\ jobs[t][i].message = m
         /\ \A m \in Flowing : \E e \in Ends : \E i \in DOMAIN stream[e] : stream[e][i] = m)
  BY StagePlaces
<1>. QED  BY <1>1, PTL

\* The messages of all stages have been sent.
LEMMA StagesSent ==
    ASSUME LinesOK, Kept, NEW m \in Writing \cup Flowing \cup Arrivals
    PROVE  m.number \in 1 .. sends
<1>1. m \in Messages
  BY StagePlaces
<1>2. m.number \in Nat
  BY <1>1, JobsFacts
<1>3. PICK L : L = InLine
  OBVIOUS
<1>4. \E l \in Lines : \E i \in DOMAIN L[l] : L[l][i] = m
  <2>1. ASSUME NEW t \in Sockets, NEW i \in DOMAIN jobs[t], jobs[t][i].message = m
        PROVE  \E l \in Lines : \E k \in DOMAIN L[l] : L[l][k] = m
    <3>1. L[JobsOf(t)] = MessagesOf(jobs[t]) /\ JobsOf(t) \in Lines
      BY <1>3, LineFacts, LineNames
    <3>2. i \in DOMAIN MessagesOf(jobs[t]) /\ MessagesOf(jobs[t])[i] = m
      BY <2>1 DEF MessagesOf
    <3>. QED  BY <3>1, <3>2
  <2>2. ASSUME NEW t \in Sockets, NEW i \in DOMAIN received[t], received[t][i] = m
        PROVE  \E l \in Lines : \E k \in DOMAIN L[l] : L[l][k] = m
    BY <1>3, <2>2, LineFacts, LineNames
  <2>3. ASSUME NEW e \in Ends, NEW i \in DOMAIN stream[e], stream[e][i] = m
        PROVE  \E l \in Lines : \E k \in DOMAIN L[l] : L[l][k] = m
    BY <1>3, <2>3, LineFacts, LineNames
  <2>. QED  BY <2>1, <2>2, <2>3, StagePlaces
<1>5. Holds(L, m.number)
  BY <1>4 DEF Holds
<1>. QED  BY <1>2, <1>3, <1>5 DEF Kept, Numbers

\* A stage may lose messages and gain one.
LEMMA EarlierWith ==
    ASSUME NEW A, NEW B, Earlier(A, B), NEW m, NEW C, NEW D,
           \/ C \subseteq A /\ D \subseteq B
           \/ C \subseteq A \cup {m} /\ D \subseteq B /\ Earlier({m}, D)
           \/ C \subseteq A /\ D \subseteq B \cup {m} /\ Earlier(C, {m})
    PROVE  Earlier(C, D)
  BY DEF Earlier

\* What the stages gain.
LEMMA StagesStep ==
    ASSUME LinesOK, NEW s \in Sockets
    PROVE  /\ \A m \in Messages : SendsMessage(s, m) =>
                /\ Writing' \subseteq Writing \cup {m}
                /\ Flowing' \subseteq Flowing /\ Arrivals' \subseteq Arrivals
           /\ \A job \in Jobs : WritesMessage(s, job) =>
                /\ Writing' \subseteq Writing /\ Flowing' \subseteq Flowing \cup {job.message}
                /\ Arrivals' \subseteq Arrivals
           /\ \A job \in Jobs :
                DropsMessage(s, job) \/ HandsOver(s, job) \/ PutsBackAgain(s, job) =>
                /\ Writing' \subseteq Writing /\ Flowing' \subseteq Flowing
                /\ Arrivals' \subseteq Arrivals
           /\ \A e \in Ends, m \in Messages : ReadsOver(s, e, m) \/ PutsBack(s, e, m) =>
                /\ Writing' \subseteq Writing /\ Flowing' \subseteq Flowing
                /\ Arrivals' \subseteq Arrivals \cup {m}
           /\ \A e \in Ends, m \in Messages : SwallowsMessage(s, e, m) =>
                /\ Writing' \subseteq Writing /\ Flowing' \subseteq Flowing
                /\ Arrivals' \subseteq Arrivals
           /\ ClearsStreams(s) \/ MovesNothing =>
                /\ Writing' \subseteq Writing /\ Flowing' \subseteq Flowing
                /\ Arrivals' \subseteq Arrivals
<1>1. /\ jobs \in [Sockets -> Seq(Jobs)] /\ stream \in [Ends -> Seq(Messages)]
      /\ received \in [Sockets -> Seq(Messages)]
  BY DEF LinesOK
<1>2. ASSUME jobs[s] # <<>>, jobs' = [jobs EXCEPT ![s] = Tail(jobs[s])], NEW x, In(jobs', x)
      PROVE  In(jobs, x)
  <2>1. Loses(jobs, s, jobs')
    BY <1>2 DEF Loses
  <2>2. jobs \in [Sockets -> Seq(Jobs)] /\ In(jobs', x)
    BY <1>1, <1>2
  <2>. QED  BY <2>1, <2>2, TailIn
<1>3. ASSUME NEW job \in Jobs, jobs' = [jobs EXCEPT ![s] = Append(jobs[s], job)],
             NEW x, In(jobs', x)
      PROVE  In(jobs, x) \/ x = job
  <2>1. Adds(jobs, s, job, jobs')
    BY <1>3 DEF Adds
  <2>. QED  BY <1>1, <1>3, <2>1, AppendIn
<1>4. ASSUME UNCHANGED jobs
      PROVE  \A x : In(jobs', x) => In(jobs, x)
  BY <1>4 DEF In
<1>5. ASSUME UNCHANGED stream
      PROVE  \A x : In(stream', x) => In(stream, x)
  BY <1>5 DEF In
<1>6. ASSUME UNCHANGED received
      PROVE  \A x : In(received', x) => In(received, x)
  BY <1>6 DEF In
<1>7. ASSUME NEW m \in Messages, received' = [received EXCEPT ![s] = Append(received[s], m)],
             NEW x, In(received', x)
      PROVE  In(received, x) \/ x = m
  <2>1. Adds(received, s, m, received')
    BY <1>7 DEF Adds
  <2>2. received \in [Sockets -> Seq(Messages)] /\ In(received', x)
    BY <1>1, <1>7
  <2>. QED  BY <2>1, <2>2, AppendIn
<1>8. ASSUME NEW job \in Jobs, Takes(s, job)
      PROVE  /\ jobs[s] # <<>> /\ job.message \in Messages
             /\ job.run = "write" => job = WriteJob(job.message)
             /\ job.run = "handle" => job = HandleJob(job.message) /\ job.message \in Arrivals
  <2>1. jobs[s] # <<>> /\ 1 \in DOMAIN jobs[s] /\ job = jobs[s][1] /\ job.message \in Messages
    <3>1. jobs[s] \in Seq(Jobs)
      BY <1>1
    <3>. QED  BY <1>8, <3>1, TailFacts, MessageOfJob DEF Takes
  <2>2. /\ job.run = "write" => job = WriteJob(job.message)
        /\ job.run = "handle" => job = HandleJob(job.message)
    BY DEF Jobs, WriteJob, HandleJob
  <2>. QED  BY <2>1, <2>2, StageFacts
<1>9. ASSUME NEW m \in Messages, NEW n \in Messages
      PROVE  WriteJob(m) # HandleJob(n) /\ (WriteJob(m) = WriteJob(n) => m = n)
             /\ (HandleJob(m) = HandleJob(n) => m = n)
  BY JobsFacts
<1>10. ASSUME NEW m \in Messages, SendsMessage(s, m)
       PROVE  /\ Writing' \subseteq Writing \cup {m}
              /\ Flowing' \subseteq Flowing /\ Arrivals' \subseteq Arrivals
  <2>1. /\ jobs' = [jobs EXCEPT ![s] = Append(jobs[s], WriteJob(m))] /\ WriteJob(m) \in Jobs
        /\ UNCHANGED <<stream, received>>
    BY <1>10, JobsFacts DEF SendsMessage
  <2>2. \A x : In(jobs', x) => In(jobs, x) \/ x = WriteJob(m)
    BY <1>3, <2>1
  <2>. QED  BY <1>5, <1>6, <1>9, <2>1, <2>2 DEF Writing, Flowing, Arrivals
<1>11. ASSUME NEW job \in Jobs, WritesMessage(s, job)
       PROVE  /\ Writing' \subseteq Writing /\ Flowing' \subseteq Flowing \cup {job.message}
              /\ Arrivals' \subseteq Arrivals
  <2>1. /\ Takes(s, job) /\ jobs' = [jobs EXCEPT ![s] = Tail(jobs[s])]
        /\ stream' = [stream EXCEPT ![Opposite(job.message.over)] =
                        Append(stream[Opposite(job.message.over)], job.message)]
        /\ UNCHANGED received
    BY <1>11 DEF WritesMessage
  <2>2. job.message \in Messages /\ job.message.over \in Ends
    BY <1>8, <2>1, JobsFacts
  <2>3. PICK e \in Ends : e = Opposite(job.message.over)
    BY <2>2, EndsFacts
  <2>4. \A x : In(stream', x) => In(stream, x) \/ x = job.message
    <3>1. Adds(stream, e, job.message, stream')
      BY <2>1, <2>3 DEF Adds
    <3>2. PICK m \in Messages : m = job.message
      BY <2>2
    <3>3. stream \in [Ends -> Seq(Messages)] /\ Adds(stream, e, m, stream')
      BY <1>1, <3>1, <3>2
    <3>4. \A x : In(stream', x) => In(stream, x) \/ x = m
      BY <3>3, AppendIn
    <3>. QED  BY <3>2, <3>4
  <2>5. \A x : In(jobs', x) => In(jobs, x)
    BY <1>2, <1>8, <2>1
  <2>. QED  BY <1>6, <2>1, <2>4, <2>5 DEF Writing, Flowing, Arrivals
<1>12. ASSUME NEW job \in Jobs, DropsMessage(s, job)
       PROVE  /\ Writing' \subseteq Writing /\ Flowing' \subseteq Flowing
              /\ Arrivals' \subseteq Arrivals
  <2>1. \A x : In(jobs', x) => In(jobs, x)
    BY <1>2, <1>8, <1>12 DEF DropsMessage
  <2>. QED  BY <1>5, <1>6, <1>12, <2>1 DEF DropsMessage, Writing, Flowing, Arrivals
<1>13. ASSUME NEW job \in Jobs, HandsOver(s, job)
       PROVE  /\ Writing' \subseteq Writing /\ Flowing' \subseteq Flowing
              /\ Arrivals' \subseteq Arrivals
  <2>1. Takes(s, job) /\ job.run = "handle" /\ UNCHANGED stream
    BY <1>13 DEF HandsOver
  <2>2. \A x : In(jobs', x) => In(jobs, x)
    BY <1>2, <1>8, <1>13 DEF HandsOver
  <2>3. \A x : In(received', x) => In(received, x) \/ x = job.message
    BY <1>7, <1>8, <1>13 DEF HandsOver
  <2>4. job.message \in Arrivals
    BY <1>8, <2>1
  <2>. QED  BY <1>5, <2>1, <2>2, <2>3, <2>4 DEF Writing, Flowing, Arrivals
<1>14. ASSUME NEW job \in Jobs, PutsBackAgain(s, job)
       PROVE  /\ Writing' \subseteq Writing /\ Flowing' \subseteq Flowing
              /\ Arrivals' \subseteq Arrivals
  <2>1. /\ Takes(s, job) /\ job.run = "handle" /\ UNCHANGED <<stream, received>>
        /\ jobs' = [jobs EXCEPT ![s] = Append(Tail(jobs[s]), HandleJob(job.message))]
    BY <1>14 DEF PutsBackAgain
  <2>2. job = HandleJob(job.message) /\ job.message \in Messages /\ job.message \in Arrivals
    BY <1>8, <2>1
  <2>3. jobs[s] # <<>> /\ TakesAndAdds(jobs, s, job, jobs')
    BY <1>8, <2>1, <2>2 DEF TakesAndAdds
  <2>4. \A x : In(jobs', x) => In(jobs, x) \/ x = job
    BY <1>1, <2>3, TailAppendIn
  <2>5. \A m \in Messages : HandleJob(m) = job => m = job.message
    BY <1>9, <2>2
  <2>6. \A m \in Messages : WriteJob(m) # job
    BY <1>9, <2>2
  <2>. QED  BY <1>5, <1>6, <2>1, <2>2, <2>4, <2>5, <2>6 DEF Writing, Flowing, Arrivals
<1>15. ASSUME NEW e \in Ends, NEW m \in Messages, ReadsMessage(s, e, m)
       PROVE  \A x : In(stream', x) => In(stream, x)
  <2>1. Loses(stream, e, stream')
    BY <1>15 DEF ReadsMessage, Loses
  <2>2. stream \in [Ends -> Seq(Messages)]
    BY <1>1
  <2>. QED  BY <2>1, <2>2, TailIn
<1>16. ASSUME NEW e \in Ends, NEW m \in Messages, ReadsOver(s, e, m)
       PROVE  /\ Writing' \subseteq Writing /\ Flowing' \subseteq Flowing
              /\ Arrivals' \subseteq Arrivals \cup {m}
  <2>1. ReadsMessage(s, e, m) /\ UNCHANGED jobs
    BY <1>16 DEF ReadsOver
  <2>2. \A x : In(received', x) => In(received, x) \/ x = m
    BY <1>7, <1>16 DEF ReadsOver
  <2>. QED  BY <1>4, <1>15, <2>1, <2>2 DEF Writing, Flowing, Arrivals
<1>17. ASSUME NEW e \in Ends, NEW m \in Messages, PutsBack(s, e, m)
       PROVE  /\ Writing' \subseteq Writing /\ Flowing' \subseteq Flowing
              /\ Arrivals' \subseteq Arrivals \cup {m}
  <2>1. /\ ReadsMessage(s, e, m) /\ UNCHANGED received
        /\ jobs' = [jobs EXCEPT ![s] = Append(jobs[s], HandleJob(m))] /\ HandleJob(m) \in Jobs
    BY <1>17, JobsFacts DEF PutsBack
  <2>2. \A x : In(jobs', x) => In(jobs, x) \/ x = HandleJob(m)
    BY <1>3, <2>1
  <2>. QED  BY <1>6, <1>9, <1>15, <2>1, <2>2 DEF Writing, Flowing, Arrivals
<1>20. ASSUME NEW e \in Ends, NEW m \in Messages, SwallowsMessage(s, e, m)
       PROVE  /\ Writing' \subseteq Writing /\ Flowing' \subseteq Flowing
              /\ Arrivals' \subseteq Arrivals
  <2>1. ReadsMessage(s, e, m) /\ UNCHANGED <<jobs, received>>
    BY <1>20 DEF SwallowsMessage
  <2>. QED  BY <1>4, <1>6, <1>15, <2>1 DEF Writing, Flowing, Arrivals
<1>18. ASSUME ClearsStreams(s)
       PROVE  /\ Writing' \subseteq Writing /\ Flowing' \subseteq Flowing
              /\ Arrivals' \subseteq Arrivals
  <2>1. \A x : In(stream', x) => In(stream, x)
    BY <1>1, <1>18, EmptySeq DEF ClearsStreams, In
  <2>. QED  BY <1>4, <1>6, <1>18, <2>1 DEF ClearsStreams, Writing, Flowing, Arrivals
<1>19. ASSUME MovesNothing
       PROVE  /\ Writing' \subseteq Writing /\ Flowing' \subseteq Flowing
              /\ Arrivals' \subseteq Arrivals
  BY <1>4, <1>5, <1>6, <1>19 DEF MovesNothing, Writing, Flowing, Arrivals
<1>. QED  BY <1>10, <1>11, <1>12, <1>13, <1>14, <1>16, <1>17, <1>18, <1>19, <1>20

LEMMA InTurnStep ==
    ASSUME TypeOK, LinesOK', Kept, InPlace, InPlace', InTurn,
           NEW s \in Sockets, ProgramCalls(s) \/ ServiceThread(s)
    PROVE  InTurn'
<1>1. LinesOK
  BY PartsOfType
<1>2. /\ Earlier(Arrivals, Flowing) /\ Earlier(Arrivals, Writing) /\ Earlier(Flowing, Writing)
      /\ \A t \in Sockets : WritesInTurn(jobs[t]) /\ jobs[t] \in Seq(Jobs)
      /\ \A e \in Ends : StreamInTurn(stream[e]) /\ stream[e] \in Seq(Messages)
  BY <1>1 DEF InTurn, LinesOK
<1>3. ASSUME Writing' \subseteq Writing, Flowing' \subseteq Flowing, Arrivals' \subseteq Arrivals
      PROVE  /\ Earlier(Arrivals', Flowing') /\ Earlier(Arrivals', Writing')
             /\ Earlier(Flowing', Writing')
  BY <1>2, <1>3 DEF Earlier
<1>4. ASSUME Earlier(Arrivals', Flowing') /\ Earlier(Arrivals', Writing') /\ Earlier(Flowing', Writing'),
             \A t \in Sockets : WritesInTurn(jobs'[t]), \A e \in Ends : StreamInTurn(stream'[e])
      PROVE  InTurn'
  BY <1>4 DEF InTurn, Earlier, WritesInTurn, StreamInTurn
<1>5. ASSUME UNCHANGED jobs
      PROVE  \A t \in Sockets : WritesInTurn(jobs'[t])
  BY <1>2, <1>5
<1>6. ASSUME UNCHANGED stream
      PROVE  \A e \in Ends : StreamInTurn(stream'[e])
  BY <1>2, <1>6
<1>7. ASSUME jobs[s] # <<>>, jobs' = [jobs EXCEPT ![s] = Tail(jobs[s])]
      PROVE  \A t \in Sockets : WritesInTurn(jobs'[t])
  <2>1. WritesInTurn(Tail(jobs[s]))
    BY <1>2, <1>7, TurnOfTail
  <2>. QED  BY <1>1, <1>2, <1>7, <2>1 DEF LinesOK
<1>8. ASSUME NEW job \in Jobs, jobs' = [jobs EXCEPT ![s] = Append(jobs[s], job)],
             job.run = "write" => job.message.number = sends + 1
      PROVE  \A t \in Sockets : WritesInTurn(jobs'[t])
  <2>1. \A i \in DOMAIN jobs[s] : jobs[s][i].run = "write" =>
            jobs[s][i].message.number \in 1 .. sends
    BY <1>1, StageFacts, StagesSent
  <2>2. sends \in Nat
    BY <1>1 DEF LinesOK
  <2>3. job.run = "write" => \A i \in DOMAIN jobs[s] : jobs[s][i].run = "write" =>
            jobs[s][i].message.number < job.message.number
    BY <1>8, <2>1, <2>2
  <2>4. WritesInTurn(Append(jobs[s], job))
    BY <1>2, <2>3, TurnOfAppend
  <2>. QED  BY <1>1, <1>2, <1>8, <2>4 DEF LinesOK
<1>9. ASSUME NEW job \in Jobs, Takes(s, job)
      PROVE  /\ jobs[s] # <<>> /\ job = Head(jobs[s]) /\ job.message \in Messages
             /\ 1 \in DOMAIN jobs[s] /\ job = jobs[s][1]
             /\ job.run = "write" => job.message \in Writing /\ Known(job.message.over)
                                     /\ Owner(job.message.over) = s
  <2>1. /\ jobs[s] # <<>> /\ job = Head(jobs[s]) /\ job.message \in Messages
        /\ 1 \in DOMAIN jobs[s] /\ job = jobs[s][1]
    <3>1. jobs[s] \in Seq(Jobs)
      BY <1>2
    <3>. QED  BY <1>9, <3>1, TailFacts, MessageOfJob DEF Takes
  <2>. QED  BY <1>1, <2>1, StageFacts DEF InPlace, JobInPlace
<1>10. ASSUME NEW m \in Messages, SendsMessage(s, m)
       PROVE  InTurn'
  <2>1. /\ jobs' = [jobs EXCEPT ![s] = Append(jobs[s], WriteJob(m))] /\ m.number = sends + 1
        /\ WriteJob(m) \in Jobs /\ WriteJob(m).message = m /\ UNCHANGED stream
    BY <1>10, JobsFacts DEF SendsMessage
  <2>2. /\ Writing' \subseteq Writing \cup {m} /\ Flowing' \subseteq Flowing
        /\ Arrivals' \subseteq Arrivals
    BY <1>1, <1>10, StagesStep
  <2>3. \A n \in Flowing \cup Arrivals : n.number < m.number
    <3>1. sends \in Nat
      BY <1>1 DEF LinesOK
    <3>2. \A n \in Flowing \cup Arrivals : n.number \in 1 .. sends
      BY <1>1, StagesSent
    <3>. QED  BY <2>1, <3>1, <3>2
  <2>4. /\ Earlier(Arrivals', Flowing') /\ Earlier(Arrivals', Writing')
        /\ Earlier(Flowing', Writing')
    BY <1>2, <2>2, <2>3 DEF Earlier
  <2>. QED  BY <1>4, <1>6, <1>8, <2>1, <2>4
<1>11. ASSUME NEW job \in Jobs, WritesMessage(s, job)
       PROVE  InTurn'
  <2>1. /\ Takes(s, job) /\ job.run = "write" /\ jobs' = [jobs EXCEPT ![s] = Tail(jobs[s])]
        /\ stream' = [stream EXCEPT ![Opposite(job.message.over)] =
                        Append(stream[Opposite(job.message.over)], job.message)]
    BY <1>11 DEF WritesMessage
  <2>2. PICK m \in Messages : m = job.message
    BY <1>9, <2>1
  <2>3. m.over \in Ends /\ m \in Writing /\ Known(m.over) /\ Owner(m.over) = s
    BY <1>9, <2>1, <2>2, JobsFacts
  <2>4. PICK e \in Ends : e = Opposite(m.over) /\ Opposite(e) = m.over
    BY <2>3, EndsFacts
  <2>5. /\ Writing' \subseteq Writing /\ Flowing' \subseteq Flowing \cup {m}
        /\ Arrivals' \subseteq Arrivals
    BY <1>1, <1>11, <2>2, StagesStep
  <2>6. ASSUME NEW n \in Writing', n.over = m.over
        PROVE  m.number < n.number
    <3>0. PICK t \in Sockets : \E i \in DOMAIN jobs'[t] :
              jobs'[t][i].run = "write" /\ jobs'[t][i].message = n
      BY StagePlacesNext
    <3>1. PICK i \in DOMAIN jobs'[t] : jobs'[t][i].run = "write" /\ jobs'[t][i].message = n
      BY <3>0
    <3>2. PICK k \in DOMAIN jobs[t] :
              /\ jobs[t][k].run = "write" /\ jobs[t][k].message = n
              /\ t = s => i \in DOMAIN Tail(jobs[s]) /\ Tail(jobs[s])[i] = jobs[t][k]
      <4>1. CASE t = s
        <5>1. jobs'[t] = Tail(jobs[s])
          BY <1>1, <2>1, <4>1 DEF LinesOK
        <5>2. jobs[s] \in Seq(Jobs) /\ jobs[s] # <<>>
          BY <1>2, <1>9, <2>1
        <5>3. i + 1 \in DOMAIN jobs[s] /\ Tail(jobs[s])[i] = jobs[s][i + 1]
          BY <3>1, <5>1, <5>2, TailFacts
        <5>. QED  BY <3>1, <4>1, <5>1, <5>3
      <4>2. CASE t # s
        <5>1. jobs'[t] = jobs[t]
          BY <1>1, <2>1, <4>2 DEF LinesOK
        <5>. QED  BY <3>1, <4>2, <5>1
      <4>. QED  BY <4>1, <4>2
    <3>3. Owner(n.over) = t
      BY <3>2 DEF InPlace, JobInPlace
    <3>4. t = s
      BY <2>3, <2>6, <3>3
    <3>5. i \in DOMAIN Tail(jobs[s]) /\ Tail(jobs[s])[i].run = "write" /\ Tail(jobs[s])[i].message = n
      BY <3>2, <3>4
    <3>6. Head(jobs[s]).message.number < Tail(jobs[s])[i].message.number
      <4>1. jobs[s] # <<>> /\ Head(jobs[s]).run = "write"
        BY <1>9, <2>1
      <4>. QED  BY <1>2, <3>5, <4>1, TurnOfTail
    <3>. QED  BY <1>9, <2>1, <2>2, <3>5, <3>6
  <2>7. /\ Earlier(Arrivals', Flowing') /\ Earlier(Arrivals', Writing')
        /\ Earlier(Flowing', Writing')
    BY <1>2, <2>3, <2>5, <2>6 DEF Earlier
  <2>8. \A i \in DOMAIN stream[e] : stream[e][i].number < m.number
    <3>1. \A i \in DOMAIN stream[e] : stream[e][i] \in Flowing /\ stream[e][i].over = m.over
      BY <1>1, <2>4, StageFacts DEF InPlace
    <3>. QED  BY <1>2, <2>3, <3>1 DEF Earlier
  <2>9. StreamInTurn(Append(stream[e], m))
    BY <1>2, <2>8, StreamOfAppend
  <2>10. \A f \in Ends : StreamInTurn(stream'[f])
    BY <1>1, <1>2, <2>1, <2>2, <2>4, <2>9 DEF LinesOK
  <2>. QED  BY <1>4, <1>7, <1>9, <2>1, <2>7, <2>10
<1>12. ASSUME NEW job \in Jobs, DropsMessage(s, job) \/ HandsOver(s, job)
       PROVE  InTurn'
  <2>1. /\ Takes(s, job) /\ jobs' = [jobs EXCEPT ![s] = Tail(jobs[s])] /\ UNCHANGED stream
    BY <1>12 DEF DropsMessage, HandsOver
  <2>2. /\ Writing' \subseteq Writing /\ Flowing' \subseteq Flowing /\ Arrivals' \subseteq Arrivals
    BY <1>1, <1>12, StagesStep
  <2>. QED  BY <1>3, <1>4, <1>6, <1>7, <1>9, <2>1, <2>2
<1>13. ASSUME NEW job \in Jobs, PutsBackAgain(s, job)
       PROVE  InTurn'
  <2>1. /\ Takes(s, job) /\ UNCHANGED stream
        /\ jobs' = [jobs EXCEPT ![s] = Append(Tail(jobs[s]), HandleJob(job.message))]
    BY <1>13 DEF PutsBackAgain
  <2>2. PICK again \in Jobs : again = HandleJob(job.message) /\ again.run = "handle"
    BY <1>9, <2>1, JobsFacts
  <2>3. Tail(jobs[s]) \in Seq(Jobs) /\ WritesInTurn(Tail(jobs[s]))
    BY <1>2, <1>9, <2>1, TailFacts, TurnOfTail
  <2>4. WritesInTurn(Append(Tail(jobs[s]), again))
    BY <2>2, <2>3, TurnOfAppend
  <2>5. \A t \in Sockets : WritesInTurn(jobs'[t])
    BY <1>1, <1>2, <2>1, <2>2, <2>4 DEF LinesOK
  <2>6. /\ Writing' \subseteq Writing /\ Flowing' \subseteq Flowing /\ Arrivals' \subseteq Arrivals
    BY <1>1, <1>13, StagesStep
  <2>. QED  BY <1>3, <1>4, <1>6, <2>1, <2>5, <2>6
<1>14. ASSUME NEW e \in Ends, NEW m \in Messages, ReadsOver(s, e, m) \/ PutsBack(s, e, m)
       PROVE  InTurn'
  <2>1. /\ stream[e] # <<>> /\ m = Head(stream[e])
        /\ stream' = [stream EXCEPT ![e] = Tail(stream[e])]
    BY <1>14 DEF ReadsOver, PutsBack, ReadsMessage
  <2>2. /\ Writing' \subseteq Writing /\ Flowing' \subseteq Flowing
        /\ Arrivals' \subseteq Arrivals \cup {m}
    BY <1>1, <1>14, StagesStep
  <2>3. /\ stream[e] \in Seq(Messages) /\ m = stream[e][1] /\ 1 \in DOMAIN stream[e]
        /\ StreamInTurn(Tail(stream[e]))
        /\ \A i \in DOMAIN Tail(stream[e]) : m.number < Tail(stream[e])[i].number
    BY <1>2, <2>1, TailFacts, StreamOfTail
  <2>4. m \in Flowing /\ m.over = Opposite(e)
    BY <1>1, <2>3, StageFacts DEF InPlace
  <2>5. ASSUME NEW n \in Flowing', n.over = m.over
        PROVE  m.number < n.number
    <3>0. PICK f \in Ends : \E i \in DOMAIN stream'[f] : stream'[f][i] = n
      BY StagePlacesNext
    <3>1. PICK i \in DOMAIN stream'[f] : stream'[f][i] = n
      BY <3>0
    <3>2. n.over = Opposite(f)
      BY <3>1 DEF InPlace
    <3>3. f = e
      <4>1. Opposite(Opposite(f)) = f /\ Opposite(Opposite(e)) = e
        BY EndsFacts
      <4>. QED  BY <2>4, <2>5, <3>2, <4>1
    <3>4. stream'[f] = Tail(stream[e])
      BY <1>1, <2>1, <3>3 DEF LinesOK
    <3>. QED  BY <2>3, <3>1, <3>4
  <2>6. /\ Earlier(Arrivals', Flowing') /\ Earlier(Arrivals', Writing')
        /\ Earlier(Flowing', Writing')
    BY <1>2, <2>2, <2>4, <2>5 DEF Earlier
  <2>7. \A f \in Ends : StreamInTurn(stream'[f])
    BY <1>1, <1>2, <2>1, <2>3 DEF LinesOK
  <2>8. \A t \in Sockets : WritesInTurn(jobs'[t])
    <3>1. CASE ReadsOver(s, e, m)
      BY <1>5, <3>1 DEF ReadsOver
    <3>2. CASE PutsBack(s, e, m)
      <4>1. PICK job \in Jobs : job = HandleJob(m) /\ job.run = "handle"
        BY JobsFacts
      <4>. QED  BY <1>8, <3>2, <4>1 DEF PutsBack
    <3>. QED  BY <1>14, <3>1, <3>2
  <2>. QED  BY <1>4, <2>6, <2>7, <2>8
<1>17. ASSUME NEW e \in Ends, NEW m \in Messages, SwallowsMessage(s, e, m)
       PROVE  InTurn'
  <2>1. /\ stream[e] # <<>> /\ UNCHANGED jobs
        /\ stream' = [stream EXCEPT ![e] = Tail(stream[e])]
    BY <1>17 DEF SwallowsMessage, ReadsMessage
  <2>2. StreamInTurn(Tail(stream[e]))
    BY <1>2, <2>1, StreamOfTail
  <2>3. \A f \in Ends : StreamInTurn(stream'[f])
    BY <1>1, <1>2, <2>1, <2>2 DEF LinesOK
  <2>4. /\ Writing' \subseteq Writing /\ Flowing' \subseteq Flowing /\ Arrivals' \subseteq Arrivals
    BY <1>1, <1>17, StagesStep
  <2>. QED  BY <1>3, <1>4, <1>5, <2>1, <2>3, <2>4
<1>15. CASE ClearsStreams(s)
  <2>1. \A e \in Ends : StreamInTurn(stream'[e])
    <3>1. StreamInTurn(<<>>)
      BY EmptySeq DEF StreamInTurn
    <3>. QED  BY <1>2, <1>15, <3>1 DEF ClearsStreams
  <2>2. /\ Writing' \subseteq Writing /\ Flowing' \subseteq Flowing /\ Arrivals' \subseteq Arrivals
    BY <1>1, <1>15, StagesStep
  <2>. QED  BY <1>3, <1>4, <1>5, <1>15, <2>1, <2>2 DEF ClearsStreams
<1>16. CASE MovesNothing
  <2>1. /\ Writing' \subseteq Writing /\ Flowing' \subseteq Flowing /\ Arrivals' \subseteq Arrivals
    BY <1>1, <1>16, StagesStep
  <2>. QED  BY <1>3, <1>4, <1>5, <1>6, <1>16, <2>1 DEF MovesNothing
<1>. QED  BY <1>10, <1>11, <1>12, <1>13, <1>14, <1>15, <1>16, <1>17, Shapes

LEMMA InOrderStep ==
    ASSUME TypeOK, LinesOK', InPlace, InTurn, InOrderUnlessPutBack,
           NEW s \in Sockets, ProgramCalls(s) \/ ServiceThread(s)
    PROVE  InOrderUnlessPutBack'
<1>1. LinesOK
  BY PartsOfType
<1>2. ASSUME UNCHANGED received, putBack \subseteq putBack'
      PROVE  InOrderUnlessPutBack'
  BY <1>2 DEF InOrderUnlessPutBack
<1>3. ASSUME NEW m \in Messages, received' = [received EXCEPT ![s] = Append(received[s], m)],
             UNCHANGED putBack,
             m \in putBack \/ \A i \in DOMAIN received[s] :
                received[s][i].over = m.over => received[s][i].number < m.number
      PROVE  InOrderUnlessPutBack'
  <2>. DEFINE last == Len(received[s]) + 1
  <2>1. /\ Append(received[s], m)[last] = m
        /\ \A i \in DOMAIN received[s] : Append(received[s], m)[i] = received[s][i] /\ i < last
        /\ \A i \in DOMAIN Append(received[s], m) : i \in DOMAIN received[s] \/ i = last
        /\ last \in Nat /\ \A i \in DOMAIN received[s] : i \in Nat
    <3>1. received[s] \in Seq(Messages)
      BY <1>1 DEF LinesOK
    <3>. QED  BY <3>1, AppendFacts, LenProperties
  <2>. HIDE DEF last
  <2>2. /\ received'[s] = Append(received[s], m)
        /\ \A t \in Sockets : t # s => received'[t] = received[t]
    BY <1>1, <1>3 DEF LinesOK
  <2>3. ASSUME NEW i \in DOMAIN received'[s], NEW j \in DOMAIN received'[s], i < j,
               received'[s][i].over = received'[s][j].over, received'[s][j] \notin putBack
        PROVE  received'[s][i].number < received'[s][j].number
    <3>1. i \in DOMAIN received[s]
      BY <2>1, <2>2, <2>3
    <3>2. CASE j \in DOMAIN received[s]
      BY <2>1, <2>2, <2>3, <3>1, <3>2 DEF InOrderUnlessPutBack
    <3>3. CASE j = last
      BY <1>3, <2>1, <2>2, <2>3, <3>1, <3>3
    <3>. QED  BY <2>1, <2>2, <3>2, <3>3
  <2>. QED  BY <1>3, <2>2, <2>3 DEF InOrderUnlessPutBack
<1>4. ASSUME NEW m \in Messages, SendsMessage(s, m)
      PROVE  InOrderUnlessPutBack'
  BY <1>2, <1>4 DEF SendsMessage
<1>5. ASSUME NEW job \in Jobs,
             WritesMessage(s, job) \/ DropsMessage(s, job) \/ PutsBackAgain(s, job)
      PROVE  InOrderUnlessPutBack'
  BY <1>2, <1>5 DEF WritesMessage, DropsMessage, PutsBackAgain
<1>6. ASSUME NEW job \in Jobs, HandsOver(s, job)
      PROVE  InOrderUnlessPutBack'
  <2>1. 1 \in DOMAIN jobs[s] /\ job = jobs[s][1] /\ job.message \in Messages
    <3>1. jobs[s] \in Seq(Jobs) /\ jobs[s] # <<>> /\ job = Head(jobs[s])
      BY <1>1, <1>6 DEF LinesOK, HandsOver, Takes
    <3>. QED  BY <3>1, TailFacts, MessageOfJob
  <2>2. job.message \in putBack
    BY <1>6, <2>1 DEF InPlace, JobInPlace, HandsOver
  <2>. QED  BY <1>3, <1>6, <2>1, <2>2 DEF HandsOver
<1>7. ASSUME NEW e \in Ends, NEW m \in Messages, ReadsOver(s, e, m)
      PROVE  InOrderUnlessPutBack'
  <2>1. stream[e] # <<>> /\ m = Head(stream[e]) /\ stream[e] \in Seq(Messages)
    BY <1>1, <1>7 DEF ReadsOver, ReadsMessage, LinesOK
  <2>2. m \in Flowing
    BY <1>1, <2>1, TailFacts, StageFacts
  <2>3. \A i \in DOMAIN received[s] : received[s][i] \in Arrivals
    BY <1>1, StageFacts
  <2>4. \A i \in DOMAIN received[s] :
            received[s][i].over = m.over => received[s][i].number < m.number
    BY <2>2, <2>3 DEF InTurn, Earlier
  <2>. QED  BY <1>3, <1>7, <2>4 DEF ReadsOver
<1>8. ASSUME NEW e \in Ends, NEW m \in Messages, PutsBack(s, e, m) \/ SwallowsMessage(s, e, m)
      PROVE  InOrderUnlessPutBack'
  BY <1>2, <1>8 DEF PutsBack, SwallowsMessage
<1>9. CASE ClearsStreams(s) \/ MovesNothing
  BY <1>2, <1>9 DEF ClearsStreams, MovesNothing
<1>. QED  BY <1>4, <1>5, <1>6, <1>7, <1>8, <1>9, Shapes

-----------------------------------------------------------------------------
(* The theorems *)

LEMMA InitIInv == Init => IInv
<1>. SUFFICES ASSUME Init PROVE IInv
  OBVIOUS
<1>1. TypeOK
  <2>1. MapsOK
    BY EmptySeq DEF Init, MapsOK
  <2>2. LinesOK
    BY EmptySeq, BoundsAssumption, SizesAssumption DEF Init, LinesOK
  <2>3. ThreadsOK /\ CallsOK
    BY BoundsAssumption, SizesAssumption DEF Init, ThreadsOK, CallsOK
  <2>4. Connected
    BY EmptySeq, BoundsAssumption DEF Init, Connected, Torn
  <2>. QED  BY <2>1, <2>2, <2>3, <2>4, TypeParts
<1>2. Connected
  BY EmptySeq, BoundsAssumption DEF Init, Connected, Torn
<1>3. InPlace
  BY EmptySeq DEF Init, InPlace
<1>4. LinesOK
  BY <1>1, PartsOfType
<1>5. Kept
  <2>1. PICK L \in [Lines -> Seq(Messages)] : L = InLine
    BY <1>4, LineFacts
  <2>2. ASSUME NEW l \in Lines
        PROVE  L[l] = <<>>
    <3>1. MessagesOf(<<>>) = <<>>
      BY EmptySeq DEF MessagesOf
    <3>2. CASE \E t \in Sockets : l = JobsOf(t)
      BY <1>4, <2>1, <3>1, <3>2, LineFacts DEF Init
    <3>3. CASE \E t \in Sockets : l = ReceivedBy(t)
      BY <1>4, <2>1, <3>3, LineFacts DEF Init
    <3>4. CASE \E e \in Ends : l = StreamTo(e)
      BY <1>4, <2>1, <3>4, LineFacts DEF Init
    <3>. QED  BY <3>2, <3>3, <3>4, LineNames
  <2>3. Once(L) /\ Numbers(L) = {}
    BY <2>2, EmptySeq DEF Once, Numbers, Holds
  <2>4. 1 .. sends = {}
    BY DEF Init
  <2>. QED  BY <2>1, <2>3, <2>4 DEF Kept
<1>6. InTurn
  <2>1. Writing = {} /\ Flowing = {} /\ Arrivals = {}
    BY EmptySeq DEF Init, Writing, Flowing, Arrivals, In
  <2>2. WritesInTurn(<<>>) /\ StreamInTurn(<<>>)
    BY EmptySeq DEF WritesInTurn, StreamInTurn
  <2>. QED  BY <2>1, <2>2 DEF Init, InTurn, Earlier
<1>7. InOrderUnlessPutBack
  BY EmptySeq DEF Init, InOrderUnlessPutBack
<1>. QED  BY <1>1, <1>2, <1>3, <1>5, <1>6, <1>7 DEF IInv

LEMMA NextIInv == IInv /\ [Next]_vars => IInv'
<1>. SUFFICES ASSUME IInv, [Next]_vars PROVE IInv'
  OBVIOUS
<1>1. /\ TypeOK /\ Connected /\ InPlace /\ Kept /\ InTurn /\ InOrderUnlessPutBack
      /\ MapsOK /\ LinesOK /\ ThreadsOK /\ CallsOK
  BY PartsOfType DEF IInv
<1>2. ASSUME NEW s \in Sockets, ProgramCalls(s) \/ ServiceThread(s)
      PROVE  IInv'
  <2>1. MapsOK' /\ Connected'
    BY <1>1, <1>2, MapsStep
  <2>2. LinesOK'
    BY <1>1, <1>2, LinesStep
  <2>3. ThreadsOK'
    BY <1>1, <1>2, ThreadsStep
  <2>4. CallsOK'
    BY <1>1, <1>2, CallsStep
  <2>5. TypeOK'
    <3>1. MapsOK /\ Connected /\ LinesOK /\ ThreadsOK /\ CallsOK => TypeOK
      BY TypeParts
    <3>2. (MapsOK /\ Connected /\ LinesOK /\ ThreadsOK /\ CallsOK => TypeOK)'
      BY <3>1, TypeParts, PTL
    <3>. QED  BY <2>1, <2>2, <2>3, <2>4, <3>2
  <2>6. InPlace'
    BY <1>1, <1>2, <2>1, <2>2, InPlaceStep
  <2>7. Kept'
    BY <1>1, <1>2, <2>2, KeptStep
  <2>8. InTurn'
    BY <1>1, <1>2, <2>2, <2>6, InTurnStep
  <2>9. InOrderUnlessPutBack'
    BY <1>1, <1>2, <2>2, InOrderStep
  <2>. QED  BY <2>1, <2>5, <2>6, <2>7, <2>8, <2>9 DEF IInv
<1>3. CASE UNCHANGED vars
  <2>. USE DEF vars, connectionVars, mapVars, threadVars, receiveVars
  <2>1. TypeOK'
    BY <1>1, <1>3 DEF TypeOK, Owner, Runs
  <2>2. Connected'
    BY <1>1, <1>3 DEF Connected, Known, Owner, Waits, Torn
  <2>3. InPlace'
    BY <1>1, <1>3 DEF InPlace, JobInPlace, SentTo, Known, Owner
  <2>4. Kept'
    <3>1. InLine' = InLine
      BY <1>3 DEF InLine
    <3>. QED  BY <1>1, <1>3, <3>1 DEF Kept, Torn
  <2>5. InTurn'
    <3>1. Writing' = Writing /\ Flowing' = Flowing /\ Arrivals' = Arrivals
      BY <1>3 DEF Writing, Flowing, Arrivals
    <3>. QED  BY <1>1, <1>3, <3>1 DEF InTurn
  <2>6. InOrderUnlessPutBack'
    BY <1>1, <1>3 DEF InOrderUnlessPutBack
  <2>. QED  BY <2>1, <2>2, <2>3, <2>4, <2>5, <2>6 DEF IInv
<1>. QED  BY <1>2, <1>3 DEF Next

\* The invariant holds in every behaviour of the sockets, whatever their number, the
\* sizes of the queues and the calls that are made.
THEOREM StreamInvariance == Spec => []IInv
  BY InitIInv, NextIInv, PTL DEF Spec

\* Each variable has its type, and while a thread writes it holds the mutex and the job
\* of the write is the first of its jobs.
THEOREM StreamTypeCorrect == Spec => []TypeOK
<1>1. IInv => TypeOK
  BY DEF IInv
<1>. QED  BY <1>1, StreamInvariance, PTL

\* Until a connection is closed or out of step every datagram is in exactly one place, on
\* its way or handed over; afterwards it is in one at most.
LEMMA KeptIsNotLost == IInv => NothingLost
<1>. SUFFICES ASSUME IInv, NEW n \in 1 .. sends
              PROVE  Cardinality(Places(n)) = 1 \/ (Places(n) = {} /\ Torn # {})
  BY DEF NothingLost
<1>1. PICK L : L = InLine
  OBVIOUS
<1>2. Once(L) /\ (Torn = {} => 1 .. sends \subseteq Numbers(L))
  BY <1>1 DEF IInv, Kept
<1>3. \A p : p \in Places(n) <=>
        \E l \in Lines : \E i \in DOMAIN L[l] : L[l][i].number = n /\ p = <<l, i>>
  BY <1>1 DEF Places
<1>4. CASE Holds(L, n)
  <2>1. PICK l \in Lines : \E i \in DOMAIN L[l] : L[l][i].number = n
    BY <1>4 DEF Holds
  <2>2. PICK i \in DOMAIN L[l] : L[l][i].number = n
    BY <2>1
  <2>3. ASSUME NEW k \in Lines, NEW j \in DOMAIN L[k], L[k][j].number = n
        PROVE  k = l /\ j = i
    BY <1>2, <2>2, <2>3 DEF Once
  <2>4. Places(n) = {<<l, i>>}
    BY <1>3, <2>2, <2>3
  <2>. QED  BY <2>4, FS_Singleton
<1>5. CASE ~Holds(L, n)
  <2>1. Places(n) = {}
    BY <1>3, <1>5 DEF Holds
  <2>2. n \notin Numbers(L)
    BY <1>5 DEF Numbers
  <2>. QED  BY <1>2, <2>1, <2>2
<1>. QED  BY <1>4, <1>5

\* No datagram is handed over twice, and none is lost before a connection has been closed
\* or a size has been read in part (AsioStreaming.cpp:42): not by the writes, not on the
\* way, not for want of a receive.
THEOREM StreamsLoseNothing == Spec => []NothingLost
  BY KeptIsNotLost, StreamInvariance, PTL

\* A receive gets the datagrams of a connection in the order in which they were sent,
\* but for those that once met no receive and were put back behind the other jobs.
THEOREM StreamsKeepOrder == Spec => []InOrderUnlessPutBack
<1>1. IInv => InOrderUnlessPutBack
  BY DEF IInv
<1>. QED  BY <1>1, StreamInvariance, PTL

-----------------------------------------------------------------------------
(* The sockets as Transport *)

\* The messages in the lines L on the way to a receive.
Ways == Lines \ {ReceivedBy(s) : s \in Sockets}
On(L) == {m \in Messages : \E l \in Ways : \E i \in DOMAIN L[l] : L[l][i] = m}

LEMMA WaysFacts ==
    /\ Ways \subseteq Lines
    /\ \A s \in Sockets : JobsOf(s) \in Ways /\ ReceivedBy(s) \in Lines \ Ways
    /\ \A e \in Ends : StreamTo(e) \in Ways
    /\ \A l \in Ways : (\E s \in Sockets : l = JobsOf(s)) \/ (\E e \in Ends : l = StreamTo(e))
  BY DEF Ways, Lines, JobsOf, StreamTo, ReceivedBy

LEMMA OnWayIsOn ==
    ASSUME LinesOK
    PROVE  OnWay = On(InLine)
<1>1. PICK L \in [Lines -> Seq(Messages)] : L = InLine
  BY LineFacts
<1>2. \A l \in Ways : L[l] \in Seq(Messages)
  BY WaysFacts
<1>3. \A l \in Ways : \A i \in DOMAIN L[l] : L[l][i] \in Messages
  BY <1>2, ElementOfSeq, LenProperties
<1>4. OnWay = UNION {{L[l][i] : i \in DOMAIN L[l]} : l \in Ways}
  BY <1>1 DEF OnWay, Ways, Range
<1>5. UNION {{L[l][i] : i \in DOMAIN L[l]} : l \in Ways} = On(L)
  BY <1>3 DEF On
<1>. QED  BY <1>1, <1>4, <1>5

LEMMA OnWayIsOnNext == LinesOK' => (OnWay = On(InLine))'
<1>1. LinesOK => OnWay = On(InLine)
  BY OnWayIsOn
<1>. QED  BY <1>1, PTL

\* A message that comes to the end of a line.
LEMMA OnGrows ==
    ASSUME NEW L \in [Lines -> Seq(Messages)], NEW K \in [Lines -> Seq(Messages)],
           NEW a \in Lines, NEW m \in Messages, Grows(a, m, L, K)
    PROVE  /\ a \in Ways => On(K) = On(L) \cup {m}
           /\ a \notin Ways => On(K) = On(L)
<1>1. K[a] = Append(L[a], m) /\ \A p \in Lines : p # a => K[p] = L[p]
  BY DEF Grows, Only
<1>2. CASE a \notin Ways
  <2>1. \A p \in Ways : K[p] = L[p]
    BY <1>1, <1>2, WaysFacts
  <2>. QED  BY <1>2, <2>1 DEF On
<1>3. CASE a \in Ways
  <2>1. L[a] \in Seq(Messages)
    OBVIOUS
  <2>2. /\ \A i \in DOMAIN L[a] : i \in DOMAIN K[a] /\ K[a][i] = L[a][i]
        /\ \A i \in DOMAIN K[a] : i \in DOMAIN L[a] \/ K[a][i] = m
        /\ \E i \in DOMAIN K[a] : K[a][i] = m
    BY <1>1, <2>1, AppendFacts
  <2>3. \A p \in Ways : p # a => K[p] = L[p]
    BY <1>1, WaysFacts
  <2>4. ASSUME NEW x \in On(K)
        PROVE  x \in On(L) \cup {m}
    <3>1. PICK l \in Ways : \E i \in DOMAIN K[l] : K[l][i] = x
      BY DEF On
    <3>2. PICK i \in DOMAIN K[l] : K[l][i] = x
      BY <3>1
    <3>3. x = m \/ (i \in DOMAIN L[l] /\ L[l][i] = x)
      BY <2>2, <2>3, <3>2
    <3>. QED  BY <3>3 DEF On
  <2>5. ASSUME NEW x \in On(L)
        PROVE  x \in On(K)
    <3>1. PICK l \in Ways : \E i \in DOMAIN L[l] : L[l][i] = x
      BY DEF On
    <3>2. PICK i \in DOMAIN L[l] : L[l][i] = x
      BY <3>1
    <3>3. i \in DOMAIN K[l] /\ K[l][i] = x
      BY <2>2, <2>3, <3>2
    <3>. QED  BY <3>3 DEF On
  <2>6. m \in On(K)
    BY <1>3, <2>2 DEF On
  <2>. QED  BY <1>3, <2>4, <2>5, <2>6
<1>. QED  BY <1>2, <1>3

\* A message that is taken from the head of a line.
LEMMA OnShrinks ==
    ASSUME NEW L \in [Lines -> Seq(Messages)], NEW K \in [Lines -> Seq(Messages)], Once(L),
           NEW a \in Ways, Shrinks(a, L, K), NEW m \in Messages, m = Head(L[a])
    PROVE  m \in On(L) /\ On(K) = On(L) \ {m}
<1>1. a \in Lines
  BY WaysFacts
<1>2. L[a] # <<>> /\ K[a] = Tail(L[a]) /\ \A p \in Ways : p # a => K[p] = L[p]
  BY WaysFacts DEF Shrinks, Only
<1>3. /\ m = L[a][1] /\ 1 \in DOMAIN L[a]
      /\ \A i \in DOMAIN K[a] : i + 1 \in DOMAIN L[a] /\ K[a][i] = L[a][i + 1]
      /\ \A i \in DOMAIN L[a] : i = 1 \/ (i - 1 \in DOMAIN K[a] /\ K[a][i - 1] = L[a][i])
  <2>1. L[a] \in Seq(Messages)
    BY <1>1
  <2>. QED  BY <1>2, <2>1, TailFacts
<1>4. m \in On(L)
  BY <1>3 DEF On
<1>5. m.number \notin Numbers(K) /\ m.number \in Nat
  <2>1. m.number \notin Numbers(K)
    BY <1>1, TakeFromLine
  <2>2. m.number \in 1 .. MaxSends
    BY JobsFacts
  <2>. QED  BY <2>1, <2>2
<1>6. m \notin On(K)
  BY <1>1, <1>5, WaysFacts DEF On, Numbers, Holds
<1>7. ASSUME NEW x \in On(K)
      PROVE  x \in On(L)
  <2>1. PICK l \in Ways : \E i \in DOMAIN K[l] : K[l][i] = x
    BY DEF On
  <2>2. PICK i \in DOMAIN K[l] : K[l][i] = x
    BY <2>1
  <2>3. \E j \in DOMAIN L[l] : L[l][j] = x
    <3>1. CASE l = a
      <4>1. i + 1 \in DOMAIN L[a] /\ L[a][i + 1] = x
        BY <1>3, <2>2, <3>1
      <4>. QED  BY <3>1, <4>1
    <3>2. CASE l # a
      BY <1>2, <2>2, <3>2
    <3>. QED  BY <3>1, <3>2
  <2>. QED  BY <2>3 DEF On
<1>8. ASSUME NEW x \in On(L), x # m
      PROVE  x \in On(K)
  <2>1. PICK l \in Ways : \E i \in DOMAIN L[l] : L[l][i] = x
    BY DEF On
  <2>2. PICK i \in DOMAIN L[l] : L[l][i] = x
    BY <2>1
  <2>3. \E j \in DOMAIN K[l] : K[l][j] = x
    <3>1. CASE l = a
      <4>1. i - 1 \in DOMAIN K[a] /\ K[a][i - 1] = x
        BY <1>3, <1>8, <2>2, <3>1
      <4>. QED  BY <3>1, <4>1
    <3>2. CASE l # a
      BY <1>2, <2>2, <3>2
    <3>. QED  BY <3>1, <3>2
  <2>. QED  BY <2>3 DEF On
<1>. QED  BY <1>4, <1>6, <1>7, <1>8

\* A message that moves stays on its way, unless it is received.
LEMMA OnMoves ==
    ASSUME NEW L \in [Lines -> Seq(Messages)], NEW K \in [Lines -> Seq(Messages)], Once(L),
           NEW a \in Ways, NEW b \in Lines, Moves(a, b, L, K)
    PROVE  /\ Head(L[a]) \in On(L)
           /\ b \in Ways => On(K) = On(L)
           /\ b \notin Ways => On(K) = On(L) \ {Head(L[a])}
<1>1. a \in Lines
  BY WaysFacts
<1>2. PICK J \in [Lines -> Seq(Messages)] :
            Shrinks(a, L, J) /\ Head(L[a]) \in Messages /\ Grows(b, Head(L[a]), J, K)
  BY <1>1, MovesOver
<1>3. PICK m \in Messages : m = Head(L[a])
  BY <1>2
<1>4. m \in On(L) /\ On(J) = On(L) \ {m}
  BY <1>2, <1>3, OnShrinks
<1>5. /\ b \in Ways => On(K) = On(J) \cup {m}
      /\ b \notin Ways => On(K) = On(J)
  BY <1>2, <1>3, OnGrows
<1>. QED  BY <1>3, <1>4, <1>5

LEMMA OnGoesBehind ==
    ASSUME NEW L \in [Lines -> Seq(Messages)], NEW K \in [Lines -> Seq(Messages)], Once(L),
           NEW a \in Ways, GoesBehind(a, L, K)
    PROVE  On(K) = On(L)
<1>1. a \in Lines
  BY WaysFacts
<1>2. PICK J \in [Lines -> Seq(Messages)] :
            Shrinks(a, L, J) /\ Head(L[a]) \in Messages /\ Grows(a, Head(L[a]), J, K)
  BY <1>1, MovesBehind
<1>3. PICK m \in Messages : m = Head(L[a])
  BY <1>2
<1>4. m \in On(L) /\ On(J) = On(L) \ {m}
  BY <1>2, <1>3, OnShrinks
<1>5. On(K) = On(J) \cup {m}
  BY <1>1, <1>2, <1>3, OnGrows
<1>. QED  BY <1>4, <1>5

LEMMA OnClears ==
    ASSUME NEW L, NEW K, Clears(L, K)
    PROVE  /\ On(K) \subseteq On(L)
           /\ \A m \in On(L) \ On(K) :
                \E l \in Ways : K[l] # L[l] /\ \E i \in DOMAIN L[l] : L[l][i] = m
<1>1. \A p \in Ways : \A i \in DOMAIN K[p] : i \in DOMAIN L[p] /\ K[p][i] = L[p][i]
  BY EmptySeq, WaysFacts DEF Clears
<1>2. On(K) \subseteq On(L)
  BY <1>1 DEF On
<1>3. ASSUME NEW m \in On(L), m \notin On(K)
      PROVE  \E l \in Ways : K[l] # L[l] /\ \E i \in DOMAIN L[l] : L[l][i] = m
  <2>1. PICK l \in Ways : \E i \in DOMAIN L[l] : L[l][i] = m
    BY DEF On
  <2>2. K[l] # L[l]
    BY <1>3, <2>1 DEF On
  <2>. QED  BY <2>1, <2>2
<1>. QED  BY <1>2, <1>3

\* Of the messages on their way, each has its own number.
LEMMA OnDistinct ==
    ASSUME NEW L, Once(L)
    PROVE  \A m, n \in On(L) : m.number = n.number => m = n
<1>. SUFFICES ASSUME NEW m \in On(L), NEW n \in On(L), m.number = n.number
              PROVE  m = n
  OBVIOUS
<1>1. PICK k \in Ways : \E i \in DOMAIN L[k] : L[k][i] = m
  BY DEF On
<1>2. PICK i \in DOMAIN L[k] : L[k][i] = m
  BY <1>1
<1>3. PICK l \in Ways : \E j \in DOMAIN L[l] : L[l][j] = n
  BY DEF On
<1>4. PICK j \in DOMAIN L[l] : L[l][j] = n
  BY <1>3
<1>5. k \in Lines /\ l \in Lines
  BY WaysFacts
<1>6. k = l /\ i = j
  BY <1>2, <1>4, <1>5 DEF Once
<1>. QED  BY <1>2, <1>4, <1>6

\* What is known of a connection, and of the messages sent over it, stays.
OwnersKept == \A e \in Ends : Known(e) => Known(e)' /\ Owner(e)' = Owner(e)

LEMMA MessagesKnown ==
    ASSUME LinesOK, InPlace
    PROVE  /\ \A m \in On(InLine) : Known(m.over)
           /\ \A s \in Sockets : \A i \in DOMAIN received[s] : Known(received[s][i].over)
<1>1. \A s \in Sockets : \A i \in DOMAIN received[s] : Known(received[s][i].over)
  BY DEF InPlace, SentTo
<1>2. PICK L \in [Lines -> Seq(Messages)] : L = InLine
  BY LineFacts
<1>3. ASSUME NEW m \in On(L)
      PROVE  Known(m.over)
  <2>1. PICK l \in Ways : \E i \in DOMAIN L[l] : L[l][i] = m
    BY DEF On
  <2>2. PICK i \in DOMAIN L[l] : L[l][i] = m
    BY <2>1
  <2>3. CASE \E s \in Sockets : l = JobsOf(s)
    <3>1. PICK s \in Sockets : l = JobsOf(s)
      BY <2>3
    <3>2. L[l] = MessagesOf(jobs[s])
      BY <1>2, <3>1, LineFacts
    <3>3. i \in DOMAIN jobs[s] /\ m = jobs[s][i].message /\ jobs[s][i] \in Jobs
      <4>1. jobs[s] \in Seq(Jobs) /\ i \in DOMAIN jobs[s] /\ m = jobs[s][i].message
        BY <2>2, <3>2 DEF MessagesOf, LinesOK
      <4>. QED  BY <4>1, ElementOfSeq, LenProperties
    <3>4. JobInPlace(s, jobs[s][i])
      BY <3>3 DEF InPlace
    <3>. QED  BY <3>3, <3>4, MessageOfJob DEF JobInPlace, SentTo
  <2>4. CASE \E e \in Ends : l = StreamTo(e)
    <3>1. PICK e \in Ends : l = StreamTo(e)
      BY <2>4
    <3>2. L[l] = stream[e]
      BY <1>2, <3>1, LineFacts
    <3>3. m.over = Opposite(e) /\ Known(e)
      BY <2>2, <3>2 DEF InPlace
    <3>. QED  BY <3>3, EndsFacts DEF Known
  <2>. QED  BY <2>3, <2>4, WaysFacts
<1>. QED  BY <1>1, <1>2, <1>3

LEMMA AsSentStays ==
    ASSUME OwnersKept, NEW m \in Messages, Known(m.over)
    PROVE  AsSent(m)' = AsSent(m)
<1>1. m.over \in Ends /\ Opposite(m.over) \in Ends /\ Known(Opposite(m.over))
  BY JobsFacts, EndsFacts DEF Known
<1>. QED  BY <1>1 DEF AsSent, OwnersKept

\* The messages O as they were sent.
Image(O) == {AsSent(m) : m \in O}

LEMMA UnderwayIsImage ==
    ASSUME LinesOK, NEW L, L = InLine
    PROVE  Underway = Image(On(L))
  BY OnWayIsOn DEF Underway, Image

LEMMA UnderwayIsImageNext ==
    ASSUME LinesOK', NEW K, K = InLine'
    PROVE  Underway' = Image(On(K))'
<1>1. OnWay' = On(InLine)'
  BY OnWayIsOnNext
<1>2. On(InLine)' = On(K)
  BY DEF On
<1>3. OnWay' = On(K)
  BY <1>1, <1>2
<1>. QED  BY <1>3 DEF Underway, Image

LEMMA ImageStays ==
    ASSUME OwnersKept, NEW O \in SUBSET Messages, \A m \in O : Known(m.over)
    PROVE  Image(O)' = Image(O)
<1>1. \A m \in O : AsSent(m)' = AsSent(m)
  BY AsSentStays
<1>. QED  BY <1>1 DEF Image

LEMMA ImageWithout ==
    ASSUME NEW O, \A m, n \in O : m.number = n.number => m = n, NEW m \in O
    PROVE  AsSent(m) \in Image(O) /\ Image(O \ {m}) = Image(O) \ {AsSent(m)}
<1>1. \A n \in O : AsSent(n).number = n.number
  BY DEF AsSent
<1>2. \A n \in O : AsSent(n) = AsSent(m) => n = m
  BY <1>1
<1>. QED  BY <1>2 DEF Image

\* A socket is gone when one of its own ends is torn.
LEMMA GoneStays ==
    ASSUME MapsOK, Connected, OwnersKept
    PROVE  /\ Torn' = Torn => Gone' = Gone
           /\ \A s \in Sockets : \A E \in SUBSET sockets[s] :
                E # {} /\ Torn' = Torn \cup E => Gone' = Gone \cup {s}
<1>1. \A e \in Torn : e \in Ends /\ Known(e)
  BY DEF MapsOK, Connected, Torn
<1>2. \A e \in Torn : Owner(e)' = Owner(e)
  BY <1>1 DEF OwnersKept
<1>3. ASSUME NEW s \in Sockets, NEW E \in SUBSET sockets[s], E # {}, Torn' = Torn \cup E
      PROVE  Gone' = Gone \cup {s}
  <2>1. \A e \in E : e \in Ends /\ Known(e) /\ Owner(e) = s
    BY DEF MapsOK, Connected
  <2>2. \A e \in E : Owner(e)' = s
    BY <2>1 DEF OwnersKept
  <2>3. PICK F : F = Torn'
    OBVIOUS
  <2>4. Gone' = {Owner(e)' : e \in F}
    BY <2>3 DEF Gone
  <2>5. \A e \in F : Owner(e)' = s \/ (e \in Torn /\ Owner(e)' = Owner(e))
    BY <1>2, <1>3, <2>2, <2>3
  <2>6. \A e \in Torn : e \in F /\ Owner(e)' = Owner(e)
    BY <1>2, <1>3, <2>3
  <2>7. \E e \in F : Owner(e)' = s
    BY <1>3, <2>2, <2>3
  <2>. QED  BY <2>4, <2>5, <2>6, <2>7 DEF Gone
<1>4. ASSUME Torn' = Torn
      PROVE  Gone' = Gone
  BY <1>2, <1>4 DEF Gone
<1>. QED  BY <1>3, <1>4

\* What has been handed over, of which a message more comes to one socket.
LEMMA HandedStays ==
    ASSUME LinesOK, InPlace, OwnersKept, UNCHANGED received
    PROVE  HandedOver' = HandedOver
<1>1. \A s \in Sockets : \A i \in DOMAIN received[s] :
            received[s][i] \in Messages /\ Known(received[s][i].over)
  BY MessagesKnown, ElementOfSeq, LenProperties DEF LinesOK
<1>2. \A m \in Messages : Known(m.over) => AsSent(m)' = AsSent(m)
  BY AsSentStays
<1>3. \A s \in Sockets : \A i \in DOMAIN received[s] :
            AsSent(received[s][i])' = AsSent(received[s][i])
  <2>. SUFFICES ASSUME NEW s \in Sockets, NEW i \in DOMAIN received[s]
                PROVE  AsSent(received[s][i])' = AsSent(received[s][i])
    OBVIOUS
  <2>1. PICK m \in Messages : m = received[s][i]
    BY <1>1
  <2>2. Known(m.over)
    BY <1>1, <2>1
  <2>3. AsSent(received[s][i])' = AsSent(m)'
    BY <2>1 DEF AsSent, Owner, Opposite
  <2>. QED  BY <1>2, <2>1, <2>2, <2>3
<1>. QED  BY <1>3 DEF HandedOver

LEMMA HandedAppends ==
    ASSUME LinesOK, LinesOK', InPlace, OwnersKept, NEW s \in Sockets, NEW m \in Messages, Known(m.over),
           received' = [received EXCEPT ![s] = Append(received[s], m)]
    PROVE  HandedOver' = [HandedOver EXCEPT ![s] = Append(HandedOver[s], AsSent(m))]
<1>. DEFINE Seen(q) == [i \in DOMAIN q |-> AsSent(q[i])]
<1>1. ASSUME NEW t \in Sockets, NEW i \in DOMAIN received[t]
      PROVE  received[t][i] \in Messages /\ Known(received[t][i].over)
  BY MessagesKnown, ElementOfSeq, LenProperties DEF LinesOK
<1>2. \A n \in Messages : Known(n.over) => AsSent(n)' = AsSent(n)
  BY AsSentStays
<1>3. /\ received'[s] = Append(received[s], m)
      /\ \A t \in Sockets : t # s => received'[t] = received[t]
  BY DEF LinesOK
<1>4. ASSUME NEW t \in Sockets, NEW i \in DOMAIN received'[t]
      PROVE  /\ received'[t][i] \in Messages /\ Known(received'[t][i].over)
  <2>1. CASE t # s
    BY <1>1, <1>3, <2>1
  <2>2. CASE t = s
    <3>1. received[s] \in Seq(Messages)
      BY DEF LinesOK
    <3>2. /\ \A j \in DOMAIN received[s] : Append(received[s], m)[j] = received[s][j]
          /\ \A j \in DOMAIN Append(received[s], m) : j \in DOMAIN received[s] \/ j = Len(received[s]) + 1
          /\ Append(received[s], m)[Len(received[s]) + 1] = m
      BY <3>1, AppendFacts
    <3>3. CASE i \in DOMAIN received[s]
      BY <1>1, <1>3, <2>2, <3>2, <3>3
    <3>4. CASE i = Len(received[s]) + 1
      BY <1>3, <2>2, <3>2, <3>4
    <3>. QED  BY <1>3, <2>2, <3>2, <3>3, <3>4
  <2>. QED  BY <2>1, <2>2
<1>5. \A t \in Sockets : HandedOver'[t] = Seen(received'[t])
  <2>1. PICK r : r = received'
    OBVIOUS
  <2>2. \A t \in Sockets : \A i \in DOMAIN r[t] : AsSent(r[t][i])' = AsSent(r[t][i])
    BY <1>2, <1>4, <2>1
  <2>3. HandedOver' = [t \in Sockets |-> [i \in DOMAIN r[t] |-> AsSent(r[t][i])']]
    BY <2>1 DEF HandedOver, AsSent
  <2>. QED  BY <2>1, <2>2, <2>3
<1>6. Seen(Append(received[s], m)) = Append(Seen(received[s]), AsSent(m))
  <2>1. PICK q \in Seq(Messages) : q = received[s]
    BY DEF LinesOK
  <2>2. Len(q) \in Nat /\ DOMAIN q = 1 .. Len(q)
    BY LenProperties
  <2>3. PICK S : S = {AsSent(n) : n \in Messages}
    OBVIOUS
  <2>4. Seen(q) \in Seq(S) /\ Len(Seen(q)) = Len(q)
    <3>1. \A i \in 1 .. Len(q) : q[i] \in Messages
      BY <2>2, ElementOfSeq
    <3>2. Seen(q) \in [1 .. Len(q) -> S]
      BY <2>2, <2>3, <3>1
    <3>. QED  BY <2>2, <3>2, SeqDef, LenProperties
  <2>5. AsSent(m) \in S
    BY <2>3
  <2>6. /\ Append(q, m) \in Seq(Messages) /\ Len(Append(q, m)) = Len(q) + 1
        /\ \A i \in 1 .. Len(q) : Append(q, m)[i] = q[i]
        /\ Append(q, m)[Len(q) + 1] = m
    BY AppendProperties
  <2>7. /\ DOMAIN Append(q, m) = 1 .. Len(q) + 1
    BY <2>6, LenProperties
  <2>8. PICK a : a = AsSent(m)
    OBVIOUS
  <2>9. PICK h \in Seq(S) : h = Seen(q)
    BY <2>4
  <2>10. /\ Append(h, a) \in Seq(S) /\ Len(Append(h, a)) = Len(h) + 1
         /\ \A i \in 1 .. Len(h) : Append(h, a)[i] = h[i]
         /\ Append(h, a)[Len(h) + 1] = a
    BY <2>5, <2>8, AppendProperties
  <2>11. DOMAIN Append(h, a) = 1 .. Len(q) + 1
    BY <2>4, <2>9, <2>10, LenProperties
  <2>12. ASSUME NEW i \in 1 .. Len(q) + 1
         PROVE  Append(h, a)[i] = AsSent(Append(q, m)[i])
    <3>1. CASE i \in 1 .. Len(q)
      <4>1. h[i] = AsSent(q[i])
        BY <2>2, <2>9, <3>1
      <4>2. Append(h, a)[i] = h[i] /\ Append(q, m)[i] = q[i]
        BY <2>4, <2>6, <2>9, <2>10, <3>1
      <4>. QED  BY <4>1, <4>2
    <3>2. CASE i = Len(q) + 1
      <4>1. Append(h, a)[i] = a /\ Append(q, m)[i] = m
        BY <2>4, <2>6, <2>9, <2>10, <3>2
      <4>. QED  BY <2>8, <4>1
    <3>3. i \in 1 .. Len(q) \/ i = Len(q) + 1
      <4>1. PICK l \in Nat : l = Len(q)
        BY <2>2
      <4>2. \A k \in 1 .. l + 1 : k \in 1 .. l \/ k = l + 1
        OBVIOUS
      <4>. QED  BY <4>1, <4>2
    <3>. QED  BY <3>1, <3>2, <3>3, Zenon
  <2>13. Append(h, a) = [i \in 1 .. Len(q) + 1 |-> Append(h, a)[i]]
    <3>1. Append(h, a) \in [1 .. Len(Append(h, a)) -> S]
      BY <2>10, LenProperties
    <3>2. Len(Append(h, a)) = Len(q) + 1
      BY <2>4, <2>9, <2>10
    <3>. QED  BY <3>1, <3>2
  <2>14. Seen(Append(q, m)) = Append(h, a)
    BY <2>7, <2>12, <2>13
  <2>. QED  BY <2>1, <2>8, <2>9, <2>14
<1>7. HandedOver'[s] = Append(HandedOver[s], AsSent(m))
  BY <1>3, <1>5, <1>6 DEF HandedOver
<1>8. \A t \in Sockets : t # s => HandedOver'[t] = HandedOver[t]
  BY <1>3, <1>5 DEF HandedOver
<1>9. /\ HandedOver' = [t \in Sockets |-> HandedOver'[t]]
      /\ HandedOver = [t \in Sockets |-> HandedOver[t]]
  BY DEF HandedOver
<1>. HIDE DEF Seen
<1>10. PICK F, G : F = HandedOver /\ G = HandedOver'
  OBVIOUS
<1>11. /\ F = [t \in Sockets |-> F[t]] /\ G = [t \in Sockets |-> G[t]]
       /\ G[s] = Append(F[s], AsSent(m)) /\ \A t \in Sockets : t # s => G[t] = F[t]
  BY <1>7, <1>8, <1>9, <1>10
<1>12. G = [F EXCEPT ![s] = Append(F[s], AsSent(m))]
  BY <1>11
<1>. QED  BY <1>10, <1>12

LEMMA StepIsTransport ==
    ASSUME IInv, MapsOK', Connected', LinesOK', NEW s \in Sockets, ProgramCalls(s) \/ ServiceThread(s)
    PROVE  T!TransportNext \/ UNCHANGED T!transportVars
<1>1. /\ TypeOK /\ Connected /\ InPlace /\ Kept /\ MapsOK /\ LinesOK
  BY PartsOfType DEF IInv
<1>2. OwnersKept
  BY <1>1, OwnersStay DEF OwnersKept
<1>3. PICK L \in [Lines -> Seq(Messages)] : L = InLine
  BY <1>1, LineFacts
<1>4. PICK K \in [Lines -> Seq(Messages)] : K = InLine'
  BY LineFactsNext
<1>5. LinesMove(s, L, K)
  BY <1>1, <1>3, <1>4, LinesMoveInSteps
<1>6. Once(L) /\ Underway = Image(On(L)) /\ Underway' = Image(On(K))'
  BY <1>1, <1>3, <1>4, UnderwayIsImage, UnderwayIsImageNext DEF Kept
<1>7. On(L) \subseteq Messages /\ \A m \in On(L) : Known(m.over)
  BY <1>1, <1>3, MessagesKnown DEF On
<1>8. \A m, n \in On(L) : m.number = n.number => m = n
  BY <1>6, OnDistinct
<1>9. /\ \A t \in Sockets : JobsOf(t) \in Ways /\ ReceivedBy(t) \in Lines \ Ways
      /\ \A e \in Ends : StreamTo(e) \in Ways /\ StreamTo(e) \in Lines
      /\ \A t \in Sockets : JobsOf(t) \in Lines
  BY WaysFacts
<1>10. UNCHANGED received => HandedOver' = HandedOver
  BY <1>1, <1>2, HandedStays
<1>11. /\ Torn' = Torn => Gone' = Gone
       /\ \A E \in SUBSET sockets[s] : E # {} /\ Torn' = Torn \cup E => Gone' = Gone \cup {s}
  BY <1>1, <1>2, GoneStays
<1>12. ASSUME On(K) \subseteq On(L)
       PROVE  Underway' = Image(On(K))
  <2>1. PICK O : O = On(K)
    OBVIOUS
  <2>2. O \in SUBSET Messages /\ \A m \in O : Known(m.over)
    BY <1>7, <1>12, <2>1
  <2>3. Image(O)' = Image(O)
    BY <1>2, <2>2, ImageStays
  <2>. QED  BY <1>6, <2>1, <2>3
<1>13. ASSUME UNCHANGED <<sends, received, Torn, garbled>>, On(K) = On(L)
       PROVE  UNCHANGED T!transportVars
  <2>1. Underway' = Underway /\ HandedOver' = HandedOver /\ Gone' = Gone
    BY <1>6, <1>10, <1>11, <1>12, <1>13
  <2>. QED  BY <1>13, <2>1 DEF T!transportVars
<1>14. ASSUME NEW m \in On(L), On(K) = On(L) \ {m}, SentTo(s, m),
              received' = [received EXCEPT ![s] = Append(received[s], m)]
       PROVE  /\ AsSent(m) \in Underway /\ T!HandOver(AsSent(m))
              /\ AsSent(m).to = s /\ AsSent(m).number = m.number
  <2>1. m \in Messages /\ Known(m.over)
    BY <1>7
  <2>2. AsSent(m) \in Underway /\ Underway' = Underway \ {AsSent(m)}
    BY <1>6, <1>8, <1>12, <1>14, ImageWithout
  <2>3. HandedOver' = [HandedOver EXCEPT ![s] = Append(HandedOver[s], AsSent(m))]
    BY <1>1, <1>2, <1>14, <2>1, HandedAppends
  <2>4. AsSent(m).to = s /\ AsSent(m).number = m.number
    BY <1>14 DEF SentTo, AsSent
  <2>5. T!HandOver(AsSent(m))
    BY <2>2, <2>3, <2>4 DEF T!HandOver
  <2>. QED  BY <2>2, <2>4, <2>5
<1>25. ASSUME NEW e \in Ends, NEW m \in Messages, ReadsMessage(s, e, m)
       PROVE  /\ Head(L[StreamTo(e)]) = m /\ SentTo(s, m) /\ e = Opposite(m.over)
              /\ Known(m.over) /\ Known(e) /\ {e} \in SUBSET sockets[s]
  <2>1. Head(L[StreamTo(e)]) = m
    BY <1>1, <1>3, <1>25, Heads
  <2>2. stream[e] \in Seq(Messages) /\ stream[e] # <<>> /\ m = Head(stream[e]) /\ e \in sockets[s]
    BY <1>1, <1>25 DEF LinesOK, ReadsMessage
  <2>3. 1 \in DOMAIN stream[e] /\ m = stream[e][1]
    BY <2>2, TailFacts
  <2>4. m.over = Opposite(e) /\ Owner(e) = s /\ Known(e)
    BY <1>1, <2>2, <2>3 DEF InPlace, Connected
  <2>5. e = Opposite(m.over) /\ Known(m.over)
    BY <2>4, EndsFacts DEF Known
  <2>. QED  BY <2>1, <2>2, <2>4, <2>5 DEF SentTo
<1>15. ASSUME On(K) \subseteq On(L), UNCHANGED <<sends, received, garbled>>,
              \A m \in On(L) \ On(K) : \E e \in Torn' :
                    Known(e) /\ e \in Ends /\ (e = m.over \/ e = Opposite(m.over))
       PROVE  T!Loses
  <2>1. Underway' = Image(On(K)) /\ HandedOver' = HandedOver
    BY <1>10, <1>12, <1>15
  <2>2. Underway' \subseteq Underway
    BY <1>6, <1>15, <2>1 DEF Image
  <2>3. ASSUME NEW x \in Underway \ Underway'
        PROVE  {x.from, x.to} \cap Gone' # {}
    <3>1. PICK m \in On(L) \ On(K) : x = AsSent(m)
      BY <1>6, <2>1, <2>3 DEF Image
    <3>2. PICK e \in Torn' : Known(e) /\ e \in Ends /\ (e = m.over \/ e = Opposite(m.over))
      BY <1>15, <3>1
    <3>3. Owner(e)' = Owner(e)
      BY <1>2, <3>2 DEF OwnersKept
    <3>4. Owner(e)' \in Gone'
      BY <3>2 DEF Gone
    <3>5. Owner(e) \in {x.from, x.to}
      BY <3>1, <3>2 DEF AsSent
    <3>. QED  BY <3>3, <3>4, <3>5
  <2>. QED  BY <1>15, <2>1, <2>2, <2>3 DEF T!Loses
<1>16. ASSUME NEW m \in Messages, SendsMessage(s, m), Grows(JobsOf(s), m, L, K)
       PROVE  T!TransportNext
  <2>1. On(K) = On(L) \cup {m}
    BY <1>9, <1>16, OnGrows
  <2>2. PICK O : O = On(L)
    OBVIOUS
  <2>3. Image(O)' = Image(O)
    BY <1>2, <1>7, <2>2, ImageStays
  <2>4. Underway' = Image(O \cup {m})'
    BY <1>6, <2>1, <2>2
  <2>5. Image(O \cup {m})' = Image(O)' \cup {AsSent(m)'}
    BY DEF Image
  <2>6. Underway' = Underway \cup {AsSent(m)'}
    BY <1>6, <2>2, <2>3, <2>4, <2>5
  <2>7. m.over \in sockets'[s] /\ m.number = sends' /\ sends' = sends + 1 /\ UNCHANGED <<received, Torn, garbled>>
    BY <1>16 DEF SendsMessage
  <2>8. Owner(m.over)' = s
    BY <2>7 DEF Connected
  <2>9. Owner(Opposite(m.over))' \in Sockets
    <3>1. m.over \in Ends /\ Opposite(m.over) \in Ends /\ Opposite(m.over)[1] = m.over[1]
      BY JobsFacts, EndsFacts
    <3>2. Known(m.over)'
      BY <2>7 DEF Connected
    <3>3. \A n \in DOMAIN connections' : connections'[n] \in [from : Sockets, to : Sockets]
      <4>1. PICK c \in Seq([from : Sockets, to : Sockets]) : c = connections'
        BY DEF MapsOK
      <4>2. \A n \in DOMAIN c : c[n] \in [from : Sockets, to : Sockets]
        BY ElementOfSeq, LenProperties
      <4>. QED  BY <4>1, <4>2
    <3>4. Opposite(m.over)[2] \in {"from", "to"}
      BY <3>1, EndsFacts
    <3>5. connections'[m.over[1]] \in [from : Sockets, to : Sockets]
      BY <3>2, <3>3 DEF Known
    <3>. QED  BY <3>1, <3>4, <3>5 DEF Owner
  <2>10. PICK to \in Sockets : to = Owner(Opposite(m.over))'
    BY <2>9
  <2>11. AsSent(m)' = [from |-> s, to |-> to, number |-> sends']
    BY <2>7, <2>8, <2>10 DEF AsSent
  <2>12. HandedOver' = HandedOver /\ Gone' = Gone
    BY <1>10, <1>11, <2>7
  <2>13. T!Send(s, to)
    BY <2>6, <2>7, <2>11, <2>12 DEF T!Send
  <2>. QED  BY <2>13 DEF T!TransportNext
<1>17. ASSUME NEW job \in Jobs, WritesMessage(s, job), NEW e \in Ends, Moves(JobsOf(s), StreamTo(e), L, K)
       PROVE  UNCHANGED T!transportVars
  <2>1. On(K) = On(L)
    BY <1>6, <1>9, <1>17, OnMoves
  <2>. QED  BY <1>13, <1>17, <2>1 DEF WritesMessage
<1>18. ASSUME NEW job \in Jobs, PutsBackAgain(s, job), GoesBehind(JobsOf(s), L, K)
       PROVE  UNCHANGED T!transportVars
  <2>1. On(K) = On(L)
    BY <1>6, <1>9, <1>18, OnGoesBehind
  <2>. QED  BY <1>13, <1>18, <2>1 DEF PutsBackAgain
<1>19. ASSUME NEW e \in Ends, NEW m \in Messages, PutsBack(s, e, m), Moves(StreamTo(e), JobsOf(s), L, K)
       PROVE  T!TransportNext \/ UNCHANGED T!transportVars
  <2>1. ReadsMessage(s, e, m) /\ WholeOrGarbled(e, m) /\ UNCHANGED <<sends, received>>
    BY <1>19 DEF PutsBack, ReadsMessage
  <2>2. Head(L[StreamTo(e)]) = m /\ SentTo(s, m) /\ {e} \in SUBSET sockets[s]
    BY <1>25, <2>1
  <2>3. On(K) = On(L) /\ m \in On(L)
    BY <1>6, <1>9, <1>19, <2>2, OnMoves
  <2>4. CASE UNCHANGED <<Torn, garbled>>
    BY <1>13, <2>1, <2>3, <2>4
  <2>5. CASE Torn' = Torn \cup {e} /\ garbled' = garbled \cup {m.number}
    <3>1. Underway' = Underway /\ HandedOver' = HandedOver /\ AsSent(m) \in Underway
      BY <1>6, <1>10, <1>12, <2>1, <2>3 DEF Image
    <3>2. Gone' = Gone \cup {s}
      BY <1>11, <2>2, <2>5
    <3>3. AsSent(m).to = s /\ AsSent(m).number = m.number
      BY <2>2 DEF SentTo, AsSent
    <3>4. T!Garble(AsSent(m))
      BY <2>1, <2>5, <3>1, <3>2, <3>3 DEF T!Garble
    <3>. QED  BY <3>1, <3>4 DEF T!TransportNext
  <2>. QED  BY <2>1, <2>4, <2>5 DEF WholeOrGarbled
<1>20. CASE MovesNothing /\ K = L
  BY <1>13, <1>20 DEF MovesNothing
<1>21. ASSUME NEW job \in Jobs, HandsOver(s, job), Moves(JobsOf(s), ReceivedBy(s), L, K)
       PROVE  T!TransportNext
  <2>1. Head(L[JobsOf(s)]) = job.message
    BY <1>1, <1>3, <1>21, Heads DEF HandsOver
  <2>2. job.message \in On(L) /\ On(K) = On(L) \ {job.message}
    <3>1. JobsOf(s) \in Ways /\ ReceivedBy(s) \in Lines /\ ReceivedBy(s) \notin Ways
      BY <1>9
    <3>2. Head(L[JobsOf(s)]) \in On(L) /\ On(K) = On(L) \ {Head(L[JobsOf(s)])}
      BY <1>6, <1>21, <3>1, OnMoves
    <3>. QED  BY <2>1, <3>2
  <2>3. SentTo(s, job.message)
    <3>1. jobs[s] \in Seq(Jobs) /\ jobs[s] # <<>> /\ job = Head(jobs[s])
      BY <1>1, <1>21 DEF LinesOK, HandsOver, Takes
    <3>2. 1 \in DOMAIN jobs[s] /\ job = jobs[s][1]
      BY <3>1, TailFacts
    <3>. QED  BY <1>1, <1>21, <3>2 DEF InPlace, JobInPlace, HandsOver
  <2>4. /\ received' = [received EXCEPT ![s] = Append(received[s], job.message)]
        /\ UNCHANGED <<sends, Torn, garbled>>
    BY <1>21 DEF HandsOver
  <2>5. AsSent(job.message) \in Underway /\ T!HandOver(AsSent(job.message))
    BY <1>14, <2>2, <2>3, <2>4
  <2>6. T!Deliver(AsSent(job.message))
    BY <1>11, <2>4, <2>5 DEF T!Deliver
  <2>. QED  BY <2>5, <2>6 DEF T!TransportNext
<1>22. ASSUME NEW e \in Ends, NEW m \in Messages, ReadsOver(s, e, m),
              Moves(StreamTo(e), ReceivedBy(s), L, K)
       PROVE  T!TransportNext
  <2>1. /\ ReadsMessage(s, e, m) /\ WholeOrGarbled(e, m) /\ UNCHANGED sends
        /\ received' = [received EXCEPT ![s] = Append(received[s], m)]
    BY <1>22 DEF ReadsOver, ReadsMessage
  <2>2. Head(L[StreamTo(e)]) = m /\ SentTo(s, m) /\ {e} \in SUBSET sockets[s]
    BY <1>25, <2>1
  <2>3. m \in On(L) /\ On(K) = On(L) \ {m}
    BY <1>6, <1>9, <1>22, <2>2, OnMoves
  <2>4. /\ AsSent(m) \in Underway /\ T!HandOver(AsSent(m))
        /\ AsSent(m).to = s /\ AsSent(m).number = m.number
    BY <1>14, <2>1, <2>2, <2>3
  <2>5. CASE UNCHANGED <<Torn, garbled>>
    <3>1. T!Deliver(AsSent(m))
      BY <1>11, <2>1, <2>4, <2>5 DEF T!Deliver
    <3>. QED  BY <2>4, <3>1 DEF T!TransportNext
  <2>6. CASE Torn' = Torn \cup {e} /\ garbled' = garbled \cup {m.number}
    <3>1. Gone' = Gone \cup {s}
      BY <1>11, <2>2, <2>6
    <3>2. T!Garble(AsSent(m))
      BY <2>1, <2>4, <2>6, <3>1 DEF T!Garble
    <3>. QED  BY <2>4, <3>2 DEF T!TransportNext
  <2>. QED  BY <2>1, <2>5, <2>6 DEF WholeOrGarbled
<1>23. ASSUME NEW job \in Jobs, DropsMessage(s, job), Shrinks(JobsOf(s), L, K)
       PROVE  T!TransportNext
  <2>1. Head(L[JobsOf(s)]) = job.message /\ job.message \in Messages
    BY <1>1, <1>3, <1>23, Heads DEF DropsMessage
  <2>2. PICK m \in Messages : m = job.message
    BY <2>1
  <2>3. On(K) = On(L) \ {m}
    BY <1>6, <1>9, <1>23, <2>1, <2>2, OnShrinks
  <2>4. PICK e \in Torn : e = m.over \/ e = Opposite(m.over)
    BY <1>23, <2>2 DEF DropsMessage
  <2>5. e \in Torn' /\ Known(e) /\ e \in Ends /\ UNCHANGED <<sends, received, Torn, garbled>>
    <3>1. UNCHANGED <<sends, received, Torn, garbled>>
      BY <1>23 DEF DropsMessage
    <3>2. Known(e) /\ e \in Ends
      BY <1>1, <2>4 DEF Connected, MapsOK, Torn
    <3>. QED  BY <2>4, <3>1, <3>2
  <2>6. T!Loses
    BY <1>15, <2>3, <2>4, <2>5
  <2>. QED  BY <1>11, <2>5, <2>6 DEF T!TransportNext, T!Lose
<1>24. CASE ClearsStreams(s) /\ Clears(L, K)
  <2>1. /\ Torn' = Torn \cup sockets[s] /\ sockets[s] # {}
        /\ UNCHANGED <<sends, received, jobs, garbled>>
        /\ \A e \in Ends : stream'[e] = stream[e] \/ {e, Opposite(e)} \cap sockets[s] # {}
    BY <1>24 DEF ClearsStreams
  <2>2. On(K) \subseteq On(L)
    BY <1>24, OnClears
  <2>3. ASSUME NEW m \in On(L) \ On(K)
        PROVE  \E e \in Torn' : Known(e) /\ e \in Ends /\ (e = m.over \/ e = Opposite(m.over))
    <3>1. PICK l \in Ways : K[l] # L[l] /\ \E i \in DOMAIN L[l] : L[l][i] = m
      BY <1>24, OnClears
    <3>2. PICK i \in DOMAIN L[l] : L[l][i] = m
      BY <3>1
    <3>3. ASSUME NEW t \in Sockets
          PROVE  l # JobsOf(t)
      <4>1. L[JobsOf(t)] = MessagesOf(jobs[t])
        BY <1>1, <1>3, LineFacts
      <4>2. K[JobsOf(t)] = MessagesOf(jobs'[t])
        BY <1>4, LineFactsNext
      <4>. QED  BY <2>1, <3>1, <4>1, <4>2
    <3>4. PICK f \in Ends : l = StreamTo(f)
      BY <3>3, WaysFacts
    <3>5. L[l] = stream[f] /\ K[l] = stream'[f]
      <4>1. L[StreamTo(f)] = stream[f]
        BY <1>1, <1>3, LineFacts
      <4>2. K[StreamTo(f)] = stream'[f]
        BY <1>4, LineFactsNext
      <4>. QED  BY <3>4, <4>1, <4>2
    <3>6. m.over = Opposite(f) /\ Opposite(Opposite(f)) = f
      BY <1>1, <3>2, <3>5, EndsFacts DEF InPlace
    <3>7. PICK e \in sockets[s] : e = f \/ e = Opposite(f)
      BY <2>1, <3>1, <3>5
    <3>8. e \in Torn' /\ Known(e) /\ e \in Ends
      BY <1>1, <2>1 DEF Connected, MapsOK
    <3>. QED  BY <3>6, <3>7, <3>8
  <2>4. T!Loses
    BY <1>15, <2>1, <2>2, <2>3
  <2>5. Gone' = Gone \cup {s}
    BY <1>11, <2>1
  <2>. QED  BY <2>4, <2>5 DEF T!TransportNext, T!Leave
<1>26. ASSUME NEW e \in Ends, NEW m \in Messages, SwallowsMessage(s, e, m),
              Shrinks(StreamTo(e), L, K)
       PROVE  T!TransportNext
  <2>1. /\ ReadsMessage(s, e, m) /\ Torn' = Torn \cup {e}
        /\ UNCHANGED <<sends, received, garbled>>
    BY <1>26 DEF SwallowsMessage, ReadsMessage
  <2>2. /\ Head(L[StreamTo(e)]) = m /\ e = Opposite(m.over) /\ Known(e)
        /\ {e} \in SUBSET sockets[s]
    BY <1>25, <2>1
  <2>3. On(K) = On(L) \ {m}
    BY <1>6, <1>9, <1>26, <2>2, OnShrinks
  <2>4. e \in Torn'
    BY <2>1
  <2>5. T!Loses
    BY <1>15, <2>1, <2>2, <2>3, <2>4
  <2>6. Gone' = Gone \cup {s}
    BY <1>11, <2>1, <2>2
  <2>. QED  BY <2>5, <2>6 DEF T!TransportNext, T!Leave
<1>. QED
  BY <1>5, <1>16, <1>17, <1>18, <1>19, <1>20, <1>21, <1>22, <1>23, <1>24, <1>26 DEF LinesMove

LEMMA IInvParts == IInv => MapsOK /\ LinesOK /\ Connected
  BY PartsOfType DEF IInv

\* The sockets promise what Transport does, but for the order: every message is handed
\* over at most once and by the socket it was sent to; put back or written late, it stays
\* on its way.  Only a close() or a size read in part (AsioStreaming.cpp:42) loses any, from
\* or to its own socket; and only the socket that has read one hands over others in their
\* place.
THEOREM StreamsImplementTransport == Spec => ImplementsTransport
<1>1. Init => T!TransportInit
  <2>. SUFFICES ASSUME Init PROVE T!TransportInit
    OBVIOUS
  <2>1. LinesOK
    BY InitIInv, PartsOfType DEF IInv
  <2>2. PICK L \in [Lines -> Seq(Messages)] : L = InLine
    BY <2>1, LineFacts
  <2>3. ASSUME NEW l \in Ways
        PROVE  L[l] = <<>>
    <3>1. MessagesOf(<<>>) = <<>>
      BY EmptySeq DEF MessagesOf
    <3>2. CASE \E t \in Sockets : l = JobsOf(t)
      BY <2>1, <2>2, <3>1, <3>2, LineFacts DEF Init
    <3>3. CASE \E e \in Ends : l = StreamTo(e)
      BY <2>1, <2>2, <3>3, LineFacts DEF Init
    <3>. QED  BY <3>2, <3>3, WaysFacts
  <2>4. Underway = {}
    <3>1. On(L) = {}
      BY <2>3, EmptySeq DEF On
    <3>. QED  BY <2>1, <2>2, <3>1, UnderwayIsImage DEF Image
  <2>5. HandedOver = [s \in Sockets |-> <<>>]
    <3>1. \A s \in Sockets : received[s] = <<>>
      BY DEF Init
    <3>2. \A s \in Sockets : [i \in DOMAIN received[s] |-> AsSent(received[s][i])] = <<>>
      BY <3>1, EmptySeq
    <3>. QED  BY <3>2 DEF HandedOver
  <2>6. sends = 0 /\ Gone = {} /\ garbled = {}
    BY DEF Init, Gone, Torn
  <2>. QED  BY <2>4, <2>5, <2>6 DEF T!TransportInit
<1>2. ASSUME IInv, IInv', [Next]_vars
      PROVE  [T!TransportNext]_(T!transportVars)
  <2>1. MapsOK' /\ LinesOK' /\ Connected'
    <3>1. (IInv => MapsOK /\ LinesOK /\ Connected)'
      BY IInvParts, PTL
    <3>. QED  BY <1>2, <3>1
  <2>2. ASSUME NEW s \in Sockets, ProgramCalls(s) \/ ServiceThread(s)
        PROVE  T!TransportNext \/ UNCHANGED T!transportVars
    BY <1>2, <2>1, <2>2, StepIsTransport
  <2>3. CASE UNCHANGED vars
    <3>. USE <2>3 DEF vars, connectionVars, mapVars, threadVars, receiveVars
    <3>1. Underway' = Underway
      BY DEF Underway, OnWay, InLine, AsSent, Owner
    <3>2. HandedOver' = HandedOver /\ Gone' = Gone
      BY DEF HandedOver, AsSent, Owner, Gone, Torn
    <3>. QED  BY <3>1, <3>2 DEF T!transportVars
  <2>. QED  BY <1>2, <2>2, <2>3 DEF Next
<1>. QED  BY <1>1, <1>2, StreamInvariance, PTL DEF Spec, ImplementsTransport, T!TransportSpec

=============================================================================
