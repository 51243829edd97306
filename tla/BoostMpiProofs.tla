---------------------------- MODULE BoostMpiProofs ----------------------------
(***************************************************************************)
(* What the MPI sockets guarantee for any number of processes, sockets,    *)
(* messages and receives: no tracker ends with something left to track,    *)
(* the receives of an endpoint are served in the order of their calls, and *)
(* a datagram, although it travels as two MPI messages, arrives whole,     *)
(* once and in order, that is, every step is one of Transport.             *)
(***************************************************************************)
EXTENDS BoostMpi, SequenceTheorems, TLAPS

-----------------------------------------------------------------------------
(* The inductive invariant *)

\* What is in the hands of a process belongs to an endpoint of that process, and what
\* is between two processes to the pair it travels between.
SocketsAtHome == \A s \in Sockets : local[s] # Closed => local[s][1] = RankOf[s]

JobsAtHome ==
    \A r \in Ranks : \A i \in DOMAIN jobs[r] :
        /\ jobs[r][i].run = "send" => jobs[r][i].message.from[1] = r
        /\ jobs[r][i].run = "receive" => jobs[r][i].local[1] = r

WireAtHome ==
    \A r \in Ranks, e \in Endpoints : \A i \in DOMAIN wire[r][e] :
        wire[r][e][i].of.from[1] = r /\ wire[r][e][i].of.to = e

Fits(p, r) ==
    /\ p.local[1] = r
    /\ p.header.of = p.body.of
    /\ p.body.of.to = p.local
    /\ p.body.of.from[1] = p.source

ReceivesAtHome ==
    \A r \in Ranks : \A i \in DOMAIN pendingReceives[r] : Fits(pendingReceives[r][i], r)

AtHome == SocketsAtHome /\ JobsAtHome /\ WireAtHome /\ ReceivesAtHome

\* Between two processes a header is always followed by its body.
HeaderOf(m) == [kind |-> "header", of |-> m]
BodyOf(m) == [kind |-> "body", of |-> m]

Paired ==
    \A r \in Ranks, e \in Endpoints : \A i \in DOMAIN wire[r][e] :
        \/ /\ wire[r][e][i].kind = "header"
           /\ i + 1 \in DOMAIN wire[r][e]
           /\ wire[r][e][i + 1] = BodyOf(wire[r][e][i].of)
        \/ /\ wire[r][e][i].kind = "body"
           /\ i - 1 \in DOMAIN wire[r][e]
           /\ wire[r][e][i - 1] = HeaderOf(wire[r][e][i].of)

\* A message on its way from a process to an endpoint has a place: a stage, counted from
\* the receiver (being received, between the processes, still a job), and an index in
\* the queue of that stage.
IsSend(job) == job.run = "send"
IsHeader(part) == part.kind = "header"

MessagePlace(r, e, stage, i) ==
    \/ /\ stage = 1 /\ i \in DOMAIN pendingReceives[e[1]]
       /\ pendingReceives[e[1]][i].source = r /\ pendingReceives[e[1]][i].local = e
    \/ /\ stage = 2 /\ i \in DOMAIN wire[r][e]
       /\ IsHeader(wire[r][e][i])
    \/ /\ stage = 3 /\ i \in DOMAIN jobs[r]
       /\ IsSend(jobs[r][i]) /\ jobs[r][i].message.to = e

MessageAt(r, e, stage, i) ==
    IF stage = 1 THEN pendingReceives[e[1]][i].body.of
    ELSE IF stage = 2 THEN wire[r][e][i].of
    ELSE jobs[r][i].message

Ahead(stage, i, other, j) == stage < other \/ (stage = other /\ i < j)

\* The messages on their way from a process to an endpoint are in the order in which
\* they were sent.
SentInOrder ==
    \A r \in Ranks, e \in Endpoints, k \in 1 .. 3, i \in Nat : MessagePlace(r, e, k, i) =>
        /\ MessageAt(r, e, k, i).number <= sends
        /\ \A l \in 1 .. 3, j \in Nat :
            MessagePlace(r, e, l, j) /\ Ahead(k, i, l, j)
                => MessageAt(r, e, k, i).number < MessageAt(r, e, l, j).number

\* The same of a receive of an endpoint: its call has got its datagram, is getting it,
\* waits for it or is still a job.
IsReceive(job, e) == job.run = "receive" /\ job.local = e

CallPlace(e, stage, i) ==
    \/ stage = 1 /\ i \in DOMAIN fulfilled[e]
    \/ /\ stage = 2 /\ i \in DOMAIN pendingReceives[e[1]]
       /\ pendingReceives[e[1]][i].local = e
    \/ stage = 3 /\ i \in DOMAIN pendingProbes[e]
    \/ stage = 4 /\ i \in DOMAIN jobs[e[1]] /\ IsReceive(jobs[e[1]][i], e)

CallAt(e, stage, i) ==
    IF stage = 1 THEN fulfilled[e][i].promise
    ELSE IF stage = 2 THEN pendingReceives[e[1]][i].promise
    ELSE IF stage = 3 THEN pendingProbes[e][i]
    ELSE jobs[e[1]][i].promise

\* The receives of an endpoint are in the order in which they were called.
CalledInOrder ==
    \A e \in Endpoints, k \in 1 .. 4, i \in Nat : CallPlace(e, k, i) =>
        /\ CallAt(e, k, i) <= receives
        /\ \A l \in 1 .. 4, j \in Nat :
            CallPlace(e, l, j) /\ Ahead(k, i, l, j) => CallAt(e, k, i) < CallAt(e, l, j)

-----------------------------------------------------------------------------
(* Families of queues *)

\* One queue of a family loses its head.
LEMMA HeadLeaves ==
    ASSUME NEW I, NEW S, NEW f \in [I -> Seq(S)], NEW r \in I, f[r] # <<>>,
           NEW g, g = [f EXCEPT ![r] = Tail(@)]
    PROVE  /\ g \in [I -> Seq(S)]
           /\ Head(f[r]) \in S /\ Head(f[r]) = f[r][1] /\ 1 \in DOMAIN f[r]
           /\ \A q \in I \ {r} : g[q] = f[q]
           /\ \A i \in DOMAIN g[r] :
                i + 1 \in DOMAIN f[r] /\ 1 < i + 1 /\ g[r][i] = f[r][i + 1]
<1>1. f[r] \in Seq(S) /\ Len(f[r]) \in Nat /\ DOMAIN f[r] = 1 .. Len(f[r])
  BY LenProperties
<1>2. /\ Tail(f[r]) \in Seq(S)
      /\ Head(f[r]) \in S
      /\ Len(Tail(f[r])) = Len(f[r]) - 1
      /\ \A i \in 1 .. Len(Tail(f[r])) : Tail(f[r])[i] = f[r][i + 1]
  BY <1>1, HeadTailProperties
<1>3. DOMAIN Tail(f[r]) = 1 .. Len(Tail(f[r]))
  BY <1>2, LenProperties
<1>4. Len(f[r]) > 0 /\ Head(f[r]) = f[r][1]
  BY <1>1
<1>5. g[r] = Tail(f[r])
  OBVIOUS
<1>. QED  BY <1>1, <1>2, <1>3, <1>4, <1>5

\* One queue of a family gets another element.
LEMMA ElementComes ==
    ASSUME NEW I, NEW S, NEW f \in [I -> Seq(S)], NEW r \in I, NEW x \in S,
           NEW g, g = [f EXCEPT ![r] = Append(@, x)]
    PROVE  /\ g \in [I -> Seq(S)]
           /\ \A q \in I \ {r} : g[q] = f[q]
           /\ \A i \in DOMAIN f[r] : i < Len(f[r]) + 1
           /\ g[r][Len(f[r]) + 1] = x
           /\ \A i \in DOMAIN g[r] :
                \/ i \in DOMAIN f[r] /\ g[r][i] = f[r][i]
                \/ i = Len(f[r]) + 1
<1>1. f[r] \in Seq(S) /\ Len(f[r]) \in Nat /\ DOMAIN f[r] = 1 .. Len(f[r])
  BY LenProperties
<1>2. /\ Append(f[r], x) \in Seq(S)
      /\ Len(Append(f[r], x)) = Len(f[r]) + 1
      /\ \A i \in 1 .. Len(f[r]) : Append(f[r], x)[i] = f[r][i]
      /\ Append(f[r], x)[Len(f[r]) + 1] = x
  BY <1>1, AppendProperties
<1>3. DOMAIN Append(f[r], x) = 1 .. Len(f[r]) + 1
  BY <1>2, LenProperties
<1>4. g[r] = Append(f[r], x)
  OBVIOUS
<1>. QED  BY <1>1, <1>2, <1>3, <1>4

\* Two elements behind a sequence.
LEMMA TwoBehind ==
    ASSUME NEW S, NEW w \in Seq(S), NEW t \in Seq(S), Len(t) = 2
    PROVE  /\ w \o t \in Seq(S)
           /\ DOMAIN (w \o t) = 1 .. Len(w) + 2
           /\ \A i \in 1 .. Len(w) : (w \o t)[i] = w[i]
           /\ (w \o t)[Len(w) + 1] = t[1]
           /\ (w \o t)[Len(w) + 2] = t[2]
<1>. DEFINE n == Len(w)
<1>1. n \in Nat
  BY LenProperties
<1>2. /\ w \o t \in Seq(S)
      /\ Len(w \o t) = n + 2
      /\ \A i \in 1 .. n + 2 : (w \o t)[i] = IF i <= n THEN w[i] ELSE t[i - n]
  <2>1. /\ w \o t \in Seq(S)
        /\ Len(w \o t) = Len(w) + Len(t)
        /\ \A i \in 1 .. Len(w) + Len(t) :
            (w \o t)[i] = IF i <= Len(w) THEN w[i] ELSE t[i - Len(w)]
    BY ConcatProperties, Zenon
  <2>. QED  BY <2>1
<1>3. DOMAIN (w \o t) = 1 .. n + 2
  BY <1>2, LenProperties
<1>. HIDE DEF n
<1>4. /\ \A i \in 1 .. n : i \in 1 .. n + 2 /\ i <= n
      /\ n + 1 \in 1 .. n + 2 /\ ~(n + 1 <= n) /\ (n + 1) - n = 1
      /\ n + 2 \in 1 .. n + 2 /\ ~(n + 2 <= n) /\ (n + 2) - n = 2
  BY <1>1
<1>5. (w \o t)[n + 1] = t[1] /\ (w \o t)[n + 2] = t[2]
  BY <1>2, <1>4
<1>. QED  BY <1>2, <1>3, <1>4, <1>5 DEF n

-----------------------------------------------------------------------------
(* Types *)

LEMMA EndpointTypes ==
    /\ Closed \in Endpoints
    /\ \A e \in Endpoints : e[1] \in Ranks /\ e[2] \in Tags
    /\ \A s \in Sockets, tag \in Tags :
        Requested[s] \in {0, tag} => <<RankOf[s], tag>> \in Endpoints
<1>. QED  BY RanksAssumption, TagsAssumption, SocketsAssumption DEF Endpoints, Closed

LEMMA JobTypes ==
    ASSUME NEW job \in Jobs
    PROVE  /\ job.run = "send" => job.message \in Messages
           /\ job.run = "receive" => job.local \in Endpoints /\ job.promise \in Promises
           /\ job.run = "close" => job.local \in Endpoints
<1>. QED  BY DEF Jobs, SendJob, ReceiveJob, CloseJob

LEMMA PostType ==
    ASSUME TypeOK, NEW r \in Ranks, NEW job \in Jobs, Post(r, job)
    PROVE  jobs' \in [Ranks -> Seq(Jobs)]
<1>. QED  BY ElementComes DEF TypeOK, Post

LEMMA EndsJobType ==
    ASSUME TypeOK, NEW r \in Ranks, jobs[r] # <<>>, EndsJob(r)
    PROVE  jobs' \in [Ranks -> Seq(Jobs)] /\ Head(jobs[r]) \in Jobs
<1>. QED  BY HeadLeaves DEF TypeOK, EndsJob

LEMMA Parts ==
    \A m : /\ HeaderOf(m).kind = "header" /\ HeaderOf(m).of = m
           /\ BodyOf(m).kind = "body" /\ BodyOf(m).of = m
<1>. QED  BY DEF HeaderOf, BodyOf

LEMMA MessageTypes ==
    ASSUME NEW m \in Messages
    PROVE  /\ m.from \in Endpoints /\ m.to \in Endpoints /\ m.number \in Nat
           /\ Isends(m) \in Seq(Headers \cup Bodies)
           /\ Len(Isends(m)) = 2
           /\ Isends(m)[1] = HeaderOf(m)
           /\ Isends(m)[2] = BodyOf(m)
<1>. QED  BY BoundsAssumption DEF Messages, Isends, Headers, Bodies, HeaderOf, BodyOf

\* What the jobs and calls do to the types.
LEMMA CallTypes ==
    ASSUME TypeOK, NEW s \in Sockets, ProgramCalls(s) \/ BindBlocks(s)
    PROVE  TypeOK'
<1>. RankOf[s] \in Ranks /\ local[s] \in Endpoints
  BY SocketsAssumption DEF TypeOK
<1>1. CASE BindChooses(s)
  <2>1. PICK tag \in Tags :
            /\ IF Requested[s] # 0 THEN tag = Requested[s]
               ELSE <<RankOf[s], tag>> \notin blockedEndpoints'
            /\ local' = [local EXCEPT ![s] = <<RankOf[s], tag>>]
    BY <1>1 DEF BindChooses
  <2>2. <<RankOf[s], tag>> \in Endpoints
    BY <2>1, EndpointTypes
  <2>3. local' \in [Sockets -> Endpoints]
    BY <2>1, <2>2 DEF TypeOK
  <2>4. openings' \in 0 .. MaxOpenings
    BY <1>1, BoundsAssumption DEF BindChooses, TypeOK
  <2>. QED  BY <1>1, <2>3, <2>4 DEF BindChooses, mpiVars, TypeOK
<1>2. CASE \E to \in Endpoints : AsyncSendTo(s, to)
  <2>1. PICK to \in Endpoints : AsyncSendTo(s, to)
    BY <1>2
  <2>2. sends' \in 1 .. MaxSends /\ sends' \in 0 .. MaxSends
    <3>1. sends \in 0 .. MaxSends /\ sends < MaxSends /\ sends' = sends + 1
      BY <2>1 DEF AsyncSendTo, TypeOK
    <3>. QED  BY <3>1, BoundsAssumption
  <2>3. [from |-> local[s], to |-> to, number |-> sends'] \in Messages
    BY <2>2 DEF Messages
  <2>4. SendJob([from |-> local[s], to |-> to, number |-> sends']) \in Jobs
    BY <2>3 DEF Jobs
  <2>5. jobs' \in [Ranks -> Seq(Jobs)]
    BY <2>1, <2>4, PostType DEF AsyncSendTo
  <2>. QED  BY <2>1, <2>2, <2>5 DEF AsyncSendTo, bindVars, mpiVars, TypeOK
<1>3. CASE AsyncReceiveFrom(s)
  <2>2. receives' \in Promises /\ receives' \in 0 .. MaxReceives
    BY <1>3, BoundsAssumption DEF AsyncReceiveFrom, TypeOK, Promises
  <2>4. ReceiveJob(local[s], receives') \in Jobs
    BY <2>2 DEF Jobs
  <2>5. jobs' \in [Ranks -> Seq(Jobs)]
    BY <1>3, <2>4, PostType DEF AsyncReceiveFrom
  <2>. QED  BY <1>3, <2>2, <2>5 DEF AsyncReceiveFrom, bindVars, mpiVars, TypeOK
<1>4. CASE CloseSocket(s)
  <2>1. CloseJob(local[s]) \in Jobs
    BY DEF Jobs
  <2>2. jobs' \in [Ranks -> Seq(Jobs)]
    BY <1>4, <2>1, PostType DEF CloseSocket
  <2>3. openings' \in 0 .. MaxOpenings
    BY <1>4, BoundsAssumption DEF CloseSocket, TypeOK
  <2>. QED  BY <1>4, <2>2, <2>3, EndpointTypes DEF CloseSocket, mpiVars, TypeOK
<1>5. CASE BindBlocks(s)
  BY <1>5 DEF BindBlocks, callVars, mpiVars, TypeOK
<1>. QED  BY <1>1, <1>2, <1>3, <1>4, <1>5 DEF ProgramCalls

\* The two MPI messages of a datagram go behind those on the wire ...
Grown(old, new, m) ==
    LET n == Len(old) IN
    /\ n \in Nat /\ DOMAIN old = 1 .. n /\ DOMAIN new = 1 .. n + 2
    /\ \A i \in 1 .. n : new[i] = old[i]
    /\ new[n + 1] = HeaderOf(m)
    /\ new[n + 2] = BodyOf(m)

LEMMA GrownKeeps ==
    ASSUME NEW old, NEW new, NEW m, Grown(old, new, m), NEW i \in DOMAIN old
    PROVE  i \in DOMAIN new /\ new[i] = old[i]
<1>. QED  BY DEF Grown

LEMMA GrownAdds ==
    ASSUME NEW old, NEW new, NEW m, Grown(old, new, m),
           NEW i \in DOMAIN new, i \notin DOMAIN old
    PROVE  /\ \A k \in DOMAIN old : k < i
           /\ \/ /\ new[i] = HeaderOf(m)
                 /\ i + 1 \in DOMAIN new /\ new[i + 1] = BodyOf(m)
                 /\ \A k \in DOMAIN new : i < k => new[k].kind = "body"
              \/ /\ new[i] = BodyOf(m)
                 /\ i - 1 \in DOMAIN new /\ new[i - 1] = HeaderOf(m)
<1>. DEFINE n == Len(old)
<1>1. /\ n \in Nat /\ DOMAIN old = 1 .. n /\ DOMAIN new = 1 .. n + 2
      /\ \A k \in 1 .. n : new[k] = old[k]
      /\ new[n + 1] = HeaderOf(m)
      /\ new[n + 2] = BodyOf(m)
  BY DEF Grown
<1>. HIDE DEF n
<1>3. i = n + 1 \/ i = n + 2
  BY <1>1
<1>4. /\ n + 1 \in DOMAIN new /\ n + 2 \in DOMAIN new
      /\ (n + 1) + 1 = n + 2 /\ (n + 2) - 1 = n + 1
      /\ \A k \in DOMAIN old : k < n + 1 /\ k < n + 2
      /\ \A k \in DOMAIN new : n + 1 < k => k = n + 2
  BY <1>1
<1>. QED  BY <1>1, <1>3, <1>4, Parts

LEMMA WireGrows ==
    ASSUME TypeOK, NEW r \in Ranks, NEW m \in Messages,
           wire' = [wire EXCEPT ![r][m.to] = @ \o Isends(m)]
    PROVE  /\ wire' \in [Ranks -> [Endpoints -> Seq(Headers \cup Bodies)]]
           /\ \A q \in Ranks, e \in Endpoints :
                q # r \/ e # m.to => wire'[q][e] = wire[q][e]
           /\ Grown(wire[r][m.to], wire'[r][m.to], m)
<1>. DEFINE S == Headers \cup Bodies
            w == wire[r][m.to]
            n == Len(w)
<1>1. m.to \in Endpoints /\ Isends(m) \in Seq(S) /\ Len(Isends(m)) = 2
  BY MessageTypes
<1>2. w \in Seq(S) /\ n \in Nat /\ DOMAIN w = 1 .. n
  BY <1>1, LenProperties, SMTT(20) DEF TypeOK
<1>3. wire'[r][m.to] = w \o Isends(m)
  BY <1>1 DEF TypeOK
<1>4. /\ w \o Isends(m) \in Seq(S)
      /\ DOMAIN (w \o Isends(m)) = 1 .. n + 2
      /\ \A i \in 1 .. n : (w \o Isends(m))[i] = w[i]
      /\ (w \o Isends(m))[n + 1] = Isends(m)[1]
      /\ (w \o Isends(m))[n + 2] = Isends(m)[2]
  <2>1. w \in Seq(S) /\ Isends(m) \in Seq(S) /\ Len(Isends(m)) = 2
    BY <1>1, <1>2
  <2>. HIDE DEF S, w
  <2>. QED  BY <2>1, TwoBehind, Zenon
<1>5. DOMAIN wire'[r][m.to] = 1 .. n + 2
  BY <1>3, <1>4
<1>6. /\ \A i \in 1 .. n : wire'[r][m.to][i] = w[i]
      /\ wire'[r][m.to][n + 1] = HeaderOf(m)
      /\ wire'[r][m.to][n + 2] = BodyOf(m)
  BY <1>3, <1>4, MessageTypes
<1>7. wire' \in [Ranks -> [Endpoints -> Seq(S)]]
  BY <1>1, <1>3, <1>4 DEF TypeOK
<1>8. \A q \in Ranks, e \in Endpoints : q # r \/ e # m.to => wire'[q][e] = wire[q][e]
  BY <1>1 DEF TypeOK
<1>. QED  BY <1>2, <1>5, <1>6, <1>7, <1>8 DEF Grown

\* ... and the first two are taken from there.
Shrunk(old, new) ==
    /\ 1 \in DOMAIN old /\ 2 \in DOMAIN old
    /\ \A i \in DOMAIN new :
        i \in Nat /\ i > 0 /\ i + 2 \in DOMAIN old /\ new[i] = old[i + 2]
    /\ \A i \in DOMAIN old : i > 2 => i - 2 \in DOMAIN new

LEMMA WireShrinks ==
    ASSUME TypeOK, NEW src \in Ranks, NEW e \in Endpoints, Len(wire[src][e]) > 1,
           wire' = [wire EXCEPT ![src][e] = Behind(@)]
    PROVE  /\ wire' \in [Ranks -> [Endpoints -> Seq(Headers \cup Bodies)]]
           /\ \A q \in Ranks, f \in Endpoints :
                q # src \/ f # e => wire'[q][f] = wire[q][f]
           /\ Shrunk(wire[src][e], wire'[src][e])
<1>. DEFINE S == Headers \cup Bodies
            w == wire[src][e]
            n == Len(w)
<1>2. w \in Seq(S) /\ n \in Nat /\ DOMAIN w = 1 .. n /\ \A i \in 1 .. n : w[i] \in S
  BY LenProperties DEF TypeOK
<1>3. wire'[src][e] = SubSeq(w, 3, n)
  BY DEF TypeOK, Behind
<1>4. /\ SubSeq(w, 3, n) \in Seq(S)
      /\ Len(SubSeq(w, 3, n)) = IF 3 <= n THEN n - 3 + 1 ELSE 0
      /\ \A i \in 1 .. n - 3 + 1 : SubSeq(w, 3, n)[i] = w[3 + i - 1]
  <2>1. \A i \in 3 .. n : w[i] \in S
    BY <1>2
  <2>. HIDE DEF S, w
  <2>. QED  BY <1>2, <2>1, SubSeqProperties
<1>5. Len(SubSeq(w, 3, n)) = n - 2 /\ DOMAIN wire'[src][e] = 1 .. n - 2
  BY <1>2, <1>3, <1>4, LenProperties
<1>6. \A i \in 1 .. n - 2 : i \in 1 .. n - 3 + 1 /\ 3 + i - 1 = i + 2 /\ i + 2 \in 1 .. n
  BY <1>2
<1>7. \A i \in DOMAIN wire'[src][e] :
        /\ i \in Nat /\ i > 0
        /\ i + 2 \in DOMAIN w
        /\ wire'[src][e][i] = w[i + 2]
  BY <1>2, <1>3, <1>4, <1>5, <1>6
<1>8. \A i \in DOMAIN w : i > 2 => i - 2 \in DOMAIN wire'[src][e]
  BY <1>2, <1>5
<1>9. wire' \in [Ranks -> [Endpoints -> Seq(S)]]
  BY <1>3, <1>4 DEF TypeOK
<1>10. \A q \in Ranks, f \in Endpoints : q # src \/ f # e => wire'[q][f] = wire[q][f]
  BY DEF TypeOK
<1>11. Shrunk(w, wire'[src][e])
  <2>1. 1 \in DOMAIN w /\ 2 \in DOMAIN w
    BY <1>2
  <2>. HIDE DEF w
  <2>. QED  BY <2>1, <1>7, <1>8 DEF Shrunk
<1>. QED  BY <1>9, <1>10, <1>11

\* What iprobe finds is a header, what probe finds behind it its body.
LEMMA FirstPair ==
    ASSUME TypeOK, Paired, NEW src \in Ranks, NEW e \in Endpoints, Len(wire[src][e]) > 1
    PROVE  /\ wire[src][e][1] \in Headers
           /\ wire[src][e][2] = BodyOf(wire[src][e][1].of)
           /\ wire[src][e][2] \in Bodies
<1>1. /\ wire[src][e] \in Seq(Headers \cup Bodies)
      /\ Len(wire[src][e]) \in Nat /\ DOMAIN wire[src][e] = 1 .. Len(wire[src][e])
  BY LenProperties DEF TypeOK
<1>2. 1 \in DOMAIN wire[src][e] /\ 1 - 1 \notin DOMAIN wire[src][e] /\ 1 + 1 = 2
  BY <1>1
<1>3. wire[src][e][1] \in Headers \cup Bodies
  BY <1>1, <1>2, ElementOfSeq
<1>4. /\ wire[src][e][1].kind = "header"
      /\ wire[src][e][2] = BodyOf(wire[src][e][1].of)
  BY <1>2, Parts DEF Paired
<1>5. wire[src][e][1] \in Headers
  BY <1>3, <1>4 DEF Headers, Bodies
<1>. QED  BY <1>4, <1>5 DEF Headers, Bodies, BodyOf

\* What TrackReceiveBreaks changes is only the two marks of the first pending receive.
SameReceive(p, q) ==
    /\ p.promise = q.promise /\ p.local = q.local /\ p.source = q.source
    /\ p.header = q.header /\ p.body = q.body

LEMMA OnlyMarks ==
    ASSUME TypeOK, NEW r \in Ranks, TrackReceiveBreaks(r)
    PROVE  /\ pendingReceives' \in [Ranks -> Seq(PendingReceives)]
           /\ \A q \in Ranks : DOMAIN pendingReceives'[q] = DOMAIN pendingReceives[q]
           /\ \A q \in Ranks : pendingReceives'[q] = <<>> => pendingReceives[q] = <<>>
           /\ \A q \in Ranks : \A i \in DOMAIN pendingReceives[q] :
                SameReceive(pendingReceives'[q][i], pendingReceives[q][i])
<1>. DEFINE queue == pendingReceives[r]
<1>1. /\ queue \in Seq(PendingReceives) /\ queue # <<>>
      /\ Len(queue) \in Nat /\ DOMAIN queue = 1 .. Len(queue)
      /\ 1 \in 1 .. Len(queue) /\ queue[1] \in PendingReceives
  <2>1. queue \in Seq(PendingReceives) /\ queue # <<>>
    BY DEF TypeOK, TrackReceiveBreaks
  <2>2. Len(queue) \in Nat /\ DOMAIN queue = 1 .. Len(queue)
    BY <2>1, LenProperties
  <2>3. Len(queue) > 0
    BY <2>1, <2>2, EmptySeq
  <2>. QED  BY <2>1, <2>2, <2>3, ElementOfSeq
<1>2. PICK header \in BOOLEAN, body \in BOOLEAN :
        pendingReceives' = [pendingReceives EXCEPT ![r][1] =
            [@ EXCEPT !.headerTested = header, !.bodyTested = body]]
  BY DEF TrackReceiveBreaks
<1>. DEFINE marked == [queue[1] EXCEPT !.headerTested = header, !.bodyTested = body]
<1>3. marked \in PendingReceives /\ SameReceive(marked, queue[1])
  BY <1>1 DEF PendingReceives, SameReceive
<1>4. /\ pendingReceives'[r] = [queue EXCEPT ![1] = marked]
      /\ \A q \in Ranks \ {r} : pendingReceives'[q] = pendingReceives[q]
  BY <1>2 DEF TypeOK
<1>5. /\ [queue EXCEPT ![1] = marked] \in Seq(PendingReceives)
      /\ Len([queue EXCEPT ![1] = marked]) = Len(queue)
      /\ \A j \in 1 .. Len(queue) :
            [queue EXCEPT ![1] = marked][j] = IF j = 1 THEN marked ELSE queue[j]
  <2>. HIDE DEF queue, marked
  <2>. QED  BY <1>1, <1>3, ExceptSeq, Zenon
<1>6. DOMAIN [queue EXCEPT ![1] = marked] = DOMAIN queue /\ [queue EXCEPT ![1] = marked] # <<>>
  BY <1>1
<1>7. pendingReceives' \in [Ranks -> Seq(PendingReceives)]
  BY <1>2, <1>4, <1>5 DEF TypeOK
<1>8. ASSUME NEW q \in Ranks, NEW i \in DOMAIN pendingReceives[q]
      PROVE  SameReceive(pendingReceives'[q][i], pendingReceives[q][i])
  <2>1. CASE q = r
    <3>1. pendingReceives'[r][i] = IF i = 1 THEN marked ELSE queue[i]
      BY <1>1, <1>4, <1>5, <2>1
    <3>. QED  BY <1>3, <2>1, <3>1 DEF SameReceive
  <2>2. CASE q # r
    BY <1>4, <2>2 DEF SameReceive
  <2>. QED  BY <2>1, <2>2
<1>. QED  BY <1>4, <1>6, <1>7, <1>8

\* The receive that ProbeFinds begins.
Found(e, src) ==
    [promise |-> Head(pendingProbes[e]), local |-> e, source |-> src,
     header |-> wire[src][e][1], body |-> wire[src][e][2],
     headerTested |-> FALSE, bodyTested |-> FALSE]

LEMMA FoundType ==
    ASSUME TypeOK, Paired, NEW r \in Ranks, NEW e \in Endpoints, NEW src \in Ranks,
           ProbeFinds(r, e, src)
    PROVE  /\ Found(e, src) \in PendingReceives
           /\ pendingReceives' = [pendingReceives EXCEPT ![r] = Append(@, Found(e, src))]
<1>1. Head(pendingProbes[e]) \in Promises
  BY HeadLeaves DEF TypeOK, ProbeFinds
<1>2. wire[src][e][1] \in Headers /\ wire[src][e][2] \in Bodies
  BY FirstPair DEF ProbeFinds
<1>. QED  BY <1>1, <1>2 DEF ProbeFinds, Found, PendingReceives

LEMMA ThreadTypes ==
    ASSUME TypeOK, Paired, NEW r \in Ranks, MpiThread(r)
    PROVE  TypeOK'
<1>1. CASE RunsSend(r)
  <2>. DEFINE m == Head(jobs[r]).message
  <2>1. /\ jobs' \in [Ranks -> Seq(Jobs)]
        /\ m \in Messages
    BY <1>1, EndsJobType, JobTypes DEF RunsSend, Runs
  <2>2. wire' \in [Ranks -> [Endpoints -> Seq(Headers \cup Bodies)]]
    BY <1>1, <2>1, WireGrows DEF RunsSend
  <2>3. pendingSends' \in [Ranks -> Seq(Messages)]
    <3>1. pendingSends' = [pendingSends EXCEPT ![r] = Append(@, m)]
      BY <1>1 DEF RunsSend
    <3>2. pendingSends \in [Ranks -> Seq(Messages)]
      BY DEF TypeOK
    <3>. HIDE DEF m
    <3>. QED  BY <2>1, <3>1, <3>2, ElementComes
  <2>4. tracking' \in [Ranks -> SUBSET Trackers]
    BY <1>1 DEF RunsSend, Kickstart, Trackers, TypeOK
  <2>. QED  BY <1>1, <2>1, <2>2, <2>3, <2>4 DEF RunsSend, bindVars, callVars, TypeOK
<1>2. CASE RunsReceive(r)
  <2>. DEFINE job == Head(jobs[r])
  <2>1. /\ jobs' \in [Ranks -> Seq(Jobs)]
        /\ job.local \in Endpoints /\ job.promise \in Promises
    BY <1>2, EndsJobType, JobTypes DEF RunsReceive, Runs
  <2>2. pendingProbes' \in [Endpoints -> Seq(Promises)]
    BY <1>2, <2>1, ElementComes DEF RunsReceive, TypeOK
  <2>3. tracking' \in [Ranks -> SUBSET Trackers]
    BY <1>2 DEF RunsReceive, Kickstart, Trackers, TypeOK
  <2>. QED  BY <1>2, <2>1, <2>2, <2>3 DEF RunsReceive, bindVars, callVars, TypeOK
<1>3. CASE RunsClose(r)
  <2>1. /\ jobs' \in [Ranks -> Seq(Jobs)]
        /\ Head(jobs[r]).local \in Endpoints
    BY <1>3, EndsJobType, JobTypes DEF RunsClose, Runs
  <2>2. pendingProbes' \in [Endpoints -> Seq(Promises)]
    BY <1>3, <2>1 DEF RunsClose, TypeOK
  <2>. QED  BY <1>3, <2>1, <2>2 DEF RunsClose, bindVars, callVars, TypeOK
<1>4. CASE TrackSendCompletes(r)
  <2>1. pendingSends' \in [Ranks -> Seq(Messages)]
    BY <1>4, HeadLeaves DEF TrackSendCompletes, TypeOK
  <2>2. tracking' \in [Ranks -> SUBSET Trackers]
    BY <1>4 DEF TrackSendCompletes, EndsAfter, TypeOK
  <2>. QED  BY <1>4, <2>1, <2>2 DEF TrackSendCompletes, bindVars, callVars, TypeOK
<1>5. CASE \E e \in Endpoints, src \in Ranks : ProbeFinds(r, e, src)
  <2>1. PICK e \in Endpoints, src \in Ranks : ProbeFinds(r, e, src)
    BY <1>5
  <2>2. pendingReceives' \in [Ranks -> Seq(PendingReceives)]
    <3>1. /\ Found(e, src) \in PendingReceives
          /\ pendingReceives' = [pendingReceives EXCEPT ![r] = Append(@, Found(e, src))]
      BY <2>1, FoundType
    <3>. QED  BY <3>1, ElementComes DEF TypeOK
  <2>3. wire' \in [Ranks -> [Endpoints -> Seq(Headers \cup Bodies)]]
    BY <2>1, WireShrinks DEF ProbeFinds
  <2>4. pendingProbes' \in [Endpoints -> Seq(Promises)]
    BY <2>1, HeadLeaves DEF ProbeFinds, TypeOK
  <2>5. tracking' \in [Ranks -> SUBSET Trackers]
    BY <2>1 DEF ProbeFinds, Trackers, TypeOK
  <2>. QED  BY <2>1, <2>2, <2>3, <2>4, <2>5 DEF ProbeFinds, bindVars, callVars, TypeOK
<1>6. CASE ProbeEnds(r)
  <2>1. tracking' \in [Ranks -> SUBSET Trackers]
    BY <1>6 DEF ProbeEnds, TypeOK
  <2>. QED  BY <1>6, <2>1 DEF ProbeEnds, bindVars, callVars, TypeOK
<1>7. CASE TrackReceiveCompletes(r)
  <2>. DEFINE p == Head(pendingReceives[r])
              datagram == [promise |-> p.promise,
                           remote |-> <<SourceOf(p), p.header.of.from[2]>>,
                           content |-> p.body]
  <2>1. /\ p \in PendingReceives
        /\ pendingReceives' \in [Ranks -> Seq(PendingReceives)]
    BY <1>7, HeadLeaves DEF TrackReceiveCompletes, TypeOK
  <2>2. datagram \in Datagrams
    <3>1. p.header.of.from \in Endpoints
      BY <2>1 DEF PendingReceives, Headers, Messages
    <3>2. p.header.of.from[2] \in Tags
      BY <3>1, EndpointTypes
    <3>3. SourceOf(p) \in Ranks \cup {AnySource}
      BY <2>1 DEF PendingReceives, SourceOf
    <3>. QED  BY <2>1, <3>2, <3>3 DEF PendingReceives, Datagrams
  <2>3. fulfilled' \in [Endpoints -> Seq(Datagrams)]
    <3>1. p.local \in Endpoints
      BY <2>1 DEF PendingReceives
    <3>2. fulfilled' = [fulfilled EXCEPT ![p.local] = Append(@, datagram)]
      BY <1>7 DEF TrackReceiveCompletes
    <3>. HIDE DEF p, datagram
    <3>. QED  BY <2>2, <3>1, <3>2, ElementComes DEF TypeOK
  <2>4. tracking' \in [Ranks -> SUBSET Trackers]
    BY <1>7 DEF TrackReceiveCompletes, EndsAfter, TypeOK
  <2>. QED  BY <1>7, <2>1, <2>3, <2>4 DEF TrackReceiveCompletes, bindVars, callVars, TypeOK
<1>8. CASE TrackReceiveBreaks(r)
  BY <1>8, OnlyMarks DEF TrackReceiveBreaks, bindVars, callVars, TypeOK
<1>. QED  BY <1>1, <1>2, <1>3, <1>4, <1>5, <1>6, <1>7, <1>8 DEF MpiThread

-----------------------------------------------------------------------------
(* Every queue has its tracker *)

\* A tracker that ends with a turn has lost its last element with it.
LEMMA EndsWithLast ==
    ASSUME TypeOK, NEW S, NEW queues \in [Ranks -> Seq(S)], NEW r \in Ranks,
           queues[r] # <<>>, NEW tracker \in tracking[r], EndsAfter(r, tracker, queues[r])
    PROVE  /\ Tail(queues[r]) # <<>> => tracker \in tracking'[r]
           /\ \A other \in Trackers \ {tracker} :
                other \in tracking[r] => other \in tracking'[r]
           /\ \A q \in Ranks \ {r} : tracking'[q] = tracking[q]
<1>1. Len(queues[r]) = 1 => Tail(queues[r]) = <<>>
  <2>1. Len(Tail(queues[r])) = Len(queues[r]) - 1 /\ Tail(queues[r]) \in Seq(S)
    BY HeadTailProperties
  <2>2. Len(queues[r]) = 1 => Len(Tail(queues[r])) = 0
    BY <2>1
  <2>. QED  BY <2>1, <2>2, EmptySeq
<1>. QED  BY <1>1 DEF EndsAfter, TypeOK

LEMMA TrackersRunOn ==
    ASSUME TypeOK, AtHome, TrackersRun, [Next]_vars
    PROVE  TrackersRun'
<1>1. ASSUME NEW s \in Sockets, ProgramCalls(s) \/ BindBlocks(s)
      PROVE  TrackersRun'
  BY <1>1 DEF ProgramCalls, BindBlocks, BindChooses, AsyncSendTo, AsyncReceiveFrom,
              CloseSocket, mpiVars, TrackersRun, Unprobed
<1>2. ASSUME NEW r \in Ranks, RunsSend(r)
      PROVE  TrackersRun'
  BY <1>2 DEF RunsSend, Kickstart, TypeOK, TrackersRun, Unprobed
<1>3. ASSUME NEW r \in Ranks, RunsReceive(r)
      PROVE  TrackersRun'
  <2>. DEFINE job == Head(jobs[r])
  <2>1. job.local \in Endpoints /\ job.local[1] = r
    <3>1. /\ jobs[r] # <<>> /\ jobs \in [Ranks -> Seq(Jobs)]
          /\ jobs[r][1].run = "receive" => jobs[r][1].local[1] = r
      BY <1>3, HeadLeaves DEF RunsReceive, Runs, AtHome, JobsAtHome, TypeOK, EndsJob
    <3>2. Head(jobs[r]) = jobs[r][1] /\ Head(jobs[r]) \in Jobs
      BY <1>3, <3>1, HeadLeaves DEF RunsReceive, EndsJob
    <3>. QED  BY <1>3, <3>1, <3>2, JobTypes DEF RunsReceive, Runs
  <2>2. \A q \in Ranks \ {r} : Unprobed(q)' = Unprobed(q)
    BY <1>3, <2>1 DEF RunsReceive, TypeOK, Unprobed
  <2>. QED  BY <1>3, <2>2 DEF RunsReceive, Kickstart, TypeOK, TrackersRun
<1>4. ASSUME NEW r \in Ranks, RunsClose(r)
      PROVE  TrackersRun'
  <2>1. \A q \in Ranks : Unprobed(q)' \subseteq Unprobed(q)
    BY <1>4 DEF RunsClose, TypeOK, Unprobed
  <2>. QED  BY <1>4, <2>1 DEF RunsClose, TrackersRun
<1>5. ASSUME NEW r \in Ranks, TrackSendCompletes(r)
      PROVE  TrackersRun'
  <2>1. /\ Tail(pendingSends[r]) # <<>> => "trackAsyncSend" \in tracking'[r]
        /\ \A other \in Trackers \ {"trackAsyncSend"} :
                other \in tracking[r] => other \in tracking'[r]
        /\ \A q \in Ranks \ {r} : tracking'[q] = tracking[q]
    BY <1>5, EndsWithLast DEF TrackSendCompletes, TypeOK
  <2>. QED  BY <1>5, <2>1 DEF TrackSendCompletes, Trackers, TypeOK, TrackersRun, Unprobed
<1>6. ASSUME NEW r \in Ranks, NEW e \in Endpoints, NEW src \in Ranks, ProbeFinds(r, e, src)
      PROVE  TrackersRun'
  <2>1. \A q \in Ranks : Unprobed(q)' \subseteq Unprobed(q)
    BY <1>6 DEF ProbeFinds, TypeOK, Unprobed
  <2>. QED  BY <1>6, <2>1 DEF ProbeFinds, TypeOK, TrackersRun
<1>7. ASSUME NEW r \in Ranks, ProbeEnds(r)
      PROVE  TrackersRun'
  BY <1>7 DEF ProbeEnds, TypeOK, TrackersRun, Unprobed
<1>8. ASSUME NEW r \in Ranks, TrackReceiveCompletes(r)
      PROVE  TrackersRun'
  <2>1. /\ Tail(pendingReceives[r]) # <<>> => "trackAsyncReceive" \in tracking'[r]
        /\ \A other \in Trackers \ {"trackAsyncReceive"} :
                other \in tracking[r] => other \in tracking'[r]
        /\ \A q \in Ranks \ {r} : tracking'[q] = tracking[q]
    BY <1>8, EndsWithLast DEF TrackReceiveCompletes, TypeOK
  <2>. QED  BY <1>8, <2>1 DEF TrackReceiveCompletes, Trackers, TypeOK, TrackersRun, Unprobed
<1>9. ASSUME NEW r \in Ranks, TrackReceiveBreaks(r)
      PROVE  TrackersRun'
  BY <1>9, OnlyMarks DEF TrackReceiveBreaks, TypeOK, TrackersRun, Unprobed
<1>10. CASE UNCHANGED vars
  BY <1>10 DEF vars, mpiVars, TrackersRun, Unprobed
<1>. QED  BY <1>1, <1>2, <1>3, <1>4, <1>5, <1>6, <1>7, <1>8, <1>9, <1>10 DEF Next, MpiThread

-----------------------------------------------------------------------------
(* Where things are *)

\* The jobs after a call: those of before and, behind them, the new one.
LEMMA JobsPosted ==
    ASSUME TypeOK, NEW r \in Ranks, NEW job \in Jobs, Post(r, job)
    PROVE  \A q \in Ranks : \A i \in DOMAIN jobs'[q] :
            \/ i \in DOMAIN jobs[q] /\ jobs'[q][i] = jobs[q][i]
            \/ /\ q = r /\ jobs'[q][i] = job
               /\ \A k \in DOMAIN jobs[q] : k < i
<1>1. /\ \A q \in Ranks \ {r} : jobs'[q] = jobs[q]
      /\ \A i \in DOMAIN jobs[r] : i < Len(jobs[r]) + 1
      /\ jobs'[r][Len(jobs[r]) + 1] = job
      /\ \A i \in DOMAIN jobs'[r] :
            \/ i \in DOMAIN jobs[r] /\ jobs'[r][i] = jobs[r][i]
            \/ i = Len(jobs[r]) + 1
  BY ElementComes DEF TypeOK, Post
<1>. QED  BY <1>1

\* The place that job i of process q had before process r ended one.
Before(q, r, i) == IF q = r THEN i + 1 ELSE i

LEMMA JobsEnded ==
    ASSUME TypeOK, NEW r \in Ranks, jobs[r] # <<>>, EndsJob(r)
    PROVE  /\ Head(jobs[r]) = jobs[r][1] /\ 1 \in DOMAIN jobs[r]
           /\ \A q \in Ranks : \A i \in DOMAIN jobs'[q] :
                /\ Before(q, r, i) \in DOMAIN jobs[q]
                /\ jobs'[q][i] = jobs[q][Before(q, r, i)]
                /\ q = r => 1 < Before(q, r, i)
           /\ \A q \in Ranks : \A i, j \in DOMAIN jobs'[q] :
                i < j => Before(q, r, i) < Before(q, r, j)
<1>1. /\ Head(jobs[r]) = jobs[r][1] /\ 1 \in DOMAIN jobs[r]
      /\ \A q \in Ranks \ {r} : jobs'[q] = jobs[q]
      /\ \A i \in DOMAIN jobs'[r] :
            i + 1 \in DOMAIN jobs[r] /\ 1 < i + 1 /\ jobs'[r][i] = jobs[r][i + 1]
  BY HeadLeaves DEF TypeOK, EndsJob
<1>2. \A q \in Ranks : \A i \in DOMAIN jobs'[q] : i \in Int
  <2>1. jobs' \in [Ranks -> Seq(Jobs)]
    BY EndsJobType
  <2>2. \A q \in Ranks : DOMAIN jobs'[q] = 1 .. Len(jobs'[q])
    BY <2>1, LenProperties
  <2>. QED  BY <2>2
<1>3. \A q \in Ranks : \A i \in DOMAIN jobs'[q] :
        /\ Before(q, r, i) \in DOMAIN jobs[q]
        /\ jobs'[q][i] = jobs[q][Before(q, r, i)]
        /\ q = r => 1 < Before(q, r, i)
  BY <1>1 DEF Before
<1>4. \A q \in Ranks : \A i, j \in DOMAIN jobs'[q] :
        i < j => Before(q, r, i) < Before(q, r, j)
  BY <1>2 DEF Before
<1>. QED  BY <1>1, <1>3, <1>4

\* The job that process r runs.
LEMMA JobRun ==
    ASSUME TypeOK, NEW r \in Ranks, NEW run, Runs(r, run), EndsJob(r)
    PROVE  /\ jobs[r] # <<>> /\ 1 \in DOMAIN jobs[r]
           /\ Head(jobs[r]) = jobs[r][1] /\ jobs[r][1].run = run
           /\ jobs[r][1] \in Jobs
<1>. QED  BY JobsEnded, EndsJobType DEF Runs

\* What a call changes of the queues: it may post one job, with the next number.
PostedBy(s, job) ==
    /\ job.run = "send" =>
        job.message.from = local[s] /\ job.message.number = sends' /\ sends' = sends + 1
    /\ job.run = "receive" =>
        job.local = local[s] /\ job.promise = receives' /\ receives' = receives + 1
    /\ job.run \in {"send", "receive"} => local[s] # Closed

LEMMA CallsPost ==
    ASSUME TypeOK, NEW s \in Sockets, ProgramCalls(s) \/ BindBlocks(s)
    PROVE  /\ sends \in Int /\ sends' \in Int /\ sends <= sends'
           /\ receives \in Int /\ receives' \in Int /\ receives <= receives'
           /\ UNCHANGED <<pendingProbes, pendingReceives, wire, fulfilled>>
           /\ \A q \in Ranks : \A i \in DOMAIN jobs'[q] :
                \/ i \in DOMAIN jobs[q] /\ jobs'[q][i] = jobs[q][i]
                \/ /\ q = RankOf[s] /\ PostedBy(s, jobs'[q][i])
                   /\ \A k \in DOMAIN jobs[q] : k < i
           /\ \A q \in Ranks : \A i, j \in DOMAIN jobs'[q] :
                i < j => i \in DOMAIN jobs[q] /\ jobs'[q][i] = jobs[q][i]
<1>1. RankOf[s] \in Ranks /\ local[s] \in Endpoints
  BY SocketsAssumption DEF TypeOK
<1>2. sends \in Int /\ receives \in Int
  BY BoundsAssumption DEF TypeOK
<1>. SUFFICES
        /\ sends' \in Int /\ sends <= sends' /\ receives' \in Int /\ receives <= receives'
        /\ UNCHANGED <<pendingProbes, pendingReceives, wire, fulfilled>>
        /\ \/ UNCHANGED jobs
           \/ \E job \in Jobs : Post(RankOf[s], job) /\ PostedBy(s, job)
  <2>1. CASE UNCHANGED jobs
    <3>1. \A q \in Ranks : \A i, j \in DOMAIN jobs'[q] :
            i < j => i \in DOMAIN jobs[q] /\ jobs'[q][i] = jobs[q][i]
      BY <2>1
    <3>. QED  BY <1>2, <2>1
  <2>2. CASE \E job \in Jobs : Post(RankOf[s], job) /\ PostedBy(s, job)
    <3>1. PICK job \in Jobs : Post(RankOf[s], job) /\ PostedBy(s, job)
      BY <2>2
    <3>2. \A q \in Ranks : \A i \in DOMAIN jobs'[q] :
            \/ i \in DOMAIN jobs[q] /\ jobs'[q][i] = jobs[q][i]
            \/ /\ q = RankOf[s] /\ jobs'[q][i] = job
               /\ \A k \in DOMAIN jobs[q] : k < i
      BY <1>1, <3>1, JobsPosted
    <3>3. \A q \in Ranks : \A i, j \in DOMAIN jobs'[q] : i \in Int /\ j \in Int
      <4>1. jobs' \in [Ranks -> Seq(Jobs)]
        BY <1>1, <3>1, PostType
      <4>2. \A q \in Ranks : DOMAIN jobs'[q] = 1 .. Len(jobs'[q])
        BY <4>1, LenProperties
      <4>. QED  BY <4>2
    <3>4. \A q \in Ranks : \A i, j \in DOMAIN jobs'[q] :
            i < j => i \in DOMAIN jobs[q] /\ jobs'[q][i] = jobs[q][i]
      <4>1. ASSUME NEW q \in Ranks, NEW i \in DOMAIN jobs'[q], NEW j \in DOMAIN jobs'[q],
                   i < j, i \notin DOMAIN jobs[q]
            PROVE  FALSE
        <5>1. q = RankOf[s]
          BY <4>1, <3>2
        <5>2. i = Len(jobs[q]) + 1 /\ j \in 1 .. Len(jobs[q]) + 1
          <6>1. Append(jobs[q], job) \in Seq(Jobs) /\ Len(Append(jobs[q], job)) = Len(jobs[q]) + 1
            BY <3>1, AppendProperties DEF TypeOK
          <6>2. jobs'[q] = Append(jobs[q], job)
            BY <1>1, <3>1, <5>1 DEF Post, TypeOK
          <6>3. DOMAIN jobs'[q] = 1 .. Len(jobs[q]) + 1
            BY <6>1, <6>2, LenProperties
          <6>4. Len(jobs[q]) \in Nat /\ DOMAIN jobs[q] = 1 .. Len(jobs[q])
            BY LenProperties DEF TypeOK
          <6>. QED  BY <4>1, <6>3, <6>4
        <5>. QED  BY <4>1, <5>2, <3>3
      <4>. QED  BY <4>1, <3>2, <3>3
    <3>5. \A q \in Ranks : \A i \in DOMAIN jobs'[q] :
            \/ i \in DOMAIN jobs[q] /\ jobs'[q][i] = jobs[q][i]
            \/ /\ q = RankOf[s] /\ PostedBy(s, jobs'[q][i])
               /\ \A k \in DOMAIN jobs[q] : k < i
      BY <3>1, <3>2
    <3>. QED  BY <1>2, <3>4, <3>5
  <2>. QED  BY <2>1, <2>2
<1>3. CASE \E to \in Endpoints : AsyncSendTo(s, to)
  <2>1. PICK to \in Endpoints : AsyncSendTo(s, to)
    BY <1>3
  <2>. DEFINE m == [from |-> local[s], to |-> to, number |-> sends']
  <2>2. sends' \in 1 .. MaxSends /\ sends' = sends + 1 /\ local[s] # Closed
    BY <2>1, BoundsAssumption DEF AsyncSendTo, TypeOK
  <2>3. m \in Messages /\ SendJob(m) \in Jobs
    BY <1>1, <2>2 DEF Messages, Jobs
  <2>4. PostedBy(s, SendJob(m))
    BY <2>2 DEF PostedBy, SendJob
  <2>5. Post(RankOf[s], SendJob(m))
    BY <2>1 DEF AsyncSendTo
  <2>. QED  BY <1>2, <2>1, <2>2, <2>3, <2>4, <2>5 DEF AsyncSendTo, mpiVars
<1>4. CASE AsyncReceiveFrom(s)
  <2>1. /\ receives' \in Promises /\ receives' = receives + 1 /\ local[s] # Closed
    BY <1>4, BoundsAssumption DEF AsyncReceiveFrom, TypeOK, Promises, Closed
  <2>2. ReceiveJob(local[s], receives') \in Jobs
    BY <1>1, <2>1 DEF Jobs
  <2>3. PostedBy(s, ReceiveJob(local[s], receives'))
    BY <2>1 DEF PostedBy, ReceiveJob
  <2>. QED  BY <1>2, <1>4, <2>1, <2>2, <2>3, BoundsAssumption
            DEF AsyncReceiveFrom, mpiVars, Promises
<1>5. CASE CloseSocket(s)
  <2>1. CloseJob(local[s]) \in Jobs /\ PostedBy(s, CloseJob(local[s]))
    BY <1>1 DEF Jobs, CloseJob, PostedBy
  <2>. QED  BY <1>2, <1>5, <2>1 DEF CloseSocket, mpiVars
<1>6. CASE BindChooses(s) \/ BindBlocks(s)
  BY <1>2, <1>6 DEF BindChooses, BindBlocks, mpiVars, callVars
<1>. QED  BY <1>3, <1>4, <1>5, <1>6 DEF ProgramCalls

LEMMA AtHomeCalls ==
    ASSUME TypeOK, AtHome, NEW s \in Sockets, ProgramCalls(s) \/ BindBlocks(s)
    PROVE  AtHome'
<1>1. SocketsAtHome'
  <2>1. \/ UNCHANGED local
        \/ \E tag \in Tags : local' = [local EXCEPT ![s] = <<RankOf[s], tag>>]
        \/ local' = [local EXCEPT ![s] = Closed]
    BY DEF ProgramCalls, BindBlocks, BindChooses, AsyncSendTo, AsyncReceiveFrom,
           CloseSocket, bindVars
  <2>2. ASSUME NEW tag \in Tags, local' = [local EXCEPT ![s] = <<RankOf[s], tag>>]
        PROVE  SocketsAtHome'
    BY <2>2 DEF TypeOK, AtHome, SocketsAtHome
  <2>3. CASE local' = [local EXCEPT ![s] = Closed]
    BY <2>3 DEF TypeOK, AtHome, SocketsAtHome
  <2>. QED  BY <2>1, <2>2, <2>3 DEF AtHome, SocketsAtHome
<1>2. JobsAtHome'
  BY CallsPost DEF PostedBy, AtHome, SocketsAtHome, JobsAtHome
<1>3. UNCHANGED <<wire, pendingReceives>>
  BY CallsPost
<1>. QED  BY <1>1, <1>2, <1>3 DEF AtHome, WireAtHome, ReceivesAtHome

\* What the jobs and the trackers leave alone.
LEMMA ThreadKeeps ==
    ASSUME NEW r \in Ranks, MpiThread(r)
    PROVE  UNCHANGED <<local, sends, receives>>
<1>. QED  BY DEF MpiThread, RunsSend, RunsReceive, RunsClose, TrackSendCompletes, ProbeFinds,
                 ProbeEnds, TrackReceiveCompletes, TrackReceiveBreaks, bindVars, callVars

\* Jobs and trackers that have nothing to do with the queues of messages and receives.
Elsewhere ==
    UNCHANGED <<local, sends, receives, jobs, pendingProbes, pendingReceives, wire, fulfilled>>

LEMMA ElsewhereSteps ==
    /\ \A r \in Ranks : TrackSendCompletes(r) \/ ProbeEnds(r) => Elsewhere
    /\ UNCHANGED vars => Elsewhere
<1>. QED  BY DEF TrackSendCompletes, ProbeEnds, Elsewhere, vars, bindVars, callVars, mpiVars

LEMMA AtHomeThread ==
    ASSUME TypeOK, AtHome, Paired, NEW r \in Ranks, MpiThread(r)
    PROVE  AtHome'
<1>1. SocketsAtHome'
  BY ThreadKeeps DEF AtHome, SocketsAtHome
<1>2. ASSUME UNCHANGED jobs \/ (jobs[r] # <<>> /\ EndsJob(r))
      PROVE  JobsAtHome'
  <2>1. CASE UNCHANGED jobs
    BY <2>1 DEF AtHome, JobsAtHome
  <2>2. CASE jobs[r] # <<>> /\ EndsJob(r)
    <3>1. \A q \in Ranks : \A i \in DOMAIN jobs'[q] :
            Before(q, r, i) \in DOMAIN jobs[q] /\ jobs'[q][i] = jobs[q][Before(q, r, i)]
      BY <2>2, JobsEnded
    <3>. QED  BY <3>1 DEF AtHome, JobsAtHome
  <2>. QED  BY <1>2, <2>1, <2>2
<1>3. CASE RunsSend(r)
  <2>1. PICK m \in Messages : m = jobs[r][1].message
    BY <1>3, JobRun, JobTypes DEF RunsSend
  <2>2. /\ wire' = [wire EXCEPT ![r][m.to] = @ \o Isends(m)]
        /\ m.from[1] = r
    BY <1>3, <2>1, JobRun, ZenonT(40) DEF RunsSend, AtHome, JobsAtHome
  <2>3. WireAtHome'
    <3>1. \A q \in Ranks, e \in Endpoints : q # r \/ e # m.to => wire'[q][e] = wire[q][e]
      BY <2>2, WireGrows
    <3>2. Grown(wire[r][m.to], wire'[r][m.to], m)
      BY <2>2, WireGrows
    <3>. DEFINE old == wire[r][m.to]
                new == wire'[r][m.to]
    <3>3. ASSUME NEW i \in DOMAIN new
          PROVE  (i \in DOMAIN old /\ new[i] = old[i]) \/ new[i].of = m
      <4>1. Grown(old, new, m)
        BY <3>2
      <4>. HIDE DEF old, new
      <4>2. CASE i \in DOMAIN old
        BY <4>1, <4>2, GrownKeeps
      <4>3. CASE i \notin DOMAIN old
        <5>1. \/ new[i] = HeaderOf(m)
              \/ new[i] = BodyOf(m)
          BY <3>3, <4>1, <4>3, GrownAdds
        <5>. QED  BY <5>1, Parts
      <4>. QED  BY <4>2, <4>3
    <3>4. ASSUME NEW q \in Ranks, NEW e \in Endpoints, NEW i \in DOMAIN wire'[q][e]
          PROVE  wire'[q][e][i].of.from[1] = q /\ wire'[q][e][i].of.to = e
      <4>1. CASE q = r /\ e = m.to
        <5>1. i \in DOMAIN new /\ wire'[q][e][i] = new[i]
          BY <4>1
        <5>2. \A k \in DOMAIN old : old[k].of.from[1] = r /\ old[k].of.to = m.to
          BY <4>1 DEF AtHome, WireAtHome
        <5>3. new[i].of.from[1] = r /\ new[i].of.to = m.to
          <6>. HIDE DEF old, new
          <6>. QED  BY <2>2, <3>3, <5>1, <5>2
        <5>. QED  BY <4>1, <5>1, <5>3
      <4>2. CASE ~(q = r /\ e = m.to)
        <5>1. wire'[q][e] = wire[q][e]
          BY <3>1, <4>2
        <5>. QED  BY <5>1 DEF AtHome, WireAtHome
      <4>. QED  BY <4>1, <4>2
    <3>. QED  BY <3>4 DEF WireAtHome
  <2>4. JobsAtHome'
    BY <1>2, <1>3 DEF RunsSend, Runs
  <2>5. ReceivesAtHome'
    BY <1>3 DEF RunsSend, AtHome, ReceivesAtHome
  <2>. QED  BY <1>1, <2>3, <2>4, <2>5 DEF AtHome
<1>4. CASE RunsReceive(r) \/ RunsClose(r)
  <2>1. JobsAtHome'
    BY <1>2, <1>4 DEF RunsReceive, RunsClose, Runs
  <2>2. UNCHANGED <<wire, pendingReceives>>
    BY <1>4 DEF RunsReceive, RunsClose
  <2>. QED  BY <1>1, <2>1, <2>2 DEF AtHome, WireAtHome, ReceivesAtHome
<1>5. CASE \E e \in Endpoints, src \in Ranks : ProbeFinds(r, e, src)
  <2>1. PICK e \in Endpoints, src \in Ranks : ProbeFinds(r, e, src)
    BY <1>5
  <2>2. Shrunk(wire[src][e], wire'[src][e])
    BY <2>1, WireShrinks DEF ProbeFinds
  <2>3. WireAtHome'
    <3>1. \A q \in Ranks, f \in Endpoints : q # src \/ f # e => wire'[q][f] = wire[q][f]
      BY <2>1, WireShrinks DEF ProbeFinds
    <3>2. \A i \in DOMAIN wire'[src][e] :
            i + 2 \in DOMAIN wire[src][e] /\ wire'[src][e][i] = wire[src][e][i + 2]
      BY <2>2 DEF Shrunk
    <3>. QED  BY <3>1, <3>2 DEF AtHome, WireAtHome
  <2>4. Fits(Found(e, src), r)
    <3>1. /\ wire[src][e][2] = BodyOf(wire[src][e][1].of)
          /\ e[1] = r
      BY <2>1, FirstPair DEF ProbeFinds
    <3>2. wire[src][e][1].of.from[1] = src /\ wire[src][e][1].of.to = e
      BY <2>2 DEF Shrunk, AtHome, WireAtHome
    <3>. QED  BY <3>1, <3>2, Parts DEF Found, Fits
  <2>5. ReceivesAtHome'
    <3>1. /\ Found(e, src) \in PendingReceives
          /\ pendingReceives' = [pendingReceives EXCEPT ![r] = Append(@, Found(e, src))]
      BY <2>1, FoundType
    <3>2. /\ \A q \in Ranks \ {r} : pendingReceives'[q] = pendingReceives[q]
          /\ \A i \in DOMAIN pendingReceives'[r] :
                \/ /\ i \in DOMAIN pendingReceives[r]
                   /\ pendingReceives'[r][i] = pendingReceives[r][i]
                \/ pendingReceives'[r][i] = Found(e, src)
      BY <3>1, ElementComes DEF TypeOK
    <3>. QED  BY <2>4, <3>2 DEF AtHome, ReceivesAtHome
  <2>6. JobsAtHome'
    BY <1>2, <2>1 DEF ProbeFinds
  <2>. QED  BY <1>1, <2>3, <2>5, <2>6 DEF AtHome
<1>6. CASE TrackReceiveCompletes(r)
  <2>1. /\ \A q \in Ranks \ {r} : pendingReceives'[q] = pendingReceives[q]
        /\ \A i \in DOMAIN pendingReceives'[r] :
            /\ i + 1 \in DOMAIN pendingReceives[r]
            /\ pendingReceives'[r][i] = pendingReceives[r][i + 1]
    BY <1>6, HeadLeaves DEF TrackReceiveCompletes, TypeOK
  <2>2. ReceivesAtHome'
    BY <2>1 DEF AtHome, ReceivesAtHome
  <2>. QED  BY <1>1, <1>6, <2>2 DEF TrackReceiveCompletes, AtHome, JobsAtHome, WireAtHome
<1>7. CASE TrackReceiveBreaks(r)
  <2>1. ReceivesAtHome'
    BY <1>7, OnlyMarks DEF SameReceive, AtHome, ReceivesAtHome, Fits
  <2>. QED  BY <1>1, <1>7, <2>1 DEF TrackReceiveBreaks, AtHome, JobsAtHome, WireAtHome
<1>8. CASE TrackSendCompletes(r) \/ ProbeEnds(r)
  BY <1>1, <1>8, ElsewhereSteps DEF Elsewhere, AtHome, JobsAtHome, WireAtHome, ReceivesAtHome
<1>. QED  BY <1>3, <1>4, <1>5, <1>6, <1>7, <1>8 DEF MpiThread

LEMMA PairedOn ==
    ASSUME TypeOK, AtHome, Paired, [Next]_vars
    PROVE  Paired'
<1>1. ASSUME NEW s \in Sockets, ProgramCalls(s) \/ BindBlocks(s)
      PROVE  Paired'
  <2>1. UNCHANGED wire
    BY <1>1, CallsPost
  <2>. QED  BY <2>1 DEF Paired
<1>2. ASSUME NEW r \in Ranks, RunsSend(r)
      PROVE  Paired'
  <2>1. PICK m \in Messages : wire' = [wire EXCEPT ![r][m.to] = @ \o Isends(m)]
    BY <1>2, JobRun, JobTypes DEF RunsSend
  <2>2. \A q \in Ranks, e \in Endpoints : q # r \/ e # m.to => wire'[q][e] = wire[q][e]
    BY <2>1, WireGrows
  <2>3. Grown(wire[r][m.to], wire'[r][m.to], m)
    BY <2>1, WireGrows
  <2>. DEFINE w == wire'[r][m.to]
  <2>4. m.to \in Endpoints
    BY MessageTypes
  <2>5. ASSUME NEW i \in DOMAIN w
        PROVE  \/ /\ w[i].kind = "header"
                  /\ i + 1 \in DOMAIN w
                  /\ w[i + 1] = BodyOf(w[i].of)
               \/ /\ w[i].kind = "body"
                  /\ i - 1 \in DOMAIN w
                  /\ w[i - 1] = HeaderOf(w[i].of)
    <3>1. CASE i \in DOMAIN wire[r][m.to]
      <4>1. \A k \in DOMAIN wire[r][m.to] : k \in DOMAIN w /\ w[k] = wire[r][m.to][k]
        BY <2>3, GrownKeeps
      <4>. HIDE DEF w
      <4>. QED  BY <2>4, <3>1, <4>1 DEF Paired
    <3>2. CASE i \notin DOMAIN wire[r][m.to]
      <4>1. \/ /\ w[i] = HeaderOf(m)
               /\ i + 1 \in DOMAIN w /\ w[i + 1] = BodyOf(m)
            \/ /\ w[i] = BodyOf(m)
               /\ i - 1 \in DOMAIN w /\ w[i - 1] = HeaderOf(m)
        BY <2>3, <3>2, GrownAdds
      <4>. HIDE DEF w
      <4>. QED  BY <4>1, Parts
    <3>. QED  BY <3>1, <3>2
  <2>. QED  BY <2>2, <2>5 DEF Paired
<1>3. ASSUME NEW r \in Ranks, NEW e \in Endpoints, NEW src \in Ranks, ProbeFinds(r, e, src)
      PROVE  Paired'
  <2>0. \A q \in Ranks, f \in Endpoints : q # src \/ f # e => wire'[q][f] = wire[q][f]
    BY <1>3, WireShrinks DEF ProbeFinds
  <2>1. Shrunk(wire[src][e], wire'[src][e])
    BY <1>3, WireShrinks DEF ProbeFinds
  <2>3. wire[src][e][2].kind = "body"
    <3>1. wire[src][e][2] = BodyOf(wire[src][e][1].of)
      BY <1>3, FirstPair DEF ProbeFinds
    <3>. QED  BY <3>1, Parts
  <2>2. ASSUME NEW i \in DOMAIN wire'[src][e]
        PROVE  \/ /\ wire'[src][e][i].kind = "header"
                  /\ i + 1 \in DOMAIN wire'[src][e]
                  /\ wire'[src][e][i + 1] = BodyOf(wire'[src][e][i].of)
               \/ /\ wire'[src][e][i].kind = "body"
                  /\ i - 1 \in DOMAIN wire'[src][e]
                  /\ wire'[src][e][i - 1] = HeaderOf(wire'[src][e][i].of)
    <3>. DEFINE w == wire[src][e]
    <3>1. i \in Nat /\ i > 0 /\ i + 2 \in DOMAIN w /\ wire'[src][e][i] = w[i + 2]
      BY <2>1 DEF Shrunk
    <3>2. CASE w[i + 2].kind = "header"
      <4>1. (i + 2) + 1 \in DOMAIN w /\ w[(i + 2) + 1] = BodyOf(w[i + 2].of)
        BY <3>1, <3>2 DEF Paired
      <4>2. ((i + 2) + 1) - 2 = i + 1 /\ (i + 2) + 1 > 2 /\ (i + 2) + 1 = (i + 1) + 2
        BY <3>1
      <4>3. i + 1 \in DOMAIN wire'[src][e]
        BY <2>1, <4>1, <4>2 DEF Shrunk
      <4>4. wire'[src][e][i + 1] = w[(i + 2) + 1]
        BY <2>1, <4>2, <4>3 DEF Shrunk
      <4>. QED  BY <3>1, <3>2, <4>1, <4>3, <4>4
    <3>3. CASE w[i + 2].kind # "header"
      <4>1. /\ w[i + 2].kind = "body"
            /\ (i + 2) - 1 \in DOMAIN w
            /\ w[(i + 2) - 1] = HeaderOf(w[i + 2].of)
        BY <3>1, <3>3 DEF Paired
      <4>2. i # 1
        <5>1. w[(i + 2) - 1].kind = "header"
          BY <4>1, Parts
        <5>2. i = 1 => (i + 2) - 1 = 2
          OBVIOUS
        <5>. QED  BY <2>3, <5>1, <5>2
      <4>3. (i + 2) - 1 > 2 /\ ((i + 2) - 1) - 2 = i - 1 /\ (i + 2) - 1 = (i - 1) + 2
        BY <3>1, <4>2
      <4>4. i - 1 \in DOMAIN wire'[src][e]
        BY <2>1, <4>1, <4>3 DEF Shrunk
      <4>5. wire'[src][e][i - 1] = w[(i + 2) - 1]
        BY <2>1, <4>3, <4>4 DEF Shrunk
      <4>. QED  BY <3>1, <4>1, <4>4, <4>5
    <3>. QED  BY <3>2, <3>3
  <2>. QED  BY <2>0, <2>2 DEF Paired
<1>4. ASSUME UNCHANGED wire
      PROVE  Paired'
  BY <1>4 DEF Paired
<1>. QED  BY <1>1, <1>2, <1>3, <1>4
          DEF Next, MpiThread, RunsReceive, RunsClose, TrackSendCompletes, ProbeEnds,
              TrackReceiveCompletes, TrackReceiveBreaks, vars, mpiVars

-----------------------------------------------------------------------------
(* Messages stay in the order in which they were sent *)

\* Places and numbers are numbers.
LEMMA PlaceTypes ==
    ASSUME TypeOK, NEW r \in Ranks, NEW e \in Endpoints, NEW k \in 1 .. 3, NEW i,
           MessagePlace(r, e, k, i)
    PROVE  i \in Nat /\ MessageAt(r, e, k, i) \in Messages
<1>1. ASSUME NEW S, NEW s \in Seq(S)
      PROVE  \A j \in DOMAIN s : j \in Nat /\ s[j] \in S
  <2>1. Len(s) \in Nat /\ DOMAIN s = 1 .. Len(s)
    BY LenProperties
  <2>. QED  BY <2>1, ElementOfSeq
<1>2. e[1] \in Ranks
  BY EndpointTypes
<1>3. CASE k = 1
  <2>1. i \in Nat /\ pendingReceives[e[1]][i] \in PendingReceives
    BY <1>1, <1>2, <1>3 DEF MessagePlace, TypeOK
  <2>. QED  BY <1>3, <2>1 DEF MessageAt, PendingReceives, Bodies
<1>4. CASE k = 2
  <2>1. i \in Nat /\ wire[r][e][i] \in Headers \cup Bodies
    BY <1>1, <1>4 DEF MessagePlace, TypeOK
  <2>. QED  BY <1>4, <2>1 DEF MessageAt, Headers, Bodies
<1>5. CASE k = 3
  <2>1. i \in Nat /\ jobs[r][i] \in Jobs
    BY <1>1, <1>5 DEF MessagePlace, TypeOK
  <2>. QED  BY <1>5, <2>1, JobTypes DEF MessageAt, MessagePlace, IsSend
<1>. QED  BY <1>3, <1>4, <1>5

LEMMA SentInOrderCalls ==
    ASSUME TypeOK, TypeOK', SentInOrder, NEW s \in Sockets, ProgramCalls(s) \/ BindBlocks(s)
    PROVE  SentInOrder'
<1>1. /\ sends \in Int /\ sends' \in Int /\ sends <= sends'
      /\ UNCHANGED <<wire, pendingReceives>>
  BY CallsPost
<1>2. ASSUME NEW r \in Ranks, NEW e \in Endpoints, NEW k \in 1 .. 3, NEW i \in Nat,
             MessagePlace(r, e, k, i)'
      PROVE  \/ /\ MessagePlace(r, e, k, i)
                /\ MessageAt(r, e, k, i)' = MessageAt(r, e, k, i)
             \/ /\ k = 3 /\ \A j \in DOMAIN jobs[r] : j < i
                /\ \A j \in DOMAIN jobs'[r] : ~(i < j)
                /\ MessageAt(r, e, k, i)'.number = sends + 1 /\ sends' = sends + 1
  <2>1. CASE k \in {1, 2}
    BY <1>1, <1>2, <2>1 DEF MessagePlace, MessageAt
  <2>2. CASE k = 3
    <3>1. i \in DOMAIN jobs'[r] /\ IsSend(jobs'[r][i]) /\ jobs'[r][i].message.to = e
      BY <1>2, <2>2 DEF MessagePlace
    <3>2. CASE i \in DOMAIN jobs[r] /\ jobs'[r][i] = jobs[r][i]
      BY <2>2, <3>1, <3>2 DEF MessagePlace, MessageAt
    <3>3. CASE ~(i \in DOMAIN jobs[r] /\ jobs'[r][i] = jobs[r][i])
      <4>1. PostedBy(s, jobs'[r][i]) /\ \A j \in DOMAIN jobs[r] : j < i
        BY <3>1, <3>3, CallsPost
      <4>2. \A j \in DOMAIN jobs'[r] : ~(i < j)
        BY <3>1, <3>3, CallsPost
      <4>. QED  BY <2>2, <3>1, <4>1, <4>2 DEF PostedBy, IsSend, MessageAt
    <3>. QED  BY <3>2, <3>3
  <2>. QED  BY <2>1, <2>2
<1>3. ASSUME NEW r \in Ranks, NEW e \in Endpoints, NEW k \in 1 .. 3, NEW i \in Nat,
             MessagePlace(r, e, k, i)'
      PROVE  MessageAt(r, e, k, i)'.number <= sends'
  <2>1. CASE MessagePlace(r, e, k, i) /\ MessageAt(r, e, k, i)' = MessageAt(r, e, k, i)
    <3>1. MessageAt(r, e, k, i).number <= sends /\ MessageAt(r, e, k, i).number \in Int
      BY <2>1, PlaceTypes, MessageTypes DEF SentInOrder
    <3>. QED  BY <1>1, <2>1, <3>1
  <2>2. CASE MessageAt(r, e, k, i)'.number = sends + 1 /\ sends' = sends + 1
    BY <1>1, <2>2
  <2>. QED  BY <1>2, <1>3, <2>1, <2>2
<1>4. ASSUME NEW r \in Ranks, NEW e \in Endpoints, NEW k \in 1 .. 3, NEW i \in Nat,
             NEW l \in 1 .. 3, NEW j \in Nat,
             MessagePlace(r, e, k, i)', MessagePlace(r, e, l, j)', Ahead(k, i, l, j)
      PROVE  MessageAt(r, e, k, i)'.number < MessageAt(r, e, l, j)'.number
  <2>1. MessagePlace(r, e, k, i) /\ MessageAt(r, e, k, i)' = MessageAt(r, e, k, i)
    <3>1. k = 3 /\ l = 3 => i < j /\ j \in DOMAIN jobs'[r]
      BY <1>4 DEF Ahead, MessagePlace
    <3>2. k = 3 => l = 3
      BY <1>4 DEF Ahead
    <3>. QED  BY <1>2, <1>4, <3>1, <3>2
  <2>2. MessageAt(r, e, k, i).number <= sends /\ MessageAt(r, e, k, i).number \in Int
    BY <2>1, PlaceTypes, MessageTypes DEF SentInOrder
  <2>3. CASE MessagePlace(r, e, l, j) /\ MessageAt(r, e, l, j)' = MessageAt(r, e, l, j)
    BY <1>4, <2>1, <2>3 DEF SentInOrder
  <2>4. CASE MessageAt(r, e, l, j)'.number = sends + 1
    BY <1>1, <2>1, <2>2, <2>4
  <2>. QED  BY <1>2, <1>4, <2>3, <2>4
<1>. QED  BY <1>3, <1>4 DEF SentInOrder

\* The message at a place was at another one before the step.
MessageWas(r, e, k, i, k0, i0) ==
    /\ MessagePlace(r, e, k0, i0)
    /\ MessageAt(r, e, k, i)' = MessageAt(r, e, k0, i0)

\* Where the messages were when the MPI thread of process r has run a job ...
LEMMA JobMovesMessages ==
    ASSUME TypeOK, AtHome, NEW r \in Ranks,
           RunsSend(r) \/ RunsReceive(r) \/ RunsClose(r),
           NEW q \in Ranks, NEW e \in Endpoints, NEW k \in 1 .. 3, NEW i \in Nat,
           MessagePlace(q, e, k, i)'
    PROVE  \/ k \in {1, 2} /\ MessageWas(q, e, k, i, k, i)
           \/ /\ k = 3 /\ MessageWas(q, e, 3, i, 3, Before(q, r, i))
              /\ q = r => 1 < Before(q, r, i)
           \/ /\ k = 2 /\ q = r /\ MessageWas(q, e, 2, i, 3, 1)
              /\ \A j \in DOMAIN wire[q][e] : j < i
              /\ \A j \in Nat : i < j => ~MessagePlace(q, e, 2, j)'
<1>. jobs[r] # <<>> /\ EndsJob(r) /\ UNCHANGED pendingReceives
  BY DEF RunsSend, RunsReceive, RunsClose, Runs
<1>1. CASE k = 1
  BY <1>1 DEF MessagePlace, MessageAt, MessageWas
<1>2. CASE k = 3
  <2>1. /\ Before(q, r, i) \in DOMAIN jobs[q]
        /\ jobs'[q][i] = jobs[q][Before(q, r, i)]
        /\ q = r => 1 < Before(q, r, i)
    BY <1>2, JobsEnded DEF MessagePlace
  <2>. QED  BY <1>2, <2>1 DEF MessagePlace, MessageAt, MessageWas
<1>3. CASE k = 2 /\ wire'[q][e] = wire[q][e]
  BY <1>3 DEF MessagePlace, MessageAt, MessageWas
<1>4. CASE k = 2 /\ wire'[q][e] # wire[q][e]
  <2>1. RunsSend(r)
    BY <1>4 DEF RunsReceive, RunsClose
  <2>2. PICK m \in Messages :
          /\ m = jobs[r][1].message /\ 1 \in DOMAIN jobs[r] /\ IsSend(jobs[r][1])
          /\ wire' = [wire EXCEPT ![r][m.to] = @ \o Isends(m)]
    BY <2>1, JobRun, JobTypes DEF RunsSend, IsSend
  <2>3. q = r /\ e = m.to
    BY <1>4, <2>2, WireGrows, ZenonT(40)
  <2>4. Grown(wire[r][m.to], wire'[r][m.to], m)
    BY <2>2, WireGrows, ZenonT(40)
  <2>. DEFINE old == wire[r][m.to]
              new == wire'[r][m.to]
  <2>5. i \in DOMAIN new /\ IsHeader(new[i])
    BY <1>4, <2>3 DEF MessagePlace
  <2>6. CASE i \in DOMAIN old
    <3>1. new[i] = old[i]
      <4>. HIDE DEF old, new
      <4>. QED  BY <2>4, <2>6, GrownKeeps DEF old, new
    <3>. QED  BY <1>4, <2>3, <2>5, <2>6, <3>1 DEF MessagePlace, MessageAt, MessageWas
  <2>7. CASE i \notin DOMAIN old
    <3>1. /\ \A j \in DOMAIN old : j < i
          /\ new[i] = HeaderOf(m)
          /\ \A j \in DOMAIN new : i < j => new[j].kind = "body"
      <4>1. Grown(old, new, m)
        BY <2>4
      <4>. HIDE DEF old, new
      <4>2. /\ \A j \in DOMAIN old : j < i
            /\ \/ new[i] = HeaderOf(m) /\ \A j \in DOMAIN new : i < j => new[j].kind = "body"
               \/ new[i] = BodyOf(m)
        BY <2>5, <2>7, <4>1, GrownAdds
      <4>. QED  BY <2>5, <4>2, Parts DEF IsHeader
    <3>2. MessageWas(q, e, 2, i, 3, 1)
      <4>1. wire'[q][e][i].of = m
        BY <2>3, <3>1, Parts
      <4>2. jobs[q][1].message = m /\ MessagePlace(q, e, 3, 1)
        BY <2>2, <2>3 DEF MessagePlace
      <4>. QED  BY <4>1, <4>2 DEF MessageWas, MessageAt
    <3>3. \A j \in Nat : i < j => ~MessagePlace(q, e, 2, j)'
      BY <2>3, <3>1 DEF MessagePlace, IsHeader
    <3>. QED  BY <1>4, <2>3, <3>1, <3>2, <3>3
  <2>. QED  BY <2>6, <2>7
<1>. QED  BY <1>1, <1>2, <1>3, <1>4

\* A receive begins behind those of its process.
LEMMA ReceiveComes ==
    ASSUME TypeOK, NEW r \in Ranks, NEW p \in PendingReceives,
           pendingReceives' = [pendingReceives EXCEPT ![r] = Append(@, p)]
    PROVE  LET n == Len(pendingReceives[r]) IN
           /\ n \in Nat /\ DOMAIN pendingReceives[r] = 1 .. n
           /\ DOMAIN pendingReceives'[r] = 1 .. n + 1
           /\ pendingReceives'[r][n + 1] = p
           /\ \A j \in 1 .. n : pendingReceives'[r][j] = pendingReceives[r][j]
<1>. DEFINE old == pendingReceives[r]
<1>1. old \in Seq(PendingReceives) /\ pendingReceives'[r] = Append(old, p)
  BY DEF TypeOK
<1>. HIDE DEF old
<1>2. /\ Append(old, p) \in Seq(PendingReceives)
      /\ Len(Append(old, p)) = Len(old) + 1
      /\ \A j \in 1 .. Len(old) : Append(old, p)[j] = old[j]
      /\ Append(old, p)[Len(old) + 1] = p
  BY <1>1, AppendProperties
<1>3. Len(old) \in Nat /\ DOMAIN old = 1 .. Len(old)
      /\ DOMAIN Append(old, p) = 1 .. Len(old) + 1
  BY <1>1, <1>2, LenProperties
<1>. QED  BY <1>1, <1>2, <1>3 DEF old

\* ... has found one for a receive ...
LEMMA ProbeMovesMessages ==
    ASSUME TypeOK, AtHome, Paired, NEW r \in Ranks, NEW f \in Endpoints, NEW src \in Ranks,
           ProbeFinds(r, f, src),
           NEW q \in Ranks, NEW e \in Endpoints, NEW k \in 1 .. 3, NEW i \in Nat,
           MessagePlace(q, e, k, i)'
    PROVE  \/ k \in {1, 3} /\ MessageWas(q, e, k, i, k, i)
           \/ /\ k = 1 /\ q = src /\ e = f /\ MessageWas(q, e, 1, i, 2, 1)
              /\ \A j \in Nat : MessagePlace(q, e, 1, j) => j < i
              /\ \A j \in Nat : i < j => ~MessagePlace(q, e, 1, j)'
           \/ k = 2 /\ q = src /\ e = f /\ MessageWas(q, e, 2, i, 2, i + 2)
           \/ k = 2 /\ ~(q = src /\ e = f) /\ MessageWas(q, e, 2, i, 2, i)
<1>1. CASE k = 3
  BY <1>1 DEF ProbeFinds, MessagePlace, MessageAt, MessageWas
<1>2. CASE k = 2 /\ ~(q = src /\ e = f)
  <2>1. wire'[q][e] = wire[q][e]
    BY <1>2, WireShrinks DEF ProbeFinds
  <2>. QED  BY <1>2, <2>1 DEF MessagePlace, MessageAt, MessageWas
<1>3. CASE k = 2 /\ q = src /\ e = f
  <2>1. Shrunk(wire[q][e], wire'[q][e])
    BY <1>3, WireShrinks DEF ProbeFinds
  <2>2. i + 2 \in DOMAIN wire[q][e] /\ wire'[q][e][i] = wire[q][e][i + 2]
    BY <1>3, <2>1 DEF Shrunk, MessagePlace
  <2>. QED  BY <1>3, <2>2 DEF MessagePlace, MessageAt, MessageWas
<1>4. CASE k = 1
  <2>0. /\ Found(f, src) \in PendingReceives
        /\ pendingReceives' = [pendingReceives EXCEPT ![r] = Append(@, Found(f, src))]
    BY FoundType
  <2>. DEFINE n == Len(pendingReceives[r])
  <2>1. \A p \in Ranks \ {r} : pendingReceives'[p] = pendingReceives[p]
    BY <2>0
  <2>5. /\ n \in Nat /\ DOMAIN pendingReceives[r] = 1 .. n
        /\ DOMAIN pendingReceives'[r] = 1 .. n + 1
        /\ pendingReceives'[r][n + 1] = Found(f, src)
        /\ \A j \in 1 .. n : pendingReceives'[r][j] = pendingReceives[r][j]
    BY <2>0, ReceiveComes
  <2>2. e[1] \in Ranks /\ f[1] = r
    BY EndpointTypes DEF ProbeFinds
  <2>3. CASE i \in DOMAIN pendingReceives[e[1]]
    <3>1. pendingReceives'[e[1]][i] = pendingReceives[e[1]][i]
      BY <2>1, <2>2, <2>3, <2>5
    <3>. QED  BY <1>4, <2>3, <3>1 DEF MessagePlace, MessageAt, MessageWas
  <2>4. CASE i \notin DOMAIN pendingReceives[e[1]]
    <3>1. e[1] = r /\ i = n + 1
      BY <1>4, <2>1, <2>2, <2>4, <2>5 DEF MessagePlace
    <3>2. /\ Found(f, src).source = src /\ Found(f, src).local = f
          /\ Found(f, src).body = wire[src][f][2]
      BY DEF Found
    <3>3. q = src /\ e = f
      BY <1>4, <2>5, <3>1, <3>2 DEF MessagePlace
    <3>4. MessageWas(q, e, 1, i, 2, 1)
      <4>1. wire[src][f][1] \in Headers /\ wire[src][f][2] = BodyOf(wire[src][f][1].of)
        BY FirstPair DEF ProbeFinds
      <4>2. wire[src][f][2].of = wire[src][f][1].of /\ IsHeader(wire[src][f][1])
        BY <4>1, Parts DEF Headers, IsHeader
      <4>3. 1 \in DOMAIN wire[src][f]
        BY WireShrinks DEF ProbeFinds, Shrunk
      <4>4. pendingReceives'[r][i].body.of = wire[src][f][1].of
        BY <2>5, <3>1, <3>2, <4>2
      <4>. QED  BY <3>1, <3>3, <4>2, <4>3, <4>4 DEF MessageWas, MessagePlace, MessageAt
    <3>5. \A j \in Nat : MessagePlace(q, e, 1, j) => j < i
      BY <2>5, <3>1 DEF MessagePlace
    <3>6. \A j \in Nat : i < j => ~MessagePlace(q, e, 1, j)'
      BY <2>5, <3>1 DEF MessagePlace
    <3>. QED  BY <1>4, <3>3, <3>4, <3>5, <3>6
  <2>. QED  BY <2>3, <2>4
<1>. QED  BY <1>1, <1>2, <1>3, <1>4

\* ... or has handed one over.
LEMMA ReceiveMovesMessages ==
    ASSUME TypeOK, NEW r \in Ranks, TrackReceiveCompletes(r),
           NEW q \in Ranks, NEW e \in Endpoints, NEW k \in 1 .. 3, NEW i \in Nat,
           MessagePlace(q, e, k, i)'
    PROVE  \/ k \in {2, 3} /\ MessageWas(q, e, k, i, k, i)
           \/ k = 1 /\ MessageWas(q, e, 1, i, 1, Before(e[1], r, i))
<1>1. CASE k \in {2, 3}
  BY <1>1 DEF TrackReceiveCompletes, MessagePlace, MessageAt, MessageWas
<1>2. CASE k = 1
  <2>1. /\ \A p \in Ranks \ {r} : pendingReceives'[p] = pendingReceives[p]
        /\ \A j \in DOMAIN pendingReceives'[r] :
            /\ j + 1 \in DOMAIN pendingReceives[r]
            /\ pendingReceives'[r][j] = pendingReceives[r][j + 1]
    BY HeadLeaves DEF TrackReceiveCompletes, TypeOK
  <2>2. e[1] \in Ranks
    BY EndpointTypes
  <2>. QED  BY <1>2, <2>1, <2>2 DEF MessagePlace, MessageAt, MessageWas, Before
<1>. QED  BY <1>1, <1>2

LEMMA MarksMoveNoMessages ==
    ASSUME TypeOK, NEW r \in Ranks, TrackReceiveBreaks(r),
           NEW q \in Ranks, NEW e \in Endpoints, NEW k \in 1 .. 3, NEW i \in Nat
    PROVE  /\ MessagePlace(q, e, k, i)' <=> MessagePlace(q, e, k, i)
           /\ MessagePlace(q, e, k, i)' => MessageWas(q, e, k, i, k, i)
<1>1. e[1] \in Ranks
  BY EndpointTypes
<1>2. CASE k = 1
  <2>1. /\ DOMAIN pendingReceives'[e[1]] = DOMAIN pendingReceives[e[1]]
        /\ i \in DOMAIN pendingReceives[e[1]] =>
            SameReceive(pendingReceives'[e[1]][i], pendingReceives[e[1]][i])
    BY <1>1, OnlyMarks
  <2>. QED  BY <1>2, <2>1 DEF SameReceive, MessagePlace, MessageAt, MessageWas
<1>3. CASE k \in {2, 3}
  BY <1>3 DEF TrackReceiveBreaks, MessagePlace, MessageAt, MessageWas
<1>. QED  BY <1>2, <1>3

\* Messages that have moved, but not past each other, are in order if they were.
LEMMA OrderKept ==
    ASSUME SentInOrder, NEW r \in Ranks, NEW e \in Endpoints,
           NEW k, NEW i, NEW k0 \in 1 .. 3, NEW i0 \in Nat, MessageWas(r, e, k, i, k0, i0),
           NEW l, NEW j, NEW l0 \in 1 .. 3, NEW j0 \in Nat, MessageWas(r, e, l, j, l0, j0),
           Ahead(k0, i0, l0, j0)
    PROVE  MessageAt(r, e, k, i)'.number < MessageAt(r, e, l, j)'.number
<1>. QED  BY DEF SentInOrder, MessageWas

LEMMA NumberKept ==
    ASSUME SentInOrder, UNCHANGED sends, NEW r \in Ranks, NEW e \in Endpoints,
           NEW k, NEW i, NEW k0 \in 1 .. 3, NEW i0 \in Nat, MessageWas(r, e, k, i, k0, i0)
    PROVE  MessageAt(r, e, k, i)'.number <= sends'
<1>. QED  BY DEF SentInOrder, MessageWas

LEMMA BeforeType ==
    ASSUME NEW q, NEW r, NEW i \in Nat
    PROVE  /\ Before(q, r, i) \in Nat
           /\ \A j \in Nat : i < j => Before(q, r, i) < Before(q, r, j)
<1>. QED  BY DEF Before

LEMMA SentInOrderThread ==
    ASSUME TypeOK, AtHome, Paired, SentInOrder, NEW r \in Ranks, MpiThread(r)
    PROVE  SentInOrder'
<1>. UNCHANGED sends
  BY ThreadKeeps
<1>. SUFFICES ASSUME NEW q \in Ranks, NEW e \in Endpoints,
                     NEW k \in 1 .. 3, NEW i \in Nat, MessagePlace(q, e, k, i)'
              PROVE  /\ MessageAt(q, e, k, i)'.number <= sends'
                     /\ \A l \in 1 .. 3, j \in Nat :
                          MessagePlace(q, e, l, j)' /\ Ahead(k, i, l, j)
                            => MessageAt(q, e, k, i)'.number < MessageAt(q, e, l, j)'.number
  BY DEF SentInOrder
<1>1. CASE RunsSend(r) \/ RunsReceive(r) \/ RunsClose(r)
  <2>1. MessageAt(q, e, k, i)'.number <= sends'
    BY <1>1, JobMovesMessages, NumberKept, BeforeType
  <2>2. ASSUME NEW l \in 1 .. 3, NEW j \in Nat, MessagePlace(q, e, l, j)', Ahead(k, i, l, j)
        PROVE  MessageAt(q, e, k, i)'.number < MessageAt(q, e, l, j)'.number
    <3>1. \/ k \in {1, 2} /\ MessageWas(q, e, k, i, k, i)
          \/ /\ k = 3 /\ MessageWas(q, e, 3, i, 3, Before(q, r, i))
             /\ q = r => 1 < Before(q, r, i)
          \/ /\ k = 2 /\ q = r /\ MessageWas(q, e, 2, i, 3, 1)
             /\ \A n \in DOMAIN wire[q][e] : n < i
             /\ \A n \in Nat : i < n => ~MessagePlace(q, e, 2, n)'
      BY <1>1, JobMovesMessages
    <3>2. \/ l \in {1, 2} /\ MessageWas(q, e, l, j, l, j)
          \/ /\ l = 3 /\ MessageWas(q, e, 3, j, 3, Before(q, r, j))
             /\ q = r => 1 < Before(q, r, j)
          \/ /\ l = 2 /\ q = r /\ MessageWas(q, e, 2, j, 3, 1)
             /\ \A n \in DOMAIN wire[q][e] : n < j
             /\ \A n \in Nat : j < n => ~MessagePlace(q, e, 2, n)'
      BY <1>1, <2>2, JobMovesMessages
    <3>3. Before(q, r, i) \in Nat /\ Before(q, r, j) \in Nat
          /\ (i < j => Before(q, r, i) < Before(q, r, j))
      BY BeforeType
    <3>4. PICK k0 \in 1 .. 3, i0 \in Nat, l0 \in 1 .. 3, j0 \in Nat :
            /\ MessageWas(q, e, k, i, k0, i0) /\ MessageWas(q, e, l, j, l0, j0)
            /\ Ahead(k0, i0, l0, j0)
      BY <2>2, <3>1, <3>2, <3>3 DEF Ahead
    <3>. QED  BY <3>4, OrderKept
  <2>. QED  BY <2>1, <2>2
<1>2. CASE \E f \in Endpoints, src \in Ranks : ProbeFinds(r, f, src)
  <2>0. PICK f \in Endpoints, src \in Ranks : ProbeFinds(r, f, src)
    BY <1>2
  <2>. DEFINE WasThere(n, x) ==
           \/ n \in {1, 3} /\ MessageWas(q, e, n, x, n, x)
           \/ /\ n = 1 /\ q = src /\ e = f /\ MessageWas(q, e, 1, x, 2, 1)
              /\ \A y \in Nat : MessagePlace(q, e, 1, y) => y < x
              /\ \A y \in Nat : x < y => ~MessagePlace(q, e, 1, y)'
           \/ n = 2 /\ q = src /\ e = f /\ MessageWas(q, e, 2, x, 2, x + 2)
           \/ n = 2 /\ ~(q = src /\ e = f) /\ MessageWas(q, e, 2, x, 2, x)
  <2>1. ASSUME NEW n \in 1 .. 3, NEW x \in Nat, MessagePlace(q, e, n, x)'
        PROVE  WasThere(n, x)
    BY <2>0, <2>1, ProbeMovesMessages
  <2>2. MessageAt(q, e, k, i)'.number <= sends'
    <3>1. PICK k0 \in 1 .. 3, i0 \in Nat : MessageWas(q, e, k, i, k0, i0)
      BY <2>1
    <3>. QED  BY <3>1, NumberKept
  <2>3. ASSUME NEW l \in 1 .. 3, NEW j \in Nat, MessagePlace(q, e, l, j)', Ahead(k, i, l, j)
        PROVE  MessageAt(q, e, k, i)'.number < MessageAt(q, e, l, j)'.number
    <3>1. WasThere(k, i) /\ WasThere(l, j)
      BY <2>1, <2>3
    <3>2. PICK k0 \in 1 .. 3, i0 \in Nat, l0 \in 1 .. 3, j0 \in Nat :
            /\ MessageWas(q, e, k, i, k0, i0) /\ MessageWas(q, e, l, j, l0, j0)
            /\ Ahead(k0, i0, l0, j0)
      BY <2>3, <3>1 DEF Ahead, MessageWas
    <3>. QED  BY <3>2, OrderKept
  <2>. QED  BY <2>2, <2>3
<1>3. CASE TrackReceiveCompletes(r)
  <2>1. MessageAt(q, e, k, i)'.number <= sends'
    BY <1>3, ReceiveMovesMessages, NumberKept, BeforeType
  <2>2. ASSUME NEW l \in 1 .. 3, NEW j \in Nat, MessagePlace(q, e, l, j)', Ahead(k, i, l, j)
        PROVE  MessageAt(q, e, k, i)'.number < MessageAt(q, e, l, j)'.number
    <3>1. /\ \/ k \in {2, 3} /\ MessageWas(q, e, k, i, k, i)
             \/ k = 1 /\ MessageWas(q, e, 1, i, 1, Before(e[1], r, i))
          /\ \/ l \in {2, 3} /\ MessageWas(q, e, l, j, l, j)
             \/ l = 1 /\ MessageWas(q, e, 1, j, 1, Before(e[1], r, j))
      BY <1>3, <2>2, ReceiveMovesMessages
    <3>2. /\ Before(e[1], r, i) \in Nat /\ Before(e[1], r, j) \in Nat
          /\ i < j => Before(e[1], r, i) < Before(e[1], r, j)
      BY BeforeType
    <3>3. PICK k0 \in 1 .. 3, i0 \in Nat, l0 \in 1 .. 3, j0 \in Nat :
            /\ MessageWas(q, e, k, i, k0, i0) /\ MessageWas(q, e, l, j, l0, j0)
            /\ Ahead(k0, i0, l0, j0)
      BY <2>2, <3>1, <3>2 DEF Ahead
    <3>. QED  BY <3>3, OrderKept
  <2>. QED  BY <2>1, <2>2
<1>4. CASE TrackReceiveBreaks(r)
  BY <1>4, MarksMoveNoMessages, NumberKept, OrderKept
<1>5. CASE TrackSendCompletes(r) \/ ProbeEnds(r)
  <2>1. Elsewhere
    BY <1>5, ElsewhereSteps
  <2>2. \A l \in 1 .. 3, j \in Nat :
            /\ MessagePlace(q, e, l, j)' <=> MessagePlace(q, e, l, j)
            /\ MessageAt(q, e, l, j)' = MessageAt(q, e, l, j)
    BY <2>1 DEF Elsewhere, MessagePlace, MessageAt
  <2>. QED  BY <2>2 DEF SentInOrder
<1>. QED  BY <1>1, <1>2, <1>3, <1>4, <1>5 DEF MpiThread

-----------------------------------------------------------------------------
(* Receives stay in the order in which they were called *)

LEMMA CallTypesAt ==
    ASSUME TypeOK, NEW e \in Endpoints, NEW k \in 1 .. 4, NEW i, CallPlace(e, k, i)
    PROVE  i \in Nat /\ CallAt(e, k, i) \in Int
<1>1. ASSUME NEW S, NEW s \in Seq(S)
      PROVE  \A j \in DOMAIN s : j \in Nat /\ s[j] \in S
  <2>1. Len(s) \in Nat /\ DOMAIN s = 1 .. Len(s)
    BY LenProperties
  <2>. QED  BY <2>1, ElementOfSeq
<1>2. e[1] \in Ranks /\ Promises \subseteq Int
  BY EndpointTypes, BoundsAssumption DEF Promises
<1>3. CASE k = 1
  <2>1. i \in Nat /\ fulfilled[e][i] \in Datagrams
    BY <1>1, <1>3 DEF CallPlace, TypeOK
  <2>2. fulfilled[e][i].promise \in Promises
    BY <2>1 DEF Datagrams
  <2>. QED  BY <1>2, <1>3, <2>1, <2>2 DEF CallAt
<1>4. CASE k = 2
  <2>1. i \in Nat /\ pendingReceives[e[1]][i] \in PendingReceives
    BY <1>1, <1>2, <1>4 DEF CallPlace, TypeOK
  <2>2. pendingReceives[e[1]][i].promise \in Promises
    BY <2>1 DEF PendingReceives
  <2>3. CallAt(e, k, i) = pendingReceives[e[1]][i].promise
    BY <1>4 DEF CallAt
  <2>. QED  BY <1>2, <2>1, <2>2, <2>3
<1>5. CASE k = 3
  <2>1. i \in Nat /\ pendingProbes[e][i] \in Promises
    BY <1>1, <1>5 DEF CallPlace, TypeOK
  <2>2. CallAt(e, k, i) = pendingProbes[e][i]
    BY <1>5 DEF CallAt
  <2>. QED  BY <1>2, <2>1, <2>2
<1>6. CASE k = 4
  <2>1. i \in Nat /\ jobs[e[1]][i] \in Jobs
    BY <1>1, <1>2, <1>6 DEF CallPlace, TypeOK
  <2>2. jobs[e[1]][i].promise \in Promises
    BY <1>6, <2>1, JobTypes DEF CallPlace, IsReceive
  <2>3. CallAt(e, k, i) = jobs[e[1]][i].promise
    BY <1>6 DEF CallAt
  <2>. QED  BY <1>2, <2>1, <2>2, <2>3
<1>. QED  BY <1>3, <1>4, <1>5, <1>6

LEMMA CalledInOrderCalls ==
    ASSUME TypeOK, TypeOK', CalledInOrder, NEW s \in Sockets, ProgramCalls(s) \/ BindBlocks(s)
    PROVE  CalledInOrder'
<1>1. /\ receives \in Int /\ receives' \in Int /\ receives <= receives'
      /\ UNCHANGED <<pendingProbes, pendingReceives, fulfilled>>
  BY CallsPost
<1>2. ASSUME NEW e \in Endpoints, NEW k \in 1 .. 4, NEW i \in Nat, CallPlace(e, k, i)'
      PROVE  \/ CallPlace(e, k, i) /\ CallAt(e, k, i)' = CallAt(e, k, i)
             \/ /\ k = 4 /\ \A j \in DOMAIN jobs'[e[1]] : ~(i < j)
                /\ CallAt(e, k, i)' = receives + 1 /\ receives' = receives + 1
  <2>1. CASE k \in {1, 2, 3}
    BY <1>1, <1>2, <2>1 DEF CallPlace, CallAt
  <2>2. CASE k = 4
    <3>1. i \in DOMAIN jobs'[e[1]] /\ IsReceive(jobs'[e[1]][i], e) /\ e[1] \in Ranks
      BY <1>2, <2>2, EndpointTypes DEF CallPlace
    <3>2. CASE i \in DOMAIN jobs[e[1]] /\ jobs'[e[1]][i] = jobs[e[1]][i]
      BY <2>2, <3>1, <3>2 DEF CallPlace, CallAt
    <3>3. CASE ~(i \in DOMAIN jobs[e[1]] /\ jobs'[e[1]][i] = jobs[e[1]][i])
      <4>1. PostedBy(s, jobs'[e[1]][i])
        BY <3>1, <3>3, CallsPost
      <4>2. \A j \in DOMAIN jobs'[e[1]] : ~(i < j)
        BY <3>1, <3>3, CallsPost
      <4>. QED  BY <2>2, <3>1, <4>1, <4>2 DEF PostedBy, IsReceive, CallAt
    <3>. QED  BY <3>2, <3>3
  <2>. QED  BY <2>1, <2>2
<1>3. ASSUME NEW e \in Endpoints, NEW k \in 1 .. 4, NEW i \in Nat, CallPlace(e, k, i)'
      PROVE  CallAt(e, k, i)' <= receives'
  <2>1. CASE CallPlace(e, k, i) /\ CallAt(e, k, i)' = CallAt(e, k, i)
    <3>1. CallAt(e, k, i) <= receives /\ CallAt(e, k, i) \in Int
      BY <2>1, CallTypesAt DEF CalledInOrder
    <3>. QED  BY <1>1, <2>1, <3>1
  <2>2. CASE CallAt(e, k, i)' = receives + 1 /\ receives' = receives + 1
    BY <1>1, <2>2
  <2>. QED  BY <1>2, <1>3, <2>1, <2>2
<1>4. ASSUME NEW e \in Endpoints, NEW k \in 1 .. 4, NEW i \in Nat,
             NEW l \in 1 .. 4, NEW j \in Nat,
             CallPlace(e, k, i)', CallPlace(e, l, j)', Ahead(k, i, l, j)
      PROVE  CallAt(e, k, i)' < CallAt(e, l, j)'
  <2>1. CallPlace(e, k, i) /\ CallAt(e, k, i)' = CallAt(e, k, i)
    <3>1. k = 4 /\ l = 4 => i < j /\ j \in DOMAIN jobs'[e[1]]
      BY <1>4 DEF Ahead, CallPlace
    <3>2. k = 4 => l = 4
      BY <1>4 DEF Ahead
    <3>. QED  BY <1>2, <1>4, <3>1, <3>2
  <2>2. CallAt(e, k, i) <= receives /\ CallAt(e, k, i) \in Int
    BY <2>1, CallTypesAt DEF CalledInOrder
  <2>3. CASE CallPlace(e, l, j) /\ CallAt(e, l, j)' = CallAt(e, l, j)
    BY <1>4, <2>1, <2>3 DEF CalledInOrder
  <2>4. CASE CallAt(e, l, j)' = receives + 1
    BY <1>1, <2>1, <2>2, <2>4
  <2>. QED  BY <1>2, <1>4, <2>3, <2>4
<1>. QED  BY <1>3, <1>4 DEF CalledInOrder

\* The receive at a place was at another one before the step.
CallWas(e, k, i, k0, i0) ==
    CallPlace(e, k0, i0) /\ CallAt(e, k, i)' = CallAt(e, k0, i0)

\* A receive begins to wait behind those of its endpoint.
LEMMA ProbeComes ==
    ASSUME TypeOK, NEW e \in Endpoints, NEW promise \in Promises,
           pendingProbes' = [pendingProbes EXCEPT ![e] = Append(@, promise)]
    PROVE  LET n == Len(pendingProbes[e]) IN
           /\ n \in Nat /\ DOMAIN pendingProbes[e] = 1 .. n
           /\ DOMAIN pendingProbes'[e] = 1 .. n + 1
           /\ pendingProbes'[e][n + 1] = promise
           /\ \A j \in 1 .. n : pendingProbes'[e][j] = pendingProbes[e][j]
           /\ \A f \in Endpoints \ {e} : pendingProbes'[f] = pendingProbes[f]
<1>. DEFINE old == pendingProbes[e]
<1>1. old \in Seq(Promises) /\ pendingProbes'[e] = Append(old, promise)
  BY DEF TypeOK
<1>. HIDE DEF old
<1>2. /\ Append(old, promise) \in Seq(Promises)
      /\ Len(Append(old, promise)) = Len(old) + 1
      /\ \A j \in 1 .. Len(old) : Append(old, promise)[j] = old[j]
      /\ Append(old, promise)[Len(old) + 1] = promise
  BY <1>1, AppendProperties
<1>3. /\ Len(old) \in Nat /\ DOMAIN old = 1 .. Len(old)
      /\ DOMAIN Append(old, promise) = 1 .. Len(old) + 1
  BY <1>1, <1>2, LenProperties
<1>. QED  BY <1>1, <1>2, <1>3 DEF old

\* The receive that a job posts is one of its own process.
LEMMA ReceiveJobAtHome ==
    ASSUME TypeOK, AtHome, NEW r \in Ranks, RunsReceive(r)
    PROVE  /\ IsReceive(jobs[r][1], jobs[r][1].local) /\ 1 \in DOMAIN jobs[r]
           /\ jobs[r][1].local \in Endpoints /\ jobs[r][1].local[1] = r
           /\ jobs[r][1].promise \in Promises
           /\ pendingProbes' =
                [pendingProbes EXCEPT ![jobs[r][1].local] = Append(@, jobs[r][1].promise)]
<1>1. /\ Runs(r, "receive") /\ EndsJob(r)
      /\ pendingProbes' = [pendingProbes EXCEPT
            ![Head(jobs[r]).local] = Append(@, Head(jobs[r]).promise)]
  BY DEF RunsReceive
<1>2. 1 \in DOMAIN jobs[r] /\ Head(jobs[r]) = jobs[r][1] /\ jobs[r][1].run = "receive"
      /\ jobs[r][1] \in Jobs
  BY <1>1, JobRun
<1>. QED  BY <1>1, <1>2, JobTypes DEF IsReceive, AtHome, JobsAtHome

\* Where the receives were when the MPI thread of process r has posted one ...
LEMMA JobMovesCalls ==
    ASSUME TypeOK, AtHome, NEW r \in Ranks,
           RunsSend(r) \/ RunsReceive(r) \/ RunsClose(r),
           NEW e \in Endpoints, NEW k \in 1 .. 4, NEW i \in Nat, CallPlace(e, k, i)'
    PROVE  \/ k \in {1, 2, 3} /\ CallWas(e, k, i, k, i)
           \/ /\ k = 4 /\ CallWas(e, 4, i, 4, Before(e[1], r, i))
              /\ e[1] = r => 1 < Before(e[1], r, i)
           \/ /\ k = 3 /\ e[1] = r /\ CallWas(e, 3, i, 4, 1)
              /\ \A j \in Nat : CallPlace(e, 3, j) => j < i
              /\ \A j \in Nat : i < j => ~CallPlace(e, 3, j)'
<1>. /\ jobs[r] # <<>> /\ EndsJob(r) /\ UNCHANGED <<pendingReceives, fulfilled>>
     /\ e[1] \in Ranks
  BY EndpointTypes DEF RunsSend, RunsReceive, RunsClose, Runs
<1>1. CASE k \in {1, 2}
  BY <1>1 DEF CallPlace, CallAt, CallWas
<1>2. CASE k = 4
  <2>1. /\ Before(e[1], r, i) \in DOMAIN jobs[e[1]]
        /\ jobs'[e[1]][i] = jobs[e[1]][Before(e[1], r, i)]
        /\ e[1] = r => 1 < Before(e[1], r, i)
    BY <1>2, JobsEnded DEF CallPlace
  <2>. QED  BY <1>2, <2>1 DEF CallPlace, CallAt, CallWas
<1>3. CASE k = 3 /\ RunsSend(r)
  <2>1. UNCHANGED pendingProbes
    BY <1>3 DEF RunsSend
  <2>. QED  BY <1>3, <2>1 DEF CallPlace, CallAt, CallWas
<1>4. CASE k = 3 /\ RunsClose(r)
  <2>1. pendingProbes'[e] = pendingProbes[e] \/ pendingProbes'[e] = <<>>
    BY <1>4 DEF RunsClose, TypeOK
  <2>2. pendingProbes'[e] = pendingProbes[e]
    BY <1>4, <2>1 DEF CallPlace
  <2>. QED  BY <1>4, <2>2 DEF CallPlace, CallAt, CallWas
<1>5. CASE k = 3 /\ RunsReceive(r)
  <2>. DEFINE f == jobs[r][1].local
              n == Len(pendingProbes[f])
  <2>1. /\ IsReceive(jobs[r][1], f) /\ 1 \in DOMAIN jobs[r]
        /\ f \in Endpoints /\ f[1] = r
    BY <1>5, ReceiveJobAtHome
  <2>2. /\ n \in Nat /\ DOMAIN pendingProbes[f] = 1 .. n
        /\ DOMAIN pendingProbes'[f] = 1 .. n + 1
        /\ pendingProbes'[f][n + 1] = jobs[r][1].promise
        /\ \A j \in 1 .. n : pendingProbes'[f][j] = pendingProbes[f][j]
        /\ \A g \in Endpoints \ {f} : pendingProbes'[g] = pendingProbes[g]
    BY <1>5, ReceiveJobAtHome, ProbeComes, SMTT(20)
  <2>. HIDE DEF n, f
  <2>3. CASE e # f
    BY <1>5, <2>2, <2>3 DEF CallPlace, CallAt, CallWas
  <2>4. CASE e = f /\ i \in DOMAIN pendingProbes[f]
    BY <1>5, <2>2, <2>4 DEF CallPlace, CallAt, CallWas
  <2>5. CASE e = f /\ i \notin DOMAIN pendingProbes[f]
    <3>1. i = n + 1
      BY <1>5, <2>2, <2>5 DEF CallPlace
    <3>2. CallWas(e, 3, i, 4, 1)
      BY <2>1, <2>2, <2>5, <3>1 DEF CallPlace, CallAt, CallWas
    <3>3. \A j \in Nat : CallPlace(e, 3, j) => j < i
      BY <2>2, <2>5, <3>1 DEF CallPlace
    <3>4. \A j \in Nat : i < j => ~CallPlace(e, 3, j)'
      BY <2>2, <2>5, <3>1 DEF CallPlace
    <3>. QED  BY <1>5, <2>1, <2>5, <3>2, <3>3, <3>4
  <2>. QED  BY <2>3, <2>4, <2>5
<1>. QED  BY <1>1, <1>2, <1>3, <1>4, <1>5

\* ... has found a message for the first one ...
LEMMA ProbeMovesCalls ==
    ASSUME TypeOK, AtHome, Paired, NEW r \in Ranks, NEW f \in Endpoints, NEW src \in Ranks,
           ProbeFinds(r, f, src),
           NEW e \in Endpoints, NEW k \in 1 .. 4, NEW i \in Nat, CallPlace(e, k, i)'
    PROVE  \/ k \in {1, 2, 4} /\ CallWas(e, k, i, k, i)
           \/ k = 3 /\ CallWas(e, 3, i, 3, Before(e, f, i))
              /\ (e = f => 1 < Before(e, f, i))
           \/ /\ k = 2 /\ e = f /\ CallWas(e, 2, i, 3, 1)
              /\ \A j \in Nat : CallPlace(e, 2, j) => j < i
              /\ \A j \in Nat : i < j => ~CallPlace(e, 2, j)'
<1>0. e[1] \in Ranks /\ f[1] = r
  BY EndpointTypes DEF ProbeFinds
<1>1. CASE k \in {1, 4}
  BY <1>1 DEF ProbeFinds, CallPlace, CallAt, CallWas
<1>2. /\ \A g \in Endpoints \ {f} : pendingProbes'[g] = pendingProbes[g]
      /\ \A j \in DOMAIN pendingProbes'[f] :
            /\ j + 1 \in DOMAIN pendingProbes[f] /\ 1 < j + 1
            /\ pendingProbes'[f][j] = pendingProbes[f][j + 1]
      /\ Head(pendingProbes[f]) = pendingProbes[f][1] /\ 1 \in DOMAIN pendingProbes[f]
  <2>1. /\ pendingProbes \in [Endpoints -> Seq(Promises)] /\ pendingProbes[f] # <<>>
        /\ pendingProbes' = [pendingProbes EXCEPT ![f] = Tail(@)]
    BY DEF ProbeFinds, TypeOK
  <2>2. \A g \in Endpoints \ {f} : pendingProbes'[g] = pendingProbes[g]
    BY <2>1
  <2>3. \A j \in DOMAIN pendingProbes'[f] :
            /\ j + 1 \in DOMAIN pendingProbes[f] /\ 1 < j + 1
            /\ pendingProbes'[f][j] = pendingProbes[f][j + 1]
    BY <2>1, HeadLeaves
  <2>4. Head(pendingProbes[f]) = pendingProbes[f][1] /\ 1 \in DOMAIN pendingProbes[f]
    BY <2>1, HeadLeaves
  <2>. QED  BY <2>2, <2>3, <2>4
<1>3. CASE k = 3
  BY <1>2, <1>3 DEF CallPlace, CallAt, CallWas, Before
<1>4. CASE k = 2
  <2>. DEFINE n == Len(pendingReceives[r])
  <2>1. /\ Found(f, src) \in PendingReceives
        /\ pendingReceives' = [pendingReceives EXCEPT ![r] = Append(@, Found(f, src))]
    BY FoundType
  <2>2. \A p \in Ranks \ {r} : pendingReceives'[p] = pendingReceives[p]
    BY <2>1
  <2>3. /\ n \in Nat /\ DOMAIN pendingReceives[r] = 1 .. n
        /\ DOMAIN pendingReceives'[r] = 1 .. n + 1
        /\ pendingReceives'[r][n + 1] = Found(f, src)
        /\ \A j \in 1 .. n : pendingReceives'[r][j] = pendingReceives[r][j]
    BY <2>1, ReceiveComes
  <2>4. CASE i \in DOMAIN pendingReceives[e[1]]
    <3>1. pendingReceives'[e[1]][i] = pendingReceives[e[1]][i]
      BY <1>0, <2>2, <2>3, <2>4
    <3>. QED  BY <1>4, <2>4, <3>1 DEF CallPlace, CallAt, CallWas
  <2>5. CASE i \notin DOMAIN pendingReceives[e[1]]
    <3>1. e[1] = r /\ i = n + 1
      BY <1>0, <1>4, <2>2, <2>3, <2>5 DEF CallPlace
    <3>2. Found(f, src).local = f /\ Found(f, src).promise = Head(pendingProbes[f])
      BY DEF Found
    <3>3. e = f
      BY <1>4, <2>3, <3>1, <3>2 DEF CallPlace
    <3>4. CallWas(e, 2, i, 3, 1)
      BY <1>2, <2>3, <3>1, <3>2, <3>3 DEF CallPlace, CallAt, CallWas
    <3>5. \A j \in Nat : CallPlace(e, 2, j) => j < i
      BY <2>3, <3>1 DEF CallPlace
    <3>6. \A j \in Nat : i < j => ~CallPlace(e, 2, j)'
      BY <2>3, <3>1 DEF CallPlace
    <3>. QED  BY <1>4, <3>3, <3>4, <3>5, <3>6
  <2>. QED  BY <2>4, <2>5
<1>. QED  BY <1>1, <1>3, <1>4

\* A receive is served behind those of its endpoint.
LEMMA ServedNext ==
    ASSUME TypeOK, NEW r \in Ranks, TrackReceiveCompletes(r)
    PROVE  LET p == pendingReceives[r][1]
               n == Len(fulfilled[p.local]) IN
           /\ 1 \in DOMAIN pendingReceives[r]
           /\ p \in PendingReceives
           /\ n \in Nat /\ DOMAIN fulfilled[p.local] = 1 .. n
           /\ DOMAIN fulfilled'[p.local] = 1 .. n + 1
           /\ fulfilled'[p.local][n + 1].promise = p.promise
           /\ fulfilled'[p.local][n + 1].content = p.body
           /\ \A j \in 1 .. n : fulfilled'[p.local][j] = fulfilled[p.local][j]
           /\ \A e \in Endpoints \ {p.local} : fulfilled'[e] = fulfilled[e]
<1>. DEFINE p == pendingReceives[r][1]
            datagram == [promise |-> p.promise,
                         remote |-> <<SourceOf(p), p.header.of.from[2]>>,
                         content |-> p.body]
            old == fulfilled[p.local]
<1>1. 1 \in DOMAIN pendingReceives[r] /\ Head(pendingReceives[r]) = p /\ p \in PendingReceives
  BY HeadLeaves DEF TrackReceiveCompletes, TypeOK
<1>2. fulfilled' = [fulfilled EXCEPT ![p.local] = Append(@, datagram)] /\ p.local \in Endpoints
  BY <1>1 DEF TrackReceiveCompletes, PendingReceives
<1>3. datagram.promise = p.promise /\ datagram.content = p.body
  OBVIOUS
<1>. HIDE DEF p, datagram
<1>4. old \in Seq(Datagrams) /\ fulfilled'[p.local] = Append(old, datagram)
  BY <1>2 DEF TypeOK
<1>5. \A e \in Endpoints \ {p.local} : fulfilled'[e] = fulfilled[e]
  BY <1>2 DEF TypeOK
<1>. HIDE DEF old
<1>6. datagram \in Datagrams \cup {datagram} /\ old \in Seq(Datagrams \cup {datagram})
  BY <1>4
<1>7. /\ Append(old, datagram) \in Seq(Datagrams \cup {datagram})
      /\ Len(Append(old, datagram)) = Len(old) + 1
      /\ \A j \in 1 .. Len(old) : Append(old, datagram)[j] = old[j]
      /\ Append(old, datagram)[Len(old) + 1] = datagram
  BY <1>6, AppendProperties
<1>8. /\ Len(old) \in Nat /\ DOMAIN old = 1 .. Len(old)
      /\ DOMAIN Append(old, datagram) = 1 .. Len(old) + 1
  BY <1>6, <1>7, LenProperties
<1>. QED  BY <1>1, <1>3, <1>4, <1>5, <1>7, <1>8 DEF old, p

\* ... or has served one.
LEMMA ReceiveMovesCalls ==
    ASSUME TypeOK, AtHome, NEW r \in Ranks, TrackReceiveCompletes(r),
           NEW e \in Endpoints, NEW k \in 1 .. 4, NEW i \in Nat, CallPlace(e, k, i)'
    PROVE  \/ k \in {1, 3, 4} /\ CallWas(e, k, i, k, i)
           \/ k = 2 /\ CallWas(e, 2, i, 2, Before(e[1], r, i))
              /\ (e[1] = r => 1 < Before(e[1], r, i))
           \/ /\ k = 1 /\ e[1] = r /\ CallWas(e, 1, i, 2, 1)
              /\ \A j \in Nat : CallPlace(e, 1, j) => j < i
              /\ \A j \in Nat : i < j => ~CallPlace(e, 1, j)'
<1>0. e[1] \in Ranks
  BY EndpointTypes
<1>1. CASE k \in {3, 4}
  <2>1. UNCHANGED <<jobs, pendingProbes>>
    BY DEF TrackReceiveCompletes
  <2>. QED  BY <1>1, <2>1 DEF CallPlace, CallAt, CallWas
<1>2. CASE k = 2
  <2>1. /\ pendingReceives \in [Ranks -> Seq(PendingReceives)] /\ pendingReceives[r] # <<>>
        /\ pendingReceives' = [pendingReceives EXCEPT ![r] = Tail(@)]
    BY DEF TrackReceiveCompletes, TypeOK
  <2>2. \A p \in Ranks \ {r} : pendingReceives'[p] = pendingReceives[p]
    BY <2>1
  <2>3. \A j \in DOMAIN pendingReceives'[r] :
            /\ j + 1 \in DOMAIN pendingReceives[r] /\ 1 < j + 1
            /\ pendingReceives'[r][j] = pendingReceives[r][j + 1]
    BY <2>1, HeadLeaves
  <2>. QED  BY <1>0, <1>2, <2>2, <2>3 DEF CallPlace, CallAt, CallWas, Before
<1>3. CASE k = 1
  <2>. DEFINE p == pendingReceives[r][1]
              f == p.local
              n == Len(fulfilled[f])
  <2>1. /\ 1 \in DOMAIN pendingReceives[r] /\ p \in PendingReceives
        /\ n \in Nat /\ DOMAIN fulfilled[f] = 1 .. n
        /\ DOMAIN fulfilled'[f] = 1 .. n + 1
        /\ fulfilled'[f][n + 1].promise = p.promise
        /\ \A j \in 1 .. n : fulfilled'[f][j] = fulfilled[f][j]
        /\ \A g \in Endpoints \ {f} : fulfilled'[g] = fulfilled[g]
    BY ServedNext
  <2>2. f \in Endpoints /\ f[1] = r
    BY <2>1, ZenonT(40) DEF PendingReceives, AtHome, ReceivesAtHome, Fits
  <2>. HIDE DEF n, f
  <2>3. CASE e # f
    BY <1>3, <2>1, <2>3 DEF CallPlace, CallAt, CallWas
  <2>4. CASE e = f /\ i \in DOMAIN fulfilled[f]
    BY <1>3, <2>1, <2>4 DEF CallPlace, CallAt, CallWas
  <2>5. CASE e = f /\ i \notin DOMAIN fulfilled[f]
    <3>1. i = n + 1
      BY <1>3, <2>1, <2>5 DEF CallPlace
    <3>2. CallWas(e, 1, i, 2, 1)
      <4>1. CallPlace(e, 2, 1)
        BY <2>1, <2>2, <2>5 DEF CallPlace, f
      <4>. QED  BY <2>1, <2>2, <2>5, <3>1, <4>1 DEF CallAt, CallWas
    <3>3. \A j \in Nat : CallPlace(e, 1, j) => j < i
      BY <2>1, <2>5, <3>1 DEF CallPlace
    <3>4. \A j \in Nat : i < j => ~CallPlace(e, 1, j)'
      BY <2>1, <2>5, <3>1 DEF CallPlace
    <3>. QED  BY <1>3, <2>2, <2>5, <3>2, <3>3, <3>4
  <2>. QED  BY <2>3, <2>4, <2>5
<1>. QED  BY <1>1, <1>2, <1>3

LEMMA MarksMoveNoCalls ==
    ASSUME TypeOK, NEW r \in Ranks, TrackReceiveBreaks(r),
           NEW e \in Endpoints, NEW k \in 1 .. 4, NEW i \in Nat, CallPlace(e, k, i)'
    PROVE  CallWas(e, k, i, k, i)
<1>1. e[1] \in Ranks
  BY EndpointTypes
<1>2. CASE k = 2
  <2>1. /\ DOMAIN pendingReceives'[e[1]] = DOMAIN pendingReceives[e[1]]
        /\ i \in DOMAIN pendingReceives[e[1]] =>
            SameReceive(pendingReceives'[e[1]][i], pendingReceives[e[1]][i])
    BY <1>1, OnlyMarks
  <2>. QED  BY <1>2, <2>1 DEF SameReceive, CallPlace, CallAt, CallWas
<1>3. CASE k \in {1, 3, 4}
  BY <1>3 DEF TrackReceiveBreaks, CallPlace, CallAt, CallWas
<1>. QED  BY <1>2, <1>3

LEMMA CallOrderKept ==
    ASSUME CalledInOrder, NEW e \in Endpoints,
           NEW k, NEW i, NEW k0 \in 1 .. 4, NEW i0 \in Nat, CallWas(e, k, i, k0, i0),
           NEW l, NEW j, NEW l0 \in 1 .. 4, NEW j0 \in Nat, CallWas(e, l, j, l0, j0),
           Ahead(k0, i0, l0, j0)
    PROVE  CallAt(e, k, i)' < CallAt(e, l, j)'
<1>. QED  BY DEF CalledInOrder, CallWas

LEMMA CallKept ==
    ASSUME CalledInOrder, UNCHANGED receives, NEW e \in Endpoints,
           NEW k, NEW i, NEW k0 \in 1 .. 4, NEW i0 \in Nat, CallWas(e, k, i, k0, i0)
    PROVE  CallAt(e, k, i)' <= receives'
<1>. QED  BY DEF CalledInOrder, CallWas

\* A step that moves the receives of an endpoint as follows leaves them in order: those
\* of every stage move up in it, and the first of one stage goes behind those of the
\* stage before.
MovesUp(e, from, q, r) ==
    \A k \in 1 .. 4, i \in Nat : CallPlace(e, k, i)' =>
        \/ k # from /\ CallWas(e, k, i, k, i)
        \/ k = from /\ CallWas(e, from, i, from, Before(q, r, i))
           /\ (q = r => 1 < Before(q, r, i))
        \/ /\ k = from - 1 /\ q = r /\ CallWas(e, k, i, from, 1)
           /\ \A j \in Nat : CallPlace(e, k, j) => j < i
           /\ \A j \in Nat : i < j => ~CallPlace(e, k, j)'

LEMMA MovedUpInOrder ==
    ASSUME CalledInOrder, UNCHANGED receives, NEW e \in Endpoints,
           NEW from \in 2 .. 4, NEW q, NEW r, MovesUp(e, from, q, r),
           NEW k \in 1 .. 4, NEW i \in Nat, CallPlace(e, k, i)'
    PROVE  /\ CallAt(e, k, i)' <= receives'
           /\ \A l \in 1 .. 4, j \in Nat :
                CallPlace(e, l, j)' /\ Ahead(k, i, l, j) => CallAt(e, k, i)' < CallAt(e, l, j)'
<1>1. CallAt(e, k, i)' <= receives'
  <2>1. Before(q, r, i) \in Nat /\ from - 1 \in 1 .. 4 /\ from \in 1 .. 4
    BY BeforeType
  <2>2. PICK k0 \in 1 .. 4, i0 \in Nat : CallWas(e, k, i, k0, i0)
    BY <2>1 DEF MovesUp
  <2>. QED  BY <2>2, CallKept
<1>2. ASSUME NEW l \in 1 .. 4, NEW j \in Nat, CallPlace(e, l, j)', Ahead(k, i, l, j)
      PROVE  CallAt(e, k, i)' < CallAt(e, l, j)'
  <2>1. /\ Before(q, r, i) \in Nat /\ Before(q, r, j) \in Nat
        /\ i < j => Before(q, r, i) < Before(q, r, j)
    BY BeforeType
  <2>2. PICK k0 \in 1 .. 4, i0 \in Nat, l0 \in 1 .. 4, j0 \in Nat :
          /\ CallWas(e, k, i, k0, i0) /\ CallWas(e, l, j, l0, j0)
          /\ Ahead(k0, i0, l0, j0)
    <3>1. \/ k # from /\ CallWas(e, k, i, k, i)
          \/ k = from /\ CallWas(e, from, i, from, Before(q, r, i))
             /\ (q = r => 1 < Before(q, r, i))
          \/ /\ k = from - 1 /\ q = r /\ CallWas(e, k, i, from, 1)
             /\ \A n \in Nat : i < n => ~CallPlace(e, k, n)'
      BY DEF MovesUp
    <3>2. \/ l # from /\ CallWas(e, l, j, l, j)
          \/ l = from /\ CallWas(e, from, j, from, Before(q, r, j))
             /\ (q = r => 1 < Before(q, r, j))
          \/ /\ l = from - 1 /\ q = r /\ CallWas(e, l, j, from, 1)
             /\ \A n \in Nat : CallPlace(e, l, n) => n < j
      BY <1>2 DEF MovesUp
    <3>. QED  BY <1>2, <2>1, <3>1, <3>2 DEF Ahead, CallWas
  <2>. QED  BY <2>2, CallOrderKept
<1>. QED  BY <1>1, <1>2

LEMMA CalledInOrderThread ==
    ASSUME TypeOK, AtHome, Paired, CalledInOrder, NEW r \in Ranks, MpiThread(r)
    PROVE  CalledInOrder'
<1>. UNCHANGED receives
  BY ThreadKeeps
<1>. SUFFICES ASSUME NEW e \in Endpoints,
                     NEW k \in 1 .. 4, NEW i \in Nat, CallPlace(e, k, i)'
              PROVE  /\ CallAt(e, k, i)' <= receives'
                     /\ \A l \in 1 .. 4, j \in Nat :
                          CallPlace(e, l, j)' /\ Ahead(k, i, l, j)
                            => CallAt(e, k, i)' < CallAt(e, l, j)'
  BY DEF CalledInOrder
<1>1. CASE RunsSend(r) \/ RunsReceive(r) \/ RunsClose(r)
  <2>1. MovesUp(e, 4, e[1], r)
    BY <1>1, JobMovesCalls DEF MovesUp
  <2>. QED  BY <2>1, MovedUpInOrder
<1>2. CASE \E f \in Endpoints, src \in Ranks : ProbeFinds(r, f, src)
  <2>1. PICK f \in Endpoints, src \in Ranks : ProbeFinds(r, f, src)
    BY <1>2
  <2>2. MovesUp(e, 3, e, f)
    BY <2>1, ProbeMovesCalls DEF MovesUp
  <2>. QED  BY <2>2, MovedUpInOrder
<1>3. CASE TrackReceiveCompletes(r)
  <2>1. MovesUp(e, 2, e[1], r)
    BY <1>3, ReceiveMovesCalls DEF MovesUp
  <2>. QED  BY <2>1, MovedUpInOrder
<1>4. CASE TrackReceiveBreaks(r)
  BY <1>4, MarksMoveNoCalls, CallKept, CallOrderKept
<1>5. CASE TrackSendCompletes(r) \/ ProbeEnds(r)
  <2>1. Elsewhere
    BY <1>5, ElsewhereSteps
  <2>2. \A l \in 1 .. 4, j \in Nat :
            /\ CallPlace(e, l, j)' <=> CallPlace(e, l, j)
            /\ CallAt(e, l, j)' = CallAt(e, l, j)
    BY <2>1 DEF Elsewhere, CallPlace, CallAt
  <2>. QED  BY <2>2 DEF CalledInOrder
<1>. QED  BY <1>1, <1>2, <1>3, <1>4, <1>5 DEF MpiThread

-----------------------------------------------------------------------------
(* The theorems about every state *)

IInv ==
    /\ TypeOK /\ AtHome /\ Paired
    /\ TrackersRun
    /\ SentInOrder /\ CalledInOrder

LEMMA InitIInv ==
    ASSUME Init
    PROVE  IInv
<1>1. TypeOK
  BY EndpointTypes, BoundsAssumption DEF Init, TypeOK
<1>2. AtHome /\ Paired
  BY DEF Init, AtHome, SocketsAtHome, JobsAtHome, WireAtHome, ReceivesAtHome, Paired
<1>3. TrackersRun
  BY DEF Init, TrackersRun, Unprobed
<1>4. \A r \in Ranks, e \in Endpoints, k \in 1 .. 3, i \in Nat : ~MessagePlace(r, e, k, i)
  BY EndpointTypes DEF Init, MessagePlace
<1>5. \A e \in Endpoints, k \in 1 .. 4, i \in Nat : ~CallPlace(e, k, i)
  BY EndpointTypes DEF Init, CallPlace
<1>. QED  BY <1>1, <1>2, <1>3, <1>4, <1>5 DEF IInv, SentInOrder, CalledInOrder

LEMMA StepIInv ==
    ASSUME IInv, [Next]_vars
    PROVE  IInv'
<1>. TypeOK /\ AtHome /\ Paired /\ TrackersRun /\ SentInOrder /\ CalledInOrder
  BY DEF IInv
<1>1. Paired' /\ TrackersRun'
  BY PairedOn, TrackersRunOn
<1>2. ASSUME NEW s \in Sockets, ProgramCalls(s) \/ BindBlocks(s)
      PROVE  TypeOK' /\ AtHome' /\ SentInOrder' /\ CalledInOrder'
  <2>1. TypeOK' /\ AtHome'
    BY <1>2, CallTypes, AtHomeCalls
  <2>. QED  BY <1>2, <2>1, SentInOrderCalls, CalledInOrderCalls
<1>3. ASSUME NEW r \in Ranks, MpiThread(r)
      PROVE  TypeOK' /\ AtHome' /\ SentInOrder' /\ CalledInOrder'
  BY <1>3, ThreadTypes, AtHomeThread, SentInOrderThread, CalledInOrderThread
<1>4. ASSUME UNCHANGED vars
      PROVE  TypeOK' /\ AtHome' /\ SentInOrder' /\ CalledInOrder'
  <2>1. Elsewhere
    BY <1>4, ElsewhereSteps
  <2>2. TypeOK'
    BY <1>4 DEF vars, bindVars, callVars, mpiVars, TypeOK
  <2>3. AtHome'
    BY <2>1 DEF Elsewhere, AtHome, SocketsAtHome, JobsAtHome, WireAtHome, ReceivesAtHome
  <2>4. SentInOrder'
    <3>1. \A r \in Ranks, e \in Endpoints, k \in 1 .. 3, i \in Nat :
            /\ MessagePlace(r, e, k, i)' <=> MessagePlace(r, e, k, i)
            /\ MessageAt(r, e, k, i)' = MessageAt(r, e, k, i)
      BY <2>1 DEF Elsewhere, MessagePlace, MessageAt
    <3>2. sends' = sends
      BY <2>1 DEF Elsewhere
    <3>. QED  BY <3>1, <3>2 DEF SentInOrder
  <2>5. CalledInOrder'
    BY <2>1 DEF Elsewhere, CalledInOrder, CallPlace, CallAt
  <2>. QED  BY <2>2, <2>3, <2>4, <2>5
<1>5. TypeOK' /\ AtHome' /\ SentInOrder' /\ CalledInOrder'
  BY <1>2, <1>3, <1>4 DEF Next
<1>. QED  BY <1>1, <1>5 DEF IInv

\* Every reachable state satisfies the inductive invariant.
THEOREM Invariance == Spec => []IInv
<1>. QED  BY InitIInv, StepIInv, PTL DEF Spec

\* Every variable of the MPI sockets keeps its type.
THEOREM TypeCorrect == Spec => []TypeOK
<1>1. IInv => TypeOK
  BY DEF IInv
<1>. QED  BY <1>1, Invariance, PTL

\* No tracker resets its flag while something is left that it tracks: a later job, which
\* starts a tracker only if its flag is not set, never leaves a send, a receive or a
\* probe without one.
THEOREM TrackersNeverMissing == Spec => []TrackersRun
<1>1. IInv => TrackersRun
  BY DEF IInv
<1>. QED  BY <1>1, Invariance, PTL

\* However jobs, probes and receptions interleave, the calls of asyncReceiveFrom for an
\* endpoint get their datagrams in the order in which they were made.
THEOREM CallsServedInOrder == Spec => []FirstCalledFirstServed
<1>1. ASSUME IInv
      PROVE  FirstCalledFirstServed
  <2>. SUFFICES ASSUME NEW e \in Endpoints, NEW i \in DOMAIN fulfilled[e],
                       NEW j \in DOMAIN fulfilled[e], i < j
                PROVE  fulfilled[e][i].promise < fulfilled[e][j].promise
    BY DEF FirstCalledFirstServed
  <2>1. i \in Nat /\ j \in Nat /\ CallPlace(e, 1, i) /\ CallPlace(e, 1, j)
    BY <1>1, CallTypesAt DEF IInv, CallPlace
  <2>2. CallAt(e, 1, i) < CallAt(e, 1, j)
    BY <1>1, <2>1 DEF IInv, CalledInOrder, Ahead
  <2>. QED  BY <2>2 DEF CallAt
<1>. QED  BY <1>1, Invariance, PTL

-----------------------------------------------------------------------------
(* Every step is one of Transport *)

Underway == BeingReceived \cup BetweenProcesses \cup ToBeSent
Received == [e \in Endpoints |-> [i \in DOMAIN fulfilled[e] |-> fulfilled[e][i].content.of]]

\* What is on its way is what has a place, and a message tells where it may have one.
LEMMA UnderwayPlaces ==
    ASSUME AtHome, TypeOK
    PROVE  \A m : m \in Underway <=>
                \E r \in Ranks, e \in Endpoints, k \in 1 .. 3, i \in Nat :
                    MessagePlace(r, e, k, i) /\ m = MessageAt(r, e, k, i)
<1>1. ASSUME NEW m, m \in BeingReceived
      PROVE  \E r \in Ranks, e \in Endpoints, i \in Nat :
                MessagePlace(r, e, 1, i) /\ m = MessageAt(r, e, 1, i)
  <2>0. PICK r \in Ranks : m \in {p.body.of : p \in ToSet(pendingReceives[r])}
    BY <1>1 DEF BeingReceived
  <2>1. PICK i \in DOMAIN pendingReceives[r] : m = pendingReceives[r][i].body.of
    BY <2>0 DEF ToSet
  <2>2. /\ i \in Nat /\ pendingReceives[r][i].source \in Ranks
        /\ pendingReceives[r][i].local \in Endpoints
    <3>1. Len(pendingReceives[r]) \in Nat /\ DOMAIN pendingReceives[r] = 1 .. Len(pendingReceives[r])
      BY LenProperties DEF TypeOK
    <3>2. pendingReceives[r][i] \in PendingReceives
      BY ElementOfSeq, <3>1 DEF TypeOK
    <3>. QED  BY <3>1, <3>2 DEF PendingReceives
  <2>3. pendingReceives[r][i].local[1] = r
    BY DEF AtHome, ReceivesAtHome, Fits
  <2>4. /\ MessagePlace(pendingReceives[r][i].source, pendingReceives[r][i].local, 1, i)
        /\ m = MessageAt(pendingReceives[r][i].source, pendingReceives[r][i].local, 1, i)
    BY <2>1, <2>3 DEF MessagePlace, MessageAt
  <2>. QED  BY <2>2, <2>4
<1>2. ASSUME NEW m, m \in BetweenProcesses
      PROVE  \E r \in Ranks, e \in Endpoints, i \in Nat :
                MessagePlace(r, e, 2, i) /\ m = MessageAt(r, e, 2, i)
  <2>0. PICK r \in Ranks, e \in Endpoints :
            m \in {part.of : part \in {x \in ToSet(wire[r][e]) : x.kind = "header"}}
    BY <1>2 DEF BetweenProcesses
  <2>1. PICK i \in DOMAIN wire[r][e] : IsHeader(wire[r][e][i]) /\ m = wire[r][e][i].of
    BY <2>0 DEF ToSet, IsHeader
  <2>2. i \in Nat
    BY LenProperties DEF TypeOK
  <2>. QED  BY <2>1, <2>2 DEF MessagePlace, MessageAt
<1>3. ASSUME NEW m, m \in ToBeSent
      PROVE  \E r \in Ranks, e \in Endpoints, i \in Nat :
                MessagePlace(r, e, 3, i) /\ m = MessageAt(r, e, 3, i)
  <2>0. PICK r \in Ranks : m \in {job.message : job \in {x \in ToSet(jobs[r]) : x.run = "send"}}
    BY <1>3 DEF ToBeSent
  <2>1. PICK i \in DOMAIN jobs[r] : IsSend(jobs[r][i]) /\ m = jobs[r][i].message
    BY <2>0 DEF ToSet, IsSend
  <2>2. i \in Nat /\ jobs[r][i] \in Jobs
    BY LenProperties, ElementOfSeq DEF TypeOK
  <2>3. m.to \in Endpoints
    BY <2>1, <2>2, JobTypes, MessageTypes DEF IsSend
  <2>. QED  BY <2>1, <2>2, <2>3 DEF MessagePlace, MessageAt
<1>4. ASSUME NEW r \in Ranks, NEW e \in Endpoints, NEW k \in 1 .. 3, NEW i \in Nat,
             MessagePlace(r, e, k, i)
      PROVE  MessageAt(r, e, k, i) \in Underway
  <2>0. e[1] \in Ranks
    BY EndpointTypes
  <2>1. CASE k = 1
    BY <1>4, <2>0, <2>1 DEF MessagePlace, MessageAt, Underway, BeingReceived, ToSet
  <2>2. CASE k = 2
    <3>1. wire[r][e][i].kind = "header" /\ i \in DOMAIN wire[r][e]
      BY <1>4, <2>2 DEF MessagePlace, IsHeader
    <3>2. wire[r][e][i].of \in BetweenProcesses
      <4>1. wire[r][e][i] \in {x \in ToSet(wire[r][e]) : x.kind = "header"}
        BY <3>1 DEF ToSet
      <4>2. <<r, e>> \in Ranks \X Endpoints /\ <<r, e>>[1] = r /\ <<r, e>>[2] = e
        OBVIOUS
      <4>. QED  BY <4>1, <4>2 DEF BetweenProcesses
    <3>. QED  BY <2>2, <3>2 DEF MessageAt, Underway
  <2>3. CASE k = 3
    <3>1. jobs[r][i].message \in ToBeSent
      BY <1>4, <2>3 DEF MessagePlace, IsSend, ToBeSent, ToSet
    <3>. QED  BY <2>3, <3>1 DEF MessageAt, Underway
  <2>. QED  BY <2>1, <2>2, <2>3
<1>5. ASSUME NEW m, m \in Underway
      PROVE  \E r \in Ranks, e \in Endpoints, k \in 1 .. 3, i \in Nat :
                MessagePlace(r, e, k, i) /\ m = MessageAt(r, e, k, i)
  <2>1. 1 \in 1 .. 3 /\ 2 \in 1 .. 3 /\ 3 \in 1 .. 3
    OBVIOUS
  <2>. QED  BY <1>1, <1>2, <1>3, <1>5, <2>1 DEF Underway
<1>. QED  BY <1>4, <1>5

LEMMA PlaceEnds ==
    ASSUME AtHome, TypeOK, NEW r \in Ranks, NEW e \in Endpoints, NEW k \in 1 .. 3, NEW i \in Nat,
           MessagePlace(r, e, k, i)
    PROVE  MessageAt(r, e, k, i).from[1] = r /\ MessageAt(r, e, k, i).to = e
<1>. e[1] \in Ranks
  BY EndpointTypes
<1>1. CASE k = 1
  BY <1>1 DEF MessagePlace, MessageAt, AtHome, ReceivesAtHome, Fits
<1>2. CASE k = 2
  BY <1>2 DEF MessagePlace, MessageAt, AtHome, WireAtHome
<1>3. CASE k = 3
  BY <1>3 DEF MessagePlace, MessageAt, AtHome, JobsAtHome, IsSend
<1>. QED  BY <1>1, <1>2, <1>3

\* A message with a place has one after the step.
MessageStays(r, e, k, i) ==
    \E l \in 1 .. 3, j \in Nat :
        MessagePlace(r, e, l, j)' /\ MessageAt(r, e, l, j)' = MessageAt(r, e, k, i)

\* What is behind the head of a queue stays.
LEMMA TailStays ==
    ASSUME NEW I, NEW S, NEW f \in [I -> Seq(S)], NEW r \in I, f[r] # <<>>,
           NEW g, g = [f EXCEPT ![r] = Tail(@)]
    PROVE  \A i \in DOMAIN f[r] : i # 1 =>
                i - 1 \in Nat /\ i - 1 \in DOMAIN g[r] /\ g[r][i - 1] = f[r][i]
<1>1. Len(f[r]) \in Nat /\ DOMAIN f[r] = 1 .. Len(f[r])
  BY LenProperties
<1>2. /\ Tail(f[r]) \in Seq(S)
      /\ Len(Tail(f[r])) = Len(f[r]) - 1
      /\ \A i \in 1 .. Len(Tail(f[r])) : Tail(f[r])[i] = f[r][i + 1]
  BY <1>1, HeadTailProperties
<1>3. DOMAIN Tail(f[r]) = 1 .. Len(f[r]) - 1
  BY <1>2, LenProperties
<1>4. g[r] = Tail(f[r])
  OBVIOUS
<1>5. \A i \in DOMAIN f[r] : i # 1 => i - 1 \in 1 .. Len(f[r]) - 1 /\ (i - 1) + 1 = i
  BY <1>1
<1>. QED  BY <1>2, <1>3, <1>4, <1>5

LEMMA MessagesStay ==
    ASSUME TypeOK, AtHome, Paired, NEW r \in Ranks, MpiThread(r),
           NEW q \in Ranks, NEW e \in Endpoints, NEW k \in 1 .. 3, NEW i \in Nat,
           MessagePlace(q, e, k, i)
    PROVE  \/ MessageStays(q, e, k, i)
           \/ /\ TrackReceiveCompletes(r) /\ k = 1 /\ i = 1 /\ e[1] = r
              /\ MessageAt(q, e, k, i) = pendingReceives[r][1].body.of
<1>. e[1] \in Ranks /\ 1 \in 1 .. 3 /\ 2 \in 1 .. 3 /\ 3 \in 1 .. 3
  BY EndpointTypes
<1>1. ASSUME MessagePlace(q, e, k, i)', MessageAt(q, e, k, i)' = MessageAt(q, e, k, i)
      PROVE  MessageStays(q, e, k, i)
  BY <1>1 DEF MessageStays
<1>2. CASE RunsSend(r) \/ RunsReceive(r) \/ RunsClose(r)
  <2>. jobs[r] # <<>> /\ EndsJob(r) /\ UNCHANGED pendingReceives /\ jobs \in [Ranks -> Seq(Jobs)]
    BY <1>2 DEF RunsSend, RunsReceive, RunsClose, Runs, TypeOK
  <2>1. CASE k = 1
    BY <1>1, <2>1 DEF MessagePlace, MessageAt
  <2>2. CASE k = 2
    <3>1. i \in DOMAIN wire'[q][e] /\ wire'[q][e][i] = wire[q][e][i]
      <4>1. CASE UNCHANGED wire
        BY <2>2, <4>1 DEF MessagePlace
      <4>2. CASE RunsSend(r)
        <5>1. PICK m \in Messages : wire' = [wire EXCEPT ![r][m.to] = @ \o Isends(m)]
          BY <4>2, JobRun, JobTypes DEF RunsSend
        <5>2. Grown(wire[r][m.to], wire'[r][m.to], m)
          BY <5>1, WireGrows
        <5>3. q # r \/ e # m.to => wire'[q][e] = wire[q][e]
          BY <5>1, WireGrows
        <5>4. i \in DOMAIN wire[q][e]
          BY <2>2 DEF MessagePlace
        <5>5. CASE q = r /\ e = m.to
          BY <5>2, <5>4, <5>5, GrownKeeps
        <5>. QED  BY <5>3, <5>4, <5>5
      <4>. QED  BY <1>2, <4>1, <4>2 DEF RunsReceive, RunsClose
    <3>. QED  BY <1>1, <2>2, <3>1 DEF MessagePlace, MessageAt
  <2>3. CASE k = 3 /\ q # r
    <3>1. jobs'[q] = jobs[q]
      BY <2>3 DEF EndsJob
    <3>. QED  BY <1>1, <2>3, <3>1 DEF MessagePlace, MessageAt
  <2>4. CASE k = 3 /\ q = r /\ i # 1
    <3>1. i - 1 \in Nat /\ i - 1 \in DOMAIN jobs'[r] /\ jobs'[r][i - 1] = jobs[r][i]
      BY <2>4, TailStays DEF EndsJob, MessagePlace
    <3>2. MessagePlace(q, e, 3, i - 1)' /\ MessageAt(q, e, 3, i - 1)' = MessageAt(q, e, k, i)
      BY <2>4, <3>1 DEF MessagePlace, MessageAt
    <3>. QED  BY <3>1, <3>2 DEF MessageStays
  <2>5. CASE k = 3 /\ q = r /\ i = 1
    <3>1. IsSend(jobs[r][1]) /\ jobs[r][1].message.to = e
      BY <2>5 DEF MessagePlace
    <3>2. RunsSend(r)
      BY <1>2, <3>1, JobRun DEF RunsReceive, RunsClose, IsSend
    <3>3. PICK m \in Messages :
            m = jobs[r][1].message /\ wire' = [wire EXCEPT ![r][m.to] = @ \o Isends(m)]
      BY <3>2, JobRun, JobTypes DEF RunsSend
    <3>4. Grown(wire[r][m.to], wire'[r][m.to], m)
      <4>1. wire' = [wire EXCEPT ![r][m.to] = @ \o Isends(m)]
        BY <3>3
      <4>. QED  BY <4>1, WireGrows
    <3>5. PICK j \in Nat : j \in DOMAIN wire'[r][m.to] /\ wire'[r][m.to][j] = HeaderOf(m)
      <4>1. Len(wire[r][m.to]) + 1 \in Nat /\ Len(wire[r][m.to]) + 1 \in DOMAIN wire'[r][m.to]
        BY <3>4 DEF Grown
      <4>. QED  BY <3>4, <4>1 DEF Grown
    <3>6. m.to = e /\ wire'[q][e][j].of = m /\ IsHeader(wire'[q][e][j])
      <4>1. m.to = e
        BY <3>1, <3>3
      <4>2. wire'[q][e][j] = HeaderOf(m)
        BY <2>5, <3>5, <4>1
      <4>. QED  BY <4>1, <4>2, Parts DEF IsHeader
    <3>7. MessagePlace(q, e, 2, j)' /\ MessageAt(q, e, 2, j)' = MessageAt(q, e, k, i)
      BY <2>5, <3>3, <3>5, <3>6 DEF MessagePlace, MessageAt
    <3>. QED  BY <3>7 DEF MessageStays
  <2>. QED  BY <2>1, <2>2, <2>3, <2>4, <2>5
<1>3. CASE \E f \in Endpoints, src \in Ranks : ProbeFinds(r, f, src)
  <2>1. PICK f \in Endpoints, src \in Ranks : ProbeFinds(r, f, src)
    BY <1>3
  <2>2. /\ Found(f, src) \in PendingReceives
        /\ pendingReceives' = [pendingReceives EXCEPT ![r] = Append(@, Found(f, src))]
    BY <2>1, FoundType
  <2>. DEFINE n == Len(pendingReceives[r])
  <2>3. /\ n \in Nat /\ DOMAIN pendingReceives[r] = 1 .. n
        /\ DOMAIN pendingReceives'[r] = 1 .. n + 1
        /\ pendingReceives'[r][n + 1] = Found(f, src)
        /\ \A j \in 1 .. n : pendingReceives'[r][j] = pendingReceives[r][j]
    BY <2>2, ReceiveComes
  <2>4. CASE k = 3
    BY <1>1, <2>1, <2>4 DEF ProbeFinds, MessagePlace, MessageAt
  <2>5. CASE k = 1
    <3>1. \A p \in Ranks \ {r} : pendingReceives'[p] = pendingReceives[p]
      BY <2>2
    <3>2. i \in DOMAIN pendingReceives'[e[1]] /\ pendingReceives'[e[1]][i] = pendingReceives[e[1]][i]
      BY <2>3, <2>5, <3>1 DEF MessagePlace
    <3>. QED  BY <1>1, <2>5, <3>2 DEF MessagePlace, MessageAt
  <2>6. CASE k = 2 /\ ~(q = src /\ e = f)
    <3>1. wire'[q][e] = wire[q][e]
      BY <2>1, <2>6, WireShrinks DEF ProbeFinds
    <3>. QED  BY <1>1, <2>6, <3>1 DEF MessagePlace, MessageAt
  <2>7. CASE k = 2 /\ q = src /\ e = f
    <3>1. Shrunk(wire[q][e], wire'[q][e])
      BY <2>1, <2>7, WireShrinks DEF ProbeFinds
    <3>2. wire[q][e][2] = BodyOf(wire[q][e][1].of)
      BY <2>1, <2>7, FirstPair DEF ProbeFinds
    <3>3. i \in DOMAIN wire[q][e] /\ IsHeader(wire[q][e][i])
      BY <2>7 DEF MessagePlace
    <3>4. i # 2
      BY <3>2, <3>3, Parts DEF IsHeader
    <3>5. CASE i = 1
      <4>1. /\ Found(f, src).source = src /\ Found(f, src).local = f
            /\ Found(f, src).body = wire[src][f][2]
        BY DEF Found
      <4>2. Found(f, src).body.of = wire[src][f][1].of
        BY <2>7, <3>2, <4>1, Parts
      <4>3. PICK j \in Nat : j = n + 1
        BY <2>3
      <4>4. /\ j \in DOMAIN pendingReceives'[e[1]]
            /\ pendingReceives'[e[1]][j].source = q
            /\ pendingReceives'[e[1]][j].local = e
            /\ pendingReceives'[e[1]][j].body.of = wire[q][e][i].of
        <5>1. e[1] = r
          BY <2>1, <2>7 DEF ProbeFinds
        <5>2. j \in DOMAIN pendingReceives'[r] /\ pendingReceives'[r][j] = Found(f, src)
          BY <2>3, <4>3
        <5>. QED  BY <2>7, <3>5, <4>1, <4>2, <5>1, <5>2
      <4>5. MessagePlace(q, e, 1, j)' /\ MessageAt(q, e, 1, j)' = MessageAt(q, e, k, i)
        BY <2>7, <4>4 DEF MessagePlace, MessageAt
      <4>. QED  BY <4>5 DEF MessageStays
    <3>6. CASE i # 1
      <4>1. i > 2 /\ i - 2 \in Nat /\ (i - 2) + 2 = i
        <5>1. i # 0
          <6>1. Len(wire[q][e]) \in Nat /\ DOMAIN wire[q][e] = 1 .. Len(wire[q][e])
            BY LenProperties DEF TypeOK
          <6>. QED  BY <3>3, <6>1
        <5>. QED  BY <3>4, <3>6, <5>1
      <4>2. i - 2 \in DOMAIN wire'[q][e] /\ wire'[q][e][i - 2] = wire[q][e][i]
        BY <3>1, <3>3, <4>1 DEF Shrunk
      <4>3. MessagePlace(q, e, 2, i - 2)' /\ MessageAt(q, e, 2, i - 2)' = MessageAt(q, e, k, i)
        BY <2>7, <3>3, <4>2 DEF MessagePlace, MessageAt
      <4>. QED  BY <4>1, <4>3 DEF MessageStays
    <3>. QED  BY <3>5, <3>6
  <2>. QED  BY <2>4, <2>5, <2>6, <2>7
<1>4. CASE TrackReceiveCompletes(r)
  <2>1. /\ pendingReceives \in [Ranks -> Seq(PendingReceives)] /\ pendingReceives[r] # <<>>
        /\ pendingReceives' = [pendingReceives EXCEPT ![r] = Tail(@)]
        /\ UNCHANGED <<wire, jobs>>
    BY <1>4 DEF TrackReceiveCompletes, TypeOK
  <2>2. CASE k \in {2, 3}
    BY <1>1, <2>1, <2>2 DEF MessagePlace, MessageAt
  <2>3. CASE k = 1 /\ e[1] # r
    <3>1. pendingReceives'[e[1]] = pendingReceives[e[1]]
      BY <2>1, <2>3
    <3>. QED  BY <1>1, <2>3, <3>1 DEF MessagePlace, MessageAt
  <2>4. CASE k = 1 /\ e[1] = r /\ i # 1
    <3>1. /\ i - 1 \in Nat /\ i - 1 \in DOMAIN pendingReceives'[r]
          /\ pendingReceives'[r][i - 1] = pendingReceives[r][i]
      BY <2>1, <2>4, TailStays DEF MessagePlace
    <3>2. MessagePlace(q, e, 1, i - 1)' /\ MessageAt(q, e, 1, i - 1)' = MessageAt(q, e, k, i)
      BY <2>4, <3>1 DEF MessagePlace, MessageAt
    <3>. QED  BY <3>1, <3>2 DEF MessageStays
  <2>5. CASE k = 1 /\ e[1] = r /\ i = 1
    BY <1>4, <2>5 DEF MessageAt
  <2>. QED  BY <2>2, <2>3, <2>4, <2>5
<1>5. CASE TrackReceiveBreaks(r)
  BY <1>1, <1>5, MarksMoveNoMessages DEF MessageWas
<1>6. CASE TrackSendCompletes(r) \/ ProbeEnds(r)
  <2>1. Elsewhere
    BY <1>6, ElsewhereSteps
  <2>. QED  BY <1>1, <2>1 DEF Elsewhere, MessagePlace, MessageAt
<1>. QED  BY <1>2, <1>3, <1>4, <1>5, <1>6 DEF MpiThread

\* The same of the state after a step.
LEMMA UnderwayPlacesAfter ==
    ASSUME AtHome', TypeOK'
    PROVE  \A m : m \in Underway' <=>
                \E r \in Ranks, e \in Endpoints, k \in 1 .. 3, i \in Nat :
                    MessagePlace(r, e, k, i)' /\ m = MessageAt(r, e, k, i)'
<1>1. (AtHome /\ TypeOK => \A m : m \in Underway <=>
            \E r \in Ranks, e \in Endpoints, k \in 1 .. 3, i \in Nat :
                MessagePlace(r, e, k, i) /\ m = MessageAt(r, e, k, i))'
  BY UnderwayPlaces, PTL
<1>. QED  BY <1>1

LEMMA MessagesWere ==
    ASSUME TypeOK, AtHome, Paired, NEW r \in Ranks, MpiThread(r),
           NEW q \in Ranks, NEW e \in Endpoints, NEW k \in 1 .. 3, NEW i \in Nat,
           MessagePlace(q, e, k, i)'
    PROVE  \E l \in 1 .. 3, j \in Nat : MessageWas(q, e, k, i, l, j)
<1>0. 1 \in 1 .. 3 /\ 2 \in 1 .. 3 /\ 3 \in 1 .. 3 /\ 1 \in Nat /\ i + 2 \in Nat
  OBVIOUS
<1>1. CASE RunsSend(r) \/ RunsReceive(r) \/ RunsClose(r)
  BY <1>0, <1>1, JobMovesMessages, BeforeType
<1>2. CASE \E f \in Endpoints, src \in Ranks : ProbeFinds(r, f, src)
  <2>1. PICK f \in Endpoints, src \in Ranks : ProbeFinds(r, f, src)
    BY <1>2
  <2>2. \/ MessageWas(q, e, k, i, k, i)
        \/ MessageWas(q, e, k, i, 2, 1)
        \/ MessageWas(q, e, k, i, 2, i + 2)
    BY <2>1, ProbeMovesMessages
  <2>. QED  BY <1>0, <2>2
<1>3. CASE TrackReceiveCompletes(r)
  BY <1>0, <1>3, ReceiveMovesMessages, BeforeType
<1>4. CASE TrackReceiveBreaks(r)
  BY <1>4, MarksMoveNoMessages
<1>5. CASE TrackSendCompletes(r) \/ ProbeEnds(r)
  <2>1. Elsewhere
    BY <1>5, ElsewhereSteps
  <2>. QED  BY <2>1 DEF Elsewhere, MessagePlace, MessageAt, MessageWas
<1>. QED  BY <1>1, <1>2, <1>3, <1>4, <1>5 DEF MpiThread

\* Where nothing is handed over, nothing is lost or made up.
LEMMA UnderwayMoves ==
    ASSUME IInv, IInv', NEW r \in Ranks, MpiThread(r), ~TrackReceiveCompletes(r)
    PROVE  Underway' = Underway
<1>. TypeOK /\ TypeOK' /\ AtHome /\ AtHome' /\ Paired
  BY DEF IInv
<1>1. ASSUME NEW m, m \in Underway
      PROVE  m \in Underway'
  <2>1. PICK q \in Ranks, e \in Endpoints, k \in 1 .. 3, i \in Nat :
            MessagePlace(q, e, k, i) /\ m = MessageAt(q, e, k, i)
    BY <1>1, UnderwayPlaces
  <2>2. MessageStays(q, e, k, i)
    BY <2>1, MessagesStay
  <2>3. PICK l \in 1 .. 3, j \in Nat :
            MessagePlace(q, e, l, j)' /\ m = MessageAt(q, e, l, j)'
    BY <2>1, <2>2 DEF MessageStays
  <2>. QED  BY <2>3, UnderwayPlacesAfter
<1>2. ASSUME NEW m, m \in Underway'
      PROVE  m \in Underway
  <2>1. PICK q \in Ranks, e \in Endpoints, k \in 1 .. 3, i \in Nat :
            MessagePlace(q, e, k, i)' /\ m = MessageAt(q, e, k, i)'
    BY <1>2, UnderwayPlacesAfter
  <2>2. PICK l \in 1 .. 3, j \in Nat : MessageWas(q, e, k, i, l, j)
    BY <2>1, MessagesWere
  <2>. QED  BY <2>1, <2>2, UnderwayPlaces DEF MessageWas
<1>. QED  BY <1>1, <1>2

\* The message handed over is the oldest of its sender for its receiver, and the only
\* one that is on its way no more.
LEMMA OldestLeaves ==
    ASSUME IInv, IInv', NEW r \in Ranks, TrackReceiveCompletes(r),
           NEW m, m = pendingReceives[r][1].body.of
    PROVE  /\ m \in Underway /\ Underway' = Underway \ {m}
           /\ \A other \in Underway :
                other.from = m.from /\ other.to = m.to => m.number <= other.number
<1>. TypeOK /\ TypeOK' /\ AtHome /\ AtHome' /\ Paired /\ SentInOrder
  BY DEF IInv
<1>. DEFINE p == pendingReceives[r][1]
<1>1. p \in PendingReceives /\ Fits(p, r) /\ 1 \in DOMAIN pendingReceives[r]
  BY ServedNext DEF AtHome, ReceivesAtHome
<1>2. PICK q \in Ranks, e \in Endpoints : q = p.source /\ e = p.local
  BY <1>1 DEF PendingReceives
<1>3. /\ MessagePlace(q, e, 1, 1) /\ MessageAt(q, e, 1, 1) = m
      /\ e[1] = r /\ m.from[1] = q /\ m.to = e
  BY <1>1, <1>2 DEF Fits, MessagePlace, MessageAt
<1>4. ASSUME NEW k \in 1 .. 3, NEW i \in Nat, MessagePlace(q, e, k, i), ~(k = 1 /\ i = 1)
      PROVE  m.number < MessageAt(q, e, k, i).number
  <2>1. k = 1 => i > 1
    <3>1. k = 1 => i \in DOMAIN pendingReceives[r]
      BY <1>3, <1>4 DEF MessagePlace
    <3>2. DOMAIN pendingReceives[r] = 1 .. Len(pendingReceives[r])
          /\ Len(pendingReceives[r]) \in Nat
      BY LenProperties DEF TypeOK
    <3>. QED  BY <1>4, <3>1, <3>2
  <2>2. Ahead(1, 1, k, i) /\ 1 \in 1 .. 3 /\ 1 \in Nat
    BY <2>1 DEF Ahead
  <2>. QED  BY <1>3, <1>4, <2>2 DEF SentInOrder
<1>5. m \in Messages
  BY <1>3, PlaceTypes
<1>6. m \in Underway
  BY <1>3, UnderwayPlaces
<1>7. ASSUME NEW other \in Underway, other.from = m.from, other.to = m.to
      PROVE  m.number <= other.number
  <2>1. PICK s \in Ranks, f \in Endpoints, k \in 1 .. 3, i \in Nat :
            MessagePlace(s, f, k, i) /\ other = MessageAt(s, f, k, i)
    BY UnderwayPlaces
  <2>2. s = q /\ f = e
    BY <1>3, <1>7, <2>1, PlaceEnds
  <2>3. other \in Messages
    BY <2>1, PlaceTypes
  <2>4. CASE k = 1 /\ i = 1
    BY <1>3, <1>5, <2>1, <2>2, <2>4, MessageTypes
  <2>5. CASE ~(k = 1 /\ i = 1)
    <3>1. m.number < other.number
      BY <1>4, <2>1, <2>2, <2>5
    <3>. QED  BY <1>5, <2>3, <3>1, MessageTypes
  <2>. QED  BY <2>4, <2>5
<1>8. ASSUME NEW other \in Underway, other # m
      PROVE  other \in Underway'
  <2>1. PICK s \in Ranks, f \in Endpoints, k \in 1 .. 3, i \in Nat :
            MessagePlace(s, f, k, i) /\ other = MessageAt(s, f, k, i)
    BY UnderwayPlaces
  <2>2. MessageStays(s, f, k, i)
    BY <1>8, <2>1, MessagesStay DEF MpiThread
  <2>3. PICK l \in 1 .. 3, j \in Nat :
            MessagePlace(s, f, l, j)' /\ other = MessageAt(s, f, l, j)'
    BY <2>1, <2>2 DEF MessageStays
  <2>. QED  BY <2>3, UnderwayPlacesAfter
<1>9. ASSUME NEW other \in Underway'
      PROVE  other \in Underway /\ other # m
  <2>1. PICK s \in Ranks, f \in Endpoints, k \in 1 .. 3, i \in Nat :
            MessagePlace(s, f, k, i)' /\ other = MessageAt(s, f, k, i)'
    BY UnderwayPlacesAfter
  <2>2. \/ k \in {2, 3} /\ MessageWas(s, f, k, i, k, i)
        \/ k = 1 /\ MessageWas(s, f, 1, i, 1, Before(f[1], r, i))
    BY <2>1, ReceiveMovesMessages
  <2>3. Before(f[1], r, i) \in Nat /\ (f[1] = r /\ k = 1 => Before(f[1], r, i) # 1)
    <3>1. k = 1 => i \in DOMAIN pendingReceives'[f[1]] /\ f[1] \in Ranks
      BY <2>1, EndpointTypes DEF MessagePlace
    <3>2. \A s2 \in Ranks : DOMAIN pendingReceives'[s2] = 1 .. Len(pendingReceives'[s2])
                           /\ Len(pendingReceives'[s2]) \in Nat
      BY LenProperties DEF TypeOK
    <3>3. k = 1 => i # 0
      BY <3>1, <3>2
    <3>. QED  BY <3>3, BeforeType DEF Before
  <2>4. PICK l \in 1 .. 3, j \in Nat : MessageWas(s, f, k, i, l, j)
                                    /\ (f[1] = r => ~(l = 1 /\ j = 1))
    BY <2>2, <2>3
  <2>5. other \in Underway
    BY <2>1, <2>4, UnderwayPlaces DEF MessageWas
  <2>6. ASSUME other = m
        PROVE  FALSE
    <3>1. s = q /\ f = e
      BY <1>3, <2>1, <2>4, <2>6, PlaceEnds DEF MessageWas
    <3>2. m.number < other.number
      BY <1>3, <1>4, <2>1, <2>4, <3>1 DEF MessageWas
    <3>. QED  BY <1>5, <2>6, <3>2, MessageTypes
  <2>. QED  BY <2>5, <2>6
<1>. QED  BY <1>6, <1>7, <1>8, <1>9

\* What has been handed over changes with a completion only.
LEMMA ReceivedGrows ==
    ASSUME TypeOK, AtHome, NEW r \in Ranks, TrackReceiveCompletes(r),
           NEW m, m = pendingReceives[r][1].body.of
    PROVE  Received' = [Received EXCEPT ![m.to] = Append(@, m)]
<1>. DEFINE p == pendingReceives[r][1]
            f == p.local
            n == Len(fulfilled[f])
<1>1. /\ 1 \in DOMAIN pendingReceives[r] /\ p \in PendingReceives
      /\ n \in Nat /\ DOMAIN fulfilled[f] = 1 .. n
      /\ DOMAIN fulfilled'[f] = 1 .. n + 1
      /\ fulfilled'[f][n + 1].content = p.body
      /\ \A j \in 1 .. n : fulfilled'[f][j] = fulfilled[f][j]
      /\ \A g \in Endpoints \ {f} : fulfilled'[g] = fulfilled[g]
  BY ServedNext
<1>2. f \in Endpoints /\ m.to = f
  BY <1>1 DEF PendingReceives, AtHome, ReceivesAtHome, Fits
<1>3. p.body.of = m
  OBVIOUS
<1>. DEFINE old == [i \in 1 .. n |-> fulfilled[f][i].content.of]
            new == [i \in 1 .. n + 1 |-> fulfilled'[f][i].content.of]
<1>. HIDE DEF n, f, p
<1>4. Received[f] = old /\ Received'[f] = new
  BY <1>1, <1>2 DEF Received
<1>5. \A g \in Endpoints \ {f} : Received'[g] = Received[g]
  BY <1>1 DEF Received
<1>6. new = Append(old, m)
  <2>1. old \in Seq({old[i] : i \in 1 .. n} \cup {m}) /\ Len(old) = n
    <3>1. old \in [1 .. n -> {old[i] : i \in 1 .. n} \cup {m}]
      OBVIOUS
    <3>2. PICK S : old \in [1 .. n -> S] /\ S = {old[i] : i \in 1 .. n} \cup {m}
      BY <3>1
    <3>. HIDE DEF old
    <3>3. old \in Seq(S)
      <4>1. Seq(S) = UNION {[1 .. i -> S] : i \in Nat}
        BY SeqDef
      <4>2. n \in Nat
        BY <1>1
      <4>. QED  BY <3>2, <4>1, <4>2, Zenon
    <3>4. Len(old) \in Nat /\ 1 .. Len(old) = 1 .. n
      BY <3>2, <3>3, LenProperties
    <3>5. Len(old) = n
      BY <1>1, <3>4
    <3>. QED  BY <3>2, <3>3, <3>5
  <2>2. \A i \in 1 .. n + 1 : new[i] = IF i <= n THEN old[i] ELSE m
    <3>1. ASSUME NEW i \in 1 .. n + 1, i <= n
          PROVE  new[i] = old[i]
      <4>1. i \in 1 .. n
        BY <1>1, <3>1
      <4>. QED  BY <1>1, <4>1
    <3>2. ASSUME NEW i \in 1 .. n + 1, ~(i <= n)
          PROVE  new[i] = m
      <4>1. i = n + 1
        BY <1>1, <3>2
      <4>. QED  BY <1>1, <1>3, <4>1
    <3>. QED  BY <3>1, <3>2
  <2>3. DOMAIN new = 1 .. n + 1 /\ new = [i \in 1 .. n + 1 |-> new[i]]
    OBVIOUS
  <2>. HIDE DEF old, new
  <2>4. /\ Append(old, m) \in Seq({old[i] : i \in 1 .. n} \cup {m})
        /\ Len(Append(old, m)) = n + 1
        /\ \A i \in 1 .. n : Append(old, m)[i] = old[i]
        /\ Append(old, m)[n + 1] = m
    BY <2>1, AppendProperties
  <2>5. Append(old, m) = [i \in 1 .. n + 1 |-> Append(old, m)[i]]
    <3>1. Append(old, m) \in [1 .. n + 1 -> {old[i] : i \in 1 .. n} \cup {m}]
      BY <2>4, LenProperties
    <3>. QED  BY <3>1
  <2>6. \A i \in 1 .. n + 1 : Append(old, m)[i] = new[i]
    <3>1. ASSUME NEW i \in 1 .. n + 1
          PROVE  (i <= n /\ i \in 1 .. n) \/ (i = n + 1 /\ ~(i <= n))
      BY <1>1, <3>1
    <3>. QED  BY <2>2, <2>4, <3>1
  <2>. QED  BY <2>3, <2>5, <2>6
<1>7. [Received EXCEPT ![f] = Append(@, m)] =
        [g \in Endpoints |-> IF g = f THEN Append(old, m) ELSE Received[g]]
  <2>1. Received = [g \in Endpoints |-> Received[g]]
    BY DEF Received
  <2>. HIDE DEF old
  <2>. QED  BY <1>2, <1>4, <2>1
<1>8. Received' = [g \in Endpoints |-> Received'[g]]
  BY DEF Received
<1>9. \A g \in Endpoints : Received'[g] = IF g = f THEN Append(old, m) ELSE Received[g]
  <2>. HIDE DEF old, new
  <2>. QED  BY <1>4, <1>5, <1>6
<1>. QED
  <2>. HIDE DEF old, new
  <2>. QED  BY <1>2, <1>7, <1>8, <1>9

LEMMA CallsAreTransport ==
    ASSUME IInv, IInv', NEW s \in Sockets, ProgramCalls(s) \/ BindBlocks(s)
    PROVE  [T!TransportNext]_T!transportVars
<1>. TypeOK /\ RankOf[s] \in Ranks /\ local[s] \in Endpoints
  BY SocketsAssumption DEF IInv, TypeOK
<1>1. UNCHANGED <<wire, pendingReceives, fulfilled>>
  BY CallsPost
<1>2. /\ UNCHANGED Received /\ BeingReceived' = BeingReceived
      /\ BetweenProcesses' = BetweenProcesses
  BY <1>1 DEF Received, BeingReceived, BetweenProcesses
<1>3. ASSUME NEW job \in Jobs, Post(RankOf[s], job)
      PROVE  ToBeSent' = ToBeSent \cup {j.message : j \in {x \in {job} : x.run = "send"}}
  <2>. DEFINE r == RankOf[s]
  <2>1. jobs[r] \in Seq(Jobs) /\ jobs'[r] = Append(jobs[r], job)
        /\ \A q \in Ranks \ {r} : jobs'[q] = jobs[q]
    BY <1>3 DEF Post, TypeOK
  <2>2. ToSet(jobs'[r]) = ToSet(jobs[r]) \cup {job}
    <3>1. /\ Append(jobs[r], job) \in Seq(Jobs)
          /\ Len(Append(jobs[r], job)) = Len(jobs[r]) + 1
          /\ \A i \in 1 .. Len(jobs[r]) : Append(jobs[r], job)[i] = jobs[r][i]
          /\ Append(jobs[r], job)[Len(jobs[r]) + 1] = job
      BY <2>1, AppendProperties
    <3>2. /\ Len(jobs[r]) \in Nat /\ DOMAIN jobs[r] = 1 .. Len(jobs[r])
          /\ DOMAIN Append(jobs[r], job) = 1 .. Len(jobs[r]) + 1
      BY <2>1, <3>1, LenProperties
    <3>3. 1 .. Len(jobs[r]) + 1 = (1 .. Len(jobs[r])) \cup {Len(jobs[r]) + 1}
      BY <3>2
    <3>. QED  BY <2>1, <3>1, <3>2, <3>3 DEF ToSet
  <2>3. \A q \in Ranks : ToSet(jobs'[q]) = ToSet(jobs[q]) \cup (IF q = r THEN {job} ELSE {})
    BY <2>1, <2>2
  <2>4. ASSUME NEW m
        PROVE  m \in ToBeSent' <=>
                    m \in ToBeSent \cup {j.message : j \in {x \in {job} : x.run = "send"}}
    BY <2>3 DEF ToBeSent
  <2>. QED  BY <2>4
<1>4. CASE \E to \in Endpoints : AsyncSendTo(s, to)
  <2>1. PICK to \in Endpoints : AsyncSendTo(s, to)
    BY <1>4
  <2>. DEFINE m == [from |-> local[s], to |-> to, number |-> sends']
  <2>2. /\ Post(RankOf[s], SendJob(m)) /\ SendJob(m) \in Jobs /\ sends' = sends + 1
    <3>1. sends' \in 1 .. MaxSends
      BY <2>1, BoundsAssumption, SMTT(20) DEF AsyncSendTo, TypeOK
    <3>2. m \in Messages
      BY <3>1 DEF Messages
    <3>. QED  BY <2>1, <3>2 DEF AsyncSendTo, Jobs
  <2>3. ToBeSent' = ToBeSent \cup {m}
    <3>1. SendJob(m).run = "send" /\ SendJob(m).message = m
      BY DEF SendJob
    <3>2. {j.message : j \in {x \in {SendJob(m)} : x.run = "send"}} = {m}
      <4>. HIDE DEF m
      <4>. QED  BY <3>1
    <3>. QED  BY <1>3, <2>2, <3>2
  <2>4. T!Send(local[s], to)
    BY <1>2, <2>2, <2>3 DEF T!Send, Received
  <2>. QED  BY <2>4 DEF T!TransportNext
<1>5. CASE AsyncReceiveFrom(s) \/ CloseSocket(s)
  <2>1. PICK job \in Jobs : Post(RankOf[s], job) /\ job.run # "send"
    <3>1. CASE AsyncReceiveFrom(s)
      <4>1. receives' \in Promises
        BY <3>1, BoundsAssumption DEF AsyncReceiveFrom, TypeOK, Promises
      <4>2. ReceiveJob(local[s], receives') \in Jobs
        BY <4>1 DEF Jobs
      <4>. QED  BY <3>1, <4>2 DEF AsyncReceiveFrom, ReceiveJob
    <3>2. CASE CloseSocket(s)
      <4>1. CloseJob(local[s]) \in Jobs
        BY DEF Jobs
      <4>. QED  BY <3>2, <4>1 DEF CloseSocket, CloseJob
    <3>. QED  BY <1>5, <3>1, <3>2
  <2>2. ToBeSent' = ToBeSent
    BY <1>3, <2>1
  <2>3. UNCHANGED sends
    BY <1>5 DEF AsyncReceiveFrom, CloseSocket
  <2>. QED  BY <1>2, <2>2, <2>3 DEF T!transportVars, Received
<1>6. CASE BindChooses(s) \/ BindBlocks(s)
  <2>1. UNCHANGED <<sends, jobs>>
    BY <1>6 DEF BindChooses, BindBlocks, callVars
  <2>2. ToBeSent' = ToBeSent
    BY <2>1 DEF ToBeSent
  <2>. QED  BY <1>2, <2>1, <2>2 DEF T!transportVars, Received
<1>. QED  BY <1>4, <1>5, <1>6 DEF ProgramCalls

LEMMA ThreadIsTransport ==
    ASSUME IInv, IInv', NEW r \in Ranks, MpiThread(r)
    PROVE  [T!TransportNext]_T!transportVars
<1>. TypeOK /\ AtHome /\ UNCHANGED sends
  BY ThreadKeeps DEF IInv
<1>1. CASE TrackReceiveCompletes(r)
  <2>1. PICK m : m = pendingReceives[r][1].body.of
    OBVIOUS
  <2>2. m \in Underway /\ Underway' = Underway \ {m}
        /\ \A other \in Underway :
            other.from = m.from /\ other.to = m.to => m.number <= other.number
    BY <1>1, <2>1, OldestLeaves
  <2>3. Received' = [Received EXCEPT ![m.to] = Append(@, m)]
    BY <1>1, <2>1, ReceivedGrows
  <2>4. m \in Underway /\ T!Deliver(m)
    BY <2>2, <2>3 DEF T!Deliver, T!HandOver, T!IsOldest, Underway, Received
  <2>. QED  BY <2>4 DEF T!TransportNext, Underway
<1>2. CASE ~TrackReceiveCompletes(r)
  <2>1. Underway' = Underway
    BY <1>2, UnderwayMoves
  <2>2. UNCHANGED fulfilled
    BY <1>2 DEF MpiThread, RunsSend, RunsReceive, RunsClose, TrackSendCompletes, ProbeFinds,
                ProbeEnds, TrackReceiveBreaks
  <2>. QED  BY <2>1, <2>2 DEF T!transportVars, Underway
<1>. QED  BY <1>1, <1>2

\* The sockets implement Transport: a datagram that travels as two MPI messages, behind
\* two queues and two trackers, is handed over whole, at most once, and never before an
\* older one of the same sender to the same receiver.
THEOREM SocketsImplementTransport == Spec => ImplementsTransport
<1>1. Init => T!TransportInit
  <2>. SUFFICES ASSUME Init
                PROVE  T!TransportInit
    OBVIOUS
  <2>1. BeingReceived = {} /\ BetweenProcesses = {} /\ ToBeSent = {}
    BY DEF Init, BeingReceived, BetweenProcesses, ToBeSent, ToSet
  <2>2. sends = 0 /\ \A e \in Endpoints : fulfilled[e] = <<>>
    BY DEF Init
  <2>3. [e \in Endpoints |-> [i \in DOMAIN fulfilled[e] |-> fulfilled[e][i].content.of]]
            = [e \in Endpoints |-> <<>>]
    BY <2>2
  <2>. QED  BY <2>1, <2>2, <2>3 DEF T!TransportInit
<1>2. ASSUME IInv, IInv', [Next]_vars
      PROVE  [T!TransportNext]_T!transportVars
  <2>1. CASE UNCHANGED vars
    BY <2>1 DEF vars, callVars, mpiVars, T!transportVars, BeingReceived, BetweenProcesses,
                ToBeSent
  <2>. QED  BY <1>2, <2>1, CallsAreTransport, ThreadIsTransport DEF Next
<1>3. IInv /\ IInv' /\ [Next]_vars => [T!TransportNext]_T!transportVars
  BY <1>2
<1>. QED  BY <1>1, <1>3, Invariance, PTL DEF Spec, ImplementsTransport, T!TransportSpec

=============================================================================
