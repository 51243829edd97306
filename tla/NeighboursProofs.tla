-------------------------- MODULE NeighboursProofs --------------------------
(***************************************************************************)
(* Who gets to know whom in a context, over an ordered transport that      *)
(* loses nothing, for any number of clients: two clients of neighbouring   *)
(* roles that the server knows have each been told of the other once per   *)
(* edge between the two roles, and the role maps of the clients implement  *)
(* what Membership promises the programs.                                  *)
(***************************************************************************)
EXTENDS CracenContextProofs

-----------------------------------------------------------------------------
(* Counting *)

\* Sets of the same size.
LEMMA SameSize ==
    ASSUME NEW A, NEW B, IsFiniteSet(A), NEW f \in [A -> B],
           \A a, b \in A : f[a] = f[b] => a = b,
           \A b \in B : \E a \in A : f[a] = b
    PROVE  IsFiniteSet(B) /\ Cardinality(B) = Cardinality(A)
<1>1. f \in Bijection(A, B)
  BY DEF Bijection, Injection, Surjection, IsInjective
<1>. QED  BY <1>1, FS_Bijection DEF ExistsBijection

\* The elements of a sequence that are in a set.
Where(s, S) == {k \in DOMAIN s : s[k] \in S}
Cnt(s, S) == Cardinality(Where(s, S))

LEMMA CntType ==
    ASSUME NEW A, NEW s \in Seq(A), NEW S
    PROVE  IsFiniteSet(Where(s, S)) /\ Cnt(s, S) \in Nat
<1>1. DOMAIN s = 1 .. Len(s) /\ Len(s) \in Nat
  BY LenProperties
<1>2. IsFiniteSet(DOMAIN s)
  BY <1>1, FS_Interval
<1>3. IsFiniteSet(Where(s, S))
  BY <1>2, FS_Subset DEF Where
<1>. QED  BY <1>3, FS_CardinalityType DEF Cnt

LEMMA CntConcat ==
    ASSUME NEW A, NEW s \in Seq(A), NEW t \in Seq(A), NEW S
    PROVE  Cnt(s \o t, S) = Cnt(s, S) + Cnt(t, S)
<1>1. PICK n \in Nat, m \in Nat :
        /\ n = Len(s) /\ m = Len(t) /\ DOMAIN s = 1 .. n /\ DOMAIN t = 1 .. m
        /\ DOMAIN (s \o t) = 1 .. n + m
        /\ \A k \in 1 .. n + m : (s \o t)[k] = IF k <= n THEN s[k] ELSE t[k - n]
  <2>1. /\ Len(s) \in Nat /\ Len(t) \in Nat /\ DOMAIN s = 1 .. Len(s) /\ DOMAIN t = 1 .. Len(t)
    BY LenProperties
  <2>2. /\ s \o t \in Seq(A) /\ Len(s \o t) = Len(s) + Len(t)
        /\ \A k \in 1 .. Len(s) + Len(t) :
                (s \o t)[k] = IF k <= Len(s) THEN s[k] ELSE t[k - Len(s)]
    BY ConcatProperties
  <2>3. DOMAIN (s \o t) = 1 .. Len(s \o t)
    BY <2>2, LenProperties
  <2>. QED  BY <2>1, <2>2, <2>3
<1>. DEFINE late == {k \in n + 1 .. n + m : t[k - n] \in S}
            f == [k \in Where(t, S) |-> k + n]
<1>2. Where(s \o t, S) = Where(s, S) \cup late
  <2>1. ASSUME NEW k
        PROVE  k \in Where(s \o t, S) <=> k \in Where(s, S) \cup late
    <3>1. k \in 1 .. n + m <=> k \in 1 .. n \/ k \in n + 1 .. n + m
      BY <1>1
    <3>2. k \in 1 .. n => (s \o t)[k] = s[k]
      BY <1>1
    <3>3. k \in n + 1 .. n + m => (s \o t)[k] = t[k - n]
      BY <1>1
    <3>. QED  BY <1>1, <3>1, <3>2, <3>3 DEF Where
  <2>. QED  BY <2>1
<1>3. Where(s, S) \cap late = {}
  BY <1>1 DEF Where
<1>4. IsFiniteSet(late) /\ Cardinality(late) = Cnt(t, S)
  <2>1. f \in [Where(t, S) -> late]
    BY <1>1 DEF Where
  <2>2. \A a, b \in Where(t, S) : f[a] = f[b] => a = b
    BY <1>1 DEF Where
  <2>3. ASSUME NEW b \in late
        PROVE  \E a \in Where(t, S) : f[a] = b
    <3>1. b - n \in 1 .. m /\ (b - n) + n = b
      BY <1>1
    <3>2. b - n \in Where(t, S)
      BY <1>1, <3>1 DEF Where
    <3>. QED  BY <3>1, <3>2
  <2>4. IsFiniteSet(Where(t, S))
    BY CntType
  <2>. HIDE DEF late, f
  <2>. QED  BY <2>1, <2>2, <2>3, <2>4, SameSize DEF Cnt
<1>5. IsFiniteSet(Where(s, S)) /\ Cardinality(Where(s, S)) \in Nat /\ Cnt(t, S) \in Nat
  BY CntType DEF Cnt
<1>. HIDE DEF late
<1>6. Cardinality(Where(s, S) \cup late) = Cardinality(Where(s, S)) + Cardinality(late) - 0
  BY <1>3, <1>4, <1>5, FS_Union, FS_EmptySet
<1>. QED  BY <1>2, <1>4, <1>5, <1>6 DEF Cnt

LEMMA CntNone ==
    ASSUME NEW A, NEW s \in Seq(A), NEW S, \A k \in 1 .. Len(s) : s[k] \notin S
    PROVE  Cnt(s, S) = 0
<1>1. Where(s, S) = {}
  BY LenProperties DEF Where
<1>. QED  BY <1>1, FS_EmptySet DEF Cnt

LEMMA CntAll ==
    ASSUME NEW A, NEW s \in Seq(A), NEW S, \A k \in 1 .. Len(s) : s[k] \in S
    PROVE  Cnt(s, S) = Len(s)
<1>1. Where(s, S) = 1 .. Len(s) /\ Len(s) \in Nat
  BY LenProperties DEF Where
<1>2. PICK n \in Nat : n = Len(s)
  BY <1>1
<1>3. Cardinality(1 .. n) = IF 1 > n THEN 0 ELSE n - 1 + 1
  BY FS_Interval
<1>4. Cardinality(1 .. n) = n
  BY <1>3
<1>. QED  BY <1>1, <1>2, <1>4 DEF Cnt

LEMMA CntAppend ==
    ASSUME NEW A, NEW s \in Seq(A), NEW x \in A, NEW S
    PROVE  Cnt(Append(s, x), S) = Cnt(s, S) + (IF x \in S THEN 1 ELSE 0)
<1>1. <<x>> \in Seq(A) /\ Len(<<x>>) = 1 /\ \A k \in 1 .. 1 : <<x>>[k] = x
  OBVIOUS
<1>2. Append(s, x) = s \o <<x>>
  BY AppendIsConcat
<1>3. Cnt(<<x>>, S) = IF x \in S THEN 1 ELSE 0
  <2>1. PICK t : t = <<x>>
    OBVIOUS
  <2>2. t \in Seq(A) /\ Len(t) = 1 /\ \A k \in 1 .. 1 : t[k] = x
    BY <1>1, <2>1
  <2>. QED  BY <2>1, <2>2, CntAll, CntNone
<1>4. Cnt(s \o <<x>>, S) = Cnt(s, S) + Cnt(<<x>>, S)
  BY <1>1, CntConcat
<1>. QED  BY <1>2, <1>3, <1>4

LEMMA CntTail ==
    ASSUME NEW A, NEW s \in Seq(A), s # <<>>, NEW S
    PROVE  Cnt(s, S) = Cnt(Tail(s), S) + (IF s[1] \in S THEN 1 ELSE 0)
<1>1. /\ Tail(s) \in Seq(A) /\ s[1] \in A /\ Len(s) \in Nat \ {0}
      /\ Len(Tail(s)) = Len(s) - 1
      /\ \A i \in 1 .. Len(s) - 1 : Tail(s)[i] = s[i + 1]
  BY TakesFirst
<1>2. PICK t : t = <<s[1]>>
  OBVIOUS
<1>3. t \in Seq(A) /\ Len(t) = 1 /\ t[1] = s[1]
  BY <1>1, <1>2
<1>4. s = t \o Tail(s)
  <2>1. /\ t \o Tail(s) \in Seq(A)
        /\ Len(t \o Tail(s)) = Len(t) + Len(Tail(s))
        /\ \A i \in 1 .. Len(t) + Len(Tail(s)) : (t \o Tail(s))[i] =
                IF i <= Len(t) THEN t[i] ELSE Tail(s)[i - Len(t)]
    BY <1>1, <1>3, ConcatProperties
  <2>2. PICK n \in Nat \ {0} : n = Len(s)
    BY <1>1
  <2>3. /\ Len(t \o Tail(s)) = n
        /\ \A i \in 1 .. n : (t \o Tail(s))[i] = IF i <= 1 THEN t[i] ELSE Tail(s)[i - 1]
    BY <1>1, <1>3, <2>1, <2>2
  <2>4. ASSUME NEW i \in 1 .. n
        PROVE  s[i] = (t \o Tail(s))[i]
    <3>1. CASE i = 1
      BY <1>3, <2>2, <2>3, <3>1
    <3>2. CASE i # 1
      <4>1. i - 1 \in 1 .. n - 1 /\ (i - 1) + 1 = i
        BY <2>2, <3>2
      <4>. QED  BY <1>1, <2>2, <2>3, <3>2, <4>1
    <3>. QED  BY <3>1, <3>2
  <2>. QED  BY <2>1, <2>2, <2>3, <2>4, SeqEqual
<1>5. Cnt(s, S) = Cnt(t, S) + Cnt(Tail(s), S)
  <2>1. PICK u : u = Tail(s)
    OBVIOUS
  <2>2. Cnt(t \o u, S) = Cnt(t, S) + Cnt(u, S)
    BY <1>1, <1>3, <2>1, CntConcat, ZenonT(40)
  <2>. QED  BY <1>4, <2>1, <2>2, Zenon
<1>6. Cnt(t, S) = IF s[1] \in S THEN 1 ELSE 0
  <2>1. \A k \in 1 .. 1 : t[k] = s[1]
    BY <1>3
  <2>. QED  BY <1>3, <2>1, CntAll, CntNone
<1>7. Cnt(Tail(s), S) \in Nat
  BY <1>1, CntType
<1>. QED  BY <1>5, <1>6, <1>7

-----------------------------------------------------------------------------
(* The inductive invariant *)

\* The messages that tell of client d, and how often client c has been told of it.
Hello(d) ==
    {m \in Messages : m.type \in {"Embody", "Announce"} /\ m.endpoint = DataEndpoint(d)}
Entered(c, d) == Cnt(roleEndpointMap[c][RoleOf[d]], {DataEndpoint(d)})
Coming(c, d) == Cnt(toClient[c], Hello(d))
LinkCount(c, d) == Cardinality(LinksBetween(c, d))

\* The server has not yet handled an Embody of client c.
Fresh(c) ==
    \/ pc[c] \in {"new", "context"}
    \/ \E k \in DOMAIN toServer[c] : toServer[c][k].type = "Embody"

\* The server tells both or neither.
Met(c, d) ==
    /\ Told(c, d) <= LinkCount(c, d)
    /\ Fresh(c) \/ Fresh(d) => Told(c, d) = 0
    /\ Listed(c) /\ Listed(d) => Told(c, d) = LinkCount(c, d)

MetInv == \A c, d \in Clients : c # d => Met(c, d)

\* Nobody but the server is reached at the server's endpoint.
ServerApart ==
    \A c \in Clients : ServerEndpoint # LocalEndpoint[c] /\ ServerEndpoint # DataEndpoint(c)

-----------------------------------------------------------------------------
(* What a client has been told of another *)

LEMMA ToldCounts ==
    IInv => \A c, d \in Clients :
        /\ Entered(c, d) \in Nat /\ Coming(c, d) \in Nat
        /\ Told(c, d) = Entered(c, d) + Coming(c, d)
<1>. SUFFICES ASSUME IInv, NEW c \in Clients, NEW d \in Clients
              PROVE  /\ Entered(c, d) \in Nat /\ Coming(c, d) \in Nat
                     /\ Told(c, d) = Entered(c, d) + Coming(c, d)
  OBVIOUS
<1>1. toClient[c] \in Seq(Messages) /\ roleEndpointMap[c][RoleOf[d]] \in Seq(Endpoints)
  BY RoleAssumption DEF IInv, NetworkTypeOK, ClientTypeOK
<1>2. Entered(c, d) \in Nat /\ Coming(c, d) \in Nat
  BY <1>1, CntType DEF Entered, Coming
<1>3. Entries(c, d) = Where(roleEndpointMap[c][RoleOf[d]], {DataEndpoint(d)})
  BY DEF Entries, Where
<1>4. Arriving(c, d, {"Embody", "Announce"}) = Where(toClient[c], Hello(d))
  <2>1. \A k \in DOMAIN toClient[c] : toClient[c][k] \in Messages
    BY <1>1, LenProperties
  <2>. QED  BY <2>1 DEF Arriving, Where, Hello
<1>. QED  BY <1>2, <1>3, <1>4 DEF Told, Entered, Coming, Cnt

LEMMA ToldCountsPrimed ==
    IInv' => \A c, d \in Clients :
        /\ Entered(c, d)' \in Nat /\ Coming(c, d)' \in Nat
        /\ Told(c, d)' = Entered(c, d)' + Coming(c, d)'
<1>1. (IInv => \A c, d \in Clients :
        /\ Entered(c, d) \in Nat /\ Coming(c, d) \in Nat
        /\ Told(c, d) = Entered(c, d) + Coming(c, d))'
  BY ToldCounts, PTL
<1>. QED  BY <1>1

\* The client is sent messages that tell of nobody.
NoHello == {m \in Messages : m.type \notin {"Embody", "Announce"}}

LEMMA HearsNothing ==
    ASSUME IInv, IInv', NEW c \in Clients, NEW d \in Clients,
           UNCHANGED roleEndpointMap, NEW ms \in Seq(NoHello), toClient'[c] = toClient[c] \o ms
    PROVE  Told(c, d)' = Told(c, d)
<1>1. toClient[c] \in Seq(Messages) /\ ms \in Seq(Messages)
  BY SeqMonotonic DEF IInv, NetworkTypeOK, NoHello
<1>2. \A k \in 1 .. Len(ms) : ms[k] \notin Hello(d)
  <2>1. \A k \in 1 .. Len(ms) : ms[k] \in NoHello
    BY ElementOfSeq
  <2>. QED  BY <2>1 DEF NoHello, Hello
<1>3. Cnt(ms, Hello(d)) = 0
  BY <1>1, <1>2, CntNone
<1>4. Cnt(toClient[c] \o ms, Hello(d)) = Cnt(toClient[c], Hello(d)) + Cnt(ms, Hello(d))
  BY <1>1, CntConcat
<1>5. Hello(d)' = Hello(d) /\ DataEndpoint(d)' = DataEndpoint(d)
  BY DEF Hello, DataEndpoint
<1>6. Coming(c, d)' = Coming(c, d)
  <2>1. Cnt(toClient[c], Hello(d)) \in Nat
    BY <1>1, CntType
  <2>2. Coming(c, d)' = Cnt(toClient'[c], Hello(d))
    BY <1>5 DEF Coming, Cnt, Where
  <2>. QED  BY <1>3, <1>4, <2>1, <2>2 DEF Coming
<1>7. Entered(c, d)' = Entered(c, d)
  BY <1>5 DEF Entered, Cnt, Where
<1>. QED  BY <1>6, <1>7, ToldCounts, ToldCountsPrimed

\* The client takes a message: what it tells of client d goes into the list.
LEMMA TakesMessage ==
    ASSUME IInv, IInv', NEW c \in Clients, NEW d \in Clients,
           toClient[c] # <<>>, toClient'[c] = Tail(toClient[c]),
           \/ /\ toClient[c][1] \notin Hello(d)
              /\ roleEndpointMap'[c][RoleOf[d]] = roleEndpointMap[c][RoleOf[d]]
           \/ \E x \in Endpoints :
                /\ toClient[c][1] \in Hello(d) <=> x = DataEndpoint(d)
                /\ roleEndpointMap'[c][RoleOf[d]] = Append(roleEndpointMap[c][RoleOf[d]], x)
    PROVE  Told(c, d)' = Told(c, d)
<1>. DEFINE list == roleEndpointMap[c][RoleOf[d]]
<1>1. /\ toClient[c] \in Seq(Messages) /\ list \in Seq(Endpoints)
      /\ Tail(toClient[c]) \in Seq(Messages) /\ DataEndpoint(d) \in Endpoints
  BY RoleAssumption, TakesFirst, DataEndpointType DEF IInv, NetworkTypeOK, ClientTypeOK
<1>2. Hello(d)' = Hello(d) /\ DataEndpoint(d)' = DataEndpoint(d)
  BY DEF Hello, DataEndpoint
<1>3. Coming(c, d) = Cnt(Tail(toClient[c]), Hello(d))
                        + (IF toClient[c][1] \in Hello(d) THEN 1 ELSE 0)
  BY <1>1, CntTail DEF Coming
<1>4. Coming(c, d)' = Cnt(Tail(toClient[c]), Hello(d))
  BY <1>2 DEF Coming, Cnt, Where
<1>5. Entered(c, d)' = Entered(c, d) + (IF toClient[c][1] \in Hello(d) THEN 1 ELSE 0)
  <2>1. Entered(c, d)' = Cnt(roleEndpointMap'[c][RoleOf[d]], {DataEndpoint(d)})
    BY <1>2 DEF Entered, Cnt, Where
  <2>2. Entered(c, d) = Cnt(list, {DataEndpoint(d)}) /\ Entered(c, d) \in Nat
    BY ToldCounts DEF Entered
  <2>3. CASE toClient[c][1] \notin Hello(d) /\ roleEndpointMap'[c][RoleOf[d]] = list
    BY <2>1, <2>2, <2>3
  <2>4. ASSUME NEW x \in Endpoints, toClient[c][1] \in Hello(d) <=> x = DataEndpoint(d),
               roleEndpointMap'[c][RoleOf[d]] = Append(list, x)
        PROVE  Entered(c, d)' = Entered(c, d) + (IF toClient[c][1] \in Hello(d) THEN 1 ELSE 0)
    <3>1. Cnt(Append(list, x), {DataEndpoint(d)})
            = Cnt(list, {DataEndpoint(d)}) + (IF x \in {DataEndpoint(d)} THEN 1 ELSE 0)
      BY <1>1, CntAppend
    <3>2. (IF x \in {DataEndpoint(d)} THEN 1 ELSE 0)
            = IF toClient[c][1] \in Hello(d) THEN 1 ELSE 0
      BY <2>4
    <3>. QED  BY <2>1, <2>2, <2>4, <3>1, <3>2
  <2>. QED  BY <2>3, <2>4
<1>6. PICK n \in Nat : n = Cnt(Tail(toClient[c]), Hello(d))
  BY <1>1, CntType
<1>7. PICK k \in Nat : k = Entered(c, d)
  BY ToldCounts
<1>8. PICK one \in {0, 1} : one = IF toClient[c][1] \in Hello(d) THEN 1 ELSE 0
  OBVIOUS
<1>9. Told(c, d) = k + (n + one)
  BY <1>3, <1>6, <1>7, <1>8, ToldCounts
<1>10. Told(c, d)' = (k + one) + n
  BY <1>4, <1>5, <1>6, <1>7, <1>8, ToldCountsPrimed
<1>. QED  BY <1>9, <1>10

-----------------------------------------------------------------------------
(* Steps that introduce nobody *)

\* Nobody embodies: who has been embodied remains so, nobody new is listed.
Later(c) == (Fresh(c)' => Fresh(c)) /\ (Listed(c)' => Listed(c))

LEMMA MetStays ==
    ASSUME NEW c \in Clients, NEW d \in Clients, Met(c, d),
           Told(c, d)' = Told(c, d), Later(c), Later(d)
    PROVE  Met(c, d)'
<1>1. LinkCount(c, d)' = LinkCount(c, d)
  BY DEF LinkCount, LinksBetween
<1>. QED  BY <1>1 DEF Met, Later

\* The server takes a message of client c and tells of nobody.
LEMMA ServerMet ==
    ASSUME IInv, IInv', MetInv, NEW c \in Clients, UNCHANGED clientVars,
           toServer[c] # <<>>, toServer'[c] = Tail(toServer[c]),
           \A d \in Senders \ {c} : toServer'[d] = toServer[d],
           DOMAIN participants' \subseteq DOMAIN participants,
           \A d \in Clients : \E ms \in Seq(NoHello) : toClient'[d] = toClient[d] \o ms
    PROVE  MetInv'
<1>1. ASSUME NEW d \in Clients
      PROVE  Later(d)
  <2>1. Listed(d)' => Listed(d)
    BY DEF Listed
  <2>2. (\E k \in DOMAIN toServer'[d] : toServer'[d][k].type = "Embody")
            => \E k \in DOMAIN toServer[d] : toServer[d][k].type = "Embody"
    <3>1. CASE d # c
      <4>1. toServer'[d] = toServer[d]
        BY <3>1 DEF Senders
      <4>. QED  BY <4>1, Zenon
    <3>2. CASE d = c
      <4>1. PICK n \in Nat \ {0} :
                /\ DOMAIN toServer[c] = 1 .. n
                /\ \A k \in 1 .. n - 1 : Tail(toServer[c])[k] = toServer[c][k + 1]
                /\ DOMAIN Tail(toServer[c]) = 1 .. n - 1
        <5>1. toServer[c] \in Seq(Messages)
          BY DEF IInv, NetworkTypeOK, Senders
        <5>. QED  BY <5>1, TakesFirst, LenProperties
      <4>2. \A k \in 1 .. n - 1 : k + 1 \in 1 .. n
        BY <4>1
      <4>3. ASSUME NEW k \in DOMAIN toServer'[c], toServer'[c][k].type = "Embody"
            PROVE  \E j \in DOMAIN toServer[c] : toServer[c][j].type = "Embody"
        <5>1. k \in 1 .. n - 1 /\ k + 1 \in 1 .. n
          BY <4>1, <4>2
        <5>2. toServer[c][k + 1].type = "Embody"
          BY <4>1, <4>3, <5>1
        <5>. QED  BY <4>1, <5>1, <5>2
      <4>. QED  BY <3>2, <4>3
    <3>. QED  BY <3>1, <3>2
  <2>. QED  BY <2>1, <2>2 DEF Later, Fresh, clientVars
<1>2. ASSUME NEW d \in Clients, NEW e \in Clients
      PROVE  Told(d, e)' = Told(d, e)
  BY HearsNothing DEF clientVars
<1>. QED  BY <1>1, <1>2, MetStays DEF MetInv

\* A step of client c alone.
LEMMA ClientMet ==
    ASSUME IInv, IInv', MetInv, NEW c \in Clients, UNCHANGED participants, Later(c),
           \A d \in Clients \ {c} :
                /\ pc'[d] = pc[d] /\ roleEndpointMap'[d] = roleEndpointMap[d]
                /\ toServer'[d] = toServer[d] /\ toClient'[d] = toClient[d],
           \A d \in Clients \ {c} : Told(c, d)' = Told(c, d)
    PROVE  MetInv'
<1>1. \A d \in Clients : Later(d)
  BY DEF Later, Fresh, Listed
<1>2. ASSUME NEW d \in Clients \ {c}, NEW e \in Clients
      PROVE  Told(d, e)' = Told(d, e)
  BY DEF Told, Entries, Arriving, DataEndpoint
<1>. QED  BY <1>1, <1>2, MetStays DEF MetInv

\* The server answers the client whose message it takes.
LEMMA ReplyMet ==
    ASSUME OrderedTransport, IInv, IInv', MetInv, NEW c \in Clients,
           UNCHANGED clientVars, UNCHANGED participants,
           NEW i, NEW t, ServerReceives(c, i, t),
           NEW ms \in Seq(NoHello), ReceiveAndReply(c, i, ms)
    PROVE  MetInv'
<1>1. /\ toServer[c] # <<>> /\ toServer'[c] = Tail(toServer[c])
      /\ \A d \in Senders \ {c} : toServer'[d] = toServer[d]
  BY ServerTakes DEF ReceiveAndReply
<1>2. toClient \in [Clients -> Seq(Messages)] /\ toClient' = [toClient EXCEPT ![c] = @ \o ms]
  BY DEF IInv, NetworkTypeOK, ReceiveAndReply
<1>3. ASSUME NEW d \in Clients
      PROVE  \E ns \in Seq(NoHello) : toClient'[d] = toClient[d] \o ns
  <2>1. CASE d = c
    BY <1>2, <2>1
  <2>2. CASE d # c
    <3>1. <<>> \in Seq(NoHello) /\ toClient[d] \o <<>> = toClient[d]
      BY <1>2, ConcatEmptySeq
    <3>. QED  BY <1>2, <2>2, <3>1
  <2>. QED  BY <2>1, <2>2
<1>. QED  BY <1>1, <1>3, ServerMet

LEMMA RegisterMet ==
    ASSUME OrderedTransport, IInv, IInv', MetInv, NEW c \in Clients, UNCHANGED clientVars,
           NEW i, OnFirstRegister(c, i) \/ OnQueuedRegister(c, i) \/ OnLateRegister(c, i)
    PROVE  MetInv'
<1>1. \A m : m \in NoHello => <<m>> \in Seq(NoHello)
  OBVIOUS
<1>2. RoleGraphRequest \in NoHello /\ RolesComplete \in NoHello
  BY DEF RoleGraphRequest, RolesComplete, NoHello, Messages
<1>3. <<>> \in Seq(NoHello) /\ <<RoleGraphRequest>> \in Seq(NoHello) /\ <<RolesComplete>> \in Seq(NoHello)
  BY <1>1, <1>2
<1>4. CASE OnFirstRegister(c, i)
  <2>1. /\ ServerReceives(c, i, "Register") /\ UNCHANGED participants
        /\ ReceiveAndReply(c, i, <<RoleGraphRequest>>)
    BY <1>4 DEF OnFirstRegister
  <2>. QED  BY <1>3, <2>1, ReplyMet
<1>5. CASE OnQueuedRegister(c, i)
  <2>1. /\ ServerReceives(c, i, "Register") /\ UNCHANGED participants
        /\ ReceiveAndReply(c, i, <<>>)
    BY <1>5 DEF OnQueuedRegister
  <2>. QED  BY <1>3, <2>1, ReplyMet
<1>6. CASE OnLateRegister(c, i)
  <2>1. /\ ServerReceives(c, i, "Register") /\ UNCHANGED participants
        /\ ReceiveAndReply(c, i, <<RolesComplete>>)
    BY <1>6 DEF OnLateRegister, serverVars
  <2>. QED  BY <1>3, <2>1, ReplyMet
<1>. QED  BY <1>4, <1>5, <1>6

LEMMA AddRoleConnectionMet ==
    ASSUME OrderedTransport, IInv, IInv', MetInv, NEW c \in Clients, UNCHANGED clientVars,
           NEW i, OnAddRoleConnection(c, i)
    PROVE  MetInv'
<1>1. /\ ServerReceives(c, i, "AddRoleConnection") /\ UNCHANGED participants
      /\ ReceiveAndReply(c, i, <<toServer[c][i]>>)
  BY DEF OnAddRoleConnection
<1>2. i = 1 /\ toServer[c] \in Seq(Messages) /\ toServer[c] # <<>>
      /\ toServer[c][1].type = "AddRoleConnection"
  BY <1>1, ServerTakes DEF ReceiveAndReply
<1>3. PICK m : m = toServer[c][i]
  OBVIOUS
<1>4. m \in NoHello
  BY <1>2, <1>3, TakesFirst DEF NoHello
<1>5. <<m>> \in Seq(NoHello)
  BY <1>4
<1>. QED  BY <1>1, <1>3, <1>5, ReplyMet

LEMMA RolesCompleteMet ==
    ASSUME OrderedTransport, IInv, IInv', MetInv, NEW c \in Clients, UNCHANGED clientVars,
           NEW i, OnRolesComplete(c, i)
    PROVE  MetInv'
<1>1. /\ toServer[c] # <<>> /\ toServer'[c] = Tail(toServer[c])
      /\ \A d \in Senders \ {c} : toServer'[d] = toServer[d]
  BY ServerTakes DEF OnRolesComplete
<1>2. RolesComplete \in NoHello
  BY DEF RolesComplete, NoHello, Messages
<1>3. \A d \in Clients : Releases(d) \in Seq(NoHello)
  BY <1>2, ReleasesSeq DEF IInv
<1>4. UNCHANGED participants /\ \A d \in Clients : toClient'[d] = toClient[d] \o Releases(d)
  BY DEF OnRolesComplete
<1>. QED  BY <1>1, <1>3, <1>4, ServerMet

LEMMA DisembodyMet ==
    ASSUME OrderedTransport, DistinctEndpoints, IInv, IInv', ServerPhase, \A d \in Clients : Phase(d),
           MetInv, NEW c \in Clients, UNCHANGED clientVars, NEW i, OnDisembody(c, i)
    PROVE  MetInv'
<1>. DEFINE left == Disembody(DataEndpoint(c))
<1>1. /\ toServer[c] # <<>> /\ toServer'[c] = Tail(toServer[c])
      /\ \A d \in Senders \ {c} : toServer'[d] = toServer[d]
  BY ServerTakes DEF OnDisembody
<1>2. /\ participants' = EraseParticipant(LocalEndpoint[c])
      /\ toClient'[c] = (toClient[c] \o <<Disembody(LocalEndpoint[c])>>) \o CopiesFor(c, RoleOf[c], left)
      /\ \A d \in Clients \ {c} : toClient'[d] = toClient[d] \o CopiesFor(d, RoleOf[c], left)
  BY DisembodyFacts
<1>3. DOMAIN participants' \subseteq DOMAIN participants
  BY <1>2 DEF EraseParticipant
<1>4. left \in NoHello /\ Disembody(LocalEndpoint[c]) \in NoHello
  BY DataEndpointType, EndpointAssumption DEF Disembody, NoHello, Messages
<1>5. \A d \in Clients : CopiesFor(d, RoleOf[c], left) \in Seq(NoHello)
  <2>1. \A d \in Clients : CopiesFor(d, RoleOf[c], left) \in Seq({left})
    BY CopiesFacts
  <2>. QED  BY <1>4, <2>1, SeqMonotonic
<1>6. ASSUME NEW d \in Clients
      PROVE  \E ms \in Seq(NoHello) : toClient'[d] = toClient[d] \o ms
  <2>1. CASE d # c
    BY <1>2, <1>5, <2>1
  <2>2. CASE d = c
    <3>1. PICK t, u : t = <<Disembody(LocalEndpoint[c])>> /\ u = CopiesFor(c, RoleOf[c], left)
      OBVIOUS
    <3>2. t \in Seq(NoHello) /\ u \in Seq(NoHello)
      BY <1>4, <1>5, <3>1
    <3>3. NoHello \subseteq Messages /\ toClient[c] \in Seq(Messages)
      BY DEF NoHello, IInv, NetworkTypeOK
    <3>4. t \in Seq(Messages) /\ u \in Seq(Messages) /\ t \o u \in Seq(NoHello)
      BY <3>2, <3>3, SeqMonotonic, ConcatProperties
    <3>5. (toClient[c] \o t) \o u = toClient[c] \o (t \o u)
      <4>1. PICK s \in Seq(Messages) : s = toClient[c]
        BY <3>3
      <4>2. (s \o t) \o u = s \o (t \o u)
        BY <3>4, ConcatAssociative
      <4>. QED  BY <4>1, <4>2
    <3>. QED  BY <1>2, <2>2, <3>1, <3>4, <3>5
  <2>. QED  BY <2>1, <2>2
<1>. HIDE DEF left
<1>. QED  BY <1>1, <1>3, <1>6, ServerMet

\* The server thread ends, or is told to.
LEMMA ServerEndMet ==
    ASSUME IInv, MetInv, UNCHANGED clientVars, ServerStop \/ ServerCloses
    PROVE  MetInv'
<1>1. Server \notin Clients /\ toServer \in [Senders -> Seq(Messages)]
  BY ClientsAssumption DEF IInv, NetworkTypeOK
<1>2. UNCHANGED toClient /\ UNCHANGED participants
  BY DEF ServerStop, ServerCloses, OnServerClose, serverVars
<1>3. \A d \in Clients : toServer'[d] = toServer[d]
  BY <1>1 DEF ServerStop, ServerCloses, OnServerClose, ReceiveAtServer, Senders
<1>4. ASSUME NEW d \in Clients
      PROVE  Later(d)
  BY <1>2, <1>3 DEF Later, Fresh, Listed, clientVars
<1>5. ASSUME NEW d \in Clients, NEW e \in Clients
      PROVE  Told(d, e)' = Told(d, e)
  BY <1>2 DEF Told, Entries, Arriving, DataEndpoint, clientVars
<1>. QED  BY <1>4, <1>5, MetStays DEF MetInv

-----------------------------------------------------------------------------
(* The steps of a client *)

\* A client that does not receive.
LEMMA CalledMet ==
    ASSUME IInv, IInv', MetInv, NEW c \in Clients, UNCHANGED serverVars,
           \/ Construct(c)
           \/ Stop(c)
           \/ Joined(c)
           \/ Crash(c)
    PROVE  MetInv'
<1>1. /\ pc \in [Clients -> ClientStates] /\ toServer \in [Senders -> Seq(Messages)]
      /\ c \in Senders /\ \A d \in Clients : d \in Senders
  BY DEF IInv, ClientTypeOK, NetworkTypeOK, Senders
<1>2. UNCHANGED <<roleEndpointMap, toClient, participants>>
  BY DEF Construct, Stop, Joined, Crash, SendToServer, networkVars, serverVars
<1>3. \A d \in Clients \ {c} : pc'[d] = pc[d] /\ toServer'[d] = toServer[d]
  BY <1>1 DEF Construct, Stop, Joined, Crash, SendToServer, networkVars
<1>4. Later(c)
  <2>1. Listed(c)' => Listed(c)
    BY <1>2 DEF Listed
  <2>2. CASE Construct(c)
    BY <2>1, <2>2 DEF Construct, Later, Fresh
  <2>3. CASE Joined(c) \/ Crash(c)
    <3>1. toServer' = toServer /\ pc'[c] \in {"closed", "crashed"}
      BY <1>1, <2>3 DEF Joined, Crash, networkVars
    <3>. QED  BY <2>1, <3>1 DEF Later, Fresh
  <2>4. CASE Stop(c)
    <3>1. pc'[c] = "joining" /\ toServer'[c] = Append(toServer[c], Disembody(LocalEndpoint[c]))
      BY <1>1, <2>4 DEF Stop, SendToServer
    <3>2. PICK n \in Nat :
            /\ DOMAIN toServer[c] = 1 .. n /\ DOMAIN toServer'[c] = 1 .. n + 1
            /\ \A k \in 1 .. n : toServer'[c][k] = toServer[c][k]
            /\ toServer'[c][n + 1] = Disembody(LocalEndpoint[c])
      <4>1. toServer[c] \in Seq(Messages) /\ Disembody(LocalEndpoint[c]) \in Messages
        BY <1>1, EndpointAssumption DEF Disembody, Messages
      <4>2. Len(toServer[c]) \in Nat /\ DOMAIN toServer[c] = 1 .. Len(toServer[c])
        BY <4>1, LenProperties
      <4>3. /\ toServer'[c] \in Seq(Messages)
            /\ Len(toServer'[c]) = Len(toServer[c]) + 1
            /\ \A k \in 1 .. Len(toServer[c]) : toServer'[c][k] = toServer[c][k]
            /\ toServer'[c][Len(toServer[c]) + 1] = Disembody(LocalEndpoint[c])
        BY <3>1, <4>1, AppendProperties
      <4>4. DOMAIN toServer'[c] = 1 .. Len(toServer[c]) + 1
        BY <4>3, LenProperties
      <4>. QED  BY <4>2, <4>3, <4>4
    <3>3. Disembody(LocalEndpoint[c]).type # "Embody"
      BY DEF Disembody
    <3>4. ASSUME NEW k \in 1 .. n + 1, toServer'[c][k].type = "Embody"
          PROVE  k \in 1 .. n /\ toServer[c][k].type = "Embody"
      <4>1. k # n + 1
        BY <3>2, <3>3, <3>4
      <4>2. k \in 1 .. n
        BY <3>2, <4>1
      <4>. QED  BY <3>2, <3>4, <4>2
    <3>. QED  BY <2>1, <3>1, <3>2, <3>4 DEF Later, Fresh
  <2>. QED  BY <2>2, <2>3, <2>4
<1>5. ASSUME NEW d \in Clients
      PROVE  Told(c, d)' = Told(c, d)
  BY <1>2 DEF Told, Entries, Arriving, DataEndpoint
<1>. QED  BY <1>2, <1>3, <1>4, <1>5, ClientMet

\* A client that takes a message which introduces nobody.
LEMMA TakenMet ==
    ASSUME IInv, IInv', MetInv, NEW c \in Clients, UNCHANGED participants, Later(c),
           \A d \in Clients \ {c} :
                pc'[d] = pc[d] /\ toServer'[d] = toServer[d] /\ toClient'[d] = toClient[d],
           UNCHANGED roleEndpointMap, toClient[c] # <<>>, toClient'[c] = Tail(toClient[c]),
           toClient[c][1].type \notin {"Embody", "Announce"}
    PROVE  MetInv'
<1>1. ASSUME NEW d \in Clients
      PROVE  Told(c, d)' = Told(c, d)
  <2>1. toClient[c][1] \notin Hello(d)
    BY DEF Hello
  <2>. QED  BY <2>1, TakesMessage
<1>. QED  BY <1>1, ClientMet

\* In the constructor.
LEMMA ContextMet ==
    ASSUME OrderedTransport, IInv, IInv', MetInv, NEW c \in Clients, UNCHANGED serverVars,
           NEW i,
           \/ OnRoleGraphRequest(c, i)
           \/ OnAddRoleConnectionAck(c, i)
           \/ OnContextReady(c, i)
    PROVE  MetInv'
<1>1. /\ pc[c] = "context" /\ i \in Arrived(toClient[c])
      /\ toClient[c][i].type \in {"RoleGraphRequest", "AddRoleConnection", "RolesComplete"}
      /\ toClient' = [toClient EXCEPT ![c] = RemoveAt(@, i)]
  BY DEF OnRoleGraphRequest, OnAddRoleConnectionAck, OnContextReady, ContextReceives,
         ReceiveAndSend, ReceiveAtClient
<1>2. /\ i = 1 /\ toClient[c] # <<>> /\ toClient'[c] = Tail(toClient[c])
      /\ \A d \in Clients \ {c} : toClient'[d] = toClient[d]
  BY <1>1, ClientTakes
<1>3. /\ \A d \in Clients \ {c} : pc'[d] = pc[d] /\ toServer'[d] = toServer[d]
      /\ UNCHANGED <<roleEndpointMap, participants>>
  <2>1. pc \in [Clients -> ClientStates] /\ toServer \in [Senders -> Seq(Messages)]
        /\ \A d \in Clients : d \in Senders
    BY DEF IInv, ClientTypeOK, NetworkTypeOK, Senders
  <2>. QED  BY <2>1 DEF OnRoleGraphRequest, OnAddRoleConnectionAck, OnContextReady,
                    ReceiveAndSend, ReceiveAtClient, clientVars, serverVars
<1>4. Later(c)
  BY <1>1, <1>3 DEF Later, Fresh, Listed
<1>. QED  BY <1>1, <1>2, <1>3, <1>4, TakenMet

LEMMA DismissedMet ==
    ASSUME OrderedTransport, IInv, IInv', MetInv, NEW c \in Clients, UNCHANGED serverVars,
           NEW i, OnDisembodyAck(c, i)
    PROVE  MetInv'
<1>1. /\ i = 1 /\ toClient[c] # <<>> /\ toClient[c][1].type = "Disembody"
      /\ toClient'[c] = Tail(toClient[c]) /\ UNCHANGED toServer
      /\ \A d \in Clients \ {c} : toClient'[d] = toClient[d]
  BY ClientReceives DEF OnDisembodyAck, AliveReceives
<1>2. UNCHANGED <<pc, roleEndpointMap, participants>>
  BY DEF OnDisembodyAck, serverVars
<1>3. Later(c)
  BY <1>1, <1>2 DEF Later, Fresh, Listed
<1>. QED  BY <1>1, <1>2, <1>3, TakenMet

\* The message that somebody has left changes no list: the loop compares the endpoint
\* with the sender, which is the server.
LEMMA NobodyErased ==
    ASSUME OrderedTransport, ServerApart, IInv, NEW c \in Clients, NEW i,
           OnDisembodyOther(c, i)
    PROVE  UNCHANGED roleEndpointMap
<1>1. i = 1 /\ toClient[c] # <<>> /\ toClient[c] \in Seq(MailToClient(c))
  BY ClientTakes DEF OnDisembodyOther, AliveReceives, ReceiveAtClient
<1>2. PICK m \in MailToClient(c) : m = toClient[c][i]
  BY <1>1, TakesFirst
<1>3. m.type = "Disembody" /\ m.endpoint # LocalEndpoint[c]
  BY <1>2 DEF OnDisembodyOther, AliveReceives
<1>4. \E d \in Peers(c) : m = Disembody(DataEndpoint(d))
  BY <1>3 DEF MailToClient, RoleGraphRequest, RolesComplete, AddRoleConnection, Embody,
              Announce, Disembody
<1>5. PICK d \in Clients : m.endpoint = DataEndpoint(d)
  BY <1>4 DEF Disembody, Peers
<1>6. ServerEndpoint # m.endpoint
  BY <1>5 DEF ServerApart
<1>7. roleEndpointMap \in [Clients -> [Roles -> Seq(Endpoints)]]
  BY DEF IInv, ClientTypeOK
<1>8. roleEndpointMap' = [roleEndpointMap EXCEPT ![c] =
            [r \in Roles |-> EraseEndpoint(@[r], ServerEndpoint, m.endpoint)]]
  BY <1>2 DEF OnDisembodyOther
<1>9. [r \in Roles |-> EraseEndpoint(roleEndpointMap[c][r], ServerEndpoint, m.endpoint)]
        = roleEndpointMap[c]
  BY <1>6, <1>7 DEF EraseEndpoint
<1>. QED  BY <1>7, <1>8, <1>9

LEMMA ForgottenMet ==
    ASSUME OrderedTransport, ServerApart, IInv, IInv', MetInv, NEW c \in Clients,
           UNCHANGED serverVars, NEW i, OnDisembodyOther(c, i)
    PROVE  MetInv'
<1>1. /\ i = 1 /\ toClient[c] # <<>> /\ toClient[c][1].type = "Disembody"
      /\ toClient'[c] = Tail(toClient[c]) /\ UNCHANGED toServer
      /\ \A d \in Clients \ {c} : toClient'[d] = toClient[d]
  BY ClientReceives DEF OnDisembodyOther, AliveReceives
<1>2. UNCHANGED roleEndpointMap
  BY NobodyErased
<1>3. UNCHANGED <<pc, participants>>
  BY DEF OnDisembodyOther, serverVars
<1>4. Later(c)
  BY <1>1, <1>3 DEF Later, Fresh, Listed
<1>. QED  BY <1>1, <1>2, <1>3, <1>4, TakenMet

\* The neighbour a client is told of goes into the list of its role.
LEMMA NeighbourEntered ==
    ASSUME OrderedTransport, IInv, NEW c \in Clients, NEW i,
           OnNeighbour(c, i, "Embody") \/ OnNeighbour(c, i, "Announce")
    PROVE  \E e \in Peers(c) :
            /\ toClient[c][1] \in Hello(e)
            /\ \A d \in Clients \ {c} : roleEndpointMap'[d] = roleEndpointMap[d]
            /\ \A r \in Roles : roleEndpointMap'[c][r] =
                    IF r = RoleOf[e] THEN Append(roleEndpointMap[c][r], DataEndpoint(e))
                    ELSE roleEndpointMap[c][r]
<1>1. /\ i = 1 /\ toClient[c] # <<>> /\ toClient[c] \in Seq(MailToClient(c))
      /\ toClient[c] \in Seq(Messages)
  BY ClientTakes DEF OnNeighbour, AliveReceives, ReceiveAtClient
<1>2. PICK m \in MailToClient(c) : m = toClient[c][1] /\ m = toClient[c][i] /\ m \in Messages
  BY <1>1, TakesFirst
<1>3. m.type \in {"Embody", "Announce"}
  BY <1>2 DEF OnNeighbour, AliveReceives
<1>4. PICK e \in Peers(c) : m = Embody(DataEndpoint(e), RoleOf[e]) \/ m = Announce(DataEndpoint(e), RoleOf[e])
  BY <1>3 DEF MailToClient, RoleGraphRequest, RolesComplete, AddRoleConnection, Disembody
<1>5. m.endpoint = DataEndpoint(e) /\ m.roleId = RoleOf[e]
  BY <1>4 DEF Embody, Announce
<1>6. roleEndpointMap' = [roleEndpointMap EXCEPT ![c] = PushBack(roleEndpointMap[c], m)]
  BY <1>2 DEF OnNeighbour
<1>7. m \in Hello(e)
  BY <1>2, <1>3, <1>5 DEF Hello
<1>8. roleEndpointMap \in [Clients -> [Roles -> Seq(Endpoints)]]
  BY DEF IInv, ClientTypeOK
<1>9. PICK map : map = roleEndpointMap[c] /\ DOMAIN map = Roles
  BY <1>8
<1>10. \A r \in Roles : PushBack(map, m)[r] =
            IF r = RoleOf[e] THEN Append(map[r], DataEndpoint(e)) ELSE map[r]
  BY <1>5, <1>9 DEF PushBack
<1>11. \A d \in Clients \ {c} : roleEndpointMap'[d] = roleEndpointMap[d]
  BY <1>6, <1>8
<1>12. roleEndpointMap'[c] = PushBack(map, m)
  BY <1>6, <1>8, <1>9
<1>. QED  BY <1>2, <1>7, <1>9, <1>10, <1>11, <1>12

LEMMA EnteredMet ==
    ASSUME OrderedTransport, DistinctEndpoints, IInv, IInv', MetInv, NEW c \in Clients,
           UNCHANGED serverVars, NEW i,
           OnNeighbour(c, i, "Embody") \/ OnNeighbour(c, i, "Announce")
    PROVE  MetInv'
<1>1. /\ i = 1 /\ toClient[c] # <<>>
      /\ toClient'[c] = Tail(toClient[c]) /\ UNCHANGED toServer
      /\ \A d \in Clients \ {c} : toClient'[d] = toClient[d]
  BY ClientReceives DEF OnNeighbour, AliveReceives
<1>2. PICK e \in Clients :
        /\ toClient[c][1] \in Hello(e)
        /\ \A d \in Clients \ {c} : roleEndpointMap'[d] = roleEndpointMap[d]
        /\ \A r \in Roles : roleEndpointMap'[c][r] =
                IF r = RoleOf[e] THEN Append(roleEndpointMap[c][r], DataEndpoint(e))
                ELSE roleEndpointMap[c][r]
  BY NeighbourEntered DEF Peers
<1>3. UNCHANGED <<pc, participants>>
  BY DEF OnNeighbour, serverVars
<1>4. Later(c)
  BY <1>1, <1>3 DEF Later, Fresh, Listed
<1>5. ASSUME NEW d \in Clients
      PROVE  Told(c, d)' = Told(c, d)
  <2>1. toClient[c][1] \in Hello(d) <=> DataEndpoint(e) = DataEndpoint(d)
    BY <1>2 DEF Hello
  <2>2. DataEndpoint(e) \in Endpoints /\ RoleOf[d] \in Roles
    BY DataEndpointType, RoleAssumption
  <2>3. CASE RoleOf[d] = RoleOf[e]
    <3>1. roleEndpointMap'[c][RoleOf[d]] = Append(roleEndpointMap[c][RoleOf[d]], DataEndpoint(e))
      BY <1>2, <2>2, <2>3
    <3>. QED  BY <1>1, <2>1, <2>2, <3>1, TakesMessage
  <2>4. CASE RoleOf[d] # RoleOf[e]
    <3>1. roleEndpointMap'[c][RoleOf[d]] = roleEndpointMap[c][RoleOf[d]]
      BY <1>2, <2>2, <2>4
    <3>2. toClient[c][1] \notin Hello(d)
      BY <2>1, <2>4 DEF DistinctEndpoints
    <3>. QED  BY <1>1, <3>1, <3>2, TakesMessage
  <2>. QED  BY <2>3, <2>4
<1>. QED  BY <1>1, <1>2, <1>3, <1>4, <1>5, ClientMet

-----------------------------------------------------------------------------
(* The introduction of a new participant *)

\* The visits of executeOnNeighbor for client c that reach client d.
VisitsOf(c, d) ==
    {visit \in Visits(RoleOf[c]) : participants[visit[3]].managerEndpoint = d}

\* A client whose Embody the server has handled is in the map.
LEMMA ListedNotFresh == \A d \in Clients : Phase(d) /\ Listed(d) => ~Fresh(d)
<1>. SUFFICES ASSUME NEW c \in Clients, Phase(c), Listed(c)
              PROVE  ~Fresh(c)
  OBVIOUS
<1>1. pc[c] \notin {"new", "context"}
  BY DEF Phase, Participating
<1>2. toServer[c] = <<>> \/ toServer[c] = <<Disembody(LocalEndpoint[c])>>
  BY DEF Phase, Participating
<1>3. ASSUME NEW k \in DOMAIN toServer[c]
      PROVE  toServer[c][k].type # "Embody"
  <2>1. CASE toServer[c] = <<>>
    BY <2>1
  <2>2. CASE toServer[c] = <<Disembody(LocalEndpoint[c])>>
    <3>1. toServer[c][k] = Disembody(LocalEndpoint[c])
      BY <2>2
    <3>. QED  BY <3>1 DEF Disembody
  <2>. QED  BY <1>2, <2>1, <2>2
<1>. QED  BY <1>1, <1>3 DEF Fresh

LEMMA ListedNotFreshPrimed == (\A d \in Clients : Phase(d) /\ Listed(d) => ~Fresh(d))'
BY ListedNotFresh, PTL

\* Client d is visited once per edge between the two roles, if it is in the map.
LEMMA VisitsCount ==
    ASSUME DistinctEndpoints, NoLoops, IInv, ServerPhase, state = "ContextInitialised",
           NEW c \in Clients, NEW d \in Clients
    PROVE  /\ IsFiniteSet(VisitsOf(c, d))
           /\ Listed(d) => Cardinality(VisitsOf(c, d)) = LinkCount(c, d)
           /\ ~Listed(d) => VisitsOf(c, d) = {}
<1>1. IsFiniteSet(VisitsOf(c, d))
  <2>1. IsFiniteSet(Visits(RoleOf[c])) /\ VisitsOf(c, d) \subseteq Visits(RoleOf[c])
    BY VisitsFinite DEF VisitsOf, IInv
  <2>. QED  BY <2>1, FS_Subset
<1>2. \A visit \in VisitsOf(c, d) : visit[3] = LocalEndpoint[d] /\ Listed(d)
  BY VisitsListed DEF VisitsOf
<1>3. ASSUME Listed(d)
      PROVE  Cardinality(VisitsOf(c, d)) = LinkCount(c, d)
  <2>. DEFINE f == [visit \in VisitsOf(c, d) |-> visit[2]]
  <2>1. /\ roleGraphConnections = RoleGraph
        /\ participants[LocalEndpoint[d]].managerEndpoint = d
        /\ participants[LocalEndpoint[d]].roleId = RoleOf[d]
        /\ LocalEndpoint[d] \in DOMAIN participants
    BY <1>3, ListedParticipant DEF ServerPhase, Listed
  <2>2. ASSUME NEW visit \in VisitsOf(c, d)
        PROVE  /\ visit[2] \in DOMAIN RoleGraph /\ visit[1] \in {1, 2}
               /\ visit = <<visit[1], visit[2], LocalEndpoint[d]>>
               /\ RoleGraph[visit[2]][visit[1]] = RoleOf[c]
               /\ RoleGraph[visit[2]][3 - visit[1]] = RoleOf[d]
    BY <1>2, <2>1 DEF VisitsOf, Visits
  <2>3. \A i \in DOMAIN RoleGraph : RoleGraph[i] = <<RoleGraph[i][1], RoleGraph[i][2]>>
    BY RoleGraphEdges DEF Edges
  <2>4. ASSUME NEW visit \in VisitsOf(c, d)
        PROVE  /\ visit[1] = 1 => RoleGraph[visit[2]] = <<RoleOf[c], RoleOf[d]>>
               /\ visit[1] = 2 => RoleGraph[visit[2]] = <<RoleOf[d], RoleOf[c]>>
    BY <2>2, <2>3
  <2>5. ASSUME NEW v \in VisitsOf(c, d), NEW w \in VisitsOf(c, d), v[2] = w[2]
        PROVE  v = w
    <3>1. v[1] = w[1]
      <4>1. ASSUME v[1] # w[1]
            PROVE  FALSE
        <5>1. RoleGraph[v[2]] = <<RoleOf[c], RoleOf[d]>> /\ RoleGraph[v[2]] = <<RoleOf[d], RoleOf[c]>>
          BY <2>2, <2>4, <2>5, <4>1
        <5>2. RoleGraph[v[2]] = <<RoleOf[c], RoleOf[c]>>
          BY <5>1
        <5>. QED  BY <2>2, <5>2 DEF NoLoops, Neighbours, Adjacent
      <4>. QED  BY <4>1
    <3>2. v = <<v[1], v[2], LocalEndpoint[d]>> /\ w = <<w[1], w[2], LocalEndpoint[d]>>
      BY <2>2
    <3>. QED  BY <2>5, <3>1, <3>2
  <2>6. f \in [VisitsOf(c, d) -> LinksBetween(c, d)]
    BY <2>2, <2>4 DEF LinksBetween
  <2>7. ASSUME NEW i \in LinksBetween(c, d)
        PROVE  \E visit \in VisitsOf(c, d) : visit[2] = i
    <3>1. i \in DOMAIN RoleGraph
      BY DEF LinksBetween
    <3>2. CASE RoleGraph[i] = <<RoleOf[c], RoleOf[d]>>
      <4>1. <<1, i, LocalEndpoint[d]>> \in VisitsOf(c, d)
        BY <2>1, <3>1, <3>2 DEF VisitsOf, Visits
      <4>. QED  BY <4>1
    <3>3. CASE RoleGraph[i] = <<RoleOf[d], RoleOf[c]>>
      <4>1. <<2, i, LocalEndpoint[d]>> \in VisitsOf(c, d)
        BY <2>1, <3>1, <3>3 DEF VisitsOf, Visits
      <4>. QED  BY <4>1
    <3>. QED  BY <3>2, <3>3 DEF LinksBetween
  <2>8. /\ \A v, w \in VisitsOf(c, d) : f[v] = f[w] => v = w
        /\ \A i \in LinksBetween(c, d) : \E visit \in VisitsOf(c, d) : f[visit] = i
    BY <2>5, <2>7
  <2>. HIDE DEF f
  <2>. QED  BY <1>1, <2>6, <2>8, SameSize DEF LinkCount
<1>. QED  BY <1>1, <1>2, <1>3

\* The links between two clients are those of the other.
LEMMA LinksBothWays ==
    ASSUME NEW c \in Clients, NEW d \in Clients
    PROVE  LinkCount(c, d) = LinkCount(d, c) /\ LinkCount(c, d) \in Nat
<1>1. LinksBetween(c, d) = LinksBetween(d, c)
  BY DEF LinksBetween
<1>2. IsFiniteSet(LinksBetween(c, d))
  <2>1. Len(RoleGraph) \in Nat /\ DOMAIN RoleGraph = 1 .. Len(RoleGraph)
    BY RoleAssumption, LenProperties
  <2>2. IsFiniteSet(DOMAIN RoleGraph) /\ LinksBetween(c, d) \subseteq DOMAIN RoleGraph
    BY <2>1, FS_Interval DEF LinksBetween
  <2>. QED  BY <2>2, FS_Subset
<1>. QED  BY <1>1, <1>2, FS_CardinalityType DEF LinkCount

\* The copies of a message client d is sent, by the message's introducing client e or not.
LEMMA CopiesCount ==
    ASSUME IInv, NEW c \in Clients, NEW d \in Clients, NEW e \in Clients, NEW m \in Messages
    PROVE  /\ CopiesFor(d, RoleOf[c], m) \in Seq(Messages)
           /\ Cnt(CopiesFor(d, RoleOf[c], m), Hello(e)) =
                IF m \in Hello(e) THEN Cardinality(VisitsOf(c, d)) ELSE 0
<1>1. Cardinality(VisitsOf(c, d)) \in Nat
  <2>1. IsFiniteSet(Visits(RoleOf[c])) /\ VisitsOf(c, d) \subseteq Visits(RoleOf[c])
    BY VisitsFinite DEF VisitsOf, IInv
  <2>. QED  BY <2>1, FS_Subset, FS_CardinalityType
<1>2. PICK n \in Nat : n = Cardinality(VisitsOf(c, d))
  BY <1>1
<1>3. PICK ms : ms = [i \in 1 .. n |-> m] /\ ms = CopiesFor(d, RoleOf[c], m)
  BY <1>2 DEF CopiesFor, VisitsOf
<1>4. ms \in Seq(Messages) /\ Len(ms) = n /\ \A k \in 1 .. n : ms[k] = m
  BY <1>3, IsASeq
<1>5. CASE m \in Hello(e)
  BY <1>2, <1>3, <1>4, <1>5, CntAll
<1>6. CASE m \notin Hello(e)
  BY <1>2, <1>3, <1>4, <1>6, CntNone
<1>. QED  BY <1>3, <1>4, <1>5, <1>6

\* The announcements to client c that tell of client d.
LEMMA AnnouncementsCount ==
    ASSUME DistinctEndpoints, IInv, ServerPhase, NEW c \in Clients, NEW d \in Clients,
           NEW calls \in CallOrders(RoleOf[c])
    PROVE  /\ Announcements(calls) \in Seq(Messages)
           /\ Cnt(Announcements(calls), Hello(d)) = Cardinality(VisitsOf(c, d))
<1>. DEFINE V == Visits(RoleOf[c])
            n == Cardinality(V)
            told == {i \in 1 .. n : calls[i] \in VisitsOf(c, d)}
            f == [i \in told |-> calls[i]]
<1>1. IsFiniteSet(V) /\ n \in Nat
  BY VisitsFinite DEF IInv
<1>2. calls \in [1 .. n -> V] /\ \A i, j \in 1 .. n : calls[i] = calls[j] => i = j
  BY DEF CallOrders, SetToSeqs
<1>3. \A visit \in V : \E i \in 1 .. n : calls[i] = visit
  <2>1. calls \in Injection(1 .. n, V)
    BY <1>2 DEF Injection, IsInjective
  <2>2. Cardinality(1 .. n) = n
    <3>1. PICK l \in Nat : l = n
      BY <1>1
    <3>2. Cardinality(1 .. l) = IF 1 > l THEN 0 ELSE l - 1 + 1
      BY FS_Interval
    <3>3. Cardinality(1 .. l) = l
      BY <3>2
    <3>. QED  BY <3>1, <3>3
  <2>3. calls \in Surjection(1 .. n, V)
    BY <1>1, <2>1, <2>2, FS_Injection
  <2>. QED  BY <2>3 DEF Surjection
<1>4. Announcements(calls) = [i \in 1 .. n |->
        Announce(participants[calls[i][3]].dataEndpoint, participants[calls[i][3]].roleId)]
  BY <1>2 DEF Announcements
<1>. HIDE DEF n
<1>5. ASSUME NEW i \in 1 .. n
      PROVE  /\ Announcements(calls)[i] \in Messages
             /\ Announcements(calls)[i] \in Hello(d) <=> calls[i] \in VisitsOf(c, d)
  <2>1. PICK visit \in V : visit = calls[i]
    BY <1>2
  <2>2. PICK e \in Clients :
            /\ participants[visit[3]].managerEndpoint = e
            /\ participants[visit[3]].dataEndpoint = DataEndpoint(e)
            /\ participants[visit[3]].roleId \in Roles
    <3>1. visit[3] \in DOMAIN participants
      BY DEF Visits
    <3>. QED  BY <3>1, VisitsListed DEF Peers, IInv, ServerTypeOK, Participants
  <2>3. Announcements(calls)[i] = Announce(DataEndpoint(e), participants[visit[3]].roleId)
    BY <1>4, <2>1, <2>2
  <2>4. PICK m : m = Announcements(calls)[i]
    OBVIOUS
  <2>5. m \in Messages /\ m.type = "Announce" /\ m.endpoint = DataEndpoint(e)
    BY <2>2, <2>3, <2>4, DataEndpointType DEF Announce, Messages
  <2>6. m \in Hello(d) <=> e = d
    BY <2>5 DEF Hello, DistinctEndpoints
  <2>7. calls[i] \in VisitsOf(c, d) <=> e = d
    BY <2>1, <2>2 DEF VisitsOf
  <2>. QED  BY <2>4, <2>5, <2>6, <2>7
<1>6. PICK ms : ms = Announcements(calls)
  OBVIOUS
<1>7. DOMAIN ms = 1 .. n /\ ms \in Seq(Messages)
  <2>1. ms \in [1 .. n -> Messages]
    BY <1>4, <1>5, <1>6
  <2>. QED  BY <1>1, <2>1 DEF n
<1>8. Where(ms, Hello(d)) = told
  BY <1>5, <1>6, <1>7 DEF Where
<1>9. Cardinality(told) = Cardinality(VisitsOf(c, d))
  <2>1. IsFiniteSet(told)
    <3>1. IsFiniteSet(1 .. n) /\ told \subseteq 1 .. n
      <4>1. n \in Nat
        BY <1>1 DEF n
      <4>. QED  BY <4>1, FS_Interval
    <3>. QED  BY <3>1, FS_Subset
  <2>2. f \in [told -> VisitsOf(c, d)]
    OBVIOUS
  <2>3. \A i, j \in told : f[i] = f[j] => i = j
    BY <1>2 DEF n
  <2>4. \A visit \in VisitsOf(c, d) : \E i \in told : f[i] = visit
    <3>1. VisitsOf(c, d) \subseteq V
      BY DEF VisitsOf
    <3>. QED  BY <1>3, <3>1 DEF n
  <2>. HIDE DEF told, f
  <2>. QED  BY <2>1, <2>2, <2>3, <2>4, SameSize
<1>. HIDE DEF told
<1>. QED  BY <1>6, <1>7, <1>8, <1>9 DEF Cnt

LEMMA EmbodyMet ==
    ASSUME OrderedTransport, DistinctEndpoints, NoLoops,
           IInv, IInv', ServerPhase, \A d \in Clients : Phase(d), \A d \in Clients : Phase(d)',
           MetInv, NEW c \in Clients, UNCHANGED clientVars, NEW i, OnEmbody(c, i)
    PROVE  MetInv'
<1>. DEFINE embody == Embody(DataEndpoint(c), RoleOf[c])
<1>1. /\ ~Listed(c) /\ Embodying(c)
      /\ \A d \in Senders \ {c} : toServer'[d] = toServer[d]
      /\ participants' = SetParticipant(LocalEndpoint[c],
            [dataEndpoint |-> DataEndpoint(c), managerEndpoint |-> c, roleId |-> RoleOf[c]])
      /\ \A d \in Clients \ {c} : toClient'[d] = toClient[d] \o CopiesFor(d, RoleOf[c], embody)
  BY EmbodyFacts
<1>2. PICK calls \in CallOrders(RoleOf[c]) : toClient'[c] = Announcements(calls)
  BY EmbodyFacts
<1>3. state = "ContextInitialised" /\ toClient[c] = <<>> /\ Fresh(c)
  <2>1. \/ toServer[c] = <<Embody(LocalEndpoint[c], RoleOf[c])>>
        \/ toServer[c] = <<Embody(LocalEndpoint[c], RoleOf[c]), Disembody(LocalEndpoint[c])>>
    BY <1>1 DEF Embodying
  <2>2. 1 \in DOMAIN toServer[c] /\ toServer[c][1] = Embody(LocalEndpoint[c], RoleOf[c])
    BY <2>1
  <2>. QED  BY <1>1, <2>2 DEF Embodying, Fresh, Embody
<1>4. DOMAIN participants' = DOMAIN participants \cup {LocalEndpoint[c]}
  BY <1>1 DEF SetParticipant
<1>5. Listed(c)' /\ \A d \in Clients \ {c} : Listed(d)' <=> Listed(d)
  BY <1>4 DEF Listed, DistinctEndpoints
<1>6. ~Fresh(c)'
  BY <1>5, ListedNotFreshPrimed
<1>7. \A d \in Clients \ {c} : Fresh(d)' <=> Fresh(d)
  <2>1. \A d \in Clients \ {c} : toServer'[d] = toServer[d] /\ pc'[d] = pc[d]
    BY <1>1 DEF Senders, clientVars
  <2>. QED  BY <2>1 DEF Fresh
<1>8. ASSUME NEW d \in Clients, NEW e \in Clients
      PROVE  /\ LinkCount(d, e)' = LinkCount(d, e)
             /\ Told(d, e) = Entered(d, e) + Coming(d, e)
             /\ Told(d, e)' = Entered(d, e) + Cnt(toClient'[d], Hello(e))
             /\ Entered(d, e) \in Nat /\ Coming(d, e) \in Nat
  <2>1. LinkCount(d, e)' = LinkCount(d, e)
    BY DEF LinkCount, LinksBetween
  <2>2. Hello(e)' = Hello(e) /\ DataEndpoint(e)' = DataEndpoint(e)
    BY DEF Hello, DataEndpoint
  <2>3. Entered(d, e)' = Entered(d, e)
    BY <2>2 DEF Entered, Cnt, Where, clientVars
  <2>4. Coming(d, e)' = Cnt(toClient'[d], Hello(e))
    BY <2>2 DEF Coming, Cnt, Where
  <2>. QED  BY <2>1, <2>3, <2>4, ToldCounts, ToldCountsPrimed
<1>9. embody \in Messages /\ embody.endpoint = DataEndpoint(c) /\ embody.type = "Embody"
  BY DataEndpointType, RoleAssumption DEF Embody, Messages
<1>10. ASSUME NEW d \in Clients, d # c
       PROVE  /\ Told(c, d)' = Cardinality(VisitsOf(c, d))
              /\ Told(d, c)' = Cardinality(VisitsOf(c, d))
  <2>1. Told(c, d) = 0 /\ Told(d, c) = 0
    BY <1>3, <1>10 DEF MetInv, Met
  <2>2. Entered(c, d) = 0 /\ Entered(d, c) = 0 /\ Coming(d, c) = 0
    BY <1>8, <2>1
  <2>3. Cnt(toClient'[c], Hello(d)) = Cardinality(VisitsOf(c, d))
    BY <1>2, AnnouncementsCount
  <2>4. PICK n \in Nat : n = Cardinality(VisitsOf(c, d))
    BY <1>3, VisitsCount, FS_CardinalityType
  <2>5. Cnt(toClient'[d], Hello(c)) = n
    <3>1. embody \in Hello(c)
      BY <1>9 DEF Hello
    <3>2. PICK ms : ms = CopiesFor(d, RoleOf[c], embody)
      OBVIOUS
    <3>3. ms \in Seq(Messages) /\ Cnt(ms, Hello(c)) = n
      BY <1>9, <2>4, <3>1, <3>2, CopiesCount
    <3>4. toClient[d] \in Seq(Messages) /\ Cnt(toClient[d], Hello(c)) = 0
      BY <2>2 DEF Coming, IInv, NetworkTypeOK
    <3>5. Cnt(toClient[d] \o ms, Hello(c)) = Cnt(toClient[d], Hello(c)) + Cnt(ms, Hello(c))
      BY <3>3, <3>4, CntConcat
    <3>6. toClient'[d] = toClient[d] \o ms
      BY <1>1, <1>10, <3>2
    <3>. QED  BY <3>3, <3>4, <3>5, <3>6
  <2>. QED  BY <1>8, <2>2, <2>3, <2>4, <2>5
<1>11. ASSUME NEW d \in Clients, d # c
       PROVE  Met(c, d)' /\ Met(d, c)'
  <2>1. CASE Listed(d)
    <3>1. Told(c, d)' = LinkCount(c, d) /\ Told(d, c)' = LinkCount(c, d)
      BY <1>3, <1>10, <1>11, <2>1, VisitsCount
    <3>2. ~Fresh(d)
      BY <2>1, ListedNotFresh
    <3>3. LinkCount(c, d)' = LinkCount(c, d) /\ LinkCount(d, c)' = LinkCount(c, d) /\ LinkCount(c, d) \in Nat
      BY <1>8, LinksBothWays
    <3>. QED  BY <1>6, <1>7, <1>11, <3>1, <3>2, <3>3 DEF Met
  <2>2. CASE ~Listed(d)
    <3>1. Told(c, d)' = 0 /\ Told(d, c)' = 0
      BY <1>3, <1>10, <1>11, <2>2, VisitsCount, FS_EmptySet
    <3>2. LinkCount(c, d)' \in Nat /\ LinkCount(d, c)' \in Nat
      BY <1>8, LinksBothWays
    <3>3. ~Listed(d)'
      BY <1>5, <1>11, <2>2
    <3>. QED  BY <3>1, <3>2, <3>3 DEF Met
  <2>. QED  BY <2>1, <2>2
<1>12. ASSUME NEW d \in Clients \ {c}, NEW e \in Clients \ {c}, d # e
       PROVE  Met(d, e)'
  <2>1. embody \notin Hello(e)
    BY <1>9 DEF Hello, DistinctEndpoints
  <2>2. PICK ms : ms = CopiesFor(d, RoleOf[c], embody)
    OBVIOUS
  <2>3. ms \in Seq(Messages) /\ Cnt(ms, Hello(e)) = 0
    BY <1>9, <2>1, <2>2, CopiesCount
  <2>4. toClient[d] \in Seq(Messages) /\ toClient'[d] = toClient[d] \o ms
    BY <1>1, <2>2 DEF IInv, NetworkTypeOK
  <2>5. Cnt(toClient'[d], Hello(e)) = Coming(d, e)
    <3>1. Cnt(toClient[d] \o ms, Hello(e)) = Cnt(toClient[d], Hello(e)) + Cnt(ms, Hello(e))
      BY <2>3, <2>4, CntConcat
    <3>2. Coming(d, e) \in Nat
      BY <1>8
    <3>. QED  BY <2>3, <2>4, <3>1, <3>2 DEF Coming
  <2>6. Told(d, e)' = Told(d, e)
    BY <1>8, <2>5
  <2>7. Later(d) /\ Later(e)
    BY <1>5, <1>7 DEF Later
  <2>8. Met(d, e)
    BY <1>12 DEF MetInv
  <2>. QED  BY <2>6, <2>7, <2>8, MetStays
<1>. QED  BY <1>11, <1>12 DEF MetInv

-----------------------------------------------------------------------------
(* Every step *)

LEMMA InitMet == Init => MetInv
<1>. SUFFICES ASSUME Init, NEW c \in Clients, NEW d \in Clients
              PROVE  Met(c, d)
  BY DEF MetInv
<1>1. /\ toClient[c] = <<>> /\ roleEndpointMap[c][RoleOf[d]] = <<>>
      /\ DOMAIN participants = {}
  BY RoleAssumption DEF Init, NetworkInit, ServerInit, ClientInit
<1>2. Entries(c, d) = {} /\ Arriving(c, d, {"Embody", "Announce"}) = {}
  <2>1. DOMAIN toClient[c] = {} /\ DOMAIN roleEndpointMap[c][RoleOf[d]] = {}
    BY <1>1
  <2>. QED  BY <2>1 DEF Entries, Arriving
<1>3. Told(c, d) = 0
  BY <1>2, FS_EmptySet DEF Told
<1>4. LinkCount(c, d) \in Nat
  BY LinksBothWays
<1>. QED  BY <1>1, <1>3, <1>4 DEF Met, Listed

LEMMA StepMet ==
    ASSUME OrderedTransport, DistinctEndpoints, NoLoops, ServerApart,
           OrderedInv, MetInv, [Next]_vars
    PROVE  MetInv'
<1>1. /\ IInv /\ ServerPhase /\ \A d \in Clients : Phase(d)
  BY DEF OrderedInv
<1>2. /\ IInv' /\ \A d \in Clients : Phase(d)'
  BY StepOrdered DEF OrderedInv
<1>3. CASE ServerStep
  <2>1. UNCHANGED clientVars
    BY <1>3 DEF ServerStep
  <2>2. CASE ServerCloses
    BY <1>1, <2>1, <2>2, ServerEndMet
  <2>3. ASSUME NEW c \in Clients, ServerHandles(c)
        PROVE  MetInv'
    <3>1. PICK i \in Arrived(toServer[c]) :
                \/ OnFirstRegister(c, i) \/ OnQueuedRegister(c, i) \/ OnLateRegister(c, i)
                \/ OnAddRoleConnection(c, i) \/ OnRolesComplete(c, i)
                \/ OnEmbody(c, i) \/ OnDisembody(c, i) \/ OnDisembodyUnknown(c, i)
      BY <2>3 DEF ServerHandles
    <3>2. CASE OnFirstRegister(c, i) \/ OnQueuedRegister(c, i) \/ OnLateRegister(c, i)
      BY <1>1, <1>2, <2>1, <3>2, RegisterMet
    <3>3. CASE OnAddRoleConnection(c, i)
      BY <1>1, <1>2, <2>1, <3>3, AddRoleConnectionMet
    <3>4. CASE OnRolesComplete(c, i)
      BY <1>1, <1>2, <2>1, <3>4, RolesCompleteMet
    <3>5. CASE OnEmbody(c, i)
      BY <1>1, <1>2, <2>1, <3>5, EmbodyMet
    <3>6. CASE OnDisembody(c, i)
      BY <1>1, <1>2, <2>1, <3>6, DisembodyMet
    <3>7. CASE OnDisembodyUnknown(c, i)
      BY <1>1, <3>7, DisembodyUnknownNever
    <3>. QED  BY <3>1, <3>2, <3>3, <3>4, <3>5, <3>6, <3>7
  <2>. QED  BY <1>3, <2>2, <2>3 DEF ServerStep
<1>4. CASE ServerCalled
  BY <1>1, <1>4, ServerEndMet DEF ServerCalled
<1>5. ASSUME NEW c \in Clients, ClientStep(c)
      PROVE  MetInv'
  <2>1. UNCHANGED serverVars
    BY <1>5 DEF ClientStep
  <2>2. CASE Joined(c)
    BY <1>1, <1>2, <2>1, <2>2, CalledMet
  <2>3. CASE ClientHandles(c)
    <3>1. PICK i \in Arrived(toClient[c]) :
                \/ OnRoleGraphRequest(c, i) \/ OnAddRoleConnectionAck(c, i)
                \/ OnContextReady(c, i) \/ OnDisembodyAck(c, i) \/ OnUnhandled(c, i)
                \/ OnDisembodyOther(c, i)
                \/ OnNeighbour(c, i, "Embody") \/ OnNeighbour(c, i, "Announce")
      BY <2>3 DEF ClientHandles, OnEmbodyNeighbour, OnAnnounce
    <3>2. CASE OnRoleGraphRequest(c, i) \/ OnAddRoleConnectionAck(c, i) \/ OnContextReady(c, i)
      BY <1>1, <1>2, <2>1, <3>2, ContextMet
    <3>3. CASE OnDisembodyAck(c, i)
      BY <1>1, <1>2, <2>1, <3>3, DismissedMet
    <3>4. CASE OnUnhandled(c, i)
      BY <1>1, <3>4, UnhandledNever
    <3>5. CASE OnDisembodyOther(c, i)
      BY <1>1, <1>2, <2>1, <3>5, ForgottenMet
    <3>6. CASE OnNeighbour(c, i, "Embody") \/ OnNeighbour(c, i, "Announce")
      BY <1>1, <1>2, <2>1, <3>6, EnteredMet
    <3>. QED  BY <3>1, <3>2, <3>3, <3>4, <3>5, <3>6
  <2>. QED  BY <1>5, <2>2, <2>3 DEF ClientStep
<1>6. ASSUME NEW c \in Clients, UserCalls(c) \/ Crashes(c)
      PROVE  MetInv'
  <2>1. UNCHANGED serverVars /\ (Construct(c) \/ Stop(c) \/ Crash(c))
    BY <1>6 DEF UserCalls, ClientCalled, Crashes
  <2>. QED  BY <1>1, <1>2, <2>1, CalledMet
<1>7. ASSUME NEW c \in Clients, Loses(c)
      PROVE  FALSE
  BY <1>7 DEF Loses, LosesMessage, OrderedTransport
<1>8. CASE UNCHANGED vars
  <2>1. UNCHANGED <<toServer, toClient, participants, pc, roleEndpointMap>>
    BY <1>8 DEF vars, networkVars, serverVars, clientVars
  <2>2. ASSUME NEW d \in Clients
        PROVE  Later(d)
    BY <2>1 DEF Later, Fresh, Listed
  <2>3. ASSUME NEW d \in Clients, NEW e \in Clients
        PROVE  Told(d, e)' = Told(d, e)
    BY <2>1 DEF Told, Entries, Arriving, DataEndpoint
  <2>. QED  BY <2>2, <2>3, MetStays DEF MetInv
<1>. QED  BY <1>3, <1>4, <1>5, <1>6, <1>7, <1>8 DEF Next

\* Two clients of neighbouring roles that the server knows have each been told of the
\* other once per edge between the roles, and never oftener: of the Announce to the newer
\* and the Embody to the older one (CracenServer.hpp:164-195) neither is missing and
\* none is sent twice, whoever embodies first, leaves or crashes.
THEOREM NeighboursAlwaysTold ==
    ASSUME OrderedTransport, DistinctEndpoints, NoLoops, ServerApart
    PROVE  Spec => []NeighboursTold
<1>1. Init => OrderedInv /\ MetInv
  BY InitOrdered, InitMet
<1>2. OrderedInv /\ MetInv /\ [Next]_vars => (OrderedInv /\ MetInv)'
  BY StepOrdered, StepMet
<1>3. OrderedInv /\ MetInv => NeighboursTold
  <2>. SUFFICES ASSUME OrderedInv, MetInv, NEW c \in Clients, NEW d \in Clients, c # d
                PROVE  /\ Told(c, d) <= LinkCount(c, d)
                       /\ Embodied(c) /\ Embodied(d) => Told(c, d) = LinkCount(c, d)
    BY DEF NeighboursTold, LinkCount
  <2>1. ASSUME NEW e \in Clients, Embodied(e)
        PROVE  Listed(e)
    <3>1. pc[e] = "running" /\ Phase(e)
      BY <2>1 DEF Embodied, OrderedInv
    <3>2. ~Embodying(e)
      <4>1. ASSUME Embodying(e)
            PROVE  1 \in DOMAIN toServer[e] /\ toServer[e][1].type = "Embody"
        BY <4>1 DEF Embodying, Embody
      <4>. QED  BY <2>1, <4>1 DEF Embodied
    <3>. QED  BY <3>1, <3>2 DEF Phase, Outside, Registering, Waiting, Asked, Supplying,
                                 Released, Dismissed, Departed
  <2>2. Met(c, d)
    BY DEF MetInv
  <2>. QED  BY <2>1, <2>2 DEF Met
<1>. QED  BY <1>1, <1>2, <1>3, PTL DEF Spec

-----------------------------------------------------------------------------
(* Refinement: what a context promises its programs *)

\* The clients behind a list of endpoints, what client c knows, and the two variables
\* of Membership.
Owners(s) == [k \in DOMAIN s |-> OwnerOf(s[k])]
Known(c) == [r \in Roles |-> Owners(roleEndpointMap[c][r])]
Stati == [c \in Clients |-> Status(c)]
Knows == [c \in Clients |-> Known(c)]

LEMMA OwnerFound ==
    ASSUME DistinctEndpoints, NEW d \in Clients
    PROVE  OwnerOf(DataEndpoint(d)) = d
<1>1. \A c \in Clients : DataEndpoint(c) = DataEndpoint(d) <=> c = d
  BY DEF DistinctEndpoints
<1>. QED  BY <1>1 DEF OwnerOf

LEMMA OwnersAppend ==
    ASSUME NEW s \in Seq(Endpoints), NEW x \in Endpoints
    PROVE  Owners(Append(s, x)) = Append(Owners(s), OwnerOf(x))
<1>. DEFINE A == {OwnerOf(y) : y \in Endpoints}
<1>1. PICK n \in Nat : n = Len(s)
  BY LenProperties
<1>2. PICK t : t = Append(s, x)
  OBVIOUS
<1>3. /\ DOMAIN s = 1 .. n /\ \A k \in 1 .. n : s[k] \in Endpoints
      /\ t \in Seq(Endpoints) /\ DOMAIN t = 1 .. n + 1
      /\ \A k \in 1 .. n : t[k] = s[k]
      /\ t[n + 1] = x
  <2>1. DOMAIN s = 1 .. n /\ \A k \in 1 .. n : s[k] \in Endpoints
    BY <1>1, LenProperties
  <2>2. /\ t \in Seq(Endpoints) /\ Len(t) = n + 1
        /\ \A k \in 1 .. n : t[k] = s[k]
        /\ t[n + 1] = x
    BY <1>1, <1>2, AppendProperties
  <2>. QED  BY <2>1, <2>2, LenProperties
<1>4. PICK u : u = Owners(s)
  OBVIOUS
<1>5. u \in Seq(A) /\ Len(u) = n /\ \A k \in 1 .. n : u[k] = OwnerOf(s[k])
  <2>1. u = [k \in 1 .. n |-> OwnerOf(s[k])]
    BY <1>3, <1>4 DEF Owners
  <2>2. \A k \in 1 .. n : OwnerOf(s[k]) \in A
    BY <1>3
  <2>. HIDE DEF A
  <2>3. u \in [1 .. n -> A]
    BY <2>1, <2>2
  <2>. QED  BY <1>1, <2>1, <2>3
<1>6. PICK v : v = Owners(t)
  OBVIOUS
<1>7. v \in Seq(A) /\ Len(v) = n + 1 /\ \A k \in 1 .. n + 1 : v[k] = OwnerOf(t[k])
  <2>1. v = [k \in 1 .. n + 1 |-> OwnerOf(t[k])]
    BY <1>3, <1>6 DEF Owners
  <2>2. \A k \in 1 .. n + 1 : OwnerOf(t[k]) \in A
    <3>1. \A k \in 1 .. n + 1 : t[k] \in Endpoints
      BY <1>3, LenProperties
    <3>. QED  BY <3>1
  <2>. HIDE DEF A
  <2>3. v \in [1 .. n + 1 -> A]
    BY <2>1, <2>2
  <2>. QED  BY <1>1, <2>1, <2>3
<1>8. PICK w : w = Append(u, OwnerOf(x))
  OBVIOUS
<1>9. OwnerOf(x) \in A
  OBVIOUS
<1>. HIDE DEF A
<1>10. /\ w \in Seq(A) /\ Len(w) = n + 1
       /\ \A k \in 1 .. n : w[k] = u[k]
       /\ w[n + 1] = OwnerOf(x)
  BY <1>5, <1>8, <1>9, AppendProperties
<1>11. \A k \in 1 .. n + 1 : w[k] = v[k]
  <2>1. \A k \in 1 .. n + 1 : k \in 1 .. n \/ k = n + 1
    BY <1>1
  <2>2. \A k \in 1 .. n : w[k] = v[k]
    <3>1. \A k \in 1 .. n : k \in 1 .. n + 1
      BY <1>1
    <3>. QED  BY <1>3, <1>5, <1>7, <1>10, <3>1
  <2>3. w[n + 1] = v[n + 1]
    <3>1. n + 1 \in 1 .. n + 1
      BY <1>1
    <3>. QED  BY <1>3, <1>7, <1>10, <3>1
  <2>. QED  BY <2>1, <2>2, <2>3
<1>12. v = w
  BY <1>7, <1>10, <1>11, SeqEqual
<1>. QED  BY <1>2, <1>4, <1>6, <1>8, <1>12

\* A client moves on in its life.
LEMMA Moves ==
    ASSUME NEW c \in Clients, NEW from, NEW to, Status(c) = from, Status(c)' = to,
           \A d \in Clients \ {c} : pc'[d] = pc[d] /\ running'[d] = running[d],
           UNCHANGED roleEndpointMap
    PROVE  M!Becomes(c, from, to)
<1>1. Stati' = [Stati EXCEPT ![c] = to] /\ Stati[c] = from
  <2>1. \A d \in Clients \ {c} : Status(d)' = Status(d)
    BY DEF Status
  <2>. QED  BY <2>1 DEF Stati
<1>2. Knows' = Knows
  BY DEF Knows, Known, Owners, OwnerOf, DataEndpoint
<1>. QED  BY <1>1, <1>2 DEF M!Becomes, Stati, Knows, Known, Owners

\* Nobody moves and nobody's list changes.
LEMMA Stutters ==
    ASSUME UNCHANGED clientVars
    PROVE  UNCHANGED M!membershipVars
<1>1. Stati' = Stati
  BY DEF Stati, Status, clientVars
<1>2. Knows' = Knows
  BY DEF Knows, Known, Owners, OwnerOf, DataEndpoint, clientVars
<1>. QED  BY <1>1, <1>2 DEF M!membershipVars, Stati, Knows, Known, Owners

\* Whoever is entered in a list has joined, has the role of the list, and has not been
\* entered too often: it is one of the times the server has told of it.
LEMMA LearnsNeighbour ==
    ASSUME OrderedTransport, DistinctEndpoints, NoLoops, IInv, MetInv,
           NEW c \in Clients, NEW i,
           OnNeighbour(c, i, "Embody") \/ OnNeighbour(c, i, "Announce")
    PROVE  \E d \in Clients : M!Learns(c, d)
<1>1. PICK e \in Peers(c) :
        /\ toClient[c][1] \in Hello(e)
        /\ \A d \in Clients \ {c} : roleEndpointMap'[d] = roleEndpointMap[d]
        /\ \A r \in Roles : roleEndpointMap'[c][r] =
                IF r = RoleOf[e] THEN Append(roleEndpointMap[c][r], DataEndpoint(e))
                ELSE roleEndpointMap[c][r]
  BY NeighbourEntered
<1>2. e \in Clients /\ e # c /\ RoleOf[e] \in Roles
  BY RoleAssumption DEF Peers, NoLoops
<1>3. /\ toClient[c] # <<>> /\ toClient[c] \in Seq(Messages) /\ running[c]
      /\ pc[c] \in {"running", "joining"} /\ UNCHANGED <<pc, running>>
  BY ClientReceives DEF OnNeighbour, AliveReceives
<1>4. PICK n \in Nat : n = Entered(c, e) /\ n + 1 <= Told(c, e)
  <2>1. Coming(c, e) = Cnt(Tail(toClient[c]), Hello(e)) + 1
    BY <1>1, <1>3, CntTail DEF Coming
  <2>2. Cnt(Tail(toClient[c]), Hello(e)) \in Nat
    BY <1>3, TakesFirst, CntType
  <2>3. Entered(c, e) \in Nat /\ Told(c, e) = Entered(c, e) + Coming(c, e)
    BY <1>2, ToldCounts
  <2>. QED  BY <2>1, <2>2, <2>3
<1>5. ~Fresh(e) /\ n < LinkCount(c, e)
  <2>1. Met(c, e) /\ LinkCount(c, e) \in Nat
    BY <1>2, LinksBothWays DEF MetInv
  <2>2. Told(c, e) \in Nat
    BY <1>2, ToldCounts
  <2>. QED  BY <1>4, <2>1, <2>2 DEF Met
<1>6. Status(c) \in {"member", "leaving"} /\ Status(e) \notin {"outside", "entering"}
  BY <1>3, <1>5 DEF Status, Fresh
<1>7. Stati' = Stati
  BY <1>3 DEF Stati, Status
<1>8. Cardinality({k \in DOMAIN Known(c)[RoleOf[e]] : Known(c)[RoleOf[e]][k] = e}) = n
  <2>. DEFINE list == roleEndpointMap[c][RoleOf[e]]
  <2>1. list \in Seq(PeerEndpoints(c, RoleOf[e]))
    BY <1>2 DEF IInv, Truthful
  <2>2. ASSUME NEW k \in DOMAIN list
        PROVE  OwnerOf(list[k]) = e <=> list[k] = DataEndpoint(e)
    <3>1. list[k] \in PeerEndpoints(c, RoleOf[e])
      BY <2>1, LenProperties
    <3>2. PICK p \in Clients : list[k] = DataEndpoint(p)
      BY <3>1 DEF PeerEndpoints, Peers
    <3>. QED  BY <1>2, <3>2, OwnerFound DEF DistinctEndpoints
  <2>3. {k \in DOMAIN Owners(list) : Owners(list)[k] = e} = Where(list, {DataEndpoint(e)})
    BY <2>2 DEF Owners, Where
  <2>4. Known(c)[RoleOf[e]] = Owners(list)
    BY <1>2 DEF Known
  <2>. HIDE DEF list
  <2>. QED  BY <1>4, <2>3, <2>4 DEF Entered, Cnt, list
<1>9. Knows' = [Knows EXCEPT ![c] = [Known(c) EXCEPT ![RoleOf[e]] = Append(Known(c)[RoleOf[e]], e)]]
  <2>1. \A d \in Clients : Known(d)' = [r \in Roles |-> Owners(roleEndpointMap'[d][r])]
    BY DEF Known, Owners, OwnerOf, DataEndpoint
  <2>2. \A d \in Clients \ {c} : Known(d)' = Known(d)
    BY <1>1, <2>1 DEF Known
  <2>3. ASSUME NEW r \in Roles
        PROVE  Known(c)'[r] = IF r = RoleOf[e] THEN Append(Known(c)[r], e) ELSE Known(c)[r]
    <3>1. Known(c)'[r] = Owners(roleEndpointMap'[c][r]) /\ Known(c)[r] = Owners(roleEndpointMap[c][r])
      BY <2>1 DEF Known
    <3>2. CASE r = RoleOf[e]
      <4>1. roleEndpointMap[c][r] \in Seq(Endpoints) /\ DataEndpoint(e) \in Endpoints
        BY <1>2, DataEndpointType DEF IInv, ClientTypeOK
      <4>2. Owners(Append(roleEndpointMap[c][r], DataEndpoint(e)))
                = Append(Owners(roleEndpointMap[c][r]), OwnerOf(DataEndpoint(e)))
        BY <4>1, OwnersAppend
      <4>. QED  BY <1>1, <1>2, <3>1, <3>2, <4>2, OwnerFound
    <3>3. CASE r # RoleOf[e]
      BY <1>1, <3>1, <3>3
    <3>. QED  BY <3>2, <3>3
  <2>4. Known(c)' = [Known(c) EXCEPT ![RoleOf[e]] = Append(Known(c)[RoleOf[e]], e)]
    <3>1. PICK f : f = [r \in Roles |-> Owners(roleEndpointMap'[c][r])] /\ f = Known(c)'
      BY <2>1
    <3>2. PICK g : g = [r \in Roles |-> Owners(roleEndpointMap[c][r])]
      OBVIOUS
    <3>3. g = Known(c) /\ DOMAIN g = Roles
      BY <3>2 DEF Known
    <3>4. \A r \in Roles : f[r] = IF r = RoleOf[e] THEN Append(g[r], e) ELSE g[r]
      BY <2>3, <3>1, <3>3
    <3>5. f = [g EXCEPT ![RoleOf[e]] = Append(g[RoleOf[e]], e)]
      BY <3>1, <3>2, <3>4
    <3>. QED  BY <3>1, <3>3, <3>5
  <2>. QED  BY <2>2, <2>4 DEF Knows
<1>10. Stati[c] \in {"member", "leaving"} /\ Stati[e] \notin {"outside", "entering"}
       /\ Knows[c] = Known(c)
  BY <1>2, <1>6 DEF Stati, Knows
<1>11. M!MayLearn(c, e)
  <2>1. [a \in Clients |-> [b \in Clients |-> Cardinality(LinksBetween(a, b))]][c][e]
            = LinkCount(c, e)
    BY <1>2 DEF LinkCount
  <2>2. Cardinality({k \in DOMAIN Knows[c][RoleOf[e]] : Knows[c][RoleOf[e]][k] = e}) = n
    BY <1>8, <1>10
  <2>3. M!Cardinality({k \in DOMAIN Knows[c][RoleOf[e]] : Knows[c][RoleOf[e]][k] = e}) = n
    BY <2>2 DEF M!Cardinality, Cardinality
  <2>. QED  BY <1>2, <1>5, <1>10, <2>1, <2>3
            DEF M!MayLearn, M!Active, Stati, Knows, Known, Owners
<1>12. M!Learns(c, e)
  BY <1>2, <1>7, <1>9, <1>10, <1>11 DEF M!Learns, Stati, Knows, Known, Owners
<1>. QED  BY <1>2, <1>12

\* A client's own steps, as Membership sees them.
LEMMA ClientStepImplements ==
    ASSUME OrderedTransport, DistinctEndpoints, NoLoops, ServerApart,
           OrderedInv, MetInv, NEW c \in Clients, ClientStep(c)
    PROVE  [M!MembershipNext]_(M!membershipVars)
<1>1. IInv /\ Phase(c) /\ \A d \in Clients : Phase(d)
  BY DEF OrderedInv
<1>2. pc \in [Clients -> ClientStates] /\ running \in [Clients -> BOOLEAN]
  BY <1>1 DEF IInv, ClientTypeOK
<1>3. CASE Joined(c)
  <2>1. /\ Status(c) = "dismissed" /\ Status(c)' = "left" /\ UNCHANGED roleEndpointMap
        /\ \A d \in Clients \ {c} : pc'[d] = pc[d] /\ running'[d] = running[d]
    BY <1>2, <1>3 DEF Joined, Status
  <2>2. M!Left(c)
    BY <2>1, Moves DEF M!Left
  <2>. QED  BY <2>2 DEF M!MembershipNext
<1>4. ASSUME NEW i \in Arrived(toClient[c]), OnContextReady(c, i)
      PROVE  [M!MembershipNext]_(M!membershipVars)
  <2>1. /\ Status(c) = "entering" /\ Status(c)' = "member" /\ UNCHANGED roleEndpointMap
        /\ \A d \in Clients \ {c} : pc'[d] = pc[d] /\ running'[d] = running[d]
    BY <1>2, <1>4 DEF OnContextReady, ContextReceives, Status
  <2>2. M!Joins(c)
    BY <2>1, Moves DEF M!Joins
  <2>. QED  BY <2>2 DEF M!MembershipNext
<1>5. ASSUME NEW i \in Arrived(toClient[c]), OnDisembodyAck(c, i)
      PROVE  [M!MembershipNext]_(M!membershipVars)
  <2>1. /\ i = 1 /\ toClient[c] # <<>> /\ running[c] /\ pc[c] \in {"running", "joining"}
    BY <1>1, <1>5, ClientReceives DEF OnDisembodyAck, AliveReceives
  <2>2. ~IsNews(c, toClient[c][1])
    BY <1>5, <2>1 DEF OnDisembodyAck, AliveReceives, IsNews
  <2>3. pc[c] = "joining"
    <3>1. Dismissed(c)
      BY <1>1, <2>1, <2>2, ClientMeets
    <3>. QED  BY <2>1, <3>1 DEF Dismissed
  <2>4. /\ Status(c) = "leaving" /\ Status(c)' = "dismissed" /\ UNCHANGED roleEndpointMap
        /\ \A d \in Clients \ {c} : pc'[d] = pc[d] /\ running'[d] = running[d]
    BY <1>2, <1>5, <2>1, <2>3 DEF OnDisembodyAck, Status
  <2>5. M!Dismissed(c)
    BY <2>4, Moves DEF M!Dismissed
  <2>. QED  BY <2>5 DEF M!MembershipNext
<1>6. ASSUME NEW i \in Arrived(toClient[c]),
             \/ OnRoleGraphRequest(c, i) \/ OnAddRoleConnectionAck(c, i)
             \/ OnDisembodyOther(c, i)
      PROVE  [M!MembershipNext]_(M!membershipVars)
  <2>1. CASE OnRoleGraphRequest(c, i) \/ OnAddRoleConnectionAck(c, i)
    <3>1. UNCHANGED clientVars
      BY <2>1 DEF OnRoleGraphRequest, OnAddRoleConnectionAck
    <3>. QED  BY <3>1, Stutters
  <2>2. CASE OnDisembodyOther(c, i)
    <3>1. UNCHANGED clientVars
      BY <1>1, <2>2, NobodyErased DEF OnDisembodyOther, clientVars
    <3>. QED  BY <3>1, Stutters
  <2>. QED  BY <1>6, <2>1, <2>2
<1>7. ASSUME NEW i \in Arrived(toClient[c]),
             OnNeighbour(c, i, "Embody") \/ OnNeighbour(c, i, "Announce")
      PROVE  [M!MembershipNext]_(M!membershipVars)
  <2>1. PICK d \in Clients : M!Learns(c, d)
    BY <1>1, <1>7, LearnsNeighbour
  <2>. QED  BY <2>1 DEF M!MembershipNext
<1>8. CASE ClientHandles(c)
  <2>1. PICK i \in Arrived(toClient[c]) :
                \/ OnRoleGraphRequest(c, i) \/ OnAddRoleConnectionAck(c, i)
                \/ OnContextReady(c, i) \/ OnDisembodyAck(c, i) \/ OnUnhandled(c, i)
                \/ OnDisembodyOther(c, i)
                \/ OnNeighbour(c, i, "Embody") \/ OnNeighbour(c, i, "Announce")
    BY <1>8 DEF ClientHandles, OnEmbodyNeighbour, OnAnnounce
  <2>2. ~OnUnhandled(c, i)
    BY <1>1, UnhandledNever
  <2>. QED  BY <1>4, <1>5, <1>6, <1>7, <2>1, <2>2
<1>. QED  BY <1>3, <1>8 DEF ClientStep

\* The calls and the end of a client.
LEMMA UserCallsImplement ==
    ASSUME OrderedInv, NEW c \in Clients, UserCalls(c) \/ Crashes(c)
    PROVE  [M!MembershipNext]_(M!membershipVars)
<1>1. /\ pc \in [Clients -> ClientStates] /\ running \in [Clients -> BOOLEAN] /\ Phase(c)
  BY DEF OrderedInv, IInv, ClientTypeOK
<1>2. CASE Construct(c)
  <2>1. /\ Status(c) = "outside" /\ Status(c)' = "entering" /\ UNCHANGED roleEndpointMap
        /\ \A d \in Clients \ {c} : pc'[d] = pc[d] /\ running'[d] = running[d]
    BY <1>1, <1>2 DEF Construct, Status
  <2>2. M!Enters(c)
    BY <2>1, Moves DEF M!Enters
  <2>. QED  BY <2>2 DEF M!MembershipNext
<1>3. CASE Stop(c)
  <2>1. running[c]
    BY <1>1, <1>3 DEF Stop, Phase, Departed
  <2>2. /\ Status(c) = "member" /\ Status(c)' = "leaving" /\ UNCHANGED roleEndpointMap
        /\ \A d \in Clients \ {c} : pc'[d] = pc[d] /\ running'[d] = running[d]
    BY <1>1, <1>3, <2>1 DEF Stop, Status
  <2>3. M!Leaves(c)
    BY <2>2, Moves DEF M!Leaves
  <2>. QED  BY <2>3 DEF M!MembershipNext
<1>4. CASE Crash(c)
  <2>1. /\ Status(c) \in {"entering", "member", "leaving", "dismissed"} /\ Status(c)' = "dead"
        /\ UNCHANGED roleEndpointMap
        /\ \A d \in Clients \ {c} : pc'[d] = pc[d] /\ running'[d] = running[d]
    BY <1>1, <1>4 DEF Crash, Status
  <2>2. PICK from \in {"entering", "member", "leaving", "dismissed"} : Status(c) = from
    BY <2>1
  <2>3. M!Becomes(c, from, "dead")
    BY <2>1, <2>2, Moves
  <2>4. M!Dies(c)
    BY <2>2, <2>3 DEF M!Dies
  <2>. QED  BY <2>4 DEF M!MembershipNext
<1>. QED  BY <1>2, <1>3, <1>4 DEF UserCalls, ClientCalled, Crashes

\* The messages of the server and the handlers of the clients implement Membership: a
\* client lists only clients that have joined, that have the role they are listed under
\* and a role next to its own, at most once per edge, and no member is ever forgotten.
THEOREM ContextImplementsMembership ==
    ASSUME OrderedTransport, DistinctEndpoints, NoLoops, ServerApart
    PROVE  Spec => ImplementsMembership
<1>1. Init => M!MembershipInit
  <2>. SUFFICES ASSUME Init
                PROVE  M!MembershipInit
    OBVIOUS
  <2>1. Stati = [c \in Clients |-> "outside"]
    BY DEF Init, ClientInit, Stati, Status
  <2>2. Knows = [c \in Clients |-> [r \in Roles |-> <<>>]]
    <3>1. \A c \in Clients : \A r \in Roles : Owners(roleEndpointMap[c][r]) = <<>>
      BY DEF Init, ClientInit, Owners
    <3>. QED  BY <3>1 DEF Knows, Known
  <2>. QED  BY <2>1, <2>2 DEF M!MembershipInit, Stati, Knows, Known, Owners
<1>2. Init => OrderedInv /\ MetInv
  BY InitOrdered, InitMet
<1>3. OrderedInv /\ MetInv /\ [Next]_vars => (OrderedInv /\ MetInv)'
  BY StepOrdered, StepMet
<1>4. ASSUME OrderedInv, MetInv, [Next]_vars
      PROVE  [M!MembershipNext]_(M!membershipVars)
  <2>1. CASE ServerStep \/ ServerCalled \/ UNCHANGED vars
    <3>1. UNCHANGED clientVars
      BY <2>1 DEF ServerStep, ServerCalled, vars, clientVars
    <3>. QED  BY <3>1, Stutters
  <2>2. ASSUME NEW c \in Clients, ClientStep(c)
        PROVE  [M!MembershipNext]_(M!membershipVars)
    BY <1>4, <2>2, ClientStepImplements
  <2>3. ASSUME NEW c \in Clients, UserCalls(c) \/ Crashes(c)
        PROVE  [M!MembershipNext]_(M!membershipVars)
    BY <1>4, <2>3, UserCallsImplement
  <2>4. ASSUME NEW c \in Clients, Loses(c)
        PROVE  FALSE
    BY <2>4 DEF Loses, LosesMessage, OrderedTransport
  <2>. QED  BY <1>4, <2>1, <2>2, <2>3, <2>4 DEF Next
<1>5. OrderedInv /\ MetInv /\ [Next]_vars => [M!MembershipNext]_(M!membershipVars)
  BY <1>4
<1>. QED  BY <1>1, <1>2, <1>3, <1>5, PTL DEF Spec, ImplementsMembership, M!MembershipSpec

=============================================================================
