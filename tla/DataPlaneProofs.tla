-------------------------- MODULE DataPlaneProofs --------------------------
(***************************************************************************)
(* What the programs of a context get out of send and asyncSend, for any   *)
(* number of clients, any role graph and any policies, while clients join  *)
(* and leave: a call sends to the peers its policy names, once per edge,   *)
(* and to nobody else, and a client is sent the messages of the calls in   *)
(* their order.                                                            *)
(***************************************************************************)
EXTENDS DataPlane, FiniteSetTheorems, SequenceTheorems, TLAPS

-----------------------------------------------------------------------------
(* The inductive invariant *)

HasJoined(d) == status[d] \notin {"outside", "entering"}

\* A client lists clients that have joined, under their roles and at most once per edge.
KnowsPeers ==
    \A c \in Clients :
        /\ \A r \in Roles : \A i \in DOMAIN knows[c][r] :
            RoleOf[knows[c][r][i]] = r /\ HasJoined(knows[c][r][i])
        /\ \A d \in Clients : Count(knows[c][RoleOf[d]], d) <= Links[c][d]

\* A send under way belongs to the last call and goes to clients that have joined.
TargetsJoined(c) ==
    /\ Len(calls[c]) <= MaxCalls
    /\ targets[c] # <<>> => calls[c] # <<>>
    /\ \A i \in DOMAIN targets[c] : HasJoined(targets[c][i])

\* A policy has picked the clients that a call of c is sent to: due[d] is how often the
\* message is sent to d in all.
Picked(c, policy, due) ==
    /\ \A d \in Clients :
        /\ due[d] <= Links[c][d]
        /\ policy.name # "broadcast_any" /\ policy.role # RoleOf[d] => due[d] = 0
    /\ policy.name = "round_robin" =>
        \A d, e \in Clients : d # e => due[d] = 0 \/ due[e] = 0

\* The message of call k has been passed to the transport (seen), or will be (rest).
Due(made, rest, seen, k) ==
    [d \in Clients |-> Count(seen[d], k) + (IF k = Len(made) THEN Count(rest, d) ELSE 0)]

\* What client c has sent is what its calls have picked: made are the calls, seen[d] the
\* calls whose messages have been passed to the transport for d, and rest the clients
\* the last call has still to be sent to.
SentAsPicked(c, joined, made, rest, seen) ==
    /\ \A d \in Clients :
        /\ seen[d] # <<>> => d \in joined
        /\ \A i \in DOMAIN seen[d] : seen[d][i] \in 1 .. Len(made)
        /\ \A i, j \in DOMAIN seen[d] : i < j => seen[d][i] <= seen[d][j]
    /\ \A k \in DOMAIN made : Picked(c, made[k], Due(made, rest, seen, k))

JoinedClients == {d \in Clients : HasJoined(d)}
Unposted(c) == IF posted[c] THEN Tail(targets[c]) ELSE targets[c]
SeenOf(c) == [d \in Clients |-> CallsSeen(c, d)]

SentRight(c) == SentAsPicked(c, JoinedClients, calls[c], Unposted(c), SeenOf(c))

SendsRight == \A c \in Clients : TargetsJoined(c) /\ SentRight(c)

IInv == TypeOK /\ KnowsPeers /\ SendsRight

-----------------------------------------------------------------------------
(* Counting *)

LEMMA PlacesFinite ==
    ASSUME NEW S, NEW s \in Seq(S), NEW x
    PROVE  /\ Len(s) \in Nat /\ DOMAIN s = 1 .. Len(s)
           /\ IsFiniteSet({i \in DOMAIN s : s[i] = x})
           /\ Count(s, x) \in Nat
<1>1. Len(s) \in Nat /\ DOMAIN s = 1 .. Len(s)
  BY LenProperties
<1>2. IsFiniteSet(DOMAIN s)
  BY <1>1, FS_Interval
<1>3. IsFiniteSet({i \in DOMAIN s : s[i] = x})
  BY <1>2, FS_Subset
<1>. QED  BY <1>1, <1>3, FS_CardinalityType DEF Count

\* Something that is counted is in the sequence.
LEMMA CountedIsThere ==
    ASSUME NEW S, NEW s \in Seq(S), NEW x
    PROVE  Count(s, x) = 0 <=> \A i \in DOMAIN s : s[i] # x
<1>. DEFINE P == {i \in DOMAIN s : s[i] = x}
<1>1. IsFiniteSet(P)
  BY PlacesFinite
<1>2. Cardinality(P) = 0 <=> P = {}
  BY <1>1, FS_EmptySet
<1>3. P = {} <=> \A i \in DOMAIN s : s[i] # x
  OBVIOUS
<1>. QED  BY <1>2, <1>3 DEF Count

LEMMA CountEmpty == \A x : Count(<<>>, x) = 0
<1>1. ASSUME NEW x
      PROVE  Count(<<>>, x) = 0
  <2>1. {i \in DOMAIN <<>> : <<>>[i] = x} = {}
    OBVIOUS
  <2>. QED  BY <2>1, FS_EmptySet DEF Count
<1>. QED  BY <1>1

\* An injection between the places of x in two sequences.
LEMMA CountInto ==
    ASSUME NEW S, NEW s \in Seq(S), NEW T, NEW t \in Seq(T), NEW x, NEW y,
           NEW f \in Injection({i \in DOMAIN s : s[i] = x}, {i \in DOMAIN t : t[i] = y})
    PROVE  Count(s, x) <= Count(t, y)
<1>1. IsFiniteSet({i \in DOMAIN t : t[i] = y})
  <2>1. t \in Seq(T)
    OBVIOUS
  <2>. QED  BY <2>1, PlacesFinite
<1>. QED  BY <1>1, FS_Injection DEF Count

\* The places after the first one.
LEMMA CountTail ==
    ASSUME NEW S, NEW s \in Seq(S), s # <<>>, NEW x
    PROVE  Count(s, x) = Count(Tail(s), x) + (IF Head(s) = x THEN 1 ELSE 0)
<1>1. /\ Len(s) \in Nat \ {0} /\ DOMAIN s = 1 .. Len(s) /\ Head(s) = s[1]
      /\ DOMAIN Tail(s) = 1 .. Len(s) - 1
      /\ \A i \in 1 .. Len(s) - 1 : Tail(s)[i] = s[i + 1]
  <2>1. Len(s) \in Nat /\ DOMAIN s = 1 .. Len(s)
    BY LenProperties
  <2>2. /\ Tail(s) \in Seq(S)
        /\ Len(Tail(s)) = Len(s) - 1
        /\ \A i \in 1 .. Len(Tail(s)) : Tail(s)[i] = s[i + 1]
    BY <2>1, HeadTailProperties
  <2>3. DOMAIN Tail(s) = 1 .. Len(Tail(s))
    BY <2>2, LenProperties
  <2>4. Len(s) # 0 /\ Head(s) = s[1]
    BY <2>1, EmptySeq
  <2>. QED  BY <2>1, <2>2, <2>3, <2>4
<1>. DEFINE P == {i \in DOMAIN s : s[i] = x}
            Q == {i \in DOMAIN Tail(s) : Tail(s)[i] = x}
            f == [i \in Q |-> i + 1]
<1>2. IsFiniteSet(P) /\ IsFiniteSet(Q)
  <2>1. Tail(s) \in Seq(S)
    BY <1>1, HeadTailProperties
  <2>. QED  BY <2>1, PlacesFinite
<1>3. Cardinality(P \ {1}) = Cardinality(Q)
  <2>1. Q \subseteq Int
    BY <1>1
  <2>2. f \in [Q -> P \ {1}]
    BY <1>1
  <2>3. \A i, j \in Q : f[i] = f[j] => i = j
    BY <2>1
  <2>4. \A p \in P \ {1} : \E q \in Q : f[q] = p
    <3>1. ASSUME NEW p \in P \ {1}
          PROVE  p - 1 \in Q /\ f[p - 1] = p
      BY <1>1
    <3>. QED  BY <3>1
  <2>5. f \in Bijection(Q, P \ {1})
    <3>. HIDE DEF P, Q, f
    <3>. QED  BY <2>2, <2>3, <2>4 DEF Bijection, Injection, Surjection, IsInjective
  <2>. QED  BY <1>2, <2>5, FS_Bijection DEF ExistsBijection
<1>. /\ Count(s, x) = Cardinality(P)
     /\ Count(Tail(s), x) = Cardinality(Q)
  BY DEF Count
<1>4. CASE Head(s) = x
  <2>1. 1 \in P
    BY <1>1, <1>4
  <2>. HIDE DEF P, Q
  <2>2. Cardinality(P \ {1}) = Cardinality(P) - 1 /\ Cardinality(P) \in Nat
    BY <1>2, <2>1, FS_RemoveElement, FS_CardinalityType
  <2>. QED  BY <1>3, <1>4, <2>2
<1>5. CASE Head(s) # x
  <2>1. P \ {1} = P
    BY <1>1, <1>5
  <2>2. Cardinality(Q) \in Nat
    BY <1>2, FS_CardinalityType
  <2>. HIDE DEF P, Q, f
  <2>3. Cardinality(P) = Cardinality(Q)
    BY <1>3, <2>1
  <2>. QED  BY <1>5, <2>2, <2>3
<1>. QED  BY <1>4, <1>5

\* A sequence to which y is appended n times.
Repeats(s, n, y) == s \o [i \in 1 .. n |-> y]
IsRepeated(r, s, n, y) ==
    /\ Len(s) \in Nat /\ DOMAIN s = 1 .. Len(s)
    /\ DOMAIN r = 1 .. Len(s) + n /\ Len(r) = Len(s) + n
    /\ \A i \in 1 .. Len(s) : r[i] = s[i]
    /\ \A i \in Len(s) + 1 .. Len(s) + n : r[i] = y

LEMMA RepeatsFacts ==
    ASSUME NEW S, NEW s \in Seq(S), NEW y \in S, NEW n \in Nat
    PROVE  Repeats(s, n, y) \in Seq(S) /\ IsRepeated(Repeats(s, n, y), s, n, y)
<1>. DEFINE t == [i \in 1 .. n |-> y]
<1>1. t \in Seq(S)
  <2>1. \A i \in 1 .. n : y \in S
    OBVIOUS
  <2>. QED  BY <2>1, IsASeq
<1>2. DOMAIN t = 1 .. n /\ \A i \in 1 .. n : t[i] = y
  OBVIOUS
<1>3. Len(t) = n
  BY <1>1, <1>2, LenProperties
<1>. HIDE DEF t
<1>4. Len(s) \in Nat /\ DOMAIN s = 1 .. Len(s)
  BY LenProperties
<1>5. /\ s \o t \in Seq(S)
      /\ Len(s \o t) = Len(s) + Len(t)
      /\ \A i \in 1 .. Len(s) + Len(t) :
            (s \o t)[i] = IF i <= Len(s) THEN s[i] ELSE t[i - Len(s)]
  BY <1>1, ConcatProperties
<1>6. DOMAIN (s \o t) = 1 .. Len(s) + n
  BY <1>3, <1>5, LenProperties
<1>7. \A i \in Len(s) + 1 .. Len(s) + n : i - Len(s) \in 1 .. n /\ ~(i <= Len(s))
  BY <1>4
<1>8. \A i \in Len(s) + 1 .. Len(s) + n : (s \o t)[i] = y
  BY <1>2, <1>3, <1>4, <1>5, <1>7
<1>9. \A i \in 1 .. Len(s) : (s \o t)[i] = s[i]
  BY <1>3, <1>4, <1>5
<1>10. Repeats(s, n, y) = s \o t
  BY DEF Repeats, t
<1>. QED  BY <1>4, <1>5, <1>6, <1>8, <1>9, <1>10 DEF IsRepeated

\* x is counted n times more in r than in s, if it is y.
CountsMore(r, s, n, y, x) ==
    /\ x = y => Count(r, x) = Count(s, x) + n
    /\ x # y => Count(r, x) = Count(s, x)

LEMMA CountRepeats ==
    ASSUME NEW S, NEW s \in Seq(S), NEW y \in S, NEW n \in Nat, NEW x
    PROVE  CountsMore(Repeats(s, n, y), s, n, y, x)
<1>. DEFINE r == Repeats(s, n, y)
            P == {i \in DOMAIN s : s[i] = x}
            Q == {i \in DOMAIN r : r[i] = x}
            New == Len(s) + 1 .. Len(s) + n
<1>1. /\ Len(s) \in Nat /\ DOMAIN s = 1 .. Len(s)
      /\ DOMAIN r = 1 .. Len(s) + n
      /\ \A i \in 1 .. Len(s) : r[i] = s[i]
      /\ \A i \in New : r[i] = y
  <2>1. s \in Seq(S) /\ y \in S /\ n \in Nat
    OBVIOUS
  <2>. HIDE DEF r
  <2>2. IsRepeated(Repeats(s, n, y), s, n, y)
    BY <2>1, RepeatsFacts
  <2>. QED  BY <2>2 DEF r, IsRepeated
<1>2. IsFiniteSet(P) /\ Cardinality(P) \in Nat
  BY PlacesFinite, FS_CardinalityType
<1>3. IsFiniteSet(New) /\ Cardinality(New) = n
  <2>1. Len(s) + 1 \in Int /\ Len(s) + n \in Int
    BY <1>1
  <2>2. /\ IsFiniteSet(New)
        /\ Cardinality(New) =
            IF Len(s) + 1 > Len(s) + n THEN 0 ELSE (Len(s) + n) - (Len(s) + 1) + 1
    BY <2>1, FS_Interval
  <2>. QED  BY <1>1, <2>2
<1>. /\ Count(s, x) = Cardinality(P)
     /\ Count(r, x) = Cardinality(Q)
  BY DEF Count
<1>. HIDE DEF r
<1>4. CASE x = y
  <2>1. Q = P \cup New /\ P \cap New = {}
    BY <1>1, <1>4
  <2>. HIDE DEF P, Q, New
  <2>2. Cardinality(P \cup New) = Cardinality(P) + Cardinality(New) - Cardinality(P \cap New)
    BY <1>2, <1>3, FS_Union
  <2>3. Cardinality({}) = 0
    BY FS_EmptySet
  <2>4. Cardinality(Q) = Cardinality(P) + n - 0
    BY <1>3, <2>1, <2>2, <2>3
  <2>5. Count(r, x) = Count(s, x) + n
    BY <1>2, <2>4
  <2>. QED  BY <1>4, <2>5 DEF r, CountsMore
<1>5. CASE x # y
  <2>1. Q = P
    BY <1>1, <1>5
  <2>. HIDE DEF P, Q
  <2>2. Count(r, x) = Count(s, x) /\ Count(s, x) \in Nat
    BY <1>2, <2>1
  <2>. QED  BY <1>5, <2>2 DEF r, CountsMore
<1>. QED  BY <1>4, <1>5

LEMMA AppendRepeats ==
    ASSUME NEW S, NEW s \in Seq(S), NEW y \in S
    PROVE  Append(s, y) = Repeats(s, 1, y)
<1>1. [i \in 1 .. 1 |-> y] = <<y>>
  OBVIOUS
<1>2. Append(s, y) = s \o <<y>>
  BY AppendIsConcat
<1>. QED  BY <1>1, <1>2 DEF Repeats

-----------------------------------------------------------------------------
(* The send policies *)

RoleMaps == [Roles -> Seq(Clients)]

LEMMA SlotsFacts ==
    ASSUME NEW map \in RoleMaps
    PROVE  /\ IsFiniteSet(Slots(map))
           /\ \A s \in Slots(map) :
                /\ s = <<s[1], s[2]>>
                /\ s[1] \in Roles /\ s[1] \in Int
                /\ s[2] \in DOMAIN map[s[1]] /\ s[2] \in Int
<1>1. DOMAIN map = Roles /\ \A r \in Roles : map[r] \in Seq(Clients)
  BY DEF RoleMaps
<1>2. \A r \in Roles : Len(map[r]) \in Nat /\ DOMAIN map[r] = 1 .. Len(map[r])
  BY <1>1, LenProperties
<1>. DEFINE row == [r \in Roles |-> {r} \X DOMAIN map[r]]
            Rows == {{r} \X DOMAIN map[r] : r \in DOMAIN map}
<1>3. IsFiniteSet(Rows)
  <2>1. row \in [Roles -> Rows] /\ \A x \in Rows : \E r \in Roles : row[r] = x
    BY <1>1
  <2>2. row \in Surjection(Roles, Rows)
    <3>. HIDE DEF row, Rows
    <3>. QED  BY <2>1 DEF Surjection
  <2>3. IsFiniteSet(Roles)
    BY DataAssumption
  <2>. HIDE DEF row, Rows
  <2>. QED  BY <2>2, <2>3, FS_Surjection
<1>4. \A x \in Rows : IsFiniteSet(x)
  <2>1. ASSUME NEW r \in Roles
        PROVE  IsFiniteSet({r} \X DOMAIN map[r])
    <3>1. IsFiniteSet({r}) /\ IsFiniteSet(DOMAIN map[r])
      <4>1. Len(map[r]) \in Nat /\ DOMAIN map[r] = 1 .. Len(map[r])
        BY <1>2
      <4>2. IsFiniteSet(1 .. Len(map[r]))
        BY <4>1, FS_Interval
      <4>. QED  BY <4>1, <4>2, FS_Singleton
    <3>. QED  BY <3>1, FS_Product
  <2>. QED  BY <1>1, <2>1
<1>5. IsFiniteSet(UNION Rows)
  <2>. HIDE DEF Rows
  <2>. QED  BY <1>3, <1>4, FS_UNION
<1>6. ASSUME NEW s \in Slots(map)
      PROVE  /\ s = <<s[1], s[2]>>
             /\ s[1] \in Roles /\ s[1] \in Int
             /\ s[2] \in DOMAIN map[s[1]] /\ s[2] \in Int
  <2>1. PICK r \in Roles : s \in {r} \X DOMAIN map[r]
    BY <1>1 DEF Slots
  <2>2. PICK i \in DOMAIN map[r] : s = <<r, i>>
    BY <2>1
  <2>3. r \in Int /\ i \in Int
    BY <1>2, DataAssumption
  <2>. QED  BY <2>2, <2>3
<1>. QED  BY <1>5, <1>6 DEF Slots

Rank(map, s) == Cardinality(UpTo(map, s))

\* Of two places the earlier one has fewer before it.
LEMMA RankGrows ==
    ASSUME NEW map \in RoleMaps, NEW s \in Slots(map), NEW t \in Slots(map),
           s[1] < t[1] \/ (s[1] = t[1] /\ s[2] < t[2])
    PROVE  Rank(map, s) # Rank(map, t)
<1>1. /\ s[1] \in Int /\ s[2] \in Int /\ t[1] \in Int /\ t[2] \in Int
      /\ IsFiniteSet(Slots(map))
      /\ \A u \in Slots(map) : u[1] \in Int /\ u[2] \in Int
  BY SlotsFacts
<1>2. UpTo(map, s) \subseteq UpTo(map, t)
  BY <1>1 DEF UpTo
<1>3. t \in UpTo(map, t) /\ t \notin UpTo(map, s)
  BY <1>1 DEF UpTo
<1>4. IsFiniteSet(UpTo(map, t))
  <2>1. UpTo(map, t) \subseteq Slots(map)
    BY DEF UpTo
  <2>. QED  BY <1>1, <2>1, FS_Subset
<1>5. Cardinality(UpTo(map, s)) = Cardinality(UpTo(map, t)) => UpTo(map, s) = UpTo(map, t)
  BY <1>2, <1>4, FS_Subset
<1>. QED  BY <1>3, <1>5 DEF Rank

\* The places are numbered from one on.
LEMMA RankOnto ==
    ASSUME NEW map \in RoleMaps, NEW k \in 1 .. Cardinality(Slots(map))
    PROVE  \E s \in Slots(map) : Rank(map, s) = k
<1>. DEFINE S == Slots(map)
            n == Cardinality(S)
            f == [s \in S |-> Rank(map, s)]
<1>1. IsFiniteSet(S) /\ n \in Nat
  BY SlotsFacts, FS_CardinalityType
<1>2. IsFiniteSet(1 .. n) /\ Cardinality(1 .. n) = n
  <2>. HIDE DEF n
  <2>. QED  BY <1>1, FS_Interval
<1>3. ASSUME NEW s \in S
      PROVE  Rank(map, s) \in 1 .. n
  <2>1. UpTo(map, s) \subseteq S /\ s \in UpTo(map, s)
    BY SlotsFacts DEF UpTo
  <2>2. IsFiniteSet(UpTo(map, s)) /\ Cardinality(UpTo(map, s)) <= n
    BY <1>1, <2>1, FS_Subset
  <2>3. Cardinality(UpTo(map, s)) \in Nat /\ Cardinality(UpTo(map, s)) # 0
    BY <2>1, <2>2, FS_CardinalityType, FS_EmptySet
  <2>. HIDE DEF n
  <2>. QED  BY <1>1, <2>2, <2>3 DEF Rank
<1>4. ASSUME NEW s \in S, NEW t \in S, Rank(map, s) = Rank(map, t)
      PROVE  s = t
  <2>1. /\ s = <<s[1], s[2]>> /\ t = <<t[1], t[2]>>
        /\ s[1] \in Int /\ s[2] \in Int /\ t[1] \in Int /\ t[2] \in Int
    BY SlotsFacts
  <2>2. ~(s[1] < t[1] \/ (s[1] = t[1] /\ s[2] < t[2]))
    BY <1>4, RankGrows
  <2>3. ~(t[1] < s[1] \/ (t[1] = s[1] /\ t[2] < s[2]))
    BY <1>4, RankGrows
  <2>4. s[1] = t[1] /\ s[2] = t[2]
    BY <2>1, <2>2, <2>3
  <2>. QED  BY <2>1, <2>4
<1>5. f \in Injection(S, 1 .. n)
  <2>1. f \in [S -> 1 .. n]
    <3>. HIDE DEF S, n
    <3>. QED  BY <1>3
  <2>2. \A s, t \in S : f[s] = f[t] => s = t
    BY <1>4
  <2>. HIDE DEF S, n, f
  <2>. QED  BY <2>1, <2>2 DEF Injection, IsInjective
<1>6. f \in Surjection(S, 1 .. n)
  <2>1. Cardinality(S) = Cardinality(1 .. n)
    BY <1>2
  <2>. HIDE DEF S, n, f
  <2>. QED  BY <1>2, <1>5, <2>1, FS_Injection
<1>7. \A x \in 1 .. n : \E s \in S : f[s] = x
  <2>. HIDE DEF S, n, f
  <2>. QED  BY <1>6 DEF Surjection
<1>. QED  BY <1>7

\* Each endpoint that broadcast_any picks is one of the map, and no place is picked twice.
LEMMA AnyPicks ==
    ASSUME NEW map \in RoleMaps
    PROVE  /\ broadcast_any(map) \in Seq(Clients)
           /\ \E g \in Injection(DOMAIN broadcast_any(map), Slots(map)) :
                \A k \in DOMAIN broadcast_any(map) :
                    broadcast_any(map)[k] = map[g[k][1]][g[k][2]]
<1>. DEFINE n == Cardinality(Slots(map))
            slot(k) == CHOOSE s \in Slots(map) : Cardinality(UpTo(map, s)) = k
            g == [k \in 1 .. n |-> slot(k)]
<1>1. n \in Nat
  BY SlotsFacts, FS_CardinalityType
<1>2. ASSUME NEW k \in 1 .. n
      PROVE  slot(k) \in Slots(map) /\ Rank(map, slot(k)) = k
  <2>1. \E s \in Slots(map) : Cardinality(UpTo(map, s)) = k
    BY RankOnto DEF Rank
  <2>. QED  BY <2>1 DEF Rank
<1>. HIDE DEF slot
<1>3. g \in Injection(1 .. n, Slots(map))
  <2>1. g \in [1 .. n -> Slots(map)]
    <3>. HIDE DEF n
    <3>. QED  BY <1>2
  <2>2. \A j, k \in 1 .. n : g[j] = g[k] => j = k
    <3>. HIDE DEF n
    <3>. QED  BY <1>2
  <2>. HIDE DEF g, n
  <2>. QED  BY <2>1, <2>2 DEF Injection, IsInjective
<1>4. broadcast_any(map) = [k \in 1 .. n |-> map[slot(k)[1]][slot(k)[2]]]
  BY DEF broadcast_any, slot
<1>5. DOMAIN broadcast_any(map) = 1 .. n
  BY <1>4
<1>6. \A k \in 1 .. n : broadcast_any(map)[k] = map[g[k][1]][g[k][2]]
  <2>. HIDE DEF n
  <2>. QED  BY <1>4
<1>7. ASSUME NEW k \in 1 .. n
      PROVE  map[slot(k)[1]][slot(k)[2]] \in Clients
  <2>1. slot(k) \in Slots(map)
    BY <1>2
  <2>2. slot(k)[1] \in Roles /\ slot(k)[2] \in DOMAIN map[slot(k)[1]]
    BY <2>1, SlotsFacts
  <2>3. map[slot(k)[1]] \in Seq(Clients)
    BY <2>2 DEF RoleMaps
  <2>. QED  BY <2>2, <2>3, ElementOfSeq, LenProperties
<1>8. broadcast_any(map) \in Seq(Clients)
  <2>. HIDE DEF n
  <2>1. [k \in 1 .. n |-> map[slot(k)[1]][slot(k)[2]]] \in Seq(Clients)
    BY <1>1, <1>7, IsASeq
  <2>. QED  BY <1>4, <2>1
<1>. HIDE DEF g, n
<1>. QED  BY <1>3, <1>5, <1>6, <1>8

\* A role map lists each client under its role.
Sorted(map) == \A r \in Roles : \A i \in DOMAIN map[r] : RoleOf[map[r][i]] = r

\* broadcast_any picks a client at most as often as it is in the map.
LEMMA AnyCount ==
    ASSUME NEW map \in RoleMaps, Sorted(map), NEW d \in Clients
    PROVE  Count(broadcast_any(map), d) <= Count(map[RoleOf[d]], d)
<1>. DEFINE any == broadcast_any(map)
            role == RoleOf[d]
            P == {k \in DOMAIN any : any[k] = d}
            Q == {i \in DOMAIN map[role] : map[role][i] = d}
<1>1. any \in Seq(Clients) /\ role \in Roles /\ map[role] \in Seq(Clients)
  BY AnyPicks, MembershipAssumption DEF RoleMaps
<1>2. PICK g \in Injection(DOMAIN any, Slots(map)) :
        \A k \in DOMAIN any : any[k] = map[g[k][1]][g[k][2]]
  BY AnyPicks
<1>. HIDE DEF any
<1>3. /\ \A k \in DOMAIN any : g[k] \in Slots(map)
      /\ \A j, k \in DOMAIN any : g[j] = g[k] => j = k
  BY <1>2 DEF Injection, IsInjective
<1>. DEFINE f == [k \in P |-> g[k][2]]
<1>4. ASSUME NEW k \in P
      PROVE  g[k] = <<role, g[k][2]>> /\ g[k][2] \in Q
  <2>1. g[k] \in Slots(map) /\ map[g[k][1]][g[k][2]] = d
    BY <1>2, <1>3
  <2>2. /\ g[k] = <<g[k][1], g[k][2]>> /\ g[k][1] \in Roles
        /\ g[k][2] \in DOMAIN map[g[k][1]]
    BY <2>1, SlotsFacts
  <2>3. RoleOf[map[g[k][1]][g[k][2]]] = g[k][1]
    BY <2>2 DEF Sorted
  <2>4. g[k][1] = role
    BY <2>1, <2>3
  <2>. QED  BY <2>1, <2>2, <2>4
<1>5. f \in Injection(P, Q)
  <2>1. f \in [P -> Q]
    BY <1>4
  <2>2. ASSUME NEW j \in P, NEW k \in P, f[j] = f[k]
        PROVE  j = k
    <3>1. g[j] = g[k]
      BY <1>4, <2>2
    <3>. QED  BY <1>3, <3>1
  <2>. HIDE DEF P, Q, f
  <2>. QED  BY <2>1, <2>2 DEF Injection, IsInjective
<1>6. Count(any, d) <= Count(map[role], d)
  <2>. HIDE DEF f
  <2>. QED  BY <1>1, <1>5, CountInto
<1>. QED  BY <1>6 DEF any

\* What a policy picks from a role map: clients of the map, each at most as often as it
\* is listed; of one role, if it names one; and one client, if it goes round.
Picks(policy, map, eps) ==
    /\ eps \in Seq(Clients)
    /\ \A d \in Clients :
        /\ Count(eps, d) <= Count(map[RoleOf[d]], d)
        /\ policy.name # "broadcast_any" /\ policy.role # RoleOf[d] => Count(eps, d) = 0
    /\ policy.name = "round_robin" =>
        \A d, e \in Clients : d # e => Count(eps, d) = 0 \/ Count(eps, e) = 0

LEMMA RunPicks ==
    ASSUME NEW map \in RoleMaps, Sorted(map), NEW policy \in SendWith
    PROVE  Picks(policy, map, Run(policy, map))
<1>. DEFINE eps == Run(policy, map)
<1>0. \A d \in Clients : RoleOf[d] \in Roles /\ map[RoleOf[d]] \in Seq(Clients)
  BY MembershipAssumption DEF RoleMaps
<1>1. CASE policy.name = "broadcast_any"
  <2>1. eps = broadcast_any(map)
    BY <1>1 DEF Run
  <2>2. eps \in Seq(Clients)
    BY <2>1, AnyPicks
  <2>3. \A d \in Clients : Count(eps, d) <= Count(map[RoleOf[d]], d)
    BY <2>1, AnyCount
  <2>. HIDE DEF eps
  <2>4. Picks(policy, map, eps)
    BY <1>1, <2>2, <2>3 DEF Picks
  <2>. QED  BY <2>4 DEF eps
<1>2. CASE policy.name # "broadcast_any"
  <2>1. /\ policy.name \in {"broadcast_role", "round_robin"}
        /\ policy.role \in Roles
        /\ policy.name = "round_robin" => policy.counter \in Nat
    BY <1>2, DataAssumption DEF Policies
  <2>. DEFINE r == policy.role
  <2>2. r \in Roles /\ map[r] \in Seq(Clients) /\ r \in DOMAIN map
    BY <2>1 DEF RoleMaps
  <2>3. ASSUME NEW d \in Clients, d \notin {map[r][i] : i \in DOMAIN map[r]}
        PROVE  Count(map[r], d) = 0
    BY <2>2, <2>3, CountedIsThere
  <2>4. ASSUME NEW d \in Clients, r # RoleOf[d]
        PROVE  Count(map[r], d) = 0
    BY <2>2, <2>3, <2>4 DEF Sorted
  <2>5. CASE policy.name = "broadcast_role"
    <3>1. eps = map[r]
      BY <2>2, <2>5 DEF Run, broadcast_role
    <3>. HIDE DEF eps
    <3>2. \A d \in Clients : r # RoleOf[d] => Count(eps, d) = 0
      BY <2>4, <3>1
    <3>3. ASSUME NEW d \in Clients
          PROVE  Count(eps, d) <= Count(map[RoleOf[d]], d)
      <4>1. Count(map[RoleOf[d]], d) \in Nat
        BY <1>0, PlacesFinite
      <4>2. CASE r = RoleOf[d]
        BY <3>1, <4>1, <4>2
      <4>3. CASE r # RoleOf[d]
        BY <3>2, <4>1, <4>3
      <4>. QED  BY <4>2, <4>3
    <3>4. Picks(policy, map, eps)
      BY <2>2, <2>5, <3>1, <3>2, <3>3 DEF Picks
    <3>. QED  BY <3>4 DEF eps
  <2>6. CASE policy.name = "round_robin"
    <3>1. CASE map[r] = <<>>
      <4>1. eps = <<>>
        BY <2>6, <3>1 DEF Run, round_robin
      <4>. HIDE DEF eps
      <4>2. eps \in Seq(Clients) /\ \A d \in Clients : Count(eps, d) = 0
        BY <4>1, CountEmpty
      <4>3. \A d \in Clients : Count(map[RoleOf[d]], d) \in Nat
        BY <1>0, PlacesFinite
      <4>4. Picks(policy, map, eps)
        BY <4>2, <4>3 DEF Picks
      <4>. QED  BY <4>4 DEF eps
    <3>2. CASE map[r] # <<>>
      <4>. DEFINE i == (policy.counter % Len(map[r])) + 1
                  d0 == map[r][i]
      <4>1. Len(map[r]) \in Nat \ {0} /\ DOMAIN map[r] = 1 .. Len(map[r])
        BY <2>2, <3>2, LenProperties, EmptySeq
      <4>2. i \in DOMAIN map[r] /\ d0 \in Clients
        <5>1. policy.counter \in Nat
          BY <2>1, <2>6
        <5>2. policy.counter % Len(map[r]) \in 0 .. Len(map[r]) - 1
          BY <4>1, <5>1
        <5>3. i \in DOMAIN map[r]
          BY <4>1, <5>2
        <5>. QED  BY <2>2, <4>1, <5>3, ElementOfSeq
      <4>3. eps = <<d0>>
        BY <2>2, <2>6, <3>2 DEF Run, round_robin
      <4>4. RoleOf[d0] = r
        BY <2>2, <4>2 DEF Sorted
      <4>. HIDE DEF eps, d0, i
      <4>5. eps \in Seq(Clients)
        BY <4>2, <4>3
      <4>6. \A d \in Clients : d # d0 => Count(eps, d) = 0
        <5>1. ASSUME NEW d \in Clients, d # d0
              PROVE  \A j \in DOMAIN eps : eps[j] # d
          BY <4>3, <5>1
        <5>. QED  BY <4>5, <5>1, CountedIsThere
      <4>7. Count(eps, d0) = 1
        <5>1. {j \in DOMAIN eps : eps[j] = d0} = {1}
          BY <4>3
        <5>. QED  BY <5>1, FS_Singleton DEF Count
      <4>8. Count(map[r], d0) \in Nat /\ Count(map[r], d0) # 0
        <5>1. map[r][i] = d0
          BY DEF d0
        <5>. QED  BY <2>2, <4>2, <5>1, PlacesFinite, CountedIsThere
      <4>9. \A d \in Clients : Count(map[RoleOf[d]], d) \in Nat
        BY <1>0, PlacesFinite
      <4>10. \A d \in Clients : Count(eps, d) <= Count(map[RoleOf[d]], d)
        BY <4>4, <4>6, <4>7, <4>8, <4>9
      <4>11. Picks(policy, map, eps)
        BY <2>6, <4>4, <4>5, <4>6, <4>10 DEF Picks
      <4>. QED  BY <4>11 DEF eps
    <3>. QED  BY <3>1, <3>2
  <2>. QED  BY <2>1, <2>5, <2>6
<1>. QED  BY <1>1, <1>2

-----------------------------------------------------------------------------
(* What the calls of a client send *)

Counts == [Clients -> Nat]
Logs == [Clients -> Seq(Nat)]

IsDue(f, made, rest, seen, k) ==
    /\ f \in Counts
    /\ \A d \in Clients :
        /\ Count(seen[d], k) \in Nat /\ Count(rest, d) \in Nat
        /\ k = Len(made) => f[d] = Count(seen[d], k) + Count(rest, d)
        /\ k # Len(made) => f[d] = Count(seen[d], k)

LEMMA DueFacts ==
    ASSUME NEW made \in Seq(SendWith), NEW rest \in Seq(Clients), NEW seen \in Logs,
           NEW k \in Nat
    PROVE  IsDue(Due(made, rest, seen, k), made, rest, seen, k)
<1>1. \A d \in Clients : Count(seen[d], k) \in Nat /\ Count(rest, d) \in Nat
  <2>1. ASSUME NEW d \in Clients
        PROVE  Count(seen[d], k) \in Nat
    <3>1. seen[d] \in Seq(Nat)
      BY DEF Logs
    <3>. QED  BY <3>1, PlacesFinite
  <2>2. \A d \in Clients : Count(rest, d) \in Nat
    BY PlacesFinite
  <2>. QED  BY <2>1, <2>2
<1>2. \A d \in Clients : k # Len(made) => Due(made, rest, seen, k)[d] = Count(seen[d], k)
  BY <1>1 DEF Due
<1>3. \A d \in Clients : k = Len(made) =>
        Due(made, rest, seen, k)[d] = Count(seen[d], k) + Count(rest, d)
  BY <1>1 DEF Due
<1>4. Due(made, rest, seen, k) \in Counts
  BY <1>1 DEF Due, Counts
<1>. QED  BY <1>1, <1>2, <1>3, <1>4 DEF IsDue

AtMost(g, f) == \A d \in Clients : g[d] <= f[d]

\* Nothing is wrong with sending less than was picked.
LEMMA PickedLess ==
    ASSUME NEW c \in Clients, NEW policy \in SendWith, NEW f \in Counts, NEW g \in Counts,
           AtMost(g, f), Picked(c, policy, f)
    PROVE  Picked(c, policy, g)
<1>1. \A d \in Clients : f[d] \in Nat /\ g[d] \in Nat /\ g[d] <= f[d] /\ Links[c][d] \in Nat
  BY MembershipAssumption DEF Counts, AtMost
<1>2. \A d \in Clients : g[d] <= Links[c][d]
  BY <1>1 DEF Picked
<1>3. \A d \in Clients : f[d] = 0 => g[d] = 0
  BY <1>1
<1>4. \A d \in Clients :
        policy.name # "broadcast_any" /\ policy.role # RoleOf[d] => g[d] = 0
  BY <1>3 DEF Picked
<1>5. policy.name = "round_robin" =>
        \A d, e \in Clients : d # e => g[d] = 0 \/ g[e] = 0
  BY <1>3 DEF Picked
<1>. QED  BY <1>2, <1>4, <1>5 DEF Picked

\* More clients join.
LEMMA MoreJoined ==
    ASSUME NEW c, NEW joined, NEW more, joined \subseteq more, NEW made, NEW rest, NEW seen,
           SentAsPicked(c, joined, made, rest, seen)
    PROVE  SentAsPicked(c, more, made, rest, seen)
<1>. QED  BY DEF SentAsPicked

\* n[d] messages of the last call are passed to the transport for d.
Moves(joined, made, rest, seen, n, left, now) ==
    \A d \in Clients :
        /\ now[d] = Repeats(seen[d], n[d], Len(made))
        /\ n[d] + Count(left, d) <= Count(rest, d)
        /\ n[d] > 0 => d \in joined /\ made # <<>>

LEMMA MovesKeep ==
    ASSUME NEW c \in Clients, NEW joined, NEW made \in Seq(SendWith),
           NEW rest \in Seq(Clients), NEW left \in Seq(Clients),
           NEW seen \in Logs, NEW now \in Logs, NEW n \in Counts,
           SentAsPicked(c, joined, made, rest, seen),
           Moves(joined, made, rest, seen, n, left, now)
    PROVE  SentAsPicked(c, joined, made, left, now)
<1>. DEFINE L == Len(made)
<1>0. L \in Nat /\ DOMAIN made = 1 .. L
  BY LenProperties
<1>. HIDE DEF L
<1>1. ASSUME NEW d \in Clients
      PROVE  /\ now[d] # <<>> => d \in joined
             /\ \A i \in DOMAIN now[d] : now[d][i] \in 1 .. L
             /\ \A i, j \in DOMAIN now[d] : i < j => now[d][i] <= now[d][j]
  <2>. DEFINE s == seen[d]
              t == now[d]
              m == n[d]
  <2>1. s \in Seq(Nat) /\ m \in Nat /\ t = Repeats(s, m, L) /\ (m > 0 => d \in joined /\ L # 0)
    <3>1. s \in Seq(Nat) /\ m \in Nat
      BY DEF Logs, Counts
    <3>2. t = Repeats(s, m, L)
      BY DEF Moves, L
    <3>3. m > 0 => d \in joined /\ made # <<>>
      BY DEF Moves
    <3>. QED  BY <3>1, <3>2, <3>3, EmptySeq DEF L
  <2>2. /\ s # <<>> => d \in joined
        /\ \A i \in DOMAIN s : s[i] \in 1 .. L
        /\ \A i, j \in DOMAIN s : i < j => s[i] <= s[j]
    BY DEF SentAsPicked, L
  <2>. HIDE DEF s, t, m
  <2>3. /\ Len(s) \in Nat /\ DOMAIN s = 1 .. Len(s)
        /\ DOMAIN t = 1 .. Len(s) + m
        /\ \A i \in 1 .. Len(s) : t[i] = s[i]
        /\ \A i \in Len(s) + 1 .. Len(s) + m : t[i] = L
    <3>1. s \in Seq(Nat) /\ m \in Nat /\ L \in Nat
      BY <1>0, <2>1
    <3>2. IsRepeated(Repeats(s, m, L), s, m, L)
      BY <3>1, RepeatsFacts, Zenon
    <3>. QED  BY <2>1, <3>2 DEF IsRepeated
  <2>4. ASSUME NEW i \in DOMAIN t
        PROVE  \/ i \in DOMAIN s /\ t[i] = s[i]
               \/ i \notin DOMAIN s /\ t[i] = L /\ m > 0 /\ i > Len(s)
    BY <2>1, <2>3
  <2>5. t # <<>> => d \in joined
    <3>1. CASE m > 0
      BY <2>1, <3>1
    <3>2. CASE m = 0
      <4>1. DOMAIN t = DOMAIN s
        BY <2>3, <3>2
      <4>2. t # <<>> => s # <<>>
        <5>1. ASSUME s = <<>>
              PROVE  t = <<>>
          <6>1. Len(s) = 0
            BY <5>1
          <6>2. t \in Seq(Nat)
            BY DEF Logs, t
          <6>3. Len(t) \in Nat /\ DOMAIN t = 1 .. Len(t)
            BY <6>2, LenProperties
          <6>4. Len(t) = 0
            BY <2>3, <3>2, <6>1, <6>3
          <6>. QED  BY <6>2, <6>4, EmptySeq
        <5>. QED  BY <5>1
      <4>. QED  BY <2>2, <4>2
    <3>. QED  BY <2>1, <3>1, <3>2
  <2>6. \A i \in DOMAIN t : t[i] \in 1 .. L
    BY <1>0, <2>1, <2>2, <2>4
  <2>7. ASSUME NEW i \in DOMAIN t, NEW j \in DOMAIN t, i < j
        PROVE  t[i] <= t[j]
    <3>1. CASE j \in DOMAIN s
      <4>1. i \in DOMAIN s
        BY <2>3, <2>7, <3>1
      <4>2. t[i] = s[i] /\ t[j] = s[j]
        BY <2>4, <3>1, <4>1
      <4>. QED  BY <2>2, <2>7, <3>1, <4>1, <4>2
    <3>2. CASE j \notin DOMAIN s
      <4>1. t[j] = L /\ t[i] \in 1 .. L
        BY <2>4, <2>6, <3>2
      <4>. QED  BY <1>0, <4>1
    <3>. QED  BY <3>1, <3>2
  <2>. QED  BY <2>5, <2>6, <2>7 DEF s, t
<1>2. ASSUME NEW k \in DOMAIN made
      PROVE  Picked(c, made[k], Due(made, left, now, k))
  <2>. DEFINE f == Due(made, rest, seen, k)
              g == Due(made, left, now, k)
  <2>0. k \in Nat /\ made[k] \in SendWith
    BY <1>0, ElementOfSeq DEF L
  <2>1. /\ f \in Counts
        /\ \A d \in Clients :
            /\ Count(seen[d], k) \in Nat /\ Count(rest, d) \in Nat
            /\ k = L => f[d] = Count(seen[d], k) + Count(rest, d)
            /\ k # L => f[d] = Count(seen[d], k)
    <3>1. IsDue(Due(made, rest, seen, k), made, rest, seen, k)
      BY <2>0, DueFacts, Zenon
    <3>. QED  BY <3>1 DEF IsDue, L
  <2>2. /\ g \in Counts
        /\ \A d \in Clients :
            /\ Count(now[d], k) \in Nat /\ Count(left, d) \in Nat
            /\ k = L => g[d] = Count(now[d], k) + Count(left, d)
            /\ k # L => g[d] = Count(now[d], k)
    <3>1. IsDue(Due(made, left, now, k), made, left, now, k)
      BY <2>0, DueFacts, Zenon
    <3>. QED  BY <3>1 DEF IsDue, L
  <2>. HIDE DEF f, g
  <2>3. ASSUME NEW d \in Clients
        PROVE  g[d] <= f[d]
    <3>1. seen[d] \in Seq(Nat) /\ n[d] \in Nat /\ now[d] = Repeats(seen[d], n[d], L)
          /\ n[d] + Count(left, d) <= Count(rest, d)
      BY DEF Logs, Counts, Moves, L
    <3>2. CountsMore(Repeats(seen[d], n[d], L), seen[d], n[d], L, k)
      BY <1>0, <3>1, CountRepeats, Zenon
    <3>3. CASE k = L
      <4>1. Count(now[d], k) = Count(seen[d], k) + n[d]
        BY <3>1, <3>2, <3>3 DEF CountsMore
      <4>2. g[d] = Count(seen[d], k) + n[d] + Count(left, d)
        BY <2>2, <3>3, <4>1
      <4>3. f[d] = Count(seen[d], k) + Count(rest, d)
        BY <2>1, <3>3
      <4>4. Count(seen[d], k) \in Nat /\ Count(rest, d) \in Nat /\ Count(left, d) \in Nat
        BY <2>1, <2>2
      <4>. QED  BY <3>1, <4>2, <4>3, <4>4
    <3>4. CASE k # L
      <4>1. Count(now[d], k) = Count(seen[d], k)
        BY <3>1, <3>2, <3>4 DEF CountsMore
      <4>. QED  BY <2>1, <2>2, <3>4, <4>1
    <3>. QED  BY <3>3, <3>4
  <2>4. Picked(c, made[k], f)
    BY DEF SentAsPicked, f
  <2>5. AtMost(g, f)
    BY <2>3 DEF AtMost
  <2>6. Picked(c, made[k], g)
    BY <2>0, <2>1, <2>2, <2>4, <2>5, PickedLess
  <2>. QED  BY <2>6 DEF g
<1>. QED  BY <1>1, <1>2 DEF SentAsPicked, L

Listed(c, map) == \A d \in Clients : Count(map[RoleOf[d]], d) <= Links[c][d]

\* A new call picks its clients.
LEMMA CallKeeps ==
    ASSUME NEW c \in Clients, NEW joined, NEW made \in Seq(SendWith), NEW seen \in Logs,
           NEW policy \in SendWith, NEW map \in RoleMaps, NEW eps \in Seq(Clients),
           SentAsPicked(c, joined, made, <<>>, seen),
           Picks(policy, map, eps), Listed(c, map)
    PROVE  SentAsPicked(c, joined, Append(made, policy), eps, seen)
<1>. DEFINE L == Len(made)
            more == Append(made, policy)
<1>0. L \in Nat /\ DOMAIN made = 1 .. L
  BY LenProperties
<1>1. /\ more \in Seq(SendWith) /\ Len(more) = L + 1 /\ DOMAIN more = 1 .. L + 1
      /\ \A k \in 1 .. L : more[k] = made[k]
      /\ more[L + 1] = policy
  <2>1. /\ more \in Seq(SendWith) /\ Len(more) = L + 1
        /\ \A k \in 1 .. L : more[k] = made[k]
        /\ more[L + 1] = policy
    BY AppendProperties
  <2>2. DOMAIN more = 1 .. Len(more)
    BY <2>1, LenProperties
  <2>. QED  BY <2>1, <2>2
<1>2. ASSUME NEW d \in Clients
      PROVE  /\ seen[d] # <<>> => d \in joined
             /\ \A i \in DOMAIN seen[d] : seen[d][i] \in 1 .. L
             /\ \A i, j \in DOMAIN seen[d] : i < j => seen[d][i] <= seen[d][j]
  BY DEF SentAsPicked
<1>. HIDE DEF L, more
<1>3. \A d \in Clients : \A i \in DOMAIN seen[d] : seen[d][i] \in 1 .. Len(more)
  <2>1. 1 .. L \subseteq 1 .. Len(more)
    BY <1>0, <1>1
  <2>. QED  BY <1>2, <2>1
<1>4. ASSUME NEW k \in 1 .. L
      PROVE  Picked(c, more[k], Due(more, eps, seen, k))
  <2>. DEFINE f == Due(made, <<>>, seen, k)
              g == Due(more, eps, seen, k)
  <2>0. k \in Nat /\ k # L + 1 /\ made[k] \in SendWith /\ <<>> \in Seq(Clients)
    BY <1>0, ElementOfSeq DEF L
  <2>1. /\ f \in Counts
        /\ \A d \in Clients :
            /\ Count(seen[d], k) \in Nat
            /\ k = L => f[d] = Count(seen[d], k) + Count(<<>>, d)
            /\ k # L => f[d] = Count(seen[d], k)
    <3>1. IsDue(Due(made, <<>>, seen, k), made, <<>>, seen, k)
      BY <2>0, DueFacts, Zenon
    <3>. QED  BY <3>1 DEF IsDue, L
  <2>2. g \in Counts /\ \A d \in Clients : g[d] = Count(seen[d], k)
    <3>1. IsDue(Due(more, eps, seen, k), more, eps, seen, k)
      BY <1>1, <2>0, DueFacts, Zenon
    <3>. QED  BY <1>1, <2>0, <3>1 DEF IsDue
  <2>. HIDE DEF f, g
  <2>3. AtMost(g, f)
    BY <2>1, <2>2, CountEmpty DEF AtMost
  <2>4. Picked(c, made[k], f)
    BY <1>0 DEF SentAsPicked, f
  <2>5. Picked(c, made[k], g)
    BY <2>0, <2>1, <2>2, <2>3, <2>4, PickedLess
  <2>. QED  BY <1>1, <2>5 DEF g
<1>5. Picked(c, more[L + 1], Due(more, eps, seen, L + 1))
  <2>. DEFINE g == Due(more, eps, seen, L + 1)
  <2>1. \A d \in Clients : g[d] = Count(seen[d], L + 1) + Count(eps, d) /\ Count(eps, d) \in Nat
    <3>1. L + 1 \in Nat
      BY <1>0
    <3>2. IsDue(Due(more, eps, seen, L + 1), more, eps, seen, L + 1)
      BY <1>1, <3>1, DueFacts, Zenon
    <3>. QED  BY <1>1, <3>2 DEF IsDue
  <2>2. ASSUME NEW d \in Clients
        PROVE  Count(seen[d], L + 1) = 0
    <3>1. seen[d] \in Seq(Nat)
      BY DEF Logs
    <3>2. \A i \in DOMAIN seen[d] : seen[d][i] # L + 1
      BY <1>0, <1>2
    <3>. QED  BY <3>1, <3>2, CountedIsThere
  <2>. HIDE DEF g
  <2>3. \A d \in Clients : g[d] = Count(eps, d)
    BY <2>1, <2>2
  <2>4. ASSUME NEW d \in Clients
        PROVE  g[d] <= Links[c][d]
    <3>1. Count(eps, d) <= Count(map[RoleOf[d]], d) /\ Count(map[RoleOf[d]], d) <= Links[c][d]
      BY DEF Picks, Listed
    <3>2. Count(map[RoleOf[d]], d) \in Nat
      <4>1. map[RoleOf[d]] \in Seq(Clients)
        BY MembershipAssumption DEF RoleMaps
      <4>. QED  BY <4>1, PlacesFinite
    <3>3. Links[c][d] \in Nat
      BY MembershipAssumption
    <3>. QED  BY <2>1, <2>3, <3>1, <3>2, <3>3
  <2>5. Picked(c, policy, g)
    BY <2>3, <2>4 DEF Picks, Picked
  <2>. QED  BY <1>1, <2>5 DEF g
<1>6. \A k \in DOMAIN more : Picked(c, more[k], Due(more, eps, seen, k))
  <2>1. \A k \in DOMAIN more : k \in 1 .. L \/ k = L + 1
    BY <1>0, <1>1
  <2>. QED  BY <1>4, <1>5, <2>1
<1>7. SentAsPicked(c, joined, more, eps, seen)
  BY <1>2, <1>3, <1>6 DEF SentAsPicked
<1>. QED  BY <1>7 DEF more

-----------------------------------------------------------------------------
(* The messages of a channel *)

\* The calls of the messages under way; CallsSeen is what has been received and these.
Calling(q) == [k \in DOMAIN q |-> q[k].call]

IsConcat(r, s, t, n) ==
    /\ r \in Seq(Nat) /\ Len(s) \in Nat /\ Len(r) = Len(s) + n
    /\ \A i \in 1 .. Len(s) + n : r[i] = IF i <= Len(s) THEN s[i] ELSE t[i - Len(s)]

LEMMA ConcatFacts ==
    ASSUME NEW s \in Seq(Nat), NEW t \in Seq(Nat), NEW n, Len(t) = n
    PROVE  IsConcat(s \o t, s, t, n)
<1>1. /\ s \o t \in Seq(Nat) /\ Len(s \o t) = Len(s) + Len(t)
      /\ \A i \in 1 .. Len(s) + Len(t) :
            (s \o t)[i] = IF i <= Len(s) THEN s[i] ELSE t[i - Len(s)]
  BY ConcatProperties
<1>. QED  BY <1>1, LenProperties DEF IsConcat

LEMMA CallingFacts ==
    ASSUME NEW q \in Seq(Messages)
    PROVE  /\ Calling(q) \in Seq(Nat)
           /\ Len(q) \in Nat /\ DOMAIN q = 1 .. Len(q) /\ Len(Calling(q)) = Len(q)
           /\ \A k \in 1 .. Len(q) : q[k] \in Messages /\ Calling(q)[k] = q[k].call
<1>1. Len(q) \in Nat /\ DOMAIN q = 1 .. Len(q) /\ \A k \in 1 .. Len(q) : q[k] \in Messages
  BY LenProperties, ElementOfSeq
<1>2. \A m \in Messages : m.call \in Nat
  BY DataAssumption DEF Messages
<1>3. Calling(q) = [k \in 1 .. Len(q) |-> q[k].call]
  BY <1>1 DEF Calling
<1>4. \A k \in 1 .. Len(q) : q[k].call \in Nat
  BY <1>1, <1>2
<1>5. [k \in 1 .. Len(q) |-> q[k].call] \in Seq(Nat)
  BY <1>1, <1>4, IsASeq
<1>6. DOMAIN Calling(q) = 1 .. Len(q)
  BY <1>3
<1>7. Len(Calling(q)) = Len(q)
  BY <1>1, <1>3, <1>5, <1>6, LenProperties
<1>. QED  BY <1>1, <1>3, <1>5, <1>7

\* A message that is received has been seen before.
LEMMA SeenTaken ==
    ASSUME NEW g \in Seq(Nat), NEW q \in Seq(Messages), q # <<>>
    PROVE  Append(g, Head(q).call) \o Calling(Tail(q)) = g \o Calling(q)
<1>. DEFINE h == Head(q).call
            l == Append(g, h) \o Calling(Tail(q))
            r == g \o Calling(q)
<1>1. /\ Len(q) \in Nat \ {0} /\ Head(q) = q[1] /\ Head(q) \in Messages
      /\ Tail(q) \in Seq(Messages) /\ Len(Tail(q)) = Len(q) - 1
      /\ \A i \in 1 .. Len(q) - 1 : Tail(q)[i] = q[i + 1]
  <2>1. Len(q) \in Nat /\ Len(q) # 0 /\ Head(q) = q[1]
    BY LenProperties, EmptySeq
  <2>. QED  BY <2>1, HeadTailProperties
<1>2. /\ Calling(q) \in Seq(Nat) /\ Len(Calling(q)) = Len(q)
      /\ \A k \in 1 .. Len(q) : Calling(q)[k] = q[k].call
  BY CallingFacts
<1>3. /\ Calling(Tail(q)) \in Seq(Nat) /\ Len(Calling(Tail(q))) = Len(q) - 1
      /\ \A k \in 1 .. Len(q) - 1 : Calling(Tail(q))[k] = Tail(q)[k].call
  BY <1>1, CallingFacts
<1>4. h \in Nat /\ h = Calling(q)[1]
  BY <1>1, <1>2, DataAssumption DEF Messages
<1>. HIDE DEF h
<1>5. /\ Append(g, h) \in Seq(Nat) /\ Len(g) \in Nat /\ Len(Append(g, h)) = Len(g) + 1
      /\ \A i \in 1 .. Len(g) : Append(g, h)[i] = g[i]
      /\ Append(g, h)[Len(g) + 1] = h
  BY <1>4, AppendProperties, LenProperties
<1>6. /\ l \in Seq(Nat) /\ Len(l) = Len(g) + Len(q)
      /\ \A i \in 1 .. Len(g) + Len(q) :
            l[i] = IF i <= Len(g) + 1 THEN Append(g, h)[i] ELSE Calling(Tail(q))[i - (Len(g) + 1)]
  <2>1. IsConcat(l, Append(g, h), Calling(Tail(q)), Len(q) - 1)
    BY <1>3, <1>5, ConcatFacts
  <2>2. Len(g) + 1 + (Len(q) - 1) = Len(g) + Len(q)
    BY <1>1, <1>5
  <2>. HIDE DEF l
  <2>. QED  BY <1>5, <2>1, <2>2 DEF IsConcat
<1>7. /\ r \in Seq(Nat) /\ Len(r) = Len(g) + Len(q)
      /\ \A i \in 1 .. Len(g) + Len(q) :
            r[i] = IF i <= Len(g) THEN g[i] ELSE Calling(q)[i - Len(g)]
  <2>1. IsConcat(r, g, Calling(q), Len(q))
    BY <1>2, ConcatFacts
  <2>. HIDE DEF r
  <2>. QED  BY <2>1 DEF IsConcat
<1>. HIDE DEF l, r
<1>8. ASSUME NEW i \in 1 .. Len(g) + Len(q)
      PROVE  l[i] = r[i]
  <2>1. CASE i <= Len(g)
    <3>1. i \in 1 .. Len(g) /\ i <= Len(g) + 1
      BY <1>5, <2>1
    <3>2. l[i] = g[i]
      BY <1>5, <1>6, <3>1
    <3>. QED  BY <1>7, <2>1, <3>2
  <2>2. CASE i = Len(g) + 1
    <3>1. l[i] = h
      BY <1>5, <1>6, <2>2
    <3>2. ~(i <= Len(g)) /\ i - Len(g) = 1
      BY <1>5, <2>2
    <3>. QED  BY <1>4, <1>7, <3>1, <3>2
  <2>3. CASE i > Len(g) + 1
    <3>. DEFINE k == i - (Len(g) + 1)
    <3>1. k \in 1 .. Len(q) - 1 /\ k + 1 = i - Len(g) /\ k + 1 \in 1 .. Len(q)
      BY <1>1, <1>5, <2>3
    <3>2. ~(i <= Len(g) + 1) /\ ~(i <= Len(g))
      BY <1>5, <2>3
    <3>3. l[i] = Calling(Tail(q))[k] /\ r[i] = Calling(q)[i - Len(g)]
      BY <1>6, <1>7, <3>2
    <3>. HIDE DEF k
    <3>4. Calling(Tail(q))[k] = q[k + 1].call
      BY <1>1, <1>3, <3>1
    <3>5. Calling(q)[k + 1] = q[k + 1].call
      BY <1>2, <3>1
    <3>. QED  BY <3>1, <3>3, <3>4, <3>5
  <2>. QED  BY <1>1, <1>5, <2>1, <2>2, <2>3
<1>9. l = r
  BY <1>6, <1>7, <1>8, SeqEqual
<1>. QED  BY <1>9 DEF l, r, h

\* Messages that are sent are seen at the end.
LEMMA SeenSent ==
    ASSUME NEW g \in Seq(Nat), NEW q \in Seq(Messages), NEW m \in Messages, NEW n \in Nat
    PROVE  g \o Calling(Repeats(q, n, m)) = Repeats(g \o Calling(q), n, m.call)
<1>. DEFINE q2 == Repeats(q, n, m)
            s == g \o Calling(q)
            l == g \o Calling(q2)
            r == Repeats(s, n, m.call)
<1>0. m.call \in Nat
  BY DataAssumption DEF Messages
<1>1. /\ Calling(q) \in Seq(Nat) /\ Len(q) \in Nat /\ Len(Calling(q)) = Len(q)
      /\ \A k \in 1 .. Len(q) : Calling(q)[k] = q[k].call
  BY CallingFacts
<1>2. q2 \in Seq(Messages) /\ IsRepeated(q2, q, n, m)
  BY RepeatsFacts, Zenon
<1>3. /\ s \in Seq(Nat) /\ Len(g) \in Nat /\ Len(s) = Len(g) + Len(q)
      /\ \A i \in 1 .. Len(g) + Len(q) :
            s[i] = IF i <= Len(g) THEN g[i] ELSE Calling(q)[i - Len(g)]
  <2>1. IsConcat(s, g, Calling(q), Len(q))
    BY <1>1, ConcatFacts
  <2>. HIDE DEF s
  <2>. QED  BY <2>1 DEF IsConcat
<1>. HIDE DEF q2, s
<1>4. /\ DOMAIN q2 = 1 .. Len(q) + n /\ Len(q2) = Len(q) + n
      /\ \A i \in 1 .. Len(q) : q2[i] = q[i]
      /\ \A i \in Len(q) + 1 .. Len(q) + n : q2[i] = m
  BY <1>2 DEF IsRepeated
<1>5. /\ Calling(q2) \in Seq(Nat) /\ Len(Calling(q2)) = Len(q) + n
      /\ \A k \in 1 .. Len(q) + n : Calling(q2)[k] = q2[k].call
  BY <1>2, <1>4, CallingFacts
<1>6. r \in Seq(Nat) /\ IsRepeated(r, s, n, m.call)
  BY <1>0, <1>3, RepeatsFacts, Zenon
<1>7. /\ l \in Seq(Nat) /\ Len(l) = Len(g) + (Len(q) + n)
      /\ \A i \in 1 .. Len(g) + (Len(q) + n) :
            l[i] = IF i <= Len(g) THEN g[i] ELSE Calling(q2)[i - Len(g)]
  <2>1. IsConcat(l, g, Calling(q2), Len(q) + n)
    BY <1>5, ConcatFacts
  <2>. HIDE DEF l
  <2>. QED  BY <2>1 DEF IsConcat
<1>. HIDE DEF l, r
<1>8. /\ Len(r) = Len(g) + (Len(q) + n)
      /\ \A i \in 1 .. Len(g) + Len(q) : r[i] = s[i]
      /\ \A i \in Len(g) + Len(q) + 1 .. Len(g) + Len(q) + n : r[i] = m.call
  <2>1. Len(s) + n = Len(g) + (Len(q) + n)
    BY <1>1, <1>3
  <2>. QED  BY <1>3, <1>6, <2>1 DEF IsRepeated
<1>9. ASSUME NEW i \in 1 .. Len(g) + (Len(q) + n)
      PROVE  l[i] = r[i]
  <2>1. CASE i <= Len(g)
    <3>1. i \in 1 .. Len(g) + Len(q)
      BY <1>1, <1>3, <2>1
    <3>2. l[i] = g[i] /\ s[i] = g[i]
      BY <1>3, <1>7, <2>1, <3>1
    <3>. QED  BY <1>8, <3>1, <3>2
  <2>2. CASE i > Len(g) /\ i <= Len(g) + Len(q)
    <3>. DEFINE k == i - Len(g)
    <3>1. k \in 1 .. Len(q) /\ k \in 1 .. Len(q) + n /\ i \in 1 .. Len(g) + Len(q) /\ ~(i <= Len(g))
      BY <1>1, <1>3, <2>2
    <3>2. l[i] = Calling(q2)[k] /\ s[i] = Calling(q)[k] /\ r[i] = s[i]
      BY <1>3, <1>7, <1>8, <3>1
    <3>. HIDE DEF k
    <3>3. Calling(q2)[k] = q2[k].call /\ q2[k] = q[k] /\ Calling(q)[k] = q[k].call
      BY <1>1, <1>4, <1>5, <3>1
    <3>. QED  BY <3>2, <3>3
  <2>3. CASE i > Len(g) + Len(q)
    <3>. DEFINE k == i - Len(g)
    <3>1. /\ k \in Len(q) + 1 .. Len(q) + n /\ k \in 1 .. Len(q) + n /\ ~(i <= Len(g))
          /\ i \in Len(g) + Len(q) + 1 .. Len(g) + Len(q) + n
      BY <1>1, <1>3, <2>3
    <3>2. l[i] = Calling(q2)[k] /\ r[i] = m.call
      BY <1>7, <1>8, <3>1
    <3>. HIDE DEF k
    <3>3. Calling(q2)[k] = q2[k].call /\ q2[k] = m
      BY <1>4, <1>5, <3>1
    <3>. QED  BY <3>2, <3>3
  <2>. QED  BY <1>1, <1>3, <2>1, <2>2, <2>3
<1>10. l = r
  BY <1>6, <1>7, <1>8, <1>9, SeqEqual
<1>. QED  BY <1>10 DEF l, r, s, q2

-----------------------------------------------------------------------------
(* The steps: the context *)

LEMMA AddressedRoles == \A d \in Clients : RoleOf[d] \in Roles
BY MembershipAssumption

LEMMA MapsOfClients ==
    ASSUME TypeOK, KnowsPeers, NEW c \in Clients
    PROVE  knows[c] \in RoleMaps /\ Sorted(knows[c]) /\ Listed(c, knows[c])
<1>1. knows[c] \in RoleMaps
  BY DEF TypeOK, MembershipTypeOK, RoleMaps
<1>2. Sorted(knows[c]) /\ Listed(c, knows[c])
  BY DEF KnowsPeers, Sorted, Listed
<1>. QED  BY <1>1, <1>2

MembershipKept ==
    /\ MembershipTypeOK' /\ KnowsPeers'
    /\ \A d \in Clients : HasJoined(d) => HasJoined(d)'

LEMMA MembershipSame ==
    ASSUME TypeOK, KnowsPeers, UNCHANGED membershipVars
    PROVE  MembershipKept
<1>1. status' = status /\ knows' = knows
  BY DEF membershipVars
<1>. QED  BY <1>1 DEF MembershipKept, TypeOK, MembershipTypeOK, KnowsPeers, HasJoined

LEMMA BecomesKeeps ==
    ASSUME TypeOK, KnowsPeers, NEW c \in Clients, NEW from, NEW to, Becomes(c, from, to),
           to \in Statuses, to = "entering" => from = "outside", to # "outside"
    PROVE  MembershipKept
<1>1. /\ status \in [Clients -> Statuses] /\ status[c] = from
      /\ status' = [status EXCEPT ![c] = to] /\ knows' = knows
  BY DEF Becomes, TypeOK, MembershipTypeOK
<1>2. MembershipTypeOK'
  BY <1>1 DEF TypeOK, MembershipTypeOK
<1>3. ASSUME NEW d \in Clients, HasJoined(d)
      PROVE  HasJoined(d)'
  BY <1>1, <1>3 DEF HasJoined
<1>4. KnowsPeers'
  <2>1. ASSUME NEW e \in Clients, NEW r \in Roles, NEW i \in DOMAIN knows[e][r]
        PROVE  /\ RoleOf[knows[e][r][i]] = r
               /\ status'[knows[e][r][i]] \notin {"outside", "entering"}
    <3>1. RoleOf[knows[e][r][i]] = r /\ HasJoined(knows[e][r][i])
      BY DEF KnowsPeers
    <3>2. knows[e][r] \in Seq(Clients)
      BY DEF TypeOK, MembershipTypeOK
    <3>3. knows[e][r][i] \in Clients
      BY <3>2, LenProperties, ElementOfSeq
    <3>. QED  BY <1>3, <3>1, <3>3 DEF HasJoined
  <2>. QED  BY <1>1, <2>1 DEF KnowsPeers, HasJoined
<1>. QED  BY <1>2, <1>3, <1>4 DEF MembershipKept

LEMMA LearnsKeeps ==
    ASSUME TypeOK, KnowsPeers, NEW c \in Clients, NEW d \in Clients, Learns(c, d)
    PROVE  MembershipKept
<1>. DEFINE r == RoleOf[d]
            old == knows[c][r]
<1>1. /\ knows \in [Clients -> [Roles -> Seq(Clients)]] /\ r \in Roles
      /\ knows' = [knows EXCEPT ![c][r] = Append(old, d)] /\ status' = status
      /\ HasJoined(d) /\ Count(old, d) < Links[c][d]
  BY AddressedRoles DEF Learns, MayLearn, TypeOK, MembershipTypeOK, HasJoined, Count
<1>2. old \in Seq(Clients)
  BY <1>1
<1>. HIDE DEF r, old
<1>3. /\ Append(old, d) \in Seq(Clients)
      /\ Len(old) \in Nat /\ DOMAIN old = 1 .. Len(old)
      /\ DOMAIN Append(old, d) = 1 .. Len(old) + 1
      /\ \A i \in 1 .. Len(old) : Append(old, d)[i] = old[i]
      /\ Append(old, d)[Len(old) + 1] = d
  <2>1. Append(old, d) \in Seq(Clients) /\ Len(Append(old, d)) = Len(old) + 1
    BY <1>2, AppendProperties
  <2>2. DOMAIN Append(old, d) = 1 .. Len(Append(old, d))
    BY <2>1, LenProperties
  <2>. QED  BY <1>2, <2>1, <2>2, AppendProperties, LenProperties
<1>4. /\ knows' \in [Clients -> [Roles -> Seq(Clients)]]
      /\ knows'[c][r] = Append(old, d)
      /\ \A e \in Clients : \A q \in Roles : e # c \/ q # r => knows'[e][q] = knows[e][q]
  BY <1>1, <1>3
<1>5. MembershipTypeOK'
  BY <1>1, <1>4 DEF TypeOK, MembershipTypeOK
<1>6. \A e \in Clients : HasJoined(e) => HasJoined(e)'
  BY <1>1 DEF HasJoined
<1>7. ASSUME NEW e \in Clients, NEW q \in Roles, NEW i \in DOMAIN knows'[e][q]
      PROVE  RoleOf[knows'[e][q][i]] = q /\ HasJoined(knows'[e][q][i])
  <2>1. CASE e # c \/ q # r
    <3>1. knows'[e][q] = knows[e][q]
      BY <1>4, <2>1
    <3>. QED  BY <3>1 DEF KnowsPeers
  <2>2. CASE e = c /\ q = r
    <3>1. i \in 1 .. Len(old) \/ i = Len(old) + 1
      BY <1>3, <1>4, <2>2
    <3>2. CASE i \in 1 .. Len(old)
      <4>1. knows'[e][q][i] = knows[e][q][i] /\ i \in DOMAIN knows[e][q]
        BY <1>3, <1>4, <2>2, <3>2 DEF old
      <4>. QED  BY <4>1 DEF KnowsPeers
    <3>3. CASE i = Len(old) + 1
      <4>1. knows'[e][q][i] = d
        BY <1>3, <1>4, <2>2, <3>3
      <4>. QED  BY <1>1, <2>2, <4>1 DEF r
    <3>. QED  BY <3>1, <3>2, <3>3
  <2>. QED  BY <2>1, <2>2
<1>8. ASSUME NEW e \in Clients, NEW f \in Clients
      PROVE  Count(knows'[e][RoleOf[f]], f) <= Links[e][f]
  <2>0. RoleOf[f] \in Roles /\ Count(knows[e][RoleOf[f]], f) <= Links[e][f]
    BY AddressedRoles DEF KnowsPeers
  <2>1. CASE e # c \/ RoleOf[f] # r
    <3>1. knows'[e][RoleOf[f]] = knows[e][RoleOf[f]]
      BY <1>4, <2>0, <2>1
    <3>. QED  BY <2>0, <3>1
  <2>2. CASE e = c /\ RoleOf[f] = r
    <3>1. CountsMore(Append(old, d), old, 1, d, f)
      <4>1. CountsMore(Repeats(old, 1, d), old, 1, d, f)
        BY <1>2, CountRepeats
      <4>. QED  BY <1>2, <4>1, AppendRepeats
    <3>2. Count(old, f) \in Nat /\ Links[e][f] \in Nat
      BY <1>2, PlacesFinite, MembershipAssumption
    <3>3. CASE f = d
      <4>1. Count(Append(old, d), f) = Count(old, f) + 1
        BY <3>1, <3>3 DEF CountsMore
      <4>. QED  BY <1>1, <1>4, <2>2, <3>2, <3>3, <4>1
    <3>4. CASE f # d
      <4>1. Count(Append(old, d), f) = Count(old, f)
        BY <3>1, <3>4 DEF CountsMore
      <4>. QED  BY <1>4, <2>0, <2>2, <4>1 DEF old
    <3>. QED  BY <3>3, <3>4
  <2>. QED  BY <2>1, <2>2
<1>9. KnowsPeers'
  <2>1. \A e \in Clients : \A q \in Roles : \A i \in DOMAIN knows'[e][q] :
            /\ RoleOf[knows'[e][q][i]] = q
            /\ status'[knows'[e][q][i]] \notin {"outside", "entering"}
    BY <1>1, <1>7 DEF HasJoined
  <2>. QED  BY <1>8, <2>1 DEF KnowsPeers, HasJoined
<1>. QED  BY <1>5, <1>6, <1>9 DEF MembershipKept

LEMMA StepMembership ==
    ASSUME TypeOK, KnowsPeers, [Next]_vars
    PROVE  MembershipKept
<1>1. ASSUME UNCHANGED membershipVars
      PROVE  MembershipKept
  BY <1>1, MembershipSame
<1>2. ASSUME NEW c \in Clients,
             Enters(c) \/ Joins(c) \/ Leaves(c) \/ Dismissed(c) \/ Left(c)
      PROVE  MembershipKept
  <2>1. CASE Enters(c)
    <3>1. Becomes(c, "outside", "entering")
      BY <2>1 DEF Enters
    <3>. QED  BY <3>1, BecomesKeeps DEF Statuses
  <2>2. CASE Joins(c)
    <3>1. Becomes(c, "entering", "member")
      BY <2>2 DEF Joins
    <3>. QED  BY <3>1, BecomesKeeps DEF Statuses
  <2>3. CASE Leaves(c)
    <3>1. Becomes(c, "member", "leaving")
      BY <2>3 DEF Leaves
    <3>. QED  BY <3>1, BecomesKeeps DEF Statuses
  <2>4. CASE Dismissed(c)
    <3>1. Becomes(c, "leaving", "dismissed")
      BY <2>4 DEF Dismissed
    <3>. QED  BY <3>1, BecomesKeeps DEF Statuses
  <2>5. CASE Left(c)
    <3>1. Becomes(c, "dismissed", "left")
      BY <2>5 DEF Left
    <3>. QED  BY <3>1, BecomesKeeps DEF Statuses
  <2>. QED  BY <1>2, <2>1, <2>2, <2>3, <2>4, <2>5
<1>3. ASSUME NEW c \in Clients, NEW d \in Clients, LearnsNow(c, d)
      PROVE  MembershipKept
  BY <1>3, LearnsKeeps DEF LearnsNow
<1>4. ASSUME NEW c \in Clients, Applies(c)
      PROVE  MembershipKept
  <2>1. CASE Learns(c, waiting[c])
    <3>1. waiting[c] \in Clients
      <4>1. wait[c] = "woken" /\ waiting[c] \in Clients \cup {NoClient}
        BY <1>4 DEF Applies, TypeOK
      <4>. QED  BY <4>1 DEF TypeOK
    <3>. QED  BY <2>1, <3>1, LearnsKeeps
  <2>2. CASE UNCHANGED membershipVars
    BY <1>1, <2>2
  <2>. QED  BY <1>4, <2>1, <2>2 DEF Applies
<1>5. ASSUME NEW c \in Clients, NEW d \in Clients, Receives(c, d)
      PROVE  MembershipKept
  BY <1>1, <1>5 DEF Receives, Takes
<1>6. ASSUME NEW c \in Clients, NEW d \in Clients, Blocks(c, d)
      PROVE  MembershipKept
  BY <1>1, <1>6 DEF Blocks
<1>7. ASSUME NEW c \in Clients, NEW policy \in SendWith,
             SendCalled(c, policy) \/ AsyncSend(c, policy)
      PROVE  MembershipKept
  BY <1>1, <1>7 DEF SendCalled, AsyncSend
<1>8. ASSUME NEW c \in Clients, PostsSmall(c) \/ PostsLarge(c) \/ Sleeps(c) \/ Rechecks(c)
      PROVE  MembershipKept
  BY <1>1, <1>8 DEF PostsSmall, PostsLarge, Sleeps, Rechecks
<1>9. ASSUME NEW c \in Clients, Acknowledged(c) \/ Closes(c) \/ Comes(c) \/ Stops(c)
      PROVE  MembershipKept
  BY <1>2, <1>9 DEF Acknowledged, Closes, Comes, Stops
<1>10. CASE UNCHANGED vars
  BY <1>1, <1>10 DEF vars
<1>. QED  BY <1>3, <1>4, <1>5, <1>6, <1>7, <1>8, <1>9, <1>10 DEF Next, Thread

-----------------------------------------------------------------------------
(* The steps: types *)

LEMMA ClientTypes ==
    ASSUME TypeOK, NEW c \in Clients
    PROVE  /\ calls[c] \in Seq(SendWith) /\ targets[c] \in Seq(Clients)
           /\ posted[c] \in BOOLEAN
           /\ data[c] \in [Clients -> Seq(Messages)]
           /\ got[c] \in [Clients -> Seq(1 .. MaxCalls)]
           /\ Unposted(c) \in Seq(Clients)
<1>1. /\ calls[c] \in Seq(SendWith) /\ targets[c] \in Seq(Clients)
      /\ posted[c] \in BOOLEAN
      /\ data[c] \in [Clients -> Seq(Messages)]
      /\ got[c] \in [Clients -> Seq(1 .. MaxCalls)]
      /\ posted[c] => targets[c] # <<>>
  BY DEF TypeOK
<1>2. targets[c] # <<>> => Tail(targets[c]) \in Seq(Clients)
  BY <1>1, HeadTailProperties
<1>3. Unposted(c) \in Seq(Clients)
  BY <1>1, <1>2 DEF Unposted
<1>. QED  BY <1>1, <1>3

LEMMA PassedTypes ==
    ASSUME TypeOK, NEW c \in Clients, NEW d \in Clients
    PROVE  /\ data[c][d] \in Seq(Messages)
           /\ got[c][d] \in Seq(1 .. MaxCalls) /\ got[c][d] \in Seq(Nat)
           /\ CallsSeen(c, d) = got[c][d] \o Calling(data[c][d])
           /\ CallsSeen(c, d) \in Seq(Nat)
<1>1. data[c][d] \in Seq(Messages) /\ got[c][d] \in Seq(1 .. MaxCalls)
  BY ClientTypes
<1>2. got[c][d] \in Seq(Nat)
  <2>. DEFINE s == got[c][d]
  <2>1. s \in Seq(1 .. MaxCalls) /\ 1 .. MaxCalls \subseteq Nat
    BY <1>1, DataAssumption
  <2>. HIDE DEF s
  <2>2. s \in [1 .. Len(s) -> 1 .. MaxCalls] /\ Len(s) \in Nat
    BY <2>1, LenProperties
  <2>3. s \in [1 .. Len(s) -> Nat]
    BY <2>1, <2>2
  <2>4. s \in Seq(Nat)
    BY <2>2, <2>3, SeqDef
  <2>. QED  BY <2>4 DEF s
<1>3. CallsSeen(c, d) = got[c][d] \o Calling(data[c][d])
  BY DEF CallsSeen, Calling
<1>4. Calling(data[c][d]) \in Seq(Nat)
  BY <1>1, CallingFacts
<1>. QED  BY <1>1, <1>2, <1>3, <1>4, ConcatProperties

\* The view: what SendsTo does keeps its types.
LEMMA SendsToTypes ==
    ASSUME TypeOK, NEW c \in Clients, NEW eps \in Seq(Clients), SendsTo(c, eps)
    PROVE  /\ targets' \in [Clients -> Seq(Clients)]
           /\ targets'[c] = eps /\ \A e \in Clients \ {c} : targets'[e] = targets[e]
           /\ wait' \in [Clients -> {"running", "checked", "asleep", "woken"}]
           /\ \A e \in Clients : (wait'[e] = "running") = (wait[e] = "running")
<1>1. /\ targets \in [Clients -> Seq(Clients)]
      /\ wait \in [Clients -> {"running", "checked", "asleep", "woken"}]
      /\ targets' = [targets EXCEPT ![c] = eps]
      /\ wait' = [wait EXCEPT ![c] =
                    IF wait[c] = "asleep" /\ eps = <<>> THEN "woken" ELSE wait[c]]
  BY DEF TypeOK, SendsTo
<1>. QED  BY <1>1

\* A row of a table of queues changes at one place.
LEMMA RowTypes ==
    ASSUME NEW S, NEW f \in [Clients -> [Clients -> Seq(S)]], NEW c \in Clients,
           NEW d \in Clients, NEW q \in Seq(S)
    PROVE  /\ [f EXCEPT ![c][d] = q] \in [Clients -> [Clients -> Seq(S)]]
           /\ [f EXCEPT ![c][d] = q][c] = [f[c] EXCEPT ![d] = q]
           /\ \A e \in Clients \ {c} : [f EXCEPT ![c][d] = q][e] = f[e]
OBVIOUS

LEMMA TypesKept ==
    ASSUME IInv, [Next]_vars
    PROVE  TypeOK'
<1>. DEFINE Threads == \A e \in Clients : (wait[e] = "running") = (waiting[e] = NoClient)
            Views == \A e \in Clients : posted[e] => targets[e] # <<>>
<1>0. /\ TypeOK /\ KnowsPeers /\ SendsRight /\ MembershipTypeOK' /\ Threads /\ Views
      /\ calls \in [Clients -> Seq(SendWith)]
      /\ targets \in [Clients -> Seq(Clients)]
      /\ posted \in [Clients -> BOOLEAN]
      /\ data \in [Clients -> [Clients -> Seq(Messages)]]
      /\ got \in [Clients -> [Clients -> Seq(1 .. MaxCalls)]]
      /\ waiting \in [Clients -> Clients \cup {NoClient}]
      /\ wait \in [Clients -> {"running", "checked", "asleep", "woken"}]
  BY StepMembership DEF IInv, MembershipKept, TypeOK
<1>1. ASSUME NEW c \in Clients, NEW policy \in SendWith, SendCalled(c, policy)
      PROVE  TypeOK'
  <2>. DEFINE eps == Run(policy, knows[c])
  <2>1. eps \in Seq(Clients)
    BY <1>0, MapsOfClients, RunPicks DEF Picks
  <2>2. SendsTo(c, eps) /\ targets[c] = <<>> /\ UNCHANGED <<posted, data, got, waiting>>
    BY <1>1 DEF SendCalled, MaySend
  <2>. HIDE DEF eps
  <2>3. /\ targets' \in [Clients -> Seq(Clients)]
        /\ \A e \in Clients \ {c} : targets'[e] = targets[e]
        /\ wait' \in [Clients -> {"running", "checked", "asleep", "woken"}]
        /\ \A e \in Clients : (wait'[e] = "running") = (wait[e] = "running")
    BY <1>0, <2>1, <2>2, SendsToTypes
  <2>4. calls' \in [Clients -> Seq(SendWith)]
    BY <1>0, <1>1, AppendProperties DEF SendCalled
  <2>5. Threads' /\ Views'
    BY <1>0, <2>2, <2>3
  <2>. QED  BY <1>0, <2>2, <2>3, <2>4, <2>5 DEF TypeOK
<1>2. ASSUME NEW c \in Clients, NEW policy \in SendWith, AsyncSend(c, policy)
      PROVE  TypeOK'
  <2>. DEFINE n(d) == Count(Run(policy, knows[c]), d)
              m == [call |-> Len(calls'[c]), blocks |-> FALSE]
  <2>1. Run(policy, knows[c]) \in Seq(Clients)
    BY <1>0, MapsOfClients, RunPicks DEF Picks
  <2>2. \A d \in Clients : n(d) \in Nat
    BY <2>1, PlacesFinite
  <2>3. /\ SendsTo(c, <<>>) /\ targets[c] = <<>> /\ UNCHANGED <<posted, got, waiting>>
        /\ Len(calls[c]) < MaxCalls /\ calls' = [calls EXCEPT ![c] = Append(calls[c], policy)]
    BY <1>2 DEF AsyncSend, MaySend
  <2>4. data' = [data EXCEPT ![c] = [d \in Clients |-> Repeats(data[c][d], n(d), m)]]
    BY <1>0, <1>2 DEF AsyncSend, Repeats
  <2>5. m \in Messages
    <3>1. Len(calls[c]) \in Nat /\ Len(Append(calls[c], policy)) = Len(calls[c]) + 1
      BY <1>0, AppendProperties, LenProperties
    <3>2. Len(calls'[c]) \in 1 .. MaxCalls
      BY <1>0, <2>3, <3>1, DataAssumption
    <3>. QED  BY <3>2 DEF Messages
  <2>. HIDE DEF n, m
  <2>6. ASSUME NEW d \in Clients
        PROVE  Repeats(data[c][d], n(d), m) \in Seq(Messages)
    <3>1. data[c][d] \in Seq(Messages) /\ n(d) \in Nat
      BY <1>0, <2>2
    <3>. QED  BY <2>5, <3>1, RepeatsFacts
  <2>7. data' \in [Clients -> [Clients -> Seq(Messages)]]
    BY <1>0, <2>4, <2>6
  <2>8. /\ targets' \in [Clients -> Seq(Clients)]
        /\ \A e \in Clients \ {c} : targets'[e] = targets[e]
        /\ wait' \in [Clients -> {"running", "checked", "asleep", "woken"}]
        /\ \A e \in Clients : (wait'[e] = "running") = (wait[e] = "running")
    <3>1. <<>> \in Seq(Clients)
      OBVIOUS
    <3>. QED  BY <1>0, <2>3, <3>1, SendsToTypes
  <2>9. calls' \in [Clients -> Seq(SendWith)]
    BY <1>0, <2>3, AppendProperties
  <2>10. Threads' /\ Views'
    BY <1>0, <2>3, <2>8
  <2>. QED  BY <1>0, <2>3, <2>7, <2>8, <2>9, <2>10 DEF TypeOK
<1>3. ASSUME NEW c \in Clients, NEW blocks \in BOOLEAN, Posts(c, blocks)
      PROVE  data' \in [Clients -> [Clients -> Seq(Messages)]] /\ Tail(targets[c]) \in Seq(Clients)
  <2>. DEFINE h == Head(targets[c])
              m == [call |-> Len(calls[c]), blocks |-> blocks]
  <2>1. targets[c] # <<>> /\ data' = [data EXCEPT ![c][h] = Append(data[c][h], m)]
    BY <1>3 DEF Posts
  <2>2. h \in Clients /\ Tail(targets[c]) \in Seq(Clients)
    BY <1>0, <2>1, HeadTailProperties
  <2>3. m \in Messages
    <3>1. calls[c] \in Seq(SendWith) /\ calls[c] # <<>> /\ Len(calls[c]) <= MaxCalls
      BY <1>0, <2>1 DEF SendsRight, TargetsJoined
    <3>2. Len(calls[c]) \in 1 .. MaxCalls
      BY <3>1, LenProperties, EmptySeq, DataAssumption
    <3>. QED  BY <3>2 DEF Messages
  <2>. HIDE DEF h, m
  <2>4. Append(data[c][h], m) \in Seq(Messages)
    BY <1>0, <2>2, <2>3, AppendProperties
  <2>. QED  BY <1>0, <2>1, <2>2, <2>4, RowTypes
<1>4. ASSUME NEW c \in Clients, PostsSmall(c)
      PROVE  TypeOK'
  <2>1. /\ Posts(c, FALSE) /\ SendsTo(c, Tail(targets[c])) /\ ~posted[c]
        /\ UNCHANGED <<calls, posted, got, waiting>>
    BY <1>4 DEF PostsSmall, Posts, SendsNext
  <2>2. data' \in [Clients -> [Clients -> Seq(Messages)]] /\ Tail(targets[c]) \in Seq(Clients)
    BY <1>3, <2>1
  <2>3. /\ targets' \in [Clients -> Seq(Clients)]
        /\ \A e \in Clients \ {c} : targets'[e] = targets[e]
        /\ wait' \in [Clients -> {"running", "checked", "asleep", "woken"}]
        /\ \A e \in Clients : (wait'[e] = "running") = (wait[e] = "running")
    BY <1>0, <2>1, <2>2, SendsToTypes
  <2>4. Threads' /\ Views'
    BY <1>0, <2>1, <2>3
  <2>. QED  BY <1>0, <2>1, <2>2, <2>3, <2>4 DEF TypeOK
<1>5. ASSUME NEW c \in Clients, PostsLarge(c)
      PROVE  TypeOK'
  <2>1. /\ Posts(c, TRUE) /\ targets[c] # <<>> /\ posted' = [posted EXCEPT ![c] = TRUE]
        /\ UNCHANGED <<calls, targets, got, waiting, wait>>
    BY <1>5 DEF PostsLarge, Posts
  <2>2. data' \in [Clients -> [Clients -> Seq(Messages)]]
    BY <1>3, <2>1
  <2>3. Threads' /\ Views' /\ posted' \in [Clients -> BOOLEAN]
    BY <1>0, <2>1
  <2>. QED  BY <1>0, <2>1, <2>2, <2>3 DEF TypeOK
<1>6. ASSUME NEW d \in Clients, NEW c \in Clients, Receives(d, c)
      PROVE  TypeOK'
  <2>. DEFINE q == data[c][d]
  <2>1. /\ q # <<>> /\ data' = [data EXCEPT ![c][d] = Tail(q)]
        /\ got' = [got EXCEPT ![c][d] = Append(got[c][d], Head(q).call)]
        /\ UNCHANGED <<calls, waiting>>
    BY <1>6 DEF Receives, Takes
  <2>2. q \in Seq(Messages) /\ Tail(q) \in Seq(Messages) /\ Head(q) \in Messages
    BY <1>0, <2>1, HeadTailProperties
  <2>. HIDE DEF q
  <2>3. data' \in [Clients -> [Clients -> Seq(Messages)]]
    BY <1>0, <2>1, <2>2, RowTypes
  <2>4. got' \in [Clients -> [Clients -> Seq(1 .. MaxCalls)]]
    <3>1. Head(q).call \in 1 .. MaxCalls /\ got[c][d] \in Seq(1 .. MaxCalls)
      BY <1>0, <2>2 DEF Messages
    <3>2. Append(got[c][d], Head(q).call) \in Seq(1 .. MaxCalls)
      BY <3>1, AppendProperties
    <3>. QED  BY <1>0, <2>1, <3>2, RowTypes
  <2>5. CASE UNCHANGED <<posted, targets, wait>>
    <3>1. Threads' /\ Views'
      BY <1>0, <2>1, <2>5
    <3>. QED  BY <1>0, <2>1, <2>3, <2>4, <2>5, <3>1 DEF TypeOK
  <2>6. CASE posted[c] /\ SendsNext(c) /\ posted' = [posted EXCEPT ![c] = FALSE]
    <3>1. targets[c] # <<>> /\ Tail(targets[c]) \in Seq(Clients)
      BY <1>0, <2>6, HeadTailProperties
    <3>2. /\ targets' \in [Clients -> Seq(Clients)]
          /\ \A e \in Clients \ {c} : targets'[e] = targets[e]
          /\ wait' \in [Clients -> {"running", "checked", "asleep", "woken"}]
          /\ \A e \in Clients : (wait'[e] = "running") = (wait[e] = "running")
      BY <1>0, <2>6, <3>1, SendsToTypes DEF SendsNext
    <3>3. Threads' /\ Views' /\ posted' \in [Clients -> BOOLEAN]
      BY <1>0, <2>1, <2>6, <3>2
    <3>. QED  BY <1>0, <2>1, <2>3, <2>4, <3>2, <3>3 DEF TypeOK
  <2>. QED  BY <1>6, <2>5, <2>6 DEF Receives
<1>7. ASSUME UNCHANGED dataVars
      PROVE  TypeOK'
  BY <1>0, <1>7 DEF dataVars, TypeOK
<1>8. ASSUME NEW c \in Clients, NEW d \in Clients, LearnsNow(c, d)
      PROVE  TypeOK'
  BY <1>7, <1>8 DEF LearnsNow
<1>9. ASSUME NEW c \in Clients, NEW d \in Clients, Blocks(c, d)
      PROVE  TypeOK'
  <2>1. /\ waiting' = [waiting EXCEPT ![c] = d] /\ wait' = [wait EXCEPT ![c] = "checked"]
        /\ UNCHANGED <<calls, targets, posted, data, got>>
    BY <1>9 DEF Blocks
  <2>2. d # NoClient
    BY NoClientAssumption
  <2>3. Threads' /\ Views'
    BY <1>0, <2>1, <2>2
  <2>. QED  BY <1>0, <2>1, <2>3 DEF TypeOK
<1>10. ASSUME NEW c \in Clients, Sleeps(c) \/ Rechecks(c)
       PROVE  TypeOK'
  <2>1. /\ UNCHANGED <<calls, targets, posted, data, got, waiting>>
        /\ wait' \in [Clients -> {"running", "checked", "asleep", "woken"}]
        /\ \A e \in Clients : (wait'[e] = "running") = (wait[e] = "running")
    BY <1>0, <1>10 DEF Sleeps, Rechecks
  <2>2. Threads' /\ Views'
    BY <1>0, <2>1
  <2>. QED  BY <1>0, <2>1, <2>2 DEF TypeOK
<1>11. ASSUME NEW c \in Clients, Applies(c)
       PROVE  TypeOK'
  <2>1. /\ waiting' = [waiting EXCEPT ![c] = NoClient] /\ wait' = [wait EXCEPT ![c] = "running"]
        /\ UNCHANGED <<calls, targets, posted, data, got>>
    BY <1>11 DEF Applies
  <2>2. Threads' /\ Views'
    BY <1>0, <2>1
  <2>. QED  BY <1>0, <2>1, <2>2 DEF TypeOK
<1>12. ASSUME NEW c \in Clients, Acknowledged(c) \/ Closes(c) \/ Comes(c) \/ Stops(c)
       PROVE  TypeOK'
  BY <1>7, <1>12 DEF Acknowledged, Closes, Comes, Stops
<1>13. CASE UNCHANGED vars
  BY <1>7, <1>13 DEF vars
<1>. HIDE DEF Threads, Views
<1>. QED  BY <1>1, <1>2, <1>4, <1>5, <1>6, <1>8, <1>9, <1>10, <1>11, <1>12, <1>13
          DEF Next, Thread

-----------------------------------------------------------------------------
(* The steps: what has been sent *)

LEMMA RepeatsNone ==
    ASSUME NEW S, NEW s \in Seq(S), NEW y \in S
    PROVE  Repeats(s, 0, y) = s
<1>1. Repeats(s, 0, y) \in Seq(S) /\ IsRepeated(Repeats(s, 0, y), s, 0, y)
  <2>1. 0 \in Nat
    OBVIOUS
  <2>. QED  BY <2>1, RepeatsFacts, Zenon
<1>. DEFINE r == Repeats(s, 0, y)
<1>. HIDE DEF r
<1>2. Len(r) = Len(s) /\ \A i \in 1 .. Len(s) : r[i] = s[i]
  BY <1>1 DEF IsRepeated, r
<1>3. r \in Seq(S)
  BY <1>1 DEF r
<1>4. r = s
  BY <1>2, <1>3, SeqEqual
<1>. QED  BY <1>4 DEF r

LEMMA SeenOfFacts ==
    ASSUME TypeOK, NEW c \in Clients
    PROVE  /\ SeenOf(c) \in Logs
           /\ \A d \in Clients :
                SeenOf(c)[d] = got[c][d] \o Calling(data[c][d])
<1>1. \A d \in Clients : CallsSeen(c, d) \in Seq(Nat)
        /\ CallsSeen(c, d) = got[c][d] \o Calling(data[c][d])
  BY PassedTypes
<1>. QED  BY <1>1 DEF SeenOf, Logs

LEMMA SeenOfNext ==
    ASSUME NEW c \in Clients
    PROVE  \A d \in Clients : SeenOf(c)'[d] = got'[c][d] \o Calling(data'[c][d])
<1>1. \A d \in Clients : CallsSeen(c, d)' = got'[c][d] \o Calling(data'[c][d])
  BY DEF CallsSeen, Calling
<1>. QED  BY <1>1 DEF SeenOf

LEMMA LogsAll == TypeOK => \A c \in Clients : SeenOf(c) \in Logs
BY SeenOfFacts

LEMMA LogsNext ==
    ASSUME TypeOK'
    PROVE  \A c \in Clients : SeenOf(c)' \in Logs
<1>1. (TypeOK => \A c \in Clients : SeenOf(c) \in Logs)'
  BY LogsAll, PTL
<1>. QED  BY <1>1

\* The clients that have joined remain so.
LEMMA JoinedMore ==
    ASSUME MembershipKept
    PROVE  JoinedClients \subseteq JoinedClients'
<1>1. \A d \in Clients : HasJoined(d) => HasJoined(d)'
  BY DEF MembershipKept
<1>. QED  BY <1>1 DEF JoinedClients

AllJoined(eps) == \A i \in DOMAIN eps : eps[i] \in JoinedClients

LEMMA TargetsStayJoined ==
    ASSUME MembershipKept, NEW c \in Clients, NEW eps \in Seq(Clients), AllJoined(eps),
           targets'[c] = eps, Len(calls'[c]) <= MaxCalls, eps # <<>> => calls'[c] # <<>>
    PROVE  TargetsJoined(c)'
<1>1. \A i \in DOMAIN eps : eps[i] \in JoinedClients'
  BY JoinedMore DEF AllJoined
<1>2. \A i \in DOMAIN eps : status'[eps[i]] \notin {"outside", "entering"}
  BY <1>1 DEF JoinedClients, HasJoined
<1>. QED  BY <1>2 DEF TargetsJoined, HasJoined

LEMMA TargetsAllJoined ==
    ASSUME IInv, NEW c \in Clients
    PROVE  /\ AllJoined(targets[c])
           /\ targets[c] # <<>> =>
                AllJoined(Tail(targets[c])) /\ Head(targets[c]) \in JoinedClients
<1>1. targets[c] \in Seq(Clients)
  BY ClientTypes DEF IInv
<1>2. AllJoined(targets[c])
  <2>1. \A i \in DOMAIN targets[c] : targets[c][i] \in Clients
    BY <1>1, LenProperties, ElementOfSeq
  <2>. QED  BY <2>1 DEF IInv, SendsRight, TargetsJoined, AllJoined, JoinedClients
<1>3. ASSUME targets[c] # <<>>
      PROVE  AllJoined(Tail(targets[c])) /\ Head(targets[c]) \in JoinedClients
  <2>. DEFINE s == targets[c]
  <2>1. /\ Len(s) \in Nat \ {0} /\ DOMAIN s = 1 .. Len(s) /\ Head(s) = s[1]
        /\ Tail(s) \in Seq(Clients) /\ Len(Tail(s)) = Len(s) - 1
        /\ \A i \in 1 .. Len(s) - 1 : Tail(s)[i] = s[i + 1]
    <3>1. Len(s) \in Nat /\ Len(s) # 0 /\ Head(s) = s[1] /\ DOMAIN s = 1 .. Len(s)
      BY <1>1, <1>3, LenProperties, EmptySeq
    <3>2. Tail(s) \in Seq(Clients) /\ Len(Tail(s)) = Len(s) - 1
          /\ \A i \in 1 .. Len(Tail(s)) : Tail(s)[i] = s[i + 1]
      BY <1>1, <1>3, HeadTailProperties
    <3>. QED  BY <3>1, <3>2
  <2>2. DOMAIN Tail(s) = 1 .. Len(s) - 1
    BY <2>1, LenProperties
  <2>3. \A i \in DOMAIN s : s[i] \in JoinedClients
    BY <1>2 DEF AllJoined
  <2>. HIDE DEF s
  <2>4. \A i \in 1 .. Len(s) - 1 : Tail(s)[i] \in JoinedClients
    BY <2>1, <2>3
  <2>5. Head(s) \in JoinedClients
    BY <2>1, <2>3
  <2>6. AllJoined(Tail(s))
    BY <2>2, <2>4 DEF AllJoined
  <2>. QED  BY <2>5, <2>6 DEF s
<1>. QED  BY <1>2, <1>3

\* A policy picks clients that have joined.
LEMMA PicksJoined ==
    ASSUME TypeOK, KnowsPeers, NEW c \in Clients, NEW policy, NEW eps,
           Picks(policy, knows[c], eps)
    PROVE  AllJoined(eps) /\ \A d \in Clients : Count(eps, d) > 0 => d \in JoinedClients
<1>1. ASSUME NEW d \in Clients, Count(eps, d) # 0
      PROVE  d \in JoinedClients
  <2>. DEFINE known == knows[c][RoleOf[d]]
  <2>1. known \in Seq(Clients) /\ RoleOf[d] \in Roles
    BY AddressedRoles DEF TypeOK, MembershipTypeOK
  <2>2. Count(eps, d) \in Nat /\ Count(known, d) \in Nat /\ Count(eps, d) <= Count(known, d)
    <3>1. eps \in Seq(Clients) /\ Count(eps, d) <= Count(known, d)
      BY DEF Picks
    <3>2. Count(eps, d) \in Nat
      BY <3>1, PlacesFinite
    <3>3. Count(known, d) \in Nat
      BY <2>1, PlacesFinite
    <3>. QED  BY <3>1, <3>2, <3>3
  <2>3. Count(known, d) # 0
    BY <1>1, <2>2
  <2>4. PICK i \in DOMAIN known : known[i] = d
    BY <2>1, <2>3, CountedIsThere
  <2>5. HasJoined(known[i])
    BY <2>1, <2>4 DEF KnowsPeers
  <2>. QED  BY <2>4, <2>5 DEF JoinedClients
<1>2. ASSUME NEW i \in DOMAIN eps
      PROVE  eps[i] \in JoinedClients
  <2>1. eps \in Seq(Clients)
    BY DEF Picks
  <2>2. eps[i] \in Clients
    BY <2>1, LenProperties, ElementOfSeq
  <2>3. Count(eps, eps[i]) # 0
    BY <2>1, CountedIsThere
  <2>. QED  BY <1>1, <2>2, <2>3
<1>3. \A d \in Clients : Count(eps, d) > 0 => d \in JoinedClients
  <2>1. \A d \in Clients : Count(eps, d) > 0 => Count(eps, d) # 0
    OBVIOUS
  <2>. QED  BY <1>1, <2>1
<1>. QED  BY <1>2, <1>3 DEF AllJoined

\* A client of whose calls a step changes nothing.
LEMMA SameSender ==
    ASSUME IInv, MembershipKept, NEW c \in Clients,
           calls'[c] = calls[c], targets'[c] = targets[c], posted'[c] = posted[c],
           data'[c] = data[c], got'[c] = got[c]
    PROVE  TargetsJoined(c)' /\ SentRight(c)'
<1>1. TargetsJoined(c) /\ SentRight(c) /\ targets[c] \in Seq(Clients)
  BY ClientTypes DEF IInv, SendsRight
<1>2. TargetsJoined(c)'
  <2>1. AllJoined(targets[c])
    BY TargetsAllJoined
  <2>2. targets[c] # <<>> => calls'[c] # <<>>
    BY <1>1 DEF TargetsJoined
  <2>3. Len(calls'[c]) <= MaxCalls
    BY <1>1 DEF TargetsJoined
  <2>. QED  BY <1>1, <2>1, <2>2, <2>3, TargetsStayJoined
<1>3. Unposted(c)' = Unposted(c)
  BY DEF Unposted
<1>4. SeenOf(c)' = SeenOf(c)
  BY DEF SeenOf, CallsSeen
<1>5. SentAsPicked(c, JoinedClients', calls[c], Unposted(c), SeenOf(c))
  <2>1. SentAsPicked(c, JoinedClients, calls[c], Unposted(c), SeenOf(c))
    BY <1>1 DEF SentRight
  <2>. QED  BY <2>1, JoinedMore, MoreJoined
<1>6. SentRight(c)'
  BY <1>3, <1>4, <1>5 DEF SentRight
<1>. QED  BY <1>2, <1>6

LEMMA SendCalledKeeps ==
    ASSUME IInv, MembershipKept, NEW c \in Clients, NEW policy \in SendWith,
           SendCalled(c, policy)
    PROVE  TargetsJoined(c)' /\ SentRight(c)'
<1>. DEFINE eps == Run(policy, knows[c])
            made == calls[c]
<1>1. /\ calls' = [calls EXCEPT ![c] = Append(calls[c], policy)]
      /\ targets' = [targets EXCEPT ![c] = eps]
      /\ targets[c] = <<>> /\ Len(calls[c]) < MaxCalls
      /\ posted' = posted /\ data' = data /\ got' = got
  BY DEF SendCalled, MaySend, SendsTo
<1>2. TypeOK /\ KnowsPeers /\ SentRight(c) /\ made \in Seq(SendWith) /\ ~posted[c]
  BY <1>1, ClientTypes DEF IInv, SendsRight, TypeOK
<1>3. /\ knows[c] \in RoleMaps /\ Listed(c, knows[c])
      /\ Picks(policy, knows[c], eps) /\ eps \in Seq(Clients)
  BY <1>2, MapsOfClients, RunPicks DEF Picks
<1>. HIDE DEF eps, made
<1>4. calls'[c] = Append(made, policy) /\ targets'[c] = eps
  BY <1>1, <1>2 DEF TypeOK, made
<1>5. Len(made) \in Nat /\ Len(Append(made, policy)) = Len(made) + 1 /\ Append(made, policy) # <<>>
  BY <1>2, AppendProperties, LenProperties
<1>6. TargetsJoined(c)'
  <2>1. AllJoined(eps)
    BY <1>2, <1>3, PicksJoined
  <2>2. Len(calls'[c]) <= MaxCalls
    BY <1>1, <1>4, <1>5, DataAssumption DEF made
  <2>3. calls'[c] # <<>>
    BY <1>4, <1>5
  <2>. QED  BY <1>3, <1>4, <2>1, <2>2, <2>3, TargetsStayJoined
<1>7. SentRight(c)'
  <2>1. SentAsPicked(c, JoinedClients, made, <<>>, SeenOf(c))
    BY <1>1, <1>2 DEF SentRight, Unposted, made
  <2>2. SeenOf(c) \in Logs
    BY <1>2, SeenOfFacts
  <2>3. SentAsPicked(c, JoinedClients, Append(made, policy), eps, SeenOf(c))
    BY <1>2, <1>3, <2>1, <2>2, CallKeeps
  <2>4. SentAsPicked(c, JoinedClients', Append(made, policy), eps, SeenOf(c))
    BY <2>3, JoinedMore, MoreJoined
  <2>5. Unposted(c)' = eps
    BY <1>1, <1>2, <1>4 DEF Unposted
  <2>6. SeenOf(c)' = SeenOf(c)
    BY <1>1 DEF SeenOf, CallsSeen
  <2>. QED  BY <1>4, <2>4, <2>5, <2>6 DEF SentRight
<1>. QED  BY <1>6, <1>7

LEMMA AsyncSendKeeps ==
    ASSUME IInv, TypeOK', MembershipKept, NEW c \in Clients, NEW policy \in SendWith,
           AsyncSend(c, policy)
    PROVE  TargetsJoined(c)' /\ SentRight(c)'
<1>. DEFINE eps == Run(policy, knows[c])
            made == calls[c]
            more == Append(made, policy)
            n == [d \in Clients |-> Count(eps, d)]
            m == [call |-> Len(more), blocks |-> FALSE]
<1>1. /\ calls' = [calls EXCEPT ![c] = Append(calls[c], policy)]
      /\ targets' = [targets EXCEPT ![c] = <<>>]
      /\ targets[c] = <<>> /\ Len(calls[c]) < MaxCalls
      /\ posted' = posted /\ got' = got
  BY DEF AsyncSend, MaySend, SendsTo
<1>2. TypeOK /\ KnowsPeers /\ SentRight(c) /\ made \in Seq(SendWith) /\ ~posted[c]
  BY <1>1, ClientTypes DEF IInv, SendsRight, TypeOK
<1>3. /\ knows[c] \in RoleMaps /\ Listed(c, knows[c])
      /\ Picks(policy, knows[c], eps) /\ eps \in Seq(Clients)
  BY <1>2, MapsOfClients, RunPicks DEF Picks
<1>4. calls'[c] = more /\ targets'[c] = <<>>
  BY <1>1, <1>2 DEF TypeOK
<1>5. /\ Len(made) \in Nat /\ Len(more) = Len(made) + 1 /\ more # <<>>
      /\ more \in Seq(SendWith) /\ Len(more) \in 1 .. MaxCalls
  <2>1. /\ Len(made) \in Nat /\ Len(more) = Len(made) + 1 /\ more # <<>>
        /\ more \in Seq(SendWith)
    BY <1>2, AppendProperties, LenProperties
  <2>2. Len(made) < MaxCalls
    BY <1>1
  <2>. HIDE DEF made, more
  <2>. QED  BY <2>1, <2>2, DataAssumption
<1>6. \A d \in Clients : data'[c][d] = Repeats(data[c][d], Count(eps, d), m)
  BY <1>2, <1>4 DEF AsyncSend, Repeats, TypeOK
<1>7. m \in Messages /\ m.call = Len(more)
  BY <1>5 DEF Messages
<1>. HIDE DEF eps, made, more, m
<1>8. TargetsJoined(c)'
  <2>1. AllJoined(<<>>) /\ <<>> \in Seq(Clients)
    BY DEF AllJoined
  <2>2. Len(calls'[c]) <= MaxCalls
    BY <1>4, <1>5, DataAssumption
  <2>. QED  BY <1>4, <2>1, <2>2, TargetsStayJoined
<1>9. n \in Counts /\ \A d \in Clients : n[d] = Count(eps, d)
  BY <1>3, PlacesFinite DEF Counts
<1>. HIDE DEF n
<1>10. SentAsPicked(c, JoinedClients, more, eps, SeenOf(c)) /\ SeenOf(c) \in Logs
  <2>1. SentAsPicked(c, JoinedClients, made, <<>>, SeenOf(c))
    BY <1>1, <1>2 DEF SentRight, Unposted, made
  <2>2. SeenOf(c) \in Logs
    BY <1>2, SeenOfFacts
  <2>. QED  BY <1>2, <1>3, <2>1, <2>2, CallKeeps DEF more
<1>11. ASSUME NEW d \in Clients
       PROVE  /\ SeenOf(c)'[d] = Repeats(SeenOf(c)[d], n[d], Len(more))
              /\ n[d] + Count(<<>>, d) <= Count(eps, d)
              /\ n[d] > 0 => d \in JoinedClients /\ more # <<>>
  <2>1. SeenOf(c)'[d] = got[c][d] \o Calling(Repeats(data[c][d], n[d], m))
    BY <1>1, <1>6, <1>9, SeenOfNext
  <2>2. got[c][d] \in Seq(Nat) /\ data[c][d] \in Seq(Messages) /\ n[d] \in Nat
    BY <1>2, <1>9, PassedTypes DEF Counts
  <2>3. got[c][d] \o Calling(Repeats(data[c][d], n[d], m))
            = Repeats(got[c][d] \o Calling(data[c][d]), n[d], m.call)
    BY <1>7, <2>2, SeenSent
  <2>4. SeenOf(c)[d] = got[c][d] \o Calling(data[c][d])
    BY <1>2, SeenOfFacts
  <2>5. SeenOf(c)'[d] = Repeats(SeenOf(c)[d], n[d], Len(more))
    BY <1>7, <2>1, <2>3, <2>4
  <2>6. n[d] + Count(<<>>, d) <= Count(eps, d)
    BY <1>9, <2>2, CountEmpty
  <2>7. n[d] > 0 => d \in JoinedClients /\ more # <<>>
    BY <1>2, <1>3, <1>5, <1>9, PicksJoined
  <2>. QED  BY <2>5, <2>6, <2>7
<1>12. SentRight(c)'
  <2>1. Moves(JoinedClients, more, eps, SeenOf(c), n, <<>>, SeenOf(c)')
    BY <1>11 DEF Moves
  <2>2. SeenOf(c)' \in Logs /\ <<>> \in Seq(Clients)
    BY LogsNext
  <2>3. SentAsPicked(c, JoinedClients, more, <<>>, SeenOf(c)')
    BY <1>3, <1>5, <1>9, <1>10, <2>1, <2>2, MovesKeep
  <2>4. SentAsPicked(c, JoinedClients', more, <<>>, SeenOf(c)')
    BY <2>3, JoinedMore, MoreJoined
  <2>5. Unposted(c)' = <<>>
    BY <1>1, <1>2, <1>4 DEF Unposted
  <2>. QED  BY <1>4, <2>4, <2>5 DEF SentRight
<1>. QED  BY <1>8, <1>12

\* Both ways to pass one message to the transport: what is left to be sent afterwards is
\* the tail of the targets.
LEMMA PostsKeep ==
    ASSUME IInv, TypeOK', MembershipKept, NEW c \in Clients, NEW blocks \in BOOLEAN,
           Posts(c, blocks), calls' = calls, got' = got,
           Unposted(c)' = Tail(targets[c])
    PROVE  SentRight(c)'
<1>. DEFINE s == targets[c]
            h == Head(s)
            made == calls[c]
            n == [d \in Clients |-> IF d = h THEN 1 ELSE 0]
            m == [call |-> Len(made), blocks |-> blocks]
<1>1. s # <<>> /\ ~posted[c] /\ data' = [data EXCEPT ![c][h] = Append(data[c][h], m)]
  BY DEF Posts
<1>2. /\ TypeOK /\ SentRight(c) /\ TargetsJoined(c) /\ made \in Seq(SendWith)
      /\ s \in Seq(Clients) /\ h \in JoinedClients /\ h \in Clients /\ Tail(s) \in Seq(Clients)
  <2>1. TypeOK /\ SentRight(c) /\ TargetsJoined(c) /\ made \in Seq(SendWith) /\ s \in Seq(Clients)
    BY ClientTypes DEF IInv, SendsRight
  <2>2. h \in JoinedClients
    BY <1>1, TargetsAllJoined
  <2>. QED  BY <1>1, <2>1, <2>2, HeadTailProperties
<1>3. made # <<>> /\ Len(made) \in 1 .. MaxCalls /\ Len(made) \in Nat
  <2>1. made # <<>> /\ Len(made) <= MaxCalls
    BY <1>1, <1>2 DEF TargetsJoined
  <2>. HIDE DEF made
  <2>. QED  BY <1>2, <2>1, LenProperties, EmptySeq, DataAssumption
<1>4. m \in Messages /\ m.call = Len(made)
  BY <1>3 DEF Messages
<1>5. n \in Counts /\ n[h] = 1 /\ \A d \in Clients : d # h => n[d] = 0
  <2>. HIDE DEF h
  <2>. QED  BY <1>2 DEF Counts
<1>. HIDE DEF s, h, made, n, m
<1>6. ASSUME NEW d \in Clients
      PROVE  SeenOf(c)'[d] = Repeats(SeenOf(c)[d], n[d], Len(made))
  <2>1. got[c][d] \in Seq(Nat) /\ data[c][d] \in Seq(Messages) /\ n[d] \in Nat
    BY <1>2, <1>5, PassedTypes DEF Counts
  <2>2. data'[c][d] = Repeats(data[c][d], n[d], m)
    <3>0. data \in [Clients -> [Clients -> Seq(Messages)]]
      BY <1>2 DEF TypeOK
    <3>1. CASE d = h
      <4>1. data'[c][d] = Append(data[c][d], m)
        BY <1>1, <1>2, <3>0, <3>1
      <4>. QED  BY <1>4, <1>5, <2>1, <3>1, <4>1, AppendRepeats
    <3>2. CASE d # h
      <4>1. data'[c][d] = data[c][d]
        BY <1>1, <1>2, <3>0, <3>2
      <4>. QED  BY <1>4, <1>5, <2>1, <3>2, <4>1, RepeatsNone
    <3>. QED  BY <3>1, <3>2
  <2>3. SeenOf(c)'[d] = got[c][d] \o Calling(Repeats(data[c][d], n[d], m))
    BY <2>2, SeenOfNext
  <2>4. got[c][d] \o Calling(Repeats(data[c][d], n[d], m))
            = Repeats(got[c][d] \o Calling(data[c][d]), n[d], m.call)
    BY <1>4, <2>1, SeenSent
  <2>5. SeenOf(c)[d] = got[c][d] \o Calling(data[c][d])
    BY <1>2, SeenOfFacts
  <2>. QED  BY <1>4, <2>3, <2>4, <2>5
<1>7. ASSUME NEW d \in Clients
      PROVE  n[d] + Count(Tail(s), d) <= Count(s, d)
  <2>1. Count(s, d) = Count(Tail(s), d) + (IF Head(s) = d THEN 1 ELSE 0)
    BY <1>1, <1>2, CountTail
  <2>2. Count(Tail(s), d) \in Nat
    BY <1>2, PlacesFinite
  <2>3. CASE d = h
    <3>1. Count(s, d) = Count(Tail(s), d) + 1
      BY <2>1, <2>3 DEF h
    <3>. QED  BY <1>5, <2>2, <2>3, <3>1
  <2>4. CASE d # h
    <3>1. Count(s, d) = Count(Tail(s), d) + 0
      BY <2>1, <2>4 DEF h
    <3>. QED  BY <1>5, <2>2, <2>4, <3>1
  <2>. QED  BY <2>3, <2>4
<1>8. Moves(JoinedClients, made, s, SeenOf(c), n, Tail(s), SeenOf(c)')
  <2>1. \A d \in Clients : n[d] > 0 => d \in JoinedClients /\ made # <<>>
    BY <1>2, <1>3, <1>5
  <2>. QED  BY <1>6, <1>7, <2>1 DEF Moves
<1>9. SentAsPicked(c, JoinedClients, made, Tail(s), SeenOf(c)')
  <2>1. SentAsPicked(c, JoinedClients, made, s, SeenOf(c))
    BY <1>1, <1>2 DEF SentRight, Unposted, made, s
  <2>2. SeenOf(c) \in Logs /\ SeenOf(c)' \in Logs
    BY <1>2, LogsNext, SeenOfFacts
  <2>. QED  BY <1>2, <1>5, <1>8, <2>1, <2>2, MovesKeep
<1>10. SentAsPicked(c, JoinedClients', made, Tail(s), SeenOf(c)')
  BY <1>9, JoinedMore, MoreJoined
<1>. QED  BY <1>10 DEF SentRight, made, s

LEMMA PostsSmallKeeps ==
    ASSUME IInv, TypeOK', MembershipKept, NEW c \in Clients, PostsSmall(c)
    PROVE  TargetsJoined(c)' /\ SentRight(c)'
<1>1. /\ targets' = [targets EXCEPT ![c] = Tail(targets[c])]
      /\ targets[c] # <<>> /\ ~posted[c]
      /\ calls' = calls /\ posted' = posted /\ got' = got /\ Posts(c, FALSE)
  BY DEF PostsSmall, Posts, SendsNext, SendsTo
<1>2. TypeOK /\ TargetsJoined(c) /\ targets[c] \in Seq(Clients)
  BY ClientTypes DEF IInv, SendsRight
<1>3. targets'[c] = Tail(targets[c]) /\ Tail(targets[c]) \in Seq(Clients)
  BY <1>1, <1>2, HeadTailProperties DEF TypeOK
<1>4. TargetsJoined(c)'
  <2>1. AllJoined(Tail(targets[c]))
    BY <1>1, TargetsAllJoined
  <2>2. Len(calls'[c]) <= MaxCalls /\ calls'[c] # <<>>
    BY <1>1, <1>2 DEF TargetsJoined
  <2>. QED  BY <1>3, <2>1, <2>2, TargetsStayJoined
<1>5. Unposted(c)' = Tail(targets[c])
  BY <1>1, <1>3 DEF Unposted
<1>6. SentRight(c)'
  BY <1>1, <1>5, PostsKeep
<1>. QED  BY <1>4, <1>6

LEMMA PostsLargeKeeps ==
    ASSUME IInv, TypeOK', MembershipKept, NEW c \in Clients, PostsLarge(c)
    PROVE  TargetsJoined(c)' /\ SentRight(c)'
<1>1. /\ targets' = targets /\ posted' = [posted EXCEPT ![c] = TRUE]
      /\ targets[c] # <<>> /\ calls' = calls /\ got' = got /\ Posts(c, TRUE)
  BY DEF PostsLarge, Posts
<1>2. TypeOK /\ TargetsJoined(c) /\ targets[c] \in Seq(Clients)
  BY ClientTypes DEF IInv, SendsRight
<1>3. TargetsJoined(c)'
  <2>1. AllJoined(targets[c])
    BY TargetsAllJoined
  <2>2. Len(calls'[c]) <= MaxCalls /\ calls'[c] # <<>>
    BY <1>1, <1>2 DEF TargetsJoined
  <2>. QED  BY <1>1, <1>2, <2>1, <2>2, TargetsStayJoined
<1>4. posted'[c]
  BY <1>1, <1>2 DEF TypeOK
<1>5. Unposted(c)' = Tail(targets[c])
  BY <1>1, <1>4 DEF Unposted
<1>6. SentRight(c)'
  BY <1>1, <1>5, PostsKeep
<1>. QED  BY <1>3, <1>6

\* A message of c is received: what has been passed to the transport and what is left
\* are the same, also when the send goes on.
LEMMA ReceivesKeeps ==
    ASSUME IInv, TypeOK', MembershipKept, NEW c \in Clients, NEW d \in Clients,
           Receives(d, c)
    PROVE  TargetsJoined(c)' /\ SentRight(c)'
<1>. DEFINE waits == Head(data[c][d]).blocks /\ posted[c]
<1>1. /\ data[c][d] # <<>>
      /\ data' = [data EXCEPT ![c][d] = Tail(data[c][d])]
      /\ got' = [got EXCEPT ![c][d] = Append(got[c][d], Head(data[c][d]).call)]
      /\ calls' = calls
      /\ waits => /\ targets' = [targets EXCEPT ![c] = Tail(targets[c])]
                  /\ posted' = [posted EXCEPT ![c] = FALSE]
      /\ ~waits => targets' = targets /\ posted' = posted
  BY DEF Receives, Takes, SendsNext, SendsTo
<1>2. /\ TypeOK /\ TargetsJoined(c) /\ SentRight(c)
      /\ targets[c] \in Seq(Clients) /\ (posted[c] => targets[c] # <<>>)
      /\ targets \in [Clients -> Seq(Clients)] /\ posted \in [Clients -> BOOLEAN]
  BY ClientTypes DEF IInv, SendsRight, TypeOK
<1>3. waits => /\ posted[c] /\ targets[c] # <<>>
               /\ targets'[c] = Tail(targets[c]) /\ ~posted'[c]
  BY <1>1, <1>2
<1>. HIDE DEF waits
<1>4. TargetsJoined(c)'
  <2>1. Len(calls'[c]) <= MaxCalls /\ (targets[c] # <<>> => calls'[c] # <<>>)
    BY <1>1, <1>2 DEF TargetsJoined
  <2>2. CASE waits
    <3>1. AllJoined(Tail(targets[c])) /\ Tail(targets[c]) \in Seq(Clients)
      BY <1>2, <1>3, <2>2, TargetsAllJoined, HeadTailProperties
    <3>. QED  BY <1>3, <2>1, <2>2, <3>1, TargetsStayJoined
  <2>3. CASE ~waits
    <3>1. AllJoined(targets[c])
      BY TargetsAllJoined
    <3>. QED  BY <1>1, <1>2, <2>1, <2>3, <3>1, TargetsStayJoined
  <2>. QED  BY <2>2, <2>3
<1>5. Unposted(c)' = Unposted(c)
  BY <1>1, <1>3 DEF Unposted
<1>6. ASSUME NEW e \in Clients
      PROVE  SeenOf(c)'[e] = SeenOf(c)[e]
  <2>1. /\ got \in [Clients -> [Clients -> Seq(1 .. MaxCalls)]]
        /\ data \in [Clients -> [Clients -> Seq(Messages)]]
    BY <1>2 DEF TypeOK
  <2>2. SeenOf(c)'[e] = got'[c][e] \o Calling(data'[c][e])
    BY SeenOfNext
  <2>3. SeenOf(c)[e] = got[c][e] \o Calling(data[c][e])
    BY <1>2, SeenOfFacts
  <2>4. CASE e = d
    <3>1. /\ got'[c][d] = Append(got[c][d], Head(data[c][d]).call)
          /\ data'[c][d] = Tail(data[c][d])
      BY <1>1, <2>1
    <3>2. got[c][d] \in Seq(Nat) /\ data[c][d] \in Seq(Messages)
      BY <1>2, PassedTypes
    <3>3. Append(got[c][d], Head(data[c][d]).call) \o Calling(Tail(data[c][d]))
            = got[c][d] \o Calling(data[c][d])
      BY <1>1, <3>2, SeenTaken
    <3>4. got'[c][d] \o Calling(data'[c][d]) = got[c][d] \o Calling(data[c][d])
      BY <3>1, <3>3
    <3>. QED  BY <2>2, <2>3, <2>4, <3>4
  <2>5. CASE e # d
    <3>1. got'[c][e] = got[c][e] /\ data'[c][e] = data[c][e]
      BY <1>1, <2>1, <2>5
    <3>. QED  BY <2>2, <2>3, <3>1
  <2>. QED  BY <2>4, <2>5
<1>7. SeenOf(c)' = SeenOf(c)
  <2>1. SeenOf(c) \in Logs /\ SeenOf(c)' \in Logs
    BY <1>2, LogsNext, SeenOfFacts
  <2>. QED  BY <1>6, <2>1 DEF Logs
<1>8. SentAsPicked(c, JoinedClients', calls[c], Unposted(c), SeenOf(c))
  <2>1. SentAsPicked(c, JoinedClients, calls[c], Unposted(c), SeenOf(c))
    BY <1>2 DEF SentRight
  <2>. QED  BY <2>1, JoinedMore, MoreJoined
<1>9. SentRight(c)'
  BY <1>1, <1>5, <1>7, <1>8 DEF SentRight
<1>. QED  BY <1>4, <1>9

LEMMA SendsKept ==
    ASSUME IInv, TypeOK', MembershipKept, [Next]_vars
    PROVE  SendsRight'
<1>. DEFINE Kept(c) == TargetsJoined(c)' /\ SentRight(c)'
            Same(c) == /\ calls'[c] = calls[c] /\ targets'[c] = targets[c]
                       /\ posted'[c] = posted[c] /\ data'[c] = data[c] /\ got'[c] = got[c]
<1>1. ASSUME NEW c \in Clients, Same(c)
      PROVE  Kept(c)
  BY <1>1, SameSender
<1>2. /\ calls \in [Clients -> Seq(SendWith)] /\ targets \in [Clients -> Seq(Clients)]
      /\ posted \in [Clients -> BOOLEAN]
      /\ data \in [Clients -> [Clients -> Seq(Messages)]]
      /\ got \in [Clients -> [Clients -> Seq(1 .. MaxCalls)]]
  BY DEF IInv, TypeOK
<1>3. ASSUME NEW c \in Clients, NEW policy \in SendWith, NEW e \in Clients,
             SendCalled(c, policy)
      PROVE  Kept(e)
  <2>1. CASE e = c
    BY <1>3, <2>1, SendCalledKeeps
  <2>2. CASE e # c
    <3>1. Same(e)
      BY <1>2, <1>3, <2>2 DEF SendCalled, SendsTo
    <3>. QED  BY <1>1, <3>1
  <2>. QED  BY <2>1, <2>2
<1>4. ASSUME NEW c \in Clients, NEW policy \in SendWith, NEW e \in Clients,
             AsyncSend(c, policy)
      PROVE  Kept(e)
  <2>1. CASE e = c
    BY <1>4, <2>1, AsyncSendKeeps
  <2>2. CASE e # c
    <3>1. Same(e)
      BY <1>2, <1>4, <2>2 DEF AsyncSend, SendsTo
    <3>. QED  BY <1>1, <3>1
  <2>. QED  BY <2>1, <2>2
<1>5. ASSUME NEW c \in Clients, NEW e \in Clients, PostsSmall(c)
      PROVE  Kept(e)
  <2>1. CASE e = c
    BY <1>5, <2>1, PostsSmallKeeps
  <2>2. CASE e # c
    <3>1. Same(e)
      BY <1>2, <1>5, <2>2 DEF PostsSmall, Posts, SendsNext, SendsTo
    <3>. QED  BY <1>1, <3>1
  <2>. QED  BY <2>1, <2>2
<1>6. ASSUME NEW c \in Clients, NEW e \in Clients, PostsLarge(c)
      PROVE  Kept(e)
  <2>1. CASE e = c
    BY <1>6, <2>1, PostsLargeKeeps
  <2>2. CASE e # c
    <3>1. Same(e)
      BY <1>2, <1>6, <2>2 DEF PostsLarge, Posts
    <3>. QED  BY <1>1, <3>1
  <2>. QED  BY <2>1, <2>2
<1>7. ASSUME NEW d \in Clients, NEW c \in Clients, NEW e \in Clients, Receives(d, c)
      PROVE  Kept(e)
  <2>1. CASE e = c
    BY <1>7, <2>1, ReceivesKeeps
  <2>2. CASE e # c
    <3>1. Same(e)
      BY <1>2, <1>7, <2>2 DEF Receives, Takes, SendsNext, SendsTo
    <3>. QED  BY <1>1, <3>1
  <2>. QED  BY <2>1, <2>2
<1>8. ASSUME NEW e \in Clients, UNCHANGED <<calls, targets, posted, data, got>>
      PROVE  Kept(e)
  BY <1>1, <1>8
<1>. HIDE DEF Kept, Same
<1>9. ASSUME NEW e \in Clients, NEW c \in Clients, NEW d \in Clients,
              LearnsNow(c, d) \/ Blocks(c, d)
       PROVE  Kept(e)
  BY <1>8, <1>9 DEF LearnsNow, Blocks, dataVars
<1>10. ASSUME NEW e \in Clients, NEW c \in Clients,
              \/ Sleeps(c) \/ Rechecks(c) \/ Applies(c)
              \/ Acknowledged(c) \/ Closes(c) \/ Comes(c) \/ Stops(c)
       PROVE  Kept(e)
  BY <1>8, <1>10 DEF Sleeps, Rechecks, Applies, Acknowledged, Closes, Comes, Stops, dataVars
<1>11. ASSUME NEW e \in Clients, UNCHANGED vars
       PROVE  Kept(e)
  BY <1>8, <1>11 DEF vars, dataVars
<1>12. ASSUME NEW e \in Clients
       PROVE  Kept(e)
  BY <1>3, <1>4, <1>5, <1>6, <1>7, <1>9, <1>10, <1>11 DEF Next, Thread
<1>13. \A e \in Clients : TargetsJoined(e)' /\ SentRight(e)'
  BY <1>12 DEF Kept
<1>. QED  BY <1>13 DEF SendsRight

-----------------------------------------------------------------------------
(* The theorems *)

LEMMA InitIInv ==
    ASSUME Init
    PROVE  IInv
<1>1. /\ \A c \in Clients : /\ calls[c] = <<>> /\ targets[c] = <<>> /\ posted[c] = FALSE
                            /\ waiting[c] = NoClient /\ wait[c] = "running"
      /\ \A c, d \in Clients : data[c][d] = <<>> /\ got[c][d] = <<>>
      /\ \A c \in Clients, r \in Roles : knows[c][r] = <<>>
  BY DEF Init
<1>2. TypeOK
  BY DEF Init, TypeOK, MembershipTypeOK, Statuses
<1>3. KnowsPeers
  <2>1. \A c, d \in Clients : Count(knows[c][RoleOf[d]], d) = 0
    BY <1>1, AddressedRoles, CountEmpty
  <2>2. \A c, d \in Clients : Links[c][d] \in Nat
    BY MembershipAssumption
  <2>3. \A c, d \in Clients : Count(knows[c][RoleOf[d]], d) <= Links[c][d]
    BY <2>1, <2>2
  <2>4. \A c \in Clients, r \in Roles : DOMAIN knows[c][r] = {}
    BY <1>1
  <2>. QED  BY <2>3, <2>4 DEF KnowsPeers
<1>4. ASSUME NEW c \in Clients
      PROVE  TargetsJoined(c) /\ SentRight(c)
  <2>1. calls[c] = <<>> /\ targets[c] = <<>> /\ posted[c] = FALSE
    BY <1>1
  <2>2. TargetsJoined(c)
    BY <2>1, DataAssumption DEF TargetsJoined
  <2>3. \A d \in Clients : SeenOf(c)[d] = <<>>
    BY <1>1 DEF SeenOf, CallsSeen
  <2>4. SentRight(c)
    BY <2>1, <2>3 DEF SentRight, SentAsPicked
  <2>. QED  BY <2>2, <2>4
<1>. QED  BY <1>2, <1>3, <1>4 DEF IInv, SendsRight

LEMMA NextIInv ==
    ASSUME IInv, [Next]_vars
    PROVE  IInv'
<1>1. MembershipKept
  BY StepMembership DEF IInv
<1>2. TypeOK'
  BY TypesKept
<1>3. SendsRight'
  BY <1>1, <1>2, SendsKept
<1>. QED  BY <1>1, <1>2, <1>3 DEF IInv, MembershipKept

LEMMA InvariantHolds == Spec => []IInv
<1>1. Init => IInv
  BY InitIInv
<1>2. IInv /\ [Next]_vars => IInv'
  BY NextIInv
<1>. QED  BY <1>1, <1>2, PTL DEF Spec

\* Every variable has its type, a message waits only for a send under way, and a
\* management thread waits for the view for somebody: asyncSend and the policies give
\* only clients to send to, and no call is counted twice.
THEOREM DataPlaneTypeCorrect == Spec => []TypeOK
<1>1. IInv => TypeOK
  BY DEF IInv
<1>. QED  BY <1>1, InvariantHolds, PTL

\* What has been passed to the transport is part of what the calls have picked.
LEMMA RightIsToPeers ==
    ASSUME IInv
    PROVE  DataToPeers
<1>. SUFFICES ASSUME NEW c \in Clients
              PROVE  /\ \A d \in Clients :
                        /\ CallsSeen(c, d) # <<>> => status[d] \notin {"outside", "entering"}
                        /\ \A i, j \in DOMAIN CallsSeen(c, d) :
                            i < j => CallsSeen(c, d)[i] <= CallsSeen(c, d)[j]
                     /\ \A k \in DOMAIN calls[c] :
                        LET policy == calls[c][k] IN
                        /\ \A d \in Clients :
                            /\ Copies(c, d, k) <= Links[c][d]
                            /\ policy.name # "broadcast_any" /\ policy.role # RoleOf[d]
                                    => Copies(c, d, k) = 0
                        /\ policy.name = "round_robin" =>
                            \A d, e \in Clients :
                                d # e => Copies(c, d, k) = 0 \/ Copies(c, e, k) = 0
  BY DEF DataToPeers
<1>1. /\ TypeOK /\ SentAsPicked(c, JoinedClients, calls[c], Unposted(c), SeenOf(c))
      /\ calls[c] \in Seq(SendWith) /\ Unposted(c) \in Seq(Clients) /\ SeenOf(c) \in Logs
  BY ClientTypes, SeenOfFacts DEF IInv, SendsRight, SentRight
<1>2. \A d \in Clients : SeenOf(c)[d] = CallsSeen(c, d)
  BY DEF SeenOf
<1>3. ASSUME NEW d \in Clients
      PROVE  /\ CallsSeen(c, d) # <<>> => status[d] \notin {"outside", "entering"}
             /\ \A i, j \in DOMAIN CallsSeen(c, d) :
                    i < j => CallsSeen(c, d)[i] <= CallsSeen(c, d)[j]
  <2>1. /\ CallsSeen(c, d) # <<>> => d \in JoinedClients
        /\ \A i, j \in DOMAIN CallsSeen(c, d) :
                i < j => CallsSeen(c, d)[i] <= CallsSeen(c, d)[j]
    BY <1>1, <1>2 DEF SentAsPicked
  <2>. QED  BY <2>1 DEF JoinedClients, HasJoined
<1>4. ASSUME NEW k \in DOMAIN calls[c]
      PROVE  Picked(c, calls[c][k], [d \in Clients |-> Copies(c, d, k)])
  <2>. DEFINE f == Due(calls[c], Unposted(c), SeenOf(c), k)
              g == [d \in Clients |-> Copies(c, d, k)]
  <2>1. k \in Nat /\ calls[c][k] \in SendWith
    BY <1>1, LenProperties, ElementOfSeq
  <2>2. Picked(c, calls[c][k], f)
    BY <1>1 DEF SentAsPicked
  <2>3. IsDue(f, calls[c], Unposted(c), SeenOf(c), k)
    BY <1>1, <2>1, DueFacts, Zenon
  <2>. HIDE DEF f
  <2>4. ASSUME NEW d \in Clients
        PROVE  g[d] \in Nat /\ g[d] <= f[d]
    <3>1. g[d] = Count(SeenOf(c)[d], k)
      BY <1>2 DEF Copies
    <3>. HIDE DEF g
    <3>2. /\ Count(SeenOf(c)[d], k) \in Nat /\ Count(Unposted(c), d) \in Nat
          /\ k = Len(calls[c]) => f[d] = Count(SeenOf(c)[d], k) + Count(Unposted(c), d)
          /\ k # Len(calls[c]) => f[d] = Count(SeenOf(c)[d], k)
      BY <2>3 DEF IsDue
    <3>. QED  BY <3>1, <3>2
  <2>5. f \in Counts
    BY <2>3 DEF IsDue
  <2>6. g \in Counts /\ AtMost(g, f)
    BY <2>4 DEF Counts, AtMost
  <2>. QED  BY <2>1, <2>2, <2>5, <2>6, PickedLess
<1>. QED  BY <1>3, <1>4 DEF Picked

\* Whatever joins and leaves while send and asyncSend are under way, a call sends to
\* clients that have joined, to those its policy names and at most once per edge between
\* the roles, with round_robin to one of them, and the messages of the calls of a program
\* stay in their order.
THEOREM DataReachesPeers == Spec => []DataToPeers
<1>1. IInv => DataToPeers
  BY RightIsToPeers
<1>. QED  BY <1>1, InvariantHolds, PTL

=============================================================================
