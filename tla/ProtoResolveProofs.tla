------------------------- MODULE ProtoResolveProofs -------------------------
(***************************************************************************)
(* Proofs about ProtoResolve for every project of .proto files.  The       *)
(* searches and loops are characterised first (Picked, Followed, Aliased   *)
(* as recursive functions, FirstFound as a choice), then every phase is    *)
(* shown to keep ResolveInv, which says of each file what the phases that  *)
(* are past it have established.                                           *)
(***************************************************************************)
EXTENDS ProtoResolve, FiniteSetTheorems, WellFoundedInduction, TLAPS

-----------------------------------------------------------------------------
\* A set of numbers has a least one, which Min is.
LEMMA MinIsLeast ==
  ASSUME NEW S, S \subseteq Nat, S # {}
  PROVE  Min(S) \in S /\ \A x \in S : Min(S) <= x
<1> DEFINE R == {ss \in Nat \X Nat : ss[1] < ss[2]}
<1>1. IsWellFoundedOn(R, Nat)
  BY NatLessThanWellFounded DEF OpToRel
<1> HIDE DEF R
<1>2. PICK x \in S : \A y \in S : ~(<<y, x>> \in R)
  BY <1>1, WFMin
<1>3. \A y \in S : x <= y
  <2>1. ASSUME NEW y \in S, y < x PROVE FALSE
    <3>1. <<y, x>> \in R
      BY <2>1 DEF R
    <3>2. QED
      BY <1>2, <3>1
  <2>2. QED
    BY <2>1
<1>4. \E z \in S : \A y \in S : z <= y
  BY <1>3
<1>5. QED
  BY <1>4 DEF Min

\* Induction up to N: a set that contains 0 and with a number the next one.
LEMMA UpTo ==
  ASSUME NEW N \in Nat, NEW S, 0 \in S, \A n \in 1..N : n - 1 \in S => n \in S
  PROVE  \A n \in 0..N : n \in S
<1> DEFINE Bad == {n \in 0..N : n \notin S}
<1> SUFFICES ASSUME Bad # {} PROVE FALSE
  OBVIOUS
<1>1. Bad \subseteq Nat
  OBVIOUS
<1>2. Min(Bad) \in Bad /\ \A x \in Bad : Min(Bad) <= x
  <2> HIDE DEF Bad
  <2>1. QED
    BY <1>1, MinIsLeast
<1>3. PICK m \in Bad : \A x \in Bad : m <= x
  BY <1>2
<1>4. m \in 1..N /\ m - 1 \in 0..N /\ m - 1 \notin Bad
  BY <1>3
<1>5. QED
  BY <1>3, <1>4

\* f starts with v and goes on as G says.
Runs(f, N, v, G) == f[0] = v /\ \A n \in 1..N : f[n] = G[<<n, f[n - 1]>>]
\* What is defined from one number to the next exists.
LEMMA Recursion ==
  ASSUME NEW N \in Nat, NEW V, NEW v \in V, NEW G \in [(1..N) \X V -> V]
  PROVE  \E f \in [0..N -> V] : Runs(f, N, v, G)
<1> DEFINE Good(f, m) == f[0] = v /\ \A n \in 1..m : f[n] = G[<<n, f[n - 1]>>]
           S == {m \in 0..N : \E f \in [0..m -> V] : Good(f, m)}
<1>1. 0 \in S
  <2> DEFINE f == [n \in 0..0 |-> v]
  <2>1. f \in [0..0 -> V] /\ Good(f, 0)
    OBVIOUS
  <2>2. 0 \in 0..N
    OBVIOUS
  <2> HIDE DEF f, Good
  <2>3. QED
    BY <2>1, <2>2
<1>2. ASSUME NEW m \in 1..N, m - 1 \in S PROVE m \in S
  <2>1. PICK f \in [0..(m - 1) -> V] : Good(f, m - 1)
    BY <1>2
  <2> DEFINE w == G[<<m, f[m - 1]>>]
             g == [n \in 0..m |-> IF n = m THEN w ELSE f[n]]
  <2>2. f[m - 1] \in V
    BY <2>1
  <2>3. w \in V
    BY <2>2
  <2> HIDE DEF w
  <2>4. g \in [0..m -> V]
    BY <2>1, <2>3
  <2>5. g[0] = v
    BY <2>1
  <2>6. ASSUME NEW n \in 1..m PROVE g[n] = G[<<n, g[n - 1]>>]
    <3>1. CASE n = m
      <4>1. g[n] = w /\ g[n - 1] = f[m - 1]
        BY <3>1
      <4>2. QED
        BY <3>1, <4>1 DEF w
    <3>2. CASE n # m
      <4>1. g[n] = f[n] /\ g[n - 1] = f[n - 1] /\ n \in 1..(m - 1)
        BY <3>2
      <4>2. QED
        BY <2>1, <4>1
    <3>3. QED
      BY <3>1, <3>2
  <2> HIDE DEF g
  <2>7. QED
    BY <2>4, <2>5, <2>6
<1>3. N \in S
  <2> HIDE DEF S
  <2>1. \A n \in 0..N : n \in S
    BY <1>1, <1>2, UpTo
  <2>2. QED
    BY <2>1
<1>4. QED
  BY <1>3 DEF Runs

-----------------------------------------------------------------------------
\* What Picked returns.
LEMMA PickedIs ==
  ASSUME NEW S, NEW s \in Seq(S), NEW ps \in SUBSET (1..Len(s))
  PROVE  /\ Picked(s, ps) \in Seq(S)
         /\ \A k \in 1..Len(Picked(s, ps)) : \E i \in ps : Picked(s, ps)[k] = s[i]
         /\ \A i \in ps : \E k \in 1..Len(Picked(s, ps)) : Picked(s, ps)[k] = s[i]
<1> DEFINE N == Len(s)
           P == CHOOSE P : P = [n \in 0..N |->
                  IF n = 0 THEN <<>> ELSE IF n \in ps THEN Append(P[n - 1], s[n]) ELSE P[n - 1]]
           G == [x \in (1..N) \X Seq(S) |-> IF x[1] \in ps THEN Append(x[2], s[x[1]]) ELSE x[2]]
<1>1. N \in Nat /\ \A n \in 1..N : s[n] \in S
  OBVIOUS
<1>2. G \in [(1..N) \X Seq(S) -> Seq(S)]
  BY <1>1
<1>3. PICK f \in [0..N -> Seq(S)] : f[0] = <<>> /\ \A n \in 1..N : f[n] = G[<<n, f[n - 1]>>]
  <2>1. <<>> \in Seq(S)
    OBVIOUS
  <2> DEFINE V == Seq(S)
  <2>2. N \in Nat /\ <<>> \in V /\ G \in [(1..N) \X V -> V]
    BY <1>1, <1>2, <2>1
  <2> HIDE DEF G, N, V
  <2>3. \E f \in [0..N -> V] : Runs(f, N, <<>>, G)
    BY <2>2, Recursion
  <2>4. QED
    BY <2>3 DEF V, Runs
<1>4. f = [n \in 0..N |->
             IF n = 0 THEN <<>> ELSE IF n \in ps THEN Append(f[n - 1], s[n]) ELSE f[n - 1]]
  <2>1. ASSUME NEW n \in 1..N
        PROVE  f[n] = IF n \in ps THEN Append(f[n - 1], s[n]) ELSE f[n - 1]
    <3>1. f[n - 1] \in Seq(S)
      BY <1>1, <1>3
    <3>2. <<n, f[n - 1]>> \in (1..N) \X Seq(S)
      BY <3>1
    <3>3. QED
      BY <1>3, <3>2
  <2>2. ASSUME NEW n \in 0..N
        PROVE  f[n] = IF n = 0 THEN <<>> ELSE IF n \in ps THEN Append(f[n - 1], s[n]) ELSE f[n - 1]
    <3>1. CASE n = 0
      BY <1>3, <3>1
    <3>2. CASE n # 0
      <4>1. n \in 1..N
        BY <1>1, <3>2
      <4>2. QED
        BY <2>1, <3>2, <4>1
    <3>3. QED
      BY <3>1, <3>2
  <2>3. QED
    BY <1>3, <2>2
<1>5. P = [n \in 0..N |->
             IF n = 0 THEN <<>> ELSE IF n \in ps THEN Append(P[n - 1], s[n]) ELSE P[n - 1]]
  BY <1>4
<1>6. Picked(s, ps) = P[N]
  BY DEF Picked
<1> HIDE DEF P, G
<1>7. P[0] = <<>> /\ \A n \in 1..N : P[n] = IF n \in ps THEN Append(P[n - 1], s[n]) ELSE P[n - 1]
  <2>1. 0 \in 0..N /\ \A n \in 1..N : n \in 0..N /\ n # 0
    BY <1>1
  <2> HIDE DEF N
  <2>2. QED
    BY <1>5, <2>1
<1> DEFINE Right(q, n) ==
             /\ q \in Seq(S)
             /\ \A k \in 1..Len(q) : \E i \in ps : i <= n /\ q[k] = s[i]
             /\ \A i \in ps : i <= n => \E k \in 1..Len(q) : q[k] = s[i]
           T == {n \in 0..N : Right(P[n], n)}
<1>8. 0 \in T
  <2>1. Right(<<>>, 0)
    BY <1>1
  <2>2. 0 \in 0..N
    BY <1>1
  <2> HIDE DEF Right
  <2>3. QED
    BY <1>7, <2>1, <2>2
<1>9. ASSUME NEW n \in 1..N, n - 1 \in T PROVE n \in T
  <2> DEFINE q == P[n - 1]
  <2>1. Right(q, n - 1)
    BY <1>9
  <2>2. CASE n \in ps
    <3>1. P[n] = Append(q, s[n])
      BY <1>7, <2>2
    <3> HIDE DEF q
    <3>2. q \in Seq(S) /\ s[n] \in S /\ n \in Nat
      BY <1>1, <2>1
    <3>3. /\ Append(q, s[n]) \in Seq(S) /\ Len(Append(q, s[n])) = Len(q) + 1 /\ Len(q) \in Nat
          /\ \A k \in 1..Len(q) : Append(q, s[n])[k] = q[k]
          /\ Append(q, s[n])[Len(q) + 1] = s[n]
      BY <3>2
    <3>4. Right(Append(q, s[n]), n)
      <4>1. ASSUME NEW k \in 1..(Len(q) + 1)
            PROVE  \E i \in ps : i <= n /\ Append(q, s[n])[k] = s[i]
        <5>1. CASE k = Len(q) + 1
          BY <2>2, <3>2, <3>3, <5>1
        <5>2. CASE k \in 1..Len(q)
          BY <2>1, <3>2, <3>3, <5>2
        <5>3. QED
          BY <3>3, <5>1, <5>2
      <4>2. ASSUME NEW i \in ps, i <= n
            PROVE  \E k \in 1..(Len(q) + 1) : Append(q, s[n])[k] = s[i]
        <5>1. CASE i = n
          BY <3>3, <5>1
        <5>2. CASE i # n
          <6>1. i <= n - 1
            BY <3>2, <4>2, <5>2
          <6>2. PICK k \in 1..Len(q) : q[k] = s[i]
            BY <2>1, <6>1
          <6>3. k \in 1..(Len(q) + 1) /\ Append(q, s[n])[k] = s[i]
            BY <3>3, <6>2
          <6>4. QED
            BY <6>3
        <5>3. QED
          BY <5>1, <5>2
      <4>3. QED
        BY <3>3, <4>1, <4>2
    <3>5. n \in 0..N
      BY <1>1
    <3> HIDE DEF Right
    <3>6. QED
      BY <3>1, <3>4, <3>5
  <2>3. CASE n \notin ps
    <3>1. P[n] = q
      BY <1>7, <2>3
    <3> HIDE DEF q
    <3>2. Right(q, n)
      BY <1>1, <2>1, <2>3
    <3>3. n \in 0..N
      BY <1>1
    <3> HIDE DEF Right
    <3>4. QED
      BY <3>1, <3>2, <3>3
  <2>4. QED
    BY <2>2, <2>3
<1>10. N \in T
  <2> HIDE DEF T
  <2>1. \A n \in 0..N : n \in T
    BY <1>1, <1>8, <1>9, UpTo
  <2>2. QED
    BY <1>1, <2>1
<1>11. Right(P[N], N)
  BY <1>10
<1>12. QED
  BY <1>6, <1>11

-----------------------------------------------------------------------------
\* An element of a list is of the type of the list.
LEMMA Element ==
  ASSUME NEW S, NEW s \in Seq(S), NEW k \in DOMAIN s
  PROVE  s[k] \in S
  OBVIOUS

\* A function on 1..n is a list.
LEMMA Listed ==
  ASSUME NEW S, NEW n \in Nat, NEW s \in [1..n -> S]
  PROVE  s \in Seq(S)
  OBVIOUS

\* A list that is joined from two has the elements of both.
LEMMA RangeConcat ==
  ASSUME NEW S, NEW s \in Seq(S), NEW u \in Seq(S)
  PROVE  /\ s \o u \in Seq(S)
         /\ Range(s \o u) = Range(s) \cup Range(u)
<1>1. /\ s \o u \in Seq(S) /\ Len(s) \in Nat /\ Len(u) \in Nat /\ Len(s \o u) = Len(s) + Len(u)
      /\ DOMAIN s = 1..Len(s) /\ DOMAIN u = 1..Len(u) /\ DOMAIN (s \o u) = 1..(Len(s) + Len(u))
  OBVIOUS
<1>2. ASSUME NEW x \in Range(s \o u) PROVE x \in Range(s) \cup Range(u)
  <2>1. PICK k \in 1..(Len(s) + Len(u)) : x = (s \o u)[k]
    BY <1>1 DEF Range
  <2>2. CASE k <= Len(s)
    <3>1. k \in DOMAIN s /\ x = s[k]
      BY <1>1, <2>1, <2>2
    <3>2. QED
      BY <3>1 DEF Range
  <2>3. CASE k > Len(s)
    <3>1. k - Len(s) \in DOMAIN u /\ x = u[k - Len(s)]
      BY <1>1, <2>1, <2>3
    <3>2. QED
      BY <3>1 DEF Range
  <2>4. QED
    BY <1>1, <2>1, <2>2, <2>3
<1>3. ASSUME NEW x \in Range(s) PROVE x \in Range(s \o u)
  <2>1. PICK k \in 1..Len(s) : x = s[k]
    BY <1>1 DEF Range
  <2>2. k \in DOMAIN (s \o u) /\ x = (s \o u)[k]
    BY <1>1, <2>1
  <2>3. QED
    BY <2>2 DEF Range
<1>4. ASSUME NEW x \in Range(u) PROVE x \in Range(s \o u)
  <2>1. PICK k \in 1..Len(u) : x = u[k]
    BY <1>1 DEF Range
  <2>2. k + Len(s) \in DOMAIN (s \o u) /\ x = (s \o u)[k + Len(s)]
    BY <1>1, <2>1
  <2>3. QED
    BY <2>2 DEF Range
<1>5. QED
  BY <1>1, <1>2, <1>3, <1>4

\* The entries of a list of imports that are public, and where the entries lead.
PublicOf(s) == {x \in Range(s) : x.public}
Targets(s) == {x.target : x \in Range(s)} \ {None}

\* PublicImports keeps the public imports and no other.
LEMMA PublicImportsIs ==
  ASSUME NEW S, NEW s \in Seq(S)
  PROVE  PublicImports(s) \in Seq(S) /\ Range(PublicImports(s)) = PublicOf(s)
<1> DEFINE ps == {k \in DOMAIN s : s[k].public}
           q == Picked(s, ps)
<1>1. ps \in SUBSET (1..Len(s)) /\ DOMAIN s = 1..Len(s)
  OBVIOUS
<1>2. PublicImports(s) = q
  BY DEF PublicImports
<1>3. /\ q \in Seq(S)
      /\ \A k \in 1..Len(q) : \E i \in ps : q[k] = s[i]
      /\ \A i \in ps : \E k \in 1..Len(q) : q[k] = s[i]
  <2> HIDE DEF ps
  <2>1. QED
    BY <1>1, PickedIs
<1> HIDE DEF q
<1>4. DOMAIN q = 1..Len(q)
  BY <1>3
<1>5. Range(q) = PublicOf(s)
  <2>1. ASSUME NEW x \in Range(q) PROVE x \in PublicOf(s)
    <3>1. PICK k \in 1..Len(q) : x = q[k]
      BY <1>4 DEF Range
    <3>2. PICK i \in ps : q[k] = s[i]
      BY <1>3, <3>1
    <3>3. i \in DOMAIN s /\ s[i].public /\ x = s[i]
      BY <3>1, <3>2
    <3>4. QED
      BY <3>3 DEF Range, PublicOf
  <2>2. ASSUME NEW x \in PublicOf(s) PROVE x \in Range(q)
    <3>1. PICK i \in DOMAIN s : x = s[i] /\ s[i].public
      BY DEF Range, PublicOf
    <3>2. PICK k \in 1..Len(q) : q[k] = s[i]
      BY <1>3, <3>1
    <3>3. QED
      BY <1>4, <3>1, <3>2 DEF Range
  <2>3. QED
    BY <2>1, <2>2
<1>6. QED
  BY <1>2, <1>3, <1>5

\* The imports of a file with those that AddPublicImports adds are its own and public ones of the
\* files they lead to, and all of these.
IsFollowed(q, f, imps) ==
  /\ Range(imps[f]) \subseteq Range(q)
  /\ Range(q) \subseteq Range(imps[f]) \cup UNION {PublicOf(imps[t]) : t \in Targets(imps[f])}
  /\ \A t \in Targets(imps[f]) : t # f => PublicOf(imps[t]) \subseteq Range(q)

\* The loop of AddPublicImports computes what IsFollowed says.
LEMMA FollowedIs ==
  ASSUME NEW S, NEW D, NEW imps \in [D -> Seq(S)], NEW f \in D,
         Targets(imps[f]) \subseteq D
  PROVE  Followed(f, imps) \in Seq(S) /\ IsFollowed(Followed(f, imps), f, imps)
<1> DEFINE own == imps[f]
           N == Len(own)
           V == Seq(S)
           src(n, q) == IF own[n].target = f THEN q ELSE imps[own[n].target]
           step(n, q) == IF own[n].target = None THEN q ELSE q \o PublicImports(src(n, q))
           P == CHOOSE P : P = [n \in 0..N |-> IF n = 0 THEN own ELSE step(n, P[n - 1])]
           G == [x \in (1..N) \X V |-> step(x[1], x[2])]
<1>1. N \in Nat /\ own \in V /\ \A n \in 1..N : n \in DOMAIN own /\ own[n] \in Range(own)
  <2>1. own \in Seq(S)
    OBVIOUS
  <2> HIDE DEF own
  <2>2. QED
    BY <2>1 DEF Range
<1>2. ASSUME NEW n \in 1..N, NEW q \in V, own[n].target # None
      PROVE  /\ src(n, q) \in V
             /\ PublicImports(src(n, q)) \in V
             /\ Range(PublicImports(src(n, q))) = PublicOf(src(n, q))
  <2>1. own[n].target \in Targets(own)
    BY <1>1, <1>2 DEF Targets
  <2>2. src(n, q) \in V
    BY <2>1
  <2>3. QED
    BY <2>2, PublicImportsIs
<1> HIDE DEF src
<1>3. ASSUME NEW n \in 1..N, NEW q \in V PROVE step(n, q) \in V
  BY <1>2, RangeConcat
<1>4. P = [n \in 0..N |-> IF n = 0 THEN own ELSE step(n, P[n - 1])]
  <2>1. G \in [(1..N) \X V -> V]
    <3> HIDE DEF step, V, N
    <3>1. QED
      BY <1>3
  <2>2. \A n \in 1..N : \A q \in V : G[<<n, q>>] = step(n, q)
    <3> HIDE DEF step, V, N
    <3>1. QED
      OBVIOUS
  <2> HIDE DEF G, V, own, N, step
  <2>3. \E h \in [0..N -> V] : Runs(h, N, own, G)
    BY <1>1, <2>1, Recursion
  <2>4. PICK h \in [0..N -> V] : h[0] = own /\ \A n \in 1..N : h[n] = G[<<n, h[n - 1]>>]
    BY <2>3 DEF Runs
  <2>5. ASSUME NEW n \in 0..N PROVE h[n] = IF n = 0 THEN own ELSE step(n, h[n - 1])
    <3>1. CASE n = 0
      BY <2>4, <3>1
    <3>2. CASE n # 0
      <4>1. n \in 1..N /\ n - 1 \in 0..N
        BY <1>1, <3>2
      <4>2. h[n - 1] \in V
        BY <2>4, <4>1
      <4>3. h[n] = step(n, h[n - 1])
        BY <2>2, <2>4, <4>1, <4>2
      <4>4. QED
        BY <3>2, <4>3
    <3>3. QED
      BY <3>1, <3>2
  <2>6. h = [n \in 0..N |-> IF n = 0 THEN own ELSE step(n, h[n - 1])]
    BY <2>4, <2>5
  <2>7. QED
    BY <2>6
<1>5. Followed(f, imps) = P[N]
  BY DEF Followed, src
<1> HIDE DEF P, G
<1>6. P[0] = own /\ \A n \in 1..N : P[n] = step(n, P[n - 1])
  <2>1. 0 \in 0..N /\ \A n \in 1..N : n \in 0..N /\ n # 0
    BY <1>1
  <2> HIDE DEF N, step, own
  <2>2. QED
    BY <1>4, <2>1
<1> DEFINE All == UNION {PublicOf(imps[t]) : t \in Targets(own)}
           Right(q, n) ==
             /\ q \in V
             /\ Range(own) \subseteq Range(q) /\ Range(q) \subseteq Range(own) \cup All
             /\ \A k \in 1..n : own[k].target # None /\ own[k].target # f
                                   => PublicOf(imps[own[k].target]) \subseteq Range(q)
           T == {n \in 0..N : Right(P[n], n)}
<1>7. 0 \in T
  <2> HIDE DEF All
  <2>1. Right(own, 0)
    BY <1>1
  <2>2. 0 \in 0..N
    BY <1>1
  <2> HIDE DEF Right
  <2>3. QED
    BY <1>6, <2>1, <2>2
<1>8. ASSUME NEW n \in 1..N, n - 1 \in T PROVE n \in T
  <2> DEFINE q == P[n - 1]
  <2>1. Right(q, n - 1)
    <3> HIDE DEF Right, q
    <3>1. Right(P[n - 1], n - 1)
      BY <1>8
    <3>2. QED
      BY <3>1 DEF q
  <2>2. P[n] = step(n, q) /\ n \in 0..N /\ n \in Nat
    BY <1>1, <1>6
  <2> HIDE DEF q, All
  <2>3. CASE own[n].target = None
    <3>1. Right(q, n)
      <4> HIDE DEF own, V
      <4>1. QED
        BY <2>1, <2>2, <2>3
    <3>2. P[n] = q
      BY <2>2, <2>3
    <3> HIDE DEF Right
    <3>3. QED
      BY <2>2, <3>1, <3>2
  <2>4. CASE own[n].target # None
    <3> DEFINE add == PublicImports(src(n, q))
    <3>1. src(n, q) \in V /\ add \in V /\ Range(add) = PublicOf(src(n, q))
      BY <1>2, <2>1, <2>4
    <3>2. P[n] = q \o add
      BY <2>2, <2>4
    <3>3. q \o add \in V /\ Range(q \o add) = Range(q) \cup Range(add)
      <4> HIDE DEF add
      <4>1. QED
        BY <2>1, <3>1, RangeConcat
    <3> HIDE DEF add
    <3>4. own[n].target \in Targets(own)
      BY <1>1, <2>4 DEF Targets
    <3>5. Range(add) \subseteq Range(own) \cup All
      <4>1. CASE own[n].target = f
        <5>1. Range(add) \subseteq Range(q)
          BY <3>1, <4>1 DEF src, PublicOf
        <5>2. QED
          BY <2>1, <5>1
      <4>2. CASE own[n].target # f
        <5>1. Range(add) = PublicOf(imps[own[n].target])
          BY <3>1, <4>2 DEF src
        <5>2. QED
          BY <3>4, <5>1 DEF All
      <4>3. QED
        BY <4>1, <4>2
    <3>6. own[n].target # f => PublicOf(imps[own[n].target]) \subseteq Range(add)
      BY <3>1 DEF src
    <3>7. Right(q \o add, n)
      <4>1. ASSUME NEW k \in 1..n, own[k].target # None, own[k].target # f
            PROVE  PublicOf(imps[own[k].target]) \subseteq Range(q) \cup Range(add)
        <5>1. CASE k = n
          BY <3>6, <4>1, <5>1
        <5>2. CASE k \in 1..(n - 1)
          BY <2>1, <4>1, <5>2
        <5>3. QED
          BY <2>2, <5>1, <5>2
      <4> HIDE DEF own, V
      <4>2. QED
        BY <2>1, <3>3, <3>5, <4>1
    <3> HIDE DEF Right
    <3>8. QED
      BY <2>2, <3>2, <3>7
  <2>5. QED
    BY <2>3, <2>4
<1>9. N \in T
  <2> HIDE DEF T
  <2>1. \A n \in 0..N : n \in T
    BY <1>1, <1>7, <1>8, UpTo
  <2>2. QED
    BY <1>1, <2>1
<1>10. Right(P[N], N)
  <2> HIDE DEF Right
  <2>1. QED
    BY <1>9
<1>11. ASSUME NEW t \in Targets(own), t # f PROVE PublicOf(imps[t]) \subseteq Range(P[N])
  <2>1. PICK k \in 1..N : own[k].target = t /\ t # None
    <3>1. own \in Seq(S)
      OBVIOUS
    <3> HIDE DEF own
    <3>2. QED
      BY <3>1 DEF Targets, Range
  <2>2. QED
    BY <1>10, <1>11, <2>1
<1>12. QED
  BY <1>5, <1>10, <1>11 DEF IsFollowed

-----------------------------------------------------------------------------
\* First finds an element of a set of positions unless it is empty.
LEMMA FirstIs ==
  ASSUME NEW ps, ps \subseteq Nat
  PROVE  First(ps) \in ps \/ (First(ps) = None /\ ps = {})
<1>1. CASE ps = {}
  BY <1>1 DEF First
<1>2. CASE ps # {}
  BY <1>2, MinIsLeast DEF First
<1>3. QED
  BY <1>1, <1>2

\* FirstFound returns None or one of the results.
LEMMA FirstFoundIs ==
  ASSUME NEW v, DOMAIN v \subseteq Nat
  PROVE  FirstFound(v) = None \/ \E k \in DOMAIN v : FirstFound(v) = v[k] /\ v[k] # None
<1> DEFINE found == {k \in DOMAIN v : v[k] # None}
<1>1. FirstFound(v) = IF found = {} THEN None ELSE v[Min(found)]
  BY DEF FirstFound
<1>2. CASE found = {}
  BY <1>1, <1>2
<1>3. CASE found # {}
  <2>1. found \subseteq Nat
    OBVIOUS
  <2>2. Min(found) \in found
    <3> HIDE DEF found
    <3>1. QED
      BY <1>3, <2>1, MinIsLeast
  <2>3. QED
    BY <1>1, <1>3, <2>2
<1>4. QED
  BY <1>2, <1>3

-----------------------------------------------------------------------------
\* The imports of a Go file, numbered: the first of a short name has number 0, every other 1.
Paths == Seq(Names) \cup {Library.path}
Shorts == STRING \cup {Library.short}
Packages == [path : Paths, short : Shorts]
GoImports == [path : Paths, alias : Shorts \X Nat]
Taken(gos, n, short) == \E j \in 1..n : gos[j].alias = <<short, 0>>
Numbered(gos) ==
  \A k \in 1..Len(gos) : gos[k].alias[2] = IF Taken(gos, k - 1, gos[k].alias[1]) THEN 1 ELSE 0
Aliases == {gos \in Seq(GoImports) : Numbered(gos)}

\* At most one import has a short name without a number.
LEMMA NumberedOnce ==
  ASSUME NEW gos \in Aliases, NEW short
  PROVE  Cardinality({k \in DOMAIN gos : gos[k].alias = <<short, 0>>})
           = IF Taken(gos, Len(gos), short) THEN 1 ELSE 0
<1> DEFINE K == {k \in DOMAIN gos : gos[k].alias = <<short, 0>>}
<1>1. gos \in Seq(GoImports) /\ Numbered(gos) /\ Len(gos) \in Nat /\ DOMAIN gos = 1..Len(gos)
  BY DEF Aliases
<1>2. CASE ~Taken(gos, Len(gos), short)
  <2>1. K = {}
    BY <1>1, <1>2 DEF Taken
  <2>2. QED
    BY <1>2, <2>1, FS_EmptySet
<1>3. CASE Taken(gos, Len(gos), short)
  <2>1. PICK i \in 1..Len(gos) : gos[i].alias = <<short, 0>>
    BY <1>3 DEF Taken
  <2>2. ASSUME NEW j \in 1..Len(gos), NEW k \in 1..Len(gos), j < k,
               gos[j].alias = <<short, 0>>, gos[k].alias = <<short, 0>>
        PROVE  FALSE
    <3>1. j \in 1..(k - 1) /\ gos[k].alias[1] = short /\ gos[k].alias[2] = 0
      BY <1>1, <2>2
    <3>2. Taken(gos, k - 1, short)
      BY <2>2, <3>1 DEF Taken
    <3>3. gos[k].alias[2] = 1
      BY <1>1, <3>1, <3>2 DEF Numbered
    <3>4. QED
      BY <3>1, <3>3
  <2>3. K = {i}
    <3>1. i \in K
      BY <1>1, <2>1
    <3>2. ASSUME NEW k \in K PROVE k = i
      <4>1. k \in 1..Len(gos) /\ gos[k].alias = <<short, 0>>
        BY <1>1
      <4>2. k < i \/ i < k \/ k = i
        BY <1>1, <4>1
      <4>3. QED
        BY <2>1, <2>2, <4>1, <4>2
    <3>3. QED
      BY <3>1, <3>2
  <2>4. QED
    BY <1>3, <2>3, FS_Singleton
<1>4. QED
  BY <1>2, <1>3

\* Added keeps the numbering.
LEMMA AddedNumbered ==
  ASSUME NEW gos \in Aliases, NEW go \in Packages
  PROVE  Added(gos, go) \in Aliases
<1> DEFINE used == Cardinality({k \in DOMAIN gos : gos[k].alias = <<go.short, 0>>})
           x == [path |-> go.path, alias |-> <<go.short, used>>]
<1>1. CASE \E k \in DOMAIN gos : gos[k].path = go.path
  BY <1>1 DEF Added
<1>2. CASE ~\E k \in DOMAIN gos : gos[k].path = go.path
  <2>1. Added(gos, go) = Append(gos, x)
    BY <1>2 DEF Added
  <2>2. go.short \in Shorts /\ go.path \in Paths
    BY DEF Packages
  <2>3. used = IF Taken(gos, Len(gos), go.short) THEN 1 ELSE 0
    BY <2>2, NumberedOnce
  <2> HIDE DEF used
  <2>4. x \in GoImports /\ x.alias[1] = go.short /\ x.alias[2] = used
    BY <2>2, <2>3 DEF GoImports
  <2> HIDE DEF x
  <2> DEFINE q == Append(gos, x)
  <2>5. gos \in Seq(GoImports) /\ Numbered(gos)
    BY DEF Aliases
  <2>6. /\ q \in Seq(GoImports) /\ Len(q) = Len(gos) + 1 /\ Len(gos) \in Nat
        /\ \A k \in 1..Len(gos) : q[k] = gos[k]
        /\ q[Len(gos) + 1] = x
    BY <2>4, <2>5
  <2> HIDE DEF q
  <2>7. ASSUME NEW n \in 0..Len(gos), NEW short PROVE Taken(q, n, short) = Taken(gos, n, short)
    <3>1. \A j \in 1..n : q[j] = gos[j]
      BY <2>6
    <3>2. QED
      BY <3>1 DEF Taken
  <2>8. ASSUME NEW k \in 1..Len(q)
        PROVE  q[k].alias[2] = IF Taken(q, k - 1, q[k].alias[1]) THEN 1 ELSE 0
    <3>1. k - 1 \in 0..Len(gos)
      BY <2>6
    <3>2. CASE k = Len(gos) + 1
      <4>1. q[k] = x /\ k - 1 = Len(gos)
        BY <2>6, <3>2
      <4>2. Taken(q, k - 1, go.short) = Taken(gos, Len(gos), go.short)
        BY <2>7, <3>1, <4>1
      <4>3. QED
        BY <2>3, <2>4, <4>1, <4>2
    <3>3. CASE k \in 1..Len(gos)
      <4>1. q[k] = gos[k]
        BY <2>6, <3>3
      <4>2. Taken(q, k - 1, gos[k].alias[1]) = Taken(gos, k - 1, gos[k].alias[1])
        BY <2>7, <3>1
      <4>3. gos[k].alias[2] = IF Taken(gos, k - 1, gos[k].alias[1]) THEN 1 ELSE 0
        BY <2>5, <3>3 DEF Numbered
      <4>4. QED
        BY <4>1, <4>2, <4>3
    <3>4. QED
      BY <2>6, <3>2, <3>3
  <2>9. q \in Aliases
    BY <2>6, <2>8 DEF Aliases, Numbered
  <2>10. QED
    BY <2>1, <2>9 DEF q
<1>3. QED
  BY <1>1, <1>2

\* The imports that the mapper chooses for a file.
LEMMA AliasedIs ==
  ASSUME NEW fs \in Seq(Files), NEW f, NEW S, NEW imps \in Seq(S),
         \A n \in 1..Len(imps) : imps[n].target \in DOMAIN fs
  PROVE  Aliased(f, imps, fs) \in Aliases
<1> DEFINE N == Len(imps)
           go(n) == fs[imps[n].target].go
           step(n, q) == IF go(n).path = fs[f].go.path THEN q ELSE Added(q, go(n))
           A == CHOOSE A : A = [n \in 0..N |-> IF n = 0 THEN <<>> ELSE step(n, A[n - 1])]
           G == [x \in (1..N) \X Aliases |-> step(x[1], x[2])]
<1>1. N \in Nat /\ <<>> \in Aliases
  BY DEF Aliases, Numbered
<1>2. ASSUME NEW n \in 1..N, NEW q \in Aliases PROVE step(n, q) \in Aliases
  <2>1. fs[imps[n].target] \in Files
    OBVIOUS
  <2>2. go(n) \in GoPackages
    BY <2>1 DEF Files
  <2>3. go(n) \in Packages
    BY <2>2 DEF GoPackages, Packages, Paths, Shorts
  <2>4. QED
    BY <2>3, AddedNumbered
<1>3. A = [n \in 0..N |-> IF n = 0 THEN <<>> ELSE step(n, A[n - 1])]
  <2> HIDE DEF N, step
  <2>1. G \in [(1..N) \X Aliases -> Aliases]
    BY <1>2
  <2>2. \A n \in 1..N : \A q \in Aliases : G[<<n, q>>] = step(n, q)
    OBVIOUS
  <2> HIDE DEF G
  <2>3. \E h \in [0..N -> Aliases] : Runs(h, N, <<>>, G)
    BY <1>1, <2>1, Recursion
  <2>4. PICK h \in [0..N -> Aliases] : h[0] = <<>> /\ \A n \in 1..N : h[n] = G[<<n, h[n - 1]>>]
    BY <2>3 DEF Runs
  <2>5. ASSUME NEW n \in 0..N PROVE h[n] = IF n = 0 THEN <<>> ELSE step(n, h[n - 1])
    <3>1. CASE n = 0
      BY <2>4, <3>1
    <3>2. CASE n # 0
      <4>1. n \in 1..N /\ n - 1 \in 0..N
        BY <1>1, <3>2
      <4>2. h[n - 1] \in Aliases
        BY <2>4, <4>1
      <4>3. h[n] = step(n, h[n - 1])
        BY <2>2, <2>4, <4>1, <4>2
      <4>4. QED
        BY <3>2, <4>3
    <3>3. QED
      BY <3>1, <3>2
  <2>6. h = [n \in 0..N |-> IF n = 0 THEN <<>> ELSE step(n, h[n - 1])]
    BY <2>4, <2>5
  <2>7. QED
    BY <2>6
<1>4. Aliased(f, imps, fs) = A[N]
  BY DEF Aliased
<1> HIDE DEF A, G
<1>5. A[0] = <<>> /\ \A n \in 1..N : A[n] = step(n, A[n - 1])
  <2>1. 0 \in 0..N /\ \A n \in 1..N : n \in 0..N /\ n # 0
    BY <1>1
  <2> HIDE DEF N, step
  <2>2. QED
    BY <1>3, <2>1
<1> DEFINE T == {n \in 0..N : A[n] \in Aliases}
<1> HIDE DEF step
<1>6. 0 \in T
  BY <1>1, <1>5
<1>7. ASSUME NEW n \in 1..N, n - 1 \in T PROVE n \in T
  BY <1>1, <1>2, <1>5, <1>7
<1>8. N \in T
  <2> HIDE DEF T
  <2>1. \A n \in 0..N : n \in T
    BY <1>1, <1>6, <1>7, UpTo
  <2>2. QED
    BY <1>1, <2>1
<1>9. QED
  BY <1>4, <1>8

\* Three or more have the short name of an alias that occurs twice.
LEMMA AliasTwice ==
  ASSUME NEW gos \in Aliases, NEW j \in DOMAIN gos, NEW k \in DOMAIN gos, j # k,
         gos[j].alias = gos[k].alias
  PROVE  ~(Cardinality({i \in DOMAIN gos : gos[i].alias[1] = gos[k].alias[1]}) <= 2)
<1> DEFINE I == {i \in DOMAIN gos : gos[i].alias[1] = gos[k].alias[1]}
<1>1. gos \in Seq(GoImports) /\ Numbered(gos) /\ Len(gos) \in Nat /\ DOMAIN gos = 1..Len(gos)
  BY DEF Aliases
<1>2. \A n \in DOMAIN gos : gos[n].alias = <<gos[n].alias[1], gos[n].alias[2]>>
  <2>1. \A n \in DOMAIN gos : gos[n].alias \in Shorts \X Nat
    <3>1. \A n \in DOMAIN gos : gos[n] \in GoImports
      BY <1>1
    <3>2. \A x \in GoImports : x.alias \in Shorts \X Nat
      BY DEF GoImports
    <3>3. QED
      BY <3>1, <3>2
  <2>2. \A y \in Shorts \X Nat : y = <<y[1], y[2]>>
    OBVIOUS
  <2>3. QED
    BY <2>1, <2>2
<1>3. ASSUME NEW a \in DOMAIN gos, NEW b \in DOMAIN gos, a < b, gos[a].alias = gos[b].alias
      PROVE  \E i \in DOMAIN gos : i < a /\ gos[i].alias[1] = gos[b].alias[1]
  <2>1. gos[b].alias[2] # 0
    <3>1. SUFFICES ASSUME gos[b].alias[2] = 0 PROVE FALSE
      OBVIOUS
    <3>2. gos[a].alias = <<gos[b].alias[1], 0>> /\ a \in 1..(b - 1)
      BY <1>1, <1>2, <1>3, <3>1
    <3>3. Taken(gos, b - 1, gos[b].alias[1])
      BY <3>2 DEF Taken
    <3>4. QED
      BY <1>1, <3>1, <3>3 DEF Numbered
  <2>2. Taken(gos, a - 1, gos[a].alias[1])
    BY <1>1, <1>3, <2>1 DEF Numbered
  <2>3. PICK i \in 1..(a - 1) : gos[i].alias = <<gos[a].alias[1], 0>>
    BY <2>2 DEF Taken
  <2>4. i \in DOMAIN gos /\ i < a /\ gos[i].alias[1] = gos[b].alias[1]
    BY <1>1, <1>3, <2>3
  <2>5. QED
    BY <2>4
<1>4. PICK i \in DOMAIN gos : i # j /\ i # k /\ gos[i].alias[1] = gos[k].alias[1]
  <2>1. j < k \/ k < j
    BY <1>1
  <2>2. CASE j < k
    BY <1>1, <1>3, <2>2
  <2>3. CASE k < j
    BY <1>1, <1>3, <2>3
  <2>4. QED
    BY <2>1, <2>2, <2>3
<1>5. {i, j, k} \subseteq I
  BY <1>4
<1>6. IsFiniteSet(I)
  <2>1. IsFiniteSet(1..Len(gos))
    BY <1>1, FS_Interval
  <2>2. I \subseteq 1..Len(gos)
    BY <1>1
  <2>3. QED
    BY <2>1, <2>2, FS_Subset
<1>7. Cardinality({i, j, k}) = 3
  <2>1. IsFiniteSet({i}) /\ Cardinality({i}) = 1
    BY FS_Singleton
  <2>2. IsFiniteSet({i} \cup {j}) /\ Cardinality({i} \cup {j}) = 2
    <3>1. j \notin {i}
      BY <1>4
    <3>2. IsFiniteSet({i} \cup {j}) /\ Cardinality({i} \cup {j}) = Cardinality({i}) + 1
      BY <2>1, <3>1, FS_AddElement
    <3>3. QED
      BY <2>1, <3>2
  <2>3. Cardinality(({i} \cup {j}) \cup {k}) = 3
    <3>1. k \notin {i} \cup {j}
      BY <1>4
    <3>2. Cardinality(({i} \cup {j}) \cup {k}) = Cardinality({i} \cup {j}) + 1
      BY <2>2, <3>1, FS_AddElement
    <3>3. QED
      BY <2>2, <3>2
  <2>4. ({i} \cup {j}) \cup {k} = {i, j, k}
    OBVIOUS
  <2>5. QED
    BY <2>3, <2>4
<1> HIDE DEF I
<1>8. Cardinality({i, j, k}) <= Cardinality(I) /\ Cardinality(I) \in Nat
  BY <1>5, <1>6, FS_Subset, FS_CardinalityType
<1>9. ~(Cardinality(I) <= 2)
  BY <1>7, <1>8
<1>10. QED
  BY <1>9 DEF I

-----------------------------------------------------------------------------
\* The types of the variables.
ImportTypes(D) == [target : D \cup {None}, public : BOOLEAN]
Types ==
  /\ files \in Projects
  /\ phase \in 1..8 /\ at \in DOMAIN files
  /\ imports \in [DOMAIN files -> Seq(ImportTypes(DOMAIN files))]
  /\ messages \in [DOMAIN files -> Seq(MessageTypes)]
  /\ errors \in [1..8 -> SUBSET DOMAIN files]
  /\ aliases \in [DOMAIN files -> Aliases]

\* What a project is.
LEMMA FilesAre ==
  ASSUME files \in Projects
  PROVE  /\ files \in Seq(Files) /\ Len(files) \in Nat /\ 1 \in DOMAIN files
         /\ DOMAIN files = 1..Len(files) /\ DOMAIN files \subseteq Nat /\ None \notin DOMAIN files
<1>1. files \in Seq(Files) /\ files # <<>> /\ None \notin Nat
  BY ProjectsAssumption
<1>2. QED
  BY <1>1

\* Where the phases are.
LEMMA PhaseNumbers ==
  ASSUME phase \in 1..8
  PROVE  /\ At("imports") => phase = 1
         /\ At("public") => phase = 2
         /\ At("extensions") => phase = 3
         /\ At("references") => phase = 4
         /\ At("options") => phase = 5
         /\ At("aliases") => phase = 6
         /\ Phases[phase] = "options" => phase = 5
         /\ phase = 5 => Phases[phase] = "options"
         /\ Len(Phases) = 8
  BY DEF At, Phases

\* The phase is past the file.
Past(p, f) == p < phase \/ (p = phase /\ f < at)

\* A phase is past the files one after the other, and then comes the next phase.
Moved ==
  /\ phase' \in 1..8 /\ at' \in DOMAIN files
  /\ phase' = 6 => phase = 6 \/ (phase = 5 /\ \A p \in 1..8 : errors[p] = {})
  /\ \A p \in 1..4 : \A f \in DOMAIN files : Past(p, f)' <=> Past(p, f) \/ (phase = p /\ f = at)

\* A step of a loop over the files, or from one phase to the next.
LEMMA Moves ==
  ASSUME Types, phase \in 1..6, Advance
  PROVE  Moved
<1>1. /\ Len(files) \in Nat /\ DOMAIN files = 1..Len(files) /\ 1 \in DOMAIN files /\ at \in 1..Len(files)
      /\ DOMAIN errors = 1..8
  BY FilesAre DEF Types
<1>2. CASE at < Len(files)
  <2>1. phase' = phase /\ at' = at + 1
    BY <1>2 DEF Advance
  <2>2. QED
    BY <1>1, <1>2, <2>1 DEF Moved, Past
<1>3. CASE ~(at < Len(files))
  <2>1. at' = 1 /\ at = Len(files) /\ phase' \in {phase + 1, 7} /\ (phase' = 7 => phase \in {5, 6})
        /\ (phase' = 6 => \A p \in 1..8 : errors[p] = {})
    <3> DEFINE bad == \E p \in DOMAIN errors : errors[p] # {}
    <3>1. at' = 1 /\ at = Len(files)
      <4>1. at' = 1
        BY <1>3 DEF Advance
      <4>2. at = Len(files)
        <5>1. Len(files) \in Nat /\ at \in 1..Len(files)
          BY <1>1
        <5>2. QED
          BY <1>3, <5>1
      <4>3. QED
        BY <4>1, <4>2
    <3>2. phase' = IF Phases[phase] = "options" /\ bad THEN 7 ELSE phase + 1
      BY <1>3 DEF Advance, Done
    <3>3. phase \in 1..6 /\ (Phases[phase] = "options" <=> phase = 5)
      BY PhaseNumbers
    <3>4. ~bad => \A p \in 1..8 : errors[p] = {}
      BY <1>1
    <3> HIDE DEF bad
    <3>5. QED
      BY <3>1, <3>2, <3>3, <3>4
  <2>2. phase' \in 1..8 /\ at' \in DOMAIN files
    BY <1>1, <2>1
  <2>3. ASSUME NEW p \in 1..4, NEW f \in DOMAIN files
        PROVE  Past(p, f)' <=> Past(p, f) \/ (phase = p /\ f = at)
    BY <1>1, <2>1 DEF Past
  <2>4. QED
    BY <2>1, <2>2, <2>3 DEF Moved
<1>4. QED
  BY <1>2, <1>3

\* The same for the options, which may panic instead.
LEMMA OptionsMove ==
  ASSUME Types, ResolveOptions
  PROVE  Moved
<1>1. phase = 5
  BY PhaseNumbers DEF Types, ResolveOptions
<1>2. CASE phase' = Panic /\ at' = at
  BY <1>1, <1>2, FilesAre DEF Types, Moved, Past, Panic
<1>3. CASE Advance
  BY <1>1, <1>3, Moves
<1>4. QED
  BY <1>2, <1>3 DEF ResolveOptions

-----------------------------------------------------------------------------
\* What depends on the project alone stays.
LEMMA ProjectStays ==
  ASSUME files' = files
  PROVE  /\ \A f, path : Target(f, path)' = Target(f, path)
         /\ \A f, public : Imported(f, public)' = Imported(f, public)
         /\ \A s, public : Reached(s, public)' = Reached(s, public)
<1>1. ASSUME NEW f, NEW path PROVE Target(f, path)' = Target(f, path)
  BY DEF Target, BaseFolder, Root
<1>2. ASSUME NEW f, NEW public PROVE Imported(f, public)' = Imported(f, public)
  BY <1>1 DEF Imported
<1>3. ASSUME NEW s, NEW public PROVE Reached(s, public)' = Reached(s, public)
  BY <1>2 DEF Reached
<1>4. QED
  BY <1>1, <1>2, <1>3

\* An import leads to a file of the project or nowhere.
LEMMA TargetIs ==
  ASSUME files \in Projects, NEW f, NEW path
  PROVE  Target(f, path) \in DOMAIN files \cup {None}
<1> DEFINE ps == {g \in DOMAIN files : Append(files[g].dir, files[g].name) = BaseFolder(f) \o path}
<1>1. ps \subseteq Nat /\ ps \subseteq DOMAIN files
  BY FilesAre
<1>2. Target(f, path) = First(ps)
  BY DEF Target
<1> HIDE DEF ps
<1>3. QED
  BY <1>1, <1>2, FirstIs

\* Reached is closed and the smallest such set.
LEMMA ReachedIs ==
  ASSUME NEW s, NEW public, s \subseteq DOMAIN files
  PROVE  /\ s \subseteq Reached(s, public)
         /\ Reached(s, public) \subseteq DOMAIN files
         /\ \A h \in Reached(s, public) : Imported(h, public) \subseteq Reached(s, public)
         /\ \A r \in SUBSET DOMAIN files :
              s \subseteq r /\ (\A h \in r : Imported(h, public) \subseteq r) => Reached(s, public) \subseteq r
<1>1. s \subseteq Reached(s, public) /\ Reached(s, public) \subseteq DOMAIN files
  BY DEF Reached
<1>2. ASSUME NEW h \in Reached(s, public), NEW g \in Imported(h, public)
      PROVE  g \in Reached(s, public)
  <2>1. g \in DOMAIN files
    BY DEF Imported
  <2>2. ASSUME NEW r \in SUBSET DOMAIN files, s \subseteq r, \A i \in r : Imported(i, public) \subseteq r
        PROVE  g \in r
    <3>1. h \in r
      BY <2>2 DEF Reached
    <3>2. QED
      BY <2>2, <3>1
  <2>3. QED
    BY <2>1, <2>2 DEF Reached
<1>3. ASSUME NEW r \in SUBSET DOMAIN files, s \subseteq r, \A h \in r : Imported(h, public) \subseteq r
      PROVE  Reached(s, public) \subseteq r
  BY <1>3 DEF Reached
<1>4. QED
  BY <1>1, <1>2, <1>3

-----------------------------------------------------------------------------
\* Searches find messages.
LEMMA ScopedDomain ==
  ASSUME NEW type, NEW scope \in Names
  PROVE  DOMAIN Scoped(type, scope) \subseteq Nat
<1>1. Len(scope) \in Nat
  BY DEF Names
<1>2. QED
  BY <1>1 DEF Scoped

\* A search by name finds a message or nothing.
LEMMA PlainIs ==
  ASSUME Types, NEW f \in DOMAIN files, NEW name
  PROVE  Plain(f, name) \in MessageTypes \cup {None}
<1> DEFINE ps == {j \in DOMAIN messages[f] : messages[f][j].name = name /\ messages[f][j].extends = None}
<1>1. messages[f] \in Seq(MessageTypes)
  BY DEF Types
<1>2. ps \subseteq Nat /\ ps \subseteq DOMAIN messages[f]
  BY <1>1
<1>3. Plain(f, name) = IF First(ps) = None THEN None ELSE messages[f][First(ps)]
  BY DEF Plain
<1> HIDE DEF ps
<1>4. First(ps) \in ps \/ First(ps) = None
  BY <1>2, FirstIs
<1>5. \A k \in DOMAIN messages[f] : messages[f][k] \in MessageTypes
  BY <1>1
<1>6. QED
  BY <1>2, <1>3, <1>4, <1>5

\* So does a search by several names.
LEMMA PlainInIs ==
  ASSUME Types, NEW f \in DOMAIN files, NEW names, DOMAIN names \subseteq Nat
  PROVE  PlainIn(f, names) \in MessageTypes \cup {None}
<1> DEFINE v == [k \in DOMAIN names |-> Plain(f, names[k])]
<1>1. DOMAIN v \subseteq Nat /\ \A k \in DOMAIN v : v[k] \in MessageTypes \cup {None}
  BY PlainIs
<1>2. PlainIn(f, names) = FirstFound(v)
  BY DEF PlainIn
<1> HIDE DEF v
<1>3. QED
  BY <1>1, <1>2, FirstFoundIs

\* The imports of a file lead to files.
LEMMA ImportsOfAre ==
  ASSUME Types, NEW f \in DOMAIN files
  PROVE  /\ imports[f] \in Seq(ImportTypes(DOMAIN files))
         /\ DOMAIN imports[f] \subseteq Nat
         /\ Targets(imports[f]) \subseteq DOMAIN files
         /\ \A i \in DOMAIN imports[f] : imports[f][i].target # None =>
              /\ imports[f][i].target \in DOMAIN files
              /\ imports[f][i].target \in Targets(imports[f])
              /\ files[imports[f][i].target].pkg \in Names
<1>1. imports[f] \in Seq(ImportTypes(DOMAIN files)) /\ DOMAIN imports[f] \subseteq Nat
  BY DEF Types
<1>2. \A i \in DOMAIN imports[f] : imports[f][i].target \in DOMAIN files \cup {None}
  <2>1. \A i \in DOMAIN imports[f] : imports[f][i] \in ImportTypes(DOMAIN files)
    BY <1>1
  <2>2. \A x \in ImportTypes(DOMAIN files) : x.target \in DOMAIN files \cup {None}
    BY DEF ImportTypes
  <2>3. QED
    BY <2>1, <2>2
<1>3. \A g \in DOMAIN files : files[g].pkg \in Names
  <2>1. \A g \in DOMAIN files : files[g] \in Files
    BY FilesAre DEF Types
  <2>2. \A x \in Files : x.pkg \in Names
    BY DEF Files
  <2>3. QED
    BY <2>1, <2>2
<1>4. \A i \in DOMAIN imports[f] : imports[f][i] \in Range(imports[f])
  BY DEF Range
<1>5. \A x \in Range(imports[f]) : \E i \in DOMAIN imports[f] : x = imports[f][i]
  BY DEF Range
<1>6. Targets(imports[f]) \subseteq DOMAIN files
  BY <1>2, <1>5 DEF Targets
<1>7. QED
  BY <1>1, <1>2, <1>3, <1>4, <1>6 DEF Targets

\* The source of an extension is a message.
LEMMA ExtendSourceIs ==
  ASSUME Types, NEW f \in DOMAIN files, NEW m \in MessageTypes
  PROVE  ExtendSource(f, m) \in MessageTypes \cup {None}
<1>1. LocalExtendSource(f, m) \in MessageTypes \cup {None}
  <2>1. m.name \in Names
    BY DEF MessageTypes
  <2>2. QED
    BY <2>1, ScopedDomain, PlainInIs DEF LocalExtendSource
<1>2. ImportedExtendSource(f, m) \in MessageTypes \cup {None}
  <2> DEFINE v == [i \in DOMAIN imports[f] |->
                     IF imports[f][i].target = None THEN None
                     ELSE PlainIn(imports[f][i].target,
                                  Scoped(m.extends, files[imports[f][i].target].pkg))]
  <2>1. ASSUME NEW i \in DOMAIN imports[f], imports[f][i].target # None
        PROVE  PlainIn(imports[f][i].target, Scoped(m.extends, files[imports[f][i].target].pkg))
                 \in MessageTypes \cup {None}
    BY <2>1, ImportsOfAre, ScopedDomain, PlainInIs
  <2>2. DOMAIN v \subseteq Nat /\ \A i \in DOMAIN v : v[i] \in MessageTypes \cup {None}
    BY <2>1, ImportsOfAre
  <2>3. ImportedExtendSource(f, m) = FirstFound(v)
    BY DEF ImportedExtendSource
  <2> HIDE DEF v
  <2>4. QED
    BY <2>2, <2>3, FirstFoundIs
<1>3. QED
  BY <1>1, <1>2 DEF ExtendSource

\* An extended message is a message.
LEMMA ExtendedIs ==
  ASSUME Types, NEW f \in DOMAIN files, NEW m \in MessageTypes
  PROVE  Extended(f, m) \in MessageTypes
<1> DEFINE src == ExtendSource(f, m)
           more == [k \in DOMAIN src.fields |-> [src.fields[k] EXCEPT !.extra = Append(@, src.name)]]
<1>1. CASE m.extends = None \/ src = None
  BY <1>1 DEF Extended
<1>2. CASE ~(m.extends = None \/ src = None)
  <2>1. src \in MessageTypes
    BY <1>2, ExtendSourceIs
  <2>2. Extended(f, m) = [m EXCEPT !.fields = m.fields \o more]
    BY <1>2 DEF Extended
  <2>3. src.fields \in Seq(FieldTypes) /\ src.name \in Names /\ m.fields \in Seq(FieldTypes)
    BY <2>1 DEF MessageTypes
  <2> HIDE DEF src
  <2>4. ASSUME NEW x \in FieldTypes PROVE [x EXCEPT !.extra = Append(@, src.name)] \in FieldTypes
    <3>1. Append(x.extra, src.name) \in Seq(Names)
      BY <2>3 DEF FieldTypes
    <3>2. QED
      BY <3>1 DEF FieldTypes
  <2>5. \A k \in DOMAIN src.fields : more[k] \in FieldTypes
    BY <2>3, <2>4
  <2>6. more \in Seq(FieldTypes)
    <3>1. DOMAIN src.fields = 1..Len(src.fields) /\ Len(src.fields) \in Nat
      BY <2>3
    <3>2. more = [k \in 1..Len(src.fields) |-> more[k]]
      BY <3>1
    <3> HIDE DEF more
    <3>3. QED
      BY <2>5, <3>1, <3>2
  <2> HIDE DEF more
  <2>7. m.fields \o more \in Seq(FieldTypes)
    BY <2>3, <2>6
  <2>8. QED
    BY <2>2, <2>7 DEF MessageTypes
<1>3. QED
  BY <1>1, <1>2

-----------------------------------------------------------------------------
\* A referent of one of the given files, which that file has.
Leads(r, from, msgs) ==
  /\ r \in Referents /\ r.file \in from
  /\ \/ r.enum
     \/ \E k \in DOMAIN msgs[r.file] :
          msgs[r.file][k].name = r.name /\ msgs[r.file][k].extends = r.extends

\* A name is bound to an enum or a message that the file has.
LEMMA NamedIs ==
  ASSUME Types, NEW f \in DOMAIN files, NEW name
  PROVE  Named(f, name) = None \/ Leads(Named(f, name), {f}, messages)
<1>1. f \in Nat /\ files[f] \in Files
  BY FilesAre DEF Types
<1>2. CASE \E k \in DOMAIN files[f].enums : files[f].enums[k].name = name
  <2> DEFINE r == [file |-> f, name |-> name, enum |-> TRUE, extends |-> None]
  <2>1. PICK k \in DOMAIN files[f].enums : files[f].enums[k].name = name
    BY <1>2
  <2>2. files[f].enums \in Seq(EnumTypes)
    BY <1>1 DEF Files
  <2>3. name \in Names
    <3>1. files[f].enums[k] \in EnumTypes
      BY <2>1, <2>2, Element
    <3>2. QED
      BY <2>1, <3>1 DEF EnumTypes
  <2>4. Named(f, name) = r
    BY <1>2 DEF Named
  <2>5. r \in Referents
    BY <1>1, <2>3 DEF Referents
  <2>6. QED
    BY <2>4, <2>5 DEF Leads
<1>3. CASE ~\E k \in DOMAIN files[f].enums : files[f].enums[k].name = name
  <2> DEFINE ps == {j \in DOMAIN messages[f] : messages[f][j].name = name}
             k == First(ps)
             r == [file |-> f, name |-> name, enum |-> FALSE, extends |-> messages[f][k].extends]
  <2>1. Named(f, name) = IF k = None THEN None ELSE r
    BY <1>3 DEF Named
  <2>2. messages[f] \in Seq(MessageTypes) /\ ps \subseteq Nat
    BY DEF Types
  <2>3. k \in ps \/ k = None
    <3> HIDE DEF ps
    <3>1. QED
      BY <2>2, FirstIs
  <2> HIDE DEF k
  <2>4. CASE k = None
    BY <2>1, <2>4
  <2>5. CASE k # None
    <3>1. k \in DOMAIN messages[f] /\ messages[f][k].name = name
      BY <2>3, <2>5
    <3>2. messages[f][k] \in MessageTypes
      BY <2>2, <3>1
    <3>3. messages[f][k].name \in Names /\ messages[f][k].extends \in Names \cup {None}
      BY <3>2 DEF MessageTypes
    <3>4. r \in Referents /\ r.file = f /\ r.name = name /\ r.extends = messages[f][k].extends
      BY <1>1, <3>1, <3>3 DEF Referents
    <3>5. Named(f, name) = r
      BY <2>1, <2>5
    <3> HIDE DEF r
    <3>6. Leads(r, {f}, messages)
      BY <3>1, <3>4 DEF Leads
    <3>7. QED
      BY <3>5, <3>6
  <2>6. QED
    BY <2>4, <2>5
<1>4. QED
  BY <1>2, <1>3

\* So is the first of several names that is found.
LEMMA NamedInIs ==
  ASSUME Types, NEW f \in DOMAIN files, NEW names, DOMAIN names \subseteq Nat
  PROVE  NamedIn(f, names) = None \/ Leads(NamedIn(f, names), {f}, messages)
<1> DEFINE v == [k \in DOMAIN names |-> Named(f, names[k])]
<1>1. DOMAIN v \subseteq Nat /\ \A k \in DOMAIN v : v[k] = None \/ Leads(v[k], {f}, messages)
  BY NamedIs
<1>2. NamedIn(f, names) = FirstFound(v)
  BY DEF NamedIn
<1> HIDE DEF v
<1>3. QED
  BY <1>1, <1>2, FirstFoundIs

\* A reference leads into the file or into a file that it imports, to something that is there.
LEMMA ReferenceIs ==
  ASSUME Types, NEW f \in DOMAIN files, NEW m \in MessageTypes, NEW x \in FieldTypes
  PROVE  \/ Reference(f, m, x) = None
         \/ Leads(Reference(f, m, x), {f} \cup Targets(imports[f]), messages)
<1> DEFINE names == TypeNames(x)
           all == {f} \cup Targets(imports[f])
<1>1. DOMAIN names \subseteq Nat
  <2>1. x.type \in Names /\ x.extra \in Seq(Names)
    BY DEF FieldTypes
  <2>2. <<x.type>> \o x.extra \in Seq(Names)
    BY <2>1
  <2>3. QED
    BY <2>2 DEF TypeNames
<1> HIDE DEF names
<1>2. ASSUME NEW r, NEW g \in all, Leads(r, {g}, messages) PROVE Leads(r, all, messages)
  <2> HIDE DEF all
  <2>1. QED
    BY <1>2 DEF Leads
<1>3. LocalReference(f, m, x) = None \/ Leads(LocalReference(f, m, x), all, messages)
  <2> DEFINE v == [k \in DOMAIN names |-> NamedIn(f, Scoped(names[k], m.name))]
  <2>1. m.name \in Names
    BY DEF MessageTypes
  <2>2. ASSUME NEW k \in DOMAIN names
        PROVE  NamedIn(f, Scoped(names[k], m.name)) = None
               \/ Leads(NamedIn(f, Scoped(names[k], m.name)), {f}, messages)
    BY <2>1, ScopedDomain, NamedInIs
  <2>3. DOMAIN v \subseteq Nat /\ \A k \in DOMAIN v : v[k] = None \/ Leads(v[k], {f}, messages)
    BY <1>1, <2>2
  <2>4. LocalReference(f, m, x) = FirstFound(v)
    BY DEF LocalReference, names
  <2> HIDE DEF v
  <2>5. f \in all
    OBVIOUS
  <2> HIDE DEF all
  <2>6. QED
    BY <1>2, <2>3, <2>4, <2>5, FirstFoundIs
<1>4. ImportedReference(f, x) = None \/ Leads(ImportedReference(f, x), all, messages)
  <2> DEFINE w(k) == [i \in DOMAIN imports[f] |->
                        IF imports[f][i].target = None THEN None
                        ELSE NamedIn(imports[f][i].target,
                                     Scoped(names[k], files[imports[f][i].target].pkg))]
             v == [k \in DOMAIN names |-> FirstFound(w(k))]
  <2>1. ASSUME NEW k \in DOMAIN names
        PROVE  FirstFound(w(k)) = None \/ Leads(FirstFound(w(k)), all, messages)
    <3>1. ASSUME NEW i \in DOMAIN imports[f], imports[f][i].target # None
          PROVE  LET r == NamedIn(imports[f][i].target,
                                  Scoped(names[k], files[imports[f][i].target].pkg))
                 IN r = None \/ Leads(r, all, messages)
      <4> DEFINE g == imports[f][i].target
                 r == NamedIn(g, Scoped(names[k], files[g].pkg))
      <4>1. g \in DOMAIN files /\ g \in all /\ files[g].pkg \in Names
        BY <3>1, ImportsOfAre
      <4> HIDE DEF g
      <4>2. r = None \/ Leads(r, {g}, messages)
        BY <4>1, ScopedDomain, NamedInIs
      <4> HIDE DEF r, all
      <4>3. r = None \/ Leads(r, all, messages)
        BY <1>2, <4>1, <4>2
      <4>4. QED
        BY <4>3 DEF r, g
    <3>2. DOMAIN w(k) \subseteq Nat /\ \A i \in DOMAIN w(k) : w(k)[i] = None \/ Leads(w(k)[i], all, messages)
      <4> HIDE DEF all
      <4>1. QED
        BY <3>1, ImportsOfAre
    <3> HIDE DEF w, all
    <3>3. QED
      BY <3>2, FirstFoundIs
  <2>2. ImportedReference(f, x) = FirstFound(v)
    BY DEF ImportedReference, names
  <2> HIDE DEF w, all
  <2>3. DOMAIN v \subseteq Nat /\ \A k \in DOMAIN v : v[k] = None \/ Leads(v[k], all, messages)
    BY <1>1, <2>1
  <2> HIDE DEF v
  <2>4. QED
    BY <2>2, <2>3, FirstFoundIs
<1>5. QED
  BY <1>3, <1>4 DEF Reference

-----------------------------------------------------------------------------
\* Every step keeps the types.
Blank(f) == [k \in DOMAIN files[f].imports |-> [target |-> None, public |-> files[f].imports[k].public]]
Own(f) == [k \in DOMAIN files[f].imports |->
             [target |-> Target(f, files[f].imports[k].path), public |-> files[f].imports[k].public]]

\* Resolved or not, the imports that a file declares are imports.
LEMMA OwnTypes ==
  ASSUME files \in Projects, NEW f \in DOMAIN files
  PROVE  /\ Blank(f) \in Seq(ImportTypes(DOMAIN files))
         /\ Own(f) \in Seq(ImportTypes(DOMAIN files))
<1> DEFINE own == files[f].imports
<1>1. files[f] \in Files
  BY FilesAre
<1>2. own \in Seq(ImportPaths)
  BY <1>1 DEF Files
<1>3. \A k \in DOMAIN own : own[k].public \in BOOLEAN
  <2> HIDE DEF own
  <2>1. \A k \in DOMAIN own : own[k] \in ImportPaths
    BY <1>2, Element
  <2>2. \A x \in ImportPaths : x.public \in BOOLEAN
    BY DEF ImportPaths
  <2>3. QED
    BY <2>1, <2>2
<1>4. DOMAIN own = 1..Len(own) /\ Len(own) \in Nat
  BY <1>2
<1> HIDE DEF own
<1>5. \A k \in DOMAIN own : [target |-> None, public |-> own[k].public] \in ImportTypes(DOMAIN files)
  BY <1>3 DEF ImportTypes
<1>6. \A k \in DOMAIN own :
        [target |-> Target(f, own[k].path), public |-> own[k].public] \in ImportTypes(DOMAIN files)
  BY <1>3, TargetIs DEF ImportTypes
<1>7. Blank(f) = [k \in 1..Len(own) |-> [target |-> None, public |-> own[k].public]]
  BY <1>4 DEF Blank, own
<1>8. Own(f) = [k \in 1..Len(own) |-> [target |-> Target(f, own[k].path), public |-> own[k].public]]
  BY <1>4 DEF Own, own
<1>9. Blank(f) \in [1..Len(own) -> ImportTypes(DOMAIN files)]
  BY <1>4, <1>5, <1>7
<1>10. Own(f) \in [1..Len(own) -> ImportTypes(DOMAIN files)]
  BY <1>4, <1>6, <1>8
<1>11. QED
  BY <1>4, <1>9, <1>10, Listed

\* The types hold at the start.
LEMMA InitTypes ==
  ASSUME Init
  PROVE  Types
<1>1. files \in Projects /\ phase = 1 /\ at = 1
  BY DEF Init
<1>2. 1 \in DOMAIN files
  BY <1>1, FilesAre
<1>3. imports \in [DOMAIN files -> Seq(ImportTypes(DOMAIN files))]
  <2>1. imports = [f \in DOMAIN files |-> Blank(f)]
    BY DEF Init, Blank
  <2>2. QED
    BY <1>1, <2>1, OwnTypes
<1>4. messages \in [DOMAIN files -> Seq(MessageTypes)]
  <2>1. messages = [f \in DOMAIN files |-> files[f].messages]
    BY DEF Init
  <2>2. \A f \in DOMAIN files : files[f] \in Files
    BY <1>1, FilesAre
  <2>3. \A x \in Files : x.messages \in Seq(MessageTypes)
    BY DEF Files
  <2>4. QED
    BY <2>1, <2>2, <2>3
<1>5. errors \in [1..8 -> SUBSET DOMAIN files]
  <2>1. errors = [p \in 1..8 |-> {}]
    <3>1. errors = [p \in 1..Len(Phases) |-> {}]
      BY DEF Init
    <3>2. Len(Phases) = 8
      BY DEF Phases
    <3>3. QED
      BY <3>1, <3>2
  <2>2. QED
    BY <2>1
<1>6. aliases \in [DOMAIN files -> Aliases]
  <2>1. <<>> \in Aliases
    BY DEF Aliases, Numbered
  <2>2. QED
    BY <2>1 DEF Init
<1>7. QED
  BY <1>1, <1>2, <1>3, <1>4, <1>5, <1>6 DEF Types

\* A phase adds its errors.
Noted == [errors EXCEPT ![phase] = @ \cup {at}]
ErrorsGrow ==
  /\ errors' \in [1..8 -> SUBSET DOMAIN files]
  /\ \A p \in 1..8 : errors[p] \subseteq errors'[p]

\* An error is added to those of the phase.
LEMMA NotedIs ==
  ASSUME Types
  PROVE  /\ Noted \in [1..8 -> SUBSET DOMAIN files] /\ at \in Noted[phase]
         /\ \A p \in 1..8 : errors[p] \subseteq Noted[p]
  BY DEF Types, Noted

\* Errors are never removed.
LEMMA ErrorsAre ==
  ASSUME Types, errors' = errors \/ errors' = Noted
  PROVE  ErrorsGrow
  BY NotedIs DEF Types, ErrorsGrow

\* ResolveImports keeps the types.
LEMMA ResolveImportsTypes ==
  ASSUME Types, ResolveImports
  PROVE  Types' /\ phase = 1 /\ Moved /\ ErrorsGrow
<1>1. phase = 1
  BY PhaseNumbers DEF Types, ResolveImports
<1>2. Moved
  BY <1>1, Moves DEF ResolveImports
<1>3. ErrorsGrow
  BY ErrorsAre DEF ResolveImports, Failed, Noted
<1> DEFINE own == imports[at]
           new == [k \in DOMAIN own |-> [own[k] EXCEPT !.target = Target(at, files[at].imports[k].path)]]
<1>4. imports' = [imports EXCEPT ![at] = new]
  BY DEF ResolveImports
<1>5. new \in Seq(ImportTypes(DOMAIN files))
  <2>1. own \in Seq(ImportTypes(DOMAIN files)) /\ files \in Projects
    BY DEF Types
  <2> HIDE DEF own
  <2>2. DOMAIN own = 1..Len(own) /\ Len(own) \in Nat /\ \A k \in DOMAIN own : own[k] \in ImportTypes(DOMAIN files)
    BY <2>1
  <2>3. \A x \in ImportTypes(DOMAIN files) : \A t \in DOMAIN files \cup {None} :
          [x EXCEPT !.target = t] \in ImportTypes(DOMAIN files)
    BY DEF ImportTypes
  <2>4. \A k \in DOMAIN own : [own[k] EXCEPT !.target = Target(at, files[at].imports[k].path)]
                                \in ImportTypes(DOMAIN files)
    BY <2>1, <2>2, <2>3, TargetIs
  <2>5. QED
    BY <2>2, <2>4
<1> HIDE DEF new
<1>6. imports' \in [DOMAIN files -> Seq(ImportTypes(DOMAIN files))]
  BY <1>4, <1>5 DEF Types
<1>7. QED
  BY <1>1, <1>2, <1>3, <1>6 DEF Types, Moved, ErrorsGrow, ResolveImports

\* AddPublicImports keeps the types.
LEMMA AddPublicImportsTypes ==
  ASSUME Types, AddPublicImports
  PROVE  Types' /\ phase = 2 /\ Moved
<1>1. phase = 2
  BY PhaseNumbers DEF Types, AddPublicImports
<1>2. Moved
  BY <1>1, Moves DEF AddPublicImports
<1>3. Followed(at, imports) \in Seq(ImportTypes(DOMAIN files))
  BY ImportsOfAre, FollowedIs DEF Types
<1>4. imports' \in [DOMAIN files -> Seq(ImportTypes(DOMAIN files))]
  BY <1>3 DEF Types, AddPublicImports
<1>5. QED
  BY <1>1, <1>2, <1>4 DEF Types, Moved, AddPublicImports

\* ResolveExtensions keeps the types.
LEMMA ResolveExtensionsTypes ==
  ASSUME Types, ResolveExtensions
  PROVE  Types' /\ phase = 3 /\ Moved /\ ErrorsGrow
<1>1. phase = 3
  BY PhaseNumbers DEF Types, ResolveExtensions
<1>2. Moved
  BY <1>1, Moves DEF ResolveExtensions
<1>3. ErrorsGrow
  BY ErrorsAre DEF ResolveExtensions, Failed, Noted
<1> DEFINE ps == {k \in DOMAIN messages[at] : ~Overridden(at, messages[at][k])}
           kept == Picked(messages[at], ps)
           new == [k \in DOMAIN kept |-> Extended(at, kept[k])]
<1>4. messages' = [messages EXCEPT ![at] = new]
  BY DEF ResolveExtensions
<1>5. kept \in Seq(MessageTypes)
  <2>1. messages[at] \in Seq(MessageTypes)
    BY DEF Types
  <2>2. ps \in SUBSET (1..Len(messages[at]))
    BY <2>1
  <2> HIDE DEF ps
  <2>3. QED
    BY <2>1, <2>2, PickedIs
<1> HIDE DEF kept
<1>6. new \in Seq(MessageTypes)
  <2>1. DOMAIN kept = 1..Len(kept) /\ Len(kept) \in Nat /\ \A k \in DOMAIN kept : kept[k] \in MessageTypes
    BY <1>5
  <2>2. at \in DOMAIN files
    BY DEF Types
  <2>3. \A k \in DOMAIN kept : Extended(at, kept[k]) \in MessageTypes
    BY <2>1, <2>2, ExtendedIs
  <2>4. QED
    BY <2>1, <2>3
<1> HIDE DEF new
<1>7. messages' \in [DOMAIN files -> Seq(MessageTypes)]
  BY <1>4, <1>6 DEF Types
<1>8. QED
  BY <1>1, <1>2, <1>3, <1>7 DEF Types, Moved, ErrorsGrow, ResolveExtensions

\* A message keeps its name when its references are bound.
LEMMA BindIs ==
  ASSUME Types, NEW f \in DOMAIN files, NEW m \in MessageTypes
  PROVE  /\ Bind(f, m) \in MessageTypes
         /\ Bind(f, m).name = m.name /\ Bind(f, m).extends = m.extends
         /\ \A j \in DOMAIN Bind(f, m).fields :
              LET r == Bind(f, m).fields[j].ref
              IN r = None \/ Leads(r, {f} \cup Targets(imports[f]), messages)
<1> DEFINE fs == m.fields
           new == [j \in DOMAIN fs |-> [fs[j] EXCEPT !.ref = Reference(f, m, fs[j])]]
<1>1. fs \in Seq(FieldTypes)
  BY DEF MessageTypes
<1> HIDE DEF fs
<1>2. DOMAIN fs = 1..Len(fs) /\ Len(fs) \in Nat /\ \A j \in DOMAIN fs : fs[j] \in FieldTypes
  BY <1>1
<1>3. ASSUME NEW x \in FieldTypes
      PROVE  /\ Reference(f, m, x) \in Referents \cup {None}
             /\ \/ Reference(f, m, x) = None
                \/ Leads(Reference(f, m, x), {f} \cup Targets(imports[f]), messages)
  BY ReferenceIs DEF Leads
<1>4. \A x \in FieldTypes : \A r \in Referents \cup {None} :
        [x EXCEPT !.ref = r] \in FieldTypes /\ [x EXCEPT !.ref = r].ref = r
  BY DEF FieldTypes
<1>5. \A j \in DOMAIN fs : /\ new[j] \in FieldTypes
                           /\ \/ new[j].ref = None
                              \/ Leads(new[j].ref, {f} \cup Targets(imports[f]), messages)
  <2>1. ASSUME NEW j \in DOMAIN fs
        PROVE  /\ new[j] \in FieldTypes /\ new[j].ref = Reference(f, m, fs[j])
               /\ fs[j] \in FieldTypes
    <3> DEFINE r == Reference(f, m, fs[j])
    <3>1. fs[j] \in FieldTypes /\ r \in Referents \cup {None} /\ new[j] = [fs[j] EXCEPT !.ref = r]
      BY <1>2, <1>3
    <3> HIDE DEF r, new
    <3>2. new[j] \in FieldTypes /\ new[j].ref = r
      BY <1>4, <3>1
    <3>3. QED
      BY <3>1, <3>2 DEF r
  <2> HIDE DEF new
  <2>2. QED
    BY <1>3, <2>1
<1>6. new \in [1..Len(fs) -> FieldTypes] /\ DOMAIN new = DOMAIN fs
  BY <1>2, <1>5
<1>7. Bind(f, m) = [m EXCEPT !.fields = new]
  BY DEF Bind, fs
<1> HIDE DEF new
<1>8. new \in Seq(FieldTypes)
  BY <1>2, <1>6, Listed
<1>9. /\ Bind(f, m) \in MessageTypes /\ Bind(f, m).fields = new
      /\ Bind(f, m).name = m.name /\ Bind(f, m).extends = m.extends
  BY <1>7, <1>8 DEF MessageTypes
<1>10. QED
  BY <1>5, <1>6, <1>9

\* ResolveReferences keeps the types, and binds the messages of one file.
LEMMA ResolveReferencesTypes ==
  ASSUME Types, ResolveReferences
  PROVE  /\ Types' /\ phase = 4 /\ Moved /\ ErrorsGrow
         /\ messages' = [messages EXCEPT ![at] = [k \in DOMAIN messages[at] |-> Bind(at, messages[at][k])]]
<1>1. phase = 4
  BY PhaseNumbers DEF Types, ResolveReferences
<1>2. Moved
  <2>1. Advance
    BY Zenon DEF ResolveReferences
  <2>2. QED
    BY <1>1, <2>1, Moves
<1>3. ErrorsGrow
  BY ErrorsAre DEF ResolveReferences, Failed, Noted
<1> DEFINE ms == messages[at]
           new == [k \in DOMAIN ms |-> Bind(at, ms[k])]
<1>4. messages' = [messages EXCEPT ![at] = new]
  BY DEF ResolveReferences
<1>5. ms \in Seq(MessageTypes) /\ at \in DOMAIN files
  BY DEF Types
<1>6. new \in Seq(MessageTypes)
  <2> HIDE DEF ms
  <2>1. DOMAIN ms = 1..Len(ms) /\ Len(ms) \in Nat /\ \A k \in DOMAIN ms : ms[k] \in MessageTypes
    BY <1>5
  <2>2. \A k \in DOMAIN ms : Bind(at, ms[k]) \in MessageTypes
    BY <1>5, <2>1, BindIs
  <2>3. new \in [1..Len(ms) -> MessageTypes]
    BY <2>1, <2>2
  <2> HIDE DEF new
  <2>4. QED
    BY <2>1, <2>3, Listed
<1> HIDE DEF new
<1>7. messages' \in [DOMAIN files -> Seq(MessageTypes)]
  BY <1>4, <1>6 DEF Types
<1>8. QED
  BY <1>1, <1>2, <1>3, <1>4, <1>7 DEF Types, Moved, ErrorsGrow, ResolveReferences, new

\* ResolveOptions keeps the types.
LEMMA ResolveOptionsTypes ==
  ASSUME Types, ResolveOptions
  PROVE  Types' /\ phase = 5 /\ Moved
<1>1. phase = 5
  BY PhaseNumbers DEF Types, ResolveOptions
<1>2. Moved
  BY OptionsMove
<1>3. QED
  BY <1>1, <1>2 DEF Types, Moved, ResolveOptions

-----------------------------------------------------------------------------
\* The aliases are reached without errors, and without errors every import was found.
Quiet == phase = 6 => \A p \in 1..8 : errors[p] = {}
Found ==
  errors[1] = {} =>
    \A f \in DOMAIN files : Past(1, f) => \A x \in Range(imports[f]) : x.target # None
\* Before the phases that change them the imports are those of the file.
OwnImports ==
  \A f \in DOMAIN files :
    /\ ~Past(1, f) => imports[f] = Blank(f)
    /\ Past(1, f) /\ ~Past(2, f) => imports[f] = Own(f)

\* MapImports keeps the types: every import that it maps was found.
LEMMA MapImportsTypes ==
  ASSUME Types, Quiet, Found, MapImports
  PROVE  Types' /\ phase = 6 /\ Moved
<1>1. phase = 6
  BY PhaseNumbers DEF Types, MapImports
<1>2. Moved
  BY <1>1, Moves DEF MapImports
<1> DEFINE gos == Aliased(at, imports[at], files)
           new == IF messages[at] # <<>> THEN Added(gos, Library) ELSE gos
<1>3. gos \in Aliases
  <2>1. at \in DOMAIN files /\ Past(1, at) /\ files \in Seq(Files)
    BY <1>1, FilesAre DEF Types, Past
  <2>2. \A x \in Range(imports[at]) : x.target # None
    BY <1>1, <2>1 DEF Quiet, Found
  <2>3. imports[at] \in Seq(ImportTypes(DOMAIN files))
    BY ImportsOfAre, <2>1
  <2>4. \A n \in 1..Len(imports[at]) : imports[at][n].target \in DOMAIN files
    <3>1. DOMAIN imports[at] = 1..Len(imports[at])
      BY <2>3
    <3>2. \A n \in DOMAIN imports[at] : imports[at][n].target # None
      BY <2>2 DEF Range
    <3>3. QED
      BY <2>1, <3>1, <3>2, ImportsOfAre
  <2>5. QED
    BY <2>1, <2>3, <2>4, AliasedIs
<1> HIDE DEF gos
<1>4. Library \in Packages
  <2>1. [path |-> Library.path, short |-> Library.short] \in Packages
    BY DEF Packages, Paths, Shorts
  <2>2. QED
    BY <2>1 DEF Library
<1>5. new \in Aliases
  BY <1>3, <1>4, AddedNumbered
<1>6. aliases' = [aliases EXCEPT ![at] = new]
  BY DEF MapImports, gos
<1> HIDE DEF new
<1>7. aliases' \in [DOMAIN files -> Aliases]
  BY <1>5, <1>6 DEF Types
<1>8. QED
  BY <1>1, <1>2, <1>7 DEF Types, Moved, MapImports

\* After the first two phases nothing changes the imports.
LEMMA LaterImports ==
  ASSUME Types, Found, OwnImports, phase \in 3..6, Moved, ErrorsGrow, files' = files, imports' = imports
  PROVE  Found' /\ OwnImports'
<1>1. \A f \in DOMAIN files : Past(1, f) /\ Past(2, f)
  BY DEF Past
<1>2. \A f \in DOMAIN files : Past(1, f)' /\ Past(2, f)'
  <2>1. 1 \in 1..4 /\ 2 \in 1..4
    OBVIOUS
  <2>2. QED
    BY <1>1, <2>1 DEF Moved
<1>3. OwnImports'
  BY <1>2 DEF OwnImports
<1>4. Found'
  <2>1. errors'[1] = {} => errors[1] = {}
    BY DEF ErrorsGrow
  <2>2. QED
    BY <1>1, <2>1 DEF Found
<1>5. QED
  BY <1>3, <1>4

\* What a file declares does not change.
LEMMA OwnStays ==
  ASSUME files' = files
  PROVE  \A f : Blank(f)' = Blank(f) /\ Own(f)' = Own(f)
  BY ProjectStays DEF Blank, Own

\* The first phase resolves the imports of the file.
LEMMA ImportsResolved ==
  ASSUME Types, Found, OwnImports, ResolveImports
  PROVE  Found' /\ OwnImports' /\ imports' = [imports EXCEPT ![at] = Own(at)]
<1>1. phase = 1 /\ Moved /\ ErrorsGrow
  BY ResolveImportsTypes
<1>2. at \in DOMAIN files /\ ~Past(1, at)
  BY <1>1, FilesAre DEF Types, Past
<1>3. imports' = [imports EXCEPT ![at] = Own(at)]
  <2> DEFINE own == imports[at]
  <2>1. own = Blank(at)
    BY <1>2 DEF OwnImports
  <2>2. imports' = [imports EXCEPT ![at] =
          [k \in DOMAIN own |-> [own[k] EXCEPT !.target = Target(at, files[at].imports[k].path)]]]
    BY DEF ResolveImports
  <2> HIDE DEF own
  <2>3. [k \in DOMAIN own |-> [own[k] EXCEPT !.target = Target(at, files[at].imports[k].path)]] = Own(at)
    <3>1. DOMAIN own = DOMAIN files[at].imports
      BY <2>1 DEF Blank
    <3>2. ASSUME NEW k \in DOMAIN own, NEW u
          PROVE  [own[k] EXCEPT !.target = u] = [target |-> u, public |-> files[at].imports[k].public]
      <4>1. own[k] = [target |-> None, public |-> files[at].imports[k].public]
        BY <2>1, <3>1 DEF Blank
      <4>2. QED
        BY <4>1
    <3>3. QED
      BY <3>1, <3>2 DEF Own
  <2>4. QED
    BY <2>2, <2>3
<1>4. /\ \A f \in DOMAIN files : Past(1, f)' <=> Past(1, f) \/ f = at
      /\ \A f \in DOMAIN files : ~Past(2, f) /\ ~Past(2, f)'
  <2>1. 1 \in 1..4 /\ 2 \in 1..4
    OBVIOUS
  <2>2. \A f \in DOMAIN files : ~Past(2, f)
    BY <1>1 DEF Past
  <2>3. QED
    BY <1>1, <2>1, <2>2 DEF Moved
<1>5. files' = files /\ imports'[at] = Own(at) /\ \A f \in DOMAIN files : f # at => imports'[f] = imports[f]
  BY <1>2, <1>3 DEF Types, ResolveImports
<1>6. OwnImports'
  <2>1. \A f : Blank(f)' = Blank(f) /\ Own(f)' = Own(f)
    BY <1>5, OwnStays
  <2>2. QED
    BY <1>4, <1>5, <2>1 DEF OwnImports
<1>7. Found'
  <2>1. SUFFICES ASSUME errors'[1] = {}, NEW f \in DOMAIN files, Past(1, f)'
                 PROVE  \A x \in Range(imports'[f]) : x.target # None
    BY <1>5 DEF Found
  <2>2. errors[1] = {}
    BY <1>1, <2>1 DEF ErrorsGrow
  <2>3. CASE f = at
    <3>1. ~\E k \in DOMAIN imports'[at] : imports'[at][k].target = None
      <4>1. SUFFICES ASSUME \E k \in DOMAIN imports'[at] : imports'[at][k].target = None PROVE FALSE
        OBVIOUS
      <4>2. errors' = Noted
        BY <4>1 DEF ResolveImports, Failed, Noted
      <4>3. QED
        BY <1>1, <2>1, <4>2, NotedIs
    <3>2. QED
      BY <2>3, <3>1 DEF Range
  <2>4. CASE f # at
    BY <1>4, <1>5, <2>1, <2>2, <2>4 DEF Found
  <2>5. QED
    BY <2>3, <2>4
<1>8. QED
  BY <1>3, <1>6, <1>7

\* Where public imports lead.
PublicTargets(s) == {x.target : x \in PublicOf(s)} \ {None}

\* The same as FollowedIs, said of the files that the imports lead to.
LEMMA FollowedTargets ==
  ASSUME NEW imps, NEW f, NEW q, IsFollowed(q, f, imps)
  PROVE  /\ Targets(imps[f]) \subseteq Targets(q)
         /\ PublicTargets(imps[f]) \subseteq PublicTargets(q)
         /\ PublicTargets(q) \subseteq Targets(q)
         /\ Targets(q) \subseteq Targets(imps[f]) \cup UNION {PublicTargets(imps[t]) : t \in Targets(imps[f])}
         /\ PublicTargets(q)
              \subseteq PublicTargets(imps[f]) \cup UNION {PublicTargets(imps[t]) : t \in Targets(imps[f])}
         /\ \A t \in Targets(imps[f]) : t # f => PublicTargets(imps[t]) \subseteq PublicTargets(q)
<1>1. /\ Range(imps[f]) \subseteq Range(q)
      /\ \A x \in Range(q) : x \in Range(imps[f]) \/ \E t \in Targets(imps[f]) : x \in PublicOf(imps[t])
      /\ \A t \in Targets(imps[f]) : t # f => PublicOf(imps[t]) \subseteq Range(q)
  BY DEF IsFollowed
<1>2. \A s : \A x \in PublicOf(s) : x \in Range(s) /\ x.public
  BY DEF PublicOf
<1>3. \A s : \A x \in Range(s) : x.public => x \in PublicOf(s)
  BY DEF PublicOf
<1>4. \A s, g : g \in Targets(s) <=> g # None /\ \E x \in Range(s) : g = x.target
  BY DEF Targets
<1>5. \A s, g : g \in PublicTargets(s) <=> g # None /\ \E x \in PublicOf(s) : g = x.target
  BY DEF PublicTargets
<1>6. Targets(imps[f]) \subseteq Targets(q)
  BY <1>1, <1>4
<1>7. PublicTargets(imps[f]) \subseteq PublicTargets(q)
  BY <1>1, <1>2, <1>3, <1>5
<1>8. PublicTargets(q) \subseteq Targets(q)
  BY <1>2, <1>4, <1>5
<1>9. ASSUME NEW g \in Targets(q)
      PROVE  g \in Targets(imps[f]) \cup UNION {PublicTargets(imps[t]) : t \in Targets(imps[f])}
  BY <1>1, <1>4, <1>5
<1>10. ASSUME NEW g \in PublicTargets(q)
       PROVE  g \in PublicTargets(imps[f]) \cup UNION {PublicTargets(imps[t]) : t \in Targets(imps[f])}
  BY <1>1, <1>2, <1>3, <1>5
<1>11. ASSUME NEW t \in Targets(imps[f]), t # f PROVE PublicTargets(imps[t]) \subseteq PublicTargets(q)
  BY <1>1, <1>2, <1>3, <1>5, <1>11
<1>12. QED
  BY <1>6, <1>7, <1>8, <1>9, <1>10, <1>11

\* The imports that a file declares lead to the files that Imported names.
LEMMA OwnTargets ==
  ASSUME files \in Projects, NEW f \in DOMAIN files
  PROVE  /\ Targets(Blank(f)) = {} /\ PublicTargets(Blank(f)) = {}
         /\ Targets(Own(f)) = Imported(f, FALSE) /\ PublicTargets(Own(f)) = Imported(f, TRUE)
<1> DEFINE own == files[f].imports
           t(k) == Target(f, own[k].path)
<1>1. \A k \in DOMAIN own : t(k) \in DOMAIN files \cup {None}
  BY TargetIs
<1>2. None \notin DOMAIN files
  BY FilesAre
<1>3. \A g : g \in Imported(f, FALSE) <=> g \in DOMAIN files /\ \E k \in DOMAIN own : t(k) = g
  BY DEF Imported
<1>4. \A g : g \in Imported(f, TRUE) <=> g \in DOMAIN files /\ \E k \in DOMAIN own : t(k) = g /\ own[k].public
  BY DEF Imported
<1>5. /\ DOMAIN Own(f) = DOMAIN own
      /\ \A k \in DOMAIN own : Own(f)[k].target = t(k) /\ Own(f)[k].public = own[k].public
  BY DEF Own
<1>6. DOMAIN Blank(f) = DOMAIN own /\ \A k \in DOMAIN own : Blank(f)[k].target = None
  BY DEF Blank
<1> HIDE DEF t, own
<1>7. Targets(Blank(f)) = {} /\ PublicTargets(Blank(f)) = {}
  BY <1>6 DEF Targets, PublicTargets, PublicOf, Range
<1>8. \A g : g \in Targets(Own(f)) <=> g # None /\ \E k \in DOMAIN own : t(k) = g
  BY <1>5 DEF Targets, Range
<1>9. \A g : g \in PublicTargets(Own(f)) <=> g # None /\ \E k \in DOMAIN own : t(k) = g /\ own[k].public
  <2>1. \A x : x \in PublicOf(Own(f)) <=> \E k \in DOMAIN own : x = Own(f)[k] /\ own[k].public
    BY <1>5 DEF PublicOf, Range
  <2>2. QED
    BY <1>5, <2>1 DEF PublicTargets
<1>10. Targets(Own(f)) = Imported(f, FALSE)
  BY <1>1, <1>2, <1>3, <1>8
<1>11. PublicTargets(Own(f)) = Imported(f, TRUE)
  <2>1. ASSUME NEW g \in PublicTargets(Own(f)) PROVE g \in Imported(f, TRUE)
    <3>1. g # None /\ \E k \in DOMAIN own : t(k) = g /\ own[k].public
      BY <1>9
    <3>2. g \in DOMAIN files
      BY <1>1, <3>1
    <3>3. QED
      BY <1>4, <3>1, <3>2
  <2>2. ASSUME NEW g \in Imported(f, TRUE) PROVE g \in PublicTargets(Own(f))
    <3>1. g \in DOMAIN files /\ \E k \in DOMAIN own : t(k) = g /\ own[k].public
      BY <1>4
    <3>2. g # None
      BY <1>2, <3>1
    <3>3. QED
      BY <1>9, <3>1, <3>2
  <2>3. QED
    BY <2>1, <2>2
<1>12. QED
  BY <1>7, <1>10, <1>11

\* The second phase follows the imports of the file.
LEMMA ImportsAdded ==
  ASSUME Types, Found, OwnImports, AddPublicImports
  PROVE  /\ Found' /\ OwnImports' /\ imports[at] = Own(at)
         /\ imports' = [imports EXCEPT ![at] = Followed(at, imports)]
         /\ IsFollowed(Followed(at, imports), at, imports)
<1>1. phase = 2 /\ Moved
  BY AddPublicImportsTypes
<1>2. at \in DOMAIN files /\ Past(1, at) /\ ~Past(2, at)
  BY <1>1, FilesAre DEF Types, Past
<1>3. imports[at] = Own(at)
  BY <1>2 DEF OwnImports
<1> DEFINE q == Followed(at, imports)
<1>4. imports' = [imports EXCEPT ![at] = q] /\ files' = files /\ errors' = errors
  BY DEF AddPublicImports
<1>5. IsFollowed(q, at, imports)
  BY <1>2, ImportsOfAre, FollowedIs DEF Types
<1> HIDE DEF q
<1>6. imports'[at] = q /\ \A f \in DOMAIN files : f # at => imports'[f] = imports[f]
  BY <1>2, <1>4 DEF Types
<1>7. /\ \A f \in DOMAIN files : Past(1, f) /\ Past(1, f)'
      /\ \A f \in DOMAIN files : Past(2, f)' <=> Past(2, f) \/ f = at
  <2>1. 1 \in 1..4 /\ 2 \in 1..4
    OBVIOUS
  <2>2. \A f \in DOMAIN files : Past(1, f)
    BY <1>1 DEF Past
  <2>3. QED
    BY <1>1, <2>1, <2>2 DEF Moved
<1>8. OwnImports'
  <2>1. \A f : Blank(f)' = Blank(f) /\ Own(f)' = Own(f)
    BY <1>4, OwnStays
  <2>2. QED
    BY <1>4, <1>6, <1>7, <2>1 DEF OwnImports
<1>9. Found'
  <2>1. SUFFICES ASSUME errors[1] = {}, NEW f \in DOMAIN files, NEW x \in Range(imports'[f])
                 PROVE  x.target # None
    BY <1>4 DEF Found
  <2>2. \A g \in DOMAIN files : \A y \in Range(imports[g]) : y.target # None
    BY <1>7, <2>1 DEF Found
  <2>3. CASE f # at
    BY <1>6, <2>1, <2>2, <2>3
  <2>4. CASE f = at
    <3>1. x \in Range(imports[at]) \/ \E t \in Targets(imports[at]) : x \in PublicOf(imports[t])
      BY <1>5, <1>6, <2>1, <2>4 DEF IsFollowed
    <3>2. \A t \in Targets(imports[at]) : t \in DOMAIN files
      BY <1>2, ImportsOfAre
    <3>3. QED
      BY <1>2, <2>2, <3>1, <3>2 DEF PublicOf
  <2>5. QED
    BY <2>3, <2>4
<1>10. QED
  BY <1>3, <1>4, <1>5, <1>8, <1>9 DEF q

-----------------------------------------------------------------------------
\* Imports stay within what the files on the way import publicly.
ViaPublic(f) == UNION {Imported(g, TRUE) : g \in Reached(Imported(f, FALSE), FALSE)}
Within ==
  \A f \in DOMAIN files :
    /\ Targets(imports[f]) \subseteq Imported(f, FALSE) \cup ViaPublic(f)
    /\ PublicTargets(imports[f]) \subseteq Imported(f, TRUE) \cup ViaPublic(f)

\* Public imports of a file that another imports are within reach of that one.
LEMMA ViaPublicGrows ==
  ASSUME NEW f, NEW t \in Imported(f, FALSE)
  PROVE  Imported(t, TRUE) \subseteq ViaPublic(f) /\ ViaPublic(t) \subseteq ViaPublic(f)
<1> DEFINE A == Reached(Imported(f, FALSE), FALSE)
           B == Reached(Imported(t, FALSE), FALSE)
<1>1. Imported(f, FALSE) \subseteq DOMAIN files /\ Imported(t, FALSE) \subseteq DOMAIN files
  BY DEF Imported
<1>2. Imported(f, FALSE) \subseteq A /\ A \subseteq DOMAIN files /\ \A h \in A : Imported(h, FALSE) \subseteq A
  BY <1>1, ReachedIs
<1>3. \A r \in SUBSET DOMAIN files :
        Imported(t, FALSE) \subseteq r /\ (\A h \in r : Imported(h, FALSE) \subseteq r) => B \subseteq r
  BY <1>1, ReachedIs
<1> HIDE DEF A, B
<1>4. t \in A
  BY <1>2
<1>5. B \subseteq A
  BY <1>2, <1>3, <1>4
<1>6. QED
  BY <1>4, <1>5 DEF ViaPublic, A, B

\* What is within reach depends on the project alone.
LEMMA ViaPublicStays ==
  ASSUME files' = files
  PROVE  \A f : ViaPublic(f)' = ViaPublic(f)
<1> SUFFICES ASSUME NEW f PROVE ViaPublic(f)' = ViaPublic(f)
  OBVIOUS
<1> DEFINE A == Reached(Imported(f, FALSE), FALSE)
<1>1. \A h : Imported(h, FALSE)' = Imported(h, FALSE)
  BY ProjectStays
<1>2. A' = A
  <2> DEFINE Q(r) == Imported(f, FALSE) \subseteq r /\ \A h \in r : Imported(h, FALSE) \subseteq r
  <2>1. \A g : g \in A <=> g \in DOMAIN files /\ \A r \in SUBSET DOMAIN files : Q(r) => g \in r
    BY DEF Reached
  <2>2. \A g : g \in A' <=> g \in DOMAIN files /\ \A r \in SUBSET DOMAIN files : Q(r)' => g \in r
    BY DEF Reached
  <2>3. ASSUME NEW r PROVE Q(r)' <=> Q(r)
    BY <1>1
  <2>4. ASSUME NEW g PROVE g \in A' <=> g \in A
    <3> HIDE DEF A, Q
    <3>1. QED
      BY <2>1, <2>2, <2>3
  <2>5. A = {g \in DOMAIN files : g \in A} /\ A' = {g \in DOMAIN files : g \in A'}
    BY DEF Reached
  <2> HIDE DEF A
  <2>6. QED
    BY <2>4, <2>5
<1> HIDE DEF A
<1>3. \A h : Imported(h, TRUE)' = Imported(h, TRUE)
  BY ProjectStays
<1>4. ViaPublic(f) = UNION {Imported(g, TRUE) : g \in A}
  BY DEF ViaPublic, A
<1>5. ViaPublic(f)' = UNION {Imported(g, TRUE)' : g \in A'}
  BY DEF ViaPublic, A
<1>6. QED
  BY <1>2, <1>3, <1>4, <1>5

\* Within is kept by steps that leave the imports alone,
LEMMA WithinStays ==
  ASSUME Types, Within, files' = files, imports' = imports
  PROVE  Within'
  BY ProjectStays, ViaPublicStays DEF Within

\* by ResolveImports,
LEMMA WithinResolved ==
  ASSUME Types, Within, files' = files, imports' = [imports EXCEPT ![at] = Own(at)]
  PROVE  Within'
<1>1. at \in DOMAIN files /\ files \in Projects
  BY DEF Types
<1>2. imports'[at] = Own(at) /\ \A f \in DOMAIN files : f # at => imports'[f] = imports[f]
  BY <1>1 DEF Types
<1>3. /\ Targets(imports'[at]) \subseteq Imported(at, FALSE) \cup ViaPublic(at)
      /\ PublicTargets(imports'[at]) \subseteq Imported(at, TRUE) \cup ViaPublic(at)
  BY <1>1, <1>2, OwnTargets
<1>4. ASSUME NEW f \in DOMAIN files
      PROVE  /\ Targets(imports'[f]) \subseteq Imported(f, FALSE) \cup ViaPublic(f)
             /\ PublicTargets(imports'[f]) \subseteq Imported(f, TRUE) \cup ViaPublic(f)
  BY <1>2, <1>3 DEF Within
<1>5. QED
  BY <1>4, ProjectStays, ViaPublicStays DEF Within

\* and by AddPublicImports.
LEMMA WithinAdded ==
  ASSUME Types, Within, files' = files, NEW q, imports' = [imports EXCEPT ![at] = q],
         imports[at] = Own(at), IsFollowed(q, at, imports)
  PROVE  Within'
<1>1. at \in DOMAIN files /\ files \in Projects
  BY DEF Types
<1>2. imports'[at] = q /\ \A f \in DOMAIN files : f # at => imports'[f] = imports[f]
  BY <1>1 DEF Types
<1>3. Targets(imports[at]) = Imported(at, FALSE) /\ PublicTargets(imports[at]) = Imported(at, TRUE)
  BY <1>1, OwnTargets
<1>4. ASSUME NEW t \in Imported(at, FALSE) PROVE PublicTargets(imports[t]) \subseteq ViaPublic(at)
  <2>1. t \in DOMAIN files
    BY DEF Imported
  <2>2. PublicTargets(imports[t]) \subseteq Imported(t, TRUE) \cup ViaPublic(t)
    BY <2>1 DEF Within
  <2>3. Imported(t, TRUE) \subseteq ViaPublic(at) /\ ViaPublic(t) \subseteq ViaPublic(at)
    BY ViaPublicGrows
  <2>4. QED
    BY <2>2, <2>3
<1>5. /\ Targets(q) \subseteq Targets(imports[at]) \cup UNION {PublicTargets(imports[t]) : t \in Targets(imports[at])}
      /\ PublicTargets(q)
           \subseteq PublicTargets(imports[at]) \cup UNION {PublicTargets(imports[t]) : t \in Targets(imports[at])}
  BY FollowedTargets
<1>6. /\ Targets(q) \subseteq Imported(at, FALSE) \cup ViaPublic(at)
      /\ PublicTargets(q) \subseteq Imported(at, TRUE) \cup ViaPublic(at)
  BY <1>3, <1>4, <1>5
<1>7. ASSUME NEW f \in DOMAIN files
      PROVE  /\ Targets(imports'[f]) \subseteq Imported(f, FALSE) \cup ViaPublic(f)
             /\ PublicTargets(imports'[f]) \subseteq Imported(f, TRUE) \cup ViaPublic(f)
  BY <1>2, <1>6 DEF Within
<1>8. QED
  BY <1>7, ProjectStays, ViaPublicStays DEF Within

-----------------------------------------------------------------------------
\* When every import leads to an earlier file, the files that the second phase has passed have
\* their imports and whatever these import publicly.
Earlier == \A f \in DOMAIN files : \A g \in Imported(f, FALSE) : g < f
Closed(f, s) ==
  /\ Imported(f, FALSE) \subseteq Targets(s) /\ Imported(f, TRUE) \subseteq PublicTargets(s)
  /\ \A g \in Targets(s) : Imported(g, TRUE) \subseteq Targets(s)
  /\ \A g \in PublicTargets(s) : Imported(g, TRUE) \subseteq PublicTargets(s)
Complete == Earlier => \A f \in DOMAIN files : Past(2, f) => Closed(f, imports[f])

\* The order of the files does not change.
LEMMA EarlierStays ==
  ASSUME files' = files
  PROVE  Earlier' = Earlier /\ \A f, s : Closed(f, s)' = Closed(f, s)
<1>1. \A f, public : Imported(f, public)' = Imported(f, public)
  BY ProjectStays
<1>2. Earlier' = Earlier
  BY <1>1 DEF Earlier
<1>3. ASSUME NEW f, NEW s PROVE Closed(f, s)' = Closed(f, s)
  BY <1>1 DEF Closed
<1>4. QED
  BY <1>2, <1>3

\* AddPublicImports completes the file, whose imports are complete by then.
LEMMA CompleteAdded ==
  ASSUME Types, Complete, phase = 2, Moved, files' = files, NEW q, imports' = [imports EXCEPT ![at] = q],
         imports[at] = Own(at), IsFollowed(q, at, imports)
  PROVE  Complete'
<1>1. at \in DOMAIN files /\ files \in Projects /\ DOMAIN files \subseteq Nat
  BY FilesAre DEF Types
<1>2. imports'[at] = q /\ \A f \in DOMAIN files : f # at => imports'[f] = imports[f]
  BY <1>1 DEF Types
<1>3. \A f \in DOMAIN files : Past(2, f)' <=> Past(2, f) \/ f = at
  <2>1. 2 \in 1..4
    OBVIOUS
  <2>2. QED
    BY <2>1 DEF Moved
<1>4. SUFFICES ASSUME Earlier, NEW f \in DOMAIN files, Past(2, f)' PROVE Closed(f, imports'[f])
  <2>1. Earlier' = Earlier /\ \A g, s : Closed(g, s)' = Closed(g, s)
    BY EarlierStays
  <2>2. QED
    BY <2>1, ZenonT(60) DEF Complete
<1>5. CASE f # at
  BY <1>2, <1>3, <1>4, <1>5 DEF Complete
<1>6. CASE f = at
  <2> DEFINE D == Imported(at, FALSE)
             E == Imported(at, TRUE)
  <2>1. Targets(imports[at]) = D /\ PublicTargets(imports[at]) = E
    BY <1>1, OwnTargets
  <2>2. ASSUME NEW t \in D
        PROVE  t # at /\ Closed(t, imports[t])
    <3>1. t \in DOMAIN files /\ t < at
      BY <1>1, <1>4 DEF Earlier, Imported
    <3>2. Past(2, t)
      BY <3>1 DEF Past
    <3>3. QED
      BY <1>1, <1>4, <3>1, <3>2 DEF Complete
  <2>3. E \subseteq D
    BY DEF Imported
  <2>4. /\ D \subseteq Targets(q) /\ E \subseteq PublicTargets(q) /\ PublicTargets(q) \subseteq Targets(q)
        /\ Targets(q) \subseteq D \cup UNION {PublicTargets(imports[t]) : t \in D}
        /\ PublicTargets(q) \subseteq E \cup UNION {PublicTargets(imports[t]) : t \in D}
        /\ \A t \in D : t # at => PublicTargets(imports[t]) \subseteq PublicTargets(q)
    <3> HIDE DEF D, E
    <3>1. QED
      BY <2>1, FollowedTargets
  <2> HIDE DEF D, E
  <2>5. \A t \in D : PublicTargets(imports[t]) \subseteq PublicTargets(q)
    BY <2>2, <2>4
  <2>6. ASSUME NEW g \in D PROVE Imported(g, TRUE) \subseteq PublicTargets(q)
    BY <2>2, <2>5 DEF Closed
  <2>7. ASSUME NEW t \in D, NEW g \in PublicTargets(imports[t]) PROVE Imported(g, TRUE) \subseteq PublicTargets(q)
    BY <2>2, <2>5 DEF Closed
  <2>8. ASSUME NEW g \in Targets(q) PROVE Imported(g, TRUE) \subseteq PublicTargets(q)
    <3>1. g \in D \/ \E t \in D : g \in PublicTargets(imports[t])
      BY <2>4
    <3>2. QED
      BY <2>6, <2>7, <3>1
  <2>9. Closed(at, q)
    BY <2>4, <2>8 DEF Closed, D, E
  <2>10. QED
    BY <1>2, <1>6, <2>9
<1>7. QED
  BY <1>5, <1>6

\* Complete is kept by the other steps.
LEMMA CompleteStays ==
  ASSUME Types, Complete, files' = files, imports' = imports, phase # 2, Moved
  PROVE  Complete'
<1>1. \A f \in DOMAIN files : Past(2, f)' <=> Past(2, f)
  <2>1. 2 \in 1..4
    OBVIOUS
  <2>2. QED
    BY <2>1 DEF Moved
<1>2. QED
  BY <1>1, EarlierStays DEF Complete

-----------------------------------------------------------------------------
\* The references of the files that the fourth phase has passed.
Lead ==
  \A f \in DOMAIN files : Past(4, f) =>
    \A x \in Bound(f) :
      \/ x.ref = None /\ f \in errors[4]
      \/ Leads(x.ref, {f} \cup Targets(imports[f]), messages)

\* Lead is kept by steps that leave messages and imports alone;
LEMMA LeadStays ==
  ASSUME Types, Lead, files' = files, imports' = imports, messages' = messages, phase # 4, Moved, ErrorsGrow
  PROVE  Lead'
<1>1. \A f \in DOMAIN files : Past(4, f)' <=> Past(4, f)
  <2>1. 4 \in 1..4
    OBVIOUS
  <2>2. QED
    BY <2>1 DEF Moved
<1>2. \A f : Bound(f)' = Bound(f)
  BY DEF Bound
<1>3. errors[4] \subseteq errors'[4]
  BY DEF ErrorsGrow
<1>4. QED
  BY <1>1, <1>2, <1>3 DEF Lead

\* before the fourth phase it says nothing,
LEMMA LeadBefore ==
  ASSUME Types, files' = files, phase \in 1..3, Moved
  PROVE  Lead'
<1>1. \A f \in DOMAIN files : ~Past(4, f)'
  <2>1. 4 \in 1..4 /\ \A f : ~Past(4, f)
    BY DEF Past
  <2>2. QED
    BY <2>1 DEF Moved
<1>2. QED
  BY <1>1 DEF Lead

\* and ResolveReferences establishes it for the file, and keeps the names of its messages.
LEMMA LeadBound ==
  ASSUME Types, Lead, ResolveReferences
  PROVE  Lead'
<1>1. /\ phase = 4 /\ Moved /\ ErrorsGrow
      /\ messages' = [messages EXCEPT ![at] = [k \in DOMAIN messages[at] |-> Bind(at, messages[at][k])]]
  BY ResolveReferencesTypes
<1>2. at \in DOMAIN files /\ messages[at] \in Seq(MessageTypes) /\ files' = files /\ imports' = imports
  BY DEF Types, ResolveReferences
<1>3. /\ \A f \in DOMAIN files : f # at => messages'[f] = messages[f]
      /\ DOMAIN messages'[at] = DOMAIN messages[at]
      /\ \A k \in DOMAIN messages[at] : messages'[at][k] = Bind(at, messages[at][k])
  BY <1>1, <1>2 DEF Types
<1>4. \A k \in DOMAIN messages[at] : messages[at][k] \in MessageTypes
  BY <1>2, Element
<1>5. \A f \in DOMAIN files :
        /\ DOMAIN messages'[f] = DOMAIN messages[f]
        /\ \A k \in DOMAIN messages[f] : /\ messages'[f][k].name = messages[f][k].name
                                         /\ messages'[f][k].extends = messages[f][k].extends
  <2>1. ASSUME NEW k \in DOMAIN messages[at]
        PROVE  /\ messages'[at][k].name = messages[at][k].name
               /\ messages'[at][k].extends = messages[at][k].extends
    <3> DEFINE m == messages[at][k]
    <3>1. m \in MessageTypes /\ messages'[at][k] = Bind(at, m)
      BY <1>3, <1>4
    <3> HIDE DEF m
    <3>2. Bind(at, m).name = m.name /\ Bind(at, m).extends = m.extends
      BY <1>2, <3>1, BindIs
    <3>3. QED
      BY <3>1, <3>2 DEF m
  <2>2. QED
    BY <1>3, <2>1
<1>6. ASSUME NEW r, NEW from \in SUBSET DOMAIN files, Leads(r, from, messages) PROVE Leads(r, from, messages')
  <2>1. r.file \in DOMAIN files
    BY <1>6 DEF Leads
  <2>2. QED
    BY <1>5, <1>6, <2>1 DEF Leads
<1>7. \A f \in DOMAIN files : Past(4, f)' <=> Past(4, f) \/ f = at
  <2>1. 4 \in 1..4
    OBVIOUS
  <2>2. QED
    BY <1>1, <2>1 DEF Moved
<1>8. ASSUME NEW f \in DOMAIN files PROVE {f} \cup Targets(imports[f]) \in SUBSET DOMAIN files
  BY ImportsOfAre
<1>9. ASSUME NEW f \in DOMAIN files, Past(4, f)', NEW x \in Bound(f)'
      PROVE  \/ x.ref = None /\ f \in errors'[4]
             \/ Leads(x.ref, {f} \cup Targets(imports[f]), messages')
  <2>1. PICK k \in DOMAIN messages'[f] : \E j \in DOMAIN messages'[f][k].fields : x = messages'[f][k].fields[j]
    BY <1>9 DEF Bound
  <2>2. CASE f # at
    <3>1. x \in Bound(f)
      BY <1>3, <2>1, <2>2 DEF Bound
    <3>2. (x.ref = None /\ f \in errors[4]) \/ Leads(x.ref, {f} \cup Targets(imports[f]), messages)
      BY <1>7, <1>9, <2>2, <3>1 DEF Lead
    <3>3. errors[4] \subseteq errors'[4]
      BY <1>1 DEF ErrorsGrow
    <3>4. QED
      BY <1>6, <1>8, <3>2, <3>3
  <2>3. CASE f = at
    <3>1. k \in DOMAIN messages[at] /\ messages'[at][k] = Bind(at, messages[at][k])
      BY <1>3, <2>1, <2>3
    <3>2. x.ref = None \/ Leads(x.ref, {at} \cup Targets(imports[at]), messages)
      <4> DEFINE m == messages[at][k]
      <4>1. m \in MessageTypes
        BY <1>4, <3>1
      <4>2. PICK j \in DOMAIN Bind(at, m).fields : x = Bind(at, m).fields[j]
        BY <2>1, <2>3, <3>1
      <4> HIDE DEF m
      <4>3. QED
        BY <1>2, <4>1, <4>2, BindIs
    <3>3. CASE x.ref = None
      <4>1. \E a \in DOMAIN messages'[at] : \E b \in DOMAIN messages'[at][a].fields :
              messages'[at][a].fields[b].ref = None
        BY <2>1, <2>3, <3>3
      <4>2. errors' = Noted
        BY <4>1 DEF ResolveReferences, Failed, Noted
      <4>3. QED
        BY <1>1, <2>3, <3>3, <4>2, NotedIs
    <3>4. CASE x.ref # None
      BY <1>2, <1>6, <1>8, <2>3, <3>2, <3>4
    <3>5. QED
      BY <3>3, <3>4
  <2>4. QED
    BY <2>2, <2>3
<1>10. QED
  BY <1>2, <1>9 DEF Lead

-----------------------------------------------------------------------------
\* The inductive invariant.
ResolveInv == Types /\ Quiet /\ Found /\ OwnImports /\ Within /\ Complete /\ Lead

\* The invariant holds at the start,
LEMMA InitInv ==
  ASSUME Init
  PROVE  ResolveInv
<1>1. Types
  BY InitTypes
<1>2. phase = 1 /\ at = 1 /\ imports = [f \in DOMAIN files |-> Blank(f)]
  BY DEF Init, Blank
<1>3. DOMAIN files \subseteq Nat /\ DOMAIN files = 1..Len(files) /\ files \in Projects
  BY <1>1, FilesAre DEF Types
<1>4. \A f \in DOMAIN files : \A p \in 1..4 : ~Past(p, f)
  BY <1>2, <1>3 DEF Past
<1>5. Quiet /\ Found /\ OwnImports /\ Complete /\ Lead
  <2>1. 1 \in 1..4 /\ 2 \in 1..4 /\ 4 \in 1..4
    OBVIOUS
  <2>2. \A f \in DOMAIN files : ~Past(1, f) /\ ~Past(2, f) /\ ~Past(4, f)
    BY <1>4, <2>1
  <2>3. \A f \in DOMAIN files : imports[f] = Blank(f)
    BY <1>2
  <2>4. QED
    BY <1>2, <2>2, <2>3 DEF Quiet, Found, OwnImports, Complete, Lead
<1>6. Within
  BY <1>2, <1>3, OwnTargets DEF Within
<1>7. QED
  BY <1>1, <1>5, <1>6 DEF ResolveInv

\* The aliases are reached without errors.
LEMMA QuietStays ==
  ASSUME Quiet, phase \in 1..6, Moved, phase \in {5, 6} => errors' = errors
  PROVE  Quiet'
  BY DEF Quiet, Moved

\* Unchanged errors only grow.
LEMMA NoErrorsGrow ==
  ASSUME Types, errors' = errors
  PROVE  ErrorsGrow
  BY DEF Types, ErrorsGrow

\* every step keeps it,
LEMMA NextInv ==
  ASSUME ResolveInv, Next
  PROVE  ResolveInv'
<1>1. Types /\ Quiet /\ Found /\ OwnImports /\ Within /\ Complete /\ Lead
  BY DEF ResolveInv
<1>2. CASE ResolveImports
  <2>1. Types' /\ phase = 1 /\ Moved /\ files' = files
    BY <1>1, <1>2, ResolveImportsTypes DEF ResolveImports
  <2>2. Found' /\ OwnImports' /\ imports' = [imports EXCEPT ![at] = Own(at)]
    BY <1>1, <1>2, ImportsResolved
  <2>3. Quiet'
    BY <1>1, <2>1, QuietStays
  <2>4. Within'
    BY <1>1, <2>1, <2>2, WithinResolved
  <2>5. Complete'
    <3>1. \A f \in DOMAIN files : ~Past(2, f)'
      <4>1. 2 \in 1..4 /\ \A f : ~Past(2, f)
        BY <2>1 DEF Past
      <4>2. QED
        BY <2>1, <4>1 DEF Moved
    <3>2. QED
      BY <2>1, <3>1 DEF Complete
  <2>6. Lead'
    BY <1>1, <2>1, LeadBefore
  <2>7. QED
    BY <2>1, <2>2, <2>3, <2>4, <2>5, <2>6 DEF ResolveInv
<1>3. CASE AddPublicImports
  <2>1. Types' /\ phase = 2 /\ Moved /\ files' = files
    BY <1>1, <1>3, AddPublicImportsTypes DEF AddPublicImports
  <2>2. /\ Found' /\ OwnImports' /\ imports[at] = Own(at)
        /\ imports' = [imports EXCEPT ![at] = Followed(at, imports)]
        /\ IsFollowed(Followed(at, imports), at, imports)
    BY <1>1, <1>3, ImportsAdded
  <2>3. Quiet'
    BY <1>1, <2>1, QuietStays
  <2>4. Within'
    BY <1>1, <2>1, <2>2, WithinAdded
  <2>5. Complete'
    BY <1>1, <2>1, <2>2, CompleteAdded
  <2>6. Lead'
    BY <1>1, <2>1, LeadBefore
  <2>7. QED
    BY <2>1, <2>2, <2>3, <2>4, <2>5, <2>6 DEF ResolveInv
<1>4. CASE ResolveExtensions
  <2>1. Types' /\ phase = 3 /\ Moved /\ ErrorsGrow /\ files' = files /\ imports' = imports
    BY <1>1, <1>4, ResolveExtensionsTypes DEF ResolveExtensions
  <2>2. Found' /\ OwnImports'
    BY <1>1, <2>1, LaterImports
  <2>3. Quiet'
    BY <1>1, <2>1, QuietStays
  <2>4. Within' /\ Complete'
    BY <1>1, <2>1, WithinStays, CompleteStays
  <2>5. Lead'
    BY <1>1, <2>1, LeadBefore
  <2>6. QED
    BY <2>1, <2>2, <2>3, <2>4, <2>5 DEF ResolveInv
<1>5. CASE ResolveReferences
  <2>1. Types' /\ phase = 4 /\ Moved /\ ErrorsGrow /\ files' = files /\ imports' = imports
    BY <1>1, <1>5, ResolveReferencesTypes DEF ResolveReferences
  <2>2. Found' /\ OwnImports'
    BY <1>1, <2>1, LaterImports
  <2>3. Quiet'
    BY <1>1, <2>1, QuietStays
  <2>4. Within' /\ Complete'
    BY <1>1, <2>1, WithinStays, CompleteStays
  <2>5. Lead'
    BY <1>1, <1>5, LeadBound
  <2>6. QED
    BY <2>1, <2>2, <2>3, <2>4, <2>5 DEF ResolveInv
<1>6. CASE ResolveOptions
  <2>1. /\ Types' /\ phase = 5 /\ Moved /\ files' = files /\ imports' = imports
        /\ messages' = messages /\ errors' = errors
    BY <1>1, <1>6, ResolveOptionsTypes DEF ResolveOptions
  <2>2. ErrorsGrow
    BY <1>1, <2>1, NoErrorsGrow
  <2>3. Found' /\ OwnImports'
    BY <1>1, <2>1, <2>2, LaterImports
  <2>4. Quiet'
    BY <1>1, <2>1, QuietStays
  <2>5. Within' /\ Complete' /\ Lead'
    BY <1>1, <2>1, <2>2, WithinStays, CompleteStays, LeadStays
  <2>6. QED
    BY <2>1, <2>3, <2>4, <2>5 DEF ResolveInv
<1>7. CASE MapImports
  <2>1. /\ Types' /\ phase = 6 /\ Moved /\ files' = files /\ imports' = imports
        /\ messages' = messages /\ errors' = errors
    BY <1>1, <1>7, MapImportsTypes DEF MapImports
  <2>2. ErrorsGrow
    BY <1>1, <2>1, NoErrorsGrow
  <2>3. Found' /\ OwnImports'
    BY <1>1, <2>1, <2>2, LaterImports
  <2>4. Quiet'
    BY <1>1, <2>1, QuietStays
  <2>5. Within' /\ Complete' /\ Lead'
    BY <1>1, <2>1, <2>2, WithinStays, CompleteStays, LeadStays
  <2>6. QED
    BY <2>1, <2>3, <2>4, <2>5 DEF ResolveInv
<1>8. QED
  BY <1>2, <1>3, <1>4, <1>5, <1>6, <1>7 DEF Next

\* and so does a step that changes nothing.
LEMMA StutterInv ==
  ASSUME ResolveInv, UNCHANGED vars
  PROVE  ResolveInv'
<1>1. /\ files' = files /\ phase' = phase /\ at' = at /\ imports' = imports
      /\ messages' = messages /\ errors' = errors /\ aliases' = aliases
  BY DEF vars
<1>2. Types' /\ Quiet'
  BY <1>1 DEF ResolveInv, Types, Quiet
<1>3. \A p, f : Past(p, f)' = Past(p, f)
  BY <1>1 DEF Past
<1>4. Found' /\ OwnImports'
  BY <1>1, <1>3, OwnStays DEF ResolveInv, Found, OwnImports
<1>5. Within'
  BY <1>1, WithinStays DEF ResolveInv
<1>6. Complete'
  BY <1>1, <1>3, EarlierStays DEF ResolveInv, Complete
<1>7. Lead'
  <2>1. \A f : Bound(f)' = Bound(f)
    BY <1>1 DEF Bound
  <2>2. QED
    BY <1>1, <1>3, <2>1 DEF ResolveInv, Lead
<1>8. QED
  BY <1>2, <1>4, <1>5, <1>6, <1>7 DEF ResolveInv

\* The invariant always holds.
LEMMA ResolveInvAlways == Spec => []ResolveInv
<1>1. Init => ResolveInv
  BY InitInv
<1>2. ResolveInv /\ [Next]_vars => ResolveInv'
  BY NextInv, StutterInv
<1>3. QED
  BY <1>1, <1>2, PTL DEF Spec

-----------------------------------------------------------------------------
\* The invariant says what the first theorem does.
LEMMA InvReferencesLead ==
  ASSUME ResolveInv
  PROVE  ReferencesLead
<1>1. Types /\ Lead
  BY DEF ResolveInv
<1>2. NoDangling
  <2>1. SUFFICES ASSUME phase = Done, \A p \in DOMAIN errors : errors[p] = {},
                        NEW f \in DOMAIN files, NEW x \in Bound(f)
                 PROVE  \/ x.ref.enum
                        \/ \E k \in DOMAIN messages[x.ref.file] :
                             /\ messages[x.ref.file][k].name = x.ref.name
                             /\ messages[x.ref.file][k].extends = x.ref.extends
    BY DEF NoDangling
  <2>2. Past(4, f)
    BY <2>1 DEF Past, Done
  <2>3. errors[4] = {}
    BY <1>1, <2>1 DEF Types
  <2>4. Leads(x.ref, {f} \cup Targets(imports[f]), messages)
    BY <1>1, <2>1, <2>2, <2>3 DEF Lead
  <2>5. QED
    BY <2>4 DEF Leads
<1>3. AliasesUnique
  <2>1. SUFFICES ASSUME NEW f \in DOMAIN files,
                        \A k \in DOMAIN aliases[f] :
                          Cardinality({i \in DOMAIN aliases[f] :
                                         aliases[f][i].alias[1] = aliases[f][k].alias[1]}) <= 2,
                        NEW j \in DOMAIN aliases[f], NEW k \in DOMAIN aliases[f],
                        aliases[f][j].alias = aliases[f][k].alias, j # k
                 PROVE  FALSE
    BY DEF AliasesUnique
  <2>2. aliases[f] \in Aliases
    BY <1>1 DEF Types
  <2>3. QED
    BY <2>1, <2>2, AliasTwice
<1>4. QED
  BY <1>2, <1>3 DEF ReferencesLead

\* The invariant says what the second theorem does.
LEMMA InvImportsFollowed ==
  ASSUME ResolveInv
  PROVE  ImportsFollowed
<1>1. Types /\ Lead /\ Within /\ Complete
  BY DEF ResolveInv
<1>2. VisibleOnly
  <2>1. SUFFICES ASSUME phase = Done, NEW f \in DOMAIN files, NEW x \in Bound(f), x.ref # None
                 PROVE  x.ref.file \in {f} \cup Imported(f, FALSE) \cup ViaPublic(f)
    BY DEF VisibleOnly, ViaPublic
  <2>2. Past(4, f)
    BY <2>1 DEF Past, Done
  <2>3. Leads(x.ref, {f} \cup Targets(imports[f]), messages)
    BY <1>1, <2>1, <2>2 DEF Lead
  <2>4. x.ref.file \in {f} \cup Targets(imports[f])
    BY <2>3 DEF Leads
  <2>5. Targets(imports[f]) \subseteq Imported(f, FALSE) \cup ViaPublic(f)
    BY <1>1 DEF Within
  <2>6. QED
    BY <2>4, <2>5
<1>3. PublicReach
  <2>1. SUFFICES ASSUME phase = Done, Earlier, NEW f \in DOMAIN files
                 PROVE  Visible(f) \subseteq {imports[f][k].target : k \in DOMAIN imports[f]}
    BY DEF PublicReach, Earlier
  <2>2. Past(2, f)
    BY <2>1 DEF Past, Done
  <2>3. Closed(f, imports[f])
    BY <1>1, <2>1, <2>2 DEF Complete
  <2> DEFINE T == Targets(imports[f])
  <2>4. T \in SUBSET DOMAIN files
    BY <1>1, ImportsOfAre
  <2>5. Imported(f, FALSE) \subseteq T /\ \A g \in T : Imported(g, TRUE) \subseteq T
    BY <2>3 DEF Closed
  <2>6. T \subseteq {imports[f][k].target : k \in DOMAIN imports[f]}
    BY DEF Targets, Range
  <2> HIDE DEF T
  <2>7. Imported(f, FALSE) \subseteq DOMAIN files
    BY DEF Imported
  <2>8. Visible(f) \subseteq T
    <3>1. \A r \in SUBSET DOMAIN files :
            Imported(f, FALSE) \subseteq r /\ (\A h \in r : Imported(h, TRUE) \subseteq r)
              => Reached(Imported(f, FALSE), TRUE) \subseteq r
      BY <2>7, ReachedIs
    <3>2. QED
      BY <2>4, <2>5, <3>1, ZenonT(40) DEF Visible
  <2>9. QED
    BY <2>6, <2>8
<1>4. QED
  BY <1>2, <1>3 DEF ImportsFollowed

\* For every project: when the compiler generates code, each reference leads to an enum or a
\* message that its file still has, and no two Go imports of a file share an alias (as long as
\* at most two of them have the same short name).
THEOREM ReferencesLeadAlways == Spec => []ReferencesLead
<1>1. ResolveInv => ReferencesLead
  BY InvReferencesLead
<1>2. QED
  BY <1>1, ResolveInvAlways, PTL

\* For every project: a reference leads only into the file, its imports and what files that it
\* depends on import publicly; and when every import leads to an earlier file, a file gets all
\* imports that are visible to it, along public imports of any length.
THEOREM ImportsFollowedAlways == Spec => []ImportsFollowed
<1>1. ResolveInv => ImportsFollowed
  BY InvImportsFollowed
<1>2. QED
  BY <1>1, ResolveInvAlways, PTL
=============================================================================
