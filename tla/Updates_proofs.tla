----------------------------- MODULE Updates_proofs -----------------------------
(***************************************************************************)
(* How Latest changes when a queue does.  A queue is a function of 1..n    *)
(* here: the models make it of their channels entry by entry.              *)
(***************************************************************************)
EXTENDS Updates, WellFoundedInduction, TLAPS

\* Every set of natural numbers that is not empty has a least one.
LEMMA Least ==
  ASSUME NEW S, S \subseteq Nat, S # {}
  PROVE  \E n \in S: \A k \in S: n <= k
<1> DEFINE R == {ss \in Nat \X Nat: ss[1] < ss[2]}
<1>1. IsWellFoundedOn(R, Nat)
  BY NatLessThanWellFounded DEF OpToRel
<1>2. PICK n \in S: \A k \in S: <<k, n>> \notin R
  <2> HIDE DEF R
  <2> QED BY <1>1, WFMin
<1>3. ASSUME NEW k \in S PROVE n <= k
  <2>1. ~(k < n)
    BY <1>2
  <2> QED BY <2>1
<1> QED BY <1>3

\* Induction up to m, for a claim that is given by the set of the numbers it holds for.
LEMMA Climbing ==
  ASSUME NEW m \in Nat, NEW T, 0 \in T, \A n \in 0..m - 1: n \in T => n + 1 \in T
  PROVE  \A n \in 0..m: n \in T
<1> DEFINE F == {n \in 0..m: n \notin T}
<1>1. CASE F # {}
  <2>1. PICK n \in F: \A k \in F: n <= k
    <3>1. F \subseteq Nat
      OBVIOUS
    <3> HIDE DEF F
    <3> QED BY <1>1, <3>1, Least
  <2>2. n \in 1..m /\ n - 1 \in 0..m - 1 /\ n - 1 + 1 = n
    BY <2>1
  <2>3. n - 1 \notin F
    <3> HIDE DEF F
    <3> QED BY <2>1, <2>2
  <2> QED BY <2>1, <2>2, <2>3
<1> QED BY <1>1

\* A function on 1..m that is defined by recursion: G[n][y] is what follows y at n.
Follows(f, x, G, m) == f[1] = x /\ \A n \in 1..m - 1: f[n + 1] = G[n][f[n]]

LEMMA Recursion ==
  ASSUME NEW m \in Nat \ {0}, NEW X, NEW x \in X, NEW G \in [1..m -> [X -> X]]
  PROVE  \E f \in [1..m -> X]: Follows(f, x, G, m)
<1> DEFINE T == {k \in 0..m: k = 0 \/ \E f \in [1..k -> X]: Follows(f, x, G, k)}
<1>1. ASSUME NEW k \in 0..m - 1, k \in T PROVE k + 1 \in T
  <2>1. CASE k = 0
    <3> DEFINE f == [n \in 1..1 |-> x]
    <3>1. f \in [1..1 -> X] /\ Follows(f, x, G, 1)
      BY DEF Follows
    <3> HIDE DEF f
    <3> QED BY <2>1, <3>1
  <2>2. CASE k # 0
    <3>1. PICK f \in [1..k -> X]: Follows(f, x, G, k)
      BY <1>1, <2>2
    <3> DEFINE g == [n \in 1..k + 1 |-> IF n = k + 1 THEN G[k][f[k]] ELSE f[n]]
    <3>2. k \in 1..m /\ f[k] \in X /\ G[k][f[k]] \in X
      BY <2>2, <3>1
    <3>3. g \in [1..k + 1 -> X] /\ g[1] = f[1]
      BY <2>2, <3>1, <3>2
    <3>4. ASSUME NEW n \in 1..k PROVE g[n + 1] = G[n][g[n]]
      <4>1. CASE n = k
        BY <3>2, <4>1
      <4>2. CASE n # k
        <5>1. n \in 1..k - 1 /\ g[n + 1] = f[n + 1] /\ g[n] = f[n]
          BY <3>2, <4>2
        <5>2. f[n + 1] = G[n][f[n]]
          BY <3>1, <5>1 DEF Follows
        <5> QED BY <5>1, <5>2
      <4> QED BY <4>1, <4>2
    <3>5. Follows(g, x, G, k + 1)
      <4>1. f[1] = x /\ k + 1 - 1 = k
        BY <3>1, <3>2 DEF Follows
      <4> HIDE DEF g
      <4> QED BY <3>3, <3>4, <4>1 DEF Follows
    <3> HIDE DEF g
    <3> QED BY <3>3, <3>5
  <2> QED BY <2>1, <2>2
<1>2. \A n \in 0..m: n \in T
  <2>1. 0 \in T /\ \A n \in 0..m - 1: n \in T => n + 1 \in T
    BY <1>1
  <2> HIDE DEF T
  <2> QED BY <2>1, Climbing
<1>3. m \in T /\ m # 0
  BY <1>2
<1> QED BY <1>3

\* There is no other such function.
FollowsIn(g, X, x, G, m) ==
  g[1] = x /\ \A n \in 1..m - 1: g[n] \in X => g[n + 1] = G[n][g[n]]

LEMMA OneSolution ==
  ASSUME NEW m \in Nat \ {0}, NEW X, NEW x, NEW G, NEW f \in [1..m -> X], NEW g,
         Follows(f, x, G, m), FollowsIn(g, X, x, G, m)
  PROVE  g[m] = f[m]
<1> DEFINE T == {n \in 0..m: n = 0 \/ g[n] = f[n]}
<1>1. ASSUME NEW n \in 0..m - 1, n \in T PROVE n + 1 \in T
  <2>1. CASE n = 0
    BY <2>1 DEF Follows, FollowsIn
  <2>2. CASE n # 0
    <3>1. n \in 1..m - 1 /\ n \in 1..m /\ g[n] = f[n]
      BY <1>1, <2>2
    <3>2. g[n + 1] = f[n + 1]
      BY <3>1 DEF Follows, FollowsIn
    <3> QED BY <3>2
  <2> QED BY <2>1, <2>2
<1>2. \A n \in 0..m: n \in T
  <2>1. 0 \in T /\ \A n \in 0..m - 1: n \in T => n + 1 \in T
    BY <1>1
  <2> HIDE DEF T
  <2> QED BY <2>1, Climbing
<1>3. m \in T
  <2> HIDE DEF T
  <2> QED BY <1>2
<1> QED BY <1>3

\* A set of numbers up to m that is not empty has a greatest one.
LEMMA Greatest ==
  ASSUME NEW m \in Nat, NEW S, S \subseteq 0..m, S # {}
  PROVE  \E n \in S: \A k \in S: k <= n
<1> DEFINE T == {m - n: n \in S}
<1>1. T \subseteq Nat /\ T # {}
  <2>1. T \subseteq Nat
    OBVIOUS
  <2>2. T # {}
    OBVIOUS
  <2> QED BY <2>1, <2>2
<1>2. PICK x \in T: \A y \in T: x <= y
  <2> HIDE DEF T
  <2> QED BY <1>1, Least
<1>3. PICK n \in S: x = m - n
  OBVIOUS
<1>4. ASSUME NEW k \in S PROVE k <= n
  <2>1. m - k \in T
    OBVIOUS
  <2>2. x <= m - k
    BY <1>2, <2>1
  <2> QED BY <1>3, <2>2
<1> QED BY <1>4

\* The latest of the news in a queue is the entry that has none behind it.
LEMMA LatestIs ==
  ASSUME NEW v, NEW m \in Nat, NEW p, DOMAIN p = 1..m,
         NEW n \in News(p), \A k \in News(p): k <= n
  PROVE  Latest(v, p) = p[n]
<1>1. (CHOOSE j \in News(p): \A k \in News(p): k <= j) = n
  BY DEF News
<1> QED BY <1>1 DEF Latest

\* In a queue with no news the old value stands.
LEMMA LatestNone ==
  ASSUME NEW v, NEW p, News(p) = {}
  PROVE  Latest(v, p) = v
BY DEF Latest

\* A queue with news has a last one.
LEMMA LatestSome ==
  ASSUME NEW m \in Nat, NEW p, DOMAIN p = 1..m, News(p) # {}
  PROVE  \E n \in News(p): \A k \in News(p): k <= n
<1>1. News(p) \subseteq 0..m
  BY DEF News
<1> QED BY <1>1, Greatest

\* Something is put at the end of a queue.
LEMMA LatestSame ==
  ASSUME NEW v, NEW m \in Nat, NEW p, NEW q, DOMAIN p = 1..m, DOMAIN q = 1..m + 1,
         \A n \in 1..m: q[n] = p[n], q[m + 1] = NoValue
  PROVE  Latest(v, q) = Latest(v, p)
<1>1. News(q) = News(p) /\ \A n \in News(p): q[n] = p[n]
  BY DEF News
<1>2. CASE News(p) = {}
  BY <1>1, <1>2, LatestNone
<1>3. CASE News(p) # {}
  <2>1. PICK n \in News(p): \A k \in News(p): k <= n
    BY <1>3, LatestSome
  <2>2. Latest(v, p) = p[n]
    BY <2>1, LatestIs
  <2>3. Latest(v, q) = q[n]
    BY <1>1, <2>1, LatestIs
  <2> QED BY <1>1, <2>1, <2>2, <2>3
<1> QED BY <1>2, <1>3

LEMMA LatestNew ==
  ASSUME NEW v, NEW m \in Nat, NEW q, DOMAIN q = 1..m + 1, q[m + 1] # NoValue
  PROVE  Latest(v, q) = q[m + 1]
<1>1. m + 1 \in News(q) /\ \A k \in News(q): k <= m + 1
  BY DEF News
<1> QED BY <1>1, LatestIs

LEMMA LatestAppended ==
  ASSUME NEW v, NEW m \in Nat, NEW p, NEW q, DOMAIN p = 1..m, DOMAIN q = 1..m + 1,
         \A n \in 1..m: q[n] = p[n]
  PROVE  Latest(v, q) = IF q[m + 1] = NoValue THEN Latest(v, p) ELSE q[m + 1]
BY LatestSame, LatestNew

\* The first entry of a queue is taken out, and the receiver heeds it.
LEMMA LatestTaken ==
  ASSUME NEW v, NEW m \in Nat, NEW p, NEW q, DOMAIN p = 1..m, DOMAIN q = 1..m + 1,
         \A n \in 1..m: p[n] = q[n + 1]
  PROVE  Latest(v, q) = Latest(IF q[1] = NoValue THEN v ELSE q[1], p)
<1> DEFINE w == IF q[1] = NoValue THEN v ELSE q[1]
<1>1. CASE News(p) = {}
  <2>1. ASSUME NEW k \in News(q) PROVE k = 1
    <3>1. k \in 1..m + 1 /\ q[k] # NoValue
      BY DEF News
    <3>2. CASE k # 1
      <4>1. k - 1 \in 1..m /\ p[k - 1] = q[k]
        BY <3>1, <3>2
      <4> QED BY <1>1, <3>1, <4>1 DEF News
    <3> QED BY <3>2
  <2>2. Latest(w, p) = w
    BY <1>1, LatestNone
  <2>3. CASE q[1] = NoValue
    <3>1. News(q) = {}
      BY <2>1, <2>3 DEF News
    <3> QED BY <2>2, <2>3, <3>1, LatestNone
  <2>4. CASE q[1] # NoValue
    <3>1. 1 \in News(q)
      BY <2>4 DEF News
    <3>2. Latest(v, q) = q[1]
      BY <2>1, <3>1, LatestIs
    <3> QED BY <2>2, <2>4, <3>2
  <2> QED BY <2>3, <2>4
<1>2. CASE News(p) # {}
  <2>1. PICK n \in News(p): \A k \in News(p): k <= n
    BY <1>2, LatestSome
  <2>2. n \in 1..m /\ n + 1 \in News(q)
    BY <2>1 DEF News
  <2>3. ASSUME NEW k \in News(q) PROVE k <= n + 1
    <3>1. CASE k = 1
      BY <2>2, <3>1
    <3>2. CASE k # 1
      <4>1. k \in 2..m + 1 /\ k - 1 \in News(p)
        BY <3>2 DEF News
      <4> QED BY <2>1, <2>2, <4>1
    <3> QED BY <3>1, <3>2
  <2>4. Latest(v, q) = q[n + 1]
    BY <2>2, <2>3, LatestIs
  <2>5. Latest(w, p) = p[n]
    BY <2>1, LatestIs
  <2> QED BY <2>2, <2>4, <2>5
<1> QED BY <1>1, <1>2

\* What is known later is a value that was known or one of the news.
LEMMA LatestType ==
  ASSUME NEW V, NEW v \in V, NEW m \in Nat, NEW p \in [1..m -> V]
  PROVE  Latest(v, p) \in V
<1>1. CASE News(p) = {}
  BY <1>1, LatestNone
<1>2. CASE News(p) # {}
  <2>1. PICK n \in News(p): \A k \in News(p): k <= n
    BY <1>2, LatestSome
  <2>2. n \in 1..m
    BY <2>1 DEF News
  <2>3. Latest(v, p) = p[n]
    BY <2>1, LatestIs
  <2> QED BY <2>2, <2>3
<1> QED BY <1>1, <1>2

\* A value is not the absence of one.
LEMMA ValuesAreSome == NoValue \notin IOValueSet
BY DEF NoValue, IOValueSet

-----------------------------------------------------------------------------
(***************************************************************************)
(* Queues.                                                                 *)
(***************************************************************************)
LEMMA Parts ==
  ASSUME NEW S, NEW q \in Seq(S)
  PROVE  Len(q) \in Nat /\ DOMAIN q = 1..Len(q) /\ \A n \in 1..Len(q): q[n] \in S
OBVIOUS

LEMMA Appended ==
  ASSUME NEW S, NEW q \in Seq(S), NEW e \in S
  PROVE  /\ Append(q, e) \in Seq(S) /\ Len(q) \in Nat /\ Len(Append(q, e)) = Len(q) + 1
         /\ DOMAIN q = 1..Len(q) /\ DOMAIN Append(q, e) = 1..Len(q) + 1
         /\ Append(q, e)[Len(q) + 1] = e
         /\ \A n \in 1..Len(q): Append(q, e)[n] = q[n]
OBVIOUS

LEMMA Removed ==
  ASSUME NEW S, NEW q \in Seq(S), q # <<>>
  PROVE  /\ Tail(q) \in Seq(S) /\ Len(q) \in Nat \ {0} /\ Len(Tail(q)) = Len(q) - 1
         /\ DOMAIN q = 1..Len(q) /\ DOMAIN Tail(q) = 1..Len(q) - 1
         /\ Head(q) = q[1] /\ q[1] \in S
         /\ \A n \in 1..Len(q) - 1: Tail(q)[n] = q[n + 1]
OBVIOUS

(***************************************************************************)
(* What a queue tells, when F says what each of its entries does.          *)
(***************************************************************************)
Told(F, q) == [n \in DOMAIN q |-> F[q[n]]]

LEMMA ToldNothing ==
  ASSUME NEW v, NEW F, NEW q, \A n \in DOMAIN q: F[q[n]] = NoValue
  PROVE  Latest(v, Told(F, q)) = v
<1>1. News(Told(F, q)) = {}
  BY DEF News, Told
<1> QED BY <1>1, LatestNone

LEMMA ToldAppended ==
  ASSUME NEW v, NEW F, NEW S, NEW q \in Seq(S), NEW e \in S
  PROVE  Latest(v, Told(F, Append(q, e))) = IF F[e] = NoValue THEN Latest(v, Told(F, q)) ELSE F[e]
<1> DEFINE m == Len(q)
           r == Append(q, e)
           P == Told(F, q)
           R == Told(F, r)
<1>1. /\ m \in Nat /\ DOMAIN q = 1..m /\ DOMAIN r = 1..m + 1
      /\ r[m + 1] = e /\ \A n \in 1..m: r[n] = q[n]
  BY Appended
<1> HIDE DEF m, r
<1>2. /\ DOMAIN P = 1..m /\ DOMAIN R = 1..m + 1
      /\ R[m + 1] = F[e] /\ \A n \in 1..m: R[n] = P[n]
  BY <1>1 DEF Told
<1> HIDE DEF P, R
<1>3. m \in Nat /\ DOMAIN P = 1..m /\ DOMAIN R = 1..m + 1
  BY <1>1, <1>2
<1>4. \A n \in 1..m: R[n] = P[n]
  BY <1>2
<1>5. CASE R[m + 1] = NoValue
  <2>1. Latest(v, R) = Latest(v, P)
    BY <1>3, <1>4, <1>5, LatestSame
  <2> QED BY <1>2, <1>5, <2>1 DEF P, R, r
<1>6. CASE R[m + 1] # NoValue
  <2>1. Latest(v, R) = R[m + 1]
    BY <1>3, <1>6, LatestNew
  <2> QED BY <1>2, <1>6, <2>1 DEF P, R, r
<1> QED BY <1>5, <1>6

LEMMA ToldRemoved ==
  ASSUME NEW v, NEW F, NEW S, NEW q \in Seq(S), q # <<>>
  PROVE  Latest(v, Told(F, q)) =
           Latest(IF F[Head(q)] = NoValue THEN v ELSE F[Head(q)], Told(F, Tail(q)))
<1> DEFINE m == Len(q) - 1
           t == Tail(q)
           P == Told(F, t)
           R == Told(F, q)
<1>1. /\ m \in Nat /\ DOMAIN q = 1..m + 1 /\ DOMAIN t = 1..m
      /\ q[1] = Head(q) /\ \A n \in 1..m: t[n] = q[n + 1]
  BY Removed
<1> HIDE DEF m, t
<1>2. /\ DOMAIN P = 1..m /\ DOMAIN R = 1..m + 1
      /\ R[1] = F[Head(q)] /\ \A n \in 1..m: P[n] = R[n + 1]
  BY <1>1 DEF Told
<1> HIDE DEF P, R
<1>3. Latest(v, R) = Latest(IF R[1] = NoValue THEN v ELSE R[1], P)
  BY <1>1, <1>2, LatestTaken
<1> QED BY <1>2, <1>3 DEF P, R, t

\* An entry put at the end of one queue, or still at the head of the next one.
LEMMA ToldMoved ==
  ASSUME NEW v, NEW F, NEW S, NEW q \in Seq(S), NEW r \in Seq(S), r # <<>>
  PROVE  Latest(Latest(v, Told(F, Append(q, Head(r)))), Told(F, Tail(r)))
           = Latest(Latest(v, Told(F, q)), Told(F, r))
<1>1. Head(r) \in S
  BY Removed
<1>2. Latest(v, Told(F, Append(q, Head(r)))) =
        IF F[Head(r)] = NoValue THEN Latest(v, Told(F, q)) ELSE F[Head(r)]
  BY <1>1, ToldAppended
<1> DEFINE w == Latest(v, Told(F, q))
           x == Latest(v, Told(F, Append(q, Head(r))))
<1>3. x = IF F[Head(r)] = NoValue THEN w ELSE F[Head(r)]
  BY <1>2
<1> HIDE DEF w, x
<1>4. Latest(w, Told(F, r)) =
        Latest(IF F[Head(r)] = NoValue THEN w ELSE F[Head(r)], Told(F, Tail(r)))
  BY ToldRemoved
<1> QED BY <1>3, <1>4 DEF w, x
=============================================================================
