-------------------------- MODULE RulesEngine_proofs --------------------------
(***************************************************************************)
(* The rules engine does for an event what its rules ask for, answers with *)
(* what was written before, and follows the outputs, for any rules,        *)
(* inputs, outputs, clients and capacities.                                *)
(***************************************************************************)
EXTENDS RulesEngine, Updates_proofs, SequenceTheorems, FiniteSetTheorems

-----------------------------------------------------------------------------
(***************************************************************************)
(* FlattenSeq, whose definition is recursive.                              *)
(***************************************************************************)
\* Concatenation, for steps that do not depend on what it is.
Cat(s, t) == s \o t

LEMMA CatFacts ==
  ASSUME NEW S
  PROVE  /\ \A s \in Seq(S), t \in Seq(S): Cat(s, t) \in Seq(S)
         /\ \A r \in Seq(S), s \in Seq(S), t \in Seq(S): Cat(Cat(r, s), t) = Cat(r, Cat(s, t))
         /\ \A s \in Seq(S): Cat(s, <<>>) = s
<1>1. ASSUME NEW s \in Seq(S), NEW t \in Seq(S) PROVE s \o t \in Seq(S)
  OBVIOUS
<1>2. ASSUME NEW r \in Seq(S), NEW s \in Seq(S), NEW t \in Seq(S)
      PROVE  (r \o s) \o t = r \o (s \o t)
  BY ConcatAssociative
<1>3. ASSUME NEW s \in Seq(S) PROVE s \o <<>> = s
  OBVIOUS
<1> QED BY <1>1, <1>2, <1>3 DEF Cat

\* What comes of each prefix of q.
Join(X, q) == [n \in 1..Len(q) |-> [y \in X |-> IF n < Len(q) THEN Cat(y, q[n + 1]) ELSE y]]

LEMMA JoinIs ==
  ASSUME NEW S, NEW q \in Seq(Seq(S))
  PROVE  /\ Join(Seq(S), q) \in [1..Len(q) -> [Seq(S) -> Seq(S)]]
         /\ \A n \in 1..Len(q) - 1, y \in Seq(S): Join(Seq(S), q)[n][y] = Cat(y, q[n + 1])
<1> DEFINE X == Seq(S)
           m == Len(q)
<1>1. m \in Nat /\ \A n \in 1..m: q[n] \in X
  BY Parts
<1>2. \A s \in X, t \in X: Cat(s, t) \in X
  BY CatFacts
<1> HIDE DEF X, m
<1>3. ASSUME NEW n \in 1..m, NEW y \in X PROVE (IF n < m THEN Cat(y, q[n + 1]) ELSE y) \in X
  <2>1. n < m => n + 1 \in 1..m
    BY <1>1
  <2> QED BY <1>1, <1>2, <2>1
<1>4. Join(X, q) \in [1..m -> [X -> X]]
  BY <1>3 DEF Join, m
<1>5. \A n \in 1..m - 1, y \in X: Join(X, q)[n][y] = Cat(y, q[n + 1])
  BY <1>1 DEF Join, m
<1> QED BY <1>4, <1>5 DEF X, m

LEMMA FlattenIs ==
  ASSUME NEW S, NEW q \in Seq(Seq(S)), q # <<>>
  PROVE  \E f \in [1..Len(q) -> Seq(S)]:
           Follows(f, q[1], Join(Seq(S), q), Len(q)) /\ FlattenSeq(q) = f[Len(q)]
<1> DEFINE m == Len(q)
           X == Seq(S)
           G == Join(X, q)
           D(f) == [n \in 1..m |-> IF n = 1 THEN q[n] ELSE Cat(f[n - 1], q[n])]
           g == CHOOSE f: f = D(f)
<1>1. m \in Nat \ {0} /\ q[1] \in X
  OBVIOUS
<1>2. FlattenSeq(q) = g[m]
  BY <1>1 DEF FlattenSeq, Cat
<1>3. G \in [1..m -> [X -> X]] /\ \A n \in 1..m - 1, y \in X: G[n][y] = Cat(y, q[n + 1])
  BY JoinIs
<1> HIDE DEF m, X, G, g
<1>4. PICK f \in [1..m -> X]: Follows(f, q[1], G, m)
  BY <1>1, <1>3, Recursion
<1>5. f = D(f)
  <2>1. ASSUME NEW n \in 1..m PROVE f[n] = IF n = 1 THEN q[n] ELSE Cat(f[n - 1], q[n])
    <3>1. CASE n = 1
      BY <1>4, <3>1 DEF Follows
    <3>2. CASE n # 1
      <4>1. n - 1 \in 1..m - 1 /\ n - 1 + 1 = n /\ f[n - 1] \in X
        BY <1>1, <1>4, <3>2
      <4>2. f[n - 1 + 1] = G[n - 1][f[n - 1]]
        BY <1>4, <4>1 DEF Follows
      <4> QED BY <1>3, <3>2, <4>1, <4>2
    <3> QED BY <3>1, <3>2
  <2> QED BY <1>4, <2>1
<1>6. g = D(g)
  BY <1>5 DEF g
<1>7. g[1] = q[1]
  BY <1>1, <1>6
<1>8. ASSUME NEW n \in 1..m - 1, g[n] \in X PROVE g[n + 1] = G[n][g[n]]
  <2>1. n + 1 \in 1..m /\ n + 1 # 1 /\ n + 1 - 1 = n
    BY <1>1
  <2>2. \A j \in 1..m: j # 1 => g[j] = Cat(g[j - 1], q[j])
    BY <1>6
  <2>3. g[n + 1] = Cat(g[n], q[n + 1])
    BY <2>1, <2>2
  <2> QED BY <1>3, <1>8, <2>1, <2>3
<1>9. g[m] = f[m]
  <2>1. FollowsIn(g, X, q[1], G, m)
    BY <1>7, <1>8 DEF FollowsIn
  <2> QED BY <1>1, <1>4, <2>1, OneSolution
<1> QED BY <1>2, <1>4, <1>9 DEF m, X, G

\* Nothing is made of nothing.
LEMMA FlattenEmpty == FlattenSeq(<<>>) = <<>>
BY DEF FlattenSeq

LEMMA FlattenType ==
  ASSUME NEW S, NEW q \in Seq(Seq(S))
  PROVE  FlattenSeq(q) \in Seq(S)
<1>1. CASE q = <<>>
  <2>1. <<>> \in Seq(S)
    OBVIOUS
  <2> QED BY <1>1, <2>1, FlattenEmpty
<1>2. CASE q # <<>>
  <2>1. Len(q) \in 1..Len(q)
    BY <1>2
  <2> DEFINE X == Seq(S)
  <2>2. \E f \in [1..Len(q) -> X]: FlattenSeq(q) = f[Len(q)]
    BY <1>2, FlattenIs
  <2> HIDE DEF X
  <2>3. FlattenSeq(q) \in X
    BY <2>1, <2>2
  <2> QED BY <2>3 DEF X
<1> QED BY <1>1, <1>2

\* The first sequence comes first.
LEMMA FlattenHead ==
  ASSUME NEW S, NEW q \in Seq(Seq(S)), q # <<>>
  PROVE  FlattenSeq(q) = Head(q) \o FlattenSeq(Tail(q))
<1> DEFINE m == Len(q)
           t == Tail(q)
           X == Seq(S)
<1>1. m \in Nat \ {0} /\ t \in Seq(X) /\ Len(t) = m - 1 /\ Head(q) = q[1] /\ q[1] \in X
  OBVIOUS
<1>2. \A n \in 1..m - 1: t[n] = q[n + 1] /\ q[n + 1] \in X
  OBVIOUS
<1>3. PICK f \in [1..m -> X]: Follows(f, q[1], Join(X, q), m) /\ FlattenSeq(q) = f[m]
  BY FlattenIs
<1>4. \A n \in 1..m - 1, y \in X: Join(X, q)[n][y] = Cat(y, q[n + 1])
  BY JoinIs
<1>5. CASE m = 1
  <2>1. t = <<>>
    <3> HIDE DEF t
    <3> QED BY <1>1, <1>5
  <2>2. f[1] = q[1]
    BY <1>3 DEF Follows
  <2>3. Cat(q[1], <<>>) = q[1]
    BY <1>1, CatFacts
  <2> HIDE DEF t
  <2> QED BY <1>1, <1>3, <1>5, <2>1, <2>2, <2>3, FlattenEmpty DEF t, Cat
<1>6. CASE m # 1
  <2>1. t # <<>>
    <3> HIDE DEF t
    <3> QED BY <1>1, <1>6
  <2>2. PICK g \in [1..m - 1 -> X]: Follows(g, t[1], Join(X, t), m - 1) /\ FlattenSeq(t) = g[m - 1]
    <3> HIDE DEF t, m
    <3> QED BY <1>1, <2>1, FlattenIs DEF X
  <2>3. \A n \in 1..m - 1 - 1, y \in X: Join(X, t)[n][y] = Cat(y, t[n + 1])
    <3>1. \A n \in 1..Len(t) - 1, y \in X: Join(X, t)[n][y] = Cat(y, t[n + 1])
      <4> HIDE DEF t, m
      <4> QED BY <1>1, JoinIs
    <3> HIDE DEF t, m, X
    <3> QED BY <1>1, <3>1
  <2>4. /\ \A r \in X, s \in X: Cat(r, s) \in X
        /\ \A r \in X, s \in X, u \in X: Cat(Cat(r, s), u) = Cat(r, Cat(s, u))
    BY CatFacts
  <2> HIDE DEF t, m, X
  <2> DEFINE k == m - 1
             h == [n \in 1..k |-> Cat(q[1], g[n])]
             d == [n \in 1..k |-> f[n + 1]]
             G == [n \in 1..k |-> [y \in X |-> Cat(y, q[n + 2])]]
  <2>5. k \in Nat \ {0} /\ m = k + 1 /\ \A n \in 1..k: n + 1 \in 1..m
    BY <1>1, <1>6
  <2> HIDE DEF k
  <2>6. \A n \in 1..k: f[n + 1] \in X /\ g[n] \in X
    BY <1>3, <2>2, <2>5 DEF k
  <2>7. h \in [1..k -> X] /\ d \in [1..k -> X]
    BY <1>1, <2>4, <2>6
  <2>8. f[1] = q[1] /\ g[1] = t[1] /\ t[1] = q[2]
    BY <1>2, <1>3, <2>2, <2>5 DEF Follows, k
  <2>9. ASSUME NEW n \in 1..m - 1 PROVE f[n + 1] = Cat(f[n], q[n + 1])
    <3>1. f[n] \in X
      BY <1>1, <1>3
    <3> QED BY <1>3, <1>4, <3>1 DEF Follows
  <2>10. ASSUME NEW n \in 1..k - 1 PROVE g[n + 1] = Cat(g[n], q[n + 2])
    <3>1. n + 1 \in 1..m - 1 /\ n \in 1..k /\ n + 1 + 1 = n + 2
      BY <2>5
    <3>2. g[n + 1] = Cat(g[n], t[n + 1])
      BY <2>2, <2>3, <2>6, <3>1 DEF Follows, k
    <3>3. t[n + 1] = q[n + 1 + 1]
      BY <1>2, <3>1
    <3> QED BY <3>1, <3>2, <3>3
  <2>11. d[1] = Cat(q[1], q[2]) /\ h[1] = Cat(q[1], q[2])
    <3>1. 1 \in 1..m - 1 /\ 1 \in 1..k /\ 1 + 1 = 2
      BY <2>5
    <3>2. f[1 + 1] = Cat(f[1], q[1 + 1])
      BY <2>9, <3>1
    <3> QED BY <2>8, <3>1, <3>2
  <2>12. ASSUME NEW n \in 1..k - 1 PROVE d[n + 1] = Cat(d[n], q[n + 2])
    <3>1. n + 1 \in 1..m - 1 /\ n \in 1..k /\ n + 1 \in 1..k /\ n + 1 + 1 = n + 2
      BY <2>5
    <3>2. f[n + 1 + 1] = Cat(f[n + 1], q[n + 1 + 1])
      BY <2>9, <3>1
    <3> QED BY <3>1, <3>2
  <2>13. ASSUME NEW n \in 1..k - 1 PROVE h[n + 1] = Cat(h[n], q[n + 2])
    <3>1. n + 1 \in 1..m - 1 /\ n \in 1..k /\ n + 1 \in 1..k /\ n + 1 + 1 = n + 2
      BY <2>5
    <3>2. q[n + 2] \in X
      BY <1>2, <3>1
    <3>3. Cat(Cat(q[1], g[n]), q[n + 2]) = Cat(q[1], Cat(g[n], q[n + 2]))
      <4>1. q[1] \in X /\ g[n] \in X
        BY <1>1, <2>6, <3>1
      <4> QED BY <2>4, <3>2, <4>1
    <3> QED BY <2>10, <3>1, <3>3
  <2> HIDE DEF h, d
  <2>14. Follows(h, Cat(q[1], q[2]), G, k)
    <3>1. ASSUME NEW n \in 1..k - 1 PROVE h[n + 1] = G[n][h[n]]
      <4>1. n \in 1..k /\ h[n] \in X
        BY <2>5, <2>7
      <4> QED BY <2>13, <4>1
    <3> QED BY <2>11, <3>1 DEF Follows
  <2>15. ASSUME NEW n \in 1..k - 1, d[n] \in X PROVE d[n + 1] = G[n][d[n]]
    <3>1. n \in 1..k
      BY <2>5
    <3> QED BY <2>12, <2>15, <3>1
  <2> HIDE DEF G
  <2>16. d[k] = h[k]
    <3> DEFINE x == Cat(q[1], q[2])
    <3>1. FollowsIn(d, X, x, G, k)
      BY <2>11, <2>15 DEF FollowsIn
    <3>2. k \in Nat \ {0}
      BY <2>5
    <3>3. h \in [1..k -> X]
      BY <2>7
    <3>4. Follows(h, x, G, k)
      BY <2>14
    <3> HIDE DEF x
    <3> QED BY <3>1, <3>2, <3>3, <3>4, OneSolution
  <2>17. f[m] = Cat(q[1], g[k])
    <3>1. k \in 1..k
      BY <2>5
    <3> QED BY <2>5, <2>16, <3>1 DEF d, h
  <2> QED BY <1>1, <1>3, <2>2, <2>17 DEF t, k, Cat
<1> QED BY <1>5, <1>6

-----------------------------------------------------------------------------
(***************************************************************************)
(* The rules of an input, and what they ask for.                           *)
(***************************************************************************)
LEMMA RuleFacts ==
  ASSUME NEW n \in DOMAIN Rules
  PROVE  /\ Rules[n] \in Rule /\ Rules[n].conditions \in Seq(Condition)
         /\ Rules[n].actions \in Seq(Action)
<1>1. Rules[n] \in Rule
  BY RulesAssumption
<1> QED BY <1>1 DEF Rule

LEMMA RulesOfType ==
  ASSUME NEW i
  PROVE  RulesOf(i) \in Seq(Rule)
<1> DEFINE Naming(r) ==
             {c \in DOMAIN Rules[r].conditions:
                /\ Rules[r].conditions[c].kind = "Standard"
                /\ Rules[r].conditions[c].input = i}
           Times(r) == [n \in 1..Cardinality(Naming(r)) |-> Rules[r]]
           q == [r \in DOMAIN Rules |-> Times(r)]
<1>1. ASSUME NEW r \in DOMAIN Rules PROVE Times(r) \in Seq(Rule)
  <2>1. DOMAIN Rules[r].conditions = 1..Len(Rules[r].conditions) /\ Len(Rules[r].conditions) \in Nat
    BY RuleFacts, Parts
  <2>2. IsFiniteSet(1..Len(Rules[r].conditions))
    BY <2>1, FS_Interval
  <2>3. Naming(r) \subseteq 1..Len(Rules[r].conditions)
    BY <2>1
  <2>4. Cardinality(Naming(r)) \in Nat
    <3> HIDE DEF Naming
    <3> QED BY <2>2, <2>3, FS_Subset, FS_CardinalityType
  <2>5. Rules[r] \in Rule
    BY RuleFacts
  <2> DEFINE m == Cardinality(Naming(r))
  <2> HIDE DEF m, Naming
  <2>6. [n \in 1..m |-> Rules[r]] \in Seq(Rule)
    <3>1. m \in Nat
      BY <2>4 DEF m
    <3> QED BY <2>5, <3>1
  <2> QED BY <2>6 DEF m
<1> HIDE DEF Times
<1>2. q \in Seq(Seq(Rule))
  <2>1. DOMAIN Rules = 1..Len(Rules) /\ Len(Rules) \in Nat
    BY RulesAssumption, Parts
  <2> QED BY <1>1, <2>1
<1>3. FlattenSeq(q) \in Seq(Rule)
  <2> HIDE DEF q
  <2> QED BY <1>2, FlattenType
<1>4. RulesOf(i) = FlattenSeq(q)
  BY DEF RulesOf, q, Times, Naming
<1> QED BY <1>3, <1>4

\* What each of the rules rs asks for.
Asked(rs, iv) == [r \in DOMAIN rs |-> IF should_exec(rs[r], iv) THEN rs[r].actions ELSE <<>>]

LEMMA AskedType ==
  ASSUME NEW rs \in Seq(Rule), NEW iv
  PROVE  Asked(rs, iv) \in Seq(Seq(Action)) /\ Len(Asked(rs, iv)) = Len(rs)
<1>1. DOMAIN rs = 1..Len(rs) /\ Len(rs) \in Nat /\ \A n \in 1..Len(rs): rs[n] \in Rule
  BY Parts
<1>2. \A n \in 1..Len(rs): rs[n].actions \in Seq(Action)
  BY <1>1 DEF Rule
<1>3. <<>> \in Seq(Action)
  BY EmptySeq
<1> DEFINE X == Seq(Action)
<1> HIDE DEF X
<1>4. [r \in 1..Len(rs) |-> IF should_exec(rs[r], iv) THEN rs[r].actions ELSE <<>>] \in Seq(X)
  BY <1>1, <1>2, <1>3 DEF X
<1> QED BY <1>1, <1>4 DEF Asked, X

LEMMA WantedType ==
  ASSUME NEW rs \in Seq(Rule), NEW iv
  PROVE  Wanted(rs, iv) \in Seq(Action)
BY AskedType, FlattenType DEF Wanted, Asked

LEMMA WantedNone == ASSUME NEW iv PROVE Wanted(<<>>, iv) = <<>>
<1>1. Asked(<<>>, iv) = <<>>
  BY DEF Asked
<1> QED BY <1>1, FlattenEmpty DEF Wanted, Asked

LEMMA WantedHead ==
  ASSUME NEW rs \in Seq(Rule), rs # <<>>, NEW iv
  PROVE  Wanted(rs, iv) =
           (IF should_exec(Head(rs), iv) THEN Head(rs).actions ELSE <<>>) \o Wanted(Tail(rs), iv)
<1> DEFINE q == Asked(rs, iv)
<1>1. q \in Seq(Seq(Action)) /\ Len(q) = Len(rs)
  BY AskedType
<1>2. /\ Tail(rs) \in Seq(Rule) /\ Len(rs) \in Nat \ {0} /\ Len(Tail(rs)) = Len(rs) - 1
      /\ Head(rs) = rs[1] /\ DOMAIN rs = 1..Len(rs) /\ DOMAIN Tail(rs) = 1..Len(rs) - 1
      /\ \A n \in 1..Len(rs) - 1: Tail(rs)[n] = rs[n + 1]
  BY Removed
<1>3. q # <<>>
  <2> HIDE DEF q
  <2> QED BY <1>1, <1>2
<1>4. /\ Tail(q) \in Seq(Seq(Action)) /\ Len(Tail(q)) = Len(q) - 1
      /\ Head(q) = q[1] /\ \A n \in 1..Len(q) - 1: Tail(q)[n] = q[n + 1]
  <2> HIDE DEF q
  <2> QED BY <1>1, <1>3, Removed
<1>5. Head(q) = IF should_exec(Head(rs), iv) THEN Head(rs).actions ELSE <<>>
  BY <1>2, <1>4 DEF Asked
<1>6. Tail(q) = Asked(Tail(rs), iv)
  <2> DEFINE t == Asked(Tail(rs), iv)
  <2>1. t \in Seq(Seq(Action)) /\ Len(t) = Len(Tail(rs))
    BY <1>2, AskedType
  <2>2. \A n \in 1..Len(rs) - 1: t[n] = q[n + 1]
    BY <1>2 DEF Asked
  <2> HIDE DEF t, q
  <2>3. \A n \in 1..Len(t): Tail(q)[n] = t[n]
    BY <1>1, <1>2, <1>4, <2>1, <2>2
  <2>4. Tail(q) = t
    BY <1>1, <1>2, <1>4, <2>1, <2>3, SeqEqual
  <2> QED BY <2>4 DEF t
<1>7. FlattenSeq(q) = Head(q) \o FlattenSeq(Tail(q))
  <2> HIDE DEF q
  <2> QED BY <1>1, <1>3, FlattenHead
<1>8. FlattenSeq(q) = Wanted(rs, iv) /\ FlattenSeq(Asked(Tail(rs), iv)) = Wanted(Tail(rs), iv)
  BY DEF Wanted, Asked
<1> HIDE DEF q
<1> QED BY <1>5, <1>6, <1>7, <1>8

-----------------------------------------------------------------------------
(***************************************************************************)
(* The channels keep their bounds and the engine its place.                *)
(***************************************************************************)
LEMMA ValueFacts ==
  /\ \A b \in Broadcast: b.value \in Value /\ b.value # NoValue
  /\ \A c \in Command: c.action[1] = "SetValue" => c.action[2] \in Value /\ c.action[2] # NoValue
BY ValuesAssumption, ValuesAreSome DEF Value

LEMMA HeardFacts ==
  ASSUME NEW ov \in [Output -> Value], NEW b \in Broadcast
  PROVE  /\ Heard(ov, b) \in [Output -> Value]
         /\ \A o \in Output: Heard(ov, b)[o] = IF b.id = o THEN b.value ELSE ov[o]
         /\ Known(ov) \subseteq Known(Heard(ov, b))
<1>1. b.value \in Value /\ b.value # NoValue
  BY ValueFacts
<1>2. Heard(ov, b) \in [Output -> Value]
  BY <1>1 DEF Heard
<1>3. ASSUME NEW o \in Output PROVE Heard(ov, b)[o] = IF b.id = o THEN b.value ELSE ov[o]
  BY DEF Heard
<1>4. Known(ov) \subseteq Known(Heard(ov, b))
  BY <1>1, <1>3 DEF Known
<1> QED BY <1>2, <1>3, <1>4

LEMMA PendingType ==
  ASSUME TypeOK, NEW n \in 0..Len(rxInput)
  PROVE  Pending(n) \in [Input -> Value]
<1>1. ASSUME NEW i \in Input, NEW k \in 1..n PROVE Writes(i, n)[k] \in Value
  <2>1. k \in 1..Len(rxInput) /\ rxInput[k] \in Message
    <3>1. rxInput \in Seq(Message)
      BY DEF TypeOK
    <3>2. Len(rxInput) \in Nat /\ \A j \in 1..Len(rxInput): rxInput[j] \in Message
      BY <3>1, Parts
    <3> QED BY <3>2
  <2>2. rxInput[k].kind = "Action" => rxInput[k].action \in Command
    BY <2>1 DEF Message
  <2>3. NoValue \in Value
    BY DEF Value
  <2> QED BY <2>2, <2>3, ValueFacts DEF Writes
<1>2. ASSUME NEW i \in Input PROVE Latest(inValue[i], Writes(i, n)) \in Value
  <2>1. inValue[i] \in Value /\ n \in Nat
    BY DEF TypeOK
  <2>2. Writes(i, n) \in [1..n -> Value]
    BY <1>1 DEF Writes
  <2> QED BY <2>1, <2>2, LatestType
<1> QED BY <1>2 DEF Pending

\* What is taken from the input channel.
LEMMA Received ==
  ASSUME TypeOK, NEW kind, Receive(kind)
  PROVE  /\ rxInput # <<>> /\ Head(rxInput).kind = kind /\ Head(rxInput) = rxInput[1]
         /\ pc = "recv" /\ rules = <<>> /\ acts = <<>>
         /\ rxInput' = Tail(rxInput) /\ rxInput' \in Seq(Message)
         /\ Len(rxInput') <= InputCapacity
         /\ kind = "Action" => Head(rxInput).action \in Command
<1>1. rxInput \in Seq(Message) /\ rxInput # <<>>
  BY DEF TypeOK, Receive
<1>2. /\ Tail(rxInput) \in Seq(Message) /\ Len(rxInput) \in Nat \ {0}
      /\ Len(Tail(rxInput)) = Len(rxInput) - 1
      /\ Head(rxInput) = rxInput[1] /\ rxInput[1] \in Message
  BY <1>1, Removed
<1>3. kind = "Action" => Head(rxInput).action \in Command
  BY <1>2 DEF Receive, Message
<1>4. Len(Tail(rxInput)) <= InputCapacity
  BY <1>2, CapacityAssumption DEF TypeOK
<1> QED BY <1>1, <1>2, <1>3, <1>4 DEF Receive, TypeOK

\* An action is sent, or left out.
LEMMA ActionTaken ==
  ASSUME TypeOK, acts # <<>>
  PROVE  /\ Head(acts) \in Action /\ Tail(acts) \in Seq(Action)
         /\ Len(Tail(acts)) = Len(acts) - 1
         /\ Room(cmds) => Append(cmds, Head(acts)) \in Seq(Action)
                          /\ Len(Append(cmds, Head(acts))) <= Capacity
<1>1. acts \in Seq(Action) /\ cmds \in Seq(Action) /\ Len(cmds) <= Capacity /\ Capacity \in Nat
  BY CapacityAssumption DEF TypeOK
<1>2. Head(acts) \in Action /\ Tail(acts) \in Seq(Action) /\ Len(Tail(acts)) = Len(acts) - 1
  BY <1>1, Removed
<1>3. /\ Append(cmds, Head(acts)) \in Seq(Action) /\ Len(cmds) \in Nat
      /\ Len(Append(cmds, Head(acts))) = Len(cmds) + 1
  BY <1>1, <1>2, Appended
<1> QED BY <1>1, <1>2, <1>3 DEF Room

LEMMA InitTyped == Init => TypeOK
<1> SUFFICES ASSUME Init PROVE TypeOK
  OBVIOUS
<1>1. NoValue \in Value
  BY DEF Value
<1>2. inValue \in [Input -> Value] /\ {outValue, published} \subseteq [Output -> Value]
  BY <1>1 DEF Init, Unknown
<1>3. \A S: <<>> \in Seq(S)
  OBVIOUS
<1>4. Len(<<>>) <= InputCapacity /\ Len(<<>>) <= Capacity
  BY CapacityAssumption
<1> QED BY <1>2, <1>3, <1>4 DEF Init, TypeOK

LEMMA NextTyped == TypeOK /\ [Next]_vars => TypeOK'
<1> SUFFICES ASSUME TypeOK, [Next]_vars PROVE TypeOK'
  OBVIOUS
<1> USE DEF program, values, engine, history
<1>1. \A S: <<>> \in Seq(S)
  OBVIOUS
<1>2. {InputCapacity, Capacity} \subseteq Nat /\ Len(<<>>) = 0
  BY CapacityAssumption
<1>3. \A S: \A q \in Seq(S): Len(q) \in Nat
  OBVIOUS
<1>4. ASSUME NEW b \in Broadcast, PublishedStep(b) PROVE TypeOK'
  <2>1. Heard(published, b) \in [Output -> Value]
    BY HeardFacts DEF TypeOK
  <2>2. rxOutput \in Seq(Broadcast) /\ Len(rxOutput) <= Capacity /\ Len(rxOutput) \in Nat
    BY <1>3 DEF TypeOK
  <2>3. CASE Room(rxOutput)
    <3>1. /\ Append(rxOutput, b) \in Seq(Broadcast)
          /\ Len(Append(rxOutput, b)) = Len(rxOutput) + 1
      BY <2>2, Appended
    <3>2. rxOutput' \in Seq(Broadcast) /\ Len(rxOutput') <= Capacity /\ lagged' \in BOOLEAN
      BY <1>2, <1>4, <2>2, <2>3, <3>1 DEF Room, PublishedStep, Publish, TypeOK
    <3> QED BY <1>4, <2>1, <3>2 DEF PublishedStep, Publish, TypeOK
  <2>4. CASE ~Room(rxOutput)
    <3>1. rxOutput # <<>>
      BY <1>2, <2>4, CapacityAssumption DEF Room
    <3>2. Tail(rxOutput) \in Seq(Broadcast) /\ Len(Tail(rxOutput)) = Len(rxOutput) - 1
      BY <2>2, <3>1, Removed
    <3>3. /\ Append(Tail(rxOutput), b) \in Seq(Broadcast)
          /\ Len(Append(Tail(rxOutput), b)) = Len(Tail(rxOutput)) + 1
      BY <3>2, Appended
    <3>4. rxOutput' \in Seq(Broadcast) /\ Len(rxOutput') <= Capacity /\ lagged' \in BOOLEAN
      BY <1>2, <1>4, <2>2, <2>4, <3>2, <3>3 DEF PublishedStep, Publish
    <3> QED BY <1>4, <2>1, <3>4 DEF PublishedStep, Publish, TypeOK
  <2> QED BY <2>3, <2>4
<1>5. CASE EventStep
  <2> DEFINE c == Head(rxInput).action
  <2>1. c \in Command /\ c.id \in Input /\ c.action[1] = "SetValue"
    BY <1>5, Received DEF EventStep, RecvEvent
  <2>2. c.action[2] \in Value
    BY <2>1, ValueFacts
  <2>3. /\ rxInput' \in Seq(Message) /\ Len(rxInput') <= InputCapacity
        /\ acts = <<>>
    BY <1>5, Received DEF EventStep, RecvEvent
  <2>4. inValue' = [inValue EXCEPT ![c.id] = c.action[2]]
    BY <1>5 DEF EventStep, RecvEvent
  <2>5. inValue' \in [Input -> Value]
    BY <2>2, <2>4 DEF TypeOK
  <2>6. rules' = RulesOf(c.id) /\ plan' = Plan(c.id, inValue')
    BY <1>5 DEF EventStep, RecvEvent
  <2>7. rules' \in Seq(Rule) /\ plan' \in Seq(Action)
    BY <2>6, RulesOfType, WantedType DEF Plan
  <2>8. Known(outValue) \subseteq Output
    BY DEF Known
  <2> HIDE DEF c
  <2> QED BY <1>1, <1>5, <2>3, <2>5, <2>7, <2>8 DEF EventStep, RecvEvent, Receive, TypeOK
<1>6. CASE ActionStep
  <2>1. /\ acts # <<>> /\ Room(cmds) /\ cmds' = Append(cmds, Head(acts)) /\ acts' = Tail(acts)
        /\ pc = "rules" /\ done' = Append(done, [action |-> Head(acts), sent |-> TRUE])
    BY <1>6 DEF ActionStep, exec_action, SendCommand, Gone
  <2>2. cmds' \in Seq(Action) /\ Len(cmds') <= Capacity /\ acts' \in Seq(Action) /\ Head(acts) \in Action
    BY <2>1, ActionTaken
  <2>3. done' \in Seq([action: Action, sent: BOOLEAN])
    BY <2>1, <2>2 DEF TypeOK
  <2> QED BY <1>6, <2>1, <2>2, <2>3 DEF ActionStep, exec_action, SendCommand, Gone, TypeOK
<1>7. CASE SkipStep
  <2>1. /\ acts # <<>> /\ acts' = Tail(acts)
        /\ pc = "rules" /\ done' = Append(done, [action |-> Head(acts), sent |-> FALSE])
    BY <1>7 DEF SkipStep, SkipAction, Gone
  <2>2. acts' \in Seq(Action) /\ Head(acts) \in Action
    BY <2>1, ActionTaken
  <2>3. done' \in Seq([action: Action, sent: BOOLEAN])
    BY <2>1, <2>2 DEF TypeOK
  <2> QED BY <1>7, <2>1, <2>2, <2>3 DEF SkipStep, SkipAction, Gone, TypeOK
<1>8. CASE RestartStep
  <2>1. NoValue \in Value
    BY DEF Value
  <2>2. inValue' \in [Input -> Value] /\ {outValue', published'} \subseteq [Output -> Value]
    BY <1>8, <2>1 DEF RestartStep, Restart, Fresh, Unknown
  <2>3. /\ rxInput' \in Seq(Message) /\ cmds' \in Seq(Action) /\ rxOutput' \in Seq(Broadcast)
        /\ rules' \in Seq(Rule) /\ {acts', plan'} \subseteq Seq(Action)
        /\ done' \in Seq([action: Action, sent: BOOLEAN])
    BY <1>1, <1>8 DEF RestartStep, Restart, Fresh
  <2>4. Len(rxInput') <= InputCapacity /\ Len(cmds') <= Capacity /\ Len(rxOutput') <= Capacity
    BY <1>2, <1>8 DEF RestartStep, Restart, Fresh
  <2>5. /\ pc' = "recv" /\ rules' = <<>> /\ acts' = <<>> /\ known' = {} /\ lagged' = FALSE
    BY <1>8 DEF RestartStep, Restart, Fresh
  <2> QED BY <2>2, <2>3, <2>4, <2>5 DEF TypeOK
<1>9. CASE OtherStep /\ UNCHANGED history
  <2>1. ASSUME NEW c \in Command, SendInput(c) PROVE TypeOK'
    <3> DEFINE e == [kind |-> "Action", action |-> c]
    <3>1. e \in Message
      BY DEF Message
    <3>2. rxInput' \in Seq(Message) /\ Len(rxInput') <= InputCapacity
      <4> HIDE DEF e
      <4>1. rxInput \in Seq(Message)
        BY DEF TypeOK
      <4>2. /\ Append(rxInput, e) \in Seq(Message) /\ Len(rxInput) \in Nat
            /\ Len(Append(rxInput, e)) = Len(rxInput) + 1
        BY <3>1, <4>1, Appended
      <4>3. rxInput' = Append(rxInput, e) /\ Len(rxInput) < InputCapacity
        BY <2>1 DEF SendInput, InputRoom, e
      <4> QED BY <1>2, <4>2, <4>3
    <3> QED BY <1>9, <2>1, <3>2 DEF SendInput, TypeOK
  <2>2. ASSUME NEW c \in Client, Ask(c) PROVE TypeOK'
    <3> DEFINE p == Pending(Len(rxInput))
               e == [kind |-> "Request", client |-> c, promise |-> p]
    <3>1. p \in [Input -> Value]
      BY <1>3, PendingType DEF TypeOK
    <3>2. e \in Message
      <4> HIDE DEF p
      <4> QED BY <3>1 DEF Message
    <3>3. rxInput' \in Seq(Message) /\ Len(rxInput') <= InputCapacity
      <4>3. rxInput' = Append(rxInput, e) /\ Len(rxInput) < InputCapacity
        BY <2>2 DEF Ask, InputRoom
      <4> HIDE DEF e, p
      <4>1. rxInput \in Seq(Message)
        BY DEF TypeOK
      <4>2. /\ Append(rxInput, e) \in Seq(Message) /\ Len(rxInput) \in Nat
            /\ Len(Append(rxInput, e)) = Len(rxInput) + 1
        BY <3>2, <4>1, Appended
      <4> QED BY <1>2, <4>2, <4>3
    <3> QED BY <1>9, <2>2, <3>3 DEF Ask, TypeOK
  <2>3. CASE Dispatch
    <3>1. cmds \in Seq(Action) /\ cmds # <<>> /\ cmds' = Tail(cmds) /\ Len(cmds) <= Capacity
      BY <2>3 DEF Dispatch, TypeOK
    <3>2. cmds' \in Seq(Action) /\ Len(cmds') = Len(cmds) - 1 /\ Len(cmds) \in Nat
      BY <3>1, Removed
    <3>3. Len(cmds') <= Capacity
      BY <1>2, <3>1, <3>2
    <3> QED BY <1>9, <2>3, <3>2, <3>3 DEF Dispatch, TypeOK
  <2>4. CASE Feedback
    <3>1. rxOutput \in Seq(Broadcast) /\ rxOutput # <<>> /\ rxOutput' = Tail(rxOutput) /\ Len(rxOutput) <= Capacity
      BY <2>4 DEF Feedback, TypeOK
    <3>2. /\ rxOutput' \in Seq(Broadcast) /\ Len(rxOutput') = Len(rxOutput) - 1 /\ Len(rxOutput) \in Nat
          /\ Head(rxOutput) \in Broadcast
      BY <3>1, Removed
    <3>3. Len(rxOutput') <= Capacity
      BY <1>2, <3>1, <3>2
    <3>4. Heard(outValue, Head(rxOutput)) \in [Output -> Value]
      BY <3>2, HeardFacts DEF TypeOK
    <3> QED BY <1>9, <2>4, <3>2, <3>3, <3>4 DEF Feedback, TypeOK
  <2>5. CASE FeedbackLagged
    BY <1>1, <1>9, <2>5 DEF FeedbackLagged, TypeOK
  <2>6. CASE RecvUnexpected
    BY <1>9, <2>6, Received DEF RecvUnexpected, Receive, TypeOK
  <2>7. CASE RecvForward
    <3> DEFINE c == Head(rxInput).action
    <3>1. /\ rxInput' \in Seq(Message) /\ Len(rxInput') <= InputCapacity
          /\ rules = <<>> /\ c \in Command
      BY <2>7, Received DEF RecvForward
    <3>2. acts' = <<c>>
      BY <2>7 DEF RecvForward
    <3> HIDE DEF c
    <3>3. acts' \in Seq(Action) /\ Len(acts') = 1
      BY <3>1, <3>2 DEF Action
    <3> QED BY <1>9, <2>7, <3>1, <3>3 DEF RecvForward, Receive, TypeOK
  <2>8. CASE RecvRequest
    BY <1>9, <2>8, Received DEF RecvRequest, Receive, TypeOK
  <2>9. CASE Forward
    <3>1. /\ acts # <<>> /\ Room(cmds) /\ cmds' = Append(cmds, Head(acts)) /\ acts' = Tail(acts)
          /\ rules = <<>> /\ Len(acts) = 1
      BY <2>9 DEF Forward, SendCommand, TypeOK
    <3>2. /\ cmds' \in Seq(Action) /\ Len(cmds') <= Capacity
          /\ acts' \in Seq(Action) /\ Len(acts') = 0
      BY <3>1, ActionTaken
    <3>3. acts' = <<>>
      BY <3>2
    <3> QED BY <1>9, <2>9, <3>1, <3>2, <3>3 DEF Forward, SendCommand, TypeOK
  <2>10. CASE NextRule
    <3>1. /\ rules \in Seq(Rule) /\ rules # <<>> /\ rules' = Tail(rules) /\ pc = "rules"
          /\ acts' = IF should_exec(Head(rules), inValue) THEN Head(rules).actions ELSE <<>>
      BY <2>10 DEF NextRule, TypeOK
    <3>2. rules' \in Seq(Rule) /\ Head(rules) \in Rule
      BY <3>1, Removed
    <3>3. acts' \in Seq(Action)
      BY <1>1, <3>1, <3>2 DEF Rule
    <3> QED BY <1>9, <2>10, <3>1, <3>2, <3>3 DEF NextRule, TypeOK
  <2>11. CASE EventDone
    BY <1>9, <2>11 DEF EventDone, TypeOK
  <2> QED BY <1>9, <2>1, <2>2, <2>3, <2>4, <2>5, <2>6, <2>7, <2>8, <2>9, <2>10, <2>11 DEF OtherStep
<1>10. CASE UNCHANGED vars
  BY <1>10 DEF vars, TypeOK
<1> QED BY <1>4, <1>5, <1>6, <1>7, <1>8, <1>9, <1>10 DEF Next

\* The channels keep their bounds and handle_input its place, for any rules.
THEOREM TypeCorrect == Spec => []TypeOK
<1> QED BY InitTyped, NextTyped, PTL DEF Spec

-----------------------------------------------------------------------------
(***************************************************************************)
(* What a queued request is promised.                                      *)
(***************************************************************************)
LEMMA PendingAppended ==
  ASSUME TypeOK, NEW e \in Message, rxInput' = Append(rxInput, e), UNCHANGED inValue,
         NEW n \in 0..Len(rxInput)
  PROVE  Pending(n)' = Pending(n)
<1>1. rxInput \in Seq(Message)
  BY DEF TypeOK
<1>2. Len(rxInput) \in Nat /\ \A k \in 1..Len(rxInput): rxInput'[k] = rxInput[k]
  BY <1>1, Appended
<1>3. ASSUME NEW i \in Input PROVE Writes(i, n)' = Writes(i, n)
  <2>1. \A k \in 1..n: rxInput'[k] = rxInput[k]
    BY <1>2
  <2> QED BY <2>1 DEF Writes
<1> QED BY <1>3 DEF Pending

LEMMA PendingTaken ==
  ASSUME TypeOK, rxInput # <<>>, rxInput' = Tail(rxInput),
         \A i \in Input: inValue'[i] =
           IF Writes(i, 1)[1] = NoValue THEN inValue[i] ELSE Writes(i, 1)[1],
         NEW n \in 0..Len(rxInput) - 1
  PROVE  Pending(n)' = Pending(n + 1)
<1>1. rxInput \in Seq(Message)
  BY DEF TypeOK
<1>2. Len(rxInput) \in Nat \ {0} /\ \A k \in 1..Len(rxInput) - 1: rxInput'[k] = rxInput[k + 1]
  BY <1>1, Removed
<1>3. ASSUME NEW i \in Input
      PROVE  Latest(inValue'[i], Writes(i, n)') = Latest(inValue[i], Writes(i, n + 1))
  <2> DEFINE p == Writes(i, n)'
             q == Writes(i, n + 1)
  <2>1. n \in Nat /\ DOMAIN p = 1..n /\ DOMAIN q = 1..n + 1
    BY <1>2 DEF Writes
  <2>2. ASSUME NEW k \in 1..n PROVE p[k] = q[k + 1]
    <3>1. k \in 1..Len(rxInput) - 1 /\ k + 1 \in 1..n + 1
      BY <1>2
    <3>2. rxInput'[k] = rxInput[k + 1]
      BY <1>2, <3>1
    <3> QED BY <3>1, <3>2 DEF Writes
  <2>3. q[1] = Writes(i, 1)[1]
    BY <2>1 DEF Writes
  <2>4. inValue'[i] = IF q[1] = NoValue THEN inValue[i] ELSE q[1]
    BY <2>3
  <2> HIDE DEF p, q
  <2>5. Latest(inValue[i], q) = Latest(IF q[1] = NoValue THEN inValue[i] ELSE q[1], p)
    BY <2>1, <2>2, LatestTaken
  <2>6. Latest(inValue'[i], p) = Latest(inValue[i], q)
    BY <2>4, <2>5
  <2> QED BY <2>6 DEF p, q
<1> QED BY <1>3 DEF Pending

\* What is taken from the input channel is what its first entry writes.
LEMMA TakenWrites ==
  ASSUME TypeOK, NEW kind, Receive(kind),
         IF kind = "Action" /\ Head(rxInput).action.id \in Input
              /\ Head(rxInput).action.action[1] = "SetValue"
         THEN inValue' = [inValue EXCEPT ![Head(rxInput).action.id] = Head(rxInput).action.action[2]]
         ELSE inValue' = inValue
  PROVE  \A i \in Input: inValue'[i] =
           IF Writes(i, 1)[1] = NoValue THEN inValue[i] ELSE Writes(i, 1)[1]
<1> DEFINE m == Head(rxInput)
<1>1. kind = "Action" => m.action \in Command
  BY Received
<1>2. m.kind = kind /\ m = rxInput[1]
  BY Received
<1>3. inValue \in [Input -> Value]
  BY DEF TypeOK
<1> SUFFICES ASSUME NEW i \in Input
             PROVE  inValue'[i] = IF Writes(i, 1)[1] = NoValue THEN inValue[i] ELSE Writes(i, 1)[1]
  OBVIOUS
<1>4. Writes(i, 1)[1] = IF m.kind = "Action" /\ m.action.id = i /\ m.action.action[1] = "SetValue"
                        THEN m.action.action[2] ELSE NoValue
  <2> HIDE DEF m
  <2> QED BY <1>2 DEF Writes
<1>5. CASE kind = "Action" /\ m.action.id = i /\ m.action.action[1] = "SetValue"
  <2>1. m.action.action[2] # NoValue
    BY <1>1, <1>5, ValueFacts
  <2>2. inValue'[i] = m.action.action[2]
    BY <1>3, <1>5
  <2> HIDE DEF m
  <2> QED BY <1>2, <1>4, <1>5, <2>1, <2>2
<1>6. CASE ~(kind = "Action" /\ m.action.id = i /\ m.action.action[1] = "SetValue")
  <2>1. inValue'[i] = inValue[i]
    BY <1>3, <1>6
  <2> HIDE DEF m
  <2> QED BY <1>2, <1>4, <1>6, <2>1
<1> QED BY <1>5, <1>6

\* The four ways the channel or the inputs' values change.
LEMMA ChannelSteps ==
  ASSUME [Next]_vars
  PROVE  \/ \E c \in Command: SendInput(c)
         \/ \E c \in Client: Ask(c)
         \/ RecvEvent \/ RecvUnexpected \/ RecvForward \/ RecvRequest
         \/ Restart
         \/ UNCHANGED <<rxInput, inValue>>
<1> USE DEF values, engine, SendCommand
<1>1. CASE \E b \in Broadcast: PublishedStep(b)
  BY <1>1 DEF PublishedStep, Publish
<1>2. CASE EventStep
  BY <1>2 DEF EventStep
<1>3. CASE ActionStep \/ SkipStep
  BY <1>3 DEF ActionStep, SkipStep, exec_action, SkipAction
<1>4. CASE RestartStep
  BY <1>4 DEF RestartStep
<1>5. CASE OtherStep
  BY <1>5 DEF OtherStep, Dispatch, Feedback, FeedbackLagged, Forward, NextRule, EventDone
<1>6. CASE UNCHANGED vars
  BY <1>6 DEF vars, program
<1> QED BY <1>1, <1>2, <1>3, <1>4, <1>5, <1>6 DEF Next

LEMMA PromisedKept == TypeOK /\ TypeOK' /\ Promised /\ [Next]_vars => Promised'
<1> SUFFICES ASSUME TypeOK, TypeOK', Promised, [Next]_vars PROVE Promised'
  OBVIOUS
<1>1. rxInput \in Seq(Message) /\ rxInput' \in Seq(Message)
  BY DEF TypeOK
<1>2. Len(rxInput) \in Nat /\ DOMAIN rxInput = 1..Len(rxInput)
  BY <1>1, Parts
<1>3. ASSUME NEW e \in Message, rxInput' = Append(rxInput, e), UNCHANGED inValue,
             e.kind = "Request" => e.promise = Pending(Len(rxInput))
      PROVE  Promised'
  <2>1. /\ Len(rxInput') = Len(rxInput) + 1 /\ DOMAIN rxInput' = 1..Len(rxInput) + 1
        /\ rxInput'[Len(rxInput) + 1] = e
        /\ \A n \in 1..Len(rxInput): rxInput'[n] = rxInput[n]
    BY <1>1, <1>3, Appended
  <2>2. ASSUME NEW n \in DOMAIN rxInput', rxInput'[n].kind = "Request"
        PROVE  rxInput'[n].promise = Pending(n - 1)'
    <3>1. n - 1 \in 0..Len(rxInput)
      BY <1>2, <2>1
    <3>2. Pending(n - 1)' = Pending(n - 1)
      BY <1>3, <3>1, PendingAppended
    <3>3. CASE n = Len(rxInput) + 1
      <4>1. n - 1 = Len(rxInput)
        BY <1>2, <3>3
      <4> QED BY <1>3, <2>1, <2>2, <3>2, <3>3, <4>1
    <3>4. CASE n # Len(rxInput) + 1
      <4>1. n \in DOMAIN rxInput /\ rxInput'[n] = rxInput[n]
        BY <1>2, <2>1, <3>4
      <4> QED BY <2>2, <3>2, <4>1 DEF Promised
    <3> QED BY <3>3, <3>4
  <2> QED BY <2>2 DEF Promised
<1>4. ASSUME rxInput # <<>>, rxInput' = Tail(rxInput),
             \A i \in Input: inValue'[i] =
               IF Writes(i, 1)[1] = NoValue THEN inValue[i] ELSE Writes(i, 1)[1]
      PROVE  Promised'
  <2>1. /\ DOMAIN rxInput' = 1..Len(rxInput) - 1
        /\ \A n \in 1..Len(rxInput) - 1: rxInput'[n] = rxInput[n + 1]
    BY <1>1, <1>4, Removed
  <2>2. ASSUME NEW n \in DOMAIN rxInput', rxInput'[n].kind = "Request"
        PROVE  rxInput'[n].promise = Pending(n - 1)'
    <3>1. n - 1 \in 0..Len(rxInput) - 1 /\ n - 1 + 1 = n /\ n + 1 - 1 = n
          /\ n + 1 \in DOMAIN rxInput
      BY <1>2, <2>1
    <3>2. Pending(n - 1)' = Pending(n - 1 + 1)
      BY <1>4, <3>1, PendingTaken
    <3>3. rxInput[n + 1].kind = "Request" /\ rxInput'[n].promise = rxInput[n + 1].promise
      BY <2>1, <2>2
    <3>4. rxInput[n + 1].promise = Pending(n + 1 - 1)
      BY <3>1, <3>3 DEF Promised
    <3> QED BY <3>1, <3>2, <3>3, <3>4
  <2> QED BY <2>2 DEF Promised
<1>5. ASSUME NEW c \in Command, SendInput(c) PROVE Promised'
  <2> DEFINE e == [kind |-> "Action", action |-> c]
  <2>1. e \in Message /\ e.kind = "Action" /\ rxInput' = Append(rxInput, e) /\ inValue' = inValue
    BY <1>5 DEF Message, SendInput, values
  <2> HIDE DEF e
  <2> QED BY <1>3, <2>1
<1>6. ASSUME NEW c \in Client, Ask(c) PROVE Promised'
  <2> DEFINE p == Pending(Len(rxInput))
             e == [kind |-> "Request", client |-> c, promise |-> p]
  <2>1. p \in [Input -> Value]
    BY <1>2, PendingType
  <2>2. rxInput' = Append(rxInput, e) /\ inValue' = inValue
    BY <1>6 DEF Ask, values
  <2> HIDE DEF p
  <2>3. e \in Message /\ e.promise = p
    BY <2>1 DEF Message
  <2> HIDE DEF e
  <2> QED BY <1>3, <2>2, <2>3 DEF p
<1>7. CASE RecvEvent
  <2>1. Receive("Action") /\ Head(rxInput).action.id \in Input
        /\ Head(rxInput).action.action[1] = "SetValue"
        /\ inValue' = [inValue EXCEPT ![Head(rxInput).action.id] = Head(rxInput).action.action[2]]
    BY <1>7 DEF RecvEvent
  <2>2. \A i \in Input: inValue'[i] =
          IF Writes(i, 1)[1] = NoValue THEN inValue[i] ELSE Writes(i, 1)[1]
    BY <2>1, TakenWrites
  <2> QED BY <1>4, <2>1, <2>2 DEF Receive
<1>8. CASE RecvUnexpected \/ RecvForward
  <2>1. /\ Receive("Action") /\ inValue' = inValue
        /\ ~(Head(rxInput).action.id \in Input /\ Head(rxInput).action.action[1] = "SetValue")
    BY <1>8 DEF RecvUnexpected, RecvForward
  <2>2. \A i \in Input: inValue'[i] =
          IF Writes(i, 1)[1] = NoValue THEN inValue[i] ELSE Writes(i, 1)[1]
    BY <2>1, TakenWrites
  <2> QED BY <1>4, <2>1, <2>2 DEF Receive
<1>9. CASE RecvRequest
  <2>1. Receive("Request") /\ inValue' = inValue
    BY <1>9 DEF RecvRequest
  <2>2. \A i \in Input: inValue'[i] =
          IF Writes(i, 1)[1] = NoValue THEN inValue[i] ELSE Writes(i, 1)[1]
    BY <2>1, TakenWrites
  <2> QED BY <1>4, <2>1, <2>2 DEF Receive
<1>10. CASE Restart
  <2>1. DOMAIN rxInput' = {}
    BY <1>10 DEF Restart, Fresh
  <2> QED BY <2>1 DEF Promised
<1>11. CASE UNCHANGED <<rxInput, inValue>>
  BY <1>11 DEF Promised, Pending, Writes
<1> QED BY <1>5, <1>6, <1>7, <1>8, <1>9, <1>10, <1>11, ChannelSteps

LEMMA PromisedFirst == Init => Promised
BY DEF Init, Promised

\* A client that asks for the home data finds every input event queued before its
\* request and none queued after it.
THEOREM ReadsWhatWasWritten == Spec => ReadsItsWrites
<1>1. TypeOK /\ Promised /\ [Next]_vars => [RecvRequest => HomeData = Head(rxInput).promise]_vars
  <2> SUFFICES ASSUME TypeOK, Promised, RecvRequest
               PROVE  HomeData = Head(rxInput).promise
    OBVIOUS
  <2>1. rxInput \in Seq(Message) /\ rxInput # <<>> /\ Head(rxInput).kind = "Request"
    BY DEF TypeOK, RecvRequest, Receive
  <2>2. 1 \in DOMAIN rxInput /\ Head(rxInput) = rxInput[1]
    BY <2>1, Removed
  <2>3. rxInput[1].promise = Pending(0)
    BY <2>1, <2>2 DEF Promised
  <2>4. ASSUME NEW i \in Input PROVE Latest(inValue[i], Writes(i, 0)) = inValue[i]
    <3>1. News(Writes(i, 0)) = {}
      BY DEF News, Writes
    <3> QED BY <3>1, LatestNone
  <2>5. Pending(0) = inValue
    BY <2>4 DEF Pending, TypeOK
  <2> QED BY <2>2, <2>3, <2>5 DEF HomeData
<1>2. Init => TypeOK /\ Promised
  BY InitTyped, PromisedFirst
<1>3. TypeOK /\ Promised /\ [Next]_vars => (TypeOK /\ Promised)'
  BY NextTyped, PromisedKept
<1> QED BY <1>1, <1>2, <1>3, PTL DEF Spec, ReadsItsWrites

-----------------------------------------------------------------------------
(***************************************************************************)
(* The engine's copy of the outputs.                                       *)
(***************************************************************************)
LEMMA FollowsFirst == Init => OutputsFollow
<1> SUFFICES ASSUME Init, NEW o \in Output PROVE published[o] = Latest(outValue[o], NewsOf(o))
  BY DEF OutputsFollow
<1>1. News(NewsOf(o)) = {}
  BY DEF Init, NewsOf, News
<1> QED BY <1>1, LatestNone DEF Init, Unknown

LEMMA FollowsKept == TypeOK /\ TypeOK' /\ OutputsFollow /\ [Next]_vars => OutputsFollow'
<1> SUFFICES ASSUME TypeOK, TypeOK', OutputsFollow, [Next]_vars, pc' # "stopped", ~lagged',
                    NEW o \in Output
             PROVE  (published[o] = Latest(outValue[o], NewsOf(o)))'
  BY DEF OutputsFollow
<1> USE DEF program, values, engine, history
<1> DEFINE m == Len(rxOutput)
           p == NewsOf(o)
<1>1. rxOutput \in Seq(Broadcast) /\ rxOutput' \in Seq(Broadcast) /\ m \in Nat /\ DOMAIN rxOutput = 1..m
  BY DEF TypeOK
<1>2. DOMAIN p = 1..m /\ DOMAIN p' = 1..Len(rxOutput')
  BY <1>1 DEF NewsOf
<1>3. {outValue, published, outValue', published'} \subseteq [Output -> Value]
  BY DEF TypeOK
<1>4. ASSUME pc # "stopped", ~lagged, UNCHANGED <<outValue, rxOutput, published>>
      PROVE  (published[o] = Latest(outValue[o], NewsOf(o)))'
  BY <1>4 DEF OutputsFollow, NewsOf
<1>5. ASSUME NEW b \in Broadcast, PublishedStep(b)
      PROVE  (published[o] = Latest(outValue[o], NewsOf(o)))'
  <2>1. /\ pc # "stopped" /\ ~lagged /\ outValue' = outValue
        /\ rxOutput' = Append(rxOutput, b) /\ published' = Heard(published, b)
    BY <1>5 DEF PublishedStep, Publish
  <2>2. /\ Len(rxOutput') = m + 1 /\ DOMAIN rxOutput' = 1..m + 1
        /\ rxOutput'[m + 1] = b /\ \A n \in 1..m: rxOutput'[n] = rxOutput[n]
    BY <1>1, <2>1, Appended
  <2>3. /\ p'[m + 1] = IF b.id = o THEN b.value ELSE NoValue
        /\ \A n \in 1..m: p'[n] = p[n]
    BY <1>1, <2>2 DEF NewsOf
  <2>4. published[o] = Latest(outValue[o], p)
    BY <2>1 DEF OutputsFollow
  <2>5. published'[o] = IF b.id = o THEN b.value ELSE published[o]
    BY <1>3, <2>1, HeardFacts
  <2>6. b.value # NoValue
    BY ValueFacts
  <2>7. DOMAIN p' = 1..m + 1
    BY <1>2, <2>2
  <2> HIDE DEF p, m
  <2>8. Latest(outValue[o], p') = IF p'[m + 1] = NoValue THEN Latest(outValue[o], p) ELSE p'[m + 1]
    BY <1>1, <1>2, <2>3, <2>7, LatestAppended
  <2>9. published'[o] = Latest(outValue'[o], p')
    BY <2>1, <2>3, <2>4, <2>5, <2>6, <2>8
  <2> QED BY <2>9 DEF p
<1>6. ASSUME Feedback, UNCHANGED history
      PROVE  (published[o] = Latest(outValue[o], NewsOf(o)))'
  <2> DEFINE b == Head(rxOutput)
  <2>1. /\ pc # "stopped" /\ ~lagged /\ rxOutput # <<>> /\ published' = published
        /\ rxOutput' = Tail(rxOutput) /\ outValue' = Heard(outValue, b)
    BY <1>6 DEF Feedback
  <2>2. /\ m \in Nat \ {0} /\ Len(rxOutput') = m - 1 /\ DOMAIN rxOutput' = 1..m - 1
        /\ b = rxOutput[1] /\ b \in Broadcast
        /\ \A n \in 1..m - 1: rxOutput'[n] = rxOutput[n + 1]
    BY <1>1, <2>1, Removed
  <2>3. /\ p[1] = IF b.id = o THEN b.value ELSE NoValue
        /\ \A n \in 1..m - 1: p'[n] = p[n + 1]
    BY <1>1, <2>2 DEF NewsOf
  <2>4. published[o] = Latest(outValue[o], p)
    BY <2>1 DEF OutputsFollow
  <2>5. outValue'[o] = IF b.id = o THEN b.value ELSE outValue[o]
    BY <1>3, <2>1, <2>2, HeardFacts
  <2>6. b.value # NoValue
    BY <2>2, ValueFacts
  <2>7. DOMAIN p' = 1..m - 1
    BY <1>2, <2>2
  <2> HIDE DEF p, m
  <2>8. m - 1 \in Nat /\ m - 1 + 1 = m
    BY <2>2
  <2>9. Latest(outValue[o], p) = Latest(IF p[1] = NoValue THEN outValue[o] ELSE p[1], p')
    <3> DEFINE k == m - 1
               v == outValue[o]
               P == p'
    <3>1. k \in Nat /\ DOMAIN p = 1..k + 1 /\ DOMAIN P = 1..k
      BY <1>2, <2>7, <2>8
    <3>2. \A n \in 1..k: P[n] = p[n + 1]
      BY <2>3
    <3> HIDE DEF k, v, P
    <3>3. Latest(v, p) = Latest(IF p[1] = NoValue THEN v ELSE p[1], P)
      BY <3>1, <3>2, LatestTaken
    <3> QED BY <3>3 DEF v, P
  <2>10. (IF p[1] = NoValue THEN outValue[o] ELSE p[1]) = outValue'[o]
    BY <2>3, <2>5, <2>6
  <2>11. published'[o] = Latest(outValue'[o], p')
    BY <2>1, <2>4, <2>9, <2>10
  <2> QED BY <2>11 DEF p
<1>7. CASE EventStep
  BY <1>4, <1>7 DEF EventStep, RecvEvent, Receive
<1>8. CASE ActionStep \/ SkipStep
  BY <1>4, <1>8 DEF ActionStep, SkipStep, Gone, exec_action, SendCommand, SkipAction
<1>9. CASE RestartStep
  <2>1. /\ outValue'[o] = NoValue /\ published'[o] = NoValue /\ rxOutput' = <<>>
    BY <1>9 DEF RestartStep, Restart, Fresh, Unknown
  <2>2. News(p') = {}
    BY <2>1 DEF NewsOf, News
  <2> HIDE DEF p
  <2>3. Latest(outValue'[o], p') = outValue'[o]
    BY <2>2, LatestNone
  <2> QED BY <2>1, <2>3 DEF p
<1>10. CASE OtherStep /\ UNCHANGED history
  <2>1. CASE (\E c \in Command: SendInput(c)) \/ (\E c \in Client: Ask(c)) \/ Dispatch
    BY <1>4, <1>10, <2>1 DEF SendInput, Ask, Dispatch
  <2>2. CASE Feedback
    BY <1>6, <1>10, <2>2
  <2>3. CASE FeedbackLagged
    BY <2>3 DEF FeedbackLagged
  <2>4. CASE RecvUnexpected \/ RecvForward \/ RecvRequest
    BY <1>4, <1>10, <2>4 DEF RecvUnexpected, RecvForward, RecvRequest, Receive
  <2>5. CASE Forward \/ NextRule \/ EventDone
    BY <1>4, <1>10, <2>5 DEF Forward, SendCommand, NextRule, EventDone
  <2> QED BY <1>10, <2>1, <2>2, <2>3, <2>4, <2>5 DEF OtherStep
<1>11. CASE UNCHANGED vars
  BY <1>4, <1>11 DEF vars
<1> QED BY <1>5, <1>7, <1>8, <1>9, <1>10, <1>11 DEF Next

\* The engine's copy of an output is what was last broadcast for it, up to what is
\* still in the channel, as long as nothing was lost.
THEOREM OutputsFollowed == Spec => []OutputsFollow
<1>1. Init => TypeOK /\ OutputsFollow
  BY InitTyped, FollowsFirst
<1>2. TypeOK /\ OutputsFollow /\ [Next]_vars => (TypeOK /\ OutputsFollow)'
  BY NextTyped, FollowsKept
<1> QED BY <1>1, <1>2, PTL DEF Spec

-----------------------------------------------------------------------------
(***************************************************************************)
(* What is done for an event, and what is left to do.                      *)
(***************************************************************************)
LEMMA TriedFacts ==
  ASSUME TypeOK
  PROVE  /\ Tried \in Seq(Action) /\ Len(Tried) = Len(done)
         /\ Len(done) \in Nat /\ DOMAIN done = 1..Len(done)
         /\ \A n \in 1..Len(done): Tried[n] = done[n].action
<1> DEFINE R == [action: Action, sent: BOOLEAN]
<1>1. done \in Seq(R)
  BY DEF TypeOK
<1>2. \A r \in R: r.action \in Action
  OBVIOUS
<1> HIDE DEF R
<1>3. Len(done) \in Nat /\ DOMAIN done = 1..Len(done) /\ \A n \in 1..Len(done): done[n].action \in Action
  BY <1>1, <1>2, Parts
<1> QED BY <1>3 DEF Tried

LEMMA TriedAppended ==
  ASSUME TypeOK, TypeOK', NEW a \in Action, NEW x, done' = Append(done, [action |-> a, sent |-> x])
  PROVE  Tried' = Cat(Tried, <<a>>)
<1>1. /\ Tried \in Seq(Action) /\ Tried' \in Seq(Action) /\ Len(Tried) = Len(done) /\ Len(Tried') = Len(done')
      /\ \A n \in 1..Len(done): Tried[n] = done[n].action
      /\ \A n \in 1..Len(done'): Tried'[n] = done'[n].action
      /\ Len(done) \in Nat
  <2>1. Tried' \in Seq(Action) /\ Len(Tried') = Len(done') /\ \A n \in 1..Len(done'): Tried'[n] = done'[n].action
    <3> DEFINE d == done'
               t == [n \in DOMAIN d |-> d[n].action]
               R == [action: Action, sent: BOOLEAN]
    <3>1. d \in Seq(R) /\ \A r \in R: r.action \in Action
      BY DEF TypeOK
    <3> HIDE DEF d, R
    <3>2. Len(d) \in Nat /\ DOMAIN d = 1..Len(d) /\ \A n \in 1..Len(d): d[n].action \in Action
      BY <3>1, Parts
    <3>3. t \in Seq(Action) /\ Len(t) = Len(d) /\ \A n \in 1..Len(d): t[n] = d[n].action
      BY <3>2
    <3>4. Tried' = t
      BY DEF Tried, d
    <3> HIDE DEF t
    <3> QED BY <3>3, <3>4 DEF d
  <2> QED BY <2>1, TriedFacts
<1>2. /\ Len(done') = Len(done) + 1 /\ done'[Len(done) + 1].action = a
      /\ \A n \in 1..Len(done): done'[n] = done[n]
  <2> DEFINE D == UNION {{done[n]: n \in DOMAIN done}, {[action |-> a, sent |-> x]}}
             e == [action |-> a, sent |-> x]
  <2>1. done \in Seq(D) /\ e \in D
    BY DEF TypeOK
  <2>2. e.action = a /\ done' = Append(done, e)
    OBVIOUS
  <2> HIDE DEF D, e
  <2> QED BY <2>1, <2>2, Appended
<1> DEFINE t == Tried
           u == Tried'
           m == Len(done)
<1>3. /\ t \in Seq(Action) /\ u \in Seq(Action) /\ Len(t) = m /\ Len(u) = m + 1 /\ m \in Nat
      /\ u[m + 1] = a /\ \A n \in 1..m: u[n] = t[n]
  BY <1>1, <1>2
<1> HIDE DEF t, u, m
<1>4. /\ Append(t, a) \in Seq(Action) /\ Len(Append(t, a)) = m + 1
      /\ \A n \in 1..m + 1: u[n] = Append(t, a)[n]
  BY <1>3
<1>5. u = Append(t, a)
  BY <1>3, <1>4, SeqEqual
<1>6. Append(t, a) = t \o <<a>>
  BY <1>3, AppendIsConcat
<1> QED BY <1>5, <1>6 DEF t, u, Cat

\* The first action moves from what is left to what was tried.
LEMMA Moved ==
  ASSUME NEW t \in Seq(Action), NEW s \in Seq(Action), s # <<>>, NEW w \in Seq(Action)
  PROVE  Cat(t, Cat(s, w)) = Cat(Cat(t, <<Head(s)>>), Cat(Tail(s), w))
<1> DEFINE h == <<Head(s)>>
           r == Tail(s)
<1>1. h \in Seq(Action) /\ r \in Seq(Action)
  OBVIOUS
<1>2. s = Cat(h, r)
  BY DEF Cat
<1> HIDE DEF h, r
<1>3. Cat(Cat(h, r), w) = Cat(h, Cat(r, w)) /\ Cat(r, w) \in Seq(Action)
  BY <1>1, CatFacts
<1>4. Cat(Cat(t, h), Cat(r, w)) = Cat(t, Cat(h, Cat(r, w)))
  BY <1>1, <1>3, CatFacts
<1> QED BY <1>2, <1>3, <1>4 DEF h, r

LEMMA PlanFirst == Init => OnPlan /\ InTime
<1> SUFFICES ASSUME Init PROVE OnPlan /\ InTime
  OBVIOUS
<1>1. Tried = <<>>
  BY DEF Init, Tried
<1> QED BY <1>1 DEF Init, OnPlan, InTime

\* The steps other than those of the plan leave it alone.
LEMMA PlanAlone ==
  ASSUME OnPlan, UNCHANGED <<plan, done>>,
         \/ UNCHANGED <<pc, acts, rules, inValue>>
         \/ pc \in {"recv", "forward"} /\ pc' \in {"recv", "forward"}
         \/ pc' = "stopped"
  PROVE  OnPlan'
BY DEF OnPlan, Tried

LEMMA OnPlanKept == TypeOK /\ TypeOK' /\ OnPlan /\ [Next]_vars => OnPlan'
<1> SUFFICES ASSUME TypeOK, TypeOK', OnPlan, [Next]_vars PROVE OnPlan'
  OBVIOUS
<1> USE DEF program, values, engine, history
<1> DEFINE W == Wanted(rules, inValue)
<1>1. Tried \in Seq(Action) /\ acts \in Seq(Action) /\ rules \in Seq(Rule) /\ W \in Seq(Action)
  BY TriedFacts, WantedType DEF TypeOK
<1>2. \A s \in Seq(Action): <<>> \o s = s /\ s \o <<>> = s
  OBVIOUS
<1>3. ASSUME NEW b \in Broadcast, PublishedStep(b) PROVE OnPlan'
  BY <1>3, PlanAlone DEF PublishedStep, Publish
<1>4. CASE EventStep
  <2>1. /\ acts' = <<>> /\ pc' = "rules" /\ done' = <<>>
        /\ plan' = Wanted(rules', inValue')
    BY <1>4 DEF EventStep, RecvEvent, Receive, Plan, TypeOK
  <2>2. Tried' = <<>>
    BY <2>1 DEF Tried
  <2>3. plan' \in Seq(Action)
    BY DEF TypeOK
  <2>4. Tried' \o (acts' \o plan') = plan'
    BY <1>2, <2>1, <2>2, <2>3
  <2> QED BY <2>1, <2>4 DEF OnPlan
<1>5. CASE ActionStep \/ SkipStep
  <2>1. /\ pc = "rules" /\ pc' = "rules" /\ acts # <<>> /\ acts' = Tail(acts)
        /\ UNCHANGED <<plan, rules, inValue>>
    BY <1>5 DEF ActionStep, SkipStep, exec_action, SkipAction, SendCommand, Gone
  <2>2. PICK x: done' = Append(done, [action |-> Head(acts), sent |-> x])
    BY <1>5 DEF ActionStep, SkipStep, Gone
  <2>3. Head(acts) \in Action
    BY <1>1, <2>1, Removed
  <2>4. Tried' = Cat(Tried, <<Head(acts)>>)
    BY <2>2, <2>3, TriedAppended
  <2>5. plan = Cat(Tried, Cat(acts, W))
    BY <2>1 DEF OnPlan, Cat
  <2> HIDE DEF W
  <2>6. plan = Cat(Tried', Cat(acts', W))
    BY <1>1, <2>1, <2>4, <2>5, Moved
  <2> QED BY <2>1, <2>6 DEF OnPlan, Cat, W
<1>6. CASE RestartStep
  <2>1. Tried' = <<>> /\ plan' = <<>> /\ pc' = "recv"
    BY <1>6 DEF RestartStep, Restart, Tried
  <2> QED BY <2>1 DEF OnPlan
<1>7. CASE OtherStep /\ UNCHANGED history
  <2>1. CASE (\E c \in Command: SendInput(c)) \/ (\E c \in Client: Ask(c)) \/ Dispatch
    BY <1>7, <2>1, PlanAlone DEF SendInput, Ask, Dispatch
  <2>2. CASE Feedback \/ FeedbackLagged
    BY <1>7, <2>2, PlanAlone DEF Feedback, FeedbackLagged
  <2>3. CASE RecvUnexpected \/ RecvForward \/ RecvRequest
    <3>1. pc = "recv" /\ pc' \in {"recv", "forward"}
      BY <2>3 DEF RecvUnexpected, RecvForward, RecvRequest, Receive
    <3> QED BY <1>7, <3>1, PlanAlone
  <2>4. CASE Forward
    <3>1. pc = "forward" /\ pc' = "recv"
      BY <2>4 DEF Forward
    <3> QED BY <1>7, <3>1, PlanAlone
  <2>5. CASE NextRule
    <3>1. /\ pc = "rules" /\ pc' = "rules" /\ acts = <<>> /\ rules # <<>> /\ rules' = Tail(rules)
          /\ acts' = IF should_exec(Head(rules), inValue) THEN Head(rules).actions ELSE <<>>
          /\ UNCHANGED <<inValue, plan, done>>
      BY <1>7, <2>5 DEF NextRule
    <3>2. W = acts' \o Wanted(rules', inValue')
      BY <1>1, <3>1, WantedHead
    <3>3. plan = Tried \o W
      BY <1>1, <1>2, <3>1 DEF OnPlan
    <3>4. Tried' = Tried
      BY <3>1 DEF Tried
    <3> HIDE DEF W
    <3>5. plan' = Tried' \o (acts' \o Wanted(rules', inValue'))
      BY <3>1, <3>2, <3>3, <3>4
    <3> QED BY <3>1, <3>5 DEF OnPlan
  <2>6. CASE EventDone
    <3>1. /\ pc = "rules" /\ pc' = "recv" /\ acts = <<>> /\ rules = <<>>
          /\ UNCHANGED <<plan, done>>
      BY <1>7, <2>6 DEF EventDone
    <3>2. W = <<>>
      BY <3>1, WantedNone
    <3>3. plan = Tried \o (acts \o W)
      BY <3>1 DEF OnPlan
    <3>4. plan = Tried
      BY <1>1, <1>2, <3>1, <3>2, <3>3
    <3>5. Tried' = Tried
      BY <3>1 DEF Tried
    <3> QED BY <3>1, <3>4, <3>5 DEF OnPlan
  <2> QED BY <1>7, <2>1, <2>2, <2>3, <2>4, <2>5, <2>6 DEF OtherStep
<1>8. CASE UNCHANGED vars
  BY <1>8, PlanAlone DEF vars
<1> QED BY <1>3, <1>4, <1>5, <1>6, <1>7, <1>8 DEF Next

\* What has been heard of is not forgotten while the server runs.
LEMMA InTimeAlone ==
  ASSUME InTime, UNCHANGED <<known, done>>, Known(outValue) \subseteq Known(outValue)'
  PROVE  InTime'
<1>1. known' \subseteq Known(outValue)'
  BY DEF InTime
<1>2. \A n \in DOMAIN done': done'[n].action.id \in known' => done'[n].sent
  BY DEF InTime
<1>3. ASSUME NEW n \in DOMAIN done', done'[n].sent
      PROVE  /\ done'[n].action.id \in Known(outValue)'
             /\ \A k \in n..Len(done'): done'[k].action.id = done'[n].action.id => done'[k].sent
  BY <1>3 DEF InTime
<1> QED BY <1>1, <1>2, <1>3 DEF InTime

LEMMA InTimeKept == TypeOK /\ InTime /\ [Next]_vars => InTime'
<1> SUFFICES ASSUME TypeOK, InTime, [Next]_vars PROVE InTime'
  OBVIOUS
<1> USE DEF program, values, engine, history
<1>1. ASSUME UNCHANGED <<known, done, outValue>> PROVE InTime'
  <2>1. Known(outValue)' = Known(outValue)
    BY <1>1 DEF Known
  <2> QED BY <1>1, <2>1, InTimeAlone
<1>2. ASSUME NEW b \in Broadcast, PublishedStep(b) PROVE InTime'
  BY <1>1, <1>2 DEF PublishedStep, Publish
<1>3. CASE EventStep
  <2>1. known' = Known(outValue)' /\ DOMAIN done' = {}
    BY <1>3 DEF EventStep, RecvEvent, Receive, Known
  <2> QED BY <2>1 DEF InTime
<1>4. CASE ActionStep \/ SkipStep
  <2> DEFINE a == Head(acts)
  <2>1. PICK x \in BOOLEAN: /\ done' = Append(done, [action |-> a, sent |-> x])
                            /\ x <=> a.id \in Known(outValue)
    <3>1. CASE ActionStep
      BY <3>1 DEF ActionStep, exec_action, HasReference, Gone
    <3>2. CASE SkipStep
      BY <3>2 DEF SkipStep, SkipAction, HasReference, Gone
    <3> QED BY <1>4, <3>1, <3>2
  <2>2. UNCHANGED <<known, outValue>> /\ acts # <<>>
    BY <1>4 DEF ActionStep, SkipStep, exec_action, SendCommand, SkipAction, Gone
  <2>3. a \in Action
    BY <2>2, ActionTaken
  <2> DEFINE e == [action |-> a, sent |-> x]
             R == [action: Action, sent: BOOLEAN]
             m == Len(done)
  <2>4. done \in Seq(R) /\ e \in R /\ e.action = a /\ e.sent = x
    BY <2>1, <2>3 DEF TypeOK
  <2>5. done' = Append(done, e)
    BY <2>1
  <2>6. Known(outValue)' = Known(outValue)
    BY <2>2 DEF Known
  <2> HIDE DEF a, e, R
  <2>7. /\ m \in Nat /\ Len(done') = m + 1 /\ DOMAIN done = 1..m /\ DOMAIN done' = 1..m + 1
        /\ done'[m + 1] = e /\ \A n \in 1..m: done'[n] = done[n]
    BY <2>4, <2>5, Appended
  <2>8. x <=> a.id \in Known(outValue)
    BY <2>1
  <2> HIDE DEF m
  <2>9. ASSUME NEW n \in DOMAIN done', done'[n].action.id \in known' PROVE done'[n].sent
    <3>1. CASE n = m + 1
      <4>1. a.id \in Known(outValue)
        BY <2>2, <2>4, <2>7, <2>9, <3>1 DEF InTime
      <4>2. done'[n].sent = x
        BY <2>4, <2>7, <3>1
      <4> QED BY <2>8, <4>1, <4>2
    <3>2. CASE n # m + 1
      <4>1. n \in DOMAIN done /\ done'[n] = done[n]
        BY <2>7, <3>2
      <4> QED BY <2>2, <2>9, <4>1 DEF InTime
    <3> QED BY <3>1, <3>2
  <2>10. ASSUME NEW n \in DOMAIN done', done'[n].sent
         PROVE  done'[n].action.id \in Known(outValue)
    <3>1. CASE n = m + 1
      <4>1. done'[n].action = a /\ done'[n].sent = x
        BY <2>4, <2>7, <3>1
      <4> QED BY <2>8, <2>10, <4>1
    <3>2. CASE n # m + 1
      <4>1. n \in DOMAIN done /\ done'[n] = done[n]
        BY <2>7, <3>2
      <4> QED BY <2>10, <4>1 DEF InTime
    <3> QED BY <3>1, <3>2
  <2>11. ASSUME NEW n \in DOMAIN done', done'[n].sent,
                NEW k \in n..Len(done'), done'[k].action.id = done'[n].action.id
         PROVE  done'[k].sent
    <3>1. CASE k = m + 1
      <4>1. a.id \in Known(outValue) /\ done'[k].sent = x
        BY <2>4, <2>7, <2>10, <2>11, <3>1
      <4> QED BY <2>8, <4>1
    <3>2. CASE k # m + 1
      <4>1. n \in DOMAIN done /\ k \in n..Len(done) /\ k \in DOMAIN done
        BY <2>7, <3>2 DEF m
      <4>2. done'[n] = done[n] /\ done'[k] = done[k]
        BY <2>7, <4>1
      <4> QED BY <2>11, <4>1, <4>2 DEF InTime
    <3> QED BY <3>1, <3>2
  <2>12. known' \subseteq Known(outValue)'
    BY <2>2, <2>6 DEF InTime
  <2> QED BY <2>6, <2>9, <2>10, <2>11, <2>12 DEF InTime
<1>5. CASE RestartStep
  <2>1. known' = {} /\ DOMAIN done' = {}
    BY <1>5 DEF RestartStep
  <2> QED BY <2>1 DEF InTime
<1>6. CASE OtherStep /\ UNCHANGED history
  <2>1. CASE (\E c \in Command: SendInput(c)) \/ (\E c \in Client: Ask(c)) \/ Dispatch
    BY <1>1, <1>6, <2>1 DEF SendInput, Ask, Dispatch
  <2>2. CASE Feedback
    <3>1. /\ rxOutput \in Seq(Broadcast) /\ rxOutput # <<>>
          /\ outValue' = Heard(outValue, Head(rxOutput))
      BY <2>2 DEF Feedback, TypeOK
    <3>2. Head(rxOutput) \in Broadcast /\ outValue \in [Output -> Value]
      BY <3>1, Removed DEF TypeOK
    <3>3. Known(outValue) \subseteq Known(outValue')
      BY <3>1, <3>2, HeardFacts
    <3> QED BY <1>6, <3>3, InTimeAlone DEF Known
  <2>3. CASE FeedbackLagged
    BY <1>1, <1>6, <2>3 DEF FeedbackLagged
  <2>4. CASE RecvUnexpected \/ RecvForward \/ RecvRequest
    BY <1>1, <1>6, <2>4 DEF RecvUnexpected, RecvForward, RecvRequest, Receive
  <2>5. CASE Forward \/ NextRule \/ EventDone
    BY <1>1, <1>6, <2>5 DEF Forward, SendCommand, NextRule, EventDone
  <2> QED BY <1>6, <2>1, <2>2, <2>3, <2>4, <2>5 DEF OtherStep
<1>7. CASE UNCHANGED vars
  BY <1>1, <1>7 DEF vars
<1> QED BY <1>2, <1>3, <1>4, <1>5, <1>6, <1>7 DEF Next

\* Requests, plan and outputs' copies are in order in every state.
THEOREM Invariance == Spec => []IInv
<1>1. Init => IInv
  BY InitTyped, PromisedFirst, FollowsFirst, PlanFirst DEF IInv
<1>2. IInv /\ [Next]_vars => IInv'
  <2> SUFFICES ASSUME IInv, [Next]_vars PROVE IInv'
    OBVIOUS
  <2>1. TypeOK'
    BY NextTyped DEF IInv
  <2> QED BY <2>1, PromisedKept, FollowsKept, OnPlanKept, InTimeKept DEF IInv
<1> QED BY <1>1, <1>2, PTL DEF Spec

\* An event is served as if in one step: what is done for it is what the rules that
\* held when it came ask for, in their order, whatever is broadcast in the meantime.
THEOREM PlansCarriedOut == Spec => []EmitsPlan
<1>1. IInv => EmitsPlan
  <2> SUFFICES ASSUME IInv, pc = "recv"
               PROVE  /\ Len(done) = Len(plan)
                      /\ \A n \in DOMAIN plan:
                           /\ done[n].action = plan[n]
                           /\ plan[n].id \in known => done[n].sent
                           /\ done[n].sent =>
                                /\ plan[n].id \in Known(outValue)
                                /\ \A k \in n..Len(plan): plan[k].id = plan[n].id => done[k].sent
    BY DEF EmitsPlan
  <2>1. /\ plan = Tried /\ Len(Tried) = Len(done) /\ Len(done) \in Nat /\ DOMAIN done = 1..Len(done)
        /\ \A n \in 1..Len(done): Tried[n] = done[n].action
    BY TriedFacts DEF IInv, OnPlan
  <2>2. DOMAIN plan = 1..Len(done) /\ Len(plan) = Len(done) /\ \A n \in 1..Len(done): plan[n] = done[n].action
    BY <2>1 DEF Tried
  <2>3. ASSUME NEW n \in DOMAIN plan
        PROVE  /\ done[n].action = plan[n]
               /\ plan[n].id \in known => done[n].sent
    BY <2>1, <2>2 DEF IInv, InTime
  <2>4. ASSUME NEW n \in DOMAIN plan, done[n].sent
        PROVE  plan[n].id \in Known(outValue)
    BY <2>1, <2>2, <2>4 DEF IInv, InTime
  <2>5. ASSUME NEW n \in DOMAIN plan, done[n].sent,
               NEW k \in n..Len(plan), plan[k].id = plan[n].id
        PROVE  done[k].sent
    <3>1. n \in DOMAIN done /\ k \in n..Len(done) /\ k \in 1..Len(done)
      BY <2>1, <2>2
    <3>2. done[k].action.id = done[n].action.id
      BY <2>2, <2>5, <3>1
    <3> QED BY <2>5, <3>1, <3>2 DEF IInv, InTime
  <2> QED BY <2>2, <2>3, <2>4, <2>5
<1> QED BY <1>1, Invariance, PTL
=============================================================================
