--------------------------- MODULE StatisticsProofs ---------------------------
(***************************************************************************)
(* Theorems about Statistics, for any logs, ranges, limits and page sizes: *)
(* DashboardInv, StatusAgreesWithDashboard, RankInv and ListCountIsHonest  *)
(* are invariants.                                                         *)
(*                                                                         *)
(* The invariant itself is small: the logs have their types, and an        *)
(* operation's statements ran in their order, each over what had been      *)
(* logged until then (Ordered).  The rest is about the operators: a sum    *)
(* does not depend on the order in which it is taken (Takes, SumsAreOne),  *)
(* adding up by key is adding up (SumByKey), every log of the window has   *)
(* a point of the trend (PointsCover), and a rank lists each figure once   *)
(* (TopIsPart).                                                            *)
(***************************************************************************)
EXTENDS Statistics, FiniteSetTheorems, TLAPS

-----------------------------------------------------------------------------
(* Sums.  A fold takes the elements of a set in an order of its own; what  *)
(* it computes is the same in every order.                                 *)

\* it[s] is the sum of f over s, the elements taken as c chooses them.
Iterates(it, c, f, T) ==
  it = [s \in SUBSET T |-> IF s = {} THEN 0 ELSE it[s \ {c[s]}] + f[c[s]]]

Chooser(c, T) == \A s \in SUBSET T : s # {} => c[s] \in s

\* A family of subsets of a finite set has a member without a smaller one.
LEMMA Minimal ==
  ASSUME NEW S, IsFiniteSet(S), NEW B \in SUBSET (SUBSET S), B # {}
  PROVE  \E T \in B : \A U \in SUBSET T : U \in B => U = T
<1>1. IsWellFoundedOn(StrictSubsetOrdering(S), SUBSET S)
  BY FS_StrictSubsetOrderingWellFounded, FS_FiniteSubsetsOfFinite
<1>2. PICK T \in B : \A U \in B : <<U, T>> \notin StrictSubsetOrdering(S)
  BY <1>1, WFMin
<1> QED
  BY <1>2 DEF StrictSubsetOrdering

LEMMA IteratesAgree ==
  ASSUME NEW S, IsFiniteSet(S), NEW c, Chooser(c, S), NEW f,
         NEW T \in SUBSET S, NEW U \in SUBSET S, NEW a, NEW b,
         Iterates(a, c, f, T), Iterates(b, c, f, U)
  PROVE  \A s \in SUBSET (T \cap U) : a[s] = b[s]
<1> DEFINE B == {s \in SUBSET (T \cap U) : a[s] # b[s]}
<1> SUFFICES ASSUME B # {} PROVE FALSE
  OBVIOUS
<1>1. PICK s \in B : \A r \in SUBSET s : r \in B => r = s
  <2>1. B \in SUBSET (SUBSET S)
    OBVIOUS
  <2> HIDE DEF B
  <2> QED
    BY <2>1, Minimal
<1>2. s \in SUBSET T /\ s \in SUBSET U /\ s \in SUBSET S
  OBVIOUS
<1>3. /\ a[s] = IF s = {} THEN 0 ELSE a[s \ {c[s]}] + f[c[s]]
      /\ b[s] = IF s = {} THEN 0 ELSE b[s \ {c[s]}] + f[c[s]]
  BY <1>2 DEF Iterates
<1>4. s # {} => a[s \ {c[s]}] = b[s \ {c[s]}]
  <2> SUFFICES ASSUME s # {} PROVE a[s \ {c[s]}] = b[s \ {c[s]}]
    OBVIOUS
  <2>1. c[s] \in s
    BY <1>2 DEF Chooser
  <2>2. s \ {c[s]} \in SUBSET s /\ s \ {c[s]} # s /\ s \ {c[s]} \in SUBSET (T \cap U)
    BY <2>1
  <2> QED
    BY <1>1, <2>2
<1> QED
  BY <1>3, <1>4

LEMMA IterateExists ==
  ASSUME NEW S, IsFiniteSet(S), NEW c, Chooser(c, S), NEW f
  PROVE  \E it : Iterates(it, c, f, S)
<1> DEFINE B == {T \in SUBSET S : ~\E it : Iterates(it, c, f, T)}
<1> SUFFICES ASSUME B # {} PROVE FALSE
  OBVIOUS
<1>1. PICK T \in B : \A U \in SUBSET T : U \in B => U = T
  <2>1. B \in SUBSET (SUBSET S)
    OBVIOUS
  <2> HIDE DEF B
  <2> QED
    BY <2>1, Minimal
<1> DEFINE rec == [U \in SUBSET T |-> CHOOSE it : Iterates(it, c, f, U)]
           sum == [s \in SUBSET T |-> IF s = {} THEN 0
                                      ELSE rec[s \ {c[s]}][s \ {c[s]}] + f[c[s]]]
<1>2. ASSUME NEW U \in SUBSET T, U # T PROVE Iterates(rec[U], c, f, U)
  <2>1. \E it : Iterates(it, c, f, U)
    BY <1>1, <1>2
  <2> QED
    BY <2>1
<1> HIDE DEF rec
<1>3. ASSUME NEW s \in SUBSET T, s # {} PROVE sum[s \ {c[s]}] = rec[s \ {c[s]}][s \ {c[s]}]
  <2> DEFINE u == s \ {c[s]}
             v == u \ {c[u]}
  <2>1. c[s] \in s
    BY <1>3 DEF Chooser
  <2>2. u \in SUBSET T /\ u # T
    BY <2>1
  <2>3. sum[u] = IF u = {} THEN 0 ELSE rec[v][v] + f[c[u]]
    BY <2>2
  <2>4. Iterates(rec[u], c, f, u)
    BY <1>2, <2>2
  <2>5. rec[u][u] = IF u = {} THEN 0 ELSE rec[u][v] + f[c[u]]
    BY <2>4 DEF Iterates
  <2>6. u # {} => rec[u][v] = rec[v][v]
    <3> SUFFICES ASSUME u # {} PROVE rec[u][v] = rec[v][v]
      OBVIOUS
    <3>1. c[u] \in u
      BY <2>2 DEF Chooser
    <3>2. v \in SUBSET T /\ v # T /\ v \in SUBSET (u \cap v)
      BY <2>2, <3>1
    <3>3. Iterates(rec[v], c, f, v)
      BY <1>2, <3>2
    <3>4. u \in SUBSET S /\ v \in SUBSET S
      BY <2>2, <3>2
    <3> HIDE DEF u, v
    <3>5. \A r \in SUBSET (u \cap v) : rec[u][r] = rec[v][r]
      BY <2>4, <3>3, <3>4, IteratesAgree
    <3> QED
      BY <3>2, <3>5
  <2> HIDE DEF u, v, sum
  <2>7. sum[u] = rec[u][u]
    BY <2>3, <2>5, <2>6
  <2> QED
    BY <2>7 DEF u
<1>4. sum = [s \in SUBSET T |-> IF s = {} THEN 0 ELSE sum[s \ {c[s]}] + f[c[s]]]
  <2> DEFINE body(s) == IF s = {} THEN 0 ELSE sum[s \ {c[s]}] + f[c[s]]
             body0(s) == IF s = {} THEN 0 ELSE rec[s \ {c[s]}][s \ {c[s]}] + f[c[s]]
  <2>1. ASSUME NEW s \in SUBSET T PROVE body(s) = body0(s)
    <3> HIDE DEF sum
    <3> QED
      BY <1>3
  <2>2. sum = [s \in SUBSET T |-> body0(s)]
    OBVIOUS
  <2> HIDE DEF sum, body, body0
  <2>3. sum = [s \in SUBSET T |-> body(s)]
    BY <2>1, <2>2
  <2> QED
    BY <2>3 DEF body
<1> HIDE DEF sum
<1>5. Iterates(sum, c, f, T)
  BY <1>4 DEF Iterates
<1> QED
  BY <1>1, <1>5

\* Any element may be taken first.
LEMMA Takes ==
  ASSUME NEW S, IsFiniteSet(S), NEW c, Chooser(c, S), NEW f, \A x \in S : f[x] \in Int,
         NEW it, Iterates(it, c, f, S)
  PROVE  /\ it[{}] = 0
         /\ \A s \in SUBSET S : it[s] \in Int
         /\ \A s \in SUBSET S : \A x \in s : it[s] = it[s \ {x}] + f[x]
<1>1. it[{}] = 0
  BY DEF Iterates
<1>2. ASSUME NEW s \in SUBSET S, s # {}
      PROVE  c[s] \in s /\ c[s] \in S /\ it[s] = it[s \ {c[s]}] + f[c[s]]
  BY <1>2 DEF Iterates, Chooser
<1>3. \A s \in SUBSET S : it[s] \in Int
  <2> DEFINE B == {s \in SUBSET S : it[s] \notin Int}
  <2> SUFFICES ASSUME B # {} PROVE FALSE
    OBVIOUS
  <2>1. PICK s \in B : \A r \in SUBSET s : r \in B => r = s
    <3>1. B \in SUBSET (SUBSET S)
      OBVIOUS
    <3> HIDE DEF B
    <3> QED
      BY <3>1, Minimal
  <2>2. s # {}
    BY <1>1
  <2>3. /\ c[s] \in s /\ f[c[s]] \in Int /\ it[s] = it[s \ {c[s]}] + f[c[s]]
    BY <1>2, <2>2
  <2>4. s \ {c[s]} \in SUBSET s /\ s \ {c[s]} # s /\ s \ {c[s]} \in SUBSET S
    BY <2>3
  <2>5. it[s \ {c[s]}] \in Int
    BY <2>1, <2>4
  <2> QED
    BY <2>3, <2>5
<1>4. \A s \in SUBSET S : \A x \in s : it[s] = it[s \ {x}] + f[x]
  <2> DEFINE B == {s \in SUBSET S : \E x \in s : it[s] # it[s \ {x}] + f[x]}
  <2> SUFFICES ASSUME B # {} PROVE FALSE
    OBVIOUS
  <2>1. PICK s \in B : \A r \in SUBSET s : r \in B => r = s
    <3>1. B \in SUBSET (SUBSET S)
      OBVIOUS
    <3> HIDE DEF B
    <3> QED
      BY <3>1, Minimal
  <2>2. PICK x \in s : it[s] # it[s \ {x}] + f[x]
    OBVIOUS
  <2> DEFINE y == c[s]
             w == (s \ {y}) \ {x}
  <2>3. y \in s /\ it[s] = it[s \ {y}] + f[y] /\ y # x
    BY <1>2, <2>2
  <2>4. /\ s \in SUBSET S
        /\ s \ {y} \in SUBSET s /\ s \ {y} # s /\ s \ {y} \in SUBSET S /\ x \in s \ {y}
        /\ s \ {x} \in SUBSET s /\ s \ {x} # s /\ s \ {x} \in SUBSET S /\ y \in s \ {x}
        /\ w = (s \ {x}) \ {y} /\ w \in SUBSET S
    BY <2>3
  <2> HIDE DEF y, w
  <2>5. it[s \ {y}] = it[w] + f[x]
    BY <2>1, <2>4 DEF w
  <2>6. it[s \ {x}] = it[w] + f[y]
    BY <2>1, <2>4
  <2>7. f[x] \in Int /\ f[y] \in Int /\ it[w] \in Int
    BY <1>3, <2>3, <2>4
  <2> HIDE DEF B
  <2>8. it[s] = it[s \ {x}] + f[x]
    BY <2>3, <2>5, <2>6, <2>7
  <2> QED
    BY <2>2, <2>8
<1> QED
  BY <1>1, <1>3, <1>4

LEMMA SumsAreOne ==
  ASSUME NEW S, IsFiniteSet(S), NEW T, IsFiniteSet(T), NEW c, Chooser(c, S), NEW d, Chooser(d, T),
         NEW f, \A x \in S : f[x] \in Int, NEW g, \A x \in T : g[x] \in Int,
         NEW a, Iterates(a, c, f, S), NEW b, Iterates(b, d, g, T),
         NEW U \in SUBSET (S \cap T), \A x \in U : f[x] = g[x]
  PROVE  a[U] = b[U]
<1> DEFINE B == {s \in SUBSET U : a[s] # b[s]}
<1> SUFFICES ASSUME B # {} PROVE FALSE
  OBVIOUS
<1>1. PICK s \in B : \A r \in SUBSET s : r \in B => r = s
  <2>1. B \in SUBSET (SUBSET S)
    OBVIOUS
  <2> HIDE DEF B
  <2> QED
    BY <2>1, Minimal
<1>2. /\ a[{}] = 0 /\ b[{}] = 0
      /\ \A r \in SUBSET S : \A x \in r : a[r] = a[r \ {x}] + f[x]
      /\ \A r \in SUBSET T : \A x \in r : b[r] = b[r \ {x}] + g[x]
  BY Takes
<1>3. PICK x \in s : TRUE
  BY <1>2
<1>4. s \ {x} \in SUBSET s /\ s \ {x} # s /\ s \ {x} \in SUBSET U
  BY <1>3
<1>5. a[s \ {x}] = b[s \ {x}]
  BY <1>1, <1>4
<1>6. s \in SUBSET S /\ s \in SUBSET T /\ f[x] = g[x]
  BY <1>3
<1>7. a[s] = a[s \ {x}] + f[x] /\ b[s] = b[s \ {x}] + g[x]
  BY <1>2, <1>3, <1>6
<1> QED
  BY <1>5, <1>6, <1>7

AnyOf(S) == [s \in SUBSET S |-> CHOOSE x \in s : TRUE]

LEMMA AnyOfChooses == ASSUME NEW S PROVE Chooser(AnyOf(S), S)
BY DEF Chooser, AnyOf

\* SumOf is such a sum.
LEMMA SumIterates ==
  ASSUME NEW S, IsFiniteSet(S), NEW f
  PROVE  \E it : Iterates(it, AnyOf(S), f, S) /\ SumOf(S, f) = it[S]
<1> DEFINE pick(s) == CHOOSE x \in s : TRUE
           body(it) == [s \in SUBSET S |-> IF s = {} THEN 0 ELSE it[s \ {pick(s)}] + f[pick(s)]]
           sum == CHOOSE it : it = body(it)
<1>1. SumOf(S, f) = sum[S]
  BY DEF SumOf, FoldSet, MapThenFoldSet
<1>2. ASSUME NEW it
      PROVE  body(it) = [s \in SUBSET S |-> IF s = {} THEN 0 ELSE it[s \ {AnyOf(S)[s]}] + f[AnyOf(S)[s]]]
  <2>1. \A s \in SUBSET S : AnyOf(S)[s] = pick(s)
    BY DEF AnyOf
  <2> HIDE DEF pick
  <2> QED
    BY <2>1
<1>3. PICK it : Iterates(it, AnyOf(S), f, S)
  BY AnyOfChooses, IterateExists
<1> HIDE DEF body
<1>4. it = body(it)
  BY <1>2, <1>3 DEF Iterates
<1>5. sum = body(sum)
  BY <1>4
<1> HIDE DEF sum
<1>6. Iterates(sum, AnyOf(S), f, S)
  BY <1>2, <1>5 DEF Iterates
<1> QED
  BY <1>1, <1>6

LEMMA SumEmpty == ASSUME NEW f PROVE SumOf({}, f) = 0
<1>1. IsFiniteSet({})
  BY FS_EmptySet
<1>2. PICK it : Iterates(it, AnyOf({}), f, {}) /\ SumOf({}, f) = it[{}]
  BY <1>1, SumIterates
<1> QED
  BY <1>2 DEF Iterates

\* The elements' values are all that counts.
LEMMA SumSame ==
  ASSUME NEW S, IsFiniteSet(S), NEW f, NEW g, \A x \in S : f[x] \in Int /\ f[x] = g[x]
  PROVE  SumOf(S, f) = SumOf(S, g)
<1>1. PICK a : Iterates(a, AnyOf(S), f, S) /\ SumOf(S, f) = a[S]
  BY SumIterates
<1>2. PICK b : Iterates(b, AnyOf(S), g, S) /\ SumOf(S, g) = b[S]
  BY SumIterates
<1>3. S \in SUBSET (S \cap S) /\ (\A x \in S : g[x] \in Int)
  OBVIOUS
<1>4. Chooser(AnyOf(S), S)
  BY AnyOfChooses
<1>5. a[S] = b[S]
  BY <1>1, <1>2, <1>3, <1>4, SumsAreOne
<1> QED
  BY <1>1, <1>2, <1>5

LEMMA SumTakes ==
  ASSUME NEW S, IsFiniteSet(S), NEW f, \A x \in S : f[x] \in Int
  PROVE  /\ SumOf(S, f) \in Int
         /\ \A x \in S : SumOf(S, f) = SumOf(S \ {x}, f) + f[x]
<1>1. PICK a : Iterates(a, AnyOf(S), f, S) /\ SumOf(S, f) = a[S]
  BY SumIterates
<1>2. /\ \A s \in SUBSET S : a[s] \in Int
      /\ \A s \in SUBSET S : \A x \in s : a[s] = a[s \ {x}] + f[x]
  BY <1>1, AnyOfChooses, Takes
<1>3. ASSUME NEW x \in S PROVE SumOf(S \ {x}, f) = a[S \ {x}]
  <2> DEFINE U == S \ {x}
  <2>1. IsFiniteSet(U)
    BY FS_RemoveElement
  <2>2. PICK b : Iterates(b, AnyOf(U), f, U) /\ SumOf(U, f) = b[U]
    BY <2>1, SumIterates
  <2>3. U \in SUBSET (S \cap U) /\ \A y \in U : f[y] \in Int
    OBVIOUS
  <2>4. Chooser(AnyOf(S), S) /\ Chooser(AnyOf(U), U)
    BY AnyOfChooses
  <2> HIDE DEF U
  <2>5. a[U] = b[U]
    BY <1>1, <2>1, <2>2, <2>3, <2>4, SumsAreOne
  <2> QED
    BY <2>2, <2>5 DEF U
<1>4. S \in SUBSET S
  OBVIOUS
<1> QED
  BY <1>1, <1>2, <1>3, <1>4

\* A sum over a sequence, taken from its end, is the sum over its places.
LEMMA SumSeqIsSum ==
  ASSUME NEW n \in Nat, NEW s, DOMAIN s = 1..n, \A i \in 1..n : s[i] \in Int
  PROVE  SumSeq(s) = SumOf(1..n, s)
<1> DEFINE last == [u \in SUBSET (1..n) |-> Max(u)]
           body(it) == [u \in SUBSET (1..n) |-> IF u = {} THEN 0 ELSE it[u \ {Max(u)}] + s[Max(u)]]
           sum == CHOOSE it : it = body(it)
<1>1. SumSeq(s) = sum[1..n]
  BY DEF SumSeq, FoldLeft, MapThenFoldSet
<1>2. ASSUME NEW it
      PROVE  body(it) = [u \in SUBSET (1..n) |-> IF u = {} THEN 0 ELSE it[u \ {last[u]}] + s[last[u]]]
  OBVIOUS
<1>3. Chooser(last, 1..n)
  <2> SUFFICES ASSUME NEW u \in SUBSET (1..n), u # {} PROVE Max(u) \in u
    BY DEF Chooser
  <2> DEFINE B == {v \in SUBSET (1..n) : \E x \in u : v = {y \in u : x < y}}
  <2>0. B # {}
    <3>1. PICK x \in u : TRUE
      OBVIOUS
    <3>2. {y \in u : x < y} \in B
      OBVIOUS
    <3> QED
      BY <3>2
  <2>1. PICK v \in B : \A r \in SUBSET v : r \in B => r = v
    <3> DEFINE D == 1..n
    <3>1. B \in SUBSET (SUBSET D) /\ IsFiniteSet(D)
      BY FS_Interval
    <3> HIDE DEF B, D
    <3> QED
      BY <2>0, <3>1, Minimal
  <2>2. PICK x \in u : v = {y \in u : x < y}
    OBVIOUS
  <2>3. \A y \in u : x >= y
    <3> SUFFICES ASSUME NEW y \in u, x < y PROVE FALSE
      OBVIOUS
    <3> DEFINE r == {z \in u : y < z}
    <3>0. \A z \in u : z \in Int
      OBVIOUS
    <3>1. r \in SUBSET v /\ y \in v /\ y \notin r
      <4> HIDE DEF B
      <4>1. y \in v
        BY <2>2
      <4>2. ASSUME NEW z \in r PROVE z \in v
        <5>1. z \in u /\ y < z /\ x < z
          BY <3>0
        <5> QED
          BY <2>2, <5>1
      <4>3. y \notin r
        BY <3>0
      <4> QED
        BY <4>1, <4>2, <4>3
    <3>2. r \in B
      OBVIOUS
    <3> HIDE DEF r, B
    <3> QED
      BY <2>1, <3>1, <3>2
  <2> QED
    BY <2>3 DEF Max
<1> HIDE DEF last
<1>4. IsFiniteSet(1..n)
  BY FS_Interval
<1>5. PICK it : Iterates(it, last, s, 1..n)
  BY <1>3, <1>4, IterateExists
<1> HIDE DEF body
<1>6. it = body(it)
  BY <1>2, <1>5 DEF Iterates
<1>7. sum = body(sum)
  BY <1>6
<1> HIDE DEF sum
<1>8. Iterates(sum, last, s, 1..n)
  BY <1>2, <1>7 DEF Iterates
<1>9. PICK a : Iterates(a, AnyOf(1..n), s, 1..n) /\ SumOf(1..n, s) = a[1..n]
  BY <1>4, SumIterates
<1> DEFINE D == 1..n
<1>10. D \in SUBSET (D \cap D) /\ \A i \in D : s[i] \in Int
  OBVIOUS
<1>11. Chooser(AnyOf(D), D)
  BY AnyOfChooses
<1> HIDE DEF D
<1>12. sum[D] = a[D]
  BY <1>3, <1>4, <1>8, <1>9, <1>10, <1>11, SumsAreOne DEF D
<1> QED
  BY <1>1, <1>9, <1>12 DEF D

\* The sum of two sets without a common element.
LEMMA SumUnion ==
  ASSUME NEW S, IsFiniteSet(S), NEW T, IsFiniteSet(T), S \cap T = {},
         NEW f, \A x \in S \cup T : f[x] \in Int
  PROVE  SumOf(S \cup T, f) = SumOf(S, f) + SumOf(T, f)
<1> DEFINE B == {U \in SUBSET T : SumOf(S \cup U, f) # SumOf(S, f) + SumOf(U, f)}
<1> SUFFICES ASSUME B # {} PROVE FALSE
  OBVIOUS
<1>1. PICK U \in B : \A V \in SUBSET U : V \in B => V = U
  <2>1. B \in SUBSET (SUBSET T)
    OBVIOUS
  <2> HIDE DEF B
  <2> QED
    BY <2>1, Minimal
<1>2. SumOf(S, f) \in Int
  BY SumTakes
<1>3. U # {}
  BY <1>2, SumEmpty
<1>4. PICK x \in U : TRUE
  BY <1>3
<1> DEFINE V == U \ {x}
<1>5. V \in SUBSET U /\ V # U /\ V \in SUBSET T /\ U \in SUBSET T
  OBVIOUS
<1>6. SumOf(S \cup V, f) = SumOf(S, f) + SumOf(V, f)
  BY <1>1, <1>5
<1>7. IsFiniteSet(U) /\ IsFiniteSet(V)
  BY <1>5, FS_Subset
<1>8. IsFiniteSet(S \cup U)
  BY <1>7, FS_Union
<1>9. /\ \A y \in U : f[y] \in Int
      /\ \A y \in V : f[y] \in Int
      /\ \A y \in S \cup U : f[y] \in Int
  OBVIOUS
<1>10. /\ x \in S \cup U /\ (S \cup U) \ {x} = S \cup V
  BY <1>4
<1> HIDE DEF V
<1>11. SumOf(S \cup U, f) = SumOf(S \cup V, f) + f[x]
  <2>1. SumOf(S \cup U, f) = SumOf((S \cup U) \ {x}, f) + f[x]
    BY <1>8, <1>9, <1>10, SumTakes
  <2> QED
    BY <2>1, <1>10
<1>12. SumOf(U, f) = SumOf(V, f) + f[x]
  BY <1>7, <1>9, SumTakes DEF V
<1>13. SumOf(V, f) \in Int /\ f[x] \in Int
  BY <1>7, <1>9, SumTakes
<1> HIDE DEF B
<1>14. SumOf(S \cup U, f) = SumOf(S, f) + SumOf(U, f)
  BY <1>2, <1>6, <1>11, <1>12, <1>13
<1> QED
  BY <1>14 DEF B

LEMMA SumNatural ==
  ASSUME NEW S, IsFiniteSet(S), NEW f, \A x \in S : f[x] \in Nat
  PROVE  /\ SumOf(S, f) \in Nat
         /\ (\A x \in S : f[x] = 0) => SumOf(S, f) = 0
<1> DEFINE B == {U \in SUBSET S : ~(/\ SumOf(U, f) \in Nat
                                    /\ (\A x \in S : f[x] = 0) => SumOf(U, f) = 0)}
<1> SUFFICES ASSUME B # {} PROVE FALSE
  OBVIOUS
<1>1. PICK U \in B : \A V \in SUBSET U : V \in B => V = U
  <2>1. B \in SUBSET (SUBSET S)
    OBVIOUS
  <2> HIDE DEF B
  <2> QED
    BY <2>1, Minimal
<1>2. U # {}
  BY SumEmpty
<1>3. PICK x \in U : TRUE
  BY <1>2
<1> DEFINE V == U \ {x}
<1>4. V \in SUBSET U /\ V # U /\ V \in SUBSET S /\ U \in SUBSET S
  OBVIOUS
<1>5. /\ SumOf(V, f) \in Nat
      /\ (\A y \in S : f[y] = 0) => SumOf(V, f) = 0
  BY <1>1, <1>4
<1>6. IsFiniteSet(U)
  BY <1>4, FS_Subset
<1>7. \A y \in U : f[y] \in Int
  OBVIOUS
<1>8. SumOf(U, f) = SumOf(V, f) + f[x]
  BY <1>6, <1>7, SumTakes
<1>9. x \in S
  OBVIOUS
<1> HIDE DEF B, V
<1>10. /\ SumOf(U, f) \in Nat
       /\ (\A y \in S : f[y] = 0) => SumOf(U, f) = 0
  BY <1>5, <1>8, <1>9
<1> QED
  BY <1>10 DEF B

\* What a part of a set adds up to.
LEMMA SumOfPart ==
  ASSUME NEW S, IsFiniteSet(S), NEW T \in SUBSET S, NEW f, \A x \in S : f[x] \in Nat
  PROVE  /\ SumOf(T, f) \in Nat /\ SumOf(S, f) \in Nat /\ SumOf(T, f) <= SumOf(S, f)
         /\ (\A x \in S \ T : f[x] = 0) => SumOf(T, f) = SumOf(S, f)
<1> DEFINE U == S \ T
<1>1. IsFiniteSet(T) /\ IsFiniteSet(U)
  BY FS_Subset
<1>2. T \cap U = {} /\ T \cup U = S
  OBVIOUS
<1>3. /\ \A x \in T : f[x] \in Nat
      /\ \A x \in U : f[x] \in Nat
      /\ \A x \in T \cup U : f[x] \in Int
  OBVIOUS
<1> HIDE DEF U
<1>4. SumOf(T \cup U, f) = SumOf(T, f) + SumOf(U, f)
  BY <1>1, <1>2, <1>3, SumUnion
<1>5. SumOf(T, f) \in Nat
  BY <1>1, <1>3, SumNatural
<1>6. /\ SumOf(U, f) \in Nat
      /\ (\A x \in U : f[x] = 0) => SumOf(U, f) = 0
  BY <1>1, <1>3, SumNatural
<1>7. SumOf(S, f) = SumOf(T, f) + SumOf(U, f)
  BY <1>2, <1>4
<1> HIDE DEF U
<1>8. /\ SumOf(T, f) \in Nat /\ SumOf(S, f) \in Nat /\ SumOf(T, f) <= SumOf(S, f)
      /\ (\A x \in U : f[x] = 0) => SumOf(T, f) = SumOf(S, f)
  BY <1>5, <1>6, <1>7
<1> QED
  BY <1>8 DEF U

\* Counting is adding ones.
LEMMA SumOnes ==
  ASSUME NEW S, IsFiniteSet(S), NEW f, \A x \in S : f[x] = 1
  PROVE  SumOf(S, f) = Cardinality(S)
<1> DEFINE B == {U \in SUBSET S : SumOf(U, f) # Cardinality(U)}
<1> SUFFICES ASSUME B # {} PROVE FALSE
  OBVIOUS
<1>1. PICK U \in B : \A V \in SUBSET U : V \in B => V = U
  <2>1. B \in SUBSET (SUBSET S)
    OBVIOUS
  <2> HIDE DEF B
  <2> QED
    BY <2>1, Minimal
<1>2. U # {}
  BY SumEmpty, FS_EmptySet
<1>3. PICK x \in U : TRUE
  BY <1>2
<1> DEFINE V == U \ {x}
<1>4. V \in SUBSET U /\ V # U /\ V \in SUBSET S /\ U \in SUBSET S
  OBVIOUS
<1>5. SumOf(V, f) = Cardinality(V)
  BY <1>1, <1>4
<1>6. IsFiniteSet(U)
  BY <1>4, FS_Subset
<1>7. (\A y \in U : f[y] \in Int) /\ f[x] = 1
  OBVIOUS
<1>8. SumOf(U, f) = SumOf(V, f) + f[x]
  BY <1>6, <1>7, SumTakes
<1>9. Cardinality(V) = Cardinality(U) - 1 /\ Cardinality(U) \in Nat
  BY <1>6, FS_RemoveElement, FS_CardinalityType
<1> HIDE DEF B, V
<1>10. SumOf(U, f) = Cardinality(U)
  BY <1>5, <1>7, <1>8, <1>9
<1> QED
  BY <1>10 DEF B

\* Adding up by key is adding up.
ByKey(S, P, key, f) == [p \in P |-> SumOf({x \in S : key[x] = p}, f)]

LEMMA SumByKey ==
  ASSUME NEW S, IsFiniteSet(S), NEW P, IsFiniteSet(P), NEW key, \A x \in S : key[x] \in P,
         NEW f, \A x \in S : f[x] \in Int
  PROVE  /\ \A p \in P : ByKey(S, P, key, f)[p] \in Int
         /\ SumOf(P, ByKey(S, P, key, f)) = SumOf(S, f)
<1> DEFINE Of(U, p) == {x \in U : key[x] = p}
           F(U) == [p \in P |-> SumOf(Of(U, p), f)]
           B == {U \in SUBSET S : SumOf(P, F(U)) # SumOf(U, f)}
<1>1. ASSUME NEW U \in SUBSET S, NEW p
      PROVE  /\ IsFiniteSet(U) /\ IsFiniteSet(Of(U, p))
             /\ \A x \in Of(U, p) : f[x] \in Int
             /\ SumOf(Of(U, p), f) \in Int
  <2>1. IsFiniteSet(U)
    BY FS_Subset
  <2>2. Of(U, p) \in SUBSET S
    OBVIOUS
  <2>3. IsFiniteSet(Of(U, p))
    BY <2>2, FS_Subset
  <2>4. \A x \in Of(U, p) : f[x] \in Int
    OBVIOUS
  <2> HIDE DEF Of
  <2> QED
    BY <2>1, <2>3, <2>4, SumTakes
<1>2. B = {}
  <2> SUFFICES ASSUME B # {} PROVE FALSE
    OBVIOUS
  <2>1. PICK U \in B : \A V \in SUBSET U : V \in B => V = U
    <3>1. B \in SUBSET (SUBSET S)
      OBVIOUS
    <3> HIDE DEF B
    <3> QED
      BY <3>1, Minimal
  <2>2. U # {}
    <3> SUFFICES ASSUME U = {} PROVE FALSE
      OBVIOUS
    <3>1. \A p \in P : F(U)[p] = 0
      <4>1. \A p \in P : Of(U, p) = {}
        OBVIOUS
      <4> HIDE DEF Of
      <4> QED
        BY <4>1, SumEmpty
    <3>2. SumOf(U, f) = 0
      BY SumEmpty
    <3>3. SumOf(P, F(U)) # SumOf(U, f)
      OBVIOUS
    <3> HIDE DEF F, B
    <3>4. SumOf(P, F(U)) = 0
      BY <3>1, SumNatural
    <3> QED
      BY <3>2, <3>3, <3>4
  <2>3. PICK x \in U : TRUE
    BY <2>2
  <2> DEFINE V == U \ {x}
             k == key[x]
             Q == P \ {k}
  <2>4. V \in SUBSET U /\ V # U /\ V \in SUBSET S /\ U \in SUBSET S /\ k \in P /\ x \in S
    OBVIOUS
  <2>5. SumOf(P, F(V)) = SumOf(V, f)
    BY <2>1, <2>4
  <2>6. SumOf(U, f) = SumOf(V, f) + f[x] /\ SumOf(V, f) \in Int /\ f[x] \in Int
    <3>1. (\A y \in U : f[y] \in Int) /\ (\A y \in V : f[y] \in Int)
      OBVIOUS
    <3>2. IsFiniteSet(U) /\ IsFiniteSet(V)
      BY <1>1, <2>4
    <3> QED
      BY <2>4, <3>1, <3>2, SumTakes
  <2>7. ASSUME NEW p \in Q PROVE F(U)[p] = F(V)[p]
    <3>1. Of(U, p) = Of(V, p)
      OBVIOUS
    <3> HIDE DEF Of
    <3> QED
      BY <3>1
  <2>8. F(U)[k] = F(V)[k] + f[x]
    <3>1. Of(V, k) = Of(U, k) \ {x} /\ x \in Of(U, k)
      OBVIOUS
    <3>2. F(U)[k] = SumOf(Of(U, k), f) /\ F(V)[k] = SumOf(Of(V, k), f)
      BY <2>4
    <3> DEFINE A == Of(U, k)
    <3> HIDE DEF Of, F
    <3>3. IsFiniteSet(A) /\ \A y \in A : f[y] \in Int
      BY <1>1, <2>4
    <3> HIDE DEF A
    <3>4. \A y \in A : SumOf(A, f) = SumOf(A \ {y}, f) + f[y]
      BY <3>3, SumTakes
    <3> QED
      BY <3>1, <3>2, <3>4 DEF A
  <2>9. /\ \A p \in P : F(U)[p] \in Int
        /\ \A p \in P : F(V)[p] \in Int
    BY <1>1, <2>4
  <2>10. SumOf(P, F(U)) # SumOf(U, f)
    OBVIOUS
  <2>11. IsFiniteSet(Q)
    BY FS_RemoveElement
  <2> HIDE DEF F, B, V, k
  <2>12. /\ SumOf(P, F(U)) = SumOf(Q, F(U)) + F(U)[k]
         /\ SumOf(P, F(V)) = SumOf(Q, F(V)) + F(V)[k]
    BY <2>4, <2>9, SumTakes
  <2>13. SumOf(Q, F(U)) = SumOf(Q, F(V)) /\ SumOf(Q, F(V)) \in Int
    <3>1. \A p \in Q : F(U)[p] \in Int /\ F(U)[p] = F(V)[p] /\ F(V)[p] \in Int
      BY <2>7, <2>9
    <3> HIDE DEF Q
    <3> QED
      BY <2>11, <3>1, SumSame, SumTakes
  <2>14. F(V)[k] \in Int
    BY <2>4, <2>9
  <2> HIDE DEF Q
  <2> QED
    BY <2>5, <2>6, <2>8, <2>10, <2>12, <2>13, <2>14
<1>3. S \in SUBSET S
  OBVIOUS
<1>4. SumOf(P, F(S)) = SumOf(S, f)
  BY <1>2, <1>3
<1>5. ByKey(S, P, key, f) = F(S) /\ \A p \in P : F(S)[p] = SumOf(Of(S, p), f)
  BY DEF ByKey
<1> HIDE DEF F, Of
<1> QED
  BY <1>1, <1>3, <1>4, <1>5

\* The values of a set may be listed in any order.
LEMMA SumInOrder ==
  ASSUME NEW n \in Nat, NEW K, NEW o \in Bijection(1..n, K), NEW f, \A k \in K : f[k] \in Int
  PROVE  SumOf(1..n, [i \in 1..n |-> f[o[i]]]) = SumOf(K, f)
<1> DEFINE D == 1..n
           g == [i \in D |-> f[o[i]]]
           Of(k) == {i \in D : o[i] = k}
           h == ByKey(D, K, o, g)
<1>1. IsFiniteSet(D) /\ o \in [D -> K] /\ ExistsBijection(D, K)
  BY FS_Interval DEF Bijection, Injection, ExistsBijection
<1>2. IsFiniteSet(K)
  BY <1>1, FS_Bijection
<1>3. \A i \in D : o[i] \in K /\ g[i] \in Int /\ g[i] = f[o[i]]
  BY <1>1
<1>4. ASSUME NEW k \in K PROVE h[k] = f[k]
  <2>1. PICK j \in D : o[j] = k
    BY DEF Bijection, Surjection
  <2>2. Of(k) = {j}
    BY <2>1 DEF Bijection, Injection, IsInjective
  <2>3. IsFiniteSet({j}) /\ \A i \in {j} : g[i] \in Int
    BY <1>3, FS_Singleton
  <2>4. {j} \ {j} = {}
    OBVIOUS
  <2>5. h[k] = SumOf({j}, g)
    <3> HIDE DEF g
    <3> QED
      BY <2>2 DEF ByKey
  <2>6. g[j] = f[k] /\ f[k] \in Int
    BY <1>3, <2>1
  <2> HIDE DEF g, h
  <2>7. SumOf({j}, g) = SumOf({j} \ {j}, g) + g[j]
    BY <2>3, SumTakes
  <2>8. SumOf({j} \ {j}, g) = 0
    BY <2>4, SumEmpty
  <2> QED
    BY <2>5, <2>6, <2>7, <2>8
<1> HIDE DEF g, D
<1>5. SumOf(K, h) = SumOf(D, g)
  BY <1>1, <1>2, <1>3, SumByKey
<1> HIDE DEF h
<1>6. SumOf(K, f) = SumOf(K, h)
  BY <1>2, <1>4, SumSame
<1> QED
  BY <1>5, <1>6 DEF D, g

-----------------------------------------------------------------------------
(* The invariant.                                                          *)

LogRows == {LogOf(row, time) : row \in Rows, time \in Nat}

Columns == {"rows", "names", "total", "success", "firstByte", "tokens", "groups", "page", "count"}

Typed ==
  /\ now \in 0..MaxTime /\ at \in 0..now
  /\ logs \in Seq(LogRows) /\ Len(logs) <= MaxLogs
  /\ \A i \in 1..Len(logs) : logs[i].time <= now
  /\ op \in Dashboards \union Statuses \union Lists \union Deprecated \union {NoOp}
  /\ status \in {0, 200, 400, 500}
  /\ DOMAIN seen \subseteq Columns
  /\ \A s \in DOMAIN seen : seen[s] \in 0..Len(logs)

\* A later statement sees what an earlier one saw.
Ordered ==
  /\ Ran("success") => Ran("total") /\ seen["total"] <= seen["success"]
  /\ Ran("groups") => Ran("total") /\ seen["total"] <= seen["groups"]
  /\ Ran("count") => Ran("page") /\ seen["page"] <= seen["count"]

Idle == status # 0 => op = NoOp /\ DOMAIN seen = {}

IInv == Typed /\ Ordered /\ Idle

LEMMA LogFields ==
  ASSUME NEW log \in LogRows
  PROVE  /\ log.time \in Nat /\ log.ok \in BOOLEAN
         /\ {log.prompt, log.completion, log.total, log.firstByte} \subseteq Int \cup {Null}
<1>1. PICK row \in Rows, time \in Nat : log = LogOf(row, time)
  BY DEF LogRows
<1> QED
  BY <1>1, RowsAssumption DEF LogOf

LEMMA NoStatements == ASSUME op = NoOp PROVE Statements = {}
  BY Zenon DEF NoOp, Statements

LEMMA InvInit == Init => IInv
<1> SUFFICES ASSUME Init PROVE IInv
  OBVIOUS
<1>1. now = 0 /\ at = 0 /\ logs = <<>> /\ op = NoOp /\ seen = <<>> /\ status = 200
  BY DEF Init
<1>2. Typed
  BY <1>1, HourAssumption DEF Typed
<1>3. Ordered /\ Idle
  BY <1>1 DEF Ordered, Idle, Ran
<1> QED
  BY <1>2, <1>3 DEF IInv

LEMMA InvStep == ASSUME IInv, [Next]_vars PROVE IInv'
<1> USE DEF IInv
<1>1. CASE UNCHANGED vars
  BY <1>1 DEF vars, Typed, Ordered, Idle, Ran
<1>2. CASE CreateRequestLog
  <2>1. PICK row \in Rows, age \in 0..MaxAge :
          now - age >= 0 /\ logs' = Append(logs, LogOf(row, now - age))
    BY <1>2 DEF CreateRequestLog
  <2>2. UNCHANGED <<now, op, at, seen, status>> /\ Len(logs) < MaxLogs
    BY <1>2 DEF CreateRequestLog
  <2> DEFINE log == LogOf(row, now - age)
  <2>3. now \in Nat /\ age \in Nat /\ now - age \in Nat /\ now - age <= now
    BY <2>1, HourAssumption, LimitsAssumption DEF Typed
  <2>4. log \in LogRows /\ log.time <= now
    BY <2>3 DEF LogRows, LogOf
  <2> HIDE DEF log
  <2>5. logs \in Seq(LogRows) /\ logs' = Append(logs, log)
    BY <2>1 DEF Typed, log
  <2>6. /\ logs' \in Seq(LogRows) /\ Len(logs') = Len(logs) + 1
        /\ \A i \in 1..Len(logs') : logs'[i] = IF i = Len(logs) + 1 THEN log ELSE logs[i]
    BY <2>4, <2>5
  <2>7. /\ Len(logs) \in Nat /\ \A i \in 1..Len(logs) : logs[i].time <= now
        /\ MaxLogs \in Nat
    BY <2>5, HourAssumption DEF Typed
  <2>8. Len(logs') <= MaxLogs
    BY <2>2, <2>6, <2>7
  <2>9. \A i \in 1..Len(logs') : logs'[i].time <= now
    BY <2>4, <2>6, <2>7
  <2>10. \A s \in DOMAIN seen : seen[s] \in 0..Len(logs')
    BY <2>6, <2>7 DEF Typed
  <2>11. Typed'
    BY <2>2, <2>6, <2>8, <2>9, <2>10 DEF Typed
  <2> QED
    BY <2>2, <2>11 DEF Ordered, Idle, Ran
<1>3. CASE Tick
  <2>1. now' = now + 1 /\ now < MaxTime /\ UNCHANGED <<logs, op, at, seen, status>>
    BY <1>3 DEF Tick
  <2>2. \A i \in 1..Len(logs) : logs[i].time \in Nat
    BY LogFields DEF Typed
  <2>3. now \in Nat /\ MaxTime \in Nat /\ now' \in 0..MaxTime /\ at' \in 0..now'
    BY <2>1, HourAssumption DEF Typed
  <2>4. \A i \in 1..Len(logs') : logs'[i].time <= now'
    BY <2>1, <2>2, <2>3 DEF Typed
  <2>5. Typed'
    BY <2>1, <2>3, <2>4 DEF Typed
  <2> QED
    BY <2>1, <2>5 DEF Ordered, Idle, Ran
<1>4. CASE Refuse
  BY <1>4 DEF Refuse, Typed, Ordered, Idle, Ran
<1>5. ASSUME NEW o \in Dashboards \union Statuses \union Lists \union Deprecated, Begin(o)
      PROVE  IInv'
  BY <1>5, HourAssumption DEF Begin, Typed, Ordered, Idle, Ran
<1>6. ASSUME NEW s \in Statements, Execute(s) PROVE IInv'
  <2>1. s \in Columns /\ status = status' /\ UNCHANGED <<now, logs, op, at>>
    BY <1>6 DEF Statements, Columns, Execute
  <2>2. seen' = [x \in DOMAIN seen \cup {s} |-> IF x = s THEN Len(logs) ELSE seen[x]] /\ Ready(s)
    BY <1>6 DEF Execute
  <2>3. /\ DOMAIN seen' = DOMAIN seen \cup {s} /\ seen'[s] = Len(logs)
        /\ \A x \in DOMAIN seen : x # s => seen'[x] = seen[x]
        /\ s \notin DOMAIN seen
    BY <2>2 DEF Ready, Ran
  <2>4. Len(logs) \in Nat /\ \A x \in DOMAIN seen : seen[x] \in 0..Len(logs)
    BY DEF Typed
  <2>5. Typed'
    BY <2>1, <2>3, <2>4 DEF Typed
  <2>6. /\ s = "success" => Ran("total")
        /\ s = "groups" => Ran("total")
        /\ s = "count" => Ran("page")
    BY <2>2 DEF Ready
  <2>7. Ordered'
    BY <2>3, <2>4, <2>6 DEF Ordered, Ran
  <2>8. Idle'
    <3>1. op = NoOp => Statements = {}
      BY NoStatements
    <3>2. status = 0
      BY <3>1 DEF Idle
    <3> QED
      BY <2>1, <3>2 DEF Idle
  <2> QED
    BY <2>5, <2>7, <2>8
<1>7. ASSUME NEW code \in {200, 500}, End(code) PROVE IInv'
  BY <1>7 DEF End, Typed, Ordered, Idle, Ran
<1> QED
  BY <1>1, <1>2, <1>3, <1>4, <1>5, <1>6, <1>7
  DEF Next, GetDashboard, GetModelStatus, ListRequestLogs, CallDeprecated, StatementFails, Answer

LEMMA InvAlways == Spec => []IInv
<1>1. IInv /\ [Next]_vars => IInv'
  BY InvStep
<1> QED
  BY InvInit, <1>1, PTL DEF Spec

-----------------------------------------------------------------------------
(* The statements an answered operation has run.                           *)

LEMMA ListRan ==
  ASSUME Done("list")
  PROVE  Ran("page") /\ (Ran("count") \/ IsLastPage)
<1>1. op.name = "list" /\ \A s \in Statements : ~Ready(s)
  BY DEF Done, Finished
<1>2. Statements = {"page", "count"}
  BY <1>1, Zenon DEF Statements
<1>3. ~Ready("page") /\ ~Ready("count")
  BY <1>1, <1>2
<1>4. Ran("page")
  BY <1>2, <1>3, Zenon DEF Ready
<1> QED
  BY <1>2, <1>3, <1>4, Zenon DEF Ready

LEMMA RowsRan ==
  ASSUME Done("dashboard") \/ Done("status")
  PROVE  Ran("rows")
<1>1. op.name \in {"dashboard", "status"} /\ \A s \in Statements : ~Ready(s)
  BY DEF Done, Finished
<1>2. "rows" \in Statements
  BY <1>1, Zenon DEF Statements
<1>3. ~Ready("rows")
  BY <1>1, <1>2
<1> QED
  BY <1>2, <1>3, Zenon DEF Ready

LEMMA RanksRan ==
  ASSUME Done("callRank") \/ Done("usageRank")
  PROVE  Ran("total") /\ Ran("groups")
<1>1. op.name \in {"callRank", "usageRank"} /\ \A s \in Statements : ~Ready(s)
  BY DEF Done, Finished
<1>2. Statements = {"total", "groups"}
  BY <1>1, Zenon DEF Statements
<1>3. ~Ready("total") /\ ~Ready("groups")
  BY <1>1, <1>2
<1>4. Ran("total")
  BY <1>2, <1>3, Zenon DEF Ready
<1> QED
  BY <1>2, <1>3, <1>4, Zenon DEF Ready

-----------------------------------------------------------------------------
(* The request list.                                                       *)

LEMMA PartIsSmaller ==
  ASSUME NEW m \in Nat, NEW n \in Nat, m <= n,
         NEW S \in SUBSET (1..m), NEW T \in SUBSET (1..n), S \subseteq T
  PROVE  IsFiniteSet(S) /\ Count(S) \in Nat /\ Count(T) \in Nat /\ Count(S) <= Count(T)
<1>1. IsFiniteSet(1..n)
  BY FS_Interval
<1>2. IsFiniteSet(T)
  BY <1>1, FS_Subset
<1>3. IsFiniteSet(S) /\ Cardinality(S) <= Cardinality(T)
  BY <1>2, FS_Subset
<1> QED
  BY <1>2, <1>3, FS_CardinalityType DEF Count

LEMMA MatchingGrows ==
  ASSUME NEW m \in Nat, NEW n \in Nat, m <= n
  PROVE  /\ Count(Matching(m)) \in Nat /\ Count(Matching(n)) \in Nat
         /\ Count(Matching(m)) <= Count(Matching(n))
<1>1. Matching(m) \in SUBSET (1..m) /\ Matching(n) \in SUBSET (1..n)
  BY DEF Matching
<1>2. Matching(m) \subseteq Matching(n)
  BY DEF Matching
<1> QED
  BY <1>1, <1>2, PartIsSmaller

LEMMA ListOp ==
  ASSUME Typed, op.name = "list"
  PROVE  op \in Lists
<1>1. op \notin Dashboards /\ op \notin Statuses /\ op \notin Deprecated /\ op # NoOp
  BY DEF Dashboards, Statuses, Deprecated, NoOp
<1> QED
  BY <1>1 DEF Typed

LEMMA ListCount == ASSUME IInv PROVE ListCountIsHonest
<1> SUFFICES ASSUME Done("list")
             PROVE  /\ ListedCount >= Count(Matching(seen["page"]))
                    /\ ListedCount <= Count(Matching(Len(logs)))
  BY DEF ListCountIsHonest
<1>1. Ran("page") /\ (Ran("count") \/ IsLastPage)
  BY ListRan
<1>2. /\ seen["page"] \in Nat /\ Len(logs) \in Nat /\ seen["page"] <= Len(logs)
  BY <1>1 DEF IInv, Typed, Ran
<1> DEFINE listed == Count(Matching(seen["page"]))
           all    == Count(Matching(Len(logs)))
<1>3. listed \in Nat /\ all \in Nat /\ listed <= all
  BY <1>2, MatchingGrows
<1>4. CASE IsLastPage
  <2>1. Offset \in Int
    <3>1. op \in Lists
      BY ListOp DEF IInv, Done
    <3>2. op.page \in Int
      BY <3>1, LimitsAssumption DEF Lists
    <3> QED
      BY <3>2, LimitsAssumption DEF Offset
  <2> HIDE DEF listed, all
  <2>2. PageLength = IF listed - Offset < 0 THEN 0
                     ELSE IF listed - Offset > PageSize THEN PageSize ELSE listed - Offset
    BY DEF PageLength, listed
  <2>3. 0 < PageLength /\ PageLength < PageSize /\ PageSize \in Nat
    BY <1>4, LimitsAssumption DEF IsLastPage
  <2>4. PageLength + Offset = listed
    BY <1>3, <2>1, <2>2, <2>3
  <2>5. ListedCount = listed
    BY <1>4, <2>4 DEF ListedCount
  <2> QED
    BY <1>3, <2>5 DEF listed, all
<1>5. CASE ~IsLastPage
  <2>1. Ran("count") /\ ListedCount = Count(Matching(seen["count"]))
    BY <1>1, <1>5 DEF ListedCount
  <2>2. /\ seen["count"] \in Nat /\ seen["count"] <= Len(logs)
        /\ seen["page"] <= seen["count"]
    BY <2>1, <1>2 DEF IInv, Typed, Ran, Ordered
  <2>3. listed <= ListedCount /\ ListedCount \in Nat
    BY <1>2, <2>1, <2>2, MatchingGrows
  <2>4. ListedCount <= all
    BY <1>2, <2>1, <2>2, MatchingGrows
  <2> QED
    BY <1>3, <2>3, <2>4
<1> QED
  BY <1>4, <1>5

\* The number a page of the request list states (FindByPage, which counts
\* only when the page does not show where the list ends) is the number of
\* matching logs at some moment between its two statements.
THEOREM ListCountWasTrue == Spec => []ListCountIsHonest
  BY InvAlways, ListCount, PTL

-----------------------------------------------------------------------------
(* The window and its points.                                              *)

LEMMA CeilIsNear ==
  ASSUME NEW t \in Nat
  PROVE  CeilToHour(t) \in Int /\ t <= CeilToHour(t) /\ CeilToHour(t) < t + Hour
<1> DEFINE q == t \div Hour
           r == t % Hour
<1>1. Hour \in Nat \ {0}
  BY HourAssumption
<1>2. q \in Int /\ r \in 0..(Hour - 1) /\ t = Hour * q + r
  BY <1>1
<1>3. (q + 1) * Hour = Hour * q + Hour
  BY <1>1, <1>2
<1>4. CeilToHour(t) = IF r = 0 THEN t ELSE (q + 1) * Hour
  BY DEF CeilToHour
<1> HIDE DEF q, r
<1>5. (q + 1) * Hour \in Int /\ Hour * q \in Int
  BY <1>1, <1>2
<1> QED
  BY <1>1, <1>2, <1>3, <1>4, <1>5

LEMMA RangeOf ==
  ASSUME Typed, op.name \in {"dashboard", "status"}
  PROVE  op.range \in Ranges /\ (op.name = "status" => op.model \in Models \union {NoModel})
<1>1. op \notin Lists /\ op \notin Deprecated /\ op # NoOp
  BY DEF Lists, Deprecated, NoOp
<1>2. op \in Dashboards \/ op \in Statuses
  BY <1>1 DEF Typed
<1> QED
  BY <1>2 DEF Dashboards, Statuses

LEMMA WindowBounds ==
  ASSUME IInv, NEW range \in Ranges
  PROVE  /\ range.granularity \in Nat \ {0} /\ range.points \in Nat \ {0}
         /\ range.granularity * range.points \in Nat
         /\ WindowEnd \in Int /\ WindowStart(range) \in Int
         /\ WindowStart(range) = WindowEnd - range.granularity * range.points
         /\ at \in Nat /\ at <= WindowEnd /\ WindowEnd < at + Hour
<1>1. PICK k \in 1..24 : range.granularity = Hour * k
  BY RangesAssumption
<1>2. Hour * k \in Nat \ {0} /\ range.points \in Nat \ {0}
  BY HourAssumption, RangesAssumption
<1>3. range.granularity * range.points \in Nat
  BY <1>1, <1>2
<1>4. at \in Nat
  BY HourAssumption DEF IInv, Typed
<1>5. WindowEnd \in Int /\ at <= WindowEnd /\ WindowEnd < at + Hour
  BY <1>4, CeilIsNear DEF WindowEnd
<1> QED
  BY <1>1, <1>2, <1>3, <1>4, <1>5 DEF WindowStart

LEMMA Logged ==
  ASSUME IInv, NEW i \in 1..Len(logs)
  PROVE  /\ logs[i] \in LogRows /\ logs[i].time \in Nat /\ logs[i].ok \in BOOLEAN
         /\ {logs[i].prompt, logs[i].completion, logs[i].total, logs[i].firstByte}
              \subseteq Int \cup {Null}
  BY LogFields DEF IInv, Typed

LEMMA SeenLogs ==
  ASSUME IInv, NEW s, Ran(s)
  PROVE  seen[s] \in Nat /\ seen[s] <= Len(logs) /\ Len(logs) \in Nat /\ DOMAIN logs = 1..Len(logs)
  BY DEF IInv, Typed, Ran

LEMMA DashboardCurrent == ASSUME IInv PROVE DashboardIsCurrent
<1> DEFINE span == op.range.granularity * op.range.points
<1> SUFFICES ASSUME Done("dashboard"), NEW i \in 1..seen["rows"],
                    logs[i].time < at, logs[i].time >= at - span + Hour
             PROVE  i \in Window(seen["rows"], op.range)
  BY DEF DashboardIsCurrent
<1>1. op.range \in Ranges
  BY RangeOf DEF Done, IInv
<1>2. /\ span \in Nat /\ WindowEnd \in Int /\ at \in Nat /\ at <= WindowEnd
      /\ WindowEnd < at + Hour /\ WindowStart(op.range) = WindowEnd - span
  BY <1>1, WindowBounds
<1>3. logs[i].time \in Nat
  BY RowsRan, SeenLogs, Logged
<1> HIDE DEF span
<1>4. logs[i].time >= WindowEnd - span /\ logs[i].time < WindowEnd
  BY <1>2, <1>3, HourAssumption
<1> QED
  BY <1>2, <1>4 DEF Window

LEMMA Multiples ==
  ASSUME NEW g \in Nat \ {0}, NEW p \in Int, NEW q \in Int
  PROVE  /\ g * q \in Int
         /\ q < 0 => g * q <= -g
         /\ q >= p => g * q >= g * p
<1>1. ASSUME NEW a \in Nat PROVE g * a \in Nat
  BY <1>1
<1>2. g * q \in Int /\ g * p \in Int
  OBVIOUS
<1>3. ASSUME q < 0 PROVE g * q <= -g
  <2>1. -q - 1 \in Nat /\ g * (-q - 1) \in Nat
    BY <1>1, <1>3
  <2>2. g * (-q - 1) = -(g * q) - g
    OBVIOUS
  <2> QED
    BY <1>2, <2>1, <2>2
<1>4. ASSUME q >= p PROVE g * q >= g * p
  <2>1. q - p \in Nat /\ g * (q - p) \in Nat
    BY <1>1, <1>4
  <2>2. g * (q - p) = g * q - g * p
    OBVIOUS
  <2> QED
    BY <1>2, <2>1, <2>2
<1> QED
  BY <1>2, <1>3, <1>4

LEMMA Quotient ==
  ASSUME NEW g \in Nat \ {0}, NEW p \in Int, NEW d \in Nat, d < g * p
  PROVE  d \div g \in 0..(p - 1)
<1> DEFINE q == d \div g
           r == d % g
           m == g * q
           n == g * p
<1>1. q \in Int /\ r \in 0..(g - 1) /\ d = g * q + r
  OBVIOUS
<1>2. g * q \in Int /\ g * p \in Int /\ (q < 0 => g * q <= -g) /\ (q >= p => g * q >= g * p)
  BY <1>1, Multiples
<1>3. m \in Int /\ n \in Int /\ (q < 0 => m <= -g) /\ (q >= p => m >= n) /\ d = m + r /\ d < n
  BY <1>1, <1>2
<1>4. q \in Int /\ r \in 0..(g - 1)
  BY <1>1
<1> HIDE DEF q, r, m, n
<1>5. q >= 0 /\ q <= p - 1
  BY <1>3, <1>4
<1> QED
  BY <1>4, <1>5 DEF q

\* Every log of the window has a point of the trend.
LEMMA PointsCover ==
  ASSUME IInv, NEW n \in 0..Len(logs), NEW range \in Ranges, NEW i \in Window(n, range)
  PROVE  Point(i, range) \in 0..(range.points - 1)
<1> DEFINE g == range.granularity
           p == range.points
           d == logs[i].time - WindowStart(range)
<1>1. g \in Nat \ {0} /\ p \in Nat \ {0} /\ WindowStart(range) = WindowEnd - g * p
      /\ WindowEnd \in Int /\ g * p \in Nat
  BY WindowBounds
<1>2. i \in 1..n /\ logs[i].time >= WindowStart(range) /\ logs[i].time < WindowEnd
  BY DEF Window
<1>3. logs[i].time \in Nat
  BY <1>2, Logged
<1>4. d \in Nat /\ d < g * p
  BY <1>1, <1>2, <1>3
<1>5. Point(i, range) = d \div g
  BY DEF Point
<1> HIDE DEF g, p, d
<1>6. p \in Int
  BY <1>1
<1>7. d \div g \in 0..(p - 1)
  BY <1>1, <1>4, <1>6, Quotient, Zenon
<1> QED
  BY <1>5, <1>7 DEF p

-----------------------------------------------------------------------------
(* Ranks.                                                                  *)

LEMMA SmallestExists ==
  ASSUME NEW S, IsFiniteSet(S), S # {}, NEW f, \A x \in S : f[x] \in Int
  PROVE  \E x \in S : \A y \in S : f[x] <= f[y]
<1> DEFINE B == {U \in SUBSET S : U # {} /\ ~\E x \in U : \A y \in U : f[x] <= f[y]}
<1> SUFFICES ASSUME B # {} PROVE FALSE
  OBVIOUS
<1>1. PICK U \in B : \A V \in SUBSET U : V \in B => V = U
  <2>1. B \in SUBSET (SUBSET S)
    OBVIOUS
  <2> HIDE DEF B
  <2> QED
    BY <2>1, Minimal
<1>2. PICK x \in U : TRUE
  OBVIOUS
<1>3. CASE U = {x}
  BY <1>3
<1>4. CASE U # {x}
  <2> DEFINE V == U \ {x}
  <2>1. V \in SUBSET U /\ V # U /\ V # {} /\ V \in SUBSET S
    BY <1>2, <1>4
  <2>2. V \notin B
    BY <1>1, <2>1
  <2>3. PICK y \in V : \A z \in V : f[y] <= f[z]
    BY <2>1, <2>2
  <2>4. \A z \in U : z = x \/ z \in V
    OBVIOUS
  <2>5. CASE f[x] <= f[y]
    BY <1>2, <2>3, <2>4, <2>5
  <2>6. CASE ~(f[x] <= f[y])
    BY <1>2, <2>1, <2>3, <2>4, <2>6
  <2> QED
    BY <2>5, <2>6
<1> QED
  BY <1>3, <1>4

\* The figures of K, largest first.
Ranks(o, n, K, f) ==
  o \in Bijection(1..n, K) /\ \A i, j \in 1..n : i < j => f[o[i]] >= f[o[j]]

LEMMA RankingExists ==
  ASSUME NEW K, IsFiniteSet(K), NEW f, \A k \in K : f[k] \in Int
  PROVE  \E o : Ranks(o, Cardinality(K), K, f)
<1> DEFINE B == {T \in SUBSET K : ~\E o : Ranks(o, Cardinality(T), T, f)}
<1> SUFFICES ASSUME B # {} PROVE FALSE
  OBVIOUS
<1>1. PICK T \in B : \A V \in SUBSET T : V \in B => V = T
  <2>1. B \in SUBSET (SUBSET K)
    OBVIOUS
  <2> HIDE DEF B
  <2> QED
    BY <2>1, Minimal
<1>2. T \in SUBSET K /\ IsFiniteSet(T) /\ (\A k \in T : f[k] \in Int)
  BY FS_Subset
<1>3. CASE T = {}
  <2>1. Cardinality(T) = 0
    BY <1>3, FS_EmptySet
  <2>2. Ranks(<<>>, 0, T, f)
    BY <1>3 DEF Ranks, Bijection, Injection, Surjection, IsInjective
  <2> QED
    BY <2>1, <2>2
<1>4. CASE T # {}
  <2>1. PICK x \in T : \A y \in T : f[x] <= f[y]
    BY <1>2, <1>4, SmallestExists
  <2> DEFINE V == T \ {x}
             m == Cardinality(V)
  <2>2. V \in SUBSET T /\ V # T /\ V \in SUBSET K
    BY <1>2
  <2>3. V \notin B
    BY <1>1, <2>2
  <2>4. PICK o : Ranks(o, m, V, f)
    BY <2>2, <2>3
  <2>5. IsFiniteSet(V) /\ Cardinality(T) = m + 1 /\ m \in Nat
    <3>1. IsFiniteSet(V) /\ m = Cardinality(T) - 1
      BY <1>2, FS_RemoveElement
    <3>2. m \in Nat /\ Cardinality(T) \in Nat
      BY <1>2, <3>1, FS_CardinalityType
    <3> QED
      BY <3>1, <3>2
  <2> HIDE DEF m
  <2> DEFINE w == [i \in 1..(m + 1) |-> IF i = m + 1 THEN x ELSE o[i]]
  <2>6. /\ o \in [1..m -> V] /\ \A i, j \in 1..m : o[i] = o[j] => i = j
        /\ \A y \in V : \E i \in 1..m : o[i] = y
        /\ \A i, j \in 1..m : i < j => f[o[i]] >= f[o[j]]
    BY <2>4 DEF Ranks, Bijection, Injection, Surjection, IsInjective
  <2>7. /\ \A i \in 1..m : i \in 1..(m + 1) /\ i # m + 1 /\ w[i] = o[i] /\ w[i] \in V
        /\ w[m + 1] = x /\ m + 1 \in 1..(m + 1)
        /\ \A i \in 1..(m + 1) : i \in 1..m \/ i = m + 1
    BY <2>5, <2>6
  <2>8. w \in [1..(m + 1) -> T]
    BY <2>6, <2>7
  <2> HIDE DEF w
  <2>9. \A i, j \in 1..(m + 1) : w[i] = w[j] => i = j
    BY <2>6, <2>7
  <2>10. \A y \in T : \E i \in 1..(m + 1) : w[i] = y
    BY <2>6, <2>7
  <2>11. \A i, j \in 1..(m + 1) : i < j => f[w[i]] >= f[w[j]]
    <3> SUFFICES ASSUME NEW i \in 1..(m + 1), NEW j \in 1..(m + 1), i < j
                 PROVE  f[w[i]] >= f[w[j]]
      OBVIOUS
    <3>1. i \in 1..m
      BY <2>5
    <3>2. f[w[i]] \in Int /\ f[x] \in Int /\ f[w[i]] >= f[x]
      BY <1>2, <2>1, <2>7, <3>1
    <3> QED
      BY <2>6, <2>7, <3>1, <3>2
  <2>12. Ranks(w, m + 1, T, f)
    BY <2>8, <2>9, <2>10, <2>11 DEF Ranks, Bijection, Injection, Surjection, IsInjective
  <2> QED
    BY <2>5, <2>12
<1> QED
  BY <1>3, <1>4

LEMMA TopRanks ==
  ASSUME NEW K, IsFiniteSet(K), NEW F, DOMAIN F = K, \A k \in K : F[k] \in Int, NEW n \in Nat
  PROVE  \E o : /\ Ranks(o, Cardinality(K), K, F)
                /\ Top(F, n) = [k \in 1..(IF Cardinality(K) < n THEN Cardinality(K) ELSE n)
                                  |-> F[o[k]]]
<1> DEFINE all == Cardinality(K)
           o == CHOOSE w \in Bijection(1..all, K) :
                  \A i, j \in 1..all : i < j => F[w[i]] >= F[w[j]]
<1>1. Ranks(o, all, K, F)
  <2>1. PICK w : Ranks(w, all, K, F)
    BY RankingExists
  <2> HIDE DEF all
  <2>2. /\ w \in Bijection(1..all, K)
        /\ \A i, j \in 1..all : i < j => F[w[i]] >= F[w[j]]
    BY <2>1 DEF Ranks
  <2> QED
    BY <2>2 DEF Ranks
<1>2. Top(F, n) = [k \in 1..(IF all < n THEN all ELSE n) |-> F[o[k]]]
  BY DEF Top, Count
<1> QED
  BY <1>1, <1>2

\* A rank lists each figure once: it adds up to a part of their sum, and to
\* all of it if it was not cut.
LEMMA TopIsPart ==
  ASSUME NEW K, IsFiniteSet(K), NEW F, DOMAIN F = K, \A k \in K : F[k] \in Int, NEW n \in Nat
  PROVE  /\ Cardinality(K) <= n => SumSeq(Top(F, n)) = SumOf(K, F)
         /\ (\A k \in K : F[k] \in Nat)
              => SumSeq(Top(F, n)) \in Nat /\ SumSeq(Top(F, n)) <= SumOf(K, F)
<1> DEFINE all == Cardinality(K)
           len == IF all < n THEN all ELSE n
<1>1. PICK o : Ranks(o, all, K, F) /\ Top(F, n) = [k \in 1..len |-> F[o[k]]]
  BY TopRanks
<1>2. all \in Nat
  BY FS_CardinalityType
<1> HIDE DEF all
<1>3. len \in Nat /\ len <= all /\ (all <= n => len = all) /\ 1..len \subseteq 1..all
  BY <1>2
<1> HIDE DEF len
<1>4. o \in Bijection(1..all, K) /\ o \in [1..all -> K]
  BY <1>1 DEF Ranks, Bijection, Injection
<1> DEFINE part  == [k \in 1..len |-> F[o[k]]]
           whole == [k \in 1..all |-> F[o[k]]]
<1>5. /\ \A k \in 1..all : whole[k] \in Int /\ whole[k] = F[o[k]] /\ o[k] \in K
      /\ \A k \in 1..len : part[k] \in Int /\ part[k] = whole[k]
      /\ DOMAIN part = 1..len
  BY <1>3, <1>4
<1>6. SumOf(1..all, whole) = SumOf(K, F)
  BY <1>2, <1>4, SumInOrder
<1>7. Top(F, n) = part
  BY <1>1
<1> HIDE DEF part, whole
<1>8. IsFiniteSet(1..len) /\ IsFiniteSet(1..all)
  BY <1>2, <1>3, FS_Interval
<1>9. SumSeq(part) = SumOf(1..len, part)
  BY <1>3, <1>5, SumSeqIsSum
<1>10. SumOf(1..len, part) = SumOf(1..len, whole)
  BY <1>5, <1>8, SumSame
<1>11. ASSUME \A k \in K : F[k] \in Nat
       PROVE  SumOf(1..len, whole) \in Nat /\ SumOf(1..len, whole) <= SumOf(1..all, whole)
  <2>1. \A k \in 1..all : whole[k] \in Nat
    BY <1>5, <1>11
  <2> QED
    BY <1>3, <1>8, <2>1, SumOfPart
<1>12. all <= n => SumSeq(Top(F, n)) = SumOf(K, F)
  BY <1>3, <1>6, <1>7, <1>9, <1>10
<1>13. (\A k \in K : F[k] \in Nat)
          => SumSeq(Top(F, n)) \in Nat /\ SumSeq(Top(F, n)) <= SumOf(K, F)
  BY <1>6, <1>7, <1>9, <1>10, <1>11
<1> QED
  BY <1>12, <1>13 DEF all

Keys(S, key) == {key[x] : x \in S}

Having(S, key, v) == {x \in S : key[x] = v}

LEMMA KeysFinite ==
  ASSUME NEW S, IsFiniteSet(S), NEW key
  PROVE  /\ IsFiniteSet(Keys(S, key)) /\ Cardinality(Keys(S, key)) \in Nat
         /\ \A T \in SUBSET S : Cardinality(Keys(T, key)) <= Cardinality(Keys(S, key))
<1> DEFINE K == Keys(S, key)
           f == [x \in S |-> key[x]]
<1>1. f \in Surjection(S, K)
  BY DEF Surjection, Keys
<1> HIDE DEF f, K
<1>2. IsFiniteSet(K)
  BY <1>1, FS_Surjection
<1>3. Cardinality(K) \in Nat
  BY <1>2, FS_CardinalityType
<1>4. ASSUME NEW T \in SUBSET S PROVE Cardinality(Keys(T, key)) <= Cardinality(K)
  <2>1. Keys(T, key) \in SUBSET K
    BY DEF K, Keys
  <2> QED
    BY <1>2, <2>1, FS_Subset
<1> QED
  BY <1>2, <1>3, <1>4 DEF K

\* What the entries per key are, and what they add up to.
LEMMA PerKeyIs ==
  ASSUME NEW S, IsFiniteSet(S), NEW key, NEW f, \A x \in S : f[x] \in Int
  PROVE  /\ DOMAIN PerKey(S, key, f) = Keys(S, key)
         /\ \A k \in Keys(S, key) :
              /\ PerKey(S, key, f)[k] \in Int
              /\ PerKey(S, key, f)[k] = SumOf(Having(S, key, k), f)
         /\ SumOf(Keys(S, key), PerKey(S, key, f)) = SumOf(S, f)
<1> DEFINE K == Keys(S, key)
<1>1. PerKey(S, key, f) = ByKey(S, K, key, f)
  BY DEF PerKey, ByKey, Keys
<1>2. IsFiniteSet(K) /\ \A x \in S : key[x] \in K
  BY KeysFinite DEF Keys
<1> HIDE DEF K
<1>3. /\ \A k \in K : ByKey(S, K, key, f)[k] \in Int
      /\ SumOf(K, ByKey(S, K, key, f)) = SumOf(S, f)
  BY <1>2, SumByKey
<1>4. /\ DOMAIN ByKey(S, K, key, f) = K
      /\ \A k \in K : ByKey(S, K, key, f)[k] = SumOf(Having(S, key, k), f)
  BY DEF ByKey, Having
<1> QED
  BY <1>1, <1>3, <1>4 DEF K

\* Sums, and counts, of what has each value.
LEMMA SumPerValue ==
  ASSUME NEW S, IsFiniteSet(S), NEW P, IsFiniteSet(P), NEW key, \A x \in S : key[x] \in P,
         NEW f, \A x \in S : f[x] \in Int,
         NEW h, \A p \in P : h[p] = SumOf(Having(S, key, p), f)
  PROVE  SumOf(P, h) = SumOf(S, f)
<1> DEFINE b == ByKey(S, P, key, f)
<1>1. (\A p \in P : b[p] \in Int) /\ SumOf(P, b) = SumOf(S, f)
  BY SumByKey
<1>2. \A p \in P : b[p] = h[p]
  BY DEF ByKey, Having
<1> HIDE DEF b
<1>3. SumOf(P, b) = SumOf(P, h)
  BY <1>1, <1>2, SumSame
<1> QED
  BY <1>1, <1>3

Ones(S) == [x \in S |-> 1]

LEMMA CountPerValue ==
  ASSUME NEW S, IsFiniteSet(S), NEW P, IsFiniteSet(P), NEW key, \A x \in S : key[x] \in P,
         NEW h, \A p \in P : h[p] = Count(Having(S, key, p))
  PROVE  SumOf(P, h) = Count(S)
<1> DEFINE one == Ones(S)
<1>1. \A x \in S : one[x] = 1 /\ one[x] \in Int
  BY DEF Ones
<1> HIDE DEF one
<1>2. ASSUME NEW T \in SUBSET S PROVE SumOf(T, one) = Count(T)
  <2>1. IsFiniteSet(T)
    BY FS_Subset
  <2> QED
    BY <1>1, <2>1, SumOnes DEF Count
<1>3. \A p \in P : h[p] = SumOf(Having(S, key, p), one)
  <2>1. \A p \in P : Having(S, key, p) \in SUBSET S
    BY DEF Having
  <2> QED
    BY <1>2, <2>1
<1>4. SumOf(P, h) = SumOf(S, one)
  BY <1>1, <1>3, SumPerValue
<1> QED
  BY <1>2, <1>4

-----------------------------------------------------------------------------
(* The dashboard.                                                          *)

LEMMA TokensAre ==
  ASSUME IInv, NEW i \in 1..Len(logs)
  PROVE  /\ Tokens[i] \in Int
         /\ logs[i].total # Null => Tokens[i] = logs[i].total
         /\ ~HasUsage(i) => Tokens[i] = 0
<1> DEFINE prompt     == Value(logs[i].prompt)
           completion == Value(logs[i].completion)
<1>1. i \in DOMAIN logs
  BY DEF IInv, Typed
<1>2. Tokens[i] = IF logs[i].total # Null THEN logs[i].total
                  ELSE IF prompt > 0 \/ completion > 0 THEN prompt + completion
                  ELSE 0
  BY <1>1 DEF Tokens
<1>3. prompt \in Int /\ completion \in Int
  BY Logged DEF Value
<1>4. logs[i].total # Null => logs[i].total \in Int
  BY Logged
<1>5. ~HasUsage(i) => logs[i].total = Null /\ prompt = 0 /\ completion = 0
  BY DEF HasUsage, Value
<1> HIDE DEF prompt, completion
<1> QED
  BY <1>2, <1>3, <1>4, <1>5

LEMMA Selections ==
  ASSUME IInv, NEW n \in 0..Len(logs), NEW S \in SUBSET (1..n)
  PROVE  /\ S \subseteq 1..Len(logs) /\ S \subseteq DOMAIN logs /\ IsFiniteSet(S)
         /\ Count(S) \in Nat /\ Count(S) = Cardinality(S)
<1>1. Len(logs) \in Nat /\ DOMAIN logs = 1..Len(logs)
  BY DEF IInv, Typed
<1>2. IsFiniteSet(1..n) /\ 1..n \subseteq 1..Len(logs)
  BY <1>1, FS_Interval
<1>3. IsFiniteSet(S)
  BY <1>2, FS_Subset
<1> QED
  BY <1>1, <1>2, <1>3, FS_CardinalityType DEF Count

\* What has no usage adds nothing.
LEMMA UsageIsAll ==
  ASSUME IInv, NEW n \in 0..Len(logs), NEW S \in SUBSET (1..n)
  PROVE  SumOf({i \in S : HasUsage(i)}, Tokens) = SumOf(S, Tokens)
<1> DEFINE used == {i \in S : HasUsage(i)}
           rest == {i \in S : ~HasUsage(i)}
<1>1. used \in SUBSET (1..n) /\ rest \in SUBSET (1..n)
  OBVIOUS
<1> DEFINE both == used \cup rest
<1>2. used \cap rest = {} /\ both = S
  OBVIOUS
<1>3. \A i \in S : Tokens[i] \in Int /\ (~HasUsage(i) => Tokens[i] = 0)
  BY Selections, TokensAre
<1>4. \A i \in rest : Tokens[i] \in Nat /\ Tokens[i] = 0
  BY <1>3
<1> HIDE DEF used, rest, both
<1>5. IsFiniteSet(used) /\ IsFiniteSet(rest)
  BY <1>1, Selections
<1> DEFINE f == Tokens
<1>6. (\A i \in both : f[i] \in Int) /\ (\A i \in used : f[i] \in Int)
      /\ (\A i \in rest : f[i] \in Nat /\ f[i] = 0)
  BY <1>3, <1>4, <1>2 DEF both
<1> HIDE DEF f
<1>7. SumOf(both, f) = SumOf(used, f) + SumOf(rest, f)
  BY <1>2, <1>5, <1>6, SumUnion DEF both
<1>8. SumOf(rest, f) = 0
  BY <1>5, <1>6, SumNatural
<1>9. SumOf(used, f) \in Int
  BY <1>5, <1>6, SumTakes
<1>10. SumOf(S, f) = SumOf(used, f)
  BY <1>2, <1>7, <1>8, <1>9
<1> QED
  BY <1>10 DEF used, f

LEMMA KeptIsSome ==
  ASSUME NEW s, s # <<>>, Len(s) \in Nat
  PROVE  Kept(s) # <<>>
<1>1. CASE Len(s) < Few
  BY <1>1 DEF Kept
<1>2. CASE ~(Len(s) < Few)
  <2> DEFINE low  == (Len(s) * LowerPercent) \div 100
             upp  == (Len(s) * UpperPercent) \div 100
             last == IF low >= upp THEN low + 1 ELSE upp
  <2>1. Kept(s) = SubSeq(Sorted(s), low + 1, last)
    BY <1>2 DEF Kept
  <2>2. low \in Int /\ upp \in Int
    BY LimitsAssumption
  <2> HIDE DEF low, upp
  <2>3. last \in Int /\ low + 1 <= last
    BY <2>2
  <2> HIDE DEF last
  <2>4. DOMAIN SubSeq(Sorted(s), low + 1, last) = 1..(last - low)
    BY <2>2, <2>3
  <2>5. 1 \in DOMAIN Kept(s)
    BY <2>1, <2>2, <2>3, <2>4
  <2>6. DOMAIN <<>> = {}
    OBVIOUS
  <2> HIDE DEF last
  <2> QED
    BY <2>5, <2>6
<1> QED
  BY <1>1, <1>2

LEMMA AveragedIfAny ==
  ASSUME IInv, NEW n \in 0..Len(logs), NEW S \in SUBSET (1..n), Kept(FirstBytes(S)) = <<>>,
         NEW i \in S
  PROVE  Value(logs[i].firstByte) <= 0
<1> DEFINE valid == {x \in S : logs[x].firstByte # Null /\ logs[x].firstByte > 0}
<1>2. FirstBytes(S) = [k \in 1..Cardinality(valid) |-> logs[SetToSeq(valid)[k]].firstByte]
  BY DEF FirstBytes
<1>3. valid \in SUBSET (1..n)
  OBVIOUS
<1> HIDE DEF valid
<1>4. IsFiniteSet(valid) /\ Cardinality(valid) \in Nat
  BY <1>3, Selections DEF Count
<1>1. FirstBytes(S) = <<>>
  <2>1. Len(FirstBytes(S)) \in Nat
    BY <1>2, <1>4
  <2> QED
    BY <2>1, KeptIsSome
<1>5. Cardinality(valid) = 0
  BY <1>1, <1>2, <1>4
<1>6. valid = {}
  BY <1>4, <1>5, FS_EmptySet
<1>7. logs[i].firstByte \in Int \cup {Null} /\ i \in 1..Len(logs)
  BY Selections, Logged
<1> QED
  BY <1>6, <1>7, NullAssumption DEF valid, Value

LEMMA WindowLogs ==
  ASSUME IInv, NEW n \in 0..Len(logs), NEW range \in Ranges
  PROVE  Window(n, range) \in SUBSET (1..n)
  BY DEF Window

\* The points of the trend add up, for any of the window's logs.
LEMMA PointsAddUp ==
  ASSUME IInv, NEW n \in 0..Len(logs), NEW range \in Ranges,
         NEW S \in SUBSET Window(n, range)
  PROVE  /\ SumFun([p \in 0..(range.points - 1) |-> Count({i \in S : Point(i, range) = p})])
              = Count(S)
         /\ SumFun([p \in 0..(range.points - 1)
                      |-> SumOf({i \in S : Point(i, range) = p}, Tokens)])
              = SumOf(S, Tokens)
<1> DEFINE P   == 0..(range.points - 1)
           key == [i \in S |-> Point(i, range)]
           f   == Tokens
           c   == [p \in P |-> Count({i \in S : Point(i, range) = p})]
           t   == [p \in P |-> SumOf({i \in S : Point(i, range) = p}, f)]
<1>1. S \in SUBSET (1..n) /\ \A i \in S : key[i] = Point(i, range) /\ key[i] \in P
  BY WindowLogs, PointsCover
<1>2. IsFiniteSet(S) /\ \A i \in S : f[i] \in Int
  BY <1>1, Selections, TokensAre
<1>3. IsFiniteSet(P)
  <2> DEFINE last == range.points - 1
  <2>1. last \in Int /\ 0 \in Int
    BY WindowBounds
  <2> HIDE DEF last
  <2>2. IsFiniteSet(0..last)
    BY <2>1, FS_Interval
  <2> QED
    BY <2>2 DEF last
<1>4. \A p \in P : {i \in S : Point(i, range) = p} = Having(S, key, p)
  BY <1>1 DEF Having
<1>5. /\ \A p \in P : c[p] = Count(Having(S, key, p)) /\ t[p] = SumOf(Having(S, key, p), f)
      /\ DOMAIN c = P /\ DOMAIN t = P
  BY <1>4, Zenon
<1>6. \A i \in S : key[i] \in P
  BY <1>1
<1> HIDE DEF P, key, f, c, t
<1>7. SumOf(P, c) = Count(S)
  BY <1>2, <1>3, <1>5, <1>6, CountPerValue
<1>8. SumOf(P, t) = SumOf(S, f)
  BY <1>2, <1>3, <1>5, <1>6, SumPerValue
<1>9. SumFun(c) = Count(S) /\ SumFun(t) = SumOf(S, f)
  BY <1>5, <1>7, <1>8 DEF SumFun
<1> QED
  BY <1>9 DEF c, t, f, P

\* The entries of a rank of requests, and of one of tokens.
LEMMA CallEntries ==
  ASSUME NEW S, IsFiniteSet(S), S \subseteq DOMAIN logs, NEW key
  PROVE  /\ DOMAIN PerKey(S, key, One) = Keys(S, key)
         /\ \A k \in Keys(S, key) : PerKey(S, key, One)[k] = Count(Having(S, key, k))
         /\ \A k \in Keys(S, key) : PerKey(S, key, One)[k] \in Nat
         /\ SumOf(Keys(S, key), PerKey(S, key, One)) = Count(S)
<1> DEFINE one == One
<1>1. \A i \in S : one[i] = 1 /\ one[i] \in Int
  BY DEF One
<1>2. ASSUME NEW T \in SUBSET S PROVE SumOf(T, one) = Count(T) /\ Count(T) \in Nat
  <2>1. IsFiniteSet(T) /\ \A i \in T : one[i] = 1
    BY <1>1, FS_Subset
  <2> HIDE DEF one
  <2> QED
    BY <2>1, SumOnes, FS_CardinalityType DEF Count
<1> HIDE DEF one
<1>3. /\ DOMAIN PerKey(S, key, one) = Keys(S, key)
      /\ \A k \in Keys(S, key) : PerKey(S, key, one)[k] = SumOf(Having(S, key, k), one)
      /\ SumOf(Keys(S, key), PerKey(S, key, one)) = SumOf(S, one)
  BY <1>1, PerKeyIs
<1>4. \A k \in Keys(S, key) : Having(S, key, k) \in SUBSET S
  BY DEF Having
<1> QED
  BY <1>2, <1>3, <1>4 DEF one

LEMMA TopCalls ==
  ASSUME NEW S, IsFiniteSet(S), S \subseteq DOMAIN logs, NEW key
  PROVE  /\ SumSeq(Top(PerKey(S, key, One), TopN)) \in Nat
         /\ SumSeq(Top(PerKey(S, key, One), TopN)) <= Count(S)
         /\ Cardinality(Keys(S, key)) <= TopN => SumSeq(Top(PerKey(S, key, One), TopN)) = Count(S)
<1> DEFINE F == PerKey(S, key, One)
           K == Keys(S, key)
<1>1. DOMAIN F = K /\ (\A k \in K : F[k] \in Nat) /\ SumOf(K, F) = Count(S)
  BY CallEntries
<1>2. IsFiniteSet(K) /\ TopN \in Nat
  BY KeysFinite, LimitsAssumption
<1> HIDE DEF F, K
<1>3. \A k \in K : F[k] \in Int
  BY <1>1
<1>4. /\ SumSeq(Top(F, TopN)) \in Nat /\ SumSeq(Top(F, TopN)) <= SumOf(K, F)
      /\ Cardinality(K) <= TopN => SumSeq(Top(F, TopN)) = SumOf(K, F)
  BY <1>1, <1>2, <1>3, TopIsPart
<1> QED
  BY <1>1, <1>4 DEF F, K

LEMMA TopFigures ==
  ASSUME NEW S, IsFiniteSet(S), NEW key, NEW f, \A i \in S : f[i] \in Int,
         Cardinality(Keys(S, key)) <= TopN
  PROVE  SumSeq(Top(PerKey(S, key, f), TopN)) = SumOf(S, f)
<1> DEFINE F == PerKey(S, key, f)
           K == Keys(S, key)
<1>1. DOMAIN F = K /\ (\A k \in K : F[k] \in Int) /\ SumOf(K, F) = SumOf(S, f)
  BY PerKeyIs
<1>2. IsFiniteSet(K) /\ TopN \in Nat
  BY KeysFinite, LimitsAssumption
<1>3. Cardinality(K) <= TopN
  OBVIOUS
<1> HIDE DEF F, K
<1>4. SumSeq(Top(F, TopN)) = SumOf(K, F)
  BY <1>1, <1>2, <1>3, TopIsPart
<1> QED
  BY <1>1, <1>4 DEF F, K

LEMMA AddsUp == ASSUME IInv PROVE DashboardAddsUp
<1> DEFINE n      == seen["rows"]
           rows   == Window(n, op.range)
           used   == {i \in rows : HasUsage(i)}
           d      == Dashboard(n, op.range)
<1> SUFFICES ASSUME Done("dashboard")
             PROVE  /\ SumFun(d.requestsAt) = d.requests
                    /\ SumFun(d.tokensAt) = d.tokens
                    /\ d.usage = d.tokens
                    /\ d.models <= TopN => SumSeq(d.modelCalls) = d.requests
                    /\ d.platforms <= TopN => SumSeq(d.platformUsage) = d.tokens
                    /\ d.successes <= d.requests
                    /\ d.firstBytes = <<>> => \A i \in rows : Value(logs[i].firstByte) <= 0
  BY DEF DashboardAddsUp
<1>1. n \in 0..Len(logs) /\ op.range \in Ranges
  BY RowsRan, SeenLogs, RangeOf DEF Done, IInv
<1>2. /\ d.requests = Count(rows) /\ d.successes = Count(Succeeded(rows))
      /\ d.firstBytes = Kept(FirstBytes(rows))
      /\ d.tokens = SumOf(rows, Tokens) /\ d.usage = SumOf(used, Tokens)
      /\ d.models = Count({Label[i] : i \in rows})
      /\ d.platforms = Count({PlatformOf[i] : i \in rows})
      /\ d.modelCalls = CallItems(rows, Label)
      /\ d.platformUsage = UsageItems(used, PlatformOf)
  BY DEF Dashboard
<1>3. /\ d.requestsAt = [p \in 0..(op.range.points - 1) |-> Count({i \in rows : Point(i, op.range) = p})]
      /\ d.tokensAt = [p \in 0..(op.range.points - 1)
                         |-> SumOf({i \in rows : Point(i, op.range) = p}, Tokens)]
  BY DEF Dashboard
<1>4. rows \in SUBSET (1..n) /\ rows \in SUBSET Window(n, op.range)
  BY <1>1, WindowLogs
<1>5. used \in SUBSET (1..n) /\ used \in SUBSET rows /\ Succeeded(rows) \in SUBSET (1..n)
      /\ Succeeded(rows) \subseteq rows
  BY <1>4 DEF Succeeded
<1>6. SumFun(d.requestsAt) = d.requests /\ SumFun(d.tokensAt) = d.tokens
  <2>1. /\ SumFun([p \in 0..(op.range.points - 1) |-> Count({i \in rows : Point(i, op.range) = p})])
             = Count(rows)
        /\ SumFun([p \in 0..(op.range.points - 1)
                     |-> SumOf({i \in rows : Point(i, op.range) = p}, Tokens)])
             = SumOf(rows, Tokens)
    <3> HIDE DEF n, rows, d
    <3> QED
      BY <1>1, <1>4, PointsAddUp, Zenon
  <2> QED
    BY <1>2, <1>3, <2>1, Zenon
<1>7. d.usage = d.tokens
  <2>1. SumOf(used, Tokens) = SumOf(rows, Tokens)
    BY <1>1, <1>4, UsageIsAll
  <2> HIDE DEF n, rows, d, used
  <2> QED
    BY <1>2, <2>1
<1>8. d.models <= TopN => SumSeq(d.modelCalls) = d.requests
  <2>1. d.models = Cardinality(Keys(rows, Label))
    BY <1>2 DEF Count, Keys
  <2>2. Cardinality(Keys(rows, Label)) <= TopN
          => SumSeq(Top(PerKey(rows, Label, One), TopN)) = Count(rows)
    <3>1. IsFiniteSet(rows) /\ rows \subseteq DOMAIN logs
      BY <1>1, <1>4, Selections
    <3> HIDE DEF rows
    <3> QED
      BY <3>1, TopCalls
  <2> HIDE DEF n, rows, d, used
  <2> QED
    BY <1>2, <2>1, <2>2 DEF CallItems
<1>9. d.platforms <= TopN => SumSeq(d.platformUsage) = d.tokens
  <2>1. d.platforms = Cardinality(Keys(rows, PlatformOf))
    BY <1>2 DEF Count, Keys
  <2>2. /\ Cardinality(Keys(used, PlatformOf)) <= Cardinality(Keys(rows, PlatformOf))
        /\ Cardinality(Keys(rows, PlatformOf)) \in Nat
    BY <1>1, <1>4, <1>5, Selections, KeysFinite
  <2>3. Cardinality(Keys(used, PlatformOf)) \in Nat /\ TopN \in Nat
    BY <1>1, <1>5, Selections, KeysFinite, LimitsAssumption
  <2>4. Cardinality(Keys(used, PlatformOf)) <= TopN
          => SumSeq(Top(PerKey(used, PlatformOf, Tokens), TopN)) = SumOf(used, Tokens)
    <3>1. IsFiniteSet(used) /\ \A i \in used : Tokens[i] \in Int
      BY <1>1, <1>5, Selections, TokensAre
    <3> HIDE DEF used
    <3> QED
      BY <3>1, TopFigures
  <2> HIDE DEF n, rows, d, used
  <2> QED
    BY <1>2, <1>7, <2>1, <2>2, <2>3, <2>4 DEF UsageItems
<1>10. d.successes <= d.requests
  <2>1. Count(Succeeded(rows)) <= Count(rows)
    <3> DEFINE ok == Succeeded(rows)
    <3>1. n \in Nat /\ n <= n /\ ok \in SUBSET (1..n) /\ rows \in SUBSET (1..n) /\ ok \subseteq rows
      BY <1>1, <1>4, <1>5
    <3> HIDE DEF n, rows, ok
    <3>2. Count(ok) <= Count(rows)
      BY <3>1, PartIsSmaller
    <3> QED
      BY <3>2 DEF ok
  <2> HIDE DEF n, rows, d
  <2> QED
    BY <1>2, <2>1
<1>11. d.firstBytes = <<>> => \A i \in rows : Value(logs[i].firstByte) <= 0
  <2> HIDE DEF n, rows, d
  <2> QED
    BY <1>1, <1>2, <1>4, AveragedIfAny
<1> QED
  BY <1>6, <1>7, <1>8, <1>9, <1>10, <1>11

LEMMA TypesFit == ASSUME IInv PROVE TypeOK
<1>1. /\ Len(logs) \in Nat /\ DOMAIN logs = 1..Len(logs) /\ now \in Nat
  BY HourAssumption DEF IInv, Typed
<1>2. \A i \in DOMAIN logs : logs[i].time \in 0..now
  <2> SUFFICES ASSUME NEW i \in 1..Len(logs) PROVE logs[i].time \in 0..now
    BY <1>1
  <2>1. logs[i].time \in Nat /\ logs[i].time <= now
    BY Logged DEF IInv, Typed
  <2> QED
    BY <1>1, <2>1
<1> QED
  BY <1>2 DEF IInv, Typed, TypeOK

\* The dashboard's parts agree with each other (GetDashboard selects by the
\* window and spreads over points by dividing), and every log that was there
\* and began in the range less an hour is in it.
THEOREM DashboardIsConsistent == Spec => []DashboardInv
<1>1. IInv => DashboardInv
  BY TypesFit, AddsUp, DashboardCurrent DEF DashboardInv
<1> QED
  BY InvAlways, <1>1, PTL

-----------------------------------------------------------------------------
(* The operations of two statements.                                       *)

LEMMA SinceIs ==
  ASSUME IInv, NEW n \in 0..Len(logs), NEW duration
  PROVE  /\ Since(n, duration) \in SUBSET (1..n) /\ IsFiniteSet(Since(n, duration))
         /\ Since(n, duration) \subseteq DOMAIN logs /\ Count(Since(n, duration)) \in Nat
<1>1. Since(n, duration) \in SUBSET (1..n)
  BY DEF Since
<1> QED
  BY <1>1, Selections

\* What a later statement finds in addition was written after the first.
LEMMA GrownByWrites ==
  ASSUME IInv, NEW m \in 0..Len(logs), NEW n \in 0..Len(logs), m <= n, NEW duration
  PROVE  Count(Since(n, duration)) <= Count(Since(m, duration)) + (n - m)
<1> DEFINE A == Since(m, duration)
           B == Since(n, duration)
           W == (m + 1)..n
<1>1. m \in Nat /\ n \in Nat
  OBVIOUS
<1>2. B \in SUBSET (A \cup W)
  <2>1. ASSUME NEW i \in B, i \notin W PROVE i \in A
    BY <1>1, <2>1 DEF Since
  <2> QED
    BY <2>1
<1>3. IsFiniteSet(A) /\ IsFiniteSet(B) /\ Count(A) \in Nat /\ Count(B) \in Nat
  BY SinceIs
<1>4. IsFiniteSet(W) /\ Cardinality(W) = n - m
  <2>1. m + 1 \in Int /\ n \in Int
    BY <1>1
  <2>2. IsFiniteSet(W) /\ Cardinality(W) = IF m + 1 > n THEN 0 ELSE n - (m + 1) + 1
    BY <2>1, FS_Interval
  <2> QED
    BY <1>1, <2>2
<1> HIDE DEF A, B, W
<1> DEFINE U == A \cup W
<1>5. /\ IsFiniteSet(U) /\ Cardinality(U) = Cardinality(A) + Cardinality(W) - Cardinality(A \cap W)
  BY <1>3, <1>4, FS_Union
<1>6. IsFiniteSet(A \cap W)
  BY <1>3, FS_Intersection
<1>7. Cardinality(A \cap W) \in Nat /\ Cardinality(A) \in Nat /\ Cardinality(U) \in Nat
  BY <1>3, <1>5, <1>6, FS_CardinalityType
<1>8. B \in SUBSET U
  BY <1>2
<1> HIDE DEF U
<1>9. Cardinality(B) <= Cardinality(U) /\ Cardinality(B) \in Nat
  BY <1>3, <1>5, <1>8, FS_Subset, FS_CardinalityType
<1>10. Cardinality(B) <= Cardinality(A) + (n - m)
  BY <1>1, <1>4, <1>5, <1>7, <1>9
<1> QED
  BY <1>10 DEF Count, A, B

LEMMA SuccessesBounded ==
  ASSUME IInv, Done("overview"), Ran("success")
  PROVE  LET o == RequestCounts(op.duration)
         IN  o.successes <= o.requests + Written("total", "success")
<1> DEFINE m     == seen["total"]
           n     == seen["success"]
           total == Count(Since(m, op.duration))
           ok    == Succeeded(Since(n, op.duration))
<1>1. m \in 0..Len(logs) /\ n \in 0..Len(logs) /\ m <= n /\ m \in Nat /\ n \in Nat
  BY SeenLogs DEF IInv, Ordered
<1>2. Written("total", "success") = n - m
  BY DEF Written
<1>3. RequestCounts(op.duration) = [requests  |-> total,
                                    successes |-> IF total = 0 THEN 0 ELSE Count(ok)]
  BY DEF RequestCounts
<1>4. Count(Since(n, op.duration)) <= total + (n - m)
  BY <1>1, GrownByWrites
<1>5. total \in Nat /\ Count(Since(n, op.duration)) \in Nat
  BY <1>1, SinceIs
<1>6. Count(ok) <= Count(Since(n, op.duration)) /\ Count(ok) \in Nat
  <2> DEFINE all == Since(n, op.duration)
  <2>1. n \in Nat /\ n <= n /\ all \in SUBSET (1..n)
    BY <1>1, SinceIs
  <2>2. ok \subseteq all /\ ok \in SUBSET (1..n)
    BY <2>1 DEF Succeeded
  <2> HIDE DEF ok, all, n
  <2>3. Count(ok) <= Count(all) /\ Count(ok) \in Nat
    BY <2>1, <2>2, PartIsSmaller
  <2> QED
    BY <2>3 DEF all
<1> HIDE DEF m, n, total, ok
<1> QED
  BY <1>1, <1>2, <1>3, <1>4, <1>5, <1>6

LEMMA EntriesBounded ==
  ASSUME IInv, Done("callRank"), NEW key
  PROVE  LET rank == CallRank(op.duration, key)
         IN  SumSeq(rank.items) <= rank.requests + Written("total", "groups")
<1> DEFINE m     == seen["total"]
           n     == seen["groups"]
           rows  == Since(n, op.duration)
           total == Count(Since(m, op.duration))
           items == Top(PerKey(rows, key, One), TopN)
<1>1. m \in 0..Len(logs) /\ n \in 0..Len(logs) /\ m <= n /\ m \in Nat /\ n \in Nat
  BY RanksRan, SeenLogs DEF IInv, Ordered
<1>2. Written("total", "groups") = n - m
  BY DEF Written
<1>3. CallRank(op.duration, key) = [requests |-> total, items |-> items]
  BY DEF CallRank
<1>4. Count(rows) <= total + (n - m)
  BY <1>1, GrownByWrites
<1>5. total \in Nat /\ Count(rows) \in Nat /\ IsFiniteSet(rows) /\ rows \subseteq DOMAIN logs
  BY <1>1, SinceIs
<1>6. SumSeq(items) <= Count(rows) /\ SumSeq(items) \in Int
  <2> HIDE DEF rows
  <2> QED
    BY <1>5, TopCalls
<1> HIDE DEF m, n, total, items, rows
<1> QED
  BY <1>1, <1>2, <1>3, <1>4, <1>5, <1>6

LEMMA Outrun == ASSUME IInv PROVE PartsOutrunTotalByWrites
<1>1. ASSUME Done("callRank"), NEW rank \in {ModelCallRank(op.duration), PlatformCallRank(op.duration)}
      PROVE  SumSeq(rank.items) <= rank.requests + Written("total", "groups")
  <2>1. PICK key : rank = CallRank(op.duration, key)
    BY <1>1 DEF ModelCallRank, PlatformCallRank
  <2> QED
    BY <1>1, <2>1, EntriesBounded
<1> QED
  BY <1>1, SuccessesBounded DEF PartsOutrunTotalByWrites

LEMMA RanksAgree == ASSUME IInv PROVE UsageRanksAgree
<1> DEFINE n    == seen["groups"]
           rows == Since(n, op.duration)
           used == {i \in rows : HasUsage(i)}
           rank == PlatformUsageRank(op.duration)
<1> SUFFICES ASSUME Done("usageRank"), Written("total", "groups") = 0,
                    \A i \in used : logs[i].total # Null
             PROVE  /\ rank.items = UsageItems(used, PlatformOf)
                    /\ rank.tokens = SumOf(rows, Tokens)
  BY DEF UsageRanksAgree
<1>1. /\ seen["total"] \in Nat /\ n \in 0..Len(logs) /\ n \in Nat
  BY RanksRan, SeenLogs
<1>2. seen["total"] = n
  BY <1>1 DEF Written
<1>3. Metered(rows) = used
  BY DEF Metered, HasUsage
<1>4. /\ rank.tokens = SumOf(used, Total)
      /\ rank.items = Top(PerKey(used, PlatformOf, Total), TopN)
  BY <1>2, <1>3 DEF PlatformUsageRank, UsageRank
<1>5. rows \in SUBSET (1..n) /\ used \in SUBSET (1..n) /\ IsFiniteSet(used)
  <2>1. rows \in SUBSET (1..n)
    BY <1>1, SinceIs
  <2>2. used \in SUBSET (1..n)
    BY <2>1
  <2> HIDE DEF used, rows, n
  <2> QED
    BY <1>1, <2>1, <2>2, Selections
<1>6. \A i \in used : Total[i] = Tokens[i] /\ Tokens[i] \in Int /\ Total[i] \in Int
  <2> SUFFICES ASSUME NEW i \in used PROVE Total[i] = Tokens[i] /\ Tokens[i] \in Int
    OBVIOUS
  <2>1. i \in 1..Len(logs) /\ i \in DOMAIN logs /\ logs[i].total # Null
    BY <1>1, <1>5, Selections
  <2>2. Tokens[i] = logs[i].total /\ Tokens[i] \in Int
    BY <2>1, TokensAre
  <2> QED
    BY <2>1, <2>2 DEF Total, Value
<1> DEFINE f == Tokens
           g == Total
<1>7. \A T \in SUBSET used : SumOf(T, g) = SumOf(T, f)
  <2>1. \A i \in used : g[i] \in Int /\ g[i] = f[i]
    BY <1>6
  <2> HIDE DEF f, g, used
  <2> SUFFICES ASSUME NEW T \in SUBSET used PROVE SumOf(T, g) = SumOf(T, f)
    OBVIOUS
  <2>2. IsFiniteSet(T) /\ \A i \in T : g[i] \in Int /\ g[i] = f[i]
    BY <1>5, <2>1, FS_Subset
  <2> QED
    BY <2>2, SumSame
<1>8. PerKey(used, PlatformOf, g) = PerKey(used, PlatformOf, f)
  <2> HIDE DEF f, g, used
  <2> DEFINE of(k) == {i \in used : PlatformOf[i] = k}
  <2>1. \A k : SumOf(of(k), g) = SumOf(of(k), f)
    <3>1. \A k : of(k) \in SUBSET used
      OBVIOUS
    <3> HIDE DEF of
    <3> QED
      BY <1>7, <3>1
  <2>2. PerKey(used, PlatformOf, g) = [k \in {PlatformOf[i] : i \in used} |-> SumOf(of(k), g)]
    BY DEF PerKey
  <2>3. PerKey(used, PlatformOf, f) = [k \in {PlatformOf[i] : i \in used} |-> SumOf(of(k), f)]
    BY DEF PerKey
  <2> HIDE DEF of
  <2> QED
    BY <2>1, <2>2, <2>3
<1>9. SumOf(used, g) = SumOf(used, f) /\ SumOf(used, f) = SumOf(rows, f)
  <2>1. SumOf(used, f) = SumOf(rows, f)
    <3> HIDE DEF n, rows
    <3> QED
      BY <1>1, <1>5, UsageIsAll
  <2> HIDE DEF f, g, used, rows
  <2> QED
    BY <1>7, <2>1
<1> HIDE DEF rank, rows, used
<1> QED
  BY <1>4, <1>8, <1>9 DEF UsageItems

\* The deprecated operations of two statements are off by no more than what
\* was written between them, and agree with what replaces them.
THEOREM RanksOffByWrites == Spec => []RankInv
<1>1. IInv => RankInv
  BY Outrun, RanksAgree DEF RankInv
<1> QED
  BY InvAlways, <1>1, PTL

-----------------------------------------------------------------------------
(* The model status.                                                       *)

\* What the status says of a model, by the logs it has.
StatusRecord(own, range) ==
  [requests   |-> Count(own),
   successes  |-> Count(Succeeded(own)),
   requestsAt |-> [p \in 0..(range.points - 1) |-> Count({i \in own : Point(i, range) = p})]]

LEMMA StatusIs ==
  ASSUME NEW rows, NEW key, NEW range
  PROVE  /\ DOMAIN StatusOf(rows, key, range) = Keys(rows, key)
         /\ \A m \in Keys(rows, key) :
              StatusOf(rows, key, range)[m] = StatusRecord(Having(rows, key, m), range)
<1>1. StatusOf(rows, key, range) =
        [m \in Keys(rows, key) |-> StatusRecord(Having(rows, key, m), range)]
  BY Zenon DEF StatusOf, StatusRecord, Having, Keys
<1> QED
  BY <1>1, Zenon

LEMMA StatusAgrees == ASSUME IInv PROVE StatusAgreesWithDashboard
<1> DEFINE n     == seen["rows"]
           rows  == Window(n, op.range)
           named == {i \in rows : op.model = NoModel \/ ModelOf[i] = op.model}
           all   == ModelStatus(n, op.range, NoModel)
           one   == ModelStatus(n, op.range, op.model)
<1> SUFFICES ASSUME Done("status")
             PROVE  /\ Top([m \in DOMAIN all |-> all[m].requests], TopN)
                         = Dashboard(n, op.range).modelCalls
                    /\ \A m \in DOMAIN one : SumFun(one[m].requestsAt) = one[m].requests
                    /\ op.model \notin {NoModel, Unknown} =>
                         /\ DOMAIN one = DOMAIN all \intersect {op.model}
                         /\ \A m \in DOMAIN one : one[m] = all[m]
  BY DEF StatusAgreesWithDashboard
<1>1. n \in 0..Len(logs) /\ op.range \in Ranges /\ op.model \in Models \union {NoModel}
  BY RowsRan, SeenLogs, RangeOf DEF Done, IInv
<1>2. rows \in SUBSET (1..n) /\ IsFiniteSet(rows) /\ rows \subseteq DOMAIN logs
  BY <1>1, WindowLogs, Selections
<1>3. named \subseteq rows
  OBVIOUS
<1>4. all = StatusOf(rows, Label, op.range) /\ one = StatusOf(named, Label, op.range)
  <2>1. {i \in rows : NoModel = NoModel \/ ModelOf[i] = NoModel} = rows
    OBVIOUS
  <2> QED
    BY <2>1, Zenon DEF ModelStatus
<1>5. /\ DOMAIN all = Keys(rows, Label) /\ DOMAIN one = Keys(named, Label)
      /\ \A m \in Keys(rows, Label) : all[m] = StatusRecord(Having(rows, Label, m), op.range)
      /\ \A m \in Keys(named, Label) : one[m] = StatusRecord(Having(named, Label, m), op.range)
  <2> HIDE DEF rows, named, all, one
  <2> QED
    BY <1>4, StatusIs
<1>6. Top([m \in DOMAIN all |-> all[m].requests], TopN) = Dashboard(n, op.range).modelCalls
  <2>1. Dashboard(n, op.range).modelCalls = Top(PerKey(rows, Label, One), TopN)
    BY DEF Dashboard, CallItems
  <2> HIDE DEF rows, all, n
  <2>2. /\ DOMAIN PerKey(rows, Label, One) = Keys(rows, Label)
        /\ \A m \in Keys(rows, Label) : PerKey(rows, Label, One)[m] = Count(Having(rows, Label, m))
    BY <1>2, CallEntries
  <2>3. \A m \in Keys(rows, Label) : all[m].requests = Count(Having(rows, Label, m))
    BY <1>5 DEF StatusRecord
  <2>4. PerKey(rows, Label, One) = [m \in Keys(rows, Label) |-> PerKey(rows, Label, One)[m]]
    BY <2>2 DEF PerKey
  <2>5. [m \in DOMAIN all |-> all[m].requests] = PerKey(rows, Label, One)
    BY <1>5, <2>2, <2>3, <2>4
  <2> QED
    BY <2>1, <2>5
<1>7. ASSUME NEW m \in DOMAIN one PROVE SumFun(one[m].requestsAt) = one[m].requests
  <2> DEFINE own == Having(named, Label, m)
  <2>1. one[m] = StatusRecord(own, op.range)
    BY <1>5
  <2>2. own \in SUBSET Window(n, op.range)
    BY <1>3 DEF Having
  <2> HIDE DEF own, n
  <2>3. SumFun([p \in 0..(op.range.points - 1) |-> Count({i \in own : Point(i, op.range) = p})])
          = Count(own)
    BY <1>1, <2>2, PointsAddUp, Zenon
  <2>4. StatusRecord(own, op.range).requests = Count(own)
        /\ StatusRecord(own, op.range).requestsAt
             = [p \in 0..(op.range.points - 1) |-> Count({i \in own : Point(i, op.range) = p})]
    BY DEF StatusRecord
  <2> QED
    BY <2>1, <2>3, <2>4, Zenon
<1>8. ASSUME op.model \notin {NoModel, Unknown}
      PROVE  /\ DOMAIN one = DOMAIN all \intersect {op.model}
             /\ \A m \in DOMAIN one : one[m] = all[m]
  <2>1. op.model # NoName
    BY <1>1, <1>8, NamesAssumption
  <2>2. \A i \in rows : ModelOf[i] = op.model <=> Label[i] = op.model
    BY <1>2, <1>8, <2>1 DEF Label, ModelOf
  <2>3. named = Having(rows, Label, op.model)
    BY <1>8, <2>2 DEF Having
  <2>4. /\ \A m \in Keys(named, Label) : m = op.model /\ m \in Keys(rows, Label)
        /\ op.model \in Keys(rows, Label) => op.model \in Keys(named, Label)
    BY <1>3, <2>3 DEF Keys, Having
  <2>5. Having(named, Label, op.model) = Having(rows, Label, op.model)
    BY <2>3 DEF Having
  <2> HIDE DEF rows, named, all, one
  <2> QED
    BY <1>5, <2>4, <2>5
<1> QED
  BY <1>6, <1>7, <1>8

\* The model status counts what the dashboard counts for each model, and
\* says the same of a model that is asked for by its name.
THEOREM StatusMatchesDashboard == Spec => []StatusAgreesWithDashboard
<1>1. IInv => StatusAgreesWithDashboard
  BY StatusAgrees
<1> QED
  BY InvAlways, <1>1, PTL
=============================================================================
