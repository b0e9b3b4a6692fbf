----------------------------- MODULE DataLemmas -----------------------------
(***************************************************************************)
(* Facts about numbers, sets and sequences that several of the proofs      *)
(* need and that the library does not state in a form the provers can use. *)
(* Induction is the main one: the library's rules quantify over a          *)
(* predicate, so the rule here quantifies over a set, the set of the       *)
(* numbers for which the predicate holds.                                  *)
(***************************************************************************)
EXTENDS Naturals, Sequences, SequencesExt, FiniteSets, FiniteSetsExt, TLAPS,
        WellFoundedInduction, SequenceTheorems, FiniteSetTheorems, Lists

-----------------------------------------------------------------------------
(* Numbers *)

\* A set of naturals that is not empty has a least element.
LEMMA LeastNumber ==
  ASSUME NEW T \in SUBSET Nat, T # {}
  PROVE  \E m \in T : \A k \in T : m <= k
<1> DEFINE R == {ss \in Nat \X Nat : ss[1] < ss[2]}
<1>1. IsWellFoundedOn(R, Nat)
  BY NatLessThanWellFounded DEF OpToRel
<1>2. T \subseteq Nat
  OBVIOUS
<1> HIDE DEF R
<1>3. PICK m \in T : \A k \in T : ~ (<<k, m>> \in R)
  BY <1>1, <1>2, WFMin
<1>4. \A k \in T : m <= k
  <2> TAKE k \in T
  <2>1. ~ (k < m)
    BY <1>3, <1>2 DEF R
  <2> QED BY <2>1, <1>2
<1> QED BY <1>4

\* Induction: a set that has zero and the successor of each of its naturals
\* has every natural.
LEMMA Induction ==
  ASSUME NEW G, 0 \in G, \A n \in Nat : n \in G => n + 1 \in G
  PROVE  \A n \in Nat : n \in G
<1> SUFFICES ASSUME NEW n \in Nat, n \notin G PROVE FALSE
  OBVIOUS
<1> DEFINE T == {k \in Nat : k \notin G}
<1>1. T \in SUBSET Nat /\ n \in T
  OBVIOUS
<1>2. PICK m \in T : \A k \in T : m <= k
  <2> HIDE DEF T
  <2> QED BY <1>1, LeastNumber
<1>3. m \in Nat /\ m \notin G /\ m # 0
  BY <1>2
<1>4. m - 1 \in Nat /\ m - 1 \notin T
  BY <1>2, <1>3
<1>5. m - 1 \in G
  BY <1>4
<1>6. (m - 1) + 1 \in G
  BY <1>4, <1>5
<1> QED BY <1>3, <1>6

\* Max is the greatest element of a bounded set of naturals.
LEMMA MaxOfBounded ==
  ASSUME NEW S \in SUBSET Nat, S # {}, NEW n \in Nat, \A x \in S : x <= n
  PROVE  Max(S) \in S /\ \A x \in S : x <= Max(S)
<1> DEFINE T == {m \in Nat : \A x \in S : x <= m}
<1>1. T \in SUBSET Nat /\ n \in T
  OBVIOUS
<1>2. PICK m \in T : \A k \in T : m <= k
  <2> HIDE DEF T
  <2> QED BY <1>1, LeastNumber
<1>3. m \in Nat /\ \A x \in S : x \in Nat /\ x <= m
  BY <1>2
<1>4. m \in S
  <2> SUFFICES ASSUME m \notin S PROVE FALSE
    OBVIOUS
  <2>1. \A x \in S : x < m
    BY <1>3
  <2>2. m - 1 \in Nat
    <3>1. PICK x \in S : TRUE
      OBVIOUS
    <3> QED BY <3>1, <2>1, <1>3
  <2>3. m - 1 \in T
    BY <2>1, <2>2, <1>3
  <2> QED BY <1>2, <1>3, <2>2, <2>3
<1>5. \E x \in S : \A y \in S : x >= y
  BY <1>3, <1>4
<1>6. Max(S) \in S /\ \A y \in S : Max(S) >= y
  BY <1>5 DEF Max
<1> QED BY <1>6, <1>3

\* A finite set of naturals is bounded.
LEMMA FiniteIsBounded ==
  ASSUME NEW S \in SUBSET Nat, IsFiniteSet(S)
  PROVE  \E n \in Nat : \A x \in S : x <= n
<1> DEFINE G == {k \in Nat : \A T \in SUBSET Nat :
                   IsFiniteSet(T) /\ Cardinality(T) = k =>
                     \E n \in Nat : \A x \in T : x <= n}
<1>1. 0 \in G
  <2>1. ASSUME NEW T \in SUBSET Nat, IsFiniteSet(T), Cardinality(T) = 0
        PROVE  \A x \in T : x <= 0
    BY <2>1, FS_EmptySet
  <2> QED BY <2>1
<1>2. ASSUME NEW k \in Nat, k \in G PROVE k + 1 \in G
  <2>1. ASSUME NEW T \in SUBSET Nat, IsFiniteSet(T), Cardinality(T) = k + 1
        PROVE  \E n \in Nat : \A x \in T : x <= n
    <3> HIDE DEF G
    <3>1. T # {}
      BY <2>1, FS_EmptySet
    <3>2. PICK t \in T : TRUE
      BY <3>1
    <3>3. IsFiniteSet(T \ {t}) /\ Cardinality(T \ {t}) = k
      <4>1. /\ IsFiniteSet(T \ {t})
            /\ Cardinality(T \ {t}) =
                 IF t \in T THEN Cardinality(T) - 1 ELSE Cardinality(T)
        BY <2>1, FS_RemoveElement, Zenon
      <4>2. Cardinality(T \ {t}) = Cardinality(T) - 1
        BY <4>1, <3>2, Zenon
      <4>3. Cardinality(T) = k + 1
        BY <2>1
      <4>4. (k + 1) - 1 = k
        OBVIOUS
      <4> QED BY <4>1, <4>2, <4>3, <4>4, Zenon
    <3>4. T \ {t} \in SUBSET Nat
      OBVIOUS
    <3>5. PICK n \in Nat : \A x \in T \ {t} : x <= n
      BY <3>3, <3>4, <1>2 DEF G
    <3>6. t \in Nat
      BY <3>2
    <3>7. n + t \in Nat /\ \A x \in T : x <= n + t
      BY <3>5, <3>6
    <3> QED BY <3>7
  <2>2. \A T \in SUBSET Nat : IsFiniteSet(T) /\ Cardinality(T) = k + 1 =>
          \E n \in Nat : \A x \in T : x <= n
    BY <2>1
  <2>3. k + 1 \in Nat
    OBVIOUS
  <2> QED BY <2>2, <2>3
<1>3. \A k \in Nat : k \in G
  <2> HIDE DEF G
  <2> QED BY <1>1, <1>2, Induction
<1>4. Cardinality(S) \in Nat
  BY FS_CardinalityType
<1> QED BY <1>3, <1>4

\* Max is the greatest element of a finite set of naturals.
LEMMA MaxOfFinite ==
  ASSUME NEW S \in SUBSET Nat, S # {}, IsFiniteSet(S)
  PROVE  Max(S) \in S /\ \A x \in S : x <= Max(S)
BY FiniteIsBounded, MaxOfBounded

\* The greater of two numbers.
LEMMA MaxOfTwo ==
  ASSUME NEW m \in Int, NEW n \in Int
  PROVE  Max({m, n}) = IF m <= n THEN n ELSE m
<1>1. \E x \in {m, n} : \A y \in {m, n} : x >= y
  <2>1. m >= n \/ n >= m
    OBVIOUS
  <2> QED BY <2>1
<1>2. Max({m, n}) \in {m, n} /\ \A y \in {m, n} : Max({m, n}) >= y
  BY <1>1 DEF Max
<1> QED BY <1>2

\* The smaller of two numbers.
LEMMA MinOfTwo ==
  ASSUME NEW m \in Int, NEW n \in Int
  PROVE  Min({m, n}) = IF m <= n THEN m ELSE n
<1>1. \E x \in {m, n} : \A y \in {m, n} : x <= y
  <2>1. m <= n \/ n <= m
    OBVIOUS
  <2> QED BY <2>1
<1>2. Min({m, n}) \in {m, n} /\ \A y \in {m, n} : Min({m, n}) <= y
  BY <1>1 DEF Min
<1> QED BY <1>2

-----------------------------------------------------------------------------
(* Sums *)

\* The sum of the values of a function: a value n counts as n things.
Things(w) == UNION {{x} \X (1 .. w[x]) : x \in DOMAIN w}
Total(w) == Cardinality(Things(w))

\* Image of a finite set under a function.
LEMMA FiniteImage ==
  ASSUME NEW S, IsFiniteSet(S), NEW g, S = DOMAIN g
  PROVE  IsFiniteSet({g[x] : x \in S})
<1> DEFINE T == {g[x] : x \in S}
           h == [x \in S |-> g[x]]
<1>1. h \in Surjection(S, T)
  BY DEF Surjection
<1> QED BY <1>1, FS_Surjection

\* The union of two disjoint sets has the elements of both.
LEMMA DisjointUnion ==
  ASSUME NEW S, IsFiniteSet(S), NEW T, IsFiniteSet(T), S \cap T = {}
  PROVE  /\ IsFiniteSet(S \cup T)
         /\ Cardinality(S \cup T) = Cardinality(S) + Cardinality(T)
<1>1. Cardinality(S) \in Nat /\ Cardinality(T) \in Nat
  BY FS_CardinalityType
<1>2. Cardinality(S \cap T) = 0
  BY FS_EmptySet
<1>3. /\ IsFiniteSet(S \cup T)
      /\ Cardinality(S \cup T) =
           Cardinality(S) + Cardinality(T) - Cardinality(S \cap T)
  BY FS_Union, Zenon
<1> QED BY <1>1, <1>2, <1>3

\* The sum over a finite set is a natural number.
LEMMA ThingsFinite ==
  ASSUME NEW S, IsFiniteSet(S), NEW w \in [S -> Nat]
  PROVE  IsFiniteSet(Things(w)) /\ Total(w) \in Nat
<1> DEFINE g == [x \in S |-> {x} \X (1 .. w[x])]
           B == {g[x] : x \in S}
<1>1. IsFiniteSet(B)
  <2>1. S = DOMAIN g
    OBVIOUS
  <2> HIDE DEF g
  <2> QED BY <2>1, FiniteImage
<1>2. \A b \in B : IsFiniteSet(b)
  <2> SUFFICES ASSUME NEW x \in S PROVE IsFiniteSet({x} \X (1 .. w[x]))
    OBVIOUS
  <2>1. IsFiniteSet({x})
    BY FS_Singleton
  <2>2. IsFiniteSet(1 .. w[x])
    BY FS_Interval
  <2> QED BY <2>1, <2>2, FS_Product
<1>3. Things(w) = UNION B
  BY DEF Things
<1>4. IsFiniteSet(Things(w))
  <2> HIDE DEF B
  <2> QED BY <1>1, <1>2, <1>3, FS_UNION
<1> QED BY <1>4, FS_CardinalityType DEF Total

\* Changing one value changes the sum by the difference.
LEMMA TotalChange ==
  ASSUME NEW S, IsFiniteSet(S), NEW v \in [S -> Nat], NEW w \in [S -> Nat],
         NEW x \in S, \A y \in S : y # x => w[y] = v[y]
  PROVE  /\ Total(v) \in Nat /\ Total(w) \in Nat
         /\ Total(w) + v[x] = Total(v) + w[x]
<1> DEFINE R(u) == {t \in Things(u) : t[1] # x}
<1>1. ASSUME NEW u \in [S -> Nat]
      PROVE  /\ IsFiniteSet(R(u)) /\ Cardinality(R(u)) \in Nat
             /\ Total(u) = Cardinality(R(u)) + u[x]
  <2> DEFINE B == {x} \X (1 .. u[x])
  <2>1. IsFiniteSet(Things(u))
    BY ThingsFinite
  <2>2. IsFiniteSet(R(u)) /\ Cardinality(R(u)) \in Nat
    <3>1. R(u) \in SUBSET Things(u)
      OBVIOUS
    <3> QED BY <3>1, <2>1, FS_Subset, FS_CardinalityType
  <2>3. IsFiniteSet(B) /\ Cardinality(B) = u[x]
    <3>1. IsFiniteSet({x}) /\ Cardinality({x}) = 1
      BY FS_Singleton
    <3>2. IsFiniteSet(1 .. u[x]) /\ Cardinality(1 .. u[x]) = u[x]
      BY FS_Interval
    <3>3. IsFiniteSet(B) /\ Cardinality(B) = 1 * u[x]
      BY <3>1, <3>2, FS_Product
    <3> QED BY <3>3
  <2>4. Things(u) = R(u) \cup B
    BY DEF Things
  <2>5. R(u) \cap B = {}
    OBVIOUS
  <2> HIDE DEF R, B
  <2>6. Cardinality(R(u) \cup B) = Cardinality(R(u)) + Cardinality(B)
    BY <2>2, <2>3, <2>5, DisjointUnion
  <2> QED BY <2>2, <2>3, <2>4, <2>6 DEF Total
<1>2. R(v) = R(w)
  BY DEF Things
<1> HIDE DEF R
<1>3. Total(v) = Cardinality(R(w)) + v[x] /\ Total(w) = Cardinality(R(w)) + w[x]
  BY <1>1, <1>2
<1>4. Cardinality(R(w)) \in Nat /\ v[x] \in Nat /\ w[x] \in Nat
  BY <1>1
<1> QED BY <1>3, <1>4

\* A function with greater values has a greater sum.
LEMMA TotalMonotone ==
  ASSUME NEW S, IsFiniteSet(S), NEW v \in [S -> Nat], NEW w \in [S -> Nat],
         \A x \in S : v[x] <= w[x]
  PROVE  Total(v) <= Total(w)
<1>1. Things(v) \in SUBSET Things(w)
  BY DEF Things
<1>2. IsFiniteSet(Things(w))
  BY ThingsFinite
<1> QED BY <1>1, <1>2, FS_Subset DEF Total

\* The sum of a constant.
LEMMA TotalConstant ==
  ASSUME NEW S, IsFiniteSet(S), NEW n \in Nat
  PROVE  Total([x \in S |-> n]) = Cardinality(S) * n
<1> DEFINE w == [x \in S |-> n]
<1>1. Things(w) = S \X (1 .. n)
  BY DEF Things
<1>2. IsFiniteSet(1 .. n) /\ Cardinality(1 .. n) = n
  BY FS_Interval
<1>3. Cardinality(S \X (1 .. n)) = Cardinality(S) * n
  BY <1>2, FS_Product
<1> QED BY <1>1, <1>3 DEF Total

\* The sum of zeros.
LEMMA TotalZero ==
  ASSUME NEW S, NEW w \in [S -> Nat], \A x \in S : w[x] = 0
  PROVE  Total(w) = 0
<1>1. Things(w) = {}
  BY DEF Things
<1> QED BY <1>1, FS_EmptySet DEF Total

\* The sum of the values of a function, by its recursion.
Sums(g, w, S) ==
  g = [d \in SUBSET S |-> IF d = {} THEN 0
                          ELSE LET x == CHOOSE x \in d : TRUE
                               IN w[x] + g[d \ {x}]]

\* Leaving one element out.
LEMMA TotalRemove ==
  ASSUME NEW S, IsFiniteSet(S), NEW w \in [S -> Nat], NEW d \in SUBSET S,
         NEW x \in d
  PROVE  /\ Total([y \in d |-> w[y]]) = w[x] + Total([y \in d \ {x} |-> w[y]])
         /\ Total([y \in d \ {x} |-> w[y]]) \in Nat
<1> DEFINE u == [y \in d |-> w[y]]
           v == [y \in d \ {x} |-> w[y]]
           B == {x} \X (1 .. w[x])
<1>1. IsFiniteSet(d) /\ IsFiniteSet(d \ {x})
  BY FS_Subset
<1>2. u \in [d -> Nat] /\ v \in [d \ {x} -> Nat] /\ w[x] \in Nat
  OBVIOUS
<1>3. Things(u) = Things(v) \cup B /\ Things(v) \cap B = {}
  BY DEF Things
<1>4. IsFiniteSet(B) /\ Cardinality(B) = w[x]
  <2>1. IsFiniteSet({x}) /\ Cardinality({x}) = 1
    BY FS_Singleton
  <2>2. IsFiniteSet(1 .. w[x]) /\ Cardinality(1 .. w[x]) = w[x]
    BY <1>2, FS_Interval
  <2>3. IsFiniteSet(B) /\ Cardinality(B) = 1 * w[x]
    BY <2>1, <2>2, FS_Product
  <2> QED BY <2>3, <1>2
<1> HIDE DEF u, v, B
<1>5. IsFiniteSet(Things(v)) /\ Total(v) \in Nat
  BY <1>1, <1>2, ThingsFinite
<1>6. Cardinality(Things(v) \cup B) = Cardinality(Things(v)) + Cardinality(B)
  BY <1>3, <1>4, <1>5, DisjointUnion
<1>7. Total(u) = w[x] + Total(v)
  BY <1>2, <1>3, <1>4, <1>5, <1>6 DEF Total
<1> QED BY <1>5, <1>7 DEF u, v

\* SumFunction is the sum.
LEMMA SumIsTotal ==
  ASSUME NEW S, IsFiniteSet(S), NEW w \in [S -> Nat]
  PROVE  SumFunction(w) = Total(w) /\ SumFunction(w) \in Nat
<1> DEFINE T(d) == Total([y \in d |-> w[y]])
           g == CHOOSE f : Sums(f, w, S)
<1>1. SumFunction(w) = g[S]
  <2>1. DOMAIN w = S
    OBVIOUS
  <2>2. SumFunction(w) = (CHOOSE f : Sums(f, w, S))[S]
    <3> HIDE DEF g, T
    <3> QED BY <2>1
        DEF SumFunction, SumFunctionOnSet, FoldFunctionOnSet, MapThenFoldSet, Sums
  <2> QED BY <2>2
<1>2. T({}) = 0
  <2>1. [y \in {} |-> w[y]] \in [{} -> Nat] /\ \A x \in {} : [y \in {} |-> w[y]][x] = 0
    OBVIOUS
  <2> QED BY <2>1, TotalZero
<1>3. \A d \in SUBSET S, x \in S :
        x \in d => T(d) = w[x] + T(d \ {x}) /\ T(d \ {x}) \in Nat
  BY TotalRemove
<1>4. Sums(g, w, S)
  <2> DEFINE h == [d \in SUBSET S |-> T(d)]
             C(d) == CHOOSE x \in d : TRUE
  <2>1. ASSUME NEW d \in SUBSET S
        PROVE  h[d] = IF d = {} THEN 0 ELSE w[C(d)] + h[d \ {C(d)}]
    <3>1. CASE d = {}
      <4> HIDE DEF T
      <4> QED BY <3>1, <1>2
    <3>2. CASE d # {}
      <4>1. C(d) \in d /\ C(d) \in S /\ d \ {C(d)} \in SUBSET S
        BY <3>2
      <4> HIDE DEF C, T
      <4> QED BY <4>1, <3>2, <1>3
    <3> QED BY <3>1, <3>2
  <2>2. h = [d \in SUBSET S |-> h[d]]
    OBVIOUS
  <2>3. Sums(h, w, S)
    <3> HIDE DEF h
    <3> QED BY <2>1, <2>2 DEF Sums
  <2> QED BY <2>3
<1> HIDE DEF g, T
<1> DEFINE G == {k \in Nat : \A d \in SUBSET S : Cardinality(d) = k => g[d] = T(d)}
<1>5. 0 \in G
  <2> SUFFICES ASSUME NEW d \in SUBSET S, Cardinality(d) = 0 PROVE g[d] = T(d)
    OBVIOUS
  <2>1. d = {}
    BY FS_Subset, FS_EmptySet
  <2> QED BY <2>1, <1>2, <1>4 DEF Sums
<1>6. ASSUME NEW k \in Nat, k \in G PROVE k + 1 \in G
  <2>3. k + 1 \in Nat
    OBVIOUS
  <2> SUFFICES ASSUME NEW d \in SUBSET S, Cardinality(d) = k + 1 PROVE g[d] = T(d)
    BY <2>3
  <2> DEFINE x == CHOOSE x \in d : TRUE
  <2>1. IsFiniteSet(d)
    BY FS_Subset
  <2>2. d # {}
    <3> SUFFICES ASSUME d = {} PROVE FALSE
      OBVIOUS
    <3>1. Cardinality(d) = 0
      BY FS_EmptySet
    <3> QED BY <3>1
  <2>4. x \in d /\ x \in S /\ d \ {x} \in SUBSET S
    BY <2>2
  <2>5. g[d] = w[x] + g[d \ {x}]
    BY <2>2, <1>4 DEF Sums
  <2> HIDE DEF x
  <2>6. Cardinality(d \ {x}) = k
    <3>1. Cardinality(d \ {x}) = Cardinality(d) - 1
      BY <2>1, <2>4, FS_RemoveElement
    <3> QED BY <3>1
  <2>7. g[d \ {x}] = T(d \ {x})
    BY <2>4, <2>6, <1>6
  <2> QED BY <2>4, <2>5, <2>7, <1>3
<1>7. g[S] = T(S)
  <2>1. Cardinality(S) \in Nat
    BY FS_CardinalityType
  <2>2. Cardinality(S) \in G
    <3> HIDE DEF G
    <3> QED BY <1>5, <1>6, <2>1, Induction
  <2>3. S \in SUBSET S
    OBVIOUS
  <2> QED BY <2>2, <2>3
<1>8. T(S) = Total(w)
  <2>1. [y \in S |-> w[y]] = w
    OBVIOUS
  <2> QED BY <2>1 DEF T
<1>9. Total(w) \in Nat
  BY ThingsFinite
<1> QED BY <1>1, <1>7, <1>8, <1>9

\* A part of a sum is no more than the sum.
LEMMA SumSubset ==
  ASSUME NEW S, IsFiniteSet(S), NEW w \in [S -> Nat], NEW d \in SUBSET S
  PROVE  /\ SumFunction([y \in d |-> w[y]]) \in Nat
         /\ SumFunction([y \in S |-> w[y]]) \in Nat
         /\ SumFunction([y \in d |-> w[y]]) <= SumFunction([y \in S |-> w[y]])
<1> DEFINE u == [y \in d |-> w[y]]
           v == [y \in S |-> w[y]]
<1>1. IsFiniteSet(d)
  BY FS_Subset
<1>2. u \in [d -> Nat] /\ v \in [S -> Nat]
  OBVIOUS
<1>3. Things(u) \in SUBSET Things(v)
  BY DEF Things
<1> HIDE DEF u, v
<1>4. IsFiniteSet(Things(v))
  BY <1>2, ThingsFinite
<1>5. Total(u) <= Total(v)
  BY <1>3, <1>4, FS_Subset DEF Total
<1>6. /\ SumFunction(u) = Total(u) /\ SumFunction(u) \in Nat
      /\ SumFunction(v) = Total(v) /\ SumFunction(v) \in Nat
  BY <1>1, <1>2, SumIsTotal
<1> QED BY <1>5, <1>6 DEF u, v

\* A sum over two parts.
LEMMA SumSplit ==
  ASSUME NEW S, IsFiniteSet(S), NEW w \in [S -> Nat], NEW d \in SUBSET S
  PROVE  SumFunction([y \in S |-> w[y]]) =
           SumFunction([y \in d |-> w[y]]) + SumFunction([y \in S \ d |-> w[y]])
<1> DEFINE u == [y \in d |-> w[y]]
           v == [y \in S \ d |-> w[y]]
           t == [y \in S |-> w[y]]
<1>1. IsFiniteSet(d) /\ IsFiniteSet(S \ d)
  BY FS_Subset
<1>2. u \in [d -> Nat] /\ v \in [S \ d -> Nat] /\ t \in [S -> Nat]
  OBVIOUS
<1>3. Things(t) = Things(u) \cup Things(v) /\ Things(u) \cap Things(v) = {}
  BY DEF Things
<1> HIDE DEF u, v, t
<1>4. /\ SumFunction(u) = Total(u) /\ SumFunction(v) = Total(v)
      /\ SumFunction(t) = Total(t)
  BY <1>1, <1>2, SumIsTotal
<1>5. IsFiniteSet(Things(u)) /\ IsFiniteSet(Things(v))
  BY <1>1, <1>2, ThingsFinite
<1>6. Total(t) = Total(u) + Total(v)
  BY <1>3, <1>5, DisjointUnion DEF Total
<1> QED BY <1>4, <1>6 DEF u, v, t

-----------------------------------------------------------------------------
(* Sequences *)

\* The recursion Those is defined by, on the first k elements of s.
Picks(g, s, X, k) ==
  g = [d \in SUBSET (1 .. k) |->
         IF d = {} THEN <<>>
         ELSE IF s[Max(d)] \in X THEN Append(g[d \ {Max(d)}], s[Max(d)])
              ELSE g[d \ {Max(d)}]]

\* There is a function that the recursion behind Those defines.
LEMMA PicksExists ==
  ASSUME NEW s, NEW X
  PROVE  \A k \in Nat : \E g : Picks(g, s, X, k)
<1> DEFINE G == {k \in Nat : \E g : Picks(g, s, X, k)}
           K(r, x) == IF x \in X THEN Append(r, x) ELSE r
<1>1. 0 \in G
  <2> DEFINE g == [d \in SUBSET (1 .. 0) |-> <<>>]
  <2>1. \A d \in SUBSET (1 .. 0) : d = {}
    OBVIOUS
  <2>2. Picks(g, s, X, 0)
    BY <2>1 DEF Picks
  <2> QED BY <2>2
<1>2. ASSUME NEW k \in Nat, k \in G PROVE k + 1 \in G
  <2>1. PICK g : Picks(g, s, X, k)
    BY <1>2
  <2> DEFINE h == [d \in SUBSET (1 .. k + 1) |->
                     IF k + 1 \in d THEN K(g[d \ {k + 1}], s[k + 1]) ELSE g[d]]
             F(d) == IF d = {} THEN <<>> ELSE K(h[d \ {Max(d)}], s[Max(d)])
  <2>2. ASSUME NEW d \in SUBSET (1 .. k + 1) PROVE h[d] = F(d)
    <3>1. CASE k + 1 \in d
      <4>1. \A x \in d : x \in Nat /\ x <= k + 1
        OBVIOUS
      <4>2. Max(d) = k + 1
        <5>1. Max(d) \in d /\ \A x \in d : x <= Max(d)
          BY <4>1, <3>1, MaxOfBounded
        <5>2. Max(d) \in Nat /\ Max(d) <= k + 1 /\ k + 1 <= Max(d)
          BY <5>1, <4>1, <3>1
        <5> QED BY <5>2
      <4>3. d \ {k + 1} \in SUBSET (1 .. k + 1) /\ k + 1 \notin d \ {k + 1}
        OBVIOUS
      <4>4. h[d \ {k + 1}] = g[d \ {k + 1}]
        <5> HIDE DEF K
        <5> QED BY <4>3
      <4>5. h[d] = K(g[d \ {k + 1}], s[k + 1])
        <5> HIDE DEF K
        <5> QED BY <3>1
      <4> HIDE DEF h, K
      <4> QED BY <4>2, <4>4, <4>5, <3>1
    <3>2. CASE k + 1 \notin d
      <4>1. d \in SUBSET (1 .. k)
        BY <3>2
      <4>2. h[d] = g[d]
        <5> HIDE DEF K
        <5> QED BY <3>2
      <4>3. CASE d = {}
        BY <4>1, <4>2, <4>3, <2>1 DEF Picks
      <4>4. CASE d # {}
        <5>1. g[d] = K(g[d \ {Max(d)}], s[Max(d)])
          <6> HIDE DEF h
          <6> QED BY <4>1, <4>4, <2>1 DEF Picks
        <5>2. h[d \ {Max(d)}] = g[d \ {Max(d)}]
          <6> HIDE DEF K
          <6> QED BY <4>1, <3>2
        <5> HIDE DEF h, K
        <5> QED BY <5>1, <5>2, <4>2, <4>4
      <4> QED BY <4>3, <4>4
    <3> QED BY <3>1, <3>2
  <2>3. Picks(h, s, X, k + 1)
    <3>1. h = [d \in SUBSET (1 .. k + 1) |-> h[d]]
      OBVIOUS
    <3> HIDE DEF h
    <3> QED BY <2>2, <3>1 DEF Picks
  <2> QED BY <2>3
<1> HIDE DEF G
<1>3. \A k \in Nat : k \in G
  BY <1>1, <1>2, Induction
<1> QED BY <1>3 DEF G

\* Those keeps exactly the elements that are in the set, and adds none.
LEMMA ThoseProperties ==
  ASSUME NEW T, NEW s \in Seq(T), NEW X
  PROVE  /\ Those(s, X) \in Seq(T)
         /\ ToSet(Those(s, X)) = ToSet(s) \cap X
         /\ Len(Those(s, X)) <= Len(s)
<1> DEFINE n == Len(s)
           Good(r, d, k) == /\ r \in Seq(T) /\ Len(r) <= k
                            /\ ToSet(r) = {s[i] : i \in d} \cap X
<1>1. n \in Nat /\ DOMAIN s = 1 .. n /\ \A i \in 1 .. n : s[i] \in T
  OBVIOUS
<1> DEFINE g == CHOOSE f : Picks(f, s, X, n)
<1>2. Those(s, X) = g[1 .. n]
  <2>1. Those(s, X) = (CHOOSE f : Picks(f, s, X, n))[DOMAIN s]
    <3> HIDE DEF g, Good, n
    <3> QED BY <1>1 DEF Those, FoldLeft, MapThenFoldSet, Picks
  <2> QED BY <2>1, <1>1
<1>3. Picks(g, s, X, n)
  BY <1>1, PicksExists
<1> HIDE DEF g
<1> DEFINE G == {k \in Nat : \A d \in SUBSET (1 .. n) :
                               (\A x \in d : x <= k) => Good(g[d], d, k)}
<1>4. 0 \in G
  <2> SUFFICES ASSUME NEW d \in SUBSET (1 .. n), \A x \in d : x <= 0
               PROVE  Good(g[d], d, 0)
    BY Zenon
  <2>1. d = {}
    BY <1>1
  <2>2. g[d] = <<>>
    BY <2>1, <1>3 DEF Picks
  <2> QED BY <2>1, <2>2 DEF ToSet
<1>5. ASSUME NEW k \in Nat, k \in G PROVE k + 1 \in G
  <2>3. k + 1 \in Nat
    OBVIOUS
  <2> SUFFICES ASSUME NEW d \in SUBSET (1 .. n), \A x \in d : x <= k + 1
               PROVE  Good(g[d], d, k + 1)
    BY <2>3, Zenon
  <2>1. CASE d = {}
    <3>1. g[d] = <<>>
      BY <2>1, <1>3 DEF Picks
    <3> QED BY <2>1, <3>1 DEF ToSet
  <2>2. CASE d # {}
    <3> DEFINE e == d \ {Max(d)}
    <3>1. d \in SUBSET Nat /\ \A x \in d : x <= n
      BY <1>1
    <3>2. Max(d) \in d /\ \A x \in d : x <= Max(d)
      BY <3>1, <2>2, <1>1, MaxOfBounded
    <3>3. \A x \in e : x <= k
      <4>1. Max(d) \in Nat /\ Max(d) <= k + 1
        BY <3>1, <3>2
      <4> QED BY <3>1, <3>2, <4>1
    <3>4. Good(g[e], e, k)
      <4>1. e \in SUBSET (1 .. n)
        OBVIOUS
      <4> HIDE DEF n, Good, e
      <4> QED BY <3>3, <4>1, <1>5
    <3>5. g[d] = IF s[Max(d)] \in X THEN Append(g[e], s[Max(d)]) ELSE g[e]
      BY <2>2, <1>3 DEF Picks
    <3>6. s[Max(d)] \in T /\ {s[i] : i \in d} = {s[i] : i \in e} \cup {s[Max(d)]}
      BY <3>2, <1>1
    <3>7. ASSUME NEW r \in Seq(T), NEW x \in T
          PROVE  /\ Append(r, x) \in Seq(T) /\ Len(Append(r, x)) = Len(r) + 1
                 /\ ToSet(Append(r, x)) = ToSet(r) \cup {x}
      BY AppendProperties DEF ToSet
    <3> HIDE DEF e, n
    <3>8. CASE s[Max(d)] \in X
      <4>1. g[d] = Append(g[e], s[Max(d)])
        BY <3>5, <3>8
      <4> DEFINE r == g[e]
                 x == s[Max(d)]
      <4>2. r \in Seq(T) /\ x \in T
        BY <3>4, <3>6
      <4>3. Len(r) \in Nat
        BY <4>2
      <4> HIDE DEF r, x
      <4>4. /\ Append(r, x) \in Seq(T) /\ Len(Append(r, x)) = Len(r) + 1
            /\ ToSet(Append(r, x)) = ToSet(r) \cup {x}
        BY <3>7, <4>2
      <4>5. Len(r) <= k /\ ToSet(r) = {s[i] : i \in e} \cap X
        BY <3>4 DEF r
      <4>6. {s[i] : i \in d} = {s[i] : i \in e} \cup {x} /\ x \in X
        BY <3>6, <3>8 DEF x
      <4>7. Len(Append(r, x)) <= k + 1
        BY <4>3, <4>4, <4>5
      <4>8. ToSet(Append(r, x)) = {s[i] : i \in d} \cap X
        BY <4>4, <4>5, <4>6
      <4> QED BY <4>1, <4>4, <4>7, <4>8 DEF r, x
    <3>9. CASE s[Max(d)] \notin X
      <4>1. g[d] = g[e]
        BY <3>5, <3>9
      <4>2. Len(g[e]) \in Nat
        BY <3>4
      <4>3. Len(g[e]) <= k + 1
        BY <4>2, <3>4
      <4>4. {s[i] : i \in d} \cap X = {s[i] : i \in e} \cap X
        BY <3>6, <3>9
      <4> QED BY <4>1, <4>3, <4>4, <3>4
    <3> QED BY <3>8, <3>9
  <2> QED BY <2>1, <2>2
<1>6. n \in G
  <2> HIDE DEF G
  <2> QED BY <1>4, <1>5, <1>1, Induction
<1>7. Good(g[1 .. n], 1 .. n, n)
  <2> HIDE DEF Good
  <2>1. 1 .. n \in SUBSET (1 .. n) /\ \A x \in 1 .. n : x <= n
    BY <1>1
  <2> QED BY <1>6, <2>1
<1>8. {s[i] : i \in 1 .. n} = ToSet(s)
  BY <1>1 DEF ToSet
<1> QED BY <1>2, <1>7, <1>8

\* Those leaves a list as it is when all its elements are wanted.
LEMMA ThoseAll ==
  ASSUME NEW T, NEW s \in Seq(T), NEW X, ToSet(s) \subseteq X
  PROVE  Those(s, X) = s
<1> DEFINE n == Len(s)
           Same(r, k) == r \in Seq(T) /\ Len(r) = k /\ \A i \in 1 .. k : r[i] = s[i]
<1>1. n \in Nat /\ DOMAIN s = 1 .. n /\ \A i \in 1 .. n : s[i] \in T /\ s[i] \in X
  BY DEF ToSet
<1> DEFINE g == CHOOSE f : Picks(f, s, X, n)
<1>2. Those(s, X) = g[1 .. n]
  <2>1. Those(s, X) = (CHOOSE f : Picks(f, s, X, n))[DOMAIN s]
    <3> HIDE DEF g, Same, n
    <3> QED BY <1>1 DEF Those, FoldLeft, MapThenFoldSet, Picks
  <2> QED BY <2>1, <1>1
<1>3. Picks(g, s, X, n)
  BY <1>1, PicksExists
<1> HIDE DEF g
<1> DEFINE G == {k \in Nat : k <= n => Same(g[1 .. k], k)}
<1>4. 0 \in G
  <2>1. 1 .. 0 = {} /\ {} \in SUBSET (1 .. n)
    OBVIOUS
  <2>2. g[1 .. 0] = <<>>
    BY <2>1, <1>3 DEF Picks
  <2>3. Same(g[1 .. 0], 0)
    BY <2>2
  <2> HIDE DEF Same
  <2> QED BY <2>3
<1>5. ASSUME NEW k \in Nat, k \in G PROVE k + 1 \in G
  <2> SUFFICES ASSUME k + 1 <= n PROVE Same(g[1 .. k + 1], k + 1)
    OBVIOUS
  <2> HIDE DEF Same, G
  <2> DEFINE d == 1 .. k + 1
             r == g[1 .. k]
  <2>1. k <= n /\ k + 1 \in 1 .. n /\ d \in SUBSET (1 .. n) /\ d # {}
    <3>1. k + 1 \in d
      OBVIOUS
    <3>2. k <= n /\ k + 1 \in 1 .. n
      BY <1>1
    <3>3. \A x \in d : x \in 1 .. n
      BY <1>1, <3>2
    <3> QED BY <3>1, <3>2, <3>3
  <2>2. Max(d) = k + 1 /\ d \ {k + 1} = 1 .. k
    <3>1. d \in SUBSET Nat /\ \A x \in d : x <= k + 1
      OBVIOUS
    <3>2. Max(d) \in d /\ \A x \in d : x <= Max(d)
      <4> HIDE DEF d
      <4>1. k + 1 \in Nat
        OBVIOUS
      <4> QED BY <3>1, <2>1, <4>1, MaxOfBounded
    <3>3. k + 1 \in d
      OBVIOUS
    <3>4. Max(d) \in Nat /\ Max(d) <= k + 1 /\ k + 1 <= Max(d)
      BY <3>1, <3>2, <3>3
    <3>5. d \ {k + 1} = 1 .. k
      OBVIOUS
    <3> QED BY <3>4, <3>5
  <2>3. Same(r, k)
    BY <1>5, <2>1 DEF G
  <2> HIDE DEF d
  <2>4. g[d] = Append(g[d \ {Max(d)}], s[Max(d)])
    BY <2>1, <2>2, <1>1, <1>3 DEF Picks
  <2> HIDE DEF r, n
  <2>5. g[d] = Append(r, s[k + 1]) /\ s[k + 1] \in T
    BY <1>1, <2>1, <2>2, <2>4 DEF r
  <2>6. Same(g[d], k + 1)
    BY <2>3, <2>5 DEF Same
  <2> QED BY <2>6 DEF d
<1>6. n \in G
  <2> HIDE DEF G
  <2> QED BY <1>4, <1>5, <1>1, Induction
<1>7. Same(g[1 .. n], n)
  BY <1>1, <1>6
<1> QED BY <1>1, <1>2, <1>7

\* A part of a list.
LEMMA PartOfList ==
  ASSUME NEW T, NEW s \in Seq(T), NEW m \in 1 .. Len(s) + 1, NEW n \in 0 .. Len(s)
  PROVE  /\ SubSeq(s, m, n) \in Seq(T)
         /\ Len(SubSeq(s, m, n)) = IF m <= n THEN n - m + 1 ELSE 0
         /\ ToSet(SubSeq(s, m, n)) \subseteq ToSet(s)
<1>1. \A i \in m .. n : s[i] \in T
  OBVIOUS
<1>2. m \in Int /\ n \in Int
  OBVIOUS
<1> DEFINE r == SubSeq(s, m, n)
<1>3. /\ r \in Seq(T) /\ Len(r) = IF m <= n THEN n - m + 1 ELSE 0
      /\ \A i \in 1 .. n - m + 1 : r[i] = s[m + i - 1]
  BY <1>1, <1>2, SubSeqProperties
<1> HIDE DEF r
<1>4. \A i \in 1 .. Len(r) : r[i] = s[m + i - 1] /\ m + i - 1 \in 1 .. Len(s)
  BY <1>3
<1>5. DOMAIN r = 1 .. Len(r) /\ DOMAIN s = 1 .. Len(s)
  BY <1>3
<1>6. ToSet(r) \subseteq ToSet(s)
  BY <1>4, <1>5 DEF ToSet
<1> QED BY <1>3, <1>6 DEF r

\* A list and one more element.
LEMMA AppendToList ==
  ASSUME NEW T, NEW s \in Seq(T), NEW x \in T
  PROVE  /\ Append(s, x) \in Seq(T) /\ Len(Append(s, x)) = Len(s) + 1
         /\ Len(s) \in Nat
         /\ ToSet(Append(s, x)) = ToSet(s) \cup {x}
BY AppendProperties DEF ToSet

\* The elements of a list.
LEMMA ElementsOfList ==
  ASSUME NEW T, NEW s \in Seq(T)
  PROVE  ToSet(s) \subseteq T
BY DEF ToSet

\* The first element of a list, and the others.
LEMMA FirstAndRest ==
  ASSUME NEW T, NEW s \in Seq(T), s # <<>>
  PROVE  /\ Head(s) = s[1] /\ Head(s) \in T /\ 1 \in DOMAIN s /\ Len(s) \in Nat
         /\ Tail(s) \in Seq(T) /\ Len(Tail(s)) = Len(s) - 1
         /\ \A i \in DOMAIN Tail(s) : i + 1 \in DOMAIN s /\ Tail(s)[i] = s[i + 1]
         /\ \A i \in DOMAIN s \ {1} : i - 1 \in DOMAIN Tail(s)
         /\ ToSet(s) = {Head(s)} \cup ToSet(Tail(s))
<1>1. Len(s) \in Nat \ {0} /\ Head(s) = s[1] /\ DOMAIN s = 1 .. Len(s)
  OBVIOUS
<1>2. /\ Head(s) \in T /\ Tail(s) \in Seq(T) /\ Len(Tail(s)) = Len(s) - 1
      /\ \A i \in 1 .. Len(Tail(s)) : Tail(s)[i] = s[i + 1]
  BY HeadTailProperties
<1>3. DOMAIN Tail(s) = 1 .. Len(s) - 1
  BY <1>2
<1>4. \A i \in DOMAIN Tail(s) : i + 1 \in DOMAIN s /\ Tail(s)[i] = s[i + 1]
  BY <1>1, <1>2, <1>3
<1>5. \A i \in DOMAIN s \ {1} : i - 1 \in DOMAIN Tail(s) /\ Tail(s)[i - 1] = s[i]
  <2> SUFFICES ASSUME NEW i \in DOMAIN s \ {1}
               PROVE  i - 1 \in DOMAIN Tail(s) /\ Tail(s)[i - 1] = s[i]
    OBVIOUS
  <2>1. i - 1 \in DOMAIN Tail(s) /\ (i - 1) + 1 = i
    BY <1>1, <1>3
  <2> QED BY <2>1, <1>4
<1>6. ToSet(s) = {Head(s)} \cup ToSet(Tail(s))
  <2>1. ToSet(s) \subseteq {Head(s)} \cup ToSet(Tail(s))
    BY <1>1, <1>5 DEF ToSet
  <2>2. {Head(s)} \cup ToSet(Tail(s)) \subseteq ToSet(s)
    BY <1>1, <1>4 DEF ToSet
  <2> QED BY <2>1, <2>2
<1> QED BY <1>1, <1>2, <1>4, <1>5, <1>6

\* How often x is in a list.
Count(s, x) == Cardinality({i \in DOMAIN s : s[i] = x})

\* It is a number.
LEMMA CountType ==
  ASSUME NEW T, NEW s \in Seq(T), NEW x
  PROVE  /\ Count(s, x) \in Nat /\ IsFiniteSet({i \in DOMAIN s : s[i] = x})
<1>1. DOMAIN s = 1 .. Len(s) /\ Len(s) \in Nat
  OBVIOUS
<1>2. IsFiniteSet(1 .. Len(s))
  BY <1>1, FS_Interval
<1>3. {i \in DOMAIN s : s[i] = x} \in SUBSET (1 .. Len(s))
  BY <1>1
<1>4. IsFiniteSet({i \in DOMAIN s : s[i] = x})
  BY <1>2, <1>3, FS_Subset
<1> QED BY <1>4, FS_CardinalityType DEF Count

\* One element more.
LEMMA CountAppend ==
  ASSUME NEW T, NEW s \in Seq(T), NEW e \in T, NEW x, e # x
  PROVE  Count(Append(s, e), x) = Count(s, x)
<1>1. {i \in DOMAIN Append(s, e) : Append(s, e)[i] = x} = {i \in DOMAIN s : s[i] = x}
  <2>1. /\ DOMAIN s = 1 .. Len(s) /\ Len(s) \in Nat
        /\ Append(s, e) \in Seq(T) /\ Len(Append(s, e)) = Len(s) + 1
        /\ \A i \in 1 .. Len(s) : Append(s, e)[i] = s[i]
        /\ Append(s, e)[Len(s) + 1] = e
    BY AppendProperties
  <2> DEFINE r == Append(s, e)
  <2> HIDE DEF r
  <2>2. DOMAIN r = 1 .. Len(s) + 1
    BY <2>1 DEF r
  <2>3. {i \in DOMAIN r : r[i] = x} = {i \in DOMAIN s : s[i] = x}
    BY <2>1, <2>2 DEF r
  <2> QED BY <2>3 DEF r
<1> QED BY <1>1 DEF Count

\* One element less.
LEMMA CountTail ==
  ASSUME NEW T, NEW s \in Seq(T), s # <<>>, NEW x
  PROVE  Count(s, x) = Count(Tail(s), x) + (IF Head(s) = x THEN 1 ELSE 0)
<1> DEFINE A == {i \in DOMAIN s : s[i] = x}
           r == Tail(s)
           B == {i \in DOMAIN r : r[i] = x}
           f == [i \in A \ {1} |-> i - 1]
<1>1. /\ Head(s) = s[1] /\ 1 \in DOMAIN s /\ Len(s) \in Nat /\ r \in Seq(T)
      /\ \A i \in DOMAIN r : i + 1 \in DOMAIN s /\ r[i] = s[i + 1]
      /\ \A i \in DOMAIN s \ {1} : i - 1 \in DOMAIN r
  BY FirstAndRest
<1>2. IsFiniteSet(A) /\ IsFiniteSet(B) /\ Cardinality(A) \in Nat /\ Cardinality(B) \in Nat
  BY <1>1, CountType DEF Count
<1>3. DOMAIN s \subseteq Nat /\ DOMAIN r \subseteq Nat
  BY <1>1
<1> HIDE DEF r
<1>4. \A i \in A \ {1} : f[i] = i - 1 /\ f[i] \in B /\ f[i] + 1 = i
  <2> SUFFICES ASSUME NEW i \in A \ {1} PROVE i - 1 \in B /\ (i - 1) + 1 = i
    OBVIOUS
  <2>1. i - 1 \in DOMAIN r /\ (i - 1) + 1 = i
    BY <1>1, <1>3
  <2> QED BY <1>1, <2>1
<1>5. \A j \in B : j + 1 \in A \ {1} /\ f[j + 1] = j
  <2> SUFFICES ASSUME NEW j \in B PROVE j + 1 \in A \ {1} /\ (j + 1) - 1 = j
    OBVIOUS
  <2>1. j \in 1 .. Len(r)
    BY <1>1
  <2> QED BY <1>1, <2>1
<1>6. f \in Bijection(A \ {1}, B)
  <2>1. f \in [A \ {1} -> B]
    BY <1>4
  <2>2. \A i, j \in A \ {1} : f[i] = f[j] => i = j
    BY <1>4
  <2>3. \A j \in B : \E i \in A \ {1} : f[i] = j
    BY <1>5
  <2> HIDE DEF f, A, B
  <2> QED BY <2>1, <2>2, <2>3 DEF Bijection, Injection, Surjection, IsInjective
<1> HIDE DEF A, B, f
<1>7. /\ IsFiniteSet(A \ {1})
      /\ Cardinality(A \ {1}) = IF 1 \in A THEN Cardinality(A) - 1 ELSE Cardinality(A)
  BY <1>2, FS_RemoveElement
<1>8. Cardinality(B) = Cardinality(A \ {1})
  BY <1>6, <1>7, FS_Bijection DEF ExistsBijection
<1>9. 1 \in A <=> Head(s) = x
  BY <1>1 DEF A
<1>10. Cardinality(A) = Cardinality(B) + (IF Head(s) = x THEN 1 ELSE 0)
  BY <1>2, <1>7, <1>8, <1>9
<1> QED BY <1>10 DEF Count, A, B, r
=============================================================================
