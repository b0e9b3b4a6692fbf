-------------------------- MODULE PageTableProofs --------------------------
(***************************************************************************)
(* What the native page table keeps true.  PageInv is inductive: besides   *)
(* the counter and the limit it says, of every page, that the table has    *)
(* its content or that the newest of its evictions does.  One lemma on     *)
(* Settle serves both the page that comes and the page that comes back.    *)
(***************************************************************************)
EXTENDS PageTable, DataLemmas

\* The numbers.
LEMMA PageLimits ==
  /\ MaxActive \in Nat /\ DefaultActive \in Nat /\ MaxPages \in Nat
  /\ PageSizes \subseteq Nat /\ Stub \notin Contents
BY PageAssumption

-----------------------------------------------------------------------------
(* Sizes *)

\* A part of the pages, and what is left of it.
LEMMA SizeSplit ==
  ASSUME NEW ps \in Seq(Page), NEW S \in SUBSET DOMAIN ps, NEW R \in SUBSET S
  PROVE  /\ SizeOf(ps, S) \in Nat /\ SizeOf(ps, R) \in Nat
         /\ SizeOf(ps, S \ R) \in Nat /\ SizeOf(ps, R) <= SizeOf(ps, S)
         /\ SizeOf(ps, S) = SizeOf(ps, R) + SizeOf(ps, S \ R)
<1> DEFINE w == [i \in S |-> ps[i].tokens]
<1>1. IsFiniteSet(S)
  <2>1. DOMAIN ps = 1 .. Len(ps) /\ Len(ps) \in Nat
    OBVIOUS
  <2>2. IsFiniteSet(DOMAIN ps)
    BY <2>1, FS_Interval
  <2> QED BY <2>2, FS_Subset
<1>2. w \in [S -> Nat]
  <2> SUFFICES ASSUME NEW i \in S PROVE ps[i].tokens \in Nat
    OBVIOUS
  <2>1. ps[i] \in Page
    OBVIOUS
  <2> QED BY <2>1, PageLimits DEF Page
<1>3. /\ [i \in R |-> w[i]] = [i \in R |-> ps[i].tokens]
      /\ [i \in S \ R |-> w[i]] = [i \in S \ R |-> ps[i].tokens]
      /\ [i \in S |-> w[i]] = w
  OBVIOUS
<1> HIDE DEF w
<1>4. /\ SizeOf(ps, R) = SumFunction([y \in R |-> w[y]])
      /\ SizeOf(ps, S \ R) = SumFunction([y \in S \ R |-> w[y]])
      /\ SizeOf(ps, S) = SumFunction([y \in S |-> w[y]])
  BY <1>3 DEF SizeOf, w
<1>5. /\ SumFunction([y \in R |-> w[y]]) \in Nat
      /\ SumFunction([y \in S |-> w[y]]) \in Nat
      /\ SumFunction([y \in R |-> w[y]]) <= SumFunction([y \in S |-> w[y]])
  BY <1>1, <1>2, SumSubset
<1>6. SumFunction([y \in S \ R |-> w[y]]) \in Nat
  <2>1. S \ R \in SUBSET S
    OBVIOUS
  <2> QED BY <1>1, <1>2, <2>1, SumSubset
<1>7. SumFunction([y \in S |-> w[y]]) =
        SumFunction([y \in R |-> w[y]]) + SumFunction([y \in S \ R |-> w[y]])
  BY <1>1, <1>2, SumSplit
<1> QED BY <1>4, <1>5, <1>6, <1>7

\* One page has its own size.
LEMMA SizeOfOne ==
  ASSUME NEW ps \in Seq(Page), NEW i \in DOMAIN ps
  PROVE  SizeOf(ps, {i}) = ps[i].tokens /\ ps[i].tokens \in Nat
<1> DEFINE n == ps[i].tokens
           w == [j \in {i} |-> n]
<1>1. n \in Nat
  <2>1. ps[i] \in Page
    OBVIOUS
  <2> QED BY <2>1, PageLimits DEF Page
<1>2. SizeOf(ps, {i}) = SumFunction(w)
  <2>1. [j \in {i} |-> ps[j].tokens] = w
    OBVIOUS
  <2> QED BY <2>1 DEF SizeOf
<1>3. IsFiniteSet({i}) /\ Cardinality({i}) = 1
  BY FS_Singleton
<1>4. w \in [{i} -> Nat]
  BY <1>1
<1>5. Total(w) = Cardinality({i}) * n
  <2> HIDE DEF n
  <2> QED BY <1>1, <1>3, TotalConstant
<1>6. SumFunction(w) = Total(w)
  <2> HIDE DEF w
  <2> QED BY <1>3, <1>4, SumIsTotal
<1>7. Total(w) = n
  <2> HIDE DEF w, n
  <2> QED BY <1>1, <1>3, <1>5
<1> QED BY <1>1, <1>2, <1>6, <1>7

\* One page more.
LEMMA SizeOfMore ==
  ASSUME NEW ps \in Seq(Page), NEW S \in SUBSET DOMAIN ps,
         NEW i \in DOMAIN ps, i \notin S
  PROVE  SizeOf(ps, S \cup {i}) = SizeOf(ps, S) + ps[i].tokens
<1>1. S \cup {i} \in SUBSET DOMAIN ps /\ {i} \in SUBSET (S \cup {i})
  OBVIOUS
<1>2. (S \cup {i}) \ {i} = S
  OBVIOUS
<1> DEFINE T == S \cup {i}
<1> HIDE DEF T
<1>3. SizeOf(ps, T) = SizeOf(ps, {i}) + SizeOf(ps, T \ {i})
      /\ SizeOf(ps, T \ {i}) \in Nat
  BY <1>1, SizeSplit DEF T
<1>4. SizeOf(ps, {i}) = ps[i].tokens /\ ps[i].tokens \in Nat
  BY SizeOfOne
<1>5. SizeOf(ps, T \ {i}) = SizeOf(ps, S)
  BY <1>2 DEF T
<1>6. SizeOf(ps, T) = SizeOf(ps, S) + ps[i].tokens
  BY <1>3, <1>4, <1>5
<1> QED BY <1>6 DEF T

\* Pages of the same sizes.
LEMMA SizeSame ==
  ASSUME NEW ps, NEW qs, NEW S, \A i \in S : ps[i].tokens = qs[i].tokens
  PROVE  SizeOf(ps, S) = SizeOf(qs, S)
<1>1. [i \in S |-> ps[i].tokens] = [i \in S |-> qs[i].tokens]
  OBVIOUS
<1> QED BY <1>1 DEF SizeOf

\* Paging out the victims brings the rest down to 70% of the limit.
LEMMA VictimsEnough ==
  ASSUME NEW ps \in Seq(Page), NEW max \in Nat, NEW act,
         act = SizeOf(ps, Active(ps))
  PROVE  LET V == Victims(ps, act, max)
         IN /\ V \in SUBSET Active(ps)
            /\ SizeOf(ps, Active(ps) \ V) <= max
<1> DEFINE A == Active(ps)
           V == Victims(ps, act, max)
           T == (max * 7) \div 10
           P(i) == {j \in A : j < i}
<1>1. A \in SUBSET DOMAIN ps /\ V \in SUBSET A /\ A \ V \in SUBSET A
  BY DEF Active, Victims
<1>2. T \in Nat /\ T <= max
  OBVIOUS
<1>3. \A i \in A \ V : ~ (act > T + SizeOf(ps, P(i)))
  BY DEF Victims
<1>4. A \in SUBSET Nat
  BY DEF Active
<1> HIDE DEF A, V, T
<1>5. /\ SizeOf(ps, A) \in Nat /\ SizeOf(ps, V) \in Nat
      /\ SizeOf(ps, A \ V) \in Nat
      /\ SizeOf(ps, A) = SizeOf(ps, V) + SizeOf(ps, A \ V)
  BY <1>1, SizeSplit
<1>6. CASE A \ V = {}
  <2>1. {} \in SUBSET {} /\ {} \ {} = {}
    OBVIOUS
  <2>2. /\ SizeOf(ps, {}) \in Nat
        /\ SizeOf(ps, {}) = SizeOf(ps, {}) + SizeOf(ps, {} \ {})
    BY <2>1, SizeSplit
  <2>3. SizeOf(ps, {}) = 0
    BY <2>1, <2>2
  <2>4. SizeOf(ps, A \ V) = SizeOf(ps, {})
    BY <1>6, Zenon
  <2>5. SizeOf(ps, A \ V) <= max
    BY <2>3, <2>4
  <2> QED BY <1>1, <2>5 DEF A, V
<1>7. CASE A \ V # {}
  <2>1. A \ V \in SUBSET Nat
    BY <1>4
  <2>2. PICK i \in A \ V : \A k \in A \ V : i <= k
    BY <2>1, <1>7, LeastNumber
  <2>3. P(i) \in SUBSET V
    BY <2>1, <2>2, <1>4
  <2>4. SizeOf(ps, P(i)) \in Nat /\ SizeOf(ps, P(i)) <= SizeOf(ps, V)
    <3>1. V \in SUBSET DOMAIN ps
      BY <1>1
    <3> HIDE DEF P
    <3> QED BY <3>1, <2>3, SizeSplit
  <2>5. ~ (act > T + SizeOf(ps, P(i)))
    BY <1>3, <2>2
  <2> HIDE DEF P
  <2>6. act = SizeOf(ps, A)
    BY DEF A
  <2>7. SizeOf(ps, A \ V) <= max
    BY <1>2, <1>5, <2>4, <2>5, <2>6
  <2> QED BY <1>1, <2>7 DEF A, V
<1> QED BY <1>6, <1>7

-----------------------------------------------------------------------------
(* Evictions *)

\* The newest of the evictions of page i has content c.
Latest(es, i, c) ==
  LET mine == {k \in DOMAIN es : es[k].page = i}
  IN mine # {} /\ es[Max(mine)].content = c

\* Max is what it should be.
LEMMA NewestEviction ==
  ASSUME NEW es \in Seq(Eviction), NEW i, NEW c,
         NEW m \in DOMAIN es, es[m].page = i,
         \A k \in DOMAIN es : es[k].page = i => k <= m, es[m].content = c
  PROVE  Latest(es, i, c)
<1> DEFINE mine == {k \in DOMAIN es : es[k].page = i}
<1>1. /\ mine \in SUBSET Nat /\ mine # {} /\ m \in Nat /\ m \in mine
      /\ \A x \in mine : x <= m
  OBVIOUS
<1> HIDE DEF mine
<1>2. Max(mine) \in mine /\ \A x \in mine : x <= Max(mine)
  BY <1>1, MaxOfBounded
<1>3. Max(mine) = m
  <2>1. Max(mine) \in Nat /\ Max(mine) <= m /\ m <= Max(mine)
    BY <1>1, <1>2
  <2> QED BY <2>1, <1>1
<1> QED BY <1>1, <1>3 DEF Latest, mine

\* It is the newest.
LEMMA LatestIs ==
  ASSUME NEW es \in Seq(Eviction), NEW i, NEW c, Latest(es, i, c)
  PROVE  \E m \in DOMAIN es :
           /\ es[m].page = i /\ es[m].content = c
           /\ \A k \in DOMAIN es : es[k].page = i => k <= m
<1> DEFINE mine == {k \in DOMAIN es : es[k].page = i}
<1>1. mine \in SUBSET Nat /\ mine # {} /\ \A x \in mine : x <= Len(es)
  BY DEF Latest
<1>2. es[Max(mine)].content = c
  BY DEF Latest
<1>3. Len(es) \in Nat
  OBVIOUS
<1>4. Max(mine) \in mine /\ \A x \in mine : x <= Max(mine)
  <2> HIDE DEF mine
  <2> QED BY <1>1, <1>3, MaxOfBounded
<1> QED BY <1>2, <1>4

\* More evictions, none of which is of the page.
LEMMA LatestKept ==
  ASSUME NEW es \in Seq(Eviction), NEW ns \in Seq(Eviction), NEW i, NEW c,
         Latest(es, i, c), \A e \in ToSet(ns) : e.page # i
  PROVE  Latest(es \o ns, i, c)
<1> DEFINE all == es \o ns
<1>1. /\ all \in Seq(Eviction) /\ Len(all) = Len(es) + Len(ns)
      /\ \A k \in 1 .. Len(es) : all[k] = es[k]
      /\ \A k \in Len(es) + 1 .. Len(es) + Len(ns) : all[k] = ns[k - Len(es)]
  BY ConcatProperties
<1>2. Len(es) \in Nat /\ Len(ns) \in Nat
  OBVIOUS
<1>3. PICK m \in DOMAIN es :
        /\ es[m].page = i /\ es[m].content = c
        /\ \A k \in DOMAIN es : es[k].page = i => k <= m
  BY LatestIs
<1> HIDE DEF all
<1>4. \A k \in Len(es) + 1 .. Len(es) + Len(ns) : all[k].page # i
  <2> SUFFICES ASSUME NEW k \in Len(es) + 1 .. Len(es) + Len(ns)
               PROVE  all[k].page # i
    OBVIOUS
  <2>1. k - Len(es) \in DOMAIN ns
    BY <1>2
  <2>2. ns[k - Len(es)] \in ToSet(ns)
    BY <2>1 DEF ToSet
  <2> QED BY <2>2, <1>1
<1>5. m \in DOMAIN all /\ all[m] = es[m]
  BY <1>1, <1>2
<1>6. \A k \in DOMAIN all : all[k].page = i => k <= m
  <2> SUFFICES ASSUME NEW k \in DOMAIN all, all[k].page = i PROVE k <= m
    OBVIOUS
  <2>1. k \in 1 .. Len(es) \/ k \in Len(es) + 1 .. Len(es) + Len(ns)
    BY <1>1, <1>2
  <2>2. k \in 1 .. Len(es) /\ all[k] = es[k]
    BY <2>1, <1>1, <1>4
  <2> QED BY <2>2, <1>3
<1>7. Latest(all, i, c)
  BY <1>1, <1>3, <1>5, <1>6, NewestEviction
<1> QED BY <1>7 DEF all

\* More evictions, some of which are of the page.
LEMMA LatestNew ==
  ASSUME NEW es \in Seq(Eviction), NEW ns \in Seq(Eviction), NEW i, NEW c,
         \E e \in ToSet(ns) : e.page = i,
         \A e \in ToSet(ns) : e.page = i => e.content = c
  PROVE  Latest(es \o ns, i, c)
<1> DEFINE all == es \o ns
           mine == {k \in DOMAIN all : all[k].page = i}
<1>1. /\ all \in Seq(Eviction) /\ Len(all) = Len(es) + Len(ns)
      /\ \A k \in Len(es) + 1 .. Len(es) + Len(ns) : all[k] = ns[k - Len(es)]
  BY ConcatProperties
<1>2. Len(es) \in Nat /\ Len(ns) \in Nat /\ Len(all) \in Nat
  BY <1>1
<1>3. PICK j \in DOMAIN ns : ns[j].page = i
  BY DEF ToSet
<1> HIDE DEF all
<1>4. Len(es) + j \in mine
  <2>1. Len(es) + j \in Len(es) + 1 .. Len(es) + Len(ns)
    BY <1>2
  <2>2. (Len(es) + j) - Len(es) = j
    BY <1>2
  <2> QED BY <1>1, <1>2, <1>3, <2>1, <2>2
<1>5. mine \in SUBSET Nat /\ \A x \in mine : x <= Len(all)
  BY <1>1
<1>6. Max(mine) \in mine /\ \A x \in mine : x <= Max(mine)
  <2> HIDE DEF mine
  <2> QED BY <1>2, <1>4, <1>5, MaxOfBounded
<1>7. PICK m \in mine : \A x \in mine : x <= m
  BY <1>6
<1>8. m \in Len(es) + 1 .. Len(es) + Len(ns)
  <2>1. Len(es) + j <= m
    BY <1>4, <1>7
  <2> QED BY <2>1, <1>1, <1>2, <1>3, <1>5
<1>9. all[m].content = c
  <2>1. m - Len(es) \in DOMAIN ns
    BY <1>8, <1>2
  <2>2. ns[m - Len(es)] \in ToSet(ns)
    BY <2>1 DEF ToSet
  <2>3. all[m] = ns[m - Len(es)] /\ all[m].page = i
    BY <1>1, <1>7, <1>8
  <2> QED BY <2>2, <2>3
<1>10. Latest(all, i, c)
  BY <1>1, <1>7, <1>9, NewestEviction
<1> QED BY <1>10 DEF all

\* The evictions are those of the pages that go out, with their content.
LEMMA EvictedProperties ==
  ASSUME NEW ps \in Seq(Page), Len(ps) <= MaxPages, NEW S \in SUBSET DOMAIN ps
  PROVE  /\ Evicted(ps, S) \in Seq(Eviction)
         /\ ToSet(Evicted(ps, S)) = {[page |-> i, content |-> ps[i].content] : i \in S}
<1> DEFINE copies == [i \in DOMAIN ps |-> [page |-> i, content |-> ps[i].content]]
           X == {copies[i] : i \in S}
<1>1. DOMAIN ps = 1 .. Len(ps) /\ Len(ps) \in Nat
  OBVIOUS
<1>2. \A i \in 1 .. Len(ps) : copies[i] \in Eviction
  <2> SUFFICES ASSUME NEW i \in 1 .. Len(ps)
               PROVE  [page |-> i, content |-> ps[i].content] \in Eviction
    OBVIOUS
  <2>1. ps[i] \in Page
    OBVIOUS
  <2>2. ps[i].content \in Contents \cup {Stub}
    BY <2>1 DEF Page
  <2>3. i \in 1 .. MaxPages
    BY PageLimits
  <2> QED BY <2>2, <2>3 DEF Eviction
<1>3. copies \in Seq(Eviction)
  BY <1>1, <1>2
<1>4. X \subseteq ToSet(copies)
  BY <1>1 DEF ToSet
<1>5. X = {[page |-> i, content |-> ps[i].content] : i \in S}
  OBVIOUS
<1>6. Evicted(ps, S) = Those(copies, X)
  BY DEF Evicted
<1> HIDE DEF copies, X
<1>7. Those(copies, X) \in Seq(Eviction) /\ ToSet(Those(copies, X)) = ToSet(copies) \cap X
  BY <1>3, ThoseProperties
<1> QED BY <1>4, <1>5, <1>6, <1>7

-----------------------------------------------------------------------------
(* One page table *)

\* Every page has its content, or the newest of its evictions does.
ContentKept(ps, es, wr) ==
  \A i \in DOMAIN ps :
    /\ ps[i].out => Latest(es, i, wr[i])
    /\ ~ ps[i].out => ps[i].content = wr[i]

\* The page table is in order.
InOrder(ps, act, max, es, wr) ==
  act = SizeOf(ps, Active(ps)) /\ act <= max /\ ContentKept(ps, es, wr)

\* What Settle takes out, and the pages it leaves.
Out(ps, act, max) == IF act > max THEN Victims(ps, act, max) ELSE {}
PagedOut(ps, out) ==
  [i \in DOMAIN ps |-> IF i \in out
                       THEN [ps[i] EXCEPT !.out = TRUE, !.content = Stub]
                       ELSE ps[i]]

\* After Settle the active pages fit the limit, whether it had to page out or
\* not.
LEMMA OutEnough ==
  ASSUME NEW ps \in Seq(Page), NEW max \in Nat, NEW act,
         act = SizeOf(ps, Active(ps))
  PROVE  /\ Out(ps, act, max) \in SUBSET Active(ps)
         /\ act \in Nat /\ act - SizeOf(ps, Out(ps, act, max)) \in Nat
         /\ act - SizeOf(ps, Out(ps, act, max)) =
              SizeOf(ps, Active(ps) \ Out(ps, act, max))
         /\ act - SizeOf(ps, Out(ps, act, max)) <= max
<1> DEFINE A == Active(ps)
           O == Out(ps, act, max)
           V == Victims(ps, act, max)
<1>1. V \in SUBSET A /\ SizeOf(ps, A \ V) <= max
  BY VictimsEnough
<1>2. O \in SUBSET A /\ A \in SUBSET DOMAIN ps
  BY <1>1 DEF Out, Active
<1>3. act = SizeOf(ps, A)
  OBVIOUS
<1>4. O = IF act > max THEN V ELSE {}
  BY DEF Out
<1> HIDE DEF A, O, V
<1>5. /\ SizeOf(ps, A) \in Nat /\ SizeOf(ps, O) \in Nat
      /\ SizeOf(ps, A \ O) \in Nat
      /\ SizeOf(ps, A) = SizeOf(ps, O) + SizeOf(ps, A \ O)
  BY <1>2, SizeSplit
<1>6. act - SizeOf(ps, O) = SizeOf(ps, A \ O)
  BY <1>3, <1>5
<1>7. SizeOf(ps, A \ O) <= max
  <2>1. CASE act > max
    <3>1. SizeOf(ps, A \ O) = SizeOf(ps, A \ V)
      BY <1>4, <2>1
    <3> QED BY <1>1, <3>1
  <2>2. CASE ~ (act > max)
    BY <1>3, <1>5, <2>2
  <2> QED BY <2>1, <2>2
<1> QED BY <1>2, <1>3, <1>5, <1>6, <1>7 DEF A, O

\* Paging out changes the pages that go out, and their sizes not at all.
LEMMA PagedOutPages ==
  ASSUME NEW ps \in Seq(Page), NEW out \in SUBSET Active(ps)
  PROVE  /\ PagedOut(ps, out) \in Seq(Page)
         /\ Len(PagedOut(ps, out)) = Len(ps)
         /\ DOMAIN PagedOut(ps, out) = DOMAIN ps
         /\ \A i \in DOMAIN ps : PagedOut(ps, out)[i].tokens = ps[i].tokens
         /\ \A i \in out : PagedOut(ps, out)[i].out
         /\ \A i \in DOMAIN ps \ out : PagedOut(ps, out)[i] = ps[i]
         /\ Active(PagedOut(ps, out)) = Active(ps) \ out
<1> DEFINE qs == PagedOut(ps, out)
<1>1. DOMAIN ps = 1 .. Len(ps) /\ Len(ps) \in Nat
  OBVIOUS
<1>2. \A i \in DOMAIN ps : ps[i] \in Page
  OBVIOUS
<1>3. DOMAIN qs = DOMAIN ps
  BY DEF PagedOut
<1>4. \A i \in DOMAIN ps \ out : qs[i] = ps[i]
  BY DEF PagedOut
<1>5. \A i \in out : /\ qs[i] \in Page /\ qs[i].out
                     /\ qs[i].tokens = ps[i].tokens
  <2> SUFFICES ASSUME NEW i \in out
               PROVE  /\ qs[i] \in Page /\ qs[i].out
                      /\ qs[i].tokens = ps[i].tokens
    OBVIOUS
  <2>1. i \in DOMAIN ps
    BY DEF Active
  <2>2. qs[i] = [ps[i] EXCEPT !.out = TRUE, !.content = Stub]
    BY <2>1 DEF PagedOut
  <2> QED BY <2>1, <2>2, <1>2 DEF Page
<1>6. out \in SUBSET DOMAIN ps
  BY DEF Active
<1> HIDE DEF qs
<1>7. \A i \in 1 .. Len(ps) : qs[i] \in Page
  BY <1>1, <1>2, <1>4, <1>5
<1>8. qs \in Seq(Page) /\ Len(qs) = Len(ps)
  <2>1. qs = [i \in 1 .. Len(ps) |-> qs[i]]
    BY <1>1, <1>3 DEF qs, PagedOut
  <2> QED BY <1>1, <1>7, <2>1
<1>9. Active(qs) = Active(ps) \ out
  BY <1>3, <1>4, <1>5, <1>6 DEF Active
<1> QED BY <1>3, <1>4, <1>5, <1>8, <1>9 DEF qs

\* Settle puts in order a table whose pages have their content, however many
\* tokens are active.
LEMMA SettlesInOrder ==
  ASSUME NEW ps \in Seq(Page), Len(ps) <= MaxPages, NEW max \in Nat, NEW act,
         act = SizeOf(ps, Active(ps)), NEW es \in Seq(Eviction),
         NEW wr \in Seq(Contents), Len(wr) = Len(ps), ContentKept(ps, es, wr)
  PROVE  LET out == Out(ps, act, max)
         IN InOrder(PagedOut(ps, out), act - SizeOf(ps, out), max,
                    es \o Evicted(ps, out), wr)
<1> DEFINE out == Out(ps, act, max)
           qs == PagedOut(ps, out)
           ns == Evicted(ps, out)
           rest == act - SizeOf(ps, out)
<1>1. /\ out \in SUBSET Active(ps)
      /\ rest = SizeOf(ps, Active(ps) \ out) /\ rest <= max
  BY OutEnough
<1>2. out \in SUBSET DOMAIN ps
  BY <1>1 DEF Active
<1> HIDE DEF out, rest
<1>3. /\ DOMAIN qs = DOMAIN ps
      /\ \A i \in DOMAIN ps : qs[i].tokens = ps[i].tokens
      /\ \A i \in out : qs[i].out
      /\ \A i \in DOMAIN ps \ out : qs[i] = ps[i]
      /\ Active(qs) = Active(ps) \ out
  BY <1>1, PagedOutPages
<1>4. /\ ns \in Seq(Eviction)
      /\ ToSet(ns) = {[page |-> i, content |-> ps[i].content] : i \in out}
  BY <1>2, EvictedProperties
<1> HIDE DEF qs, ns
<1>5. SizeOf(ps, Active(qs)) = SizeOf(qs, Active(qs))
  <2>1. Active(qs) \subseteq DOMAIN ps
    BY <1>3 DEF Active
  <2> DEFINE S == Active(qs)
  <2>2. \A i \in S : ps[i].tokens = qs[i].tokens
    BY <1>3, <2>1
  <2> HIDE DEF S
  <2>3. SizeOf(ps, S) = SizeOf(qs, S)
    BY <2>2, SizeSame
  <2> QED BY <2>3 DEF S
<1>6. rest = SizeOf(qs, Active(qs))
  BY <1>1, <1>3, <1>5
<1>7. ContentKept(qs, es \o ns, wr)
  <2> SUFFICES ASSUME NEW i \in DOMAIN ps
               PROVE  /\ qs[i].out => Latest(es \o ns, i, wr[i])
                      /\ ~ qs[i].out => qs[i].content = wr[i]
    BY <1>3 DEF ContentKept
  <2>1. CASE i \in out
    <3>1. ps[i].content = wr[i]
      BY <1>1, <2>1 DEF ContentKept, Active
    <3> DEFINE e == [page |-> i, content |-> ps[i].content]
               c == wr[i]
    <3>2. e \in ToSet(ns) /\ e.page = i
      BY <1>4, <2>1
    <3>3. \A f \in ToSet(ns) : f.page = i => f.content = c
      BY <1>4, <3>1
    <3> HIDE DEF c
    <3>4. Latest(es \o ns, i, c)
      BY <1>4, <3>2, <3>3, LatestNew
    <3> QED BY <3>4, <1>3, <2>1 DEF c
  <2>2. CASE i \notin out
    <3>1. qs[i] = ps[i]
      BY <1>3, <2>2
    <3>2. \A f \in ToSet(ns) : f.page # i
      BY <1>4, <2>2
    <3> DEFINE c == wr[i]
    <3>3. ASSUME ps[i].out PROVE Latest(es \o ns, i, c)
      <4>1. Latest(es, i, c)
        BY <3>3 DEF ContentKept
      <4> HIDE DEF c
      <4> QED BY <4>1, <1>4, <3>2, LatestKept
    <3>4. ~ ps[i].out => ps[i].content = wr[i]
      BY DEF ContentKept
    <3> QED BY <3>1, <3>3, <3>4
  <2> QED BY <2>1, <2>2
<1> QED BY <1>1, <1>6, <1>7 DEF InOrder, out, qs, ns, rest

\* A page that comes.
LEMMA PageComes ==
  ASSUME NEW ps \in Seq(Page), NEW act, NEW max, NEW es, NEW wr \in Seq(Contents),
         Len(wr) = Len(ps), InOrder(ps, act, max, es, wr),
         NEW tokens \in PageSizes, NEW content \in Contents
  PROVE  LET page == [tokens |-> tokens, out |-> FALSE, content |-> content]
             qs == Append(ps, page)
         IN /\ qs \in Seq(Page) /\ Len(qs) = Len(ps) + 1
            /\ act + tokens = SizeOf(qs, Active(qs))
            /\ ContentKept(qs, es, Append(wr, content))
<1> DEFINE page == [tokens |-> tokens, out |-> FALSE, content |-> content]
           qs == Append(ps, page)
           n == Len(ps) + 1
           A == Active(ps)
           vr == Append(wr, content)
<1>1. page \in Page
  BY DEF Page
<1>2. /\ qs \in Seq(Page) /\ Len(qs) = n /\ Len(ps) \in Nat
      /\ \A i \in DOMAIN ps : qs[i] = ps[i]
      /\ qs[n] = page /\ DOMAIN qs = DOMAIN ps \cup {n} /\ n \notin DOMAIN ps
  <2>1. /\ qs \in Seq(Page) /\ Len(qs) = Len(ps) + 1
        /\ \A i \in 1 .. Len(ps) : qs[i] = ps[i]
        /\ qs[Len(ps) + 1] = page
    <3> HIDE DEF page
    <3> QED BY <1>1, AppendProperties
  <2>2. DOMAIN ps = 1 .. Len(ps) /\ Len(ps) \in Nat
    OBVIOUS
  <2> HIDE DEF page, qs
  <2>3. DOMAIN qs = 1 .. Len(ps) + 1
    BY <2>1
  <2> QED BY <2>1, <2>2, <2>3
<1>3. \A i \in DOMAIN ps : vr[i] = wr[i]
  <2>1. \A i \in 1 .. Len(wr) : vr[i] = wr[i]
    BY AppendProperties
  <2> QED BY <2>1
<1>4. vr[n] = content
  BY AppendProperties
<1>5. page.tokens = tokens /\ ~ page.out /\ page.content = content
  OBVIOUS
<1> HIDE DEF qs, vr, page, n
<1>6. Active(qs) = A \cup {n} /\ A \in SUBSET DOMAIN ps /\ A \in SUBSET DOMAIN qs
      /\ n \notin A
  BY <1>2, <1>5 DEF Active
<1>7. SizeOf(qs, A) = SizeOf(ps, A)
  <2>1. \A i \in A : qs[i].tokens = ps[i].tokens
    BY <1>2, <1>6
  <2> HIDE DEF A
  <2> QED BY <2>1, SizeSame
<1>8. SizeOf(qs, A \cup {n}) = SizeOf(qs, A) + qs[n].tokens
  <2> HIDE DEF A
  <2> QED BY <1>2, <1>6, SizeOfMore
<1>9. act + tokens = SizeOf(qs, Active(qs))
  BY <1>2, <1>5, <1>6, <1>7, <1>8 DEF InOrder
<1>10. ContentKept(qs, es, vr)
  BY <1>2, <1>3, <1>4, <1>5 DEF InOrder, ContentKept
<1> QED BY <1>2, <1>9, <1>10 DEF qs, vr, page, n

\* A page that comes back, or gets new content.
LEMMA PageComesBack ==
  ASSUME NEW ps \in Seq(Page), NEW act, NEW max, NEW es, NEW wr \in Seq(Contents),
         Len(wr) = Len(ps), InOrder(ps, act, max, es, wr),
         NEW i \in DOMAIN ps, NEW content \in Contents
  PROVE  LET qs == [ps EXCEPT ![i].out = FALSE, ![i].content = content]
         IN /\ qs \in Seq(Page) /\ Len(qs) = Len(ps)
            /\ act + (IF ps[i].out THEN ps[i].tokens ELSE 0)
                 = SizeOf(qs, Active(qs))
            /\ ContentKept(qs, es, [wr EXCEPT ![i] = content])
<1> DEFINE qs == [ps EXCEPT ![i].out = FALSE, ![i].content = content]
           A == Active(ps)
           vr == [wr EXCEPT ![i] = content]
<1>1. /\ DOMAIN ps = 1 .. Len(ps) /\ Len(ps) \in Nat
      /\ \A j \in DOMAIN ps : ps[j] \in Page
      /\ DOMAIN wr = DOMAIN ps
  OBVIOUS
<1>2. /\ DOMAIN qs = DOMAIN ps
      /\ \A j \in DOMAIN ps \ {i} : qs[j] = ps[j]
      /\ qs[i] \in Page /\ qs[i].tokens = ps[i].tokens
      /\ ~ qs[i].out /\ qs[i].content = content
  BY <1>1 DEF Page
<1>3. vr[i] = content /\ \A j \in DOMAIN ps \ {i} : vr[j] = wr[j]
  BY <1>1
<1> HIDE DEF vr
<1>4. qs \in Seq(Page) /\ Len(qs) = Len(ps)
  <2>1. \A j \in 1 .. Len(ps) : qs[j] \in Page
    BY <1>1, <1>2
  <2>2. qs = [j \in 1 .. Len(ps) |-> qs[j]]
    BY <1>1, <1>2
  <2> HIDE DEF qs
  <2> QED BY <1>1, <2>1, <2>2
<1> HIDE DEF qs
<1>5. /\ Active(qs) = A \cup {i} /\ A \in SUBSET DOMAIN qs
      /\ A \in SUBSET DOMAIN ps /\ (i \in A <=> ~ ps[i].out)
  BY <1>2 DEF Active
<1>6. SizeOf(qs, A) = SizeOf(ps, A)
  <2>1. \A j \in A : qs[j].tokens = ps[j].tokens
    BY <1>2, <1>5
  <2> HIDE DEF A
  <2> QED BY <2>1, SizeSame
<1>7. act = SizeOf(ps, A) /\ SizeOf(ps, A) \in Nat
  <2>1. A \in SUBSET A
    OBVIOUS
  <2>2. act = SizeOf(ps, A)
    BY DEF InOrder
  <2> HIDE DEF A
  <2> QED BY <1>5, <2>1, <2>2, SizeSplit
<1>8. act + (IF ps[i].out THEN ps[i].tokens ELSE 0) = SizeOf(qs, Active(qs))
  <2>1. CASE ps[i].out
    <3>1. i \notin A /\ i \in DOMAIN qs
      BY <1>2, <1>5, <2>1
    <3> HIDE DEF A
    <3>2. SizeOf(qs, A \cup {i}) = SizeOf(qs, A) + qs[i].tokens
      BY <1>4, <1>5, <3>1, SizeOfMore
    <3> QED BY <1>2, <1>5, <1>6, <1>7, <2>1, <3>2
  <2>2. CASE ~ ps[i].out
    <3>1. Active(qs) = A
      BY <1>5, <2>2
    <3> HIDE DEF A
    <3>2. act + 0 = SizeOf(qs, Active(qs))
      BY <1>6, <1>7, <3>1
    <3> QED BY <2>2, <3>2
  <2> QED BY <2>1, <2>2
<1>9. ContentKept(qs, es, vr)
  BY <1>2, <1>3 DEF InOrder, ContentKept
<1> QED BY <1>4, <1>8, <1>9 DEF qs, vr

-----------------------------------------------------------------------------
(* The page tables *)

\* The inductive invariant.
PageInv ==
  /\ PageTypeOK
  /\ \A a \in PageAgents :
       InOrder(pages[a], active[a], limit[a], handed[a] \o pending[a], written[a])

\* An empty table is in order.
LEMMA NoPages ==
  ASSUME NEW max \in Nat
  PROVE  InOrder(<<>>, 0, max, <<>> \o <<>>, <<>>)
<1>1. Active(<<>>) = {} /\ <<>> \in Seq(Page) /\ {} \in SUBSET DOMAIN <<>>
  BY DEF Active
<1>2. {} \in SUBSET {} /\ {} \ {} = {}
  OBVIOUS
<1> DEFINE s == SizeOf(<<>>, {})
<1>3. s \in Nat /\ s = s + SizeOf(<<>>, {} \ {})
  BY <1>1, <1>2, SizeSplit
<1>4. s = s + s
  BY <1>2, <1>3
<1> HIDE DEF s
<1>5. s = 0
  BY <1>3, <1>4
<1>6. ContentKept(<<>>, <<>> \o <<>>, <<>>)
  BY DEF ContentKept
<1>7. 0 = SizeOf(<<>>, Active(<<>>)) /\ 0 <= max
  BY <1>1, <1>5 DEF s
<1> QED BY <1>6, <1>7 DEF InOrder

\* The tables begin in order.
LEMMA PageInvInit == PageInit => PageInv
<1> SUFFICES ASSUME PageInit PROVE PageInv
  OBVIOUS
<1>1. PageTypeOK
  <2>1. <<>> \in Seq(Page) /\ <<>> \in Seq(Eviction) /\ <<>> \in Seq(Contents)
        /\ Len(<<>>) = 0 /\ 0 <= MaxPages
    BY PageLimits
  <2> QED BY <2>1 DEF PageInit, PageTypeOK
<1>2. ASSUME NEW a \in PageAgents
      PROVE  InOrder(pages[a], active[a], limit[a], handed[a] \o pending[a], written[a])
  <2>1. InOrder(<<>>, 0, 0, <<>> \o <<>>, <<>>)
    BY NoPages
  <2> QED BY <2>1 DEF PageInit
<1> QED BY <1>1, <1>2 DEF PageInv

\* A step of one agent's table.
LEMMA OneTable ==
  ASSUME PageInv, NEW a \in PageAgents,
         \A b \in PageAgents \ {a} :
           /\ pages'[b] = pages[b] /\ active'[b] = active[b] /\ limit'[b] = limit[b]
           /\ handed'[b] = handed[b] /\ pending'[b] = pending[b]
           /\ written'[b] = written[b],
         PageTypeOK',
         InOrder(pages'[a], active'[a], limit'[a], handed'[a] \o pending'[a], written'[a])
  PROVE  PageInv'
<1>1. ASSUME NEW b \in PageAgents
      PROVE  InOrder(pages'[b], active'[b], limit'[b], handed'[b] \o pending'[b],
                     written'[b])
  <2>1. CASE b = a
    BY <2>1
  <2>2. CASE b # a
    <3>1. InOrder(pages[b], active[b], limit[b], handed[b] \o pending[b], written[b])
      BY DEF PageInv
    <3> QED BY <3>1, <2>2
  <2> QED BY <2>1, <2>2
<1> QED BY <1>1 DEF PageInv

\* register_agent and unregister_agent.
LEMMA ResetStep ==
  ASSUME PageInv, NEW a \in PageAgents, NEW max \in {0, MaxActive}, Reset(a, max)
  PROVE  PageInv'
<1>0. max \in Nat
  BY PageLimits
<1>1. <<>> \in Seq(Page) /\ <<>> \in Seq(Eviction) /\ <<>> \in Seq(Contents)
      /\ Len(<<>>) = 0 /\ 0 <= MaxPages
  BY PageLimits
<1>2. /\ limit' \in [PageAgents -> {0, MaxActive, DefaultActive}]
      /\ active' \in [PageAgents -> Nat]
      /\ pages' \in [PageAgents -> Seq(Page)]
      /\ pending' \in [PageAgents -> Seq(Eviction)]
      /\ handed' \in [PageAgents -> Seq(Eviction)]
      /\ written' \in [PageAgents -> Seq(Contents)]
  BY <1>1 DEF PageInv, PageTypeOK, Reset
<1>3. /\ pages'[a] = <<>> /\ active'[a] = 0 /\ limit'[a] = max
      /\ handed'[a] = <<>> /\ pending'[a] = <<>> /\ written'[a] = <<>>
  BY DEF PageInv, PageTypeOK, Reset
<1>4. \A b \in PageAgents \ {a} :
         /\ pages'[b] = pages[b] /\ active'[b] = active[b] /\ limit'[b] = limit[b]
         /\ handed'[b] = handed[b] /\ pending'[b] = pending[b]
         /\ written'[b] = written[b]
  BY DEF PageInv, PageTypeOK, Reset
<1>5. \A b \in PageAgents :
         Len(pages'[b]) <= MaxPages /\ Len(written'[b]) = Len(pages'[b])
  BY <1>1, <1>3, <1>4 DEF PageInv, PageTypeOK
<1>6. PageTypeOK'
  BY <1>2, <1>5 DEF PageTypeOK
<1>7. InOrder(pages'[a], active'[a], limit'[a], handed'[a] \o pending'[a], written'[a])
  <2>1. InOrder(<<>>, 0, max, <<>> \o <<>>, <<>>)
    BY <1>0, NoPages
  <2> QED BY <2>1, <1>3
<1> QED BY <1>4, <1>6, <1>7, OneTable

\* Collecting the evicted pages loses none of them.
LEMMA TakeStep ==
  ASSUME PageInv, NEW a \in PageAgents, take_evicted_pages(a)
  PROVE  PageInv'
<1>1. handed[a] \in Seq(Eviction) /\ pending[a] \in Seq(Eviction)
  BY DEF PageInv, PageTypeOK
<1>2. handed[a] \o pending[a] \in Seq(Eviction)
  BY <1>1, ConcatProperties
<1>3. <<>> \in Seq(Eviction)
  OBVIOUS
<1>4. PageTypeOK'
  <2>1. handed' \in [PageAgents -> Seq(Eviction)]
        /\ pending' \in [PageAgents -> Seq(Eviction)]
    BY <1>2, <1>3 DEF PageInv, PageTypeOK, take_evicted_pages
  <2> QED BY <2>1 DEF PageInv, PageTypeOK, take_evicted_pages
<1>5. handed'[a] = handed[a] \o pending[a] /\ pending'[a] = <<>>
  BY DEF PageInv, PageTypeOK, take_evicted_pages
<1>6. handed'[a] \o pending'[a] = handed[a] \o pending[a]
  <2>1. \A s \in Seq(Eviction) : s \o <<>> = s
    BY ConcatEmptySeq
  <2> QED BY <1>2, <1>5, <2>1
<1>7. InOrder(pages'[a], active'[a], limit'[a], handed'[a] \o pending'[a], written'[a])
  BY <1>6 DEF PageInv, take_evicted_pages
<1>8. \A b \in PageAgents \ {a} :
         /\ pages'[b] = pages[b] /\ active'[b] = active[b] /\ limit'[b] = limit[b]
         /\ handed'[b] = handed[b] /\ pending'[b] = pending[b]
         /\ written'[b] = written[b]
  BY DEF PageInv, PageTypeOK, take_evicted_pages
<1> QED BY <1>4, <1>7, <1>8, OneTable

\* Settle, after ps and wr have become the pages and what was written to them.
LEMMA SettleStep ==
  ASSUME PageInv, NEW a \in PageAgents, NEW ps \in Seq(Page), Len(ps) <= MaxPages,
         NEW act, act = SizeOf(ps, Active(ps)), NEW max \in Nat,
         max \in {0, MaxActive, DefaultActive},
         NEW wr \in Seq(Contents), Len(wr) = Len(ps),
         ContentKept(ps, handed[a] \o pending[a], wr),
         Settle(a, ps, act, max), handed' = handed,
         limit' = [limit EXCEPT ![a] = max], written' = [written EXCEPT ![a] = wr]
  PROVE  PageInv'
<1> DEFINE out == Out(ps, act, max)
           qs == PagedOut(ps, out)
           ns == Evicted(ps, out)
           rest == act - SizeOf(ps, out)
           es == handed[a] \o pending[a]
<1>1. /\ pages' = [pages EXCEPT ![a] = qs] /\ active' = [active EXCEPT ![a] = rest]
      /\ pending' = [pending EXCEPT ![a] = pending[a] \o ns]
  BY DEF Settle, Out, PagedOut
<1>2. handed[a] \in Seq(Eviction) /\ pending[a] \in Seq(Eviction) /\ es \in Seq(Eviction)
  <2>1. handed[a] \in Seq(Eviction) /\ pending[a] \in Seq(Eviction)
    BY DEF PageInv, PageTypeOK
  <2> QED BY <2>1, ConcatProperties
<1>3. out \in SUBSET Active(ps) /\ rest \in Nat
  BY OutEnough
<1>4. ns \in Seq(Eviction)
  <2>1. out \in SUBSET DOMAIN ps
    BY <1>3 DEF Active
  <2> HIDE DEF out
  <2> QED BY <2>1, EvictedProperties
<1>5. qs \in Seq(Page) /\ Len(qs) = Len(ps)
  <2> HIDE DEF out
  <2> QED BY <1>3, PagedOutPages
<1>6. InOrder(qs, rest, max, es \o ns, wr)
  <2> HIDE DEF es
  <2>1. ContentKept(ps, es, wr)
    BY DEF es
  <2> QED BY <1>2, <2>1, SettlesInOrder
<1> HIDE DEF out, qs, ns, rest
<1>7. es \o ns = handed[a] \o (pending[a] \o ns) /\ pending[a] \o ns \in Seq(Eviction)
  <2>1. \A h, p, n \in Seq(Eviction) :
          (h \o p) \o n = h \o (p \o n) /\ p \o n \in Seq(Eviction)
    BY ConcatAssociative, ConcatProperties
  <2> QED BY <1>2, <1>4, <2>1
<1>8. /\ limit' \in [PageAgents -> {0, MaxActive, DefaultActive}]
      /\ active' \in [PageAgents -> Nat]
      /\ pages' \in [PageAgents -> Seq(Page)]
      /\ pending' \in [PageAgents -> Seq(Eviction)]
      /\ handed' \in [PageAgents -> Seq(Eviction)]
      /\ written' \in [PageAgents -> Seq(Contents)]
  BY <1>1, <1>3, <1>5, <1>7 DEF PageInv, PageTypeOK
<1>9. /\ pages'[a] = qs /\ active'[a] = rest /\ limit'[a] = max
      /\ handed'[a] = handed[a] /\ pending'[a] = pending[a] \o ns
      /\ written'[a] = wr
  BY <1>1 DEF PageInv, PageTypeOK
<1>10. \A b \in PageAgents \ {a} :
         /\ pages'[b] = pages[b] /\ active'[b] = active[b] /\ limit'[b] = limit[b]
         /\ handed'[b] = handed[b] /\ pending'[b] = pending[b]
         /\ written'[b] = written[b]
  BY <1>1 DEF PageInv, PageTypeOK
<1>11. PageTypeOK'
  <2>1. \A b \in PageAgents :
          Len(pages'[b]) <= MaxPages /\ Len(written'[b]) = Len(pages'[b])
    BY <1>5, <1>9, <1>10 DEF PageInv, PageTypeOK
  <2> QED BY <1>8, <2>1 DEF PageTypeOK
<1>12. InOrder(pages'[a], active'[a], limit'[a], handed'[a] \o pending'[a], written'[a])
  BY <1>6, <1>7, <1>9
<1> QED BY <1>10, <1>11, <1>12, OneTable

\* append_context_frame leaves the tables in order.
LEMMA AppendStep ==
  ASSUME PageInv, NEW a \in PageAgents, NEW tokens \in PageSizes,
         NEW content \in Contents, append_context_frame(a, tokens, content)
  PROVE  PageInv'
<1> DEFINE page == [tokens |-> tokens, out |-> FALSE, content |-> content]
           lim == IF limit[a] = 0 THEN DefaultActive ELSE limit[a]
<1>1. /\ pages[a] \in Seq(Page) /\ Len(pages[a]) <= MaxPages
      /\ written[a] \in Seq(Contents) /\ Len(written[a]) = Len(pages[a])
      /\ lim \in {0, MaxActive, DefaultActive}
  BY DEF PageInv, PageTypeOK
<1>2. PICK old \in Seq(Page) : old = pages[a]
  BY <1>1
<1>3. PICK was : was = active[a]
  OBVIOUS
<1>4. PICK es : es = handed[a] \o pending[a]
  OBVIOUS
<1>5. PICK wr \in Seq(Contents) : wr = written[a]
  BY <1>1
<1>6. PICK top : top = limit[a]
  OBVIOUS
<1>7. InOrder(old, was, top, es, wr)
  BY <1>2, <1>3, <1>4, <1>5, <1>6 DEF PageInv
<1> DEFINE ps == Append(old, page)
           vr == Append(wr, content)
           act == was + tokens
<1>8. Len(wr) = Len(old) /\ Len(old) < MaxPages /\ Len(old) \in Nat
  BY <1>1, <1>2, <1>5 DEF append_context_frame
<1>9. /\ ps \in Seq(Page) /\ Len(ps) = Len(old) + 1
      /\ act = SizeOf(ps, Active(ps)) /\ ContentKept(ps, es, vr)
  BY <1>7, <1>8, PageComes
<1>10. vr \in Seq(Contents) /\ Len(vr) = Len(wr) + 1
  BY AppendProperties
<1>11. PICK max \in {0, MaxActive, DefaultActive} : max = lim
  BY <1>1
<1>12. max \in Nat
  BY PageLimits
<1>13. /\ limit' = [limit EXCEPT ![a] = max] /\ limit'[a] = max
       /\ written' = [written EXCEPT ![a] = vr] /\ handed' = handed
  BY <1>5, <1>11 DEF append_context_frame, PageInv, PageTypeOK
<1>14. Settle(a, ps, act, max)
  BY <1>2, <1>3, <1>13 DEF append_context_frame
<1>15. Len(ps) <= MaxPages
  BY <1>8, <1>9, PageLimits
<1>16. Len(vr) = Len(ps)
  BY <1>8, <1>9, <1>10
<1>17. ContentKept(ps, handed[a] \o pending[a], vr)
  BY <1>4, <1>9
<1> HIDE DEF ps, vr, act
<1> QED BY <1>9, <1>10, <1>11, <1>12, <1>13, <1>14, <1>15, <1>16, <1>17, SettleStep

\* page_in_frame leaves the tables in order.
LEMMA PageInStep ==
  ASSUME PageInv, NEW a \in PageAgents, NEW i \in DOMAIN pages[a],
         NEW content \in Contents, page_in_frame(a, i, content)
  PROVE  PageInv'
<1>1. /\ pages[a] \in Seq(Page) /\ Len(pages[a]) <= MaxPages
      /\ written[a] \in Seq(Contents) /\ Len(written[a]) = Len(pages[a])
      /\ limit[a] \in {0, MaxActive, DefaultActive}
  BY DEF PageInv, PageTypeOK
<1>2. PICK old \in Seq(Page) : old = pages[a]
  BY <1>1
<1>3. PICK was : was = active[a]
  OBVIOUS
<1>4. PICK es : es = handed[a] \o pending[a]
  OBVIOUS
<1>5. PICK wr \in Seq(Contents) : wr = written[a]
  BY <1>1
<1>6. PICK max \in {0, MaxActive, DefaultActive} : max = limit[a]
  BY <1>1
<1>7. InOrder(old, was, max, es, wr)
  BY <1>2, <1>3, <1>4, <1>5, <1>6 DEF PageInv
<1> DEFINE ps == [old EXCEPT ![i].out = FALSE, ![i].content = content]
           vr == [wr EXCEPT ![i] = content]
           act == was + (IF old[i].out THEN old[i].tokens ELSE 0)
<1>8. Len(wr) = Len(old) /\ Len(old) <= MaxPages /\ i \in DOMAIN old
  BY <1>1, <1>2, <1>5
<1>9. /\ ps \in Seq(Page) /\ Len(ps) = Len(old)
      /\ act = SizeOf(ps, Active(ps)) /\ ContentKept(ps, es, vr)
  BY <1>7, <1>8, PageComesBack
<1>10. vr \in Seq(Contents) /\ Len(vr) = Len(wr)
  <2>1. DOMAIN vr = 1 .. Len(wr) /\ \A j \in 1 .. Len(wr) : vr[j] \in Contents
    OBVIOUS
  <2>2. Len(wr) \in Nat
    OBVIOUS
  <2>3. vr = [j \in 1 .. Len(wr) |-> vr[j]]
    BY <2>1
  <2> HIDE DEF vr
  <2> QED BY <2>1, <2>2, <2>3
<1>11. max \in Nat
  BY PageLimits
<1>12. /\ limit' = [limit EXCEPT ![a] = max]
       /\ written' = [written EXCEPT ![a] = vr] /\ handed' = handed
  <2>1. written' = [written EXCEPT ![a][i] = content]
    BY DEF page_in_frame
  <2>2. written \in [PageAgents -> Seq(Contents)] /\ limit \in [PageAgents -> {0, MaxActive, DefaultActive}]
    BY DEF PageInv, PageTypeOK
  <2>3. limit' = [limit EXCEPT ![a] = max]
    BY <1>6, <2>2 DEF page_in_frame
  <2>4. written' = [written EXCEPT ![a] = vr]
    BY <1>5, <2>1, <2>2
  <2> QED BY <2>3, <2>4 DEF page_in_frame
<1>13. Settle(a, ps, act, max)
  BY <1>2, <1>3, <1>6 DEF page_in_frame
<1>14. Len(vr) = Len(ps) /\ Len(ps) <= MaxPages
  BY <1>8, <1>9, <1>10
<1>15. ContentKept(ps, handed[a] \o pending[a], vr)
  BY <1>4, <1>9
<1> HIDE DEF ps, vr, act
<1> QED BY <1>9, <1>10, <1>11, <1>12, <1>13, <1>14, <1>15, SettleStep

\* Every call of the native manager leaves the tables in order.
LEMMA PageInvStep == PageInv /\ (PageNext \/ UNCHANGED pagevars) => PageInv'
<1> SUFFICES ASSUME PageInv, PageNext \/ UNCHANGED pagevars PROVE PageInv'
  OBVIOUS
<1>1. CASE UNCHANGED pagevars
  <2>1. PageTypeOK'
    BY <1>1 DEF PageInv, PageTypeOK, pagevars
  <2> QED BY <1>1, <2>1 DEF PageInv, pagevars
<1>2. CASE PageNext
  <2>1. PICK a \in PageAgents :
          \/ register_agent(a) \/ unregister_agent(a) \/ take_evicted_pages(a)
          \/ \E c \in Contents :
               \/ \E t \in PageSizes : append_context_frame(a, t, c)
               \/ \E i \in DOMAIN pages[a] : page_in_frame(a, i, c)
    BY <1>2 DEF PageNext
  <2>2. CASE register_agent(a)
    BY <2>2, ResetStep DEF register_agent
  <2>3. CASE unregister_agent(a)
    BY <2>3, ResetStep DEF unregister_agent
  <2>4. CASE take_evicted_pages(a)
    BY <2>4, TakeStep
  <2>5. ASSUME NEW c \in Contents, NEW t \in PageSizes, append_context_frame(a, t, c)
        PROVE  PageInv'
    BY <2>5, AppendStep
  <2>6. ASSUME NEW c \in Contents, NEW i \in DOMAIN pages[a], page_in_frame(a, i, c)
        PROVE  PageInv'
    BY <2>6, PageInStep
  <2> QED BY <2>1, <2>2, <2>3, <2>4, <2>5, <2>6
<1> QED BY <1>1, <1>2

\* Tables that are in order are accounted for, and nothing in them is lost.
LEMMA PageInvImplies == PageInv => PagesAccounted /\ PagedOutRecoverable
<1> SUFFICES ASSUME PageInv PROVE PagesAccounted /\ PagedOutRecoverable
  OBVIOUS
<1>1. PagesAccounted
  <2> SUFFICES ASSUME NEW a \in PageAgents
               PROVE  /\ active[a] = SizeOf(pages[a], Active(pages[a]))
                      /\ active[a] <= limit[a]
                      /\ \A i \in Active(pages[a]) : pages[a][i].content # Stub
    BY DEF PagesAccounted
  <2>1. InOrder(pages[a], active[a], limit[a], handed[a] \o pending[a], written[a])
    BY DEF PageInv
  <2>2. written[a] \in Seq(Contents) /\ pages[a] \in Seq(Page)
        /\ Len(written[a]) = Len(pages[a])
    BY DEF PageInv, PageTypeOK
  <2>3. ASSUME NEW i \in Active(pages[a]) PROVE pages[a][i].content # Stub
    <3>1. i \in DOMAIN written[a] /\ pages[a][i].content = written[a][i]
      BY <2>1, <2>2, <2>3 DEF InOrder, ContentKept, Active
    <3>2. written[a][i] \in Contents
      BY <3>1, <2>2
    <3> QED BY <3>1, <3>2, PageLimits
  <2> QED BY <2>1, <2>3 DEF InOrder
<1>2. PagedOutRecoverable
  <2> SUFFICES ASSUME NEW a \in PageAgents,
                      NEW i \in DOMAIN pages[a] \ Active(pages[a])
               PROVE  Latest(handed[a] \o pending[a], i, written[a][i])
    BY DEF PagedOutRecoverable, Latest
  <2>1. InOrder(pages[a], active[a], limit[a], handed[a] \o pending[a], written[a])
    BY DEF PageInv
  <2> QED BY <2>1 DEF InOrder, ContentKept, Active
<1> QED BY <1>1, <1>2
=============================================================================
