-------------------------------- MODULE Sums --------------------------------
(***************************************************************************)
(* The total of a function over a finite set, which the treasury's caps and *)
(* the risk engine's books are made of, and the facts about it that their   *)
(* proofs rest on.  The fold chooses the elements in an order of its own;   *)
(* the facts say that the order does not matter.                            *)
(***************************************************************************)
EXTENDS Integers, Stamps, FiniteSetTheorems, WellFoundedInduction, TLAPS

Total(f, S) == MapThenSumSet(LAMBDA x : f[x], S)

\* What the fold picks first.
First(s) == CHOOSE x \in s : TRUE

\* h is the running total over every subset of S.
Totals(h, f, S) ==
    h = [s \in SUBSET S |-> IF s = {} THEN 0 ELSE f[First(s)] + h[s \ {First(s)}]]

\* A set of naturals has a least element.
LEMMA LeastOf ==
    ASSUME NEW T, T \subseteq Nat, T # {}
    PROVE  \E n \in T : \A m \in T : n <= m
<1>1. PICK n \in T : \A m \in T : ~(<<m, n>> \in OpToRel(<, Nat))
  BY NatLessThanWellFounded, WFMin
<1>2. \A m \in T : n \in Nat /\ m \in Nat /\ ~(m < n)
  BY <1>1 DEF OpToRel
<1> QED
  BY <1>2

\* A set of subsets that holds each set whose smaller subsets it holds, holds all.
LEMMA SubsetInduction ==
    ASSUME NEW S, IsFiniteSet(S), NEW P,
           \A s \in SUBSET S : (\A t \in SUBSET s : t # s => t \in P) => s \in P
    PROVE  \A s \in SUBSET S : s \in P
<1> DEFINE Sizes == {n \in Nat : \E s \in SUBSET S : s \notin P /\ Cardinality(s) = n}
<1> SUFFICES ASSUME NEW u \in SUBSET S, u \notin P PROVE FALSE
  OBVIOUS
<1>1. Cardinality(u) \in Sizes
  BY FS_Subset, FS_CardinalityType
<1>2. PICK n \in Sizes : \A m \in Sizes : n <= m
  <2>1. Sizes \subseteq Nat /\ Sizes # {}
    BY <1>1
  <2> HIDE DEF Sizes
  <2> QED
    BY <2>1, LeastOf
<1>3. PICK s \in SUBSET S : s \notin P /\ Cardinality(s) = n
  BY <1>2
<1>4. PICK t \in SUBSET s : t # s /\ t \notin P
  BY <1>3
<1>5. Cardinality(t) \in Nat /\ Cardinality(t) < n
  <2>1. IsFiniteSet(s)
    BY FS_Subset
  <2>2. IsFiniteSet(t) /\ Cardinality(t) <= Cardinality(s)
        /\ (Cardinality(t) = Cardinality(s) => t = s)
    BY <2>1, FS_Subset
  <2> QED
    BY <1>3, <1>4, <2>1, <2>2, FS_CardinalityType
<1>6. Cardinality(t) \in Sizes
  BY <1>4, <1>5
<1> QED
  BY <1>2, <1>5, <1>6

LEMMA FirstIsOne == ASSUME NEW s, s # {} PROVE First(s) \in s
  BY DEF First

\* The fold is well defined on a finite set: its recursion has a solution.
LEMMA TotalsExist ==
    ASSUME NEW S, IsFiniteSet(S), NEW f
    PROVE  \E h : Totals(h, f, S)
<1> DEFINE Upto(n) == {s \in SUBSET S : Cardinality(s) <= n}
           Part(h, n) == h = [s \in Upto(n) |-> IF s = {} THEN 0
                                               ELSE f[First(s)] + h[s \ {First(s)}]]
           Bad == {n \in Nat : ~(\E h : Part(h, n))}
<1>1. \A s \in SUBSET S : IsFiniteSet(s) /\ Cardinality(s) \in Nat
                          /\ Cardinality(s) <= Cardinality(S)
  BY FS_Subset, FS_CardinalityType
<1>2. \A n \in Nat : \E h : Part(h, n)
  <2> SUFFICES ASSUME Bad # {} PROVE FALSE
    OBVIOUS
  <2>1. PICK n \in Bad : \A m \in Bad : n <= m
    <3>1. Bad \subseteq Nat
      OBVIOUS
    <3> HIDE DEF Bad
    <3> QED
      BY <3>1, LeastOf
  <2>2. n \in Nat
    BY <2>1
  <2>3. CASE n = 0
    <3>1. Upto(0) = {{}}
      <4>1. \A s \in Upto(0) : s = {}
        BY <1>1, FS_EmptySet
      <4>2. {} \in Upto(0)
        BY FS_EmptySet
      <4> QED
        BY <4>1, <4>2
    <3> DEFINE g == [s \in Upto(0) |-> 0]
    <3>2. Part(g, 0)
      BY <3>1
    <3> QED
      BY <2>1, <2>3, <3>2
  <2>4. CASE n # 0
    <3>1. n - 1 \in Nat /\ n - 1 < n
      BY <2>2, <2>4
    <3>2. n - 1 \notin Bad
      <4> HIDE DEF Bad
      <4> QED
        BY <2>1, <2>2, <3>1
    <3>3. PICK h : Part(h, n - 1)
      BY <3>1, <3>2
    <3> DEFINE step(s) == IF s = {} THEN 0 ELSE f[First(s)] + h[s \ {First(s)}]
               g == [s \in Upto(n) |-> step(s)]
    <3>4. \A s \in Upto(n - 1) : h[s] = step(s)
      BY <3>3
    <3>5. Upto(n - 1) \subseteq Upto(n)
      BY <1>1, <2>2
    <3>6. \A s \in Upto(n - 1) : g[s] = h[s]
      BY <3>4, <3>5
    <3>7. \A s \in Upto(n) : s # {} => s \ {First(s)} \in Upto(n - 1)
      <4> SUFFICES ASSUME NEW s \in Upto(n), s # {} PROVE s \ {First(s)} \in Upto(n - 1)
        OBVIOUS
      <4>1. First(s) \in s /\ IsFiniteSet(s) /\ Cardinality(s) \in Nat
        BY <1>1, FirstIsOne
      <4>2. Cardinality(s \ {First(s)}) = Cardinality(s) - 1
        BY <4>1, FS_RemoveElement
      <4> QED
        BY <2>2, <4>1, <4>2
    <3>8. \A s \in Upto(n) :
             step(s) = IF s = {} THEN 0 ELSE f[First(s)] + g[s \ {First(s)}]
      BY <3>6, <3>7
    <3>9. Part(g, n)
      <4> HIDE DEF step
      <4>1. g = [s \in Upto(n) |-> IF s = {} THEN 0 ELSE f[First(s)] + g[s \ {First(s)}]]
        BY <3>8
      <4> QED
        BY <4>1
    <3> QED
      BY <2>1, <3>9
  <2> QED
    BY <2>3, <2>4
<1>3. Cardinality(S) \in Nat
  BY FS_CardinalityType
<1>4. Upto(Cardinality(S)) = SUBSET S
  BY <1>1
<1>5. PICK h : Part(h, Cardinality(S))
  BY <1>2, <1>3
<1> QED
  BY <1>4, <1>5 DEF Totals

\* The fold computes one of them.
LEMMA TotalIsOfTotals ==
    ASSUME NEW S, IsFiniteSet(S), NEW f
    PROVE  \E h : Totals(h, f, S) /\ Total(f, S) = h[S]
<1>1. Total(f, S) = (CHOOSE h : Totals(h, f, S))[S]
  BY DEF Total, MapThenSumSet, MapThenFoldSet, Totals, First
<1> QED
  BY <1>1, TotalsExist
-----------------------------------------------------------------------------
\* The values of such a function are integers, and any element may come first.
LEMMA AnyMayComeFirst ==
    ASSUME NEW S, IsFiniteSet(S), NEW f, \A x \in S : f[x] \in Int,
           NEW h, Totals(h, f, S)
    PROVE  \A s \in SUBSET S : h[s] \in Int /\ \A x \in s : h[s] = f[x] + h[s \ {x}]
<1> DEFINE P == {s \in SUBSET S : h[s] \in Int /\ \A x \in s : h[s] = f[x] + h[s \ {x}]}
<1>1. ASSUME NEW s \in SUBSET S, \A t \in SUBSET s : t # s => t \in P
      PROVE  s \in P
  <2>1. CASE s = {}
    BY <2>1 DEF Totals
  <2>2. CASE s # {}
    <3> DEFINE c == First(s)
    <3>1. c \in s
      BY <2>2, FirstIsOne
    <3>2. h[s] = f[c] + h[s \ {c}]
      BY <2>2 DEF Totals
    <3> HIDE DEF c
    <3>3. \A x \in s : s \ {x} \in P /\ f[x] \in Int
      BY <1>1
    <3>4. h[s] \in Int
      BY <3>1, <3>2, <3>3
    <3>5. ASSUME NEW x \in s, x # c PROVE h[s] = f[x] + h[s \ {x}]
      <4>1. h[s \ {c}] = f[x] + h[(s \ {c}) \ {x}]
        BY <3>1, <3>3, <3>5
      <4>2. h[s \ {x}] = f[c] + h[(s \ {x}) \ {c}]
        BY <3>1, <3>3, <3>5
      <4>3. (s \ {c}) \ {x} = (s \ {x}) \ {c}
        OBVIOUS
      <4>4. h[(s \ {x}) \ {c}] \in Int
        <5>1. (s \ {x}) \ {c} \in SUBSET s /\ (s \ {x}) \ {c} # s
          BY <3>1
        <5> QED
          BY <1>1, <5>1
      <4>5. h[s] = f[c] + (f[x] + h[(s \ {x}) \ {c}])
        BY <3>2, <4>1, <4>3
      <4>6. f[c] \in Int /\ f[x] \in Int
        BY <3>1, <3>3
      <4> QED
        BY <4>2, <4>4, <4>5, <4>6
    <3> QED
      BY <3>2, <3>4, <3>5
  <2> QED
    BY <2>1, <2>2
<1> HIDE DEF P
<1>2. \A s \in SUBSET S : s \in P
  BY <1>1, SubsetInduction
<1> QED
  BY <1>2 DEF P

\* On what two domains share, equal functions have equal totals.
LEMMA TotalsAgree ==
    ASSUME NEW S, NEW T, NEW f, NEW g, NEW h, NEW k, Totals(h, f, S), Totals(k, g, T),
           NEW U, IsFiniteSet(U), U \subseteq S, U \subseteq T, \A x \in U : f[x] = g[x]
    PROVE  h[U] = k[U]
<1> DEFINE P == {s \in SUBSET U : h[s] = k[s]}
<1>1. ASSUME NEW s \in SUBSET U, \A t \in SUBSET s : t # s => t \in P
      PROVE  s \in P
  <2>1. CASE s = {}
    BY <2>1 DEF Totals
  <2>2. CASE s # {}
    <3>1. First(s) \in s
      BY <2>2, FirstIsOne
    <3>2. s \ {First(s)} \in P /\ f[First(s)] = g[First(s)]
      BY <1>1, <3>1
    <3>3. h[s] = f[First(s)] + h[s \ {First(s)}] /\ k[s] = g[First(s)] + k[s \ {First(s)}]
      BY <2>2 DEF Totals
    <3> QED
      BY <3>2, <3>3
  <2> QED
    BY <2>1, <2>2
<1> HIDE DEF P
<1>2. \A s \in SUBSET U : s \in P
  BY <1>1, SubsetInduction
<1> QED
  BY <1>2 DEF P

-----------------------------------------------------------------------------
\* What the proofs cite.
LEMMA TotalOfNothing == ASSUME NEW f PROVE Total(f, {}) = 0
<1>1. IsFiniteSet({})
  BY FS_EmptySet
<1>2. PICK h : Totals(h, f, {}) /\ Total(f, {}) = h[{}]
  BY <1>1, TotalIsOfTotals
<1> QED
  BY <1>2 DEF Totals

LEMMA TotalIsInt ==
    ASSUME NEW S, IsFiniteSet(S), NEW f, \A x \in S : f[x] \in Int
    PROVE  Total(f, S) \in Int
<1>1. PICK h : Totals(h, f, S) /\ Total(f, S) = h[S]
  BY TotalIsOfTotals
<1> QED
  BY <1>1, AnyMayComeFirst

\* The same values have the same total.
LEMMA TotalOfSame ==
    ASSUME NEW S, IsFiniteSet(S), NEW f, NEW g, \A x \in S : f[x] = g[x]
    PROVE  Total(f, S) = Total(g, S)
<1>1. PICK h : Totals(h, f, S) /\ Total(f, S) = h[S]
  BY TotalIsOfTotals
<1>2. PICK k : Totals(k, g, S) /\ Total(g, S) = k[S]
  BY TotalIsOfTotals
<1> QED
  BY <1>1, <1>2, TotalsAgree

\* One element and the others.
LEMMA TotalSplits ==
    ASSUME NEW S, IsFiniteSet(S), NEW f, \A x \in S : f[x] \in Int, NEW x \in S
    PROVE  Total(f, S) = f[x] + Total(f, S \ {x})
<1>1. PICK h : Totals(h, f, S) /\ Total(f, S) = h[S]
  BY TotalIsOfTotals
<1>2. IsFiniteSet(S \ {x})
  BY FS_RemoveElement
<1>3. PICK k : Totals(k, f, S \ {x}) /\ Total(f, S \ {x}) = k[S \ {x}]
  BY <1>2, TotalIsOfTotals
<1>4. h[S] = f[x] + h[S \ {x}]
  <2>1. \A s \in SUBSET S : h[s] \in Int /\ \A y \in s : h[s] = f[y] + h[s \ {y}]
    <3>1. Totals(h, f, S)
      BY <1>1
    <3>2. \A y \in S : f[y] \in Int
      OBVIOUS
    <3> QED
      BY <3>1, <3>2, AnyMayComeFirst
  <2> QED
    BY <2>1
<1>5. h[S \ {x}] = k[S \ {x}]
  BY <1>1, <1>2, <1>3, TotalsAgree
<1> QED
  BY <1>1, <1>3, <1>4, <1>5

LEMMA TotalAdds ==
    ASSUME NEW S, IsFiniteSet(S), NEW f, NEW x, x \notin S, f[x] \in Int,
           \A y \in S : f[y] \in Int
    PROVE  Total(f, S \cup {x}) = f[x] + Total(f, S)
<1>1. IsFiniteSet(S \cup {x})
  BY FS_AddElement
<1>2. (S \cup {x}) \ {x} = S
  OBVIOUS
<1>3. \A y \in S \cup {x} : f[y] \in Int
  OBVIOUS
<1>4. Total(f, S \cup {x}) = f[x] + Total(f, (S \cup {x}) \ {x})
  BY <1>1, <1>3, TotalSplits
<1> QED
  BY <1>2, <1>4

\* More elements with values that are no smaller and not negative have no smaller a total.
LEMMA TotalGrows ==
    ASSUME NEW T, IsFiniteSet(T), NEW S, S \subseteq T, NEW f, NEW g,
           \A x \in S : f[x] \in Int /\ f[x] <= g[x],
           \A x \in T : g[x] \in Nat
    PROVE  Total(f, S) <= Total(g, T)
<1> DEFINE P == {t \in SUBSET T : Total(f, S \cap t) <= Total(g, t)}
<1>1. ASSUME NEW t \in SUBSET T, \A u \in SUBSET t : u # t => u \in P
      PROVE  t \in P
  <2>1. IsFiniteSet(t) /\ IsFiniteSet(S \cap t)
    BY FS_Subset
  <2>2. CASE t = {}
    <3>1. Total(f, S \cap t) = 0 /\ Total(g, t) = 0
      BY <2>2, TotalOfNothing
    <3> QED
      BY <3>1
  <2>3. ASSUME NEW x \in t PROVE t \in P
    <3>1. Total(g, t) = g[x] + Total(g, t \ {x})
      BY <2>1, TotalSplits
    <3>2. t \ {x} \in P
      BY <1>1
    <3>3. /\ Total(g, t \ {x}) \in Int /\ Total(f, S \cap t) \in Int
          /\ Total(f, S \cap (t \ {x})) \in Int
      <4>1. IsFiniteSet(t \ {x}) /\ IsFiniteSet(S \cap (t \ {x}))
        BY <2>1, FS_Subset
      <4>2. \A y \in t \ {x} : g[y] \in Int
        OBVIOUS
      <4>3. \A y \in S \cap t : f[y] \in Int
        OBVIOUS
      <4>4. \A y \in S \cap (t \ {x}) : f[y] \in Int
        OBVIOUS
      <4> QED
        BY <2>1, <4>1, <4>2, <4>3, <4>4, TotalIsInt
    <3>4. CASE x \in S
      <4>1. Total(f, S \cap t) = f[x] + Total(f, (S \cap t) \ {x})
        <5>1. \A y \in S \cap t : f[y] \in Int
          OBVIOUS
        <5> QED
          BY <2>1, <3>4, <5>1, TotalSplits
      <4>2. (S \cap t) \ {x} = S \cap (t \ {x})
        OBVIOUS
      <4>3. f[x] \in Int /\ f[x] <= g[x] /\ g[x] \in Int
        BY <3>4
      <4> QED
        BY <3>1, <3>2, <3>3, <4>1, <4>2, <4>3
    <3>5. CASE x \notin S
      <4>1. S \cap t = S \cap (t \ {x})
        BY <3>5
      <4>2. g[x] \in Nat
        OBVIOUS
      <4> QED
        <5>1. Total(f, S \cap (t \ {x})) <= Total(g, t \ {x})
          BY <3>2
        <5>2. Total(f, S \cap t) <= Total(g, t \ {x})
          BY <4>1, <5>1
        <5> QED
          BY <3>1, <3>3, <4>2, <5>2
    <3> QED
      BY <3>4, <3>5
  <2> QED
    BY <2>2, <2>3
<1> HIDE DEF P
<1>2. T \in P
  BY <1>1, SubsetInduction
<1>3. S \cap T = S
  OBVIOUS
<1> QED
  BY <1>2, <1>3 DEF P

\* Elements of value zero may be left out.
LEMMA TotalSkipsZeros ==
    ASSUME NEW T, IsFiniteSet(T), NEW S, S \subseteq T, NEW f,
           \A x \in T : f[x] \in Int,
           \A x \in T \ S : f[x] = 0
    PROVE  Total(f, T) = Total(f, S)
<1> DEFINE P == {t \in SUBSET T : Total(f, t) = Total(f, S \cap t)}
<1>1. ASSUME NEW t \in SUBSET T, \A u \in SUBSET t : u # t => u \in P
      PROVE  t \in P
  <2>1. IsFiniteSet(t) /\ \A x \in t : f[x] \in Int
    BY FS_Subset
  <2>2. CASE t = {}
    BY <2>2
  <2>3. ASSUME NEW x \in t PROVE t \in P
    <3>1. t \ {x} \in P
      BY <1>1
    <3>2. Total(f, t) = f[x] + Total(f, t \ {x})
      BY <2>1, TotalSplits
    <3>3. CASE x \in S
      <4>1. IsFiniteSet(S \cap t) /\ \A y \in S \cap t : f[y] \in Int
        BY <2>1, FS_Subset
      <4>2. Total(f, S \cap t) = f[x] + Total(f, (S \cap t) \ {x})
        BY <3>3, <4>1, TotalSplits
      <4>3. (S \cap t) \ {x} = S \cap (t \ {x})
        OBVIOUS
      <4> QED
        BY <3>1, <3>2, <4>2, <4>3
    <3>4. CASE x \notin S
      <4>1. S \cap (t \ {x}) = S \cap t /\ f[x] = 0
        BY <3>4
      <4>2. Total(f, t \ {x}) \in Int
        <5>1. IsFiniteSet(t \ {x}) /\ \A y \in t \ {x} : f[y] \in Int
          BY <2>1, FS_Subset
        <5> QED
          BY <5>1, TotalIsInt
      <4>3. Total(f, t) = Total(f, t \ {x})
        BY <3>2, <4>1, <4>2
      <4>4. Total(f, t \ {x}) = Total(f, S \cap (t \ {x}))
        BY <3>1
      <4> QED
        BY <4>1, <4>3, <4>4
    <3> QED
      BY <3>3, <3>4
  <2> QED
    BY <2>2, <2>3
<1> HIDE DEF P
<1>2. T \in P
  BY <1>1, SubsetInduction
<1>3. S \cap T = S
  OBVIOUS
<1> QED
  BY <1>2, <1>3 DEF P

\* A total of naturals is one.
LEMMA TotalIsNat ==
    ASSUME NEW S, IsFiniteSet(S), NEW f, \A x \in S : f[x] \in Nat
    PROVE  Total(f, S) \in Nat
<1>1. Total(f, S) \in Int
  BY TotalIsInt
<1>2. Total(f, {}) <= Total(f, S)
  <2>1. \A x \in {} : f[x] \in Int /\ f[x] <= f[x]
    OBVIOUS
  <2> QED
    BY <2>1, TotalGrows
<1> QED
  BY <1>1, <1>2, TotalOfNothing

\* Where one value rises by at most d and no other rises, the total rises by at most d.
LEMMA TotalRises ==
    ASSUME NEW T, IsFiniteSet(T), NEW f, NEW g, NEW d \in Nat, NEW z,
           \A x \in T : f[x] \in Nat /\ g[x] \in Nat,
           \A x \in T \ {z} : g[x] <= f[x],
           z \in T => g[z] <= f[z] + d
    PROVE  /\ Total(g, T) <= Total(f, T) + d
           /\ z \notin T => Total(g, T) <= Total(f, T)
<1> DEFINE U == T \ {z}
<1>1. IsFiniteSet(U) /\ \A x \in U : g[x] \in Int /\ g[x] <= f[x] /\ f[x] \in Nat
  BY FS_RemoveElement
<1>2. Total(g, U) <= Total(f, U)
  <2> HIDE DEF U
  <2> QED
    BY <1>1, TotalGrows
<1>3. Total(g, U) \in Nat /\ Total(f, U) \in Nat
  <2>1. \A x \in U : f[x] \in Nat /\ g[x] \in Nat
    OBVIOUS
  <2> HIDE DEF U
  <2> QED
    BY <1>1, <2>1, TotalIsNat
<1>4. CASE z \notin T
  <2>1. U = T
    BY <1>4
  <2> HIDE DEF U
  <2> QED
    BY <1>2, <1>3, <1>4, <2>1
<1>5. CASE z \in T
  <2>1. Total(f, T) = f[z] + Total(f, U) /\ Total(g, T) = g[z] + Total(g, U)
    <3>1. (\A x \in T : f[x] \in Int) /\ (\A x \in T : g[x] \in Int)
      OBVIOUS
    <3> QED
      BY <1>5, <3>1, TotalSplits
  <2>2. f[z] \in Nat /\ g[z] \in Nat /\ g[z] <= f[z] + d
    BY <1>5
  <2> HIDE DEF U
  <2> QED
    BY <1>2, <1>3, <1>5, <2>1, <2>2
<1> QED
  BY <1>4, <1>5

-----------------------------------------------------------------------------
(* How many stamps there are.                                              *)

\* Totals of which each term is a multiple of the other's, or less.
LEMMA TotalScales ==
  ASSUME NEW T, IsFiniteSet(T), NEW f, NEW g, NEW c \in Nat,
         \A x \in T : f[x] \in Int /\ g[x] \in Int /\ c * f[x] <= g[x]
  PROVE  c * Total(f, T) <= Total(g, T)
<1> DEFINE P == {s \in SUBSET T : c * Total(f, s) <= Total(g, s)}
<1>1. ASSUME NEW s \in SUBSET T, \A u \in SUBSET s : u # s => u \in P PROVE s \in P
  <2>1. CASE s = {}
    <3>1. Total(f, s) = 0 /\ Total(g, s) = 0
      BY <2>1, TotalOfNothing
    <3> QED
      BY <3>1
  <2>2. CASE s # {}
    <3>1. PICK x \in s : TRUE
      BY <2>2
    <3> DEFINE u == s \ {x}
    <3>2. u \in P
      <4>1. u \in SUBSET s /\ u # s
        BY <3>1
      <4> HIDE DEF P, u
      <4> QED
        BY <1>1, <4>1
    <3>3. IsFiniteSet(s) /\ IsFiniteSet(u)
      BY FS_Subset, FS_RemoveElement
    <3>4. (\A y \in s : f[y] \in Int) /\ (\A y \in s : g[y] \in Int)
      OBVIOUS
    <3>5. Total(f, s) = f[x] + Total(f, u) /\ Total(g, s) = g[x] + Total(g, u)
      BY <3>1, <3>3, <3>4, TotalSplits
    <3>6. Total(f, u) \in Int /\ Total(g, u) \in Int
      <4>1. (\A y \in u : f[y] \in Int) /\ (\A y \in u : g[y] \in Int)
        BY <3>4
      <4> HIDE DEF u
      <4> QED
        BY <3>3, <4>1, TotalIsInt
    <3>7. f[x] \in Int /\ g[x] \in Int /\ c * f[x] <= g[x]
      BY <3>1
    <3>8. c * Total(f, u) <= Total(g, u)
      BY <3>2
    <3> HIDE DEF u
    <3>9. c * (f[x] + Total(f, u)) = c * f[x] + c * Total(f, u)
      BY <3>6, <3>7
    <3>10. c * f[x] \in Int /\ c * Total(f, u) \in Int
      BY <3>6, <3>7
    <3>11. c * Total(f, s) <= Total(g, s)
      BY <3>5, <3>6, <3>7, <3>8, <3>9, <3>10
    <3> QED
      BY <3>11
  <2> QED
    BY <2>1, <2>2
<1> HIDE DEF P
<1>2. T \in P
  BY <1>1, SubsetInduction
<1> QED
  BY <1>2 DEF P

LEMMA TotalOfZeros ==
  ASSUME NEW T, IsFiniteSet(T), NEW f, \A x \in T : f[x] = 0
  PROVE  Total(f, T) = 0
<1>1. Total(f, {}) = 0
  BY TotalOfNothing
<1>2. {} \subseteq T /\ (\A x \in T : f[x] \in Int) /\ (\A x \in T \ {} : f[x] = 0)
  OBVIOUS
<1>3. Total(f, T) = Total(f, {})
  BY <1>2, TotalSkipsZeros
<1> QED
  BY <1>1, <1>3

\* One term of a total changes.
LEMMA TotalChanges ==
  ASSUME NEW T, IsFiniteSet(T), NEW f, NEW g, NEW z \in T,
         \A x \in T : f[x] \in Int, \A x \in T : g[x] \in Int, \A x \in T \ {z} : g[x] = f[x]
  PROVE  /\ Total(f, T) \in Int /\ Total(g, T) \in Int
         /\ Total(g, T) = Total(f, T) - f[z] + g[z]
<1> DEFINE U == T \ {z}
<1>2. Total(f, T) = f[z] + Total(f, U) /\ Total(g, T) = g[z] + Total(g, U)
  BY TotalSplits
<1>3. IsFiniteSet(U) /\ (\A x \in U : f[x] \in Int) /\ (\A x \in U : g[x] = f[x])
  BY FS_RemoveElement
<1> HIDE DEF U
<1>4. Total(f, U) \in Int /\ Total(g, U) = Total(f, U)
  BY <1>3, TotalIsInt, TotalOfSame
<1>5. f[z] \in Int /\ g[z] \in Int
  OBVIOUS
<1> QED
  BY <1>2, <1>4, <1>5

LEMMA HowManyIsTotal == ASSUME NEW s PROVE HowMany(s) = Total(s, DOMAIN s)
  BY DEF HowMany, Total

LEMMA StampsAreCounted ==
    ASSUME NEW T, IsFiniteSet(T), NEW s \in [T -> Nat]
    PROVE  HowMany(s) \in Nat
<1>1. HowMany(s) = Total(s, T) /\ \A t \in T : s[t] \in Nat
  BY HowManyIsTotal
<1> QED
  BY <1>1, TotalIsNat

LEMMA NothingStamped ==
    ASSUME NEW T, IsFiniteSet(T)
    PROVE  NoStamps(T) \in [T -> Nat] /\ HowMany(NoStamps(T)) = 0
<1> DEFINE s == NoStamps(T)
<1>1. s \in [T -> Nat] /\ \A t \in T : s[t] \in Int /\ s[t] = 0
  BY DEF NoStamps
<1> HIDE DEF s
<1>2. HowMany(s) = Total(s, T)
  BY <1>1, HowManyIsTotal
<1>3. Total(s, T) = Total(s, {})
  <2>1. {} \subseteq T /\ \A t \in T \ {} : s[t] = 0
    BY <1>1
  <2> QED
    BY <1>1, <2>1, TotalSkipsZeros
<1> QED
  BY <1>1, <1>2, <1>3, TotalOfNothing DEF s

LEMMA FewerStamps ==
    ASSUME NEW T, IsFiniteSet(T), NEW r \in [T -> Nat], NEW s \in [T -> Nat],
           \A t \in T : r[t] <= s[t]
    PROVE  HowMany(r) <= HowMany(s)
<1>1. HowMany(r) = Total(r, T) /\ HowMany(s) = Total(s, T)
  BY HowManyIsTotal
<1>2. \A t \in T : r[t] \in Int /\ r[t] <= s[t] /\ s[t] \in Nat
  OBVIOUS
<1>3. Total(r, T) <= Total(s, T)
  BY <1>2, TotalGrows
<1> QED
  BY <1>1, <1>3

LEMMA OneStampMore ==
    ASSUME NEW T, IsFiniteSet(T), NEW s \in [T -> Nat], NEW now \in T
    PROVE  Stamped(s, now) \in [T -> Nat] /\ HowMany(Stamped(s, now)) = HowMany(s) + 1
<1> DEFINE r == Stamped(s, now)
<1>1. /\ r \in [T -> Nat] /\ r[now] = s[now] + 1
      /\ \A t \in T \ {now} : r[t] = s[t]
  BY DEF Stamped
<1> HIDE DEF r
<1>2. HowMany(r) = Total(r, T) /\ HowMany(s) = Total(s, T)
  BY <1>1, HowManyIsTotal
<1>3. (\A t \in T : r[t] \in Int /\ s[t] \in Int) /\ IsFiniteSet(T \ {now})
  BY <1>1, FS_RemoveElement
<1>4. /\ Total(r, T) = r[now] + Total(r, T \ {now})
      /\ Total(s, T) = s[now] + Total(s, T \ {now})
  BY <1>3, TotalSplits
<1>5. Total(r, T \ {now}) = Total(s, T \ {now}) /\ Total(s, T \ {now}) \in Int
  BY <1>1, <1>3, TotalOfSame, TotalIsInt
<1>6. HowMany(r) = HowMany(s) + 1
  BY <1>1, <1>2, <1>4, <1>5
<1> QED
  BY <1>1, <1>6 DEF r

LEMMA KeptStamps ==
    ASSUME NEW T, IsFiniteSet(T), NEW s \in [T -> Nat], NEW now, NEW period
    PROVE  /\ Kept(s, now, period) \in [T -> Nat]
           /\ \A t \in T : Kept(s, now, period)[t] <= s[t]
           /\ HowMany(Kept(s, now, period)) <= HowMany(s)
<1> DEFINE r == Kept(s, now, period)
<1>1. r \in [T -> Nat] /\ \A t \in T : r[t] <= s[t]
  BY DEF Kept
<1> HIDE DEF r
<1>2. HowMany(r) <= HowMany(s)
  BY <1>1, FewerStamps
<1> QED
  BY <1>1, <1>2 DEF r
=============================================================================
