---------------------------- MODULE BasicTheorems ----------------------------
(***************************************************************************)
(* What the proofs of several modules need: induction over naturals, the   *)
(* indices of a list and the subsets of a finite set, functions defined by *)
(* recursion, folds over a set, ranks, division, and facts about           *)
(* SumFunctionOnSet (Functions), the sum of the values f[x] for x in a     *)
(* finite set, in whatever order the fold takes them.                      *)
(***************************************************************************)
EXTENDS Functions, Integers, FiniteSetTheorems, WellFoundedInduction, TLAPS

----------------------------------------------------------------------------
(***************************************************************************)
(* Induction over the natural numbers.                                     *)
(***************************************************************************)

\* A set of naturals that is not empty has a least one.
LEMMA LeastNatural ==
  ASSUME NEW T \in SUBSET Nat, T # {}
  PROVE  \E m \in T : \A n \in T : m <= n
<1> DEFINE R == {s \in Nat \X Nat : s[1] < s[2]}
<1>1. R = OpToRel(<, Nat)
  BY Zenon DEF OpToRel
<1>2. IsWellFoundedOn(R, Nat)
  BY <1>1, NatLessThanWellFounded, Zenon
<1>3. PICK m \in T : \A n \in T : ~ (<<n, m>> \in R)
  <2> HIDE DEF R
  <2> QED
    BY <1>2, WFMin
<1>4. ASSUME NEW n \in T
      PROVE  m <= n
  <2> DEFINE pair == <<n, m>>
  <2>1. pair \in Nat \X Nat /\ pair[1] = n /\ pair[2] = m
    OBVIOUS
  <2> HIDE DEF pair
  <2>2. pair[1] < pair[2] => pair \in R
    BY <2>1
  <2>3. pair \notin R
    BY <1>3 DEF pair
  <2> QED
    BY <2>1, <2>2, <2>3
<1> QED
  BY <1>4

\* A set that has lo, and with each number from there on the next, has them all.
LEMMA UpwardInduction ==
  ASSUME NEW Q, NEW lo \in Nat, lo \in Q,
         \A n \in Nat : n >= lo /\ n \in Q => n + 1 \in Q
  PROVE  \A n \in Nat : n >= lo => n \in Q
<1> DEFINE T == {n \in Nat : n >= lo /\ n \notin Q}
<1>1. ASSUME T # {}
      PROVE  FALSE
  <2>1. PICK m \in T : \A n \in T : m <= n
    <3>1. T \in SUBSET Nat
      OBVIOUS
    <3> HIDE DEF T
    <3> QED
      BY <1>1, <3>1, LeastNatural
  <2>2. m \in Nat /\ m # lo /\ m >= lo /\ m \notin Q
    OBVIOUS
  <2>3. m - 1 \in Nat /\ m - 1 >= lo /\ m - 1 \notin T
    BY <2>1, <2>2
  <2>4. (m - 1) + 1 = m
    BY <2>2
  <2> QED
    BY <2>2, <2>3, <2>4
<1> QED
  BY <1>1

\* f goes through 1..n from the first value by steps that know the one before.
Follows(f, n, first, step) ==
  \A i \in 1..n : f[i] = IF i = 1 THEN first ELSE step[<<i, f[i - 1]>>]

\* There is such a function if the steps stay in V.
LEMMA RecursionExists ==
  ASSUME NEW n \in Nat, NEW V, NEW first \in V, NEW step \in [(1..n) \X V -> V]
  PROVE  \E f \in [1..n -> V] : Follows(f, n, first, step)
<1> DEFINE Rec(f, k) ==
             \A i \in 1..k : f[i] = IF i = 1 THEN first ELSE step[<<i, f[i - 1]>>]
           Q == {k \in Nat : k <= n => \E f \in [1..k -> V] : Rec(f, k)}
<1>1. 0 \in Q
  <2> DEFINE f == [i \in 1..0 |-> first]
  <2>1. f \in [1..0 -> V] /\ Rec(f, 0)
    OBVIOUS
  <2> HIDE DEF f, Rec
  <2> QED
    BY <2>1
<1>2. ASSUME NEW k \in Nat, k >= 0, k \in Q
      PROVE  k + 1 \in Q
  <2> SUFFICES ASSUME k + 1 <= n
               PROVE  \E g \in [1..k + 1 -> V] : Rec(g, k + 1)
    OBVIOUS
  <2>1. PICK f \in [1..k -> V] : Rec(f, k)
    BY <1>2
  <2> DEFINE last == IF k = 0 THEN first ELSE step[<<k + 1, f[k]>>]
             g == [i \in 1..k + 1 |-> IF i = k + 1 THEN last ELSE f[i]]
  <2>2. last \in V
    <3>1. CASE k = 0
      BY <3>1
    <3>2. CASE k # 0
      <4>1. k \in 1..k /\ k + 1 \in 1..n
        BY <3>2
      <4>2. <<k + 1, f[k]>> \in (1..n) \X V
        BY <4>1
      <4> HIDE DEF Rec
      <4> QED
        BY <3>2, <4>2
    <3> QED
      BY <3>1, <3>2
  <2> HIDE DEF last
  <2>3. g \in [1..k + 1 -> V]
    BY <2>2
  <2>4. \A i \in 1..k : g[i] = f[i]
    OBVIOUS
  <2>5. g[k + 1] = last
    OBVIOUS
  <2> HIDE DEF g
  <2>6. ASSUME NEW i \in 1..k + 1
        PROVE  g[i] = IF i = 1 THEN first ELSE step[<<i, g[i - 1]>>]
    <3>1. CASE i = k + 1
      <4>1. k # 0 => k \in 1..k /\ i - 1 = k
        BY <3>1
      <4> QED
        BY <2>4, <2>5, <3>1, <4>1 DEF last
    <3>2. CASE i # k + 1
      <4>1. i \in 1..k /\ (i # 1 => i - 1 \in 1..k)
        BY <3>2
      <4> QED
        BY <2>1, <2>4, <4>1
    <3> QED
      BY <3>1, <3>2
  <2> QED
    BY <2>3, <2>6
<1> HIDE DEF Q
<1>3. n \in Q
  BY <1>1, <1>2, UpwardInduction
<1> QED
  BY <1>3 DEF Q, Follows

\* Induction over the indices of a list.
LEMMA IndexInduction ==
  ASSUME NEW n \in Nat, NEW Q, \A i \in 1..n : i = 1 \/ i - 1 \in Q => i \in Q
  PROVE  \A i \in 1..n : i \in Q
<1> DEFINE P == {k \in Nat : k <= n => k \in Q}
<1>1. CASE n = 0
  BY <1>1
<1>2. CASE n # 0
  <2>1. 1 \in P
    BY <1>2
  <2>2. ASSUME NEW k \in Nat, k >= 1, k \in P
        PROVE  k + 1 \in P
    <3> SUFFICES ASSUME k + 1 <= n
                 PROVE  k + 1 \in Q
      OBVIOUS
    <3>1. k + 1 \in 1..n /\ (k + 1) - 1 = k
      OBVIOUS
    <3> QED
      BY <2>2, <3>1
  <2> HIDE DEF P
  <2>3. \A k \in Nat : k >= 1 => k \in P
    BY <2>1, <2>2, UpwardInduction
  <2> QED
    BY <2>3 DEF P
<1> QED
  BY <1>1, <1>2

----------------------------------------------------------------------------
(***************************************************************************)
(* Division.                                                               *)
(***************************************************************************)

\* The remainder tells what integer division leaves.
LEMMA Divided ==
  ASSUME NEW n \in Int, NEW d \in Nat \ {0}, NEW q \in Int
  PROVE  n \div d = q <=> q * d <= n /\ n < q * d + d
<1>1. n = d * (n \div d) + (n % d) /\ n % d \in 0..(d - 1) /\ n \div d \in Int
  OBVIOUS
<1> DEFINE p == n \div d
<1>2. p \in Int /\ d * p <= n /\ n < d * p + d
  BY <1>1
<1> HIDE DEF p
<1>3. p = q => q * d <= n /\ n < q * d + d
  BY <1>2
<1>4. ASSUME q * d <= n, n < q * d + d
      PROVE  p = q
  <2>1. ASSUME p < q
        PROVE  FALSE
    <3>1. q = p + (q - p) /\ q - p >= 1 /\ q - p \in Nat
      BY <1>2, <2>1
    <3>2. d * (q - p) >= d
      BY <3>1
    <3>3. d * q = d * p + d * (q - p)
      BY <1>2
    <3> QED
      BY <1>2, <1>4, <3>2, <3>3
  <2>2. ASSUME q < p
        PROVE  FALSE
    <3>1. p - q >= 1 /\ p - q \in Nat
      BY <1>2, <2>2
    <3>2. d * (p - q) >= d
      BY <3>1
    <3>3. d * p = d * q + d * (p - q)
      BY <1>2
    <3> QED
      BY <1>2, <1>4, <3>2, <3>3
  <2> QED
    BY <1>2, <2>1, <2>2
<1> QED
  BY <1>3, <1>4 DEF p

----------------------------------------------------------------------------
(***************************************************************************)
(* Induction over the subsets of a finite set.                             *)
(***************************************************************************)

\* A set of subsets that has a member whenever it has all the smaller ones
\* has every finite one.
LEMMA SubsetInduction ==
  ASSUME NEW S, IsFiniteSet(S), NEW Q,
         \A T \in SUBSET S : (\A U \in SUBSET T : U # T => U \in Q) => T \in Q
  PROVE  \A T \in SUBSET S : T \in Q
<1> SUFFICES ASSUME NEW T0 \in SUBSET S, T0 \notin Q
             PROVE  FALSE
  OBVIOUS
<1> DEFINE Bad == {T \in SUBSET S : T \notin Q}
<1>1. IsWellFoundedOn(StrictSubsetOrdering(S), FiniteSubsetsOf(S))
  BY FS_StrictSubsetOrderingWellFounded
<1>2. Bad \subseteq FiniteSubsetsOf(S)
  BY FS_Subset DEF FiniteSubsetsOf
<1>3. T0 \in Bad
  OBVIOUS
<1> HIDE DEF Bad
<1>4. PICK T \in Bad : \A U \in Bad : <<U, T>> \notin StrictSubsetOrdering(S)
  BY <1>1, <1>2, <1>3, WFMin
<1>5. T \in SUBSET S /\ T \notin Q /\ \A U \in SUBSET T : U # T => U \in Q
  BY <1>4 DEF Bad, StrictSubsetOrdering
<1> QED
  BY <1>5

\* A set of subsets that has the empty one, and with each every larger one by
\* an element, has every finite one.
LEMMA ElementInduction ==
  ASSUME NEW S, IsFiniteSet(S), NEW Q, {} \in Q,
         \A T \in SUBSET S : \A x \in S \ T : T \in Q => T \cup {x} \in Q
  PROVE  \A T \in SUBSET S : T \in Q
<1>1. ASSUME NEW T \in SUBSET S, \A U \in SUBSET T : U # T => U \in Q
      PROVE  T \in Q
  <2>1. CASE T = {}
    BY <2>1
  <2>2. CASE T # {}
    <3>1. PICK x \in T : TRUE
      BY <2>2
    <3>2. T \ {x} \in Q /\ T = (T \ {x}) \cup {x} /\ x \in S \ (T \ {x})
      BY <1>1
    <3> QED
      BY <3>2
  <2> QED
    BY <2>1, <2>2
<1> QED
  BY <1>1, SubsetInduction

----------------------------------------------------------------------------
(***************************************************************************)
(* The fold.                                                               *)
(***************************************************************************)

Pick(T) == CHOOSE x \in T : TRUE

\* What SumFunctionOnSet's recursive function is.
Sums(g, f, S) ==
  g = [T \in SUBSET S |-> IF T = {} THEN 0 ELSE f[Pick(T)] + g[T \ {Pick(T)}]]

LEMMA SumIs ==
  ASSUME NEW f, NEW S
  PROVE  SumFunctionOnSet(f, S) = (CHOOSE g : Sums(g, f, S))[S]
BY DEF SumFunctionOnSet, FoldFunctionOnSet, MapThenFoldSet, Sums, Pick

LEMMA SumsUnfold ==
  ASSUME NEW f, NEW S, NEW g, Sums(g, f, S)
  PROVE  \A T \in SUBSET S :
           g[T] = IF T = {} THEN 0 ELSE f[Pick(T)] + g[T \ {Pick(T)}]
BY DEF Sums

LEMMA PickIn == \A T : T # {} => Pick(T) \in T
BY DEF Pick

\* Two such functions agree where both are defined.
LEMMA SumsAgree ==
  ASSUME NEW f, NEW S, IsFiniteSet(S), NEW S2, NEW g, NEW h,
         Sums(g, f, S), Sums(h, f, S2), S \subseteq S2
  PROVE  \A T \in SUBSET S : g[T] = h[T]
<1> DEFINE Q == {T \in SUBSET S : g[T] = h[T]}
<1>1. ASSUME NEW T \in SUBSET S, \A U \in SUBSET T : U # T => U \in Q
      PROVE  T \in Q
  <2>1. CASE T = {}
    BY <2>1, SumsUnfold, ZenonT(30)
  <2>2. CASE T # {}
    <3>1. T \ {Pick(T)} \in SUBSET T /\ T \ {Pick(T)} # T
      BY <2>2, PickIn
    <3>2. g[T \ {Pick(T)}] = h[T \ {Pick(T)}]
      BY <1>1, <3>1
    <3>3. g[T] = f[Pick(T)] + g[T \ {Pick(T)}]
      BY <2>2, SumsUnfold
    <3>4. T \in SUBSET S2 /\ h[T] = f[Pick(T)] + h[T \ {Pick(T)}]
      BY <2>2, SumsUnfold
    <3> QED
      BY <3>2, <3>3, <3>4
  <2> QED
    BY <2>1, <2>2
<1> HIDE DEF Q
<1>2. \A T \in SUBSET S : T \in Q
  BY <1>1, SubsetInduction
<1> QED
  BY <1>2 DEF Q

\* A finite set has one.
LEMMA SumsExist ==
  ASSUME NEW f, NEW S, IsFiniteSet(S)
  PROVE  \E g : Sums(g, f, S)
<1> DEFINE Q == {T \in SUBSET S : \E g : Sums(g, f, T)}
           G(T) == CHOOSE g : Sums(g, f, T)
<1>1. ASSUME NEW T \in SUBSET S, \A U \in SUBSET T : U # T => U \in Q
      PROVE  T \in Q
  <2> DEFINE rest == T \ {Pick(T)}
             own  == IF T = {} THEN 0 ELSE f[Pick(T)] + G(rest)[rest]
             g    == [U \in SUBSET T |-> IF U = T THEN own ELSE G(U)[U]]
  <2>1. \A U \in SUBSET T : U # T => Sums(G(U), f, U) /\ IsFiniteSet(U)
    BY <1>1, FS_Subset
  <2>2. T # {} => Pick(T) \in T /\ rest \in SUBSET T /\ rest # T
    BY PickIn
  <2>3. ASSUME NEW U \in SUBSET T, U # T, U # {}
        PROVE  G(U)[U] = f[Pick(U)] + G(U \ {Pick(U)})[U \ {Pick(U)}]
    <3> DEFINE V  == U \ {Pick(U)}
               gu == G(U)
               gv == G(V)
    <3>1. V \in SUBSET U /\ V \in SUBSET T /\ V # T
      BY <2>3
    <3>2. Sums(gu, f, U) /\ Sums(gv, f, V) /\ IsFiniteSet(V)
      BY <2>1, <2>3, <3>1
    <3> HIDE DEF gu, gv
    <3>3. gv[V] = gu[V]
      BY <3>1, <3>2, SumsAgree, SMTT(30)
    <3>4. gu[U] = f[Pick(U)] + gu[V]
      BY <2>3, <3>2, SumsUnfold
    <3> QED
      BY <3>3, <3>4 DEF gu, gv
  <2>4. ASSUME NEW U \in SUBSET T, U # T, U = {}
        PROVE  G(U)[U] = 0
    <3> DEFINE gu == G(U)
    <3>1. Sums(gu, f, U)
      BY <2>1, <2>4
    <3> HIDE DEF gu
    <3>2. gu[U] = 0
      BY <2>4, <3>1, SumsUnfold
    <3> QED
      BY <3>2 DEF gu
  <2> HIDE DEF G
  <2>5. ASSUME NEW U \in SUBSET T
        PROVE  g[U] = IF U = {} THEN 0 ELSE f[Pick(U)] + g[U \ {Pick(U)}]
    <3>1. U # {} => U \ {Pick(U)} \in SUBSET T /\ U \ {Pick(U)} # T
      BY PickIn
    <3>2. U # {} => g[U \ {Pick(U)}] = G(U \ {Pick(U)})[U \ {Pick(U)}]
      BY <3>1
    <3>3. CASE U = T
      BY <3>2, <3>3
    <3>4. CASE U # T /\ U = {}
      BY <2>4, <3>4
    <3>5. CASE U # T /\ U # {}
      BY <2>3, <3>2, <3>5
    <3> QED
      BY <3>3, <3>4, <3>5
  <2>6. Sums(g, f, T)
    BY <2>5 DEF Sums
  <2> QED
    BY <2>6
<1> HIDE DEF Q
<1>2. S \in Q
  BY <1>1, SubsetInduction
<1> QED
  BY <1>2 DEF Q

\* So the sum is the value of any of them, on the set or on a larger one.
LEMMA SumIsValue ==
  ASSUME NEW f, NEW S, IsFiniteSet(S), NEW g, Sums(g, f, S)
  PROVE  \A T \in SUBSET S : SumFunctionOnSet(f, T) = g[T]
<1> TAKE T \in SUBSET S
<1> DEFINE h == CHOOSE h : Sums(h, f, T)
<1>1. IsFiniteSet(T)
  BY FS_Subset
<1>2. Sums(h, f, T)
  BY <1>1, SumsExist
<1> HIDE DEF h
<1>3. h[T] = g[T]
  BY <1>1, <1>2, SumsAgree
<1> QED
  BY <1>3, SumIs DEF h

----------------------------------------------------------------------------
(***************************************************************************)
(* Sums.                                                                   *)
(***************************************************************************)

LEMMA SumStep ==
  ASSUME NEW f, NEW S, IsFiniteSet(S)
  PROVE  SumFunctionOnSet(f, S) =
           IF S = {} THEN 0 ELSE f[Pick(S)] + SumFunctionOnSet(f, S \ {Pick(S)})
<1>1. PICK g : Sums(g, f, S)
  BY SumsExist
<1>2. \A T \in SUBSET S : SumFunctionOnSet(f, T) = g[T]
  BY <1>1, SumIsValue
<1>3. g[S] = IF S = {} THEN 0 ELSE f[Pick(S)] + g[S \ {Pick(S)}]
  BY <1>1, SumsUnfold
<1> QED
  BY <1>2, <1>3

LEMMA SumEmpty == \A f : SumFunctionOnSet(f, {}) = 0
BY FS_EmptySet, SumStep

\* A sum of naturals is one.
LEMMA SumNat ==
  ASSUME NEW f, NEW S, IsFiniteSet(S), \A x \in S : f[x] \in Nat
  PROVE  SumFunctionOnSet(f, S) \in Nat
<1> DEFINE Q == {T \in SUBSET S : SumFunctionOnSet(f, T) \in Nat}
<1>1. ASSUME NEW T \in SUBSET S, \A U \in SUBSET T : U # T => U \in Q
      PROVE  T \in Q
  <2>1. SumFunctionOnSet(f, T) =
          IF T = {} THEN 0 ELSE f[Pick(T)] + SumFunctionOnSet(f, T \ {Pick(T)})
    BY FS_Subset, SumStep
  <2>2. T # {} => f[Pick(T)] \in Nat /\ SumFunctionOnSet(f, T \ {Pick(T)}) \in Nat
    BY <1>1, PickIn
  <2> QED
    BY <2>1, <2>2
<1> HIDE DEF Q
<1>2. S \in Q
  BY <1>1, SubsetInduction
<1> QED
  BY <1>2 DEF Q

\* Only the values on the set count.
LEMMA SumSame ==
  ASSUME NEW f, NEW g, NEW S, IsFiniteSet(S), \A x \in S : f[x] = g[x]
  PROVE  SumFunctionOnSet(f, S) = SumFunctionOnSet(g, S)
<1> DEFINE Q == {T \in SUBSET S : SumFunctionOnSet(f, T) = SumFunctionOnSet(g, T)}
<1>1. ASSUME NEW T \in SUBSET S, \A U \in SUBSET T : U # T => U \in Q
      PROVE  T \in Q
  <2>1. /\ SumFunctionOnSet(f, T) =
             IF T = {} THEN 0 ELSE f[Pick(T)] + SumFunctionOnSet(f, T \ {Pick(T)})
        /\ SumFunctionOnSet(g, T) =
             IF T = {} THEN 0 ELSE g[Pick(T)] + SumFunctionOnSet(g, T \ {Pick(T)})
    BY FS_Subset, SumStep
  <2>2. T # {} => /\ f[Pick(T)] = g[Pick(T)]
                  /\ SumFunctionOnSet(f, T \ {Pick(T)}) = SumFunctionOnSet(g, T \ {Pick(T)})
    BY <1>1, PickIn
  <2> QED
    BY <2>1, <2>2
<1> HIDE DEF Q
<1>2. S \in Q
  BY <1>1, SubsetInduction
<1> QED
  BY <1>2 DEF Q

\* Any element can be taken out, not only the one the fold takes.
LEMMA SumRemove ==
  ASSUME NEW f, NEW S, IsFiniteSet(S), \A x \in S : f[x] \in Nat, NEW x \in S
  PROVE  SumFunctionOnSet(f, S) = f[x] + SumFunctionOnSet(f, S \ {x})
<1> DEFINE Total(T) == SumFunctionOnSet(f, T)
           Q == {T \in SUBSET S : \A y \in T : Total(T) = f[y] + Total(T \ {y})}
<1>0. \A T \in SUBSET S : IsFiniteSet(T) /\ Total(T) \in Nat
  BY FS_Subset, SumNat
<1>1. \A T \in SUBSET S : T # {} =>
        Pick(T) \in T /\ Total(T) = f[Pick(T)] + Total(T \ {Pick(T)})
  BY <1>0, SumStep, PickIn
<1> HIDE DEF Total
<1>2. ASSUME NEW T \in SUBSET S, \A U \in SUBSET T : U # T => U \in Q
      PROVE  T \in Q
  <2> SUFFICES ASSUME NEW y \in T
               PROVE  Total(T) = f[y] + Total(T \ {y})
    OBVIOUS
  <2> DEFINE p == Pick(T)
  <2>1. p \in T /\ Total(T) = f[p] + Total(T \ {p})
    BY <1>1
  <2> HIDE DEF p
  <2>2. CASE y = p
    BY <2>1, <2>2
  <2>3. CASE y # p
    <3>1. T \ {p} \in Q /\ T \ {y} \in Q /\ y \in T \ {p} /\ p \in T \ {y}
      BY <1>2, <2>1, <2>3
    <3>2. Total(T \ {p}) = f[y] + Total((T \ {p}) \ {y})
      BY <3>1
    <3>3. Total(T \ {y}) = f[p] + Total((T \ {y}) \ {p})
      BY <3>1
    <3>4. (T \ {p}) \ {y} = (T \ {y}) \ {p}
      OBVIOUS
    <3>5. f[p] \in Nat /\ f[y] \in Nat /\ Total((T \ {y}) \ {p}) \in Nat
      BY <1>0, <2>1
    <3> QED
      BY <2>1, <3>2, <3>3, <3>4, <3>5
  <2> QED
    BY <2>2, <2>3
<1> HIDE DEF Q
<1>3. S \in Q
  BY <1>2, SubsetInduction
<1> QED
  BY <1>3 DEF Q, Total

LEMMA SumAdd ==
  ASSUME NEW f, NEW S, IsFiniteSet(S), NEW x, x \notin S,
         \A y \in S \cup {x} : f[y] \in Nat
  PROVE  SumFunctionOnSet(f, S \cup {x}) = SumFunctionOnSet(f, S) + f[x]
<1> DEFINE T == S \cup {x}
<1>1. IsFiniteSet(T) /\ x \in T /\ T \ {x} = S /\ \A y \in T : f[y] \in Nat
  BY FS_AddElement
<1> HIDE DEF T
<1>2. SumFunctionOnSet(f, T) = f[x] + SumFunctionOnSet(f, T \ {x})
  BY <1>1, SumRemove
<1>3. f[x] \in Nat /\ SumFunctionOnSet(f, S) \in Nat
  BY <1>1, SumNat
<1> QED
  BY <1>1, <1>2, <1>3 DEF T

\* Values of zero add nothing.
LEMMA SumZero ==
  ASSUME NEW f, NEW S, IsFiniteSet(S), \A x \in S : f[x] = 0
  PROVE  SumFunctionOnSet(f, S) = 0
<1> DEFINE Q == {T \in SUBSET S : SumFunctionOnSet(f, T) = 0}
<1>1. {} \in Q
  BY SumEmpty
<1>2. ASSUME NEW T \in SUBSET S, NEW x \in S \ T, T \in Q
      PROVE  T \cup {x} \in Q
  <2>1. IsFiniteSet(T) /\ \A y \in T \cup {x} : f[y] \in Nat
    BY FS_Subset
  <2> QED
    BY <1>2, <2>1, SumAdd
<1> HIDE DEF Q
<1>3. S \in Q
  BY <1>1, <1>2, ElementInduction
<1> QED
  BY <1>3 DEF Q

\* And one with a single other term is that term.
LEMMA SumOnly ==
  ASSUME NEW f, NEW S, IsFiniteSet(S), NEW x \in S, f[x] \in Nat,
         \A y \in S : y # x => f[y] = 0
  PROVE  SumFunctionOnSet(f, S) = f[x]
<1>1. SumFunctionOnSet(f, S) = f[x] + SumFunctionOnSet(f, S \ {x})
  BY SumRemove
<1>2. SumFunctionOnSet(f, S \ {x}) = 0
  BY FS_RemoveElement, SumZero
<1> QED
  BY <1>1, <1>2

\* One value grows.
LEMMA SumGrows ==
  ASSUME NEW f, NEW g, NEW S, IsFiniteSet(S), NEW x \in S, NEW d \in Nat,
         \A y \in S : f[y] \in Nat,
         \A y \in S : g[y] = IF y = x THEN f[x] + d ELSE f[y]
  PROVE  SumFunctionOnSet(g, S) = SumFunctionOnSet(f, S) + d
<1>1. IsFiniteSet(S \ {x})
  BY FS_RemoveElement
<1>2. SumFunctionOnSet(g, S \ {x}) = SumFunctionOnSet(f, S \ {x})
  BY <1>1, SumSame
<1>3. SumFunctionOnSet(f, S) = f[x] + SumFunctionOnSet(f, S \ {x})
  BY SumRemove
<1>4. \A y \in S : g[y] \in Nat
  OBVIOUS
<1>5. SumFunctionOnSet(g, S) = g[x] + SumFunctionOnSet(g, S \ {x})
  BY <1>4, SumRemove
<1>6. f[x] \in Nat /\ SumFunctionOnSet(f, S \ {x}) \in Nat
  BY <1>1, SumNat
<1> QED
  BY <1>2, <1>3, <1>5, <1>6

\* A sum taken class by class.
LEMMA SumByClass ==
  ASSUME NEW f, NEW S, IsFiniteSet(S), \A x \in S : f[x] \in Nat,
         NEW C, IsFiniteSet(C), NEW class \in [S -> C]
  PROVE  SumFunctionOnSet(f, S) =
           SumFunctionOnSet(
             [c \in C |-> SumFunctionOnSet(f, {x \in S : class[x] = c})], C)
<1> DEFINE Of(T) == [c \in C |-> SumFunctionOnSet(f, {x \in T : class[x] = c})]
           Q == {T \in SUBSET S : SumFunctionOnSet(f, T) = SumFunctionOnSet(Of(T), C)}
<1>1. {} \in Q
  <2>1. \A c \in C : Of({})[c] = 0
    BY SumEmpty
  <2>2. SumFunctionOnSet(Of({}), C) = 0
    <3> DEFINE o == Of({})
    <3> HIDE DEF o
    <3>1. SumFunctionOnSet(o, C) = 0
      BY <2>1, SumZero DEF o
    <3> QED
      BY <3>1 DEF o
  <2> QED
    BY <2>2, SumEmpty
<1>2. ASSUME NEW T \in SUBSET S, NEW x \in S \ T, T \in Q
      PROVE  T \cup {x} \in Q
  <2> DEFINE o  == Of(T)
             o2 == Of(T \cup {x})
             k  == class[x]
  <2>1. k \in C /\ f[x] \in Nat /\ IsFiniteSet(T)
    BY FS_Subset
  <2>2. \A c \in C : o[c] \in Nat
    <3> TAKE c \in C
    <3>1. {y \in T : class[y] = c} \in SUBSET T
      OBVIOUS
    <3>2. IsFiniteSet({y \in T : class[y] = c})
      BY <2>1, <3>1, FS_Subset
    <3> QED
      BY <3>2, SumNat
  <2>3. \A c \in C : o2[c] = IF c = k THEN o[k] + f[x] ELSE o[c]
    <3> TAKE c \in C
    <3> DEFINE P == {y \in T : class[y] = c}
    <3>1. CASE c = k
      <4>1. {y \in T \cup {x} : class[y] = c} = P \cup {x}
        BY <3>1
      <4>2. IsFiniteSet(P)
        <5>1. P \in SUBSET T
          OBVIOUS
        <5> QED
          BY <2>1, <5>1, FS_Subset
      <4>3. x \notin P /\ \A y \in P \cup {x} : f[y] \in Nat
        OBVIOUS
      <4>4. o[c] = SumFunctionOnSet(f, P)
        OBVIOUS
      <4>5. o2[c] = SumFunctionOnSet(f, P \cup {x})
        BY <4>1
      <4> HIDE DEF P, o, o2
      <4>6. SumFunctionOnSet(f, P \cup {x}) = SumFunctionOnSet(f, P) + f[x]
        BY <4>2, <4>3, SumAdd
      <4> QED
        BY <3>1, <4>4, <4>5, <4>6
    <3>2. CASE c # k
      <4>1. {y \in T \cup {x} : class[y] = c} = P
        BY <3>2
      <4> QED
        BY <3>2, <4>1
    <3> QED
      BY <3>1, <3>2
  <2> HIDE DEF o, o2, k
  <2>4. SumFunctionOnSet(o2, C) = SumFunctionOnSet(o, C) + f[x]
    BY <2>1, <2>2, <2>3, SumGrows
  <2>5. SumFunctionOnSet(f, T \cup {x}) = SumFunctionOnSet(f, T) + f[x]
    BY <2>1, SumAdd
  <2>6. SumFunctionOnSet(f, T) = SumFunctionOnSet(o, C)
    BY <1>2 DEF o
  <2>7. SumFunctionOnSet(f, T \cup {x}) = SumFunctionOnSet(o2, C)
    BY <2>4, <2>5, <2>6
  <2> QED
    BY <2>7 DEF o2
<1> HIDE DEF Q
<1>3. S \in Q
  BY <1>1, <1>2, ElementInduction
<1> QED
  BY <1>3 DEF Q

\* So the sum over a partition is the sum of those over its parts.
LEMMA SumByGroup ==
  ASSUME NEW f, NEW S, IsFiniteSet(S), \A x \in S : f[x] \in Nat,
         NEW C, IsFiniteSet(C), NEW group \in [C -> SUBSET S],
         \A x \in S : \E c \in C : x \in group[c],
         \A c, d \in C : c # d => group[c] \cap group[d] = {},
         NEW g, \A c \in C : g[c] = SumFunctionOnSet(f, group[c])
  PROVE  SumFunctionOnSet(f, S) = SumFunctionOnSet(g, C)
<1> DEFINE class == [x \in S |-> CHOOSE c \in C : x \in group[c]]
           Of(c) == {x \in S : class[x] = c}
           h == [c \in C |-> SumFunctionOnSet(f, {x \in S : class[x] = c})]
<1>1. \A x \in S : class[x] \in C /\ x \in group[class[x]]
  OBVIOUS
<1>2. class \in [S -> C]
  BY <1>1
<1>3. ASSUME NEW c \in C
      PROVE  Of(c) = group[c]
  BY <1>1
<1>4. \A c \in C : h[c] = g[c]
  <2> TAKE c \in C
  <2>1. h[c] = SumFunctionOnSet(f, Of(c))
    OBVIOUS
  <2> QED
    BY <1>3, <2>1
<1>5. SumFunctionOnSet(f, S) = SumFunctionOnSet(h, C)
  <2> HIDE DEF class
  <2> QED
    BY <1>2, SumByClass
<1>6. SumFunctionOnSet(h, C) = SumFunctionOnSet(g, C)
  <2> HIDE DEF h
  <2> QED
    BY <1>4, SumSame
<1> QED
  BY <1>5, <1>6

\* Summing over the elements under other names.
LEMMA SumRename ==
  ASSUME NEW f, NEW S, IsFiniteSet(S), \A x \in S : f[x] \in Nat,
         NEW R, NEW name \in [S -> R], \A x, y \in S : name[x] = name[y] => x = y,
         \A r \in R : \E x \in S : r = name[x],
         NEW g, \A x \in S : g[name[x]] = f[x]
  PROVE  IsFiniteSet(R) /\ SumFunctionOnSet(f, S) = SumFunctionOnSet(g, R)
<1> DEFINE Named(T) == {name[x] : x \in T}
           Q == {T \in SUBSET S :
                   /\ SumFunctionOnSet(f, T) = SumFunctionOnSet(g, Named(T))
                   /\ IsFiniteSet(Named(T))}
<1>1. {} \in Q
  <2>1. Named({}) = {}
    OBVIOUS
  <2> QED
    BY <2>1, SumEmpty, FS_EmptySet
<1>2. ASSUME NEW T \in SUBSET S, NEW x \in S \ T, T \in Q
      PROVE  T \cup {x} \in Q
  <2> DEFINE P == Named(T)
             y == name[x]
  <2>1. Named(T \cup {x}) = P \cup {y}
    OBVIOUS
  <2>2. IsFiniteSet(T) /\ IsFiniteSet(P) /\ y \notin P
    BY <1>2, FS_Subset
  <2>3. (\A z \in T \cup {x} : f[z] \in Nat) /\ (\A z \in P \cup {y} : g[z] \in Nat)
    OBVIOUS
  <2>4. g[y] = f[x] /\ SumFunctionOnSet(f, T) = SumFunctionOnSet(g, P)
    BY <1>2
  <2>5. IsFiniteSet(P \cup {y})
    BY <2>2, FS_AddElement
  <2> HIDE DEF P, y
  <2>6. SumFunctionOnSet(f, T \cup {x}) = SumFunctionOnSet(f, T) + f[x]
    BY <2>2, <2>3, SumAdd
  <2>7. SumFunctionOnSet(g, P \cup {y}) = SumFunctionOnSet(g, P) + g[y]
    BY <2>2, <2>3, SumAdd
  <2> QED
    BY <2>1, <2>4, <2>5, <2>6, <2>7
<1> HIDE DEF Q
<1>3. S \in Q
  BY <1>1, <1>2, ElementInduction
<1>4. Named(S) = R
  OBVIOUS
<1> QED
  BY <1>3, <1>4 DEF Q

\* In particular over the pairs of one first component.
Row(s, U) == [k \in U |-> <<s, k>>]

LEMMA SumRow ==
  ASSUME NEW f, NEW U, IsFiniteSet(U), \A k \in U : f[k] \in Nat, NEW s,
         NEW g, \A k \in U : g[Row(s, U)[k]] = f[k]
  PROVE  SumFunctionOnSet(f, U) = SumFunctionOnSet(g, Range(Row(s, U)))
<1>1. Row(s, U) \in [U -> Range(Row(s, U))]
  BY DEF Row, Range
<1>2. \A r \in Range(Row(s, U)) : \E k \in U : r = Row(s, U)[k]
  BY DEF Row, Range
<1>3. \A x, y \in U : Row(s, U)[x] = Row(s, U)[y] => x = y
  BY DEF Row
<1> QED
  BY <1>1, <1>2, <1>3, SumRename

----------------------------------------------------------------------------
(***************************************************************************)
(* Ranks, iteration, and folds over a set.                                 *)
(***************************************************************************)

\* In a finite set whose members are in a line, before[x] being what comes before
\* x, there is one member of each rank.
LEMMA RankExists ==
  ASSUME NEW S, IsFiniteSet(S), NEW before \in [S -> SUBSET S],
         \A x \in S : x \notin before[x],
         \A x, y \in S : x \in before[y] => before[x] \subseteq before[y],
         \A x, y \in S : x # y => x \in before[y] \/ y \in before[x]
  PROVE  /\ Cardinality(S) \in Nat
         /\ \A x \in S : Cardinality(before[x]) + 1 \in 1..Cardinality(S)
         /\ \A k \in 1..Cardinality(S) : \E x \in S : Cardinality(before[x]) = k - 1
         /\ \A x, y \in S : x \in before[y] => Cardinality(before[x]) < Cardinality(before[y])
<1> DEFINE n == Cardinality(S)
           f == [x \in S |-> Cardinality(before[x]) + 1]
<1>1. n \in Nat /\ IsFiniteSet(1..n) /\ Cardinality(1..n) = n
  BY FS_CardinalityType, FS_Interval
<1>2. ASSUME NEW x \in S
      PROVE  /\ IsFiniteSet(before[x]) /\ Cardinality(before[x]) \in Nat
             /\ Cardinality(before[x]) + 1 \in 1..n
  <2>1. before[x] \in SUBSET (S \ {x})
    OBVIOUS
  <2>2. IsFiniteSet(S \ {x}) /\ Cardinality(S \ {x}) = n - 1
    BY FS_RemoveElement
  <2>3. IsFiniteSet(before[x]) /\ Cardinality(before[x]) <= n - 1
    BY <2>1, <2>2, FS_Subset
  <2>4. Cardinality(before[x]) \in Nat
    BY <2>3, FS_CardinalityType
  <2> HIDE DEF n
  <2> QED
    BY <1>1, <2>3, <2>4
<1>3. ASSUME NEW x \in S, NEW y \in S, x \in before[y]
      PROVE  Cardinality(before[x]) < Cardinality(before[y])
  <2>1. before[x] \cup {x} \in SUBSET before[y] /\ x \notin before[x]
    BY <1>3
  <2>2. Cardinality(before[x] \cup {x}) = Cardinality(before[x]) + 1
    BY <1>2, <2>1, FS_AddElement
  <2>3. Cardinality(before[x] \cup {x}) <= Cardinality(before[y])
    BY <1>2, <2>1, FS_Subset
  <2> QED
    BY <1>2, <2>2, <2>3
<1>4. f \in Injection(S, 1..n)
  <2>1. f \in [S -> 1..n]
    BY <1>2
  <2>2. \A x, y \in S : f[x] = f[y] => x = y
    BY <1>2, <1>3
  <2> HIDE DEF f, n
  <2> QED
    BY <2>1, <2>2 DEF Injection, IsInjective
<1>5. f \in Surjection(S, 1..n)
  <2> HIDE DEF f
  <2> QED
    BY <1>1, <1>4, FS_Injection
<1>6. ASSUME NEW k \in 1..n
      PROVE  \E x \in S : Cardinality(before[x]) = k - 1
  <2>1. PICK x \in S : f[x] = k
    BY <1>5 DEF Surjection
  <2> QED
    BY <1>2, <2>1
<1> QED
  BY <1>1, <1>2, <1>3, <1>6

\* The place in a list of the k-th of the places I.
Nth(I, k) == CHOOSE i \in I : Cardinality({j \in I : j < i}) = k - 1

\* The places I of a list in their order: each has its rank, and is not before
\* the place of that rank in the shorter list.
LEMMA NthIs ==
  ASSUME NEW n \in Nat, NEW I \in SUBSET (1..n)
  PROVE  /\ Cardinality(I) \in Nat
         /\ \A k \in 1..Cardinality(I) : Nth(I, k) \in I /\ k <= Nth(I, k)
         /\ \A i \in I : \E k \in 1..Cardinality(I) : k <= i /\ Nth(I, k) = i
         /\ \A j, k \in 1..Cardinality(I) : Nth(I, j) <= Nth(I, k) => j <= k
<1> DEFINE before == [i \in I |-> {j \in I : j < i}]
           m == Cardinality(I)
<1>1. IsFiniteSet(I)
  <2>1. IsFiniteSet(1..n)
    BY FS_Interval
  <2> QED
    BY <2>1, FS_Subset
<1>2. \A i \in I : i \in Nat /\ i >= 1 /\ i - 1 \in Nat
  OBVIOUS
<1>3. /\ m \in Nat
      /\ \A i \in I : Cardinality(before[i]) + 1 \in 1..m
      /\ \A k \in 1..m : \E i \in I : Cardinality(before[i]) = k - 1
      /\ \A i, j \in I : i \in before[j] => Cardinality(before[i]) < Cardinality(before[j])
  <2>1. before \in [I -> SUBSET I] /\ \A i \in I : i \notin before[i]
    BY <1>2
  <2>2. ASSUME NEW i \in I, NEW j \in I, i \in before[j]
        PROVE  before[i] \subseteq before[j]
    <3>1. i < j
      BY <2>2
    <3>2. \A h \in I : h < i => h < j
      BY <1>2, <3>1
    <3> QED
      BY <3>2
  <2>3. \A i, j \in I : i # j => i \in before[j] \/ j \in before[i]
    BY <1>2
  <2> HIDE DEF before
  <2> QED
    BY <1>1, <2>1, <2>2, <2>3, RankExists
<1>4. \A i \in I : Cardinality(before[i]) \in Nat /\ Cardinality(before[i]) < i
  <2> TAKE i \in I
  <2>1. before[i] \in SUBSET (1..i - 1)
    <3>1. \A h \in I : h < i => h \in 1..i - 1
      BY <1>2
    <3> QED
      BY <3>1
  <2>2. IsFiniteSet(1..i - 1) /\ Cardinality(1..i - 1) = i - 1
    BY <1>2, FS_Interval
  <2>3. IsFiniteSet(before[i]) /\ Cardinality(before[i]) <= i - 1
    BY <2>1, <2>2, FS_Subset
  <2>4. Cardinality(before[i]) \in Nat
    BY <2>3, FS_CardinalityType
  <2> HIDE DEF before
  <2> QED
    BY <1>2, <2>3, <2>4
<1>5. \A i, j \in I : Cardinality(before[i]) = Cardinality(before[j]) => i = j
  <2> SUFFICES ASSUME NEW i \in I, NEW j \in I,
                      Cardinality(before[i]) = Cardinality(before[j]), i # j
               PROVE  FALSE
    OBVIOUS
  <2>1. i \in before[j] \/ j \in before[i]
    BY <1>2
  <2> HIDE DEF before
  <2> QED
    BY <1>3, <1>4, <2>1
<1>6. \A k : Nth(I, k) = CHOOSE i \in I : Cardinality(before[i]) = k - 1
  BY DEF Nth
<1> HIDE DEF before, m
<1>7. ASSUME NEW k \in 1..m
      PROVE  Nth(I, k) \in I /\ Cardinality(before[Nth(I, k)]) = k - 1
  BY <1>3, <1>6
<1>8. ASSUME NEW k \in 1..m
      PROVE  k <= Nth(I, k)
  <2> DEFINE i == Nth(I, k)
  <2>1. i \in I /\ Cardinality(before[i]) = k - 1
    BY <1>7
  <2> HIDE DEF i
  <2>2. i \in Nat /\ k - 1 < i
    BY <1>2, <1>4, <2>1
  <2> QED
    BY <2>2 DEF i
<1>9. ASSUME NEW i \in I
      PROVE  \E k \in 1..m : k <= i /\ Nth(I, k) = i
  <2> DEFINE k == Cardinality(before[i]) + 1
  <2>1. k \in 1..m /\ k - 1 = Cardinality(before[i]) /\ k <= i
    BY <1>2, <1>3, <1>4
  <2> HIDE DEF k
  <2>2. Nth(I, k) = i
    BY <1>5, <1>7, <2>1
  <2> QED
    BY <2>1, <2>2
<1>10. ASSUME NEW j \in 1..m, NEW k \in 1..m, Nth(I, j) <= Nth(I, k)
       PROVE  j <= k
  <2> DEFINE x == Nth(I, j)
             y == Nth(I, k)
  <2>1. /\ x \in I /\ Cardinality(before[x]) = j - 1
        /\ y \in I /\ Cardinality(before[y]) = k - 1 /\ x <= y
    BY <1>7, <1>10
  <2> HIDE DEF x, y
  <2>2. CASE x = y
    BY <1>3, <2>1, <2>2
  <2>3. CASE x # y
    <3>1. x \in before[y]
      BY <1>2, <2>1, <2>3 DEF before
    <3>2. Cardinality(before[x]) < Cardinality(before[y])
      BY <1>3, <2>1, <3>1
    <3> QED
      BY <1>3, <2>1, <3>2
  <2> QED
    BY <2>2, <2>3
<1> QED
  BY <1>3, <1>7, <1>8, <1>9, <1>10 DEF m

\* f[k] is what k applications of step make of the first value.
Iterates(f, n, first, step) ==
  f[0] = first /\ \A k \in 1..n : f[k] = step[f[k - 1]]

\* There is such a function if the step stays in V.
LEMMA IterationExists ==
  ASSUME NEW n \in Nat, NEW V, NEW first \in V, NEW step \in [V -> V]
  PROVE  \E f \in [0..n -> V] : Iterates(f, n, first, step)
<1> DEFINE next == [a \in (1..n) \X V |-> step[a[2]]]
<1>1. step[first] \in V /\ next \in [(1..n) \X V -> V]
  OBVIOUS
<1>2. \A i \in 1..n, v \in V : next[<<i, v>>] = step[v]
  OBVIOUS
<1> HIDE DEF next
<1>3. PICK g \in [1..n -> V] : Follows(g, n, step[first], next)
  BY <1>1, RecursionExists
<1> DEFINE f == [k \in 0..n |-> IF k = 0 THEN first ELSE g[k]]
<1>4. f \in [0..n -> V]
  OBVIOUS
<1>5. f[0] = first
  OBVIOUS
<1>6. ASSUME NEW k \in 1..n
      PROVE  f[k] = step[f[k - 1]]
  <2>1. k \in 0..n /\ k # 0 /\ f[k] = g[k]
    OBVIOUS
  <2>2. CASE k = 1
    <3>1. g[k] = step[first]
      BY <1>3, <2>2 DEF Follows
    <3>2. k - 1 = 0
      BY <2>2
    <3>3. f[k - 1] = first
      BY <1>5, <3>2
    <3> HIDE DEF f
    <3> QED
      BY <2>1, <3>1, <3>3
  <2>3. CASE k # 1
    <3>1. k - 1 \in 1..n
      BY <2>3
    <3>2. f[k - 1] = g[k - 1] /\ g[k - 1] \in V
      BY <3>1
    <3>3. g[k] = next[<<k, g[k - 1]>>]
      BY <1>3, <2>3 DEF Follows
    <3> QED
      BY <1>2, <2>1, <3>2, <3>3
  <2> QED
    BY <2>2, <2>3
<1> HIDE DEF f
<1>7. Iterates(f, n, first, step)
  BY <1>5, <1>6 DEF Iterates
<1> QED
  BY <1>4, <1>7

\* A fold over a set is a function of the subsets folded so far, D being the
\* subsets it is told for.
SetFolds(f, D, base, step) ==
  \A T \in D : f[T] = IF T = {} THEN base ELSE step[<<Pick(T), f[T \ {Pick(T)}]>>]

CanSetFold(D, V, base, step) == \E f \in [D -> V] : SetFolds(f, D, base, step)

\* If the steps stay in V, there is such a function for every subset.
LEMMA SetFoldExists ==
  ASSUME NEW S, IsFiniteSet(S), NEW V, NEW base \in V, NEW step \in [S \X V -> V]
  PROVE  CanSetFold(SUBSET S, V, base, step)
<1> DEFINE D(k) == {T \in SUBSET S : Cardinality(T) <= k}
           Q == {k \in Nat : CanSetFold(D(k), V, base, step)}
<1>0. ASSUME NEW T \in SUBSET S
      PROVE  /\ IsFiniteSet(T) /\ Cardinality(T) \in Nat
             /\ (T = {} <=> Cardinality(T) = 0)
             /\ T # {} => /\ Pick(T) \in T /\ Cardinality(T \ {Pick(T)}) = Cardinality(T) - 1
  <2>1. IsFiniteSet(T)
    BY FS_Subset
  <2>2. T # {} => Pick(T) \in T
    BY PickIn
  <2>3. Cardinality(T) \in Nat /\ (T = {} <=> Cardinality(T) = 0)
    BY <2>1, FS_CardinalityType, FS_EmptySet
  <2>4. T # {} => Cardinality(T \ {Pick(T)}) = Cardinality(T) - 1
    BY <2>1, <2>2, FS_RemoveElement
  <2> QED
    BY <2>1, <2>2, <2>3, <2>4
<1>1. 0 \in Q
  <2> DEFINE f == [T \in D(0) |-> base]
  <2>1. \A T \in D(0) : T = {}
    <3> TAKE T \in D(0)
    <3>1. T \in SUBSET S /\ Cardinality(T) <= 0
      OBVIOUS
    <3>2. Cardinality(T) \in Nat /\ (T = {} <=> Cardinality(T) = 0)
      BY <1>0, <3>1
    <3> QED
      BY <3>1, <3>2
  <2>2. f \in [D(0) -> V]
    OBVIOUS
  <2>3. SetFolds(f, D(0), base, step)
    <3>1. \A T \in D(0) : f[T] = base
      OBVIOUS
    <3> HIDE DEF f, D
    <3> QED
      BY <2>1, <3>1 DEF SetFolds
  <2> HIDE DEF f, D
  <2>4. CanSetFold(D(0), V, base, step)
    BY <2>2, <2>3 DEF CanSetFold
  <2> QED
    BY <2>4
<1>2. ASSUME NEW k \in Nat, k >= 0, k \in Q
      PROVE  k + 1 \in Q
  <2>0. CanSetFold(D(k), V, base, step)
    BY <1>2
  <2> HIDE DEF D
  <2>1. PICK f \in [D(k) -> V] : SetFolds(f, D(k), base, step)
    BY <2>0, Zenon DEF CanSetFold
  <2> DEFINE g == [T \in D(k + 1) |->
                     IF Cardinality(T) = k + 1 THEN step[<<Pick(T), f[T \ {Pick(T)}]>>]
                     ELSE f[T]]
  <2>2. ASSUME NEW T \in D(k + 1), T # {}
        PROVE  T \ {Pick(T)} \in D(k) /\ Pick(T) \in S
    <3>1. T \in SUBSET S /\ Cardinality(T) <= k + 1
      BY DEF D
    <3>2. /\ Cardinality(T) \in Nat /\ Pick(T) \in T
          /\ Cardinality(T \ {Pick(T)}) = Cardinality(T) - 1
      BY <1>0, <2>2, <3>1
    <3>3. T \ {Pick(T)} \in SUBSET S /\ Cardinality(T \ {Pick(T)}) <= k
      BY <3>1, <3>2
    <3> QED
      BY <3>1, <3>2, <3>3 DEF D
  <2>3. ASSUME NEW T \in D(k + 1)
        PROVE  /\ Cardinality(T) # k + 1 <=> T \in D(k)
               /\ Cardinality(T) = k + 1 => T # {}
    <3>1. T \in SUBSET S /\ Cardinality(T) <= k + 1
      BY DEF D
    <3>2. Cardinality(T) \in Nat /\ (T = {} <=> Cardinality(T) = 0)
      BY <1>0, <3>1
    <3> QED
      BY <3>1, <3>2 DEF D
  <2>4. g \in [D(k + 1) -> V]
    <3>1. ASSUME NEW T \in D(k + 1)
          PROVE  g[T] \in V
      <4>1. CASE Cardinality(T) = k + 1
        <5>1. <<Pick(T), f[T \ {Pick(T)}]>> \in S \X V
          BY <2>2, <2>3, <4>1
        <5> QED
          BY <4>1, <5>1
      <4>2. CASE Cardinality(T) # k + 1
        BY <2>3, <4>2
      <4> QED
        BY <4>1, <4>2
    <3> QED
      BY <3>1
  <2>5. \A T \in D(k) : T \in D(k + 1) /\ g[T] = f[T]
    <3> TAKE T \in D(k)
    <3>1. T \in SUBSET S /\ Cardinality(T) <= k
      BY DEF D
    <3>2. Cardinality(T) \in Nat
      BY <1>0, <3>1
    <3>3. T \in D(k + 1) /\ Cardinality(T) # k + 1
      BY <3>1, <3>2 DEF D
    <3> QED
      BY <3>3
  <2>6. \A T \in D(k + 1) : Cardinality(T) = k + 1 =>
          g[T] = step[<<Pick(T), f[T \ {Pick(T)}]>>]
    OBVIOUS
  <2> HIDE DEF g
  <2>7. ASSUME NEW T \in D(k + 1)
        PROVE  g[T] = IF T = {} THEN base ELSE step[<<Pick(T), g[T \ {Pick(T)}]>>]
    <3>1. CASE Cardinality(T) = k + 1
      <4>1. T # {} /\ T \ {Pick(T)} \in D(k)
        BY <2>2, <2>3, <3>1
      <4> QED
        BY <2>5, <2>6, <3>1, <4>1
    <3>2. CASE Cardinality(T) # k + 1
      <4>1. T \in D(k)
        BY <2>3, <3>2
      <4>2. f[T] = IF T = {} THEN base ELSE step[<<Pick(T), f[T \ {Pick(T)}]>>]
        BY <2>1, <4>1 DEF SetFolds
      <4>3. T # {} => g[T \ {Pick(T)}] = f[T \ {Pick(T)}]
        BY <2>2, <2>5
      <4> QED
        BY <2>5, <4>1, <4>2, <4>3
    <3> QED
      BY <3>1, <3>2
  <2>8. SetFolds(g, D(k + 1), base, step)
    BY <2>7 DEF SetFolds
  <2>9. CanSetFold(D(k + 1), V, base, step)
    BY <2>4, <2>8 DEF CanSetFold
  <2> QED
    BY <2>9
<1> DEFINE n == Cardinality(S)
<1>3. n \in Nat /\ n >= 0 /\ D(n) = SUBSET S
  <2>1. n \in Nat
    BY FS_CardinalityType
  <2>2. \A T \in SUBSET S : Cardinality(T) <= n
    BY FS_Subset
  <2> QED
    BY <2>1, <2>2
<1> HIDE DEF D, n
<1>4. CanSetFold(D(n), V, base, step)
  <2> HIDE DEF Q
  <2>1. n \in Q
    BY <1>1, <1>2, <1>3, UpwardInduction
  <2> QED
    BY <2>1 DEF Q
<1> QED
  BY <1>3, <1>4

=============================================================================
