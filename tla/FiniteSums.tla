----------------------------- MODULE FiniteSums -----------------------------
(***************************************************************************)
(* Sums of a function's values over a finite set.  The models write them    *)
(* with the folds of the community modules, which are functions defined by  *)
(* recursion over the subsets; the lemmas here say what such a function is, *)
(* from the least counterexample of each claim.                             *)
(***************************************************************************)
EXTENDS Integers, FiniteSets, FiniteSetTheorems, WellFoundedInduction, TLAPS

\* The recursion of MapThenFoldSet for addition, and its value for the whole set.
Picked(s) == CHOOSE x \in s : TRUE
TotalsFrom(g, F, U) ==
    [s \in SUBSET U |-> IF s = {} THEN 0 ELSE F[Picked(s)] + g[s \ {Picked(s)}]]
AreTotals(g, F, U) == g = TotalsFrom(g, F, U)
Agree(F, G, W) == \A x \in W : F[x] = G[x]
SumOver(F, U) == (CHOOSE g : AreTotals(g, F, U))[U]

\* A nonempty set of natural numbers has a least element.
LEMMA LeastNat ==
    ASSUME NEW T \in SUBSET Nat, T # {}
    PROVE  \E m \in T : \A k \in T : m <= k
  <1>1. PICK m \in T : \A k \in T : ~ (<<k, m>> \in OpToRel(<, Nat))
    BY WFMin, NatLessThanWellFounded
  <1>2. OpToRel(<, Nat) = {p \in Nat \X Nat : p[1] < p[2]}
    BY DEF OpToRel
  <1>3. ASSUME NEW k \in T
        PROVE  m <= k
    <2>1. m \in Nat /\ k \in Nat
      OBVIOUS
    <2>2. <<k, m>> \in Nat \X Nat /\ <<k, m>>[1] = k /\ <<k, m>>[2] = m
      BY <2>1
    <2>3. ~ (k < m)
      BY <1>1, <1>2, <2>2
    <2> QED BY <2>1, <2>3
  <1> QED BY <1>3

\* Among the subsets of a finite set that have a property there is a smallest one.
LEMMA SmallestSet ==
    ASSUME NEW U, IsFiniteSet(U), NEW T \in SUBSET SUBSET U, T # {}
    PROVE  \E s \in T : \A t \in T : Cardinality(s) <= Cardinality(t)
  <1> DEFINE sizes == {Cardinality(t) : t \in T}
  <1>1. \A t \in T : IsFiniteSet(t) /\ Cardinality(t) \in Nat
    BY FS_Subset, FS_CardinalityType
  <1>2. sizes \in SUBSET Nat /\ sizes # {}
    BY <1>1
  <1> HIDE DEF sizes
  <1>3. PICK m \in sizes : \A k \in sizes : m <= k
    BY <1>2, LeastNat
  <1> QED BY <1>3 DEF sizes

\* The chosen element belongs to the set, and without it the set is smaller.
LEMMA PickedSmaller ==
    ASSUME NEW s, IsFiniteSet(s), s # {}
    PROVE  /\ Picked(s) \in s
           /\ \A x \in s : /\ IsFiniteSet(s \ {x})
                           /\ Cardinality(s \ {x}) = Cardinality(s) - 1
                           /\ Cardinality(s \ {x}) \in Nat /\ Cardinality(s) \in Nat
                           /\ Cardinality(s \ {x}) < Cardinality(s)
  <1>1. Picked(s) \in s
    BY DEF Picked
  <1>2. ASSUME NEW x \in s
        PROVE  /\ IsFiniteSet(s \ {x})
               /\ Cardinality(s \ {x}) = Cardinality(s) - 1
    BY FS_RemoveElement
  <1>3. Cardinality(s) \in Nat /\ \A x \in s : Cardinality(s \ {x}) \in Nat
    BY <1>2, FS_CardinalityType
  <1> QED BY <1>1, <1>2, <1>3

\* The recursion has a solution: the totals of the subsets of at most n elements, one n
\* after the other.
LEMMA TotalsExist ==
    ASSUME NEW F, NEW U, IsFiniteSet(U)
    PROVE  \E g : AreTotals(g, F, U)
  <1> DEFINE Small(n) == {s \in SUBSET U : Cardinality(s) <= n}
             Body(g, s) == IF s = {} THEN 0 ELSE F[Picked(s)] + g[s \ {Picked(s)}]
             Good(n) == \E g : g = [s \in Small(n) |-> Body(g, s)]
             bad == {n \in Nat : ~ Good(n)}
  <1>1. \A s \in SUBSET U : IsFiniteSet(s) /\ Cardinality(s) \in Nat
                            /\ Cardinality(s) <= Cardinality(U)
    BY FS_Subset, FS_CardinalityType
  <1>2. Good(0)
    <2> DEFINE h == [s \in Small(0) |-> 0]
    <2>1. \A s \in Small(0) : s = {}
      BY <1>1, FS_EmptySet
    <2>2. h = [s \in Small(0) |-> Body(h, s)]
      BY <2>1
    <2> QED BY <2>2
  <1>3. ASSUME NEW n \in Nat, Good(n)
        PROVE  Good(n + 1)
    <2>1. PICK g : g = [s \in Small(n) |-> Body(g, s)]
      BY <1>3
    <2> DEFINE h == [s \in Small(n + 1) |-> Body(g, s)]
    <2>2. ASSUME NEW t \in Small(n)
          PROVE  h[t] = g[t]
      <3>1. t \in Small(n + 1)
        BY <1>1
      <3> QED BY <2>1, <3>1
    <2>3. ASSUME NEW s \in Small(n + 1)
          PROVE  Body(g, s) = Body(h, s)
      <3>1. CASE s = {}
        BY <3>1
      <3>2. CASE s # {}
        <4>1. s \ {Picked(s)} \in Small(n)
          BY <1>1, <3>2, PickedSmaller
        <4> QED BY <2>2, <3>2, <4>1
      <3> QED BY <3>1, <3>2
    <2>4. h = [s \in Small(n + 1) |-> Body(h, s)]
      BY <2>3
    <2> QED BY <2>4
  <1> HIDE DEF Good
  <1>4. bad = {}
    <2> SUFFICES ASSUME bad # {} PROVE FALSE
      OBVIOUS
    <2>1. PICK m \in bad : \A k \in bad : m <= k
      BY LeastNat
    <2>2. m # 0
      BY <1>2, <2>1
    <2>3. m - 1 \in Nat /\ m - 1 \notin bad
      BY <2>1, <2>2
    <2>4. Good(m - 1)
      BY <2>3
    <2>5. Good((m - 1) + 1)
      BY <1>3, <2>3, <2>4
    <2>6. (m - 1) + 1 = m
      BY <2>1
    <2> QED BY <2>1, <2>5, <2>6
  <1>5. Good(Cardinality(U))
    BY <1>1, <1>4
  <1>6. Small(Cardinality(U)) = SUBSET U
    BY <1>1
  <1> QED BY <1>5, <1>6 DEF Good, AreTotals, TotalsFrom

\* What the solution says of each subset.
LEMMA TotalsAt ==
    ASSUME NEW g, NEW F, NEW U, AreTotals(g, F, U)
    PROVE  /\ g[{}] = 0
           /\ \A s \in SUBSET U : s # {} => g[s] = F[Picked(s)] + g[s \ {Picked(s)}]
  <1>1. ASSUME NEW s \in SUBSET U
        PROVE  g[s] = IF s = {} THEN 0 ELSE F[Picked(s)] + g[s \ {Picked(s)}]
    BY DEF AreTotals, TotalsFrom
  <1> QED BY <1>1

\* The totals of functions that agree on a set agree on it.
LEMMA TotalsAgree ==
    ASSUME NEW U, IsFiniteSet(U), NEW V, NEW W, W \in SUBSET U, W \in SUBSET V,
           NEW F, NEW G, Agree(F, G, W),
           NEW g, AreTotals(g, F, U), NEW h, AreTotals(h, G, V)
    PROVE  g[W] = h[W]
  <1> DEFINE bad == {s \in SUBSET W : g[s] # h[s]}
  <1> SUFFICES ASSUME bad # {} PROVE FALSE
    OBVIOUS
  <1>1. IsFiniteSet(W)
    BY FS_Subset
  <1>2. PICK s \in bad : \A t \in bad : Cardinality(s) <= Cardinality(t)
    <2>1. bad \in SUBSET SUBSET W
      OBVIOUS
    <2> HIDE DEF bad
    <2> QED BY <1>1, <2>1, SmallestSet
  <1>3. s \in SUBSET W /\ IsFiniteSet(s)
    BY <1>1, <1>2, FS_Subset
  <1>4. s # {}
    BY <1>2, TotalsAt
  <1> DEFINE x == Picked(s)
  <1>5. x \in s /\ Cardinality(s \ {x}) < Cardinality(s)
        /\ Cardinality(s \ {x}) \in Nat /\ Cardinality(s) \in Nat
    BY <1>3, <1>4, PickedSmaller
  <1>6. g[s] = F[x] + g[s \ {x}] /\ h[s] = G[x] + h[s \ {x}]
    <2>1. s \in SUBSET U /\ s \in SUBSET V
      BY <1>3
    <2>2. g[s] = F[x] + g[s \ {x}]
      BY <1>4, <2>1, TotalsAt
    <2>3. h[s] = G[x] + h[s \ {x}]
      BY <1>4, <2>1, TotalsAt
    <2> QED BY <2>2, <2>3
  <1>7. F[x] = G[x]
    BY <1>3, <1>5 DEF Agree
  <1>8. s \ {x} \notin bad /\ s \ {x} \in SUBSET W
    BY <1>2, <1>3, <1>5
  <1>9. g[s \ {x}] = h[s \ {x}]
    BY <1>8
  <1> QED BY <1>2, <1>6, <1>7, <1>9

\* Totals of natural numbers are natural numbers.
LEMMA TotalsType ==
    ASSUME NEW U, IsFiniteSet(U), NEW F, \A x \in U : F[x] \in Nat,
           NEW g, AreTotals(g, F, U)
    PROVE  \A s \in SUBSET U : g[s] \in Nat
  <1> DEFINE bad == {s \in SUBSET U : g[s] \notin Nat}
  <1> SUFFICES ASSUME bad # {} PROVE FALSE
    OBVIOUS
  <1>1. PICK s \in bad : \A t \in bad : Cardinality(s) <= Cardinality(t)
    <2>1. bad \in SUBSET SUBSET U
      OBVIOUS
    <2> HIDE DEF bad
    <2> QED BY <2>1, SmallestSet
  <1>2. s \in SUBSET U /\ IsFiniteSet(s)
    BY <1>1, FS_Subset
  <1>3. s # {}
    <2> SUFFICES ASSUME s = {} PROVE FALSE
      OBVIOUS
    <2>1. g[{}] = 0
      BY TotalsAt
    <2>2. g[s] = 0 /\ g[s] \notin Nat
      BY <1>1, <2>1
    <2> QED BY <2>2
  <1> DEFINE x == Picked(s)
  <1>4. x \in s /\ Cardinality(s \ {x}) < Cardinality(s)
        /\ Cardinality(s \ {x}) \in Nat /\ Cardinality(s) \in Nat
    BY <1>2, <1>3, PickedSmaller
  <1>5. g[s] = F[x] + g[s \ {x}]
    BY <1>2, <1>3, TotalsAt
  <1>6. s \ {x} \notin bad /\ s \ {x} \in SUBSET U
    BY <1>1, <1>2, <1>4
  <1>7. g[s \ {x}] \in Nat /\ F[x] \in Nat
    BY <1>2, <1>4, <1>6
  <1> QED BY <1>1, <1>5, <1>7

\* Any element may be taken out first: the total does not depend on the choice.
LEMMA TotalsAnyOrder ==
    ASSUME NEW U, IsFiniteSet(U), NEW F, \A x \in U : F[x] \in Nat,
           NEW g, AreTotals(g, F, U)
    PROVE  \A s \in SUBSET U : \A x \in s : g[s] = F[x] + g[s \ {x}]
  <1> DEFINE bad == {s \in SUBSET U : \E x \in s : g[s] # F[x] + g[s \ {x}]}
  <1> SUFFICES ASSUME bad # {} PROVE FALSE
    OBVIOUS
  <1>1. PICK s \in bad : \A t \in bad : Cardinality(s) <= Cardinality(t)
    <2>1. bad \in SUBSET SUBSET U
      OBVIOUS
    <2> HIDE DEF bad
    <2> QED BY <2>1, SmallestSet
  <1>2. s \in SUBSET U /\ IsFiniteSet(s)
    BY <1>1, FS_Subset
  <1>3. PICK x \in s : g[s] # F[x] + g[s \ {x}]
    BY <1>1
  <1> DEFINE y == Picked(s)
             r == (s \ {x}) \ {y}
  <1>4. /\ y \in s
        /\ \A z \in s : Cardinality(s \ {z}) < Cardinality(s)
                        /\ Cardinality(s \ {z}) \in Nat /\ Cardinality(s) \in Nat
    BY <1>2, <1>3, PickedSmaller
  <1>5. g[s] = F[y] + g[s \ {y}]
    BY <1>2, <1>3, TotalsAt
  <1>6. x # y
    BY <1>3, <1>5
  <1>7. \A z \in s : s \ {z} \notin bad /\ s \ {z} \in SUBSET U
    <2> SUFFICES ASSUME NEW z \in s PROVE s \ {z} \notin bad /\ s \ {z} \in SUBSET U
      OBVIOUS
    <2>1. s \ {z} \notin bad
      <3>1. Cardinality(s \ {z}) < Cardinality(s) /\ Cardinality(s \ {z}) \in Nat
            /\ Cardinality(s) \in Nat
        BY <1>4
      <3> HIDE DEF bad
      <3> QED BY <1>1, <3>1
    <2>2. s \ {z} \in SUBSET U
      BY <1>2
    <2> QED BY <2>1, <2>2
  <1>8. g[s \ {y}] = F[x] + g[r]
    <2>1. x \in s \ {y} /\ (s \ {y}) \ {x} = r
      BY <1>3, <1>6
    <2> QED BY <1>4, <1>7, <2>1
  <1>9. g[s \ {x}] = F[y] + g[r]
    BY <1>3, <1>4, <1>6, <1>7
  <1>10. g[r] \in Nat /\ F[x] \in Nat /\ F[y] \in Nat
    <2>1. r \in SUBSET U
      BY <1>2
    <2>2. g[r] \in Nat
      BY <2>1, TotalsType
    <2> QED BY <1>2, <1>3, <1>4, <2>2
  <1> QED BY <1>3, <1>5, <1>8, <1>9, <1>10

(***************************************************************************)
(* The same of the sum itself.                                              *)
(***************************************************************************)
\* SumOver is the value of a solution.
LEMMA SumIsTotal ==
    ASSUME NEW U, IsFiniteSet(U), NEW F
    PROVE  \E g : AreTotals(g, F, U) /\ SumOver(F, U) = g[U]
  BY TotalsExist DEF SumOver

\* Nothing sums up to zero, and natural numbers to a natural number.
LEMMA SumType ==
    ASSUME NEW U, IsFiniteSet(U), NEW F, \A x \in U : F[x] \in Nat
    PROVE  SumOver(F, U) \in Nat /\ (U = {} => SumOver(F, U) = 0)
  <1>1. PICK g : AreTotals(g, F, U) /\ SumOver(F, U) = g[U]
    BY SumIsTotal
  <1> QED BY <1>1, TotalsType, TotalsAt

\* Functions that agree on the set have the same sum.
LEMMA SumSame ==
    ASSUME NEW U, IsFiniteSet(U), NEW F, NEW G, \A x \in U : F[x] = G[x]
    PROVE  SumOver(F, U) = SumOver(G, U)
  <1>1. PICK g : AreTotals(g, F, U) /\ SumOver(F, U) = g[U]
    BY SumIsTotal
  <1>2. PICK h : AreTotals(h, G, U) /\ SumOver(G, U) = h[U]
    BY SumIsTotal
  <1>3. U \in SUBSET U /\ Agree(F, G, U)
    BY DEF Agree
  <1>4. g[U] = h[U]
    BY <1>1, <1>2, <1>3, TotalsAgree
  <1> QED BY <1>1, <1>2, <1>4

\* An element's value is what the sum loses with it.
LEMMA SumWithout ==
    ASSUME NEW U, IsFiniteSet(U), NEW F, \A y \in U : F[y] \in Nat, NEW x \in U
    PROVE  SumOver(F, U) = F[x] + SumOver(F, U \ {x})
  <1>1. IsFiniteSet(U \ {x})
    BY FS_RemoveElement
  <1>2. PICK g : AreTotals(g, F, U) /\ SumOver(F, U) = g[U]
    BY SumIsTotal
  <1>3. PICK h : AreTotals(h, F, U \ {x}) /\ SumOver(F, U \ {x}) = h[U \ {x}]
    BY <1>1, SumIsTotal
  <1>4. g[U] = F[x] + g[U \ {x}]
    BY <1>2, TotalsAnyOrder
  <1>5. g[U \ {x}] = h[U \ {x}]
    <2>1. /\ U \ {x} \in SUBSET U /\ U \ {x} \in SUBSET (U \ {x})
          /\ Agree(F, F, U \ {x})
      BY DEF Agree
    <2> QED BY <1>2, <1>3, <2>1, TotalsAgree
  <1> QED BY <1>2, <1>3, <1>4, <1>5

\* Zeros sum up to zero.
LEMMA SumZero ==
    ASSUME NEW U, IsFiniteSet(U), NEW F, \A x \in U : F[x] = 0
    PROVE  SumOver(F, U) = 0
  <1> DEFINE bad == {s \in SUBSET U : SumOver(F, s) # 0}
  <1> SUFFICES ASSUME bad # {} PROVE FALSE
    OBVIOUS
  <1>1. PICK s \in bad : \A t \in bad : Cardinality(s) <= Cardinality(t)
    <2>1. bad \in SUBSET SUBSET U
      OBVIOUS
    <2> HIDE DEF bad
    <2> QED BY <2>1, SmallestSet
  <1>2. s \in SUBSET U /\ IsFiniteSet(s) /\ SumOver(F, s) # 0
    BY <1>1, FS_Subset
  <1>3. \A x \in s : F[x] \in Nat
    BY <1>2
  <1>4. s # {}
    BY <1>2, <1>3, SumType
  <1>5. PICK x \in s : TRUE
    BY <1>4
  <1>6. SumOver(F, s) = F[x] + SumOver(F, s \ {x})
    BY <1>2, <1>3, SumWithout
  <1>7. s \ {x} \notin bad /\ s \ {x} \in SUBSET U
    <2>1. Cardinality(s \ {x}) < Cardinality(s) /\ Cardinality(s \ {x}) \in Nat
          /\ Cardinality(s) \in Nat
      BY <1>2, <1>4, PickedSmaller
    <2>2. s \ {x} \notin bad
      <3> HIDE DEF bad
      <3> QED BY <1>1, <2>1
    <2> QED BY <1>2, <2>2
  <1>8. SumOver(F, s \ {x}) = 0 /\ F[x] = 0
    BY <1>2, <1>7
  <1> QED BY <1>2, <1>6, <1>8

\* When one value changes, the sum changes by as much; no value exceeds the sum.
LEMMA SumChange ==
    ASSUME NEW U, IsFiniteSet(U), NEW x \in U,
           NEW F, \A y \in U : F[y] \in Nat,
           NEW G, \A y \in U : G[y] \in Nat,
           \A y \in U \ {x} : F[y] = G[y]
    PROVE  /\ SumOver(G, U) = SumOver(F, U) - F[x] + G[x]
           /\ SumOver(F, U) \in Nat /\ SumOver(G, U) \in Nat
           /\ F[x] <= SumOver(F, U)
  <1>1. IsFiniteSet(U \ {x})
    BY FS_RemoveElement
  <1>2. SumOver(F, U \ {x}) = SumOver(G, U \ {x})
    BY <1>1, SumSame
  <1>3. SumOver(F, U) = F[x] + SumOver(F, U \ {x})
    BY SumWithout
  <1>4. SumOver(G, U) = G[x] + SumOver(G, U \ {x})
    BY SumWithout
  <1>5. SumOver(F, U \ {x}) \in Nat
    BY <1>1, SumType
  <1>6. F[x] \in Nat /\ G[x] \in Nat
    OBVIOUS
  <1> QED BY <1>2, <1>3, <1>4, <1>5, <1>6

\* A constant adds up to its product with the number of elements.
LEMMA SumConstant ==
    ASSUME NEW U, IsFiniteSet(U), NEW c \in Nat, NEW F, \A x \in U : F[x] = c
    PROVE  SumOver(F, U) = Cardinality(U) * c
  <1> DEFINE bad == {s \in SUBSET U : SumOver(F, s) # Cardinality(s) * c}
  <1> SUFFICES ASSUME bad # {} PROVE FALSE
    OBVIOUS
  <1>1. PICK s \in bad : \A t \in bad : Cardinality(s) <= Cardinality(t)
    <2>1. bad \in SUBSET SUBSET U
      OBVIOUS
    <2> HIDE DEF bad
    <2> QED BY <2>1, SmallestSet
  <1>2. s \in SUBSET U /\ IsFiniteSet(s) /\ SumOver(F, s) # Cardinality(s) * c
    BY <1>1, FS_Subset
  <1>3. \A x \in s : F[x] \in Nat
    BY <1>2
  <1>4. s # {}
    <2>1. SUFFICES ASSUME s = {} PROVE FALSE
      OBVIOUS
    <2>2. SumOver(F, s) = 0 /\ Cardinality(s) = 0
      BY <1>2, <1>3, <2>1, SumType, FS_EmptySet
    <2> QED BY <1>2, <2>2
  <1>5. PICK x \in s : TRUE
    BY <1>4
  <1>6. SumOver(F, s) = F[x] + SumOver(F, s \ {x})
    BY <1>2, <1>3, SumWithout
  <1>7. /\ Cardinality(s \ {x}) = Cardinality(s) - 1
        /\ Cardinality(s \ {x}) < Cardinality(s) /\ Cardinality(s \ {x}) \in Nat
        /\ Cardinality(s) \in Nat
    BY <1>2, <1>4, PickedSmaller
  <1>8. s \ {x} \notin bad
    <2> HIDE DEF bad
    <2> QED BY <1>1, <1>7
  <1>9. SumOver(F, s \ {x}) = Cardinality(s \ {x}) * c /\ F[x] = c
    BY <1>2, <1>8
  <1> DEFINE n == Cardinality(s)
  <1>10. SumOver(F, s) = c + (n - 1) * c
    BY <1>6, <1>7, <1>9
  <1>11. n * c = c + (n - 1) * c
    <2>1. n \in Int
      BY <1>7
    <2> HIDE DEF n
    <2> QED BY <2>1
  <1> QED BY <1>2, <1>10, <1>11
=============================================================================
