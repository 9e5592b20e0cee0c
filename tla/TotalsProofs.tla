---------------------------- MODULE TotalsProofs ----------------------------
(***************************************************************************)
(* Facts about Total that the proofs of the components cite: it is a       *)
(* natural number, it changes by what one entry changes, it is monotone.   *)
(* And facts about sets of numbers: ids are given out without gaps.        *)
(***************************************************************************)
EXTENDS Totals, Integers, FiniteSetTheorems, TLAPS

(* The units of a function over a finite set are finitely many. *)
LEMMA UnitsFinite ==
  ASSUME NEW S, IsFiniteSet(S), NEW f \in [S -> Nat]
  PROVE  IsFiniteSet(Units(S, f))
<1> DEFINE T == {{x} \X (1..f[x]) : x \in S}
           g == [x \in S |-> {x} \X (1..f[x])]
<1>1. g \in Surjection(S, T)
  BY DEF Surjection
<1>2. IsFiniteSet(T)
  <2> HIDE DEF g, T
  <2> QED  BY <1>1, FS_Surjection
<1>3. ASSUME NEW t \in T PROVE IsFiniteSet(t)
  <2>1. PICK x \in S : t = {x} \X (1..f[x])
    OBVIOUS
  <2>2. IsFiniteSet({x})
    BY FS_Singleton
  <2>3. IsFiniteSet(1..f[x])
    BY FS_Interval
  <2> QED  BY <2>1, <2>2, <2>3, FS_Product
<1>4. IsFiniteSet(UNION T)
  <2> HIDE DEF T
  <2> QED  BY <1>2, <1>3, FS_UNION
<1> QED  BY <1>4 DEF Units

(* A sum of naturals is a natural. *)
LEMMA TotalNat ==
  ASSUME NEW S, IsFiniteSet(S), NEW f \in [S -> Nat]
  PROVE  Total(S, f) \in Nat
BY UnitsFinite, FS_CardinalityType DEF Total

(* One entry can be taken out of a sum. *)
LEMMA TotalSplit ==
  ASSUME NEW S, IsFiniteSet(S), NEW f \in [S -> Nat], NEW x \in S
  PROVE  Total(S, f) = Total(S \ {x}, f) + f[x]
<1> DEFINE A == Units(S \ {x}, f)
           B == {x} \X (1..f[x])
<1>1. Units(S, f) = A \cup B
  BY DEF Units
<1>2. A \cap B = {}
  BY DEF Units
<1>3. IsFiniteSet(A) /\ IsFiniteSet(B)
  <2>1. Units(S, f) = A \cup B /\ IsFiniteSet(Units(S, f))
    BY <1>1, UnitsFinite
  <2> HIDE DEF A, B
  <2> QED  BY <2>1, FS_Subset
<1>4. Cardinality(B) = f[x]
  <2>1. IsFiniteSet({x}) /\ Cardinality({x}) = 1
    BY FS_Singleton
  <2>2. IsFiniteSet(1..f[x]) /\ Cardinality(1..f[x]) = f[x]
    BY FS_Interval
  <2>3. Cardinality({x} \X (1..f[x])) = Cardinality({x}) * Cardinality(1..f[x])
    BY ONLY <2>1, <2>2, FS_Product
  <2>4. Cardinality({x} \X (1..f[x])) = 1 * f[x]
    BY ONLY <2>1, <2>2, <2>3
  <2> QED  BY <2>4
<1>5. Cardinality(A \cup B) = Cardinality(A) + Cardinality(B)
  <2>1. Cardinality(A) \in Nat /\ Cardinality(B) \in Nat
    <3> HIDE DEF A, B
    <3> QED  BY <1>3, FS_CardinalityType
  <2>2. Cardinality(A \cup B) = Cardinality(A) + Cardinality(B) - Cardinality(A \cap B)
    <3> HIDE DEF A, B
    <3> QED  BY <1>3, FS_Union
  <2>3. Cardinality(A \cap B) = 0
    BY <1>2, FS_EmptySet
  <2> HIDE DEF A, B
  <2> QED  BY <2>1, <2>2, <2>3
<1> QED  BY <1>1, <1>4, <1>5 DEF Total

(* Entries outside the set that is summed do not matter. *)
LEMMA TotalAgree ==
  ASSUME NEW S, NEW f, NEW g, \A x \in S : f[x] = g[x]
  PROVE  Total(S, f) = Total(S, g)
<1>1. Units(S, f) = Units(S, g)
  BY DEF Units
<1> QED  BY <1>1 DEF Total

(* Changing one entry changes the sum by as much. *)
LEMMA TotalUpdate ==
  ASSUME NEW S, IsFiniteSet(S), NEW f \in [S -> Nat], NEW g \in [S -> Nat],
         NEW x \in S, \A y \in S \ {x} : g[y] = f[y]
  PROVE  Total(S, g) = Total(S, f) - f[x] + g[x]
<1> DEFINE h == [y \in S \ {x} |-> f[y]]
<1>1. Total(S \ {x}, g) = Total(S \ {x}, f)
  BY TotalAgree
<1>2. Total(S, g) = Total(S \ {x}, g) + g[x]
  BY TotalSplit
<1>3. Total(S, f) = Total(S \ {x}, f) + f[x]
  BY TotalSplit
<1>4. Total(S \ {x}, f) \in Nat
  <2>1. h \in [S \ {x} -> Nat] /\ \A y \in S \ {x} : f[y] = h[y]
    OBVIOUS
  <2>2. IsFiniteSet(S \ {x})
    BY FS_RemoveElement
  <2> HIDE DEF h
  <2>3. Total(S \ {x}, f) = Total(S \ {x}, h)
    BY <2>1, TotalAgree
  <2> QED  BY <2>1, <2>2, <2>3, TotalNat
<1> QED  BY <1>1, <1>2, <1>3, <1>4

(* A sum of nothing but zeros. *)
LEMMA TotalZero ==
  ASSUME NEW S, NEW f, \A x \in S : f[x] = 0
  PROVE  Total(S, f) = 0
<1>1. Units(S, f) = {}
  BY DEF Units
<1> QED  BY <1>1, FS_EmptySet DEF Total

(* Sums are monotone in every entry. *)
LEMMA TotalMonotone ==
  ASSUME NEW S, IsFiniteSet(S), NEW f \in [S -> Nat], NEW g \in [S -> Nat],
         \A x \in S : f[x] <= g[x]
  PROVE  Total(S, f) <= Total(S, g)
<1>1. Units(S, f) \subseteq Units(S, g)
  <2>1. ASSUME NEW x \in S PROVE {x} \X (1..f[x]) \subseteq {x} \X (1..g[x])
    OBVIOUS
  <2> QED  BY <2>1 DEF Units
<1> QED  BY <1>1, UnitsFinite, FS_Subset DEF Total

(* The same of a function that is defined on more than the set summed.        *)
LEMMA TotalType ==
  ASSUME NEW S, IsFiniteSet(S), NEW f, \A x \in S : f[x] \in Nat
  PROVE  Total(S, f) \in Nat
<1> DEFINE h == [x \in S |-> f[x]]
<1>1. h \in [S -> Nat] /\ \A x \in S : f[x] = h[x]
  OBVIOUS
<1> HIDE DEF h
<1> QED  BY <1>1, TotalAgree, TotalNat

(* A new entry adds its amount, the others staying as they are.               *)
LEMMA TotalAdd ==
  ASSUME NEW S, IsFiniteSet(S), NEW x, x \notin S,
         NEW f, NEW g, g[x] \in Nat, \A y \in S : g[y] \in Nat /\ g[y] = f[y]
  PROVE  Total(S \cup {x}, g) = Total(S, f) + g[x]
<1> DEFINE h == [y \in S \cup {x} |-> g[y]]
<1>1. h \in [S \cup {x} -> Nat] /\ \A y \in S \cup {x} : g[y] = h[y]
  OBVIOUS
<1>2. IsFiniteSet(S \cup {x})
  BY FS_AddElement
<1>3. (S \cup {x}) \ {x} = S
  OBVIOUS
<1> HIDE DEF h
<1>4. Total(S \cup {x}, h) = Total((S \cup {x}) \ {x}, h) + h[x]
  BY <1>1, <1>2, TotalSplit
<1>5. Total(S \cup {x}, g) = Total(S \cup {x}, h)
  BY <1>1, TotalAgree
<1>6. \A y \in S : h[y] = f[y]
  BY <1>1
<1>7. Total(S, h) = Total(S, f)
  BY ONLY <1>6, TotalAgree
<1> QED  BY <1>1, <1>3, <1>4, <1>5, <1>7

\* Two functions give the entries of a set the same amounts.
SameAmounts(S, f, g) == \A y \in S : f[y] \in Nat /\ g[y] = f[y]

(* What a new entry changes of the sum of a part of the others, with it or not.*)
LEMMA TotalJoin ==
  ASSUME NEW T, IsFiniteSet(T), NEW x, x \notin T,
         NEW f, NEW g, g[x] \in Nat, SameAmounts(T, f, g),
         NEW S \in SUBSET T, NEW U, U = S \cup {x}
  PROVE  /\ Total(S, g) = Total(S, f)
         /\ Total(U, g) = Total(S, f) + g[x]
<1>1. IsFiniteSet(S)
  BY FS_Subset
<1>2. x \notin S /\ \A y \in S : g[y] \in Nat /\ g[y] = f[y]
  BY DEF SameAmounts
<1>3. Total(S, g) = Total(S, f)
  BY <1>2, TotalAgree
<1>4. Total(S \cup {x}, g) = Total(S, f) + g[x]
  BY <1>1, <1>2, TotalAdd
<1> QED  BY <1>3, <1>4

(* Two sets without a common entry add up.                                    *)
LEMMA TotalDisjoint ==
  ASSUME NEW S, IsFiniteSet(S), NEW T, IsFiniteSet(T), S \cap T = {},
         NEW f, \A x \in S \cup T : f[x] \in Nat
  PROVE  Total(S \cup T, f) = Total(S, f) + Total(T, f)
<1> DEFINE h == [x \in S \cup T |-> f[x]]
           hs == [x \in S |-> f[x]]
           ht == [x \in T |-> f[x]]
<1>1. Units(S \cup T, f) = Units(S, f) \cup Units(T, f)
  BY DEF Units
<1>2. Units(S, f) \cap Units(T, f) = {}
  BY DEF Units
<1>3. IsFiniteSet(Units(S, f)) /\ IsFiniteSet(Units(T, f))
  <2>1. hs \in [S -> Nat] /\ ht \in [T -> Nat]
    OBVIOUS
  <2>2. Units(S, f) = Units(S, hs) /\ Units(T, f) = Units(T, ht)
    BY DEF Units
  <2> HIDE DEF hs, ht
  <2> QED  BY <2>1, <2>2, UnitsFinite
<1>4. Total(S, f) \in Nat /\ Total(T, f) \in Nat
  BY TotalType
<1>5. Cardinality(Units(S, f) \cup Units(T, f))
        = Cardinality(Units(S, f)) + Cardinality(Units(T, f)) - Cardinality({})
  BY <1>2, <1>3, FS_Union
<1>6. Cardinality({}) = 0
  BY FS_EmptySet
<1>7. /\ Total(S \cup T, f) = Cardinality(Units(S \cup T, f))
      /\ Total(S, f) = Cardinality(Units(S, f)) /\ Total(T, f) = Cardinality(Units(T, f))
  BY DEF Total
<1> HIDE DEF h, hs, ht
<1>8. Total(S \cup T, f) = Total(S, f) + Total(T, f) - 0
  BY ONLY <1>1, <1>5, <1>6, <1>7
<1> QED  BY <1>4, <1>8

(* A part sums to no more than the whole.                                     *)
LEMMA TotalSubset ==
  ASSUME NEW T, IsFiniteSet(T), NEW S \in SUBSET T, NEW f, \A x \in T : f[x] \in Nat
  PROVE  Total(S, f) <= Total(T, f)
<1>1. IsFiniteSet(S) /\ IsFiniteSet(T \ S)
  BY FS_Subset, FS_Difference
<1>2. T = S \cup (T \ S) /\ S \cap (T \ S) = {}
  OBVIOUS
<1>3. Total(T, f) = Total(S, f) + Total(T \ S, f)
  <2>1. \A x \in S \cup (T \ S) : f[x] \in Nat
    OBVIOUS
  <2> QED  BY <1>1, <1>2, <2>1, TotalDisjoint
<1>4. Total(S, f) \in Nat /\ Total(T \ S, f) \in Nat
  BY <1>1, TotalType
<1> QED  BY <1>3, <1>4

-----------------------------------------------------------------------------
(* Sets of numbers. *)

(* A set of positive numbers without gaps is the first ones.                  *)
LEMMA FirstOnes ==
  ASSUME NEW n \in Nat, NEW U \in SUBSET (1..n), \A i \in U : 1..i \subseteq U
  PROVE  Cardinality(U) \in 0..n /\ U = 1..Cardinality(U)
<1> DEFINE c == Cardinality(U)
<1>1. IsFiniteSet(1..n) /\ Cardinality(1..n) = n
  BY FS_Interval
<1>2. IsFiniteSet(U) /\ c \in Nat /\ c <= n
  BY <1>1, FS_Subset, FS_CardinalityType, ZenonT(60)
<1>3. ASSUME NEW i \in U PROVE i <= c
  <2>1. i \in Nat /\ i >= 1
    OBVIOUS
  <2>2. Cardinality(1..i) = i
    BY <2>1, FS_Interval
  <2>3. Cardinality(1..i) <= c
    BY <1>2, FS_Subset
  <2> QED  BY <2>2, <2>3
<1>4. U \subseteq 1..c
  BY <1>2, <1>3
<1>5. IsFiniteSet(1..c) /\ Cardinality(1..c) = c
  BY <1>2, FS_Interval
<1>6. U = 1..c
  BY <1>4, <1>5, FS_Subset
<1> QED  BY <1>2, <1>6

(* A bounded set of numbers has a least one.                                  *)
LEMMA LeastOfNaturals ==
  ASSUME NEW n \in Nat, NEW T \in SUBSET (1..n), T # {}
  PROVE  \E m \in T : \A t \in T : m <= t
<1> DEFINE U == {i \in 1..n : \A t \in T : i <= t}
           c == Cardinality(U)
<1>1. \A i \in U : 1..i \subseteq U
  OBVIOUS
<1>2. c \in 0..n /\ U = 1..c
  <2> HIDE DEF U
  <2>1. U \in SUBSET (1..n)
    BY DEF U
  <2> QED  BY <1>1, <2>1, FirstOnes
<1>3. PICK s \in T : TRUE
  OBVIOUS
<1>4. s \in Nat /\ 1 <= s /\ s <= n
  OBVIOUS
<1>5. 1 \in U
  BY <1>4
<1> HIDE DEF c
<1>6. c \in Nat /\ c >= 1 /\ c <= n /\ c \in U
  <2> HIDE DEF U
  <2> QED  BY <1>2, <1>5
<1>7. \A t \in T : c <= t
  BY <1>6
<1>8. PICK t \in T : ~(c + 1 <= t)
  <2>1. CASE c + 1 <= n
    <3>1. c + 1 \notin U
      <4> HIDE DEF U
      <4> QED  BY <1>2, <1>6
    <3> QED  BY <1>6, <2>1, <3>1
  <2>2. CASE c = n
    BY <1>3, <1>4, <2>2
  <2> QED  BY <1>6, <2>1, <2>2
<1>9. t = c
  <2>1. t \in Nat
    OBVIOUS
  <2> QED  BY <1>6, <1>7, <1>8, <2>1
<1> QED  BY <1>7, <1>9

(* A set of natural numbers up to n, not empty, has a greatest one. *)
LEMMA GreatestOfNaturals ==
  ASSUME NEW n \in Nat, NEW T \in SUBSET (1..n), T # {}
  PROVE  \E m \in T : \A t \in T : t <= m
<1> DEFINE R == {n + 1 - t : t \in T}
<1>1. R \in SUBSET (1..n) /\ R # {}
  <2>1. \A t \in T : t \in Int /\ n + 1 - t \in 1..n
    OBVIOUS
  <2>2. R \subseteq 1..n
    BY <2>1
  <2> QED  BY <2>2
<1> HIDE DEF R
<1>2. PICK m \in R : \A t \in R : m <= t
  BY <1>1, LeastOfNaturals
<1>3. PICK u \in T : m = n + 1 - u
  BY DEF R
<1>4. \A t \in T : n + 1 - t \in R /\ t \in 1..n
  BY DEF R
<1>5. \A t \in T : t <= u
  BY <1>2, <1>3, <1>4
<1> QED  BY <1>5

(* The sum of two columns is the column of their sums.                        *)
LEMMA TotalSum ==
  ASSUME NEW S, IsFiniteSet(S), NEW f \in [S -> Nat], NEW g \in [S -> Nat], NEW h \in [S -> Nat],
         \A x \in S : h[x] = f[x] + g[x]
  PROVE  Total(S, h) = Total(S, f) + Total(S, g)
<1> DEFINE A == Units(S, f)
           B == Units(S, g)
           H == Units(S, h)
           m == [u \in B |-> <<u[1], f[u[1]] + u[2]>>]
<1>1. /\ \A u : u \in A <=> \E x \in S : \E i \in 1..f[x] : u = <<x, i>>
      /\ \A u : u \in B <=> \E x \in S : \E i \in 1..g[x] : u = <<x, i>>
      /\ \A u : u \in H <=> \E x \in S : \E i \in 1..h[x] : u = <<x, i>>
  BY DEF Units
<1>2. \A x \in S : f[x] \in Nat /\ g[x] \in Nat /\ h[x] = f[x] + g[x]
  OBVIOUS
<1>3. IsFiniteSet(A) /\ IsFiniteSet(B) /\ IsFiniteSet(H)
  BY UnitsFinite
<1> HIDE DEF A, B, H
<1>4. A \subseteq H
  BY <1>1, <1>2
<1>5. m \in Bijection(B, H \ A)
  <2>1. ASSUME NEW u \in B PROVE m[u] \in H \ A
    <3>0. PICK x \in S : \E i \in 1..g[x] : u = <<x, i>>
      BY <1>1
    <3>1. PICK i \in 1..g[x] : u = <<x, i>>
      BY <3>0
    <3>2. m[u] = <<x, f[x] + i>> /\ f[x] + i \in 1..h[x] /\ f[x] + i \notin 1..f[x]
      BY <1>2, <3>1
    <3> QED  BY <1>1, <3>2
  <2>2. ASSUME NEW u \in B, NEW v \in B, m[u] = m[v] PROVE u = v
    <3>a. PICK x \in S : \E i \in 1..g[x] : u = <<x, i>>
      BY <1>1
    <3>b. PICK y \in S : \E j \in 1..g[y] : v = <<y, j>>
      BY <1>1
    <3>1. PICK i \in 1..g[x] : u = <<x, i>>
      BY <3>a
    <3>2. PICK j \in 1..g[y] : v = <<y, j>>
      BY <3>b
    <3>3. m[u] = <<x, f[x] + i>> /\ m[v] = <<y, f[y] + j>>
      BY <3>1, <3>2
    <3> QED  BY <1>2, <2>2, <3>1, <3>2, <3>3
  <2>3. ASSUME NEW w \in H \ A PROVE \E u \in B : m[u] = w
    <3>0. PICK x \in S : \E k \in 1..h[x] : w = <<x, k>>
      BY <1>1
    <3>1. PICK k \in 1..h[x] : w = <<x, k>>
      BY <3>0
    <3>2. k \notin 1..f[x]
      BY <1>1, <3>1
    <3>3. k - f[x] \in 1..g[x]
      BY <1>2, <3>1, <3>2
    <3>4. <<x, k - f[x]>> \in B
      BY <1>1, <3>3
    <3>5. m[<<x, k - f[x]>>] = w
      BY <1>2, <3>1, <3>4
    <3> QED  BY <3>4, <3>5
  <2>4. m \in [B -> H \ A]
    BY <2>1
  <2> HIDE DEF m
  <2>5. DOMAIN m = B
    BY <2>4
  <2> QED  BY <2>2, <2>3, <2>4, <2>5 DEF Bijection, Injection, Surjection, IsInjective
<1>6. Cardinality(H \ A) = Cardinality(B)
  BY <1>3, <1>5, FS_Bijection DEF ExistsBijection
<1>7. Cardinality(H \ A) = Cardinality(H) - Cardinality(A)
  <2>1. H \cap A = A
    BY <1>4
  <2>2. Cardinality(H \ A) = Cardinality(H) - Cardinality(H \cap A)
    BY <1>3, FS_Difference
  <2> QED  BY <2>1, <2>2
<1>8. Cardinality(H) \in Nat /\ Cardinality(A) \in Nat /\ Cardinality(B) \in Nat
  BY <1>3, FS_CardinalityType
<1> QED  BY <1>6, <1>7, <1>8 DEF Total, A, B, H

(* The sum over a single row is its amount.                                   *)
LEMMA TotalOfOne ==
  ASSUME NEW x, NEW f, f[x] \in Nat PROVE Total({x}, f) = f[x]
<1>1. PICK E : E = {}
  OBVIOUS
<1>2. IsFiniteSet(E) /\ Total(E, f) = 0 /\ \A y : y \notin E
  BY <1>1, TotalZero, FS_EmptySet
<1>3. SameAmounts(E, f, f) /\ E \in SUBSET E /\ {x} = E \cup {x}
  BY <1>1 DEF SameAmounts
<1>4. Total({x}, f) = Total(E, f) + f[x]
  BY <1>2, <1>3, TotalJoin
<1> QED  BY <1>2, <1>4
=============================================================================
