---------------------------- MODULE TallyProofs ----------------------------
(***************************************************************************)
(* What the conservation proofs need to know about sums: a sum of naturals *)
(* is a natural, it splits off any one element, it depends only on the     *)
(* values summed, and changing one value changes it by the difference.     *)
(* And, at the end, induction: on the naturals and on a finite set, each   *)
(* with a set in the place of the property, least and greatest numbers,    *)
(* and functions defined by recursion.                                     *)
(***************************************************************************)
EXTENDS Tally, FiniteSetTheorems, WellFoundedInduction, TLAPS

\* The units of one element: f[x] of them.
LEMMA SliceSize ==
  ASSUME NEW f, NEW x, f[x] \in Nat
  PROVE  /\ IsFiniteSet({x} \X (1 .. f[x]))
         /\ Cardinality({x} \X (1 .. f[x])) = f[x]
<1>1. IsFiniteSet({x}) /\ Cardinality({x}) = 1
  BY FS_Singleton
<1>2. IsFiniteSet(1 .. f[x]) /\ Cardinality(1 .. f[x]) = f[x]
  BY FS_Interval
<1>3. /\ IsFiniteSet({x} \X (1 .. f[x]))
      /\ Cardinality({x} \X (1 .. f[x])) = Cardinality({x}) * Cardinality(1 .. f[x])
  BY <1>1, <1>2, FS_Product
<1>4. QED BY <1>1, <1>2, <1>3

\* Finitely many naturals have finitely many units.
LEMMA UnitsFinite ==
  ASSUME NEW S, IsFiniteSet(S), NEW f, \A x \in S : f[x] \in Nat
  PROVE  IsFiniteSet(Units(f, S))
<1> DEFINE slice == [x \in S |-> {x} \X (1 .. f[x])]
           slices == { {x} \X (1 .. f[x]) : x \in S }
<1>1. slice \in Surjection(S, slices)
  BY DEF Surjection
<1>2. IsFiniteSet(slices)
  <2> HIDE DEF slice, slices
  <2> QED BY <1>1, FS_Surjection
<1>3. \A s \in slices : IsFiniteSet(s)
  BY SliceSize
<1>4. IsFiniteSet(UNION slices)
  <2> HIDE DEF slices
  <2> QED BY <1>2, <1>3, FS_UNION
<1>5. QED BY <1>4 DEF Units

\* A sum of naturals is a natural.
LEMMA TotalType ==
  ASSUME NEW S, IsFiniteSet(S), NEW f, \A x \in S : f[x] \in Nat
  PROVE  Total(f, S) \in Nat
BY UnitsFinite, FS_CardinalityType DEF Total

\* A sum is one of its terms plus the sum of the others.
LEMMA TotalSplit ==
  ASSUME NEW S, IsFiniteSet(S), NEW f, \A x \in S : f[x] \in Nat, NEW e \in S
  PROVE  /\ Total(f, S) = f[e] + Total(f, S \ {e})
         /\ Total(f, S \ {e}) \in Nat
<1> DEFINE own == {e} \X (1 .. f[e])
           rest == Units(f, S \ {e})
<1>1. Units(f, S) = own \cup rest
  BY DEF Units
<1>2. own \cap rest = {}
  BY DEF Units
<1>3. IsFiniteSet(own) /\ Cardinality(own) = f[e]
  BY SliceSize
<1>4. IsFiniteSet(S \ {e})
  BY FS_RemoveElement
<1>5. IsFiniteSet(rest)
  BY <1>4, UnitsFinite
<1>6. Cardinality(own \cup rest) = Cardinality(own) + Cardinality(rest)
                                     - Cardinality(own \cap rest)
  <2> HIDE DEF own, rest
  <2> QED BY <1>3, <1>5, FS_Union
<1>7. Cardinality(own \cap rest) = 0
  BY <1>2, FS_EmptySet
<1>8. Cardinality(rest) \in Nat
  BY <1>5, FS_CardinalityType
<1>9. QED BY <1>1, <1>3, <1>6, <1>7, <1>8 DEF Total

\* A sum depends on the values it adds and on nothing else of the function.
LEMMA TotalSame ==
  ASSUME NEW S, NEW f, NEW g, \A x \in S : f[x] = g[x]
  PROVE  Total(f, S) = Total(g, S)
<1>1. Units(f, S) = Units(g, S)
  BY DEF Units
<1>2. QED BY <1>1 DEF Total

\* Changing one term changes the sum by the difference.
LEMMA TotalChange ==
  ASSUME NEW S, IsFiniteSet(S), NEW f, NEW g, NEW e \in S,
         \A x \in S : f[x] \in Nat, \A x \in S : g[x] \in Nat,
         \A x \in S \ {e} : f[x] = g[x]
  PROVE  Total(g, S) = Total(f, S) - f[e] + g[e]
<1>1. Total(f, S) = f[e] + Total(f, S \ {e}) /\ Total(f, S \ {e}) \in Nat
  BY TotalSplit
<1>2. Total(g, S) = g[e] + Total(g, S \ {e})
  BY TotalSplit
<1>3. Total(f, S \ {e}) = Total(g, S \ {e})
  BY TotalSame
<1>4. QED BY <1>1, <1>2, <1>3

\* New terms that are zero do not change a sum.
LEMMA TotalExtend ==
  ASSUME NEW S, NEW T, S \subseteq T, NEW f, NEW g,
         \A x \in S : f[x] = g[x], \A x \in T \ S : g[x] = 0
  PROVE  Total(g, T) = Total(f, S)
<1>1. Units(g, T) = Units(f, S)
  BY DEF Units
<1>2. QED BY <1>1 DEF Total

\* Zeros add up to zero.
LEMMA TotalZero ==
  ASSUME NEW S, NEW f, \A x \in S : f[x] = 0
  PROVE  Total(f, S) = 0
<1>1. Units(f, S) = {}
  BY DEF Units
<1>2. QED BY <1>1, FS_EmptySet DEF Total

\* A sum of larger terms is larger.
LEMMA TotalMonotone ==
  ASSUME NEW S, IsFiniteSet(S), NEW f, NEW g,
         \A x \in S : f[x] \in Nat /\ g[x] \in Nat /\ f[x] <= g[x]
  PROVE  Total(f, S) <= Total(g, S)
<1>1. Units(f, S) \subseteq Units(g, S)
  BY DEF Units
<1>2. IsFiniteSet(Units(g, S))
  BY UnitsFinite
<1>3. QED BY <1>1, <1>2, FS_Subset DEF Total

\* No term is larger than the sum.
LEMMA TermUnderTotal ==
  ASSUME NEW S, IsFiniteSet(S), NEW f, \A x \in S : f[x] \in Nat, NEW e \in S
  PROVE  f[e] <= Total(f, S)
<1>1. Total(f, S) = f[e] + Total(f, S \ {e}) /\ Total(f, S \ {e}) \in Nat
  BY TotalSplit
<1>2. f[e] \in Nat
  OBVIOUS
<1>3. QED BY <1>1, <1>2

\* A product of larger factors is larger.
LEMMA ProductMonotone ==
  ASSUME NEW x \in Nat, NEW y \in Nat, NEW p \in Nat, NEW q \in Nat,
         x <= y, p <= q
  PROVE  x * p \in Nat /\ y * q \in Nat /\ x * p <= y * q
<1>1. x * p <= y * p
  OBVIOUS
<1>2. y * p <= y * q
  OBVIOUS
<1>3. x * p \in Nat /\ y * q \in Nat /\ y * p \in Nat
  OBVIOUS
<1>4. QED BY <1>1, <1>2, <1>3
-----------------------------------------------------------------------------
\* A set of naturals has a least element.
LEMMA Smallest ==
  ASSUME NEW T \in SUBSET Nat, T # {}
  PROVE  \E x \in T : \A y \in T : x <= y
<1>1. PICK x \in T : \A y \in T : ~ (<<y, x>> \in OpToRel(<, Nat))
  BY NatLessThanWellFounded, WFMin
<1>2. \A y \in T : ~(y < x) BY <1>1 DEF OpToRel
<1>3. QED BY ONLY <1>2, T \in SUBSET Nat, x \in T

\* Induction, on the set of the numbers that have a property.
LEMMA Induction ==
  ASSUME NEW T \in SUBSET Nat, 0 \in T, \A n \in T : n + 1 \in T
  PROVE  T = Nat
<1> SUFFICES ASSUME Nat \ T # {} PROVE FALSE OBVIOUS
<1>1. PICK x \in Nat \ T : \A y \in Nat \ T : x <= y BY Smallest
<1>2. x # 0 /\ x - 1 \in Nat BY <1>1
<1>3. x - 1 \in T BY <1>1, <1>2
<1>4. QED BY <1>1, <1>2, <1>3

\* The same on a finite set, element by element.
LEMMA FiniteInduction ==
  ASSUME NEW S, IsFiniteSet(S), NEW F \in SUBSET (SUBSET S), {} \in F,
         \A T \in F, x \in S : T \cup {x} \in F
  PROVE  S \in F
<1> DEFINE left == {Cardinality(S \ T) : T \in F}
<1>1. \A T \in F : IsFiniteSet(S \ T) /\ Cardinality(S \ T) \in Nat
  BY FS_Difference, FS_CardinalityType
<1>2. left \in SUBSET Nat /\ left # {} BY <1>1
<1>3. \E n \in left : \A m \in left : n <= m
  <2> HIDE DEF left
  <2> QED BY <1>2, Smallest
<1>4. PICK T \in F : \A U \in F : Cardinality(S \ T) <= Cardinality(S \ U) BY <1>3
<1>5. ASSUME NEW x \in S \ T PROVE FALSE
  <2>1. S \ (T \cup {x}) = (S \ T) \ {x} OBVIOUS
  <2>2. Cardinality((S \ T) \ {x}) = Cardinality(S \ T) - 1 BY <1>1, FS_RemoveElement
  <2>3. T \cup {x} \in F OBVIOUS
  <2>4. Cardinality(S \ T) <= Cardinality(S \ (T \cup {x})) BY <1>4, <2>3
  <2>5. Cardinality(S \ T) \in Nat BY <1>1
  <2>6. Cardinality(S \ (T \cup {x})) = Cardinality(S \ T) - 1 BY ONLY <2>1, <2>2, Zenon
  <2>7. QED BY <2>4, <2>5, <2>6
<1>6. S = T BY <1>5
<1>7. QED BY <1>6

\* A finite set of integers has a greatest element.
LEMMA Greatest ==
  ASSUME NEW S \in SUBSET Int, IsFiniteSet(S), S # {}
  PROVE  \E x \in S : \A y \in S : y <= x
<1> DEFINE F == {T \in SUBSET S : T = {} \/ \E x \in T : \A y \in T : y <= x}
<1>1. {} \in F OBVIOUS
<1>2. ASSUME NEW T \in F, NEW z \in S PROVE T \cup {z} \in F
  <2>1. CASE T = {} BY <2>1
  <2>2. CASE T # {}
    <3>1. PICK x \in T : \A y \in T : y <= x BY <2>2
    <3>2. x \in Int /\ z \in Int /\ \A y \in T : y \in Int OBVIOUS
    <3>3. CASE z <= x BY <3>1, <3>3
    <3>4. CASE x < z
      <4>1. \A y \in T \cup {z} : y <= z BY <3>1, <3>2, <3>4
      <4>2. QED BY <4>1
    <3>5. QED BY <3>2, <3>3, <3>4
  <2>3. QED BY <2>1, <2>2
<1>3. S \in F
  <2> F \in SUBSET (SUBSET S) OBVIOUS
  <2> HIDE DEF F
  <2> QED BY <1>1, <1>2, FiniteInduction
<1>4. QED BY <1>3

\* A function on the naturals is given by its first value and its steps.
Steps(V) == [Nat -> [V -> V]]
Follows(f, V, base, step) ==
  f \in [Nat -> V] /\ f[0] = base /\ \A n \in Nat : f[n + 1] = step[n][f[n]]

LEMMA Recursion ==
  ASSUME NEW V, NEW base \in V, NEW step \in Steps(V)
  PROVE  \E f : Follows(f, V, base, step)
<1> USE DEF Steps
<1> DEFINE Up(g, n) == /\ g \in [0..n -> V] /\ g[0] = base
                       /\ \A i \in 0..(n - 1) : g[i + 1] = step[i][g[i]]
           some == {n \in Nat : \E g : Up(g, n)}
<1>1. some = Nat
  <2>1. 0 \in some
    <3>1. Up([i \in 0..0 |-> base], 0) OBVIOUS
    <3>2. QED BY <3>1
  <2>2. ASSUME NEW n \in some PROVE n + 1 \in some
    <3>1. PICK g : Up(g, n) OBVIOUS
    <3> DEFINE h == [i \in 0..(n + 1) |-> IF i = n + 1 THEN step[n][g[n]] ELSE g[i]]
    <3>2. h \in [0..(n+1) -> V] BY <3>1
    <3>3. h[0] = base BY <3>1
    <3>4. ASSUME NEW i \in 0..n PROVE h[i + 1] = step[i][h[i]] BY <3>1
    <3>5. n + 1 \in Nat /\ (n + 1) - 1 = n OBVIOUS
    <3> HIDE DEF h
    <3>6. Up(h, n + 1) BY <3>2, <3>3, <3>4, <3>5
    <3>7. QED BY <3>5, <3>6
  <2>3. some \in SUBSET Nat OBVIOUS
  <2> HIDE DEF some
  <2>4. QED BY <2>1, <2>2, <2>3, Induction
<1>2. ASSUME NEW m \in Nat, NEW g, Up(g, m), NEW h, Up(h, m + 1)
      PROVE  g[m] = h[m]
  <2> DEFINE same == {n \in Nat : n <= m => g[n] = h[n]}
  <2>1. 0 \in same BY <1>2
  <2>2. ASSUME NEW n \in same PROVE n + 1 \in same BY <1>2
  <2>3. same \in SUBSET Nat OBVIOUS
  <2>4. same = Nat
    <3> HIDE DEF same
    <3> QED BY <2>1, <2>2, <2>3, Induction
  <2>5. QED BY <2>4
<1> DEFINE up == [n \in Nat |-> CHOOSE g : Up(g, n)]
           f == [n \in Nat |-> up[n][n]]
<1>3. \A n \in Nat : Up(up[n], n) BY <1>1
<1> HIDE DEF up
<1>4. f \in [Nat -> V] /\ f[0] = base BY <1>3
<1>5. ASSUME NEW n \in Nat PROVE f[n + 1] = step[n][f[n]]
  <2>1. Up(up[n], n) /\ Up(up[n + 1], n + 1) BY <1>3
  <2>2. up[n][n] = up[n + 1][n] BY <1>2, <2>1
  <2>3. up[n + 1][n + 1] = step[n][up[n + 1][n]]
    <3>1. n \in 0..((n + 1) - 1) OBVIOUS
    <3>2. QED BY <2>1, <3>1
  <2>4. QED BY <2>2, <2>3
<1>6. QED BY <1>4, <1>5 DEF Follows
\* The same up to a last number, in the form of a recursive definition.
BuiltUp(f, N, base, step) ==
  f = [i \in 0..N |-> IF i = 0 THEN base ELSE step[i][f[i - 1]]]

LEMMA RecursionUpTo ==
  ASSUME NEW V, NEW base \in V, NEW N \in Nat, NEW step \in [1..N -> [V -> V]]
  PROVE  \E f \in [0..N -> V] : BuiltUp(f, N, base, step)
<1> DEFINE all == [n \in Nat |-> IF n < N THEN step[n + 1] ELSE [v \in V |-> v]]
<1>1. all \in Steps(V)
  <2>1. ASSUME NEW n \in Nat PROVE all[n] \in [V -> V]
    <3>1. CASE n < N
      <4>1. n + 1 \in 1..N BY <3>1
      <4>2. QED BY <3>1, <4>1
    <3>2. CASE ~(n < N) BY <3>2
    <3>3. QED BY <3>1, <3>2
  <2>2. QED BY <2>1 DEF Steps
<1>2. PICK g : Follows(g, V, base, all)
  <2> HIDE DEF all
  <2>1. QED BY <1>1, Recursion, Zenon
<1> DEFINE f == [i \in 0..N |-> g[i]]
<1>3. f \in [0..N -> V] BY <1>2 DEF Follows
<1>4. ASSUME NEW i \in 0..N PROVE f[i] = IF i = 0 THEN base ELSE step[i][f[i - 1]]
  <2>1. CASE i = 0 BY <1>2, <2>1 DEF Follows
  <2>2. CASE i # 0
    <3>1. i - 1 \in Nat /\ i - 1 < N /\ (i - 1) + 1 = i /\ i - 1 \in 0..N BY <2>2
    <3>2. all[i - 1] = step[i] BY <3>1
    <3>3. g[(i - 1) + 1] = all[i - 1][g[i - 1]] BY <1>2, <3>1 DEF Follows
    <3>4. f[i] = g[i] /\ f[i - 1] = g[i - 1] BY <3>1
    <3> HIDE DEF all, f
    <3>5. f[i] = step[i][f[i - 1]] BY <3>1, <3>2, <3>3, <3>4
    <3>6. QED BY <2>2, <3>5
  <2>3. QED BY <2>1, <2>2
<1>5. f = [i \in 0..N |-> IF i = 0 THEN base ELSE step[i][f[i - 1]]] BY <1>3, <1>4
<1> HIDE DEF f
<1>6. QED BY <1>3, <1>5 DEF BuiltUp
=============================================================================
