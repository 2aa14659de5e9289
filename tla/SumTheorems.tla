------------------------------ MODULE SumTheorems ------------------------------
(****************************************************************************)
(* Sums of integers over finite sets, as the models use them for what pods  *)
(* ask of a machine and for what a plan is worth.  The community module     *)
(* Functions defines SumFunctionOnSet by a recursive function on the        *)
(* subsets; that this function exists, and all that follows from its        *)
(* equation, is shown by looking at a smallest set without the property.    *)
(****************************************************************************)
EXTENDS Integers, FiniteSets, Functions, FiniteSetsExt, FiniteSetTheorems,
        WellFoundedInduction, TLAPS

\* The element that a sum takes next, and the equation of its recursive function.
Pick(s) == CHOOSE x \in s : TRUE
Sums(g, f, S) == g = [s \in SUBSET S |-> IF s = {} THEN 0 ELSE f[Pick(s)] + g[s \ {Pick(s)}]]

\* f gives every element of S an integer.
Summable(f, S) == IsFiniteSet(S) /\ \A x \in S : f[x] \in Int

--------------------------------------------------------------------------------
LEMMA SmallestNumber ==
  ASSUME NEW T, T \subseteq Nat, T # {}
  PROVE  \E n \in T : \A m \in T : n <= m
<1>1. PICK n \in T : \A m \in T : ~(<<m, n>> \in OpToRel(<, Nat))
  BY NatLessThanWellFounded, WFMin
<1>2. \A m \in T : ~(m < n)
  BY <1>1 DEF OpToRel
<1>. QED
  BY <1>2

\* A family of subsets of a finite set has a member with no smaller one inside.
LEMMA SmallestSubset ==
  ASSUME NEW U, IsFiniteSet(U), NEW F, F \subseteq SUBSET U, F # {}
  PROVE  \E S \in F : \A T \in F : ~(T \subseteq S /\ T # S)
<1>. DEFINE sizes == {Cardinality(S) : S \in F}
<1>0. \A S \in F : IsFiniteSet(S)
  BY FS_Subset
<1>1. sizes \subseteq Nat /\ sizes # {}
  BY <1>0, FS_CardinalityType
<1>2. PICK k \in sizes : \A m \in sizes : k <= m
  BY <1>1, SmallestNumber
<1>3. PICK S \in F : k = Cardinality(S)
  BY <1>2
<1>4. ASSUME NEW T \in F, T \subseteq S, T # S PROVE FALSE
  <2>1. Cardinality(T) < Cardinality(S) /\ Cardinality(T) \in Nat /\ Cardinality(S) \in Nat
    BY <1>0, <1>4, FS_Subset, FS_CardinalityType
  <2>2. Cardinality(S) <= Cardinality(T)
    BY <1>2, <1>3
  <2>. QED
    BY <2>1, <2>2
<1>. QED
  BY <1>3, <1>4

LEMMA PickIn == ASSUME NEW S, S # {} PROVE Pick(S) \in S
  BY DEF Pick

LEMMA SumIs ==
  ASSUME NEW f, NEW S
  PROVE  SumFunctionOnSet(f, S) = (CHOOSE g : Sums(g, f, S))[S]
  BY DEF SumFunctionOnSet, FoldFunctionOnSet, MapThenFoldSet, Sums, Pick

\* Two solutions of the equation agree on the sets both know.
LEMMA SumsAgree ==
  ASSUME NEW f, NEW S, NEW T, NEW g, NEW h, Sums(g, f, S), Sums(h, f, T),
         NEW R, R \subseteq S, R \subseteq T, IsFiniteSet(R)
  PROVE  g[R] = h[R]
<1>. DEFINE bad == {s \in SUBSET R : g[s] # h[s]}
<1>. SUFFICES ASSUME bad # {} PROVE FALSE
  OBVIOUS
<1>1. PICK s \in bad : \A t \in bad : ~(t \subseteq s /\ t # s)
  <2>1. bad \subseteq SUBSET R
    OBVIOUS
  <2>. HIDE DEF bad
  <2>. QED
    BY <2>1, SmallestSubset
<1>2. s \in SUBSET S /\ s \in SUBSET T
  OBVIOUS
<1>3. /\ g[s] = IF s = {} THEN 0 ELSE f[Pick(s)] + g[s \ {Pick(s)}]
      /\ h[s] = IF s = {} THEN 0 ELSE f[Pick(s)] + h[s \ {Pick(s)}]
  BY <1>2 DEF Sums
<1>4. s # {}
  BY <1>1, <1>3
<1>5. g[s \ {Pick(s)}] = h[s \ {Pick(s)}]
  BY <1>1, <1>4, PickIn
<1>. QED
  BY <1>1, <1>3, <1>4, <1>5

\* The equation has a solution for every finite set, so the sum obeys it.
LEMMA SumsExist ==
  ASSUME NEW f, NEW S, IsFiniteSet(S)
  PROVE  \E g : Sums(g, f, S)
<1>. DEFINE bad == {s \in SUBSET S : ~\E g : Sums(g, f, s)}
<1>. SUFFICES ASSUME bad # {} PROVE FALSE
  OBVIOUS
<1>1. PICK s \in bad : \A t \in bad : ~(t \subseteq s /\ t # s)
  <2>1. bad \subseteq SUBSET S
    OBVIOUS
  <2>. HIDE DEF bad
  <2>. QED
    BY <2>1, SmallestSubset
<1>. DEFINE below(t) == SumFunctionOnSet(f, t)
            g == [t \in SUBSET s |-> IF t = {} THEN 0 ELSE f[Pick(t)] + below(t \ {Pick(t)})]
<1>2. ASSUME NEW t, t \subseteq s, t # s
      PROVE  Sums(CHOOSE h : Sums(h, f, t), f, t)
  <2>1. \E h : Sums(h, f, t)
    BY <1>1, <1>2
  <2>. QED
    BY <2>1
<1>3. ASSUME NEW t \in SUBSET s, t # s PROVE g[t] = below(t)
  <2>. DEFINE h == CHOOSE h : Sums(h, f, t)
              r == t \ {Pick(t)}
  <2>1. Sums(h, f, t) /\ below(t) = h[t]
    BY <1>2, <1>3, SumIs
  <2>2. h[t] = IF t = {} THEN 0 ELSE f[Pick(t)] + h[r]
    BY <2>1 DEF Sums
  <2>3. CASE t = {}
    BY <2>1, <2>2, <2>3
  <2>4. CASE t # {}
    <3>. DEFINE k == CHOOSE k : Sums(k, f, r)
    <3>1. r \subseteq s /\ r # s /\ IsFiniteSet(r) /\ r \subseteq t
      BY <1>3, FS_Subset
    <3>2. Sums(k, f, r) /\ below(r) = k[r]
      BY <1>2, <3>1, SumIs
    <3>3. h[r] = k[r]
      BY <2>1, <3>1, <3>2, SumsAgree
    <3>. QED
      BY <2>1, <2>2, <2>4, <3>2, <3>3
  <2>. QED
    BY <2>3, <2>4
<1>4. ASSUME NEW t \in SUBSET s, t # {}
      PROVE  g[t \ {Pick(t)}] = below(t \ {Pick(t)})
  <2>1. t \ {Pick(t)} \in SUBSET s /\ t \ {Pick(t)} # s
    BY <1>4, PickIn
  <2>. QED
    BY <1>3, <2>1
<1>5. Sums(g, f, s)
  BY <1>4, Zenon DEF Sums
<1>. QED
  BY <1>1, <1>5

LEMMA SumEquation ==
  ASSUME NEW f, NEW S, IsFiniteSet(S)
  PROVE  SumFunctionOnSet(f, S) =
           IF S = {} THEN 0 ELSE f[Pick(S)] + SumFunctionOnSet(f, S \ {Pick(S)})
<1>. DEFINE T == S \ {Pick(S)}
            g == CHOOSE g : Sums(g, f, S)
            h == CHOOSE h : Sums(h, f, T)
<1>1. IsFiniteSet(T)
  BY FS_Subset
<1>2. Sums(g, f, S) /\ Sums(h, f, T)
  BY <1>1, SumsExist
<1>3. g[S] = IF S = {} THEN 0 ELSE f[Pick(S)] + g[T]
  BY <1>2 DEF Sums
<1>4. g[T] = h[T]
  BY <1>1, <1>2, SumsAgree
<1>. QED
  BY <1>3, <1>4, SumIs

--------------------------------------------------------------------------------
LEMMA SumEmpty == ASSUME NEW f PROVE SumFunctionOnSet(f, {}) = 0
  BY SumEquation, FS_EmptySet

LEMMA SumInt ==
  ASSUME NEW f, NEW S, Summable(f, S)
  PROVE  SumFunctionOnSet(f, S) \in Int
<1>. DEFINE bad == {s \in SUBSET S : SumFunctionOnSet(f, s) \notin Int}
<1>. SUFFICES ASSUME bad # {} PROVE FALSE
  OBVIOUS
<1>1. PICK s \in bad : \A t \in bad : ~(t \subseteq s /\ t # s)
  <2>1. bad \subseteq SUBSET S /\ IsFiniteSet(S)
    BY DEF Summable
  <2>. HIDE DEF bad
  <2>. QED
    BY <2>1, SmallestSubset
<1>2. /\ SumFunctionOnSet(f, s) =
           IF s = {} THEN 0 ELSE f[Pick(s)] + SumFunctionOnSet(f, s \ {Pick(s)})
      /\ s # {} => Pick(s) \in s
  BY FS_Subset, SumEquation, PickIn DEF Summable
<1>3. s # {} => f[Pick(s)] \in Int /\ SumFunctionOnSet(f, s \ {Pick(s)}) \in Int
  BY <1>1, <1>2 DEF Summable
<1>. QED
  BY <1>1, <1>2, <1>3

LEMMA SummableSubset ==
  ASSUME NEW f, NEW S, Summable(f, S), NEW T, T \subseteq S
  PROVE  Summable(f, T)
  BY FS_Subset DEF Summable

\* Any element may be taken first.
LEMMA SumRemove ==
  ASSUME NEW f, NEW S, Summable(f, S), NEW x \in S
  PROVE  SumFunctionOnSet(f, S) = f[x] + SumFunctionOnSet(f, S \ {x})
<1>. DEFINE sum(s) == SumFunctionOnSet(f, s)
            bad == {s \in SUBSET S : \E y \in s : sum(s) # f[y] + sum(s \ {y})}
<1>. SUFFICES ASSUME bad # {} PROVE FALSE
  OBVIOUS
<1>1. PICK s \in bad : \A t \in bad : ~(t \subseteq s /\ t # s)
  <2>1. bad \subseteq SUBSET S /\ IsFiniteSet(S)
    BY DEF Summable
  <2>. HIDE DEF bad
  <2>. QED
    BY <2>1, SmallestSubset
<1>2. PICK y \in s : sum(s) # f[y] + sum(s \ {y})
  OBVIOUS
<1>. DEFINE z == Pick(s)
            s1 == s \ {z}
            s2 == s \ {y}
            s3 == (s \ {z}) \ {y}
<1>3. z \in s
  BY <1>2, PickIn
<1>4. sum(s) = f[z] + sum(s1)
  BY <1>2, FS_Subset, SumEquation DEF Summable
<1>5. z # y
  BY <1>2, <1>4
<1>6. sum(s1) = f[y] + sum(s3)
  <2>1. s1 \notin bad /\ s1 \in SUBSET S /\ y \in s1
    BY <1>1, <1>3, <1>5
  <2>. QED
    BY <2>1
<1>7. sum(s2) = f[z] + sum(s3)
  <2>1. s2 \notin bad /\ s2 \in SUBSET S /\ z \in s2
    BY <1>1, <1>3, <1>5
  <2>2. s2 \ {z} = s3
    OBVIOUS
  <2>. QED
    BY <2>1, <2>2
<1>8. f[y] \in Int /\ f[z] \in Int /\ sum(s3) \in Int
  <2>1. Summable(f, s3)
    BY SummableSubset
  <2>. QED
    BY <1>2, <1>3, <2>1, SumInt DEF Summable
<1>9. sum(s) = f[y] + sum(s2)
  <2>. HIDE DEF sum, s1, s2, s3, z
  <2>. QED
    BY <1>4, <1>6, <1>7, <1>8
<1>. QED
  BY <1>2, <1>9

LEMMA SumAdd ==
  ASSUME NEW f, NEW S, Summable(f, S), NEW x, x \notin S, f[x] \in Int
  PROVE  SumFunctionOnSet(f, S \cup {x}) = f[x] + SumFunctionOnSet(f, S)
<1>1. Summable(f, S \cup {x})
  BY FS_AddElement DEF Summable
<1>2. (S \cup {x}) \ {x} = S
  OBVIOUS
<1>. QED
  BY <1>1, <1>2, SumRemove

\* Sums over sets with no common element.
LEMMA SumUnion ==
  ASSUME NEW f, NEW S, NEW T, S \cap T = {}, Summable(f, S), Summable(f, T)
  PROVE  SumFunctionOnSet(f, S \cup T) = SumFunctionOnSet(f, S) + SumFunctionOnSet(f, T)
<1>. DEFINE sum(s) == SumFunctionOnSet(f, s)
            bad == {s \in SUBSET S : sum(s \cup T) # sum(s) + sum(T)}
<1>. SUFFICES ASSUME bad # {} PROVE FALSE
  OBVIOUS
<1>1. PICK s \in bad : \A t \in bad : ~(t \subseteq s /\ t # s)
  <2>1. bad \subseteq SUBSET S /\ IsFiniteSet(S)
    BY DEF Summable
  <2>. HIDE DEF bad
  <2>. QED
    BY <2>1, SmallestSubset
<1>2. sum(T) \in Int
  BY SumInt
<1>3. s # {}
  BY <1>2, SumEmpty
<1>4. PICK x \in s : TRUE
  BY <1>3
<1>. DEFINE s1 == s \ {x}
<1>5. sum(s1 \cup T) = sum(s1) + sum(T)
  BY <1>1, <1>4
<1>6. Summable(f, s) /\ Summable(f, s1) /\ Summable(f, s \cup T) /\ f[x] \in Int
  <2>1. Summable(f, s) /\ Summable(f, s1)
    BY SummableSubset
  <2>. QED
    BY <1>4, <2>1, FS_Union DEF Summable
<1>7. sum(s) = f[x] + sum(s1)
  BY <1>4, <1>6, SumRemove
<1>8. sum(s \cup T) = f[x] + sum(s1 \cup T)
  <2>1. (s \cup T) \ {x} = s1 \cup T
    BY <1>4
  <2>. QED
    BY <1>4, <1>6, <2>1, SumRemove
<1>9. sum(s1) \in Int
  BY <1>6, SumInt
<1>10. sum(s \cup T) = sum(s) + sum(T)
  <2>. HIDE DEF sum, s1
  <2>. QED
    BY <1>2, <1>5, <1>6, <1>7, <1>8, <1>9
<1>. QED
  BY <1>10

\* One sum is at most another if each of its terms is.
LEMMA SumLeq ==
  ASSUME NEW f, NEW g, NEW S, Summable(f, S), Summable(g, S), \A x \in S : f[x] <= g[x]
  PROVE  SumFunctionOnSet(f, S) <= SumFunctionOnSet(g, S)
<1>. DEFINE sum(s) == SumFunctionOnSet(f, s)
            top(s) == SumFunctionOnSet(g, s)
            bad == {s \in SUBSET S : ~(sum(s) <= top(s))}
<1>. SUFFICES ASSUME bad # {} PROVE FALSE
  OBVIOUS
<1>1. PICK s \in bad : \A t \in bad : ~(t \subseteq s /\ t # s)
  <2>1. bad \subseteq SUBSET S /\ IsFiniteSet(S)
    BY DEF Summable
  <2>. HIDE DEF bad
  <2>. QED
    BY <2>1, SmallestSubset
<1>2. s # {}
  BY SumEmpty
<1>3. PICK x \in s : TRUE
  BY <1>2
<1>4. sum(s \ {x}) <= top(s \ {x})
  BY <1>1, <1>3
<1>5. /\ Summable(f, s) /\ Summable(f, s \ {x})
      /\ Summable(g, s) /\ Summable(g, s \ {x})
  BY SummableSubset
<1>6. /\ sum(s) = f[x] + sum(s \ {x}) /\ top(s) = g[x] + top(s \ {x})
      /\ sum(s \ {x}) \in Int /\ top(s \ {x}) \in Int
      /\ f[x] \in Int /\ g[x] \in Int /\ f[x] <= g[x]
  BY <1>3, <1>5, SumRemove, SumInt DEF Summable
<1>7. sum(s) <= top(s)
  <2>. HIDE DEF sum, top
  <2>. QED
    BY <1>4, <1>6
<1>. QED
  BY <1>7

LEMMA SumSame ==
  ASSUME NEW f, NEW g, NEW S, Summable(f, S), \A x \in S : f[x] = g[x]
  PROVE  SumFunctionOnSet(f, S) = SumFunctionOnSet(g, S)
<1>1. Summable(g, S) /\ \A x \in S : f[x] <= g[x] /\ g[x] <= f[x]
  BY DEF Summable
<1>2. /\ SumFunctionOnSet(f, S) <= SumFunctionOnSet(g, S)
      /\ SumFunctionOnSet(g, S) <= SumFunctionOnSet(f, S)
      /\ SumFunctionOnSet(f, S) \in Int /\ SumFunctionOnSet(g, S) \in Int
  BY <1>1, SumLeq, SumInt
<1>. QED
  BY <1>2

\* The sum of as many terms, each at most c.
LEMMA SumBound ==
  ASSUME NEW f, NEW S, Summable(f, S), NEW c \in Int, \A x \in S : f[x] <= c
  PROVE  SumFunctionOnSet(f, S) <= Cardinality(S) * c
<1>. DEFINE sum(s) == SumFunctionOnSet(f, s)
            bad == {s \in SUBSET S : ~(sum(s) <= Cardinality(s) * c)}
<1>. SUFFICES ASSUME bad # {} PROVE FALSE
  BY DEF Summable
<1>1. PICK s \in bad : \A t \in bad : ~(t \subseteq s /\ t # s)
  <2>1. bad \subseteq SUBSET S /\ IsFiniteSet(S)
    BY DEF Summable
  <2>. HIDE DEF bad
  <2>. QED
    BY <2>1, SmallestSubset
<1>2. s # {}
  BY SumEmpty, FS_EmptySet
<1>3. PICK x \in s : TRUE
  BY <1>2
<1>4. sum(s \ {x}) <= Cardinality(s \ {x}) * c
  BY <1>1, <1>3
<1>5. Summable(f, s) /\ Summable(f, s \ {x})
  BY SummableSubset
<1>6. /\ sum(s) = f[x] + sum(s \ {x})
      /\ sum(s \ {x}) \in Int /\ f[x] \in Int /\ f[x] <= c
  BY <1>3, <1>5, SumRemove, SumInt DEF Summable
<1>7. PICK k \in Nat : Cardinality(s) = k + 1 /\ Cardinality(s \ {x}) = k
  <2>1. /\ Cardinality(s \ {x}) = Cardinality(s) - 1
        /\ Cardinality(s) \in Nat /\ Cardinality(s \ {x}) \in Nat
    BY <1>3, <1>5, FS_RemoveElement, FS_CardinalityType DEF Summable
  <2>. QED
    BY <2>1
<1>8. (k + 1) * c = k * c + c /\ k * c \in Int
  OBVIOUS
<1>9. sum(s) <= (k + 1) * c
  <2>1. PICK kc \in Int : kc = k * c /\ (k + 1) * c = kc + c
    BY <1>8
  <2>2. sum(s \ {x}) <= kc
    BY <1>4, <1>7, <2>1
  <2>. HIDE DEF sum
  <2>3. sum(s) <= kc + c
    BY <1>6, <2>2
  <2>. QED
    BY <2>1, <2>3
<1>. QED
  BY <1>7, <1>9

LEMMA SumZero ==
  ASSUME NEW f, NEW S, IsFiniteSet(S), \A x \in S : f[x] = 0
  PROVE  SumFunctionOnSet(f, S) = 0
<1>1. Summable(f, S)
  BY DEF Summable
<1>2. \A s \in SUBSET S : SumFunctionOnSet(f, s) = 0
  <2>. DEFINE bad == {s \in SUBSET S : SumFunctionOnSet(f, s) # 0}
  <2>. SUFFICES ASSUME bad # {} PROVE FALSE
    OBVIOUS
  <2>1. PICK s \in bad : \A t \in bad : ~(t \subseteq s /\ t # s)
    <3>1. bad \subseteq SUBSET S
      OBVIOUS
    <3>. HIDE DEF bad
    <3>. QED
      BY <3>1, SmallestSubset
  <2>2. s # {}
    BY SumEmpty
  <2>3. PICK x \in s : TRUE
    BY <2>2
  <2>4. SumFunctionOnSet(f, s) = f[x] + SumFunctionOnSet(f, s \ {x}) /\ f[x] = 0
    BY <1>1, <2>3, SummableSubset, SumRemove
  <2>. QED
    BY <2>1, <2>3, <2>4
<1>. QED
  BY <1>2

\* Sums of numbers none of which is negative.
LEMMA SumNat ==
  ASSUME NEW f, NEW S, IsFiniteSet(S), \A x \in S : f[x] \in Nat
  PROVE  SumFunctionOnSet(f, S) \in Nat
<1>. DEFINE zero == [x \in S |-> 0]
<1>1. Summable(f, S) /\ Summable(zero, S) /\ \A x \in S : zero[x] <= f[x]
  BY DEF Summable
<1>2. SumFunctionOnSet(zero, S) <= SumFunctionOnSet(f, S)
  BY <1>1, SumLeq
<1>3. SumFunctionOnSet(zero, S) = 0
  BY <1>1, SumZero
<1>. QED
  BY <1>1, <1>2, <1>3, SumInt

LEMMA SumSubset ==
  ASSUME NEW f, NEW S, IsFiniteSet(S), \A x \in S : f[x] \in Nat, NEW T, T \subseteq S
  PROVE  SumFunctionOnSet(f, T) <= SumFunctionOnSet(f, S)
<1>1. Summable(f, T) /\ Summable(f, S \ T) /\ T \cap (S \ T) = {} /\ T \cup (S \ T) = S
  BY FS_Subset DEF Summable
<1>2. SumFunctionOnSet(f, S) = SumFunctionOnSet(f, T) + SumFunctionOnSet(f, S \ T)
  BY <1>1, SumUnion
<1>3. SumFunctionOnSet(f, T) \in Nat /\ SumFunctionOnSet(f, S \ T) \in Nat
  BY <1>1, SumNat DEF Summable
<1>. QED
  BY <1>2, <1>3

\* The sum of the sums of two functions.
LEMMA SumPlus ==
  ASSUME NEW f, NEW g, NEW h, NEW S, Summable(f, S), Summable(g, S),
         \A x \in S : h[x] = f[x] + g[x]
  PROVE  SumFunctionOnSet(h, S) = SumFunctionOnSet(f, S) + SumFunctionOnSet(g, S)
<1>. DEFINE sum(e, s) == SumFunctionOnSet(e, s)
            bad == {s \in SUBSET S : sum(h, s) # sum(f, s) + sum(g, s)}
<1>. SUFFICES ASSUME bad # {} PROVE FALSE
  OBVIOUS
<1>0. Summable(h, S)
  BY DEF Summable
<1>1. PICK s \in bad : \A t \in bad : ~(t \subseteq s /\ t # s)
  <2>1. bad \subseteq SUBSET S /\ IsFiniteSet(S)
    BY DEF Summable
  <2>. HIDE DEF bad
  <2>. QED
    BY <2>1, SmallestSubset
<1>2. s # {}
  BY SumEmpty
<1>3. PICK x \in s : TRUE
  BY <1>2
<1>. DEFINE t == s \ {x}
<1>4. sum(h, t) = sum(f, t) + sum(g, t)
  BY <1>1, <1>3
<1>5. /\ Summable(f, s) /\ Summable(g, s) /\ Summable(h, s)
      /\ Summable(f, t) /\ Summable(g, t) /\ Summable(h, t)
  BY <1>0, SummableSubset
<1>6. /\ sum(f, s) = f[x] + sum(f, t) /\ sum(g, s) = g[x] + sum(g, t)
      /\ sum(h, s) = h[x] + sum(h, t)
      /\ sum(f, t) \in Int /\ sum(g, t) \in Int /\ sum(h, t) \in Int
      /\ f[x] \in Int /\ g[x] \in Int /\ h[x] = f[x] + g[x]
  BY <1>3, <1>5, SumRemove, SumInt DEF Summable
<1>7. sum(h, s) = sum(f, s) + sum(g, s)
  <2>. HIDE DEF sum, t
  <2>. QED
    BY <1>4, <1>6
<1>. QED
  BY <1>7

\* A sum may be taken part by part, a part for each value of key.
LEMMA SumByKey ==
  ASSUME NEW f, NEW S, Summable(f, S), NEW K, IsFiniteSet(K), NEW key,
         \A x \in S : key[x] \in K,
         NEW part, \A k \in K : part[k] \subseteq S /\ \A x \in S : x \in part[k] <=> key[x] = k,
         NEW g, \A k \in K : g[k] = SumFunctionOnSet(f, part[k])
  PROVE  SumFunctionOnSet(g, K) = SumFunctionOnSet(f, S)
<1>. DEFINE parts(B) == {x \in S : key[x] \in B}
            bad == {B \in SUBSET K : SumFunctionOnSet(g, B) # SumFunctionOnSet(f, parts(B))}
<1>1. Summable(g, K)
  <2>1. \A k \in K : SumFunctionOnSet(f, part[k]) \in Int
    <3>1. \A k \in K : Summable(f, part[k])
      BY SummableSubset
    <3>. QED
      BY <3>1, SumInt
  <2>. QED
    BY <2>1 DEF Summable
<1>2. bad = {}
  <2>. SUFFICES ASSUME bad # {} PROVE FALSE
    OBVIOUS
  <2>1. PICK B \in bad : \A C \in bad : ~(C \subseteq B /\ C # B)
    <3>1. bad \subseteq SUBSET K
      OBVIOUS
    <3>. HIDE DEF bad
    <3>. QED
      BY <3>1, SmallestSubset
  <2>2. B # {}
    <3>1. parts({}) = {}
      OBVIOUS
    <3>2. SumFunctionOnSet(g, {}) = 0 /\ SumFunctionOnSet(f, parts({})) = 0
      BY <3>1, SumEmpty
    <3>3. SumFunctionOnSet(g, B) # SumFunctionOnSet(f, parts(B))
      BY <2>1
    <3>. HIDE DEF parts, bad
    <3>. QED
      BY <3>2, <3>3
  <2>3. PICK k \in B : TRUE
    BY <2>2
  <2>4. SumFunctionOnSet(g, B \ {k}) = SumFunctionOnSet(f, parts(B \ {k}))
    BY <2>1, <2>3
  <2>5. SumFunctionOnSet(g, B) = g[k] + SumFunctionOnSet(g, B \ {k})
    <3>1. Summable(g, B)
      BY <1>1, SummableSubset
    <3>. QED
      BY <2>3, <3>1, SumRemove
  <2>6. /\ parts(B) = part[k] \cup parts(B \ {k})
        /\ part[k] \cap parts(B \ {k}) = {}
    BY <2>3
  <2>7. SumFunctionOnSet(f, parts(B)) =
          SumFunctionOnSet(f, part[k]) + SumFunctionOnSet(f, parts(B \ {k}))
    <3>2. part[k] \subseteq S /\ parts(B \ {k}) \subseteq S
      BY <2>3
    <3>1. Summable(f, part[k]) /\ Summable(f, parts(B \ {k}))
      BY <3>2, SummableSubset
    <3>3. SumFunctionOnSet(f, part[k] \cup parts(B \ {k}))
            = SumFunctionOnSet(f, part[k]) + SumFunctionOnSet(f, parts(B \ {k}))
      <4>1. PICK X, Y : X = part[k] /\ Y = parts(B \ {k})
        OBVIOUS
      <4>2. Summable(f, X) /\ Summable(f, Y) /\ X \cap Y = {}
        BY <2>6, <3>1, <4>1
      <4>. HIDE DEF parts, bad
      <4>3. SumFunctionOnSet(f, X \cup Y) = SumFunctionOnSet(f, X) + SumFunctionOnSet(f, Y)
        BY <4>2, SumUnion
      <4>. QED
        BY <4>1, <4>3
    <3>. QED
      BY <2>6, <3>3
  <2>8. g[k] = SumFunctionOnSet(f, part[k])
    BY <2>3
  <2>. QED
    BY <2>4, <2>5, <2>7, <2>8
<1>3. parts(K) = S
  OBVIOUS
<1>4. SumFunctionOnSet(g, K) = SumFunctionOnSet(f, parts(K))
  BY <1>2
<1>. QED
  BY <1>3, <1>4

\* A finite set of integers has a maximum.
LEMMA MaxIs ==
  ASSUME NEW S, IsFiniteSet(S), S # {}, \A x \in S : x \in Int
  PROVE  Max(S) \in S /\ \A x \in S : x <= Max(S)
<1>. DEFINE bad == {s \in SUBSET S : s # {} /\ \A x \in s : \E y \in s : ~(x >= y)}
<1>1. ASSUME bad # {} PROVE FALSE
  <2>1. PICK s \in bad : \A t \in bad : ~(t \subseteq s /\ t # s)
    <3>1. bad \subseteq SUBSET S
      OBVIOUS
    <3>. HIDE DEF bad
    <3>. QED
      BY <1>1, <3>1, SmallestSubset
  <2>2. PICK x \in s : TRUE
    OBVIOUS
  <2>3. CASE s \ {x} = {}
    BY <2>1, <2>2, <2>3
  <2>4. CASE s \ {x} # {}
    <3>1. s \ {x} \notin bad /\ s \ {x} \in SUBSET S
      BY <2>1, <2>2
    <3>2. PICK y \in s \ {x} : \A z \in s \ {x} : y >= z
      BY <2>4, <3>1
    <3>3. \A z \in s : z \in Int
      BY <2>1
    <3>4. CASE x >= y
      BY <2>1, <2>2, <3>2, <3>3, <3>4
    <3>5. CASE y >= x
      BY <2>1, <2>2, <3>2, <3>3, <3>5
    <3>. QED
      BY <2>2, <3>2, <3>3, <3>4, <3>5
  <2>. QED
    BY <2>3, <2>4
<1>2. \E x \in S : \A y \in S : x >= y
  BY <1>1
<1>3. Max(S) \in S /\ \A y \in S : Max(S) >= y
  BY <1>2 DEF Max
<1>. QED
  BY <1>3
================================================================================
