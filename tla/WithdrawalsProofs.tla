--------------------------- MODULE WithdrawalsProofs ---------------------------
(***************************************************************************)
(* Theorems about the sums the book keeps of its orders and the ranking of *)
(* the members, for every set of kinds of orders, firms and phases: first  *)
(* what a sum over a finite set is, then what orders that come, go and     *)
(* change do to it.                                                        *)
(***************************************************************************)
EXTENDS Withdrawals, WellFoundedInduction, FiniteSetTheorems, SequenceTheorems, TLAPS

(***************************************************************************)
(* Sums of a function over a finite set.  The library defines them by      *)
(* taking out one chosen element after another.                            *)
(***************************************************************************)

\* Of the subsets of a finite set that have a fault, one has no smaller one with it.
LEMMA SmallestSubset ==
  ASSUME NEW S, IsFiniteSet(S), NEW Bad, Bad \subseteq SUBSET S, Bad # {}
  PROVE  \E T \in Bad : \A U \in Bad : U \subseteq T => U = T
<1>1. IsWellFoundedOn(StrictSubsetOrdering(S), SUBSET S)
  BY FS_StrictSubsetOrderingWellFounded, FS_FiniteSubsetsOfFinite
<1>2. PICK T \in Bad : \A U \in Bad : <<U, T>> \notin StrictSubsetOrdering(S)
  BY <1>1, WFMin, Zenon
<1>3. ASSUME NEW U \in Bad, U \subseteq T, U # T PROVE FALSE
  <2>1. <<U, T>> \in (SUBSET S) \X (SUBSET S)
    OBVIOUS
  <2>2. <<U, T>> \in StrictSubsetOrdering(S)
    BY <1>3, <2>1 DEF StrictSubsetOrdering
  <2>3. QED
    BY <1>2, <2>2
<1>4. QED
  BY <1>2, <1>3

Pick(s) == CHOOSE x \in s : TRUE

\* g sums f over every subset of S.
SumsUp(f, S, g) == g = [s \in SUBSET S |-> IF s = {} THEN 0 ELSE f[Pick(s)] + g[s \ {Pick(s)}]]

LEMMA SumChosen ==
  ASSUME NEW f, NEW S
  PROVE  SumFunctionOnSet(f, S) = (CHOOSE g : SumsUp(f, S, g))[S]
BY DEF SumFunctionOnSet, FoldFunctionOnSet, MapThenFoldSet, SumsUp, Pick

\* Two such functions agree where both are defined.
LEMMA SumsAgree ==
  ASSUME NEW f, NEW S, NEW T, NEW g, NEW h, SumsUp(f, S, g), SumsUp(f, T, h),
         NEW U, IsFiniteSet(U), U \subseteq S, U \subseteq T
  PROVE  g[U] = h[U]
<1> DEFINE Bad == {V \in SUBSET U : g[V] # h[V]}
<1>1. SUFFICES ASSUME U \in Bad PROVE FALSE
  OBVIOUS
<1>2. PICK V \in Bad : \A W \in Bad : W \subseteq V => W = V
  <2>1. Bad \subseteq SUBSET U /\ Bad # {}
    BY <1>1
  <2> HIDE DEF Bad
  <2>2. QED
    BY <2>1, SmallestSubset
<1>3. CASE V = {}
  BY <1>2, <1>3 DEF SumsUp
<1>4. CASE V # {}
  <2>1. Pick(V) \in V
    BY <1>4 DEF Pick
  <2>2. V \ {Pick(V)} \notin Bad /\ V \ {Pick(V)} \in SUBSET U
    BY <1>2, <2>1
  <2>3. g[V \ {Pick(V)}] = h[V \ {Pick(V)}]
    BY <2>2
  <2>4. V \in SUBSET S /\ V \in SUBSET T
    BY <1>2
  <2>5. g[V] = f[Pick(V)] + g[V \ {Pick(V)}]
    BY <1>4, <2>4 DEF SumsUp
  <2>6. h[V] = f[Pick(V)] + h[V \ {Pick(V)}]
    BY <1>4, <2>4 DEF SumsUp
  <2>7. QED
    BY <1>2, <2>3, <2>5, <2>6
<1>5. QED
  BY <1>3, <1>4

\* What the sum over one set has to do with the sum over a smaller one, where both exist.
LEMMA SumUnfolds ==
  ASSUME NEW f, NEW S, NEW T, NEW g, NEW h,
         IsFiniteSet(S), T \subseteq S, SumsUp(f, S, g), SumsUp(f, T, h)
  PROVE  /\ SumFunctionOnSet(f, T) = g[T]
         /\ g[T] = IF T = {} THEN 0 ELSE f[Pick(T)] + g[T \ {Pick(T)}]
<1>1. SumsUp(f, T, CHOOSE k : SumsUp(f, T, k))
  OBVIOUS
<1>2. IsFiniteSet(T)
  BY FS_Subset
<1>3. (CHOOSE k : SumsUp(f, T, k))[T] = g[T]
  BY <1>1, <1>2, SumsAgree
<1>4. QED
  BY <1>3, SumChosen DEF SumsUp

LEMMA SumOfWhole ==
  ASSUME NEW f, NEW S, NEW g, IsFiniteSet(S), SumsUp(f, S, g)
  PROVE  /\ SumFunctionOnSet(f, S) = g[S]
         /\ g[S] = IF S = {} THEN 0 ELSE f[Pick(S)] + g[S \ {Pick(S)}]
<1>1. SumsUp(f, S, CHOOSE k : SumsUp(f, S, k))
  OBVIOUS
<1>2. (CHOOSE k : SumsUp(f, S, k))[S] = g[S]
  <2>1. PICK k : SumsUp(f, S, k) /\ k = CHOOSE h : SumsUp(f, S, h)
    BY <1>1
  <2>2. S \subseteq S
    OBVIOUS
  <2>3. k[S] = g[S]
    BY <2>1, <2>2, SumsAgree
  <2>4. QED
    BY <2>1, <2>3
<1>3. QED
  BY <1>2, SumChosen DEF SumsUp

\* Every function can be summed over every finite set.
LEMMA SumExists ==
  ASSUME NEW f, NEW S, IsFiniteSet(S)
  PROVE  \E g : SumsUp(f, S, g)
<1> DEFINE Bad == {T \in SUBSET S : ~\E g : SumsUp(f, T, g)}
<1>1. SUFFICES ASSUME S \in Bad PROVE FALSE
  OBVIOUS
<1>2. PICK T \in Bad : \A U \in Bad : U \subseteq T => U = T
  <2>1. Bad \subseteq SUBSET S /\ Bad # {}
    BY <1>1
  <2> HIDE DEF Bad
  <2>2. QED
    BY <2>1, SmallestSubset
<1>3. IsFiniteSet(T)
  BY <1>2, FS_Subset
<1> DEFINE sum(s) == SumFunctionOnSet(f, s)
           whole(s) == IF s = {} THEN 0 ELSE f[Pick(s)] + sum(s \ {Pick(s)})
           g == [s \in SUBSET T |-> whole(s)]
<1>4. ASSUME NEW s \in SUBSET T, s # T PROVE sum(s) = whole(s)
  <2>1. s \notin Bad /\ s \in SUBSET S
    BY <1>2, <1>4
  <2>2. PICK h : SumsUp(f, s, h)
    BY <2>1
  <2>3. IsFiniteSet(s)
    BY <1>3, FS_Subset
  <2>4. sum(s) = h[s] /\ h[s] = IF s = {} THEN 0 ELSE f[Pick(s)] + h[s \ {Pick(s)}]
    <3> HIDE DEF Bad, whole, g
    <3>1. QED
      BY <2>2, <2>3, SumOfWhole
  <2>5. CASE s # {}
    <3>1. Pick(s) \in s
      BY <2>5 DEF Pick
    <3>2. s \ {Pick(s)} \notin Bad /\ s \ {Pick(s)} \in SUBSET S
      BY <1>2, <1>4, <3>1
    <3>3. PICK k : SumsUp(f, s \ {Pick(s)}, k)
      BY <3>2
    <3>4. sum(s \ {Pick(s)}) = h[s \ {Pick(s)}]
      <4> DEFINE r == s \ {Pick(s)}
      <4>1. r \subseteq s /\ SumsUp(f, r, k)
        BY <3>3
      <4> HIDE DEF Bad, whole, g, r
      <4>2. SumFunctionOnSet(f, r) = h[r]
        BY <2>2, <2>3, <4>1, SumUnfolds
      <4>3. QED
        BY <4>2 DEF r
    <3>5. QED
      BY <2>4, <2>5, <3>4
  <2>6. QED
    BY <2>4, <2>5
<1>5. ASSUME NEW s \in SUBSET T PROVE g[s] = IF s = {} THEN 0 ELSE f[Pick(s)] + g[s \ {Pick(s)}]
  <2>1. g[s] = whole(s)
    OBVIOUS
  <2>2. CASE s # {}
    <3>1. Pick(s) \in s
      BY <2>2 DEF Pick
    <3>2. s \ {Pick(s)} \in SUBSET T /\ s \ {Pick(s)} # T
      BY <3>1
    <3>3. g[s \ {Pick(s)}] = whole(s \ {Pick(s)}) /\ sum(s \ {Pick(s)}) = whole(s \ {Pick(s)})
      BY <1>4, <3>2
    <3>4. QED
      BY <2>1, <2>2, <3>3
  <2>3. QED
    BY <2>1, <2>2
<1>6. SumsUp(f, T, g)
  <2>1. g = [s \in SUBSET T |-> g[s]]
    OBVIOUS
  <2> HIDE DEF g
  <2>2. QED
    BY <1>5, <2>1 DEF SumsUp
<1>7. QED
  BY <1>2, <1>6

\* The sum meets its own equation: an element that was chosen, and the rest.
LEMMA SumStep ==
  ASSUME NEW f, NEW S, IsFiniteSet(S), S # {}
  PROVE  SumFunctionOnSet(f, S) = f[Pick(S)] + SumFunctionOnSet(f, S \ {Pick(S)}) /\ Pick(S) \in S
<1>1. IsFiniteSet(S \ {Pick(S)})
  BY FS_RemoveElement
<1>2. PICK g : SumsUp(f, S, g)
  BY SumExists
<1>3. PICK h : SumsUp(f, S \ {Pick(S)}, h)
  BY <1>1, SumExists
<1> DEFINE T == S \ {Pick(S)}
<1>4. T \subseteq S /\ SumsUp(f, T, h)
  BY <1>3
<1> HIDE DEF T
<1>5. SumFunctionOnSet(f, T) = g[T]
  BY <1>2, <1>4, SumUnfolds
<1>6. SumFunctionOnSet(f, S) = g[S] /\ g[S] = f[Pick(S)] + g[S \ {Pick(S)}]
  <2>1. /\ SumFunctionOnSet(f, S) = g[S]
        /\ g[S] = IF S = {} THEN 0 ELSE f[Pick(S)] + g[S \ {Pick(S)}]
    BY <1>2, SumOfWhole
  <2>2. QED
    BY <2>1
<1>7. QED
  BY <1>5, <1>6 DEF Pick, T

LEMMA SumEmpty ==
  ASSUME NEW f
  PROVE  SumFunctionOnSet(f, {}) = 0
<1>1. PICK g : SumsUp(f, {}, g)
  BY SumExists, FS_EmptySet
<1>2. QED
  BY <1>1, SumUnfolds, FS_EmptySet

LEMMA SumType ==
  ASSUME NEW f, NEW S, IsFiniteSet(S), \A x \in S : f[x] \in Int
  PROVE  SumFunctionOnSet(f, S) \in Int
<1> DEFINE Bad == {T \in SUBSET S : SumFunctionOnSet(f, T) \notin Int}
<1>1. SUFFICES ASSUME Bad # {} PROVE FALSE
  OBVIOUS
<1>2. PICK T \in Bad : \A U \in Bad : U \subseteq T => U = T
  <2>1. Bad \subseteq SUBSET S
    OBVIOUS
  <2> HIDE DEF Bad
  <2>2. QED
    BY <1>1, <2>1, SmallestSubset
<1>3. T # {} /\ IsFiniteSet(T)
  <2>1. SumFunctionOnSet(f, {}) \in Int
    BY SumEmpty
  <2>2. QED
    BY <1>2, <2>1, FS_Subset
<1>4. SumFunctionOnSet(f, T) = f[Pick(T)] + SumFunctionOnSet(f, T \ {Pick(T)}) /\ Pick(T) \in T
  BY <1>3, SumStep
<1>5. T \ {Pick(T)} \notin Bad /\ T \ {Pick(T)} \in SUBSET S
  BY <1>2, <1>4
<1>6. QED
  BY <1>2, <1>4, <1>5

\* Any element may be taken out first.
LEMMA SumRemove ==
  ASSUME NEW f, NEW S, IsFiniteSet(S), \A x \in S : f[x] \in Int, NEW y \in S
  PROVE  SumFunctionOnSet(f, S) = f[y] + SumFunctionOnSet(f, S \ {y})
<1> DEFINE sum(s) == SumFunctionOnSet(f, s)
           Bad == {T \in SUBSET S : \E x \in T : sum(T) # f[x] + sum(T \ {x})}
<1>1. SUFFICES ASSUME Bad # {} PROVE FALSE
  OBVIOUS
<1>2. PICK T \in Bad : \A U \in Bad : U \subseteq T => U = T
  <2>1. Bad \subseteq SUBSET S
    OBVIOUS
  <2> HIDE DEF Bad
  <2>2. QED
    BY <1>1, <2>1, SmallestSubset
<1>3. PICK x \in T : sum(T) # f[x] + sum(T \ {x})
  BY <1>2
<1>4. \A U \in SUBSET T : IsFiniteSet(U) /\ sum(U) \in Int
  <2> SUFFICES ASSUME NEW U \in SUBSET T PROVE IsFiniteSet(U) /\ sum(U) \in Int
    OBVIOUS
  <2>1. U \in SUBSET S
    BY <1>2
  <2>2. IsFiniteSet(U) /\ \A z \in U : f[z] \in Int
    BY <2>1, FS_Subset
  <2>3. QED
    BY <2>2, SumType
<1> DEFINE p == Pick(T)
<1>5. sum(T) = f[p] + sum(T \ {p}) /\ p \in T
  BY <1>3, <1>4, SumStep
<1>6. x # p
  BY <1>3, <1>5
<1> HIDE DEF sum, p
<1>7. sum(T \ {p}) = f[x] + sum((T \ {p}) \ {x})
  <2>1. T \ {p} \in SUBSET S /\ T \ {p} # T /\ x \in T \ {p}
    BY <1>2, <1>5, <1>6
  <2>2. QED
    BY <1>2, <2>1
<1>8. sum(T \ {x}) = f[p] + sum((T \ {x}) \ {p})
  <2>1. T \ {x} \in SUBSET S /\ T \ {x} # T /\ p \in T \ {x}
    BY <1>2, <1>5, <1>6
  <2>2. QED
    BY <1>2, <2>1
<1>9. (T \ {p}) \ {x} = (T \ {x}) \ {p} /\ f[x] \in Int /\ f[p] \in Int
  BY <1>2, <1>5
<1>10. sum((T \ {p}) \ {x}) \in Int
  BY <1>4
<1>11. QED
  <2>1. PICK a \in Int : sum((T \ {p}) \ {x}) = a /\ sum((T \ {x}) \ {p}) = a
    BY <1>9, <1>10
  <2>2. sum(T) = f[p] + (f[x] + a) /\ sum(T \ {x}) = f[p] + a
    BY <1>5, <1>7, <1>8, <2>1
  <2>3. f[p] + (f[x] + a) = f[x] + (f[p] + a)
    BY <1>9
  <2>4. QED
    BY <1>3, <2>2, <2>3

\* Functions with the same values on a set have the same sum over it.
LEMMA SumSame ==
  ASSUME NEW f, NEW g, NEW S, IsFiniteSet(S), \A x \in S : f[x] = g[x]
  PROVE  SumFunctionOnSet(f, S) = SumFunctionOnSet(g, S)
<1> DEFINE Bad == {T \in SUBSET S : SumFunctionOnSet(f, T) # SumFunctionOnSet(g, T)}
<1>1. SUFFICES ASSUME Bad # {} PROVE FALSE
  OBVIOUS
<1>2. PICK T \in Bad : \A U \in Bad : U \subseteq T => U = T
  <2>1. Bad \subseteq SUBSET S
    OBVIOUS
  <2> HIDE DEF Bad
  <2>2. QED
    BY <1>1, <2>1, SmallestSubset
<1>3. T # {} /\ IsFiniteSet(T)
  BY <1>2, SumEmpty, FS_Subset
<1>4. /\ SumFunctionOnSet(f, T) = f[Pick(T)] + SumFunctionOnSet(f, T \ {Pick(T)})
      /\ SumFunctionOnSet(g, T) = g[Pick(T)] + SumFunctionOnSet(g, T \ {Pick(T)})
      /\ Pick(T) \in T
  BY <1>3, SumStep
<1>5. T \ {Pick(T)} \notin Bad /\ T \ {Pick(T)} \in SUBSET S
  BY <1>2, <1>4
<1>6. QED
  BY <1>2, <1>4, <1>5

\* The sum over two sets without a common element.
LEMMA SumUnion ==
  ASSUME NEW f, NEW S, NEW R, IsFiniteSet(S), IsFiniteSet(R), S \cap R = {},
         \A x \in S \cup R : f[x] \in Int
  PROVE  SumFunctionOnSet(f, S \cup R) = SumFunctionOnSet(f, S) + SumFunctionOnSet(f, R)
<1> DEFINE sum(s) == SumFunctionOnSet(f, s)
           Bad == {T \in SUBSET S : sum(T \cup R) # sum(T) + sum(R)}
<1>1. SUFFICES ASSUME Bad # {} PROVE FALSE
  OBVIOUS
<1>2. PICK T \in Bad : \A U \in Bad : U \subseteq T => U = T
  <2>1. Bad \subseteq SUBSET S
    OBVIOUS
  <2> HIDE DEF Bad
  <2>2. QED
    BY <1>1, <2>1, SmallestSubset
<1>3. sum(R) \in Int
  BY SumType
<1>4. T # {}
  <2>1. {} \cup R = R /\ sum({}) = 0
    BY SumEmpty
  <2>2. CASE T = {}
    <3>1. sum(T \cup R) = sum(R) /\ sum(T) = 0
      BY <2>1, <2>2
    <3>2. sum(T \cup R) # sum(T) + sum(R)
      BY <1>2
    <3> HIDE DEF sum
    <3>3. QED
      BY <1>3, <3>1, <3>2
  <2>3. QED
    BY <2>2
<1>5. PICK y \in T : TRUE
  BY <1>4
<1> DEFINE U == T \ {y}
<1>6. U \in SUBSET S /\ U \notin Bad /\ IsFiniteSet(T) /\ IsFiniteSet(U) /\ T \in SUBSET S
  BY <1>2, <1>5, FS_Subset
<1>7. sum(U \cup R) = sum(U) + sum(R)
  BY <1>6
<1>8. sum(T) = f[y] + sum(U)
  BY <1>5, <1>6, SumRemove
<1>9. sum(T \cup R) = f[y] + sum(U \cup R)
  <2>1. IsFiniteSet(T \cup R) /\ y \in T \cup R /\ (\A x \in T \cup R : f[x] \in Int)
        /\ (T \cup R) \ {y} = U \cup R
    BY <1>5, <1>6, FS_Union
  <2> HIDE DEF U
  <2>2. SumFunctionOnSet(f, T \cup R) = f[y] + SumFunctionOnSet(f, (T \cup R) \ {y})
    BY <2>1, SumRemove
  <2>3. QED
    BY <2>1, <2>2
<1>10. sum(U) \in Int /\ f[y] \in Int
  BY <1>5, <1>6, SumType
<1>11. QED
  <2> HIDE DEF sum, U
  <2>1. sum(T \cup R) = sum(T) + sum(R)
    BY <1>3, <1>7, <1>8, <1>9, <1>10
  <2>2. QED
    BY <1>2, <2>1

(***************************************************************************)
(* The orders in the book, as a function from their numbers to their       *)
(* kinds, and what they come to: how many are of some kinds, and the sum   *)
(* of an amount over those.                                                *)
(***************************************************************************)
Holding(K) == IsFiniteSet(DOMAIN K) /\ \A n \in DOMAIN K : K[n] \in Kinds

Inside(K, W) == {n \in DOMAIN K : K[n] \in W}
NumberOf(K, W) == Cardinality(Inside(K, W))
VolumeOf(K, W, am) == SumFunctionOnSet([n \in DOMAIN K |-> am[K[n]]], Inside(K, W))

With(K, n, o) == [m \in DOMAIN K \cup {n} |-> IF m = n THEN o ELSE K[m]]
Without(K, n) == [m \in DOMAIN K \ {n} |-> K[m]]

Amounts == [o \in Kinds |-> Shown(o)]
Balances == [o \in Kinds |-> o.balance]

\* What an order shows and holds is a number.
LEMMA AmountTypes == Amounts \in [Kinds -> Int] /\ Balances \in [Kinds -> Int]
<1>1. \A o \in Kinds : Shown(o) \in Int /\ o.balance \in Int
  BY DEF Shown, Kinds
<1>2. QED
  BY <1>1 DEF Amounts, Balances

LEMMA VolumeType ==
  ASSUME NEW K, NEW W, NEW am, Holding(K), am \in [Kinds -> Int]
  PROVE  /\ IsFiniteSet(Inside(K, W))
         /\ NumberOf(K, W) \in Nat
         /\ VolumeOf(K, W, am) \in Int
<1>1. Inside(K, W) \in SUBSET DOMAIN K
  BY DEF Inside
<1>2. IsFiniteSet(Inside(K, W))
  BY <1>1, FS_Subset DEF Holding
<1>3. \A n \in Inside(K, W) : [m \in DOMAIN K |-> am[K[m]]][n] \in Int
  BY DEF Inside, Holding
<1>4. VolumeOf(K, W, am) \in Int
  BY <1>2, <1>3, SumType DEF VolumeOf
<1>5. NumberOf(K, W) \in Nat
  BY <1>2, FS_CardinalityType DEF NumberOf
<1>6. QED
  BY <1>2, <1>4, <1>5

\* An order that comes in adds itself to what its kind belongs to, and to nothing else.
LEMMA OrderEnters ==
  ASSUME NEW K, NEW W, NEW am, NEW o, NEW n,
         Holding(K), am \in [Kinds -> Int], o \in Kinds, n \notin DOMAIN K
  PROVE  /\ Holding(With(K, n, o))
         /\ NumberOf(With(K, n, o), W) = NumberOf(K, W) + (IF o \in W THEN 1 ELSE 0)
         /\ VolumeOf(With(K, n, o), W, am) = VolumeOf(K, W, am) + (IF o \in W THEN am[o] ELSE 0)
<1> DEFINE L == With(K, n, o)
           f == [m \in DOMAIN K |-> am[K[m]]]
           g == [m \in DOMAIN L |-> am[L[m]]]
           A == Inside(K, W)
           B == Inside(L, W)
<1>1. DOMAIN L = DOMAIN K \cup {n} /\ L[n] = o /\ \A m \in DOMAIN K : L[m] = K[m]
  BY DEF With
<1>2. Holding(L)
  BY <1>1, FS_AddElement DEF Holding
<1>3. IsFiniteSet(A) /\ IsFiniteSet(B) /\ NumberOf(K, W) \in Nat /\ VolumeOf(K, W, am) \in Int
      /\ VolumeOf(L, W, am) \in Int
  BY <1>2, VolumeType
<1>4. n \notin A /\ B = IF o \in W THEN A \cup {n} ELSE A
  BY <1>1 DEF Inside
<1>5. /\ \A m \in A : f[m] = g[m]
      /\ \A m \in B : g[m] \in Int
      /\ g[n] = am[o]
  <2>1. \A m \in DOMAIN K : f[m] = g[m]
    BY <1>1
  <2>2. \A m \in DOMAIN L : g[m] = am[L[m]] /\ L[m] \in Kinds
    BY <1>2 DEF Holding
  <2>3. QED
    BY <1>1, <2>1, <2>2 DEF Inside
<1>6. VolumeOf(K, W, am) = SumFunctionOnSet(f, A) /\ VolumeOf(L, W, am) = SumFunctionOnSet(g, B)
  BY DEF VolumeOf
<1> HIDE DEF L, f, g, A, B
<1>7. SumFunctionOnSet(f, A) = SumFunctionOnSet(g, A)
  BY <1>3, <1>5, SumSame
<1>8. CASE o \in W
  <2>1. Cardinality(B) = Cardinality(A) + 1
    BY <1>3, <1>4, <1>8, FS_AddElement
  <2>2. n \in B /\ B \ {n} = A
    BY <1>4, <1>8
  <2>3. SumFunctionOnSet(g, B) = g[n] + SumFunctionOnSet(g, A)
    BY <1>3, <1>5, <2>2, SumRemove
  <2>4. VolumeOf(L, W, am) = VolumeOf(K, W, am) + am[o]
    BY <1>3, <1>5, <1>6, <1>7, <2>3
  <2>5. QED
    BY <1>2, <1>8, <2>1, <2>4 DEF NumberOf, L, A, B
<1>9. CASE o \notin W
  <2>1. A = B
    BY <1>4, <1>9
  <2>2. VolumeOf(L, W, am) = VolumeOf(K, W, am) + 0
    BY <1>3, <1>6, <1>7, <2>1
  <2>3. NumberOf(L, W) = NumberOf(K, W) + 0
    BY <1>3, <2>1 DEF NumberOf, A, B
  <2>4. QED
    BY <1>2, <1>9, <2>2, <2>3 DEF L
<1>10. QED
  BY <1>8, <1>9

\* And one that leaves takes itself out again.
LEMMA OrderLeaves ==
  ASSUME NEW K, NEW W, NEW am, NEW n,
         Holding(K), am \in [Kinds -> Int], n \in DOMAIN K
  PROVE  /\ Holding(Without(K, n)) /\ n \notin DOMAIN Without(K, n)
         /\ NumberOf(Without(K, n), W) = NumberOf(K, W) - (IF K[n] \in W THEN 1 ELSE 0)
         /\ VolumeOf(Without(K, n), W, am) = VolumeOf(K, W, am) - (IF K[n] \in W THEN am[K[n]] ELSE 0)
<1> DEFINE J == Without(K, n)
           o == K[n]
<1>1. o \in Kinds /\ n \notin DOMAIN J
  BY DEF Holding, Without
<1>2. Holding(J)
  <2>1. DOMAIN J = DOMAIN K \ {n} /\ \A m \in DOMAIN J : J[m] = K[m]
    BY DEF Without
  <2>2. IsFiniteSet(DOMAIN K \ {n})
    BY FS_RemoveElement DEF Holding
  <2>3. QED
    BY <2>1, <2>2 DEF Holding
<1>3. Inside(With(J, n, o), W) = Inside(K, W)
      /\ \A m \in Inside(K, W) : With(J, n, o)[m] = K[m] /\ m \in DOMAIN With(J, n, o) /\ m \in DOMAIN K
  BY DEF With, Without, Inside
<1>4. VolumeOf(With(J, n, o), W, am) = VolumeOf(K, W, am)
  <2>1. IsFiniteSet(Inside(K, W))
    BY VolumeType
  <2>2. \A m \in Inside(K, W) :
          [i \in DOMAIN With(J, n, o) |-> am[With(J, n, o)[i]]][m] = [i \in DOMAIN K |-> am[K[i]]][m]
    BY <1>3
  <2> HIDE DEF J, o
  <2>3. QED
    BY <1>3, <2>1, <2>2, SumSame DEF VolumeOf
<1>5. NumberOf(With(J, n, o), W) = NumberOf(K, W)
  BY <1>3 DEF NumberOf
<1>6. /\ NumberOf(K, W) \in Nat /\ NumberOf(J, W) \in Nat
      /\ VolumeOf(K, W, am) \in Int /\ VolumeOf(J, W, am) \in Int /\ am[o] \in Int
  BY <1>1, <1>2, VolumeType
<1> HIDE DEF J, o
<1>7. /\ NumberOf(With(J, n, o), W) = NumberOf(J, W) + (IF o \in W THEN 1 ELSE 0)
      /\ VolumeOf(With(J, n, o), W, am) = VolumeOf(J, W, am) + (IF o \in W THEN am[o] ELSE 0)
  BY <1>1, <1>2, OrderEnters
<1>8. /\ NumberOf(J, W) = NumberOf(K, W) - (IF o \in W THEN 1 ELSE 0)
      /\ VolumeOf(J, W, am) = VolumeOf(K, W, am) - (IF o \in W THEN am[o] ELSE 0)
  BY <1>4, <1>5, <1>6, <1>7
<1>9. QED
  BY <1>1, <1>2, <1>8 DEF J, o

(***************************************************************************)
(* The stock's sums.  An order counts for its side while its restriction   *)
(* does, and for its side and its restriction at any time.                 *)
(***************************************************************************)
Counted(side, ph) == {o \in Kinds : o.side = side /\ IsTradingPhase(o, ph)}
Tied(side, t) == {o \in Kinds : o.side = side /\ o.type = t}

Entries == [number : Int, amount : Int]
SumTypes == [order : [Side -> Entries], phase : [Types -> [Side -> Entries]]]

\* The stock's sums are those of the orders K: its current sums, and those by restriction.
OrderKept(s, K, ph) ==
  \A side \in Side : s.order[side] =
    [number |-> NumberOf(K, Counted(side, ph)), amount |-> VolumeOf(K, Counted(side, ph), Amounts)]

PhaseKept(s, K) ==
  \A side \in Side, t \in Types : s.phase[t][side] =
    [number |-> NumberOf(K, Tied(side, t)), amount |-> VolumeOf(K, Tied(side, t), Balances)]

Signed(sign, x) == IF sign = 1 THEN x ELSE -x

\* UpdateStockAdd and UpdateStockDel, of an order that counts.
UpdateCounted(s, o, ph, sign) == IF IsTradingPhase(o, ph) THEN UpdateStock(s, o, sign) ELSE s

LEMMA UpdateCountedMoves ==
  ASSUME NEW s \in SumTypes, NEW o \in Kinds, NEW ph, NEW sign \in {1, -1}
  PROVE  /\ UpdateCounted(s, o, ph, sign) \in SumTypes
         /\ UpdateCounted(s, o, ph, sign).phase = s.phase
         /\ \A side \in Side : UpdateCounted(s, o, ph, sign).order[side] =
              [number |-> s.order[side].number + (IF o \in Counted(side, ph) THEN sign ELSE 0),
               amount |-> s.order[side].amount +
                 (IF o \in Counted(side, ph) THEN Signed(sign, Shown(o)) ELSE 0)]
<1> DEFINE e(side) == [number |-> s.order[side].number + sign,
                       amount |-> s.order[side].amount + Signed(sign, Shown(o))]
<1>1. o.side \in Side /\ Shown(o) \in Int
  BY DEF Kinds, Shown
<1>2. \A side \in Side : s.order[side] \in Entries /\ s.order[side] =
        [number |-> s.order[side].number + 0, amount |-> s.order[side].amount + 0]
  BY DEF SumTypes, Entries
<1>3. CASE IsTradingPhase(o, ph)
  <2>1. PICK r \in Entries : r = s.order[o.side]
    BY <1>1, <1>2
  <2>2. e(o.side) \in Entries
    BY <1>1, <2>1 DEF Entries, Signed
  <2>3. sign * Shown(o) = Signed(sign, Shown(o))
    BY <1>1 DEF Signed
  <2>4. UpdateStock(s, o, sign) = [s EXCEPT !.order[o.side] = e(o.side)]
    BY <2>3 DEF UpdateStock
  <2> HIDE DEF e
  <2>5. PICK row : row = [s.order EXCEPT ![o.side] = e(o.side)]
    OBVIOUS
  <2>6. row \in [Side -> Entries] /\ \A side \in Side : row[side] = IF side = o.side THEN e(side) ELSE s.order[side]
    BY <1>1, <2>2, <2>5 DEF SumTypes
  <2>7. UpdateStock(s, o, sign) = [s EXCEPT !.order = row]
    BY <2>4, <2>5 DEF SumTypes
  <2>8. /\ [s EXCEPT !.order = row] \in SumTypes /\ [s EXCEPT !.order = row].order = row
        /\ [s EXCEPT !.order = row].phase = s.phase
    BY <2>6 DEF SumTypes
  <2>9. \A side \in Side : o \in Counted(side, ph) <=> side = o.side
    BY <1>3 DEF Counted
  <2>10. \A side \in Side : row[side] =
           [number |-> s.order[side].number + (IF o \in Counted(side, ph) THEN sign ELSE 0),
            amount |-> s.order[side].amount +
              (IF o \in Counted(side, ph) THEN Signed(sign, Shown(o)) ELSE 0)]
    BY <1>2, <2>6, <2>9 DEF e
  <2>11. UpdateCounted(s, o, ph, sign) = [s EXCEPT !.order = row]
    BY <1>3, <2>7 DEF UpdateCounted
  <2>12. QED
    BY <2>8, <2>10, <2>11
<1>4. CASE ~IsTradingPhase(o, ph)
  <2>1. \A side \in Side : o \notin Counted(side, ph)
    BY <1>4 DEF Counted
  <2>2. UpdateCounted(s, o, ph, sign) = s
    BY <1>4 DEF UpdateCounted
  <2>3. QED
    BY <1>2, <2>1, <2>2
<1>5. QED
  BY <1>3, <1>4

LEMMA StockStatMoves ==
  ASSUME NEW s \in SumTypes, NEW o \in Kinds, NEW sign \in {1, -1}
  PROVE  /\ StockStat(s, o, sign) \in SumTypes
         /\ StockStat(s, o, sign).order = s.order
         /\ \A side \in Side, t \in Types : StockStat(s, o, sign).phase[t][side] =
              [number |-> s.phase[t][side].number + (IF o \in Tied(side, t) THEN sign ELSE 0),
               amount |-> s.phase[t][side].amount +
                 (IF o \in Tied(side, t) THEN Signed(sign, o.balance) ELSE 0)]
<1>1. o.side \in Side /\ o.balance \in Int
  BY DEF Kinds
<1>2. \A side \in Side, t \in Types : s.phase[t][side] \in Entries /\ s.phase[t][side] =
        [number |-> s.phase[t][side].number + 0, amount |-> s.phase[t][side].amount + 0]
  <2> SUFFICES ASSUME NEW side \in Side, NEW t \in Types
               PROVE  s.phase[t][side] \in Entries /\ s.phase[t][side] =
        [number |-> s.phase[t][side].number + 0, amount |-> s.phase[t][side].amount + 0]
    OBVIOUS
  <2>1. PICK e \in Entries : e = s.phase[t][side]
    BY DEF SumTypes
  <2>2. e = [number |-> e.number + 0, amount |-> e.amount + 0]
    BY DEF Entries
  <2>3. QED
    BY <2>1, <2>2
<1>3. CASE o.type \in Types
  <2> DEFINE e == [number |-> s.phase[o.type][o.side].number + sign,
                   amount |-> s.phase[o.type][o.side].amount + Signed(sign, o.balance)]
  <2>1. PICK r \in Entries : r = s.phase[o.type][o.side]
    BY <1>1, <1>2, <1>3
  <2>2. e \in Entries
    BY <1>1, <2>1 DEF Entries, Signed
  <2>3. sign * o.balance = Signed(sign, o.balance)
    BY <1>1 DEF Signed
  <2>4. StockStat(s, o, sign) = [s EXCEPT !.phase[o.type][o.side] = e]
    BY <1>3, <2>3 DEF StockStat
  <2>5. PICK v \in Entries : v = e
    BY <2>2
  <2> HIDE DEF e
  <2>6. PICK row : row = [s.phase[o.type] EXCEPT ![o.side] = v]
    OBVIOUS
  <2>7. row \in [Side -> Entries] /\ \A side \in Side : row[side] = IF side = o.side THEN v ELSE s.phase[o.type][side]
    BY <1>1, <1>3, <2>6 DEF SumTypes
  <2>8. PICK rows : rows = [s.phase EXCEPT ![o.type] = row]
    OBVIOUS
  <2>9. rows \in [Types -> [Side -> Entries]] /\ \A t \in Types : rows[t] = IF t = o.type THEN row ELSE s.phase[t]
    BY <1>3, <2>7, <2>8 DEF SumTypes
  <2>10. StockStat(s, o, sign) = [s EXCEPT !.phase = rows]
    BY <2>4, <2>5, <2>6, <2>8 DEF SumTypes
  <2>11. /\ [s EXCEPT !.phase = rows] \in SumTypes /\ [s EXCEPT !.phase = rows].phase = rows
         /\ [s EXCEPT !.phase = rows].order = s.order
    BY <2>9 DEF SumTypes
  <2>12. \A side \in Side, t \in Types : o \in Tied(side, t) <=> side = o.side /\ t = o.type
    BY DEF Tied
  <2>13. ASSUME NEW side \in Side, NEW t \in Types
         PROVE  rows[t][side] =
           [number |-> s.phase[t][side].number + (IF o \in Tied(side, t) THEN sign ELSE 0),
            amount |-> s.phase[t][side].amount +
              (IF o \in Tied(side, t) THEN Signed(sign, o.balance) ELSE 0)]
    <3>1. CASE o \in Tied(side, t)
      BY <2>5, <2>7, <2>9, <2>12, <3>1 DEF e
    <3>2. CASE o \notin Tied(side, t)
      <4>1. rows[t][side] = s.phase[t][side]
        BY <2>7, <2>9, <2>12, <3>2
      <4>2. QED
        BY <1>2, <3>2, <4>1
    <3>3. QED
      BY <3>1, <3>2
  <2>14. QED
    BY <2>10, <2>11, <2>13
<1>4. CASE o.type \notin Types
  <2>1. \A side \in Side, t \in Types : o \notin Tied(side, t)
    BY <1>4 DEF Tied
  <2>2. StockStat(s, o, sign) = s
    BY <1>4 DEF StockStat
  <2>3. QED
    BY <1>2, <2>1, <2>2
<1>5. QED
  BY <1>3, <1>4

\* The sums of the orders stay the orders' sums when one comes in or leaves.
LEMMA StockEnters ==
  ASSUME NEW s, NEW K, NEW n, NEW o, NEW ph,
         s \in SumTypes, Holding(K), n \notin DOMAIN K, o \in Kinds
  PROVE  /\ OrderKept(s, K, ph) => OrderKept(UpdateCounted(s, o, ph, 1), With(K, n, o), ph)
         /\ PhaseKept(s, K) => PhaseKept(StockStat(s, o, 1), With(K, n, o))
<1> DEFINE L == With(K, n, o)
<1>1. \A W, am : am \in [Kinds -> Int] =>
        /\ NumberOf(L, W) = NumberOf(K, W) + (IF o \in W THEN 1 ELSE 0)
        /\ VolumeOf(L, W, am) = VolumeOf(K, W, am) + (IF o \in W THEN am[o] ELSE 0)
  BY OrderEnters
<1>2. Amounts[o] = Shown(o) /\ Balances[o] = o.balance /\ 1 \in {1, -1}
  BY DEF Amounts, Balances
<1>3. Signed(1, Shown(o)) = Shown(o) /\ Signed(1, o.balance) = o.balance
  BY DEF Signed
<1> HIDE DEF L
<1>4. ASSUME OrderKept(s, K, ph) PROVE OrderKept(UpdateCounted(s, o, ph, 1), L, ph)
  <2> SUFFICES ASSUME NEW side \in Side
               PROVE  UpdateCounted(s, o, ph, 1).order[side] =
                        [number |-> NumberOf(L, Counted(side, ph)),
                         amount |-> VolumeOf(L, Counted(side, ph), Amounts)]
    BY DEF OrderKept
  <2> DEFINE W == Counted(side, ph)
  <2>1. UpdateCounted(s, o, ph, 1).order[side] =
          [number |-> s.order[side].number + (IF o \in W THEN 1 ELSE 0),
           amount |-> s.order[side].amount + (IF o \in W THEN Shown(o) ELSE 0)]
    BY <1>2, <1>3, UpdateCountedMoves
  <2> HIDE DEF W
  <2>2. s.order[side] = [number |-> NumberOf(K, W), amount |-> VolumeOf(K, W, Amounts)]
    BY <1>4 DEF OrderKept, W
  <2>3. /\ NumberOf(L, W) = NumberOf(K, W) + (IF o \in W THEN 1 ELSE 0)
        /\ VolumeOf(L, W, Amounts) = VolumeOf(K, W, Amounts) + (IF o \in W THEN Shown(o) ELSE 0)
    BY <1>1, <1>2, AmountTypes
  <2>4. QED
    BY <2>1, <2>2, <2>3 DEF W
<1>5. ASSUME PhaseKept(s, K) PROVE PhaseKept(StockStat(s, o, 1), L)
  <2> SUFFICES ASSUME NEW side \in Side, NEW t \in Types
               PROVE  StockStat(s, o, 1).phase[t][side] =
                        [number |-> NumberOf(L, Tied(side, t)),
                         amount |-> VolumeOf(L, Tied(side, t), Balances)]
    BY DEF PhaseKept
  <2> DEFINE W == Tied(side, t)
  <2>1. StockStat(s, o, 1).phase[t][side] =
          [number |-> s.phase[t][side].number + (IF o \in W THEN 1 ELSE 0),
           amount |-> s.phase[t][side].amount + (IF o \in W THEN o.balance ELSE 0)]
    BY <1>2, <1>3, StockStatMoves
  <2> HIDE DEF W
  <2>2. s.phase[t][side] = [number |-> NumberOf(K, W), amount |-> VolumeOf(K, W, Balances)]
    BY <1>5 DEF PhaseKept, W
  <2>3. /\ NumberOf(L, W) = NumberOf(K, W) + (IF o \in W THEN 1 ELSE 0)
        /\ VolumeOf(L, W, Balances) = VolumeOf(K, W, Balances) + (IF o \in W THEN o.balance ELSE 0)
    BY <1>1, <1>2, AmountTypes
  <2>4. QED
    BY <2>1, <2>2, <2>3 DEF W
<1>6. QED
  BY <1>4, <1>5 DEF L

LEMMA StockLeaves ==
  ASSUME NEW s, NEW K, NEW n, NEW ph,
         s \in SumTypes, Holding(K), n \in DOMAIN K
  PROVE  /\ OrderKept(s, K, ph) => OrderKept(UpdateCounted(s, K[n], ph, -1), Without(K, n), ph)
         /\ PhaseKept(s, K) => PhaseKept(StockStat(s, K[n], -1), Without(K, n))
<1> DEFINE J == Without(K, n)
           o == K[n]
<1>1. \A W, am : am \in [Kinds -> Int] =>
        /\ NumberOf(J, W) = NumberOf(K, W) - (IF o \in W THEN 1 ELSE 0)
        /\ VolumeOf(J, W, am) = VolumeOf(K, W, am) - (IF o \in W THEN am[o] ELSE 0)
        /\ NumberOf(K, W) \in Int /\ VolumeOf(K, W, am) \in Int
  BY OrderLeaves, VolumeType
<1>2. o \in Kinds /\ -1 \in {1, -1}
  BY DEF Holding
<1> HIDE DEF o, J
<1>3. Amounts[o] = Shown(o) /\ Balances[o] = o.balance /\ Shown(o) \in Int /\ o.balance \in Int
  BY <1>2, AmountTypes DEF Amounts, Balances
<1>4. Signed(-1, Shown(o)) = -Shown(o) /\ Signed(-1, o.balance) = -o.balance
  BY DEF Signed
<1>5. ASSUME OrderKept(s, K, ph) PROVE OrderKept(UpdateCounted(s, o, ph, -1), J, ph)
  <2> SUFFICES ASSUME NEW side \in Side
               PROVE  UpdateCounted(s, o, ph, -1).order[side] =
                        [number |-> NumberOf(J, Counted(side, ph)),
                         amount |-> VolumeOf(J, Counted(side, ph), Amounts)]
    BY DEF OrderKept
  <2> DEFINE W == Counted(side, ph)
  <2>1. UpdateCounted(s, o, ph, -1).order[side] =
          [number |-> s.order[side].number + (IF o \in W THEN -1 ELSE 0),
           amount |-> s.order[side].amount + (IF o \in W THEN -Shown(o) ELSE 0)]
    BY <1>2, <1>4, UpdateCountedMoves
  <2> HIDE DEF W
  <2>2. s.order[side] = [number |-> NumberOf(K, W), amount |-> VolumeOf(K, W, Amounts)]
    BY <1>5 DEF OrderKept, W
  <2>3. /\ NumberOf(J, W) = NumberOf(K, W) - (IF o \in W THEN 1 ELSE 0)
        /\ VolumeOf(J, W, Amounts) = VolumeOf(K, W, Amounts) - (IF o \in W THEN Shown(o) ELSE 0)
        /\ NumberOf(K, W) \in Int /\ VolumeOf(K, W, Amounts) \in Int
    BY <1>1, <1>3, AmountTypes
  <2>4. QED
    BY <1>3, <2>1, <2>2, <2>3 DEF W
<1>6. ASSUME PhaseKept(s, K) PROVE PhaseKept(StockStat(s, o, -1), J)
  <2> SUFFICES ASSUME NEW side \in Side, NEW t \in Types
               PROVE  StockStat(s, o, -1).phase[t][side] =
                        [number |-> NumberOf(J, Tied(side, t)),
                         amount |-> VolumeOf(J, Tied(side, t), Balances)]
    BY DEF PhaseKept
  <2> DEFINE W == Tied(side, t)
  <2>1. StockStat(s, o, -1).phase[t][side] =
          [number |-> s.phase[t][side].number + (IF o \in W THEN -1 ELSE 0),
           amount |-> s.phase[t][side].amount + (IF o \in W THEN -o.balance ELSE 0)]
    BY <1>2, <1>4, StockStatMoves
  <2> HIDE DEF W
  <2>2. s.phase[t][side] = [number |-> NumberOf(K, W), amount |-> VolumeOf(K, W, Balances)]
    BY <1>6 DEF PhaseKept, W
  <2>3. /\ NumberOf(J, W) = NumberOf(K, W) - (IF o \in W THEN 1 ELSE 0)
        /\ VolumeOf(J, W, Balances) = VolumeOf(K, W, Balances) - (IF o \in W THEN o.balance ELSE 0)
        /\ NumberOf(K, W) \in Int /\ VolumeOf(K, W, Balances) \in Int
    BY <1>1, <1>3, AmountTypes
  <2>4. QED
    BY <1>3, <2>1, <2>2, <2>3 DEF W
<1>7. QED
  BY <1>5, <1>6 DEF J, o

\* The other sums an update leaves alone.
LEMMA StockApart ==
  ASSUME NEW s, NEW K, NEW o, NEW ph, NEW sign,
         s \in SumTypes, o \in Kinds, sign \in {1, -1}
  PROVE  /\ PhaseKept(s, K) => PhaseKept(UpdateCounted(s, o, ph, sign), K)
         /\ OrderKept(s, K, ph) => OrderKept(StockStat(s, o, sign), K, ph)
<1>1. UpdateCounted(s, o, ph, sign).phase = s.phase
  BY UpdateCountedMoves
<1>2. StockStat(s, o, sign).order = s.order
  BY StockStatMoves
<1>3. QED
  BY <1>1, <1>2 DEF PhaseKept, OrderKept

\* What AttachOrder and DetachOrder do to the sums of the stock.
Attaching(s, o, ph, sign) == StockStat(UpdateCounted(s, o, ph, sign), o, sign)

LEMMA AttachingKeeps ==
  ASSUME NEW s, NEW K, NEW n, NEW o, NEW ph,
         s \in SumTypes, Holding(K), n \notin DOMAIN K, o \in Kinds
  PROVE  /\ Attaching(s, o, ph, 1) \in SumTypes
         /\ OrderKept(s, K, ph) => OrderKept(Attaching(s, o, ph, 1), With(K, n, o), ph)
         /\ PhaseKept(s, K) => PhaseKept(Attaching(s, o, ph, 1), With(K, n, o))
<1> DEFINE u == UpdateCounted(s, o, ph, 1)
<1>1. 1 \in {1, -1}
  OBVIOUS
<1>2. u \in SumTypes
  BY <1>1, UpdateCountedMoves
<1>3. /\ OrderKept(s, K, ph) => OrderKept(u, With(K, n, o), ph)
      /\ PhaseKept(s, K) => PhaseKept(u, K)
  BY <1>1, StockEnters, StockApart
<1> HIDE DEF u
<1>4. /\ OrderKept(u, With(K, n, o), ph) => OrderKept(StockStat(u, o, 1), With(K, n, o), ph)
      /\ PhaseKept(u, K) => PhaseKept(StockStat(u, o, 1), With(K, n, o))
      /\ StockStat(u, o, 1) \in SumTypes
  BY <1>1, <1>2, StockEnters, StockApart, StockStatMoves
<1>5. QED
  BY <1>3, <1>4 DEF Attaching, u

LEMMA DetachingKeeps ==
  ASSUME NEW s, NEW K, NEW n, NEW ph,
         s \in SumTypes, Holding(K), n \in DOMAIN K
  PROVE  /\ Attaching(s, K[n], ph, -1) \in SumTypes
         /\ OrderKept(s, K, ph) => OrderKept(Attaching(s, K[n], ph, -1), Without(K, n), ph)
         /\ PhaseKept(s, K) => PhaseKept(Attaching(s, K[n], ph, -1), Without(K, n))
<1> DEFINE o == K[n]
           u == UpdateCounted(s, o, ph, -1)
<1>1. -1 \in {1, -1} /\ o \in Kinds
  BY DEF Holding
<1>2. u \in SumTypes
  BY <1>1, UpdateCountedMoves
<1>3. /\ OrderKept(s, K, ph) => OrderKept(u, Without(K, n), ph)
      /\ PhaseKept(s, K) => PhaseKept(u, K)
  BY <1>1, StockLeaves, StockApart
<1> HIDE DEF u
<1>4. /\ OrderKept(u, Without(K, n), ph) => OrderKept(StockStat(u, o, -1), Without(K, n), ph)
      /\ PhaseKept(u, K) => PhaseKept(StockStat(u, o, -1), Without(K, n))
      /\ StockStat(u, o, -1) \in SumTypes
  BY <1>1, <1>2, StockLeaves, StockApart, StockStatMoves
<1>5. QED
  BY <1>3, <1>4 DEF Attaching, u

(***************************************************************************)
(* The sums of the members: by side and restriction, and of what counts.   *)
(***************************************************************************)
OfFirm(f) == {o \in Kinds : o.firm = f}

PbuData == [pbuDataAdr : BOOLEAN, current : [Sides -> Int], of : [Sides -> [Types -> Int]]]

PbuTyped(p) ==
  p \in [data : [Firms -> PbuData], ranked : {p.ranked}, sortNo : {p.sortNo}, last : {p.last}]

OfKept(p, K) ==
  \A side \in Sides, t \in Types, f \in Firms :
    p.data[f].of[side][t] = VolumeOf(K, Tied(side, t) \cap OfFirm(f), Balances)

CurrentKept(p, K, ph) ==
  \A side \in Sides, f \in Firms :
    p.data[f].current[side] = VolumeOf(K, Counted(side, ph) \cap OfFirm(f), Amounts)

\* Giving a member a new record leaves the others theirs.
LEMMA DataReplaced ==
  ASSUME NEW p, NEW f \in Firms, NEW r \in PbuData, PbuTyped(p)
  PROVE  /\ PbuTyped([p EXCEPT !.data[f] = r])
         /\ \A g \in Firms : [p EXCEPT !.data[f] = r].data[g] = IF g = f THEN r ELSE p.data[g]
<1>1. PICK d : d = [p.data EXCEPT ![f] = r]
  OBVIOUS
<1>2. d \in [Firms -> PbuData] /\ \A g \in Firms : d[g] = IF g = f THEN r ELSE p.data[g]
  BY <1>1 DEF PbuTyped
<1>3. [p EXCEPT !.data[f] = r] = [p EXCEPT !.data = d]
  BY <1>1 DEF PbuTyped
<1>4. /\ [p EXCEPT !.data = d].data = d /\ [p EXCEPT !.data = d].ranked = p.ranked
      /\ [p EXCEPT !.data = d].sortNo = p.sortNo /\ [p EXCEPT !.data = d].last = p.last
      /\ [p EXCEPT !.data = d] \in [data : {d}, ranked : {p.ranked}, sortNo : {p.sortNo}, last : {p.last}]
  BY DEF PbuTyped
<1>5. PbuTyped([p EXCEPT !.data = d])
  BY <1>2, <1>4 DEF PbuTyped
<1>6. QED
  BY <1>2, <1>3, <1>4, <1>5

\* The record of a member whose sums of one side and restriction, and of one side, change.
DataSet(r, side, row, c) == [r EXCEPT !.of[side] = row, !.current[side] = c]

RowMoved(row, old, type, x) ==
  row \in [Types -> Int] /\ \A t \in Types : row[t] = old[t] + (IF t = type THEN x ELSE 0)

DataMoved(u, r, side, type, x, c) ==
  /\ u \in PbuData
  /\ \A d \in Sides : u.current[d] = IF d = side THEN c ELSE r.current[d]
  /\ \A d \in Sides, t \in Types : u.of[d][t] =
       r.of[d][t] + (IF d = side /\ t = type THEN x ELSE 0)

LEMMA DataChanged ==
  ASSUME NEW r, NEW side, NEW row, NEW c, NEW type, NEW x,
         r \in PbuData, side \in Sides, c \in Int, RowMoved(row, r.of[side], type, x)
  PROVE  DataMoved(DataSet(r, side, row, c), r, side, type, x, c)
<1>2. row \in [Types -> Int] /\ \A t \in Types : row[t] = r.of[side][t] + (IF t = type THEN x ELSE 0)
  BY DEF RowMoved
<1>1. r.of \in [Sides -> [Types -> Int]] /\ r.current \in [Sides -> Int]
  BY DEF PbuData
<1>4. PICK of : of = [r.of EXCEPT ![side] = row]
  OBVIOUS
<1>5. of \in [Sides -> [Types -> Int]] /\ \A d \in Sides : of[d] = IF d = side THEN row ELSE r.of[d]
  BY <1>1, <1>2, <1>4
<1>6. PICK current : current = [r.current EXCEPT ![side] = c]
  OBVIOUS
<1>7. current \in [Sides -> Int] /\ \A d \in Sides : current[d] = IF d = side THEN c ELSE r.current[d]
  BY <1>1, <1>6
<1>10. PICK v : v = [r EXCEPT !.of[side] = row]
  OBVIOUS
<1>11. v = [r EXCEPT !.of = of]
  BY <1>4, <1>10 DEF PbuData
<1>12. v \in PbuData /\ v.of = of /\ v.current = r.current
  BY <1>5, <1>11 DEF PbuData
<1>13. PICK w : w = [v EXCEPT !.current[side] = c]
  OBVIOUS
<1>14. w = [v EXCEPT !.current = current]
  BY <1>6, <1>12, <1>13 DEF PbuData
<1>15. w \in PbuData /\ w.of = of /\ w.current = current
  BY <1>7, <1>12, <1>14 DEF PbuData
<1>16. w = DataSet(r, side, row, c)
  BY <1>10, <1>13 DEF DataSet
<1>17. \A d \in Sides, t \in Types : of[d][t] = r.of[d][t] + (IF d = side /\ t = type THEN x ELSE 0)
  BY <1>1, <1>2, <1>5
<1>18. DataMoved(w, r, side, type, x, c)
  BY <1>7, <1>15, <1>17 DEF DataMoved
<1>19. QED
  BY <1>16, <1>18

\* What PBUOrderStatAdd and PBUOrderStatDel do: x is added to the sum of the order's
\* restriction, y to the current sum if the order counts.
MemberMoved(u, r, o, ph, x, y) ==
  /\ u \in PbuData
  /\ \A d \in Sides : u.current[d] =
       r.current[d] + (IF d = o.side /\ IsTradingPhase(o, ph) THEN y ELSE 0)
  /\ \A d \in Sides, t \in Types : u.of[d][t] =
       r.of[d][t] + (IF d = o.side /\ t = o.type THEN x ELSE 0)

LEMMA DataMoves ==
  ASSUME NEW r, NEW o, NEW ph, NEW row, NEW e, NEW x, NEW y,
         r \in PbuData, o \in Kinds, e \in Int, y \in Int, RowMoved(row, r.of[o.side], o.type, x),
         e = r.current[o.side] + (IF IsTradingPhase(o, ph) THEN y ELSE 0)
  PROVE  MemberMoved(DataSet(r, o.side, row, e), r, o, ph, x, y)
<1>1. PICK side : side = o.side
  OBVIOUS
<1>2. PICK type : type = o.type
  OBVIOUS
<1>3. PICK u : u = DataSet(r, side, row, e)
  OBVIOUS
<1>4. side \in Sides /\ RowMoved(row, r.of[side], type, x)
  BY <1>1, <1>2 DEF Kinds, Side, Sides
<1>5. DataMoved(u, r, side, type, x, e)
  BY <1>3, <1>4, DataChanged
<1>6. r.current \in [Sides -> Int]
  BY DEF PbuData
<1>7. ASSUME NEW d \in Sides
      PROVE  u.current[d] = r.current[d] + (IF d = o.side /\ IsTradingPhase(o, ph) THEN y ELSE 0)
  BY <1>1, <1>5, <1>6 DEF DataMoved
<1>8. ASSUME NEW d \in Sides, NEW t \in Types
      PROVE  u.of[d][t] = r.of[d][t] + (IF d = o.side /\ t = o.type THEN x ELSE 0)
  BY <1>1, <1>2, <1>5 DEF DataMoved
<1>9. MemberMoved(u, r, o, ph, x, y)
  BY <1>5, <1>7, <1>8 DEF MemberMoved, DataMoved
<1>10. QED
  BY <1>1, <1>3, <1>9

PbuMoved(q, p, o, ph, x, y) ==
  /\ PbuTyped(q)
  /\ \A side \in Sides, t \in Types, f \in Firms : q.data[f].of[side][t] =
       p.data[f].of[side][t] + (IF o \in Tied(side, t) \cap OfFirm(f) THEN x ELSE 0)
  /\ \A side \in Sides, f \in Firms : q.data[f].current[side] =
       p.data[f].current[side] + (IF o \in Counted(side, ph) \cap OfFirm(f) THEN y ELSE 0)

MemberSet(p, f, u) == [p EXCEPT !.data[f] = u]

LEMMA PbuChanged ==
  ASSUME NEW p, NEW o, NEW ph, NEW x, NEW y, NEW u, PbuTyped(p), o \in Kinds, x \in Int, y \in Int,
         MemberMoved(u, p.data[o.firm], o, ph, x, y)
  PROVE  PbuMoved(MemberSet(p, o.firm, u), p, o, ph, x, y)
<1>1. o.firm \in Firms
  BY DEF Kinds
<1>2. PICK q : q = [p EXCEPT !.data[o.firm] = u]
  OBVIOUS
<1>3. PbuTyped(q) /\ \A f \in Firms : q.data[f] = IF f = o.firm THEN u ELSE p.data[f]
  BY <1>1, <1>2, DataReplaced DEF MemberMoved
<1>4. ASSUME NEW side \in Sides, NEW f \in Firms
      PROVE  /\ p.data[f].current[side] \in Int
             /\ \A t \in Types : p.data[f].of[side][t] \in Int
             /\ \A t \in Types : o \in Tied(side, t) \cap OfFirm(f) <=>
                  side = o.side /\ t = o.type /\ f = o.firm
             /\ o \in Counted(side, ph) \cap OfFirm(f) <=>
                  side = o.side /\ f = o.firm /\ IsTradingPhase(o, ph)
  <2>1. p.data[f] \in PbuData
    BY DEF PbuTyped
  <2>2. QED
    BY <2>1 DEF PbuData, Tied, OfFirm, Counted
<1>5. ASSUME NEW side \in Sides, NEW t \in Types, NEW f \in Firms
      PROVE  q.data[f].of[side][t] =
               p.data[f].of[side][t] + (IF o \in Tied(side, t) \cap OfFirm(f) THEN x ELSE 0)
  BY <1>3, <1>4 DEF MemberMoved
<1>6. ASSUME NEW side \in Sides, NEW f \in Firms
      PROVE  q.data[f].current[side] =
               p.data[f].current[side] + (IF o \in Counted(side, ph) \cap OfFirm(f) THEN y ELSE 0)
  BY <1>3, <1>4 DEF MemberMoved
<1>7. QED
  BY <1>2, <1>3, <1>5, <1>6 DEF PbuMoved, MemberSet

LEMMA PbuAddMoves ==
  ASSUME NEW p, NEW o, NEW ph, PbuTyped(p), o \in Kinds
  PROVE  PbuMoved(PBUOrderStatAdd(p, o, ph), p, o, ph, o.balance, Shown(o))
<1>1. o.balance \in Int /\ Shown(o) \in Int /\ o.firm \in Firms /\ o.side \in Sides
  BY DEF Kinds, Shown, Side, Sides
<1>2. PICK r \in PbuData : r = p.data[o.firm]
  BY <1>1 DEF PbuTyped
<1>3. r.current[o.side] \in Int /\ r.of[o.side] \in [Types -> Int]
  BY <1>1, <1>2 DEF PbuData
<1>4. PICK row : row = [t \in Types |-> IF t = o.type THEN r.of[o.side][t] + o.balance ELSE r.of[o.side][t]]
  OBVIOUS
<1>5. RowMoved(row, r.of[o.side], o.type, o.balance)
  BY <1>1, <1>3, <1>4 DEF RowMoved
<1>6. PICK e \in Int : e = IF IsTradingPhase(o, ph) THEN r.current[o.side] + Shown(o) ELSE r.current[o.side]
  BY <1>1, <1>3
<1>7. PICK h : h = [r EXCEPT !.pbuDataAdr = TRUE]
  OBVIOUS
<1>14. h \in PbuData /\ h.of = r.of /\ h.current = r.current
  BY <1>2, <1>7 DEF PbuData
<1>15. PICK u : u = DataSet(h, o.side, row, e)
  OBVIOUS
<1>8. PBUOrderStatAdd(p, o, ph) = MemberSet(p, o.firm, u)
  <2>3. u = [h EXCEPT !.of[o.side] = row, !.current[o.side] = e]
    BY <1>15 DEF DataSet
  <2>4. PICK q : q = [p EXCEPT !.data[o.firm].pbuDataAdr = TRUE]
    OBVIOUS
  <2>5. q = [p EXCEPT !.data[o.firm] = h] /\ q.data[o.firm] = h /\ PbuTyped(q)
    <3>1. q = [p EXCEPT !.data[o.firm] = h]
      BY <1>1, <1>2, <1>7, <2>4 DEF PbuTyped
    <3>2. QED
      BY <1>1, <1>14, <3>1, DataReplaced
  <2>6. PBUOrderStatAdd(p, o, ph) =
          [q EXCEPT !.data[o.firm].of[o.side] = row, !.data[o.firm].current[o.side] = e]
    BY <1>2, <1>4, <1>6, <1>14, <2>4, <2>5 DEF PBUOrderStatAdd
  <2>7. [q EXCEPT !.data[o.firm].of[o.side] = row, !.data[o.firm].current[o.side] = e]
          = [q EXCEPT !.data[o.firm] = u]
    <3>1. PICK g : g = [h EXCEPT !.of[o.side] = row]
      OBVIOUS
    <3>2. PICK q1 : q1 = [q EXCEPT !.data[o.firm] = g]
      OBVIOUS
    <3>3. q1 = [q EXCEPT !.data[o.firm].of[o.side] = row] /\ q1.data[o.firm] = g
      BY <1>1, <2>5, <3>1, <3>2 DEF PbuTyped
    <3>4. u = [g EXCEPT !.current[o.side] = e]
      BY <2>3, <3>1
    <3>5. [q1 EXCEPT !.data[o.firm].current[o.side] = e] = [q1 EXCEPT !.data[o.firm] = u]
      BY <3>3, <3>4
    <3>6. [q1 EXCEPT !.data[o.firm] = u] = [q EXCEPT !.data[o.firm] = u]
      BY <1>1, <2>5, <3>2 DEF PbuTyped
    <3>7. QED
      BY <3>3, <3>5, <3>6
  <2>8. [q EXCEPT !.data[o.firm] = u] = [p EXCEPT !.data[o.firm] = u]
    BY <1>1, <2>5 DEF PbuTyped
  <2>9. QED
    BY <2>6, <2>7, <2>8 DEF MemberSet
<1>9. MemberMoved(u, h, o, ph, o.balance, Shown(o))
  <2>1. RowMoved(row, h.of[o.side], o.type, o.balance)
    BY <1>5, <1>14
  <2>2. e = h.current[o.side] + (IF IsTradingPhase(o, ph) THEN Shown(o) ELSE 0)
    BY <1>1, <1>3, <1>6, <1>14
  <2>3. QED
    BY <1>1, <1>14, <1>15, <2>1, <2>2, DataMoves
<1>11. MemberMoved(u, p.data[o.firm], o, ph, o.balance, Shown(o))
  BY <1>2, <1>9, <1>14 DEF MemberMoved
<1>12. QED
  BY <1>1, <1>8, <1>11, PbuChanged

LEMMA PbuDelMoves ==
  ASSUME NEW p, NEW o, NEW ph, PbuTyped(p), o \in Kinds
  PROVE  PbuMoved(PBUOrderStatDel(p, o, ph), p, o, ph, -o.balance, -o.balance)
<1>1. o.balance \in Int /\ -o.balance \in Int /\ o.firm \in Firms /\ o.side \in Sides
  BY DEF Kinds, Side, Sides
<1>2. PICK r \in PbuData : r = p.data[o.firm]
  BY <1>1 DEF PbuTyped
<1>3. r.current[o.side] \in Int /\ r.of[o.side] \in [Types -> Int]
  BY <1>1, <1>2 DEF PbuData
<1>4. PICK row : row = [t \in Types |-> IF t = o.type THEN r.of[o.side][t] - o.balance ELSE r.of[o.side][t]]
  OBVIOUS
<1>5. RowMoved(row, r.of[o.side], o.type, -o.balance)
  BY <1>1, <1>3, <1>4 DEF RowMoved
<1>6. PICK e \in Int : e = IF IsTradingPhase(o, ph) THEN r.current[o.side] - o.balance ELSE r.current[o.side]
  BY <1>1, <1>3
<1>7. PICK u : u = DataSet(r, o.side, row, e)
  OBVIOUS
<1>8. PBUOrderStatDel(p, o, ph) = MemberSet(p, o.firm, u)
  BY <1>1, <1>2, <1>4, <1>6, <1>7 DEF PBUOrderStatDel, DataSet, MemberSet, PbuTyped, PbuData
<1>9. MemberMoved(u, r, o, ph, -o.balance, -o.balance)
  <2>1. e = r.current[o.side] + (IF IsTradingPhase(o, ph) THEN -o.balance ELSE 0)
    BY <1>1, <1>3, <1>6
  <2>2. QED
    BY <1>1, <1>5, <1>7, <2>1, DataMoves
<1>11. MemberMoved(u, p.data[o.firm], o, ph, -o.balance, -o.balance)
  BY <1>2, <1>9
<1>12. QED
  BY <1>1, <1>8, <1>11, PbuChanged

LEMMA PbuSortMoves ==
  ASSUME NEW p, NEW o, PbuTyped(p)
  PROVE  LET q == UpdatePBUOrderSortList(p, o)
         IN  PbuTyped(q) /\ q.data = p.data
BY DEF UpdatePBUOrderSortList, PbuTyped

LEMMA PbuEnters ==
  ASSUME NEW q, NEW p, NEW K, NEW n, NEW o, NEW ph,
         PbuMoved(q, p, o, ph, o.balance, Shown(o)), Holding(K), n \notin DOMAIN K, o \in Kinds
  PROVE  /\ OfKept(p, K) => OfKept(q, With(K, n, o))
         /\ CurrentKept(p, K, ph) => CurrentKept(q, With(K, n, o), ph)
<1> DEFINE L == With(K, n, o)
<1>1. \A W, am : am \in [Kinds -> Int] =>
        VolumeOf(L, W, am) = VolumeOf(K, W, am) + (IF o \in W THEN am[o] ELSE 0)
  BY OrderEnters
<1>2. Amounts[o] = Shown(o) /\ Balances[o] = o.balance
  BY DEF Amounts, Balances
<1> HIDE DEF L
<1>3. ASSUME OfKept(p, K) PROVE OfKept(q, L)
  <2> SUFFICES ASSUME NEW side \in Sides, NEW t \in Types, NEW f \in Firms
               PROVE  q.data[f].of[side][t] = VolumeOf(L, Tied(side, t) \cap OfFirm(f), Balances)
    BY DEF OfKept
  <2> DEFINE W == Tied(side, t) \cap OfFirm(f)
  <2>1. q.data[f].of[side][t] = p.data[f].of[side][t] + (IF o \in W THEN o.balance ELSE 0)
    BY DEF PbuMoved
  <2>2. p.data[f].of[side][t] = VolumeOf(K, W, Balances)
    BY <1>3 DEF OfKept
  <2> HIDE DEF W
  <2>3. VolumeOf(L, W, Balances) = VolumeOf(K, W, Balances) + (IF o \in W THEN o.balance ELSE 0)
    BY <1>1, <1>2, AmountTypes
  <2>4. QED
    BY <2>1, <2>2, <2>3 DEF W
<1>4. ASSUME CurrentKept(p, K, ph) PROVE CurrentKept(q, L, ph)
  <2> SUFFICES ASSUME NEW side \in Sides, NEW f \in Firms
               PROVE  q.data[f].current[side] = VolumeOf(L, Counted(side, ph) \cap OfFirm(f), Amounts)
    BY DEF CurrentKept
  <2> DEFINE W == Counted(side, ph) \cap OfFirm(f)
  <2>1. q.data[f].current[side] = p.data[f].current[side] + (IF o \in W THEN Shown(o) ELSE 0)
    BY DEF PbuMoved
  <2>2. p.data[f].current[side] = VolumeOf(K, W, Amounts)
    BY <1>4 DEF CurrentKept
  <2> HIDE DEF W
  <2>3. VolumeOf(L, W, Amounts) = VolumeOf(K, W, Amounts) + (IF o \in W THEN Shown(o) ELSE 0)
    BY <1>1, <1>2, AmountTypes
  <2>4. QED
    BY <2>1, <2>2, <2>3 DEF W
<1>5. QED
  BY <1>3, <1>4 DEF L

\* An iceberg order is taken out of the current sum with more than it was put in with.
LEMMA PbuLeaves ==
  ASSUME NEW q, NEW p, NEW K, NEW n, NEW ph, Holding(K), n \in DOMAIN K,
         PbuMoved(q, p, K[n], ph, -K[n].balance, -K[n].balance)
  PROVE  /\ OfKept(p, K) => OfKept(q, Without(K, n))
         /\ ~K[n].ice /\ CurrentKept(p, K, ph) => CurrentKept(q, Without(K, n), ph)
<1> DEFINE J == Without(K, n)
           o == K[n]
<1>1. \A W, am : am \in [Kinds -> Int] =>
        /\ VolumeOf(J, W, am) = VolumeOf(K, W, am) - (IF o \in W THEN am[o] ELSE 0)
        /\ VolumeOf(K, W, am) \in Int
  BY OrderLeaves, VolumeType
<1>2. o \in Kinds /\ o.balance \in Int
  BY DEF Holding, Kinds
<1>7. PbuMoved(q, p, o, ph, -o.balance, -o.balance)
  OBVIOUS
<1> HIDE DEF o, J
<1>3. Amounts[o] = Shown(o) /\ Balances[o] = o.balance
  BY <1>2 DEF Amounts, Balances
<1>4. ASSUME OfKept(p, K) PROVE OfKept(q, J)
  <2> SUFFICES ASSUME NEW side \in Sides, NEW t \in Types, NEW f \in Firms
               PROVE  q.data[f].of[side][t] = VolumeOf(J, Tied(side, t) \cap OfFirm(f), Balances)
    BY DEF OfKept
  <2> DEFINE W == Tied(side, t) \cap OfFirm(f)
  <2>1. q.data[f].of[side][t] = p.data[f].of[side][t] + (IF o \in W THEN -o.balance ELSE 0)
    BY <1>7 DEF PbuMoved
  <2>2. p.data[f].of[side][t] = VolumeOf(K, W, Balances)
    BY <1>4 DEF OfKept
  <2> HIDE DEF W
  <2>3. /\ VolumeOf(J, W, Balances) = VolumeOf(K, W, Balances) - (IF o \in W THEN o.balance ELSE 0)
        /\ VolumeOf(K, W, Balances) \in Int
    BY <1>1, <1>3, AmountTypes
  <2>4. QED
    BY <1>2, <2>1, <2>2, <2>3 DEF W
<1>5. ASSUME ~o.ice, CurrentKept(p, K, ph) PROVE CurrentKept(q, J, ph)
  <2> SUFFICES ASSUME NEW side \in Sides, NEW f \in Firms
               PROVE  q.data[f].current[side] = VolumeOf(J, Counted(side, ph) \cap OfFirm(f), Amounts)
    BY DEF CurrentKept
  <2> DEFINE W == Counted(side, ph) \cap OfFirm(f)
  <2>1. q.data[f].current[side] = p.data[f].current[side] + (IF o \in W THEN -o.balance ELSE 0)
    BY <1>7 DEF PbuMoved
  <2>2. p.data[f].current[side] = VolumeOf(K, W, Amounts)
    BY <1>5 DEF CurrentKept
  <2> HIDE DEF W
  <2>3. /\ VolumeOf(J, W, Amounts) = VolumeOf(K, W, Amounts) - (IF o \in W THEN Amounts[o] ELSE 0)
        /\ VolumeOf(K, W, Amounts) \in Int
    BY <1>1, AmountTypes
  <2>4. Amounts[o] = o.balance
    BY <1>3, <1>5 DEF Shown
  <2>5. QED
    BY <1>2, <2>1, <2>2, <2>3, <2>4 DEF W
<1>6. QED
  BY <1>4, <1>5 DEF J, o

\* Ranking changes no sums.
LEMMA SameData ==
  ASSUME NEW q, NEW p, NEW K, NEW ph, q.data = p.data
  PROVE  /\ OfKept(p, K) => OfKept(q, K)
         /\ CurrentKept(p, K, ph) => CurrentKept(q, K, ph)
BY DEF OfKept, CurrentKept

\* What AttachOrder's caller does to the sums of a member, and a withdrawal.
LEMMA MemberAdds ==
  ASSUME NEW p, NEW K, NEW n, NEW o, NEW ph,
         PbuTyped(p), Holding(K), n \notin DOMAIN K, o \in Kinds
  PROVE  LET q == UpdatePBUOrderSortList(PBUOrderStatAdd(p, o, ph), o)
         IN  /\ PbuTyped(q)
             /\ OfKept(p, K) => OfKept(q, With(K, n, o))
             /\ CurrentKept(p, K, ph) => CurrentKept(q, With(K, n, o), ph)
<1>1. PICK v : v = PBUOrderStatAdd(p, o, ph)
  OBVIOUS
<1>2. PICK q : q = UpdatePBUOrderSortList(v, o)
  OBVIOUS
<1>3. PbuMoved(v, p, o, ph, o.balance, Shown(o))
  BY <1>1, PbuAddMoves
<1>4. PbuTyped(v)
  BY <1>3 DEF PbuMoved
<1>5. PbuTyped(q) /\ q.data = v.data
  BY <1>2, <1>4, PbuSortMoves
<1>6. /\ OfKept(p, K) => OfKept(v, With(K, n, o))
      /\ CurrentKept(p, K, ph) => CurrentKept(v, With(K, n, o), ph)
  BY <1>3, PbuEnters
<1>7. /\ OfKept(v, With(K, n, o)) => OfKept(q, With(K, n, o))
      /\ CurrentKept(v, With(K, n, o), ph) => CurrentKept(q, With(K, n, o), ph)
  BY <1>5, SameData
<1>8. QED
  BY <1>1, <1>2, <1>5, <1>6, <1>7

LEMMA MemberDels ==
  ASSUME NEW p, NEW K, NEW n, NEW ph, PbuTyped(p), Holding(K), n \in DOMAIN K
  PROVE  LET q == PBUOrderStatDel(p, K[n], ph)
         IN  /\ PbuTyped(q)
             /\ OfKept(p, K) => OfKept(q, Without(K, n))
             /\ ~K[n].ice /\ CurrentKept(p, K, ph) => CurrentKept(q, Without(K, n), ph)
<1>1. PICK q : q = PBUOrderStatDel(p, K[n], ph)
  OBVIOUS
<1>2. K[n] \in Kinds
  BY DEF Holding
<1>3. PbuMoved(q, p, K[n], ph, -K[n].balance, -K[n].balance)
  BY <1>1, <1>2, PbuDelMoves
<1>4. PbuTyped(q)
  BY <1>3 DEF PbuMoved
<1>5. QED
  BY <1>1, <1>3, <1>4, PbuLeaves

(***************************************************************************)
(* An order whose kind changes.                                            *)
(***************************************************************************)
Change(K, n, o) == With(Without(K, n), n, o)

LEMMA Swapped ==
  ASSUME NEW K, NEW n, NEW o, Holding(K), n \in DOMAIN K, o \in Kinds
  PROVE  /\ Holding(Change(K, n, o)) /\ n \in DOMAIN Change(K, n, o) /\ Change(K, n, o)[n] = o
         /\ \A W, am : am \in [Kinds -> Int] =>
              /\ NumberOf(Change(K, n, o), W) =
                   NumberOf(K, W) - (IF K[n] \in W THEN 1 ELSE 0) + (IF o \in W THEN 1 ELSE 0)
              /\ VolumeOf(Change(K, n, o), W, am) =
                   VolumeOf(K, W, am) - (IF K[n] \in W THEN am[K[n]] ELSE 0)
                     + (IF o \in W THEN am[o] ELSE 0)
<1>1. PICK J : J = Without(K, n)
  OBVIOUS
<1>2. Holding(J) /\ n \notin DOMAIN J
  BY <1>1, AmountTypes, OrderLeaves
<1>3. Holding(With(J, n, o))
  BY <1>2, AmountTypes, OrderEnters
<1>4. n \in DOMAIN With(J, n, o) /\ With(J, n, o)[n] = o
  BY DEF With
<1>5. ASSUME NEW W, NEW am, am \in [Kinds -> Int]
      PROVE  /\ NumberOf(With(J, n, o), W) =
                  NumberOf(K, W) - (IF K[n] \in W THEN 1 ELSE 0) + (IF o \in W THEN 1 ELSE 0)
             /\ VolumeOf(With(J, n, o), W, am) =
                  VolumeOf(K, W, am) - (IF K[n] \in W THEN am[K[n]] ELSE 0)
                    + (IF o \in W THEN am[o] ELSE 0)
  <2>1. /\ NumberOf(J, W) = NumberOf(K, W) - (IF K[n] \in W THEN 1 ELSE 0)
        /\ VolumeOf(J, W, am) = VolumeOf(K, W, am) - (IF K[n] \in W THEN am[K[n]] ELSE 0)
    BY <1>1, <1>5, OrderLeaves
  <2>2. /\ NumberOf(With(J, n, o), W) = NumberOf(J, W) + (IF o \in W THEN 1 ELSE 0)
        /\ VolumeOf(With(J, n, o), W, am) = VolumeOf(J, W, am) + (IF o \in W THEN am[o] ELSE 0)
    BY <1>2, <1>5, OrderEnters
  <2>3. QED
    BY <2>1, <2>2
<1>6. QED
  BY <1>1, <1>3, <1>4, <1>5 DEF Change

\* Nothing changes for kinds that do not tell the old and the new one apart.
LEMMA Unmoved ==
  ASSUME NEW K, NEW n, NEW o, NEW W, NEW am, Holding(K), n \in DOMAIN K, o \in Kinds,
         am \in [Kinds -> Int], o \in W <=> K[n] \in W, am[o] = am[K[n]]
  PROVE  /\ NumberOf(Change(K, n, o), W) = NumberOf(K, W)
         /\ VolumeOf(Change(K, n, o), W, am) = VolumeOf(K, W, am)
<1>1. NumberOf(K, W) \in Int /\ VolumeOf(K, W, am) \in Int
  BY VolumeType
<1>2. K[n] \in Kinds
  BY DEF Holding
<1>3. PICK v \in Int : v = am[K[n]]
  BY <1>2
<1>4. /\ NumberOf(Change(K, n, o), W) =
           NumberOf(K, W) - (IF K[n] \in W THEN 1 ELSE 0) + (IF o \in W THEN 1 ELSE 0)
      /\ VolumeOf(Change(K, n, o), W, am) =
           VolumeOf(K, W, am) - (IF K[n] \in W THEN am[K[n]] ELSE 0) + (IF o \in W THEN am[o] ELSE 0)
  BY Swapped
<1>5. QED
  BY <1>1, <1>3, <1>4

\* Which order n has changed only what it holds, the stock's current sum does not see, if it
\* is an iceberg order; and if only its restriction changed, if both count or neither.
LEMMA OrderUnmoved ==
  ASSUME NEW s, NEW K, NEW n, NEW o, NEW ph, Holding(K), n \in DOMAIN K, o \in Kinds,
         o.side = K[n].side, Shown(o) = Shown(K[n]),
         IsTradingPhase(o, ph) <=> IsTradingPhase(K[n], ph), OrderKept(s, K, ph)
  PROVE  OrderKept(s, Change(K, n, o), ph)
<1> SUFFICES ASSUME NEW side \in Side
             PROVE  s.order[side] = [number |-> NumberOf(Change(K, n, o), Counted(side, ph)),
                                     amount |-> VolumeOf(Change(K, n, o), Counted(side, ph), Amounts)]
  BY DEF OrderKept
<1>1. K[n] \in Kinds
  BY DEF Holding
<1>2. o \in Counted(side, ph) <=> K[n] \in Counted(side, ph)
  BY <1>1 DEF Counted
<1>3. Amounts[o] = Amounts[K[n]]
  BY <1>1 DEF Amounts
<1>4. /\ NumberOf(Change(K, n, o), Counted(side, ph)) = NumberOf(K, Counted(side, ph))
      /\ VolumeOf(Change(K, n, o), Counted(side, ph), Amounts) = VolumeOf(K, Counted(side, ph), Amounts)
  BY <1>2, <1>3, AmountTypes, Unmoved
<1>5. QED
  BY <1>4 DEF OrderKept

\* Putting an order back as it was changes no sum.
LEMMA AllUnmoved ==
  ASSUME NEW s, NEW p, NEW K, NEW n, NEW ph, Holding(K), n \in DOMAIN K
  PROVE  /\ PhaseKept(s, K) => PhaseKept(s, Change(K, n, K[n]))
         /\ OfKept(p, K) => OfKept(p, Change(K, n, K[n]))
         /\ CurrentKept(p, K, ph) => CurrentKept(p, Change(K, n, K[n]), ph)
<1>1. K[n] \in Kinds
  BY DEF Holding
<1>2. \A W : /\ NumberOf(Change(K, n, K[n]), W) = NumberOf(K, W)
             /\ VolumeOf(Change(K, n, K[n]), W, Amounts) = VolumeOf(K, W, Amounts)
             /\ VolumeOf(Change(K, n, K[n]), W, Balances) = VolumeOf(K, W, Balances)
  BY <1>1, AmountTypes, Unmoved
<1>3. QED
  BY <1>2 DEF PhaseKept, OfKept, CurrentKept

\* What DetachOrder and AttachOrder do to the sums of the stock.
LEMMA DetachAttach ==
  ASSUME NEW s, NEW o
  PROVE  /\ StockStat(IF Counts(o) THEN UpdateStock(s, o, -1) ELSE s, o, -1) = Attaching(s, o, phase, -1)
         /\ StockStat(IF Counts(o) THEN UpdateStock(s, o, 1) ELSE s, o, 1) = Attaching(s, o, phase, 1)
BY DEF Attaching, UpdateCounted, Counts

\* The members' sums when an order is taken out as it was and put in as it is.
LEMMA MemberChanges ==
  ASSUME NEW p, NEW K, NEW n, NEW o, NEW ph, PbuTyped(p), Holding(K), n \in DOMAIN K, o \in Kinds
  PROVE  LET q == UpdatePBUOrderSortList(PBUOrderStatAdd(PBUOrderStatDel(p, K[n], ph), o, ph), o)
         IN  /\ PbuTyped(q)
             /\ OfKept(p, K) => OfKept(q, Change(K, n, o))
             /\ ~K[n].ice /\ CurrentKept(p, K, ph) => CurrentKept(q, Change(K, n, o), ph)
<1>1. PICK v : v = PBUOrderStatDel(p, K[n], ph)
  OBVIOUS
<1>2. PICK J : J = Without(K, n)
  OBVIOUS
<1>3. PICK q : q = UpdatePBUOrderSortList(PBUOrderStatAdd(v, o, ph), o)
  OBVIOUS
<1>4. /\ PbuTyped(v)
      /\ OfKept(p, K) => OfKept(v, J)
      /\ ~K[n].ice /\ CurrentKept(p, K, ph) => CurrentKept(v, J, ph)
  BY <1>1, <1>2, MemberDels
<1>5. Holding(J) /\ n \notin DOMAIN J
  BY <1>2, AmountTypes, OrderLeaves
<1>6. /\ PbuTyped(q)
      /\ OfKept(v, J) => OfKept(q, With(J, n, o))
      /\ CurrentKept(v, J, ph) => CurrentKept(q, With(J, n, o), ph)
  BY <1>3, <1>4, <1>5, MemberAdds
<1>7. Change(K, n, o) = With(J, n, o)
  BY <1>2 DEF Change
<1>8. QED
  BY <1>1, <1>3, <1>4, <1>6, <1>7

\* The sums that hold while no iceberg order is changed.
PartsKept(s, p, K) == PhaseKept(s, K) /\ OfKept(p, K)

\* From the sums of K to those of L, o being the changed order: its current sum whatever it is,
\* the others if it shows all it holds.
Carries(s, p, K, r, q, L, o) ==
  /\ r \in SumTypes /\ PbuTyped(q)
  /\ OrderKept(s, K, phase) => OrderKept(r, L, phase)
  /\ ~o.ice /\ PartsKept(s, p, K) => PartsKept(r, q, L)
  /\ ~o.ice /\ CurrentKept(p, K, phase) => CurrentKept(q, L, phase)

\* A new quantity.
LEMMA RequantifiedKeeps ==
  ASSUME NEW s, NEW p, NEW K, NEW n, NEW b \in Nat,
         s \in SumTypes, PbuTyped(p), Holding(K), n \in DOMAIN K
  PROVE  LET o1 == [K[n] EXCEPT !.balance = b]
             first == Requantified(s, p, K[n], o1)
         IN  Carries(s, p, K, first[1], first[2], Change(K, n, o1), K[n])
<1>1. PICK o \in Kinds : o = K[n]
  BY DEF Holding
<1>2. PICK o1 : o1 = [o EXCEPT !.balance = b]
  OBVIOUS
<1>3. o1 \in Kinds /\ o1.side = o.side /\ o1.type = o.type /\ o1.ice = o.ice /\ o1.balance = b
  BY <1>2 DEF Kinds
<1>4. PICK first : first = Requantified(s, p, o, o1)
  OBVIOUS
<1>5. PICK L : L = Change(K, n, o1)
  OBVIOUS
<1>6. CASE b = o.balance \/ o.ice
  <2>1. first = <<s, p>>
    BY <1>3, <1>4, <1>6 DEF Requantified
  <2>2. Shown(o1) = Shown(o)
    BY <1>2, <1>3, <1>6 DEF Shown, Kinds
  <2>3. IsTradingPhase(o1, phase) <=> IsTradingPhase(o, phase)
    BY <1>3 DEF IsTradingPhase
  <2>4. OrderKept(s, K, phase) => OrderKept(s, L, phase)
    BY <1>1, <1>3, <1>5, <2>2, <2>3, OrderUnmoved
  <2>5. CASE o.ice
    BY <1>1, <1>2, <1>4, <1>5, <2>1, <2>4, <2>5 DEF Carries
  <2>6. CASE ~o.ice
    <3>1. o1 = o
      BY <1>2, <1>6, <2>6 DEF Kinds
    <3>2. L = Change(K, n, K[n])
      BY <1>1, <1>5, <3>1
    <3>3. /\ PhaseKept(s, K) => PhaseKept(s, L)
          /\ OfKept(p, K) => OfKept(p, L)
          /\ CurrentKept(p, K, phase) => CurrentKept(p, L, phase)
      BY <3>2, AllUnmoved
    <3>4. QED
      BY <1>1, <1>2, <1>4, <1>5, <2>1, <2>4, <3>3 DEF Carries, PartsKept
  <2>7. QED
    BY <2>5, <2>6
<1>7. CASE ~(b = o.balance \/ o.ice)
  <2>1. PICK q : q = UpdatePBUOrderSortList(PBUOrderStatAdd(PBUOrderStatDel(p, o, phase), o1, phase), o1)
    OBVIOUS
  <2>2. PICK out : out = Attaching(s, o, phase, -1)
    OBVIOUS
  <2>3. PICK r : r = Attaching(out, o1, phase, 1)
    OBVIOUS
  <2>4. first = <<r, q>>
    <3>1. StockStat(IF Counts(o) THEN UpdateStock(s, o, -1) ELSE s, o, -1) = out
      BY <2>2, DetachAttach
    <3>2. StockStat(IF Counts(o1) THEN UpdateStock(out, o1, 1) ELSE out, o1, 1) = r
      BY <2>3, DetachAttach
    <3>3. QED
      BY <1>3, <1>4, <1>7, <2>1, <3>1, <3>2 DEF Requantified
  <2>5. PICK J : J = Without(K, n)
    OBVIOUS
  <2>6. /\ out \in SumTypes
        /\ OrderKept(s, K, phase) => OrderKept(out, J, phase)
        /\ PhaseKept(s, K) => PhaseKept(out, J)
    BY <1>1, <2>2, <2>5, DetachingKeeps
  <2>7. Holding(J) /\ n \notin DOMAIN J
    BY <2>5, AmountTypes, OrderLeaves
  <2>8. /\ r \in SumTypes
        /\ OrderKept(out, J, phase) => OrderKept(r, With(J, n, o1), phase)
        /\ PhaseKept(out, J) => PhaseKept(r, With(J, n, o1))
    BY <1>3, <2>3, <2>6, <2>7, AttachingKeeps
  <2>9. L = With(J, n, o1)
    BY <1>5, <2>5 DEF Change
  <2>10. /\ PbuTyped(q)
         /\ OfKept(p, K) => OfKept(q, L)
         /\ ~o.ice /\ CurrentKept(p, K, phase) => CurrentKept(q, L, phase)
    BY <1>1, <1>3, <1>5, <2>1, MemberChanges
  <2>11. QED
    BY <1>1, <1>2, <1>4, <1>5, <2>4, <2>6, <2>8, <2>9, <2>10 DEF Carries, PartsKept
<1>8. QED
  BY <1>6, <1>7

\* A new restriction, by whether the order counts before and after.
LEMMA RestrictedUnfolds ==
  ASSUME NEW s, NEW p, NEW o, NEW new, NEW moved, NEW q, new.type # o.type,
         moved = StockStat(StockStat(s, o, -1), new, 1),
         q = UpdatePBUOrderSortList(PBUOrderStatAdd(PBUOrderStatDel(p, o, phase), new, phase), new)
  PROVE  /\ Counts(o) /\ ~Counts(new) => Restricted(s, p, o, new) = <<UpdateStock(moved, new, -1), q>>
         /\ Counts(new) /\ ~Counts(o) => Restricted(s, p, o, new) = <<UpdateStock(moved, new, 1), q>>
         /\ (Counts(o) <=> Counts(new)) => Restricted(s, p, o, new) = <<moved, q>>
<1>1. Restricted(s, p, o, new) =
        <<CASE Counts(o) /\ ~Counts(new) -> UpdateStock(moved, new, -1)
            [] Counts(new) /\ ~Counts(o) -> UpdateStock(moved, new, 1)
            [] OTHER -> moved, q>>
  BY DEF Restricted
<1>2. ASSUME Counts(o) /\ ~Counts(new) PROVE Restricted(s, p, o, new) = <<UpdateStock(moved, new, -1), q>>
  BY <1>1, <1>2, Zenon
<1>3. ASSUME Counts(new) /\ ~Counts(o) PROVE Restricted(s, p, o, new) = <<UpdateStock(moved, new, 1), q>>
  BY <1>1, <1>3, Zenon
<1>4. ASSUME Counts(o) <=> Counts(new) PROVE Restricted(s, p, o, new) = <<moved, q>>
  BY <1>1, <1>4, Zenon
<1>5. QED
  BY <1>2, <1>3, <1>4

LEMMA RestrictedKeeps ==
  ASSUME NEW s, NEW p, NEW K, NEW n, NEW t \in STRING,
         s \in SumTypes, PbuTyped(p), Holding(K), n \in DOMAIN K
  PROVE  LET o2 == [K[n] EXCEPT !.type = t]
             both == Restricted(s, p, K[n], o2)
         IN  Carries(s, p, K, both[1], both[2], Change(K, n, o2), K[n])
<1>1. PICK o \in Kinds : o = K[n]
  BY DEF Holding
<1>2. PICK o2 : o2 = [o EXCEPT !.type = t]
  OBVIOUS
<1>3. o2 \in Kinds /\ o2.side = o.side /\ o2.type = t /\ o2.ice = o.ice /\ Shown(o2) = Shown(o)
  BY <1>2 DEF Kinds, Shown
<1>4. PICK both : both = Restricted(s, p, o, o2)
  OBVIOUS
<1>5. PICK L : L = Change(K, n, o2)
  OBVIOUS
<1>6. CASE t = o.type
  <2>1. o2 = o
    BY <1>2, <1>6 DEF Kinds
  <2>2. both = <<s, p>>
    BY <1>4, <2>1 DEF Restricted
  <2>3. L = Change(K, n, K[n])
    BY <1>1, <1>5, <2>1
  <2>4. /\ PhaseKept(s, K) => PhaseKept(s, L)
        /\ OfKept(p, K) => OfKept(p, L)
        /\ CurrentKept(p, K, phase) => CurrentKept(p, L, phase)
    BY <2>3, AllUnmoved
  <2>5. OrderKept(s, K, phase) => OrderKept(s, L, phase)
    BY <1>1, <2>3, OrderUnmoved
  <2>6. QED
    BY <1>1, <1>2, <1>4, <1>5, <2>2, <2>4, <2>5 DEF Carries, PartsKept
<1>7. CASE t # o.type
  <2>1. PICK q : q = UpdatePBUOrderSortList(PBUOrderStatAdd(PBUOrderStatDel(p, o, phase), o2, phase), o2)
    OBVIOUS
  <2>2. PICK out : out = StockStat(s, o, -1)
    OBVIOUS
  <2>3. PICK moved : moved = StockStat(out, o2, 1)
    OBVIOUS
  <2>4. PICK J : J = Without(K, n)
    OBVIOUS
  <2>5. 1 \in {1, -1} /\ -1 \in {1, -1}
    OBVIOUS
  <2>6. /\ out \in SumTypes
        /\ OrderKept(s, K, phase) => OrderKept(out, K, phase)
        /\ PhaseKept(s, K) => PhaseKept(out, J)
    BY <1>1, <2>2, <2>4, <2>5, StockStatMoves, StockApart, StockLeaves
  <2>7. Holding(J) /\ n \notin DOMAIN J
    BY <2>4, AmountTypes, OrderLeaves
  <2>8. L = With(J, n, o2)
    BY <1>5, <2>4 DEF Change
  <2>9. /\ moved \in SumTypes
        /\ OrderKept(out, K, phase) => OrderKept(moved, K, phase)
        /\ PhaseKept(out, J) => PhaseKept(moved, L)
    BY <1>3, <2>3, <2>5, <2>6, <2>7, <2>8, StockStatMoves, StockApart, StockEnters
  <2>10. /\ PbuTyped(q)
         /\ OfKept(p, K) => OfKept(q, L)
         /\ ~o.ice /\ CurrentKept(p, K, phase) => CurrentKept(q, L, phase)
    BY <1>1, <1>3, <1>5, <2>1, MemberChanges
  <2>11. /\ Counts(o) /\ ~Counts(o2) => both = <<UpdateStock(moved, o2, -1), q>>
         /\ Counts(o2) /\ ~Counts(o) => both = <<UpdateStock(moved, o2, 1), q>>
         /\ (Counts(o) <=> Counts(o2)) => both = <<moved, q>>
    BY <1>3, <1>4, <1>7, <2>1, <2>2, <2>3, RestrictedUnfolds
  <2>12. PICK r : r = both[1]
    OBVIOUS
  <2>13. /\ r \in SumTypes
         /\ PhaseKept(moved, L) => PhaseKept(r, L)
         /\ OrderKept(moved, K, phase) => OrderKept(r, L, phase)
    <3>1. CASE Counts(o) /\ ~Counts(o2)
      <4>1. r = UpdateCounted(moved, o, phase, -1)
        BY <1>3, <2>11, <2>12, <3>1 DEF UpdateCounted, UpdateStock, Counts
      <4>2. r \in SumTypes /\ (PhaseKept(moved, L) => PhaseKept(r, L))
        BY <2>5, <2>9, <4>1, UpdateCountedMoves, StockApart
      <4>3. OrderKept(moved, K, phase) => OrderKept(r, J, phase)
        BY <1>1, <2>4, <2>9, <4>1, StockLeaves
      <4>4. UpdateCounted(r, o2, phase, 1) = r
        BY <3>1 DEF UpdateCounted, Counts
      <4>5. OrderKept(r, J, phase) => OrderKept(r, L, phase)
        BY <1>3, <2>7, <2>8, <4>2, <4>4, StockEnters
      <4>6. QED
        BY <4>2, <4>3, <4>5
    <3>2. CASE Counts(o2) /\ ~Counts(o)
      <4>1. r = UpdateCounted(moved, o2, phase, 1)
        BY <2>11, <2>12, <3>2 DEF UpdateCounted, Counts
      <4>2. r \in SumTypes /\ (PhaseKept(moved, L) => PhaseKept(r, L))
        BY <1>3, <2>5, <2>9, <4>1, UpdateCountedMoves, StockApart
      <4>3. UpdateCounted(moved, o, phase, -1) = moved
        BY <3>2 DEF UpdateCounted, Counts
      <4>4. OrderKept(moved, K, phase) => OrderKept(moved, J, phase)
        BY <1>1, <2>4, <2>9, <4>3, StockLeaves
      <4>5. OrderKept(moved, J, phase) => OrderKept(r, L, phase)
        BY <1>3, <2>7, <2>8, <2>9, <4>1, StockEnters
      <4>6. QED
        BY <4>2, <4>4, <4>5
    <3>3. CASE Counts(o) <=> Counts(o2)
      <4>1. r = moved
        BY <2>11, <2>12, <3>3
      <4>2. OrderKept(moved, K, phase) => OrderKept(moved, L, phase)
        BY <1>1, <1>3, <1>5, <3>3, OrderUnmoved DEF Counts
      <4>3. QED
        BY <2>9, <4>1, <4>2
    <3>4. QED
      BY <3>1, <3>2, <3>3
  <2>14. both[2] = q
    BY <2>11
  <2>15. Carries(s, p, K, r, q, L, o)
    BY <2>6, <2>9, <2>10, <2>13 DEF Carries, PartsKept
  <2>16. QED
    BY <1>1, <1>2, <1>4, <1>5, <2>12, <2>14, <2>15
<1>8. QED
  BY <1>6, <1>7

\* ModifyOrder: the quantity first, then the restriction.
LEMMA ModifiedKeeps ==
  ASSUME NEW s, NEW p, NEW K, NEW n, NEW b \in Nat, NEW t \in STRING,
         s \in SumTypes, PbuTyped(p), Holding(K), n \in DOMAIN K
  PROVE  LET o1 == [K[n] EXCEPT !.balance = b]
             o2 == [o1 EXCEPT !.type = t]
             first == Requantified(s, p, K[n], o1)
             both == Restricted(first[1], first[2], o1, o2)
         IN  /\ o2 \in Kinds
             /\ Carries(s, p, K, both[1], both[2], Change(Change(K, n, o1), n, o2), K[n])
<1>1. PICK o \in Kinds : o = K[n]
  BY DEF Holding
<1>2. PICK o1 : o1 = [o EXCEPT !.balance = b]
  OBVIOUS
<1>3. PICK o2 : o2 = [o1 EXCEPT !.type = t]
  OBVIOUS
<1>4. o1 \in Kinds /\ o2 \in Kinds /\ o1.ice = o.ice
  BY <1>2, <1>3 DEF Kinds
<1>5. PICK first : first = Requantified(s, p, o, o1)
  OBVIOUS
<1>6. PICK both : both = Restricted(first[1], first[2], o1, o2)
  OBVIOUS
<1>7. PICK K1 : K1 = Change(K, n, o1)
  OBVIOUS
<1>8. PICK L : L = Change(K1, n, o2)
  OBVIOUS
<1>9. Carries(s, p, K, first[1], first[2], K1, o)
  BY <1>1, <1>2, <1>5, <1>7, RequantifiedKeeps
<1>10. Holding(K1) /\ n \in DOMAIN K1 /\ K1[n] = o1
  BY <1>4, <1>7, Swapped
<1>11. first[1] \in SumTypes /\ PbuTyped(first[2])
  BY <1>9 DEF Carries
<1>12. Carries(first[1], first[2], K1, both[1], both[2], L, o1)
  BY <1>3, <1>6, <1>8, <1>10, <1>11, RestrictedKeeps
<1>13. Carries(s, p, K, both[1], both[2], L, o)
  BY <1>4, <1>9, <1>12 DEF Carries
<1>14. QED
  BY <1>1, <1>2, <1>3, <1>4, <1>5, <1>6, <1>7, <1>8, <1>13

(***************************************************************************)
(* A new phase.                                                            *)
(***************************************************************************)
LEMMA TypesOfPhase ==
  ASSUME NEW ph
  PROVE  /\ ph = "OCALL" => TypesOf(ph) = {"OA", "AU"}
         /\ ph = "ICALL" => TypesOf(ph) = {"AU"}
         /\ ph \in BalancePhases => TypesOf(ph) = {"SU"}
         /\ ph = "FCALL" => TypesOf(ph) = {"FP"}
         /\ ph \notin BalancePhases \cup {"OCALL", "ICALL", "FCALL"} => TypesOf(ph) = {}
<1>1. ph = "OCALL" => TypesOf(ph) = {"OA", "AU"}
  BY ZenonT(20) DEF TypesOf, BalancePhases
<1>2. ph = "ICALL" => TypesOf(ph) = {"AU"}
  BY ZenonT(20) DEF TypesOf, BalancePhases
<1>3. ph \in BalancePhases => TypesOf(ph) = {"SU"}
  BY ZenonT(20) DEF TypesOf, BalancePhases
<1>4. ph = "FCALL" => TypesOf(ph) = {"FP"}
  BY ZenonT(20) DEF TypesOf, BalancePhases
<1>5. ph \notin BalancePhases \cup {"OCALL", "ICALL", "FCALL"} => TypesOf(ph) = {}
  BY ZenonT(20) DEF TypesOf, BalancePhases
<1>6. QED
  BY <1>1, <1>2, <1>3, <1>4, <1>5

\* The orders that count in every phase.
Untied(side) == {o \in Kinds : o.side = side /\ o.type \notin Types}

LEMMA VolumeOfBoth ==
  ASSUME NEW K, NEW A, NEW B, NEW am, Holding(K), am \in [Kinds -> Int], A \cap B = {}
  PROVE  VolumeOf(K, A \cup B, am) = VolumeOf(K, A, am) + VolumeOf(K, B, am)
<1> DEFINE f == [m \in DOMAIN K |-> am[K[m]]]
<1>1. Inside(K, A \cup B) = Inside(K, A) \cup Inside(K, B) /\ Inside(K, A) \cap Inside(K, B) = {}
  BY DEF Inside
<1>2. IsFiniteSet(Inside(K, A)) /\ IsFiniteSet(Inside(K, B))
  BY VolumeType
<1>3. \A x \in Inside(K, A) \cup Inside(K, B) : f[x] \in Int
  BY DEF Inside, Holding
<1> HIDE DEF f
<1>4. SumFunctionOnSet(f, Inside(K, A) \cup Inside(K, B)) =
        SumFunctionOnSet(f, Inside(K, A)) + SumFunctionOnSet(f, Inside(K, B))
  BY <1>1, <1>2, <1>3, SumUnion
<1>5. QED
  BY <1>1, <1>4 DEF VolumeOf, f

LEMMA SumOfFew ==
  ASSUME NEW f, NEW a, f[a] \in Int
  PROVE  /\ SumFunctionOnSet(f, {a}) = f[a]
         /\ \A b : b # a /\ f[b] \in Int => SumFunctionOnSet(f, {a, b}) = f[a] + f[b]
<1>1. \A x : f[x] \in Int => SumFunctionOnSet(f, {x}) = f[x]
  <2> SUFFICES ASSUME NEW x, f[x] \in Int PROVE SumFunctionOnSet(f, {x}) = f[x]
    OBVIOUS
  <2>1. PICK S : S = {x}
    OBVIOUS
  <2>2. IsFiniteSet(S) /\ x \in S /\ \A y \in S : f[y] \in Int
    BY <2>1, FS_Singleton
  <2>3. SumFunctionOnSet(f, S) = f[x] + SumFunctionOnSet(f, S \ {x})
    BY <2>2, SumRemove
  <2>4. S \ {x} = {}
    BY <2>1
  <2>5. QED
    BY <2>1, <2>3, <2>4, SumEmpty
<1>2. ASSUME NEW b, b # a, f[b] \in Int PROVE SumFunctionOnSet(f, {a, b}) = f[a] + f[b]
  <2>1. PICK S : S = {a, b}
    OBVIOUS
  <2>2. IsFiniteSet(S) /\ a \in S /\ \A y \in S : f[y] \in Int
    <3>1. IsFiniteSet({a}) /\ S = {a} \cup {b}
      BY <2>1, FS_Singleton
    <3>2. IsFiniteSet(S)
      BY <3>1, FS_AddElement
    <3>3. QED
      BY <1>2, <2>1, <3>2
  <2>3. SumFunctionOnSet(f, S) = f[a] + SumFunctionOnSet(f, S \ {a})
    BY <2>2, SumRemove
  <2>4. S \ {a} = {b}
    BY <1>2, <2>1
  <2>5. QED
    BY <1>1, <1>2, <2>1, <2>3, <2>4
<1>3. QED
  BY <1>1, <1>2

\* What the orders of a member come to by restriction.
ByType(row, K, side, f, am) ==
  \A t \in Types : row[t] = VolumeOf(K, Tied(side, t) \cap OfFirm(f), am)

\* What counts in a phase: the orders no phase is asked about, and those of its restrictions.
LEMMA CountedVolume ==
  ASSUME NEW K, NEW am, NEW side, NEW f, NEW ph, NEW row,
         Holding(K), am \in [Kinds -> Int], ByType(row, K, side, f, am)
  PROVE  /\ SumFunctionOnSet(row, TypesOf(ph)) \in Int
         /\ VolumeOf(K, Counted(side, ph) \cap OfFirm(f), am) =
              VolumeOf(K, Untied(side) \cap OfFirm(f), am) + SumFunctionOnSet(row, TypesOf(ph))
<1> DEFINE vol(W) == VolumeOf(K, W, am)
           tied(t) == Tied(side, t) \cap OfFirm(f)
           untied == Untied(side) \cap OfFirm(f)
           counted == Counted(side, ph) \cap OfFirm(f)
<1>1. \A A, B : A \cap B = {} => vol(A \cup B) = vol(A) + vol(B)
  <2> SUFFICES ASSUME NEW A, NEW B, A \cap B = {} PROVE vol(A \cup B) = vol(A) + vol(B)
    OBVIOUS
  <2>1. QED
    BY VolumeOfBoth
<1>2. \A W : vol(W) \in Int
  BY VolumeType
<1>3. \A a, b \in Types : a # b => tied(a) \cap tied(b) = {} /\ untied \cap (tied(a) \cup tied(b)) = {}
  BY DEF Tied, Untied
<1>4. \A a \in Types : untied \cap tied(a) = {}
  BY DEF Tied, Untied
<1>5. \A a \in Types : row[a] = vol(tied(a))
  BY DEF ByType
<1>6. ASSUME TypesOf(ph) = {}
      PROVE  SumFunctionOnSet(row, TypesOf(ph)) = 0 /\ vol(counted) = vol(untied)
  <2>1. counted = untied
    BY <1>6 DEF Counted, Untied, IsTradingPhase
  <2>2. QED
    BY <1>6, <2>1, SumEmpty
<1>7. ASSUME NEW a \in Types, TypesOf(ph) = {a}
      PROVE  SumFunctionOnSet(row, TypesOf(ph)) \in Int /\ vol(counted) = vol(untied) + SumFunctionOnSet(row, TypesOf(ph))
  <2>1. counted = untied \cup tied(a)
    BY <1>7 DEF Counted, Untied, Tied, IsTradingPhase
  <2> HIDE DEF vol, tied, untied, counted
  <2>2. SumFunctionOnSet(row, {a}) = row[a]
    BY <1>2, <1>5, SumOfFew
  <2>3. QED
    BY <1>1, <1>2, <1>4, <1>5, <1>7, <2>1, <2>2
<1>8. ASSUME NEW a \in Types, NEW b \in Types, a # b, TypesOf(ph) = {a, b}
      PROVE  SumFunctionOnSet(row, TypesOf(ph)) \in Int /\ vol(counted) = vol(untied) + SumFunctionOnSet(row, TypesOf(ph))
  <2>1. counted = untied \cup (tied(a) \cup tied(b))
    BY <1>8 DEF Counted, Untied, Tied, IsTradingPhase
  <2> HIDE DEF vol, tied, untied, counted
  <2>2. SumFunctionOnSet(row, {a, b}) = row[a] + row[b]
    <3>1. row[a] \in Int /\ row[b] \in Int /\ b # a
      BY <1>2, <1>5, <1>8
    <3>2. QED
      BY <3>1, SumOfFew
  <2>3. vol(untied \cup (tied(a) \cup tied(b))) = vol(untied) + vol(tied(a) \cup tied(b))
    BY <1>1, <1>3, <1>8
  <2>4. vol(tied(a) \cup tied(b)) = vol(tied(a)) + vol(tied(b))
    BY <1>1, <1>3, <1>8
  <2>5. vol(untied) \in Int /\ vol(tied(a)) \in Int /\ vol(tied(b)) \in Int
    BY <1>2
  <2>6. row[a] = vol(tied(a)) /\ row[b] = vol(tied(b))
    BY <1>5
  <2>7. QED
    BY <1>8, <2>1, <2>2, <2>3, <2>4, <2>5, <2>6
<1>9. \/ TypesOf(ph) = {"OA", "AU"} \/ TypesOf(ph) = {"AU"} \/ TypesOf(ph) = {"SU"}
      \/ TypesOf(ph) = {"FP"} \/ TypesOf(ph) = {}
  BY TypesOfPhase DEF BalancePhases
<1>10. "OA" \in Types /\ "AU" \in Types /\ "SU" \in Types /\ "FP" \in Types /\ "OA" # "AU"
  BY DEF Types
<1> HIDE DEF vol, tied, untied, counted
<1>11. SumFunctionOnSet(row, TypesOf(ph)) \in Int /\ vol(counted) = vol(untied) + SumFunctionOnSet(row, TypesOf(ph))
  <2>1. CASE TypesOf(ph) = {}
    BY <1>2, <1>6, <2>1
  <2>2. CASE TypesOf(ph) = {"OA", "AU"}
    BY <1>8, <1>10, <2>2
  <2>3. CASE TypesOf(ph) = {"AU"}
    BY <1>7, <1>10, <2>3
  <2>4. CASE TypesOf(ph) = {"SU"}
    BY <1>7, <1>10, <2>4
  <2>5. CASE TypesOf(ph) = {"FP"}
    BY <1>7, <1>10, <2>5
  <2>6. QED
    BY <1>9, <2>1, <2>2, <2>3, <2>4, <2>5
<1>12. QED
  BY <1>11 DEF vol, untied, counted

\* What a phase change takes out of the members' current sums, and when that is what the old
\* phase counted.
TakenOut(pre, ph) ==
  IF pre \notin {"OCALL", "ICALL"} /\ (pre = "IOBB" \/ ph \in Mistaken) THEN {"SU"}
  ELSE IF pre \in BalancePhases THEN {} ELSE TypesOf(pre)

Skews(pre, ph) ==
  \/ pre \in Mistaken /\ ph \notin Mistaken
  \/ ph \in Mistaken /\ pre \notin BalancePhases \cup {"OCALL", "ICALL"}

LEMMA TakenOutRight ==
  ASSUME NEW pre, NEW ph, ~Skews(pre, ph)
  PROVE  TakenOut(pre, ph) = TypesOf(pre)
<1>1. "OCALL" \notin BalancePhases /\ "ICALL" \notin BalancePhases /\ Mistaken = BalancePhases \ {"IOBB"}
      /\ "IOBB" \in BalancePhases /\ "IOBB" # "OCALL" /\ "IOBB" # "ICALL"
  BY DEF BalancePhases, Mistaken
<1>2. CASE pre \in {"OCALL", "ICALL"}
  BY <1>1, <1>2 DEF TakenOut
<1>3. CASE pre \in BalancePhases
  BY <1>1, <1>3, TypesOfPhase DEF TakenOut, Skews
<1>4. CASE pre \notin {"OCALL", "ICALL"} /\ pre \notin BalancePhases
  BY <1>1, <1>4 DEF TakenOut, Skews
<1>5. QED
  BY <1>2, <1>3, <1>4

\* A member's record with another current sum.
CurrentSet(r, out, in) ==
  [r EXCEPT !.current = [side \in Sides |->
     @[side] - SumFunctionOnSet(r.of[side], out) + SumFunctionOnSet(r.of[side], in)]]

LEMMA SumOfTypes ==
  ASSUME NEW row \in [Types -> Int], NEW T, T \subseteq Types
  PROVE  SumFunctionOnSet(row, T) \in Int
<1>1. IsFiniteSet({"OA"})
  BY FS_Singleton
<1>2. IsFiniteSet({"OA"} \cup {"AU"})
  BY <1>1, FS_AddElement
<1>3. IsFiniteSet(({"OA"} \cup {"AU"}) \cup {"SU"})
  BY <1>2, FS_AddElement
<1>4. IsFiniteSet((({"OA"} \cup {"AU"}) \cup {"SU"}) \cup {"FP"})
  BY <1>3, FS_AddElement
<1>5. (({"OA"} \cup {"AU"}) \cup {"SU"}) \cup {"FP"} = Types
  BY DEF Types
<1>6. IsFiniteSet(Types)
  BY <1>4, <1>5
<1>7. IsFiniteSet(T) /\ \A t \in T : row[t] \in Int
  BY <1>6, FS_Subset
<1>8. QED
  BY <1>7, SumType

LEMMA CurrentSetType ==
  ASSUME NEW r \in PbuData, NEW out, NEW in, out \subseteq Types, in \subseteq Types
  PROVE  /\ CurrentSet(r, out, in) \in PbuData
         /\ CurrentSet(r, out, in).of = r.of
         /\ \A side \in Sides : CurrentSet(r, out, in).current[side] =
              r.current[side] - SumFunctionOnSet(r.of[side], out) + SumFunctionOnSet(r.of[side], in)
<1>1. r.of \in [Sides -> [Types -> Int]] /\ r.current \in [Sides -> Int]
  BY DEF PbuData
<1>2. \A side \in Sides : /\ SumFunctionOnSet(r.of[side], out) \in Int
                          /\ SumFunctionOnSet(r.of[side], in) \in Int
  BY <1>1, SumOfTypes
<1>3. PICK current : current = [side \in Sides |->
        r.current[side] - SumFunctionOnSet(r.of[side], out) + SumFunctionOnSet(r.of[side], in)]
  OBVIOUS
<1>4. current \in [Sides -> Int]
  BY <1>1, <1>2, <1>3
<1>5. CurrentSet(r, out, in) = [r EXCEPT !.current = current]
  BY <1>3 DEF CurrentSet
<1>6. [r EXCEPT !.current = current] \in PbuData /\ [r EXCEPT !.current = current].of = r.of
      /\ [r EXCEPT !.current = current].current = current
  BY <1>4 DEF PbuData
<1>7. QED
  BY <1>3, <1>5, <1>6

LEMMA StatusData ==
  ASSUME NEW p, NEW pre, NEW ph, PbuTyped(p)
  PROVE  LET q == PBUStatusChange(p, pre, ph)
         IN  /\ PbuTyped(q)
             /\ \A f \in Firms : q.data[f] = CurrentSet(p.data[f], TakenOut(pre, ph), TypesOf(ph))
<1>1. PICK out : out = TakenOut(pre, ph)
  OBVIOUS
<1>2. PICK in : in = TypesOf(ph)
  OBVIOUS
<1>3. out \subseteq Types /\ in \subseteq Types
  <2>1. \A x : TypesOf(x) \subseteq Types
    BY TypesOfPhase DEF Types, BalancePhases
  <2>2. QED
    BY <1>1, <1>2, <2>1 DEF TakenOut, Types
<1>4. PICK d : d = [f \in Firms |-> CurrentSet(p.data[f], out, in)]
  OBVIOUS
<1>5. d \in [Firms -> PbuData]
  BY <1>3, <1>4, CurrentSetType DEF PbuTyped
<1>6. PBUStatusChange(p, pre, ph) = [p EXCEPT !.data = d]
  <2>1. d = [f \in Firms |-> [p.data[f] EXCEPT !.current = [side \in Sides |->
              @[side] - SumFunctionOnSet(p.data[f].of[side], out) + SumFunctionOnSet(p.data[f].of[side], in)]]]
    BY <1>4 DEF CurrentSet
  <2>2. PBUStatusChange(p, pre, ph) =
          [p EXCEPT !.data = [f \in Firms |-> [p.data[f] EXCEPT !.current = [side \in Sides |->
              @[side] - SumFunctionOnSet(p.data[f].of[side], out) + SumFunctionOnSet(p.data[f].of[side], in)]]]]
    BY <1>1, <1>2, Zenon DEF PBUStatusChange, TakenOut
  <2>3. QED
    BY <2>1, <2>2, Zenon
<1>7. PbuTyped([p EXCEPT !.data = d]) /\ [p EXCEPT !.data = d].data = d
  BY <1>5 DEF PbuTyped
<1>8. QED
  BY <1>1, <1>2, <1>4, <1>6, <1>7

LEMMA ResortData ==
  ASSUME NEW p, PbuTyped(p)
  PROVE  PbuTyped(ResortPBUSortList(p)) /\ ResortPBUSortList(p).data = p.data
<1>1. PICK a, b, c : ResortPBUSortList(p) = [p EXCEPT !.ranked = a, !.last = b, !.sortNo = c]
  BY DEF ResortPBUSortList
<1>2. QED
  BY <1>1 DEF PbuTyped

\* Orders that show all they hold.
LEMMA NoIceberg ==
  ASSUME NEW K, NEW W, Holding(K), \A n \in DOMAIN K : ~K[n].ice
  PROVE  VolumeOf(K, W, Amounts) = VolumeOf(K, W, Balances)
<1> DEFINE f == [n \in DOMAIN K |-> Amounts[K[n]]]
           g == [n \in DOMAIN K |-> Balances[K[n]]]
<1>1. IsFiniteSet(Inside(K, W)) /\ Inside(K, W) \subseteq DOMAIN K
  BY AmountTypes, VolumeType DEF Inside
<1>2. \A n \in DOMAIN K : f[n] = g[n]
  <2>1. \A n \in DOMAIN K : K[n] \in Kinds
    BY DEF Holding
  <2>2. \A o \in Kinds : ~o.ice => Amounts[o] = Balances[o]
    BY DEF Amounts, Balances, Shown
  <2>3. QED
    BY <2>1, <2>2
<1> HIDE DEF f, g
<1>3. SumFunctionOnSet(f, Inside(K, W)) = SumFunctionOnSet(g, Inside(K, W))
  BY <1>1, <1>2, SumSame
<1>4. QED
  BY <1>3 DEF VolumeOf, f, g

\* A change of the phase takes out of every member's current sum what the old phase counted,
\* unless it mistakes the phase, and puts in what the new one counts.
LEMMA PhaseChangeKeeps ==
  ASSUME NEW p, NEW K, NEW pre, NEW ph, PbuTyped(p), Holding(K)
  PROVE  LET q == ResortPBUSortList(PBUStatusChange(p, pre, ph))
         IN  /\ PbuTyped(q)
             /\ OfKept(p, K) => OfKept(q, K)
             /\ /\ OfKept(p, K) /\ CurrentKept(p, K, pre) /\ ~Skews(pre, ph)
                /\ \A n \in DOMAIN K : ~K[n].ice
                => CurrentKept(q, K, ph)
<1>1. PICK v : v = PBUStatusChange(p, pre, ph)
  OBVIOUS
<1>2. PICK q : q = ResortPBUSortList(v)
  OBVIOUS
<1>3. PbuTyped(v) /\ \A f \in Firms : v.data[f] = CurrentSet(p.data[f], TakenOut(pre, ph), TypesOf(ph))
  BY <1>1, StatusData
<1>4. PbuTyped(q) /\ q.data = v.data
  BY <1>2, <1>3, ResortData
<1>5. TakenOut(pre, ph) \subseteq Types /\ TypesOf(ph) \subseteq Types
  <2>1. \A x : TypesOf(x) \subseteq Types
    BY TypesOfPhase DEF Types, BalancePhases
  <2>2. QED
    BY <2>1 DEF TakenOut, Types
<1>6. ASSUME NEW f \in Firms
      PROVE  /\ p.data[f] \in PbuData
             /\ q.data[f].of = p.data[f].of
             /\ \A side \in Sides : q.data[f].current[side] = p.data[f].current[side]
                  - SumFunctionOnSet(p.data[f].of[side], TakenOut(pre, ph))
                  + SumFunctionOnSet(p.data[f].of[side], TypesOf(ph))
  <2>1. p.data[f] \in PbuData
    BY DEF PbuTyped
  <2>2. q.data[f] = CurrentSet(p.data[f], TakenOut(pre, ph), TypesOf(ph))
    BY <1>3, <1>4
  <2>3. PICK r \in PbuData : r = p.data[f]
    BY <2>1
  <2>4. QED
    BY <1>5, <2>1, <2>2, <2>3, CurrentSetType
<1>7. ASSUME OfKept(p, K) PROVE OfKept(q, K)
  BY <1>6, <1>7 DEF OfKept
<1>8. ASSUME OfKept(p, K), CurrentKept(p, K, pre), ~Skews(pre, ph), \A n \in DOMAIN K : ~K[n].ice
      PROVE  CurrentKept(q, K, ph)
  <2> SUFFICES ASSUME NEW side \in Sides, NEW f \in Firms
               PROVE  q.data[f].current[side] = VolumeOf(K, Counted(side, ph) \cap OfFirm(f), Amounts)
    BY DEF CurrentKept
  <2>1. PICK row : row = p.data[f].of[side]
    OBVIOUS
  <2>2. \A t \in Types : row[t] = VolumeOf(K, Tied(side, t) \cap OfFirm(f), Balances)
    BY <1>8, <2>1 DEF OfKept
  <2>3. \A x : /\ SumFunctionOnSet(row, TypesOf(x)) \in Int
               /\ VolumeOf(K, Counted(side, x) \cap OfFirm(f), Balances) =
                    VolumeOf(K, Untied(side) \cap OfFirm(f), Balances) + SumFunctionOnSet(row, TypesOf(x))
    <3> SUFFICES ASSUME NEW x
                 PROVE  /\ SumFunctionOnSet(row, TypesOf(x)) \in Int
                        /\ VolumeOf(K, Counted(side, x) \cap OfFirm(f), Balances) =
                             VolumeOf(K, Untied(side) \cap OfFirm(f), Balances)
                               + SumFunctionOnSet(row, TypesOf(x))
      OBVIOUS
    <3>1. PICK am \in [Kinds -> Int] : am = Balances
      BY AmountTypes
    <3>2. ByType(row, K, side, f, am)
      BY <2>2, <3>1 DEF ByType
    <3>3. QED
      BY <3>1, <3>2, CountedVolume
  <2>4. VolumeOf(K, Untied(side) \cap OfFirm(f), Balances) \in Int
    BY AmountTypes, VolumeType
  <2>5. /\ p.data[f].current[side] = VolumeOf(K, Counted(side, pre) \cap OfFirm(f), Balances)
        /\ VolumeOf(K, Counted(side, ph) \cap OfFirm(f), Amounts)
             = VolumeOf(K, Counted(side, ph) \cap OfFirm(f), Balances)
    BY <1>8, NoIceberg DEF CurrentKept
  <2>6. q.data[f].current[side] = p.data[f].current[side]
          - SumFunctionOnSet(row, TypesOf(pre)) + SumFunctionOnSet(row, TypesOf(ph))
    BY <1>6, <1>8, <2>1, TakenOutRight
  <2>7. QED
    BY <2>3, <2>4, <2>5, <2>6
<1>9. QED
  BY <1>1, <1>2, <1>4, <1>7, <1>8

(***************************************************************************)
(* The state: the orders in the book, and the order table behind them.     *)
(***************************************************************************)
Book == [n \in live |-> placed[n + 1].kind]

\* A row is a record with a kind, whatever level it names.
IsRow(r) == r \in [kind : Kinds, priceLevel : {r.priceLevel}, orderQty : {r.orderQty}]

\* A sequence of k elements.
Rowed(p, k) == p \in Seq({p[i] : i \in 1..k}) /\ Len(p) = k

RowsKept ==
  /\ nextOrder \in Nat /\ Rowed(placed, nextOrder)
  /\ \A i \in 1..nextOrder : IsRow(placed[i])
  /\ pc # "idle" => nextOrder > 0
  /\ live \subseteq 0..nextOrder - 1
  /\ pc # "idle" => nextOrder - 1 \notin live

MembersKept == PhaseKept(sums, Book) /\ OfKept(pbu, Book)

SumsInv ==
  \/ again
  \/ /\ sums \in SumTypes /\ PbuTyped(pbu)
     /\ rephased \/ OrderKept(sums, Book, phase)
     /\ iced \/ MembersKept
     /\ iced \/ skewed \/ CurrentKept(pbu, Book, phase)

StatInv == RowsKept /\ SumsInv

LEMMA BookHolds ==
  ASSUME RowsKept
  PROVE  /\ Holding(Book) /\ DOMAIN Book = live /\ IsFiniteSet(live)
         /\ \A n \in live : Book[n] = placed[n + 1].kind /\ Book[n] \in Kinds
<1>1. \A n \in live : n \in Int /\ n + 1 \in 1..nextOrder
  BY DEF RowsKept
<1>2. \A n \in live : placed[n + 1].kind \in Kinds
  BY <1>1 DEF RowsKept, IsRow
<1>3. IsFiniteSet(0..nextOrder - 1)
  BY FS_Interval DEF RowsKept
<1>4. IsFiniteSet(live)
  BY <1>3, FS_Subset DEF RowsKept
<1>5. QED
  BY <1>2, <1>4 DEF Book, Holding

LEMMA RowedIn ==
  ASSUME NEW q, NEW S, NEW k, q \in Seq(S), Len(q) = k
  PROVE  Rowed(q, k)
BY DEF Rowed

\* One row more, and one row changed.
Longer(q, p, k, r) == Rowed(q, k + 1) /\ q[k + 1] = r /\ \A i \in 1..k : q[i] = p[i]
Altered(q, p, k, j, r) == Rowed(q, k) /\ q[j] = r /\ \A i \in 1..k : i # j => q[i] = p[i]

LEMMA RowAppended ==
  ASSUME NEW p, NEW k, NEW r, k \in Nat, Rowed(p, k)
  PROVE  Longer(Append(p, r), p, k, r)
<1>1. PICK S : S = {p[i] : i \in 1..k} \cup {r}
  OBVIOUS
<1>2. p \in Seq(S) /\ Len(p) = k /\ r \in S
  BY <1>1 DEF Rowed
<1>3. PICK q : q = Append(p, r)
  OBVIOUS
<1>4. q \in Seq(S) /\ Len(q) = k + 1 /\ q[k + 1] = r /\ \A i \in 1..k : q[i] = p[i]
  BY <1>2, <1>3
<1>5. Rowed(q, k + 1)
  BY <1>4, RowedIn
<1>6. QED
  BY <1>3, <1>4, <1>5 DEF Longer

LEMMA RowChanged ==
  ASSUME NEW p, NEW k, NEW r, NEW j, k \in Nat, j \in 1..k, Rowed(p, k)
  PROVE  Altered([p EXCEPT ![j] = r], p, k, j, r)
<1>1. PICK S : S = {p[i] : i \in 1..k} \cup {r}
  OBVIOUS
<1>2. p \in Seq(S) /\ Len(p) = k /\ r \in S
  BY <1>1 DEF Rowed
<1>3. PICK q : q = [p EXCEPT ![j] = r]
  OBVIOUS
<1>4. q \in Seq(S) /\ Len(q) = k /\ q[j] = r /\ \A i \in 1..k : i # j => q[i] = p[i]
  BY <1>2, <1>3
<1>5. Rowed(q, k)
  BY <1>4, RowedIn
<1>6. QED
  BY <1>3, <1>4, <1>5 DEF Altered

\* Orders come in one at a time.
LEMMA AddKeepsStat ==
  ASSUME StatInv, AddOrder
  PROVE  StatInv'
<1>1. PICK o \in OrderKinds :
        /\ nextOrder' = nextOrder + 1 /\ pc' = "walk"
        /\ placed' = Append(placed, [kind |-> o, priceLevel |-> NULL_INDEX, orderQty |-> 0])
  BY DEF AddOrder, Enter, PushOrder
<1>2. pc = "idle" /\ UNCHANGED <<phase, sums, pbu, live, again, iced, rephased, skewed>>
  BY DEF AddOrder, sumVars, historyVars
<1>3. PICK r : r = [kind |-> o, priceLevel |-> NULL_INDEX, orderQty |-> 0]
  OBVIOUS
<1>4. o \in Kinds
  BY KindAssumption
<1>5. IsRow(r) /\ r.kind = o
  BY <1>3, <1>4 DEF IsRow
<1>6. /\ Rowed(placed', nextOrder + 1) /\ placed'[nextOrder + 1] = r
      /\ \A i \in 1..nextOrder : placed'[i] = placed[i]
  <2>1. nextOrder \in Nat /\ Rowed(placed, nextOrder)
    BY DEF StatInv, RowsKept
  <2>2. Longer(Append(placed, r), placed, nextOrder, r)
    BY <2>1, RowAppended
  <2>3. QED
    BY <1>1, <1>3, <2>2 DEF Longer
<1>7. RowsKept'
  <2>1. nextOrder \in Nat /\ live \subseteq 0..nextOrder - 1 /\ \A i \in 1..nextOrder : IsRow(placed[i])
    BY DEF StatInv, RowsKept
  <2>2. \A i \in 1..nextOrder + 1 : IsRow(placed'[i])
    <3>1. \A i \in 1..nextOrder + 1 : i = nextOrder + 1 \/ i \in 1..nextOrder
      BY <2>1
    <3>2. QED
      BY <1>5, <1>6, <2>1, <3>1
  <2>3. live' \subseteq 0..nextOrder' - 1 /\ nextOrder' - 1 \notin live'
    BY <1>1, <1>2, <2>1
  <2>4. nextOrder' \in Nat /\ nextOrder' > 0
    BY <1>1, <2>1
  <2>5. QED
    BY <1>1, <1>6, <2>2, <2>3, <2>4 DEF RowsKept
<1>8. Book' = Book
  <2>1. \A n \in live : placed'[n + 1] = placed[n + 1]
    BY <1>6 DEF StatInv, RowsKept
  <2>2. QED
    BY <1>2, <2>1 DEF Book
<1>9. SumsInv'
  BY <1>2, <1>8 DEF StatInv, SumsInv, MembersKept
<1>10. QED
  BY <1>7, <1>9 DEF StatInv

\* AttachOrder ends: the order in hand counts from now on.
LEMMA AttachedKeeps ==
  ASSUME StatInv, pc # "idle", pc' = "idle", nextOrder' = nextOrder, NEW k, Attached(k)
  PROVE  StatInv'
<1> DEFINE n == nextOrder - 1
<1>1. /\ nextOrder \in Nat /\ nextOrder > 0 /\ Len(placed) = nextOrder /\ n \notin live
      /\ Rowed(placed, nextOrder) /\ \A i \in 1..nextOrder : IsRow(placed[i])
      /\ live \subseteq 0..nextOrder - 1
  BY DEF StatInv, RowsKept, Rowed
<1>2. PICK o : o = Last(placed).kind
  OBVIOUS
<1>3. o = placed[nextOrder].kind /\ IsRow(placed[nextOrder])
  BY <1>1, <1>2 DEF Last
<1>4. o \in Kinds
  BY <1>3 DEF IsRow
<1>5. /\ placed' = [placed EXCEPT ![nextOrder].priceLevel = k]
      /\ sums' = StockStat(IF Counts(o) THEN UpdateStock(sums, o, 1) ELSE sums, o, 1)
      /\ pbu' = UpdatePBUOrderSortList(PBUOrderStatAdd(pbu, o, phase), o)
      /\ live' = live \cup {n}
      /\ UNCHANGED <<phase, again, iced, rephased, skewed>>
  BY <1>1, <1>2 DEF Attached, OrderIndex
<1>6. PICK r : r = [placed[nextOrder] EXCEPT !.priceLevel = k]
  OBVIOUS
<1>7. IsRow(r) /\ r.kind = o
  BY <1>3, <1>6 DEF IsRow
<1>8. placed' = [placed EXCEPT ![nextOrder] = r]
  BY <1>1, <1>5, <1>6
<1>9. /\ Rowed(placed', nextOrder) /\ placed'[nextOrder] = r
      /\ \A i \in 1..nextOrder : i # nextOrder => placed'[i] = placed[i]
  <2>1. nextOrder \in Nat /\ nextOrder \in 1..nextOrder /\ Rowed(placed, nextOrder)
    BY <1>1
  <2>2. Altered([placed EXCEPT ![nextOrder] = r], placed, nextOrder, nextOrder, r)
    BY <2>1, RowChanged
  <2>3. QED
    BY <1>8, <2>2 DEF Altered
<1>15. \A m \in live : m \in Int /\ m # n /\ m + 1 \in 1..nextOrder /\ m + 1 # nextOrder
  BY <1>1
<1>10. RowsKept'
  <2>1. live' \subseteq 0..nextOrder - 1
    BY <1>1, <1>5
  <2>2. \A i \in 1..nextOrder : IsRow(placed'[i])
    BY <1>1, <1>7, <1>9
  <2>3. QED
    BY <1>1, <1>9, <2>1, <2>2 DEF RowsKept
<1>11. Book' = With(Book, n, o)
  <2>1. \A m \in live : placed'[m + 1] = placed[m + 1]
    BY <1>9, <1>15
  <2>2. placed'[n + 1].kind = o
    BY <1>1, <1>7, <1>9
  <2>3. Book' = [m \in live \cup {n} |-> placed'[m + 1].kind]
    BY <1>5 DEF Book
  <2>4. With(Book, n, o) = [m \in live \cup {n} |-> IF m = n THEN o ELSE placed[m + 1].kind]
    BY DEF With, Book
  <2> HIDE DEF n
  <2>5. QED
    BY <2>1, <2>2, <2>3, <2>4
<1>12. CASE again
  BY <1>5, <1>10, <1>12 DEF StatInv, SumsInv
<1>13. CASE ~again
  <2>1. Holding(Book) /\ n \notin DOMAIN Book
    BY <1>1, BookHolds DEF StatInv
  <2>2. /\ sums \in SumTypes /\ PbuTyped(pbu)
        /\ rephased \/ OrderKept(sums, Book, phase)
        /\ iced \/ MembersKept
        /\ iced \/ skewed \/ CurrentKept(pbu, Book, phase)
    BY <1>13 DEF StatInv, SumsInv
  <2>3. sums' = Attaching(sums, o, phase, 1)
    BY <1>5, DetachAttach
  <2> HIDE DEF n
  <2>4. /\ sums' \in SumTypes
        /\ OrderKept(sums, Book, phase) => OrderKept(sums', Book', phase)
        /\ PhaseKept(sums, Book) => PhaseKept(sums', Book')
    <3>1. PICK K : K = Book
      OBVIOUS
    <3>2. PICK s : s = sums
      OBVIOUS
    <3>3. /\ Attaching(s, o, phase, 1) \in SumTypes
          /\ OrderKept(s, K, phase) => OrderKept(Attaching(s, o, phase, 1), With(K, n, o), phase)
          /\ PhaseKept(s, K) => PhaseKept(Attaching(s, o, phase, 1), With(K, n, o))
      BY <1>4, <2>1, <2>2, <3>1, <3>2, AttachingKeeps
    <3>4. QED
      BY <1>11, <2>3, <3>1, <3>2, <3>3
  <2>5. /\ PbuTyped(pbu')
        /\ OfKept(pbu, Book) => OfKept(pbu', Book')
        /\ CurrentKept(pbu, Book, phase) => CurrentKept(pbu', Book', phase)
    <3>1. PICK K : K = Book
      OBVIOUS
    <3>2. PICK p : p = pbu
      OBVIOUS
    <3>3. PICK q : q = UpdatePBUOrderSortList(PBUOrderStatAdd(p, o, phase), o)
      OBVIOUS
    <3>4. /\ PbuTyped(q)
          /\ OfKept(p, K) => OfKept(q, With(K, n, o))
          /\ CurrentKept(p, K, phase) => CurrentKept(q, With(K, n, o), phase)
      BY <1>4, <2>1, <2>2, <3>1, <3>2, <3>3, MemberAdds
    <3>5. QED
      BY <1>5, <1>11, <3>1, <3>2, <3>3, <3>4
  <2>6. SumsInv'
    BY <1>5, <2>2, <2>4, <2>5 DEF SumsInv, MembersKept
  <2>7. QED
    BY <1>10, <2>6 DEF StatInv
<1>14. QED
  BY <1>12, <1>13

LEMMA AttachKeepsStat ==
  ASSUME StatInv, Attach
  PROVE  StatInv'
<1>1. pc # "idle"
  BY DEF Attach, WalkOn, NeedLevel, SkipUsed, LevelsExhausted, UpdateNode, InsertNode
<1>2. nextOrder' = nextOrder
  BY DEF Attach, WalkOn, NeedLevel, SkipUsed, LevelsExhausted, UpdateNode, InsertNode, Stays
<1>3. CASE (WalkOn \/ NeedLevel \/ SkipUsed \/ LevelsExhausted) /\ UNCHANGED lifeVars
  <2>1. UNCHANGED <<placed, phase, sums, pbu, live, again, iced, rephased, skewed>>
    BY <1>3 DEF lifeVars, sumVars, historyVars
  <2>2. Book' = Book
    BY <2>1 DEF Book
  <2>3. SumsInv'
    BY <2>1, <2>2 DEF StatInv, SumsInv, MembersKept
  <2>4. RowsKept'
    BY <1>1, <1>2, <2>1 DEF StatInv, RowsKept
  <2>5. QED
    BY <2>3, <2>4 DEF StatInv
<1>4. ASSUME NEW k, Attached(k), pc' = "idle" PROVE StatInv'
  BY <1>1, <1>2, <1>4, AttachedKeeps
<1>5. CASE UpdateNode /\ Attached(index)
  BY <1>4, <1>5 DEF UpdateNode
<1>6. CASE InsertNode /\ Attached(nextLevel[order.side])
  BY <1>4, <1>6 DEF InsertNode
<1>7. QED
  BY <1>3, <1>5, <1>6 DEF Attach

\* An order is cancelled, deleted or frozen.
LEMMA RemovedKeeps ==
  ASSUME StatInv, pc = "idle", NEW n \in 0..Len(placed) - 1, Removed(n),
         UNCHANGED <<nextOrder, pc, phase, rephased, skewed>>
  PROVE  StatInv'
<1>1. PICK o : o = placed[n + 1].kind
  OBVIOUS
<1>2. /\ sums' = StockStat(IF Counts(o) THEN UpdateStock(sums, o, -1) ELSE sums, o, -1)
      /\ pbu' = UpdatePBUOrderSortList(PBUOrderStatDel(pbu, o, phase), o)
      /\ live' = live \ {n} /\ placed' = placed
      /\ again' = (again \/ n \notin live) /\ iced' = (iced \/ o.ice)
  BY <1>1 DEF Removed, DetachOrder
<1>3. RowsKept'
  BY <1>2 DEF StatInv, RowsKept
<1>4. CASE again'
  BY <1>3, <1>4 DEF StatInv, SumsInv
<1>5. CASE ~again'
  <2>1. ~again /\ n \in live
    BY <1>2, <1>5
  <2>2. /\ sums \in SumTypes /\ PbuTyped(pbu)
        /\ rephased \/ OrderKept(sums, Book, phase)
        /\ iced \/ MembersKept
        /\ iced \/ skewed \/ CurrentKept(pbu, Book, phase)
    BY <2>1 DEF StatInv, SumsInv
  <2>3. PICK K : K = Book
    OBVIOUS
  <2>4. Holding(K) /\ n \in DOMAIN K /\ K[n] = o
    BY <1>1, <2>1, <2>3, BookHolds DEF StatInv
  <2>5. Book' = Without(K, n)
    BY <1>2, <2>3 DEF Book, Without
  <2>6. sums' = Attaching(sums, K[n], phase, -1)
    BY <1>2, <2>4, DetachAttach
  <2>7. /\ sums' \in SumTypes
        /\ OrderKept(sums, K, phase) => OrderKept(sums', Without(K, n), phase)
        /\ PhaseKept(sums, K) => PhaseKept(sums', Without(K, n))
    <3>1. PICK s : s = sums
      OBVIOUS
    <3>2. /\ Attaching(s, K[n], phase, -1) \in SumTypes
          /\ OrderKept(s, K, phase) => OrderKept(Attaching(s, K[n], phase, -1), Without(K, n), phase)
          /\ PhaseKept(s, K) => PhaseKept(Attaching(s, K[n], phase, -1), Without(K, n))
      BY <2>2, <2>4, <3>1, DetachingKeeps
    <3>3. QED
      BY <2>6, <3>1, <3>2
  <2>8. /\ PbuTyped(pbu')
        /\ OfKept(pbu, K) => OfKept(pbu', Without(K, n))
        /\ ~o.ice /\ CurrentKept(pbu, K, phase) => CurrentKept(pbu', Without(K, n), phase)
    <3>1. PICK p : p = pbu
      OBVIOUS
    <3>2. PICK v : v = PBUOrderStatDel(p, K[n], phase)
      OBVIOUS
    <3>3. /\ PbuTyped(v)
          /\ OfKept(p, K) => OfKept(v, Without(K, n))
          /\ ~K[n].ice /\ CurrentKept(p, K, phase) => CurrentKept(v, Without(K, n), phase)
      BY <2>2, <2>4, <3>1, <3>2, MemberDels
    <3>4. PICK q : q = UpdatePBUOrderSortList(v, o)
      OBVIOUS
    <3>5. PbuTyped(q) /\ q.data = v.data
      BY <3>3, <3>4, PbuSortMoves
    <3>6. /\ OfKept(v, Without(K, n)) => OfKept(q, Without(K, n))
          /\ CurrentKept(v, Without(K, n), phase) => CurrentKept(q, Without(K, n), phase)
      BY <3>5, SameData
    <3>7. pbu' = q
      BY <1>2, <2>4, <3>1, <3>2, <3>4
    <3>8. QED
      BY <2>4, <3>1, <3>3, <3>5, <3>6, <3>7
  <2>9. SumsInv'
    BY <1>2, <2>2, <2>3, <2>5, <2>7, <2>8 DEF SumsInv, MembersKept
  <2>10. QED
    BY <1>3, <2>9 DEF StatInv
<1>6. QED
  BY <1>4, <1>5

\* An order is modified.
LEMMA ModifyKeepsStat ==
  ASSUME StatInv, pc = "idle", NEW n \in 0..Len(placed) - 1, ModifyOrder(n),
         UNCHANGED <<nextOrder, pc, phase, rephased, skewed>>
  PROVE  StatInv'
<1>1. PICK o : o = placed[n + 1].kind
  OBVIOUS
<1>2. nextOrder \in Nat /\ Rowed(placed, nextOrder) /\ Len(placed) = nextOrder
  BY DEF StatInv, RowsKept, Rowed
<1>3. n \in Int /\ n + 1 \in 1..nextOrder /\ IsRow(placed[n + 1])
  BY <1>2 DEF StatInv, RowsKept
<1>4. o \in Kinds
  BY <1>1, <1>3 DEF IsRow
<1>5. PICK b \in Quantities, t \in NewTypes :
        LET o1 == [placed[n + 1].kind EXCEPT !.balance = b]
            o2 == [o1 EXCEPT !.type = t]
            first == Requantified(sums, pbu, placed[n + 1].kind, o1)
            both == Restricted(first[1], first[2], o1, o2)
        IN  /\ placed' = [placed EXCEPT ![n + 1].kind = o2,
                                        ![n + 1].orderQty = @ + b - placed[n + 1].kind.balance]
            /\ sums' = both[1] /\ pbu' = both[2]
            /\ again' = (again \/ n \notin live)
            /\ iced' = (iced \/ placed[n + 1].kind.ice)
            /\ live' = live
  BY Zenon DEF ModifyOrder
<1>6. b \in Nat /\ t \in STRING
  BY QuantityAssumption, KindAssumption
<1>7. PICK o1 : o1 = [o EXCEPT !.balance = b]
  OBVIOUS
<1>8. PICK o2 : o2 = [o1 EXCEPT !.type = t]
  OBVIOUS
<1>9. PICK first : first = Requantified(sums, pbu, o, o1)
  OBVIOUS
<1>10. PICK both : both = Restricted(first[1], first[2], o1, o2)
  OBVIOUS
<1>11. /\ placed' = [placed EXCEPT ![n + 1].kind = o2, ![n + 1].orderQty = @ + b - o.balance]
       /\ sums' = both[1] /\ pbu' = both[2]
       /\ again' = (again \/ n \notin live) /\ iced' = (iced \/ o.ice)
       /\ live' = live
  BY <1>1, <1>5, <1>7, <1>8, <1>9, <1>10
<1>12. o1 \in Kinds /\ o2 \in Kinds
  BY <1>4, <1>6, <1>7, <1>8 DEF Kinds
<1>13. PICK r : r = [[placed[n + 1] EXCEPT !.kind = o2] EXCEPT !.orderQty = @ + b - o.balance]
  OBVIOUS
<1>14. IsRow(r) /\ r.kind = o2
  BY <1>3, <1>12, <1>13 DEF IsRow
<1>15. placed' = [placed EXCEPT ![n + 1] = r]
  <2>1. PICK j : j = n + 1
    OBVIOUS
  <2>2. \A i \in 1..nextOrder : i \in DOMAIN placed
    BY <1>2
  <2>3. j \in DOMAIN placed
    BY <1>3, <2>1, <2>2
  <2>4. placed' = [placed EXCEPT ![j].kind = o2, ![j].orderQty = @ + b - o.balance]
    BY <1>11, <2>1
  <2>5. r = [[placed[j] EXCEPT !.kind = o2] EXCEPT !.orderQty = @ + b - o.balance]
    BY <1>13, <2>1
  <2>6. placed' = [placed EXCEPT ![j] = r]
    BY <2>3, <2>4, <2>5
  <2>7. QED
    BY <2>1, <2>6
<1>16. Altered([placed EXCEPT ![n + 1] = r], placed, nextOrder, n + 1, r)
  BY <1>2, <1>3, RowChanged
<1>17. /\ Rowed(placed', nextOrder) /\ placed'[n + 1] = r
       /\ \A i \in 1..nextOrder : i # n + 1 => placed'[i] = placed[i]
  BY <1>15, <1>16 DEF Altered
<1>18. RowsKept'
  BY <1>11, <1>14, <1>17 DEF StatInv, RowsKept
<1>19. CASE again'
  BY <1>18, <1>19 DEF StatInv, SumsInv
<1>20. CASE ~again'
  <2>1. ~again /\ n \in live
    BY <1>11, <1>20
  <2>2. /\ sums \in SumTypes /\ PbuTyped(pbu)
        /\ rephased \/ OrderKept(sums, Book, phase)
        /\ iced \/ MembersKept
        /\ iced \/ skewed \/ CurrentKept(pbu, Book, phase)
    BY <2>1 DEF StatInv, SumsInv
  <2>3. PICK K : K = Book
    OBVIOUS
  <2>4. Holding(K) /\ n \in DOMAIN K /\ K[n] = o /\ DOMAIN K = live
    BY <1>1, <2>1, <2>3, BookHolds DEF StatInv
  <2>5. PICK L : L = Change(Change(K, n, o1), n, o2)
    OBVIOUS
  <2>6. Book' = L
    <3>1. \A m \in live : placed'[m + 1].kind = IF m = n THEN o2 ELSE placed[m + 1].kind
      <4>1. \A m \in live : m \in Int /\ m + 1 \in 1..nextOrder
        BY DEF StatInv, RowsKept
      <4>2. \A m \in live : m # n => m + 1 # n + 1
        BY <1>3, <4>1
      <4>3. QED
        BY <1>14, <1>17, <4>1, <4>2
    <3>2. \A m \in live : K[m] = placed[m + 1].kind
      BY <2>3 DEF Book
    <3>3. L = [m \in live |-> IF m = n THEN o2 ELSE K[m]]
      BY <2>1, <2>4, <2>5 DEF Change, With, Without
    <3>4. Book' = [m \in live |-> placed'[m + 1].kind]
      BY <1>11 DEF Book
    <3>5. QED
      BY <3>1, <3>2, <3>3, <3>4
  <2>7. Carries(sums, pbu, K, both[1], both[2], L, o)
    <3>1. PICK s : s = sums
      OBVIOUS
    <3>2. PICK p : p = pbu
      OBVIOUS
    <3>3. s \in SumTypes /\ PbuTyped(p)
      BY <2>2, <3>1, <3>2
    <3>4. first = Requantified(s, p, K[n], o1)
      BY <1>9, <2>4, <3>1, <3>2
    <3>5. o1 = [K[n] EXCEPT !.balance = b]
      BY <1>7, <2>4
    <3>6. Carries(s, p, K, both[1], both[2], L, K[n])
      BY <1>6, <1>8, <1>10, <2>4, <2>5, <3>3, <3>4, <3>5, ModifiedKeeps
    <3>7. QED
      BY <2>4, <3>1, <3>2, <3>6
  <2>8. SumsInv'
    BY <1>11, <2>2, <2>3, <2>6, <2>7 DEF SumsInv, MembersKept, Carries, PartsKept
  <2>9. QED
    BY <1>18, <2>8 DEF StatInv
<1>21. QED
  BY <1>19, <1>20

LEMMA WithdrawKeepsStat ==
  ASSUME StatInv, Withdraw
  PROVE  StatInv'
<1>1. PICK n \in 0..Len(placed) - 1 : CancelOrder(n) \/ DeleteOrder(n) \/ ModifyOrder(n)
  BY DEF Withdraw
<1>2. pc = "idle" /\ UNCHANGED <<nextOrder, pc, phase, rephased, skewed>>
  BY DEF Withdraw, Stays
<1>3. CASE ModifyOrder(n)
  BY <1>2, <1>3, ModifyKeepsStat
<1>4. CASE Removed(n)
  BY <1>2, <1>4, RemovedKeeps
<1>5. QED
  BY <1>1, <1>3, <1>4 DEF CancelOrder, DeleteOrder

\* The phase of the stock changes.
LEMMA PhaseKeepsStat ==
  ASSUME StatInv, StatusChange
  PROVE  StatInv'
<1>1. /\ pbu' = ResortPBUSortList(PBUStatusChange(pbu, phase, phase'))
      /\ rephased' = (rephased \/ live # {})
      /\ iced' = (iced \/ \E n \in live : placed[n + 1].kind.ice)
      /\ UNCHANGED <<nextOrder, pc, placed, sums, live, again>>
  BY DEF StatusChange, vars
<1>2. skewed' = (skewed \/ Skews(phase, phase'))
  BY DEF StatusChange, Skews
<1>3. RowsKept'
  BY <1>1 DEF StatInv, RowsKept
<1>4. CASE again
  BY <1>1, <1>3, <1>4 DEF StatInv, SumsInv
<1>5. CASE ~again
  <2>1. /\ sums \in SumTypes /\ PbuTyped(pbu)
        /\ rephased \/ OrderKept(sums, Book, phase)
        /\ iced \/ MembersKept
        /\ iced \/ skewed \/ CurrentKept(pbu, Book, phase)
    BY <1>5 DEF StatInv, SumsInv
  <2>2. PICK K : K = Book
    OBVIOUS
  <2>3. Holding(K) /\ DOMAIN K = live /\ \A n \in live : K[n] = placed[n + 1].kind
    BY <2>2, BookHolds DEF StatInv
  <2>4. Book' = Book
    BY <1>1 DEF Book
  <2>5. /\ PbuTyped(pbu')
        /\ OfKept(pbu, K) => OfKept(pbu', K)
        /\ /\ OfKept(pbu, K) /\ CurrentKept(pbu, K, phase) /\ ~Skews(phase, phase')
           /\ \A n \in DOMAIN K : ~K[n].ice
           => CurrentKept(pbu', K, phase')
    <3>1. PICK p : p = pbu
      OBVIOUS
    <3>2. PICK pre : pre = phase
      OBVIOUS
    <3>3. PICK ph : ph = phase'
      OBVIOUS
    <3>4. PICK q : q = ResortPBUSortList(PBUStatusChange(p, pre, ph))
      OBVIOUS
    <3>5. /\ PbuTyped(q)
          /\ OfKept(p, K) => OfKept(q, K)
          /\ /\ OfKept(p, K) /\ CurrentKept(p, K, pre) /\ ~Skews(pre, ph)
             /\ \A n \in DOMAIN K : ~K[n].ice
             => CurrentKept(q, K, ph)
      BY <2>1, <2>3, <3>1, <3>4, PhaseChangeKeeps
    <3>6. QED
      BY <1>1, <3>1, <3>2, <3>3, <3>4, <3>5
  <2>6. rephased' \/ OrderKept(sums', Book', phase')
    <3>1. CASE rephased'
      BY <3>1
    <3>2. CASE ~rephased'
      <4>1. ~rephased /\ live = {}
        BY <1>1, <3>2
      <4>2. PICK s : s = sums
        OBVIOUS
      <4>3. \A W : Inside(K, W) = {}
        BY <2>3, <4>1 DEF Inside
      <4>4. OrderKept(s, K, phase) => OrderKept(s, K, phase')
        BY <4>3 DEF OrderKept, NumberOf, VolumeOf
      <4>5. QED
        BY <1>1, <2>1, <2>2, <2>4, <4>1, <4>2, <4>4
    <3>3. QED
      BY <3>1, <3>2
  <2>7. iced' \/ MembersKept'
    BY <1>1, <2>1, <2>2, <2>4, <2>5 DEF MembersKept
  <2>8. iced' \/ skewed' \/ CurrentKept(pbu', Book', phase')
    <3>1. CASE iced' \/ skewed'
      BY <3>1
    <3>2. CASE ~iced' /\ ~skewed'
      <4>1. ~iced /\ ~skewed /\ ~Skews(phase, phase') /\ \A n \in DOMAIN K : ~K[n].ice
        BY <1>1, <1>2, <2>3, <3>2
      <4>2. OfKept(pbu, K) /\ CurrentKept(pbu, K, phase)
        BY <2>1, <2>2, <4>1 DEF MembersKept
      <4>3. QED
        BY <2>2, <2>4, <2>5, <4>1, <4>2
    <3>3. QED
      BY <3>1, <3>2
  <2>9. SumsInv'
    BY <1>1, <2>1, <2>5, <2>6, <2>7, <2>8 DEF SumsInv
  <2>10. QED
    BY <1>3, <2>9 DEF StatInv
<1>6. QED
  BY <1>4, <1>5

LEMMA StatStep == StatInv /\ [NextLife]_orderVars => StatInv'
<1> SUFFICES ASSUME StatInv, [NextLife]_orderVars PROVE StatInv'
  OBVIOUS
<1>1. CASE UNCHANGED orderVars
  <2>1. UNCHANGED <<nextOrder, pc, placed, phase, sums, pbu, live, again, iced, rephased, skewed>>
    BY <1>1 DEF orderVars, vars, lifeVars, sumVars, historyVars
  <2>2. Book' = Book
    BY <2>1 DEF Book
  <2>3. RowsKept' /\ SumsInv'
    BY <2>1, <2>2 DEF StatInv, RowsKept, SumsInv, MembersKept
  <2>4. QED
    BY <2>3 DEF StatInv
<1>2. CASE AddOrder
  BY <1>2, AddKeepsStat
<1>3. CASE Attach
  BY <1>3, AttachKeepsStat
<1>4. CASE Withdraw
  BY <1>4, WithdrawKeepsStat
<1>5. CASE StatusChange
  BY <1>5, PhaseKeepsStat
<1>6. QED
  BY <1>1, <1>2, <1>3, <1>4, <1>5 DEF NextLife

LEMMA StatInitial == InitLife => StatInv
<1> SUFFICES ASSUME InitLife PROVE StatInv
  OBVIOUS
<1>1. nextOrder = 0 /\ pc = "idle" /\ placed = <<>> /\ live = {} /\ ~again
  BY DEF InitLife, Init
<1>2. PICK K : K = Book
  OBVIOUS
<1>3. DOMAIN K = {}
  BY <1>1, <1>2 DEF Book
<1>4. \A W : Inside(K, W) = {}
  BY <1>3 DEF Inside
<1>5. \A W, am : NumberOf(K, W) = 0 /\ VolumeOf(K, W, am) = 0
  BY <1>4, SumEmpty, FS_EmptySet DEF NumberOf, VolumeOf
<1>6. PICK e \in Entries : e = [number |-> 0, amount |-> 0]
  <2>1. [number |-> 0, amount |-> 0] \in Entries
    BY DEF Entries
  <2>2. QED
    BY <2>1
<1>7. PICK row \in [Side -> Entries] : row = [side \in Side |-> e]
  OBVIOUS
<1>8. sums = [order |-> row, phase |-> [t \in Types |-> row]]
  BY <1>6, <1>7 DEF InitLife
<1>9. sums \in SumTypes /\ sums.order = row /\ \A t \in Types : sums.phase[t] = row
  BY <1>8 DEF SumTypes
<1>10. OrderKept(sums, K, phase) /\ PhaseKept(sums, K)
  BY <1>5, <1>6, <1>7, <1>9 DEF OrderKept, PhaseKept
<1>11. PICK m \in PbuData : m = [pbuDataAdr |-> FALSE, current |-> [side \in Sides |-> 0],
                                 of |-> [side \in Sides |-> [t \in Types |-> 0]]]
  <2>1. [pbuDataAdr |-> FALSE, current |-> [side \in Sides |-> 0],
         of |-> [side \in Sides |-> [t \in Types |-> 0]]] \in PbuData
    BY DEF PbuData
  <2>2. QED
    BY <2>1
<1>12. PICK d \in [Firms -> PbuData] : d = [f \in Firms |-> m]
  OBVIOUS
<1>13. PICK b, c, l : pbu = [data |-> d, ranked |-> b, sortNo |-> c, last |-> l]
  BY <1>11, <1>12 DEF InitLife, InitPBU
<1>14. PbuTyped(pbu) /\ pbu.data = d
  BY <1>13 DEF PbuTyped
<1>15. \A f \in Firms, side \in Sides : d[f].current[side] = 0 /\ \A t \in Types : d[f].of[side][t] = 0
  BY <1>11, <1>12
<1>16. OfKept(pbu, K) /\ CurrentKept(pbu, K, phase)
  BY <1>5, <1>14, <1>15 DEF OfKept, CurrentKept
<1>17. RowsKept
  BY <1>1 DEF RowsKept, Rowed
<1>18. QED
  BY <1>2, <1>9, <1>10, <1>14, <1>16, <1>17 DEF StatInv, SumsInv, MembersKept

\* The sums of the model, in the words of its property.
LEMMA TotalIsVolume ==
  ASSUME RowsKept, NEW W, NEW S, NEW am, S = Inside(Book, W), am \in [Kinds -> Int]
  PROVE  /\ Cardinality(S) = NumberOf(Book, W)
         /\ Sum([n \in S |-> am[placed[n + 1].kind]]) = VolumeOf(Book, W, am)
<1> DEFINE f == [n \in S |-> am[placed[n + 1].kind]]
           g == [n \in DOMAIN Book |-> am[Book[n]]]
<1>1. Holding(Book) /\ DOMAIN Book = live /\ \A n \in live : Book[n] = placed[n + 1].kind
  BY BookHolds
<1>2. IsFiniteSet(S) /\ S \subseteq live
  BY <1>1, VolumeType DEF Inside
<1>3. \A n \in S : f[n] = g[n]
  BY <1>1, <1>2
<1>4. DOMAIN f = S
  OBVIOUS
<1> HIDE DEF f, g
<1>5. SumFunctionOnSet(f, S) = SumFunctionOnSet(g, S)
  BY <1>2, <1>3, SumSame
<1>6. Sum(f) = SumFunctionOnSet(f, S)
  BY <1>4 DEF Sum, SumFunction
<1>7. VolumeOf(Book, W, am) = SumFunctionOnSet(g, S)
  BY DEF VolumeOf, g
<1>8. QED
  BY <1>5, <1>6, <1>7 DEF NumberOf, f

\* What SumsKept counts is what the invariant counts.
LEMMA SumsTold ==
  ASSUME StatInv
  PROVE  SumsKept
<1>1. RowsKept /\ DOMAIN Book = live /\ \A n \in live : Book[n] = placed[n + 1].kind /\ Book[n] \in Kinds
  BY BookHolds DEF StatInv
<1> DEFINE balance(o) == o.balance
<1>2. ASSUME NEW S, S \subseteq live
      PROVE  /\ Total(S, Shown) = Sum([n \in S |-> Amounts[placed[n + 1].kind]])
             /\ Total(S, balance) = Sum([n \in S |-> Balances[placed[n + 1].kind]])
  <2>1. \A n \in S : placed[n + 1].kind \in Kinds
    BY <1>1, <1>2
  <2>2. [n \in S |-> Amounts[placed[n + 1].kind]] = [n \in S |-> Shown(placed[n + 1].kind)]
    BY <2>1 DEF Amounts
  <2>3. [n \in S |-> Balances[placed[n + 1].kind]] = [n \in S |-> placed[n + 1].kind.balance]
    BY <2>1 DEF Balances
  <2>4. QED
    BY <2>2, <2>3 DEF Total
<1>3. ASSUME NEW side \in Side
      PROVE  LiveOrders(side, Counts) = Inside(Book, Counted(side, phase))
  BY <1>1 DEF LiveOrders, Inside, Counted, Counts
<1>4. ASSUME NEW side \in Side, NEW t
      PROVE  LiveOrders(side, LAMBDA o : o.type = t) = Inside(Book, Tied(side, t))
  BY <1>1 DEF LiveOrders, Inside, Tied
<1>5. ASSUME NEW side \in Side, NEW t, NEW f
      PROVE  LiveOrders(side, LAMBDA o : o.firm = f /\ o.type = t) = Inside(Book, Tied(side, t) \cap OfFirm(f))
  BY <1>1 DEF LiveOrders, Inside, Tied, OfFirm
<1>6. ASSUME NEW side \in Side, NEW f
      PROVE  LiveOrders(side, LAMBDA o : o.firm = f /\ Counts(o)) = Inside(Book, Counted(side, phase) \cap OfFirm(f))
  BY <1>1 DEF LiveOrders, Inside, Counted, OfFirm, Counts
<1>7. ASSUME NEW W
      PROVE  /\ Cardinality(Inside(Book, W)) = NumberOf(Book, W)
             /\ Total(Inside(Book, W), Shown) = VolumeOf(Book, W, Amounts)
             /\ Total(Inside(Book, W), balance) = VolumeOf(Book, W, Balances)
  <2>1. PICK S : S = Inside(Book, W)
    OBVIOUS
  <2>2. S \subseteq live
    BY <1>1, <2>1 DEF Inside
  <2>3. /\ Total(S, Shown) = Sum([n \in S |-> Amounts[placed[n + 1].kind]])
        /\ Total(S, balance) = Sum([n \in S |-> Balances[placed[n + 1].kind]])
    BY <1>2, <2>2
  <2>4. /\ Cardinality(S) = NumberOf(Book, W)
        /\ Sum([n \in S |-> Amounts[placed[n + 1].kind]]) = VolumeOf(Book, W, Amounts)
    BY <1>1, <2>1, AmountTypes, TotalIsVolume
  <2>5. Sum([n \in S |-> Balances[placed[n + 1].kind]]) = VolumeOf(Book, W, Balances)
    BY <1>1, <2>1, AmountTypes, TotalIsVolume
  <2>6. QED
    BY <2>1, <2>3, <2>4, <2>5
<1>8. Side = Sides
  BY DEF Side, Sides
<1>9. CASE again
  BY <1>9 DEF SumsKept
<1>10. CASE ~again
  <2>1. /\ rephased \/ OrderKept(sums, Book, phase)
        /\ iced \/ MembersKept
        /\ iced \/ skewed \/ CurrentKept(pbu, Book, phase)
    BY <1>10 DEF StatInv, SumsInv
  <2> SUFFICES ASSUME NEW side \in Side
               PROVE  LET current == LiveOrders(side, Counts)
                          bal(o) == o.balance
                      IN  /\ rephased \/ sums.order[side] =
                               [number |-> Cardinality(current), amount |-> Total(current, Shown)]
                          /\ iced \/ \A t \in Types :
                               LET tied == LiveOrders(side, LAMBDA o : o.type = t)
                               IN  sums.phase[t][side] =
                                     [number |-> Cardinality(tied), amount |-> Total(tied, bal)]
                          /\ iced \/ \A f \in Firms :
                               LET ofFirm(o) == o.firm = f
                               IN  /\ \A t \in Types : pbu.data[f].of[side][t] =
                                        Total(LiveOrders(side, LAMBDA o : o.firm = f /\ o.type = t), bal)
                                   /\ skewed \/ pbu.data[f].current[side] =
                                        Total(LiveOrders(side, LAMBDA o : o.firm = f /\ Counts(o)), Shown)
    BY DEF SumsKept
  <2>2. rephased \/ sums.order[side] = [number |-> Cardinality(LiveOrders(side, Counts)),
                                        amount |-> Total(LiveOrders(side, Counts), Shown)]
    BY <1>3, <1>7, <2>1 DEF OrderKept
  <2>3. ASSUME NEW t \in Types, ~iced
        PROVE  sums.phase[t][side] =
                 [number |-> Cardinality(LiveOrders(side, LAMBDA o : o.type = t)),
                  amount |-> Total(LiveOrders(side, LAMBDA o : o.type = t), balance)]
    BY <1>4, <1>7, <2>1, <2>3 DEF MembersKept, PhaseKept
  <2>4. ASSUME NEW t \in Types, NEW f \in Firms, ~iced
        PROVE  pbu.data[f].of[side][t] =
                 Total(LiveOrders(side, LAMBDA o : o.firm = f /\ o.type = t), balance)
    <3>1. PICK W : W = Tied(side, t) \cap OfFirm(f)
      OBVIOUS
    <3>2. LiveOrders(side, LAMBDA o : o.firm = f /\ o.type = t) = Inside(Book, W)
      BY <1>5, <3>1
    <3>3. Total(Inside(Book, W), balance) = VolumeOf(Book, W, Balances)
      BY <1>7
    <3>4. pbu.data[f].of[side][t] = VolumeOf(Book, W, Balances)
      BY <1>8, <2>1, <2>4, <3>1 DEF MembersKept, OfKept
    <3>5. QED
      BY <3>2, <3>3, <3>4
  <2>5. ASSUME NEW f \in Firms, ~iced, ~skewed
        PROVE  pbu.data[f].current[side] =
                 Total(LiveOrders(side, LAMBDA o : o.firm = f /\ Counts(o)), Shown)
    BY <1>6, <1>7, <1>8, <2>1, <2>5 DEF CurrentKept
  <2>6. QED
    BY <2>2, <2>3, <2>4, <2>5
<1>11. QED
  BY <1>9, <1>10

\* AttachOrder, withdrawals and phase changes keep the sums of the stock and of the members
\* (order.c, stock_pbu.c) those of the orders in the book, however they follow each other.
THEOREM SumsHold == LifeSpec => []SumsKept
<1>1. InitLife => StatInv
  BY StatInitial
<1>2. StatInv /\ [NextLife]_orderVars => StatInv'
  BY StatStep
<1>3. StatInv => SumsKept
  BY SumsTold
<1>4. QED
  BY <1>1, <1>2, <1>3, PTL DEF LifeSpec

\* Every set of numbers has a least one.
LEMMA LeastNat ==
  ASSUME NEW S, S \subseteq Nat, S # {}
  PROVE  \E m \in S : \A k \in S : m <= k
<1>1. PICK m \in S : \A k \in S : <<k, m>> \notin OpToRel(<, Nat)
  BY NatLessThanWellFounded, WFMin, Zenon
<1>2. \A k \in S : ~(k < m)
  BY <1>1, Zenon DEF OpToRel
<1>3. QED
  BY <1>2

(***************************************************************************)
(* The ranking of the members.  The binary search, as a function from its  *)
(* begin and end to the place it finds; W are the places it turns left at. *)
(***************************************************************************)
Halved(g, n, b, e, W) ==
  IF e - b <= 1 THEN e
  ELSE IF (b + e) \div 2 \in W THEN g[<<b, (b + e) \div 2>>] ELSE g[<<(b + e) \div 2, e>>]

Spans(n, k) == {i \in (0..n) \X (0..n) : i[2] - i[1] <= k}

\* The search on the spans that are no longer than k.
Halves(g, n, k, W) == g = [i \in Spans(n, k) |-> Halved(g, n, i[1], i[2], W)]

LEMMA SpanHalves ==
  ASSUME NEW n \in Nat, NEW k \in Int, NEW b \in 0..n, NEW e \in 0..n, e - b <= k + 1, e - b > 1
  PROVE  LET c == (b + e) \div 2
         IN  /\ c \in 0..n /\ b < c /\ c < e
             /\ <<b, c>> \in Spans(n, k) /\ <<c, e>> \in Spans(n, k)
<1> DEFINE c == (b + e) \div 2
<1>1. c \in Int /\ b < c /\ c < e
  OBVIOUS
<1> HIDE DEF c
<1>2. c \in 0..n
  BY <1>1
<1>3. c - b <= k /\ e - c <= k
  BY <1>1
<1>4. <<b, c>> \in Spans(n, k) /\ <<c, e>> \in Spans(n, k)
  BY <1>2, <1>3 DEF Spans
<1>5. QED
  BY <1>1, <1>2, <1>4 DEF c

\* A search on short spans extends to the spans one longer.
LEMMA LongerSpans ==
  ASSUME NEW n \in Nat, NEW k \in Nat, NEW W, NEW g, Halves(g, n, k, W)
  PROVE  \E h : Halves(h, n, k + 1, W)
<1>1. PICK h : h = [i \in Spans(n, k + 1) |-> Halved(g, n, i[1], i[2], W)]
  OBVIOUS
<1>2. \A i \in Spans(n, k) : i \in Spans(n, k + 1)
  BY DEF Spans
<1>3. \A i \in Spans(n, k) : h[i] = g[i]
  BY <1>1, <1>2 DEF Halves
<1>4. ASSUME NEW i \in Spans(n, k + 1)
      PROVE  Halved(g, n, i[1], i[2], W) = Halved(h, n, i[1], i[2], W)
  <2>1. i[1] \in 0..n /\ i[2] \in 0..n /\ i[2] - i[1] <= k + 1
    BY DEF Spans
  <2>2. PICK b \in 0..n, e \in 0..n : b = i[1] /\ e = i[2]
    BY <2>1
  <2>3. CASE e - b <= 1
    BY <2>2, <2>3 DEF Halved
  <2>4. CASE ~(e - b <= 1)
    <3>1. PICK c : c = (b + e) \div 2
      OBVIOUS
    <3>2. e - b > 1 /\ e - b <= k + 1
      BY <2>1, <2>2, <2>4
    <3>3. <<b, c>> \in Spans(n, k) /\ <<c, e>> \in Spans(n, k)
      BY <3>1, <3>2, SpanHalves
    <3>4. h[<<b, c>>] = g[<<b, c>>] /\ h[<<c, e>>] = g[<<c, e>>]
      BY <1>3, <3>3
    <3>5. /\ Halved(g, n, b, e, W) = (IF c \in W THEN g[<<b, c>>] ELSE g[<<c, e>>])
          /\ Halved(h, n, b, e, W) = (IF c \in W THEN h[<<b, c>>] ELSE h[<<c, e>>])
      BY <2>4, <3>1 DEF Halved
    <3>6. QED
      BY <2>2, <3>4, <3>5
  <2>5. QED
    BY <2>3, <2>4
<1>5. h = [i \in Spans(n, k + 1) |-> Halved(h, n, i[1], i[2], W)]
  BY <1>1, <1>4
<1>6. QED
  BY <1>5 DEF Halves

LEMMA SearchExists ==
  ASSUME NEW n \in Nat, NEW W, NEW k \in Nat
  PROVE  \E g : Halves(g, n, k, W)
<1> DEFINE Bad == {j \in Nat : ~\E g : Halves(g, n, j, W)}
<1>1. SUFFICES ASSUME Bad # {} PROVE FALSE
  OBVIOUS
<1>2. PICK j \in Bad : \A m \in Bad : j <= m
  BY <1>1, LeastNat
<1>3. j # 0
  <2>1. PICK g : g = [i \in Spans(n, 0) |-> i[2]]
    OBVIOUS
  <2>2. \A i \in Spans(n, 0) : Halved(g, n, i[1], i[2], W) = i[2]
    BY DEF Spans, Halved
  <2>3. Halves(g, n, 0, W)
    BY <2>1, <2>2 DEF Halves
  <2>4. QED
    BY <1>2, <2>3
<1>4. j - 1 \in Nat /\ j - 1 \notin Bad
  BY <1>2, <1>3
<1>5. PICK g : Halves(g, n, j - 1, W)
  BY <1>4
<1>6. \E h : Halves(h, n, j - 1 + 1, W)
  BY <1>4, <1>5, LongerSpans
<1>7. QED
  BY <1>2, <1>6

\* The place x is behind begin and not behind end; what is in front of it is not in W, and
\* it is in Low itself.
Between(x, b, e, W, Low) == x \in b + 1..e /\ x - 1 \notin W /\ x \in Low

LEMMA SearchFinds ==
  ASSUME NEW n \in Nat, NEW W, NEW Low, NEW g, Halves(g, n, n, W),
         \A c \in 0..n - 1 : c \in W => c \in Low
  PROVE  \A b, e \in 0..n : b < e /\ b \notin W /\ e \in Low => Between(g[<<b, e>>], b, e, W, Low)
<1> DEFINE Wrong(b, e) == b < e /\ b \notin W /\ e \in Low /\ ~Between(g[<<b, e>>], b, e, W, Low)
           Bad == {k \in Nat : \E b, e \in 0..n : e - b = k /\ Wrong(b, e)}
<1>1. SUFFICES ASSUME NEW b0 \in 0..n, NEW e0 \in 0..n, Wrong(b0, e0) PROVE FALSE
  OBVIOUS
<1>2. e0 - b0 \in Bad
  BY <1>1
<1>3. PICK k \in Bad : \A m \in Bad : k <= m
  <2>1. Bad \subseteq Nat /\ Bad # {}
    BY <1>2
  <2> HIDE DEF Bad
  <2>2. QED
    BY <2>1, LeastNat
<1>4. PICK b \in 0..n, e \in 0..n : e - b = k /\ Wrong(b, e)
  BY <1>3
<1>5. b < e /\ b \notin W /\ e \in Low /\ ~Between(g[<<b, e>>], b, e, W, Low) /\ e - b <= n
  BY <1>4
<1>6. g[<<b, e>>] = Halved(g, n, b, e, W)
  <2>1. <<b, e>> \in Spans(n, n)
    BY <1>5 DEF Spans
  <2>2. QED
    BY <2>1 DEF Halves
<1>7. CASE e - b <= 1
  <2>1. g[<<b, e>>] = e /\ e - 1 = b
    BY <1>5, <1>6, <1>7 DEF Halved
  <2>2. QED
    BY <1>5, <2>1 DEF Between
<1>8. CASE ~(e - b <= 1)
  <2>1. PICK c : c = (b + e) \div 2
    OBVIOUS
  <2>2. c \in 0..n /\ b < c /\ c < e
    BY <1>8, <2>1, SpanHalves
  <2>3. g[<<b, e>>] = IF c \in W THEN g[<<b, c>>] ELSE g[<<c, e>>]
    BY <1>6, <1>8, <2>1 DEF Halved
  <2>4. c - b \in Nat /\ e - c \in Nat /\ c - b < k /\ e - c < k
    BY <1>4, <2>2
  <2>5. \A m \in Nat : m < k => m \notin Bad
    <3>1. k \in Nat
      BY <1>3
    <3> HIDE DEF Bad
    <3>2. \A m \in Bad : k <= m
      BY <1>3
    <3>3. QED
      BY <3>1, <3>2
  <2>6. ~Wrong(b, c) /\ ~Wrong(c, e)
    <3>1. PICK x, y : x = c - b /\ y = e - c
      OBVIOUS
    <3>2. x \in Nat /\ y \in Nat /\ x \notin Bad /\ y \notin Bad
      <4> HIDE DEF Bad
      <4>1. QED
        BY <2>4, <2>5, <3>1
    <3>3. QED
      BY <2>2, <3>1, <3>2
  <2>7. CASE c \in W
    <3>1. c \in Low
      BY <2>2, <2>7
    <3>2. Between(g[<<b, c>>], b, c, W, Low)
      BY <1>5, <2>2, <2>6, <3>1
    <3>3. g[<<b, e>>] = g[<<b, c>>]
      BY <2>3, <2>7
    <3>4. QED
      BY <1>5, <2>2, <3>2, <3>3 DEF Between
  <2>8. CASE c \notin W
    <3>1. Between(g[<<c, e>>], c, e, W, Low)
      BY <1>5, <2>2, <2>6, <2>8
    <3>2. g[<<b, e>>] = g[<<c, e>>]
      BY <2>3, <2>8
    <3>3. QED
      BY <1>5, <2>2, <3>1, <3>2 DEF Between
  <2>9. QED
    BY <2>7, <2>8
<1>9. QED
  BY <1>7, <1>8

\* A list that has f at place k, and the list r around it.
PutAt(q, r, k, f) ==
  /\ Len(q) = Len(r) + 1
  /\ q[k] = f
  /\ \A i \in 1..k - 1 : q[i] = r[i]
  /\ \A i \in k..Len(r) : q[i + 1] = r[i]

\* A list of firms of S, the biggest amount first.
Ordered(r, S, am) ==
  /\ r \in Seq(S) /\ Len(r) = Cardinality(S)
  /\ \A f \in S : \E i \in 1..Len(r) : r[i] = f
  /\ \A i, j \in 1..Len(r) : i < j => am[r[i]] >= am[r[j]]

LEMMA PutKeepsOrder ==
  ASSUME NEW S, NEW am, NEW r, NEW f, NEW q, NEW k,
         IsFiniteSet(S), f \notin S, \A g \in S \cup {f} : am[g] \in Int, Ordered(r, S, am),
         k \in 1..Len(r) + 1, q \in Seq(S \cup {f}), PutAt(q, r, k, f),
         k > 1 => am[r[k - 1]] >= am[f],
         k <= Len(r) => am[f] >= am[r[k]]
  PROVE  Ordered(q, S \cup {f}, am)
<1>1. Len(r) \in Nat /\ Len(q) = Len(r) + 1 /\ k \in Int /\ r \in Seq(S)
  BY DEF Ordered, PutAt
<1>2. Cardinality(S \cup {f}) = Cardinality(S) + 1
  BY FS_AddElement
<1>3. \A g \in S \cup {f} : \E i \in 1..Len(q) : q[i] = g
  <2>1. q[k] = f /\ k \in 1..Len(q)
    BY <1>1 DEF PutAt
  <2>2. ASSUME NEW g \in S PROVE \E i \in 1..Len(q) : q[i] = g
    <3>1. PICK i \in 1..Len(r) : r[i] = g
      BY DEF Ordered
    <3>2. CASE i < k
      BY <1>1, <3>1, <3>2 DEF PutAt
    <3>3. CASE i >= k
      <4>1. q[i + 1] = g /\ i + 1 \in 1..Len(q)
        BY <1>1, <3>1, <3>3 DEF PutAt
      <4>2. QED
        BY <4>1
    <3>4. QED
      BY <1>1, <3>2, <3>3
  <2>3. QED
    BY <2>1, <2>2
<1>5. \A i \in 1..Len(q) : /\ i = k => q[i] = f
                           /\ i < k => q[i] = r[i] /\ i \in 1..Len(r)
                           /\ i > k => q[i] = r[i - 1] /\ i - 1 \in 1..Len(r) /\ i - 1 >= k
  <2>1. SUFFICES ASSUME NEW i \in 1..Len(q)
                 PROVE  /\ i = k => q[i] = f
                        /\ i < k => q[i] = r[i] /\ i \in 1..Len(r)
                        /\ i > k => q[i] = r[i - 1] /\ i - 1 \in 1..Len(r) /\ i - 1 >= k
    OBVIOUS
  <2>2. i = k => q[i] = f
    BY DEF PutAt
  <2>3. ASSUME i < k PROVE q[i] = r[i] /\ i \in 1..Len(r)
    <3>1. i \in 1..k - 1 /\ i \in 1..Len(r)
      BY <1>1, <2>3
    <3>2. QED
      BY <3>1 DEF PutAt
  <2>4. ASSUME i > k PROVE q[i] = r[i - 1] /\ i - 1 \in 1..Len(r) /\ i - 1 >= k
    <3>1. PICK j \in k..Len(r) : i = j + 1
      <4>1. i - 1 \in k..Len(r) /\ i = (i - 1) + 1
        BY <1>1, <2>4
      <4>2. QED
        BY <4>1
    <3>2. q[j + 1] = r[j]
      BY DEF PutAt
    <3>3. i - 1 = j /\ j \in 1..Len(r) /\ j >= k
      BY <1>1, <3>1
    <3>4. QED
      BY <3>1, <3>2, <3>3
  <2>5. QED
    BY <2>2, <2>3, <2>4
<1>6. \A i \in 1..Len(r) : r[i] \in S /\ am[r[i]] \in Int
  BY <1>1
<1>7. \A i \in 1..Len(r) : /\ i < k => am[r[i]] >= am[f]
                           /\ i >= k => am[f] >= am[r[i]]
  <2>1. \A i, j \in 1..Len(r) : i < j => am[r[i]] >= am[r[j]]
    BY DEF Ordered
  <2>2. am[f] \in Int
    OBVIOUS
  <2>3. ASSUME NEW i \in 1..Len(r), i < k PROVE am[r[i]] >= am[f]
    <3>1. k - 1 \in 1..Len(r) /\ k > 1 /\ (i = k - 1 \/ i < k - 1)
      BY <1>1, <2>3
    <3>2. am[r[k - 1]] >= am[f] /\ am[r[k - 1]] \in Int /\ am[r[i]] \in Int
      BY <1>6, <3>1
    <3>3. am[r[i]] >= am[r[k - 1]]
      BY <2>1, <3>1, <3>2
    <3>4. QED
      BY <2>2, <3>2, <3>3
  <2>4. ASSUME NEW i \in 1..Len(r), i >= k PROVE am[f] >= am[r[i]]
    <3>1. k \in 1..Len(r) /\ (i = k \/ k < i)
      BY <1>1, <2>4
    <3>2. am[f] >= am[r[k]] /\ am[r[k]] \in Int /\ am[r[i]] \in Int
      BY <1>1, <1>6, <3>1
    <3>3. am[r[k]] >= am[r[i]]
      BY <2>1, <3>1, <3>2
    <3>4. QED
      BY <2>2, <3>2, <3>3
  <2>5. QED
    BY <2>3, <2>4
<1>8. ASSUME NEW i \in 1..Len(q), NEW j \in 1..Len(q), i < j PROVE am[q[i]] >= am[q[j]]
  <2>1. \A x, y \in 1..Len(r) : x < y => am[r[x]] >= am[r[y]]
    BY DEF Ordered
  <2>2. i \in Int /\ j \in Int
    OBVIOUS
  <2>3. CASE i = k
    BY <1>1, <1>5, <1>7, <1>8, <2>2, <2>3
  <2>4. CASE j = k
    BY <1>1, <1>5, <1>7, <1>8, <2>2, <2>4
  <2>5. CASE i < k /\ j < k
    BY <1>5, <1>8, <2>1, <2>5
  <2>6. CASE i < k /\ k < j
    <3>1. q[i] = r[i] /\ i \in 1..Len(r) /\ q[j] = r[j - 1] /\ j - 1 \in 1..Len(r) /\ i < j - 1
      BY <1>1, <1>5, <2>2, <2>6
    <3>2. QED
      BY <2>1, <3>1
  <2>7. CASE k < i
    <3>1. q[i] = r[i - 1] /\ i - 1 \in 1..Len(r) /\ q[j] = r[j - 1] /\ j - 1 \in 1..Len(r) /\ i - 1 < j - 1
      BY <1>1, <1>5, <1>8, <2>2, <2>7
    <3>2. QED
      BY <2>1, <3>1
  <2>8. QED
    BY <1>1, <1>8, <2>2, <2>3, <2>4, <2>5, <2>6, <2>7
<1>9. QED
  BY <1>1, <1>2, <1>3, <1>8 DEF Ordered

LEMMA PutFirst ==
  ASSUME NEW S, NEW r, NEW f, r \in Seq(S)
  PROVE  <<f>> \o r \in Seq(S \cup {f}) /\ PutAt(<<f>> \o r, r, 1, f)
<1>1. PICK q : q = <<f>> \o r
  OBVIOUS
<1>2. r \in Seq(S \cup {f}) /\ <<f>> \in Seq(S \cup {f})
  OBVIOUS
<1>3. q \in Seq(S \cup {f})
  BY <1>1, <1>2
<1>4. Len(q) = Len(r) + 1 /\ q[1] = f /\ \A i \in 1..Len(r) : q[i + 1] = r[i]
  BY <1>1, <1>2
<1>5. PutAt(q, r, 1, f)
  BY <1>4 DEF PutAt
<1>6. QED
  BY <1>1, <1>3, <1>5

LEMMA PutLast ==
  ASSUME NEW S, NEW r, NEW f, r \in Seq(S)
  PROVE  Append(r, f) \in Seq(S \cup {f}) /\ PutAt(Append(r, f), r, Len(r) + 1, f)
<1>1. PICK q : q = Append(r, f)
  OBVIOUS
<1>2. r \in Seq(S \cup {f}) /\ Len(r) \in Nat
  OBVIOUS
<1>3. q \in Seq(S \cup {f})
  BY <1>1, <1>2
<1>4. Len(q) = Len(r) + 1 /\ q[Len(r) + 1] = f /\ \A i \in 1..Len(r) : q[i] = r[i]
  BY <1>1, <1>2
<1>5. PutAt(q, r, Len(r) + 1, f)
  BY <1>2, <1>4 DEF PutAt
<1>6. QED
  BY <1>1, <1>3, <1>5

LEMMA PutBetween ==
  ASSUME NEW S, NEW r, NEW f, NEW k, r \in Seq(S), k \in 1..Len(r)
  PROVE  InsertAt(r, k, f) \in Seq(S \cup {f}) /\ PutAt(InsertAt(r, k, f), r, k, f)
<1>1. PICK front, back, q : /\ front = SubSeq(r, 1, k - 1) /\ back = SubSeq(r, k, Len(r))
                            /\ q = front \o <<f>> \o back
  OBVIOUS
<1>2. InsertAt(r, k, f) = q
  BY <1>1 DEF InsertAt
<1>3. k \in Nat /\ k >= 1 /\ k <= Len(r) /\ Len(r) \in Nat
  OBVIOUS
<1>4. front \in Seq(S) /\ Len(front) = k - 1 /\ \A i \in 1..k - 1 : front[i] = r[i]
  BY <1>1, <1>3
<1>5. back \in Seq(S) /\ Len(back) = Len(r) - k + 1 /\ \A i \in 1..Len(r) - k + 1 : back[i] = r[k + i - 1]
  BY <1>1, <1>3
<1>6. front \in Seq(S \cup {f}) /\ back \in Seq(S \cup {f}) /\ <<f>> \in Seq(S \cup {f})
  BY <1>4, <1>5
<1>7. q \in Seq(S \cup {f}) /\ Len(q) = Len(r) + 1
  <2>1. PICK T : T = S \cup {f}
    OBVIOUS
  <2>2. front \in Seq(T) /\ back \in Seq(T) /\ <<f>> \in Seq(T) /\ Len(<<f>>) = 1
    BY <1>6, <2>1
  <2>3. front \o <<f>> \in Seq(T) /\ Len(front \o <<f>>) = Len(front) + 1
    BY <2>2
  <2>4. q \in Seq(T) /\ Len(q) = Len(front) + 1 + Len(back)
    BY <1>1, <2>2, <2>3
  <2>5. QED
    BY <1>3, <1>4, <1>5, <2>1, <2>4
<1>8. q[k] = f /\ \A i \in 1..k - 1 : q[i] = front[i]
  BY <1>1, <1>3, <1>4, <1>5, <1>6
<1>9. ASSUME NEW i \in k..Len(r) PROVE q[i + 1] = r[i]
  <2>1. i - k + 1 \in 1..Len(r) - k + 1 /\ k + (i - k + 1) - 1 = i
    BY <1>3
  <2>2. back[i - k + 1] = r[i]
    BY <1>5, <2>1
  <2>3. q[i + 1] = back[i - k + 1]
    BY <1>1, <1>3, <1>4, <1>5, <1>6
  <2>4. QED
    BY <2>2, <2>3
<1>10. PutAt(q, r, k, f)
  BY <1>4, <1>7, <1>8, <1>9 DEF PutAt
<1>11. QED
  BY <1>2, <1>7, <1>10

\* What the search of InsertFirm computes, as it is written there.
Searches(g, p, side, r, f) ==
  g = [i \in (0..Len(r)) \X (0..Len(r)) |->
    IF i[2] - i[1] <= 1 THEN i[2]
    ELSE IF p.data[f].current[side] > p.data[r[(i[1] + i[2]) \div 2 + 1]].current[side]
    THEN g[<<i[1], (i[1] + i[2]) \div 2>>] ELSE g[<<(i[1] + i[2]) \div 2, i[2]>>]]

SearchOf(p, side, r, f) == CHOOSE g : Searches(g, p, side, r, f)

\* The places of r with a smaller amount than f.
Smaller(p, side, r, f) ==
  {c \in 0..Len(r) : p.data[f].current[side] > p.data[r[c + 1]].current[side]}

LEMMA InsertUnfolds ==
  ASSUME NEW p, NEW side, NEW r, NEW f
  PROVE  InsertFirm(p, side, r, f) =
           IF r = <<>> THEN <<f>>
           ELSE IF p.data[f].current[side] > p.data[Head(r)].current[side] THEN <<f>> \o r
           ELSE IF p.data[f].current[side] < p.data[Last(r)].current[side] THEN Append(r, f)
           ELSE InsertAt(r, SearchOf(p, side, r, f)[<<0, Len(r) - 1>>] + 1, f)
BY DEF InsertFirm, SearchOf, Searches

LEMMA SearchHalves ==
  ASSUME NEW p, NEW side, NEW r, NEW f, Len(r) \in Nat
  PROVE  Halves(SearchOf(p, side, r, f), Len(r), Len(r), Smaller(p, side, r, f))
<1>1. PICK n \in Nat : n = Len(r)
  OBVIOUS
<1>2. PICK W : W = Smaller(p, side, r, f)
  OBVIOUS
<1>3. Spans(n, n) = (0..n) \X (0..n)
  BY DEF Spans
<1>4. \A b, e \in 0..n : (b + e) \div 2 \in 0..n
  OBVIOUS
<1>5. ASSUME NEW g, NEW i \in (0..n) \X (0..n)
      PROVE  Halved(g, n, i[1], i[2], W) =
               IF i[2] - i[1] <= 1 THEN i[2]
               ELSE IF p.data[f].current[side] > p.data[r[(i[1] + i[2]) \div 2 + 1]].current[side]
               THEN g[<<i[1], (i[1] + i[2]) \div 2>>] ELSE g[<<(i[1] + i[2]) \div 2, i[2]>>]
  <2>1. i[1] \in 0..n /\ i[2] \in 0..n
    OBVIOUS
  <2>2. PICK c : c = (i[1] + i[2]) \div 2
    OBVIOUS
  <2>3. c \in 0..n
    BY <1>4, <2>1, <2>2
  <2>4. c \in W <=> p.data[f].current[side] > p.data[r[c + 1]].current[side]
    BY <1>1, <1>2, <2>3 DEF Smaller
  <2>5. QED
    BY <2>2, <2>4 DEF Halved
<1>6. \A g : Searches(g, p, side, r, f) <=> Halves(g, n, n, W)
  <2> SUFFICES ASSUME NEW g PROVE Searches(g, p, side, r, f) <=> Halves(g, n, n, W)
    OBVIOUS
  <2>1. PICK h : h = [i \in (0..n) \X (0..n) |-> Halved(g, n, i[1], i[2], W)]
    OBVIOUS
  <2>2. h = [i \in (0..n) \X (0..n) |->
               IF i[2] - i[1] <= 1 THEN i[2]
               ELSE IF p.data[f].current[side] > p.data[r[(i[1] + i[2]) \div 2 + 1]].current[side]
               THEN g[<<i[1], (i[1] + i[2]) \div 2>>] ELSE g[<<(i[1] + i[2]) \div 2, i[2]>>]]
    BY <1>5, <2>1
  <2>3. Halves(g, n, n, W) <=> g = h
    BY <1>3, <2>1 DEF Halves
  <2>4. Searches(g, p, side, r, f) <=> g = h
    BY <1>1, <2>2 DEF Searches
  <2>5. QED
    BY <2>3, <2>4
<1>7. \E g : Searches(g, p, side, r, f)
  BY <1>6, SearchExists
<1>8. Searches(SearchOf(p, side, r, f), p, side, r, f)
  BY <1>7, Zenon DEF SearchOf
<1>9. QED
  BY <1>1, <1>2, <1>6, <1>8

\* amount is what the table counts of the firms now.
AmountsOf(p, side, S, am) == \A g \in S : am[g] = p.data[g].current[side] /\ am[g] \in Int

\* The place of the firm in the ranking is between what is not smaller and what is not bigger.
LEMMA InsertKeepsOrder ==
  ASSUME NEW p, NEW side, NEW S, NEW f, NEW r, NEW am,
         IsFiniteSet(S), f \notin S, AmountsOf(p, side, S \cup {f}, am), Ordered(r, S, am)
  PROVE  Ordered(InsertFirm(p, side, r, f), S \cup {f}, am)
<1> DEFINE q == InsertFirm(p, side, r, f)
<1>1. r \in Seq(S) /\ Len(r) \in Nat
  BY DEF Ordered
<1>2. /\ am[f] = p.data[f].current[side] /\ am[f] \in Int
      /\ \A g \in S \cup {f} : am[g] \in Int
      /\ \A i \in 1..Len(r) : am[r[i]] = p.data[r[i]].current[side] /\ am[r[i]] \in Int
  BY <1>1 DEF AmountsOf
<1>3. CASE r = <<>>
  <2>1. q = Append(r, f)
    <3>1. q = <<f>>
      BY <1>3, InsertUnfolds
    <3>2. Append(<<>>, f) = <<f>>
      OBVIOUS
    <3>3. QED
      BY <1>3, <3>1, <3>2
  <2> HIDE DEF q
  <2>2. q \in Seq(S \cup {f}) /\ PutAt(q, r, Len(r) + 1, f)
    BY <1>1, <2>1, PutLast
  <2>3. Len(r) = 0
    BY <1>3
  <2>4. PICK k : k = Len(r) + 1
    OBVIOUS
  <2>5. /\ k \in 1..Len(r) + 1 /\ q \in Seq(S \cup {f}) /\ PutAt(q, r, k, f)
        /\ (k > 1 => am[r[k - 1]] >= am[f]) /\ (k <= Len(r) => am[f] >= am[r[k]])
    BY <2>2, <2>3, <2>4
  <2>6. Ordered(q, S \cup {f}, am)
    BY <1>2, <2>5, PutKeepsOrder
  <2>7. QED
    BY <2>6 DEF q
<1>4. CASE r # <<>> /\ am[f] > am[r[1]]
  <2>1. q = <<f>> \o r
    <3>1. Head(r) = r[1] /\ 1 \in 1..Len(r)
      BY <1>1, <1>4
    <3>2. p.data[f].current[side] > p.data[Head(r)].current[side]
      BY <1>2, <1>4, <3>1
    <3>3. QED
      BY <1>4, <3>2, InsertUnfolds
  <2> HIDE DEF q
  <2>2. q \in Seq(S \cup {f}) /\ PutAt(q, r, 1, f)
    BY <1>1, <2>1, PutFirst
  <2>3. 1 \in 1..Len(r)
    BY <1>1, <1>4
  <2>4. PICK k : k = 1
    OBVIOUS
  <2>5. /\ k \in 1..Len(r) + 1 /\ q \in Seq(S \cup {f}) /\ PutAt(q, r, k, f)
        /\ (k > 1 => am[r[k - 1]] >= am[f]) /\ (k <= Len(r) => am[f] >= am[r[k]])
    BY <1>2, <1>4, <2>2, <2>3, <2>4
  <2>6. Ordered(q, S \cup {f}, am)
    BY <1>2, <2>5, PutKeepsOrder
  <2>7. QED
    BY <2>6 DEF q
<1>5. CASE r # <<>> /\ ~(am[f] > am[r[1]]) /\ am[f] < am[r[Len(r)]]
  <2>1. q = Append(r, f)
    <3>1. Head(r) = r[1] /\ Last(r) = r[Len(r)] /\ 1 \in 1..Len(r) /\ Len(r) \in 1..Len(r)
      BY <1>1, <1>5 DEF Last
    <3>2. /\ ~(p.data[f].current[side] > p.data[Head(r)].current[side])
          /\ p.data[f].current[side] < p.data[Last(r)].current[side]
      BY <1>2, <1>5, <3>1
    <3>3. QED
      BY <1>5, <3>2, InsertUnfolds
  <2> HIDE DEF q
  <2>2. q \in Seq(S \cup {f}) /\ PutAt(q, r, Len(r) + 1, f)
    BY <1>1, <2>1, PutLast
  <2>3. Len(r) \in 1..Len(r)
    BY <1>1, <1>5
  <2>4. PICK k : k = Len(r) + 1
    OBVIOUS
  <2>5. /\ k \in 1..Len(r) + 1 /\ q \in Seq(S \cup {f}) /\ PutAt(q, r, k, f)
        /\ (k > 1 => am[r[k - 1]] >= am[f]) /\ (k <= Len(r) => am[f] >= am[r[k]])
    BY <1>2, <1>5, <2>2, <2>3, <2>4
  <2>6. Ordered(q, S \cup {f}, am)
    BY <1>2, <2>5, PutKeepsOrder
  <2>7. QED
    BY <2>6 DEF q
<1>6. CASE r # <<>> /\ ~(am[f] > am[r[1]]) /\ ~(am[f] < am[r[Len(r)]])
  <2>1. PICK n, g, W : n = Len(r) /\ g = SearchOf(p, side, r, f) /\ W = Smaller(p, side, r, f)
    OBVIOUS
  <2>2. n \in Nat /\ n >= 1
    BY <1>1, <1>6, <2>1
  <2>3. q = InsertAt(r, g[<<0, n - 1>>] + 1, f)
    <3>1. Head(r) = r[1] /\ Last(r) = r[Len(r)] /\ 1 \in 1..Len(r) /\ Len(r) \in 1..Len(r)
      BY <1>1, <1>6 DEF Last
    <3>2. /\ ~(p.data[f].current[side] > p.data[Head(r)].current[side])
          /\ ~(p.data[f].current[side] < p.data[Last(r)].current[side])
      BY <1>2, <1>6, <3>1
    <3>3. QED
      BY <1>6, <2>1, <3>2, InsertUnfolds
  <2> HIDE DEF q
  <2>4. Halves(g, n, n, W)
    BY <1>1, <2>1, SearchHalves
  <2>5. \A c \in 0..n - 1 : c \in W <=> am[f] > am[r[c + 1]]
    <3> SUFFICES ASSUME NEW c \in 0..n - 1 PROVE c \in W <=> am[f] > am[r[c + 1]]
      OBVIOUS
    <3>1. c + 1 \in 1..Len(r) /\ c \in 0..Len(r)
      BY <2>1, <2>2
    <3>2. PICK x : x = c + 1
      OBVIOUS
    <3>3. am[r[x]] = p.data[r[x]].current[side]
      BY <1>2, <3>1, <3>2
    <3>4. c \in W <=> p.data[f].current[side] > p.data[r[x]].current[side]
      BY <2>1, <3>1, <3>2 DEF Smaller
    <3>5. QED
      BY <1>2, <3>2, <3>3, <3>4
  <2>6. PICK k : k = g[<<0, n - 1>>] + 1
    OBVIOUS
  <2>7. /\ k \in 1..n
        /\ k > 1 => am[r[k - 1]] >= am[f]
        /\ am[f] >= am[r[k]]
    <3>1. CASE n = 1
      <4>1. <<0, n - 1>> \in Spans(n, n)
        BY <2>2, <3>1 DEF Spans
      <4>2. g[<<0, n - 1>>] = 0
        BY <2>4, <3>1, <4>1 DEF Halves, Halved
      <4>3. k = 1
        BY <2>6, <4>2
      <4>4. QED
        BY <1>2, <1>6, <2>1, <3>1, <4>3
    <3>2. CASE n > 1
      <4>1. PICK Low : Low = {c \in 0..n - 1 : am[f] >= am[r[c + 1]]}
        OBVIOUS
      <4>2. \A c \in 0..n - 1 : am[r[c + 1]] \in Int
        <5> SUFFICES ASSUME NEW c \in 0..n - 1 PROVE am[r[c + 1]] \in Int
          OBVIOUS
        <5>1. c + 1 \in 1..Len(r)
          BY <2>1, <2>2
        <5>2. QED
          BY <1>2, <5>1
      <4>3. \A c \in 0..n - 1 : c \in W => c \in Low
        BY <1>2, <2>5, <4>1, <4>2
      <4>4. 0 \notin W /\ n - 1 \in Low
        <5>1. 0 \in 0..n - 1 /\ n - 1 \in 0..n - 1 /\ 0 + 1 = 1 /\ n - 1 + 1 = n
          BY <2>2
        <5>2. ~(am[f] > am[r[1]]) /\ am[f] >= am[r[n]]
          <6>1. Len(r) \in 1..Len(r)
            BY <2>1, <2>2
          <6>2. QED
            BY <1>2, <1>6, <2>1, <6>1
        <5>3. QED
          BY <2>5, <4>1, <5>1, <5>2
      <4>5. PICK x, e : x = g[<<0, e>>] /\ e = n - 1
        OBVIOUS
      <4>6. 0 \in 0..n /\ e \in 0..n /\ 0 < e /\ e \in Low
        BY <2>2, <3>2, <4>4, <4>5
      <4>7. Between(x, 0, e, W, Low)
        BY <2>2, <2>4, <4>3, <4>4, <4>5, <4>6, SearchFinds
      <4>8. x \in 1..n - 1 /\ x - 1 \notin W /\ x \in Low /\ k = x + 1
        BY <2>2, <2>6, <4>5, <4>7 DEF Between
      <4>9. am[f] >= am[r[k]]
        BY <4>1, <4>8
      <4>10. ~(am[f] > am[r[x]])
        <5>1. x - 1 \in 0..n - 1 /\ (x - 1) + 1 = x
          BY <2>2, <4>8
        <5>2. PICK y : y = x - 1
          OBVIOUS
        <5>3. y \in 0..n - 1 /\ y \notin W /\ y + 1 = x
          BY <4>8, <5>1, <5>2
        <5>4. QED
          BY <2>5, <5>3
      <4>11. am[r[x]] \in Int /\ k - 1 = x /\ k \in 1..n
        BY <1>2, <2>1, <2>2, <4>8
      <4>12. QED
        BY <1>2, <4>9, <4>10, <4>11
    <3>3. QED
      BY <2>2, <3>1, <3>2
  <2>8. q \in Seq(S \cup {f}) /\ PutAt(q, r, k, f)
    BY <1>1, <2>1, <2>3, <2>6, <2>7, PutBetween
  <2>9. k \in 1..Len(r) + 1
    BY <2>1, <2>2, <2>7
  <2>10. Ordered(q, S \cup {f}, am)
    BY <1>2, <2>7, <2>8, <2>9, PutKeepsOrder
  <2>11. QED
    BY <2>10 DEF q
<1>7. QED
  BY <1>3, <1>4, <1>5, <1>6

(***************************************************************************)
(* ResortPBUSortList folds InsertFirm over the firms with data: a function *)
(* on their subsets, of which each has the ranking of one firm less.       *)
(***************************************************************************)
Top(s) == Max(s)

InNat(S) == S \subseteq Nat

LEMMA TopIn ==
  ASSUME NEW S, InNat(S), IsFiniteSet(S), S # {}
  PROVE  Top(S) \in S
<1> DEFINE Bad == {T \in SUBSET S : T # {} /\ ~\E x \in T : \A y \in T : x >= y}
<1>1. SUFFICES \E x \in S : \A y \in S : x >= y
  BY Zenon DEF Top, Max
<1>2. SUFFICES ASSUME Bad # {} PROVE FALSE
  OBVIOUS
<1>3. PICK T \in Bad : \A U \in Bad : U \subseteq T => U = T
  <2>1. Bad \subseteq SUBSET S /\ Bad # {}
    BY <1>2
  <2> HIDE DEF Bad
  <2>2. QED
    BY <2>1, SmallestSubset
<1>4. PICK x : x \in T
  BY <1>3
<1>5. T \ {x} \notin Bad /\ T \ {x} \in SUBSET S
  BY <1>3, <1>4
<1>6. CASE T \ {x} = {}
  <2>1. T = {x} /\ x \in Nat
    BY <1>3, <1>4, <1>6 DEF InNat
  <2>2. \A y \in T : x >= y
    BY <2>1
  <2>3. QED
    BY <1>3, <1>4, <2>2
<1>7. CASE T \ {x} # {}
  <2>1. PICK z \in T \ {x} : \A y \in T \ {x} : z >= y
    BY <1>5, <1>7
  <2>2. T \subseteq Nat /\ x \in Nat /\ z \in Nat /\ z \in T
    BY <1>3, <1>4 DEF InNat
  <2>3. \/ \A y \in T : x >= y
        \/ \A y \in T : z >= y
    BY <2>1, <2>2
  <2>4. QED
    BY <1>3, <1>4, <2>2, <2>3
<1>8. QED
  BY <1>6, <1>7

RankingOf(g, p, side, s) == IF s = {} THEN <<>> ELSE InsertFirm(p, side, g[s \ {Top(s)}], Top(s))

FewOf(S, k) == {s \in SUBSET S : Cardinality(s) <= k}

\* The rankings of the subsets with no more than k firms.
Ranks(g, p, side, S, k) == g = [s \in FewOf(S, k) |-> RankingOf(g, p, side, s)]

LEMMA OneLess ==
  ASSUME NEW S, NEW k \in Nat, NEW s, InNat(S), IsFiniteSet(S), s \subseteq S, s # {},
         Cardinality(s) <= k + 1
  PROVE  s \ {Top(s)} \in FewOf(S, k)
<1>1. InNat(s) /\ IsFiniteSet(s)
  BY FS_Subset DEF InNat
<1>2. Top(s) \in s
  BY <1>1, TopIn
<1>3. Cardinality(s \ {Top(s)}) = Cardinality(s) - 1 /\ Cardinality(s) \in Nat
  BY <1>1, <1>2, FS_RemoveElement, FS_CardinalityType
<1>4. PICK T : T = s \ {Top(s)}
  OBVIOUS
<1>5. T \in SUBSET S /\ Cardinality(T) <= k
  BY <1>3, <1>4
<1>6. QED
  BY <1>4, <1>5 DEF FewOf

LEMMA MoreRanks ==
  ASSUME NEW S, NEW k \in Nat, NEW p, NEW side, NEW g, InNat(S), IsFiniteSet(S),
         Ranks(g, p, side, S, k)
  PROVE  \E h : Ranks(h, p, side, S, k + 1)
<1>1. PICK h : h = [s \in FewOf(S, k + 1) |-> RankingOf(g, p, side, s)]
  OBVIOUS
<1>2. \A s \in FewOf(S, k) : s \in FewOf(S, k + 1)
  <2> SUFFICES ASSUME NEW s \in FewOf(S, k) PROVE s \in FewOf(S, k + 1)
    OBVIOUS
  <2>1. s \subseteq S /\ Cardinality(s) <= k
    BY DEF FewOf
  <2>2. Cardinality(s) \in Nat
    BY <2>1, FS_Subset, FS_CardinalityType
  <2>3. QED
    BY <2>1, <2>2 DEF FewOf
<1>3. \A s \in FewOf(S, k) : h[s] = g[s]
  BY <1>1, <1>2 DEF Ranks
<1>4. ASSUME NEW s \in FewOf(S, k + 1)
      PROVE  RankingOf(g, p, side, s) = RankingOf(h, p, side, s)
  <2>1. CASE s = {}
    BY <2>1 DEF RankingOf
  <2>2. CASE s # {}
    <3>1. s \subseteq S /\ Cardinality(s) <= k + 1
      BY DEF FewOf
    <3>2. s \ {Top(s)} \in FewOf(S, k)
      BY <2>2, <3>1, OneLess
    <3>3. h[s \ {Top(s)}] = g[s \ {Top(s)}]
      BY <1>3, <3>2
    <3>4. QED
      BY <3>3 DEF RankingOf
  <2>3. QED
    BY <2>1, <2>2
<1>5. h = [s \in FewOf(S, k + 1) |-> RankingOf(h, p, side, s)]
  BY <1>1, <1>4
<1>6. QED
  BY <1>5 DEF Ranks

LEMMA RanksExist ==
  ASSUME NEW S, NEW k \in Nat, NEW p, NEW side, InNat(S), IsFiniteSet(S)
  PROVE  \E g : Ranks(g, p, side, S, k)
<1> DEFINE Bad == {j \in Nat : ~\E g : Ranks(g, p, side, S, j)}
<1>1. SUFFICES ASSUME Bad # {} PROVE FALSE
  OBVIOUS
<1>2. PICK j \in Bad : \A m \in Bad : j <= m
  BY <1>1, LeastNat
<1>3. j # 0
  <2>1. PICK g : g = [s \in FewOf(S, 0) |-> <<>>]
    OBVIOUS
  <2>2. \A s \in FewOf(S, 0) : RankingOf(g, p, side, s) = <<>>
    <3> SUFFICES ASSUME NEW s \in FewOf(S, 0) PROVE RankingOf(g, p, side, s) = <<>>
      OBVIOUS
    <3>1. s \subseteq S /\ Cardinality(s) <= 0
      BY DEF FewOf
    <3>2. IsFiniteSet(s) /\ Cardinality(s) \in Nat
      BY <3>1, FS_Subset, FS_CardinalityType
    <3>3. s = {}
      BY <3>1, <3>2, FS_EmptySet
    <3>4. QED
      BY <3>3 DEF RankingOf
  <2>3. Ranks(g, p, side, S, 0)
    BY <2>1, <2>2 DEF Ranks
  <2>4. QED
    BY <1>2, <2>3
<1>4. j - 1 \in Nat /\ j - 1 \notin Bad
  BY <1>2, <1>3
<1>5. PICK g : Ranks(g, p, side, S, j - 1)
  BY <1>4
<1>6. \E h : Ranks(h, p, side, S, j - 1 + 1)
  <2>1. PICK i \in Nat : i = j - 1
    BY <1>4
  <2>2. Ranks(g, p, side, S, i)
    BY <1>5, <2>1
  <2>3. \E h : Ranks(h, p, side, S, i + 1)
    BY <2>2, MoreRanks
  <2>4. QED
    BY <2>1, <2>3
<1>7. QED
  BY <1>2, <1>6

\* The fold of ResortPBUSortList.
Resorted(p, side, S) ==
  MapThenFoldSet(LAMBDA f, r : InsertFirm(p, side, r, f), <<>>, LAMBDA f : f, Max, S)

LEMMA ResortedChosen ==
  ASSUME NEW p, NEW side, NEW S
  PROVE  Resorted(p, side, S) = (CHOOSE g : g = [s \in SUBSET S |-> RankingOf(g, p, side, s)])[S]
BY DEF Resorted, MapThenFoldSet, RankingOf, Top

\* Every firm of S is in the list once, the biggest amount first.
LEMMA ResortedInOrder ==
  ASSUME NEW p, NEW side, NEW S, NEW am, InNat(S), IsFiniteSet(S), AmountsOf(p, side, S, am)
  PROVE  Ordered(Resorted(p, side, S), S, am)
<1>1. FewOf(S, Cardinality(S)) = SUBSET S
  <2>1. \A s \in SUBSET S : Cardinality(s) <= Cardinality(S)
    BY FS_Subset
  <2>2. QED
    BY <2>1 DEF FewOf
<1>2. Cardinality(S) \in Nat
  BY FS_CardinalityType
<1>3. PICK g : g = (CHOOSE h : h = [s \in SUBSET S |-> RankingOf(h, p, side, s)])
  OBVIOUS
<1>4. g = [s \in SUBSET S |-> RankingOf(g, p, side, s)]
  <2>1. \E h : h = [s \in SUBSET S |-> RankingOf(h, p, side, s)]
    <3>1. PICK h : Ranks(h, p, side, S, Cardinality(S))
      BY <1>2, RanksExist
    <3>2. QED
      BY <1>1, <3>1 DEF Ranks
  <2>2. QED
    BY <1>3, <2>1, Zenon
<1>5. Resorted(p, side, S) = g[S]
  BY <1>3, ResortedChosen
<1> DEFINE Bad == {s \in SUBSET S : ~Ordered(g[s], s, am)}
<1>6. ASSUME Bad # {} PROVE FALSE
  <2>1. PICK T \in Bad : \A U \in Bad : U \subseteq T => U = T
    <3>1. Bad \subseteq SUBSET S /\ Bad # {}
      BY <1>6
    <3> HIDE DEF Bad
    <3>2. QED
      BY <3>1, SmallestSubset
  <2>2. T \subseteq S /\ ~Ordered(g[T], T, am)
    BY <2>1
  <2>3. InNat(T) /\ IsFiniteSet(T)
    BY <2>2, FS_Subset DEF InNat
  <2>4. T # {}
    <3>1. ASSUME T = {} PROVE FALSE
      <4>1. g[T] = <<>>
        BY <1>4, <3>1 DEF RankingOf
      <4>2. Cardinality(T) = 0
        BY <3>1, FS_EmptySet
      <4>3. Ordered(g[T], T, am)
        BY <3>1, <4>1, <4>2 DEF Ordered
      <4>4. QED
        BY <2>2, <4>3
    <3>2. QED
      BY <3>1
  <2>5. PICK f, U, r : f = Top(T) /\ U = T \ {f} /\ r = g[U]
    OBVIOUS
  <2>6. f \in T /\ f \notin U /\ T = U \cup {f} /\ U \subseteq T /\ U # T
    BY <2>3, <2>4, <2>5, TopIn
  <2>7. Ordered(r, U, am)
    <3>1. U \notin Bad /\ U \in SUBSET S
      BY <2>1, <2>2, <2>6
    <3>2. QED
      BY <2>5, <3>1
  <2>8. g[T] = InsertFirm(p, side, r, f)
    BY <1>4, <2>2, <2>4, <2>5 DEF RankingOf
  <2>9. IsFiniteSet(U) /\ AmountsOf(p, side, U \cup {f}, am)
    <3>1. IsFiniteSet(U)
      BY <2>3, <2>6, FS_Subset
    <3>2. QED
      BY <2>2, <2>6, <3>1 DEF AmountsOf
  <2>10. Ordered(g[T], U \cup {f}, am)
    BY <2>6, <2>7, <2>8, <2>9, InsertKeepsOrder
  <2>11. QED
    BY <2>2, <2>6, <2>10
<1>7. QED
  BY <1>5, <1>6

\* The ranking that ResortPBUSortList leaves: every firm with data once, each knows its place.
LEMMA ResortRanks ==
  ASSUME NEW p, NEW side \in Sides, PbuTyped(p)
  PROVE  Ranked(ResortPBUSortList(p), side)
<1>1. PICK S : S = WithData(p)
  OBVIOUS
<1>2. S \subseteq Firms /\ IsFiniteSet(S) /\ InNat(S) /\ Cardinality(S) \in Nat
  BY <1>1, FirmAssumption, FS_Subset, FS_CardinalityType DEF WithData, InNat
<1>3. PICK am : am = [f \in S |-> p.data[f].current[side]]
  OBVIOUS
<1>4. AmountsOf(p, side, S, am)
  <2>1. \A f \in S : p.data[f] \in PbuData
    BY <1>2 DEF PbuTyped
  <2>2. QED
    BY <1>3, <2>1 DEF AmountsOf, PbuData
<1>5. PICK L : L = [d \in Sides |-> Resorted(p, d, S)]
  OBVIOUS
<1>6. PICK r : r = L[side]
  OBVIOUS
<1>7. Ordered(r, S, am)
  BY <1>2, <1>4, <1>5, <1>6, ResortedInOrder
<1>8. PICK nos : nos = [d \in Sides |-> [f \in Firms |->
           IF f \in S THEN (CHOOSE i \in {i \in DOMAIN L[d] : TRUE} : L[d][i] = f) - 1
           ELSE p.sortNo[d][f]]]
  OBVIOUS
<1>9. PICK last : last = [d \in Sides |-> Len(L[d]) - 1]
  OBVIOUS
<1>10. ResortPBUSortList(p) = [p EXCEPT !.ranked = L, !.last = last, !.sortNo = nos]
  BY <1>1, <1>5, <1>8, <1>9 DEF ResortPBUSortList, Resorted, MapThenFoldSet
<1>11. PICK q : q = ResortPBUSortList(p)
  OBVIOUS
<1>12. q.ranked = L /\ q.last = last /\ q.sortNo = nos /\ q.data = p.data
  BY <1>10, <1>11 DEF PbuTyped
<1>13. WithData(q) = S
  BY <1>1, <1>12 DEF WithData
<1>14. Len(r) = Cardinality(S) /\ DOMAIN r = 1..Len(r)
  BY <1>7 DEF Ordered
<1>15. q.last[side] = Cardinality(S) - 1 /\ Len(q.ranked[side]) = q.last[side] + 1
  BY <1>2, <1>6, <1>9, <1>12, <1>14
<1>16. ASSUME NEW f \in S
       PROVE  q.sortNo[side][f] + 1 \in DOMAIN r /\ r[q.sortNo[side][f] + 1] = f
  <2>1. PICK x : x = CHOOSE i \in {i \in DOMAIN r : TRUE} : r[i] = f
    OBVIOUS
  <2>2. \E i \in {i \in DOMAIN r : TRUE} : r[i] = f
    BY <1>7, <1>14 DEF Ordered
  <2>3. x \in DOMAIN r /\ r[x] = f
    BY <2>1, <2>2
  <2>4. nos[side][f] = x - 1
    BY <1>2, <1>6, <1>8, <2>1
  <2>5. x \in Int
    BY <1>2, <1>14, <2>3
  <2>6. nos[side][f] + 1 = x
    BY <2>4, <2>5
  <2>7. QED
    BY <1>12, <2>3, <2>6
<1>17. ASSUME NEW i \in DOMAIN r, NEW j \in DOMAIN r, i < j
       PROVE  q.data[r[i]].current[side] >= q.data[r[j]].current[side]
  <2>1. r[i] \in S /\ r[j] \in S /\ am[r[i]] >= am[r[j]]
    BY <1>7, <1>14, <1>17 DEF Ordered
  <2>2. QED
    BY <1>3, <1>12, <2>1
<1>18. Ranked(q, side)
  BY <1>6, <1>12, <1>13, <1>15, <1>16, <1>17 DEF Ranked
<1>19. QED
  BY <1>11, <1>18

(***************************************************************************)
(* The members' records keep their shape, whatever their sums are worth.   *)
(***************************************************************************)
LEMMA MemberTypes ==
  ASSUME NEW p, NEW o, NEW ph, PbuTyped(p), o \in Kinds
  PROVE  /\ PbuTyped(UpdatePBUOrderSortList(PBUOrderStatAdd(p, o, ph), o))
         /\ PbuTyped(UpdatePBUOrderSortList(PBUOrderStatDel(p, o, ph), o))
         /\ PbuTyped(PBUOrderStatDel(p, o, ph))
<1>1. PICK a, d : a = PBUOrderStatAdd(p, o, ph) /\ d = PBUOrderStatDel(p, o, ph)
  OBVIOUS
<1>2. PbuMoved(a, p, o, ph, o.balance, Shown(o)) /\ PbuMoved(d, p, o, ph, -o.balance, -o.balance)
  BY <1>1, PbuAddMoves, PbuDelMoves
<1>3. PbuTyped(a) /\ PbuTyped(d)
  BY <1>2 DEF PbuMoved
<1>4. QED
  BY <1>1, <1>3, PbuSortMoves

LEMMA ModifiedTypes ==
  ASSUME NEW s, NEW p, NEW o, NEW new, PbuTyped(p), o \in Kinds, new \in Kinds
  PROVE  PbuTyped(Requantified(s, p, o, new)[2]) /\ PbuTyped(Restricted(s, p, o, new)[2])
<1>1. PICK v : v = PBUOrderStatDel(p, o, phase)
  OBVIOUS
<1>2. PICK q : q = UpdatePBUOrderSortList(PBUOrderStatAdd(v, new, phase), new)
  OBVIOUS
<1>3. PbuTyped(v)
  BY <1>1, MemberTypes
<1>4. PbuTyped(q)
  BY <1>2, <1>3, MemberTypes
<1>5. \/ Requantified(s, p, o, new)[2] = p
      \/ Requantified(s, p, o, new)[2] = q
  BY <1>1, <1>2 DEF Requantified
<1>6. \/ Restricted(s, p, o, new)[2] = p
      \/ Restricted(s, p, o, new)[2] = q
  BY <1>1, <1>2 DEF Restricted
<1>7. QED
  BY <1>3, <1>4, <1>5, <1>6

RankInv == StatInv /\ PbuTyped(pbu) /\ PbuRanked

LEMMA AttachKeepsRank ==
  ASSUME RankInv, Attach
  PROVE  PbuTyped(pbu') /\ PbuRanked'
<1>1. CASE (WalkOn \/ NeedLevel \/ SkipUsed \/ LevelsExhausted) /\ UNCHANGED lifeVars
  <2>1. UNCHANGED <<pbu, ranked>>
    BY <1>1 DEF lifeVars, sumVars, historyVars
  <2>2. QED
    BY <2>1 DEF RankInv, PbuRanked
<1>2. ASSUME NEW k, Attached(k), pc # "idle"
      PROVE  PbuTyped(pbu') /\ PbuRanked'
  <2>1. PICK o : o = Last(placed).kind
    OBVIOUS
  <2>2. o \in Kinds
    <3>1. nextOrder \in Nat /\ nextOrder > 0 /\ Len(placed) = nextOrder /\ IsRow(placed[nextOrder])
      BY <1>2 DEF RankInv, StatInv, RowsKept, Rowed
    <3>2. o = placed[nextOrder].kind
      BY <2>1, <3>1 DEF Last
    <3>3. QED
      BY <3>1, <3>2 DEF IsRow
  <2>3. pbu' = UpdatePBUOrderSortList(PBUOrderStatAdd(pbu, o, phase), o) /\ ~ranked'
    BY <1>2, <2>1 DEF Attached
  <2>4. PICK p, q : p = pbu /\ q = UpdatePBUOrderSortList(PBUOrderStatAdd(p, o, phase), o)
    OBVIOUS
  <2>5. PbuTyped(q)
    BY <2>2, <2>4, MemberTypes DEF RankInv
  <2>6. QED
    BY <2>3, <2>4, <2>5 DEF PbuRanked
<1>3. CASE UpdateNode /\ Attached(index)
  BY <1>2, <1>3 DEF UpdateNode
<1>4. CASE InsertNode /\ Attached(nextLevel[order.side])
  BY <1>2, <1>4 DEF InsertNode
<1>5. QED
  BY <1>1, <1>3, <1>4 DEF Attach

LEMMA WithdrawKeepsRank ==
  ASSUME RankInv, Withdraw
  PROVE  PbuTyped(pbu') /\ PbuRanked'
<1>1. PICK n \in 0..Len(placed) - 1 : CancelOrder(n) \/ DeleteOrder(n) \/ ModifyOrder(n)
  BY DEF Withdraw
<1>2. ~ranked'
  BY DEF Withdraw
<1>3. PICK p, o : p = pbu /\ o = placed[n + 1].kind
  OBVIOUS
<1>4. PbuTyped(p)
  BY <1>3 DEF RankInv
<1>5. o \in Kinds
  <2>1. nextOrder \in Nat /\ Len(placed) = nextOrder /\ \A i \in 1..nextOrder : IsRow(placed[i])
    BY DEF RankInv, StatInv, RowsKept, Rowed
  <2>2. n + 1 \in 1..nextOrder
    BY <2>1
  <2>3. QED
    BY <1>3, <2>1, <2>2 DEF IsRow
<1>6. CASE Removed(n)
  <2>1. pbu' = UpdatePBUOrderSortList(PBUOrderStatDel(p, o, phase), o)
    BY <1>3, <1>6 DEF Removed
  <2>2. QED
    BY <1>2, <1>4, <1>5, <2>1, MemberTypes DEF PbuRanked
<1>7. CASE ModifyOrder(n)
  <2>1. PICK b \in Quantities, t \in NewTypes :
          LET o1 == [placed[n + 1].kind EXCEPT !.balance = b]
              o2 == [o1 EXCEPT !.type = t]
              first == Requantified(sums, pbu, placed[n + 1].kind, o1)
              both == Restricted(first[1], first[2], o1, o2)
          IN  pbu' = both[2]
    BY <1>7, Zenon DEF ModifyOrder
  <2>2. PICK o1, o2 : o1 = [o EXCEPT !.balance = b] /\ o2 = [o1 EXCEPT !.type = t]
    OBVIOUS
  <2>3. o1 \in Kinds /\ o2 \in Kinds
    <3>1. b \in Nat /\ t \in STRING
      BY QuantityAssumption, KindAssumption
    <3>2. QED
      BY <1>5, <2>2, <3>1 DEF Kinds
  <2>4. PICK first, both : /\ first = Requantified(sums, p, o, o1)
                           /\ both = Restricted(first[1], first[2], o1, o2)
    OBVIOUS
  <2>5. pbu' = both[2]
    BY <1>3, <2>1, <2>2, <2>4
  <2>6. PbuTyped(first[2])
    BY <1>4, <1>5, <2>3, <2>4, ModifiedTypes
  <2>7. PbuTyped(both[2])
    BY <2>3, <2>4, <2>6, ModifiedTypes
  <2>8. QED
    BY <1>2, <2>5, <2>7 DEF PbuRanked
<1>8. QED
  BY <1>1, <1>6, <1>7 DEF CancelOrder, DeleteOrder

LEMMA RankStep == RankInv /\ [NextLife]_orderVars => RankInv'
<1> SUFFICES ASSUME RankInv, [NextLife]_orderVars PROVE RankInv'
  OBVIOUS
<1>1. StatInv'
  BY StatStep DEF RankInv
<1>2. CASE UNCHANGED <<pbu, ranked>>
  BY <1>1, <1>2 DEF RankInv, PbuRanked
<1>3. CASE UNCHANGED orderVars
  BY <1>2, <1>3 DEF orderVars, lifeVars, sumVars, historyVars
<1>4. CASE AddOrder
  BY <1>2, <1>4 DEF AddOrder, sumVars, historyVars
<1>5. CASE Attach
  BY <1>1, <1>5, AttachKeepsRank DEF RankInv
<1>6. CASE Withdraw
  BY <1>1, <1>6, WithdrawKeepsRank DEF RankInv
<1>7. CASE StatusChange
  <2>1. PICK p, q : p = pbu /\ q = PBUStatusChange(p, phase, phase')
    OBVIOUS
  <2>2. pbu' = ResortPBUSortList(q)
    BY <1>7, <2>1 DEF StatusChange
  <2>3. PbuTyped(q)
    BY <2>1, StatusData DEF RankInv
  <2>4. PbuTyped(ResortPBUSortList(q))
    BY <2>3, ResortData
  <2>5. \A side \in Side : Ranked(ResortPBUSortList(q), side)
    BY <2>3, ResortRanks DEF Side, Sides
  <2>6. QED
    BY <1>1, <2>2, <2>4, <2>5 DEF RankInv, PbuRanked
<1>8. QED
  BY <1>3, <1>4, <1>5, <1>6, <1>7 DEF NextLife

\* When the phase changes, ResortPBUSortList (stock_pbu.c) finds every member its place: all
\* that have ordered are ranked once, the biggest amount first, though each was put where a
\* binary search between the ends of the list said.
THEOREM MembersRanked == LifeSpec => []PbuRanked
<1>1. InitLife => RankInv
  <2> SUFFICES ASSUME InitLife PROVE RankInv
    OBVIOUS
  <2>1. StatInv /\ ~again /\ ~ranked
    BY StatInitial DEF InitLife
  <2>2. QED
    BY <2>1 DEF RankInv, StatInv, SumsInv, PbuRanked
<1>2. RankInv /\ [NextLife]_orderVars => RankInv'
  BY RankStep
<1>3. RankInv => PbuRanked
  BY DEF RankInv
<1>4. QED
  BY <1>1, <1>2, <1>3, PTL DEF LifeSpec
=============================================================================
