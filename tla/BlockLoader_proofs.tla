------------------------- MODULE BlockLoader_proofs -------------------------
EXTENDS BlockLoader, WellFoundedInduction, FiniteSetTheorems, TLAPS

-----------------------------------------------------------------------------
(* Induction, and what sums over finite sets are.                          *)

\* A set of naturals has a smallest one.
LEMMA Smallest ==
  ASSUME NEW T, T \subseteq Nat, T # {}
  PROVE  \E n \in T : \A m \in T : n <= m
<1> DEFINE R == {ss \in Nat \X Nat : ss[1] < ss[2]}
<1>1. IsWellFoundedOn(R, Nat)
  BY NatLessThanWellFounded DEF OpToRel
<1> HIDE DEF R
<1>2. PICK n \in T : \A m \in T : <<m, n>> \notin R
  BY <1>1, WFMin
<1>3. \A m \in Nat : m < n => <<m, n>> \in R
  <2>1. n \in Nat
    OBVIOUS
  <2>2. \A m \in Nat : <<m, n>> \in Nat \X Nat /\ <<m, n>>[1] = m /\ <<m, n>>[2] = n
    BY <2>1
  <2> QED BY <2>2, Zenon DEF R
<1>4. ASSUME NEW m \in T PROVE n <= m
  <2>1. n \in Nat /\ m \in Nat
    OBVIOUS
  <2>2. ~ (m < n)
    BY <1>2, <1>3, <2>1
  <2> QED BY <2>1, <2>2
<1> QED BY <1>4

\* Induction over the naturals, for a set.
LEMMA Induction ==
  ASSUME NEW S, 0 \in S, \A n \in Nat : n \in S => n + 1 \in S
  PROVE  \A n \in Nat : n \in S
<1> SUFFICES ASSUME Nat \ S # {} PROVE FALSE
  OBVIOUS
<1>1. PICK n \in Nat \ S : \A m \in Nat \ S : n <= m
  BY Smallest
<1>2. n # 0 /\ n - 1 \in Nat
  BY <1>1
<1>3. n - 1 \in S
  BY <1>1, <1>2
<1> QED BY <1>1, <1>2, <1>3


-----------------------------------------------------------------------------
\* What a sum takes first of a set.
Pick(s) == CHOOSE x \in s : TRUE

\* g sums the values of f over the subsets of S.
Sums(g, f, S) ==
  g = [s \in SUBSET S |-> IF s = {} THEN 0 ELSE f[Pick(s)] + g[s \ {Pick(s)}]]

\* The same for the sets of at most n elements.
SumsUpTo(g, f, S, n) ==
  /\ g \in [SUBSET S -> Nat]
  /\ \A s \in SUBSET S : Cardinality(s) <= n =>
       g[s] = IF s = {} THEN 0 ELSE f[Pick(s)] + g[s \ {Pick(s)}]

LEMMA PickIsIn == \A s : s # {} => Pick(s) \in s
  BY DEF Pick

\* Removing an element from a finite set.
LEMMA Smaller ==
  ASSUME NEW S, IsFiniteSet(S), NEW s \in SUBSET S, NEW x \in s
  PROVE  /\ s \ {x} \in SUBSET S
         /\ Cardinality(s) \in Nat /\ Cardinality(s \ {x}) \in Nat
         /\ Cardinality(s \ {x}) = Cardinality(s) - 1
         /\ Cardinality(s) <= Cardinality(S) /\ Cardinality(S) \in Nat
<1>1. IsFiniteSet(s) /\ Cardinality(s) <= Cardinality(S)
  BY FS_Subset
<1> QED BY <1>1, FS_RemoveElement, FS_CardinalityType

LEMMA OnlyEmpty ==
  ASSUME NEW S, IsFiniteSet(S), NEW s \in SUBSET S, Cardinality(s) <= 0
  PROVE  s = {}
<1> SUFFICES ASSUME s # {} PROVE FALSE
  OBVIOUS
<1>1. PICK x \in s : TRUE
  OBVIOUS
<1>2. /\ Cardinality(s) \in Nat /\ Cardinality(s \ {x}) \in Nat
      /\ Cardinality(s \ {x}) = Cardinality(s) - 1
  BY Smaller
<1> QED BY <1>2

LEMMA SumsExist ==
  ASSUME NEW S, IsFiniteSet(S), NEW f \in [S -> Nat]
  PROVE  \E g \in [SUBSET S -> Nat] : Sums(g, f, S)
<1> DEFINE N == {n \in Nat : \E g : SumsUpTo(g, f, S, n)}
<1>1. 0 \in N
  <2> DEFINE g == [s \in SUBSET S |-> 0]
  <2>1. ASSUME NEW s \in SUBSET S, Cardinality(s) <= 0 PROVE s = {}
    BY <2>1, OnlyEmpty
  <2>2. SumsUpTo(g, f, S, 0)
    BY <2>1 DEF SumsUpTo
  <2> QED BY <2>2
<1>2. ASSUME NEW n \in Nat, n \in N PROVE n + 1 \in N
  <2>1. PICK g : SumsUpTo(g, f, S, n)
    BY <1>2
  <2> DEFINE h == [s \in SUBSET S |->
                     IF s = {} \/ Cardinality(s) # n + 1 THEN g[s]
                     ELSE f[Pick(s)] + g[s \ {Pick(s)}]]
  <2>2. h \in [SUBSET S -> Nat]
    <3>1. ASSUME NEW s \in SUBSET S, s # {}
          PROVE  f[Pick(s)] \in Nat /\ g[s \ {Pick(s)}] \in Nat
      <4>1. Pick(s) \in S /\ s \ {Pick(s)} \in SUBSET S
        BY <3>1, PickIsIn
      <4> QED BY <4>1, <2>1 DEF SumsUpTo
    <3> QED BY <3>1, <2>1 DEF SumsUpTo
  <2>3. ASSUME NEW s \in SUBSET S, Cardinality(s) <= n + 1
        PROVE  h[s] = IF s = {} THEN 0 ELSE f[Pick(s)] + h[s \ {Pick(s)}]
    <3>1. CASE s = {}
      <4>1. Cardinality(s) <= n
        BY <3>1, FS_EmptySet
      <4> QED BY <3>1, <4>1, <2>1 DEF SumsUpTo
    <3>2. CASE s # {}
      <4> DEFINE t == s \ {Pick(s)}
      <4>1. t \in SUBSET S /\ Cardinality(t) = Cardinality(s) - 1 /\ Cardinality(s) \in Nat
        BY <3>2, PickIsIn, Smaller
      <4>2. h[t] = g[t]
        BY <4>1, <2>3
      <4>3. CASE Cardinality(s) = n + 1
        BY <4>2, <4>3, <3>2
      <4>4. CASE Cardinality(s) # n + 1
        <5>1. Cardinality(s) <= n /\ h[s] = g[s]
          BY <4>4, <4>1, <2>3
        <5>2. g[s] = f[Pick(s)] + g[t]
          BY <5>1, <2>1, <3>2 DEF SumsUpTo
        <5> QED BY <5>1, <5>2, <4>2, <3>2
      <4> QED BY <4>3, <4>4
    <3> QED BY <3>1, <3>2
  <2>4. SumsUpTo(h, f, S, n + 1)
    BY <2>2, <2>3 DEF SumsUpTo
  <2> QED BY <2>4
<1>3. Cardinality(S) \in N
  <2> HIDE DEF N
  <2> QED BY <1>1, <1>2, Induction, FS_CardinalityType
<1>4. PICK g : SumsUpTo(g, f, S, Cardinality(S))
  BY <1>3
<1>5. \A s \in SUBSET S : Cardinality(s) <= Cardinality(S)
  BY FS_Subset
<1>6. Sums(g, f, S)
  BY <1>4, <1>5 DEF Sums, SumsUpTo
<1> QED BY <1>4, <1>6 DEF SumsUpTo

LEMMA SumDefinition ==
  ASSUME NEW S, NEW f
  PROVE  SumFunctionOnSet(f, S) = (CHOOSE g : Sums(g, f, S))[S]
  BY DEF SumFunctionOnSet, FoldFunctionOnSet, MapThenFoldSet, Sums, Pick

\* What sums over the subsets of a set sums over those of a smaller one.
LEMMA SumsAgree ==
  ASSUME NEW S, IsFiniteSet(S), NEW f \in [S -> Nat], NEW g, Sums(g, f, S),
         NEW T \in SUBSET S, NEW h, Sums(h, f, T)
  PROVE  \A s \in SUBSET T : h[s] = g[s]
<1> DEFINE N == {n \in Nat : \A s \in SUBSET T : Cardinality(s) <= n => h[s] = g[s]}
<1>0. \A s \in SUBSET T : /\ s \in SUBSET S
                          /\ g[s] = IF s = {} THEN 0 ELSE f[Pick(s)] + g[s \ {Pick(s)}]
                          /\ h[s] = IF s = {} THEN 0 ELSE f[Pick(s)] + h[s \ {Pick(s)}]
  BY DEF Sums
<1>1. 0 \in N
  <2>1. ASSUME NEW s \in SUBSET T, Cardinality(s) <= 0 PROVE s = {}
    BY <2>1, OnlyEmpty
  <2> QED BY <2>1, <1>0
<1>2. ASSUME NEW n \in Nat, n \in N PROVE n + 1 \in N
  <2>1. ASSUME NEW s \in SUBSET T, Cardinality(s) <= n + 1 PROVE h[s] = g[s]
    <3>1. CASE s = {}
      BY <3>1, <1>0
    <3>2. CASE s # {}
      <4> DEFINE t == s \ {Pick(s)}
      <4>1. t \in SUBSET T /\ Cardinality(t) = Cardinality(s) - 1 /\ Cardinality(s) \in Nat
        BY <3>2, PickIsIn, Smaller
      <4>2. h[t] = g[t]
        BY <4>1, <2>1, <1>2
      <4> QED BY <4>2, <3>2, <1>0
    <3> QED BY <3>1, <3>2
  <2> QED BY <2>1
<1>3. Cardinality(S) \in N
  <2> HIDE DEF N
  <2> QED BY <1>1, <1>2, Induction, FS_CardinalityType
<1>4. \A s \in SUBSET T : Cardinality(s) <= Cardinality(S)
  BY FS_Subset
<1> QED BY <1>3, <1>4

\* g sums over all subsets of S.
SumsAll(g, f, S) ==
  /\ g \in [SUBSET S -> Nat]
  /\ Sums(g, f, S)
  /\ \A T \in SUBSET S : SumFunctionOnSet(f, T) = g[T]

LEMMA SumFunctionExists ==
  ASSUME NEW S, IsFiniteSet(S), NEW f \in [S -> Nat]
  PROVE  \E g : SumsAll(g, f, S)
<1>1. PICK g \in [SUBSET S -> Nat] : Sums(g, f, S)
  BY SumsExist
<1>2. ASSUME NEW T \in SUBSET S PROVE SumFunctionOnSet(f, T) = g[T]
  <2> DEFINE h == CHOOSE h : Sums(h, f, T)
             k == [t \in SUBSET T |-> g[t]]
  <2>1. Sums(k, f, T)
    <3>1. \A t \in SUBSET T : t \ {Pick(t)} \in SUBSET T /\ t \in SUBSET S
      OBVIOUS
    <3>2. \A t \in SUBSET T :
            k[t] = IF t = {} THEN 0 ELSE f[Pick(t)] + k[t \ {Pick(t)}]
      BY <3>1, <1>1 DEF Sums
    <3>3. k = [t \in SUBSET T |-> k[t]]
      OBVIOUS
    <3> QED BY <3>2, <3>3, Zenon DEF Sums
  <2>2. Sums(h, f, T)
    <3> HIDE DEF k
    <3> QED BY <2>1, Zenon
  <2>3. SumFunctionOnSet(f, T) = h[T]
    BY SumDefinition
  <2> HIDE DEF h
  <2> QED BY <2>2, <2>3, <1>1, SumsAgree
<1> QED BY <1>1, <1>2 DEF SumsAll

-----------------------------------------------------------------------------
(* The laws of sums over finite sets.                                      *)

LEMMA SumType ==
  ASSUME NEW S, IsFiniteSet(S), NEW f \in [S -> Nat], NEW T \in SUBSET S
  PROVE  SumFunctionOnSet(f, T) \in Nat
<1>1. PICK g : SumsAll(g, f, S)
  BY SumFunctionExists
<1> QED BY <1>1 DEF SumsAll

LEMMA SumEmpty ==
  ASSUME NEW S, IsFiniteSet(S), NEW f \in [S -> Nat]
  PROVE  SumFunctionOnSet(f, {}) = 0
<1>1. PICK g : SumsAll(g, f, S)
  BY SumFunctionExists
<1>2. g[{}] = 0
  BY <1>1 DEF Sums, SumsAll
<1> QED BY <1>1, <1>2 DEF SumsAll

\* Whichever element is taken off a set, the sum is that of the others and its value.
LEMMA SumRemove ==
  ASSUME NEW S, IsFiniteSet(S), NEW f \in [S -> Nat], NEW T \in SUBSET S, NEW x \in T
  PROVE  SumFunctionOnSet(f, T) = f[x] + SumFunctionOnSet(f, T \ {x})
<1>1. PICK g : SumsAll(g, f, S)
  BY SumFunctionExists
<1>0. \A U \in SUBSET S : U # {} => g[U] = f[Pick(U)] + g[U \ {Pick(U)}]
  BY <1>1 DEF Sums, SumsAll
<1> DEFINE N == {n \in Nat : \A U \in SUBSET S : \A y \in U :
                   Cardinality(U) <= n => g[U] = f[y] + g[U \ {y}]}
<1>2. 0 \in N
  <2>1. ASSUME NEW U \in SUBSET S, Cardinality(U) <= 0 PROVE U = {}
    BY <2>1, OnlyEmpty
  <2> QED BY <2>1
<1>3. ASSUME NEW n \in Nat, n \in N PROVE n + 1 \in N
  <2>1. ASSUME NEW U \in SUBSET S, NEW y \in U, Cardinality(U) <= n + 1
        PROVE  g[U] = f[y] + g[U \ {y}]
    <3> DEFINE p == Pick(U)
    <3>0. p \in U
      BY PickIsIn
    <3>1. g[U] = f[p] + g[U \ {p}]
      BY <1>0
    <3> HIDE DEF p
    <3>2. CASE p = y
      BY <3>1, <3>2
    <3>3. CASE p # y
      <4> DEFINE V == U \ {p}
                 W == U \ {y}
      <4>1. /\ V \in SUBSET S /\ Cardinality(V) <= n /\ y \in V
            /\ W \in SUBSET S /\ Cardinality(W) <= n /\ p \in W
        <5>1. /\ Cardinality(U) \in Nat /\ Cardinality(V) = Cardinality(U) - 1
              /\ Cardinality(W) = Cardinality(U) - 1
          BY <3>0, Smaller
        <5> QED BY <5>1, <2>1, <3>0, <3>3
      <4>2. V \ {y} = W \ {p}
        OBVIOUS
      <4>3. g[V] = f[y] + g[V \ {y}] /\ g[W] = f[p] + g[W \ {p}]
        BY <4>1, <1>3
      <4>4. /\ g[V] \in Nat /\ g[W] \in Nat /\ f[p] \in Nat /\ f[y] \in Nat
            /\ g[W \ {p}] \in Nat
        BY <4>1, <1>1 DEF SumsAll
      <4> HIDE DEF V, W
      <4>5. g[U] = f[p] + g[V]
        BY <3>1 DEF V
      <4>6. g[V \ {y}] = g[W \ {p}]
        BY <4>2
      <4>7. g[U] = f[y] + g[W]
        BY <4>3, <4>4, <4>5, <4>6
      <4> QED BY <4>7 DEF W
    <3> QED BY <3>2, <3>3
  <2> QED BY <2>1
<1>4. Cardinality(S) \in N
  <2> HIDE DEF N
  <2> QED BY <1>2, <1>3, Induction, FS_CardinalityType
<1>5. Cardinality(T) <= Cardinality(S)
  BY FS_Subset
<1>6. g[T] = f[x] + g[T \ {x}]
  BY <1>4, <1>5
<1> QED BY <1>6, <1>1 DEF SumsAll

\* Two sets that have nothing in common.
LEMMA SumUnion ==
  ASSUME NEW S, IsFiniteSet(S), NEW f \in [S -> Nat], NEW T \in SUBSET S,
         NEW U \in SUBSET S, T \cap U = {}
  PROVE  SumFunctionOnSet(f, T \cup U) = SumFunctionOnSet(f, T) + SumFunctionOnSet(f, U)
<1> DEFINE Sum(V) == SumFunctionOnSet(f, V)
           N == {n \in Nat : \A V \in SUBSET S :
                   Cardinality(V) <= n /\ T \cap V = {} => Sum(T \cup V) = Sum(T) + Sum(V)}
<1>0. \A V \in SUBSET S : Sum(V) \in Nat
  BY SumType
<1>1. 0 \in N
  <2>1. ASSUME NEW V \in SUBSET S, Cardinality(V) <= 0 PROVE V = {}
    BY <2>1, OnlyEmpty
  <2>2. Sum({}) = 0 /\ T \cup {} = T
    BY SumEmpty
  <2>3. Sum(T) \in Nat
    BY <1>0
  <2>4. Sum(T \cup {}) = Sum(T) + Sum({})
    BY <2>2, <2>3
  <2> HIDE DEF Sum
  <2> QED BY <2>1, <2>4
<1>2. ASSUME NEW n \in Nat, n \in N PROVE n + 1 \in N
  <2>1. ASSUME NEW V \in SUBSET S, Cardinality(V) <= n + 1, T \cap V = {}
        PROVE  Sum(T \cup V) = Sum(T) + Sum(V)
    <3>1. CASE V = {}
      <4>1. Sum({}) = 0 /\ T \cup {} = T
        BY SumEmpty
      <4> QED BY <4>1, <3>1, <1>0
    <3>2. CASE V # {}
      <4>1. PICK x \in V : TRUE
        BY <3>2
      <4> DEFINE W == V \ {x}
      <4>2. W \in SUBSET S /\ T \cap W = {} /\ (T \cup V) \ {x} = T \cup W
            /\ T \cup V \in SUBSET S /\ T \cup W \in SUBSET S /\ x \in T \cup V
        BY <2>1
      <4>3. Cardinality(W) <= n
        <5>1. Cardinality(V) \in Nat /\ Cardinality(W) = Cardinality(V) - 1
          BY Smaller
        <5> QED BY <5>1, <2>1
      <4>4. Sum(T \cup W) = Sum(T) + Sum(W)
        BY <4>2, <4>3, <1>2
      <4>5. Sum(V) = f[x] + Sum(W)
        BY SumRemove
      <4>6. Sum(T \cup V) = f[x] + Sum((T \cup V) \ {x})
        BY <4>2, SumRemove
      <4>7. /\ f[x] \in Nat /\ Sum(T) \in Nat /\ Sum(W) \in Nat /\ Sum(V) \in Nat
            /\ Sum(T \cup W) \in Nat /\ Sum((T \cup V) \ {x}) = Sum(T \cup W)
        BY <4>2, <1>0
      <4> HIDE DEF Sum, W
      <4> QED BY <4>4, <4>5, <4>6, <4>7
    <3> QED BY <3>1, <3>2
  <2> QED BY <2>1
<1>3. Cardinality(S) \in N
  <2> HIDE DEF N
  <2> QED BY <1>1, <1>2, Induction, FS_CardinalityType
<1>4. Cardinality(U) <= Cardinality(S)
  BY FS_Subset
<1> QED BY <1>3, <1>4

\* Where the values are no larger, neither is the sum.
LEMMA SumMonotonic ==
  ASSUME NEW S, IsFiniteSet(S), NEW f \in [S -> Nat], NEW h \in [S -> Nat],
         NEW T \in SUBSET S, \A x \in T : f[x] <= h[x]
  PROVE  SumFunctionOnSet(f, T) <= SumFunctionOnSet(h, T)
<1> DEFINE Le(V) == SumFunctionOnSet(f, V) <= SumFunctionOnSet(h, V)
           N == {n \in Nat : \A V \in SUBSET T : Cardinality(V) <= n => Le(V)}
<1>0. \A V \in SUBSET S : SumFunctionOnSet(f, V) \in Nat /\ SumFunctionOnSet(h, V) \in Nat
  BY SumType
<1>5. Le({})
  <2>1. SumFunctionOnSet(f, {}) = 0 /\ SumFunctionOnSet(h, {}) = 0
    BY SumEmpty
  <2> QED BY <2>1
<1>1. 0 \in N
  <2>1. ASSUME NEW V \in SUBSET T, Cardinality(V) <= 0 PROVE V = {}
    BY <2>1, OnlyEmpty
  <2> HIDE DEF Le
  <2> QED BY <2>1, <1>5
<1>2. ASSUME NEW n \in Nat, n \in N PROVE n + 1 \in N
  <2>1. ASSUME NEW V \in SUBSET T, Cardinality(V) <= n + 1, V # {}
        PROVE  Le(V)
    <3>1. PICK x \in V : TRUE
      BY <2>1
    <3> DEFINE W == V \ {x}
    <3>2. V \in SUBSET S /\ W \in SUBSET T /\ W \in SUBSET S
      OBVIOUS
    <3>3. Cardinality(W) <= n
      <4>1. Cardinality(V) \in Nat /\ Cardinality(W) = Cardinality(V) - 1
        BY <3>2, Smaller
      <4> QED BY <4>1, <2>1
    <3>4. Le(W)
      BY <3>2, <3>3, <1>2
    <3>5. /\ SumFunctionOnSet(f, V) = f[x] + SumFunctionOnSet(f, W)
          /\ SumFunctionOnSet(h, V) = h[x] + SumFunctionOnSet(h, W)
      BY <3>2, SumRemove
    <3>6. f[x] <= h[x] /\ f[x] \in Nat /\ h[x] \in Nat
      BY <3>2
    <3> HIDE DEF W
    <3> QED BY <3>2, <3>4, <3>5, <3>6, <1>0
  <2> HIDE DEF Le
  <2> QED BY <2>1, <1>5
<1>3. Cardinality(S) \in N
  <2> HIDE DEF N
  <2> QED BY <1>1, <1>2, Induction, FS_CardinalityType
<1>4. Cardinality(T) <= Cardinality(S)
  BY FS_Subset
<1> QED BY <1>3, <1>4

\* The values elsewhere do not matter.
LEMMA SumSame ==
  ASSUME NEW S, IsFiniteSet(S), NEW f \in [S -> Nat], NEW h \in [S -> Nat],
         NEW T \in SUBSET S, \A x \in T : f[x] = h[x]
  PROVE  SumFunctionOnSet(f, T) = SumFunctionOnSet(h, T)
<1>1. SumFunctionOnSet(f, T) \in Nat /\ SumFunctionOnSet(h, T) \in Nat
  BY SumType
<1>2. \A x \in T : f[x] <= h[x] /\ h[x] <= f[x]
  OBVIOUS
<1>3. SumFunctionOnSet(f, T) <= SumFunctionOnSet(h, T)
  BY <1>2, SumMonotonic
<1>4. SumFunctionOnSet(h, T) <= SumFunctionOnSet(f, T)
  BY <1>2, SumMonotonic
<1> QED BY <1>1, <1>3, <1>4

LEMMA SumZero ==
  ASSUME NEW S, IsFiniteSet(S), NEW f \in [S -> Nat], \A x \in S : f[x] = 0
  PROVE  SumFunctionOnSet(f, S) = 0
<1>1. PICK g : SumsAll(g, f, S)
  BY SumFunctionExists
<1> DEFINE z == [T \in SUBSET S |-> 0]
<1>2. Sums(z, f, S)
  <2>1. \A T \in SUBSET S : T # {} => Pick(T) \in S /\ T \ {Pick(T)} \in SUBSET S
    BY PickIsIn
  <2>2. \A T \in SUBSET S :
          z[T] = IF T = {} THEN 0 ELSE f[Pick(T)] + z[T \ {Pick(T)}]
    BY <2>1
  <2>3. z = [T \in SUBSET S |-> z[T]]
    OBVIOUS
  <2> QED BY <2>2, <2>3, Zenon DEF Sums
<1>3. Sums(g, f, S) /\ SumFunctionOnSet(f, S) = g[S]
  BY <1>1 DEF SumsAll
<1> HIDE DEF z
<1>4. z[S] = g[S]
  BY <1>2, <1>3, SumsAgree
<1> QED BY <1>3, <1>4 DEF z

-----------------------------------------------------------------------------
(* The blocks of time.                                                     *)

LEMMA DivisionBounds ==
  ASSUME NEW a \in Nat, NEW b \in Nat \ {0}
  PROVE  a \div b \in Nat /\ b * (a \div b) <= a /\ a < b * (a \div b) + b
  OBVIOUS

LEMMA ProductMonotonic ==
  ASSUME NEW a \in Nat, NEW b \in Nat, NEW c \in Nat, a <= b
  PROVE  a * c <= b * c
  OBVIOUS

LEMMA ProductSmaller ==
  ASSUME NEW a \in Nat, NEW b \in Nat, NEW c \in Nat, a * c < b * c
  PROVE  a < b
  OBVIOUS

LEMMA ProductNext ==
  ASSUME NEW a \in Nat, NEW c \in Nat
  PROVE  (a + 1) * c = a * c + c /\ a * c \in Nat
  OBVIOUS

\* Ceiling rounds up.
LEMMA CeilingBounds ==
  ASSUME NEW a \in Nat \ {0}, NEW b \in Nat \ {0}
  PROVE  /\ Ceiling(a, b) \in Nat \ {0}
         /\ a <= Ceiling(a, b) * b
         /\ (Ceiling(a, b) - 1) * b < a
<1> DEFINE c == (a + b - 1) \div b
<1>1. a + b - 1 \in Nat
  OBVIOUS
<1>2. c \in Nat /\ b * c <= a + b - 1 /\ a + b - 1 < b * c + b
  BY <1>1, DivisionBounds
<1> HIDE DEF c
<1>3. c # 0
  BY <1>2
<1>4. c - 1 \in Nat
  BY <1>2, <1>3
<1>5. b * c = c * b /\ (c - 1) * b + b = c * b /\ (c - 1) * b \in Nat
  BY <1>2, <1>4, ProductNext
<1>6. c * b \in Nat
  BY <1>2, ProductNext
<1>7. a <= c * b /\ (c - 1) * b < a
  BY <1>2, <1>5, <1>6
<1> QED BY <1>2, <1>3, <1>7 DEF Ceiling, c

LEMMA Durations ==
  /\ Total \in Nat \ {0} /\ LastTime \in Nat /\ Total = LastTime + 1
  /\ Duration \in Nat \ {0}
  /\ NoBlock \in Nat \ {0}
  /\ BlockIds = 0..(NoBlock - 1)
  /\ Total <= NoBlock * Duration
  /\ (NoBlock - 1) * Duration < Total
<1>1. Total \in Nat \ {0} /\ LastTime \in Nat /\ MaxBlocks \in Nat \ {0}
      /\ MinDuration \in Nat /\ Total = LastTime + 1
  BY BoundsAssumption DEF Total
<1>2. Ceiling(Total, MaxBlocks) \in Nat \ {0}
  BY <1>1, CeilingBounds
<1>3. Duration \in Nat \ {0}
  BY <1>1, <1>2 DEF Duration, Larger
<1> QED BY <1>1, <1>3, CeilingBounds DEF NoBlock, BlockIds

\* Blocks lie one after the other, within the source.
LEMMA BlockTimes ==
  ASSUME NEW k \in BlockIds
  PROVE  /\ k \in Nat /\ k < NoBlock
         /\ StartTime(k) \in Nat /\ EndTime(k) \in Nat
         /\ StartTime(k) <= EndTime(k) /\ EndTime(k) <= LastTime
         /\ k + 1 \in BlockIds => StartTime(k + 1) = EndTime(k) + 1
         /\ k + 1 = NoBlock => EndTime(k) = LastTime
<1>1. k \in Nat /\ k <= NoBlock - 1 /\ NoBlock - 1 \in Nat /\ k + 1 \in Nat
  BY Durations
<1>2. /\ k * Duration \in Nat /\ (k + 1) * Duration = k * Duration + Duration
      /\ k * Duration <= (NoBlock - 1) * Duration
      /\ (NoBlock - 1) * Duration \in Nat
  BY <1>1, Durations, ProductNext, ProductMonotonic
<1>3. k * Duration < Total
  BY <1>2, Durations
<1>4. k + 1 \in BlockIds => (k + 1) * Duration < Total
  <2> SUFFICES ASSUME k + 1 \in BlockIds PROVE (k + 1) * Duration < Total
    OBVIOUS
  <2>1. k + 1 <= NoBlock - 1
    BY Durations
  <2>2. (k + 1) * Duration <= (NoBlock - 1) * Duration /\ (k + 1) * Duration \in Nat
    BY <2>1, <1>1, Durations, ProductMonotonic, ProductNext
  <2> QED BY <2>2, <1>2, Durations
<1>5. k + 1 = NoBlock => Total <= (k + 1) * Duration
  BY Durations
<1> QED BY <1>1, <1>2, <1>3, <1>4, <1>5, Durations DEF StartTime, EndTime

LEMMA BlocksInOrder ==
  ASSUME NEW k \in BlockIds, NEW m \in BlockIds, k < m
  PROVE  EndTime(k) < StartTime(m) /\ EndTime(k) <= EndTime(m)
<1>1. k \in Nat /\ m \in Nat /\ k + 1 <= m /\ k + 1 \in BlockIds
  BY Durations
<1>2. StartTime(k + 1) <= StartTime(m)
  BY <1>1, Durations, ProductMonotonic DEF StartTime
<1> QED BY <1>1, <1>2, BlockTimes

\* Every time of the source is in one of them.
LEMMA TimeInBlock ==
  ASSUME NEW t \in 0..LastTime
  PROVE  \E k \in BlockIds : t \in StartTime(k)..EndTime(k)
<1> DEFINE k == t \div Duration
<1>1. t \in Nat /\ t < Total
  BY Durations
<1>2. k \in Nat /\ Duration * k <= t /\ t < Duration * k + Duration
  BY <1>1, Durations, DivisionBounds
<1> HIDE DEF k
<1>3. k * Duration = Duration * k /\ (k + 1) * Duration = k * Duration + Duration
      /\ k * Duration \in Nat
  BY <1>2, Durations, ProductNext
<1>4. k * Duration < NoBlock * Duration
  BY <1>1, <1>2, <1>3, Durations
<1>5. k < NoBlock
  BY <1>2, <1>4, Durations, ProductSmaller
<1>6. k \in BlockIds
  BY <1>2, <1>5, Durations
<1>7. t \in StartTime(k)..EndTime(k)
  BY <1>1, <1>2, <1>3, Durations DEF StartTime, EndTime
<1> QED BY <1>6, <1>7

LEMMA BlockIdsAreFinite == IsFiniteSet(BlockIds)
  BY Durations, FS_Interval

-----------------------------------------------------------------------------
(* Sizes.                                                                  *)

LEMMA LogTypes ==
  /\ Len(Log) \in Nat /\ IsFiniteSet(1..Len(Log))
  /\ \A i \in 1..Len(Log) : /\ Log[i].kind \in {"message", "stamp"}
                            /\ Log[i].time \in 0..LastTime
                            /\ Log[i].topic \in Topics /\ Log[i].size \in Nat
<1> DEFINE Entries == [kind : {"message", "stamp"}, time : 0..LastTime, topic : Topics,
                       size : Nat]
<1>0. Log \in Seq(Entries)
  BY LogAssumption
<1> HIDE DEF Entries
<1>1. Len(Log) \in Nat /\ \A i \in 1..Len(Log) : Log[i] \in Entries
  BY <1>0
<1>2. \A i \in 1..Len(Log) : /\ Log[i].kind \in {"message", "stamp"}
                            /\ Log[i].time \in 0..LastTime
                            /\ Log[i].topic \in Topics /\ Log[i].size \in Nat
  BY <1>1 DEF Entries
<1> QED BY <1>1, <1>2, FS_Interval

LEMMA SizeType == \A S \in Positions : SizeOf(S) \in Nat
  BY LogTypes, SumType DEF SizeOf, Positions

LEMMA SizeEmpty == SizeOf({}) = 0
  BY LogTypes, SumEmpty DEF SizeOf

\* The size of a set is that of a part of it and that of the rest.
LEMMA SizeSplit ==
  ASSUME NEW S \in Positions, NEW T \in SUBSET S
  PROVE  SizeOf(S) = SizeOf(T) + SizeOf(S \ T)
<1>1. T \in SUBSET (1..Len(Log)) /\ S \ T \in SUBSET (1..Len(Log)) /\ T \cap (S \ T) = {}
      /\ T \cup (S \ T) = S
  BY DEF Positions
<1> DEFINE f == [i \in 1..Len(Log) |-> Log[i].size]
<1>2. f \in [1..Len(Log) -> Nat]
  BY LogTypes
<1>3. \A U \in Positions : SizeOf(U) = SumFunctionOnSet(f, U)
  BY DEF SizeOf
<1> HIDE DEF f
<1>4. SumFunctionOnSet(f, T \cup (S \ T))
        = SumFunctionOnSet(f, T) + SumFunctionOnSet(f, S \ T)
  <2> DEFINE U == S \ T
             P == 1..Len(Log)
  <2>1. IsFiniteSet(P) /\ T \in SUBSET P /\ U \in SUBSET P /\ T \cap U = {}
        /\ f \in [P -> Nat]
    BY <1>1, <1>2, LogTypes
  <2> HIDE DEF U, P
  <2>2. SumFunctionOnSet(f, T \cup U) = SumFunctionOnSet(f, T) + SumFunctionOnSet(f, U)
    BY <2>1, SumUnion
  <2> QED BY <2>2 DEF U
<1> QED BY <1>1, <1>3, <1>4 DEF Positions

LEMMA CacheSizeIsSum ==
  ASSUME NEW bs \in [BlockIds -> Blocks]
  PROVE  /\ [k \in BlockIds |-> bs[k].size] \in [BlockIds -> Nat]
         /\ CacheSize(bs) = SumFunctionOnSet([k \in BlockIds |-> bs[k].size], BlockIds)
         /\ CacheSize(bs) \in Nat
<1> DEFINE f == [k \in BlockIds |-> bs[k].size]
<1>1. f \in [BlockIds -> Nat] /\ DOMAIN f = BlockIds
  BY DEF Blocks
<1>2. CacheSize(bs) = SumFunctionOnSet(f, BlockIds)
  BY <1>1 DEF CacheSize, SumFunction
<1> HIDE DEF f
<1>3. SumFunctionOnSet(f, BlockIds) \in Nat
  BY <1>1, BlockIdsAreFinite, SumType
<1> QED BY <1>1, <1>2, <1>3 DEF f

\* Blocks that are no larger take no more room.
LEMMA CacheSizeMonotonic ==
  ASSUME NEW bs \in [BlockIds -> Blocks], NEW cs \in [BlockIds -> Blocks],
         \A k \in BlockIds : bs[k].size <= cs[k].size
  PROVE  CacheSize(bs) <= CacheSize(cs)
<1> DEFINE f == [k \in BlockIds |-> bs[k].size]
           g == [k \in BlockIds |-> cs[k].size]
<1>1. f \in [BlockIds -> Nat] /\ g \in [BlockIds -> Nat] /\ \A k \in BlockIds : f[k] <= g[k]
  BY CacheSizeIsSum
<1>2. CacheSize(bs) = SumFunctionOnSet(f, BlockIds) /\ CacheSize(cs) = SumFunctionOnSet(g, BlockIds)
  BY CacheSizeIsSum
<1> HIDE DEF f, g
<1> QED BY <1>1, <1>2, BlockIdsAreFinite, SumMonotonic

LEMMA CacheSizeSame ==
  ASSUME NEW bs \in [BlockIds -> Blocks], NEW cs \in [BlockIds -> Blocks],
         \A k \in BlockIds : bs[k].size = cs[k].size
  PROVE  CacheSize(bs) = CacheSize(cs)
<1>1. [k \in BlockIds |-> bs[k].size] = [k \in BlockIds |-> cs[k].size]
  OBVIOUS
<1> QED BY <1>1, CacheSizeIsSum

\* One block is replaced by another.
LEMMA CacheSizePut ==
  ASSUME NEW bs \in [BlockIds -> Blocks], NEW k \in BlockIds, NEW b \in Blocks
  PROVE  CacheSize([bs EXCEPT ![k] = b]) = CacheSize(bs) - bs[k].size + b.size
<1> DEFINE cs == [bs EXCEPT ![k] = b]
           f == [n \in BlockIds |-> bs[n].size]
           g == [n \in BlockIds |-> cs[n].size]
           rest == BlockIds \ {k}
<1>1. cs \in [BlockIds -> Blocks] /\ cs[k] = b /\ \A n \in rest : cs[n] = bs[n]
  OBVIOUS
<1>2. CacheSize(bs) = SumFunctionOnSet(f, BlockIds) /\ f \in [BlockIds -> Nat]
  BY CacheSizeIsSum
<1> HIDE DEF cs
<1>3. CacheSize(cs) = SumFunctionOnSet(g, BlockIds) /\ g \in [BlockIds -> Nat]
  BY <1>1, CacheSizeIsSum
<1>4. f[k] = bs[k].size /\ g[k] = b.size /\ \A n \in rest : f[n] = g[n]
  BY <1>1
<1> HIDE DEF f, g
<1>5. SumFunctionOnSet(f, BlockIds) = f[k] + SumFunctionOnSet(f, rest)
  BY <1>2, BlockIdsAreFinite, SumRemove
<1>6. SumFunctionOnSet(g, BlockIds) = g[k] + SumFunctionOnSet(g, rest)
  BY <1>3, BlockIdsAreFinite, SumRemove
<1>7. SumFunctionOnSet(f, rest) = SumFunctionOnSet(g, rest)
  BY <1>2, <1>3, <1>4, BlockIdsAreFinite, SumSame
<1>8. SumFunctionOnSet(f, rest) \in Nat /\ bs[k].size \in Nat /\ b.size \in Nat
  BY <1>2, BlockIdsAreFinite, SumType DEF Blocks
<1> HIDE DEF rest
<1>9. CacheSize(cs) = CacheSize(bs) - bs[k].size + b.size
  BY <1>2, <1>3, <1>4, <1>5, <1>6, <1>7, <1>8
<1> QED BY <1>9 DEF cs

-----------------------------------------------------------------------------
(* The invariant.                                                          *)

IsMessage(i) == Log[i].kind = "message"

\* A block has all messages of its time on each topic it holds, none of the others,
\* and the size of what it has.
Whole(k, b) ==
  /\ \A t \in Topics : b.messages[t] = IF b.as[t] = 0 THEN {} ELSE Messages(k, t)
  /\ b.size = SizeOf(UNION {b.messages[t] : t \in Topics})

BlocksAreWhole == \A k \in BlockIds : Whole(k, blocks[k])

Loading == at \in {"reading", "read", "ending"}

\* What the cursor has not put into a block's results.
Queue == ahead \cup (IF held = 0 THEN {} ELSE {held})

\* The messages from the current block to the end of the span.
Spanned(i) == fetch[Log[i].topic] # 0 /\ Log[i].time \in StartTime(current)..EndTime(end)

\* While a block is read its messages, and those of the rest of the span, are in the
\* results, held or ahead, in this order; once it is read they are in the results.
CursorCovers ==
  at \in {"reading", "read"} =>
    /\ \A i \in 1..Len(Log) : IsMessage(i) => (i \in results \cup Queue <=> Spanned(i))
    /\ \A i \in results, j \in Queue : i < j
    /\ held # 0 => \A j \in ahead : held < j
    /\ \A i \in results : IsMessage(i) => Log[i].time <= EndTime(current)
    /\ at = "reading" /\ held # 0 => results = {}
    /\ at = "read" => \A j \in Queue : IsMessage(j) => Log[j].time > EndTime(current)

\* The size that load counts is that of the blocks.
TotalAgrees == Loading => total = CacheSize(blocks)

\* Nothing but an abort tells a load that the topics are not the ones it is for.
LoadFollows == Loading /\ ~aborted => loading = topics

\* What is preloaded and not needed is there.
NeedKnown ==
  ~late => \A k \in BlockIds : blocks[k].made =>
    \A t \in Topics : topics[t] # 0 /\ blocks[k].need[t] = 0 => blocks[k].as[t] # 0

\* A cursor is for blocks that need what it fetches.
SpanNeeds ==
  at \in {"reading", "read"} /\ ~aborted =>
    \A m \in current..end : NeedTopics(blocks[m], loading) = fetch

\* The blocks before the current one need nothing.
BehindIsDone ==
  Loading /\ ~aborted =>
    \A n \in BlockIds : n < current => NeedTopics(blocks[n], loading) = Nothing

\* A loader that waits has found no block that needs anything.
RestIsDone ==
  at = "waiting" /\ ~full /\ ~late =>
    \A k \in BlockIds : NeedTopics(blocks[k], topics) = Nothing

\* What is in the blocks.
DataInv == TypeOK /\ BlocksAreWhole /\ CursorCovers /\ TotalAgrees /\ CacheBounded

\* What the blocks still need.
NeedInv == LoadFollows /\ NeedKnown /\ SpanNeeds /\ BehindIsDone /\ RestIsDone

IInv == DataInv /\ NeedInv

-----------------------------------------------------------------------------
(* Blocks.                                                                 *)

LEMMA BlockTypes ==
  ASSUME NEW b \in Blocks
  PROVE  /\ b.made \in BOOLEAN /\ b.need \in [Topics -> Nat] /\ b.as \in [Topics -> Nat]
         /\ b.messages \in [Topics -> Positions] /\ b.size \in Nat
  BY DEF Blocks

LEMMA MessagesOfTopics ==
  ASSUME NEW k, NEW t, NEW u
  PROVE  /\ Messages(k, t) \in Positions
         /\ t # u => Messages(k, t) \cap Messages(k, u) = {}
  BY DEF Messages, Positions

LEMMA TrimmedKeeps ==
  ASSUME NEW b \in Blocks
  PROVE  /\ Trimmed(b).made = b.made /\ Trimmed(b).need = b.need
         /\ \A t \in Topics : topics[t] # 0 /\ b.need[t] = 0 => Trimmed(b).as[t] = b.as[t]
  BY BlockTypes DEF Trimmed, Unused, Blocks

\* A block without the topics that are not used is whole, and no larger.
LEMMA TrimmedIsWhole ==
  ASSUME NEW k, NEW b \in Blocks, Whole(k, b)
  PROVE  Trimmed(b) \in Blocks /\ Whole(k, Trimmed(b)) /\ Trimmed(b).size <= b.size
<1>1. CASE UnusedSize(b) = 0
  BY <1>1, BlockTypes DEF Trimmed
<1>2. CASE UnusedSize(b) # 0
  <2> DEFINE c == Trimmed(b)
             all == UNION {b.messages[t] : t \in Topics}
             gone == UNION {b.messages[t] : t \in Unused(b)}
             as == [t \in Topics |-> IF t \in Unused(b) THEN 0 ELSE b.as[t]]
             messages == [t \in Topics |-> IF t \in Unused(b) THEN {} ELSE b.messages[t]]
  <2>1. /\ c.made = b.made /\ c.need = b.need /\ c.as = as /\ c.messages = messages
        /\ c.size = b.size - UnusedSize(b)
        /\ c = [made |-> b.made, need |-> b.need, as |-> as, messages |-> messages,
                size |-> b.size - UnusedSize(b)]
    BY <1>2, BlockTypes DEF Trimmed, Blocks
  <2>2. as \in [Topics -> Nat] /\ messages \in [Topics -> Positions]
    BY BlockTypes DEF Positions
  <2>3. all \in Positions /\ gone \in SUBSET all
    BY BlockTypes DEF Positions, Unused
  <2>4. UNION {messages[t] : t \in Topics} = all \ gone
    <3>1. ASSUME NEW t \in Topics, NEW i \in b.messages[t], NEW u \in Topics, i \in b.messages[u]
          PROVE  t = u
      BY <3>1, MessagesOfTopics DEF Whole
    <3>2. ASSUME NEW i \in UNION {messages[t] : t \in Topics} PROVE i \in all \ gone
      <4>1. PICK t \in Topics : i \in messages[t]
        BY <3>2
      <4>2. t \notin Unused(b) /\ i \in b.messages[t]
        BY <4>1
      <4>3. i \in all
        BY <4>1, <4>2
      <4>4. ASSUME NEW u \in Unused(b), i \in b.messages[u] PROVE FALSE
        <5>1. u \in Topics
          BY DEF Unused
        <5> QED BY <5>1, <4>1, <4>2, <4>4, <3>1
      <4> QED BY <4>3, <4>4
    <3>3. ASSUME NEW i \in all, i \notin gone PROVE i \in UNION {messages[t] : t \in Topics}
      <4>1. PICK t \in Topics : i \in b.messages[t]
        OBVIOUS
      <4>2. t \notin Unused(b)
        BY <4>1, <3>3
      <4>3. i \in messages[t]
        BY <4>1, <4>2
      <4> QED BY <4>3
    <3> HIDE DEF all, gone, messages
    <3> QED BY <3>2, <3>3
  <2>5. SizeOf(all) = SizeOf(gone) + SizeOf(all \ gone)
    BY <2>3, SizeSplit
  <2>6. SizeOf(gone) \in Nat /\ SizeOf(all \ gone) \in Nat
    BY <2>3, SizeType DEF Positions
  <2>7. b.size = SizeOf(all) /\ UnusedSize(b) = SizeOf(gone)
    BY DEF Whole, UnusedSize
  <2>8. c.size = SizeOf(all \ gone) /\ c.size \in Nat /\ c.size <= b.size
    <3> HIDE DEF all, gone, c
    <3> QED BY <2>1, <2>5, <2>6, <2>7
  <2>9. \A t \in Topics : c.messages[t] = IF c.as[t] = 0 THEN {} ELSE Messages(k, t)
    <3>1. \A t \in Topics : as[t] = (IF t \in Unused(b) THEN 0 ELSE b.as[t])
                        /\ messages[t] = (IF t \in Unused(b) THEN {} ELSE b.messages[t])
      OBVIOUS
    <3> HIDE DEF as, messages, c
    <3> QED BY <2>1, <3>1 DEF Whole
  <2>10. c \in Blocks
    <3> HIDE DEF as, messages
    <3> QED BY <2>1, <2>2, <2>8, BlockTypes DEF Blocks
  <2> HIDE DEF c, all, gone, as, messages
  <2>11. Whole(k, c)
    BY <2>1, <2>4, <2>8, <2>9 DEF Whole
  <2> QED BY <2>8, <2>10, <2>11 DEF c
<1> QED BY <1>1, <1>2

\* The messages that were read.
Read == {i \in results : IsMessage(i)}

\* The results are the block's messages on the topics that are fetched.
ResultsAreFor(k) ==
  \A i \in 1..Len(Log) : i \in Read <=>
    /\ IsMessage(i) /\ fetch[Log[i].topic] # 0
    /\ Log[i].time \in StartTime(k)..EndTime(k)

\* A block that is written is whole, and its size is what it was without what is
\* replaced and with what was read.
LEMMA WrittenIsWhole ==
  ASSUME NEW k, NEW b \in Blocks, Whole(k, b), TypeOK, ResultsAreFor(k)
  PROVE  /\ Written(b) \in Blocks /\ Whole(k, Written(b))
         /\ Written(b).made = TRUE /\ Written(b).need = Nothing
         /\ \A t \in Topics : Written(b).as[t] = IF fetch[t] # 0 THEN fetch[t] ELSE b.as[t]
         /\ Written(b).size
              = b.size - SizeOf(UNION {b.messages[t] : t \in Chosen(fetch)}) + SizeOf(Read)
         /\ SizeOf(Read) \in Nat
         /\ SizeOf(UNION {b.messages[t] : t \in Chosen(fetch)}) \in Nat
<1> DEFINE read(t) == {i \in results : Log[i].kind = "message" /\ Log[i].topic = t}
           all == UNION {b.messages[t] : t \in Topics}
           old == UNION {b.messages[t] : t \in Chosen(fetch)}
           new == UNION {read(t) : t \in Chosen(fetch)}
           as == [t \in Topics |-> IF fetch[t] # 0 THEN fetch[t] ELSE b.as[t]]
           messages == [t \in Topics |-> IF fetch[t] # 0 THEN read(t) ELSE b.messages[t]]
           c == Written(b)
<1>0. fetch \in [Topics -> Nat] /\ results \in SUBSET (1..Len(Log))
  BY DEF TypeOK, Positions
<1>1. c = [made |-> TRUE, need |-> Nothing, as |-> as, messages |-> messages,
           size |-> b.size - SizeOf(old) + SizeOf(new)]
  BY DEF Written
<1>2. /\ c.made = TRUE /\ c.need = Nothing /\ c.as = as /\ c.messages = messages
      /\ c.size = b.size - SizeOf(old) + SizeOf(new)
  <2> HIDE DEF c, as, messages, old, new
  <2> QED BY <1>1
<1>3. \A t \in Topics : fetch[t] # 0 => read(t) = Messages(k, t)
  BY <1>0 DEF ResultsAreFor, Read, Messages, IsMessage
<1>4. new = Read
  <2>1. \A i \in Read : i \in 1..Len(Log) /\ Log[i].topic \in Topics
    BY <1>0, LogTypes DEF Read
  <2>2. \A i \in Read : Log[i].topic \in Chosen(fetch) /\ i \in read(Log[i].topic)
    BY <2>1 DEF Read, ResultsAreFor, Chosen, IsMessage
  <2>3. \A i \in Read : i \in new
    BY <2>2
  <2>4. \A t : read(t) \subseteq Read
    BY DEF Read, IsMessage
  <2>5. \A i \in new : i \in Read
    BY <2>4
  <2> HIDE DEF new
  <2> QED BY <2>3, <2>5
<1>5. as \in [Topics -> Nat] /\ messages \in [Topics -> Positions]
  <2>1. \A t : read(t) \in Positions
    BY <1>0 DEF Positions
  <2> HIDE DEF read
  <2> QED BY <1>0, <2>1, BlockTypes
<1>6. /\ all \in Positions /\ old \in SUBSET all /\ Read \in Positions
  <2>1. \A t \in Topics : b.messages[t] \in Positions
    BY BlockTypes
  <2>2. all \in Positions
    BY <2>1 DEF Positions
  <2>3. old \in SUBSET all
    BY DEF Chosen
  <2>4. Read \in Positions
    BY <1>0 DEF Positions, Read
  <2> QED BY <2>2, <2>3, <2>4
<1>7. \A t \in Topics : messages[t] = IF as[t] = 0 THEN {} ELSE Messages(k, t)
  <2>1. \A t \in Topics : as[t] = (IF fetch[t] # 0 THEN fetch[t] ELSE b.as[t])
                      /\ messages[t] = (IF fetch[t] # 0 THEN read(t) ELSE b.messages[t])
    OBVIOUS
  <2> HIDE DEF as, messages, read
  <2> QED BY <1>0, <1>3, <2>1 DEF Whole
<1>8. UNION {messages[t] : t \in Topics} = (all \ old) \cup Read
  <2>1. ASSUME NEW t \in Topics, NEW i \in b.messages[t], NEW u \in Topics, i \in b.messages[u]
        PROVE  t = u
    BY <2>1, MessagesOfTopics DEF Whole
  <2>2. ASSUME NEW t \in Topics, NEW i \in messages[t] PROVE i \in (all \ old) \cup Read
    <3>1. CASE fetch[t] # 0
      <4>1. i \in read(t)
        BY <3>1
      <4> QED BY <4>1 DEF Read, IsMessage
    <3>2. CASE fetch[t] = 0
      <4>1. i \in b.messages[t]
        BY <3>2
      <4>2. i \in all
        BY <4>1
      <4>3. ASSUME i \in old PROVE FALSE
        <5>1. PICK u \in Chosen(fetch) : i \in b.messages[u]
          BY <4>3
        <5>2. u \in Topics /\ fetch[u] # 0
          BY DEF Chosen
        <5> QED BY <5>1, <5>2, <4>1, <3>2, <2>1
      <4> QED BY <4>2, <4>3
    <3> QED BY <3>1, <3>2
  <2>3. ASSUME NEW i \in Read PROVE \E t \in Topics : i \in messages[t]
    <3>1. i \in new
      BY <1>4
    <3>2. PICK t \in Chosen(fetch) : i \in read(t)
      BY <3>1
    <3>3. t \in Topics /\ fetch[t] # 0
      BY DEF Chosen
    <3>4. i \in messages[t]
      BY <3>2, <3>3
    <3> QED BY <3>3, <3>4
  <2>4. ASSUME NEW i \in all, i \notin old PROVE \E t \in Topics : i \in messages[t]
    <3>1. PICK t \in Topics : i \in b.messages[t]
      OBVIOUS
    <3>2. fetch[t] = 0
      BY <3>1, <2>4 DEF Chosen
    <3>3. i \in messages[t]
      BY <3>1, <3>2
    <3> QED BY <3>3
  <2> HIDE DEF messages, all, old, Read
  <2> QED BY <2>2, <2>3, <2>4
<1>9. Read \cap (all \ old) = {}
  <2> SUFFICES ASSUME NEW i \in Read, i \in all, i \notin old PROVE FALSE
    OBVIOUS
  <2>1. i \in 1..Len(Log) /\ Log[i].topic \in Topics
    BY <1>0, LogTypes DEF Read
  <2>2. fetch[Log[i].topic] # 0
    BY <2>1 DEF ResultsAreFor
  <2>3. PICK t \in Topics : i \in b.messages[t]
    OBVIOUS
  <2>4. Log[i].topic = t
    BY <2>3 DEF Whole, Messages
  <2>5. t \in Chosen(fetch)
    BY <2>2, <2>4 DEF Chosen
  <2> QED BY <2>3, <2>5
<1>10. SizeOf(all) = SizeOf(old) + SizeOf(all \ old)
  BY <1>6, SizeSplit
<1>11. SizeOf((all \ old) \cup Read) = SizeOf(Read) + SizeOf(all \ old)
  <2> DEFINE S == (all \ old) \cup Read
  <2>1. S \in Positions /\ Read \in SUBSET S /\ S \ Read = all \ old
    BY <1>6, <1>9 DEF Positions
  <2> HIDE DEF S
  <2>2. SizeOf(S) = SizeOf(Read) + SizeOf(S \ Read)
    BY <2>1, SizeSplit
  <2> QED BY <2>1, <2>2 DEF S
<1>12. SizeOf(old) \in Nat /\ SizeOf(all \ old) \in Nat /\ SizeOf(Read) \in Nat
  BY <1>6, SizeType DEF Positions
<1>13. b.size = SizeOf(all)
  BY DEF Whole
<1> HIDE DEF c, all, old, new, as, messages, read
<1>14. c.size = SizeOf((all \ old) \cup Read) /\ c.size \in Nat
  BY <1>2, <1>4, <1>10, <1>11, <1>12, <1>13
<1>15. Nothing \in [Topics -> Nat]
  BY DEF Nothing
<1>16. c \in Blocks
  BY <1>1, <1>2, <1>5, <1>14, <1>15 DEF Blocks
<1>17. Whole(k, c)
  BY <1>2, <1>7, <1>8, <1>14 DEF Whole
<1>18. \A t \in Topics : c.as[t] = IF fetch[t] # 0 THEN fetch[t] ELSE b.as[t]
  BY <1>2 DEF as
<1> QED BY <1>2, <1>4, <1>12, <1>16, <1>17, <1>18 DEF c, old

-----------------------------------------------------------------------------
(* Where a cursor begins and ends.                                         *)

LEMMA MinIsLeast ==
  ASSUME NEW S, S \subseteq Nat, S # {}
  PROVE  Min(S) \in S /\ \A n \in S : Min(S) <= n
<1>1. \E n \in S : \A m \in S : n <= m
  BY Smallest
<1> QED BY <1>1 DEF Min

LEMMA SpanEndIs ==
  ASSUME NEW k \in BlockIds, NEW s
  PROVE  /\ SpanEnd(k, s) \in BlockIds /\ SpanEnd(k, s) >= k
         /\ \A m \in k..SpanEnd(k, s) : NeedTopics(blocks[m], s) = NeedTopics(blocks[k], s)
<1> DEFINE need(m) == NeedTopics(blocks[m], s)
           others == {m \in BlockIds : m > k /\ need(m) # need(k)}
           Is(n) == /\ n >= k /\ \A m \in k..n : need(m) = need(k)
                    /\ n + 1 \in BlockIds => need(n + 1) # need(k)
<1>0. k \in Nat /\ k <= NoBlock - 1 /\ BlockIds = 0..(NoBlock - 1) /\ NoBlock \in Nat \ {0}
  BY Durations
<1>1. \E n \in BlockIds : Is(n)
  <2>1. CASE others = {}
    <3>1. NoBlock - 1 \in BlockIds /\ NoBlock \notin BlockIds
      BY <1>0
    <3>2. ASSUME NEW m \in k..(NoBlock - 1) PROVE need(m) = need(k)
      <4>1. m \in BlockIds /\ (m > k \/ m = k)
        BY <1>0
      <4> HIDE DEF need
      <4> QED BY <4>1, <2>1
    <3> HIDE DEF need
    <3> QED BY <3>1, <3>2, <1>0
  <2>2. CASE others # {}
    <3> HIDE DEF need
    <3>1. others \subseteq Nat
      BY <1>0
    <3>2. PICK n \in others : \A m \in others : n <= m
      BY <2>2, <3>1, Smallest
    <3>3. n \in BlockIds /\ n > k /\ need(n) # need(k) /\ n \in Nat
      BY <3>2, <1>0
    <3>4. n - 1 \in BlockIds /\ n - 1 >= k /\ (n - 1) + 1 = n
      BY <3>3, <1>0
    <3>5. ASSUME NEW m \in k..(n - 1) PROVE need(m) = need(k)
      <4>1. m \in BlockIds /\ (m > k \/ m = k) /\ ~ (n <= m)
        BY <3>3, <1>0
      <4> QED BY <4>1, <3>2
    <3> QED BY <3>3, <3>4, <3>5
  <2> QED BY <2>1, <2>2
<1>2. SpanEnd(k, s) = CHOOSE n \in BlockIds : Is(n)
  BY DEF SpanEnd
<1> HIDE DEF Is
<1>3. SpanEnd(k, s) \in BlockIds /\ Is(SpanEnd(k, s))
  BY <1>1, <1>2
<1> QED BY <1>3 DEF Is

\* The cursor a load opens.
LEMMA CursorOpens ==
  ASSUME TypeOK, NEW k \in 0..NoBlock, NEW s \in Selections, Needy(k, s) # {},
         OpenCursor(k, s)
  PROVE  /\ at' = "reading" /\ held' = 0 /\ results' = {}
         /\ current' \in BlockIds /\ end' \in BlockIds /\ k <= current' /\ current' <= end'
         /\ fetch' \in [Topics -> Nat]
         /\ ahead' = {i \in 1..Len(Log) :
                    /\ Log[i].kind = "message" => fetch'[Log[i].topic] # 0
                    /\ Log[i].time \in StartTime(current')..EndTime(end')}
         /\ \A m \in current'..end' : NeedTopics(blocks[m], s) = fetch'
         /\ \A n \in BlockIds : k <= n /\ n < current' => NeedTopics(blocks[n], s) = Nothing
<1> DEFINE first == Min(Needy(k, s))
<1>0. /\ k \in Nat /\ BlockIds \subseteq Nat /\ Needy(k, s) \subseteq BlockIds
      /\ \A n \in Needy(k, s) : n >= k
  BY Durations DEF Needy
<1>1. first \in Needy(k, s) /\ \A n \in Needy(k, s) : first <= n
  BY <1>0, MinIsLeast
<1>2. /\ at' = "reading" /\ held' = 0 /\ results' = {} /\ current' = first
      /\ end' = SpanEnd(first, s) /\ fetch' = NeedTopics(blocks[first], s)
      /\ ahead' = {i \in 1..Len(Log) :
                    /\ Log[i].kind = "message" => fetch'[Log[i].topic] # 0
                    /\ Log[i].time \in StartTime(current')..EndTime(end')}
  BY DEF OpenCursor
<1> HIDE DEF first
<1>3. /\ end' \in BlockIds /\ current' <= end'
      /\ \A m \in current'..end' : NeedTopics(blocks[m], s) = fetch'
  <2>1. first \in BlockIds
    BY <1>0, <1>1
  <2>2. /\ SpanEnd(first, s) \in BlockIds /\ SpanEnd(first, s) >= first
        /\ \A m \in first..SpanEnd(first, s) :
             NeedTopics(blocks[m], s) = NeedTopics(blocks[first], s)
    BY <2>1, SpanEndIs
  <2>3. SpanEnd(first, s) \in Nat /\ first \in Nat
    BY <2>1, <2>2, <1>0
  <2> QED BY <2>2, <2>3, <1>2
<1>4. NeedTopics(blocks[first], s) \in [Topics -> Nat]
  BY <1>0, <1>1, BlockTypes, BoundsAssumption DEF NeedTopics, TypeOK
<1>5. ASSUME NEW n \in BlockIds, k <= n, n < first PROVE NeedTopics(blocks[n], s) = Nothing
  <2>0. n \in Nat /\ first \in Nat
    BY <1>0, <1>1
  <2>1. ~ (first <= n)
    BY <2>0, <1>5
  <2>2. n \notin Needy(k, s)
    BY <2>1, <1>1
  <2> QED BY <2>0, <2>2, <1>0, <1>5 DEF Needy
<1> QED BY <1>0, <1>1, <1>2, <1>3, <1>4, <1>5

\* It covers its first block, and all of its span.
LEMMA NewCursorCovers ==
  ASSUME at' = "reading", held' = 0, results' = {}, end' \in BlockIds,
         ahead' = {i \in 1..Len(Log) :
                    /\ Log[i].kind = "message" => fetch'[Log[i].topic] # 0
                    /\ Log[i].time \in StartTime(current')..EndTime(end')}
  PROVE  CursorCovers'
<1>1. Queue' = ahead'
  BY DEF Queue
<1>2. ASSUME NEW i \in 1..Len(Log), IsMessage(i) PROVE i \in Queue' <=> Spanned(i)'
  BY <1>1, <1>2 DEF IsMessage, Spanned
<1> QED BY <1>1, <1>2 DEF CursorCovers

-----------------------------------------------------------------------------
(* Initial states, and steps that leave the blocks alone.                  *)

LEMMA UndefinedIsWhole ==
  ASSUME NEW k
  PROVE  Undefined \in Blocks /\ Whole(k, Undefined) /\ Undefined.size = 0
<1>1. {} \in Positions /\ Nothing \in [Topics -> Nat]
  BY DEF Positions, Nothing
<1>2. Undefined \in Blocks
  BY <1>1 DEF Undefined, Blocks
<1>3. UNION {Undefined.messages[t] : t \in Topics} = {}
  BY DEF Undefined
<1>4. Undefined.size = 0 /\ \A t \in Topics : Undefined.as[t] = 0 /\ Undefined.messages[t] = {}
  BY DEF Undefined, Nothing
<1> QED BY <1>2, <1>3, <1>4, SizeEmpty DEF Whole

LEMMA InitIsEmpty == Init => IInv
<1> SUFFICES ASSUME Init PROVE IInv
  OBVIOUS
<1>1. \A k \in BlockIds : blocks[k] = Undefined
  BY DEF Init
<1>2. blocks \in [BlockIds -> Blocks]
  BY UndefinedIsWhole DEF Init
<1>3. TypeOK
  <2>1. Nothing \in Selections /\ Nothing \in [Topics -> Nat] /\ MaxChanges \in Nat
    BY BoundsAssumption
  <2>2. /\ 0 \in 0..NoBlock /\ NoBlock \in 0..NoBlock /\ 0 \in 0..Len(Log)
        /\ 0 \in 0..MaxChanges /\ {} \in Positions
    BY <2>1, LogTypes, Durations DEF Positions
  <2>3. /\ topics = Nothing /\ loading = Nothing /\ fetch = Nothing /\ changes = 0
        /\ stopped = FALSE /\ at = "idle" /\ aborted = FALSE /\ end = 0 /\ current = NoBlock
        /\ ahead = {} /\ held = 0 /\ results = {} /\ total = 0 /\ full = FALSE /\ late = FALSE
    BY DEF Init
  <2> QED BY <1>2, <2>1, <2>2, <2>3 DEF TypeOK
<1>4. BlocksAreWhole
  BY <1>1, UndefinedIsWhole DEF BlocksAreWhole
<1>5. CacheBounded
  <2> DEFINE f == [k \in BlockIds |-> blocks[k].size]
             g == [k \in BlockIds |-> 0]
  <2>1. f = g
    BY <1>1, UndefinedIsWhole
  <2>2. CacheSize(blocks) = SumFunctionOnSet(f, BlockIds)
    BY <1>2, CacheSizeIsSum
  <2>3. g \in [BlockIds -> Nat] /\ \A k \in BlockIds : g[k] = 0
    OBVIOUS
  <2> HIDE DEF f, g
  <2>4. SumFunctionOnSet(g, BlockIds) = 0
    BY <2>3, BlockIdsAreFinite, SumZero
  <2> QED BY <2>1, <2>2, <2>4, BoundsAssumption DEF CacheBounded
<1>6. CursorCovers /\ TotalAgrees /\ LoadFollows /\ SpanNeeds /\ BehindIsDone /\ RestIsDone
  BY DEF Init, CursorCovers, TotalAgrees, LoadFollows, SpanNeeds, BehindIsDone, RestIsDone,
         Loading
<1>7. NeedKnown
  BY <1>1 DEF NeedKnown, Undefined
<1> QED BY <1>3, <1>4, <1>5, <1>6, <1>7 DEF IInv, DataInv, NeedInv

\* Of a step that leaves the blocks, the loader not at work or waiting.
LEMMA LoaderStops ==
  ASSUME IInv, TypeOK', UNCHANGED <<blocks, topics, late>>,
         at' \notin {"reading", "read", "ending", "waiting"}
  PROVE  IInv'
<1>1. BlocksAreWhole' /\ CacheBounded' /\ NeedKnown'
  BY DEF IInv, DataInv, NeedInv, BlocksAreWhole, CacheBounded, NeedKnown
<1>2. CursorCovers' /\ TotalAgrees' /\ LoadFollows' /\ SpanNeeds' /\ BehindIsDone' /\ RestIsDone'
  BY DEF CursorCovers, TotalAgrees, LoadFollows, SpanNeeds, BehindIsDone, RestIsDone, Loading
<1> QED BY <1>1, <1>2 DEF IInv, DataInv, NeedInv

\* Of a step after which the loader waits, and nothing is needed.
LEMMA LoaderWaits ==
  ASSUME IInv, TypeOK', UNCHANGED <<blocks, topics, late>>, at' = "waiting", RestIsDone'
  PROVE  IInv'
<1>1. BlocksAreWhole' /\ CacheBounded' /\ NeedKnown'
  BY DEF IInv, DataInv, NeedInv, BlocksAreWhole, CacheBounded, NeedKnown
<1>2. CursorCovers' /\ TotalAgrees' /\ LoadFollows' /\ SpanNeeds' /\ BehindIsDone'
  BY DEF CursorCovers, TotalAgrees, LoadFollows, SpanNeeds, BehindIsDone, Loading
<1> QED BY <1>1, <1>2 DEF IInv, DataInv, NeedInv

\* Of a step that opens a cursor.
LEMMA LoaderOpens ==
  ASSUME IInv, TypeOK', UNCHANGED <<blocks, topics, late>>,
         NEW k \in 0..NoBlock, loading' \in Selections, Needy(k, loading') # {},
         OpenCursor(k, loading'),
         total' = CacheSize(blocks), aborted' \/ loading' = topics,
         aborted' \/ \A n \in BlockIds : n < k => NeedTopics(blocks[n], loading') = Nothing
  PROVE  IInv'
<1>0. TypeOK
  BY DEF IInv, DataInv
<1>1. BlocksAreWhole' /\ CacheBounded' /\ NeedKnown'
  BY DEF IInv, DataInv, NeedInv, BlocksAreWhole, CacheBounded, NeedKnown
<1> DEFINE s == loading'
<1>2. /\ at' = "reading" /\ held' = 0 /\ results' = {}
      /\ current' \in BlockIds /\ end' \in BlockIds /\ k <= current'
      /\ ahead' = {i \in 1..Len(Log) :
                    /\ Log[i].kind = "message" => fetch'[Log[i].topic] # 0
                    /\ Log[i].time \in StartTime(current')..EndTime(end')}
      /\ \A m \in current'..end' : NeedTopics(blocks[m], s) = fetch'
      /\ \A n \in BlockIds : k <= n /\ n < current' => NeedTopics(blocks[n], s) = Nothing
  BY <1>0, CursorOpens
<1>3. CursorCovers'
  BY <1>2, NewCursorCovers
<1>4. TotalAgrees' /\ LoadFollows' /\ RestIsDone'
  BY <1>2 DEF TotalAgrees, LoadFollows, RestIsDone, Loading
<1>5. SpanNeeds'
  BY <1>2 DEF SpanNeeds
<1>6. BehindIsDone'
  <2>1. ASSUME ~aborted', NEW n \in BlockIds, n < current'
        PROVE  NeedTopics(blocks[n], s) = Nothing
    <3>1. n \in Nat /\ k \in Nat /\ (n < k \/ k <= n)
      BY Durations
    <3> QED BY <3>1, <2>1, <1>2
  <2> QED BY <2>1 DEF BehindIsDone
<1> QED BY <1>1, <1>3, <1>4, <1>5, <1>6 DEF IInv, DataInv, NeedInv

-----------------------------------------------------------------------------
(* Steps that leave the blocks alone.                                      *)

LEMMA StartLoadingKeeps == ASSUME IInv, StartLoading PROVE IInv'
<1>1. TypeOK'
  BY DEF IInv, DataInv, StartLoading, TypeOK, cursor
<1> QED BY <1>1, LoaderStops DEF StartLoading

LEMMA SourceRejectsKeeps == ASSUME IInv, SourceRejects PROVE IInv'
<1>1. TypeOK'
  <2>1. Nothing \in [Topics -> Nat] /\ NoBlock \in Nat /\ Len(Log) \in Nat /\ {} \in Positions
    BY Durations, LogTypes DEF Nothing, Positions
  <2> QED BY <2>1 DEF IInv, DataInv, SourceRejects, TypeOK, NoCursor
<1> QED BY <1>1, LoaderStops DEF SourceRejects

\* The cursor is gone and the load was aborted: nothing is said of it.
LEMMA ReadAbortedKeeps == ASSUME IInv, ReadAborted PROVE IInv'
<1>1. TypeOK'
  <2>1. Nothing \in [Topics -> Nat] /\ NoBlock \in Nat /\ Len(Log) \in Nat /\ {} \in Positions
    BY Durations, LogTypes DEF Nothing, Positions
  <2> QED BY <2>1 DEF IInv, DataInv, ReadAborted, TypeOK, NoCursor
<1>2. BlocksAreWhole' /\ CacheBounded' /\ NeedKnown'
  BY DEF IInv, DataInv, NeedInv, BlocksAreWhole, CacheBounded, NeedKnown, ReadAborted
<1>3. CursorCovers' /\ LoadFollows' /\ SpanNeeds' /\ BehindIsDone' /\ RestIsDone'
  BY DEF CursorCovers, LoadFollows, SpanNeeds, BehindIsDone, RestIsDone, ReadAborted
<1>4. TotalAgrees'
  BY DEF IInv, DataInv, TotalAgrees, Loading, ReadAborted
<1> QED BY <1>1, <1>2, <1>3, <1>4 DEF IInv, DataInv, NeedInv

LEMMA StopLoadingKeeps == ASSUME IInv, StopLoading PROVE IInv'
<1>1. TypeOK'
  BY DEF IInv, DataInv, StopLoading, TypeOK, cursor
<1>2. BlocksAreWhole' /\ CacheBounded' /\ NeedKnown'
  BY DEF IInv, DataInv, NeedInv, BlocksAreWhole, CacheBounded, NeedKnown, StopLoading
<1>3. LoadFollows' /\ SpanNeeds' /\ BehindIsDone' /\ RestIsDone'
  BY DEF LoadFollows, SpanNeeds, BehindIsDone, RestIsDone, StopLoading
<1>4. TotalAgrees'
  BY DEF IInv, DataInv, TotalAgrees, Loading, StopLoading
<1>5. CursorCovers'
  <2>1. CursorCovers
    BY DEF IInv, DataInv
  <2>2. at' \in {"reading", "read"} => at' = at
    BY DEF StopLoading
  <2>3. UNCHANGED <<fetch, end, ahead, held, results, current>>
    BY DEF StopLoading, cursor
  <2> QED BY <2>1, <2>2, <2>3 DEF CursorCovers, Queue, Spanned
<1> QED BY <1>1, <1>2, <1>3, <1>4, <1>5 DEF IInv, DataInv, NeedInv

LEMMA WholeSame ==
  ASSUME NEW k, NEW b, NEW c, Whole(k, b),
         c.as = b.as, c.messages = b.messages, c.size = b.size
  PROVE  Whole(k, c)
  BY Zenon DEF Whole

LEMMA SetTopicsKeeps ==
  ASSUME IInv, NEW s \in Selections, SetTopics(s)
  PROVE  IInv'
<1>0. TypeOK /\ s \in [Topics -> Nat] /\ topics \in [Topics -> Nat]
  BY BoundsAssumption DEF IInv, DataInv, TypeOK
<1>1. ASSUME NEW k \in BlockIds
      PROVE  /\ blocks'[k] \in Blocks /\ blocks'[k].made = blocks[k].made
             /\ blocks'[k].as = blocks[k].as /\ blocks'[k].messages = blocks[k].messages
             /\ blocks'[k].size = blocks[k].size
             /\ blocks[k].made => blocks'[k].need = StillNeeded(blocks[k], topics, s)
  <2>1. blocks'[k] = IF blocks[k].made
                     THEN [blocks[k] EXCEPT !.need = StillNeeded(blocks[k], topics, s)]
                     ELSE blocks[k]
    BY DEF SetTopics
  <2>2. blocks[k] \in Blocks
    BY <1>0 DEF TypeOK
  <2>3. StillNeeded(blocks[k], topics, s) \in [Topics -> Nat]
    BY <1>0 DEF StillNeeded
  <2> HIDE DEF StillNeeded
  <2> QED BY <2>1, <2>2, <2>3 DEF Blocks
<1>2. blocks' \in [BlockIds -> Blocks]
  <2>1. blocks' = [k \in BlockIds |-> blocks'[k]]
    BY DEF SetTopics
  <2> QED BY <1>1, <2>1
<1>3. TypeOK'
  <2>1. changes' \in 0..MaxChanges
    <3>1. changes < MaxChanges /\ changes' = changes + 1
      BY DEF SetTopics
    <3>2. changes \in 0..MaxChanges /\ MaxChanges \in Nat
      BY <1>0, BoundsAssumption DEF TypeOK
    <3> QED BY <3>1, <3>2
  <2>2. topics' \in Selections
    BY DEF SetTopics
  <2>3. at' \in {"idle", "load", "reading", "read", "ending", "waiting", "ended", "failed"}
        /\ (at' \in {"reading", "read"} => at' = at) /\ aborted' \in BOOLEAN
    BY <1>0 DEF SetTopics, TypeOK
  <2>4. UNCHANGED <<stopped, loading, current, fetch, end, ahead, held, results, total, full, late>>
    BY DEF SetTopics, cursor
  <2> QED BY <1>0, <1>2, <2>1, <2>2, <2>3, <2>4 DEF TypeOK
<1>4. BlocksAreWhole'
  <2>1. ASSUME NEW k \in BlockIds PROVE Whole(k, blocks'[k])
    <3>1. Whole(k, blocks[k])
      BY DEF IInv, DataInv, BlocksAreWhole
    <3> QED BY <1>1, <3>1, WholeSame
  <2> QED BY <2>1 DEF BlocksAreWhole
<1>5. CacheSize(blocks') = CacheSize(blocks)
  BY <1>0, <1>1, <1>2, CacheSizeSame DEF TypeOK
<1>6. CacheBounded'
  BY <1>5 DEF IInv, DataInv, CacheBounded
<1>7. TotalAgrees'
  BY <1>5 DEF IInv, DataInv, TotalAgrees, Loading, SetTopics
<1>8. CursorCovers'
  <2>1. CursorCovers
    BY DEF IInv, DataInv
  <2>2. at' \in {"reading", "read"} => at' = at
    BY DEF SetTopics
  <2>3. UNCHANGED <<fetch, end, ahead, held, results, current>>
    BY DEF SetTopics, cursor
  <2> QED BY <2>1, <2>2, <2>3 DEF CursorCovers, Queue, Spanned
<1>9. LoadFollows' /\ SpanNeeds' /\ BehindIsDone' /\ RestIsDone'
  BY DEF LoadFollows, SpanNeeds, BehindIsDone, RestIsDone, SetTopics
<1>10. NeedKnown'
  <2>1. ASSUME NEW k \in BlockIds, blocks'[k].made, NEW t \in Topics,
               topics'[t] # 0, blocks'[k].need[t] = 0
        PROVE  blocks'[k].as[t] # 0
    <3>1. topics' = s
      BY DEF SetTopics
    <3>2. StillNeeded(blocks[k], topics, s)[t] = 0
      BY <1>1, <2>1
    <3> QED BY <3>1, <3>2, <2>1, <1>1 DEF StillNeeded
  <2> QED BY <2>1 DEF NeedKnown
<1> QED BY <1>3, <1>4, <1>6, <1>7, <1>8, <1>9, <1>10 DEF IInv, DataInv, NeedInv

LEMMA LoadEndsTypes ==
  ASSUME TypeOK, NEW replaced, LoadEnds(replaced), blocks' \in [BlockIds -> Blocks],
         total' \in Nat, full' \in BOOLEAN, late' \in BOOLEAN, aborted' \in BOOLEAN,
         loading' \in Selections, UNCHANGED <<topics, changes, stopped>>
  PROVE  TypeOK' /\ at' \in {"ended", "load", "waiting"}
<1>1. Nothing \in [Topics -> Nat] /\ {} \in Positions
  BY DEF Nothing, Positions
<1>2. NoBlock \in 0..NoBlock /\ 0 \in 0..NoBlock /\ 0 \in 0..Len(Log)
  BY Durations, LogTypes
<1>3. /\ at' \in {"ended", "load", "waiting"} /\ current' = NoBlock
      /\ fetch' = Nothing /\ end' = 0 /\ ahead' = {} /\ held' = 0 /\ results' = {}
  BY DEF LoadEnds, NoCursor
<1> QED BY <1>1, <1>2, <1>3 DEF TypeOK

LEMMA OpenCursorTypes ==
  ASSUME TypeOK, NEW k \in 0..NoBlock, loading' \in Selections, Needy(k, loading') # {},
         OpenCursor(k, loading'),
         total' \in Nat, full' \in BOOLEAN, aborted' \in BOOLEAN,
         UNCHANGED <<topics, blocks, changes, stopped, late>>
  PROVE  TypeOK'
<1>1. /\ at' = "reading" /\ held' = 0 /\ results' = {}
      /\ current' \in BlockIds /\ end' \in BlockIds /\ current' <= end'
      /\ fetch' \in [Topics -> Nat] /\ ahead' \in Positions
  BY CursorOpens DEF Positions
<1>2. /\ {} \in Positions /\ 0 \in 0..Len(Log) /\ current' \in 0..NoBlock
      /\ end' \in 0..NoBlock /\ current' \in 0..end'
  BY <1>1, Durations, LogTypes DEF Positions
<1> QED BY <1>1, <1>2 DEF TypeOK

LEMMA LoadKeeps == ASSUME IInv, Load PROVE IInv'
<1>0. TypeOK /\ blocks \in [BlockIds -> Blocks] /\ CacheSize(blocks) \in Nat /\ topics \in Selections
      /\ stopped \in BOOLEAN /\ late \in BOOLEAN
  BY CacheSizeIsSum DEF IInv, DataInv, TypeOK
<1>1. /\ aborted' = stopped /\ full' = FALSE /\ loading' = topics /\ total' = CacheSize(blocks)
      /\ UNCHANGED <<topics, blocks, changes, stopped, late>>
  BY DEF Load
<1>2. CASE stopped \/ Needy(0, topics) = {}
  <2>1. LoadEnds(FALSE)
    BY <1>2 DEF Load
  <2>2. TypeOK' /\ at' \in {"ended", "load", "waiting"}
    BY <1>0, <1>1, <2>1, LoadEndsTypes
  <2>3. CASE at' = "waiting"
    <3>1. ~stopped
      BY <2>1, <2>3 DEF LoadEnds
    <3>2. \A k \in BlockIds : NeedTopics(blocks[k], topics) = Nothing
      <4>1. \A k \in BlockIds : k >= 0
        BY Durations
      <4> QED BY <3>1, <1>2, <4>1 DEF Needy
    <3>3. RestIsDone'
      BY <3>2, <1>1 DEF RestIsDone
    <3> QED BY <2>2, <2>3, <3>3, <1>1, LoaderWaits
  <2>4. CASE at' # "waiting"
    <3>1. at' \notin {"reading", "read", "ending", "waiting"}
      BY <2>2, <2>4
    <3> QED BY <2>2, <3>1, <1>1, LoaderStops
  <2> QED BY <2>3, <2>4
<1>3. CASE ~ (stopped \/ Needy(0, topics) = {})
  <2>1. OpenCursor(0, loading') /\ Needy(0, loading') # {} /\ loading' \in Selections
    BY <1>0, <1>1, <1>3 DEF Load
  <2>2. 0 \in 0..NoBlock /\ \A n \in BlockIds : ~ (n < 0)
    BY Durations
  <2>3. total' \in Nat /\ full' \in BOOLEAN /\ aborted' \in BOOLEAN
    BY <1>0, <1>1
  <2>4. TypeOK'
    BY <1>0, <1>1, <2>1, <2>2, <2>3, OpenCursorTypes
  <2>5. aborted' \/ \A n \in BlockIds : n < 0 => NeedTopics(blocks[n], loading') = Nothing
    BY <2>2
  <2> QED BY <1>1, <2>1, <2>2, <2>4, <2>5, LoaderOpens
<1> QED BY <1>2, <1>3

LEMMA CursorEndedKeeps == ASSUME IInv, CursorEnded PROVE IInv'
<1>0. /\ TypeOK /\ blocks \in [BlockIds -> Blocks] /\ loading \in Selections
      /\ current \in 0..NoBlock /\ current \in Nat
      /\ stopped \in BOOLEAN /\ late \in BOOLEAN /\ aborted \in BOOLEAN /\ full \in BOOLEAN
      /\ total \in Nat
  BY Durations DEF IInv, DataInv, TypeOK
<1>1. /\ at = "ending"
      /\ UNCHANGED <<topics, blocks, changes, stopped, aborted, loading, total, full, late>>
  BY DEF CursorEnded
<1>2. /\ total = CacheSize(blocks)
      /\ ~aborted => loading = topics
      /\ ~aborted => \A n \in BlockIds : n < current => NeedTopics(blocks[n], loading) = Nothing
  BY <1>1 DEF IInv, DataInv, NeedInv, TotalAgrees, LoadFollows, BehindIsDone, Loading
<1>3. CASE aborted \/ Needy(current, loading) = {}
  <2>1. LoadEnds(aborted)
    BY <1>3 DEF CursorEnded
  <2>2. TypeOK' /\ at' \in {"ended", "load", "waiting"}
    BY <1>0, <1>1, <2>1, LoadEndsTypes
  <2>3. CASE at' = "waiting"
    <3>1. ~aborted
      BY <2>1, <2>3 DEF LoadEnds
    <3>2. ASSUME NEW n \in BlockIds PROVE NeedTopics(blocks[n], topics) = Nothing
      <4>1. n < current \/ n >= current
        BY <1>0, Durations
      <4> QED BY <4>1, <3>1, <1>2, <1>3 DEF Needy
    <3>3. RestIsDone'
      BY <3>2, <1>1 DEF RestIsDone
    <3> QED BY <2>2, <2>3, <3>3, <1>1, LoaderWaits
  <2>4. CASE at' # "waiting"
    <3>1. at' \notin {"reading", "read", "ending", "waiting"}
      BY <2>2, <2>4
    <3> QED BY <2>2, <3>1, <1>1, LoaderStops
  <2> QED BY <2>3, <2>4
<1>4. CASE ~ (aborted \/ Needy(current, loading) = {})
  <2>1. OpenCursor(current, loading') /\ Needy(current, loading') # {} /\ loading' \in Selections
    BY <1>0, <1>1, <1>4 DEF CursorEnded
  <2> DEFINE k == current
  <2>2. k \in 0..NoBlock /\ Needy(k, loading') # {} /\ OpenCursor(k, loading')
    BY <1>0, <2>1
  <2>3. aborted' \/ \A n \in BlockIds : n < k => NeedTopics(blocks[n], loading') = Nothing
    BY <1>1, <1>2
  <2>4. total' \in Nat /\ full' \in BOOLEAN /\ aborted' \in BOOLEAN
    BY <1>0, <1>1
  <2>5. total' = CacheSize(blocks) /\ (aborted' \/ loading' = topics)
    BY <1>1, <1>2
  <2> HIDE DEF k
  <2>6. TypeOK'
    BY <1>0, <1>1, <2>1, <2>2, <2>4, OpenCursorTypes
  <2> QED BY <1>1, <2>1, <2>2, <2>3, <2>5, <2>6, LoaderOpens
<1> QED BY <1>3, <1>4

-----------------------------------------------------------------------------
(* Reading a block.                                                        *)

\* What comes after a result that is kept for the next block is for a later one.
LEMMA BeyondStays ==
  ASSUME current \in BlockIds, NEW i \in 1..Len(Log), NEW j \in 1..Len(Log),
         Beyond(i), i < j, IsMessage(j)
  PROVE  Log[j].time > EndTime(current)
<1>1. /\ Log[i].time \in Nat /\ Log[j].time \in Nat /\ EndTime(current) \in Nat
      /\ Log[i].kind \in {"message", "stamp"}
  BY LogTypes, BlockTimes, Durations
<1>2. \/ Log[i].time < Log[j].time
      \/ Log[i].time = Log[j].time /\ Log[i].kind = "message"
  BY LogAssumption
<1> QED BY <1>1, <1>2 DEF Beyond

\* A step of the cursor within a block.
LEMMA CursorMoves ==
  ASSUME IInv, TypeOK', at = "reading", at' \in {"reading", "read"}, CursorCovers',
         UNCHANGED <<topics, blocks, changes, stopped, aborted, loading, current, fetch, end,
                     total, full, late>>
  PROVE  IInv'
<1>1. BlocksAreWhole' /\ CacheBounded' /\ NeedKnown'
  BY DEF IInv, DataInv, NeedInv, BlocksAreWhole, CacheBounded, NeedKnown
<1>2. TotalAgrees' /\ LoadFollows' /\ SpanNeeds' /\ BehindIsDone' /\ RestIsDone'
  BY DEF IInv, DataInv, NeedInv, TotalAgrees, LoadFollows, SpanNeeds, BehindIsDone,
         RestIsDone, Loading
<1> QED BY <1>1, <1>2 DEF IInv, DataInv, NeedInv

LEMMA ReadHeldKeeps == ASSUME IInv, ReadHeld PROVE IInv'
<1>0. /\ TypeOK /\ at = "reading" /\ held \in 1..Len(Log) /\ results = {}
      /\ ahead \in SUBSET (1..Len(Log)) /\ \A j \in ahead : held < j
      /\ \A i \in 1..Len(Log) : IsMessage(i) => (i \in Queue <=> Spanned(i))
      /\ Queue = ahead \cup {held}
  <2>1. TypeOK /\ CursorCovers /\ at = "reading" /\ held # 0
    BY DEF IInv, DataInv, ReadHeld
  <2>2. results = {}
    BY <2>1 DEF CursorCovers
  <2> QED BY <2>1, <2>2, LogTypes DEF CursorCovers, TypeOK, Positions, Queue
<1>1. current \in BlockIds
  BY <1>0, Durations DEF TypeOK
<1>2. UNCHANGED <<topics, blocks, changes, stopped, aborted, loading, current, fetch, end,
                  ahead, total, full, late>>
  BY DEF ReadHeld
<1>3. CASE Beyond(held)
  <2>1. at' = "read" /\ UNCHANGED <<held, results>>
    BY <1>3 DEF ReadHeld
  <2>2. TypeOK'
    BY <1>0, <1>2, <2>1 DEF TypeOK
  <2>3. \A j \in Queue : IsMessage(j) => Log[j].time > EndTime(current)
    <3>1. IsMessage(held) => Log[held].time > EndTime(current)
      BY <1>3 DEF Beyond, IsMessage
    <3>2. \A j \in ahead : IsMessage(j) => Log[j].time > EndTime(current)
      BY <1>0, <1>1, <1>3, BeyondStays
    <3> QED BY <3>1, <3>2, <1>0
  <2>4. Queue' = Queue /\ \A i : Spanned(i)' <=> Spanned(i)
    BY <1>2, <2>1 DEF Queue, Spanned
  <2>5. CursorCovers'
    BY <1>0, <1>2, <2>1, <2>3, <2>4 DEF CursorCovers
  <2> QED BY <1>0, <1>2, <2>1, <2>2, <2>5, CursorMoves
<1>4. CASE ~Beyond(held)
  <2>1. held' = 0 /\ results' = {held} /\ at' = at
    BY <1>4 DEF ReadHeld
  <2>2. TypeOK'
    <3>1. {held} \in Positions /\ 0 \in 0..Len(Log)
      BY <1>0, LogTypes DEF Positions
    <3> QED BY <3>1, <1>0, <1>2, <2>1 DEF TypeOK
  <2>3. Queue' = ahead /\ results' \cup Queue' = Queue /\ \A i : Spanned(i)' <=> Spanned(i)
    BY <1>0, <1>2, <2>1 DEF Queue, Spanned
  <2>4. IsMessage(held) => Log[held].time <= EndTime(current)
    <3>1. Log[held].time \in Nat /\ EndTime(current) \in Nat
      BY <1>0, <1>1, LogTypes, BlockTimes, Durations
    <3> QED BY <3>1, <1>4 DEF Beyond, IsMessage
  <2>5. CursorCovers'
    BY <1>0, <1>2, <2>1, <2>3, <2>4 DEF CursorCovers
  <2> QED BY <1>0, <1>2, <2>1, <2>2, <2>5, CursorMoves
<1> QED BY <1>3, <1>4

LEMMA ReadNextKeeps == ASSUME IInv, ReadNext PROVE IInv'
<1>0. /\ TypeOK /\ at = "reading" /\ held = 0 /\ Queue = ahead
      /\ ahead \in SUBSET (1..Len(Log)) /\ results \in SUBSET (1..Len(Log))
      /\ \A i \in results, j \in ahead : i < j
      /\ \A i \in 1..Len(Log) : IsMessage(i) => (i \in results \cup ahead <=> Spanned(i))
      /\ \A i \in results : IsMessage(i) => Log[i].time <= EndTime(current)
  <2>1. TypeOK /\ CursorCovers /\ at = "reading" /\ held = 0
    BY DEF IInv, DataInv, ReadNext
  <2>2. Queue = ahead
    BY <2>1 DEF Queue
  <2> QED BY <2>1, <2>2 DEF CursorCovers, TypeOK, Positions
<1>1. current \in BlockIds
  BY <1>0, Durations DEF TypeOK
<1>2. UNCHANGED <<topics, blocks, changes, stopped, aborted, loading, current, fetch, end,
                  total, full, late>>
  BY DEF ReadNext
<1>3. CASE ahead = {}
  <2>1. at' = "read" /\ UNCHANGED <<ahead, held, results>>
    BY <1>3 DEF ReadNext
  <2>2. TypeOK'
    BY <1>0, <1>2, <2>1 DEF TypeOK
  <2>3. Queue' = {} /\ \A i : Spanned(i)' <=> Spanned(i)
    BY <1>0, <1>2, <1>3, <2>1 DEF Queue, Spanned
  <2>4. CursorCovers'
    BY <1>0, <1>2, <1>3, <2>1, <2>3 DEF CursorCovers
  <2> QED BY <1>0, <1>2, <2>1, <2>2, <2>4, CursorMoves
<1>4. CASE ahead # {}
  <2> DEFINE n == Min(ahead)
  <2>1. n \in ahead /\ \A j \in ahead : n <= j
    <3>1. ahead \subseteq Nat
      BY <1>0
    <3> QED BY <3>1, <1>4, MinIsLeast
  <2>2. /\ ahead' = ahead \ {n}
        /\ IF Beyond(n) THEN at' = "read" /\ held' = n /\ UNCHANGED results
           ELSE results' = results \cup {n} /\ UNCHANGED <<at, held>>
    BY <1>4 DEF ReadNext
  <2> HIDE DEF n
  <2>3. n \in 1..Len(Log) /\ n # 0 /\ \A j \in ahead \ {n} : n < j
    BY <1>0, <2>1
  <2>4. \A i : Spanned(i)' <=> Spanned(i)
    BY <1>2 DEF Spanned
  <2>5. CASE Beyond(n)
    <3>1. at' = "read" /\ held' = n /\ results' = results
      BY <2>2, <2>5
    <3>2. TypeOK'
      <4>1. ahead' \in Positions /\ n \in 0..Len(Log)
        BY <1>0, <2>2, <2>3 DEF Positions
      <4> QED BY <4>1, <3>1, <1>0, <1>2 DEF TypeOK
    <3>3. Queue' = ahead
      BY <2>1, <2>2, <2>3, <3>1 DEF Queue
    <3>4. \A j \in ahead : IsMessage(j) => Log[j].time > EndTime(current)
      <4>1. IsMessage(n) => Log[n].time > EndTime(current)
        BY <2>5 DEF Beyond, IsMessage
      <4>2. \A j \in ahead \ {n} : IsMessage(j) => Log[j].time > EndTime(current)
        BY <1>0, <1>1, <2>3, <2>5, BeyondStays
      <4> QED BY <4>1, <4>2
    <3>5. CursorCovers'
      BY <1>0, <1>2, <2>2, <2>3, <2>4, <3>1, <3>3, <3>4 DEF CursorCovers
    <3> QED BY <1>0, <1>2, <3>1, <3>2, <3>5, CursorMoves
  <2>6. CASE ~Beyond(n)
    <3>1. at' = "reading" /\ held' = 0 /\ results' = results \cup {n}
      BY <1>0, <2>2, <2>6
    <3>2. TypeOK'
      <4>1. ahead' \in Positions /\ results' \in Positions
        BY <1>0, <2>2, <2>3, <3>1 DEF Positions
      <4> QED BY <4>1, <3>1, <1>0, <1>2 DEF TypeOK
    <3>3. Queue' = ahead \ {n} /\ results' \cup Queue' = results \cup ahead
      BY <2>1, <2>2, <3>1 DEF Queue
    <3>4. IsMessage(n) => Log[n].time <= EndTime(current)
      <4>1. Log[n].time \in Nat /\ EndTime(current) \in Nat
        BY <2>3, <1>1, LogTypes, BlockTimes, Durations
      <4> QED BY <4>1, <2>6 DEF Beyond, IsMessage
    <3>5. CursorCovers'
      BY <1>0, <1>2, <2>1, <2>3, <2>4, <3>1, <3>3, <3>4 DEF CursorCovers
    <3> QED BY <1>0, <1>2, <3>1, <3>2, <3>5, CursorMoves
  <2> QED BY <2>5, <2>6
<1> QED BY <1>3, <1>4

-----------------------------------------------------------------------------
(* What was read goes into the blocks.                                     *)

\* Whether or not unused topics are removed to make room for it.
LEMMA RoomIsMade ==
  ASSUME IInv, NEW bs, bs = blocks \/ bs = TrimmedBlocks
  PROVE  /\ bs \in [BlockIds -> Blocks] /\ CacheSize(bs) <= CacheSize(blocks)
         /\ CacheSize(bs) \in Nat /\ CacheSize(blocks) \in Nat
         /\ \A k \in BlockIds :
              /\ Whole(k, bs[k])
              /\ bs[k].made = blocks[k].made /\ bs[k].need = blocks[k].need
              /\ \A t \in Topics : topics[t] # 0 /\ blocks[k].need[t] = 0
                                     => bs[k].as[t] = blocks[k].as[t]
<1>0. blocks \in [BlockIds -> Blocks] /\ \A k \in BlockIds : Whole(k, blocks[k])
  BY DEF IInv, DataInv, TypeOK, BlocksAreWhole
<1>1. ASSUME NEW k \in BlockIds
      PROVE  /\ bs[k] \in Blocks /\ bs[k].size <= blocks[k].size /\ Whole(k, bs[k])
             /\ bs[k].made = blocks[k].made /\ bs[k].need = blocks[k].need
             /\ \A t \in Topics : topics[t] # 0 /\ blocks[k].need[t] = 0
                                    => bs[k].as[t] = blocks[k].as[t]
  <2>1. blocks[k] \in Blocks /\ Whole(k, blocks[k]) /\ blocks[k].size <= blocks[k].size
    BY <1>0, BlockTypes
  <2>2. CASE bs = blocks
    BY <2>1, <2>2
  <2>3. CASE bs = TrimmedBlocks
    <3>1. bs[k] = Trimmed(blocks[k])
      BY <2>3 DEF TrimmedBlocks
    <3> QED BY <2>1, <3>1, TrimmedIsWhole, TrimmedKeeps
  <2> QED BY <2>2, <2>3
<1>2. bs \in [BlockIds -> Blocks]
  <2>1. bs = [k \in BlockIds |-> bs[k]]
    BY <1>0 DEF TrimmedBlocks
  <2> QED BY <1>1, <2>1
<1>3. CacheSize(bs) <= CacheSize(blocks)
  BY <1>0, <1>1, <1>2, CacheSizeMonotonic
<1>4. CacheSize(bs) \in Nat /\ CacheSize(blocks) \in Nat
  BY <1>0, <1>2, CacheSizeIsSum
<1> QED BY <1>1, <1>2, <1>3, <1>4

\* Once a block is read, the results are its messages.
LEMMA BlockIsRead ==
  ASSUME IInv, at = "read"
  PROVE  /\ current \in BlockIds /\ end \in BlockIds /\ current <= end
         /\ ResultsAreFor(current)
         /\ \A j \in Queue : IsMessage(j) => Log[j].time > EndTime(current)
<1>1. TypeOK /\ CursorCovers
  BY DEF IInv, DataInv
<1>2. current \in BlockIds /\ end \in BlockIds /\ current <= end
  BY <1>1, Durations DEF TypeOK
<1>3. EndTime(current) <= EndTime(end) /\ EndTime(current) \in Nat /\ EndTime(end) \in Nat
      /\ StartTime(current) \in Nat
  <2>1. current < end \/ current = end
    BY <1>2, Durations
  <2> QED BY <1>2, <2>1, BlocksInOrder, BlockTimes
<1>4. results \in SUBSET (1..Len(Log))
  BY <1>1 DEF TypeOK, Positions
<1>5. ASSUME NEW i \in 1..Len(Log)
      PROVE  i \in Read <=> /\ IsMessage(i) /\ fetch[Log[i].topic] # 0
                            /\ Log[i].time \in StartTime(current)..EndTime(current)
  <2>0. Log[i].time \in Nat
    BY LogTypes
  <2>1. ASSUME i \in Read
        PROVE  /\ IsMessage(i) /\ fetch[Log[i].topic] # 0
               /\ Log[i].time \in StartTime(current)..EndTime(current)
    <3>1. i \in results /\ IsMessage(i)
      BY <2>1 DEF Read
    <3>2. Spanned(i) /\ Log[i].time <= EndTime(current)
      BY <3>1, <1>1, at = "read" DEF CursorCovers
    <3> QED BY <3>1, <3>2, <2>0, <1>3 DEF Spanned
  <2>2. ASSUME IsMessage(i), fetch[Log[i].topic] # 0,
               Log[i].time \in StartTime(current)..EndTime(current)
        PROVE  i \in Read
    <3>1. Spanned(i)
      BY <2>2, <2>0, <1>3 DEF Spanned
    <3>2. i \in results \cup Queue
      BY <3>1, <2>2, <1>1, at = "read" DEF CursorCovers
    <3>3. i \notin Queue
      <4> SUFFICES ASSUME i \in Queue PROVE FALSE
        OBVIOUS
      <4>1. Log[i].time > EndTime(current)
        BY <2>2, <1>1, at = "read" DEF CursorCovers
      <4> QED BY <4>1, <2>0, <2>2, <1>3
    <3> QED BY <3>2, <3>3, <2>2 DEF Read
  <2> QED BY <2>1, <2>2
<1>6. \A j \in Queue : IsMessage(j) => Log[j].time > EndTime(current)
  BY <1>1, at = "read" DEF CursorCovers
<1> QED BY <1>2, <1>5, <1>6 DEF ResultsAreFor

\* The block the cursor goes on with is covered too.
LEMMA NextBlockCovered ==
  ASSUME IInv, at = "read", at' # "read", results' = {}, current' = current + 1,
         at' = "reading" => current # end,
         UNCHANGED <<fetch, end, ahead, held>>
  PROVE  CursorCovers'
<1> SUFFICES ASSUME at' = "reading" PROVE CursorCovers'
  BY DEF CursorCovers
<1>1. TypeOK /\ CursorCovers
  BY DEF IInv, DataInv
<1>2. /\ current \in BlockIds /\ end \in BlockIds /\ current <= end
      /\ \A j \in Queue : IsMessage(j) => Log[j].time > EndTime(current)
  BY BlockIsRead
<1>3. current + 1 \in BlockIds /\ current \in Nat /\ end \in Nat
  BY <1>2, Durations
<1>4. /\ StartTime(current + 1) = EndTime(current) + 1
      /\ StartTime(current) <= EndTime(current)
      /\ StartTime(current) \in Nat /\ EndTime(current) \in Nat /\ EndTime(end) \in Nat
  BY <1>2, <1>3, BlockTimes
<1>5. Queue' = Queue /\ Queue \subseteq 1..Len(Log)
  BY <1>1, LogTypes DEF Queue, TypeOK, Positions
<1>6. ASSUME NEW i \in 1..Len(Log), IsMessage(i)
      PROVE  i \in results' \cup Queue' <=> Spanned(i)'
  <2>0. Log[i].time \in Nat
    BY LogTypes
  <2>1. i \in results \cup Queue <=> Spanned(i)
    BY <1>1, <1>6, at = "read" DEF CursorCovers
  <2>2. Spanned(i)' <=> fetch[Log[i].topic] # 0
                        /\ Log[i].time \in StartTime(current + 1)..EndTime(end)
    BY DEF Spanned
  <2>3. ASSUME i \in Queue PROVE Spanned(i)'
    <3>1. Spanned(i) /\ Log[i].time > EndTime(current)
      BY <2>1, <2>3, <1>2, <1>6
    <3> QED BY <3>1, <2>0, <2>2, <1>4 DEF Spanned
  <2>4. ASSUME Spanned(i)' PROVE i \in Queue
    <3>1. Spanned(i) /\ Log[i].time > EndTime(current)
      BY <2>2, <2>4, <2>0, <1>4 DEF Spanned
    <3>2. i \notin results
      <4> SUFFICES ASSUME i \in results PROVE FALSE
        OBVIOUS
      <4>1. Log[i].time <= EndTime(current)
        BY <1>1, <1>6, at = "read" DEF CursorCovers
      <4> QED BY <4>1, <3>1, <2>0, <1>4
    <3> QED BY <3>1, <3>2, <2>1
  <2> QED BY <2>3, <2>4, <1>5
<1>7. held' # 0 => \A j \in ahead' : held' < j
  BY <1>1, at = "read" DEF CursorCovers
<1> QED BY <1>6, <1>7 DEF CursorCovers

\* The load ends for want of room.
LEMMA FullKeeps ==
  ASSUME IInv, at = "read", NEW bs, bs = blocks \/ bs = TrimmedBlocks,
         LoadEnds(aborted), blocks' = bs, full' = TRUE,
         UNCHANGED <<topics, changes, stopped, aborted, loading, total, late>>
  PROVE  IInv'
<1>1. TypeOK /\ CacheBounded /\ NeedKnown
  BY DEF IInv, DataInv, NeedInv
<1>2. /\ bs \in [BlockIds -> Blocks] /\ CacheSize(bs) <= CacheSize(blocks)
      /\ CacheSize(bs) \in Nat /\ CacheSize(blocks) \in Nat
      /\ \A k \in BlockIds :
           /\ Whole(k, bs[k])
           /\ bs[k].made = blocks[k].made /\ bs[k].need = blocks[k].need
           /\ \A t \in Topics : topics[t] # 0 /\ blocks[k].need[t] = 0
                                  => bs[k].as[t] = blocks[k].as[t]
  BY RoomIsMade
<1>3. TypeOK' /\ at' \in {"ended", "load", "waiting"}
  <2>1. /\ blocks' \in [BlockIds -> Blocks] /\ total' \in Nat /\ full' \in BOOLEAN
        /\ late' \in BOOLEAN /\ aborted' \in BOOLEAN /\ loading' \in Selections
    BY <1>1, <1>2 DEF TypeOK
  <2> QED BY <1>1, <2>1, LoadEndsTypes
<1>4. BlocksAreWhole'
  BY <1>2 DEF BlocksAreWhole
<1>5. CacheBounded'
  BY <1>1, <1>2, BoundsAssumption DEF CacheBounded
<1>6. NeedKnown'
  <2>1. ASSUME ~late, NEW k \in BlockIds, bs[k].made, NEW t \in Topics,
               topics[t] # 0, bs[k].need[t] = 0
        PROVE  bs[k].as[t] # 0
    <3>1. blocks[k].made /\ blocks[k].need[t] = 0 /\ bs[k].as[t] = blocks[k].as[t]
      BY <2>1, <1>2
    <3> QED BY <3>1, <2>1, <1>1 DEF NeedKnown
  <2> QED BY <2>1 DEF NeedKnown
<1>7. CursorCovers' /\ TotalAgrees' /\ LoadFollows' /\ SpanNeeds' /\ BehindIsDone' /\ RestIsDone'
  BY <1>3 DEF CursorCovers, TotalAgrees, LoadFollows, SpanNeeds, BehindIsDone, RestIsDone, Loading
<1> QED BY <1>3, <1>4, <1>5, <1>6, <1>7 DEF IInv, DataInv, NeedInv

\* What was read is written to the block.
LEMMA BlockWritten ==
  ASSUME IInv, at = "read", NEW bs, bs = blocks \/ bs = TrimmedBlocks,
         NEW taken, taken = (total + SizeOf(Read)) - (CacheSize(blocks) - CacheSize(bs)),
         topics = loading, Fits(taken),
         blocks' = [bs EXCEPT ![current] = Written(bs[current])],
         total' = taken - SizeOf(UNION {bs[current].messages[t] : t \in Chosen(fetch)}),
         current' = current + 1, at' = IF SpanRead THEN "ending" ELSE "reading",
         results' = {}, late' = (late \/ aborted),
         UNCHANGED <<fetch, end, ahead, held, full, topics, changes, stopped, aborted, loading>>
  PROVE  IInv'
<1>0. /\ TypeOK /\ NeedKnown /\ SpanNeeds /\ BehindIsDone
      /\ total = CacheSize(blocks)
  BY DEF IInv, DataInv, NeedInv, TotalAgrees, Loading
<1>1. /\ bs \in [BlockIds -> Blocks]
      /\ CacheSize(bs) \in Nat /\ CacheSize(blocks) \in Nat
      /\ \A k \in BlockIds :
           /\ Whole(k, bs[k])
           /\ bs[k].made = blocks[k].made /\ bs[k].need = blocks[k].need
           /\ \A t \in Topics : topics[t] # 0 /\ blocks[k].need[t] = 0
                                  => bs[k].as[t] = blocks[k].as[t]
  BY RoomIsMade
<1>2. /\ current \in BlockIds /\ end \in BlockIds /\ current <= end
      /\ current \in Nat /\ end \in Nat /\ ResultsAreFor(current)
  BY BlockIsRead, Durations
<1> DEFINE b == Written(bs[current])
           old == SizeOf(UNION {bs[current].messages[t] : t \in Chosen(fetch)})
<1>3. /\ b \in Blocks /\ Whole(current, b) /\ b.made = TRUE /\ b.need = Nothing
      /\ \A t \in Topics : b.as[t] = IF fetch[t] # 0 THEN fetch[t] ELSE bs[current].as[t]
      /\ b.size = bs[current].size - old + SizeOf(Read)
      /\ SizeOf(Read) \in Nat /\ old \in Nat /\ bs[current] \in Blocks
  <2>1. bs[current] \in Blocks /\ Whole(current, bs[current])
    BY <1>1, <1>2
  <2> QED BY <2>1, <1>0, <1>2, WrittenIsWhole
<1> HIDE DEF b, old
<1>4. /\ blocks' = [bs EXCEPT ![current] = b] /\ total' = taken - old
  BY DEF b, old
<1>5. /\ blocks' \in [BlockIds -> Blocks] /\ blocks'[current] = b
      /\ \A k \in BlockIds : k # current => blocks'[k] = bs[k]
  BY <1>1, <1>2, <1>3, <1>4
<1>6. CacheSize(blocks') = CacheSize(bs) - bs[current].size + b.size
  <2>1. bs \in [BlockIds -> Blocks] /\ current \in BlockIds /\ b \in Blocks
    BY <1>1, <1>2, <1>3
  <2>2. CacheSize([bs EXCEPT ![current] = b]) = CacheSize(bs) - bs[current].size + b.size
    BY <2>1, CacheSizePut
  <2> QED BY <2>2, <1>4
<1>7. CacheSize(blocks') \in Nat
  BY <1>5, CacheSizeIsSum
<1>8. total' = CacheSize(blocks')
  <2>1. bs[current].size \in Nat /\ b.size \in Nat
    BY <1>3, BlockTypes
  <2> QED BY <2>1, <1>0, <1>1, <1>3, <1>4, <1>6
<1>9. CacheBounded'
  <2>1. taken <= MaxCacheSize /\ MaxCacheSize \in Nat
    BY BoundsAssumption DEF Fits
  <2>2. taken \in Int
    BY <1>0, <1>1, <1>3
  <2> QED BY <2>1, <2>2, <1>3, <1>4, <1>7, <1>8 DEF CacheBounded
<1>10. at' \in {"ending", "reading"} /\ (at' = "reading" => current # end)
  BY DEF SpanRead
<1>11. TypeOK'
  <2>1. current' \in 0..NoBlock /\ (at' = "reading" => current' \in 0..end /\ end \in BlockIds)
    BY <1>2, <1>10, Durations
  <2>2. {} \in Positions /\ late' \in BOOLEAN
    BY <1>0 DEF Positions, TypeOK
  <2> QED BY <2>1, <2>2, <1>0, <1>5, <1>7, <1>8, <1>10 DEF TypeOK
<1>12. BlocksAreWhole'
  BY <1>1, <1>3, <1>5 DEF BlocksAreWhole
<1>13. TotalAgrees'
  BY <1>8 DEF TotalAgrees
<1>14. CursorCovers'
  BY <1>10, NextBlockCovered
<1>15. \A k \in BlockIds : NeedTopics(bs[k], loading) = NeedTopics(blocks[k], loading)
  BY <1>1 DEF NeedTopics
<1>16. NeedKnown'
  <2>1. ASSUME ~late, ~aborted, NEW k \in BlockIds, blocks'[k].made, NEW t \in Topics,
               topics[t] # 0, blocks'[k].need[t] = 0
        PROVE  blocks'[k].as[t] # 0
    <3>1. CASE k # current
      <4>1. blocks'[k] = bs[k] /\ blocks[k].made /\ blocks[k].need[t] = 0
            /\ bs[k].as[t] = blocks[k].as[t]
        BY <3>1, <2>1, <1>1, <1>5
      <4> QED BY <4>1, <2>1, <1>0 DEF NeedKnown
    <3>2. CASE k = current /\ fetch[t] # 0
      BY <3>2, <1>3, <1>5
    <3>3. CASE k = current /\ fetch[t] = 0
      <4>1. NeedTopics(blocks[current], loading) = fetch
        <5>1. current \in current..end
          BY <1>2
        <5> QED BY <5>1, <1>0, <2>1 DEF SpanNeeds
      <4>2. blocks[k].made
        BY <4>1, <3>3, <2>1 DEF NeedTopics
      <4>3. blocks[k].need[t] = 0
        BY <4>1, <4>2, <3>3 DEF NeedTopics
      <4>4. blocks[k].as[t] # 0 /\ bs[k].as[t] = blocks[k].as[t]
        BY <4>2, <4>3, <2>1, <1>0, <1>1 DEF NeedKnown
      <4> QED BY <4>4, <3>3, <1>3, <1>5
    <3> QED BY <3>1, <3>2, <3>3
  <2> QED BY <2>1 DEF NeedKnown
<1>17. SpanNeeds'
  <2>1. ASSUME ~aborted, at' = "reading", NEW m \in (current + 1)..end
        PROVE  NeedTopics(blocks'[m], loading) = fetch
    <3>1. m \in BlockIds /\ m # current /\ m \in current..end
      BY <1>2, Durations
    <3>2. NeedTopics(blocks[m], loading) = fetch
      BY <3>1, <2>1, <1>0 DEF SpanNeeds
    <3> QED BY <3>1, <3>2, <1>5, <1>15
  <2> QED BY <2>1, <1>10 DEF SpanNeeds
<1>18. BehindIsDone'
  <2>1. ASSUME ~aborted, NEW n \in BlockIds, n < current + 1
        PROVE  NeedTopics(blocks'[n], loading) = Nothing
    <3>1. n = current \/ (n < current /\ n # current)
      BY <1>2, <2>1, Durations
    <3>2. CASE n = current
      BY <3>2, <1>3, <1>5 DEF NeedTopics
    <3>3. CASE n < current /\ n # current
      <4>1. NeedTopics(blocks[n], loading) = Nothing
        BY <3>3, <2>1, <1>0 DEF BehindIsDone, Loading
      <4> QED BY <4>1, <3>3, <1>5, <1>15
    <3> QED BY <3>1, <3>2, <3>3
  <2> QED BY <2>1 DEF BehindIsDone
<1>19. LoadFollows' /\ RestIsDone'
  BY <1>10 DEF LoadFollows, RestIsDone
<1> QED BY <1>9, <1>11, <1>12, <1>13, <1>14, <1>16, <1>17, <1>18, <1>19
        DEF IInv, DataInv, NeedInv

LEMMA TakeResultsKeeps == ASSUME IInv, TakeResults PROVE IInv'
<1> DEFINE size == total + SizeOf(Read)
           roomy == size < MaxCacheSize
           bs == IF roomy THEN blocks ELSE TrimmedBlocks
           freed == IF roomy THEN 0 ELSE CacheSize(blocks) - CacheSize(bs)
           taken == size - freed
           b == Written(bs[current])
<1>1. /\ at = "read"
      /\ IF topics # loading THEN LoadEnds(aborted) /\ UNCHANGED <<blocks, total, full, late>>
         ELSE IF ~Fits(taken)
         THEN LoadEnds(aborted) /\ blocks' = bs /\ full' = TRUE /\ UNCHANGED <<total, late>>
         ELSE /\ blocks' = [bs EXCEPT ![current] = b]
              /\ total' = taken - SizeOf(UNION {bs[current].messages[t] : t \in Chosen(fetch)})
              /\ current' = current + 1
              /\ at' = IF SpanRead THEN "ending" ELSE "reading"
              /\ results' = {}
              /\ late' = (late \/ aborted)
              /\ UNCHANGED <<fetch, end, ahead, held, full>>
      /\ UNCHANGED <<topics, changes, stopped, aborted, loading>>
  BY Zenon DEF TakeResults, Read, IsMessage
<1>2. TypeOK
  BY DEF IInv, DataInv
<1>3. bs = blocks \/ bs = TrimmedBlocks
  OBVIOUS
<1>4. taken = (total + SizeOf(Read)) - (CacheSize(blocks) - CacheSize(bs))
  <2>1. CASE roomy
    <3>1. bs = blocks /\ taken = size - 0
      BY <2>1
    <3>2. CacheSize(blocks) \in Nat
      BY RoomIsMade
    <3>3. total \in Nat /\ SizeOf(Read) \in Nat
      BY <1>2, SizeType DEF TypeOK, Read, Positions
    <3> HIDE DEF bs, taken, roomy
    <3> QED BY <3>1, <3>2, <3>3
  <2>2. CASE ~roomy
    <3>1. freed = CacheSize(blocks) - CacheSize(bs)
      BY <2>2, Zenon
    <3> HIDE DEF freed, bs, roomy, b
    <3> QED BY <3>1, Zenon
  <2> QED BY <2>1, <2>2
<1> HIDE DEF bs, taken
<1>5. CASE topics # loading
  <2>1. LoadEnds(aborted) /\ UNCHANGED <<blocks, total, full, late>>
    BY <1>1, <1>5
  <2>2. TypeOK' /\ at' \in {"ended", "load", "waiting"}
    <3>1. /\ blocks' \in [BlockIds -> Blocks] /\ total' \in Nat /\ full' \in BOOLEAN
          /\ late' \in BOOLEAN /\ aborted' \in BOOLEAN /\ loading' \in Selections
      BY <1>1, <1>2, <2>1 DEF TypeOK
    <3> QED BY <1>1, <1>2, <2>1, <3>1, LoadEndsTypes
  <2>3. aborted
    BY <1>1, <1>5 DEF IInv, NeedInv, LoadFollows, Loading
  <2>4. at' \notin {"reading", "read", "ending", "waiting"}
    BY <2>1, <2>3 DEF LoadEnds
  <2> QED BY <1>1, <2>1, <2>2, <2>4, LoaderStops
<1>6. CASE topics = loading /\ ~Fits(taken)
  <2>1. LoadEnds(aborted) /\ blocks' = bs /\ full' = TRUE /\ UNCHANGED <<total, late>>
    BY <1>1, <1>6
  <2> QED BY <1>1, <1>3, <2>1, FullKeeps
<1>7. CASE topics = loading /\ Fits(taken)
  <2>1. /\ blocks' = [bs EXCEPT ![current] = Written(bs[current])]
        /\ total' = taken - SizeOf(UNION {bs[current].messages[t] : t \in Chosen(fetch)})
        /\ current' = current + 1
        /\ at' = IF SpanRead THEN "ending" ELSE "reading"
        /\ results' = {}
        /\ late' = (late \/ aborted)
        /\ UNCHANGED <<fetch, end, ahead, held, full>>
    BY <1>1, <1>7
  <2> QED BY <1>1, <1>3, <1>4, <1>7, <2>1, BlockWritten
<1> QED BY <1>5, <1>6, <1>7

-----------------------------------------------------------------------------
(* The theorems.                                                           *)

LEMMA StutteringKeeps == ASSUME IInv, UNCHANGED vars PROVE IInv'
<1>1. UNCHANGED <<topics, blocks, changes, stopped, at, aborted, loading, current, fetch,
                  end, ahead, held, results, total, full, late>>
  BY DEF vars, cursor
<1>2. TypeOK'
  BY <1>1 DEF IInv, DataInv, TypeOK
<1>3. BlocksAreWhole' /\ CacheBounded' /\ NeedKnown' /\ TotalAgrees' /\ CursorCovers'
  BY <1>1 DEF IInv, DataInv, NeedInv, BlocksAreWhole, CacheBounded, NeedKnown, TotalAgrees,
              CursorCovers, Loading, Queue, Spanned
<1>4. LoadFollows' /\ SpanNeeds' /\ BehindIsDone' /\ RestIsDone'
  BY <1>1 DEF IInv, NeedInv, LoadFollows, SpanNeeds, BehindIsDone, RestIsDone, Loading
<1> QED BY <1>2, <1>3, <1>4 DEF IInv, DataInv, NeedInv

LEMMA NextKeeps == ASSUME IInv, [Next]_vars PROVE IInv'
<1>1. CASE Load BY <1>1, LoadKeeps
<1>2. CASE ReadHeld BY <1>2, ReadHeldKeeps
<1>3. CASE ReadNext BY <1>3, ReadNextKeeps
<1>4. CASE ReadAborted BY <1>4, ReadAbortedKeeps
<1>5. CASE SourceRejects BY <1>5, SourceRejectsKeeps
<1>6. CASE TakeResults BY <1>6, TakeResultsKeeps
<1>7. CASE CursorEnded BY <1>7, CursorEndedKeeps
<1>8. CASE \E s \in Selections : SetTopics(s) BY <1>8, SetTopicsKeeps
<1>9. CASE StartLoading BY <1>9, StartLoadingKeeps
<1>10. CASE StopLoading BY <1>10, StopLoadingKeeps
<1>11. CASE UNCHANGED vars BY <1>11, StutteringKeeps
<1> QED BY <1>1, <1>2, <1>3, <1>4, <1>5, <1>6, <1>7, <1>8, <1>9, <1>10, <1>11
        DEF Next, Advance

LEMMA Invariance == Spec => []IInv
<1>1. Init => IInv
  BY InitIsEmpty
<1>2. IInv /\ [Next]_vars => IInv'
  BY NextKeeps
<1> QED BY <1>1, <1>2, PTL DEF Spec

\* Every variable of the loader keeps its type: the block that is read is one of its
\* cursor's span, and the span one of blocks that exist.
THEOREM TypeCorrect == Spec => []TypeOK
<1>1. IInv => TypeOK
  BY DEF IInv, DataInv
<1> QED BY <1>1, Invariance, PTL

\* However loads are aborted, retried, or end for want of room, and whatever was removed
\* to make some, a block has all messages of its time on each topic it holds, none else,
\* and their size.
THEOREM BlocksStayComplete == Spec => []BlocksAreComplete
<1>1. IInv => BlocksAreComplete
  BY DEF IInv, DataInv, BlocksAreWhole, BlocksAreComplete, Whole
<1> QED BY <1>1, Invariance, PTL

\* The blocks never take more than the cache may, though load counts their size itself
\* and looks at it before it writes.
THEOREM CacheStaysBounded == Spec => []CacheBounded
<1>1. IInv => CacheBounded
  BY DEF IInv, DataInv
<1> QED BY <1>1, Invariance, PTL

\* A loader that waits has loaded every message of the topics to be preloaded, unless
\* there was no room, or results were taken for topics that had been replaced by equal ones.
THEOREM WaitingMeansLoaded == Spec => []RestsWhenLoaded
<1>1. ASSUME IInv PROVE RestsWhenLoaded
  <2> SUFFICES ASSUME at = "waiting", ~full, ~late, NEW t \in Chosen(topics)
               PROVE  UNION {blocks[k].messages[t] : k \in BlockIds} =
                        {i \in 1..Len(Log) : Log[i].kind = "message" /\ Log[i].topic = t}
    BY DEF RestsWhenLoaded
  <2>0. t \in Topics /\ topics[t] # 0
    BY DEF Chosen
  <2>1. ASSUME NEW k \in BlockIds PROVE blocks[k].messages[t] = Messages(k, t)
    <3>1. NeedTopics(blocks[k], topics) = Nothing
      BY <1>1 DEF IInv, NeedInv, RestIsDone
    <3>2. blocks[k].made
      BY <3>1, <2>0 DEF NeedTopics, Nothing
    <3>3. blocks[k].need[t] = 0
      BY <3>1, <3>2, <2>0 DEF NeedTopics, Nothing
    <3>4. blocks[k].as[t] # 0
      BY <1>1, <2>0, <3>2, <3>3 DEF IInv, NeedInv, NeedKnown
    <3> QED BY <3>4, <1>1, <2>0 DEF IInv, DataInv, BlocksAreWhole, Whole
  <2>2. ASSUME NEW i \in 1..Len(Log), Log[i].kind = "message", Log[i].topic = t
        PROVE  \E k \in BlockIds : i \in blocks[k].messages[t]
    <3>1. Log[i].time \in 0..LastTime
      BY LogTypes
    <3>2. PICK k \in BlockIds : Log[i].time \in StartTime(k)..EndTime(k)
      BY <3>1, TimeInBlock
    <3>3. i \in Messages(k, t)
      BY <3>2, <2>2 DEF Messages
    <3> QED BY <3>3, <2>1
  <2>3. ASSUME NEW k \in BlockIds, NEW i \in blocks[k].messages[t]
        PROVE  i \in 1..Len(Log) /\ Log[i].kind = "message" /\ Log[i].topic = t
    BY <2>1, <2>3 DEF Messages
  <2> QED BY <2>2, <2>3
<1> QED BY <1>1, Invariance, PTL

-----------------------------------------------------------------------------
(* That loading comes to rest (LoadingRests) takes fairness; that it does  *)
(* not go round in circles does not.                                       *)

\* How often the loader may still change from one load to the next: a load that was aborted
\* is followed by another one, and that one by none while the topics stay.
LoadsLeft ==
  IF ~Running THEN 0 ELSE IF at = "load" THEN 2 ELSE IF aborted THEN 3 ELSE 1

\* The blocks it has not come to.
BlocksLeft == NoBlock - current

\* What may still be read before the block is written.
ReadsLeft ==
  CASE at = "ending" -> 2 * Len(Log) + 2
    [] at = "reading" -> 2 * Cardinality(ahead) + (IF held = 0 THEN 1 ELSE 2)
    [] OTHER -> 0

LessLeft ==
  \/ LoadsLeft' < LoadsLeft
  \/ LoadsLeft' = LoadsLeft /\ BlocksLeft' < BlocksLeft
  \/ LoadsLeft' = LoadsLeft /\ BlocksLeft' = BlocksLeft /\ ReadsLeft' < ReadsLeft

\* Every step of the loader leaves less to do, in this order.
LoadingWearsDown == [][Advance => LessLeft]_vars

\* What is ahead of a cursor can be counted.
LEMMA AheadCounts ==
  ASSUME NEW S \in Positions
  PROVE  IsFiniteSet(S) /\ Cardinality(S) \in 0..Len(Log)
<1>1. Len(Log) \in Nat
  BY LogTypes
<1>2. IsFiniteSet(1..Len(Log)) /\ Cardinality(1..Len(Log)) = Len(Log)
  BY <1>1, FS_Interval
<1>3. S \subseteq 1..Len(Log)
  BY DEF Positions
<1>4. IsFiniteSet(S) /\ Cardinality(S) <= Cardinality(1..Len(Log))
  BY <1>2, <1>3, FS_Subset
<1> QED
  BY <1>1, <1>2, <1>4, FS_CardinalityType

\* A load that was aborted is over, or about to be.
LEMMA AbortedWearsDown ==
  ASSUME TypeOK, ReadAborted
  PROVE  LessLeft
<1>1. at = "reading" /\ at' = "ending" /\ aborted /\ aborted' /\ current' = NoBlock
  BY DEF ReadAborted, TypeOK
<1>2. LoadsLeft = 3 /\ LoadsLeft' = 3
  BY <1>1 DEF LoadsLeft, Running
<1>3. current \in Nat /\ NoBlock \in Nat /\ current < NoBlock
  BY <1>1, Durations DEF TypeOK, BlockIds, NoBlock
<1>4. BlocksLeft' < BlocksLeft
  BY <1>1, <1>3 DEF BlocksLeft
<1> QED
  BY <1>2, <1>4 DEF LessLeft

\* The loader waits, ends or fails, or loads once more what the topics have become.
LEMMA EndingWearsDown ==
  ASSUME TypeOK, Running, at # "load", LoadEnds(aborted) \/ at' = "failed"
  PROVE  LessLeft
<1>1. at' = "load" => aborted
  BY DEF LoadEnds, TypeOK
<1>2. at' \in {"ended", "load", "waiting", "failed"}
  BY DEF LoadEnds
<1>3. LoadsLeft' < LoadsLeft
  BY <1>1, <1>2 DEF LoadsLeft, Running
<1> QED
  BY <1>3 DEF LessLeft

\* A load begins with a cursor, or has nothing to do.
LEMMA LoadWearsDown ==
  ASSUME TypeOK, Load
  PROVE  LessLeft
<1>1. at = "load" /\ LoadsLeft = 2
  BY DEF Load, LoadsLeft, Running
<1>2. CASE stopped \/ Needy(0, topics) = {}
  <2>1. at' \in {"ended", "waiting"}
    BY <1>2 DEF Load, LoadEnds
  <2> QED
    BY <1>1, <2>1 DEF LessLeft, LoadsLeft, Running
<1>3. CASE ~(stopped \/ Needy(0, topics) = {})
  <2>1. at' = "reading" /\ ~aborted'
    BY <1>3 DEF Load, OpenCursor
  <2> QED
    BY <1>1, <2>1 DEF LessLeft, LoadsLeft, Running
<1> QED
  BY <1>2, <1>3

\* A step of a load that goes on, from one block or result to the next.
LEMMA GoingOnWearsDown ==
  ASSUME Running, Running', at # "load", at' # "load", aborted' = aborted,
         BlocksLeft' < BlocksLeft \/ (BlocksLeft' = BlocksLeft /\ ReadsLeft' < ReadsLeft)
  PROVE  LessLeft
<1>1. LoadsLeft' = LoadsLeft
  BY DEF LoadsLeft
<1> QED
  BY <1>1 DEF LessLeft

LEMMA ReadHeldWearsDown ==
  ASSUME TypeOK, ReadHeld
  PROVE  LessLeft
<1>1. /\ at = "reading" /\ held # 0 /\ aborted' = aborted /\ current' = current /\ ahead' = ahead
      /\ at' = "read" \/ (at' = at /\ held' = 0)
  BY DEF ReadHeld
<1>2. Cardinality(ahead) \in Nat
  BY AheadCounts DEF TypeOK
<1>3. ReadsLeft = 2 * Cardinality(ahead) + 2
  BY <1>1 DEF ReadsLeft
<1>4. at' = "read" => ReadsLeft' = 0
  BY DEF ReadsLeft
<1>5. at' = at => ReadsLeft' = 2 * Cardinality(ahead) + 1
  BY <1>1 DEF ReadsLeft
<1>6. ReadsLeft' < ReadsLeft
  BY <1>1, <1>2, <1>3, <1>4, <1>5
<1>7. BlocksLeft' = BlocksLeft
  BY <1>1 DEF BlocksLeft
<1>8. Running /\ Running' /\ at # "load" /\ at' # "load"
  BY <1>1 DEF Running
<1> QED
  BY <1>1, <1>6, <1>7, <1>8, GoingOnWearsDown

LEMMA ReadNextWearsDown ==
  ASSUME TypeOK, ReadNext
  PROVE  LessLeft
<1>1. /\ at = "reading" /\ held = 0 /\ aborted' = aborted /\ current' = current
      /\ \/ at' = "read"
         \/ at' = at /\ held' = held /\ ahead # {} /\ ahead' = ahead \ {Min(ahead)}
  BY DEF ReadNext
<1>2. ahead \in Positions /\ IsFiniteSet(ahead) /\ Cardinality(ahead) \in Nat
  BY AheadCounts DEF TypeOK
<1>3. ReadsLeft = 2 * Cardinality(ahead) + 1
  BY <1>1 DEF ReadsLeft
<1>4. at' = "read" => ReadsLeft' = 0
  BY DEF ReadsLeft
<1>5. ASSUME at' = at, held' = held, ahead # {}, ahead' = ahead \ {Min(ahead)}
      PROVE  ReadsLeft' < ReadsLeft
  <2>1. ahead \subseteq Nat
    BY <1>2 DEF Positions
  <2>2. Min(ahead) \in ahead
    BY <1>5, <2>1, MinIsLeast
  <2>3. Cardinality(ahead') = Cardinality(ahead) - 1
    BY <1>2, <1>5, <2>2, FS_RemoveElement
  <2>4. ReadsLeft' = 2 * Cardinality(ahead') + 1
    BY <1>1, <1>5 DEF ReadsLeft
  <2> QED
    BY <1>2, <1>3, <2>3, <2>4
<1>6. ReadsLeft' < ReadsLeft
  BY <1>1, <1>2, <1>3, <1>4, <1>5
<1>7. BlocksLeft' = BlocksLeft
  BY <1>1 DEF BlocksLeft
<1>8. Running /\ Running' /\ at # "load" /\ at' # "load"
  BY <1>1 DEF Running
<1> QED
  BY <1>1, <1>6, <1>7, <1>8, GoingOnWearsDown

\* A block that was written is behind the loader.
LEMMA TakingWearsDown ==
  ASSUME TypeOK, TakeResults
  PROVE  LessLeft
<1>1. at = "read" /\ aborted' = aborted
  BY DEF TakeResults
<1>2. LoadEnds(aborted) \/ (current' = current + 1 /\ at' \in {"ending", "reading"})
  BY DEF TakeResults
<1>3. CASE LoadEnds(aborted)
  BY <1>1, <1>3, EndingWearsDown DEF Running
<1>4. CASE current' = current + 1 /\ at' \in {"ending", "reading"}
  <2>1. current \in Nat /\ NoBlock \in Nat
    BY Durations DEF TypeOK
  <2>2. BlocksLeft' < BlocksLeft
    BY <1>4, <2>1 DEF BlocksLeft
  <2>3. Running /\ Running' /\ at # "load" /\ at' # "load"
    BY <1>1, <1>4 DEF Running
  <2> QED
    BY <1>1, <2>2, <2>3, GoingOnWearsDown
<1> QED
  BY <1>2, <1>3, <1>4

\* The next cursor goes on behind the last one.
LEMMA CursorWearsDown ==
  ASSUME TypeOK, CursorEnded
  PROVE  LessLeft
<1>1. at = "ending" /\ aborted' = aborted
  BY DEF CursorEnded
<1>2. CASE LoadEnds(aborted)
  BY <1>1, <1>2, EndingWearsDown DEF Running
<1>3. CASE OpenCursor(current, loading) /\ Needy(current, loading) # {}
  <2>1. /\ at' = "reading" /\ held' = 0 /\ current' = Min(Needy(current, loading))
        /\ ahead' \in Positions
    BY <1>3 DEF OpenCursor, Positions
  <2>2. current \in Nat /\ NoBlock \in Nat
    BY Durations DEF TypeOK
  <2>3. current' \in Nat /\ current' >= current
    <3>1. /\ Needy(current, loading) \subseteq Nat
          /\ \A n \in Needy(current, loading) : n >= current
      BY Durations DEF Needy
    <3> QED
      BY <1>3, <2>1, <3>1, MinIsLeast
  <2>4. BlocksLeft' < BlocksLeft \/ BlocksLeft' = BlocksLeft
    <3>0. BlocksLeft = NoBlock - current /\ BlocksLeft' = NoBlock - current'
      BY DEF BlocksLeft
    <3>1. current' > current => BlocksLeft' < BlocksLeft
      <4>1. \A m, n, k \in Nat : n > m => k - n < k - m
        OBVIOUS
      <4>2. current \in Nat /\ current' \in Nat /\ NoBlock \in Nat
        BY <2>2, <2>3
      <4>3. current' > current => NoBlock - current' < NoBlock - current
        BY <4>1, <4>2
      <4> QED
        BY <3>0, <4>3
    <3>2. current' = current => BlocksLeft' = BlocksLeft
      BY DEF BlocksLeft
    <3>3. current' > current \/ current' = current
      BY <2>2, <2>3
    <3> QED
      BY <3>1, <3>2, <3>3
  <2>5. Cardinality(ahead') \in 0..Len(Log) /\ Len(Log) \in Nat
    BY <2>1, AheadCounts, LogTypes
  <2>6. ReadsLeft = 2 * Len(Log) + 2
    BY <1>1 DEF ReadsLeft
  <2>7. ReadsLeft' = 2 * Cardinality(ahead') + 1
    BY <2>1 DEF ReadsLeft
  <2>8. ReadsLeft' < ReadsLeft
    BY <2>5, <2>6, <2>7
  <2>9. Running /\ Running' /\ at # "load" /\ at' # "load"
    BY <1>1, <2>1 DEF Running
  <2> QED
    BY <1>1, <2>4, <2>8, <2>9, GoingOnWearsDown
<1> QED
  BY <1>2, <1>3 DEF CursorEnded

\* The safety half of LoadingRests: between two changes of the topics every step of the loader
\* is nearer to the end of a load; it is never sent back to a block or a result it had.
THEOREM LoadsAreFinite == Spec => LoadingWearsDown
<1>1. ASSUME IInv, Advance
      PROVE  LessLeft
  <2>1. TypeOK
    BY <1>1 DEF IInv, DataInv
  <2>2. CASE SourceRejects
    <3>1. at = "reading" /\ at' = "failed"
      BY <2>2 DEF SourceRejects
    <3> QED
      BY <2>1, <3>1, EndingWearsDown DEF Running
  <2> QED
    BY <1>1, <2>1, <2>2, LoadWearsDown, ReadHeldWearsDown, ReadNextWearsDown, AbortedWearsDown,
       TakingWearsDown, CursorWearsDown DEF Advance
<1>2. IInv /\ [Next]_vars => [Advance => LessLeft]_vars
  BY <1>1
<1> QED
  BY <1>2, Invariance, PTL DEF Spec, LoadingWearsDown
=============================================================================
