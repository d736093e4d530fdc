-------------------------------- MODULE Sums --------------------------------
(***************************************************************************)
(* The laws of MapThenSumSet over a finite set, for the modules that add   *)
(* lamports up.  A fold is a recursive function over the subsets of the    *)
(* set, so each law is an induction over them; the least counterexample    *)
(* replaces the induction theorems of the library, which take the formula  *)
(* to be proved as a parameter.                                            *)
(***************************************************************************)
EXTENDS Integers, FiniteSets, FiniteSetsExt, FiniteSetTheorems, TLAPS

\* What w adds up to over S.
SumOver(w, S) == MapThenSumSet(LAMBDA x : w[x], S)

\* A set of numbers has a least one.
LEMMA LeastNumber ==
    ASSUME NEW B \in SUBSET Nat, B # {}
    PROVE  \E m \in B : \A n \in B : m <= n
<1> DEFINE R == OpToRel(<, Nat)
<1>1. IsWellFoundedOn(R, Nat)
  BY NatLessThanWellFounded
<1>2. \A x, y \in Nat : <<x, y>> \in R <=> x < y
  BY DEF OpToRel
<1> HIDE DEF R
<1>3. \E x \in B : \A y \in B : ~ (<<y, x>> \in R)
  BY <1>1, WFMin, Zenon
<1>4. PICK m \in B : \A n \in B : ~ (<<n, m>> \in R)
  BY <1>3
<1>5. ASSUME NEW n \in B
      PROVE  m <= n
  <2>1. m \in Nat /\ n \in Nat
    OBVIOUS
  <2>2. ~ (n < m)
    BY <1>2, <1>4, <2>1
  <2>3. QED
    BY <2>1, <2>2
<1>6. QED
  BY <1>5

\* A set of subsets of a finite set has a minimal one.
LEMMA SmallestSubset ==
    ASSUME NEW S, IsFiniteSet(S), NEW B \in SUBSET SUBSET S, B # {}
    PROVE  \E T \in B : \A U \in B : U \subseteq T => U = T
<1> DEFINE R == StrictSubsetOrdering(S)
<1>1. IsWellFoundedOn(R, FiniteSubsetsOf(S)) /\ FiniteSubsetsOf(S) = SUBSET S
  BY FS_StrictSubsetOrderingWellFounded, FS_FiniteSubsetsOfFinite, Zenon
<1>2. \A U, T \in SUBSET S : <<U, T>> \in R <=> U \subseteq T /\ U # T
  BY DEF StrictSubsetOrdering
<1> HIDE DEF R
<1>3. \E x \in B : \A y \in B : ~ (<<y, x>> \in R)
  BY <1>1, WFMin, Zenon
<1>4. QED
  BY <1>2, <1>3

-----------------------------------------------------------------------------
\* f is the fold of w over the subsets of S.
IsFold(f, w, S) ==
    f = [s \in SUBSET S |-> IF s = {} THEN 0
                            ELSE LET x == CHOOSE x \in s : TRUE
                                 IN  w[x] + f[s \ {x}]]

\* The folds over a set and over a part of it agree on the part.
LEMMA FoldIsUnique ==
    ASSUME NEW S, IsFiniteSet(S), NEW w, NEW f, NEW g, NEW T \in SUBSET S,
           IsFold(f, w, S), IsFold(g, w, T)
    PROVE  \A U \in SUBSET T : f[U] = g[U]
<1> SUFFICES ASSUME NEW W \in SUBSET T, f[W] # g[W]
             PROVE  FALSE
  OBVIOUS
<1> DEFINE B == {U \in SUBSET T : f[U] # g[U]}
<1>1. IsFiniteSet(T)
  BY FS_Subset
<1>2. PICK U \in B : \A V \in B : V \subseteq U => V = U
  <2>1. B \in SUBSET SUBSET T /\ B # {}
    OBVIOUS
  <2> HIDE DEF B
  <2>2. QED
    BY <1>1, <2>1, SmallestSubset
<1>3. U # {}
  BY DEF IsFold
<1> DEFINE x == CHOOSE x \in U : TRUE
<1>4. x \in U
  BY <1>3
<1>5. f[U] = w[x] + f[U \ {x}] /\ g[U] = w[x] + g[U \ {x}]
  BY <1>3 DEF IsFold
<1>6. f[U \ {x}] = g[U \ {x}]
  BY <1>2, <1>4
<1>7. QED
  BY <1>5, <1>6

\* There is such a function: it is extended from the sets of up to n - 1
\* elements to those of n.
LEMMA FoldExists ==
    ASSUME NEW S, IsFiniteSet(S), NEW w
    PROVE  \E f : IsFold(f, w, S)
<1> DEFINE
      Small(n) == {s \in SUBSET S : Cardinality(s) <= n}
      Upto(f, n) == f = [s \in Small(n) |->
                            IF s = {} THEN 0
                            ELSE LET x == CHOOSE x \in s : TRUE
                                 IN  w[x] + f[s \ {x}]]
      B == {n \in Nat : ~ \E f : Upto(f, n)}
<1>1. \A s \in SUBSET S : IsFiniteSet(s) /\ Cardinality(s) \in Nat
  BY FS_Subset, FS_CardinalityType
<1>2. B = {}
  <2> SUFFICES ASSUME B # {}
               PROVE  FALSE
    OBVIOUS
  <2>1. PICK n \in B : \A m \in B : n <= m
    <3>1. B \in SUBSET Nat
      OBVIOUS
    <3> HIDE DEF B
    <3>2. QED
      BY <3>1, LeastNumber
  <2>2. n # 0
    <3>1. Small(0) = {{}}
      BY <1>1, FS_EmptySet
    <3>2. \E f : Upto(f, 0)
      <4> DEFINE z == [s \in Small(0) |-> 0]
                 y == [s \in Small(0) |-> IF s = {} THEN 0
                                          ELSE LET x == CHOOSE x \in s : TRUE
                                               IN  w[x] + z[s \ {x}]]
      <4>1. \A s \in Small(0) : s = {}
        BY <3>1
      <4>2. z = y
        BY <4>1
      <4>3. Upto(z, 0)
        BY <4>2
      <4> HIDE DEF z
      <4>4. QED
        BY <4>3
    <3>3. ~ \E f : Upto(f, n)
      BY <2>1
    <3> HIDE DEF Upto
    <3>4. QED
      BY <3>2, <3>3
  <2>a. n \in Nat
    BY <2>1
  <2>3. n - 1 \in Nat /\ ~(n <= n - 1)
    BY <2>2, <2>a
  <2>b. n - 1 \notin B
    BY <2>1, <2>3
  <2>4. PICK f : Upto(f, n - 1)
    BY <2>3, <2>b
  <2> DEFINE g == [s \in Small(n) |->
                            IF s = {} THEN 0
                            ELSE LET x == CHOOSE x \in s : TRUE
                                 IN  w[x] + f[s \ {x}]]
  <2>5. \A s \in Small(n - 1) : s \in Small(n) /\ g[s] = f[s]
    <3>1. \A s \in Small(n - 1) : s \in Small(n)
      <4>1. \A k \in Nat : k <= n - 1 => k <= n
        BY <2>a
      <4>2. QED
        BY <1>1, <4>1
    <3>2. QED
      BY <2>4, <3>1
  <2>6. \A s \in Small(n) : s # {} =>
           LET x == CHOOSE x \in s : TRUE IN s \ {x} \in Small(n - 1)
    <3> SUFFICES ASSUME NEW s \in Small(n), s # {}
                 PROVE  s \ {CHOOSE x \in s : TRUE} \in Small(n - 1)
      OBVIOUS
    <3> DEFINE x == CHOOSE x \in s : TRUE
    <3>1. x \in s
      OBVIOUS
    <3> HIDE DEF x
    <3>2. Cardinality(s \ {x}) = Cardinality(s) - 1
      BY <1>1, <3>1, FS_RemoveElement
    <3>3. QED
      BY <1>1, <2>3, <3>2 DEF x
  <2>7. Upto(g, n)
    <3>1. \A s \in Small(n) : s # {} =>
             g[s \ {CHOOSE x \in s : TRUE}] = f[s \ {CHOOSE x \in s : TRUE}]
      BY <2>5, <2>6
    <3> DEFINE h == [s \in Small(n) |->
                            IF s = {} THEN 0
                            ELSE LET x == CHOOSE x \in s : TRUE
                                 IN  w[x] + g[s \ {x}]]
    <3>2. ASSUME NEW s \in Small(n)
          PROVE  g[s] = h[s]
      <4> DEFINE x == CHOOSE x \in s : TRUE
      <4>1. CASE s = {}
        BY <4>1
      <4>2. CASE s # {}
        <5>1. g[s] = w[x] + f[s \ {x}] /\ h[s] = w[x] + g[s \ {x}]
          BY <4>2
        <5>2. g[s \ {x}] = f[s \ {x}]
          BY <3>1, <4>2
        <5>3. QED
          BY <5>1, <5>2
      <4>3. QED
        BY <4>1, <4>2
    <3>3. g = h
      BY <3>2
    <3>4. QED
      BY <3>3
  <2>8. QED
    BY <2>1, <2>7
<1>3. Cardinality(S) \in Nat
  BY FS_CardinalityType
<1>4. PICK f : Upto(f, Cardinality(S))
  BY <1>2, <1>3
<1>5. Small(Cardinality(S)) = SUBSET S
  BY FS_Subset
<1>6. IsFold(f, w, S)
  BY <1>4, <1>5 DEF IsFold
<1>7. QED
  BY <1>6
\* MapThenSumSet is that function's value.
LEMMA SumIsFold ==
    ASSUME NEW S, IsFiniteSet(S), NEW w, NEW f, IsFold(f, w, S)
    PROVE  SumOver(w, S) = f[S]
<1> DEFINE g == CHOOSE g : g = [s \in SUBSET S |->
                                  IF s = {} THEN 0
                                  ELSE LET x == CHOOSE x \in s : TRUE
                                       IN  w[x] + g[s \ {x}]]
<1>1. SumOver(w, S) = g[S]
  BY DEF SumOver, MapThenSumSet, MapThenFoldSet
<1>2. IsFold(g, w, S)
  BY DEF IsFold
<1>3. QED
  BY <1>1, <1>2, FoldIsUnique
\* Nothing adds up to 0.
LEMMA SumOfNone == \A w : SumOver(w, {}) = 0
<1> SUFFICES ASSUME NEW w
             PROVE  SumOver(w, {}) = 0
  OBVIOUS
<1>1. PICK f : IsFold(f, w, {})
  BY FoldExists, FS_EmptySet
<1>2. SumOver(w, {}) = f[{}]
  BY <1>1, SumIsFold, FS_EmptySet
<1>3. QED
  BY <1>1, <1>2 DEF IsFold

\* Some element can be taken out.
LEMMA SumOfChosen ==
    ASSUME NEW S, IsFiniteSet(S), S # {}, NEW w
    PROVE  \E x \in S : SumOver(w, S) = w[x] + SumOver(w, S \ {x})
<1>1. PICK f : IsFold(f, w, S)
  BY FoldExists
<1> DEFINE x == CHOOSE x \in S : TRUE
<1>2. x \in S
  OBVIOUS
<1>3. SumOver(w, S) = w[x] + f[S \ {x}]
  <2>1. SumOver(w, S) = f[S]
    BY <1>1, SumIsFold
  <2>2. QED
    BY <1>1, <2>1 DEF IsFold
<1> DEFINE T == S \ {x}
<1>4. T \in SUBSET S /\ IsFiniteSet(T)
  BY FS_Subset
<1>5. PICK g : IsFold(g, w, T)
  BY <1>4, FoldExists
<1>6. f[T] = g[T]
  <2> HIDE DEF T
  <2>1. \A U \in SUBSET T : f[U] = g[U]
    BY <1>1, <1>4, <1>5, FoldIsUnique
  <2>2. QED
    BY <2>1
<1>7. SumOver(w, T) = g[T]
  <2> HIDE DEF T
  <2>1. QED
    BY <1>4, <1>5, SumIsFold
<1>8. QED
  BY <1>2, <1>3, <1>6, <1>7

\* Whole numbers add up to a whole number.
LEMMA SumIsWhole ==
    ASSUME NEW S, IsFiniteSet(S), NEW w, \A x \in S : w[x] \in Int
    PROVE  SumOver(w, S) \in Int
<1> DEFINE B == {T \in SUBSET S : SumOver(w, T) \notin Int}
<1> SUFFICES ASSUME B # {}
             PROVE  FALSE
  OBVIOUS
<1>1. PICK T \in B : \A U \in B : U \subseteq T => U = T
  <2>1. B \in SUBSET SUBSET S
    OBVIOUS
  <2> HIDE DEF B
  <2>2. QED
    BY <2>1, SmallestSubset
<1>2. T # {}
  BY SumOfNone
<1>3. PICK x \in T : SumOver(w, T) = w[x] + SumOver(w, T \ {x})
  BY <1>2, SumOfChosen, FS_Subset
<1>4. SumOver(w, T \ {x}) \in Int
  BY <1>1
<1>5. QED
  BY <1>3, <1>4

\* Any element can be taken out.
LEMMA SumOfAny ==
    ASSUME NEW S, IsFiniteSet(S), NEW w, \A x \in S : w[x] \in Int, NEW y \in S
    PROVE  SumOver(w, S) = w[y] + SumOver(w, S \ {y})
<1> DEFINE B == {T \in SUBSET S : \E z \in T : SumOver(w, T) # w[z] + SumOver(w, T \ {z})}
<1> SUFFICES ASSUME B # {}
             PROVE  FALSE
  OBVIOUS
<1>1. PICK T \in B : \A U \in B : U \subseteq T => U = T
  <2>1. B \in SUBSET SUBSET S
    OBVIOUS
  <2> HIDE DEF B
  <2>2. QED
    BY <2>1, SmallestSubset
<1>2. PICK z \in T : SumOver(w, T) # w[z] + SumOver(w, T \ {z})
  BY <1>1
<1>3. \A U \in SUBSET S : IsFiniteSet(U) /\ SumOver(w, U) \in Int
  BY FS_Subset, SumIsWhole
<1>4. PICK x \in T : SumOver(w, T) = w[x] + SumOver(w, T \ {x})
  BY <1>2, <1>3, SumOfChosen
<1>5. x # z
  BY <1>2, <1>4
<1> DEFINE P == T \ {x}
           Q == T \ {z}
           R == (T \ {x}) \ {z}
<1>a. \A U \in SUBSET T : U # T => \A v \in U : SumOver(w, U) = w[v] + SumOver(w, U \ {v})
  BY <1>1
<1>6. SumOver(w, P) = w[z] + SumOver(w, R)
  <2>1. P \in SUBSET T /\ P # T /\ z \in P
    BY <1>5
  <2> HIDE DEF P
  <2>2. SumOver(w, P) = w[z] + SumOver(w, P \ {z})
    BY <1>a, <2>1
  <2>3. QED
    BY <2>2 DEF P
<1>7. SumOver(w, Q) = w[x] + SumOver(w, R)
  <2>1. Q \in SUBSET T /\ Q # T /\ x \in Q /\ Q \ {x} = R
    BY <1>5
  <2> HIDE DEF Q, R
  <2>2. SumOver(w, Q) = w[x] + SumOver(w, Q \ {x})
    BY <1>a, <2>1
  <2>3. QED
    BY <2>1, <2>2
<1>8. SumOver(w, R) \in Int /\ w[x] \in Int /\ w[z] \in Int
  BY <1>3
<1>9. SumOver(w, T) = w[z] + SumOver(w, Q)
  BY <1>4, <1>6, <1>7, <1>8
<1>10. QED
  BY <1>2, <1>9

LEMMA SumOfOne ==
    ASSUME NEW x, NEW w, w[x] \in Int
    PROVE  SumOver(w, {x}) = w[x]
<1>1. IsFiniteSet({x}) /\ {x} \ {x} = {} /\ \A y \in {x} : w[y] \in Int
  BY FS_Singleton
<1>2. SumOver(w, {x}) = w[x] + SumOver(w, {x} \ {x})
  BY <1>1, SumOfAny
<1>3. QED
  BY <1>1, <1>2, SumOfNone

\* An element more adds what it weighs.
LEMMA SumWithOneMore ==
    ASSUME NEW S, IsFiniteSet(S), NEW y, y \notin S,
           NEW w, \A x \in S \cup {y} : w[x] \in Int
    PROVE  SumOver(w, S \cup {y}) = w[y] + SumOver(w, S)
<1> DEFINE T == S \cup {y}
<1>1. IsFiniteSet(T) /\ T \ {y} = S /\ y \in T
  BY FS_AddElement
<1>2. \A x \in T : w[x] \in Int
  OBVIOUS
<1> HIDE DEF T
<1>3. SumOver(w, T) = w[y] + SumOver(w, T \ {y})
  BY <1>1, <1>2, SumOfAny
<1>4. QED
  BY <1>1, <1>3 DEF T
\* Sets apart from each other add up to the sum of both.
LEMMA SumOfTwo ==
    ASSUME NEW S, NEW T, IsFiniteSet(S), IsFiniteSet(T), S \cap T = {},
           NEW w, \A x \in S \cup T : w[x] \in Int
    PROVE  SumOver(w, S \cup T) = SumOver(w, S) + SumOver(w, T)
<1> DEFINE B == {U \in SUBSET T : SumOver(w, S \cup U) # SumOver(w, S) + SumOver(w, U)}
<1> SUFFICES ASSUME B # {}
             PROVE  FALSE
  OBVIOUS
<1>1. PICK U \in B : \A V \in B : V \subseteq U => V = U
  <2>1. B \in SUBSET SUBSET T
    OBVIOUS
  <2> HIDE DEF B
  <2>2. QED
    BY <2>1, SmallestSubset
<1>2. /\ \A V \in SUBSET T : IsFiniteSet(V) /\ SumOver(w, V) \in Int
      /\ SumOver(w, S) \in Int
  BY FS_Subset, SumIsWhole
<1>3. U # {}
  <2> SUFFICES ASSUME U = {}
               PROVE  FALSE
    OBVIOUS
  <2>1. SumOver(w, U) = 0 /\ S \cup U = S
    BY SumOfNone
  <2>2. SumOver(w, S \cup U) # SumOver(w, S) + SumOver(w, U)
    BY <1>1
  <2>3. QED
    BY <1>2, <2>1, <2>2
<1>4. PICK x \in U : TRUE
  BY <1>3
<1> DEFINE V == U \ {x}
<1>5. SumOver(w, S \cup V) = SumOver(w, S) + SumOver(w, V)
  <2>1. V \in SUBSET T /\ V # U /\ V \subseteq U
    BY <1>4
  <2>2. V \notin B
    BY <1>1, <2>1
  <2>3. QED
    BY <2>1, <2>2
<1>6. SumOver(w, U) = w[x] + SumOver(w, V)
  BY <1>2, <1>4, SumOfAny
<1>7. SumOver(w, S \cup U) = w[x] + SumOver(w, S \cup V)
  <2> DEFINE A == S \cup V
  <2>1. IsFiniteSet(A) /\ x \notin A /\ S \cup U = A \cup {x}
        /\ \A z \in A \cup {x} : w[z] \in Int
    BY <1>2, <1>4, FS_Union
  <2> HIDE DEF A
  <2>2. SumOver(w, A \cup {x}) = w[x] + SumOver(w, A)
    BY <2>1, SumWithOneMore
  <2>3. QED
    BY <2>1, <2>2 DEF A
<1>8. SumOver(w, V) \in Int /\ w[x] \in Int
  BY <1>2, <1>4
<1>9. QED
  BY <1>1, <1>2, <1>5, <1>6, <1>7, <1>8

\* Equal weights add up to the same.
LEMMA SumOfSame ==
    ASSUME NEW S, IsFiniteSet(S), NEW v, NEW w,
           \A x \in S : w[x] \in Int /\ v[x] = w[x]
    PROVE  SumOver(v, S) = SumOver(w, S)
<1> DEFINE B == {T \in SUBSET S : SumOver(v, T) # SumOver(w, T)}
<1> SUFFICES ASSUME B # {}
             PROVE  FALSE
  OBVIOUS
<1>1. PICK T \in B : \A U \in B : U \subseteq T => U = T
  <2>1. B \in SUBSET SUBSET S
    OBVIOUS
  <2> HIDE DEF B
  <2>2. QED
    BY <2>1, SmallestSubset
<1>2. T # {}
  BY SumOfNone
<1>3. PICK x \in T : TRUE
  BY <1>2
<1>4. SumOver(v, T) = v[x] + SumOver(v, T \ {x}) /\ SumOver(w, T) = w[x] + SumOver(w, T \ {x})
  <2>1. IsFiniteSet(T) /\ \A z \in T : w[z] \in Int /\ v[z] \in Int
    BY FS_Subset
  <2>2. QED
    BY <1>3, <2>1, SumOfAny
<1>5. SumOver(v, T \ {x}) = SumOver(w, T \ {x})
  BY <1>1, <1>3
<1>6. QED
  BY <1>3, <1>4, <1>5

\* Nothing negative adds up to nothing negative.
LEMMA SumIsNatural ==
    ASSUME NEW S, IsFiniteSet(S), NEW w, \A x \in S : w[x] \in Nat
    PROVE  SumOver(w, S) \in Nat
<1> DEFINE B == {T \in SUBSET S : SumOver(w, T) \notin Nat}
<1> SUFFICES ASSUME B # {}
             PROVE  FALSE
  OBVIOUS
<1>1. PICK T \in B : \A U \in B : U \subseteq T => U = T
  <2>1. B \in SUBSET SUBSET S
    OBVIOUS
  <2> HIDE DEF B
  <2>2. QED
    BY <2>1, SmallestSubset
<1>2. T # {}
  BY SumOfNone
<1>3. PICK x \in T : SumOver(w, T) = w[x] + SumOver(w, T \ {x})
  BY <1>2, SumOfChosen, FS_Subset
<1>4. SumOver(w, T \ {x}) \in Nat
  BY <1>1
<1>5. QED
  BY <1>3, <1>4

\* A part weighs no more than the whole.
LEMMA SumOfFewer ==
    ASSUME NEW S, NEW T, IsFiniteSet(T), S \subseteq T,
           NEW w, \A x \in T : w[x] \in Nat
    PROVE  SumOver(w, S) <= SumOver(w, T)
<1> DEFINE R == T \ S
<1>1. IsFiniteSet(S) /\ IsFiniteSet(R) /\ S \cap R = {} /\ S \cup R = T
  BY FS_Subset
<1>2. \A x \in S \cup R : w[x] \in Int
  OBVIOUS
<1>3. SumOver(w, S) \in Nat /\ SumOver(w, R) \in Nat
  BY <1>1, SumIsNatural
<1> HIDE DEF R
<1>4. SumOver(w, S \cup R) = SumOver(w, S) + SumOver(w, R)
  BY <1>1, <1>2, SumOfTwo
<1>5. SumOver(w, T) = SumOver(w, S) + SumOver(w, R)
  BY <1>1, <1>4
<1>6. \A i, j \in Nat : i <= i + j
  OBVIOUS
<1>7. QED
  BY <1>3, <1>5, <1>6

\* Nothing but zeros.
LEMMA SumOfZeros ==
    ASSUME NEW S, IsFiniteSet(S), NEW w, \A x \in S : w[x] = 0
    PROVE  SumOver(w, S) = 0
<1> DEFINE B == {T \in SUBSET S : SumOver(w, T) # 0}
<1> SUFFICES ASSUME B # {}
             PROVE  FALSE
  OBVIOUS
<1>1. PICK T \in B : \A U \in B : U \subseteq T => U = T
  <2>1. B \in SUBSET SUBSET S
    OBVIOUS
  <2> HIDE DEF B
  <2>2. QED
    BY <2>1, SmallestSubset
<1>2. T \in SUBSET S /\ IsFiniteSet(T) /\ SumOver(w, T) # 0
  BY FS_Subset
<1>3. T # {}
  BY <1>2, SumOfNone
<1>4. PICK x \in T : SumOver(w, T) = w[x] + SumOver(w, T \ {x})
  BY <1>2, <1>3, SumOfChosen
<1>5. SumOver(w, T \ {x}) = 0
  BY <1>1, <1>2
<1>6. QED
  BY <1>2, <1>4, <1>5

\* What a set of records adds up to.
LEMMA SumOfLamports ==
    ASSUME NEW E, IsFiniteSet(E)
    PROVE  MapThenSumSet(LAMBDA e : e.lamports, E) = SumOver([e \in E |-> e.lamports], E)
<1> DEFINE w == [e \in E |-> e.lamports]
           f == CHOOSE f : f = [s \in SUBSET E |->
                                  IF s = {} THEN 0
                                  ELSE LET x == CHOOSE x \in s : TRUE
                                       IN  x.lamports + f[s \ {x}]]
<1>1. MapThenSumSet(LAMBDA e : e.lamports, E) = f[E]
  BY DEF MapThenSumSet, MapThenFoldSet
<1>2. IsFold(f, w, E)
  <2>1. PICK g : IsFold(g, w, E)
    BY FoldExists
  <2>2. \A h : [s \in SUBSET E |-> IF s = {} THEN 0
                                  ELSE LET x == CHOOSE x \in s : TRUE
                                       IN  x.lamports + h[s \ {x}]]
             = [s \in SUBSET E |-> IF s = {} THEN 0
                                  ELSE LET x == CHOOSE x \in s : TRUE
                                       IN  w[x] + h[s \ {x}]]
    <3> TAKE h
    <3>1. ASSUME NEW s \in SUBSET E, s # {}
          PROVE  w[CHOOSE x \in s : TRUE] = (CHOOSE x \in s : TRUE).lamports
      <4> DEFINE x == CHOOSE x \in s : TRUE
      <4>1. x \in s
        BY <3>1
      <4> HIDE DEF x
      <4>2. w[x] = x.lamports
        BY <4>1
      <4>3. QED
        BY <4>2 DEF x
    <3>2. QED
      BY <3>1
  <2> DEFINE Body(h) == [s \in SUBSET E |-> IF s = {} THEN 0
                                  ELSE LET x == CHOOSE x \in s : TRUE
                                       IN  x.lamports + h[s \ {x}]]
  <2>3. g = Body(g)
    BY <2>1, <2>2 DEF IsFold
  <2>4. f = Body(f)
    BY <2>3
  <2>5. QED
    BY <2>2, <2>4 DEF IsFold
<1>3. QED
  BY <1>1, <1>2, SumIsFold

-----------------------------------------------------------------------------
(***************************************************************************)
(* Max and Min of a few numbers, and division that rounds up.              *)
(***************************************************************************)
LEMMA MaxOfTwo ==
    ASSUME NEW a \in Int, NEW b \in Int
    PROVE  Max({a, b}) \in {a, b} /\ Max({a, b}) >= a /\ Max({a, b}) >= b
<1>1. \E x \in {a, b} : \A y \in {a, b} : x >= y
  BY a >= b \/ b >= a
<1>2. Max({a, b}) \in {a, b} /\ \A y \in {a, b} : Max({a, b}) >= y
  BY <1>1 DEF Max
<1>3. QED
  BY <1>2

LEMMA MaxOfThree ==
    ASSUME NEW a \in Int, NEW b \in Int, NEW c \in Int
    PROVE  /\ Max({a, b, c}) \in {a, b, c}
           /\ Max({a, b, c}) >= a /\ Max({a, b, c}) >= b /\ Max({a, b, c}) >= c
<1>1. \E x \in {a, b, c} : \A y \in {a, b, c} : x >= y
  BY (a >= b /\ a >= c) \/ (b >= a /\ b >= c) \/ (c >= a /\ c >= b)
<1>2. Max({a, b, c}) \in {a, b, c} /\ \A y \in {a, b, c} : Max({a, b, c}) >= y
  BY <1>1 DEF Max
<1>3. QED
  BY <1>2

LEMMA MinOfTwo ==
    ASSUME NEW a \in Int, NEW b \in Int
    PROVE  Min({a, b}) \in {a, b} /\ Min({a, b}) <= a /\ Min({a, b}) <= b
<1>1. \E x \in {a, b} : \A y \in {a, b} : x <= y
  BY a <= b \/ b <= a
<1>2. Min({a, b}) \in {a, b} /\ \A y \in {a, b} : Min({a, b}) <= y
  BY <1>1 DEF Min
<1>3. QED
  BY <1>2

\* More units at the same price cost no less, when the fee is rounded up.
LEMMA RoundedUp ==
    ASSUME NEW a \in Nat, NEW b \in Nat, a <= b, NEW n \in Nat \ {0}
    PROVE  /\ (a + n - 1) \div n \in Nat
           /\ (a + n - 1) \div n <= (b + n - 1) \div n
<1>1. QED
  OBVIOUS

LEMMA ProductsKeepOrder ==
    ASSUME NEW a \in Nat, NEW b \in Nat, a <= b, NEW n \in Nat
    PROVE  a * n \in Nat /\ a * n <= b * n
<1>1. QED
  OBVIOUS
=============================================================================
