----------------------------- MODULE FoldProofs -----------------------------
(***************************************************************************)
(* Induction and folds, for the modules that prove something of a sum or   *)
(* of a loop over a sequence.  An induction is over a set, the members of  *)
(* which have what is to be shown: it comes of the well-foundedness of <   *)
(* on the naturals by WFMin.                                               *)
(***************************************************************************)
EXTENDS Integers, FiniteSets, Lists, FiniteSetTheorems, WellFoundedInduction,
        TLAPS

(* A set with 0, and with n + 1 if it has n, has every natural number.     *)
LEMMA NatSet ==
    ASSUME NEW S, 0 \in S, \A n \in S \cap Nat : n + 1 \in S
    PROVE  Nat \subseteq S
  <1> DEFINE R == OpToRel(<, Nat)
             T == Nat \ S
  <1> SUFFICES ASSUME T # {} PROVE FALSE
    OBVIOUS
  <1>1. IsWellFoundedOn(R, Nat)
    BY NatLessThanWellFounded
  <1>2. \A x, y \in Nat : y < x => <<y, x>> \in R
    BY DEF OpToRel
  <1>3. T \subseteq Nat /\ 0 \notin T /\ \A n \in Nat : n \notin T => n + 1 \notin T
    OBVIOUS
  <1> HIDE DEF R, T
  <1>4. PICK x \in T : \A y \in T : ~ (<<y, x>> \in R)
    BY <1>1, <1>3, WFMin
  <1>5. x \in Nat /\ x # 0
    BY <1>3, <1>4
  <1>6. x - 1 \in Nat /\ x - 1 < x /\ x = (x - 1) + 1
    BY <1>5
  <1>7. x - 1 \notin T
    BY <1>2, <1>4, <1>5, <1>6
  <1>8. (x - 1) + 1 \notin T
    BY <1>3, <1>6, <1>7
  <1> QED
    BY <1>6, <1>8

LEMMA LeastNat ==
    ASSUME NEW S \in SUBSET Nat, S # {}
    PROVE  \E d \in S : \A e \in S : d <= e
  <1> DEFINE R == OpToRel(<, Nat)
  <1>1. IsWellFoundedOn(R, Nat)
    BY NatLessThanWellFounded
  <1>2. \A x, y \in Nat : y < x => <<y, x>> \in R
    BY DEF OpToRel
  <1> HIDE DEF R
  <1>3. PICK x \in S : \A y \in S : ~ (<<y, x>> \in R)
    BY <1>1, WFMin
  <1>4. \A y \in S : ~ (y < x) /\ y \in Nat /\ x \in Nat
    BY <1>2, <1>3
  <1> QED
    BY <1>4

LEMMA SubsetSize ==
    ASSUME NEW S, IsFiniteSet(S), NEW T \in SUBSET S
    PROVE  /\ IsFiniteSet(T) /\ Cardinality(T) \in Nat
           /\ Cardinality(T) <= Cardinality(S)
           /\ T = {} <=> Cardinality(T) = 0
           /\ \A x \in T : /\ T \ {x} \in SUBSET S
                           /\ Cardinality(T \ {x}) = Cardinality(T) - 1
  BY FS_Subset, FS_CardinalityType, FS_EmptySet, FS_RemoveElement

(* P has a set if it has every set with one member less.                   *)
Progressive(P, S) ==
    \A T \in SUBSET S : (\A x \in T : T \ {x} \in P) => T \in P

LEMMA SubsetInduction ==
    ASSUME NEW S, IsFiniteSet(S), NEW P, Progressive(P, S)
    PROVE  SUBSET S \subseteq P
  <1> DEFINE G == {n \in Nat : \A T \in SUBSET S : Cardinality(T) <= n => T \in P}
  <1>1. 0 \in G
    BY SubsetSize DEF Progressive
  <1>2. ASSUME NEW n \in G
        PROVE  n + 1 \in G
    <2>1. ASSUME NEW T \in SUBSET S, Cardinality(T) <= n + 1
          PROVE  T \in P
      <3>1. ASSUME NEW x \in T
            PROVE  T \ {x} \in P
        BY <2>1, <3>1, SubsetSize
      <3> QED
        BY <3>1 DEF Progressive
    <2> QED
      BY <2>1
  <1>3. Nat \subseteq G
    <2> HIDE DEF G
    <2> QED
      BY <1>1, <1>2, NatSet
  <1> QED
    BY <1>3, SubsetSize

(* A function by recursion on subsets exists: the one that takes away the  *)
(* element c[s] and combines what h says of it with the rest.              *)
RecursiveOn(g, S, base, c, h) ==
    /\ g[{}] = base
    /\ \A s \in SUBSET S : s # {} => g[s] = h[<<c[s], g[s \ {c[s]}]>>]

Chooses(c, S) == \A s \in SUBSET S : s # {} => c[s] \in s

LEMMA Recursion ==
    ASSUME NEW S, IsFiniteSet(S), NEW V, NEW base \in V, NEW c, Chooses(c, S),
           NEW h \in [S \X V -> V]
    PROVE  \E g \in [SUBSET S -> V] : RecursiveOn(g, S, base, c, h)
  <1> USE DEF Chooses
  <1> DEFINE Step(g, s) == IF s = {} THEN base ELSE h[<<c[s], g[s \ {c[s]}]>>]
             G == {n \in Nat : \E g \in [SUBSET S -> V] : \A s \in SUBSET S :
                                   Cardinality(s) <= n => g[s] = Step(g, s)}
  <1>1. ASSUME NEW s \in SUBSET S, s # {}
        PROVE  c[s] \in S /\ s \ {c[s]} \in SUBSET S
               /\ Cardinality(s) \in Nat
               /\ Cardinality(s \ {c[s]}) = Cardinality(s) - 1
    BY <1>1, SubsetSize
  <1>2. ASSUME NEW g \in [SUBSET S -> V], NEW s \in SUBSET S
        PROVE  Step(g, s) \in V
    BY <1>1, <1>2
  <1>3. 0 \in G
    <2> DEFINE g == [s \in SUBSET S |-> base]
    <2>1. \A s \in SUBSET S : Cardinality(s) <= 0 => s = {}
      BY SubsetSize
    <2>2. g \in [SUBSET S -> V]
      OBVIOUS
    <2>3. \A s \in SUBSET S : Cardinality(s) <= 0 => g[s] = Step(g, s)
      BY <2>1
    <2> QED
      BY <2>2, <2>3
  <1>4. ASSUME NEW n \in G
        PROVE  n + 1 \in G
    <2>1. PICK g \in [SUBSET S -> V] : \A s \in SUBSET S :
                   Cardinality(s) <= n => g[s] = Step(g, s)
      BY <1>4
    <2> DEFINE g2 == [s \in SUBSET S |-> Step(g, s)]
    <2>2. g2 \in [SUBSET S -> V]
      BY <1>2
    <2>3. ASSUME NEW s \in SUBSET S, Cardinality(s) <= n + 1
          PROVE  g2[s] = Step(g2, s)
      <3>1. CASE s # {}
        <4>1. s \ {c[s]} \in SUBSET S /\ Cardinality(s \ {c[s]}) <= n
          BY <1>1, <2>3, <3>1
        <4>2. g[s \ {c[s]}] = g2[s \ {c[s]}]
          BY <2>1, <4>1
        <4> QED
          BY <3>1, <4>2
      <3> QED
        BY <3>1
    <2> HIDE DEF g2, Step
    <2> QED
      BY <2>2, <2>3
  <1>5. Nat \subseteq G
    <2> HIDE DEF G
    <2> QED
      BY <1>3, <1>4, NatSet
  <1>6. Cardinality(S) \in G
    <2> HIDE DEF G
    <2> QED
      BY <1>5, FS_CardinalityType
  <1>7. PICK g \in [SUBSET S -> V] : \A s \in SUBSET S :
                Cardinality(s) <= Cardinality(S) => g[s] = Step(g, s)
    BY <1>6
  <1>8. \A s \in SUBSET S : g[s] = Step(g, s)
    BY <1>7, SubsetSize
  <1> QED
    BY <1>8 DEF RecursiveOn

-----------------------------------------------------------------------------
(* Sums.                                                                   *)

Summable(f, S) == IsFiniteSet(S) /\ \A x \in S : f[x] \in Int

(* g is what SumFunctionOnSet computes of f on the way, for subsets of S.  *)
Sums(g, f, S) ==
    /\ Summable(f, S)
    /\ \A s \in SUBSET S : /\ g[s] \in Int
                           /\ s = {} => g[s] = 0
                           /\ s # {} => \E x \in s : g[s] = f[x] + g[s \ {x}]

LEMMA SumExists ==
    ASSUME NEW S, NEW f, Summable(f, S)
    PROVE  \E g : Sums(g, f, S) /\ SumFunctionOnSet(f, S) = g[S]
  <1> USE DEF Summable
  <1> DEFINE c == [s \in SUBSET S |-> CHOOSE x \in s : TRUE]
             h == [p \in S \X Int |-> f[p[1]] + p[2]]
             F(g) == [s \in SUBSET S |-> IF s = {} THEN 0 ELSE
                          f[CHOOSE x \in s : TRUE] + g[s \ {CHOOSE x \in s : TRUE}]]
             i == CHOOSE it : it = F(it)
  <1>1. \A s \in SUBSET S : /\ c[s] = CHOOSE x \in s : TRUE
                            /\ s # {} => c[s] \in s
    OBVIOUS
  <1>2. h \in [S \X Int -> Int] /\ \A x \in S, v \in Int : h[<<x, v>>] = f[x] + v
    OBVIOUS
  <1>3. \E g \in [SUBSET S -> Int] : RecursiveOn(g, S, 0, c, h)
    <2>1. Chooses(c, S)
      BY <1>1 DEF Chooses
    <2>2. h \in [S \X Int -> Int] /\ 0 \in Int
      BY <1>2
    <2> HIDE DEF c, h
    <2> QED
      BY <2>1, <2>2, Recursion
  <1>4. PICK g \in [SUBSET S -> Int] :
            /\ g[{}] = 0
            /\ \A s \in SUBSET S : s # {} => g[s] = h[<<c[s], g[s \ {c[s]}]>>]
    BY <1>3 DEF RecursiveOn
  <1>5. ASSUME NEW s \in SUBSET S, s # {}
        PROVE  g[s] = f[c[s]] + g[s \ {c[s]}]
    <2>1. c[s] \in S /\ g[s \ {c[s]}] \in Int
      BY <1>1, <1>5
    <2> HIDE DEF c, h
    <2> QED
      BY <1>2, <1>4, <1>5, <2>1
  <1>6. g = F(g)
    BY <1>1, <1>4, <1>5
  <1>7. i = F(i)
    <2> HIDE DEF F
    <2> QED
      BY <1>6
  <1>8. SumFunctionOnSet(f, S) = i[S]
    BY DEF SumFunctionOnSet, FoldFunctionOnSet, MapThenFoldSet
  <1>9. \A s \in SUBSET S : /\ s = {} => i[s] = 0
                            /\ s # {} => i[s] = f[c[s]] + i[s \ {c[s]}]
    <2>1. \A s \in SUBSET S : F(i)[s] = IF s = {} THEN 0 ELSE f[c[s]] + i[s \ {c[s]}]
      <3> HIDE DEF i
      <3> QED
        OBVIOUS
    <2> HIDE DEF i, F, c
    <2> QED
      BY <1>7, <2>1
  <1> HIDE DEF i
  <1>10. \A s \in SUBSET S : i[s] \in Int
    <2> DEFINE P == {s \in SUBSET S : i[s] \in Int}
    <2>1. ASSUME NEW T \in SUBSET S, \A x \in T : T \ {x} \in P
          PROVE  T \in P
      <3>1. CASE T # {}
        <4>1. c[T] \in T /\ f[c[T]] \in Int
          BY <1>1, <3>1
        <4>2. i[T \ {c[T]}] \in Int
          BY <2>1, <4>1
        <4> HIDE DEF c
        <4> QED
          BY <1>9, <3>1, <4>1, <4>2
      <3>2. CASE T = {}
        <4>1. i[T] = 0
          BY <1>9, <3>2
        <4> QED
          BY <4>1
      <3> QED
        BY <3>1, <3>2
    <2> HIDE DEF P
    <2>2. Progressive(P, S)
      BY <2>1 DEF Progressive
    <2>3. SUBSET S \subseteq P
      BY <2>2, SubsetInduction
    <2> QED
      BY <2>3 DEF P
  <1>11. Sums(i, f, S)
    BY <1>1, <1>9, <1>10 DEF Sums
  <1> QED
    BY <1>8, <1>11

(* Any element may be taken away first.                                    *)
LEMMA SumsTake ==
    ASSUME NEW S, NEW f, NEW g, Sums(g, f, S)
    PROVE  \A T \in SUBSET S : \A x \in T : g[T] = f[x] + g[T \ {x}]
  <1> DEFINE P == {T \in SUBSET S : \A x \in T : g[T] = f[x] + g[T \ {x}]}
  <1>1. ASSUME NEW T \in SUBSET S, \A x \in T : T \ {x} \in P
        PROVE  T \in P
    <2>1. ASSUME NEW x \in T
          PROVE  g[T] = f[x] + g[T \ {x}]
      <3>1. PICK y \in T : g[T] = f[y] + g[T \ {y}]
        BY <2>1 DEF Sums
      <3>2. CASE x # y
        <4>1. y \in T \ {x} /\ x \in T \ {y}
          BY <3>1, <3>2
        <4> DEFINE w == (T \ {x}) \ {y}
        <4>2. g[T \ {x}] = f[y] + g[w]
          BY <1>1, <4>1
        <4>3. g[T \ {y}] = f[x] + g[(T \ {y}) \ {x}]
          BY <1>1, <3>1, <4>1
        <4>4. w = (T \ {y}) \ {x} /\ w \in SUBSET S
          OBVIOUS
        <4>5. f[x] \in Int /\ f[y] \in Int /\ g[w] \in Int
          BY <4>4 DEF Sums, Summable
        <4> HIDE DEF P, w
        <4> QED
          BY <3>1, <4>2, <4>3, <4>4, <4>5
      <3> QED
        BY <3>1, <3>2
    <2> QED
      BY <2>1
  <1>2. SUBSET S \subseteq P
    <2> HIDE DEF P
    <2>1. Progressive(P, S) /\ IsFiniteSet(S)
      BY <1>1 DEF Progressive, Sums, Summable
    <2> QED
      BY <2>1, SubsetInduction
  <1> QED
    BY <1>2

(* A sum depends on what is summed up and on nothing else.                 *)
LEMMA SumsAgree ==
    ASSUME NEW S, NEW f, NEW g, Sums(g, f, S),
           NEW S2, NEW f2, NEW g2, Sums(g2, f2, S2),
           NEW U, U \subseteq S, U \subseteq S2, \A x \in U : f[x] = f2[x]
    PROVE  g[U] = g2[U]
  <1> DEFINE P == {T \in SUBSET U : g[T] = g2[T]}
  <1>1. ASSUME NEW T \in SUBSET U, \A x \in T : T \ {x} \in P
        PROVE  T \in P
    <2>1. T \in SUBSET S /\ T \in SUBSET S2
      OBVIOUS
    <2>2. CASE T = {}
      BY <2>1, <2>2 DEF Sums
    <2>3. CASE T # {}
      <3>1. PICK x \in T : TRUE
        BY <2>3
      <3>2. g[T] = f[x] + g[T \ {x}]
        BY <2>1, SumsTake
      <3>3. g2[T] = f2[x] + g2[T \ {x}]
        BY <2>1, SumsTake
      <3> QED
        BY <1>1, <3>2, <3>3
    <2> QED
      BY <2>2, <2>3
  <1>2. SUBSET U \subseteq P
    <2> HIDE DEF P
    <2>1. Progressive(P, U)
      BY <1>1 DEF Progressive
    <2>2. IsFiniteSet(U)
      BY FS_Subset DEF Sums, Summable
    <2> QED
      BY <2>1, <2>2, SubsetInduction
  <1> QED
    BY <1>2

LEMMA SumType ==
    ASSUME NEW S, NEW f, Summable(f, S)
    PROVE  SumFunctionOnSet(f, S) \in Int
  <1>1. PICK g : Sums(g, f, S) /\ SumFunctionOnSet(f, S) = g[S]
    BY SumExists
  <1> QED
    BY <1>1 DEF Sums

LEMMA SumOfNone ==
    ASSUME NEW f
    PROVE  SumFunctionOnSet(f, {}) = 0
  <1>1. Summable(f, {})
    BY FS_EmptySet DEF Summable
  <1>2. PICK g : Sums(g, f, {}) /\ SumFunctionOnSet(f, {}) = g[{}]
    BY <1>1, SumExists
  <1> QED
    BY <1>2 DEF Sums

LEMMA SumSame ==
    ASSUME NEW S, NEW f, Summable(f, S), NEW f2, \A x \in S : f2[x] = f[x]
    PROVE  SumFunctionOnSet(f2, S) = SumFunctionOnSet(f, S)
  <1>1. PICK g : Sums(g, f, S) /\ SumFunctionOnSet(f, S) = g[S]
    BY SumExists
  <1>2. Summable(f2, S)
    BY DEF Summable
  <1>3. PICK g2 : Sums(g2, f2, S) /\ SumFunctionOnSet(f2, S) = g2[S]
    BY <1>2, SumExists
  <1>4. g2[S] = g[S]
    BY <1>1, <1>3, SumsAgree
  <1> QED
    BY <1>1, <1>3, <1>4

(* What one more element adds.                                             *)
LEMMA SumAdd ==
    ASSUME NEW S, NEW z, z \notin S, NEW f, Summable(f, S \cup {z})
    PROVE  /\ Summable(f, S)
           /\ SumFunctionOnSet(f, S \cup {z}) = SumFunctionOnSet(f, S) + f[z]
  <1> DEFINE U == S \cup {z}
  <1>1. Summable(f, S)
    BY FS_Subset DEF Summable
  <1>2. U \in SUBSET U /\ S \subseteq U /\ z \in U /\ U \ {z} = S /\ Summable(f, U)
    OBVIOUS
  <1> HIDE DEF U
  <1>3. PICK g : Sums(g, f, S) /\ SumFunctionOnSet(f, S) = g[S]
    BY <1>1, SumExists
  <1>4. PICK g2 : Sums(g2, f, U) /\ SumFunctionOnSet(f, U) = g2[U]
    BY <1>2, SumExists
  <1>5. g2[U] = f[z] + g2[S]
    BY <1>2, <1>4, SumsTake
  <1>6. g[S] = g2[S]
    BY <1>2, <1>3, <1>4, SumsAgree
  <1>7. g[S] \in Int /\ f[z] \in Int
    BY <1>2, <1>3 DEF Sums, Summable
  <1> QED
    BY <1>1, <1>3, <1>4, <1>5, <1>6, <1>7 DEF U
(* Less summed up over less is less.                                       *)
AtMost(f, T, g, S) ==
    /\ T \subseteq S
    /\ \A x \in S : g[x] >= 0
    /\ \A x \in T : f[x] \in Int /\ f[x] <= g[x]

LEMMA SumAtMost ==
    ASSUME NEW S, NEW g, Summable(g, S), NEW T, NEW f, AtMost(f, T, g, S)
    PROVE  /\ SumFunctionOnSet(f, T) \in Int /\ SumFunctionOnSet(g, S) \in Int
           /\ SumFunctionOnSet(f, T) <= SumFunctionOnSet(g, S)
  <1>1. Summable(f, T) /\ IsFiniteSet(S)
    BY FS_Subset DEF Summable, AtMost
  <1>2. PICK a : Sums(a, f, T) /\ SumFunctionOnSet(f, T) = a[T]
    BY <1>1, SumExists
  <1>3. PICK b : Sums(b, g, S) /\ SumFunctionOnSet(g, S) = b[S]
    BY SumExists
  <1>4. /\ \A U \in SUBSET T : a[U] \in Int
        /\ \A U \in SUBSET S : b[U] \in Int
        /\ a[{}] = 0 /\ b[{}] = 0
    BY <1>2, <1>3 DEF Sums
  <1>5. ASSUME NEW R \in SUBSET T, NEW y \in R
        PROVE  a[R] = f[y] + a[R \ {y}]
    BY <1>2, SumsTake
  <1>6. ASSUME NEW R \in SUBSET S, NEW y \in R
        PROVE  b[R] = g[y] + b[R \ {y}]
    BY <1>3, SumsTake
  <1> DEFINE P == {U \in SUBSET S : a[U \cap T] <= b[U]}
  <1>7. ASSUME NEW U \in SUBSET S, \A x \in U : U \ {x} \in P
        PROVE  U \in P
    <2>1. CASE U = {}
      <3>1. U \cap T = {}
        BY <2>1
      <3> QED
        BY <1>4, <2>1, <3>1
    <2>2. CASE U # {}
      <3>1. PICK x \in U : TRUE
        BY <2>2
      <3> DEFINE V == U \ {x}
      <3>2. b[U] = g[x] + b[V] /\ b[V] \in Int /\ g[x] \in Int /\ g[x] >= 0
        BY <1>4, <1>6 DEF Summable, AtMost
      <3>3. a[V \cap T] <= b[V] /\ a[V \cap T] \in Int
        BY <1>4, <1>7, <3>1
      <3>4. CASE x \in T
        <4>1. x \in U \cap T /\ (U \cap T) \ {x} = V \cap T /\ U \cap T \in SUBSET T
          BY <3>1, <3>4
        <4> DEFINE W == U \cap T
        <4>2. a[W] = f[x] + a[W \ {x}] /\ f[x] \in Int /\ f[x] <= g[x]
          BY <1>5, <3>4, <4>1 DEF AtMost
        <4>3. a[W] = f[x] + a[V \cap T]
          BY <4>1, <4>2
        <4> HIDE DEF V
        <4>4. a[W] <= b[U]
          BY <3>2, <3>3, <4>2, <4>3
        <4> QED
          BY <4>4
      <3>5. CASE x \notin T
        <4>1. U \cap T = V \cap T
          BY <3>5
        <4>2. a[U \cap T] = a[V \cap T]
          BY <4>1
        <4> HIDE DEF V
        <4>3. a[U \cap T] <= b[U]
          BY <3>2, <3>3, <4>2
        <4> QED
          BY <4>3
      <3> QED
        BY <3>4, <3>5
    <2> QED
      BY <2>1, <2>2
  <1>8. S \in P
    <2> HIDE DEF P
    <2>1. Progressive(P, S)
      BY <1>7 DEF Progressive
    <2> QED
      BY <1>1, <2>1, SubsetInduction
  <1>9. S \cap T = T
    BY DEF AtMost
  <1> QED
    BY <1>2, <1>3, <1>4, <1>8, <1>9

-----------------------------------------------------------------------------
(* Loops over a sequence.                                                  *)

LEMMA PrefixInduction ==
    ASSUME NEW n \in Nat, NEW P, 0 \in P, \A k \in 1..n : k - 1 \in P => k \in P
    PROVE  0..n \subseteq P
  <1> DEFINE G == {k \in Nat : k <= n => k \in P}
  <1>1. 0 \in G
    OBVIOUS
  <1>2. ASSUME NEW k \in G
        PROVE  k + 1 \in G
    <2>1. CASE k + 1 <= n
      <3>1. k + 1 \in 1..n /\ (k + 1) - 1 = k /\ k \in P
        BY <2>1
      <3> QED
        BY <3>1
    <2> QED
      BY <2>1
  <1>3. Nat \subseteq G
    <2> HIDE DEF G
    <2> QED
      BY <1>1, <1>2, NatSet
  <1> QED
    BY <1>3

LEMMA MaxOfSubset ==
    ASSUME NEW n \in Nat, NEW S \in SUBSET (1..n), S # {}
    PROVE  Max(S) \in S /\ \A x \in S : x <= Max(S)
  <1> DEFINE P == {k \in 0..n : (\E x \in S : x > n - k) => \E y \in S : \A x \in S : y >= x}
  <1>1. 0 \in P
    OBVIOUS
  <1>2. ASSUME NEW k \in 1..n, k - 1 \in P
        PROVE  k \in P
    <2>1. ASSUME NEW x \in S, x > n - k, ~ \E z \in S : z > n - (k - 1)
          PROVE  \A z \in S : x >= z
      BY <2>1
    <2> QED
      BY <1>2, <2>1
  <1>3. n \in P
    <2> HIDE DEF P
    <2>1. 0..n \subseteq P
      BY <1>1, <1>2, PrefixInduction
    <2> QED
      BY <2>1
  <1>4. \E x \in S : x > n - n
    <2>1. \A x \in S : x \in Nat /\ x > n - n
      OBVIOUS
    <2> QED
      BY <2>1
  <1>5. \E y \in S : \A x \in S : y >= x
    BY <1>3, <1>4
  <1>6. Max(S) \in S /\ \A x \in S : Max(S) >= x
    BY <1>5 DEF Max
  <1> QED
    BY <1>6

LEMMA MinOfSubset ==
    ASSUME NEW n \in Nat, NEW S \in SUBSET (1..n), S # {}
    PROVE  Min(S) \in S /\ \A x \in S : Min(S) <= x
  <1> DEFINE P == {k \in 0..n : S \cap 1..k # {} => \E y \in S : \A x \in S : y <= x}
  <1>1. 0 \in P
    OBVIOUS
  <1>2. ASSUME NEW k \in 1..n, k - 1 \in P
        PROVE  k \in P
    <2>1. CASE S \cap 1..(k - 1) # {}
      BY <1>2, <2>1
    <2>2. CASE S \cap 1..(k - 1) = {} /\ k \in S
      <3>1. \A x \in S : k <= x
        BY <2>2
      <3> QED
        BY <2>2, <3>1
    <2>3. CASE S \cap 1..(k - 1) = {} /\ k \notin S
      <3>1. S \cap 1..k = {}
        BY <2>3
      <3> QED
        BY <3>1
    <2> QED
      BY <2>1, <2>2, <2>3
  <1>3. n \in P
    <2> HIDE DEF P
    <2>1. 0..n \subseteq P
      BY <1>1, <1>2, PrefixInduction
    <2> QED
      BY <2>1
  <1>4. \E y \in S : \A x \in S : y <= x
    BY <1>3
  <1> QED
    BY <1>4 DEF Min

LEMMA MinOfTwo ==
    ASSUME NEW a \in Int, NEW b \in Int
    PROVE  /\ Min({a, b}) \in Int /\ Min({a, b}) <= a /\ Min({a, b}) <= b
           /\ Min({a, b}) = a \/ Min({a, b}) = b
  <1>1. \E x \in {a, b} : \A y \in {a, b} : x <= y
    BY a <= b \/ b <= a
  <1>2. Min({a, b}) \in {a, b} /\ \A y \in {a, b} : Min({a, b}) <= y
    BY <1>1 DEF Min
  <1> QED
    BY <1>2

LEMMA MaxOfFinite ==
    ASSUME NEW S, S \subseteq Int, IsFiniteSet(S), S # {}
    PROVE  Max(S) \in S /\ \A x \in S : x <= Max(S)
  <1> DEFINE P == {T \in SUBSET S : T # {} => \E y \in T : \A x \in T : y >= x}
  <1>1. ASSUME NEW T \in SUBSET S, \A x \in T : T \ {x} \in P
        PROVE  T \in P
    <2>1. ASSUME NEW z \in T
          PROVE  \E y \in T : \A x \in T : y >= x
      <3>1. CASE T \ {z} = {}
        <4>1. z \in Int /\ \A x \in T : x = z
          BY <3>1
        <4> QED
          BY <4>1
      <3>2. CASE T \ {z} # {}
        <4>1. PICK y \in T \ {z} : \A x \in T \ {z} : y >= x
          BY <1>1, <3>2
        <4>2. z \in Int /\ y \in Int /\ \A x \in T : x \in Int
          OBVIOUS
        <4>3. CASE y >= z
          BY <4>1, <4>3
        <4>4. CASE z > y
          BY <4>1, <4>2, <4>4
        <4> QED
          BY <4>2, <4>3, <4>4
      <3> QED
        BY <3>1, <3>2
    <2> QED
      BY <2>1
  <1>2. S \in P
    <2> HIDE DEF P
    <2>1. Progressive(P, S)
      BY <1>1 DEF Progressive
    <2> QED
      BY <2>1, SubsetInduction
  <1>3. \E y \in S : \A x \in S : y >= x
    BY <1>2
  <1>4. Max(S) \in S /\ \A x \in S : Max(S) >= x
    BY <1>3 DEF Max
  <1> QED
    BY <1>4

LEMMA MaxOfPrefix ==
    ASSUME NEW n \in Nat
    PROVE  /\ 1..0 = {}
           /\ \A k \in 1..n : /\ 1..k \in SUBSET (1..n) /\ 1..k # {}
                             /\ Max(1..k) = k /\ (1..k) \ {k} = 1..(k - 1)
  <1>1. ASSUME NEW k \in 1..n
        PROVE  /\ 1..k \in SUBSET (1..n) /\ 1..k # {}
               /\ Max(1..k) = k /\ (1..k) \ {k} = 1..(k - 1)
    <2>1. 1..k \in SUBSET (1..n) /\ k \in 1..k /\ (1..k) \ {k} = 1..(k - 1)
      OBVIOUS
    <2>2. Max(1..k) \in 1..k /\ \A x \in 1..k : x <= Max(1..k)
      BY <2>1, MaxOfSubset
    <2> QED
      BY <2>1, <2>2
  <1>2. 1..0 = {}
    OBVIOUS
  <1> QED
    BY <1>1, <1>2

(* The tables that a loop fills: by subsets of the indices, as FoldLeft    *)
(* does, and by the number of turns.                                       *)
FoldTable(g, n, base, h, seq) ==
    /\ g[{}] = base
    /\ \A s \in SUBSET (1..n) : s # {} => g[s] = h[<<g[s \ {Max(s)}], seq[Max(s)]>>]

Loop(seq, E, base, h, V) == seq \in Seq(E) /\ base \in V /\ h \in [V \X E -> V]

LEMMA FoldTableExists ==
    ASSUME NEW E, NEW seq, NEW V, NEW base, NEW h, Loop(seq, E, base, h, V)
    PROVE  \E g \in [SUBSET (1..Len(seq)) -> V] : FoldTable(g, Len(seq), base, h, seq)
  <1> USE DEF Loop
  <1> DEFINE n == Len(seq)
             S == 1..n
             c == [s \in SUBSET S |-> Max(s)]
             k == [p \in S \X V |-> h[<<p[2], seq[p[1]]>>]]
  <1>1. n \in Nat /\ IsFiniteSet(S) /\ \A x \in S : seq[x] \in E
    BY FS_Interval
  <1>2. Chooses(c, S)
    BY <1>1, MaxOfSubset DEF Chooses
  <1>3. k \in [S \X V -> V] /\ \A x \in S, v \in V : k[<<x, v>>] = h[<<v, seq[x]>>]
    BY <1>1
  <1>4. \E g \in [SUBSET S -> V] : RecursiveOn(g, S, base, c, k)
    <2> HIDE DEF c, k, S, n
    <2> QED
      BY <1>1, <1>2, <1>3, Recursion
  <1>5. PICK g \in [SUBSET S -> V] : RecursiveOn(g, S, base, c, k)
    BY <1>4
  <1>6. ASSUME NEW s \in SUBSET S, s # {}
        PROVE  g[s] = h[<<g[s \ {Max(s)}], seq[Max(s)]>>]
    <2>1. c[s] = Max(s) /\ Max(s) \in S
      BY <1>1, <1>6, MaxOfSubset
    <2>2. g[s] = k[<<c[s], g[s \ {c[s]}]>>]
      BY <1>5, <1>6 DEF RecursiveOn
    <2>3. g[s \ {Max(s)}] \in V
      OBVIOUS
    <2> HIDE DEF c, k, S
    <2> QED
      BY <1>3, <2>1, <2>2, <2>3
  <1> QED
    BY <1>5, <1>6 DEF FoldTable, RecursiveOn

(* Two tables that a loop fills in the same way are the same.              *)
Alike(i, g, n) ==
    \A s \in SUBSET (1..n) : /\ s = {} => i[s] = g[s]
                             /\ s # {} /\ i[s \ {Max(s)}] = g[s \ {Max(s)}] => i[s] = g[s]

LEMMA SameTable ==
    ASSUME NEW n \in Nat, NEW i, NEW g, Alike(i, g, n)
    PROVE  i[1..n] = g[1..n]
  <1> DEFINE P == {s \in SUBSET (1..n) : i[s] = g[s]}
  <1>1. ASSUME NEW T \in SUBSET (1..n), \A x \in T : T \ {x} \in P
        PROVE  T \in P
    <2>1. CASE T # {}
      <3>1. T \ {Max(T)} \in P
        BY <1>1, <2>1, MaxOfSubset
      <3> QED
        BY <2>1, <3>1 DEF Alike
    <2> QED
      BY <2>1 DEF Alike
  <1>2. 1..n \in P
    <2> HIDE DEF P
    <2>1. Progressive(P, 1..n)
      BY <1>1 DEF Progressive
    <2>2. IsFiniteSet(1..n)
      BY FS_Interval
    <2> QED
      BY <2>1, <2>2, SubsetInduction
  <1> QED
    BY <1>2

(* The values a loop goes through, and the one it ends with.               *)
Turns(t, seq, base, h, V) ==
    /\ t[0] = base /\ base \in V
    /\ \A k \in 1..Len(seq) : t[k] = h[<<t[k-1], seq[k]>>] /\ t[k] \in V

FoldsTo(v, seq, base, h, V) == \E t : Turns(t, seq, base, h, V) /\ v = t[Len(seq)]

LEMMA TableFolds ==
    ASSUME NEW E, NEW seq, NEW V, NEW base, NEW h, Loop(seq, E, base, h, V),
           NEW g \in [SUBSET (1..Len(seq)) -> V], FoldTable(g, Len(seq), base, h, seq)
    PROVE  FoldsTo(g[1..Len(seq)], seq, base, h, V)
  <1> DEFINE n == Len(seq)
             t == [k \in 0..n |-> g[1..k]]
  <1>1. n \in Nat /\ base \in V
    BY DEF Loop
  <1>2. t[0] = base /\ t[n] = g[1..n]
    <2>1. t[0] = g[{}] /\ t[n] = g[1..n]
      BY <1>1, MaxOfPrefix
    <2> QED
      BY <2>1 DEF FoldTable
  <1>3. ASSUME NEW k \in 1..n
        PROVE  t[k] = h[<<t[k-1], seq[k]>>] /\ t[k] \in V
    <2>1. /\ 1..k \in SUBSET (1..n) /\ 1..k # {}
          /\ Max(1..k) = k /\ (1..k) \ {k} = 1..(k - 1)
      BY <1>1, MaxOfPrefix
    <2>2. t[k] = g[1..k] /\ t[k-1] = g[1..(k-1)]
      BY <1>1, <1>3
    <2> HIDE DEF t, n
    <2>3. g[1..k] = h[<<g[1..(k-1)], seq[k]>>]
      BY <2>1 DEF FoldTable, n
    <2>4. g[1..k] \in V
      BY <2>1 DEF n
    <2> QED
      BY <2>2, <2>3, <2>4
  <1> HIDE DEF t
  <1>4. Turns(t, seq, base, h, V)
    BY <1>1, <1>2, <1>3 DEF Turns
  <1> QED
    BY <1>2, <1>4 DEF FoldsTo

LEMMA FoldsToType ==
    ASSUME NEW E, NEW seq \in Seq(E), NEW V, NEW base, NEW h, NEW v,
           FoldsTo(v, seq, base, h, V)
    PROVE  v \in V
  <1>1. Len(seq) \in Nat
    OBVIOUS
  <1>2. Len(seq) = 0 \/ Len(seq) \in 1..Len(seq)
    BY <1>1
  <1> QED
    BY <1>2 DEF FoldsTo, Turns

LEMMA FoldsToNone ==
    ASSUME NEW V, NEW base, NEW h, NEW v, FoldsTo(v, <<>>, base, h, V)
    PROVE  v = base
  BY DEF FoldsTo, Turns

(* What one more element makes of it.                                      *)
LEMMA FoldsToAppend ==
    ASSUME NEW E, NEW seq \in Seq(E), NEW x \in E, NEW V, NEW base, NEW h,
           NEW v, FoldsTo(v, seq, base, h, V),
           NEW w, FoldsTo(w, Append(seq, x), base, h, V)
    PROVE  w = h[<<v, x>>]
  <1> DEFINE n == Len(seq)
             s2 == Append(seq, x)
  <1>1. /\ n \in Nat /\ Len(s2) = n + 1 /\ s2[n + 1] = x
        /\ \A k \in 1..n : s2[k] = seq[k]
    OBVIOUS
  <1> HIDE DEF s2
  <1>2. PICK t : Turns(t, seq, base, h, V) /\ v = t[n]
    BY DEF FoldsTo
  <1>3. PICK u : Turns(u, s2, base, h, V) /\ w = u[n + 1]
    BY <1>1 DEF FoldsTo, s2
  <1> DEFINE P == {k \in 0..n : u[k] = t[k]}
  <1>4. 0 \in P
    BY <1>1, <1>2, <1>3 DEF Turns
  <1>5. ASSUME NEW k \in 1..n, k - 1 \in P
        PROVE  k \in P
    <2>1. k \in 1..Len(s2) /\ u[k-1] = t[k-1] /\ s2[k] = seq[k]
      BY <1>1, <1>5
    <2>2. u[k] = h[<<u[k-1], s2[k]>>]
      BY <1>3, <2>1 DEF Turns
    <2>3. t[k] = h[<<t[k-1], seq[k]>>]
      BY <1>2, <1>5 DEF Turns
    <2> QED
      BY <2>1, <2>2, <2>3
  <1>6. u[n] = t[n]
    <2>1. n \in Nat
      OBVIOUS
    <2> HIDE DEF P, n
    <2>2. 0..n \subseteq P
      BY <2>1, <1>4, <1>5, PrefixInduction
    <2> QED
      BY <2>1, <2>2 DEF P
  <1>7. u[n + 1] = h[<<u[(n + 1) - 1], s2[n + 1]>>]
    BY <1>1, <1>3 DEF Turns
  <1>8. (n + 1) - 1 = n
    BY <1>1
  <1> QED
    BY <1>1, <1>2, <1>3, <1>6, <1>7, <1>8

-----------------------------------------------------------------------------
(* Lists.  What is kept of a list after each of its elements.              *)
Keeping(list, x, S) == IF x \in S THEN Append(list, x) ELSE list
KeepIn(S, E) == [p \in Seq(E) \X E |-> Keeping(p[1], p[2], S)]

LEMMA KeepType ==
    ASSUME NEW E, NEW S
    PROVE  /\ KeepIn(S, E) \in [Seq(E) \X E -> Seq(E)]
           /\ \A v \in Seq(E), e \in E :
                  KeepIn(S, E)[<<v, e>>] = Keeping(v, e, S)
           /\ <<>> \in Seq(E)
  <1>1. \A v \in Seq(E), e \in E : Keeping(v, e, S) \in Seq(E)
    BY DEF Keeping
  <1> DEFINE V == Seq(E)
  <1>2. KeepIn(S, E) = [p \in V \X E |-> Keeping(p[1], p[2], S)]
    BY DEF KeepIn
  <1>3. <<>> \in V /\ \A v \in V, e \in E : Keeping(v, e, S) \in V
    BY <1>1
  <1> HIDE DEF V
  <1>4. \A p \in V \X E : p[1] \in V /\ p[2] \in E
    OBVIOUS
  <1>5. KeepIn(S, E) \in [V \X E -> V]
    BY <1>2, <1>3, <1>4
  <1>6. \A v \in V, e \in E : KeepIn(S, E)[<<v, e>>] = Keeping(v, e, S)
    BY <1>2
  <1> QED
    BY <1>3, <1>5, <1>6 DEF V

LEMMA OnlyFolds ==
    ASSUME NEW E, NEW S, NEW list \in Seq(E)
    PROVE  FoldsTo(Only(list, S), list, <<>>, KeepIn(S, E), Seq(E))
  <1> DEFINE seq == list
             n == Len(seq)
             F(g) == [s \in SUBSET DOMAIN seq |-> IF s = {} THEN <<>> ELSE
                          Keeping(g[s \ {Max(s)}], seq[Max(s)], S)]
             i == CHOOSE it : it = F(it)
  <1>1. Only(list, S) = i[DOMAIN seq]
    BY DEF Only, Keeping, FoldLeft, MapThenFoldSet
  <1>2. /\ seq \in Seq(E) /\ n \in Nat /\ DOMAIN seq = 1..n
        /\ \A x \in 1..n : seq[x] \in E
    OBVIOUS
  <1>3. /\ KeepIn(S, E) \in [Seq(E) \X E -> Seq(E)] /\ <<>> \in Seq(E)
        /\ \A v \in Seq(E), e \in E : KeepIn(S, E)[<<v, e>>] = Keeping(v, e, S)
    BY KeepType
  <1> HIDE DEF seq, n
  <1>4. Loop(seq, E, <<>>, KeepIn(S, E), Seq(E))
    BY <1>2, <1>3 DEF Loop
  <1>5. PICK g \in [SUBSET (1..n) -> Seq(E)] : FoldTable(g, n, <<>>, KeepIn(S, E), seq)
    BY <1>4, FoldTableExists DEF n
  <1>6. g = F(g)
    <2>1. ASSUME NEW s \in SUBSET (1..n), s # {}
          PROVE  g[s] = Keeping(g[s \ {Max(s)}], seq[Max(s)], S)
      <3>1. Max(s) \in 1..n
        BY <1>2, <2>1, MaxOfSubset
      <3>2. seq[Max(s)] \in E /\ g[s \ {Max(s)}] \in Seq(E)
        BY <1>2, <3>1
      <3> QED
        BY <1>3, <1>5, <2>1, <3>2 DEF FoldTable
    <2> QED
      BY <1>2, <1>5, <2>1 DEF FoldTable
  <1>7. i = F(i)
    <2> HIDE DEF F
    <2> QED
      BY <1>6
  <1>8. Alike(i, g, n)
    <2> HIDE DEF i
    <2> QED
      BY <1>2, <1>6, <1>7 DEF Alike
  <1>9. i[1..n] = g[1..n]
    <2> HIDE DEF i
    <2> QED
      BY <1>2, <1>8, SameTable
  <1>10. FoldsTo(g[1..n], seq, <<>>, KeepIn(S, E), Seq(E))
    BY <1>4, <1>5, TableFolds DEF n
  <1> HIDE DEF i
  <1> QED
    BY <1>1, <1>2, <1>9, <1>10 DEF seq

(* k[n] is what is kept of the first n.                                    *)
Keeps(k, list, S, E) ==
    /\ k[0] = <<>>
    /\ \A n \in 1..Len(list) :
          /\ k[n-1] \in Seq(E)
          /\ k[n] = Keeping(k[n-1], list[n], S)

LEMMA OnlyKeeps ==
    ASSUME NEW E, NEW S, NEW list \in Seq(E)
    PROVE  \E k : Keeps(k, list, S, E) /\ Only(list, S) = k[Len(list)]
  <1>1. PICK k : /\ Turns(k, list, <<>>, KeepIn(S, E), Seq(E))
                 /\ Only(list, S) = k[Len(list)]
    BY OnlyFolds DEF FoldsTo
  <1>2. ASSUME NEW n \in 1..Len(list)
        PROVE  /\ k[n-1] \in Seq(E)
               /\ k[n] = Keeping(k[n-1], list[n], S)
    <2>1. n - 1 = 0 \/ n - 1 \in 1..Len(list)
      OBVIOUS
    <2>2. k[n-1] \in Seq(E) /\ list[n] \in E
      <3>1. k[0] \in Seq(E) /\ \A m \in 1..Len(list) : k[m] \in Seq(E)
        BY <1>1 DEF Turns
      <3> QED
        BY <2>1, <3>1
    <2>3. k[n] = KeepIn(S, E)[<<k[n-1], list[n]>>]
      BY <1>1 DEF Turns
    <2> QED
      BY <2>2, <2>3, KeepType
  <1> QED
    BY <1>1, <1>2 DEF Turns, Keeps

LEMMA KeepsStep ==
    ASSUME NEW E, NEW S, NEW list \in Seq(E), NEW k, Keeps(k, list, S, E),
           NEW n \in 1..Len(list)
    PROVE  k[n-1] \in Seq(E) /\ list[n] \in E /\ k[n] = Keeping(k[n-1], list[n], S)
  BY DEF Keeps

LEMMA OnlyType ==
    ASSUME NEW E, NEW S, NEW list \in Seq(E)
    PROVE  Only(list, S) \in Seq(E)
  BY OnlyFolds, FoldsToType

(* The last two, or three, elements of a list.                             *)
LastOf(s, count) == SubSeq(s, Len(s) - count + 1, Len(s))

LEMMA LastTwo ==
    ASSUME NEW E, NEW s \in Seq(E), NEW a \in E, NEW b \in E
    PROVE  /\ Len(Append(Append(s, a), b)) >= 2
           /\ LastOf(Append(Append(s, a), b), 2) = <<a, b>>
  <1> DEFINE all == Append(Append(s, a), b)
             n == Len(s)
             last == SubSeq(all, n + 1, n + 2)
  <1>1. /\ all \in Seq(E) /\ n \in Nat /\ Len(all) = n + 2
        /\ all[n + 1] = a /\ all[n + 2] = b
    OBVIOUS
  <1>2. LastOf(all, 2) = last
    <2>1. Len(all) - 2 + 1 = n + 1
      BY <1>1
    <2> QED
      BY <1>1, <2>1 DEF LastOf
  <1>3. last \in Seq(E) /\ Len(last) = 2 /\ last[1] = all[n + 1] /\ last[2] = all[n + 2]
    <2> HIDE DEF n
    <2> QED
      BY <1>1
  <1>4. Len(all) >= 2 /\ LastOf(all, 2) = <<a, b>>
    <2> HIDE DEF last, n, all
    <2> QED
      BY <1>1, <1>2, <1>3
  <1> QED
    BY <1>4

LEMMA LastThree ==
    ASSUME NEW E, NEW s \in Seq(E), NEW a \in E, NEW b \in E, NEW c \in E
    PROVE  /\ Len(Append(Append(Append(s, a), b), c)) >= 3
           /\ LastOf(Append(Append(Append(s, a), b), c), 3) = <<a, b, c>>
  <1> DEFINE all == Append(Append(Append(s, a), b), c)
             n == Len(s)
             last == SubSeq(all, n + 1, n + 3)
  <1>1. /\ all \in Seq(E) /\ n \in Nat /\ Len(all) = n + 3
        /\ all[n + 1] = a /\ all[n + 2] = b /\ all[n + 3] = c
    <2>1. /\ Append(s, a) \in Seq(E) /\ Append(Append(s, a), b) \in Seq(E)
          /\ Len(Append(Append(s, a), b)) = n + 2
          /\ Append(Append(s, a), b)[n + 1] = a /\ Append(Append(s, a), b)[n + 2] = b
      OBVIOUS
    <2> QED
      BY <2>1
  <1>2. LastOf(all, 3) = last
    <2>1. Len(all) - 3 + 1 = n + 1
      BY <1>1
    <2> QED
      BY <1>1, <2>1 DEF LastOf
  <1>3. /\ last \in Seq(E) /\ Len(last) = 3
        /\ last[1] = all[n + 1] /\ last[2] = all[n + 2] /\ last[3] = all[n + 3]
    <2> HIDE DEF n
    <2> QED
      BY <1>1
  <1>4. Len(all) >= 3 /\ LastOf(all, 3) = <<a, b, c>>
    <2> HIDE DEF last, n, all
    <2> QED
      BY <1>1, <1>2, <1>3
  <1> QED
    BY <1>4

(* A list through a function.                                              *)
Mapped(c, s) == [i \in DOMAIN s |-> c[s[i]]]

IsMap(c, E, G) == c \in [E -> G]

LEMMA MappedAppend ==
    ASSUME NEW E, NEW G, NEW c, IsMap(c, E, G), NEW s \in Seq(E), NEW x \in E
    PROVE  /\ Mapped(c, s) \in Seq(G)
           /\ Mapped(c, Append(s, x)) = Append(Mapped(c, s), c[x])
  <1> DEFINE n == Len(s)
             m == Mapped(c, s)
             s2 == Append(s, x)
             m2 == Mapped(c, s2)
  <1> USE DEF IsMap
  <1>1. /\ n \in Nat /\ DOMAIN s = 1..n /\ s2 \in Seq(E) /\ DOMAIN s2 = 1..(n + 1)
        /\ s2[n + 1] = x /\ \A i \in 1..n : s2[i] = s[i] /\ s[i] \in E
    OBVIOUS
  <1> HIDE DEF n, s2
  <1>2. /\ m = [i \in 1..n |-> c[s[i]]]
        /\ m2 = [i \in 1..(n + 1) |-> c[s2[i]]]
    BY <1>1 DEF Mapped
  <1>3. m \in Seq(G) /\ Len(m) = n
    <2>0. \A e \in E : c[e] \in G
      BY DEF IsMap
    <2> HIDE DEF m, n, s2, m2
    <2>1. \A i \in 1..n : c[s[i]] \in G
      BY <1>1, <2>0
    <2> QED
      BY <1>1, <1>2, <2>1
  <1> HIDE DEF m, m2
  <1>4. Append(m, c[x]) = [i \in 1..(n + 1) |-> IF i \in 1..n THEN m[i] ELSE c[x]]
    <2>1. c[x] \in G
      OBVIOUS
    <2> QED
      BY <1>1, <1>3, <2>1
  <1>5. \A i \in 1..(n + 1) : c[s2[i]] = IF i \in 1..n THEN m[i] ELSE c[x]
    <2>1. \A i \in 1..(n + 1) : i \in 1..n \/ i = n + 1
      BY <1>1
    <2>2. \A i \in 1..n : c[s2[i]] = m[i]
      BY <1>1, <1>2
    <2>3. c[s2[n + 1]] = c[x] /\ n + 1 \notin 1..n
      BY <1>1
    <2> HIDE DEF n, s2
    <2> QED
      BY <2>1, <2>2, <2>3
  <1>6. m2 = Append(m, c[x])
    BY <1>2, <1>4, <1>5
  <1> QED
    BY <1>3, <1>6 DEF m, m2, s2

(* A list after another through a function.                                *)
LEMMA MappedConcat ==
    ASSUME NEW E, NEW G, NEW c, IsMap(c, E, G), NEW s \in Seq(E), NEW t \in Seq(E)
    PROVE  /\ Mapped(c, s) \in Seq(G) /\ Mapped(c, t) \in Seq(G)
           /\ Mapped(c, s \o t) = Mapped(c, s) \o Mapped(c, t)
  <1> DEFINE n == Len(s)
             m == Len(t)
             all == s \o t
             ms == Mapped(c, s)
             mt == Mapped(c, t)
             mall == Mapped(c, all)
             both == ms \o mt
  <1>1. /\ n \in Nat /\ m \in Nat /\ all \in Seq(E) /\ Len(all) = n + m
        /\ DOMAIN s = 1..n /\ DOMAIN t = 1..m /\ DOMAIN all = 1..(n + m)
        /\ \A i \in 1..n : s[i] \in E /\ all[i] = s[i]
        /\ \A i \in 1..m : t[i] \in E
        /\ \A i \in (n + 1)..(n + m) : all[i] = t[i - n]
    OBVIOUS
  <1>2. /\ ms = [i \in 1..n |-> c[s[i]]] /\ mt = [i \in 1..m |-> c[t[i]]]
        /\ mall = [i \in 1..(n + m) |-> c[all[i]]]
    BY <1>1 DEF Mapped
  <1> HIDE DEF n, m, all, ms, mt, mall
  <1>3. \A x \in E : c[x] \in G
    BY DEF IsMap
  <1>4. /\ \A i \in 1..n : c[s[i]] \in G
        /\ \A i \in 1..m : c[t[i]] \in G
    BY <1>1, <1>3
  <1>5. /\ ms \in Seq(G) /\ Len(ms) = n /\ mt \in Seq(G) /\ Len(mt) = m
        /\ \A i \in 1..n : ms[i] = c[s[i]]
        /\ \A i \in 1..m : mt[i] = c[t[i]]
    BY <1>1, <1>2, <1>4
  <1>6. /\ both = [i \in 1..(n + m) |-> both[i]]
        /\ \A i \in 1..n : both[i] = ms[i]
        /\ \A i \in (n + 1)..(n + m) : both[i] = mt[i - n]
    <2> DEFINE joined == both
    <2>0. ms \in Seq(G) /\ mt \in Seq(G)
      BY <1>5
    <2>1. joined \in Seq(G) /\ Len(joined) = Len(ms) + Len(mt)
      BY <2>0
    <2> HIDE DEF joined
    <2>2. joined = [i \in 1..Len(joined) |-> joined[i]]
      BY <2>1
    <2> USE DEF joined
    <2>3. /\ \A i \in 1..Len(ms) : both[i] = ms[i]
          /\ \A i \in (Len(ms) + 1)..(Len(ms) + Len(mt)) : both[i] = mt[i - Len(ms)]
      BY <2>0
    <2> HIDE DEF both
    <2> QED
      BY <1>5, <2>1, <2>2, <2>3
  <1> HIDE DEF both
  <1>7. ASSUME NEW i \in 1..(n + m)
        PROVE  both[i] = c[all[i]]
    <2>1. CASE i \in 1..n
      <3>1. both[i] = ms[i] /\ all[i] = s[i]
        BY <1>1, <1>6, <2>1
      <3>2. ms[i] = c[s[i]]
        BY <1>5, <2>1
      <3> QED
        BY <3>1, <3>2
    <2>2. CASE i \in (n + 1)..(n + m)
      <3> DEFINE j == i - n
      <3>1. both[i] = mt[j] /\ all[i] = t[j]
        BY <1>1, <1>6, <2>2
      <3>2. j \in 1..m
        BY <1>1, <2>2
      <3> HIDE DEF j
      <3> QED
        BY <1>5, <3>1, <3>2
    <2>3. i \in 1..n \/ i \in (n + 1)..(n + m)
      BY <1>1
    <2> QED
      BY <2>1, <2>2, <2>3
  <1>8. both = mall
    BY <1>2, <1>6, <1>7
  <1> QED
    BY <1>5, <1>8 DEF both, mall, ms, mt, all

(* Where the elements of two lists are in their concatenation.            *)
LEMMA ConcatIs ==
    ASSUME NEW E, NEW s \in Seq(E), NEW t \in Seq(E)
    PROVE  /\ DOMAIN (s \o t) = 1..(Len(s) + Len(t))
           /\ \A i \in 1..Len(s) : (s \o t)[i] = s[i]
           /\ \A i \in 1..Len(t) : (s \o t)[Len(s) + i] = t[i]
  <1> DEFINE n == Len(s)
             m == Len(t)
             all == s \o t
  <1>1. /\ n \in Nat /\ m \in Nat /\ DOMAIN all = 1..(n + m)
        /\ \A i \in 1..(n + m) : all[i] = IF i <= n THEN s[i] ELSE t[i - n]
    OBVIOUS
  <1> HIDE DEF n, m, all
  <1>2. \A i \in 1..n : i <= n /\ i \in 1..(n + m)
    BY <1>1
  <1>3. \A i \in 1..m : n + i \in 1..(n + m) /\ ~ (n + i <= n) /\ (n + i) - n = i
    BY <1>1
  <1> QED
    BY <1>1, <1>2, <1>3 DEF n, m, all

(* Lists that are alike give what is alike.                                *)
LEMMA OnlyAlike ==
    ASSUME NEW E, NEW s \in Seq(E), NEW S, NEW F, NEW t \in Seq(F), NEW T,
           NEW G, NEW c, IsMap(c, E, G), NEW d, IsMap(d, F, G),
           Len(s) = Len(t), \A i \in 1..Len(s) : s[i] \in S <=> t[i] \in T,
           \A i \in 1..Len(s) : c[s[i]] = d[t[i]]
    PROVE  Mapped(c, Only(s, S)) = Mapped(d, Only(t, T))
  <1> DEFINE n == Len(s)
  <1>1. PICK k : Keeps(k, s, S, E) /\ Only(s, S) = k[n]
    BY OnlyKeeps
  <1>2. PICK l : Keeps(l, t, T, F) /\ Only(t, T) = l[n]
    BY OnlyKeeps
  <1> DEFINE P == {j \in 0..n : Mapped(c, k[j]) = Mapped(d, l[j])}
  <1>3. 0 \in P
    BY <1>1, <1>2 DEF Keeps, Mapped
  <1>4. ASSUME NEW j \in 1..n, j - 1 \in P
        PROVE  j \in P
    <2> DEFINE v == k[j-1]
               w == l[j-1]
               x == s[j]
               y == t[j]
    <2>1. v \in Seq(E) /\ x \in E /\ k[j] = Keeping(v, x, S)
      BY <1>1, KeepsStep
    <2>2. w \in Seq(F) /\ y \in F /\ l[j] = Keeping(w, y, T)
      <3>1. j \in 1..Len(t)
        OBVIOUS
      <3> QED
        BY <1>2, <3>1, KeepsStep
    <2>3. Mapped(c, v) = Mapped(d, w) /\ c[x] = d[y] /\ (x \in S <=> y \in T)
      BY <1>4
    <2> HIDE DEF v, w, x, y
    <2>4. Mapped(c, Keeping(v, x, S)) = Mapped(d, Keeping(w, y, T))
      <3>1. CASE x \in S
        <4>1. Mapped(c, Append(v, x)) = Append(Mapped(c, v), c[x])
          BY <2>1, MappedAppend
        <4>2. Mapped(d, Append(w, y)) = Append(Mapped(d, w), d[y])
          BY <2>2, MappedAppend
        <4> QED
          BY <2>3, <3>1, <4>1, <4>2 DEF Keeping
      <3>2. CASE x \notin S
        BY <2>3, <3>2 DEF Keeping
      <3> QED
        BY <3>1, <3>2
    <2> QED
      BY <2>1, <2>2, <2>4
  <1>5. n \in P
    <2>1. n \in Nat
      OBVIOUS
    <2> HIDE DEF P, n
    <2>2. 0..n \subseteq P
      BY <2>1, <1>3, <1>4, PrefixInduction
    <2> QED
      BY <2>1, <2>2
  <1> QED
    BY <1>1, <1>2, <1>5

(* One list after another.                                                 *)
LEMMA KeptAfter ==
    ASSUME NEW E, NEW u \in Seq(E), NEW v \in Seq(E), NEW x \in E, NEW S
    PROVE  Keeping(u \o v, x, S) = u \o Keeping(v, x, S)
  BY DEF Keeping

LEMMA OnlyFirst ==
    ASSUME NEW E, NEW a \in Seq(E), NEW b \in Seq(E), NEW S,
           NEW k, Keeps(k, a \o b, S, E)
    PROVE  k[Len(a)] = Only(a, S)
  <1> DEFINE n == Len(a)
             all == a \o b
  <1>1. PICK l : Keeps(l, a, S, E) /\ Only(a, S) = l[n]
    BY OnlyKeeps
  <1>2. /\ n \in Nat /\ all \in Seq(E) /\ 1..n \subseteq 1..Len(all)
        /\ \A j \in 1..n : all[j] = a[j]
    OBVIOUS
  <1> HIDE DEF all
  <1> DEFINE P == {j \in 0..n : k[j] = l[j]}
  <1>3. 0 \in P
    BY <1>1, <1>2 DEF Keeps, all
  <1>4. ASSUME NEW j \in 1..n, j - 1 \in P
        PROVE  j \in P
    <2>1. k[j] = Keeping(k[j-1], all[j], S)
      <3>1. j \in 1..Len(all) /\ Keeps(k, all, S, E)
        BY <1>2 DEF all
      <3> QED
        BY <1>2, <3>1, KeepsStep
    <2>2. l[j] = Keeping(l[j-1], a[j], S)
      BY <1>1, KeepsStep
    <2> QED
      BY <1>2, <1>4, <2>1, <2>2
  <1>5. n \in P
    <2> HIDE DEF P, n
    <2>1. 0..n \subseteq P
      BY <1>2, <1>3, <1>4, PrefixInduction
    <2> QED
      BY <1>2, <2>1
  <1> QED
    BY <1>1, <1>5

LEMMA OnlyConcat ==
    ASSUME NEW E, NEW a \in Seq(E), NEW b \in Seq(E), NEW S
    PROVE  Only(a \o b, S) = Only(a, S) \o Only(b, S)
  <1> DEFINE n == Len(a)
             m == Len(b)
             all == a \o b
             first == Only(a, S)
  <1>1. /\ n \in Nat /\ m \in Nat /\ all \in Seq(E) /\ Len(all) = n + m
        /\ \A j \in 1..m : n + j \in 1..(n + m) /\ all[n + j] = b[j]
    OBVIOUS
  <1>2. PICK k : Keeps(k, all, S, E) /\ Only(all, S) = k[n + m]
    <2>1. all \in Seq(E) /\ Len(all) = n + m
      BY <1>1
    <2> HIDE DEF all, n, m
    <2>2. \E k : Keeps(k, all, S, E) /\ Only(all, S) = k[Len(all)]
      BY <2>1, OnlyKeeps
    <2> QED
      BY <2>1, <2>2
  <1>3. PICK l : Keeps(l, b, S, E) /\ Only(b, S) = l[m]
    BY OnlyKeeps
  <1>4. k[n] = first
    BY <1>2, OnlyFirst
  <1>5. first \in Seq(E)
    BY OnlyType
  <1> HIDE DEF all, first
  <1> DEFINE P == {j \in 0..m : k[n + j] = first \o l[j]}
  <1>6. 0 \in P
    <2>1. l[0] = <<>>
      BY <1>3 DEF Keeps
    <2>2. n + 0 = n /\ 0 \in 0..m /\ first \o <<>> = first
      BY <1>1, <1>5
    <2>3. k[n + 0] = first \o l[0]
      <3> HIDE DEF n
      <3> QED
        BY <1>4, <2>1, <2>2
    <2> QED
      BY <2>2, <2>3
  <1>7. ASSUME NEW j \in 1..m, j - 1 \in P
        PROVE  j \in P
    <2>1. k[n + j] = Keeping(k[(n + j) - 1], all[n + j], S)
      <3> DEFINE at == n + j
      <3>1. at \in 1..Len(all) /\ all \in Seq(E) /\ Keeps(k, all, S, E)
        BY <1>1, <1>2
      <3>2. k[at] = Keeping(k[at-1], all[at], S)
        <4> HIDE DEF at
        <4> QED
          BY <3>1, KeepsStep
      <3> QED
        BY <3>2
    <2>2. l[j-1] \in Seq(E) /\ b[j] \in E /\ l[j] = Keeping(l[j-1], b[j], S)
      BY <1>3, KeepsStep
    <2>3. k[(n + j) - 1] = first \o l[j-1]
      <3>1. (n + j) - 1 = n + (j - 1)
        BY <1>1
      <3> QED
        BY <1>7, <3>1
    <2>4. k[n + j] = first \o Keeping(l[j-1], b[j], S)
      <3>1. all[n + j] = b[j]
        BY <1>1
      <3>2. k[n + j] = Keeping(first \o l[j-1], b[j], S)
        <4> HIDE DEF n
        <4> QED
          BY <2>1, <2>3, <3>1
      <3>3. Keeping(first \o l[j-1], b[j], S) = first \o Keeping(l[j-1], b[j], S)
        <4> DEFINE v == l[j-1]
                   x == b[j]
        <4>1. v \in Seq(E) /\ x \in E
          BY <2>2
        <4>2. Keeping(first \o v, x, S) = first \o Keeping(v, x, S)
          <5> HIDE DEF v, x
          <5> QED
            BY <1>5, <4>1, KeptAfter
        <4> QED
          BY <4>2
      <3> QED
        BY <3>2, <3>3
    <2>5. k[n + j] = first \o l[j]
      BY <2>2, <2>4
    <2> HIDE DEF n, first
    <2> QED
      BY <2>5
  <1>8. m \in P
    <2> HIDE DEF P, m
    <2>1. 0..m \subseteq P
      BY <1>1, <1>6, <1>7, PrefixInduction
    <2> QED
      BY <1>1, <2>1
  <1> QED
    BY <1>2, <1>3, <1>8 DEF all, first

(* A list of which all, or nothing, is kept.                               *)
LEMMA OnlyAll ==
    ASSUME NEW E, NEW s \in Seq(E), NEW S, \A i \in 1..Len(s) : s[i] \in S
    PROVE  Only(s, S) = s
  <1> DEFINE n == Len(s)
  <1>1. PICK k : Keeps(k, s, S, E) /\ Only(s, S) = k[n]
    BY OnlyKeeps
  <1> DEFINE P == {j \in 0..n : k[j] = SubSeq(s, 1, j)}
  <1>2. n \in Nat /\ SubSeq(s, 1, 0) = <<>> /\ SubSeq(s, 1, n) = s
    OBVIOUS
  <1>3. 0 \in P
    BY <1>1, <1>2 DEF Keeps
  <1>4. ASSUME NEW j \in 1..n, j - 1 \in P
        PROVE  j \in P
    <2>1. k[j] = Keeping(k[j-1], s[j], S) /\ s[j] \in S
      BY <1>1, KeepsStep
    <2>2. k[j] = Append(k[j-1], s[j])
      BY <2>1 DEF Keeping
    <2>3. SubSeq(s, 1, j) = Append(SubSeq(s, 1, j - 1), s[j])
      OBVIOUS
    <2>4. k[j-1] = SubSeq(s, 1, j - 1) /\ j \in 0..n
      BY <1>4
    <2> QED
      BY <2>2, <2>3, <2>4
  <1>5. n \in P
    <2> HIDE DEF P, n
    <2>1. 0..n \subseteq P
      BY <1>2, <1>3, <1>4, PrefixInduction
    <2> QED
      BY <1>2, <2>1
  <1> QED
    BY <1>1, <1>2, <1>5

LEMMA OnlyNone ==
    ASSUME NEW E, NEW s \in Seq(E), NEW S, \A i \in 1..Len(s) : s[i] \notin S
    PROVE  Only(s, S) = <<>>
  <1> DEFINE n == Len(s)
  <1>1. PICK k : Keeps(k, s, S, E) /\ Only(s, S) = k[n]
    BY OnlyKeeps
  <1> DEFINE P == {j \in 0..n : k[j] = <<>>}
  <1>2. n \in Nat
    OBVIOUS
  <1>3. 0 \in P
    BY <1>1, <1>2 DEF Keeps
  <1>4. ASSUME NEW j \in 1..n, j - 1 \in P
        PROVE  j \in P
    <2>1. k[j] = k[j-1]
      BY <1>1, KeepsStep DEF Keeping
    <2> QED
      BY <1>4, <2>1
  <1>5. n \in P
    <2> HIDE DEF P, n
    <2>1. 0..n \subseteq P
      BY <1>2, <1>3, <1>4, PrefixInduction
    <2> QED
      BY <1>2, <2>1
  <1> QED
    BY <1>1, <1>5

(* Lists one after another: j[n] is the first n of them.                   *)
Joins(j, lists, E) ==
    /\ j[0] = <<>>
    /\ \A n \in 1..Len(lists) : j[n-1] \in Seq(E) /\ j[n] = j[n-1] \o lists[n]

Join(E) == [p \in Seq(E) \X Seq(E) |-> p[1] \o p[2]]

LEMMA JoinType ==
    ASSUME NEW E
    PROVE  /\ Join(E) \in [Seq(E) \X Seq(E) -> Seq(E)] /\ <<>> \in Seq(E)
           /\ \A v \in Seq(E), w \in Seq(E) : Join(E)[<<v, w>>] = v \o w
  <1> DEFINE V == Seq(E)
  <1>1. <<>> \in V /\ \A v, w \in V : v \o w \in V
    OBVIOUS
  <1>2. Join(E) = [p \in V \X V |-> p[1] \o p[2]]
    BY DEF Join
  <1> HIDE DEF V
  <1>3. Join(E) \in [V \X V -> V] /\ \A v, w \in V : Join(E)[<<v, w>>] = v \o w
    <2>1. \A p \in V \X V : p[1] \in V /\ p[2] \in V /\ p[1] \o p[2] \in V
      BY <1>1
    <2>2. Join(E) \in [V \X V -> V]
      BY <1>2, <2>1
    <2>3. \A v, w \in V : Join(E)[<<v, w>>] = v \o w
      BY <1>2
    <2> QED
      BY <2>2, <2>3
  <1> QED
    BY <1>1, <1>3 DEF V

(* A loop goes through its values.                                         *)
LEMMA LoopTurns ==
    ASSUME NEW E, NEW seq, NEW V, NEW base, NEW h, Loop(seq, E, base, h, V)
    PROVE  \E t : Turns(t, seq, base, h, V)
  <1>1. PICK g \in [SUBSET (1..Len(seq)) -> V] : FoldTable(g, Len(seq), base, h, seq)
    BY FoldTableExists
  <1>2. FoldsTo(g[1..Len(seq)], seq, base, h, V)
    BY <1>1, TableFolds
  <1> QED
    BY <1>2 DEF FoldsTo

LEMMA JoinsExists ==
    ASSUME NEW E, NEW lists \in Seq(Seq(E))
    PROVE  \E j : Joins(j, lists, E)
  <1>1. Loop(lists, Seq(E), <<>>, Join(E), Seq(E))
    BY JoinType DEF Loop
  <1>2. PICK t : Turns(t, lists, <<>>, Join(E), Seq(E))
    BY <1>1, LoopTurns
  <1>3. ASSUME NEW n \in 1..Len(lists)
        PROVE  t[n-1] \in Seq(E) /\ t[n] = t[n-1] \o lists[n]
    <2>1. n - 1 = 0 \/ n - 1 \in 1..Len(lists)
      OBVIOUS
    <2>2. t[n-1] \in Seq(E) /\ lists[n] \in Seq(E)
      <3>1. t[0] \in Seq(E) /\ \A m \in 1..Len(lists) : t[m] \in Seq(E)
        BY <1>2, JoinType DEF Turns
      <3> QED
        BY <2>1, <3>1
    <2>3. t[n] = Join(E)[<<t[n-1], lists[n]>>]
      BY <1>2 DEF Turns
    <2> QED
      BY <2>2, <2>3, JoinType
  <1> QED
    BY <1>2, <1>3 DEF Turns, Joins

LEMMA JoinsStep ==
    ASSUME NEW E, NEW lists \in Seq(Seq(E)), NEW j, Joins(j, lists, E),
           NEW n \in 1..Len(lists)
    PROVE  /\ j[n-1] \in Seq(E) /\ lists[n] \in Seq(E)
           /\ j[n] = j[n-1] \o lists[n] /\ j[n] \in Seq(E)
  <1>1. j[n-1] \in Seq(E) /\ j[n] = j[n-1] \o lists[n]
    <2> DEFINE V == Seq(E)
    <2>1. \A m \in 1..Len(lists) : j[m-1] \in V /\ j[m] = j[m-1] \o lists[m]
      BY DEF Joins
    <2> HIDE DEF V
    <2>2. j[n-1] \in V /\ j[n] = j[n-1] \o lists[n]
      BY <2>1
    <2> QED
      BY <2>2 DEF V
  <1>2. lists[n] \in Seq(E)
    OBVIOUS
  <1> QED
    BY <1>1, <1>2

LEMMA FlattenJoins ==
    ASSUME NEW E, NEW lists \in Seq(Seq(E))
    PROVE  \E j : Joins(j, lists, E) /\ FlattenSeq(lists) = j[Len(lists)]
  <1> DEFINE n == Len(lists)
             F(g) == [i \in 1..n |-> IF i = 1 THEN lists[i] ELSE g[i-1] \o lists[i]]
             flat == CHOOSE it : it = F(it)
  <1>1. PICK j : Joins(j, lists, E)
    BY JoinsExists
  <1>2. n \in Nat
    OBVIOUS
  <1>3. CASE n = 0
    <2>1. FlattenSeq(lists) = lists /\ lists = <<>> /\ j[0] = <<>>
      BY <1>1, <1>3 DEF FlattenSeq, Joins
    <2> QED
      BY <1>1, <1>3, <2>1
  <1>4. CASE n # 0
    <2>1. FlattenSeq(lists) = flat[n]
      BY <1>4 DEF FlattenSeq
    <2> DEFINE g == [i \in 1..n |-> j[i]]
    <2>2. \A i \in 1..n : j[i] = IF i = 1 THEN lists[i] ELSE g[i-1] \o lists[i]
      <3>1. ASSUME NEW i \in 1..n
            PROVE  j[i] = IF i = 1 THEN lists[i] ELSE g[i-1] \o lists[i]
        <4>1. j[i] = j[i-1] \o lists[i] /\ lists[i] \in Seq(E)
          BY <1>1, JoinsStep
        <4>2. CASE i = 1
          <5>1. j[i-1] = <<>> /\ <<>> \o lists[i] = lists[i]
            BY <1>1, <4>1, <4>2 DEF Joins
          <5> QED
            BY <4>1, <4>2, <5>1
        <4>3. CASE i # 1
          <5>1. g[i-1] = j[i-1]
            BY <1>2, <4>3
          <5> HIDE DEF g
          <5> QED
            BY <4>1, <4>3, <5>1
        <4> QED
          BY <4>2, <4>3
      <3> QED
        BY <3>1
    <2>3. g = F(g)
      <3>1. F(g) = [i \in 1..n |-> j[i]]
        <4> HIDE DEF g
        <4> QED
          BY <2>2
      <3> QED
        BY <3>1
    <2>4. flat = F(flat)
      <3> HIDE DEF F, g
      <3> QED
        BY <2>3
    <2> DEFINE P == {i \in 0..n : i # 0 => flat[i] = j[i]}
    <2>5. 0 \in P
      BY <1>2
    <2>6. ASSUME NEW i \in 1..n, i - 1 \in P
          PROVE  i \in P
      <3> HIDE DEF flat
      <3>1. flat[i] = IF i = 1 THEN lists[i] ELSE flat[i-1] \o lists[i]
        BY <2>4
      <3>2. i # 1 => flat[i-1] = g[i-1]
        BY <1>2, <2>6
      <3>3. j[i] = IF i = 1 THEN lists[i] ELSE g[i-1] \o lists[i]
        <4> HIDE DEF g
        <4> QED
          BY <2>2
      <3> HIDE DEF g
      <3>4. flat[i] = j[i]
        BY <3>1, <3>2, <3>3
      <3> QED
        BY <3>4
    <2>7. n \in P
      <3> HIDE DEF P, n
      <3>1. 0..n \subseteq P
        BY <1>2, <2>5, <2>6, PrefixInduction
      <3> QED
        BY <1>2, <3>1
    <2> HIDE DEF flat
    <2> QED
      BY <1>1, <1>4, <2>1, <2>7
  <1> QED
    BY <1>3, <1>4

LEMMA FlattenType ==
    ASSUME NEW E, NEW lists \in Seq(Seq(E))
    PROVE  FlattenSeq(lists) \in Seq(E)
  <1> DEFINE n == Len(lists)
  <1>1. PICK j : Joins(j, lists, E) /\ FlattenSeq(lists) = j[n]
    BY FlattenJoins
  <1>2. n \in Nat
    OBVIOUS
  <1>3. CASE n = 0
    <2>1. FlattenSeq(lists) = <<>>
      BY <1>1, <1>3 DEF Joins
    <2> QED
      BY <2>1
  <1>4. CASE n # 0
    <2>1. n \in 1..Len(lists)
      BY <1>2, <1>4
    <2> HIDE DEF n
    <2>2. Joins(j, lists, E)
      BY <1>1
    <2> DEFINE V == Seq(E)
    <2>3. j[n] \in V
      BY <2>1, <2>2, JoinsStep
    <2> HIDE DEF V
    <2>4. FlattenSeq(lists) \in V
      BY <1>1, <2>3
    <2> QED
      BY <2>4 DEF V
  <1> QED
    BY <1>3, <1>4

-----------------------------------------------------------------------------
(* Sorting, and the order of the elements of a list.                       *)

(* Which of any two elements comes first is settled.                       *)
Orders(before, S) ==
    /\ \A x \in S : <<x, x>> \notin before
    /\ \A x, y, z \in S : <<x, y>> \in before /\ <<y, z>> \in before => <<x, z>> \in before
    /\ \A x, y \in S : x = y \/ <<x, y>> \in before \/ <<y, x>> \in before

(* Each element once, and in order.                                        *)
SortsInto(S, before, list) ==
    /\ list \in Seq(S) /\ Len(list) = Cardinality(S)
    /\ \A x \in S : \E k \in 1..Len(list) : list[k] = x
    /\ \A i, j \in 1..Len(list) :
           i < j => list[i] # list[j] /\ <<list[i], list[j]>> \in before

LEMMA SortedSorts ==
    ASSUME NEW S, IsFiniteSet(S), NEW before, Orders(before, S)
    PROVE  SortsInto(S, before, Sorted(S, before))
  <1> DEFINE n == Cardinality(S)
             Below(x) == {y \in S : <<y, x>> \in before}
             at == [x \in S |-> Cardinality(Below(x)) + 1]
             list == Sorted(S, before)
  <1>1. n \in Nat /\ IsFiniteSet(1..n) /\ Cardinality(1..n) = n
    BY FS_CardinalityType, FS_Interval
  <1>2. ASSUME NEW x \in S
        PROVE  Cardinality(Below(x)) \in Nat /\ Cardinality(Below(x)) < n
    <2>1. Below(x) \in SUBSET S /\ x \notin Below(x)
      BY DEF Orders
    <2> HIDE DEF Below
    <2>2. IsFiniteSet(Below(x)) /\ Cardinality(Below(x)) <= n /\ Cardinality(Below(x)) # n
      BY <2>1, FS_Subset
    <2> QED
      BY <1>1, <2>2, FS_CardinalityType
  <1>3. ASSUME NEW x \in S, NEW y \in S, <<x, y>> \in before
        PROVE  Cardinality(Below(x)) < Cardinality(Below(y))
    <2>1. Below(y) \in SUBSET S
      OBVIOUS
    <2>2. Below(x) \in SUBSET Below(y) /\ x \in Below(y) /\ x \notin Below(x)
      BY <1>3 DEF Orders
    <2> HIDE DEF Below
    <2>3. IsFiniteSet(Below(y))
      BY <2>1, FS_Subset
    <2>4. Cardinality(Below(x)) <= Cardinality(Below(y))
          /\ Cardinality(Below(x)) # Cardinality(Below(y))
      BY <2>2, <2>3, FS_Subset
    <2> QED
      BY <1>2, <2>4
  <1>4. /\ at \in [S -> 1..n]
        /\ \A x, y \in S : x # y => at[x] # at[y]
        /\ \A x, y \in S : at[x] < at[y] => x # y /\ <<x, y>> \in before
    <2>1. \A x \in S : at[x] = Cardinality(Below(x)) + 1
      OBVIOUS
    <2>2. \A x \in S : at[x] \in 1..n
      <3> HIDE DEF Below, at
      <3> QED
        BY <1>1, <1>2, <2>1
    <2>3. at = [x \in S |-> at[x]]
      OBVIOUS
    <2> HIDE DEF at, Below
    <2>4. \A x, y \in S : <<x, y>> \in before => at[x] < at[y]
      BY <1>2, <1>3, <2>1
    <2>5. ASSUME NEW x \in S, NEW y \in S
          PROVE  /\ x # y => at[x] # at[y]
                 /\ at[x] < at[y] => x # y /\ <<x, y>> \in before
      <3>1. x = y \/ <<x, y>> \in before \/ <<y, x>> \in before
        BY DEF Orders
      <3>2. at[x] \in Nat /\ at[y] \in Nat
        BY <1>1, <2>2
      <3>3. <<x, y>> \in before => at[x] < at[y]
        BY <2>4
      <3>4. <<y, x>> \in before => at[y] < at[x]
        BY <2>4
      <3> QED
        BY <3>1, <3>2, <3>3, <3>4
    <2> QED
      BY <2>2, <2>3, <2>5
  <1>5. \A k \in 1..n : \E x \in S : at[x] = k
    <2> HIDE DEF at
    <2>1. at \in Injection(S, 1..n)
      BY <1>4 DEF Injection, IsInjective
    <2>2. at \in Surjection(S, 1..n)
      BY <1>1, <2>1, FS_Injection
    <2> QED
      BY <2>2 DEF Surjection
  <1>6. list = [k \in 1..n |-> CHOOSE x \in S : Cardinality(Below(x)) = k - 1]
    BY DEF Sorted
  <1>7. \A k \in 1..n : list[k] \in S /\ at[list[k]] = k
    <2>1. ASSUME NEW k \in 1..n
          PROVE  list[k] \in S /\ at[list[k]] = k
      <3>1. \A x \in S : at[x] = Cardinality(Below(x)) + 1
        OBVIOUS
      <3> HIDE DEF at, Below, list
      <3>2. PICK x \in S : at[x] = k
        BY <1>5
      <3>3. Cardinality(Below(x)) = k - 1
        BY <1>2, <3>1, <3>2
      <3>4. list[k] \in S /\ Cardinality(Below(list[k])) = k - 1
        BY <1>6, <3>3
      <3> QED
        BY <3>1, <3>4
    <2> QED
      BY <2>1
  <1>8. list \in [1..n -> S]
    <2> HIDE DEF Below
    <2> DEFINE e(k) == CHOOSE x \in S : Cardinality(Below(x)) = k - 1
    <2>1. list = [k \in 1..n |-> e(k)]
      BY <1>6
    <2> HIDE DEF e
    <2>2. \A k \in 1..n : e(k) \in S
      BY <1>7, <2>1
    <2> QED
      BY <2>1, <2>2
  <1>9. list \in Seq(S) /\ Len(list) = n
    <2> HIDE DEF list
    <2> QED
      BY <1>1, <1>8
  <1>10. \A x \in S : \E k \in 1..n : list[k] = x
    <2> HIDE DEF at, list
    <2>1. ASSUME NEW x \in S
          PROVE  list[at[x]] = x /\ at[x] \in 1..n
      BY <1>4, <1>7
    <2> QED
      BY <2>1
  <1> HIDE DEF at, list
  <1> QED
    BY <1>4, <1>7, <1>9, <1>10 DEF SortsInto, list

(* Of any two elements of a list, the pair is in Q.                        *)
Ordered(list, Q) == \A i, j \in 1..Len(list) : i < j => <<list[i], list[j]>> \in Q

LEMMA OrderedAppend ==
    ASSUME NEW E, NEW s \in Seq(E), NEW x \in E
    PROVE  /\ Range(Append(s, x)) = Range(s) \cup {x}
           /\ \A Q : Ordered(s, Q) /\ (\A y \in Range(s) : <<y, x>> \in Q) =>
                         Ordered(Append(s, x), Q)
  <1> DEFINE n == Len(s)
             all == Append(s, x)
  <1>1. /\ n \in Nat /\ DOMAIN s = 1..n /\ DOMAIN all = 1..(n + 1) /\ Len(all) = n + 1
        /\ all[n + 1] = x /\ \A i \in 1..n : all[i] = s[i]
    OBVIOUS
  <1> HIDE DEF n, all
  <1>2. \A i \in 1..(n + 1) : i \in 1..n \/ i = n + 1
    BY <1>1
  <1>3. \A i \in 1..n : i \in 1..(n + 1)
    BY <1>1
  <1>4. n + 1 \in 1..(n + 1)
    BY <1>1
  <1>5. Range(all) = Range(s) \cup {x}
    BY <1>1, <1>2, <1>3, <1>4 DEF Range
  <1>6. ASSUME NEW Q, Ordered(s, Q), \A y \in Range(s) : <<y, x>> \in Q
        PROVE  Ordered(all, Q)
    <2>1. \A i \in 1..n : <<s[i], x>> \in Q
      BY <1>1, <1>6 DEF Range
    <2>2. \A i, j \in 1..n : i < j => <<s[i], s[j]>> \in Q
      BY <1>6 DEF Ordered, n
    <2>3. ASSUME NEW i \in 1..(n + 1), NEW j \in 1..(n + 1), i < j
          PROVE  <<all[i], all[j]>> \in Q
      <3>1. i \in 1..n
        BY <1>1, <2>3
      <3>2. j \in 1..n \/ j = n + 1
        BY <1>2
      <3> QED
        BY <1>1, <2>1, <2>2, <2>3, <3>1, <3>2
    <2> QED
      BY <1>1, <2>3 DEF Ordered
  <1> QED
    BY <1>5, <1>6 DEF all

LEMMA OrderedConcat ==
    ASSUME NEW E, NEW s \in Seq(E), NEW t \in Seq(E)
    PROVE  /\ Range(s \o t) = Range(s) \cup Range(t)
           /\ \A Q : /\ Ordered(s, Q) /\ Ordered(t, Q)
                     /\ \A y \in Range(s), z \in Range(t) : <<y, z>> \in Q
                     => Ordered(s \o t, Q)
  <1> DEFINE n == Len(s)
             m == Len(t)
             all == s \o t
  <1>1. /\ n \in Nat /\ m \in Nat /\ DOMAIN s = 1..n /\ DOMAIN t = 1..m
        /\ DOMAIN all = 1..(n + m) /\ Len(all) = n + m
        /\ \A i \in 1..(n + m) : all[i] = IF i <= n THEN s[i] ELSE t[i - n]
    OBVIOUS
  <1> HIDE DEF n, m, all
  <1>2. \A i \in 1..(n + m) : i \in 1..n \/ (~ (i <= n) /\ i - n \in 1..m)
    BY <1>1
  <1>3. \A i \in 1..n : i <= n /\ i \in 1..(n + m)
    BY <1>1
  <1>4. \A i \in 1..m : n + i \in 1..(n + m) /\ ~ (n + i <= n) /\ (n + i) - n = i
    BY <1>1
  <1>5. \A i \in 1..n : all[i] = s[i]
    BY <1>1, <1>3
  <1>6. \A i \in 1..m : all[n + i] = t[i]
    BY <1>1, <1>4
  <1>7. Range(all) = Range(s) \cup Range(t)
    <2>1. \A i \in 1..(n + m) : all[i] \in Range(s) \cup Range(t)
      BY <1>1, <1>2 DEF Range
    <2>2. \A i \in 1..n : s[i] \in Range(all)
      BY <1>1, <1>3, <1>5 DEF Range
    <2>3. \A i \in 1..m : t[i] \in Range(all)
      BY <1>1, <1>4, <1>6 DEF Range
    <2> QED
      BY <1>1, <2>1, <2>2, <2>3 DEF Range
  <1>8. ASSUME NEW Q, Ordered(s, Q), Ordered(t, Q),
               \A y \in Range(s), z \in Range(t) : <<y, z>> \in Q
        PROVE  Ordered(all, Q)
    <2>1. \A i \in 1..n, j \in 1..m : <<s[i], t[j]>> \in Q
      BY <1>1, <1>8 DEF Range
    <2>2. \A i, j \in 1..n : i < j => <<s[i], s[j]>> \in Q
      BY <1>8 DEF Ordered, n
    <2>3. \A i, j \in 1..m : i < j => <<t[i], t[j]>> \in Q
      BY <1>8 DEF Ordered, m
    <2>4. ASSUME NEW i \in 1..(n + m), NEW j \in 1..(n + m), i < j
          PROVE  <<all[i], all[j]>> \in Q
      <3>1. CASE i \in 1..n /\ j \in 1..n
        BY <1>5, <2>2, <2>4, <3>1
      <3>2. CASE i \in 1..n /\ ~ (j <= n) /\ j - n \in 1..m
        BY <1>1, <1>5, <2>1, <3>2
      <3>3. CASE ~ (i <= n) /\ i - n \in 1..m
        <4>1. ~ (j <= n) /\ j - n \in 1..m /\ i - n < j - n
          BY <1>1, <2>4, <3>3
        <4> QED
          BY <1>1, <2>3, <3>3, <4>1
      <3> QED
        BY <1>2, <3>1, <3>2, <3>3
    <2> QED
      BY <1>1, <2>4 DEF Ordered
  <1> QED
    BY <1>7, <1>8 DEF all

(* Only keeps what is in S, in its order.                                  *)
LEMMA OnlyHas ==
    ASSUME NEW E, NEW S, NEW list \in Seq(E), NEW Q, Ordered(list, Q)
    PROVE  /\ Only(list, S) \in Seq(E)
           /\ Range(Only(list, S)) = Range(list) \cap S
           /\ Ordered(Only(list, S), Q)
  <1> DEFINE n == Len(list)
             First(m) == {list[i] : i \in 1..m}
  <1>1. PICK k : Keeps(k, list, S, E) /\ Only(list, S) = k[n]
    BY OnlyKeeps
  <1> DEFINE In(m) == /\ k[m] \in Seq(E) /\ Range(k[m]) = First(m) \cap S
                      /\ Ordered(k[m], Q)
             P == {m \in 0..n : In(m)}
  <1>2. n \in Nat /\ DOMAIN list = 1..n
    OBVIOUS
  <1>3. In(0)
    <2>1. k[0] = <<>>
      BY <1>1 DEF Keeps
    <2>2. Len(<<>>) = 0 /\ Range(<<>>) = {} /\ First(0) = {} /\ <<>> \in Seq(E)
      BY DEF Range
    <2>3. Ordered(<<>>, Q)
      BY DEF Ordered
    <2> QED
      BY <2>1, <2>2, <2>3
  <1>4. ASSUME NEW m \in 1..n, In(m - 1)
        PROVE  In(m)
    <2> DEFINE x == list[m]
               had == k[m-1]
    <2>1. x \in E /\ k[m] = Keeping(had, x, S)
      BY <1>1, <1>2, <1>4, KeepsStep
    <2>2. had \in Seq(E) /\ Range(had) = First(m - 1) \cap S /\ Ordered(had, Q)
      BY <1>4
    <2>3. First(m) = First(m - 1) \cup {x}
      <3>1. \A i \in 1..m : i \in 1..(m - 1) \/ i = m
        OBVIOUS
      <3>2. m \in 1..m /\ \A i \in 1..(m - 1) : i \in 1..m
        OBVIOUS
      <3> QED
        BY <3>1, <3>2
    <2>4. \A y \in First(m - 1) : <<y, x>> \in Q
      <3>1. ASSUME NEW i \in 1..(m - 1)
            PROVE  <<list[i], list[m]>> \in Q
        <4>1. i \in 1..n /\ i < m
          BY <1>2
        <4> QED
          BY <4>1 DEF Ordered
      <3> QED
        BY <3>1
    <2> HIDE DEF x, had, First
    <2>5. CASE x \in S
      <3>1. k[m] = Append(had, x)
        BY <2>1, <2>5 DEF Keeping
      <3>2. Range(Append(had, x)) = Range(had) \cup {x} /\ Ordered(Append(had, x), Q)
        BY <2>1, <2>2, <2>4, OrderedAppend
      <3>3. Append(had, x) \in Seq(E)
        BY <2>1, <2>2
      <3> QED
        BY <2>2, <2>3, <2>5, <3>1, <3>2, <3>3
    <2>6. CASE x \notin S
      <3>1. k[m] = had
        BY <2>1, <2>6 DEF Keeping
      <3> QED
        BY <2>2, <2>3, <2>6, <3>1
    <2> QED
      BY <2>5, <2>6
  <1>5. In(n)
    <2> HIDE DEF In, n
    <2>1. 0 \in P
      BY <1>2, <1>3
    <2>2. \A m \in 1..n : m - 1 \in P => m \in P
      BY <1>2, <1>4
    <2>3. 0..n \subseteq P
      BY <1>2, <2>1, <2>2, PrefixInduction
    <2> QED
      BY <1>2, <2>3
  <1>6. First(n) = Range(list)
    BY <1>2 DEF Range
  <1> HIDE DEF First
  <1> QED
    BY <1>1, <1>5, <1>6

(* Lists one after another have what each of them has, in an order in      *)
(* which each of them is, and each comes before the next.                  *)
LEMMA FlattenHas ==
    ASSUME NEW E, NEW lists \in Seq(Seq(E)), NEW Q,
           \A k \in 1..Len(lists) : Ordered(lists[k], Q),
           \A k, m \in 1..Len(lists) : k < m =>
               \A y \in Range(lists[k]), z \in Range(lists[m]) : <<y, z>> \in Q
    PROVE  /\ FlattenSeq(lists) \in Seq(E)
           /\ Range(FlattenSeq(lists)) = UNION {Range(lists[k]) : k \in 1..Len(lists)}
           /\ Ordered(FlattenSeq(lists), Q)
  <1> DEFINE n == Len(lists)
             First(m) == UNION {Range(lists[k]) : k \in 1..m}
  <1>1. PICK j : Joins(j, lists, E) /\ FlattenSeq(lists) = j[n]
    BY FlattenJoins
  <1> DEFINE In(m) == /\ j[m] \in Seq(E) /\ Range(j[m]) = First(m) /\ Ordered(j[m], Q)
             P == {m \in 0..n : In(m)}
  <1>2. n \in Nat
    OBVIOUS
  <1>3. In(0)
    <2>1. j[0] = <<>>
      BY <1>1 DEF Joins
    <2>2. Len(<<>>) = 0 /\ Range(<<>>) = {} /\ First(0) = {} /\ <<>> \in Seq(E)
      BY DEF Range
    <2>3. Ordered(<<>>, Q)
      BY DEF Ordered
    <2> QED
      BY <2>1, <2>2, <2>3
  <1>4. ASSUME NEW m \in 1..n, In(m - 1)
        PROVE  In(m)
    <2> DEFINE next == lists[m]
               had == j[m-1]
    <2>1. next \in Seq(E) /\ j[m] = had \o next /\ j[m] \in Seq(E)
      BY <1>1, <1>4, JoinsStep
    <2>2. had \in Seq(E) /\ Range(had) = First(m - 1) /\ Ordered(had, Q)
      BY <1>4
    <2>3. First(m) = First(m - 1) \cup Range(next)
      <3>1. \A k \in 1..m : k \in 1..(m - 1) \/ k = m
        OBVIOUS
      <3>2. m \in 1..m /\ \A k \in 1..(m - 1) : k \in 1..m
        OBVIOUS
      <3> QED
        BY <3>1, <3>2
    <2>4. \A y \in First(m - 1), z \in Range(next) : <<y, z>> \in Q
      <3>1. \A k \in 1..(m - 1) : k \in 1..n /\ k < m
        BY <1>2
      <3> QED
        BY <3>1
    <2>5. Ordered(next, Q)
      OBVIOUS
    <2> HIDE DEF next, had, First
    <2>6. Range(had \o next) = Range(had) \cup Range(next) /\ Ordered(had \o next, Q)
      BY <2>1, <2>2, <2>4, <2>5, OrderedConcat
    <2> QED
      BY <2>1, <2>2, <2>3, <2>6
  <1>5. In(n)
    <2> HIDE DEF In, n
    <2>1. 0 \in P
      BY <1>2, <1>3
    <2>2. \A m \in 1..n : m - 1 \in P => m \in P
      BY <1>2, <1>4
    <2>3. 0..n \subseteq P
      BY <1>2, <2>1, <2>2, PrefixInduction
    <2> QED
      BY <1>2, <2>3
  <1> QED
    BY <1>1, <1>5

=============================================================================
