------------------------------ MODULE Folding ------------------------------
(***************************************************************************)
(* Lemmas about folds, over finite sets and from the left, about the sums  *)
(* the library's SumFunctionOnSet computes, and about flattened sequences. *)
(*                                                                         *)
(* The library's induction theorems take the induction hypothesis as an    *)
(* operator. Here it is a set G: what is to be shown holds of the members  *)
(* of G, and the lemma says that G has every member. They follow from the  *)
(* existence of a minimal set (WFMin), which is stated over sets already.  *)
(***************************************************************************)
EXTENDS Integers, FiniteSets, FiniteSetsExt, SequencesExt, FiniteSetTheorems,
        SequenceTheorems, WellFoundedInduction, TLAPS

----------------------------------------------------------------------------
(* Induction.                                                              *)

\* Among some subsets of a finite set there is one that includes no other.
LEMMA Minimal ==
  ASSUME NEW U, IsFiniteSet(U), NEW T, T \subseteq SUBSET U, T # {}
  PROVE  \E x \in T : \A y \in T : ~ (y \subseteq x /\ y # x)
<1>. DEFINE R == StrictSubsetOrdering(U)
<1>1. IsWellFoundedOn(R, FiniteSubsetsOf(U)) /\ FiniteSubsetsOf(U) = SUBSET U
  BY FS_StrictSubsetOrderingWellFounded, FS_FiniteSubsetsOfFinite
<1>2. T \subseteq FiniteSubsetsOf(U)
  BY <1>1
<1>3. \E x \in T : \A y \in T : ~ (<<y, x>> \in R)
  <2>. HIDE DEF R
  <2>1. IsWellFoundedOn(R, FiniteSubsetsOf(U)) BY <1>1
  <2>. QED
    BY <2>1, <1>2, WFMin
<1>. QED
  BY <1>3 DEF StrictSubsetOrdering

\* Induction over the subsets of a finite set.
LEMMA SubsetInduction ==
  ASSUME NEW U, IsFiniteSet(U), NEW G,
         \A T \in SUBSET U : (\A V \in SUBSET T : V # T => V \in G) => T \in G
  PROVE  SUBSET U \subseteq G
<1>. DEFINE Bad == {T \in SUBSET U : T \notin G}
<1>1. SUFFICES ASSUME Bad # {}  PROVE FALSE
  OBVIOUS
<1>2. Bad \subseteq SUBSET U
  OBVIOUS
<1>3. \E x \in Bad : \A y \in Bad : ~ (y \subseteq x /\ y # x)
  <2>. HIDE DEF Bad
  <2>. QED  BY <1>1, <1>2, Minimal
<1>. QED
  BY <1>3

\* Induction over the naturals.
LEMMA NatSetInduction ==
  ASSUME NEW G, 0 \in G, \A n \in Nat : n \in G => n + 1 \in G
  PROVE  Nat \subseteq G
<1>1. SUFFICES ASSUME NEW n \in Nat, n \notin G  PROVE FALSE
  OBVIOUS
<1>. DEFINE U   == 1 .. n
            Bad == {1 .. m : m \in {k \in 0 .. n : k \notin G}}
<1>2. IsFiniteSet(U)
  BY FS_Interval
<1>3. Bad \subseteq SUBSET U /\ Bad # {}
  BY <1>1
<1>4. PICK T \in Bad : \A V \in Bad : ~ (V \subseteq T /\ V # T)
  <2>. HIDE DEF Bad, U
  <2>. QED  BY <1>2, <1>3, Minimal
<1>5. PICK m \in 0 .. n : m \notin G /\ T = 1 .. m
  BY <1>4
<1>6. m # 0 /\ m - 1 \in 0 .. n /\ (m - 1) + 1 = m
  BY <1>5
<1>7. m - 1 \notin G
  BY <1>5, <1>6
<1>8. /\ 1 .. m - 1 \in Bad /\ (1 .. m - 1) \subseteq T
      /\ m \in T /\ m \notin 1 .. m - 1
  BY <1>5, <1>6, <1>7
<1>. QED
  BY <1>4, <1>8

\* Some natural numbers have a least one.
LEMMA Least ==
  ASSUME NEW T, T \subseteq Nat, T # {}
  PROVE  \E x \in T : \A y \in T : x <= y
<1>1. SUFFICES ASSUME \A x \in T : \E y \in T : ~(x <= y)  PROVE FALSE
  OBVIOUS
<1>. DEFINE G == {n \in Nat : \A m \in T : ~(m <= n)}
<1>2. 0 \in G
  BY <1>1
<1>3. \A n \in Nat : n \in G => n + 1 \in G
  <2>1. SUFFICES ASSUME NEW n \in Nat, n \in G, NEW m \in T, m <= n + 1
                 PROVE  FALSE
    OBVIOUS
  <2>2. m = n + 1
    BY <2>1
  <2>3. PICK y \in T : ~(m <= y)
    BY <1>1
  <2>4. y \in Nat /\ m \in Nat
    OBVIOUS
  <2>5. y <= n
    BY <2>2, <2>3, <2>4
  <2>. QED
    BY <2>1, <2>5
<1>4. Nat \subseteq G
  <2>. HIDE DEF G
  <2>. QED
    BY <1>2, <1>3, NatSetInduction
<1>5. PICK m \in T : TRUE
  OBVIOUS
<1>. QED
  BY <1>4, <1>5

\* So many of the first n numbers are no more than n.
LEMMA CountOfFirst ==
  ASSUME NEW n \in Nat, NEW T, T \subseteq 1 .. n
  PROVE  IsFiniteSet(T) /\ Cardinality(T) \in 0 .. n
<1>1. IsFiniteSet(1 .. n) /\ Cardinality(1 .. n) = n
  BY FS_Interval
<1>2. IsFiniteSet(T) /\ Cardinality(T) <= Cardinality(1 .. n)
  BY <1>1, FS_Subset
<1>3. Cardinality(T) \in Nat
  BY <1>2, FS_CardinalityType
<1>. QED
  BY <1>1, <1>2, <1>3

----------------------------------------------------------------------------
(* Folds.                                                                  *)

\* A function on the subsets of U that takes the elements out one by one, in
\* the order ch says, and puts them together with st.
IsFold(g, U, base, ch, st) ==
  \A S \in SUBSET U :
    g[S] = IF S = {} THEN base ELSE st[<<ch[S], g[S \ {ch[S]}]>>]

Chooses(ch, U) == \A S \in SUBSET U : S # {} => ch[S] \in S

\* What it is at a set does not depend on the set it started from.
LEMMA FoldUnique ==
  ASSUME NEW U, IsFiniteSet(U), NEW base, NEW ch, NEW st, Chooses(ch, U),
         NEW g, NEW h, NEW A \in SUBSET U, NEW B \in SUBSET U,
         IsFold(g, A, base, ch, st), IsFold(h, B, base, ch, st)
  PROVE  \A S \in SUBSET (A \cap B) : g[S] = h[S]
<1>. DEFINE G == {S \in SUBSET (A \cap B) : g[S] = h[S]}
<1>1. ASSUME NEW T \in SUBSET (A \cap B), \A V \in SUBSET T : V # T => V \in G
      PROVE  T \in G
  <2>1. CASE T = {}
    BY <2>1 DEF IsFold
  <2>2. CASE T # {}
    <3>1. ch[T] \in T
      BY <2>2 DEF Chooses
    <3>2. T \ {ch[T]} \in SUBSET T /\ T \ {ch[T]} # T
      BY <3>1
    <3>3. g[T \ {ch[T]}] = h[T \ {ch[T]}]
      BY <1>1, <3>2
    <3>4. /\ g[T] = st[<<ch[T], g[T \ {ch[T]}]>>]
          /\ h[T] = st[<<ch[T], h[T \ {ch[T]}]>>]
      BY <2>2 DEF IsFold
    <3>. QED
      BY <3>3, <3>4
  <2>. QED
    BY <2>1, <2>2
<1>2. IsFiniteSet(A \cap B)
  BY FS_Subset
<1>3. SUBSET (A \cap B) \subseteq G
  <2>. DEFINE I == A \cap B
  <2>. HIDE DEF G, I
  <2>1. /\ IsFiniteSet(I)
        /\ \A T \in SUBSET I : (\A V \in SUBSET T : V # T => V \in G) => T \in G
    BY <1>1, <1>2 DEF I
  <2>2. SUBSET I \subseteq G
    BY <2>1, SubsetInduction
  <2>. QED
    BY <2>2 DEF I
<1>. QED
  BY <1>3

\* There is such a function, for every order of taking the elements out.
HasFold(U, Val, base, ch, st) ==
  \E g \in [SUBSET U -> Val] : IsFold(g, U, base, ch, st)

LEMMA FoldExists ==
  ASSUME NEW U, IsFiniteSet(U), NEW Val, NEW base \in Val,
         NEW ch, Chooses(ch, U), NEW st \in [U \X Val -> Val]
  PROVE  HasFold(U, Val, base, ch, st)
<1>. DEFINE Fold(T, g) == g \in [SUBSET T -> Val] /\ IsFold(g, T, base, ch, st)
            G          == {T \in SUBSET U : \E g : Fold(T, g)}
            f          == [T \in SUBSET U |-> CHOOSE g : Fold(T, g)]
<1>1. ASSUME NEW T \in G  PROVE Fold(T, f[T])
  BY <1>1, Zenon
<1>2. ASSUME NEW T \in SUBSET U, \A V \in SUBSET T : V # T => V \in G
      PROVE  T \in G
  <2>. DEFINE below(S) == f[S][S]
              at(S)    == IF S = {} THEN base
                          ELSE st[<<ch[S], f[S \ {ch[S]}][S \ {ch[S]}]>>]
              h        == [S \in SUBSET T |-> at(S)]
  <2>1. ASSUME NEW S \in SUBSET T  
        PROVE  at(S) \in Val /\ (S # T => at(S) = f[S][S])
    <3>1. CASE S = {}
      <4>1. S # T => Fold(S, f[S])
        BY <1>1, <1>2
      <4>. QED
        BY <3>1, <4>1 DEF IsFold
    <3>2. CASE S # {}
      <4>. DEFINE R == S \ {ch[S]}
      <4>1. ch[S] \in S /\ R \in SUBSET S /\ R # T /\ R \in SUBSET T
        BY <3>2 DEF Chooses
      <4>2. R \in G /\ Fold(R, f[R])
        BY <1>1, <1>2, <4>1
      <4>3. f[R][R] \in Val
        BY <4>2
      <4>4. at(S) = st[<<ch[S], f[R][R]>>]
        BY <3>2
      <4>5. at(S) \in Val
        BY <4>1, <4>3, <4>4
      <4>6. ASSUME S # T  PROVE at(S) = f[S][S]
        <5>1. Fold(S, f[S])
          BY <1>1, <1>2, <4>6
        <5>2. f[S][R] = f[R][R]
          <6>1. \A Q \in SUBSET (S \cap R) : f[S][Q] = f[R][Q]
            <7>. HIDE DEF f, R
            <7>1. S \in SUBSET U /\ R \in SUBSET U
              BY <4>1
            <7>2. IsFold(f[S], S, base, ch, st) /\ IsFold(f[R], R, base, ch, st)
              BY <4>2, <5>1
            <7>. QED
              BY <7>1, <7>2, FoldUnique
          <6>. QED
            BY <4>1, <6>1
        <5>3. f[S][S] = st[<<ch[S], f[S][R]>>]
          BY <3>2, <5>1 DEF IsFold
        <5>. QED
          BY <4>4, <5>2, <5>3
      <4>. QED
        BY <4>5, <4>6
    <3>. QED
      BY <3>1, <3>2
  <2>2. h \in [SUBSET T -> Val]
    BY <2>1
  <2>3. ASSUME NEW S \in SUBSET T
        PROVE  h[S] = IF S = {} THEN base ELSE st[<<ch[S], h[S \ {ch[S]}]>>]
    <3>1. CASE S = {}
      BY <3>1
    <3>2. CASE S # {}
      <4>. DEFINE R == S \ {ch[S]}
      <4>1. R \in SUBSET T /\ R # T
        BY <3>2 DEF Chooses
      <4>2. at(R) = f[R][R]
        BY <2>1, <4>1
      <4>3. h[R] = at(R) /\ h[S] = at(S)
        BY <4>1
      <4>4. at(S) = st[<<ch[S], f[R][R]>>]
        BY <3>2
      <4>5. h[S] = st[<<ch[S], h[R]>>]
        <5>. HIDE DEF at, h, R, f
        <5>. QED
          BY <4>2, <4>3, <4>4
      <4>. HIDE DEF h
      <4>. QED
        BY <3>2, <4>5
    <3>. QED
      BY <3>1, <3>2
  <2>4. Fold(T, h)
    <3>. HIDE DEF h
    <3>. QED
      BY <2>2, <2>3 DEF IsFold
  <2>. QED
    BY <2>4
<1>3. SUBSET U \subseteq G
  <2>. HIDE DEF G
  <2>. QED
    BY <1>2, SubsetInduction
<1>4. U \in G
  BY <1>3
<1>5. PICK g : Fold(U, g)
  BY <1>4
<1>. QED
  BY <1>5 DEF HasFold

\* The largest of some natural numbers with a bound.
LEMMA MaxShape ==
  ASSUME NEW n \in Nat, NEW T, T \subseteq 0 .. n, T # {}
  PROVE  Max(T) \in T /\ \A k \in T : k <= Max(T)
<1>. DEFINE Gap == {n - k : k \in T}
<1>1. Gap \subseteq Nat /\ Gap # {}
  <2>1. ASSUME NEW k \in T  PROVE n - k \in Nat
    <3>1. k \in 0 .. n
      OBVIOUS
    <3>. QED
      BY <3>1
  <2>. QED
    BY <2>1
<1>2. PICK x \in Gap : \A y \in Gap : x <= y
  <2>. HIDE DEF Gap
  <2>. QED
    BY <1>1, Least
<1>3. PICK m \in T : x = n - m
  BY <1>2
<1>4. ASSUME NEW k \in T  PROVE m >= k
  <2>1. n - m <= n - k
    BY <1>2, <1>3
  <2>2. k \in Nat /\ m \in Nat
    <3>1. k \in 0 .. n /\ m \in 0 .. n
      OBVIOUS
    <3>. QED
      BY <3>1
  <2>. QED
    BY <2>1, <2>2
<1>5. Max(T) \in T /\ \A k \in T : Max(T) >= k
  BY <1>4 DEF Max
<1>. QED
  BY <1>5

LEMMA MaxInterval ==
  ASSUME NEW k \in Nat \ {0}
  PROVE  Max(1 .. k) = k /\ (1 .. k) \ {k} = 1 .. k - 1
<1>1. Max(1 .. k) \in 1 .. k /\ \A m \in 1 .. k : m <= Max(1 .. k)
  <2>1. 1 .. k \subseteq 0 .. k /\ 1 .. k # {}
    OBVIOUS
  <2>. QED
    BY <2>1, MaxShape
<1>. QED
  BY <1>1

\* The fold that takes the largest element out first, as FoldLeft does.
IsLeftFold(g, n, base, st) ==
  \A S \in SUBSET (1 .. n) :
    g[S] = IF S = {} THEN base ELSE st[<<Max(S), g[S \ {Max(S)}]>>]

HasLeftFold(n, Val, base, st) ==
  \E g \in [SUBSET (1 .. n) -> Val] : IsLeftFold(g, n, base, st)

LEMMA LeftFoldExists ==
  ASSUME NEW n \in Nat, NEW Val, NEW base \in Val, NEW st \in [(1 .. n) \X Val -> Val]
  PROVE  HasLeftFold(n, Val, base, st)
<1>. DEFINE U  == 1 .. n
            ch == [S \in SUBSET U |-> Max(S)]
<1>1. IsFiniteSet(U)
  BY FS_Interval
<1>2. Chooses(ch, U)
  <2>1. ASSUME NEW S \in SUBSET U, S # {}  PROVE Max(S) \in S
    <3>1. S \subseteq 0 .. n
      BY <2>1
    <3>. QED
      BY <2>1, <3>1, MaxShape
  <2>. QED
    BY <2>1 DEF Chooses
<1>3. HasFold(U, Val, base, ch, st)
  <2>. HIDE DEF ch, U
  <2>1. st \in [U \X Val -> Val]
    BY DEF U
  <2>. QED
    BY <1>1, <1>2, <2>1, FoldExists, Zenon
<1>4. PICK g \in [SUBSET U -> Val] : IsFold(g, U, base, ch, st)
  <2>. HIDE DEF ch, U
  <2>. QED
    BY <1>3 DEF HasFold
<1>5. IsLeftFold(g, n, base, st)
  BY <1>4 DEF IsFold, IsLeftFold
<1>. QED
  BY <1>4, <1>5 DEF HasLeftFold

----------------------------------------------------------------------------
(* Sums.                                                                   *)

Weighs(w, S) == \A i \in S : w[i] \in Int

\* The sums over the subsets of S, as a function.
HasSums(w, S) ==
         \E g \in [SUBSET S -> Int] :
           /\ \A T \in SUBSET S : g[T] = SumFunctionOnSet(w, T)
           /\ g[{}] = 0
           /\ \A T \in SUBSET S : T # {} =>
                \E c \in T : g[T] = w[c] + g[T \ {c}]

\* The library's sums are the values of one such function: what is added up
\* first from a set does not depend on the set the sum was asked for.
LEMMA SumRecursion ==
  ASSUME NEW S, IsFiniteSet(S), NEW w, Weighs(w, S)  PROVE HasSums(w, S)
<1>. DEFINE ch == [T \in SUBSET S |-> CHOOSE x \in T : TRUE]
            st == [p \in S \X Int |-> w[p[1]] + p[2]]
<1>1. Chooses(ch, S)
  BY DEF Chooses
<1>2. st \in [S \X Int -> Int]
  BY DEF Weighs
<1>3. PICK g \in [SUBSET S -> Int] : IsFold(g, S, 0, ch, st)
  <2>. HIDE DEF ch, st
  <2>1. 0 \in Int
    OBVIOUS
  <2>2. HasFold(S, Int, 0, ch, st)
    BY <1>1, <1>2, <2>1, FoldExists, Zenon
  <2>. QED
    BY <2>2 DEF HasFold
<1>4. ASSUME NEW T \in SUBSET S, T # {}
      PROVE  /\ (CHOOSE x \in T : TRUE) \in T
             /\ g[T] = w[CHOOSE x \in T : TRUE] + g[T \ {CHOOSE x \in T : TRUE}]
  <2>. DEFINE c == CHOOSE x \in T : TRUE
  <2>1. c \in T /\ ch[T] = c
    BY <1>4
  <2>2. g[T \ {c}] \in Int
    BY <2>1
  <2>3. st[<<c, g[T \ {c}]>>] = w[c] + g[T \ {c}]
    BY <2>1, <2>2
  <2>4. g[T] = st[<<ch[T], g[T \ {ch[T]}]>>]
    <3>. HIDE DEF ch, st
    <3>. QED
      BY <1>3, <1>4 DEF IsFold
  <2>. QED
    BY <2>1, <2>3, <2>4
<1>5. g[{}] = 0
  BY <1>3 DEF IsFold
<1>6. ASSUME NEW T \in SUBSET S  PROVE g[T] = SumFunctionOnSet(w, T)
  <2>. DEFINE Sums(i) == i = [V \in SUBSET T |->
                 IF V = {} THEN 0
                 ELSE w[CHOOSE x \in V : TRUE] + i[V \ {CHOOSE x \in V : TRUE}]]
              gT == [V \in SUBSET T |-> g[V]]
              i == CHOOSE i : Sums(i)
  <2>1. Sums(gT)
    BY <1>4, <1>5
  <2>2. Sums(i)
    <3>. HIDE DEF Sums
    <3>. QED
      BY <2>1, Zenon
  <2>3. SumFunctionOnSet(w, T) = i[T]
    BY Zenon DEF SumFunctionOnSet, FoldFunctionOnSet, MapThenFoldSet
  <2>. DEFINE G == {V \in SUBSET T : i[V] = g[V]}
  <2>4. ASSUME NEW V \in SUBSET T, \A W \in SUBSET V : W # V => W \in G
        PROVE  V \in G
    <3>1. CASE V = {}
      BY <2>2, <1>5, <3>1
    <3>2. CASE V # {}
      <4>. DEFINE c == CHOOSE x \in V : TRUE
      <4>1. c \in V
        BY <3>2
      <4>2. i[V \ {c}] = g[V \ {c}]
        BY <2>4, <4>1
      <4>3. i[V] = w[c] + i[V \ {c}]
        BY <2>2, <3>2
      <4>4. g[V] = w[c] + g[V \ {c}]
        BY <1>4, <3>2
      <4>. QED
        BY <4>2, <4>3, <4>4
    <3>. QED
      BY <3>1, <3>2
  <2>5. SUBSET T \subseteq G
    <3>1. IsFiniteSet(T)
      BY FS_Subset
    <3>. HIDE DEF G
    <3>. QED
      BY <2>4, <3>1, SubsetInduction
  <2>. QED
    BY <2>3, <2>5
<1>. QED
  BY <1>4, <1>5, <1>6 DEF HasSums

\* Nothing adds up to zero.
LEMMA SumEmpty == ASSUME NEW w PROVE SumFunctionOnSet(w, {}) = 0
<1>1. IsFiniteSet({}) /\ Weighs(w, {})
  BY FS_EmptySet DEF Weighs
<1>. QED
  BY <1>1, SumRecursion DEF HasSums

\* A sum is an integer, and whatever element is taken out first, its weight is
\* what is missing.
LEMMA SumTake ==
  ASSUME NEW S, IsFiniteSet(S), NEW w, Weighs(w, S)
  PROVE  /\ SumFunctionOnSet(w, S) \in Int
         /\ \A x \in S :
              SumFunctionOnSet(w, S) = w[x] + SumFunctionOnSet(w, S \ {x})
<1>1. PICK g \in [SUBSET S -> Int] :
           /\ \A T \in SUBSET S : g[T] = SumFunctionOnSet(w, T)
           /\ g[{}] = 0
           /\ \A T \in SUBSET S :
                T # {} => \E c \in T : g[T] = w[c] + g[T \ {c}]
  <2>1. HasSums(w, S)
    BY SumRecursion
  <2>. QED
    BY <2>1 DEF HasSums
<1>. DEFINE G == {T \in SUBSET S : \A x \in T : g[T] = w[x] + g[T \ {x}]}
<1>2. ASSUME NEW T \in SUBSET S, \A V \in SUBSET T : V # T => V \in G
      PROVE  T \in G
  <2>1. SUFFICES ASSUME NEW x \in T  PROVE g[T] = w[x] + g[T \ {x}]
    OBVIOUS
  <2>2. PICK c \in T : g[T] = w[c] + g[T \ {c}]
    BY <1>1
  <2>3. CASE c = x
    BY <2>2, <2>3
  <2>4. CASE c # x
    <3>. DEFINE R == T \ {c}
                Q == T \ {x}
    <3>1. g[R] = w[x] + g[R \ {x}]
      BY <1>2, <2>4
    <3>2. g[Q] = w[c] + g[Q \ {c}]
      BY <1>2, <2>4
    <3>3. R \ {x} = Q \ {c} /\ R \ {x} \in SUBSET S
      OBVIOUS
    <3>4. w[x] \in Int /\ w[c] \in Int /\ g[R \ {x}] \in Int
      BY <3>3 DEF Weighs
    <3>5. g[T] = w[c] + g[R]
      BY <2>2
    <3>6. g[T] = w[x] + g[Q]
      <4>. DEFINE r == g[R]
                  q == g[Q]
                  m == g[R \ {x}]
      <4>1. r = w[x] + m /\ q = w[c] + m /\ g[T] = w[c] + r
        BY <3>1, <3>2, <3>3, <3>5
      <4>2. m \in Int
        BY <3>4
      <4>. HIDE DEF r, q, m
      <4>3. g[T] = w[x] + q
        BY <4>1, <4>2, <3>4
      <4>. QED
        BY <4>3 DEF q
    <3>. QED
      BY <3>6
  <2>. QED
    BY <2>3, <2>4
<1>3. SUBSET S \subseteq G
  <2>. HIDE DEF G
  <2>. QED
    BY <1>2, SubsetInduction
<1>. QED
  BY <1>1, <1>3

\* Weights that are not negative add up to no less than zero.
LEMMA SumNat ==
  ASSUME NEW S, IsFiniteSet(S), NEW w, \A i \in S : w[i] \in Nat
  PROVE  SumFunctionOnSet(w, S) \in Nat
<1>. DEFINE G == {T \in SUBSET S : SumFunctionOnSet(w, T) \in Nat}
<1>1. ASSUME NEW T \in SUBSET S, \A V \in SUBSET T : V # T => V \in G
      PROVE  T \in G
  <2>1. CASE T = {}
    BY <2>1, SumEmpty
  <2>2. CASE T # {}
    <3>1. PICK x \in T : TRUE
      BY <2>2
    <3>2. SumFunctionOnSet(w, T \ {x}) \in Nat
      BY <1>1, <3>1
    <3>3. IsFiniteSet(T) /\ Weighs(w, T)
      BY FS_Subset DEF Weighs
    <3>4. SumFunctionOnSet(w, T) = w[x] + SumFunctionOnSet(w, T \ {x})
      BY <3>1, <3>3, SumTake
    <3>. QED
      BY <3>1, <3>2, <3>4
  <2>. QED
    BY <2>1, <2>2
<1>2. SUBSET S \subseteq G
  <2>. HIDE DEF G
  <2>. QED
    BY <1>1, SubsetInduction
<1>. QED
  BY <1>2

\* A recursion that takes the elements out in the order of ch gives the sum.
Follows(f, w, ch, S) ==
  \A T \in SUBSET S : f[T] = IF T = {} THEN 0 ELSE w[ch[T]] + f[T \ {ch[T]}]
LEMMA SumFollows ==
  ASSUME NEW S, IsFiniteSet(S), NEW w, Weighs(w, S), NEW ch, Chooses(ch, S),
         NEW f, Follows(f, w, ch, S)
  PROVE  f[S] = SumFunctionOnSet(w, S)
<1>. DEFINE G == {T \in SUBSET S : f[T] = SumFunctionOnSet(w, T)}
<1>1. ASSUME NEW T \in SUBSET S, \A V \in SUBSET T : V # T => V \in G
      PROVE  T \in G
  <2>1. CASE T = {}
    BY <2>1, SumEmpty DEF Follows
  <2>2. CASE T # {}
    <3>1. ch[T] \in T
      BY <2>2 DEF Chooses
    <3>2. f[T \ {ch[T]}] = SumFunctionOnSet(w, T \ {ch[T]})
      BY <1>1, <3>1
    <3>3. f[T] = w[ch[T]] + f[T \ {ch[T]}]
      BY <2>2 DEF Follows
    <3>4. IsFiniteSet(T) /\ Weighs(w, T)
      BY FS_Subset DEF Weighs
    <3>5. SumFunctionOnSet(w, T) = w[ch[T]] + SumFunctionOnSet(w, T \ {ch[T]})
      BY <3>1, <3>4, SumTake
    <3>. QED
      BY <3>2, <3>3, <3>5
  <2>. QED
    BY <2>1, <2>2
<1>2. SUBSET S \subseteq G
  <2>. HIDE DEF G
  <2>. QED
    BY <1>1, SubsetInduction
<1>. QED
  BY <1>2

\* Only the weights of the elements count.
LEMMA SumSame ==
  ASSUME NEW S, IsFiniteSet(S), NEW v, NEW w, Weighs(w, S),
         \A i \in S : v[i] = w[i]
  PROVE  SumFunctionOnSet(v, S) = SumFunctionOnSet(w, S)
<1>. DEFINE f  == [T \in SUBSET S |-> SumFunctionOnSet(v, T)]
            ch == [T \in SUBSET S |-> CHOOSE x \in T : TRUE]
<1>1. Chooses(ch, S)
  BY DEF Chooses
<1>2. ASSUME NEW T \in SUBSET S, T # {}  PROVE f[T] = w[ch[T]] + f[T \ {ch[T]}]
  <2>1. ch[T] \in T
    BY <1>1, <1>2 DEF Chooses
  <2>2. IsFiniteSet(T) /\ Weighs(v, T)
    BY FS_Subset DEF Weighs
  <2>. HIDE DEF ch
  <2>3. SumFunctionOnSet(v, T) = v[ch[T]] + SumFunctionOnSet(v, T \ {ch[T]})
    BY <2>1, <2>2, SumTake
  <2>. QED
    BY <2>1, <2>3
<1>3. f[{}] = 0
  BY SumEmpty
<1>4. Follows(f, w, ch, S)
  <2>. HIDE DEF f, ch
  <2>. QED
    BY <1>2, <1>3 DEF Follows
<1>5. f[S] = SumFunctionOnSet(w, S)
  <2>. HIDE DEF f, ch
  <2>. QED
    BY <1>1, <1>4, SumFollows
<1>. QED
  BY <1>5

\* One weight more, one weight less.
LEMMA SumAdd ==
  ASSUME NEW S, IsFiniteSet(S), NEW w, NEW x, x \notin S, Weighs(w, S \cup {x})
  PROVE  SumFunctionOnSet(w, S \cup {x}) = w[x] + SumFunctionOnSet(w, S)
<1>1. IsFiniteSet(S \cup {x}) /\ (S \cup {x}) \ {x} = S
  BY FS_AddElement
<1>. QED
  BY <1>1, SumTake

\* One element more in a sum over the first ones.
LEMMA SumFirst ==
  ASSUME NEW k \in Nat, NEW v, NEW w, Weighs(w, 1 .. k + 1),
         \A i \in 1 .. k : v[i] = w[i]
  PROVE  /\ SumFunctionOnSet(v, 1 .. k) \in Int
         /\ SumFunctionOnSet(w, 1 .. k + 1) = w[k + 1] + SumFunctionOnSet(v, 1 .. k)
<1>1. /\ 1 .. k + 1 = (1 .. k) \cup {k + 1} /\ k + 1 \notin 1 .. k
      /\ IsFiniteSet(1 .. k)
  BY FS_Interval
<1>2. Weighs(w, (1 .. k) \cup {k + 1})
  BY <1>1
<1>3. Weighs(w, 1 .. k)
  BY <1>1 DEF Weighs
<1>4. SumFunctionOnSet(v, 1 .. k) = SumFunctionOnSet(w, 1 .. k)
  BY <1>1, <1>3, SumSame
<1>5. SumFunctionOnSet(w, 1 .. k) \in Int
  BY <1>1, <1>3, SumTake
<1>6. SumFunctionOnSet(w, (1 .. k) \cup {k + 1}) = w[k + 1] + SumFunctionOnSet(w, 1 .. k)
  BY <1>1, <1>2, SumAdd
<1>. QED
  BY <1>1, <1>4, <1>5, <1>6

\* A window of a sequence adds up to the same from either end.
LEMMA SumBackwards ==
  ASSUME NEW m \in Int, NEW n \in Nat, NEW v, NEW w,
         \A k \in 1 .. n : w[m - k] \in Int /\ v[k] = w[m - k]
  PROVE  SumFunctionOnSet(v, 1 .. n) = SumFunctionOnSet(w, m - n .. m - 1)
<1>. DEFINE Same(k) == SumFunctionOnSet(v, 1 .. k) = SumFunctionOnSet(w, m - k .. m - 1)
            G == {k \in Nat : k <= n => Same(k)}
<1>1. 0 \in G
  <2>1. 1 .. 0 = {} /\ m - 0 .. m - 1 = {}
    OBVIOUS
  <2>2. SumFunctionOnSet(v, {}) = 0 /\ SumFunctionOnSet(w, {}) = 0
    BY SumEmpty
  <2>. QED
    BY <2>1, <2>2
<1>2. ASSUME NEW k \in Nat, k \in G  PROVE k + 1 \in G
  <2>1. SUFFICES ASSUME k + 1 <= n  PROVE Same(k + 1)
    OBVIOUS
  <2>2. Weighs(v, 1 .. k + 1) /\ v[k + 1] = w[m - (k + 1)]
    BY <2>1 DEF Weighs
  <2>3. SumFunctionOnSet(v, 1 .. k + 1) = v[k + 1] + SumFunctionOnSet(v, 1 .. k)
    BY <2>2, SumFirst
  <2>4. /\ m - (k + 1) .. m - 1 = (m - k .. m - 1) \cup {m - (k + 1)}
        /\ m - (k + 1) \notin m - k .. m - 1
        /\ IsFiniteSet(m - k .. m - 1)
    <3>1. m - k \in Int /\ m - 1 \in Int /\ m - (k + 1) = (m - k) - 1 /\ m - k <= (m - 1) + 1
      OBVIOUS
    <3>2. \A a, b \in Int : a <= b + 1 => a - 1 .. b = (a .. b) \cup {a - 1}
      OBVIOUS
    <3>3. IsFiniteSet(m - k .. m - 1)
      BY <3>1, FS_Interval
    <3>. QED
      BY <3>1, <3>2, <3>3
  <2>5. Weighs(w, (m - k .. m - 1) \cup {m - (k + 1)})
    <3>1. ASSUME NEW i \in m - (k + 1) .. m - 1  PROVE w[i] \in Int
      <4>1. m - i \in 1 .. n /\ m - (m - i) = i
        BY <2>1
      <4>2. w[m - (m - i)] \in Int
        BY <4>1
      <4>. QED
        BY <4>1, <4>2
    <3>. QED
      BY <2>4, <3>1 DEF Weighs
  <2>6. SumFunctionOnSet(w, (m - k .. m - 1) \cup {m - (k + 1)})
          = w[m - (k + 1)] + SumFunctionOnSet(w, m - k .. m - 1)
    BY <2>4, <2>5, SumAdd
  <2>7. Same(k)
    BY <1>2, <2>1
  <2>. QED
    BY <2>2, <2>3, <2>4, <2>6, <2>7
<1>3. Nat \subseteq G
  <2>. HIDE DEF G
  <2>. QED
    BY <1>1, <1>2, NatSetInduction
<1>. QED
  BY <1>3

\* What a running sum gains is the sum of what it has passed.
LEMMA SumSplit ==
  ASSUME NEW a \in Nat, NEW n \in Nat, NEW w, Weighs(w, 1 .. a + n)
  PROVE  /\ SumFunctionOnSet(w, 1 .. a) \in Int
         /\ SumFunctionOnSet(w, a + 1 .. a + n) \in Int
         /\ SumFunctionOnSet(w, 1 .. a + n)
              = SumFunctionOnSet(w, 1 .. a) + SumFunctionOnSet(w, a + 1 .. a + n)
<1>. DEFINE whole(k) == SumFunctionOnSet(w, 1 .. a + k)
            part(k)  == SumFunctionOnSet(w, a + 1 .. a + k)
            first    == SumFunctionOnSet(w, 1 .. a)
            Split(k) == part(k) \in Int /\ whole(k) = first + part(k)
            G == {k \in Nat : k <= n => Split(k)}
<1>1. first \in Int
  <2>1. IsFiniteSet(1 .. a) /\ Weighs(w, 1 .. a)
    BY FS_Interval DEF Weighs
  <2>. QED
    BY <2>1, SumTake
<1>2. 0 \in G
  <2>1. a + 1 .. a + 0 = {} /\ a + 0 = a
    OBVIOUS
  <2>2. part(0) = 0
    BY <2>1, SumEmpty
  <2>. QED
    BY <1>1, <2>1, <2>2
<1>3. ASSUME NEW k \in Nat, k \in G  PROVE k + 1 \in G
  <2>1. SUFFICES ASSUME k + 1 <= n  PROVE Split(k + 1)
    OBVIOUS
  <2>. DEFINE b == a + k
  <2>2. b \in Nat /\ a + (k + 1) = b + 1 /\ b + 1 <= a + n
    BY <2>1
  <2>3. Weighs(w, 1 .. b + 1)
    BY <2>2 DEF Weighs
  <2>4. whole(k + 1) = w[b + 1] + whole(k) /\ w[b + 1] \in Int
    <3>1. SumFunctionOnSet(w, 1 .. b + 1) = w[b + 1] + SumFunctionOnSet(w, 1 .. b)
      <4>. HIDE DEF b
      <4>. QED
        BY <2>2, <2>3, SumFirst
    <3>2. b + 1 \in 1 .. b + 1
      BY <2>2
    <3>. QED
      BY <2>2, <2>3, <3>1, <3>2 DEF Weighs
  <2>5. part(k + 1) = w[b + 1] + part(k)
    <3>1. /\ a + 1 .. b + 1 = (a + 1 .. b) \cup {b + 1} /\ b + 1 \notin a + 1 .. b
          /\ IsFiniteSet(a + 1 .. b)
      <4>1. a + 1 \in Int /\ b \in Int /\ a + 1 <= b + 1
        OBVIOUS
      <4>2. \A x, y \in Int : x <= y + 1 => x .. y + 1 = (x .. y) \cup {y + 1}
        OBVIOUS
      <4>3. IsFiniteSet(a + 1 .. b)
        BY <4>1, FS_Interval
      <4>. HIDE DEF b
      <4>. QED
        BY <4>1, <4>2, <4>3
    <3>2. Weighs(w, (a + 1 .. b) \cup {b + 1})
      BY <2>2, <2>3, <3>1 DEF Weighs
    <3>3. SumFunctionOnSet(w, (a + 1 .. b) \cup {b + 1})
            = w[b + 1] + SumFunctionOnSet(w, a + 1 .. b)
      BY <3>1, <3>2, SumAdd
    <3>. QED
      BY <2>2, <3>1, <3>3
  <2>6. part(k) \in Int /\ whole(k) = first + part(k)
    BY <1>3, <2>1
  <2>. HIDE DEF whole, part, first, b
  <2>. QED
    BY <1>1, <2>4, <2>5, <2>6
<1>4. Nat \subseteq G
  <2>. HIDE DEF G
  <2>. QED
    BY <1>2, <1>3, NatSetInduction
<1>. QED
  BY <1>1, <1>4

----------------------------------------------------------------------------
(* Putting sequences one after the other.                                  *)

\* flat[k] is the first k of the sequences in one.
IsFlattening(flat, n, rows) ==
  /\ flat[1] = rows[1]
  /\ \A k \in 2 .. n : flat[k] = flat[k - 1] \o rows[k]
  /\ FlattenSeq(rows) = flat[n]

LEMMA FlatteningExists ==
  ASSUME NEW S, NEW n \in Nat \ {0}, NEW rows \in [1 .. n -> Seq(S)]
  PROVE  \E flat \in [1 .. n -> Seq(S)] : IsFlattening(flat, n, rows)
<1>. DEFINE U   == 1 .. n
            Val == Seq(S)
            st  == [p \in U \X Val |-> p[2] \o rows[p[1]]]
            Rec(f) == f = [i \in 1 .. Len(rows) |->
                             IF i = 1 THEN rows[i] ELSE f[i - 1] \o rows[i]]
            c   == CHOOSE f : Rec(f)
<1>1. Len(rows) = n
  <2>1. rows \in Seq(Val)
    OBVIOUS
  <2>. QED
    BY <2>1
<1>2. st \in [U \X Val -> Val] /\ <<>> \in Val
  <2>1. ASSUME NEW p \in U \X Val  PROVE p[2] \o rows[p[1]] \in Val
    <3>1. p[1] \in U /\ p[2] \in Val /\ rows[p[1]] \in Val
      OBVIOUS
    <3>. QED
      BY <3>1, ConcatProperties
  <2>. QED
    BY <2>1
<1>3. PICK g \in [SUBSET U -> Val] : IsLeftFold(g, n, <<>>, st)
  <2>. HIDE DEF st, Val
  <2>1. n \in Nat /\ st \in [(1 .. n) \X Val -> Val] /\ <<>> \in Val
    BY <1>2
  <2>2. HasLeftFold(n, Val, <<>>, st)
    BY <2>1, LeftFoldExists, Zenon
  <2>. QED
    BY <2>2 DEF HasLeftFold
<1>. DEFINE flat == [k \in U |-> g[1 .. k]]
<1>4. \A k \in U : 1 .. k \in SUBSET U /\ 1 .. k - 1 \in SUBSET U
  OBVIOUS
<1>5. flat \in [U -> Val]
  BY <1>4
<1>6. ASSUME NEW k \in U  PROVE g[1 .. k] = g[1 .. k - 1] \o rows[k]
  <2>1. Max(1 .. k) = k /\ (1 .. k) \ {k} = 1 .. k - 1 /\ 1 .. k # {}
    <3>1. k \in Nat \ {0}
      OBVIOUS
    <3>2. Max(1 .. k) = k /\ (1 .. k) \ {k} = 1 .. k - 1
      BY <3>1, MaxInterval
    <3>3. 1 \in 1 .. k
      OBVIOUS
    <3>. QED
      BY <3>2, <3>3
  <2>2. g[1 .. k] = st[<<k, g[1 .. k - 1]>>]
    <3>. HIDE DEF st
    <3>. QED
      BY <1>3, <1>4, <2>1 DEF IsLeftFold
  <2>3. <<k, g[1 .. k - 1]>> \in U \X Val
    BY <1>4
  <2>. QED
    BY <2>2, <2>3
<1>7. flat[1] = rows[1]
  <2>1. 1 \in U /\ 1 .. 1 - 1 = {} /\ {} \in SUBSET U /\ flat[1] = g[1 .. 1]
    OBVIOUS
  <2>2. g[{}] = <<>>
    <3>. HIDE DEF st
    <3>. QED
      BY <1>3, <2>1 DEF IsLeftFold
  <2>3. g[1 .. 1] = <<>> \o rows[1]
    <3>. HIDE DEF st
    <3>1. g[1 .. 1] = g[1 .. 1 - 1] \o rows[1]
      BY <1>6, <2>1
    <3>. QED
      BY <2>1, <2>2, <3>1
  <2>4. rows[1] \in Seq(S)
    BY <2>1
  <2>5. <<>> \o rows[1] = rows[1]
    BY <2>4, ConcatEmptySeq
  <2>. HIDE DEF flat, st
  <2>. QED
    BY <2>1, <2>3, <2>5
<1>8. ASSUME NEW k \in 2 .. n  PROVE flat[k] = flat[k - 1] \o rows[k]
  <2>1. k \in U /\ k - 1 \in U
    OBVIOUS
  <2>2. flat[k] = g[1 .. k] /\ flat[k - 1] = g[1 .. k - 1]
    BY <2>1
  <2>. HIDE DEF flat, U
  <2>. QED
    BY <1>6, <2>1, <2>2
<1>. HIDE DEF flat, st
<1>9. Rec(flat)
  <2>1. flat = [k \in U |-> flat[k]]
    BY <1>5
  <2>2. ASSUME NEW k \in U
        PROVE  flat[k] = IF k = 1 THEN rows[k] ELSE flat[k - 1] \o rows[k]
    <3>1. k # 1 => k \in 2 .. n
      OBVIOUS
    <3>. QED
      BY <1>7, <1>8, <3>1
  <2>. QED
    BY <1>1, <2>1, <2>2
<1>10. Rec(c)
  <2>. HIDE DEF Rec
  <2>. QED
    BY <1>9, Zenon
<1>11. FlattenSeq(rows) = c[n]
  <2>1. Len(rows) # 0
    BY <1>1
  <2>. QED
    BY <1>1, <2>1, Zenon DEF FlattenSeq
<1>. HIDE DEF c
<1>. DEFINE G == {k \in Nat : k \in U => c[k] = flat[k]}
<1>12. 0 \in G
  OBVIOUS
<1>13. ASSUME NEW k \in Nat, k \in G  PROVE k + 1 \in G
  <2>1. SUFFICES ASSUME k + 1 \in U  PROVE c[k + 1] = flat[k + 1]
    OBVIOUS
  <2>2. c[k + 1] = IF k + 1 = 1 THEN rows[k + 1] ELSE c[(k + 1) - 1] \o rows[k + 1]
    BY <1>1, <1>10, <2>1
  <2>3. CASE k = 0
    BY <1>7, <2>2, <2>3
  <2>4. CASE k # 0
    <3>1. k \in U /\ k + 1 \in 2 .. n /\ (k + 1) - 1 = k /\ k + 1 # 1
      BY <2>1, <2>4
    <3>2. c[k] = flat[k]
      BY <1>13, <3>1
    <3>. QED
      BY <1>8, <2>2, <3>1, <3>2
  <2>. QED
    BY <2>3, <2>4
<1>14. n \in G
  <2>1. Nat \subseteq G
    <3>. HIDE DEF G
    <3>. QED
      BY <1>12, <1>13, NatSetInduction
  <2>. QED
    BY <2>1
<1>15. IsFlattening(flat, n, rows)
  <2>1. c[n] = flat[n]
    BY <1>14
  <2>. QED
    BY <1>7, <1>8, <1>11, <2>1 DEF IsFlattening
<1>. QED
  BY <1>5, <1>15

\* Rows of the same length: element j of row i is at place (i - 1) * m + j.
PlaceOf(i, j, m) == (i - 1) * m + j
IsTable(t, n, m, rows) ==
  /\ Len(t) = n * m
  /\ \A i \in 1 .. n : \A j \in 1 .. m :
       PlaceOf(i, j, m) \in 1 .. n * m /\ t[PlaceOf(i, j, m)] = rows[i][j]

LEMMA FlattenTable ==
  ASSUME NEW S, NEW n \in Nat \ {0}, NEW m \in Nat, NEW rows \in [1 .. n -> Seq(S)],
         \A i \in 1 .. n : Len(rows[i]) = m
  PROVE  FlattenSeq(rows) \in Seq(S) /\ IsTable(FlattenSeq(rows), n, m, rows)
<1>1. PICK flat \in [1 .. n -> Seq(S)] : IsFlattening(flat, n, rows)
  BY FlatteningExists
<1>. DEFINE G == {k \in Nat : k \in 1 .. n => IsTable(flat[k], k, m, rows)}
<1>2. 0 \in G
  OBVIOUS
<1>3. ASSUME NEW k \in Nat, k \in G  PROVE k + 1 \in G
  <2>1. SUFFICES ASSUME k + 1 \in 1 .. n  PROVE IsTable(flat[k + 1], k + 1, m, rows)
    OBVIOUS
  <2>2. CASE k = 0
    <3>1. flat[k + 1] = rows[1] /\ Len(rows[1]) = m /\ (k + 1) * m = m
      BY <1>1, <2>2 DEF IsFlattening
    <3>2. \A i \in 1 .. k + 1 : \A j \in 1 .. m : i = 1 /\ PlaceOf(i, j, m) = j
      <4>1. (1 - 1) * m = 0
        OBVIOUS
      <4>. QED
        BY <2>2, <4>1 DEF PlaceOf
    <3>. QED
      BY <3>1, <3>2 DEF IsTable
  <2>3. CASE k # 0
    <3>. DEFINE p == k * m
                a == flat[k]
                b == rows[k + 1]
    <3>1. k \in 1 .. n /\ k + 1 \in 2 .. n /\ (k + 1) - 1 = k
      BY <2>1, <2>3
    <3>2. flat[k + 1] = a \o b
      BY <1>1, <3>1 DEF IsFlattening
    <3>3. IsTable(a, k, m, rows)
      BY <1>3, <3>1
    <3>4. a \in Seq(S) /\ b \in Seq(S) /\ Len(a) = p /\ Len(b) = m /\ p \in Nat
      BY <2>1, <3>1, <3>3 DEF IsTable
    <3>5. /\ Len(a \o b) = p + m
          /\ \A x \in 1 .. p + m : (a \o b)[x] = IF x <= p THEN a[x] ELSE b[x - p]
      <4>. HIDE DEF a, b, p
      <4>. QED
        BY <3>4, ConcatProperties
    <3>6. (k + 1) * m = p + m /\ ((k + 1) - 1) * m = p
      OBVIOUS
    <3>7. ASSUME NEW i \in 1 .. k + 1, NEW j \in 1 .. m
          PROVE  /\ PlaceOf(i, j, m) \in 1 .. p + m
                 /\ (a \o b)[PlaceOf(i, j, m)] = rows[i][j]
      <4>1. CASE i = k + 1
        <5>1. PlaceOf(i, j, m) = p + j
          BY <3>6, <4>1 DEF PlaceOf
        <5>. HIDE DEF a, p
        <5>2. p + j \in 1 .. p + m /\ ~(p + j <= p) /\ (p + j) - p = j
          BY <3>4
        <5>3. (a \o b)[p + j] = b[j]
          BY <3>5, <5>2
        <5>. QED
          BY <4>1, <5>1, <5>2, <5>3
      <4>2. CASE i # k + 1
        <5>1. i \in 1 .. k
          BY <4>2
        <5>2. PlaceOf(i, j, m) \in 1 .. p /\ a[PlaceOf(i, j, m)] = rows[i][j]
          BY <3>3, <5>1 DEF IsTable
        <5>. HIDE DEF a, b, p
        <5>. QED
          BY <3>4, <3>5, <5>2
      <4>. QED
        BY <4>1, <4>2
    <3>. HIDE DEF a, b, p
    <3>. QED
      BY <3>2, <3>5, <3>6, <3>7 DEF IsTable
  <2>. QED
    BY <2>2, <2>3
<1>4. n \in G
  <2>1. Nat \subseteq G
    <3>. HIDE DEF G
    <3>. QED
      BY <1>2, <1>3, NatSetInduction
  <2>. QED
    BY <2>1
<1>5. FlattenSeq(rows) = flat[n] /\ flat[n] \in Seq(S) /\ n \in 1 .. n
  BY <1>1 DEF IsFlattening
<1>. QED
  BY <1>4, <1>5

\* Every place of the table is one of some row, and the places are in order of
\* the rows first.
LEMMA TablePlaces ==
  ASSUME NEW n \in Nat, NEW m \in Nat \ {0}, NEW k \in 1 .. n * m
  PROVE  \E i \in 1 .. n : \E j \in 1 .. m : k = PlaceOf(i, j, m)
<1>. DEFINE q == (k - 1) \div m
            r == (k - 1) % m
<1>1. k \in Nat /\ k - 1 \in Nat /\ k - 1 < n * m
  <2>1. n * m \in Nat
    OBVIOUS
  <2>. HIDE DEF q, r
  <2>. QED
    BY <2>1
<1>2. q \in Nat /\ r \in 0 .. m - 1 /\ k - 1 = q * m + r
  BY <1>1
<1>. HIDE DEF q, r
<1>3. q < n
  <2>1. SUFFICES ASSUME q >= n  PROVE FALSE
    BY <1>2
  <2>2. PICK d \in Nat : q = n + d
    <3>1. q - n \in Nat /\ q = n + (q - n)
      BY <1>2, <2>1
    <3>. QED
      BY <3>1
  <2>3. q * m = n * m + d * m /\ d * m \in Nat
    BY <2>2
  <2>. QED
    BY <1>1, <1>2, <2>3
<1>4. q + 1 \in 1 .. n /\ r + 1 \in 1 .. m
  BY <1>2, <1>3
<1>5. k = PlaceOf(q + 1, r + 1, m)
  <2>1. (q + 1) - 1 = q /\ q * m \in Nat
    BY <1>2
  <2>2. PlaceOf(q + 1, r + 1, m) = q * m + (r + 1)
    BY <2>1 DEF PlaceOf
  <2>. QED
    BY <1>1, <1>2, <2>1, <2>2
<1>. QED
  BY <1>4, <1>5

LEMMA TableForward ==
  ASSUME NEW m \in Nat, NEW i1 \in Nat, NEW j1 \in 1 .. m, NEW i2 \in Nat, NEW j2 \in 1 .. m,
         i1 < i2 \/ (i1 = i2 /\ j1 < j2)
  PROVE  /\ PlaceOf(i1, j1, m) \in Int /\ PlaceOf(i2, j2, m) \in Int
         /\ PlaceOf(i1, j1, m) < PlaceOf(i2, j2, m)
<1>. DEFINE p == (i1 - 1) * m
<1>1. p \in Int /\ PlaceOf(i1, j1, m) = p + j1
  BY DEF PlaceOf
<1>2. CASE i1 = i2 /\ j1 < j2
  <2>1. PlaceOf(i2, j2, m) = p + j2
    BY <1>2 DEF PlaceOf
  <2>. HIDE DEF p
  <2>. QED
    BY <1>1, <1>2, <2>1
<1>3. CASE i1 < i2
  <2>1. PICK d \in Nat : i2 - 1 = (i1 - 1) + (d + 1)
    <3>1. i2 - i1 - 1 \in Nat /\ i2 - 1 = (i1 - 1) + ((i2 - i1 - 1) + 1)
      BY <1>3
    <3>. QED
      BY <3>1
  <2>. DEFINE e == d * m
  <2>2. (i2 - 1) * m = p + e + m
    BY <2>1
  <2>3. e \in Nat /\ PlaceOf(i2, j2, m) = p + e + m + j2
    BY <2>2 DEF PlaceOf
  <2>. HIDE DEF p, e
  <2>. QED
    BY <1>1, <2>3
<1>. QED
  BY <1>2, <1>3

LEMMA TableOrder ==
  ASSUME NEW m \in Nat, NEW i1 \in Nat, NEW j1 \in 1 .. m, NEW i2 \in Nat, NEW j2 \in 1 .. m
  PROVE  /\ PlaceOf(i1, j1, m) < PlaceOf(i2, j2, m) => i1 < i2 \/ (i1 = i2 /\ j1 < j2)
         /\ PlaceOf(i1, j1, m) = PlaceOf(i2, j2, m) => i1 = i2 /\ j1 = j2
<1>1. CASE i1 < i2 \/ (i1 = i2 /\ j1 < j2)
  BY <1>1, TableForward
<1>2. CASE i2 < i1 \/ (i2 = i1 /\ j2 < j1)
  BY <1>2, TableForward
<1>3. CASE i1 = i2 /\ j1 = j2
  <2>1. PlaceOf(i1, j1, m) \in Int
    BY DEF PlaceOf
  <2>. QED
    BY <1>3, <2>1
<1>. QED
  BY <1>1, <1>2, <1>3
============================================================================
