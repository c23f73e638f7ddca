---------------------------- MODULE DataInduction ----------------------------
(***************************************************************************)
(* Induction over numbers and over finite sets in a first-order form: a      *)
(* predicate is given as the set of the numbers, or the subsets, for which   *)
(* it holds.  Everything rests on the fact that strict inclusion is well     *)
(* founded on finite sets.                                                  *)
(***************************************************************************)
EXTENDS Integers, FiniteSetTheorems, WellFoundedInduction, TLAPS

\* A set of natural numbers that is not empty has a least element, as the least
\* free descriptor of open_file has to be one.
LEMMA LeastNatural ==
  ASSUME NEW T \in SUBSET Nat, T # {}
  PROVE  \E m \in T : \A k \in T : m <= k
<1> DEFINE R == StrictSubsetOrdering(Nat)
           I == {0..k : k \in T}
<1>1. IsWellFoundedOn(R, FiniteSubsetsOf(Nat))
  BY FS_StrictSubsetOrderingWellFounded
<1>2. I \subseteq FiniteSubsetsOf(Nat)
  <2>1. \A k \in T : 0..k \subseteq Nat /\ IsFiniteSet(0..k)
    BY FS_Interval
  <2> QED
    BY <2>1 DEF FiniteSubsetsOf
<1>3. I # {}
  OBVIOUS
<1>4. PICK s \in I : \A t \in I : <<t, s>> \notin R
  <2> HIDE DEF R, I
  <2> QED
    BY <1>1, <1>2, <1>3, WFMin
<1>5. PICK m \in T : s = 0..m
  OBVIOUS
<1>6. ASSUME NEW k \in T, k < m
      PROVE  FALSE
  <2>1. 0..k \subseteq 0..m /\ 0..k # 0..m
    <3>1. k \in Nat /\ m \in Nat
      OBVIOUS
    <3>2. m \in 0..m /\ m \notin 0..k
      BY <1>6, <3>1
    <3> QED
      BY <1>6, <3>1, <3>2
  <2>2. <<0..k, 0..m>> \in R
    BY <2>1 DEF StrictSubsetOrdering
  <2> QED
    BY <1>4, <1>5, <2>2
<1> QED
  BY <1>6

\* Induction: what holds of 0, and of n + 1 when it holds of n, holds of all
\* (the steps of a loop over a list, as in flush_strobe).
LEMMA Induction ==
  ASSUME NEW S \in SUBSET Nat, 0 \in S, \A n \in S : n + 1 \in S
  PROVE  S = Nat
<1> SUFFICES ASSUME S # Nat
             PROVE  FALSE
  OBVIOUS
<1>1. PICK m \in Nat \ S : \A k \in Nat \ S : m <= k
  BY LeastNatural
<1>2. m # 0
  OBVIOUS
<1>3. m - 1 \in Nat /\ m - 1 < m
  BY <1>2
<1>4. m - 1 \in S
  BY <1>1, <1>3
<1> QED
  BY <1>1, <1>4, <1>3

\* Induction over the subsets of a finite set: what holds of a set when it holds
\* of all smaller ones holds of all (a fold over the drivers of a net).
LEMMA SubsetInduction ==
  ASSUME NEW S, IsFiniteSet(S), NEW T,
         \A A \in SUBSET S : (\A B \in SUBSET A : B # A => B \in T) => A \in T
  PROVE  SUBSET S \subseteq T
<1> DEFINE R == StrictSubsetOrdering(S)
           F == (SUBSET S) \ T
<1> SUFFICES ASSUME F # {}
             PROVE  FALSE
  OBVIOUS
<1>1. IsWellFoundedOn(R, FiniteSubsetsOf(S))
  BY FS_StrictSubsetOrderingWellFounded
<1>2. F \subseteq FiniteSubsetsOf(S)
  BY FS_Subset DEF FiniteSubsetsOf
<1>3. PICK A \in F : \A B \in F : <<B, A>> \notin R
  <2> HIDE DEF R, F
  <2> QED
    BY <1>1, <1>2, WFMin
<1>4. A \in SUBSET S /\ A \notin T
  BY <1>3
<1>5. ASSUME NEW B \in SUBSET A, B # A, B \notin T
      PROVE  FALSE
  <2>1. B \in F
    BY <1>4, <1>5
  <2>2. <<B, A>> \in R
    BY <1>4, <1>5 DEF StrictSubsetOrdering
  <2> QED
    BY <1>3, <2>1, <2>2
<1> QED
  BY <1>4, <1>5

-----------------------------------------------------------------------------
(* Recursive functions exist *)

\* A function that is computed step by step from 0 on (the nets that a group has
\* after so many visits, in tran_component).
Recurs(f, a, G) == \A k \in Nat : f[k] = IF k = 0 THEN a ELSE G[<<k, f[k - 1]>>]

LEMMA NatRecursion ==
  ASSUME NEW V, NEW a \in V, NEW G \in [Nat \X V -> V]
  PROVE  \E f \in [Nat -> V] : Recurs(f, a, G)
<1> DEFINE Rec(g, n) == \A k \in 0 .. n : g[k] = IF k = 0 THEN a ELSE G[<<k, g[k - 1]>>]
           S == {n \in Nat : \E g \in [0 .. n -> V] : Rec(g, n)}
<1>1. 0 \in S
  <2> DEFINE g == [k \in 0 .. 0 |-> a]
  <2>1. \A k \in 0 .. 0 : k = 0
    OBVIOUS
  <2>2. g \in [0 .. 0 -> V] /\ Rec(g, 0)
    BY <2>1
  <2> QED
    BY <2>2
<1>2. ASSUME NEW n \in S
      PROVE  n + 1 \in S
  <2>1. PICK g \in [0 .. n -> V] : Rec(g, n)
    OBVIOUS
  <2> DEFINE h == [k \in 0 .. n + 1 |-> IF k = n + 1 THEN G[<<n + 1, g[n]>>] ELSE g[k]]
  <2>2. n \in 0 .. n /\ n + 1 \in Nat /\ \A k \in 0 .. n + 1 : k = n + 1 \/ k \in 0 .. n
    OBVIOUS
  <2>3. G[<<n + 1, g[n]>>] \in V
    BY <2>2
  <2>4. h \in [0 .. n + 1 -> V]
    BY <2>2, <2>3
  <2>5. ASSUME NEW k \in 0 .. n + 1
        PROVE  h[k] = IF k = 0 THEN a ELSE G[<<k, h[k - 1]>>]
    <3>1. CASE k = n + 1
      <4>1. k # 0 /\ k - 1 = n /\ n \in 0 .. n + 1 /\ n # n + 1
        BY <3>1
      <4> QED
        BY <3>1, <4>1
    <3>2. CASE k \in 0 .. n
      <4>1. g[k] = IF k = 0 THEN a ELSE G[<<k, g[k - 1]>>]
        BY <2>1, <3>2
      <4>2. k # n + 1 /\ (k # 0 => k - 1 \in 0 .. n + 1 /\ k - 1 # n + 1)
        BY <3>2
      <4> QED
        BY <4>1, <4>2
    <3> QED
      BY <2>2, <3>1, <3>2
  <2>6. Rec(h, n + 1)
    BY <2>5
  <2> HIDE DEF h, Rec
  <2> QED
    BY <2>2, <2>4, <2>6
<1>3. S = Nat
  <2>1. S \in SUBSET Nat
    OBVIOUS
  <2> HIDE DEF S
  <2> QED
    BY <1>1, <1>2, <2>1, Induction
<1>4. ASSUME NEW n \in Nat, NEW m \in Nat, NEW g, NEW h, Rec(g, n), Rec(h, m), NEW i \in Nat
      PROVE  i <= n /\ i <= m => g[i] = h[i]
  <2> DEFINE T == {k \in Nat : k <= n /\ k <= m => g[k] = h[k]}
  <2>1. 0 \in T
    <3>1. 0 \in 0 .. n /\ 0 \in 0 .. m
      OBVIOUS
    <3>2. g[0] = a /\ h[0] = a
      BY <1>4, <3>1
    <3> QED
      BY <3>2
  <2>2. ASSUME NEW k \in T
        PROVE  k + 1 \in T
    <3> SUFFICES ASSUME k + 1 <= n, k + 1 <= m
                 PROVE  g[k + 1] = h[k + 1]
      OBVIOUS
    <3>1. k \in Nat /\ k + 1 \in 0 .. n /\ k + 1 \in 0 .. m /\ k + 1 # 0 /\ k + 1 - 1 = k
      OBVIOUS
    <3>2. g[k] = h[k]
      BY <3>1
    <3>3. g[k + 1] = G[<<k + 1, g[k]>>] /\ h[k + 1] = G[<<k + 1, h[k]>>]
      BY <1>4, <3>1
    <3> QED
      BY <3>2, <3>3
  <2>3. T = Nat
    <3>1. T \in SUBSET Nat
      OBVIOUS
    <3> HIDE DEF T
    <3> QED
      BY <2>1, <2>2, <3>1, Induction
  <2> QED
    BY <2>3
<1> DEFINE At(n) == CHOOSE g \in [0 .. n -> V] : Rec(g, n)
           f == [k \in Nat |-> At(k)[k]]
<1>5. \A n \in Nat : At(n) \in [0 .. n -> V] /\ Rec(At(n), n)
  BY <1>3
<1> HIDE DEF Rec, At, S
<1>6. f \in [Nat -> V]
  <2>1. \A n \in Nat : n \in 0 .. n
    OBVIOUS
  <2>2. \A n \in Nat : At(n)[n] \in V
    BY <1>5, <2>1
  <2> QED
    BY <2>2
<1>7. ASSUME NEW k \in Nat
      PROVE  f[k] = IF k = 0 THEN a ELSE G[<<k, f[k - 1]>>]
  <2>1. k \in 0 .. k /\ Rec(At(k), k)
    BY <1>5
  <2>2. At(k)[k] = IF k = 0 THEN a ELSE G[<<k, At(k)[k - 1]>>]
    BY <2>1 DEF Rec
  <2>3. CASE k = 0
    BY <2>2, <2>3
  <2>4. CASE k # 0
    <3>1. k - 1 \in Nat /\ k - 1 <= k /\ k - 1 <= k - 1
      BY <2>4
    <3>2. Rec(At(k), k) /\ Rec(At(k - 1), k - 1)
      BY <1>5, <3>1
    <3>3. At(k)[k - 1] = At(k - 1)[k - 1]
      BY <1>4, <3>1, <3>2
    <3>4. f[k - 1] = At(k - 1)[k - 1] /\ f[k] = At(k)[k]
      BY <3>1
    <3> QED
      BY <2>2, <2>4, <3>3, <3>4
  <2> QED
    BY <2>3, <2>4
<1> HIDE DEF f
<1> QED
  BY <1>6, <1>7 DEF Recurs

\* The same along a list of n members, from the left and from the right (the
\* parts of a concatenation, the bits of an index).
AlongList(f, n, a, G) ==
  f = [k \in 0 .. n |-> IF k = 0 THEN a ELSE G[<<k, f[k - 1]>>]]

DownList(f, n, a, G) ==
  f = [k \in 0 .. n |-> IF k = n THEN a ELSE G[<<k, f[k + 1]>>]]

LEMMA ListRecursion ==
  ASSUME NEW V, NEW a \in V, NEW n \in Nat, NEW G \in [(1 .. n) \X V -> V]
  PROVE  \E f \in [0 .. n -> V] : AlongList(f, n, a, G)
<1> DEFINE H == [p \in Nat \X V |-> IF p[1] \in 1 .. n THEN G[p] ELSE a]
<1>1. H \in [Nat \X V -> V]
  <2>1. ASSUME NEW p \in Nat \X V
        PROVE  (IF p[1] \in 1 .. n THEN G[p] ELSE a) \in V
    <3>1. p[1] \in 1 .. n => p \in (1 .. n) \X V
      OBVIOUS
    <3> QED
      BY <3>1
  <2> QED
    BY <2>1
<1>2. ASSUME NEW k \in 1 .. n, NEW v \in V
      PROVE  H[<<k, v>>] = G[<<k, v>>]
  OBVIOUS
<1> HIDE DEF H
<1>3. PICK f \in [Nat -> V] : Recurs(f, a, H)
  BY <1>1, NatRecursion
<1> DEFINE g == [k \in 0 .. n |-> f[k]]
<1>4. g \in [0 .. n -> V]
  OBVIOUS
<1>5. ASSUME NEW k \in 0 .. n
      PROVE  g[k] = IF k = 0 THEN a ELSE G[<<k, g[k - 1]>>]
  <2>1. f[k] = IF k = 0 THEN a ELSE H[<<k, f[k - 1]>>]
    BY <1>3 DEF Recurs
  <2>2. CASE k = 0
    BY <2>1, <2>2
  <2>3. CASE k # 0
    <3>1. k \in 1 .. n /\ k - 1 \in Nat /\ k - 1 \in 0 .. n
      BY <2>3
    <3>2. f[k - 1] \in V
      BY <3>1
    <3>3. H[<<k, f[k - 1]>>] = G[<<k, f[k - 1]>>]
      BY <1>2, <3>1, <3>2
    <3> QED
      BY <2>1, <2>3, <3>1, <3>3
  <2> QED
    BY <2>2, <2>3
<1>6. AlongList(g, n, a, G)
  <2> HIDE DEF g
  <2>1. g = [k \in 0 .. n |-> g[k]]
    BY <1>4
  <2> QED
    BY <1>5, <2>1 DEF AlongList
<1> HIDE DEF g
<1> QED
  BY <1>4, <1>6

LEMMA ListRecursionDown ==
  ASSUME NEW V, NEW a \in V, NEW n \in Nat, NEW G \in [(0 .. n - 1) \X V -> V]
  PROVE  \E f \in [0 .. n -> V] : DownList(f, n, a, G)
<1> DEFINE H == [p \in (1 .. n) \X V |-> G[<<n - p[1], p[2]>>]]
<1>1. H \in [(1 .. n) \X V -> V]
  <2>1. ASSUME NEW p \in (1 .. n) \X V
        PROVE  G[<<n - p[1], p[2]>>] \in V
    <3>1. n - p[1] \in 0 .. n - 1 /\ p[2] \in V
      OBVIOUS
    <3> QED
      BY <3>1
  <2> QED
    BY <2>1
<1>2. ASSUME NEW k \in 1 .. n, NEW v \in V
      PROVE  H[<<k, v>>] = G[<<n - k, v>>]
  OBVIOUS
<1> HIDE DEF H
<1>3. PICK f \in [0 .. n -> V] : AlongList(f, n, a, H)
  BY <1>1, ListRecursion
<1> DEFINE g == [k \in 0 .. n |-> f[n - k]]
<1>4. g \in [0 .. n -> V]
  <2>1. \A k \in 0 .. n : n - k \in 0 .. n
    OBVIOUS
  <2> QED
    BY <2>1
<1>5. ASSUME NEW k \in 0 .. n
      PROVE  g[k] = IF k = n THEN a ELSE G[<<k, g[k + 1]>>]
  <2>1. n - k \in 0 .. n
    OBVIOUS
  <2>2. f[n - k] = IF n - k = 0 THEN a ELSE H[<<n - k, f[n - k - 1]>>]
    BY <1>3, <2>1 DEF AlongList
  <2>3. CASE k = n
    BY <2>2, <2>3
  <2>4. CASE k # n
    <3>1. /\ n - k \in 1 .. n /\ n - k # 0 /\ n - k - 1 \in 0 .. n
          /\ k + 1 \in 0 .. n /\ n - (k + 1) = n - k - 1 /\ n - (n - k) = k
      BY <2>4
    <3>2. f[n - k - 1] \in V
      BY <3>1
    <3>3. H[<<n - k, f[n - k - 1]>>] = G[<<k, f[n - k - 1]>>]
      BY <1>2, <3>1, <3>2
    <3>4. g[k + 1] = f[n - k - 1]
      BY <3>1
    <3> QED
      BY <2>2, <2>4, <3>1, <3>3, <3>4
  <2> QED
    BY <2>3, <2>4
<1>6. DownList(g, n, a, G)
  <2> HIDE DEF g
  <2>1. g = [k \in 0 .. n |-> g[k]]
    BY <1>4
  <2> QED
    BY <1>5, <2>1 DEF DownList
<1> HIDE DEF g
<1> QED
  BY <1>4, <1>6

\* Induction along a list, in both directions.
LEMMA ListInduction ==
  ASSUME NEW n \in Nat, NEW S, 0 \in S, \A k \in 1 .. n : k - 1 \in S => k \in S
  PROVE  0 .. n \subseteq S
<1> DEFINE T == {k \in Nat : k <= n => k \in S}
<1>1. 0 \in T
  OBVIOUS
<1>2. ASSUME NEW k \in T
      PROVE  k + 1 \in T
  <2>1. CASE k + 1 <= n
    <3>1. k + 1 \in 1 .. n /\ k + 1 - 1 = k
      BY <2>1
    <3> QED
      BY <3>1
  <2>2. CASE ~(k + 1 <= n)
    BY <2>2
  <2> QED
    BY <2>1, <2>2
<1>3. T = Nat
  <2>1. T \in SUBSET Nat
    OBVIOUS
  <2> HIDE DEF T
  <2> QED
    BY <1>1, <1>2, <2>1, Induction
<1> QED
  BY <1>3

LEMMA ListInductionDown ==
  ASSUME NEW n \in Nat, NEW S, n \in S, \A k \in 0 .. n - 1 : k + 1 \in S => k \in S
  PROVE  0 .. n \subseteq S
<1> DEFINE T == {k \in 0 .. n : n - k \in S}
<1>1. 0 \in T
  OBVIOUS
<1>2. ASSUME NEW k \in 1 .. n, k - 1 \in T
      PROVE  k \in T
  <2>1. n - k \in 0 .. n - 1 /\ n - k + 1 = n - (k - 1)
    OBVIOUS
  <2> QED
    BY <1>2, <2>1
<1>3. 0 .. n \subseteq T
  <2> HIDE DEF T
  <2> QED
    BY <1>1, <1>2, ListInduction
<1>4. ASSUME NEW k \in 0 .. n
      PROVE  k \in S
  <2>1. n - k \in 0 .. n /\ n - (n - k) = k
    OBVIOUS
  <2>2. n - k \in T
    BY <1>3, <2>1
  <2> QED
    BY <2>1, <2>2
<1> QED
  BY <1>4

\* A function of the subsets of a finite set, one element after another (a fold
\* over the elements in the order that C gives).
RecursOn(S, f, a, G, C) ==
  \A s \in SUBSET S : f[s] = IF s = {} THEN a ELSE G[<<C[s], f[s \ {C[s]}]>>]

LEMMA SetRecursion ==
  ASSUME NEW S, IsFiniteSet(S), NEW V, NEW a \in V, NEW G \in [S \X V -> V],
         NEW C, \A s \in SUBSET S : s # {} => C[s] \in s
  PROVE  \E f \in [SUBSET S -> V] : RecursOn(S, f, a, G, C)
<1> DEFINE W == [SUBSET S -> V]
           Start == [s \in SUBSET S |-> a]
           Step(g) == [s \in SUBSET S |-> IF s = {} THEN a ELSE G[<<C[s], g[s \ {C[s]}]>>]]
           H == [p \in Nat \X W |-> Step(p[2])]
<1>1. Start \in W
  OBVIOUS
<1>2. ASSUME NEW g \in W
      PROVE  Step(g) \in W
  <2>1. ASSUME NEW s \in SUBSET S, s # {}
        PROVE  G[<<C[s], g[s \ {C[s]}]>>] \in V
    <3>1. C[s] \in S /\ s \ {C[s]} \in SUBSET S
      BY <2>1
    <3>2. g[s \ {C[s]}] \in V
      BY <3>1
    <3>3. <<C[s], g[s \ {C[s]}]>> \in S \X V
      BY <3>1, <3>2
    <3> QED
      BY <3>3
  <2> QED
    BY <2>1
<1>3. H \in [Nat \X W -> W]
  <2> HIDE DEF W, Step
  <2> QED
    BY <1>2
<1>4. \A k \in Nat : \A g \in W : H[<<k, g>>] = Step(g)
  <2> HIDE DEF W, Step
  <2> QED
    OBVIOUS
<1> HIDE DEF H
<1>5. PICK F \in [Nat -> W] : Recurs(F, Start, H)
  <2> HIDE DEF W, Start, Step
  <2> QED
    BY <1>1, <1>3, NatRecursion
<1>6. F[0] = Start /\ \A k \in Nat : F[k] \in W /\ F[k + 1] = Step(F[k])
  <2> HIDE DEF W, Start, Step
  <2>1. F[0] = Start
    BY <1>5 DEF Recurs
  <2>2. ASSUME NEW k \in Nat
        PROVE  F[k] \in W /\ F[k + 1] = Step(F[k])
    <3>1. k + 1 \in Nat /\ k + 1 # 0 /\ k + 1 - 1 = k
      OBVIOUS
    <3>2. F[k + 1] = H[<<k + 1, F[k]>>]
      BY <1>5, <3>1 DEF Recurs
    <3> QED
      BY <1>4, <3>1, <3>2
  <2> QED
    BY <2>1, <2>2
<1> DEFINE n == Cardinality(S)
           T == {k \in Nat : \A s \in SUBSET S : Cardinality(s) <= k => F[k + 1][s] = F[k][s]}
<1>7. ASSUME NEW s \in SUBSET S
      PROVE  IsFiniteSet(s) /\ Cardinality(s) \in Nat /\ Cardinality(s) <= n /\ n \in Nat
  BY FS_Subset, FS_CardinalityType
<1>8. \A k \in Nat : \A s \in SUBSET S :
        F[k + 1][s] = IF s = {} THEN a ELSE G[<<C[s], F[k][s \ {C[s]}]>>]
  <2> HIDE DEF W
  <2>1. ASSUME NEW k \in Nat, NEW s \in SUBSET S
        PROVE  F[k + 1][s] = IF s = {} THEN a ELSE G[<<C[s], F[k][s \ {C[s]}]>>]
    <3>1. F[k + 1] = Step(F[k])
      BY <1>6
    <3> QED
      BY <3>1
  <2> QED
    BY <2>1
<1>9. 0 \in T
  <2>1. ASSUME NEW s \in SUBSET S, Cardinality(s) <= 0
        PROVE  F[0 + 1][s] = F[0][s]
    <3>1. Cardinality(s) = 0
      BY <1>7, <2>1
    <3>2. s = {}
      BY <1>7, <3>1, FS_EmptySet
    <3>3. F[0 + 1][s] = a
      BY <1>8, <3>2
    <3> QED
      BY <1>6, <3>3
  <2> QED
    BY <2>1
<1>10. ASSUME NEW k \in T
       PROVE  k + 1 \in T
  <2>1. ASSUME NEW s \in SUBSET S, Cardinality(s) <= k + 1
        PROVE  F[k + 1 + 1][s] = F[k + 1][s]
    <3>1. k \in Nat /\ k + 1 \in Nat
      OBVIOUS
    <3>2. CASE s = {}
      BY <1>8, <3>1, <3>2
    <3>3. CASE s # {}
      <4> DEFINE t == s \ {C[s]}
      <4>1. C[s] \in s /\ t \in SUBSET S
        BY <3>3
      <4>2. Cardinality(t) = Cardinality(s) - 1
        BY <1>7, <4>1, FS_RemoveElement
      <4>3. Cardinality(t) <= k
        BY <1>7, <2>1, <3>1, <4>2
      <4>4. F[k + 1][t] = F[k][t]
        BY <4>1, <4>3
      <4>5. F[k + 1 + 1][s] = G[<<C[s], F[k + 1][t]>>] /\ F[k + 1][s] = G[<<C[s], F[k][t]>>]
        BY <1>8, <3>1, <3>3
      <4> QED
        BY <4>4, <4>5
    <3> QED
      BY <3>2, <3>3
  <2> QED
    BY <2>1
<1>11. T = Nat
  <2>1. T \in SUBSET Nat
    OBVIOUS
  <2> HIDE DEF T
  <2> QED
    BY <1>9, <1>10, <2>1, Induction
<1>12. n \in Nat
  BY FS_CardinalityType
<1>13. ASSUME NEW s \in SUBSET S
       PROVE  F[n][s] = IF s = {} THEN a ELSE G[<<C[s], F[n][s \ {C[s]}]>>]
  <2>1. n \in T /\ Cardinality(s) <= n
    BY <1>7, <1>11, <1>12
  <2>2. F[n + 1][s] = F[n][s]
    BY <2>1
  <2> QED
    BY <1>8, <1>12, <2>2
<1>14. F[n] \in [SUBSET S -> V]
  BY <1>6, <1>12
<1> HIDE DEF n
<1> QED
  BY <1>13, <1>14 DEF RecursOn
=============================================================================
