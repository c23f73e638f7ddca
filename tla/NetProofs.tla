------------------------------ MODULE NetProofs ------------------------------
(***************************************************************************)
(* The resolution of nets in ContAssign, for every design: a net with        *)
(* several drivers has, bit by bit, the value of the strongest drive, and a   *)
(* trireg keeps what nothing drives.                                        *)
(*                                                                         *)
(* The code decides all X of the drivers at once, as 0 and then as 1, and     *)
(* folds the values of plain nets in some order.  Deciding the X one by one   *)
(* lies between those two, and the fold has a closed form.                   *)
(***************************************************************************)
EXTENDS ContAssignProofs, DataInduction

-----------------------------------------------------------------------------
(* The strongest drive *)

\* A set of levels has a highest one.
LEMMA TopLevel ==
  ASSUME NEW T \in SUBSET (0..7)
  PROVE  /\ Max({0} \cup T) \in 0..7
         /\ Max({0} \cup T) \in {0} \cup T
         /\ \A k \in T : k <= Max({0} \cup T)
<1> DEFINE S == {0} \cup T
           N == {7 - k : k \in S}
<1>0. S \subseteq 0..7
  OBVIOUS
<1>1. N \subseteq Nat /\ N # {}
  OBVIOUS
<1>2. PICK m \in N : \A k \in N : m <= k
  <2> HIDE DEF N
  <2> QED
    BY <1>1, LeastNatural
<1>3. PICK x \in S : m = 7 - x
  OBVIOUS
<1>4. ASSUME NEW y \in S
      PROVE  x >= y
  <2>1. 7 - y \in N
    OBVIOUS
  <2>2. m <= 7 - y
    BY <1>2, <2>1
  <2>3. x \in 0..7 /\ y \in 0..7
    BY <1>0
  <2> QED
    BY <1>3, <2>2, <2>3
<1> HIDE DEF S, N
<1>5. Max(S) \in S /\ \A y \in S : Max(S) >= y
  BY <1>4 DEF Max
<1>6. Max(S) \in 0..7 /\ \A y \in S : y <= Max(S)
  <2>1. Max(S) \in 0..7
    BY <1>0, <1>5
  <2>2. \A y \in S : y \in 0..7
    BY <1>0
  <2> QED
    BY <2>1, <2>2, <1>5
<1> QED
  BY <1>5, <1>6 DEF S

\* Strengths are levels.
Levelled(D) == \A d \in D : d.s[1] \in 0..7 /\ d.s[2] \in 0..7

Drives0To(d, i, ones) == BitOf(d.val, i) = "0" \/ (BitOf(d.val, i) = "x" /\ d \notin ones)
Drives1To(d, i, ones) == BitOf(d.val, i) = "1" \/ (BitOf(d.val, i) = "x" /\ d \in ones)

Top0(D, i, ones, s) ==
  /\ s \in 0..7
  /\ \A d \in D : Drives0To(d, i, ones) => d.s[1] <= s
  /\ s # 0 => \E d \in D : Drives0To(d, i, ones) /\ d.s[1] = s

Top1(D, i, ones, s) ==
  /\ s \in 0..7
  /\ \A d \in D : Drives1To(d, i, ones) => d.s[2] <= s
  /\ s # 0 => \E d \in D : Drives1To(d, i, ones) /\ d.s[2] = s

\* Strongest finds the highest level of those that drive 0, and 1.
LEMMA StrongestTop ==
  ASSUME NEW D, Levelled(D), NEW i, NEW ones
  PROVE  /\ Top0(D, i, ones, Strongest(D, i, "0", ones))
         /\ Top1(D, i, ones, Strongest(D, i, "1", ones))
<1> DEFINE T0 == {d.s[1] : d \in {e \in D : Drives0To(e, i, ones)}}
           T1 == {d.s[2] : d \in {e \in D : Drives1To(e, i, ones)}}
<1>1. Strongest(D, i, "0", ones) = Max({0} \cup T0)
  <2>1. {e \in D : BitOf(e.val, i) = "0" \/ (BitOf(e.val, i) = "x" /\ (e \in ones) = ("0" = "1"))}
          = {e \in D : Drives0To(e, i, ones)}
    BY DEF Drives0To
  <2> QED
    BY <2>1 DEF Strongest
<1>2. Strongest(D, i, "1", ones) = Max({0} \cup T1)
  <2>1. {e \in D : BitOf(e.val, i) = "1" \/ (BitOf(e.val, i) = "x" /\ (e \in ones) = ("1" = "1"))}
          = {e \in D : Drives1To(e, i, ones)}
    BY DEF Drives1To
  <2> QED
    BY <2>1 DEF Strongest
<1>3. T0 \in SUBSET (0..7) /\ T1 \in SUBSET (0..7)
  BY DEF Levelled
<1>4. ASSUME NEW s, s = Max({0} \cup T0)
      PROVE  Top0(D, i, ones, s)
  <2> HIDE DEF T0
  <2>1. s \in 0..7 /\ s \in {0} \cup T0 /\ \A k \in T0 : k <= s
    BY <1>3, <1>4, TopLevel
  <2> QED
    BY <2>1 DEF Top0, T0
<1>5. ASSUME NEW s, s = Max({0} \cup T1)
      PROVE  Top1(D, i, ones, s)
  <2> HIDE DEF T1
  <2>1. s \in 0..7 /\ s \in {0} \cup T1 /\ \A k \in T1 : k <= s
    BY <1>3, <1>5, TopLevel
  <2> QED
    BY <2>1 DEF Top1, T1
<1> QED
  BY <1>1, <1>2, <1>4, <1>5

Out(s0, s1) ==
  IF s0 = 0 /\ s1 = 0 THEN "z" ELSE IF s0 > s1 THEN "0" ELSE IF s1 > s0 THEN "1" ELSE "x"

\* The outcome of one choice follows from those two levels.
LEMMA OutcomeIs ==
  ASSUME NEW D, Levelled(D), NEW i, NEW ones
  PROVE  \E s0, s1 \in 0..7 :
           /\ Top0(D, i, ones, s0)
           /\ Top1(D, i, ones, s1)
           /\ Outcome(D, i, ones) = Out(s0, s1)
<1> DEFINE s0 == Strongest(D, i, "0", ones)
           s1 == Strongest(D, i, "1", ones)
<1>1. Outcome(D, i, ones) = Out(s0, s1)
  BY DEF Outcome, Out
<1>2. Top0(D, i, ones, s0) /\ Top1(D, i, ones, s1)
  BY StrongestTop
<1> HIDE DEF s0, s1
<1>3. s0 \in 0..7 /\ s1 \in 0..7
  BY <1>2 DEF Top0, Top1
<1> QED
  BY <1>1, <1>2, <1>3

\* With more of the X taken for 1, the 0 gets no stronger and the 1 no weaker.
LEMMA TopsMove ==
  ASSUME NEW D, NEW i, NEW A, NEW B, A \subseteq B,
         NEW a0 \in 0..7, NEW a1 \in 0..7, NEW b0 \in 0..7, NEW b1 \in 0..7,
         Top0(D, i, A, a0), Top1(D, i, A, a1), Top0(D, i, B, b0), Top1(D, i, B, b1)
  PROVE  b0 <= a0 /\ a1 <= b1
<1>1. CASE b0 # 0
  <2>1. PICK d \in D : Drives0To(d, i, B) /\ d.s[1] = b0
    BY <1>1 DEF Top0
  <2>2. Drives0To(d, i, A)
    BY <2>1 DEF Drives0To
  <2>3. b0 <= a0
    BY <2>1, <2>2 DEF Top0
  <2>4. CASE a1 = 0
    BY <2>3, <2>4
  <2>5. CASE a1 # 0
    <3>1. PICK e \in D : Drives1To(e, i, A) /\ e.s[2] = a1
      BY <2>5 DEF Top1
    <3>2. Drives1To(e, i, B)
      BY <3>1 DEF Drives1To
    <3> QED
      BY <2>3, <3>1, <3>2 DEF Top1
  <2> QED
    BY <2>4, <2>5
<1>2. CASE b0 = 0
  <2>4. CASE a1 = 0
    BY <1>2, <2>4
  <2>5. CASE a1 # 0
    <3>1. PICK e \in D : Drives1To(e, i, A) /\ e.s[2] = a1
      BY <2>5 DEF Top1
    <3>2. Drives1To(e, i, B)
      BY <3>1 DEF Drives1To
    <3> QED
      BY <1>2, <3>1, <3>2 DEF Top1
  <2> QED
    BY <2>4, <2>5
<1> QED
  BY <1>1, <1>2

\* So the two extreme choices decide whether all choices agree.
LEMMA StrongestDriveIs ==
  ASSUME NEW D, Levelled(D), NEW i
  PROVE  StrongestDrive(D, i) =
           IF Outcome(D, i, {}) = Outcome(D, i, D) THEN Outcome(D, i, {}) ELSE "x"
<1> DEFINE all == {Outcome(D, i, ones) : ones \in SUBSET D}
<1>1. Outcome(D, i, {}) \in all /\ Outcome(D, i, D) \in all
  OBVIOUS
<1>2. StrongestDrive(D, i) = IF Cardinality(all) = 1 THEN CHOOSE x \in all : TRUE ELSE "x"
  BY DEF StrongestDrive
<1>3. IsFiniteSet(all)
  <2>1. all \subseteq {"z", "0", "1", "x"}
    BY DEF Outcome
  <2>2. IsFiniteSet({"z", "0", "1", "x"})
    <3>1. IsFiniteSet({"z"})
      BY FS_Singleton
    <3>2. IsFiniteSet({"z"} \cup {"0"})
      BY <3>1, FS_AddElement
    <3>3. IsFiniteSet({"z"} \cup {"0"} \cup {"1"})
      BY <3>2, FS_AddElement
    <3>4. IsFiniteSet({"z"} \cup {"0"} \cup {"1"} \cup {"x"})
      BY <3>3, FS_AddElement
    <3>5. {"z", "0", "1", "x"} = {"z"} \cup {"0"} \cup {"1"} \cup {"x"}
      OBVIOUS
    <3> QED
      BY <3>4, <3>5
  <2> HIDE DEF all
  <2> QED
    BY <2>1, <2>2, FS_Subset
<1>4. CASE Outcome(D, i, {}) = Outcome(D, i, D)
  <2>1. ASSUME NEW ones \in SUBSET D
        PROVE  Outcome(D, i, ones) = Outcome(D, i, {})
    <3>1. PICK a0, a1 \in 0..7 : /\ Top0(D, i, {}, a0) /\ Top1(D, i, {}, a1)
                                 /\ Outcome(D, i, {}) = Out(a0, a1)
      BY OutcomeIs
    <3>2. PICK b0, b1 \in 0..7 : /\ Top0(D, i, D, b0) /\ Top1(D, i, D, b1)
                                 /\ Outcome(D, i, D) = Out(b0, b1)
      BY OutcomeIs
    <3>3. PICK m0, m1 \in 0..7 : /\ Top0(D, i, ones, m0) /\ Top1(D, i, ones, m1)
                                 /\ Outcome(D, i, ones) = Out(m0, m1)
      BY OutcomeIs, SMTT(20)
    <3>4. m0 <= a0 /\ a1 <= m1
      BY <3>1, <3>3, TopsMove, SMTT(20)
    <3>5. b0 <= m0 /\ m1 <= b1
      BY <3>2, <3>3, TopsMove
    <3>6. Out(a0, a1) = Out(b0, b1)
      BY <1>4, <3>1, <3>2
    <3>7. Out(m0, m1) = Out(a0, a1)
      BY <3>4, <3>5, <3>6 DEF Out
    <3> QED
      BY <3>1, <3>3, <3>7
  <2>2. \A x : x \in all <=> x = Outcome(D, i, {})
    BY <2>1
  <2> HIDE DEF all
  <2>4. all = {Outcome(D, i, {})}
    BY <2>2
  <2>3. Cardinality(all) = 1
    BY <2>4, FS_Singleton
  <2> QED
    BY <1>2, <1>4, <2>4, <2>3
<1>5. CASE Outcome(D, i, {}) # Outcome(D, i, D)
  <2> HIDE DEF all
  <2>1. Cardinality(all) # 1
    BY <1>1, <1>3, <1>5, FS_Singleton
  <2> QED
    BY <1>2, <1>5, <2>1
<1> QED
  BY <1>4, <1>5

-----------------------------------------------------------------------------
\* The drivers in D as resolve_strength takes them.
Driving(D) == {[val |-> d.val, s0 |-> d.s[1], s1 |-> d.s[2]] : d \in D}

\* The four values of a bit.
LEMMA BitCases ==
  ASSUME NEW v, NEW i
  PROVE  /\ BitOf(v, i) = "0" <=> i \notin v.a \cup v.b
         /\ BitOf(v, i) = "1" <=> i \in Ones(v)
         /\ BitOf(v, i) = "x" <=> i \in Xs(v)
         /\ BitOf(v, i) = "z" <=> i \in Zs(v)
         /\ BitOf(v, i) \in {"0", "1", "x", "z"}
BY DEF BitOf, Ones, Xs, Zs

\* The drivers that drive 1 where they have an X.
Chosen(D, one) == IF one THEN D ELSE {}

\* Drives0 and Drives1 of the code, in terms of the reference.
LEMMA DrivesAre ==
  ASSUME NEW D, NEW i, NEW l, NEW one \in BOOLEAN
  PROVE  /\ Drives0(Driving(D), l, i, one) <=>
              \E d \in D : Drives0To(d, i, Chosen(D, one)) /\ d.s[1] = l
         /\ Drives1(Driving(D), l, i, one) <=>
              \E d \in D : Drives1To(d, i, Chosen(D, one)) /\ d.s[2] = l
<1>2. ASSUME NEW d \in D
      PROVE  /\ (i \notin d.val.a \cup d.val.b \/ (i \in Xs(d.val) /\ ~one)) <=> Drives0To(d, i, Chosen(D, one))
             /\ (i \in Ones(d.val) \/ (i \in Xs(d.val) /\ one)) <=> Drives1To(d, i, Chosen(D, one))
  BY BitCases DEF Drives0To, Drives1To, Chosen
<1>3. Drives0(Driving(D), l, i, one) <=>
        \E d \in D : d.s[1] = l /\ (i \notin d.val.a \cup d.val.b \/ (i \in Xs(d.val) /\ ~one))
  <2>1. ASSUME NEW e \in Driving(D), e.s0 = l,
               i \notin e.val.a \cup e.val.b \/ (i \in Xs(e.val) /\ ~one)
        PROVE  \E d \in D : d.s[1] = l /\ (i \notin d.val.a \cup d.val.b \/ (i \in Xs(d.val) /\ ~one))
    BY <2>1 DEF Driving
  <2>2. ASSUME NEW d \in D, d.s[1] = l,
               i \notin d.val.a \cup d.val.b \/ (i \in Xs(d.val) /\ ~one)
        PROVE  \E e \in Driving(D) : e.s0 = l /\ (i \notin e.val.a \cup e.val.b \/ (i \in Xs(e.val) /\ ~one))
    <3>1. PICK e \in Driving(D) : e = [val |-> d.val, s0 |-> d.s[1], s1 |-> d.s[2]]
      BY DEF Driving
    <3>2. e.s0 = d.s[1] /\ e.val = d.val
      BY <3>1
    <3> QED
      BY <2>2, <3>2
  <2> QED
    BY <2>1, <2>2 DEF Drives0
<1>4. Drives1(Driving(D), l, i, one) <=>
        \E d \in D : d.s[2] = l /\ (i \in Ones(d.val) \/ (i \in Xs(d.val) /\ one))
  <2>1. ASSUME NEW e \in Driving(D), e.s1 = l,
               i \in Ones(e.val) \/ (i \in Xs(e.val) /\ one)
        PROVE  \E d \in D : d.s[2] = l /\ (i \in Ones(d.val) \/ (i \in Xs(d.val) /\ one))
    BY <2>1 DEF Driving
  <2>2. ASSUME NEW d \in D, d.s[2] = l,
               i \in Ones(d.val) \/ (i \in Xs(d.val) /\ one)
        PROVE  \E e \in Driving(D) : e.s1 = l /\ (i \in Ones(e.val) \/ (i \in Xs(e.val) /\ one))
    <3>1. PICK e \in Driving(D) : e = [val |-> d.val, s0 |-> d.s[1], s1 |-> d.s[2]]
      BY DEF Driving
    <3>2. e.s1 = d.s[2] /\ e.val = d.val
      BY <3>1
    <3> QED
      BY <2>2, <3>2
  <2> QED
    BY <2>1, <2>2 DEF Drives1
<1> QED
  BY <1>2, <1>3, <1>4

\* resolve_strength_with_x computes an extreme outcome.
LEMMA WithXBit ==
  ASSUME NEW D, Levelled(D), NEW w \in Nat, NEW i \in Bits(w),
         NEW one \in BOOLEAN
  PROVE  BitOf(resolve_strength_with_x(w, Driving(D), one), i) = Outcome(D, i, Chosen(D, one))
<1>1. PICK s0, s1 \in 0..7 : /\ Top0(D, i, Chosen(D, one), s0)
                             /\ Top1(D, i, Chosen(D, one), s1)
                             /\ Outcome(D, i, Chosen(D, one)) = Out(s0, s1)
  BY OutcomeIs
<1> DEFINE P0(l) == Drives0(Driving(D), l, i, one)
           P1(l) == Drives1(Driving(D), l, i, one)
           r == resolve_strength_with_x(w, Driving(D), one)
<1>a. ASSUME NEW l
      PROVE  /\ Drives0(Driving(D), l, i, one) <=>
                  \E d \in D : Drives0To(d, i, Chosen(D, one)) /\ d.s[1] = l
             /\ Drives1(Driving(D), l, i, one) <=>
                  \E d \in D : Drives1To(d, i, Chosen(D, one)) /\ d.s[2] = l
  BY DrivesAre
<1>2. /\ \A l \in Levels : P0(l) => l <= s0
      /\ s0 # 0 => P0(s0)
  <2> QED
    BY <1>1, <1>a DEF Top0
<1>3. /\ \A l \in Levels : P1(l) => l <= s1
      /\ s1 # 0 => P1(s1)
  <2> QED
    BY <1>1, <1>a DEF Top1
<1>4. \A l \in Levels : DecidedAt(Driving(D), l, i, one) <=>
         (P0(l) \/ P1(l)) /\ \A m \in (l + 1)..7 : ~P0(m) /\ ~P1(m)
  BY DEF DecidedAt
<1>5. /\ i \in r.a <=> \E l \in Levels : DecidedAt(Driving(D), l, i, one) /\ P1(l)
      /\ i \in r.b <=> \A l \in Levels : DecidedAt(Driving(D), l, i, one) => P0(l) /\ P1(l)
  BY DEF resolve_strength_with_x
<1> DEFINE At(l) == DecidedAt(Driving(D), l, i, one)
<1> HIDE DEF P0, P1, r, At
<1>6. \A l \in Levels : At(l) <=> (l = s0 /\ s1 <= s0) \/ (l = s1 /\ s0 <= s1)
  <2> SUFFICES ASSUME NEW l \in 1..7
               PROVE  At(l) <=> (l = s0 /\ s1 <= s0) \/ (l = s1 /\ s0 <= s1)
    BY DEF Levels
  <2>1. At(l) <=> (P0(l) \/ P1(l)) /\ \A m \in (l + 1)..7 : ~P0(m) /\ ~P1(m)
    BY <1>4 DEF At, Levels
  <2>2. ASSUME At(l)
        PROVE  (l = s0 /\ s1 <= s0) \/ (l = s1 /\ s0 <= s1)
    <3>1. s0 <= l /\ s1 <= l
      BY <1>2, <1>3, <2>1, <2>2
    <3>2. l <= s0 \/ l <= s1
      BY <1>2, <1>3, <2>1, <2>2 DEF Levels
    <3> QED
      BY <3>1, <3>2
  <2>3. ASSUME (l = s0 /\ s1 <= s0) \/ (l = s1 /\ s0 <= s1)
        PROVE  At(l)
    <3>1. P0(l) \/ P1(l)
      BY <1>2, <1>3, <2>3
    <3>2. ASSUME NEW m \in (l + 1)..7
          PROVE  ~P0(m) /\ ~P1(m)
      <4>1. m \in Levels /\ m > s0 /\ m > s1
        BY <2>3 DEF Levels
      <4> QED
        BY <1>2, <1>3, <4>1
    <3> QED
      BY <2>1, <3>1, <3>2
  <2> QED
    BY <2>2, <2>3
<1>7. /\ i \in r.a <=> \E l \in Levels : At(l) /\ P1(l)
      /\ i \in r.b <=> \A l \in Levels : At(l) => P0(l) /\ P1(l)
  BY <1>5 DEF P0, P1, r, At
<1>8. CASE s0 = 0 /\ s1 = 0
  <2>1. \A l \in Levels : ~At(l)
    BY <1>6, <1>8 DEF Levels
  <2>2. i \notin r.a /\ i \in r.b
    BY <1>7, <2>1
  <2>3. BitOf(r, i) = "z"
    BY <2>2, BitCases DEF Zs
  <2> QED
    BY <1>1, <1>8, <2>3 DEF Out, r
<1>9. CASE s0 > s1
  <2>1. \A l \in Levels : At(l) <=> l = s0
    BY <1>6, <1>9 DEF Levels
  <2>2. s0 \in Levels /\ ~P1(s0)
    BY <1>3, <1>9 DEF Levels
  <2>3. i \notin r.a /\ i \notin r.b
    BY <1>7, <2>1, <2>2
  <2>4. BitOf(r, i) = "0"
    BY <2>3, BitCases
  <2> QED
    BY <1>1, <1>9, <2>4 DEF Out, r
<1>10. CASE s1 > s0
  <2>1. \A l \in Levels : At(l) <=> l = s1
    BY <1>6, <1>10 DEF Levels
  <2>2. s1 \in Levels /\ ~P0(s1) /\ P1(s1)
    BY <1>2, <1>3, <1>10 DEF Levels
  <2>3. i \in r.a /\ i \notin r.b
    BY <1>7, <2>1, <2>2
  <2>4. BitOf(r, i) = "1"
    BY <2>3, BitCases DEF Ones
  <2> QED
    BY <1>1, <1>10, <2>4 DEF Out, r
<1>11. CASE s0 = s1 /\ s0 # 0
  <2>1. \A l \in Levels : At(l) <=> l = s1
    BY <1>6, <1>11 DEF Levels
  <2>2. s1 \in Levels /\ P0(s1) /\ P1(s1)
    BY <1>2, <1>3, <1>11 DEF Levels
  <2>3. i \in r.a /\ i \in r.b
    BY <1>7, <2>1, <2>2
  <2>4. BitOf(r, i) = "x"
    BY <2>3, BitCases DEF Xs
  <2> QED
    BY <1>1, <1>11, <2>4 DEF Out, r
<1> QED
  BY <1>8, <1>9, <1>10, <1>11

\* merge_unknown, bit by bit.
LEMMA MergedBit ==
  ASSUME NEW w \in Nat, NEW i \in Bits(w), NEW u, NEW v, u.width = w, v.width = w
  PROVE  BitOf(merge_unknown(u, v), i) = IF BitOf(u, i) = BitOf(v, i) THEN BitOf(u, i) ELSE "x"
<1>1. merge_unknown(u, v) =
        from_chunks(w, u.a \cup Xor(u.a, v.a) \cup Xor(u.b, v.b),
                       u.b \cup Xor(u.a, v.a) \cup Xor(u.b, v.b))
  BY DEF merge_unknown, Wider
<1> DEFINE m == merge_unknown(u, v)
<1>2. /\ i \in m.a <=> i \in u.a \/ i \in Xor(u.a, v.a) \/ i \in Xor(u.b, v.b)
      /\ i \in m.b <=> i \in u.b \/ i \in Xor(u.a, v.a) \/ i \in Xor(u.b, v.b)
  BY <1>1 DEF from_chunks
<1>3. /\ i \in Xor(u.a, v.a) <=> (i \in u.a) # (i \in v.a)
      /\ i \in Xor(u.b, v.b) <=> (i \in u.b) # (i \in v.b)
  BY DEF Xor
<1> HIDE DEF m
<1>4. CASE (i \in u.a <=> i \in v.a) /\ (i \in u.b <=> i \in v.b)
  BY <1>2, <1>3, <1>4 DEF BitOf, m, Xs, Zs
<1>5. CASE ~((i \in u.a <=> i \in v.a) /\ (i \in u.b <=> i \in v.b))
  <2>1. i \in m.a /\ i \in m.b
    BY <1>2, <1>3, <1>5
  <2>2. BitOf(u, i) # BitOf(v, i)
    BY <1>5 DEF BitOf, Xs, Zs
  <2> QED
    BY <2>1, <2>2 DEF BitOf, m, Xs
<1> QED
  BY <1>4, <1>5

\* resolve_strength, which decides all X at once, is the reference.
LEMMA StrengthBit ==
  ASSUME NEW D, Levelled(D), NEW w \in Nat, NEW i \in Bits(w)
  PROVE  BitOf(resolve_strength(w, Driving(D)), i) = StrongestDrive(D, i)
<1> DEFINE u == resolve_strength_with_x(w, Driving(D), FALSE)
           v == resolve_strength_with_x(w, Driving(D), TRUE)
<1>1. u.width = w /\ v.width = w
  BY DEF resolve_strength_with_x
<1>2. BitOf(u, i) = Outcome(D, i, {})
  <2>1. BitOf(u, i) = Outcome(D, i, Chosen(D, FALSE))
    BY WithXBit
  <2> QED
    BY <2>1 DEF Chosen
<1>3. BitOf(v, i) = Outcome(D, i, D)
  <2>1. BitOf(v, i) = Outcome(D, i, Chosen(D, TRUE))
    BY WithXBit
  <2> QED
    BY <2>1 DEF Chosen
<1>4. resolve_strength(w, Driving(D)) = merge_unknown(u, v)
  BY DEF resolve_strength
<1> HIDE DEF u, v
<1>5. BitOf(merge_unknown(u, v), i) = IF BitOf(u, i) = BitOf(v, i) THEN BitOf(u, i) ELSE "x"
  BY <1>1, MergedBit
<1> QED
  BY <1>2, <1>3, <1>4, <1>5, StrongestDriveIs

-----------------------------------------------------------------------------
(* The drivers of a net *)

\* With the charge of a trireg as one of them.
WithCharge(n, dv, held) ==
  AllDrivers(n, dv) \cup
    (IF Kind[n] = "trireg"
     THEN {[val |-> held, s |-> <<Charge[n], Charge[n]>>]} ELSE {})

\* What ContAssumption says of a net.
LEMMA DesignTypes ==
  /\ \A n \in Nets : /\ Width[n] \in Nat
                     /\ Charge[n] \in 1..7
                     /\ \A k \in DOMAIN Pulls[n] : Pulls[n][k] \in PullSet
                     /\ \A p \in Range(Pulls[n]) : p \in PullSet
                     /\ \A d \in net_drivers(n) : d[1] \in Conts /\ d[2] \in Parts(d[1]) /\ d = <<d[1], d[2]>>
  /\ \A c \in Conts : Strength[c][1] \in 0..7 /\ Strength[c][2] \in 0..7
<1>1. ASSUME NEW n \in Nets, NEW k \in DOMAIN Pulls[n]
      PROVE  Pulls[n][k] \in PullSet
  <2>1. Pulls[n] \in Seq(PullSet)
    BY ContAssumption
  <2> QED
    BY <2>1
<1>2. ASSUME NEW n \in Nets, NEW d \in net_drivers(n)
      PROVE  d[1] \in Conts /\ d[2] \in Parts(d[1]) /\ d = <<d[1], d[2]>>
  BY DEF net_drivers, AllParts
<1>3. \A n \in Nets : Width[n] \in Nat /\ Charge[n] \in 1..7
  BY ContAssumption
<1>4. \A c \in Conts : Strength[c] \in (0..7) \X (0..7)
  BY ContAssumption
<1>5. \A n \in Nets : \A p \in Range(Pulls[n]) : p \in PullSet
  BY <1>1 DEF Range
<1> QED
  BY <1>1, <1>2, <1>3, <1>4, <1>5

\* All strengths are levels.
LEMMA LevelsKnown ==
  ASSUME NEW n \in Nets, NEW dv, NEW held
  PROVE  Levelled(WithCharge(n, dv, held)) /\ Levelled(AllDrivers(n, dv))
<1>1. ASSUME NEW d \in AllDrivers(n, dv)
      PROVE  d.s[1] \in 0..7 /\ d.s[2] \in 0..7
  <2>1. CASE \E e \in net_drivers(n) : d.s = Strength[e[1]]
    BY <2>1, DesignTypes
  <2>2. CASE \E p \in Range(Pulls[n]) : d.s = <<p.level, p.level>>
    <3>1. PICK p \in Range(Pulls[n]) : d.s = <<p.level, p.level>>
      BY <2>2
    <3>2. p \in PullSet
      BY DesignTypes
    <3> QED
      BY <3>1, <3>2 DEF PullSet
  <2> QED
    BY <2>1, <2>2 DEF AllDrivers
<1>2. Charge[n] \in 0..7
  BY DesignTypes
<1> QED
  BY <1>1, <1>2 DEF Levelled, WithCharge

\* The drivers that the code collects are those of the reference and the charge.
LEMMA DriversDrive ==
  ASSUME NEW n \in Nets, NEW dv, NEW held
  PROVE  StrengthDrivers(n, dv, held) = Driving(WithCharge(n, dv, held))
<1> DEFINE own(d) == [val |-> dv[d], s0 |-> Strength[d[1]][1], s1 |-> Strength[d[1]][2]]
           D == net_drivers(n) \cap DOMAIN dv
           A == {[val |-> dv[d], s |-> Strength[d[1]]] : d \in D}
           B == {[val |-> PullDriver(n, p).val, s |-> <<p.level, p.level>>] : p \in Range(Pulls[n])}
           C == IF Kind[n] = "trireg"
                THEN {[val |-> held, s |-> <<Charge[n], Charge[n]>>]} ELSE {}
<1>1. Driving(A) = {own(d) : d \in D}
  <2>1. ASSUME NEW d \in D
        PROVE  own(d) \in Driving(A)
    <3>1. PICK e \in A : e = [val |-> dv[d], s |-> Strength[d[1]]]
      OBVIOUS
    <3>2. own(d) = [val |-> e.val, s0 |-> e.s[1], s1 |-> e.s[2]]
      BY <3>1
    <3> HIDE DEF A, own
    <3> QED
      BY <3>2 DEF Driving
  <2>2. ASSUME NEW x \in Driving(A)
        PROVE  \E d \in D : x = own(d)
    <3>1. PICK e \in A : x = [val |-> e.val, s0 |-> e.s[1], s1 |-> e.s[2]]
      BY DEF Driving
    <3>2. PICK d \in D : e = [val |-> dv[d], s |-> Strength[d[1]]]
      OBVIOUS
    <3>3. x = own(d)
      BY <3>1, <3>2
    <3> QED
      BY <3>3
  <2> HIDE DEF A, D, own
  <2> QED
    BY <2>1, <2>2
<1>2. Driving(B) = {PullDriver(n, Pulls[n][k]) : k \in DOMAIN Pulls[n]}
  <2>1. ASSUME NEW k \in DOMAIN Pulls[n]
        PROVE  PullDriver(n, Pulls[n][k]) \in Driving(B)
    <3>1. Pulls[n][k] \in Range(Pulls[n])
      BY DEF Range
    <3>2. PICK e \in B : e = [val |-> PullDriver(n, Pulls[n][k]).val,
                              s |-> <<Pulls[n][k].level, Pulls[n][k].level>>]
      BY <3>1
    <3>3. PullDriver(n, Pulls[n][k]) = [val |-> e.val, s0 |-> e.s[1], s1 |-> e.s[2]]
      BY <3>2 DEF PullDriver
    <3> HIDE DEF B
    <3> QED
      BY <3>3 DEF Driving
  <2>2. ASSUME NEW x \in Driving(B)
        PROVE  \E k \in DOMAIN Pulls[n] : x = PullDriver(n, Pulls[n][k])
    <3>1. PICK e \in B : x = [val |-> e.val, s0 |-> e.s[1], s1 |-> e.s[2]]
      BY DEF Driving
    <3>2. PICK p \in Range(Pulls[n]) :
            e = [val |-> PullDriver(n, p).val, s |-> <<p.level, p.level>>]
      OBVIOUS
    <3>3. PICK k \in DOMAIN Pulls[n] : p = Pulls[n][k]
      BY DEF Range
    <3>4. x = PullDriver(n, p)
      BY <3>1, <3>2 DEF PullDriver
    <3> QED
      BY <3>3, <3>4
  <2> HIDE DEF B
  <2> QED
    BY <2>1, <2>2
<1>3. Driving(C) = IF Kind[n] = "trireg"
                   THEN {[val |-> held, s0 |-> Charge[n], s1 |-> Charge[n]]} ELSE {}
  <2>1. CASE Kind[n] = "trireg"
    BY <2>1 DEF Driving
  <2>2. CASE Kind[n] # "trireg"
    BY <2>2 DEF Driving
  <2> QED
    BY <2>1, <2>2
<1>4. WithCharge(n, dv, held) = A \cup B \cup C
  BY DEF WithCharge, AllDrivers
<1>5. \A S, T : Driving(S \cup T) = Driving(S) \cup Driving(T)
  BY DEF Driving
<1>6. Driving(WithCharge(n, dv, held)) = Driving(A) \cup Driving(B) \cup Driving(C)
  <2> HIDE DEF A, B, C
  <2>1. Driving((A \cup B) \cup C) = Driving(A \cup B) \cup Driving(C)
    BY <1>5
  <2>2. Driving(A \cup B) = Driving(A) \cup Driving(B)
    BY <1>5
  <2> QED
    BY <1>4, <2>1, <2>2
<1>7. StrengthDrivers(n, dv, held)
        = {own(d) : d \in D} \cup {PullDriver(n, Pulls[n][k]) : k \in DOMAIN Pulls[n]}
          \cup (IF Kind[n] = "trireg"
                THEN {[val |-> held, s0 |-> Charge[n], s1 |-> Charge[n]]} ELSE {})
  BY DEF StrengthDrivers
<1> QED
  BY <1>1, <1>2, <1>3, <1>6, <1>7

\* A pull drives the bits of its range.
LEMMA PullBit ==
  ASSUME NEW n \in Nets, NEW p \in PullSet, NEW i \in Bits(Width[n])
  PROVE  BitOf(PullDriver(n, p).val, i) =
           IF i \in p.lo..(p.lo + p.w - 1) THEN (IF p.one THEN "1" ELSE "0") ELSE "z"
<1> DEFINE w == Width[n]
           A == IF p.one THEN Bits(p.w) ELSE {}
           kept == Bits(w) \ (p.lo..(p.lo + p.w - 1))
           v == PullDriver(n, p).val
<1>1. w \in Nat /\ p.lo \in Nat /\ p.w \in Nat /\ i \in Int
  BY DesignTypes DEF PullSet, Bits
<1>2. v = from_chunks(w, Up(A \cap Bits(p.w), p.lo), (Bits(w) \cap kept) \cup Up({}, p.lo))
  BY DEF PullDriver, insert_bits, z_of_width, all_bits
<1>3. i \in Up(A \cap Bits(p.w), p.lo) <=> p.one /\ i \in p.lo..(p.lo + p.w - 1)
  <2>1. CASE p.one
    <3>1. A \cap Bits(p.w) = 0..(p.w - 1)
      BY <2>1 DEF Bits
    <3>2. ASSUME i \in p.lo..(p.lo + p.w - 1)
          PROVE  i \in Up(0..(p.w - 1), p.lo)
      <4>1. i - p.lo \in 0..(p.w - 1) /\ i = (i - p.lo) + p.lo
        BY <1>1, <3>2
      <4> QED
        BY <4>1 DEF Up
    <3>3. ASSUME i \in Up(0..(p.w - 1), p.lo)
          PROVE  i \in p.lo..(p.lo + p.w - 1)
      BY <1>1, <3>3 DEF Up
    <3> QED
      BY <2>1, <3>1, <3>2, <3>3
  <2>2. CASE ~p.one
    BY <2>2 DEF Up
  <2> QED
    BY <2>1, <2>2
<1>4. Up({}, p.lo) = {}
  BY DEF Up
<1> HIDE DEF A
<1>5. /\ i \in v.a <=> p.one /\ i \in p.lo..(p.lo + p.w - 1)
      /\ i \in v.b <=> i \notin p.lo..(p.lo + p.w - 1)
  BY <1>2, <1>3, <1>4 DEF from_chunks
<1> HIDE DEF v
<1> QED
  BY <1>5 DEF BitOf, Xs, Zs, v

\* The bits of a net that counts strengths.
LEMMA StrengthAwareBit ==
  ASSUME NEW n \in Nets, StrengthAware(n), NEW i \in Bits(Width[n]), NEW dv, NEW held
  PROVE  BitOf(Resolved(n, dv, held), i) = StrongestDrive(WithCharge(n, dv, held), i)
<1>1. Resolved(n, dv, held) = resolve_strength(Width[n], Driving(WithCharge(n, dv, held)))
  BY DriversDrive DEF Resolved
<1>2. Levelled(WithCharge(n, dv, held)) /\ Width[n] \in Nat
  BY LevelsKnown, DesignTypes
<1> QED
  BY <1>1, <1>2, StrengthBit

-----------------------------------------------------------------------------
(* Triregs *)

\* A bit that one driver alone drives has that driver's value.
LEMMA LoneDriver ==
  ASSUME NEW D, Levelled(D), NEW i, NEW ch \in D, NEW c \in 1..7, ch.s = <<c, c>>,
         \A e \in D : e # ch => BitOf(e.val, i) = "z"
  PROVE  StrongestDrive(D, i) = BitOf(ch.val, i)
<1>1. ASSUME NEW ones
      PROVE  /\ BitOf(ch.val, i) = "0" => Outcome(D, i, ones) = "0"
             /\ BitOf(ch.val, i) = "1" => Outcome(D, i, ones) = "1"
             /\ BitOf(ch.val, i) = "z" => Outcome(D, i, ones) = "z"
             /\ BitOf(ch.val, i) = "x" =>
                  Outcome(D, i, ones) = IF ch \in ones THEN "1" ELSE "0"
  <2>1. PICK s0, s1 \in 0..7 : /\ Top0(D, i, ones, s0) /\ Top1(D, i, ones, s1)
                               /\ Outcome(D, i, ones) = Out(s0, s1)
    BY OutcomeIs
  <2>2. \A e \in D : /\ Drives0To(e, i, ones) => e = ch
                     /\ Drives1To(e, i, ones) => e = ch
    BY DEF Drives0To, Drives1To
  <2>3. s0 = IF Drives0To(ch, i, ones) THEN c ELSE 0
    <3>1. ch.s[1] = c
      OBVIOUS
    <3> QED
      BY <2>1, <2>2, <3>1 DEF Top0
  <2>4. s1 = IF Drives1To(ch, i, ones) THEN c ELSE 0
    <3>1. ch.s[2] = c
      OBVIOUS
    <3> QED
      BY <2>1, <2>2, <3>1 DEF Top1
  <2>5. /\ BitOf(ch.val, i) = "0" => Drives0To(ch, i, ones) /\ ~Drives1To(ch, i, ones)
        /\ BitOf(ch.val, i) = "1" => ~Drives0To(ch, i, ones) /\ Drives1To(ch, i, ones)
        /\ BitOf(ch.val, i) = "z" => ~Drives0To(ch, i, ones) /\ ~Drives1To(ch, i, ones)
        /\ BitOf(ch.val, i) = "x" =>
             /\ Drives0To(ch, i, ones) <=> ch \notin ones
             /\ Drives1To(ch, i, ones) <=> ch \in ones
    BY DEF Drives0To, Drives1To
  <2>6. Out(c, 0) = "0" /\ Out(0, c) = "1" /\ Out(0, 0) = "z"
    BY DEF Out
  <2> QED
    BY <2>1, <2>3, <2>4, <2>5, <2>6
<1>2. BitOf(ch.val, i) \in {"0", "1", "x", "z"}
  BY BitCases
<1>3. CASE BitOf(ch.val, i) = "x"
  <2>1. Outcome(D, i, {}) = "0" /\ Outcome(D, i, D) = "1"
    BY <1>1, <1>3
  <2> QED
    BY <1>3, <2>1, StrongestDriveIs
<1>4. CASE BitOf(ch.val, i) # "x"
  <2>1. Outcome(D, i, {}) = BitOf(ch.val, i) /\ Outcome(D, i, D) = BitOf(ch.val, i)
    BY <1>1, <1>2, <1>4
  <2> QED
    BY <2>1, StrongestDriveIs
<1> QED
  BY <1>3, <1>4

\* A driver that is stronger than all that may disagree decides.
LEMMA StrongerDriver ==
  ASSUME NEW D, Levelled(D), NEW i, NEW c \in 0..7, NEW d \in D
  PROVE  /\ BitOf(d.val, i) = "0" /\ d.s[1] > c
              /\ (\A e \in D : BitOf(e.val, i) \in {"0", "z"} \/ e.s[2] <= c)
            => StrongestDrive(D, i) = "0"
         /\ BitOf(d.val, i) = "1" /\ d.s[2] > c
              /\ (\A e \in D : BitOf(e.val, i) \in {"1", "z"} \/ e.s[1] <= c)
            => StrongestDrive(D, i) = "1"
<1>1. ASSUME BitOf(d.val, i) = "0", d.s[1] > c,
             \A e \in D : BitOf(e.val, i) \in {"0", "z"} \/ e.s[2] <= c
      PROVE  StrongestDrive(D, i) = "0"
  <2>1. ASSUME NEW ones
        PROVE  Outcome(D, i, ones) = "0"
    <3>1. PICK s0, s1 \in 0..7 : /\ Top0(D, i, ones, s0) /\ Top1(D, i, ones, s1)
                                 /\ Outcome(D, i, ones) = Out(s0, s1)
      BY OutcomeIs
    <3>2. d.s[1] <= s0 /\ d.s[1] \in 0..7
      BY <1>1, <3>1 DEF Drives0To, Top0, Levelled
    <3>3. s1 <= c
      <4>1. ASSUME s1 # 0
            PROVE  s1 <= c
        <5>1. PICK e \in D : Drives1To(e, i, ones) /\ e.s[2] = s1
          BY <3>1, <4>1 DEF Top1
        <5>2. BitOf(e.val, i) \notin {"0", "z"}
          BY <5>1 DEF Drives1To
        <5> QED
          BY <1>1, <5>1, <5>2
      <4> QED
        BY <4>1
    <3> QED
      BY <1>1, <3>1, <3>2, <3>3 DEF Out
  <2>2. Outcome(D, i, {}) = "0" /\ Outcome(D, i, D) = "0"
    BY <2>1
  <2> QED
    BY <2>2, StrongestDriveIs
<1>2. ASSUME BitOf(d.val, i) = "1", d.s[2] > c,
             \A e \in D : BitOf(e.val, i) \in {"1", "z"} \/ e.s[1] <= c
      PROVE  StrongestDrive(D, i) = "1"
  <2>1. ASSUME NEW ones
        PROVE  Outcome(D, i, ones) = "1"
    <3>1. PICK s0, s1 \in 0..7 : /\ Top0(D, i, ones, s0) /\ Top1(D, i, ones, s1)
                                 /\ Outcome(D, i, ones) = Out(s0, s1)
      BY OutcomeIs
    <3>2. d.s[2] <= s1 /\ d.s[2] \in 0..7
      BY <1>2, <3>1 DEF Drives1To, Top1, Levelled
    <3>3. s0 <= c
      <4>1. ASSUME s0 # 0
            PROVE  s0 <= c
        <5>1. PICK e \in D : Drives0To(e, i, ones) /\ e.s[1] = s0
          BY <3>1, <4>1 DEF Top0
        <5>2. BitOf(e.val, i) \notin {"1", "z"}
          BY <5>1 DEF Drives0To
        <5> QED
          BY <1>2, <5>1, <5>2
      <4> QED
        BY <4>1
    <3> QED
      BY <1>2, <3>1, <3>2, <3>3 DEF Out
  <2>2. Outcome(D, i, {}) = "1" /\ Outcome(D, i, D) = "1"
    BY <2>1
  <2> QED
    BY <2>2, StrongestDriveIs
<1> QED
  BY <1>1, <1>2

\* What KeepsCharge says of one bit, after a step that leaves `held` or
\* resolves the net anew.
Present(n, dv, i) ==
  {d \in net_drivers(n) \cap DOMAIN dv : BitOf(dv[d], i) # "z"}

Overcome(n, dv, i) ==
  /\ DrivenBits(dv, Present(n, dv, i), i) \in {{"0"}, {"1"}}
  /\ \A d \in Present(n, dv, i) : Min(Range(Strength[d[1]])) > Charge[n]

\* The charge of a trireg against its drivers.
LEMMA ChargeBit ==
  ASSUME NEW n \in Nets, Kind[n] = "trireg", NEW i \in Bits(Width[n]), Pulling(n, i) = {},
         NEW dv, NEW held
  PROVE  /\ Present(n, dv, i) = {} => BitOf(Resolved(n, dv, held), i) = BitOf(held, i)
         /\ Overcome(n, dv, i) =>
              BitOf(Resolved(n, dv, held), i) \in DrivenBits(dv, Present(n, dv, i), i)
<1> DEFINE D == WithCharge(n, dv, held)
           c == Charge[n]
           ch == [val |-> held, s |-> <<c, c>>]
<1>0. /\ Levelled(D)
      /\ BitOf(Resolved(n, dv, held), i) = StrongestDrive(D, i)
      /\ c \in 1..7
  BY LevelsKnown, StrengthAwareBit, DesignTypes DEF StrengthAware
<1>1. ch \in D /\ D = AllDrivers(n, dv) \cup {ch}
  BY DEF WithCharge
<1>2. ASSUME NEW e \in AllDrivers(n, dv), BitOf(e.val, i) # "z"
      PROVE  \E d \in Present(n, dv, i) : e = [val |-> dv[d], s |-> Strength[d[1]]]
  <2>1. CASE \E d \in net_drivers(n) \cap DOMAIN dv : e = [val |-> dv[d], s |-> Strength[d[1]]]
    BY <1>2, <2>1 DEF Present
  <2>2. CASE \E p \in Range(Pulls[n]) :
               e = [val |-> PullDriver(n, p).val, s |-> <<p.level, p.level>>]
    <3>1. PICK k \in DOMAIN Pulls[n] : e.val = PullDriver(n, Pulls[n][k]).val
      BY <2>2 DEF Range
    <3>2. i \notin Pulls[n][k].lo..(Pulls[n][k].lo + Pulls[n][k].w - 1)
      BY DEF Pulling
    <3>3. Pulls[n][k] \in PullSet
      BY DesignTypes
    <3> QED
      BY <1>2, <3>1, <3>2, <3>3, PullBit
  <2> QED
    BY <2>1, <2>2 DEF AllDrivers
<1>3. ASSUME Present(n, dv, i) = {}
      PROVE  StrongestDrive(D, i) = BitOf(held, i)
  <2>1. \A e \in D : e # ch => BitOf(e.val, i) = "z"
    BY <1>1, <1>2, <1>3
  <2>2. ch.s = <<c, c>> /\ ch.val = held
    OBVIOUS
  <2> HIDE DEF ch, D, c
  <2> QED
    BY <1>0, <1>1, <2>1, <2>2, LoneDriver
<1>4. ASSUME Overcome(n, dv, i)
      PROVE  StrongestDrive(D, i) \in DrivenBits(dv, Present(n, dv, i), i)
  <2>1. PICK b \in {"0", "1"} : DrivenBits(dv, Present(n, dv, i), i) = {b}
    BY <1>4 DEF Overcome
  <2>2. PICK d \in Present(n, dv, i) : BitOf(dv[d], i) = b
    BY <2>1 DEF DrivenBits
  <2>3. \A e \in Present(n, dv, i) : BitOf(dv[e], i) = b
    BY <2>1 DEF DrivenBits
  <2> DEFINE m == [val |-> dv[d], s |-> Strength[d[1]]]
  <2>4. m \in D /\ m.val = dv[d] /\ m.s = Strength[d[1]]
    BY <1>1 DEF AllDrivers, Present
  <2>5. Strength[d[1]][1] > c /\ Strength[d[1]][2] > c
    <3>1. d[1] \in Conts
      BY DesignTypes DEF Present
    <3>2. PICK s0, s1 \in 0..7 : Strength[d[1]] = <<s0, s1>>
      <4>1. Strength[d[1]] \in (0..7) \X (0..7)
        BY <3>1, ContAssumption
      <4> QED
        BY <4>1
    <3>3. Range(<<s0, s1>>) = {s0, s1}
      BY DEF Range
    <3>4. Min({s0, s1}) \in {s0, s1} /\ Min({s0, s1}) <= s0 /\ Min({s0, s1}) <= s1
      BY DEF Min
    <3>5. Min({s0, s1}) > c
      BY <1>4, <3>2, <3>3 DEF Overcome
    <3> QED
      BY <1>0, <3>2, <3>4, <3>5
  <2>6. ASSUME NEW e \in D
        PROVE  BitOf(e.val, i) \in {b, "z"} \/ (e.s[1] <= c /\ e.s[2] <= c)
    <3>1. CASE e = ch
      BY <1>0, <3>1
    <3>2. CASE e # ch /\ BitOf(e.val, i) # "z"
      BY <1>1, <1>2, <2>3, <3>2
    <3> QED
      BY <3>1, <3>2
  <2>7. m.s[1] > c /\ m.s[2] > c /\ BitOf(m.val, i) = b
    BY <2>2, <2>4, <2>5
  <2> HIDE DEF D, m, c, ch
  <2>8. StrongestDrive(D, i) = b
    <3>1. CASE b = "0"
      BY <1>0, <2>4, <2>6, <2>7, <3>1, StrongerDriver
    <3>2. CASE b = "1"
      BY <1>0, <2>4, <2>6, <2>7, <3>2, StrongerDriver
    <3> QED
      BY <3>1, <3>2
  <2> QED
    BY <2>1, <2>8
<1> QED
  BY <1>0, <1>3, <1>4
\* A step writes an assignment's value, or a variable, or neither.
LEMMA NetSteps ==
  ASSUME Shapes, [Next]_vars
  PROVE  \/ UNCHANGED <<net_values, driver_vals>>
         \/ \E c \in Conts : \E val, rest : write_cont(c, val, rest)
         \/ \E n \in DOMAIN Inputs : \E val : Write(n, val)
<1>1. ASSUME NEW e \in future_conts, apply_future_cont(e)
      PROVE  \/ UNCHANGED <<net_values, driver_vals>>
             \/ \E c \in Conts : \E val, rest : write_cont(c, val, rest)
  <2>1. e.cont \in Conts
    BY DEF Shapes
  <2> QED
    BY <1>1, <2>1 DEF apply_future_cont
<1>2. ASSUME NEW c \in Conts, EvalCont(c)
      PROVE  \/ UNCHANGED <<net_values, driver_vals>>
             \/ write_cont(c, Value(c, net_values), cont_dirty \ {c})
  BY <1>2 DEF EvalCont
<1>3. CASE EndActive \/ GiveUp \/ EndConts \/ EndDrain \/ Stop \/ Elapse \/ UNCHANGED vars
  BY <1>3 DEF EndActive, GiveUp, EndConts, EndDrain, Stop, Elapse, vars
<1>4. CASE Advance \/ Drain
  BY <1>1, <1>4 DEF Advance, Drain
<1> QED
  BY <1>2, <1>3, <1>4 DEF Next, Run, Stopped

\* write_cont resolves the nets it writes, and leaves the drivers of the others.
LEMMA WriteResolves ==
  ASSUME NEW c \in Conts, NEW val, NEW rest, write_cont(c, val, rest), NEW n \in Nets
  PROVE  /\ Multi(n) /\ n \in Targets(c) =>
              net_values'[n] = Resolved(n, driver_vals', net_values[n])
         /\ n \notin Targets(c) =>
              /\ net_values'[n] = net_values[n]
              /\ net_drivers(n) \cap DOMAIN driver_vals' = net_drivers(n) \cap DOMAIN driver_vals
              /\ \A d \in net_drivers(n) \cap DOMAIN driver_vals : driver_vals'[d] = driver_vals[d]
<1> DEFINE own == {<<c, j>> : j \in MultiParts(c)}
<1>1. /\ net_values' = NetsAfter(c, val, net_values, driver_vals)
      /\ driver_vals' = DriversAfter(c, val, driver_vals)
  BY DEF write_cont
<1>2. CASE n \notin Targets(c)
  <2>1. net_values'[n] = net_values[n]
    BY <1>1, <1>2 DEF NetsAfter, Targets
  <2>2. own \cap net_drivers(n) = {}
    <3>1. ASSUME NEW j \in MultiParts(c), <<c, j>> \in net_drivers(n)
          PROVE  FALSE
      <4>1. j \in Parts(c) /\ LVal[c][j].net = n
        BY <3>1 DEF MultiParts, net_drivers, Target
      <4> QED
        BY <1>2, <4>1 DEF Targets
    <3> QED
      BY <3>1
  <2>3. /\ DOMAIN driver_vals' = DOMAIN driver_vals \cup own
        /\ \A d \in DOMAIN driver_vals \ own : driver_vals'[d] = driver_vals[d]
    BY <1>1 DEF DriversAfter
  <2> HIDE DEF own
  <2> QED
    BY <1>2, <2>1, <2>2, <2>3
<1>3. CASE n \in Targets(c) /\ Multi(n)
  BY <1>1, <1>3 DEF NetsAfter, Targets
<1> QED
  BY <1>2, <1>3

\* A trireg whose drivers overcome the charge has their value.
ChargeInv ==
  \A n \in Nets : Kind[n] = "trireg" =>
    \A i \in {k \in Bits(Width[n]) : Pulling(n, k) = {}} :
      Overcome(n, driver_vals, i) =>
        BitOf(net_values[n], i) \in DrivenBits(driver_vals, Present(n, driver_vals, i), i)

\* What a step does to a trireg.
ChargeKept(n, i) ==
  /\ Present(n, driver_vals', i) = {} => BitOf(net_values'[n], i) = BitOf(net_values[n], i)
  /\ Overcome(n, driver_vals', i) =>
       BitOf(net_values'[n], i) \in DrivenBits(driver_vals', Present(n, driver_vals', i), i)

\* Every step keeps or overcomes the charge.
LEMMA ChargeStep ==
  ASSUME Shapes, ChargeInv, [Next]_vars, NEW n \in Nets, Kind[n] = "trireg",
         NEW i \in Bits(Width[n]), Pulling(n, i) = {}
  PROVE  ChargeKept(n, i)
<1>0. Overcome(n, driver_vals, i) =>
        BitOf(net_values[n], i) \in DrivenBits(driver_vals, Present(n, driver_vals, i), i)
  BY DEF ChargeInv
<1>1. ASSUME net_values'[n] = net_values[n],
             net_drivers(n) \cap DOMAIN driver_vals' = net_drivers(n) \cap DOMAIN driver_vals,
             \A d \in net_drivers(n) \cap DOMAIN driver_vals : driver_vals'[d] = driver_vals[d]
      PROVE  ChargeKept(n, i)
  <2>1. Present(n, driver_vals', i) = Present(n, driver_vals, i)
    BY <1>1 DEF Present
  <2>2. \A d \in Present(n, driver_vals, i) : driver_vals'[d] = driver_vals[d]
    BY <1>1 DEF Present
  <2>3. DrivenBits(driver_vals', Present(n, driver_vals, i), i)
          = DrivenBits(driver_vals, Present(n, driver_vals, i), i)
    BY <2>2 DEF DrivenBits
  <2> QED
    BY <1>0, <1>1, <2>1, <2>3 DEF ChargeKept, Overcome
<1>2. CASE UNCHANGED <<net_values, driver_vals>>
  BY <1>1, <1>2
<1>3. ASSUME NEW c \in Conts, NEW val, NEW rest, write_cont(c, val, rest)
      PROVE  ChargeKept(n, i)
  <2>1. CASE n \notin Targets(c)
    BY <1>1, <1>3, <2>1, WriteResolves
  <2>2. CASE n \in Targets(c)
    <3>1. Multi(n)
      BY DEF Multi
    <3>2. net_values'[n] = Resolved(n, driver_vals', net_values[n])
      BY <1>3, <2>2, <3>1, WriteResolves
    <3>3. \A dv, held :
            /\ Present(n, dv, i) = {} => BitOf(Resolved(n, dv, held), i) = BitOf(held, i)
            /\ Overcome(n, dv, i) =>
                 BitOf(Resolved(n, dv, held), i) \in DrivenBits(dv, Present(n, dv, i), i)
      BY ChargeBit
    <3> QED
      BY <3>2, <3>3 DEF ChargeKept
  <2> QED
    BY <2>1, <2>2
<1>4. ASSUME NEW m \in DOMAIN Inputs, NEW val, Write(m, val)
      PROVE  ChargeKept(n, i)
  <2>1. m # n
    BY ContAssumption
  <2>2. net_values'[n] = net_values[n] /\ driver_vals' = driver_vals
    BY <1>4, <2>1 DEF Write, Shapes
  <2> QED
    BY <1>1, <2>2
<1> QED
  BY <1>2, <1>3, <1>4, NetSteps

\* ChargeInv in every state (write_multi_driver on a trireg).
THEOREM ChargesInvariant == Spec => []ChargeInv
<1>1. Init => ChargeInv
  <2> SUFFICES ASSUME Init, NEW n \in Nets, NEW i
               PROVE  ~Overcome(n, driver_vals, i)
    BY DEF ChargeInv
  <2>1. DOMAIN driver_vals = {}
    BY DEF Init
  <2>2. Present(n, driver_vals, i) = {}
    BY <2>1 DEF Present
  <2>3. DrivenBits(driver_vals, {}, i) = {}
    BY DEF DrivenBits
  <2> QED
    BY <2>2, <2>3 DEF Overcome
<1>2. Shapes /\ ChargeInv /\ [Next]_vars => ChargeInv'
  BY ChargeStep DEF ChargeInv, ChargeKept
<1> QED
  BY <1>1, <1>2, ShapesKept, PTL DEF Spec

\* KeepsCharge for every design: a trireg keeps what nothing drives, and a
\* driver that is stronger than the charge wins (write_multi_driver).
THEOREM ChargeIsKept == Spec => KeepsCharge
<1>1. Shapes /\ ChargeInv /\ [Next]_vars =>
        [\A n \in Nets : Kind[n] = "trireg" =>
           \A i \in {k \in Bits(Width[n]) : Pulling(n, k) = {}} :
             LET present == {d \in net_drivers(n) \cap DOMAIN driver_vals' :
                               BitOf(driver_vals'[d], i) # "z"}
                 known == DrivenBits(driver_vals', present, i)
             IN  /\ present = {} => BitOf(net_values[n], i)' = BitOf(net_values[n], i)
                 /\ /\ known \in {{"0"}, {"1"}}
                    /\ \A d \in present : Min(Range(Strength[d[1]])) > Charge[n]
                    => BitOf(net_values[n], i)' \in known]_vars
  BY ChargeStep DEF ChargeKept, Overcome, Present
<1> QED
  BY <1>1, ShapesKept, ChargesInvariant, PTL DEF Spec, KeepsCharge

-----------------------------------------------------------------------------
(* The fast path: drivers one after the other, then the pulls *)

Values == {"0", "1", "x", "z"}

\* What the values B of some drivers make together.
Summary(n, B) ==
  IF Kind[n] = "wand" THEN WiredDrive(B, "0", "1")
  ELSE IF Kind[n] = "wor" THEN WiredDrive(B, "1", "0")
  ELSE IF "x" \in B \/ {"0", "1"} \subseteq B THEN "x"
  ELSE IF "0" \in B THEN "0" ELSE IF "1" \in B THEN "1" ELSE "z"

\* Two values make together.
Join(n, b, c) == Summary(n, {b, c})

\* One value more.
LEMMA SummaryJoin ==
  ASSUME NEW n, NEW B \in SUBSET Values, NEW b \in Values
  PROVE  Summary(n, B \cup {b}) = Join(n, Summary(n, B), b)
<1>1. CASE b = "0"
  BY <1>1 DEF Join, Summary, WiredDrive, Values
<1>2. CASE b = "1"
  BY <1>2 DEF Join, Summary, WiredDrive, Values
<1>3. CASE b = "x"
  BY <1>3 DEF Join, Summary, WiredDrive, Values
<1>4. CASE b = "z"
  BY <1>4 DEF Join, Summary, WiredDrive, Values
<1> QED
  BY <1>1, <1>2, <1>3, <1>4 DEF Values

\* Combine works bit by bit.
LEMMA CombineBit ==
  ASSUME NEW n, NEW w \in Nat, NEW u \in Vec(w), NEW v \in Vec(w)
  PROVE  /\ Combine(n, u, v) \in Vec(w)
         /\ \A i \in Bits(w) :
              BitOf(Combine(n, u, v), i) = Join(n, BitOf(u, i), BitOf(v, i))
<1>1. u.width = w /\ v.width = w /\ Wider(u, v) = w
  BY DEF Vec, Wider
<1>2. /\ Kind[n] = "wand" => Combine(n, u, v) = resolve_dominant(u, v, FALSE)
      /\ Kind[n] = "wor" => Combine(n, u, v) = resolve_dominant(u, v, TRUE)
      /\ Kind[n] \notin {"wand", "wor"} => Combine(n, u, v) = resolve(u, v)
  BY DEF Combine, resolve_wand, resolve_wor
<1>3. /\ resolve_dominant(u, v, FALSE) \in Vec(w)
      /\ resolve_dominant(u, v, TRUE) \in Vec(w)
      /\ resolve(u, v) \in Vec(w)
  BY <1>1, FromChunksVec DEF resolve_dominant, resolve
<1>4. ASSUME NEW i \in Bits(w)
      PROVE  BitOf(Combine(n, u, v), i) = Join(n, BitOf(u, i), BitOf(v, i))
  <2> DEFINE b == BitOf(u, i)
             c == BitOf(v, i)
  <2>1. /\ b = "0" <=> i \notin u.a /\ i \notin u.b
        /\ b = "1" <=> i \in u.a /\ i \notin u.b
        /\ b = "x" <=> i \in u.a /\ i \in u.b
        /\ b = "z" <=> i \notin u.a /\ i \in u.b
        /\ c = "0" <=> i \notin v.a /\ i \notin v.b
        /\ c = "1" <=> i \in v.a /\ i \notin v.b
        /\ c = "x" <=> i \in v.a /\ i \in v.b
        /\ c = "z" <=> i \notin v.a /\ i \in v.b
        /\ b \in Values /\ c \in Values
    BY DEF BitOf, Xs, Zs, Values
  <2>2. CASE Kind[n] = "wand"
    <3> DEFINE r == resolve_dominant(u, v, FALSE)
    <3>1. /\ i \in r.a <=> (b = "z" /\ i \in v.a) \/ (i \in u.a /\ c = "z" /\ b # "z")
                           \/ (b # "z" /\ c # "z" /\ ~(b = "0" \/ c = "0"))
          /\ i \in r.b <=> (b = "z" /\ i \in v.b) \/ (i \in u.b /\ c = "z" /\ b # "z")
                           \/ (b # "z" /\ c # "z" /\ (b = "x" \/ c = "x") /\ ~(b = "0" \/ c = "0"))
      <4>1. r = from_chunks(w,
                 (Zs(u) \cap v.a) \cup ((u.a \cap Zs(v)) \ Zs(u)) \cup
                   (((Bits(w) \ Zs(u)) \ Zs(v)) \cap (Bits(w) \ (Zeros(u, w) \cup Zeros(v, w)))),
                 (Zs(u) \cap v.b) \cup ((u.b \cap Zs(v)) \ Zs(u)) \cup
                   (((Bits(w) \ Zs(u)) \ Zs(v)) \cap ((Xs(u) \cup Xs(v)) \ (Zeros(u, w) \cup Zeros(v, w)))))
        BY <1>1 DEF resolve_dominant
      <4>2. /\ i \in Zs(u) <=> b = "z"
            /\ i \in Zs(v) <=> c = "z"
            /\ i \in Xs(u) <=> b = "x"
            /\ i \in Xs(v) <=> c = "x"
            /\ i \in Zeros(u, w) <=> b = "0"
            /\ i \in Zeros(v, w) <=> c = "0"
        BY <2>1 DEF Zs, Xs, Zeros
      <4> HIDE DEF b, c, r
      <4> QED
        BY <4>1, <4>2 DEF from_chunks
    <3>2. BitOf(r, i) = IF b = "z" THEN c ELSE IF c = "z" THEN b
                        ELSE IF b = "0" \/ c = "0" THEN "0"
                        ELSE IF b = "x" \/ c = "x" THEN "x" ELSE "1"
      <4> HIDE DEF b, c, r
      <4>1. BitOf(r, i) = IF i \in r.a THEN (IF i \in r.b THEN "x" ELSE "1")
                          ELSE (IF i \in r.b THEN "z" ELSE "0")
        BY DEF BitOf, Xs, Zs
      <4> QED
        BY <2>1, <3>1, <4>1 DEF Values
    <3>3. Join(n, b, c) = IF b = "z" THEN c ELSE IF c = "z" THEN b
                               ELSE IF b = "0" \/ c = "0" THEN "0"
                               ELSE IF b = "x" \/ c = "x" THEN "x" ELSE "1"
      <4> HIDE DEF b, c
      <4> QED
        BY <2>1, <2>2 DEF Join, Summary, WiredDrive, Values
    <3> QED
      BY <1>2, <2>2, <3>2, <3>3
  <2>3. CASE Kind[n] = "wor"
    <3> DEFINE r == resolve_dominant(u, v, TRUE)
    <3>1. /\ i \in r.a <=> (b = "z" /\ i \in v.a) \/ (i \in u.a /\ c = "z" /\ b # "z")
                           \/ (b # "z" /\ c # "z" /\ (b = "1" \/ c = "1" \/ b = "x" \/ c = "x"))
          /\ i \in r.b <=> (b = "z" /\ i \in v.b) \/ (i \in u.b /\ c = "z" /\ b # "z")
                           \/ (b # "z" /\ c # "z" /\ (b = "x" \/ c = "x") /\ ~(b = "1" \/ c = "1"))
      <4>1. r = from_chunks(w,
                 (Zs(u) \cap v.a) \cup ((u.a \cap Zs(v)) \ Zs(u)) \cup
                   (((Bits(w) \ Zs(u)) \ Zs(v)) \cap
                      ((Ones(u) \cup Ones(v)) \cup ((Xs(u) \cup Xs(v)) \ (Ones(u) \cup Ones(v))))),
                 (Zs(u) \cap v.b) \cup ((u.b \cap Zs(v)) \ Zs(u)) \cup
                   (((Bits(w) \ Zs(u)) \ Zs(v)) \cap ((Xs(u) \cup Xs(v)) \ (Ones(u) \cup Ones(v)))))
        BY <1>1 DEF resolve_dominant
      <4>2. /\ i \in Zs(u) <=> b = "z"
            /\ i \in Zs(v) <=> c = "z"
            /\ i \in Xs(u) <=> b = "x"
            /\ i \in Xs(v) <=> c = "x"
            /\ i \in Ones(u) <=> b = "1"
            /\ i \in Ones(v) <=> c = "1"
        BY <2>1 DEF Zs, Xs, Ones
      <4> HIDE DEF b, c, r
      <4> QED
        BY <4>1, <4>2 DEF from_chunks
    <3>2. BitOf(r, i) = IF b = "z" THEN c ELSE IF c = "z" THEN b
                        ELSE IF b = "1" \/ c = "1" THEN "1"
                        ELSE IF b = "x" \/ c = "x" THEN "x" ELSE "0"
      <4> HIDE DEF b, c, r
      <4>1. BitOf(r, i) = IF i \in r.a THEN (IF i \in r.b THEN "x" ELSE "1")
                          ELSE (IF i \in r.b THEN "z" ELSE "0")
        BY DEF BitOf, Xs, Zs
      <4> QED
        BY <2>1, <3>1, <4>1 DEF Values
    <3>3. Join(n, b, c) = IF b = "z" THEN c ELSE IF c = "z" THEN b
                               ELSE IF b = "1" \/ c = "1" THEN "1"
                               ELSE IF b = "x" \/ c = "x" THEN "x" ELSE "0"
      <4> HIDE DEF b, c
      <4> QED
        BY <2>1, <2>3 DEF Join, Summary, WiredDrive, Values
    <3> QED
      BY <1>2, <2>3, <3>2, <3>3
  <2>4. CASE Kind[n] \notin {"wand", "wor"}
    <3> DEFINE r == resolve(u, v)
    <3>1. /\ i \in r.a <=> (b = "z" /\ i \in v.a) \/ (i \in u.a /\ b # "z")
                           \/ (b # "z" /\ c # "z" /\ b # c)
          /\ i \in r.b <=> (b = "z" /\ i \in v.b) \/ (i \in u.b /\ b # "z")
                           \/ (b # "z" /\ c # "z" /\ b # c)
      <4>1. r = from_chunks(w,
                 (Zs(u) \cap v.a) \cup (u.a \ Zs(u)) \cup
                   (((Bits(w) \ Zs(u)) \ Zs(v)) \ (Bits(w) \ (Xor(u.a, v.a) \cup Xor(u.b, v.b)))),
                 (Zs(u) \cap v.b) \cup (u.b \ Zs(u)) \cup
                   (((Bits(w) \ Zs(u)) \ Zs(v)) \ (Bits(w) \ (Xor(u.a, v.a) \cup Xor(u.b, v.b)))))
        BY <1>1 DEF resolve
      <4>2. /\ i \in Zs(u) <=> b = "z"
            /\ i \in Zs(v) <=> c = "z"
            /\ i \in Xor(u.a, v.a) \cup Xor(u.b, v.b) <=> b # c
        BY <2>1 DEF Zs, Xor, Values
      <4> HIDE DEF b, c, r
      <4> QED
        BY <4>1, <4>2 DEF from_chunks
    <3>2. BitOf(r, i) = IF b = "z" THEN c ELSE IF c = "z" THEN b
                        ELSE IF b = c THEN b ELSE "x"
      <4> HIDE DEF b, c, r
      <4>1. BitOf(r, i) = IF i \in r.a THEN (IF i \in r.b THEN "x" ELSE "1")
                          ELSE (IF i \in r.b THEN "z" ELSE "0")
        BY DEF BitOf, Xs, Zs
      <4> QED
        BY <2>1, <3>1, <4>1 DEF Values
    <3>3. Join(n, b, c) = IF b = "z" THEN c ELSE IF c = "z" THEN b
                               ELSE IF b = c THEN b ELSE "x"
      <4> HIDE DEF b, c
      <4> QED
        BY <2>1, <2>4 DEF Join, Summary, Values
    <3> QED
      BY <1>2, <2>4, <3>2, <3>3
  <2> QED
    BY <2>2, <2>3, <2>4
<1> QED
  BY <1>2, <1>3, <1>4

\* Two vectors with the same bits are one.
LEMMA VecEqual ==
  ASSUME NEW w \in Nat, NEW u \in Vec(w), NEW v \in Vec(w),
         \A i \in Bits(w) : BitOf(u, i) = BitOf(v, i)
  PROVE  u = v
<1>1. /\ u = [width |-> w, a |-> u.a, b |-> u.b] /\ u.a \subseteq Bits(w) /\ u.b \subseteq Bits(w)
      /\ v = [width |-> w, a |-> v.a, b |-> v.b] /\ v.a \subseteq Bits(w) /\ v.b \subseteq Bits(w)
  BY DEF Vec
<1>2. ASSUME NEW i \in Bits(w)
      PROVE  (i \in u.a <=> i \in v.a) /\ (i \in u.b <=> i \in v.b)
  BY DEF BitOf, Xs, Zs
<1>3. u.a = v.a /\ u.b = v.b
  BY <1>1, <1>2
<1> QED
  BY <1>1, <1>3

\* The vector whose bits are the summaries of the drivers in D.
Summed(n, dv, D) ==
  LET bit(i) == Summary(n, DrivenBits(dv, D, i))
  IN  [width |-> Width[n],
       a |-> {i \in Bits(Width[n]) : bit(i) \in {"1", "x"}},
       b |-> {i \in Bits(Width[n]) : bit(i) \in {"x", "z"}}]

\* It is a vector of the width of the net.
LEMMA SummedBit ==
  ASSUME NEW n \in Nets, NEW dv, NEW D
  PROVE  /\ Summed(n, dv, D) \in Vec(Width[n])
         /\ \A i \in Bits(Width[n]) :
              BitOf(Summed(n, dv, D), i) = Summary(n, DrivenBits(dv, D, i))
<1>1. ASSUME NEW i \in Bits(Width[n])
      PROVE  BitOf(Summed(n, dv, D), i) = Summary(n, DrivenBits(dv, D, i))
  <2> DEFINE s == Summary(n, DrivenBits(dv, D, i))
  <2>1. s \in Values
    BY DEF Summary, WiredDrive, Values
  <2>2. /\ i \in Summed(n, dv, D).a <=> s \in {"1", "x"}
        /\ i \in Summed(n, dv, D).b <=> s \in {"x", "z"}
    BY DEF Summed
  <2> HIDE DEF s
  <2>3. BitOf(Summed(n, dv, D), i) = s
    BY <2>1, <2>2 DEF BitOf, Xs, Zs, Values
  <2> QED
    BY <2>3 DEF s
<1>2. Summed(n, dv, D) \in Vec(Width[n])
  BY DEF Summed, Vec
<1> QED
  BY <1>1, <1>2

\* Some drivers, if any, have a last one.
LEMMA LastIn ==
  ASSUME NEW D, IsFiniteSet(D), D # {}, D \subseteq Nat \X Nat
  PROVE  LastDriver(D) \in D
<1> DEFINE T == {A \in SUBSET D : A # {} => \E d \in A : \A e \in A :
                   e[1] < d[1] \/ (e[1] = d[1] /\ e[2] <= d[2])}
<1>1. ASSUME NEW A \in SUBSET D, \A B \in SUBSET A : B # A => B \in T
      PROVE  A \in T
  <2> SUFFICES ASSUME NEW x \in A
               PROVE  \E d \in A : \A e \in A :
                        e[1] < d[1] \/ (e[1] = d[1] /\ e[2] <= d[2])
    OBVIOUS
  <2>0. \A e \in A : e[1] \in Nat /\ e[2] \in Nat
    OBVIOUS
  <2>1. A \ {x} \in T
    BY <1>1
  <2>2. CASE A \ {x} = {}
    BY <2>0, <2>2
  <2>3. CASE A \ {x} # {}
    <3>1. PICK d \in A \ {x} : \A e \in A \ {x} :
            e[1] < d[1] \/ (e[1] = d[1] /\ e[2] <= d[2])
      BY <2>1, <2>3
    <3>2. CASE x[1] < d[1] \/ (x[1] = d[1] /\ x[2] <= d[2])
      BY <3>1, <3>2
    <3>3. CASE ~(x[1] < d[1] \/ (x[1] = d[1] /\ x[2] <= d[2]))
      <4>1. x[1] > d[1] \/ (x[1] = d[1] /\ x[2] > d[2])
        BY <2>0, <3>3
      <4>2. ASSUME NEW e \in A
            PROVE  e[1] < x[1] \/ (e[1] = x[1] /\ e[2] <= x[2])
        BY <2>0, <3>1, <4>1
      <4> QED
        BY <4>2
    <3> QED
      BY <3>2, <3>3
  <2> QED
    BY <2>2, <2>3
<1>2. SUBSET D \subseteq T
  <2> HIDE DEF T
  <2> QED
    BY <1>1, SubsetInduction
<1>3. D \in T
  BY <1>2
<1> QED
  BY <1>3 DEF LastDriver

\* Folding the drivers, in whatever order, gives the summary of their bits.
LEMMA FoldedIs ==
  ASSUME NEW n \in Nets, NEW dv, NEW D, IsFiniteSet(D), D \subseteq Nat \X Nat,
         \A d \in D : dv[d] \in Vec(Width[n])
  PROVE  Folded(n, dv, D) = Summed(n, dv, D)
<1> DEFINE w == Width[n]
           z == z_of_width(w)
           G(f) == [s \in SUBSET D |->
                      IF s = {} THEN z
                      ELSE Combine(n, f[s \ {LastDriver(s)}], dv[LastDriver(s)])]
           g == [s \in SUBSET D |-> Summed(n, dv, s)]
           h == CHOOSE f : f = G(f)
<1>0. w \in Nat
  BY DesignTypes
<1>1. Folded(n, dv, D) = h[D]
  BY DEF Folded, MapThenFoldSet
<1>2. ASSUME NEW s \in SUBSET D, s # {}
      PROVE  /\ LastDriver(s) \in s
             /\ Combine(n, Summed(n, dv, s \ {LastDriver(s)}), dv[LastDriver(s)]) = Summed(n, dv, s)
  <2>1. LastDriver(s) \in s
    BY <1>2, FS_Subset, LastIn
  <2> DEFINE l == LastDriver(s)
             r == s \ {l}
             u == Summed(n, dv, r)
  <2>2. l \in s /\ dv[l] \in Vec(w)
    BY <2>1
  <2>3. u \in Vec(w)
    BY SummedBit
  <2>4. ASSUME NEW i \in Bits(w)
        PROVE  BitOf(Combine(n, u, dv[l]), i) = BitOf(Summed(n, dv, s), i)
    <3> DEFINE B == DrivenBits(dv, r, i)
               b == BitOf(dv[l], i)
    <3>1. BitOf(Combine(n, u, dv[l]), i) = Join(n, BitOf(u, i), b)
      <4> DEFINE v == dv[l]
      <4>1. v \in Vec(w)
        BY <2>2
      <4> HIDE DEF u, l, w, r, v
      <4>2. BitOf(Combine(n, u, v), i) = Join(n, BitOf(u, i), BitOf(v, i))
        BY <1>0, <2>3, <4>1, CombineBit
      <4> QED
        BY <4>2 DEF v
    <3>2. BitOf(u, i) = Summary(n, B)
      BY SummedBit
    <3>3. B \in SUBSET Values /\ b \in Values
      BY BitCases DEF DrivenBits, Values
    <3>4. Summary(n, B \cup {b}) = Join(n, Summary(n, B), b)
      <4> HIDE DEF B, b
      <4> QED
        BY <3>3, SummaryJoin
    <3>5. DrivenBits(dv, s, i) = B \cup {b}
      <4> HIDE DEF l
      <4> QED
        BY <2>2 DEF DrivenBits
    <3>6. BitOf(Summed(n, dv, s), i) = Summary(n, DrivenBits(dv, s, i))
      BY SummedBit
    <3> QED
      BY <3>1, <3>2, <3>4, <3>5, <3>6
  <2>5. Combine(n, u, dv[l]) \in Vec(w) /\ Summed(n, dv, s) \in Vec(w)
    <3>1. Summed(n, dv, s) \in Vec(w)
      BY SummedBit
    <3> HIDE DEF u, l, w
    <3> QED
      BY <1>0, <2>2, <2>3, <3>1, CombineBit
  <2>6. Combine(n, u, dv[l]) = Summed(n, dv, s)
    <3> HIDE DEF u, l, w
    <3> QED
      BY <1>0, <2>4, <2>5, VecEqual
  <2> QED
    BY <2>1, <2>6
<1>3. Summed(n, dv, {}) = z
  <2>1. z \in Vec(w) /\ Summed(n, dv, {}) \in Vec(w)
    BY <1>0, ZVec, SummedBit
  <2>2. ASSUME NEW i \in Bits(w)
        PROVE  BitOf(Summed(n, dv, {}), i) = BitOf(z, i)
    <3>1. DrivenBits(dv, {}, i) = {}
      BY DEF DrivenBits
    <3>2. Summary(n, {}) = "z"
      BY DEF Summary, WiredDrive
    <3>3. BitOf(z, i) = "z"
      BY DEF BitOf, z_of_width, Xs, Zs
    <3> QED
      BY <3>1, <3>2, <3>3, SummedBit
  <2> QED
    BY <1>0, <2>1, <2>2, VecEqual
<1>4. ASSUME NEW s \in SUBSET D
      PROVE  g[s] = G(g)[s]
  <2>1. CASE s = {}
    BY <1>3, <2>1
  <2>2. CASE s # {}
    <3>1. s \ {LastDriver(s)} \in SUBSET D
      OBVIOUS
    <3>2. g[s \ {LastDriver(s)}] = Summed(n, dv, s \ {LastDriver(s)})
      BY <3>1
    <3>3. G(g)[s] = Combine(n, g[s \ {LastDriver(s)}], dv[LastDriver(s)])
      BY <2>2
    <3> QED
      BY <1>2, <2>2, <3>2, <3>3
  <2> QED
    BY <2>1, <2>2
<1>5. g = G(g)
  BY <1>4
<1>6. h = G(h)
  <2> HIDE DEF G, g
  <2> QED
    BY <1>5
<1> DEFINE T == {s \in SUBSET D : h[s] = g[s]}
<1>7. ASSUME NEW A \in SUBSET D, \A B \in SUBSET A : B # A => B \in T
      PROVE  A \in T
  <2>0. h[A] = G(h)[A]
    <3> HIDE DEF h, G
    <3> QED
      BY <1>6
  <2> HIDE DEF h
  <2>1. CASE A = {}
    BY <1>3, <2>0, <2>1
  <2>2. CASE A # {}
    <3> DEFINE l == LastDriver(A)
    <3>1. l \in A
      BY <1>2, <2>2
    <3>2. A \ {l} \in T
      BY <1>7, <3>1
    <3>3. h[A \ {l}] = Summed(n, dv, A \ {l})
      BY <3>2
    <3>4. h[A] = Combine(n, h[A \ {l}], dv[l])
      BY <2>0, <2>2
    <3> QED
      BY <1>2, <2>2, <3>3, <3>4
  <2> QED
    BY <2>1, <2>2
<1>8. SUBSET D \subseteq T
  <2> HIDE DEF T
  <2> QED
    BY <1>7, SubsetInduction
<1>9. h[D] = g[D]
  BY <1>8
<1>10. g[D] = Summed(n, dv, D)
  OBVIOUS
<1> QED
  BY <1>1, <1>9, <1>10

-----------------------------------------------------------------------------
(* Pulls *)

\* No bit is pulled up and down.  (Where one is, the code and the strengths
\* differ: see "Nets with pulls only" in the README.)
PullsAgree ==
  \A n \in Nets : \A i \in Bits(Width[n]) : \A j, k \in Pulling(n, i) :
    Pulls[n][j].one = Pulls[n][k].one

\* What the pulls make of a bit that nothing else drives.
PullValue(n, i, b) ==
  /\ Pulling(n, i) = {} => b = "z"
  /\ \A k \in Pulling(n, i) : b = IF Pulls[n][k].one THEN "1" ELSE "0"

\* pull_z_range changes the open bits only.
LEMMA PulledBit ==
  ASSUME PullsAgree, NEW n \in Nets, NEW i \in Bits(Width[n]), NEW x
  PROVE  /\ BitOf(x, i) = "z" => PullValue(n, i, BitOf(Pulled(n, x), i))
         /\ BitOf(x, i) # "z" => BitOf(Pulled(n, x), i) = BitOf(x, i)
<1> DEFINE z == {k \in Zs(x) : Pulling(n, k) # {}}
           first(k) == CHOOSE j \in Pulling(n, k) : \A m \in Pulling(n, k) : j <= m
           r == Pulled(n, x)
<1>1. r = from_chunks(Width[n], x.a \cup {k \in z : Pulls[n][first(k)].one}, x.b \ z)
  BY DEF Pulled
<1>2. /\ i \in r.a <=> i \in x.a \/ (i \in z /\ Pulls[n][first(i)].one)
      /\ i \in r.b <=> i \in x.b /\ i \notin z
  <2> HIDE DEF first, z, r
  <2> QED
    BY <1>1 DEF from_chunks
<1>3. i \in z <=> BitOf(x, i) = "z" /\ Pulling(n, i) # {}
  BY BitCases
<1>4. BitOf(r, i) = IF i \in r.a THEN (IF i \in r.b THEN "x" ELSE "1")
                    ELSE (IF i \in r.b THEN "z" ELSE "0")
  <2> HIDE DEF r
  <2> QED
    BY DEF BitOf, Xs, Zs
<1>5. BitOf(x, i) = IF i \in x.a THEN (IF i \in x.b THEN "x" ELSE "1")
                    ELSE (IF i \in x.b THEN "z" ELSE "0")
  BY DEF BitOf, Xs, Zs
<1> HIDE DEF z, r
<1>6. ASSUME BitOf(x, i) # "z"
      PROVE  BitOf(r, i) = BitOf(x, i)
  BY <1>2, <1>3, <1>4, <1>5, <1>6
<1>7. ASSUME BitOf(x, i) = "z", Pulling(n, i) = {}
      PROVE  BitOf(r, i) = "z"
  BY <1>2, <1>3, <1>4, <1>5, <1>7
<1>8. ASSUME BitOf(x, i) = "z", NEW k \in Pulling(n, i)
      PROVE  BitOf(r, i) = IF Pulls[n][k].one THEN "1" ELSE "0"
  <2>1. Pulling(n, i) \subseteq Nat
    <3>1. Pulls[n] \in Seq(PullSet)
      BY ContAssumption
    <3> QED
      BY <3>1 DEF Pulling
  <2>2. \E j \in Pulling(n, i) : \A m \in Pulling(n, i) : j <= m
    BY <1>8, <2>1, LeastNatural
  <2>3. first(i) \in Pulling(n, i)
    BY <2>2
  <2>4. Pulls[n][first(i)].one = Pulls[n][k].one
    BY <1>8, <2>3 DEF PullsAgree
  <2> HIDE DEF first
  <2> QED
    BY <1>2, <1>3, <1>4, <1>5, <1>8, <2>4
<1> QED
  BY <1>6, <1>7, <1>8 DEF PullValue, r

\* The pulls as drivers of bit i.
LEMMA PullDrivers ==
  ASSUME NEW n \in Nets, NEW i \in Bits(Width[n]), NEW dv, NEW e \in AllDrivers(n, dv)
  PROVE  \/ \E d \in net_drivers(n) \cap DOMAIN dv : e.val = dv[d] /\ e.s = Strength[d[1]]
         \/ BitOf(e.val, i) = "z" /\ \E k \in DOMAIN Pulls[n] : e.s = <<Pulls[n][k].level, Pulls[n][k].level>>
         \/ \E k \in Pulling(n, i) : /\ BitOf(e.val, i) = IF Pulls[n][k].one THEN "1" ELSE "0"
                                     /\ e.s = <<Pulls[n][k].level, Pulls[n][k].level>>
<1>1. CASE \E d \in net_drivers(n) \cap DOMAIN dv : e = [val |-> dv[d], s |-> Strength[d[1]]]
  BY <1>1
<1>2. CASE \E p \in Range(Pulls[n]) :
             e = [val |-> PullDriver(n, p).val, s |-> <<p.level, p.level>>]
  <2>1. PICK k \in DOMAIN Pulls[n] :
          e.val = PullDriver(n, Pulls[n][k]).val /\ e.s = <<Pulls[n][k].level, Pulls[n][k].level>>
    BY <1>2 DEF Range
  <2>2. Pulls[n][k] \in PullSet
    BY DesignTypes
  <2>3. BitOf(e.val, i) = IF k \in Pulling(n, i)
                          THEN (IF Pulls[n][k].one THEN "1" ELSE "0") ELSE "z"
    <3>1. k \in Pulling(n, i) <=>
            i \in Pulls[n][k].lo..(Pulls[n][k].lo + Pulls[n][k].w - 1)
      BY <2>1 DEF Pulling
    <3>2. BitOf(PullDriver(n, Pulls[n][k]).val, i) =
            IF i \in Pulls[n][k].lo..(Pulls[n][k].lo + Pulls[n][k].w - 1)
            THEN (IF Pulls[n][k].one THEN "1" ELSE "0") ELSE "z"
      BY <2>2, PullBit
    <3> QED
      BY <2>1, <3>1, <3>2
  <2> QED
    BY <2>1, <2>3
<1> QED
  BY <1>1, <1>2 DEF AllDrivers

\* A pull is a driver of the bits that it pulls.
LEMMA PullIsDriver ==
  ASSUME NEW n \in Nets, NEW i \in Bits(Width[n]), NEW dv, NEW k \in Pulling(n, i)
  PROVE  \E e \in AllDrivers(n, dv) :
           /\ BitOf(e.val, i) = IF Pulls[n][k].one THEN "1" ELSE "0"
           /\ e.s = <<Pulls[n][k].level, Pulls[n][k].level>>
<1>1. k \in DOMAIN Pulls[n] /\ i \in Pulls[n][k].lo..(Pulls[n][k].lo + Pulls[n][k].w - 1)
  BY DEF Pulling
<1>2. Pulls[n][k] \in Range(Pulls[n]) /\ Pulls[n][k] \in PullSet
  BY <1>1, DesignTypes DEF Range
<1> DEFINE e == [val |-> PullDriver(n, Pulls[n][k]).val,
                 s |-> <<Pulls[n][k].level, Pulls[n][k].level>>]
<1>3. e \in AllDrivers(n, dv)
  BY <1>2 DEF AllDrivers
<1>4. BitOf(e.val, i) = IF Pulls[n][k].one THEN "1" ELSE "0"
  BY <1>1, <1>2, PullBit
<1> QED
  BY <1>3, <1>4

\* A bit that no driver drives.
LEMMA Undriven ==
  ASSUME NEW D, Levelled(D), NEW i, \A e \in D : BitOf(e.val, i) = "z"
  PROVE  StrongestDrive(D, i) = "z"
<1>1. ASSUME NEW ones
      PROVE  Outcome(D, i, ones) = "z"
  <2>1. PICK s0, s1 \in 0..7 : /\ Top0(D, i, ones, s0) /\ Top1(D, i, ones, s1)
                               /\ Outcome(D, i, ones) = Out(s0, s1)
    BY OutcomeIs
  <2>2. s0 = 0
    BY <2>1 DEF Top0, Drives0To
  <2>3. s1 = 0
    BY <2>1 DEF Top1, Drives1To
  <2> QED
    BY <2>1, <2>2, <2>3 DEF Out
<1>2. Outcome(D, i, {}) = "z" /\ Outcome(D, i, D) = "z"
  BY <1>1
<1> QED
  BY <1>2, StrongestDriveIs

\* An X, or a 0 and a 1, among the strongest drivers.
LEMMA Conflicting ==
  ASSUME NEW D, Levelled(D), NEW i, NEW c \in 1..7,
         \A e \in D : e.s[1] <= c /\ e.s[2] <= c,
         NEW d \in D, NEW f \in D, d.s = <<c, c>>, f.s = <<c, c>>,
         \/ BitOf(d.val, i) = "x"
         \/ BitOf(d.val, i) = "0" /\ BitOf(f.val, i) = "1"
  PROVE  StrongestDrive(D, i) = "x"
<1>0. d.s[1] = c /\ d.s[2] = c /\ f.s[1] = c /\ f.s[2] = c
  OBVIOUS
<1>1. ASSUME NEW ones
      PROVE  \E s0, s1 \in 0..c :
               /\ Top0(D, i, ones, s0) /\ Top1(D, i, ones, s1)
               /\ Outcome(D, i, ones) = Out(s0, s1)
  <2>1. PICK s0, s1 \in 0..7 : /\ Top0(D, i, ones, s0) /\ Top1(D, i, ones, s1)
                               /\ Outcome(D, i, ones) = Out(s0, s1)
    BY OutcomeIs
  <2>2. s0 <= c
    BY <2>1 DEF Top0
  <2>3. s1 <= c
    BY <2>1 DEF Top1
  <2> QED
    BY <2>1, <2>2, <2>3
<1>2. Outcome(D, i, {}) \in {"0", "x"}
  <2>1. PICK s0, s1 \in 0..c : /\ Top0(D, i, {}, s0) /\ Top1(D, i, {}, s1)
                               /\ Outcome(D, i, {}) = Out(s0, s1)
    BY <1>1
  <2>2. c <= s0
    BY <1>0, <2>1 DEF Top0, Drives0To
  <2> QED
    BY <2>1, <2>2 DEF Out
<1>3. Outcome(D, i, D) \in {"1", "x"}
  <2>1. PICK s0, s1 \in 0..c : /\ Top0(D, i, D, s0) /\ Top1(D, i, D, s1)
                               /\ Outcome(D, i, D) = Out(s0, s1)
    BY <1>1
  <2>2. c <= s1
    BY <1>0, <2>1 DEF Top1, Drives1To
  <2> QED
    BY <2>1, <2>2 DEF Out
<1> QED
  BY <1>2, <1>3, StrongestDriveIs

\* Only the pulls drive.
LEMMA OnlyPulls ==
  ASSUME PullsAgree, NEW n \in Nets, NEW i \in Bits(Width[n]), NEW dv,
         \A d \in net_drivers(n) \cap DOMAIN dv : BitOf(dv[d], i) = "z"
  PROVE  PullValue(n, i, StrongestDrive(AllDrivers(n, dv), i))
<1> DEFINE D == AllDrivers(n, dv)
<1>0. Levelled(D)
  BY LevelsKnown
<1>1. ASSUME Pulling(n, i) = {}
      PROVE  StrongestDrive(D, i) = "z"
  <2>1. \A e \in D : BitOf(e.val, i) = "z"
    BY <1>1, PullDrivers
  <2> HIDE DEF D
  <2> QED
    BY <1>0, <2>1, Undriven
<1>2. ASSUME NEW k \in Pulling(n, i)
      PROVE  StrongestDrive(D, i) = IF Pulls[n][k].one THEN "1" ELSE "0"
  <2>1. PICK d \in D : /\ BitOf(d.val, i) = IF Pulls[n][k].one THEN "1" ELSE "0"
                       /\ d.s = <<Pulls[n][k].level, Pulls[n][k].level>>
    BY PullIsDriver
  <2>2. Pulls[n][k].level \in 1..7
    BY DesignTypes DEF PullSet, Pulling
  <2>3. d.s[1] > 0 /\ d.s[2] > 0
    BY <2>1, <2>2
  <2>4. ASSUME NEW e \in D
        PROVE  BitOf(e.val, i) \in {IF Pulls[n][k].one THEN "1" ELSE "0", "z"}
    <3>1. CASE \E j \in Pulling(n, i) : BitOf(e.val, i) = IF Pulls[n][j].one THEN "1" ELSE "0"
      <4>1. PICK j \in Pulling(n, i) : BitOf(e.val, i) = IF Pulls[n][j].one THEN "1" ELSE "0"
        BY <3>1
      <4>2. Pulls[n][j].one = Pulls[n][k].one
        BY DEF PullsAgree
      <4> QED
        BY <4>1, <4>2
    <3> QED
      BY <3>1, PullDrivers
  <2> HIDE DEF D
  <2>5. CASE Pulls[n][k].one
    <3>1. BitOf(d.val, i) = "1" /\ \A e \in D : BitOf(e.val, i) \in {"1", "z"}
      BY <2>1, <2>4, <2>5
    <3>2. StrongestDrive(D, i) = "1"
      BY <1>0, <2>3, <3>1, StrongerDriver
    <3> QED
      BY <2>5, <3>2
  <2>6. CASE ~Pulls[n][k].one
    <3>1. BitOf(d.val, i) = "0" /\ \A e \in D : BitOf(e.val, i) \in {"0", "z"}
      BY <2>1, <2>4, <2>6
    <3>2. StrongestDrive(D, i) = "0"
      BY <1>0, <2>3, <3>1, StrongerDriver
    <3> QED
      BY <2>6, <3>2
  <2> QED
    BY <2>5, <2>6
<1> QED
  BY <1>1, <1>2 DEF PullValue

\* The pulls leave no choice.
LEMMA PullValueUnique ==
  ASSUME NEW n, NEW i, NEW b, NEW c, PullValue(n, i, b), PullValue(n, i, c)
  PROVE  b = c
BY DEF PullValue

-----------------------------------------------------------------------------
(* Every resolved net has the value of the reference *)

\* A net has finitely many drivers, each a part of an assignment.
LEMMA DriversFinite ==
  ASSUME NEW n \in Nets
  PROVE  net_drivers(n) \subseteq Nat \X Nat /\ IsFiniteSet(net_drivers(n))
<1> DEFINE Of(A) == {d \in AllParts : d[1] \in A}
           T == {A \in SUBSET Conts : IsFiniteSet(Of(A))}
<1>1. ASSUME NEW d \in AllParts
      PROVE  d[1] \in Conts /\ d[2] \in Parts(d[1]) /\ d = <<d[1], d[2]>>
  BY DEF AllParts
<1>2. ASSUME NEW c \in Conts
      PROVE  Parts(c) \subseteq Nat /\ IsFiniteSet({c} \X Parts(c))
  <2>1. LVal[c] \in Seq(PartSet)
    BY ContAssumption
  <2>2. Parts(c) = 1..Len(LVal[c]) /\ Len(LVal[c]) \in Nat
    BY <2>1 DEF Parts
  <2>3. IsFiniteSet(Parts(c))
    BY <2>2, FS_Interval
  <2>4. IsFiniteSet({c})
    BY FS_Singleton
  <2>5. IsFiniteSet({c} \X Parts(c))
    BY <2>3, <2>4, FS_Product
  <2> QED
    BY <2>2, <2>5
<1>3. ASSUME NEW A \in SUBSET Conts, \A B \in SUBSET A : B # A => B \in T
      PROVE  A \in T
  <2>1. CASE A = {}
    <3>1. Of(A) = {}
      BY <2>1
    <3> QED
      BY <2>1, <3>1, FS_EmptySet
  <2>2. CASE A # {}
    <3>1. PICK c \in A : TRUE
      BY <2>2
    <3>2. A \ {c} \in T
      BY <1>3, <3>1
    <3>3. Of(A) \subseteq Of(A \ {c}) \cup ({c} \X Parts(c))
      BY <1>1
    <3>4. IsFiniteSet(Of(A \ {c}) \cup ({c} \X Parts(c)))
      BY <1>2, <3>2, FS_Union
    <3>5. IsFiniteSet(Of(A))
      <4> HIDE DEF Of
      <4> QED
        BY <3>3, <3>4, FS_Subset
    <3> QED
      BY <3>5
  <2> QED
    BY <2>1, <2>2
<1>4. SUBSET Conts \subseteq T
  <2>1. IsFiniteSet(Conts)
    BY ContAssumption
  <2> HIDE DEF T
  <2> QED
    BY <1>3, <2>1, SubsetInduction
<1>5. IsFiniteSet(Of(Conts))
  BY <1>4
<1>6. net_drivers(n) \subseteq Of(Conts)
  BY <1>1 DEF net_drivers
<1>7. net_drivers(n) \subseteq Nat \X Nat
  <2>1. Conts \subseteq Nat
    BY ContAssumption
  <2>2. ASSUME NEW d \in net_drivers(n)
        PROVE  d \in Nat \X Nat
    <3>1. d \in AllParts
      BY DEF net_drivers
    <3>2. d[1] \in Conts /\ d[2] \in Parts(d[1]) /\ d = <<d[1], d[2]>>
      BY <1>1, <3>1
    <3>3. d[1] \in Nat /\ d[2] \in Nat
      BY <1>2, <2>1, <3>2
    <3> QED
      BY <3>2, <3>3
  <2> QED
    BY <2>2
<1> QED
  <2> HIDE DEF Of
  <2> QED
    BY <1>5, <1>6, <1>7, FS_Subset

\* The drivers of n that have been written have values of its width.
TypedDrivers(n, dv) == \A d \in net_drivers(n) \cap DOMAIN dv : dv[d] \in Vec(Width[n])

\* What the drivers of n say of bit i.
Said(n, dv, i) == DrivenBits(dv, net_drivers(n) \cap DOMAIN dv, i)

\* A net that does not count strengths has the summary of its drivers, or where
\* they are all open, what the pulls say.
LEMMA FastBit ==
  ASSUME PullsAgree, NEW n \in Nets, ~StrengthAware(n), NEW i \in Bits(Width[n]),
         NEW dv, TypedDrivers(n, dv), NEW held
  PROVE  /\ Summary(n, Said(n, dv, i)) = "z" =>
              PullValue(n, i, BitOf(Resolved(n, dv, held), i))
         /\ Summary(n, Said(n, dv, i)) # "z" =>
              BitOf(Resolved(n, dv, held), i) = Summary(n, Said(n, dv, i))
<1> DEFINE D == net_drivers(n) \cap DOMAIN dv
<1>1. IsFiniteSet(D) /\ D \subseteq Nat \X Nat
  BY DriversFinite, FS_Subset
<1>2. \A d \in D : dv[d] \in Vec(Width[n])
  BY DEF TypedDrivers
<1>3. Folded(n, dv, D) = Summed(n, dv, D)
  <2> HIDE DEF D
  <2> QED
    BY <1>1, <1>2, FoldedIs
<1>4. Resolved(n, dv, held) = Pulled(n, Summed(n, dv, D))
  BY <1>3 DEF Resolved
<1>5. BitOf(Summed(n, dv, D), i) = Summary(n, Said(n, dv, i))
  BY SummedBit DEF Said
<1> HIDE DEF D
<1> QED
  BY <1>4, <1>5, PulledBit

\* A wand or a wor without pulls.
LEMMA WiredBit ==
  ASSUME PullsAgree, NEW n \in Nets, Kind[n] \in {"wand", "wor"}, Pulls[n] = <<>>,
         NEW i \in Bits(Width[n]), NEW dv, TypedDrivers(n, dv), NEW held
  PROVE  BitOf(Resolved(n, dv, held), i) = Reference(n, dv, i)
<1>1. ~StrengthAware(n)
  BY DEF StrengthAware
<1>2. Pulling(n, i) = {}
  BY DEF Pulling
<1>3. Reference(n, dv, i) = Summary(n, Said(n, dv, i))
  BY DEF Reference, Summary, Said
<1>4. /\ Summary(n, Said(n, dv, i)) = "z" =>
           PullValue(n, i, BitOf(Resolved(n, dv, held), i))
      /\ Summary(n, Said(n, dv, i)) # "z" =>
           BitOf(Resolved(n, dv, held), i) = Summary(n, Said(n, dv, i))
  BY <1>1, FastBit
<1> QED
  BY <1>2, <1>3, <1>4 DEF PullValue

\* The strengths of a wire whose drivers are all strong and its pulls pulls.
LEMMA PlainLevels ==
  ASSUME NEW n \in Nets, Kind[n] = "wire", ~StrengthAware(n), NEW i \in Bits(Width[n]),
         NEW dv, NEW e \in AllDrivers(n, dv)
  PROVE  \/ BitOf(e.val, i) \in Said(n, dv, i) /\ e.s = <<6, 6>>
         \/ e.s = <<5, 5>>
<1>1. CASE \E d \in net_drivers(n) \cap DOMAIN dv : e.val = dv[d] /\ e.s = Strength[d[1]]
  BY <1>1 DEF Said, DrivenBits, StrengthAware
<1>2. CASE \E k \in DOMAIN Pulls[n] : e.s = <<Pulls[n][k].level, Pulls[n][k].level>>
  BY <1>2 DEF StrengthAware
<1>3. Pulling(n, i) \subseteq DOMAIN Pulls[n]
  BY DEF Pulling
<1> QED
  BY <1>1, <1>2, <1>3, PullDrivers

\* Every value that is said is driven strongly.
LEMMA PlainDriver ==
  ASSUME NEW n \in Nets, Kind[n] = "wire", ~StrengthAware(n), NEW i,
         NEW dv, NEW b \in Said(n, dv, i)
  PROVE  \E d \in AllDrivers(n, dv) : BitOf(d.val, i) = b /\ d.s = <<6, 6>>
<1>1. PICK d \in net_drivers(n) \cap DOMAIN dv : BitOf(dv[d], i) = b
  BY DEF Said, DrivenBits
<1>2. Strength[d[1]] = <<6, 6>>
  BY DEF StrengthAware
<1>3. [val |-> dv[d], s |-> Strength[d[1]]] \in AllDrivers(n, dv)
  BY DEF AllDrivers
<1> QED
  BY <1>1, <1>2, <1>3

\* A wire of strong drivers: the fast path is the strongest drive.
LEMMA PlainBit ==
  ASSUME PullsAgree, NEW n \in Nets, Kind[n] = "wire", ~StrengthAware(n),
         NEW i \in Bits(Width[n]), NEW dv, TypedDrivers(n, dv), NEW held
  PROVE  BitOf(Resolved(n, dv, held), i) = StrongestDrive(AllDrivers(n, dv), i)
<1> DEFINE D == AllDrivers(n, dv)
           B == Said(n, dv, i)
           s == Summary(n, B)
           r == BitOf(Resolved(n, dv, held), i)
<1>0. Levelled(D)
  BY LevelsKnown
<1>1. (s = "z" => PullValue(n, i, r)) /\ (s # "z" => r = s)
  BY FastBit
<1>2. ASSUME NEW e \in D
      PROVE  /\ BitOf(e.val, i) \in B \/ (e.s[1] <= 5 /\ e.s[2] <= 5)
             /\ e.s[1] <= 6 /\ e.s[2] <= 6
  <2>1. (BitOf(e.val, i) \in B /\ e.s = <<6, 6>>) \/ e.s = <<5, 5>>
    BY PlainLevels
  <2> QED
    BY <2>1
<1>3. \A b \in B : \E d \in D : BitOf(d.val, i) = b /\ d.s = <<6, 6>>
  BY PlainDriver
<1>4. B \subseteq Values
  BY BitCases DEF Said, DrivenBits, Values
<1>5. s = IF "x" \in B \/ {"0", "1"} \subseteq B THEN "x"
          ELSE IF "0" \in B THEN "0" ELSE IF "1" \in B THEN "1" ELSE "z"
  BY DEF Summary
<1>6. CASE s = "z"
  <2>1. B \subseteq {"z"}
    <3> HIDE DEF B, s
    <3> QED
      BY <1>4, <1>5, <1>6 DEF Values
  <2>2. \A d \in net_drivers(n) \cap DOMAIN dv : BitOf(dv[d], i) = "z"
    BY <2>1 DEF Said, DrivenBits
  <2>3. PullValue(n, i, StrongestDrive(D, i))
    BY <2>2, OnlyPulls
  <2> QED
    BY <1>1, <1>6, <2>3, PullValueUnique
<1> HIDE DEF D, B, s, r
<1>7. CASE s = "0"
  <2>1. "0" \in B /\ B \subseteq {"0", "z"}
    BY <1>4, <1>5, <1>7 DEF Values
  <2>2. PICK d \in D : BitOf(d.val, i) = "0" /\ d.s = <<6, 6>>
    BY <1>3, <2>1
  <2>3. d.s[1] > 5
    BY <2>2
  <2>4. ASSUME NEW e \in D
        PROVE  BitOf(e.val, i) \in {"0", "z"} \/ e.s[2] <= 5
    BY <1>2, <2>1
  <2>5. StrongestDrive(D, i) = "0"
    BY <1>0, <2>2, <2>3, <2>4, StrongerDriver
  <2> QED
    BY <1>1, <1>7, <2>5 DEF r, D
<1>8. CASE s = "1"
  <2>1. "1" \in B /\ B \subseteq {"1", "z"}
    BY <1>4, <1>5, <1>8 DEF Values
  <2>2. PICK d \in D : BitOf(d.val, i) = "1" /\ d.s = <<6, 6>>
    BY <1>3, <2>1
  <2>3. d.s[2] > 5
    BY <2>2
  <2>4. ASSUME NEW e \in D
        PROVE  BitOf(e.val, i) \in {"1", "z"} \/ e.s[1] <= 5
    BY <1>2, <2>1
  <2>5. StrongestDrive(D, i) = "1"
    BY <1>0, <2>2, <2>3, <2>4, StrongerDriver
  <2> QED
    BY <1>1, <1>8, <2>5 DEF r, D
<1>9. CASE s = "x"
  <2>1. "x" \in B \/ {"0", "1"} \subseteq B
    BY <1>5, <1>9
  <2>2. PICK d \in D, f \in D :
          /\ d.s = <<6, 6>> /\ f.s = <<6, 6>>
          /\ BitOf(d.val, i) = "x" \/ (BitOf(d.val, i) = "0" /\ BitOf(f.val, i) = "1")
    BY <1>3, <2>1
  <2>3. \A e \in D : e.s[1] <= 6 /\ e.s[2] <= 6
    BY <1>2
  <2>4. 6 \in 1..7
    OBVIOUS
  <2>5. StrongestDrive(D, i) = "x"
    BY <1>0, <2>2, <2>3, <2>4, Conflicting
  <2> QED
    BY <1>1, <1>9, <2>5 DEF r, D
<1> QED
  BY <1>5, <1>6, <1>7, <1>8, <1>9 DEF r, D

\* The nets that NetIsResolved is about.
Referred(n) ==
  /\ Multi(n)
  /\ Kind[n] = "wire" \/ (Kind[n] \in {"wand", "wor"} /\ Pulls[n] = <<>>)

\* What write_multi_driver computes is the reference.
LEMMA ResolvedBit ==
  ASSUME PullsAgree, NEW n \in Nets, Referred(n), NEW i \in Bits(Width[n]),
         NEW dv, TypedDrivers(n, dv), NEW held
  PROVE  BitOf(Resolved(n, dv, held), i) = Reference(n, dv, i)
<1>1. CASE Kind[n] \in {"wand", "wor"}
  BY <1>1, WiredBit DEF Referred
<1>2. CASE Kind[n] = "wire"
  <2>1. Reference(n, dv, i) = StrongestDrive(AllDrivers(n, dv), i)
    BY <1>2 DEF Reference
  <2>2. CASE StrengthAware(n)
    <3>1. WithCharge(n, dv, held) = AllDrivers(n, dv)
      BY <1>2 DEF WithCharge
    <3>2. BitOf(Resolved(n, dv, held), i) = StrongestDrive(WithCharge(n, dv, held), i)
      BY <2>2, StrengthAwareBit
    <3> QED
      BY <2>1, <3>1, <3>2
  <2>3. CASE ~StrengthAware(n)
    BY <1>2, <2>1, <2>3, PlainBit
  <2> QED
    BY <2>2, <2>3
<1> QED
  BY <1>1, <1>2 DEF Referred

\* Before its drivers have been written a net has what the pulls say.
LEMMA UnwrittenBit ==
  ASSUME PullsAgree, NEW n \in Nets, Referred(n), NEW i \in Bits(Width[n]),
         NEW dv, DOMAIN dv = {}
  PROVE  BitOf(Pulled(n, z_of_width(Width[n])), i) = Reference(n, dv, i)
<1> DEFINE r == BitOf(Pulled(n, z_of_width(Width[n])), i)
<1>1. BitOf(z_of_width(Width[n]), i) = "z"
  BY DEF BitOf, z_of_width, Xs, Zs
<1>2. PullValue(n, i, r)
  BY <1>1, PulledBit
<1>3. CASE Kind[n] = "wire"
  <2>1. Reference(n, dv, i) = StrongestDrive(AllDrivers(n, dv), i)
    BY <1>3 DEF Reference
  <2>2. PullValue(n, i, StrongestDrive(AllDrivers(n, dv), i))
    BY OnlyPulls
  <2> HIDE DEF r
  <2>3. r = StrongestDrive(AllDrivers(n, dv), i)
    BY <1>2, <2>2, PullValueUnique
  <2> QED
    BY <2>1, <2>3 DEF r
<1>4. CASE Kind[n] \in {"wand", "wor"} /\ Pulls[n] = <<>>
  <2>1. Pulling(n, i) = {}
    BY <1>4 DEF Pulling
  <2>2. r = "z"
    BY <1>2, <2>1 DEF PullValue
  <2>3. DrivenBits(dv, net_drivers(n) \cap DOMAIN dv, i) = {}
    BY DEF DrivenBits
  <2>4. Reference(n, dv, i) = "z"
    BY <1>4, <2>3 DEF Reference, WiredDrive
  <2> QED
    BY <2>2, <2>4
<1> QED
  BY <1>3, <1>4 DEF Referred

\* Only the drivers of n matter for its reference.
LEMMA SameReference ==
  ASSUME NEW n \in Nets, NEW i, NEW dv, NEW ev,
         net_drivers(n) \cap DOMAIN ev = net_drivers(n) \cap DOMAIN dv,
         \A d \in net_drivers(n) \cap DOMAIN dv : ev[d] = dv[d]
  PROVE  Reference(n, ev, i) = Reference(n, dv, i)
<1> DEFINE D == net_drivers(n) \cap DOMAIN dv
<1>1. DrivenBits(ev, D, i) = DrivenBits(dv, D, i)
  BY DEF DrivenBits
<1>2. {[val |-> ev[d], s |-> Strength[d[1]]] : d \in D} =
      {[val |-> dv[d], s |-> Strength[d[1]]] : d \in D}
  OBVIOUS
<1>3. AllDrivers(n, ev) = AllDrivers(n, dv)
  BY <1>2 DEF AllDrivers
<1> QED
  BY <1>1, <1>3 DEF Reference

\* The inductive invariant: drivers have the width of their net, and the nets
\* are resolved.
NetInv ==
  /\ \A n \in Nets : TypedDrivers(n, driver_vals)
  /\ \A n \in Nets : Referred(n) =>
       \A i \in Bits(Width[n]) : BitOf(net_values[n], i) = Reference(n, driver_vals, i)

\* An assignment gives its drivers values of the width of their nets.
LEMMA WrittenTyped ==
  ASSUME NEW c \in Conts, NEW val, NEW rest, write_cont(c, val, rest), NEW n \in Nets,
         TypedDrivers(n, driver_vals)
  PROVE  TypedDrivers(n, driver_vals')
<1> DEFINE own == {<<c, j>> : j \in MultiParts(c)}
<1> SUFFICES ASSUME NEW d \in net_drivers(n) \cap DOMAIN driver_vals'
             PROVE  driver_vals'[d] \in Vec(Width[n])
  BY DEF TypedDrivers
<1>1. /\ DOMAIN driver_vals' = DOMAIN driver_vals \cup own
      /\ driver_vals'[d] = IF d \in own THEN multi_driver_value(c, d[2], val)
                           ELSE driver_vals[d]
  BY DEF write_cont, DriversAfter
<1>2. CASE d \in own
  <2>1. PICK j \in MultiParts(c) : d = <<c, j>>
    BY <1>2
  <2>2. j \in Parts(c) /\ LVal[c][j].net = n
    BY <2>1 DEF MultiParts, net_drivers, Target
  <2>3. Width[n] \in Nat
    BY DesignTypes
  <2>4. multi_driver_value(c, j, val) \in Vec(Width[n])
    BY <2>2, <2>3, ZVec, PutVec DEF multi_driver_value
  <2>5. d[2] = j
    BY <2>1
  <2> HIDE DEF own
  <2> QED
    BY <1>1, <1>2, <2>4, <2>5
<1>3. CASE d \notin own
  <2> HIDE DEF own
  <2> QED
    BY <1>1, <1>3 DEF TypedDrivers
<1> QED
  BY <1>2, <1>3

\* Every step keeps the nets resolved.
LEMMA NetStep ==
  ASSUME PullsAgree, Shapes, NetInv, [Next]_vars
  PROVE  NetInv'
<1> DEFINE Good(n) ==
      /\ TypedDrivers(n, driver_vals')
      /\ Referred(n) => \A i \in Bits(Width[n]) :
           BitOf(net_values'[n], i) = Reference(n, driver_vals', i)
<1>1. ASSUME NEW n \in Nets, net_values'[n] = net_values[n],
             net_drivers(n) \cap DOMAIN driver_vals' = net_drivers(n) \cap DOMAIN driver_vals,
             \A d \in net_drivers(n) \cap DOMAIN driver_vals : driver_vals'[d] = driver_vals[d]
      PROVE  Good(n)
  <2>1. TypedDrivers(n, driver_vals')
    BY <1>1 DEF NetInv, TypedDrivers
  <2>2. ASSUME NEW i \in Bits(Width[n])
        PROVE  Reference(n, driver_vals', i) = Reference(n, driver_vals, i)
    BY <1>1, SameReference
  <2> QED
    BY <1>1, <2>1, <2>2 DEF NetInv
<1>2. ASSUME NEW n \in Nets, UNCHANGED <<net_values, driver_vals>>
      PROVE  Good(n)
  BY <1>1, <1>2
<1>3. ASSUME NEW n \in Nets, NEW c \in Conts, NEW val, NEW rest, write_cont(c, val, rest)
      PROVE  Good(n)
  <2>1. CASE n \notin Targets(c)
    BY <1>1, <1>3, <2>1, WriteResolves
  <2>2. CASE n \in Targets(c)
    <3>1. TypedDrivers(n, driver_vals')
      BY <1>3, WrittenTyped DEF NetInv
    <3>2. ASSUME Referred(n), NEW i \in Bits(Width[n])
          PROVE  BitOf(net_values'[n], i) = Reference(n, driver_vals', i)
      <4>1. net_values'[n] = Resolved(n, driver_vals', net_values[n])
        BY <1>3, <2>2, <3>2, WriteResolves DEF Referred
      <4>2. \A dv, held : TypedDrivers(n, dv) =>
              BitOf(Resolved(n, dv, held), i) = Reference(n, dv, i)
        BY <3>2, ResolvedBit
      <4> QED
        BY <3>1, <4>1, <4>2
    <3> QED
      BY <3>1, <3>2
  <2> QED
    BY <2>1, <2>2
<1>4. ASSUME NEW n \in Nets, NEW m \in DOMAIN Inputs, NEW val, Write(m, val)
      PROVE  Good(n)
  <2>1. driver_vals' = driver_vals
    BY <1>4 DEF Write
  <2>2. CASE m # n
    <3>1. net_values'[n] = net_values[n]
      BY <1>4, <2>2 DEF Write, Shapes
    <3> QED
      BY <1>1, <2>1, <3>1
  <2>3. CASE m = n
    <3>1. Kind[n] = "reg"
      BY <2>3, ContAssumption
    <3>2. ~Referred(n)
      BY <3>1 DEF Referred
    <3> QED
      BY <2>1, <3>2 DEF NetInv
  <2> QED
    BY <2>2, <2>3
<1>5. ASSUME NEW n \in Nets
      PROVE  Good(n)
  <2> HIDE DEF Good
  <2> QED
    BY <1>2, <1>3, <1>4, NetSteps
<1> QED
  BY <1>5 DEF NetInv

\* NetIsResolved for every design in which no bit is pulled both ways: a net
\* with several drivers has the value of the strongest drive in every state,
\* whatever the order and the delays of the writes (write_multi_driver).
THEOREM NetsResolved ==
  ASSUME PullsAgree
  PROVE  Spec => []NetIsResolved
<1>1. Init => NetInv
  <2> SUFFICES ASSUME Init PROVE NetInv
    OBVIOUS
  <2>1. DOMAIN driver_vals = {}
    BY DEF Init
  <2>2. ASSUME NEW n \in Nets, Referred(n), NEW i \in Bits(Width[n])
        PROVE  BitOf(net_values[n], i) = Reference(n, driver_vals, i)
    <3>1. net_values[n] = Pulled(n, z_of_width(Width[n]))
      BY <2>2 DEF Init, Referred
    <3> QED
      BY <2>1, <2>2, <3>1, UnwrittenBit
  <2> QED
    BY <2>1, <2>2 DEF NetInv, TypedDrivers
<1>2. Shapes /\ NetInv /\ [Next]_vars => NetInv'
  BY NetStep
<1>3. NetInv => NetIsResolved
  BY DEF NetInv, NetIsResolved, Referred
<1> QED
  BY <1>1, <1>2, <1>3, ShapesKept, PTL DEF Spec
=============================================================================
