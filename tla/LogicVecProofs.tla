-------------------------- MODULE LogicVecProofs --------------------------
(***************************************************************************)
(* LogicVecProperties for vectors of every width: results are well formed,  *)
(* pessimistic and no more so than they must be, the comparisons agree,     *)
(* what is written is read back, and known operands compute as numbers do.  *)
(* Planes are sets of positions, so that every operator is reasoned about   *)
(* bit by bit.                                                              *)
(***************************************************************************)
EXTENDS LogicVecProperties, DataInduction

\* What is known of a vector without its width.
LEMMA VecFields ==
  ASSUME NEW w \in Nat, NEW x \in Vec(w)
  PROVE  /\ x.width = w /\ x.a \subseteq 0..(w - 1) /\ x.b \subseteq 0..(w - 1)
         /\ x = [width |-> w, a |-> x.a, b |-> x.b]
BY DEF Vec, Bits

\* A result of from_chunks has no bit beyond its width.
LEMMA FromChunksVec ==
  ASSUME NEW w \in Nat, NEW S, NEW T
  PROVE  /\ from_chunks(w, S, T) \in Vec(w)
         /\ from_chunks(w, S, T).width = w
         /\ from_chunks(w, S, T).a = S \cap Bits(w)
         /\ from_chunks(w, S, T).b = T \cap Bits(w)
BY DEF from_chunks, Vec

LEMMA ConstantsVec ==
  /\ ZERO \in Vec(1) /\ ONE \in Vec(1) /\ X \in Vec(1)
  /\ ZERO = [width |-> 1, a |-> {}, b |-> {}]
  /\ ONE = [width |-> 1, a |-> {0}, b |-> {}]
  /\ X = [width |-> 1, a |-> {0}, b |-> {0}]
<1>1. Bits(1) = {0}
  BY DEF Bits
<1> QED
  BY <1>1 DEF ZERO, ONE, X, all_bits, x_of_width, Vec

\* The one-bit constants differ.
LEMMA ConstantsDiffer == ZERO # ONE /\ ZERO # X /\ ONE # X
<1>1. {0} # {}
  OBVIOUS
<1>2. ZERO.a = {} /\ ONE.a = {0} /\ X.a = {0} /\ ONE.b = {} /\ X.b = {0}
  BY ConstantsVec
<1> QED
  BY <1>1, <1>2

-----------------------------------------------------------------------------
(* Widths *)

LEMMA WiderNat ==
  ASSUME NEW m \in Nat, NEW n \in Nat, NEW x \in Vec(m), NEW y \in Vec(n)
  PROVE  Wider(x, y) \in Nat /\ Wider(x, y) >= m /\ Wider(x, y) >= n
BY VecFields DEF Wider

\* The bitwise operators give vectors of the wider operand's width.
LEMMA BitwiseVec ==
  ASSUME NEW m \in Nat, NEW n \in Nat, NEW x \in Vec(m), NEW y \in Vec(n)
  PROVE  /\ BitAnd(x, y) \in Vec(Wider(x, y))
         /\ BitOr(x, y) \in Vec(Wider(x, y))
         /\ BitXor(x, y) \in Vec(Wider(x, y))
         /\ merge_unknown(x, y) \in Vec(Wider(x, y))
         /\ resolve(x, y) \in Vec(Wider(x, y))
         /\ resolve_wand(x, y) \in Vec(Wider(x, y))
         /\ resolve_wor(x, y) \in Vec(Wider(x, y))
         /\ Not(x) \in Vec(m)
<1>1. Wider(x, y) \in Nat
  BY WiderNat
<1>2. BitAnd(x, y) \in Vec(Wider(x, y)) /\ BitOr(x, y) \in Vec(Wider(x, y))
      /\ BitXor(x, y) \in Vec(Wider(x, y))
  BY <1>1, FromChunksVec DEF BitAnd, BitOr, BitXor
<1>3. merge_unknown(x, y) \in Vec(Wider(x, y)) /\ resolve(x, y) \in Vec(Wider(x, y))
  BY <1>1, FromChunksVec DEF merge_unknown, resolve
<1>4. resolve_dominant(x, y, TRUE) \in Vec(Wider(x, y))
      /\ resolve_dominant(x, y, FALSE) \in Vec(Wider(x, y))
  BY <1>1, FromChunksVec DEF resolve_dominant
<1>5. Not(x) \in Vec(m)
  <2>1. x.width = m /\ x.b \subseteq Bits(m) /\ x = [width |-> m, a |-> x.a, b |-> x.b]
    BY VecFields DEF Bits
  <2> QED
    BY <2>1 DEF Not, Vec
<1> QED
  BY <1>2, <1>3, <1>4, <1>5 DEF resolve_wand, resolve_wor

\* The one-bit operators give 0, 1 or X.
Bit == {ZERO, ONE, X}

LEMMA BitVec == Bit \subseteq Vec(1)
BY ConstantsVec DEF Bit

LEMMA OneBit ==
  ASSUME NEW x, NEW y
  PROVE  /\ eq(x, y) \in Bit /\ ne(x, y) \in Bit
         /\ log_and(x, y) \in Bit /\ log_or(x, y) \in Bit /\ log_not(x) \in Bit
         /\ reduce_and(x) \in Bit /\ reduce_or(x) \in Bit /\ reduce_xor(x) \in Bit
         /\ lt(x, y) \in Bit /\ le(x, y) \in Bit
         /\ lt_signed(x, y) \in Bit /\ le_signed(x, y) \in Bit
<1>1. eq(x, y) \in Bit
  BY DEF eq, Bit
<1>2. ne(x, y) \in Bit
  BY <1>1 DEF ne, Bit
<1>3. log_and(x, y) \in Bit /\ log_or(x, y) \in Bit /\ log_not(x) \in Bit
  BY DEF log_and, log_or, log_not, Bit
<1>4. reduce_and(x) \in Bit /\ reduce_or(x) \in Bit /\ reduce_xor(x) \in Bit
  BY DEF reduce_and, reduce_or, reduce_xor, Bit
<1>5. lt(x, y) \in Bit /\ le(x, y) \in Bit
  BY DEF lt, le, Bit
<1>6. lt_signed(x, y) \in Bit /\ le_signed(x, y) \in Bit
  BY DEF lt_signed, le_signed, Bit
<1> QED
  BY <1>1, <1>2, <1>3, <1>4, <1>5, <1>6

LEMMA MovesVec ==
  ASSUME NEW m \in Nat, NEW k \in Nat, NEW x \in Vec(m), NEW y \in Vec(k), NEW n \in Nat
  PROVE  /\ concat(x, y) \in Vec(m + k)
         /\ resize(x, n + 1) \in Vec(n + 1)
         /\ shl(x, TRUE, n) \in Vec(m) /\ shr(x, TRUE, n) \in Vec(m)
         /\ ashr(x, TRUE, n) \in Vec(m)
         /\ part_select(x, n, 0) \in Vec(n + 1)
         /\ bit_select(x, n) \in Vec(1)
         /\ insert_bits(x, n, y.width, y) \in Vec(m)
<1>1. x.width = m /\ y.width = k
  BY VecFields
<1>2. concat(x, y) \in Vec(m + k)
  BY <1>1, m + k \in Nat, FromChunksVec DEF concat
<1>3. resize(x, n + 1) \in Vec(n + 1)
  BY n + 1 \in Nat, FromChunksVec DEF resize
<1>4. shl(x, TRUE, n) \in Vec(m) /\ shr(x, TRUE, n) \in Vec(m)
  BY <1>1, FromChunksVec DEF shl, shr
<1>5. ashr(x, TRUE, n) \in Vec(m)
  BY <1>1, FromChunksVec DEF ashr
<1>6. x_of_width(n + 1) \in Vec(n + 1)
  BY DEF x_of_width, Vec
<1>7. part_select(x, n, 0) \in Vec(n + 1)
  BY <1>6, n + 1 \in Nat, n - 0 + 1 = n + 1, FromChunksVec DEF part_select
<1>8. bit_select(x, n) \in Vec(1)
  BY ConstantsVec, FromChunksVec, n - n + 1 = 1 DEF bit_select, part_select, x_of_width, Vec
<1>9. insert_bits(x, n, y.width, y) \in Vec(m)
  BY <1>1, FromChunksVec DEF insert_bits
<1> QED
  BY <1>2, <1>3, <1>4, <1>5, <1>7, <1>8, <1>9

-----------------------------------------------------------------------------
(* Pessimism, operator by operator *)

\* x and y are vectors of width w, and y knows what x knows.
Refines(w, x, y) == x \in Vec(w) /\ y \in Vec(w) /\ Covers(x, y)

\* The elements of a refined vector's planes.
LEMMA RefinesBits ==
  ASSUME NEW w \in Nat, NEW x, NEW y, Refines(w, x, y)
  PROVE  /\ x.width = w /\ y.width = w
         /\ \A i : i \in y.b => i \in x.b
         /\ \A i : i \notin x.b => (i \in y.a <=> i \in x.a)
         /\ x.a \subseteq Bits(w) /\ x.b \subseteq Bits(w)
         /\ y.a \subseteq Bits(w) /\ y.b \subseteq Bits(w)
<1>1. x \in Vec(w) /\ y \in Vec(w) /\ y.b \subseteq x.b /\ y.a \ x.b = x.a \ x.b
  BY DEF Refines, Covers
<1>2. x.a \subseteq Bits(w) /\ x.b \subseteq Bits(w) /\ y.a \subseteq Bits(w)
      /\ y.b \subseteq Bits(w) /\ x.width = w /\ y.width = w
  BY <1>1, VecFields DEF Bits
<1>3. \A i : i \notin x.b => (i \in y.a <=> i \in x.a)
  <2>1. SUFFICES ASSUME NEW i, i \notin x.b PROVE i \in y.a <=> i \in x.a
    OBVIOUS
  <2>2. i \in y.a \ x.b <=> i \in x.a \ x.b
    BY <1>1
  <2> QED
    BY <2>1, <2>2
<1> QED
  BY <1>1, <1>2, <1>3

\* The form in which Covers is proved: bit by bit.
LEMMA CoversByBits ==
  ASSUME NEW r, NEW s, r.width = s.width,
         \A i : i \in s.b => i \in r.b,
         \A i : i \notin r.b => (i \in s.a <=> i \in r.a)
  PROVE  Covers(r, s)
BY DEF Covers

\* A known vector has no other refinement.
LEMMA KnownFixed ==
  ASSUME NEW w \in Nat, NEW x, NEW y, Refines(w, x, y), is_known(x)
  PROVE  y = x
<1>1. x.b = {} /\ y.b \subseteq x.b /\ y.a \ x.b = x.a \ x.b
  BY DEF is_known, Refines, Covers
<1>2. y.b = {} /\ y.a = x.a
  BY <1>1
<1>3. x = [width |-> w, a |-> x.a, b |-> x.b] /\ y = [width |-> w, a |-> y.a, b |-> y.b]
  BY VecFields DEF Refines
<1> QED
  BY <1>1, <1>2, <1>3

\* A one-bit result covers another one when it is X or the same.
LEMMA BitCovers ==
  ASSUME NEW r \in Bit, NEW s \in Bit, r # X => s = r
  PROVE  Covers(r, s)
<1>1. r.width = 1 /\ s.width = 1 /\ s.b \subseteq {0} /\ s.a \subseteq {0}
  BY ConstantsVec DEF Bit
<1>2. CASE r = X
  BY <1>1, <1>2, ConstantsVec DEF Covers
<1>3. CASE r # X
  BY <1>3 DEF Covers
<1> QED
  BY <1>2, <1>3

LEMMA BitwiseCovers ==
  ASSUME NEW m \in Nat, NEW n \in Nat, NEW x, NEW x2, NEW y, NEW y2,
         Refines(m, x, x2), Refines(n, y, y2)
  PROVE  /\ Covers(BitAnd(x, y), BitAnd(x2, y2))
         /\ Covers(BitOr(x, y), BitOr(x2, y2))
         /\ Covers(BitXor(x, y), BitXor(x2, y2))
         /\ Covers(Not(x), Not(x2))
         /\ Covers(merge_unknown(x, y), merge_unknown(x2, y2))
<1>1. /\ x.width = m /\ x2.width = m /\ y.width = n /\ y2.width = n
      /\ \A i : i \in x2.b => i \in x.b
      /\ \A i : i \notin x.b => (i \in x2.a <=> i \in x.a)
      /\ \A i : i \in y2.b => i \in y.b
      /\ \A i : i \notin y.b => (i \in y2.a <=> i \in y.a)
  BY RefinesBits
<1> DEFINE w == Wider(x, y)
<1>2. w \in Nat /\ Wider(x2, y2) = w
  BY <1>1 DEF Wider
<1> HIDE DEF w
<1>3. Covers(BitAnd(x, y), BitAnd(x2, y2))
  <2>1. BitAnd(x, y) = from_chunks(w, (x.a \cup x.b) \cap (y.a \cup y.b),
          ((x.a \cup x.b) \cap (y.a \cup y.b)) \ ((x.a \ x.b) \cap (y.a \ y.b)))
    BY DEF BitAnd, Ones, w
  <2>2. BitAnd(x2, y2) = from_chunks(w, (x2.a \cup x2.b) \cap (y2.a \cup y2.b),
          ((x2.a \cup x2.b) \cap (y2.a \cup y2.b)) \ ((x2.a \ x2.b) \cap (y2.a \ y2.b)))
    BY <1>2 DEF BitAnd, Ones
  <2> QED
    BY <1>1, <1>2, <2>1, <2>2, FromChunksVec, CoversByBits
<1>4. Covers(BitOr(x, y), BitOr(x2, y2))
  BY <1>1, <1>2, FromChunksVec, CoversByBits DEF BitOr, w
<1>5. Covers(BitXor(x, y), BitXor(x2, y2))
  BY <1>1, <1>2, FromChunksVec, CoversByBits DEF BitXor, Xor, w
<1>6. Covers(Not(x), Not(x2))
  <2>1. /\ Not(x).width = m /\ Not(x).a = (Bits(m) \ x.a) \cup x.b /\ Not(x).b = x.b
        /\ Not(x2).width = m /\ Not(x2).a = (Bits(m) \ x2.a) \cup x2.b /\ Not(x2).b = x2.b
    BY <1>1 DEF Not, Refines, Vec
  <2> QED
    BY <1>1, <2>1, CoversByBits
<1>7. Covers(merge_unknown(x, y), merge_unknown(x2, y2))
  BY <1>1, <1>2, FromChunksVec, CoversByBits DEF merge_unknown, Xor, w
<1> QED
  BY <1>3, <1>4, <1>5, <1>6, <1>7

\* What stays true of a vector that is refined.
LEMMA TestsStay ==
  ASSUME NEW w \in Nat, NEW x, NEW y, Refines(w, x, y)
  PROVE  /\ is_true(x) => is_true(y)
         /\ is_zero(x) => is_zero(y) /\ is_known(x)
         /\ is_known(x) => is_known(y)
         /\ is_true(x) => ~is_zero(x)
         /\ is_known(x) /\ ~is_true(x) => is_zero(x)
<1>1. /\ \A i : i \in y.b => i \in x.b
      /\ \A i : i \notin x.b => (i \in y.a <=> i \in x.a)
  BY RefinesBits
<1> QED
  BY <1>1 DEF is_true, is_zero, is_known, Ones

LEMMA LogicalCovers ==
  ASSUME NEW m \in Nat, NEW n \in Nat, NEW x, NEW x2, NEW y, NEW y2,
         Refines(m, x, x2), Refines(n, y, y2)
  PROVE  /\ Covers(log_and(x, y), log_and(x2, y2))
         /\ Covers(log_or(x, y), log_or(x2, y2))
         /\ Covers(log_not(x), log_not(x2))
<1>1. /\ is_true(x) => is_true(x2) /\ ~is_zero(x) /\ ~is_zero(x2)
      /\ is_zero(x) => is_zero(x2) /\ is_known(x) /\ ~is_true(x)
      /\ is_known(x) => is_known(x2)
      /\ is_known(x) /\ ~is_true(x) => is_zero(x)
      /\ is_zero(x2) => ~is_true(x2)
  <2>1. is_zero(x2) => ~is_true(x2)
    BY DEF is_zero, is_true, Ones
  <2> QED
    BY <2>1, TestsStay
<1>2. /\ is_true(y) => is_true(y2) /\ ~is_zero(y) /\ ~is_zero(y2)
      /\ is_zero(y) => is_zero(y2) /\ is_known(y) /\ ~is_true(y)
      /\ is_known(y) => is_known(y2)
      /\ is_known(y) /\ ~is_true(y) => is_zero(y)
      /\ is_zero(y2) => ~is_true(y2)
  <2>1. is_zero(y2) => ~is_true(y2)
    BY DEF is_zero, is_true, Ones
  <2> QED
    BY <2>1, TestsStay
<1>3. log_and(x, y) # X => log_and(x2, y2) = log_and(x, y)
  BY <1>1, <1>2 DEF log_and
<1>4. log_or(x, y) # X => log_or(x2, y2) = log_or(x, y)
  BY <1>1, <1>2 DEF log_or
<1>5. log_not(x) # X => log_not(x2) = log_not(x)
  BY <1>1 DEF log_not
<1> QED
  BY <1>3, <1>4, <1>5, OneBit, BitCovers

LEMMA EqCovers ==
  ASSUME NEW m \in Nat, NEW n \in Nat, NEW x, NEW x2, NEW y, NEW y2,
         Refines(m, x, x2), Refines(n, y, y2)
  PROVE  /\ Covers(eq(x, y), eq(x2, y2))
         /\ Covers(ne(x, y), ne(x2, y2))
<1>1. /\ \A i : i \in x2.b => i \in x.b
      /\ \A i : i \notin x.b => (i \in x2.a <=> i \in x.a)
      /\ \A i : i \in y2.b => i \in y.b
      /\ \A i : i \notin y.b => (i \in y2.a <=> i \in y.a)
  BY RefinesBits
<1>2. Xor(x.a, y.a) \ (x.b \cup y.b) # {} => Xor(x2.a, y2.a) \ (x2.b \cup y2.b) # {}
  BY <1>1 DEF Xor
<1>3. CASE Xor(x.a, y.a) \ (x.b \cup y.b) # {}
  BY <1>2, <1>3 DEF eq, ne, Covers
<1>4. CASE x.b \cup y.b = {}
  <2>1. is_known(x) /\ is_known(y)
    BY <1>4 DEF is_known
  <2>2. x2 = x /\ y2 = y
    BY <2>1, KnownFixed
  <2> QED
    BY <2>2 DEF Covers
<1>5. CASE Xor(x.a, y.a) \ (x.b \cup y.b) = {} /\ x.b \cup y.b # {}
  <2>1. eq(x, y) = X
    BY <1>5 DEF eq
  <2>2. ne(x, y) = X
    BY <2>1, ConstantsDiffer DEF ne
  <2> QED
    BY <2>1, <2>2, OneBit, BitCovers
<1> QED
  BY <1>3, <1>4, <1>5

LEMMA ReductionCovers ==
  ASSUME NEW m \in Nat, NEW x, NEW x2, Refines(m, x, x2)
  PROVE  /\ Covers(reduce_and(x), reduce_and(x2))
         /\ Covers(reduce_or(x), reduce_or(x2))
<1>1. /\ \A i : i \in x2.b => i \in x.b
      /\ \A i : i \notin x.b => (i \in x2.a <=> i \in x.a)
      /\ x.width = x2.width
  BY RefinesBits
<1>2. x.b = {} => x2 = x
  BY KnownFixed DEF is_known
<1>3. Zeros(x, x.width) # {} => Zeros(x2, x2.width) # {}
  BY <1>1 DEF Zeros
<1>4. Ones(x) # {} => Ones(x2) # {}
  BY <1>1 DEF Ones
<1>5. reduce_and(x) # X => reduce_and(x2) = reduce_and(x)
  BY <1>2, <1>3 DEF reduce_and
<1>6. reduce_or(x) # X => reduce_or(x2) = reduce_or(x)
  BY <1>2, <1>4 DEF reduce_or
<1> QED
  BY <1>5, <1>6, OneBit, BitCovers

LEMMA NumericCovers ==
  ASSUME NEW m \in Nat, NEW n \in Nat, NEW x, NEW x2, NEW y, NEW y2,
         Refines(m, x, x2), Refines(n, y, y2)
  PROVE  /\ Covers(lt(x, y), lt(x2, y2)) /\ Covers(le(x, y), le(x2, y2))
         /\ Covers(lt_signed(x, y), lt_signed(x2, y2))
         /\ Covers(le_signed(x, y), le_signed(x2, y2))
         /\ Covers(reduce_xor(x), reduce_xor(x2))
<1>1. CASE is_known(x) /\ is_known(y)
  BY <1>1, KnownFixed DEF Covers
<1>2. reduce_xor(x) # X => reduce_xor(x2) = reduce_xor(x)
  <2>1. CASE is_known(x)
    BY <2>1, KnownFixed
  <2>2. CASE ~is_known(x)
    BY <2>2 DEF reduce_xor
  <2> QED
    BY <2>1, <2>2
<1>3. CASE ~is_known(x) \/ ~is_known(y)
  <2>1. lt(x, y) = X /\ le(x, y) = X /\ lt_signed(x, y) = X /\ le_signed(x, y) = X
    BY <1>3 DEF lt, le, lt_signed, le_signed
  <2> QED
    BY <1>2, <2>1, OneBit, BitCovers
<1> QED
  BY <1>1, <1>3

\* Moving a set of positions, element by element.
LEMMA MoveIs ==
  ASSUME NEW n \in Nat, NEW S, S \subseteq Int
  PROVE  /\ \A i : i \in Up(S, n) <=> i \in Int /\ i - n \in S
         /\ \A i : i \in Down(S, n) <=> i \in Int /\ i + n \in S
<1>1. ASSUME NEW i PROVE i \in Up(S, n) <=> i \in Int /\ i - n \in S
  <2>1. ASSUME i \in Up(S, n) PROVE i \in Int /\ i - n \in S
    <3>1. PICK j \in S : i = j + n
      BY <2>1 DEF Up
    <3> QED
      BY <3>1, j \in Int, (j + n) - n = j
  <2>2. ASSUME i \in Int, i - n \in S PROVE i \in Up(S, n)
    BY <2>2, (i - n) + n = i DEF Up
  <2> QED
    BY <2>1, <2>2
<1>2. ASSUME NEW i PROVE i \in Down(S, n) <=> i \in Int /\ i + n \in S
  <2>1. ASSUME i \in Down(S, n) PROVE i \in Int /\ i + n \in S
    <3>1. PICK j \in S : i = j - n
      BY <2>1 DEF Down
    <3> QED
      BY <3>1, j \in Int, (j - n) + n = j
  <2>2. ASSUME i \in Int, i + n \in S PROVE i \in Down(S, n)
    BY <2>2, (i + n) - n = i DEF Down
  <2> QED
    BY <2>1, <2>2
<1> QED
  BY <1>1, <1>2

\* Planes that are built from refined planes bit by bit are refined.
LEMMA ChunksCover ==
  ASSUME NEW w \in Nat, NEW A, NEW B, NEW A2, NEW B2,
         \A i : i \in B2 => i \in B,
         \A i : i \notin B => (i \in A2 <=> i \in A)
  PROVE  Covers(from_chunks(w, A, B), from_chunks(w, A2, B2))
<1>1. /\ from_chunks(w, A, B).width = w /\ from_chunks(w, A2, B2).width = w
      /\ from_chunks(w, A, B).a = A \cap Bits(w) /\ from_chunks(w, A2, B2).a = A2 \cap Bits(w)
      /\ from_chunks(w, A, B).b = B \cap Bits(w) /\ from_chunks(w, A2, B2).b = B2 \cap Bits(w)
  BY FromChunksVec
<1> QED
  BY <1>1 DEF Covers

LEMMA MoveCovers ==
  ASSUME NEW m \in Nat, NEW k \in Nat, NEW x, NEW x2, NEW y, NEW y2,
         Refines(m, x, x2), Refines(k, y, y2), NEW n \in Nat
  PROVE  /\ Covers(concat(x, y), concat(x2, y2))
         /\ Covers(resize(x, n + 1), resize(x2, n + 1))
         /\ Covers(shl(x, TRUE, n), shl(x2, TRUE, n))
         /\ Covers(shr(x, TRUE, n), shr(x2, TRUE, n))
         /\ Covers(ashr(x, TRUE, n), ashr(x2, TRUE, n))
         /\ Covers(part_select(x, n, 0), part_select(x2, n, 0))
         /\ Covers(bit_select(x, n), bit_select(x2, n))
         /\ Covers(insert_bits(x, n, y.width, y), insert_bits(x2, n, y2.width, y2))
<1>1. /\ x.width = m /\ x2.width = m /\ y.width = k /\ y2.width = k
      /\ \A i : i \in x2.b => i \in x.b
      /\ \A i : i \notin x.b => (i \in x2.a <=> i \in x.a)
      /\ \A i : i \in y2.b => i \in y.b
      /\ \A i : i \notin y.b => (i \in y2.a <=> i \in y.a)
  BY RefinesBits
<1>2. /\ x.a \subseteq Int /\ x.b \subseteq Int /\ x2.a \subseteq Int /\ x2.b \subseteq Int
      /\ y.a \subseteq Int /\ y.b \subseteq Int /\ y2.a \subseteq Int /\ y2.b \subseteq Int
  BY RefinesBits DEF Bits
<1>3. /\ \A i : i \in Down(x2.b, n) => i \in Down(x.b, n)
      /\ \A i : i \notin Down(x.b, n) => (i \in Down(x2.a, n) <=> i \in Down(x.a, n))
  BY <1>1, <1>2, MoveIs
<1>4. Covers(concat(x, y), concat(x2, y2))
  <2>1. /\ \A i : i \in Up(x2.b, k) => i \in Up(x.b, k)
        /\ \A i : i \notin Up(x.b, k) => (i \in Up(x2.a, k) <=> i \in Up(x.a, k))
    BY <1>1, <1>2, MoveIs
  <2>2. Covers(from_chunks(m + k, y.a \cup Up(x.a, k), y.b \cup Up(x.b, k)),
               from_chunks(m + k, y2.a \cup Up(x2.a, k), y2.b \cup Up(x2.b, k)))
    <3>1. m + k \in Nat
      OBVIOUS
    <3> QED
      BY <1>1, <2>1, <3>1, ChunksCover
  <2> QED
    BY <1>1, <2>2 DEF concat
<1>5. Covers(resize(x, n + 1), resize(x2, n + 1))
  BY <1>1, n + 1 \in Nat, ChunksCover DEF resize
<1>6. Covers(shl(x, TRUE, n), shl(x2, TRUE, n))
  <2>1. /\ \A i : i \in Up(x2.b, n) => i \in Up(x.b, n)
        /\ \A i : i \notin Up(x.b, n) => (i \in Up(x2.a, n) <=> i \in Up(x.a, n))
    BY <1>1, <1>2, MoveIs
  <2> QED
    BY <1>1, <2>1, ChunksCover DEF shl
<1>7. Covers(shr(x, TRUE, n), shr(x2, TRUE, n))
  BY <1>1, <1>3, ChunksCover DEF shr
<1>8. Covers(ashr(x, TRUE, n), ashr(x2, TRUE, n))
  <2> DEFINE F(S) == IF (m - 1) \in S THEN Bits(m) \ Bits(m - n) ELSE {}
  <2>1. /\ \A i : i \in F(x2.b) => i \in F(x.b)
        /\ \A i : (i \notin F(x.b) /\ (i \in F(x2.a) \/ i \in F(x.a))) =>
             (i \in F(x2.a) <=> i \in F(x.a))
    BY <1>1
  <2>2. /\ \A i : i \in F(x2.b) => i \in F(x.b)
        /\ \A i : i \notin F(x.b) => (i \in F(x2.a) <=> i \in F(x.a))
    BY <2>1
  <2> HIDE DEF F
  <2>3. Covers(from_chunks(m, Down(x.a, n) \cup F(x.a), Down(x.b, n) \cup F(x.b)),
               from_chunks(m, Down(x2.a, n) \cup F(x2.a), Down(x2.b, n) \cup F(x2.b)))
    BY <1>3, <2>2, ChunksCover
  <2> QED
    BY <1>1, <2>3 DEF ashr, F
<1>9. Covers(x_of_width(n + 1), x_of_width(n + 1)) /\ Covers(X, X)
  BY DEF Covers
<1>10. Covers(part_select(x, n, 0), part_select(x2, n, 0))
  <2>1. /\ \A i : i \in Down(x2.b, 0) => i \in Down(x.b, 0)
        /\ \A i : i \notin Down(x.b, 0) => (i \in Down(x2.a, 0) <=> i \in Down(x.a, 0))
    BY <1>1, <1>2, MoveIs
  <2> QED
    BY <1>1, <1>9, <2>1, n - 0 + 1 = n + 1, n + 1 \in Nat, ChunksCover DEF part_select
<1>11. Covers(bit_select(x, n), bit_select(x2, n))
  <2>1. CASE n >= m
    BY <1>1, <1>9, <2>1 DEF bit_select
  <2>2. CASE ~(n >= m)
    <3>1. bit_select(x, n) = from_chunks(1, Down(x.a, n), Down(x.b, n))
          /\ bit_select(x2, n) = from_chunks(1, Down(x2.a, n), Down(x2.b, n))
      BY <1>1, <2>2, n - n + 1 = 1, ~(n < n) DEF bit_select, part_select
    <3> QED
      BY <1>3, <3>1, ChunksCover
  <2> QED
    BY <2>1, <2>2
<1>12. Covers(insert_bits(x, n, y.width, y), insert_bits(x2, n, y2.width, y2))
  <2> DEFINE K == Bits(m) \ (n..(n + k - 1))
             P(S) == Up(S \cap Bits(k), n)
  <2>1. /\ \A i : i \in P(y2.b) => i \in P(y.b)
        /\ \A i : i \notin P(y.b) => (i \in P(y2.a) <=> i \in P(y.a))
    <3>1. \A S : \A i : i \in P(S) <=> i \in Int /\ i - n \in S \cap Bits(k)
      <4>1. SUFFICES ASSUME NEW S PROVE \A i : i \in P(S) <=> i \in Int /\ i - n \in S \cap Bits(k)
        OBVIOUS
      <4>2. S \cap Bits(k) \subseteq Int
        BY DEF Bits
      <4> QED
        BY <4>2, MoveIs
    <3> HIDE DEF P
    <3> QED
      BY <1>1, <3>1
  <2>2. \A i : i \in P(y.b) \/ i \in P(y.a) \/ i \in P(y2.a) => i \notin K
    <3>1. \A S : S \cap Bits(k) \subseteq Int
      BY DEF Bits
    <3>2. \A S : \A i : i \in P(S) => i \in Int /\ i - n \in Bits(k)
      BY <3>1, MoveIs
    <3>3. \A i \in Int : i - n \in 0..(k - 1) => i \in n..(n + k - 1)
      OBVIOUS
    <3> HIDE DEF P
    <3>4. \A S : \A i : i \in P(S) => i \in n..(n + k - 1)
      BY <3>2, <3>3 DEF Bits
    <3> QED
      BY <3>4
  <2> HIDE DEF K, P
  <2>3. Covers(from_chunks(m, (x.a \cap K) \cup P(y.a), (x.b \cap K) \cup P(y.b)),
               from_chunks(m, (x2.a \cap K) \cup P(y2.a), (x2.b \cap K) \cup P(y2.b)))
    BY <1>1, <2>1, <2>2, ChunksCover
  <2> QED
    BY <1>1, <2>3 DEF insert_bits, K, P
<1> QED
  BY <1>4, <1>5, <1>6, <1>7, <1>8, <1>10, <1>11, <1>12

LEMMA CondCovers ==
  ASSUME NEW m \in Nat, NEW k \in Nat, NEW w \in Nat,
         NEW c, NEW c2, NEW t, NEW t2, NEW n \in Nat, NEW f, NEW f2,
         Refines(m, c, c2), Refines(k, t, t2), Refines(n, f, f2)
  PROVE  Covers(resize(Cond(c, t, f), w), resize(Cond(c2, t2, f2), w))
<1>1. /\ \A i : i \in t2.b => i \in t.b
      /\ \A i : i \notin t.b => (i \in t2.a <=> i \in t.a)
      /\ \A i : i \in f2.b => i \in f.b
      /\ \A i : i \notin f.b => (i \in f2.a <=> i \in f.a)
  BY RefinesBits
<1>2. CASE is_true(c)
  <2>1. Cond(c, t, f) = t /\ Cond(c2, t2, f2) = t2
    BY <1>2, TestsStay DEF Cond
  <2> QED
    BY <1>1, <2>1, ChunksCover DEF resize
<1>3. CASE ~is_true(c) /\ is_known(c)
  <2>1. c2 = c
    BY <1>3, KnownFixed
  <2>2. Cond(c, t, f) = f /\ Cond(c2, t2, f2) = f2
    BY <1>3, <2>1 DEF Cond
  <2> QED
    BY <1>1, <2>2, ChunksCover DEF resize
<1>4. CASE ~is_true(c) /\ ~is_known(c)
  <2> DEFINE d == Xor(t.a, f.a) \cup Xor(t.b, f.b)
             g == Wider(t, f)
  <2>1. t \in Vec(k) /\ f \in Vec(n) /\ t2 \in Vec(k) /\ f2 \in Vec(n)
    BY DEF Refines
  <2>2. g \in Nat /\ g >= k /\ g >= n
    BY <2>1, WiderNat
  <2>3. /\ t.a \subseteq Bits(g) /\ t.b \subseteq Bits(g)
        /\ f.a \subseteq Bits(g) /\ f.b \subseteq Bits(g)
    <3>1. Bits(k) \subseteq Bits(g) /\ Bits(n) \subseteq Bits(g)
      BY <2>2 DEF Bits
    <3> QED
      BY <2>1, <3>1, RefinesBits
  <2>4. Cond(c, t, f) = from_chunks(g, t.a \cup d, t.b \cup d)
    BY <1>4 DEF Cond, merge_unknown
  <2> HIDE DEF g
  <2>5. /\ Cond(c, t, f).a = t.a \cup d
        /\ Cond(c, t, f).b = t.b \cup d
    BY <2>2, <2>3, <2>4, FromChunksVec DEF Xor
  <2>6. \A i : i \notin t.b \cup d => i \notin t.b /\ i \notin f.b /\ (i \in t.a <=> i \in f.a)
    BY DEF Xor
  <2>7. CASE is_true(c2)
    <3>1. Cond(c2, t2, f2) = t2
      BY <2>7 DEF Cond
    <3> QED
      BY <1>1, <2>5, <2>6, <3>1, ChunksCover DEF resize
  <2>8. CASE ~is_true(c2) /\ is_known(c2)
    <3>1. Cond(c2, t2, f2) = f2
      BY <2>8 DEF Cond
    <3>2. \A i : i \in f.b => i \in t.b \cup d
      BY DEF Xor
    <3>3. \A i : i \in f2.b => i \in t.b \cup d
      BY <1>1, <3>2
    <3>4. \A i : i \notin t.b \cup d => (i \in f2.a <=> i \in t.a \cup d)
      BY <1>1, <2>6
    <3> QED
      BY <2>5, <3>1, <3>3, <3>4, ChunksCover DEF resize
  <2>9. CASE ~is_true(c2) /\ ~is_known(c2)
    <3>1. Cond(c2, t2, f2) = merge_unknown(t2, f2) /\ Cond(c, t, f) = merge_unknown(t, f)
      BY <1>4, <2>9 DEF Cond
    <3>2. Covers(merge_unknown(t, f), merge_unknown(t2, f2))
      BY BitwiseCovers
    <3>3. /\ \A i : i \in merge_unknown(t2, f2).b => i \in merge_unknown(t, f).b
          /\ \A i : i \notin merge_unknown(t, f).b =>
               (i \in merge_unknown(t2, f2).a <=> i \in merge_unknown(t, f).a)
      <4>1. merge_unknown(t, f) \in Vec(g) /\ merge_unknown(t2, f2) \in Vec(g)
        <5>1. Wider(t2, f2) = g
          BY RefinesBits DEF Wider, g
        <5> QED
          BY <2>1, <5>1, BitwiseVec DEF g
      <4>2. Refines(g, merge_unknown(t, f), merge_unknown(t2, f2))
        BY <3>2, <4>1 DEF Refines
      <4> QED
        BY <2>2, <4>2, RefinesBits
    <3> QED
      BY <3>1, <3>3, ChunksCover DEF resize
  <2> QED
    BY <2>7, <2>8, <2>9
<1> QED
  BY <1>2, <1>3, <1>4

\* On a net a Z that becomes known is a driver that starts to drive, so only an
\* X may be refined.
LEMMA NetCovers ==
  ASSUME NEW m \in Nat, NEW n \in Nat, NEW x, NEW x2, NEW y, NEW y2,
         Refines(m, x, x2), Refines(n, y, y2), Zs(x2) = Zs(x), Zs(y2) = Zs(y)
  PROVE  /\ Covers(resolve(x, y), resolve(x2, y2))
         /\ Covers(resolve_wand(x, y), resolve_wand(x2, y2))
         /\ Covers(resolve_wor(x, y), resolve_wor(x2, y2))
<1>1. /\ x.width = m /\ x2.width = m /\ y.width = n /\ y2.width = n
      /\ \A i : i \in x2.b => i \in x.b
      /\ \A i : i \notin x.b => (i \in x2.a <=> i \in x.a)
      /\ \A i : i \in y2.b => i \in y.b
      /\ \A i : i \notin y.b => (i \in y2.a <=> i \in y.a)
  BY RefinesBits
<1>2. /\ \A i : i \in x2.b /\ i \notin x2.a <=> i \in x.b /\ i \notin x.a
      /\ \A i : i \in y2.b /\ i \notin y2.a <=> i \in y.b /\ i \notin y.a
  <2>1. /\ \A i : i \in Zs(x2) <=> i \in Zs(x)
        /\ \A i : i \in Zs(y2) <=> i \in Zs(y)
    OBVIOUS
  <2> QED
    BY <2>1 DEF Zs
<1> DEFINE w == Wider(x, y)
<1>3. w \in Nat /\ Wider(x2, y2) = w
  BY <1>1 DEF Wider
<1> HIDE DEF w
<1>4. Covers(resolve(x, y), resolve(x2, y2))
  <2> DEFINE C(p, q) == ((Bits(w) \ Zs(p)) \ Zs(q)) \ (Bits(w) \ (Xor(p.a, q.a) \cup Xor(p.b, q.b)))
             A(p, q) == (Zs(p) \cap q.a) \cup (p.a \ Zs(p)) \cup C(p, q)
             B(p, q) == (Zs(p) \cap q.b) \cup (p.b \ Zs(p)) \cup C(p, q)
  <2>1. resolve(x, y) = from_chunks(w, A(x, y), B(x, y))
    BY DEF resolve, w
  <2>2. resolve(x2, y2) = from_chunks(w, A(x2, y2), B(x2, y2))
    BY <1>3 DEF resolve
  <2>3. \A i : i \in Bits(w) /\ i \in B(x2, y2) => i \in B(x, y)
    BY <1>1, <1>2 DEF Xor, Zs
  <2>4. \A i : i \in Bits(w) /\ i \notin B(x, y) => (i \in A(x2, y2) <=> i \in A(x, y))
    BY <1>1, <1>2 DEF Xor, Zs
  <2> HIDE DEF A, B
  <2> QED
    BY <1>3, <2>1, <2>2, <2>3, <2>4, FromChunksVec, CoversByBits
<1>5. ASSUME NEW d \in BOOLEAN
      PROVE  Covers(resolve_dominant(x, y, d), resolve_dominant(x2, y2, d))
  <2> DEFINE
       K(p, q) == (Bits(w) \ Zs(p)) \ Zs(q)
       D(p, q) == IF d THEN Ones(p) \cup Ones(q) ELSE Zeros(p, w) \cup Zeros(q, w)
       Q(p, q) == (Xs(p) \cup Xs(q)) \ D(p, q)
       A(p, q) == (Zs(p) \cap q.a) \cup ((p.a \cap Zs(q)) \ Zs(p))
                  \cup (K(p, q) \cap (IF d THEN D(p, q) \cup Q(p, q) ELSE Bits(w) \ D(p, q)))
       B(p, q) == (Zs(p) \cap q.b) \cup ((p.b \cap Zs(q)) \ Zs(p)) \cup (K(p, q) \cap Q(p, q))
  <2>1. resolve_dominant(x, y, d) = from_chunks(w, A(x, y), B(x, y))
    BY DEF resolve_dominant, w
  <2>2. resolve_dominant(x2, y2, d) = from_chunks(w, A(x2, y2), B(x2, y2))
    BY <1>3 DEF resolve_dominant
  <2>3. \A i : i \in Bits(w) /\ i \in B(x2, y2) => i \in B(x, y)
    BY <1>1, <1>2 DEF Zs, Xs, Ones, Zeros
  <2>4. \A i : i \in Bits(w) /\ i \notin B(x, y) => (i \in A(x2, y2) <=> i \in A(x, y))
    BY <1>1, <1>2 DEF Zs, Xs, Ones, Zeros
  <2> HIDE DEF A, B
  <2> QED
    BY <1>3, <2>1, <2>2, <2>3, <2>4, FromChunksVec, CoversByBits
<1> QED
  BY <1>4, <1>5 DEF resolve_wand, resolve_wor

-----------------------------------------------------------------------------
(* The steps *)

\* A bit that becomes known refines its vector.
LEMMA LearnedRefines ==
  ASSUME NEW w \in Nat, NEW x \in Vec(w), NEW i \in x.b, NEW ones \in SUBSET {i}
  PROVE  Refines(w, x, Learned(x, i, ones))
<1> DEFINE y == Learned(x, i, ones)
<1>1. x.a \subseteq Bits(w) /\ x.b \subseteq Bits(w) /\ x.width = w
      /\ x = [width |-> w, a |-> x.a, b |-> x.b]
  BY VecFields DEF Bits
<1>2. /\ y.width = w /\ y.b = x.b \ {i} /\ y.a = (x.a \ {i}) \cup ones
      /\ y = [width |-> w, a |-> y.a, b |-> y.b]
  <2>1. y = [width |-> w, a |-> (x.a \ {i}) \cup ones, b |-> x.b \ {i}]
    BY <1>1 DEF Learned
  <2> QED
    BY <2>1
<1> HIDE DEF y
<1>3. y.a \subseteq Bits(w) /\ y.b \subseteq Bits(w)
  BY <1>1, <1>2
<1>4. y \in Vec(w)
  BY <1>2, <1>3 DEF Vec
<1>5. Covers(x, y)
  BY <1>1, <1>2 DEF Covers
<1> QED
  BY <1>4, <1>5 DEF Refines, y

LEMMA SameRefines ==
  ASSUME NEW w \in Nat, NEW x \in Vec(w)
  PROVE  Refines(w, x, x)
BY DEF Refines, Covers

LEMMA VecsWidth ==
  ASSUME NEW x \in Vecs
  PROVE  x.width \in Widths /\ x.width \in Nat /\ x \in Vec(x.width)
<1>1. PICK w \in Widths : x \in Vec(w)
  BY DEF Vecs
<1> QED
  BY <1>1, LogicVecAssumption, VecFields

OperandsTyped == u \in Vecs /\ v \in Vecs

LEMMA StepRefines ==
  ASSUME OperandsTyped, Next
  PROVE  Refines(u.width, u, u') /\ Refines(v.width, v, v')
<1>1. /\ u.width \in Nat /\ u \in Vec(u.width)
      /\ v.width \in Nat /\ v \in Vec(v.width)
  BY VecsWidth DEF OperandsTyped
<1>2. CASE LearnLeft
  <2>0. PICK i \in u.b :
          \E ones \in SUBSET {i} : u' = Learned(u, i, ones) /\ v' = v
    BY <1>2 DEF LearnLeft
  <2>1. PICK ones \in SUBSET {i} : u' = Learned(u, i, ones) /\ v' = v
    BY <2>0
  <2> QED
    BY <1>1, <2>1, LearnedRefines, SameRefines
<1>3. CASE LearnRight
  <2>0. PICK i \in v.b :
          \E ones \in SUBSET {i} : v' = Learned(v, i, ones) /\ u' = u
    BY <1>3 DEF LearnRight
  <2>1. PICK ones \in SUBSET {i} : v' = Learned(v, i, ones) /\ u' = u
    BY <2>0
  <2> QED
    BY <1>1, <2>1, LearnedRefines, SameRefines
<1> QED
  BY <1>2, <1>3 DEF Next

LEMMA OperandsStayTyped == Spec => []OperandsTyped
<1>1. Init => OperandsTyped
  BY DEF Init, OperandsTyped
<1>2. OperandsTyped /\ [Next]_vars => OperandsTyped'
  <2>1. SUFFICES ASSUME OperandsTyped, [Next]_vars PROVE OperandsTyped'
    OBVIOUS
  <2>2. CASE Next
    <3>1. u' \in Vec(u.width) /\ v' \in Vec(v.width)
      BY <2>1, <2>2, StepRefines DEF Refines
    <3>2. u.width \in Widths /\ v.width \in Widths
      BY <2>1, VecsWidth DEF OperandsTyped
    <3> QED
      BY <3>1, <3>2 DEF OperandsTyped, Vecs
  <2>3. CASE UNCHANGED vars
    BY <2>1, <2>3 DEF vars, OperandsTyped
  <2> QED
    BY <2>1, <2>2, <2>3
<1> QED
  BY <1>1, <1>2, PTL DEF Spec

-----------------------------------------------------------------------------
(* The theorems *)

\* Records of results, field by field.
LEMMA MoveRecordCovers ==
  ASSUME NEW f1, NEW f2, NEW f3, NEW f4, NEW f5, NEW f6, NEW f7, NEW f8,
         NEW g1, NEW g2, NEW g3, NEW g4, NEW g5, NEW g6, NEW g7, NEW g8,
         Covers(f1, g1), Covers(f2, g2), Covers(f3, g3), Covers(f4, g4),
         Covers(f5, g5), Covers(f6, g6), Covers(f7, g7), Covers(f8, g8)
  PROVE  CoversAll([concat |-> f1, resize |-> f2, shl |-> f3, shr |-> f4, ashr
                   |-> f5, part_select |-> f6, bit_select |-> f7, insert_bits
                   |-> f8],
                   [concat |-> g1, resize |-> g2, shl |-> g3, shr |-> g4, ashr
                   |-> g5, part_select |-> g6, bit_select |-> g7, insert_bits
                   |-> g8])
BY DEF CoversAll

LEMMA MoveRecordVecs ==
  ASSUME NEW f1, NEW f2, NEW f3, NEW f4, NEW f5, NEW f6, NEW f7, NEW f8,
         IsVec(f1), IsVec(f2), IsVec(f3), IsVec(f4), IsVec(f5), IsVec(f6),
         IsVec(f7), IsVec(f8)
  PROVE  \A o \in DOMAIN [concat |-> f1, resize |-> f2, shl |-> f3, shr |->
                          f4, ashr |-> f5, part_select |-> f6, bit_select |->
                          f7, insert_bits |-> f8] :
           IsVec([concat |-> f1, resize |-> f2, shl |-> f3, shr |-> f4, ashr
                 |-> f5, part_select |-> f6, bit_select |-> f7, insert_bits
                 |-> f8][o])
OBVIOUS

LEMMA ChoiceRecordCovers ==
  ASSUME NEW f1, NEW f2, NEW f3, NEW f4,
         NEW g1, NEW g2, NEW g3, NEW g4,
         Covers(f1, g1), Covers(f2, g2), Covers(f3, g3), Covers(f4, g4)
  PROVE  CoversAll([merge |-> f1, cond |-> f2, cond_t |-> f3, cond_f |-> f4],
                   [merge |-> g1, cond |-> g2, cond_t |-> g3, cond_f |-> g4])
BY DEF CoversAll

LEMMA ChoiceRecordVecs ==
  ASSUME NEW f1, NEW f2, NEW f3, NEW f4,
         IsVec(f1), IsVec(f2), IsVec(f3), IsVec(f4)
  PROVE  \A o \in DOMAIN [merge |-> f1, cond |-> f2, cond_t |-> f3, cond_f
                          |-> f4] :
           IsVec([merge |-> f1, cond |-> f2, cond_t |-> f3, cond_f |-> f4][o])
OBVIOUS

LEMMA TypedResults == OperandsTyped => TypeOK
<1>1. SUFFICES ASSUME OperandsTyped PROVE TypeOK
  OBVIOUS
<1>2. /\ u.width \in Nat /\ u \in Vec(u.width) /\ v.width \in Nat /\ v \in Vec(v.width)
      /\ u \in Vecs /\ v \in Vecs
  BY <1>1, VecsWidth DEF OperandsTyped
<1>3. \A o \in {"and", "or", "xor"} : Bitwise_results(u, v)[o] \in Vec(Wider(u, v))
  BY <1>2, BitwiseVec DEF Bitwise_results
<1>4. Not(u) \in Vec(u.width)
  BY <1>2, BitwiseVec
<1>5. \A o \in DOMAIN Bitwise_results(u, v) \ {"and", "or", "xor", "not"} :
        Bitwise_results(u, v)[o] \in Vec(1)
  BY OneBit, BitVec DEF Bitwise_results
<1>6. \A o \in DOMAIN Numeric_results(u, v) : Numeric_results(u, v)[o] \in Vec(1)
  BY OneBit, BitVec DEF Numeric_results
<1>7. ASSUME NEW n \in Distances
      PROVE  /\ \A o \in DOMAIN Move_results(u, v, n) :
                  IsVec(Move_results(u, v, n)[o])
             /\ \A o \in DOMAIN Choice_results(u, v, n) :
                  IsVec(Choice_results(u, v, n)[o])
  <2>1. n \in Nat /\ n + 1 \in Nat
    BY LogicVecAssumption
  <2>2. \A w \in Nat : \A x \in Vec(w) : IsVec(x)
    BY VecFields DEF IsVec
  <2>3. \A x : resize(x, n + 1) \in Vec(n + 1)
    BY <2>1, FromChunksVec DEF resize
  <2>4. Wider(u, v) \in Nat /\ u.width + v.width \in Nat
    BY <1>2, WiderNat
  <2>5. IsVec(merge_unknown(u, v))
    BY <1>2, <2>2, <2>4, BitwiseVec
  <2>6. /\ IsVec(concat(u, v)) /\ IsVec(resize(u, n + 1))
        /\ IsVec(shl(u, TRUE, n)) /\ IsVec(shr(u, TRUE, n)) /\ IsVec(ashr(u, TRUE, n))
        /\ IsVec(part_select(u, n, 0)) /\ IsVec(bit_select(u, n))
        /\ IsVec(insert_bits(u, n, v.width, v))
    BY <1>2, <2>1, <2>2, <2>4, MovesVec
  <2>7. \A x : IsVec(resize(x, n + 1))
    BY <2>1, <2>2, <2>3
  <2>8. \A o \in DOMAIN Move_results(u, v, n) : IsVec(Move_results(u, v, n)[o])
    BY <2>6, MoveRecordVecs, Zenon DEF Move_results
  <2>9. \A o \in DOMAIN Choice_results(u, v, n) : IsVec(Choice_results(u, v, n)[o])
    BY <2>5, <2>7, ChoiceRecordVecs, ZenonT(30) DEF Choice_results
  <2> QED
    BY <2>8, <2>9
<1>8. \A o \in DOMAIN Net_results(u, v) : Net_results(u, v)[o] \in Vec(Wider(u, v))
  BY <1>2, BitwiseVec DEF Net_results
<1> QED
  BY <1>2, <1>3, <1>4, <1>5, <1>6, <1>7, <1>8 DEF TypeOK

\* No operator leaves a bit beyond the width of its result, for any widths
\* (the masks on the way out of every chunk loop).
THEOREM ResultsTyped == Spec => []TypeOK
BY OperandsStayTyped, TypedResults, PTL

LEMMA StepPessimistic ==
  ASSUME OperandsTyped, Next
  PROVE  /\ CoversAll(Bitwise_results(u, v), Bitwise_results(u', v'))
         /\ CoversAll(Numeric_results(u, v), Numeric_results(u', v'))
         /\ \A n \in Distances :
              /\ CoversAll(Move_results(u, v, n), Move_results(u', v', n))
              /\ CoversAll(Choice_results(u, v, n), Choice_results(u', v', n))
         /\ Zs(u) = Zs(u') /\ Zs(v) = Zs(v') =>
              CoversAll(Net_results(u, v), Net_results(u', v'))
<1> DEFINE x == u'
           y == v'
<1>1. Refines(u.width, u, x) /\ Refines(v.width, v, y)
  BY StepRefines
<1>2. u.width \in Nat /\ v.width \in Nat
  BY VecsWidth DEF OperandsTyped
<1> HIDE DEF x, y
<1>3. CoversAll(Bitwise_results(u, v), Bitwise_results(x, y))
  BY <1>1, <1>2, BitwiseCovers, EqCovers, LogicalCovers, ReductionCovers
     DEF CoversAll, Bitwise_results
<1>4. CoversAll(Numeric_results(u, v), Numeric_results(x, y))
  BY <1>1, <1>2, NumericCovers DEF CoversAll, Numeric_results
<1>5. ASSUME NEW n \in Distances
      PROVE  /\ CoversAll(Move_results(u, v, n), Move_results(x, y, n))
             /\ CoversAll(Choice_results(u, v, n), Choice_results(x, y, n))
  <2>1. n \in Nat /\ n + 1 \in Nat
    BY LogicVecAssumption
  <2>2. x_of_width(n + 1) \in Vec(n + 1) /\ all_bits(n + 1, TRUE) \in Vec(n + 1)
        /\ all_bits(n + 1, FALSE) \in Vec(n + 1)
    BY DEF x_of_width, all_bits, Vec
  <2>3. /\ Refines(n + 1, x_of_width(n + 1), x_of_width(n + 1))
        /\ Refines(n + 1, all_bits(n + 1, TRUE), all_bits(n + 1, TRUE))
        /\ Refines(n + 1, all_bits(n + 1, FALSE), all_bits(n + 1, FALSE))
    BY <2>1, <2>2, SameRefines
  <2>4. /\ Covers(resize(Cond(u, v, x_of_width(n + 1)), n + 1),
                  resize(Cond(x, y, x_of_width(n + 1)), n + 1))
        /\ Covers(resize(Cond(v, u, all_bits(n + 1, TRUE)), n + 1),
                  resize(Cond(y, x, all_bits(n + 1, TRUE)), n + 1))
        /\ Covers(resize(Cond(v, all_bits(n + 1, FALSE), u), n + 1),
                  resize(Cond(y, all_bits(n + 1, FALSE), x), n + 1))
    BY <1>1, <1>2, <2>1, <2>3, CondCovers
  <2>5. Covers(merge_unknown(u, v), merge_unknown(x, y))
    BY <1>1, <1>2, BitwiseCovers
  <2>6. /\ Covers(concat(u, v), concat(x, y))
        /\ Covers(resize(u, n + 1), resize(x, n + 1))
        /\ Covers(shl(u, TRUE, n), shl(x, TRUE, n))
        /\ Covers(shr(u, TRUE, n), shr(x, TRUE, n))
        /\ Covers(ashr(u, TRUE, n), ashr(x, TRUE, n))
        /\ Covers(part_select(u, n, 0), part_select(x, n, 0))
        /\ Covers(bit_select(u, n), bit_select(x, n))
        /\ Covers(insert_bits(u, n, v.width, v), insert_bits(x, n, y.width, y))
    BY <1>1, <1>2, <2>1, MoveCovers
  <2>7. CoversAll(Move_results(u, v, n), Move_results(x, y, n))
    BY <2>6, MoveRecordCovers, Zenon DEF Move_results
  <2>8. CoversAll(Choice_results(u, v, n), Choice_results(x, y, n))
    BY <2>4, <2>5, ChoiceRecordCovers, Zenon DEF Choice_results
  <2> QED
    BY <2>7, <2>8
<1>6. Zs(u) = Zs(x) /\ Zs(v) = Zs(y) => CoversAll(Net_results(u, v), Net_results(x, y))
  BY <1>1, <1>2, NetCovers DEF CoversAll, Net_results
<1> QED
  BY <1>3, <1>4, <1>5, <1>6 DEF x, y

\* Results are pessimistic for vectors of every width: learning an unknown bit
\* of an operand never changes a bit of a result that was known.
THEOREM ResultsPessimistic == Spec => KnownStaysKnown
<1>1. OperandsTyped /\ [Next]_vars =>
        [/\ CoversAll(Bitwise_results(u, v), Bitwise_results(u', v'))
         /\ CoversAll(Numeric_results(u, v), Numeric_results(u', v'))
         /\ \A n \in Distances :
              /\ CoversAll(Move_results(u, v, n), Move_results(u', v', n))
              /\ CoversAll(Choice_results(u, v, n), Choice_results(u', v', n))
         /\ Zs(u) = Zs(u') /\ Zs(v) = Zs(v') =>
              CoversAll(Net_results(u, v), Net_results(u', v'))]_vars
  BY StepPessimistic
<1> QED
  BY <1>1, OperandsStayTyped, PTL DEF Spec, KnownStaysKnown

\* ===, casez, casex and == agree on vectors of every width: case items are
\* matched by casez_eq and casex_eq, conditions by eq.
THEOREM ComparisonsConsistent == Spec => []ComparisonsAgree
<1>1. OperandsTyped => ComparisonsAgree
  <2>1. case_eq(u, v) = ONE <=> u.a = v.a /\ u.b = v.b
    BY ConstantsDiffer DEF case_eq
  <2>2. casez_eq(u, v) = ONE <=>
          (Xor(u.a, v.a) \cup Xor(u.b, v.b)) \ (Zs(u) \cup Zs(v)) = {}
    BY ConstantsDiffer DEF casez_eq, case_wild_eq
  <2>3. /\ casex_eq(u, v) = ONE <=>
             (Xor(u.a, v.a) \cup Xor(u.b, v.b)) \ (u.b \cup v.b) = {}
        /\ casex_eq(u, v) \in {ZERO, ONE}
    BY ConstantsDiffer DEF casex_eq, case_wild_eq
  <2>4. /\ eq(u, v) = ONE <=> Xor(u.a, v.a) \ (u.b \cup v.b) = {} /\ u.b \cup v.b = {}
        /\ eq(u, v) = ZERO <=> Xor(u.a, v.a) \ (u.b \cup v.b) # {}
    BY ConstantsDiffer DEF eq
  <2>5. case_eq(u, v) = ONE => casez_eq(u, v) = ONE
    BY <2>1, <2>2 DEF Xor
  <2>6. casez_eq(u, v) = ONE => casex_eq(u, v) = ONE
    BY <2>2, <2>3 DEF Zs
  <2>7. eq(u, v) = ONE <=> case_eq(u, v) = ONE /\ is_known(u) /\ is_known(v)
    BY <2>1, <2>4 DEF Xor, is_known
  <2>8. eq(u, v) = ZERO <=> casex_eq(u, v) = ZERO
    <3>1. (Xor(u.a, v.a) \cup Xor(u.b, v.b)) \ (u.b \cup v.b)
            = Xor(u.a, v.a) \ (u.b \cup v.b)
      BY DEF Xor
    <3> QED
      BY <2>3, <2>4, <3>1, ConstantsDiffer
  <2> QED
    BY <2>5, <2>6, <2>7, <2>8 DEF ComparisonsAgree
<1> QED
  BY <1>1, OperandsStayTyped, PTL

-----------------------------------------------------------------------------
(* What is written is read back *)

\* A bit of a vector, as the vector that bit_select makes of it.
BitOf(x, i) ==
  [width |-> 1, a |-> IF i \in x.a THEN {0} ELSE {}, b |-> IF i \in x.b THEN {0} ELSE {}]

LEMMA BitSelectIs ==
  ASSUME NEW w \in Nat, NEW x \in Vec(w), NEW i \in Bits(w)
  PROVE  bit_select(x, i) = BitOf(x, i)
<1>1. /\ x.width = w /\ x.a \subseteq Int /\ x.b \subseteq Int
      /\ i \in Nat /\ i < w /\ i - i + 1 = 1 /\ ~(i < i) /\ ~(i >= w)
  BY VecFields DEF Bits
<1>2. Bits(1) = {0}
  BY DEF Bits
<1>3. /\ 0 \in Down(x.a, i) <=> i \in x.a
      /\ 0 \in Down(x.b, i) <=> i \in x.b
  BY <1>1, MoveIs
<1>4. /\ Down(x.a, i) \cap {0} = IF i \in x.a THEN {0} ELSE {}
      /\ Down(x.b, i) \cap {0} = IF i \in x.b THEN {0} ELSE {}
  BY <1>3
<1> QED
  BY <1>1, <1>2, <1>4 DEF bit_select, part_select, from_chunks, BitOf

LEMMA InsertIs ==
  ASSUME NEW m \in Nat, NEW k \in Nat, NEW x \in Vec(m), NEW y \in Vec(k), NEW lo \in Nat,
         NEW i \in Bits(m)
  PROVE  /\ i \in insert_bits(x, lo, k, y).a <=>
              IF i >= lo /\ i < lo + k THEN i - lo \in y.a ELSE i \in x.a
         /\ i \in insert_bits(x, lo, k, y).b <=>
              IF i >= lo /\ i < lo + k THEN i - lo \in y.b ELSE i \in x.b
<1> DEFINE put(S) == Up(S \cap Bits(k), lo)
           kept == Bits(m) \ (lo..(lo + k - 1))
<1>1. /\ x.width = m /\ y.a \subseteq Bits(k) /\ y.b \subseteq Bits(k) /\ i \in Int
  BY VecFields DEF Bits
<1>2. Bits(k) \subseteq Int
  BY DEF Bits
<1>3. /\ i \in put(y.a) <=> i - lo \in y.a
      /\ i \in put(y.b) <=> i - lo \in y.b
  BY <1>1, <1>2, MoveIs
<1>4. i \in kept <=> ~(i >= lo /\ i < lo + k)
  BY <1>1 DEF Bits
<1>5. \A S : i - lo \in S /\ S \subseteq Bits(k) => i >= lo /\ i < lo + k
  BY <1>1 DEF Bits
<1>6. /\ insert_bits(x, lo, k, y).a = ((x.a \cap kept) \cup put(y.a)) \cap Bits(m)
      /\ insert_bits(x, lo, k, y).b = ((x.b \cap kept) \cup put(y.b)) \cap Bits(m)
  BY <1>1 DEF insert_bits, from_chunks
<1> HIDE DEF put, kept
<1> QED
  BY <1>1, <1>3, <1>4, <1>5, <1>6

LEMMA ConcatParts ==
  ASSUME NEW m \in Nat, NEW k \in Nat, m > 0, k > 0, NEW x \in Vec(m), NEW y \in Vec(k)
  PROVE  /\ part_select(concat(x, y), k - 1, 0) = y
         /\ part_select(concat(x, y), m + k - 1, k) = x
<1> DEFINE c == concat(x, y)
<1>1. /\ x.width = m /\ x.a \subseteq 0..(m - 1) /\ x.b \subseteq 0..(m - 1)
      /\ x = [width |-> m, a |-> x.a, b |-> x.b]
      /\ y.width = k /\ y.a \subseteq 0..(k - 1) /\ y.b \subseteq 0..(k - 1)
      /\ y = [width |-> k, a |-> y.a, b |-> y.b]
  BY VecFields
<1>2. m + k \in Nat /\ x.a \subseteq Int /\ x.b \subseteq Int
  BY <1>1
<1>3. /\ c.width = m + k
      /\ c.a = (y.a \cup Up(x.a, k)) \cap Bits(m + k)
      /\ c.b = (y.b \cup Up(x.b, k)) \cap Bits(m + k)
  BY <1>1 DEF concat, from_chunks
<1>4. /\ \A i : i \in Up(x.a, k) <=> i \in Int /\ i - k \in x.a
      /\ \A i : i \in Up(x.b, k) <=> i \in Int /\ i - k \in x.b
  BY <1>2, MoveIs
<1>5. c.a \subseteq Int /\ c.b \subseteq Int
  BY <1>3 DEF Bits
<1> HIDE DEF c
<1>6. /\ \A i : i \in Down(c.a, 0) <=> i \in Int /\ i + 0 \in c.a
      /\ \A i : i \in Down(c.b, 0) <=> i \in Int /\ i + 0 \in c.b
      /\ \A i : i \in Down(c.a, k) <=> i \in Int /\ i + k \in c.a
      /\ \A i : i \in Down(c.b, k) <=> i \in Int /\ i + k \in c.b
  BY <1>5, MoveIs
<1>7. ASSUME NEW i \in Int
      PROVE  /\ i \in Down(c.a, 0) /\ i \in Bits(k) <=> i \in y.a
             /\ i \in Down(c.b, 0) /\ i \in Bits(k) <=> i \in y.b
  <2>1. i + 0 = i /\ (i \in Bits(k) => i \in Bits(m + k)) /\ (i \in Bits(k) => ~(i - k \in 0..(m - 1)))
    BY DEF Bits
  <2>2. i \in Bits(k) <=> i \in 0..(k - 1)
    BY DEF Bits
  <2> QED
    BY <1>1, <1>3, <1>4, <1>6, <2>1, <2>2, ZenonT(60)
<1>8. ASSUME NEW i \in Int
      PROVE  /\ i \in Down(c.a, k) /\ i \in Bits(m) <=> i \in x.a
             /\ i \in Down(c.b, k) /\ i \in Bits(m) <=> i \in x.b
  <2>1. /\ i + k \in Int /\ (i + k) - k = i
        /\ i \in Bits(m) => i + k \in Bits(m + k)
        /\ i \in Bits(m) => ~(i + k \in 0..(k - 1))
    BY DEF Bits
  <2>2. i \in Bits(m) <=> i \in 0..(m - 1)
    BY DEF Bits
  <2>3. /\ i \in Down(c.a, k) <=> i + k \in c.a
        /\ i \in Down(c.b, k) <=> i + k \in c.b
    BY <1>6
  <2>4. /\ i + k \in Up(x.a, k) <=> i \in x.a
        /\ i + k \in Up(x.b, k) <=> i \in x.b
    BY <1>4, <2>1
  <2>5. ASSUME i \in Bits(m)
        PROVE  /\ i + k \in c.a <=> i \in x.a
               /\ i + k \in c.b <=> i \in x.b
    <3>1. i + k \notin y.a /\ i + k \notin y.b /\ i + k \in Bits(m + k)
      BY <1>1, <2>1, <2>5
    <3> QED
      BY <1>3, <2>4, <3>1
  <2> QED
    BY <1>1, <2>2, <2>3, <2>5
<1>9. /\ Down(c.a, 0) \cap Bits(k) = y.a /\ Down(c.b, 0) \cap Bits(k) = y.b
  BY <1>1, <1>7 DEF Bits
<1>10. /\ Down(c.a, k) \cap Bits(m) = x.a /\ Down(c.b, k) \cap Bits(m) = x.b
  BY <1>1, <1>8 DEF Bits
<1>11. part_select(c, k - 1, 0) = from_chunks(k, Down(c.a, 0), Down(c.b, 0))
  <2>1. ~(k - 1 >= m + k) /\ ~(k - 1 < 0) /\ k - 1 - 0 + 1 = k
    OBVIOUS
  <2> QED
    BY <1>3, <2>1 DEF part_select
<1>12. part_select(c, m + k - 1, k) = from_chunks(m, Down(c.a, k), Down(c.b, k))
  <2>1. ~(m + k - 1 >= m + k) /\ ~(m + k - 1 < k) /\ m + k - 1 - k + 1 = m
    OBVIOUS
  <2> QED
    BY <1>3, <2>1 DEF part_select
<1> QED
  BY <1>1, <1>9, <1>10, <1>11, <1>12 DEF from_chunks, c

\* WriteThenRead for vectors of every width and every position.
THEOREM WritesAreRead == Spec => []WriteThenRead
<1>1. OperandsTyped => WriteThenRead
  <2> SUFFICES ASSUME OperandsTyped
               PROVE  WriteThenRead
    OBVIOUS
  <2> DEFINE m == u.width
             k == v.width
  <2>1. m \in Nat /\ k \in Nat /\ m > 0 /\ k > 0 /\ u \in Vec(m) /\ v \in Vec(k)
    BY VecsWidth, LogicVecAssumption DEF OperandsTyped
  <2> HIDE DEF m, k
  <2>2. ASSUME NEW lo \in Distances, NEW i \in Bits(m)
        PROVE  bit_select(insert_bits(u, lo, k, v), i) =
                 bit_select(IF i >= lo /\ i < lo + k THEN v ELSE u,
                            IF i >= lo /\ i < lo + k THEN i - lo ELSE i)
    <3> DEFINE r == insert_bits(u, lo, k, v)
    <3>1. lo \in Nat /\ i \in Int
      BY LogicVecAssumption DEF Bits
    <3>2. r \in Vec(m)
      BY <2>1, <3>1, MovesVec, VecFields
    <3>3. /\ i \in r.a <=> IF i >= lo /\ i < lo + k THEN i - lo \in v.a ELSE i \in u.a
          /\ i \in r.b <=> IF i >= lo /\ i < lo + k THEN i - lo \in v.b ELSE i \in u.b
      BY <2>1, <3>1, InsertIs
    <3> HIDE DEF r
    <3>4. bit_select(r, i) = BitOf(r, i)
      BY <2>1, <3>2, BitSelectIs
    <3>5. CASE i >= lo /\ i < lo + k
      <4>1. i - lo \in Bits(k)
        BY <2>1, <3>1, <3>5 DEF Bits
      <4>2. bit_select(v, i - lo) = BitOf(v, i - lo)
        BY <2>1, <4>1, BitSelectIs
      <4>3. BitOf(r, i) = BitOf(v, i - lo)
        BY <3>3, <3>5 DEF BitOf
      <4> QED
        BY <3>4, <3>5, <4>2, <4>3 DEF r
    <3>6. CASE ~(i >= lo /\ i < lo + k)
      <4>1. bit_select(u, i) = BitOf(u, i)
        BY <2>1, BitSelectIs
      <4>2. BitOf(r, i) = BitOf(u, i)
        BY <3>3, <3>6 DEF BitOf
      <4> QED
        BY <3>4, <3>6, <4>1, <4>2 DEF r
    <3> QED
      BY <3>5, <3>6
  <2>3. /\ part_select(concat(u, v), k - 1, 0) = v
        /\ part_select(concat(u, v), m + k - 1, k) = u
    BY <2>1, ConcatParts
  <2> QED
    BY <2>2, <2>3 DEF WriteThenRead, m, k
<1> QED
  BY <1>1, OperandsStayTyped, PTL

-----------------------------------------------------------------------------
(* No needless X *)

\* The completion of x whose unknown bits are 1 in S and 0 elsewhere.
Fill(x, S) == [width |-> x.width, a |-> Ones(x) \cup S, b |-> {}]

LEMMA FillIs ==
  ASSUME NEW x, NEW S, S \subseteq x.b
  PROVE  /\ Fill(x, S) \in Completions(x)
         /\ Fill(x, S).width = x.width /\ Fill(x, S).b = {}
         /\ \A i : i \in Fill(x, S).a <=> (i \in x.a /\ i \notin x.b) \/ i \in S
         /\ \A i : i \in Ones(Fill(x, S)) <=> (i \in x.a /\ i \notin x.b) \/ i \in S
         /\ is_known(Fill(x, S))
BY DEF Fill, Completions, Ones, is_known

\* Completions with 0 or with 1 for every unknown bit.
Low(x) == Fill(x, {})
High(x) == Fill(x, x.b)

LEMMA LowHigh ==
  ASSUME NEW x
  PROVE  /\ Low(x) \in Completions(x) /\ High(x) \in Completions(x)
         /\ Low(x).width = x.width /\ High(x).width = x.width
         /\ Low(x).b = {} /\ High(x).b = {}
         /\ \A i : i \in Low(x).a <=> i \in x.a /\ i \notin x.b
         /\ \A i : i \in High(x).a <=> i \in x.a \/ i \in x.b
         /\ \A i : i \in Ones(Low(x)) <=> i \in x.a /\ i \notin x.b
         /\ \A i : i \in Ones(High(x)) <=> i \in x.a \/ i \in x.b
         /\ is_known(Low(x)) /\ is_known(High(x))
         /\ is_zero(Low(x)) <=> ~is_true(x)
         /\ is_true(Low(x)) <=> is_true(x)
         /\ is_zero(High(x)) <=> is_zero(x)
         /\ is_true(High(x)) <=> ~is_zero(x)
<1>1. {} \subseteq x.b /\ x.b \subseteq x.b
  OBVIOUS
<1>2. /\ Low(x) \in Completions(x) /\ High(x) \in Completions(x)
      /\ Low(x).width = x.width /\ High(x).width = x.width
      /\ Low(x).b = {} /\ High(x).b = {}
      /\ is_known(Low(x)) /\ is_known(High(x))
  BY <1>1, FillIs DEF Low, High
<1>3. /\ \A i : i \in Low(x).a <=> i \in x.a /\ i \notin x.b
      /\ \A i : i \in High(x).a <=> i \in x.a \/ i \in x.b
      /\ \A i : i \in Ones(Low(x)) <=> i \in x.a /\ i \notin x.b
      /\ \A i : i \in Ones(High(x)) <=> i \in x.a \/ i \in x.b
  BY <1>1, FillIs DEF Low, High
<1>4. /\ is_zero(Low(x)) <=> ~is_true(x)
      /\ is_true(Low(x)) <=> is_true(x)
  BY <1>2, <1>3 DEF is_zero, is_true, Ones
<1>5. /\ is_zero(High(x)) <=> is_zero(x)
      /\ is_true(High(x)) <=> ~is_zero(x)
  BY <1>2, <1>3 DEF is_zero, is_true, Ones
<1> QED
  BY <1>2, <1>3, <1>4, <1>5

\* & and |: the two extreme completions decide an unknown bit either way.
LEMMA AndPossible ==
  ASSUME NEW m \in Nat, NEW n \in Nat, NEW x \in Vec(m), NEW y \in Vec(n),
         NEW i \in BitAnd(x, y).b
  PROVE  /\ i \in BitAnd(High(x), High(y)).a
         /\ i \notin BitAnd(Low(x), Low(y)).a
<1>1. /\ i \in Bits(Wider(x, y))
      /\ i \in x.a \/ i \in x.b
      /\ i \in y.a \/ i \in y.b
      /\ ~(i \in x.a /\ i \notin x.b /\ i \in y.a /\ i \notin y.b)
  BY DEF BitAnd, from_chunks, Ones
<1>2. Wider(High(x), High(y)) = Wider(x, y) /\ Wider(Low(x), Low(y)) = Wider(x, y)
  BY LowHigh DEF Wider
<1>3. /\ i \in BitAnd(High(x), High(y)).a <=>
           /\ i \in Bits(Wider(x, y))
           /\ i \in High(x).a \/ i \in High(x).b
           /\ i \in High(y).a \/ i \in High(y).b
      /\ i \in BitAnd(Low(x), Low(y)).a <=>
           /\ i \in Bits(Wider(x, y))
           /\ i \in Low(x).a \/ i \in Low(x).b
           /\ i \in Low(y).a \/ i \in Low(y).b
  BY <1>2 DEF BitAnd, from_chunks
<1> QED
  BY <1>1, <1>3, LowHigh

LEMMA OrPossible ==
  ASSUME NEW m \in Nat, NEW n \in Nat, NEW x \in Vec(m), NEW y \in Vec(n),
         NEW i \in BitOr(x, y).b
  PROVE  /\ i \in BitOr(High(x), High(y)).a
         /\ i \notin BitOr(Low(x), Low(y)).a
<1>1. /\ i \in Bits(Wider(x, y))
      /\ i \in x.a \/ i \in x.b \/ i \in y.a \/ i \in y.b
      /\ i \notin x.a \/ i \in x.b
      /\ i \notin y.a \/ i \in y.b
  <2>1. x.width = m /\ y.width = n /\ x.a \subseteq Bits(m) /\ y.a \subseteq Bits(n)
    BY VecFields DEF Bits
  <2> QED
    BY <2>1 DEF BitOr, from_chunks
<1>2. Wider(High(x), High(y)) = Wider(x, y) /\ Wider(Low(x), Low(y)) = Wider(x, y)
  BY LowHigh DEF Wider
<1>3. /\ i \in BitOr(High(x), High(y)).a <=>
           /\ i \in Bits(Wider(x, y))
           /\ i \in High(x).a \/ i \in High(x).b \/ i \in High(y).a \/ i \in High(y).b
      /\ i \in BitOr(Low(x), Low(y)).a <=>
           /\ i \in Bits(Wider(x, y))
           /\ i \in Low(x).a \/ i \in Low(x).b \/ i \in Low(y).a \/ i \in Low(y).b
  BY <1>2 DEF BitOr, from_chunks
<1> QED
  BY <1>1, <1>3, LowHigh

\* A bit of an operand that is unknown, and of the operand alone.
LEMMA XorPossible ==
  ASSUME NEW x, NEW y, NEW i \in BitXor(x, y).b
  PROVE  /\ \E p \in Completions(x), q \in Completions(y) : i \in BitXor(p, q).a
         /\ \E p \in Completions(x), q \in Completions(y) : i \notin BitXor(p, q).a
<1>1. i \in Bits(Wider(x, y)) /\ (i \in x.b \/ i \in y.b)
  BY DEF BitXor, from_chunks
<1>2. ASSUME NEW S, S \subseteq x.b, NEW T, T \subseteq y.b
      PROVE  /\ Fill(x, S) \in Completions(x) /\ Fill(y, T) \in Completions(y)
             /\ i \in BitXor(Fill(x, S), Fill(y, T)).a <=>
                  ~(((i \in x.a /\ i \notin x.b) \/ i \in S) <=> ((i \in y.a /\ i \notin y.b) \/ i \in T))
  <2>1. Wider(Fill(x, S), Fill(y, T)) = Wider(x, y)
    BY <1>2, FillIs DEF Wider
  <2>2. i \in BitXor(Fill(x, S), Fill(y, T)).a <=> ~(i \in Fill(x, S).a <=> i \in Fill(y, T).a)
    <3>1. Fill(x, S).b = {} /\ Fill(y, T).b = {}
      BY <1>2, FillIs
    <3> QED
      BY <1>1, <2>1, <3>1 DEF BitXor, from_chunks, Xor
  <2>3. /\ i \in Fill(x, S).a <=> (i \in x.a /\ i \notin x.b) \/ i \in S
        /\ i \in Fill(y, T).a <=> (i \in y.a /\ i \notin y.b) \/ i \in T
    BY <1>2, FillIs
  <2>4. Fill(x, S) \in Completions(x) /\ Fill(y, T) \in Completions(y)
    BY <1>2, FillIs
  <2> QED
    BY <2>2, <2>3, <2>4
<1>3. CASE i \in x.b
  <2>1. {} \subseteq x.b /\ {i} \subseteq x.b /\ {} \subseteq y.b
    BY <1>3
  <2>2. /\ i \in BitXor(Fill(x, {}), Fill(y, {})).a <=> i \in y.a /\ i \notin y.b
        /\ i \in BitXor(Fill(x, {i}), Fill(y, {})).a <=> ~(i \in y.a /\ i \notin y.b)
    BY <1>2, <1>3, <2>1
  <2>3. /\ Fill(x, {}) \in Completions(x) /\ Fill(x, {i}) \in Completions(x)
        /\ Fill(y, {}) \in Completions(y)
    BY <1>2, <2>1
  <2> QED
    BY <2>2, <2>3
<1>4. CASE i \in y.b
  <2>1. {} \subseteq x.b /\ {i} \subseteq y.b /\ {} \subseteq y.b
    BY <1>4
  <2>2. /\ i \in BitXor(Fill(x, {}), Fill(y, {})).a <=> i \in x.a /\ i \notin x.b
        /\ i \in BitXor(Fill(x, {}), Fill(y, {i})).a <=> ~(i \in x.a /\ i \notin x.b)
    BY <1>2, <1>4, <2>1
  <2>3. /\ Fill(y, {}) \in Completions(y) /\ Fill(y, {i}) \in Completions(y)
        /\ Fill(x, {}) \in Completions(x)
    BY <1>2, <2>1
  <2> QED
    BY <2>2, <2>3
<1> QED
  BY <1>1, <1>3, <1>4

LEMMA NotPossible ==
  ASSUME NEW m \in Nat, NEW x \in Vec(m), NEW i \in Not(x).b
  PROVE  i \in Not(Low(x)).a /\ i \notin Not(High(x)).a
<1>1. x.width = m /\ x.b \subseteq Bits(m) /\ x = [width |-> m, a |-> x.a, b |-> x.b]
  BY VecFields DEF Bits
<1>2. i \in x.b /\ i \in Bits(m)
  BY <1>1 DEF Not
<1>3. /\ Not(Low(x)).a = (Bits(Low(x).width) \ Low(x).a) \cup Low(x).b
      /\ Not(High(x)).a = (Bits(High(x).width) \ High(x).a) \cup High(x).b
  BY DEF Not, Low, High, Fill
<1> QED
  BY <1>1, <1>2, <1>3, LowHigh

\* == is open when no bit is known to differ and one is unknown: the operands can
\* be made equal, and they can be made to differ there.
LEMMA EqPossible ==
  ASSUME NEW x, NEW y, eq(x, y) = X
  PROVE  /\ \E p \in Completions(x), q \in Completions(y) : eq(p, q) = ONE
         /\ \E p \in Completions(x), q \in Completions(y) : eq(p, q) = ZERO
<1>1. /\ \A i : i \notin x.b /\ i \notin y.b => (i \in x.a <=> i \in y.a)
      /\ \E i : i \in x.b \/ i \in y.b
  BY ConstantsDiffer DEF eq, Xor
<1>2. ASSUME NEW p, NEW q, p.b = {}, q.b = {}
      PROVE  /\ (\A i : i \in p.a <=> i \in q.a) => eq(p, q) = ONE
             /\ (\E i : ~(i \in p.a <=> i \in q.a)) => eq(p, q) = ZERO
  <2>1. (\A i : i \in p.a <=> i \in q.a) => Xor(p.a, q.a) \ (p.b \cup q.b) = {}
    BY DEF Xor
  <2>2. (\E i : ~(i \in p.a <=> i \in q.a)) => Xor(p.a, q.a) \ (p.b \cup q.b) # {}
    BY <1>2 DEF Xor
  <2>3. p.b \cup q.b = {}
    BY <1>2
  <2> QED
    BY <2>1, <2>2, <2>3 DEF eq
<1>3. \E p \in Completions(x), q \in Completions(y) : eq(p, q) = ONE
  <2> DEFINE S == x.b \cap Ones(y)
             T == y.b \cap Ones(x)
  <2>1. S \subseteq x.b /\ T \subseteq y.b
    OBVIOUS
  <2>2. /\ \A i : i \in S <=> i \in x.b /\ i \in y.a /\ i \notin y.b
        /\ \A i : i \in T <=> i \in y.b /\ i \in x.a /\ i \notin x.b
    BY DEF Ones
  <2> HIDE DEF S, T
  <2>3. /\ \A i : i \in Fill(x, S).a <=> (i \in x.a /\ i \notin x.b) \/ i \in S
        /\ \A i : i \in Fill(y, T).a <=> (i \in y.a /\ i \notin y.b) \/ i \in T
        /\ Fill(x, S).b = {} /\ Fill(y, T).b = {}
        /\ Fill(x, S) \in Completions(x) /\ Fill(y, T) \in Completions(y)
    BY <2>1, FillIs
  <2>4. \A i : i \in Fill(x, S).a <=> i \in Fill(y, T).a
    BY <1>1, <2>2, <2>3
  <2>5. eq(Fill(x, S), Fill(y, T)) = ONE
    BY <1>2, <2>3, <2>4
  <2> QED
    BY <2>3, <2>5
<1>4. \E p \in Completions(x), q \in Completions(y) : eq(p, q) = ZERO
  <2>1. PICK i : i \in x.b \/ i \in y.b
    BY <1>1
  <2>2. ASSUME NEW S, S \subseteq x.b, NEW T, T \subseteq y.b,
               ~(i \in Fill(x, S).a <=> i \in Fill(y, T).a)
        PROVE  \E p \in Completions(x), q \in Completions(y) : eq(p, q) = ZERO
    <3>1. /\ Fill(x, S).b = {} /\ Fill(y, T).b = {}
          /\ Fill(x, S) \in Completions(x) /\ Fill(y, T) \in Completions(y)
      BY <2>2, FillIs
    <3>2. eq(Fill(x, S), Fill(y, T)) = ZERO
      BY <1>2, <2>2, <3>1
    <3> QED
      BY <3>1, <3>2
  <2>3. /\ i \in Fill(x, {}).a <=> i \in x.a /\ i \notin x.b
        /\ i \in Fill(y, {}).a <=> i \in y.a /\ i \notin y.b
        /\ i \in x.b => i \in Fill(x, {i}).a
        /\ i \in y.b => i \in Fill(y, {i}).a
    <3>1. {} \subseteq x.b /\ {} \subseteq y.b
          /\ (i \in x.b => {i} \subseteq x.b) /\ (i \in y.b => {i} \subseteq y.b)
      OBVIOUS
    <3> QED
      BY <3>1, FillIs
  <2>4. CASE i \in x.b
    <3>1. {} \subseteq x.b /\ {i} \subseteq x.b /\ {} \subseteq y.b
      BY <2>4
    <3> QED
      BY <2>2, <2>3, <2>4, <3>1
  <2>5. CASE i \in y.b
    <3>1. {} \subseteq x.b /\ {i} \subseteq y.b /\ {} \subseteq y.b
      BY <2>5
    <3> QED
      BY <2>2, <2>3, <2>5, <3>1
  <2> QED
    BY <2>1, <2>4, <2>5
<1> QED
  BY <1>3, <1>4

\* The operators that look at operands as a whole.
LEMMA LogicalPossible ==
  ASSUME NEW x, NEW y
  PROVE  /\ log_and(x, y) = X => log_and(High(x), High(y)) = ONE /\ log_and(Low(x), Low(y)) = ZERO
         /\ log_or(x, y) = X => log_or(High(x), High(y)) = ONE /\ log_or(Low(x), Low(y)) = ZERO
         /\ log_not(x) = X => log_not(Low(x)) = ONE /\ log_not(High(x)) = ZERO
<1>1. \A z : ~is_known(z) => ~is_zero(z)
  BY DEF is_known, is_zero
<1>2. /\ is_known(Low(x)) /\ is_known(High(x)) /\ is_known(Low(y)) /\ is_known(High(y))
      /\ is_zero(Low(x)) <=> ~is_true(x)
      /\ is_true(Low(x)) <=> is_true(x)
      /\ is_zero(High(x)) <=> is_zero(x)
      /\ is_true(High(x)) <=> ~is_zero(x)
      /\ is_zero(Low(y)) <=> ~is_true(y)
      /\ is_true(Low(y)) <=> is_true(y)
      /\ is_zero(High(y)) <=> is_zero(y)
      /\ is_true(High(y)) <=> ~is_zero(y)
  BY LowHigh
<1>3. log_and(x, y) = X => log_and(High(x), High(y)) = ONE /\ log_and(Low(x), Low(y)) = ZERO
  BY <1>2, ConstantsDiffer DEF log_and
<1>4. log_or(x, y) = X => log_or(High(x), High(y)) = ONE /\ log_or(Low(x), Low(y)) = ZERO
  BY <1>1, <1>2, ConstantsDiffer DEF log_or
<1>5. log_not(x) = X => log_not(Low(x)) = ONE /\ log_not(High(x)) = ZERO
  BY <1>2, ConstantsDiffer DEF log_not
<1> QED
  BY <1>3, <1>4, <1>5

LEMMA ReductionPossible ==
  ASSUME NEW m \in Nat, NEW x \in Vec(m)
  PROVE  /\ reduce_and(x) = X => reduce_and(High(x)) = ONE /\ reduce_and(Low(x)) = ZERO
         /\ reduce_or(x) = X => reduce_or(High(x)) = ONE /\ reduce_or(Low(x)) = ZERO
<1>1. x.width = m /\ x.b \subseteq Bits(m)
  BY VecFields DEF Bits
<1>2. /\ Low(x).width = x.width /\ High(x).width = x.width
      /\ Low(x).b = {} /\ High(x).b = {}
      /\ \A i : i \in Low(x).a <=> i \in x.a /\ i \notin x.b
      /\ \A i : i \in High(x).a <=> i \in x.a \/ i \in x.b
      /\ \A i : i \in Ones(Low(x)) <=> i \in x.a /\ i \notin x.b
      /\ \A i : i \in Ones(High(x)) <=> i \in x.a \/ i \in x.b
  BY LowHigh
<1>3. ASSUME reduce_and(x) = X
      PROVE  reduce_and(High(x)) = ONE /\ reduce_and(Low(x)) = ZERO
  <2>1. Zeros(x, m) = {} /\ x.b # {}
    BY <1>1, <1>3, ConstantsDiffer DEF reduce_and
  <2>2. Zeros(High(x), m) = {}
    BY <1>2, <2>1 DEF Zeros
  <2>3. Zeros(Low(x), m) # {}
    BY <1>1, <1>2, <2>1 DEF Zeros
  <2> QED
    BY <1>1, <1>2, <2>2, <2>3 DEF reduce_and
<1>4. ASSUME reduce_or(x) = X
      PROVE  reduce_or(High(x)) = ONE /\ reduce_or(Low(x)) = ZERO
  <2>1. Ones(x) = {} /\ x.b # {}
    BY <1>4, ConstantsDiffer DEF reduce_or
  <2>2. Ones(High(x)) # {}
    BY <1>2, <2>1
  <2>3. Ones(Low(x)) = {}
    BY <1>2, <2>1 DEF Ones
  <2> QED
    BY <1>2, <2>2, <2>3 DEF reduce_or
<1> QED
  BY <1>3, <1>4

\* A one-bit result is unknown in no bit but 0, and only when it is X.
LEMMA UnknownBit ==
  ASSUME NEW r \in Bit, NEW i \in r.b
  PROVE  r = X /\ i \in ONE.a /\ i \notin ZERO.a
BY ConstantsVec DEF Bit

\* Operator by operator.
LEMMA ResultsPossible ==
  ASSUME NEW m \in Nat, NEW n \in Nat, NEW x \in Vec(m), NEW y \in Vec(n),
         NEW o \in DOMAIN Bitwise_results(x, y), NEW i \in Bitwise_results(x, y)[o].b
  PROVE  /\ \E p \in Completions(x), q \in Completions(y) : i \in Bitwise_results(p, q)[o].a
         /\ \E p \in Completions(x), q \in Completions(y) : i \notin Bitwise_results(p, q)[o].a
<1>1. /\ Low(x) \in Completions(x) /\ High(x) \in Completions(x)
      /\ Low(y) \in Completions(y) /\ High(y) \in Completions(y)
  BY LowHigh
<1>2. ASSUME NEW p1 \in Completions(x), NEW q1 \in Completions(y),
             NEW p2 \in Completions(x), NEW q2 \in Completions(y),
             i \in Bitwise_results(p1, q1)[o].a, i \notin Bitwise_results(p2, q2)[o].a
      PROVE  /\ \E p \in Completions(x), q \in Completions(y) : i \in Bitwise_results(p, q)[o].a
             /\ \E p \in Completions(x), q \in Completions(y) : i \notin Bitwise_results(p, q)[o].a
  BY <1>2
<1>3. o \in {"and", "or", "xor", "not", "eq", "ne", "log_and", "log_or", "log_not",
             "reduce_and", "reduce_or"}
  BY DEF Bitwise_results
<1>4. CASE o = "and"
  <2>1. \A p, q : Bitwise_results(p, q)[o] = BitAnd(p, q)
    BY <1>4 DEF Bitwise_results
  <2> QED
    BY <1>1, <1>2, <2>1, AndPossible
<1>5. CASE o = "or"
  <2>1. \A p, q : Bitwise_results(p, q)[o] = BitOr(p, q)
    BY <1>5 DEF Bitwise_results
  <2> QED
    BY <1>1, <1>2, <2>1, OrPossible
<1>6. CASE o = "xor"
  <2>1. \A p, q : Bitwise_results(p, q)[o] = BitXor(p, q)
    BY <1>6 DEF Bitwise_results
  <2> QED
    BY <2>1, XorPossible
<1>7. CASE o = "not"
  <2>1. \A p, q : Bitwise_results(p, q)[o] = Not(p)
    BY <1>7 DEF Bitwise_results
  <2> QED
    BY <1>1, <1>2, <2>1, NotPossible
<1>8. CASE o = "eq"
  <2>1. \A p, q : Bitwise_results(p, q)[o] = eq(p, q)
    BY <1>8 DEF Bitwise_results
  <2>2. eq(x, y) = X /\ i \in ONE.a /\ i \notin ZERO.a
    BY <2>1, OneBit, UnknownBit
  <2> QED
    BY <2>1, <2>2, EqPossible
<1>9. CASE o = "ne"
  <2>1. \A p, q : Bitwise_results(p, q)[o] = ne(p, q)
    BY <1>9 DEF Bitwise_results
  <2>2. ne(x, y) = X /\ i \in ONE.a /\ i \notin ZERO.a
    BY <2>1, OneBit, UnknownBit
  <2>3. eq(x, y) = X
    BY <2>2, ConstantsDiffer, OneBit DEF ne, Bit
  <2>4. \A p, q : (eq(p, q) = ONE => ne(p, q) = ZERO) /\ (eq(p, q) = ZERO => ne(p, q) = ONE)
    BY ConstantsDiffer DEF ne
  <2> QED
    BY <2>1, <2>2, <2>3, <2>4, EqPossible
<1>10. CASE o = "log_and"
  <2>1. \A p, q : Bitwise_results(p, q)[o] = log_and(p, q)
    BY <1>10 DEF Bitwise_results
  <2>2. log_and(x, y) = X /\ i \in ONE.a /\ i \notin ZERO.a
    BY <2>1, OneBit, UnknownBit
  <2> QED
    BY <1>1, <1>2, <2>1, <2>2, LogicalPossible
<1>11. CASE o = "log_or"
  <2>1. \A p, q : Bitwise_results(p, q)[o] = log_or(p, q)
    BY <1>11 DEF Bitwise_results
  <2>2. log_or(x, y) = X /\ i \in ONE.a /\ i \notin ZERO.a
    BY <2>1, OneBit, UnknownBit
  <2> QED
    BY <1>1, <1>2, <2>1, <2>2, LogicalPossible
<1>12. CASE o = "log_not"
  <2>1. \A p, q : Bitwise_results(p, q)[o] = log_not(p)
    BY <1>12 DEF Bitwise_results
  <2>2. log_not(x) = X /\ i \in ONE.a /\ i \notin ZERO.a
    BY <2>1, OneBit, UnknownBit
  <2> QED
    BY <1>1, <1>2, <2>1, <2>2, LogicalPossible
<1>13. CASE o = "reduce_and"
  <2>1. \A p, q : Bitwise_results(p, q)[o] = reduce_and(p)
    BY <1>13 DEF Bitwise_results
  <2>2. reduce_and(x) = X /\ i \in ONE.a /\ i \notin ZERO.a
    BY <2>1, OneBit, UnknownBit
  <2> QED
    BY <1>1, <1>2, <2>1, <2>2, ReductionPossible
<1>14. CASE o = "reduce_or"
  <2>1. \A p, q : Bitwise_results(p, q)[o] = reduce_or(p)
    BY <1>14 DEF Bitwise_results
  <2>2. reduce_or(x) = X /\ i \in ONE.a /\ i \notin ZERO.a
    BY <2>1, OneBit, UnknownBit
  <2> QED
    BY <1>1, <1>2, <2>1, <2>2, ReductionPossible
<1> QED
  BY <1>3, <1>4, <1>5, <1>6, <1>7, <1>8, <1>9, <1>10, <1>11, <1>12, <1>13, <1>14

\* NoNeedlessX for vectors of every width: an unknown bit of a result is unknown
\* because some completion of the operands makes it 1 and some other one makes it 0.
THEOREM UnknownsAreOpen == Spec => []NoNeedlessX
<1>1. OperandsTyped => NoNeedlessX
  <2> SUFFICES ASSUME OperandsTyped,
                      NEW o \in DOMAIN Bitwise_results(u, v), NEW i \in Bitwise_results(u, v)[o].b
               PROVE  LET all == {Bitwise_results(x, y) : x \in Completions(u), y \in Completions(v)}
                      IN  /\ \E r \in all : i \in r[o].a
                          /\ \E r \in all : i \notin r[o].a
    BY DEF NoNeedlessX
  <2>1. u \in Vec(u.width) /\ v \in Vec(v.width) /\ u.width \in Nat /\ v.width \in Nat
    BY VecsWidth DEF OperandsTyped
  <2>2. /\ \E p \in Completions(u), q \in Completions(v) : i \in Bitwise_results(p, q)[o].a
        /\ \E p \in Completions(u), q \in Completions(v) : i \notin Bitwise_results(p, q)[o].a
    BY <2>1, ResultsPossible
  <2> DEFINE all == {Bitwise_results(x, y) : x \in Completions(u), y \in Completions(v)}
  <2>3. \A p \in Completions(u), q \in Completions(v) : Bitwise_results(p, q) \in all
    OBVIOUS
  <2> HIDE DEF all
  <2>4. (\E r \in all : i \in r[o].a) /\ (\E r \in all : i \notin r[o].a)
    BY <2>2, <2>3
  <2> QED
    BY <2>4 DEF all
<1> QED
  BY <1>1, OperandsStayTyped, PTL

-----------------------------------------------------------------------------
(* Numbers *)

PowerIs(f) == f = [n \in Nat |-> IF n = 0 THEN 1 ELSE 2 * f[n - 1]]

\* 2^n is positive and doubles.
LEMMA PowerFacts ==
  /\ Power \in [Nat -> Nat]
  /\ Power[0] = 1
  /\ \A n \in Nat : Power[n] > 0 /\ Power[n + 1] = Power[n] + Power[n]
<1> DEFINE G == [p \in Nat \X Nat |-> 2 * p[2]]
<1>1. G \in [Nat \X Nat -> Nat] /\ 1 \in Nat
  OBVIOUS
<1>2. PICK f \in [Nat -> Nat] : Recurs(f, 1, G)
  <2> HIDE DEF G
  <2> QED
    BY <1>1, NatRecursion
<1>3. \A n \in Nat : f[n] = IF n = 0 THEN 1 ELSE 2 * f[n - 1]
  <2> SUFFICES ASSUME NEW n \in Nat
               PROVE  f[n] = IF n = 0 THEN 1 ELSE 2 * f[n - 1]
    OBVIOUS
  <2>1. f[n] = IF n = 0 THEN 1 ELSE G[<<n, f[n - 1]>>]
    BY <1>2 DEF Recurs
  <2>2. n # 0 => n - 1 \in Nat /\ f[n - 1] \in Nat
    OBVIOUS
  <2>3. n # 0 => G[<<n, f[n - 1]>>] = 2 * f[n - 1]
    BY <2>2
  <2> QED
    BY <2>1, <2>3
<1>4. f = [n \in Nat |-> f[n]]
  OBVIOUS
<1>5. PowerIs(f)
  BY <1>3, <1>4 DEF PowerIs
<1>6. Power = CHOOSE g : PowerIs(g)
  BY DEF Power, PowerIs
<1>7. PowerIs(Power)
  BY <1>5, <1>6
<1> DEFINE g == Power
           T == {n \in Nat : g[n] \in Nat /\ g[n] > 0}
<1>8. g = [n \in Nat |-> IF n = 0 THEN 1 ELSE 2 * g[n - 1]]
  BY <1>7 DEF PowerIs
<1> HIDE DEF g
<1>9. 0 \in T
  BY <1>8
<1>10. ASSUME NEW n \in T
       PROVE  n + 1 \in T
  <2>1. n + 1 \in Nat /\ n + 1 # 0 /\ n + 1 - 1 = n /\ g[n] \in Nat /\ g[n] > 0
    OBVIOUS
  <2>2. g[n + 1] = 2 * g[n]
    BY <1>8, <2>1
  <2> QED
    BY <2>1, <2>2
<1>11. T = Nat
  <2>1. T \in SUBSET Nat
    OBVIOUS
  <2> HIDE DEF T
  <2> QED
    BY <1>9, <1>10, <2>1, Induction
<1>12. \A n \in Nat : g[n] \in Nat /\ g[n] > 0
  BY <1>11
<1>13. \A n \in Nat : g[n + 1] = g[n] + g[n]
  <2> SUFFICES ASSUME NEW n \in Nat
               PROVE  g[n + 1] = g[n] + g[n]
    OBVIOUS
  <2>1. n + 1 \in Nat /\ n + 1 # 0 /\ n + 1 - 1 = n /\ g[n] \in Nat
    BY <1>12
  <2>2. g[n + 1] = 2 * g[n]
    BY <1>8, <2>1
  <2> QED
    BY <2>1, <2>2
<1>14. g[0] = 1 /\ g \in [Nat -> Nat]
  BY <1>8, <1>12
<1> QED
  BY <1>12, <1>13, <1>14 DEF g

\* What position n adds to a number with the bits S.
Weight(S, n) == IF n \in S THEN Power[n] ELSE 0

LowIs(S, f) == f = [n \in Nat |-> IF n = 0 THEN 0 ELSE f[n - 1] + Weight(S, n - 1)]

\* The number in the n lowest bits of S.
Num(S, n) == (CHOOSE f : LowIs(S, f))[n]

LEMMA NumberIs == \A x : Number(x) = Num(x.a, x.width)
BY DEF Number, Num, LowIs, Weight

LEMMA WeightNat ==
  ASSUME NEW S, NEW n \in Nat
  PROVE  Weight(S, n) \in Nat /\ Weight(S, n) <= Power[n]
BY PowerFacts DEF Weight

\* The number in the n lowest bits grows by the weight of bit n.
LEMMA NumFacts ==
  ASSUME NEW S
  PROVE  /\ Num(S, 0) = 0
         /\ \A n \in Nat : /\ Num(S, n) \in Nat
                           /\ Num(S, n + 1) = Num(S, n) + Weight(S, n)
<1> DEFINE G == [p \in Nat \X Nat |-> IF p[1] = 0 THEN 0 ELSE p[2] + Weight(S, p[1] - 1)]
<1>1. G \in [Nat \X Nat -> Nat] /\ 0 \in Nat
  <2>1. ASSUME NEW p \in Nat \X Nat
        PROVE  (IF p[1] = 0 THEN 0 ELSE p[2] + Weight(S, p[1] - 1)) \in Nat
    <3>1. p[1] \in Nat /\ p[2] \in Nat
      OBVIOUS
    <3>2. p[1] # 0 => p[1] - 1 \in Nat
      BY <3>1
    <3>3. p[1] # 0 => Weight(S, p[1] - 1) \in Nat
      BY <3>2, WeightNat
    <3> QED
      BY <3>1, <3>3
  <2> QED
    BY <2>1
<1>2. PICK f \in [Nat -> Nat] : Recurs(f, 0, G)
  <2> HIDE DEF G
  <2> QED
    BY <1>1, NatRecursion
<1>3. \A n \in Nat : f[n] = IF n = 0 THEN 0 ELSE f[n - 1] + Weight(S, n - 1)
  <2> SUFFICES ASSUME NEW n \in Nat
               PROVE  f[n] = IF n = 0 THEN 0 ELSE f[n - 1] + Weight(S, n - 1)
    OBVIOUS
  <2>1. f[n] = IF n = 0 THEN 0 ELSE G[<<n, f[n - 1]>>]
    BY <1>2 DEF Recurs
  <2>2. n # 0 => n - 1 \in Nat /\ f[n - 1] \in Nat
    OBVIOUS
  <2>3. n # 0 => G[<<n, f[n - 1]>>] = f[n - 1] + Weight(S, n - 1)
    BY <2>2
  <2> QED
    BY <2>1, <2>3
<1>4. f = [n \in Nat |-> f[n]]
  OBVIOUS
<1>5. LowIs(S, f)
  BY <1>3, <1>4 DEF LowIs
<1> DEFINE g == CHOOSE h : LowIs(S, h)
           T == {n \in Nat : g[n] \in Nat}
<1>6. LowIs(S, g)
  BY <1>5
<1>7. \A n : Num(S, n) = g[n]
  BY DEF Num
<1> HIDE DEF g
<1>8. \A n \in Nat : g[n] = IF n = 0 THEN 0 ELSE g[n - 1] + Weight(S, n - 1)
  BY <1>6 DEF LowIs
<1>9. \A n \in Nat : g[n + 1] = g[n] + Weight(S, n)
  <2> SUFFICES ASSUME NEW n \in Nat
               PROVE  g[n + 1] = g[n] + Weight(S, n)
    OBVIOUS
  <2>1. n + 1 \in Nat /\ n + 1 # 0 /\ n + 1 - 1 = n
    OBVIOUS
  <2> QED
    BY <1>8, <2>1
<1>10. 0 \in T
  BY <1>8
<1>11. ASSUME NEW n \in T
       PROVE  n + 1 \in T
  <2>1. Weight(S, n) \in Nat
    BY WeightNat
  <2> QED
    BY <1>9, <2>1
<1>12. T = Nat
  <2>1. T \in SUBSET Nat
    OBVIOUS
  <2> HIDE DEF T
  <2> QED
    BY <1>10, <1>11, <2>1, Induction
<1>13. \A n \in Nat : g[n] \in Nat
  BY <1>12
<1> QED
  BY <1>7, <1>8, <1>9, <1>13

\* Only the n lowest bits count.
LEMMA NumSame ==
  ASSUME NEW S, NEW T, NEW n \in Nat, \A i \in 0 .. n - 1 : i \in S <=> i \in T
  PROVE  Num(S, n) = Num(T, n)
<1> DEFINE E == {k \in 0 .. n : Num(S, k) = Num(T, k)}
<1>1. 0 \in E
  <2>1. 0 \in 0 .. n
    OBVIOUS
  <2> QED
    BY <2>1, NumFacts
<1>2. ASSUME NEW k \in 1 .. n, k - 1 \in E
      PROVE  k \in E
  <2> DEFINE j == k - 1
  <2>1. j \in Nat /\ j \in 0 .. n - 1 /\ k = j + 1 /\ k \in 0 .. n
    OBVIOUS
  <2>2. Num(S, j) = Num(T, j)
    BY <1>2
  <2> HIDE DEF j
  <2>3. Num(S, j + 1) = Num(S, j) + Weight(S, j) /\ Num(T, j + 1) = Num(T, j) + Weight(T, j)
    BY <2>1, NumFacts
  <2>4. Weight(S, j) = Weight(T, j)
    BY <2>1 DEF Weight
  <2>5. Num(S, k) = Num(T, k)
    BY <2>1, <2>2, <2>3, <2>4
  <2> QED
    BY <2>1, <2>5
<1>3. 0 .. n \subseteq E
  <2> HIDE DEF E
  <2> QED
    BY <1>1, <1>2, ListInduction
<1>4. n \in 0 .. n
  OBVIOUS
<1> QED
  BY <1>3, <1>4

\* n bits stand for a number below 2^n.
LEMMA NumBelow ==
  ASSUME NEW S
  PROVE  \A n \in Nat : Num(S, n) < Power[n]
<1> DEFINE E == {n \in Nat : Num(S, n) < Power[n]}
<1>1. 0 \in E
  BY NumFacts, PowerFacts
<1>2. ASSUME NEW n \in E
      PROVE  n + 1 \in E
  <2>1. /\ Num(S, n) \in Nat /\ Num(S, n + 1) = Num(S, n) + Weight(S, n)
        /\ Weight(S, n) \in Nat /\ Weight(S, n) <= Power[n]
        /\ Power[n + 1] = Power[n] + Power[n] /\ Power[n] \in Nat
    BY NumFacts, WeightNat, PowerFacts
  <2> QED
    BY <2>1
<1>3. E = Nat
  <2>1. E \in SUBSET Nat
    OBVIOUS
  <2> HIDE DEF E
  <2> QED
    BY <1>1, <1>2, <2>1, Induction
<1> QED
  BY <1>3

\* What moving down and up does to a position.
LEMMA DownBit ==
  ASSUME NEW S \in SUBSET Nat, NEW j \in Nat, NEW k \in Nat
  PROVE  k \in Down(S, j) <=> j + k \in S
<1>1. ASSUME j + k \in S
      PROVE  k \in Down(S, j)
  <2>1. k = (j + k) - j
    OBVIOUS
  <2> QED
    BY <1>1, <2>1 DEF Down
<1>2. ASSUME k \in Down(S, j)
      PROVE  j + k \in S
  <2>1. PICK i \in S : k = i - j
    BY <1>2 DEF Down
  <2>2. j + k = i
    BY <2>1
  <2> QED
    BY <2>1, <2>2
<1> QED
  BY <1>1, <1>2

LEMMA UpBit ==
  ASSUME NEW S \in SUBSET Nat, NEW j \in Nat, NEW k \in Nat
  PROVE  j + k \in Up(S, j) <=> k \in S
<1>1. ASSUME k \in S
      PROVE  j + k \in Up(S, j)
  <2>1. j + k = k + j
    OBVIOUS
  <2> QED
    BY <1>1, <2>1 DEF Up
<1>2. ASSUME j + k \in Up(S, j)
      PROVE  k \in S
  <2>1. PICK i \in S : j + k = i + j
    BY <1>2 DEF Up
  <2>2. k = i
    BY <2>1
  <2> QED
    BY <2>1, <2>2
<1> QED
  BY <1>1, <1>2

LEMMA UpLow ==
  ASSUME NEW S \in SUBSET Nat, NEW j \in Nat
  PROVE  Up(S, j) \in SUBSET Nat /\ \A i \in 0 .. j - 1 : i \notin Up(S, j)
BY DEF Up

LEMMA Distribute ==
  ASSUME NEW p \in Int, NEW a \in Int, NEW b \in Int
  PROVE  p * (a + b) = p * a + p * b /\ p * a \in Int /\ p * b \in Int
OBVIOUS

\* The bits from j on make a number of their own.
LEMMA NumSplit ==
  ASSUME NEW S \in SUBSET Nat, NEW j \in Nat
  PROVE  \A k \in Nat : /\ Power[j + k] = Power[j] * Power[k]
                        /\ Num(S, j + k) = Num(S, j) + Power[j] * Num(Down(S, j), k)
<1> DEFINE D == Down(S, j)
           E == {k \in Nat : /\ Power[j + k] = Power[j] * Power[k]
                             /\ Num(S, j + k) = Num(S, j) + Power[j] * Num(D, k)}
<1>1. \A k \in Nat : k \in D <=> j + k \in S
  BY DownBit
<1> HIDE DEF D
<1>2. Power[j] \in Nat /\ Num(S, j) \in Nat
  BY PowerFacts, NumFacts
<1>3. 0 \in E
  <2>1. j + 0 = j /\ Power[0] = 1 /\ Num(D, 0) = 0
    BY PowerFacts, NumFacts
  <2> DEFINE p == Power[j]
  <2>2. p \in Nat
    BY <1>2
  <2> HIDE DEF p, E
  <2>3. p * 1 = p /\ p * 0 = 0
    BY <2>2
  <2>4. Power[j + 0] = p * Power[0] /\ Num(S, j + 0) = Num(S, j) + p * Num(D, 0)
    BY <1>2, <2>1, <2>3 DEF p
  <2> QED
    BY <2>4 DEF p, E
<1>4. ASSUME NEW k \in E
      PROVE  k + 1 \in E
  <2> DEFINE p == Power[j]
             q == Power[k]
             n == Num(D, k)
             w == Weight(D, k)
             t == j + k
  <2>1. k \in Nat /\ Power[t] = p * q /\ Num(S, t) = Num(S, j) + p * n
    OBVIOUS
  <2>2. p \in Nat /\ q \in Nat /\ n \in Nat /\ w \in Nat /\ t \in Nat /\ t + 1 = j + (k + 1)
    <3>1. k \in Nat
      BY <2>1
    <3>2. q \in Nat
      BY <3>1, PowerFacts
    <3>3. n \in Nat
      BY <3>1, NumFacts
    <3>4. w \in Nat
      BY <3>1, WeightNat
    <3> QED
      BY <1>2, <3>1, <3>2, <3>3, <3>4
  <2>3. Power[k + 1] = q + q /\ Num(D, k + 1) = n + w
    BY <2>1, PowerFacts, NumFacts
  <2>4. Weight(S, t) = p * w
    <3>1. t \in S <=> k \in D
      BY <1>1, <2>1
    <3>2. CASE k \in D
      BY <2>1, <3>1, <3>2 DEF Weight
    <3>3. CASE k \notin D
      <4>1. Weight(S, t) = 0 /\ w = 0
        BY <3>1, <3>3 DEF Weight
      <4> HIDE DEF p, w
      <4> QED
        BY <2>2, <4>1
    <3> QED
      BY <3>2, <3>3
  <2>5. Power[t + 1] = Power[t] + Power[t] /\ Num(S, t + 1) = Num(S, t) + Weight(S, t)
    <3> HIDE DEF t
    <3> QED
      BY <2>2, PowerFacts, NumFacts
  <2> HIDE DEF p, q, n, w, t, E
  <2>6. p * (q + q) = p * q + p * q /\ p * (n + w) = p * n + p * w
        /\ p * q \in Int /\ p * n \in Int /\ p * w \in Int
    BY <2>2, Distribute
  <2>7. Power[t + 1] = p * Power[k + 1] /\ Num(S, t + 1) = Num(S, j) + p * Num(D, k + 1)
    BY <1>2, <2>1, <2>3, <2>4, <2>5, <2>6
  <2>8. Power[j + (k + 1)] = Power[j] * Power[k + 1]
        /\ Num(S, j + (k + 1)) = Num(S, j) + Power[j] * Num(D, k + 1)
    BY <2>2, <2>7 DEF p
  <2> QED
    BY <2>1, <2>8 DEF E
<1>5. E = Nat
  <2>1. E \in SUBSET Nat
    OBVIOUS
  <2> HIDE DEF E
  <2> QED
    BY <1>3, <1>4, <2>1, Induction
<1> QED
  BY <1>5 DEF D

\* Bits that are not there add nothing.
LEMMA NumEmpty ==
  ASSUME NEW S, NEW n \in Nat, \A i \in 0 .. n - 1 : i \notin S
  PROVE  Num(S, n) = 0
<1> DEFINE E == {k \in 0 .. n : Num(S, k) = 0}
<1>1. 0 \in E
  <2>1. 0 \in 0 .. n
    OBVIOUS
  <2> QED
    BY <2>1, NumFacts
<1>2. ASSUME NEW k \in 1 .. n, k - 1 \in E
      PROVE  k \in E
  <2> DEFINE j == k - 1
  <2>1. j \in Nat /\ j \in 0 .. n - 1 /\ k = j + 1 /\ k \in 0 .. n
    OBVIOUS
  <2>2. Num(S, j) = 0
    BY <1>2
  <2> HIDE DEF j
  <2>3. Num(S, j + 1) = Num(S, j) + Weight(S, j) /\ Weight(S, j) = 0
    BY <2>1, NumFacts DEF Weight
  <2>4. Num(S, k) = 0
    BY <2>1, <2>2, <2>3
  <2> QED
    BY <2>1, <2>4
<1>3. 0 .. n \subseteq E
  <2> HIDE DEF E
  <2> QED
    BY <1>1, <1>2, ListInduction
<1>4. n \in 0 .. n
  OBVIOUS
<1> QED
  BY <1>3, <1>4

\* n bits that are all there stand for 2^n - 1, and the bits of S and the others
\* stand for that together.
LEMMA NumOthers ==
  ASSUME NEW S, NEW T, NEW n \in Nat, \A i \in 0 .. n - 1 : i \in T <=> i \notin S
  PROVE  Num(S, n) + Num(T, n) = Power[n] - 1
<1> DEFINE E == {k \in 0 .. n : Num(S, k) + Num(T, k) = Power[k] - 1}
<1>1. 0 \in E
  <2>1. 0 \in 0 .. n
    OBVIOUS
  <2> QED
    BY <2>1, NumFacts, PowerFacts
<1>2. ASSUME NEW k \in 1 .. n, k - 1 \in E
      PROVE  k \in E
  <2> DEFINE j == k - 1
  <2>1. j \in Nat /\ j \in 0 .. n - 1 /\ k = j + 1 /\ k \in 0 .. n
    OBVIOUS
  <2>2. Num(S, j) + Num(T, j) = Power[j] - 1
    BY <1>2
  <2> HIDE DEF j
  <2>3. Num(S, j + 1) = Num(S, j) + Weight(S, j) /\ Num(T, j + 1) = Num(T, j) + Weight(T, j)
        /\ Num(S, j) \in Nat /\ Num(T, j) \in Nat
        /\ Power[j] \in Nat /\ Power[j + 1] = Power[j] + Power[j]
    BY <2>1, NumFacts, PowerFacts
  <2>4. Weight(S, j) + Weight(T, j) = Power[j] /\ Weight(S, j) \in Nat /\ Weight(T, j) \in Nat
    BY <2>1, <2>3 DEF Weight
  <2>5. Num(S, k) + Num(T, k) = Power[k] - 1
    BY <2>1, <2>2, <2>3, <2>4
  <2> QED
    BY <2>1, <2>5
<1>3. 0 .. n \subseteq E
  <2> HIDE DEF E
  <2> QED
    BY <1>1, <1>2, ListInduction
<1>4. n \in 0 .. n
  OBVIOUS
<1> QED
  BY <1>3, <1>4

\* The bits of both and the bits of either.
LEMMA NumMeetJoin ==
  ASSUME NEW S, NEW T
  PROVE  \A n \in Nat : Num(S \cap T, n) + Num(S \cup T, n) = Num(S, n) + Num(T, n)
<1> DEFINE A == S \cap T
           B == S \cup T
           E == {n \in Nat : Num(A, n) + Num(B, n) = Num(S, n) + Num(T, n)}
<1>1. \A n : (n \in A <=> n \in S /\ n \in T) /\ (n \in B <=> n \in S \/ n \in T)
  OBVIOUS
<1> HIDE DEF A, B
<1>2. 0 \in E
  BY NumFacts
<1>3. ASSUME NEW n \in E
      PROVE  n + 1 \in E
  <2>1. /\ Num(S, n + 1) = Num(S, n) + Weight(S, n) /\ Num(T, n + 1) = Num(T, n) + Weight(T, n)
        /\ Num(A, n + 1) = Num(A, n) + Weight(A, n) /\ Num(B, n + 1) = Num(B, n) + Weight(B, n)
        /\ Num(S, n) \in Nat /\ Num(T, n) \in Nat /\ Num(A, n) \in Nat /\ Num(B, n) \in Nat
        /\ Power[n] \in Nat
    BY NumFacts, PowerFacts
  <2>2. /\ Weight(A, n) + Weight(B, n) = Weight(S, n) + Weight(T, n)
        /\ Weight(A, n) \in Nat /\ Weight(B, n) \in Nat /\ Weight(S, n) \in Nat /\ Weight(T, n) \in Nat
    BY <1>1, <2>1 DEF Weight
  <2> QED
    BY <2>1, <2>2
<1>4. E = Nat
  <2>1. E \in SUBSET Nat
    OBVIOUS
  <2> HIDE DEF E
  <2> QED
    BY <1>2, <1>3, <2>1, Induction
<1> QED
  BY <1>4 DEF A, B

\* Where S and T agree from position k on, they differ as their k lowest bits do.
LEMMA NumAbove ==
  ASSUME NEW S, NEW T, NEW n \in Nat, NEW k \in 0 .. n,
         \A i \in k .. n - 1 : i \in S <=> i \in T
  PROVE  Num(S, n) - Num(T, n) = Num(S, k) - Num(T, k)
<1> DEFINE E == {l \in 0 .. n : l >= k => Num(S, l) - Num(T, l) = Num(S, k) - Num(T, k)}
<1>1. 0 \in E
  <2>1. 0 \in 0 .. n /\ (0 >= k => 0 = k)
    OBVIOUS
  <2> QED
    BY <2>1
<1>2. ASSUME NEW l \in 1 .. n, l - 1 \in E
      PROVE  l \in E
  <2> DEFINE j == l - 1
  <2>1. j \in Nat /\ l = j + 1 /\ l \in 0 .. n /\ j \in 0 .. n
    OBVIOUS
  <2>2. CASE l >= k /\ l # k
    <3>1. j >= k /\ j \in k .. n - 1
      BY <2>2
    <3>2. Num(S, j) - Num(T, j) = Num(S, k) - Num(T, k)
      BY <1>2, <3>1
    <3> HIDE DEF j
    <3>3. Num(S, j + 1) = Num(S, j) + Weight(S, j) /\ Num(T, j + 1) = Num(T, j) + Weight(T, j)
          /\ Num(S, j) \in Nat /\ Num(T, j) \in Nat /\ Weight(S, j) \in Nat
      BY <2>1, NumFacts, WeightNat
    <3>4. Weight(S, j) = Weight(T, j)
      BY <3>1 DEF Weight
    <3>5. Num(S, l) - Num(T, l) = Num(S, k) - Num(T, k)
      BY <2>1, <3>2, <3>3, <3>4
    <3> QED
      BY <2>1, <3>5
  <2> QED
    BY <2>1, <2>2
<1>3. 0 .. n \subseteq E
  <2> HIDE DEF E
  <2> QED
    BY <1>1, <1>2, ListInduction
<1>4. n \in 0 .. n /\ n >= k
  OBVIOUS
<1> QED
  BY <1>3, <1>4

\* The highest position at which two sets of bits differ decides.
LEMMA NumOrder ==
  ASSUME NEW S, NEW T, NEW n \in Nat, NEW k \in 0 .. n - 1, k \in T, k \notin S,
         \A i \in k + 1 .. n - 1 : i \in S <=> i \in T
  PROVE  Num(S, n) < Num(T, n)
<1>1. k \in Nat /\ k + 1 \in 0 .. n
  OBVIOUS
<1>2. Num(S, n) - Num(T, n) = Num(S, k + 1) - Num(T, k + 1)
  BY <1>1, NumAbove
<1>3. Num(S, k + 1) = Num(S, k) + Weight(S, k) /\ Num(T, k + 1) = Num(T, k) + Weight(T, k)
  BY <1>1, NumFacts
<1>4. Num(S, k) \in Nat /\ Num(T, k) \in Nat /\ Num(S, n) \in Nat /\ Num(T, n) \in Nat
  BY <1>1, NumFacts
<1>5. Weight(S, k) = 0 /\ Weight(T, k) = Power[k] /\ Power[k] \in Nat /\ Num(S, k) < Power[k]
  BY <1>1, PowerFacts, NumBelow DEF Weight
<1> QED
  BY <1>2, <1>3, <1>4, <1>5

\* A set of bits comes before another: what cmp_unsigned finds.
Before(S, T) == \E i \in T \ S : \A j \in Xor(S, T) : j <= i

\* Two sets of bits are ordered, or the same.
LEMMA BeforeOrSame ==
  ASSUME NEW n \in Nat, NEW S \in SUBSET (0 .. n - 1), NEW T \in SUBSET (0 .. n - 1)
  PROVE  S = T \/ Before(S, T) \/ Before(T, S)
<1> DEFINE D == {n - i : i \in Xor(S, T)}
<1>1. SUFFICES ASSUME S # T
               PROVE  Before(S, T) \/ Before(T, S)
  OBVIOUS
<1>2. Xor(S, T) \in SUBSET (0 .. n - 1) /\ Xor(S, T) # {}
  BY <1>1 DEF Xor
<1>3. D # {} /\ D \in SUBSET Nat
  BY <1>2
<1>4. PICK d \in D : \A e \in D : d <= e
  <2> HIDE DEF D
  <2> QED
    BY <1>3, LeastNatural
<1>5. PICK k \in Xor(S, T) : d = n - k
  BY <1>4
<1>6. \A j \in Xor(S, T) : j <= k
  <2> SUFFICES ASSUME NEW j \in Xor(S, T)
               PROVE  j <= k
    OBVIOUS
  <2>1. d <= n - j
    BY <1>4
  <2>2. j \in Nat /\ k \in Nat
    BY <1>2
  <2> QED
    BY <1>5, <2>1, <2>2
<1>7. Xor(S, T) = Xor(T, S)
  BY DEF Xor
<1>8. k \in T \ S \/ k \in S \ T
  BY <1>5 DEF Xor
<1> QED
  BY <1>6, <1>7, <1>8 DEF Before

\* The order of cmp_unsigned is the order of the numbers.
LEMMA BeforeIsLess ==
  ASSUME NEW n \in Nat, NEW S \in SUBSET (0 .. n - 1), NEW T \in SUBSET (0 .. n - 1)
  PROVE  /\ Before(S, T) <=> Num(S, n) < Num(T, n)
         /\ S = T <=> Num(S, n) = Num(T, n)
<1> DEFINE s == Num(S, n)
           t == Num(T, n)
<1>1. ASSUME NEW A \in SUBSET (0 .. n - 1), NEW B \in SUBSET (0 .. n - 1), Before(A, B)
      PROVE  Num(A, n) < Num(B, n)
  <2>1. PICK k \in B \ A : \A j \in Xor(A, B) : j <= k
    BY <1>1 DEF Before
  <2>2. k \in 0 .. n - 1
    OBVIOUS
  <2>3. \A i \in k + 1 .. n - 1 : i \in A <=> i \in B
    <3> SUFFICES ASSUME NEW i \in k + 1 .. n - 1
                 PROVE  i \in A <=> i \in B
      OBVIOUS
    <3>1. ~(i <= k)
      BY <2>2
    <3> QED
      BY <2>1, <3>1 DEF Xor
  <2> QED
    BY <2>1, <2>2, <2>3, NumOrder
<1>2. s \in Nat /\ t \in Nat
  BY NumFacts
<1>3. (Before(S, T) => s < t) /\ (Before(T, S) => t < s)
  BY <1>1
<1>4. S = T \/ Before(S, T) \/ Before(T, S)
  BY BeforeOrSame
<1>5. S = T => s = t
  OBVIOUS
<1> HIDE DEF s, t
<1>6. (Before(S, T) <=> s < t) /\ (S = T <=> s = t)
  BY <1>2, <1>3, <1>4, <1>5
<1> QED
  BY <1>6 DEF s, t

\* Quotient and remainder of a number that is given in two parts.
LEMMA DivMod ==
  ASSUME NEW p \in Nat, p > 0, NEW r \in 0 .. p - 1, NEW q \in Int
  PROVE  (r + p * q) \div p = q /\ (r + p * q) % p = r
<1>1. p * q \in Int /\ (r + p * q) \in Int
  OBVIOUS
<1> QED
  BY <1>1

LEMMA TwoParts ==
  ASSUME NEW p \in Nat, p > 0, NEW m \in Int, NEW r \in 0 .. p - 1, NEW q \in Int, m = r + p * q
  PROVE  m \div p = q /\ m % p = r
BY DivMod

\* Positions that hold no bit do not change the number.
LEMMA NumPad ==
  ASSUME NEW w \in Nat, NEW S \in SUBSET (0 .. w - 1), NEW n \in Nat, n >= w
  PROVE  Num(S, n) = Num(S, w)
<1>1. w \in 0 .. n /\ \A i \in w .. n - 1 : i \in S <=> i \in {}
  OBVIOUS
<1>2. Num(S, n) - Num({}, n) = Num(S, w) - Num({}, w)
  BY ONLY <1>1, NumAbove, w \in Nat, n \in Nat
<1>3. Num({}, n) = 0 /\ Num({}, w) = 0
  BY NumEmpty
<1>4. Num(S, n) \in Nat /\ Num(S, w) \in Nat
  BY NumFacts
<1> QED
  BY <1>2, <1>3, <1>4

\* The number of a result of from_chunks.
LEMMA FromNumber ==
  ASSUME NEW w \in Nat, NEW S, NEW T
  PROVE  Number(from_chunks(w, S, T)) = Num(S, w)
<1>1. from_chunks(w, S, T).width = w /\ from_chunks(w, S, T).a = S \cap Bits(w)
  BY FromChunksVec
<1>2. \A i \in 0 .. w - 1 : i \in S \cap Bits(w) <=> i \in S
  BY DEF Bits
<1> DEFINE R == S \cap Bits(w)
<1>3. Num(R, w) = Num(S, w)
  <2>1. \A i \in 0 .. w - 1 : i \in R <=> i \in S
    BY <1>2
  <2> HIDE DEF R
  <2> QED
    BY <2>1, NumSame
<1> QED
  BY <1>1, <1>3, NumberIs

\* A known vector, by its fields.
Fixed(w, x) == w \in Nat \ {0} /\ x \in Vec(w) /\ x.b = {}

LEMMA FixedFacts ==
  ASSUME NEW w, NEW x, Fixed(w, x)
  PROVE  /\ w \in Nat /\ w > 0 /\ x.width = w /\ x.b = {}
         /\ x.a \in SUBSET (0 .. w - 1) /\ x.a \in SUBSET Nat
         /\ Number(x) = Num(x.a, w) /\ Number(x) \in Nat /\ Number(x) < Power[w]
         /\ Power[w] \in Nat
         /\ sign_bit(x) <=> (w - 1) \in x.a
         /\ Signed(x) = Number(x) - (IF sign_bit(x) THEN Power[w] ELSE 0)
<1>1. w \in Nat /\ w > 0 /\ x.width = w /\ x.b = {} /\ x.a \in SUBSET (0 .. w - 1)
  BY VecFields DEF Fixed
<1>2. Number(x) = Num(x.a, w)
  BY <1>1, NumberIs
<1>3. Num(x.a, w) \in Nat /\ Num(x.a, w) < Power[w] /\ Power[w] \in Nat
  BY <1>1, NumFacts, NumBelow, PowerFacts
<1>4. x.a \in SUBSET Nat
  BY <1>1
<1> QED
  BY <1>1, <1>2, <1>3, <1>4 DEF sign_bit, Signed

LEMMA WiderFacts ==
  ASSUME NEW w, NEW x, Fixed(w, x), NEW z, NEW y, Fixed(z, y)
  PROVE  /\ Wider(x, y) \in Nat /\ Wider(x, y) >= w /\ Wider(x, y) >= z
         /\ Wider(x, y) > 0
         /\ x.a \in SUBSET (0 .. Wider(x, y) - 1) /\ y.a \in SUBSET (0 .. Wider(x, y) - 1)
         /\ Num(x.a, Wider(x, y)) = Number(x) /\ Num(y.a, Wider(x, y)) = Number(y)
<1> DEFINE n == Wider(x, y)
           S == x.a
           T == y.a
<1>1. w \in Nat /\ z \in Nat /\ w > 0 /\ x.width = w /\ y.width = z
      /\ S \in SUBSET (0 .. w - 1) /\ T \in SUBSET (0 .. z - 1)
      /\ Number(x) = Num(S, w) /\ Number(y) = Num(T, z)
  BY FixedFacts
<1>2. n \in Nat /\ n >= w /\ n >= z
  BY <1>1 DEF Wider
<1> HIDE DEF n, S, T
<1>3. Num(S, n) = Num(S, w) /\ Num(T, n) = Num(T, z)
  BY <1>1, <1>2, NumPad
<1>4. S \in SUBSET (0 .. n - 1) /\ T \in SUBSET (0 .. n - 1) /\ n > 0
  BY <1>1, <1>2
<1> QED
  BY <1>1, <1>2, <1>3, <1>4 DEF n, S, T

\* cmp_unsigned orders the numbers.
LEMMA LessIs ==
  ASSUME NEW w, NEW x, Fixed(w, x), NEW z, NEW y, Fixed(z, y)
  PROVE  /\ Less(x, y) <=> Number(x) < Number(y)
         /\ x.a = y.a <=> Number(x) = Number(y)
<1> DEFINE n == Wider(x, y)
           S == x.a
           T == y.a
<1>1. n \in Nat /\ S \in SUBSET (0 .. n - 1) /\ T \in SUBSET (0 .. n - 1)
      /\ Num(S, n) = Number(x) /\ Num(T, n) = Number(y)
  BY WiderFacts
<1>2. Less(x, y) <=> Before(S, T)
  BY DEF Less, Before
<1> HIDE DEF n, S, T
<1>3. /\ Before(S, T) <=> Num(S, n) < Num(T, n)
      /\ S = T <=> Num(S, n) = Num(T, n)
  BY <1>1, BeforeIsLess
<1> QED
  BY <1>1, <1>2, <1>3 DEF S, T

\* Extending by the sign keeps the number that is meant.
LEMMA ExtendIs ==
  ASSUME NEW w, NEW x, Fixed(w, x), NEW n \in Nat, n >= w
  PROVE  /\ Fixed(n, extend_sign(x, n))
         /\ sign_bit(extend_sign(x, n)) <=> sign_bit(x)
         /\ Signed(extend_sign(x, n)) = Signed(x)
         /\ \A i \in Nat : i \in extend_sign(x, n).a <=>
              i \in x.a \/ (sign_bit(x) /\ i \in w .. n - 1)
<1> DEFINE S == x.a
           y == extend_sign(x, n)
           E == y.a
<1>1. w \in Nat /\ w > 0 /\ x.width = w /\ x.b = {} /\ S \in SUBSET (0 .. w - 1)
      /\ Number(x) = Num(S, w) /\ Number(x) \in Nat
      /\ (sign_bit(x) <=> (w - 1) \in S)
      /\ Signed(x) = Number(x) - (IF sign_bit(x) THEN Power[w] ELSE 0)
  BY FixedFacts
<1>2. y \in Vec(n) /\ y.b = {} /\ \A i \in Nat : i \in E <=> i \in S \/ (sign_bit(x) /\ i \in w .. n - 1)
  <2>1. CASE n = w
    <3>1. y = from_chunks(n, S, {})
      BY <1>1, <2>1 DEF extend_sign, resize
    <3>2. y \in Vec(n) /\ E = S \cap Bits(n) /\ y.b = {} \cap Bits(n)
      BY <3>1, FromChunksVec
    <3> QED
      BY <1>1, <2>1, <3>2 DEF Bits
  <2>2. CASE n # w
    <3> DEFINE F == S \cup (IF sign_bit(x) THEN Bits(n) \ Bits(w) ELSE {})
    <3>1. y = from_chunks(n, F, {})
      BY <1>1, <2>2 DEF extend_sign
    <3>2. y \in Vec(n) /\ E = F \cap Bits(n) /\ y.b = {} \cap Bits(n)
      BY <3>1, FromChunksVec
    <3>3. \A i \in Nat : i \in F \cap Bits(n) <=> i \in S \/ (sign_bit(x) /\ i \in w .. n - 1)
      BY <1>1 DEF Bits
    <3> QED
      BY <3>2, <3>3
  <2> QED
    BY <2>1, <2>2
<1>3. Fixed(n, y)
  BY <1>1, <1>2 DEF Fixed
<1>4. /\ Number(y) = Num(E, n)
      /\ (sign_bit(y) <=> (n - 1) \in E)
      /\ Signed(y) = Number(y) - (IF sign_bit(y) THEN Power[n] ELSE 0)
  BY <1>3, FixedFacts
<1> HIDE DEF S, y, E
<1>5. sign_bit(y) <=> sign_bit(x)
  <2>1. n - 1 \in Nat
    BY <1>1
  <2>2. (n - 1) \in E <=> (n - 1) \in S \/ (sign_bit(x) /\ n - 1 \in w .. n - 1)
    BY <1>2, <2>1
  <2>3. CASE n = w
    BY <1>1, <1>4, <2>2, <2>3
  <2>4. CASE n # w
    BY <1>1, <1>4, <2>2, <2>4
  <2> QED
    BY <2>3, <2>4
<1>6. Signed(y) = Signed(x)
  <2>1. Num(E, w) = Num(S, w)
    <3>1. \A i \in 0 .. w - 1 : i \in E <=> i \in S
      BY <1>1, <1>2
    <3> QED
      BY <1>1, <3>1, NumSame
  <2>2. CASE ~sign_bit(x)
    <3>1. \A i \in 0 .. n - 1 : i \in E <=> i \in S
      BY <1>2, <2>2
    <3>2. Num(E, n) = Num(S, n)
      BY <3>1, NumSame
    <3>3. Num(S, n) = Num(S, w)
      BY <1>1, NumPad
    <3> QED
      BY <1>1, <1>4, <1>5, <2>2, <3>2, <3>3
  <2>3. CASE sign_bit(x)
    <3> DEFINE F == 0 .. n - 1
               G == {}
    <3>1. w \in 0 .. n /\ \A i \in w .. n - 1 : i \in F <=> i \in E
      BY <1>1, <1>2, <2>3
    <3>2. \A i \in 0 .. n - 1 : i \in G <=> i \notin F
      OBVIOUS
    <3>3. \A i \in 0 .. w - 1 : i \in G <=> i \notin F
      BY <1>1
    <3>4. Num(G, n) = 0 /\ Num(G, w) = 0
      BY <1>1, NumEmpty
    <3> HIDE DEF F, G
    <3>5. Num(F, n) - Num(E, n) = Num(F, w) - Num(E, w)
      BY <1>1, <3>1, NumAbove
    <3>6. Num(F, n) + Num(G, n) = Power[n] - 1 /\ Num(F, w) + Num(G, w) = Power[w] - 1
      BY <1>1, <3>2, <3>3, NumOthers
    <3>7. Num(F, n) \in Nat /\ Num(F, w) \in Nat /\ Num(E, n) \in Nat /\ Num(E, w) \in Nat
          /\ Power[n] \in Nat /\ Power[w] \in Nat
      BY <1>1, NumFacts, PowerFacts
    <3>8. Num(E, n) - Power[n] = Num(S, w) - Power[w]
      <4>1. Num(F, n) = Power[n] - 1 /\ Num(F, w) = Power[w] - 1
        BY <3>4, <3>6, <3>7
      <4>2. Power[n] - 1 - Num(E, n) = Power[w] - 1 - Num(S, w)
        BY <2>1, <3>5, <4>1
      <4>3. Num(S, w) \in Nat
        BY <2>1, <3>7
      <4> QED
        BY <3>7, <4>2, <4>3
    <3> QED
      BY <1>1, <1>4, <1>5, <2>3, <3>8
  <2> QED
    BY <2>2, <2>3
<1> QED
  BY <1>2, <1>3, <1>5, <1>6 DEF S, y, E

\* cmp_signed orders the signed numbers.
LEMMA LessSignedIs ==
  ASSUME NEW w, NEW x, Fixed(w, x), NEW z, NEW y, Fixed(z, y)
  PROVE  /\ LessSigned(x, y) <=> Signed(x) < Signed(y)
         /\ Signed(x) \in Int /\ Signed(y) \in Int
<1> DEFINE n == Wider(x, y)
           l == extend_sign(x, n)
           r == extend_sign(y, n)
<1>1. n \in Nat /\ n >= w /\ n >= z
  BY WiderFacts
<1>2. LessSigned(x, y) <=> (IF sign_bit(l) # sign_bit(r) THEN sign_bit(l) ELSE Less(l, r))
  <2>1. sign_bit(l) \in BOOLEAN /\ Less(l, r) \in BOOLEAN
    BY DEF sign_bit, Less
  <2> QED
    BY <2>1 DEF LessSigned
<1> HIDE DEF n
<1>3. Fixed(n, l) /\ Fixed(n, r) /\ Signed(l) = Signed(x) /\ Signed(r) = Signed(y)
  BY <1>1, ExtendIs
<1> HIDE DEF l, r
<1>4. /\ Number(l) \in Nat /\ Number(l) < Power[n] /\ Power[n] \in Nat
      /\ Number(r) \in Nat /\ Number(r) < Power[n]
      /\ Signed(l) = Number(l) - (IF sign_bit(l) THEN Power[n] ELSE 0)
      /\ Signed(r) = Number(r) - (IF sign_bit(r) THEN Power[n] ELSE 0)
  BY <1>3, FixedFacts
<1>5. Less(l, r) <=> Number(l) < Number(r)
  BY <1>3, LessIs
<1>6. Signed(l) \in Int /\ Signed(r) \in Int
  BY <1>4
<1>7. CASE sign_bit(l) # sign_bit(r)
  <2>1. CASE sign_bit(l)
    <3>1. ~sign_bit(r)
      BY <1>7, <2>1 DEF sign_bit
    <3>2. Signed(l) < Signed(r)
      BY <1>4, <2>1, <3>1
    <3> QED
      BY <1>2, <1>3, <1>6, <1>7, <2>1, <3>2
  <2>2. CASE ~sign_bit(l)
    <3>1. sign_bit(r)
      BY <1>7, <2>2 DEF sign_bit
    <3> QED
      BY <1>2, <1>3, <1>4, <1>6, <1>7, <2>2, <3>1
  <2> QED
    BY <2>1, <2>2
<1>8. CASE ~(sign_bit(l) # sign_bit(r))
  <2>1. CASE sign_bit(l)
    <3>1. sign_bit(r)
      BY <1>8, <2>1
    <3>2. Signed(l) < Signed(r) <=> Number(l) < Number(r)
      BY <1>4, <2>1, <3>1
    <3> QED
      BY <1>2, <1>3, <1>5, <1>6, <1>8, <3>2
  <2>2. CASE ~sign_bit(l)
    <3>1. ~sign_bit(r)
      BY <1>8, <2>2
    <3>2. Signed(l) < Signed(r) <=> Number(l) < Number(r)
      BY <1>4, <2>2, <3>1
    <3> QED
      BY <1>2, <1>3, <1>5, <1>6, <1>8, <3>2
  <2> QED
    BY <2>1, <2>2
<1> QED
  BY <1>7, <1>8

\* The comparisons are those of the numbers.
LEMMA ComparisonsAreArithmetic ==
  ASSUME NEW w, NEW x, Fixed(w, x), NEW z, NEW y, Fixed(z, y)
  PROVE  /\ lt(x, y) = Truth(Number(x) < Number(y))
         /\ le(x, y) = Truth(Number(x) <= Number(y))
         /\ lt_signed(x, y) = Truth(Signed(x) < Signed(y))
         /\ le_signed(x, y) = Truth(Signed(x) <= Signed(y))
         /\ eq(x, y) = Truth(Number(x) = Number(y))
         /\ log_and(x, y) = Truth(Number(x) > 0 /\ Number(y) > 0)
<1>1. x.b = {} /\ y.b = {} /\ is_known(x) /\ is_known(y)
  BY FixedFacts DEF is_known
<1>2. Number(x) \in Nat /\ Number(y) \in Nat
  BY FixedFacts
<1>3. /\ Less(x, y) <=> Number(x) < Number(y)
      /\ Less(y, x) <=> Number(y) < Number(x)
      /\ x.a = y.a <=> Number(x) = Number(y)
  BY LessIs
<1>4. /\ LessSigned(x, y) <=> Signed(x) < Signed(y)
      /\ LessSigned(y, x) <=> Signed(y) < Signed(x)
      /\ Signed(x) \in Int /\ Signed(y) \in Int
  BY LessSignedIs
<1>5. lt(x, y) = Truth(Number(x) < Number(y))
  BY <1>1, <1>3 DEF lt, Truth
<1>6. le(x, y) = Truth(Number(x) <= Number(y))
  <2>1. Number(x) <= Number(y) <=> ~Less(y, x)
    BY <1>2, <1>3
  <2> QED
    BY <1>1, <2>1 DEF le, Truth
<1>7. lt_signed(x, y) = Truth(Signed(x) < Signed(y))
  BY <1>1, <1>4 DEF lt_signed, Truth
<1>8. le_signed(x, y) = Truth(Signed(x) <= Signed(y))
  <2>1. Signed(x) <= Signed(y) <=> ~LessSigned(y, x)
    BY <1>4
  <2> QED
    BY <1>1, <2>1 DEF le_signed, Truth
<1>9. eq(x, y) = Truth(Number(x) = Number(y))
  <2>1. Xor(x.a, y.a) \ (x.b \cup y.b) # {} <=> x.a # y.a
    BY <1>1 DEF Xor
  <2>2. x.b \cup y.b = {}
    BY <1>1
  <2> QED
    BY <1>3, <2>1, <2>2 DEF eq, Truth
<1>10. ASSUME NEW q, NEW o, Fixed(q, o)
       PROVE  (is_zero(o) <=> ~(Number(o) > 0)) /\ (is_true(o) <=> Number(o) > 0)
  <2> DEFINE S == o.a
  <2>1. q \in Nat /\ S \in SUBSET (0 .. q - 1) /\ Number(o) = Num(S, q) /\ Number(o) \in Nat /\ o.b = {}
    BY <1>10, FixedFacts
  <2>2. is_zero(o) <=> S = {}
    BY <2>1 DEF is_zero
  <2>3. is_true(o) <=> S # {}
    BY <2>1 DEF is_true, Ones
  <2> HIDE DEF S
  <2> DEFINE G == {}
  <2>4. G \in SUBSET (0 .. q - 1) /\ Num(G, q) = 0
    BY <2>1, NumEmpty
  <2>5. S = G <=> S = {}
    OBVIOUS
  <2> HIDE DEF G
  <2>6. S = G <=> Num(S, q) = Num(G, q)
    BY <2>1, <2>4, BeforeIsLess
  <2> QED
    <3>1. S = {} <=> Number(o) = 0
      BY <2>1, <2>4, <2>5, <2>6
    <3>2. Number(o) > 0 <=> Number(o) # 0
      BY <2>1
    <3> QED
      BY <2>2, <2>3, <3>1, <3>2
<1>11. log_and(x, y) = Truth(Number(x) > 0 /\ Number(y) > 0)
  <2>1. /\ is_zero(x) <=> ~(Number(x) > 0)
        /\ is_true(x) <=> Number(x) > 0
        /\ is_zero(y) <=> ~(Number(y) > 0)
        /\ is_true(y) <=> Number(y) > 0
    BY <1>10
  <2> QED
    BY <2>1 DEF log_and, Truth
<1> QED
  BY <1>5, <1>6, <1>7, <1>8, <1>9, <1>11

\* Joining puts the left operand above the right one.
LEMMA ConcatIs ==
  ASSUME NEW w, NEW x, Fixed(w, x), NEW z, NEW y, Fixed(z, y)
  PROVE  Number(concat(x, y)) = Number(x) * Power[z] + Number(y)
<1> DEFINE S == x.a
           T == y.a
           C == T \cup Up(S, z)
<1>1. /\ w \in Nat /\ x.width = w /\ S \in SUBSET Nat /\ Number(x) = Num(S, w) /\ Number(x) \in Nat
      /\ z \in Nat /\ y.width = z /\ T \in SUBSET (0 .. z - 1) /\ Number(y) = Num(T, z)
      /\ Number(y) \in Nat /\ Power[z] \in Nat
  BY FixedFacts
<1>2. Number(concat(x, y)) = Num(C, w + z)
  <2>1. w + z \in Nat /\ concat(x, y) = from_chunks(w + z, C, y.b \cup Up(x.b, z))
    BY <1>1 DEF concat
  <2> HIDE DEF C
  <2> QED
    BY <2>1, FromNumber
<1>3. Up(S, z) \in SUBSET Nat /\ (\A i \in 0 .. z - 1 : i \notin Up(S, z))
      /\ \A k \in Nat : z + k \in Up(S, z) <=> k \in S
  <2> HIDE DEF S
  <2> QED
    BY <1>1, UpBit, UpLow
<1>4. C \in SUBSET Nat
  BY <1>1, <1>3
<1>5. \A i \in 0 .. z - 1 : i \in C <=> i \in T
  BY <1>3
<1>6. \A k \in Nat : z + k \in C <=> k \in S
  <2> SUFFICES ASSUME NEW k \in Nat
               PROVE  z + k \in C <=> k \in S
    OBVIOUS
  <2>1. z + k \notin T
    BY <1>1
  <2> QED
    BY <1>3, <2>1
<1> DEFINE D == Down(C, z)
<1> HIDE DEF C, S, T
<1>7. \A i \in 0 .. w - 1 : i \in D <=> i \in S
  BY <1>1, <1>4, <1>6, DownBit
<1>8. Num(C, z + w) = Num(C, z) + Power[z] * Num(D, w)
  BY <1>1, <1>4, NumSplit
<1> HIDE DEF D
<1>9. Num(C, z) = Num(T, z) /\ Num(D, w) = Num(S, w)
  BY <1>1, <1>5, <1>7, NumSame
<1> DEFINE m == Number(x)
           p == Power[z]
<1>10. w + z = z + w /\ p * m = m * p /\ m * p \in Nat
  <2>1. m \in Nat /\ p \in Nat
    BY <1>1
  <2> HIDE DEF m, p
  <2> QED
    BY <1>1, <2>1
<1> QED
  BY <1>1, <1>2, <1>8, <1>9, <1>10

\* Complement, and and or.
LEMMA BitwiseIs ==
  ASSUME NEW w, NEW x, Fixed(w, x), NEW z, NEW y, Fixed(z, y)
  PROVE  /\ Number(Not(x)) = Power[w] - 1 - Number(x)
         /\ Number(BitAnd(x, y)) + Number(BitOr(x, y)) = Number(x) + Number(y)
<1> DEFINE S == x.a
           T == y.a
           n == Wider(x, y)
<1>1. /\ w \in Nat /\ x.width = w /\ x.b = {} /\ S \in SUBSET (0 .. w - 1) /\ y.b = {}
      /\ Number(x) = Num(S, w) /\ Number(x) \in Nat /\ Power[w] \in Nat
  BY FixedFacts
<1>2. /\ n \in Nat /\ Num(S, n) = Number(x) /\ Num(T, n) = Number(y)
  BY WiderFacts
<1>3. Number(Not(x)) = Power[w] - 1 - Number(x)
  <2> DEFINE N == Not(x).a
  <2>1. x \in [width : {w}, a : SUBSET Bits(w), b : SUBSET Bits(w)]
    BY DEF Fixed, Vec
  <2>2. Not(x).width = w /\ N = Bits(w) \ S
    BY <1>1, <2>1 DEF Not
  <2>3. Number(Not(x)) = Num(N, w)
    BY <2>2, NumberIs
  <2>4. \A i \in 0 .. w - 1 : i \in N <=> i \notin S
    BY <2>2 DEF Bits
  <2> HIDE DEF N, S
  <2>5. Num(S, w) + Num(N, w) = Power[w] - 1
    BY <1>1, <2>4, NumOthers
  <2>6. Num(N, w) \in Nat
    BY <1>1, NumFacts
  <2> QED
    BY <1>1, <2>3, <2>5, <2>6
<1>4. Number(BitAnd(x, y)) = Num(S \cap T, n)
  <2> DEFINE I == (x.a \cup x.b) \cap (y.a \cup y.b)
  <2>1. BitAnd(x, y) = from_chunks(n, I, I \ (Ones(x) \cap Ones(y)))
    BY DEF BitAnd
  <2>2. I = S \cap T
    BY <1>1
  <2> HIDE DEF I, n
  <2>3. Number(BitAnd(x, y)) = Num(I, n)
    BY <1>2, <2>1, FromNumber
  <2> QED
    BY <2>2, <2>3
<1>5. Number(BitOr(x, y)) = Num(S \cup T, n)
  <2> DEFINE I == x.a \cup x.b \cup y.a \cup y.b
             B == I \cap ((Bits(n) \ x.a) \cup x.b) \cap ((Bits(n) \ y.a) \cup y.b)
  <2>1. BitOr(x, y) = from_chunks(n, I, B)
    BY DEF BitOr
  <2>2. I = S \cup T
    BY <1>1
  <2> HIDE DEF I, B, n
  <2>3. Number(BitOr(x, y)) = Num(I, n)
    BY <1>2, <2>1, FromNumber
  <2> QED
    BY <2>2, <2>3
<1> HIDE DEF S, T, n
<1>6. Num(S \cap T, n) + Num(S \cup T, n) = Num(S, n) + Num(T, n)
  BY <1>2, NumMeetJoin
<1> QED
  BY <1>2, <1>3, <1>4, <1>5, <1>6

\* What is left of a number without its k lowest bits.
LEMMA NumDown ==
  ASSUME NEW S \in SUBSET Nat, NEW k \in Nat, NEW w \in Nat
  PROVE  /\ Num(S, k + w) \div Power[k] = Num(Down(S, k), w)
         /\ Num(S, k + w) % Power[k] = Num(S, k)
<1> DEFINE p == Power[k]
           m == Num(S, k + w)
           r == Num(S, k)
           q == Num(Down(S, k), w)
<1>1. m = r + p * q
  BY NumSplit
<1>2. p \in Nat /\ p > 0 /\ r \in Nat /\ r < p /\ q \in Nat /\ m \in Nat
  <2>1. p \in Nat /\ p > 0
    BY PowerFacts
  <2>2. r \in Nat /\ r < p
    BY NumFacts, NumBelow
  <2>3. q \in Nat
    <3> DEFINE D == Down(S, k)
    <3> HIDE DEF D
    <3>1. Num(D, w) \in Nat
      BY NumFacts
    <3> QED
      BY <3>1 DEF D
  <2>4. k + w \in Nat
    OBVIOUS
  <2>5. m \in Nat
    BY <2>4, NumFacts
  <2> QED
    BY <2>1, <2>2, <2>3, <2>5
<1> HIDE DEF p, m, r, q
<1>3. r \in 0 .. p - 1 /\ m \in Int /\ q \in Int
  BY <1>2
<1>4. m \div p = q /\ m % p = r
  BY <1>1, <1>2, <1>3, TwoParts
<1> QED
  BY <1>4 DEF p, m, r, q

\* Shifts and selections are products, quotients and remainders.
LEMMA ShiftsAre ==
  ASSUME NEW w, NEW x, Fixed(w, x), NEW k \in Nat
  PROVE  /\ Number(shl(x, TRUE, k)) = (Number(x) * Power[k]) % Power[w]
         /\ Number(shr(x, TRUE, k)) = Number(x) \div Power[k]
         /\ k < w => Number(part_select(x, w - 1, k)) = Number(x) \div Power[k]
<1> DEFINE S == x.a
           U == Up(S, k)
           D == Down(S, k)
<1>1. w \in Nat /\ x.width = w /\ S \in SUBSET (0 .. w - 1) /\ S \in SUBSET Nat
      /\ Number(x) = Num(S, w) /\ Number(x) \in Nat /\ k + w \in Nat /\ w + k = k + w /\ k + w >= w
  BY FixedFacts
<1>2. Number(shl(x, TRUE, k)) = Num(U, w)
  BY <1>1, FromNumber DEF shl
<1>3. Number(shr(x, TRUE, k)) = Num(D, w)
  BY <1>1, FromNumber DEF shr
<1>4. k < w => w - k \in Nat /\ Number(part_select(x, w - 1, k)) = Num(D, w - k)
  <2>1. SUFFICES ASSUME k < w
                 PROVE  w - k \in Nat /\ Number(part_select(x, w - 1, k)) = Num(D, w - k)
    OBVIOUS
  <2>2. w - k \in Nat /\ w - 1 - k + 1 = w - k /\ ~(w - 1 >= x.width) /\ ~(w - 1 < k)
    BY <1>1, <2>1
  <2>3. part_select(x, w - 1, k) = from_chunks(w - k, D, Down(x.b, k))
    BY <2>2 DEF part_select
  <2> HIDE DEF D
  <2> QED
    BY <2>2, <2>3, FromNumber
<1>5. /\ U \in SUBSET Nat /\ \A i \in 0 .. k - 1 : i \notin U
      /\ \A i \in Nat : k + i \in U <=> i \in S
  <2> HIDE DEF S
  <2> QED
    BY <1>1, UpBit, UpLow
<1> HIDE DEF S, U
<1> DEFINE V == Down(U, k)
           p == Power[k]
           m == Number(x)
<1>6. Num(U, w) = (m * p) % Power[w]
  <2>1. Num(U, k + w) = Num(U, k) + p * Num(V, w)
    BY <1>1, <1>5, NumSplit
  <2>2. \A i \in 0 .. w - 1 : i \in V <=> i \in S
    BY <1>1, <1>5, DownBit
  <2> HIDE DEF V
  <2>3. Num(V, w) = m /\ Num(U, k) = 0
    BY <1>1, <1>5, <2>2, NumSame, NumEmpty
  <2>4. Num(U, w + k) % Power[w] = Num(U, w)
    BY <1>1, <1>5, NumDown
  <2>5. p \in Nat /\ m \in Nat
    BY <1>1, PowerFacts
  <2> HIDE DEF p, m
  <2>6. m * p = p * m /\ p * m \in Nat
    BY <2>5
  <2>7. Num(U, w + k) = m * p
    BY <1>1, <2>1, <2>3, <2>6
  <2> QED
    BY <2>4, <2>7
<1>7. Num(D, w) = Number(x) \div Power[k]
  <2>1. Num(S, k + w) = Num(S, w)
    BY <1>1, NumPad
  <2>2. Num(S, k + w) \div Power[k] = Num(D, w)
    BY <1>1, NumDown
  <2> QED
    BY <1>1, <2>1, <2>2
<1>8. k < w => Num(D, w - k) = Number(x) \div Power[k]
  <2>1. SUFFICES ASSUME k < w
                 PROVE  Num(D, w - k) = Number(x) \div Power[k]
    OBVIOUS
  <2> DEFINE l == w - k
  <2>2. l \in Nat /\ k + l = w
    BY <1>1, <2>1
  <2> HIDE DEF l
  <2>3. Num(S, k + l) \div Power[k] = Num(D, l)
    BY <1>1, <2>2, NumDown
  <2> QED
    BY <1>1, <2>2, <2>3 DEF l
<1> QED
  BY <1>2, <1>3, <1>4, <1>6, <1>7, <1>8

\* The arithmetic shift divides the signed number, rounding down.
LEMMA AshrIs ==
  ASSUME NEW w, NEW x, Fixed(w, x), NEW k \in Nat
  PROVE  Signed(ashr(x, TRUE, k)) = Signed(x) \div Power[k]
<1> DEFINE S == x.a
           n == k + w
           y == extend_sign(x, n)
           E == y.a
           R == Down(S, k) \cup (IF (w - 1) \in S THEN Bits(w) \ Bits(w - k) ELSE {})
           a == ashr(x, TRUE, k)
           s == IF sign_bit(x) THEN 1 ELSE 0
<1>1. w \in Nat /\ w > 0 /\ x.width = w /\ S \in SUBSET (0 .. w - 1) /\ S \in SUBSET Nat
      /\ (sign_bit(x) <=> (w - 1) \in S)
  BY FixedFacts
<1>2. n \in Nat /\ n >= w
  BY <1>1
<1>3. a = from_chunks(w, R, Down(x.b, k) \cup (IF (w - 1) \in x.b THEN Bits(w) \ Bits(w - k) ELSE {}))
  BY <1>1 DEF ashr
<1> HIDE DEF n
<1>4. Fixed(n, y) /\ (sign_bit(y) <=> sign_bit(x)) /\ Signed(y) = Signed(x)
      /\ \A i \in Nat : i \in E <=> i \in S \/ (sign_bit(x) /\ i \in w .. n - 1)
  BY <1>2, ExtendIs
<1>5. E \in SUBSET Nat /\ Number(y) = Num(E, n) /\ (sign_bit(y) <=> (n - 1) \in E)
      /\ Signed(y) = Number(y) - (IF sign_bit(y) THEN Power[n] ELSE 0)
  BY <1>4, FixedFacts
<1> HIDE DEF y, E
<1>6. \A i \in 0 .. w - 1 : i \in R <=> k + i \in E
  <2> SUFFICES ASSUME NEW i \in 0 .. w - 1
               PROVE  i \in R <=> k + i \in E
    OBVIOUS
  <2>1. i \in Nat /\ k + i \in Nat /\ k + i <= n - 1
    BY <1>1 DEF n
  <2>2. i \in Down(S, k) <=> k + i \in S
    <3> HIDE DEF S
    <3> QED
      BY <1>1, <2>1, DownBit
  <2>3. i \in Bits(w) \ Bits(w - k) <=> k + i >= w
    BY <1>1, <2>1 DEF Bits
  <2>4. k + i \in E <=> k + i \in S \/ (sign_bit(x) /\ k + i >= w)
    BY <1>1, <1>2, <1>4, <2>1
  <2> QED
    BY <1>1, <2>2, <2>3, <2>4
<1>7. a.width = w /\ Number(a) = Num(R, w) /\ a.a = R \cap Bits(w)
  <2> HIDE DEF R, a
  <2> QED
    BY <1>1, <1>3, FromNumber, FromChunksVec
<1>8. sign_bit(a) <=> sign_bit(x)
  <2>1. w - 1 \in 0 .. w - 1 /\ k + (w - 1) = n - 1 /\ w - 1 \in Bits(w)
    BY <1>1 DEF n, Bits
  <2>2. w - 1 \in R <=> n - 1 \in E
    BY <1>6, <2>1
  <2>3. sign_bit(a) <=> w - 1 \in R
    BY <1>1, <1>7, <2>1 DEF sign_bit
  <2> QED
    BY <1>4, <1>5, <2>2, <2>3
<1>9. Signed(a) = Num(R, w) - (IF sign_bit(x) THEN Power[w] ELSE 0)
  BY <1>7, <1>8 DEF Signed
<1> HIDE DEF R, a, S
<1> DEFINE D == Down(E, k)
           p == Power[k]
           r == Num(E, k)
           q == Num(D, w)
           pw == Power[w]
<1>10. q = Num(R, w)
  <2>1. \A i \in 0 .. w - 1 : i \in D <=> i \in R
    BY <1>1, <1>5, <1>6, DownBit
  <2> HIDE DEF D
  <2> QED
    BY <1>1, <2>1, NumSame
<1>11. Num(E, n) = r + p * q /\ Power[n] = p * pw
  BY <1>1, <1>5, NumSplit DEF n
<1>12. p \in Nat /\ p > 0 /\ r \in Nat /\ r < p /\ q \in Nat /\ pw \in Nat
  BY <1>1, PowerFacts, NumFacts, NumBelow
<1> HIDE DEF D, p, r, q, pw
<1> DEFINE t == q - (IF sign_bit(x) THEN pw ELSE 0)
<1>13. t \in Int /\ r \in 0 .. p - 1
  BY <1>12
<1>14. Signed(x) = r + p * t
  <2>1. p * (q - pw) = p * q - p * pw /\ p * q \in Int /\ p * pw \in Int
    BY <1>12
  <2>2. CASE sign_bit(x)
    <3>1. Signed(x) = (r + p * q) - p * pw
      BY <1>4, <1>5, <1>11, <2>2
    <3>2. t = q - pw
      BY <2>2
    <3> QED
      BY <1>12, <2>1, <3>1, <3>2
  <2>3. CASE ~sign_bit(x)
    <3>1. Signed(x) = (r + p * q) - 0
      BY <1>4, <1>5, <1>11, <2>3
    <3>2. t = q
      BY <1>12, <2>3
    <3> QED
      BY <1>12, <2>1, <3>1, <3>2
  <2> QED
    BY <2>2, <2>3
<1>15. Signed(a) = t
  BY <1>9, <1>10 DEF pw
<1> HIDE DEF t
<1>16. p * t \in Int
  BY <1>12, <1>13
<1>17. Signed(x) \in Int
  BY <1>12, <1>14, <1>16
<1>18. Signed(x) \div p = t
  BY <1>12, <1>13, <1>14, <1>17, TwoParts
<1> QED
  BY <1>15, <1>18 DEF p, a

\* KnownIsArithmetic for vectors of every width and every distance.
THEOREM KnownComputes == Spec => []KnownIsArithmetic
<1>1. OperandsTyped => KnownIsArithmetic
  <2>1. SUFFICES ASSUME OperandsTyped, is_known(u), is_known(v)
                 PROVE  KnownIsArithmetic
    BY DEF KnownIsArithmetic
  <2> DEFINE w == u.width
             z == v.width
             m == Number(u)
             n == Number(v)
  <2>2. Fixed(w, u) /\ Fixed(z, v)
    <3>1. u \in Vec(w) /\ v \in Vec(z) /\ w \in Nat \ {0} /\ z \in Nat \ {0}
      BY <2>1, LogicVecAssumption DEF OperandsTyped, Vecs, Vec
    <3> QED
      BY <2>1, <3>1 DEF Fixed, is_known
  <2>3. w \in Nat
    BY <2>2, FixedFacts
  <2>4. /\ lt(u, v) = Truth(m < n) /\ le(u, v) = Truth(m <= n)
        /\ lt_signed(u, v) = Truth(Signed(u) < Signed(v))
        /\ le_signed(u, v) = Truth(Signed(u) <= Signed(v))
        /\ eq(u, v) = Truth(m = n) /\ log_and(u, v) = Truth(m > 0 /\ n > 0)
    BY <2>2, ComparisonsAreArithmetic
  <2>5. Number(concat(u, v)) = m * Power[z] + n
    BY <2>2, ConcatIs
  <2>6. /\ Number(Not(u)) = Power[w] - 1 - m
        /\ Number(BitAnd(u, v)) + Number(BitOr(u, v)) = m + n
    BY <2>2, BitwiseIs
  <2>7. ASSUME NEW k \in Distances
        PROVE  /\ Number(shl(u, TRUE, k)) = (m * Power[k]) % Power[w]
               /\ Number(shr(u, TRUE, k)) = m \div Power[k]
               /\ Signed(ashr(u, TRUE, k)) = Signed(u) \div Power[k]
               /\ k < w => Number(part_select(u, w - 1, k)) = m \div Power[k]
               /\ Signed(u) = Signed(extend_sign(u, w + k))
    <3>1. k \in Nat
      BY LogicVecAssumption
    <3>2. w + k \in Nat /\ w + k >= w
      BY <2>3, <3>1
    <3>3. Signed(extend_sign(u, w + k)) = Signed(u)
      <4> DEFINE l == w + k
      <4>1. l \in Nat /\ l >= w
        BY <3>2
      <4> HIDE DEF l, w
      <4>2. Signed(extend_sign(u, l)) = Signed(u)
        BY <2>2, <4>1, ExtendIs
      <4> QED
        BY <4>2 DEF l, w
    <3>4. Signed(ashr(u, TRUE, k)) = Signed(u) \div Power[k]
      BY <2>2, <3>1, AshrIs
    <3>5. /\ Number(shl(u, TRUE, k)) = (m * Power[k]) % Power[w]
          /\ Number(shr(u, TRUE, k)) = m \div Power[k]
          /\ k < w => Number(part_select(u, w - 1, k)) = m \div Power[k]
      BY <2>2, <3>1, ShiftsAre
    <3> QED
      BY <3>3, <3>4, <3>5
  <2> QED
    BY <2>4, <2>5, <2>6, <2>7 DEF KnownIsArithmetic
<1> QED
  BY <1>1, OperandsStayTyped, PTL
=============================================================================
