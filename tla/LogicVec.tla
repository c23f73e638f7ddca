------------------------------ MODULE LogicVec ------------------------------
(***************************************************************************)
(* LogicVal of crates/mir/src/logicval.rs: vectors of 0, 1, X and Z.       *)
(*                                                                         *)
(* A value has two planes, a and b; a bit is 0, 1, Z or X when it is in     *)
(* neither, in a, in b, or in both.  A plane is the set of the positions    *)
(* of its 1 bits, so that an operator that works on every 64-bit chunk      *)
(* alike is an operator on sets, and a chunk beyond the width is empty.     *)
(* What carries from chunk to chunk (sums, products, quotients) is not      *)
(* here.                                                                   *)
(***************************************************************************)
EXTENDS Integers, FiniteSets

Bits(w) == 0..(w - 1)

\* The values of width w.
Vec(w) == [width : {w}, a : SUBSET Bits(w), b : SUBSET Bits(w)]

from_chunks(w, a, b) ==
  [width |-> w, a |-> a \cap Bits(w), b |-> b \cap Bits(w)]

all_bits(w, one) == [width |-> w, a |-> IF one THEN Bits(w) ELSE {}, b |-> {}]
x_of_width(w) == [width |-> w, a |-> Bits(w), b |-> Bits(w)]
z_of_width(w) == [width |-> w, a |-> {}, b |-> Bits(w)]

ZERO == all_bits(1, FALSE)
ONE == all_bits(1, TRUE)
X == x_of_width(1)
Z == z_of_width(1)

\* The wider of two operands gives the width of the result.
Wider(u, v) == IF u.width >= v.width THEN u.width ELSE v.width

Ones(u) == u.a \ u.b
Xs(u) == u.a \cap u.b
Zs(u) == u.b \ u.a
Zeros(u, w) == Bits(w) \ (u.a \cup u.b)

-----------------------------------------------------------------------------
(* Tests and changes of width *)

is_zero(u) == u.a \cup u.b = {}
is_true(u) == Ones(u) # {}
is_known(u) == u.b = {}

resize(u, w) == from_chunks(w, u.a, u.b)

\* sign_bit: the a plane of the most significant bit.
sign_bit(u) == u.width > 0 /\ (u.width - 1) \in u.a

extend_sign(u, w) ==
  IF w <= u.width THEN resize(u, w)
  ELSE from_chunks(w, u.a \cup (IF sign_bit(u) THEN Bits(w) \ Bits(u.width)
                                               ELSE {}), u.b)

-----------------------------------------------------------------------------
(* Bitwise operators *)

Not(u) == [u EXCEPT !.a = (Bits(u.width) \ u.a) \cup u.b]

BitAnd(u, v) ==
  LET ao == (u.a \cup u.b) \cap (v.a \cup v.b)
  IN  from_chunks(Wider(u, v), ao, ao \ (Ones(u) \cap Ones(v)))

\* Deviant: a known 1 does not decide its bit.
DeviantBitOr(u, v) ==
  LET bo == u.b \cup v.b
  IN  from_chunks(Wider(u, v), u.a \cup v.a \cup bo, bo)

BitOr(u, v) ==
  LET w == Wider(u, v)
      ao == u.a \cup u.b \cup v.a \cup v.b
      bo == ao \cap ((Bits(w) \ u.a) \cup u.b) \cap ((Bits(w) \ v.a) \cup v.b)
  IN  from_chunks(w, ao, bo)

Xor(S, T) == (S \ T) \cup (T \ S)

BitXor(u, v) ==
  LET bo == u.b \cup v.b
  IN  from_chunks(Wider(u, v), Xor(u.a, v.a) \cup bo, bo)

\* The two branches of a conditional whose condition is unknown.
merge_unknown(u, v) ==
  LET diff == Xor(u.a, v.a) \cup Xor(u.b, v.b)
  IN  from_chunks(Wider(u, v), u.a \cup diff, u.b \cup diff)

\* Expr::Cond.
Cond(c, t, f) ==
  IF is_true(c) THEN t ELSE IF is_known(c) THEN f ELSE merge_unknown(t, f)

-----------------------------------------------------------------------------
(* Comparisons, logical operators and reductions: one bit *)

eq(u, v) ==
  IF Xor(u.a, v.a) \ (u.b \cup v.b) # {} THEN ZERO
  ELSE IF u.b \cup v.b # {} THEN X
  ELSE ONE

ne(u, v) ==
  LET r == eq(u, v) IN IF r = ONE THEN ZERO ELSE IF r = ZERO THEN ONE ELSE r

case_eq(u, v) == IF u.a = v.a /\ u.b = v.b THEN ONE ELSE ZERO

\* Deviant: for casex only an X is a wildcard.
Deviant_case_wild_eq(u, v, x_is_wildcard) ==
  LET dont_care(x) == IF x_is_wildcard THEN Xs(x) ELSE Zs(x)
  IN  IF (Xor(u.a, v.a) \cup Xor(u.b, v.b)) \ (dont_care(u) \cup dont_care(v))
         # {}
      THEN ZERO ELSE ONE

case_wild_eq(u, v, x_is_wildcard) ==
  LET dont_care(x) == IF x_is_wildcard THEN x.b ELSE Zs(x)
  IN  IF (Xor(u.a, v.a) \cup Xor(u.b, v.b)) \ (dont_care(u) \cup dont_care(v))
         # {}
      THEN ZERO ELSE ONE

casez_eq(u, v) == case_wild_eq(u, v, FALSE)
casex_eq(u, v) == case_wild_eq(u, v, TRUE)

\* cmp_unsigned of two known values: the highest chunk that differs decides.
Less(u, v) ==
  \E i \in v.a \ u.a : \A j \in Xor(u.a, v.a) : j <= i

lt(u, v) ==
  IF ~is_known(u) \/ ~is_known(v) THEN X ELSE IF Less(u, v) THEN ONE ELSE ZERO

le(u, v) ==
  IF ~is_known(u) \/ ~is_known(v) THEN X ELSE IF Less(v, u) THEN ZERO ELSE ONE

\* Deviant: the operands are extended with zeros.
DeviantLessSigned(u, v) ==
  LET l == resize(u, Wider(u, v))
      r == resize(v, Wider(u, v))
  IN  IF sign_bit(l) # sign_bit(r) THEN sign_bit(l) ELSE Less(l, r)

\* cmp_signed: both operands are extended to the same width.
LessSigned(u, v) ==
  LET l == extend_sign(u, Wider(u, v))
      r == extend_sign(v, Wider(u, v))
  IN  IF sign_bit(l) # sign_bit(r) THEN sign_bit(l) ELSE Less(l, r)

lt_signed(u, v) ==
  IF ~is_known(u) \/ ~is_known(v) THEN X
  ELSE IF LessSigned(u, v) THEN ONE ELSE ZERO

le_signed(u, v) ==
  IF ~is_known(u) \/ ~is_known(v) THEN X
  ELSE IF LessSigned(v, u) THEN ZERO ELSE ONE

log_and(u, v) ==
  IF is_zero(u) \/ is_zero(v) THEN ZERO
  ELSE IF is_true(u) /\ is_true(v) THEN ONE ELSE X

log_or(u, v) ==
  IF is_true(u) \/ is_true(v) THEN ONE
  ELSE IF ~is_known(u) \/ ~is_known(v) THEN X ELSE ZERO

log_not(u) == IF is_true(u) THEN ZERO ELSE IF is_zero(u) THEN ONE ELSE X

reduce_and(u) ==
  IF Zeros(u, u.width) # {} THEN ZERO ELSE IF u.b # {} THEN X ELSE ONE

reduce_or(u) ==
  IF Ones(u) # {} THEN ONE ELSE IF u.b # {} THEN X ELSE ZERO

reduce_xor(u) ==
  IF ~is_known(u) THEN X ELSE IF Cardinality(u.a) % 2 = 1 THEN ONE ELSE ZERO

-----------------------------------------------------------------------------
(* Selecting, joining and shifting bits *)

Up(S, n) == {i + n : i \in S}
Down(S, n) == {i - n : i \in S}

\* {u, v}: v has the low bits.
concat(u, v) ==
  from_chunks(u.width + v.width, v.a \cup Up(u.a, v.width),
              v.b \cup Up(u.b, v.width))

\* Out of range is Err, which every caller turns into X.
part_select(u, left, right) ==
  IF left >= u.width \/ left < right THEN x_of_width(left - right + 1)
  ELSE from_chunks(left - right + 1, Down(u.a, right), Down(u.b, right))

bit_select(u, idx) == IF idx >= u.width THEN X ELSE part_select(u, idx, idx)

\* Deviant: the old bits of the range are not cleared.
Deviant_insert_bits(u, lo, sel_w, v) ==
  LET put(S) == Up(S \cap Bits(sel_w), lo)
  IN  from_chunks(u.width, u.a \cup put(v.a), u.b \cup put(v.b))

\* sel_w bits of u from lo on are replaced by v; bits outside u are ignored.
insert_bits(u, lo, sel_w, v) ==
  LET kept == Bits(u.width) \ (lo..(lo + sel_w - 1))
      put(S) == Up(S \cap Bits(sel_w), lo)
  IN  from_chunks(u.width, (u.a \cap kept) \cup put(v.a),
                  (u.b \cap kept) \cup put(v.b))

\* The shifts, for a shift by n places or by an unknown number of them.
shl(u, known, n) ==
  IF ~known THEN x_of_width(u.width)
  ELSE from_chunks(u.width, Up(u.a, n), Up(u.b, n))

shr(u, known, n) ==
  IF ~known THEN x_of_width(u.width)
  ELSE from_chunks(u.width, Down(u.a, n), Down(u.b, n))

\* Deviant: an unknown sign bit fills with known bits.
Deviant_ashr(u, known, n) ==
  LET fill(S) == IF (u.width - 1) \in S
                 THEN Bits(u.width) \ Bits(u.width - n) ELSE {}
  IN  IF ~known THEN x_of_width(u.width)
      ELSE from_chunks(u.width, Down(u.a, n) \cup fill(u.a), Down(u.b, n))

\* The sign bit fills, in both planes.
ashr(u, known, n) ==
  LET fill(S) == IF (u.width - 1) \in S
                 THEN Bits(u.width) \ Bits(u.width - n) ELSE {}
  IN  IF ~known THEN x_of_width(u.width)
      ELSE from_chunks(u.width, Down(u.a, n) \cup fill(u.a),
                       Down(u.b, n) \cup fill(u.b))

-----------------------------------------------------------------------------
(* Resolution of the drivers of a net *)

resolve(u, v) ==
  LET equal == Bits(Wider(u, v)) \ (Xor(u.a, v.a) \cup Xor(u.b, v.b))
      conflict == ((Bits(Wider(u, v)) \ Zs(u)) \ Zs(v)) \ equal
  IN  from_chunks(Wider(u, v),
                  (Zs(u) \cap v.a) \cup (u.a \ Zs(u)) \cup conflict,
                  (Zs(u) \cap v.b) \cup (u.b \ Zs(u)) \cup conflict)

resolve_dominant(u, v, one_dominates) ==
  LET w == Wider(u, v)
      known == (Bits(w) \ Zs(u)) \ Zs(v)
      dom == IF one_dominates THEN Ones(u) \cup Ones(v)
                              ELSE Zeros(u, w) \cup Zeros(v, w)
      xx == (Xs(u) \cup Xs(v)) \ dom
      ka == IF one_dominates THEN dom \cup xx ELSE Bits(w) \ dom
  IN  from_chunks(w,
        (Zs(u) \cap v.a) \cup ((u.a \cap Zs(v)) \ Zs(u)) \cup (known \cap ka),
        (Zs(u) \cap v.b) \cup ((u.b \cap Zs(v)) \ Zs(u)) \cup (known \cap xx))

resolve_wand(u, v) == resolve_dominant(u, v, FALSE)
resolve_wor(u, v) == resolve_dominant(u, v, TRUE)

\* The Z bits among the w bits from lo on become `one`.
pull_z_range(u, lo, w, one) ==
  LET z == Zs(u) \cap (lo..(lo + w - 1))
  IN  from_chunks(u.width, IF one THEN u.a \cup z ELSE u.a, u.b \ z)

\* A driver is a record [val, s0, s1]: its value and its strengths (0..7).
Levels == 1..7

Drives0(D, l, i, x_as_one) ==
  \E d \in D : d.s0 = l /\ (i \notin d.val.a \cup d.val.b
                            \/ (i \in Xs(d.val) /\ ~x_as_one))
Drives1(D, l, i, x_as_one) ==
  \E d \in D : d.s1 = l /\ (i \in Ones(d.val)
                            \/ (i \in Xs(d.val) /\ x_as_one))

\* The loop over the levels decides bit i at level l.
DecidedAt(D, l, i, x_as_one) ==
  /\ Drives0(D, l, i, x_as_one) \/ Drives1(D, l, i, x_as_one)
  /\ \A m \in (l + 1)..7 :
       ~Drives0(D, m, i, x_as_one) /\ ~Drives1(D, m, i, x_as_one)

resolve_strength_with_x(w, D, x_as_one) ==
  [width |-> w,
   a |-> {i \in Bits(w) : \E l \in Levels :
            DecidedAt(D, l, i, x_as_one) /\ Drives1(D, l, i, x_as_one)},
   b |-> {i \in Bits(w) : \A l \in Levels :
            DecidedAt(D, l, i, x_as_one) =>
              Drives0(D, l, i, x_as_one) /\ Drives1(D, l, i, x_as_one)}]

resolve_strength(w, D) ==
  merge_unknown(resolve_strength_with_x(w, D, FALSE),
                resolve_strength_with_x(w, D, TRUE))
=============================================================================
