------------------------ MODULE LogicVecProperties ------------------------
(***************************************************************************)
(* What the operators of LogicVec promise.  The behaviours are those of two *)
(* operands whose unknown bits become known one at a time, as the nets of a *)
(* design do when its reset and its first assignments take effect.         *)
(***************************************************************************)
EXTENDS LogicVec

CONSTANTS
  Widths,    \* the widths of the operands
  Distances  \* the shift distances and bit positions that are tried

ASSUME LogicVecAssumption == Widths \subseteq Nat \ {0} /\ Distances \subseteq Nat

VARIABLES u, v

vars == <<u, v>>

Vecs == UNION {Vec(w) : w \in Widths}

Init == u \in Vecs /\ v \in Vecs

\* Bit i of x becomes a known bit: ones is {i} or empty.
Learned(x, i, ones) ==
  [width |-> x.width, a |-> (x.a \ {i}) \cup ones, b |-> x.b \ {i}]

LearnLeft ==
  \E i \in u.b : \E ones \in SUBSET {i} : u' = Learned(u, i, ones) /\ v' = v
LearnRight ==
  \E i \in v.b : \E ones \in SUBSET {i} : v' = Learned(v, i, ones) /\ u' = u

Next == LearnLeft \/ LearnRight

Spec == Init /\ [][Next]_vars

-----------------------------------------------------------------------------
(* The results of all operators *)

\* Operators that look at single bits.
Bitwise_results(x, y) ==
  [and |-> BitAnd(x, y), or |-> BitOr(x, y), xor |-> BitXor(x, y),
   not |-> Not(x), eq |-> eq(x, y), ne |-> ne(x, y),
   log_and |-> log_and(x, y), log_or |-> log_or(x, y),
   log_not |-> log_not(x),
   reduce_and |-> reduce_and(x), reduce_or |-> reduce_or(x)]

\* Operators that give X as soon as an operand has an unknown bit.
Numeric_results(x, y) ==
  [lt |-> lt(x, y), le |-> le(x, y), lt_signed |-> lt_signed(x, y),
   le_signed |-> le_signed(x, y), reduce_xor |-> reduce_xor(x)]

\* Operators that move bits; n is a known distance.
Move_results(x, y, n) ==
  [concat |-> concat(x, y), resize |-> resize(x, n + 1),
   shl |-> shl(x, TRUE, n), shr |-> shr(x, TRUE, n), ashr |-> ashr(x, TRUE, n),
   part_select |-> part_select(x, n, 0), bit_select |-> bit_select(x, n),
   insert_bits |-> insert_bits(x, n, y.width, y)]

\* Conditionals, brought to width n + 1 as the place that uses them does.
Choice_results(x, y, n) ==
  [merge |-> merge_unknown(x, y),
   cond |-> resize(Cond(x, y, x_of_width(n + 1)), n + 1),
   cond_t |-> resize(Cond(y, x, all_bits(n + 1, TRUE)), n + 1),
   cond_f |-> resize(Cond(y, all_bits(n + 1, FALSE), x), n + 1)]

\* Resolution of two drivers.
Net_results(x, y) ==
  [wire |-> resolve(x, y), wand |-> resolve_wand(x, y),
   wor |-> resolve_wor(x, y)]

\* Every bit that r knows, s has the same; s may know more.
Covers(r, s) ==
  /\ s.width = r.width
  /\ s.b \subseteq r.b
  /\ s.a \ r.b = r.a \ r.b

CoversAll(R, S) == \A o \in DOMAIN R : Covers(R[o], S[o])

-----------------------------------------------------------------------------
(* Properties *)

IsVec(x) == x \in Vec(x.width)

\* Type invariant: operands and results have no bit beyond their width, which is
\* that of the wider operand for the bitwise operators and one for the others
\* (chunks are masked on the way out).
TypeOK ==
  /\ u \in Vecs /\ v \in Vecs
  /\ \A o \in {"and", "or", "xor"} :
       Bitwise_results(u, v)[o] \in Vec(Wider(u, v))
  /\ Not(u) \in Vec(u.width)
  /\ \A o \in DOMAIN Bitwise_results(u, v) \ {"and", "or", "xor", "not"} :
       Bitwise_results(u, v)[o] \in Vec(1)
  /\ \A o \in DOMAIN Numeric_results(u, v) :
       Numeric_results(u, v)[o] \in Vec(1)
  /\ \A n \in Distances :
       /\ \A o \in DOMAIN Move_results(u, v, n) : IsVec(Move_results(u, v, n)[o])
       /\ \A o \in DOMAIN Choice_results(u, v, n) : IsVec(Choice_results(u, v, n)[o])
  /\ \A o \in DOMAIN Net_results(u, v) :
       Net_results(u, v)[o] \in Vec(Wider(u, v))

\* Results are pessimistic: when an operand's unknown bit becomes known, no
\* bit of a result that was known changes (an X never stands for a value the
\* code has already relied on).  For a net, an unknown bit is an X: a Z that
\* becomes known is a driver that starts to drive.
KnownStaysKnown ==
  [][/\ CoversAll(Bitwise_results(u, v), Bitwise_results(u', v'))
     /\ CoversAll(Numeric_results(u, v), Numeric_results(u', v'))
     /\ \A n \in Distances :
          /\ CoversAll(Move_results(u, v, n), Move_results(u', v', n))
          /\ CoversAll(Choice_results(u, v, n), Choice_results(u', v', n))
     /\ Zs(u) = Zs(u') /\ Zs(v) = Zs(v') =>
          CoversAll(Net_results(u, v), Net_results(u', v'))]_vars

\* The known values that x may stand for.
Completions(x) ==
  {[width |-> x.width, a |-> Ones(x) \cup S, b |-> {}] : S \in SUBSET x.b}

\* Nor are they more pessimistic than they must be: a bit of a bitwise or
\* logical result is unknown only if both values are possible.
NoNeedlessX ==
  LET R == Bitwise_results(u, v)
      all == {Bitwise_results(x, y) : x \in Completions(u), y \in Completions(v)}
  IN  \A o \in DOMAIN R : \A i \in R[o].b :
        /\ \E r \in all : i \in r[o].a
        /\ \E r \in all : i \notin r[o].a

\* The four comparisons agree: === implies casez implies casex, == is 1 exactly
\* when the operands are known and ===, and == and casex are 0 together.
ComparisonsAgree ==
  /\ case_eq(u, v) = ONE => casez_eq(u, v) = ONE
  /\ casez_eq(u, v) = ONE => casex_eq(u, v) = ONE
  /\ eq(u, v) = ONE <=> case_eq(u, v) = ONE /\ is_known(u) /\ is_known(v)
  /\ eq(u, v) = ZERO <=> casex_eq(u, v) = ZERO

\* 2^n.
Power[n \in Nat] == IF n = 0 THEN 1 ELSE 2 * Power[n - 1]

\* The number a known vector stands for, unsigned and in two's complement.
Number(x) ==
  LET low[n \in Nat] ==  \* the number in its n lowest bits
        IF n = 0 THEN 0
        ELSE low[n - 1] + (IF (n - 1) \in x.a THEN Power[n - 1] ELSE 0)
  IN low[x.width]

Signed(x) == Number(x) - (IF sign_bit(x) THEN Power[x.width] ELSE 0)

Truth(p) == IF p THEN ONE ELSE ZERO

\* On known operands the operators are those of arithmetic: comparisons of the
\* numbers, multiplication and division by powers of two, remainders.
KnownIsArithmetic ==
  is_known(u) /\ is_known(v) =>
    LET m == Number(u)
        n == Number(v)
    IN  /\ lt(u, v) = Truth(m < n) /\ le(u, v) = Truth(m <= n)
        /\ lt_signed(u, v) = Truth(Signed(u) < Signed(v))
        /\ le_signed(u, v) = Truth(Signed(u) <= Signed(v))
        /\ eq(u, v) = Truth(m = n) /\ log_and(u, v) = Truth(m > 0 /\ n > 0)
        /\ Number(concat(u, v)) = m * Power[v.width] + n
        /\ Number(Not(u)) = Power[u.width] - 1 - m
        /\ Number(BitAnd(u, v)) + Number(BitOr(u, v)) = m + n
        /\ \A k \in Distances :
             /\ Number(shl(u, TRUE, k)) = (m * Power[k]) % Power[u.width]
             /\ Number(shr(u, TRUE, k)) = m \div Power[k]
             /\ Signed(ashr(u, TRUE, k)) = Signed(u) \div Power[k]
             /\ k < u.width =>
                  Number(part_select(u, u.width - 1, k)) = m \div Power[k]
             /\ Signed(u) = Signed(extend_sign(u, u.width + k))

\* What is written into a range is read back from it, for the bits that exist,
\* and the other bits are as they were.
WriteThenRead ==
  \A lo \in Distances :
    LET w == insert_bits(u, lo, v.width, v)
    IN  /\ \A i \in Bits(u.width) :
             bit_select(w, i) =
               bit_select(IF i >= lo /\ i < lo + v.width THEN v ELSE u,
                          IF i >= lo /\ i < lo + v.width THEN i - lo ELSE i)
        /\ part_select(concat(u, v), v.width - 1, 0) = v
        /\ part_select(concat(u, v), u.width + v.width - 1, v.width) = u
=============================================================================
