----------------------------- MODULE FrontExpr -----------------------------
(***************************************************************************)
(* Literals, ranges and expressions in crates/frontend/src/lower.rs: what      *)
(* lower_expression and its helpers make of the expressions of the source.     *)
(*                                                                         *)
(* The syntax tree comes from the external parser sv-parser.  Here it is a      *)
(* tuple <<kind, parts>>:                                                    *)
(*   <<"Number", n>>, n = [size, signed, base, digits], with base 0 for a plain  *)
(*     decimal and size <<>> when there is none                               *)
(*   <<"Name", x, indices, part>>, part <<>>, <<"Range", left, right>> or        *)
(*     <<"Indexed", base, width, up>>                                         *)
(*   <<"Concat", es>>, <<"Call", f, es>>, <<"System", f, es>>                   *)
(*   <<"Paren", es>>: one expression, or min, typ and max                       *)
(*   <<"Unary", op, e>>, <<"Binary", l, op, r>>, <<"Conditional", c, t, f>>      *)
(*   <<"Text", tokens>>: any other operand of a constant, read as a text         *)
(*   <<"Other">>: what the frontend does not know                              *)
(* The parser knows no priorities: the right operand of a Binary is all that     *)
(* follows the operator.  Replications, strings, $random and $time are left      *)
(* out.  The result is HIR as in module Lowering; what is returned as an error   *)
(* is Unsupported, somewhere in the result.                                    *)
(***************************************************************************)
EXTENDS Lowering, SequencesExt

Unsupported == <<"Unsupported">>
Int32(n) == OfNum(IntWidth, n)

-----------------------------------------------------------------------------
(* Literals: digits are 0..15, x, z and underscores *)

XDigit == 16
ZDigit == 17
Underscore == 18

\* acc * 10 + d in words, the lowest first; what does not fit is dropped.
TimesTen(acc, d) ==
  LET cur[k \in 1..Len(acc)] ==
        acc[k] * 10 + (IF k = 1 THEN d ELSE cur[k - 1] \div Words)
  IN  [k \in 1..Len(acc) |-> cur[k] % Words]

DecimalWords(digits, width) ==
  LET acc[k \in 0..Len(digits)] ==
        IF k = 0 THEN [c \in 1..((width + WordBits - 1) \div WordBits) |-> 0]
        ELSE TimesTen(acc[k - 1], digits[k])
  IN  acc[Len(digits)]

\* The bits of both planes that a digit has at position k.
DigitBit(d, k) ==
  IF d = XDigit THEN <<TRUE, TRUE>>
  ELSE IF d = ZDigit THEN <<FALSE, TRUE>> ELSE <<Digit(d, k), FALSE>>

\* The bit at position p of a literal with n bits for each digit.  The first
\* digit goes on to the left when it is x or z.
BasedBit(digits, n, p) ==
  LET j == Len(digits) - p \div n
  IN  IF j >= 1 THEN DigitBit(digits[j], p % n)
      ELSE IF digits # <<>> /\ digits[1] \in {XDigit, ZDigit}
      THEN DigitBit(digits[1], 0) ELSE <<FALSE, FALSE>>

BitsPerDigit(radix) == CASE radix = 2 -> 1 [] radix = 8 -> 3 [] radix = 16 -> 4

\* A decimal is x or z as a whole.
DecimalBit(digits, words, p) ==
  IF digits \in {<<XDigit>>, <<ZDigit>>} THEN DigitBit(digits[1], 0)
  ELSE <<Digit(words[p \div WordBits + 1], p % WordBits), FALSE>>

ValueOf(width, bits) ==
  [width |-> width, a |-> {p \in Bits(width) : bits[p][1]},
   b |-> {p \in Bits(width) : bits[p][2]}]
DecimalBits(digits, words, width) == [p \in Bits(width) |-> DecimalBit(digits, words, p)]

parse_based_digits(digits, radix, width) ==
  ValueOf(width, IF radix = 10 THEN DecimalBits(digits, DecimalWords(digits, width), width)
                 ELSE [p \in Bits(width) |-> BasedBit(digits, BitsPerDigit(radix), p)])

DecimalOf(digits) ==
  LET v[k \in 0..Len(digits)] == IF k = 0 THEN 0 ELSE v[k - 1] * 10 + digits[k]
  IN  v[Len(digits)]

\* A plain number that is read as a machine word: <<value>>, or <<>> when it does
\* not fit or has underscores.
PlainBelow(n, limit) ==
  IF n.base # 0 \/ (\E k \in 1..Len(n.digits) : n.digits[k] = Underscore) THEN <<>>
  ELSE SelectSeq(<<DecimalOf(n.digits)>>, LAMBDA v : v < limit)
PlainNumber(n) == PlainBelow(n, 2^(WordBits - 1))

\* <<value, signed>>
parse_number_text(n) ==
  IF n.base = 0 THEN <<Int32(OrElse(PlainNumber(n), 0)), TRUE>>
  ELSE <<parse_based_digits(SelectSeq(n.digits, LAMBDA d : d # Underscore), n.base,
                            OrElse(n.size, IntWidth)), n.signed>>

ConstantOf(r) == <<IF r[2] THEN "SignedConst" ELSE "Const", r[1]>>
lower_number(n) == ConstantOf(parse_number_text(n))

\* A constant whose text is read as one number, with a sign if it is plain; any
\* other text is 0.  (A text with a based number among others is left out.)
SignedText(e) ==
  IF e[1] # "Unary" \/ e[2] \notin {"+", "-"} \/ e[3][1] # "Number" THEN 0
  ELSE (IF e[2] = "-" THEN -1 ELSE 1) * OrElse(PlainNumber(e[3][2]), 0)
lower_const_expr(e) ==
  IF e[1] = "Number" THEN lower_number(e[2]) ELSE <<"SignedConst", Int32(SignedText(e))>>

-----------------------------------------------------------------------------
(* Ranges: texts, as the tokens <<"number", n>>, <<"name", x>>, <<"+">>, ...    *)

\* One plain number with or without a sign.
SignOf(s) == IF Len(s) = 1 THEN 1 ELSE IF s[1] = <<"-">> THEN -1 ELSE IF s[1] = <<"+">> THEN 1 ELSE 0
WholeNumber(s) ==
  LET times(n, sign) == IF n = <<>> \/ sign = 0 THEN <<>> ELSE <<sign * n[1]>>
  IN  IF Len(s) \notin {1, 2} \/ Last(s)[1] # "number" THEN <<>>
      ELSE times(PlainNumber(Last(s)[2]), SignOf(s))

At(s, token) == {k \in 1..Len(s) : s[k] = <<token>>}

\* Split at the last -, else at the first +, whatever stands between them.  A text
\* that is no name becomes the name of no net: "?".
RECURSIVE parse_simple_const_expr(_)
ParseText(s, whole, last, first) ==
  LET split(op, k) ==
        <<"Bin", op, parse_simple_const_expr(SubSeq(s, 1, k - 1)),
                     parse_simple_const_expr(SubSeq(s, k + 1, Len(s)))>>
  IN  IF whole # <<>> THEN <<"Const", Int32(whole[1])>>
      ELSE IF last > 1 /\ last < Len(s) THEN split("Sub", last)
      ELSE IF first \in 2..Len(s) THEN split("Add", first)
      ELSE IF s # <<>> /\ s[1] = <<"$clog2(">> /\ Last(s) = <<")">>
      THEN <<"Clog2", parse_simple_const_expr(SubSeq(s, 2, Len(s) - 1))>>
      ELSE IF Len(s) = 1 /\ s[1][1] = "number" /\ s[1][2].base # 0
      THEN lower_number(s[1][2])
      ELSE <<"Net", IF Len(s) = 1 /\ s[1][1] = "name" THEN s[1][2] ELSE "?">>
parse_simple_const_expr(s) ==
  ParseText(s, WholeNumber(s), Max(At(s, "-") \cup {0}), Min(At(s, "+") \cup {Len(s) + 1}))

\* (upper - lower) + 1
Spanning(upper, lower) ==
  <<"Bin", "Add", <<"Bin", "Sub", upper, lower>>, <<"Const", Int32(1)>>>>

\* <<literal width, width>> of the first of the packed dimensions <<msb, lsb>>.
WidthBetween(msb, lsb) ==
  <<IF msb[1] = "Const" THEN (Num(msb[2]) + 1) % 2^IntWidth ELSE 0, Spanning(msb, lsb)>>
packed_width_expr(dims) ==
  IF dims = <<>> THEN <<1, <<"Const", Int32(1)>>>>
  ELSE WidthBetween(parse_simple_const_expr(dims[1][1]), parse_simple_const_expr(dims[1][2]))

\* The depth that an unpacked dimension <<lo, hi>> gives to a memory.
extract_unpacked_dim_depth(dim) ==
  Spanning(parse_simple_const_expr(dim[2]), parse_simple_const_expr(dim[1]))

-----------------------------------------------------------------------------
(* Operators and their priorities *)

UnaryOps ==
  "+" :> "Pos" @@ "-" :> "Neg" @@ "!" :> "LogNot" @@ "~" :> "BitNot"
    @@ "&" :> "RedAnd" @@ "~&" :> "RedNand" @@ "|" :> "RedOr" @@ "~|" :> "RedNor"
    @@ "^" :> "RedXor" @@ "~^" :> "RedXnor" @@ "^~" :> "RedXnor"

BinaryOps ==
  "+" :> "Add" @@ "-" :> "Sub" @@ "*" :> "Mul" @@ "/" :> "Div" @@ "%" :> "Mod"
    @@ "&&" :> "LogAnd" @@ "||" :> "LogOr" @@ "&" :> "BitAnd" @@ "|" :> "BitOr"
    @@ "^" :> "BitXor" @@ "~&" :> "BitNand" @@ "~|" :> "BitNor" @@ "~^" :> "BitXnor"
    @@ "^~" :> "BitXnor" @@ "==" :> "Eq" @@ "!=" :> "Ne" @@ "===" :> "CaseEq"
    @@ "!==" :> "CaseNe" @@ "<" :> "Lt" @@ ">" :> "Gt" @@ "<=" :> "Le" @@ ">=" :> "Ge"
    @@ "<<" :> "Shl" @@ ">>" :> "Shr" @@ "<<<" :> "Ashl" @@ ">>>" :> "Ashr"

binop_precedence(op) ==
  CASE op \in {"Mul", "Div", "Mod"} -> 10
    [] op \in {"Add", "Sub"} -> 9
    [] op \in Shifts -> 8
    [] op \in {"Lt", "Le", "Gt", "Ge"} -> 7
    [] op \in {"Eq", "Ne", "CaseEq", "CaseNe"} -> 6
    [] op = "BitAnd" -> 5
    [] op \in {"BitXor", "BitXnor", "BitNand", "BitNor"} -> 4
    [] op = "BitOr" -> 3
    [] op = "LogAnd" -> 2
    [] op = "LogOr" -> 1

\* The operator on top of a stack [exprs, ops] is applied to the two operands on top.
Reduced(s) ==
  LET n == Len(s.exprs)
  IN  [exprs |-> Append(SubSeq(s.exprs, 1, n - 2),
                        <<"Bin", Last(s.ops), s.exprs[n - 1], s.exprs[n]>>),
       ops |-> Front(s.ops)]

\* Deviant: operators of one priority group from the right.
RECURSIVE DeviantUnwind(_, _)
DeviantUnwind(s, level) ==
  IF s.ops # <<>> /\ binop_precedence(Last(s.ops)) > level
  THEN DeviantUnwind(Reduced(s), level) ELSE s

\* Operators of at least this priority are applied: those of one priority group
\* from the left.
RECURSIVE Unwind(_, _)
Unwind(s, level) ==
  IF s.ops # <<>> /\ binop_precedence(Last(s.ops)) >= level
  THEN Unwind(Reduced(s), level) ELSE s

build_binop_tree(operands, ops) ==
  LET push(s, op, e) == [exprs |-> Append(s.exprs, e), ops |-> Append(s.ops, op)]
      read[k \in 0..Len(ops)] ==
        IF k = 0 THEN [exprs |-> <<operands[1]>>, ops |-> <<>>]
        ELSE push(Unwind(read[k - 1], binop_precedence(ops[k])), ops[k], operands[k + 1])
  IN  Head(Unwind(read[Len(ops)], 0).exprs)

-----------------------------------------------------------------------------
(* Expressions; constant is TRUE for the expressions of parameters and of       *)
(* generate constructs, where all operands are constants                       *)

\* The expressions of which a result consists.
RECURSIVE Refused(_)
Refused(e) ==
  LET any(es) == \E k \in 1..Len(es) : Refused(es[k])
  IN CASE e[1] = "Unsupported" -> TRUE
       [] e[1] = "Un" -> Refused(e[3])
       [] e[1] = "Bin" -> Refused(e[3]) \/ Refused(e[4])
       [] e[1] = "Cond" -> Refused(e[2]) \/ Refused(e[3]) \/ Refused(e[4])
       [] e[1] \in {"IndexSel", "IndexedPartSel", "IndexedPartSelect"} -> Refused(e[3])
       [] e[1] = "Concat" -> any(e[2])
       [] e[1] \in {"Signed", "Unsigned"} -> Refused(e[2])
       [] e[1] = "Call" -> any(e[3])
       [] OTHER -> FALSE

RECURSIVE Lower(_, _)

lower_expression(e) == Lower(e, FALSE)
lower_constant_expr(e) == Lower(e, TRUE)
LowerEach(es, constant) == Listed([k \in 1..Len(es) |-> Lower(es[k], constant)])

\* A name: only the first index counts, and a part only without one; at is the
\* index or the base of the part, low its right bound or its width.
SelectOf(range, indexed, e, at, low) ==
  IF e[3] # <<>> THEN <<"IndexSel", e[2], at>>
  ELSE IF e[4] = <<>> THEN <<"Net", e[2]>>
  ELSE IF e[4][1] = "Range" THEN <<range, e[2], lower_const_expr(e[4][2]), low>>
  ELSE <<indexed, e[2], at, low, e[4][4]>>
SelectIn(range, indexed, e) ==
  SelectOf(range, indexed, e, lower_expression(IF e[3] # <<>> THEN e[3][1] ELSE e[4][2]),
           lower_const_expr(e[4][3]))
LowerNameRef(e) == SelectIn("PartSel", "IndexedPartSel", e)

\* Arguments that are not supported are dropped.
collect_tf_call_args(es) ==
  SelectSeq(LowerEach(es, FALSE), LAMBDA e : ~Refused(e))

SystemCall(f, es) ==
  IF f \in {"$signed", "$unsigned"} /\ Len(es) = 1
  THEN <<IF f = "$signed" THEN "Signed" ELSE "Unsigned", lower_expression(es[1])>>
  ELSE Unsupported

\* min : typ : max becomes a conditional.
Mintypmax(es, constant) ==
  IF Len(es) = 1 THEN Lower(es[1], constant) ELSE <<"Cond">> \o LowerEach(es, constant)
lower_constant_mintypmax(es) == Mintypmax(es, TRUE)
lower_mintypmax(es) == Mintypmax(es, FALSE)

\* The two kinds of primaries have numbers in common.
lower_primary(e) ==
  CASE e[1] = "Name" -> LowerNameRef(e)
    [] e[1] = "Concat" -> <<"Concat", LowerEach(e[2], FALSE)>>
    [] e[1] = "Call" -> <<"Call", e[2], collect_tf_call_args(e[3])>>
    [] e[1] = "System" -> SystemCall(e[2], e[3])
    [] e[1] = "Paren" -> lower_expression(e[2][1])
    [] e[1] \in {"Text", "Other"} -> Unsupported

lower_constant_primary(e) ==
  CASE e[1] = "Name" -> <<"Net", e[2]>>
    [] e[1] = "Paren" -> lower_constant_mintypmax(e[2])
    [] e[1] = "Text" -> parse_simple_const_expr(e[2])
    [] e[1] = "Other" -> Unsupported

\* A chain of operators as [operands, ops, tail]; the tail has what follows the ?
\* of a conditional that ends the chain.
RECURSIVE flatten_binary_chain(_, _)
Joint(l, op, r) ==
  [operands |-> l.operands \o r.operands, ops |-> l.ops \o <<op>> \o r.ops,
   tail |-> IF l.tail # <<>> THEN <<Unsupported, Unsupported>> ELSE r.tail]
flatten_binary_chain(e, constant) ==
  CASE e[1] = "Binary" ->
         Joint(flatten_binary_chain(e[2], constant), e[3],
               flatten_binary_chain(e[4], constant))
    [] e[1] = "Conditional" ->
         [operands |-> <<Lower(e[2], constant)>>, ops |-> <<>>,
          tail |-> <<Lower(e[3], constant), Lower(e[4], constant)>>]
    [] OTHER -> [operands |-> <<Lower(e, constant)>>, ops |-> <<>>, tail |-> <<>>]

\* The operand before the ? is no condition by itself: the whole chain is.
Rebuilt(chain) ==
  LET with(combined) ==
        IF chain.tail = <<>> THEN combined
        ELSE <<"Cond", combined, chain.tail[1], chain.tail[2]>>
  IN  IF \E k \in 1..Len(chain.ops) : chain.ops[k] \notin DOMAIN BinaryOps
      THEN Unsupported
      ELSE with(build_binop_tree(chain.operands,
                  Listed([k \in 1..Len(chain.ops) |-> BinaryOps[chain.ops[k]]])))

\* The operand of a unary operator is a primary.
Lower(e, constant) ==
  CASE e[1] = "Unary" ->
         IF e[2] \in DOMAIN UnaryOps
         THEN <<"Un", UnaryOps[e[2]], Lower(e[3], constant)>> ELSE Unsupported
    [] e[1] = "Binary" -> Rebuilt(flatten_binary_chain(e, constant))
    [] e[1] = "Conditional" ->
         <<"Cond", Lower(e[2], constant), Lower(e[3], constant), Lower(e[4], constant)>>
    [] e[1] = "Number" -> lower_number(e[2])
    [] OTHER -> IF constant THEN lower_constant_primary(e) ELSE lower_primary(e)
=============================================================================
