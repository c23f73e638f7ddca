------------------------- MODULE FrontendProperties -------------------------
(***************************************************************************)
(* What the frontend must make of the text it is given: expressions grouped    *)
(* and literals read as IEEE 1364-2001 has it, declarations of the widths that   *)
(* their ranges say, and gates that follow their tables.                       *)
(*                                                                         *)
(* The references read the text in another way than the code: a chain of        *)
(* operators is split at the operator that binds least instead of pushed on        *)
(* stacks, a literal is a sum of its digits instead of words with carries, and a    *)
(* range is computed from the left.                                           *)
(***************************************************************************)
EXTENDS ElaborateProperties, Frontend

LOCAL INSTANCE SequencesExt

\* Every file has been lowered and the elaboration has not begun.
IsLowered == phase = "lowering" /\ todo = <<>>

\* The modules of the source, of those with one name the last.
Modules == FoldLeft(LAMBDA all, file : all \o file[2], <<>>, source.files)
SourceModules ==
  {Modules[k] : k \in {j \in 1..Len(Modules) :
                         \A i \in (j + 1)..Len(Modules) : Modules[i].name # Modules[j].name}}

ItemsOfKind(m, kind) ==
  {m.items[k] : k \in {j \in 1..Len(m.items) : m.items[j][1] = kind}}

-----------------------------------------------------------------------------
(* Literals: section 2.5.1 *)

\* The digits of a number without the underscores.
DigitsOf(n) == SelectSeq(n.digits, LAMBDA d : d # Underscore)

RECURSIVE SumOfDigits(_, _)
SumOfDigits(digits, base) ==
  IF digits = <<>> THEN 0
  ELSE SumOfDigits(SubSeq(digits, 1, Len(digits) - 1), base) * base + digits[Len(digits)]

\* The number with zeros for its x and z digits, ones in place of the digits of a
\* kind, and the bits that a literal of this width has beyond its first digit.
Instead(digits, d, base) ==
  SumOfDigits(Listed([k \in 1..Len(digits) |-> IF digits[k] = d THEN base - 1 ELSE 0]), base)
Known(digits) ==
  Listed([k \in 1..Len(digits) |-> IF digits[k] \in {XDigit, ZDigit} THEN 0 ELSE digits[k]])

\* x and z fill the rest of the width, and all of it in a decimal.
FilledWith(digits, d, base, w) ==
  IF Len(digits) = 0 \/ digits[1] # d THEN {}
  ELSE IF base = 10 THEN 0..(w - 1)
  ELSE {p \in 0..(w - 1) : base^Len(digits) <= 2^p}

LiteralOf(digits, base, w) ==
  LET bits(v) == {p \in 0..(w - 1) : Digit(v, p)}
      of(d) == FilledWith(digits, d, base, w)
                 \cup IF base = 10 THEN {} ELSE bits(Instead(digits, d, base))
  IN  [width |-> w, a |-> bits(SumOfDigits(Known(digits), base)) \cup of(XDigit),
       b |-> of(XDigit) \cup of(ZDigit)]

\* A plain number is a signed integer.
NumberMeans(n) ==
  IF n.base = 0 THEN <<"SignedConst", LiteralOf(DigitsOf(n), 10, IntWidth)>>
  ELSE <<IF n.signed THEN "SignedConst" ELSE "Const",
         LiteralOf(DigitsOf(n), n.base, IF n.size = <<>> THEN IntWidth ELSE n.size[1])>>

-----------------------------------------------------------------------------
(* Expressions: section 4.1.2, table 4-4 *)

\* The operators from those that bind least.
Priorities ==
  <<{"||"}, {"&&"}, {"|"}, {"^", "^~", "~^"}, {"&"}, {"==", "!=", "===", "!=="},
    {"<", "<=", ">", ">="}, {"<<", ">>", "<<<", ">>>"}, {"+", "-"}, {"*", "/", "%"}>>

\* What is between the operators, in the order of the text.
RECURSIVE TextOf(_)
TextOf(e) ==
  CASE e[1] = "Binary" -> TextOf(e[2]) \o <<<<"op", e[3]>>>> \o TextOf(e[4])
    [] e[1] = "Conditional" -> TextOf(e[2]) \o <<<<"?", e[3], e[4]>>>>
    [] OTHER -> <<<<"operand", e>>>>

RECURSIVE Grouped(_)
ExprMeans(e) == Grouped(TextOf(e))

PartMeans(e) ==
  LET part == e[4]
  IN  IF part[1] = "Range" THEN <<"PartSel", e[2], ExprMeans(part[2]), ExprMeans(part[3])>>
      ELSE <<"IndexedPartSel", e[2], ExprMeans(part[2]), ExprMeans(part[3]), part[4]>>

RECURSIVE OperandMeans(_)
OperandMeans(e) ==
  CASE e[1] = "Number" -> NumberMeans(e[2])
    [] e[1] = "Unary" -> <<"Un", UnaryOps[e[2]], OperandMeans(e[3])>>
    [] e[1] = "Paren" -> ExprMeans(e[2][1])
    [] e[1] = "Concat" -> <<"Concat", [k \in 1..Len(e[2]) |-> ExprMeans(e[2][k])]>>
    [] e[1] = "Call" -> <<"Call", e[2], [k \in 1..Len(e[3]) |-> ExprMeans(e[3][k])]>>
    [] e[1] = "System" ->
         <<IF e[2] = "$signed" THEN "Signed" ELSE "Unsigned", ExprMeans(e[3][1])>>
    [] e[1] = "Name" ->
         IF e[3] # <<>> THEN <<"IndexSel", e[2], ExprMeans(e[3][1])>>
         ELSE IF e[4] # <<>> THEN PartMeans(e) ELSE <<"Net", e[2]>>

\* The positions of the operators of a level in a text.
OfLevel(text, l) == {k \in 1..Len(text) : text[k][1] = "op" /\ text[k][2] \in Priorities[l]}

\* The operator that is applied last is the last one of those that bind least, and
\* a conditional binds less than all of them.
SplitAt(text, k) ==
  <<"Bin", BinaryOps[text[k][2]], Grouped(SubSeq(text, 1, k - 1)),
           Grouped(SubSeq(text, k + 1, Len(text)))>>
Grouped(text) ==
  IF Last(text)[1] = "?"
  THEN <<"Cond", Grouped(Front(text)), ExprMeans(Last(text)[2]), ExprMeans(Last(text)[3])>>
  ELSE IF Len(text) = 1 THEN OperandMeans(text[1][2])
  ELSE SplitAt(text, Max(OfLevel(text,
                           Min({l \in 1..Len(Priorities) : OfLevel(text, l) # {}}))))

\* Every assignment of the module is one of hir, with its expression.
AssignsAgree(m, h) ==
  {<<lower_net_lvalue(p[1]), ExprMeans(p[2])>> :
      p \in UNION {{item[4][k] : k \in 1..Len(item[4])} : item \in ItemsOfKind(m, "Assign")}}
    \subseteq {<<h.assigns[k].lval, h.assigns[k].expr>> : k \in 1..Len(h.assigns)}
-----------------------------------------------------------------------------
(* Declarations *)

\* The value of a bound of a range with constants env, computed from the left.
RECURSIVE BoundMeans(_, _)
Clog2At(s) == Max({k \in 1..Len(s) : s[k] = <<"$clog2(">>})
TermMeans(env, s) ==
  IF Last(s) = <<")">> THEN clog2(BoundMeans(env, SubSeq(s, Clog2At(s) + 1, Len(s) - 1)))
  ELSE IF Last(s)[1] = "name" THEN env[Last(s)[2]] ELSE DecimalOf(Last(s)[2].digits)
BoundMeans(env, s) ==
  LET start == IF Last(s) = <<")">> THEN Clog2At(s) ELSE Len(s)
      before == BoundMeans(env, SubSeq(s, 1, start - 2))
      term == TermMeans(env, s)
  IN  IF start = 1 THEN term
      ELSE IF s[start - 1] = <<"-">> THEN before - term ELSE before + term

SpanOf(env, upper, lower) == BoundMeans(env, upper) - BoundMeans(env, lower) + 1
WidthMeans(env, dims) == IF dims = <<>> THEN 1 ELSE SpanOf(env, dims[1][1], dims[1][2])

\* The constants of a module with the values that its declarations give them.
ConstantsOf(h) == Consts(ParamsOf(ParamsOf(Outside, h.params, NoEntries), h.locals, NoEntries))

\* The declarations <<name, width>> of the source, and the depths of its memories.
WidthsDeclared(env, m) ==
  {<<p.name, IF p.form = "Paren" THEN 1 ELSE WidthMeans(env, p.dims)>> :
      p \in IF m.style = "ansi" THEN {m.ports[k] : k \in 1..Len(m.ports)} ELSE {}}
    \cup UNION {{<<item[7][k], WidthMeans(env, item[6])>> : k \in 1..Len(item[7])} :
                  item \in ItemsOfKind(m, "PortDecl")}
    \cup UNION {{<<item[7][k][1], WidthMeans(env, item[5])>> : k \in 1..Len(item[7])} :
                  item \in ItemsOfKind(m, "NetDecl")}
    \cup UNION {{<<item[5][k][1], IF item[2] = "integer" THEN IntWidth
                                  ELSE WidthMeans(env, item[4])>> : k \in 1..Len(item[5])} :
                  item \in ItemsOfKind(m, "DataDecl")}
DepthsDeclared(env, m) ==
  UNION {{<<n[1], SpanOf(env, n[2][1][2], n[2][1][1])>> :
            n \in {item[5][k] : k \in {j \in 1..Len(item[5]) : item[5][j][2] # <<>>}}} :
           item \in ItemsOfKind(m, "DataDecl")}

WidthsIn(env, decls) ==
  {<<decls[k].name, EvalConst(env, decls[k].width_expr)[1]>> : k \in 1..Len(decls)}
ValuesIn(env, mems, value(_)) ==
  {<<mems[k].name, EvalConst(env, value(mems[k]))[1]>> : k \in 1..Len(mems)}

DeclarationsAgree(m, h) ==
  \A env \in {ConstantsOf(h)} :
    /\ WidthsDeclared(env, m) =
         WidthsIn(env, h.ports \o h.nets \o h.regs)
           \cup ValuesIn(env, h.mems, LAMBDA mem : mem.elem_width)
    /\ DepthsDeclared(env, m) = ValuesIn(env, h.mems, LAMBDA mem : mem.depth)

\* The frontend gives the elaboration the module that the text says: every
\* expression of an assignment is grouped by the priorities of its operators,
\* those of one priority from the left, every literal has the bits of its digits,
\* x and z and the bits beyond the first digit included, and every declaration
\* has the width, and every memory the depth, of its range.
HirMeansSyntax ==
  IsLowered =>
    \A m \in SourceModules :
      /\ AssignsAgree(m, design.modules[m.name])
      /\ DeclarationsAgree(m, design.modules[m.name])

-----------------------------------------------------------------------------
(* Gates: section 7 *)

Logic4 == {"0", "1", "x", "z"}
BitOf(v) == CASE v = "0" -> ZERO [] v = "1" -> ONE [] v = "x" -> X [] v = "z" -> Z

Negated(v) == CASE v = "0" -> "1" [] v = "1" -> "0" [] OTHER -> "x"

\* Gates with any number of inputs: a value that decides alone, else all must be
\* the other one; an odd number of ones.
ValuesOf(vs) == {vs[k] : k \in 1..Len(vs)}
Deciding(vs, v) ==
  IF v \in ValuesOf(vs) THEN v
  ELSE IF ValuesOf(vs) = {Negated(v)} THEN Negated(v) ELSE "x"
Parity(vs) ==
  IF ~(ValuesOf(vs) \subseteq {"0", "1"}) THEN "x"
  ELSE IF Cardinality({k \in 1..Len(vs) : vs[k] = "1"}) % 2 = 1 THEN "1" ELSE "0"

\* A switch with a control that conducts at on: it is x whether a known value
\* passes when the control is not known.
Through(data, control, on) ==
  IF control = on THEN data
  ELSE IF control = Negated(on) \/ data = "z" THEN "z" ELSE "x"

\* The output of a gate whose inputs have the values vs.
TableOfGate(kind, vs) ==
  CASE kind = "and" -> Deciding(vs, "0")
    [] kind = "nand" -> Negated(Deciding(vs, "0"))
    [] kind = "or" -> Deciding(vs, "1")
    [] kind = "nor" -> Negated(Deciding(vs, "1"))
    [] kind = "xor" -> Parity(vs)
    [] kind = "xnor" -> Negated(Parity(vs))
    [] kind = "buf" -> Negated(Negated(vs[1]))
    [] kind = "not" -> Negated(vs[1])
    [] kind = "bufif0" -> Through(Negated(Negated(vs[1])), vs[2], "0")
    [] kind = "bufif1" -> Through(Negated(Negated(vs[1])), vs[2], "1")
    [] kind = "notif0" -> Through(Negated(vs[1]), vs[2], "0")
    [] kind = "notif1" -> Through(Negated(vs[1]), vs[2], "1")
    [] kind \in {"nmos", "rnmos"} -> Through(vs[1], vs[2], "1")
    [] kind \in {"pmos", "rpmos"} -> Through(vs[1], vs[2], "0")

\* What the code is known to get wrong: a buf lets z through.
Excluded(kind, vs) == kind = "buf" /\ vs[1] = "z"

OutputsOf(t) == {lower_net_lvalue(t[1][k]) : k \in 1..Len(t[1])} \ {Unsupported}

\* The gates with tables, of names; what is not supported is left out by the code.
HasTable(kind) ==
  kind \in UNION {DOMAIN NInputOps, {"buf", "not", "bufif0", "bufif1", "notif0", "notif1",
                                     "nmos", "rnmos", "pmos", "rpmos"}}
OfNames(t) == \A k \in 1..Len(t[2]) : t[2][k][1] = "Name"

\* A design of one net for each name, and where the names are.
NetsFor(names) == [nets |-> Listed([k \in 1..Len(names) |-> [width |-> 1, signed |-> FALSE]])]
InputsFor(names) ==
  [Outside EXCEPT !.names = [n \in ValuesOf(names) |->
                               <<"net", Max({k \in 1..Len(names) : names[k] = n})>>]]

\* An assignment of the module with the meaning of a gate.
DrivesLike(kind, names, d) ==
  \A vs \in [1..Len(names) -> Logic4] :
    \/ Excluded(kind, vs) \/ \E j, k \in 1..Len(names) : names[j] = names[k] /\ vs[j] # vs[k]
    \/ Alone(NetsFor(names), InputsFor(names),
             [nets |-> Listed([k \in 1..Len(vs) |-> BitOf(vs[k])]), mems |-> NoEntries,
              nba |-> <<>>], d.expr)
         = BitOf(TableOfGate(kind, vs))

\* Gates become assignments that give every combination of 0, 1, x and z on
\* their inputs the output of the table, with the strength of the gate.
GatesFollowTheirTables ==
  IsLowered =>
    \A m \in SourceModules :
    \A item \in ItemsOfKind(m, "Gates") :
    \A k \in 1..Len(item[4]) :
    HasTable(item[2]) /\ OfNames(item[4][k]) =>
      \A lval \in OutputsOf(item[4][k]) :
        \E j \in 1..Len(design.modules[m.name].assigns) :
          LET d == design.modules[m.name].assigns[j]
          IN  /\ d.lval = lval /\ d.strength = opt_drive_strength(item[3])
              /\ DrivesLike(item[2], [i \in 1..Len(item[4][k][2]) |-> item[4][k][2][i][2]], d)
=============================================================================
