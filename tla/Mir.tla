-------------------------------- MODULE Mir --------------------------------
(***************************************************************************)
(* Expressions of the elaborated design (crates/mir/src/ir.rs), their        *)
(* signedness and the widths at which they are evaluated, as crates/elab/    *)
(* src/elaborate.rs determines them.                                       *)
(*                                                                         *)
(* An expression is a tuple <<constructor, signed, operands>>: the entry of  *)
(* the arena with the entry of expr_signed beside it, and in place of the id  *)
(* of an operand the operand.  "Bin" and "Un" end in their entry of           *)
(* expr_ctx_width, 0 for None.  An lvalue is <<constructor, operands>>.      *)
(* d is a design: d.nets and d.mems give the widths, d.nets the signedness.  *)
(* Strings, times, random numbers and $fopen are leaves without a meaning    *)
(* here and are left out.                                                  *)
(***************************************************************************)
EXTENDS LogicVec, Sequences

Arithmetic == {"Add", "Sub", "Mul", "Div", "Mod", "BitAnd", "BitOr", "BitXor",
               "BitNand", "BitNor", "BitXnor"}
Shifts == {"Shl", "Shr", "Ashl", "Ashr"}
Comparisons == {"Eq", "Ne", "CaseEq", "CaseNe", "Lt", "Gt", "Le", "Ge"}
Logical == {"LogAnd", "LogOr"}
KeepsWidth == {"Pos", "Neg", "BitNot"}

Maximum(m, n) == IF m >= n THEN m ELSE n

\* The sequence s with its elements as values: TLC evaluates the body of
\* [k \in 1..n |-> e] anew whenever the function is applied.
Listed(s) == s \o <<>>

\* The sum of f[1] .. f[n].
RECURSIVE SumTo(_, _)
SumTo(n, f) == IF n = 0 THEN 0 ELSE SumTo(n - 1, f) + f[n]

-----------------------------------------------------------------------------
(* Signedness *)

IsSigned(e) == e[2]

\* compute_expr_signed: from the operands, which have theirs already.
compute_expr_signed(d, e) ==
  CASE e[1] = "Net" -> d.nets[e[3]].signed
    [] e[1] = "CallResult" -> d.nets[e[4]].signed
    [] e[1] = "Bin" /\ e[3] \in Arithmetic -> IsSigned(e[4]) /\ IsSigned(e[5])
    [] e[1] = "Bin" /\ e[3] \in Shifts -> IsSigned(e[4])
    [] e[1] = "Un" /\ e[3] \in KeepsWidth -> IsSigned(e[4])
    [] e[1] = "Cond" -> IsSigned(e[4]) /\ IsSigned(e[5])
    [] OTHER -> FALSE

alloc_expr_signed(e, signed) == [e EXCEPT ![2] = signed]
alloc_expr(d, e) == alloc_expr_signed(e, compute_expr_signed(d, e))

-----------------------------------------------------------------------------
(* Widths *)

RECURSIVE lvalue_width(_, _)
lvalue_width(d, lv) ==
  CASE lv[1] = "Net" -> d.nets[lv[2]].width
    [] lv[1] = "DynBitSelect" -> 1
    [] lv[1] = "PartSelect" -> lv[3] - lv[4] + 1
    [] lv[1] = "DynPartSelect" -> lv[4]
    [] lv[1] = "MemWrite" -> d.mems[lv[2]].elem_width
    [] lv[1] = "Concat" ->
         SumTo(Len(lv[2]), [k \in 1..Len(lv[2]) |-> lvalue_width(d, lv[2][k])])

\* The width that an expression has by itself.
RECURSIVE self_width(_, _)
self_width(d, e) ==
  CASE e[1] = "Const" -> e[3].width
    [] e[1] = "Net" -> d.nets[e[3]].width
    [] e[1] = "BitSel" -> 1
    [] e[1] = "PartSel" -> e[4] - e[5] + 1
    [] e[1] = "DynPartSel" -> e[5]
    [] e[1] = "Concat" ->
         SumTo(Len(e[3]), [k \in 1..Len(e[3]) |-> self_width(d, e[3][k])])
    [] e[1] = "Repeat" -> e[3] * self_width(d, e[4])
    [] e[1] = "Bin" /\ e[3] \in Arithmetic ->
         Maximum(self_width(d, e[4]), self_width(d, e[5]))
    [] e[1] = "Bin" /\ e[3] \in Shifts -> self_width(d, e[4])
    [] e[1] = "Un" /\ e[3] \in KeepsWidth -> self_width(d, e[4])
    [] e[1] = "Cond" -> Maximum(self_width(d, e[4]), self_width(d, e[5]))
    [] e[1] = "MemRead" -> d.mems[e[3]].elem_width
    [] e[1] = "CallResult" -> d.nets[e[4]].width
    [] e[1] = "Empty" -> 0
    [] OTHER -> 1

\* The width of the context, ctx_w, is carried down to the operands that are
\* determined by it; the operators among them record it.
RECURSIVE walk_ctx_width(_, _, _)

\* eff is the width of e in its context, m that of its wider operand.
WalkOperands(d, e, eff, m) ==
  LET walk(x, w) == walk_ctx_width(d, x, w)
  IN CASE e[1] = "Bin" /\ e[3] \in Arithmetic ->
            [e EXCEPT ![4] = walk(@, eff), ![5] = walk(@, eff), ![6] = eff]
       [] e[1] = "Bin" /\ e[3] \in Shifts ->
            [e EXCEPT ![4] = walk(@, eff), ![5] = walk(@, 0), ![6] = eff]
       [] e[1] = "Bin" /\ e[3] \in Comparisons ->
            [e EXCEPT ![4] = walk(@, m), ![5] = walk(@, m)]
       [] e[1] = "Bin" /\ e[3] \in Logical ->
            [e EXCEPT ![4] = walk(@, 0), ![5] = walk(@, 0)]
       [] e[1] = "Un" /\ e[3] \in KeepsWidth ->
            [e EXCEPT ![4] = walk(@, eff), ![5] = eff]
       [] e[1] = "Un" /\ e[3] \notin KeepsWidth -> [e EXCEPT ![4] = walk(@, 0)]
       [] e[1] = "Cond" ->
            [e EXCEPT ![3] = walk(@, 0), ![4] = walk(@, eff), ![5] = walk(@, eff)]
       [] e[1] = "Concat" ->
            [e EXCEPT ![3] = Listed([k \in 1..Len(e[3]) |-> walk(e[3][k], 0)])]
       [] e[1] \in {"Repeat", "BitSel", "MemRead", "DynPartSel"} ->
            [e EXCEPT ![4] = walk(@, 0)]
       [] OTHER -> e

walk_ctx_width(d, e, ctx_w) ==
  WalkOperands(d, e, Maximum(ctx_w, self_width(d, e)),
               Maximum(self_width(d, e[4]), self_width(d, e[5])))

RootOf(d, e) == walk_ctx_width(d, e, 0)

\* Deviant: the target is not part of the context.
DeviantRhsOf(d, lv, e) == walk_ctx_width(d, e, 0)

\* compute_expr_ctx_widths: the right-hand side of an assignment starts from
\* the width of the target, every other root from 0.  Nets keep their width, so
\* that the widths can be recorded as soon as a root is lowered.
RhsOf(d, lv, e) == walk_ctx_width(d, e, lvalue_width(d, lv))

-----------------------------------------------------------------------------
(* Operands *)

expr_children(e) ==
  CASE e[1] = "Concat" -> {e[3][k] : k \in 1..Len(e[3])}
    [] e[1] \in {"Repeat", "BitSel", "MemRead", "DynPartSel"} -> {e[4]}
    [] e[1] = "Bin" -> {e[4], e[5]}
    [] e[1] = "Un" -> {e[4]}
    [] e[1] = "Cond" -> {e[3], e[4], e[5]}
    [] OTHER -> {}
=============================================================================
