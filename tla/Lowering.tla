------------------------------ MODULE Lowering ------------------------------
(***************************************************************************)
(* Names, constants, expressions and targets in crates/elab/src/             *)
(* elaborate.rs: lower_expr and lower_lvalue turn those of a module (HIR),    *)
(* with names, into those of the design (MIR, module Mir), with ids.          *)
(*                                                                         *)
(* ctx is the ElabCtx.  Ids of nets, memories and scopes are positions in     *)
(* ctx.nets, ctx.mems and ctx.scopes; the tables scope_nets, scope_mems and     *)
(* so on are functions of <<scope, name>>.  HIR and MIR are tuples             *)
(* <<constructor, operands>>; an optional operand is <<>> or <<operand>>.  A     *)
(* select is of a name: the frontend makes no other, and no BitSel or           *)
(* BitSelect.  The frontend rejects what it cannot translate; what it cannot     *)
(* resolve ends the elaboration (ctx.failed).                               *)
(***************************************************************************)
EXTENDS Eval, TLC

CONSTANTS
  WordBits,  \* the width of a constant, 64 in the code
  IntWidth   \* the width of an integer and of a parameter, 32 in the code

ASSUME LoweringAssumption == WordBits \in Nat \ {0} /\ IntWidth \in Nat \ {0}

STRONG == <<6, 6>>
PULL == 5
MEDIUM == 2

-----------------------------------------------------------------------------
(* Scopes and names *)

Error == <<"Error", FALSE>>

With(table, scope, name, entry) == (<<scope, name>> :> entry) @@ table

\* The entry of the nearest enclosing scope that has one.
RECURSIVE Resolve(_, _, _, _)
Resolve(ctx, table, scope, name) ==
  IF <<scope, name>> \in DOMAIN table THEN <<table[<<scope, name>>]>>
  ELSE IF ctx.scopes[scope].parent = 0 THEN <<>>
  ELSE Resolve(ctx, table, ctx.scopes[scope].parent, name)

resolve_net(ctx, scope, name) == Resolve(ctx, ctx.scope_nets, scope, name)
resolve_mem(ctx, scope, name) == Resolve(ctx, ctx.scope_mems, scope, name)
resolve_param(ctx, scope, name) == Resolve(ctx, ctx.scope_params, scope, name)
resolve_func(ctx, scope, name) == Resolve(ctx, ctx.scope_funcs, scope, name)
resolve_task(ctx, scope, name) == Resolve(ctx, ctx.scope_tasks, scope, name)
resolve_block(ctx, scope, name) == Resolve(ctx, ctx.scope_blocks, scope, name)

\* A net is allocated and registered under its name.
NewNet(ctx, scope, name, width, kind, signed) ==
  [ctx EXCEPT
     !.nets = Append(@, [name |-> name, scope |-> scope, width |-> width,
                         kind |-> kind, signed |-> signed]),
     !.scope_nets = With(@, scope, name, Len(ctx.nets) + 1)]

register_block(ctx, scope, name) ==
  [ctx EXCEPT !.scope_blocks = With(@, scope, name, ctx.next_block_id),
              !.next_block_id = @ + 1]

-----------------------------------------------------------------------------
(* Constants *)

Words == 2^WordBits

hir_const_width(e) ==
  IF e[1] \in {"Const", "SignedConst"} THEN e[2].width ELSE IntWidth

Minimum(m, n) == IF m <= n THEN m ELSE n
Truth(b) == IF b THEN 1 ELSE 0
OrElse(r, n) == IF r = <<>> THEN n ELSE r[1]

\* The least k with n <= 2^k.
clog2(n) == CHOOSE k \in 0..WordBits : n <= 2^k /\ \A j \in 0..(k - 1) : n > 2^j

BitwiseOps == {"BitAnd", "BitOr", "BitXor", "BitNand", "BitNor", "BitXnor"}

\* A bitwise operator on two bits, and on two words.
ConstBit(op, l, r) ==
  CASE op = "BitAnd" -> l /\ r
    [] op = "BitOr" -> l \/ r
    [] op = "BitXor" -> l # r
    [] op = "BitNand" -> ~(l /\ r)
    [] op = "BitNor" -> ~(l \/ r)
    [] op = "BitXnor" -> l = r
ConstBits(op, l, r) ==
  SumTo(WordBits, [k \in 1..WordBits |->
    IF ConstBit(op, Digit(l, k - 1), Digit(r, k - 1)) THEN 2^(k - 1) ELSE 0])

\* A binary operator on two words.
ConstBin(op, l, r) ==
  LET amount == r % WordBits
  IN CASE op = "Add" -> (l + r) % Words
       [] op = "Sub" -> (l - r) % Words
       [] op = "Mul" -> (l * r) % Words
       [] op = "Div" -> IF r = 0 THEN 0 ELSE l \div r
       [] op = "Mod" -> IF r = 0 THEN 0 ELSE l % r
       [] op = "LogAnd" -> Truth(l # 0 /\ r # 0)
       [] op = "LogOr" -> Truth(l # 0 \/ r # 0)
       [] op \in {"Shl", "Ashl"} -> (l * 2^amount) % Words
       [] op \in {"Shr", "Ashr"} -> l \div 2^amount
       [] op \in BitwiseOps -> ConstBits(op, l, r)
       [] op \in {"Eq", "CaseEq"} -> Truth(l = r)
       [] op \in {"Ne", "CaseNe"} -> Truth(l # r)
       [] op = "Lt" -> Truth(l < r)
       [] op = "Gt" -> Truth(l > r)
       [] op = "Le" -> Truth(l <= r)
       [] op = "Ge" -> Truth(l >= r)

\* A unary operator; a reduction looks at the bits that its operand declares.
ConstReduction(op, ones, w) ==
  CASE op = "RedAnd" -> Truth(ones = w)
    [] op = "RedOr" -> Truth(ones > 0)
    [] op = "RedXor" -> ones % 2
    [] op = "RedNand" -> Truth(ones # w)
    [] op = "RedNor" -> Truth(ones = 0)
    [] op = "RedXnor" -> (ones + 1) % 2
ConstUn(op, v, w) ==
  CASE op = "Pos" -> v
    [] op = "Neg" -> (0 - v) % Words
    [] op = "LogNot" -> Truth(v = 0)
    [] op = "BitNot" -> Words - 1 - v
    [] OTHER -> ConstReduction(op, Cardinality({k \in Bits(w) : Digit(v, k)}), w)

\* The value of e with the parameters env, or <<>> when it has none.
RECURSIVE EvalConst(_, _)
EvalConst(env, e) ==
  LET l == EvalConst(env, e[3])
      r == EvalConst(env, e[4])
      c == EvalConst(env, e[2])
  IN CASE e[1] \in {"Const", "SignedConst"} ->
            IF is_known(e[2]) THEN <<Num(e[2])>> ELSE <<>>
       [] e[1] = "Net" -> IF e[2] \in DOMAIN env THEN <<env[e[2]]>> ELSE <<>>
       [] e[1] = "Bin" ->
            IF l = <<>> \/ r = <<>> THEN <<>> ELSE <<ConstBin(e[2], l[1], r[1])>>
       [] e[1] = "Un" ->
            IF l = <<>> THEN <<>>
            ELSE <<ConstUn(e[2], l[1], Minimum(WordBits, hir_const_width(e[3])))>>
       [] e[1] = "Cond" -> IF c = <<>> THEN <<>> ELSE IF c[1] # 0 THEN l ELSE r
       [] e[1] = "Clog2" -> <<clog2(OrElse(c, 0))>>
       [] e[1] \in {"Signed", "Unsigned"} -> c
       [] OTHER -> <<>>

\* The parameters that a scope sees.
Params(ctx, scope) ==
  LET names == {n \in {k[2] : k \in DOMAIN ctx.scope_params} :
                  resolve_param(ctx, scope, n) # <<>>}
  IN  [n \in names |-> resolve_param(ctx, scope, n)[1].value]

eval_const_hir_with(ctx, scope, e, extra) ==
  EvalConst(extra @@ Params(ctx, scope), e)
eval_const_hir(ctx, scope, e) == EvalConst(Params(ctx, scope), e)

-----------------------------------------------------------------------------
(* Expressions *)

RECURSIVE lower_expr(_, _, _)

\* A name: a net, else a parameter, else X.
LowerName(ctx, scope, name) ==
  LET net == resolve_net(ctx, scope, name)
      param == resolve_param(ctx, scope, name)
  IN  IF net # <<>> THEN <<"Net", FALSE, net[1]>>
      ELSE IF param # <<>>
      THEN <<"Const", FALSE, OfNum(param[1].width, param[1].value)>>
      ELSE <<"Const", FALSE, X>>

\* name[idx]: a word of a memory, else a bit of a net, else X.
LowerIndexSel(ctx, scope, name, idx) ==
  LET mem == resolve_mem(ctx, scope, name)
      net == resolve_net(ctx, scope, name)
  IN  IF mem # <<>> THEN <<"MemRead", FALSE, mem[1], idx>>
      ELSE IF net # <<>> THEN <<"BitSel", FALSE, net[1], idx>>
      ELSE <<"Const", FALSE, X>>

\* Constant operands are in c, each with its value if it has one.
LowerPartSel(ctx, scope, e, net, c) ==
  IF net = <<>> THEN Error
  ELSE IF e[1] = "PartSel"
  THEN <<"PartSel", FALSE, net[1], OrElse(c[3], 0), OrElse(c[4], 0)>>
  ELSE <<"DynPartSel", FALSE, net[1], lower_expr(ctx, scope, e[3]), OrElse(c[4], 1), e[5]>>

LowerParts(ctx, scope, parts) ==
  Listed([k \in 1..Len(parts) |-> lower_expr(ctx, scope, parts[k])])

LowerRepeat(parts, n) ==
  <<"Repeat", FALSE, OrElse(n, 1),
    IF Len(parts) = 1 THEN parts[1] ELSE <<"Concat", FALSE, parts>>>>

\* A call sets the arguments that are there, then runs the body.
LowerCall(ctx, scope, f, args) ==
  LET set(k, target) ==
        <<"BlockingAssign", target, RhsOf(ctx, target, lower_expr(ctx, scope, args[k]))>>
  IN  <<"CallResult", FALSE,
        Append(Listed([k \in 1..Minimum(Len(f.args), Len(args)) |->
                         set(k, <<"Net", f.args[k]>>)]), f.body), f.ret>>
LowerCallOf(ctx, scope, f, args) ==
  IF f = <<>> THEN Error ELSE LowerCall(ctx, scope, f[1], args)

LowerNode(ctx, scope, e, c) ==
  LET lower(x) == lower_expr(ctx, scope, x)
  IN CASE e[1] = "Empty" -> <<"Empty", FALSE>>
       [] e[1] = "Const" -> <<"Const", FALSE, e[2]>>
       [] e[1] = "Net" -> LowerName(ctx, scope, e[2])
       [] e[1] \in {"PartSel", "IndexedPartSel"} ->
            LowerPartSel(ctx, scope, e, resolve_net(ctx, scope, e[2]), c)
       [] e[1] = "Concat" -> <<"Concat", FALSE, LowerParts(ctx, scope, e[2])>>
       [] e[1] = "Repeat" -> LowerRepeat(LowerParts(ctx, scope, e[3]), c[2])
       [] e[1] = "Bin" -> <<"Bin", FALSE, e[2], lower(e[3]), lower(e[4]), 0>>
       [] e[1] = "Un" -> <<"Un", FALSE, e[2], lower(e[3]), 0>>
       [] e[1] = "Cond" -> <<"Cond", FALSE, lower(e[2]), lower(e[3]), lower(e[4])>>
       [] e[1] = "IndexSel" -> LowerIndexSel(ctx, scope, e[2], lower(e[3]))
       [] e[1] = "Clog2" -> <<"Const", FALSE, OfNum(IntWidth, clog2(OrElse(c[2], 0)))>>
       [] e[1] = "Call" -> LowerCallOf(ctx, scope, resolve_func(ctx, scope, e[2]), e[3])

\* $signed and $unsigned register their operand again with another sign.
lower_expr(ctx, scope, e) ==
  IF e[1] = "SignedConst" THEN <<"Const", TRUE, e[2]>>
  ELSE IF e[1] \in {"Signed", "Unsigned"}
  THEN alloc_expr_signed(lower_expr(ctx, scope, e[2]), e[1] = "Signed")
  ELSE alloc_expr(ctx, LowerNode(ctx, scope, e,
                                 [k \in 2..4 |-> eval_const_hir(ctx, scope, e[k])]))

\* The expression has a part that could not be resolved.
RECURSIVE Broken(_)
Broken(e) ==
  \/ e[1] = "Error"
  \/ \E c \in expr_children(e) : Broken(c)
  \/ e[1] = "CallResult" /\ \E k \in 1..(Len(e[3]) - 1) : Broken(e[3][k][3])

-----------------------------------------------------------------------------
(* Targets *)

\* A target that has an index.
IndexedTarget(lv, net, mem, index, width) ==
  IF lv[1] = "IndexSel" /\ mem # <<>> THEN <<"MemWrite", mem[1], index>>
  ELSE IF net = <<>> THEN Error
  ELSE IF lv[1] = "IndexSel" THEN <<"DynBitSelect", net[1], index>>
  ELSE <<"DynPartSelect", net[1], index, width, lv[5]>>

RECURSIVE lower_lvalue(_, _, _)
LowerTarget(ctx, scope, lv, net, c) ==
  CASE lv[1] = "Concat" ->
         <<"Concat", Listed([k \in 1..Len(lv[2]) |-> lower_lvalue(ctx, scope, lv[2][k])])>>
    [] lv[1] = "Net" -> IF net = <<>> THEN Error ELSE <<"Net", net[1]>>
    [] lv[1] = "PartSelect" ->
         IF net = <<>> THEN Error
         ELSE <<"PartSelect", net[1], OrElse(c[3], 0), OrElse(c[4], 0)>>
    [] OTHER ->
         IndexedTarget(lv, net, resolve_mem(ctx, scope, lv[2]),
                       RootOf(ctx, lower_expr(ctx, scope, lv[3])), OrElse(c[4], 1))
lower_lvalue(ctx, scope, lv) ==
  LowerTarget(ctx, scope, lv, resolve_net(ctx, scope, lv[2]),
              [k \in 3..4 |-> eval_const_hir(ctx, scope, lv[k])])

RECURSIVE BrokenTarget(_)
BrokenTarget(lv) ==
  \/ lv[1] = "Error"
  \/ lv[1] \in {"MemWrite", "DynBitSelect", "DynPartSelect"} /\ Broken(lv[3])
  \/ lv[1] = "Concat" /\ \E k \in 1..Len(lv[2]) : BrokenTarget(lv[2][k])

\* An lvalue as its parts from the left.
RECURSIVE flatten_parts(_)
flatten_parts(lv) ==
  IF lv[1] # "Concat" THEN <<lv>>
  ELSE LET joined[k \in 0..Len(lv[2])] ==
             IF k = 0 THEN <<>> ELSE joined[k - 1] \o flatten_parts(lv[2][k])
       IN  joined[Len(lv[2])]
=============================================================================
