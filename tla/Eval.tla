-------------------------------- MODULE Eval --------------------------------
(***************************************************************************)
(* eval_expr, write_lvalue and exec_sync_stmt of crates/sim/src/interp.rs:    *)
(* what an expression is worth and what a statement does that runs in no      *)
(* time.                                                                   *)
(*                                                                         *)
(* A store st has the values of the nets, of the words of memories that have  *)
(* been written, and the queue of nonblocking assignments.  A call changes    *)
(* the store, so an evaluation returns <<value, store>>.  What a write wakes   *)
(* is in module Sensitivity.                                               *)
(***************************************************************************)
EXTENDS Mir

CONSTANT MaxLoop  \* the limit of a loop in a function, 1000000 in the code

ASSUME EvalAssumption == MaxLoop \in Nat

-----------------------------------------------------------------------------
(* Arithmetic: known operands, a result of the wider one's width *)

Num(u) == SumTo(u.width, [k \in 1..u.width |->
                            IF k - 1 \in u.a THEN 2^(k - 1) ELSE 0])
SignedNum(u) == Num(u) - (IF sign_bit(u) THEN 2^u.width ELSE 0)
Digit(n, k) == (n \div 2^k) % 2 = 1
OfNum(w, n) == [width |-> w, a |-> {k \in Bits(w) : Digit(n, k)}, b |-> {}]

\* Division towards 0; the remainder has the sign of the dividend.
Sign(n) == IF n < 0 THEN -1 ELSE 1
Quotient(m, n) == Sign(m) * Sign(n) * ((m * Sign(m)) \div (n * Sign(n)))

BothKnown(u, v) == is_known(u) /\ is_known(v)
Result(u, v, defined, n) ==
  IF BothKnown(u, v) /\ defined THEN OfNum(Wider(u, v), n)
                                ELSE x_of_width(Wider(u, v))

add(u, v) == Result(u, v, TRUE, Num(u) + Num(v))
sub(u, v) == Result(u, v, TRUE, Num(u) - Num(v))
mul(u, v) == Result(u, v, TRUE, Num(u) * Num(v))
div(u, v) == Result(u, v, Num(v) # 0, Num(u) \div Num(v))
mod_(u, v) == Result(u, v, Num(v) # 0, Num(u) % Num(v))
div_signed(u, v) ==
  Result(u, v, Num(v) # 0, Quotient(SignedNum(u), SignedNum(v)))
mod_signed(u, v) ==
  Result(u, v, Num(v) # 0,
    SignedNum(u) - SignedNum(v) * Quotient(SignedNum(u), SignedNum(v)))

case_ne(u, v) == IF case_eq(u, v) = ONE THEN ZERO ELSE ONE

Flip(bit) == IF bit = ONE THEN ZERO ELSE IF bit = ZERO THEN ONE ELSE X

\* An index or an amount: the a plane, so that X counts as 1.
IndexOf(u) == Num(resize(u, 32))

-----------------------------------------------------------------------------
(* Operators *)

Operated(op, u, v, both_signed, l_signed) ==
  CASE op = "Add" -> add(u, v)
    [] op = "Sub" -> sub(u, v)
    [] op = "Mul" -> mul(u, v)
    [] op = "Div" -> IF both_signed THEN div_signed(u, v) ELSE div(u, v)
    [] op = "Mod" -> IF both_signed THEN mod_signed(u, v) ELSE mod_(u, v)
    [] op = "LogAnd" -> log_and(u, v)
    [] op = "LogOr" -> log_or(u, v)
    [] op = "BitAnd" -> BitAnd(u, v)
    [] op = "BitOr" -> BitOr(u, v)
    [] op = "BitXor" -> BitXor(u, v)
    [] op = "BitNand" -> Not(BitAnd(u, v))
    [] op = "BitNor" -> Not(BitOr(u, v))
    [] op = "BitXnor" -> Not(BitXor(u, v))
    [] op = "Eq" -> eq(u, v)
    [] op = "Ne" -> ne(u, v)
    [] op = "CaseEq" -> case_eq(u, v)
    [] op = "CaseNe" -> case_ne(u, v)
    [] op = "Lt" -> IF both_signed THEN lt_signed(u, v) ELSE lt(u, v)
    [] op = "Gt" -> IF both_signed THEN lt_signed(v, u) ELSE lt(v, u)
    [] op = "Le" -> IF both_signed THEN le_signed(u, v) ELSE le(u, v)
    [] op = "Ge" -> IF both_signed THEN le_signed(v, u) ELSE le(v, u)
    [] op \in {"Shl", "Ashl"} -> shl(u, is_known(v), IndexOf(v))
    [] op = "Ashr" /\ l_signed -> ashr(u, is_known(v), IndexOf(v))
    [] OTHER -> shr(u, is_known(v), IndexOf(v))

\* Signed operands are brought to one width, but for shifts and === and !==.
apply_binop(op, u, v, l_signed, r_signed) ==
  LET both == l_signed /\ r_signed
      same == both /\ op \notin Shifts \cup {"CaseEq", "CaseNe"}
      operand(x) == IF same THEN extend_sign(x, Wider(u, v)) ELSE x
  IN  Operated(op, operand(u), operand(v), both, l_signed)

apply_unop(op, u) ==
  CASE op = "Pos" -> u
    [] op = "Neg" -> sub(all_bits(u.width, FALSE), u)
    [] op = "LogNot" -> log_not(u)
    [] op = "BitNot" -> Not(u)
    [] op = "RedAnd" -> reduce_and(u)
    [] op = "RedOr" -> reduce_or(u)
    [] op = "RedXor" -> reduce_xor(u)
    [] op = "RedNand" -> Flip(reduce_and(u))
    [] op = "RedNor" -> Flip(reduce_or(u))
    [] op = "RedXnor" -> Flip(reduce_xor(u))

Extended(u, w, signed) == IF signed THEN extend_sign(u, w) ELSE resize(u, w)

-----------------------------------------------------------------------------
(* Writing *)

SetNet(st, id, v) == [st EXCEPT !.nets[id] = v]
SetWord(st, key, v) ==
  [st EXCEPT !.mems = [k \in DOMAIN @ \cup {key} |-> IF k = key THEN v ELSE @[k]]]

\* indexed_part_select_bounds, of a net of w bits: the low bit.
PartLow(at, width, plus) == IF plus THEN at ELSE at - width + 1
Inside(lo, width, w) == lo >= 0 /\ lo + width <= w

write_bits(st, id, lo, w, v) ==
  SetNet(st, id, insert_bits(st.nets[id], lo, w, v))

-----------------------------------------------------------------------------
(* Evaluation *)

RECURSIVE eval_expr(_, _, _)
RECURSIVE EvalParts(_, _, _, _)
RECURSIVE write_lvalue(_, _, _, _, _)
RECURSIVE exec_sync_stmt(_, _, _)
RECURSIVE ExecAll(_, _, _)
RECURSIVE EvalArgs(_, _, _)
RECURSIVE SyncLoop(_, _, _, _)
RECURSIVE Chosen(_, _, _, _, _, _)

\* The parts of a concatenation from the left, joined to what is there.
EvalParts(d, st, parts, acc) ==
  IF parts = <<>> THEN <<acc, st>>
  ELSE LET r == eval_expr(d, st, Head(parts))
       IN  EvalParts(d, r[2], Tail(parts), concat(acc, r[1]))

\* Operands take the width that was recorded, by the sign of the operator.
EvalBin(d, st, e) ==
  LET l == eval_expr(d, st, e[4])
      r == eval_expr(d, l[2], e[5])
      wl == Maximum(e[6], l[1].width)
      w == Maximum(wl, r[1].width)
      shift == e[3] \in Shifts
      fit(u, n) == IF e[6] = 0 THEN u ELSE Extended(u, n, IsSigned(e))
  IN  << apply_binop(e[3], fit(l[1], IF shift THEN wl ELSE w),
                     IF shift THEN r[1] ELSE fit(r[1], w),
                     IsSigned(e[4]), IsSigned(e[5])), r[2] >>

EvalUn(d, st, e) ==
  LET r == eval_expr(d, st, e[4])
      w == Maximum(e[5], r[1].width)
  IN  << apply_unop(e[3], IF e[3] \in KeepsWidth /\ e[5] # 0
                          THEN Extended(r[1], w, IsSigned(e)) ELSE r[1]), r[2] >>

EvalCond(d, st, e) ==
  LET c == eval_expr(d, st, e[3])
      t == eval_expr(d, c[2], e[4])
      f == eval_expr(d, t[2], e[5])
  IN  IF is_true(c[1]) THEN t
      ELSE IF is_known(c[1]) THEN eval_expr(d, c[2], e[5])
      ELSE <<merge_unknown(t[1], f[1]), f[2]>>

\* The expressions that read a bit, a part or a word at an index.
EvalIndexed(d, st, e) ==
  LET i == eval_expr(d, st, e[4])
      at == IndexOf(i[1])
      u == st.nets[e[3]]  \* read before the index
      lo == PartLow(at, e[5], e[6])
      key == <<e[3], at>>
  IN  << CASE e[1] = "BitSel" -> bit_select(u, at)
           [] e[1] = "DynPartSel" ->
                IF Inside(lo, e[5], u.width) THEN part_select(u, lo + e[5] - 1, lo)
                                             ELSE x_of_width(e[5])
           [] e[1] = "MemRead" ->
                IF key \in DOMAIN i[2].mems THEN i[2].mems[key]
                ELSE all_bits(d.mems[e[3]].elem_width, FALSE), i[2] >>

\* A call: the arguments, the body, and then the net of the result.
EvalCall(d, st, e) ==
  LET done == ExecAll(d, st, e[3]) IN <<done.nets[e[4]], done>>

\* {n{e}}
EvalRepeat(d, st, e) ==
  LET r == eval_expr(d, st, e[4])
      times[k \in 1..e[3]] == IF k = 1 THEN r[1] ELSE concat(times[k - 1], r[1])
  IN  IF e[3] = 0 THEN <<ZERO, st>> ELSE <<times[e[3]], r[2]>>

eval_expr(d, st, e) ==
  CASE e[1] = "Const" -> <<e[3], st>>
    [] e[1] = "Net" -> <<st.nets[e[3]], st>>
    [] e[1] = "PartSel" ->
         << IF e[4] < st.nets[e[3]].width
            THEN part_select(st.nets[e[3]], e[4], e[5]) ELSE X, st >>
    [] e[1] \in {"BitSel", "DynPartSel", "MemRead"} -> EvalIndexed(d, st, e)
    [] e[1] = "Concat" ->
         IF e[3] = <<>> THEN <<ZERO, st>>
         ELSE LET r == eval_expr(d, st, Head(e[3]))
              IN  EvalParts(d, r[2], Tail(e[3]), r[1])
    [] e[1] = "Repeat" -> EvalRepeat(d, st, e)
    [] e[1] = "Bin" -> EvalBin(d, st, e)
    [] e[1] = "Un" -> EvalUn(d, st, e)
    [] e[1] = "Cond" -> EvalCond(d, st, e)
    [] e[1] = "CallResult" -> EvalCall(d, st, e)
    [] e[1] = "Empty" -> <<all_bits(0, FALSE), st>>

\* A write where an index has been evaluated, to <<value, store>>.
WriteAt(d, lv, v, i) ==
  LET at == IndexOf(i[1])
      lo == PartLow(at, lv[4], lv[5])
  IN CASE lv[1] = "DynBitSelect" -> write_bits(i[2], lv[2], at, 1, v)
       [] lv[1] = "DynPartSelect" ->
            IF Inside(lo, lv[4], d.nets[lv[2]].width)
            THEN write_bits(i[2], lv[2], lo, lv[4], v) ELSE i[2]
       [] lv[1] = "MemWrite" -> SetWord(i[2], <<lv[2], at>>, v)

\* A concatenation is written from the left, each part cut from the value.
write_lvalue(d, st, lv, v, signed) ==
  LET w == d.nets[lv[2]].width
      total == lvalue_width(d, lv)
      full == Extended(v, total, signed)
      low[k \in 0..Len(lv[2])] ==
        IF k = 0 THEN total ELSE low[k - 1] - lvalue_width(d, lv[2][k])
      put[k \in 0..Len(lv[2])] ==
        IF k = 0 THEN st
        ELSE write_lvalue(d, put[k - 1], lv[2][k],
                          part_select(full, low[k - 1] - 1, low[k]), FALSE)
  IN CASE lv[1] = "Net" ->
            SetNet(st, lv[2], IF v.width = w THEN v ELSE Extended(v, w, signed))
       [] lv[1] = "PartSelect" -> write_bits(st, lv[2], lv[4], lv[3] - lv[4] + 1, v)
       [] lv[1] = "Concat" -> put[Len(lv[2])]
       [] OTHER -> WriteAt(d, lv, v, eval_expr(d, st, lv[3]))

-----------------------------------------------------------------------------
(* Statements that run to their end at once *)

\* The arm of a case statement with the first pattern that matches; i is the
\* first pattern, evaluated.
Tried(d, kind, sel, arms, default, i) ==
  LET pats == Head(arms)[1]
      equal == CASE kind = "Case" -> case_eq(sel, i[1])
                 [] kind = "CaseZ" -> casez_eq(sel, i[1])
                 [] kind = "CaseX" -> casex_eq(sel, i[1])
  IN  IF equal = ONE THEN <<<<Head(arms)[2]>>, i[2]>>
      ELSE Chosen(d, i[2], kind, sel,
                  <<<<Tail(pats), Head(arms)[2]>>>> \o Tail(arms), default)

Chosen(d, st, kind, sel, arms, default) ==
  IF arms = <<>> THEN <<default, st>>
  ELSE IF Head(arms)[1] = <<>> THEN Chosen(d, st, kind, sel, Tail(arms), default)
  ELSE Tried(d, kind, sel, arms, default, eval_expr(d, st, Head(Head(arms)[1])))

\* get_lval_val: the old value is for trigger_sensitivity, but an index of a
\* memory is evaluated for it, once more than the write does.
RECURSIVE get_lval_val(_, _, _)
get_lval_val(d, st, lv) ==
  LET got[k \in 0..Len(lv[2])] ==
        IF k = 0 THEN st ELSE get_lval_val(d, got[k - 1], lv[2][k])
  IN CASE lv[1] = "MemWrite" -> eval_expr(d, st, lv[3])[2]
       [] lv[1] = "Concat" -> got[Len(lv[2])]
       [] OTHER -> st

Write(d, st, lv, v, signed) ==
  write_lvalue(d, get_lval_val(d, st, lv), lv, v, signed)

\* An assignment of the value that its expression has now.
AssignedTo(d, s, r) == Write(d, r[2], s[2], r[1], IsSigned(s[3]))
Assigned(d, st, s) == AssignedTo(d, s, eval_expr(d, st, s[3]))

\* What evaluating the arguments of a system task changes; its output is in
\* module Output.
EvalArgs(d, st, args) ==
  IF args = <<>> THEN st ELSE EvalArgs(d, eval_expr(d, st, Head(args))[2], Tail(args))

ExecAll(d, st, ss) ==
  IF ss = <<>> THEN st
  ELSE ExecAll(d, exec_sync_stmt(d, st, Head(ss)), Tail(ss))

\* Deviant: the condition is tested after the body.
DeviantSyncLoop(d, st, s, n) ==
  LET c == eval_expr(d, exec_sync_stmt(d, st, s[3]), s[2])
  IN  IF n = 0 \/ ~is_true(c[1]) THEN c[2] ELSE SyncLoop(d, c[2], s, n - 1)

\* At most n rounds of a loop.
SyncLoop(d, st, s, n) ==
  LET c == eval_expr(d, st, s[2])
  IN  IF n = 0 THEN st
      ELSE IF ~is_true(c[1]) THEN c[2]
      ELSE SyncLoop(d, exec_sync_stmt(d, c[2], s[3]), s, n - 1)

\* Nonblocking assignments assign at once, delays and events are skipped, the
\* branches of a fork follow each other, and disable does nothing.
exec_sync_stmt(d, st, s) ==
  CASE s[1] = "Block" -> ExecAll(d, st, s[2])
    [] s[1] = "NamedBlock" -> ExecAll(d, st, s[3])
    [] s[1] = "Fork" -> ExecAll(d, st, s[2])
    [] s[1] = "If" ->
         LET c == eval_expr(d, st, s[2])
         IN  IF is_true(c[1]) THEN exec_sync_stmt(d, c[2], s[3])
             ELSE ExecAll(d, c[2], s[4])
    [] s[1] = "Case" ->
         LET sel == eval_expr(d, st, s[3])
             arm == Chosen(d, sel[2], s[2], sel[1], s[4], s[5])
         IN  ExecAll(d, arm[2], arm[1])
    [] s[1] \in {"BlockingAssign", "NbaAssign"} -> Assigned(d, st, s)
    [] s[1] \in {"Delay", "EventCtl"} -> exec_sync_stmt(d, st, s[3])
    [] s[1] = "While" -> SyncLoop(d, st, s, MaxLoop)
    [] s[1] = "SysCall" -> EvalArgs(d, st, s[2])
    [] s[1] \in {"Null", "Disable"} -> st
=============================================================================
