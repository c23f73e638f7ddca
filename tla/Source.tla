------------------------------- MODULE Source -------------------------------
(***************************************************************************)
(* What expressions and statements of the source mean, by IEEE 1364-2001:     *)
(* the reference that the lowered ones are compared with.  It knows nothing   *)
(* of ids of scopes, recorded widths, frames or desugared loops.             *)
(*                                                                         *)
(* An environment env tells what a name is where it is used: env.names has    *)
(* <<"net", id>>, <<"mem", id>> or <<"param", value, width>>, env.funcs and      *)
(* env.tasks the bodies with environments of their own.  The value of a        *)
(* function is determined by its arguments: the stores of its body are not     *)
(* kept.                                                                   *)
(***************************************************************************)
EXTENDS Lowering

Entry(env, n) == IF n \in DOMAIN env.names THEN env.names[n] ELSE <<"none">>

\* The names that stand for constants.
Consts(env) == [n \in {m \in DOMAIN env.names : env.names[m][1] = "param"} |->
                  env.names[n][2]]
ConstOf(env, e) == EvalConst(Consts(env), e)[1]

-----------------------------------------------------------------------------
(* Sign and width of an expression by itself: sections 4.5.1 and 4.4.1 *)

RECURSIVE SourceSigned(_, _, _)
SourceSigned(d, env, e) ==
  CASE e[1] \in {"SignedConst", "Signed"} -> TRUE
    [] e[1] = "Net" -> Entry(env, e[2])[1] = "net" /\ d.nets[Entry(env, e[2])[2]].signed
    [] e[1] = "Bin" /\ e[2] \in Arithmetic ->
         SourceSigned(d, env, e[3]) /\ SourceSigned(d, env, e[4])
    [] e[1] = "Bin" /\ e[2] \in Shifts -> SourceSigned(d, env, e[3])
    [] e[1] = "Un" /\ e[2] \in KeepsWidth -> SourceSigned(d, env, e[3])
    [] e[1] = "Cond" -> SourceSigned(d, env, e[3]) /\ SourceSigned(d, env, e[4])
    [] e[1] = "Call" -> d.nets[Entry(env.funcs[e[2]].env, e[2])[2]].signed
    [] OTHER -> FALSE

RECURSIVE SourceWidth(_, _, _)

\* c has the constants among the operands of e.
WidthOf(d, env, e, entry, c) ==
  LET width(x) == SourceWidth(d, env, x)
      total(parts) == SumTo(Len(parts), [k \in 1..Len(parts) |-> width(parts[k])])
  IN CASE e[1] \in {"Const", "SignedConst"} -> e[2].width
       [] e[1] = "Net" -> IF entry[1] = "net" THEN d.nets[entry[2]].width
                                              ELSE entry[3]
       [] e[1] = "PartSel" -> c[3] - c[4] + 1
       [] e[1] = "IndexedPartSel" -> c[4]
       [] e[1] = "IndexSel" ->
            IF entry[1] = "mem" THEN d.mems[entry[2]].elem_width ELSE 1
       [] e[1] = "Concat" -> total(e[2])
       [] e[1] = "Repeat" -> c[2] * total(e[3])
       [] e[1] = "Bin" /\ e[2] \in Arithmetic -> Maximum(width(e[3]), width(e[4]))
       [] e[1] = "Bin" /\ e[2] \in Shifts -> width(e[3])
       [] e[1] = "Un" /\ e[2] \in KeepsWidth -> width(e[3])
       [] e[1] = "Cond" -> Maximum(width(e[3]), width(e[4]))
       [] e[1] = "Clog2" -> IntWidth
       [] e[1] \in {"Signed", "Unsigned"} -> width(e[2])
       [] e[1] = "Call" -> d.nets[Entry(env.funcs[e[2]].env, e[2])[2]].width
       [] OTHER -> 1
SourceWidth(d, env, e) ==
  WidthOf(d, env, e, Entry(env, e[2]), [k \in 2..4 |-> ConstOf(env, e[k])])

-----------------------------------------------------------------------------
(* Values and targets *)

RECURSIVE Means(_, _, _, _, _, _)
RECURSIVE Does(_, _, _, _)

\* The value that is assigned to w bits; it may have more of them.
RECURSIVE For(_, _, _, _, _)
For(d, env, st, e, w) ==
  Means(d, env, st, e, Maximum(w, SourceWidth(d, env, e)), SourceSigned(d, env, e))

\* The value of an expression that nothing around it determines.
Alone(d, env, st, e) == For(d, env, st, e, 0)

Joined(parts) ==
  LET j[k \in 1..Len(parts)] == IF k = 1 THEN parts[1] ELSE concat(j[k - 1], parts[k])
  IN  j[Len(parts)]

\* The bits [id, lo, w] of a net, or the word [id, at], that a select names, at
\* being its index if it has one and c the last of its constants.
Select(d, env, e, entry, at, c) ==
  LET of(lo, n) == [id |-> entry[2], lo |-> lo, w |-> n]
  IN CASE e[1] = "Net" -> of(0, d.nets[entry[2]].width)
       [] e[1] \in {"PartSel", "PartSelect"} -> of(c, ConstOf(env, e[3]) - c + 1)
       [] e[1] = "IndexSel" /\ entry[1] = "mem" -> [id |-> entry[2], at |-> at]
       [] e[1] = "IndexSel" /\ entry[1] = "net" -> of(at, 1)
       [] e[1] \in {"IndexedPartSel", "IndexedPartSelect"} ->
            of(PartLow(at, c, e[5]), c)

Selected(d, env, st, e) ==
  Select(d, env, e, Entry(env, e[2]), IndexOf(Alone(d, env, st, e[3])),
         ConstOf(env, e[4]))

Got(d, st, sel) ==
  IF "at" \in DOMAIN sel
  THEN IF <<sel.id, sel.at>> \in DOMAIN st.mems THEN st.mems[<<sel.id, sel.at>>]
       ELSE all_bits(d.mems[sel.id].elem_width, FALSE)
  ELSE IF Inside(sel.lo, sel.w, st.nets[sel.id].width)
  THEN part_select(st.nets[sel.id], sel.lo + sel.w - 1, sel.lo)
  ELSE x_of_width(sel.w)

\* The function runs on copies of its arguments.
Called(d, env, st, f, args) ==
  LET callee == env.funcs[f]
      id(n) == Entry(callee.env, n)[2]
      set[k \in 0..Len(callee.args)] ==
        IF k = 0 THEN st
        ELSE LET w == d.nets[id(callee.args[k])].width
                 v == For(d, env, st, args[k], w)
             IN  write_bits(set[k - 1], id(callee.args[k]), 0, w, v)
      done == CHOOSE r \in Does(d, callee.env, set[Len(callee.args)], callee.body) : TRUE
  IN  done.st.nets[id(f)]

\* The width and the sign of the operands of an operator in a context of w bits:
\* compared operands have a context of their own.
ContextOf(d, env, e, w, signed) ==
  IF e[2] \in Comparisons
  THEN <<Maximum(SourceWidth(d, env, e[3]), SourceWidth(d, env, e[4])),
         \A k \in 3..4 : SourceSigned(d, env, e[k])>>
  ELSE <<w, signed>>

\* Some operands stand alone: those of && and || and the amount of a shift.
Operand(d, env, st, x, alone, context) ==
  IF alone THEN Alone(d, env, st, x) ELSE Means(d, env, st, x, context[1], context[2])
MeansBin(d, env, st, e, context) ==
  Operated(e[2], Operand(d, env, st, e[3], e[2] \in Logical, context),
           Operand(d, env, st, e[4], e[2] \in Logical \cup Shifts, context),
           context[2], context[2])

MeansCond(c, t, f) ==
  IF is_true(c) THEN t ELSE IF is_known(c) THEN f ELSE merge_unknown(t, f)

\* The value of e as an operand of a context of w bits; the context is signed
\* when all its operands are.
Means(d, env, st, e, w, signed) ==
  LET fit(u) == Extended(u, w, signed)
      part(x) == Means(d, env, st, x, w, signed)
      alone(x) == Alone(d, env, st, x)
      entry == Entry(env, e[2])
      inner(parts) == Joined([k \in 1..Len(parts) |-> alone(parts[k])])
  IN CASE e[1] \in {"Const", "SignedConst"} -> fit(e[2])
       [] e[1] = "Net" /\ entry[1] = "param" -> fit(OfNum(entry[3], entry[2]))
       [] e[1] = "Net" /\ entry[1] = "none" -> fit(X)
       [] \/ e[1] \in {"PartSel", "IndexedPartSel", "IndexSel"}
          \/ e[1] = "Net" /\ entry[1] = "net" ->
            fit(Got(d, st, Selected(d, env, st, e)))
       [] e[1] = "Concat" -> fit(inner(e[2]))
       [] e[1] = "Repeat" ->
            fit(Joined([k \in 1..ConstOf(env, e[2]) |-> inner(e[3])]))
       [] e[1] = "Bin" ->
            fit(MeansBin(d, env, st, e, ContextOf(d, env, e, w, signed)))
       [] e[1] = "Un" ->
            fit(apply_unop(e[2], IF e[2] \in KeepsWidth THEN part(e[3])
                                 ELSE alone(e[3])))
       [] e[1] = "Cond" -> MeansCond(alone(e[2]), part(e[3]), part(e[4]))
       [] e[1] = "Clog2" ->
            fit(OfNum(IntWidth, clog2(OrElse(EvalConst(Consts(env), e[2]), 0))))
       [] e[1] \in {"Signed", "Unsigned"} -> fit(alone(e[2]))
       [] e[1] = "Call" -> fit(Called(d, env, st, e[2], e[3]))

\* The selects of a target from the left.
RECURSIVE Targets(_, _, _, _)
Targets(d, env, st, lv) ==
  IF lv[1] # "Concat" THEN <<Selected(d, env, st, lv)>>
  ELSE LET j[k \in 0..Len(lv[2])] ==
             IF k = 0 THEN <<>> ELSE j[k - 1] \o Targets(d, env, st, lv[2][k])
       IN  j[Len(lv[2])]

BitsOf(d, sel) ==
  IF "at" \in DOMAIN sel THEN d.mems[sel.id].elem_width ELSE sel.w

\* The selects of a target take the bits of v, the last one the lowest.
Put(d, st, sels, v) ==
  LET n == Len(sels)
      low[k \in 1..n] == IF k = n THEN 0 ELSE low[k + 1] + BitsOf(d, sels[k + 1])
      bits(k) == part_select(v, low[k] + BitsOf(d, sels[k]) - 1, low[k])
      put(s, k) ==
        IF "at" \in DOMAIN sels[k] THEN SetWord(s, <<sels[k].id, sels[k].at>>, bits(k))
        ELSE IF Inside(sels[k].lo, sels[k].w, d.nets[sels[k].id].width)
        THEN write_bits(s, sels[k].id, sels[k].lo, sels[k].w, bits(k)) ELSE s
      done[k \in 0..n] == IF k = 0 THEN st ELSE put(done[k - 1], k)
  IN  done[n]

TargetWidth(d, sels) == SumTo(Len(sels), [k \in 1..Len(sels) |-> BitsOf(d, sels[k])])

\* An assignment of e, evaluated in env, to lv of env_lv.
AssignsTo(d, sels, env, e, st) ==
  Put(d, st, sels, For(d, env, st, e, TargetWidth(d, sels)))
Assigns(d, env_lv, lv, env, e, st) ==
  AssignsTo(d, Targets(d, env_lv, st, lv), env, e, st)

\* A nonblocking one keeps the selects and the value.
Keeps(d, sels, env, e, st) ==
  [st EXCEPT !.nba =
     Append(@, [sels |-> sels, v |-> For(d, env, st, e, TargetWidth(d, sels))])]

-----------------------------------------------------------------------------
(* Statements: the set of the one outcome [st, exit] of a statement, where     *)
(* exit is the block that is being disabled                                  *)

Goes(st) == {[st |-> st, exit |-> ""]}

\* The nonblocking assignments that are due take effect before time goes on;
\* #0 takes no time.
NbaDone(d, st) ==
  LET put[k \in 0..Len(st.nba)] ==
        IF k = 0 THEN st ELSE Put(d, put[k - 1], st.nba[k].sels, st.nba[k].v)
  IN  [put[Len(st.nba)] EXCEPT !.nba = <<>>]

RECURSIVE InTurn(_, _, _, _)
InTurn(d, env, st, ss) ==
  IF ss = <<>> THEN Goes(st)
  ELSE UNION {IF r.exit # "" THEN {r} ELSE InTurn(d, env, r.st, Tail(ss)) :
                r \in Does(d, env, st, Head(ss))}

RECURSIVE Looping(_, _, _, _, _, _)
Looping(d, env, st, cond, body, step) ==
  IF ~is_true(Alone(d, env, st, cond)) THEN Goes(st)
  ELSE UNION {IF r.exit # "" THEN {r} ELSE Looping(d, env, r.st, cond, body, step) :
                r \in InTurn(d, env, st, <<body>> \o step)}

CountOf(count) == IF is_known(count) THEN SignedNum(resize(count, IntWidth)) ELSE 0

RECURSIVE Times(_, _, _, _, _)
Times(d, env, st, n, body) ==
  IF n <= 0 THEN Goes(st)
  ELSE UNION {IF r.exit # "" THEN {r} ELSE Times(d, env, r.st, n - 1, body) :
                r \in Does(d, env, st, body)}

Equals(kind, v, u) ==
  ONE = CASE kind = "Case" -> case_eq(v, u)
          [] kind = "CaseZ" -> casez_eq(v, u)
          [] kind = "CaseX" -> casex_eq(v, u)

\* The first arm from the k-th with a pattern that equals v, else the default.
RECURSIVE Chooses(_, _, _, _, _, _)
Chooses(d, env, st, s, v, k) ==
  IF k > Len(s[4]) THEN InTurn(d, env, st, s[5])
  ELSE IF \E j \in 1..Len(s[4][k][1]) :
            Equals(s[2], v, Alone(d, env, st, s[4][k][1][j]))
  THEN Does(d, env, st, s[4][k][2])
  ELSE Chooses(d, env, st, s, v, k + 1)

\* The arguments are copied to the inputs of a task, and its outputs, when the
\* body has come to its end, to the arguments.
CopiedIn(d, env, st, task, args) ==
  LET p(k) == task.params[k]
      in[k \in 0..Len(task.params)] ==
        IF k = 0 THEN st
        ELSE IF p(k).dir = "output" THEN in[k - 1]
        ELSE Assigns(d, task.env, <<"Net", p(k).name>>, env, args[k], in[k - 1])
  IN  in[Len(task.params)]

CopiedOut(d, env, st, task, args) ==
  LET p(k) == task.params[k]
      out[k \in 0..Len(task.params)] ==
        IF k = 0 THEN st
        ELSE IF p(k).dir = "input" \/ args[k][1] # "Net" THEN out[k - 1]
        ELSE Assigns(d, env, args[k], task.env, <<"Net", p(k).name>>, out[k - 1])
  IN  out[Len(task.params)]

\* A disable of a block of the caller leaves through the task.
Runs(d, env, st, task, args) ==
  UNION {{IF r.exit # "" THEN r
          ELSE [r EXCEPT !.st = CopiedOut(d, env, @, task, args)] :
            r \in Does(d, task.env, in, task.body)} :
         in \in {CopiedIn(d, env, st, task, args)}}

Does(d, env, st, s) ==
  CASE s[1] = "Block" -> InTurn(d, env, st, s[2])
    [] s[1] = "NamedBlock" ->
         {IF r.exit = s[2] THEN [r EXCEPT !.exit = ""] ELSE r :
            r \in InTurn(d, env, st, s[3])}
    [] s[1] = "If" ->
         IF is_true(Alone(d, env, st, s[2])) THEN Does(d, env, st, s[3])
                                             ELSE InTurn(d, env, st, s[4])
    [] s[1] = "Case" ->
         UNION {Chooses(d, env, st, s, v, 1) : v \in {Alone(d, env, st, s[3])}}
    [] s[1] = "BlockingAssign" -> Goes(Assigns(d, env, s[2], env, s[3], st))
    [] s[1] = "NbaAssign" -> Goes(Keeps(d, Targets(d, env, st, s[2]), env, s[3], st))
    [] s[1] = "EventCtl" -> Does(d, env, NbaDone(d, st), s[3])
    [] s[1] = "Delay" -> Does(d, env, IF s[2] = 0 THEN st ELSE NbaDone(d, st), s[3])
    [] s[1] = "For" ->
         UNION {Looping(d, env, r.st, s[4], s[6], <<s[5]>>) :
                  r \in Does(d, env, st, s[3])}
    [] s[1] = "While" -> Looping(d, env, st, s[2], s[3], <<>>)
    [] s[1] = "Forever" -> Looping(d, env, st, <<"Const", ONE>>, s[2], <<>>)
    [] s[1] = "Repeat" ->
         UNION {Times(d, env, st, CountOf(count), s[3]) :
                  count \in {For(d, env, st, s[2], IntWidth)}}
    [] s[1] = "TaskCall" -> Runs(d, env, st, env.tasks[s[2]], s[3])
    [] s[1] = "Disable" -> {[st |-> st, exit |-> s[2]]}
    [] s[1] = "SysCall" -> Goes(st)
=============================================================================
