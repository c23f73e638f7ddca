----------------------------- MODULE LowerStmt -----------------------------
(***************************************************************************)
(* lower_stmt, lower_sensitivity and collect_sensitivity_* of crates/elab/    *)
(* src/elaborate.rs: the statements of processes, functions and tasks, and    *)
(* the nets and memories that an expression or a statement depends on.        *)
(*                                                                         *)
(* Lowering a statement changes the context (counters of loops, ids of       *)
(* blocks, ctx.failed), so it returns <<context, statement>>.               *)
(***************************************************************************)
EXTENDS Lowering, FiniteSets

-----------------------------------------------------------------------------
(* Sensitivity: [nets, mems, ok], ok is FALSE when the walk was cut off *)

Nothing == [nets |-> {}, mems |-> {}, ok |-> TRUE]

\* The walk ends at the first part that is not ok.
InOrder(parts) ==
  LET seen == {k \in 1..Len(parts) : \A j \in 1..(k - 1) : parts[j].ok}
  IN  [nets |-> UNION {parts[k].nets : k \in seen},
       mems |-> UNION {parts[k].mems : k \in seen},
       ok |-> \A k \in 1..Len(parts) : parts[k].ok]

RECURSIVE collect_sensitivity_expr(_)
RECURSIVE collect_sensitivity_stmt(_)
RECURSIVE collect_sensitivity_lvalue(_)

OfExprs(es) == InOrder(Listed([k \in 1..Len(es) |-> collect_sensitivity_expr(es[k])]))
OfStmts(ss) == InOrder(Listed([k \in 1..Len(ss) |-> collect_sensitivity_stmt(ss[k])]))

\* A memory ends the walk, behind its index.
collect_sensitivity_expr(e) ==
  LET net == [Nothing EXCEPT !.nets = {e[3]}]
      index == collect_sensitivity_expr(e[4])
  IN CASE e[1] \in {"Net", "PartSel"} -> net
       [] e[1] \in {"BitSel", "DynPartSel"} -> InOrder(<<net, index>>)
       [] e[1] = "Concat" -> OfExprs(e[3])
       [] e[1] \in {"Repeat", "Un"} -> index
       [] e[1] = "Bin" -> OfExprs(<<e[4], e[5]>>)
       [] e[1] = "Cond" -> OfExprs(<<e[3], e[4], e[5]>>)
       [] e[1] = "MemRead" ->
            [nets |-> index.nets, mems |-> index.mems \cup {e[3]}, ok |-> FALSE]
       [] e[1] = "CallResult" -> OfStmts(e[3])
       [] OTHER -> Nothing

\* Deviant: the indices of a target are not read.
Deviant_collect_sensitivity_lvalue(lv) == Nothing

\* Of a target the indices are read.
collect_sensitivity_lvalue(lv) ==
  CASE lv[1] \in {"Net", "PartSelect"} -> Nothing
    [] lv[1] = "Concat" ->
         InOrder(Listed([k \in 1..Len(lv[2]) |-> collect_sensitivity_lvalue(lv[2][k])]))
    [] OTHER -> collect_sensitivity_expr(lv[3])

OfArm(arm) == InOrder(<<OfExprs(arm[1]), collect_sensitivity_stmt(arm[2])>>)

collect_sensitivity_stmt(s) ==
  CASE s[1] \in {"Block", "Fork"} -> OfStmts(s[2])
    [] s[1] = "NamedBlock" -> OfStmts(s[3])
    [] s[1] = "If" ->
         InOrder(<<collect_sensitivity_expr(s[2]), collect_sensitivity_stmt(s[3]),
                   OfStmts(s[4])>>)
    [] s[1] = "Case" ->
         InOrder(<<collect_sensitivity_expr(s[3])>>
                 \o [k \in 1..Len(s[4]) |-> OfArm(s[4][k])] \o <<OfStmts(s[5])>>)
    [] s[1] \in {"BlockingAssign", "NbaAssign"} ->
         InOrder(<<collect_sensitivity_lvalue(s[2]), collect_sensitivity_expr(s[3])>>)
    [] s[1] \in {"Delay", "EventCtl"} -> collect_sensitivity_stmt(s[3])
    [] s[1] = "SysCall" -> OfExprs(s[2])
    [] s[1] = "While" ->
         InOrder(<<collect_sensitivity_expr(s[2]), collect_sensitivity_stmt(s[3])>>)
    [] s[1] \in {"Null", "Disable"} -> Nothing

\* @* is what the body reads, or everything when that is not known.
lower_sensitivity(ctx, scope, sens, body) ==
  LET read == collect_sensitivity_stmt(body)
      edge(item) == [edge |-> item.edge,
                     net |-> resolve_net(ctx, scope, item.signal)[1]]
  IN  IF sens[1] = "Items"
      THEN <<"Items", {edge(item) : item \in sens[2]}>>
      ELSE IF ~read.ok \/ read.nets = {} THEN <<"All">>
      ELSE <<"Items", {[edge |-> "any", net |-> n] : n \in read.nets}>>

BrokenSensitivity(ctx, scope, sens) ==
  sens[1] = "Items" /\ \E item \in sens[2] : resolve_net(ctx, scope, item.signal) = <<>>

-----------------------------------------------------------------------------
(* Statements *)

FailWhen(ctx, broken) == [ctx EXCEPT !.failed = @ \/ broken]

RECURSIVE lower_stmt(_, _, _)

\* Statements one after the other: <<context, statements>>; an error ends it.
RECURSIVE LowerAll(_, _, _)
Joining(first, rest) == <<rest[1], <<first[2]>> \o rest[2]>>
AndThen(first, scope, ss) ==
  IF first[1].failed THEN <<first[1], <<>>>>
  ELSE Joining(first, LowerAll(first[1], scope, ss))
LowerAll(ctx, scope, ss) ==
  IF ss = <<>> THEN <<ctx, <<>>>>
  ELSE AndThen(lower_stmt(ctx, scope, Head(ss)), scope, Tail(ss))

\* A root expression and the context that knows whether it is broken.
LowerRoot(ctx, scope, e) == RootOf(ctx, lower_expr(ctx, scope, e))
Check(ctx, scope, e) == FailWhen(ctx, Broken(lower_expr(ctx, scope, e)))

Assignment(ctx, kind, lv, e) ==
  IF BrokenTarget(lv) \/ Broken(e) THEN <<FailWhen(ctx, TRUE), <<"Null">>>>
  ELSE <<ctx, <<kind, lv, RhsOf(ctx, lv, e)>>>>
LowerAssign(ctx, scope, s) ==
  Assignment(ctx, s[1], lower_lvalue(ctx, scope, s[2]), lower_expr(ctx, scope, s[3]))

\* A statement around what has been lowered: <<context, make of it>>.
Around(lowered, make(_)) == <<lowered[1], make(lowered[2])>>

\* The arms of a case statement in order.
RECURSIVE LowerArms(_, _, _)
ArmThen(pats, body, scope, arms) ==
  IF body[1].failed THEN <<body[1], <<>>>>
  ELSE Joining(<<body[1], <<pats, body[2]>>>>, LowerArms(body[1], scope, arms))
LowerArms(ctx, scope, arms) ==
  LET pats == Head(arms)[1]
      broken == \E k \in 1..Len(pats) : Broken(lower_expr(ctx, scope, pats[k]))
  IN  IF arms = <<>> THEN <<ctx, <<>>>>
      ELSE ArmThen(Listed([k \in 1..Len(pats) |-> LowerRoot(ctx, scope, pats[k])]),
                   lower_stmt(FailWhen(ctx, broken), scope, Head(arms)[2]),
                   scope, Tail(arms))

CaseThen(ctx, scope, s, arms) ==
  Around(LowerAll(arms[1], scope, s[5]), LAMBDA default :
           <<"Case", s[2], LowerRoot(ctx, scope, s[3]), arms[2], default>>)
LowerCase(ctx, scope, s) ==
  CaseThen(ctx, scope, s, LowerArms(Check(ctx, scope, s[3]), scope, s[4]))

IfThen(ctx, scope, s, then) ==
  Around(LowerAll(then[1], scope, s[4]), LAMBDA else :
           <<"If", LowerRoot(ctx, scope, s[2]), then[2], else>>)
LowerIf(ctx, scope, s) ==
  IfThen(ctx, scope, s, lower_stmt(Check(ctx, scope, s[2]), scope, s[3]))

\* begin init; while (cond) begin body; step; end end.  A loop variable that is
\* not declared becomes an integer.
LoopOf(cond, parts) ==
  <<"Block", <<parts[1], <<"While", cond, <<"Block", <<parts[2], parts[3]>>>>>>>>>>
ForThen(cond, lowered) ==
  IF lowered[1].failed THEN <<lowered[1], <<"Null">>>>
  ELSE Around(lowered, LAMBDA parts : LoopOf(cond, parts))
LowerFor(ctx, scope, s) ==
  LET declared == IF resolve_net(ctx, scope, s[2]) # <<>> THEN ctx
                  ELSE NewNet(ctx, scope, s[2], IntWidth, "Integer", TRUE)
  IN  ForThen(LowerRoot(declared, scope, s[4]),
              LowerAll(Check(declared, scope, s[4]), scope, <<s[3], s[6], s[5]>>))

IntConst(n) == <<"Const", TRUE, OfNum(IntWidth, n)>>

\* count > 0
Counted(count) == <<"Bin", FALSE, "Gt", count, IntConst(0), 0>>

\* begin cnt = count; while (cnt > 0) begin body; cnt = cnt - 1; end end, with a
\* new integer cnt.
LowerRepeatStmt(ctx, scope, s) ==
  LET cnt == Len(ctx.nets) + 1
      counting == NewNet(ctx, scope, "__repeat_" \o ToString(cnt - 1), IntWidth,
                         "Integer", TRUE)
      target == <<"Net", cnt>>
      count == alloc_expr(counting, <<"Net", FALSE, cnt>>)
      minus1 == alloc_expr(counting, <<"Bin", FALSE, "Sub", count, IntConst(1), 0>>)
      init == RhsOf(counting, target, lower_expr(counting, scope, s[2]))
      dec == <<"BlockingAssign", target, RhsOf(counting, target, minus1)>>
  IN  Around(lower_stmt(Check(counting, scope, s[2]), scope, s[3]), LAMBDA body :
        <<"Block", <<<<"BlockingAssign", target, init>>,
          <<"While", RootOf(counting, Counted(count)), <<"Block", <<body, dec>>>>>>>>>>)

\* Arguments are copied in, the body runs, and results are copied out to plain
\* nets.
LowerTaskCall(ctx, scope, s) ==
  LET task == resolve_task(ctx, scope, s[2])
      ps == task[1].params
      copy(to, e) == <<"BlockingAssign", <<"Net", to>>, RhsOf(ctx, <<"Net", to>>, e)>>
      ins == {k \in 1..Len(ps) : k <= Len(s[3]) /\ ps[k].dir # "output"}
      outs == {k \in 1..Len(ps) :
                 /\ k <= Len(s[3]) /\ ps[k].dir # "input"
                 /\ s[3][k][1] = "Net" /\ resolve_net(ctx, scope, s[3][k][2]) # <<>>}
      joined(S, stmt(_)) ==
        LET j[k \in 0..Len(ps)] ==
              IF k = 0 THEN <<>> ELSE IF k \in S THEN Append(j[k - 1], stmt(k))
              ELSE j[k - 1]
        IN  j[Len(ps)]
      set(k) == copy(ps[k].net, lower_expr(ctx, scope, s[3][k]))
      get(k) == copy(resolve_net(ctx, scope, s[3][k][2])[1],
                     alloc_expr(ctx, <<"Net", FALSE, ps[k].net>>))
  IN  IF task = <<>> THEN <<FailWhen(ctx, TRUE), <<"Null">>>>
      ELSE <<FailWhen(ctx, \E k \in ins : Broken(lower_expr(ctx, scope, s[3][k]))),
             <<"Block", joined(ins, set) \o <<task[1].body>> \o joined(outs, get)>>>>

LowerNamedBlock(ctx, scope, s) ==
  Around(LowerAll(register_block(ctx, scope, s[2]), scope, s[3]), LAMBDA ss :
           <<"NamedBlock", ctx.next_block_id, ss>>)

LowerDisable(ctx, scope, s) ==
  LET block == resolve_block(ctx, scope, s[2])
  IN  IF block = <<>> THEN <<FailWhen(ctx, TRUE), <<"Null">>>>
      ELSE <<ctx, <<"Disable", block[1]>>>>

EventThen(scope, sens, body) ==
  IF BrokenSensitivity(body[1], scope, sens) THEN <<FailWhen(body[1], TRUE), <<"Null">>>>
  ELSE Around(body, LAMBDA b :
                <<"EventCtl", lower_sensitivity(body[1], scope, sens, b), b>>)
LowerEventCtl(ctx, scope, s) ==
  EventThen(scope, s[2], lower_stmt(ctx, scope, s[3]))

LowerSysCall(ctx, scope, s) ==
  <<FailWhen(ctx, \E k \in 1..Len(s[2]) : Broken(lower_expr(ctx, scope, s[2][k]))),
    <<"SysCall", Listed([k \in 1..Len(s[2]) |-> LowerRoot(ctx, scope, s[2][k])])>>>>

lower_stmt(ctx, scope, s) ==
  LET body(k) == lower_stmt(ctx, scope, s[k])
  IN CASE s[1] \in {"Block", "Fork"} ->
            Around(LowerAll(ctx, scope, s[2]), LAMBDA ss : <<s[1], ss>>)
       [] s[1] = "If" -> LowerIf(ctx, scope, s)
       [] s[1] = "Case" -> LowerCase(ctx, scope, s)
       [] s[1] \in {"BlockingAssign", "NbaAssign"} -> LowerAssign(ctx, scope, s)
       [] s[1] = "Delay" -> Around(body(3), LAMBDA b : <<"Delay", s[2], b>>)
       [] s[1] = "EventCtl" -> LowerEventCtl(ctx, scope, s)
       [] s[1] = "SysCall" -> LowerSysCall(ctx, scope, s)
       [] s[1] = "For" -> LowerFor(ctx, scope, s)
       [] s[1] = "While" ->
            Around(lower_stmt(Check(ctx, scope, s[2]), scope, s[3]),
                   LAMBDA b : <<"While", LowerRoot(ctx, scope, s[2]), b>>)
       [] s[1] = "Forever" ->
            Around(body(2), LAMBDA b : <<"While", <<"Const", FALSE, ONE>>, b>>)
       [] s[1] = "Repeat" -> LowerRepeatStmt(ctx, scope, s)
       [] s[1] = "TaskCall" -> LowerTaskCall(ctx, scope, s)
       [] s[1] = "NamedBlock" -> LowerNamedBlock(ctx, scope, s)
       [] s[1] = "Disable" -> LowerDisable(ctx, scope, s)
=============================================================================
