----------------------------- MODULE FrontStmt -----------------------------
(***************************************************************************)
(* Statements, event controls and targets in crates/frontend/src/lower.rs.     *)
(*                                                                         *)
(* Statements of the syntax tree:                                            *)
(*   <<"Null">>, <<"Seq", label, ss>> and <<"Par", ss>>, whose declarations are  *)
(*     left out, since the code does not read them                            *)
(*   <<"If", c, s, elseifs, else>>, elseifs a sequence of <<c, s>>             *)
(*   <<"Case", kind, e, items>>, an item <<"Arm", patterns, s>> or              *)
(*     <<"Default", s>>                                                       *)
(*   <<"Assign", lv, e>>, <<"OpAssign", lv, op, e>>, <<"Nba", lv, e>>            *)
(*   <<"Delay", amount, s>>, <<"Event", control, s>>                            *)
(*   <<"For", inits, cond, steps, s>> with inits <<lv, e>> and steps             *)
(*     <<"Step", lv, e>> or <<"IncDec", lv>>, <<"While", c, s>>,                 *)
(*     <<"Repeat", e, s>>, <<"Forever", s>>                                    *)
(*   <<"Task", name, args>>, <<"SysTask", name, args>>, <<"Disable", name>>,      *)
(*     <<"Other">>                                                            *)
(* A target is a <<"Name", ...>> or <<"Concat", targets>>.                      *)
(***************************************************************************)
EXTENDS FrontExpr

-----------------------------------------------------------------------------
(* Targets *)

RECURSIVE lower_var_lvalue(_)
lower_var_lvalue(lv) ==
  CASE lv[1] = "Concat" ->
         <<"Concat", Listed([k \in 1..Len(lv[2]) |-> lower_var_lvalue(lv[2][k])])>>
    [] lv[1] = "Name" -> SelectIn("PartSelect", "IndexedPartSelect", lv)
    [] lv[1] = "Other" -> Unsupported

\* The target of a continuous assignment: an index is one number, as in a range.
NetSelect(x, part, at) ==
  IF part = <<>> THEN <<"Net", x>>
  ELSE IF part[1] = "Range" THEN <<"PartSelect", x, lower_const_expr(part[2]), at>>
  ELSE Unsupported

RECURSIVE lower_net_lvalue(_)
lower_net_lvalue(lv) ==
  CASE lv[1] = "Concat" ->
         <<"Concat", Listed([k \in 1..Len(lv[2]) |-> lower_net_lvalue(lv[2][k])])>>
    [] lv[1] = "Name" ->
         IF lv[3] # <<>> THEN <<"IndexSel", lv[2], lower_const_expr(lv[3][1])>>
         ELSE NetSelect(lv[2], lv[4], lower_const_expr(lv[4][3]))
    [] lv[1] = "Other" -> Unsupported

-----------------------------------------------------------------------------
(* Event controls: <<"Star">>, <<"Name", x>>, or <<"Events", ev>> with ev        *)
(* <<"Or", l, r>> (a comma is the same), <<"Paren", ev>> or                      *)
(* <<"Edge", edge, e>>                                                       *)

\* The first name in an expression, as <<name>>.
RECURSIVE FirstName(_)
FirstName(e) ==
  LET among(es) ==
        LET ks == {k \in 1..Len(es) : FirstName(es[k]) # <<>>}
        IN  IF ks = {} THEN <<>> ELSE FirstName(es[Min(ks)])
  IN CASE e[1] \in {"Name", "Call"} -> <<e[2]>>
       [] e[1] \in {"Concat", "Paren"} -> among(e[2])
       [] e[1] = "System" -> among(e[3])
       [] e[1] = "Unary" -> FirstName(e[3])
       [] e[1] = "Binary" -> among(<<e[2], e[4]>>)
       [] e[1] = "Conditional" -> among(Tail(e))
       [] OTHER -> <<>>

RECURSIVE collect_sens_items(_)
collect_sens_items(ev) ==
  CASE ev[1] = "Or" -> collect_sens_items(ev[2]) \cup collect_sens_items(ev[3])
    [] ev[1] = "Paren" -> collect_sens_items(ev[2])
    [] ev[1] = "Edge" -> {[edge |-> ev[2], signal |-> OrElse(FirstName(ev[3]), "?")]}

lower_event_control(control) ==
  IF control[1] = "Events" THEN <<"Items", collect_sens_items(control[2])>> ELSE <<"All">>

-----------------------------------------------------------------------------
(* Statements *)

RECURSIVE lower_statement(_)

lower_stmt_or_null(s) == IF s = <<"Null">> THEN <<"Block", <<>>>> ELSE lower_statement(s)
LowerStmts(ss) == Listed([k \in 1..Len(ss) |-> lower_stmt_or_null(ss[k])])

\* The name of a block that has one.
lower_seq_block(s) ==
  IF s[2] = <<>> THEN <<"Block", LowerStmts(s[3])>>
  ELSE <<"NamedBlock", s[2][1], LowerStmts(s[3])>>

\* else if is an if in the else part, the last one inside the others.
lower_conditional(s) ==
  Head(FoldRight(
    LAMBDA if, rest :
      <<<<"If", lower_expression(if[1]), lower_stmt_or_null(if[2]), rest>>>>,
    <<<<s[2], s[3]>>>> \o s[4], LowerStmts(s[5])))

\* The arms keep their order, wherever the default stands; the last default counts.
CaseArms(arms) ==
  Listed([k \in 1..Len(arms) |->
            <<LowerEach(arms[k][2], FALSE), lower_stmt_or_null(arms[k][3])>>])
CaseDefault(defaults) ==
  IF defaults = <<>> THEN <<>> ELSE <<lower_stmt_or_null(Last(defaults)[2])>>
lower_case(s) ==
  LET of(kind) == SelectSeq(s[4], LAMBDA item : item[1] = kind)
  IN  <<"Case", s[2], lower_expression(s[3]), CaseArms(of("Arm")),
        CaseDefault(of("Default"))>>

Blocking(lv, e) == <<"BlockingAssign", lower_var_lvalue(lv), lower_expression(e)>>

\* The variable of a loop is the first plain one that is initialized.
FirstPlain(ss) ==
  LET ks == {k \in 1..Len(ss) : ss[k][2][1] = "Net"}
  IN  IF ks = {} THEN "__for_i" ELSE ss[Min(ks)][2][2]
ForInit(ss) == <<FirstPlain(ss), <<"Block", ss>>>>
lower_for_init(inits) ==
  ForInit(Listed([k \in 1..Len(inits) |-> Blocking(inits[k][1], inits[k][2])]))

\* Steps that are no assignments are dropped.
lower_for_step(steps) ==
  LET kept == SelectSeq(steps, LAMBDA step : step[1] = "Step")
  IN  <<"Block", Listed([k \in 1..Len(kept) |-> Blocking(kept[k][2], kept[k][3])])>>

LowerForStmt(s) ==
  <<"For">> \o lower_for_init(s[2])
    \o <<IF s[3] = <<>> THEN <<"Const", ONE>> ELSE lower_expression(s[3][1]),
         lower_for_step(s[4]), lower_stmt_or_null(s[5])>>

lower_loop_stmt(s) ==
  CASE s[1] = "For" -> LowerForStmt(s)
    [] s[1] \in {"While", "Repeat"} ->
         <<s[1], lower_expression(s[2]), lower_stmt_or_null(s[3])>>
    [] s[1] = "Forever" -> <<"Forever", lower_stmt_or_null(s[2])>>

\* A delay that is no integer is 0.
lower_timing_ctrl(s) ==
  IF s[1] = "Delay"
  THEN <<"Delay", IF s[2][1] = "Number" THEN OrElse(PlainBelow(s[2][2], Words), 0) ELSE 0,
         lower_stmt_or_null(s[3])>>
  ELSE <<"EventCtl", lower_event_control(s[2]), lower_stmt_or_null(s[3])>>

SystemTasks ==
  {"$display", "$write", "$displayb", "$displayh", "$displayo", "$writeb", "$writeh",
   "$writeo", "$fdisplay", "$fwrite", "$fdisplayb", "$fdisplayh", "$fdisplayo", "$fwriteb",
   "$fwriteh", "$fwriteo", "$fstrobe", "$fmonitor", "$fclose", "$fflush", "$monitor",
   "$monitoron", "$monitoroff", "$finish", "$stop", "$strobe", "$time", "$dumpfile",
   "$dumpvars", "$readmemh", "$readmemb"}

\* An argument may be empty.
collect_syscall_args(es) ==
  Listed([k \in 1..Len(es) |->
            IF es[k] = <<"Empty">> THEN <<"Empty">> ELSE lower_expression(es[k])])

lower_system_task(name, es) ==
  IF name \in SystemTasks THEN <<"SysCall", collect_syscall_args(es)>> ELSE Unsupported

\* The operator of an assignment like += is not read.
lower_statement(s) ==
  CASE s[1] = "Seq" -> lower_seq_block(s)
    [] s[1] = "Par" -> <<"Fork", LowerStmts(s[2])>>
    [] s[1] = "If" -> lower_conditional(s)
    [] s[1] = "Case" -> lower_case(s)
    [] s[1] \in {"Assign", "OpAssign"} -> Blocking(s[2], Last(s))
    [] s[1] = "Nba" -> <<"NbaAssign", lower_var_lvalue(s[2]), lower_expression(s[3])>>
    [] s[1] \in {"Delay", "Event"} -> lower_timing_ctrl(s)
    [] s[1] = "Task" -> <<"TaskCall", s[2], collect_tf_call_args(s[3])>>
    [] s[1] = "SysTask" -> lower_system_task(s[2], s[3])
    [] s[1] \in {"For", "While", "Repeat", "Forever"} -> lower_loop_stmt(s)
    [] s[1] = "Disable" -> <<"Disable", s[2]>>
    [] s[1] = "Other" -> Unsupported

\* The statement behind an event control of an always is its body.
split_timing_from_stmt(s) ==
  IF s[1] = "Event" THEN <<<<lower_event_control(s[2])>>, s[3]>> ELSE <<<<>>, s>>

AlwaysConstruct(split) == [sensitivity |-> split[1], body |-> lower_stmt_or_null(split[2])]
lower_always(s) == AlwaysConstruct(split_timing_from_stmt(s))
lower_initial(s) == [body |-> lower_stmt_or_null(s)]

\* Some part of a statement is not supported.
RECURSIVE RefusedStmt(_)
RefusedStmt(s) ==
  LET any(ss) == \E k \in 1..Len(ss) : RefusedStmt(ss[k])
      anyexpr(es) == \E k \in 1..Len(es) : Refused(es[k])
  IN CASE s[1] = "Unsupported" -> TRUE
       [] s[1] \in {"Block", "Fork"} -> any(s[2])
       [] s[1] = "NamedBlock" -> any(s[3])
       [] s[1] = "If" -> Refused(s[2]) \/ RefusedStmt(s[3]) \/ any(s[4])
       [] s[1] = "Case" ->
            \/ Refused(s[3]) \/ any(s[5])
            \/ \E k \in 1..Len(s[4]) : anyexpr(s[4][k][1]) \/ RefusedStmt(s[4][k][2])
       [] s[1] \in {"BlockingAssign", "NbaAssign"} -> Refused(s[2]) \/ Refused(s[3])
       [] s[1] \in {"Delay", "EventCtl"} -> RefusedStmt(s[3])
       [] s[1] \in {"While", "Repeat"} -> Refused(s[2]) \/ RefusedStmt(s[3])
       [] s[1] = "Forever" -> RefusedStmt(s[2])
       [] s[1] = "For" -> RefusedStmt(s[3]) \/ Refused(s[4]) \/ any(<<s[5], s[6]>>)
       [] s[1] = "SysCall" -> anyexpr(s[2])
       [] OTHER -> FALSE
=============================================================================
