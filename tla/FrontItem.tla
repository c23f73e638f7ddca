----------------------------- MODULE FrontItem -----------------------------
(***************************************************************************)
(* Declarations, assignments, gates, instances and generate constructs in      *)
(* crates/frontend/src/lower.rs.                                            *)
(*                                                                         *)
(* Items of a module or of a generate construct:                              *)
(*   <<"Assign", strength, delay, pairs>> with pairs <<target, e>>; a strength    *)
(*     is <<>>, <<"Drive", s0, s1>> or <<"Charge", size>>, a delay the sequence    *)
(*     of its values                                                         *)
(*   <<"NetDecl", type, strength, signed, dims, delay, names>> with names         *)
(*     <<name, init>>, and <<"DataDecl", type, signed, dims, names>> with names   *)
(*     <<name, dims>>                                                        *)
(*   <<"Localparam", ps>> with ps <<"localparam", name, value>>                  *)
(*   <<"Function", name, type, ports, decls, ss>> and <<"Task", name, ports,     *)
(*     decls, ss>>, where ports have [direction, name, type] and decls are        *)
(*     <<"Ports", direction, type, names>> or DataDecls; a type is               *)
(*     [kind, signed, dims]                                                  *)
(*   <<"Always", s>>, <<"Initial", s>>, <<"Gates", kind, strength, gates>> with    *)
(*     gates <<targets, inputs>> (both ends of a tran are targets),               *)
(*     <<"Instance", module, overrides, instances>> with instances                *)
(*     <<name, connections>>                                                  *)
(*   <<"LoopGenerate", var, init, cond, step, block>>, <<"IfGenerate", c, then,   *)
(*     else>>, <<"CaseGenerate", e, arms>>, a block being a sequence of items      *)
(*   <<"Region", items>>, <<"Defparam">>, <<"Udp">>, <<"Specify">>, <<"Other">>   *)
(* Values, initial expressions and whatever may be missing are sequences of one   *)
(* or none; a parameter has one value, or min, typ and max.                     *)
(***************************************************************************)
EXTENDS FrontStmt

-----------------------------------------------------------------------------
(* Types and strengths *)

net_type_to_resolve ==
  [wire |-> "wire", tri |-> "wire", uwire |-> "wire", wand |-> "wand", triand |-> "wand",
   wor |-> "wor", trior |-> "wor", tri0 |-> "tri0", tri1 |-> "tri1", trireg |-> "trireg",
   supply0 |-> "supply0", supply1 |-> "supply1"]

lower_port_direction(d) == IF d = "ref" THEN "inout" ELSE d

strength_level == [supply |-> 7, strong |-> 6, pull |-> 5, weak |-> 3, highz |-> 0]

drive_strength(s) == <<strength_level[s[2]], strength_level[s[3]]>>
opt_drive_strength(s) == IF s = <<>> \/ s[1] # "Drive" THEN STRONG ELSE drive_strength(s)

charge_strength(s) ==
  IF s = <<>> \/ s[1] # "Charge" THEN MEDIUM
  ELSE [small |-> 1, medium |-> 2, large |-> 4][s[2]]

\* Only the strength of the side that is pulled to counts.
pull_strength(s, up) ==
  LET level == IF s = <<>> THEN PULL ELSE drive_strength(s)[IF up THEN 2 ELSE 1]
  IN  <<level, level>>

\* A delay is one plain integer: <<value>>, or <<>> when it is refused.
lower_delay3(delay) ==
  IF delay = <<>> THEN <<0>>
  ELSE IF Len(delay) = 1 /\ delay[1][1] = "Number" THEN PlainBelow(delay[1][2], Words)
  ELSE <<>>

-----------------------------------------------------------------------------
(* Parameters, nets and variables *)

\* A parameter without a value is 0.
lower_constant_param_expr(value) ==
  IF value = <<>> THEN <<"Const", Int32(0)>> ELSE lower_constant_mintypmax(value)

lower_localparam(ps) ==
  Listed([k \in 1..Len(ps) |->
            [name |-> ps[k][2], value |-> lower_constant_param_expr(ps[k][3])]])

\* The local parameters of a header are dropped.
lower_param_port_list(ps) ==
  lower_localparam(SelectSeq(ps, LAMBDA p : p[1] = "parameter"))

Driver(lval, expr, delay, strength) ==
  [lval |-> lval, expr |-> expr, delay |-> delay, weak |-> FALSE, tran |-> <<>>,
   strength |-> strength]

\* The nets that a declaration makes, and the assignments of those it initializes.
NetDecl(item, name, width) ==
  [name |-> name, width |-> width[1], width_expr |-> width[2], kind |-> "Wire",
   signed |-> item[4], type |-> net_type_to_resolve[item[2]],
   charge |-> charge_strength(item[3])]
lower_net_decl(item) ==
  LET set == SelectSeq(item[7], LAMBDA n : n[2] # <<>>)
  IN  [nets |-> Listed([k \in 1..Len(item[7]) |->
                  NetDecl(item, item[7][k][1], packed_width_expr(item[5]))]),
       assigns |-> Listed([k \in 1..Len(set) |->
                     Driver(<<"Net", set[k][1]>>, lower_expression(set[k][2][1]),
                            OrElse(lower_delay3(item[6]), 0), opt_drive_strength(item[3]))])]

\* <<literal width, width, signed>> of a variable; only integer is no vector of bits.
tf_type_info(type) ==
  IF type.kind = "integer" THEN <<IntWidth, <<"Const", Int32(IntWidth)>>, TRUE>>
  ELSE packed_width_expr(type.dims) \o <<type.signed>>

\* A variable with an unpacked dimension is a memory.
DataDecl(regs, mems, t) ==
  [regs |-> Listed([k \in 1..Len(regs) |->
              [name |-> regs[k][1], width |-> t[1], width_expr |-> t[2], signed |-> t[3]]]),
   mems |-> Listed([k \in 1..Len(mems) |->
              [name |-> mems[k][1], elem_width |-> t[2],
               depth |-> extract_unpacked_dim_depth(mems[k][2][1])]])]
lower_data_decl(item) ==
  DataDecl(SelectSeq(item[5], LAMBDA n : n[2] = <<>>),
           SelectSeq(item[5], LAMBDA n : n[2] # <<>>),
           tf_type_info([kind |-> item[2], signed |-> item[3], dims |-> item[4]]))

-----------------------------------------------------------------------------
(* Functions and tasks *)

TfArg(name, t, direction) ==
  [name |-> name, width_expr |-> t[2], signed |-> t[3],
   direction |-> IF direction = "const ref" THEN "input" ELSE lower_port_direction(direction)]

\* A port without a direction is an input; one without a name is dropped.
lower_tf_port_items(ports) ==
  LET named == SelectSeq(ports, LAMBDA p : p.name # <<>>)
  IN  Listed([k \in 1..Len(named) |->
                TfArg(named[k].name[1], tf_type_info(named[k].type),
                    OrElse(named[k].direction, "input"))])

ArgsDeclared(d) == Listed([k \in 1..Len(d[4]) |-> TfArg(d[4][k], tf_type_info(d[3]), d[2])])

\* <<arguments, variables>> of the declarations in a body; memories are dropped.
lower_tf_item_decls(decls) ==
  <<FlattenSeq(Listed([k \in 1..Len(decls) |->
                 IF decls[k][1] = "Ports" THEN ArgsDeclared(decls[k]) ELSE <<>>])),
    FlattenSeq(Listed([k \in 1..Len(decls) |->
                 IF decls[k][1] = "Ports" THEN <<>> ELSE lower_data_decl(decls[k]).regs]))>>

FunctionDecl(item, t, inside, body) ==
  [name |-> item[2], width |-> t[1], width_expr |-> t[2], signed |-> t[3],
   args |-> lower_tf_port_items(item[4]) \o inside[1], locals |-> inside[2],
   body |-> <<"Block", body>>]
lower_function_decl(item) ==
  FunctionDecl(item, tf_type_info(item[3]), lower_tf_item_decls(item[5]),
               LowerStmts(SelectSeq(item[6], LAMBDA s : s # <<"Null">>)))

TaskDecl(item, inside, body) ==
  [name |-> item[2], args |-> lower_tf_port_items(item[3]) \o inside[1],
   locals |-> inside[2], body |-> <<"Block", body>>]
lower_task_decl(item) == TaskDecl(item, lower_tf_item_decls(item[4]), LowerStmts(item[5]))

-----------------------------------------------------------------------------
(* Continuous assignments and gates *)

RefusedDriver(d) == Refused(d.lval) \/ Refused(d.expr)
RefusedDrivers(ds) == \E k \in 1..Len(ds) : RefusedDriver(ds[k])

lower_continuous_assign(item) ==
  Listed([k \in 1..Len(item[4]) |->
            Driver(lower_net_lvalue(item[4][k][1]), lower_expression(item[4][k][2]),
                   OrElse(lower_delay3(item[3]), 0), opt_drive_strength(item[2]))])

Inverted(e) == <<"Un", "BitNot", e>>

\* Inputs that are not supported are left out.
NInputOps == "and" :> "BitAnd" @@ "nand" :> "BitAnd" @@ "or" :> "BitOr" @@ "nor" :> "BitOr"
               @@ "xor" :> "BitXor" @@ "xnor" :> "BitXor"
NInputOf(op, inputs) ==
  LET all[k \in 1..Len(inputs)] ==
        IF k = 1 THEN inputs[1] ELSE <<"Bin", op, all[k - 1], inputs[k]>>
  IN  all[Len(inputs)]
NInput(kind, strength, out, inputs) ==
  IF inputs = <<>> \/ Refused(out) THEN <<>>
  ELSE <<Driver(out, IF kind \in {"nand", "nor", "xnor"}
                     THEN Inverted(NInputOf(NInputOps[kind], inputs))
                     ELSE NInputOf(NInputOps[kind], inputs), 0, strength)>>

\* Outputs that are not supported are left out.
NOutput(kind, strength, outs, in) ==
  IF Refused(in) THEN <<>>
  ELSE Listed([k \in 1..Len(outs) |->
         Driver(outs[k], IF kind = "not" THEN Inverted(in) ELSE in, 0, strength)])

\* en ? data : z, or the other way round.
SwitchAssign(lval, data, en, active_low, strength) ==
  Driver(lval, IF active_low THEN <<"Cond", en, <<"Const", Z>>, data>>
               ELSE <<"Cond", en, data, <<"Const", Z>>>>, 0, strength)
switch_assign(lval, data, en, active_low) ==
  SwitchAssign(lval, data, en, active_low, STRONG)

\* Deviant: the data of bufif0 and bufif1 passes as it is.
DeviantEnable(kind, strength, out, data, en) ==
  <<SwitchAssign(out, IF kind \in {"notif0", "notif1"} THEN Inverted(data) ELSE data, en,
                 kind \in {"bufif0", "notif0"}, strength)>>

\* Inverting twice makes x of z.
Enable(kind, strength, out, data, en) ==
  <<SwitchAssign(out, IF kind \in {"notif0", "notif1"} THEN Inverted(data)
                      ELSE Inverted(Inverted(data)), en,
                 kind \in {"bufif0", "notif0"}, strength)>>

PullGate(kind, strength, out) ==
  LET up == kind = "pullup"
  IN  <<[Driver(IF out[1] = "Concat" THEN Unsupported ELSE out,
                <<"Const", OfNum(1, Truth(up))>>, 0, pull_strength(strength, up))
         EXCEPT !.weak = TRUE]>>

Mos(kind, out, data, en) ==
  <<switch_assign(out, data, en, kind \in {"pmos", "rpmos"})>>

\* An nmos and a pmos with one output.
Cmos(out, data, n, p) ==
  <<switch_assign(out, data, n, FALSE), switch_assign(out, data, p, TRUE)>>

\* The terminals are whole nets; without an enable the switch conducts.
tran_assign(a, b, en, invert, resistive) ==
  IF a[1] # "Net" \/ b[1] # "Net" THEN Driver(Unsupported, Unsupported, 0, STRONG)
  ELSE [Driver(a, IF en = <<>> THEN <<"Const", ONE>> ELSE en[1], 0, STRONG)
        EXCEPT !.tran = <<[other |-> b[2], invert |-> invert, resistive |-> resistive]>>]
Pass(kind, a, b, en) ==
  <<tran_assign(a, b, en, kind \in {"tranif0", "rtranif0"},
                kind \in {"rtran", "rtranif0", "rtranif1"})>>

Gate(kind, strength, outs, ins) ==
  LET supported(es) == SelectSeq(es, LAMBDA e : ~Refused(e))
  IN CASE kind \in DOMAIN NInputOps ->
            NInput(kind, opt_drive_strength(strength), outs[1], supported(ins))
       [] kind \in {"buf", "not"} ->
            NOutput(kind, opt_drive_strength(strength), supported(outs), ins[1])
       [] kind \in {"bufif0", "bufif1", "notif0", "notif1"} ->
            Enable(kind, opt_drive_strength(strength), outs[1], ins[1], ins[2])
       [] kind \in {"pullup", "pulldown"} -> PullGate(kind, strength, outs[1])
       [] kind \in {"nmos", "rnmos", "pmos", "rpmos"} -> Mos(kind, outs[1], ins[1], ins[2])
       [] kind \in {"cmos", "rcmos"} -> Cmos(outs[1], ins[1], ins[2], ins[3])
       [] kind \in {"tran", "rtran", "tranif0", "tranif1", "rtranif0", "rtranif1"} ->
            Pass(kind, outs[1], outs[2], ins)

\* The gates of an item, each with its terminals lowered.
lower_gate_inst(item) ==
  FlattenSeq(Listed([k \in 1..Len(item[4]) |->
    Gate(item[2], item[3],
         Listed([j \in 1..Len(item[4][k][1]) |-> lower_net_lvalue(item[4][k][1][j])]),
         LowerEach(item[4][k][2], FALSE))]))

-----------------------------------------------------------------------------
(* Instances *)

lower_param_overrides(overrides) ==
  Listed([k \in 1..Len(overrides) |->
            [name |-> overrides[k][1],
             value |-> IF overrides[k][2] = <<>> THEN <<"Const", Int32(0)>>
                       ELSE lower_mintypmax(overrides[k][2])]])

\* <<name, e>>; what is missing or not supported is 0, and .* is dropped.
PortConnection(name, e) ==
  [name |-> name,
   expr |-> IF e = <<>> \/ Refused(e[1]) THEN <<"Const", ZERO>> ELSE e[1]]
lower_port_connections(conns) ==
  LET kept == SelectSeq(conns, LAMBDA c : c # <<".*">>)
  IN  Listed([k \in 1..Len(kept) |-> PortConnection(kept[k][1], LowerEach(kept[k][2], FALSE))])

\* The first of the instances that an item lists; the others are dropped.
lower_module_inst(item) ==
  [name |-> item[4][1][1], module |-> item[2], params |-> lower_param_overrides(item[3]),
   ports |-> lower_port_connections(item[4][1][2])]

RefusedValues(ps) == \E k \in 1..Len(ps) : Refused(ps[k].value)

-----------------------------------------------------------------------------
(* Generate constructs *)

NoItems ==
  [locals |-> <<>>, nets |-> <<>>, regs |-> <<>>, mems |-> <<>>, assigns |-> <<>>,
   initials |-> <<>>, alwayses |-> <<>>, instances |-> <<>>, nested |-> <<>>,
   errors |-> <<>>]

merge_generate_items(dst, src) ==
  [locals |-> dst.locals \o src.locals, nets |-> dst.nets \o src.nets,
   regs |-> dst.regs \o src.regs, mems |-> dst.mems \o src.mems,
   assigns |-> dst.assigns \o src.assigns, initials |-> dst.initials \o src.initials,
   alwayses |-> dst.alwayses \o src.alwayses, instances |-> dst.instances \o src.instances,
   nested |-> dst.nested \o src.nested, errors |-> dst.errors \o src.errors]

\* What an item adds, and whether it is refused.
Lowered(fails, items) == [fails |-> fails, items |-> items]

RECURSIVE LowerItem(_)

\* A gate or a net that is refused is an error, any other item is dropped.
KeptIn(kind, new) ==
  IF ~new.fails THEN new.items
  ELSE IF kind \in {"Gates", "NetDecl"} THEN [NoItems EXCEPT !.errors = <<kind>>]
  ELSE NoItems
process_generate_mogi(item) == KeptIn(item[1], LowerItem(item))

\* The items of a block, one after the other.
lower_generate_block(items) ==
  LET g[k \in 0..Len(items)] ==
        IF k = 0 THEN NoItems
        ELSE merge_generate_items(g[k - 1], process_generate_mogi(items[k]))
  IN  g[Len(items)]

\* ++ and -- are one step of the genvar.
lower_genvar_iteration(var, step) ==
  IF step[1] \in {"++", "--"}
  THEN <<"Bin", IF step[1] = "--" THEN "Sub" ELSE "Add", <<"Net", var>>, <<"Const", Int32(1)>>>>
  ELSE lower_constant_expr(step)

\* A construct with a constant that is not supported is dropped.
Generate(constants, construct) ==
  IF \E k \in 1..Len(constants) : Refused(constants[k]) THEN <<>> ELSE <<construct>>

ForGenerate(var, init, cond, step, block) ==
  Generate(<<init, cond, step>>, <<"For", var, init, cond, step, block>>)
lower_loop_generate(item) ==
  ForGenerate(item[2], lower_constant_expr(item[3]), lower_constant_expr(item[4]),
              lower_genvar_iteration(item[2], item[5]), lower_generate_block(item[6]))

LowerIfGenerate(item, cond) ==
  Generate(<<cond>>,
           <<"If", cond, lower_generate_block(item[3]), lower_generate_block(item[4])>>)

\* A pattern that is not supported is dropped; the last default counts.
LowerCaseGenerate(item, sel) ==
  LET arms == SelectSeq(item[3], LAMBDA arm : arm[1] = "Arm")
      defaults == SelectSeq(item[3], LAMBDA arm : arm[1] = "Default")
  IN  Generate(<<sel>>,
        <<"Case", sel,
          Listed([k \in 1..Len(arms) |->
                    <<SelectSeq(LowerEach(arms[k][2], TRUE), LAMBDA e : ~Refused(e)),
                      lower_generate_block(arms[k][3])>>]),
          IF defaults = <<>> THEN <<>> ELSE <<lower_generate_block(Last(defaults)[2])>>>>)

lower_conditional_generate(item) ==
  IF item[1] = "IfGenerate" THEN LowerIfGenerate(item, lower_constant_expr(item[2]))
  ELSE LowerCaseGenerate(item, lower_constant_expr(item[2]))

Instances(inst) ==
  Lowered(RefusedValues(inst.params), [NoItems EXCEPT !.instances = <<inst>>])
Drivers(ds, delay) == Lowered(delay = <<>> \/ RefusedDrivers(ds), [NoItems EXCEPT !.assigns = ds])
Nets(new, delay) ==
  Lowered(delay = <<>> \/ RefusedDrivers(new.assigns),
          [NoItems EXCEPT !.nets = new.nets, !.assigns = new.assigns])
Data(new) == Lowered(FALSE, [NoItems EXCEPT !.regs = new.regs, !.mems = new.mems])
Locals(ps) == Lowered(RefusedValues(ps), [NoItems EXCEPT !.locals = ps])
Alwayses(p) == Lowered(RefusedStmt(p.body), [NoItems EXCEPT !.alwayses = <<p>>])
Initials(p) == Lowered(RefusedStmt(p.body), [NoItems EXCEPT !.initials = <<p>>])
Constructs(cs) == Lowered(FALSE, [NoItems EXCEPT !.nested = cs])

\* What the arms of process_mogi and of process_generate_mogi have in common.
LowerItem(item) ==
  CASE item[1] = "Instance" -> Instances(lower_module_inst(item))
    [] item[1] = "Gates" -> Drivers(lower_gate_inst(item), <<0>>)
    [] item[1] = "Assign" -> Drivers(lower_continuous_assign(item), lower_delay3(item[3]))
    [] item[1] = "NetDecl" -> Nets(lower_net_decl(item), lower_delay3(item[6]))
    [] item[1] = "DataDecl" -> Data(lower_data_decl(item))
    [] item[1] = "Localparam" -> Locals(lower_localparam(item[2]))
    [] item[1] = "Always" -> Alwayses(lower_always(item[2]))
    [] item[1] = "Initial" -> Initials(lower_initial(item[2]))
    [] item[1] = "LoopGenerate" -> Constructs(lower_loop_generate(item))
    [] item[1] \in {"IfGenerate", "CaseGenerate"} ->
         Constructs(lower_conditional_generate(item))
    [] item[1] = "Region" -> Lowered(FALSE, lower_generate_block(item[2]))
    [] OTHER -> Lowered(FALSE, NoItems)

\* A construct in g, at any depth, has an error.
RECURSIVE check_generate_errors(_)
check_generate_errors(g) ==
  \/ g.errors # <<>>
  \/ \E k \in 1..Len(g.nested) :
       LET n == g.nested[k]
       IN CASE n[1] = "For" -> check_generate_errors(n[6])
            [] n[1] = "If" -> check_generate_errors(n[3]) \/ check_generate_errors(n[4])
            [] n[1] = "Case" -> \/ \E j \in 1..Len(n[3]) : check_generate_errors(n[3][j][2])
                                \/ n[4] # <<>> /\ check_generate_errors(n[4][1])
=============================================================================
