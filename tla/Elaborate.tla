----------------------------- MODULE Elaborate -----------------------------
(***************************************************************************)
(* elaborate, elab_module, elab_generate_items, elab_assign and elab_tran of  *)
(* crates/elab/src/elaborate.rs: a hierarchy of modules becomes one flat       *)
(* design.                                                                 *)
(*                                                                         *)
(* The recursive descent of the code is a stack of jobs, one for each           *)
(* declaration, assignment, process, instance, connection and generate          *)
(* construct.  A job is <<kind, scope, item>>, and an action does the job on     *)
(* top; a module puts its items in its place.  What the code returns as an       *)
(* error is ctx.failed, and nothing is done after it.                         *)
(*                                                                         *)
(* A design is [top, modules]; a module and the items of a generate construct   *)
(* are records of the sections of hir::Module and GenerateItems.                 *)
(***************************************************************************)
EXTENDS LowerStmt

CONSTANTS
  Designs,  \* the designs that are elaborated
  MaxIters  \* MAX_GENERATE_ITERS, 4096 in the code

ASSUME ElaborateAssumption == MaxIters \in Nat

VARIABLES
  design,  \* the one that is elaborated
  work,    \* the jobs that are left, the next one first
  ctx,     \* the ElabCtx
  phase,   \* "elaborating", "done" or "failed"
  tables   \* what elaborate() derives from all continuous assignments

vars == <<design, work, ctx, phase, tables>>

-----------------------------------------------------------------------------
(* The context *)

NoEntries == [k \in {} |-> 0]

ElabCtx ==
  [nets |-> <<>>, mems |-> <<>>, scopes |-> <<>>, conts |-> <<>>, processes |-> <<>>,
   scope_nets |-> NoEntries, scope_mems |-> NoEntries, scope_params |-> NoEntries,
   scope_funcs |-> NoEntries, scope_tasks |-> NoEntries, scope_blocks |-> NoEntries,
   next_block_id |-> 0, sensitivity_table |-> NoEntries,
   pending_port_aliases |-> NoEntries, net_resolve |-> NoEntries,
   trireg_charge_strength |-> NoEntries, net_pulls |-> NoEntries,
   tran_switches |-> <<>>, failed |-> FALSE]

alloc_scope(c, parent, name) ==
  [c EXCEPT !.scopes = Append(@, [parent |-> parent, name |-> name])]

\* The entry of key in a table of sequences, with v behind it.
PushTo(table, key, v) ==
  (key :> Append(IF key \in DOMAIN table THEN table[key] ELSE <<>>, v)) @@ table

\* The rule of the last net by the type it is declared with.
set_net_type(c, type, charge) ==
  LET id == Len(c.nets)
      pull(up) == <<0, c.nets[id].width, up, PULL>>
  IN CASE type = "wire" -> c
       [] type \in {"wand", "wor", "supply0", "supply1"} ->
            [c EXCEPT !.net_resolve = (id :> type) @@ @]
       [] type = "trireg" ->
            [c EXCEPT !.net_resolve = (id :> type) @@ @,
                      !.trireg_charge_strength = (id :> charge) @@ @]
       [] type \in {"tri0", "tri1"} ->
            [c EXCEPT !.net_pulls = PushTo(@, id, pull(type = "tri1"))]

\* The width that a declaration gives, at least 1.
DeclaredWidth(c, scope, width_expr, otherwise) ==
  Maximum(1, OrElse(eval_const_hir(c, scope, width_expr), otherwise))

RegisterParam(c, scope, name, value, width) ==
  [c EXCEPT !.scope_params = With(@, scope, name, [value |-> value, width |-> width])]

-----------------------------------------------------------------------------
(* Declarations *)

\* Parameters, with defaults before they are registered, then the overrides,
\* then the local ones, which see those before them.
Parameters(c, scope, hir, overrides) ==
  LET n == Len(hir.params)
      default(k) == OrElse(eval_const_hir(c, scope, hir.params[k].value), 0)
      defaults == [p \in {hir.params[k].name : k \in 1..n} |->
                     default(CHOOSE k \in 1..n : hir.params[k].name = p)]
      values[k \in 0..Len(hir.locals)] ==
        IF k = 0 THEN overrides @@ defaults
        ELSE LET lp == hir.locals[k]
                 v == eval_const_hir_with(c, scope, lp.value, values[k - 1])
             IN  IF v = <<>> THEN values[k - 1] ELSE (lp.name :> v[1]) @@ values[k - 1]
      declared == hir.params \o hir.locals
      width(name) ==
        LET ks == {k \in 1..Len(declared) : declared[k].name = name}
        IN  IF ks = {} THEN IntWidth
            ELSE hir_const_width(declared[CHOOSE k \in ks : \A j \in ks : j <= k].value)
      all == values[Len(hir.locals)]
  IN  [c EXCEPT !.scope_params =
         [k \in {<<scope, name>> : name \in DOMAIN all} |->
            [value |-> all[k[2]], width |-> width(k[2])]] @@ @]

\* A port; one that is aliased is the net of the parent.
Port(c, scope, item) ==
  LET port == item.port
      kind == IF port.direction = "output" /\ port.type = "wire" THEN "Reg" ELSE "Wire"
      width == DeclaredWidth(c, scope, port.width_expr, port.width)
      parent_net == item.alias[1]
  IN  IF item.alias # <<>>
      THEN IF c.nets[parent_net].width # width THEN [c EXCEPT !.failed = TRUE]
           ELSE [c EXCEPT !.scope_nets = With(@, scope, port.name, parent_net)]
      ELSE set_net_type(NewNet(c, scope, port.name, width, kind, port.signed),
                        port.type, MEDIUM)

Reg(c, scope, r) ==
  NewNet(c, scope, r.name, DeclaredWidth(c, scope, r.width_expr, r.width), "Reg", r.signed)

Net(c, scope, n) ==
  set_net_type(NewNet(c, scope, n.name, DeclaredWidth(c, scope, n.width_expr, n.width),
                      n.kind, n.signed), n.type, n.charge)

Mem(c, scope, m) ==
  [c EXCEPT !.mems = Append(@, [name |-> m.name, scope |-> scope,
                depth |-> OrElse(eval_const_hir(c, scope, m.depth), 1),
                elem_width |-> OrElse(eval_const_hir(c, scope, m.elem_width), 8)]),
            !.scope_mems = With(@, scope, m.name, Len(c.mems) + 1)]

\* A local parameter of a generate construct, registered at once.
Local(c, scope, lp) ==
  LET v == eval_const_hir(c, scope, lp.value)
  IN  IF v = <<>> THEN c
      ELSE RegisterParam(c, scope, lp.name, v[1], hir_const_width(lp.value))

\* The nets of a function or a task: its arguments, with widths of the scope
\* around, and its variables.
Formals(c, scope, inner, args, locals) ==
  LET arg[k \in 0..Len(args)] ==
        IF k = 0 THEN c
        ELSE NewNet(arg[k - 1], inner, args[k].name,
               DeclaredWidth(c, scope, args[k].width_expr, 1), "Reg", args[k].signed)
      local[k \in 0..Len(locals)] ==
        IF k = 0 THEN arg[Len(args)] ELSE Reg(local[k - 1], inner, locals[k])
  IN  local[Len(locals)]

WithFunction(c, scope, f, ret, body) ==
  [c EXCEPT !.scope_funcs = With(@, scope, f.name,
     [args |-> [k \in 1..Len(f.args) |-> ret + k], ret |-> ret, body |-> body])]

\* The scope of a function or a task is the next one, and its nets are next.
Function(c, scope, f) ==
  LET inner == Len(c.scopes) + 1
      opened == alloc_scope(c, scope, "$func_" \o f.name)
      named == NewNet(opened, inner, f.name,
                 DeclaredWidth(opened, scope, f.width_expr, f.width), "Reg", f.signed)
      with(lowered) == WithFunction(lowered[1], scope, f, Len(c.nets) + 1, lowered[2])
  IN  with(lower_stmt(Formals(named, scope, inner, f.args, f.locals), inner, f.body))

WithTask(c, scope, t, first, body) ==
  LET param(k) == [net |-> first + k - 1, dir |-> t.args[k].direction]
  IN  [c EXCEPT !.scope_tasks = With(@, scope, t.name,
         [params |-> [k \in 1..Len(t.args) |-> param(k)], body |-> body])]

Task(c, scope, t) ==
  LET inner == Len(c.scopes) + 1
      opened == alloc_scope(c, scope, "$task_" \o t.name)
      with(lowered) == WithTask(lowered[1], scope, t, Len(c.nets) + 1, lowered[2])
  IN  with(lower_stmt(Formals(opened, scope, inner, t.args, t.locals), inner, t.body))

-----------------------------------------------------------------------------
(* Continuous assignments *)

\* lval = expr, a lowered target and a lowered expression.
AddCont(c, lval, expr, delay, strength) ==
  IF BrokenTarget(lval) \/ Broken(expr) THEN [c EXCEPT !.failed = TRUE]
  ELSE [c EXCEPT !.conts = Append(@, [lval |-> lval, expr |-> RhsOf(c, lval, expr),
                                      delay |-> delay, strength |-> strength])]

Cont(c, scope, a) ==
  AddCont(c, lower_lvalue(c, scope, a.lval), lower_expr(c, scope, a.expr),
          a.delay, a.strength)

\* pullup and pulldown: no assignment but bits [lo, width] of a net and the
\* value they are pulled to.
Pull(c, scope, a) ==
  LET id == resolve_net(c, scope, a.lval[2])
      at(k) == eval_const_hir(c, scope, a.lval[k])
      fails == \/ a.expr[1] # "Const" \/ a.lval[1] \notin {"Net", "IndexSel", "PartSelect"}
               \/ id = <<>>
               \/ a.lval[1] = "IndexSel" /\ at(3) = <<>>
               \/ a.lval[1] = "PartSelect" /\ (at(3) = <<>> \/ at(4) = <<>>)
      range == CASE a.lval[1] = "Net" -> <<0, c.nets[id[1]].width>>
                 [] a.lval[1] = "IndexSel" -> <<at(3)[1], 1>>
                 [] a.lval[1] = "PartSelect" -> <<at(4)[1], at(3)[1] - at(4)[1] + 1>>
      up == Num(resize(a.expr[2], 1)) # 0
  IN  IF fails THEN [c EXCEPT !.failed = TRUE]
      ELSE [c EXCEPT !.net_pulls =
              PushTo(@, id[1], <<range[1], range[2], up, a.strength[1]>>)]

\* tran: two nets of one width, and a hidden net that has the condition.
elab_tran(c, scope, a) ==
  LET ends == <<resolve_net(c, scope, a.lval[2]), resolve_net(c, scope, a.tran[1].other)>>
      net(k) == c.nets[ends[k][1]]
      fails == \/ a.lval[1] # "Net" \/ ends[1] = <<>> \/ ends[2] = <<>>
               \/ net(1).kind # "Wire" \/ net(2).kind # "Wire"
               \/ net(1).width # net(2).width
      en == Len(c.nets) + 1
      hidden == [c EXCEPT !.nets = Append(@, [name |-> "$tran_en", scope |-> scope,
                            width |-> 1, kind |-> "Wire", signed |-> FALSE])]
      cond == AddCont(hidden, <<"Net", en>>, lower_expr(hidden, scope, a.expr), 0, a.strength)
  IN  IF fails THEN [c EXCEPT !.failed = TRUE]
      ELSE [cond EXCEPT !.tran_switches = Append(@,
              [a |-> ends[1][1], b |-> ends[2][1], en |-> en,
               invert |-> a.tran[1].invert, resistive |-> a.tran[1].resistive])]

elab_assign(c, scope, a) ==
  IF a.weak THEN Pull(c, scope, a)
  ELSE IF a.tran # <<>> THEN elab_tran(c, scope, a) ELSE Cont(c, scope, a)

-----------------------------------------------------------------------------
(* Processes *)

AddProcess(c, scope, kind, body, sens) ==
  [c EXCEPT !.processes = Append(@, [scope |-> scope, body |-> body, kind |-> kind,
                                     sensitivity |-> sens])]

Initial(c, scope, p) ==
  LET with(lowered) == AddProcess(lowered[1], scope, "Initial", lowered[2], <<"Items", {}>>)
  IN  with(lower_stmt(c, scope, p.body))

\* The process that was added last is found by the nets it waits for.
ListedUnder(c, nets) ==
  [c EXCEPT !.sensitivity_table =
     [n \in DOMAIN @ \cup nets |->
        (IF n \in DOMAIN @ THEN @[n] ELSE {})
          \cup (IF n \in nets THEN {Len(c.processes)} ELSE {})]]

WithAlways(c, scope, body, sens) ==
  ListedUnder(AddProcess(c, scope, "Always", body, sens),
              IF sens[1] = "Items" THEN {item.net : item \in sens[2]} ELSE {})

Always(c, scope, p) ==
  LET sens(lowered) ==
        IF p.sensitivity = <<>> THEN <<"Items", {}>>
        ELSE lower_sensitivity(lowered[1], scope, p.sensitivity[1], lowered[2])
      with(lowered) ==
        IF p.sensitivity # <<>> /\ BrokenSensitivity(lowered[1], scope, p.sensitivity[1])
        THEN [c EXCEPT !.failed = TRUE]
        ELSE WithAlways(lowered[1], scope, lowered[2], sens(lowered))
  IN  with(lower_stmt(c, scope, p.body))

-----------------------------------------------------------------------------
(* Instances *)

\* The positions of the ports of a module with this name.
PortsNamed(submodule, name) ==
  {k \in 1..Len(submodule.ports) : submodule.ports[k].name = name}
FirstOf(S) == CHOOSE k \in S : \A j \in S : k <= j

\* The port of the idx-th connection of an instance, <<>> when there is none.
PortOf(submodule, conn, idx) ==
  LET ks == IF conn.name # <<>> THEN PortsNamed(submodule, conn.name[1])
                                ELSE {idx} \cap (1..Len(submodule.ports))
  IN  IF ks = {} THEN <<>> ELSE <<submodule.ports[FirstOf(ks)]>>

Overrides(c, scope, inst, submodule) ==
  LET n == Len(inst.params)
      name(k) == IF inst.params[k].name # <<>> THEN inst.params[k].name[1]
                 ELSE IF k <= Len(submodule.params) THEN submodule.params[k].name
                 ELSE "__p" \o ToString(k - 1)
      value(k) == OrElse(eval_const_hir(c, scope, inst.params[k].value), 0)
      last(p) == CHOOSE k \in 1..n :
                   name(k) = p /\ \A j \in 1..n : name(j) = p => j <= k
  IN  [p \in {name(k) : k \in 1..n} |-> value(last(p))]

\* The connections of inout ports, which share the net of the parent.
InoutConnections(inst, submodule) ==
  {k \in 1..Len(inst.ports) :
     LET port == PortOf(submodule, inst.ports[k], k)
     IN  port # <<>> /\ port[1].direction = "inout"}

Aliases(c, scope, inst, submodule) ==
  LET ks == InoutConnections(inst, submodule)
      name(k) == PortOf(submodule, inst.ports[k], k)[1].name
      net(k) == resolve_net(c, scope, inst.ports[k].expr[2])
      fails == \E k \in ks : inst.ports[k].expr[1] # "Net" \/ net(k) = <<>>
  IN  IF fails THEN [c EXCEPT !.failed = TRUE]
      ELSE [c EXCEPT !.pending_port_aliases =
              [p \in {name(k) : k \in ks} |-> net(CHOOSE k \in ks : name(k) = p)[1]] @@ @]

\* A connection as a target: a name, a bit or a part, and nothing else.
expr_as_lvalue(e) ==
  CASE e[1] \in {"Net", "IndexSel"} -> <<e>>
    [] e[1] = "PartSel" -> <<<<"PartSelect", e[2], e[3], e[4]>>>>
    [] OTHER -> <<>>

\* The net of the child drives that of the parent or the other way round.
Connection(c, scope, item) ==
  LET conn == item.conn
      submodule == item.submodule
      port == PortOf(submodule, conn, item.idx)
      name == IF conn.name # <<>> THEN conn.name[1] ELSE port[1].name
      \* a name that no port has takes the direction of the port at its place
      known == IF port # <<>> THEN port
               ELSE IF item.idx \in 1..Len(submodule.ports)
               THEN <<submodule.ports[item.idx]>> ELSE <<>>
      key == <<item.child, name>>
      expr == lower_expr(c, scope, conn.expr)
      lval == expr_as_lvalue(conn.expr)
      child == c.scope_nets[key]
  IN  IF conn.name = <<>> /\ port = <<>> THEN [c EXCEPT !.failed = TRUE]
      ELSE IF name \in item.aliased \/ key \notin DOMAIN c.scope_nets THEN c
      ELSE IF Broken(expr) THEN [c EXCEPT !.failed = TRUE]
      ELSE IF known = <<>> \/ known[1].direction # "output"
      THEN AddCont(c, <<"Net", child>>, expr, 0, STRONG)
      ELSE IF lval = <<>> THEN c
      ELSE AddCont(c, lower_lvalue(c, scope, lval[1]),
                   alloc_expr(c, <<"Net", FALSE, child>>), 0, STRONG)

-----------------------------------------------------------------------------
(* Jobs *)

\* One job for each item of a section.
Jobs(kind, scope, items) == [k \in 1..Len(items) |-> <<kind, scope, items[k]>>]

\* What a module and the items of a generate construct have in common.
Body(scope, items) ==
  Jobs("Assign", scope, items.assigns) \o Jobs("Initial", scope, items.initials)
    \o Jobs("Always", scope, items.alwayses)

Storage(scope, items) ==
  Jobs("Net", scope, items.nets) \o Jobs("Reg", scope, items.regs)
    \o Jobs("Mem", scope, items.mems)

\* elab_generate_items: instances here share no nets.
Generated(scope, items) ==
  Jobs("Local", scope, items.locals) \o Storage(scope, items) \o Body(scope, items)
    \o Jobs("Instance", scope,
            [k \in 1..Len(items.instances) |->
               [inst |-> items.instances[k], shares |-> FALSE]])
    \o Jobs("Generate", scope, items.nested)

\* The sections of a module behind its parameters.
Sections(scope, hir, aliases) ==
  LET alias(p) == IF p.direction = "inout" /\ p.name \in DOMAIN aliases
                  THEN <<aliases[p.name]>> ELSE <<>>
  IN  Jobs("Port", scope, [k \in 1..Len(hir.ports) |->
             [port |-> hir.ports[k], alias |-> alias(hir.ports[k])]])
        \o Storage(scope, hir)
        \o Jobs("Function", scope, hir.functions) \o Jobs("Task", scope, hir.tasks)
        \o Body(scope, hir)
        \o Jobs("Instance", scope,
                [k \in 1..Len(hir.instances) |->
                   [inst |-> hir.instances[k], shares |-> TRUE]])
        \o Generated(scope, hir.generates)

NoTables ==
  [cont_sensitivity |-> NoEntries, mem_sensitivity |-> NoEntries,
   net_drivers |-> NoEntries, tran_nets |-> {}, strength_nets |-> {}]

ModuleJob(parent, name, hir, overrides) ==
  <<"Module", parent, [name |-> name, hir |-> hir, overrides |-> overrides]>>

Init ==
  /\ design \in Designs
  /\ ctx = ElabCtx
  /\ work = <<ModuleJob(0, design.top, design.modules[design.top], NoEntries)>>
  /\ phase = "elaborating"
  /\ tables = NoTables

Doing(kind) ==
  phase = "elaborating" /\ ~ctx.failed /\ work # <<>> /\ Head(work)[1] = kind

\* The job on top leaves a context and jobs in its place.
Do(after(_, _, _), jobs(_, _)) ==
  /\ ctx' = after(ctx, Head(work)[2], Head(work)[3])
  /\ work' = jobs(Head(work)[2], Head(work)[3]) \o Tail(work)
  /\ UNCHANGED <<design, phase, tables>>

NoJobs(scope, item) == <<>>
Unchanged(c, scope, item) == c

\* elab_module takes the aliases that wait for it before it does anything else.
OpenModule ==
  LET scope == Len(ctx.scopes) + 1
      open(c, parent, m) ==
        Parameters(alloc_scope([c EXCEPT !.pending_port_aliases = NoEntries],
                               parent, m.name), scope, m.hir, m.overrides)
  IN  /\ Doing("Module")
      /\ Do(open, LAMBDA parent, m : Sections(scope, m.hir, ctx.pending_port_aliases))

DeclarePort == Doing("Port") /\ Do(Port, NoJobs)
DeclareNet == Doing("Net") /\ Do(Net, NoJobs)
DeclareReg == Doing("Reg") /\ Do(Reg, NoJobs)
DeclareMem == Doing("Mem") /\ Do(Mem, NoJobs)
DeclareFunction == Doing("Function") /\ Do(Function, NoJobs)
DeclareTask == Doing("Task") /\ Do(Task, NoJobs)
DeclareLocal == Doing("Local") /\ Do(Local, NoJobs)
Assign == Doing("Assign") /\ Do(elab_assign, NoJobs)
AddInitial == Doing("Initial") /\ Do(Initial, NoJobs)
AddAlways == Doing("Always") /\ Do(Always, NoJobs)
Connect == Doing("Connect") /\ Do(Connection, NoJobs)

\* The module of an instance, then its connections.
Instantiate ==
  LET known(inst) == inst.module \in DOMAIN design.modules
      submodule(inst) == design.modules[inst.module]
      after(c, scope, i) ==
        IF ~known(i.inst) THEN [c EXCEPT !.failed = TRUE]
        ELSE IF i.shares THEN Aliases(c, scope, i.inst, submodule(i.inst)) ELSE c
      aliased(i) == IF ~i.shares THEN {}
                    ELSE {PortOf(submodule(i.inst), i.inst.ports[k], k)[1].name :
                            k \in InoutConnections(i.inst, submodule(i.inst))}
      connection(i, k) ==
        [conn |-> i.inst.ports[k], idx |-> k, submodule |-> submodule(i.inst),
         child |-> Len(ctx.scopes) + 1, aliased |-> aliased(i)]
      jobs(scope, i) ==
        IF ~known(i.inst) THEN <<>>
        ELSE <<ModuleJob(scope, i.inst.name, submodule(i.inst),
                         Overrides(ctx, scope, i.inst, submodule(i.inst)))>>
               \o Jobs("Connect", scope,
                       [k \in 1..Len(i.inst.ports) |-> connection(i, k)])
  IN  Doing("Instance") /\ Do(after, jobs)

-----------------------------------------------------------------------------
(* Generate constructs *)

Value(scope, e) == OrElse(eval_const_hir(ctx, scope, e), 0)

\* <<"If", cond, then_items, else_items>>
GenerateIf ==
  /\ Doing("Generate") /\ Head(work)[3][1] = "If"
  /\ Do(Unchanged, LAMBDA scope, g :
          Generated(scope, IF Value(scope, g[2]) # 0 THEN g[3] ELSE g[4]))

\* <<"Case", sel, arms, default>>: the first arm with a pattern that equals sel.
GenerateCase ==
  LET hits(scope, g) ==
        {k \in 1..Len(g[3]) : \E j \in 1..Len(g[3][k][1]) :
           Value(scope, g[3][k][1][j]) = Value(scope, g[2])}
      chosen(scope, g) ==
        IF hits(scope, g) # {} THEN <<g[3][FirstOf(hits(scope, g))][2]>> ELSE g[4]
  IN  /\ Doing("Generate") /\ Head(work)[3][1] = "Case"
      /\ Do(Unchanged, LAMBDA scope, g :
              IF chosen(scope, g) = <<>> THEN <<>> ELSE Generated(scope, chosen(scope, g)[1]))

\* <<"For", var, init, cond, step, body>> starts to count.
GenerateFor ==
  /\ Doing("Generate") /\ Head(work)[3][1] = "For"
  /\ Do(Unchanged, LAMBDA scope, g :
          <<<<"Iterate", scope, [for |-> g, i |-> Value(scope, g[3]), count |-> 0]>>>>)

\* Every value of the genvar, the one that ends the loop too, has a scope.
Iterate ==
  LET inner == Len(ctx.scopes) + 1
      open(c, scope, it) ==
        RegisterParam(alloc_scope(c, scope, "$gen_" \o it.for[2] \o "_" \o ToString(it.i)),
                      inner, it.for[2], it.i, IntWidth)
      goes_on(scope, it) ==
        OrElse(eval_const_hir(open(ctx, scope, it), inner, it.for[4]), 0) # 0
  IN  Doing("Iterate") /\ Do(open, LAMBDA scope, it :
            IF ~goes_on(scope, it) THEN <<>>
            ELSE Generated(inner, it.for[6])
                   \o <<<<"Step", inner, [it |-> it, outer |-> scope]>>>>)

\* The next value of the genvar, in the scope of the last one.
StepGenvar ==
  LET next(scope, s) ==
        [s.it EXCEPT !.i = OrElse(eval_const_hir(ctx, scope, s.it.for[5]), s.it.i),
                     !.count = @ + 1]
  IN  Doing("Step") /\ Do(Unchanged, LAMBDA scope, s :
            IF s.it.count + 1 > MaxIters THEN <<>>
            ELSE <<<<"Iterate", s.outer, next(scope, s)>>>>)

-----------------------------------------------------------------------------
(* What elaborate() derives at the end *)

\* The key of a table and the positions in S that P relates it to, where any are.
TableOf(keys, S, P(_, _)) ==
  [k \in {n \in keys : \E i \in S : P(n, i)} |-> {i \in S : P(k, i)}]

\* Drivers <<i, j>>: the j-th part of the i-th assignment is a net or a constant
\* part of a net that can be resolved.
DriversOf(c) ==
  LET part(i, j) == flatten_parts(c.conts[i].lval)[j]
      all == UNION {{<<i, j>> : j \in 1..Len(flatten_parts(c.conts[i].lval))} :
                      i \in 1..Len(c.conts)}
      resolved(n) == \/ c.nets[n].kind = "Wire"
                     \/ n \in DOMAIN c.net_resolve \cup DOMAIN c.net_pulls
      drives(n, ij) == /\ part(ij[1], ij[2])[1] \in {"Net", "PartSelect"}
                       /\ part(ij[1], ij[2])[2] = n /\ resolved(n)
  IN  TableOf(1..Len(c.nets), all, drives)

TranNets(c) ==
  UNION {{c.tran_switches[k].a, c.tran_switches[k].b} : k \in 1..Len(c.tran_switches)}

\* Deviant: a net with one driver needs no resolution whatever it is.
DeviantNeedsResolution(c, n, drivers) == Cardinality(drivers) >= 2

\* One driver is enough for a trireg, a pulled net and the end of a switch.
NeedsResolution(c, n, drivers) ==
  LET rule == IF n \in DOMAIN c.net_resolve THEN c.net_resolve[n] ELSE "wire"
  IN  CASE rule \in {"supply0", "supply1"} -> FALSE
        [] rule = "trireg" -> TRUE
        [] OTHER -> \/ n \in DOMAIN c.net_pulls \cup TranNets(c)
                    \/ Cardinality(drivers) >= 2

NetDrivers(c) ==
  LET all == DriversOf(c)
  IN  [n \in {m \in DOMAIN all : NeedsResolution(c, m, all[m])} |-> all[n]]

\* The nets where some driver, or some pull, has not the usual strength.
StrengthNets(c, net_drivers) ==
  {n \in DOMAIN net_drivers :
     \/ \E ij \in net_drivers[n] : c.conts[ij[1]].strength # STRONG
     \/ /\ n \in DOMAIN c.net_pulls
        /\ \E k \in 1..Len(c.net_pulls[n]) : c.net_pulls[n][k][4] # PULL}

Finish ==
  LET read == [i \in 1..Len(ctx.conts) |-> collect_sensitivity_expr(ctx.conts[i].expr)]
      I == 1..Len(ctx.conts)
  IN  /\ phase = "elaborating" /\ ~ctx.failed /\ work = <<>>
      /\ phase' = "done"
      /\ tables' =
           [cont_sensitivity |->
              TableOf(1..Len(ctx.nets), I, LAMBDA n, i : n \in read[i].nets),
            mem_sensitivity |->
              TableOf(1..Len(ctx.mems), I, LAMBDA m, i : m \in read[i].mems),
            net_drivers |-> NetDrivers(ctx),
            tran_nets |-> TranNets(ctx),
            strength_nets |-> StrengthNets(ctx, NetDrivers(ctx))]
      /\ UNCHANGED <<design, work, ctx>>

\* The first error is what elaborate returns.
Fail ==
  /\ phase = "elaborating" /\ ctx.failed
  /\ phase' = "failed"
  /\ UNCHANGED <<design, work, ctx, tables>>

\* elaborate has returned.
Returned == phase \in {"done", "failed"} /\ UNCHANGED vars

Next ==
  \/ OpenModule \/ DeclarePort \/ DeclareNet \/ DeclareReg \/ DeclareMem
  \/ DeclareFunction \/ DeclareTask \/ DeclareLocal \/ Assign \/ AddInitial
  \/ AddAlways \/ Instantiate \/ Connect \/ GenerateIf \/ GenerateCase
  \/ GenerateFor \/ Iterate \/ StepGenvar \/ Finish \/ Fail
  \/ Returned

Spec == Init /\ [][Next]_vars
=============================================================================
