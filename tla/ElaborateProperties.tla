------------------------ MODULE ElaborateProperties ------------------------
(***************************************************************************)
(* What an elaborated design must be: the same nets, assignments, processes,  *)
(* switches and pulls as the source, each with the meaning that the source      *)
(* gives it, with tables that miss nothing the simulator needs.               *)
(*                                                                         *)
(* The reference reads the hierarchy of the source by itself: a name belongs   *)
(* to the innermost construct of its module that declares it, found by the       *)
(* path of instance names, and module Source says what expressions and          *)
(* statements mean.  Only the ids of nets are taken from the design.            *)
(***************************************************************************)
EXTENDS Elaborate, Source

CONSTANT Stores  \* how many stores of values the meanings are compared in

ASSUME StoresAssumption == Stores \in Nat \ {0}

-----------------------------------------------------------------------------
(* The ids of names *)

RECURSIVE PathOf(_)
PathOf(s) ==
  IF s = 0 THEN <<>> ELSE Append(PathOf(ctx.scopes[s].parent), ctx.scopes[s].name)

IdsIn(infos, path, name) ==
  {k \in 1..Len(infos) : infos[k].name = name /\ PathOf(infos[k].scope) = path}
NetAt(path, name) == <<"net", FirstOf(IdsIn(ctx.nets, path, name))>>
MemAt(path, name) == <<"mem", FirstOf(IdsIn(ctx.mems, path, name))>>

-----------------------------------------------------------------------------
(* The source, flat: [nets, conts, procs, trans, pulls] *)

Flat0 == [nets |-> {}, conts |-> <<>>, procs |-> <<>>, trans |-> <<>>, pulls |-> {}]

Together(f, g) ==
  [nets |-> f.nets \cup g.nets, conts |-> f.conts \o g.conts, procs |-> f.procs \o g.procs,
   trans |-> f.trans \o g.trans, pulls |-> f.pulls \cup g.pulls]

RECURSIVE All(_)
All(flats) ==
  IF flats = <<>> THEN Flat0 ELSE Together(Head(flats), All(Tail(flats)))

\* Declarations of an environment, the later ones before the earlier ones.
Naming(env, names) == [env EXCEPT !.names = names @@ @]
NamesOf(items) == {items[k].name : k \in 1..Len(items)}
Const(env, e) == OrElse(EvalConst(Consts(env), e), 0)

\* Parameters in order; the values that an instance gives come first.
ParamsOf(env, items, overrides) ==
  LET p(e, item) ==
        <<"param", IF item.name \in DOMAIN overrides THEN overrides[item.name]
                   ELSE Const(e, item.value), hir_const_width(item.value)>>
      j[k \in 0..Len(items)] ==
        IF k = 0 THEN env
        ELSE Naming(j[k - 1], items[k].name :> p(j[k - 1], items[k]))
  IN  j[Len(items)]

Declared(env, path, items) ==
  Naming(env, [n \in NamesOf(items.nets) \cup NamesOf(items.regs) |-> NetAt(path, n)]
                @@ [n \in NamesOf(items.mems) |-> MemAt(path, n)])

\* Functions and tasks see what is declared before them.
Callables(env, path, hir) ==
  LET inner(e, prefix, f) ==
        Naming(e, [n \in NamesOf(f.args) \cup NamesOf(f.locals)
                          \cup IF prefix = "$func_" THEN {f.name} ELSE {} |->
                     NetAt(Append(path, prefix \o f.name), n)])
      func(e, f) == [args |-> [k \in 1..Len(f.args) |-> f.args[k].name],
                     env |-> inner(e, "$func_", f), body |-> f.body]
      task(e, t) == [params |-> [k \in 1..Len(t.args) |->
                                   [name |-> t.args[k].name, dir |-> t.args[k].direction]],
                     env |-> inner(e, "$task_", t), body |-> t.body]
      funcs[k \in 0..Len(hir.functions)] ==
        IF k = 0 THEN env
        ELSE [funcs[k - 1] EXCEPT !.funcs =
                (hir.functions[k].name :> func(funcs[k - 1], hir.functions[k])) @@ @]
      all[k \in 0..Len(hir.tasks)] ==
        IF k = 0 THEN funcs[Len(hir.functions)]
        ELSE [all[k - 1] EXCEPT !.tasks =
                (hir.tasks[k].name :> task(all[k - 1], hir.tasks[k])) @@ @]
  IN  all[Len(hir.tasks)]

Outside == [names |-> NoEntries, funcs |-> NoEntries, tasks |-> NoEntries]

\* The environment inside an instance of hir: nothing of the modules around it.
EnvOf(hir, path, overrides, aliases) ==
  LET params == ParamsOf(ParamsOf(Outside, hir.params, overrides), hir.locals, NoEntries)
      port(n) == IF n \in DOMAIN aliases THEN aliases[n] ELSE NetAt(path, n)
      ports == Naming(params, [n \in NamesOf(hir.ports) |-> port(n)])
  IN  Callables(Declared(ports, path, hir), path, hir)

\* The nets that items declare, with what the resolution needs to know.
NetsOf(env, path, items, variable) ==
  {[path |-> path, name |-> items[k].name, signed |-> items[k].signed,
    width |-> Maximum(1, Const(env, items[k].width_expr)),
    type |-> IF variable THEN "reg"
             ELSE IF "direction" \in DOMAIN items[k] /\ items[k].direction = "output"
                     /\ items[k].type = "wire" THEN "reg"
             ELSE items[k].type] : k \in 1..Len(items)}

\* A pull of the bits sel, which constants select.
FlatPull(a, sel) ==
  <<sel.id, sel.lo, sel.w, Num(resize(a.expr[2], 1)) # 0, a.strength[1]>>

FlatTran(env, a) ==
  [a |-> Entry(env, a.lval[2])[2], b |-> Entry(env, a.tran[1].other)[2], e |-> a.expr,
   env |-> env, invert |-> a.tran[1].invert, resistive |-> a.tran[1].resistive]

FlatCont(env_lv, lv, env, e, delay, strength) ==
  [lv |-> lv, env_lv |-> env_lv, e |-> e, env |-> env, delay |-> delay,
   strength |-> strength]

FlatAssign(env, a) ==
  IF a.weak
  THEN [Flat0 EXCEPT !.pulls =
          {FlatPull(a, Select(ctx, env, a.lval, Entry(env, a.lval[2]),
                              ConstOf(env, a.lval[3]), ConstOf(env, a.lval[4])))}]
  ELSE IF a.tran # <<>> THEN [Flat0 EXCEPT !.trans = <<FlatTran(env, a)>>]
  ELSE [Flat0 EXCEPT !.conts = <<FlatCont(env, a.lval, env, a.expr, a.delay, a.strength)>>]

FlatProcess(env, kind, p) ==
  [Flat0 EXCEPT !.procs =
     <<[kind |-> kind, body |-> p.body, env |-> env,
        sens |-> IF kind = "Initial" THEN <<>> ELSE p.sensitivity]>>]

RECURSIVE FlatModule(_, _, _, _)
RECURSIVE FlatGenerate(_, _, _)
RECURSIVE FlatItems(_, _, _)

PortAt(hir, inst, k) == PortOf(hir, inst.ports[k], k)[1]

\* The values that an instance gives to parameters.
Given(env, hir, inst) ==
  LET name(k) == IF inst.params[k].name # <<>> THEN inst.params[k].name[1]
                 ELSE hir.params[k].name
  IN  [n \in {name(k) : k \in 1..Len(inst.params)} |->
         Const(env, inst.params[CHOOSE k \in 1..Len(inst.params) : name(k) = n].value)]

\* The nets that stand for the shared ports.
Shared(env, hir, inst) ==
  LET shared == {k \in 1..Len(inst.ports) : PortAt(hir, inst, k).direction = "inout"}
  IN  [n \in {PortAt(hir, inst, k).name : k \in shared} |->
         Entry(env, inst.ports[CHOOSE k \in shared : PortAt(hir, inst, k).name = n].expr[2])]

Connected(lv, env_lv, e, env) ==
  [Flat0 EXCEPT !.conts = <<FlatCont(env_lv, lv, env, e, 0, STRONG)>>]

\* A port that is not shared is joined in its direction.
FlatConnection(env, child, e, port, aliases) ==
  IF port.name \in DOMAIN aliases THEN Flat0
  ELSE IF port.direction = "output" THEN Connected(e, env, <<"Net", port.name>>, child)
  ELSE Connected(<<"Net", port.name>>, child, e, env)

FlatChild(env, hir, inner, inst, child, aliases) ==
  Together(FlatModule(hir, inner, child, aliases),
           All(Listed([k \in 1..Len(inst.ports) |->
                         FlatConnection(env, child, inst.ports[k].expr,
                                        PortAt(hir, inst, k), aliases)])))

FlatSharing(env, hir, inner, inst, aliases) ==
  FlatChild(env, hir, inner, inst,
            EnvOf(hir, inner, Given(env, hir, inst), aliases), aliases)

FlatInstance(env, path, inst, hir, shares) ==
  FlatSharing(env, hir, Append(path, inst.name), inst,
              IF shares THEN Shared(env, hir, inst) ELSE NoEntries)

\* What follows the declarations.
FlatBody(env, path, items, nested, shares) ==
  All(<<[Flat0 EXCEPT !.nets = NetsOf(env, path, items.nets, FALSE)
                                 \cup NetsOf(env, path, items.regs, TRUE)],
        All(Listed([k \in 1..Len(items.assigns) |-> FlatAssign(env, items.assigns[k])])),
        All(Listed([k \in 1..Len(items.initials) |->
                      FlatProcess(env, "Initial", items.initials[k])])),
        All(Listed([k \in 1..Len(items.alwayses) |->
                      FlatProcess(env, "Always", items.alwayses[k])])),
        All(Listed([k \in 1..Len(items.instances) |->
                      FlatInstance(env, path, items.instances[k],
                                   design.modules[items.instances[k].module], shares)])),
        All(Listed([k \in 1..Len(nested) |-> FlatGenerate(env, path, nested[k])]))>>)

FlatModule(hir, path, env, aliases) ==
  Together([Flat0 EXCEPT !.nets = {n \in NetsOf(env, path, hir.ports, FALSE) :
                                     n.name \notin DOMAIN aliases}],
           Together(FlatBody(env, path, hir, <<>>, TRUE),
                    FlatItems(env, path, hir.generates)))

FlatItems(env, path, items) ==
  FlatBody(Declared(ParamsOf(env, items.locals, NoEntries), path, items), path, items,
           items.nested, FALSE)

\* The iterations of a loop that has n of them at most.
RECURSIVE FlatLoop(_, _, _, _, _)
FlatRound(env, inner, path, g, i, n) ==
  IF n = 0 \/ Const(inner, g[4]) = 0 THEN Flat0
  ELSE Together(FlatItems(inner, Append(path, "$gen_" \o g[2] \o "_" \o ToString(i)), g[6]),
                FlatLoop(env, path, g, Const(inner, g[5]), n - 1))
FlatLoop(env, path, g, i, n) ==
  FlatRound(env, Naming(env, g[2] :> <<"param", i, IntWidth>>), path, g, i, n)

\* The items that are chosen, if there are any.
ArmOf(env, g, value) ==
  LET hits == {k \in 1..Len(g[3]) : \E j \in 1..Len(g[3][k][1]) :
                 Const(env, g[3][k][1][j]) = value}
  IN  IF hits = {} THEN g[4] ELSE <<g[3][FirstOf(hits)][2]>>
ItemsOf(env, g, value) ==
  IF g[1] = "If" THEN <<IF value # 0 THEN g[3] ELSE g[4]>> ELSE ArmOf(env, g, value)

FlatGenerate(env, path, g) ==
  IF g[1] = "For" THEN FlatLoop(env, path, g, Const(env, g[3]), MaxIters + 1)
  ELSE All(LET items == ItemsOf(env, g, Const(env, g[2]))
           IN  Listed([k \in 1..Len(items) |-> FlatItems(env, path, items[k])]))

Top == design.modules[design.top]
Flat == FlatModule(Top, <<design.top>>, EnvOf(Top, <<design.top>>, NoEntries, NoEntries),
                   NoEntries)

-----------------------------------------------------------------------------
(* Stores to compare meanings in *)

\* Values of w bits: 0, all ones, alternating bits, and an unknown bit among ones,
\* but for signed nets, since extend_sign makes known ones of an unknown sign.
Sample(w, signed, k) ==
  CASE k % 4 = 0 -> all_bits(w, FALSE)
    [] k % 4 = 1 -> all_bits(w, TRUE)
    [] k % 4 = 2 -> OfNum(w, 5)
    [] k % 4 = 3 -> IF signed THEN OfNum(w, 2)
                    ELSE [width |-> w, a |-> Bits(w), b |-> {w - 1}]
NetSample(n, k) == Sample(ctx.nets[n].width, ctx.nets[n].signed, k)
WordSample(m, k) == Sample(ctx.mems[m].elem_width, FALSE, k)

\* The k-th store: any three nets in a row take all combinations of samples.
Store(k) ==
  [nets |-> Listed([n \in 1..Len(ctx.nets) |-> NetSample(n, k \div 4^(n % 3))]),
   mems |-> [w \in UNION {{<<m, at>> : at \in 0..(ctx.mems[m].depth - 1)} :
                            m \in 1..Len(ctx.mems)} |->
               WordSample(w[1], k + w[2] + 1)],
   nba |-> <<>>]

K == 0..(Stores - 1)

\* The nets of the source, without those inside functions, tasks and loops.
Visible(flat) == {NetAt(n.path, n.name)[2] : n \in flat.nets}

SameStore(flat, s, t) ==
  s.mems = t.mems /\ \A n \in Visible(flat) : s.nets[n] = t.nets[n]

\* What an assignment and a process body of the design do to a store.
Driven(c, st) ==
  LET r == eval_expr(ctx, st, c.expr)
  IN  write_lvalue(ctx, r[2], c.lval, r[1], IsSigned(c.expr))

Executed(p, st) == exec_sync_stmt(ctx, st, p.body)

-----------------------------------------------------------------------------
(* Properties *)

\* The assignments but for those that switch a tran.
Conts ==
  SelectSeq(ctx.conts, LAMBDA c : \A k \in 1..Len(ctx.tran_switches) :
                                    c.lval # <<"Net", ctx.tran_switches[k].en>>)

SameNets(flat) ==
  \A n \in flat.nets :
    LET ids == IdsIn(ctx.nets, n.path, n.name)
        id == FirstOf(ids)
        rule == IF id \in DOMAIN ctx.net_resolve THEN ctx.net_resolve[id] ELSE "wire"
    IN  /\ Cardinality(ids) = 1
        /\ ctx.nets[id].width = n.width /\ ctx.nets[id].signed = n.signed
        /\ (n.type = "reg") = (ctx.nets[id].kind = "Reg")
        /\ rule = IF n.type \in {"wire", "reg", "tri0", "tri1"} THEN "wire" ELSE n.type

SameConts(flat) ==
  /\ Len(Conts) = Len(flat.conts)
  /\ \A i \in 1..Len(Conts) :
       LET f == flat.conts[i]
       IN  /\ Conts[i].delay = f.delay /\ Conts[i].strength = f.strength
           /\ \A k \in K : SameStore(flat, Driven(Conts[i], Store(k)),
                             Assigns(ctx, f.env_lv, f.lv, f.env, f.e, Store(k)))

SameSensitivity(p, f) ==
  IF f.sens = <<>> THEN p.sensitivity = <<"Items", {}>>
  ELSE f.sens[1][1] = "All"
       \/ p.sensitivity = <<"Items", {[edge |-> item.edge,
                                       net |-> Entry(f.env, item.signal)[2]] :
                                        item \in f.sens[1][2]}>>

SameProcesses(flat) ==
  /\ Len(ctx.processes) = Len(flat.procs)
  /\ \A i \in 1..Len(flat.procs) :
       LET p == ctx.processes[i] f == flat.procs[i]
       IN  /\ p.kind = f.kind /\ SameSensitivity(p, f)
           /\ \A k \in K : \A r \in Does(ctx, f.env, Store(k), f.body) :
                SameStore(flat, Executed(p, Store(k)), r.st)

SameSwitches(flat) ==
  /\ Len(ctx.tran_switches) = Len(flat.trans)
  /\ \A i \in 1..Len(flat.trans) :
       LET t == ctx.tran_switches[i] f == flat.trans[i]
       IN  /\ <<t.a, t.b, t.invert, t.resistive>> = <<f.a, f.b, f.invert, f.resistive>>
           /\ \E c \in 1..Len(ctx.conts) :
                /\ ctx.conts[c].lval = <<"Net", t.en>>
                /\ \A k \in K : Driven(ctx.conts[c], Store(k)).nets[t.en]
                                  = For(ctx, f.env, Store(k), f.e, 1)

SamePulls(flat) ==
  LET id(n) == NetAt(n.path, n.name)[2]
      types == {<<id(n), 0, n.width, n.type = "tri1", PULL>> :
                  n \in {m \in flat.nets : m.type \in {"tri0", "tri1"}}}
      pulls == UNION {{<<n>> \o ctx.net_pulls[n][k] : k \in 1..Len(ctx.net_pulls[n])} :
                        n \in DOMAIN ctx.net_pulls}
  IN  pulls = types \cup flat.pulls

\* Elaboration keeps the meaning of the source: in every instance and generate
\* iteration each name is the net, the memory or the parameter value of its own
\* scope, each net has its width, sign and type, each port is joined in its
\* direction or shared, and each assignment, process body, switch and pull does
\* what the source says.
DesignMeansSource ==
  phase = "done" =>
    \A flat \in {Flat} :
      /\ SameNets(flat) /\ SameConts(flat) /\ SameProcesses(flat)
      /\ SameSwitches(flat) /\ SamePulls(flat)

\* Stores that differ in a net, or in a memory, only.
NetStores(k, n) == {SetNet(Store(k), n, NetSample(n, j)) : j \in 0..3}
MemStores(k, m) ==
  {[Store(k) EXCEPT !.mems = [w \in DOMAIN @ |->
      IF w[1] = m THEN WordSample(m, j) ELSE @[w]]] : j \in 0..3}

EntryOf(table, key) == IF key \in DOMAIN table THEN table[key] ELSE {}

IsConstant(c, stores) == Cardinality({eval_expr(ctx, st, c.expr)[1] : st \in stores}) = 1

\* A continuous assignment is listed under every net and every memory that its
\* value can depend on: otherwise nothing evaluates it again when they change.
ContsAreListed ==
  \A i \in 1..Len(ctx.conts) :
    /\ \A n \in 1..Len(ctx.nets) :
         i \in EntryOf(tables.cont_sensitivity, n)
         \/ \A k \in K : IsConstant(ctx.conts[i], NetStores(k, n))
    /\ \A m \in 1..Len(ctx.mems) :
         i \in EntryOf(tables.mem_sensitivity, m)
         \/ \A k \in K : IsConstant(ctx.conts[i], MemStores(k, m))

\* What a body leaves in the other nets does not depend on the net n.
LeavesTheSame(p, n, stores) ==
  Cardinality({[Executed(p, st).nets EXCEPT ![n] = X] : st \in stores}) = 1

\* An always @* that is not woken by everything is woken by every net whose
\* change can change what its body leaves in the other nets.
ProcessesAreListed(flat) ==
  \A i \in 1..Len(flat.procs) :
    (/\ flat.procs[i].sens # <<>> /\ flat.procs[i].sens[1][1] = "All"
     /\ ctx.processes[i].sensitivity[1] = "Items")
    => \A n \in Visible(flat) :
         i \in EntryOf(ctx.sensitivity_table, n)
         \/ \A k \in K : LeavesTheSame(ctx.processes[i], n, NetStores(k, n))

\* No net and no memory is forgotten in what wakes assignments and always @*.
SensitivityIsComplete ==
  phase = "done" => ContsAreListed /\ \A flat \in {Flat} : ProcessesAreListed(flat)

\* The bits [id, bit] that the i-th assignment drives.
DrivenBits(f) ==
  UNION {{<<t.id, b>> : b \in t.lo..(t.lo + t.w - 1)} :
           t \in LET ts == Targets(ctx, f.env_lv, Store(0), f.lv)
                 IN  {ts[k] : k \in 1..Len(ts)}}

\* The position of the i-th of Conts among the assignments.
PositionOf(i) == FirstOf({j \in 1..Len(ctx.conts) : ctx.conts[j] = Conts[i]})

DrivenTwice(bits, drives, id) ==
  \E i, j \in drives : i # j /\ \E b \in bits[i] \cap bits[j] : b[1] = id

NeedsAll(flat, n, id) ==
  \/ n.type \in {"trireg", "tri0", "tri1"}
  \/ \E p \in flat.pulls : p[1] = id
  \/ \E k \in 1..Len(flat.trans) : id \in {flat.trans[k].a, flat.trans[k].b}

HasStrengths(flat, drives, id) ==
  \/ \E i \in drives : flat.conts[i].strength # STRONG
  \/ \E p \in flat.pulls : p[1] = id /\ p[5] # PULL

\* A net of the source is resolved from the assignments in drives.
NetIsResolvedFrom(flat, bits, n, id, drives) ==
  IF n.type \in {"supply0", "supply1"} THEN EntryOf(tables.net_drivers, id) = {}
  ELSE drives # {} /\ (DrivenTwice(bits, drives, id) \/ NeedsAll(flat, n, id)) =>
         /\ \A i \in drives :
              PositionOf(i) \in {ij[1] : ij \in EntryOf(tables.net_drivers, id)}
         /\ HasStrengths(flat, drives, id) => id \in tables.strength_nets
NetIsResolved(flat, bits, n, id) ==
  NetIsResolvedFrom(flat, bits, n, id,
                    {i \in 1..Len(bits) : \E b \in bits[i] : b[1] = id})

\* A net that needs more than the last write, because two assignments drive one
\* of its bits or because it is pulled, keeps a charge or ends a switch, is
\* resolved from all the assignments that drive it, with strengths when one of
\* them or its pull has one of its own.  A supply keeps its constant.
DriversAreResolved ==
  phase = "done" =>
    \A flat \in {Flat} :
    \A bits \in {Listed([i \in 1..Len(flat.conts) |-> DrivenBits(flat.conts[i])])} :
    \A n \in {m \in flat.nets : m.type # "reg"} :
      NetIsResolved(flat, bits, n, NetAt(n.path, n.name)[2])
=============================================================================
