------------------------------ MODULE Frontend ------------------------------
(***************************************************************************)
(* parse_files of crates/frontend/src/lower.rs, and the elaboration that the   *)
(* driver starts with its result.                                            *)
(*                                                                         *)
(* The source is [top, files]: a file is <<"Unparsable">> or <<"Modules", ms>>,   *)
(* a module is [name, style, params, ports, items] with the style "ansi" or       *)
(* "nonansi".  What is left to lower is todo, one syntax node for each action;     *)
(* hir is the module under construction.  The first error ends the run.          *)
(*                                                                         *)
(* A port of an ansi header is [form, direction, type, signed, dims, name], the     *)
(* form "Net", "Variable" or "Paren".  The other headers have <<"Empty">>,          *)
(* <<"Port", name>>, <<"Named", name, reference>> and <<"Brace">>, with             *)
(* <<"PortDecl", form, direction, type, signed, dims, names>> among the items.      *)
(***************************************************************************)
EXTENDS Elaborate, FrontItem

CONSTANT Sources  \* the sources that are lowered and elaborated

VARIABLES
  source,  \* the one that is lowered
  todo,    \* the syntax nodes that are left, the next one first
  hir      \* the module that is lowered

allVars == <<source, todo, hir, vars>>

-----------------------------------------------------------------------------
(* Ports *)

PortDecl(name, direction, dims, signed, type) ==
  LET width == packed_width_expr(dims)
  IN  [name |-> name, direction |-> direction, width |-> width[1], width_expr |-> width[2],
       signed |-> signed, type |-> type]

\* A port without a direction has that of the port before it, the first is an input.
lower_ansi_ports(ports) ==
  LET direction[k \in 0..Len(ports)] ==
        IF k = 0 THEN "input"
        ELSE IF ports[k].direction = <<>> THEN direction[k - 1]
        ELSE lower_port_direction(ports[k].direction[1])
      paren(p) == p.form = "Paren"
      type(p) == IF p.form # "Net" \/ p.type = <<>> THEN "wire"
                 ELSE net_type_to_resolve[p.type[1]]
      port(p, d) == PortDecl(p.name, d, IF paren(p) THEN <<>> ELSE p.dims,
                             ~paren(p) /\ p.signed, type(p))
  IN  Listed([k \in 1..Len(ports) |-> port(ports[k], direction[k])])

\* The ports of a header that names them, <<>> when one of them is refused.
HeaderNames(header) ==
  LET kept == SelectSeq(header, LAMBDA h : h # <<"Empty">>)
      refused(h) == h[1] = "Brace" \/ (h[1] = "Named" /\ h[3] \notin {<<>>, <<h[2]>>})
  IN  IF \E k \in 1..Len(kept) : refused(kept[k]) THEN <<>>
      ELSE <<Listed([k \in 1..Len(kept) |-> kept[k][2]])>>

\* The directions are declared among the items, the last time for each name; the
\* header gives the order, and it must have the names that are declared: <<ports>>,
\* or <<>> when they are refused.
lower_nonansi_ports(header, items) ==
  LET decls == SelectSeq(items, LAMBDA item : item[1] = "PortDecl")
      names(k) == {decls[k][7][j] : j \in 1..Len(decls[k][7])}
      declared == UNION {names(k) : k \in 1..Len(decls)}
      last(n) == Max({k \in 1..Len(decls) : n \in names(k)})
      type(d) == IF d[2] = "Variable" \/ d[4] = <<>> THEN "wire"
                 ELSE net_type_to_resolve[d[4][1]]
      port(n, d) == PortDecl(n, lower_port_direction(d[3]), d[6], d[5], type(d))
      order == HeaderNames(header)
  IN  IF order = <<>> \/ (\E k \in 1..Len(decls) : decls[k][2] = "Interface")
         \/ {order[1][k] : k \in 1..Len(order[1])} # declared
         \/ Len(order[1]) # Cardinality(declared)
      THEN <<>>
      ELSE <<Listed([k \in 1..Len(order[1]) |-> port(order[1][k], decls[last(order[1][k])])])>>

lower_ports(m) ==
  IF m.style = "ansi" THEN <<lower_ansi_ports(m.ports)>>
  ELSE lower_nonansi_ports(m.ports, m.items)

HirModule(ports, params) ==
  [params |-> params, ports |-> ports, locals |-> <<>>, nets |-> <<>>, regs |-> <<>>,
   mems |-> <<>>, functions |-> <<>>, tasks |-> <<>>, assigns |-> <<>>, initials |-> <<>>,
   alwayses |-> <<>>, instances |-> <<>>, generates |-> NoItems]

-----------------------------------------------------------------------------
(* Files and modules *)

\* The driver's run starts with files; a design that is elaborated has none.
FrontInit ==
  \/ /\ source \in Sources
     /\ todo = Listed([k \in 1..Len(source.files) |-> <<"File", source.files[k]>>])
     /\ hir = HirModule(<<>>, <<>>)
     /\ design = [top |-> source.top, modules |-> NoEntries]
     /\ work = <<>> /\ ctx = ElabCtx /\ phase = "lowering" /\ tables = NoTables
  \/ /\ source = [top |-> "", files |-> <<>>] /\ todo = <<>> /\ hir = HirModule(<<>>, <<>>)
     /\ Init

Item == Head(todo)
Reading(kinds) == phase = "lowering" /\ todo # <<>> /\ Item[1] \in kinds

\* The node leaves the module m and the nodes next to be lowered, or an error.
Leaves(fails, m, next) ==
  /\ phase' = IF fails THEN "failed" ELSE phase
  /\ hir' = IF fails THEN hir ELSE m
  /\ todo' = IF fails THEN <<>> ELSE next \o Tail(todo)
  /\ UNCHANGED <<source, design, work, ctx, tables>>
Takes(fails, m) == Leaves(fails, m, <<>>)

\* Nothing of the modules before is kept when a file does not parse.
ReadFile ==
  /\ Reading({"File"})
  /\ \E file \in {Item[2]} :
       Leaves(file[1] = "Unparsable", hir,
              Listed([k \in 1..Len(file[2]) |-> <<"Module", file[2][k]>>]))

BeginModule ==
  /\ Reading({"Module"})
  /\ \E m \in {Item[2]} :
     \E ports \in {lower_ports(m)}, params \in {lower_param_port_list(m.params)} :
       Leaves(ports = <<>> \/ RefusedValues(params), HirModule(OrElse(ports, <<>>), params),
              m.items \o <<<<"EndModule", m.name>>>>)

\* A module replaces one of the same name.
EndModule ==
  /\ Reading({"EndModule"})
  /\ IF check_generate_errors(hir.generates)
     THEN Takes(TRUE, hir)
     ELSE /\ design' = [design EXCEPT !.modules = (Item[2] :> hir) @@ @]
          /\ todo' = Tail(todo)
          /\ UNCHANGED <<source, hir, work, ctx, phase, tables>>

-----------------------------------------------------------------------------
(* Items of a module: process_mogi *)

\* An item of one of these kinds takes a place behind those of its section.
AddInstance(new) ==
  /\ Reading({"Instance"})
  /\ Takes(new.fails, [hir EXCEPT !.instances = @ \o new.items.instances])
AddDrivers(new) ==
  /\ Reading({"Gates", "Assign"})
  /\ Takes(new.fails, [hir EXCEPT !.assigns = @ \o new.items.assigns])
AddNets(new) ==
  /\ Reading({"NetDecl"})
  /\ Takes(new.fails, [hir EXCEPT !.nets = @ \o new.items.nets,
                                  !.assigns = @ \o new.items.assigns])
AddData(new) ==
  /\ Reading({"DataDecl"})
  /\ Takes(new.fails, [hir EXCEPT !.regs = @ \o new.items.regs,
                                  !.mems = @ \o new.items.mems])
AddLocals(new) ==
  /\ Reading({"Localparam"})
  /\ Takes(new.fails, [hir EXCEPT !.locals = @ \o new.items.locals])
AddProcesses(new) ==
  /\ Reading({"Always", "Initial"})
  /\ Takes(new.fails, [hir EXCEPT !.alwayses = @ \o new.items.alwayses,
                                  !.initials = @ \o new.items.initials])
AddConstructs(new) ==
  /\ Reading({"LoopGenerate", "IfGenerate", "CaseGenerate"})
  /\ Takes(FALSE, [hir EXCEPT !.generates.nested = @ \o new.items.nested])

MergeRegion(new) ==
  /\ Reading({"Region"})
  /\ Takes(FALSE, [hir EXCEPT !.generates = merge_generate_items(@, new.items)])

AddItem ==
  /\ phase = "lowering" /\ todo # <<>>
  /\ \E new \in {LowerItem(Item)} :
       \/ AddInstance(new) \/ AddDrivers(new) \/ AddNets(new) \/ AddData(new)
       \/ AddLocals(new) \/ AddProcesses(new) \/ AddConstructs(new) \/ MergeRegion(new)

AddFunction ==
  /\ Reading({"Function"})
  /\ \E f \in {lower_function_decl(Item)} :
       Takes(RefusedStmt(f.body), [hir EXCEPT !.functions = Append(@, f)])

AddTask ==
  /\ Reading({"Task"})
  /\ \E t \in {lower_task_decl(Item)} :
       Takes(RefusedStmt(t.body), [hir EXCEPT !.tasks = Append(@, t)])

\* defparam, instances of user-defined primitives, specify blocks.
Refuse == Reading({"Defparam", "Udp", "Specify"}) /\ Takes(TRUE, hir)

\* The frontend knows no parameter declarations but those of the header.
Ignore == Reading({"PortDecl", "Parameter", "Other"}) /\ Takes(FALSE, hir)

-----------------------------------------------------------------------------
(* The driver *)

\* elaborate looks for the top module.
StartElaboration ==
  LET known == design.top \in DOMAIN design.modules
  IN  /\ phase = "lowering" /\ todo = <<>>
      /\ phase' = IF known THEN "elaborating" ELSE "failed"
      /\ work' = IF known
                 THEN <<ModuleJob(0, design.top, design.modules[design.top], NoEntries)>>
                 ELSE <<>>
      /\ UNCHANGED <<source, todo, hir, design, ctx, tables>>

FrontNext ==
  \/ ReadFile \/ BeginModule \/ EndModule \/ AddItem \/ AddFunction \/ AddTask
  \/ Refuse \/ Ignore \/ StartElaboration
  \/ Next /\ UNCHANGED <<source, todo, hir>>

FrontSpec == FrontInit /\ [][FrontNext]_allVars
=============================================================================
