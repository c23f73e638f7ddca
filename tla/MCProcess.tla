----------------------------- MODULE MCProcess -----------------------------
(* Programs for TLC: nested blocks that are disabled, loops, cases, tasks,     *)
(* functions, delays and nonblocking assignments.                           *)
EXTENDS ProcessProperties

N(n) == <<"Net", n>>
C(w, v) == <<"Const", OfNum(w, v)>>
I(v) == <<"SignedConst", OfNum(IntWidth, v)>>
Bits3(z, ones) == <<"Const", [width |-> 3, a |-> ones, b |-> z]>>
Op(op, l, r) == <<"Bin", op, l, r>>
Set(n, e) == <<"BlockingAssign", N(n), e>>
Nba(n, e) == <<"NbaAssign", N(n), e>>
Begin(ss) == <<"Block", ss>>
Named(n, ss) == <<"NamedBlock", n, ss>>
Leave(n) == <<"Disable", n>>
When(c, s) == <<"If", c, s, <<>>>>
Inc(n) == Set(n, Op("Add", N(n), C(3, 1)))
Word(at) == <<"IndexSel", "m", at>>
Call(f, args) == <<"Call", f, args>>
Count == Set("i", Op("Add", N("i"), I(1)))

-----------------------------------------------------------------------------
(* Declarations: x, y, k are regs of 3 bits, n and i integers, m a memory *)

Info(name, scope, width, signed) ==
  [name |-> name, scope |-> scope, width |-> width, kind |-> "Reg", signed |-> signed]

Nets ==
  <<Info("x", 1, 3, FALSE), Info("y", 1, 3, FALSE), Info("k", 1, 3, FALSE),
    Info("n", 1, IntWidth, TRUE), Info("i", 1, IntWidth, TRUE),
    Info("ones", 2, 3, FALSE), Info("v", 2, 3, FALSE), Info("j", 2, IntWidth, TRUE),
    Info("p", 3, 3, FALSE), Info("q", 3, 3, FALSE), Info("o", 3, 3, FALSE)>>

\* ones(v): how many bits of v are 1; a loop within the function.
OnesBody ==
  Begin(<<Set("ones", C(3, 0)),
        <<"For", "j", Set("j", I(0)), Op("Lt", N("j"), I(3)), Set("j", Op("Add", N("j"), I(1))),
          When(<<"IndexSel", "v", N("j")>>, Inc("ones"))>>>>)

\* swap(p, q, o): p and q inout, o an output that is left when they are equal.
SwapBody ==
  Begin(<<Set("o", C(3, 0)),
        Named("swapping",
          <<When(Op("Eq", N("p"), N("q")), Leave("swapping")),
            Set("o", N("p")), <<"Delay", 1, Set("p", N("q"))>>, Set("q", N("o"))>>)>>)

Scopes == <<[parent |-> 0, name |-> "top"], [parent |-> 1, name |-> "$func_ones"],
            [parent |-> 1, name |-> "$task_swap"]>>

NoTable == [key \in {} |-> 0]
Ctx ==
  [nets |-> Nets, mems |-> <<[name |-> "m", scope |-> 1, elem_width |-> 3]>>,
   scopes |-> Scopes,
   scope_nets |-> [key \in {<<Nets[id].scope, Nets[id].name>> : id \in 1..Len(Nets)} |->
                     CHOOSE id \in 1..Len(Nets) :
                       key = <<Nets[id].scope, Nets[id].name>>],
   scope_mems |-> <<1, "m">> :> 1, scope_params |-> NoTable, scope_funcs |-> NoTable,
   scope_tasks |-> NoTable, scope_blocks |-> NoTable, next_block_id |-> 0,
   failed |-> FALSE]

TheRoutines ==
  LET param(id, dir) == [net |-> id, dir |-> dir]
  IN  <<[kind |-> "func", name |-> "ones", scope |-> 2, args |-> <<7>>, ret |-> 6,
         body |-> OnesBody],
        [kind |-> "task", name |-> "swap", scope |-> 3, body |-> SwapBody,
         params |-> <<param(9, "inout"), param(10, "inout"), param(11, "output")>>]>>

Names(ids) == [n \in {Nets[id].name : id \in ids} |->
                 <<"net", CHOOSE id \in ids : Nets[id].name = n>>]
Env ==
  LET top == Names(1..5) @@ ("m" :> <<"mem", 1>>) @@ ("u" :> <<"net", Len(Nets) + 1>>)
      inside(ids) == [names |-> Names(ids) @@ top, funcs |-> NoTable, tasks |-> NoTable]
      formal(n, dir) == [name |-> n, dir |-> dir]
  IN  [names |-> top,
       funcs |-> "ones" :> [args |-> <<"v">>, env |-> inside(6..8), body |-> OnesBody],
       tasks |-> "swap" :>
         [params |-> <<formal("p", "inout"), formal("q", "inout"), formal("o", "output")>>,
          env |-> inside(9..11), body |-> SwapBody]]

-----------------------------------------------------------------------------
(* Programs *)

\* Break out of a loop and go on with it.
Breaks ==
  <<Begin(<<Set("i", I(0)),
          Named("outer",
            <<<<"While", Op("Lt", N("i"), I(4)),
                Named("inner",
                  <<Count, When(Op("Eq", N("x"), N("i")), Leave("inner")),
                    When(Op("Eq", N("y"), C(3, 2)), Begin(<<Inc("k"), Leave("outer")>>)),
                    Inc("y")>>)>>,
              Set("k", N("i"))>>),
          Set("x", N("y"))>>)>>

\* A repeat within a for, whose variable is not declared, left from the inside.
Loops ==
  <<Named("all",
      <<<<"For", "u", Set("u", I(0)), Op("Lt", N("u"), I(2)),
          Set("u", Op("Add", N("u"), I(1))),
          Begin(<<<<"Repeat", N("n"),
                  Begin(<<Inc("y"), When(Op("Eq", N("y"), N("x")), Leave("all"))>>)>>,
                Inc("k")>>)>>,
        Set("k", C(3, 7))>>)>>

Forever ==
  <<Named("loop",
      <<<<"Forever", <<"Delay", 1,
          Begin(<<Nba("y", Op("Add", N("y"), C(3, 1))),
                When(Op("Ge", Call("ones", <<N("y")>>), C(3, 2)), Leave("loop")),
                Nba("k", N("y"))>>)>>>>>>),
    Set("x", N("k"))>>

Arms(kind, sel) ==
  <<"Case", kind, sel,
    <<<<<<Bits3({0}, {2}), Bits3({}, {1})>>, Begin(<<Inc("y"), Inc("k")>>)>>,
      <<<<Bits3({1, 2}, {1}), N("k")>>, Set("k", C(3, 5))>>>>,
    <<Named("else", <<Inc("y"), When(Op("Eq", N("y"), C(3, 2)), Leave("else")),
                      Set("k", C(3, 6))>>)>>>>
Cases(kind) ==
  <<Begin(<<Arms(kind, N("x")), Arms("Case", N("k")),
            <<"If", Op("Lt", N("x"), N("k")), Set("n", I(1)), <<Set("n", I(2))>>>>>>)>>

Tasks == <<<<"TaskCall", "swap", <<N("x"), N("y"), N("k")>>>>,
           Begin(<<<<"TaskCall", "swap", <<N("y"), N("x"), N("k")>>>>, Inc("k")>>)>>

Calls ==
  <<Begin(<<<<"While", Op("Lt", Call("ones", <<N("y")>>), Call("ones", <<N("x")>>)), Inc("y")>>,
          <<"SysCall", <<Call("ones", <<N("k")>>)>>>>>>)>>

Memory ==
  <<Begin(<<<<"For", "i", Set("i", I(0)), Op("Lt", N("i"), I(3)), Count,
            <<"BlockingAssign", Word(N("i")), <<"PartSel", "i", C(4, 2), C(4, 0)>>>>>>,
          Set("y", Word(Word(C(3, 1)))),
          <<"NbaAssign", Word(N("x")), N("k")>>, Set("k", Word(N("x")))>>),
    Set("y", Word(N("x")))>>

\* #0 before the nonblocking assignments, #1 and events after them.
Waits ==
  <<Begin(<<Nba("y", N("x")), Set("x", N("y")),
          <<"Delay", 0, Nba("x", Op("Add", N("y"), C(3, 1)))>>, Nba("x", N("k")),
          <<"EventCtl", <<"Items", {[edge |-> "any", signal |-> "x"]}>>,
            Begin(<<Set("k", N("y")), Nba("k", N("x"))>>)>>>>),
    Set("y", N("k"))>>

\* Registers that feed each other, with a variable of its own for the third.
Swaps ==
  [p \in 1..3 |->
     LET round == CASE p = 1 -> When(Op("Ne", N("x"), C(3, 2)), Nba("x", N("y")))
                    [] p = 2 -> Begin(<<Nba("y", C(3, 7)), <<"Delay", 0, Nba("y", N("x"))>>>>)
                    [] p = 3 -> Begin(<<Set("n", N("x")), Nba("k", Op("Add", N("n"), N("y")))>>)
     IN  <<round, round>>]

Num3(v) == OfNum(3, v)
Known3 == {Num3(v) : v \in {0, 3, 5, 6}}
Odd == [width |-> 3, a |-> {0}, b |-> {0, 2}]   \* Z0X
Some3 == {Num3(v) : v \in {0, 1, 2, 5}} \cup {Odd}
Ints == {OfNum(IntWidth, v) : v \in {0, 1, 3, 2^IntWidth - 1}} \cup {x_of_width(IntWidth)}

Inputs(xs, ys, ks, ns) == {<<x, y, k, n>> : x \in xs, y \in ys, k \in ks, n \in ns}

Program(bodies, inputs) ==
  [ctx |-> Ctx, routines |-> TheRoutines, env |-> Env, bodies |-> bodies, inputs |-> inputs]

Ones3 == {Num3(1)}
Zero == {OfNum(IntWidth, 0)}

MCPrograms ==
  [name \in {"breaks", "loops", "forever", "casez", "casex", "tasks", "calls", "memory", "waits",
             "swaps"} |->
     CASE name = "breaks" -> Program(<<Breaks>>, Inputs(Some3, Some3, Ones3, Zero))
       [] name = "loops" -> Program(<<Loops>>, Inputs(Some3, Some3, Ones3, Ints))
       [] name = "forever" ->
            Program(<<Forever>>, Inputs(Ones3, {Num3(v) : v \in 0..7}, Some3, Zero))
       [] name = "casez" ->
            Program(<<Cases("CaseZ")>>, Inputs(Some3 \cup {Num3(4)}, Some3, Some3, Zero))
       [] name = "casex" ->
            Program(<<Cases("CaseX")>>, Inputs(Some3 \cup {Num3(4)}, Some3, Some3, Zero))
       [] name = "tasks" -> Program(<<Tasks>>, Inputs(Some3, Some3, Ones3, Zero))
       [] name = "calls" -> Program(<<Calls>>, Inputs(Some3, Known3, Some3, Zero))
       [] name = "memory" -> Program(<<Memory>>, Inputs({Num3(v) : v \in 0..2}, Ones3, Some3, Zero))
       [] name = "waits" -> Program(<<Waits>>, Inputs(Some3, Some3, Some3, Zero))
       [] name = "swaps" -> Program(Swaps, Inputs(Some3, Some3, Ones3, Zero))]
=============================================================================
