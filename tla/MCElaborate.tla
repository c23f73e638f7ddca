---------------------------- MODULE MCElaborate ----------------------------
(* Sources for TLC, as the parser leaves them, and designs for TLC: small     *)
(* modules that use every construct of elab_module.                           *)
EXTENDS FrontendProperties

-----------------------------------------------------------------------------
(* Sources *)

Id(x) == <<"Name", x, <<>>, <<>>>>
BitAt(x, e) == <<"Name", x, <<e>>, <<>>>>
PartAt(x, hi, lo) == <<"Name", x, <<>>, <<"Range", hi, lo>>>>
PartFrom(x, base, w) == <<"Name", x, <<>>, <<"Indexed", base, w, TRUE>>>>
Literal(size, signed, base, digits) ==
  <<"Number", [size |-> size, signed |-> signed, base |-> base, digits |-> digits]>>
Dec(digits) == Literal(<<>>, FALSE, 0, digits)
Num1(d) == Dec(<<d>>)
Hex(w, d) == Literal(<<w>>, FALSE, 16, <<d>>)
Op2(l, op, r) == <<"Binary", l, op, r>>
Op1(op, e) == <<"Unary", op, e>>
Parens(e) == <<"Paren", <<e>>>>
If3(c, t, f) == <<"Conditional", c, t, f>>

\* Tokens of ranges.
TN(d) == <<"number", Dec(<<d>>)[2]>>
TX(x) == <<"name", x>>
Plus == <<"+">>
Minus == <<"-">>
Upto(d) == <<<<<<TN(d)>>, <<TN(0)>>>>>>

Assigns1(pairs) == <<"Assign", <<>>, <<>>, pairs>>
Nets1(type, dims, names) == <<"NetDecl", type, <<>>, FALSE, dims, <<>>, names>>
Regs1(dims, names) == <<"DataDecl", "reg", FALSE, dims, names>>
Plainly(names) == [k \in 1..Len(names) |-> <<names[k], <<>>>>]
Vector(dims) == [kind |-> "reg", signed |-> FALSE, dims |-> dims]
Blocks(ss) == <<"Seq", <<>>, ss>>
Gets(x, e) == <<"Assign", Id(x), e>>
OnEdges(ev, s) == <<"Event", <<"Events", ev>>, s>>
Edge(edge, x) == <<"Edge", edge, Id(x)>>

ModuleOf(name, items) ==
  [name |-> name, style |-> "ansi", params |-> <<>>, ports |-> <<>>, items |-> items]
Alone1(top, items) == [top |-> top, files |-> <<<<"Modules", <<ModuleOf("top", items)>>>>>>]

-----------------------------------------------------------------------------
(* Chains of operators and literals, in modules that no one elaborates *)

Ops2 == <<"+", "-", "*", "/", "%", "&&", "||", "&", "|", "^", "~^", "^~", "==", "!=", "===",
          "!==", "<", ">", "<=", ">=", "<<", ">>", "<<<", ">>>">>
OneOfEach == <<"||", "&&", "|", "^", "&", "==", "<", "<<", "+", "*">>
Two(n, k) == <<((k - 1) % n) + 1, ((k - 1) \div n) + 1>>

Chain3(o, p) == Op2(Id("a"), o, Op2(Id("b"), p, Id("c")))
Chain4(o, p, q) == Op2(Id("a"), o, Op2(Id("b"), p, Op2(Id("c"), q, Id("d"))))
Mixed(o, p) ==
  Op2(Op1("-", Id("a")), o, Op2(Parens(Chain3(p, o)), p,
      If3(BitAt("b", Chain3(o, p)), Chain3(p, o),
          Op2(<<"Concat", <<Chain3(o, p)>>>>, p, If3(Id("c"), Id("a"), Id("b"))))))

AllChains ==
  LET n == Len(Ops2) m == Len(OneOfEach)
      y(e) == <<Id("y"), e>>
  IN  [k \in 1..(n * n) |-> y(Chain3(Ops2[Two(n, k)[1]], Ops2[Two(n, k)[2]]))]
        \o [k \in 1..(m * m * m) |->
              y(Chain4(OneOfEach[Two(m, k)[1]], OneOfEach[Two(m, Two(m, k)[2])[1]],
                       OneOfEach[Two(m, Two(m, k)[2])[2]]))]
        \o [k \in 1..(m * m) |-> y(Mixed(OneOfEach[Two(m, k)[1]], OneOfEach[Two(m, k)[2]]))]

\* Literals with all texts of n digits at the ends of their range, x, z and _ among
\* them, for sizes that are less, as much and more than the digits need.
Texts(digits, n) ==
  LET m == Len(digits)
  IN  [k \in 1..m^n |-> [j \in 1..n |-> digits[(((k - 1) \div m^(j - 1)) % m) + 1]]]
Based(base, digits, n, size) ==
  LET texts == SelectSeq(Texts(digits, n), LAMBDA t : t[1] # Underscore)
  IN  [k \in 1..Len(texts) |-> Literal(size, k % 2 = 0, base, texts[k])]

Plain == <<<<7>>, <<2, 5, 5>>, <<2, 5, 6>>, <<2, Underscore, 6, 0>>, <<6, 5, 5, 3, 6>>,
           <<9, 9, 9, 9, 9>>, <<XDigit>>, <<ZDigit>>>>
Decimals(size) == [k \in 1..Len(Plain) |-> Literal(size, TRUE, 10, Plain[k])]

Literals ==
  LET binary == <<0, 1, XDigit, ZDigit, Underscore>>
      octal == <<1, 7, XDigit, ZDigit>>
      hex == <<8, 15, ZDigit>>
  IN  Based(2, binary, 1, <<3>>) \o Based(2, binary, 3, <<>>) \o Based(2, binary, 3, <<2>>)
        \o Based(2, binary, 3, <<9>>) \o Based(8, octal, 1, <<2>>) \o Based(8, octal, 2, <<9>>)
        \o Based(8, octal, 3, <<8>>) \o Based(16, hex, 1, <<>>) \o Based(16, hex, 2, <<12>>)
        \o Based(16, hex, 3, <<10>>) \o Based(16, hex, 3, <<17>>) \o Decimals(<<>>)
        \o Decimals(<<4>>) \o Decimals(<<8>>) \o Decimals(<<9>>) \o Decimals(<<16>>)
        \o Decimals(<<17>>) \o <<Dec(<<0>>), Dec(<<9>>), Dec(<<1, 2, 7>>)>>

ChainsAndLiterals ==
  [top |-> "none",
   files |-> <<<<"Modules", <<ModuleOf("chains", <<Assigns1(AllChains)>>),
                 ModuleOf("literals",
                   <<Assigns1([k \in 1..Len(Literals) |-> <<Id("y"), Literals[k]>>])>>)>>>>>>]

-----------------------------------------------------------------------------
(* Gates of every kind *)

Weakly == <<"Drive", "weak", "pull">>
GateOf(kind, strength, terminals) == <<"Gates", kind, strength, terminals>>
Gates1(kind, terminals) == GateOf(kind, <<>>, terminals)

AllGates ==
  LET a == Id("a") b == Id("b")
      binary(kind) == GateOf(kind, Weakly, <<<<<<Id(kind)>>, <<a, b>>>>>>)
      enable(kind) == GateOf(kind, Weakly, <<<<<<BitAt(kind, Num1(0))>>, <<a, b>>>>>>)
      switch(kind) == Gates1(kind, <<<<<<Id(kind)>>, <<a, b>>>>,
                                    <<<<BitAt(kind, Num1(1))>>, <<b, a>>>>>>)
      pass(kind) == Gates1(kind, <<<<<<Id("p"), Id("q")>>, <<b>>>>>>)
      through(kind) == Gates1(kind, <<<<<<Id("p"), Id("q")>>, <<>>>>>>)
      each(kinds, item(_)) == [k \in 1..Len(kinds) |-> item(kinds[k])]
  IN  each(<<"and", "nand", "or", "nor", "xor", "xnor">>, binary)
        \o each(<<"bufif0", "bufif1", "notif0", "notif1">>, enable)
        \o each(<<"nmos", "rnmos", "pmos", "rpmos">>, switch)
        \o each(<<"tranif0", "tranif1", "rtranif0", "rtranif1">>, pass)
        \o each(<<"tran", "rtran">>, through)
        \o <<Gates1("buf", <<<<<<Id("buf"), <<"Other">>, Id("buf2")>>, <<b>>>>>>),
             Gates1("not", <<<<<<Id("not")>>, <<a>>>>, <<<<Id("not2")>>, <<b>>>>>>),
             Gates1("not", <<<<<<Id("not3")>>, <<<<"Other">>>>>>>>),
             Gates1("and", <<<<<<Id("and2")>>, <<<<"Other">>>>>>,
                             <<<<Id("and3")>>, <<a, b, a>>>>>>),
             Gates1("xor", <<<<<<Id("xor3")>>, <<a, b, Id("c")>>>>>>),
             Gates1("cmos", <<<<<<Id("cmos")>>, <<a, b, Id("c")>>>>>>),
             Gates1("pullup", <<<<<<Id("p")>>, <<>>>>>>),
             GateOf("pulldown", <<"Drive", "supply", "highz">>,
                    <<<<<<PartAt("q", Num1(1), Num1(0))>>, <<>>>>>>)>>

\* What a gate cannot have: the module is refused.
BadGates ==
  {Gates1("tran", <<<<<<BitAt("p", Num1(0)), Id("q")>>, <<>>>>>>),
   Gates1("tranif1", <<<<<<Id("p"), Id("q")>>, <<<<"Other">>>>>>>>),
   Gates1("nmos", <<<<<<Id("y")>>, <<<<"Other">>, Id("b")>>>>>>),
   Gates1("pullup", <<<<<<<<"Concat", <<Id("p"), Id("q")>>>>>>, <<>>>>>>)}

-----------------------------------------------------------------------------
(* A design in two files with every kind of declaration, in both styles of ports *)

Param(x, v) == <<"parameter", x, v>>
Local1(x, v) == <<"localparam", x, v>>
Port1(form, direction, type, dims, x) ==
  [form |-> form, direction |-> direction, type |-> type, signed |-> FALSE, dims |-> dims,
   name |-> x]
Cont1(lv, e) == Assigns1(<<<<lv, e>>>>)
AlwaysOn(control, s) == <<"Always", <<"Event", control, s>>>>
AtEdge(edge, x) == <<"Events", Edge(edge, x)>>
Range2(hi, lo) == <<<<hi, lo>>>>

\* #(parameter W = 2, N = 2 + 1, localparam K = 1)
\* (input [W-1:0] i, input e, f, output reg [N+1-3:0] o, output wand p)
Cell ==
  [name |-> "Cell", style |-> "ansi",
   params |-> <<Param("W", <<Num1(2)>>), Param("N", <<Op2(Num1(2), "+", Num1(1))>>),
                Local1("K", <<Num1(1)>>)>>,
   ports |-> <<Port1("Net", <<"input">>, <<"wire">>, Range2(<<TX("W"), Minus, TN(1)>>, <<TN(0)>>), "i"),
               Port1("Net", <<"input">>, <<>>, <<>>, "e"), Port1("Paren", <<>>, <<>>, <<>>, "f"),
               Port1("Variable", <<"output">>, <<>>,
                     Range2(<<TX("N"), Plus, TN(1), Minus, TN(3)>>, <<TN(0)>>), "o"),
               Port1("Net", <<"output">>, <<"wand">>, <<>>, "p"),
               Port1("Net", <<"ref">>, <<"wire">>, Upto(1), "io")>>,
   items |->
     <<<<"Localparam", <<Local1("M", <<Op2(Id("W"), "+", Num1(1))>>), Local1("Q", <<>>)>>>>,
       Regs1(Upto(1), <<<<"r", <<>>>>, <<"mem", <<<<<<TN(0)>>, <<TX("W"), Minus, TN(1)>>>>>>>>>>),
       <<"NetDecl", "wire", <<>>, FALSE, Range2(<<TX("M"), Minus, TN(1)>>, <<TN(0)>>), <<>>,
         <<<<"t", <<Op2(Id("i"), "+", Op2(Num1(1), "<<", Id("e")))>>>>>>>>,
       AlwaysOn(<<"Star">>, <<"If", Id("e"), <<"Assign", Id("o"), PartAt("t", Num1(1), Num1(0))>>, <<>>,
                              <<<<"Assign", Id("o"), If3(Id("f"), Id("i"), Hex(2, 3))>>>>>>),
       Cont1(Id("p"), Op2(Op1("^", Id("t")), "&", BitAt("i", Num1(0)))),
       Cont1(Id("p"), Op2(Id("f"), "==", Id("e"))),
       Cont1(Id("io"), If3(Id("e"), Id("i"), Literal(<<2>>, FALSE, 2, <<ZDigit>>)))>>]

\* The first definition of Cell, which the second one replaces.
OldCell == [Cell EXCEPT !.params = <<>>, !.ports = <<>>, !.items = <<>>]

\* module Join(x, , .y(y), z);
Join ==
  [name |-> "Join", style |-> "nonansi", params |-> <<Param("W", <<>>)>>,
   ports |-> <<<<"Port", "x">>, <<"Empty">>, <<"Named", "y", <<"y">>>>, <<"Named", "z", <<>>>>>>,
   items |->
     <<<<"PortDecl", "Net", "input", <<>>, FALSE, Upto(1), <<"x">>>>,
       <<"PortDecl", "Net", "output", <<"wor">>, FALSE, <<>>, <<"z">>>>,
       <<"PortDecl", "Variable", "output", <<>>, TRUE, Upto(2), <<"y">>>>,
       Assigns1(<<<<Id("y"), Op2(Id("x"), "*", Op2(Id("x"), "-", Num1(1)))>>,
                  <<Id("z"), Op1("|", Id("x"))>>>>)>>]

Int4 == [kind |-> "integer", signed |-> TRUE, dims |-> <<>>]
TfPort(direction, x, type) == [direction |-> direction, name |-> x, type |-> type]

\* A function in each style, and a task in each style.
OddBits ==
  <<"Function", "odd", Vector(<<>>), <<TfPort(<<>>, <<"v">>, Vector(Upto(1))),
                                      TfPort(<<"input">>, <<>>, Vector(<<>>))>>, <<>>,
    <<<<"Null">>, <<"Assign", Id("odd"), Op1("^", Id("v"))>>>>>>
Larger ==
  <<"Function", "larger", Vector(Upto(1)), <<>>,
    <<<<"Ports", "input", Vector(Upto(1)), <<"v", "w">>>>,
      Regs1(Upto(1), <<<<"k", <<>>>>>>)>>,
    <<<<"Assign", Id("k"), Id("w")>>,
      <<"If", Op2(Id("v"), ">", Id("k")), <<"Assign", Id("larger"), Id("v")>>,
        <<<<<<"Call", "odd", <<Id("v")>>>>, <<"Assign", Id("larger"), Num1(0)>>>>>>,
        <<<<"Assign", Id("larger"), Id("k")>>>>>>>>>>
Swapped ==
  <<"Task", "swap", <<>>,
    <<<<"Ports", "inout", Vector(Upto(1)), <<"p", "q">>>>, <<"DataDecl", "reg", FALSE, Upto(1), <<<<"k", <<>>>>>>>>>>,
    <<<<"Assign", Id("k"), Id("p")>>, <<"Assign", Id("p"), Id("q")>>, <<"Assign", Id("q"), Id("k")>>>>>>
Copied ==
  <<"Task", "copy", <<TfPort(<<"const ref">>, <<"v">>, Vector(Upto(1))),
                     TfPort(<<"output">>, <<"w">>, Vector(Upto(1)))>>, <<>>,
    <<<<"Assign", Id("w"), Id("v")>>, <<"Null">>>>>>

Bound(x, e) == <<<<x>>, <<e>>>>
InTurn3(e) == <<<<>>, <<e>>>>
CellOf(x, i, o, io) ==
  <<"Instance", "Cell", <<<<<<"W">>, <<Num1(2)>>>>>>,
    <<<<x, <<Bound("i", i), Bound("e", BitAt("b", Num1(0))), Bound("f", Id("z")), Bound("o", o),
            Bound("p", Id("p")), Bound("io", io)>>>>>>>>

ForGen(x, init, last, step, block) ==
  <<"LoopGenerate", x, init, Op2(Id(x), "<=", last), step, block>>

\* A loop in a region, with every item that a generate construct can have.
GenRegion ==
  <<"Region",
    <<<<"Localparam", <<Local1("L", <<Op2(Id("P"), "-", Num1(1))>>)>>>>,
      ForGen("g", Num1(0), Id("L"), <<"++">>,
        <<Regs1(Upto(1), <<<<"r", <<>>>>>>), Nets1("wire", Upto(1), Plainly(<<"t">>)),
          Cont1(BitAt("t", Num1(1)), Op2(Id("g"), "^", BitAt("a", Id("g")))),
          Gates1("bufif1", <<<<<<BitAt("t", Num1(0))>>, <<Id("z"), BitAt("b", Id("g"))>>>>>>),
          AlwaysOn(<<"Star">>, <<"Assign", Id("r"), Op2(Id("a"), "+", Id("g"))>>),
          <<"Initial", <<"Assign", Id("r"), Id("g")>>>>,
          CellOf("c", Id("t"), PartAt("v", Num1(1), Num1(0)), Id("r"))>>)>>>>

GenConditional(sel) ==
  <<"CaseGenerate", Op2(Id("P"), "%", Num1(4)),
    <<<<"Arm", <<Num1(5), <<"Other">>>>, <<Cont1(Id("s"), Num1(0))>>>>,
      <<"Default", <<<<"IfGenerate", sel, <<Cont1(Id("s"), Id("a"))>>, <<Cont1(Id("s"), Id("b"))>>>>>>>>,
      <<"Arm", <<Num1(3), Parens(Id("P"))>>, <<Cont1(Id("s"), Op2(Id("a"), "-", Id("b")))>>>>>>>>

TopItems ==
  <<Nets1("wire", Upto(1), Plainly(<<"a", "b", "bus", "s">>)), Nets1("wire", <<>>, Plainly(<<"p", "z">>)),
    Nets1("wire", Range2(<<<<"$clog2(">>, TN(8), <<")">>, Minus, TN(1)>>, <<TN(0)>>), Plainly(<<"v", "y">>)),
    <<"NetDecl", "triand", Weakly, FALSE, <<>>, <<Num1(2)>>, <<<<"w", <<Op1("&", Id("a"))>>>>>>>>,
    <<"NetDecl", "trireg", <<"Charge", "small">>, FALSE, Upto(1), <<>>, Plainly(<<"c">>)>>,
    Nets1("tri1", <<>>, Plainly(<<"u">>)), Nets1("supply0", <<>>, Plainly(<<"l">>)),
    <<"DataDecl", "integer", TRUE, <<>>, Plainly(<<"n">>)>>,
    Regs1(Upto(1), Plainly(<<"r", "q">>)),
    <<"Localparam", <<Local1("P", <<Op2(Num1(1), "+", Parens(Num1(1)))>>)>>>>,
    OddBits, Larger, Swapped, Copied,
    <<"Assign", Weakly, <<Num1(3)>>,
      <<<<Id("u"), Op2(Id("a"), "<", <<"Call", "larger", <<Id("b"), Id("r")>>>>)>>,
        <<<<"Concat", <<PartAt("c", Num1(1), Num1(1)), PartAt("c", Num1(0), Num1(0))>>>>,
          <<"Concat", <<BitAt("a", Id("z")), Op1("~", PartFrom("b", BitAt("a", Num1(0)), Num1(1)))>>>>>>,
        <<PartAt("c", Num1(1), Num1(0)), <<"System", "$signed", <<Id("n")>>>>>>>>>>,
    Gates1("and", <<<<<<Id("p")>>, <<BitAt("a", Num1(0)), Id("z")>>>>>>),
    Gates1("tranif1", <<<<<<Id("bus"), Id("s")>>, <<Id("z")>>>>>>),
    Gates1("pullup", <<<<<<PartAt("bus", Num1(1), Num1(0))>>, <<>>>>>>),
    CellOf("one", Id("a"), Id("s"), Id("bus")),
    <<"Instance", "Join", <<>>, <<<<"two", <<InTurn3(Id("a")), InTurn3(Id("y")), InTurn3(Id("z"))>>>>>>>>,
    AlwaysOn(AtEdge("pos", "z"),
             Blocks(<<<<"OpAssign", Id("r"), "=", Op2(Id("q"), "+", Op2(Id("a"), "*", Id("b")))>>,
                      <<"Task", "copy", <<Id("b"), Id("q")>>>>>>)),
    AlwaysOn(<<"Events", <<"Or", Edge("any", "a"), <<"Paren", <<"Or", Edge("neg", "p"), Edge("any", "n")>>>>>>>>,
             <<"Case", "CaseZ", Id("a"),
               <<<<"Arm", <<Literal(<<2>>, FALSE, 2, <<1, ZDigit>>), Id("b")>>, <<"Assign", Id("n"), Num1(5)>>>>,
                 <<"Default", <<"Assign", Id("n"), Op1("-", Id("n"))>>>>,
                 <<"Arm", <<Num1(1)>>, <<"Null">>>>>>>>),
    <<"Always", <<"Assign", BitAt("q", BitAt("b", Num1(1))), Id("z")>>>>,
    <<"Initial", <<"Task", "swap", <<Id("r"), Id("q")>>>>>>,
    GenRegion, GenConditional(Op2(Id("P"), ">", Num1(1))),
    ForGen("h", Num1(0), Num1(1), Op2(Id("h"), "+", Num1(1)), <<Cont1(Id("v"), Id("h"))>>),
    <<"Parameter">>, <<"Other">>>>

FullDesign ==
  [top |-> "top",
   files |-> <<<<"Modules", <<OldCell, Cell, Join>>>>, <<"Modules", <<ModuleOf("top", TopItems)>>>>>>]

-----------------------------------------------------------------------------
(* Statements and expressions of every kind *)

Stepping(ss) == <<"For", <<<<BitAt("n", Num1(0)), Num1(1)>>, <<Id("n"), Num1(0)>>>>,
                  <<Op2(Id("n"), "<", Num1(3))>>, <<<<"Step", Id("n"), Op2(Id("n"), "+", Num1(1))>>,
                  <<"IncDec", Id("n")>>>>, ss>>
AllStatements ==
  <<<<"Null">>, <<"Par", <<<<"Nba", PartAt("n", Num1(1), Num1(0)), Id("a")>>>>>>,
    <<"Seq", <<"b">>, <<Stepping(<<"Null">>), <<"Disable", "b">>>>>>,
    <<"For", <<>>, <<>>, <<>>, <<"Disable", "b">>>>,
    <<"While", Id("a"), <<"Repeat", Num1(3), <<"Forever", <<"Delay", Num1(5), <<"Null">>>>>>>>>>,
    <<"Delay", Id("a"), <<"Event", <<"Name", "a">>, <<"SysTask", "$display", <<Id("a"), <<"Empty">>>>>>>>>>,
    <<"If", Id("a"), <<"Null">>, <<>>, <<>>>>, <<"Case", "Case", Id("a"), <<>>>>,
    <<"Assign", Id("n"), <<"Call", "f", <<<<"Other">>, Id("b")>>>>>>,
    <<"Assign", <<"Concat", <<PartFrom("n", Id("a"), Num1(2)), Id("b")>>>>, <<"Paren", <<Id("a"), Id("b"), Id("c")>>>>>>,
    <<"Event", <<"Events", <<"Or", Edge("any", "a"),
         <<"Or", <<"Edge", "pos", Op1("&", <<"Concat", <<Num1(1), <<"Call", "f", <<>>>>>>>>)>>,
           <<"Or", <<"Edge", "neg", If3(Num1(1), Op2(Num1(1), "+", <<"System", "$signed", <<Id("b")>>>>), Id("a"))>>,
             <<"Edge", "any", Num1(1)>>>>>>>>>>, <<"Null">>>>>>

BadStatements ==
  {<<"SysTask", "$gone", <<>>>>, <<"SysTask", "$display", <<<<"Other">>>>>>, <<"Other">>,
   <<"Seq", <<"b">>, <<<<"Other">>>>>>, <<"Par", <<<<"Other">>>>>>,
   <<"If", <<"Other">>, <<"Null">>, <<>>, <<>>>>, <<"If", Id("a"), <<"Null">>, <<>>, <<<<"Other">>>>>>,
   <<"Case", "Case", Op1("~", <<"Other">>), <<>>>>,
   <<"Case", "Case", Id("a"), <<<<"Arm", <<<<"System", "$signed", <<>>>>>>, <<"Null">>>>>>>>,
   <<"Case", "Case", Id("a"), <<<<"Default", <<"Other">>>>>>>>,
   <<"Assign", <<"Other">>, Id("a")>>, <<"Nba", Id("a"), BitAt("a", <<"Other">>)>>,
   <<"Delay", Num1(1), <<"Other">>>>, <<"While", <<"Other">>, <<"Null">>>>,
   <<"Repeat", <<"Text", <<>>>>, <<"Null">>>>, <<"Forever", <<"Other">>>>,
   <<"For", <<<<<<"Other">>, Num1(0)>>>>, <<>>, <<>>, <<"Null">>>>,
   <<"For", <<>>, <<<<"Concat", <<<<"Other">>>>>>>>, <<>>, <<"Null">>>>,
   <<"For", <<>>, <<>>, <<<<"Step", Id("a"), Op1("?", Id("a"))>>>>, <<"Null">>>>,
   <<"For", <<>>, <<>>, <<>>, <<"Other">>>>,
   <<"Assign", Id("a"), Op2(Id("a"), "**", Id("b"))>>,
   <<"Assign", Id("a"), Op2(Parens(Id("a")), "+", If3(Id("a"), Id("b"), <<"Other">>))>>}

-----------------------------------------------------------------------------
(* What the frontend refuses, and what it drops in a generate construct *)

InLoop(items) == ForGen("g", Num1(0), Num1(0), <<"++">>, items)
Tri == Nets1("wire", <<>>, Plainly(<<"p", "q", "b", "y">>))

BadItems ==
  BadGates
    \cup {<<"Initial", s>> : s \in BadStatements} \cup {<<"Always", s>> : s \in BadStatements}
    \cup {Cont1(Id("y"), <<"Other">>), Cont1(<<"Other">>, Id("b")),
          Cont1(<<"Concat", <<<<"Other">>>>>>, Id("b")), Cont1(PartFrom("y", Num1(0), Num1(1)), Id("b")),
          <<"Assign", <<>>, <<Num1(1), Num1(2)>>, <<<<Id("y"), Id("b")>>>>>>,
          <<"NetDecl", "wire", <<>>, FALSE, <<>>, <<Id("b")>>, Plainly(<<"n">>)>>,
          <<"NetDecl", "wire", <<>>, FALSE, <<>>, <<>>, <<<<"n", <<<<"Other">>>>>>>>>>,
          <<"Localparam", <<Local1("P", <<Op1("-", <<"Other">>)>>)>>>>,
          <<"Localparam", <<Local1("P", <<Num1(1), <<"Other">>, Num1(2)>>)>>>>,
          <<"Instance", "Join", <<<<<<"W">>, <<<<"Other">>>>>>>>, <<<<"j", <<>>>>>>>>}

Refusing ==
  {<<"Defparam">>, <<"Udp">>, <<"Specify">>,
   <<"Function", "f", Int4, <<>>, <<>>, <<<<"Other">>>>>>, <<"Task", "t", <<>>, <<>>, <<<<"Other">>>>>>}

\* A loop, a choice and an arm with an item that is an error, at some depth.
Nested(item) ==
  {InLoop(<<item>>), <<"Region", <<item>>>>, <<"IfGenerate", Num1(0), <<item>>, <<>>>>,
   <<"IfGenerate", Num1(1), <<>>, <<InLoop(<<item>>)>>>>,
   <<"CaseGenerate", Num1(0), <<<<"Arm", <<Num1(1)>>, <<item>>>>>>>>,
   <<"CaseGenerate", Num1(0), <<<<"Default", <<item>>>>>>>>}

\* Constructs that are dropped, each in a module that is elaborated.
Dropping ==
  {InLoop(<<item>>) : item \in BadItems \ (BadGates \cup {i \in BadItems : i[1] = "NetDecl"})}
    \cup {ForGen("g", <<"Other">>, Num1(0), <<"++">>, <<>>),
          ForGen("g", Num1(1), <<"Other">>, <<"--">>, <<>>),
          ForGen("g", Num1(1), Num1(0), <<"Other">>, <<>>),
          ForGen("g", Num1(0), <<"Text", <<TN(1), Plus, TN(0)>>>>, <<"--">>, <<<<"Other">>>>),
          <<"IfGenerate", <<"Other">>, <<>>, <<>>>>, <<"CaseGenerate", <<"Other">>, <<>>>>}

Ports1(header, items) ==
  [top |-> "none",
   files |-> <<<<"Modules", <<[name |-> "m", style |-> "nonansi", params |-> <<>>,
                              ports |-> header, items |-> items]>>>>>>]
Input1(form) == <<"PortDecl", form, "input", <<>>, FALSE, <<>>, <<"x">>>>

BadHeaders ==
  {Ports1(<<<<"Brace">>>>, <<>>), Ports1(<<<<"Named", "x", <<"y">>>>>>, <<Input1("Net")>>),
   Ports1(<<<<"Port", "x">>, <<"Port", "y">>>>, <<Input1("Net")>>), Ports1(<<>>, <<Input1("Net")>>),
   Ports1(<<<<"Port", "x">>>>, <<Input1("Interface")>>)}

BadParam ==
  [top |-> "none",
   files |-> <<<<"Modules", <<[Cell EXCEPT !.params = <<Param("W", <<<<"Other">>>>)>>]>>>>>>]

MCSourcesSet ==
  {ChainsAndLiterals, FullDesign, BadParam, [FullDesign EXCEPT !.files = @ \o <<<<"Unparsable">>>>],
   Alone1("none", AllGates), Alone1("none", <<<<"Initial", Blocks(AllStatements)>>>>)}
    \cup {Alone1("top", <<Tri, item>>) : item \in BadItems \cup Refusing \cup Dropping}
    \cup {Alone1("top", <<Tri, item>>) : item \in Nested(CHOOSE g \in BadGates : g[2] = "nmos")}
    \cup BadHeaders

-----------------------------------------------------------------------------
(* Designs *)

N(n) == <<"Net", n>>
C(w, v) == <<"Const", OfNum(w, v)>>
I(v) == <<"SignedConst", OfNum(IntWidth, v)>>
B(op, l, r) == <<"Bin", op, l, r>>
U(op, e) == <<"Un", op, e>>

EmptyModule ==
  [params |-> <<>>, ports |-> <<>>, locals |-> <<>>, nets |-> <<>>, regs |-> <<>>,
   mems |-> <<>>, functions |-> <<>>, tasks |-> <<>>, assigns |-> <<>>, initials |-> <<>>,
   alwayses |-> <<>>, instances |-> <<>>, generates |-> NoItems]

Named(n, e) == [name |-> n, value |-> e]
PortOfType(n, dir, w, type) ==
  [name |-> n, direction |-> dir, width |-> 1, width_expr |-> w, signed |-> FALSE,
   type |-> type]
In(n, w) == PortOfType(n, "input", w, "wire")
Out(n, w) == PortOfType(n, "output", w, "wire")
Inout(n, w) == PortOfType(n, "inout", w, "wire")
NetOf(n, w, type, signed) ==
  [name |-> n, width |-> 1, width_expr |-> C(4, w), kind |-> "Wire", signed |-> signed,
   type |-> type, charge |-> 4]
Wire(n, w) == NetOf(n, w, "wire", FALSE)
Var(n, w) == [name |-> n, width |-> 1, width_expr |-> C(4, w), signed |-> FALSE]
Array(n, w, depth) == [name |-> n, elem_width |-> C(4, w), depth |-> C(4, depth)]
Arg(n, w, dir) ==
  [name |-> n, width_expr |-> C(4, w), signed |-> FALSE, direction |-> dir]

Strongly(lv, e, strength) ==
  [lval |-> lv, expr |-> e, delay |-> 0, weak |-> FALSE, tran |-> <<>>,
   strength |-> strength]
Set(lv, e) == Strongly(lv, e, STRONG)
Pulled(lv, v) == [Strongly(lv, C(1, v), <<5, 5>>) EXCEPT !.weak = TRUE]
Tran(a, b, e) ==
  [Set(N(a), e) EXCEPT !.tran = <<[other |-> b, invert |-> FALSE, resistive |-> FALSE]>>]
Conn(n, e) == [name |-> <<n>>, expr |-> e]
InOrderOf(e) == [name |-> <<>>, expr |-> e]
Inst(n, m, ps, conns) == [name |-> n, module |-> m, params |-> ps, ports |-> conns]
Override(n, e) == [name |-> <<n>>, value |-> e]
Star(b) == [sensitivity |-> <<<<"All">>>>, body |-> b]
Posedge(n, b) ==
  [sensitivity |-> <<<<"Items", {[edge |-> "pos", signal |-> n]}>>>>, body |-> b]
Puts(n, e) == <<"BlockingAssign", N(n), e>>
Seq2(a, b) == <<"Block", <<a, b>>>>

Only(top) == [top |-> "top", modules |-> [m \in {"top"} |-> top]]

-----------------------------------------------------------------------------
(* Hierarchy, parameters, generate loops *)

\* A local parameter of a parameter, a name that the parent has too, an output.
Leaf ==
  [EmptyModule EXCEPT
     !.params = <<Named("W", C(4, 2))>>,
     !.ports = <<In("i", N("W")), Out("o", N("W"))>>,
     !.locals = <<Named("M", B("Add", N("W"), C(4, 1)))>>,
     !.nets = <<[Wire("t", 1) EXCEPT !.width_expr = N("M")]>>,
     !.assigns = <<Set(N("t"), B("Add", N("i"), C(1, 1))),
                   Set(N("o"), <<"PartSel", "t", B("Sub", N("M"), C(4, 1)), C(4, 1)>>)>>]

Mid ==
  [EmptyModule EXCEPT
     !.params = <<Named("N", C(4, 2))>>,
     !.ports = <<In("x", N("N")), Out("y", N("N"))>>,
     !.nets = <<Wire("i", 1)>>,
     !.assigns = <<Set(N("i"), U("RedXor", N("x")))>>,
     !.instances = <<Inst("u", "Leaf", <<Override("W", N("N"))>>,
                         <<Conn("i", N("x")), Conn("o", N("y"))>>)>>]

Bitwise2 ==
  <<"For", "g", C(4, 0), B("Lt", N("g"), C(4, 2)), B("Add", N("g"), C(4, 1)),
    [NoItems EXCEPT
       !.nets = <<Wire("t", 2)>>,
       !.assigns = <<Set(N("t"), B("Add", N("a"), N("g")))>>,
       !.instances = <<Inst("l", "Leaf", <<Override("W", C(4, 1))>>,
                           <<Conn("i", <<"IndexSel", "t", N("g")>>),
                             Conn("o", <<"IndexSel", "p", N("g")>>)>>)>>]>>

Hierarchy ==
  [top |-> "top",
   modules |->
     [m \in {"top", "Mid", "Leaf"} |->
        CASE m = "Mid" -> Mid [] m = "Leaf" -> Leaf
          [] m = "top" ->
               [EmptyModule EXCEPT
                  !.nets = <<Wire("a", 3), Wire("b", 3), Wire("p", 2), Wire("t", 1)>>,
                  !.instances =
                    <<Inst("m", "Mid", <<[name |-> <<>>, value |-> C(4, 3)]>>,
                           <<InOrderOf(N("a")), InOrderOf(N("b"))>>)>>,
                  !.assigns = <<Set(N("t"), U("RedAnd", N("b")))>>,
                  !.generates = [NoItems EXCEPT !.nested = <<Bitwise2>>]]]]

\* Nested loops, a choice in each iteration, and what a choice declares.
Driving(lv, e) == [NoItems EXCEPT !.assigns = <<Set(lv, e)>>]
Choice(lo, hi) ==
  <<"Case", N("g"),
    <<<<<<C(4, 1), C(4, 2)>>, Driving(<<"IndexSel", "y", N("g")>>, lo)>>>>,
    <<Driving(<<"IndexSel", "y", N("g")>>, hi)>>>>

Chosen3 ==
  <<"If", B("Gt", N("DEPTH"), C(4, 2)),
    [NoItems EXCEPT !.nested =
       <<<<"For", "g", C(4, 0), B("Lt", N("g"), N("DEPTH")), B("Add", N("g"), C(4, 1)),
           [NoItems EXCEPT
              !.locals = <<Named("K", B("Mul", N("g"), C(4, 2)))>>,
              !.regs = <<Var("r", 3)>>,
              !.mems = <<Array("m", 2, 2)>>,
              !.initials = <<[body |-> Puts("r", N("K"))]>>,
              !.alwayses = <<Star(Puts("r", B("BitXor", N("a"), N("K")))),
                             [sensitivity |-> <<>>, body |-> Puts("r", N("a"))]>>,
              !.nested = <<Choice(<<"IndexSel", "r", C(4, 0)>>, U("RedOr", N("r")))>>]>>>>],
    NoItems>>

GenChoices ==
  Only([EmptyModule EXCEPT
          !.locals = <<Named("DEPTH", C(4, 3)),
                       Named("MASK", B("Sub", B("Shl", C(4, 1), N("DEPTH")), C(4, 1)))>>,
          !.nets = <<Wire("a", 3), Wire("y", 3), Wire("z", 3)>>,
          !.assigns = <<Set(N("z"), B("BitAnd", N("a"), N("MASK")))>>,
          !.generates = [NoItems EXCEPT !.nested =
            <<Chosen3, <<"If", C(1, 0), NoItems,
               [NoItems EXCEPT !.assigns = <<Set(N("a"), C(3, 5))>>]>>,
              <<"Case", C(4, 7), <<>>, <<>>>>>>]])

-----------------------------------------------------------------------------
(* Nets with several drivers *)

Pad ==
  [EmptyModule EXCEPT
     !.ports = <<Inout("io", C(4, 2)), In("en", C(4, 1)), In("v", C(4, 2)),
                 PortOfType("w", "output", C(4, 2), "wand")>>,
     !.assigns = <<Set(N("io"), <<"Cond", N("en"), N("v"),
                                  <<"Const", [width |-> 2, a |-> {}, b |-> {0, 1}]>>>>),
                   Set(N("w"), N("io")), Set(N("w"), N("v"))>>]

PadNet(n) == Inst(n, "Pad", <<>>, <<Conn("io", N("bus")), Conn("en", <<"IndexSel", "e", C(4, 0)>>),
                                   Conn("v", N("d")), Conn("w", N("q"))>>)

Resolved ==
  [top |-> "top",
   modules |->
     [m \in {"top", "Pad"} |->
        IF m = "Pad" THEN Pad
        ELSE [EmptyModule EXCEPT
          !.nets = <<Wire("bus", 2), Wire("e", 2), Wire("d", 2), NetOf("q", 2, "wor", FALSE),
                     NetOf("c", 2, "trireg", FALSE), NetOf("u", 2, "tri1", FALSE),
                     NetOf("s", 2, "supply1", FALSE), Wire("h", 3), Wire("l", 2), Wire("r", 2)>>,
          !.instances = <<PadNet("p1"), PadNet("p2")>>,
          !.assigns =
            <<Set(N("c"), N("d")), Strongly(N("u"), N("d"), <<3, 5>>), Set(N("s"), N("d")),
              Pulled(<<"PartSelect", "h", C(4, 1), C(4, 0)>>, 1),
              Pulled(<<"IndexSel", "h", C(4, 2)>>, 0),
              Pulled(N("l"), 0),
              Set(<<"Concat", <<N("h"), N("l")>>>>, <<"Concat", <<N("d"), N("e"), C(1, 1)>>>>),
              Strongly(<<"PartSelect", "h", C(4, 2), C(4, 1)>>, N("e"), <<3, 3>>),
              Tran("l", "r", <<"IndexSel", "e", C(4, 1)>>), Set(N("r"), N("bus"))>>]]]

-----------------------------------------------------------------------------
(* Functions, tasks, memories, processes *)

Max2 ==
  [name |-> "max", width |-> 1, width_expr |-> C(4, 3), signed |-> FALSE,
   args |-> <<Arg("x", 3, "input"), Arg("y", 3, "input")>>, locals |-> <<Var("k", 3)>>,
   body |-> Seq2(Puts("k", N("y")),
                 <<"If", B("Gt", N("x"), N("k")), Puts("max", N("x")), <<Puts("max", N("k"))>>>>)]
Top3 ==
  [Max2 EXCEPT !.name = "top3", !.locals = <<>>,
     !.body = Puts("top3", <<"Call", "max", <<<<"Call", "max", <<N("x"), N("y")>>>>, N("b")>>>>)]
Swap ==
  [name |-> "swap", args |-> <<Arg("p", 3, "inout"), Arg("q", 3, "inout"), Arg("n", 3, "output")>>,
   locals |-> <<Var("k", 3)>>,
   body |-> <<"Block", <<Puts("k", N("p")), Puts("p", N("q")), Puts("q", N("k")),
                         Puts("n", B("Add", N("n"), N("p")))>>>>]

Word(n, at) == <<"IndexSel", n, at>>

Routines ==
  Only([EmptyModule EXCEPT
          !.nets = <<Wire("a", 3), Wire("b", 3), Wire("y", 3)>>,
          !.regs = <<Var("r", 3), Var("s", 3), Var("t", 3)>>,
          !.mems = <<Array("m", 3, 2)>>,
          !.functions = <<Max2, Top3>>, !.tasks = <<Swap>>,
          !.assigns = <<Set(N("y"), <<"Call", "top3", <<N("a"), C(3, 2)>>>>),
                        Set(N("a"), Word("m", <<"IndexSel", "b", C(4, 0)>>))>>,
          !.initials = <<[body |-> <<"TaskCall", "swap", <<N("r"), N("s"), N("t")>>>>],
                         [body |-> <<"BlockingAssign", Word("m", C(1, 1)), N("r")>>]>>,
          !.alwayses =
            <<Star(<<"Case", "CaseZ", N("a"),
                     <<<<<<<<"Const", [width |-> 3, a |-> {2}, b |-> {0, 1}]>>, N("b")>>,
                         <<"BlockingAssign", Word("r", N("s")), Word("a", C(4, 1))>>>>>>,
                     <<Puts("t", <<"Concat", <<Word("b", C(4, 2)),
                                               <<"PartSel", "a", C(4, 1), C(4, 0)>>>>>>)>>>>),
              Star(Puts("s", B("Add", Word("m", <<"IndexSel", "a", C(4, 0)>>), N("b")))),
              Posedge("a", Seq2(Puts("r", N("t")),
                                <<"TaskCall", "swap", <<N("s"), N("t"), N("r")>>>>))>>])

-----------------------------------------------------------------------------
(* Hierarchies that are rejected, and a loop that never ends *)

Calls(inst, nets) ==
  [top |-> "top",
   modules |-> [m \in {"top", "Pad"} |->
                  IF m = "Pad" THEN Pad
                  ELSE [EmptyModule EXCEPT !.nets = nets, !.instances = <<inst>>]]]

Rejected ==
  {Only([EmptyModule EXCEPT !.nets = <<Wire("a", 1)>>, !.assigns = <<Set(N("b"), N("a"))>>]),
   Only([EmptyModule EXCEPT !.alwayses = <<Posedge("clk", <<"Block", <<>>>>)>>]),
   Only([EmptyModule EXCEPT !.nets = <<Wire("a", 1), Wire("b", 2)>>,
                            !.assigns = <<Tran("a", "b", C(1, 1))>>]),
   Calls(Inst("u", "Gone", <<>>, <<>>), <<>>),
   Calls(Inst("u", "Pad", <<>>, <<Conn("io", N("a"))>>), <<Wire("a", 3)>>),
   Calls(Inst("u", "Pad", <<>>, <<Conn("io", C(2, 1))>>), <<>>),
   Calls(Inst("u", "Pad", <<>>, [k \in 1..5 |-> InOrderOf(N("a"))]), <<Wire("a", 2)>>)}

Endless ==
  Only([EmptyModule EXCEPT
          !.nets = <<Wire("a", 2)>>,
          !.generates = [NoItems EXCEPT !.nested =
            <<<<"For", "g", C(4, 1), B("Ge", N("g"), C(4, 0)), B("Sub", N("g"), C(4, 1)),
                [NoItems EXCEPT !.nets = <<Wire("t", 2)>>,
                                !.assigns = <<Set(N("t"), N("a"))>>]>>>>]])

-----------------------------------------------------------------------------
(* y = e for every e with two operators over operands of one sign *)

Ops == {"Add", "Sub", "Mul", "Div", "Mod", "BitNand", "Shl", "Shr", "Ashr", "Lt", "Le", "CaseEq",
        "Ne", "LogAnd"}
UnOps == {"Neg", "BitNot", "LogNot", "RedXor", "RedNor"}

Shapes(ops, x, y, z) ==
  {B(o, B(p, x, y), z) : o, p \in ops}
    \cup {B(o, x, U(p, y)) : o \in ops, p \in UnOps}
    \cup {U(p, B(o, x, y)) : o \in ops, p \in UnOps}
Choosing(ops, c, x, y, z) ==
  {<<"Cond", c, B(o, x, y), z>> : o \in ops} \cup {B(o, <<"Cond", c, x, y>>, z) : o \in ops}
Joins(ops, x, y, z) ==
  {<<"Concat", <<x, B(o, y, z)>>>> : o \in ops}
    \cup {B(o, <<"Repeat", C(4, 2), <<y, z>>>>, x) : o \in ops}
    \cup {B(o, <<"IndexedPartSel", "x", B("Sub", y, C(1, 1)), C(4, 2), up>>, y) :
            o \in ops, up \in BOOLEAN}

\* === of signed operands of two widths and a wider operand within a signed
\* one are what the README excludes.
OneAssign(e, signed) ==
  Only([EmptyModule EXCEPT
          !.nets = <<NetOf("y", 3, "wire", signed), NetOf("x", 2, "wire", signed),
                     NetOf("z", 3, "wire", signed), Wire("w", 5)>>,
          !.assigns = <<Set(N("w"), e)>>])

Exprs ==
  LET x == N("x") y == N("y") z == N("z") signed_ops == Ops \ {"CaseEq"}
  IN  {OneAssign(e, FALSE) : e \in Shapes(Ops, x, y, z) \cup Joins(Ops, x, y, z)
                                     \cup Choosing(Ops, B("Lt", x, y), x, y, z)}
        \cup {OneAssign(e, TRUE) : e \in Shapes(signed_ops, x, y, z)
                                     \cup Choosing(signed_ops, B("CaseNe", z, z), x, y, z)
                                     \cup Choosing(signed_ops, B("CaseEq", z, z), x, y, z)}

MCDesigns == {Hierarchy, GenChoices, Resolved, Routines, Endless} \cup Rejected \cup Exprs

\* The same sum twice, with the memory behind the net and before it.
Forgetful ==
  {Only([EmptyModule EXCEPT
           !.nets = <<Wire("i", 1), Wire("b", 3), Wire("y", 3), Wire("z", 3)>>,
           !.mems = <<Array("m", 3, 2)>>,
           !.assigns = <<Set(N("y"), B("Add", N("b"), Word("m", N("i")))),
                         Set(N("z"), B("Add", Word("m", N("i")), N("b")))>>])}
=============================================================================
