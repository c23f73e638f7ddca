---------------------------- MODULE MCSensitivity ----------------------------
(***************************************************************************)
(* A small design for Sensitivity:                                          *)
(*   reg c, i;  reg [1:0] y;  reg m [0:1];                                  *)
(***************************************************************************)
EXTENDS SensitivityProperties

Sel(kind, of, lo, w, plus) ==
  [kind |-> kind, of |-> of, lo |-> lo, w |-> w, at |-> "i", plus |-> plus]
Net(n) == Sel("net", n, 0, 1, TRUE)
Const(val) == [kind |-> "const", val |-> val]

MCNets == {"c", "i", "y"}
MCWidth == [n \in MCNets |-> IF n = "y" THEN 2 ELSE 1]
MCElemWidth == [m \in {"m"} |-> 1]

\*  1: c = 2'b01;    2: i = c;           3: i = 1'b0;          4: y[1] = c;
\*  5: y[i] = 1'b1;  6: y[i+:2] = {c, c};  7: y[i-:2] = {i, c};
\*  8: m[i] = 1'b1;  9: {c, y} = {y, i};   10: y = $signed(c);   11: y = m[i];
MCAssigns == 1..11
MCLVal ==
  <<<<Net("c")>>, <<Net("i")>>, <<Net("i")>>, <<Sel("part", "y", 1, 1, TRUE)>>,
    <<Sel("dynbit", "y", 0, 1, TRUE)>>, <<Sel("dynpart", "y", 0, 2, TRUE)>>,
    <<Sel("dynpart", "y", 0, 2, FALSE)>>, <<Sel("mem", "m", 0, 1, TRUE)>>,
    <<Net("c"), Net("y")>>, <<Net("y")>>, <<Net("y")>>>>
MCRhs ==
  <<<<Const(from_chunks(2, {0}, {}))>>, <<Net("c")>>, <<Const(ZERO)>>, <<Net("c")>>,
    <<Const(ONE)>>, <<Net("c"), Net("c")>>, <<Net("i"), Net("c")>>, <<Const(ONE)>>,
    <<Net("y"), Net("i")>>, <<Net("c")>>, <<Sel("mem", "m", 0, 1, TRUE)>>>>
MCSigned == [a \in MCAssigns |-> a = 10]
MCDeferred == {3, 5}

On(edge, n) == [edge |-> edge, net |-> n]
For(items) == [all |-> FALSE, items |-> items]
MCWaits ==
  {For({On("pos", "c")}), For({On("neg", "c")}), For({On("any", "y"), On("any", "i")}),
   [all |-> TRUE, items |-> {}]}
MCReads == <<{"y", "m"}>>
=============================================================================
