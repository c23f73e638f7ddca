---------------------------- MODULE MCContAssign ----------------------------
(***************************************************************************)
(* Small designs for ContAssign.                                           *)
(***************************************************************************)
EXTENDS ContAssignProperties

Whole(n, w) == [net |-> n, lo |-> 0, w |-> w, whole |-> TRUE]
Part(n, hi, lo) == [net |-> n, lo |-> lo, w |-> hi - lo + 1, whole |-> FALSE]

Strong == <<6, 6>>
Weak == <<3, 3>>
Unpulled(N) == [n \in N |-> <<>>]

-----------------------------------------------------------------------------
(* Two drivers of a net, one of them delayed; delays in a row:               *)
(*   wire w, y;  wire #2 z = ~w;                                             *)
(*   assign w = a;  assign #1 w = b;                                         *)
(*   assign y = (a === 1'bz && w === 1'b1) ? y !== 1'b1 : w & a;              *)
(* The last one is a loop that oscillates as long as its condition holds.      *)

DelayNets == {"a", "b", "w", "y", "z"}
DelayConts == 1..4
DelayWidth == [n \in DelayNets |-> 1]
DelayKind == [n \in DelayNets |-> IF n \in {"a", "b"} THEN "reg" ELSE "wire"]
DelayPulls == Unpulled(DelayNets)
DelayCharge == [n \in DelayNets |-> 2]
DelayLVal == <<<<Whole("w", 1)>>, <<Whole("w", 1)>>, <<Whole("y", 1)>>,
               <<Whole("z", 1)>>>>
DelayReads == <<{"a"}, {"b"}, {"w", "a", "y"}, {"w"}>>
DelaySigned == [c \in DelayConts |-> FALSE]
DelayDelay == <<0, 1, 0, 2>>
DelayStrength == [c \in DelayConts |-> Strong]
DelayEval(c, v) ==
  CASE c = 1 -> v["a"] [] c = 2 -> v["b"] [] c = 4 -> Not(v["w"])
    [] v["a"] = Z /\ v["w"] = ONE -> Cond(case_eq(v["y"], ONE), ZERO, ONE)
    [] OTHER -> BitAnd(v["w"], v["a"])
DelayInputs == [n \in {"a", "b"} |-> IF n = "a" THEN {ZERO, ONE, Z} ELSE {ONE, Z}]

-----------------------------------------------------------------------------
(* wire #2 y = a | b;                                                        *)

OrNets == {"a", "b", "y"}
OrConts == {1}
OrWidth == [n \in OrNets |-> 1]
OrKind == [n \in OrNets |-> IF n = "y" THEN "wire" ELSE "reg"]
OrPulls == Unpulled(OrNets)
OrCharge == [n \in OrNets |-> 2]
OrLVal == <<<<Whole("y", 1)>>>>
OrReads == <<{"a", "b"}>>
OrSigned == <<FALSE>>
OrDelay == <<2>>
OrStrength == <<Strong>>
OrEval(c, v) == BitOr(v["a"], v["b"])
OrInputs == [n \in {"a", "b"} |-> {ZERO, ONE}]

-----------------------------------------------------------------------------
(* Resolved nets:                                                           *)
(*   wire w with a weak and a strong driver and a pull1;                     *)
(*   wire [1:0] f with a pulldown on f[1], driven as a whole and, in a        *)
(*   concatenation {f[1], s} with a net of one driver, in part;              *)
(*   wand g; trireg (large) t with a strong and a weak driver.               *)

NetNets == {"a", "b", "w", "f", "g", "t", "s"}
NetConts == 1..8
NetWidth == [n \in NetNets |-> IF n = "f" THEN 2 ELSE 1]
NetKind == [n \in NetNets |->
              CASE n \in {"a", "b"} -> "reg" [] n = "g" -> "wand"
                [] n = "t" -> "trireg" [] OTHER -> "wire"]
NetPulls == [n \in NetNets |->
               CASE n = "w" -> <<[lo |-> 0, w |-> 1, one |-> TRUE, level |-> 5]>>
                 [] n = "f" -> <<[lo |-> 1, w |-> 1, one |-> FALSE, level |-> 5]>>
                 [] OTHER -> <<>>]
NetCharge == [n \in NetNets |-> 4]
NetLVal == <<<<Whole("w", 1)>>, <<Whole("w", 1)>>, <<Whole("f", 2)>>,
             <<Part("f", 1, 1), Whole("s", 1)>>,
             <<Whole("g", 1)>>, <<Whole("g", 1)>>,
             <<Whole("t", 1)>>, <<Whole("t", 1)>>>>
NetReads == <<{"a"}, {"b"}, {"a"}, {"a", "b"}, {"a"}, {"b"}, {"a"}, {"b"}>>
NetSigned == [c \in NetConts |-> c = 3]
NetDelay == [c \in NetConts |-> 0]
NetStrength == [c \in NetConts |-> IF c \in {2, 8} THEN Weak ELSE Strong]
NetEval(c, v) ==
  IF c = 4 THEN concat(v["b"], v["a"])
  ELSE v[CHOOSE n \in NetReads[c] : TRUE]
NetInputs == [n \in {"a", "b"} |-> {ZERO, ONE, Z}]

-----------------------------------------------------------------------------
(* assign #1 {w, s} = {a, b};  assign w = e;                                 *)

JointNets == {"a", "b", "e", "w", "s"}
JointConts == 1..2
JointWidth == [n \in JointNets |-> 1]
JointKind == [n \in JointNets |-> IF n \in {"w", "s"} THEN "wire" ELSE "reg"]
JointPulls == Unpulled(JointNets)
JointCharge == [n \in JointNets |-> 2]
JointLVal == <<<<Whole("w", 1), Whole("s", 1)>>, <<Whole("w", 1)>>>>
JointReads == <<{"a", "b"}, {"e"}>>
JointSigned == [c \in JointConts |-> FALSE]
JointDelay == <<1, 0>>
JointStrength == [c \in JointConts |-> Strong]
JointEval(c, v) == IF c = 1 THEN concat(v["a"], v["b"]) ELSE v["e"]
JointInputs == [n \in {"a", "b", "e"} |-> {ONE, Z}]

-----------------------------------------------------------------------------
(* wire [1:0] y;  assign {q, y[0]} = {a, b};  assign z = ~q;                 *)

SelectNets == {"a", "b", "q", "y", "z"}
SelectConts == 1..2
SelectWidth == [n \in SelectNets |-> IF n = "y" THEN 2 ELSE 1]
SelectKind == [n \in SelectNets |-> IF n \in {"a", "b"} THEN "reg" ELSE "wire"]
SelectPulls == Unpulled(SelectNets)
SelectCharge == [n \in SelectNets |-> 2]
SelectLVal == <<<<Whole("q", 1), Part("y", 0, 0)>>, <<Whole("z", 1)>>>>
SelectReads == <<{"a", "b"}, {"q"}>>
SelectSigned == [c \in SelectConts |-> FALSE]
SelectDelay == <<0, 0>>
SelectStrength == [c \in SelectConts |-> Strong]
SelectEval(c, v) == IF c = 1 THEN concat(v["a"], v["b"]) ELSE Not(v["q"])
SelectInputs == [n \in {"a", "b"} |-> Vec(1)]

=============================================================================
