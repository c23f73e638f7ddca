---------------------------- MODULE MCTranSwitch ----------------------------
(***************************************************************************)
(* Small designs for TranSwitch.                                           *)
(***************************************************************************)
EXTENDS TranSwitch

Strong == <<6, 6>>
Weak == <<3, 3>>

Switch(a, b, en) ==
  [a |-> a, b |-> b, en |-> en, invert |-> FALSE, resistive |-> FALSE]
Inverted(sw) == [sw EXCEPT !.invert = TRUE]
Rtran(sw) == [sw EXCEPT !.resistive = TRUE]

-----------------------------------------------------------------------------
(* rtranif1 s1(a, b, f);  rtranif0 s2(b, c, g);                               *)
(* tranif1 s3(p, q, b);  tranif1 s4(q, r, f);                                 *)
(* assign a = d;  assign (weak0, weak1) c = e;  assign p = 1'b0;               *)
(* pulldown u(b);  pullup v(q);                                              *)

ChainNets == {"d", "e", "f", "g", "a", "b", "c", "p", "q", "r",
              "en1", "en2", "en3", "en4"}
ChainKind == [n \in ChainNets |-> IF n \in {"d", "e", "f", "g"} THEN "reg" ELSE "wire"]
ChainPulls == [n \in ChainNets |->
                 IF n \in {"b", "q"} THEN <<[one |-> n = "q", level |-> 5]>> ELSE <<>>]
ChainConts == 1..7
ChainLVal == <<"a", "c", "p", "en1", "en2", "en3", "en4">>
ChainReads == <<{"d"}, {"e"}, {}, {"f"}, {"g"}, {"b"}, {"f"}>>
ChainEval(c, v) == IF c = 3 THEN ZERO ELSE v[CHOOSE n \in ChainReads[c] : TRUE]
ChainStrength == [c \in ChainConts |-> IF c = 2 THEN Weak ELSE Strong]
ChainSwitches == <<Rtran(Switch("a", "b", "en1")),
                   Rtran(Inverted(Switch("b", "c", "en2"))),
                   Switch("p", "q", "en3"), Switch("q", "r", "en4")>>
ChainInputs == [n \in {"d", "e", "f", "g"} |->
                  IF n \in {"d", "e"} THEN {ONE, Z} ELSE {ZERO, ONE}]

-----------------------------------------------------------------------------
(* wire f (nothing drives it);  pullup u(a);  tranif1 s1(a, b, f);            *)

FloatNets == {"d", "f", "a", "b", "en1"}
FloatKind == [n \in FloatNets |-> IF n = "d" THEN "reg" ELSE "wire"]
FloatPulls == [n \in FloatNets |->
                 IF n = "a" THEN <<[one |-> TRUE, level |-> 5]>> ELSE <<>>]
FloatConts == 1..1
FloatLVal == <<"en1">>
FloatReads == <<{"f"}>>
FloatEval(c, v) == v["f"]
FloatStrength == <<Strong>>
FloatSwitches == <<Switch("a", "b", "en1")>>
FloatInputs == [n \in {"d"} |-> {ZERO, ONE}]

-----------------------------------------------------------------------------
(* tran s1(a, b);  rtran s2(b, c);  tran s3(c, d);                            *)
(* assign (supply0, supply1) a = e;  assign b = f;                            *)
(* After e = 0 and f = 1, the 1 goes to and fro between c and d for ever.     *)

StaleNets == {"e", "f", "a", "b", "c", "d", "en1", "en2", "en3"}
StaleKind == [n \in StaleNets |-> IF n \in {"e", "f"} THEN "reg" ELSE "wire"]
StalePulls == [n \in StaleNets |-> <<>>]
StaleConts == 1..5
StaleLVal == <<"a", "b", "en1", "en2", "en3">>
StaleReads == <<{"e"}, {"f"}, {}, {}, {}>>
StaleEval(c, v) == IF c > 2 THEN ONE ELSE v[IF c = 1 THEN "e" ELSE "f"]
StaleStrength == [c \in StaleConts |-> IF c = 1 THEN <<7, 7>> ELSE Strong]
StaleSwitches == <<Switch("a", "b", "en1"), Rtran(Switch("b", "c", "en2")),
                   Switch("c", "d", "en3")>>
StaleInputs == [n \in {"e", "f"} |-> {ZERO, ONE, Z}]
=============================================================================
