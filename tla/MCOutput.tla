------------------------------- MODULE MCOutput -------------------------------
(***************************************************************************)
(* A small design for Output: four scopes, two of them beside each other,  *)
(* two scalars and a vector that is wider than a chunk.                    *)
(***************************************************************************)
EXTENDS OutputProperties, TLC

MCWidth == 0 :> 1 @@ 1 :> 3 @@ 2 :> 1
MCParent == 1 :> 0 @@ 2 :> 1 @@ 3 :> 0
MCScopeOf == 0 :> 0 @@ 1 :> 2 @@ 2 :> 3
V(a, b) == [a |-> a, b |-> b]
MCInitial == 0 :> V(0, 1) @@ 1 :> V(7, 7) @@ 2 :> V(0, 1)

Scalar == {[net |-> 0, val |-> V(1, 0)], [net |-> 0, val |-> V(0, 0)]}
Vector == {[net |-> 1, val |-> V(6, 2)], [net |-> 1, val |-> V(5, 4)]}

\* Two programs dump a waveform, one watches nets, one opens and closes files,
\* one writes to them when a time step has settled.
MCPrograms ==
  {[tasks |-> {"$dumpvars", "$finish"}, drives |-> Scalar \cup Vector,
    vcd |-> FALSE, calls |-> 2],
   [tasks |-> {"$display", "$finish"}, drives |-> Vector, vcd |-> TRUE, calls |-> 1],
   [tasks |-> {"$monitor", "$monitoron", "$monitoroff", "$strobe", "$finish"},
    drives |-> Scalar, vcd |-> FALSE, calls |-> 3],
   [tasks |-> {"$fopen", "$fopen with a mode", "$fclose", "$fdisplay"},
    drives |-> {}, vcd |-> FALSE, calls |-> 4],
   [tasks |-> {"$fopen", "$fclose", "$fstrobe", "|"},
    drives |-> {}, vcd |-> FALSE, calls |-> 4],
   [tasks |-> {"$fopen with a mode", "$fclose", "$fmonitor", "$monitoroff"},
    drives |-> Scalar, vcd |-> FALSE, calls |-> 3]}
MCArgs == {<<<<"fmt", 0>>, <<"time", 0>>, <<"net", 0>>>>,
           <<<<"net", 1>>, <<"fmt", 0>>, <<"net", 0>>>>}
=============================================================================
