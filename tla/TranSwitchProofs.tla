-------------------------- MODULE TranSwitchProofs --------------------------
(***************************************************************************)
(* Proofs about bidirectional switches.  A group of joined nets is computed  *)
(* by a loop over its nets with a loop over the switches inside; both are    *)
(* recursive functions, which exist by DataInduction.                        *)
(***************************************************************************)
EXTENDS TranSwitch, DataInduction

-----------------------------------------------------------------------------
(* The nets of a group are terminals *)

LEMMA FollowTerminals ==
  ASSUME NEW cur, NEW comp \in Seq(Terminals), NEW sw \in Range(Switches), NEW nv, NEW maybe
  PROVE  Follow(cur, comp, sw, nv, maybe) \in Seq(Terminals)
<1>1. sw.a \in Terminals /\ sw.b \in Terminals
  BY DEF Terminals
<1>2. \A n \in Terminals : Append(comp, n) \in Seq(Terminals)
  <2>1. ASSUME NEW n \in Terminals
        PROVE  Append(comp, n) \in Seq(Terminals)
    OBVIOUS
  <2> QED
    BY <2>1
<1> QED
  BY <1>1, <1>2 DEF Follow

LEMMA LargestIndex ==
  ASSUME NEW n \in Nat, NEW s \in SUBSET (1 .. n), s # {}
  PROVE  Max(s) \in s
<1> DEFINE T == {n - k : k \in s}
<1>1. T \in SUBSET Nat /\ T # {}
  <2>1. \A k \in s : n - k \in Nat
    OBVIOUS
  <2> QED
    BY <2>1
<1>2. PICK m \in T : \A k \in T : m <= k
  <2> HIDE DEF T
  <2> QED
    BY <1>1, LeastNatural
<1>3. PICK x \in s : m = n - x
  OBVIOUS
<1>4. ASSUME NEW y \in s
      PROVE  x >= y
  <2>1. n - x <= n - y
    BY <1>2, <1>3
  <2> QED
    BY <2>1
<1> QED
  BY <1>4 DEF Max

LEMMA SeqMembers ==
  ASSUME NEW S, NEW s \in Seq(S)
  PROVE  Range(s) \subseteq S
<1>1. DOMAIN s = 1 .. Len(s)
  OBVIOUS
<1>2. \A i \in 1 .. Len(s) : s[i] \in S
  OBVIOUS
<1> QED
  BY <1>1, <1>2 DEF Range

\* The loop over the switches keeps what is kept by one of them.
LEMMA VisitTerminals ==
  ASSUME NEW cur, NEW comp \in Seq(Terminals), NEW nv, NEW maybe
  PROVE  Visit(cur, comp, nv, maybe) \in Seq(Terminals)
<1> DEFINE I == DOMAIN Switches
           V == Seq(Terminals)
           Next_(s, v) == Follow(cur, v, Switches[Max(s)], nv, maybe)
           G == [p \in I \X V |-> Follow(cur, p[2], Switches[p[1]], nv, maybe)]
           C == [s \in SUBSET I |-> Max(s)]
           Iter(g) == g = [s \in SUBSET I |-> IF s = {} THEN comp ELSE Next_(s, g[s \ {Max(s)}])]
<1>1. Len(Switches) \in Nat /\ I = 1 .. Len(Switches) /\ IsFiniteSet(I)
  <2>1. Len(Switches) \in Nat /\ I = 1 .. Len(Switches)
    BY TranAssumption
  <2> QED
    BY <2>1, FS_Interval
<1>2. \A s \in SUBSET I : s # {} => Max(s) \in s
  BY <1>1, LargestIndex
<1>3. \A i \in I : Switches[i] \in Range(Switches)
  BY DEF Range
<1>4. \A i \in I : \A v \in V : Follow(cur, v, Switches[i], nv, maybe) \in V
  BY <1>3, FollowTerminals
<1>5. G \in [I \X V -> V]
  <2> HIDE DEF I, V
  <2> QED
    BY <1>4
<1>6. \A i \in I : \A v \in V : G[<<i, v>>] = Follow(cur, v, Switches[i], nv, maybe)
  <2> HIDE DEF I, V
  <2> QED
    OBVIOUS
<1>7. \A s \in SUBSET I : C[s] = Max(s) /\ (s # {} => C[s] \in s)
  BY <1>2
<1> HIDE DEF G, C
<1>8. PICK f \in [SUBSET I -> V] : RecursOn(I, f, comp, G, C)
  <2> HIDE DEF I, V
  <2>1. comp \in V
    BY DEF V
  <2> QED
    BY <1>1, <1>5, <1>7, <2>1, SetRecursion
<1>9. Iter(f)
  <2>1. ASSUME NEW s \in SUBSET I
        PROVE  f[s] = IF s = {} THEN comp ELSE Next_(s, f[s \ {Max(s)}])
    <3>1. f[s] = IF s = {} THEN comp ELSE G[<<C[s], f[s \ {C[s]}]>>]
      BY <1>8 DEF RecursOn
    <3>2. CASE s # {}
      <4>1. C[s] = Max(s) /\ Max(s) \in I /\ s \ {Max(s)} \in SUBSET I
        BY <1>7, <3>2
      <4>2. f[s \ {Max(s)}] \in V
        BY <1>8, <4>1
      <4> HIDE DEF I, V
      <4>3. G[<<Max(s), f[s \ {Max(s)}]>>] = Next_(s, f[s \ {Max(s)}])
        BY <1>6, <4>1, <4>2
      <4> QED
        BY <3>1, <3>2, <4>1, <4>3
    <3> QED
      BY <3>1, <3>2
  <2> HIDE DEF Next_, I, V
  <2> QED
    BY <1>8, <2>1
<1> DEFINE iter == CHOOSE g : Iter(g)
<1>10. Iter(iter)
  <2> HIDE DEF Iter
  <2> QED
    BY <1>9
<1>11. Visit(cur, comp, nv, maybe) = iter[I]
  BY DEF Visit, FoldLeft, MapThenFoldSet
<1> HIDE DEF iter
<1>12. \A s \in SUBSET I : iter[s] = IF s = {} THEN comp ELSE Next_(s, iter[s \ {Max(s)}])
  <2> HIDE DEF Next_, I
  <2> QED
    BY <1>10
<1> DEFINE T == {s \in SUBSET I : iter[s] \in V}
<1>13. ASSUME NEW s \in SUBSET I, \A B \in SUBSET s : B # s => B \in T
       PROVE  s \in T
  <2>1. CASE s = {}
    BY <1>12, <2>1
  <2>2. CASE s # {}
    <3>1. Max(s) \in s
      BY <1>2, <2>2
    <3>2. s \ {Max(s)} \in T
      BY <1>13, <3>1
    <3>3. iter[s] = Follow(cur, iter[s \ {Max(s)}], Switches[Max(s)], nv, maybe)
      BY <1>12, <2>2
    <3> HIDE DEF V
    <3> QED
      BY <1>4, <3>1, <3>2, <3>3
  <2> QED
    BY <2>1, <2>2
<1>14. SUBSET I \subseteq T
  <2> HIDE DEF T, I, V, Next_, Iter
  <2>1. IsFiniteSet(I)
    BY <1>1
  <2>2. \A s \in SUBSET I : (\A B \in SUBSET s : B # s => B \in T) => s \in T
    BY <1>13
  <2> QED
    BY <2>1, <2>2, SubsetInduction
<1> QED
  BY <1>11, <1>14

\* Every net that tran_component joins to a terminal is a terminal.
LEMMA GroupTerminals ==
  ASSUME NEW start \in Terminals, NEW nv, NEW maybe
  PROVE  tran_component(start, nv, maybe) \in Seq(Terminals)
<1> DEFINE V == Seq(Terminals)
           Step(k, comp) == IF k > Len(comp) THEN comp ELSE Visit(comp[k], comp, nv, maybe)
           G == [p \in Nat \X V |-> Step(p[1], p[2])]
           Iter(g) == g = [k \in Nat |-> IF k = 0 THEN <<start>> ELSE Step(k, g[k - 1])]
<1>1. <<start>> \in V
  OBVIOUS
<1>2. \A k \in Nat : \A comp \in V : Step(k, comp) \in V
  BY VisitTerminals
<1>3. G \in [Nat \X V -> V] /\ \A k \in Nat : \A comp \in V : G[<<k, comp>>] = Step(k, comp)
  <2> HIDE DEF V, Step
  <2> QED
    BY <1>2
<1> HIDE DEF G
<1>4. PICK f \in [Nat -> V] : Recurs(f, <<start>>, G)
  <2> DEFINE a == <<start>>
  <2>1. a \in V /\ G \in [Nat \X V -> V]
    BY <1>1, <1>3
  <2> HIDE DEF V, a
  <2>2. \E f \in [Nat -> V] : Recurs(f, a, G)
    BY <2>1, NatRecursion
  <2> QED
    BY <2>2 DEF a
<1>5. Iter(f)
  <2> HIDE DEF V, Step
  <2>1. ASSUME NEW k \in Nat
        PROVE  f[k] = IF k = 0 THEN <<start>> ELSE Step(k, f[k - 1])
    <3>1. f[k] = IF k = 0 THEN <<start>> ELSE G[<<k, f[k - 1]>>]
      BY <1>4 DEF Recurs
    <3>2. k # 0 => k - 1 \in Nat /\ f[k - 1] \in V
      BY <1>4
    <3> QED
      BY <1>3, <3>1, <3>2
  <2> QED
    BY <1>4, <2>1
<1> DEFINE visited == CHOOSE g : Iter(g)
<1>6. Iter(visited)
  <2> HIDE DEF Iter
  <2> QED
    BY <1>5
<1>7. tran_component(start, nv, maybe) = visited[Cardinality(Nets)]
  BY DEF tran_component
<1> HIDE DEF visited
<1>8. \A k \in Nat : visited[k] = IF k = 0 THEN <<start>> ELSE Step(k, visited[k - 1])
  <2> HIDE DEF Step
  <2> QED
    BY <1>6
<1> DEFINE T == {k \in Nat : visited[k] \in V}
<1>9. 0 \in T
  BY <1>1, <1>8
<1>10. ASSUME NEW k \in T
       PROVE  k + 1 \in T
  <2>1. k + 1 \in Nat /\ k + 1 # 0 /\ k + 1 - 1 = k /\ visited[k] \in V
    OBVIOUS
  <2> HIDE DEF V, Step
  <2> QED
    BY <1>2, <1>8, <2>1
<1>11. T = Nat
  <2>1. T \in SUBSET Nat
    OBVIOUS
  <2> HIDE DEF T
  <2> QED
    BY <1>9, <1>10, <2>1, Induction
<1>12. Cardinality(Nets) \in Nat
  BY TranAssumption, FS_CardinalityType
<1> QED
  BY <1>7, <1>11, <1>12

-----------------------------------------------------------------------------
(* Every change is reported *)

OnNets(nv) == nv = [n \in Nets |-> nv[n]]

\* Only terminals get a value when a group is resolved again.
LEMMA OthersKept ==
  ASSUME NEW n \in Terminals, NEW nv, OnNets(nv), NEW dv
  PROVE  /\ OnNets(recompute_tran(n, nv, dv))
         /\ \A m \in Nets \ Terminals : recompute_tran(n, nv, dv)[m] = nv[m]
<1> DEFINE group == Range(tran_component(n, nv, TRUE))
           new == recompute_tran(n, nv, dv)
<1>1. group \subseteq Terminals
  <2>1. tran_component(n, nv, TRUE) \in Seq(Terminals)
    BY GroupTerminals
  <2> QED
    BY <2>1, SeqMembers
<1>2. new = [m \in Nets |-> new[m]] /\ \A m \in Nets \ group : new[m] = nv[m]
  BY DEF recompute_tran
<1> HIDE DEF group, new
<1>3. OnNets(new) /\ \A m \in Nets \ Terminals : new[m] = nv[m]
  BY <1>1, <1>2 DEF OnNets
<1> QED
  BY <1>3 DEF new

\* An assignment that reads nothing of what has changed has its value of before.
LEMMA ValueKept ==
  ASSUME NEW c \in Conts, NEW old, NEW new, c \notin Marked(Changed(old, new))
  PROVE  Value(c, new) = Value(c, old)
<1>1. \A n \in Reads[c] : n \in Nets
  BY TranAssumption
<1>2. \A n \in Reads[c] : new[n] = old[n]
  BY <1>1 DEF Marked, Changed, Readers
<1>3. [n \in Reads[c] |-> new[n]] = [n \in Reads[c] |-> old[n]]
  BY <1>2
<1> QED
  BY <1>3 DEF Value

CleanInv == OnNets(net_values) /\ CleanIsCurrent

\* A step that evaluates the assignments in D: the readers of all that it
\* changes are marked, and it gives no value to what another assignment drives.
Evaluates(D) ==
  /\ (cont_dirty \ D) \cup Marked(Changed(net_values, net_values')) \subseteq cont_dirty'
  /\ \A c \in Conts \ D :
       /\ LVal[c] \notin Terminals => net_values'[LVal[c]] = net_values[LVal[c]]
       /\ c \in DOMAIN driver_vals =>
            c \in DOMAIN driver_vals' /\ driver_vals'[c] = driver_vals[c]
  /\ \A c \in Conts \cap D :
       IF LVal[c] \in Terminals
         THEN c \in DOMAIN driver_vals' /\ driver_vals'[c] = Value(c, net_values)
         ELSE net_values'[LVal[c]] = Value(c, net_values)

LEMMA CleanStep ==
  ASSUME CleanInv, OnNets(net_values'), NEW D, Evaluates(D)
  PROVE  CleanInv'
<1>1. ASSUME NEW c \in Conts \ cont_dirty'
      PROVE  Drives(c, Value(c, net_values))'
  <2>1. Value(c, net_values') = Value(c, net_values)
    BY <1>1, ValueKept DEF Evaluates
  <2>2. CASE c \in D
    BY <1>1, <2>1, <2>2 DEF Drives, Evaluates
  <2>3. CASE c \notin D
    <3>1. Drives(c, Value(c, net_values))
      BY <1>1, <2>3 DEF CleanInv, CleanIsCurrent, Evaluates
    <3> QED
      BY <1>1, <2>1, <2>3, <3>1 DEF Drives, Evaluates
  <2> QED
    BY <2>2, <2>3
<1> QED
  BY <1>1 DEF CleanInv, CleanIsCurrent

LEMMA CleanInit == Init => CleanInv
BY DEF Init, CleanInv, OnNets, CleanIsCurrent

LEMMA CleanNext ==
  ASSUME CleanInv, [Next]_vars
  PROVE  CleanInv'
<1>0. OnNets(net_values) /\ LVal \in [Conts -> Nets]
  BY TranAssumption DEF CleanInv
<1>1. CASE UNCHANGED vars \/ EndActive \/ EndConts
  <2>1. UNCHANGED <<net_values, driver_vals, cont_dirty>>
    BY <1>1 DEF vars, EndActive, EndConts
  <2> QED
    BY <2>1 DEF CleanInv, OnNets, CleanIsCurrent, Drives
<1>2. ASSUME NEW n \in DOMAIN Inputs, NEW val \in Inputs[n], Write(n, val)
      PROVE  CleanInv'
  <2>1. /\ net_values' = [net_values EXCEPT ![n] = val]
        /\ cont_dirty' = cont_dirty \cup Marked(Changed(net_values, net_values'))
        /\ driver_vals' = driver_vals
    BY <1>2 DEF Write
  <2>2. OnNets(net_values') /\ \A m \in Nets \ {n} : net_values'[m] = net_values[m]
    BY <1>0, <2>1 DEF OnNets
  <2>3. \A c \in Conts : LVal[c] \in Nets /\ LVal[c] # n
    BY <1>0, TranAssumption
  <2>4. \A c \in Conts : net_values'[LVal[c]] = net_values[LVal[c]]
    BY <2>2, <2>3
  <2>5. Evaluates({})
    BY <2>1, <2>4 DEF Evaluates
  <2> QED
    BY <2>2, <2>5, CleanStep
<1>3. ASSUME NEW c \in Conts, EvalDriver(c)
      PROVE  CleanInv'
  <2> DEFINE dv == [d \in DOMAIN driver_vals \cup {c} |->
                      IF d = c THEN Value(c, net_values) ELSE driver_vals[d]]
  <2>1. /\ LVal[c] \in Terminals
        /\ driver_vals' = dv
        /\ net_values' = recompute_tran(LVal[c], net_values, dv)
        /\ cont_dirty' = (cont_dirty \ {c}) \cup Marked(Changed(net_values, net_values'))
    BY <1>3 DEF EvalDriver
  <2>2. c \in DOMAIN dv /\ dv[c] = Value(c, net_values)
    OBVIOUS
  <2>3. \A d \in DOMAIN driver_vals : d # c => d \in DOMAIN dv /\ dv[d] = driver_vals[d]
    OBVIOUS
  <2> HIDE DEF dv
  <2>4. OnNets(net_values') /\ \A m \in Nets \ Terminals : net_values'[m] = net_values[m]
    BY <1>0, <2>1, OthersKept
  <2>5. \A d \in Conts : LVal[d] \notin Terminals => net_values'[LVal[d]] = net_values[LVal[d]]
    BY <1>0, <2>4
  <2>6. \A d \in Conts \ {c} : d \in DOMAIN driver_vals =>
          d \in DOMAIN driver_vals' /\ driver_vals'[d] = driver_vals[d]
    BY <2>1, <2>3
  <2>7. Evaluates({c})
    BY <2>1, <2>2, <2>5, <2>6 DEF Evaluates
  <2> QED
    BY <2>4, <2>7, CleanStep
<1>4. ASSUME NEW c \in Conts, EvalNet(c)
      PROVE  CleanInv'
  <2> DEFINE written == [net_values EXCEPT ![LVal[c]] = Value(c, net_values)]
             changed == Changed(net_values, written)
             Reports == /\ OnNets(net_values')
                        /\ \A m \in Nets \ Terminals : net_values'[m] = written[m]
                        /\ (cont_dirty \ {c}) \cup Marked(Changed(net_values, net_values'))
                             \subseteq cont_dirty'
  <2>1. LVal[c] \in Nets \ Terminals /\ driver_vals' = driver_vals
    BY <1>0, <1>4 DEF EvalNet
  <2>2. /\ OnNets(written) /\ written[LVal[c]] = Value(c, net_values)
        /\ \A m \in Nets \ {LVal[c]} : written[m] = net_values[m]
    BY <1>0, <2>1 DEF OnNets
  <2>3. Reports
    <3>1. CASE net_values' = written /\ cont_dirty' = (cont_dirty \ {c}) \cup Marked(changed)
      BY <2>2, <3>1
    <3>2. ASSUME NEW sw \in Range(Switches),
                 LET steps == on_tran_enable_change(sw, written, driver_vals)
                 IN  /\ net_values' = steps[2]
                     /\ cont_dirty' = (cont_dirty \ {c}) \cup
                          Marked(changed \cup Reported(written, steps[1], steps[2]))
          PROVE  Reports
      <4> DEFINE mid == recompute_tran(sw.a, written, driver_vals)
                 new == recompute_tran(sw.b, mid, driver_vals)
      <4>1. sw.a \in Terminals /\ sw.b \in Terminals
        BY DEF Terminals
      <4>2. /\ net_values' = new
            /\ cont_dirty' = (cont_dirty \ {c}) \cup
                 Marked(changed \cup Changed(written, mid) \cup Changed(mid, new))
        BY <3>2 DEF on_tran_enable_change, Reported
      <4> HIDE DEF written, changed
      <4>3. OnNets(mid) /\ \A m \in Nets \ Terminals : mid[m] = written[m]
        BY <2>2, <4>1, OthersKept
      <4> HIDE DEF mid
      <4>4. OnNets(new) /\ \A m \in Nets \ Terminals : new[m] = mid[m]
        BY <4>1, <4>3, OthersKept
      <4> HIDE DEF new
      <4>5. Changed(net_values, new) \subseteq changed \cup Changed(written, mid) \cup Changed(mid, new)
        BY DEF Changed, changed
      <4> QED
        BY <4>2, <4>3, <4>4, <4>5 DEF Marked
    <3> QED
      BY <1>4, <3>1, <3>2 DEF EvalNet
  <2> HIDE DEF written, changed
  <2>4. \A d \in Conts \ {c} : LVal[d] \notin Terminals => net_values'[LVal[d]] = net_values[LVal[d]]
    <3>1. ASSUME NEW d \in Conts \ {c}, LVal[d] \notin Terminals
          PROVE  LVal[d] \in Nets \ Terminals /\ LVal[d] # LVal[c]
      BY <1>0, <3>1, TranAssumption
    <3> QED
      BY <2>2, <2>3, <3>1
  <2>5. Evaluates({c})
    BY <2>1, <2>2, <2>3, <2>4 DEF Evaluates
  <2> QED
    BY <2>3, <2>5, CleanStep
<1> QED
  BY <1>1, <1>2, <1>3, <1>4 DEF Next

\* CleanIsCurrent for every design with switches and every function an assignment
\* may compute: no change that is carried through a group, whatever the order in
\* which its nets are met, is missed by a reader, the control of a switch included.
THEOREM CleanInvariant == Spec => []CleanIsCurrent
<1>1. CleanInv /\ [Next]_vars => CleanInv'
  BY CleanNext
<1>2. CleanInv => CleanIsCurrent
  BY DEF CleanInv
<1> QED
  BY <1>1, <1>2, CleanInit, PTL DEF Spec
=============================================================================
