----------------------------- MODULE TranSwitch -----------------------------
(***************************************************************************)
(* Bidirectional switches (tran, tranif, rtran) of crates/sim/src/interp.rs.*)
(*                                                                         *)
(* Nets that conducting switches join are resolved together.  Whether a      *)
(* switch conducts is the value of a hidden net, driven by an assignment of   *)
(* its own.  When that net is X or Z the switch may conduct: the nets are     *)
(* resolved without and with such switches, and where the results differ     *)
(* they are X.  Resistive switches weaken what passes; a group with one is    *)
(* solved by relaxation over strengths.                                      *)
(*                                                                         *)
(* Nets have one bit (the terminals of a switch are whole nets of one width,   *)
(* and a switch treats all bits alike).  Assignments have no delay and        *)
(* drive a terminal of a switch, or a net of their own; ContAssign has the    *)
(* others, and the limit of eval_conts.                                      *)
(***************************************************************************)
EXTENDS LogicVec, Sequences, SequencesExt

CONSTANTS
  Conts,      \* the continuous assignments
  Nets,
  Kind,       \* [Nets -> {"reg", "wire", "wand", "wor"}]
  Pulls,      \* [Nets -> sequences of [one, level]]
  LVal,       \* [Conts -> Nets]
  Reads,      \* [Conts -> the nets of the expression]
  Eval(_, _), \* the value of an assignment's expression, given those nets
  Strength,   \* [Conts -> <<s0, s1>>]
  Switches,   \* sequence of [a, b, en, invert, resistive]
  Inputs,     \* [variables that processes write -> values they write]
  MaxWrites   \* bound on the writes of processes

Terminals == UNION {{sw.a, sw.b} : sw \in Range(Switches)}

\* elab_tran: terminals are nets; every switch has its own hidden net.
\* What no switch joins has one driver here, and no pull.
ASSUME TranAssumption ==
  /\ IsFiniteSet(Nets)
  /\ LVal \in [Conts -> Nets]
  /\ Reads \in [Conts -> SUBSET Nets]
  /\ \A c \in Conts : Kind[LVal[c]] # "reg"
  /\ \A c, d \in Conts : LVal[c] = LVal[d] /\ c # d => LVal[c] \in Terminals
  /\ Switches \in Seq([a : Nets, b : Nets, en : Nets, invert : BOOLEAN,
                        resistive : BOOLEAN])
  /\ \A sw \in Range(Switches) :
       /\ Kind[sw.a] # "reg" /\ Kind[sw.b] # "reg"
       /\ sw.en \notin Terminals
       /\ Kind[sw.en] = "wire"
       /\ \A other \in Range(Switches) : other.en = sw.en => other = sw
  /\ DOMAIN Inputs \subseteq {n \in Nets : Kind[n] = "reg"}
  /\ MaxWrites \in Nat

VARIABLES
  net_values,  \* [Nets -> Vec(1)]
  driver_vals, \* [assignments to terminals that have been evaluated -> Vec(1)]
  cont_dirty,  \* the assignments to evaluate
  region,      \* "active" or "conts"
  writes

vars == <<net_values, driver_vals, cont_dirty, region, writes>>

Readers(n) == {c \in Conts : n \in Reads[c]}
Value(c, nv) == Eval(c, [n \in Reads[c] |-> nv[n]])

-----------------------------------------------------------------------------
(* Groups *)

\* The drivers of n that have a value.
Drivers(n, dv) == {c \in DOMAIN dv : LVal[c] = n}

StrengthAware(n) ==
  /\ \E c \in Conts : LVal[c] = n
  /\ \/ \E c \in Conts : LVal[c] = n /\ Strength[c] # <<6, 6>>
     \/ \E p \in Range(Pulls[n]) : p.level # 5

Unknown(sw, nv) == ~is_known(nv[sw.en])
Conducts(sw, nv) == ~Unknown(sw, nv) /\ is_true(nv[sw.en]) # sw.invert

\* tran_conduction, for one of its two answers.
tran_conduction(sw, nv, maybe) == Conducts(sw, nv) \/ (maybe /\ Unknown(sw, nv))

\* The net cur is visited: sw may join another one to the group.
Follow(cur, comp, sw, nv, maybe) ==
  IF ~tran_conduction(sw, nv, maybe) \/ cur \notin {sw.a, sw.b} THEN comp
  ELSE LET next == IF sw.a = cur THEN sw.b ELSE sw.a
       IN  IF next \in Range(comp) THEN comp ELSE Append(comp, next)

Visit(cur, comp, nv, maybe) ==
  FoldLeft(LAMBDA c, sw : Follow(cur, c, sw, nv, maybe), comp, Switches)

\* The nets that are joined to `start`, in the order in which they are met.
tran_component(start, nv, maybe) ==
  LET visited[k \in Nat] == \* after the first k nets
        IF k = 0 THEN <<start>>
        ELSE LET comp == visited[k - 1]
             IN  IF k > Len(comp) THEN comp ELSE Visit(comp[k], comp, nv, maybe)
  IN  visited[Cardinality(Nets)]

PullVal(p) == IF p.one THEN ONE ELSE ZERO

Combine(kind, x, y) ==
  IF kind = "wand" THEN resolve_wand(x, y)
  ELSE IF kind = "wor" THEN resolve_wor(x, y)
  ELSE resolve(x, y)

\* A group counts as one net, of the kind of the net it starts with.
resolve_tran_group(group, dv) ==
  LET kind == Kind[Head(group)]
      drivers == UNION {Drivers(n, dv) : n \in Range(group)}
      pulls == FlattenSeq([i \in DOMAIN group |-> Pulls[group[i]]])
      folded == FoldSet(LAMBDA x, y : Combine(kind, x, y), Z,
                        {dv[c] : c \in drivers})
  IN  IF (\E n \in Range(group) : StrengthAware(n)) /\ kind \notin {"wand", "wor"}
      THEN resolve_strength(1,
             {[val |-> dv[c], s0 |-> Strength[c][1], s1 |-> Strength[c][2]] :
                c \in drivers}
             \cup {[val |-> PullVal(p), s0 |-> p.level, s1 |-> p.level] :
                p \in Range(pulls)})
      ELSE IF folded = Z /\ pulls # <<>> THEN PullVal(Head(pulls)) ELSE folded

-----------------------------------------------------------------------------
(* Resistive groups.  A signal is <<l0, l1>>, how strongly 0 and 1 are driven. *)

reduce_strength(level) ==
  CASE level \in {6, 7} -> 5 [] level = 5 -> 3 [] level \in {3, 4} -> 2
    [] level \in {1, 2} -> 1 [] OTHER -> 0

collapse_strength(s) ==
  IF s[1] > s[2] THEN <<s[1], 0>> ELSE IF s[1] < s[2] THEN <<0, s[2]>> ELSE s

strength_bit(s) ==
  IF s[1] > s[2] THEN ZERO ELSE IF s[1] < s[2] THEN ONE
  ELSE IF s[1] = 0 THEN Z ELSE X

\* The collapsed maximum of a set of signals.
Strongest(S) ==
  collapse_strength(<<Max({s[1] : s \in S} \cup {0}), Max({s[2] : s \in S} \cup {0})>>)

Through(sw, s) ==
  IF sw.resistive THEN <<reduce_strength(s[1]), reduce_strength(s[2])>> ELSE s

\* What a driver with value v adds, an X taken for 1 or for 0.
Drive(v, strength, x_as_one) ==
  IF v = Z THEN <<0, 0>>
  ELSE IF v = ONE \/ (v = X /\ x_as_one) THEN <<0, strength[2]>>
  ELSE <<strength[1], 0>>

PullDrive(p) == IF p.one THEN <<0, p.level>> ELSE <<p.level, 0>>

Own(n, dv, x_as_one) ==
  Strongest({Drive(dv[c], Strength[c], x_as_one) : c \in Drivers(n, dv)}
            \cup {PullDrive(p) : p \in Range(Pulls[n])})

\* One round: every net takes its own drive and its neighbours' last signals.
Round(group, edges, own, state) ==
  [n \in group |->
     Strongest({own[n]}
       \cup {Through(sw, state[sw.b]) : sw \in {e \in edges : e.a = n}}
       \cup {Through(sw, state[sw.a]) : sw \in {e \in edges : e.b = n}})]

Edges(group, nv, maybe) ==
  {sw \in Range(Switches) :
     tran_conduction(sw, nv, maybe) /\ sw.a \in group /\ sw.b \in group}

\* Rounds until nothing changes, at most 8 for every net and 8 more.
Relaxed(group, nv, dv, maybe, x_as_one) ==
  LET own == [n \in group |-> Own(n, dv, x_as_one)]
      edges == Edges(group, nv, maybe)
      after[k \in Nat] ==
        IF k = 0 THEN [state |-> own, settled |-> FALSE]
        ELSE LET r == after[k - 1]
                 next == Round(group, edges, own, r.state)
             IN  IF r.settled THEN r
                 ELSE IF next = r.state THEN [r EXCEPT !.settled = TRUE]
                 ELSE [r EXCEPT !.state = next]
  IN  after[8 * Cardinality(group) + 8].state

solve_resistive_group(group, nv, dv, maybe) ==
  LET s0 == Relaxed(group, nv, dv, maybe, FALSE)
      s1 == Relaxed(group, nv, dv, maybe, TRUE)
  IN  [n \in group |-> IF strength_bit(s0[n]) = strength_bit(s1[n])
                       THEN strength_bit(s0[n]) ELSE X]

-----------------------------------------------------------------------------
(* recompute_tran: the values of all nets after the group of n is resolved *)

Resistive(group) ==
  \E sw \in Range(Switches) : sw.resistive /\ sw.a \in group /\ sw.b \in group

recompute_tran(n, nv, dv) ==
  LET seq == tran_component(n, nv, TRUE)
      group == Range(seq)
      def == solve_resistive_group(group, nv, dv, FALSE)
      may == solve_resistive_group(group, nv, dv, TRUE)
      \* The group of m over switches that do conduct, from its first net on.
      first(m) == SelectInSeq(seq, LAMBDA k : m \in Range(tran_component(k, nv, FALSE)))
      def_group(m) == tran_component(seq[first(m)], nv, FALSE)
  IN  [m \in Nets |->
         IF m \notin group THEN nv[m]
         ELSE IF Resistive(group) THEN merge_unknown(def[m], may[m])
         ELSE merge_unknown(resolve_tran_group(def_group(m), dv),
                            resolve_tran_group(seq, dv))]

-----------------------------------------------------------------------------
(* Actions *)

Init ==
  /\ net_values = [n \in Nets |->
                     IF Kind[n] = "reg" THEN X
                     ELSE IF Pulls[n] # <<>> THEN PullVal(Head(Pulls[n])) ELSE Z]
  /\ driver_vals = <<>>
  /\ cont_dirty = Conts
  /\ region = "active"
  /\ writes = 0

Changed(old, new) == {n \in Nets : new[n] # old[n]}

\* mark_cont_dirty for the readers of the nets in N.
Marked(N) == UNION {Readers(n) : n \in N}

\* A process assigns a variable.
Write(n, val) ==
  /\ region = "active"
  /\ writes < MaxWrites
  /\ writes' = writes + 1
  /\ net_values' = [net_values EXCEPT ![n] = val]
  /\ cont_dirty' = cont_dirty \cup Marked(Changed(net_values, net_values'))
  /\ UNCHANGED <<driver_vals, region>>

EndActive ==
  /\ region = "active"
  /\ region' = "conts"
  /\ UNCHANGED <<net_values, driver_vals, cont_dirty, writes>>

\* Assignment c to a terminal: the driver's value, and its group.
EvalDriver(c) ==
  LET dv == [d \in DOMAIN driver_vals \cup {c} |->
               IF d = c THEN Value(c, net_values) ELSE driver_vals[d]]
  IN  /\ region = "conts"
      /\ c \in cont_dirty
      /\ LVal[c] \in Terminals
      /\ driver_vals' = dv
      /\ net_values' = recompute_tran(LVal[c], net_values, dv)
      /\ cont_dirty' = (cont_dirty \ {c}) \cup Marked(Changed(net_values, net_values'))
      /\ UNCHANGED <<region, writes>>

\* Deviant: only the side a of a switch is resolved again.
Deviant_on_tran_enable_change(sw, nv, dv) ==
  <<recompute_tran(sw.a, nv, dv), recompute_tran(sw.a, nv, dv)>>

\* The nets after the group of a, and then that of b, is resolved again.
on_tran_enable_change(sw, nv, dv) ==
  LET mid == recompute_tran(sw.a, nv, dv)
  IN  <<mid, recompute_tran(sw.b, mid, dv)>>

\* Deviant: what the switch changes is not reported.
DeviantReported(old, mid, new) == Changed(old, mid)

\* The nets whose changes commit_net_value reports.
Reported(old, mid, new) == Changed(old, mid) \cup Changed(mid, new)

\* Assignment c to a net of its own, which may control a switch.
EvalNet(c) ==
  LET written == [net_values EXCEPT ![LVal[c]] = Value(c, net_values)]
      changed == Changed(net_values, written)
      controlled == {sw \in Range(Switches) : sw.en \in changed}
  IN  /\ region = "conts"
      /\ c \in cont_dirty
      /\ LVal[c] \notin Terminals
      /\ \/ /\ controlled = {}
            /\ net_values' = written
            /\ cont_dirty' = (cont_dirty \ {c}) \cup Marked(changed)
         \/ \E sw \in controlled :
              LET steps == on_tran_enable_change(sw, written, driver_vals)
              IN  /\ net_values' = steps[2]
                  /\ cont_dirty' = (cont_dirty \ {c}) \cup
                       Marked(changed \cup Reported(written, steps[1], steps[2]))
      /\ UNCHANGED <<driver_vals, region, writes>>

EndConts ==
  /\ region = "conts"
  /\ cont_dirty = {}
  /\ region' = "active"
  /\ UNCHANGED <<net_values, driver_vals, cont_dirty, writes>>

Next ==
  \/ \E n \in DOMAIN Inputs : \E val \in Inputs[n] : Write(n, val)
  \/ EndActive
  \/ \E c \in Conts : EvalDriver(c)
  \/ \E c \in Conts : EvalNet(c)
  \/ EndConts

Spec == Init /\ [][Next]_vars

-----------------------------------------------------------------------------
(* What bidirectional switches promise *)


\* What assignment c drives is val.
Drives(c, val) ==
  IF LVal[c] \in Terminals THEN c \in DOMAIN driver_vals /\ driver_vals[c] = val
  ELSE net_values[LVal[c]] = val

\* An assignment that is not waiting to be evaluated drives the value that
\* its expression has now: a change that a switch carries from net to net, or
\* that comes from a switch that opens or closes, reaches every reader, the
\* controls of further switches included.  About recompute_tran,
\* commit_net_value and on_tran_enable_change.
CleanIsCurrent ==
  \A c \in Conts \ cont_dirty : Drives(c, Value(c, net_values))

-----------------------------------------------------------------------------
(* The reference: switches in S conduct, drivers in ones drive 1 with their X *)

\* The strongest signal at n that does not come over a switch in `from`:
\* k bounds the length of the way.  Switches form no ring in the designs
\* that are checked against it, so a signal arrives over one way.
Arriving(n, S, ones) ==
  LET own(m) == Strongest({Drive(driver_vals[c], Strength[c], c \in ones) :
                             c \in Drivers(m, driver_vals)}
                          \cup {PullDrive(p) : p \in Range(Pulls[m])})
      at[k \in Nat, m \in Nets, from \in SUBSET S] ==
        IF k = 0 THEN own(m)
        ELSE Strongest({own(m)} \cup
               {Through(sw, at[k - 1, IF sw.a = m THEN sw.b ELSE sw.a, {sw}]) :
                  sw \in {s \in S \ from : m \in {s.a, s.b}}})
  IN  strength_bit(at[Cardinality(S), n, {}])

\* Every choice for the switches and the drivers that are unknown.
Possible(n) ==
  LET on == {sw \in Range(Switches) : Conducts(sw, net_values)}
      open == {sw \in Range(Switches) : Unknown(sw, net_values)}
      xs == {c \in DOMAIN driver_vals : driver_vals[c] = X}
  IN  {Arriving(n, on \cup S, ones) : S \in SUBSET open, ones \in SUBSET xs}

\* Once the assignments have settled, a terminal of a switch has the value of
\* the strongest signal that reaches it over switches that conduct, weakened by
\* the resistive ones on its way.  The bit is known exactly when it is the same
\* for every choice of what is unknown.  It does not depend on which driver or
\* switch changed last, nor from which net a group was visited.  About
\* recompute_tran, resolve_tran_group and solve_resistive_group.
TerminalsResolved ==
  region = "active" /\ cont_dirty = {} =>
    \A n \in Terminals :
      net_values[n] =
        LET all == Possible(n)
        IN  IF Cardinality(all) = 1 THEN CHOOSE x \in all : TRUE ELSE X

\* "The relaxation ... is repeated up to a fixed point" (interp.rs:1509,
\* solve_resistive_group): one round more changes nothing.  The code stops after a
\* number of rounds, and there are designs whose signals never come to rest.
RelaxationEnds ==
  \A group \in {Range(tran_component(n, net_values, TRUE)) : n \in Terminals} :
    Resistive(group) =>
      \A maybe, x_as_one \in BOOLEAN :
        LET state == Relaxed(group, net_values, driver_vals, maybe, x_as_one)
            own == [m \in group |-> Own(m, driver_vals, x_as_one)]
        IN  Round(group, Edges(group, net_values, maybe), own, state) = state
=============================================================================
