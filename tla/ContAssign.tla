----------------------------- MODULE ContAssign -----------------------------
(***************************************************************************)
(* Continuous assignments of crates/sim/src/interp.rs: the worklist, the    *)
(* drivers of a net and their resolution, inertial delays.                  *)
(*                                                                         *)
(* A continuous assignment is evaluated when a net that it reads has        *)
(* changed.  Its value is written at once or, with a delay, scheduled; a    *)
(* scheduled value counts only while its generation is the latest one.      *)
(*                                                                         *)
(* The expression of an assignment is a function of the nets that it reads.  *)
(* The worklist is a set (module Scheduler has the queue and its bits), so    *)
(* that nothing here depends on its order.  Processes are an environment      *)
(* that writes variables.  Nets that are joined by tran switches are not     *)
(* here.                                                                   *)
(***************************************************************************)
EXTENDS LogicVec, Sequences, SequencesExt

CONSTANTS
  Conts,     \* the continuous assignments, 1..N
  Nets,
  Width,     \* [Nets -> widths]
  Kind,      \* [Nets -> {"reg", "wire", "wand", "wor", "trireg"}]
  Pulls,     \* [Nets -> sequences of [lo, w, one, level]]
  Charge,    \* [Nets -> level of a trireg's charge]
  LVal,      \* [Conts -> sequences of parts [net, lo, w, whole], MSB first]
  Reads,     \* [Conts -> the nets of the expression]
  Eval(_, _),\* the value of an assignment's expression, given those nets
  Signed,    \* [Conts -> BOOLEAN]
  Delay,     \* [Conts -> Nat]
  Strength,  \* [Conts -> <<s0, s1>>]
  Inputs,    \* [variables that processes write -> values they write]
  ContLimit, \* evaluations before a loop is cut off
  MaxTime,   \* --max-time
  MaxWrites  \* bound on the writes of processes

\* A part of an assignment's target.
PartSet == [net : Nets, lo : Nat, w : Nat \ {0}, whole : BOOLEAN]

\* A pull of some bits of a net; a charge is small, medium or large.
PullSet == [lo : Nat, w : Nat, one : BOOLEAN, level : 1..7]

\* Assignments drive nets, not variables; processes write variables.
ASSUME ContAssumption ==
  /\ Conts \subseteq Nat /\ IsFiniteSet(Conts)
  /\ Width \in [Nets -> Nat \ {0}]
  /\ Kind \in [Nets -> {"reg", "wire", "wand", "wor", "trireg"}]
  /\ Pulls \in [Nets -> Seq(PullSet)]
  /\ Charge \in [Nets -> {1, 2, 4}]
  /\ Strength \in [Conts -> (0..7) \X (0..7)]
  /\ LVal \in [Conts -> Seq(PartSet)]
  /\ \A c \in Conts : \A j \in DOMAIN LVal[c] :
       LET p == LVal[c][j]
       IN  /\ Kind[p.net] # "reg"
           /\ p.lo + p.w <= Width[p.net]
           /\ p.whole => p.lo = 0 /\ p.w = Width[p.net]
  /\ \A c \in Conts : LVal[c] # <<>>
  /\ Reads \in [Conts -> SUBSET Nets]
  /\ Delay \in [Conts -> Nat]
  /\ Signed \in [Conts -> BOOLEAN]
  /\ DOMAIN Inputs \subseteq {n \in Nets : Kind[n] = "reg"}
  /\ ContLimit \in Nat /\ MaxTime \in Nat /\ MaxWrites \in Nat

VARIABLES
  net_values,    \* [Nets -> vectors]
  driver_vals,   \* <<assignment, part>> -> its value on a resolved net
  cont_dirty,    \* the assignments to evaluate
  evals,         \* iterations of eval_conts
  cont_gens,     \* [Conts -> latest generation]
  future_conts,  \* records [at, seq, cont, val, generation]
  seq, now,
  region,        \* where run is
  writes,        \* number of writes so far
  warned         \* eval_conts has given up once and said so

vars == <<net_values, driver_vals, cont_dirty, evals, cont_gens, future_conts,
          seq, now, region, writes, warned>>

-----------------------------------------------------------------------------
(* The design: what elaboration tells the simulator *)

Parts(c) == DOMAIN LVal[c]
Target(d) == LVal[d[1]][d[2]].net

AllParts == UNION {{<<c, j>> : j \in Parts(c)} : c \in Conts}

net_drivers(n) == {d \in AllParts : Target(d) = n}

\* multi_driven_target: the net has an entry in net_drivers.
Multi(n) ==
  /\ Kind[n] # "reg"
  /\ \/ Kind[n] = "trireg"
     \/ Pulls[n] # <<>>
     \/ \E d, e \in net_drivers(n) : d # e

StrengthAware(n) ==
  /\ Kind[n] \in {"wire", "trireg"}
  /\ \/ Kind[n] = "trireg"
     \/ \E d \in net_drivers(n) : Strength[d[1]] # <<6, 6>>
     \/ \E k \in DOMAIN Pulls[n] : Pulls[n][k].level # 5

\* cont_sensitivity
Readers(n) == {c \in Conts : n \in Reads[c]}

\* eval_expr of the right-hand side in the state nv.
Value(c, nv) == Eval(c, [n \in Reads[c] |-> nv[n]])

-----------------------------------------------------------------------------
(* Values that are written *)

\* The bits below part j of a concatenation.
Offset(c, j) ==
  FoldLeft(LAMBDA sum, p : sum + p.w, 0, SubSeq(LVal[c], j + 1, Len(LVal[c])))

TotalWidth(c) == Offset(c, 0)

\* The bits of val that part j takes.
Slice(c, j, val) ==
  IF Len(LVal[c]) = 1 THEN val
  ELSE LET full == IF Signed[c] THEN extend_sign(val, TotalWidth(c))
                                ELSE resize(val, TotalWidth(c))
           lo == Offset(c, j)
       IN  part_select(full, lo + LVal[c][j].w - 1, lo)

\* `base` with part j of c replaced: write_lvalue on a net's value,
\* multi_driver_value on a vector of Z.
Put(base, c, j, val) ==
  LET p == LVal[c][j]
      s == Slice(c, j, val)
      sign == Len(LVal[c]) = 1 /\ Signed[c] /\ p.whole
  IN  insert_bits(base, p.lo, p.w, IF sign THEN extend_sign(s, p.w) ELSE s)

multi_driver_value(c, j, val) ==
  Put(z_of_width(Width[LVal[c][j].net]), c, j, val)

-----------------------------------------------------------------------------
(* write_multi_driver: the value of a net with drivers dv, previously held *)

\* The last of some drivers, in the order of net_drivers.
LastDriver(D) ==
  CHOOSE d \in D : \A e \in D : e[1] < d[1] \/ (e[1] = d[1] /\ e[2] <= d[2])

\* Deviant: a wand is resolved as a wire.
DeviantCombine(n, x, y) ==
  IF Kind[n] = "wor" THEN resolve_wor(x, y) ELSE resolve(x, y)

Combine(n, x, y) ==
  IF Kind[n] = "wand" THEN resolve_wand(x, y)
  ELSE IF Kind[n] = "wor" THEN resolve_wor(x, y)
  ELSE resolve(x, y)

Pulling(n, i) ==
  {k \in DOMAIN Pulls[n] : i \in Pulls[n][k].lo..(Pulls[n][k].lo + Pulls[n][k].w - 1)}

\* pull_z_range for one pull after the other: the first one decides a bit.
Pulled(n, x) ==
  LET z == {i \in Zs(x) : Pulling(n, i) # {}}
      first(i) == CHOOSE k \in Pulling(n, i) : \A m \in Pulling(n, i) : k <= m
  IN  from_chunks(Width[n], x.a \cup {i \in z : Pulls[n][first(i)].one}, x.b \ z)

PullDriver(n, p) ==
  [val |-> insert_bits(z_of_width(Width[n]), p.lo, p.w, all_bits(p.w, p.one)),
   s0 |-> p.level, s1 |-> p.level]

\* Deviant: the charge of a trireg is left out.
DeviantStrengthDrivers(n, dv, held) ==
  {[val |-> dv[d], s0 |-> Strength[d[1]][1], s1 |-> Strength[d[1]][2]] :
     d \in net_drivers(n) \cap DOMAIN dv}
  \cup {PullDriver(n, Pulls[n][k]) : k \in DOMAIN Pulls[n]}

StrengthDrivers(n, dv, held) ==
  {[val |-> dv[d], s0 |-> Strength[d[1]][1], s1 |-> Strength[d[1]][2]] :
     d \in net_drivers(n) \cap DOMAIN dv}
  \cup {PullDriver(n, Pulls[n][k]) : k \in DOMAIN Pulls[n]}
  \cup (IF Kind[n] = "trireg"
        THEN {[val |-> held, s0 |-> Charge[n], s1 |-> Charge[n]]} ELSE {})

\* The values of the drivers in D, one after the other in their order.
Folded(n, dv, D) ==
  MapThenFoldSet(LAMBDA v, x : Combine(n, x, v), z_of_width(Width[n]),
                 LAMBDA d : dv[d], LastDriver, D)

\* Drivers without a value yet do not count.
Resolved(n, dv, held) ==
  IF StrengthAware(n)
  THEN resolve_strength(Width[n], StrengthDrivers(n, dv, held))
  ELSE Pulled(n, Folded(n, dv, net_drivers(n) \cap DOMAIN dv))

-----------------------------------------------------------------------------
(* write_cont *)

\* get_lval_val: a part of a net counts with the whole net.
get_lval_val(c, nv) ==
  IF Len(LVal[c]) = 1 THEN nv[LVal[c][1].net]
  ELSE FoldLeft(LAMBDA x, p : concat(x, nv[p.net]), nv[LVal[c][1].net],
                Tail(LVal[c]))

MultiParts(c) == {j \in Parts(c) : Multi(LVal[c][j].net)}

DriversAfter(c, val, dv) ==
  LET own == {<<c, j>> : j \in MultiParts(c)}
  IN  [d \in DOMAIN dv \cup own |->
         IF d \in own THEN multi_driver_value(c, d[2], val) ELSE dv[d]]

NetsAfter(c, val, nv, dv) ==
  [n \in Nets |->
     IF \A j \in Parts(c) : LVal[c][j].net # n THEN nv[n]
     ELSE IF Multi(n) THEN Resolved(n, DriversAfter(c, val, dv), nv[n])
     ELSE Put(nv[n], c, CHOOSE j \in Parts(c) : LVal[c][j].net = n, val)]

\* Deviant: a change of a resolved net is not reported.
DeviantTriggers(c, old, new) ==
  {n \in {LVal[c][j].net : j \in Parts(c)} : ~Multi(n) /\ new[n] # old[n]}

\* trigger_sensitivity: the nets whose change is noticed.  On a concatenation
\* without a resolved net the old and the new values are cut into the widths
\* of the parts, although whole nets were joined.
Triggers(c, old, new) ==
  IF Len(LVal[c]) = 1 \/ MultiParts(c) # {}
  THEN {n \in {LVal[c][j].net : j \in Parts(c)} : new[n] # old[n]}
  ELSE LET cut(j, nv) ==
             part_select(resize(get_lval_val(c, nv), TotalWidth(c)),
                         Offset(c, j) + LVal[c][j].w - 1, Offset(c, j))
       IN  {LVal[c][j].net : j \in {k \in Parts(c) : cut(k, new) # cut(k, old)}}

\* mark_cont_dirty for the readers of the nets in N.
Marked(N) == UNION {Readers(n) : n \in N}

\* Assignment c writes val; `rest` is the worklist without c.
write_cont(c, val, rest) ==
  /\ driver_vals' = DriversAfter(c, val, driver_vals)
  /\ net_values' = NetsAfter(c, val, net_values, driver_vals)
  /\ cont_dirty' = rest \cup Marked(Triggers(c, net_values, net_values'))

\* Deviant: the resolved value of the net is compared.
Deviant_cont_driver_matches(c, val) == get_lval_val(c, net_values) = val

cont_driver_matches(c, val) ==
  IF Len(LVal[c]) = 1 /\ Multi(LVal[c][1].net)
  THEN (IF <<c, 1>> \in DOMAIN driver_vals THEN driver_vals[<<c, 1>>]
        ELSE z_of_width(Width[LVal[c][1].net])) = multi_driver_value(c, 1, val)
  ELSE get_lval_val(c, net_values) = val

-----------------------------------------------------------------------------
(* Actions *)

Init ==
  /\ net_values = [n \in Nets |->
                     IF Kind[n] \in {"reg", "trireg"} THEN x_of_width(Width[n])
                     ELSE Pulled(n, z_of_width(Width[n]))]
  /\ driver_vals = <<>>
  /\ cont_dirty = Conts
  /\ evals = 0
  /\ cont_gens = [c \in Conts |-> 0]
  /\ future_conts = {}
  /\ seq = 0 /\ now = 0 /\ writes = 0
  /\ region = "active"
  /\ warned = FALSE

\* A process assigns a variable; it may have been woken by what has settled.
Write(n, val) ==
  /\ region \in {"active", "settled"}
  /\ writes < MaxWrites
  /\ writes' = writes + 1
  /\ region' = "active"
  /\ net_values' = [net_values EXCEPT ![n] = val]
  /\ cont_dirty' = IF net_values[n] = val THEN cont_dirty
                   ELSE cont_dirty \cup Readers(n)
  /\ UNCHANGED <<driver_vals, evals, cont_gens, future_conts, seq, now, warned>>

EndActive ==
  /\ region = "active"
  /\ region' = "conts"
  /\ evals' = 0
  /\ UNCHANGED <<net_values, driver_vals, cont_dirty, cont_gens, future_conts,
                 seq, now, writes, warned>>

\* The value is the one being driven: what was scheduled is cancelled.
Absorb(c) == cont_gens' = [cont_gens EXCEPT ![c] = @ + 1]

Schedule(c, val) ==
  /\ cont_gens' = [cont_gens EXCEPT ![c] = @ + 1]
  /\ seq' = seq + 1
  /\ future_conts' = future_conts \cup
       {[at |-> now + Delay[c], seq |-> seq + 1, cont |-> c, val |-> val,
         generation |-> cont_gens[c] + 1]}

Count == evals' = evals + 1

\* One iteration of eval_conts.
EvalCont(c) ==
  LET val == Value(c, net_values)
      rest == cont_dirty \ {c}
  IN  /\ region = "conts"
      /\ c \in cont_dirty
      /\ evals < ContLimit
      /\ Count
      /\ \/ /\ Delay[c] = 0
            /\ write_cont(c, val, rest)
            /\ UNCHANGED <<cont_gens, future_conts, seq>>
         \/ /\ Delay[c] > 0
            /\ cont_driver_matches(c, val)
            /\ Absorb(c)
            /\ cont_dirty' = rest
            /\ UNCHANGED <<net_values, driver_vals, future_conts, seq>>
         \/ /\ Delay[c] > 0
            /\ ~cont_driver_matches(c, val)
            /\ Schedule(c, val)
            /\ cont_dirty' = rest
            /\ UNCHANGED <<net_values, driver_vals>>
      /\ UNCHANGED <<now, region, writes, warned>>

\* A loop that does not settle is cut off.
GiveUp ==
  /\ region = "conts"
  /\ cont_dirty # {}
  /\ evals = ContLimit
  /\ cont_dirty' = {}
  /\ evals' = 0
  /\ warned' = TRUE
  /\ region' = "settled"
  /\ UNCHANGED <<net_values, driver_vals, cont_gens, future_conts, seq, now,
                 writes>>

EndConts ==
  /\ region = "conts"
  /\ cont_dirty = {}
  /\ evals' = 0
  /\ region' = "settled"
  /\ UNCHANGED <<net_values, driver_vals, cont_dirty, cont_gens, future_conts,
                 seq, now, writes, warned>>

\* The top of the heap.
IsTop(e) ==
  \A f \in future_conts : e.at < f.at \/ (e.at = f.at /\ e.seq <= f.seq)

\* Deviant: the generation is not looked at.
DeviantIsLive(e) == TRUE

IsLive(e) == cont_gens[e.cont] = e.generation

apply_future_cont(e) ==
  /\ IsTop(e)
  /\ future_conts' = future_conts \ {e}
  /\ IF IsLive(e) THEN write_cont(e.cont, e.val, cont_dirty)
     ELSE UNCHANGED <<net_values, driver_vals, cont_dirty>>
  /\ UNCHANGED <<evals, cont_gens, seq, writes, warned>>

\* The first update of the next time, and the others of that time.
Advance ==
  /\ region = "settled"
  /\ \E e \in future_conts :
       /\ e.at <= MaxTime
       /\ apply_future_cont(e)
       /\ now' = e.at
  /\ region' = "drain"

Drain ==
  /\ region = "drain"
  /\ \E e \in future_conts : e.at = now /\ apply_future_cont(e)
  /\ UNCHANGED <<now, region>>

EndDrain ==
  /\ region = "drain"
  /\ \A e \in future_conts : e.at # now
  /\ region' = "active"
  /\ UNCHANGED <<net_values, driver_vals, cont_dirty, evals, cont_gens,
                 future_conts, seq, now, writes, warned>>

\* The next time is that of a process; the updates of that time are drained.
Elapse ==
  /\ region = "settled"
  /\ now' \in (now + 1)..MaxTime
  /\ \A e \in future_conts : now' <= e.at
  /\ region' = "drain"
  /\ UNCHANGED <<net_values, driver_vals, cont_dirty, evals, cont_gens,
                 future_conts, seq, writes, warned>>

\* Nothing is left, or only what lies beyond MaxTime.
Stop ==
  /\ region = "settled"
  /\ \A e \in future_conts : e.at > MaxTime
  /\ region' = "stopped"
  /\ UNCHANGED <<net_values, driver_vals, cont_dirty, evals, cont_gens,
                 future_conts, seq, now, writes, warned>>

Stopped == region = "stopped" /\ UNCHANGED vars

\* The steps of run; what processes write and wait for is their business.
Run ==
  \/ EndActive \/ (\E c \in Conts : EvalCont(c)) \/ GiveUp \/ EndConts
  \/ Advance \/ Drain \/ EndDrain \/ Stop

Next ==
  \/ Run
  \/ Elapse
  \/ \E n \in DOMAIN Inputs : \E val \in Inputs[n] : Write(n, val)
  \/ Stopped

Spec == Init /\ [][Next]_vars
=============================================================================
