------------------------ MODULE ContAssignProperties ------------------------
(***************************************************************************)
(* What the continuous assignments promise.                                 *)
(***************************************************************************)
EXTENDS ContAssign

-----------------------------------------------------------------------------
(* Assignments hold *)

\* What part j of c adds to a resolved net; before its first write, nothing.
Driver(c, j) ==
  IF <<c, j>> \in DOMAIN driver_vals THEN driver_vals[<<c, j>>]
  ELSE z_of_width(Width[LVal[c][j].net])

\* Part j of c drives what the value val gives it.
Contributes(c, j, val) ==
  LET n == LVal[c][j].net
  IN  IF Multi(n) THEN Driver(c, j) = multi_driver_value(c, j, val)
      ELSE Put(net_values[n], c, j, val) = net_values[n]

Drives(c, val) == \A j \in Parts(c) : Contributes(c, j, val)

\* An assignment without a delay that is not waiting to be evaluated drives
\* the value that its expression has NOW: no change of a net that it reads
\* is lost, whichever write, resolution or delayed update caused it, and no
\* other assignment takes its contribution away.  (Once eval_conts has given
\* up on a loop it may not.)  About trigger_sensitivity, write_cont and
\* eval_conts.
CleanIsCurrent ==
  ~warned =>
    \A c \in Conts \ cont_dirty : Delay[c] = 0 => Drives(c, Value(c, net_values))

\* The scheduled values of c that count.
Live(c) == {e \in future_conts : e.cont = c /\ IsLive(e)}

\* A delayed assignment that is not waiting to be evaluated either drives the
\* value of its expression already, or has exactly one scheduled update that
\* counts, of that very value, not later than its delay from now.  About
\* cont_driver_matches, the generations and apply_future_cont.
DelayedIsCurrent ==
  ~warned =>
    \A c \in Conts \ cont_dirty :
      Delay[c] > 0 =>
        \/ Live(c) = {} /\ Drives(c, Value(c, net_values))
        \/ \E e \in Live(c) :
             /\ Live(c) = {e}
             /\ e.val = Value(c, net_values)
             /\ now <= e.at /\ e.at <= now + Delay[c]

-----------------------------------------------------------------------------
(* Delays are inertial *)

\* The value that assignment c, which has one part, drives.
Driven(c) ==
  IF Multi(LVal[c][1].net) THEN Driver(c, 1) ELSE net_values[LVal[c][1].net]

Pending(c) == {[at |-> e.at, val |-> e.val] : e \in Live(c)}

Inertial(c) == INSTANCE InertialDelay WITH
  D <- Delay[c], Restarts <- FALSE, out <- Driven(c), pending <- Pending(c)

Restarting(c) == INSTANCE InertialDelay WITH
  D <- Delay[c], Restarts <- TRUE, out <- Driven(c), pending <- Pending(c)

\* The delayed assignments to whole nets of the expression's own width.
Delayed == {c \in Conts : Delay[c] > 0 /\ Len(LVal[c]) = 1 /\ LVal[c][1].whole}

\* What PLAN.md:336 says of delays: they are the inertial delays of IEEE 1364.
\* eval_conts does not: it raises the generation before it looks, so that an
\* assignment that is evaluated again to the value already on its way has that
\* value put off (interp.rs:1743-1754).
\* (Inertial(c)!Spec for each c, written as one formula for TLC.)
ImplementsInertialDelay ==
  /\ \A c \in Delayed : Inertial(c)!Init
  /\ [][\A c \in Delayed : [Inertial(c)!Next]_(Inertial(c)!vars)]_vars

\* What the heap, the sequence numbers and the generations do implement is a
\* delay with one pending change that every evaluation starts anew: an update that
\* was overtaken or cancelled never reaches the net, whatever else is in the
\* heap, and time does not pass a change that is due.
ImplementsRestartingDelay ==
  /\ \A c \in Delayed : Restarting(c)!Init
  /\ [][\A c \in Delayed : [Restarting(c)!Next]_(Restarting(c)!vars)]_vars

-----------------------------------------------------------------------------
(* Nets are resolved *)

\* The values of bit i: "z" when nothing drives it.
BitOf(v, i) ==
  IF i \in Xs(v) THEN "x" ELSE IF i \in Zs(v) THEN "z"
  ELSE IF i \in v.a THEN "1" ELSE "0"

\* The drivers of a net that counts strengths, with its pulls as drivers.
AllDrivers(n, dv) ==
  {[val |-> dv[d], s |-> Strength[d[1]]] : d \in net_drivers(n) \cap DOMAIN dv}
  \cup {[val |-> PullDriver(n, p).val, s |-> <<p.level, p.level>>] :
     p \in Range(Pulls[n])}

\* The strongest drive of `bit` by the drivers in D when those in ones drive 1
\* where they have an X, and the others 0.
Strongest(D, i, bit, ones) ==
  LET drives(d) ==
        \/ BitOf(d.val, i) = bit
        \/ BitOf(d.val, i) = "x" /\ (d \in ones) = (bit = "1")
      level(d) == IF bit = "1" THEN d.s[2] ELSE d.s[1]
  IN  Max({0} \cup {level(d) : d \in {e \in D : drives(e)}})

\* What bit i may be for one choice of the unknown bits.
Outcome(D, i, ones) ==
  LET s0 == Strongest(D, i, "0", ones)
      s1 == Strongest(D, i, "1", ones)
  IN  IF s0 = 0 /\ s1 = 0 THEN "z" ELSE IF s0 > s1 THEN "0"
      ELSE IF s1 > s0 THEN "1" ELSE "x"

\* The reference: every driver's X is decided on its own, in all ways; a bit
\* is known when all of them agree.
StrongestDrive(D, i) ==
  LET all == {Outcome(D, i, ones) : ones \in SUBSET D}
  IN  IF Cardinality(all) = 1 THEN CHOOSE x \in all : TRUE ELSE "x"

\* A wand (wor) bit: a 0 (1) decides, an X hides the other value, Z yields.
WiredDrive(bits, dominant, other) ==
  IF dominant \in bits THEN dominant ELSE IF "x" \in bits THEN "x"
  ELSE IF other \in bits THEN other ELSE "z"

DrivenBits(dv, D, i) == {BitOf(dv[d], i) : d \in D}

\* What bit i of net n should be.
Reference(n, dv, i) ==
  LET bits == DrivenBits(dv, net_drivers(n) \cap DOMAIN dv, i)
  IN  IF Kind[n] = "wand" THEN WiredDrive(bits, "0", "1")
      ELSE IF Kind[n] = "wor" THEN WiredDrive(bits, "1", "0")
      ELSE StrongestDrive(AllDrivers(n, dv), i)

\* A net with several drivers has, bit by bit, the value of the strongest
\* drive, whatever order its drivers are written in: the fast path that folds
\* values and then replaces Z by the pulls gives what the strengths give, and
\* deciding all X at once gives what deciding them one by one gives.  About
\* write_multi_driver, resolve, resolve_dominant, pull_z_range and
\* resolve_strength.
NetIsResolved ==
  \A n \in {m \in Nets :
             /\ Multi(m)
             /\ \/ Kind[m] = "wire"
                \/ Kind[m] \in {"wand", "wor"} /\ Pulls[m] = <<>>} :
    \A i \in Bits(Width[n]) :
      BitOf(net_values[n], i) = Reference(n, driver_vals, i)

\* A bit of a trireg that no driver and no pull drives any more keeps its value,
\* and one that a driver stronger than the charge drives takes the driver's.
KeepsCharge ==
  [][\A n \in Nets : Kind[n] = "trireg" =>
       \A i \in {k \in Bits(Width[n]) : Pulling(n, k) = {}} :
         LET present == {d \in net_drivers(n) \cap DOMAIN driver_vals' :
                           BitOf(driver_vals'[d], i) # "z"}
             known == DrivenBits(driver_vals', present, i)
         IN  /\ present = {} => BitOf(net_values[n], i)' = BitOf(net_values[n], i)
             /\ /\ known \in {{"0"}, {"1"}}
                /\ \A d \in present : Min(Range(Strength[d[1]])) > Charge[n]
                => BitOf(net_values[n], i)' \in known
    ]_vars

=============================================================================
