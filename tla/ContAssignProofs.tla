-------------------------- MODULE ContAssignProofs --------------------------
(***************************************************************************)
(* ContAssign for every design, whatever its assignments read, how they are  *)
(* resolved and how long they are delayed: no change is lost.  At most one   *)
(* delayed update of an assignment counts, it is due in time, it is the one   *)
(* that the expression calls for; the heap and the generations implement     *)
(* InertialDelay with delays that start anew.                                *)
(***************************************************************************)
EXTENDS ContAssignProperties, TLAPS

\* No concatenation whose parts all belong to nets of one driver: there,
\* trigger_sensitivity may miss a change (MCContSelect.cfg).
NoticesChanges ==
  \A c \in Conts : Len(LVal[c]) = 1 \/ MultiParts(c) # {}

\* The nets that assignment c writes.
Targets(c) == {LVal[c][j].net : j \in Parts(c)}

-----------------------------------------------------------------------------
(* The design *)

LEMMA PartFacts ==
  ASSUME NEW c \in Conts, NEW j \in Parts(c)
  PROVE  /\ LVal[c][j] \in PartSet
         /\ LVal[c][j].net \in Nets
         /\ Kind[LVal[c][j].net] # "reg"
         /\ <<c, j>> \in AllParts
         /\ <<c, j>> \in net_drivers(LVal[c][j].net)
<1>1. LVal[c] \in Seq(PartSet)
  BY ContAssumption
<1>2. LVal[c][j] \in PartSet
  BY <1>1 DEF Parts
<1>3. LVal[c][j].net \in Nets
  BY <1>2 DEF PartSet
<1>4. Kind[LVal[c][j].net] # "reg"
  BY ContAssumption DEF Parts
<1>5. <<c, j>> \in AllParts
  BY DEF AllParts
<1>6. Target(<<c, j>>) = LVal[c][j].net
  BY DEF Target
<1> QED
  BY <1>2, <1>3, <1>4, <1>5, <1>6 DEF net_drivers

\* A net that is not resolved is written by one part of one assignment.
LEMMA OneDriver ==
  ASSUME NEW c \in Conts, NEW j \in Parts(c), NEW d \in Conts, NEW k \in Parts(d),
         LVal[c][j].net = LVal[d][k].net, ~Multi(LVal[c][j].net)
  PROVE  c = d /\ j = k
<1> DEFINE n == LVal[c][j].net
<1>1. Kind[n] # "reg" /\ <<c, j>> \in net_drivers(n)
  BY PartFacts
<1>2. <<d, k>> \in net_drivers(n)
  BY PartFacts
<1>3. <<c, j>> = <<d, k>>
  BY <1>1, <1>2 DEF Multi
<1> QED
  BY <1>3

\* Only the nets that an assignment reads matter for its value.
LEMMA ValueOfReads ==
  ASSUME NEW c \in Conts, NEW M, NEW N, \A n \in Reads[c] : M[n] = N[n]
  PROVE  Value(c, M) = Value(c, N)
<1>1. [n \in Reads[c] |-> M[n]] = [n \in Reads[c] |-> N[n]]
  OBVIOUS
<1> QED
  BY <1>1 DEF Value

\* Writing a value twice is writing it once.
LEMMA InsertTwice ==
  ASSUME NEW x, NEW lo, NEW w, NEW v
  PROVE  insert_bits(insert_bits(x, lo, w, v), lo, w, v) = insert_bits(x, lo, w, v)
<1> DEFINE kept == Bits(x.width) \ (lo..(lo + w - 1))
           put(S) == Up(S \cap Bits(w), lo)
           y == insert_bits(x, lo, w, v)
           once(S, T) == ((S \cap kept) \cup T) \cap Bits(x.width)
<1>1. y = [width |-> x.width, a |-> once(x.a, put(v.a)), b |-> once(x.b, put(v.b))]
  BY DEF insert_bits, from_chunks
<1>2. y.width = x.width /\ y.a = once(x.a, put(v.a)) /\ y.b = once(x.b, put(v.b))
  BY <1>1
<1>3. insert_bits(y, lo, w, v) =
        [width |-> y.width,
         a |-> ((y.a \cap (Bits(y.width) \ (lo..(lo + w - 1)))) \cup put(v.a))
                 \cap Bits(y.width),
         b |-> ((y.b \cap (Bits(y.width) \ (lo..(lo + w - 1)))) \cup put(v.b))
                 \cap Bits(y.width)]
  BY DEF insert_bits, from_chunks
<1>4. ASSUME NEW S, NEW T
      PROVE  once(once(S, T), T) = once(S, T)
  OBVIOUS
<1>5. /\ once(once(x.a, put(v.a)), put(v.a)) = once(x.a, put(v.a))
      /\ once(once(x.b, put(v.b)), put(v.b)) = once(x.b, put(v.b))
  BY <1>4
<1> HIDE DEF put
<1> QED
  BY <1>1, <1>2, <1>3, <1>5

LEMMA PutTwice ==
  ASSUME NEW c \in Conts, NEW j \in Parts(c), NEW x, NEW val
  PROVE  Put(Put(x, c, j, val), c, j, val) = Put(x, c, j, val)
BY InsertTwice DEF Put

-----------------------------------------------------------------------------
(* One write of an assignment *)

\* What write_cont does to a net and to the drivers.
LEMMA WrittenNets ==
  ASSUME NEW c \in Conts, NEW val, NEW rest, write_cont(c, val, rest)
  PROVE  /\ \A n \in Nets \ Targets(c) : net_values'[n] = net_values[n]
         /\ \A j \in Parts(c) : ~Multi(LVal[c][j].net) =>
              net_values'[LVal[c][j].net] = Put(net_values[LVal[c][j].net], c, j, val)
         /\ \A j \in Parts(c) : Multi(LVal[c][j].net) =>
              Driver(c, j)' = multi_driver_value(c, j, val)
         /\ \A d \in Conts \ {c} : \A j \in Parts(d) : Driver(d, j)' = Driver(d, j)
<1>1. net_values' = NetsAfter(c, val, net_values, driver_vals)
  BY DEF write_cont
<1>2. driver_vals' = DriversAfter(c, val, driver_vals)
  BY DEF write_cont
<1>3. ASSUME NEW n \in Nets \ Targets(c)
      PROVE  net_values'[n] = net_values[n]
  BY <1>1, <1>3 DEF NetsAfter, Targets
<1>4. ASSUME NEW j \in Parts(c), ~Multi(LVal[c][j].net)
      PROVE  net_values'[LVal[c][j].net] = Put(net_values[LVal[c][j].net], c, j, val)
  <2> DEFINE n == LVal[c][j].net
             k == CHOOSE i \in Parts(c) : LVal[c][i].net = n
  <2>1. n \in Nets
    BY PartFacts
  <2>2. k \in Parts(c) /\ LVal[c][k].net = n
    OBVIOUS
  <2>3. k = j
    BY <2>2, <1>4, OneDriver
  <2>4. net_values'[n] = Put(net_values[n], c, k, val)
    BY <1>1, <1>4, <2>1 DEF NetsAfter
  <2> QED
    BY <2>3, <2>4
<1>5. ASSUME NEW j \in Parts(c), Multi(LVal[c][j].net)
      PROVE  Driver(c, j)' = multi_driver_value(c, j, val)
  <2>1. <<c, j>> \in {<<c, i>> : i \in MultiParts(c)}
    BY <1>5 DEF MultiParts
  <2>2. driver_vals'[<<c, j>>] = multi_driver_value(c, j, val)
    BY <1>2, <2>1 DEF DriversAfter
  <2>3. <<c, j>> \in DOMAIN driver_vals'
    BY <1>2, <2>1 DEF DriversAfter
  <2> QED
    BY <2>2, <2>3 DEF Driver
<1>6. ASSUME NEW d \in Conts \ {c}, NEW j \in Parts(d)
      PROVE  Driver(d, j)' = Driver(d, j)
  <2>1. <<d, j>> \notin {<<c, i>> : i \in MultiParts(c)}
    OBVIOUS
  <2>2. <<d, j>> \in DOMAIN driver_vals' <=> <<d, j>> \in DOMAIN driver_vals
    BY <1>2, <2>1 DEF DriversAfter
  <2>3. <<d, j>> \in DOMAIN driver_vals => driver_vals'[<<d, j>>] = driver_vals[<<d, j>>]
    BY <1>2, <2>1 DEF DriversAfter
  <2> QED
    BY <2>2, <2>3 DEF Driver
<1> QED
  BY <1>3, <1>4, <1>5, <1>6

\* An assignment that a write leaves clean reads nothing that has changed.
LEMMA UnreadWrite ==
  ASSUME NoticesChanges,
         NEW c \in Conts, NEW val, NEW rest, write_cont(c, val, rest),
         NEW d \in Conts \ cont_dirty'
  PROVE  Value(d, net_values') = Value(d, net_values)
<1>1. Triggers(c, net_values, net_values') =
        {n \in Targets(c) : net_values'[n] # net_values[n]}
  BY DEF NoticesChanges, Triggers, Targets
<1>2. ASSUME NEW n \in Reads[d]
      PROVE  net_values'[n] = net_values[n]
  <2>1. n \in Nets
    BY ContAssumption
  <2>2. d \in Readers(n)
    BY DEF Readers
  <2>3. n \notin Triggers(c, net_values, net_values')
    <3>1. cont_dirty' = rest \cup Marked(Triggers(c, net_values, net_values'))
      BY DEF write_cont
    <3> DEFINE T == Triggers(c, net_values, net_values')
    <3>2. d \notin Marked(T)
      BY <3>1
    <3> HIDE DEF T
    <3>3. n \notin T
      BY <3>2, <2>2 DEF Marked
    <3> QED
      BY <3>3 DEF T
  <2> QED
    BY <1>1, <2>1, <2>3, WrittenNets
<1> QED
  BY <1>2, ValueOfReads

\* A write leaves alone what other assignments contribute.
LEMMA OthersDrive ==
  ASSUME NEW c \in Conts, NEW val, NEW rest, write_cont(c, val, rest),
         NEW d \in Conts \ {c}, NEW v, Drives(d, v)
  PROVE  Drives(d, v)'
<1>1. ASSUME NEW j \in Parts(d)
      PROVE  Contributes(d, j, v)'
  <2> DEFINE n == LVal[d][j].net
  <2>1. Contributes(d, j, v)
    BY DEF Drives
  <2>2. CASE Multi(n)
    BY <2>1, <2>2, WrittenNets DEF Contributes
  <2>3. CASE ~Multi(n)
    <3>1. n \notin Targets(c)
      BY <2>3, OneDriver DEF Targets
    <3>2. n \in Nets
      BY PartFacts
    <3>3. net_values'[n] = net_values[n]
      BY <3>1, <3>2, WrittenNets
    <3> QED
      BY <2>1, <2>3, <3>3 DEF Contributes
  <2> QED
    BY <2>2, <2>3
<1> QED
  BY <1>1 DEF Drives

\* What has been written is driven.
LEMMA WriterDrives ==
  ASSUME NEW c \in Conts, NEW val, NEW rest, write_cont(c, val, rest)
  PROVE  Drives(c, val)'
<1>1. ASSUME NEW j \in Parts(c)
      PROVE  Contributes(c, j, val)'
  <2> DEFINE n == LVal[c][j].net
  <2>1. CASE Multi(n)
    BY <2>1, WrittenNets DEF Contributes
  <2>2. CASE ~Multi(n)
    <3>1. net_values'[n] = Put(net_values[n], c, j, val)
      BY <2>2, WrittenNets
    <3>2. Put(net_values'[n], c, j, val) = net_values'[n]
      BY <3>1, PutTwice
    <3> QED
      BY <2>2, <3>2 DEF Contributes
  <2> QED
    BY <2>1, <2>2
<1> QED
  BY <1>1 DEF Drives

-----------------------------------------------------------------------------
(* Steps that are not of an assignment *)

\* net_values is a function of the nets, and what is scheduled belongs to a
\* delayed assignment.
Shapes ==
  /\ net_values = [n \in Nets |-> net_values[n]]
  /\ cont_dirty \subseteq Conts
  /\ \A e \in future_conts : e.cont \in Conts /\ Delay[e.cont] > 0

THEOREM ShapesKept == Spec => []Shapes
<1>1. Init => Shapes
  BY DEF Init, Shapes
<1>2. Shapes /\ [Next]_vars => Shapes'
  <2> SUFFICES ASSUME Shapes, [Next]_vars PROVE Shapes'
    OBVIOUS
  <2> USE DEF Shapes
  <2>1. ASSUME NEW n \in DOMAIN Inputs, NEW val \in Inputs[n], Write(n, val)
        PROVE  Shapes'
    BY <2>1 DEF Write, Readers
  <2>2. ASSUME NEW c \in Conts, NEW val, NEW rest \in SUBSET Conts,
               write_cont(c, val, rest)
        PROVE  /\ net_values' = [n \in Nets |-> net_values'[n]]
               /\ cont_dirty' \subseteq Conts
    BY <2>2 DEF write_cont, NetsAfter, Marked, Readers
  <2>3. ASSUME NEW c \in Conts, EvalCont(c)
        PROVE  Shapes'
    <3> DEFINE val == Value(c, net_values)
               rest == cont_dirty \ {c}
    <3>1. CASE write_cont(c, val, rest) /\ UNCHANGED future_conts
      BY <2>2, <3>1
    <3>2. CASE Absorb(c) /\ cont_dirty' = rest /\ UNCHANGED <<net_values, future_conts>>
      BY <3>2
    <3>3. CASE Delay[c] > 0 /\ Schedule(c, val) /\ cont_dirty' = rest
               /\ UNCHANGED net_values
      BY <3>3 DEF Schedule
    <3> QED
      BY <2>3, <3>1, <3>2, <3>3 DEF EvalCont
  <2>4. ASSUME NEW e \in future_conts, apply_future_cont(e)
        PROVE  Shapes'
    <3>1. CASE IsLive(e)
      BY <2>2, <2>4, <3>1 DEF apply_future_cont
    <3>2. CASE ~IsLive(e)
      BY <2>4, <3>2 DEF apply_future_cont
    <3> QED
      BY <3>1, <3>2
  <2>5. CASE EndActive
    BY <2>5 DEF EndActive
  <2>6. CASE GiveUp
    BY <2>6 DEF GiveUp
  <2>7. CASE EndConts
    BY <2>7 DEF EndConts
  <2>8. CASE Advance
    BY <2>4, <2>8 DEF Advance
  <2>9. CASE Drain
    BY <2>4, <2>9 DEF Drain
  <2>10. CASE EndDrain
    BY <2>10 DEF EndDrain
  <2>11. CASE Stop
    BY <2>11 DEF Stop
  <2>12. CASE Elapse
    BY <2>12 DEF Elapse
  <2>13. CASE UNCHANGED vars
    BY <2>13 DEF vars
  <2> QED
    BY <2>1, <2>3, <2>5, <2>6, <2>7, <2>8, <2>9, <2>10, <2>11, <2>12, <2>13
    DEF Next, Run, Stopped
<1> QED
  BY <1>1, <1>2, PTL DEF Spec

\* A process's write: what stays clean reads and drives what it did.
LEMMA WriteKeeps ==
  ASSUME Shapes, NEW n \in DOMAIN Inputs, NEW val, Write(n, val),
         NEW d \in Conts \ cont_dirty'
  PROVE  /\ d \notin cont_dirty
         /\ Value(d, net_values') = Value(d, net_values)
         /\ \A v : Drives(d, v) => Drives(d, v)'
<1>1. n \in Nets /\ Kind[n] = "reg"
  BY ContAssumption
<1>2. \A m \in Nets \ {n} : net_values'[m] = net_values[m]
  BY DEF Write, Shapes
<1>3. d \notin cont_dirty
  BY DEF Write
<1>4. ASSUME NEW m \in Reads[d]
      PROVE  net_values'[m] = net_values[m]
  <2>1. m \in Nets
    BY ContAssumption
  <2>2. CASE m = n
    <3>1. d \in Readers(n)
      BY <2>2 DEF Readers
    <3>2. net_values[n] = val
      BY <3>1 DEF Write
    <3> QED
      BY <2>2, <3>2, <1>1 DEF Write, Shapes
  <2> QED
    BY <1>2, <2>1, <2>2
<1>5. Value(d, net_values') = Value(d, net_values)
  BY <1>4, ValueOfReads
<1>6. ASSUME NEW v, Drives(d, v), NEW j \in Parts(d)
      PROVE  Contributes(d, j, v)'
  <2> DEFINE m == LVal[d][j].net
  <2>1. m \in Nets \ {n}
    BY <1>1, PartFacts
  <2>2. net_values'[m] = net_values[m]
    BY <1>2, <2>1
  <2>3. Contributes(d, j, v)
    BY <1>6 DEF Drives
  <2>4. UNCHANGED driver_vals
    BY DEF Write
  <2>5. Driver(d, j)' = Driver(d, j)
    BY <2>4 DEF Driver
  <2> QED
    BY <2>2, <2>3, <2>5 DEF Contributes
<1> QED
  BY <1>3, <1>5, <1>6 DEF Drives

\* A step that touches no value and no worklist.
LEMMA QuietKeeps ==
  ASSUME UNCHANGED <<net_values, driver_vals>>, NEW d \in Conts, NEW v
  PROVE  Drives(d, v)' <=> Drives(d, v)
<1>1. \A j \in Parts(d) : Driver(d, j)' = Driver(d, j)
  BY DEF Driver
<1> QED
  BY <1>1 DEF Drives, Contributes

\* The value that is driven after a step, named by a value.
LEMMA DrivesValue ==
  ASSUME NEW d \in Conts, NEW v, Value(d, net_values') = v, Drives(d, v)'
  PROVE  Drives(d, Value(d, net_values))'
<1>1. ASSUME NEW j \in Parts(d)
      PROVE  Contributes(d, j, Value(d, net_values))'
  <2>1. Contributes(d, j, v)'
    BY DEF Drives
  <2>2. Value(d, net_values)' = v
    OBVIOUS
  <2> QED
    BY <2>1, <2>2 DEF Contributes
<1> QED
  BY <1>1 DEF Drives

-----------------------------------------------------------------------------
(* Assignments without a delay *)

\* No change is lost: an assignment without a delay that is not queued drives
\* the present value of its expression, for every design whose concatenations
\* report their changes.
THEOREM NoChangeLost ==
  ASSUME NoticesChanges
  PROVE  Spec => []CleanIsCurrent
<1>1. Init => CleanIsCurrent
  BY DEF Init, CleanIsCurrent
<1>2. Shapes /\ CleanIsCurrent /\ [Next]_vars => CleanIsCurrent'
  <2> SUFFICES ASSUME Shapes, CleanIsCurrent, [Next]_vars, ~warned',
                      NEW d \in Conts, d \notin cont_dirty', Delay[d] = 0
               PROVE  Drives(d, Value(d, net_values))'
    BY DEF CleanIsCurrent
  <2>1. PICK v : v = Value(d, net_values)
    OBVIOUS
  <2>0. ~warned /\ d \notin cont_dirty => Drives(d, v)
    BY <2>1 DEF CleanIsCurrent
  <2>2. ASSUME NEW n \in DOMAIN Inputs, NEW val \in Inputs[n], Write(n, val)
        PROVE  Drives(d, Value(d, net_values))'
    <3>1. ~warned
      BY <2>2 DEF Write
    <3>2. Value(d, net_values') = v
      BY <2>1, <2>2, WriteKeeps
    <3>3. Drives(d, v)'
      BY <2>0, <2>2, <3>1, WriteKeeps
    <3> QED
      BY <3>2, <3>3, DrivesValue
  <2>3. ASSUME NEW c \in Conts, NEW val, NEW rest, write_cont(c, val, rest),
               ~warned, c = d => val = v, c # d => d \notin cont_dirty
        PROVE  Drives(d, Value(d, net_values))'
    <3>1. Value(d, net_values') = v
      BY <2>1, <2>3, UnreadWrite
    <3>2. CASE c = d
      <4>1. Drives(d, v)'
        BY <2>3, <3>2, WriterDrives
      <4> QED
        BY <3>1, <4>1, DrivesValue
    <3>3. CASE c # d
      <4>1. Drives(d, v)'
        BY <2>0, <2>3, <3>3, OthersDrive
      <4> QED
        BY <3>1, <4>1, DrivesValue
    <3> QED
      BY <3>2, <3>3
  <2>4. ASSUME UNCHANGED <<net_values, driver_vals>>, ~warned, d \notin cont_dirty
        PROVE  Drives(d, Value(d, net_values))'
    <3>1. Value(d, net_values') = v
      BY <2>1, <2>4
    <3>2. Drives(d, v)'
      BY <2>0, <2>4, QuietKeeps
    <3> QED
      BY <3>1, <3>2, DrivesValue
  <2>5. ASSUME NEW c \in Conts, EvalCont(c)
        PROVE  Drives(d, Value(d, net_values))'
    <3> DEFINE rest == cont_dirty \ {c}
    <3>1. ~warned
      BY <2>5 DEF EvalCont
    <3>2. CASE write_cont(c, Value(c, net_values), rest)
      <4>1. d \notin rest
        BY <3>2 DEF write_cont
      <4>2. PICK val : val = Value(c, net_values)
        OBVIOUS
      <4>3. c = d => val = v
        BY <2>1, <4>2
      <4>4. write_cont(c, val, rest)
        BY <3>2, <4>2
      <4> QED
        BY <2>3, <3>1, <4>1, <4>3, <4>4
    <3>3. CASE Delay[c] > 0 /\ cont_dirty' = rest /\ UNCHANGED <<net_values, driver_vals>>
      BY <2>4, <3>1, <3>3
    <3> QED
      BY <2>5, <3>2, <3>3 DEF EvalCont
  <2>6. ASSUME NEW e \in future_conts, apply_future_cont(e)
        PROVE  Drives(d, Value(d, net_values))'
    <3>1. ~warned
      BY <2>6 DEF apply_future_cont
    <3>2. CASE IsLive(e)
      <4>1. write_cont(e.cont, e.val, cont_dirty)
        BY <2>6, <3>2 DEF apply_future_cont
      <4>2. d \notin cont_dirty
        BY <4>1 DEF write_cont
      <4>3. e.cont \in Conts /\ e.cont # d
        BY DEF Shapes
      <4> QED
        BY <2>3, <3>1, <4>1, <4>2, <4>3
    <3>3. CASE ~IsLive(e)
      BY <2>4, <2>6, <3>1, <3>3 DEF apply_future_cont
    <3> QED
      BY <3>2, <3>3
  <2>7. CASE EndActive
    BY <2>4, <2>7 DEF EndActive
  <2>8. CASE GiveUp
    BY <2>8 DEF GiveUp
  <2>9. CASE EndConts
    BY <2>4, <2>9 DEF EndConts
  <2>10. CASE Advance
    BY <2>6, <2>10 DEF Advance
  <2>11. CASE Drain
    BY <2>6, <2>11 DEF Drain
  <2>12. CASE EndDrain
    BY <2>4, <2>12 DEF EndDrain
  <2>13. CASE Stop
    BY <2>4, <2>13 DEF Stop
  <2>14. CASE Elapse
    BY <2>4, <2>14 DEF Elapse
  <2>15. CASE UNCHANGED vars
    BY <2>4, <2>15 DEF vars
  <2> QED
    BY <2>2, <2>5, <2>7, <2>8, <2>9, <2>10, <2>11, <2>12, <2>13, <2>14, <2>15
    DEF Next, Run, Stopped
<1> QED
  BY <1>1, <1>2, ShapesKept, PTL DEF Spec

-----------------------------------------------------------------------------
(* Delayed assignments *)


\* What is scheduled has a generation of its own and is due within its delay.
DelayInv ==
  /\ now \in Nat
  /\ cont_gens \in [Conts -> Nat]
  /\ \A e \in future_conts :
       /\ e.cont \in Conts /\ Delay[e.cont] > 0
       /\ e.at \in Nat /\ e.generation \in Nat
       /\ e.generation <= cont_gens[e.cont]
       /\ now <= e.at /\ e.at <= now + Delay[e.cont]
  /\ \A e, f \in future_conts :
       e.cont = f.cont /\ e.generation = f.generation => e = f

\* The record that Schedule adds.
Entry(c, val) ==
  [at |-> now + Delay[c], seq |-> seq + 1, cont |-> c, val |-> val,
   generation |-> cont_gens[c] + 1]

LEMMA EntryFields ==
  ASSUME NEW c, NEW val
  PROVE  /\ Entry(c, val).at = now + Delay[c]
         /\ Entry(c, val).cont = c
         /\ Entry(c, val).val = val
         /\ Entry(c, val).generation = cont_gens[c] + 1
BY DEF Entry

LEMMA ScheduleAdds ==
  ASSUME NEW c \in Conts, NEW val, Schedule(c, val)
  PROVE  future_conts' = future_conts \cup {Entry(c, val)}
BY DEF Schedule, Entry

\* One step, as the delays see it: nothing, a cancellation, a new update, or
\* an update that is taken from the heap.
Unscheduled == UNCHANGED <<future_conts, cont_gens, now>>
AbsorbStep(c) == Absorb(c) /\ UNCHANGED <<future_conts, now>>
ScheduleStep(c, val) == Schedule(c, val) /\ UNCHANGED now
TakeStep(e) ==
  /\ e \in future_conts
  /\ IsTop(e)
  /\ future_conts' = future_conts \ {e}
  /\ UNCHANGED cont_gens
  /\ now' = e.at
ElapseStep ==
  /\ now' \in Nat /\ now < now' /\ \A e \in future_conts : now' <= e.at
  /\ UNCHANGED <<future_conts, cont_gens>>

\* Taking the top of the heap, whatever it does to the nets.
LEMMA TakeIs ==
  ASSUME DelayInv, Advance \/ Drain
  PROVE  \E e \in future_conts : TakeStep(e) /\ apply_future_cont(e)
<1>1. CASE Advance
  BY <1>1 DEF Advance, TakeStep, apply_future_cont
<1>2. CASE Drain
  <2>1. PICK e \in future_conts : e.at = now /\ apply_future_cont(e)
    BY <1>2 DEF Drain
  <2>2. now' = now
    BY <1>2 DEF Drain
  <2> QED
    BY <2>1, <2>2 DEF TakeStep, apply_future_cont
<1> QED
  BY <1>1, <1>2

\* Every step of the specification is one of these.
LEMMA StepKinds ==
  ASSUME DelayInv, [Next]_vars
  PROVE  \/ Unscheduled
         \/ \E c \in Conts : AbsorbStep(c)
         \/ \E c \in Conts : \E val : Delay[c] > 0 /\ ScheduleStep(c, val)
         \/ \E e \in future_conts : TakeStep(e)
         \/ ElapseStep
<1>1. ASSUME NEW c \in Conts, EvalCont(c)
      PROVE  \/ Unscheduled
             \/ AbsorbStep(c)
             \/ \E val : Delay[c] > 0 /\ ScheduleStep(c, val)
  BY <1>1 DEF EvalCont, Unscheduled, AbsorbStep, ScheduleStep
<1>2. CASE Advance \/ Drain
  BY <1>2, TakeIs
<1>3. CASE Elapse
  BY <1>3, ContAssumption DEF Elapse, ElapseStep, DelayInv
<1>4. ASSUME NEW n, NEW val, Write(n, val)
      PROVE  Unscheduled
  BY <1>4 DEF Write, Unscheduled
<1>5. CASE EndActive \/ GiveUp \/ EndConts \/ EndDrain \/ Stop \/ UNCHANGED vars
  BY <1>5 DEF EndActive, GiveUp, EndConts, EndDrain, Stop, Unscheduled, vars
<1> QED
  BY <1>1, <1>2, <1>3, <1>4, <1>5 DEF Next, Run, Stopped

LEMMA DelayInvStep ==
  ASSUME DelayInv, [Next]_vars
  PROVE  DelayInv'
<1>0. Delay \in [Conts -> Nat]
  BY ContAssumption
<1>1. CASE Unscheduled
  BY <1>1 DEF Unscheduled, DelayInv
<1>2. ASSUME NEW c \in Conts, AbsorbStep(c)
      PROVE  DelayInv'
  <2>1. /\ cont_gens' = [cont_gens EXCEPT ![c] = cont_gens[c] + 1]
        /\ future_conts' = future_conts /\ now' = now
    BY <1>2 DEF AbsorbStep, Absorb
  <2>2. cont_gens' \in [Conts -> Nat] /\ \A d \in Conts : cont_gens[d] <= cont_gens'[d]
    BY <2>1 DEF DelayInv
  <2>3. ASSUME NEW e \in future_conts
        PROVE  e.generation <= cont_gens'[e.cont]
    BY <2>2 DEF DelayInv
  <2> QED
    BY <2>1, <2>2, <2>3 DEF DelayInv
<1>3. ASSUME NEW c \in Conts, NEW val, Delay[c] > 0, ScheduleStep(c, val)
      PROVE  DelayInv'
  <2> DEFINE x == Entry(c, val)
  <2>1. /\ cont_gens' = [cont_gens EXCEPT ![c] = cont_gens[c] + 1]
        /\ now' = now
    BY <1>3 DEF ScheduleStep, Schedule
  <2>2. future_conts' = future_conts \cup {x}
    BY <1>3, ScheduleAdds DEF ScheduleStep
  <2>3. cont_gens' \in [Conts -> Nat] /\ \A d \in Conts : cont_gens[d] <= cont_gens'[d]
    BY <2>1 DEF DelayInv
  <2>4. /\ x.at = now + Delay[c] /\ x.cont = c /\ x.generation = cont_gens[c] + 1
    BY EntryFields
  <2>5. cont_gens'[c] = cont_gens[c] + 1 /\ cont_gens[c] \in Nat
    BY <2>1 DEF DelayInv
  <2> HIDE DEF x
  <2>6. /\ x.cont \in Conts /\ Delay[x.cont] > 0
        /\ x.at \in Nat /\ x.generation \in Nat
        /\ x.generation <= cont_gens'[x.cont]
        /\ now <= x.at /\ x.at <= now + Delay[x.cont]
    BY <1>0, <1>3, <2>4, <2>5 DEF DelayInv
  <2>7. ASSUME NEW e \in future_conts
        PROVE  /\ e.cont \in Conts /\ Delay[e.cont] > 0
               /\ e.at \in Nat /\ e.generation \in Nat
               /\ e.generation <= cont_gens'[e.cont]
               /\ now <= e.at /\ e.at <= now + Delay[e.cont]
    BY <2>3 DEF DelayInv
  <2>8. ASSUME NEW e \in future_conts, e.cont = c
        PROVE  e.generation # x.generation
    BY <2>4, <2>5, <2>8 DEF DelayInv
  <2>9. ASSUME NEW e \in future_conts \cup {x}, NEW f \in future_conts \cup {x},
               e.cont = f.cont, e.generation = f.generation
        PROVE  e = f
    BY <2>4, <2>8, <2>9 DEF DelayInv
  <2>10. now' \in Nat
    BY <2>1 DEF DelayInv
  <2> QED
    BY <2>1, <2>2, <2>3, <2>6, <2>7, <2>9, <2>10 DEF DelayInv
<1>4. ASSUME NEW e \in future_conts, TakeStep(e)
      PROVE  DelayInv'
  <2>1. /\ future_conts' = future_conts \ {e} /\ cont_gens' = cont_gens
        /\ now' = e.at /\ \A f \in future_conts : e.at <= f.at
    <3>1. ASSUME NEW f \in future_conts
          PROVE  e.at <= f.at
      <4>1. e.at < f.at \/ e.at = f.at
        BY <1>4 DEF TakeStep, IsTop
      <4>2. e.at \in Nat /\ f.at \in Nat
        BY DEF DelayInv
      <4> QED
        BY <4>1, <4>2
    <3> QED
      BY <1>4, <3>1 DEF TakeStep
  <2>2. ASSUME NEW f \in future_conts
        PROVE  now' <= f.at /\ f.at <= now' + Delay[f.cont]
    <3>1. /\ now \in Nat /\ e.at \in Nat /\ f.at \in Nat /\ Delay[f.cont] \in Nat
          /\ now <= e.at /\ f.at <= now + Delay[f.cont]
      BY <1>0 DEF DelayInv
    <3> QED
      BY <2>1, <3>1
  <2>3. e.at \in Nat
    BY DEF DelayInv
  <2> QED
    BY <2>1, <2>2, <2>3 DEF DelayInv
<1>5. CASE ElapseStep
  <2>1. ASSUME NEW f \in future_conts
        PROVE  now' <= f.at /\ f.at <= now' + Delay[f.cont]
    <3>1. /\ now \in Nat /\ now' \in Nat /\ f.at \in Nat /\ Delay[f.cont] \in Nat
          /\ now < now' /\ now' <= f.at /\ f.at <= now + Delay[f.cont]
      BY <1>0, <1>5 DEF DelayInv, ElapseStep
    <3> QED
      BY <3>1
  <2> QED
    BY <1>5, <2>1 DEF DelayInv, ElapseStep
<1> QED
  BY <1>1, <1>2, <1>3, <1>4, <1>5, StepKinds

\* The heap, the generations and the time stay in step.
THEOREM DelaysKept == Spec => []DelayInv
<1>1. Init => DelayInv
  BY DEF Init, DelayInv
<1>2. DelayInv /\ [Next]_vars => DelayInv'
  BY DelayInvStep
<1> QED
  BY <1>1, <1>2, PTL DEF Spec

-----------------------------------------------------------------------------
(* The updates that count *)

\* A step leaves alone what is scheduled for the other assignments.
LEMMA OthersLive ==
  ASSUME DelayInv, NEW c \in Conts, NEW d \in Conts \ {c},
         \/ AbsorbStep(c)
         \/ \E val : ScheduleStep(c, val)
         \/ \E e \in future_conts : TakeStep(e) /\ e.cont = c
  PROVE  Live(d)' = Live(d)
<1>1. CASE AbsorbStep(c)
  BY <1>1 DEF AbsorbStep, Absorb, Live, IsLive, DelayInv
<1>2. ASSUME NEW val, ScheduleStep(c, val)
      PROVE  Live(d)' = Live(d)
  <2> DEFINE x == Entry(c, val)
  <2>1. future_conts' = future_conts \cup {x} /\ x.cont = c
    BY <1>2, ScheduleAdds, EntryFields DEF ScheduleStep
  <2>2. cont_gens'[d] = cont_gens[d]
    BY <1>2 DEF ScheduleStep, Schedule, DelayInv
  <2> HIDE DEF x
  <2> QED
    BY <2>1, <2>2 DEF Live, IsLive
<1>3. ASSUME NEW e \in future_conts, TakeStep(e), e.cont = c
      PROVE  Live(d)' = Live(d)
  BY <1>3 DEF TakeStep, Live, IsLive
<1> QED
  BY <1>1, <1>2, <1>3

\* Nothing that was scheduled outlives a cancellation.
LEMMA AbsorbedLive ==
  ASSUME DelayInv, NEW c \in Conts, AbsorbStep(c)
  PROVE  Live(c)' = {}
<1>1. cont_gens'[c] = cont_gens[c] + 1 /\ future_conts' = future_conts
  BY DEF AbsorbStep, Absorb, DelayInv
<1>2. ASSUME NEW e \in future_conts, e.cont = c
      PROVE  e.generation # cont_gens'[c]
  BY <1>1, <1>2 DEF DelayInv
<1> QED
  BY <1>1, <1>2 DEF Live, IsLive

\* What is scheduled is the one update that counts.
LEMMA ScheduledLive ==
  ASSUME DelayInv, NEW c \in Conts, NEW val, ScheduleStep(c, val)
  PROVE  Live(c)' = {Entry(c, val)}
<1> DEFINE x == Entry(c, val)
<1>1. future_conts' = future_conts \cup {x} /\ x.cont = c
      /\ x.generation = cont_gens[c] + 1
  BY ScheduleAdds, EntryFields DEF ScheduleStep
<1>2. cont_gens'[c] = cont_gens[c] + 1
  BY DEF ScheduleStep, Schedule, DelayInv
<1>3. ASSUME NEW e \in future_conts, e.cont = c
      PROVE  e.generation # cont_gens'[c]
  BY <1>2, <1>3 DEF DelayInv
<1> HIDE DEF x
<1>4. Live(c)' = {x}
  BY <1>1, <1>2, <1>3 DEF Live, IsLive
<1> QED
  BY <1>4 DEF x

\* An update that counts is the only one of its assignment.
LEMMA LiveUnique ==
  ASSUME DelayInv, NEW c \in Conts, NEW e \in Live(c)
  PROVE  Live(c) = {e}
BY DEF DelayInv, Live, IsLive

\* After an update that counts has been taken, none is left; after any other,
\* they all are.
LEMMA TakenLive ==
  ASSUME DelayInv, NEW e \in future_conts, TakeStep(e)
  PROVE  /\ IsLive(e) => Live(e.cont)' = {}
         /\ ~IsLive(e) => \A d \in Conts : Live(d)' = Live(d)
<1>1. future_conts' = future_conts \ {e} /\ cont_gens' = cont_gens
  BY DEF TakeStep
<1>2. ASSUME IsLive(e)
      PROVE  Live(e.cont)' = {}
  <2>1. \A f \in future_conts : f.cont = e.cont /\ f.generation = cont_gens[e.cont] => f = e
    BY <1>2 DEF DelayInv, IsLive
  <2> QED
    BY <1>1, <2>1 DEF Live, IsLive
<1>3. ASSUME ~IsLive(e), NEW d \in Conts
      PROVE  Live(d)' = Live(d)
  BY <1>1, <1>3 DEF Live, IsLive
<1> QED
  BY <1>2, <1>3

-----------------------------------------------------------------------------
(* Values of nets with one driver *)

\* The net of an assignment that is not resolved is a vector of its width.
TypedNets ==
  /\ net_values = [n \in Nets |-> net_values[n]]
  /\ \A n \in Nets : Kind[n] # "reg" /\ ~Multi(n) => net_values[n] \in Vec(Width[n])

LEMMA FromChunksVec ==
  ASSUME NEW w \in Nat, NEW S, NEW T
  PROVE  from_chunks(w, S, T) \in Vec(w)
BY DEF from_chunks, Vec

LEMMA PutVec ==
  ASSUME NEW c \in Conts, NEW j \in Parts(c), NEW w \in Nat, NEW x \in Vec(w), NEW val
  PROVE  Put(x, c, j, val) \in Vec(w)
<1>1. x.width = w
  BY DEF Vec
<1> QED
  BY <1>1, FromChunksVec DEF Put, insert_bits

THEOREM NetsTyped == Spec => []TypedNets
<1>1. Init => TypedNets
  <2> SUFFICES ASSUME Init PROVE TypedNets
    OBVIOUS
  <2>1. ASSUME NEW n \in Nets, Kind[n] # "reg", ~Multi(n)
        PROVE  net_values[n] \in Vec(Width[n])
    <3>1. Kind[n] # "trireg"
      BY <2>1 DEF Multi
    <3>2. net_values[n] = Pulled(n, z_of_width(Width[n]))
      BY <2>1, <3>1 DEF Init
    <3>3. Width[n] \in Nat
      BY ContAssumption
    <3> QED
      BY <3>2, <3>3, FromChunksVec DEF Pulled
  <2> QED
    BY <2>1 DEF Init, TypedNets
<1>2. TypedNets /\ Shapes /\ [Next]_vars => TypedNets'
  <2> SUFFICES ASSUME TypedNets, Shapes, [Next]_vars PROVE TypedNets'
    OBVIOUS
  <2>1. ASSUME NEW c \in Conts, NEW val, NEW rest, write_cont(c, val, rest)
        PROVE  TypedNets'
    <3>1. ASSUME NEW n \in Nets, Kind[n] # "reg", ~Multi(n)
          PROVE  net_values'[n] \in Vec(Width[n])
      <4>1. CASE n \notin Targets(c)
        BY <2>1, <3>1, <4>1, WrittenNets DEF TypedNets
      <4>2. CASE n \in Targets(c)
        <5>1. PICK j \in Parts(c) : LVal[c][j].net = n
          BY <4>2 DEF Targets
        <5>2. net_values'[n] = Put(net_values[n], c, j, val)
          BY <2>1, <3>1, <5>1, WrittenNets
        <5>3. Width[n] \in Nat /\ net_values[n] \in Vec(Width[n])
          BY <3>1, ContAssumption DEF TypedNets
        <5> QED
          BY <5>2, <5>3, PutVec
      <4> QED
        BY <4>1, <4>2
    <3>2. net_values' = [n \in Nets |-> net_values'[n]]
      BY <2>1 DEF write_cont, NetsAfter
    <3> QED
      BY <3>1, <3>2 DEF TypedNets
  <2>2. ASSUME NEW n \in DOMAIN Inputs, NEW val \in Inputs[n], Write(n, val)
        PROVE  TypedNets'
    <3>1. n \in Nets /\ Kind[n] = "reg"
      BY ContAssumption
    <3> QED
      BY <2>2, <3>1 DEF Write, TypedNets
  <2>3. CASE UNCHANGED net_values
    BY <2>3 DEF TypedNets
  <2>4. ASSUME NEW e \in future_conts, apply_future_cont(e)
        PROVE  TypedNets'
    BY <2>1, <2>3, <2>4 DEF apply_future_cont, Shapes
  <2>5. ASSUME NEW c \in Conts, EvalCont(c)
        PROVE  TypedNets'
    <3>1. CASE write_cont(c, Value(c, net_values), cont_dirty \ {c})
      BY <2>1, <3>1
    <3> QED
      BY <2>3, <2>5, <3>1 DEF EvalCont
  <2>6. CASE EndActive \/ GiveUp \/ EndConts \/ EndDrain \/ Stop \/ Elapse \/ UNCHANGED vars
    BY <2>3, <2>6 DEF EndActive, GiveUp, EndConts, EndDrain, Stop, Elapse, vars
  <2>7. CASE Advance \/ Drain
    BY <2>4, <2>7 DEF Advance, Drain
  <2> QED
    BY <2>2, <2>5, <2>6, <2>7 DEF Next, Run, Stopped
<1> QED
  BY <1>1, <1>2, ShapesKept, PTL DEF Spec

-----------------------------------------------------------------------------
(* Delayed assignments to whole nets *)

WholeNet(c) == Len(LVal[c]) = 1 /\ LVal[c][1].whole

LEMMA OnePart ==
  ASSUME NEW c \in Conts, Len(LVal[c]) = 1
  PROVE  Parts(c) = {1}
<1>1. LVal[c] \in Seq(PartSet)
  BY ContAssumption
<1>2. DOMAIN LVal[c] = 1..1
  BY <1>1
<1>3. 1..1 = {1}
  OBVIOUS
<1> QED
  BY <1>2, <1>3 DEF Parts

\* Replacing every bit of a vector.
LEMMA InsertAll ==
  ASSUME NEW w \in Nat, NEW x \in Vec(w), NEW v \in Vec(w)
  PROVE  insert_bits(x, 0, w, v) = v
<1>1. /\ x.width = w /\ v = [width |-> w, a |-> v.a, b |-> v.b]
      /\ v.a \subseteq Bits(w) /\ v.b \subseteq Bits(w)
  BY DEF Vec
<1>2. ASSUME NEW S \in SUBSET Bits(w)
      PROVE  Up(S \cap Bits(w), 0) = S
  <2>1. \A i \in S : i + 0 = i
    BY DEF Bits
  <2> QED
    BY <2>1 DEF Up
<1>3. Bits(w) \ (0..(0 + w - 1)) = {}
  BY DEF Bits
<1>4. insert_bits(x, 0, w, v) =
        [width |-> w,
         a |-> ((x.a \cap {}) \cup v.a) \cap Bits(w),
         b |-> ((x.b \cap {}) \cup v.b) \cap Bits(w)]
  BY <1>1, <1>2, <1>3 DEF insert_bits, from_chunks
<1>5. /\ ((x.a \cap {}) \cup v.a) \cap Bits(w) = v.a
      /\ ((x.b \cap {}) \cup v.b) \cap Bits(w) = v.b
  BY <1>1
<1> QED
  BY <1>1, <1>4, <1>5

\* A value of the net's own width, put into the whole net, is the net's value.
LEMMA PutWhole ==
  ASSUME NEW c \in Conts, WholeNet(c), NEW x \in Vec(Width[LVal[c][1].net]),
         NEW val \in Vec(Width[LVal[c][1].net])
  PROVE  Put(x, c, 1, val) = val
<1> DEFINE p == LVal[c][1]
           w == Width[p.net]
<1>1. 1 \in Parts(c)
  BY OnePart DEF WholeNet
<1>2. p.lo = 0 /\ p.w = w
  BY <1>1, ContAssumption DEF WholeNet, Parts
<1>3. w \in Nat
  BY <1>1, PartFacts, ContAssumption
<1>4. val.width = w /\ val = [width |-> w, a |-> val.a, b |-> val.b]
      /\ val.a \subseteq Bits(w) /\ val.b \subseteq Bits(w)
  BY DEF Vec
<1>5. extend_sign(val, w) = val
  <2>1. val.a \cap Bits(w) = val.a /\ val.b \cap Bits(w) = val.b
    BY <1>4
  <2>2. w <= val.width
    BY <1>3, <1>4
  <2> QED
    BY <1>4, <2>1, <2>2 DEF extend_sign, resize, from_chunks
<1>6. Slice(c, 1, val) = val
  BY DEF Slice, WholeNet
<1>7. Put(x, c, 1, val) = insert_bits(x, 0, w, val)
  BY <1>2, <1>5, <1>6 DEF Put
<1> QED
  BY <1>3, <1>7, InsertAll

LEMMA ZVec == ASSUME NEW w \in Nat PROVE z_of_width(w) \in Vec(w)
BY DEF z_of_width, Vec

\* An absorbed value is being driven.
LEMMA MatchDrives ==
  ASSUME TypedNets, NEW c \in Conts, WholeNet(c), NEW val, cont_driver_matches(c, val)
  PROVE  Drives(c, val)
<1> DEFINE n == LVal[c][1].net
<1>1. Parts(c) = {1} /\ Len(LVal[c]) = 1
  BY OnePart DEF WholeNet
<1>2. Contributes(c, 1, val)
  <2>1. CASE Multi(n)
    BY <1>1, <2>1 DEF cont_driver_matches, Contributes, Driver
  <2>2. CASE ~Multi(n)
    <3>1. net_values[n] = val
      BY <1>1, <2>2 DEF cont_driver_matches, get_lval_val
    <3>2. n \in Nets /\ Kind[n] # "reg"
      BY <1>1, PartFacts
    <3>3. net_values[n] \in Vec(Width[n])
      BY <2>2, <3>2 DEF TypedNets
    <3>4. Put(net_values[n], c, 1, val) = net_values[n]
      BY <3>1, <3>3, PutWhole
    <3> QED
      BY <2>2, <3>4 DEF Contributes
  <2> QED
    BY <2>1, <2>2
<1> QED
  BY <1>1, <1>2 DEF Drives

-----------------------------------------------------------------------------
(* Delayed assignments are current *)

DelayedWhole == \A c \in Conts : Delay[c] > 0 => WholeNet(c)

\* Assignment d drives v, or v is on its way.
Current(d, v) ==
  \/ Live(d) = {} /\ Drives(d, v)
  \/ Live(d) # {} /\ \A e \in Live(d) : e.val = v

DelayedCurrent ==
  ~warned =>
    \A d \in Conts \ cont_dirty :
      Delay[d] > 0 => Current(d, Value(d, net_values))

LEMMA CurrentValue ==
  ASSUME NEW d \in Conts, NEW v, Value(d, net_values') = v, Current(d, v)'
  PROVE  Current(d, Value(d, net_values))'
<1>1. Value(d, net_values)' = v
  OBVIOUS
<1>2. CASE Live(d)' = {} /\ Drives(d, v)'
  BY <1>2, DrivesValue DEF Current
<1>3. CASE Live(d)' # {} /\ \A e \in Live(d)' : e.val = v
  BY <1>1, <1>3 DEF Current
<1> QED
  BY <1>2, <1>3 DEF Current

LEMMA CurrentStep ==
  ASSUME NoticesChanges, DelayedWhole, Shapes, TypedNets, DelayInv, DelayedCurrent,
         [Next]_vars, ~warned', NEW d \in Conts, d \notin cont_dirty', Delay[d] > 0
  PROVE  Current(d, Value(d, net_values))'
<1>1. PICK v : v = Value(d, net_values)
  OBVIOUS
<1>2. ~warned /\ d \notin cont_dirty => Current(d, v)
  BY <1>1 DEF DelayedCurrent
<1>3. ASSUME NEW n \in DOMAIN Inputs, NEW val \in Inputs[n], Write(n, val)
      PROVE  Current(d, Value(d, net_values))'
  <2>1. ~warned /\ UNCHANGED <<future_conts, cont_gens>>
    BY <1>3 DEF Write
  <2>2. Live(d)' = Live(d)
    BY <2>1 DEF Live, IsLive
  <2>3. /\ d \notin cont_dirty /\ Value(d, net_values') = v
        /\ Drives(d, v) => Drives(d, v)'
    BY <1>1, <1>3, WriteKeeps
  <2>4. Current(d, v)'
    BY <1>2, <2>1, <2>2, <2>3 DEF Current
  <2> QED
    BY <2>3, <2>4, CurrentValue
<1>4. ASSUME UNCHANGED <<net_values, driver_vals>>, Live(d)' = Live(d),
             ~warned, d \notin cont_dirty
      PROVE  Current(d, Value(d, net_values))'
  <2>1. Drives(d, v)' <=> Drives(d, v)
    BY <1>4, QuietKeeps
  <2>2. Current(d, v)'
    BY <1>2, <1>4, <2>1 DEF Current
  <2>3. Value(d, net_values') = v
    BY <1>1, <1>4
  <2> QED
    BY <2>2, <2>3, CurrentValue
<1>5. ASSUME NEW c \in Conts \ {d}, NEW val, NEW rest, write_cont(c, val, rest),
             Live(d)' = Live(d), ~warned, d \notin cont_dirty
      PROVE  Current(d, Value(d, net_values))'
  <2>1. Value(d, net_values') = v
    BY <1>1, <1>5, UnreadWrite
  <2>2. Drives(d, v) => Drives(d, v)'
    BY <1>5, OthersDrive
  <2>3. Current(d, v)'
    BY <1>2, <1>5, <2>2 DEF Current
  <2> QED
    BY <2>1, <2>3, CurrentValue
<1>6. ASSUME NEW c \in Conts, EvalCont(c)
      PROVE  Current(d, Value(d, net_values))'
  <2> DEFINE rest == cont_dirty \ {c}
  <2>0. ~warned
    BY <1>6 DEF EvalCont
  <2>1. CASE Delay[c] = 0
    <3>1. write_cont(c, Value(c, net_values), rest) /\ UNCHANGED <<cont_gens, future_conts>>
      BY <1>6, <2>1, ContAssumption DEF EvalCont
    <3>2. Live(d)' = Live(d)
      BY <3>1 DEF Live, IsLive
    <3>3. c # d /\ d \notin cont_dirty
      BY <2>1, <3>1 DEF write_cont
    <3>4. PICK val : val = Value(c, net_values)
      OBVIOUS
    <3> QED
      BY <1>5, <2>0, <3>1, <3>2, <3>3, <3>4
  <2>2. CASE Delay[c] > 0 /\ cont_driver_matches(c, Value(c, net_values)) /\ AbsorbStep(c)
             /\ cont_dirty' = rest /\ UNCHANGED <<net_values, driver_vals>>
    <3>1. CASE c = d
      <4>1. cont_driver_matches(d, v)
        BY <1>1, <2>2, <3>1
      <4>2. Drives(d, v)
        BY <4>1, MatchDrives DEF DelayedWhole
      <4>3. Drives(d, v)'
        BY <2>2, <4>2, QuietKeeps
      <4>4. Live(d)' = {}
        BY <2>2, <3>1, AbsorbedLive
      <4>5. Current(d, v)'
        BY <4>3, <4>4 DEF Current
      <4>6. Value(d, net_values') = v
        BY <1>1, <2>2
      <4> QED
        BY <4>5, <4>6, CurrentValue
    <3>2. CASE c # d
      BY <1>4, <2>0, <2>2, <3>2, OthersLive
    <3> QED
      BY <3>1, <3>2
  <2>3. CASE Delay[c] > 0 /\ ScheduleStep(c, Value(c, net_values))
             /\ cont_dirty' = rest /\ UNCHANGED <<net_values, driver_vals>>
    <3>1. CASE c = d
      <4>1. ScheduleStep(d, v)
        BY <1>1, <2>3, <3>1
      <4>2. Live(d)' = {Entry(d, v)} /\ Entry(d, v).val = v
        BY <4>1, ScheduledLive, EntryFields
      <4>3. Current(d, v)'
        BY <4>2 DEF Current
      <4>4. Value(d, net_values') = v
        BY <1>1, <2>3
      <4> QED
        BY <4>3, <4>4, CurrentValue
    <3>2. CASE c # d
      BY <1>4, <2>0, <2>3, <3>2, OthersLive
    <3> QED
      BY <3>1, <3>2
  <2> QED
    BY <1>6, <2>1, <2>2, <2>3 DEF EvalCont, AbsorbStep, ScheduleStep
<1>7. CASE Advance \/ Drain
  <2>1. PICK e \in future_conts : TakeStep(e) /\ apply_future_cont(e)
    BY <1>7, TakeIs
  <2>2. ~warned /\ e.cont \in Conts
    BY <2>1 DEF apply_future_cont, DelayInv
  <2>3. CASE ~IsLive(e)
    BY <1>4, <2>1, <2>2, <2>3, TakenLive DEF apply_future_cont
  <2>4. CASE IsLive(e)
    <3>1. write_cont(e.cont, e.val, cont_dirty)
      BY <2>1, <2>4 DEF apply_future_cont
    <3>2. d \notin cont_dirty
      BY <3>1 DEF write_cont
    <3>3. CASE e.cont # d
      <4>1. Live(d)' = Live(d)
        BY <2>1, <2>2, <3>3, OthersLive
      <4> QED
        BY <1>5, <2>2, <3>1, <3>2, <3>3, <4>1
    <3>4. CASE e.cont = d
      <4>1. e \in Live(d)
        BY <2>4, <3>4 DEF Live
      <4>2. e.val = v
        BY <1>2, <2>2, <3>2, <4>1 DEF Current
      <4>3. Drives(d, v)'
        BY <3>1, <3>4, <4>2, WriterDrives
      <4>4. Live(d)' = {}
        BY <2>1, <2>4, <3>4, TakenLive
      <4>5. Value(d, net_values') = v
        BY <1>1, <2>2, <3>1, UnreadWrite
      <4>6. Current(d, v)'
        BY <4>3, <4>4 DEF Current
      <4> QED
        BY <4>5, <4>6, CurrentValue
    <3> QED
      BY <3>3, <3>4
  <2> QED
    BY <2>3, <2>4
<1>8. CASE GiveUp
  BY <1>8 DEF GiveUp
<1>9. CASE EndActive \/ EndConts \/ EndDrain \/ Stop \/ Elapse \/ UNCHANGED vars
  <2>1. UNCHANGED <<net_values, driver_vals, future_conts, cont_gens, warned, cont_dirty>>
    BY <1>9 DEF EndActive, EndConts, EndDrain, Stop, Elapse, vars
  <2>2. Live(d)' = Live(d)
    BY <2>1 DEF Live, IsLive
  <2> QED
    BY <1>4, <2>1, <2>2
<1> QED
  BY <1>3, <1>6, <1>7, <1>8, <1>9 DEF Next, Run, Stopped

\* In every design whose delayed assignments have whole nets as targets and
\* whose concatenations report their changes, a delayed assignment drives the
\* value of its expression or has that value, and no other, on its way, due
\* within its delay.
THEOREM DelaysCurrent ==
  ASSUME NoticesChanges, DelayedWhole
  PROVE  Spec => []DelayedIsCurrent
<1>1. Init => DelayedCurrent
  BY DEF Init, DelayedCurrent
<1>2. Shapes /\ TypedNets /\ DelayInv /\ DelayedCurrent /\ [Next]_vars => DelayedCurrent'
  BY CurrentStep DEF DelayedCurrent
<1>3. Spec => []DelayedCurrent
  BY <1>1, <1>2, ShapesKept, NetsTyped, DelaysKept, PTL DEF Spec
<1>4. DelayInv /\ DelayedCurrent => DelayedIsCurrent
  <2> SUFFICES ASSUME DelayInv, DelayedCurrent, ~warned,
                      NEW c \in Conts, c \notin cont_dirty, Delay[c] > 0,
                      NEW e \in Live(c)
               PROVE  /\ Live(c) = {e} /\ e.val = Value(c, net_values)
                      /\ now <= e.at /\ e.at <= now + Delay[c]
    BY DEF DelayedIsCurrent, DelayedCurrent, Current
  <2>1. e.val = Value(c, net_values)
    BY DEF DelayedCurrent, Current
  <2>2. e \in future_conts /\ e.cont = c
    BY DEF Live
  <2> QED
    BY <2>1, <2>2, LiveUnique DEF DelayInv
<1> QED
  BY <1>3, <1>4, DelaysKept, PTL

-----------------------------------------------------------------------------
(* The heap implements a delay with one pending change *)

\* The expression of a delayed assignment has the width of its target.
FitsTarget ==
  \A c \in Delayed : \A f : Eval(c, f) \in Vec(Width[LVal[c][1].net])

\* Values on their way to whole nets have the nets' widths.
TypedUpdates ==
  \A e \in future_conts :
    e.cont \in Delayed => e.val \in Vec(Width[LVal[e.cont][1].net])

LEMMA DelayedFacts ==
  ASSUME NEW c \in Delayed
  PROVE  /\ c \in Conts /\ Delay[c] > 0 /\ WholeNet(c) /\ 1 \in Parts(c)
         /\ LVal[c][1].net \in Nets /\ Kind[LVal[c][1].net] # "reg"
         /\ Width[LVal[c][1].net] \in Nat
<1>1. c \in Conts /\ Delay[c] > 0 /\ WholeNet(c)
  BY DEF Delayed, WholeNet
<1>2. 1 \in Parts(c)
  BY <1>1, OnePart DEF WholeNet
<1>3. LVal[c][1].net \in Nets /\ Kind[LVal[c][1].net] # "reg"
  BY <1>1, <1>2, PartFacts
<1> QED
  BY <1>1, <1>2, <1>3, ContAssumption

\* What is not written by c drives as before.
LEMMA DrivenKept ==
  ASSUME NEW d \in Delayed, NEW c \in Conts \ {d}, NEW val, NEW rest,
         write_cont(c, val, rest)
  PROVE  Driven(d)' = Driven(d)
<1> DEFINE n == LVal[d][1].net
<1>1. d \in Conts /\ 1 \in Parts(d) /\ n \in Nets
  BY DelayedFacts
<1>2. CASE Multi(n)
  BY <1>1, <1>2, WrittenNets DEF Driven
<1>3. CASE ~Multi(n)
  <2>1. n \notin Targets(c)
    BY <1>1, <1>3, OneDriver DEF Targets
  <2> QED
    BY <1>1, <1>3, <2>1, WrittenNets DEF Driven
<1> QED
  BY <1>2, <1>3

\* What c writes is what it drives.
LEMMA DrivenWritten ==
  ASSUME TypedNets, NEW c \in Delayed, NEW val \in Vec(Width[LVal[c][1].net]), NEW rest,
         write_cont(c, val, rest)
  PROVE  Driven(c)' = val
<1> DEFINE n == LVal[c][1].net
<1>1. c \in Conts /\ WholeNet(c) /\ 1 \in Parts(c) /\ n \in Nets
      /\ Kind[n] # "reg" /\ Width[n] \in Nat
  BY DelayedFacts
<1>2. CASE Multi(n)
  <2>1. Driver(c, 1)' = multi_driver_value(c, 1, val)
    BY <1>1, <1>2, WrittenNets
  <2>2. multi_driver_value(c, 1, val) = val
    BY <1>1, ZVec, PutWhole DEF multi_driver_value
  <2> QED
    BY <1>2, <2>1, <2>2 DEF Driven
<1>3. CASE ~Multi(n)
  <2>1. net_values'[n] = Put(net_values[n], c, 1, val)
    BY <1>1, <1>3, WrittenNets
  <2>2. net_values[n] \in Vec(Width[n])
    BY <1>1, <1>3 DEF TypedNets
  <2>3. net_values'[n] = val
    BY <1>1, <2>1, <2>2, PutWhole
  <2> QED
    BY <1>3, <2>3 DEF Driven
<1> QED
  BY <1>2, <1>3

\* A value that does not match is not the one that is driven.
LEMMA MismatchDiffers ==
  ASSUME NEW c \in Delayed, NEW val \in Vec(Width[LVal[c][1].net]),
         ~cont_driver_matches(c, val)
  PROVE  val # Driven(c)
<1> DEFINE n == LVal[c][1].net
<1>1. c \in Conts /\ WholeNet(c) /\ Len(LVal[c]) = 1 /\ Width[n] \in Nat
  BY DelayedFacts DEF WholeNet
<1>2. CASE Multi(n)
  <2>1. Driver(c, 1) # multi_driver_value(c, 1, val)
    BY <1>1, <1>2 DEF cont_driver_matches, Driver
  <2>2. multi_driver_value(c, 1, val) = val
    BY <1>1, ZVec, PutWhole DEF multi_driver_value
  <2> QED
    BY <1>2, <2>1, <2>2 DEF Driven
<1>3. CASE ~Multi(n)
  BY <1>1, <1>3 DEF cont_driver_matches, get_lval_val, Driven
<1> QED
  BY <1>2, <1>3

THEOREM UpdatesTyped == ASSUME FitsTarget PROVE Spec => []TypedUpdates
<1>1. Init => TypedUpdates
  BY DEF Init, TypedUpdates
<1>2. DelayInv /\ TypedUpdates /\ [Next]_vars => TypedUpdates'
  <2> SUFFICES ASSUME DelayInv, TypedUpdates, [Next]_vars PROVE TypedUpdates'
    OBVIOUS
  <2>1. ASSUME NEW c \in Conts, EvalCont(c)
        PROVE  TypedUpdates'
    <3>1. CASE UNCHANGED future_conts
      BY <3>1 DEF TypedUpdates
    <3>2. CASE Schedule(c, Value(c, net_values))
      <4>1. PICK val : val = Value(c, net_values)
        OBVIOUS
      <4>2. future_conts' = future_conts \cup {Entry(c, val)}
        BY <3>2, <4>1, ScheduleAdds
      <4>3. c \in Delayed => val \in Vec(Width[LVal[c][1].net])
        BY <4>1 DEF FitsTarget, Value
      <4>4. Entry(c, val).cont = c /\ Entry(c, val).val = val
        BY EntryFields
      <4> QED
        BY <4>2, <4>3, <4>4 DEF TypedUpdates
    <3> QED
      BY <2>1, <3>1, <3>2 DEF EvalCont
  <2>2. CASE Advance \/ Drain
    BY <2>2, TakeIs DEF TakeStep, TypedUpdates
  <2>3. CASE UNCHANGED future_conts
    BY <2>3 DEF TypedUpdates
  <2>4. ASSUME NEW n, NEW val, Write(n, val)
        PROVE  TypedUpdates'
    BY <2>3, <2>4 DEF Write
  <2>5. CASE EndActive \/ GiveUp \/ EndConts \/ EndDrain \/ Stop \/ Elapse \/ UNCHANGED vars
    BY <2>3, <2>5 DEF EndActive, GiveUp, EndConts, EndDrain, Stop, Elapse, vars
  <2> QED
    BY <2>1, <2>2, <2>4, <2>5 DEF Next, Run, Stopped
<1> QED
  BY <1>1, <1>2, DelaysKept, PTL DEF Spec

\* What one step does to one delayed assignment.
DelayStep(d) ==
  \/ Driven(d)' = Driven(d) /\ Live(d)' = Live(d) /\ now' = now
  \/ Driven(d)' = Driven(d) /\ Live(d)' = {} /\ now' = now
  \/ \E val : /\ val # Driven(d) /\ Driven(d)' = Driven(d) /\ now' = now
              /\ Live(d)' = {Entry(d, val)}
  \/ /\ Driven(d)' = Driven(d) /\ Live(d)' = Live(d)
     /\ now' > now /\ \A e \in Live(d) : now' <= e.at
  \/ \E e \in Live(d) : /\ now <= e.at /\ now' = e.at
                        /\ Driven(d)' = e.val /\ Live(d)' = {}

LEMMA StepIsDelay ==
  ASSUME FitsTarget, Shapes, TypedNets, DelayInv, TypedUpdates, [Next]_vars,
         NEW d \in Delayed
  PROVE  DelayStep(d)
<1>0. d \in Conts /\ Delay[d] > 0 /\ LVal[d][1].net \in Nets /\ Kind[LVal[d][1].net] # "reg"
  BY DelayedFacts
<1>1. ASSUME UNCHANGED <<net_values, driver_vals>>
      PROVE  Driven(d)' = Driven(d)
  BY <1>1 DEF Driven, Driver
<1>2. ASSUME UNCHANGED <<future_conts, cont_gens>>
      PROVE  Live(d)' = Live(d)
  BY <1>2 DEF Live, IsLive
<1>3. ASSUME NEW n \in DOMAIN Inputs, NEW val \in Inputs[n], Write(n, val)
      PROVE  DelayStep(d)
  <2>1. n # LVal[d][1].net
    BY <1>0, ContAssumption
  <2>2. Driven(d)' = Driven(d)
    BY <1>0, <1>3, <2>1 DEF Write, Driven, Driver, Shapes
  <2> QED
    BY <1>2, <1>3, <2>2 DEF Write, DelayStep
<1>4. ASSUME NEW c \in Conts, EvalCont(c)
      PROVE  DelayStep(d)
  <2> DEFINE rest == cont_dirty \ {c}
  <2>0. now' = now
    BY <1>4 DEF EvalCont
  <2>1. CASE Delay[c] = 0
    <3>1. write_cont(c, Value(c, net_values), rest) /\ UNCHANGED <<cont_gens, future_conts>>
      BY <1>4, <2>1, ContAssumption DEF EvalCont
    <3>2. Driven(d)' = Driven(d)
      <4>1. PICK val : val = Value(c, net_values)
        OBVIOUS
      <4>2. c # d
        BY <1>0, <2>1
      <4> QED
        BY <3>1, <4>1, <4>2, DrivenKept
    <3> QED
      BY <1>2, <2>0, <3>1, <3>2 DEF DelayStep
  <2>2. CASE AbsorbStep(c) /\ UNCHANGED <<net_values, driver_vals>>
    <3>1. Live(d)' = Live(d) \/ Live(d)' = {}
      BY <1>0, <2>2, OthersLive, AbsorbedLive
    <3> QED
      BY <1>1, <2>0, <2>2, <3>1 DEF DelayStep
  <2>3. CASE /\ ~cont_driver_matches(c, Value(c, net_values))
             /\ ScheduleStep(c, Value(c, net_values))
             /\ UNCHANGED <<net_values, driver_vals>>
    <3>1. PICK val : val = Value(c, net_values)
      OBVIOUS
    <3>2. CASE c = d
      <4>1. val \in Vec(Width[LVal[d][1].net])
        BY <3>1, <3>2 DEF FitsTarget, Value
      <4>2. val # Driven(d)
        BY <2>3, <3>1, <3>2, <4>1, MismatchDiffers
      <4>3. Live(d)' = {Entry(d, val)}
        BY <1>0, <2>3, <3>1, <3>2, ScheduledLive
      <4> QED
        BY <1>1, <2>0, <2>3, <4>2, <4>3 DEF DelayStep
    <3>3. CASE c # d
      <4>1. Live(d)' = Live(d)
        BY <1>0, <2>3, <3>1, <3>3, OthersLive
      <4> QED
        BY <1>1, <2>0, <2>3, <4>1 DEF DelayStep
    <3> QED
      BY <3>2, <3>3
  <2> QED
    BY <1>4, <2>1, <2>2, <2>3 DEF EvalCont, AbsorbStep, ScheduleStep
<1>5. CASE Advance \/ Drain
  <2>1. PICK e \in future_conts : TakeStep(e) /\ apply_future_cont(e)
    BY <1>5, TakeIs
  <2>2. now' = e.at /\ now <= e.at /\ now \in Nat /\ e.at \in Nat /\ e.cont \in Conts
    BY <2>1 DEF TakeStep, DelayInv
  <2>3. ASSUME NEW f \in Live(d)
        PROVE  now' <= f.at
    <3>1. f.at \in Nat /\ (e.at < f.at \/ e.at = f.at)
      BY <2>1, <2>3 DEF TakeStep, IsTop, Live, DelayInv
    <3> QED
      BY <2>2, <3>1
  <2>4. CASE Driven(d)' = Driven(d) /\ Live(d)' = Live(d)
    <3>1. now' = now \/ now' > now
      BY <2>2
    <3> QED
      BY <2>3, <2>4, <3>1 DEF DelayStep
  <2>5. CASE ~IsLive(e)
    BY <1>0, <1>1, <2>1, <2>4, <2>5, TakenLive DEF apply_future_cont
  <2>6. CASE IsLive(e)
    <3>1. write_cont(e.cont, e.val, cont_dirty)
      BY <2>1, <2>6 DEF apply_future_cont
    <3>2. CASE e.cont # d
      <4>1. Live(d)' = Live(d)
        BY <1>0, <2>1, <2>2, <3>2, OthersLive
      <4>2. Driven(d)' = Driven(d)
        BY <2>2, <3>1, <3>2, DrivenKept
      <4> QED
        BY <2>4, <4>1, <4>2
    <3>3. CASE e.cont = d
      <4>1. e.val \in Vec(Width[LVal[d][1].net])
        BY <3>3 DEF TypedUpdates
      <4>2. Driven(d)' = e.val
        BY <3>1, <3>3, <4>1, DrivenWritten
      <4>3. Live(d)' = {} /\ e \in Live(d)
        BY <2>1, <2>6, <3>3, TakenLive DEF Live
      <4> QED
        BY <2>2, <4>2, <4>3 DEF DelayStep
    <3> QED
      BY <3>2, <3>3
  <2> QED
    BY <2>5, <2>6
<1>6. CASE Elapse
  <2>1. UNCHANGED <<net_values, driver_vals, future_conts, cont_gens>>
    BY <1>6 DEF Elapse
  <2>2. now' > now /\ \A e \in Live(d) : now' <= e.at
    BY <1>6, ContAssumption DEF Elapse, DelayInv, Live
  <2> QED
    BY <1>1, <1>2, <2>1, <2>2 DEF DelayStep
<1>7. CASE EndActive \/ GiveUp \/ EndConts \/ EndDrain \/ Stop \/ UNCHANGED vars
  <2>1. UNCHANGED <<net_values, driver_vals, future_conts, cont_gens, now>>
    BY <1>7 DEF EndActive, GiveUp, EndConts, EndDrain, Stop, vars
  <2> QED
    BY <1>1, <1>2, <2>1 DEF DelayStep
<1> QED
  BY <1>3, <1>4, <1>5, <1>6, <1>7 DEF Next, Run, Stopped

LEMMA RestartingIsNext ==
  ASSUME NEW d \in Conts, DelayStep(d)
  PROVE  [Restarting(d)!Next]_(Restarting(d)!vars)
<1> DEFINE P == Pending(d)
           Q == Pending(d)'
<1>1. P = {[at |-> e.at, val |-> e.val] : e \in Live(d)}
  BY DEF Pending
<1>2. Q = {[at |-> e.at, val |-> e.val] : e \in Live(d)'}
  BY DEF Pending
<1> HIDE DEF P, Q
<1>3. CASE Driven(d)' = Driven(d) /\ Live(d)' = Live(d) /\ now' = now
  <2>1. Q = P
    BY <1>1, <1>2, <1>3
  <2> QED
    BY <1>3, <2>1 DEF Restarting!vars, P, Q
<1>4. CASE Driven(d)' = Driven(d) /\ Live(d)' = {} /\ now' = now
  <2>1. Q = {}
    BY <1>2, <1>4
  <2> QED
    BY <1>4, <2>1 DEF Restarting!Next, Restarting!Cancel, Q
<1>5. ASSUME NEW val, val # Driven(d), Driven(d)' = Driven(d), now' = now,
             Live(d)' = {Entry(d, val)}
      PROVE  Restarting(d)!Next
  <2>1. Entry(d, val).at = now + Delay[d] /\ Entry(d, val).val = val
    BY EntryFields
  <2>2. Q = {[at |-> now + Delay[d], val |-> val]}
    BY <1>2, <1>5, <2>1
  <2>3. Restarting(d)!Evaluate(val)
    BY <1>5, <2>2 DEF Restarting!Evaluate, Q
  <2>4. val \in {p.val : p \in Q}
    BY <2>2
  <2> QED
    BY <2>3, <2>4 DEF Restarting!Next, Q
<1>6. CASE /\ Driven(d)' = Driven(d) /\ Live(d)' = Live(d)
           /\ now' > now /\ \A e \in Live(d) : now' <= e.at
  <2>1. Q = P /\ \A p \in P : now' <= p.at
    BY <1>1, <1>2, <1>6
  <2> QED
    BY <1>6, <2>1 DEF Restarting!Next, Restarting!Tick, P, Q
<1>7. ASSUME NEW e \in Live(d), now <= e.at, now' = e.at, Driven(d)' = e.val,
             Live(d)' = {}
      PROVE  Restarting(d)!Next
  <2>1. Q = {}
    BY <1>2, <1>7
  <2>2. [at |-> e.at, val |-> e.val] \in P
    BY <1>1
  <2>3. \E p \in P : now <= p.at /\ now' = p.at /\ Driven(d)' = p.val
    BY <1>7, <2>2
  <2> QED
    BY <2>1, <2>3 DEF Restarting!Next, Restarting!Fire, P, Q
<1> QED
  BY <1>3, <1>4, <1>5, <1>6, <1>7 DEF DelayStep

\* The heap, the sequence numbers and the generations implement, for every
\* delayed assignment of a whole net, a delay with one pending change: what
\* was overtaken or cancelled never reaches the net, and time does not pass a
\* change that is due.
THEOREM DelaysRestart ==
  ASSUME FitsTarget
  PROVE  Spec => ImplementsRestartingDelay
<1>1. Init => \A c \in Delayed : Restarting(c)!Init
  BY DEF Init, Restarting!Init, Pending, Live
<1>2. Shapes /\ TypedNets /\ DelayInv /\ TypedUpdates /\ [Next]_vars
        => \A c \in Delayed : [Restarting(c)!Next]_(Restarting(c)!vars)
  BY StepIsDelay, RestartingIsNext, DelayedFacts
<1>3. Spec => [][\A c \in Delayed : [Restarting(c)!Next]_(Restarting(c)!vars)]_vars
  BY <1>2, ShapesKept, NetsTyped, DelaysKept, UpdatesTyped, PTL DEF Spec
<1> QED
  BY <1>1, <1>3, PTL DEF Spec, ImplementsRestartingDelay
=============================================================================
