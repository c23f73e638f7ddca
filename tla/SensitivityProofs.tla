-------------------------- MODULE SensitivityProofs --------------------------
(***************************************************************************)
(* Sensitivity for every design.  With one whole net or one word as the      *)
(* target of each assignment, whatever the widths and signs: no event is     *)
(* lost, and no edge is made up.  With any targets, bits, parts, indexed      *)
(* parts, words and concatenations of them: what is written is read back.     *)
(***************************************************************************)
EXTENDS SensitivityProperties, DataInduction

\* Parts of nets and concatenations are left out: there the code compares bits
\* that do not belong together.
WholeTargets ==
  \A a \in Assigns : Len(LVal[a]) = 1 /\ LVal[a][1].kind \in {"net", "mem"}

AnyVec == UNION {Vec(w) : w \in Nat}
Entry == [assign : Assigns, val : AnyVec]

\* The inductive invariant: nets have their widths, whatever is written is a
\* vector, and threads wait for nets.
Shapes ==
  /\ DOMAIN net_values = Nets
  /\ \A n \in Nets : net_values[n] \in Vec(Width[n])
  /\ \A key \in DOMAIN mem_values : mem_values[key] \in AnyVec
  /\ nba_queue \in Seq(Entry)
  /\ nba \in Seq(Entry)
  /\ \A w \in event_waiters : \A item \in w.items : item.net \in Nets

-----------------------------------------------------------------------------
(* Vectors *)

LEMMA AnyVecFacts ==
  ASSUME NEW u \in AnyVec
  PROVE  u.width \in Nat /\ u \in Vec(u.width)
BY DEF AnyVec, Vec

LEMMA ChunksAreVec ==
  ASSUME NEW w \in Nat, NEW S, NEW T
  PROVE  /\ from_chunks(w, S, T) \in Vec(w) /\ from_chunks(w, S, T) \in AnyVec
         /\ x_of_width(w) \in Vec(w) /\ x_of_width(w) \in AnyVec
         /\ all_bits(w, FALSE) \in AnyVec
<1>1. /\ from_chunks(w, S, T) \in Vec(w)
      /\ x_of_width(w) \in Vec(w)
      /\ all_bits(w, FALSE) \in Vec(w)
  BY DEF from_chunks, x_of_width, all_bits, Vec
<1> QED
  BY <1>1 DEF AnyVec

\* A value that is fitted to a net has the width of the net and the level of
\* the value, and is the value when that has the right width.
LEMMA FittedFacts ==
  ASSUME NEW val \in AnyVec, NEW w \in Nat \ {0}, NEW signed \in BOOLEAN
  PROVE  /\ Fitted(val, w, signed) \in Vec(w)
         /\ val.width = w => Fitted(val, w, signed) = val
         /\ Level(Fitted(val, w, signed)) = Level(val)
<1>1. PICK u \in Nat : val \in Vec(u)
  BY DEF AnyVec
<1>2. /\ val.width = u /\ val.a \subseteq 0..(u - 1) /\ val.b \subseteq 0..(u - 1)
      /\ val = [width |-> val.width, a |-> val.a, b |-> val.b]
  BY <1>1 DEF Vec, Bits
<1>3. CASE u = w
  BY <1>1, <1>2, <1>3 DEF Fitted
<1>4. CASE u # w
  <2>1. resize(val, w) \in Vec(w) /\ Level(resize(val, w)) = Level(val)
    <3>1. resize(val, w) = [width |-> w, a |-> val.a \cap 0..(w - 1), b |-> val.b \cap 0..(w - 1)]
      BY DEF resize, from_chunks, Bits
    <3>2. 0 \in 0..(w - 1)
      OBVIOUS
    <3> QED
      BY <3>1, <3>2 DEF Vec, Bits, Level
  <2>2. extend_sign(val, w) \in Vec(w) /\ Level(extend_sign(val, w)) = Level(val)
    <3>1. CASE w <= u
      BY <2>1, <3>1, <1>2 DEF extend_sign
    <3>2. CASE ~(w <= u)
      <4> DEFINE fill == IF sign_bit(val) THEN Bits(w) \ Bits(val.width) ELSE {}
      <4>1. extend_sign(val, w) =
              [width |-> w, a |-> (val.a \cup fill) \cap 0..(w - 1), b |-> val.b \cap 0..(w - 1)]
        BY <3>2, <1>2 DEF extend_sign, from_chunks, Bits
      <4>2. 0 \notin fill
        BY <1>2 DEF sign_bit, Bits
      <4>3. 0 \in 0..(w - 1)
        OBVIOUS
      <4> HIDE DEF fill
      <4> QED
        BY <4>1, <4>2, <4>3 DEF Vec, Bits, Level
    <3> QED
      BY <3>1, <3>2, <1>2
  <2> QED
    BY <2>1, <2>2, <1>2, <1>4 DEF Fitted
<1> QED
  BY <1>3, <1>4

\* The edges of trigger_sensitivity are those of the table.
LEMMA EdgesOfLevels ==
  ASSUME NEW u, NEW v
  PROVE  /\ Posedge(u, v) <=> <<Level(u), Level(v)>> \in PosedgePairs
         /\ Negedge(u, v) <=> <<Level(u), Level(v)>> \in NegedgePairs
         /\ <<Level(u), Level(u)>> \notin PosedgePairs
         /\ <<Level(u), Level(u)>> \notin NegedgePairs
<1>1. edge_bits(u) = Level(u) /\ edge_bits(v) = Level(v)
  BY DEF edge_bits, Level
<1>2. Level(u) \in {"0", "1", "x"} /\ Level(v) \in {"0", "1", "x"}
  BY DEF Level
<1> HIDE DEF Level
<1>3. Posedge(u, v) <=> <<Level(u), Level(v)>> \in PosedgePairs
  BY <1>1, <1>2 DEF Posedge, PosedgePairs
<1>4. Negedge(u, v) <=> <<Level(u), Level(v)>> \in NegedgePairs
  BY <1>1, <1>2 DEF Negedge, NegedgePairs
<1>5. /\ <<Level(u), Level(u)>> \notin PosedgePairs
      /\ <<Level(u), Level(u)>> \notin NegedgePairs
  BY <1>2 DEF PosedgePairs, NegedgePairs
<1> QED
  BY <1>3, <1>4, <1>5

\* What stays as it is has no event.
LEMMA NoEvent ==
  ASSUME NEW item, NEW u
  PROVE  ~Happened(item, u, u)
BY EdgesOfLevels DEF Happened

-----------------------------------------------------------------------------
(* One assignment *)

LEMMA TargetFacts ==
  ASSUME WholeTargets, NEW a \in Assigns
  PROVE  /\ 1..Len(LVal[a]) = {1} /\ Len(LVal[a]) = 1
         /\ Signed[a] \in BOOLEAN
         /\ LVal[a][1].kind = "net" => LVal[a][1].of \in Nets
         /\ LVal[a][1].kind = "mem" => LVal[a][1].of \in Mems
         /\ LVal[a][1].kind \in {"net", "mem"}
BY SensitivityAssumption DEF WholeTargets, Target

\* The value of an expression is a vector.
LEMMA ReadVec ==
  ASSUME Shapes, NEW p, Operand(p)
  PROVE  Read(p, Values) \in AnyVec
<1>1. CASE p.kind = "const"
  BY <1>1 DEF Operand, Read, AnyVec
<1>2. CASE p.kind = "net"
  <2>1. p.of \in Nets /\ Width[p.of] \in Nat
    BY <1>2, SensitivityAssumption DEF Operand, Target
  <2> QED
    BY <1>2, <2>1 DEF Read, Values, Shapes, AnyVec
<1>3. CASE p.kind = "mem"
  <2>1. p.of \in Mems /\ ElemWidth[p.of] \in Nat
    BY <1>3, SensitivityAssumption DEF Operand, Target
  <2>2. Word(p, Values) \in AnyVec
    BY <2>1, ChunksAreVec DEF Word, Values, Shapes
  <2> QED
    BY <1>3, <2>2 DEF Read
<1>4. CASE p.kind \notin {"const", "net", "mem"}
  <2>1. p.w \in Nat /\ 1 \in Nat
    BY <1>4 DEF Operand, Target, Selection
  <2>2. \A u, lo : Select(u, lo, p.w) \in AnyVec /\ Select(u, lo, 1) \in AnyVec
    BY <2>1, ChunksAreVec DEF Select
  <2>3. \A u : ReadBits(p, u, Values) \in AnyVec
    BY <2>2 DEF ReadBits
  <2> QED
    BY <1>4, <2>3 DEF Read
<1> QED
  BY <1>1, <1>2, <1>3, <1>4

LEMMA ValueVec ==
  ASSUME Shapes, NEW a \in Assigns
  PROVE  Value(a, Values) \in AnyVec
<1>1. /\ Len(Rhs[a]) \in {1, 2}
      /\ \A j \in 1..Len(Rhs[a]) : Operand(Rhs[a][j])
  BY SensitivityAssumption
<1>2. Read(Rhs[a][1], Values) \in AnyVec
  BY <1>1, ReadVec
<1>3. CASE Len(Rhs[a]) = 1
  BY <1>2, <1>3 DEF Value
<1>4. CASE Len(Rhs[a]) = 2
  <2>1. Read(Rhs[a][2], Values) \in AnyVec
    BY <1>1, <1>4, ReadVec
  <2>2. ASSUME NEW u \in AnyVec, NEW v \in AnyVec
        PROVE  concat(u, v) \in AnyVec
    <3>1. u.width + v.width \in Nat
      BY AnyVecFacts
    <3>2. \A S, T : from_chunks(u.width + v.width, S, T) \in AnyVec
      BY <3>1, ChunksAreVec
    <3> QED
      BY <3>2, Zenon DEF concat
  <2> QED
    BY <1>2, <1>4, <2>1, <2>2 DEF Value
<1> QED
  BY <1>1, <1>3, <1>4

\* What an assignment of val does to nets and words.
LEMMA NetWritten ==
  ASSUME WholeTargets, NEW a \in Assigns, NEW val, Assign(a, val),
         LVal[a][1].kind = "net"
  PROVE  /\ net_values' = [net_values EXCEPT
              ![LVal[a][1].of] = Fitted(val, Width[LVal[a][1].of], Signed[a])]
         /\ mem_values' = mem_values
<1> DEFINE n == LVal[a][1].of
           fitted == Fitted(val, Width[n], Signed[a])
           after == [net_values EXCEPT ![n] = fitted]
<1>1. write_lvalue(a, val, Values) = SetNet(Values, n, fitted)
  BY DEF write_lvalue, WritePart, WholeTargets
<1>2. /\ net_values' = write_lvalue(a, val, Values).nets
      /\ mem_values' = write_lvalue(a, val, Values).mems
  BY Zenon DEF Assign
<1>3. SetNet(Values, n, fitted).nets = after /\ SetNet(Values, n, fitted).mems = mem_values
  BY DEF SetNet, Values
<1>4. net_values' = after /\ mem_values' = mem_values
  <2> HIDE DEF n, fitted, after
  <2> QED
    BY <1>1, <1>2, <1>3
<1> QED
  BY <1>4

LEMMA WordWritten ==
  ASSUME WholeTargets, NEW a \in Assigns, NEW val, Assign(a, val),
         LVal[a][1].kind = "mem"
  PROVE  LET key == <<LVal[a][1].of, Index(LVal[a][1], Values)>>
         IN  /\ net_values' = net_values
             /\ mem_values' = [k \in DOMAIN mem_values \cup {key} |->
                                 IF k = key THEN val ELSE mem_values[k]]
<1> DEFINE key == <<LVal[a][1].of, Index(LVal[a][1], Values)>>
<1>1. write_lvalue(a, val, Values) = SetWord(Values, key, val)
  BY DEF write_lvalue, WritePart, WholeTargets
<1>2. /\ net_values' = write_lvalue(a, val, Values).nets
      /\ mem_values' = write_lvalue(a, val, Values).mems
  BY Zenon DEF Assign
<1> QED
  BY <1>1, <1>2 DEF SetWord, Values

\* What it wakes and queues.
LEMMA Noticed ==
  ASSUME WholeTargets, NEW a \in Assigns, NEW val, Assign(a, val)
  PROVE  LET p == LVal[a][1]
             old == OldValue(p, Values)
             changed == Fresh(a, Values) \/ old # val
         IN  /\ event_waiters' = event_waiters \
                  {w \in event_waiters :
                     IF w.all THEN changed
                     ELSE \E item \in w.items : Matches(item, p, old, val)}
             /\ cont_dirty' = cont_dirty \cup
                  {c \in Conts : p.of \in Reads[c] /\ changed}
<1> DEFINE p == LVal[a][1]
           old == OldValue(p, Values)
<1>1. /\ 1..Len(LVal[a]) = {1}
      /\ \A v : Cut(a, 1, v) = v
      /\ get_lval_val(a, Values) = old
  BY TargetFacts DEF Cut, get_lval_val
<1>2. Changed(a, 1, val, Values) <=> (Fresh(a, Values) \/ old # val)
  BY <1>1 DEF Changed
<1> QED
  BY <1>1, <1>2 DEF Assign, Woken, Marked

LEMMA NetEvents ==
  ASSUME Shapes, WholeTargets, NEW a \in Assigns, NEW val \in AnyVec, Assign(a, val),
         LVal[a][1].kind = "net"
  PROVE  NothingLost /\ EdgeHappened
<1> DEFINE p == LVal[a][1]
           n == p.of
           old == net_values[n]
           new == Fitted(val, Width[n], Signed[a])
<1>1. /\ n \in Nets /\ Signed[a] \in BOOLEAN /\ Width[n] \in Nat \ {0}
      /\ old \in Vec(Width[n])
  BY TargetFacts, SensitivityAssumption DEF Shapes
<1>2. /\ net_values' = [net_values EXCEPT ![n] = new]
      /\ mem_values' = mem_values
  BY NetWritten
<1>3. \A m \in Nets : net_values'[m] = (IF m = n THEN new ELSE net_values[m])
  BY <1>2 DEF Shapes
<1>4. /\ old = val => new = old
      /\ Level(new) = Level(val)
  <2>1. old.width = Width[n]
    BY <1>1 DEF Vec
  <2> QED
    BY <2>1, <1>1, FittedFacts
<1>5. OldValue(p, Values) = old /\ ~Fresh(a, Values)
  BY DEF OldValue, Fresh, Values
<1>6. /\ event_waiters' = event_waiters \
           {w \in event_waiters :
              IF w.all THEN old # val ELSE \E item \in w.items : Matches(item, p, old, val)}
      /\ cont_dirty' = cont_dirty \cup {c \in Conts : n \in Reads[c] /\ old # val}
  <2>1. Fresh(a, Values) \/ OldValue(p, Values) # val <=> old # val
    BY <1>5
  <2> QED
    BY <1>5, <2>1, Noticed
<1>7. ASSUME NEW x \in Altered(net_values, mem_values, net_values', mem_values')
      PROVE  x = n /\ old # val
  <2>1. x \in Nets /\ net_values[x] # net_values'[x]
    BY <1>2, <1>7 DEF Altered
  <2> QED
    BY <2>1, <1>3, <1>4
<1>8. ASSUME NEW item, item.net \in Nets,
             Happened(item, net_values[item.net], net_values'[item.net])
      PROVE  old # val /\ Matches(item, p, old, val)
  <2>1. item.net = n /\ Happened(item, old, new)
    BY <1>3, <1>8, NoEvent
  <2>2. old # val
    BY <2>1, <1>4, NoEvent
  <2> HIDE DEF old, new
  <2> QED
    BY <2>1, <2>2, <1>4, EdgesOfLevels DEF Happened, Matches
<1>9. ASSUME NEW item, item.edge # "any", Matches(item, p, old, val)
      PROVE  Happened(item, net_values[item.net], net_values'[item.net])
  <2>1. item.net = n
    BY <1>9 DEF Matches
  <2>2. Happened(item, old, new)
    <3> HIDE DEF old, new
    <3> QED
      BY <1>9, <1>4, EdgesOfLevels DEF Happened, Matches
  <2> QED
    BY <2>1, <2>2, <1>1, <1>3
<1> HIDE DEF old, new, n, p
<1>10. ASSUME NEW w \in event_waiters \cap event_waiters'
       PROVE  /\ w.all => Altered(net_values, mem_values, net_values', mem_values') = {}
              /\ \A item \in w.items :
                   ~Happened(item, net_values[item.net], net_values'[item.net])
  <2>1. /\ w.all => old = val
        /\ ~w.all => \A item \in w.items : ~Matches(item, p, old, val)
        /\ \A item \in w.items : item.net \in Nets
    BY <1>6, <1>10 DEF Shapes
  <2> QED
    BY <2>1, <1>7, <1>8
<1>11. ASSUME NEW c \in Conts,
              Altered(net_values, mem_values, net_values', mem_values') \cap Reads[c] # {}
       PROVE  c \in cont_dirty'
  BY <1>6, <1>7, <1>11
<1>12. NothingLost
  BY <1>10, <1>11 DEF NothingLost
<1>13. ASSUME NEW w \in event_waiters \ event_waiters', ~w.all,
              \A item \in w.items : item.edge # "any"
       PROVE  \E item \in w.items :
                Happened(item, net_values[item.net], net_values'[item.net])
  BY <1>6, <1>9, <1>13
<1> QED
  BY <1>12, <1>13 DEF EdgeHappened

LEMMA WordEvents ==
  ASSUME Shapes, WholeTargets, NEW a \in Assigns, NEW val \in AnyVec, Assign(a, val),
         LVal[a][1].kind = "mem"
  PROVE  NothingLost /\ EdgeHappened
<1> DEFINE p == LVal[a][1]
           key == <<p.of, Index(p, Values)>>
           changed == key \notin DOMAIN mem_values \/ mem_values[key] # val
<1>1. /\ net_values' = net_values
      /\ mem_values' = [k \in DOMAIN mem_values \cup {key} |->
                          IF k = key THEN val ELSE mem_values[k]]
  BY WordWritten
<1>2. Fresh(a, Values) \/ OldValue(p, Values) # val <=> changed
  BY TargetFacts DEF OldValue, OldWord, Fresh, Values
<1>3. /\ event_waiters' = event_waiters \
           {w \in event_waiters :
              IF w.all THEN changed
              ELSE \E item \in w.items : Matches(item, p, OldValue(p, Values), val)}
      /\ cont_dirty' = cont_dirty \cup {c \in Conts : p.of \in Reads[c] /\ changed}
  BY <1>2, Noticed
<1>4. \A item : ~Matches(item, p, OldValue(p, Values), val)
  BY DEF Matches
<1>5. ASSUME NEW x \in Altered(net_values, mem_values, net_values', mem_values')
      PROVE  x = p.of /\ changed
  <2>1. PICK k \in DOMAIN mem_values' :
          /\ x = k[1]
          /\ WordAt(k, mem_values) # WordAt(k, mem_values')
    BY <1>1, <1>5 DEF Altered
  <2>2. k = key
    BY <1>1, <2>1 DEF WordAt
  <2>3. changed
    BY <1>1, <2>1, <2>2 DEF WordAt
  <2> QED
    BY <2>1, <2>2, <2>3
<1>6. \A item : ~Happened(item, net_values[item.net], net_values'[item.net])
  BY <1>1, NoEvent
<1> HIDE DEF changed, key, p
<1>7. ASSUME NEW w \in event_waiters \cap event_waiters', w.all
      PROVE  Altered(net_values, mem_values, net_values', mem_values') = {}
  BY <1>3, <1>5, <1>7
<1>8. ASSUME NEW c \in Conts,
             Altered(net_values, mem_values, net_values', mem_values') \cap Reads[c] # {}
      PROVE  c \in cont_dirty'
  BY <1>3, <1>5, <1>8
<1>9. NothingLost
  BY <1>6, <1>7, <1>8 DEF NothingLost
<1>10. EdgeHappened
  BY <1>3, <1>4 DEF EdgeHappened
<1> QED
  BY <1>9, <1>10

LEMMA QuietStep ==
  ASSUME UNCHANGED <<net_values, mem_values>>, event_waiters \subseteq event_waiters'
  PROVE  NothingLost /\ EdgeHappened
<1>1. \A item : ~Happened(item, net_values[item.net], net_values'[item.net])
  BY NoEvent
<1>2. Altered(net_values, mem_values, net_values', mem_values') = {}
  BY DEF Altered
<1> QED
  BY <1>1, <1>2 DEF NothingLost, EdgeHappened

LEMMA AssignEvents ==
  ASSUME Shapes, WholeTargets, NEW a \in Assigns, NEW val \in AnyVec, Assign(a, val)
  PROVE  NothingLost /\ EdgeHappened
BY TargetFacts, NetEvents, WordEvents

\* The nets and words keep their shapes.
LEMMA AssignShapes ==
  ASSUME Shapes, WholeTargets, NEW a \in Assigns, NEW val \in AnyVec, Assign(a, val)
  PROVE  /\ DOMAIN net_values' = Nets
         /\ \A n \in Nets : net_values'[n] \in Vec(Width[n])
         /\ \A key \in DOMAIN mem_values' : mem_values'[key] \in AnyVec
         /\ \A w \in event_waiters' : \A item \in w.items : item.net \in Nets
<1>1. event_waiters' \subseteq event_waiters
  BY Zenon DEF Assign
<1>2. CASE LVal[a][1].kind = "net"
  <2> DEFINE n == LVal[a][1].of
             new == Fitted(val, Width[n], Signed[a])
  <2>1. n \in Nets /\ Width[n] \in Nat \ {0} /\ Signed[a] \in BOOLEAN
    BY <1>2, TargetFacts, SensitivityAssumption
  <2>2. new \in Vec(Width[n])
    BY <2>1, FittedFacts
  <2>3. net_values' = [net_values EXCEPT ![n] = new] /\ mem_values' = mem_values
    BY <1>2, NetWritten
  <2> HIDE DEF new, n
  <2> QED
    BY <1>1, <2>1, <2>2, <2>3 DEF Shapes
<1>3. CASE LVal[a][1].kind = "mem"
  <2> DEFINE key == <<LVal[a][1].of, Index(LVal[a][1], Values)>>
  <2>1. /\ net_values' = net_values
        /\ mem_values' = [k \in DOMAIN mem_values \cup {key} |->
                            IF k = key THEN val ELSE mem_values[k]]
    BY <1>3, WordWritten
  <2> HIDE DEF key
  <2> QED
    BY <1>1, <2>1 DEF Shapes
<1> QED
  BY <1>2, <1>3, TargetFacts

-----------------------------------------------------------------------------
(* Every step *)

LEMMA StepFacts ==
  ASSUME Shapes, WholeTargets, Next
  PROVE  Shapes' /\ NothingLost /\ EdgeHappened
<1>1. CASE \E a \in Assigns : Blocking(a)
  <2>1. PICK a \in Assigns : Blocking(a)
    BY <1>1
  <2>2. PICK val \in AnyVec : val = Value(a, Values)
    BY ValueVec
  <2>3. Assign(a, val) /\ UNCHANGED <<nba_queue, nba>>
    BY <2>1, <2>2 DEF Blocking
  <2> QED
    BY <2>3, AssignEvents, AssignShapes DEF Shapes
<1>2. CASE \E a \in Assigns : Nonblocking(a)
  <2>1. PICK a \in Assigns : Nonblocking(a)
    BY <1>2
  <2>2. Value(a, Values) \in AnyVec
    BY ValueVec
  <2>3. /\ nba_queue' = Append(nba_queue, [assign |-> a, val |-> Value(a, Values)])
        /\ UNCHANGED <<net_values, mem_values, event_waiters, nba>>
    BY <2>1 DEF Nonblocking
  <2>4. nba_queue' \in Seq(Entry)
    BY <2>2, <2>3 DEF Shapes, Entry
  <2> QED
    BY <2>3, <2>4, QuietStep DEF Shapes
<1>3. CASE \E proc \in Procs : \E sens \in Waits : Wait(proc, sens)
  <2>1. PICK proc \in Procs, sens \in Waits : Wait(proc, sens)
    BY <1>3
  <2>2. /\ event_waiters' = event_waiters \cup
             {[proc |-> proc, all |-> sens.all, items |-> sens.items]}
        /\ UNCHANGED <<net_values, mem_values, nba_queue, nba>>
    BY <2>1 DEF Wait
  <2>3. \A item \in sens.items : item.net \in Nets
    BY SensitivityAssumption
  <2> QED
    BY <2>2, <2>3, QuietStep DEF Shapes
<1>4. CASE BeginNba
  BY <1>4, QuietStep DEF BeginNba, Shapes
<1>5. CASE ApplyNba
  <2>1. nba \in Seq(Entry) /\ nba # <<>>
    BY <1>5 DEF ApplyNba, Shapes
  <2>2. PICK entry \in Entry : entry = Head(nba)
    BY <2>1
  <2>3. entry.assign \in Assigns /\ entry.val \in AnyVec
    BY DEF Entry
  <2>4. Assign(entry.assign, entry.val) /\ nba' = Tail(nba) /\ UNCHANGED nba_queue
    BY <1>5, <2>2 DEF ApplyNba
  <2>5. nba' \in Seq(Entry)
    BY <2>1, <2>4
  <2> QED
    BY <2>3, <2>4, <2>5, AssignEvents, AssignShapes DEF Shapes
<1>6. CASE EvalConts
  BY <1>6, QuietStep DEF EvalConts, Shapes
<1> QED
  BY <1>1, <1>2, <1>3, <1>4, <1>5, <1>6 DEF Next

LEMMA ShapesHold == WholeTargets => (Spec => []Shapes)
<1>1. Init => Shapes
  <2>1. \A n \in Nets : x_of_width(Width[n]) \in Vec(Width[n])
    BY ChunksAreVec, SensitivityAssumption
  <2> QED
    BY <2>1 DEF Init, Shapes
<1>2. WholeTargets /\ Shapes /\ [Next]_vars => Shapes'
  <2>1. SUFFICES ASSUME WholeTargets, Shapes, [Next]_vars PROVE Shapes'
    OBVIOUS
  <2>2. CASE Next
    BY <2>1, <2>2, StepFacts
  <2>3. CASE UNCHANGED vars
    BY <2>1, <2>3 DEF vars, Shapes
  <2> QED
    BY <2>1, <2>2, <2>3
<1>3. SUFFICES ASSUME WholeTargets PROVE Spec => []Shapes
  OBVIOUS
<1>4. Shapes /\ [Next]_vars => Shapes'
  BY <1>2, <1>3
<1> QED
  BY <1>1, <1>4, PTL DEF Spec

\* No write of a whole net or of a word is missed: not when the value is cut or
\* extended to the net, not when it comes from the NBA queue, and not when the
\* word was never written before.
THEOREM EveryEventIsNoticed == WholeTargets => (Spec => NoLostWakeup)
<1>1. SUFFICES ASSUME WholeTargets PROVE Spec => NoLostWakeup
  OBVIOUS
<1>2. Spec => []Shapes
  BY <1>1, ShapesHold
<1>3. Shapes /\ [Next]_vars => [NothingLost]_vars
  BY <1>1, StepFacts
<1> QED
  BY <1>2, <1>3, PTL DEF Spec, NoLostWakeup

\* A thread that waits for edges is never woken by anything else, though the
\* code compares the net with a value of another width.
THEOREM EveryEdgeIsReal == WholeTargets => (Spec => EdgesAreReal)
<1>1. SUFFICES ASSUME WholeTargets PROVE Spec => EdgesAreReal
  OBVIOUS
<1>2. Spec => []Shapes
  BY <1>1, ShapesHold
<1>3. Shapes /\ [Next]_vars => [EdgeHappened]_vars
  BY <1>1, StepFacts
<1> QED
  BY <1>2, <1>3, PTL DEF Spec, EdgesAreReal

-----------------------------------------------------------------------------
(* Indices and offsets *)

\* pad_to_width makes a number of every vector: the loop over its bits.
LEMMA NumIsNat ==
  ASSUME NEW u, u.width \in Nat
  PROVE  Num(u) \in Nat
<1> DEFINE n == u.width
           bit(k) == IF k \in u.a THEN 1 ELSE 0
           G == [p \in (0 .. n - 1) \X Nat |-> 2 * p[2] + bit(p[1])]
           Is(h) == h = [k \in 0..n |-> IF k = n THEN 0 ELSE 2 * h[k + 1] + bit(k)]
           high == CHOOSE h : Is(h)
<1>1. G \in [(0 .. n - 1) \X Nat -> Nat]
  OBVIOUS
<1>2. ASSUME NEW k \in 0 .. n - 1, NEW v \in Nat
      PROVE  G[<<k, v>>] = 2 * v + bit(k)
  OBVIOUS
<1> HIDE DEF G
<1>3. PICK f \in [0 .. n -> Nat] : DownList(f, n, 0, G)
  BY <1>1, ListRecursionDown
<1>4. Is(f)
  <2>1. ASSUME NEW k \in 0..n
        PROVE  (IF k = n THEN 0 ELSE G[<<k, f[k + 1]>>])
                 = IF k = n THEN 0 ELSE 2 * f[k + 1] + bit(k)
    <3>1. CASE k # n
      <4>1. k \in 0 .. n - 1 /\ k + 1 \in 0 .. n
        BY <3>1
      <4>2. f[k + 1] \in Nat
        BY <4>1
      <4> HIDE DEF bit
      <4> QED
        BY <1>2, <4>1, <4>2
    <3> QED
      BY <3>1
  <2> HIDE DEF bit
  <2> QED
    BY <1>3, <2>1 DEF DownList
<1>5. Is(high)
  BY <1>4
<1> HIDE DEF high
<1> DEFINE S == {k \in 0 .. n : high[k] \in Nat}
<1>6. n \in S
  BY <1>5
<1>7. ASSUME NEW k \in 0 .. n - 1, k + 1 \in S
      PROVE  k \in S
  <2>1. k \in 0 .. n /\ k # n /\ bit(k) \in Nat
    OBVIOUS
  <2>2. high[k] = 2 * high[k + 1] + bit(k)
    BY <1>5, <2>1
  <2> QED
    BY <1>7, <2>1, <2>2
<1>8. 0 .. n \subseteq S
  <2> HIDE DEF S
  <2> QED
    BY <1>6, <1>7, ListInductionDown
<1>9. high[0] \in Nat
  BY <1>8
<1> QED
  BY <1>9 DEF Num, high

LEMMA TargetWidth ==
  ASSUME NEW p, Target(p)
  PROVE  lvalue_width(p) \in Nat \ {0}
BY SensitivityAssumption DEF Target, Selection, lvalue_width

LEMMA ListFacts ==
  ASSUME NEW a \in Assigns
  PROVE  /\ Len(LVal[a]) \in Nat /\ Len(LVal[a]) >= 1
         /\ DOMAIN LVal[a] = 1..Len(LVal[a])
         /\ \A j \in 1..Len(LVal[a]) :
              /\ Target(LVal[a][j])
              /\ lvalue_width(LVal[a][j]) \in Nat \ {0}
<1>1. /\ LVal[a] \in Seq(Selection) /\ Len(LVal[a]) >= 1
      /\ \A j \in 1..Len(LVal[a]) : Target(LVal[a][j])
  BY SensitivityAssumption
<1> QED
  BY <1>1, TargetWidth

\* The parts of a concatenation lie side by side, the last one at bit 0.
LEMMA OffsetFacts ==
  ASSUME NEW a \in Assigns
  PROVE  /\ Offset(a, Len(LVal[a])) = 0
         /\ \A j \in 0..Len(LVal[a]) : Offset(a, j) \in Nat /\ Offset(a, j) <= TotalWidth(a)
         /\ \A j \in 1..Len(LVal[a]) :
              Offset(a, j - 1) = Offset(a, j) + lvalue_width(LVal[a][j])
<1> DEFINE n == Len(LVal[a])
           w(j) == lvalue_width(LVal[a][j])
           G == [p \in (0 .. n - 1) \X Nat |-> p[2] + w(p[1] + 1)]
           Is(h) == h = [k \in 0..n |-> IF k = n THEN 0 ELSE h[k + 1] + w(k + 1)]
           below == CHOOSE h : Is(h)
<1>1. n \in Nat /\ \A k \in 0 .. n - 1 : k + 1 \in 1 .. n /\ w(k + 1) \in Nat
  BY ListFacts
<1> HIDE DEF w, n
<1>2. G \in [(0 .. n - 1) \X Nat -> Nat]
  <2>1. ASSUME NEW p \in (0 .. n - 1) \X Nat
        PROVE  p[2] + w(p[1] + 1) \in Nat
    BY <1>1
  <2> QED
    BY <2>1
<1>3. ASSUME NEW k \in 0 .. n - 1, NEW v \in Nat
      PROVE  G[<<k, v>>] = v + w(k + 1)
  BY <1>1
<1> HIDE DEF G
<1>4. PICK f \in [0 .. n -> Nat] : DownList(f, n, 0, G)
  BY <1>1, <1>2, ListRecursionDown
<1>5. Is(f)
  <2>1. ASSUME NEW k \in 0..n
        PROVE  (IF k = n THEN 0 ELSE G[<<k, f[k + 1]>>])
                 = IF k = n THEN 0 ELSE f[k + 1] + w(k + 1)
    <3>1. CASE k # n
      <4>1. k \in 0 .. n - 1 /\ k + 1 \in 0 .. n
        BY <1>1, <3>1
      <4>2. f[k + 1] \in Nat
        BY <4>1
      <4> QED
        BY <1>3, <4>1, <4>2
    <3> QED
      BY <3>1
  <2> QED
    BY <1>4, <2>1 DEF DownList
<1>6. Is(below)
  BY <1>5
<1> HIDE DEF below
<1> DEFINE S == {k \in 0 .. n : below[k] \in Nat}
<1>7. n \in S /\ below[n] = 0
  BY <1>1, <1>6
<1>8. ASSUME NEW k \in 0 .. n - 1
      PROVE  below[k] = below[k + 1] + w(k + 1) /\ (k + 1 \in S => k \in S)
  <2>1. k \in 0 .. n /\ k # n /\ w(k + 1) \in Nat
    BY <1>1
  <2>2. below[k] = below[k + 1] + w(k + 1)
    BY <1>6, <2>1
  <2> QED
    BY <2>1, <2>2
<1>9. 0 .. n \subseteq S
  <2> HIDE DEF S
  <2> QED
    BY <1>1, <1>7, <1>8, ListInductionDown
<1> DEFINE T == {k \in 0 .. n : below[k] <= below[0]}
<1>10. 0 \in T
  BY <1>1, <1>9
<1>11. ASSUME NEW k \in 1 .. n, k - 1 \in T
       PROVE  k \in T
  <2>1. k - 1 \in 0 .. n - 1 /\ k - 1 + 1 = k /\ k \in 0 .. n /\ k - 1 \in 0 .. n /\ 0 \in 0 .. n
    BY <1>1
  <2>2. below[k - 1] = below[k] + w(k) /\ w(k) \in Nat
    BY <1>1, <1>8, <2>1
  <2>3. below[k] \in Nat /\ below[k - 1] \in Nat /\ below[0] \in Nat
    BY <1>9, <2>1
  <2>4. below[k - 1] <= below[0]
    BY <1>11
  <2> QED
    BY <2>1, <2>2, <2>3, <2>4
<1>12. 0 .. n \subseteq T
  <2> HIDE DEF T
  <2> QED
    BY <1>1, <1>10, <1>11, ListInduction
<1>13. ASSUME NEW j
       PROVE  Offset(a, j) = below[j]
  BY DEF Offset, below, n, w
<1>14. TotalWidth(a) = below[0]
  BY <1>13 DEF TotalWidth
<1>15. \A j \in 1 .. n : below[j - 1] = below[j] + w(j)
  <2>1. \A j \in 1 .. n : j - 1 \in 0 .. n - 1 /\ j - 1 + 1 = j
    BY <1>1
  <2> QED
    BY <1>8, <2>1
<1>16. /\ Offset(a, n) = 0
       /\ \A j \in 0..n : Offset(a, j) \in Nat /\ Offset(a, j) <= TotalWidth(a)
       /\ \A j \in 1..n : Offset(a, j - 1) = Offset(a, j) + w(j)
  BY <1>7, <1>9, <1>12, <1>13, <1>14, <1>15
<1> QED
  BY <1>16 DEF n, w

-----------------------------------------------------------------------------
(* Bits and parts of vectors *)

LEMMA MovedBits ==
  ASSUME NEW S \in SUBSET Int, NEW n \in Int, NEW i
  PROVE  /\ i \in Down(S, n) <=> i \in Int /\ i + n \in S
         /\ i \in Up(S, n) <=> i \in Int /\ i - n \in S
<1>1. \A k \in S : i = k - n => i \in Int /\ i + n = k
  OBVIOUS
<1>2. \A k \in S : i = k + n => i \in Int /\ i - n = k
  OBVIOUS
<1>3. i \in Int => i = (i + n) - n /\ i = (i - n) + n
  OBVIOUS
<1> QED
  BY <1>1, <1>2, <1>3 DEF Down, Up

LEMMA VecParts ==
  ASSUME NEW m \in Nat, NEW u \in Vec(m)
  PROVE  /\ u.width = m /\ u.a \subseteq 0..(m - 1) /\ u.b \subseteq 0..(m - 1)
         /\ u.a \subseteq Int /\ u.b \subseteq Int
         /\ u = [width |-> m, a |-> u.a, b |-> u.b]
BY DEF Vec, Bits

\* Which bits a part of a vector has.
LEMMA SelectIs ==
  ASSUME NEW m \in Nat, NEW u \in Vec(m), NEW lo \in Nat, NEW w \in Nat, lo + w <= m
  PROVE  /\ Select(u, lo, w) \in Vec(w)
         /\ \A i \in 0..(w - 1) :
              /\ i \in Select(u, lo, w).a <=> i + lo \in u.a
              /\ i \in Select(u, lo, w).b <=> i + lo \in u.b
<1>1. Select(u, lo, w) = from_chunks(w, Down(u.a, lo), Down(u.b, lo))
  BY VecParts DEF Select
<1>2. \A i : /\ i \in Down(u.a, lo) <=> i \in Int /\ i + lo \in u.a
             /\ i \in Down(u.b, lo) <=> i \in Int /\ i + lo \in u.b
  BY MovedBits, VecParts
<1>3. \A i \in 0..(w - 1) : i \in Int
  OBVIOUS
<1> QED
  BY <1>1, <1>2, <1>3 DEF from_chunks, Vec, Bits

\* Vectors of one width with the same bits are equal.
LEMMA SameVec ==
  ASSUME NEW w \in Nat, NEW u \in Vec(w), NEW v \in Vec(w),
         \A i \in 0..(w - 1) : (i \in u.a <=> i \in v.a) /\ (i \in u.b <=> i \in v.b)
  PROVE  u = v
<1>1. u.a = v.a /\ u.b = v.b
  BY VecParts
<1> QED
  BY <1>1, VecParts

\* The whole of a vector is a part of it.
LEMMA SelectAll ==
  ASSUME NEW m \in Nat, NEW u \in Vec(m)
  PROVE  Select(u, 0, m) = u
<1>1. \A i \in 0..(m - 1) : i + 0 = i
  OBVIOUS
<1>2. /\ Select(u, 0, m) \in Vec(m)
      /\ \A i \in 0..(m - 1) :
              /\ i \in Select(u, 0, m).a <=> i \in u.a
              /\ i \in Select(u, 0, m).b <=> i \in u.b
  BY <1>1, SelectIs
<1> QED
  BY <1>2, SameVec

\* Two parts side by side make one.
LEMMA SelectJoin ==
  ASSUME NEW m \in Nat, NEW u \in Vec(m), NEW lo \in Nat, NEW w \in Nat, NEW t \in Nat,
         lo + w + t <= m
  PROVE  concat(Select(u, lo + w, t), Select(u, lo, w)) = Select(u, lo, t + w)
<1> DEFINE high == Select(u, lo + w, t)
           low == Select(u, lo, w)
           all == Select(u, lo, t + w)
           both == concat(high, low)
<1>1. /\ high \in Vec(t) /\ low \in Vec(w) /\ all \in Vec(t + w)
      /\ \A i \in 0..(t - 1) : /\ i \in high.a <=> i + (lo + w) \in u.a
                               /\ i \in high.b <=> i + (lo + w) \in u.b
      /\ \A i \in 0..(w - 1) : /\ i \in low.a <=> i + lo \in u.a
                               /\ i \in low.b <=> i + lo \in u.b
      /\ \A i \in 0..(t + w - 1) : /\ i \in all.a <=> i + lo \in u.a
                                   /\ i \in all.b <=> i + lo \in u.b
  <2>1. lo + w \in Nat /\ t + w \in Nat /\ lo + w + t <= m /\ lo + w <= m /\ lo + (t + w) <= m
    OBVIOUS
  <2>2. /\ high \in Vec(t)
        /\ \A i \in 0..(t - 1) : /\ i \in high.a <=> i + (lo + w) \in u.a
                                 /\ i \in high.b <=> i + (lo + w) \in u.b
    BY <2>1, SelectIs
  <2>3. /\ low \in Vec(w)
        /\ \A i \in 0..(w - 1) : /\ i \in low.a <=> i + lo \in u.a
                                 /\ i \in low.b <=> i + lo \in u.b
    BY <2>1, SelectIs
  <2>4. /\ all \in Vec(t + w)
        /\ \A i \in 0..(t + w - 1) : /\ i \in all.a <=> i + lo \in u.a
                                     /\ i \in all.b <=> i + lo \in u.b
    BY <2>1, SelectIs
  <2> QED
    BY <2>2, <2>3, <2>4
<1> HIDE DEF high, low, all
<1>2. /\ high.width = t /\ low.width = w
      /\ high.a \subseteq 0..(t - 1) /\ high.b \subseteq 0..(t - 1)
      /\ low.a \subseteq 0..(w - 1) /\ low.b \subseteq 0..(w - 1)
      /\ high.a \subseteq Int /\ high.b \subseteq Int
  BY <1>1, VecParts
<1>3. /\ both \in Vec(t + w)
      /\ both.a = (low.a \cup Up(high.a, w)) \cap 0..(t + w - 1)
      /\ both.b = (low.b \cup Up(high.b, w)) \cap 0..(t + w - 1)
  BY <1>2 DEF concat, from_chunks, Vec, Bits
<1> HIDE DEF both
<1>4. \A i : /\ i \in Up(high.a, w) <=> i \in Int /\ i - w \in high.a
             /\ i \in Up(high.b, w) <=> i \in Int /\ i - w \in high.b
  BY <1>2, MovedBits
<1>5. ASSUME NEW i \in 0..(t + w - 1)
      PROVE  (i \in both.a <=> i \in all.a) /\ (i \in both.b <=> i \in all.b)
  <2>1. CASE i < w
    <3>1. i \in 0..(w - 1) /\ i - w \notin 0..(t - 1)
      BY <2>1
    <3>2. i - w \notin high.a /\ i - w \notin high.b
      BY <1>2, <3>1
    <3> QED
      BY <1>1, <1>3, <1>4, <3>1, <3>2
  <2>2. CASE ~(i < w)
    <3>1. i \notin 0..(w - 1) /\ i - w \in 0..(t - 1) /\ i \in Int /\ i - w + (lo + w) = i + lo
      BY <2>2
    <3>2. i \notin low.a /\ i \notin low.b
      BY <1>2, <3>1
    <3> QED
      BY <1>1, <1>3, <1>4, <3>1, <3>2
  <2> QED
    BY <2>1, <2>2
<1> QED
  BY <1>1, <1>3, <1>5, SameVec DEF both, high, low, all

\* The bits of u outside the w bits from lo on.
Beside(u, lo, w) == <<u.a \ (lo..(lo + w - 1)), u.b \ (lo..(lo + w - 1))>>

\* insert_bits: the part is read back, the other bits are kept, and a place
\* beyond the net is not written.
LEMMA InsertFacts ==
  ASSUME NEW m \in Nat, NEW u \in Vec(m), NEW lo \in Nat, NEW k \in Nat, NEW v \in AnyVec
  PROVE  LET r == insert_bits(u, lo, k, v)
         IN  /\ r \in Vec(m)
             /\ Beside(r, lo, k) = Beside(u, lo, k)
             /\ lo + k <= m /\ v \in Vec(k) => Select(r, lo, k) = v
             /\ lo >= m => r = u
<1> DEFINE r == insert_bits(u, lo, k, v)
           puta == Up(v.a \cap 0..(k - 1), lo)
           putb == Up(v.b \cap 0..(k - 1), lo)
           part == lo..(lo + k - 1)
<1>1. /\ u.width = m /\ u.a \subseteq 0..(m - 1) /\ u.b \subseteq 0..(m - 1)
  BY VecParts
<1>2. /\ r \in Vec(m)
      /\ r.a = ((u.a \cap (0..(m - 1) \ part)) \cup puta) \cap 0..(m - 1)
      /\ r.b = ((u.b \cap (0..(m - 1) \ part)) \cup putb) \cap 0..(m - 1)
  BY <1>1 DEF insert_bits, from_chunks, Vec, Bits
<1>3. \A i : /\ i \in puta <=> i \in Int /\ i - lo \in v.a \cap 0..(k - 1)
             /\ i \in putb <=> i \in Int /\ i - lo \in v.b \cap 0..(k - 1)
  <2>1. v.a \cap 0..(k - 1) \in SUBSET Int /\ v.b \cap 0..(k - 1) \in SUBSET Int
    OBVIOUS
  <2> QED
    BY <2>1, MovedBits
<1>4. \A i \in Int : i - lo \in 0..(k - 1) <=> i \in part
  OBVIOUS
<1>5. puta \subseteq part /\ putb \subseteq part
  BY <1>3, <1>4
<1> HIDE DEF r, puta, putb, part
<1>6. Beside(r, lo, k) = Beside(u, lo, k)
  <2>1. r.a \ part = u.a \ part /\ r.b \ part = u.b \ part
    BY <1>1, <1>2, <1>5
  <2> QED
    BY <2>1 DEF Beside, part
<1>7. ASSUME lo + k <= m, v \in Vec(k)
      PROVE  Select(r, lo, k) = v
  <2>1. ASSUME NEW i \in 0..(k - 1)
        PROVE  /\ i \in Select(r, lo, k).a <=> i \in v.a
               /\ i \in Select(r, lo, k).b <=> i \in v.b
    <3>1. i + lo \in Int /\ i + lo \in 0..(m - 1) /\ i + lo - lo = i /\ i + lo \in part
      BY <1>4, <1>7
    <3>2. /\ i \in Select(r, lo, k).a <=> i + lo \in r.a
          /\ i \in Select(r, lo, k).b <=> i + lo \in r.b
      BY <1>2, <1>7, SelectIs
    <3> QED
      BY <1>2, <1>3, <3>1, <3>2
  <2>2. Select(r, lo, k) \in Vec(k)
    BY <1>2, <1>7, SelectIs
  <2> QED
    BY <1>7, <2>1, <2>2, SameVec
<1>8. ASSUME lo >= m
      PROVE  r = u
  <2>1. \A i \in 0..(m - 1) : i \notin part
    BY <1>8 DEF part
  <2>2. \A i \in 0..(m - 1) : (i \in r.a <=> i \in u.a) /\ (i \in r.b <=> i \in u.b)
    BY <1>1, <1>2, <1>5, <2>1
  <2> QED
    BY <1>2, <2>2, SameVec
<1> QED
  BY <1>2, <1>6, <1>7, <1>8 DEF r, part

LEMMA InsertedPart ==
  ASSUME NEW m \in Nat, NEW u \in Vec(m), NEW lo \in Nat, NEW w \in Nat, NEW val \in Vec(w),
         NEW v, v = insert_bits(u, lo, w, val)
  PROVE  /\ lo + w <= m => Select(v, lo, w) = val
         /\ Beside(v, lo, w) = Beside(u, lo, w)
         /\ lo >= m => v = u
<1>1. val \in AnyVec
  BY DEF AnyVec
<1> QED
  BY <1>1, InsertFacts

\* insert_bits looks at the bits of the part only.
LEMMA InsertCut ==
  ASSUME NEW m \in Nat, NEW u \in Vec(m), NEW lo \in Nat, NEW k \in Nat, NEW v
  PROVE  insert_bits(u, lo, k, resize(v, k)) = insert_bits(u, lo, k, v)
<1>1. /\ resize(v, k).a \cap Bits(k) = v.a \cap Bits(k)
      /\ resize(v, k).b \cap Bits(k) = v.b \cap Bits(k)
  BY DEF resize, from_chunks
<1> QED
  BY <1>1 DEF insert_bits

-----------------------------------------------------------------------------
(* One target *)

\* What is in the nets and in the words that have been written.
NetVals == {f \in [Nets -> AnyVec] : \A n \in Nets : f[n] \in Vec(Width[n])}
MemVals ==
  {f \in UNION {[D -> AnyVec] : D \in SUBSET (Mems \X Nat)} :
     \A key \in DOMAIN f : f[key] \in Vec(ElemWidth[key[1]])}
Stores == [nets : NetVals, mems : MemVals]

LEMMA StoreFacts ==
  ASSUME NEW st \in Stores
  PROVE  /\ st = [nets |-> st.nets, mems |-> st.mems]
         /\ st.nets \in NetVals /\ st.mems \in MemVals
         /\ DOMAIN st.nets = Nets /\ st.nets = [n \in Nets |-> st.nets[n]]
         /\ \A n \in Nets : st.nets[n] \in Vec(Width[n]) /\ Width[n] \in Nat \ {0}
         /\ DOMAIN st.mems \subseteq Mems \X Nat
         /\ \A key \in DOMAIN st.mems : st.mems[key] \in Vec(ElemWidth[key[1]])
<1>1. st.nets \in NetVals /\ st.mems \in MemVals /\ st = [nets |-> st.nets, mems |-> st.mems]
  BY DEF Stores
<1>2. /\ DOMAIN st.nets = Nets /\ st.nets = [n \in Nets |-> st.nets[n]]
      /\ \A n \in Nets : st.nets[n] \in Vec(Width[n]) /\ Width[n] \in Nat \ {0}
  BY <1>1, SensitivityAssumption DEF NetVals
<1>3. /\ DOMAIN st.mems \subseteq Mems \X Nat
      /\ \A key \in DOMAIN st.mems : st.mems[key] \in Vec(ElemWidth[key[1]])
  <2>1. PICK D \in SUBSET (Mems \X Nat) : st.mems \in [D -> AnyVec]
    BY <1>1 DEF MemVals
  <2> QED
    BY <1>1, <2>1 DEF MemVals
<1> QED
  BY <1>1, <1>2, <1>3

\* An index is a number, the same in all stores in which its net is the same.
LEMMA IndexNat ==
  ASSUME NEW st \in Stores, NEW p, Target(p)
  PROVE  Index(p, st) \in Nat /\ PartLow(p, st) \in Int /\ p.at \in Nets
<1>1. p.at \in Nets /\ p.w \in Nat
  BY DEF Target, Selection
<1>2. st.nets[p.at].width \in Nat
  <2>1. st.nets[p.at] \in Vec(Width[p.at]) /\ Width[p.at] \in Nat
    BY <1>1, StoreFacts
  <2> QED
    BY <2>1, VecParts
<1>3. Index(p, st) \in Nat
  BY <1>2, NumIsNat DEF Index
<1> QED
  BY <1>1, <1>3 DEF PartLow

LEMMA NetStored ==
  ASSUME NEW st \in Stores, NEW n \in Nets, NEW val \in Vec(Width[n])
  PROVE  /\ SetNet(st, n, val) \in Stores
         /\ SetNet(st, n, val).mems = st.mems
         /\ SetNet(st, n, val).nets[n] = val
         /\ \A m \in Nets \ {n} : SetNet(st, n, val).nets[m] = st.nets[m]
<1> DEFINE f == [st.nets EXCEPT ![n] = val]
<1>1. SetNet(st, n, val) = [nets |-> f, mems |-> st.mems]
  BY DEF SetNet
<1>2. val \in AnyVec
  BY SensitivityAssumption DEF AnyVec
<1>3. f \in NetVals /\ f[n] = val /\ \A m \in Nets \ {n} : f[m] = st.nets[m]
  BY <1>2, StoreFacts DEF NetVals
<1> HIDE DEF f
<1>4. st.mems \in MemVals
  BY StoreFacts
<1> QED
  BY <1>1, <1>3, <1>4 DEF Stores

LEMMA WordStored ==
  ASSUME NEW st \in Stores, NEW m \in Mems, NEW i \in Nat, NEW val \in Vec(ElemWidth[m])
  PROVE  LET s == SetWord(st, <<m, i>>, val)
         IN  /\ s \in Stores
             /\ s.nets = st.nets
             /\ DOMAIN s.mems = DOMAIN st.mems \cup {<<m, i>>}
             /\ s.mems[<<m, i>>] = val
             /\ \A key \in DOMAIN st.mems \ {<<m, i>>} : s.mems[key] = st.mems[key]
<1> DEFINE D == DOMAIN st.mems \cup {<<m, i>>}
           f == [k \in D |-> IF k = <<m, i>> THEN val ELSE st.mems[k]]
<1>1. SetWord(st, <<m, i>>, val) = [nets |-> st.nets, mems |-> f]
  BY DEF SetWord
<1>2. val \in AnyVec /\ \A key \in DOMAIN st.mems : st.mems[key] \in AnyVec
  <2>1. \A k \in Mems : ElemWidth[k] \in Nat
    BY SensitivityAssumption
  <2>2. \A key \in DOMAIN st.mems : key[1] \in Mems /\ st.mems[key] \in Vec(ElemWidth[key[1]])
    BY StoreFacts
  <2> QED
    BY <2>1, <2>2 DEF AnyVec
<1>3. D \in SUBSET (Mems \X Nat)
  <2>1. DOMAIN st.mems \subseteq Mems \X Nat
    BY StoreFacts
  <2> QED
    BY <2>1
<1>4. ASSUME NEW key \in D
      PROVE  f[key] \in AnyVec /\ f[key] \in Vec(ElemWidth[key[1]])
  <2>1. CASE key = <<m, i>>
    <3>1. key[1] = m /\ f[key] = val
      BY <2>1
    <3> QED
      BY <1>2, <3>1
  <2>2. CASE key # <<m, i>>
    <3>1. key \in DOMAIN st.mems /\ f[key] = st.mems[key]
      BY <2>2
    <3>2. st.mems[key] \in Vec(ElemWidth[key[1]])
      BY <3>1, StoreFacts
    <3> QED
      BY <1>2, <3>1, <3>2
  <2> QED
    BY <2>1, <2>2
<1>5. f \in [D -> AnyVec] /\ DOMAIN f = D
  <2>1. f = [key \in D |-> f[key]]
    OBVIOUS
  <2> HIDE DEF f, D
  <2> QED
    BY <1>4, <2>1
<1>6. f \in MemVals
  <2>1. \A key \in D : f[key] \in Vec(ElemWidth[key[1]])
    BY <1>4
  <2> HIDE DEF f, D
  <2> QED
    BY <1>3, <1>5, <2>1 DEF MemVals
<1>7. f[<<m, i>>] = val /\ \A key \in DOMAIN st.mems \ {<<m, i>>} : f[key] = st.mems[key]
  OBVIOUS
<1> HIDE DEF f
<1>8. st.nets \in NetVals
  BY StoreFacts
<1> QED
  BY <1>1, <1>5, <1>6, <1>7, <1>8 DEF Stores

\* A value that may be written to p: to a word, of its width.
Fit(p, val) == val \in AnyVec /\ (p.kind = "mem" => val \in Vec(ElemWidth[p.of]))

\* A part is written unsigned: its slice has its width.
Put(p, val, st) == WritePart(p, val, FALSE, st)

\* A write leaves the other nets and words alone.
LEMMA PartStored ==
  ASSUME NEW st \in Stores, NEW p, Target(p), NEW val, Fit(p, val)
  PROVE  LET s == Put(p, val, st)
             key == <<p.of, Index(p, st)>>
         IN  /\ s \in Stores
             /\ \A m \in Nets \ {p.of} : s.nets[m] = st.nets[m]
             /\ p.kind = "mem" => /\ s.nets = st.nets
                                  /\ DOMAIN s.mems = DOMAIN st.mems \cup {key}
                                  /\ s.mems[key] = val
                                  /\ \A k \in DOMAIN st.mems \ {key} : s.mems[k] = st.mems[k]
             /\ p.kind # "mem" => s.mems = st.mems
<1> DEFINE s == Put(p, val, st)
<1>1. CASE p.kind = "mem"
  <2>1. p.of \in Mems /\ Index(p, st) \in Nat /\ val \in Vec(ElemWidth[p.of])
    BY <1>1, IndexNat DEF Fit, Target
  <2>2. s = SetWord(st, <<p.of, Index(p, st)>>, val)
    BY <1>1 DEF Put, WritePart
  <2> QED
    BY <1>1, <2>1, <2>2, WordStored
<1>2. CASE p.kind = "net"
  <2>1. p.of \in Nets /\ Width[p.of] \in Nat \ {0} /\ val \in AnyVec
    BY <1>2, SensitivityAssumption DEF Fit, Target
  <2> DEFINE v == Fitted(val, Width[p.of], FALSE)
  <2>2. v \in Vec(Width[p.of])
    BY <2>1, FittedFacts
  <2>3. s = SetNet(st, p.of, v)
    BY <1>2 DEF Put, WritePart
  <2> HIDE DEF v
  <2> QED
    BY <1>2, <2>1, <2>2, <2>3, NetStored
<1>3. CASE p.kind \in {"part", "dynbit", "dynpart"}
  <2>1. /\ p.of \in Nets /\ Width[p.of] \in Nat \ {0} /\ val \in AnyVec
        /\ st.nets[p.of] \in Vec(Width[p.of])
        /\ p.lo \in Nat /\ p.w \in Nat /\ Index(p, st) \in Nat /\ PartLow(p, st) \in Int
    BY <1>3, SensitivityAssumption, IndexNat, StoreFacts DEF Fit, Target, Selection
  <2> DEFINE bits(lo, w) == SetNet(st, p.of, insert_bits(st.nets[p.of], lo, w, val))
             Kept(t) == /\ t \in Stores
                        /\ \A m \in Nets \ {p.of} : t.nets[m] = st.nets[m]
                        /\ t.mems = st.mems
  <2>2. ASSUME NEW lo \in Nat, NEW w \in Nat
        PROVE  Kept(bits(lo, w))
    <3>1. insert_bits(st.nets[p.of], lo, w, val) \in Vec(Width[p.of])
      BY <2>1, InsertFacts
    <3> QED
      BY <2>1, <3>1, NetStored
  <2>3. Kept(st)
    OBVIOUS
  <2> HIDE DEF Kept
  <2>4. CASE p.kind = "part"
    <3>1. s = bits(p.lo, p.w)
      BY <2>4 DEF Put, WritePart, WriteBits
    <3> HIDE DEF bits
    <3> QED
      BY <2>1, <2>2, <2>4, <3>1 DEF Kept
  <2>5. CASE p.kind = "dynbit"
    <3>1. s = bits(Index(p, st), 1)
      BY <2>5 DEF Put, WritePart, WriteBits
    <3> HIDE DEF bits
    <3> QED
      BY <2>1, <2>2, <2>5, <3>1 DEF Kept
  <2>6. CASE p.kind = "dynpart"
    <3>1. s = IF Inside(p, st) THEN bits(PartLow(p, st), p.w) ELSE st
      BY <2>6 DEF Put, WritePart, WriteBits
    <3>2. Inside(p, st) => PartLow(p, st) \in Nat
      BY <2>1 DEF Inside
    <3> HIDE DEF bits
    <3> QED
      BY <2>1, <2>2, <2>3, <2>6, <3>1, <3>2 DEF Kept
  <2> QED
    BY <1>3, <2>4, <2>5, <2>6
<1> QED
  BY <1>1, <1>2, <1>3 DEF Target, Selection

\* Two stores that agree on the net of p and on its index.
Alike(p, s, t) ==
  /\ p.kind # "mem" => s.nets[p.of] = t.nets[p.of]
  /\ p.kind \notin {"net", "part"} => s.nets[p.at] = t.nets[p.at]

LEMMA PartAlike ==
  ASSUME NEW s \in Stores, NEW t \in Stores, NEW p, Target(p), Alike(p, s, t), NEW val
  PROVE  /\ p.kind = "mem" => Index(p, s) = Index(p, t)
         /\ p.kind # "mem" =>
              Put(p, val, s).nets[p.of] = Put(p, val, t).nets[p.of]
<1>1. p.kind \notin {"net", "part"} =>
        Index(p, s) = Index(p, t) /\ PartLow(p, s) = PartLow(p, t) /\ (Inside(p, s) <=> Inside(p, t))
  BY DEF Alike, Index, PartLow, Inside
<1>2. ASSUME p.kind # "mem"
      PROVE  /\ p.of \in Nets /\ s.nets[p.of] = t.nets[p.of]
             /\ \A v : /\ SetNet(s, p.of, v).nets[p.of] = v
                       /\ SetNet(t, p.of, v).nets[p.of] = v
  <2>1. p.of \in Nets
    BY <1>2 DEF Target
  <2>2. DOMAIN s.nets = Nets /\ DOMAIN t.nets = Nets
    BY StoreFacts
  <2> QED
    BY <1>2, <2>1, <2>2 DEF Alike, SetNet
<1>3. CASE p.kind = "net"
  <2> DEFINE v == Fitted(val, Width[p.of], FALSE)
  <2>1. /\ Put(p, val, s) = SetNet(s, p.of, v)
        /\ Put(p, val, t) = SetNet(t, p.of, v)
    BY <1>3 DEF Put, WritePart
  <2>2. p.kind # "mem"
    BY <1>3
  <2>3. SetNet(s, p.of, v).nets[p.of] = v /\ SetNet(t, p.of, v).nets[p.of] = v
    BY <1>2, <2>2
  <2>4. Put(p, val, s).nets[p.of] = Put(p, val, t).nets[p.of]
    BY <2>1, <2>3
  <2> QED
    BY <2>2, <2>4
<1>4. CASE p.kind = "part"
  BY <1>2, <1>4 DEF Put, WritePart, WriteBits
<1>5. CASE p.kind = "dynbit"
  BY <1>1, <1>2, <1>5 DEF Put, WritePart, WriteBits
<1>6. CASE p.kind = "dynpart"
  BY <1>1, <1>2, <1>6 DEF Put, WritePart, WriteBits
<1> QED
  BY <1>1, <1>3, <1>4, <1>5, <1>6 DEF Target, Selection

\* A target is read back in a store in which it has been written, and its index
\* is the one of before.
LEMMA PartRead ==
  ASSUME NEW st \in Stores, NEW t \in Stores, NEW p, Target(p), NEW val \in Vec(lvalue_width(p)),
         p.kind \notin {"net", "part"} => t.nets[p.at] = st.nets[p.at],
         p.kind # "mem" => t.nets[p.of] = Put(p, val, st).nets[p.of],
         p.kind = "mem" => /\ <<p.of, Index(p, st)>> \in DOMAIN t.mems
                           /\ t.mems[<<p.of, Index(p, st)>>] = val
  PROVE  /\ Exists(p, st) => Read(p, t) = val
         /\ p.kind # "mem" =>
              IF Exists(p, st) THEN Rest(p, st, t.nets[p.of]) = Rest(p, st, st.nets[p.of])
                               ELSE t.nets[p.of] = st.nets[p.of]
<1>1. p.kind \notin {"net", "part"} => Index(p, t) = Index(p, st) /\ PartLow(p, t) = PartLow(p, st)
  BY DEF Index, PartLow
<1>2. CASE p.kind = "mem"
  BY <1>1, <1>2 DEF Read, Word
<1> DEFINE m == Width[p.of]
           u == st.nets[p.of]
           v == t.nets[p.of]
<1>3. ASSUME p.kind # "mem"
      PROVE  /\ p.of \in Nets /\ m \in Nat \ {0} /\ u \in Vec(m) /\ v \in Vec(m)
             /\ u.width = m /\ v.width = m
             /\ p.lo \in Nat /\ p.w \in Nat /\ Index(p, st) \in Nat /\ PartLow(p, st) \in Int
             /\ val \in AnyVec
             /\ \A x : SetNet(st, p.of, x).nets[p.of] = x
  <2>1. p.of \in Nets
    BY <1>3 DEF Target
  <2>2. m \in Nat \ {0} /\ u \in Vec(m) /\ v \in Vec(m)
    BY <2>1, StoreFacts
  <2>3. u.width = m /\ v.width = m
    BY <2>2, VecParts
  <2>4. \A x : SetNet(st, p.of, x).nets[p.of] = x
    BY <2>1, StoreFacts DEF SetNet
  <2>5. val \in AnyVec
    BY TargetWidth DEF AnyVec
  <2>6. p.lo \in Nat /\ p.w \in Nat /\ Index(p, st) \in Nat /\ PartLow(p, st) \in Int
    BY IndexNat DEF Target, Selection
  <2> QED
    BY <2>1, <2>2, <2>3, <2>4, <2>5, <2>6
<1>4. CASE p.kind = "net"
  <2>1. p.kind # "mem" /\ val \in Vec(m) /\ Exists(p, st)
    BY <1>4 DEF lvalue_width, Exists
  <2>2. val.width = m
    BY <1>3, <2>1, VecParts
  <2>3. Put(p, val, st) = SetNet(st, p.of, val)
    BY <1>4, <2>2 DEF Put, WritePart, Fitted
  <2>4. v = val
    BY <1>3, <2>1, <2>3
  <2>5. Read(p, t) = val
    BY <1>4, <2>4 DEF Read
  <2>6. u.a \subseteq Bits(m) /\ u.b \subseteq Bits(m) /\ v.a \subseteq Bits(m) /\ v.b \subseteq Bits(m)
    BY <1>3, <2>1 DEF Vec
  <2>7. Rest(p, st, v) = Rest(p, st, u)
    BY <1>3, <1>4, <2>1, <2>6 DEF Rest
  <2> QED
    BY <2>1, <2>5, <2>7
\* The three kinds that write w bits from lo on.
<1> DEFINE Part(lo, w) ==
             /\ lo \in Nat /\ w \in Nat /\ val \in Vec(w)
             /\ v = insert_bits(u, lo, w, val)
<1>5. ASSUME p.kind # "mem", NEW lo, NEW w, Part(lo, w)
      PROVE  /\ lo + w <= m => Select(v, lo, w) = val
             /\ Beside(v, lo, w) = Beside(u, lo, w)
             /\ lo >= m => v = u
  <2>1. lo \in Nat /\ w \in Nat /\ val \in Vec(w) /\ v = insert_bits(u, lo, w, val)
    BY <1>5
  <2>2. m \in Nat /\ u \in Vec(m) /\ val \in AnyVec
    BY <1>3, <1>5
  <2> HIDE DEF u, v, m
  <2> QED
    BY <2>1, <2>2, InsertedPart
<1>6. CASE p.kind = "part"
  <2>1. p.kind # "mem" /\ val \in Vec(p.w) /\ Exists(p, st) /\ p.lo + p.w <= m
    BY <1>6 DEF lvalue_width, Exists, Target
  <2>2. Put(p, val, st) = SetNet(st, p.of, insert_bits(u, p.lo, p.w, val))
    BY <1>6 DEF Put, WritePart, WriteBits
  <2>3. Part(p.lo, p.w)
    BY <1>3, <2>1, <2>2
  <2>4. Read(p, t) = Select(v, p.lo, p.w)
    BY <1>6 DEF Read, ReadBits
  <2>5. Rest(p, st, v) = Rest(p, st, u)
    BY <1>5, <1>6, <2>1, <2>3 DEF Rest, Beside
  <2> QED
    BY <1>5, <2>1, <2>3, <2>4, <2>5
<1>7. CASE p.kind = "dynbit"
  <2> DEFINE i == Index(p, st)
  <2>1. p.kind # "mem" /\ val \in Vec(1) /\ i \in Nat /\ Index(p, t) = i
    BY <1>1, <1>3, <1>7 DEF lvalue_width
  <2>2. Exists(p, st) <=> i < m
    BY <1>7 DEF Exists
  <2>3. Put(p, val, st) = SetNet(st, p.of, insert_bits(u, i, 1, val))
    BY <1>7 DEF Put, WritePart, WriteBits
  <2>4. Part(i, 1)
    BY <1>3, <2>1, <2>3
  <2>5. Read(p, t) = Select(v, i, 1)
    BY <1>7, <2>1 DEF Read, ReadBits
  <2>6. i..(i + 1 - 1) = {i}
    BY <2>1
  <2>7. Rest(p, st, v) = Rest(p, st, u)
    BY <1>5, <1>7, <2>1, <2>4, <2>6 DEF Rest, Beside
  <2>8. (i < m <=> i + 1 <= m) /\ (~(i < m) <=> i >= m)
    BY <1>3, <2>1
  <2> QED
    BY <1>5, <2>1, <2>2, <2>4, <2>5, <2>7, <2>8
<1>8. CASE p.kind = "dynpart"
  <2> DEFINE lo == PartLow(p, st)
  <2>1. p.kind # "mem" /\ val \in Vec(p.w) /\ PartLow(p, t) = lo
    BY <1>1, <1>8 DEF lvalue_width
  <2>2. Exists(p, st) <=> Inside(p, st)
    BY <1>8 DEF Exists
  <2>3. CASE Inside(p, st)
    <3>1. lo \in Nat /\ lo + p.w <= m
      BY <1>3, <2>1, <2>3 DEF Inside
    <3>2. Put(p, val, st) = SetNet(st, p.of, insert_bits(u, lo, p.w, val))
      BY <1>8, <2>3 DEF Put, WritePart, WriteBits
    <3>3. Part(lo, p.w)
      BY <1>3, <2>1, <3>1, <3>2
    <3>4. Read(p, t) = Select(v, lo, p.w)
      BY <1>8, <2>1 DEF Read, ReadBits
    <3>5. Rest(p, st, v) = Rest(p, st, u)
      BY <1>5, <1>8, <2>1, <3>3 DEF Rest, Beside
    <3> QED
      BY <1>5, <2>1, <2>2, <2>3, <3>1, <3>3, <3>4, <3>5
  <2>4. CASE ~Inside(p, st)
    <3>1. Put(p, val, st) = st
      BY <1>8, <2>4 DEF Put, WritePart, WriteBits
    <3> QED
      BY <1>8, <2>2, <2>4, <3>1
  <2> QED
    BY <2>3, <2>4
<1> QED
  BY <1>2, <1>4, <1>6, <1>7, <1>8 DEF Target, Selection

-----------------------------------------------------------------------------
(* The parts of a target, one after the other *)

WrittenIs(a, full, st, h) ==
  h = [j \in 0..Len(LVal[a]) |->
         IF j = 0 THEN st ELSE Put(LVal[a][j], Slice(a, j, full), h[j - 1])]

Written(a, full, st) == CHOOSE h : WrittenIs(a, full, st, h)

LEMMA SliceFits ==
  ASSUME NEW a \in Assigns, NEW full \in Vec(TotalWidth(a)), NEW j \in 1..Len(LVal[a])
  PROVE  /\ Slice(a, j, full) \in Vec(lvalue_width(LVal[a][j]))
         /\ Fit(LVal[a][j], Slice(a, j, full))
<1> DEFINE p == LVal[a][j]
           w == lvalue_width(p)
<1>1. /\ Target(p) /\ w \in Nat \ {0}
      /\ j \in 0..Len(LVal[a]) /\ j - 1 \in 0..Len(LVal[a]) /\ 0 \in 0..Len(LVal[a])
  BY ListFacts
<1>2. /\ Offset(a, j) \in Nat /\ TotalWidth(a) \in Nat
      /\ Offset(a, j) + w <= TotalWidth(a)
  <2>1. Offset(a, j - 1) = Offset(a, j) + w
    BY OffsetFacts
  <2>2. Offset(a, j - 1) <= TotalWidth(a) /\ Offset(a, 0) \in Nat /\ Offset(a, j) \in Nat
    BY <1>1, OffsetFacts
  <2> QED
    BY <2>1, <2>2 DEF TotalWidth
<1>3. Slice(a, j, full) \in Vec(w)
  <2> HIDE DEF w
  <2>1. Select(full, Offset(a, j), w) \in Vec(w)
    BY <1>1, <1>2, SelectIs
  <2> QED
    BY <2>1 DEF Slice, w
<1>4. Slice(a, j, full) \in AnyVec
  BY <1>1, <1>3 DEF AnyVec
<1>5. p.kind = "mem" => w = ElemWidth[p.of]
  BY DEF lvalue_width
<1> QED
  BY <1>3, <1>4, <1>5 DEF Fit

LEMMA WrittenFacts ==
  ASSUME NEW a \in Assigns, NEW full \in Vec(TotalWidth(a)), NEW st \in Stores
  PROVE  /\ WriteParts(a, full, st) = Written(a, full, st)[Len(LVal[a])]
         /\ Written(a, full, st)[0] = st
         /\ \A j \in 0..Len(LVal[a]) : Written(a, full, st)[j] \in Stores
         /\ \A j \in 1..Len(LVal[a]) :
              Written(a, full, st)[j] =
                Put(LVal[a][j], Slice(a, j, full), Written(a, full, st)[j - 1])
<1> DEFINE n == Len(LVal[a])
           part(j, s) == Put(LVal[a][j], Slice(a, j, full), s)
           G == [p \in (1 .. n) \X Stores |-> part(p[1], p[2])]
           h == Written(a, full, st)
<1>1. n \in Nat /\ n >= 1
  BY ListFacts
<1>2. ASSUME NEW j \in 1 .. n, NEW s \in Stores
      PROVE  part(j, s) \in Stores
  <2>1. Target(LVal[a][j]) /\ Fit(LVal[a][j], Slice(a, j, full))
    BY ListFacts, SliceFits
  <2> QED
    BY <2>1, PartStored
<1> HIDE DEF part
<1>3. G \in [(1 .. n) \X Stores -> Stores]
  BY <1>2
<1>4. ASSUME NEW j \in 1 .. n, NEW s \in Stores
      PROVE  G[<<j, s>>] = part(j, s)
  OBVIOUS
<1> HIDE DEF G
<1>5. PICK f \in [0 .. n -> Stores] : AlongList(f, n, st, G)
  BY <1>1, <1>3, ListRecursion
<1>6. WrittenIs(a, full, st, f)
  <2>1. ASSUME NEW j \in 0 .. n
        PROVE  (IF j = 0 THEN st ELSE G[<<j, f[j - 1]>>]) = IF j = 0 THEN st ELSE part(j, f[j - 1])
    <3>1. CASE j # 0
      <4>1. j \in 1 .. n /\ j - 1 \in 0 .. n
        BY <1>1, <3>1
      <4>2. f[j - 1] \in Stores
        BY <4>1
      <4> QED
        BY <1>4, <4>1, <4>2
    <3> QED
      BY <3>1
  <2>2. f = [j \in 0 .. n |-> IF j = 0 THEN st ELSE part(j, f[j - 1])]
    BY <1>5, <2>1 DEF AlongList
  <2> QED
    BY <2>2 DEF WrittenIs, part, n
<1>7. WrittenIs(a, full, st, h)
  BY <1>6 DEF Written
<1>8. h = [j \in 0 .. n |-> IF j = 0 THEN st ELSE part(j, h[j - 1])]
  BY <1>7 DEF WrittenIs, part, n
<1>9. WriteParts(a, full, st) = h[n]
  BY DEF Put, WriteParts, Written, WrittenIs
<1> HIDE DEF h
<1> DEFINE S == {j \in 0 .. n : h[j] \in Stores}
<1>10. ASSUME NEW j \in 1 .. n
       PROVE  h[j] = part(j, h[j - 1]) /\ (j - 1 \in S => j \in S)
  <2>1. j \in 0 .. n /\ j # 0
    BY <1>1
  <2>2. h[j] = part(j, h[j - 1])
    BY <1>8, <2>1
  <2> QED
    BY <1>2, <2>1, <2>2
<1>11. 0 \in 0 .. n /\ h[0] = st
  BY <1>1, <1>8
<1>12. 0 .. n \subseteq S
  <2>1. 0 \in S
    BY <1>11
  <2> HIDE DEF S
  <2> QED
    BY <1>1, <1>10, <2>1, ListInduction
<1>13. /\ WriteParts(a, full, st) = h[n] /\ h[0] = st
       /\ \A j \in 0..n : h[j] \in Stores
       /\ \A j \in 1..n : h[j] = part(j, h[j - 1])
  BY <1>9, <1>10, <1>11, <1>12
<1> QED
  BY <1>13 DEF h, n, part

\* After j parts of targets that are apart, each of them holds what it would
\* hold if it had been written alone, and nothing else has changed.
PartsDone(a, full, st, j, s) ==
  /\ \A m \in Nets : (\A i \in 1..j : LVal[a][i].of # m) => s.nets[m] = st.nets[m]
  /\ \A i \in 1..j :
       LET p == LVal[a][i]
           v == Slice(a, i, full)
           key == <<p.of, Index(p, st)>>
       IN  /\ p.kind # "mem" => s.nets[p.of] = Put(p, v, st).nets[p.of]
           /\ p.kind = "mem" => key \in DOMAIN s.mems /\ s.mems[key] = v
  /\ \A key \in DOMAIN s.mems :
       \/ \E i \in 1..j : LVal[a][i].kind = "mem" /\ key = <<LVal[a][i].of, Index(LVal[a][i], st)>>
       \/ key \in DOMAIN st.mems /\ s.mems[key] = st.mems[key]

LEMMA NextPart ==
  ASSUME NEW a \in Separate, NEW full \in Vec(TotalWidth(a)), NEW st \in Stores,
         NEW j \in 1..Len(LVal[a]), NEW s \in Stores, PartsDone(a, full, st, j - 1, s),
         NEW t, t = Put(LVal[a][j], Slice(a, j, full), s)
  PROVE  PartsDone(a, full, st, j, t)
<1> DEFINE p == LVal[a][j]
           v == Slice(a, j, full)
           n == Len(LVal[a])
           key == <<p.of, Index(p, st)>>
<1>1. /\ a \in Assigns /\ n \in Nat /\ DOMAIN LVal[a] = 1..n
      /\ Target(p) /\ Fit(p, v)
      /\ \A i \in 1..n : Target(LVal[a][i])
  BY ListFacts, SliceFits DEF Separate
<1>2. /\ \A i \in 1..n : i # j => LVal[a][i].of # p.of
      /\ p.kind \notin {"net", "part"} => \A i \in 1..n : p.at # LVal[a][i].of
  BY <1>1 DEF Separate
<1>3. j \in 1..n /\ j - 1 \in Nat /\ \A i : i \in 1..j <=> i \in 1..(j - 1) \/ i = j
  BY <1>1
<1>4. \A i \in 1..(j - 1) : i \in 1..n /\ i # j
  BY <1>1
<1>5. Alike(p, s, st)
  <2>1. p.kind # "mem" => p.of \in Nets
    BY <1>1 DEF Target
  <2>2. p.at \in Nets
    BY <1>1, IndexNat
  <2> QED
    BY <1>2, <1>4, <2>1, <2>2 DEF Alike, PartsDone
<1>6. /\ p.kind = "mem" => Index(p, s) = Index(p, st)
      /\ p.kind # "mem" => t.nets[p.of] = Put(p, v, st).nets[p.of]
  BY <1>1, <1>5, PartAlike
<1>7. /\ t \in Stores
      /\ \A m \in Nets \ {p.of} : t.nets[m] = s.nets[m]
      /\ p.kind = "mem" => /\ t.nets = s.nets
                           /\ DOMAIN t.mems = DOMAIN s.mems \cup {key}
                           /\ t.mems[key] = v
                           /\ \A k \in DOMAIN s.mems \ {key} : t.mems[k] = s.mems[k]
      /\ p.kind # "mem" => t.mems = s.mems
  <2> DEFINE old == <<p.of, Index(p, s)>>
  <2>1. /\ t \in Stores
        /\ \A m \in Nets \ {p.of} : t.nets[m] = s.nets[m]
        /\ p.kind = "mem" => /\ t.nets = s.nets
                             /\ DOMAIN t.mems = DOMAIN s.mems \cup {old}
                             /\ t.mems[old] = v
                             /\ \A k \in DOMAIN s.mems \ {old} : t.mems[k] = s.mems[k]
        /\ p.kind # "mem" => t.mems = s.mems
    BY <1>1, PartStored
  <2>2. p.kind = "mem" => old = key
    BY <1>6
  <2> QED
    BY <2>1, <2>2
<1> DEFINE Done(i) ==
             LET q == LVal[a][i]
                 w == Slice(a, i, full)
                 k == <<q.of, Index(q, st)>>
             IN  /\ q.kind # "mem" => t.nets[q.of] = Put(q, w, st).nets[q.of]
                 /\ q.kind = "mem" => k \in DOMAIN t.mems /\ t.mems[k] = w
<1>8. ASSUME NEW m \in Nets, \A i \in 1..j : LVal[a][i].of # m
      PROVE  t.nets[m] = st.nets[m]
  BY <1>3, <1>7, <1>8 DEF PartsDone
<1>9. Done(j)
  BY <1>6, <1>7
<1>10. ASSUME NEW i \in 1..(j - 1)
       PROVE  Done(i)
  <2> DEFINE q == LVal[a][i]
             w == Slice(a, i, full)
             k == <<q.of, Index(q, st)>>
  <2>1. /\ q.kind # "mem" => s.nets[q.of] = Put(q, w, st).nets[q.of]
        /\ q.kind = "mem" => k \in DOMAIN s.mems /\ s.mems[k] = w
    BY DEF PartsDone
  <2>2. q.of # p.of /\ k # key /\ (q.kind # "mem" => q.of \in Nets)
    BY <1>1, <1>2, <1>4 DEF Target
  <2>3. q.kind # "mem" => t.nets[q.of] = s.nets[q.of]
    BY <1>7, <2>2
  <2>4. q.kind = "mem" => k \in DOMAIN t.mems /\ t.mems[k] = s.mems[k]
    BY <1>7, <2>1, <2>2
  <2> QED
    BY <2>1, <2>3, <2>4
<1>11. ASSUME NEW k \in DOMAIN t.mems
       PROVE  \/ \E i \in 1..j : LVal[a][i].kind = "mem" /\ k = <<LVal[a][i].of, Index(LVal[a][i], st)>>
              \/ k \in DOMAIN st.mems /\ t.mems[k] = st.mems[k]
  <2>1. CASE p.kind = "mem" /\ k = key
    BY <1>3, <2>1
  <2>2. CASE ~(p.kind = "mem" /\ k = key)
    <3>1. k \in DOMAIN s.mems /\ t.mems[k] = s.mems[k]
      BY <1>7, <2>2
    <3>2. \/ \E i \in 1..(j - 1) : LVal[a][i].kind = "mem" /\ k = <<LVal[a][i].of, Index(LVal[a][i], st)>>
          \/ k \in DOMAIN st.mems /\ s.mems[k] = st.mems[k]
      BY <3>1 DEF PartsDone
    <3> QED
      BY <1>3, <3>1, <3>2
  <2> QED
    BY <2>1, <2>2
<1>12. \A i \in 1..j : Done(i)
  BY <1>3, <1>9, <1>10
<1> QED
  BY <1>8, <1>11, <1>12 DEF PartsDone

LEMMA AllParts ==
  ASSUME NEW a \in Separate, NEW full \in Vec(TotalWidth(a)), NEW st \in Stores
  PROVE  /\ WriteParts(a, full, st) \in Stores
         /\ PartsDone(a, full, st, Len(LVal[a]), WriteParts(a, full, st))
<1> DEFINE n == Len(LVal[a])
           h == Written(a, full, st)
           S == {j \in 0..n : PartsDone(a, full, st, j, h[j])}
<1>1. a \in Assigns /\ n \in Nat
  BY ListFacts DEF Separate
<1>2. /\ WriteParts(a, full, st) = h[n] /\ h[0] = st
      /\ \A j \in 0..n : h[j] \in Stores
      /\ \A j \in 1..n : h[j] = Put(LVal[a][j], Slice(a, j, full), h[j - 1])
  BY <1>1, WrittenFacts
<1>3. 0 \in S
  <2>1. 1..0 = {}
    OBVIOUS
  <2>2. PartsDone(a, full, st, 0, st)
    BY <2>1 DEF PartsDone
  <2> QED
    BY <1>1, <1>2, <2>2
<1>4. ASSUME NEW j \in 1..n, j - 1 \in S
      PROVE  j \in S
  <2>1. j - 1 \in 0..n /\ j \in 0..n
    BY <1>1
  <2>2. /\ h[j - 1] \in Stores /\ PartsDone(a, full, st, j - 1, h[j - 1])
        /\ h[j] = Put(LVal[a][j], Slice(a, j, full), h[j - 1])
    BY <1>2, <1>4, <2>1
  <2> HIDE DEF h
  <2>3. PartsDone(a, full, st, j, h[j])
    BY <2>2, NextPart
  <2> QED
    BY <2>1, <2>3
<1>5. 0..n \subseteq S
  <2> HIDE DEF S
  <2> QED
    BY <1>1, <1>3, <1>4, ListInduction
<1>6. n \in 0..n
  BY <1>1
<1> QED
  BY <1>2, <1>5, <1>6

-----------------------------------------------------------------------------
(* The value that is divided among the parts *)

\* Single bits, parts and words get the value as it is: it must not be narrower
\* than its part when it is signed, and as wide as a word.
Suits(a, val) ==
  /\ val \in AnyVec
  /\ Len(LVal[a]) = 1 =>
       LET p == LVal[a][1]
       IN  /\ p.kind = "mem" => val.width = ElemWidth[p.of]
           /\ Signed[a] /\ p.kind # "net" => val.width >= lvalue_width(p)

FullValue(a, val) ==
  IF Signed[a] THEN extend_sign(val, TotalWidth(a)) ELSE resize(val, TotalWidth(a))

\* A target of one part is written like a concatenation of one.
LEMMA FullIsWritten ==
  ASSUME NEW a \in Assigns, NEW val, Suits(a, val), NEW st \in Stores
  PROVE  /\ FullValue(a, val) \in Vec(TotalWidth(a))
         /\ write_lvalue(a, val, st) = WriteParts(a, FullValue(a, val), st)
<1> DEFINE w == TotalWidth(a)
           full == FullValue(a, val)
           p == LVal[a][1]
<1>1. /\ w \in Nat /\ Len(LVal[a]) \in Nat /\ Len(LVal[a]) >= 1
      /\ 1 \in 1..Len(LVal[a]) /\ 0 \in 0..Len(LVal[a])
      /\ Target(p) /\ lvalue_width(p) \in Nat \ {0} /\ Signed[a] \in BOOLEAN
  <2>1. Len(LVal[a]) \in Nat /\ Len(LVal[a]) >= 1
    BY ListFacts
  <2>2. 1 \in 1..Len(LVal[a]) /\ 0 \in 0..Len(LVal[a])
    BY <2>1
  <2> QED
    BY <2>1, <2>2, ListFacts, OffsetFacts, SensitivityAssumption DEF TotalWidth
<1>2. /\ val.width \in Nat /\ val \in Vec(val.width)
      /\ \A m \in Nat : resize(val, m) \in Vec(m) /\ extend_sign(val, m) \in Vec(m)
  <2>1. val.width \in Nat /\ val \in Vec(val.width)
    BY AnyVecFacts DEF Suits
  <2>2. \A m \in Nat : resize(val, m) \in Vec(m) /\ extend_sign(val, m) \in Vec(m)
    BY ChunksAreVec DEF resize, extend_sign
  <2> QED
    BY <2>1, <2>2
<1>3. full \in Vec(w)
  BY <1>1, <1>2 DEF FullValue
<1>4. CASE Len(LVal[a]) # 1
  <2>1. write_lvalue(a, val, st) = WriteParts(a, full, st)
    BY <1>4, Zenon DEF write_lvalue, FullValue
  <2> QED
    BY <1>3, <2>1
<1>5. CASE Len(LVal[a]) = 1
  <2>1. w = lvalue_width(p) /\ Offset(a, 1) = 0
    <3>1. Offset(a, 1 - 1) = Offset(a, 1) + lvalue_width(LVal[a][1]) /\ Offset(a, 1) = 0
      BY <1>1, <1>5, OffsetFacts
    <3> QED
      BY <1>1, <3>1 DEF TotalWidth
  <2>2. Slice(a, 1, full) = full
    <3>1. Select(full, 0, w) = full
      BY <1>1, <1>3, SelectAll
    <3> QED
      BY <2>1, <3>1 DEF Slice
  <2>3. WriteParts(a, full, st) = Put(p, full, st)
    <3> DEFINE h == Written(a, full, st)
    <3>1. /\ WriteParts(a, full, st) = h[Len(LVal[a])] /\ h[0] = st
          /\ \A j \in 1..Len(LVal[a]) : h[j] = Put(LVal[a][j], Slice(a, j, full), h[j - 1])
      BY <1>3, WrittenFacts
    <3> HIDE DEF h
    <3>2. WriteParts(a, full, st) = h[1] /\ h[1] = Put(p, Slice(a, 1, full), h[1 - 1])
      BY <1>1, <1>5, <3>1
    <3> QED
      BY <2>2, <3>1, <3>2
  <2>4. write_lvalue(a, val, st) = WritePart(p, val, Signed[a], st)
    BY <1>5 DEF write_lvalue
  <2>5. full.width = w
    BY <1>1, <1>3, VecParts
  <2>6. val.width = w => resize(val, w) = val /\ extend_sign(val, w) = val
    <3>1. ASSUME val.width = w
          PROVE  resize(val, w) = val
      BY <1>1, <1>2, <3>1 DEF resize, from_chunks, Vec
    <3>2. val.width = w => extend_sign(val, w) = resize(val, w)
      BY <1>1 DEF extend_sign
    <3> QED
      BY <3>1, <3>2
  <2>7. CASE p.kind = "net"
    <3>1. Width[p.of] = w
      BY <2>1, <2>7 DEF lvalue_width
    <3>2. Fitted(val, w, Signed[a]) = full /\ Fitted(full, w, FALSE) = full
      BY <2>5, <2>6 DEF Fitted, FullValue
    <3>3. write_lvalue(a, val, st) = SetNet(st, p.of, full)
      BY <2>4, <2>7, <3>1, <3>2, Zenon DEF WritePart
    <3>4. Put(p, full, st) = SetNet(st, p.of, full)
      BY <2>7, <3>1, <3>2, Zenon DEF Put, WritePart
    <3> QED
      BY <1>3, <2>3, <3>3, <3>4
  <2>8. CASE p.kind = "mem"
    <3>1. val.width = w
      BY <1>5, <2>1, <2>8 DEF Suits, lvalue_width
    <3>2. full = val
      BY <2>6, <3>1 DEF FullValue
    <3>3. write_lvalue(a, val, st) = SetWord(st, <<p.of, Index(p, st)>>, val)
      BY <2>4, <2>8 DEF WritePart
    <3>4. Put(p, val, st) = SetWord(st, <<p.of, Index(p, st)>>, val)
      BY <2>8 DEF Put, WritePart
    <3> QED
      BY <1>3, <2>3, <3>2, <3>3, <3>4
  <2>9. CASE p.kind \in {"part", "dynbit", "dynpart"}
    <3>1. full = resize(val, w)
      <4>1. Signed[a] => w <= val.width
        BY <1>1, <1>2, <1>5, <2>1, <2>9 DEF Suits
      <4> QED
        BY <4>1 DEF FullValue, extend_sign
    <3>2. ASSUME NEW lo \in Nat
          PROVE  insert_bits(st.nets[p.of], lo, w, full) = insert_bits(st.nets[p.of], lo, w, val)
      <4>1. st.nets[p.of] \in Vec(Width[p.of]) /\ Width[p.of] \in Nat
        BY <1>1, <2>9, StoreFacts DEF Target
      <4> HIDE DEF w
      <4>2. insert_bits(st.nets[p.of], lo, w, resize(val, w)) = insert_bits(st.nets[p.of], lo, w, val)
        BY <1>1, <4>1, InsertCut
      <4> QED
        BY <3>1, <4>2
    <3>3. w = IF p.kind = "dynbit" THEN 1 ELSE p.w
      BY <2>1, <2>9 DEF lvalue_width
    <3>4. p.lo \in Nat /\ Index(p, st) \in Nat /\ PartLow(p, st) \in Int
      BY <1>1, IndexNat DEF Target, Selection
    <3>5. WriteBits(p, val, st) = WriteBits(p, full, st)
      <4>1. CASE p.kind = "part"
        BY <3>2, <3>3, <3>4, <4>1 DEF WriteBits
      <4>2. CASE p.kind = "dynbit"
        BY <3>2, <3>3, <3>4, <4>2 DEF WriteBits
      <4>3. CASE p.kind = "dynpart"
        <5>1. Inside(p, st) => PartLow(p, st) \in Nat
          BY <3>4 DEF Inside
        <5> QED
          BY <3>2, <3>3, <5>1, <4>3 DEF WriteBits
      <4> QED
        BY <2>9, <4>1, <4>2, <4>3
    <3>6. write_lvalue(a, val, st) = WriteBits(p, val, st)
      BY <2>4, <2>9 DEF WritePart
    <3>7. Put(p, full, st) = WriteBits(p, full, st)
      BY <2>9 DEF Put, WritePart
    <3> QED
      BY <1>3, <2>3, <3>5, <3>6, <3>7
  <2> QED
    BY <1>1, <2>7, <2>8, <2>9 DEF Target, Selection
<1> QED
  BY <1>3, <1>4, <1>5

-----------------------------------------------------------------------------
(* Reading back *)

JoinedIs(a, st, h) ==
  h = [j \in 1..Len(LVal[a]) |->
         IF j = 1 THEN Read(LVal[a][1], st) ELSE concat(h[j - 1], Read(LVal[a][j], st))]

\* The target read as a concatenation.
Joined(a, st) == CHOOSE h : JoinedIs(a, st, h)

LEMMA SlicesJoin ==
  ASSUME NEW a \in Assigns, NEW full \in Vec(TotalWidth(a)), NEW st,
         \A j \in 1..Len(LVal[a]) : Read(LVal[a][j], st) = Slice(a, j, full)
  PROVE  Joined(a, st)[Len(LVal[a])] = full
<1> DEFINE n == Len(LVal[a])
           T == TotalWidth(a)
           o(j) == Offset(a, j)
           w(j) == lvalue_width(LVal[a][j])
           r == [j \in 1..n |-> Select(full, o(j), T - o(j))]
           h == Joined(a, st)
<1>1. n \in Nat /\ n >= 1
  BY ListFacts
<1>2. /\ o(n) = 0 /\ o(0) = T /\ T \in Nat
      /\ \A j \in 0..n : o(j) \in Nat /\ o(j) <= T
      /\ \A j \in 1..n : o(j - 1) = o(j) + w(j) /\ w(j) \in Nat
  <2>1. \A j \in 1..n : w(j) \in Nat
    BY ListFacts
  <2>2. /\ o(n) = 0
        /\ \A j \in 0..n : o(j) \in Nat /\ o(j) <= T
        /\ \A j \in 1..n : o(j - 1) = o(j) + w(j)
    BY OffsetFacts
  <2>3. 0 \in 0..n /\ o(0) = T
    BY <1>1 DEF TotalWidth
  <2> QED
    BY <2>1, <2>2, <2>3
<1>3. \A j \in 1..n : Read(LVal[a][j], st) = Select(full, o(j), w(j))
  BY DEF Slice
<1> HIDE DEF o, w, T, n
<1>4. ASSUME NEW j \in 1..n, j # 1
      PROVE  concat(r[j - 1], Select(full, o(j), w(j))) = r[j]
  <2>1. j - 1 \in 1..n /\ j \in 0..n /\ j - 1 \in 0..n
    BY <1>1, <1>4
  <2>2. o(j) \in Nat /\ w(j) \in Nat /\ o(j - 1) = o(j) + w(j) /\ o(j - 1) <= T /\ T \in Nat
    BY <1>2, <2>1
  <2> DEFINE t == T - o(j - 1)
  <2>3. t \in Nat /\ o(j) + w(j) + t <= T /\ t + w(j) = T - o(j)
    BY <2>2
  <2>4. full \in Vec(T)
    BY DEF T
  <2>5. concat(Select(full, o(j) + w(j), t), Select(full, o(j), w(j))) = Select(full, o(j), t + w(j))
    <3> HIDE DEF t
    <3> QED
      BY <2>2, <2>3, <2>4, SelectJoin
  <2>6. r[j - 1] = Select(full, o(j) + w(j), t) /\ r[j] = Select(full, o(j), t + w(j))
    BY <2>1, <2>2, <2>3
  <2> QED
    BY <2>5, <2>6
<1>5. r[1] = Select(full, o(1), w(1)) /\ 1 \in 1..n
  <2>1. 1 \in 1..n /\ 1 - 1 = 0
    BY <1>1
  <2>2. o(0) = o(1) + w(1) /\ w(1) \in Nat /\ o(1) \in Nat
    <3>1. o(1 - 1) = o(1) + w(1) /\ w(1) \in Nat
      BY <1>2, <2>1
    <3>2. 1 \in 0..n
      BY <1>1
    <3> QED
      BY <1>2, <2>1, <3>1, <3>2
  <2>3. T - o(1) = w(1)
    BY <1>2, <2>2
  <2> QED
    BY <2>1, <2>3
<1>6. JoinedIs(a, st, r)
  <2>1. ASSUME NEW j \in 1..n
        PROVE  r[j] = IF j = 1 THEN Read(LVal[a][1], st) ELSE concat(r[j - 1], Read(LVal[a][j], st))
    BY <1>3, <1>4, <1>5
  <2>2. r = [j \in 1..n |-> r[j]]
    OBVIOUS
  <2> HIDE DEF r
  <2>3. r = [j \in 1..n |->
               IF j = 1 THEN Read(LVal[a][1], st) ELSE concat(r[j - 1], Read(LVal[a][j], st))]
    BY <2>1, <2>2
  <2> QED
    BY <2>3 DEF JoinedIs, n
<1>7. JoinedIs(a, st, h)
  BY <1>6 DEF Joined
<1> HIDE DEF h, r
<1>8. ASSUME NEW j \in 1..n
      PROVE  /\ h[j] = IF j = 1 THEN Read(LVal[a][1], st) ELSE concat(h[j - 1], Read(LVal[a][j], st))
             /\ r[j] = IF j = 1 THEN Read(LVal[a][1], st) ELSE concat(r[j - 1], Read(LVal[a][j], st))
  BY <1>6, <1>7 DEF JoinedIs, n
<1> DEFINE S == {j \in 0..n : j = 0 \/ h[j] = r[j]}
<1>9. 0 \in S
  BY <1>1
<1>10. ASSUME NEW j \in 1..n, j - 1 \in S
       PROVE  j \in S
  <2>1. j \in 0..n /\ (j - 1 = 0 => j = 1)
    BY <1>1
  <2>2. h[j] = r[j]
    BY <1>8, <1>10, <2>1
  <2> QED
    BY <2>1, <2>2
<1>11. 0..n \subseteq S
  <2> HIDE DEF S
  <2> QED
    BY <1>1, <1>9, <1>10, ListInduction
<1>12. n \in 0..n /\ n # 0 /\ n \in 1..n
  BY <1>1
<1>13. h[n] = r[n]
  BY <1>11, <1>12
<1>14. r[n] = full
  <2>1. r[n] = Select(full, o(n), T - o(n))
    BY <1>12 DEF r
  <2>2. T - o(n) = T
    BY <1>2
  <2>3. full \in Vec(T)
    BY DEF T
  <2> QED
    BY <1>2, <2>1, <2>2, <2>3, SelectAll
<1> QED
  BY <1>13, <1>14 DEF h, n

\* Widths of expressions.
ExprWidth(p) == IF p.kind = "const" THEN p.val.width ELSE lvalue_width(p)

RhsWidth(a) ==
  IF Len(Rhs[a]) = 1 THEN ExprWidth(Rhs[a][1]) ELSE ExprWidth(Rhs[a][1]) + ExprWidth(Rhs[a][2])

\* What is written to a word is as wide as the memory, and what is written to a
\* bit or a part, when it is signed, not narrower than that.
ValuesFit ==
  \A a \in Assigns : Len(LVal[a]) = 1 =>
    LET p == LVal[a][1]
    IN  /\ p.kind = "mem" => RhsWidth(a) = ElemWidth[p.of]
        /\ Signed[a] /\ p.kind # "net" => RhsWidth(a) >= lvalue_width(p)

LEMMA ReadWidth ==
  ASSUME NEW st \in Stores, NEW p, Operand(p)
  PROVE  ExprWidth(p) \in Nat /\ Read(p, st) \in Vec(ExprWidth(p))
<1>1. CASE p.kind = "const"
  BY <1>1 DEF Operand, Read, ExprWidth
<1>2. CASE p.kind # "const"
  <2>1. Target(p) /\ ExprWidth(p) = lvalue_width(p) /\ lvalue_width(p) \in Nat
    BY <1>2, TargetWidth DEF Operand, ExprWidth
  <2>2. CASE p.kind = "net"
    <3>1. st.nets[p.of] \in Vec(Width[p.of])
      BY <2>1, <2>2, StoreFacts DEF Target
    <3> QED
      BY <2>1, <2>2, <3>1 DEF Read, lvalue_width
  <2>3. CASE p.kind = "mem"
    <3> DEFINE key == <<p.of, Index(p, st)>>
    <3>1. p.of \in Mems /\ ElemWidth[p.of] \in Nat
      BY <2>1, <2>3, SensitivityAssumption DEF Target
    <3>2. key \in DOMAIN st.mems => st.mems[key] \in Vec(ElemWidth[p.of])
      <4>1. key[1] = p.of
        OBVIOUS
      <4>2. \A k \in DOMAIN st.mems : st.mems[k] \in Vec(ElemWidth[k[1]])
        BY StoreFacts
      <4> HIDE DEF key
      <4> QED
        BY <4>1, <4>2
    <3>3. all_bits(ElemWidth[p.of], FALSE) \in Vec(ElemWidth[p.of])
      BY <3>1 DEF all_bits, Vec
    <3>4. Word(p, st) \in Vec(ElemWidth[p.of])
      BY <3>2, <3>3 DEF Word
    <3> QED
      BY <2>1, <2>3, <3>4 DEF Read, lvalue_width
  <2>4. CASE p.kind \in {"part", "dynbit", "dynpart"}
    <3>1. \A m \in Nat : \A u, lo : Select(u, lo, m) \in Vec(m)
      BY ChunksAreVec DEF Select
    <3>2. ReadBits(p, st.nets[p.of], st) \in Vec(lvalue_width(p))
      <4>1. p.w \in Nat /\ 1 \in Nat
        BY <2>1 DEF Target, Selection
      <4> QED
        BY <2>4, <3>1, <4>1 DEF ReadBits, lvalue_width
    <3> QED
      BY <2>1, <2>4, <3>2 DEF Read
  <2> QED
    BY <2>1, <2>2, <2>3, <2>4 DEF Target, Selection
<1> QED
  BY <1>1, <1>2

\* An expression has its width in every state, so that its value suits its target.
LEMMA ValueSuits ==
  ASSUME ValuesFit, NEW a \in Assigns, NEW st \in Stores
  PROVE  Suits(a, Value(a, st))
<1>1. /\ Len(Rhs[a]) \in {1, 2}
      /\ \A j \in 1..Len(Rhs[a]) : Operand(Rhs[a][j])
  BY SensitivityAssumption
<1>2. ExprWidth(Rhs[a][1]) \in Nat /\ Read(Rhs[a][1], st) \in Vec(ExprWidth(Rhs[a][1]))
  BY <1>1, ReadWidth
<1>3. RhsWidth(a) \in Nat /\ Value(a, st) \in Vec(RhsWidth(a))
  <2>1. CASE Len(Rhs[a]) = 1
    BY <1>2, <2>1 DEF Value, RhsWidth
  <2>2. CASE Len(Rhs[a]) = 2
    <3> DEFINE x == Read(Rhs[a][1], st)
               y == Read(Rhs[a][2], st)
               k == ExprWidth(Rhs[a][1])
               m == ExprWidth(Rhs[a][2])
    <3>1. m \in Nat /\ y \in Vec(m)
      BY <1>1, <2>2, ReadWidth
    <3>2. k \in Nat /\ x.width = k /\ y.width = m /\ k + m \in Nat
      BY <1>2, <3>1, VecParts
    <3>3. \A S, R : from_chunks(k + m, S, R) \in Vec(k + m)
      BY <3>2, ChunksAreVec
    <3>4. concat(x, y) \in Vec(k + m)
      <4> HIDE DEF x, y, k, m
      <4> QED
        BY <3>2, <3>3, Zenon DEF concat
    <3>5. Value(a, st) = concat(x, y) /\ RhsWidth(a) = k + m
      BY <2>2 DEF Value, RhsWidth
    <3> HIDE DEF x, y, k, m
    <3> QED
      BY <3>2, <3>4, <3>5
  <2> QED
    BY <1>1, <2>1, <2>2
<1>4. Value(a, st) \in AnyVec /\ Value(a, st).width = RhsWidth(a)
  BY <1>3, VecParts DEF AnyVec
<1> QED
  BY <1>4 DEF ValuesFit, Suits

\* Whatever is in the nets and words, the next assignment reads back.
LEMMA StoresReadBack ==
  ASSUME ValuesFit, Values \in Stores
  PROVE  ReadsBack
<1> SUFFICES ASSUME NEW a \in Separate
             PROVE  LET st == write_lvalue(a, Value(a, Values), Values)
                        targets == Range(LVal[a])
                    IN  /\ (\A p \in targets : Exists(p, Values)) =>
                             Joined(a, st)[Len(LVal[a])] = FullValue(a, Value(a, Values))
                        /\ \A p \in targets : p.kind # "mem" =>
                             IF Exists(p, Values)
                             THEN Rest(p, Values, st.nets[p.of]) = Rest(p, Values, net_values[p.of])
                             ELSE st.nets[p.of] = net_values[p.of]
                        /\ \A n \in Nets \ {p.of : p \in targets} : st.nets[n] = net_values[n]
                        /\ \A key \in DOMAIN st.mems :
                             \/ \E p \in targets : p.kind = "mem" /\ key = <<p.of, Index(p, Values)>>
                             \/ WordAt(key, st.mems) = WordAt(key, mem_values)
  BY DEF ReadsBack, Joined, JoinedIs, FullValue
<1> DEFINE n == Len(LVal[a])
           val == Value(a, Values)
           full == FullValue(a, val)
           st == write_lvalue(a, val, Values)
           p(j) == LVal[a][j]
<1>1. /\ a \in Assigns /\ n \in Nat /\ DOMAIN LVal[a] = 1..n /\ Range(LVal[a]) = {p(j) : j \in 1..n}
      /\ \A j \in 1..n : Target(p(j))
  BY ListFacts DEF Separate, Range
<1>2. full \in Vec(TotalWidth(a)) /\ st = WriteParts(a, full, Values)
  BY <1>1, ValueSuits, FullIsWritten
<1>3. st \in Stores /\ PartsDone(a, full, Values, n, st)
  <2> HIDE DEF full, st
  <2> QED
    BY <1>2, AllParts
<1>4. Values.nets = net_values /\ Values.mems = mem_values
  BY DEF Values
<1> HIDE DEF val, full, st
<1>5. ASSUME NEW j \in 1..n
      PROVE  /\ Exists(p(j), Values) => Read(p(j), st) = Slice(a, j, full)
             /\ p(j).kind # "mem" =>
                  IF Exists(p(j), Values)
                  THEN Rest(p(j), Values, st.nets[p(j).of]) = Rest(p(j), Values, Values.nets[p(j).of])
                  ELSE st.nets[p(j).of] = Values.nets[p(j).of]
  <2> DEFINE q == p(j)
             v == Slice(a, j, full)
  <2>1. Target(q) /\ v \in Vec(lvalue_width(q)) /\ q.at \in Nets
    BY <1>1, <1>2, SliceFits, IndexNat
  <2>2. q.kind \notin {"net", "part"} => st.nets[q.at] = Values.nets[q.at]
    <3>1. q.kind \notin {"net", "part"} => \A i \in 1..n : q.at # LVal[a][i].of
      BY <1>1 DEF Separate
    <3> QED
      BY <1>3, <2>1, <3>1 DEF PartsDone
  <2>3. /\ q.kind # "mem" => st.nets[q.of] = Put(q, v, Values).nets[q.of]
        /\ q.kind = "mem" => /\ <<q.of, Index(q, Values)>> \in DOMAIN st.mems
                             /\ st.mems[<<q.of, Index(q, Values)>>] = v
    BY <1>3 DEF PartsDone
  <2> HIDE DEF q, v
  <2>4. /\ Exists(q, Values) => Read(q, st) = v
        /\ q.kind # "mem" =>
              IF Exists(q, Values) THEN Rest(q, Values, st.nets[q.of]) = Rest(q, Values, Values.nets[q.of])
                               ELSE st.nets[q.of] = Values.nets[q.of]
    BY <1>3, <2>1, <2>2, <2>3, PartRead
  <2> QED
    BY <2>4 DEF q, v
<1>6. (\A x \in Range(LVal[a]) : Exists(x, Values)) => Joined(a, st)[n] = full
  <2> SUFFICES ASSUME \A x \in Range(LVal[a]) : Exists(x, Values)
               PROVE  Joined(a, st)[n] = full
    OBVIOUS
  <2>1. \A j \in 1..n : Read(LVal[a][j], st) = Slice(a, j, full)
    BY <1>1, <1>5
  <2> QED
    BY <1>1, <1>2, <2>1, SlicesJoin
<1>7. ASSUME NEW x \in Range(LVal[a]), x.kind # "mem"
      PROVE  IF Exists(x, Values)
             THEN Rest(x, Values, st.nets[x.of]) = Rest(x, Values, net_values[x.of])
             ELSE st.nets[x.of] = net_values[x.of]
  <2>1. PICK j \in 1..n : x = p(j)
    BY <1>1
  <2> QED
    BY <1>4, <1>5, <1>7, <2>1
<1>8. ASSUME NEW m \in Nets \ {x.of : x \in Range(LVal[a])}
      PROVE  st.nets[m] = net_values[m]
  <2>1. \A j \in 1..n : LVal[a][j].of # m
    BY <1>1
  <2> QED
    BY <1>3, <1>4, <2>1 DEF PartsDone
<1>9. ASSUME NEW key \in DOMAIN st.mems
      PROVE  \/ \E x \in Range(LVal[a]) : x.kind = "mem" /\ key = <<x.of, Index(x, Values)>>
             \/ WordAt(key, st.mems) = WordAt(key, mem_values)
  <2>1. \/ \E j \in 1..n : LVal[a][j].kind = "mem" /\ key = <<LVal[a][j].of, Index(LVal[a][j], Values)>>
        \/ key \in DOMAIN mem_values /\ st.mems[key] = mem_values[key]
    BY <1>3, <1>4 DEF PartsDone
  <2> QED
    BY <1>1, <2>1 DEF WordAt
<1> QED
  BY <1>6, <1>7, <1>8, <1>9 DEF st, full, val, n

-----------------------------------------------------------------------------
(* Every state *)

SuitEntry == {e \in [assign : Assigns, val : AnyVec] : Suits(e.assign, e.val)}

\* The inductive invariant: nets and words have their widths, and the values of
\* the NBA queue suit their targets.
StoreInv ==
  /\ Values \in Stores
  /\ nba_queue \in Seq(SuitEntry)
  /\ nba \in Seq(SuitEntry)

LEMMA AssignStores ==
  ASSUME Values \in Stores, NEW a \in Assigns, NEW val, Suits(a, val), Assign(a, val)
  PROVE  Values' \in Stores
<1> DEFINE full == FullValue(a, val)
           n == Len(LVal[a])
           st == write_lvalue(a, val, Values)
<1>1. full \in Vec(TotalWidth(a)) /\ st = WriteParts(a, full, Values)
  BY FullIsWritten
<1> HIDE DEF full
<1>2. st \in Stores
  <2>1. n \in 0..n
    BY ListFacts
  <2>2. WriteParts(a, full, Values) \in Stores
    BY <1>1, <2>1, WrittenFacts
  <2> QED
    BY <1>1, <2>2
<1>3. net_values' = st.nets /\ mem_values' = st.mems
  BY Zenon DEF Assign
<1> HIDE DEF st
<1>4. Values' = [nets |-> st.nets, mems |-> st.mems]
  BY <1>3 DEF Values
<1> QED
  BY <1>2, <1>4, StoreFacts

LEMMA StoreStep ==
  ASSUME ValuesFit, StoreInv, [Next]_vars
  PROVE  StoreInv'
<1>1. CASE \E a \in Assigns : Blocking(a)
  <2>1. PICK a \in Assigns : Blocking(a)
    BY <1>1
  <2>2. Suits(a, Value(a, Values))
    BY ValueSuits DEF StoreInv
  <2>3. Assign(a, Value(a, Values)) /\ UNCHANGED <<nba_queue, nba>>
    BY <2>1 DEF Blocking
  <2>4. Values' \in Stores
    BY <2>2, <2>3, AssignStores DEF StoreInv
  <2> QED
    BY <2>3, <2>4 DEF StoreInv
<1>2. CASE \E a \in Assigns : Nonblocking(a)
  <2>1. PICK a \in Assigns : Nonblocking(a)
    BY <1>2
  <2> DEFINE e == [assign |-> a, val |-> Value(a, Values)]
  <2>2. Suits(a, Value(a, Values))
    BY ValueSuits DEF StoreInv
  <2>3. e \in SuitEntry
    BY <2>2 DEF SuitEntry, Suits
  <2>4. nba_queue' = Append(nba_queue, e) /\ UNCHANGED <<net_values, mem_values, nba>>
    BY <2>1 DEF Nonblocking
  <2> HIDE DEF e
  <2>5. nba_queue' \in Seq(SuitEntry)
    BY <2>3, <2>4 DEF StoreInv
  <2> QED
    BY <2>4, <2>5 DEF StoreInv, Values
<1>3. CASE \E proc \in Procs : \E sens \in Waits : Wait(proc, sens)
  BY <1>3 DEF Wait, StoreInv, Values
<1>4. CASE BeginNba
  BY <1>4 DEF BeginNba, StoreInv, Values
<1>5. CASE ApplyNba
  <2>1. nba \in Seq(SuitEntry) /\ nba # <<>>
    BY <1>5 DEF ApplyNba, StoreInv
  <2>2. PICK e \in SuitEntry : e = Head(nba)
    BY <2>1
  <2>3. e.assign \in Assigns /\ Suits(e.assign, e.val)
    BY DEF SuitEntry
  <2>4. Assign(e.assign, e.val) /\ nba' = Tail(nba) /\ UNCHANGED nba_queue
    BY <1>5, <2>2 DEF ApplyNba
  <2>5. Values' \in Stores
    BY <2>3, <2>4, AssignStores DEF StoreInv
  <2>6. nba' \in Seq(SuitEntry)
    BY <2>1, <2>4
  <2> QED
    BY <2>4, <2>5, <2>6 DEF StoreInv
<1>6. CASE EvalConts
  BY <1>6 DEF EvalConts, StoreInv, Values
<1>7. CASE UNCHANGED vars
  BY <1>7 DEF vars, StoreInv, Values
<1> QED
  BY <1>1, <1>2, <1>3, <1>4, <1>5, <1>6, <1>7 DEF Next

LEMMA StoreInit == Init => StoreInv
<1> SUFFICES ASSUME Init
             PROVE  StoreInv
  OBVIOUS
<1>1. net_values \in NetVals
  <2>1. \A n \in Nets : Width[n] \in Nat
    BY SensitivityAssumption
  <2>2. \A n \in Nets : x_of_width(Width[n]) \in Vec(Width[n]) /\ x_of_width(Width[n]) \in AnyVec
    BY <2>1, ChunksAreVec
  <2> QED
    BY <2>2 DEF Init, NetVals
<1>2. mem_values \in MemVals
  <2>1. mem_values = <<>> /\ DOMAIN mem_values = {}
    BY DEF Init
  <2>2. mem_values \in [{} -> AnyVec]
    BY <2>1
  <2>3. {} \in SUBSET (Mems \X Nat)
    OBVIOUS
  <2> QED
    BY <2>1, <2>2, <2>3 DEF MemVals
<1>3. nba_queue = <<>> /\ nba = <<>>
  BY DEF Init
<1> QED
  BY <1>1, <1>2, <1>3 DEF StoreInv, Values, Stores

\* ReadsBack for every design whose values suit their targets: nets, bits, parts,
\* indexed parts, words and concatenations of any length, for every index, the
\* ones that are unknown or outside included.  About write_lvalue, write_bits,
\* indexed_part_select_bounds and the selects of eval_expr.
THEOREM WritesReadBack == ValuesFit => (Spec => []ReadsBack)
<1>1. SUFFICES ASSUME ValuesFit PROVE Spec => []ReadsBack
  OBVIOUS
<1>2. StoreInv /\ [Next]_vars => StoreInv'
  BY <1>1, StoreStep
<1>3. StoreInv => ReadsBack
  BY <1>1, StoresReadBack DEF StoreInv
<1> QED
  BY <1>2, <1>3, StoreInit, PTL DEF Spec
=============================================================================
