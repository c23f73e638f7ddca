----------------------------- MODULE Sensitivity -----------------------------
(***************************************************************************)
(* Writes of processes and the events they cause: write_lvalue,             *)
(* trigger_sensitivity and the NBA queue of crates/sim/src/interp.rs.        *)
(*                                                                         *)
(* An assignment writes a net, a part of a net, a bit or a part at an index  *)
(* that is evaluated with the write, a word of a memory, or a concatenation   *)
(* of these.  What is woken is decided from the old value of the target and   *)
(* the value of the expression, before that is cut to the target.            *)
(*                                                                         *)
(* Any thread that is not waiting may execute any assignment of the design    *)
(* (module Scheduler says which of them runs); an expression is a constant,   *)
(* a net, a select, a word or a concatenation of two of these.  The queued    *)
(* continuous assignments are evaluated in module ContAssign.                *)
(***************************************************************************)
EXTENDS LogicVec, Sequences

CONSTANTS
  Nets,      \* variables (reg), which are X at first
  Width,     \* [Nets -> widths]
  Mems,
  ElemWidth, \* [Mems -> widths]
  Assigns,   \* the assignments
  LVal,      \* [Assigns -> sequences of selections, MSB first]
  Rhs,       \* [Assigns -> one or two operands, MSB first]
  Signed,    \* [Assigns -> BOOLEAN]
  Deferred,  \* the assignments that are also used as nonblocking ones
  Procs,     \* the threads that wait for events
  Waits,     \* the sensitivities [all, items] that they wait for
  Conts,     \* the continuous assignments
  Reads,     \* [Conts -> the nets and memories of the expression]
  MaxNba     \* bound on the length of the NBA queue

\* A selection: the net or memory `of`, from bit lo on, w bits; `at` is the net
\* that holds the index of a dynamic one, `plus` the direction of a part.
Selection ==
  [kind : {"net", "part", "dynbit", "dynpart", "mem"}, of : Nets \cup Mems,
   lo : Nat, w : Nat \ {0}, at : Nets, plus : BOOLEAN]

\* A target is a selection, an operand a selection or a constant.  A constant
\* part lies in its net.
Target(p) ==
  /\ p \in Selection
  /\ p.of \in (IF p.kind = "mem" THEN Mems ELSE Nets)
  /\ p.kind = "part" => p.lo + p.w <= Width[p.of]

Operand(p) ==
  IF p.kind = "const" THEN p.val.width \in Nat /\ p.val \in Vec(p.val.width)
                      ELSE Target(p)

ASSUME SensitivityAssumption ==
  /\ Width \in [Nets -> Nat \ {0}]
  /\ ElemWidth \in [Mems -> Nat \ {0}]
  /\ Nets \cap Mems = {}
  /\ \A a \in Assigns :
       /\ LVal[a] \in Seq(Selection)
       /\ Len(LVal[a]) >= 1 /\ \A j \in 1..Len(LVal[a]) : Target(LVal[a][j])
       /\ Len(Rhs[a]) \in {1, 2} /\ \A j \in 1..Len(Rhs[a]) : Operand(Rhs[a][j])
  /\ Signed \in [Assigns -> BOOLEAN]
  /\ Deferred \subseteq Assigns
  /\ \A sens \in Waits : \A item \in sens.items : item.net \in Nets
  /\ Reads \in [Conts -> SUBSET (Nets \cup Mems)]
  /\ MaxNba \in Nat

VARIABLES
  net_values,    \* [Nets -> vectors]
  mem_values,    \* [<<memory, index>> that have been written -> vectors]
  event_waiters, \* records [proc, all, items]
  nba_queue,     \* sequence of [assign, val]
  nba,           \* what is left of the queue that is being applied
  cont_dirty     \* the continuous assignments to evaluate

vars == <<net_values, mem_values, event_waiters, nba_queue, nba, cont_dirty>>

Values == [nets |-> net_values, mems |-> mem_values]

-----------------------------------------------------------------------------
(* Selections *)

\* pad_to_width(32) of an index: the a plane, so that X counts as 1.
Num(u) ==
  LET high[k \in 0..u.width] ==
        IF k = u.width THEN 0 ELSE 2 * high[k + 1] + (IF k \in u.a THEN 1 ELSE 0)
  IN  high[0]

Index(p, st) == Num(st.nets[p.at])

\* indexed_part_select_bounds: the low bit, negative when there is none.
PartLow(p, st) ==
  IF p.plus THEN Index(p, st) ELSE Index(p, st) - p.w + 1

\* lvalue_width
lvalue_width(p) ==
  CASE p.kind = "net" -> Width[p.of] [] p.kind = "mem" -> ElemWidth[p.of]
    [] p.kind = "dynbit" -> 1 [] OTHER -> p.w

\* Deviant: the part may begin at the last bit and end outside.
DeviantInside(p, st) ==
  PartLow(p, st) >= 0 /\ PartLow(p, st) + p.w <= Width[p.of] + 1

\* The bits of an indexed part are bits of the net.
Inside(p, st) ==
  PartLow(p, st) >= 0 /\ PartLow(p, st) + p.w <= Width[p.of]

\* A word that has not been written is 0.
Word(p, st) ==
  LET key == <<p.of, Index(p, st)>>
  IN  IF key \in DOMAIN st.mems THEN st.mems[key]
      ELSE all_bits(ElemWidth[p.of], FALSE)

\* part_select and bit_select: X when the bits are not all in the vector.
Select(u, lo, w) ==
  IF lo >= 0 /\ lo + w <= u.width THEN from_chunks(w, Down(u.a, lo), Down(u.b, lo))
  ELSE x_of_width(w)

ReadBits(p, u, st) ==
  IF p.kind = "part" THEN Select(u, p.lo, p.w)
  ELSE IF p.kind = "dynbit" THEN Select(u, Index(p, st), 1)
  ELSE Select(u, PartLow(p, st), p.w)

\* eval_expr of a constant or a selection.
Read(p, st) ==
  IF p.kind = "const" THEN p.val
  ELSE IF p.kind = "net" THEN st.nets[p.of]
  ELSE IF p.kind = "mem" THEN Word(p, st)
  ELSE ReadBits(p, st.nets[p.of], st)

\* The value of an assignment's expression.
Value(a, st) ==
  IF Len(Rhs[a]) = 1 THEN Read(Rhs[a][1], st)
  ELSE concat(Read(Rhs[a][1], st), Read(Rhs[a][2], st))

-----------------------------------------------------------------------------
(* write_lvalue *)

Fitted(val, w, signed) ==
  IF val.width = w THEN val
  ELSE IF signed THEN extend_sign(val, w) ELSE resize(val, w)

SetNet(st, n, val) == [nets |-> [st.nets EXCEPT ![n] = val], mems |-> st.mems]

SetWord(st, key, val) ==
  [nets |-> st.nets,
   mems |-> [k \in DOMAIN st.mems \cup {key} |-> IF k = key THEN val ELSE st.mems[k]]]

\* write_bits; an indexed part that is not in the net is not written.
WriteBits(p, val, st) ==
  LET bits(lo, w) == SetNet(st, p.of, insert_bits(st.nets[p.of], lo, w, val))
  IN  CASE p.kind = "part" -> bits(p.lo, p.w)
        [] p.kind = "dynbit" -> bits(Index(p, st), 1)
        [] p.kind = "dynpart" ->
             IF Inside(p, st) THEN bits(PartLow(p, st), p.w) ELSE st

\* A net takes the value cut or extended, a word as it is.
WritePart(p, val, signed, st) ==
  IF p.kind = "net" THEN SetNet(st, p.of, Fitted(val, Width[p.of], signed))
  ELSE IF p.kind = "mem" THEN SetWord(st, <<p.of, Index(p, st)>>, val)
  ELSE WriteBits(p, val, st)

\* The bits below part j of a concatenation.
Offset(a, j) ==
  LET below[k \in 0..Len(LVal[a])] ==
        IF k = Len(LVal[a]) THEN 0 ELSE below[k + 1] + lvalue_width(LVal[a][k + 1])
  IN  below[j]

TotalWidth(a) == Offset(a, 0)

\* The bits of a vector of the total width that belong to part j.
Slice(a, j, full) ==
  Select(full, Offset(a, j), lvalue_width(LVal[a][j]))

\* Parts are written from the left; an index sees what has been written.
WriteParts(a, full, st) ==
  LET written[j \in 0..Len(LVal[a])] ==
        IF j = 0 THEN st
        ELSE WritePart(LVal[a][j], Slice(a, j, full), FALSE, written[j - 1])
  IN  written[Len(LVal[a])]

write_lvalue(a, val, st) ==
  IF Len(LVal[a]) = 1 THEN WritePart(LVal[a][1], val, Signed[a], st)
  ELSE WriteParts(a, IF Signed[a] THEN extend_sign(val, TotalWidth(a))
                                  ELSE resize(val, TotalWidth(a)), st)

-----------------------------------------------------------------------------
(* trigger_sensitivity *)

\* A word that has not been written counts as X, in a concatenation.
OldWord(p, st) ==
  LET key == <<p.of, Index(p, st)>>
  IN  IF key \in DOMAIN st.mems THEN st.mems[key] ELSE x_of_width(ElemWidth[p.of])

\* get_lval_val: a part of a net counts with the whole net.
OldValue(p, st) == IF p.kind = "mem" THEN OldWord(p, st) ELSE st.nets[p.of]

OldParts(a, st) ==
  LET joined[j \in 1..Len(LVal[a])] ==
        IF j = 1 THEN OldValue(LVal[a][1], st)
        ELSE concat(joined[j - 1], OldValue(LVal[a][j], st))
  IN  joined[Len(LVal[a])]

get_lval_val(a, st) ==
  IF Len(LVal[a]) = 1 THEN OldValue(LVal[a][1], st) ELSE OldParts(a, st)

\* Bit 0, with Z taken for X.
edge_bits(u) == IF 0 \in u.b THEN "x" ELSE IF 0 \in u.a THEN "1" ELSE "0"

\* Deviant: X counts as 1, its a bit.
DeviantPosedge(old, new) == 0 \notin old.a /\ 0 \in new.a

Posedge(old, new) ==
  \/ edge_bits(old) = "0" /\ edge_bits(new) # "0"
  \/ edge_bits(old) = "x" /\ edge_bits(new) = "1"

\* Deviant: from X to X is an edge.
DeviantNegedge(old, new) == edge_bits(old) # "0" /\ edge_bits(new) # "1"

Negedge(old, new) ==
  \/ edge_bits(old) = "1" /\ edge_bits(new) # "1"
  \/ edge_bits(old) = "x" /\ edge_bits(new) = "0"

\* A change is a different value or a different width.
Matches(item, p, old, new) ==
  /\ p.kind # "mem"
  /\ p.of = item.net
  /\ \/ item.edge = "any" /\ old # new
     \/ item.edge = "pos" /\ Posedge(old, new)
     \/ item.edge = "neg" /\ Negedge(old, new)

\* The value that part j of a is compared with.
Cut(a, j, val) ==
  IF Len(LVal[a]) = 1 THEN val ELSE Slice(a, j, resize(val, TotalWidth(a)))

\* A word that has not been written counts as changed.
Fresh(a, st) ==
  LET p == LVal[a][1]
  IN  Len(LVal[a]) = 1 /\ p.kind = "mem" /\ <<p.of, Index(p, st)>> \notin DOMAIN st.mems

Changed(a, j, val, st) ==
  Fresh(a, st) \/ Cut(a, j, get_lval_val(a, st)) # Cut(a, j, val)

Woken(a, val, st) ==
  {w \in event_waiters : \E j \in 1..Len(LVal[a]) :
     IF w.all THEN Changed(a, j, val, st)
     ELSE \E item \in w.items :
            Matches(item, LVal[a][j], Cut(a, j, get_lval_val(a, st)), Cut(a, j, val))}

Marked(a, val, st) ==
  {c \in Conts : \E j \in 1..Len(LVal[a]) :
     LVal[a][j].of \in Reads[c] /\ Changed(a, j, val, st)}

\* Assignment a writes val and wakes what waits for it.
Assign(a, val) ==
  LET st == write_lvalue(a, val, Values)
  IN  /\ net_values' = st.nets
      /\ mem_values' = st.mems
      /\ event_waiters' = event_waiters \ Woken(a, val, Values)
      /\ cont_dirty' = cont_dirty \cup Marked(a, val, Values)

-----------------------------------------------------------------------------
(* Actions *)

Init ==
  /\ net_values = [n \in Nets |-> x_of_width(Width[n])]
  /\ mem_values = <<>>
  /\ event_waiters = {}
  /\ nba_queue = <<>>
  /\ nba = <<>>
  /\ cont_dirty = {}

\* BlockingAssign
Blocking(a) ==
  /\ nba = <<>>
  /\ Assign(a, Value(a, Values))
  /\ UNCHANGED <<nba_queue, nba>>

\* NbaAssign: the value is evaluated now, the target when it is applied.
Nonblocking(a) ==
  /\ nba = <<>>
  /\ a \in Deferred
  /\ Len(nba_queue) < MaxNba
  /\ nba_queue' = Append(nba_queue, [assign |-> a, val |-> Value(a, Values)])
  /\ UNCHANGED <<net_values, mem_values, event_waiters, nba, cont_dirty>>

\* EventCtl
Wait(proc, sens) ==
  /\ nba = <<>>
  /\ \A w \in event_waiters : w.proc # proc
  /\ event_waiters' = event_waiters \cup
       {[proc |-> proc, all |-> sens.all, items |-> sens.items]}
  /\ UNCHANGED <<net_values, mem_values, nba_queue, nba, cont_dirty>>

\* The NBA region takes the queue.
BeginNba ==
  /\ nba = <<>>
  /\ nba_queue # <<>>
  /\ cont_dirty = {}
  /\ nba' = nba_queue
  /\ nba_queue' = <<>>
  /\ UNCHANGED <<net_values, mem_values, event_waiters, cont_dirty>>

ApplyNba ==
  /\ nba # <<>>
  /\ Assign(Head(nba).assign, Head(nba).val)
  /\ nba' = Tail(nba)
  /\ UNCHANGED nba_queue

\* eval_conts empties the worklist.
EvalConts ==
  /\ nba = <<>>
  /\ cont_dirty # {}
  /\ cont_dirty' = {}
  /\ UNCHANGED <<net_values, mem_values, event_waiters, nba_queue, nba>>

Next ==
  \/ \E a \in Assigns : Blocking(a)
  \/ \E a \in Assigns : Nonblocking(a)
  \/ \E proc \in Procs : \E sens \in Waits : Wait(proc, sens)
  \/ BeginNba
  \/ ApplyNba
  \/ EvalConts

Spec == Init /\ [][Next]_vars
=============================================================================
