------------------------ MODULE SensitivityProperties ------------------------
(***************************************************************************)
(* What writes and event controls promise.                                  *)
(***************************************************************************)
EXTENDS Sensitivity, Functions

-----------------------------------------------------------------------------
(* Events, from the values before and after a step *)

Level(u) == IF 0 \in u.b THEN "x" ELSE IF 0 \in u.a THEN "1" ELSE "0"

\* IEEE 1364-2001, 9.7.1, on the least significant bit.
PosedgePairs == {<<"0", "1">>, <<"0", "x">>, <<"x", "1">>}
NegedgePairs == {<<"1", "0">>, <<"1", "x">>, <<"x", "0">>}

Happened(item, old, new) ==
  \/ item.edge = "any" /\ old # new
  \/ item.edge = "pos" /\ <<Level(old), Level(new)>> \in PosedgePairs
  \/ item.edge = "neg" /\ <<Level(old), Level(new)>> \in NegedgePairs

\* What a read of the word gives.
WordAt(key, mems) ==
  IF key \in DOMAIN mems THEN mems[key] ELSE all_bits(ElemWidth[key[1]], FALSE)

\* The nets and memories that have changed.
Altered(nets, mems, nets2, mems2) ==
  {n \in Nets : nets[n] # nets2[n]}
  \cup {key[1] : key \in {k \in DOMAIN mems2 : WordAt(k, mems) # WordAt(k, mems2)}}

NothingLost ==
  LET altered == Altered(net_values, mem_values, net_values', mem_values')
  IN  /\ \A w \in event_waiters \cap event_waiters' :
           /\ w.all => altered = {}
           /\ \A item \in w.items :
                ~Happened(item, net_values[item.net], net_values'[item.net])
      /\ \A c \in Conts : altered \cap Reads[c] # {} => c \in cont_dirty'

\* No event is lost: a thread that waits for a change or an edge of a net is
\* woken by every write that causes it, one that waits for anything by every
\* change, and each continuous assignment that reads what has changed is queued.
\* The code decides from the whole old net and the value before it is cut; what
\* counts here are the nets and words before and after.  About get_lval_val,
\* write_lvalue and trigger_sensitivity.
NoLostWakeup == [][NothingLost]_vars

\* The nets of which bit 0 is written by assignments to bit 0 only.
WrittenFromBit0 ==
  {n \in Nets : \A a \in Assigns : \A j \in DOMAIN LVal[a] :
     LVal[a][j].of = n => LVal[a][j].kind = "net"}

EdgeHappened ==
  \A w \in event_waiters \ event_waiters' :
    (~w.all /\ \A item \in w.items : item.edge # "any" /\ item.net \in WrittenFromBit0)
    => \E item \in w.items :
         Happened(item, net_values[item.net], net_values'[item.net])

\* A thread that waits for edges of such nets goes on only when one of them
\* has had its edge.
EdgesAreReal == [][EdgeHappened]_vars

-----------------------------------------------------------------------------
(* Targets *)

\* The part lies in its net; a word always does.
Exists(p, st) ==
  CASE p.kind \in {"net", "mem", "part"} -> TRUE
    [] p.kind = "dynbit" -> Index(p, st) < Width[p.of]
    [] p.kind = "dynpart" -> Inside(p, st)

\* The net with the bits of p left out.
Rest(p, st, u) ==
  LET taken == CASE p.kind = "net" -> Bits(u.width)
                 [] p.kind = "part" -> p.lo..(p.lo + p.w - 1)
                 [] p.kind = "dynbit" -> {Index(p, st)}
                 [] p.kind = "dynpart" -> PartLow(p, st)..(PartLow(p, st) + p.w - 1)
  IN  <<u.a \ taken, u.b \ taken>>

\* The assignments whose targets do not overlap and do not move each other's
\* index, and whose words are as wide as their memory.
Separate ==
  {a \in Assigns : \A j, k \in DOMAIN LVal[a] :
     /\ j # k => LVal[a][j].of # LVal[a][k].of
     /\ LVal[a][j].kind \notin {"net", "part"} => LVal[a][j].at # LVal[a][k].of}

\* Whatever assignment is executed next, reading its target back as an
\* expression gives the value, cut or extended to the width of the target and
\* divided among the parts; an index outside its net changes nothing; and no
\* other bit changes.  About write_lvalue, write_bits,
\* indexed_part_select_bounds and the selects of eval_expr, which decide on
\* their own what an index means.
ReadsBack ==
  \A a \in Separate :
    LET val == Value(a, Values)
        st == write_lvalue(a, val, Values)
        fitted == IF Signed[a] THEN extend_sign(val, TotalWidth(a))
                               ELSE resize(val, TotalWidth(a))
        targets == Range(LVal[a])
        read[j \in 1..Len(LVal[a])] ==
          IF j = 1 THEN Read(LVal[a][1], st) ELSE concat(read[j - 1], Read(LVal[a][j], st))
    IN  /\ (\A p \in targets : Exists(p, Values)) => read[Len(LVal[a])] = fitted
        /\ \A p \in targets : p.kind # "mem" =>
             IF Exists(p, Values)
             THEN Rest(p, Values, st.nets[p.of]) = Rest(p, Values, net_values[p.of])
             ELSE st.nets[p.of] = net_values[p.of]
        /\ \A n \in Nets \ {p.of : p \in targets} : st.nets[n] = net_values[n]
        /\ \A key \in DOMAIN st.mems :
             \/ \E p \in targets : p.kind = "mem" /\ key = <<p.of, Index(p, Values)>>
             \/ WordAt(key, st.mems) = WordAt(key, mem_values)
=============================================================================
