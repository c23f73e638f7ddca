--------------------------------- MODULE Vcd ---------------------------------
(***************************************************************************)
(* The waveform file: VcdWriter in crates/vcd_out/src/dump.rs, with the     *)
(* calls by which the interpreter opens it, records the changes of nets,    *)
(* moves it to the next time and ends it.                                   *)
(*                                                                         *)
(* The file is its header (tokens), the block of initial values and the     *)
(* blocks of changes, each under one time stamp.  The lines of a block come *)
(* out of a HashMap in no order: a block is a set of lines.                 *)
(***************************************************************************)
EXTENDS Naturals, Sequences

CONSTANTS
  NetCount,   \* design.nets.len()
  Width,      \* NetInfo::width
  ScopeCount, \* design.scopes.len(); scope 0 is the top
  Parent,     \* Scope::parent of every scope but the top
  ScopeOf,    \* NetInfo::scope
  Chars,      \* the characters that make up identifier codes, 94
  ChunkBits   \* the bits of a u64, 64

Nets == 0 .. NetCount - 1
Scopes == 0 .. ScopeCount - 1

\* A vector as LogicVal holds it: plane a and plane b.
Planes(n) == [a : 0 .. 2^Width[n] - 1, b : 0 .. 2^Width[n] - 1]

ASSUME VcdAssumption ==
  /\ NetCount \in Nat /\ ScopeCount \in Nat \ {0}
  /\ Width \in [Nets -> Nat \ {0}]
  /\ Parent \in [Scopes \ {0} -> Scopes]
  /\ \A s \in Scopes \ {0} : Parent[s] < s
  /\ ScopeOf \in [Nets -> Scopes]
  /\ Chars \in Nat \ {0}
  /\ ChunkBits \in Nat \ {0}
  /\ NetCount <= Chars + Chars * Chars

VARIABLES
  vcd_active, \* a VcdWriter exists; the flag and the writer are set together
  pending,    \* net -> planes, the changes of the current time
  last_time,
  dumpvars,   \* the lines of the initial block
  changes     \* the blocks after it: records [time, lines]

vcdVars == <<vcd_active, pending, last_time, dumpvars, changes>>

-----------------------------------------------------------------------------
(* Identifier codes, digits, the header *)

vcd_code(idx) ==
  IF idx < Chars
    THEN <<idx>>
    ELSE <<(idx - Chars) \div Chars, (idx - Chars) % Chars>>

Digit(a, b) ==
  IF b = 0 THEN IF a = 0 THEN "0" ELSE "1"
           ELSE IF a = 0 THEN "z" ELSE "x"

Bit(plane, i) == (plane \div 2^i) % 2

\* The digits write_vcd_value prints for bits 0, 1, ... of planes that fit a
\* u64: one for a scalar, at most ChunkBits for a vector.
Digits(v, w) ==
  [i \in 0 .. (IF w < ChunkBits THEN w ELSE ChunkBits) - 1 |->
     Digit(Bit(v.a, i), Bit(v.b, i))]

\* pad_to_width and pad_to_width_b of the whole width keep the low chunk.
LowChunk(v) == [a |-> v.a % 2^ChunkBits, b |-> v.b % 2^ChunkBits]

Line(n, v) == [code |-> vcd_code(n), digits |-> Digits(v, Width[n])]

\* The elements of a set of numbers below k that satisfy the order of ids.
Ascending(S, k) ==
  LET upTo[i \in 0 .. k] ==
        IF i = 0 THEN <<>>
        ELSE IF i - 1 \in S THEN Append(upTo[i - 1], i - 1) ELSE upTo[i - 1]
  IN upTo[k]

Children(s) == Ascending({c \in Scopes \ {0} : Parent[c] = s}, ScopeCount)
NetsOf(s) == Ascending({n \in Nets : ScopeOf[n] = s}, NetCount)

\* nets_by_scope: what the header says of the nets of one scope.
Vars(s) ==
  [i \in DOMAIN NetsOf(s) |->
     [kind |-> "var", net |-> NetsOf(s)[i], code |-> vcd_code(NetsOf(s)[i]),
      width |-> Width[NetsOf(s)[i]]]]

\* write_scope_dfs: a scope, its nets, its children, $upscope.
write_scope_dfs[s \in Scopes] ==
  LET below[i \in 0 .. Len(Children(s))] ==
        IF i = 0 THEN <<>>
        ELSE below[i - 1] \o write_scope_dfs[Children(s)[i]]
  IN <<[kind |-> "scope", scope |-> s]>> \o Vars(s)
       \o below[Len(Children(s))] \o <<[kind |-> "upscope"]>>

\* The header: the tree below design.top.
Header == write_scope_dfs[0]

-----------------------------------------------------------------------------
(* The writer *)

\* What the file says of the changes up to now when it is stamped t.
FlushAt(t) ==
  IF DOMAIN pending = {} THEN changes
  ELSE Append(changes, [time |-> t,
         lines |-> {Line(n, pending[n]) : n \in DOMAIN pending}])

VcdInit ==
  /\ vcd_active = FALSE
  /\ pending = <<>>
  /\ last_time = 0
  /\ dumpvars = {}
  /\ changes = <<>>

\* init_vcd_from_path: a file that cannot be created leaves no writer behind.
init_vcd(values, created) ==
  /\ vcd_active' = created
  /\ dumpvars' = IF created THEN {Line(n, LowChunk(values[n])) : n \in Nets}
                            ELSE dumpvars
  /\ UNCHANGED <<pending, last_time, changes>>

\* Deviant: the first change of a time step is kept.
Deviant_record_change(n, v) ==
  /\ pending' = IF vcd_active /\ n \notin DOMAIN pending
                  THEN [m \in DOMAIN pending \cup {n} |->
                          IF m = n THEN LowChunk(v) ELSE pending[m]]
                  ELSE pending
  /\ UNCHANGED <<vcd_active, last_time, dumpvars, changes>>

\* vcd_record_net_change: the last value of a time step wins.
record_change(n, v) ==
  /\ pending' = IF vcd_active
                  THEN [m \in DOMAIN pending \cup {n} |->
                          IF m = n THEN LowChunk(v) ELSE pending[m]]
                  ELSE pending
  /\ UNCHANGED <<vcd_active, last_time, dumpvars, changes>>

\* Deviant: the changes are stamped with the time that begins.
Deviant_advance_time(current, new) ==
  /\ IF vcd_active
       THEN /\ changes' = FlushAt(new)
            /\ pending' = <<>>
            /\ last_time' = new
       ELSE UNCHANGED <<changes, pending, last_time>>
  /\ UNCHANGED <<vcd_active, dumpvars>>

advance_time(current, new) ==
  /\ IF vcd_active
       THEN /\ changes' = FlushAt(current)
            /\ pending' = <<>>
            /\ last_time' = new
       ELSE UNCHANGED <<changes, pending, last_time>>
  /\ UNCHANGED <<vcd_active, dumpvars>>

finish ==
  /\ IF vcd_active
       THEN /\ changes' = FlushAt(last_time)
            /\ pending' = <<>>
       ELSE UNCHANGED <<changes, pending>>
  /\ UNCHANGED <<vcd_active, last_time, dumpvars>>
=============================================================================
