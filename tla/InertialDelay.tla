---------------------------- MODULE InertialDelay ----------------------------
(***************************************************************************)
(* The inertial delay of a continuous assignment (IEEE 1364-2001, 6.1.3): an  *)
(* output that follows a stream of evaluated values D ticks later and         *)
(* swallows what does not last that long.  There is at most one pending       *)
(* change, a different value replaces it, a return to the output's own value   *)
(* cancels it, and time does not pass it.  A value that is pending already      *)
(* stays due when it was; with Restarts, its delay starts anew.               *)
(***************************************************************************)
EXTENDS Naturals

CONSTANTS
  D,                \* the delay, in ticks
  Restarts          \* FALSE for IEEE 1364

VARIABLES
  out,              \* the value that is driven
  pending,          \* the set of pending changes [at, val]: none or one
  now

vars == <<out, pending, now>>

Init ==
  /\ pending = {}
  /\ now = 0

Cancel ==
  /\ pending' = {}
  /\ UNCHANGED <<out, now>>

Evaluate(val) ==
  /\ val # out
  /\ Restarts \/ \A p \in pending : p.val # val
  /\ pending' = {[at |-> now + D, val |-> val]}
  /\ UNCHANGED <<out, now>>

Fire ==
  /\ \E p \in pending : now <= p.at /\ now' = p.at /\ out' = p.val
  /\ pending' = {}

Tick ==
  /\ now' > now
  /\ \A p \in pending : now' <= p.at
  /\ UNCHANGED <<out, pending>>

\* A value is evaluated in the step that makes it pending.
Next ==
  \/ Cancel
  \/ \E val \in {p.val : p \in pending'} : Evaluate(val)
  \/ Fire
  \/ Tick

Spec == Init /\ [][Next]_vars
=============================================================================
