----------------------------- MODULE MCScheduler -----------------------------
(***************************************************************************)
(* Small designs for Scheduler.                                            *)
(***************************************************************************)
EXTENDS SchedulerProperties, TLC

CONSTANTS NetA, NetB, ContC, ContD

\* An initial process and an always @(NetA).
MCAlwaysProcs == {2}
MCAlwaysSens == (2 :> {<<NetA, "any">>})

\* A zero-delay and a delayed continuous assignment that drive each other; the
\* first one reads its own net as well.
MCNets == {NetA, NetB}
MCEventCtls == {{<<NetB, "posedge">>}}
MCContTarget == ContC :> NetB @@ ContD :> NetA
MCContDelay == ContC :> 0 @@ ContD :> 1
MCReaders == NetA :> {ContC, ContD} @@ NetB :> {ContC, ContD}

\* No continuous assignment; the processes wait for @*.
ForkEventCtls == {AllNets}
NoConts == <<>>
NoReaders == NetA :> {}
=============================================================================
