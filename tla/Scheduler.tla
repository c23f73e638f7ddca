------------------------------ MODULE Scheduler ------------------------------
(***************************************************************************)
(* The event loop of the simulator: Interpreter::run, exec_proc and the     *)
(* scheduling half of step in crates/sim/src/interp.rs.                     *)
(*                                                                         *)
(* A thread is one ProcState.  The i-th process of the design runs as the   *)
(* thread <<0, i>>; branch k of the fork with id f runs as <<f, k>>, so the *)
(* first component is fork_ctx (0 for None).  A ProcState value is moved,   *)
(* never shared: from the run queue to the CPU, to the future queue, to the *)
(* event waiters, to the fork waiters, and back.                            *)
(*                                                                         *)
(* Data is abstracted.  A running thread may execute any statement, so the  *)
(* model covers every program; a write is the event it causes on a net.     *)
(* Two orders the code derives from Vec positions are left open here: the   *)
(* order in which the processes are seeded, and the order in which one      *)
(* event wakes its waiters and marks its readers.                           *)
(***************************************************************************)
EXTENDS Integers, Sequences, FiniteSets

CONSTANTS
  NumProcs,     \* design.processes.len()
  AlwaysProcs,  \* indices of the processes of kind Always
  AlwaysSens,   \* their Process::sensitivity
  Nets,
  EventCtls,    \* the sensitivities of the @(...) statements of the program
  AllNets,      \* Sensitivity::All
  Delays,       \* the delays of the #n statements of the program
  Conts,        \* the continuous assignments
  ContTarget,   \* the net each one drives
  ContDelay,    \* its propagation delay
  Readers,      \* cont_sensitivity: net -> the conts that read it
  FnFinish,     \* TRUE when a function body of the program calls $finish
  ContLimit,    \* evaluations eval_conts allows before it gives up
  MaxTime,      \* --max-time
  MaxSeq,       \* bound on seq, the number of delays ever scheduled
  MaxForks,     \* bound on fork_seq
  MaxBranches,  \* bound on the branches of one fork
  MaxNba,       \* bound on the length of nba_queue
  MaxStrobe     \* bound on the length of strobe_queue

Edges == {"any", "posedge", "negedge"}
Sensitivities == {AllNets} \cup SUBSET (Nets \X Edges)
Events == {"none", "change", "posedge", "negedge"}

ASSUME SchedulerAssumption ==
  /\ NumProcs \in Nat
  /\ AlwaysProcs \subseteq 1..NumProcs
  /\ AlwaysSens \in [AlwaysProcs -> Sensitivities]
  /\ EventCtls \subseteq Sensitivities
  /\ Delays \subseteq Nat
  /\ ContTarget \in [Conts -> Nets]
  /\ ContDelay \in [Conts -> Nat]
  /\ Readers \in [Nets -> SUBSET Conts]
  /\ IsFiniteSet(Conts)
  /\ FnFinish \in BOOLEAN
  /\ {ContLimit, MaxTime, MaxSeq, MaxForks, MaxBranches, MaxNba, MaxStrobe}
       \subseteq Nat

VARIABLES
  region,         \* where Interpreter::run stands
  running,        \* the threads inside exec_proc: none or one
  batch,          \* what is left of the local `procs`
  active,
  future,         \* the heap of (time, seq)
  future_procs,   \* seq -> thread
  future_conts,   \* seq -> cont
  event_waiters,  \* records [sens, proc]
  fork_seq,
  fork_remaining, \* fork id -> unfinished branches
  fork_waiters,   \* fork id -> parent
  nba_queue,      \* the nets to be written
  nba_batch,      \* what is left of the local `nba`
  cont_dirty,
  cont_queued,    \* the conts whose bit is set
  evals,          \* the local `iterations` of eval_conts
  seq,
  now,
  moved_inactive,
  strobe_queue,   \* number of pending $strobe calls
  finished

wakeVars == <<active, event_waiters, cont_dirty, cont_queued>>
forkVars == <<fork_seq, fork_remaining, fork_waiters>>
timeVars == <<future, future_procs, future_conts, seq, now>>
locals   == <<batch, nba_batch, evals, moved_inactive>>
vars == <<region, running, wakeVars, forkVars, timeVars, nba_queue, locals,
          strobe_queue, finished>>

Threads == Nat \X Nat
ForkOf(t) == t[1]
RangeOf(s) == {s[i] : i \in DOMAIN s}

\* The sequences that list every element of S once.
Orderings(S) ==
  {s \in [1..Cardinality(S) -> S] :
     /\ \A i, j \in 1..Cardinality(S) : s[i] = s[j] => i = j
     /\ RangeOf(s) = S}

With(f, k, v) == [x \in DOMAIN f \cup {k} |-> IF x = k THEN v ELSE f[x]]
\* Deviant: the entry is read, not removed.
DeviantWithout(f, k) == f
Without(f, k) == [x \in DOMAIN f \ {k} |-> f[x]]
Lookup(f, k) == IF k \in DOMAIN f THEN <<f[k]>> ELSE <<>>
MapProc(s) == [i \in DOMAIN s |-> s[i].proc]

-----------------------------------------------------------------------------
(* trigger_sensitivity *)

\* any_change, posedge and negedge of the write against one registered waiter.
Wakes(sens, n, ev) ==
  /\ ev # "none"
  /\ \/ sens = AllNets
     \/ /\ sens # AllNets
        /\ \/ <<n, "any">> \in sens
           \/ <<n, ev>> \in sens

\* Deviant: the bit is not looked at.
DeviantUnmarked(n, q) == Readers[n]

\* mark_cont_dirty queues a reader of n only when its bit in q is clear.
Unmarked(n, q) == Readers[n] \ q

\* The write marks the readers of n dirty, starting from the worklist d and
\* bits q, and moves the waiters it wakes to the end of the run queue a.
TriggerFrom(n, ev, a, d, q) ==
  LET woken == {w \in event_waiters : Wakes(w.sens, n, ev)}
      dirty == IF ev = "none" THEN {} ELSE Unmarked(n, q)
  IN /\ event_waiters' = event_waiters \ woken
     /\ \E o \in Orderings(woken) : active' = a \o MapProc(o)
     /\ \E o \in Orderings(dirty) : cont_dirty' = d \o o
     /\ cont_queued' = q \cup dirty

Trigger(n, ev) == TriggerFrom(n, ev, active, cont_dirty, cont_queued)

\* Deviant: the heap gets the key before the increment.
DeviantSchedule(time) ==
  /\ seq < MaxSeq
  /\ seq' = seq + 1
  /\ future' = future \cup {<<time, seq>>}

\* A new entry of the future queue, due at `time`; its key is seq'.
Schedule(time) ==
  /\ seq < MaxSeq
  /\ seq' = seq + 1
  /\ future' = future \cup {<<time, seq'>>}

-----------------------------------------------------------------------------
(* Interpreter::new and the seeding part of run *)

WaitsFirst(i) == i \in AlwaysProcs /\ AlwaysSens[i] \notin {AllNets, {}}
Seeded == {<<0, i>> : i \in {j \in 1..NumProcs : ~WaitsFirst(j)}}

Init ==
  /\ region = "active"
  /\ running = {}
  /\ batch = <<>>
  /\ active \in Orderings(Seeded)
  /\ event_waiters = {[sens |-> AlwaysSens[i], proc |-> <<0, i>>] :
                        i \in {j \in 1..NumProcs : WaitsFirst(j)}}
  /\ future = {}
  /\ future_procs = <<>>
  /\ future_conts = <<>>
  /\ fork_seq = 0
  /\ fork_remaining = <<>>
  /\ fork_waiters = <<>>
  /\ nba_queue = <<>>
  /\ nba_batch = <<>>
  /\ cont_dirty \in Orderings(Conts)
  /\ cont_queued = Conts
  /\ evals = 0
  /\ seq = 0
  /\ now = 0
  /\ moved_inactive = FALSE
  /\ strobe_queue = 0
  /\ finished = FALSE

-----------------------------------------------------------------------------
(* Statements: step, for the thread t that exec_proc runs.  Those that only *)
(* move the frame stack (blocks, if, case, while, disable, an empty fork,   *)
(* the restart of an always without event control) change nothing here.     *)

\* exec_proc returns: run looks at `finished` before the next thread.
Return ==
  /\ running' = {}
  /\ region' = IF finished' THEN "finish" ELSE "active"

Continue == UNCHANGED <<region, running>>

BlockingAssign(n, ev) ==
  /\ Trigger(n, ev)
  /\ UNCHANGED <<forkVars, timeVars, nba_queue, strobe_queue, finished>>
  /\ Continue

NbaAssign(n) ==
  /\ Len(nba_queue) < MaxNba
  /\ nba_queue' = Append(nba_queue, n)
  /\ UNCHANGED <<wakeVars, forkVars, timeVars, strobe_queue, finished>>
  /\ Continue

Delay(t, d) ==
  /\ Schedule(now + d)
  /\ future_procs' = With(future_procs, seq', t)
  /\ UNCHANGED <<wakeVars, forkVars, future_conts, now, nba_queue,
                 strobe_queue, finished>>
  /\ Return

Wait(t, sens) ==
  /\ event_waiters' = event_waiters \cup {[sens |-> sens, proc |-> t]}
  /\ UNCHANGED <<active, cont_dirty, cont_queued, forkVars, timeVars,
                 nba_queue, strobe_queue, finished>>
  /\ Return

\* Deviant: fork_ctx is the id before the increment.
DeviantBranches(f, k) == [i \in 1..k |-> <<f - 1, i>>]

Branches(f, k) == [i \in 1..k |-> <<f, i>>]

\* The branches go to the run queue and the parent waits for all of them.
Fork(t, k) ==
  /\ fork_seq < MaxForks
  /\ fork_seq' = fork_seq + 1
  /\ fork_remaining' = With(fork_remaining, fork_seq', k)
  /\ fork_waiters' = With(fork_waiters, fork_seq', t)
  /\ active' = active \o Branches(fork_seq', k)
  /\ UNCHANGED <<event_waiters, cont_dirty, cont_queued, timeVars, nba_queue,
                 strobe_queue, finished>>
  /\ Return

\* Deviant: the kind of the process is not tested.
DeviantEndInitial(t) ==
  /\ ForkOf(t) = 0
  /\ UNCHANGED <<wakeVars, forkVars, timeVars, nba_queue, strobe_queue,
                 finished>>
  /\ Return

\* An initial process that reaches its end is dropped.
EndInitial(t) ==
  /\ ForkOf(t) = 0 /\ t[2] \notin AlwaysProcs
  /\ UNCHANGED <<wakeVars, forkVars, timeVars, nba_queue, strobe_queue,
                 finished>>
  /\ Return

\* An always process with an event control waits for it again.
EndAlways(t) ==
  /\ ForkOf(t) = 0 /\ t[2] \in AlwaysProcs
  /\ AlwaysSens[t[2]] # {}
  /\ Wait(t, AlwaysSens[t[2]])

\* Deviant: off by one.
DeviantLastBranch(f) == fork_remaining[f] <= 2

\* Deviant: the counter goes on below one.
DeviantLastBranchNever(f) == fork_remaining[f] = 0

LastBranch(f) == fork_remaining[f] = 1

\* fork_branch_done, for a fork that still counts branches.
EndBranch(t) ==
  LET f == ForkOf(t) IN
  /\ f \in DOMAIN fork_remaining
  /\ \/ /\ ~LastBranch(f)
        /\ fork_remaining' = [fork_remaining EXCEPT ![f] = @ - 1]
        /\ UNCHANGED <<fork_waiters, active>>
     \/ /\ LastBranch(f)
        /\ fork_remaining' = Without(fork_remaining, f)
        /\ fork_waiters' = Without(fork_waiters, f)
        /\ active' = active \o Lookup(fork_waiters, f)
  /\ UNCHANGED <<event_waiters, cont_dirty, cont_queued, fork_seq, timeVars,
                 nba_queue, strobe_queue, finished>>
  /\ Return

\* A system task other than $finish and $stop; $strobe is the one that leaves
\* work for later.  A `finished` left by a function is noticed after the call.
SysTask(strobe) ==
  /\ strobe_queue' = strobe_queue + strobe
  /\ strobe_queue' <= MaxStrobe
  /\ UNCHANGED <<wakeVars, forkVars, timeVars, nba_queue, finished>>
  /\ IF finished THEN Return ELSE Continue

\* $finish or $stop as a statement of a process.
Finish ==
  /\ finished' = TRUE
  /\ UNCHANGED <<wakeVars, forkVars, timeVars, nba_queue, strobe_queue>>
  /\ Return

\* $finish in a function body: the calling statement carries on.
FinishInFunction ==
  /\ FnFinish
  /\ finished' = TRUE
  /\ UNCHANGED <<wakeVars, forkVars, timeVars, nba_queue, strobe_queue>>
  /\ Continue

Statement ==
  /\ UNCHANGED locals
  /\ \E t \in running :
       \/ \E n \in Nets, ev \in Events : BlockingAssign(n, ev)
       \/ \E n \in Nets : NbaAssign(n)
       \/ \E d \in Delays : Delay(t, d)
       \/ \E sens \in EventCtls : Wait(t, sens)
       \/ \E k \in 1..MaxBranches : Fork(t, k)
       \/ EndInitial(t)
       \/ EndAlways(t)
       \/ EndBranch(t)
       \/ \E strobe \in {0, 1} : SysTask(strobe)
       \/ Finish
       \/ FinishInFunction

-----------------------------------------------------------------------------
(* The ACTIVE region *)

\* The next thread of the batch; an empty batch takes the whole run queue.
StartThread ==
  /\ region = "active" /\ running = {}
  /\ \/ /\ batch # <<>>
        /\ running' = {Head(batch)} /\ batch' = Tail(batch)
        /\ UNCHANGED active
     \/ /\ batch = <<>> /\ active # <<>>
        /\ running' = {Head(active)} /\ batch' = Tail(active)
        /\ active' = <<>>
  /\ UNCHANGED <<region, event_waiters, cont_dirty, cont_queued, forkVars,
                 timeVars, nba_queue, nba_batch, evals, moved_inactive,
                 strobe_queue, finished>>

\* The rest of the batch is dropped; the strobes are printed as things stand.
StopAfterFinish ==
  /\ region = "finish"
  /\ region' = "stopped"
  /\ strobe_queue' = 0
  /\ batch' = <<>>
  /\ UNCHANGED <<running, wakeVars, forkVars, timeVars, nba_queue, nba_batch,
                 evals, moved_inactive, finished>>

EndActive ==
  /\ region = "active"
  /\ running = {} /\ batch = <<>> /\ active = <<>>
  /\ region' = "conts"
  /\ UNCHANGED <<running, wakeVars, forkVars, timeVars, nba_queue, locals,
                 strobe_queue, finished>>

\* Deviant: a zero delay goes through the future queue as well.
DeviantIsDelayed(c) == TRUE

IsDelayed(c) == ContDelay[c] # 0

\* Deviant: the evaluations are not counted.
DeviantCount == UNCHANGED evals

Count == evals' = evals + 1

\* eval_conts.  The head of the worklist loses its bit before it is evaluated,
\* so a write of its own may mark it again.  Its expression may call a function
\* that executes $finish.
EvalCont ==
  /\ region = "conts"
  /\ cont_dirty # <<>>
  /\ Count
  /\ LET c == Head(cont_dirty)
         rest == Tail(cont_dirty)
         queued == cont_queued \ {c}
     IN \/ /\ evals' <= ContLimit
           /\ ~IsDelayed(c)
           /\ \E ev \in Events :
                TriggerFrom(ContTarget[c], ev, active, rest, queued)
           /\ finished' \in {finished, finished \/ FnFinish}
           /\ UNCHANGED timeVars
        \/ \* the value being driven already: a pending change is absorbed
           /\ evals' <= ContLimit
           /\ IsDelayed(c)
           /\ finished' \in {finished, finished \/ FnFinish}
           /\ cont_dirty' = rest /\ cont_queued' = queued
           /\ UNCHANGED <<active, event_waiters, timeVars>>
        \/ /\ evals' <= ContLimit
           /\ IsDelayed(c)
           /\ finished' \in {finished, finished \/ FnFinish}
           /\ Schedule(now + ContDelay[c])
           /\ future_conts' = With(future_conts, seq', c)
           /\ cont_dirty' = rest /\ cont_queued' = queued
           /\ UNCHANGED <<active, event_waiters, future_procs, now>>
        \/ \* a combinational loop: warn and forget everything that is dirty
           /\ evals' > ContLimit
           /\ cont_dirty' = <<>> /\ cont_queued' = {}
           /\ UNCHANGED <<active, event_waiters, timeVars, finished>>
  /\ UNCHANGED <<region, running, batch, forkVars, nba_queue, nba_batch,
                 moved_inactive, strobe_queue>>

EndConts ==
  /\ region = "conts"
  /\ cont_dirty = <<>>
  /\ evals' = 0
  /\ region' = IF active = <<>> THEN "inactive" ELSE "active"
  /\ UNCHANGED <<running, batch, wakeVars, forkVars, timeVars, nba_queue,
                 nba_batch, moved_inactive, strobe_queue, finished>>

-----------------------------------------------------------------------------
(* INACTIVE and NBA regions, and the advance of time *)

\* `continue 'outer`
LoopTop == region' = IF finished THEN "stopped" ELSE "active"

\* The top of the heap.
IsNext(e) ==
  \A g \in future : e[1] < g[1] \/ (e[1] = g[1] /\ e[2] <= g[2])

\* Deviant: entries of later times are taken too.
DeviantDueNow(e) == e[1] >= now

DueNow(e) == e[1] = now

\* Deviant: the INACTIVE region is passed over.
DeviantNothingNow == TRUE

NothingNow == \A e \in future : ~DueNow(e)

\* A popped entry: its thread joins the run queue, then its continuous
\* assignment writes (no event when its generation is stale).
Deliver(e) ==
  LET s == e[2]
      a == active \o Lookup(future_procs, s)
  IN /\ IsNext(e)
     /\ future' = future \ {e}
     /\ future_procs' = Without(future_procs, s)
     /\ future_conts' = Without(future_conts, s)
     /\ \/ /\ s \in DOMAIN future_conts
           /\ \E ev \in Events : TriggerFrom(ContTarget[future_conts[s]], ev,
                                             a, cont_dirty, cont_queued)
        \/ /\ s \notin DOMAIN future_conts
           /\ active' = a
           /\ UNCHANGED <<event_waiters, cont_dirty, cont_queued>>
     /\ UNCHANGED <<running, batch, forkVars, seq, evals, nba_queue, nba_batch,
                    strobe_queue, finished>>

PopInactive ==
  /\ region = "inactive"
  /\ \E e \in future :
       /\ DueNow(e)
       /\ Deliver(e)
       /\ moved_inactive' = (moved_inactive \/ e[2] \in DOMAIN future_procs)
  /\ UNCHANGED <<region, now>>

EndInactive ==
  /\ region = "inactive"
  /\ NothingNow
  /\ moved_inactive' = FALSE
  /\ \/ moved_inactive /\ LoopTop /\ UNCHANGED <<nba_queue, nba_batch>>
     \/ /\ ~moved_inactive /\ nba_queue # <<>>
        /\ region' = "nba" /\ nba_batch' = nba_queue /\ nba_queue' = <<>>
     \/ /\ ~moved_inactive /\ nba_queue = <<>>
        /\ region' = "postponed" /\ UNCHANGED <<nba_queue, nba_batch>>
  /\ UNCHANGED <<running, batch, wakeVars, forkVars, timeVars, evals,
                 strobe_queue, finished>>

ApplyNba ==
  /\ region = "nba"
  /\ \/ /\ nba_batch # <<>>
        /\ \E ev \in Events : Trigger(Head(nba_batch), ev)
        /\ nba_batch' = Tail(nba_batch)
        /\ UNCHANGED region
     \/ nba_batch = <<>> /\ LoopTop /\ UNCHANGED <<wakeVars, nba_batch>>
  /\ UNCHANGED <<running, batch, forkVars, timeVars, evals, nba_queue,
                 moved_inactive, strobe_queue, finished>>

\* flush_monitor, flush_strobe
Postponed ==
  /\ region = "postponed"
  /\ strobe_queue' = 0
  /\ region' = IF future = {} THEN "stopped" ELSE "advance"
  /\ UNCHANGED <<running, wakeVars, forkVars, timeVars, nba_queue, locals,
                 finished>>

\* The first entry of the next time.  Past --max-time it is popped and lost.
Advance ==
  /\ region = "advance"
  /\ \E e \in future :
       \/ /\ e[1] <= MaxTime
          /\ now' = e[1]
          /\ region' = "drain"
          /\ Deliver(e)
       \/ /\ e[1] > MaxTime
          /\ IsNext(e)
          /\ future' = future \ {e}
          /\ region' = "stopped"
          /\ UNCHANGED <<running, batch, wakeVars, forkVars, future_procs,
                         future_conts, seq, now, evals, nba_queue, nba_batch,
                         strobe_queue, finished>>
  /\ UNCHANGED moved_inactive

\* The other entries of that time.
Drain ==
  /\ region = "drain"
  /\ \E e \in future : DueNow(e) /\ Deliver(e)
  /\ UNCHANGED <<region, now, moved_inactive>>

EndDrain ==
  /\ region = "drain"
  /\ NothingNow
  /\ LoopTop
  /\ UNCHANGED <<running, wakeVars, forkVars, timeVars, nba_queue, locals,
                 strobe_queue, finished>>

\* vcd_finish and flush_files done: run has returned.
Stopped == region = "stopped" /\ UNCHANGED vars

Next ==
  \/ Statement
  \/ StartThread \/ StopAfterFinish \/ EndActive
  \/ EvalCont \/ EndConts
  \/ PopInactive \/ EndInactive \/ ApplyNba
  \/ Postponed \/ Advance \/ Drain \/ EndDrain
  \/ Stopped

Spec == Init /\ [][Next]_vars

\* eval_conts is a loop that waits for nothing.  (A thread may run for ever, so
\* that the other steps of run need not come.)
FairSpec == Spec /\ WF_vars(EvalCont \/ EndConts)
=============================================================================
