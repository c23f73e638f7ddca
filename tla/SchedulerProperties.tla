------------------------- MODULE SchedulerProperties -------------------------
(***************************************************************************)
(* What the event loop of Scheduler promises.                              *)
(***************************************************************************)
EXTENDS Scheduler

Waiting == {w.proc : w \in event_waiters}

\* The threads that some queue of the interpreter holds.
Located ==
  running \cup RangeOf(batch) \cup RangeOf(active) \cup RangeOf(future_procs)
    \cup Waiting \cup RangeOf(fork_waiters)

Unfinished(f) == {t \in Located : ForkOf(t) = f}

Injective(f) == \A i, j \in DOMAIN f : f[i] = f[j] => i = j

\* Nothing may run before the clock moves or the next region is entered.
Quiet ==
  /\ running = {} /\ batch = <<>> /\ active = <<>> /\ cont_dirty = <<>>
  /\ \A e \in future : e[1] > now

\* $finish has not been executed by a process, and the run has not ended: the
\* thread that executes it, and what is left of its batch, are dropped.
InProgress == region \notin {"finish", "stopped"}

Regions == {"active", "finish", "conts", "inactive", "nba", "postponed",
            "advance", "drain", "stopped"}

\* Every variable of the interpreter keeps its type and its bound.
TypeOK ==
  /\ region \in Regions
  /\ running \subseteq Threads
  /\ batch \in Seq(Threads) /\ active \in Seq(Threads)
  /\ future \subseteq Nat \X (1..seq)
  /\ future_procs \in [DOMAIN future_procs -> Threads]
  /\ future_conts \in [DOMAIN future_conts -> Conts]
  /\ DOMAIN future_procs \cup DOMAIN future_conts \subseteq 1..seq
  /\ event_waiters \subseteq [sens : Sensitivities, proc : Threads]
  /\ IsFiniteSet(event_waiters)
  /\ fork_seq \in 0..MaxForks
  /\ fork_remaining \in [DOMAIN fork_remaining -> 1..MaxBranches]
  /\ DOMAIN fork_remaining \cup DOMAIN fork_waiters \subseteq 1..fork_seq
  /\ fork_waiters \in [DOMAIN fork_waiters -> Threads]
  /\ nba_queue \in Seq(Nets) /\ nba_batch \in Seq(Nets)
  /\ cont_dirty \in Seq(Conts) /\ cont_queued \subseteq Conts
  /\ evals \in Nat
  /\ seq \in 0..MaxSeq
  /\ now \in 0..MaxTime
  /\ moved_inactive \in BOOLEAN
  /\ strobe_queue \in 0..MaxStrobe
  /\ finished \in BOOLEAN

\* Six sets of threads no two of which meet.
Apart(R, B, A, P, W, F) ==
  /\ R \cap (B \cup A \cup P \cup W \cup F) = {}
  /\ B \cap (A \cup P \cup W \cup F) = {}
  /\ A \cap (P \cup W \cup F) = {}
  /\ P \cap (W \cup F) = {}
  /\ W \cap F = {}

\* No thread is ever in two queues, or twice in one: wherever run, exec_proc,
\* trigger_sensitivity and fork_branch_done move a ProcState, it leaves the
\* place it was taken from.
OnePlace ==
  /\ \A t, u \in running : t = u
  /\ Injective(batch) /\ Injective(active)
  /\ Injective(future_procs) /\ Injective(fork_waiters)
  /\ \A v, w \in event_waiters : v.proc = w.proc => v = w
  /\ Apart(running, RangeOf(batch), RangeOf(active), RangeOf(future_procs),
           Waiting, RangeOf(fork_waiters))

\* The join counter of a fork is the number of its branches that have not
\* ended, wherever they wait; a branch outlives neither its counter nor the
\* parent that waits for it; and a parent only waits for a younger fork, so
\* joins cannot wait for each other in a circle.
JoinAccounting ==
  InProgress =>
    /\ DOMAIN fork_waiters = DOMAIN fork_remaining
    /\ \A f \in DOMAIN fork_remaining :
         /\ IsFiniteSet(Unfinished(f))
         /\ fork_remaining[f] = Cardinality(Unfinished(f))
         /\ ForkOf(fork_waiters[f]) < f
    /\ \A t \in Located : ForkOf(t) # 0 => ForkOf(t) \in DOMAIN fork_remaining

\* An always process is never lost: until the run ends, some queue holds it.
AlwaysAlive ==
  InProgress => \A i \in AlwaysProcs : <<0, i>> \in Located

\* The heap and the two maps behind it agree: every key of the heap is the key
\* of exactly one suspended thread or scheduled update, none is left over, and
\* no entry lies in the past.
HeapAgrees ==
  region # "stopped" =>
    /\ \A e, g \in future : e[2] = g[2] => e = g
    /\ {e[2] : e \in future} = DOMAIN future_procs \cup DOMAIN future_conts
    /\ DOMAIN future_procs \cap DOMAIN future_conts = {}
    /\ \A e \in future : e[1] >= now

\* Outside the drain of a new time no continuous assignment is due now.  The
\* INACTIVE region counts on it: an update applied there would not set
\* moved_inactive, and the NBA region would overtake its consequences.
OnlyThreadsDueNow ==
  region \notin {"drain", "stopped"} =>
    \A e \in future : e[2] \in DOMAIN future_conts => e[1] > now

\* The bit of a continuous assignment is set exactly while it is queued, and it
\* is queued once.
DirtyAgrees ==
  Injective(cont_dirty) /\ RangeOf(cont_dirty) = cont_queued

-----------------------------------------------------------------------------
(* Liveness, under FairSpec *)

\* The evaluation of the continuous assignments ends, even of assignments that
\* form a loop, delayed or not, and keep queueing each other: eval_conts counts
\* its iterations (interp.rs:1720-1734), and what wakes threads meanwhile does not
\* add to its worklist.
EvaluationEnds == region = "conts" ~> region # "conts"

-----------------------------------------------------------------------------
(* Action properties *)

\* The regions are taken in the order active, inactive, NBA, postponed: a
\* nonblocking assignment is applied, and time moves on, only when everything
\* of the earlier regions has been done; and time never moves back.
RegionOrder ==
  [][/\ nba_queue # <<>> /\ nba_queue' = <<>> => Quiet
     /\ now' # now => /\ Quiet /\ nba_queue = <<>> /\ nba_batch = <<>>
                      /\ now' > now]_vars

\* A thread suspended by #n resumes at the very time it asked for.
DelayIsExact ==
  [][\A s \in DOMAIN future_procs \ DOMAIN future_procs' :
       <<now', s>> \in future]_vars

\* A thread that waits in a fork goes on only when no branch of that fork is
\* left in any queue.
JoinWaitsForAll ==
  [][\A f \in DOMAIN fork_waiters \ DOMAIN fork_waiters' :
       Unfinished(f)' = {}]_vars

\* What the comment of strobe_queue says (interp.rs:83): $strobe prints once
\* the updates of its time have settled.  StopAfterFinish prints before the
\* rest of the batch, the continuous assignments and the NBA region.
StrobeSettled ==
  [][strobe_queue' < strobe_queue => Quiet /\ nba_queue = <<>>]_vars
=============================================================================
