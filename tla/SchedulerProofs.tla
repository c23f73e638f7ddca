--------------------------- MODULE SchedulerProofs ---------------------------
(***************************************************************************)
(* Proofs about the event loop of Scheduler, for every design and bound:   *)
(* where threads are, forks and joins; then the dirty worklist, the heap,   *)
(* time and the order of the regions.                                      *)
(***************************************************************************)
EXTENDS SchedulerProperties, FiniteSetTheorems, TLAPS

-----------------------------------------------------------------------------
(* Sequences and finite functions as the places of threads *)

LEMMA ConcatRange ==
  ASSUME NEW T, NEW s \in Seq(T), NEW u \in Seq(T)
  PROVE  /\ s \o u \in Seq(T)
         /\ RangeOf(s \o u) = RangeOf(s) \cup RangeOf(u)
         /\ Injective(s) /\ Injective(u) /\ RangeOf(s) \cap RangeOf(u) = {}
              => Injective(s \o u)
<1>1. /\ Len(s) \in Nat /\ Len(u) \in Nat
      /\ DOMAIN s = 1..Len(s) /\ DOMAIN u = 1..Len(u)
      /\ DOMAIN (s \o u) = 1..(Len(s) + Len(u))
      /\ \A i \in 1..(Len(s) + Len(u)) :
           (s \o u)[i] = IF i <= Len(s) THEN s[i] ELSE u[i - Len(s)]
  OBVIOUS
<1>2. s \o u \in Seq(T)
  OBVIOUS
<1>3. RangeOf(s \o u) = RangeOf(s) \cup RangeOf(u)
  <2>1. RangeOf(s \o u) \subseteq RangeOf(s) \cup RangeOf(u)
    BY <1>1 DEF RangeOf
  <2>2. RangeOf(s) \subseteq RangeOf(s \o u)
    BY <1>1 DEF RangeOf
  <2>3. ASSUME NEW i \in DOMAIN u
        PROVE  u[i] \in RangeOf(s \o u)
    <3>1. /\ Len(s) + i \in 1..(Len(s) + Len(u))
          /\ (s \o u)[Len(s) + i] = u[i]
      BY <1>1
    <3>2. QED
      BY <3>1, <1>1 DEF RangeOf
  <2>4. QED
    BY <2>1, <2>2, <2>3 DEF RangeOf
<1>4. ASSUME Injective(s), Injective(u), RangeOf(s) \cap RangeOf(u) = {},
             NEW i \in DOMAIN (s \o u), NEW j \in DOMAIN (s \o u),
             (s \o u)[i] = (s \o u)[j]
      PROVE  i = j
  <2>1. CASE i <= Len(s) /\ j <= Len(s)
    <3>1. i \in DOMAIN s /\ j \in DOMAIN s /\ s[i] = s[j]
      BY <1>1, <1>4, <2>1
    <3>2. QED
      BY <3>1, <1>4 DEF Injective
  <2>2. CASE i > Len(s) /\ j > Len(s)
    <3>1. i - Len(s) \in DOMAIN u /\ j - Len(s) \in DOMAIN u
          /\ u[i - Len(s)] = u[j - Len(s)]
      BY <1>1, <1>4, <2>2
    <3>2. i - Len(s) = j - Len(s)
      BY <3>1, <1>4 DEF Injective
    <3>3. QED
      BY <3>2, <1>1
  <2>3. CASE i <= Len(s) /\ j > Len(s)
    <3>1. i \in DOMAIN s /\ j - Len(s) \in DOMAIN u /\ s[i] = u[j - Len(s)]
      BY <1>1, <1>4, <2>3
    <3>2. QED
      BY <3>1, <1>4 DEF RangeOf
  <2>4. CASE i > Len(s) /\ j <= Len(s)
    <3>1. i - Len(s) \in DOMAIN u /\ j \in DOMAIN s /\ u[i - Len(s)] = s[j]
      BY <1>1, <1>4, <2>4
    <3>2. QED
      BY <3>1, <1>4 DEF RangeOf
  <2>5. QED
    BY <1>1, <2>1, <2>2, <2>3, <2>4
<1>5. QED
  BY <1>2, <1>3, <1>4 DEF Injective

LEMMA HeadTailRange ==
  ASSUME NEW T, NEW s \in Seq(T), s # <<>>
  PROVE  /\ Head(s) \in T
         /\ Tail(s) \in Seq(T)
         /\ RangeOf(s) = {Head(s)} \cup RangeOf(Tail(s))
         /\ Injective(s) => Injective(Tail(s)) /\ Head(s) \notin RangeOf(Tail(s))
<1>1. /\ Len(s) \in Nat /\ Len(s) > 0 /\ DOMAIN s = 1..Len(s)
      /\ Head(s) = s[1]
      /\ Tail(s) \in Seq(T)
      /\ DOMAIN Tail(s) = 1..(Len(s) - 1)
      /\ \A i \in 1..(Len(s) - 1) : Tail(s)[i] = s[i + 1]
  OBVIOUS
<1>2. RangeOf(s) \subseteq {Head(s)} \cup RangeOf(Tail(s))
  <2>1. ASSUME NEW i \in DOMAIN s, i # 1
        PROVE  s[i] \in RangeOf(Tail(s))
    <3>1. i - 1 \in 1..(Len(s) - 1) /\ Tail(s)[i - 1] = s[i]
      BY <1>1, <2>1
    <3>2. QED
      BY <3>1, <1>1 DEF RangeOf
  <2>2. QED
    BY <2>1, <1>1 DEF RangeOf
<1>3. {Head(s)} \cup RangeOf(Tail(s)) \subseteq RangeOf(s)
  BY <1>1 DEF RangeOf
<1>4. Injective(s) => Injective(Tail(s)) /\ Head(s) \notin RangeOf(Tail(s))
  BY <1>1 DEF Injective, RangeOf
<1>5. QED
  BY <1>1, <1>2, <1>3, <1>4

LEMMA EmptyRange == RangeOf(<<>>) = {} /\ Injective(<<>>)
  BY DEF RangeOf, Injective

LEMMA SingleRange ==
  ASSUME NEW T, NEW x \in T
  PROVE  <<x>> \in Seq(T) /\ RangeOf(<<x>>) = {x} /\ Injective(<<x>>)
  BY DEF RangeOf, Injective

LEMMA SeqRangeType ==
  ASSUME NEW T, NEW s \in Seq(T)
  PROVE  RangeOf(s) \subseteq T
  BY DEF RangeOf

LEMMA WithRange ==
  ASSUME NEW f, NEW k, NEW v
  PROVE  /\ DOMAIN With(f, k, v) = DOMAIN f \cup {k}
         /\ RangeOf(With(f, k, v)) \subseteq RangeOf(f) \cup {v}
         /\ k \notin DOMAIN f => RangeOf(With(f, k, v)) = RangeOf(f) \cup {v}
         /\ Injective(f) /\ v \notin RangeOf(f) => Injective(With(f, k, v))
  BY DEF With, RangeOf, Injective

LEMMA WithoutRange ==
  ASSUME NEW f, NEW k
  PROVE  /\ DOMAIN Without(f, k) = DOMAIN f \ {k}
         /\ RangeOf(Without(f, k)) \subseteq RangeOf(f)
         /\ RangeOf(f) = RangeOf(Without(f, k)) \cup RangeOf(Lookup(f, k))
         /\ Injective(f) =>
              /\ Injective(Without(f, k))
              /\ RangeOf(Without(f, k)) \cap RangeOf(Lookup(f, k)) = {}
  BY DEF Without, Lookup, RangeOf, Injective

LEMMA LookupType ==
  ASSUME NEW T, NEW f, f \in [DOMAIN f -> T], NEW k
  PROVE  Lookup(f, k) \in Seq(T) /\ Injective(Lookup(f, k))
  BY DEF Lookup, Injective

LEMMA OrderingIs ==
  ASSUME NEW S, IsFiniteSet(S), NEW o \in Orderings(S)
  PROVE  o \in Seq(S) /\ RangeOf(o) = S /\ Injective(o)
<1>1. Cardinality(S) \in Nat
  BY FS_CardinalityType
<1>2. o \in [1..Cardinality(S) -> S]
  BY DEF Orderings
<1>3. o \in Seq(S)
  BY <1>1, <1>2
<1>4. QED
  BY <1>2, <1>3 DEF Orderings, Injective

LEMMA MapProcRange ==
  ASSUME NEW S, S \subseteq event_waiters,
         event_waiters \subseteq [sens : Sensitivities, proc : Threads],
         NEW o \in Seq(S), RangeOf(o) = S, Injective(o)
  PROVE  /\ MapProc(o) \in Seq(Threads)
         /\ RangeOf(MapProc(o)) = {w.proc : w \in S}
         /\ (\A v, w \in event_waiters : v.proc = w.proc => v = w)
              => Injective(MapProc(o))
<1>1. Len(o) \in Nat /\ DOMAIN o = 1..Len(o) /\ \A i \in 1..Len(o) : o[i] \in S
  OBVIOUS
<1>2. DOMAIN MapProc(o) = 1..Len(o)
      /\ \A i \in 1..Len(o) : MapProc(o)[i] = o[i].proc
  BY <1>1 DEF MapProc
<1>3. MapProc(o) \in [1..Len(o) -> Threads]
  BY <1>1 DEF MapProc
<1>4. MapProc(o) \in Seq(Threads)
  BY <1>1, <1>3
<1>5. RangeOf(MapProc(o)) = {w.proc : w \in S}
  BY <1>1, <1>2 DEF RangeOf
<1>6. ASSUME \A v, w \in event_waiters : v.proc = w.proc => v = w
      PROVE  Injective(MapProc(o))
  BY <1>1, <1>2, <1>6 DEF Injective
<1>7. QED
  BY <1>4, <1>5, <1>6

-----------------------------------------------------------------------------
(* One event *)

\* No two registered waiters are the same thread.
DistinctWaiters == \A v, w \in event_waiters : v.proc = w.proc => v = w

\* An event moves waiters to the run queue and loses none; it never queues a
\* continuous assignment twice.
LEMMA TriggerMoves ==
  ASSUME event_waiters \subseteq [sens : Sensitivities, proc : Threads],
         IsFiniteSet(event_waiters),
         NEW n \in Nets, NEW ev,
         NEW a \in Seq(Threads), NEW d \in Seq(Conts), NEW q \in SUBSET Conts,
         TriggerFrom(n, ev, a, d, q)
  PROVE  /\ event_waiters' \subseteq event_waiters
         /\ IsFiniteSet(event_waiters')
         /\ active' \in Seq(Threads)
         /\ cont_dirty' \in Seq(Conts) /\ cont_queued' \subseteq Conts
         /\ RangeOf(a) \subseteq RangeOf(active')
         /\ RangeOf(active') \cup Waiting' = RangeOf(a) \cup Waiting
         /\ DistinctWaiters /\ Injective(a) /\ RangeOf(a) \cap Waiting = {}
              => Injective(active') /\ RangeOf(active') \cap Waiting' = {}
         /\ Injective(d) /\ RangeOf(d) = q
              => Injective(cont_dirty') /\ RangeOf(cont_dirty') = cont_queued'
<1> DEFINE woken == {w \in event_waiters : Wakes(w.sens, n, ev)}
           dirty == IF ev = "none" THEN {} ELSE Unmarked(n, q)
           procs(S) == {w.proc : w \in S}
<1>1. /\ event_waiters' = event_waiters \ woken
      /\ \E o \in Orderings(woken) : active' = a \o MapProc(o)
      /\ \E o \in Orderings(dirty) : cont_dirty' = d \o o
      /\ cont_queued' = q \cup dirty
  BY DEF TriggerFrom
<1>2. /\ woken \subseteq event_waiters /\ IsFiniteSet(woken)
      /\ IsFiniteSet(event_waiters')
  BY <1>1, FS_Subset
<1>3. dirty \subseteq Conts /\ IsFiniteSet(dirty) /\ dirty \cap q = {}
  BY SchedulerAssumption, FS_Subset DEF Unmarked
<1>4. PICK o \in Orderings(woken) : active' = a \o MapProc(o)
  BY <1>1
<1>5. o \in Seq(woken) /\ RangeOf(o) = woken /\ Injective(o)
  BY <1>2, OrderingIs
<1>6. /\ MapProc(o) \in Seq(Threads)
      /\ RangeOf(MapProc(o)) = procs(woken)
      /\ DistinctWaiters => Injective(MapProc(o))
  BY <1>2, <1>5, MapProcRange DEF DistinctWaiters
<1>7. /\ active' \in Seq(Threads)
      /\ RangeOf(active') = RangeOf(a) \cup procs(woken)
      /\ Injective(a) /\ Injective(MapProc(o)) /\ RangeOf(a) \cap procs(woken) = {}
           => Injective(active')
  BY <1>4, <1>6, ConcatRange
<1>8. /\ Waiting = procs(event_waiters)
      /\ Waiting' = procs(event_waiters \ woken)
      /\ Waiting = Waiting' \cup procs(woken)
  BY <1>1, <1>2 DEF Waiting
<1>9. DistinctWaiters => Waiting' \cap procs(woken) = {}
  BY <1>8 DEF DistinctWaiters
<1>10. PICK u \in Orderings(dirty) : cont_dirty' = d \o u
  BY <1>1
<1>11. u \in Seq(Conts) /\ RangeOf(u) = dirty /\ Injective(u)
  BY <1>3, OrderingIs
<1>12. /\ cont_dirty' \in Seq(Conts)
       /\ RangeOf(cont_dirty') = RangeOf(d) \cup dirty
       /\ Injective(d) /\ RangeOf(d) \cap dirty = {} => Injective(cont_dirty')
  BY <1>10, <1>11, ConcatRange
<1>13. QED
  BY <1>1, <1>2, <1>3, <1>6, <1>7, <1>8, <1>9, <1>12

-----------------------------------------------------------------------------
(* Types *)

LEMMA FiniteImage ==
  ASSUME NEW f, IsFiniteSet(DOMAIN f)
  PROVE  IsFiniteSet(RangeOf(f))
<1> DEFINE g == [x \in DOMAIN f |-> f[x]]
<1>1. g \in Surjection(DOMAIN f, RangeOf(f))
  BY DEF Surjection, RangeOf
<1>2. QED
  BY <1>1, FS_Surjection

\* The processes registered before time 0.
FirstWaiters == {i \in 1..NumProcs : WaitsFirst(i)}
FirstWaiter == [i \in FirstWaiters |->
                  [sens |-> AlwaysSens[i], proc |-> <<0, i>>]]

LEMMA InitialPlaces ==
  ASSUME Init
  PROVE  /\ Seeded \subseteq Threads /\ IsFiniteSet(Seeded)
         /\ active \in Seq(Threads) /\ RangeOf(active) = Seeded
         /\ Injective(active)
         /\ event_waiters = RangeOf(FirstWaiter)
         /\ event_waiters \subseteq [sens : Sensitivities, proc : Threads]
         /\ IsFiniteSet(event_waiters)
         /\ cont_dirty \in Seq(Conts) /\ RangeOf(cont_dirty) = Conts
         /\ Injective(cont_dirty)
<1> DEFINE I == {j \in 1..NumProcs : ~WaitsFirst(j)}
           thread == [i \in I |-> <<0, i>>]
<1>1. IsFiniteSet(1..NumProcs)
  <2>1. NumProcs \in Int
    BY SchedulerAssumption
  <2>2. QED
    BY <2>1, FS_Interval
<1>2. IsFiniteSet(I) /\ IsFiniteSet(FirstWaiters)
  BY <1>1, FS_Subset DEF FirstWaiters
<1>3. Seeded = RangeOf(thread)
  BY DEF Seeded, RangeOf
<1>4. Seeded \subseteq Threads
  BY DEF Seeded, Threads
<1>5. IsFiniteSet(Seeded)
  BY <1>2, <1>3, FiniteImage
<1>6. active \in Seq(Seeded) /\ RangeOf(active) = Seeded /\ Injective(active)
  BY <1>5, OrderingIs DEF Init
<1>7. active \in Seq(Threads)
  BY <1>4, <1>6
<1>8. event_waiters = RangeOf(FirstWaiter)
  BY DEF Init, FirstWaiter, FirstWaiters, RangeOf
<1>9. IsFiniteSet(event_waiters)
  BY <1>2, <1>8, FiniteImage DEF FirstWaiter
<1>10. event_waiters \subseteq [sens : Sensitivities, proc : Threads]
  <2>1. ASSUME NEW i \in FirstWaiters
        PROVE  FirstWaiter[i] \in [sens : Sensitivities, proc : Threads]
    <3>1. i \in Nat /\ i \in AlwaysProcs
      BY DEF FirstWaiters, WaitsFirst
    <3>2. AlwaysSens[i] \in Sensitivities
      BY <3>1, SchedulerAssumption
    <3>3. QED
      BY <3>1, <3>2 DEF FirstWaiter, Threads
  <2>2. QED
    BY <1>8, <2>1 DEF RangeOf, FirstWaiter
<1>11. cont_dirty \in Seq(Conts) /\ RangeOf(cont_dirty) = Conts
       /\ Injective(cont_dirty)
  BY SchedulerAssumption, OrderingIs DEF Init
<1>12. QED
  BY <1>4, <1>5, <1>6, <1>7, <1>8, <1>9, <1>10, <1>11

LEMMA Bounds ==
  /\ ContLimit \in Nat /\ MaxTime \in Nat /\ MaxSeq \in Nat
  /\ MaxForks \in Nat /\ MaxBranches \in Nat /\ MaxNba \in Nat
  /\ MaxStrobe \in Nat
  BY SchedulerAssumption

LEMMA NoStrobe == 0 \in 0..MaxStrobe
  BY Bounds

LEMMA TypeInit == Init => TypeOK
<1> SUFFICES ASSUME Init PROVE TypeOK
  OBVIOUS
<1>1. /\ active \in Seq(Threads) /\ cont_dirty \in Seq(Conts)
      /\ event_waiters \subseteq [sens : Sensitivities, proc : Threads]
      /\ IsFiniteSet(event_waiters)
  BY InitialPlaces
<1>2. /\ future_procs \in [DOMAIN future_procs -> Threads]
      /\ future_conts \in [DOMAIN future_conts -> Conts]
      /\ DOMAIN future_procs = {} /\ DOMAIN future_conts = {}
      /\ fork_remaining \in [DOMAIN fork_remaining -> 1..MaxBranches]
      /\ DOMAIN fork_remaining = {} /\ DOMAIN fork_waiters = {}
      /\ fork_waiters \in [DOMAIN fork_waiters -> Threads]
  BY DEF Init
<1>3. /\ nba_queue \in Seq(Nets) /\ nba_batch \in Seq(Nets)
      /\ batch \in Seq(Threads)
  BY DEF Init
<1>4. /\ region \in Regions /\ running \subseteq Threads
      /\ future \subseteq Nat \X (1..seq)
      /\ moved_inactive \in BOOLEAN /\ finished \in BOOLEAN
      /\ cont_queued \subseteq Conts
  BY DEF Init, Regions
<1>5. /\ fork_seq \in 0..MaxForks /\ seq \in 0..MaxSeq /\ now \in 0..MaxTime
      /\ strobe_queue \in 0..MaxStrobe /\ evals \in Nat
  BY Bounds DEF Init
<1>6. QED
  BY <1>1, <1>2, <1>3, <1>4, <1>5 DEF TypeOK

LEMMA ScheduleType ==
  ASSUME TypeOK, NEW time \in Nat, Schedule(time)
  PROVE  /\ seq' = seq + 1 /\ seq' \in 1..MaxSeq
         /\ 1..seq \subseteq 1..seq' /\ seq' \notin 1..seq
         /\ future' \subseteq Nat \X (1..seq')
         /\ future' = future \cup {<<time, seq'>>}
<1>1. seq \in 0..MaxSeq /\ future \subseteq Nat \X (1..seq)
  BY DEF TypeOK
<1>2. /\ seq < MaxSeq /\ seq' = seq + 1
      /\ future' = future \cup {<<time, seq'>>}
  BY DEF Schedule
<1>3. seq' \in 1..MaxSeq /\ 1..seq \subseteq 1..seq' /\ seq' \notin 1..seq
      /\ seq' \in 1..seq'
  BY <1>1, <1>2, Bounds
<1>4. future' \subseteq Nat \X (1..seq')
  BY <1>1, <1>2, <1>3
<1>5. QED
  BY <1>2, <1>3, <1>4

\* Adding an entry to one of the maps.
LEMMA WithType ==
  ASSUME NEW T, NEW f, f \in [DOMAIN f -> T], NEW k, NEW v \in T
  PROVE  With(f, k, v) \in [DOMAIN With(f, k, v) -> T]
  BY DEF With

LEMMA WithoutType ==
  ASSUME NEW T, NEW f, f \in [DOMAIN f -> T], NEW k
  PROVE  Without(f, k) \in [DOMAIN Without(f, k) -> T]
  BY DEF Without

\* The variables a write can reach keep their types.
WakeTypes ==
  /\ event_waiters \subseteq [sens : Sensitivities, proc : Threads]
  /\ IsFiniteSet(event_waiters)
  /\ active \in Seq(Threads)
  /\ cont_dirty \in Seq(Conts) /\ cont_queued \subseteq Conts

LEMMA DeliverTypes ==
  ASSUME TypeOK, NEW e \in future, Deliver(e)
  PROVE  /\ WakeTypes'
         /\ future' \subseteq Nat \X (1..seq)
         /\ future_procs' \in [DOMAIN future_procs' -> Threads]
         /\ future_conts' \in [DOMAIN future_conts' -> Conts]
         /\ DOMAIN future_procs' \cup DOMAIN future_conts' \subseteq 1..seq
<1> DEFINE s == e[2]
           a == active \o Lookup(future_procs, s)
<1>1. a \in Seq(Threads)
  <2>1. Lookup(future_procs, s) \in Seq(Threads)
    BY LookupType DEF TypeOK
  <2>2. QED
    BY <2>1, ConcatRange DEF TypeOK
<1>2. WakeTypes'
  <2>1. CASE s \notin DOMAIN future_conts
    BY <1>1, <2>1 DEF Deliver, TypeOK, WakeTypes
  <2>2. CASE s \in DOMAIN future_conts
    <3>1. ContTarget[future_conts[s]] \in Nets
      BY <2>2, SchedulerAssumption DEF TypeOK
    <3>2. PICK ev \in Events : TriggerFrom(ContTarget[future_conts[s]], ev, a,
                                           cont_dirty, cont_queued)
      BY <2>2 DEF Deliver
    <3>3. QED
      BY <1>1, <3>1, <3>2, TriggerMoves DEF TypeOK, WakeTypes
  <2>3. QED
    BY <2>1, <2>2
<1>3. future_procs' = Without(future_procs, s)
      /\ future_conts' = Without(future_conts, s)
      /\ future' \subseteq future
  BY DEF Deliver
<1>4. DOMAIN future_procs' \subseteq DOMAIN future_procs
      /\ DOMAIN future_conts' \subseteq DOMAIN future_conts
  BY <1>3 DEF Without
<1>5. QED
  BY <1>2, <1>3, <1>4, WithoutType DEF TypeOK

LEMMA StatementTypes ==
  ASSUME TypeOK, Statement
  PROVE  TypeOK'
<1> USE DEF wakeVars, forkVars, timeVars, locals, Return, Continue, Regions
<1>1. PICK t \in running :
        \/ \E n \in Nets, ev \in Events : BlockingAssign(n, ev)
        \/ \E n \in Nets : NbaAssign(n)
        \/ \E d \in Delays : Delay(t, d)
        \/ \E sens \in EventCtls : Wait(t, sens)
        \/ \E k \in 1..MaxBranches : Fork(t, k)
        \/ EndInitial(t)
        \/ EndAlways(t)
        \/ EndBranch(t)
        \/ \E strobe \in {0, 1} : SysTask(strobe)
        \/ Finish
        \/ FinishInFunction
  BY DEF Statement
<1>2. UNCHANGED locals
  BY DEF Statement
<1>3. t \in Threads /\ now \in Nat
  BY Bounds DEF TypeOK
<1>4. ASSUME NEW n \in Nets, NEW ev \in Events, BlockingAssign(n, ev)
      PROVE  TypeOK'
  <2>1. WakeTypes'
    <3>1. TriggerFrom(n, ev, active, cont_dirty, cont_queued)
      BY <1>4 DEF BlockingAssign, Trigger
    <3>2. QED
      BY <3>1, TriggerMoves DEF TypeOK, WakeTypes
  <2>2. QED
    BY <1>2, <1>4, <2>1 DEF BlockingAssign, TypeOK, WakeTypes
<1>5. ASSUME NEW n \in Nets, NbaAssign(n)
      PROVE  TypeOK'
  BY <1>2, <1>5, SMTT(20) DEF NbaAssign, TypeOK
<1>6. ASSUME NEW d \in Delays, Delay(t, d)
      PROVE  TypeOK'
  <2>1. now + d \in Nat
    BY <1>3, SchedulerAssumption
  <2>2. /\ seq' \in 1..MaxSeq /\ 1..seq \subseteq 1..seq'
        /\ future' \subseteq Nat \X (1..seq')
        /\ seq' \in 1..seq'
    BY <1>6, <2>1, ScheduleType DEF Delay
  <2>3. /\ future_procs' \in [DOMAIN future_procs' -> Threads]
        /\ DOMAIN future_procs' \subseteq 1..seq'
    BY <1>3, <1>6, <2>2, WithType DEF Delay, TypeOK, With
  <2>4. QED
    BY <1>2, <1>6, <2>2, <2>3, SMTT(20) DEF Delay, TypeOK
<1>7. ASSUME NEW sens \in Sensitivities, Wait(t, sens)
      PROVE  TypeOK'
  <2>1. event_waiters' = event_waiters \cup {[sens |-> sens, proc |-> t]}
    BY <1>7 DEF Wait
  <2>2. event_waiters' \subseteq [sens : Sensitivities, proc : Threads]
    BY <1>3, <2>1 DEF TypeOK
  <2>3. IsFiniteSet(event_waiters')
    BY <2>1, FS_AddElement DEF TypeOK
  <2>4. QED
    BY <1>2, <1>7, <2>2, <2>3 DEF Wait, TypeOK
<1>8. ASSUME NEW k \in 1..MaxBranches, Fork(t, k)
      PROVE  TypeOK'
  <2>1. /\ fork_seq' \in 0..MaxForks /\ fork_seq' \in 1..fork_seq'
        /\ 1..fork_seq \subseteq 1..fork_seq'
    <3>1. fork_seq \in 0..MaxForks
      BY DEF TypeOK
    <3>2. fork_seq < MaxForks /\ fork_seq' = fork_seq + 1
      BY <1>8 DEF Fork
    <3>3. QED
      BY <3>1, <3>2, Bounds
  <2>2. active' \in Seq(Threads)
    <3>1. Branches(fork_seq', k) \in Seq(Threads)
      BY <2>1 DEF Branches, Threads
    <3>2. QED
      BY <1>8, <3>1, ConcatRange DEF Fork, TypeOK
  <2>3. /\ fork_remaining' \in [DOMAIN fork_remaining' -> 1..MaxBranches]
        /\ DOMAIN fork_remaining' \cup DOMAIN fork_waiters' \subseteq 1..fork_seq'
        /\ fork_waiters' \in [DOMAIN fork_waiters' -> Threads]
    BY <1>3, <1>8, <2>1, WithType DEF Fork, TypeOK, With
  <2>4. QED
    BY <1>2, <1>8, <2>1, <2>2, <2>3 DEF Fork, TypeOK
<1>9. CASE EndInitial(t)
  BY <1>2, <1>9 DEF EndInitial, TypeOK
<1>10. CASE EndAlways(t)
  BY <1>7, <1>10, SchedulerAssumption DEF EndAlways
<1>11. CASE EndBranch(t)
  <2> DEFINE f == ForkOf(t)
  <2>1. /\ fork_remaining' \in [DOMAIN fork_remaining' -> 1..MaxBranches]
        /\ DOMAIN fork_remaining' \cup DOMAIN fork_waiters' \subseteq 1..fork_seq
        /\ fork_waiters' \in [DOMAIN fork_waiters' -> Threads]
        /\ active' \in Seq(Threads)
    <3>1. CASE ~LastBranch(f)
      <4>1. /\ f \in DOMAIN fork_remaining
            /\ fork_remaining' = [fork_remaining EXCEPT ![f] = @ - 1]
            /\ UNCHANGED <<fork_waiters, active>>
        BY <1>11, <3>1 DEF EndBranch
      <4>2. fork_remaining[f] - 1 \in 1..MaxBranches
        <5>1. fork_remaining[f] \in 1..MaxBranches /\ fork_remaining[f] # 1
          BY <3>1, <4>1 DEF LastBranch, TypeOK
        <5>2. QED
          BY <5>1, Bounds
      <4>3. QED
        BY <4>1, <4>2 DEF TypeOK
    <3>2. CASE LastBranch(f)
      <4>1. /\ fork_remaining' = Without(fork_remaining, f)
            /\ fork_waiters' = Without(fork_waiters, f)
            /\ active' = active \o Lookup(fork_waiters, f)
        BY <1>11, <3>2 DEF EndBranch
      <4>2. active' \in Seq(Threads)
        <5>1. Lookup(fork_waiters, f) \in Seq(Threads)
          BY LookupType DEF TypeOK
        <5>2. QED
          BY <4>1, <5>1, ConcatRange DEF TypeOK
      <4>3. QED
        BY <4>1, <4>2 DEF TypeOK, Without
    <3>3. QED
      BY <3>1, <3>2
  <2>2. QED
    BY <1>2, <1>11, <2>1 DEF EndBranch, TypeOK
<1>12. ASSUME NEW strobe \in {0, 1}, SysTask(strobe)
       PROVE  TypeOK'
  <2>1. strobe_queue' \in 0..MaxStrobe
    <3>1. strobe_queue' = strobe_queue + strobe /\ strobe_queue' <= MaxStrobe
      BY <1>12 DEF SysTask
    <3>2. strobe_queue \in 0..MaxStrobe
      BY DEF TypeOK
    <3>3. QED
      BY <3>1, <3>2, Bounds
  <2>2. QED
    BY <1>2, <1>12, <2>1 DEF SysTask, TypeOK
<1>13. CASE Finish
  BY <1>2, <1>13 DEF Finish, TypeOK
<1>14. CASE FinishInFunction
  BY <1>2, <1>14 DEF FinishInFunction, TypeOK
<1>15. QED
  BY <1>1, <1>4, <1>5, <1>6, <1>7, <1>8, <1>9, <1>10, <1>11, <1>12, <1>13,
     <1>14, SchedulerAssumption

LEMMA EvalContTypes ==
  ASSUME TypeOK, EvalCont
  PROVE  TypeOK'
<1> USE DEF wakeVars, forkVars, timeVars, locals
<1> DEFINE c == Head(cont_dirty)
           rest == Tail(cont_dirty)
           queued == cont_queued \ {c}
<1>1. /\ c \in Conts /\ rest \in Seq(Conts) /\ queued \subseteq Conts
      /\ evals' \in Nat
  <2>1. cont_dirty \in Seq(Conts) /\ cont_dirty # <<>> /\ evals \in Nat
        /\ evals' = evals + 1 /\ cont_queued \subseteq Conts
    BY DEF TypeOK, EvalCont, Count
  <2>2. QED
    BY <2>1, HeadTailRange
<1>2. \/ /\ \E ev \in Events :
              TriggerFrom(ContTarget[c], ev, active, rest, queued)
         /\ UNCHANGED timeVars
      \/ /\ cont_dirty' = rest /\ cont_queued' = queued
         /\ UNCHANGED <<active, event_waiters, timeVars>>
      \/ /\ Schedule(now + ContDelay[c])
         /\ future_conts' = With(future_conts, seq', c)
         /\ cont_dirty' = rest /\ cont_queued' = queued
         /\ UNCHANGED <<active, event_waiters, future_procs, now>>
      \/ /\ cont_dirty' = <<>> /\ cont_queued' = {}
         /\ UNCHANGED <<active, event_waiters, timeVars>>
  BY DEF EvalCont, Count
<1>3. /\ finished' \in BOOLEAN
      /\ UNCHANGED <<region, running, batch, forkVars, nba_queue, nba_batch,
                     moved_inactive, strobe_queue>>
  BY SchedulerAssumption DEF EvalCont, Count, TypeOK
<1>4. CASE /\ \E ev \in Events :
                TriggerFrom(ContTarget[c], ev, active, rest, queued)
           /\ UNCHANGED timeVars
  <2>1. ContTarget[c] \in Nets
    BY <1>1, SchedulerAssumption
  <2>2. WakeTypes'
    BY <1>1, <1>4, <2>1, TriggerMoves DEF TypeOK, WakeTypes
  <2>3. QED
    BY <1>1, <1>3, <1>4, <2>2 DEF TypeOK, WakeTypes
<1>5. CASE /\ cont_dirty' = rest /\ cont_queued' = queued
           /\ UNCHANGED <<active, event_waiters, timeVars>>
  BY <1>1, <1>3, <1>5 DEF TypeOK
<1>6. CASE /\ Schedule(now + ContDelay[c])
           /\ future_conts' = With(future_conts, seq', c)
           /\ cont_dirty' = rest /\ cont_queued' = queued
           /\ UNCHANGED <<active, event_waiters, future_procs, now>>
  <2>1. now + ContDelay[c] \in Nat
    <3>1. now \in Nat /\ ContDelay[c] \in Nat
      <4>1. now \in 0..MaxTime
        BY DEF TypeOK
      <4>2. QED
        BY <1>1, <4>1, SchedulerAssumption
    <3>2. QED
      BY <3>1
  <2>2. /\ seq' \in 1..MaxSeq /\ 1..seq \subseteq 1..seq'
        /\ future' \subseteq Nat \X (1..seq')
        /\ seq' \in 1..seq'
    BY <1>6, <2>1, ScheduleType
  <2>3. /\ future_conts' \in [DOMAIN future_conts' -> Conts]
        /\ DOMAIN future_conts' \subseteq 1..seq'
    BY <1>1, <1>6, <2>2, WithType DEF TypeOK, With
  <2>4. /\ seq' \in 0..MaxSeq /\ future' \subseteq Nat \X (1..seq')
        /\ DOMAIN future_procs \cup DOMAIN future_conts' \subseteq 1..seq'
    <3>1. DOMAIN future_procs \subseteq 1..seq
      BY DEF TypeOK
    <3>2. QED
      BY <2>2, <2>3, <3>1
  <2>5. QED
    BY <1>1, <1>3, <1>6, <2>3, <2>4 DEF TypeOK
<1>7. CASE /\ cont_dirty' = <<>> /\ cont_queued' = {}
           /\ UNCHANGED <<active, event_waiters, timeVars>>
  BY <1>1, <1>3, <1>7 DEF TypeOK
<1>8. QED
  BY <1>2, <1>4, <1>5, <1>6, <1>7

LEMMA TypeNext == TypeOK /\ [Next]_vars => TypeOK'
<1> SUFFICES ASSUME TypeOK, [Next]_vars PROVE TypeOK'
  OBVIOUS
<1> USE DEF wakeVars, forkVars, timeVars, locals, Regions, LoopTop
<1>1. CASE Statement
  BY <1>1, StatementTypes
<1>2. CASE StartThread
  <2>1. /\ running' \subseteq Threads /\ batch' \in Seq(Threads)
        /\ active' \in Seq(Threads)
    <3>1. batch \in Seq(Threads) /\ active \in Seq(Threads)
      BY DEF TypeOK
    <3>2. \/ /\ batch # <<>>
             /\ running' = {Head(batch)} /\ batch' = Tail(batch)
             /\ active' = active
          \/ /\ active # <<>>
             /\ running' = {Head(active)} /\ batch' = Tail(active)
             /\ active' = <<>>
      BY <1>2 DEF StartThread
    <3>3. CASE batch # <<>> /\ running' = {Head(batch)}
               /\ batch' = Tail(batch) /\ active' = active
      <4>1. Head(batch) \in Threads /\ Tail(batch) \in Seq(Threads)
        BY <3>1, <3>3, HeadTailRange
      <4>2. QED
        BY <3>1, <3>3, <4>1
    <3>4. CASE active # <<>> /\ running' = {Head(active)}
               /\ batch' = Tail(active) /\ active' = <<>>
      <4>1. Head(active) \in Threads /\ Tail(active) \in Seq(Threads)
        BY <3>1, <3>4, HeadTailRange
      <4>2. QED
        BY <3>4, <4>1
    <3>5. QED
      BY <3>2, <3>3, <3>4
  <2>2. QED
    BY <1>2, <2>1 DEF StartThread, TypeOK
<1>3. CASE StopAfterFinish
  BY <1>3, NoStrobe DEF StopAfterFinish, TypeOK
<1>4. CASE EndActive
  BY <1>4 DEF EndActive, TypeOK
<1>5. CASE EvalCont
  BY <1>5, EvalContTypes
<1>6. CASE EndConts
  BY <1>6 DEF EndConts, TypeOK
<1>7. CASE PopInactive
  <2>1. PICK e \in future :
          /\ Deliver(e)
          /\ moved_inactive' = (moved_inactive \/ e[2] \in DOMAIN future_procs)
    BY <1>7 DEF PopInactive
  <2>2. UNCHANGED <<region, now>> /\ moved_inactive' \in BOOLEAN
    BY <1>7, <2>1 DEF PopInactive
  <2>3. UNCHANGED <<running, batch, forkVars, seq, evals, nba_queue, nba_batch,
                    strobe_queue, finished>>
    BY <2>1 DEF Deliver
  <2>4. QED
    BY <2>1, <2>2, <2>3, DeliverTypes DEF TypeOK, WakeTypes
<1>8. CASE EndInactive
  <2>1. moved_inactive' = FALSE
        /\ UNCHANGED <<running, batch, wakeVars, forkVars, timeVars, evals,
                       strobe_queue, finished>>
    BY <1>8 DEF EndInactive
  <2>2. CASE nba_batch' = nba_queue /\ nba_queue' = <<>> /\ region' = "nba"
    <3>1. nba_batch' \in Seq(Nets)
      BY <2>2 DEF TypeOK
    <3>2. nba_queue' \in Seq(Nets)
      BY <2>2
    <3>3. QED
      BY <2>1, <2>2, <3>1, <3>2 DEF TypeOK
  <2>3. CASE UNCHANGED <<nba_queue, nba_batch>>
             /\ region' \in {"stopped", "active", "postponed"}
    BY <2>1, <2>3 DEF TypeOK
  <2>4. QED
    BY <1>8, <2>2, <2>3 DEF EndInactive
<1>9. CASE ApplyNba
  <2>1. CASE nba_batch # <<>>
    <3>1. /\ nba_batch' = Tail(nba_batch) /\ UNCHANGED region
          /\ UNCHANGED <<running, batch, forkVars, timeVars, evals, nba_queue,
                         moved_inactive, strobe_queue, finished>>
      BY <1>9, <2>1 DEF ApplyNba
    <3>2. Head(nba_batch) \in Nets /\ nba_batch' \in Seq(Nets)
      BY <2>1, <3>1, HeadTailRange DEF TypeOK
    <3>3. PICK ev \in Events : TriggerFrom(Head(nba_batch), ev, active,
                                           cont_dirty, cont_queued)
      BY <1>9, <2>1 DEF ApplyNba, Trigger
    <3>4. WakeTypes'
      BY <3>2, <3>3, TriggerMoves DEF TypeOK, WakeTypes
    <3>5. QED
      BY <3>1, <3>2, <3>4 DEF TypeOK, WakeTypes
  <2>2. CASE nba_batch = <<>>
    BY <1>9, <2>2 DEF ApplyNba, TypeOK
  <2>3. QED
    BY <2>1, <2>2
<1>10. CASE Postponed
  BY <1>10, NoStrobe DEF Postponed, TypeOK
<1>11. CASE Advance
  <2>1. PICK e \in future :
          \/ /\ e[1] <= MaxTime /\ now' = e[1]
             /\ region' = "drain" /\ Deliver(e)
          \/ /\ future' = future \ {e}
             /\ region' = "stopped"
             /\ UNCHANGED <<running, batch, wakeVars, forkVars, future_procs,
                            future_conts, seq, now, evals, nba_queue,
                            nba_batch, strobe_queue, finished>>
    BY <1>11 DEF Advance
  <2>2. UNCHANGED moved_inactive
    BY <1>11 DEF Advance
  <2>3. CASE e[1] <= MaxTime /\ now' = e[1] /\ region' = "drain" /\ Deliver(e)
    <3>1. now' \in 0..MaxTime
      <4>1. e[1] \in Nat
        BY DEF TypeOK
      <4>2. QED
        BY <2>3, <4>1, Bounds
    <3>2. UNCHANGED <<running, batch, forkVars, seq, evals, nba_queue,
                      nba_batch, strobe_queue, finished>>
      BY <2>3 DEF Deliver
    <3>3. QED
      BY <2>2, <2>3, <3>1, <3>2, DeliverTypes DEF TypeOK, WakeTypes
  <2>4. CASE /\ future' = future \ {e}
             /\ region' = "stopped"
             /\ UNCHANGED <<running, batch, wakeVars, forkVars, future_procs,
                            future_conts, seq, now, evals, nba_queue,
                            nba_batch, strobe_queue, finished>>
    BY <2>2, <2>4 DEF TypeOK
  <2>5. QED
    BY <2>1, <2>3, <2>4
<1>12. CASE Drain
  <2>1. PICK e \in future : Deliver(e)
    BY <1>12 DEF Drain
  <2>2. UNCHANGED <<region, now, moved_inactive>>
    BY <1>12 DEF Drain
  <2>3. UNCHANGED <<running, batch, forkVars, seq, evals, nba_queue, nba_batch,
                    strobe_queue, finished>>
    BY <2>1 DEF Deliver
  <2>4. QED
    BY <2>1, <2>2, <2>3, DeliverTypes DEF TypeOK, WakeTypes
<1>13. CASE EndDrain
  BY <1>13 DEF EndDrain, TypeOK
<1>14. CASE Stopped \/ UNCHANGED vars
  BY <1>14 DEF Stopped, vars, TypeOK
<1>15. QED
  BY <1>1, <1>2, <1>3, <1>4, <1>5, <1>6, <1>7, <1>8, <1>9, <1>10, <1>11,
     <1>12, <1>13, <1>14 DEF Next

\* Every reachable state of the event loop is well typed, whatever the design
\* and the bounds are.
THEOREM TypeCorrect == Spec => []TypeOK
<1>1. Init => TypeOK
  BY TypeInit
<1>2. TypeOK /\ [Next]_vars => TypeOK'
  BY TypeNext
<1>3. QED
  BY <1>1, <1>2, PTL DEF Spec

-----------------------------------------------------------------------------
(* Every thread in one place *)

\* Fork ids are handed out in order.
BranchesKnown == \A t \in Located : ForkOf(t) <= fork_seq

\* Only the ACTIVE region runs processes.
RunsInActive == running # {} => region = "active"

\* A step that ends no thread and makes none, unless it ends the run.
Moves ==
  /\ UNCHANGED forkVars
  /\ Located' \subseteq Located
  /\ InProgress' => Located' = Located

\* An event, with the rest of the queues in place.
LEMMA TriggerOnePlace ==
  ASSUME TypeOK, OnePlace,
         NEW n \in Nets, NEW ev, NEW d \in Seq(Conts), NEW q \in SUBSET Conts,
         TriggerFrom(n, ev, active, d, q),
         UNCHANGED <<running, batch, future_procs, forkVars>>
  PROVE  OnePlace' /\ Moves
<1>1. /\ event_waiters' \subseteq event_waiters
      /\ RangeOf(active') \cup Waiting' = RangeOf(active) \cup Waiting
      /\ DistinctWaiters /\ Injective(active) /\ RangeOf(active) \cap Waiting = {}
           => Injective(active') /\ RangeOf(active') \cap Waiting' = {}
  BY TriggerMoves DEF TypeOK
<1>2. DistinctWaiters /\ Injective(active) /\ RangeOf(active) \cap Waiting = {}
  BY DEF OnePlace, Apart, DistinctWaiters
<1>3. Located' = Located
  BY <1>1 DEF Located, forkVars
<1>4. Apart(running, RangeOf(batch), RangeOf(active), RangeOf(future_procs),
            Waiting, RangeOf(fork_waiters))'
  BY <1>1, <1>2 DEF OnePlace, Apart, forkVars
<1>5. \A v, w \in event_waiters' : v.proc = w.proc => v = w
  BY <1>1 DEF OnePlace
<1>6. OnePlace'
  BY <1>1, <1>2, <1>4, <1>5 DEF OnePlace, forkVars
<1>7. QED
  BY <1>3, <1>6 DEF Moves

\* A popped entry of the future queue.
LEMMA DeliverOnePlace ==
  ASSUME TypeOK, OnePlace, NEW e \in future, Deliver(e)
  PROVE  OnePlace' /\ Moves
<1> DEFINE s == e[2]
           p == Lookup(future_procs, s)
           a == active \o p
<1>1. /\ RangeOf(future_procs) = RangeOf(future_procs') \cup RangeOf(p)
      /\ Injective(future_procs')
      /\ RangeOf(future_procs') \cap RangeOf(p) = {}
  BY WithoutRange DEF Deliver, OnePlace
<1>2. p \in Seq(Threads) /\ Injective(p)
  BY LookupType DEF TypeOK
<1>3. a \in Seq(Threads) /\ RangeOf(a) = RangeOf(active) \cup RangeOf(p)
  BY <1>2, ConcatRange DEF TypeOK
<1>4. Injective(a)
  <2>1. RangeOf(active) \cap RangeOf(p) = {}
    BY <1>1 DEF OnePlace, Apart
  <2>2. QED
    BY <1>2, <2>1, ConcatRange DEF TypeOK, OnePlace
<1>5. RangeOf(a) \cap Waiting = {}
  BY <1>1, <1>3 DEF OnePlace, Apart
<1>6. /\ event_waiters' \subseteq event_waiters
      /\ RangeOf(active') \cup Waiting' = RangeOf(a) \cup Waiting
      /\ Injective(active') /\ RangeOf(active') \cap Waiting' = {}
  <2>1. CASE s \notin DOMAIN future_conts
    BY <1>4, <1>5, <2>1 DEF Deliver, Waiting
  <2>2. CASE s \in DOMAIN future_conts
    <3>1. ContTarget[future_conts[s]] \in Nets
      BY <2>2, SchedulerAssumption DEF TypeOK
    <3>2. PICK ev \in Events : TriggerFrom(ContTarget[future_conts[s]], ev, a,
                                           cont_dirty, cont_queued)
      BY <2>2 DEF Deliver
    <3>3. DistinctWaiters
      BY DEF OnePlace, DistinctWaiters
    <3>4. QED
      BY <1>3, <1>4, <1>5, <3>1, <3>2, <3>3, TriggerMoves DEF TypeOK
  <2>3. QED
    BY <2>1, <2>2
<1>7. UNCHANGED <<running, batch, forkVars>>
  BY DEF Deliver
<1>8. Located' = Located
  BY <1>1, <1>3, <1>6, <1>7 DEF Located, forkVars
<1>9. Apart(running, RangeOf(batch), RangeOf(active), RangeOf(future_procs),
            Waiting, RangeOf(fork_waiters))'
  BY <1>1, <1>3, <1>6, <1>7 DEF OnePlace, Apart, forkVars
<1>10. \A v, w \in event_waiters' : v.proc = w.proc => v = w
  BY <1>6 DEF OnePlace
<1>11. OnePlace'
  BY <1>1, <1>6, <1>7, <1>9, <1>10 DEF OnePlace, forkVars
<1>12. QED
  BY <1>7, <1>8, <1>11 DEF Moves

\* The running thread leaves the CPU for nowhere.
Ends(t) == Located' = Located \ {t} /\ fork_seq' = fork_seq

LEMMA RunningAlone ==
  ASSUME OnePlace, NEW t \in running
  PROVE  /\ running = {t}
         /\ t \in Located
         /\ t \notin RangeOf(batch) \cup RangeOf(active) \cup RangeOf(future_procs)
                       \cup Waiting \cup RangeOf(fork_waiters)
  BY DEF OnePlace, Apart, Located

\* A statement after which the thread still runs, or is dropped with the run.
LEMMA SamePlaces ==
  ASSUME OnePlace, UNCHANGED <<batch, wakeVars, forkVars, timeVars>>,
         running' = running \/ (running' = {} /\ ~InProgress')
  PROVE  OnePlace' /\ Moves
<1> USE DEF wakeVars, forkVars, timeVars, Waiting
<1>1. /\ UNCHANGED <<batch, active, future_procs, event_waiters, fork_waiters>>
      /\ UNCHANGED <<fork_seq, fork_remaining>> /\ running' \subseteq running
  OBVIOUS
<1>2. Apart(running, RangeOf(batch), RangeOf(active), RangeOf(future_procs),
            Waiting, RangeOf(fork_waiters))'
  BY <1>1 DEF OnePlace, Apart
<1>3. OnePlace'
  BY <1>1, <1>2 DEF OnePlace
<1>4. Located' \subseteq Located /\ (running' = running => Located' = Located)
  BY <1>1 DEF Located
<1>5. QED
  BY <1>1, <1>3, <1>4 DEF Moves

LEMMA EndInitialOnePlace ==
  ASSUME OnePlace, NEW t \in running, EndInitial(t), UNCHANGED locals
  PROVE  OnePlace' /\ Ends(t) /\ UNCHANGED forkVars
<1> USE DEF wakeVars, forkVars, timeVars, locals, Waiting
<1>1. /\ UNCHANGED <<batch, active, future_procs, event_waiters, forkVars>>
      /\ running' = {}
  BY DEF EndInitial, Return
<1>2. /\ running = {t}
      /\ t \notin RangeOf(batch) \cup RangeOf(active) \cup RangeOf(future_procs)
                    \cup Waiting \cup RangeOf(fork_waiters)
  BY RunningAlone
<1>3. Located' = Located \ {t}
  BY <1>1, <1>2 DEF Located
<1>4. QED
  BY <1>1, <1>3 DEF OnePlace, Apart, Ends

LEMMA DelayOnePlace ==
  ASSUME TypeOK, OnePlace, NEW t \in running, NEW d \in Delays, Delay(t, d),
         UNCHANGED locals
  PROVE  OnePlace' /\ Moves
<1> USE DEF wakeVars, forkVars, locals
<1>1. seq' \notin 1..seq
  <2>1. now + d \in Nat
    <3>1. now \in 0..MaxTime
      BY DEF TypeOK
    <3>2. QED
      BY <3>1, Bounds, SchedulerAssumption
  <2>2. QED
    BY <2>1, ScheduleType DEF Delay
<1>2. /\ UNCHANGED <<batch, active, event_waiters, forkVars>>
      /\ running' = {}
      /\ future_procs' = With(future_procs, seq', t)
  BY DEF Delay, Return
<1>3. /\ running = {t}
      /\ t \notin RangeOf(batch) \cup RangeOf(active) \cup RangeOf(future_procs)
                    \cup Waiting \cup RangeOf(fork_waiters)
  BY RunningAlone
<1>4. seq' \notin DOMAIN future_procs
  BY <1>1 DEF TypeOK
<1>5. /\ RangeOf(future_procs') = RangeOf(future_procs) \cup {t}
      /\ Injective(future_procs')
  BY <1>2, <1>3, <1>4, WithRange DEF OnePlace
<1>6. Located' = Located
  BY <1>2, <1>3, <1>5 DEF Located, Waiting
<1>7. Apart(running, RangeOf(batch), RangeOf(active), RangeOf(future_procs),
            Waiting, RangeOf(fork_waiters))'
  BY <1>2, <1>3, <1>5 DEF OnePlace, Apart, Waiting
<1>8. QED
  BY <1>2, <1>5, <1>6, <1>7 DEF OnePlace, Moves

LEMMA WaitOnePlace ==
  ASSUME OnePlace, NEW t \in running, NEW sens, Wait(t, sens), UNCHANGED locals
  PROVE  OnePlace' /\ Moves
<1> USE DEF wakeVars, forkVars, timeVars, locals
<1>1. /\ UNCHANGED <<batch, active, future_procs, forkVars>>
      /\ running' = {}
      /\ event_waiters' = event_waiters \cup {[sens |-> sens, proc |-> t]}
  BY DEF Wait, Return
<1>2. /\ running = {t}
      /\ t \notin RangeOf(batch) \cup RangeOf(active) \cup RangeOf(future_procs)
                    \cup Waiting \cup RangeOf(fork_waiters)
  BY RunningAlone
<1>3. Waiting' = Waiting \cup {t}
  <2> DEFINE w == [sens |-> sens, proc |-> t]
  <2>1. w.proc = t /\ event_waiters' = event_waiters \cup {w}
    BY <1>1
  <2>2. Waiting' = {v.proc : v \in event_waiters'}
    BY DEF Waiting
  <2> HIDE DEF w
  <2>3. QED
    BY <2>1, <2>2 DEF Waiting
<1>4. \A v, w \in event_waiters' : v.proc = w.proc => v = w
  BY <1>1, <1>2 DEF OnePlace, Waiting
<1>5. Located' = Located
  BY <1>1, <1>2, <1>3 DEF Located
<1>6. Apart(running, RangeOf(batch), RangeOf(active), RangeOf(future_procs),
            Waiting, RangeOf(fork_waiters))'
  BY <1>1, <1>2, <1>3 DEF OnePlace, Apart
<1>7. QED
  BY <1>1, <1>4, <1>5, <1>6 DEF OnePlace, Moves

LEMMA BranchesRange ==
  ASSUME NEW f \in Nat, NEW k \in Nat
  PROVE  /\ Branches(f, k) \in Seq(Threads) /\ Injective(Branches(f, k))
         /\ \A t \in RangeOf(Branches(f, k)) : ForkOf(t) = f
         /\ IsFiniteSet(RangeOf(Branches(f, k)))
         /\ Cardinality(RangeOf(Branches(f, k))) = k
<1> DEFINE B == Branches(f, k)
<1>1. B = [i \in 1..k |-> <<f, i>>] /\ DOMAIN B = 1..k
  BY DEF Branches
<1>2. B \in [1..k -> Threads] /\ B \in Seq(Threads)
  BY <1>1 DEF Threads
<1>3. Injective(B)
  BY <1>1 DEF Injective
<1>4. B \in Bijection(1..k, RangeOf(B))
  BY <1>1, <1>3 DEF Bijection, Injection, Surjection, RangeOf, Injective, IsInjective
<1>5. ExistsBijection(1..k, RangeOf(B))
  BY <1>4 DEF ExistsBijection
<1>6. IsFiniteSet(RangeOf(B)) /\ Cardinality(RangeOf(B)) = k
  BY <1>5, FS_NatBijection, FS_CountingElements
<1>7. \A t \in RangeOf(B) : ForkOf(t) = f
  BY <1>1 DEF RangeOf, ForkOf
<1>8. QED
  BY <1>2, <1>3, <1>6, <1>7

LEMMA ForkOnePlace ==
  ASSUME TypeOK, OnePlace, BranchesKnown, NEW t \in running,
         NEW k \in 1..MaxBranches, Fork(t, k), UNCHANGED locals
  PROVE  /\ OnePlace'
         /\ fork_seq' = fork_seq + 1 /\ fork_seq' \in Nat
         /\ Located' = Located \cup RangeOf(Branches(fork_seq', k))
<1> USE DEF wakeVars, timeVars, locals
<1> DEFINE B == Branches(fork_seq', k)
<1>1. /\ UNCHANGED <<batch, event_waiters, future_procs>> /\ running' = {}
      /\ fork_seq' = fork_seq + 1
      /\ fork_waiters' = With(fork_waiters, fork_seq', t)
      /\ active' = active \o B
  BY DEF Fork, Return
<1>2. /\ running = {t} /\ t \in Located
      /\ t \notin RangeOf(batch) \cup RangeOf(active) \cup RangeOf(future_procs)
                    \cup Waiting \cup RangeOf(fork_waiters)
  BY RunningAlone
<1>3. fork_seq \in Nat /\ fork_seq' \in Nat /\ k \in Nat
  <2>1. fork_seq \in 0..MaxForks
    BY DEF TypeOK
  <2>2. QED
    BY <1>1, <2>1, Bounds
<1>4. /\ B \in Seq(Threads) /\ Injective(B)
      /\ \A b \in RangeOf(B) : ForkOf(b) = fork_seq + 1
  BY <1>1, <1>3, BranchesRange
<1>5. RangeOf(B) \cap Located = {}
  <2>1. ASSUME NEW b \in RangeOf(B), b \in Located
        PROVE  FALSE
    <3>1. ForkOf(b) = fork_seq + 1 /\ ForkOf(b) <= fork_seq
      BY <1>4, <2>1 DEF BranchesKnown
    <3>2. QED
      BY <1>3, <3>1
  <2>2. QED
    BY <2>1
<1>6. /\ RangeOf(active') = RangeOf(active) \cup RangeOf(B)
      /\ Injective(active')
  <2>1. RangeOf(active) \cap RangeOf(B) = {}
    BY <1>5 DEF Located
  <2>2. QED
    BY <1>1, <1>4, <2>1, ConcatRange, SMTT(20) DEF TypeOK, OnePlace
<1>7. /\ RangeOf(fork_waiters') = RangeOf(fork_waiters) \cup {t}
      /\ Injective(fork_waiters')
  <2>1. fork_seq' \notin DOMAIN fork_waiters
    <3>1. DOMAIN fork_waiters \subseteq 1..fork_seq
      BY DEF TypeOK
    <3>2. QED
      BY <1>1, <1>3, <3>1
  <2>2. QED
    BY <1>1, <1>2, <2>1, WithRange, ZenonT(40) DEF OnePlace
<1>8. Waiting' = Waiting
  BY <1>1 DEF Waiting
<1>9. Located' = Located \cup RangeOf(B)
  BY <1>1, <1>2, <1>6, <1>7, <1>8 DEF Located
<1>10. Apart(running, RangeOf(batch), RangeOf(active), RangeOf(future_procs),
             Waiting, RangeOf(fork_waiters))'
  <2>1. RangeOf(B) \cap (RangeOf(batch) \cup RangeOf(future_procs) \cup Waiting
                           \cup RangeOf(fork_waiters) \cup {t}) = {}
    BY <1>2, <1>5 DEF Located
  <2>2. QED
    BY <1>1, <1>2, <1>6, <1>7, <1>8, <2>1 DEF OnePlace, Apart
<1>11. OnePlace'
  BY <1>1, <1>6, <1>7, <1>10 DEF OnePlace
<1>12. QED
  BY <1>1, <1>3, <1>9, <1>11

LEMMA EndBranchOnePlace ==
  ASSUME TypeOK, OnePlace, NEW t \in running, EndBranch(t), UNCHANGED locals
  PROVE  OnePlace' /\ Ends(t)
<1> USE DEF wakeVars, timeVars, locals
<1> DEFINE f == ForkOf(t)
<1>1. /\ UNCHANGED <<batch, event_waiters, future_procs>> /\ running' = {}
      /\ fork_seq' = fork_seq
  BY DEF EndBranch, Return
<1>2. /\ running = {t} /\ t \in Located
      /\ t \notin RangeOf(batch) \cup RangeOf(active) \cup RangeOf(future_procs)
                    \cup Waiting \cup RangeOf(fork_waiters)
  BY RunningAlone
<1>3. Waiting' = Waiting
  BY <1>1 DEF Waiting
<1>4. /\ RangeOf(active') \cup RangeOf(fork_waiters')
           = RangeOf(active) \cup RangeOf(fork_waiters)
      /\ RangeOf(active') \cap RangeOf(fork_waiters') = {}
      /\ Injective(active') /\ Injective(fork_waiters')
  <2>1. CASE ~LastBranch(f)
    BY <2>1 DEF EndBranch, OnePlace, Apart
  <2>2. CASE LastBranch(f)
    <3> DEFINE p == Lookup(fork_waiters, f)
    <3>1. fork_waiters' = Without(fork_waiters, f) /\ active' = active \o p
      BY <2>2 DEF EndBranch
    <3>2. /\ RangeOf(fork_waiters) = RangeOf(fork_waiters') \cup RangeOf(p)
          /\ Injective(fork_waiters')
          /\ RangeOf(fork_waiters') \cap RangeOf(p) = {}
      BY <3>1, WithoutRange DEF OnePlace
    <3>3. p \in Seq(Threads) /\ Injective(p)
      BY LookupType DEF TypeOK
    <3>4. RangeOf(active) \cap RangeOf(fork_waiters) = {}
      BY DEF OnePlace, Apart
    <3>5. RangeOf(active') = RangeOf(active) \cup RangeOf(p) /\ Injective(active')
      BY <3>1, <3>2, <3>3, <3>4, ConcatRange DEF TypeOK, OnePlace
    <3>6. QED
      BY <3>2, <3>4, <3>5
  <2>3. QED
    BY <2>1, <2>2
<1>5. Located' = Located \ {t}
  BY <1>1, <1>2, <1>3, <1>4 DEF Located
<1>6. Apart(running, RangeOf(batch), RangeOf(active), RangeOf(future_procs),
            Waiting, RangeOf(fork_waiters))'
  BY <1>1, <1>3, <1>4 DEF OnePlace, Apart
<1>7. QED
  BY <1>1, <1>4, <1>5, <1>6 DEF OnePlace, Ends

LEMMA StartOnePlace ==
  ASSUME TypeOK, OnePlace, StartThread
  PROVE  OnePlace' /\ Moves
<1> USE DEF forkVars, timeVars
<1>1. UNCHANGED <<event_waiters, future_procs, forkVars>> /\ running = {}
  BY DEF StartThread
<1>2. Waiting' = Waiting
  BY <1>1 DEF Waiting
<1>3. ASSUME NEW s \in Seq(Threads), s # <<>>, Injective(s),
             running' = {Head(s)}, batch' = Tail(s)
      PROVE  /\ RangeOf(s) = running' \cup RangeOf(batch')
             /\ running' \cap RangeOf(batch') = {}
             /\ Injective(batch')
  BY <1>3, HeadTailRange
<1>4. CASE batch # <<>> /\ running' = {Head(batch)} /\ batch' = Tail(batch)
           /\ UNCHANGED active
  <2>1. /\ RangeOf(batch) = running' \cup RangeOf(batch')
        /\ running' \cap RangeOf(batch') = {} /\ Injective(batch')
    BY <1>3, <1>4 DEF TypeOK, OnePlace
  <2>2. Located' = Located
    BY <1>1, <1>2, <1>4, <2>1 DEF Located
  <2>3. Apart(running, RangeOf(batch), RangeOf(active), RangeOf(future_procs),
              Waiting, RangeOf(fork_waiters))'
    BY <1>1, <1>2, <1>4, <2>1 DEF OnePlace, Apart
  <2>4. QED
    BY <1>1, <1>4, <2>1, <2>2, <2>3 DEF OnePlace, Moves
<1>5. CASE /\ batch = <<>> /\ active # <<>>
           /\ running' = {Head(active)} /\ batch' = Tail(active)
           /\ active' = <<>>
  <2>1. /\ RangeOf(active) = running' \cup RangeOf(batch')
        /\ running' \cap RangeOf(batch') = {} /\ Injective(batch')
    BY <1>3, <1>5 DEF TypeOK, OnePlace
  <2>2. RangeOf(active') = {} /\ Injective(active') /\ RangeOf(batch) = {}
    BY <1>5, EmptyRange
  <2>3. Located' = Located
    BY <1>1, <1>2, <2>1, <2>2 DEF Located
  <2>4. Apart(running, RangeOf(batch), RangeOf(active), RangeOf(future_procs),
              Waiting, RangeOf(fork_waiters))'
    BY <1>1, <1>2, <2>1, <2>2 DEF OnePlace, Apart
  <2>5. QED
    BY <1>1, <1>5, <2>1, <2>2, <2>3, <2>4 DEF OnePlace, Moves
<1>6. QED
  BY <1>4, <1>5 DEF StartThread

\* What a statement does to the threads.
LEMMA StatementPlaces ==
  ASSUME TypeOK, OnePlace, BranchesKnown, Statement
  PROVE  /\ OnePlace'
         /\ \/ Moves
            \/ \E t \in running : EndInitial(t) /\ Ends(t) /\ UNCHANGED forkVars
            \/ \E t \in running : EndBranch(t) /\ Ends(t)
            \/ \E t \in running, k \in 1..MaxBranches :
                 /\ Fork(t, k)
                 /\ fork_seq' = fork_seq + 1 /\ fork_seq' \in Nat
                 /\ Located' = Located \cup RangeOf(Branches(fork_seq', k))
<1>1. PICK t \in running :
        \/ \E n \in Nets, ev \in Events : BlockingAssign(n, ev)
        \/ \E n \in Nets : NbaAssign(n)
        \/ \E d \in Delays : Delay(t, d)
        \/ \E sens \in EventCtls : Wait(t, sens)
        \/ \E k \in 1..MaxBranches : Fork(t, k)
        \/ EndInitial(t)
        \/ EndAlways(t)
        \/ EndBranch(t)
        \/ \E strobe \in {0, 1} : SysTask(strobe)
        \/ Finish
        \/ FinishInFunction
  BY DEF Statement
<1>2. UNCHANGED locals
  BY DEF Statement
<1>3. ASSUME NEW n \in Nets, NEW ev \in Events, BlockingAssign(n, ev)
      PROVE  OnePlace' /\ Moves
  <2>1. /\ TriggerFrom(n, ev, active, cont_dirty, cont_queued)
        /\ UNCHANGED <<running, batch, future_procs, forkVars>>
    BY <1>2, <1>3 DEF BlockingAssign, Trigger, Continue, locals, timeVars
  <2>2. QED
    BY <2>1, TriggerOnePlace DEF TypeOK
<1>4. ASSUME NEW n \in Nets, NbaAssign(n)
      PROVE  OnePlace' /\ Moves
  BY <1>2, <1>4, SamePlaces DEF NbaAssign, Continue, locals
<1>5. ASSUME NEW strobe \in {0, 1}, SysTask(strobe)
      PROVE  OnePlace' /\ Moves
  BY <1>2, <1>5, SamePlaces DEF SysTask, Continue, Return, InProgress, locals
<1>6. CASE Finish
  BY <1>2, <1>6, SamePlaces DEF Finish, Return, InProgress, locals
<1>7. CASE FinishInFunction
  BY <1>2, <1>7, SamePlaces DEF FinishInFunction, Continue, locals
<1>8. CASE EndAlways(t)
  BY <1>2, <1>8, WaitOnePlace DEF EndAlways
<1>9. QED
  BY <1>1, <1>2, <1>3, <1>4, <1>5, <1>6, <1>7, <1>8, DelayOnePlace,
     WaitOnePlace, ForkOnePlace, EndInitialOnePlace, EndBranchOnePlace

LEMMA LocatedThreads ==
  ASSUME TypeOK, NEW t \in Located
  PROVE  t \in Threads /\ ForkOf(t) \in Nat
<1>1. /\ RangeOf(batch) \subseteq Threads /\ RangeOf(active) \subseteq Threads
      /\ RangeOf(future_procs) \subseteq Threads
      /\ RangeOf(fork_waiters) \subseteq Threads
      /\ Waiting \subseteq Threads /\ running \subseteq Threads
  BY SeqRangeType DEF TypeOK, RangeOf, Waiting
<1>2. t \in Threads
  BY <1>1 DEF Located
<1>3. QED
  BY <1>2 DEF Threads, ForkOf

\* What a step of the regions does to the threads.
LEMMA RegionPlaces ==
  ASSUME TypeOK, OnePlace, [Next]_vars, ~Statement
  PROVE  OnePlace' /\ Moves
<1>1. CASE StartThread
  BY <1>1, StartOnePlace
<1>2. CASE StopAfterFinish
  <2>1. /\ UNCHANGED <<running, active, future_procs, event_waiters, forkVars>>
        /\ RangeOf(batch') = {} /\ Injective(batch') /\ ~InProgress'
    BY <1>2, EmptyRange DEF StopAfterFinish, InProgress, wakeVars, timeVars
  <2>2. Waiting' = Waiting
    BY <2>1 DEF Waiting
  <2>3. Apart(running, RangeOf(batch), RangeOf(active), RangeOf(future_procs),
              Waiting, RangeOf(fork_waiters))'
    BY <2>1, <2>2 DEF OnePlace, Apart, forkVars
  <2>4. Located' \subseteq Located
    BY <2>1, <2>2 DEF Located, forkVars
  <2>5. QED
    BY <2>1, <2>3, <2>4 DEF OnePlace, Moves, forkVars
<1>3. CASE EvalCont
  <2> DEFINE c == Head(cont_dirty)
             rest == Tail(cont_dirty)
             queued == cont_queued \ {c}
  <2>1. UNCHANGED <<running, batch, future_procs, forkVars>>
    BY <1>3 DEF EvalCont, Count, timeVars
  <2>2. \/ \E ev \in Events :
             TriggerFrom(ContTarget[c], ev, active, rest, queued)
        \/ UNCHANGED <<active, event_waiters>>
    BY <1>3 DEF EvalCont, Count
  <2>3. /\ ContTarget[c] \in Nets /\ rest \in Seq(Conts)
        /\ queued \in SUBSET Conts
    <3>1. cont_dirty \in Seq(Conts) /\ cont_dirty # <<>>
          /\ cont_queued \subseteq Conts
      BY <1>3 DEF EvalCont, Count, TypeOK
    <3>2. c \in Conts /\ rest \in Seq(Conts)
      BY <3>1, HeadTailRange
    <3>3. QED
      BY <3>1, <3>2, SchedulerAssumption
  <2>4. CASE UNCHANGED <<active, event_waiters>>
    <3>1. Waiting' = Waiting
      BY <2>4 DEF Waiting
    <3>2. Located' = Located
      BY <2>1, <2>4, <3>1 DEF Located, forkVars
    <3>3. QED
      BY <2>1, <2>4, <3>1, <3>2 DEF OnePlace, Apart, Moves, forkVars
  <2>5. QED
    BY <2>1, <2>2, <2>3, <2>4, TriggerOnePlace
<1>4. CASE PopInactive \/ Drain
  BY <1>4, DeliverOnePlace DEF PopInactive, Drain
<1>5. CASE Advance
  <2>1. CASE \E e \in future : Deliver(e)
    BY <2>1, DeliverOnePlace
  <2>2. CASE UNCHANGED <<running, batch, active, event_waiters, future_procs,
                         forkVars>>
    <3>1. Waiting' = Waiting
      BY <2>2 DEF Waiting
    <3>2. Located' = Located
      BY <2>2, <3>1 DEF Located, forkVars
    <3>3. QED
      BY <2>2, <3>1, <3>2 DEF OnePlace, Apart, Moves, forkVars
  <2>3. QED
    BY <1>5, <2>1, <2>2 DEF Advance, wakeVars
<1>6. CASE ApplyNba
  <2>1. CASE nba_batch # <<>>
    <3>1. UNCHANGED <<running, batch, future_procs, forkVars>>
      BY <1>6 DEF ApplyNba, timeVars
    <3>2. Head(nba_batch) \in Nets
      BY <2>1, HeadTailRange DEF TypeOK
    <3>3. PICK ev \in Events : TriggerFrom(Head(nba_batch), ev, active,
                                           cont_dirty, cont_queued)
      BY <1>6, <2>1 DEF ApplyNba, Trigger
    <3>4. QED
      BY <3>1, <3>2, <3>3, TriggerOnePlace DEF TypeOK
  <2>2. CASE nba_batch = <<>>
    BY <1>6, <2>2, SamePlaces DEF ApplyNba
  <2>3. QED
    BY <2>1, <2>2
<1>7. CASE EndActive \/ EndConts \/ EndInactive \/ Postponed \/ EndDrain
  <2>1. UNCHANGED <<running, batch, wakeVars, forkVars, timeVars>>
    BY <1>7 DEF EndActive, EndConts, EndInactive, Postponed, EndDrain, locals
  <2>2. QED
    BY <2>1, SamePlaces
<1>8. CASE Stopped \/ UNCHANGED vars
  BY <1>8, SamePlaces DEF Stopped, vars, locals
<1>9. QED
  BY <1>1, <1>2, <1>3, <1>4, <1>5, <1>6, <1>7, <1>8 DEF Next

LEMMA Progress ==
  ASSUME TypeOK, RunsInActive, [Next]_vars
  PROVE  /\ InProgress' => InProgress
         /\ RunsInActive'
         /\ Statement => InProgress
<1> USE DEF RunsInActive, InProgress
<1>a. Statement => InProgress
  BY DEF Statement
<1> SUFFICES (InProgress' => InProgress) /\ RunsInActive'
  BY <1>a
<1>1. CASE Statement
  <2>1. running # {} /\ region = "active"
    BY <1>1 DEF Statement
  <2>2. UNCHANGED <<region, running>> \/ running' = {}
    BY <1>1 DEF Statement, BlockingAssign, NbaAssign, Delay, Wait, Fork,
                EndInitial, EndAlways, EndBranch, SysTask, Finish,
                FinishInFunction, Return, Continue
  <2>3. QED
    BY <2>1, <2>2
<1>2. CASE StartThread \/ StopAfterFinish \/ EndActive
  BY <1>2 DEF StartThread, StopAfterFinish, EndActive, locals
<1>3. CASE EvalCont \/ EndConts
  BY <1>3 DEF EvalCont, Count, EndConts
<1>4. CASE PopInactive \/ Advance \/ Drain
  BY <1>4 DEF PopInactive, Advance, Drain, Deliver
<1>5. CASE EndInactive \/ ApplyNba \/ Postponed \/ EndDrain
  BY <1>5 DEF EndInactive, ApplyNba, Postponed, EndDrain, LoopTop
<1>6. CASE Stopped \/ UNCHANGED vars
  BY <1>6 DEF Stopped, vars
<1>7. QED
  BY <1>1, <1>2, <1>3, <1>4, <1>5, <1>6 DEF Next

\* OnePlace is inductive once the ids of the threads are known to be old.
PlaceInv == TypeOK /\ OnePlace /\ BranchesKnown /\ RunsInActive

LEMMA PlaceInit == Init => PlaceInv
<1> SUFFICES ASSUME Init PROVE PlaceInv
  OBVIOUS
<1>1. /\ RangeOf(active) = Seeded /\ Injective(active)
      /\ event_waiters = RangeOf(FirstWaiter)
  BY InitialPlaces
<1>2. /\ running = {} /\ batch = <<>> /\ future_procs = <<>>
      /\ fork_waiters = <<>> /\ fork_seq = 0
  BY DEF Init
<1>3. /\ RangeOf(batch) = {} /\ RangeOf(future_procs) = {}
      /\ RangeOf(fork_waiters) = {}
      /\ Injective(batch) /\ Injective(future_procs) /\ Injective(fork_waiters)
  BY <1>2, EmptyRange
<1>4. Waiting = {<<0, i>> : i \in FirstWaiters}
  <2>1. /\ DOMAIN FirstWaiter = FirstWaiters
        /\ \A i \in FirstWaiters : FirstWaiter[i].proc = <<0, i>>
    BY DEF FirstWaiter
  <2>2. Waiting = {FirstWaiter[i].proc : i \in FirstWaiters}
    BY <1>1, <2>1 DEF Waiting, RangeOf
  <2>3. QED
    BY <2>1, <2>2
<1>5. Seeded \cap Waiting = {}
  BY <1>4 DEF Seeded, FirstWaiters
<1>6. \A v, w \in event_waiters : v.proc = w.proc => v = w
  BY <1>1 DEF FirstWaiter, RangeOf
<1>7. OnePlace
  BY <1>1, <1>2, <1>3, <1>5, <1>6 DEF OnePlace, Apart
<1>8. Located = Seeded \cup Waiting
  BY <1>1, <1>2, <1>3 DEF Located
<1>9. BranchesKnown
  BY <1>2, <1>4, <1>8 DEF BranchesKnown, Seeded, ForkOf
<1>10. QED
  BY <1>2, <1>7, <1>9, TypeInit DEF PlaceInv, RunsInActive

LEMMA PlaceNext == PlaceInv /\ [Next]_vars => PlaceInv'
<1> SUFFICES ASSUME PlaceInv, [Next]_vars PROVE PlaceInv'
  OBVIOUS
<1>1. TypeOK /\ OnePlace /\ BranchesKnown /\ RunsInActive
  BY DEF PlaceInv
<1>2. TypeOK' /\ RunsInActive'
  BY <1>1, TypeNext, Progress
<1>3. OnePlace'
  BY <1>1, StatementPlaces, RegionPlaces
<1>4. \/ fork_seq' = fork_seq /\ Located' \subseteq Located
      \/ /\ fork_seq \in Nat
         /\ fork_seq' = fork_seq + 1
         /\ \E k \in Nat : Located' = Located \cup RangeOf(Branches(fork_seq', k))
  <2>1. fork_seq \in Nat
    <3>1. fork_seq \in 0..MaxForks
      BY <1>1 DEF TypeOK
    <3>2. QED
      BY <3>1, Bounds
  <2>2. \A k \in 1..MaxBranches : k \in Nat
    BY Bounds
  <2>3. CASE Statement
    BY <1>1, <2>1, <2>2, <2>3, StatementPlaces DEF Moves, Ends, forkVars
  <2>4. CASE ~Statement
    BY <1>1, <2>4, RegionPlaces DEF Moves, forkVars
  <2>5. QED
    BY <2>3, <2>4
<1>5. CASE fork_seq' = fork_seq /\ Located' \subseteq Located
  BY <1>1, <1>2, <1>3, <1>5 DEF PlaceInv, BranchesKnown
<1>6. ASSUME NEW k \in Nat, fork_seq \in Nat, fork_seq' = fork_seq + 1,
             Located' = Located \cup RangeOf(Branches(fork_seq', k))
      PROVE  BranchesKnown'
  <2>1. ASSUME NEW t \in Located
        PROVE  ForkOf(t) <= fork_seq'
    <3>1. ForkOf(t) <= fork_seq /\ ForkOf(t) \in Int
      BY <1>1, <2>1, LocatedThreads DEF BranchesKnown
    <3>2. QED
      BY <1>6, <3>1
  <2>2. ASSUME NEW t \in RangeOf(Branches(fork_seq', k))
        PROVE  ForkOf(t) <= fork_seq'
    BY <1>6, <2>2, BranchesRange
  <2>3. QED
    BY <1>6, <2>1, <2>2 DEF BranchesKnown
<1>7. QED
  BY <1>2, <1>3, <1>4, <1>5, <1>6 DEF PlaceInv

\* No ProcState is ever in two places.
THEOREM ThreadsInOnePlace == Spec => []OnePlace
<1>1. PlaceInv => OnePlace
  BY DEF PlaceInv
<1>2. QED
  BY <1>1, PlaceInit, PlaceNext, PTL DEF Spec

-----------------------------------------------------------------------------
(* Joins *)

LEMMA JoinInit == Init => JoinAccounting /\ AlwaysAlive
<1> SUFFICES ASSUME Init PROVE JoinAccounting /\ AlwaysAlive
  OBVIOUS
<1>1. DOMAIN fork_remaining = {} /\ DOMAIN fork_waiters = {}
      /\ running = {} /\ batch = <<>> /\ future_procs = <<>>
      /\ fork_waiters = <<>>
  BY DEF Init
<1>2. /\ RangeOf(active) = Seeded /\ event_waiters = RangeOf(FirstWaiter)
  BY InitialPlaces
<1>3. Waiting = {FirstWaiter[i].proc : i \in FirstWaiters}
  BY <1>2 DEF Waiting, RangeOf, FirstWaiter
<1>4. \A i \in FirstWaiters : FirstWaiter[i].proc = <<0, i>>
  BY DEF FirstWaiter
<1>5. Located = Seeded \cup Waiting
  BY <1>1, <1>2, EmptyRange DEF Located
<1>6. \A t \in Located : ForkOf(t) = 0
  BY <1>3, <1>4, <1>5 DEF Seeded, ForkOf
<1>7. JoinAccounting
  BY <1>1, <1>6 DEF JoinAccounting
<1>8. ASSUME NEW i \in AlwaysProcs PROVE <<0, i>> \in Located
  <2>1. i \in 1..NumProcs
    BY SchedulerAssumption
  <2>2. CASE WaitsFirst(i)
    BY <1>3, <1>4, <1>5, <2>1, <2>2 DEF FirstWaiters
  <2>3. CASE ~WaitsFirst(i)
    BY <1>5, <2>1, <2>3 DEF Seeded
  <2>4. QED
    BY <2>2, <2>3
<1>9. QED
  BY <1>7, <1>8 DEF AlwaysAlive

LEMMA MovesJoin ==
  ASSUME JoinAccounting, Moves, InProgress' => InProgress
  PROVE  JoinAccounting'
<1> SUFFICES ASSUME InProgress' PROVE JoinAccounting'
  BY DEF JoinAccounting
<1>1. /\ UNCHANGED <<fork_remaining, fork_waiters>> /\ Located' = Located
      /\ InProgress
  BY DEF Moves, forkVars
<1>2. \A f : Unfinished(f)' = Unfinished(f)
  BY <1>1 DEF Unfinished
<1>3. QED
  BY <1>1, <1>2 DEF JoinAccounting

LEMMA ForkJoin ==
  ASSUME PlaceInv, JoinAccounting, InProgress,
         NEW t \in running, NEW k \in 1..MaxBranches, Fork(t, k),
         fork_seq' = fork_seq + 1, fork_seq' \in Nat,
         Located' = Located \cup RangeOf(Branches(fork_seq', k))
  PROVE  JoinAccounting'
<1>0. PICK F \in Nat : F = fork_seq' /\ F = fork_seq + 1
  OBVIOUS
<1> DEFINE B == RangeOf(Branches(F, k))
<1>1. TypeOK /\ BranchesKnown /\ fork_seq \in Nat /\ k \in Nat
  <2>1. TypeOK /\ BranchesKnown
    BY DEF PlaceInv
  <2>2. fork_seq \in 0..MaxForks
    BY <2>1 DEF TypeOK
  <2>3. QED
    BY <2>1, <2>2, Bounds
<1>2. /\ fork_remaining' = With(fork_remaining, F, k)
      /\ fork_waiters' = With(fork_waiters, F, t)
      /\ Located' = Located \cup B
  BY <1>0 DEF Fork
<1>3. /\ \A b \in B : ForkOf(b) = F
      /\ IsFiniteSet(B) /\ Cardinality(B) = k
  BY <1>0, <1>1, BranchesRange
<1>4. \A u \in Located : ForkOf(u) < F
  <2>1. ASSUME NEW u \in Located PROVE ForkOf(u) < F
    <3>1. ForkOf(u) <= fork_seq /\ ForkOf(u) \in Nat
      BY <1>1, LocatedThreads DEF BranchesKnown
    <3>2. QED
      BY <1>0, <1>1, <3>1
  <2>2. QED
    BY <2>1
<1>5. DOMAIN fork_remaining \subseteq 1..fork_seq
      /\ DOMAIN fork_waiters = DOMAIN fork_remaining
  BY <1>1 DEF TypeOK, JoinAccounting
<1>6. F \notin DOMAIN fork_remaining
  BY <1>0, <1>1, <1>5
<1>7. /\ DOMAIN fork_remaining' = DOMAIN fork_remaining \cup {F}
      /\ DOMAIN fork_waiters' = DOMAIN fork_remaining \cup {F}
      /\ fork_remaining'[F] = k /\ fork_waiters'[F] = t
      /\ \A f \in DOMAIN fork_remaining :
           /\ fork_remaining'[f] = fork_remaining[f]
           /\ fork_waiters'[f] = fork_waiters[f]
  BY <1>2, <1>5, <1>6 DEF With
<1>8. Unfinished(F)' = B
  <2>1. Unfinished(F)' = {u \in Located \cup B : ForkOf(u) = F}
    BY <1>2 DEF Unfinished
  <2>2. \A u \in Located : ForkOf(u) # F
    <3>1. ASSUME NEW u \in Located PROVE ForkOf(u) # F
      <4>1. ForkOf(u) < F /\ ForkOf(u) \in Nat
        BY <1>1, <1>4, LocatedThreads
      <4>2. QED
        BY <4>1
    <3>2. QED
      BY <3>1
  <2>3. QED
    BY <1>3, <2>1, <2>2
<1>9. \A f \in DOMAIN fork_remaining : Unfinished(f)' = Unfinished(f)
  BY <1>2, <1>3, <1>6 DEF Unfinished
<1>10. ForkOf(t) < F
  BY <1>4 DEF Located
<1>11. \A f \in DOMAIN fork_remaining' :
         /\ IsFiniteSet(Unfinished(f)')
         /\ fork_remaining'[f] = Cardinality(Unfinished(f)')
         /\ ForkOf(fork_waiters'[f]) < f
  <2> SUFFICES ASSUME NEW f \in DOMAIN fork_remaining'
               PROVE  /\ IsFiniteSet(Unfinished(f)')
                      /\ fork_remaining'[f] = Cardinality(Unfinished(f)')
                      /\ ForkOf(fork_waiters'[f]) < f
    OBVIOUS
  <2>1. CASE f \in DOMAIN fork_remaining
    BY <1>7, <1>9, <2>1 DEF JoinAccounting
  <2>2. CASE f = F
    <3>1. Unfinished(f)' = B
      BY <1>8, <2>2
    <3>2. QED
      BY <1>3, <1>7, <1>10, <2>2, <3>1
  <2>3. QED
    BY <1>7, <2>1, <2>2
<1>12. \A u \in Located' : ForkOf(u) # 0 => ForkOf(u) \in DOMAIN fork_remaining'
  BY <1>2, <1>3, <1>7 DEF JoinAccounting
<1>13. DOMAIN fork_waiters' = DOMAIN fork_remaining'
  BY <1>7
<1>14. QED
  BY <1>11, <1>12, <1>13 DEF JoinAccounting

LEMMA EndInitialJoin ==
  ASSUME PlaceInv, JoinAccounting, InProgress, NEW t \in running,
         EndInitial(t), Ends(t), UNCHANGED forkVars
  PROVE  JoinAccounting'
<1>1. /\ UNCHANGED <<fork_remaining, fork_waiters>> /\ ForkOf(t) = 0
      /\ Located' = Located \ {t}
  BY DEF EndInitial, Ends, forkVars
<1>2. \A f \in DOMAIN fork_remaining : f # 0
  BY DEF PlaceInv, TypeOK
<1>3. \A f \in DOMAIN fork_remaining : Unfinished(f)' = Unfinished(f)
  BY <1>1, <1>2 DEF Unfinished
<1>4. QED
  BY <1>1, <1>3 DEF JoinAccounting

LEMMA EndBranchJoin ==
  ASSUME PlaceInv, JoinAccounting, InProgress, NEW t \in running,
         EndBranch(t), Ends(t)
  PROVE  /\ JoinAccounting'
         /\ \A f \in DOMAIN fork_waiters \ DOMAIN fork_waiters' :
              Unfinished(f)' = {}
<1> DEFINE f == ForkOf(t)
<1>1. /\ Located' = Located \ {t} /\ t \in Located
      /\ f \in DOMAIN fork_remaining
  BY DEF EndBranch, Ends, Located
<1>2. /\ DOMAIN fork_waiters = DOMAIN fork_remaining
      /\ IsFiniteSet(Unfinished(f))
      /\ fork_remaining[f] = Cardinality(Unfinished(f))
  BY <1>1 DEF JoinAccounting
<1>3. \A g : g # f => Unfinished(g)' = Unfinished(g)
  BY <1>1 DEF Unfinished
<1>4. /\ Unfinished(f)' = Unfinished(f) \ {t} /\ t \in Unfinished(f)
      /\ IsFiniteSet(Unfinished(f)')
      /\ Cardinality(Unfinished(f)') = Cardinality(Unfinished(f)) - 1
  <2>1. Unfinished(f)' = Unfinished(f) \ {t} /\ t \in Unfinished(f)
    BY <1>1 DEF Unfinished
  <2>2. QED
    BY <1>2, <2>1, FS_RemoveElement
<1>8. fork_remaining \in [DOMAIN fork_remaining -> 1..MaxBranches]
  BY DEF PlaceInv, TypeOK
<1>5. CASE ~LastBranch(f)
  <2>1. /\ fork_remaining' = [fork_remaining EXCEPT ![f] = @ - 1]
        /\ fork_waiters' = fork_waiters
    BY <1>5 DEF EndBranch
  <2>2. DOMAIN fork_remaining' = DOMAIN fork_remaining
        /\ fork_remaining'[f] = fork_remaining[f] - 1
        /\ \A g \in DOMAIN fork_remaining \ {f} :
             fork_remaining'[g] = fork_remaining[g]
    BY <1>1, <1>8, <2>1
  <2>3. QED
    BY <1>1, <1>2, <1>3, <1>4, <2>1, <2>2 DEF JoinAccounting
<1>6. CASE LastBranch(f)
  <2>1. /\ fork_remaining' = Without(fork_remaining, f)
        /\ fork_waiters' = Without(fork_waiters, f)
    BY <1>6 DEF EndBranch
  <2>2. /\ DOMAIN fork_remaining' = DOMAIN fork_remaining \ {f}
        /\ DOMAIN fork_waiters' = DOMAIN fork_remaining \ {f}
        /\ \A g \in DOMAIN fork_remaining \ {f} :
             /\ fork_remaining'[g] = fork_remaining[g]
             /\ fork_waiters'[g] = fork_waiters[g]
    BY <1>2, <2>1 DEF Without
  <2>3. Unfinished(f)' = {}
    <3>1. Cardinality(Unfinished(f)) = 1
      BY <1>2, <1>6 DEF LastBranch
    <3>2. Cardinality(Unfinished(f)') = 0
      BY <1>4, <3>1
    <3>3. QED
      BY <1>4, <3>2, FS_EmptySet
  <2>4. \A u \in Located' : ForkOf(u) # f
    BY <2>3 DEF Unfinished
  <2>5. \A u \in Located' : ForkOf(u) # 0 => ForkOf(u) \in DOMAIN fork_remaining'
    BY <1>1, <2>2, <2>4 DEF JoinAccounting
  <2>6. QED
    BY <1>2, <1>3, <2>2, <2>3, <2>5 DEF JoinAccounting
<1>7. QED
  BY <1>5, <1>6

\* JoinAccounting needs the places (a branch that ends leaves the count by one)
\* and the ids (the branches of a new fork are nobody else's).
JoinInv == PlaceInv /\ JoinAccounting

LEMMA JoinNext ==
  ASSUME JoinInv, [Next]_vars
  PROVE  /\ JoinInv'
         /\ \A f \in DOMAIN fork_waiters \ DOMAIN fork_waiters' :
              Unfinished(f)' = {}
<1>1. /\ PlaceInv /\ JoinAccounting
      /\ TypeOK /\ OnePlace /\ BranchesKnown /\ RunsInActive
  BY DEF JoinInv, PlaceInv
<1>2. PlaceInv' /\ (InProgress' => InProgress) /\ (Statement => InProgress)
  BY <1>1, PlaceNext, Progress
<1> DEFINE Joined == \A f \in DOMAIN fork_waiters \ DOMAIN fork_waiters' :
                       Unfinished(f)' = {}
<1>3. CASE Moves
  BY <1>1, <1>2, <1>3, MovesJoin DEF JoinInv, Moves, forkVars
<1>4. ASSUME Statement, NEW t \in running, EndInitial(t), Ends(t),
             UNCHANGED forkVars
      PROVE  JoinAccounting' /\ Joined
  BY <1>1, <1>2, <1>4, EndInitialJoin DEF forkVars
<1>5. ASSUME Statement, NEW t \in running, EndBranch(t), Ends(t)
      PROVE  JoinAccounting' /\ Joined
  BY <1>1, <1>2, <1>5, EndBranchJoin
<1>6. ASSUME Statement, NEW t \in running, NEW k \in 1..MaxBranches, Fork(t, k),
             fork_seq' = fork_seq + 1, fork_seq' \in Nat,
             Located' = Located \cup RangeOf(Branches(fork_seq', k))
      PROVE  JoinAccounting' /\ Joined
  <2>1. JoinAccounting'
    BY <1>1, <1>2, <1>6, ForkJoin
  <2>2. Joined
    BY <1>6 DEF Fork, With
  <2>3. QED
    BY <2>1, <2>2
<1>7. CASE ~Statement
  BY <1>1, <1>3, <1>7, RegionPlaces
<1>8. QED
  BY <1>1, <1>2, <1>3, <1>4, <1>5, <1>6, <1>7, StatementPlaces DEF JoinInv

LEMMA AliveNext ==
  ASSUME PlaceInv, AlwaysAlive, [Next]_vars
  PROVE  AlwaysAlive'
<1>1. /\ TypeOK /\ OnePlace /\ BranchesKnown /\ RunsInActive
  BY DEF PlaceInv
<1> SUFFICES ASSUME InProgress', NEW i \in AlwaysProcs
             PROVE  <<0, i>> \in Located'
  BY DEF AlwaysAlive
<1>2. <<0, i>> \in Located
  BY <1>1, Progress DEF AlwaysAlive
<1>3. CASE Moves
  BY <1>2, <1>3 DEF Moves
<1>4. ASSUME NEW t \in running, EndInitial(t), Ends(t)
      PROVE  <<0, i>> \in Located'
  BY <1>2, <1>4 DEF EndInitial, Ends
<1>5. ASSUME NEW t \in running, EndBranch(t), Ends(t)
      PROVE  <<0, i>> \in Located'
  <2>1. ForkOf(t) # 0
    BY <1>1, <1>5 DEF EndBranch, TypeOK
  <2>2. QED
    BY <1>2, <1>5, <2>1 DEF Ends, ForkOf
<1>6. QED
  BY <1>1, <1>2, <1>3, <1>4, <1>5, StatementPlaces, RegionPlaces

\* The counter of a fork is the number of its branches that still run or wait,
\* in every design and however many forks are open.
THEOREM JoinsCounted == Spec => []JoinAccounting
<1>1. Init => JoinInv
  BY PlaceInit, JoinInit DEF JoinInv
<1>2. JoinInv /\ [Next]_vars => JoinInv'
  BY JoinNext
<1>3. JoinInv => JoinAccounting
  BY DEF JoinInv
<1>4. QED
  BY <1>1, <1>2, <1>3, PTL DEF Spec

\* A join never fires while one of its branches is still somewhere.
THEOREM JoinsWait == Spec => JoinWaitsForAll
<1>1. Init => JoinInv
  BY PlaceInit, JoinInit DEF JoinInv
<1>2. JoinInv /\ [Next]_vars => JoinInv'
  BY JoinNext
<1>3. JoinInv /\ [Next]_vars =>
        [\A f \in DOMAIN fork_waiters \ DOMAIN fork_waiters' :
           Unfinished(f)' = {}]_vars
  BY JoinNext
<1>4. QED
  BY <1>1, <1>2, <1>3, PTL DEF Spec, JoinWaitsForAll

\* An always process is never lost before the run ends.
THEOREM AlwaysKept == Spec => []AlwaysAlive
<1>1. Init => PlaceInv /\ AlwaysAlive
  BY PlaceInit, JoinInit
<1>2. PlaceInv /\ AlwaysAlive /\ [Next]_vars => (PlaceInv /\ AlwaysAlive)'
  BY PlaceNext, AliveNext
<1>3. QED
  BY <1>1, <1>2, PTL DEF Spec


-----------------------------------------------------------------------------
(* The dirty worklist *)

LEMMA TriggerDirty ==
  ASSUME TypeOK, NEW n \in Nets, NEW ev, NEW a \in Seq(Threads),
         NEW d \in Seq(Conts), NEW q \in SUBSET Conts,
         TriggerFrom(n, ev, a, d, q), Injective(d), RangeOf(d) = q
  PROVE  DirtyAgrees'
  BY TriggerMoves DEF TypeOK, DirtyAgrees

LEMMA DeliverDirty ==
  ASSUME TypeOK, DirtyAgrees, NEW e \in future, Deliver(e)
  PROVE  DirtyAgrees'
<1> DEFINE s == e[2]
           a == active \o Lookup(future_procs, s)
<1>1. CASE s \notin DOMAIN future_conts
  BY <1>1 DEF Deliver, DirtyAgrees
<1>2. CASE s \in DOMAIN future_conts
  <2>1. ContTarget[future_conts[s]] \in Nets
    BY <1>2, SchedulerAssumption DEF TypeOK
  <2>2. PICK ev \in Events : TriggerFrom(ContTarget[future_conts[s]], ev, a,
                                         cont_dirty, cont_queued)
    BY <1>2 DEF Deliver
  <2>3. a \in Seq(Threads)
    <3>1. Lookup(future_procs, s) \in Seq(Threads)
      BY LookupType DEF TypeOK
    <3>2. QED
      BY <3>1, ConcatRange DEF TypeOK
  <2>4. cont_dirty \in Seq(Conts) /\ cont_queued \in SUBSET Conts
        /\ Injective(cont_dirty) /\ RangeOf(cont_dirty) = cont_queued
    BY DEF TypeOK, DirtyAgrees
  <2>5. QED
    BY <2>1, <2>2, <2>3, <2>4, TriggerDirty
<1>3. QED
  BY <1>1, <1>2

LEMMA DirtyNext ==
  ASSUME TypeOK, DirtyAgrees, [Next]_vars
  PROVE  DirtyAgrees'
<1> USE DEF wakeVars
<1>1. /\ active \in Seq(Threads) /\ cont_dirty \in Seq(Conts)
      /\ cont_queued \in SUBSET Conts
      /\ Injective(cont_dirty) /\ RangeOf(cont_dirty) = cont_queued
  BY DEF TypeOK, DirtyAgrees
<1>2. ASSUME NEW n \in Nets, NEW ev \in Events, Trigger(n, ev)
      PROVE  DirtyAgrees'
  BY <1>1, <1>2, TriggerDirty DEF Trigger
<1>3. CASE UNCHANGED <<cont_dirty, cont_queued>>
  BY <1>3 DEF DirtyAgrees
<1>4. CASE Statement
  <2>1. \/ \E n \in Nets, ev \in Events : Trigger(n, ev)
        \/ UNCHANGED <<cont_dirty, cont_queued>>
    BY <1>4 DEF Statement, BlockingAssign, NbaAssign, Delay, Wait, Fork,
                EndInitial, EndAlways, EndBranch, SysTask, Finish,
                FinishInFunction
  <2>2. QED
    BY <1>2, <1>3, <2>1
<1>5. CASE EvalCont
  <2> DEFINE c == Head(cont_dirty)
             rest == Tail(cont_dirty)
             queued == cont_queued \ {c}
  <2>1. \/ \E ev \in Events :
             TriggerFrom(ContTarget[c], ev, active, rest, queued)
        \/ cont_dirty' = rest /\ cont_queued' = queued
        \/ cont_dirty' = <<>> /\ cont_queued' = {}
    BY <1>5 DEF EvalCont, Count
  <2>2. cont_dirty # <<>>
    BY <1>5 DEF EvalCont, Count
  <2>3. /\ c \in Conts /\ rest \in Seq(Conts) /\ queued \in SUBSET Conts
        /\ Injective(rest) /\ RangeOf(rest) = queued
    BY <1>1, <2>2, HeadTailRange
  <2>4. ContTarget[c] \in Nets
    BY <2>3, SchedulerAssumption
  <2>5. CASE cont_dirty' = <<>> /\ cont_queued' = {}
    BY <2>5, EmptyRange DEF DirtyAgrees
  <2>6. CASE cont_dirty' = rest /\ cont_queued' = queued
    BY <2>3, <2>6 DEF DirtyAgrees
  <2>7. CASE \E ev \in Events :
               TriggerFrom(ContTarget[c], ev, active, rest, queued)
    BY <1>1, <2>3, <2>4, <2>7, TriggerDirty
  <2>8. QED
    BY <2>1, <2>5, <2>6, <2>7
<1>6. CASE PopInactive \/ Drain \/ Advance
  BY <1>3, <1>6, DeliverDirty DEF PopInactive, Drain, Advance
<1>7. CASE ApplyNba
  <2>1. CASE nba_batch # <<>>
    <3>1. Head(nba_batch) \in Nets
      BY <2>1, HeadTailRange DEF TypeOK
    <3>2. QED
      BY <1>2, <1>7, <2>1, <3>1 DEF ApplyNba
  <2>2. CASE nba_batch = <<>>
    BY <1>3, <1>7, <2>2 DEF ApplyNba
  <2>3. QED
    BY <2>1, <2>2
<1>8. CASE \/ StartThread \/ StopAfterFinish \/ EndActive \/ EndConts
           \/ EndInactive \/ Postponed \/ EndDrain \/ Stopped \/ UNCHANGED vars
  BY <1>3, <1>8 DEF StartThread, StopAfterFinish, EndActive, EndConts,
                    EndInactive, Postponed, EndDrain, Stopped, vars
<1>9. QED
  BY <1>4, <1>5, <1>6, <1>7, <1>8 DEF Next

\* A continuous assignment is queued exactly when its bit says so, and once.
THEOREM DirtyBitsRight == Spec => []DirtyAgrees
<1>1. Init => TypeOK /\ DirtyAgrees
  BY TypeInit, InitialPlaces DEF Init, DirtyAgrees
<1>2. TypeOK /\ DirtyAgrees /\ [Next]_vars => (TypeOK /\ DirtyAgrees)'
  BY TypeNext, DirtyNext
<1>3. QED
  BY <1>1, <1>2, PTL DEF Spec

-----------------------------------------------------------------------------
(* The future queue *)

\* A statement #d suspends the thread t.
Suspends(t, d) ==
  /\ Schedule(now + d)
  /\ future_procs' = With(future_procs, seq', t)
  /\ UNCHANGED <<future_conts, now>>
  /\ region = "active" /\ region' \in {"active", "finish"}

\* The continuous assignment c is scheduled.
Schedules(c) ==
  /\ IsDelayed(c)
  /\ Schedule(now + ContDelay[c])
  /\ future_conts' = With(future_conts, seq', c)
  /\ UNCHANGED <<future_procs, now, region>>
  /\ region = "conts"

\* What a step does to the future queue and the clock.
LEMMA TimeSteps ==
  ASSUME TypeOK, RunsInActive, [Next]_vars
  PROVE  \/ /\ UNCHANGED timeVars
            /\ region = "stopped" => region' = "stopped"
            /\ region = "drain" /\ region' # "drain" => NothingNow
         \/ \E t \in running, d \in Delays : Suspends(t, d)
         \/ \E c \in Conts : Schedules(c)
         \/ \E e \in future :
              /\ DueNow(e) /\ Deliver(e) /\ UNCHANGED <<now, region>>
              /\ region \in {"inactive", "drain"}
         \/ \E e \in future :
              /\ Deliver(e) /\ now' = e[1] /\ now' \in Nat
              /\ region = "advance" /\ region' = "drain"
         \/ /\ region' = "stopped"
            /\ UNCHANGED <<future_procs, future_conts, now>>
<1> USE DEF timeVars
<1>1. CASE Statement
  <2>1. PICK t \in running :
          \/ UNCHANGED timeVars
          \/ \E d \in Delays : Delay(t, d)
    BY <1>1 DEF Statement, BlockingAssign, NbaAssign, Wait, Fork, EndInitial,
                EndAlways, EndBranch, SysTask, Finish, FinishInFunction
  <2>2. region = "active"
    BY <2>1 DEF RunsInActive
  <2>3. QED
    BY <2>1, <2>2 DEF Delay, Suspends, Return
<1>2. CASE EvalCont
  <2>1. Head(cont_dirty) \in Conts
    BY <1>2, HeadTailRange DEF EvalCont, Count, TypeOK
  <2>2. QED
    BY <1>2, <2>1 DEF EvalCont, Count, Schedules
<1>3. CASE PopInactive \/ Drain
  BY <1>3 DEF PopInactive, Drain
<1>4. CASE Advance
  <2>1. \A e \in future : e[1] \in Nat
    BY DEF TypeOK
  <2>2. QED
    BY <1>4, <2>1 DEF Advance
<1>5. CASE StartThread \/ StopAfterFinish \/ EndActive \/ EndConts
  BY <1>5 DEF StartThread, StopAfterFinish, EndActive, EndConts
<1>6. CASE EndInactive \/ ApplyNba \/ Postponed \/ EndDrain
  BY <1>6 DEF EndInactive, ApplyNba, Postponed, EndDrain
<1>7. CASE Stopped \/ UNCHANGED vars
  BY <1>7 DEF Stopped, vars
<1>8. QED
  BY <1>1, <1>2, <1>3, <1>4, <1>5, <1>6, <1>7 DEF Next

\* The body of HeapAgrees.
Matched ==
  /\ \A e, g \in future : e[2] = g[2] => e = g
  /\ {e[2] : e \in future} = DOMAIN future_procs \cup DOMAIN future_conts
  /\ DOMAIN future_procs \cap DOMAIN future_conts = {}
  /\ \A e \in future : e[1] >= now

\* A new entry takes a key nobody has.
LEMMA ScheduleMatched ==
  ASSUME TypeOK, Matched, NEW d \in Nat, Schedule(now + d), now' = now,
         \/ /\ DOMAIN future_procs' = DOMAIN future_procs \cup {seq'}
            /\ DOMAIN future_conts' = DOMAIN future_conts
         \/ /\ DOMAIN future_conts' = DOMAIN future_conts \cup {seq'}
            /\ DOMAIN future_procs' = DOMAIN future_procs
  PROVE  Matched'
<1>1. now \in Nat /\ now + d \in Nat /\ now + d >= now
  <2>1. now \in 0..MaxTime
    BY DEF TypeOK
  <2>2. QED
    BY <2>1, Bounds
<1>2. PICK k : k = seq'
  OBVIOUS
<1>3. k \notin 1..seq /\ future' = future \cup {<<now + d, k>>}
  BY <1>1, <1>2, ScheduleType
<1>4. /\ \A e \in future : e[2] \in 1..seq
      /\ DOMAIN future_procs \cup DOMAIN future_conts \subseteq 1..seq
  BY DEF TypeOK
<1>5. \A e, g \in future' : e[2] = g[2] => e = g
  BY <1>3, <1>4 DEF Matched
<1>6. {e[2] : e \in future'} = {e[2] : e \in future} \cup {k}
  <2>1. <<now + d, k>> \in future' /\ <<now + d, k>>[2] = k
    BY <1>3
  <2>2. \A e \in future' : e \in future \/ e[2] = k
    BY <1>3
  <2>3. \A e \in future : e \in future'
    BY <1>3
  <2>4. QED
    BY <2>1, <2>2, <2>3
<1>7. \A e \in future' : e[1] >= now
  BY <1>1, <1>3 DEF Matched
<1>8. QED
  BY <1>2, <1>3, <1>4, <1>5, <1>6, <1>7 DEF Matched

\* A popped entry leaves with its key.
LEMMA DeliverMatched ==
  ASSUME TypeOK, Matched, NEW e \in future, Deliver(e)
  PROVE  /\ \A h, g \in future' : h[2] = g[2] => h = g
         /\ {g[2] : g \in future'} =
              (DOMAIN future_procs \cup DOMAIN future_conts)'
         /\ (DOMAIN future_procs \cap DOMAIN future_conts)' = {}
         /\ \A g \in future' : g \in future /\ e[1] <= g[1]
<1>1. /\ future' = future \ {e}
      /\ future_procs' = Without(future_procs, e[2])
      /\ future_conts' = Without(future_conts, e[2])
      /\ \A g \in future : e[1] < g[1] \/ (e[1] = g[1] /\ e[2] <= g[2])
  BY DEF Deliver, IsNext
<1>2. /\ DOMAIN future_procs' = DOMAIN future_procs \ {e[2]}
      /\ DOMAIN future_conts' = DOMAIN future_conts \ {e[2]}
  BY <1>1, WithoutRange
<1>3. {g[2] : g \in future'} = {g[2] : g \in future} \ {e[2]}
  BY <1>1 DEF Matched
<1>4. \A g \in future : g[1] \in Nat
  BY DEF TypeOK
<1>5. \A g \in future' : g \in future /\ e[1] <= g[1]
  BY <1>1, <1>4
<1>6. QED
  BY <1>1, <1>2, <1>3, <1>5 DEF Matched

LEMMA HeapNext ==
  ASSUME TypeOK, RunsInActive, HeapAgrees, [Next]_vars
  PROVE  HeapAgrees'
<1>1. HeapAgrees <=> (region # "stopped" => Matched)
  BY DEF HeapAgrees, Matched
<1>2. HeapAgrees' <=> (region' # "stopped" => Matched')
  BY DEF HeapAgrees, Matched
<1>3. CASE UNCHANGED timeVars /\ (region = "stopped" => region' = "stopped")
  BY <1>1, <1>2, <1>3 DEF timeVars, Matched
<1>4. ASSUME NEW t \in running, NEW d \in Delays, Suspends(t, d)
      PROVE  HeapAgrees'
  <2>1. d \in Nat /\ Schedule(now + d) /\ now' = now /\ Matched
    BY <1>1, <1>4, SchedulerAssumption DEF Suspends
  <2>2. /\ DOMAIN future_procs' = DOMAIN future_procs \cup {seq'}
        /\ DOMAIN future_conts' = DOMAIN future_conts
    BY <1>4, WithRange DEF Suspends
  <2>3. QED
    BY <1>2, <2>1, <2>2, ScheduleMatched
<1>5. ASSUME NEW c \in Conts, Schedules(c)
      PROVE  HeapAgrees'
  <2>1. /\ ContDelay[c] \in Nat /\ Schedule(now + ContDelay[c])
        /\ now' = now /\ Matched
    BY <1>1, <1>5, SchedulerAssumption DEF Schedules
  <2>2. /\ DOMAIN future_conts' = DOMAIN future_conts \cup {seq'}
        /\ DOMAIN future_procs' = DOMAIN future_procs
    BY <1>5, WithRange DEF Schedules
  <2>3. QED
    BY <1>2, <2>1, <2>2, ScheduleMatched
<1>6. ASSUME NEW e \in future, Deliver(e), region # "stopped",
             now' = now \/ now' = e[1]
      PROVE  HeapAgrees'
  <2>1. \A g \in future' : g[1] >= now'
    <3>1. \A g \in future' : g[1] >= now /\ e[1] <= g[1]
      BY <1>1, <1>6, DeliverMatched DEF Matched
    <3>2. e[1] \in Nat /\ \A g \in future' : g[1] \in Nat
      BY <1>6 DEF TypeOK, Deliver
    <3>3. QED
      BY <1>6, <3>1, <3>2
  <2>2. QED
    BY <1>1, <1>2, <1>6, <2>1, DeliverMatched DEF Matched
<1>7. CASE region' = "stopped"
  BY <1>7 DEF HeapAgrees
<1>8. QED
  BY <1>3, <1>4, <1>5, <1>6, <1>7, TimeSteps

\* Only the drain of a new time may find continuous assignments due.
LEMMA DueNext ==
  ASSUME TypeOK, RunsInActive, HeapAgrees, OnlyThreadsDueNow, [Next]_vars
  PROVE  OnlyThreadsDueNow'
<1>1. now \in Nat /\ \A e \in future : e[1] \in Nat
  BY Bounds DEF TypeOK
<1>2. CASE /\ UNCHANGED timeVars
           /\ region = "stopped" => region' = "stopped"
           /\ region = "drain" /\ region' # "drain" => NothingNow
  <2>1. CASE region \notin {"drain", "stopped"}
    BY <1>2, <2>1 DEF OnlyThreadsDueNow, timeVars
  <2>2. CASE region = "drain" /\ region' # "drain"
    <3>1. \A e \in future : e[1] >= now /\ e[1] # now
      BY <1>2, <2>2 DEF HeapAgrees, NothingNow, DueNow
    <3>2. \A e \in future : e[1] > now
      BY <1>1, <3>1
    <3>3. QED
      BY <1>2, <3>2 DEF OnlyThreadsDueNow, timeVars
  <2>3. CASE region' \in {"drain", "stopped"}
    BY <2>3 DEF OnlyThreadsDueNow
  <2>4. QED
    BY <1>2, <2>1, <2>2, <2>3
<1>3. ASSUME NEW t \in running, NEW d \in Delays, Suspends(t, d)
      PROVE  OnlyThreadsDueNow'
  <2>1. PICK k : k = seq'
    OBVIOUS
  <2>2. /\ k \notin 1..seq /\ future' = future \cup {<<now + d, k>>}
        /\ future_conts' = future_conts /\ now' = now /\ region = "active"
    <3>1. now + d \in Nat
      BY <1>1, SchedulerAssumption
    <3>2. QED
      BY <1>3, <2>1, <3>1, ScheduleType DEF Suspends
  <2>3. DOMAIN future_conts \subseteq 1..seq
    BY DEF TypeOK
  <2>4. QED
    BY <2>2, <2>3 DEF OnlyThreadsDueNow
<1>4. ASSUME NEW c \in Conts, Schedules(c)
      PROVE  OnlyThreadsDueNow'
  <2>1. PICK k : k = seq'
    OBVIOUS
  <2>2. ContDelay[c] \in Nat /\ ContDelay[c] # 0
    BY <1>4, SchedulerAssumption DEF Schedules, IsDelayed
  <2>3. now + ContDelay[c] \in Nat /\ now + ContDelay[c] > now
    BY <1>1, <2>2
  <2>4. /\ k \notin 1..seq /\ future' = future \cup {<<now + ContDelay[c], k>>}
        /\ now' = now /\ region = "conts"
        /\ DOMAIN future_conts' = DOMAIN future_conts \cup {k}
    <3>1. /\ k \notin 1..seq
          /\ future' = future \cup {<<now + ContDelay[c], k>>}
      BY <1>4, <2>1, <2>3, ScheduleType DEF Schedules
    <3>2. DOMAIN future_conts' = DOMAIN future_conts \cup {seq'}
      BY <1>4, WithRange DEF Schedules
    <3>3. QED
      BY <1>4, <2>1, <3>1, <3>2 DEF Schedules
  <2>5. \A e \in future : e[2] # k
    BY <2>4 DEF TypeOK
  <2>6. QED
    BY <2>3, <2>4, <2>5 DEF OnlyThreadsDueNow
<1>5. ASSUME NEW e \in future, DueNow(e), Deliver(e), UNCHANGED <<now, region>>
      PROVE  OnlyThreadsDueNow'
  <2>1. DOMAIN future_conts' \subseteq DOMAIN future_conts
        /\ future' \subseteq future
    <3>1. /\ future' = future \ {e}
          /\ future_conts' = Without(future_conts, e[2])
      BY <1>5 DEF Deliver
    <3>2. QED
      BY <3>1 DEF Without
  <2>2. QED
    BY <1>5, <2>1 DEF OnlyThreadsDueNow
<1>6. CASE region' \in {"drain", "stopped"}
  BY <1>6 DEF OnlyThreadsDueNow
<1>7. QED
  BY <1>2, <1>3, <1>4, <1>5, <1>6, TimeSteps

\* The future queue is well formed: this is what makes its pops meaningful.
QueueInv == TypeOK /\ RunsInActive /\ HeapAgrees /\ OnlyThreadsDueNow

LEMMA QueueInit == Init => QueueInv
<1>1. Init => HeapAgrees /\ OnlyThreadsDueNow
  BY DEF Init, HeapAgrees, OnlyThreadsDueNow
<1>2. QED
  BY <1>1, TypeInit DEF QueueInv, Init, RunsInActive

LEMMA QueueNext == QueueInv /\ [Next]_vars => QueueInv'
  BY TypeNext, Progress, HeapNext, DueNext DEF QueueInv

\* The heap and the maps behind it agree, and nothing is overdue.
THEOREM HeapRight == Spec => []HeapAgrees
<1>1. QueueInv => HeapAgrees
  BY DEF QueueInv
<1>2. QED
  BY <1>1, QueueInit, QueueNext, PTL DEF Spec

\* No delayed continuous assignment is ever due in the INACTIVE region.
THEOREM InactiveIsForThreads == Spec => []OnlyThreadsDueNow
<1>1. QueueInv => OnlyThreadsDueNow
  BY DEF QueueInv
<1>2. QED
  BY <1>1, QueueInit, QueueNext, PTL DEF Spec

\* A thread suspended by #n resumes at the time it asked for, no other.
THEOREM DelaysExact == Spec => DelayIsExact
<1>1. ASSUME TypeOK, RunsInActive, [Next]_vars,
             NEW s \in DOMAIN future_procs, s \notin DOMAIN future_procs'
      PROVE  <<now', s>> \in future
  <2>1. ASSUME NEW e \in future, Deliver(e), e[1] = now'
        PROVE  <<now', s>> \in future
    <3>1. future_procs' = Without(future_procs, e[2])
      BY <2>1 DEF Deliver
    <3>2. s = e[2]
      BY <1>1, <3>1 DEF Without
    <3>3. e = <<e[1], e[2]>>
      <4>1. e \in Nat \X (1..seq)
        BY <1>1, <2>1 DEF TypeOK
      <4>2. QED
        BY <4>1
    <3>4. <<e[1], s>> \in future
      BY <2>1, <3>2, <3>3
    <3>5. QED
      BY <2>1, <3>4
  <2>2. CASE UNCHANGED future_procs
    BY <1>1, <2>2
  <2>3. ASSUME NEW t \in running, NEW d \in Delays, Suspends(t, d)
        PROVE  FALSE
    <3>1. future_procs' = With(future_procs, seq', t)
      BY <2>3 DEF Suspends
    <3>2. s \in DOMAIN future_procs'
      BY <1>1, <3>1 DEF With
    <3>3. QED
      BY <1>1, <3>2
  <2>4. CASE \E c \in Conts : Schedules(c)
    BY <2>2, <2>4 DEF Schedules
  <2>5. CASE \E e \in future : DueNow(e) /\ Deliver(e) /\ UNCHANGED now
    BY <2>1, <2>5 DEF DueNow
  <2>6. QED
    BY <1>1, <2>1, <2>2, <2>3, <2>4, <2>5, TimeSteps DEF timeVars
<1>2. QueueInv /\ [Next]_vars =>
        [\A s \in DOMAIN future_procs \ DOMAIN future_procs' :
           <<now', s>> \in future]_vars
  BY <1>1 DEF QueueInv
<1>3. QED
  BY <1>2, QueueInit, QueueNext, PTL DEF Spec, DelayIsExact

-----------------------------------------------------------------------------
(* The order of the regions *)

\* What is known to be exhausted in each region.
Exhausted ==
  /\ region \notin {"active", "finish"} => running = {} /\ batch = <<>>
  /\ region = "inactive" =>
       cont_dirty = <<>> /\ (moved_inactive \/ active = <<>>)
  /\ region \in {"postponed", "advance"} =>
       /\ active = <<>> /\ cont_dirty = <<>> /\ nba_queue = <<>>
       /\ NothingNow
  /\ nba_batch # <<>> => region = "nba"

\* A thread popped in the INACTIVE region is remembered by moved_inactive, and
\* nothing else is popped there.
LEMMA PopKeeps ==
  ASSUME TypeOK, OnlyThreadsDueNow, Exhausted, PopInactive
  PROVE  Exhausted'
<1> USE DEF PopInactive
<1>1. region = "inactive" /\ UNCHANGED region
  OBVIOUS
<1>2. PICK e \in future :
        /\ DueNow(e) /\ Deliver(e)
        /\ moved_inactive' = (moved_inactive \/ e[2] \in DOMAIN future_procs)
  OBVIOUS
<1>3. e[1] \in Nat /\ now \in Nat
  BY Bounds DEF TypeOK
<1>4. e[2] \notin DOMAIN future_conts
  BY <1>1, <1>2, <1>3 DEF OnlyThreadsDueNow, DueNow
<1>5. /\ active' = active \o Lookup(future_procs, e[2])
      /\ UNCHANGED <<running, batch, nba_batch, cont_dirty>>
  BY <1>2, <1>4 DEF Deliver
<1>6. moved_inactive' \/ active' = <<>>
  <2>1. CASE moved_inactive \/ e[2] \in DOMAIN future_procs
    BY <1>2, <2>1
  <2>2. CASE ~moved_inactive /\ e[2] \notin DOMAIN future_procs
    <3>1. active = <<>> /\ Lookup(future_procs, e[2]) = <<>>
      BY <1>1, <2>2 DEF Exhausted, Lookup
    <3>2. QED
      BY <1>5, <3>1
  <2>3. QED
    BY <2>1, <2>2
<1>7. QED
  BY <1>1, <1>5, <1>6 DEF Exhausted

LEMMA ExhaustedNext ==
  ASSUME TypeOK, RunsInActive, OnlyThreadsDueNow, Exhausted, [Next]_vars
  PROVE  Exhausted'
<1> USE DEF wakeVars, locals
<1>1. CASE Statement
  <2>1. region = "active" /\ UNCHANGED nba_batch
    BY <1>1 DEF Statement, RunsInActive
  <2>2. region' \in {"active", "finish"}
    BY <1>1, <2>1 DEF Statement, BlockingAssign, NbaAssign, Delay, Wait, Fork,
                EndInitial, EndAlways, EndBranch, SysTask, Finish,
                FinishInFunction, Return, Continue
  <2>3. QED
    BY <2>1, <2>2 DEF Exhausted
<1>2. CASE StartThread
  BY <1>2 DEF StartThread, Exhausted
<1>3. CASE StopAfterFinish
  BY <1>3 DEF StopAfterFinish, Exhausted, RunsInActive
<1>4. CASE EndActive \/ EvalCont
  BY <1>4 DEF EndActive, EvalCont, Count, Exhausted
<1>5. CASE EndConts
  BY <1>5 DEF EndConts, Exhausted
<1>6. CASE PopInactive
  BY <1>6, PopKeeps
<1>7. CASE EndInactive
  BY <1>7 DEF EndInactive, LoopTop, Exhausted, NothingNow, DueNow, timeVars
<1>8. CASE ApplyNba
  BY <1>8 DEF ApplyNba, LoopTop, Exhausted
<1>9. CASE Postponed
  BY <1>9 DEF Postponed, Exhausted, NothingNow, DueNow, timeVars
<1>10. CASE Advance \/ Drain
  BY <1>10 DEF Advance, Drain, Deliver, Exhausted
<1>11. CASE EndDrain
  BY <1>11 DEF EndDrain, LoopTop, Exhausted
<1>12. CASE Stopped \/ UNCHANGED vars
  BY <1>12 DEF Stopped, vars, timeVars, Exhausted, NothingNow, DueNow
<1>13. QED
  BY <1>1, <1>2, <1>3, <1>4, <1>5, <1>6, <1>7, <1>8, <1>9, <1>10, <1>11, <1>12
     DEF Next

\* The NBA queue is applied, and time moves, only when all is exhausted.
LEMMA OrderStep ==
  ASSUME QueueInv, Exhausted, Next
  PROVE  /\ nba_queue # <<>> /\ nba_queue' = <<>> => Quiet
         /\ now' # now => /\ Quiet /\ nba_queue = <<>> /\ nba_batch = <<>>
                          /\ now' > now
<1> USE DEF QueueInv, wakeVars, locals
<1>1. now \in Nat /\ \A e \in future : e[1] \in Nat
  BY Bounds DEF TypeOK
<1>2. ASSUME region # "stopped", NothingNow
      PROVE  \A e \in future : e[1] > now
  <2>1. \A e \in future : e[1] >= now /\ e[1] # now
    BY <1>2 DEF HeapAgrees, NothingNow, DueNow
  <2>2. QED
    BY <1>1, <2>1
<1>3. CASE EndInactive
  <2>1. /\ region = "inactive" /\ NothingNow /\ now' = now
        /\ nba_queue # <<>> /\ nba_queue' = <<>> => ~moved_inactive
    BY <1>3 DEF EndInactive, timeVars
  <2>2. QED
    BY <1>2, <2>1 DEF Exhausted, Quiet
<1>4. CASE Advance
  <2>1. region = "advance" /\ UNCHANGED nba_queue
    BY <1>4 DEF Advance, Deliver
  <2>2. /\ Quiet /\ nba_queue = <<>> /\ nba_batch = <<>>
    BY <1>2, <2>1 DEF Exhausted, Quiet
  <2>3. now' = now \/ \E e \in future : now' = e[1]
    BY <1>4 DEF Advance
  <2>4. QED
    BY <2>1, <2>2, <2>3 DEF Quiet
<1>5. CASE ~Advance /\ ~EndInactive
  <2>1. nba_queue # <<>> => nba_queue' # <<>>
    <3>1. CASE Statement
      <4>1. nba_queue' = nba_queue \/ \E n \in Nets : NbaAssign(n)
        BY <3>1 DEF Statement, BlockingAssign, Delay, Wait, Fork,
                EndInitial, EndAlways, EndBranch, SysTask, Finish,
                FinishInFunction
      <4>2. ASSUME NEW n \in Nets, NbaAssign(n)
            PROVE  nba_queue' # <<>>
        <5>1. nba_queue' = Append(nba_queue, n) /\ nba_queue \in Seq(Nets)
          BY <4>2 DEF NbaAssign, TypeOK
        <5>2. QED
          BY <5>1
      <4>3. QED
        BY <4>1, <4>2
    <3>2. CASE ~Statement
      BY <1>5, <3>2 DEF Next, StartThread, StopAfterFinish, EndActive,
         EvalCont, Count, EndConts, PopInactive, Deliver, ApplyNba, Postponed, Drain,
         EndDrain, Stopped, vars
    <3>3. QED
      BY <3>1, <3>2
  <2>2. now' = now
    <3>1. CASE Statement
      BY <3>1 DEF Statement, BlockingAssign, NbaAssign, Delay, Wait, Fork,
                  EndInitial, EndAlways, EndBranch, SysTask, Finish,
                  FinishInFunction, timeVars
    <3>2. CASE ~Statement
      BY <1>5, <3>2 DEF Next, StartThread, StopAfterFinish, EndActive,
         EvalCont, Count, EndConts, PopInactive, ApplyNba, Postponed, Drain,
         EndDrain, Stopped, vars, timeVars
    <3>3. QED
      BY <3>1, <3>2
  <2>3. QED
    BY <2>1, <2>2
<1>6. QED
  BY <1>3, <1>4, <1>5

\* The regions are taken in the order of IEEE 1364, and time never moves back.
THEOREM RegionsInOrder == Spec => RegionOrder
<1> DEFINE Inv == QueueInv /\ Exhausted
<1>1. Init => Inv
  BY QueueInit DEF Init, Exhausted
<1>2. Inv /\ [Next]_vars => Inv'
  BY QueueNext, ExhaustedNext DEF QueueInv
<1>3. Inv /\ [Next]_vars =>
        [/\ nba_queue # <<>> /\ nba_queue' = <<>> => Quiet
         /\ now' # now => /\ Quiet /\ nba_queue = <<>> /\ nba_batch = <<>>
                          /\ now' > now]_vars
  BY OrderStep
<1>4. QED
  BY <1>1, <1>2, <1>3, PTL DEF Spec, RegionOrder
====
