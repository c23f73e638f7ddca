# rverilog in TLA+

rverilog is an event-driven interpreter for a subset of Verilog-2001, written in
Rust. This directory holds its specification: TLA+ modules translated from the
source, small instances that TLC checks, and proofs that TLAPS checks for every
instance. The source is the reference; the comments and documents of the
repository (PLAN.md, DIARY.md) are quoted only where the code disagrees with them.

## 1. The system

```
.v files -> sv-parser -> frontend/lower.rs -> HIR -> elab/elaborate.rs -> MIR -> sim/interp.rs -> stdout, files, VCD
```

| component | state it keeps | operations | what makes it correct |
|---|---|---|---|
| Event scheduler (`Interpreter::run`, `exec_proc`, `step`) | run queue, future heap and its two maps, event waiters, fork counters and fork waiters, NBA queue, dirty worklist, strobe queue, time | the statements that suspend, fork, end, write; the steps of the regions | every thread is in one place; joins count right; the regions are taken in IEEE 1364 order; nothing due is skipped and nothing runs early |
| Process interpreter (`step`, `exec_sync_stmt`) | one stack of frames per thread | blocks, if, case, while, named blocks, disable; function bodies run to completion | disable leaves exactly the named block; a loop iteration returns to the loop |
| Continuous assignments (`eval_conts`, `write_cont`, `apply_future_cont`) | dirty worklist and bit set, one generation per assignment, scheduled updates | evaluate, schedule, cancel, apply | a settled net carries the value of its expression; a delayed one has one pending change, of its last value |
| Net resolution (`write_multi_driver`, `resolve*`) | one value per driver | update a driver, resolve | the result depends on the set of driver values only; strength order; X is pessimistic |
| Bidirectional switches (`recompute_tran`, `solve_resistive_group`) | none of its own | recompute a connected group | a terminal has the value of the strongest signals that reach it; every reader learns of it |
| Sensitivity and lvalue writes (`write_lvalue`, `trigger_sensitivity`) | net and memory values | write, compare, wake | a waiter is woken when, and only when, what it waits for changed |
| Monitor, strobe, file output (`flush_monitor`, `flush_strobe`, `emit`) | registrations, snapshots, descriptors | register, switch on and off, open, close, print | printed once per settled change, to targets that are open |
| VCD output (`VcdWriter`) | pending changes, last time | record, advance, finish | the file's last value of a net at a time is the net's value at that time |
| Expressions and `LogicVal` | none | 4-valued operators, widths, signs | X propagates as IEEE 1364 says; widths |
| Elaboration | maps built once | parameters, instances, sensitivities, drivers, context widths | what it tells the simulator covers what the design says |
| Frontend (`parse_files`, `lower_*`) | the module under construction, the modules that are done | lower a file, a header, an item, a statement, an expression | the HIR means its text: grouping, literals, widths, gates |
| HIR, CLI | none while simulating | pass on | - |

How they interact. `run` owns everything and is single threaded: there is no
preemption, but the *order* of threads is a real concurrency. A running thread
(`exec_proc`) runs until it suspends. Its writes call `trigger_sensitivity`, which
moves waiting threads to the run queue and marks continuous assignments dirty;
`eval_conts` evaluates those, which may wake more threads and mark more assignments,
or schedule an update in the future heap. Delayed threads and delayed updates share the
heap and its key `seq`. Forks push their branches on the run queue and park the
parent. Monitors and strobes are printed when a time step has settled.

What is hard: the interleaving of threads with event wake-ups and with joins that end
many time steps later; two kinds of entries in one heap; cancellation of scheduled
updates; the region order; `$finish` in the middle of a batch, or inside a function, where
only a later check notices it; combinational loops that are cut off. Before the run, what is
hard is that a wrong width, sign, grouping or sensitivity shows for some values only.
`PROJECT.json` lists each of these hazards at the line where it bites.

## 2. Modules

| module | models |
|---|---|
| `Scheduler` | the event loop of `interp.rs`: regions, heap, waiters, fork/join |
| `SchedulerProperties` | its invariants and action properties |
| `SchedulerProofs` | proofs about it: threads and joins; heap, time and regions |
| `MCScheduler` | small designs for TLC |
| `LogicVec` | the 4-valued operators of `logicval.rs` |
| `LogicVecProperties` | what they promise, over operands whose unknown bits become known |
| `LogicVecProofs` | proofs for all widths |
| `ContAssign` | `eval_conts`, `write_cont`, `write_multi_driver`, `apply_future_cont`: values, drivers, resolution, delays |
| `ContAssignProperties` | its properties |
| `InertialDelay` | the abstract delay: that of IEEE 1364, and the one that every evaluation starts anew |
| `ContAssignProofs` | proofs: no change is lost; a delayed assignment has one pending change |
| `NetProofs` | proofs: nets are resolved to the strongest drive; charges are kept |
| `MCContAssign` | small designs for TLC |
| `TranSwitch` | `recompute_tran`, `tran_component`, `resolve_tran_group`, `solve_resistive_group`, `on_tran_enable_change`; its properties |
| `TranSwitchProofs` | proofs: no change through a group is missed |
| `MCTranSwitch` | small designs for TLC |
| `Sensitivity` | `write_lvalue`, `get_lval_val`, `trigger_sensitivity`, selects and memory reads of `eval_expr`, the NBA queue with values |
| `SensitivityProperties`, `MCSensitivity` | its properties, a small design for TLC |
| `SensitivityProofs` | proofs: no event is lost and no edge made up, for whole targets; writes of all targets are read back |
| `Output` (extends `Vcd`) | the output tasks of `exec_syscall`, `emit`, `open_file`, `close_file`, `flush_monitor`, `flush_strobe`; `VcdWriter` |
| `OutputProperties`, `MCOutput` | its properties; a design of three nets and six programs for TLC |
| `OutputProofs` | proofs: descriptors, time stamps, the strobe queue, `$monitor`, the waveform |
| `DataInduction` | induction over numbers and finite sets, and recursive functions, in a form the provers can use |
| `Mir` | expressions of the elaborated design: signs, self-determined and context widths |
| `Eval` | `eval_expr`, `write_lvalue`, `exec_sync_stmt`; sums, products, quotients |
| `Lowering`, `LowerStmt` | names, constants, `lower_expr`, `lower_lvalue`; `lower_stmt`, `collect_sensitivity_*` of `elaborate.rs` |
| `Elaborate` | `elaborate`, `elab_module`, `elab_generate_items`, `elab_assign`, `elab_tran` |
| `Source` | the reference: what HIR expressions and statements mean by IEEE 1364-2001 |
| `FrontExpr`, `FrontStmt`, `FrontItem` | literals, ranges, expressions; statements; declarations, gates, instances and generate constructs of `lower.rs` |
| `Frontend` (extends `Elaborate`) | `parse_files`, headers and ports, one action per item; the driver, which elaborates the result |
| `FrontendProperties` | its properties, with references of their own |
| `ElaborateProperties`, `MCElaborate` | the flat source that the design is compared with; designs, and 138 sources of the frontend, for TLC |
| `Process` | `step` and its frames: how a process executes lowered statements |
| `ProcessProperties`, `MCProcess` | its properties; programs for TLC |

`ContAssign` extends `LogicVec`: its nets hold the vectors of that module, and its
resolution is that of `resolve`, `resolve_dominant` and `resolve_strength`. `Scheduler` and
`ContAssign` both contain the worklist of continuous assignments, from two sides:
`Scheduler` has the queue, its bits, and everything else that shares the heap, but no values;
`ContAssign` has the values and takes the worklist as a set, so that it covers every order
in which `Scheduler` may serve it. `TranSwitch` also extends `LogicVec`; it is the branch of
`write_multi_driver` that `ContAssign` leaves out.

### Scheduler and the code

A thread is one `ProcState`. Rust moves it from place to place, so the model gives it an
identity: process i of the design is `<<0, i>>`, branch k of fork f is `<<f, k>>`
(`fork_ctx` is the first component, 0 for `None`). The places are the variables

| variable | code |
|---|---|
| `running` | the argument of `exec_proc` |
| `batch` | what is left of the local `procs` of `run` (interp.rs:200) |
| `active`, `event_waiters`, `future_procs`, `fork_waiters` | the fields of that name |
| `future`, `future_conts`, `seq`, `now` | the heap, the scheduled updates, the key, the time |
| `fork_seq`, `fork_remaining` | the fork counters |
| `nba_queue`, `nba_batch` | the queue, and the local `nba` while it is applied |
| `cont_dirty`, `cont_queued`, `evals` | the worklist, its bits, the local `iterations` |
| `strobe_queue` | its length |
| `finished` | the flag |
| `region` | the program counter of `run` |

`Statement` is one call of `step` whose statement changes this state: a blocking or
nonblocking assignment, `#n`, `@(...)`, `fork`, the end of a process or of a branch, a
system task, `$finish`/`$stop`, or `$finish` inside a function. A running thread may
execute any of them, so one instance covers every program over its nets. The region
actions follow `run` line by line: `StartThread`, `StopAfterFinish`, `EndActive`,
`EvalCont`, `EndConts`, `PopInactive`, `EndInactive`, `ApplyNba`, `Postponed`,
`Advance`, `Drain`, `EndDrain`, `Stopped`.

Abstracted: values. A write is the event it causes (`none`, `change`, `posedge`,
`negedge`); one write of a thread, one evaluation of an assignment or one delayed update
touches one net (a function that writes several nets is several statements). The
order in which one event wakes its waiters and marks its readers comes from Vec
positions and is left open, as is the seeding order, so the model has more behaviours
than the code and an invariant of it is one of the code. The counter that stops `run`
after 50 million rounds is left out.

### LogicVec and the code

A `LogicVal` is two planes of 64-bit chunks (`a_chunks`, `b_chunks`) and a width. A plane
is here the set of the positions of its 1 bits; a bit is 0, 1, Z or X when it is in
neither, in a, in b, or in both. An operator that treats all chunks alike is an operator on
sets, so that shifts and masks across chunk borders are plain arithmetic on positions.
Each operator has the name it has in Rust, and reads the planes as Rust does, including where
that is surprising (`sign_bit` looks at plane a only; the empty upper chunks are zeros).
The sums, products and quotients, which carry from chunk to chunk, are in `Eval` as the
numbers they compute.

The operators have no state. `LogicVecProperties` gives them one: two operands, whose unknown
bits become known one at a time, as the nets of a design do after reset. "Pessimistic" is
then an action property.

### ContAssign and the code

| variable | code |
|---|---|
| `net_values` | the field, nets only |
| `driver_vals` | the field: the last value of each driver of a resolved net, keyed by assignment and part |
| `cont_dirty` | the worklist with its bits, as a set |
| `evals` | the local `iterations` of `eval_conts` |
| `cont_gens` | the field: the latest generation of each assignment |
| `future_conts`, `seq`, `now` | the field joined with its heap entry: time, key, assignment, value, generation |
| `region` | the program counter of `run` |
| `writes` | a bound on what processes do |
| `warned` | `eval_conts` has given up once |

`EvalCont(c)` is one iteration of `eval_conts` with all it calls: an undelayed assignment
writes its parts, each to a driver and from there through resolution or straight to its
net, and marks the readers of what has changed; a delayed one compares
(`cont_driver_matches`), raises its generation, and schedules. `Advance` and `Drain` take the
top of the heap (`apply_future_cont`); `GiveUp` is the limit of `64 * n` iterations.
`Write` and `Elapse` are the environment: a process assigns a variable while threads run or
after the assignments have settled, or lets time pass.

Abstracted: an expression is a constant operator `Eval` over the nets that it reads (their
set is what `cont_sensitivity` found). The design, a constant, is one that elaboration lets
through: assignments drive nets, processes write variables, and a net with two drivers is
resolved. Not in this module: nets joined by `tran` switches, lvalues with an index that
is not constant, `supply0`/`supply1` nets and memory reads.

### TranSwitch and the code

The variables are those of `ContAssign`, without delays. A switch is a record of the
constant sequence `Switches`; its control is a net of its own with an assignment of its
own, as `elab_tran` makes it. `EvalDriver(c)` is `write_cont` to a terminal: the driver's
value, then `recompute_tran` for the group of the net. `EvalNet(c)` is `write_cont` to another
net, and, when that controls a switch, `on_tran_enable_change`: the group of one side, then
that of the other, each reporting what it changed. `tran_component` visits nets in the
code's order, because the kind and the pulls of a group depend on it.

Nets have one bit: terminals are whole nets of one width and every bit is solved alike.
Not in this module: triregs, and drivers of parts of a terminal.

### Sensitivity and the code

| variable | code |
|---|---|
| `net_values`, `mem_values` | the fields; `mem_values` holds the words that have been written |
| `event_waiters` | the field, as a set of threads with what they wait for |
| `nba_queue`, `nba` | the queue, and the local `nba` while it is applied |
| `cont_dirty` | the worklist, as a set |

`Scheduler` abstracts a write to the event it causes; this module is where that event comes
from. `Blocking(a)`, and `ApplyNba` for an entry of the queue, are the three calls
`get_lval_val`, `write_lvalue` and `trigger_sensitivity` on the assignment's target: a net,
a constant or indexed bit or part, a memory word, or a concatenation of these. The old
value of a bit or part is that of the *whole* net, the new one is the value of the expression
*before* it is cut, and both are taken as they are. `Nonblocking` evaluates the expression
and leaves the target, with its index, to `ApplyNba`. `Wait` is `@(...)`.

Abstracted: which thread runs (any that does not wait), an index (the value of a net), and
the expression (a constant, a selection, or two of these joined). A delayed control is a
matter of `Scheduler`.

### Output, Vcd and the code

| variable | code |
|---|---|
| `files`, `mcd_files`, `opened`, `fd_value` | the two tables of open files, how many files were opened, the registers of the program that hold descriptors |
| `monitor_*`, `fmonitor_*`, `strobe_queue` | the fields of that name; `monitor_call` remembers which call made the registration |
| `out` | stdout, stderr and the content of each file, as sequences of lines |
| `vcd_active`, `pending`, `last_time`, `dumpvars`, `changes` | the `VcdWriter`: whether it exists, the changes of the current time, the time of the last flush, the initial block, the blocks after it |
| `phase`, `now`, `nets`, `finished` | the time step: tasks and writes, the postponed region, the next time |

There is one action for each system task and one for the end of a step (`EndOfStep`: the
monitors, then the strobes, as `flush_*` order them), for `--max-time` and for the end.
Regions within a step are `Scheduler`'s matter, so here nets change and tasks are called in
any order while a step lasts. A line is its task and the values it shows; what a format
string makes of them is left out. An open file has an identity of its own, so that a descriptor
that is handed out again is told from the one it was before. The waveform file is a sequence
of header tokens and of blocks of changes; a block is a set, because the code writes a `HashMap`.

### Mir, Eval, Lowering, LowerStmt, Elaborate and the code

HIR and MIR are trees (nested tuples). Where MIR has an id into an arena the model has the
subtree, and next to it what the arena's side tables `expr_signed` and `expr_ctx_width` hold
under that id.

`Elaborate` makes the recursion of `elab_module` and `elab_generate_items` explicit: `work`
is a stack of jobs, one for each declaration, assignment, process, instance, connection and
generate construct, in the order in which the code comes to them, and one action takes the
job on top. `ctx` is the `ElabCtx`, field by field, with ids that count from 1; `failed` is an
`Err` on its way up. `Finish` is the rest of `elaborate()`: the tables `cont_sensitivity`,
`mem_sensitivity`, `net_drivers` and `strength_nets`.

`Lowering` and `LowerStmt` are the functions that the actions call, and have the code's
names. A constant expression is evaluated by `EvalConst` with `WordBits` in place of 64 bits.

`Eval` evaluates the trees on a store of nets, memory words and queued nonblocking
assignments; `Sensitivity` has what a write wakes, which `Eval` leaves out. Strings, `$time`,
`$random` and `$fopen` as operands are left out.

### FrontExpr, FrontStmt, FrontItem, Frontend and the code

| variable | code |
|---|---|
| `source` | what the files contain, as trees of the parser |
| `todo` | what is left of the loops over files, modules and items: the syntax nodes to lower, the next one first |
| `hir` | the `Vec`s of the module under construction, a field each |
| `design` | `design.modules`, with the modules that are done |
| `phase` | "lowering", then that of `Elaborate`; "failed" is an `Err` on its way up |

`ReadFile`, `BeginModule` and `EndModule` are the loops of `parse_files` and the two kinds of
module; `AddItem` is `process_mogi`, an alternative for each section that an item may add to;
`AddFunction` and `AddTask` the declarations that only a module may have; `Refuse` and
`Ignore` the arms that return an error or do nothing. `StartElaboration` is the driver's call of
`elaborate`, whose actions go on from there. Statements and expressions are lowered by operators
with the code's names; `Unsupported` is an `Err`, which every caller passes on, except where
the code drops it: in a generate construct (`KeptIn`), as an argument of a task, as an input
of a gate.

The parser is external. A tree is as its crate leaves it where that matters: operators are nested
to the right without priorities, a conditional is at the end of its chain, a literal is a list
of digits, a range is a list of tokens (the code reads it as a text). Replications, strings,
`$random`, `$time` and `$fopen` as operands, and the preprocessor, are left out.

### Process and the code

`procs` has for each process its frames (`stmts` and `idx` of the code are the statements that
are left) and where it goes on; `running` is the argument of `exec_proc`. Each kind of statement is
an action, one call of `step` on the frame on top: `Block`, `NamedBlock`, `If`, `Case`,
`BlockingAssign`, `NbaAssign`, `Delay`, `EventCtl`, `SysCall`, `While`, `Disable`; `Done` is the call that
finds no frame left. `Run` takes any active process from the list. `ResumeInactive` (#0), `ApplyNba`
and `Advance` (other delays, and events) are the part of `run()` that statements can tell from each
other, in that order; `Over` is its end.
`fork`/`join`, the heap and what an event wakes are in `Scheduler` and `Sensitivity`; the text
of system tasks is in `Output`.

## 3. Runs

| run | instance | checks |
|---|---|---|
| `scheduler_forks` | an initial and an always process, one net, delays 0 and 1, two forks of up to two branches, two delays, one NBA, one strobe | `TypeOK`, `OnePlace`, `JoinAccounting`, `AlwaysAlive`, `JoinWaitsForAll`, `DelayIsExact` |
| `scheduler_conts` | the same processes, two nets, a zero-delay assignment that may queue itself and a delayed one, `$finish` in functions, three heap keys, time up to 2; fair | `HeapAgrees`, `OnlyThreadsDueNow`, `DirtyAgrees`, `RegionOrder`, `EvaluationEnds` |
| `logicvec` | all pairs of operands of 1 to 3 bits, distances 0 to 3 | `NoNeedlessX`, `ComparisonsAgree`, `KnownIsArithmetic`, `WriteThenRead`, `KnownStaysKnown` |
| `cont_delays` | a net with an immediate and a delayed driver, a delayed net behind it, an assignment that oscillates while one input is Z; three writes, time up to 3 | `CleanIsCurrent`, `DelayedIsCurrent`, `ImplementsRestartingDelay` |
| `cont_inertial` | `wire #2 y = a \| b;`, three writes, time up to 3 | `ImplementsInertialDelay`, which the code violates (see 5) |
| `cont_nets` | strengths, pulls, partial drivers, a concatenation, a wand, a trireg; three writes of 0, 1 or Z | `NetIsResolved`, `KeepsCharge` |
| `tran_switches` | two resistive switches in a row between a strong driver, a pull and a weak driver; two plain ones in another group, one controlled by a net of the first; three writes | `CleanIsCurrent`, `TerminalsResolved` |
| `sensitivity` | `reg c, i; reg [1:0] y; reg m [0:1];`, eleven assignments, one thread that waits for an edge of `c`, a change of `y` or `i`, or anything, one continuous assignment that reads `y` and `m`, an NBA queue of two | `ReadsBack`, `NoLostWakeup`, `EdgesAreReal` |
| `output` | three nets (two scalars, a vector wider than a chunk) in a tree of four scopes, six programs that print, watch, open and close files, and dump | `MonitorTellsChanges`, `DumpTellsValues`, `FilesKeepTheirDescriptor`, `DeferredLinesAreWhole`, `StampsAreTrue` |
| `elaborate` | 138 sources for the frontend; five designs with hierarchy, parameters, generate constructs, net types, functions, tasks and memories, seven that are rejected, and some four hundred expressions of two operators | `DesignMeansSource`, `SensitivityIsComplete`, `DriversAreResolved`, `HirMeansSyntax`, `GatesFollowTheirTables` |
| `elaborate_memory` | one sum with a memory before and behind a net | `SensitivityIsComplete`, which the code violates (see 5) |
| `process` | ten programs: blocks that are left, nested loops, cases, tasks, functions, memories, delays, events, registers that feed each other | `ExecutionMatchesSource`, `NonblockingIsSimultaneous`, `SyncMatchesStep` |

Scheduler. The bounds are guards: `MaxSeq` delays, `MaxForks` forks, `MaxBranches` branches
each, `MaxNba` and `MaxStrobe` entries, `ContLimit` evaluations. Two forks allow one inside
a branch of the other; three heap keys allow a thread and two updates of the same
assignment at once. The zero-delay assignment reads the net that it drives, so that it may queue
itself for ever; a limit of three evaluations cuts it off, and `EvaluationEnds` says that there is
no other way to stay in `eval_conts`. A process that runs into a bound simply may not execute that statement.

LogicVec. Three bits are enough for an operand that is wider than, as wide as and narrower
than the other, for a shift by less than, exactly and more than the width, and for a write
that is partly outside. Every reachable state is already initial, and the steps are what
the action property needs. The operands stop when all is known, so the deadlock check is off.

ContAssign. `ContLimit` has the code's value for fewer than 16 assignments, 1000, except in
`cont_delays`. There one assignment oscillates while `a` is Z and the net is 1 (a shape that the
designs of other runs do not have), the longest settling of the others takes fewer than 9
evaluations, and the limit of 9 keeps the loop short: any limit above the longest settling gives
the same behaviours up to the cut, and what is scheduled when it falls goes on afterwards. Three
writes are enough to schedule a change, replace it and cancel it, and `MaxTime` 3 to see a delay
of 2 end after one of 1. In
`cont_nets` the drivers of one net are written in every order, since the order of the
worklist is open, and each of 0, 1 and Z can follow each other on both inputs.

TranSwitch. Three writes take two drivers and one control through their values in every
order, so that each switch opens after having carried a value and closes between
different ones. `TerminalsResolved` compares with a reference that knows neither groups nor
rounds: the strongest signal that arrives over a way of switches, for every choice for the
unknown switches and drivers. It is checked on designs without rings, whose groups are of one
kind, and without a plain switch behind a resistive one: with one, the relaxation need not come to
rest (section 5). That it does is no property of a run.

Sensitivity. A vector of two bits is the least that has an index outside, a part that fits in
one place only, and a bit that is not bit 0. The values are wider than, narrower than and as
wide as their targets; one thread is enough, because waiters do not affect each other; two NBAs
let one move the index of the other. `NoLostWakeup` and `EdgesAreReal` are stated on the nets
before and after the step and on the table of IEEE 1364-2001, 9.7.1, not on what the code
compares; `ReadsBack` compares two pieces of code, the select of an lvalue and that of an
expression.

Output. `Chars` 2 (for 94) gives the third net a code of two characters, `ChunkBits` 2 (for 64)
makes the vector of three bits wider than a chunk, `LastChannel` 2 (for 30) lets the channels
run out. Two time steps and the end let a line be ordered, its file be closed and its
descriptor be handed out again. A run of the simulator ends, so the deadlock check is off.

Elaborate. `WordBits` 8 for 64, `IntWidth` 4 for 32, `MaxIters` 4 for 4096, so that a loop that
never fails is cut off. Meanings are compared in 64 stores, in which any three nets in a row
take all combinations of zeros, ones, a pattern and a pattern with an unknown bit; the
expressions have all pairs of operators over operands of 2 and 3 bits in a context of 5. The
run has no liveness: the behaviours are finite, and the deadlock check shows that a stack
with a job on it always goes on. The designs leave out what section 5 lists for elaboration.

Frontend, in the same run. One source has the chains of two operators of every pair, of three
operators of different priorities, with conditionals, signs and parentheses, and literals in all
four bases with x, z and underscores, for sizes that end inside a digit and beyond the last
one (`IntWidth` 4 takes the place of 32, `WordBits` 8 that of a word). One has every kind of
header, item, gate and generate construct, and goes on through elaboration, where
`DesignMeansSource` and the others are checked on it. The rest hold one item each that is
refused, dropped, or refused in a module and dropped in a generate construct.
`HirMeansSyntax` splits a chain at the operator that binds least, sums the digits of a literal and
computes a range from the left, none of which the code does. `GatesFollowTheirTables`
evaluates what a gate has become for all values of its inputs. Statements are lowered in this
run, and what is checked of them is the elaboration of their HIR.

Process. The programs have up to three levels of named blocks, loops of up to four rounds
(`MaxLoop` 8 for 1,000,000), and start from sets of values with unknown bits. A single `@(...)` is
woken at some later time. Functions do not keep their stores in `Source`, so that what is
compared are the declared nets and the memories; calls are not nested (section 5).

Four more configurations are not among the runs; TLC finds each property violated, and
section 5 says why: `MCSchedulerStrobe.cfg` (`StrobeSettled`), `MCContJoint.cfg`
(`DelayedIsCurrent`), `MCContSelect.cfg` (`CleanIsCurrent`), `MCTranFloat.cfg`
(`TerminalsResolved`; with `Stale` in place of `Float` in the names of its constants,
`RelaxationEnds`).

Fairness. `Spec` of the modules has none: the properties are about safety. `FairSpec` of
`Scheduler` (run `scheduler_conts`) adds `WF_vars(EvalCont \/ EndConts)`: `eval_conts` is a loop in
one thread that waits for nothing, so it takes its next step as long as it has one. Processes
and time get no fairness: a process need not write, and `EvaluationEnds` needs nothing of them.
`Stopped` stutters, so TLC's deadlock check shows that `run` is never stuck anywhere else.

## 4. Proofs

`SchedulerProofs` proves, for every design and every value of the bounds:

- `TypeCorrect`: `Spec => []TypeOK`.
- `ThreadsInOnePlace`: `Spec => []OnePlace`. Not inductive alone: the branches of a new
  fork must be new threads, which needs `BranchesKnown` (no thread has a fork id
  above `fork_seq`). The invariant is `PlaceInv`.
- `JoinsCounted`: `Spec => []JoinAccounting`, on top of `PlaceInv`: each step either keeps
  the set of located threads (`Moves`), removes the running one (`Ends`), or adds the branches
  of one fork, and the counters follow.
- `JoinsWait`: `Spec => JoinWaitsForAll`, from the same invariant.
- `AlwaysKept`: `Spec => []AlwaysAlive`.
- `DirtyBitsRight`: `Spec => []DirtyAgrees`.
- `HeapRight`: `Spec => []HeapAgrees`, the one-to-one relation between the heap entries and
  the threads and updates behind them. Its induction (`QueueInv`) needs `TypeOK`, which bounds
  the keys by `seq`, that a thread runs only in the ACTIVE region (`RunsInActive`), and
  `OnlyThreadsDueNow`.
- `InactiveIsForThreads`: `Spec => []OnlyThreadsDueNow`. A delayed assignment has a delay of at
  least one and is drained when its time begins.
- `DelaysExact`: `Spec => DelayIsExact`; `RegionsInOrder`: `Spec => RegionOrder`, from an
  invariant that says which queues are empty in which region (`Exhausted`).

The only assumption is `SchedulerAssumption`, on the types of the constants. The lemmas
`ConcatRange`, `HeadTailRange`, `WithoutRange`, `OrderingIs` and `MapProcRange` say what the
queue operations do to the set of threads a queue holds; `TriggerMoves` says what one
event does to the run queue, the waiters and the worklist.

`LogicVecProofs` proves, for operands of every width:

- `ResultsTyped` (the results are vectors of the width they should have), `ResultsPessimistic` (`KnownStaysKnown`) and
  `ComparisonsConsistent` (`ComparisonsAgree`), each from one lemma per operator about bits.
  Pessimism is proved in a stronger form, for any step to operands that know more
  (`Covers`), which is why the lemmas compose.
- `WritesAreRead` (`WriteThenRead`): `InsertIs` says which bit each position of the result of
  `insert_bits` comes from, also when the part hangs over the end of the vector.
- `UnknownsAreOpen` (`NoNeedlessX`): for a bit that is reported X, two completions of the operands
  with different results are named. They are the extreme ones: all unknown bits low, all high, or
  one operand copied into the open bits of the other (`Low`, `High`, `Fill`). No counting is needed.
- `KnownComputes` (`KnownIsArithmetic`): a set of positions is read as a number by recursion along the
  positions (`Num`, `Power`). That number splits at every position into a remainder and a multiple of
  a power of two (`NumSplit`), which gives concatenation and the shifts; two numbers are ordered
  by the highest position at which they differ (`BeforeIsLess`), which is what `cmp_unsigned` looks
  for; and extending by the sign keeps the signed number (`ExtendIs`), which reduces `cmp_signed` and
  the arithmetic shift to the unsigned case. No width, distance or value is bounded.

`ContAssignProofs` proves, for every design:

- `NoChangeLost`: `NoticesChanges` implies `Spec => []CleanIsCurrent`. The assumption
  excludes concatenations of which no net is resolved, for which the property fails
  (`MCContSelect.cfg`). `CleanIsCurrent` is inductive with `Shapes`: a write changes only the
  writer's own contribution (`OthersDrive`), makes it current (`WriterDrives`), and marks
  everything that reads what it changed (`UnreadWrite`).
- `DelaysCurrent`: `NoticesChanges` and `DelayedWhole` imply `Spec => []DelayedIsCurrent`.
  `DelayedWhole` says that each delayed assignment has one whole net as its target; otherwise the property fails (`MCContJoint.cfg`). The strengthening `DelayInv`
  says that the generation of an entry is at most the latest one, that an entry of the latest
  generation is unique, and that none is overdue. All steps are first reduced to four kinds
  as a delay sees them (`StepKinds`): nothing, a cancellation, a new update, an update taken.
- `DelaysRestart`: `FitsTarget` (the expression of such an assignment is as wide as its
  target) implies `Spec => ImplementsRestartingDelay`
  (`InertialDelay` with `Restarts`; without, the code does not implement it, section 5), by the same reduction, with `pending` mapped to the live entries of the assignment and `out` to its
  driver or net. It needs the widths (`TypedNets`, `TypedUpdates`): a value that is written
  to a net of its own width arrives unchanged.

The lemmas on `LogicVec` and `ContAssumption` are all they rest on.

`NetProofs` goes on with the resolution of nets. `ContAssumption` says of the constants what
lowering guarantees: strengths are levels 0 to 7 (lower.rs:171-211), a charge is 1, 2 or 4
(lower.rs:214-222), there are finitely many assignments.

- `NetsResolved`: `PullsAgree` implies `Spec => []NetIsResolved`. The invariant (`NetInv`) adds
  that every driver has the width of its net. That a step keeps it is `ResolvedBit`: what
  `write_multi_driver` computes from any values of the drivers is the reference, in two ways.
  With strengths the code decides all X as 0 and then as 1 and compares; the reference decides each
  X on its own. More X taken for 1 never strengthens the 0 nor weakens the 1 (`TopsMove`), so that
  every choice lies between those two (`StrongestDriveIs`). Without strengths the code folds the
  drivers and replaces Z by the pulls; the fold over a set has a closed form, the vector of what
  the bits of all drivers make together (`FoldedIs`, by induction over the subsets of the drivers),
  and this is the strongest drive when drivers have level 6 and pulls level 5 (`PlainBit`).
  `PullsAgree` says that no bit is pulled both up and down: there the code takes the
  first pull and the strengths give X (section 5, nets with pulls).
- `ChargeIsKept`: `Spec => KeepsCharge`. The second half holds only because a trireg whose drivers
  overcome the charge has their value already (`ChargeInv`), in steps that leave the net alone.

`TranSwitchProofs` proves, for every design with switches and every function that an assignment
may compute:

- `CleanInvariant`: `Spec => []CleanIsCurrent`. With the domain of `net_values` it is inductive
  (`CleanInv`). Each step evaluates some assignments and marks the readers of everything it
  changes (`Evaluates`), the controls of switches included; an evaluated assignment drives what it
  computed. The step must not give a value to a net that another assignment drives alone: resolving
  a group writes terminals only (`OthersKept`), because `tran_component` joins only terminals
  (`GroupTerminals`). That is an induction over the two loops of `tran_component`, over the nets that
  are visited and the switches at each of them. By `TranAssumption`
  a net that is not a terminal has one driver; `ContAssign` has the nets with several.

`SensitivityProofs` proves, for every design whose targets are whole nets and memory words
(`WholeTargets`), whatever the widths and signs of the expressions:

- `EveryEventIsNoticed`: `Spec => NoLostWakeup`. A value that equals the old net has its width
  and is written as it is, so that nothing changes (`FittedFacts`); a word that was never
  written counts as changed.
- `EveryEdgeIsReal`: `Spec => EdgesAreReal`. Cutting and extending keep bit 0.

These two need the invariant `Shapes` (nets have their widths, queued values are vectors), which
`StepFacts` carries through every step, together with the two properties. `WholeTargets` is
needed: section 5 has the designs without it for which the code loses a change. The run
`sensitivity` checks the properties with bits, parts and concatenations of 2-bit nets on the
design given. The third theorem is about every target:

- `WritesReadBack`: `ValuesFit` implies `Spec => []ReadsBack`. The invariant (`StoreInv`) says that nets
  and words have their widths and that the values in the NBA queue suit their targets. For one
  target the write and the read decide separately what an index means; they agree
  (`PartRead`, over `InsertFacts` and `SelectIs`, bit by bit). A concatenation is followed part by part
  (`NextPart`): when the parts are apart and move no index of each other, each holds in the end
  what it would hold if it had been written alone. The slices then join to the whole
  value again (`SlicesJoin`), because the offsets leave no gap (`OffsetFacts`). `ValuesFit` leaves out
  two kinds of assignment for which the property fails; section 5 has both.

`OutputProofs` proves, for every set of programs, nets and files:

- `DescriptorsAreKept` (`FilesKeepTheirDescriptor`), from `FilesInvariant`: both tables are one-to-one,
  no file is in both, the numbers in use for an fd lie between 3 and 2 plus the number of files ever
  opened (so `open_file` finds a free one there), and a variable that holds an fd holds no channels.
- `StampsGrow` (`StampsAreTrue`), from `StampsInvariant`: the blocks are in order, all of them before
  the current time, and the writer's `last_time` is the current time, or 0 with no block written.
- `DeferredLines` (`DeferredLinesAreWhole`), from `QueueInvariant`: the queue holds calls that differ
  from each other, none of them printed yet. `flush_strobe` is a loop; it is followed entry by
  entry by induction (`Flushed`): after k entries the first k lines stand in every place they
  should, the others nowhere, and there are at most as many new warnings as closed targets.
- `MonitorTells` (`MonitorTellsChanges`), from `MonitorInvariant`: the snapshot tells what the last
  line of the registration told of the nets, there is no line without a snapshot, a new
  registration has a number that no line has, and what else is watched does not change. Every
  other task, and the strobe loop, leaves these lines alone (`NoMonitor`).
- `DumpTells` (`DumpTellsValues`), from `DumpInvariant`: the value that waits for a net, or else
  the last one in the file under its code, is the value of the net. A block that is added tells what it
  holds and leaves the rest (`ReadAppend`), and no two nets share a code (`CodesDiffer`, for
  every size of alphabet). The header comes from a search along the tree of scopes. That the search is
  defined is an induction from the highest scope down; that it opens what it closes, and
  declares the nets below a scope and no others, is a second one (`AllGood`, over `NestedBoth` for two
  parts in a row and `NestedScope` for a part with a scope around it).

`DataInduction` has the induction that this needs. The library's induction theorems take an
operator as a parameter, which the installed provers cannot instantiate. `Induction` takes the *set*
of the numbers for which a statement holds, and rests on the well-foundedness of strict inclusion
on finite sets (`WFMin`, which has no such parameter). It is enough wherever a definition recurses along a number or
a sequence (a recursive function, a fold), and not for recursive operators over trees.
`SubsetInduction` does the same for the subsets of a finite set, which folds over sets need.
`NatRecursion` and `SetRecursion` say that a function defined by recursion along the numbers, or along
the elements of a finite set, exists: the provers know a recursive function only as a `CHOOSE`.
`ListRecursion` and `ListRecursionDown` are the same along a list, from either end.

Model-checked only. `TerminalsResolved`, which does not hold for every design
(section 5: a plain switch behind a resistive one, a floating control), so that there is nothing
general to prove without a condition on the design that the code does not check;
`EvaluationEnds` (liveness under fairness),
and all that rests on the trees of expressions and statements: `Eval`, `Lowering`,
`Elaborate`, `Frontend` and `Process` recurse over them. Liveness and recursive operators are out
of the prover's reach.

## 5. Where the code and its documents differ

Two disagreements are runs:

- Memories in sensitivities (`elaborate_memory`). elaborate.rs:1660-1662 says that the walk returns
  false where it cannot tell what an expression depends on, and that callers then fall back to
  `Sensitivity::All`. At a memory read it returns false (elaborate.rs:1765) and ends inside an
  `&&`, so that operands behind the memory are not collected; a continuous assignment has
  nothing to fall back to (elaborate.rs:365). `assign z = mem[i] + b` does not follow `b`.
- Inertial delays (`cont_inertial`). PLAN.md:336 promises the inertial delay of IEEE 1364, where a
  scheduled change gives way to a *different* value only. `eval_conts` raises the generation before
  it looks (interp.rs:1743-1754), so an assignment that is evaluated again to the value already on its way
  starts the delay anew: with `wire #2 y = a | b;`, a change of `y` that is due at 2 comes at 3
  when an operand changes at 1 and leaves `a | b` as it is. `InertialDelay` has both delays:
  `ImplementsInertialDelay` is the promise, `ImplementsRestartingDelay`, checked in `cont_delays` and
  proved, is what the code keeps.

Five more have a configuration beside the runs:

- `$strobe` and `$finish` in one time step (`MCSchedulerStrobe.cfg`). interp.rs:83 and
  DIARY.md:3519 say that `$strobe` prints after the updates of its time have settled. `run`
  flushes the strobe queue as soon as a thread has executed `$finish` (interp.rs:203-206), with
  the rest of the batch, the dirty assignments and the NBA queue still to come.
- Delayed concatenations (`MCContJoint.cfg`). The comment at interp.rs:1757-1758 says that
  resolved nets are compared by driver. A concatenation is compared by the joined values of its
  nets (interp.rs:1771), so the value another driver happens to give is taken for its own, and an
  update is dropped.
- Concatenations with a part of a net (`MCContSelect.cfg`). DIARY.md:1709-1712 says that old and
  new values are aligned to the total width and then divided. `write_cont` passes joined *whole*
  nets (interp.rs:1678), which `trigger_sensitivity` cuts at the widths of the parts: a change
  is looked for in the wrong bits, and readers are not woken.
- Floating controls (`MCTranFloat.cfg`). interp.rs:1474-1475 says that what depends on an unknown
  switch is X. A control that is Z from the start never changes, so its switch is never looked
  at (interp.rs:1681), and a net without a driver stays Z.
- Relaxation (`MCTranFloat.cfg` with the `Stale` design). The comment at interp.rs:1509 says that
  the relaxation of a resistive group is repeated up to a fixed point, and PLAN.md:335 that it is
  solved to one. It stops after 8 rounds per net plus 8, and there are groups that never settle:
  with `tran (a, b); rtran (b, c); tran (c, d);`, a strong 1 on `b` and a supply 0 on `a`, the 1 passes
  the `rtran` before the 0 reaches `b`, both are reduced to the same level, and as all nets are
  renewed at once the 1 goes to and fro between `c` and `d` for ever. The group is left with `c`
  at 0 and `d` at X, although a plain `tran` joins them, so that `TerminalsResolved` fails too.

Others were met while modelling; no run shows them, and the instances of the passing runs
leave them out:

- Sign extension. The comment of `extend_sign` (logicval.rs:1017-1018) says that it fills with
  the operand's own MSB. It fills plane a only (logicval.rs:1019), so that an X fills with 1
  and a Z with 0; `ashr` fills both planes.
- Bits and parts as targets. The old value is the whole net (interp.rs:1065-1069), the new one the
  value of the expression. An expression as wide as the net that happens to equal it hides the
  change (`reg [1:0] y; y[0] = e` with a two-bit `e`), and a write of bit 1 counts as an edge of
  bit 0. (In `MCSensitivity` no bit or part of a net is assigned an expression as wide as the
  net, unless the part is the net; `EdgesAreReal` is about nets that are assigned as a whole.)
- Signed concatenations. A concatenation is written with `extend_sign`, but compared with
  `resize` (interp.rs:1144-1148, 1164). (The one of `MCSensitivity` is unsigned.)
- A signed value that is narrower than the bits it is assigned to, as in `y[7:4] = s`, is filled with 0.
  `write_lvalue` looks at the sign for whole nets and concatenations and not for bits and parts
  (interp.rs:1120-1137). Met in the proof of `WritesReadBack`, whose `ValuesFit` excludes it.
- Memory words are stored as wide as the expression is (interp.rs:1140); a word that has not
  been written reads as 0, and counts as X as a part of a target. (`ReadsBack` is about
  words as wide as their memory.)
- Pulls of a group. interp.rs:1430 says that connected nets are resolved as one net with all
  pulls. On the fast path the first pull visited wins (interp.rs:1468). (No group of
  `MCTranSwitch` that has this path has two pulls.)
- Nets with pulls. PLAN.md:335 says that nets take the strongest drive. A net
  without a continuous assignment is not resolved at all; the first pull declared wins
  (interp.rs:105), and also where all strong drivers are Z (interp.rs:1359), though two opposite pulls
  of one level give X. (`MCContAssign` has no bit with two opposite pulls, and `PullsAgree` excludes them.)

Frontend, met while modelling; the sources of `MCElaborate` leave out what would make a
property fail:

- Constants that are read as a text. The bounds of a part select, the width of an indexed one and
  the indices of a net that is assigned go through `lower_const_expr`, which is
  `parse_number_text` of their text (lower.rs:2990-3027): in `x[W-1:0]` or `assign y[g]` with a
  genvar, what is no number is 0. So is a plain decimal with an underscore (`1_000`,
  lower.rs:3026) and a delay that is no number, `#(10)` too (lower.rs:2379-2388).
- Ranges are split at the last `-` (lower.rs:1558): `A-B+1` is `A-(B+1)`, `2*N-1` has a parameter
  named `2*N`, and `$clog2(D-1)` is split inside its parentheses. A literal range is as wide
  as its left bound plus one and a memory as deep as its right bound says, so that ascending
  vectors and descending memories come out wrong.
- `a += b` becomes `a = b` (lower.rs:2340), and `i++` in the step of a for loop is dropped.
- Gates. An input that is not supported is dropped, and the gate has one input fewer; delays are
  ignored; `buf` lets z through. (`GatesFollowTheirTables` grants the last.)
- Instances. Only the first of a list is kept (lower.rs:3179); a connection that is not supported
  or left open reads as the constant 0.
- Generate constructs. The comment at lower.rs:803 says that unsupported constructs are
  reported; items that fail are dropped, except for those that `check_generate_errors` finds.
- Declarations. PLAN.md:175 and 505 list `parameter` among what is supported; in a module body it
  has no arm in `lower_decl` and is ignored. An ansi port without a header of its own takes the
  direction of its neighbour and nothing else. `time` and `int` variables have one bit,
  initial values of variables are dropped, and after `output a, b` in a task, `b` is an input.
- Statements. `@x` without parentheses is `@*` (lower.rs:2066), an event expression is its first
  name, the delay inside an assignment and local declarations of blocks are dropped, and so
  is the part select of `mem[i][3:0]`.
- `min:typ:max` in a constant expression is lowered as a conditional.

Elaboration, met while modelling; the designs of `MCElaborate` leave these out:

- Single bits as drivers. elaborate.rs:374 says that nets driven by several assignments, by bits
  and parts too, are resolved. A bit select is always lowered to one with an index
  (elaborate.rs:1414), which `net_drivers` does not count: two `assign y[0] = ...` overwrite
  each other. The same holds of the bits in `assign {c[1], c[0]} = ...`.
- Inout ports of Verilog-95 style. `inout io; wire io;` declares a new net over the one that is
  shared with the parent (elaborate.rs:644-660), which is then cut off.
- Nets of a generate construct are declared after the assignments of their module are
  elaborated, which cannot name them.
- Widths of `?:`. elaborate.rs:1847 lists `?:` among the operators whose width is recorded. The
  walk records nothing for it, so that a merge of two branches has the width of the wider one.
  `$signed(a + b)` is walked with the width of its context, although elaborate.rs:1303 calls it
  self-determined; each operand is extended by its own sign, and not by that of the expression.
- Names. `resolve_net` and `resolve_mem` look in all enclosing scopes, those of the parents of a
  module too, before a parameter or genvar of a nearer scope is looked at. A second block of
  one name replaces the first. A function or task that calls one declared later is an error.
- Functions. The nets of a function belong to the sensitivity of all that call it, so that two
  assignments that call one function wake each other. The arguments of `f(a, f(b, c))` are
  set one after the other in one set of nets (elaborate.rs:1318; DIARY.md:746 says that
  functions are not reentrant).
- Generate loops that count down to 0. A genvar has no sign, so `i >= 0` never fails and the loop
  has `MAX_GENERATE_ITERS` + 1 iterations (`Endless` in `MCElaborate`).
- Ports. A shared port is not shared for an instance in a generate construct; an output
  connected to a concatenation or an indexed part is left open without a message; a port
  declared `output` without a net type is a `Reg`, and never resolved.
- Parameters. A parameter keeps the width of its default when it is overridden; a default that
  uses an earlier parameter is 0, because the parameters are registered afterwards.

Execution, met while modelling; the programs of `MCProcess` leave these out or show them:

- A nonblocking assignment keeps its target and not the value of its index (interp.rs:432): the
  index is evaluated when the assignment takes effect.
- `While` pushes its body and itself, and leaves its exhausted frame below: the stack grows by a
  frame in every round until the loop ends.
- `disable` does nothing in a function, and a loop in a function stops silently after 1,000,000
  rounds (interp.rs:1021).

Output, met while modelling:

- `$monitor(a, b)` without a format string never watches its first argument, and `$fmonitor`
  prints when only `$time` has changed, which `$monitor` does not; `$fmonitor(fd)` alone panics
  (interp.rs:1815).
- interp.rs:731 says that output to closed targets is suppressed silently. A set of channels of
  which one is closed is open for `output_target_is_open` (any channel) and closed for `emit`
  (all of them): a warning is printed and the line is lost. `$fclose` of several channels at once
  closes none.
- The changes of a run that ends in the step of its first `$dumpvars` are stamped 0
  (dump.rs:190; `StampsAreTrue` grants exactly this); nets of more than 64 bits are dumped with
  their low 64 bits (dump.rs:36; `DumpTellsValues` says so).

## 6. What is left

| module | models | properties, runs and bounds | theorems |
|---|---|---|---|
| `WideArith` | add, sub, mul, divmod, neg and the shifts, chunk by chunk | equal to the arithmetic of `Eval`; chunks of 2 bits, widths 1 to 5 | the carry lemma of one chunk |
| `Simulator` | `Scheduler` with a concrete small program and the values of `ContAssign` | what a process reads in the ACTIVE region is settled | - |
| `Readmem`, `Radix` | `exec_readmem`, X/Z digits of `%b %h %o %d` | addresses and direction; what is printed parses back | - |

## 7. Not modelled, and why

- CLI: argument parsing and a sequence of calls. `--max-time` is `MaxTime`.
- Text: formatting, messages. Nothing in the simulation depends on them.
- `$readmem` and the radix conversions: see 6.
- The parser and the preprocessor of the sv-parser crate: external. Its trees are the inputs of
  `Frontend`.
- The 50 million rounds after which `run` gives up: it only ends runs that do not settle,
  and the rounds within one region, which it does not count, are bounded by `ContLimit`.
