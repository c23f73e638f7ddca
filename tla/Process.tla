------------------------------ MODULE Process ------------------------------
(***************************************************************************)
(* step of crates/sim/src/interp.rs: how a process executes its statements,   *)
(* with a stack of frames instead of a recursion, so that it can stop at a     *)
(* delay or an event and go on there later.                                 *)
(*                                                                         *)
(* A frame holds the statements of a block that are left (stmts[idx..] of the  *)
(* code) and the id of the block, if it has one.  A process that has been taken  *)
(* from the active list runs until it waits or ends.  Which of the active ones   *)
(* is next, fork and join, and what an event wakes are in the modules           *)
(* Scheduler and Sensitivity: here any of them is next, and an event comes at    *)
(* some later time.  Of run() there is what statements can tell: #0 goes on      *)
(* before the nonblocking assignments are made, other delays after them.        *)
(*                                                                         *)
(* A program is [ctx, routines, env, bodies, inputs]: the declarations, the        *)
(* functions and tasks, what the names mean in the source, the statements of     *)
(* each process in segments with #1 between them, and the values that the        *)
(* declared nets may start with.                                                             *)
(***************************************************************************)
EXTENDS LowerStmt

CONSTANT Programs  \* the programs that are run, by name

VARIABLES
  program,  \* the one that runs
  design,   \* the context after its elaboration
  code,     \* the statements of its processes
  start,    \* the store that it started with
  store,    \* the values of nets and memories, and nba_queue
  procs,    \* of each process the frames and when it goes on
  running   \* the process that executes, 0 for none

vars == <<program, design, code, start, store, procs, running>>

NoBlock == <<>>
Frame(stmts, block) == [stmts |-> stmts, block |-> block]

\* The statement of a process: each segment but the first one follows #1.
RECURSIVE Timed(_)
Timed(segments) ==
  IF Len(segments) = 1 THEN segments[1]
  ELSE <<"Block", <<segments[1], <<"Delay", 1, Timed(Tail(segments))>>>>>>

\* The routines are declared one after the other, with their bodies lowered.
RECURSIVE Routines(_, _)
WithRoutine(r, c, body) ==
  IF r.kind = "func"
  THEN [c EXCEPT !.scope_funcs =
          With(@, 1, r.name, [args |-> r.args, body |-> body, ret |-> r.ret])]
  ELSE [c EXCEPT !.scope_tasks =
          With(@, 1, r.name, [params |-> r.params, body |-> body])]
AfterRoutine(r, lowered) == WithRoutine(r, lowered[1], lowered[2])
Routines(c, rs) ==
  IF rs = <<>> THEN c
  ELSE Routines(AfterRoutine(Head(rs), lower_stmt(c, Head(rs).scope, Head(rs).body)),
                Tail(rs))

\* The program p after its elaboration: <<context, statements>>.
Elaborated(p) ==
  LowerAll(Routines(p.ctx, p.routines), 1,
           Listed([k \in 1..Len(p.bodies) |-> Timed(p.bodies[k])]))

Processes == DOMAIN procs

-----------------------------------------------------------------------------
(* Frames *)

\* Frames whose statements are done are popped when a statement is taken.
RECURSIVE Unfinished(_)
Unfinished(frames) ==
  IF frames = <<>> \/ frames[Len(frames)].stmts # <<>> THEN frames
  ELSE Unfinished(SubSeq(frames, 1, Len(frames) - 1))

frames == Unfinished(procs[running].frames)
stmt == Head(frames[Len(frames)].stmts)
rest == [frames EXCEPT ![Len(frames)].stmts = Tail(@)]

Push(fs, stmts, block) ==
  IF stmts = <<>> THEN fs ELSE Append(fs, Frame(stmts, block))

\* Deviant: only the frames above the block are unwound, it goes on behind.
DeviantUnwound(fs, block) ==
  LET at == {k \in 1..Len(fs) : fs[k].block = <<block>>}
  IN  IF at = {} THEN fs
      ELSE SubSeq(fs, 1, CHOOSE k \in at : \A j \in at : j <= k)

\* disable: the innermost frame of the block goes, and all above it.
Unwound(fs, block) ==
  LET at == {k \in 1..Len(fs) : fs[k].block = <<block>>}
  IN  IF at = {} THEN fs
      ELSE SubSeq(fs, 1, (CHOOSE k \in at : \A j \in at : j <= k) - 1)

-----------------------------------------------------------------------------
(* Statements *)

Takes(kind) == running # 0 /\ frames # <<>> /\ stmt[1] = kind

\* The process goes on with other frames.
Continue(fs, st) ==
  /\ procs' = [procs EXCEPT ![running].frames = fs]
  /\ store' = st
  /\ UNCHANGED <<program, design, code, start, running>>

\* The process waits with its body on the stack.
Suspend(when, body) ==
  /\ procs' = [procs EXCEPT ![running] =
                 [frames |-> Push(rest, <<body>>, NoBlock), when |-> when]]
  /\ running' = 0
  /\ UNCHANGED <<program, design, code, start, store>>

Block == Takes("Block") /\ Continue(Push(rest, stmt[2], NoBlock), store)

NamedBlock ==
  Takes("NamedBlock") /\ Continue(Push(rest, stmt[3], <<stmt[2]>>), store)

If ==
  /\ Takes("If")
  /\ \E c \in {eval_expr(design, store, stmt[2])} :
         Continue(Push(rest, IF is_true(c[1]) THEN <<stmt[3]>> ELSE stmt[4], NoBlock),
                  c[2])

Case ==
  /\ Takes("Case")
  /\ \E sel \in {eval_expr(design, store, stmt[3])} :
     \E arm \in {Chosen(design, sel[2], stmt[2], sel[1], stmt[4], stmt[5])} :
         Continue(Push(rest, arm[1], NoBlock), arm[2])

BlockingAssign ==
  Takes("BlockingAssign") /\ Continue(rest, Assigned(design, store, stmt))

\* Deviant: the assignment is made at once.
DeviantQueued(st, s) == Assigned(design, st, s)

\* The value is kept with the target; what the target selects is not.
Queued(st, s) ==
  LET r == eval_expr(design, st, s[3])
  IN  [r[2] EXCEPT !.nba = Append(@, [lv |-> s[2], v |-> r[1], signed |-> IsSigned(s[3])])]

NbaAssign == Takes("NbaAssign") /\ Continue(rest, Queued(store, stmt))

Delay ==
  /\ Takes("Delay")
  /\ Suspend(IF stmt[2] = 0 THEN "inactive" ELSE "later", stmt[3])

EventCtl == Takes("EventCtl") /\ Suspend("later", stmt[3])

SysCall == Takes("SysCall") /\ Continue(rest, EvalArgs(design, store, stmt[2]))

\* The body, and then the loop again.
While ==
  /\ Takes("While")
  /\ \E c \in {eval_expr(design, store, stmt[2])} :
         Continue(Push(rest, IF is_true(c[1]) THEN <<stmt[3], stmt>> ELSE <<>>, NoBlock),
                  c[2])

Disable == Takes("Disable") /\ Continue(Unwound(rest, stmt[2]), store)

Done ==
  /\ running # 0 /\ frames = <<>>
  /\ procs' = [procs EXCEPT ![running] = [frames |-> <<>>, when |-> "ended"]]
  /\ running' = 0
  /\ UNCHANGED <<program, design, code, start, store>>

-----------------------------------------------------------------------------
(* run *)

That(when) == {p \in Processes : procs[p].when = when}

Run ==
  /\ running = 0
  /\ running' \in That("active")
  /\ UNCHANGED <<program, design, code, start, store, procs>>

Idle == running = 0 /\ That("active") = {}

Wake(P) ==
  /\ procs' = [p \in Processes |->
                 IF p \in P THEN [procs[p] EXCEPT !.when = "active"] ELSE procs[p]]
  /\ UNCHANGED <<program, design, code, start, store, running>>

ResumeInactive == Idle /\ That("inactive") # {} /\ Wake(That("inactive"))

\* The nonblocking assignments in the order in which they were queued.
ApplyNba ==
  LET n == Len(store.nba)
      put[k \in 0..n] ==
        IF k = 0 THEN store
        ELSE Write(design, put[k - 1], store.nba[k].lv, store.nba[k].v,
                   store.nba[k].signed)
  IN  /\ Idle /\ That("inactive") = {} /\ n > 0
      /\ store' = [put[n] EXCEPT !.nba = <<>>]
      /\ UNCHANGED <<program, design, code, start, procs, running>>

Advance ==
  /\ Idle /\ That("inactive") = {} /\ store.nba = <<>>
  /\ That("later") # {}
  /\ Wake(That("later"))

AllEnded == That("ended") = Processes /\ store.nba = <<>>

\* The simulation is over.
Over == AllEnded /\ UNCHANGED vars

-----------------------------------------------------------------------------

\* What the lowering adds starts as X.
StoreOf(c, values) ==
  [nets |-> [n \in 1..Len(c.nets) |->
               IF n <= Len(values) THEN values[n] ELSE x_of_width(c.nets[n].width)],
   mems |-> [k \in {} |-> ZERO], nba |-> <<>>]

Init ==
  /\ program \in DOMAIN Programs
  /\ \E p \in {Programs[program]} :
       /\ \E elaborated \in {Elaborated(p)} :
            design = elaborated[1] /\ code = elaborated[2]
       /\ \E values \in p.inputs : start = StoreOf(design, values)
  /\ store = start
  /\ procs = Listed([p \in DOMAIN code |->
                       [frames |-> <<Frame(<<code[p]>>, NoBlock)>>, when |-> "active"]])
  /\ running = 0

Next ==
  \/ Block \/ NamedBlock \/ If \/ Case \/ BlockingAssign \/ NbaAssign \/ Delay
  \/ EventCtl \/ SysCall \/ While \/ Disable \/ Done
  \/ Run \/ ResumeInactive \/ ApplyNba \/ Advance \/ Over

Spec == Init /\ [][Next]_vars
=============================================================================
