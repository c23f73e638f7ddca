------------------------- MODULE ProcessProperties -------------------------
(***************************************************************************)
(* What the statements of processes must come to: what module Source says of   *)
(* the statements they were lowered from.                                   *)
(***************************************************************************)
EXTENDS Process, Source

-----------------------------------------------------------------------------
(* The meaning of a program, in rounds between delays *)

\* Segment k of process p of a program, run alone from st.
Segment(text, st, p, k) ==
  (CHOOSE r \in Does(design, text.env, st, text.bodies[p][k]) : TRUE).st

\* In a round all processes start from the same store st and come to the stores
\* of end; a variable belongs to the process that changes it, and the
\* nonblocking assignments come last.
Merged(st, end) ==
  LET queue[p \in 0..Len(end)] == IF p = 0 THEN <<>> ELSE queue[p - 1] \o end[p].nba
      net(n) == LET by == {p \in DOMAIN end : end[p].nets[n] # st.nets[n]}
                IN  IF by = {} THEN st.nets[n] ELSE end[CHOOSE p \in by : TRUE].nets[n]
      words == [key \in UNION {DOMAIN end[p].mems : p \in DOMAIN end} |->
                  end[CHOOSE p \in DOMAIN end : key \in DOMAIN end[p].mems].mems[key]]
  IN  NbaDone(design, [nets |-> [n \in DOMAIN st.nets |-> net(n)],
                       mems |-> words, nba |-> queue[Len(end)]])

\* From st, at the start of round k, the program comes to the store that is
\* there: to the nets that are declared outside of functions and tasks, and to
\* the memories.
RECURSIVE ComesFrom(_, _, _)
ComesFrom(text, st, k) ==
  IF k > Len(text.bodies[1])
  THEN /\ \A id \in 1..Len(text.ctx.nets) :
            text.ctx.nets[id].scope = 1 => store.nets[id] = st.nets[id]
       /\ store.mems = st.mems
  ELSE \A end \in {Listed([p \in Processes |-> Segment(text, st, p, k)])} :
         ComesFrom(text, Merged(st, end), k + 1)

MeansSource == \A text \in {Programs[program]} : ComesFrom(text, start, 1)

\* A process that has ended has left the values that its statements have in the
\* source, wherever it waited, whatever blocks it left by disable (interp.rs
\* 352-509) and into whatever loops its statements were lowered
\* (elaborate.rs 1507-1611).
ExecutionMatchesSource ==
  AllEnded /\ Len(procs) = 1 => MeansSource

\* Processes that assign to each other's sources without blocking all see the
\* values from before, in whatever order they run (interp.rs 239-246, 429-433).
NonblockingIsSimultaneous ==
  AllEnded /\ Len(procs) > 1 => MeansSource

\* Statements that the body of a function may have.
RECURSIVE TakesNoTime(_)
TakesNoTime(s) ==
  CASE s[1] = "Block" -> \A k \in 1..Len(s[2]) : TakesNoTime(s[2][k])
    [] s[1] = "NamedBlock" -> \A k \in 1..Len(s[3]) : TakesNoTime(s[3][k])
    [] s[1] = "If" -> TakesNoTime(s[3]) /\ \A k \in 1..Len(s[4]) : TakesNoTime(s[4][k])
    [] s[1] = "Case" ->
         /\ \A k \in 1..Len(s[4]) : TakesNoTime(s[4][k][2])
         /\ \A k \in 1..Len(s[5]) : TakesNoTime(s[5][k])
    [] s[1] = "While" -> TakesNoTime(s[3])
    [] OTHER -> s[1] \in {"BlockingAssign", "SysCall"}

\* The two interpreters of statements agree: a process and a function body with
\* the same statements leave the same store (interp.rs 352-509, 959-1042).
SyncMatchesStep ==
  LET body == code[1]
  IN  AllEnded /\ Len(procs) = 1 /\ TakesNoTime(body)
        => store = exec_sync_stmt(design, start, body)
=============================================================================
