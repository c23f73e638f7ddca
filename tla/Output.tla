-------------------------------- MODULE Output --------------------------------
(***************************************************************************)
(* What a run leaves behind: the output of the system tasks (exec_syscall,  *)
(* emit, open_file, close_file, flush_monitor, flush_strobe in              *)
(* crates/sim/src/interp.rs) together with the waveform file of module Vcd, *)
(* over the time steps of Interpreter::run.                                 *)
(*                                                                         *)
(* The active, inactive and NBA regions of a step are one phase here, in    *)
(* which nets change and system tasks are called in any order; Scheduler    *)
(* models how those regions alternate.  A line of output is the task that   *)
(* ordered it and the values it shows, its wording is left out.  An opened  *)
(* file is a number of its own, so that a descriptor that is given again is *)
(* told from the file that had it before.                                   *)
(***************************************************************************)
EXTENDS Vcd, FiniteSets

CONSTANTS
  InitialNets, \* net -> planes at time 0
  Programs,    \* the programs to run: records [tasks, drives, vcd, calls] of
               \* the system tasks, the writes [net, val], whether the command
               \* line names a waveform file, and the bound on calls
  ArgLists,    \* the argument lists of its $monitor and $strobe calls
  FdVars,      \* its registers that hold descriptors
  NoFd,
  LastChannel, \* the last bit of an MCD that $fopen hands out, 30
  UnsetFd,     \* the low bits of a register nothing was assigned to
  MaxTime      \* --max-time

Exprs == {<<"fmt", 0>>, <<"time", 0>>} \cup ({"net"} \X Nets)

ASSUME OutputAssumption ==
  /\ InitialNets \in [Nets -> UNION {Planes(n) : n \in Nets}]
  /\ \A p \in Programs :
       /\ p.drives \subseteq [net : Nets, val : UNION {Planes(n) : n \in Nets}]
       /\ p.vcd \in BOOLEAN /\ p.calls \in Nat
  /\ ArgLists \subseteq Seq(Exprs) \ {<<>>}
  /\ NoFd \notin FdVars
  /\ {LastChannel, UnsetFd, MaxTime} \subseteq Nat

VARIABLES
  phase,            \* "start", "run", "advance" or "done"
  now, nets, finished,
  program,          \* the program that runs, one of Programs
  calls,            \* the number of system tasks called; names their lines
  fd_value,         \* the descriptors the program holds
  files,            \* fd -> opened file
  mcd_files,        \* channel -> opened file
  opened,           \* the number of files opened
  out,              \* [stdout, stderr, content]: lines printed, per file too
  monitor_args,     \* <<>>, or <<args>>
  monitor_enabled,
  monitor_last,     \* <<>>, or <<values>>
  monitor_call,     \* the call that last reset monitor_last
  fmonitor_args,    \* <<>>, or <<[fd, args, id]>>
  fmonitor_last,
  strobe_queue      \* records [fd, args, id]

fileVars == <<fd_value, files, mcd_files, opened>>
monitorVars == <<monitor_args, monitor_enabled, monitor_last, monitor_call,
                 fmonitor_args, fmonitor_last>>
runVars == <<phase, now, nets, finished>>
vars == <<runVars, program, calls, fileVars, out, monitorVars, strobe_queue, vcdVars>>

Channels == 0 .. LastChannel

\* A u32 descriptor: bit 31 tells an fd, with its low bits as a number, from a
\* set of channels.
Descriptors == [fd : BOOLEAN, num : Nat, chans : SUBSET Channels]
Fd(k) == [fd |-> TRUE, num |-> k, chans |-> {}]
Mcd(cs) == [fd |-> FALSE, num |-> 0, chans |-> cs]

-----------------------------------------------------------------------------
(* Expressions and lines *)

Eval(e) ==
  IF e[1] = "net" THEN nets[e[2]]
  ELSE [a |-> IF e[1] = "time" THEN now ELSE 0, b |-> 0]

\* The values that the arguments at these places have now.
Values(args, places) == [i \in places |-> Eval(args[i])]

\* format_args: a line shows every argument but the formats.
Shown(args) == Values(args, {i \in DOMAIN args : args[i][1] # "fmt"})

LineOf(task, id, args) == [task |-> task, id |-> id, vals |-> Shown(args)]
Notice(task) == [task |-> task, id |-> 0, vals |-> <<>>]

-----------------------------------------------------------------------------
(* Descriptors *)

ToStdout(o, line) == [o EXCEPT !.stdout = Append(@, line)]

\* Deviant: the channels that are open get the line.
DeviantEmit(o, d, line) ==
  IF d.fd
    THEN IF d.num = 1 THEN ToStdout(o, line)
         ELSE IF d.num \in DOMAIN files
           THEN [o EXCEPT !.content[files[d.num]] = Append(@, line)]
           ELSE o
    ELSE LET open == {mcd_files[c] : c \in d.chans \cap DOMAIN mcd_files}
             p == IF 0 \in d.chans THEN ToStdout(o, line) ELSE o
         IN [p EXCEPT !.content = [f \in DOMAIN @ |->
               IF f \in open THEN Append(@[f], line) ELSE @[f]]]

\* An fd is stdin, stdout, stderr or a file; a set of channels is written only
\* when all of them are open.  Everything else earns a warning on stdout.
Emit(o, d, line) ==
  IF d.fd
    THEN IF d.num = 0 THEN o
         ELSE IF d.num = 1 THEN ToStdout(o, line)
         ELSE IF d.num = 2 THEN [o EXCEPT !.stderr = Append(@, line)]
         ELSE IF d.num \in DOMAIN files
           THEN [o EXCEPT !.content[files[d.num]] = Append(@, line)]
           ELSE ToStdout(o, Notice("warning"))
    ELSE IF d.chans = {} THEN o
         ELSE IF d.chans \ {0} \subseteq DOMAIN mcd_files
           THEN LET open == {mcd_files[c] : c \in d.chans \ {0}}
                    p == IF 0 \in d.chans THEN ToStdout(o, line) ELSE o
                IN [p EXCEPT !.content = [f \in DOMAIN @ |->
                      IF f \in open THEN Append(@[f], line) ELSE @[f]]]
           ELSE ToStdout(o, Notice("warning"))

output_target_is_open(d) ==
  IF d.fd THEN d.num \in 0 .. 2 \/ d.num \in DOMAIN files
          ELSE 0 \in d.chans \/ d.chans \cap DOMAIN mcd_files # {}

\* Deviant: the number of open files tells the next descriptor.
DeviantFreeFd == 3 + Cardinality(DOMAIN files)

\* The first number from 3 on that no open file has.
FreeFd ==
  CHOOSE k \in 3 .. 3 + opened :
    /\ k \notin DOMAIN files
    /\ \A j \in 3 .. k - 1 : j \in DOMAIN files

FreeChannels == (1 .. LastChannel) \ DOMAIN mcd_files

With(f, k, v) == [x \in DOMAIN f \cup {k} |-> IF x = k THEN v ELSE f[x]]
Without(f, k) == [x \in DOMAIN f \ {k} |-> f[x]]

-----------------------------------------------------------------------------
(* System tasks *)

\* A task called while a process runs; the id of what it orders is its number.
Called(task) ==
  /\ phase = "run" /\ ~finished
  /\ task \in program.tasks /\ calls < program.calls
  /\ calls' = calls + 1
  /\ UNCHANGED <<phase, now, nets, program>>

\* $display, $write and their b, h, o forms.
Display(args) ==
  /\ Called("$display")
  /\ out' = ToStdout(out, LineOf("display", calls', args))
  /\ UNCHANGED <<finished, fileVars, monitorVars, strobe_queue, vcdVars>>

\* print_file: $fdisplay, $fwrite and their b, h, o forms.
FDisplay(v, args) ==
  /\ Called("$fdisplay")
  /\ out' = Emit(out, fd_value[v], LineOf("fdisplay", calls', args))
  /\ UNCHANGED <<finished, fileVars, monitorVars, strobe_queue, vcdVars>>

\* v = $fopen(path): an MCD with one channel.
OpenMcd(v) ==
  /\ Called("$fopen")
  /\ IF FreeChannels = {}
       THEN /\ fd_value' = [fd_value EXCEPT ![v] = Mcd({})]
            /\ UNCHANGED <<mcd_files, opened, out>>
       ELSE LET bit == CHOOSE c \in FreeChannels :
                         \A e \in FreeChannels : c <= e
            IN /\ opened' = opened + 1
               /\ mcd_files' = With(mcd_files, bit, opened')
               /\ fd_value' = [fd_value EXCEPT ![v] = Mcd({bit})]
               /\ out' = [out EXCEPT !.content = Append(@, <<>>)]
  /\ UNCHANGED <<finished, files, monitorVars, strobe_queue, vcdVars>>

\* v = $fopen(path, mode): an fd.
OpenFd(v) ==
  /\ Called("$fopen with a mode")
  /\ opened' = opened + 1
  /\ files' = With(files, FreeFd, opened')
  /\ fd_value' = [fd_value EXCEPT ![v] = Fd(FreeFd)]
  /\ out' = [out EXCEPT !.content = Append(@, <<>>)]
  /\ UNCHANGED <<finished, mcd_files, monitorVars, strobe_queue, vcdVars>>

\* $fopen that fails: 0; a mode that reads is warned about.
OpenFails(v) ==
  /\ Called("$fopen")
  /\ fd_value' = [fd_value EXCEPT ![v] = Mcd({})]
  /\ out' \in {out, ToStdout(out, Notice("warning"))}
  /\ UNCHANGED <<finished, files, mcd_files, opened, monitorVars,
                 strobe_queue, vcdVars>>

\* $fclose: an fd, or an MCD that is one channel.
FClose(v) ==
  LET d == fd_value[v]
  IN /\ Called("$fclose")
     /\ files' = IF d.fd THEN Without(files, d.num) ELSE files
     /\ mcd_files' = IF ~d.fd /\ \E c \in d.chans : d.chans = {c}
                       THEN [c \in DOMAIN mcd_files \ d.chans |-> mcd_files[c]]
                       ELSE mcd_files
     /\ UNCHANGED <<finished, fd_value, opened, out, monitorVars, strobe_queue,
                    vcdVars>>

\* Deviant: the snapshot of the registration before is kept.
DeviantMonitor(args) ==
  /\ Called("$monitor")
  /\ monitor_args' = <<args>>
  /\ monitor_call' = calls'
  /\ UNCHANGED <<monitor_last, monitor_enabled, fmonitor_args, fmonitor_last,
                 finished, fileVars, out, strobe_queue, vcdVars>>

Monitor(args) ==
  /\ Called("$monitor")
  /\ monitor_args' = <<args>>
  /\ monitor_last' = <<>>
  /\ monitor_call' = calls'
  /\ UNCHANGED <<monitor_enabled, fmonitor_args, fmonitor_last, finished,
                 fileVars, out, strobe_queue, vcdVars>>

MonitorOn ==
  /\ Called("$monitoron")
  /\ monitor_enabled' = TRUE
  /\ monitor_last' = <<>>
  /\ monitor_call' = calls'
  /\ UNCHANGED <<monitor_args, fmonitor_args, fmonitor_last, finished, fileVars,
                 out, strobe_queue, vcdVars>>

MonitorOff ==
  /\ Called("$monitoroff")
  /\ monitor_enabled' = FALSE
  /\ UNCHANGED <<monitor_args, monitor_last, monitor_call, fmonitor_args,
                 fmonitor_last, finished, fileVars, out, strobe_queue, vcdVars>>

FMonitor(v, args) ==
  /\ Called("$fmonitor")
  /\ fmonitor_args' = <<[fd |-> v, args |-> args, id |-> calls']>>
  /\ fmonitor_last' = <<>>
  /\ UNCHANGED <<monitor_args, monitor_enabled, monitor_last, monitor_call,
                 finished, fileVars, out, strobe_queue, vcdVars>>

\* $strobe with NoFd, $fstrobe with a register.
Strobe(v, args) ==
  /\ Called(IF v = NoFd THEN "$strobe" ELSE "$fstrobe")
  /\ strobe_queue' = Append(strobe_queue, [fd |-> v, args |-> args, id |-> calls'])
  /\ UNCHANGED <<finished, fileVars, out, monitorVars, vcdVars>>

\* $dumpvars; the file may turn out not to be writable.
DumpVars(created) ==
  /\ Called("$dumpvars")
  /\ IF vcd_active
       THEN UNCHANGED <<out, vcdVars>>
       ELSE /\ init_vcd(nets, created)
            /\ out' = IF created THEN ToStdout(out, Notice("vcd")) ELSE out
  /\ UNCHANGED <<finished, fileVars, monitorVars, strobe_queue>>

\* $finish and $stop.
Finish ==
  /\ Called("$finish")
  /\ finished' = TRUE
  /\ out' = ToStdout(out, Notice("finish"))
  /\ UNCHANGED <<fileVars, monitorVars, strobe_queue, vcdVars>>

-----------------------------------------------------------------------------
(* The postponed region *)

\* $monitor and $fmonitor watch their arguments after the first one, $monitor
\* without the time.
FWatched(args) == 2 .. Len(args)
Watched(args) == {i \in FWatched(args) : args[i][1] # "time"}

MonitorVals == Values(monitor_args[1], Watched(monitor_args[1]))
FMonitorVals == Values(fmonitor_args[1].args, FWatched(fmonitor_args[1].args))

MonitorDue == monitor_args # <<>> /\ monitor_last # <<MonitorVals>>
FMonitorDue == fmonitor_args # <<>> /\ fmonitor_last # <<FMonitorVals>>

MonitorOut(o) ==
  IF MonitorDue
    THEN ToStdout(o, LineOf("monitor", monitor_call, monitor_args[1]))
    ELSE o

\* A line for a descriptor, when some of it is open.
Deferred(o, task, entry) ==
  IF output_target_is_open(fd_value[entry.fd])
    THEN Emit(o, fd_value[entry.fd], LineOf(task, entry.id, entry.args))
    ELSE o

FMonitorOut(o) ==
  IF FMonitorDue THEN Deferred(o, "fmonitor", fmonitor_args[1]) ELSE o

\* What flush_monitor prints, and the snapshots it leaves.
flush_monitor(o) == IF monitor_enabled THEN FMonitorOut(MonitorOut(o)) ELSE o

Snapshots ==
  /\ monitor_last' = IF monitor_enabled /\ MonitorDue
                       THEN <<MonitorVals>> ELSE monitor_last
  /\ fmonitor_last' = IF monitor_enabled /\ FMonitorDue
                        THEN <<FMonitorVals>> ELSE fmonitor_last

\* The queue is printed in its order.
flush_strobe(o) ==
  LET upTo[i \in 0 .. Len(strobe_queue)] ==
        IF i = 0 THEN o
        ELSE LET entry == strobe_queue[i]
             IN IF entry.fd = NoFd
                  THEN ToStdout(upTo[i - 1], LineOf("strobe", entry.id, entry.args))
                  ELSE Deferred(upTo[i - 1], "fstrobe", entry)
  IN upTo[Len(strobe_queue)]

\* Everything of this time has settled: flush_monitor, then flush_strobe.
Postponed ==
  /\ phase = "run" /\ ~finished
  /\ out' = flush_strobe(flush_monitor(out))
  /\ Snapshots
  /\ strobe_queue' = <<>>
  /\ phase' = "advance"
  /\ UNCHANGED <<now, nets, finished, program, calls, fileVars, monitor_args,
                 monitor_enabled, monitor_call, fmonitor_args, vcdVars>>

\* A process has finished the run: the strobes are printed, the monitors not.
StopAfterFinish ==
  /\ phase = "run" /\ finished
  /\ out' = flush_strobe(out)
  /\ strobe_queue' = <<>>
  /\ phase' = "done"
  /\ finish
  /\ UNCHANGED <<now, nets, finished, program, calls, fileVars, monitorVars>>

-----------------------------------------------------------------------------
(* The time steps *)

\* The next event of the future queue is due at time t.
Advance(t) ==
  /\ phase = "advance"
  /\ now < t /\ t <= MaxTime
  /\ advance_time(now, t)
  /\ now' = t
  /\ phase' = "run"
  /\ UNCHANGED <<nets, finished, program, calls, fileVars, out, monitorVars, strobe_queue>>

\* No event is left, or the next one lies beyond --max-time.
End ==
  /\ phase = "advance"
  /\ finish
  /\ phase' = "done"
  /\ UNCHANGED <<now, nets, finished, program, calls, fileVars, out, monitorVars, strobe_queue>>

\* run() opens the file that set_vcd_output named.
Begin(created) ==
  /\ phase = "start"
  /\ phase' = "run"
  /\ IF program.vcd
       THEN /\ init_vcd(nets, created)
            /\ out' = IF created THEN ToStdout(out, Notice("vcd")) ELSE out
       ELSE UNCHANGED <<out, vcdVars>>
  /\ UNCHANGED <<now, nets, finished, program, calls, fileVars, monitorVars, strobe_queue>>

\* write_lvalue, write_bits, commit_net_value: a net gets a value.
Write(n, v) ==
  /\ phase = "run" /\ ~finished
  /\ nets' = [nets EXCEPT ![n] = v]
  /\ record_change(n, v)
  /\ UNCHANGED <<phase, now, finished, program, calls, fileVars, out, monitorVars, strobe_queue>>

\* The program copies a descriptor, or joins the channels of two.
AssignFd(v, w) ==
  /\ phase = "run" /\ ~finished /\ "|" \in program.tasks
  /\ ~fd_value[v].fd /\ ~fd_value[w].fd
  /\ fd_value' = [fd_value EXCEPT ![v] =
                    Mcd(fd_value[v].chans \cup fd_value[w].chans)]
  /\ UNCHANGED <<runVars, program, calls, files, mcd_files, opened, out, monitorVars,
                 strobe_queue, vcdVars>>

Init ==
  /\ phase = "start" /\ now = 0 /\ nets = InitialNets /\ finished = FALSE
  /\ program \in Programs /\ calls = 0
  /\ fd_value = [v \in FdVars |-> Fd(UnsetFd)]
  /\ files = <<>> /\ mcd_files = <<>> /\ opened = 0
  /\ out = [stdout |-> <<>>, stderr |-> <<>>, content |-> <<>>]
  /\ monitor_args = <<>> /\ monitor_enabled = TRUE /\ monitor_last = <<>>
  /\ monitor_call = 0
  /\ fmonitor_args = <<>> /\ fmonitor_last = <<>>
  /\ strobe_queue = <<>>
  /\ VcdInit

Next ==
  \/ \E created \in BOOLEAN : Begin(created)
  \/ \E d \in program.drives : Write(d.net, d.val)
  \/ \E v, w \in FdVars : AssignFd(v, w)
  \/ \E args \in ArgLists : Display(args) \/ Monitor(args)
  \/ \E v \in FdVars, args \in ArgLists : FDisplay(v, args) \/ FMonitor(v, args)
  \/ \E v \in FdVars \cup {NoFd}, args \in ArgLists : Strobe(v, args)
  \/ \E v \in FdVars : OpenMcd(v) \/ OpenFd(v) \/ OpenFails(v) \/ FClose(v)
  \/ MonitorOn \/ MonitorOff
  \/ \E created \in BOOLEAN : DumpVars(created)
  \/ Finish \/ Postponed \/ StopAfterFinish
  \/ \E t \in 1 .. MaxTime : Advance(t)
  \/ End

Spec == Init /\ [][Next]_vars
=============================================================================
