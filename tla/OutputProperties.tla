--------------------------- MODULE OutputProperties ---------------------------
(***************************************************************************)
(* What a user of the simulator may rely on in the output of a run.         *)
(***************************************************************************)
EXTENDS Output

Lines(s) == {s[i] : i \in DOMAIN s}

-----------------------------------------------------------------------------
(* Files *)

OpenFiles == Lines(files) \cup Lines(mcd_files)

\* The files a descriptor stands for.
Denoted(d) ==
  IF d.fd THEN {files[k] : k \in {d.num} \cap DOMAIN files}
          ELSE {mcd_files[c] : c \in d.chans \cap DOMAIN mcd_files}

\* Every open file has one descriptor of its own, and goes out of the tables
\* only when that descriptor is closed: open_file never hands out a number that
\* is in use, whatever was opened and closed before, and never the channel of stdout.
FilesKeepTheirDescriptor ==
  [][/\ \A f \in OpenFiles \ OpenFiles' :
          \E v \in FdVars : Denoted(fd_value[v]) = {f} /\ FClose(v)
     /\ \A j, k \in DOMAIN files' : files'[j] = files'[k] => j = k
     /\ 0 \notin DOMAIN mcd_files'
     /\ \A c, e \in DOMAIN mcd_files' : mcd_files'[c] = mcd_files'[e] => c = e
     /\ Lines(files') \cap Lines(mcd_files') = {}]_vars

\* The places where the line with this id and task stands.
Places(o, task, id) ==
  {f \in DOMAIN o.content : \E l \in Lines(o.content[f]) : l.task = task /\ l.id = id}
    \cup (IF \E l \in Lines(o.stdout) : l.task = task /\ l.id = id THEN {0} ELSE {})

\* The places a descriptor stands for when all of it is open.
Target(d) == Denoted(d) \cup (IF d = Fd(1) \/ 0 \in d.chans THEN {0} ELSE {})

WhollyOpen(d) ==
  IF d.fd THEN output_target_is_open(d) ELSE d.chans \ {0} \subseteq DOMAIN mcd_files

Warnings(o) == Cardinality({i \in DOMAIN o.stdout : o.stdout[i].task = "warning"})

\* In the postponed region every $fstrobe is written to all that its descriptor
\* stands for by then, or to nothing when a part of it was closed meanwhile; no
\* other line is lost for that, and no warning is printed for a descriptor of
\* which nothing is open (output_target_is_open).
DeferredLinesAreWhole ==
  [][strobe_queue' = <<>> =>
       /\ \A i \in DOMAIN strobe_queue :
            LET e == strobe_queue[i]
            IN IF e.fd = NoFd
                 THEN Places(out', "strobe", e.id) = {0}
                 ELSE Places(out', "fstrobe", e.id) =
                        (IF WhollyOpen(fd_value[e.fd])
                           THEN Target(fd_value[e.fd]) ELSE {})
       /\ strobe_queue # <<>> =>
            Warnings(out') - Warnings(out) <=
              Cardinality({i \in DOMAIN strobe_queue :
                 /\ strobe_queue[i].fd # NoFd
                 /\ Denoted(fd_value[strobe_queue[i].fd]) # {}
                      \/ 0 \in fd_value[strobe_queue[i].fd].chans})
              + (IF fmonitor_args # <<>> THEN 1 ELSE 0)]_vars

-----------------------------------------------------------------------------
(* $monitor *)

\* The lines of the registration in force since it was made or switched on, by
\* their places in what was printed.
MonitorAt ==
  {i \in DOMAIN out.stdout :
     out.stdout[i].task = "monitor" /\ out.stdout[i].id = monitor_call}

\* Two lines tell the same of every net that is watched.
NetsAt(args) == {p \in Watched(args) : args[p][1] = "net"}
TellSame(vals, wals, args) == \A p \in NetsAt(args) : vals[p] = wals[p]

\* Once a time step has settled the last line of $monitor shows the values its
\* nets have now, so that no change is missed between registrations, $monitoron
\* and $monitoroff; and it is not printed again while these values stay.
MonitorTellsChanges ==
  /\ (phase = "advance" /\ monitor_enabled /\ monitor_args # <<>>) =>
       \E i \in MonitorAt :
         /\ \A j \in MonitorAt : j <= i
         /\ TellSame(out.stdout[i].vals, MonitorVals, monitor_args[1])
  /\ \A i, j \in MonitorAt :
       (i < j /\ \A k \in MonitorAt : k <= i \/ j <= k) =>
         ~TellSame(out.stdout[i].vals, out.stdout[j].vals, monitor_args[1])

-----------------------------------------------------------------------------
(* The waveform *)

\* A reader of the file follows the header to the code of a net.
HeaderVars == {h \in Lines(Header) : h.kind = "var"}
CodesOf(n) == {h.code : h \in {g \in HeaderVars : g.net = n}}

\* The scopes that a reader has open after i tokens, the outermost one first.
OpenScopes[i \in 0 .. Len(Header)] ==
  IF i = 0 THEN <<>>
  ELSE LET open == OpenScopes[i - 1]
       IN IF Header[i].kind = "scope" THEN Append(open, Header[i].scope)
          ELSE IF Header[i].kind = "upscope" THEN SubSeq(open, 1, Len(open) - 1)
          ELSE open

\* The way from the top to a scope.
Path[s \in Scopes] == IF s = 0 THEN <<0>> ELSE Append(Path[Parent[s]], s)

\* Token i of the header declares net n.
Declares(i, n) == Header[i].kind = "var" /\ Header[i].net = n

\* The digits a reader has for a code after all blocks of the file.
Read(code) ==
  LET seen[i \in 0 .. Len(changes)] ==
        IF i = 0 THEN {l.digits : l \in {d \in dumpvars : d.code = code}}
        ELSE LET here == {l.digits : l \in {d \in changes[i].lines : d.code = code}}
             IN IF here # {} THEN here ELSE seen[i - 1]
  IN seen[Len(changes)]

\* What the file and the changes that wait to be written tell of a net.
Known(n) ==
  IF n \in DOMAIN pending THEN {Digits(pending[n], Width[n])}
                          ELSE UNION {Read(c) : c \in CodesOf(n)}

\* Whenever recording is on, a reader of the file who also knew the changes of
\* the current time would have the value of every net (its low 64 bits), and no
\* two values for any of them: no write goes unrecorded, the last write of a
\* time step wins, each net is declared once, in its scope, under a code of its
\* own.  When the run has ended nothing waits any more.
DumpTellsValues ==
  /\ vcd_active =>
       \A n \in Nets : Known(n) = {Digits(LowChunk(nets[n]), Width[n])}
  /\ phase = "done" => pending = <<>>
  /\ \A n \in Nets : \E i \in DOMAIN Header :
       /\ \A j \in DOMAIN Header : Declares(j, n) <=> j = i
       /\ OpenScopes[i] = Path[ScopeOf[n]]

\* Time stamps grow, and the changes of one time step come under the time at
\* which they were made; only the changes of a run that ends in the very step
\* in which recording was switched on are stamped 0.
StampsAreTrue ==
  [][/\ \A i \in 1 .. Len(changes') - 1 : changes'[i].time < changes'[i + 1].time
     /\ Len(changes') > Len(changes) =>
          \/ changes'[Len(changes')].time = now
          \/ phase' = "done" /\ changes = <<>> /\ last_time = 0]_vars
=============================================================================
