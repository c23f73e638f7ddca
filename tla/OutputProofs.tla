---------------------------- MODULE OutputProofs ----------------------------
(***************************************************************************)
(* Output and Vcd for every program: an open file keeps its descriptor, the*)
(* lines of the postponed region are printed whole or not at all, a monitor*)
(* tells the changes of its nets, and the waveform tells the value of every*)
(* net, under stamps that grow.                                            *)
(*                                                                         *)
(* The invariants are FilesInv (the tables of open files), StampsInv (the  *)
(* blocks written so far and the time), QueueInv (the strobe queue and the *)
(* lines already printed), MonitorInv (the snapshot and the last line) and *)
(* DumpInv (what the file and the pending changes tell of each net).       *)
(***************************************************************************)
EXTENDS OutputProperties, DataInduction, SequenceTheorems

-----------------------------------------------------------------------------
(* The tables of open files *)

\* A table maps its keys to files 1 .. n, no file twice.
Table(t, keys, n) ==
  /\ DOMAIN t \subseteq keys
  /\ t \in [DOMAIN t -> 1 .. n]
  /\ \A j, k \in DOMAIN t : t[j] = t[k] => j = k

FilesInv ==
  /\ opened \in Nat
  /\ Table(files, 3 .. 2 + opened, opened)
  /\ Table(mcd_files, 1 .. LastChannel, opened)
  /\ Lines(files) \cap Lines(mcd_files) = {}
  /\ fd_value \in [FdVars -> Descriptors]
  /\ \A v \in FdVars : fd_value[v].fd => fd_value[v].chans = {}

\* open_file finds a number for the next fd, and it is free.
LEMMA FreeFdFree ==
  ASSUME FilesInv
  PROVE  FreeFd \in 3 .. 3 + opened /\ FreeFd \notin DOMAIN files
<1> DEFINE T == {k \in Nat : k >= 3 /\ k \notin DOMAIN files}
<1>1. opened \in Nat /\ DOMAIN files \subseteq 3 .. 2 + opened
  BY DEF FilesInv, Table
<1>2. 3 + opened \in T
  BY <1>1
<1>3. PICK m \in T : \A k \in T : m <= k
  <2>1. T # {} /\ T \in SUBSET Nat
    BY <1>2
  <2> HIDE DEF T
  <2> QED
    BY <2>1, LeastNatural
<1>4. m \in 3 .. 3 + opened /\ m \notin DOMAIN files
  BY <1>1, <1>2, <1>3
<1>5. \A j \in 3 .. m - 1 : j \in DOMAIN files
  BY <1>3, <1>4, <1>1
<1> QED
  BY <1>4, <1>5 DEF FreeFd

\* The same for a free channel of $fopen without a mode.
LEMMA FreeChannelFree ==
  ASSUME FilesInv, FreeChannels # {}
  PROVE  (CHOOSE c \in FreeChannels : \A e \in FreeChannels : c <= e) \in FreeChannels
<1>1. FreeChannels \subseteq Nat
  BY OutputAssumption DEF FreeChannels
<1>2. \E c \in FreeChannels : \A e \in FreeChannels : c <= e
  BY <1>1, LeastNatural
<1> QED
  BY <1>2

\* A table with one more key that was free, for a file just opened.
LEMMA WithTable ==
  ASSUME NEW keys, NEW more, NEW n \in Nat, NEW t, Table(t, keys, n),
         NEW k \in more, k \notin DOMAIN t, keys \subseteq more
  PROVE  Table(With(t, k, n + 1), more, n + 1)
<1> DEFINE w == With(t, k, n + 1)
<1>1. DOMAIN w = DOMAIN t \cup {k}
  BY DEF With
<1>2. w[k] = n + 1 /\ \A j \in DOMAIN t : w[j] = t[j]
  BY DEF With
<1>3. \A j \in DOMAIN t : t[j] \in 1 .. n
  BY DEF Table
<1>4. n + 1 \in 1 .. n + 1 /\ 1 .. n \subseteq 1 .. n + 1 /\ n + 1 \notin 1 .. n
  OBVIOUS
<1>5. DOMAIN t \subseteq keys /\ \A i, j \in DOMAIN t : t[i] = t[j] => i = j
  BY DEF Table
<1>6. w \in [DOMAIN w -> 1 .. n + 1]
  BY <1>1, <1>2, <1>3, <1>4 DEF With
<1>7. \A i, j \in DOMAIN w : w[i] = w[j] => i = j
  <2> HIDE DEF w
  <2> QED
    BY <1>1, <1>2, <1>3, <1>4, <1>5
<1>8. DOMAIN w \subseteq more
  BY <1>1, <1>5
<1>9. Table(w, more, n + 1)
  <2> HIDE DEF w
  <2> QED
    BY <1>6, <1>7, <1>8 DEF Table
<1> QED
  BY <1>9

LEMMA WithLines ==
  ASSUME NEW t, NEW k, k \notin DOMAIN t, NEW f
  PROVE  Lines(With(t, k, f)) = Lines(t) \cup {f}
<1> DEFINE w == With(t, k, f)
<1>1. DOMAIN w = DOMAIN t \cup {k} /\ w[k] = f /\ \A j \in DOMAIN t : w[j] = t[j]
  BY DEF With
<1>2. Lines(w) = Lines(t) \cup {f}
  <2> HIDE DEF w
  <2> QED
    BY <1>1 DEF Lines
<1> QED
  BY <1>2

\* A table stays one when a file is entered in the other.
LEMMA LaterTable ==
  ASSUME NEW keys, NEW more, NEW n \in Nat, NEW t, Table(t, keys, n),
         keys \subseteq more
  PROVE  Table(t, more, n + 1)
<1>1. 1 .. n \subseteq 1 .. n + 1
  OBVIOUS
<1>2. DOMAIN t \subseteq keys /\ t \in [DOMAIN t -> 1 .. n]
      /\ \A j, k \in DOMAIN t : t[j] = t[k] => j = k
  BY DEF Table
<1>3. t \in [DOMAIN t -> 1 .. n + 1]
  BY <1>1, <1>2
<1> QED
  BY <1>2, <1>3 DEF Table

\* A table without some of its keys.
LEMMA WithoutTable ==
  ASSUME NEW keys, NEW n, NEW t, Table(t, keys, n), NEW D
  PROVE  /\ Table([x \in DOMAIN t \ D |-> t[x]], keys, n)
         /\ Lines([x \in DOMAIN t \ D |-> t[x]]) \subseteq Lines(t)
BY DEF Table, Lines

-----------------------------------------------------------------------------
(* What the actions do to the tables *)

\* Only four actions change a descriptor or a table.
LEMMA NextFiles ==
  ASSUME [Next]_vars
  PROVE  \/ \E v \in FdVars : OpenMcd(v) \/ OpenFd(v) \/ FClose(v)
         \/ \E v \in FdVars : /\ fd_value' = [fd_value EXCEPT ![v] = Mcd({})]
                            /\ UNCHANGED <<files, mcd_files, opened>>
         \/ \E v, w \in FdVars : AssignFd(v, w)
         \/ UNCHANGED fileVars
<1>1. CASE UNCHANGED vars
  BY <1>1 DEF vars
<1>2. CASE \E created \in BOOLEAN : Begin(created)
  BY <1>2 DEF Begin
<1>3. CASE \E d \in program.drives : Write(d.net, d.val)
  BY <1>3 DEF Write
<1>4. CASE \E args \in ArgLists : Display(args) \/ Monitor(args)
  BY <1>4 DEF Display, Monitor
<1>5. CASE \E v \in FdVars, args \in ArgLists : FDisplay(v, args) \/ FMonitor(v, args)
  BY <1>5 DEF FDisplay, FMonitor
<1>6. CASE \E v \in FdVars \cup {NoFd}, args \in ArgLists : Strobe(v, args)
  BY <1>6 DEF Strobe
<1>7. CASE \E v \in FdVars : OpenFails(v)
  BY <1>7 DEF OpenFails
<1>8. CASE MonitorOn \/ MonitorOff \/ Finish
  BY <1>8 DEF MonitorOn, MonitorOff, Finish
<1>9. CASE \E created \in BOOLEAN : DumpVars(created)
  BY <1>9 DEF DumpVars
<1>10. CASE Postponed \/ StopAfterFinish
  BY <1>10 DEF Postponed, StopAfterFinish
<1>11. CASE End \/ \E t \in 1 .. MaxTime : Advance(t)
  BY <1>11 DEF End, Advance
<1> QED
  BY <1>1, <1>2, <1>3, <1>4, <1>5, <1>6, <1>7, <1>8, <1>9, <1>10, <1>11 DEF Next

\* $fopen without a mode either finds no channel, or fills a free one.
LEMMA OpenMcdStep ==
  ASSUME FilesInv, NEW v \in FdVars, OpenMcd(v)
  PROVE  /\ files' = files
         /\ \/ /\ fd_value' = [fd_value EXCEPT ![v] = Mcd({})]
               /\ UNCHANGED <<mcd_files, opened>>
            \/ /\ opened' = opened + 1
               /\ \E bit \in FreeChannels :
                    /\ mcd_files' = With(mcd_files, bit, opened + 1)
                    /\ fd_value' = [fd_value EXCEPT ![v] = Mcd({bit})]
<1>1. CASE FreeChannels = {}
  BY <1>1 DEF OpenMcd
<1>2. CASE FreeChannels # {}
  BY <1>2, FreeChannelFree DEF OpenMcd
<1> QED
  BY <1>1, <1>2

\* A descriptor that is assigned is well formed.
LEMMA FdValueStep ==
  ASSUME FilesInv, NEW v \in FdVars, NEW d \in Descriptors, d.fd => d.chans = {},
         fd_value' = [fd_value EXCEPT ![v] = d]
  PROVE  /\ fd_value' \in [FdVars -> Descriptors]
         /\ \A w \in FdVars : (fd_value'[w]).fd => (fd_value'[w]).chans = {}
BY DEF FilesInv

LEMMA DescriptorForms ==
  /\ \A k \in Nat : Fd(k) \in Descriptors /\ Fd(k).fd /\ Fd(k).chans = {} /\ Fd(k).num = k
  /\ \A cs \in SUBSET Channels : Mcd(cs) \in Descriptors /\ ~Mcd(cs).fd /\ Mcd(cs).chans = cs
BY DEF Fd, Mcd, Descriptors

\* The tables of open files are an invariant of the program.
LEMMA FilesInvInit == Init => FilesInv
<1> SUFFICES ASSUME Init
             PROVE  FilesInv
  OBVIOUS
<1>1. opened = 0 /\ files = <<>> /\ mcd_files = <<>>
      /\ fd_value = [v \in FdVars |-> Fd(UnsetFd)]
  BY DEF Init
<1>2. DOMAIN files = {} /\ DOMAIN mcd_files = {}
  BY <1>1
<1>3. Table(files, 3 .. 2 + opened, opened) /\ Table(mcd_files, 1 .. LastChannel, opened)
  <2>1. files \in [{} -> 1 .. opened] /\ mcd_files \in [{} -> 1 .. opened]
    BY <1>1
  <2> QED
    BY <1>2, <2>1 DEF Table
<1>4. Lines(files) \cap Lines(mcd_files) = {}
  BY <1>2 DEF Lines
<1>5. Fd(UnsetFd) \in Descriptors /\ Fd(UnsetFd).chans = {}
  BY OutputAssumption, DescriptorForms
<1> QED
  BY <1>1, <1>3, <1>4, <1>5 DEF FilesInv

LEMMA FilesInvNext == FilesInv /\ [Next]_vars => FilesInv'
<1> SUFFICES ASSUME FilesInv, [Next]_vars
             PROVE  FilesInv'
  OBVIOUS
<1>1. /\ opened \in Nat
      /\ Table(files, 3 .. 2 + opened, opened) /\ Table(mcd_files, 1 .. LastChannel, opened)
      /\ Lines(files) \cap Lines(mcd_files) = {}
      /\ fd_value \in [FdVars -> Descriptors]
      /\ \A v \in FdVars : fd_value[v].fd => fd_value[v].chans = {}
  BY DEF FilesInv
<1>2. opened + 1 \notin Lines(files) /\ opened + 1 \notin Lines(mcd_files)
  <2>1. Lines(files) \subseteq 1 .. opened /\ Lines(mcd_files) \subseteq 1 .. opened
    BY <1>1 DEF Table, Lines
  <2> QED
    BY <1>1, <2>1
<1>3. Mcd({}) \in Descriptors /\ ~Mcd({}).fd
  BY DescriptorForms
<1>4. ASSUME NEW v \in FdVars, OpenMcd(v)
      PROVE  FilesInv'
  <2>1. CASE fd_value' = [fd_value EXCEPT ![v] = Mcd({})] /\ UNCHANGED <<files, mcd_files, opened>>
    BY <1>1, <1>3, <2>1, FdValueStep DEF FilesInv, Table
  <2>2. CASE /\ files' = files /\ opened' = opened + 1
             /\ \E bit \in FreeChannels :
                  /\ mcd_files' = With(mcd_files, bit, opened + 1)
                  /\ fd_value' = [fd_value EXCEPT ![v] = Mcd({bit})]
    <3>1. PICK bit \in FreeChannels :
                  /\ mcd_files' = With(mcd_files, bit, opened + 1)
                  /\ fd_value' = [fd_value EXCEPT ![v] = Mcd({bit})]
      BY <2>2
    <3>2. bit \in 1 .. LastChannel /\ bit \notin DOMAIN mcd_files
      BY DEF FreeChannels
    <3>3. /\ Table(mcd_files', 1 .. LastChannel, opened')
          /\ Lines(mcd_files') = Lines(mcd_files) \cup {opened + 1}
      <4>1. Table(With(mcd_files, bit, opened + 1), 1 .. LastChannel, opened + 1)
        BY <1>1, <3>2, WithTable
      <4>2. Lines(With(mcd_files, bit, opened + 1)) = Lines(mcd_files) \cup {opened + 1}
        BY <3>2, WithLines
      <4> QED
        BY <2>2, <3>1, <4>1, <4>2
    <3>4. Table(files', 3 .. 2 + opened', opened')
      <4>1. 3 .. 2 + opened \subseteq 3 .. 2 + (opened + 1)
        BY <1>1
      <4> QED
        BY <1>1, <2>2, <4>1, LaterTable
    <3>5. Lines(files') \cap Lines(mcd_files') = {}
      <4>1. Lines(files') = Lines(files)
        BY <2>2 DEF Lines
      <4> QED
        BY <1>1, <1>2, <3>3, <4>1
    <3>6. Mcd({bit}) \in Descriptors /\ ~Mcd({bit}).fd
      BY <3>2, OutputAssumption, DescriptorForms DEF Channels
    <3>7. /\ fd_value' \in [FdVars -> Descriptors]
          /\ \A w \in FdVars : (fd_value'[w]).fd => (fd_value'[w]).chans = {}
      BY <3>1, <3>6, FdValueStep
    <3>8. opened' \in Nat
      BY <1>1, <2>2
    <3> QED
      BY <3>3, <3>4, <3>5, <3>7, <3>8 DEF FilesInv
  <2> QED
    BY <1>4, <2>1, <2>2, OpenMcdStep
<1>5. ASSUME NEW v \in FdVars, OpenFd(v)
      PROVE  FilesInv'
  <2>1. FreeFd \in 3 .. 3 + opened /\ FreeFd \notin DOMAIN files
    BY FreeFdFree
  <2>2. /\ opened' = opened + 1 /\ files' = With(files, FreeFd, opened + 1)
        /\ fd_value' = [fd_value EXCEPT ![v] = Fd(FreeFd)] /\ mcd_files' = mcd_files
    BY <1>5 DEF OpenFd
  <2>3. /\ Table(files', 3 .. 2 + opened', opened')
        /\ Lines(files') = Lines(files) \cup {opened + 1}
    <3>1. 3 .. 2 + opened \subseteq 3 .. 2 + (opened + 1) /\ FreeFd \in 3 .. 2 + (opened + 1)
      BY <1>1, <2>1
    <3> QED
      <4>1. Table(With(files, FreeFd, opened + 1), 3 .. 2 + (opened + 1), opened + 1)
        BY <1>1, <2>1, <3>1, WithTable
      <4>2. Lines(With(files, FreeFd, opened + 1)) = Lines(files) \cup {opened + 1}
        BY <2>1, WithLines
      <4> QED
        BY <2>2, <4>1, <4>2
  <2>4. Table(mcd_files', 1 .. LastChannel, opened')
    BY <1>1, <2>2, LaterTable
  <2>5. Lines(files') \cap Lines(mcd_files') = {}
    <3>1. Lines(mcd_files') = Lines(mcd_files)
      BY <2>2 DEF Lines
    <3> QED
      BY <1>1, <1>2, <2>3, <3>1
  <2>6. Fd(FreeFd) \in Descriptors /\ Fd(FreeFd).chans = {}
    BY <1>1, <2>1, DescriptorForms
  <2> QED
    BY <1>1, <2>2, <2>3, <2>4, <2>5, <2>6, FdValueStep DEF FilesInv
<1>6. ASSUME NEW v \in FdVars, FClose(v)
      PROVE  FilesInv'
  <2>1. opened' = opened /\ fd_value' = fd_value
    BY <1>6 DEF FClose
  <2>2. Table(files', 3 .. 2 + opened', opened') /\ Lines(files') \subseteq Lines(files)
    <3>1. PICK D : files' = [x \in DOMAIN files \ D |-> files[x]] \/ files' = files
      BY <1>6 DEF FClose, Without
    <3>2. /\ Table([x \in DOMAIN files \ D |-> files[x]], 3 .. 2 + opened, opened)
          /\ Lines([x \in DOMAIN files \ D |-> files[x]]) \subseteq Lines(files)
      BY <1>1, WithoutTable
    <3> QED
      BY <1>1, <2>1, <3>1, <3>2
  <2>3. Table(mcd_files', 1 .. LastChannel, opened') /\ Lines(mcd_files') \subseteq Lines(mcd_files)
    <3>1. PICK D : mcd_files' = [x \in DOMAIN mcd_files \ D |-> mcd_files[x]]
                   \/ mcd_files' = mcd_files
      BY <1>6 DEF FClose
    <3>2. /\ Table([x \in DOMAIN mcd_files \ D |-> mcd_files[x]], 1 .. LastChannel, opened)
          /\ Lines([x \in DOMAIN mcd_files \ D |-> mcd_files[x]]) \subseteq Lines(mcd_files)
      BY <1>1, WithoutTable
    <3> QED
      BY <1>1, <2>1, <3>1, <3>2
  <2> QED
    BY <1>1, <2>1, <2>2, <2>3 DEF FilesInv, Lines
<1>7. ASSUME NEW v \in FdVars, fd_value' = [fd_value EXCEPT ![v] = Mcd({})],
             UNCHANGED <<files, mcd_files, opened>>
      PROVE  FilesInv'
  BY <1>1, <1>3, <1>7, FdValueStep DEF FilesInv, Table
<1>8. ASSUME NEW v \in FdVars, NEW w \in FdVars, AssignFd(v, w)
      PROVE  FilesInv'
  <2> DEFINE d == Mcd(fd_value[v].chans \cup fd_value[w].chans)
  <2>1. fd_value' = [fd_value EXCEPT ![v] = d] /\ UNCHANGED <<files, mcd_files, opened>>
    BY <1>8 DEF AssignFd
  <2>2. fd_value[v].chans \cup fd_value[w].chans \in SUBSET Channels
    BY <1>1 DEF Descriptors
  <2>3. d \in Descriptors /\ ~d.fd
    BY <2>2, DescriptorForms
  <2> HIDE DEF d
  <2> QED
    BY <1>1, <2>1, <2>3, FdValueStep DEF FilesInv, Table
<1>9. CASE UNCHANGED fileVars
  BY <1>1, <1>9 DEF FilesInv, Table, fileVars
<1> QED
  BY <1>4, <1>5, <1>6, <1>7, <1>8, <1>9, NextFiles

\* The tables of open files never hold a file twice, whatever is opened and closed.
THEOREM FilesInvariant == Spec => []FilesInv
BY FilesInvInit, FilesInvNext, PTL DEF Spec

-----------------------------------------------------------------------------
(* Every open file keeps its descriptor *)

\* A file goes out of the tables only when a descriptor that stands for it, and
\* for nothing else, is closed.
LEMMA LostWhenClosed ==
  ASSUME FilesInv, [Next]_vars, NEW f \in OpenFiles, f \notin OpenFiles'
  PROVE  \E v \in FdVars : Denoted(fd_value[v]) = {f} /\ FClose(v)
<1>1. ASSUME NEW v \in FdVars, OpenMcd(v)
      PROVE  FALSE
  <2>1. files' = files
        /\ (mcd_files' = mcd_files \/ \E bit \in FreeChannels : mcd_files' = With(mcd_files, bit, opened + 1))
    BY <1>1, OpenMcdStep
  <2>2. Lines(mcd_files) \subseteq Lines(mcd_files')
    <3>1. ASSUME NEW bit \in FreeChannels
          PROVE  Lines(mcd_files) \subseteq Lines(With(mcd_files, bit, opened + 1))
      <4>1. bit \notin DOMAIN mcd_files
        BY DEF FreeChannels
      <4> QED
        BY <4>1, WithLines
    <3> QED
      BY <2>1, <3>1
  <2> QED
    BY <2>1, <2>2 DEF OpenFiles
<1>2. ASSUME NEW v \in FdVars, OpenFd(v)
      PROVE  FALSE
  <2>1. mcd_files' = mcd_files /\ files' = With(files, FreeFd, opened + 1)
    BY <1>2 DEF OpenFd
  <2>2. Lines(files) \subseteq Lines(With(files, FreeFd, opened + 1))
    BY FreeFdFree, WithLines
  <2> QED
    BY <2>1, <2>2 DEF OpenFiles
<1>3. ASSUME NEW v \in FdVars, FClose(v)
      PROVE  Denoted(fd_value[v]) = {f}
  <2> DEFINE d == fd_value[v]
  <2>1. CASE d.fd
    <3>1. files' = Without(files, d.num) /\ mcd_files' = mcd_files
      BY <1>3, <2>1 DEF FClose
    <3>2. f \in Lines(files) /\ f \notin Lines(Without(files, d.num))
      BY <3>1 DEF OpenFiles
    <3>3. PICK k \in DOMAIN files : f = files[k]
      BY <3>2 DEF Lines
    <3>4. k = d.num
      BY <3>2, <3>3 DEF Lines, Without
    <3> QED
      BY <2>1, <3>3, <3>4 DEF Denoted
  <2>2. CASE ~d.fd
    <3>1. files' = files
      BY <1>3, <2>2 DEF FClose
    <3>2. PICK c \in d.chans : d.chans = {c} /\ mcd_files' = [e \in DOMAIN mcd_files \ {c} |-> mcd_files[e]]
      <4>1. mcd_files' # mcd_files
        BY <3>1 DEF OpenFiles
      <4> QED
        BY <1>3, <2>2, <4>1 DEF FClose
    <3>3. f \in Lines(mcd_files) /\ f \notin Lines([e \in DOMAIN mcd_files \ {c} |-> mcd_files[e]])
      BY <3>1, <3>2 DEF OpenFiles
    <3>4. PICK k \in DOMAIN mcd_files : f = mcd_files[k]
      BY <3>3 DEF Lines
    <3>5. k = c
      BY <3>3, <3>4 DEF Lines
    <3> QED
      BY <2>2, <3>2, <3>4, <3>5 DEF Denoted
  <2> QED
    BY <2>1, <2>2
<1>4. CASE UNCHANGED <<files, mcd_files>>
  BY <1>4 DEF OpenFiles
<1> QED
  BY <1>1, <1>2, <1>3, <1>4, NextFiles DEF AssignFd, fileVars

\* FilesKeepTheirDescriptor for every program: whatever the order in which files
\* are opened and closed, as MCDs and as fds, open_file hands out no number that
\* is in use, and a file is closed only by the descriptor that stands for it.
THEOREM DescriptorsAreKept == Spec => FilesKeepTheirDescriptor
<1>1. FilesInv /\ FilesInv' /\ [Next]_vars =>
        [/\ \A f \in OpenFiles \ OpenFiles' :
             \E v \in FdVars : Denoted(fd_value[v]) = {f} /\ FClose(v)
         /\ \A j, k \in DOMAIN files' : files'[j] = files'[k] => j = k
         /\ 0 \notin DOMAIN mcd_files'
         /\ \A c, e \in DOMAIN mcd_files' : mcd_files'[c] = mcd_files'[e] => c = e
         /\ Lines(files') \cap Lines(mcd_files') = {}]_vars
  <2> SUFFICES ASSUME FilesInv, FilesInv', [Next]_vars
               PROVE  /\ \A f \in OpenFiles \ OpenFiles' :
                           \E v \in FdVars : Denoted(fd_value[v]) = {f} /\ FClose(v)
                      /\ \A j, k \in DOMAIN files' : files'[j] = files'[k] => j = k
                      /\ 0 \notin DOMAIN mcd_files'
                      /\ \A c, e \in DOMAIN mcd_files' : mcd_files'[c] = mcd_files'[e] => c = e
                      /\ Lines(files') \cap Lines(mcd_files') = {}
    OBVIOUS
  <2>1. \A f \in OpenFiles \ OpenFiles' :
          \E v \in FdVars : Denoted(fd_value[v]) = {f} /\ FClose(v)
    BY LostWhenClosed
  <2>2. Table(files', 3 .. 2 + opened', opened') /\ Table(mcd_files', 1 .. LastChannel, opened')
        /\ Lines(files') \cap Lines(mcd_files') = {}
    BY DEF FilesInv
  <2>3. 0 \notin 1 .. LastChannel
    BY OutputAssumption
  <2> QED
    BY <2>1, <2>2, <2>3 DEF Table
<1> QED
  BY <1>1, FilesInvariant, PTL DEF Spec, FilesKeepTheirDescriptor

-----------------------------------------------------------------------------
(* The time stamps of the waveform *)

\* The lines that can stand in a block.
Chunks == {LowChunk(v) : v \in UNION {Planes(n) : n \in Nets}}
Blocks == [time : Nat, lines : SUBSET {Line(n, c) : n \in Nets, c \in Chunks}]

\* Until the run ends, all that is stamped lies before the current time, and
\* what comes next is stamped with it, unless the recording has just begun.
StampsInv ==
  /\ phase \in {"start", "run", "advance", "done"}
  /\ now \in Nat /\ last_time \in Nat
  /\ program \in Programs
  /\ DOMAIN pending \subseteq Nets
  /\ \A n \in DOMAIN pending : pending[n] \in Chunks
  /\ changes \in Seq(Blocks)
  /\ \A i \in 1 .. Len(changes) - 1 : changes[i].time < changes[i + 1].time
  /\ phase # "done" =>
       /\ \A i \in 1 .. Len(changes) : changes[i].time < now
       /\ last_time = now \/ (last_time = 0 /\ changes = <<>>)
  /\ ~vcd_active \/ phase = "start" => last_time = 0 /\ changes = <<>>

LEMMA BlockTime == \A b \in Blocks : b.time \in Nat
BY DEF Blocks

\* What the steps do to the clock and to the blocks.
LEMMA NextStamps ==
  ASSUME [Next]_vars
  PROVE  /\ program' = program
         /\ vcd_active /\ phase # "start" => vcd_active'
         /\ \/ /\ UNCHANGED <<now, last_time, pending, changes>>
               /\ phase' = phase \/ (phase # "done" /\ phase' \in {"run", "advance"})
            \/ /\ \E d \in program.drives : record_change(d.net, d.val)
               /\ UNCHANGED <<phase, now>>
            \/ /\ \E t \in 1 .. MaxTime : now < t /\ now' = t /\ advance_time(now, t)
               /\ phase = "advance" /\ phase' = "run"
            \/ finish /\ phase \in {"run", "advance"} /\ phase' = "done" /\ now' = now
<1>1. CASE UNCHANGED vars
  BY <1>1 DEF vars, runVars, vcdVars
<1>2. CASE \E created \in BOOLEAN : Begin(created)
  BY <1>2 DEF Begin, init_vcd, vcdVars
<1>3. CASE \E d \in program.drives : Write(d.net, d.val)
  <2>1. PICK d \in program.drives : Write(d.net, d.val)
    BY <1>3
  <2>2. record_change(d.net, d.val) /\ UNCHANGED <<phase, now, program>>
    BY <2>1 DEF Write
  <2>3. vcd_active' = vcd_active
    BY <2>2 DEF record_change
  <2> QED
    BY <2>2, <2>3
<1>4. CASE \E v, w \in FdVars : AssignFd(v, w)
  BY <1>4 DEF AssignFd, runVars, vcdVars
<1>5. CASE \E args \in ArgLists : Display(args) \/ Monitor(args)
  BY <1>5 DEF Display, Monitor, Called, vcdVars
<1>6. CASE \E v \in FdVars, args \in ArgLists : FDisplay(v, args) \/ FMonitor(v, args)
  BY <1>6 DEF FDisplay, FMonitor, Called, vcdVars
<1>7. CASE \E v \in FdVars \cup {NoFd}, args \in ArgLists : Strobe(v, args)
  BY <1>7 DEF Strobe, Called, vcdVars
<1>8. CASE \E v \in FdVars : OpenMcd(v) \/ OpenFd(v)
  <2>1. UNCHANGED <<phase, now, program, vcdVars>>
    BY <1>8 DEF OpenMcd, OpenFd, Called
  <2> QED
    BY <2>1 DEF vcdVars
<1>9. CASE \E v \in FdVars : OpenFails(v) \/ FClose(v)
  BY <1>9 DEF OpenFails, FClose, Called, vcdVars
<1>10. CASE MonitorOn \/ MonitorOff \/ Finish
  BY <1>10 DEF MonitorOn, MonitorOff, Finish, Called, vcdVars
<1>11. CASE \E created \in BOOLEAN : DumpVars(created)
  BY <1>11 DEF DumpVars, Called, init_vcd, vcdVars
<1>12. CASE Postponed
  BY <1>12 DEF Postponed, vcdVars
<1>13. CASE StopAfterFinish \/ End
  BY <1>13 DEF StopAfterFinish, End, finish
<1>14. CASE \E t \in 1 .. MaxTime : Advance(t)
  BY <1>14 DEF Advance, advance_time
<1> QED
  BY <1>1, <1>2, <1>3, <1>4, <1>5, <1>6, <1>7, <1>8, <1>9, <1>10, <1>11, <1>12,
     <1>13, <1>14 DEF Next

\* A block of the changes that wait is added, or none waits.
LEMMA FlushAtBlock ==
  ASSUME StampsInv, NEW t \in Nat
  PROVE  /\ FlushAt(t) \in Seq(Blocks)
         /\ \/ FlushAt(t) = changes
            \/ /\ Len(FlushAt(t)) = Len(changes) + 1
               /\ \A i \in 1 .. Len(changes) : FlushAt(t)[i] = changes[i]
               /\ FlushAt(t)[Len(changes) + 1].time = t
         /\ Len(FlushAt(t)) > Len(changes) => FlushAt(t)[Len(FlushAt(t))].time = t
<1> DEFINE b == [time |-> t, lines |-> {Line(n, pending[n]) : n \in DOMAIN pending}]
<1>1. b \in Blocks /\ b.time = t
  BY DEF StampsInv, Blocks
<1>2. changes \in Seq(Blocks)
  BY DEF StampsInv
<1>3. FlushAt(t) = changes \/ FlushAt(t) = Append(changes, b)
  BY DEF FlushAt
<1> HIDE DEF b
<1> QED
  BY <1>1, <1>2, <1>3

\* Under the time of the last block or none: the stamps still grow.
LEMMA FlushAtGrows ==
  ASSUME StampsInv, NEW t \in Nat, \A i \in 1 .. Len(changes) : changes[i].time < t
  PROVE  /\ \A i \in 1 .. Len(FlushAt(t)) - 1 : FlushAt(t)[i].time < FlushAt(t)[i + 1].time
         /\ \A i \in 1 .. Len(FlushAt(t)) : FlushAt(t)[i].time <= t
<1>1. /\ changes \in Seq(Blocks) /\ Len(changes) \in Nat
      /\ \A i \in 1 .. Len(changes) - 1 : changes[i].time < changes[i + 1].time
      /\ \A i \in 1 .. Len(changes) : changes[i].time \in Nat
  BY BlockTime DEF StampsInv
<1>2. CASE FlushAt(t) = changes
  BY <1>1, <1>2
<1>3. CASE /\ Len(FlushAt(t)) = Len(changes) + 1
           /\ \A i \in 1 .. Len(changes) : FlushAt(t)[i] = changes[i]
           /\ FlushAt(t)[Len(changes) + 1].time = t
  <2>1. ASSUME NEW i \in 1 .. Len(changes)
        PROVE  FlushAt(t)[i].time < FlushAt(t)[i + 1].time
    <3>1. CASE i = Len(changes)
      BY <1>1, <1>3, <3>1
    <3>2. CASE i # Len(changes)
      <4>1. i \in 1 .. Len(changes) - 1 /\ i + 1 \in 1 .. Len(changes)
        BY <1>1, <3>2
      <4> QED
        BY <1>1, <1>3, <4>1
    <3> QED
      BY <3>1, <3>2
  <2>2. ASSUME NEW i \in 1 .. Len(changes) + 1
        PROVE  FlushAt(t)[i].time <= t
    BY <1>1, <1>3
  <2> QED
    BY <1>1, <1>3, <2>1, <2>2
<1> QED
  BY <1>2, <1>3, FlushAtBlock

LEMMA StampsInvInit == Init => StampsInv
<1> SUFFICES ASSUME Init
             PROVE  StampsInv
  OBVIOUS
<1>1. phase = "start" /\ now = 0 /\ program \in Programs
      /\ last_time = 0 /\ pending = <<>> /\ changes = <<>>
  BY DEF Init, VcdInit
<1> QED
  BY <1>1 DEF StampsInv

\* Besides the invariant: what StampsAreTrue says of the block that is added.
LEMMA StampsStep ==
  ASSUME StampsInv, [Next]_vars
  PROVE  /\ StampsInv'
         /\ Len(changes') > Len(changes) =>
              \/ changes'[Len(changes')].time = now
              \/ phase' = "done" /\ changes = <<>> /\ last_time = 0
<1>1. /\ phase \in {"start", "run", "advance", "done"}
      /\ now \in Nat /\ last_time \in Nat /\ program \in Programs
      /\ DOMAIN pending \subseteq Nets
      /\ \A n \in DOMAIN pending : pending[n] \in Chunks
      /\ changes \in Seq(Blocks) /\ Len(changes) \in Nat
      /\ \A i \in 1 .. Len(changes) - 1 : changes[i].time < changes[i + 1].time
      /\ phase # "done" =>
           /\ \A i \in 1 .. Len(changes) : changes[i].time < now
           /\ last_time = now \/ (last_time = 0 /\ changes = <<>>)
      /\ ~vcd_active \/ phase = "start" => last_time = 0 /\ changes = <<>>
      /\ \A i \in 1 .. Len(changes) : changes[i].time \in Nat
  BY BlockTime DEF StampsInv
<1>2. program' = program /\ (vcd_active /\ phase # "start" => vcd_active')
  BY NextStamps
<1>3. CASE /\ UNCHANGED <<now, last_time, pending, changes>>
           /\ phase' = phase \/ (phase # "done" /\ phase' \in {"run", "advance"})
  BY <1>1, <1>2, <1>3 DEF StampsInv
<1>4. CASE /\ \E d \in program.drives : record_change(d.net, d.val)
           /\ UNCHANGED <<phase, now>>
  <2>1. PICK d \in program.drives : record_change(d.net, d.val)
    BY <1>4
  <2>2. d.net \in Nets /\ LowChunk(d.val) \in Chunks
    <3>1. d \in [net : Nets, val : UNION {Planes(n) : n \in Nets}]
      BY <1>1, OutputAssumption
    <3> QED
      BY <3>1 DEF Chunks
  <2>3. UNCHANGED <<last_time, changes>>
        /\ (pending' = pending
             \/ pending' = [m \in DOMAIN pending \cup {d.net} |->
                              IF m = d.net THEN LowChunk(d.val) ELSE pending[m]])
    BY <2>1 DEF record_change
  <2>4. DOMAIN pending' \subseteq Nets /\ \A n \in DOMAIN pending' : pending'[n] \in Chunks
    BY <1>1, <2>2, <2>3
  <2> QED
    BY <1>1, <1>2, <1>4, <2>3, <2>4 DEF StampsInv
<1>5. CASE /\ \E t \in 1 .. MaxTime : now < t /\ now' = t /\ advance_time(now, t)
           /\ phase = "advance" /\ phase' = "run"
  <2>1. PICK t \in 1 .. MaxTime : now < t /\ now' = t /\ advance_time(now, t)
    BY <1>5
  <2>2. t \in Nat
    BY OutputAssumption
  <2>3. CASE vcd_active
    <3>1. changes' = FlushAt(now) /\ pending' = <<>> /\ last_time' = t
      BY <2>1, <2>3 DEF advance_time
    <3>2. \A i \in 1 .. Len(changes) : changes[i].time < now
      BY <1>1, <1>5
    <3>3. /\ \A i \in 1 .. Len(FlushAt(now)) - 1 : FlushAt(now)[i].time < FlushAt(now)[i + 1].time
          /\ \A i \in 1 .. Len(FlushAt(now)) : FlushAt(now)[i].time <= now
      BY <1>1, <3>2, FlushAtGrows
    <3>4. /\ FlushAt(now) \in Seq(Blocks)
          /\ Len(FlushAt(now)) > Len(changes) => FlushAt(now)[Len(FlushAt(now))].time = now
      BY <1>1, FlushAtBlock
    <3>5. \A i \in 1 .. Len(FlushAt(now)) : FlushAt(now)[i].time \in Nat
      BY <3>4, BlockTime
    <3>6. \A i \in 1 .. Len(FlushAt(now)) : FlushAt(now)[i].time < t
      BY <1>1, <2>1, <2>2, <3>3, <3>5
    <3>7. DOMAIN pending' = {}
      BY <3>1
    <3>8. vcd_active' /\ now' = t /\ phase' = "run"
      BY <1>2, <1>5, <2>1, <2>3
    <3>9. StampsInv'
      BY <1>1, <1>2, <2>2, <3>1, <3>3, <3>4, <3>6, <3>7, <3>8 DEF StampsInv
    <3> QED
      BY <3>1, <3>4, <3>9
  <2>4. CASE ~vcd_active
    <3>1. UNCHANGED <<changes, pending, last_time>>
      BY <2>1, <2>4 DEF advance_time
    <3>2. \A i \in 1 .. Len(changes) : changes[i].time < t
      BY <1>1, <1>5, <2>1, <2>2
    <3>3. last_time = 0 /\ changes = <<>>
      BY <1>1, <2>4
    <3> QED
      BY <1>1, <1>2, <1>5, <2>1, <2>2, <3>1, <3>2, <3>3 DEF StampsInv
  <2> QED
    BY <2>3, <2>4
<1>6. CASE finish /\ phase \in {"run", "advance"} /\ phase' = "done" /\ now' = now
  <2>1. \A i \in 1 .. Len(changes) : changes[i].time < last_time
    BY <1>1, <1>6
  <2>2. /\ \A i \in 1 .. Len(FlushAt(last_time)) - 1 :
             FlushAt(last_time)[i].time < FlushAt(last_time)[i + 1].time
        /\ FlushAt(last_time) \in Seq(Blocks)
        /\ Len(FlushAt(last_time)) > Len(changes) =>
             FlushAt(last_time)[Len(FlushAt(last_time))].time = last_time
    BY <1>1, <2>1, FlushAtGrows, FlushAtBlock
  <2>3. last_time' = last_time
        /\ \/ vcd_active /\ changes' = FlushAt(last_time) /\ pending' = <<>>
           \/ ~vcd_active /\ changes' = changes /\ pending' = pending
    BY <1>6 DEF finish
  <2>4. DOMAIN pending' \subseteq Nets /\ \A n \in DOMAIN pending' : pending'[n] \in Chunks
    BY <1>1, <2>3
  <2>5. ~vcd_active' => last_time' = 0 /\ changes' = <<>>
    BY <1>1, <1>2, <1>6, <2>3
  <2>6. /\ \A i \in 1 .. Len(changes') - 1 : changes'[i].time < changes'[i + 1].time
        /\ changes' \in Seq(Blocks)
        /\ Len(changes') > Len(changes) => changes'[Len(changes')].time = last_time
    BY <1>1, <2>2, <2>3
  <2>7. StampsInv'
    BY <1>1, <1>2, <1>6, <2>3, <2>4, <2>5, <2>6 DEF StampsInv
  <2> QED
    BY <1>1, <1>6, <2>6, <2>7
<1> QED
  BY <1>3, <1>4, <1>5, <1>6, NextStamps

THEOREM StampsInvariant == Spec => []StampsInv
<1>1. StampsInv /\ [Next]_vars => StampsInv'
  BY StampsStep
<1> QED
  BY <1>1, StampsInvInit, PTL DEF Spec

\* StampsAreTrue for every program: the stamps of the waveform grow, and every
\* block stands under the time at which its changes were made.
THEOREM StampsGrow == Spec => StampsAreTrue
<1>1. StampsInv /\ [Next]_vars =>
        [/\ \A i \in 1 .. Len(changes') - 1 : changes'[i].time < changes'[i + 1].time
         /\ Len(changes') > Len(changes) =>
              \/ changes'[Len(changes')].time = now
              \/ phase' = "done" /\ changes = <<>> /\ last_time = 0]_vars
  BY StampsStep DEF StampsInv
<1> QED
  BY <1>1, StampsInvariant, PTL DEF Spec, StampsAreTrue

-----------------------------------------------------------------------------
(* Where lines are printed *)

IsSeq(s) == s \in Seq(Lines(s))

\* Output with n files.
IsOut(o, n) ==
  /\ o = [stdout |-> o.stdout, stderr |-> o.stderr, content |-> o.content]
  /\ IsSeq(o.stdout) /\ IsSeq(o.stderr)
  /\ IsSeq(o.content) /\ Len(o.content) = n
  /\ \A f \in 1 .. n : IsSeq(o.content[f])

\* The places S, for the line that is looked for.
Hit(line, task, id, S) == IF line.task = task /\ line.id = id THEN S ELSE {}

\* p is o with the line printed in the places S; warnings are not looked at.
Prints(p, o, line, S) ==
  \A task, id : task # "warning" =>
    Places(p, task, id) = Places(o, task, id) \cup Hit(line, task, id, S)

LEMMA PrintsNothing ==
  \A o, line : Prints(o, o, line, {})
BY DEF Prints, Hit

LEMMA PrintsBoth ==
  ASSUME NEW o, NEW p, NEW q, NEW line, NEW S, NEW T,
         Prints(q, o, line, S), Prints(p, q, line, T)
  PROVE  Prints(p, o, line, T \cup S)
<1> SUFFICES ASSUME NEW task, NEW id, task # "warning"
             PROVE  Places(p, task, id) = Places(o, task, id) \cup Hit(line, task, id, T \cup S)
  BY DEF Prints
<1>1. /\ Places(q, task, id) = Places(o, task, id) \cup Hit(line, task, id, S)
      /\ Places(p, task, id) = Places(q, task, id) \cup Hit(line, task, id, T)
  BY DEF Prints
<1> QED
  BY <1>1 DEF Hit

LEMMA AppendSeq ==
  ASSUME NEW s, IsSeq(s), NEW x
  PROVE  /\ IsSeq(Append(s, x))
         /\ Lines(Append(s, x)) = Lines(s) \cup {x}
         /\ Len(s) \in Nat /\ DOMAIN s = 1 .. Len(s)
         /\ Len(Append(s, x)) = Len(s) + 1 /\ DOMAIN Append(s, x) = 1 .. Len(s) + 1
         /\ \A i \in 1 .. Len(s) : Append(s, x)[i] = s[i]
         /\ Append(s, x)[Len(s) + 1] = x
<1> DEFINE T == Lines(s) \cup {x}
           t == Append(s, x)
<1>1. s \in Seq(T) /\ x \in T
  <2>1. s \in Seq(Lines(s)) /\ Lines(s) \subseteq T
    BY DEF IsSeq
  <2> HIDE DEF T
  <2>2. Len(s) \in Nat /\ DOMAIN s = 1 .. Len(s) /\ \A i \in 1 .. Len(s) : s[i] \in Lines(s)
    BY <2>1
  <2>3. s \in Seq(T)
    BY <2>1, <2>2
  <2> QED
    BY <2>3 DEF T
<1>2. /\ Len(s) \in Nat /\ DOMAIN s = 1 .. Len(s)
      /\ Len(t) = Len(s) + 1 /\ DOMAIN t = 1 .. Len(s) + 1
      /\ \A i \in 1 .. Len(s) : t[i] = s[i]
      /\ t[Len(s) + 1] = x
      /\ t \in Seq(T)
  <2> HIDE DEF T
  <2> QED
    BY <1>1
<1>3. Lines(t) = T
  <2>1. \A y \in T : \E i \in DOMAIN t : y = t[i]
    <3>1. ASSUME NEW i \in DOMAIN s
          PROVE  \E j \in DOMAIN t : s[i] = t[j]
      BY <1>2
    <3>2. \E j \in DOMAIN t : x = t[j]
      BY <1>2
    <3> QED
      BY <3>1, <3>2 DEF Lines
  <2>2. \A i \in DOMAIN t : t[i] \in T
    <3>1. ASSUME NEW i \in 1 .. Len(s) + 1
          PROVE  t[i] \in T
      <4> HIDE DEF T, t
      <4> QED
        BY <1>2
    <3> QED
      BY <1>2, <3>1
  <2> HIDE DEF T, t
  <2> QED
    BY <2>1, <2>2 DEF Lines
<1> HIDE DEF T
<1> QED
  BY <1>2, <1>3 DEF IsSeq, T

\* A line on stdout.
LEMMA StdoutLine ==
  ASSUME NEW n, NEW o, IsOut(o, n), NEW line
  PROVE  /\ IsOut(ToStdout(o, line), n)
         /\ Prints(ToStdout(o, line), o, line, {0})
         /\ Warnings(o) \in Nat
         /\ Warnings(ToStdout(o, line)) =
              Warnings(o) + (IF line.task = "warning" THEN 1 ELSE 0)
<1> DEFINE p == ToStdout(o, line)
           W == {i \in DOMAIN o.stdout : o.stdout[i].task = "warning"}
<1>1. /\ p = [stdout |-> Append(o.stdout, line), stderr |-> o.stderr, content |-> o.content]
      /\ p.stdout = Append(o.stdout, line) /\ p.stderr = o.stderr /\ p.content = o.content
  BY SMTT(20) DEF IsOut, ToStdout
<1>2. /\ IsSeq(Append(o.stdout, line))
      /\ Lines(Append(o.stdout, line)) = Lines(o.stdout) \cup {line}
      /\ Len(o.stdout) \in Nat /\ DOMAIN o.stdout = 1 .. Len(o.stdout)
      /\ DOMAIN Append(o.stdout, line) = 1 .. Len(o.stdout) + 1
      /\ \A i \in 1 .. Len(o.stdout) : Append(o.stdout, line)[i] = o.stdout[i]
      /\ Append(o.stdout, line)[Len(o.stdout) + 1] = line
  BY AppendSeq DEF IsOut
<1>3. IsOut(p, n)
  <2> HIDE DEF p
  <2> QED
    BY <1>1, <1>2 DEF IsOut
<1>4. ASSUME NEW task, NEW id
      PROVE  Places(p, task, id) = Places(o, task, id) \cup Hit(line, task, id, {0})
  <2> HIDE DEF p
  <2>1. (\E l \in Lines(p.stdout) : l.task = task /\ l.id = id)
          <=> (\E l \in Lines(o.stdout) : l.task = task /\ l.id = id)
              \/ (line.task = task /\ line.id = id)
    BY <1>1, <1>2
  <2> QED
    BY <1>1, <2>1 DEF Places, Hit
<1>5. IsFiniteSet(W) /\ Len(o.stdout) + 1 \notin W
  <2>1. IsFiniteSet(1 .. Len(o.stdout)) /\ W \subseteq 1 .. Len(o.stdout)
    BY <1>2, FS_Interval
  <2>2. Len(o.stdout) + 1 \notin 1 .. Len(o.stdout)
    BY <1>2
  <2> QED
    BY <2>1, <2>2, FS_Subset
<1>6. {i \in DOMAIN p.stdout : p.stdout[i].task = "warning"} =
        W \cup (IF line.task = "warning" THEN {Len(o.stdout) + 1} ELSE {})
  <2>1. {i \in 1 .. Len(o.stdout) + 1 : Append(o.stdout, line)[i].task = "warning"} =
          W \cup (IF line.task = "warning" THEN {Len(o.stdout) + 1} ELSE {})
    BY <1>2
  <2> QED
    BY <1>1, <1>2, <2>1
<1>7. Cardinality(W) \in Nat
  BY <1>5, FS_CardinalityType
<1>8. Cardinality(W \cup {Len(o.stdout) + 1}) = Cardinality(W) + 1
  <2> HIDE DEF W
  <2> QED
    BY <1>5, FS_AddElement
<1>9. Warnings(p) = Warnings(o) + (IF line.task = "warning" THEN 1 ELSE 0)
  <2>1. Warnings(o) = Cardinality(W)
    BY DEF Warnings
  <2>2. Warnings(p) = Cardinality(W \cup (IF line.task = "warning" THEN {Len(o.stdout) + 1} ELSE {}))
    BY <1>6 DEF Warnings
  <2> HIDE DEF W, p
  <2>3. CASE line.task = "warning"
    BY <1>8, <2>1, <2>2, <2>3
  <2>4. CASE line.task # "warning"
    BY <1>7, <2>1, <2>2, <2>4
  <2> QED
    BY <2>3, <2>4
<1>10. Warnings(o) \in Nat
  BY <1>7 DEF Warnings
<1>11. Prints(p, o, line, {0})
  <2> HIDE DEF p
  <2> QED
    BY <1>4 DEF Prints
<1> QED
  BY <1>3, <1>9, <1>10, <1>11

\* A warning prints nothing else.
LEMMA WarningLine ==
  ASSUME NEW n, NEW o, IsOut(o, n), NEW line
  PROVE  /\ IsOut(ToStdout(o, Notice("warning")), n)
         /\ Prints(ToStdout(o, Notice("warning")), o, line, {})
         /\ Warnings(ToStdout(o, Notice("warning"))) = Warnings(o) + 1
<1> DEFINE w == ToStdout(o, Notice("warning"))
<1>1. Notice("warning").task = "warning"
  BY DEF Notice
<1>2. IsOut(w, n) /\ Warnings(w) = Warnings(o) + 1
  BY <1>1, StdoutLine
<1>3. Prints(w, o, Notice("warning"), {0})
  BY StdoutLine
<1> HIDE DEF w
<1>4. ASSUME NEW task, NEW id, task # "warning"
      PROVE  Places(w, task, id) = Places(o, task, id) \cup Hit(line, task, id, {})
  <2>1. Places(w, task, id) = Places(o, task, id) \cup Hit(Notice("warning"), task, id, {0})
    BY <1>3, <1>4 DEF Prints
  <2>2. Hit(Notice("warning"), task, id, {0}) = {} /\ Hit(line, task, id, {}) = {}
    BY <1>1, <1>4 DEF Hit
  <2> QED
    BY <2>1, <2>2
<1>5. Prints(w, o, line, {})
  BY <1>4 DEF Prints
<1> QED
  BY <1>2, <1>5 DEF w

\* A line in the files of the set open.
WriteTo(o, open, line) ==
  [o EXCEPT !.content = [f \in DOMAIN @ |->
     IF f \in open THEN Append(@[f], line) ELSE @[f]]]

LEMMA ContentLine ==
  ASSUME NEW n, NEW o, IsOut(o, n), NEW line, NEW open, open \subseteq 1 .. n
  PROVE  /\ IsOut(WriteTo(o, open, line), n)
         /\ Prints(WriteTo(o, open, line), o, line, open)
         /\ Warnings(WriteTo(o, open, line)) = Warnings(o)
<1> DEFINE p == WriteTo(o, open, line)
<1>1. IsSeq(o.content) /\ Len(o.content) = n /\ \A f \in 1 .. n : IsSeq(o.content[f])
  BY DEF IsOut
<1>2. n \in Nat /\ DOMAIN o.content = 1 .. n
  BY <1>1, AppendSeq
<1> DEFINE c == [f \in 1 .. n |->
                   IF f \in open THEN Append(o.content[f], line) ELSE o.content[f]]
<1>3. /\ p = [stdout |-> o.stdout, stderr |-> o.stderr, content |-> c]
      /\ p.stdout = o.stdout /\ p.stderr = o.stderr /\ p.content = c
  <2>1. o = [stdout |-> o.stdout, stderr |-> o.stderr, content |-> o.content]
    BY DEF IsOut
  <2>2. p = [o EXCEPT !.content = c]
    BY <1>2 DEF WriteTo
  <2> HIDE DEF c, p
  <2> QED
    BY <2>1, <2>2
<1>4. \A f \in open : /\ c[f] = Append(o.content[f], line)
                      /\ IsSeq(c[f]) /\ Lines(c[f]) = Lines(o.content[f]) \cup {line}
  BY <1>1, AppendSeq
<1>5. \A f \in (1 .. n) \ open : c[f] = o.content[f]
  OBVIOUS
<1>6. IsSeq(c) /\ Len(c) = n /\ DOMAIN c = 1 .. n
  <2>1. c \in [1 .. n -> Lines(c)]
    BY DEF Lines
  <2> HIDE DEF c
  <2> QED
    BY <1>2, <2>1 DEF IsSeq
<1> HIDE DEF c, p
<1>7. IsOut(p, n)
  BY <1>1, <1>3, <1>4, <1>5, <1>6 DEF IsOut
<1>8. ASSUME NEW task, NEW id
      PROVE  Places(p, task, id) = Places(o, task, id) \cup Hit(line, task, id, open)
  <2>1. {f \in DOMAIN p.content : \E l \in Lines(p.content[f]) : l.task = task /\ l.id = id} =
          {f \in DOMAIN o.content : \E l \in Lines(o.content[f]) : l.task = task /\ l.id = id}
            \cup Hit(line, task, id, open)
    <3>1. ASSUME NEW f \in 1 .. n
          PROVE  (\E l \in Lines(c[f]) : l.task = task /\ l.id = id)
                   <=> \/ \E l \in Lines(o.content[f]) : l.task = task /\ l.id = id
                       \/ f \in open /\ line.task = task /\ line.id = id
      <4>1. CASE f \in open
        <5>1. Lines(c[f]) = Lines(o.content[f]) \cup {line}
          BY <1>4, <4>1
        <5> QED
          BY <4>1, <5>1
      <4>2. CASE f \notin open
        BY <1>5, <4>2
      <4> QED
        BY <4>1, <4>2
    <3>2. {f \in 1 .. n : \E l \in Lines(c[f]) : l.task = task /\ l.id = id} =
            {f \in 1 .. n : \E l \in Lines(o.content[f]) : l.task = task /\ l.id = id}
              \cup (IF line.task = task /\ line.id = id THEN open ELSE {})
      BY <3>1
    <3> QED
      BY <1>2, <1>3, <1>6, <3>2 DEF Hit
  <2> QED
    BY <1>3, <2>1 DEF Places
<1>9. Warnings(p) = Warnings(o)
  BY <1>3 DEF Warnings
<1>10. Prints(p, o, line, open)
  BY <1>8 DEF Prints
<1> QED
  BY <1>7, <1>9, <1>10 DEF p


-----------------------------------------------------------------------------
(* What emit prints *)

\* The places that one write to a descriptor reaches.
Reached(d) == IF WhollyOpen(d) THEN Target(d) ELSE {}

\* p is o after one write of the line to d.
Written(p, o, d, line) ==
  /\ IsOut(p, opened)
  /\ Prints(p, o, line, Reached(d))
  /\ Warnings(p) = Warnings(o) + (IF WhollyOpen(d) THEN 0 ELSE 1)

LEMMA NotWritten ==
  ASSUME NEW o, IsOut(o, opened), NEW d, NEW line, ~WhollyOpen(d)
  PROVE  Written(ToStdout(o, Notice("warning")), o, d, line)
BY WarningLine DEF Written, Reached

LEMMA WrittenTo ==
  ASSUME NEW o, IsOut(o, opened), NEW d, NEW line, WhollyOpen(d),
         NEW p, IsOut(p, opened), Warnings(p) = Warnings(o), Prints(p, o, line, Target(d))
  PROVE  Written(p, o, d, line)
<1>1. Warnings(o) \in Nat
  BY StdoutLine
<1> QED
  BY <1>1 DEF Written, Reached

\* What is known of the tables while something is written.
LEMMA TablesOpen ==
  ASSUME FilesInv
  PROVE  /\ \A k \in DOMAIN files : files[k] \in 1 .. opened
         /\ \A c \in DOMAIN mcd_files : mcd_files[c] \in 1 .. opened
         /\ 0 \notin DOMAIN files /\ 1 \notin DOMAIN files /\ 2 \notin DOMAIN files
         /\ 0 \notin DOMAIN mcd_files
<1>1. /\ opened \in Nat /\ DOMAIN files \subseteq 3 .. 2 + opened
      /\ DOMAIN mcd_files \subseteq 1 .. LastChannel
  BY DEF FilesInv, Table
<1>2. /\ \A k \in DOMAIN files : files[k] \in 1 .. opened
      /\ \A c \in DOMAIN mcd_files : mcd_files[c] \in 1 .. opened
  BY DEF FilesInv, Table
<1> QED
  BY <1>1, <1>2, OutputAssumption

\* emit, for an fd: stdin, stdout, stderr, an open file or a closed one.
LEMMA EmitFd ==
  ASSUME FilesInv, NEW o, IsOut(o, opened), NEW d \in Descriptors, d.fd, d.chans = {},
         NEW line, line.task # "warning"
  PROVE  Written(Emit(o, d, line), o, d, line)
<1>1. d.num \in Nat /\ d = [fd |-> TRUE, num |-> d.num, chans |-> {}]
  BY DEF Descriptors
<1>2. /\ WhollyOpen(d) <=> d.num \in 0 .. 2 \/ d.num \in DOMAIN files
      /\ Target(d) = {files[k] : k \in {d.num} \cap DOMAIN files}
                       \cup (IF d.num = 1 THEN {0} ELSE {})
  <2>1. d = Fd(1) <=> d.num = 1
    BY <1>1 DEF Fd
  <2> QED
    BY <2>1 DEF WhollyOpen, output_target_is_open, Target, Denoted
<1>3. CASE d.num = 0
  <2>1. WhollyOpen(d) /\ Target(d) = {}
    BY <1>2, <1>3, TablesOpen
  <2>2. Emit(o, d, line) = o
    BY <1>3 DEF Emit
  <2> QED
    BY <2>1, <2>2, PrintsNothing, WrittenTo
<1>4. CASE d.num = 1
  <2>1. WhollyOpen(d) /\ Target(d) = {0}
    BY <1>2, <1>4, TablesOpen
  <2>2. Emit(o, d, line) = ToStdout(o, line)
    BY <1>4 DEF Emit
  <2>3. /\ IsOut(ToStdout(o, line), opened) /\ Warnings(ToStdout(o, line)) = Warnings(o)
        /\ Prints(ToStdout(o, line), o, line, {0})
    BY StdoutLine
  <2> QED
    BY <2>1, <2>2, <2>3, WrittenTo
<1>5. CASE d.num = 2
  <2> DEFINE p == [o EXCEPT !.stderr = Append(@, line)]
  <2>1. WhollyOpen(d) /\ Target(d) = {}
    BY <1>2, <1>5, TablesOpen
  <2>2. Emit(o, d, line) = p
    BY <1>5 DEF Emit
  <2>3. /\ p = [stdout |-> o.stdout, stderr |-> Append(o.stderr, line), content |-> o.content]
        /\ IsSeq(Append(o.stderr, line))
    <3>1. o = [stdout |-> o.stdout, stderr |-> o.stderr, content |-> o.content] /\ IsSeq(o.stderr)
      BY DEF IsOut
    <3> QED
      BY <3>1, AppendSeq
  <2> HIDE DEF p
  <2>4. /\ p.stdout = o.stdout /\ p.content = o.content /\ p.stderr = Append(o.stderr, line)
        /\ p = [stdout |-> p.stdout, stderr |-> p.stderr, content |-> p.content]
    BY <2>3
  <2>5. IsOut(p, opened)
    BY <2>3, <2>4 DEF IsOut
  <2>6. Prints(p, o, line, {})
    BY <2>4 DEF Prints, Places, Hit
  <2>7. Warnings(p) = Warnings(o)
    BY <2>4 DEF Warnings
  <2> QED
    BY <2>1, <2>2, <2>5, <2>6, <2>7, WrittenTo
<1>6. CASE d.num \notin 0 .. 2 /\ d.num \in DOMAIN files
  <2> DEFINE open == {files[d.num]}
  <2>1. WhollyOpen(d) /\ Target(d) = open
    BY <1>2, <1>6
  <2>2. Emit(o, d, line) = [o EXCEPT !.content[files[d.num]] = Append(@, line)]
    BY <1>6 DEF Emit
  <2>3. [o.content EXCEPT ![files[d.num]] = Append(@, line)] =
          [f \in DOMAIN o.content |-> IF f \in open THEN Append(o.content[f], line)
                                                    ELSE o.content[f]]
    BY <1>6, TablesOpen DEF IsOut, IsSeq
  <2>4. Emit(o, d, line) = WriteTo(o, open, line)
    BY <2>2, <2>3 DEF WriteTo
  <2>5. open \subseteq 1 .. opened
    BY <1>6, TablesOpen
  <2> HIDE DEF open
  <2>6. /\ IsOut(WriteTo(o, open, line), opened) /\ Warnings(WriteTo(o, open, line)) = Warnings(o)
        /\ Prints(WriteTo(o, open, line), o, line, open)
    BY <2>5, ContentLine
  <2> QED
    BY <2>1, <2>4, <2>6, WrittenTo
<1>7. CASE d.num \notin 0 .. 2 /\ d.num \notin DOMAIN files
  <2>1. ~WhollyOpen(d)
    BY <1>2, <1>7
  <2>2. Emit(o, d, line) = ToStdout(o, Notice("warning"))
    BY <1>7 DEF Emit
  <2> QED
    BY <2>1, <2>2, NotWritten
<1> QED
  BY <1>1, <1>3, <1>4, <1>5, <1>6, <1>7

\* emit, for a set of channels: all of them are open, or nothing is written.
LEMMA EmitMcd ==
  ASSUME FilesInv, NEW o, IsOut(o, opened), NEW d \in Descriptors, ~d.fd,
         NEW line, line.task # "warning"
  PROVE  Written(Emit(o, d, line), o, d, line)
<1>1. /\ WhollyOpen(d) <=> d.chans \ {0} \subseteq DOMAIN mcd_files
      /\ Target(d) = {mcd_files[c] : c \in d.chans \cap DOMAIN mcd_files}
                       \cup (IF 0 \in d.chans THEN {0} ELSE {})
  <2>1. d # Fd(1)
    BY DEF Fd
  <2> QED
    BY <2>1 DEF WhollyOpen, Target, Denoted
<1>2. CASE d.chans = {}
  <2>1. WhollyOpen(d) /\ Target(d) = {}
    BY <1>1, <1>2
  <2>2. Emit(o, d, line) = o
    BY <1>2 DEF Emit
  <2> QED
    BY <2>1, <2>2, PrintsNothing, WrittenTo
<1>3. CASE d.chans # {} /\ d.chans \ {0} \subseteq DOMAIN mcd_files
  <2> DEFINE open == {mcd_files[c] : c \in d.chans \ {0}}
             q == IF 0 \in d.chans THEN ToStdout(o, line) ELSE o
             first == IF 0 \in d.chans THEN {0} ELSE {}
  <2>1. WhollyOpen(d) /\ Target(d) = open \cup first
    <3>1. d.chans \cap DOMAIN mcd_files = d.chans \ {0}
      BY <1>3, TablesOpen
    <3> QED
      BY <1>1, <1>3, <3>1
  <2>2. Emit(o, d, line) = WriteTo(q, open, line)
    BY <1>3 DEF Emit, WriteTo
  <2>3. open \subseteq 1 .. opened
    BY <1>3, TablesOpen
  <2>4. IsOut(q, opened) /\ Warnings(q) = Warnings(o) /\ Prints(q, o, line, first)
    <3>1. CASE 0 \in d.chans
      <4>1. /\ IsOut(ToStdout(o, line), opened) /\ Warnings(ToStdout(o, line)) = Warnings(o)
            /\ Prints(ToStdout(o, line), o, line, {0})
        BY StdoutLine
      <4> QED
        BY <3>1, <4>1
    <3>2. CASE 0 \notin d.chans
      BY <3>2, PrintsNothing
    <3> QED
      BY <3>1, <3>2
  <2> HIDE DEF open, q, first
  <2>5. /\ IsOut(WriteTo(q, open, line), opened) /\ Warnings(WriteTo(q, open, line)) = Warnings(q)
        /\ Prints(WriteTo(q, open, line), q, line, open)
    <3>1. IsOut(q, opened)
      BY <2>4
    <3> QED
      BY <2>3, <3>1, ContentLine, ZenonT(40)
  <2>6. Prints(WriteTo(q, open, line), o, line, open \cup first)
    BY <2>4, <2>5, PrintsBoth
  <2> QED
    BY <2>1, <2>2, <2>4, <2>5, <2>6, WrittenTo
<1>4. CASE ~(d.chans \ {0} \subseteq DOMAIN mcd_files)
  <2>1. ~WhollyOpen(d) /\ d.chans # {}
    BY <1>1, <1>4
  <2>2. Emit(o, d, line) = ToStdout(o, Notice("warning"))
    BY <1>4, <2>1 DEF Emit
  <2> QED
    BY <2>1, <2>2, NotWritten
<1> QED
  BY <1>2, <1>3, <1>4

-----------------------------------------------------------------------------
(* The postponed region *)

\* What an entry of the strobe queue orders, and where it is to be printed.
TaskOf(e) == IF e.fd = NoFd THEN "strobe" ELSE "fstrobe"
Expected(e) == IF e.fd = NoFd THEN {0} ELSE Reached(fd_value[e.fd])

\* A warning may be printed for it: some of its descriptor is open.
MayWarn(e) ==
  /\ e.fd # NoFd
  /\ Denoted(fd_value[e.fd]) # {} \/ 0 \in fd_value[e.fd].chans

\* The output after one entry of the queue.
StrobeOut(o, e) ==
  IF e.fd = NoFd THEN ToStdout(o, LineOf("strobe", e.id, e.args))
                 ELSE Deferred(o, "fstrobe", e)

\* A line that waited for the postponed region is printed whole or not at all.
LEMMA DeferredLine ==
  ASSUME FilesInv, NEW o, IsOut(o, opened), NEW e, e.fd \in FdVars,
         NEW task, task # "warning"
  PROVE  /\ IsOut(Deferred(o, task, e), opened)
         /\ Prints(Deferred(o, task, e), o, LineOf(task, e.id, e.args), Reached(fd_value[e.fd]))
         /\ Warnings(o) \in Nat
         /\ Warnings(Deferred(o, task, e)) \in Nat
         /\ Warnings(Deferred(o, task, e)) <= Warnings(o) + 1
         /\ ~MayWarn(e) => Warnings(Deferred(o, task, e)) = Warnings(o)
<1> DEFINE d == fd_value[e.fd]
           line == LineOf(task, e.id, e.args)
<1>1. d \in Descriptors /\ (d.fd => d.chans = {}) /\ d.fd \in BOOLEAN
  BY DEF FilesInv, Descriptors
<1>2. line.task # "warning"
  BY DEF LineOf
<1>3. Warnings(o) \in Nat /\ e.fd # NoFd
  BY StdoutLine, OutputAssumption
<1>4. CASE output_target_is_open(d)
  <2>1. Deferred(o, task, e) = Emit(o, d, line)
    BY <1>4 DEF Deferred
  <2>2. Written(Emit(o, d, line), o, d, line)
    <3> HIDE DEF d, line
    <3>1. CASE d.fd
      BY <1>1, <1>2, <3>1, EmitFd
    <3>2. CASE ~d.fd
      BY <1>1, <1>2, <3>2, EmitMcd
    <3> QED
      BY <3>1, <3>2
  <2>3. ASSUME ~WhollyOpen(d)
        PROVE  Denoted(d) # {} \/ 0 \in d.chans
    BY <1>4, <2>3 DEF WhollyOpen, output_target_is_open, Denoted
  <2> HIDE DEF d, line
  <2> QED
    BY <1>3, <2>1, <2>2, <2>3 DEF Written, MayWarn, d, line
<1>5. CASE ~output_target_is_open(d)
  <2>1. Deferred(o, task, e) = o
    BY <1>5 DEF Deferred
  <2>2. Reached(d) = {}
    <3>1. CASE d.fd
      BY <1>5, <3>1 DEF Reached, WhollyOpen
    <3>2. CASE ~d.fd
      <4>1. 0 \notin d.chans /\ d.chans \cap DOMAIN mcd_files = {}
        BY <1>5, <3>2 DEF output_target_is_open
      <4>2. d # Fd(1)
        BY <3>2 DEF Fd
      <4>3. Target(d) = {}
        BY <3>2, <4>1, <4>2 DEF Target, Denoted
      <4> QED
        BY <4>3 DEF Reached
    <3> QED
      BY <1>1, <3>1, <3>2
  <2> QED
    BY <1>3, <2>1, <2>2, PrintsNothing
<1> QED
  BY <1>4, <1>5

\* The same for an entry of the queue, $strobe or $fstrobe.
LEMMA StrobeLine ==
  ASSUME FilesInv, NEW o, IsOut(o, opened), NEW e, e.fd \in FdVars \cup {NoFd}
  PROVE  /\ IsOut(StrobeOut(o, e), opened)
         /\ Prints(StrobeOut(o, e), o, LineOf(TaskOf(e), e.id, e.args), Expected(e))
         /\ Warnings(o) \in Nat
         /\ Warnings(StrobeOut(o, e)) \in Nat
         /\ Warnings(StrobeOut(o, e)) <= Warnings(o) + 1
         /\ ~MayWarn(e) => Warnings(StrobeOut(o, e)) = Warnings(o)
<1>1. CASE e.fd = NoFd
  <2> DEFINE line == LineOf("strobe", e.id, e.args)
  <2>1. StrobeOut(o, e) = ToStdout(o, line) /\ LineOf(TaskOf(e), e.id, e.args) = line
        /\ Expected(e) = {0}
    BY <1>1 DEF StrobeOut, TaskOf, Expected
  <2>2. line.task # "warning"
    BY DEF LineOf
  <2> HIDE DEF line
  <2>3. /\ IsOut(ToStdout(o, line), opened) /\ Prints(ToStdout(o, line), o, line, {0})
        /\ Warnings(o) \in Nat /\ Warnings(ToStdout(o, line)) = Warnings(o)
    BY <2>2, StdoutLine
  <2> QED
    BY <2>1, <2>3
<1>2. CASE e.fd # NoFd
  <2>1. StrobeOut(o, e) = Deferred(o, "fstrobe", e) /\ TaskOf(e) = "fstrobe"
        /\ Expected(e) = Reached(fd_value[e.fd])
    BY <1>2 DEF StrobeOut, TaskOf, Expected
  <2>2. "fstrobe" # "warning" /\ e.fd \in FdVars
    BY <1>2
  <2> QED
    BY <2>1, <2>2, DeferredLine
<1> QED
  BY <1>1, <1>2

\* flush_strobe is a loop over the queue.
LEMMA StrobeLoop ==
  ASSUME NEW o, Len(strobe_queue) \in Nat
  PROVE  \E F : /\ F[0] = o
                /\ \A i \in 1 .. Len(strobe_queue) : F[i] = StrobeOut(F[i - 1], strobe_queue[i])
                /\ flush_strobe(o) = F[Len(strobe_queue)]
<1> DEFINE n == Len(strobe_queue)
           IsLoop(g, k) == g = [i \in 0 .. k |-> IF i = 0 THEN o
                                               ELSE StrobeOut(g[i - 1], strobe_queue[i])]
           S == {k \in Nat : \E g : IsLoop(g, k)}
<1>1. 0 \in S
  <2> DEFINE g == [i \in 0 .. 0 |-> o]
  <2>1. IsLoop(g, 0)
    BY \A i \in 0 .. 0 : i = 0
  <2> QED
    BY <2>1
<1>2. ASSUME NEW k \in S
      PROVE  k + 1 \in S
  <2>1. PICK g : IsLoop(g, k)
    OBVIOUS
  <2> DEFINE h == [i \in 0 .. k + 1 |-> IF i = k + 1 THEN StrobeOut(g[k], strobe_queue[k + 1])
                                                    ELSE g[i]]
  <2>2. ASSUME NEW i \in 0 .. k + 1
        PROVE  h[i] = IF i = 0 THEN o ELSE StrobeOut(h[i - 1], strobe_queue[i])
    <3>1. CASE i = k + 1
      <4>1. i # 0 /\ i - 1 = k /\ k \in 0 .. k + 1 /\ k # k + 1
        BY <3>1
      <4> QED
        BY <3>1, <4>1
    <3>2. CASE i \in 0 .. k /\ i # 0
      <4>1. i - 1 \in 0 .. k + 1 /\ i - 1 # k + 1 /\ i # k + 1
        BY <3>2
      <4>2. g[i] = StrobeOut(g[i - 1], strobe_queue[i])
        BY <2>1, <3>2
      <4> QED
        BY <3>2, <4>1, <4>2
    <3>3. CASE i = 0
      <4>1. g[0] = o /\ 0 # k + 1
        BY <2>1
      <4> QED
        BY <3>3, <4>1
    <3> QED
      BY <3>1, <3>2, <3>3
  <2>3. IsLoop(h, k + 1)
    BY <2>2
  <2>4. k + 1 \in Nat
    OBVIOUS
  <2> HIDE DEF h, IsLoop
  <2> QED
    BY <2>3, <2>4
<1>3. S = Nat
  <2>1. S \in SUBSET Nat
    OBVIOUS
  <2> HIDE DEF S
  <2> QED
    BY <1>1, <1>2, <2>1, Induction
<1>4. \E g : IsLoop(g, n)
  BY <1>3
<1> DEFINE F == CHOOSE g : IsLoop(g, n)
<1>5. IsLoop(F, n)
  <2> HIDE DEF IsLoop
  <2> QED
    BY <1>4
<1>6. flush_strobe(o) = F[n]
  BY DEF flush_strobe, StrobeOut
<1>7. F[0] = o /\ \A i \in 1 .. n : F[i] = StrobeOut(F[i - 1], strobe_queue[i])
  <2> HIDE DEF F
  <2>1. \A i \in 0 .. n : F[i] = IF i = 0 THEN o ELSE StrobeOut(F[i - 1], strobe_queue[i])
    BY <1>5
  <2>2. 0 \in 0 .. n /\ \A i \in 1 .. n : i \in 0 .. n /\ i # 0
    OBVIOUS
  <2> QED
    BY <2>1, <2>2
<1> HIDE DEF F
<1> QED
  BY <1>6, <1>7

\* No line of a $strobe or $fstrobe with this id is there yet.
Fresh(o, id) == Places(o, "strobe", id) = {} /\ Places(o, "fstrobe", id) = {}

LEMMA FreshKept ==
  ASSUME NEW o, NEW p, NEW line, NEW S, NEW id, Prints(p, o, line, S), Fresh(o, id),
         line.id # id \/ line.task \notin {"strobe", "fstrobe"}
  PROVE  Fresh(p, id)
BY DEF Prints, Fresh, Hit

Entries == [fd : FdVars \cup {NoFd}, args : ArgLists, id : Nat]

\* Entries of the queue have ids of their own, given before, and none of their
\* lines is printed; nor is a line of an id that is yet to be given.
QueueInv ==
  /\ calls \in Nat
  /\ IsOut(out, opened)
  /\ strobe_queue \in Seq(Entries)
  /\ \A i \in 1 .. Len(strobe_queue) : strobe_queue[i].id <= calls
  /\ \A i, j \in 1 .. Len(strobe_queue) : i # j => strobe_queue[i].id # strobe_queue[j].id
  /\ \A i \in 1 .. Len(strobe_queue) : Fresh(out, strobe_queue[i].id)
  /\ \A id \in Nat : id > calls => Fresh(out, id)
  /\ fmonitor_args # <<>> => fmonitor_args[1].fd \in FdVars

LEMMA QueueTyped ==
  ASSUME QueueInv
  PROVE  /\ Len(strobe_queue) \in Nat
         /\ \A i \in 1 .. Len(strobe_queue) : strobe_queue[i] \in Entries
<1> SUFFICES strobe_queue \in Seq(Entries)
  OBVIOUS
<1> QED
  BY DEF QueueInv

\* The entries up to k that a warning may be printed for.
Warned(k) == {i \in 1 .. k : MayWarn(strobe_queue[i])}

LEMMA WarnedGrows ==
  ASSUME NEW k \in Nat
  PROVE  /\ Cardinality(Warned(k)) \in Nat
         /\ Cardinality(Warned(0)) = 0
         /\ MayWarn(strobe_queue[k + 1]) =>
              Cardinality(Warned(k + 1)) = Cardinality(Warned(k)) + 1
         /\ ~MayWarn(strobe_queue[k + 1]) => Cardinality(Warned(k + 1)) = Cardinality(Warned(k))
<1>1. IsFiniteSet(Warned(k))
  <2>1. IsFiniteSet(1 .. k)
    BY FS_Interval
  <2>2. Warned(k) \subseteq 1 .. k
    BY DEF Warned
  <2> QED
    BY <2>1, <2>2, FS_Subset
<1>2. Warned(0) = {}
  BY DEF Warned
<1>3. 1 .. k + 1 = (1 .. k) \cup {k + 1} /\ k + 1 \notin 1 .. k
  OBVIOUS
<1>4. k + 1 \notin Warned(k)
  BY <1>3 DEF Warned
<1>5. CASE MayWarn(strobe_queue[k + 1])
  <2>1. Warned(k + 1) = Warned(k) \cup {k + 1}
    BY <1>3, <1>5 DEF Warned
  <2>2. Cardinality(Warned(k) \cup {k + 1}) = Cardinality(Warned(k)) + 1
    BY <1>1, <1>4, FS_AddElement
  <2> QED
    BY <1>1, <1>2, <1>5, <2>1, <2>2, FS_CardinalityType, FS_EmptySet
<1>6. CASE ~MayWarn(strobe_queue[k + 1])
  <2>1. Warned(k + 1) = Warned(k)
    BY <1>3, <1>6 DEF Warned
  <2> QED
    BY <1>1, <1>2, <1>6, <2>1, FS_CardinalityType, FS_EmptySet
<1> QED
  BY <1>5, <1>6

\* p is o after the first k entries of the queue.
Flushed(o, p, k) ==
  /\ IsOut(p, opened)
  /\ \A i \in 1 .. Len(strobe_queue) :
       Places(p, TaskOf(strobe_queue[i]), strobe_queue[i].id)
         = IF i <= k THEN Expected(strobe_queue[i]) ELSE {}
  /\ \A i \in 1 .. Len(strobe_queue) : k < i => Fresh(p, strobe_queue[i].id)
  /\ \A id \in Nat : id > calls => Fresh(p, id)
  /\ Warnings(o) \in Nat /\ Warnings(p) \in Nat
  /\ Warnings(p) <= Warnings(o) + Cardinality(Warned(k))

LEMMA FlushStart ==
  ASSUME QueueInv, NEW o, IsOut(o, opened), \A id : Fresh(out, id) => Fresh(o, id)
  PROVE  Flushed(o, o, 0)
<1>1. Warnings(o) \in Nat
  BY StdoutLine
<1>2. Cardinality(Warned(0)) = 0
  BY WarnedGrows
<1>3. ASSUME NEW i \in 1 .. Len(strobe_queue)
      PROVE  /\ Fresh(o, strobe_queue[i].id)
             /\ Places(o, TaskOf(strobe_queue[i]), strobe_queue[i].id)
                  = IF i <= 0 THEN Expected(strobe_queue[i]) ELSE {}
  <2>1. Fresh(o, strobe_queue[i].id)
    BY DEF QueueInv
  <2>2. ~(i <= 0)
    BY QueueTyped
  <2> QED
    BY <2>1, <2>2 DEF Fresh, TaskOf
<1>4. \A id \in Nat : id > calls => Fresh(o, id)
  BY DEF QueueInv
<1>5. Warnings(o) <= Warnings(o) + Cardinality(Warned(0))
  BY <1>1, <1>2
<1> QED
  BY <1>1, <1>3, <1>4, <1>5 DEF Flushed

LEMMA FlushEntry ==
  ASSUME FilesInv, QueueInv, NEW o, NEW p, NEW k \in Nat, k + 1 <= Len(strobe_queue),
         Flushed(o, p, k)
  PROVE  Flushed(o, StrobeOut(p, strobe_queue[k + 1]), k + 1)
<1> DEFINE q == strobe_queue
           n == Len(strobe_queue)
           e == strobe_queue[k + 1]
           line == LineOf(TaskOf(e), e.id, e.args)
           r == StrobeOut(p, e)
<1>1. n \in Nat /\ k + 1 \in 1 .. n
  BY QueueTyped
<1>2. e.fd \in FdVars \cup {NoFd} /\ e.id \in Nat /\ e.id <= calls /\ calls \in Nat
  <2>1. e \in Entries
    BY <1>1, QueueTyped
  <2>2. e.id <= calls /\ calls \in Nat
    BY <1>1 DEF QueueInv
  <2> QED
    BY <2>1, <2>2 DEF Entries
<1>3. line.task = TaskOf(e) /\ line.id = e.id
  BY DEF LineOf
<1>4. \A x : TaskOf(x) \in {"strobe", "fstrobe"}
  BY DEF TaskOf
<1>5. IsOut(p, opened)
  BY DEF Flushed
<1>6. /\ Warnings(o) \in Nat
      /\ Warnings(p) <= Warnings(o) + Cardinality(Warned(k))
      /\ \A i \in 1 .. n : Places(p, TaskOf(q[i]), q[i].id) = IF i <= k THEN Expected(q[i]) ELSE {}
      /\ \A i \in 1 .. n : k < i => Fresh(p, q[i].id)
      /\ \A id \in Nat : id > calls => Fresh(p, id)
  BY DEF Flushed
<1>7. \A i, j \in 1 .. n : i # j => q[i].id # q[j].id
  BY DEF QueueInv
<1> HIDE DEF line, e, r, n, q
<1>8. /\ IsOut(r, opened)
      /\ Prints(r, p, line, Expected(e))
      /\ Warnings(p) \in Nat
      /\ Warnings(r) \in Nat
      /\ Warnings(r) <= Warnings(p) + 1
      /\ ~MayWarn(e) => Warnings(r) = Warnings(p)
  BY <1>2, <1>5, StrobeLine DEF line, r
<1>9. ASSUME NEW i \in 1 .. n
      PROVE  Places(r, TaskOf(q[i]), q[i].id) = IF i <= k + 1 THEN Expected(q[i]) ELSE {}
  <2>1. TaskOf(q[i]) # "warning"
    BY <1>4
  <2>2. Places(r, TaskOf(q[i]), q[i].id) =
          Places(p, TaskOf(q[i]), q[i].id)
            \cup Hit(line, TaskOf(q[i]), q[i].id, Expected(e))
    BY <1>8, <2>1 DEF Prints
  <2>3. Places(p, TaskOf(q[i]), q[i].id) = IF i <= k THEN Expected(q[i]) ELSE {}
    BY <1>6
  <2>4. CASE i = k + 1
    <3>1. q[i] = e /\ ~(i <= k) /\ i <= k + 1
      BY <2>4 DEF e, q
    <3>2. Hit(line, TaskOf(q[i]), q[i].id, Expected(e)) = Expected(e)
      BY <1>3, <3>1 DEF Hit
    <3> QED
      BY <2>2, <2>3, <3>1, <3>2
  <2>5. CASE i # k + 1
    <3>1. q[i].id # e.id
      BY <1>1, <1>7, <2>5 DEF e, q
    <3>2. Hit(line, TaskOf(q[i]), q[i].id, Expected(e)) = {}
      BY <1>3, <3>1 DEF Hit
    <3>3. i <= k <=> i <= k + 1
      BY <1>1, <2>5
    <3> QED
      BY <2>2, <2>3, <3>2, <3>3
  <2> QED
    BY <2>4, <2>5
<1>10. ASSUME NEW i \in 1 .. n, k + 1 < i
       PROVE  Fresh(r, q[i].id)
  <2>1. k < i /\ i # k + 1
    BY <1>1, <1>10
  <2>2. Fresh(p, q[i].id) /\ q[i].id # e.id
    BY <1>1, <1>6, <1>7, <2>1 DEF e, q
  <2> QED
    BY <1>3, <1>8, <2>2, FreshKept
<1>11. ASSUME NEW id \in Nat, id > calls
       PROVE  Fresh(r, id)
  <2>1. Fresh(p, id)
    BY <1>6, <1>11
  <2>2. id # e.id
    BY <1>2, <1>11
  <2> QED
    BY <1>3, <1>8, <2>1, <2>2, FreshKept
<1>12. Warnings(r) <= Warnings(o) + Cardinality(Warned(k + 1))
  <2>1. /\ Cardinality(Warned(k)) \in Nat
        /\ MayWarn(e) => Cardinality(Warned(k + 1)) = Cardinality(Warned(k)) + 1
        /\ ~MayWarn(e) => Cardinality(Warned(k + 1)) = Cardinality(Warned(k))
    BY WarnedGrows DEF e
  <2> QED
    BY <1>6, <1>8, <2>1
<1> QED
  BY <1>6, <1>8, <1>9, <1>10, <1>11, <1>12 DEF Flushed, r, e, n, q

\* The queue is printed: every entry where it is to be printed, nothing else.
LEMMA FlushStrobe ==
  ASSUME FilesInv, QueueInv, NEW o, IsOut(o, opened),
         \A id : Fresh(out, id) => Fresh(o, id)
  PROVE  Flushed(o, flush_strobe(o), Len(strobe_queue))
<1> DEFINE n == Len(strobe_queue)
<1>1. n \in Nat
  BY QueueTyped
<1>2. PICK F : /\ F[0] = o
               /\ \A i \in 1 .. n : F[i] = StrobeOut(F[i - 1], strobe_queue[i])
               /\ flush_strobe(o) = F[n]
  BY <1>1, StrobeLoop
<1> DEFINE S == {k \in Nat : k <= n => Flushed(o, F[k], k)}
<1>3. 0 \in S
  BY <1>2, FlushStart
<1>4. ASSUME NEW k \in S
      PROVE  k + 1 \in S
  <2>1. k \in Nat /\ k + 1 \in Nat
    OBVIOUS
  <2>2. ASSUME k + 1 <= n
        PROVE  Flushed(o, F[k + 1], k + 1)
    <3>1. k <= n /\ k + 1 \in 1 .. n /\ (k + 1) - 1 = k
      BY <1>1, <2>1, <2>2
    <3>2. Flushed(o, F[k], k)
      BY <3>1
    <3>3. F[k + 1] = StrobeOut(F[k], strobe_queue[k + 1])
      BY <1>2, <3>1
    <3> QED
      BY <2>1, <2>2, <3>2, <3>3, FlushEntry
  <2> QED
    BY <2>1, <2>2
<1>5. n \in S
  <2>1. S \in SUBSET Nat
    OBVIOUS
  <2> HIDE DEF S
  <2>2. S = Nat
    BY <1>3, <1>4, <2>1, Induction
  <2> QED
    BY <1>1, <2>2
<1> QED
  BY <1>1, <1>2, <1>5

-----------------------------------------------------------------------------
(* The queue from step to step *)

\* One write to a descriptor the program holds.
LEMMA EmitLine ==
  ASSUME FilesInv, NEW o, IsOut(o, opened), NEW v \in FdVars, NEW line, line.task # "warning"
  PROVE  Written(Emit(o, fd_value[v], line), o, fd_value[v], line)
<1> DEFINE d == fd_value[v]
<1>1. d \in Descriptors /\ (d.fd => d.chans = {}) /\ d.fd \in BOOLEAN
  BY DEF FilesInv, Descriptors
<1> HIDE DEF d
<1>2. d.fd => Written(Emit(o, d, line), o, d, line)
  BY <1>1, EmitFd
<1>3. ~d.fd => Written(Emit(o, d, line), o, d, line)
  BY <1>1, EmitMcd
<1>4. Written(Emit(o, d, line), o, d, line)
  BY <1>2, <1>3
<1> QED
  BY <1>4 DEF d

\* flush_monitor prints no $strobe, and it warns once at most, for $fmonitor.
LEMMA FlushMonitor ==
  ASSUME FilesInv, QueueInv
  PROVE  /\ IsOut(flush_monitor(out), opened)
         /\ \A id : Fresh(out, id) => Fresh(flush_monitor(out), id)
         /\ Warnings(out) \in Nat /\ Warnings(flush_monitor(out)) \in Nat
         /\ Warnings(flush_monitor(out)) <=
              Warnings(out) + (IF fmonitor_args # <<>> THEN 1 ELSE 0)
<1> DEFINE m == MonitorOut(out)
           p == FMonitorOut(m)
<1>1. IsOut(out, opened) /\ (fmonitor_args # <<>> => fmonitor_args[1].fd \in FdVars)
  BY DEF QueueInv
<1>2. Warnings(out) \in Nat
  BY <1>1, StdoutLine
<1>3. /\ IsOut(m, opened)
      /\ \A id : Fresh(out, id) => Fresh(m, id)
      /\ Warnings(m) = Warnings(out)
  <2>1. CASE MonitorDue
    <3> DEFINE line == LineOf("monitor", monitor_call, monitor_args[1])
    <3>1. line.task = "monitor"
      BY DEF LineOf
    <3>2. m = ToStdout(out, line)
      BY <2>1 DEF MonitorOut
    <3> HIDE DEF line, m
    <3>3. /\ IsOut(m, opened) /\ Prints(m, out, line, {0}) /\ Warnings(m) = Warnings(out)
      BY <1>1, <1>2, <3>1, <3>2, StdoutLine
    <3> QED
      BY <3>1, <3>3, FreshKept
  <2>2. CASE ~MonitorDue
    BY <1>1, <2>2 DEF MonitorOut
  <2> QED
    BY <2>1, <2>2
<1> HIDE DEF m
<1>4. /\ IsOut(p, opened)
      /\ \A id : Fresh(m, id) => Fresh(p, id)
      /\ Warnings(p) \in Nat
      /\ Warnings(p) <= Warnings(m) + (IF fmonitor_args # <<>> THEN 1 ELSE 0)
  <2>1. CASE FMonitorDue
    <3> DEFINE e == fmonitor_args[1]
               line == LineOf("fmonitor", e.id, e.args)
    <3>1. line.task = "fmonitor" /\ "fmonitor" # "warning"
      BY DEF LineOf
    <3>2. p = Deferred(m, "fmonitor", e)
      BY <2>1 DEF FMonitorOut
    <3>3. fmonitor_args # <<>> /\ e.fd \in FdVars
      BY <1>1, <2>1 DEF FMonitorDue
    <3> HIDE DEF line, e, p
    <3>4. /\ IsOut(p, opened)
          /\ Prints(p, m, LineOf("fmonitor", e.id, e.args), Reached(fd_value[e.fd]))
          /\ Warnings(p) \in Nat
          /\ Warnings(p) <= Warnings(m) + 1
      BY <1>3, <3>1, <3>2, <3>3, DeferredLine
    <3>5. Prints(p, m, line, Reached(fd_value[e.fd]))
      BY <3>4 DEF line
    <3>6. \A id : Fresh(m, id) => Fresh(p, id)
      BY <3>1, <3>5, FreshKept
    <3> QED
      BY <3>3, <3>4, <3>6
  <2>2. CASE ~FMonitorDue
    BY <1>2, <1>3, <2>2 DEF FMonitorOut
  <2> QED
    BY <2>1, <2>2
<1>5. CASE monitor_enabled
  <2>1. flush_monitor(out) = p
    BY <1>5 DEF flush_monitor, m
  <2> HIDE DEF p
  <2> QED
    BY <1>2, <1>3, <1>4, <2>1
<1>6. CASE ~monitor_enabled
  BY <1>1, <1>2, <1>6 DEF flush_monitor
<1> QED
  BY <1>5, <1>6

\* A file that was opened holds no line yet.
LEMMA NewFile ==
  ASSUME NEW n \in Nat, NEW o, IsOut(o, n)
  PROVE  /\ IsOut([o EXCEPT !.content = Append(@, <<>>)], n + 1)
         /\ \A id : Fresh(o, id) => Fresh([o EXCEPT !.content = Append(@, <<>>)], id)
<1> DEFINE c == Append(o.content, <<>>)
           p == [o EXCEPT !.content = Append(@, <<>>)]
<1>1. p = [stdout |-> o.stdout, stderr |-> o.stderr, content |-> c]
  BY DEF IsOut
<1>2. /\ IsSeq(o.stdout) /\ IsSeq(o.stderr) /\ IsSeq(o.content) /\ Len(o.content) = n
      /\ \A f \in 1 .. n : IsSeq(o.content[f])
  BY DEF IsOut
<1>3. /\ IsSeq(c) /\ Len(c) = n + 1
      /\ DOMAIN o.content = 1 .. n /\ DOMAIN c = 1 .. n + 1
      /\ \A f \in 1 .. n : c[f] = o.content[f]
      /\ c[n + 1] = <<>>
  BY <1>2, AppendSeq
<1>4. IsSeq(<<>>) /\ Lines(<<>>) = {}
  BY DEF IsSeq, Lines
<1> HIDE DEF c, p
<1>5. \A f \in 1 .. n + 1 : IsSeq(c[f])
  <2>1. \A f \in 1 .. n + 1 : f = n + 1 \/ f \in 1 .. n
    OBVIOUS
  <2> QED
    BY <1>2, <1>3, <1>4, <2>1
<1>6. IsOut(p, n + 1)
  BY <1>1, <1>2, <1>3, <1>5 DEF IsOut
<1>7. ASSUME NEW task, NEW id
      PROVE  Places(p, task, id) = Places(o, task, id)
  <2>1. \A f \in 1 .. n + 1 : f = n + 1 \/ f \in 1 .. n
    OBVIOUS
  <2>2. \A f \in 1 .. n : f \in 1 .. n + 1
    OBVIOUS
  <2>3. {f \in 1 .. n + 1 : \E l \in Lines(c[f]) : l.task = task /\ l.id = id}
          = {f \in 1 .. n : \E l \in Lines(o.content[f]) : l.task = task /\ l.id = id}
    BY <1>3, <1>4, <2>1, <2>2
  <2> QED
    BY <1>1, <1>3, <2>3 DEF Places
<1> QED
  BY <1>6, <1>7 DEF Fresh, p

\* A step that leaves the queue alone and prints no line of a $strobe.
LEMMA QueueKept ==
  ASSUME QueueInv, calls' \in {calls, calls + 1}, strobe_queue' = strobe_queue,
         fmonitor_args' # <<>> => fmonitor_args'[1].fd \in FdVars,
         IsOut(out', opened'), \A id : Fresh(out, id) => Fresh(out', id)
  PROVE  QueueInv'
<1>1. Len(strobe_queue) \in Nat /\ calls \in Nat /\ calls' \in Nat /\ calls <= calls'
  BY QueueTyped DEF QueueInv
<1>2. strobe_queue \in Seq(Entries)
  BY DEF QueueInv
<1>3. \A i \in 1 .. Len(strobe_queue) : strobe_queue[i].id \in Nat
  BY QueueTyped DEF Entries
<1>4. \A i \in 1 .. Len(strobe_queue) :
        strobe_queue[i].id <= calls' /\ Fresh(out', strobe_queue[i].id)
  BY <1>1, <1>3 DEF QueueInv
<1>5. \A i, j \in 1 .. Len(strobe_queue) : i # j => strobe_queue[i].id # strobe_queue[j].id
  BY DEF QueueInv
<1>6. ASSUME NEW id \in Nat, id > calls'
      PROVE  Fresh(out', id)
  <2>1. id > calls
    BY <1>1, <1>6
  <2> QED
    BY <2>1 DEF QueueInv
<1> HIDE DEF Entries, Fresh, IsOut
<1> QED
  BY <1>1, <1>2, <1>4, <1>5, <1>6 DEF QueueInv

\* A step that empties the queue.
LEMMA QueueEmptied ==
  ASSUME QueueInv, calls' = calls, strobe_queue' = <<>>, fmonitor_args' = fmonitor_args,
         IsOut(out', opened'), \A id \in Nat : id > calls => Fresh(out', id)
  PROVE  QueueInv'
BY DEF QueueInv

LEMMA QueueInvInit ==
  Init => QueueInv
<1> SUFFICES ASSUME Init
             PROVE  QueueInv
  OBVIOUS
<1>1. /\ calls = 0 /\ strobe_queue = <<>> /\ fmonitor_args = <<>> /\ opened = 0
      /\ out = [stdout |-> <<>>, stderr |-> <<>>, content |-> <<>>]
  BY DEF Init
<1>2. IsSeq(<<>>) /\ Lines(<<>>) = {}
  BY DEF IsSeq, Lines
<1>3. IsOut(out, 0)
  BY <1>1, <1>2 DEF IsOut
<1>4. \A id : Fresh(out, id)
  BY <1>1, <1>2 DEF Fresh, Places
<1> HIDE DEF IsOut, Fresh
<1> QED
  BY <1>1, <1>3, <1>4 DEF QueueInv

\* The steps of a process that print a line, or none.
LEMMA QueueInvLines ==
  ASSUME FilesInv, QueueInv, UNCHANGED <<strobe_queue, fmonitor_args, opened>>,
         calls' \in {calls, calls + 1},
         \/ out' = out
         \/ \E line : /\ out' = ToStdout(out, line)
                      /\ line.task \notin {"strobe", "fstrobe"}
         \/ \E v \in FdVars : \E line :
              /\ out' = Emit(out, fd_value[v], line)
              /\ line.task \notin {"strobe", "fstrobe", "warning"}
  PROVE  QueueInv'
<1>1. IsOut(out, opened) /\ (fmonitor_args # <<>> => fmonitor_args[1].fd \in FdVars)
  BY DEF QueueInv
<1>2. CASE out' = out
  BY <1>1, <1>2, QueueKept
<1>3. ASSUME NEW line, out' = ToStdout(out, line), line.task \notin {"strobe", "fstrobe"}
      PROVE  QueueInv'
  <2>1. IsOut(out', opened) /\ Prints(out', out, line, {0})
    BY <1>1, <1>3, StdoutLine
  <2>2. \A id : Fresh(out, id) => Fresh(out', id)
    BY <1>3, <2>1, FreshKept
  <2> QED
    BY <1>1, <2>1, <2>2, QueueKept
<1>4. ASSUME NEW v \in FdVars, NEW line, out' = Emit(out, fd_value[v], line),
             line.task \notin {"strobe", "fstrobe", "warning"}
      PROVE  QueueInv'
  <2>1. Written(out', out, fd_value[v], line)
    BY <1>1, <1>4, EmitLine
  <2>2. IsOut(out', opened) /\ Prints(out', out, line, Reached(fd_value[v]))
    BY <2>1 DEF Written
  <2>3. \A id : Fresh(out, id) => Fresh(out', id)
    BY <1>4, <2>2, FreshKept
  <2> QED
    BY <1>1, <2>2, <2>3, QueueKept
<1> QED
  BY <1>2, <1>3, <1>4

\* A file that is opened.
LEMMA QueueInvOpens ==
  ASSUME FilesInv, QueueInv, UNCHANGED <<strobe_queue, fmonitor_args>>, calls' = calls + 1,
         opened' = opened + 1, out' = [out EXCEPT !.content = Append(@, <<>>)]
  PROVE  QueueInv'
<1>1. IsOut(out, opened) /\ (fmonitor_args # <<>> => fmonitor_args[1].fd \in FdVars)
  BY DEF QueueInv
<1>2. opened \in Nat
  BY DEF FilesInv
<1>3. IsOut(out', opened') /\ \A id : Fresh(out, id) => Fresh(out', id)
  BY <1>1, <1>2, NewFile
<1> QED
  BY <1>1, <1>3, QueueKept

\* An entry is added, under an id that no line has yet.
LEMMA QueueInvStrobe ==
  ASSUME QueueInv, NEW v \in FdVars \cup {NoFd}, NEW args \in ArgLists, Strobe(v, args)
  PROVE  QueueInv'
<1> DEFINE e == [fd |-> v, args |-> args, id |-> calls + 1]
           n == Len(strobe_queue)
           r == Append(strobe_queue, e)
<1>1. /\ calls \in Nat /\ calls' = calls + 1
      /\ strobe_queue' = r
      /\ UNCHANGED <<out, opened, fmonitor_args>>
  BY DEF QueueInv, Strobe, Called, fileVars, monitorVars
<1>2. e \in Entries /\ e.id = calls + 1
  BY <1>1 DEF Entries
<1>3. n \in Nat /\ strobe_queue \in Seq(Entries)
  BY QueueTyped DEF QueueInv
<1>4. \A i \in 1 .. n : strobe_queue[i].id \in Nat
  BY QueueTyped DEF Entries
<1> HIDE DEF e
<1>5. /\ r \in Seq(Entries) /\ Len(r) = n + 1
      /\ \A i \in 1 .. n : r[i] = strobe_queue[i]
      /\ r[n + 1] = e
  BY <1>2, <1>3
<1> HIDE DEF n, r, Entries, Fresh, IsOut
<1>6. /\ \A i \in 1 .. n : strobe_queue[i].id <= calls
      /\ \A i, j \in 1 .. n : i # j => strobe_queue[i].id # strobe_queue[j].id
      /\ \A i \in 1 .. n : Fresh(out, strobe_queue[i].id)
      /\ \A id \in Nat : id > calls => Fresh(out, id)
      /\ IsOut(out, opened)
      /\ fmonitor_args # <<>> => fmonitor_args[1].fd \in FdVars
  BY DEF QueueInv, n
<1>7. \A i \in 1 .. n + 1 : i = n + 1 \/ i \in 1 .. n
  BY <1>3
<1>8. \A i \in 1 .. n + 1 : r[i].id <= calls + 1 /\ Fresh(out, r[i].id)
  BY <1>1, <1>2, <1>4, <1>5, <1>6, <1>7
<1>9. ASSUME NEW i \in 1 .. n + 1, NEW j \in 1 .. n + 1, i # j
      PROVE  r[i].id # r[j].id
  BY <1>1, <1>2, <1>4, <1>5, <1>6, <1>7, <1>9
<1>10. \A id \in Nat : id > calls + 1 => Fresh(out, id)
  BY <1>1, <1>6
<1>11. calls + 1 \in Nat
  BY <1>1
<1> QED
  BY <1>1, <1>5, <1>6, <1>8, <1>9, <1>10, <1>11 DEF QueueInv

\* What the postponed region does to the queue and the output.
LEMMA QueueFlushed ==
  ASSUME FilesInv, QueueInv, Postponed \/ StopAfterFinish
  PROVE  \E o : /\ Flushed(o, out', Len(strobe_queue))
                /\ Warnings(out) \in Nat
                /\ Warnings(o) <= Warnings(out) + (IF fmonitor_args # <<>> THEN 1 ELSE 0)
<1>1. IsOut(out, opened)
  BY DEF QueueInv
<1>2. Warnings(out) \in Nat
  BY <1>1, StdoutLine
<1>3. CASE Postponed
  <2>1. out' = flush_strobe(flush_monitor(out))
    BY <1>3 DEF Postponed
  <2> QED
    BY <2>1, FlushMonitor, FlushStrobe
<1>4. CASE StopAfterFinish
  <2>1. out' = flush_strobe(out)
    BY <1>4 DEF StopAfterFinish
  <2>2. Flushed(out, out', Len(strobe_queue))
    BY <1>1, <2>1, FlushStrobe
  <2> QED
    BY <1>2, <2>2
<1> QED
  BY <1>3, <1>4

LEMMA QueueInvNext ==
  ASSUME FilesInv, QueueInv, [Next]_vars
  PROVE  QueueInv'
<1> USE DEF Called, fileVars, monitorVars, runVars
<1>1. CASE UNCHANGED vars
  BY <1>1, QueueInvLines DEF vars
<1>2. ASSUME NEW created \in BOOLEAN, Begin(created) \/ DumpVars(created)
      PROVE  QueueInv'
  <2>1. /\ UNCHANGED <<strobe_queue, fmonitor_args, opened>>
        /\ calls' \in {calls, calls + 1}
        /\ out' = out \/ out' = ToStdout(out, Notice("vcd"))
    BY <1>2 DEF Begin, DumpVars, vcdVars
  <2>2. Notice("vcd").task \notin {"strobe", "fstrobe"}
    BY DEF Notice
  <2> QED
    BY <2>1, <2>2, QueueInvLines
<1>3. ASSUME NEW args \in ArgLists, Display(args)
      PROVE  QueueInv'
  <2>1. LineOf("display", calls', args).task = "display"
    BY DEF LineOf
  <2> QED
    BY <1>3, <2>1, QueueInvLines DEF Display
<1>4. ASSUME NEW v \in FdVars, NEW args \in ArgLists, FDisplay(v, args)
      PROVE  QueueInv'
  <2>1. LineOf("fdisplay", calls', args).task = "fdisplay"
    BY DEF LineOf
  <2> QED
    BY <1>4, <2>1, QueueInvLines DEF FDisplay
<1>5. ASSUME NEW v \in FdVars, NEW args \in ArgLists, FMonitor(v, args)
      PROVE  QueueInv'
  <2>1. /\ UNCHANGED <<strobe_queue, opened, out>> /\ calls' = calls + 1
        /\ fmonitor_args' = <<[fd |-> v, args |-> args, id |-> calls']>>
        /\ fmonitor_args'[1].fd \in FdVars
    BY <1>5 DEF FMonitor
  <2>2. IsOut(out', opened')
    BY <2>1 DEF QueueInv
  <2> QED
    BY <2>1, <2>2, QueueKept
<1>6. ASSUME NEW v \in FdVars, OpenMcd(v) \/ OpenFd(v)
      PROVE  QueueInv'
  <2>1. /\ UNCHANGED <<strobe_queue, fmonitor_args>> /\ calls' = calls + 1
        /\ \/ out' = out /\ opened' = opened
           \/ /\ opened' = opened + 1
              /\ out' = [out EXCEPT !.content = Append(@, <<>>)]
    BY <1>6 DEF OpenMcd, OpenFd
  <2> QED
    BY <2>1, QueueInvLines, QueueInvOpens
<1>7. ASSUME NEW v \in FdVars, OpenFails(v)
      PROVE  QueueInv'
  <2>1. Notice("warning").task \notin {"strobe", "fstrobe"}
    BY DEF Notice
  <2> QED
    BY <1>7, <2>1, QueueInvLines DEF OpenFails
<1>8. ASSUME NEW v \in FdVars \cup {NoFd}, NEW args \in ArgLists, Strobe(v, args)
      PROVE  QueueInv'
  BY <1>8, QueueInvStrobe
<1>9. CASE Finish
  <2>1. Notice("finish").task \notin {"strobe", "fstrobe"}
    BY DEF Notice
  <2> QED
    BY <1>9, <2>1, QueueInvLines DEF Finish
<1>10. CASE Postponed \/ StopAfterFinish
  <2>1. PICK o : Flushed(o, out', Len(strobe_queue))
    BY <1>10, QueueFlushed
  <2>2. UNCHANGED <<calls, fmonitor_args, opened>> /\ strobe_queue' = <<>>
    BY <1>10 DEF Postponed, StopAfterFinish
  <2>3. IsOut(out', opened) /\ \A id \in Nat : id > calls => Fresh(out', id)
    BY <2>1 DEF Flushed
  <2> QED
    BY <2>2, <2>3, QueueEmptied
<1>11. CASE \/ \E d \in program.drives : Write(d.net, d.val)
            \/ \E v, w \in FdVars : AssignFd(v, w)
            \/ \E args \in ArgLists : Monitor(args)
            \/ \E v \in FdVars : FClose(v)
            \/ MonitorOn \/ MonitorOff
            \/ \E t \in 1 .. MaxTime : Advance(t)
            \/ End
  <2>1. /\ UNCHANGED <<strobe_queue, fmonitor_args, opened, out>>
        /\ calls' \in {calls, calls + 1}
    BY <1>11 DEF Write, AssignFd, Monitor, FClose, MonitorOn, MonitorOff, Advance, End
  <2> QED
    BY <2>1, QueueInvLines
<1> QED
  BY <1>1, <1>2, <1>3, <1>4, <1>5, <1>6, <1>7, <1>8, <1>9, <1>10, <1>11 DEF Next

\* Ids are given once, and the lines of what waits in the queue are not printed yet.
THEOREM QueueInvariant == Spec => []QueueInv
<1>1. FilesInv /\ QueueInv /\ [Next]_vars => QueueInv'
  BY QueueInvNext
<1> QED
  BY <1>1, QueueInvInit, FilesInvariant, PTL DEF Spec

\* What DeferredLinesAreWhole says of a step.
LEMMA QueueStep ==
  ASSUME FilesInv, QueueInv, [Next]_vars, strobe_queue' = <<>>
  PROVE  /\ \A i \in DOMAIN strobe_queue :
              LET e == strobe_queue[i]
              IN IF e.fd = NoFd
                   THEN Places(out', "strobe", e.id) = {0}
                   ELSE Places(out', "fstrobe", e.id) =
                          (IF WhollyOpen(fd_value[e.fd])
                             THEN Target(fd_value[e.fd]) ELSE {})
         /\ strobe_queue # <<>> =>
              Warnings(out') - Warnings(out) <=
                Cardinality({i \in DOMAIN strobe_queue :
                   /\ strobe_queue[i].fd # NoFd
                   /\ Denoted(fd_value[strobe_queue[i].fd]) # {}
                        \/ 0 \in fd_value[strobe_queue[i].fd].chans})
                + (IF fmonitor_args # <<>> THEN 1 ELSE 0)
<1>1. strobe_queue = <<>> \/ Postponed \/ StopAfterFinish
  <2>1. ASSUME NEW v \in FdVars \cup {NoFd}, NEW args \in ArgLists, Strobe(v, args)
        PROVE  FALSE
    <3>1. strobe_queue' = Append(strobe_queue, [fd |-> v, args |-> args, id |-> calls'])
          /\ Len(strobe_queue) \in Nat /\ strobe_queue \in Seq(Entries)
      BY <2>1, QueueTyped DEF Strobe, QueueInv
    <3>2. DOMAIN strobe_queue' = 1 .. Len(strobe_queue) + 1
      BY <3>1
    <3>3. DOMAIN strobe_queue' = {}
      OBVIOUS
    <3> QED
      BY <3>1, <3>2, <3>3
  <2>2. CASE ~(\E v \in FdVars \cup {NoFd}, args \in ArgLists : Strobe(v, args))
    BY <2>2 DEF Next, vars, Begin, Write, AssignFd, Display, Monitor, FDisplay, FMonitor,
       OpenMcd, OpenFd, OpenFails, FClose, MonitorOn, MonitorOff, DumpVars, Finish, Advance, End
  <2> QED
    BY <2>1, <2>2
<1>2. CASE strobe_queue = <<>>
  BY <1>2
<1>3. CASE Postponed \/ StopAfterFinish
  <2>1. PICK o : /\ Flushed(o, out', Len(strobe_queue))
                 /\ Warnings(out) \in Nat
                 /\ Warnings(o) <= Warnings(out) + (IF fmonitor_args # <<>> THEN 1 ELSE 0)
    BY <1>3, QueueFlushed
  <2>2. Len(strobe_queue) \in Nat /\ DOMAIN strobe_queue = 1 .. Len(strobe_queue)
    BY QueueTyped DEF QueueInv
  <2>3. ASSUME NEW i \in DOMAIN strobe_queue
        PROVE  Places(out', TaskOf(strobe_queue[i]), strobe_queue[i].id)
                 = Expected(strobe_queue[i])
    <3>1. i \in 1 .. Len(strobe_queue) /\ i <= Len(strobe_queue)
      BY <2>2
    <3> QED
      BY <2>1, <3>1 DEF Flushed
  <2>4. Warnings(out') - Warnings(out) <=
          Cardinality(Warned(Len(strobe_queue))) + (IF fmonitor_args # <<>> THEN 1 ELSE 0)
    <3>1. /\ Warnings(o) \in Nat /\ Warnings(out') \in Nat
          /\ Warnings(out') <= Warnings(o) + Cardinality(Warned(Len(strobe_queue)))
      BY <2>1 DEF Flushed
    <3>2. Cardinality(Warned(Len(strobe_queue))) \in Nat
      BY <2>2, WarnedGrows
    <3> QED
      BY <2>1, <3>1, <3>2
  <2>5. Warned(Len(strobe_queue)) =
          {i \in DOMAIN strobe_queue :
             /\ strobe_queue[i].fd # NoFd
             /\ Denoted(fd_value[strobe_queue[i].fd]) # {}
                  \/ 0 \in fd_value[strobe_queue[i].fd].chans}
    BY <2>2 DEF Warned, MayWarn
  <2>6. \A i \in DOMAIN strobe_queue :
          LET e == strobe_queue[i]
          IN IF e.fd = NoFd
               THEN Places(out', "strobe", e.id) = {0}
               ELSE Places(out', "fstrobe", e.id) =
                      (IF WhollyOpen(fd_value[e.fd])
                         THEN Target(fd_value[e.fd]) ELSE {})
    BY <2>3 DEF TaskOf, Expected, Reached
  <2> QED
    BY <2>4, <2>5, <2>6
<1> QED
  BY <1>1, <1>2, <1>3

\* DeferredLinesAreWhole for every program: a line that waited for the postponed
\* region goes to everything its descriptor stands for by then or nowhere, no line
\* is lost for another, and no warning is printed for a descriptor that is closed.
THEOREM DeferredLines == Spec => DeferredLinesAreWhole
<1>1. FilesInv /\ QueueInv /\ [Next]_vars =>
        [strobe_queue' = <<>> =>
           /\ \A i \in DOMAIN strobe_queue :
                LET e == strobe_queue[i]
                IN IF e.fd = NoFd
                     THEN Places(out', "strobe", e.id) = {0}
                     ELSE Places(out', "fstrobe", e.id) =
                            (IF WhollyOpen(fd_value[e.fd])
                               THEN Target(fd_value[e.fd]) ELSE {})
           /\ strobe_queue # <<>> =>
                Warnings(out') - Warnings(out) <=
                  Cardinality({i \in DOMAIN strobe_queue :
                     /\ strobe_queue[i].fd # NoFd
                     /\ Denoted(fd_value[strobe_queue[i].fd]) # {}
                          \/ 0 \in fd_value[strobe_queue[i].fd].chans})
                  + (IF fmonitor_args # <<>> THEN 1 ELSE 0)]_vars
  BY QueueStep
<1> QED
  BY <1>1, FilesInvariant, QueueInvariant, PTL DEF Spec, DeferredLinesAreWhole
-----------------------------------------------------------------------------
(* $monitor *)

\* What was printed goes on: p has the lines of o on stdout and after them
\* others, none of them of $monitor.
NoMonitor(p, o) ==
  /\ DOMAIN o.stdout \subseteq DOMAIN p.stdout
  /\ \A i \in DOMAIN o.stdout : p.stdout[i] = o.stdout[i]
  /\ \A i \in DOMAIN p.stdout \ DOMAIN o.stdout : p.stdout[i].task # "monitor"

LEMMA NoMonitorTwice ==
  ASSUME NEW o, NEW p, NEW q, NoMonitor(p, o), NoMonitor(q, p)
  PROVE  NoMonitor(q, o)
BY DEF NoMonitor

LEMMA NoMonitorStdout ==
  ASSUME NEW n, NEW o, IsOut(o, n), NEW p, NEW line, line.task # "monitor",
         p.stdout = o.stdout \/ p.stdout = Append(o.stdout, line)
  PROVE  NoMonitor(p, o)
<1>1. /\ Len(o.stdout) \in Nat /\ DOMAIN o.stdout = 1 .. Len(o.stdout)
      /\ DOMAIN Append(o.stdout, line) = 1 .. Len(o.stdout) + 1
      /\ \A i \in 1 .. Len(o.stdout) : Append(o.stdout, line)[i] = o.stdout[i]
      /\ Append(o.stdout, line)[Len(o.stdout) + 1] = line
  BY AppendSeq DEF IsOut
<1>2. CASE p.stdout = o.stdout
  BY <1>2 DEF NoMonitor
<1>3. CASE p.stdout = Append(o.stdout, line)
  <2>1. \A i \in 1 .. Len(o.stdout) + 1 : i \in 1 .. Len(o.stdout) \/ i = Len(o.stdout) + 1
    BY <1>1
  <2> QED
    BY <1>1, <1>3, <2>1 DEF NoMonitor
<1> QED
  BY <1>2, <1>3

LEMMA StdoutOf ==
  ASSUME NEW n, NEW o, IsOut(o, n), NEW line
  PROVE  ToStdout(o, line).stdout = Append(o.stdout, line)
BY SMTT(20) DEF IsOut, ToStdout

\* emit prints the line on stdout, or a warning, or nothing.
LEMMA NoMonitorEmit ==
  ASSUME NEW n, NEW o, IsOut(o, n), NEW d, NEW line, line.task # "monitor"
  PROVE  NoMonitor(Emit(o, d, line), o)
<1> DEFINE w == Notice("warning")
           p == Emit(o, d, line)
<1>1. o = [stdout |-> o.stdout, stderr |-> o.stderr, content |-> o.content]
  BY DEF IsOut
<1>2. /\ ToStdout(o, line).stdout = Append(o.stdout, line)
      /\ ToStdout(o, w).stdout = Append(o.stdout, w)
  BY StdoutOf
<1>3. w.task # "monitor"
  BY DEF Notice
<1>4. ASSUME NEW q, NEW c
      PROVE  [o EXCEPT !.content = c].stdout = o.stdout
             /\ [o EXCEPT !.stderr = c].stdout = o.stdout
  BY <1>1
<1>5. ASSUME NEW c
      PROVE  [ToStdout(o, line) EXCEPT !.content = c].stdout = Append(o.stdout, line)
  BY <1>1 DEF ToStdout
<1> HIDE DEF w
<1>6. p.stdout \in {o.stdout, Append(o.stdout, line), Append(o.stdout, w)}
  <2>1. CASE d.fd
    BY <1>2, <1>4, <2>1 DEF Emit, w
  <2>2. CASE ~d.fd
    BY <1>2, <1>4, <1>5, <2>2 DEF Emit, w
  <2> QED
    BY <2>1, <2>2
<1> HIDE DEF p
<1>7. NoMonitor(p, o)
  BY <1>3, <1>6, NoMonitorStdout
<1> QED
  BY <1>7 DEF p

LEMMA NoMonitorDeferred ==
  ASSUME NEW n, NEW o, IsOut(o, n), NEW task, task # "monitor", NEW e
  PROVE  NoMonitor(Deferred(o, task, e), o)
<1>1. LineOf(task, e.id, e.args).task # "monitor"
  BY DEF LineOf
<1>2. NoMonitor(o, o)
  BY DEF NoMonitor
<1> QED
  BY <1>1, <1>2, NoMonitorEmit DEF Deferred

LEMMA NoMonitorStrobe ==
  ASSUME FilesInv, QueueInv, NEW o, IsOut(o, opened)
  PROVE  NoMonitor(flush_strobe(o), o)
<1> DEFINE n == Len(strobe_queue)
<1>1. n \in Nat
  BY QueueTyped
<1>2. PICK F : /\ F[0] = o
               /\ \A i \in 1 .. n : F[i] = StrobeOut(F[i - 1], strobe_queue[i])
               /\ flush_strobe(o) = F[n]
  BY <1>1, StrobeLoop
<1> DEFINE S == {k \in Nat : k <= n => IsOut(F[k], opened) /\ NoMonitor(F[k], o)}
<1>3. 0 \in S
  BY <1>2 DEF NoMonitor
<1>4. ASSUME NEW k \in S
      PROVE  k + 1 \in S
  <2> SUFFICES ASSUME k + 1 <= n
               PROVE  IsOut(F[k + 1], opened) /\ NoMonitor(F[k + 1], o)
    OBVIOUS
  <2> DEFINE e == strobe_queue[k + 1]
             p == F[k]
  <2>1. k \in Nat /\ k + 1 \in 1 .. n /\ k + 1 - 1 = k /\ IsOut(p, opened) /\ NoMonitor(p, o)
    BY <1>1
  <2>2. F[k + 1] = StrobeOut(p, e)
    BY <1>2, <2>1
  <2>3. e.fd \in FdVars \cup {NoFd}
    BY <2>1, QueueTyped DEF Entries
  <2> HIDE DEF e, p, S
  <2>4. IsOut(StrobeOut(p, e), opened)
    BY <2>1, <2>3, StrobeLine
  <2>5. NoMonitor(StrobeOut(p, e), p)
    <3>1. CASE e.fd = NoFd
      <4>1. LineOf("strobe", e.id, e.args).task # "monitor"
        BY DEF LineOf
      <4>2. StrobeOut(p, e) = ToStdout(p, LineOf("strobe", e.id, e.args))
        BY <3>1 DEF StrobeOut
      <4>3. StrobeOut(p, e).stdout = Append(p.stdout, LineOf("strobe", e.id, e.args))
        BY <2>1, <4>2, StdoutOf
      <4> QED
        BY <2>1, <4>1, <4>3, NoMonitorStdout
    <3>2. CASE e.fd # NoFd
      <4>1. StrobeOut(p, e) = Deferred(p, "fstrobe", e) /\ "fstrobe" # "monitor"
        BY <3>2 DEF StrobeOut
      <4> QED
        BY <2>1, <4>1, NoMonitorDeferred
    <3> QED
      BY <3>1, <3>2
  <2> QED
    BY <2>1, <2>2, <2>4, <2>5, NoMonitorTwice
<1>5. S = Nat
  <2>1. S \in SUBSET Nat
    OBVIOUS
  <2> HIDE DEF S
  <2> QED
    BY <1>3, <1>4, <2>1, Induction
<1> QED
  BY <1>1, <1>2, <1>5


\* The lines of the registration id in what was printed.
LinesOf(s, id) == {i \in DOMAIN s : s[i].task = "monitor" /\ s[i].id = id}

\* The lines of a registration end in one that tells what the snapshot holds,
\* there is none without a snapshot, and no line repeats the one before.
Told(s, id, args, last) ==
  /\ last = <<>> => LinesOf(s, id) = {}
  /\ last # <<>> => \E i \in LinesOf(s, id) :
                      /\ \A j \in LinesOf(s, id) : j <= i
                      /\ TellSame(s[i].vals, last[1], args[1])
  /\ \A i, j \in LinesOf(s, id) :
       (i < j /\ \A k \in LinesOf(s, id) : k <= i \/ j <= k) =>
         ~TellSame(s[i].vals, s[j].vals, args[1])

LEMMA ToldKept ==
  ASSUME NEW o, NEW p, NoMonitor(p, o), NEW id, NEW args, NEW last,
         Told(o.stdout, id, args, last)
  PROVE  Told(p.stdout, id, args, last)
<1>1. LinesOf(p.stdout, id) = LinesOf(o.stdout, id)
  BY DEF NoMonitor, LinesOf
<1>2. \A i \in LinesOf(o.stdout, id) : p.stdout[i] = o.stdout[i]
  BY DEF NoMonitor, LinesOf
<1> HIDE DEF LinesOf
<1> QED
  BY <1>1, <1>2 DEF Told

LEMMA ToldFresh ==
  ASSUME NEW s, NEW id \in Nat, NEW args,
         \A i \in DOMAIN s : s[i].task = "monitor" => s[i].id \in Nat /\ s[i].id < id
  PROVE  Told(s, id, args, <<>>)
<1>1. LinesOf(s, id) = {}
  BY DEF LinesOf
<1> QED
  BY <1>1 DEF Told

\* A new line, when it tells something else than the snapshot before.
LEMMA ToldNew ==
  ASSUME NEW s, IsSeq(s), NEW id, NEW args, NEW last, Told(s, id, args, last),
         NEW line, line.task = "monitor", line.id = id,
         NEW vals, TellSame(line.vals, vals, args[1]),
         last = <<>> \/ ~TellSame(last[1], vals, args[1])
  PROVE  Told(Append(s, line), id, args, <<vals>>)
<1> DEFINE r == Append(s, line)
           n == Len(s)
           M == LinesOf(s, id)
<1>1. /\ n \in Nat /\ DOMAIN s = 1 .. n /\ DOMAIN r = 1 .. n + 1
      /\ \A i \in 1 .. n : r[i] = s[i]
      /\ r[n + 1] = line
  BY AppendSeq
<1>2. LinesOf(r, id) = M \cup {n + 1}
  <2>1. \A i \in 1 .. n + 1 : i \in 1 .. n \/ i = n + 1
    BY <1>1
  <2> HIDE DEF r, n
  <2> QED
    BY <1>1, <2>1 DEF LinesOf
<1>3. \A i \in M : i \in 1 .. n /\ r[i] = s[i]
  BY <1>1 DEF LinesOf
<1> HIDE DEF r, n, M
<1>4. /\ last = <<>> => M = {}
      /\ last # <<>> => \E i \in M : /\ \A j \in M : j <= i
                                     /\ TellSame(s[i].vals, last[1], args[1])
      /\ \A i, j \in M : (i < j /\ \A k \in M : k <= i \/ j <= k) =>
                           ~TellSame(s[i].vals, s[j].vals, args[1])
  BY DEF Told, M
<1>5. \A i \in M \cup {n + 1} : i \in 1 .. n + 1 /\ i <= n + 1
  BY <1>1, <1>3
<1>6. ASSUME NEW i \in M \cup {n + 1}, NEW j \in M \cup {n + 1}, i < j,
             \A k \in M \cup {n + 1} : k <= i \/ j <= k
      PROVE  ~TellSame(r[i].vals, r[j].vals, args[1])
  <2>1. i \in M
    BY <1>1, <1>5, <1>6
  <2>2. CASE j \in M
    BY <1>3, <1>4, <1>6, <2>1, <2>2
  <2>3. CASE j = n + 1
    <3>1. \A k \in M : k <= i
      BY <1>1, <1>3, <1>6, <2>3
    <3>2. PICK m \in M : /\ \A k \in M : k <= m
                         /\ TellSame(s[m].vals, last[1], args[1])
      BY <1>4, <2>1
    <3>3. m = i
      BY <1>3, <2>1, <3>1, <3>2
    <3>4. ~TellSame(last[1], vals, args[1])
      BY <1>4, <2>1
    <3>5. TellSame(s[i].vals, last[1], args[1]) /\ r[i] = s[i] /\ r[j] = line
      BY <1>1, <1>3, <2>1, <2>3, <3>2, <3>3
    <3> QED
      BY <3>4, <3>5 DEF TellSame
  <2> QED
    BY <2>2, <2>3
<1>7. <<vals>>[1] = vals /\ <<vals>> # <<>>
  OBVIOUS
<1>8. TellSame(r[n + 1].vals, vals, args[1])
  BY <1>1
<1> QED
  BY <1>2, <1>5, <1>6, <1>7, <1>8 DEF Told, r

\* The snapshot of $monitor tells what its last line told of the nets, and has
\* nothing else that could change; a new registration has a number that no line has.
MonitorInv ==
  /\ monitor_call \in Nat /\ monitor_call <= calls
  /\ \A i \in DOMAIN out.stdout :
       out.stdout[i].task = "monitor" =>
         out.stdout[i].id \in Nat /\ out.stdout[i].id <= monitor_call
  /\ monitor_args # <<>> => monitor_args[1] \in ArgLists
  /\ monitor_last # <<>> =>
       /\ monitor_args # <<>>
       /\ monitor_last = <<monitor_last[1]>>
       /\ monitor_last[1] =
            [p \in Watched(monitor_args[1]) |->
               IF monitor_args[1][p][1] = "net" THEN monitor_last[1][p] ELSE [a |-> 0, b |-> 0]]
  /\ Told(out.stdout, monitor_call, monitor_args, monitor_last)
  /\ (phase = "advance" /\ monitor_enabled /\ monitor_args # <<>>) =>
       monitor_last = <<MonitorVals>>

LEMMA MonitorInvInit ==
  Init => MonitorInv
<1> SUFFICES ASSUME Init
             PROVE  MonitorInv
  OBVIOUS
<1>1. /\ monitor_call = 0 /\ calls = 0 /\ phase = "start"
      /\ monitor_args = <<>> /\ monitor_last = <<>> /\ out.stdout = <<>>
  BY DEF Init
<1>2. DOMAIN out.stdout = {}
  BY <1>1
<1>3. Told(out.stdout, 0, <<>>, <<>>)
  BY <1>2, ToldFresh
<1> QED
  BY <1>1, <1>2, <1>3 DEF MonitorInv

\* A step that prints no line of $monitor and leaves the registration alone.
LEMMA MonitorKept ==
  ASSUME MonitorInv, calls \in Nat, calls' \in {calls, calls + 1}, NoMonitor(out', out),
         UNCHANGED <<monitor_args, monitor_last, monitor_call>>,
         phase' # "advance" \/ UNCHANGED <<phase, nets, now, monitor_enabled>>
  PROVE  MonitorInv'
<1>1. monitor_call' \in Nat /\ monitor_call' <= calls'
  BY DEF MonitorInv
<1>2. \A i \in DOMAIN out'.stdout :
        out'.stdout[i].task = "monitor" =>
          out'.stdout[i].id \in Nat /\ out'.stdout[i].id <= monitor_call
  <2>1. \A i \in DOMAIN out.stdout :
          out.stdout[i].task = "monitor" =>
            out.stdout[i].id \in Nat /\ out.stdout[i].id <= monitor_call
    BY DEF MonitorInv
  <2> QED
    BY <2>1 DEF NoMonitor
<1>3. Told(out'.stdout, monitor_call, monitor_args, monitor_last)
  BY ToldKept DEF MonitorInv
<1>4. (phase' = "advance" /\ monitor_enabled' /\ monitor_args # <<>>) =>
        monitor_last = <<MonitorVals'>>
  <2> SUFFICES ASSUME phase' = "advance", monitor_enabled', monitor_args # <<>>
               PROVE  monitor_last = <<MonitorVals'>>
    OBVIOUS
  <2>1. MonitorVals' = MonitorVals
    BY DEF MonitorVals, Values, Eval
  <2> QED
    BY <2>1 DEF MonitorInv
<1> QED
  BY <1>1, <1>2, <1>3, <1>4 DEF MonitorInv

\* $monitor and $monitoron begin a registration of their own.
LEMMA MonitorBegun ==
  ASSUME MonitorInv, calls \in Nat, calls' = calls + 1, out' = out, monitor_call' = calls',
         monitor_last' = <<>>, monitor_args' # <<>> => monitor_args'[1] \in ArgLists,
         phase' # "advance"
  PROVE  MonitorInv'
<1>1. calls + 1 \in Nat
  OBVIOUS
<1>2. \A i \in DOMAIN out.stdout :
        out.stdout[i].task = "monitor" =>
          /\ out.stdout[i].id \in Nat
          /\ out.stdout[i].id < calls + 1 /\ out.stdout[i].id <= calls + 1
  BY DEF MonitorInv
<1>3. Told(out.stdout, calls + 1, monitor_args', <<>>)
  BY <1>1, <1>2, ToldFresh
<1> QED
  BY <1>1, <1>2, <1>3 DEF MonitorInv

\* A net that $monitor watches is shown by its line.
LEMMA NetsShown ==
  ASSUME NEW args \in ArgLists
  PROVE  /\ TellSame(Shown(args), Values(args, Watched(args)), args)
         /\ \A p \in Watched(args) :
              Values(args, Watched(args))[p] =
                IF args[p][1] = "net" THEN Eval(args[p]) ELSE [a |-> 0, b |-> 0]
<1>1. args \in Seq(Exprs)
  BY OutputAssumption
<1>2. \A p \in Watched(args) : p \in DOMAIN args /\ args[p][1] # "time" /\ args[p] \in Exprs
  BY <1>1 DEF Watched, FWatched
<1>3. \A e \in Exprs : e[1] \in {"fmt", "time", "net"}
  BY DEF Exprs
<1>4. \A p \in NetsAt(args) : p \in DOMAIN args /\ p \in Watched(args) /\ args[p][1] # "fmt"
  BY <1>2 DEF NetsAt
<1> QED
  BY <1>2, <1>3, <1>4 DEF TellSame, Shown, Values, Eval

\* flush_monitor: a line when what is watched has changed.
LEMMA MonitorFlushed ==
  ASSUME MonitorInv, IsOut(out, opened), monitor_enabled, MonitorDue
  PROVE  /\ Told(MonitorOut(out).stdout, monitor_call, monitor_args, <<MonitorVals>>)
         /\ \A i \in DOMAIN MonitorOut(out).stdout :
              MonitorOut(out).stdout[i].task = "monitor" =>
                /\ MonitorOut(out).stdout[i].id \in Nat
                /\ MonitorOut(out).stdout[i].id <= monitor_call
<1> DEFINE args == monitor_args[1]
           line == LineOf("monitor", monitor_call, args)
<1>1. args \in ArgLists
  BY DEF MonitorInv, MonitorDue
<1>2. MonitorOut(out).stdout = Append(out.stdout, line)
  BY StdoutOf DEF MonitorOut
<1>3. line.task = "monitor" /\ line.id = monitor_call /\ line.vals = Shown(args)
  BY DEF LineOf
<1>4. TellSame(line.vals, MonitorVals, args)
  BY <1>1, <1>3, NetsShown DEF MonitorVals
<1>5. monitor_last = <<>> \/ ~TellSame(monitor_last[1], MonitorVals, args)
  <2> SUFFICES ASSUME monitor_last # <<>>, TellSame(monitor_last[1], MonitorVals, args)
               PROVE  FALSE
    OBVIOUS
  <2>1. /\ monitor_last = <<monitor_last[1]>>
        /\ monitor_last[1] =
             [p \in Watched(args) |->
                IF args[p][1] = "net" THEN monitor_last[1][p] ELSE [a |-> 0, b |-> 0]]
    BY DEF MonitorInv
  <2>2. ASSUME NEW p \in Watched(args)
        PROVE  monitor_last[1][p] = MonitorVals[p]
    <3>1. CASE args[p][1] = "net"
      BY <3>1 DEF TellSame, NetsAt
    <3>2. CASE args[p][1] # "net"
      <4>1. monitor_last[1][p] = [a |-> 0, b |-> 0]
        BY <2>1, <3>2
      <4>2. MonitorVals[p] = [a |-> 0, b |-> 0]
        BY <1>1, <3>2, NetsShown DEF MonitorVals
      <4> QED
        BY <4>1, <4>2
    <3> QED
      BY <3>1, <3>2
  <2>3. /\ MonitorVals = [p \in Watched(args) |-> MonitorVals[p]]
        /\ monitor_last[1] = [p \in Watched(args) |-> monitor_last[1][p]]
    BY <2>1 DEF MonitorVals, Values
  <2>4. monitor_last[1] = MonitorVals
    BY <2>2, <2>3
  <2> QED
    BY <2>1, <2>4 DEF MonitorDue
<1>6. IsSeq(out.stdout) /\ Told(out.stdout, monitor_call, monitor_args, monitor_last)
  BY DEF IsOut, MonitorInv
<1>7. Told(Append(out.stdout, line), monitor_call, monitor_args, <<MonitorVals>>)
  <2> HIDE DEF line
  <2> QED
    BY <1>3, <1>4, <1>5, <1>6, ToldNew
<1>8. ASSUME NEW i \in DOMAIN Append(out.stdout, line),
             Append(out.stdout, line)[i].task = "monitor"
      PROVE  /\ Append(out.stdout, line)[i].id \in Nat
             /\ Append(out.stdout, line)[i].id <= monitor_call
  <2>1. /\ i \in 1 .. Len(out.stdout) \/ i = Len(out.stdout) + 1
        /\ DOMAIN out.stdout = 1 .. Len(out.stdout)
        /\ \A j \in 1 .. Len(out.stdout) : Append(out.stdout, line)[j] = out.stdout[j]
        /\ Append(out.stdout, line)[Len(out.stdout) + 1] = line
    <3> HIDE DEF line
    <3>1. /\ Len(out.stdout) \in Nat
          /\ DOMAIN Append(out.stdout, line) = 1 .. Len(out.stdout) + 1
          /\ DOMAIN out.stdout = 1 .. Len(out.stdout)
          /\ \A j \in 1 .. Len(out.stdout) : Append(out.stdout, line)[j] = out.stdout[j]
          /\ Append(out.stdout, line)[Len(out.stdout) + 1] = line
      BY <1>6, AppendSeq
    <3> QED
      BY <3>1
  <2>2. monitor_call \in Nat /\ monitor_call <= monitor_call
    BY DEF MonitorInv
  <2> HIDE DEF line
  <2> QED
    BY <1>3, <1>8, <2>1, <2>2 DEF MonitorInv
<1> HIDE DEF line
<1> QED
  BY <1>2, <1>7, <1>8

\* The postponed region.
LEMMA MonitorPostponed ==
  ASSUME FilesInv, QueueInv, MonitorInv, Postponed
  PROVE  MonitorInv'
<1> DEFINE o == IF monitor_enabled THEN MonitorOut(out) ELSE out
           last == IF monitor_enabled /\ MonitorDue THEN <<MonitorVals>> ELSE monitor_last
<1>1. /\ out' = flush_strobe(flush_monitor(out))
      /\ monitor_last' = last
      /\ UNCHANGED <<nets, now, calls, monitor_args, monitor_enabled, monitor_call>>
  BY DEF Postponed, Snapshots
<1>2. IsOut(out, opened) /\ calls \in Nat
  BY DEF QueueInv
<1>3. /\ Told(o.stdout, monitor_call, monitor_args, last)
      /\ \A i \in DOMAIN o.stdout :
           o.stdout[i].task = "monitor" =>
             o.stdout[i].id \in Nat /\ o.stdout[i].id <= monitor_call
  <2>1. CASE monitor_enabled /\ MonitorDue
    BY <1>2, <2>1, MonitorFlushed
  <2>2. CASE ~(monitor_enabled /\ MonitorDue)
    BY <2>2 DEF MonitorOut, MonitorInv
  <2> QED
    BY <2>1, <2>2
<1>4. NoMonitor(out', o)
  <2>1. IsOut(o, opened)
    <3>1. LineOf("monitor", monitor_call, monitor_args[1]).task # "warning"
      BY DEF LineOf
    <3>2. IsOut(ToStdout(out, LineOf("monitor", monitor_call, monitor_args[1])), opened)
      BY <1>2, StdoutLine
    <3> QED
      BY <1>2, <3>2 DEF MonitorOut
  <2>2. /\ IsOut(flush_monitor(out), opened)
        /\ NoMonitor(flush_monitor(out), o)
    <3>1. IsOut(flush_monitor(out), opened)
      BY <1>2, FlushMonitor
    <3>2. NoMonitor(o, o)
      BY DEF NoMonitor
    <3>3. CASE monitor_enabled /\ FMonitorDue
      <4>1. flush_monitor(out) = Deferred(o, "fmonitor", fmonitor_args[1])
        BY <3>3 DEF flush_monitor, FMonitorOut
      <4> HIDE DEF o
      <4> QED
        BY <2>1, <3>1, <4>1, NoMonitorDeferred
    <3>4. CASE ~(monitor_enabled /\ FMonitorDue)
      BY <3>1, <3>2, <3>4 DEF flush_monitor, FMonitorOut
    <3> QED
      BY <3>3, <3>4
  <2> HIDE DEF o
  <2>3. NoMonitor(flush_strobe(flush_monitor(out)), flush_monitor(out))
    BY <2>2, NoMonitorStrobe
  <2> QED
    BY <1>1, <2>2, <2>3, NoMonitorTwice
<1>5. Told(out'.stdout, monitor_call, monitor_args, last)
  <2> HIDE DEF o, last
  <2> QED
    BY <1>3, <1>4, ToldKept
<1>6. \A i \in DOMAIN out'.stdout :
        out'.stdout[i].task = "monitor" =>
          out'.stdout[i].id \in Nat /\ out'.stdout[i].id <= monitor_call
  <2> HIDE DEF o, last
  <2> QED
    BY <1>3, <1>4 DEF NoMonitor
<1>7. MonitorVals' = MonitorVals
  BY <1>1 DEF MonitorVals, Values, Eval
<1>8. (monitor_enabled /\ monitor_args # <<>>) => last = <<MonitorVals>>
  BY DEF MonitorDue
<1>9. last # <<>> =>
        /\ monitor_args # <<>>
        /\ last = <<last[1]>>
        /\ last[1] = [p \in Watched(monitor_args[1]) |->
                        IF monitor_args[1][p][1] = "net" THEN last[1][p] ELSE [a |-> 0, b |-> 0]]
  <2>1. CASE monitor_enabled /\ MonitorDue
    <3>1. monitor_args # <<>> /\ monitor_args[1] \in ArgLists
      BY <2>1 DEF MonitorDue, MonitorInv
    <3>2. \A p \in Watched(monitor_args[1]) :
            MonitorVals[p] = IF monitor_args[1][p][1] = "net" THEN MonitorVals[p]
                                                            ELSE [a |-> 0, b |-> 0]
      BY <3>1, NetsShown DEF MonitorVals
    <3>3. MonitorVals = [p \in Watched(monitor_args[1]) |-> MonitorVals[p]]
      BY DEF MonitorVals, Values
    <3>4. last = <<MonitorVals>> /\ last[1] = MonitorVals
      BY <2>1
    <3> HIDE DEF last
    <3> QED
      BY <3>1, <3>2, <3>3, <3>4
  <2>2. CASE ~(monitor_enabled /\ MonitorDue)
    BY <2>2 DEF MonitorInv
  <2> QED
    BY <2>1, <2>2
<1>10. /\ monitor_call \in Nat /\ monitor_call <= calls
       /\ monitor_args # <<>> => monitor_args[1] \in ArgLists
  BY DEF MonitorInv
<1> HIDE DEF last
<1> QED
  BY <1>1, <1>5, <1>6, <1>7, <1>8, <1>9, <1>10 DEF MonitorInv

LEMMA MonitorInvNext ==
  ASSUME FilesInv, QueueInv, MonitorInv, [Next]_vars
  PROVE  MonitorInv'
<1> USE DEF Called, fileVars, monitorVars, runVars
<1>1. IsOut(out, opened) /\ calls \in Nat /\ NoMonitor(out, out)
  BY DEF QueueInv, NoMonitor
<1>2. \A line : line.task # "monitor" => NoMonitor(ToStdout(out, line), out)
  BY <1>1, StdoutOf, NoMonitorStdout
<1>3. CASE UNCHANGED vars
  BY <1>1, <1>3, MonitorKept DEF vars
<1>4. ASSUME NEW created \in BOOLEAN, Begin(created) \/ DumpVars(created)
      PROVE  MonitorInv'
  <2>1. Notice("vcd").task # "monitor"
    BY DEF Notice
  <2>2. NoMonitor(out', out)
    BY <1>1, <1>2, <1>4, <2>1 DEF Begin, DumpVars
  <2> QED
    BY <1>1, <1>4, <2>2, MonitorKept DEF Begin, DumpVars
<1>5. ASSUME NEW args \in ArgLists, Display(args)
      PROVE  MonitorInv'
  <2>1. LineOf("display", calls', args).task # "monitor"
    BY DEF LineOf
  <2>2. NoMonitor(out', out)
    BY <1>2, <1>5, <2>1 DEF Display
  <2> QED
    BY <1>1, <1>5, <2>2, MonitorKept DEF Display
<1>6. ASSUME NEW v \in FdVars, NEW args \in ArgLists, FDisplay(v, args)
      PROVE  MonitorInv'
  <2>1. LineOf("fdisplay", calls', args).task # "monitor"
    BY DEF LineOf
  <2>2. NoMonitor(Emit(out, fd_value[v], LineOf("fdisplay", calls', args)), out)
    BY <1>1, <2>1, NoMonitorEmit
  <2>3. NoMonitor(out', out)
    BY <1>6, <2>2 DEF FDisplay
  <2> QED
    BY <1>1, <1>6, <2>3, MonitorKept DEF FDisplay
<1>7. ASSUME NEW v \in FdVars, OpenMcd(v) \/ OpenFd(v)
      PROVE  MonitorInv'
  <2>1. out' = out \/ out' = [out EXCEPT !.content = Append(@, <<>>)]
    BY <1>7 DEF OpenMcd, OpenFd
  <2>2. out'.stdout = out.stdout
    <3>1. out = [stdout |-> out.stdout, stderr |-> out.stderr, content |-> out.content]
      BY <1>1 DEF IsOut
    <3> QED
      BY <2>1, <3>1
  <2>3. NoMonitor(out', out)
    BY <2>2 DEF NoMonitor
  <2> QED
    BY <1>1, <1>7, <2>3, MonitorKept DEF OpenMcd, OpenFd
<1>8. ASSUME NEW v \in FdVars, OpenFails(v)
      PROVE  MonitorInv'
  <2>1. Notice("warning").task # "monitor"
    BY DEF Notice
  <2>2. NoMonitor(out', out)
    BY <1>1, <1>2, <1>8, <2>1 DEF OpenFails
  <2> QED
    BY <1>1, <1>8, <2>2, MonitorKept DEF OpenFails
<1>9. ASSUME NEW args \in ArgLists, Monitor(args)
      PROVE  MonitorInv'
  <2>1. /\ calls' = calls + 1 /\ out' = out /\ monitor_call' = calls' /\ monitor_last' = <<>>
        /\ monitor_args' = <<args>> /\ phase' # "advance"
    BY <1>9 DEF Monitor
  <2> QED
    BY <1>1, <2>1, MonitorBegun
<1>10. CASE MonitorOn
  <2>1. /\ calls' = calls + 1 /\ out' = out /\ monitor_call' = calls' /\ monitor_last' = <<>>
        /\ monitor_args' = monitor_args /\ phase' # "advance"
    BY <1>10 DEF MonitorOn
  <2>2. monitor_args # <<>> => monitor_args[1] \in ArgLists
    BY DEF MonitorInv
  <2> QED
    BY <1>1, <2>1, <2>2, MonitorBegun
<1>11. CASE Finish
  <2>1. Notice("finish").task # "monitor"
    BY DEF Notice
  <2>2. NoMonitor(out', out)
    BY <1>2, <1>11, <2>1 DEF Finish
  <2> QED
    BY <1>1, <1>11, <2>2, MonitorKept DEF Finish
<1>12. CASE Postponed
  BY <1>12, MonitorPostponed
<1>13. CASE StopAfterFinish
  <2>1. NoMonitor(out', out)
    BY <1>1, <1>13, NoMonitorStrobe DEF StopAfterFinish
  <2> QED
    BY <1>1, <1>13, <2>1, MonitorKept DEF StopAfterFinish
<1>14. CASE \/ \E d \in program.drives : Write(d.net, d.val)
            \/ \E v, w \in FdVars : AssignFd(v, w)
            \/ \E v \in FdVars, args \in ArgLists : FMonitor(v, args)
            \/ \E v \in FdVars \cup {NoFd}, args \in ArgLists : Strobe(v, args)
            \/ \E v \in FdVars : FClose(v)
            \/ MonitorOff
            \/ \E t \in 1 .. MaxTime : Advance(t)
            \/ End
  <2>1. /\ UNCHANGED <<out, monitor_args, monitor_last, monitor_call>>
        /\ calls' \in {calls, calls + 1} /\ phase' # "advance"
    BY <1>14 DEF Write, AssignFd, FMonitor, Strobe, FClose, MonitorOff, Advance, End
  <2>2. NoMonitor(out', out)
    BY <1>1, <2>1
  <2> QED
    BY <1>1, <2>1, <2>2, MonitorKept
<1> QED
  BY <1>3, <1>4, <1>5, <1>6, <1>7, <1>8, <1>9, <1>10, <1>11, <1>12, <1>13, <1>14 DEF Next

\* The snapshot of $monitor tells what the last line of the registration told.
THEOREM MonitorInvariant == Spec => []MonitorInv
<1>1. FilesInv /\ QueueInv /\ MonitorInv /\ [Next]_vars => MonitorInv'
  BY MonitorInvNext
<1> QED
  BY <1>1, MonitorInvInit, FilesInvariant, QueueInvariant, PTL DEF Spec

\* MonitorTellsChanges for every program, argument list and order of $monitor,
\* $monitoron, $monitoroff, writes and time steps.
THEOREM MonitorTells == Spec => []MonitorTellsChanges
<1>1. ASSUME MonitorInv
      PROVE  MonitorTellsChanges
  <2>1. MonitorAt = LinesOf(out.stdout, monitor_call)
    BY DEF MonitorAt, LinesOf
  <2>2. Told(out.stdout, monitor_call, monitor_args, monitor_last)
    BY <1>1 DEF MonitorInv
  <2>3. ASSUME phase = "advance", monitor_enabled, monitor_args # <<>>
        PROVE  \E i \in MonitorAt :
                 /\ \A j \in MonitorAt : j <= i
                 /\ TellSame(out.stdout[i].vals, MonitorVals, monitor_args[1])
    <3>1. monitor_last = <<MonitorVals>>
      BY <1>1, <2>3 DEF MonitorInv
    <3>2. monitor_last # <<>> /\ monitor_last[1] = MonitorVals
      BY <3>1
    <3> QED
      BY <2>1, <2>2, <3>2 DEF Told
  <2> QED
    BY <2>1, <2>2, <2>3 DEF Told, MonitorTellsChanges
<1> QED
  BY <1>1, MonitorInvariant, PTL

-----------------------------------------------------------------------------
(* Identifier codes, and lists of numbers *)

\* Identifier codes differ: one character below Chars, a pair of digits above.
LEMMA DivMod ==
  ASSUME NEW c \in Nat \ {0}, NEW a \in Nat, NEW b \in Nat,
         a \div c = b \div c, a % c = b % c
  PROVE  a = b
<1>1. a = (c * (a \div c)) + (a % c)
  OBVIOUS
<1>2. b = (c * (b \div c)) + (b % c)
  OBVIOUS
<1> QED
  BY <1>1, <1>2

LEMMA PairsEqual ==
  ASSUME NEW a, NEW b, NEW c, NEW d, <<a, b>> = <<c, d>>
  PROVE  a = c /\ b = d
OBVIOUS

LEMMA CodesDiffer ==
  ASSUME NEW m \in Nets, NEW n \in Nets, vcd_code(m) = vcd_code(n)
  PROVE  m = n
<1>1. m \in Nat /\ n \in Nat /\ Chars \in Nat \ {0}
  BY VcdAssumption DEF Nets
<1>2. CASE m < Chars /\ n < Chars
  BY <1>1, <1>2 DEF vcd_code
<1>3. CASE ~(m < Chars) /\ ~(n < Chars)
  <2>1. m - Chars \in Nat /\ n - Chars \in Nat
    BY <1>1, <1>3
  <2>2. vcd_code(m) = <<(m - Chars) \div Chars, (m - Chars) % Chars>>
        /\ vcd_code(n) = <<(n - Chars) \div Chars, (n - Chars) % Chars>>
    BY <1>3 DEF vcd_code
  <2>3. (m - Chars) \div Chars = (n - Chars) \div Chars
        /\ (m - Chars) % Chars = (n - Chars) % Chars
    <3> DEFINE a == (m - Chars) \div Chars
               b == (m - Chars) % Chars
               c == (n - Chars) \div Chars
               d == (n - Chars) % Chars
    <3>1. <<a, b>> = <<c, d>>
      BY <2>2
    <3> HIDE DEF a, b, c, d
    <3>2. a = c /\ b = d
      BY <3>1, PairsEqual
    <3> QED
      BY <3>2 DEF a, b, c, d
  <2>4. m - Chars = n - Chars
    BY <1>1, <2>1, <2>3, DivMod
  <2> QED
    BY <1>1, <2>4
<1>4. CASE m < Chars /\ ~(n < Chars)
  <2>1. Len(vcd_code(m)) = 1 /\ Len(vcd_code(n)) = 2
    BY <1>4 DEF vcd_code
  <2> QED
    BY <2>1
<1>5. CASE ~(m < Chars) /\ n < Chars
  <2>1. Len(vcd_code(m)) = 2 /\ Len(vcd_code(n)) = 1
    BY <1>5 DEF vcd_code
  <2> QED
    BY <2>1
<1> QED
  BY <1>2, <1>3, <1>4, <1>5

\* Ascending lists the elements of a set of numbers below k, none twice.
UpToIs(S, k, f) ==
  f = [i \in 0 .. k |->
         IF i = 0 THEN <<>>
         ELSE IF i - 1 \in S THEN Append(f[i - 1], i - 1) ELSE f[i - 1]]

Lists(q, S, k) ==
  /\ q \in Seq(Nat)
  /\ \A i \in 1 .. Len(q) : q[i] \in S /\ q[i] < k
  /\ \A x \in S : x < k => \E i \in 1 .. Len(q) : q[i] = x
  /\ \A i, j \in 1 .. Len(q) : q[i] = q[j] => i = j

LEMMA AscendingLists ==
  ASSUME NEW S \in SUBSET Nat, NEW k \in Nat
  PROVE  Lists(Ascending(S, k), S, k)
<1> DEFINE G == [p \in (1 .. k) \X Seq(Nat) |->
                   IF p[1] - 1 \in S THEN Append(p[2], p[1] - 1) ELSE p[2]]
<1>1. G \in [(1 .. k) \X Seq(Nat) -> Seq(Nat)]
  <2>1. ASSUME NEW p \in (1 .. k) \X Seq(Nat)
        PROVE  (IF p[1] - 1 \in S THEN Append(p[2], p[1] - 1) ELSE p[2]) \in Seq(Nat)
    <3>1. p[1] - 1 \in Nat /\ p[2] \in Seq(Nat)
      OBVIOUS
    <3>2. Append(p[2], p[1] - 1) \in Seq(Nat)
      BY <3>1, AppendProperties
    <3> QED
      BY <3>1, <3>2
  <2> QED
    BY <2>1
<1>2. \A i \in 1 .. k : \A q \in Seq(Nat) :
        G[<<i, q>>] = IF i - 1 \in S THEN Append(q, i - 1) ELSE q
  OBVIOUS
<1> HIDE DEF G
<1>3. \E f \in [0 .. k -> Seq(Nat)] : UpToIs(S, k, f)
  <2>1. <<>> \in Seq(Nat)
    OBVIOUS
  <2>2. PICK f \in [0 .. k -> Seq(Nat)] : AlongList(f, k, <<>>, G)
    <3> DEFINE V == Seq(Nat)
    <3>1. G \in [(1 .. k) \X V -> V] /\ <<>> \in V
      BY <1>1, <2>1
    <3> HIDE DEF V
    <3>2. \E f \in [0 .. k -> V] : AlongList(f, k, <<>>, G)
      BY <3>1, ListRecursion
    <3> QED
      BY <3>2 DEF V
  <2>3. ASSUME NEW i \in 0 .. k
        PROVE  f[i] = IF i = 0 THEN <<>>
                      ELSE IF i - 1 \in S THEN Append(f[i - 1], i - 1) ELSE f[i - 1]
    <3>1. f[i] = IF i = 0 THEN <<>> ELSE G[<<i, f[i - 1]>>]
      BY <2>2 DEF AlongList
    <3>2. CASE i = 0
      BY <3>1, <3>2
    <3>3. CASE i # 0
      <4>1. i \in 1 .. k /\ i - 1 \in 0 .. k
        BY <3>3
      <4>2. f[i - 1] \in Seq(Nat)
        BY <4>1
      <4> QED
        BY <1>2, <3>1, <3>3, <4>1, <4>2
    <3> QED
      BY <3>2, <3>3
  <2>4. f = [i \in 0 .. k |-> f[i]]
    OBVIOUS
  <2> QED
    BY <2>3, <2>4 DEF UpToIs
<1>4. \E f : UpToIs(S, k, f)
  BY <1>3
<1> DEFINE f == CHOOSE f : UpToIs(S, k, f)
<1>5. UpToIs(S, k, f)
  BY <1>4
<1>6. Ascending(S, k) = f[k]
  BY DEF Ascending, UpToIs
<1> HIDE DEF f
<1> DEFINE T == {i \in 0 .. k : Lists(f[i], S, i)}
<1>7. 0 \in T
  <2>1. f[0] = <<>>
    <3>1. 0 \in 0 .. k
      OBVIOUS
    <3> QED
      BY <1>5, <3>1 DEF UpToIs
  <2>2. Lists(<<>>, S, 0)
    BY DEF Lists
  <2> QED
    BY <2>1, <2>2
<1>8. ASSUME NEW i \in 1 .. k, i - 1 \in T
      PROVE  i \in T
  <2> DEFINE q == f[i - 1]
  <2>1. Lists(q, S, i - 1)
    BY <1>8
  <2>2. f[i] = IF i - 1 \in S THEN Append(q, i - 1) ELSE q
    <3>1. i \in 0 .. k /\ i # 0
      OBVIOUS
    <3> QED
      BY <1>5, <3>1 DEF UpToIs
  <2>3. i - 1 \in Nat
    OBVIOUS
  <2> HIDE DEF q
  <2>4. CASE i - 1 \in S
    <3> DEFINE r == Append(q, i - 1)
    <3>1. /\ r \in Seq(Nat) /\ Len(r) = Len(q) + 1 /\ Len(q) \in Nat
          /\ \A j \in 1 .. Len(q) : r[j] = q[j]
          /\ r[Len(q) + 1] = i - 1
      BY <2>1, <2>3, AppendProperties, LenProperties DEF Lists
    <3> HIDE DEF r
    <3>2. \A j \in 1 .. Len(r) : j = Len(q) + 1 \/ j \in 1 .. Len(q)
      BY <3>1
    <3>3. \A j \in 1 .. Len(q) : q[j] \in S /\ q[j] < i - 1 /\ q[j] \in Nat
      BY <2>1 DEF Lists
    <3>4. \A j \in 1 .. Len(r) : r[j] \in S /\ r[j] < i
      BY <2>3, <2>4, <3>1, <3>2, <3>3
    <3>5. ASSUME NEW x \in S, x < i
          PROVE  \E j \in 1 .. Len(r) : r[j] = x
      <4>1. CASE x = i - 1
        BY <3>1, <4>1
      <4>2. CASE x # i - 1
        <5>1. x < i - 1
          BY <3>5, <4>2
        <5>2. PICK j \in 1 .. Len(q) : q[j] = x
          BY <2>1, <5>1 DEF Lists
        <5> QED
          BY <3>1, <5>2
      <4> QED
        BY <4>1, <4>2
    <3>6. ASSUME NEW j \in 1 .. Len(r), NEW l \in 1 .. Len(r), r[j] = r[l]
          PROVE  j = l
      <4>1. CASE j \in 1 .. Len(q) /\ l \in 1 .. Len(q)
        BY <2>1, <3>1, <3>6, <4>1 DEF Lists
      <4>2. CASE j = Len(q) + 1 /\ l \in 1 .. Len(q)
        BY <2>3, <3>1, <3>3, <3>6, <4>2
      <4>3. CASE j \in 1 .. Len(q) /\ l = Len(q) + 1
        BY <2>3, <3>1, <3>3, <3>6, <4>3
      <4> QED
        BY <3>2, <4>1, <4>2, <4>3
    <3>7. Lists(r, S, i)
      BY <3>1, <3>4, <3>5, <3>6 DEF Lists
    <3>8. f[i] = r
      BY <2>2, <2>4 DEF r
    <3> QED
      BY <3>7, <3>8
  <2>5. CASE i - 1 \notin S
    <3>1. \A x \in S : x < i => x < i - 1
      BY <2>5
    <3>2. \A j \in 1 .. Len(q) : q[j] \in Nat
      BY <2>1 DEF Lists
    <3>3. Lists(q, S, i)
      BY <2>1, <3>1, <3>2 DEF Lists
    <3> QED
      BY <2>2, <2>5, <3>3
  <2> QED
    BY <2>4, <2>5
<1>9. 0 .. k \subseteq T
  <2> HIDE DEF T
  <2> QED
    BY <1>7, <1>8, ListInduction
<1>10. k \in T
  <2> HIDE DEF T
  <2> QED
    BY <1>9
<1> QED
  BY <1>6, <1>10

-----------------------------------------------------------------------------
(* The header *)

ScopeToken(s) == [kind |-> "scope", scope |-> s]
VarToken(n) ==
  [kind |-> "var", net |-> n, code |-> vcd_code(n), width |-> Width[n]]
UpToken == [kind |-> "upscope"]

Tokens ==
  {ScopeToken(s) : s \in Scopes} \cup {VarToken(n) : n \in Nets} \cup {UpToken}

\* The children of a scope, all of them, once, and none above it.
LEMMA ChildrenFacts ==
  ASSUME NEW s \in Scopes
  PROVE  /\ Children(s) \in Seq(Nat) /\ Len(Children(s)) \in Nat
         /\ \A i \in 1 .. Len(Children(s)) :
              /\ Children(s)[i] \in Scopes /\ Children(s)[i] # 0
              /\ Parent[Children(s)[i]] = s /\ s < Children(s)[i]
         /\ \A c \in Scopes : c # 0 /\ Parent[c] = s =>
              \E i \in 1 .. Len(Children(s)) : Children(s)[i] = c
         /\ \A i, j \in 1 .. Len(Children(s)) : Children(s)[i] = Children(s)[j] => i = j
<1> DEFINE S == {c \in Scopes \ {0} : Parent[c] = s}
<1>1. S \in SUBSET Nat /\ ScopeCount \in Nat /\ \A c \in S : c < ScopeCount
  BY VcdAssumption DEF Scopes
<1>2. Children(s) = Ascending(S, ScopeCount)
  BY DEF Children
<1>3. Lists(Children(s), S, ScopeCount)
  <2> HIDE DEF S
  <2> QED
    BY <1>1, <1>2, AscendingLists
<1>4. \A c \in S : c \in Scopes /\ c # 0 /\ Parent[c] = s /\ s < c
  BY VcdAssumption
<1>5. \A c \in Scopes : c # 0 /\ Parent[c] = s => c \in S
  OBVIOUS
<1> HIDE DEF S
<1> QED
  BY <1>1, <1>3, <1>4, <1>5, LenProperties DEF Lists

\* The nets of a scope likewise.
LEMMA VarsFacts ==
  ASSUME NEW s \in Scopes
  PROVE  /\ Vars(s) \in Seq(Tokens) /\ Len(Vars(s)) \in Nat
         /\ \A i \in 1 .. Len(Vars(s)) : \E n \in Nets :
              Vars(s)[i] = VarToken(n) /\ ScopeOf[n] = s
         /\ \A n \in Nets : ScopeOf[n] = s =>
              \E i \in 1 .. Len(Vars(s)) : Vars(s)[i] = VarToken(n)
         /\ \A i, j \in 1 .. Len(Vars(s)) : Vars(s)[i].net = Vars(s)[j].net => i = j
<1> DEFINE S == {n \in Nets : ScopeOf[n] = s}
<1>1. S \in SUBSET Nat /\ NetCount \in Nat /\ \A n \in S : n < NetCount
  BY VcdAssumption DEF Nets
<1>2. NetsOf(s) = Ascending(S, NetCount)
  BY DEF NetsOf
<1>3. Lists(NetsOf(s), S, NetCount)
  <2> HIDE DEF S
  <2> QED
    BY <1>1, <1>2, AscendingLists
<1> DEFINE q == NetsOf(s)
<1>4. /\ q \in Seq(Nat) /\ Len(q) \in Nat /\ DOMAIN q = 1 .. Len(q)
      /\ \A i \in 1 .. Len(q) : q[i] \in Nets /\ ScopeOf[q[i]] = s
      /\ \A n \in Nets : ScopeOf[n] = s => \E i \in 1 .. Len(q) : q[i] = n
      /\ \A i, j \in 1 .. Len(q) : q[i] = q[j] => i = j
  <2>1. \A n \in S : n \in Nets /\ ScopeOf[n] = s
    OBVIOUS
  <2>2. \A n \in Nets : ScopeOf[n] = s => n \in S
    OBVIOUS
  <2> HIDE DEF S
  <2> QED
    BY <1>1, <1>3, <2>1, <2>2, LenProperties DEF Lists
<1>5. Vars(s) = [i \in 1 .. Len(q) |-> VarToken(q[i])]
  BY <1>4 DEF Vars, VarToken
<1> HIDE DEF q, S
<1>6. \A i \in 1 .. Len(q) : VarToken(q[i]) \in Tokens
  BY <1>4 DEF Tokens
<1>7. Vars(s) \in Seq(Tokens) /\ Len(Vars(s)) = Len(q)
  <2> HIDE DEF Tokens
  <2> QED
    BY <1>4, <1>5, <1>6
<1>8. \A n : VarToken(n).net = n
  BY DEF VarToken
<1>9. \A i \in 1 .. Len(Vars(s)) : Vars(s)[i] = VarToken(q[i]) /\ Vars(s)[i].net = q[i]
  BY <1>5, <1>7, <1>8
<1> QED
  BY <1>4, <1>7, <1>9

-----------------------------------------------------------------------------
(* write_scope_dfs as a function *)

BelowIs(w, s, b) ==
  b = [i \in 0 .. Len(Children(s)) |->
         IF i = 0 THEN <<>> ELSE b[i - 1] \o w[Children(s)[i]]]

BelowOf(w, s) == CHOOSE b : BelowIs(w, s, b)

Whole(w, s) ==
  <<ScopeToken(s)>> \o Vars(s) \o BelowOf(w, s)[Len(Children(s))] \o <<UpToken>>

SearchIs(w) == w = [s \in Scopes |-> Whole(w, s)]

LEMMA SearchDef == write_scope_dfs = CHOOSE w : SearchIs(w)
BY DEF write_scope_dfs, SearchIs, Whole, BelowOf, BelowIs, ScopeToken, UpToken

LEMMA BelowFacts ==
  ASSUME NEW w \in [Scopes -> Seq(Tokens)], NEW s \in Scopes
  PROVE  /\ BelowIs(w, s, BelowOf(w, s))
         /\ BelowOf(w, s) \in [0 .. Len(Children(s)) -> Seq(Tokens)]
<1> DEFINE n == Len(Children(s))
           V == Seq(Tokens)
           G == [p \in (1 .. n) \X V |-> p[2] \o w[Children(s)[p[1]]]]
<1>1. n \in Nat /\ \A i \in 1 .. n : Children(s)[i] \in Scopes
  BY ChildrenFacts
<1>2. \A i \in 1 .. n : w[Children(s)[i]] \in V
  BY <1>1
<1>3. \A x, y \in V : x \o y \in V
  BY ConcatProperties
<1>4. <<>> \in V
  BY EmptySeq
<1> HIDE DEF n, V
<1>5. G \in [(1 .. n) \X V -> V]
  BY <1>2, <1>3
<1>6. \A i \in 1 .. n : \A x \in V : G[<<i, x>>] = x \o w[Children(s)[i]]
  OBVIOUS
<1> HIDE DEF G
<1>7. PICK b \in [0 .. n -> V] : AlongList(b, n, <<>>, G)
  BY <1>1, <1>4, <1>5, ListRecursion
<1>8. ASSUME NEW i \in 0 .. n
      PROVE  b[i] = IF i = 0 THEN <<>> ELSE b[i - 1] \o w[Children(s)[i]]
  <2>1. b[i] = IF i = 0 THEN <<>> ELSE G[<<i, b[i - 1]>>]
    BY <1>7 DEF AlongList
  <2>2. i # 0 => i \in 1 .. n /\ i - 1 \in 0 .. n
    BY <1>1
  <2> QED
    BY <1>6, <2>1, <2>2
<1>9. b = [i \in 0 .. n |-> b[i]]
  OBVIOUS
<1>10. BelowIs(w, s, b)
  BY <1>8, <1>9 DEF BelowIs, n
<1>11. BelowIs(w, s, BelowOf(w, s))
  BY <1>10 DEF BelowOf
<1> DEFINE c == BelowOf(w, s)
<1>12. \A i \in 0 .. n : c[i] = IF i = 0 THEN <<>> ELSE c[i - 1] \o w[Children(s)[i]]
  BY <1>11 DEF BelowIs, n
<1>13. DOMAIN c = 0 .. n /\ c = [i \in 0 .. n |-> c[i]]
  BY <1>11 DEF BelowIs, n
<1> HIDE DEF c
<1> DEFINE T == {i \in 0 .. n : c[i] \in V}
<1>14. 0 \in T
  BY <1>1, <1>4, <1>12
<1>15. ASSUME NEW i \in 1 .. n, i - 1 \in T
       PROVE  i \in T
  <2>1. i \in 0 .. n /\ i # 0
    BY <1>1
  <2> QED
    BY <1>2, <1>3, <1>12, <1>15, <2>1
<1>16. 0 .. n \subseteq T
  <2> HIDE DEF T
  <2> QED
    BY <1>1, <1>14, <1>15, ListInduction
<1> QED
  BY <1>11, <1>13, <1>16 DEF c, V, n

\* It depends on the children only.
LEMMA BelowSame ==
  ASSUME NEW w, NEW v, NEW s \in Scopes,
         \A i \in 1 .. Len(Children(s)) : w[Children(s)[i]] = v[Children(s)[i]]
  PROVE  BelowOf(w, s) = BelowOf(v, s)
<1> DEFINE n == Len(Children(s))
<1>1. n \in Nat
  BY ChildrenFacts
<1>2. ASSUME NEW b
      PROVE  BelowIs(w, s, b) <=> BelowIs(v, s, b)
  <2>1. \A i \in 0 .. n : i # 0 => i \in 1 .. n
    BY <1>1
  <2>2. \A i \in 0 .. n : (IF i = 0 THEN <<>> ELSE b[i - 1] \o w[Children(s)[i]])
                         = (IF i = 0 THEN <<>> ELSE b[i - 1] \o v[Children(s)[i]])
    BY <2>1
  <2>3. [i \in 0 .. n |-> IF i = 0 THEN <<>> ELSE b[i - 1] \o w[Children(s)[i]]]
        = [i \in 0 .. n |-> IF i = 0 THEN <<>> ELSE b[i - 1] \o v[Children(s)[i]]]
    BY <2>2
  <2> QED
    BY <2>3 DEF BelowIs
<1> QED
  BY <1>2 DEF BelowOf

LEMMA WholeTyped ==
  ASSUME NEW w \in [Scopes -> Seq(Tokens)], NEW s \in Scopes
  PROVE  Whole(w, s) \in Seq(Tokens)
<1>1. <<ScopeToken(s)>> \in Seq(Tokens) /\ <<UpToken>> \in Seq(Tokens)
  <2>1. ScopeToken(s) \in Tokens /\ UpToken \in Tokens
    BY DEF Tokens
  <2> HIDE DEF Tokens
  <2> QED
    BY <2>1
<1>2. Vars(s) \in Seq(Tokens)
  BY VarsFacts
<1>3. BelowOf(w, s)[Len(Children(s))] \in Seq(Tokens)
  BY BelowFacts, ChildrenFacts
<1> QED
  BY <1>1, <1>2, <1>3, ConcatProperties DEF Whole

\* The search is well defined: the children of a scope have higher numbers.
LEMMA SearchFacts ==
  /\ write_scope_dfs \in [Scopes -> Seq(Tokens)]
  /\ \A s \in Scopes : write_scope_dfs[s] = Whole(write_scope_dfs, s)
<1> DEFINE V == [Scopes -> Seq(Tokens)]
           From(k) == {s \in Scopes : k <= s}
           T == {k \in 0 .. ScopeCount :
                   \E w \in V : \A s \in From(k) : w[s] = Whole(w, s)}
<1>1. ScopeCount \in Nat /\ \A s \in Scopes : s \in Nat /\ s < ScopeCount
  BY VcdAssumption DEF Scopes
<1>2. ScopeCount \in T
  <2>1. From(ScopeCount) = {}
    BY <1>1
  <2>2. [s \in Scopes |-> <<>>] \in V
    BY EmptySeq
  <2>3. \E w \in V : \A s \in From(ScopeCount) : w[s] = Whole(w, s)
    <3> HIDE DEF From, V
    <3> QED
      BY <2>1, <2>2
  <2>4. ScopeCount \in 0 .. ScopeCount
    BY <1>1
  <2> QED
    BY <2>3, <2>4
<1>3. ASSUME NEW k \in 0 .. ScopeCount - 1, k + 1 \in T
      PROVE  k \in T
  <2>1. PICK w \in V : \A s \in From(k + 1) : w[s] = Whole(w, s)
    BY <1>3
  <2> DEFINE v == [w EXCEPT ![k] = Whole(w, k)]
  <2>2. k \in Scopes
    BY DEF Scopes
  <2>3. v \in V /\ v[k] = Whole(w, k) /\ \A s \in Scopes : s # k => v[s] = w[s]
    BY <2>2, WholeTyped
  <2> HIDE DEF v
  <2>4. ASSUME NEW s \in From(k)
        PROVE  v[s] = Whole(v, s)
    <3>1. s \in Scopes /\ k <= s
      OBVIOUS
    <3>2. \A i \in 1 .. Len(Children(s)) : w[Children(s)[i]] = v[Children(s)[i]]
      BY <1>1, <2>2, <2>3, <3>1, ChildrenFacts
    <3>3. Whole(v, s) = Whole(w, s)
      BY <3>1, <3>2, BelowSame DEF Whole
    <3>4. CASE s = k
      BY <2>3, <3>3, <3>4
    <3>5. CASE s # k
      <4>1. s \in From(k + 1)
        BY <1>1, <2>2, <3>1, <3>5
      <4> QED
        BY <2>1, <2>3, <3>1, <3>3, <3>5, <4>1
    <3> QED
      BY <3>4, <3>5
  <2>5. k \in 0 .. ScopeCount
    BY <1>1
  <2> QED
    BY <2>3, <2>4, <2>5
<1>4. 0 .. ScopeCount \subseteq T
  <2> HIDE DEF T
  <2> QED
    BY <1>1, <1>2, <1>3, ListInductionDown
<1>5. PICK w \in V : \A s \in From(0) : w[s] = Whole(w, s)
  <2>1. 0 \in 0 .. ScopeCount
    BY <1>1
  <2> QED
    BY <1>4, <2>1
<1>6. \A s \in Scopes : w[s] = Whole(w, s)
  BY <1>1, <1>5
<1>7. SearchIs(w)
  <2>1. w = [s \in Scopes |-> w[s]]
    OBVIOUS
  <2> QED
    BY <1>6, <2>1 DEF SearchIs
<1>8. SearchIs(write_scope_dfs)
  BY <1>7, SearchDef
<1> DEFINE x == write_scope_dfs
           U == {k \in 0 .. ScopeCount : \A s \in From(k) : x[s] = w[s]}
<1>9. (\A s \in Scopes : x[s] = Whole(x, s)) /\ x = [s \in Scopes |-> x[s]]
  BY <1>8 DEF SearchIs
<1> HIDE DEF x
<1>10. ScopeCount \in U
  <2>1. From(ScopeCount) = {}
    BY <1>1
  <2> QED
    BY <1>1, <2>1
<1>11. ASSUME NEW k \in 0 .. ScopeCount - 1, k + 1 \in U
       PROVE  k \in U
  <2>1. ASSUME NEW s \in From(k)
        PROVE  x[s] = w[s]
    <3>1. \A i \in 1 .. Len(Children(s)) : Children(s)[i] \in From(k + 1)
      BY <1>1, ChildrenFacts
    <3>2. \A i \in 1 .. Len(Children(s)) : x[Children(s)[i]] = w[Children(s)[i]]
      BY <1>11, <3>1
    <3>3. BelowOf(x, s) = BelowOf(w, s)
      BY <3>2, BelowSame
    <3>4. x[s] = Whole(x, s) /\ w[s] = Whole(w, s)
      BY <1>6, <1>9
    <3> QED
      BY <3>3, <3>4 DEF Whole
  <2> QED
    BY <1>1, <2>1
<1>12. 0 .. ScopeCount \subseteq U
  <2> HIDE DEF U
  <2> QED
    BY <1>1, <1>10, <1>11, ListInductionDown
<1>13. \A s \in Scopes : x[s] = w[s]
  <2>1. 0 \in U
    BY <1>1, <1>12
  <2> QED
    BY <1>1, <2>1
<1>14. x \in [Scopes -> Seq(Tokens)]
  <2>1. \A s \in Scopes : x[s] \in Seq(Tokens)
    BY <1>13
  <2> HIDE DEF Tokens
  <2> QED
    BY <1>9, <2>1
<1> QED
  BY <1>9, <1>14 DEF x

-----------------------------------------------------------------------------
(* The way to a scope *)

Way(g, s) == IF s = 0 THEN <<0>> ELSE Append(g[Parent[s]], s)
PathIs(g) == g = [s \in Scopes |-> Way(g, s)]

LEMMA PathDef == Path = CHOOSE g : PathIs(g)
BY DEF Path, PathIs, Way

\* Every scope lies on a way of its own from the top, along which numbers grow.
IsWay(q, t) ==
  /\ q \in Seq(Scopes) /\ Len(q) \in Nat \ {0}
  /\ q[1] = 0 /\ q[Len(q)] = t
  /\ \A k \in 2 .. Len(q) : q[k] # 0 /\ q[k - 1] = Parent[q[k]]
  /\ \A j, k \in 1 .. Len(q) : j < k => q[j] < q[k]

LEMMA ScopeNumbers ==
  /\ ScopeCount \in Nat /\ 0 \in Scopes
  /\ \A s \in Scopes : s \in Nat /\ s < ScopeCount
  /\ \A s \in Scopes : s # 0 => Parent[s] \in Scopes /\ Parent[s] < s
BY VcdAssumption DEF Scopes

LEMMA PathExists == PathIs(Path)
<1> DEFINE V == [Scopes -> Seq(Scopes)]
           T == {k \in 0 .. ScopeCount :
                   \E g \in V : \A s \in Scopes : s < k => g[s] = Way(g, s)}
<1>1. 0 \in T
  <2>1. [s \in Scopes |-> <<>>] \in V
    BY EmptySeq
  <2>2. \A s \in Scopes : ~(s < 0)
    BY ScopeNumbers
  <2>3. \E g \in V : \A s \in Scopes : s < 0 => g[s] = Way(g, s)
    <3> HIDE DEF V
    <3> QED
      BY <2>1, <2>2
  <2> QED
    BY <2>3, ScopeNumbers
<1>2. ASSUME NEW k \in 1 .. ScopeCount, k - 1 \in T
      PROVE  k \in T
  <2>1. PICK g \in V : \A s \in Scopes : s < k - 1 => g[s] = Way(g, s)
    BY <1>2
  <2> DEFINE h == [g EXCEPT ![k - 1] = Way(g, k - 1)]
  <2>2. k - 1 \in Scopes
    BY ScopeNumbers DEF Scopes
  <2>3. Way(g, k - 1) \in Seq(Scopes)
    <3>1. CASE k - 1 = 0
      BY <3>1, ScopeNumbers DEF Way
    <3>2. CASE k - 1 # 0
      <4>1. g[Parent[k - 1]] \in Seq(Scopes)
        BY <2>2, <3>2, ScopeNumbers
      <4>2. Append(g[Parent[k - 1]], k - 1) \in Seq(Scopes)
        BY <2>2, <4>1, AppendProperties
      <4> QED
        BY <3>2, <4>2 DEF Way
    <3> QED
      BY <3>1, <3>2
  <2>4. h \in V /\ h[k - 1] = Way(g, k - 1) /\ \A s \in Scopes : s # k - 1 => h[s] = g[s]
    BY <2>2, <2>3
  <2> HIDE DEF h
  <2>5. ASSUME NEW s \in Scopes, s < k
        PROVE  h[s] = Way(h, s)
    <3>1. s # 0 => Parent[s] \in Scopes /\ Parent[s] # k - 1
      BY <2>5, ScopeNumbers
    <3>2. Way(h, s) = Way(g, s)
      <4>1. s # 0 => h[Parent[s]] = g[Parent[s]]
        BY <2>4, <3>1
      <4> HIDE DEF V
      <4> QED
        BY <4>1, Zenon DEF Way
    <3>3. s = k - 1 \/ s < k - 1
      <4>1. s \in Nat /\ k \in Nat
        BY ScopeNumbers
      <4> QED
        BY <2>5, <4>1
    <3>4. CASE s = k - 1
      <4> HIDE DEF V
      <4>1. h[s] = Way(g, s)
        BY <2>4, <3>4
      <4> QED
        BY <3>2, <4>1
    <3>5. CASE s # k - 1
      <4>1. h[s] = g[s] /\ g[s] = Way(g, s)
        BY <2>1, <2>4, <3>3, <3>5
      <4> QED
        BY <3>2, <4>1
    <3> QED
      BY <3>4, <3>5
  <2>6. k \in 0 .. ScopeCount
    OBVIOUS
  <2> QED
    BY <2>4, <2>5, <2>6
<1>3. 0 .. ScopeCount \subseteq T
  <2> HIDE DEF T
  <2> QED
    BY <1>1, <1>2, ListInduction, ScopeNumbers
<1>4. PICK g \in V : \A s \in Scopes : s < ScopeCount => g[s] = Way(g, s)
  <2>1. ScopeCount \in 0 .. ScopeCount
    BY ScopeNumbers
  <2> QED
    BY <1>3, <2>1
<1>5. PathIs(g)
  <2>1. \A s \in Scopes : g[s] = Way(g, s)
    BY <1>4, ScopeNumbers
  <2>2. g = [s \in Scopes |-> g[s]]
    OBVIOUS
  <2> QED
    BY <2>1, <2>2 DEF PathIs
<1> QED
  BY <1>5, PathDef

LEMMA PathStep ==
  /\ Path[0] = <<0>>
  /\ \A s \in Scopes : s # 0 => Path[s] = Append(Path[Parent[s]], s)
<1>1. \A s \in Scopes : Path[s] = Way(Path, s)
  BY PathExists DEF PathIs
<1> QED
  BY <1>1, ScopeNumbers DEF Way

LEMMA PathFacts == \A t \in Scopes : IsWay(Path[t], t)
<1> DEFINE T == {k \in 0 .. ScopeCount : \A t \in Scopes : t < k => IsWay(Path[t], t)}
<1>1. 0 \in T
  BY ScopeNumbers
<1>2. ASSUME NEW k \in 1 .. ScopeCount, k - 1 \in T
      PROVE  k \in T
  <2> DEFINE t == k - 1
             q == Path[Parent[t]]
             r == Path[t]
  <2>1. t \in Scopes /\ t \in Nat
    BY ScopeNumbers DEF Scopes
  <2>2. ASSUME t = 0
        PROVE  IsWay(Path[t], t)
    <3>1. r = <<0>>
      BY <2>2, PathStep
    <3>2. IsWay(<<0>>, 0)
      BY ScopeNumbers DEF IsWay
    <3> QED
      BY <2>2, <3>1, <3>2
  <2>3. ASSUME t # 0
        PROVE  IsWay(Path[t], t)
    <3>1. Parent[t] \in Scopes /\ Parent[t] < t /\ Parent[t] \in Nat
      BY <2>1, <2>3, ScopeNumbers
    <3>2. IsWay(q, Parent[t])
      BY <1>2, <3>1
    <3>3. r = Append(q, t)
      BY <2>1, <2>3, PathStep
    <3> HIDE DEF q, r, t
    <3> DEFINE m == Len(q)
    <3>4. /\ q \in Seq(Scopes) /\ m \in Nat \ {0} /\ q[1] = 0 /\ q[m] = Parent[t]
          /\ \A j \in 1 .. m : q[j] \in Scopes /\ q[j] \in Nat
      BY <3>2, ScopeNumbers DEF IsWay
    <3>5. /\ r \in Seq(Scopes) /\ Len(r) = m + 1 /\ r[m + 1] = t
          /\ \A j \in 1 .. m : r[j] = q[j]
      BY <2>1, <3>3, <3>4, AppendProperties
    <3> HIDE DEF m
    <3>6. \A j \in 1 .. Len(r) : j = m + 1 \/ j \in 1 .. m
      BY <3>4, <3>5
    <3>7. \A j \in 1 .. m : q[j] <= Parent[t]
      <4>1. ASSUME NEW j \in 1 .. m
            PROVE  q[j] <= Parent[t]
        <5>1. CASE j = m
          BY <3>1, <3>4, <5>1
        <5>2. CASE j # m
          <6>1. j < m /\ m \in 1 .. m
            BY <3>4, <5>2
          <6>2. q[j] < q[m]
            BY <3>2, <6>1 DEF IsWay, m
          <6> QED
            BY <3>1, <3>4, <6>2
        <5> QED
          BY <5>1, <5>2
      <4> QED
        BY <4>1
    <3>8. ASSUME NEW l \in 2 .. Len(r)
          PROVE  r[l] # 0 /\ r[l - 1] = Parent[r[l]]
      <4>1. CASE l = m + 1
        <5>1. l - 1 = m /\ m \in 1 .. m
          BY <3>4, <4>1
        <5> QED
          BY <2>3, <3>4, <3>5, <4>1, <5>1
      <4>2. CASE l # m + 1
        <5>1. l \in 2 .. m /\ l \in 1 .. m /\ l - 1 \in 1 .. m
          BY <3>4, <3>5, <4>2
        <5>2. q[l] # 0 /\ q[l - 1] = Parent[q[l]]
          BY <3>2, <5>1 DEF IsWay, m
        <5> QED
          BY <3>5, <5>1, <5>2
      <4> QED
        BY <4>1, <4>2
    <3>9. ASSUME NEW j \in 1 .. Len(r), NEW l \in 1 .. Len(r), j < l
          PROVE  r[j] < r[l]
      <4>1. j \in 1 .. m
        BY <3>4, <3>5, <3>9
      <4>2. CASE l = m + 1
        BY <2>1, <3>1, <3>4, <3>5, <3>7, <4>1, <4>2
      <4>3. CASE l \in 1 .. m
        <5>1. q[j] < q[l]
          BY <3>2, <3>9, <4>1, <4>3 DEF IsWay, m
        <5> QED
          BY <3>5, <4>1, <4>3, <5>1
      <4> QED
        BY <3>6, <4>2, <4>3
    <3>10. r[1] = 0 /\ r[Len(r)] = t /\ Len(r) \in Nat \ {0}
      BY <3>4, <3>5
    <3>11. IsWay(r, t)
      BY <3>5, <3>8, <3>9, <3>10 DEF IsWay
    <3> QED
      BY <3>11 DEF r
  <2>4. IsWay(Path[t], t)
    BY <2>2, <2>3
  <2>5. ASSUME NEW s \in Scopes, s < k
        PROVE  IsWay(Path[s], s)
    <3>1. s = t \/ s < k - 1
      BY <2>5, ScopeNumbers
    <3> HIDE DEF t
    <3> QED
      BY <1>2, <2>4, <3>1
  <2>6. k \in 0 .. ScopeCount
    OBVIOUS
  <2> QED
    BY <2>5, <2>6
<1>3. 0 .. ScopeCount \subseteq T
  <2> HIDE DEF T
  <2> QED
    BY <1>1, <1>2, ListInduction, ScopeNumbers
<1>4. ScopeCount \in T
  <2>1. ScopeCount \in 0 .. ScopeCount
    BY ScopeNumbers
  <2> QED
    BY <1>3, <2>1
<1> QED
  BY <1>4, ScopeNumbers

\* A scope lies on the way to another.
Leads(s, t) == \E k \in 1 .. Len(Path[t]) : Path[t][k] = s

LEMMA LeadsFacts ==
  ASSUME NEW s \in Scopes, NEW t \in Scopes
  PROVE  /\ Leads(t, t)
         /\ Leads(s, t) => s <= t
         /\ Leads(s, t) /\ s # 0 => Leads(Parent[s], t)
         /\ \A c \in Scopes : c # 0 /\ s # 0 /\ Parent[c] = Parent[s]
                              /\ Leads(s, t) /\ Leads(c, t) => c = s
<1> DEFINE q == Path[t]
           m == Len(q)
<1>1. IsWay(q, t)
  BY PathFacts
<1> HIDE DEF q
<1>2. /\ m \in Nat \ {0} /\ q[1] = 0 /\ q[m] = t
      /\ \A j \in 1 .. m : q[j] \in Scopes /\ q[j] \in Nat
      /\ \A k \in 2 .. m : q[k] # 0 /\ q[k - 1] = Parent[q[k]]
      /\ \A j, k \in 1 .. m : j < k => q[j] < q[k]
  BY <1>1, ScopeNumbers DEF IsWay
<1>3. \A c : Leads(c, t) <=> \E k \in 1 .. m : q[k] = c
  BY DEF Leads, q
<1> HIDE DEF m
<1>4. m \in 1 .. m
  BY <1>2
<1>5. Leads(s, t) => s <= t
  <2>1. ASSUME NEW k \in 1 .. m, q[k] = s
        PROVE  s <= t
    <3>1. k = m \/ k < m
      BY <1>2
    <3> QED
      BY <1>2, <1>4, <2>1, <3>1, ScopeNumbers
  <2> QED
    BY <1>3, <2>1
<1>6. ASSUME NEW c \in Scopes, c # 0, NEW k \in 1 .. m, q[k] = c
      PROVE  k \in 2 .. m /\ k - 1 \in 1 .. m /\ q[k - 1] = Parent[c]
  <2>1. k # 1
    BY <1>2, <1>6
  <2>2. k \in 2 .. m /\ k - 1 \in 1 .. m
    BY <1>2, <2>1
  <2> QED
    BY <1>2, <1>6, <2>2
<1>7. ASSUME NEW c \in Scopes, c # 0, s # 0, Parent[c] = Parent[s],
             NEW j \in 1 .. m, NEW k \in 1 .. m, q[j] = s, q[k] = c
      PROVE  c = s
  <2>1. j - 1 \in 1 .. m /\ k - 1 \in 1 .. m /\ q[j - 1] = q[k - 1]
    BY <1>6, <1>7
  <2>2. ~(j - 1 < k - 1) /\ ~(k - 1 < j - 1)
    <3>1. q[j - 1] \in Nat /\ q[k - 1] \in Nat
      BY <1>2, <2>1
    <3> QED
      BY <1>2, <2>1, <3>1
  <2>3. j = k
    BY <1>2, <2>2
  <2> QED
    BY <1>7, <2>3
<1> QED
  BY <1>2, <1>3, <1>4, <1>5, <1>6, <1>7

-----------------------------------------------------------------------------
(* Reading the header *)

\* What a reader does with a token to the list of open scopes.
Turn(open, t) ==
  IF t.kind = "scope" THEN Append(open, t.scope)
  ELSE IF t.kind = "upscope" THEN SubSeq(open, 1, Len(open) - 1)
  ELSE open

Follows(f, T, p) == f[0] = p /\ \A i \in 1 .. Len(T) : f[i] = Turn(f[i - 1], T[i])

\* A part of the header that opens and closes its scopes, and declares every net
\* below the scope of the net.
Nested(T, p) ==
  \A f : Follows(f, T, p) =>
    /\ f[Len(T)] = p
    /\ \A i \in 1 .. Len(T) : \A n \in Nets :
         T[i] = VarToken(n) => f[i] = Path[ScopeOf[n]]

In(T, n) == \E i \in 1 .. Len(T) : T[i] = VarToken(n)

Once(T) ==
  \A i, j \in 1 .. Len(T) : \A n \in Nets :
    T[i] = VarToken(n) /\ T[j] = VarToken(n) => i = j

LEMMA TokenFacts ==
  /\ \A n : VarToken(n).kind = "var" /\ VarToken(n).net = n /\ VarToken(n).code = vcd_code(n)
  /\ \A s : ScopeToken(s).kind = "scope" /\ ScopeToken(s).scope = s
  /\ UpToken.kind = "upscope"
  /\ \A s, n : ScopeToken(s) # VarToken(n) /\ UpToken # VarToken(n)
BY DEF VarToken, ScopeToken, UpToken

LEMMA NestedBoth ==
  ASSUME NEW A \in Seq(Tokens), NEW B \in Seq(Tokens), NEW p, Nested(A, p), Nested(B, p)
  PROVE  Nested(A \o B, p)
<1> DEFINE C == A \o B
           a == Len(A)
           b == Len(B)
<1>1. /\ a \in Nat /\ b \in Nat /\ Len(C) = a + b
      /\ \A i \in 1 .. a + b : C[i] = IF i <= a THEN A[i] ELSE B[i - a]
  <2> HIDE DEF Tokens
  <2> QED
    BY ConcatProperties, LenProperties
<1> HIDE DEF C
<1>2. ASSUME NEW f, Follows(f, C, p)
      PROVE  /\ f[Len(C)] = p
             /\ \A i \in 1 .. Len(C) : \A n \in Nets :
                  C[i] = VarToken(n) => f[i] = Path[ScopeOf[n]]
  <2>1. f[0] = p /\ \A i \in 1 .. a + b : f[i] = Turn(f[i - 1], C[i])
    BY <1>1, <1>2 DEF Follows
  <2>2. \A i \in 1 .. a : i \in 1 .. a + b /\ C[i] = A[i]
    BY <1>1
  <2>3. Follows(f, A, p)
    BY <2>1, <2>2 DEF Follows
  <2>4. f[a] = p /\ \A i \in 1 .. a : \A n \in Nets :
          A[i] = VarToken(n) => f[i] = Path[ScopeOf[n]]
    BY <2>3 DEF Nested
  <2> DEFINE g == [i \in 0 .. b |-> f[i + a]]
  <2>5. \A i \in 1 .. b : i + a \in 1 .. a + b /\ ~(i + a <= a) /\ i + a - a = i
                       /\ i \in 0 .. b /\ i - 1 \in 0 .. b /\ i - 1 + a = i + a - 1
    BY <1>1
  <2>6. \A i \in 1 .. b : C[i + a] = B[i]
    BY <1>1, <2>5
  <2>7. \A i \in 0 .. b : g[i] = f[i + a]
    OBVIOUS
  <2>8. 0 \in 0 .. b /\ b \in 0 .. b /\ 0 + a = a
    BY <1>1
  <2> HIDE DEF g
  <2>9. \A i \in 1 .. b : g[i] = Turn(g[i - 1], B[i])
    BY <2>1, <2>5, <2>6, <2>7
  <2>10. g[0] = p
    BY <2>4, <2>7, <2>8
  <2>11. Follows(g, B, p)
    BY <2>9, <2>10 DEF Follows
  <2>12. g[b] = p /\ \A i \in 1 .. b : \A n \in Nets :
          B[i] = VarToken(n) => g[i] = Path[ScopeOf[n]]
    BY <2>11 DEF Nested
  <2>13. f[a + b] = p
    <3>1. g[b] = f[b + a]
      BY <2>7, <2>8
    <3>2. b + a = a + b
      BY <1>1
    <3> QED
      BY <2>12, <3>1, <3>2
  <2>14. ASSUME NEW i \in 1 .. a + b, NEW n \in Nets, C[i] = VarToken(n)
         PROVE  f[i] = Path[ScopeOf[n]]
    <3>1. CASE i <= a
      <4>1. i \in 1 .. a
        BY <1>1, <3>1
      <4> QED
        BY <2>2, <2>4, <2>14, <4>1
    <3>2. CASE ~(i <= a)
      <4>1. i - a \in 1 .. b /\ i - a \in 0 .. b /\ i - a + a = i
        BY <1>1, <3>2
      <4>2. B[i - a] = VarToken(n)
        BY <1>1, <2>14, <3>2
      <4>3. g[i - a] = f[i]
        BY <2>7, <4>1
      <4> QED
        BY <2>12, <4>1, <4>2, <4>3
    <3> QED
      BY <3>1, <3>2
  <2> QED
    BY <1>1, <2>13, <2>14
<1> QED
  BY <1>2 DEF Nested, C

LEMMA InBoth ==
  ASSUME NEW A \in Seq(Tokens), NEW B \in Seq(Tokens)
  PROVE  /\ \A n : In(A \o B, n) <=> In(A, n) \/ In(B, n)
         /\ Once(A) /\ Once(B) /\ (\A n \in Nets : ~(In(A, n) /\ In(B, n))) => Once(A \o B)
<1> DEFINE C == A \o B
           a == Len(A)
           b == Len(B)
<1>1. /\ a \in Nat /\ b \in Nat /\ Len(C) = a + b
      /\ \A i \in 1 .. a + b : C[i] = IF i <= a THEN A[i] ELSE B[i - a]
  <2> HIDE DEF Tokens
  <2> QED
    BY ConcatProperties, LenProperties
<1> HIDE DEF C
<1>2. \A i \in 1 .. a : i \in 1 .. a + b /\ C[i] = A[i]
  BY <1>1
<1>3. \A i \in 1 .. b : i + a \in 1 .. a + b /\ C[i + a] = B[i]
  BY <1>1
<1>4. \A i \in 1 .. a + b : (i \in 1 .. a /\ C[i] = A[i]) \/ (i - a \in 1 .. b /\ C[i] = B[i - a])
  BY <1>1
<1>5. ASSUME NEW n
      PROVE  In(C, n) <=> In(A, n) \/ In(B, n)
  BY <1>1, <1>2, <1>3, <1>4 DEF In
<1>6. ASSUME Once(A), Once(B), \A n \in Nets : ~(In(A, n) /\ In(B, n)),
             NEW i \in 1 .. a + b, NEW j \in 1 .. a + b, NEW n \in Nets,
             C[i] = VarToken(n), C[j] = VarToken(n)
      PROVE  i = j
  <2>1. CASE i \in 1 .. a /\ C[i] = A[i] /\ j \in 1 .. a /\ C[j] = A[j]
    BY <1>6, <2>1 DEF Once
  <2>2. CASE i - a \in 1 .. b /\ C[i] = B[i - a] /\ j - a \in 1 .. b /\ C[j] = B[j - a]
    <3>1. i - a = j - a
      BY <1>6, <2>2 DEF Once
    <3> QED
      BY <1>1, <3>1
  <2>3. CASE i \in 1 .. a /\ C[i] = A[i] /\ j - a \in 1 .. b /\ C[j] = B[j - a]
    BY <1>6, <2>3 DEF In
  <2>4. CASE i - a \in 1 .. b /\ C[i] = B[i - a] /\ j \in 1 .. a /\ C[j] = A[j]
    BY <1>6, <2>4 DEF In
  <2> QED
    BY <1>4, <2>1, <2>2, <2>3, <2>4
<1> QED
  BY <1>1, <1>5, <1>6 DEF Once, C

\* A scope around a part of the header.
LEMMA NestedScope ==
  ASSUME NEW M \in Seq(Tokens), NEW p \in Seq(Scopes), NEW s \in Scopes,
         Nested(M, Append(p, s))
  PROVE  Nested((<<ScopeToken(s)>> \o M) \o <<UpToken>>, p)
<1> DEFINE S == <<ScopeToken(s)>>
           U == <<UpToken>>
           T == (S \o M) \o U
           m == Len(M)
           q == Append(p, s)
<1>1. S \in Seq(Tokens) /\ U \in Seq(Tokens)
  <2>1. ScopeToken(s) \in Tokens /\ UpToken \in Tokens
    BY DEF Tokens
  <2> HIDE DEF Tokens
  <2> QED
    BY <2>1
<1>2. Len(S) = 1 /\ S[1] = ScopeToken(s) /\ Len(U) = 1 /\ U[1] = UpToken
  OBVIOUS
<1> HIDE DEF S, U
<1>3. /\ m \in Nat /\ S \o M \in Seq(Tokens) /\ Len(S \o M) = 1 + m
      /\ \A i \in 1 .. 1 + m : (S \o M)[i] = IF i <= 1 THEN S[i] ELSE M[i - 1]
  <2> HIDE DEF Tokens
  <2> QED
    BY <1>1, <1>2, ConcatProperties, LenProperties
<1>4. /\ Len(T) = m + 2
      /\ \A i \in 1 .. m + 2 : T[i] = IF i <= 1 + m THEN (S \o M)[i] ELSE U[i - (1 + m)]
  <2> DEFINE R == S \o M
  <2> HIDE DEF Tokens, R
  <2>1. R \in Seq(Tokens) /\ Len(R) = 1 + m
    BY <1>3 DEF R
  <2>2. /\ Len(R \o U) = 1 + m + 1
        /\ \A i \in 1 .. 1 + m + 1 : (R \o U)[i] = IF i <= 1 + m THEN R[i] ELSE U[i - (1 + m)]
    <3>1. /\ Len(R \o U) = Len(R) + Len(U)
          /\ \A i \in 1 .. Len(R) + Len(U) :
               (R \o U)[i] = IF i <= Len(R) THEN R[i] ELSE U[i - Len(R)]
      BY <1>1, <2>1, ConcatProperties
    <3> QED
      BY <1>2, <2>1, <3>1
  <2>3. 1 + m + 1 = m + 2
    BY <1>3
  <2> QED
    BY <2>2, <2>3 DEF R
<1>5. T[1] = ScopeToken(s)
  <2>1. 1 \in 1 .. m + 2 /\ 1 \in 1 .. 1 + m /\ 1 <= 1 + m
    BY <1>3
  <2> QED
    BY <1>2, <1>3, <1>4, <2>1
<1>6. \A i \in 1 .. m : T[i + 1] = M[i]
  <2>1. ASSUME NEW i \in 1 .. m
        PROVE  T[i + 1] = M[i]
    <3>1. i + 1 \in 1 .. m + 2 /\ i + 1 \in 1 .. 1 + m /\ i + 1 <= 1 + m /\ ~(i + 1 <= 1)
          /\ i + 1 - 1 = i
      BY <1>3
    <3>2. T[i + 1] = (S \o M)[i + 1]
      BY <1>4, <3>1
    <3>3. (S \o M)[i + 1] = M[i + 1 - 1]
      BY <1>3, <3>1
    <3> QED
      BY <3>1, <3>2, <3>3
  <2> QED
    BY <2>1
<1>7. T[m + 2] = UpToken
  <2>1. m + 2 \in 1 .. m + 2 /\ ~(m + 2 <= 1 + m) /\ m + 2 - (1 + m) = 1
    BY <1>3
  <2> QED
    BY <1>2, <1>4, <2>1
<1> HIDE DEF T
<1>8. Turn(p, ScopeToken(s)) = q
  BY TokenFacts DEF Turn
<1>9. Turn(q, UpToken) = p
  <2>1. Turn(q, UpToken) = SubSeq(q, 1, Len(q) - 1)
    <3> HIDE DEF q
    <3> QED
      BY TokenFacts DEF Turn
  <2>2. /\ q \in Seq(Scopes) /\ Len(q) = Len(p) + 1 /\ Len(p) \in Nat
        /\ \A i \in 1 .. Len(p) : q[i] = p[i]
    BY AppendProperties, LenProperties
  <2>3. Len(q) - 1 = Len(p)
    BY <2>2
  <2> HIDE DEF q
  <2>4. \A i \in 1 .. Len(p) : q[i] \in Scopes
    BY <2>2
  <2> DEFINE r == SubSeq(q, 1, Len(p))
  <2>5. /\ r \in Seq(Scopes) /\ Len(r) = (IF 1 <= Len(p) THEN Len(p) - 1 + 1 ELSE 0)
        /\ \A i \in 1 .. Len(p) - 1 + 1 : r[i] = q[1 + i - 1]
    BY <2>2, <2>4, SubSeqProperties
  <2> HIDE DEF r
  <2>6. Len(r) = Len(p) /\ \A i \in 1 .. Len(r) : r[i] = p[i]
    BY <2>2, <2>5
  <2>7. r = p
    BY <2>5, <2>6, SeqEqual
  <2> QED
    BY <2>1, <2>3, <2>7 DEF r
<1> HIDE DEF q
<1>10. ASSUME NEW f, Follows(f, T, p)
       PROVE  /\ f[Len(T)] = p
              /\ \A i \in 1 .. Len(T) : \A n \in Nets :
                   T[i] = VarToken(n) => f[i] = Path[ScopeOf[n]]
  <2>1. f[0] = p /\ \A i \in 1 .. m + 2 : f[i] = Turn(f[i - 1], T[i])
    BY <1>4, <1>10 DEF Follows
  <2>2. f[1] = q
    <3>1. 1 \in 1 .. m + 2 /\ 1 - 1 = 0
      BY <1>3
    <3>2. f[1] = Turn(f[1 - 1], T[1])
      BY <2>1, <3>1
    <3> QED
      BY <1>5, <1>8, <2>1, <3>1, <3>2
  <2> DEFINE g == [i \in 0 .. m |-> f[i + 1]]
  <2>3. \A i \in 0 .. m : g[i] = f[i + 1]
    OBVIOUS
  <2>4. 0 \in 0 .. m /\ m \in 0 .. m /\ 0 + 1 = 1
    BY <1>3
  <2> HIDE DEF g
  <2>5. ASSUME NEW i \in 1 .. m
        PROVE  g[i] = Turn(g[i - 1], M[i])
    <3>1. i + 1 \in 1 .. m + 2 /\ i \in 0 .. m /\ i - 1 \in 0 .. m /\ i + 1 - 1 = i /\ i - 1 + 1 = i
      BY <1>3
    <3>2. f[i + 1] = Turn(f[i + 1 - 1], T[i + 1])
      BY <2>1, <3>1
    <3>3. g[i - 1] = f[i - 1 + 1] /\ g[i] = f[i + 1]
      BY <2>3, <3>1
    <3>4. g[i - 1] = f[i]
      BY <3>1, <3>3
    <3>5. f[i + 1] = Turn(f[i], M[i])
      BY <1>6, <3>1, <3>2
    <3> QED
      BY <3>3, <3>4, <3>5
  <2>6. Follows(g, M, q)
    BY <2>2, <2>3, <2>4, <2>5 DEF Follows
  <2>7. g[m] = q /\ \A i \in 1 .. m : \A n \in Nets :
          M[i] = VarToken(n) => g[i] = Path[ScopeOf[n]]
    BY <2>6 DEF Nested, q
  <2>8. f[m + 2] = p
    <3>1. m + 2 \in 1 .. m + 2 /\ m + 2 - 1 = m + 1
      BY <1>3
    <3>2. f[m + 2] = Turn(f[m + 2 - 1], T[m + 2])
      BY <2>1, <3>1
    <3>3. f[m + 1] = q
      BY <2>3, <2>4, <2>7
    <3> QED
      BY <1>7, <1>9, <3>1, <3>2, <3>3
  <2>9. ASSUME NEW i \in 1 .. m + 2, NEW n \in Nets, T[i] = VarToken(n)
        PROVE  f[i] = Path[ScopeOf[n]]
    <3>1. i # 1 /\ i # m + 2
      <4>1. ScopeToken(s) # VarToken(n) /\ UpToken # VarToken(n)
        BY TokenFacts
      <4> QED
        BY <1>5, <1>7, <2>9, <4>1, Zenon
    <3>2. i - 1 \in 1 .. m /\ i - 1 \in 0 .. m /\ i - 1 + 1 = i
      <4>1. m \in Nat /\ i \in Nat /\ 1 <= i /\ i <= m + 2
        BY <1>3
      <4> HIDE DEF m
      <4>2. 1 < i /\ i < m + 2
        BY <3>1, <4>1
      <4> QED
        BY <4>1, <4>2
    <3>3. M[i - 1] = VarToken(n)
      BY <1>6, <2>9, <3>2
    <3>4. g[i - 1] = f[i]
      BY <2>3, <3>2
    <3> QED
      BY <2>7, <3>2, <3>3, <3>4
  <2> QED
    BY <1>4, <2>8, <2>9
<1> QED
  BY <1>10 DEF Nested, T, S, U

\* The scopes that are open before scope s.
Before(s) == IF s = 0 THEN <<>> ELSE Path[Parent[s]]

LEMMA BeforeFacts ==
  ASSUME NEW s \in Scopes
  PROVE  Before(s) \in Seq(Scopes) /\ Path[s] = Append(Before(s), s)
<1>1. CASE s = 0
  <2>1. Append(<<>>, 0) = <<0>> /\ <<>> \in Seq(Scopes)
    OBVIOUS
  <2> QED
    BY <1>1, <2>1, PathStep DEF Before
<1>2. CASE s # 0
  <2>1. IsWay(Path[Parent[s]], Parent[s])
    BY <1>2, PathFacts, ScopeNumbers
  <2> QED
    BY <1>2, <2>1, PathStep DEF Before, IsWay
<1> QED
  BY <1>1, <1>2

\* The declarations of the nets of one scope.
LEMMA VarsNested ==
  ASSUME NEW s \in Scopes
  PROVE  /\ Nested(Vars(s), Path[s]) /\ Once(Vars(s))
         /\ \A n \in Nets : In(Vars(s), n) <=> ScopeOf[n] = s
<1> DEFINE q == Vars(s)
           m == Len(q)
<1>1. /\ m \in Nat
      /\ \A i \in 1 .. m : \E n \in Nets : q[i] = VarToken(n) /\ ScopeOf[n] = s
      /\ \A n \in Nets : ScopeOf[n] = s => \E i \in 1 .. m : q[i] = VarToken(n)
      /\ \A i, j \in 1 .. m : q[i].net = q[j].net => i = j
  BY VarsFacts
<1> HIDE DEF q
<1>2. \A i \in 1 .. m : \A n \in Nets : q[i] = VarToken(n) => ScopeOf[n] = s
  BY <1>1, TokenFacts
<1>3. ASSUME NEW f, Follows(f, q, Path[s])
      PROVE  /\ f[m] = Path[s]
             /\ \A i \in 1 .. m : \A n \in Nets : q[i] = VarToken(n) => f[i] = Path[ScopeOf[n]]
  <2> DEFINE T == {i \in 0 .. m : f[i] = Path[s]}
  <2>1. 0 \in T
    BY <1>1, <1>3 DEF Follows
  <2>2. ASSUME NEW i \in 1 .. m, i - 1 \in T
        PROVE  i \in T
    <3>1. PICK n \in Nets : q[i] = VarToken(n)
      BY <1>1
    <3>2. f[i] = Turn(f[i - 1], VarToken(n))
      BY <1>3, <3>1 DEF Follows
    <3>3. Turn(f[i - 1], VarToken(n)) = f[i - 1]
      BY TokenFacts DEF Turn
    <3>4. i \in 0 .. m
      BY <1>1
    <3> QED
      BY <2>2, <3>2, <3>3, <3>4
  <2>3. 0 .. m \subseteq T
    <3> HIDE DEF T, m
    <3> QED
      BY <1>1, <2>1, <2>2, ListInduction
  <2>4. \A i \in 0 .. m : f[i] = Path[s]
    BY <2>3
  <2>5. m \in 0 .. m /\ \A i \in 1 .. m : i \in 0 .. m
    BY <1>1
  <2> QED
    BY <1>2, <2>4, <2>5
<1>4. Nested(q, Path[s])
  BY <1>3 DEF Nested
<1>5. Once(q)
  BY <1>1 DEF Once
<1>6. \A n \in Nets : In(q, n) <=> ScopeOf[n] = s
  BY <1>1, <1>2 DEF In
<1> QED
  BY <1>4, <1>5, <1>6 DEF q

\* What is written for scope s and all below it.
Good(s) ==
  /\ Nested(write_scope_dfs[s], Before(s)) /\ Once(write_scope_dfs[s])
  /\ \A n \in Nets : In(write_scope_dfs[s], n) => Leads(s, ScopeOf[n])

LEMMA BelowGood ==
  ASSUME NEW s \in Scopes, \A c \in Scopes : c # 0 /\ Parent[c] = s => Good(c)
  PROVE  LET B == BelowOf(write_scope_dfs, s)[Len(Children(s))]
         IN  /\ B \in Seq(Tokens) /\ Nested(B, Path[s]) /\ Once(B)
             /\ \A n \in Nets : In(B, n) <=>
                  \E c \in Scopes : c # 0 /\ Parent[c] = s /\ In(write_scope_dfs[c], n)
<1> DEFINE w == write_scope_dfs
           b == BelowOf(w, s)
           q == Children(s)
           m == Len(q)
<1>1. /\ m \in Nat
      /\ \A i \in 1 .. m : q[i] \in Scopes /\ q[i] # 0 /\ Parent[q[i]] = s
      /\ \A c \in Scopes : c # 0 /\ Parent[c] = s => \E i \in 1 .. m : q[i] = c
      /\ \A i, j \in 1 .. m : q[i] = q[j] => i = j
  BY ChildrenFacts
<1>2. w \in [Scopes -> Seq(Tokens)]
  BY SearchFacts
<1>3. /\ b \in [0 .. m -> Seq(Tokens)]
      /\ \A i \in 0 .. m : b[i] = IF i = 0 THEN <<>> ELSE b[i - 1] \o w[q[i]]
  <2>1. BelowIs(w, s, b) /\ b \in [0 .. m -> Seq(Tokens)]
    BY <1>2, BelowFacts
  <2> QED
    BY <2>1 DEF BelowIs
<1>4. \A i \in 1 .. m : /\ Nested(w[q[i]], Path[s]) /\ Once(w[q[i]])
                        /\ \A n \in Nets : In(w[q[i]], n) => Leads(q[i], ScopeOf[n])
  BY <1>1 DEF Good, Before
<1>5. \A i \in 1 .. m : w[q[i]] \in Seq(Tokens)
  BY <1>1, <1>2
<1> HIDE DEF w, b, q
<1> DEFINE Fine(i) == /\ Nested(b[i], Path[s]) /\ Once(b[i])
                      /\ \A n \in Nets : In(b[i], n) <=> \E j \in 1 .. i : In(w[q[j]], n)
           T == {i \in 0 .. m : Fine(i)}
<1>6. 0 \in T
  <2>1. b[0] = <<>>
    <3>1. 0 \in 0 .. m
      BY <1>1
    <3>2. b[0] = IF 0 = 0 THEN <<>> ELSE b[0 - 1] \o w[q[0]]
      BY <1>3, <3>1
    <3> QED
      BY <3>2
  <2>2. Nested(<<>>, Path[s])
    BY DEF Nested, Follows
  <2>3. Once(<<>>) /\ \A n : ~In(<<>>, n)
    BY DEF Once, In
  <2>4. Fine(0)
    BY <2>1, <2>2, <2>3
  <2> QED
    BY <1>1, <2>4
<1>7. ASSUME NEW i \in 1 .. m, i - 1 \in T
      PROVE  i \in T
  <2> DEFINE A == b[i - 1]
             C == w[q[i]]
  <2>1. i \in 0 .. m /\ i - 1 \in 0 .. m /\ i # 0 /\ 1 .. i - 1 \subseteq 1 .. m
        /\ \A j \in 1 .. i : j = i \/ j \in 1 .. i - 1
    BY <1>1
  <2>2. A \in Seq(Tokens) /\ C \in Seq(Tokens) /\ b[i] = A \o C
    BY <1>3, <1>5, <2>1
  <2>3. Fine(i - 1)
    BY <1>7
  <2>4. Nested(A, Path[s]) /\ Nested(C, Path[s]) /\ Once(A) /\ Once(C)
    BY <1>4, <2>3
  <2>5. \A n \in Nets : In(A, n) <=> \E j \in 1 .. i - 1 : In(w[q[j]], n)
    BY <2>3
  <2>6. ASSUME NEW n \in Nets, In(A, n), In(C, n)
        PROVE  FALSE
    <3>1. PICK j \in 1 .. i - 1 : In(w[q[j]], n)
      BY <2>5, <2>6
    <3>2. j \in 1 .. m
      BY <2>1
    <3>3. Leads(q[i], ScopeOf[n]) /\ Leads(q[j], ScopeOf[n]) /\ ScopeOf[n] \in Scopes
      BY <1>4, <2>6, <3>1, <3>2, VcdAssumption
    <3>4. q[i] \in Scopes /\ q[i] # 0 /\ q[j] \in Scopes /\ q[j] # 0
          /\ Parent[q[j]] = Parent[q[i]]
      BY <1>1, <3>2
    <3>5. q[j] = q[i]
      BY <3>3, <3>4, LeadsFacts
    <3>6. j = i
      BY <1>1, <3>2, <3>5
    <3> QED
      BY <3>6
  <2> HIDE DEF A, C
  <2>7. Nested(A \o C, Path[s])
    BY <2>2, <2>4, NestedBoth
  <2>8. Once(A \o C) /\ \A n \in Nets : In(A \o C, n) <=> In(A, n) \/ In(C, n)
    <3>1. (\A n : In(A \o C, n) <=> In(A, n) \/ In(C, n))
          /\ (Once(A) /\ Once(C) /\ (\A n \in Nets : ~(In(A, n) /\ In(C, n))) => Once(A \o C))
      BY <2>2, InBoth
    <3> QED
      BY <2>4, <2>6, <3>1
  <2>9. \A n \in Nets : In(b[i], n) <=> \E j \in 1 .. i : In(w[q[j]], n)
    <3>1. i \in 1 .. i /\ \A j \in 1 .. i - 1 : j \in 1 .. i
      OBVIOUS
    <3> QED
      BY <2>1, <2>2, <2>5, <2>8, <3>1 DEF C
  <2>10. Fine(i)
    BY <2>2, <2>7, <2>8, <2>9
  <2> QED
    BY <2>1, <2>10
<1>8. 0 .. m \subseteq T
  <2> HIDE DEF T, m
  <2> QED
    BY <1>1, <1>6, <1>7, ListInduction
<1>9. Fine(m) /\ b[m] \in Seq(Tokens)
  <2>1. m \in 0 .. m
    BY <1>1
  <2> QED
    BY <1>3, <1>8, <2>1
<1>10. \A n \in Nets : In(b[m], n) <=>
         \E c \in Scopes : c # 0 /\ Parent[c] = s /\ In(w[c], n)
  BY <1>1, <1>9
<1> QED
  BY <1>9, <1>10 DEF b, w, q

\* One scope, when everything below it is in order.
LEMMA WholeGood ==
  ASSUME NEW s \in Scopes, \A c \in Scopes : c # 0 /\ Parent[c] = s => Good(c)
  PROVE  /\ Good(s)
         /\ \A n \in Nets : ScopeOf[n] = s => In(write_scope_dfs[s], n)
         /\ \A c \in Scopes : c # 0 /\ Parent[c] = s =>
              \A n \in Nets : In(write_scope_dfs[c], n) => In(write_scope_dfs[s], n)
<1> DEFINE w == write_scope_dfs
           B == BelowOf(w, s)[Len(Children(s))]
           V == Vars(s)
           S == <<ScopeToken(s)>>
           U == <<UpToken>>
           M == V \o B
<1>1. /\ B \in Seq(Tokens) /\ Nested(B, Path[s]) /\ Once(B)
      /\ \A n \in Nets : In(B, n) <=>
           \E c \in Scopes : c # 0 /\ Parent[c] = s /\ In(w[c], n)
  BY BelowGood
<1>2. /\ V \in Seq(Tokens) /\ Nested(V, Path[s]) /\ Once(V)
      /\ \A n \in Nets : In(V, n) <=> ScopeOf[n] = s
  BY VarsFacts, VarsNested
<1>3. S \in Seq(Tokens) /\ U \in Seq(Tokens)
  <2>1. ScopeToken(s) \in Tokens /\ UpToken \in Tokens
    BY DEF Tokens
  <2> HIDE DEF Tokens
  <2> QED
    BY <2>1
<1>4. w[s] = ((S \o V) \o B) \o U
  BY SearchFacts DEF Whole
<1>5. (\A n : ~In(S, n) /\ ~In(U, n)) /\ Once(S) /\ Once(U)
  <2>1. Len(S) = 1 /\ S[1] = ScopeToken(s) /\ Len(U) = 1 /\ U[1] = UpToken
    OBVIOUS
  <2> HIDE DEF S, U
  <2>2. \A i \in 1 .. 1 : i = 1
    OBVIOUS
  <2>3. \A n : ~In(S, n) /\ ~In(U, n)
    BY <2>1, <2>2, TokenFacts DEF In
  <2>4. Once(S) /\ Once(U)
    BY <2>1, <2>2 DEF Once
  <2> QED
    BY <2>3, <2>4
<1> HIDE DEF B, V, S, U, w
<1>6. ASSUME NEW n \in Nets, In(V, n), In(B, n)
      PROVE  FALSE
  <2>1. ScopeOf[n] = s
    BY <1>2, <1>6
  <2>2. PICK c \in Scopes : c # 0 /\ Parent[c] = s /\ In(w[c], n)
    BY <1>1, <1>6
  <2>3. Leads(c, s)
    BY <2>1, <2>2 DEF Good, w
  <2>4. c <= s
    BY <2>3, LeadsFacts
  <2> QED
    BY <2>2, <2>4, ScopeNumbers
<1>7. M \in Seq(Tokens) /\ Nested(M, Path[s])
  BY <1>1, <1>2, NestedBoth, ConcatProperties
<1>8. Once(M) /\ \A n \in Nets : In(M, n) <=> In(V, n) \/ In(B, n)
  <2>1. (\A n : In(M, n) <=> In(V, n) \/ In(B, n))
        /\ (Once(V) /\ Once(B) /\ (\A n \in Nets : ~(In(V, n) /\ In(B, n))) => Once(M))
    BY <1>1, <1>2, InBoth
  <2> QED
    BY <1>1, <1>2, <1>6, <2>1
<1>9. w[s] = (S \o M) \o U
  <2>1. (S \o V) \o B = S \o (V \o B)
    BY <1>1, <1>2, <1>3, ConcatAssociative
  <2> QED
    BY <1>4, <2>1
<1> HIDE DEF M
<1>10. S \o M \in Seq(Tokens)
  BY <1>3, <1>7, ConcatProperties
<1>11. Once(S \o M) /\ \A n \in Nets : In(S \o M, n) <=> In(M, n)
  <2>1. (\A n : In(S \o M, n) <=> In(S, n) \/ In(M, n))
        /\ (Once(S) /\ Once(M) /\ (\A n \in Nets : ~(In(S, n) /\ In(M, n))) => Once(S \o M))
    BY <1>3, <1>7, InBoth
  <2> QED
    BY <1>5, <1>8, <2>1
<1>12. Once(w[s]) /\ \A n \in Nets : In(w[s], n) <=> In(M, n)
  <2> DEFINE R == S \o M
  <2>1. R \in Seq(Tokens) /\ Once(R) /\ \A n \in Nets : In(R, n) <=> In(M, n)
    BY <1>10, <1>11
  <2>2. w[s] = R \o U
    BY <1>9
  <2> HIDE DEF R
  <2>3. (\A n : In(R \o U, n) <=> In(R, n) \/ In(U, n))
        /\ (Once(R) /\ Once(U) /\ (\A n \in Nets : ~(In(R, n) /\ In(U, n))) => Once(R \o U))
    BY <1>3, <2>1, InBoth
  <2> QED
    BY <1>5, <2>1, <2>2, <2>3
<1>13. Nested(w[s], Before(s))
  <2>1. Before(s) \in Seq(Scopes) /\ Path[s] = Append(Before(s), s)
    BY BeforeFacts
  <2>2. Nested(M, Append(Before(s), s))
    BY <1>7, <2>1
  <2>3. Nested((<<ScopeToken(s)>> \o M) \o <<UpToken>>, Before(s))
    BY <1>7, <2>1, <2>2, NestedScope
  <2> QED
    BY <1>9, <2>3 DEF S, U
<1>14. ASSUME NEW n \in Nets, In(w[s], n)
       PROVE  Leads(s, ScopeOf[n])
  <2>1. ScopeOf[n] \in Scopes
    BY VcdAssumption
  <2>2. In(V, n) \/ In(B, n)
    BY <1>8, <1>12, <1>14
  <2>3. CASE In(V, n)
    BY <1>2, <2>1, <2>3, LeadsFacts
  <2>4. CASE In(B, n)
    <3>1. PICK c \in Scopes : c # 0 /\ Parent[c] = s /\ In(w[c], n)
      BY <1>1, <2>4
    <3>2. Leads(c, ScopeOf[n])
      BY <3>1 DEF Good, w
    <3> QED
      BY <2>1, <3>1, <3>2, LeadsFacts
  <2> QED
    BY <2>2, <2>3, <2>4
<1> QED
  BY <1>1, <1>2, <1>8, <1>12, <1>13, <1>14 DEF Good, w

\* Every scope is written in order, and declares exactly the nets below it.
LEMMA AllGood ==
  /\ \A s \in Scopes : Good(s)
  /\ \A n \in Nets : In(write_scope_dfs[ScopeOf[n]], n)
  /\ \A c \in Scopes : c # 0 =>
       \A n \in Nets : In(write_scope_dfs[c], n) => In(write_scope_dfs[Parent[c]], n)
<1> DEFINE T == {k \in 0 .. ScopeCount : \A s \in Scopes : k <= s => Good(s)}
<1>1. ScopeCount \in T
  <2>1. \A s \in Scopes : ~(ScopeCount <= s)
    BY ScopeNumbers
  <2> QED
    BY <2>1, ScopeNumbers
<1>2. ASSUME NEW k \in 0 .. ScopeCount - 1, k + 1 \in T
      PROVE  k \in T
  <2>1. \A c \in Scopes : c # 0 /\ Parent[c] = k => Good(c)
    <3>1. \A c \in Scopes : c # 0 /\ Parent[c] = k => k + 1 <= c
      BY ScopeNumbers
    <3> QED
      BY <1>2, <3>1
  <2>2. k \in Scopes
    BY ScopeNumbers DEF Scopes
  <2>3. Good(k)
    BY <2>1, <2>2, WholeGood
  <2>4. \A s \in Scopes : k <= s => s = k \/ k + 1 <= s
    BY ScopeNumbers
  <2>5. k \in 0 .. ScopeCount
    BY ScopeNumbers
  <2> QED
    BY <1>2, <2>3, <2>4, <2>5
<1>3. 0 .. ScopeCount \subseteq T
  <2> HIDE DEF T
  <2> QED
    BY <1>1, <1>2, ListInductionDown, ScopeNumbers
<1>4. 0 \in T
  <2>1. 0 \in 0 .. ScopeCount
    BY ScopeNumbers
  <2> QED
    BY <1>3, <2>1
<1>5. \A s \in Scopes : Good(s)
  BY <1>4, ScopeNumbers
<1>6. \A s \in Scopes :
        /\ \A n \in Nets : ScopeOf[n] = s => In(write_scope_dfs[s], n)
        /\ \A c \in Scopes : c # 0 /\ Parent[c] = s =>
             \A n \in Nets : In(write_scope_dfs[c], n) => In(write_scope_dfs[s], n)
  BY <1>5, WholeGood
<1>7. \A n \in Nets : ScopeOf[n] \in Scopes
  BY VcdAssumption
<1> QED
  BY <1>5, <1>6, <1>7, ScopeNumbers

\* Every net is declared below the top.
LEMMA Declared == \A n \in Nets : In(Header, n)
<1> SUFFICES ASSUME NEW n \in Nets
             PROVE  In(Header, n)
  OBVIOUS
<1> DEFINE T == {k \in 0 .. ScopeCount :
                   \A s \in Scopes : s < k /\ In(write_scope_dfs[s], n) => In(Header, n)}
<1>1. 0 \in T
  BY ScopeNumbers
<1>2. ASSUME NEW k \in 1 .. ScopeCount, k - 1 \in T
      PROVE  k \in T
  <2>1. ASSUME NEW s \in Scopes, s < k, In(write_scope_dfs[s], n)
        PROVE  In(Header, n)
    <3>1. CASE s = 0
      BY <2>1, <3>1 DEF Header
    <3>2. CASE s # 0
      <4>1. Parent[s] \in Scopes /\ In(write_scope_dfs[Parent[s]], n)
        BY <2>1, <3>2, AllGood, ScopeNumbers
      <4>2. Parent[s] < k - 1
        <5>1. Parent[s] < s /\ Parent[s] \in Nat /\ s \in Nat
          BY <3>2, <4>1, ScopeNumbers
        <5> QED
          BY <2>1, <5>1
      <4> QED
        BY <1>2, <4>1, <4>2
    <3> QED
      BY <3>1, <3>2
  <2>2. k \in 0 .. ScopeCount
    OBVIOUS
  <2> QED
    BY <2>1, <2>2
<1>3. 0 .. ScopeCount \subseteq T
  <2> HIDE DEF T
  <2> QED
    BY <1>1, <1>2, ListInduction, ScopeNumbers
<1>4. ScopeCount \in T
  <2>1. ScopeCount \in 0 .. ScopeCount
    BY ScopeNumbers
  <2> QED
    BY <1>3, <2>1
<1>5. ScopeOf[n] \in Scopes /\ In(write_scope_dfs[ScopeOf[n]], n)
  BY AllGood, VcdAssumption
<1> QED
  BY <1>4, <1>5, ScopeNumbers

\* The list of open scopes as a recursive function.
OpensIs(f) ==
  f = [i \in 0 .. Len(Header) |->
         IF i = 0 THEN <<>> ELSE Turn(f[i - 1], Header[i])]

LEMMA OpensDef == OpenScopes = CHOOSE f : OpensIs(f)
BY DEF OpenScopes, OpensIs, Turn

LEMMA OpensFollows ==
  /\ Header \in Seq(Tokens) /\ Len(Header) \in Nat
  /\ Follows(OpenScopes, Header, <<>>)
<1> DEFINE m == Len(Header)
           V == Seq(Scopes)
           G == [p \in (1 .. m) \X V |-> Turn(p[2], Header[p[1]])]
<1>1. Header \in Seq(Tokens)
  BY SearchFacts, ScopeNumbers DEF Header
<1>2. m \in Nat /\ \A i \in 1 .. m : Header[i] \in Tokens
  <2> HIDE DEF Tokens
  <2> QED
    BY <1>1, LenProperties, ElementOfSeq
<1>3. ASSUME NEW p \in V, NEW t \in Tokens
      PROVE  Turn(p, t) \in V \cup {SubSeq(p, 1, Len(p) - 1)}
  <2>1. CASE \E s \in Scopes : t = ScopeToken(s)
    <3>1. PICK s \in Scopes : t = ScopeToken(s)
      BY <2>1
    <3>2. Turn(p, t) = Append(p, s)
      BY <3>1, TokenFacts DEF Turn
    <3>3. Append(p, s) \in V
      BY AppendProperties
    <3> QED
      BY <3>2, <3>3
  <2>2. CASE \E n \in Nets : t = VarToken(n)
    <3>1. PICK n \in Nets : t = VarToken(n)
      BY <2>2
    <3>2. Turn(p, t) = p
      BY <3>1, TokenFacts DEF Turn
    <3> QED
      BY <3>2
  <2>3. CASE t = UpToken
    <3>1. Turn(p, t) = SubSeq(p, 1, Len(p) - 1)
      BY <2>3, TokenFacts DEF Turn
    <3> QED
      BY <3>1
  <2> QED
    BY <2>1, <2>2, <2>3 DEF Tokens
<1>4. ASSUME NEW p \in V
      PROVE  SubSeq(p, 1, Len(p) - 1) \in V
  <2>1. Len(p) \in Nat /\ \A i \in 1 .. Len(p) : p[i] \in Scopes
    BY LenProperties, ElementOfSeq
  <2>2. 1 \in Int /\ Len(p) - 1 \in Int /\ \A i \in 1 .. Len(p) - 1 : p[i] \in Scopes
    BY <2>1
  <2> QED
    BY <2>2, SubSeqProperties
<1>5. <<>> \in V
  BY EmptySeq
<1> HIDE DEF m, V
<1>6. G \in [(1 .. m) \X V -> V]
  <2>1. ASSUME NEW p \in (1 .. m) \X V
        PROVE  Turn(p[2], Header[p[1]]) \in V
    <3>1. p[2] \in V /\ Header[p[1]] \in Tokens
      BY <1>2
    <3> QED
      BY <1>3, <1>4, <3>1
  <2> QED
    BY <2>1
<1>7. \A i \in 1 .. m : \A p \in V : G[<<i, p>>] = Turn(p, Header[i])
  OBVIOUS
<1> HIDE DEF G
<1>8. PICK f \in [0 .. m -> V] : AlongList(f, m, <<>>, G)
  BY <1>2, <1>5, <1>6, ListRecursion
<1>9. ASSUME NEW i \in 0 .. m
      PROVE  f[i] = IF i = 0 THEN <<>> ELSE Turn(f[i - 1], Header[i])
  <2>1. f[i] = IF i = 0 THEN <<>> ELSE G[<<i, f[i - 1]>>]
    BY <1>8 DEF AlongList
  <2>2. i # 0 => i \in 1 .. m /\ i - 1 \in 0 .. m
    BY <1>2
  <2> QED
    BY <1>7, <2>1, <2>2
<1>10. f = [i \in 0 .. m |-> f[i]]
  OBVIOUS
<1>11. OpensIs(f)
  BY <1>9, <1>10 DEF OpensIs, m
<1>12. OpensIs(OpenScopes)
  BY <1>11, OpensDef
<1> DEFINE g == OpenScopes
<1>13. \A i \in 0 .. m : g[i] = IF i = 0 THEN <<>> ELSE Turn(g[i - 1], Header[i])
  BY <1>12 DEF OpensIs, m
<1> HIDE DEF g
<1>14. g[0] = <<>>
  BY <1>2, <1>13
<1>15. \A i \in 1 .. m : g[i] = Turn(g[i - 1], Header[i])
  BY <1>2, <1>13
<1> QED
  BY <1>1, <1>2, <1>14, <1>15 DEF Follows, g, m

\* The header declares every net once, in its scope, under its code.
LEMMA HeaderFacts ==
  /\ \A n \in Nets : \E i \in DOMAIN Header :
       /\ \A j \in DOMAIN Header : Declares(j, n) <=> j = i
       /\ OpenScopes[i] = Path[ScopeOf[n]]
  /\ \A n \in Nets : CodesOf(n) = {vcd_code(n)}
<1>1. /\ Header \in Seq(Tokens) /\ Len(Header) \in Nat
      /\ Follows(OpenScopes, Header, <<>>)
  BY OpensFollows
<1>2. DOMAIN Header = 1 .. Len(Header) /\ \A i \in 1 .. Len(Header) : Header[i] \in Tokens
  <2> HIDE DEF Tokens
  <2> QED
    BY <1>1, LenProperties, ElementOfSeq
<1>3. Nested(Header, <<>>) /\ Once(Header)
  <2>1. Good(0) /\ Before(0) = <<>>
    BY AllGood, ScopeNumbers DEF Before
  <2> QED
    BY <2>1 DEF Good, Header
<1>4. ASSUME NEW n \in Nets, NEW i \in 1 .. Len(Header)
      PROVE  Declares(i, n) <=> Header[i] = VarToken(n)
  <2>1. Header[i] \in Tokens
    BY <1>2
  <2>2. ASSUME Declares(i, n)
        PROVE  Header[i] = VarToken(n)
    <3>1. Header[i].kind = "var" /\ Header[i].net = n
      BY <2>2 DEF Declares
    <3>2. PICK m \in Nets : Header[i] = VarToken(m)
      <4>1. \A s : Header[i] # ScopeToken(s)
        BY <3>1, TokenFacts
      <4>2. Header[i] # UpToken
        BY <3>1, TokenFacts
      <4> QED
        BY <2>1, <4>1, <4>2 DEF Tokens
    <3>3. m = n
      BY <3>1, <3>2, TokenFacts
    <3> QED
      BY <3>2, <3>3
  <2>3. Header[i] = VarToken(n) => Declares(i, n)
    BY TokenFacts DEF Declares
  <2> QED
    BY <2>2, <2>3
<1>5. ASSUME NEW n \in Nets
      PROVE  \E i \in 1 .. Len(Header) : Header[i] = VarToken(n)
  BY Declared DEF In
<1>6. ASSUME NEW n \in Nets
      PROVE  \E i \in DOMAIN Header :
               /\ \A j \in DOMAIN Header : Declares(j, n) <=> j = i
               /\ OpenScopes[i] = Path[ScopeOf[n]]
  <2>1. PICK i \in 1 .. Len(Header) : Header[i] = VarToken(n)
    BY <1>5
  <2>2. \A j \in 1 .. Len(Header) : Declares(j, n) <=> j = i
    BY <1>3, <1>4, <2>1 DEF Once
  <2>3. OpenScopes[i] = Path[ScopeOf[n]]
    BY <1>1, <1>3, <2>1 DEF Nested
  <2> QED
    BY <1>2, <2>2, <2>3
<1>7. ASSUME NEW n \in Nets
      PROVE  CodesOf(n) = {vcd_code(n)}
  <2>1. \A h : h \in HeaderVars /\ h.net = n <=> \E i \in 1 .. Len(Header) : h = Header[i] /\ Declares(i, n)
    BY <1>2 DEF HeaderVars, Lines, Declares
  <2>2. \A h : h \in HeaderVars /\ h.net = n <=> h = VarToken(n)
    BY <1>4, <1>5, <2>1
  <2>3. CodesOf(n) = {h.code : h \in {VarToken(n)}}
    BY <2>2 DEF CodesOf
  <2> QED
    BY <2>3, TokenFacts
<1> QED
  BY <1>6, <1>7

-----------------------------------------------------------------------------
(* Reading the blocks *)

\* What a set of lines says of a code.
HereOf(lines, code) == {l.digits : l \in {d \in lines : d.code = code}}

SeenIs(ch, dv, code, f) ==
  f = [i \in 0 .. Len(ch) |->
         IF i = 0 THEN HereOf(dv, code)
         ELSE IF HereOf(ch[i].lines, code) # {} THEN HereOf(ch[i].lines, code)
              ELSE f[i - 1]]

SeenOf(ch, dv, code) == CHOOSE f : SeenIs(ch, dv, code, f)
ReadIn(ch, dv, code) == SeenOf(ch, dv, code)[Len(ch)]

LEMMA ReadDef == \A code : Read(code) = ReadIn(changes, dumpvars, code)
BY DEF Read, ReadIn, SeenOf, SeenIs, HereOf

LEMMA SeenExists ==
  ASSUME NEW ch, Len(ch) \in Nat, NEW dv, NEW code
  PROVE  SeenIs(ch, dv, code, SeenOf(ch, dv, code))
<1> DEFINE m == Len(ch)
           H(i) == HereOf(ch[i].lines, code)
           a == HereOf(dv, code)
           V == {a} \cup {H(i) : i \in 1 .. m}
           G == [p \in (1 .. m) \X V |-> IF H(p[1]) # {} THEN H(p[1]) ELSE p[2]]
<1> HIDE DEF m, H, a
<1>1. m \in Nat /\ a \in V /\ \A i \in 1 .. m : H(i) \in V
  BY DEF m
<1> HIDE DEF V
<1>2. G \in [(1 .. m) \X V -> V]
  BY <1>1
<1>3. \A i \in 1 .. m : \A p \in V : G[<<i, p>>] = IF H(i) # {} THEN H(i) ELSE p
  OBVIOUS
<1> HIDE DEF G
<1>4. PICK f \in [0 .. m -> V] : AlongList(f, m, a, G)
  BY <1>1, <1>2, ListRecursion
<1>5. ASSUME NEW i \in 0 .. m
      PROVE  f[i] = IF i = 0 THEN a ELSE IF H(i) # {} THEN H(i) ELSE f[i - 1]
  <2>1. f[i] = IF i = 0 THEN a ELSE G[<<i, f[i - 1]>>]
    BY <1>4 DEF AlongList
  <2>2. i # 0 => i \in 1 .. m /\ i - 1 \in 0 .. m
    BY <1>1
  <2> QED
    BY <1>3, <2>1, <2>2
<1>6. f = [i \in 0 .. m |-> f[i]]
  OBVIOUS
<1>7. SeenIs(ch, dv, code, f)
  BY <1>5, <1>6 DEF SeenIs, m, H, a
<1> QED
  BY <1>7 DEF SeenOf

LEMMA ReadStart == \A dv, code : ReadIn(<<>>, dv, code) = HereOf(dv, code)
<1> SUFFICES ASSUME NEW dv, NEW code
             PROVE  ReadIn(<<>>, dv, code) = HereOf(dv, code)
  OBVIOUS
<1>1. Len(<<>>) = 0
  OBVIOUS
<1>2. SeenIs(<<>>, dv, code, SeenOf(<<>>, dv, code))
  BY <1>1, SeenExists
<1> DEFINE f == SeenOf(<<>>, dv, code)
<1>3. 0 \in 0 .. Len(<<>>)
  BY <1>1
<1>4. f[0] = HereOf(dv, code)
  BY <1>2, <1>3 DEF SeenIs
<1> QED
  BY <1>1, <1>4 DEF ReadIn

\* A block that is added tells what it tells, and leaves the rest.
OrBefore(here, before) == IF here # {} THEN here ELSE before

LEMMA ReadAppend ==
  ASSUME NEW S, NEW ch \in Seq(S), NEW blk \in S, NEW dv, NEW code
  PROVE  ReadIn(Append(ch, blk), dv, code) =
           OrBefore(HereOf(blk.lines, code), ReadIn(ch, dv, code))
<1> DEFINE m == Len(ch)
           da == Append(ch, blk)
           f == SeenOf(da, dv, code)
           g == SeenOf(ch, dv, code)
<1>1. /\ m \in Nat /\ Len(da) = m + 1
      /\ \A i \in 1 .. m : da[i] = ch[i]
      /\ da[m + 1] = blk
  BY AppendProperties, LenProperties
<1> HIDE DEF da
<1>2. SeenIs(da, dv, code, f) /\ SeenIs(ch, dv, code, g)
  BY <1>1, SeenExists
<1>3. \A i \in 0 .. m : g[i] =
        IF i = 0 THEN HereOf(dv, code)
        ELSE IF HereOf(ch[i].lines, code) # {} THEN HereOf(ch[i].lines, code) ELSE g[i - 1]
  BY <1>2 DEF SeenIs
<1>4. \A i \in 0 .. m + 1 : f[i] =
        IF i = 0 THEN HereOf(dv, code)
        ELSE IF HereOf(da[i].lines, code) # {} THEN HereOf(da[i].lines, code) ELSE f[i - 1]
  BY <1>1, <1>2 DEF SeenIs
<1> HIDE DEF f, g
<1> DEFINE T == {i \in 0 .. m : f[i] = g[i]}
<1>5. 0 \in T
  BY <1>1, <1>3, <1>4
<1>6. ASSUME NEW i \in 1 .. m, i - 1 \in T
      PROVE  i \in T
  <2>1. i \in 0 .. m /\ i \in 0 .. m + 1 /\ i # 0 /\ f[i - 1] = g[i - 1]
    BY <1>1, <1>6
  <2> QED
    BY <1>1, <1>3, <1>4, <2>1
<1>7. 0 .. m \subseteq T
  <2> HIDE DEF T, m
  <2> QED
    BY <1>1, <1>5, <1>6, ListInduction
<1>8. f[m] = g[m]
  BY <1>1, <1>7
<1>9. f[m + 1] = IF HereOf(blk.lines, code) # {} THEN HereOf(blk.lines, code) ELSE f[m]
  <2>1. m + 1 \in 0 .. m + 1 /\ m + 1 # 0 /\ m + 1 - 1 = m
    BY <1>1
  <2> DEFINE k == m + 1
  <2>2. k \in 0 .. m + 1 /\ k # 0 /\ k - 1 = m /\ da[k] = blk
    BY <1>1, <2>1
  <2> HIDE DEF k, m, T
  <2>3. f[k] = IF k = 0 THEN HereOf(dv, code)
               ELSE IF HereOf(da[k].lines, code) # {} THEN HereOf(da[k].lines, code)
                    ELSE f[k - 1]
    BY <1>4, <2>2
  <2>4. f[k] = IF HereOf(blk.lines, code) # {} THEN HereOf(blk.lines, code) ELSE f[m]
    BY <2>2, <2>3
  <2> QED
    BY <2>4 DEF k
<1>10. ReadIn(da, dv, code) = f[m + 1]
  BY <1>1 DEF ReadIn, f
<1>11. ReadIn(ch, dv, code) = g[m]
  BY DEF ReadIn, g
<1>12. ReadIn(da, dv, code) = IF HereOf(blk.lines, code) # {} THEN HereOf(blk.lines, code)
                                                          ELSE ReadIn(ch, dv, code)
  BY <1>8, <1>9, <1>10, <1>11
<1> QED
  BY <1>12 DEF da, OrBefore

\* The lines of the nets D with the planes p.
LinesFor(p, D) == {Line(n, p[n]) : n \in D}

LEMMA HereFacts ==
  ASSUME NEW D \in SUBSET Nets, NEW p, NEW n \in Nets
  PROVE  HereOf(LinesFor(p, D), vcd_code(n)) =
           IF n \in D THEN {Digits(p[n], Width[n])} ELSE {}
<1>1. \A m : Line(m, p[m]).code = vcd_code(m) /\ Line(m, p[m]).digits = Digits(p[m], Width[m])
  BY DEF Line
<1>2. \A m \in D : vcd_code(m) = vcd_code(n) => m = n
  BY CodesDiffer
<1>3. \A l : l \in LinesFor(p, D) /\ l.code = vcd_code(n) <=> n \in D /\ l = Line(n, p[n])
  <2>1. ASSUME NEW l, l \in LinesFor(p, D), l.code = vcd_code(n)
        PROVE  n \in D /\ l = Line(n, p[n])
    <3>1. PICK m \in D : l = Line(m, p[m])
      BY <2>1 DEF LinesFor
    <3>2. m = n
      BY <1>1, <1>2, <2>1, <3>1
    <3> QED
      BY <3>1, <3>2
  <2>2. ASSUME n \in D
        PROVE  Line(n, p[n]) \in LinesFor(p, D) /\ Line(n, p[n]).code = vcd_code(n)
    BY <1>1, <2>2 DEF LinesFor
  <2> QED
    BY <2>1, <2>2
<1>4. CASE n \in D
  <2>1. {d \in LinesFor(p, D) : d.code = vcd_code(n)} = {Line(n, p[n])}
    BY <1>3, <1>4
  <2>2. HereOf(LinesFor(p, D), vcd_code(n)) = {l.digits : l \in {Line(n, p[n])}}
    BY <2>1 DEF HereOf
  <2> QED
    BY <1>1, <1>4, <2>2
<1>5. CASE n \notin D
  <2>1. {d \in LinesFor(p, D) : d.code = vcd_code(n)} = {}
    BY <1>3, <1>5
  <2>2. HereOf(LinesFor(p, D), vcd_code(n)) = {l.digits : l \in {}}
    BY <2>1 DEF HereOf
  <2> QED
    BY <1>5, <2>2
<1> QED
  BY <1>4, <1>5

-----------------------------------------------------------------------------
(* The waveform tells the values *)

\* What waits for net n, or else what the file says of it, is the value v.
TellsNet(ch, dv, p, n, v) ==
  IF n \in DOMAIN p THEN p[n] = v
                    ELSE ReadIn(ch, dv, vcd_code(n)) = {Digits(v, Width[n])}

DumpInv ==
  /\ DOMAIN nets = Nets
  /\ vcd_active => \A n \in Nets : TellsNet(changes, dumpvars, pending, n, LowChunk(nets[n]))
  /\ ~vcd_active => pending = <<>> /\ changes = <<>>
  /\ phase = "start" => ~vcd_active
  /\ phase = "done" => pending = <<>>

\* What the steps do to the nets and to the waveform.
LEMMA NextDump ==
  ASSUME [Next]_vars, phase = "start" => ~vcd_active
  PROVE  \/ /\ UNCHANGED <<nets, vcdVars>>
            /\ phase' = phase \/ phase' \in {"run", "advance"}
         \/ /\ \E d \in program.drives :
                 nets' = [nets EXCEPT ![d.net] = d.val] /\ record_change(d.net, d.val)
            /\ phase = "run" /\ phase' = "run"
         \/ /\ ~vcd_active /\ \E created \in BOOLEAN : init_vcd(nets, created)
            /\ nets' = nets /\ phase' = "run"
         \/ /\ \E t \in 1 .. MaxTime : advance_time(now, t)
            /\ nets' = nets /\ phase' = "run"
         \/ finish /\ nets' = nets /\ phase' = "done" /\ phase # "start"
<1>1. CASE UNCHANGED vars
  BY <1>1 DEF vars, runVars
<1>2. CASE \E created \in BOOLEAN : Begin(created)
  BY <1>2 DEF Begin
<1>3. CASE \E d \in program.drives : Write(d.net, d.val)
  BY <1>3 DEF Write
<1>4. CASE \E v, w \in FdVars : AssignFd(v, w)
  BY <1>4 DEF AssignFd, runVars
<1>5. CASE \E args \in ArgLists : Display(args) \/ Monitor(args)
  BY <1>5 DEF Display, Monitor, Called
<1>6. CASE \E v \in FdVars, args \in ArgLists : FDisplay(v, args) \/ FMonitor(v, args)
  BY <1>6 DEF FDisplay, FMonitor, Called
<1>7. CASE \E v \in FdVars \cup {NoFd}, args \in ArgLists : Strobe(v, args)
  BY <1>7 DEF Strobe, Called
<1>8. CASE \E v \in FdVars : OpenMcd(v) \/ OpenFd(v)
  BY <1>8 DEF OpenMcd, OpenFd, Called
<1>9. CASE \E v \in FdVars : OpenFails(v) \/ FClose(v)
  BY <1>9 DEF OpenFails, FClose, Called
<1>10. CASE MonitorOn \/ MonitorOff \/ Finish
  BY <1>10 DEF MonitorOn, MonitorOff, Finish, Called
<1>11. CASE \E created \in BOOLEAN : DumpVars(created)
  BY <1>11 DEF DumpVars, Called
<1>12. CASE Postponed
  BY <1>12 DEF Postponed
<1>13. CASE StopAfterFinish \/ End
  BY <1>13 DEF StopAfterFinish, End
<1>14. CASE \E t \in 1 .. MaxTime : Advance(t)
  BY <1>14 DEF Advance
<1> QED
  BY <1>1, <1>2, <1>3, <1>4, <1>5, <1>6, <1>7, <1>8, <1>9, <1>10, <1>11, <1>12,
     <1>13, <1>14 DEF Next

\* The changes that wait are written: the file tells all.
LEMMA DumpFlushed ==
  ASSUME StampsInv, NEW t \in Nat,
         \A n \in Nets : TellsNet(changes, dumpvars, pending, n, LowChunk(nets[n]))
  PROVE  \A n \in Nets : TellsNet(FlushAt(t), dumpvars, <<>>, n, LowChunk(nets[n]))
<1> SUFFICES ASSUME NEW n \in Nets
             PROVE  TellsNet(FlushAt(t), dumpvars, <<>>, n, LowChunk(nets[n]))
  OBVIOUS
<1> DEFINE v == LowChunk(nets[n])
           blk == [time |-> t, lines |-> LinesFor(pending, DOMAIN pending)]
<1>1. TellsNet(changes, dumpvars, pending, n, v)
  OBVIOUS
<1> HIDE DEF v
<1>2. DOMAIN pending \in SUBSET Nets /\ changes \in Seq(Blocks) /\ blk \in Blocks
  BY DEF StampsInv, Blocks, LinesFor
<1>3. blk.lines = LinesFor(pending, DOMAIN pending)
  OBVIOUS
<1>4. CASE DOMAIN pending = {}
  <2>1. FlushAt(t) = changes /\ n \notin DOMAIN pending /\ n \notin DOMAIN <<>>
    BY <1>4 DEF FlushAt
  <2> QED
    BY <1>1, <2>1 DEF TellsNet, v
<1>5. CASE DOMAIN pending # {}
  <2>1. FlushAt(t) = Append(changes, blk)
    BY <1>5 DEF FlushAt, LinesFor
  <2> HIDE DEF blk
  <2>2. ReadIn(Append(changes, blk), dumpvars, vcd_code(n)) =
          IF HereOf(blk.lines, vcd_code(n)) # {} THEN HereOf(blk.lines, vcd_code(n))
                                                 ELSE ReadIn(changes, dumpvars, vcd_code(n))
    <3>1. ReadIn(Append(changes, blk), dumpvars, vcd_code(n)) =
            OrBefore(HereOf(blk.lines, vcd_code(n)), ReadIn(changes, dumpvars, vcd_code(n)))
      BY <1>2, ReadAppend
    <3> QED
      BY <3>1 DEF OrBefore
  <2> DEFINE h == HereOf(LinesFor(pending, DOMAIN pending), vcd_code(n))
  <2>3. h = IF n \in DOMAIN pending THEN {Digits(pending[n], Width[n])} ELSE {}
    BY <1>2, HereFacts
  <2> HIDE DEF h
  <2>4. HereOf(blk.lines, vcd_code(n)) = h
    BY <1>3 DEF h
  <2>5. n \notin DOMAIN <<>>
    OBVIOUS
  <2>6. ReadIn(FlushAt(t), dumpvars, vcd_code(n)) = {Digits(v, Width[n])}
    <3>1. CASE n \in DOMAIN pending
      BY <1>1, <2>1, <2>2, <2>3, <2>4, <3>1 DEF TellsNet
    <3>2. CASE n \notin DOMAIN pending
      BY <1>1, <2>1, <2>2, <2>3, <2>4, <3>2 DEF TellsNet
    <3> QED
      BY <3>1, <3>2
  <2> QED
    BY <2>5, <2>6 DEF TellsNet, v
<1> QED
  BY <1>4, <1>5

LEMMA DumpInvInit == Init => DumpInv
BY OutputAssumption DEF Init, VcdInit, DumpInv

LEMMA DumpInvNext == StampsInv /\ DumpInv /\ [Next]_vars => DumpInv'
<1> SUFFICES ASSUME StampsInv, DumpInv, [Next]_vars
             PROVE  DumpInv'
  OBVIOUS
<1>1. /\ DOMAIN nets = Nets
      /\ vcd_active => \A n \in Nets : TellsNet(changes, dumpvars, pending, n, LowChunk(nets[n]))
      /\ ~vcd_active => pending = <<>> /\ changes = <<>>
      /\ phase = "start" => ~vcd_active
      /\ phase = "done" => pending = <<>>
  BY DEF DumpInv
<1>2. /\ program \in Programs /\ now \in Nat /\ last_time \in Nat
      /\ DOMAIN pending \subseteq Nets
  BY DEF StampsInv
<1>3. CASE /\ UNCHANGED <<nets, vcdVars>>
           /\ phase' = phase \/ phase' \in {"run", "advance"}
  BY <1>1, <1>3 DEF DumpInv, vcdVars
<1>4. CASE /\ \E d \in program.drives :
                nets' = [nets EXCEPT ![d.net] = d.val] /\ record_change(d.net, d.val)
           /\ phase = "run" /\ phase' = "run"
  <2>1. PICK d \in program.drives :
          nets' = [nets EXCEPT ![d.net] = d.val] /\ record_change(d.net, d.val)
    BY <1>4
  <2>2. d.net \in Nets
    <3>1. d \in [net : Nets, val : UNION {Planes(n) : n \in Nets}]
      BY <1>2, OutputAssumption
    <3> QED
      BY <3>1
  <2>3. /\ DOMAIN nets' = Nets /\ nets'[d.net] = d.val
        /\ \A n \in Nets : n # d.net => nets'[n] = nets[n]
    BY <1>1, <2>1, <2>2
  <2>4. UNCHANGED <<vcd_active, dumpvars, changes>>
    BY <2>1 DEF record_change
  <2>5. CASE vcd_active
    <3>1. pending' = [m \in DOMAIN pending \cup {d.net} |->
                        IF m = d.net THEN LowChunk(d.val) ELSE pending[m]]
      BY <2>1, <2>5 DEF record_change
    <3>2. /\ \A m : m \in DOMAIN pending' <=> m \in DOMAIN pending \/ m = d.net
          /\ pending'[d.net] = LowChunk(d.val)
          /\ \A m \in DOMAIN pending : m # d.net => pending'[m] = pending[m]
      BY <3>1
    <3>3. ASSUME NEW n \in Nets
          PROVE  TellsNet(changes', dumpvars', pending', n, LowChunk(nets'[n]))
      <4>1. CASE n = d.net
        BY <2>3, <3>2, <4>1 DEF TellsNet
      <4>2. CASE n # d.net
        BY <1>1, <2>3, <2>4, <2>5, <3>2, <4>2 DEF TellsNet
      <4> QED
        BY <4>1, <4>2
    <3> QED
      BY <1>4, <2>3, <2>4, <2>5, <3>3 DEF DumpInv
  <2>6. CASE ~vcd_active
    <3>1. pending' = pending
      BY <2>1, <2>6 DEF record_change
    <3> QED
      BY <1>1, <1>4, <2>3, <2>4, <2>6, <3>1 DEF DumpInv
  <2> QED
    BY <2>5, <2>6
<1>5. CASE /\ ~vcd_active /\ \E created \in BOOLEAN : init_vcd(nets, created)
           /\ nets' = nets /\ phase' = "run"
  <2>1. PICK created \in BOOLEAN : init_vcd(nets, created)
    BY <1>5
  <2>2. pending' = <<>> /\ changes' = <<>> /\ vcd_active' = created
    BY <1>1, <1>5, <2>1 DEF init_vcd
  <2>3. ASSUME created, NEW n \in Nets
        PROVE  TellsNet(<<>>, dumpvars', <<>>, n, LowChunk(nets[n]))
    <3> DEFINE p == [m \in Nets |-> LowChunk(nets[m])]
    <3>1. p[n] = LowChunk(nets[n])
      OBVIOUS
    <3>2. dumpvars' = {Line(m, LowChunk(nets[m])) : m \in Nets}
      BY <2>1, <2>3 DEF init_vcd
    <3>3. dumpvars' = LinesFor(p, Nets)
      BY <3>2 DEF LinesFor
    <3> HIDE DEF p
    <3>4. HereOf(LinesFor(p, Nets), vcd_code(n)) = {Digits(p[n], Width[n])}
      BY HereFacts
    <3>5. n \notin DOMAIN <<>>
      OBVIOUS
    <3> QED
      BY <3>1, <3>3, <3>4, <3>5, ReadStart DEF TellsNet
  <2> QED
    BY <1>1, <1>5, <2>2, <2>3 DEF DumpInv
<1>6. CASE /\ \E t \in 1 .. MaxTime : advance_time(now, t)
           /\ nets' = nets /\ phase' = "run"
  <2>1. PICK t \in 1 .. MaxTime : advance_time(now, t)
    BY <1>6
  <2>2. UNCHANGED <<vcd_active, dumpvars>>
    BY <2>1 DEF advance_time
  <2>3. CASE vcd_active
    <3>1. changes' = FlushAt(now) /\ pending' = <<>>
      BY <2>1, <2>3 DEF advance_time
    <3>2. \A n \in Nets : TellsNet(FlushAt(now), dumpvars, <<>>, n, LowChunk(nets[n]))
      BY <1>1, <1>2, <2>3, DumpFlushed
    <3> QED
      BY <1>1, <1>6, <2>2, <2>3, <3>1, <3>2 DEF DumpInv
  <2>4. CASE ~vcd_active
    <3>1. UNCHANGED <<changes, pending>>
      BY <2>1, <2>4 DEF advance_time
    <3> QED
      BY <1>1, <1>6, <2>2, <2>4, <3>1 DEF DumpInv
  <2> QED
    BY <2>3, <2>4
<1>7. CASE finish /\ nets' = nets /\ phase' = "done" /\ phase # "start"
  <2>1. UNCHANGED <<vcd_active, dumpvars>>
    BY <1>7 DEF finish
  <2>2. CASE vcd_active
    <3>1. changes' = FlushAt(last_time) /\ pending' = <<>>
      BY <1>7, <2>2 DEF finish
    <3>2. \A n \in Nets : TellsNet(FlushAt(last_time), dumpvars, <<>>, n, LowChunk(nets[n]))
      BY <1>1, <1>2, <2>2, DumpFlushed
    <3> QED
      BY <1>1, <1>7, <2>1, <2>2, <3>1, <3>2 DEF DumpInv
  <2>3. CASE ~vcd_active
    <3>1. UNCHANGED <<changes, pending>>
      BY <1>7, <2>3 DEF finish
    <3> QED
      BY <1>1, <1>7, <2>1, <2>3, <3>1 DEF DumpInv
  <2> QED
    BY <2>2, <2>3
<1> QED
  BY <1>1, <1>3, <1>4, <1>5, <1>6, <1>7, NextDump

\* What the invariant says of the waveform, for every program.
THEOREM DumpInvariant == Spec => []DumpInv
<1>1. StampsInv /\ DumpInv /\ [Next]_vars => DumpInv'
  BY DumpInvNext
<1> QED
  BY <1>1, DumpInvInit, StampsInvariant, PTL DEF Spec

\* DumpTellsValues for every program, tree of scopes and number of nets: whoever
\* reads the waveform has the value of every net.
THEOREM DumpTells == Spec => []DumpTellsValues
<1>1. ASSUME DumpInv
      PROVE  DumpTellsValues
  <2>1. ASSUME vcd_active, NEW n \in Nets
        PROVE  Known(n) = {Digits(LowChunk(nets[n]), Width[n])}
    <3>1. TellsNet(changes, dumpvars, pending, n, LowChunk(nets[n]))
      BY <1>1, <2>1 DEF DumpInv
    <3>2. CASE n \in DOMAIN pending
      BY <3>1, <3>2 DEF Known, TellsNet
    <3>3. CASE n \notin DOMAIN pending
      <4>1. Read(vcd_code(n)) = {Digits(LowChunk(nets[n]), Width[n])}
        BY <3>1, <3>3, ReadDef DEF TellsNet
      <4>2. CodesOf(n) = {vcd_code(n)}
        BY HeaderFacts
      <4>3. UNION {Read(c) : c \in CodesOf(n)} = Read(vcd_code(n))
        BY <4>2
      <4> QED
        BY <3>3, <4>1, <4>3 DEF Known
    <3> QED
      BY <3>2, <3>3
  <2>2. phase = "done" => pending = <<>>
    BY <1>1 DEF DumpInv
  <2> QED
    BY <2>1, <2>2, HeaderFacts DEF DumpTellsValues
<1> QED
  BY <1>1, DumpInvariant, PTL
=============================================================================
