--------------------------------- MODULE Files --------------------------------
(***************************************************************************)
(* Open files and pipes of the xv6 kernel: the file table of file.c with   *)
(* its reference counts, the descriptors of sysfile.c, and the ring of     *)
(* pipe.c with its sleeping readers and writers.  Processes fork, are      *)
(* killed and exit.  A step is what a process does under one spinlock,     *)
(* with what it does to its own variables before and after.                *)
(***************************************************************************)
EXTENDS Integers, FiniteSets

CONSTANTS Procs, initproc,
          NFILE, NOFILE,     \* files of the system, descriptors of a process
          Pages,             \* pages that kalloc may hand out for a pipe
          PIPESIZE, WRAP,    \* bytes of a ring; nread and nwrite count modulo WRAP
          Sizes,             \* the lengths of reads and writes
          MaxCalls,          \* bound on the system calls of a behaviour, exit() aside
          None               \* the null pointer

ASSUME FilesAssumption ==
  /\ IsFiniteSet(Procs) /\ initproc \in Procs /\ NFILE \in Nat /\ NOFILE \in Nat
  /\ PIPESIZE \in Nat \ {0} /\ WRAP \in Nat /\ WRAP > PIPESIZE /\ WRAP % PIPESIZE = 0
  /\ Sizes \subseteq Nat /\ MaxCalls \in Nat /\ None \notin (1 .. NFILE) \cup Procs \cup Pages

VARIABLES file, pipe,   \* ftable, and the pipes in their pages
          ofile,        \* the descriptors of each process
          pc, killed,
          mine,         \* files that the variables rf and wf of a call hold
          io,           \* the call's end of a pipe, bytes to go, and whether it is exit()
          child,        \* the process that fork() is making
          calls         \* how many calls there were

vars == <<file, pipe, ofile, pc, killed, mine, io, child, calls>>

File == 1 .. NFILE
FDs == 0 .. NOFILE - 1
NoFile == [ref |-> 0, type |-> "none", writable |-> FALSE, pipe |-> None]
\* sent and got number the bytes that were written and read.  mute: bytes were
\* stored since readers were last woken.
NoPipe == [used |-> FALSE, readopen |-> FALSE, writeopen |-> FALSE, nread |-> 0, nwrite |-> 0,
           data |-> [c \in 0 .. PIPESIZE - 1 |-> 0], sent |-> 0, got |-> 0, mute |-> FALSE]
NoIO == [pipe |-> None, writable |-> FALSE, n |-> 0, exit |-> FALSE]
Closed == [fd \in FDs |-> None]
\* The variables of sys_pipe(); fileclose() has its argument in the first that is set.
rf == -2
wf == -1
NoLocals == [x \in {rf, wf} |-> None]

Init ==
  /\ file = [f \in File |-> NoFile] /\ pipe = [k \in Pages |-> NoPipe]
  /\ ofile = [p \in Procs |-> Closed]
  /\ pc = [p \in Procs |-> IF p = initproc THEN "user" ELSE "unused"]
  /\ killed = [p \in Procs |-> FALSE] /\ mine = [p \in Procs |-> NoLocals]
  /\ io = [p \in Procs |-> NoIO] /\ child = [p \in Procs |-> None]
  /\ calls = 0

Goto(p, l) == pc' = [pc EXCEPT ![p] = l]

\* Whoever is killed exits before its next system call.
Calls(p) == pc[p] = "user" /\ ~ killed[p]

First(S, x) == x \in S /\ \A y \in S : x <= y

\* Where a call goes on with m in its variables: to the next file to close, to
\* exit()'s next descriptor, or back to the user.
Resume(p, m) == IF m # NoLocals THEN "fileclose" ELSE IF io[p].exit THEN "exit" ELSE "user"

------------------------------------------------------------------------------
(* The file table                                                           *)

\* Where fdalloc() finds room, and what argfd() accepts
Free(p) == {fd \in FDs : ofile[p][fd] = None}
argfd(p) == {fd \in FDs : ofile[p][fd] # None}

\* filealloc(), for pipealloc()
filealloc(p) ==
  LET v == IF mine[p][rf] = None THEN rf ELSE wf
      S == {f \in File : file[f].ref = 0}
  IN /\ pc[p] = "filealloc"
     /\ \/ S = {} /\ Goto(p, Resume(p, mine[p])) /\ UNCHANGED <<file, mine>>
        \/ \E f \in File :
             /\ First(S, f)
             /\ file' = [file EXCEPT ![f].ref = 1]
             /\ mine' = [mine EXCEPT ![p][v] = f]
             /\ Goto(p, IF v = wf THEN "kalloc" ELSE "filealloc")
     /\ UNCHANGED <<pipe, ofile, killed, io, child>>

\* sys_dup(): argfd(), fdalloc(), filedup()
sys_dup(p) ==
  /\ Calls(p)
  /\ \E fd \in argfd(p), new \in FDs :
       /\ First(Free(p), new)
       /\ ofile' = [ofile EXCEPT ![p][new] = ofile[p][fd]]
       /\ file' = [file EXCEPT ![ofile[p][fd]].ref = @ + 1]
  /\ UNCHANGED <<pipe, pc, killed, mine, io, child>>

sys_close(p) ==
  /\ Calls(p)
  /\ \E fd \in argfd(p) :
       /\ ofile' = [ofile EXCEPT ![p][fd] = None]
       /\ mine' = [mine EXCEPT ![p][rf] = ofile[p][fd]]
  /\ Goto(p, "fileclose")
  /\ UNCHANGED <<file, pipe, killed, io, child>>

\* Mutant: a file closes with the first of its descriptors.
filecloseFirst(p) ==
  LET v == IF mine[p][rf] # None THEN rf ELSE wf
      f == mine[p][v]
      left == [mine[p] EXCEPT ![v] = None]
  IN /\ pc[p] = "fileclose"
     /\ file' = [file EXCEPT ![f] = NoFile]
     /\ mine' = [mine EXCEPT ![p] = left]
     /\ IF file[f].type = "pipe"
        THEN /\ io' = [io EXCEPT ![p] = [@ EXCEPT !.pipe = file[f].pipe, !.writable = file[f].writable]]
             /\ Goto(p, "pipeclose")
        ELSE Goto(p, Resume(p, left)) /\ UNCHANGED io
     /\ UNCHANGED <<pipe, ofile, killed, child>>

\* fileclose() up to the release of ftable.lock.  It panics if ref < 1.  What it
\* leaves of a closed file is not read again.
fileclose(p) ==
  LET v == IF mine[p][rf] # None THEN rf ELSE wf
      f == mine[p][v]
      left == [mine[p] EXCEPT ![v] = None]
  IN /\ pc[p] = "fileclose" /\ file[f].ref >= 1
     /\ file' = [file EXCEPT ![f] = IF file[f].ref > 1 THEN [@ EXCEPT !.ref = file[f].ref - 1] ELSE NoFile]
     /\ mine' = [mine EXCEPT ![p] = left]
     /\ IF file[f].ref = 1 /\ file[f].type = "pipe"
        THEN /\ io' = [io EXCEPT ![p] = [@ EXCEPT !.pipe = file[f].pipe, !.writable = file[f].writable]]
             /\ Goto(p, "pipeclose")
        ELSE Goto(p, Resume(p, left)) /\ UNCHANGED io
     /\ UNCHANGED <<pipe, ofile, killed, child>>

------------------------------------------------------------------------------
(* Pipes                                                                    *)

\* A process between its last test and sleep() holds the lock of the pipe.
Locked(k) == \E p \in Procs : pc[p] = "sleep" /\ io[p].pipe = k

\* wakeup(&nread) and wakeup(&nwrite), as pc goes on from what it is in now
wakeup(now, k, writers) ==
  [p \in Procs |-> IF now[p] = "asleep" /\ io[p].pipe = k /\ io[p].writable = writers
                   THEN "io" ELSE now[p]]

sys_pipe(p) == Calls(p) /\ Goto(p, "filealloc") /\ UNCHANGED <<file, pipe, ofile, killed, mine, io, child>>

\* fdalloc() for the two ends
Installed(p, r, w) ==
  \E fd0, fd1 \in FDs :
    /\ First(Free(p), fd0) /\ First(Free(p) \ {fd0}, fd1)
    /\ ofile' = [ofile EXCEPT ![p] = [@ EXCEPT ![fd0] = r, ![fd1] = w]]

\* Mutant: sys_pipe() forgets the files it has no descriptors for.
descriptorsLeak(p, r, w) ==
  /\ \/ Installed(p, r, w)
     \/ (\A fd0, fd1 \in Free(p) : fd0 = fd1) /\ UNCHANGED ofile
  /\ mine' = [mine EXCEPT ![p] = NoLocals] /\ Goto(p, "user")

\* The rest of sys_pipe(): fdalloc() twice, or the files are closed.
descriptors(p, r, w) ==
  \/ Installed(p, r, w) /\ mine' = [mine EXCEPT ![p] = NoLocals] /\ Goto(p, "user")
  \/ (\A fd0, fd1 \in Free(p) : fd0 = fd1) /\ Goto(p, "fileclose") /\ UNCHANGED <<ofile, mine>>

\* pipealloc(), once it has two files: kalloc() gives it a page or fails.
pipealloc(p) ==
  LET r == mine[p][rf]
      w == mine[p][wf]
  IN /\ pc[p] = "kalloc"
     /\ \/ Goto(p, "fileclose") /\ UNCHANGED <<file, pipe, ofile, mine>>
        \/ \E k \in {j \in Pages : ~ pipe[j].used} :
             /\ pipe' = [pipe EXCEPT ![k] = [NoPipe EXCEPT !.used = TRUE, !.readopen = TRUE, !.writeopen = TRUE]]
             /\ file' = [file EXCEPT ![r] = [ref |-> 1, type |-> "pipe", writable |-> FALSE, pipe |-> k],
                                     ![w] = [ref |-> 1, type |-> "pipe", writable |-> TRUE, pipe |-> k]]
             /\ descriptors(p, r, w)
     /\ UNCHANGED <<killed, io, child>>

\* Mutant: the last writer leaves without a word.
pipecloseSilent(p) ==
  LET k == io[p].pipe
      left == IF io[p].writable THEN [pipe[k] EXCEPT !.writeopen = FALSE]
              ELSE [pipe[k] EXCEPT !.readopen = FALSE]
  IN /\ pc[p] = "pipeclose" /\ ~ Locked(k)
     /\ pipe' = [pipe EXCEPT ![k] = IF left.readopen \/ left.writeopen THEN left ELSE NoPipe]
     /\ Goto(p, Resume(p, mine[p]))
     /\ io' = [io EXCEPT ![p] = [NoIO EXCEPT !.exit = io[p].exit]]
     /\ UNCHANGED <<file, ofile, killed, mine, child>>

\* pipeclose(): the end is gone and the other side is told; with both ends gone
\* so is the page.
pipeclose(p) ==
  LET k == io[p].pipe
      left == IF io[p].writable THEN [pipe[k] EXCEPT !.writeopen = FALSE, !.mute = FALSE]
              ELSE [pipe[k] EXCEPT !.readopen = FALSE]
  IN /\ pc[p] = "pipeclose" /\ ~ Locked(k)
     /\ pipe' = [pipe EXCEPT ![k] = IF left.readopen \/ left.writeopen THEN left ELSE NoPipe]
     /\ pc' = wakeup([pc EXCEPT ![p] = Resume(p, mine[p])], k, ~ io[p].writable)
     /\ io' = [io EXCEPT ![p] = [NoIO EXCEPT !.exit = io[p].exit]]
     /\ UNCHANGED <<file, ofile, killed, mine, child>>

\* The tests of fileread() and filewrite()
Serves(f, writes) == f.type = "pipe" /\ f.writable = writes

\* sys_read() and sys_write(), up to the pipe's lock
transfer(p, writes) ==
  /\ Calls(p)
  /\ \E fd \in argfd(p), n \in Sizes :
       LET f == file[ofile[p][fd]] IN
         /\ Serves(f, writes)
         /\ io' = [io EXCEPT ![p] = [NoIO EXCEPT !.pipe = f.pipe, !.writable = writes, !.n = n]]
  /\ Goto(p, "io")
  /\ UNCHANGED <<file, pipe, ofile, killed, mine, child>>

Count(r) == (r.nwrite - r.nread) % WRAP

\* The cell of byte j of a write
Cell(r, j) == (r.nwrite + j) % PIPESIZE

\* The ring after m more bytes; byte number s of a pipe has the value s.
Stored(r, m) ==
  [r EXCEPT !.nwrite = (r.nwrite + m) % WRAP, !.sent = (r.sent + m) % WRAP,
            !.data = [c \in 0 .. PIPESIZE - 1 |->
                        IF \E j \in 0 .. m - 1 : Cell(r, j) = c
                        THEN (r.sent + (CHOOSE j \in 0 .. m - 1 : Cell(r, j) = c)) % WRAP
                        ELSE r.data[c]]]

\* What can be stored before nwrite = nread + PIPESIZE
Room(r) == PIPESIZE - Count(r)

\* pipewrite(), from the lock or the end of a sleep to the next sleep or return.
\* A killed writer that has filled the ring does not wake readers.
pipewrite(p) ==
  LET k == io[p].pipe
      r == pipe[k]
      m == IF io[p].n <= Room(r) THEN io[p].n ELSE Room(r)
      new == Stored(r, m)
  IN /\ pc[p] = "io" /\ io[p].writable /\ ~ Locked(k)
     /\ IF m = io[p].n
        THEN /\ pipe' = [pipe EXCEPT ![k] = [new EXCEPT !.mute = FALSE]]
             /\ pc' = wakeup([pc EXCEPT ![p] = "user"], k, FALSE)
             /\ io' = [io EXCEPT ![p] = NoIO]
        ELSE IF ~ r.readopen \/ killed[p]
        THEN /\ pipe' = [pipe EXCEPT ![k] = [new EXCEPT !.mute = r.mute \/ m > 0]]
             /\ Goto(p, "user") /\ io' = [io EXCEPT ![p] = NoIO]
        ELSE /\ pipe' = [pipe EXCEPT ![k] = [new EXCEPT !.mute = FALSE]]
             /\ pc' = wakeup([pc EXCEPT ![p] = "sleep"], k, FALSE)
             /\ io' = [io EXCEPT ![p].n = io[p].n - m]
     /\ UNCHANGED <<file, ofile, killed, mine, child>>

\* Mutant: the reader drops bytes of a ring that holds more than it asked for.
TakenAll(r, m) == [r EXCEPT !.nread = r.nwrite, !.got = (r.got + m) % WRAP]
\* The ring without its first m bytes
Taken(r, m) == [r EXCEPT !.nread = (r.nread + m) % WRAP, !.got = (r.got + m) % WRAP]

\* piperead(), likewise
piperead(p) ==
  LET k == io[p].pipe
      r == pipe[k]
      m == IF io[p].n <= Count(r) THEN io[p].n ELSE Count(r)
  IN /\ pc[p] = "io" /\ ~ io[p].writable /\ ~ Locked(k)
     /\ IF Count(r) = 0 /\ r.writeopen
        THEN IF killed[p] THEN Goto(p, "user") /\ io' = [io EXCEPT ![p] = NoIO] /\ UNCHANGED pipe
             ELSE Goto(p, "sleep") /\ UNCHANGED <<io, pipe>>
        ELSE /\ pipe' = [pipe EXCEPT ![k] = Taken(r, m)]
             /\ pc' = wakeup([pc EXCEPT ![p] = "user"], k, TRUE)
             /\ io' = [io EXCEPT ![p] = NoIO]
     /\ UNCHANGED <<file, ofile, killed, mine, child>>

\* sleep(): ptable.lock is taken, the pipe's lock released.
sleep(p) == pc[p] = "sleep" /\ Goto(p, "asleep") /\ UNCHANGED <<file, pipe, ofile, killed, mine, io, child>>

------------------------------------------------------------------------------
(* Processes                                                                *)

\* fork() and clone(): allocproc()
fork(p) ==
  /\ Calls(p)
  /\ \E q \in {r \in Procs : pc[r] = "unused"} :
       /\ child' = [child EXCEPT ![p] = q]
       /\ pc' = [pc EXCEPT ![p] = "fork", ![q] = "embryo"]
  /\ UNCHANGED <<file, pipe, ofile, killed, mine, io>>

\* The loop over the descriptors: filedup() one by one, then the child can run.
filedup(p) ==
  LET q == child[p]
      S == {fd \in FDs : ofile[p][fd] # ofile[q][fd]}
  IN /\ pc[p] = "fork"
     /\ \/ /\ S = {}
           /\ pc' = [pc EXCEPT ![p] = "user", ![q] = "user"] /\ child' = [child EXCEPT ![p] = None]
           /\ UNCHANGED <<file, ofile>>
        \/ \E fd \in FDs :
             /\ First(S, fd)
             /\ ofile' = [ofile EXCEPT ![q][fd] = ofile[p][fd]]
             /\ file' = [file EXCEPT ![ofile[p][fd]].ref = @ + 1]
             /\ UNCHANGED <<pc, child>>
     /\ UNCHANGED <<pipe, killed, mine, io>>

\* exit(), of its own accord or when killed, closes one file after the other.
\* wait() frees the slot.
exit(p) ==
  /\ pc[p] = "exit" \/ (pc[p] = "user" /\ p # initproc)
  /\ \/ /\ argfd(p) = {}
        /\ Goto(p, "unused") /\ killed' = [killed EXCEPT ![p] = FALSE] /\ io' = [io EXCEPT ![p] = NoIO]
        /\ UNCHANGED <<ofile, mine>>
     \/ \E fd \in FDs :
          /\ First(argfd(p), fd)
          /\ ofile' = [ofile EXCEPT ![p][fd] = None]
          /\ mine' = [mine EXCEPT ![p][rf] = ofile[p][fd]]
          /\ Goto(p, "fileclose") /\ io' = [io EXCEPT ![p] = [NoIO EXCEPT !.exit = TRUE]]
          /\ UNCHANGED killed
  /\ UNCHANGED <<file, pipe, child>>

\* kill() of a process that lives, or that fork() is making: it wakes it if it
\* sleeps.
kill(p) ==
  /\ pc[p] # "unused" /\ p # initproc /\ ~ killed[p]
  /\ killed' = [killed EXCEPT ![p] = TRUE]
  /\ Goto(p, IF pc[p] = "asleep" THEN "io" ELSE pc[p])
  /\ UNCHANGED <<file, pipe, ofile, mine, io, child>>

Call(p) ==
  sys_pipe(p) \/ sys_dup(p) \/ sys_close(p) \/ transfer(p, TRUE) \/ transfer(p, FALSE) \/ fork(p) \/ kill(p)
Step(p) ==
  \/ filealloc(p) \/ pipealloc(p) \/ fileclose(p) \/ pipeclose(p) \/ pipewrite(p) \/ piperead(p) \/ sleep(p)
  \/ filedup(p) \/ exit(p)

Next ==
  \E p \in Procs :
    \/ calls < MaxCalls /\ calls' = calls + 1 /\ Call(p)
    \/ UNCHANGED calls /\ Step(p)

Spec == Init /\ [][Next]_vars

------------------------------------------------------------------------------
(* Properties                                                               *)

\* What a descriptor or a variable of a call holds
Ref(p, x) == IF x \in FDs THEN ofile[p][x] ELSE mine[p][x]

\* ref is the number of descriptors and local variables that hold a file, in all
\* processes, at every step of fork(), exit(), dup(), pipe() and close(): a file
\* is not reused while somebody has it, and none is lost when a call fails half
\* way.
RefsCounted ==
  \A f \in File :
    file[f].ref = Cardinality({h \in Procs \X (FDs \cup {rf, wf}) : Ref(h[1], h[2]) = f})

\* The files and the calls of pipeclose() that stand for an end of a pipe
Ends(k, w) == {f \in File : file[f].type = "pipe" /\ file[f].pipe = k /\ file[f].writable = w}
Closing(k, w) == {p \in Procs : pc[p] = "pipeclose" /\ io[p].pipe = k /\ io[p].writable = w}

\* An end of a pipe is open as long as one open file stands for it, a page is a
\* pipe's as long as an end is open, and whoever reads, writes or sleeps has its
\* end open: nobody uses a page that is freed, no page is lost, and readers see
\* end of file only when the last writer is gone.
EndsCounted ==
  \A k \in Pages :
    /\ \A w \in BOOLEAN :
         Cardinality(Ends(k, w)) + Cardinality(Closing(k, w))
           = IF pipe[k].used /\ (IF w THEN pipe[k].writeopen ELSE pipe[k].readopen) THEN 1 ELSE 0
    /\ pipe[k].used <=> pipe[k].readopen \/ pipe[k].writeopen
    /\ \A p \in Procs : pc[p] \in {"io", "sleep", "asleep"} /\ io[p].pipe = k => Ends(k, io[p].writable) # {}

\* The ring holds the bytes that were sent and not read yet, in order, also when
\* nread and nwrite have wrapped and several processes write in pieces.
RingIntact ==
  \A k \in Pages :
    LET r == pipe[k] IN
      /\ (r.sent - r.got) % WRAP = Count(r)
      /\ \A j \in 0 .. Count(r) - 1 : r.data[(r.nread + j) % PIPESIZE] = (r.got + j) % WRAP

\* A reader sleeps only while the ring is empty and a writer is there, a writer
\* only while it is full and a reader is there.  The exception is a writer that
\* was killed: what it stored last it tells nobody.
NoLostWakeup ==
  \A p \in Procs :
    pc[p] = "asleep" =>
      LET r == pipe[io[p].pipe] IN
        IF io[p].writable THEN r.readopen /\ Room(r) = 0
        ELSE r.writeopen /\ (Count(r) = 0 \/ r.mute)

==============================================================================
