-------------------------------- MODULE Pipeline ------------------------------
(***************************************************************************)
(* run_pipeline of wsh: the shell makes the pipes, forks one child per     *)
(* stage, closes its descriptors and waits for the children.  A child      *)
(* connects its standard input and output, closes its copies of all pipe   *)
(* ends and becomes the stage's command.                                   *)
(*                                                                         *)
(* fork, pipe, waitpid, the pipes and the commands are external.  Process  *)
(* 0 is the shell, process i the child of stage i.                         *)
(***************************************************************************)
EXTENDS Integers, FiniteSets

CONSTANTS nseg,      \* stages, at least two
          Capacity,  \* of a pipe, in items
          Items,     \* that the first stage has to pass on
          Garbage,   \* what pids[i] may hold before it is assigned
          Failing,   \* the calls that may fail: a subset of {"pipe", "fork"}
          MaxFails   \* bound on the calls that fail

ASSUME PipelineAssumption ==
  /\ nseg \in Nat /\ nseg >= 2 /\ Capacity \in Nat \ {0} /\ Items \in Nat /\ MaxFails \in Nat
  /\ Failing \subseteq {"pipe", "fork"}
  /\ Garbage \subseteq Int /\ Garbage # {}

Segs == 1 .. nseg
Pipes == 1 .. nseg - 1
Procs == 0 .. nseg
Ends == Pipes \X {"r", "w"}

VARIABLES pc, i, pids, last_pid, status_last, rc,   \* the shell
          state, status, kind, hold, left,                 \* the children
          fds, in, out, buf,                               \* descriptors and pipes
          failed                                           \* the stages whose fork failed, and 0 for pipe

shell == <<pc, i, pids, last_pid, status_last, rc>>
child == <<state, status, kind, hold, left>>
io == <<fds, in, out, buf>>
vars == <<shell, child, io, failed>>

\* A command copies its input to its output, or ends without reading it: head,
\* a command that is not found, a builtin (which has ended well or not), and a
\* stage without a command name, which a signal ends.
Kinds == {"copy", "quit", "missing", "builtin", "failing", "nameless"}

Statuses(k) == CASE k \in {"copy", "quit"}       -> {0, 1}
                 [] k \in {"missing", "failing"} -> {1}
                 [] k = "builtin"                -> {0}
                 [] k = "nameless"               -> {139}

\* No pipeline runs.
Idle ==
  /\ pc = "idle" /\ i = 1 /\ pids = [p \in Segs |-> 0] /\ last_pid = -1 /\ status_last = 1
  /\ state = [p \in Segs |-> "none"] /\ status = [p \in Segs |-> 0]
  /\ kind = [p \in Segs |-> "copy"] /\ hold = [p \in Segs |-> 0] /\ left = Items
  /\ fds = [p \in Procs |-> {}] /\ in = [p \in Segs |-> 0] /\ out = [p \in Segs |-> 0]
  /\ buf = [k \in Pipes |-> 0]
  /\ failed = {}

\* The call of run_pipeline() for stages of kinds ks
run_pipeline(ks) ==
  /\ pc = "idle" /\ pc' = "pipe"
  /\ kind' = ks
  /\ UNCHANGED <<i, pids, last_pid, status_last, rc, state, status, hold, left, io, failed>>

\* Its return: what the children and the pipes were is gone.  The descriptors that
\* a failed pipe() leaves open in the shell are of no later pipe.
Return ==
  /\ pc = "done" /\ pc' = "idle" /\ i' = 1 /\ pids' = [p \in Segs |-> 0]
  /\ last_pid' = -1 /\ status_last' = 1
  /\ state' = [p \in Segs |-> "none"] /\ status' = [p \in Segs |-> 0]
  /\ kind' = [p \in Segs |-> "copy"] /\ hold' = [p \in Segs |-> 0] /\ left' = Items
  /\ fds' = [p \in Procs |-> {}] /\ in' = [p \in Segs |-> 0] /\ out' = [p \in Segs |-> 0]
  /\ buf' = [k \in Pipes |-> 0]
  /\ failed' = {} /\ UNCHANGED rc

------------------------------------------------------------------------------
(* The shell                                                                *)

CanFail(c) == c \in Failing /\ Cardinality(failed) < MaxFails

\* On failure run_pipeline returns at once.
pipe ==
  /\ pc = "pipe"
  /\ \/ /\ i <= nseg - 1
        /\ fds' = [fds EXCEPT ![0] = @ \cup ({i} \X {"r", "w"})] /\ i' = i + 1
        /\ UNCHANGED <<pc, rc, failed>>
     \/ /\ i <= nseg - 1 /\ CanFail("pipe")
        /\ rc' = 1 /\ pc' = "done" /\ failed' = failed \cup {0}
        /\ UNCHANGED <<i, fds>>
     \/ /\ i = nseg /\ pc' = "fork" /\ i' = 1
        /\ UNCHANGED <<rc, fds, failed>>
  /\ UNCHANGED <<pids, last_pid, status_last, child, in, out, buf>>

Advance == IF i < nseg THEN i' = i + 1 /\ UNCHANGED pc ELSE i' = 1 /\ pc' = "close"

\* When fork fails pids[i] stays uninitialized: whatever the stack held.
fork ==
  /\ pc = "fork"
  /\ \/ /\ state' = [state EXCEPT ![i] = "dup2"] /\ fds' = [fds EXCEPT ![i] = fds[0]]
        /\ pids' = [pids EXCEPT ![i] = i] /\ last_pid' = IF i = nseg THEN i ELSE last_pid
        /\ UNCHANGED <<rc, failed>>
     \/ /\ CanFail("fork") /\ failed' = failed \cup {i} /\ rc' = 1
        /\ \E g \in Garbage : pids' = [pids EXCEPT ![i] = g]
        /\ UNCHANGED <<state, fds, last_pid>>
  /\ Advance
  /\ UNCHANGED <<status_last, status, kind, hold, left, in, out, buf>>

\* Mutant: the shell keeps its copies of the last pipe.
closeShort ==
  /\ pc = "close" /\ fds' = [fds EXCEPT ![0] = @ \ ((1 .. nseg - 2) \X {"r", "w"})] /\ pc' = "wait"
  /\ UNCHANGED <<i, pids, last_pid, status_last, rc, child, in, out, buf, failed>>

close ==
  /\ pc = "close" /\ fds' = [fds EXCEPT ![0] = {}] /\ pc' = "wait"
  /\ UNCHANGED <<i, pids, last_pid, status_last, rc, child, in, out, buf, failed>>

\* waitpid(pids[i], &st, 0): 0 and -1 wait for any child.  When it fails st is
\* still 0.
Children(q) == IF q \in {0, -1} THEN Segs ELSE {q} \cap Segs
Alive(q) == {p \in Children(q) : state[p] \notin {"none", "zombie", "reaped"}}
Zombies(q) == {p \in Children(q) : state[p] = "zombie"}

GotStatus(st) == status_last' = IF pids[i] = last_pid THEN st ELSE status_last

\* Mutant: the last child is not waited for.
waitpidShort ==
  /\ pc = "wait"
  /\ \/ \E p \in Zombies(pids[i]) : state' = [state EXCEPT ![p] = "reaped"] /\ GotStatus(status[p])
     \/ Zombies(pids[i]) = {} /\ Alive(pids[i]) = {} /\ GotStatus(0) /\ UNCHANGED state
  /\ IF i < nseg - 1 THEN i' = i + 1 /\ UNCHANGED pc ELSE pc' = "status" /\ UNCHANGED i
  /\ UNCHANGED <<pids, last_pid, rc, status, kind, hold, left, io, failed>>

waitpid ==
  /\ pc = "wait"
  /\ \/ \E p \in Zombies(pids[i]) : state' = [state EXCEPT ![p] = "reaped"] /\ GotStatus(status[p])
     \/ Zombies(pids[i]) = {} /\ Alive(pids[i]) = {} /\ GotStatus(0) /\ UNCHANGED state
  /\ IF i < nseg THEN i' = i + 1 /\ UNCHANGED pc ELSE pc' = "status" /\ UNCHANGED i
  /\ UNCHANGED <<pids, last_pid, rc, status, kind, hold, left, io, failed>>

set_rc ==
  /\ pc = "status" /\ pc' = "done"
  /\ rc' = IF status_last = 0 THEN 0 ELSE 1
  /\ UNCHANGED <<i, pids, last_pid, status_last, child, io, failed>>

------------------------------------------------------------------------------
(* The children                                                             *)

\* The process ends and the kernel closes what it has open.
Exits(p, st) ==
  /\ state' = [state EXCEPT ![p] = "zombie"] /\ status' = [status EXCEPT ![p] = st]
  /\ in' = [in EXCEPT ![p] = 0] /\ out' = [out EXCEPT ![p] = 0] /\ fds' = [fds EXCEPT ![p] = {}]
  /\ UNCHANGED <<shell, kind, hold, left, buf, failed>>

\* dup2 onto standard input and output, which fails on a descriptor that is
\* not open
dup2(p) ==
  /\ state[p] = "dup2"
  /\ IF \/ p > 1 /\ <<p - 1, "r">> \notin fds[p]
        \/ p < nseg /\ <<p, "w">> \notin fds[p]
     THEN Exits(p, 1)
     ELSE /\ state' = [state EXCEPT ![p] = "close"]
          /\ in' = [in EXCEPT ![p] = p - 1] /\ out' = [out EXCEPT ![p] = IF p < nseg THEN p ELSE 0]
          /\ UNCHANGED <<shell, status, kind, hold, left, fds, buf, failed>>

\* Mutant: a child closes only the ends it has duplicated.
close_allOwn(p) ==
  /\ state[p] = "close" /\ state' = [state EXCEPT ![p] = "run"]
  /\ fds' = [fds EXCEPT ![p] = @ \ {<<p - 1, "r">>, <<p, "w">>}]
  /\ UNCHANGED <<shell, status, kind, hold, left, in, out, buf, failed>>

close_all(p) ==
  /\ state[p] = "close" /\ state' = [state EXCEPT ![p] = "run"]
  /\ fds' = [fds EXCEPT ![p] = {}]
  /\ UNCHANGED <<shell, status, kind, hold, left, in, out, buf, failed>>

Readers(k) == {p \in Procs : <<k, "r">> \in fds[p]} \cup {p \in Segs : in[p] = k}
Writers(k) == {p \in Procs : <<k, "w">> \in fds[p]} \cup {p \in Segs : out[p] = k}

\* The first stage reads what the terminal or a file has for it.
read(p) ==
  /\ state[p] = "run" /\ kind[p] = "copy" /\ hold[p] = 0
  /\ IF in[p] = 0 THEN left > 0 /\ left' = left - 1 /\ UNCHANGED buf
     ELSE buf[in[p]] > 0 /\ buf' = [buf EXCEPT ![in[p]] = @ - 1] /\ UNCHANGED left
  /\ hold' = [hold EXCEPT ![p] = 1]
  /\ UNCHANGED <<shell, state, status, kind, fds, in, out, failed>>

write(p) ==
  /\ state[p] = "run" /\ hold[p] = 1
  /\ IF out[p] = 0 THEN UNCHANGED buf
     ELSE Readers(out[p]) # {} /\ buf[out[p]] < Capacity /\ buf' = [buf EXCEPT ![out[p]] = @ + 1]
  /\ hold' = [hold EXCEPT ![p] = 0]
  /\ UNCHANGED <<shell, state, status, kind, left, fds, in, out, failed>>

\* A write to a pipe that nobody reads
sigpipe(p) ==
  /\ state[p] = "run" /\ hold[p] = 1 /\ out[p] # 0 /\ Readers(out[p]) = {}
  /\ Exits(p, 141)

\* At the end of its input a command exits.
exit(p) ==
  /\ state[p] = "run" /\ hold[p] = 0
  /\ \/ kind[p] # "copy"
     \/ in[p] = 0 /\ left = 0
     \/ in[p] # 0 /\ buf[in[p]] = 0 /\ Writers(in[p]) = {}
  /\ \E st \in Statuses(kind[p]) : Exits(p, st)

Parent == pipe \/ fork \/ close \/ waitpid \/ set_rc
Child(p) == dup2(p) \/ close_all(p) \/ read(p) \/ write(p) \/ sigpipe(p) \/ exit(p)
------------------------------------------------------------------------------
(* Properties                                                               *)

\* A pipe between two commands that run is held open by these two alone once the
\* shell waits: no forgotten copy in another child or in the shell keeps a
\* reader from its end of file or a writer from SIGPIPE.
TwoHolders ==
  pc \in {"wait", "status", "done"} /\ 0 \notin failed /\ (\A p \in Segs : state[p] \notin {"dup2", "close"})
    => \A k \in Pipes : Writers(k) \subseteq {k} /\ Readers(k) \subseteq {k + 1}

\* When run_pipeline returns every child has been waited for, also after forks
\* that failed and waits on what pids[] happened to hold.  If all forks succeeded
\* "rc is taken from the last stage's exit status", and commands that read all
\* their input have passed on all of it.  Of rc after a fork that failed nothing is
\* said: rc = EXIT_FAILURE (wsh.c:636) is overwritten with the status of whatever
\* the last wait was for.
Outcome ==
  pc = "done" =>
    /\ \A p \in Segs : state[p] \in {"none", "reaped"}
    /\ failed = {} => (rc = 0 <=> status[nseg] = 0)
    /\ failed = {} /\ (\A p \in Segs : kind[p] = "copy")
         => left = 0 /\ (\A k \in Pipes : buf[k] = 0) /\ \A p \in Segs : hold[p] = 0

==============================================================================
