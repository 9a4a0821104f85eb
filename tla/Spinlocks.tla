------------------------------- MODULE Spinlocks ------------------------------
(***************************************************************************)
(* The spinlocks of the xv6 kernel, spinlock.c, as proc.c, trap.c and the  *)
(* drivers use them: which locks a kernel path takes, in which order, with *)
(* interrupts on or off, and across which context switches.                *)
(***************************************************************************)
EXTENDS Integers, Sequences, FiniteSets

CONSTANTS CPUs, CPU0,   \* the processors; the timer interrupt counts on CPU0
          Procs,        \* the processes
          STCF,         \* built with SCHEDULER=STCF, not RR
          Free          \* the owner of a lock nobody holds

ASSUME SpinlocksAssumption ==
  CPU0 \in CPUs /\ CPUs \cap Procs = {} /\ STCF \in BOOLEAN /\ Free \notin CPUs

VARIABLES owner,        \* lk->locked and lk->cpu
          IF_, ncli, intena,  \* of each CPU: FL_IF, and the counter of pushcli
          running,      \* the thread on each CPU: a process, or its scheduler
          todo,         \* what is left to do of each thread's kernel path
          saved,        \* intena of a process in sched()
          panicked

vars == <<owner, IF_, ncli, intena, running, todo, saved, panicked>>

\* ptable.lock, tickslock, kmem.lock.  "device" stands for idelock and cons.lock,
\* which a handler takes too, "other" for log.lock, the lock of a pipe or of a
\* sleep-lock, which none takes: all of a kind are used in the same way.
Locks == {"ptable", "ticks", "kmem", "device", "other"}
Threads == CPUs \cup Procs

acq(l) == <<"acquire", l>>
rel(l) == <<"release", l>>

------------------------------------------------------------------------------
(* Kernel paths                                                             *)

\* Mutant: the time is read whatever the scheduler.
ticks_nowAlways == <<acq("ticks"), rel("ticks")>>

\* ticks_now().  With RR no process ever has t_last_scheduled >= 0.
ticks_now == IF STCF THEN <<acq("ticks"), rel("ticks")>> ELSE <<>>

\* yield(), and the sleep() of wait()
yield == <<acq("ptable")>> \o ticks_now \o <<<<"sched">>, rel("ptable")>>

\* exit() never comes back from sched()
exit == <<acq("ptable")>> \o ticks_now \o <<<<"zombie">>>>

\* Mutant: sleep() does not release the caller's lock.
sleepHolds(l) ==
  <<acq(l), acq("ptable")>> \o ticks_now \o <<<<"sched">>, rel("ptable"), rel(l)>>

\* A loop that calls sleep(chan, &l)
sleep(l) ==
  <<acq(l), acq("ptable"), rel(l)>> \o ticks_now
    \o <<<<"sched">>, rel("ptable"), acq(l), rel(l)>>

\* wakeup(chan) with l held
wakeup(l) == <<acq(l), acq("ptable"), rel("ptable"), rel(l)>>

\* wait() finds a zombie and frees its pages.
reap == <<acq("ptable"), acq("kmem"), rel("kmem"), rel("ptable")>>

leaf(l) == <<acq(l), rel(l)>>

Syscalls ==
  {yield, exit, reap, leaf("ptable"), leaf("ticks"), leaf("kmem")}
    \cup {sleep(l) : l \in {"ticks", "device", "other"}} \cup {wakeup("other")}

\* trap() on a timer interrupt
timer(c) ==
  (IF c = CPU0 THEN <<acq("ticks"), acq("ptable"), rel("ptable"), rel("ticks")>> ELSE <<>>)
    \o (IF ~ STCF /\ running[c] \in Procs THEN yield ELSE <<>>)

Interrupts(c) == {timer(c), wakeup("device")}

\* The body of the loop of scheduler(), and what follows the switch to a process
schedule == <<<<"sti">>, acq("ptable"), <<"pick">>, rel("ptable")>>
iret == <<"iret">>

\* forkret()
forkret == <<rel("ptable"), iret>>

------------------------------------------------------------------------------
Init ==
  /\ owner = [l \in Locks |-> Free]
  /\ IF_ = [c \in CPUs |-> FALSE] /\ ncli = [c \in CPUs |-> 0]
  /\ intena = [c \in CPUs |-> FALSE]
  /\ running = [c \in CPUs |-> c]
  /\ todo = [t \in Threads |-> IF t \in CPUs THEN schedule ELSE forkret]
  /\ saved = [p \in Procs |-> TRUE] /\ panicked = FALSE

Now(c) == todo[running[c]]
At(c, op) == ~ panicked /\ Now(c) # <<>> /\ Head(Now(c))[1] = op
Lock(c) == Head(Now(c))[2]
Then(c, ops) == todo' = [todo EXCEPT ![running[c]] = ops \o Tail(@)]
panic == panicked' = TRUE /\ UNCHANGED <<owner, IF_, ncli, intena, running, todo, saved>>

holding(c, l) == owner[l] = c

\* acquire(): pushcli() and the test for a lock this CPU holds
acquire(c) ==
  /\ At(c, "acquire")
  /\ IF holding(c, Lock(c)) THEN panic
     ELSE /\ IF_' = [IF_ EXCEPT ![c] = FALSE]
          /\ intena' = [intena EXCEPT ![c] = IF ncli[c] = 0 THEN IF_[c] ELSE @]
          /\ ncli' = [ncli EXCEPT ![c] = @ + 1]
          /\ Then(c, <<<<"spin", Lock(c)>>>>)
          /\ UNCHANGED <<owner, running, saved, panicked>>

\* The xchg that succeeds
xchg(c) ==
  /\ At(c, "spin") /\ owner[Lock(c)] = Free
  /\ owner' = [owner EXCEPT ![Lock(c)] = c]
  /\ Then(c, <<>>)
  /\ UNCHANGED <<IF_, ncli, intena, running, saved, panicked>>

\* release(), with popcli()
release(c) ==
  /\ At(c, "release")
  /\ IF ~ holding(c, Lock(c)) \/ IF_[c] \/ ncli[c] < 1 THEN panic
     ELSE /\ owner' = [owner EXCEPT ![Lock(c)] = Free]
          /\ ncli' = [ncli EXCEPT ![c] = @ - 1]
          /\ IF_' = [IF_ EXCEPT ![c] = ncli[c] = 1 /\ intena[c]]
          /\ Then(c, <<>>)
          /\ UNCHANGED <<intena, running, saved, panicked>>

SchedPanics(c) == ~ holding(c, "ptable") \/ ncli[c] # 1 \/ IF_[c]

\* sched(): from a process to the scheduler of its CPU.  A zombie's slot is
\* used again by a process that starts in forkret().
sched(c) ==
  /\ At(c, "sched") \/ At(c, "zombie")
  /\ IF SchedPanics(c) THEN panic
     ELSE /\ IF At(c, "sched")
             THEN Then(c, <<>>) /\ saved' = [saved EXCEPT ![running[c]] = intena[c]]
             ELSE /\ todo' = [todo EXCEPT ![running[c]] = forkret]
                  /\ saved' = [saved EXCEPT ![running[c]] = TRUE]
          /\ running' = [running EXCEPT ![c] = c]
          /\ UNCHANGED <<owner, IF_, ncli, intena, panicked>>

\* scheduler() finds a process that no CPU runs, or none.  It notes the time
\* before it switches, with STCF.
pick(c) ==
  /\ At(c, "pick")
  /\ \/ Then(c, <<>>)
     \/ \E p \in Procs : (\A d \in CPUs : running[d] # p) /\ Then(c, ticks_now \o <<<<"swtch", p>>>>)
  /\ UNCHANGED <<owner, IF_, ncli, intena, running, saved, panicked>>

\* The process goes on where it left off; sched() restores intena.
swtch(c) ==
  /\ At(c, "swtch")
  /\ LET p == Head(Now(c))[2] IN
       /\ running' = [running EXCEPT ![c] = p]
       /\ intena' = [intena EXCEPT ![c] = saved[p]]
  /\ Then(c, <<>>)
  /\ UNCHANGED <<owner, IF_, ncli, saved, panicked>>

\* sti() at the head of the scheduler loop; the end of a trap
sti(c) ==
  /\ At(c, "sti") \/ At(c, "iret")
  /\ IF_' = [IF_ EXCEPT ![c] = TRUE]
  /\ Then(c, <<>>)
  /\ UNCHANGED <<owner, ncli, intena, running, saved, panicked>>

\* A process makes a system call; the scheduler begins another turn.
call(c) ==
  /\ ~ panicked /\ Now(c) = <<>>
  /\ IF running[c] = c THEN todo' = [todo EXCEPT ![c] = schedule]
     ELSE \E s \in Syscalls : todo' = [todo EXCEPT ![running[c]] = s \o <<iret>>]
  /\ UNCHANGED <<owner, IF_, ncli, intena, running, saved, panicked>>

\* An interrupt gate: the handler runs with interrupts off.
interrupt(c) ==
  /\ ~ panicked /\ IF_[c]
  /\ \E h \in Interrupts(c) :
       todo' = [todo EXCEPT ![running[c]] = h \o <<iret>> \o @]
  /\ IF_' = [IF_ EXCEPT ![c] = FALSE]
  /\ UNCHANGED <<owner, ncli, intena, running, saved, panicked>>

Next ==
  \E c \in CPUs :
    \/ acquire(c) \/ xchg(c) \/ release(c) \/ sched(c) \/ pick(c) \/ swtch(c) \/ sti(c)
    \/ call(c) \/ interrupt(c)

Spec == Init /\ [][Next]_vars

------------------------------------------------------------------------------
(* Properties                                                               *)

Held(c) == {l \in Locks : owner[l] = c}

\* None of the checks of acquire(), release(), popcli() and sched() fails: no
\* handler takes a lock that the code it interrupts holds, and no process keeps
\* a spinlock other than ptable.lock across a switch.
NoPanic == ~ panicked

\* "disable interrupts to avoid deadlock": no CPUs spin for locks that are held
\* among them.
NoDeadlock ==
  ~ \E S \in SUBSET CPUs :
      S # {} /\ \A c \in S : At(c, "spin") /\ owner[Lock(c)] \in S

==============================================================================
