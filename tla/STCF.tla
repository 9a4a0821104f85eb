--------------------------------- MODULE STCF ---------------------------------
(***************************************************************************)
(* The process table of the xv6 kernel and its shortest-time-to-completion *)
(* scheduler: proc.c, the scheduling system calls of sysproc.c and the     *)
(* timer interrupt of trap.c, built with SCHEDULER=STCF.                   *)
(*                                                                         *)
(* What the kernel does while it holds ptable.lock is one action.  A       *)
(* system call that takes the lock several times is as many actions, and   *)
(* label[s] says where the kernel thread of slot s goes on.  Memory, files *)
(* and names of a process are left out.                                    *)
(***************************************************************************)
EXTENDS Integers, FiniteSets

CONSTANTS NPROC,             \* size of the process table
          CPUs,              \* the processors
          STCF_INIT_REMAIN,  \* t_remain of a process nobody has estimated
          Times,             \* arguments of remain() and exec2()
          Naps,              \* arguments of sleep()
          MaxTicks, MaxPid,  \* bounds: timer interrupts, process ids
          MaxCalls           \* bound: calls other than fork, exit and wait

ASSUME STCFAssumption ==
  /\ NPROC \in Nat \ {0} /\ STCF_INIT_REMAIN \in Int
  /\ Times \subseteq Int /\ Naps \subseteq Nat
  /\ MaxTicks \in Nat /\ MaxPid \in Nat /\ MaxCalls \in Nat

Slots == 1 .. NPROC
None == 0
initproc == 1

\* Channels: a process waits for its children on its own table entry, that is
\* on its slot.
TicksChan == -1
Device == -2

VARIABLES proc,         \* the process table: a record per slot
          cpu,          \* cpu[c]: the slot running on c, or None
          held,         \* the slot that resumed holding ptable.lock, or None
          skip_target,  \* the last caller of give_cpu(), or None
          nextpid, ticks,
          label,        \* where each kernel thread resumes
          np,           \* the child a fork() is setting up
          nap,          \* argument n and ticks0 of a sleep()
          calls,        \* calls other than fork, exit and wait so far
          boot,         \* the CPU that is still in main(), before its scheduler()
          due,          \* history: the last estimate stored in t_remain, less
                        \* one for every tick the process was RUNNING since
          late          \* history: slots whose last estimate was stored while
                        \* they ran, and not in the tick of their dispatch

vars == <<proc, cpu, held, skip_target, nextpid, ticks, label, np, nap, calls, boot, due, late>>

States == {"UNUSED", "EMBRYO", "SLEEPING", "RUNNABLE", "RUNNING", "ZOMBIE"}

Unused == [state |-> "UNUSED", pid |-> 0, parent |-> None, chan |-> None,
           killed |-> FALSE, sleepticks |-> -1, t_remain |-> 0,
           t_last_scheduled |-> -1, skip_once |-> FALSE]

NoNap == [n |-> 0, ticks0 |-> 0]

\* userinit has made the first process, in the first slot, and lets the other
\* processors run it.
firstProc == [Unused EXCEPT !.state = "RUNNABLE", !.pid = 1,
                            !.t_remain = STCF_INIT_REMAIN]

Init ==
  /\ proc = [s \in Slots |-> IF s = initproc THEN firstProc ELSE Unused]
  /\ cpu = [c \in CPUs |-> None]
  /\ held = None /\ skip_target = None
  /\ nextpid = 2 /\ ticks = 0
  /\ label = [s \in Slots |-> "user"]
  /\ np = [s \in Slots |-> None]
  /\ nap = [s \in Slots |-> NoNap]
  /\ calls = 0
  /\ boot \in {{c} : c \in CPUs}
  /\ due = [s \in Slots |-> IF s = initproc THEN STCF_INIT_REMAIN ELSE 0]
  /\ late = {}

------------------------------------------------------------------------------
(* What the kernel does to a process table tab                              *)

\* Mutant: the time on the CPU is charged only when it is more than one tick.
accountLate(tab, s) ==
  [tab EXCEPT ![s].t_remain =
     IF ticks - tab[s].t_last_scheduled > 1 THEN @ - (ticks - tab[s].t_last_scheduled) ELSE @]

\* stcf_account_before_switch
account(tab, s) ==
  [tab EXCEPT ![s].t_remain =
     IF tab[s].t_last_scheduled >= 0 THEN @ - (ticks - tab[s].t_last_scheduled) ELSE @]

wakeup1(tab, chan) ==
  [s \in Slots |-> IF tab[s].state = "SLEEPING" /\ tab[s].chan = chan
                   THEN [tab[s] EXCEPT !.state = "RUNNABLE"] ELSE tab[s]]

\* Charge the process of slot s and take it off its CPU in state st.
Leave(tab, s, st) ==
  /\ proc' = [account(tab, s) EXCEPT ![s].state = st]
  /\ cpu' = [c \in CPUs |-> IF cpu[c] = s THEN None ELSE cpu[c]]
  /\ held' = None

Sleep(s, tab, chan) == Leave([tab EXCEPT ![s].chan = chan], s, "SLEEPING")

On(s) == \E c \in CPUs : cpu[c] = s

In(s, l) == On(s) /\ label[s] = l

\* A process at label l that may take ptable.lock.
At(s, l) == In(s, l) /\ held \in {None, s}

Goto(s, l) == label' = [label EXCEPT ![s] = l]

\* A system call begins: trap() lets a killed process only exit.
Enters(s) == In(s, "user") /\ ~ proc[s].killed
Calls(s) == At(s, "user") /\ ~ proc[s].killed

------------------------------------------------------------------------------
(* scheduler()                                                              *)

Runnable == {s \in Slots : proc[s].state = "RUNNABLE"}
Skipped == {s \in Slots : proc[s].skip_once \/ s = skip_target}

\* s goes before q: less time remaining, or the higher pid.
Before(s, q) ==
  \/ proc[s].t_remain < proc[q].t_remain
  \/ proc[s].t_remain = proc[q].t_remain /\ proc[s].pid > proc[q].pid

\* Pass 1 leaves out the skipped ones, pass 2 allows everyone.
Pass == IF Runnable \ Skipped # {} THEN Runnable \ Skipped ELSE Runnable
Best(s) == s \in Pass /\ \A q \in Pass \ {s} : Before(s, q)

\* Mutant: the chosen process stays RUNNABLE in the table.
dispatchStillRunnable(c) ==
  /\ c \notin boot /\ cpu[c] = None /\ held = None
  /\ \E p \in Slots :
       /\ Best(p)
       /\ cpu' = [cpu EXCEPT ![c] = p]
       /\ proc' = [proc EXCEPT ![p].chan = None, ![p].t_last_scheduled = ticks]
  /\ UNCHANGED <<held, skip_target, nextpid, ticks, label, np, nap, due, late>>

\* One round of the loop: the skip is consumed when somebody else is chosen, and
\* the chosen process runs.  Its kernel thread goes on in sched(): sleep() clears
\* chan, and all but wait() release ptable.lock at once.
scheduler(c) ==
  /\ c \notin boot /\ cpu[c] = None /\ held = None
  /\ \E p \in Slots :
       LET consumed == skip_target # None /\ p # skip_target
           tab == IF consumed THEN [proc EXCEPT ![skip_target].skip_once = FALSE] ELSE proc
       IN  /\ Best(p)
           /\ proc' = [tab EXCEPT ![p].state = "RUNNING", ![p].chan = None,
                                  ![p].t_last_scheduled = ticks]
           /\ skip_target' = IF consumed THEN None ELSE skip_target
           /\ cpu' = [cpu EXCEPT ![c] = p]
           /\ held' = IF label[p] = "wait" THEN p ELSE None
  /\ UNCHANGED <<nextpid, ticks, label, np, nap, due, late>>

\* yield(): the last thing fork, remain, exec2, give_cpu and sleep(0) do.
yield(s) ==
  /\ At(s, "yield")
  /\ Leave(proc, s, "RUNNABLE")
  /\ Goto(s, "user")
  /\ UNCHANGED <<skip_target, nextpid, ticks, np, nap, due, late>>

------------------------------------------------------------------------------
(* fork() and clone()                                                       *)

\* allocproc under ptable.lock: the first unused slot becomes an embryo.  The
\* rest of its fields are set before the child is made runnable.
allocproc(s) ==
  /\ Calls(s) /\ nextpid <= MaxPid
  /\ \E q \in Slots :
       /\ proc[q].state = "UNUSED" /\ \A r \in 1 .. q - 1 : proc[r].state # "UNUSED"
       /\ proc' = [proc EXCEPT ![q].state = "EMBRYO", ![q].pid = nextpid,
                               ![q].sleepticks = -1, ![q].chan = None]
       /\ np' = [np EXCEPT ![s] = q]
  /\ nextpid' = nextpid + 1
  /\ Goto(s, "fork")
  /\ UNCHANGED <<cpu, held, skip_target, ticks, nap, due, late>>

\* kalloc or copyuvm fails: the slot is given back, with the pid in it.
forkFails(s) ==
  /\ In(s, "fork")
  /\ proc' = [proc EXCEPT ![np[s]].state = "UNUSED"]
  /\ np' = [np EXCEPT ![s] = None]
  /\ Goto(s, "user")
  /\ UNCHANGED <<cpu, held, skip_target, nextpid, ticks, nap, due, late>>

\* The child inherits the time remaining, from which the parent's ticks since its
\* dispatch are not taken yet, and becomes runnable.  fork() then yields; clone()
\* does not, and leaves the child the initial time.
forkChild(s) ==
  /\ At(s, "fork")
  /\ \E inherits \in BOOLEAN :
       LET t == IF inherits THEN proc[s].t_remain ELSE STCF_INIT_REMAIN
       IN  /\ proc' = [proc EXCEPT ![np[s]].parent = s, ![np[s]].t_remain = t,
                                   ![np[s]].t_last_scheduled = -1,
                                   ![np[s]].skip_once = FALSE,
                                   ![np[s]].state = "RUNNABLE"]
           /\ due' = [due EXCEPT ![np[s]] = t]
           /\ late' = late \ {np[s]}
           /\ label' = [label EXCEPT ![s] = IF inherits THEN "yield" ELSE "user",
                                     ![np[s]] = "user"]
  /\ np' = [np EXCEPT ![s] = None]
  /\ UNCHANGED <<cpu, held, skip_target, nextpid, ticks, nap>>

------------------------------------------------------------------------------
(* exit() and wait()                                                        *)

\* Pass abandoned children to init, waking it for each that is a zombie.
reparent(tab, s) ==
  LET kids == {q \in Slots : tab[q].parent = s}
      adopted == [q \in Slots |->
                    IF q \in kids THEN [tab[q] EXCEPT !.parent = initproc] ELSE tab[q]]
  IN  IF \E q \in kids : tab[q].state = "ZOMBIE"
      THEN wakeup1(adopted, initproc) ELSE adopted

\* Mutant: an exiting process does not wake its parent.
exitSilent(s) ==
  /\ At(s, "user") /\ s # initproc
  /\ Leave(reparent(proc, s), s, "ZOMBIE")
  /\ UNCHANGED <<skip_target, nextpid, ticks, label, np, nap, due, late>>

\* Mutant: the children of an exiting process are left to it.
exitOrphans(s) ==
  /\ At(s, "user") /\ s # initproc
  /\ Leave(wakeup1(proc, proc[s].parent), s, "ZOMBIE")
  /\ UNCHANGED <<skip_target, nextpid, ticks, label, np, nap, due, late>>

exit(s) ==
  /\ At(s, "user") /\ s # initproc
  /\ Leave(reparent(wakeup1(proc, proc[s].parent), s), s, "ZOMBIE")
  /\ UNCHANGED <<skip_target, nextpid, ticks, label, np, nap, due, late>>

Kids(s) == {q \in Slots : proc[q].parent = s}
Zombies(s) == {q \in Kids(s) : proc[q].state = "ZOMBIE"}

\* One scan of wait(): reap the first zombie child, give up, or sleep.
wait(s) ==
  /\ Calls(s) \/ At(s, "wait")
  /\ \/ /\ \E z \in Zombies(s) :
             /\ \A r \in Zombies(s) : z <= r
             /\ proc' = [proc EXCEPT ![z].pid = 0, ![z].parent = None,
                                     ![z].killed = FALSE, ![z].state = "UNUSED"]
        /\ held' = None /\ cpu' = cpu
        /\ Goto(s, "user")
     \/ /\ Zombies(s) = {} /\ (Kids(s) = {} \/ proc[s].killed)
        /\ proc' = proc /\ held' = None /\ cpu' = cpu
        /\ Goto(s, "user")
     \/ /\ Zombies(s) = {} /\ Kids(s) # {} /\ ~ proc[s].killed
        /\ Sleep(s, proc, s)
        /\ Goto(s, "wait")
  /\ UNCHANGED <<skip_target, nextpid, ticks, np, nap, due, late>>

------------------------------------------------------------------------------
(* sleep(), kill() and the timer                                            *)

\* sys_sleep(n) takes tickslock, which keeps the clock from ticking.
sleepEnter(s) ==
  /\ Enters(s)
  /\ \E n \in Naps : /\ nap' = [nap EXCEPT ![s] = [n |-> n, ticks0 |-> ticks]]
                    /\ proc' = [proc EXCEPT ![s].sleepticks = n]
  /\ Goto(s, "nap")
  /\ UNCHANGED <<cpu, held, skip_target, nextpid, ticks, np, due, late>>

\* It returns if it finds itself killed, or goes to sleep: a kill may come between
\* that test and the sleep.
sleepStart(s) ==
  /\ At(s, "nap")
  /\ \/ Sleep(s, proc, TicksChan) /\ Goto(s, "sleep") /\ nap' = nap
     \/ /\ proc[s].killed
        /\ Goto(s, "user") /\ nap' = [nap EXCEPT ![s] = NoNap]
        /\ UNCHANGED <<proc, cpu, held>>
  /\ UNCHANGED <<skip_target, nextpid, ticks, np, due, late>>

\* The while loop of sys_sleep after waking up.
sleepLoop(s) ==
  /\ At(s, "sleep")
  /\ LET early == ticks - nap[s].ticks0 < nap[s].n
     IN  IF early /\ ~ proc[s].killed
         THEN Sleep(s, proc, TicksChan) /\ UNCHANGED label
         ELSE /\ proc' = IF early THEN proc ELSE [proc EXCEPT ![s].sleepticks = -1]
              /\ Goto(s, "user") /\ UNCHANGED <<cpu, held>>
  /\ nap' = [nap EXCEPT ![s] = IF label'[s] = "user" THEN NoNap ELSE @]
  /\ UNCHANGED <<skip_target, nextpid, ticks, np, due, late>>

\* Any other sleep(chan, lk): a pipe, a buffer, the disk.
block(s) ==
  /\ Calls(s)
  /\ Sleep(s, proc, Device)
  /\ UNCHANGED <<skip_target, nextpid, ticks, label, np, nap, due, late>>

\* wakeup(chan) from a driver or another process
wakeup ==
  /\ held = None /\ \E s \in Slots : proc[s].state = "SLEEPING" /\ proc[s].chan = Device
  /\ proc' = wakeup1(proc, Device)
  /\ UNCHANGED <<cpu, held, skip_target, nextpid, ticks, label, np, nap, due, late>>

\* kill(pid): the first slot with that pid, whatever its state.  Nobody kills
\* the init process.
kill(s, p) ==
  /\ Calls(s) /\ p # proc[initproc].pid
  /\ \E q \in Slots :
       /\ proc[q].pid = p /\ \A r \in 1 .. q - 1 : proc[r].pid # p
       /\ proc' = [proc EXCEPT ![q].killed = TRUE,
                               ![q].state = IF @ = "SLEEPING" THEN "RUNNABLE" ELSE @]
  /\ UNCHANGED <<cpu, held, skip_target, nextpid, ticks, label, np, nap, due, late>>

\* Mutant: every tick wakes all sleepers, as wakeup(&ticks) would.
sleep_proc_notifyEarly(tab) == wakeup1(tab, TicksChan)

sleep_proc_notify(tab) ==
  [s \in Slots |->
     IF tab[s].state = "SLEEPING" /\ tab[s].chan = TicksChan
     THEN IF tab[s].sleepticks = 0 THEN [tab[s] EXCEPT !.state = "RUNNABLE"]
          ELSE [tab[s] EXCEPT !.sleepticks = @ - 1]
     ELSE tab[s]]

\* The timer interrupt on CPU 0, which takes tickslock and interrupts no boot.
\* It does not make anybody yield.
tick ==
  /\ held = None /\ boot = {} /\ (\A s \in Slots : label[s] # "nap") /\ ticks < MaxTicks
  /\ ticks' = ticks + 1
  /\ proc' = sleep_proc_notify(proc)
  /\ due' = [s \in Slots |-> IF proc[s].state = "RUNNING" THEN due[s] - 1 ELSE due[s]]
  /\ UNCHANGED <<cpu, held, skip_target, nextpid, label, np, nap, late>>

------------------------------------------------------------------------------
(* remain(), exec2() and give_cpu()                                         *)

\* sys_remain and sys_exec2: store the estimate, and yield if it grows.
\* t_last_scheduled stays that of the dispatch.
remain(s) ==
  /\ Enters(s)
  /\ \E t \in Times :
       /\ proc' = [proc EXCEPT ![s].t_remain = t]
       /\ due' = [due EXCEPT ![s] = t]
       /\ Goto(s, IF t > proc[s].t_remain THEN "yield" ELSE "user")
  /\ late' = IF proc[s].t_last_scheduled = ticks THEN late \ {s} ELSE late \cup {s}
  /\ UNCHANGED <<cpu, held, skip_target, nextpid, ticks, np, nap>>

\* p->skip_once = 1, without the lock
giveMark(s) ==
  /\ Enters(s)
  /\ proc' = [proc EXCEPT ![s].skip_once = TRUE]
  /\ Goto(s, "give")
  /\ UNCHANGED <<cpu, held, skip_target, nextpid, ticks, np, nap, due, late>>

\* skip_target = p, without the lock
giveTarget(s) ==
  /\ In(s, "give")
  /\ skip_target' = s
  /\ Goto(s, "yield")
  /\ UNCHANGED <<proc, cpu, held, nextpid, ticks, np, nap, due, late>>

------------------------------------------------------------------------------
(* The boot                                                                 *)

\* The last stores of userinit, without the lock: another processor may have
\* dispatched the first process already.  Then this one runs scheduler().
userinit(c) ==
  /\ c \in boot /\ boot' = {}
  /\ proc' = [proc EXCEPT ![initproc].t_remain = STCF_INIT_REMAIN,
                          ![initproc].t_last_scheduled = -1,
                          ![initproc].skip_once = FALSE]
  /\ due' = [due EXCEPT ![initproc] = STCF_INIT_REMAIN]
  /\ late' = IF proc[initproc].state = "RUNNING" THEN late \cup {initproc}
             ELSE late \ {initproc}
  /\ UNCHANGED <<cpu, held, skip_target, nextpid, ticks, label, np, nap>>

------------------------------------------------------------------------------
\* The calls that are bounded, and everything else
Bounded(s) ==
  \/ sleepEnter(s) \/ block(s) \/ remain(s) \/ giveMark(s)
  \/ \E p \in 0 .. nextpid - 1 : kill(s, p)

syscall(s) ==
  \/ yield(s) \/ allocproc(s) \/ forkFails(s) \/ forkChild(s) \/ exit(s) \/ wait(s)
  \/ sleepStart(s) \/ sleepLoop(s) \/ giveTarget(s)

Next ==
  \/ /\ (\E c \in CPUs : scheduler(c)) \/ (\E s \in Slots : syscall(s)) \/ tick \/ wakeup
     /\ UNCHANGED <<calls, boot>>
  \/ /\ calls < MaxCalls /\ (\E s \in Slots : Bounded(s))
     /\ calls' = calls + 1 /\ UNCHANGED boot
  \/ (\E c \in CPUs : userinit(c)) /\ UNCHANGED calls

Spec == Init /\ [][Next]_vars

------------------------------------------------------------------------------

\* The table and the CPUs agree: a process is RUNNING when exactly one CPU has
\* it, and no CPU has any other.
OnOneCPU ==
  \A s \in Slots : Cardinality({c \in CPUs : cpu[c] = s}) =
                   IF proc[s].state = "RUNNING" THEN 1 ELSE 0

Live == {s \in Slots : proc[s].state \notin {"UNUSED", "EMBRYO"}}

\* Somebody will collect every process: the parent of each one but init has
\* not exited, whatever exits, forks and reaps overlap.
Adopted ==
  \A s \in Live \ {initproc} : /\ proc[s].parent \in Live
                                 /\ proc[proc[s].parent].state # "ZOMBIE"

\* wait() misses no exit: a process asleep in it has a child that can still
\* exit, and none that already has.
WaitMissesNone ==
  \A s \in Slots : proc[s].state = "SLEEPING" /\ proc[s].chan = s =>
                     Kids(s) # {} /\ Zombies(s) = {}

\* No two processes have the same pid, so kill() and wait() mean one process and
\* the scheduler's tie-break decides.
UniquePids == \A s, q \in Slots : /\ s # q
                                  /\ {proc[s].state, proc[q].state} \cap {"UNUSED"} = {}
                                  => proc[s].pid # proc[q].pid

\* The lazy accounting is exact, with one exception: what the intervals between
\* dispatch and switch add up to is what counting every tick of a running process
\* gives.  The exception is an estimate that a process stores while it runs and
\* not in the tick of its dispatch: remain() and exec2() leave t_last_scheduled
\* alone, so the ticks run before the call are charged to the new estimate too,
\* and userinit(), if another processor is already running init, erases its
\* t_last_scheduled, so that this run is not charged at all.
Charged ==
  \A s \in Live \ late :
     due[s] = proc[s].t_remain -
                 (IF proc[s].state = "RUNNING" THEN ticks - proc[s].t_last_scheduled ELSE 0)

\* A sleep(n) lasts until the tick after its n-th, neither longer nor less,
\* however ticks, dispatches and the countdown of sleepticks interleave: asleep
\* at most n ticks have passed, and only a kill wakes the process before that.
NapLength ==
  \A s \in Live : label[s] = "sleep" =>
     IF proc[s].state = "SLEEPING" THEN ticks - nap[s].ticks0 <= nap[s].n
     ELSE proc[s].killed \/ ticks - nap[s].ticks0 > nap[s].n

==============================================================================
