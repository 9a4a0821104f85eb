------------------------------ MODULE STCFProofs ------------------------------
(***************************************************************************)
(* The process table is sound for any number of slots and processors: a    *)
(* process runs on one of them, pids are unique, every process has a       *)
(* parent that will collect it, wait() misses no exit, the time charged at *)
(* switches is the time counted tick by tick unless the estimate was late, *)
(* and nobody is asleep in sleep(n) for more or fewer ticks than it asked. *)
(***************************************************************************)
EXTENDS STCF, FiniteSetTheorems, TLAPS

Labels == {"user", "yield", "fork", "wait", "nap", "sleep", "give"}

Proc == [state : States, pid : Nat, parent : Slots \cup {None}, chan : Int,
         killed : BOOLEAN, sleepticks : Int, t_remain : Int,
         t_last_scheduled : Int, skip_once : BOOLEAN]
Table == [Slots -> Proc]

Types ==
  /\ proc \in Table /\ cpu \in [CPUs -> Slots \cup {None}]
  /\ held \in Slots \cup {None} /\ skip_target \in Slots \cup {None}
  /\ nextpid \in Nat /\ ticks \in Nat
  /\ label \in [Slots -> Labels] /\ np \in [Slots -> Slots \cup {None}]
  /\ due \in [Slots -> Int]

State(s) == proc[s].state

\* A CPU has a RUNNING process, every such process a CPU, and no two the same.
Seats ==
  /\ \A c \in CPUs : cpu[c] # None => State(cpu[c]) = "RUNNING"
  /\ \A s \in Slots : State(s) = "RUNNING" => On(s)
  /\ \A c, d \in CPUs : cpu[c] = cpu[d] /\ cpu[c] # None => c = d

\* A process in fork() runs, and has an embryo of its own.
Embryos ==
  /\ \A s \in Slots : label[s] = "fork" =>
        State(s) = "RUNNING" /\ np[s] \in Slots /\ State(np[s]) = "EMBRYO"
  /\ \A s, q \in Slots : label[s] = "fork" /\ label[q] = "fork" /\ np[s] = np[q] => s = q

Pids == (\A s \in Slots : State(s) # "UNUSED" => proc[s].pid < nextpid) /\ UniquePids

\* Slots that are not in use have no parent, nobody is their own, and init, which
\* has none, is always there.
Families ==
  /\ \A s \in Slots : State(s) \in {"UNUSED", "EMBRYO"} => proc[s].parent = None
  /\ \A s \in Slots : proc[s].parent # s
  /\ proc[initproc].parent = None
  /\ State(initproc) \notin {"UNUSED", "EMBRYO", "ZOMBIE"}
  /\ Adopted

Clock ==
  /\ \A s \in Slots \ late : State(s) = "RUNNING" =>
        0 <= proc[s].t_last_scheduled /\ proc[s].t_last_scheduled <= ticks
  /\ Charged

Inv == Types /\ Seats /\ Embryos /\ Pids /\ Families /\ WaitMissesNone /\ Clock

\* What the invariant says of who is there, without types and time
Order == Seats /\ Embryos /\ Pids /\ Families /\ WaitMissesNone

------------------------------------------------------------------------------
(* Kinds of steps                                                           *)

\* The slot keeps its process, which at most wakes up.
Woken(q) ==
  /\ proc'[q].state = proc[q].state \/ (proc[q].state = "SLEEPING" /\ proc'[q].state = "RUNNABLE")
  /\ proc'[q].chan = proc[q].chan
Kept(q) == proc'[q].pid = proc[q].pid /\ proc'[q].parent = proc[q].parent

\* init has a slot, and no channel but a slot's own is a slot.
LEMMA Constants == initproc \in Slots /\ None \notin Slots /\ TicksChan \notin Slots /\ Device \notin Slots
  BY STCFAssumption DEF initproc, Slots, None, TicksChan, Device

\* Wakeups and steps of a process that stays on its CPU keep the order.
LEMMA QuietStep ==
  ASSUME Inv, Types', cpu' = cpu, np' = np, nextpid' = nextpid,
         \A q \in Slots : Woken(q) /\ Kept(q),
         \A q \in Slots : label'[q] = "fork" => label[q] = "fork"
  PROVE  Order'
<1>1. Seats'
  BY DEF Inv, Seats, State, Woken, On, Types
<1>2. Embryos'
  BY DEF Inv, Embryos, State, Woken, Types
<1>3. Pids'
  BY DEF Inv, Pids, UniquePids, State, Woken, Kept, Types
<1>4. Families'
  BY Constants DEF Inv, Families, Adopted, Live, State, Woken, Kept, Types
<1>5. WaitMissesNone'
  BY DEF Inv, WaitMissesNone, Kids, Zombies, Woken, Kept
<1> QED  BY <1>1, <1>2, <1>3, <1>4, <1>5, Zenon DEF Order

\* So does a process that goes to sleep or yields: in wait() it has looked for
\* zombies under the lock.
LEMMA SwitchStep ==
  ASSUME Inv, Types', NEW s \in Slots, On(s), label[s] # "fork",
         cpu' = [c \in CPUs |-> IF cpu[c] = s THEN None ELSE cpu[c]],
         np' = np, nextpid' = nextpid,
         \A q \in Slots : Kept(q),
         \A q \in Slots \ {s} : proc'[q].state = proc[q].state /\ proc'[q].chan = proc[q].chan,
         proc'[s].state \in {"RUNNABLE", "SLEEPING"},
         proc'[s].state = "SLEEPING" /\ proc'[s].chan = s => Kids(s) # {} /\ Zombies(s) = {},
         \A q \in Slots : label'[q] = "fork" => label[q] = "fork"
  PROVE  Order'
<1>1. State(s) = "RUNNING"
  BY Constants DEF Inv, Seats, On
<1>2. Seats'
  BY Constants DEF Inv, Seats, State, On, Types
<1>3. Embryos'
  BY <1>1 DEF Inv, Embryos, State, Types
<1>4. Pids'
  BY <1>1 DEF Inv, Pids, UniquePids, State, Kept, Types
<1>5. Families'
  BY <1>1, Constants DEF Inv, Families, Adopted, Live, State, Kept, Types
<1>6. WaitMissesNone'
  BY <1>1 DEF Inv, WaitMissesNone, Kids, Zombies, State, Kept
<1> QED  BY <1>2, <1>3, <1>4, <1>5, <1>6, Zenon DEF Order

\* What a process that leaves its CPU leaves in the table: its time is charged.
LEMMA LeaveFields ==
  ASSUME Inv, NEW tab \in Table, NEW s \in Slots, NEW st \in States, On(s),
         tab[s].t_remain = proc[s].t_remain, tab[s].t_last_scheduled = proc[s].t_last_scheduled,
         Leave(tab, s, st)
  PROVE  /\ proc' \in Table /\ held' = None
         /\ cpu' = [c \in CPUs |-> IF cpu[c] = s THEN None ELSE cpu[c]]
         /\ cpu' \in [CPUs -> Slots \cup {None}]
         /\ \A q \in Slots \ {s} : proc'[q] = tab[q]
         /\ proc'[s].state = st /\ proc'[s].pid = tab[s].pid
         /\ proc'[s].parent = tab[s].parent /\ proc'[s].chan = tab[s].chan
         /\ s \notin late =>
              proc'[s].t_remain = proc[s].t_remain - (ticks - proc[s].t_last_scheduled)
<1> DEFINE t == IF tab[s].t_last_scheduled >= 0
                THEN tab[s].t_remain - (ticks - tab[s].t_last_scheduled) ELSE tab[s].t_remain
<1>1. s \notin late => 0 <= proc[s].t_last_scheduled
  BY Constants, Zenon DEF Inv, Seats, Clock, State, On
<1>2. ticks \in Int /\ tab[s].t_last_scheduled \in Int /\ tab[s].t_remain \in Int
  BY DEF Inv, Types, Table, Proc
<1>3. /\ account(tab, s) = [tab EXCEPT ![s].t_remain = t] /\ t \in Int
      /\ s \notin late => t = proc[s].t_remain - (ticks - proc[s].t_last_scheduled)
  BY <1>1, <1>2 DEF account
<1> HIDE DEF t
<1>4. account(tab, s) \in Table
  BY <1>3 DEF Table, Proc
<1>5. proc' \in Table
  BY <1>4 DEF Leave, Table, Proc
<1>6. /\ \A q \in Slots \ {s} : proc'[q] = tab[q]
      /\ proc'[s].state = st /\ proc'[s].pid = tab[s].pid
      /\ proc'[s].parent = tab[s].parent /\ proc'[s].chan = tab[s].chan
      /\ s \notin late =>
           proc'[s].t_remain = proc[s].t_remain - (ticks - proc[s].t_last_scheduled)
  BY <1>3 DEF Leave, Table, Proc
<1>7. cpu' \in [CPUs -> Slots \cup {None}]
  BY Zenon DEF Leave, Inv, Types
<1> QED  BY <1>5, <1>6, <1>7, Zenon DEF Leave

\* The time is right after a step in which nobody but s is charged: s leaves its
\* CPU and pays for the ticks since its dispatch.
LEMMA ChargeStep ==
  ASSUME Inv, Types', NEW s \in Slots, On(s), ticks' = ticks, due' = due, late' = late,
         proc'[s].state # "RUNNING",
         s \notin late => proc'[s].t_remain = proc[s].t_remain - (ticks - proc[s].t_last_scheduled),
         \A q \in Slots \ {s} :
            /\ proc'[q].state \in {"UNUSED", "EMBRYO"} <=> proc[q].state \in {"UNUSED", "EMBRYO"}
            /\ proc'[q].state = "RUNNING" <=> proc[q].state = "RUNNING"
            /\ proc'[q].t_remain = proc[q].t_remain
            /\ proc'[q].t_last_scheduled = proc[q].t_last_scheduled
  PROVE  Clock'
<1>1. State(s) = "RUNNING"
  BY Constants, Zenon DEF Inv, Seats, On
<1>2. ASSUME NEW q \in Slots \ late, proc'[q].state = "RUNNING"
      PROVE  0 <= proc'[q].t_last_scheduled /\ proc'[q].t_last_scheduled <= ticks'
  BY <1>2, Zenon DEF Inv, Clock, State
<1>3. ASSUME NEW q \in Slots \ late, proc'[q].state \notin {"UNUSED", "EMBRYO"}
      PROVE  due'[q] = proc'[q].t_remain -
                 (IF proc'[q].state = "RUNNING" THEN ticks' - proc'[q].t_last_scheduled ELSE 0)
  <2>1. CASE q = s
    <3>1. due[s] = proc[s].t_remain - (ticks - proc[s].t_last_scheduled)
      BY <1>1, <2>1, Zenon DEF Inv, Clock, Charged, Live, State
    <3>2. proc'[s].t_remain \in Int
      BY Zenon DEF Types, Table, Proc
    <3> QED  BY <2>1, <3>1, <3>2
  <2>2. CASE q # s
    BY <1>3, <2>2, Zenon DEF Inv, Clock, Charged, Live
  <2> QED  BY <2>1, <2>2, Zenon
<1> QED  BY <1>2, <1>3, Zenon DEF Clock, Charged, Live, State

\* A step in which nobody is dispatched or charged, and no clock moves
LEMMA TimelessStep ==
  ASSUME Inv, Types', ticks' = ticks, due' = due, late' = late,
         \A q \in Slots :
            /\ proc'[q].state \in {"UNUSED", "EMBRYO"} \/ proc[q].state \notin {"UNUSED", "EMBRYO"}
            /\ proc'[q].state = "RUNNING" <=> proc[q].state = "RUNNING"
            /\ proc'[q].t_remain = proc[q].t_remain
            /\ proc'[q].t_last_scheduled = proc[q].t_last_scheduled
  PROVE  Clock'
  BY Zenon DEF Inv, Clock, Charged, Live, State

------------------------------------------------------------------------------
(* The actions                                                              *)

\* Wakeups on a channel: wakeup1(), and the timer's sleep_proc_notify()
LEMMA WakeFields ==
  ASSUME NEW tab \in Table, NEW chan \in Int
  PROVE  /\ wakeup1(tab, chan) \in Table
         /\ \A q \in Slots :
              /\ wakeup1(tab, chan)[q].state =
                   IF tab[q].state = "SLEEPING" /\ tab[q].chan = chan THEN "RUNNABLE" ELSE tab[q].state
              /\ wakeup1(tab, chan)[q].chan = tab[q].chan
              /\ wakeup1(tab, chan)[q].pid = tab[q].pid
              /\ wakeup1(tab, chan)[q].parent = tab[q].parent
              /\ wakeup1(tab, chan)[q].t_remain = tab[q].t_remain
              /\ wakeup1(tab, chan)[q].t_last_scheduled = tab[q].t_last_scheduled
  BY DEF wakeup1, Table, Proc, States

\* wakeup() only makes sleepers RUNNABLE.
LEMMA wakeupStep == ASSUME Inv, wakeup PROVE Inv'
<1>1. proc' \in Table
  BY WakeFields DEF wakeup, Device, Inv, Types
<1>2. Types'
  BY <1>1, Zenon DEF wakeup, Inv, Types
<1>3. \A q \in Slots : /\ Woken(q) /\ Kept(q)
                       /\ proc'[q].t_remain = proc[q].t_remain
                       /\ proc'[q].t_last_scheduled = proc[q].t_last_scheduled
  <2>1. proc' = wakeup1(proc, Device) /\ proc \in Table /\ Device \in Int
    BY DEF wakeup, Device, Inv, Types
  <2> QED  BY <2>1, WakeFields DEF Woken, Kept
<1>4. Order'
  BY <1>2, <1>3, QuietStep, Zenon DEF wakeup
<1>5. Clock'
  BY <1>2, <1>3, TimelessStep, Zenon DEF wakeup, Woken
<1> QED  BY <1>2, <1>4, <1>5, Zenon DEF Inv, Order

\* kill() sets killed and makes a sleeper RUNNABLE.
LEMMA killStep == ASSUME Inv, NEW s \in Slots, NEW p, kill(s, p) PROVE Inv'
<1>1. PICK q \in Slots : proc' = [proc EXCEPT ![q].killed = TRUE,
                                  ![q].state = IF @ = "SLEEPING" THEN "RUNNABLE" ELSE @]
  BY Zenon DEF kill
<1>2. proc' \in Table
  <2>1. proc \in [Slots -> Proc]
    BY Zenon DEF Inv, Types, Table
  <2>2. [proc[q] EXCEPT !.killed = TRUE,
                        !.state = IF @ = "SLEEPING" THEN "RUNNABLE" ELSE @] \in Proc
    <3>1. proc[q] \in Proc
      BY <2>1, Zenon
    <3> QED  BY <3>1, Zenon DEF Proc, States
  <2>3. proc' = [proc EXCEPT ![q] = [proc[q] EXCEPT !.killed = TRUE,
                        !.state = IF @ = "SLEEPING" THEN "RUNNABLE" ELSE @]]
    BY <1>1, <2>1, Zenon
  <2> QED  BY <2>1, <2>2, <2>3, Zenon DEF Table
<1>3. Types'
  BY <1>2, Zenon DEF kill, Inv, Types
<1>4. \A r \in Slots : /\ Woken(r) /\ Kept(r)
                       /\ proc'[r].t_remain = proc[r].t_remain
                       /\ proc'[r].t_last_scheduled = proc[r].t_last_scheduled
  BY <1>1 DEF Inv, Types, Table, Proc, Woken, Kept
<1>5. Order'
  BY <1>3, <1>4, QuietStep, Zenon DEF kill
<1>6. Clock'
  BY <1>3, <1>4, TimelessStep, Zenon DEF kill, Woken
<1> QED  BY <1>3, <1>5, <1>6, Zenon DEF Inv, Order

\* The timer interrupt counts naps down and wakes the ones that are over.
LEMMA tickStep == ASSUME Inv, tick PROVE Inv'
<1>1. proc' \in Table
  <2>1. proc' = sleep_proc_notify(proc) /\ \A q \in Slots : proc[q] \in Proc
    BY Zenon DEF tick, Inv, Types, Table
  <2>2. ASSUME NEW q \in Slots
        PROVE  /\ [proc[q] EXCEPT !.state = "RUNNABLE"] \in Proc
               /\ [proc[q] EXCEPT !.sleepticks = @ - 1] \in Proc
    BY <2>1 DEF Proc, States
  <2> QED  BY <2>1, <2>2, Zenon DEF sleep_proc_notify, Table
<1>2. Types'
  BY <1>1 DEF tick, Inv, Types
<1>3. \A q \in Slots : /\ Woken(q) /\ Kept(q)
                       /\ proc'[q].t_remain = proc[q].t_remain
                       /\ proc'[q].t_last_scheduled = proc[q].t_last_scheduled
  BY DEF tick, sleep_proc_notify, Inv, Types, Table, Proc, Woken, Kept
<1>4. Order'
  BY <1>2, <1>3, QuietStep, Zenon DEF tick
<1>5. ASSUME NEW q \in Slots
      PROVE  /\ ticks' = ticks + 1 /\ ticks \in Nat /\ due[q] \in Int
             /\ due'[q] = IF proc[q].state = "RUNNING" THEN due[q] - 1 ELSE due[q]
             /\ proc[q].t_remain \in Int /\ proc[q].t_last_scheduled \in Int
             /\ late' = late
  BY Zenon DEF tick, Inv, Types, Table, Proc
<1>6. Clock'
  BY <1>3, <1>5 DEF Inv, Clock, Charged, Live, State, Woken
<1> QED  BY <1>2, <1>4, <1>6, Zenon DEF Inv, Order

\* sys_remain() and sys_exec2() replace the time to go.  Nothing is charged yet if
\* the process was dispatched in this tick.
LEMMA remainStep == ASSUME Inv, NEW s \in Slots, remain(s) PROVE Inv'
<1>1. PICK t \in Times : /\ proc' = [proc EXCEPT ![s].t_remain = t]
                         /\ due' = [due EXCEPT ![s] = t]
                         /\ Goto(s, IF t > proc[s].t_remain THEN "yield" ELSE "user")
  BY Zenon DEF remain
<1>2. t \in Int /\ proc[s].t_last_scheduled \in Int /\ ticks \in Nat /\ ticks' = ticks
  BY STCFAssumption, Zenon DEF Inv, Types, Table, Proc, remain
<1>3. proc' \in Table
  BY <1>1, <1>2 DEF Inv, Types, Table, Proc
<1>4. Types'
  BY <1>1, <1>2, <1>3 DEF remain, Goto, Inv, Types, Labels
<1>5. \A q \in Slots : /\ Woken(q) /\ Kept(q)
                       /\ proc'[q].t_remain = IF q = s THEN t ELSE proc[q].t_remain
                       /\ proc'[q].t_last_scheduled = proc[q].t_last_scheduled
                       /\ proc'[q].state = proc[q].state
  BY <1>1 DEF Inv, Types, Table, Proc, Woken, Kept
<1>6. \A q \in Slots : label'[q] = "fork" => label[q] = "fork"
  BY <1>1, Zenon DEF Goto, Inv, Types
<1>7. Order'
  BY <1>4, <1>5, <1>6, QuietStep, Zenon DEF remain
<1>8. State(s) = "RUNNING"
  BY Constants DEF remain, Enters, In, On, Inv, Seats
<1>9. /\ \A q \in Slots : due'[q] = IF q = s THEN t ELSE due[q]
      /\ \A q \in Slots \ {s} : q \in late' <=> q \in late
      /\ s \notin late' => proc[s].t_last_scheduled = ticks
  BY <1>1, Zenon DEF Inv, Types, remain
<1>10. Clock'
  BY <1>2, <1>5, <1>8, <1>9 DEF Inv, Clock, Charged, Live, State
<1> QED  BY <1>4, <1>7, <1>10, Zenon DEF Inv, Order

\* The two stores of sys_give_cpu() touch nothing but the skip flags.
LEMMA giveStep == ASSUME Inv, NEW s \in Slots, giveMark(s) \/ giveTarget(s) PROVE Inv'
<1>1. proc' \in Table
  <2>1. proc \in Table /\ [proc[s] EXCEPT !.skip_once = TRUE] \in Proc
    <3>1. proc \in Table /\ proc[s] \in Proc
      BY Zenon DEF Inv, Types, Table
    <3> QED  BY <3>1, Zenon DEF Proc
  <2>2. proc' = proc \/ proc' = [proc EXCEPT ![s] = [proc[s] EXCEPT !.skip_once = TRUE]]
    BY <2>1, Zenon DEF giveMark, giveTarget, Table
  <2> QED  BY <2>1, <2>2, Zenon DEF Table
<1>2. Types'
  BY <1>1, Zenon DEF giveMark, giveTarget, Goto, Inv, Types, Labels
<1>3. \A q \in Slots : /\ Woken(q) /\ Kept(q)
                       /\ proc'[q].t_remain = proc[q].t_remain
                       /\ proc'[q].t_last_scheduled = proc[q].t_last_scheduled
  BY DEF giveMark, giveTarget, Inv, Types, Table, Proc, Woken, Kept
<1>4. \A q \in Slots : label'[q] = "fork" => label[q] = "fork"
  BY Zenon DEF giveMark, giveTarget, Goto, Inv, Types
<1>5. Order'
  BY <1>2, <1>3, <1>4, QuietStep, Zenon DEF giveMark, giveTarget
<1>6. Clock'
  BY <1>2, <1>3, TimelessStep, Zenon DEF giveMark, giveTarget, Woken
<1> QED  BY <1>2, <1>5, <1>6, Zenon DEF Inv, Order

\* A process that leaves its CPU to run again
LEMMA LeaveStep ==
  ASSUME Inv, NEW tab \in Table, NEW s \in Slots, NEW st \in {"RUNNABLE", "SLEEPING"},
         NEW l \in Labels, In(s, l), l # "fork", Leave(tab, s, st),
         \A q \in Slots \ {s} : tab[q] = proc[q],
         tab[s].pid = proc[s].pid, tab[s].parent = proc[s].parent,
         tab[s].t_remain = proc[s].t_remain, tab[s].t_last_scheduled = proc[s].t_last_scheduled,
         st = "SLEEPING" /\ tab[s].chan = s => Kids(s) # {} /\ Zombies(s) = {},
         label' = label \/ \E m \in Labels \ {"fork"} : Goto(s, m),
         UNCHANGED <<skip_target, nextpid, ticks, np, due, late>>
  PROVE  Inv'
<1> st \in States
  BY Zenon DEF States
<1>1. On(s) /\ label[s] # "fork"
  BY Zenon DEF In
<1>2. /\ proc' \in Table /\ held' = None
      /\ cpu' = [c \in CPUs |-> IF cpu[c] = s THEN None ELSE cpu[c]]
      /\ cpu' \in [CPUs -> Slots \cup {None}]
      /\ \A q \in Slots \ {s} : proc'[q] = tab[q]
      /\ proc'[s].state = st /\ proc'[s].pid = tab[s].pid
      /\ proc'[s].parent = tab[s].parent /\ proc'[s].chan = tab[s].chan
      /\ s \notin late =>
           proc'[s].t_remain = proc[s].t_remain - (ticks - proc[s].t_last_scheduled)
  BY <1>1, LeaveFields, Zenon
<1>3. /\ label' \in [Slots -> Labels]
      /\ \A q \in Slots : label'[q] = "fork" => label[q] = "fork"
  BY DEF Goto, Inv, Types
<1>4. Types'
  BY <1>2, <1>3, Zenon DEF Inv, Types
<1>5. \A q \in Slots : Kept(q)
  BY <1>2, Zenon DEF Kept
<1>6. Order'
  BY <1>1, <1>2, <1>3, <1>4, <1>5, SwitchStep
<1>7. Clock'
  BY <1>1, <1>2, <1>4, ChargeStep
<1> QED  BY <1>4, <1>6, <1>7, Zenon DEF Inv, Order

\* The entry of a process that goes to sleep on chan
LEMMA SleepFields ==
  ASSUME NEW tab \in Table, NEW s \in Slots, NEW chan \in Int
  PROVE  /\ [tab EXCEPT ![s].chan = chan] \in Table
         /\ \A q \in Slots \ {s} : [tab EXCEPT ![s].chan = chan][q] = tab[q]
         /\ [tab EXCEPT ![s].chan = chan][s].pid = tab[s].pid
         /\ [tab EXCEPT ![s].chan = chan][s].parent = tab[s].parent
         /\ [tab EXCEPT ![s].chan = chan][s].t_remain = tab[s].t_remain
         /\ [tab EXCEPT ![s].chan = chan][s].t_last_scheduled = tab[s].t_last_scheduled
         /\ [tab EXCEPT ![s].chan = chan][s].chan = chan
  BY DEF Table, Proc

\* yield() leaves the CPU RUNNABLE.
LEMMA yieldStep == ASSUME Inv, NEW s \in Slots, yield(s) PROVE Inv'
<1>1. proc \in Table /\ In(s, "yield") /\ Leave(proc, s, "RUNNABLE") /\ Goto(s, "user")
  BY Zenon DEF yield, At, Inv, Types
<1>2. UNCHANGED <<skip_target, nextpid, ticks, np, due, late>>
  BY Zenon DEF yield
<1> QED  BY <1>1, <1>2, LeaveStep, Zenon DEF Labels

\* A driver's sleep() leaves the CPU on the driver's channel.
LEMMA blockStep == ASSUME Inv, NEW s \in Slots, block(s) PROVE Inv'
<1> DEFINE tab == [proc EXCEPT ![s].chan = Device]
<1>1. proc \in Table /\ Device \in Int /\ Device # s /\ In(s, "user")
  BY Constants DEF block, Calls, At, Inv, Types, Device
<1>2. /\ tab \in Table /\ \A q \in Slots \ {s} : tab[q] = proc[q]
      /\ tab[s].pid = proc[s].pid /\ tab[s].parent = proc[s].parent
      /\ tab[s].t_remain = proc[s].t_remain
      /\ tab[s].t_last_scheduled = proc[s].t_last_scheduled /\ tab[s].chan # s
  BY <1>1, SleepFields
<1>3. Leave(tab, s, "SLEEPING") /\ label' = label /\ UNCHANGED <<skip_target, nextpid, ticks, np, due, late>>
  BY Zenon DEF block, Sleep
<1> HIDE DEF tab
<1> QED  BY <1>1, <1>2, <1>3, LeaveStep, Zenon DEF Labels

\* A process that goes on with its system call or after it, the table unchanged
\* but for the field sleepticks
LEMMA ReturnStep ==
  ASSUME Inv, NEW s \in Slots, NEW n \in Int, NEW l \in {"user", "nap"},
         proc' = proc \/ proc' = [proc EXCEPT ![s].sleepticks = n],
         cpu' = cpu, held' \in {None, held}, Goto(s, l),
         UNCHANGED <<skip_target, nextpid, ticks, np, due, late>>
  PROVE  Inv'
<1>1. proc' \in Table
  BY DEF Inv, Types, Table, Proc
<1>2. /\ label' \in [Slots -> Labels]
      /\ \A q \in Slots : label'[q] = "fork" => label[q] = "fork"
  BY Zenon DEF Goto, Inv, Types, Labels
<1>3. Types'
  BY <1>1, <1>2, Zenon DEF Inv, Types
<1>4. \A q \in Slots : /\ Woken(q) /\ Kept(q)
                       /\ proc'[q].t_remain = proc[q].t_remain
                       /\ proc'[q].t_last_scheduled = proc[q].t_last_scheduled
  BY DEF Inv, Types, Table, Proc, Woken, Kept
<1>5. Order'
  BY <1>2, <1>3, <1>4, QuietStep, Zenon
<1>6. Clock'
  BY <1>3, <1>4, TimelessStep, Zenon DEF Woken
<1> QED  BY <1>3, <1>5, <1>6, Zenon DEF Inv, Order

\* sys_sleep() sets sleepticks.
LEMMA sleepEnterStep == ASSUME Inv, NEW s \in Slots, sleepEnter(s) PROVE Inv'
<1>1. PICK n \in Naps : proc' = [proc EXCEPT ![s].sleepticks = n]
  BY Zenon DEF sleepEnter
<1>2. n \in Int
  BY STCFAssumption
<1>3. /\ cpu' = cpu /\ held' \in {None, held} /\ Goto(s, "nap")
      /\ UNCHANGED <<skip_target, nextpid, ticks, np, due, late>>
  BY Zenon DEF sleepEnter
<1> QED  BY <1>1, <1>2, <1>3, ReturnStep, Zenon

\* It finds itself killed, or goes to sleep on ticks.
LEMMA sleepStartStep == ASSUME Inv, NEW s \in Slots, sleepStart(s) PROVE Inv'
<1>1. In(s, "nap") /\ UNCHANGED <<skip_target, nextpid, ticks, np, due, late>>
  BY Zenon DEF sleepStart, At
<1>2. CASE Sleep(s, proc, TicksChan) /\ Goto(s, "sleep")
  <2> DEFINE tab == [proc EXCEPT ![s].chan = TicksChan]
  <2>1. proc \in Table /\ TicksChan \in Int /\ TicksChan # s
    BY Constants DEF Inv, Types, TicksChan
  <2>2. /\ tab \in Table /\ \A q \in Slots \ {s} : tab[q] = proc[q]
        /\ tab[s].pid = proc[s].pid /\ tab[s].parent = proc[s].parent
        /\ tab[s].t_remain = proc[s].t_remain
        /\ tab[s].t_last_scheduled = proc[s].t_last_scheduled /\ tab[s].chan # s
    BY <2>1, SleepFields
  <2>3. Leave(tab, s, "SLEEPING")
    BY <1>2, Zenon DEF Sleep
  <2> HIDE DEF tab
  <2> QED  BY <1>1, <1>2, <2>2, <2>3, LeaveStep, Zenon DEF Labels
<1>3. CASE Goto(s, "user") /\ UNCHANGED <<proc, cpu, held>>
  <2>1. 0 \in Int
    OBVIOUS
  <2> QED  BY <1>1, <1>3, <2>1, ReturnStep, Zenon
<1> QED  BY <1>2, <1>3, Zenon DEF sleepStart

\* sys_sleep()'s loop sleeps again or returns.
LEMMA sleepLoopStep == ASSUME Inv, NEW s \in Slots, sleepLoop(s) PROVE Inv'
<1>1. In(s, "sleep") /\ UNCHANGED <<skip_target, nextpid, ticks, np, due, late>>
  BY Zenon DEF sleepLoop, At
<1>2. \/ Sleep(s, proc, TicksChan) /\ label' = label
      \/ /\ proc' = proc \/ proc' = [proc EXCEPT ![s].sleepticks = -1]
         /\ Goto(s, "user") /\ cpu' = cpu /\ held' = held
  BY Zenon DEF sleepLoop
<1>3. CASE Sleep(s, proc, TicksChan) /\ label' = label
  <2> DEFINE tab == [proc EXCEPT ![s].chan = TicksChan]
  <2>1. proc \in Table /\ TicksChan \in Int /\ TicksChan # s
    BY Constants DEF Inv, Types, TicksChan
  <2>2. /\ tab \in Table /\ \A q \in Slots \ {s} : tab[q] = proc[q]
        /\ tab[s].pid = proc[s].pid /\ tab[s].parent = proc[s].parent
        /\ tab[s].t_remain = proc[s].t_remain
        /\ tab[s].t_last_scheduled = proc[s].t_last_scheduled /\ tab[s].chan # s
    BY <2>1, SleepFields
  <2>3. Leave(tab, s, "SLEEPING")
    BY <1>3, Zenon DEF Sleep
  <2> HIDE DEF tab
  <2> QED  BY <1>1, <1>3, <2>2, <2>3, LeaveStep, Zenon DEF Labels
<1>4. CASE /\ proc' = proc \/ proc' = [proc EXCEPT ![s].sleepticks = -1]
           /\ Goto(s, "user") /\ cpu' = cpu /\ held' = held
  <2>1. -1 \in Int
    OBVIOUS
  <2> QED  BY <1>1, <1>4, <2>1, ReturnStep, Zenon
<1> QED  BY <1>2, <1>3, <1>4, Zenon

\* The choice of the scheduler is a RUNNABLE process, and it alone moves.
LEMMA schedulerStep == ASSUME Inv, NEW c \in CPUs, scheduler(c) PROVE Inv'
<1> DEFINE Consumed(p) == skip_target # None /\ p # skip_target
           Tab(p) == IF Consumed(p) THEN [proc EXCEPT ![skip_target].skip_once = FALSE] ELSE proc
<1>1. PICK p \in Slots :
         /\ Best(p)
         /\ proc' = [Tab(p) EXCEPT ![p].state = "RUNNING", ![p].chan = None,
                                   ![p].t_last_scheduled = ticks]
         /\ skip_target' = IF Consumed(p) THEN None ELSE skip_target
         /\ cpu' = [cpu EXCEPT ![c] = p]
         /\ held' = IF label[p] = "wait" THEN p ELSE None
  BY Zenon DEF scheduler
<1>2. State(p) = "RUNNABLE"
  BY <1>1, Zenon DEF Best, Pass, Runnable, State
<1>3. ticks \in Int /\ None \in Int /\ proc \in Table
  BY DEF Inv, Types, None
<1>4. Tab(p) \in Table
  <2>1. skip_target \in Slots \cup {None} /\ \A q \in Slots : [proc[q] EXCEPT !.skip_once = FALSE] \in Proc
    <3>1. skip_target \in Slots \cup {None} /\ \A q \in Slots : proc[q] \in Proc
      BY Zenon DEF Inv, Types, Table
    <3> QED  BY <3>1, Zenon DEF Proc
  <2>2. Tab(p) = proc \/ /\ skip_target \in Slots
                         /\ Tab(p) = [proc EXCEPT ![skip_target] = [proc[skip_target] EXCEPT !.skip_once = FALSE]]
    BY <1>3, <2>1, Zenon DEF Table
  <2> HIDE DEF Tab
  <2> QED  BY <1>3, <2>1, <2>2, Zenon DEF Table
<1>5. ASSUME NEW q \in Slots
      PROVE  /\ Tab(p)[q].state = proc[q].state /\ Tab(p)[q].pid = proc[q].pid
             /\ Tab(p)[q].parent = proc[q].parent /\ Tab(p)[q].chan = proc[q].chan
             /\ Tab(p)[q].t_remain = proc[q].t_remain
             /\ Tab(p)[q].t_last_scheduled = proc[q].t_last_scheduled
  BY <1>3 DEF Inv, Types, Table, Proc
<1> HIDE DEF Tab
<1>6. proc' \in Table
  <2> DEFINE new == [Tab(p)[p] EXCEPT !.state = "RUNNING", !.chan = None, !.t_last_scheduled = ticks]
  <2>1. new \in Proc
    <3>1. Tab(p)[p] \in Proc
      BY <1>4, Zenon DEF Table
    <3> QED  BY <1>3, <3>1, Zenon DEF Proc, States
  <2>2. proc' = [Tab(p) EXCEPT ![p] = new]
    BY <1>1, <1>4, Zenon DEF Table
  <2> HIDE DEF new
  <2> QED  BY <1>4, <2>1, <2>2, Zenon DEF Table
<1>7. /\ proc'[p].state = "RUNNING" /\ proc'[p].t_last_scheduled = ticks
      /\ proc'[p].chan = None
      /\ \A q \in Slots \ {p} :
            /\ proc'[q].state = proc[q].state /\ proc'[q].chan = proc[q].chan
            /\ proc'[q].t_last_scheduled = proc[q].t_last_scheduled
      /\ \A q \in Slots :
            /\ proc'[q].pid = proc[q].pid /\ proc'[q].parent = proc[q].parent
            /\ proc'[q].t_remain = proc[q].t_remain
  BY <1>1, <1>4, <1>5 DEF Table, Proc
<1>8. UNCHANGED <<nextpid, ticks, label, np, due, late>> /\ cpu[c] = None
  BY Zenon DEF scheduler
<1>9. Types'
  BY <1>1, <1>6, <1>8, Zenon DEF Inv, Types
<1>10. Seats'
  <2>1. /\ cpu'[c] = p /\ \A d \in CPUs \ {c} : cpu'[d] = cpu[d]
        /\ \A d \in CPUs : cpu[d] # p
    BY <1>1, <1>2, Constants DEF Inv, Types, Seats
  <2>2. \A d \in CPUs : cpu[d] \in Slots \cup {None}
    BY Zenon DEF Inv, Types
  <2>3. \A q \in Slots \ {p} : On(q) => On(q)'
    BY <1>8, <2>1, Constants, Zenon DEF On
  <2>4. \A q \in Slots : State(q)' = "RUNNING" => On(q)'
    BY <1>7, <2>1, <2>3 DEF Inv, Seats, State, On
  <2>5. \A d \in CPUs : cpu'[d] # None => State(cpu[d])' = "RUNNING"
    BY <1>7, <2>1, <2>2 DEF Inv, Seats, State
  <2> QED  BY <2>1, <2>4, <2>5, Zenon DEF Inv, Seats
<1>11. Embryos'
  BY <1>2, <1>7, <1>8 DEF Inv, Embryos, State
<1>12. Pids'
  BY <1>2, <1>7, <1>8 DEF Inv, Pids, UniquePids, State
<1>13. Families'
  BY <1>2, <1>7, Constants DEF Inv, Families, Adopted, Live, State
<1>14. WaitMissesNone'
  BY <1>2, <1>7 DEF Inv, WaitMissesNone, Kids, Zombies, State
<1>15. Clock'
  <2>1. ticks \in Nat /\ \A q \in Slots : proc'[q].t_remain \in Int
    BY <1>6, Zenon DEF Inv, Types, Table, Proc
  <2>2. p \notin late => due[p] = proc'[p].t_remain - 0
    BY <1>2, <1>7 DEF Inv, Clock, Charged, Live, State
  <2> QED  BY <1>7, <1>8, <2>1, <2>2 DEF Inv, Clock, Charged, Live, State
<1> QED  BY <1>9, <1>10, <1>11, <1>12, <1>13, <1>14, <1>15, Zenon DEF Inv

\* The new pid is above all pids in use.
LEMMA allocprocStep == ASSUME Inv, NEW s \in Slots, allocproc(s) PROVE Inv'
<1>1. PICK e \in Slots :
         /\ State(e) = "UNUSED" /\ np' = [np EXCEPT ![s] = e]
         /\ proc' = [proc EXCEPT ![e].state = "EMBRYO", ![e].pid = nextpid,
                                 ![e].sleepticks = -1, ![e].chan = None]
  BY Zenon DEF allocproc, State
<1>2. /\ On(s) /\ nextpid' = nextpid + 1 /\ label' = [label EXCEPT ![s] = "fork"]
      /\ UNCHANGED <<cpu, held, skip_target, ticks, due, late>>
  BY Zenon DEF allocproc, Calls, At, In, Goto
<1>3. nextpid \in Nat /\ proc \in Table /\ State(s) = "RUNNING" /\ label \in [Slots -> Labels]
      /\ np \in [Slots -> Slots \cup {None}]
  BY <1>2, Constants DEF Inv, Types, Seats, On
<1>4. proc' \in Table
  <2> DEFINE new == [proc[e] EXCEPT !.state = "EMBRYO", !.pid = nextpid, !.sleepticks = -1, !.chan = None]
  <2>1. new \in Proc
    <3>1. proc[e] \in Proc /\ None \in Int /\ -1 \in Int
      BY <1>3 DEF Table, None
    <3>2. [proc[e] EXCEPT !.state = "EMBRYO", !.pid = nextpid] \in Proc
      BY <1>3, <3>1, Zenon DEF Proc, States
    <3>3. new = [[proc[e] EXCEPT !.state = "EMBRYO", !.pid = nextpid] EXCEPT !.sleepticks = -1, !.chan = None]
      BY <3>1, Zenon DEF Proc
    <3> QED  BY <3>1, <3>2, <3>3, Zenon DEF Proc
  <2>2. proc' = [proc EXCEPT ![e] = new]
    BY <1>1, <1>3, Zenon DEF Table
  <2> HIDE DEF new
  <2> QED  BY <1>3, <2>1, <2>2, Zenon DEF Table
<1>5. Types'
  BY <1>1, <1>2, <1>3, <1>4 DEF Inv, Types, Labels
<1>6. /\ proc'[e].state = "EMBRYO" /\ proc'[e].pid = nextpid
      /\ \A q \in Slots \ {e} : /\ proc'[q].state = proc[q].state
                                 /\ proc'[q].pid = proc[q].pid
                                 /\ proc'[q].chan = proc[q].chan
      /\ \A q \in Slots : /\ proc'[q].parent = proc[q].parent
                           /\ proc'[q].t_remain = proc[q].t_remain
                           /\ proc'[q].t_last_scheduled = proc[q].t_last_scheduled
  BY <1>1, <1>3 DEF Table, Proc
<1>7. /\ label'[s] = "fork" /\ np'[s] = e
      /\ \A q \in Slots \ {s} : label'[q] = label[q] /\ np'[q] = np[q]
  BY <1>1, <1>2, <1>3, Zenon
<1>0. State(e) = "UNUSED"
  BY <1>1, Zenon
<1>8. Seats'
  BY <1>0, <1>2, <1>6 DEF Inv, Seats, State, On, Types
<1>9. Embryos'
  BY <1>0, <1>3, <1>6, <1>7 DEF Inv, Embryos, State
<1>10. Pids'
  <2>1. \A q \in Slots : proc[q].pid \in Nat
    BY <1>3, Zenon DEF Table, Proc
  <2>2. \A q \in Slots \ {e} : proc[q].state # "UNUSED" => proc[q].pid < nextpid
    BY Zenon DEF Inv, Pids, State
  <2>3. \A q \in Slots : proc'[q].state # "UNUSED" => proc'[q].pid < nextpid'
    BY <1>2, <1>3, <1>6, <2>1, <2>2
  <2>4. UniquePids'
    <3>1. ASSUME NEW q \in Slots, NEW r \in Slots, q # r,
                 proc'[q].state # "UNUSED", proc'[r].state # "UNUSED"
          PROVE  proc'[q].pid # proc'[r].pid
      <4>1. CASE q # e /\ r # e
        BY <1>6, <3>1, <4>1 DEF Inv, Pids, UniquePids
      <4>2. CASE q = e \/ r = e
        BY <1>3, <1>6, <2>1, <2>2, <3>1, <4>2
      <4> QED  BY <4>1, <4>2, Zenon
    <3> QED  BY <3>1, Zenon DEF UniquePids
  <2> QED  BY <2>3, <2>4, Zenon DEF Pids, State
<1>11. Families'
  BY <1>0, <1>6, Constants DEF Inv, Families, Adopted, Live, State
<1>12. WaitMissesNone'
  BY <1>0, <1>6 DEF Inv, WaitMissesNone, Kids, Zombies, State
<1>13. Clock'
  BY <1>0, <1>2, <1>5, <1>6, TimelessStep, Zenon DEF State
<1> QED  BY <1>5, <1>8, <1>9, <1>10, <1>11, <1>12, <1>13, Zenon DEF Inv

\* fork() without memory for the child gives its slot back.
LEMMA forkFailsStep == ASSUME Inv, NEW s \in Slots, forkFails(s) PROVE Inv'
<1> DEFINE e == np[s]
<1>1. /\ label[s] = "fork" /\ proc' = [proc EXCEPT ![e].state = "UNUSED"]
      /\ np' = [np EXCEPT ![s] = None] /\ label' = [label EXCEPT ![s] = "user"]
      /\ UNCHANGED <<cpu, held, skip_target, nextpid, ticks, due, late>>
  BY Zenon DEF forkFails, In, Goto
<1>2. /\ e \in Slots /\ proc[e].state = "EMBRYO" /\ proc \in Table
      /\ label \in [Slots -> Labels] /\ np \in [Slots -> Slots \cup {None}]
  BY <1>1, Zenon DEF Inv, Embryos, State, Types
<1> HIDE DEF e
<1>3. proc' \in Table
  BY <1>1, <1>2 DEF Table, Proc, States
<1>4. Types'
  BY <1>1, <1>2, <1>3, Zenon DEF Inv, Types, Labels
<1>5. /\ proc'[e].state = "UNUSED"
      /\ \A q \in Slots \ {e} : proc'[q].state = proc[q].state
      /\ \A q \in Slots : /\ proc'[q].pid = proc[q].pid /\ proc'[q].parent = proc[q].parent
                           /\ proc'[q].chan = proc[q].chan
                           /\ proc'[q].t_remain = proc[q].t_remain
                           /\ proc'[q].t_last_scheduled = proc[q].t_last_scheduled
  BY <1>1, <1>2 DEF Table, Proc
<1>6. /\ label'[s] = "user"
      /\ \A q \in Slots \ {s} : label'[q] = label[q] /\ np'[q] = np[q]
      /\ \A q \in Slots \ {s} : label[q] = "fork" => np[q] # e
  BY <1>1, <1>2, Zenon DEF Inv, Embryos, e
<1>7. Seats'
  BY <1>1, <1>2, <1>5 DEF Inv, Seats, State, On, Types
<1>8. Embryos'
  BY <1>2, <1>5, <1>6 DEF Inv, Embryos, State
<1>9. Pids'
  BY <1>1, <1>2, <1>5 DEF Inv, Pids, UniquePids, State
<1>10. Families'
  BY <1>2, <1>5, Constants DEF Inv, Families, Adopted, Live, State
<1>11. WaitMissesNone'
  BY <1>2, <1>5 DEF Inv, WaitMissesNone, Kids, Zombies
<1>12. Clock'
  BY <1>1, <1>2, <1>4, <1>5, TimelessStep
<1> QED  BY <1>4, <1>7, <1>8, <1>9, <1>10, <1>11, <1>12, Zenon DEF Inv

\* The child is nobody's embryo and nobody's child before, its parent's after.
LEMMA forkChildStep == ASSUME Inv, NEW s \in Slots, forkChild(s) PROVE Inv'
<1> DEFINE e == np[s]
<1>1. PICK inherits \in BOOLEAN :
        LET t == IF inherits THEN proc[s].t_remain ELSE STCF_INIT_REMAIN
        IN  /\ proc' = [proc EXCEPT ![e].parent = s, ![e].t_remain = t,
                                    ![e].t_last_scheduled = -1,
                                    ![e].skip_once = FALSE, ![e].state = "RUNNABLE"]
            /\ due' = [due EXCEPT ![e] = t] /\ late' = late \ {e}
            /\ label' = [label EXCEPT ![s] = IF inherits THEN "yield" ELSE "user",
                                      ![e] = "user"]
  BY Zenon DEF forkChild
<1> DEFINE t == IF inherits THEN proc[s].t_remain ELSE STCF_INIT_REMAIN
<1>2. /\ label[s] = "fork" /\ On(s) /\ np' = [np EXCEPT ![s] = None]
      /\ UNCHANGED <<cpu, held, skip_target, nextpid, ticks>>
  BY Zenon DEF forkChild, At, In
<1>3. /\ e \in Slots /\ proc[e].state = "EMBRYO" /\ proc[s].state = "RUNNING"
      /\ proc \in Table /\ t \in Int /\ proc[e].parent = None
      /\ label \in [Slots -> Labels] /\ np \in [Slots -> Slots \cup {None}]
      /\ due \in [Slots -> Int]
  BY <1>2, STCFAssumption, Zenon DEF Inv, Embryos, Families, State, Types, Table, Proc
<1>4. /\ proc' = [proc EXCEPT ![e].parent = s, ![e].t_remain = t, ![e].t_last_scheduled = -1,
                              ![e].skip_once = FALSE, ![e].state = "RUNNABLE"]
      /\ due' = [due EXCEPT ![e] = t] /\ late' = late \ {e}
  BY <1>1, Zenon
<1> HIDE DEF e, t
<1>5. proc' \in Table
  <2> DEFINE half == [proc[e] EXCEPT !.parent = s, !.t_remain = t]
             new == [half EXCEPT !.t_last_scheduled = -1, !.skip_once = FALSE, !.state = "RUNNABLE"]
  <2>1. half \in Proc
    <3>1. proc[e] \in Proc
      BY <1>3, Zenon DEF Table
    <3> QED  BY <1>3, <3>1, Zenon DEF Proc
  <2>2. proc' = [proc EXCEPT ![e] = new]
    BY <1>3, <1>4, Zenon DEF Table
  <2> HIDE DEF half
  <2>3. new \in Proc
    <3>1. -1 \in Int
      OBVIOUS
    <3> QED  BY <2>1, <3>1, Zenon DEF Proc, States
  <2> HIDE DEF new
  <2> QED  BY <1>3, <2>2, <2>3, Zenon DEF Table
<1>6. /\ proc'[e].state = "RUNNABLE" /\ proc'[e].parent = s /\ proc'[e].t_remain = t
      /\ \A q \in Slots \ {e} :
            /\ proc'[q].state = proc[q].state /\ proc'[q].parent = proc[q].parent
            /\ proc'[q].t_remain = proc[q].t_remain
            /\ proc'[q].t_last_scheduled = proc[q].t_last_scheduled
      /\ \A q \in Slots : proc'[q].pid = proc[q].pid /\ proc'[q].chan = proc[q].chan
  BY <1>3, <1>4 DEF Table, Proc
<1>7. /\ label' \in [Slots -> Labels] /\ label'[s] # "fork" /\ label'[e] = "user"
      /\ \A q \in Slots \ {s, e} : label'[q] = label[q]
  BY <1>1, <1>3, Zenon DEF Labels
<1>8. /\ np' \in [Slots -> Slots \cup {None}] /\ \A q \in Slots \ {s} : np'[q] = np[q]
      /\ \A q \in Slots \ {s} : label[q] = "fork" => np[q] # e
  BY <1>2, <1>3, Zenon DEF Inv, Embryos, e
<1>9. Types'
  BY <1>2, <1>3, <1>4, <1>5, <1>7, <1>8, Zenon DEF Inv, Types
<1>10. Seats'
  BY <1>2, <1>3, <1>6 DEF Inv, Seats, State, On, Types
<1>11. Embryos'
  BY <1>3, <1>6, <1>7, <1>8 DEF Inv, Embryos, State
<1>12. Pids'
  BY <1>2, <1>3, <1>6 DEF Inv, Pids, UniquePids, State
<1>13. Families'
  BY <1>3, <1>6, Constants DEF Inv, Families, Adopted, Live, State
<1>14. WaitMissesNone'
  <2>1. \A q, r \in Slots : q # s => (proc'[r].parent = q <=> proc[r].parent = q)
    BY <1>3, <1>6, Constants
  <2>2. \A r \in Slots : proc'[r].state = "ZOMBIE" <=> proc[r].state = "ZOMBIE"
    BY <1>3, <1>6, Zenon
  <2>3. \A q \in Slots \ {s} : Kids(q)' = Kids(q) /\ Zombies(q)' = Zombies(q)
    BY <2>1, <2>2, Zenon DEF Kids, Zombies
  <2> QED  BY <1>3, <1>6, <2>3 DEF Inv, WaitMissesNone
<1>15. Clock'
  <2>1. /\ due'[e] = t /\ t - 0 = t /\ \A q \in Slots \ {e} : due'[q] = due[q]
        /\ late' = late \ {e}
    BY <1>3, <1>4
  <2> QED  BY <1>2, <1>3, <1>6, <2>1 DEF Inv, Clock, Charged, Live, State
<1> QED  BY <1>9, <1>10, <1>11, <1>12, <1>13, <1>14, <1>15, Zenon DEF Inv

\* The table after wait() has reaped z
Reaped(z) == [proc EXCEPT ![z].pid = 0, ![z].parent = None,
                          ![z].killed = FALSE, ![z].state = "UNUSED"]

\* A reaped zombie has no children: they were init's before it became one.
LEMMA reapStep ==
  ASSUME Inv, NEW s \in Slots, NEW z \in Zombies(s), On(s), label[s] # "fork", Goto(s, "user"),
         proc' = Reaped(z), held' = None, UNCHANGED <<cpu, skip_target, nextpid, ticks, np, due, late>>
  PROVE  Inv'
<1>1. /\ z \in Slots /\ proc[z].state = "ZOMBIE" /\ proc[z].parent = s
      /\ proc[s].state = "RUNNING" /\ proc \in Table /\ z # s
  BY Constants DEF Zombies, Kids, Inv, Types, Seats, State, On
<1>2. proc' \in Table
  <2> DEFINE new == [proc[z] EXCEPT !.pid = 0, !.parent = None, !.killed = FALSE, !.state = "UNUSED"]
  <2>1. new \in Proc
    <3>1. proc[z] \in Proc
      BY <1>1, Zenon DEF Table
    <3>2. [proc[z] EXCEPT !.pid = 0, !.parent = None] \in Proc
      BY <3>1, Zenon DEF Proc
    <3>3. new = [[proc[z] EXCEPT !.pid = 0, !.parent = None] EXCEPT !.killed = FALSE, !.state = "UNUSED"]
      BY <3>1, Zenon DEF Proc
    <3> QED  BY <3>2, <3>3, Zenon DEF Proc, States
  <2>2. proc' = [proc EXCEPT ![z] = new]
    BY <1>1, Zenon DEF Table, Reaped
  <2> HIDE DEF new
  <2> QED  BY <1>1, <2>1, <2>2, Zenon DEF Table
<1>3. /\ label' \in [Slots -> Labels]
      /\ \A q \in Slots : label'[q] = "fork" => label[q] = "fork"
  BY Zenon DEF Goto, Inv, Types, Labels
<1>4. Types'
  BY <1>2, <1>3, Zenon DEF Inv, Types
<1>5. /\ proc'[z].state = "UNUSED" /\ proc'[z].parent = None
      /\ \A q \in Slots \ {z} :
            /\ proc'[q].state = proc[q].state /\ proc'[q].parent = proc[q].parent
            /\ proc'[q].pid = proc[q].pid
      /\ \A q \in Slots :
            /\ proc'[q].chan = proc[q].chan /\ proc'[q].t_remain = proc[q].t_remain
            /\ proc'[q].t_last_scheduled = proc[q].t_last_scheduled
  BY <1>1 DEF Table, Proc, Reaped
<1>6. Seats'
  BY <1>1, <1>5 DEF Inv, Seats, State, On, Types
<1>7. Embryos'
  <2>1. \A q \in Slots : proc[q].state \in {"RUNNING", "EMBRYO"} => proc'[q].state = proc[q].state
    BY <1>1, <1>5, Zenon
  <2>2. np' = np
    BY Zenon
  <2>3. ASSUME NEW q \in Slots, label[q] = "fork"
        PROVE  /\ proc'[q].state = "RUNNING" /\ np[q] \in Slots
               /\ proc'[np[q]].state = "EMBRYO"
    <3>1. proc[q].state = "RUNNING" /\ np[q] \in Slots /\ proc[np[q]].state = "EMBRYO"
      BY <2>3, Zenon DEF Inv, Embryos, State
    <3> QED  BY <2>1, <3>1, Zenon
  <2>4. \A q, r \in Slots : label[q] = "fork" /\ label[r] = "fork" /\ np[q] = np[r] => q = r
    BY Zenon DEF Inv, Embryos
  <2> QED  BY <1>3, <2>2, <2>3, <2>4 DEF Embryos, State
<1>8. Pids'
  <2>1. \A q \in Slots : proc'[q].state # "UNUSED" =>
           q # z /\ proc[q].state # "UNUSED" /\ proc'[q].pid = proc[q].pid
    BY <1>5, Zenon
  <2>2. UniquePids'
    <3>1. ASSUME NEW q \in Slots, NEW r \in Slots, q # r,
                 proc'[q].state # "UNUSED", proc'[r].state # "UNUSED"
          PROVE  proc'[q].pid # proc'[r].pid
      BY <2>1, <3>1 DEF Inv, Pids, UniquePids
    <3> QED  BY <3>1, Zenon DEF UniquePids
  <2> QED  BY <2>1, <2>2, Zenon DEF Inv, Pids, State
<1>9. Families'
  <2>1. z # initproc /\ None # z
    BY <1>1, Constants, Zenon DEF Inv, Families, State
  <2>2. \A q \in Slots \ {initproc} : proc[q].state \notin {"UNUSED", "EMBRYO"} =>
           /\ proc[q].parent \in Slots \ {z}
           /\ proc[proc[q].parent].state \notin {"UNUSED", "EMBRYO", "ZOMBIE"}
    BY <1>1, Zenon DEF Inv, Families, Adopted, Live
  <2>3. Adopted'
    BY <1>5, <2>2 DEF Adopted, Live
  <2> QED  BY <1>5, <2>1, <2>3, Constants DEF Inv, Families, State
<1>10. WaitMissesNone'
  <2>1. \A q, r \in Slots : q # s => (proc'[r].parent = q <=> proc[r].parent = q)
    BY <1>1, <1>5, Constants
  <2>2. \A q \in Slots \ {s} : Kids(q)' = Kids(q) /\ Zombies(q)' \subseteq Zombies(q)
    BY <1>1, <1>5, <2>1 DEF Kids, Zombies
  <2> QED  BY <1>1, <1>5, <2>2 DEF Inv, WaitMissesNone
<1>11. Clock'
  BY <1>1, <1>4, <1>5, TimelessStep
<1> QED  BY <1>4, <1>6, <1>7, <1>8, <1>9, <1>10, <1>11, Zenon DEF Inv

\* wait() collects a zombie child, fails without children, or sleeps.
LEMMA waitStep == ASSUME Inv, NEW s \in Slots, wait(s) PROVE Inv'
<1>1. PICK l \in {"user", "wait"} : In(s, l)
  <2>1. Calls(s) \/ At(s, "wait")
    BY Zenon DEF wait
  <2> QED  BY <2>1, Zenon DEF Calls, At
<1>2. UNCHANGED <<skip_target, nextpid, ticks, np, due, late>>
  BY Zenon DEF wait
<1>3. CASE /\ \E z \in Zombies(s) : proc' = Reaped(z)
           /\ held' = None /\ cpu' = cpu /\ Goto(s, "user")
  BY <1>1, <1>2, <1>3, reapStep, Zenon DEF In
<1>4. CASE proc' = proc /\ held' = None /\ cpu' = cpu /\ Goto(s, "user")
  <2>1. 0 \in Int
    OBVIOUS
  <2> QED  BY <1>2, <1>4, <2>1, ReturnStep, Zenon
<1>5. CASE Zombies(s) = {} /\ Kids(s) # {} /\ Sleep(s, proc, s) /\ Goto(s, "wait")
  <2> DEFINE tab == [proc EXCEPT ![s].chan = s]
  <2>1. proc \in Table /\ s \in Int
    BY DEF Inv, Types, Slots
  <2>2. /\ tab \in Table /\ \A q \in Slots \ {s} : tab[q] = proc[q]
        /\ tab[s].pid = proc[s].pid /\ tab[s].parent = proc[s].parent
        /\ tab[s].t_remain = proc[s].t_remain
        /\ tab[s].t_last_scheduled = proc[s].t_last_scheduled
    BY <2>1, SleepFields
  <2>3. Leave(tab, s, "SLEEPING")
    BY <1>5, Zenon DEF Sleep
  <2> HIDE DEF tab
  <2> QED  BY <1>1, <1>2, <1>5, <2>2, <2>3, LeaveStep, Zenon DEF Labels
<1>6. \/ \E z \in Zombies(s) : proc' = Reaped(z) /\ held' = None /\ cpu' = cpu /\ Goto(s, "user")
      \/ proc' = proc /\ held' = None /\ cpu' = cpu /\ Goto(s, "user")
      \/ Zombies(s) = {} /\ Kids(s) # {} /\ Sleep(s, proc, s) /\ Goto(s, "wait")
  BY Zenon DEF wait, Reaped
<1> QED  BY <1>3, <1>4, <1>5, <1>6, Zenon

\* The table in which exit() leaves the children of s to init
LEMMA ReparentFields ==
  ASSUME NEW tab \in Table, NEW s \in Slots
  PROVE  /\ reparent(tab, s) \in Table
         /\ \A q \in Slots :
              /\ reparent(tab, s)[q].state =
                   IF /\ tab[q].state = "SLEEPING" /\ tab[q].chan = initproc
                      /\ \E r \in Slots : tab[r].parent = s /\ tab[r].state = "ZOMBIE"
                   THEN "RUNNABLE" ELSE tab[q].state
              /\ reparent(tab, s)[q].parent = IF tab[q].parent = s THEN initproc ELSE tab[q].parent
              /\ reparent(tab, s)[q].chan = tab[q].chan
              /\ reparent(tab, s)[q].pid = tab[q].pid
              /\ reparent(tab, s)[q].t_remain = tab[q].t_remain
              /\ reparent(tab, s)[q].t_last_scheduled = tab[q].t_last_scheduled
<1> DEFINE kids == {q \in Slots : tab[q].parent = s}
           adopted == [q \in Slots |-> IF q \in kids THEN [tab[q] EXCEPT !.parent = initproc] ELSE tab[q]]
<1>1. \A q \in Slots : tab[q] \in Proc /\ [tab[q] EXCEPT !.parent = initproc] \in Proc
  BY Constants DEF Table, Proc
<1>2. adopted \in Table
  BY <1>1, Zenon DEF Table
<1>3. \A q \in Slots :
         /\ adopted[q].state = tab[q].state /\ adopted[q].chan = tab[q].chan
         /\ adopted[q].parent = IF tab[q].parent = s THEN initproc ELSE tab[q].parent
         /\ adopted[q].pid = tab[q].pid /\ adopted[q].t_remain = tab[q].t_remain
         /\ adopted[q].t_last_scheduled = tab[q].t_last_scheduled
  BY <1>1, Zenon DEF Proc
<1>4. reparent(tab, s) = IF \E r \in Slots : tab[r].parent = s /\ tab[r].state = "ZOMBIE"
                         THEN wakeup1(adopted, initproc) ELSE adopted
  BY Zenon DEF reparent
<1>5. initproc \in Int
  BY DEF initproc
<1> HIDE DEF adopted
<1>6. CASE \E r \in Slots : tab[r].parent = s /\ tab[r].state = "ZOMBIE"
  BY <1>2, <1>3, <1>4, <1>5, <1>6, WakeFields
<1>7. CASE ~ \E r \in Slots : tab[r].parent = s /\ tab[r].state = "ZOMBIE"
  BY <1>2, <1>3, <1>4, <1>7
<1> QED  BY <1>6, <1>7, Zenon

\* exit() wakes the parent and then hands over the children, so that nobody
\* sleeps in wait() beside a zombie.
LEMMA exitStep == ASSUME Inv, NEW s \in Slots, exit(s) PROVE Inv'
<1> DEFINE par == proc[s].parent
           woken == wakeup1(proc, par)
           tab == reparent(woken, s)
           Orphans == \E r \in Slots : proc[r].parent = s /\ proc[r].state = "ZOMBIE"
<1>1. /\ On(s) /\ label[s] = "user" /\ s # initproc /\ Leave(tab, s, "ZOMBIE")
      /\ UNCHANGED <<skip_target, nextpid, ticks, label, np, due, late>>
  BY Zenon DEF exit, At, In
<1>2. /\ proc[s].state = "RUNNING" /\ proc \in Table /\ par \in Int
      /\ par \in Slots \ {s} /\ proc[par].state \notin {"UNUSED", "EMBRYO", "ZOMBIE"}
  <2>1. proc[s].state = "RUNNING" /\ proc \in Table
    BY <1>1, Constants, Zenon DEF Inv, Types, Seats, State, On
  <2>2. par \in Slots \ {s} /\ proc[par].state \notin {"UNUSED", "EMBRYO", "ZOMBIE"}
    BY <1>1, <2>1, Zenon DEF Inv, Families, Adopted, Live
  <2> QED  BY <2>1, <2>2 DEF Slots
<1>3. /\ woken \in Table
      /\ \A q \in Slots :
           /\ woken[q].state = IF proc[q].state = "SLEEPING" /\ proc[q].chan = par
                               THEN "RUNNABLE" ELSE proc[q].state
           /\ woken[q].chan = proc[q].chan /\ woken[q].pid = proc[q].pid
           /\ woken[q].parent = proc[q].parent /\ woken[q].t_remain = proc[q].t_remain
           /\ woken[q].t_last_scheduled = proc[q].t_last_scheduled
  BY <1>2, WakeFields
<1> HIDE DEF woken
<1>4. (\E r \in Slots : woken[r].parent = s /\ woken[r].state = "ZOMBIE") <=> Orphans
  BY <1>3, Zenon
<1>5. /\ tab \in Table
      /\ \A q \in Slots :
           /\ tab[q].state = IF /\ proc[q].state = "SLEEPING"
                                /\ proc[q].chan = par \/ (Orphans /\ proc[q].chan = initproc)
                             THEN "RUNNABLE" ELSE proc[q].state
           /\ tab[q].parent = IF proc[q].parent = s THEN initproc ELSE proc[q].parent
           /\ tab[q].chan = proc[q].chan /\ tab[q].pid = proc[q].pid
           /\ tab[q].t_remain = proc[q].t_remain
           /\ tab[q].t_last_scheduled = proc[q].t_last_scheduled
  <2>1. /\ tab \in Table
        /\ \A q \in Slots :
             /\ tab[q].state = IF /\ woken[q].state = "SLEEPING" /\ woken[q].chan = initproc
                                  /\ Orphans
                               THEN "RUNNABLE" ELSE woken[q].state
             /\ tab[q].parent = IF woken[q].parent = s THEN initproc ELSE woken[q].parent
             /\ tab[q].chan = woken[q].chan /\ tab[q].pid = woken[q].pid
             /\ tab[q].t_remain = woken[q].t_remain
             /\ tab[q].t_last_scheduled = woken[q].t_last_scheduled
    <3>1. woken \in Table
      BY <1>3, Zenon
    <3>2. /\ tab \in Table
          /\ \A q \in Slots :
               /\ tab[q].state = IF /\ woken[q].state = "SLEEPING" /\ woken[q].chan = initproc
                                    /\ \E r \in Slots : woken[r].parent = s /\ woken[r].state = "ZOMBIE"
                                 THEN "RUNNABLE" ELSE woken[q].state
               /\ tab[q].parent = IF woken[q].parent = s THEN initproc ELSE woken[q].parent
               /\ tab[q].chan = woken[q].chan /\ tab[q].pid = woken[q].pid
               /\ tab[q].t_remain = woken[q].t_remain
               /\ tab[q].t_last_scheduled = woken[q].t_last_scheduled
      BY <3>1, ReparentFields
    <3> HIDE DEF tab
    <3> QED  BY <1>4, <3>2
  <2> HIDE DEF tab, Orphans, par
  <2> QED  BY <1>3, <2>1
<1> HIDE DEF tab, Orphans, par
<1>6. /\ proc' \in Table /\ held' = None
      /\ cpu' = [c \in CPUs |-> IF cpu[c] = s THEN None ELSE cpu[c]]
      /\ cpu' \in [CPUs -> Slots \cup {None}]
      /\ \A q \in Slots \ {s} : proc'[q] = tab[q]
      /\ proc'[s].state = "ZOMBIE" /\ proc'[s].pid = tab[s].pid
      /\ proc'[s].parent = tab[s].parent /\ proc'[s].chan = tab[s].chan
      /\ s \notin late =>
           proc'[s].t_remain = proc[s].t_remain - (ticks - proc[s].t_last_scheduled)
  <2>1. tab[s].t_remain = proc[s].t_remain /\ tab[s].t_last_scheduled = proc[s].t_last_scheduled
    BY <1>5, Zenon
  <2>2. tab \in Table /\ On(s) /\ Leave(tab, s, "ZOMBIE") /\ "ZOMBIE" \in States
    BY <1>1, <1>5, Zenon DEF States
  <2> QED  BY <2>1, <2>2, LeaveFields, Zenon
<1>7. /\ \A q \in Slots \ {s} :
            /\ Woken(q) /\ proc'[q].t_remain = proc[q].t_remain
            /\ proc'[q].t_last_scheduled = proc[q].t_last_scheduled
            /\ proc'[q].state = "SLEEPING" =>
                  proc[q].chan # par /\ ~ (Orphans /\ proc[q].chan = initproc)
      /\ \A q \in Slots :
            /\ proc'[q].pid = proc[q].pid
            /\ proc'[q].parent = IF proc[q].parent = s THEN initproc ELSE proc[q].parent
  BY <1>5, <1>6 DEF Woken
<1>8. Types'
  <2>1. UNCHANGED <<skip_target, nextpid, ticks, label, np, due, late>>
    BY <1>1, Zenon
  <2>2. proc' \in Table /\ held' = None /\ cpu' \in [CPUs -> Slots \cup {None}]
    BY <1>6, Zenon
  <2> QED  BY <2>1, <2>2, Zenon DEF Inv, Types
<1>9. Seats'
  <2>1. \A q \in Slots : proc'[q].state = "RUNNING" <=> proc[q].state = "RUNNING" /\ q # s
    BY <1>6, <1>7, Zenon DEF Woken
  <2>2. \A c \in CPUs : /\ cpu[c] \in Slots \cup {None}
                        /\ cpu'[c] = IF cpu[c] = s THEN None ELSE cpu[c]
    BY <1>6, Zenon DEF Inv, Types
  <2> QED  BY <2>1, <2>2, Constants DEF Inv, Seats, State, On
<1>10. Embryos'
  <2>1. \A q \in Slots : /\ proc[q].state = "RUNNING" /\ q # s => proc'[q].state = "RUNNING"
                         /\ proc[q].state = "EMBRYO" => proc'[q].state = "EMBRYO"
    BY <1>2, <1>7, Zenon DEF Woken
  <2> QED  BY <1>1, <2>1, Zenon DEF Inv, Embryos, State
<1>11. Pids'
  <2>1. \A q \in Slots : proc'[q].state = "UNUSED" <=> proc[q].state = "UNUSED"
    BY <1>2, <1>6, <1>7, Zenon DEF Woken
  <2> QED  BY <1>1, <1>7, <2>1 DEF Inv, Pids, UniquePids, State
<1>12. Families'
  <2>1. \A q \in Slots : proc'[q].state \in {"UNUSED", "EMBRYO"} <=> proc[q].state \in {"UNUSED", "EMBRYO"}
    BY <1>2, <1>6, <1>7, Zenon DEF Woken
  <2>2. \A q \in Slots \ {s} : proc'[q].state = "ZOMBIE" <=> proc[q].state = "ZOMBIE"
    BY <1>7, Zenon DEF Woken
  <2>3. \A q \in Slots \ {initproc} : proc[q].state \notin {"UNUSED", "EMBRYO"} =>
           /\ proc[q].parent \in Slots
           /\ proc[proc[q].parent].state \notin {"UNUSED", "EMBRYO", "ZOMBIE"}
    BY Zenon DEF Inv, Families, Adopted, Live
  <2>4. proc[initproc].state \notin {"UNUSED", "EMBRYO", "ZOMBIE"} /\ initproc \in Slots \ {s}
    BY <1>1, Constants, Zenon DEF Inv, Families, State
  <2>5. Adopted'
    BY <1>7, <2>1, <2>2, <2>3, <2>4 DEF Adopted, Live
  <2>6. \A q \in Slots : proc'[q].parent # q
    BY <1>7, <2>4, Constants DEF Inv, Families
  <2> QED  BY <1>7, <2>1, <2>2, <2>4, <2>5, <2>6, Constants DEF Inv, Families, State
<1>13. WaitMissesNone'
  <2> SUFFICES ASSUME NEW q \in Slots, proc'[q].state = "SLEEPING", proc'[q].chan = q
               PROVE  Kids(q)' # {} /\ Zombies(q)' = {}
    BY Zenon DEF WaitMissesNone
  <2>1. q # s /\ proc[q].state = "SLEEPING" /\ proc[q].chan = q /\ q # par /\ ~ (Orphans /\ q = initproc)
    BY <1>6, <1>7 DEF Woken
  <2>2. Kids(q) # {} /\ Zombies(q) = {}
    BY <2>1, Zenon DEF Inv, WaitMissesNone
  <2>3. Kids(q) \subseteq Kids(q)'
    BY <1>7, <2>1, Zenon DEF Kids
  <2>4. ASSUME NEW r \in Slots, proc'[r].parent = q, proc'[r].state = "ZOMBIE" PROVE FALSE
    <3>1. CASE r = s
      BY <1>2, <1>7, <2>1, <2>4, <3>1, Zenon DEF par
    <3>2. CASE r # s
      <4>1. proc[r].state = "ZOMBIE"
        BY <1>7, <2>4, <3>2, Zenon DEF Woken
      <4>2. CASE proc[r].parent = s
        BY <1>7, <2>1, <2>4, <4>1, <4>2, Zenon DEF Orphans
      <4>3. CASE proc[r].parent # s
        BY <1>7, <2>2, <2>4, <4>1, <4>3, Zenon DEF Zombies, Kids
      <4> QED  BY <4>2, <4>3, Zenon
    <3> QED  BY <3>1, <3>2, Zenon
  <2> QED  BY <2>2, <2>3, <2>4, Zenon DEF Zombies, Kids
<1>14. Clock'
  <2>1. \A q \in Slots \ {s} :
           /\ proc'[q].state \in {"UNUSED", "EMBRYO"} <=> proc[q].state \in {"UNUSED", "EMBRYO"}
           /\ proc'[q].state = "RUNNING" <=> proc[q].state = "RUNNING"
           /\ proc'[q].t_remain = proc[q].t_remain
           /\ proc'[q].t_last_scheduled = proc[q].t_last_scheduled
    BY <1>7, Zenon DEF Woken
  <2>2. /\ proc'[s].state # "RUNNING"
        /\ s \notin late =>
             proc'[s].t_remain = proc[s].t_remain - (ticks - proc[s].t_last_scheduled)
    BY <1>6, Zenon
  <2> QED  BY <1>1, <1>8, <2>1, <2>2, ChargeStep, Zenon
<1> QED  BY <1>8, <1>9, <1>10, <1>11, <1>12, <1>13, <1>14, Zenon DEF Inv

------------------------------------------------------------------------------
(* The theorems                                                             *)

\* userinit()'s table satisfies the invariant.
LEMMA InitInv == ASSUME Init PROVE Inv
<1>1. /\ \A s \in Slots : s # initproc => proc[s] = Unused
      /\ proc[initproc] = firstProc /\ initproc \in Slots
      /\ \A s \in Slots : label[s] = "user"
      /\ \A c \in CPUs : cpu[c] = None
      /\ nextpid = 2 /\ ticks = 0
      /\ due[initproc] = STCF_INIT_REMAIN
  BY Constants, Zenon DEF Init
<1>2. Unused \in Proc /\ firstProc \in Proc
  <2>1. -1 \in Int /\ 0 \in Int /\ STCF_INIT_REMAIN \in Int
    BY STCFAssumption
  <2>2. Unused \in Proc
    BY <2>1, Zenon DEF Unused, Proc, States, None
  <2> QED  BY <2>1, <2>2, Zenon DEF firstProc, Proc, States
<1>3. /\ Unused.state = "UNUSED" /\ Unused.parent = None
      /\ firstProc.state = "RUNNABLE" /\ firstProc.parent = None /\ firstProc.pid = 1
      /\ firstProc.t_remain = STCF_INIT_REMAIN
  BY Zenon DEF Unused, firstProc
<1>4. Types
  <2>1. proc \in Table /\ cpu \in [CPUs -> Slots \cup {None}]
    BY <1>2, Zenon DEF Init, Table
  <2>2. label \in [Slots -> Labels] /\ np \in [Slots -> Slots \cup {None}] /\ due \in [Slots -> Int]
    BY STCFAssumption DEF Init, Labels
  <2> QED  BY <2>1, <2>2, Zenon DEF Init, Types
<1>5. Seats
  BY <1>1, <1>3, Zenon DEF Seats, State
<1>6. Embryos
  BY <1>1, Zenon DEF Embryos
<1>7. Pids
  <2>1. \A s \in Slots : proc[s].state # "UNUSED" => s = initproc
    BY <1>1, <1>3, Zenon
  <2>2. UniquePids
    BY <2>1, Zenon DEF UniquePids
  <2> QED  BY <1>1, <1>3, <2>1, <2>2 DEF Pids, State
<1>8. Families
  BY <1>1, <1>3, Constants, Zenon DEF Families, Adopted, Live, State
<1>9. WaitMissesNone
  BY <1>1, <1>3, Zenon DEF WaitMissesNone
<1>10. Clock
  BY <1>1, <1>3, STCFAssumption DEF Clock, Charged, Live, State
<1> QED  BY <1>4, <1>5, <1>6, <1>7, <1>8, <1>9, <1>10, Zenon DEF Inv

\* The stores at the end of userinit() touch the times and the skip of init.
LEMMA userinitStep == ASSUME Inv, NEW c \in CPUs, userinit(c) PROVE Inv'
<1>1. /\ proc' = [proc EXCEPT ![initproc].t_remain = STCF_INIT_REMAIN,
                              ![initproc].t_last_scheduled = -1,
                              ![initproc].skip_once = FALSE]
      /\ due' = [due EXCEPT ![initproc] = STCF_INIT_REMAIN]
      /\ UNCHANGED <<cpu, held, skip_target, nextpid, ticks, label, np>>
  BY Zenon DEF userinit
<1>2. /\ proc \in Table /\ due \in [Slots -> Int] /\ STCF_INIT_REMAIN \in Int
      /\ initproc \in Slots
  BY Constants, STCFAssumption, Zenon DEF Inv, Types
<1>3. proc' \in Table
  <2> DEFINE new == [proc[initproc] EXCEPT !.t_remain = STCF_INIT_REMAIN,
                                           !.t_last_scheduled = -1, !.skip_once = FALSE]
  <2>1. new \in Proc
    <3>1. proc[initproc] \in Proc /\ -1 \in Int
      BY <1>2 DEF Table
    <3> QED  BY <1>2, <3>1, Zenon DEF Proc
  <2>2. proc' = [proc EXCEPT ![initproc] = new]
    BY <1>1, <1>2, Zenon DEF Table
  <2> HIDE DEF new
  <2> QED  BY <1>2, <2>1, <2>2, Zenon DEF Table
<1>4. Types'
  BY <1>1, <1>2, <1>3, Zenon DEF Inv, Types
<1>5. \A q \in Slots : /\ Woken(q) /\ Kept(q) /\ proc'[q].state = proc[q].state
                       /\ q # initproc => proc'[q] = proc[q] /\ due'[q] = due[q]
  BY <1>1, <1>2 DEF Table, Proc, Woken, Kept
<1>6. proc'[initproc].t_remain = STCF_INIT_REMAIN /\ due'[initproc] = STCF_INIT_REMAIN
  BY <1>1, <1>2 DEF Table, Proc
<1>7. /\ \A q \in Slots \ {initproc} : q \in late' <=> q \in late
      /\ initproc \notin late' => proc[initproc].state # "RUNNING"
  BY Zenon DEF userinit
<1>8. Order'
  BY <1>1, <1>4, <1>5, QuietStep, Zenon
<1>9. Clock'
  <2>1. ASSUME NEW q \in Slots, q \notin late', proc'[q].state = "RUNNING"
        PROVE  0 <= proc'[q].t_last_scheduled /\ proc'[q].t_last_scheduled <= ticks'
    <3>1. q # initproc /\ q \notin late /\ proc[q].state = "RUNNING"
      BY <1>5, <1>7, <2>1, Zenon
    <3> QED  BY <1>1, <1>5, <3>1, Zenon DEF Inv, Clock, State
  <2>2. ASSUME NEW q \in Slots, q \notin late', proc'[q].state \notin {"UNUSED", "EMBRYO"}
        PROVE  due'[q] = proc'[q].t_remain -
                 (IF proc'[q].state = "RUNNING" THEN ticks' - proc'[q].t_last_scheduled ELSE 0)
    <3>1. CASE q = initproc
      BY <1>2, <1>5, <1>6, <1>7, <2>2, <3>1
    <3>2. CASE q # initproc
      <4>1. proc'[q] = proc[q] /\ due'[q] = due[q] /\ ticks' = ticks /\ q \notin late
        BY <1>1, <1>5, <1>7, <2>2, <3>2, Zenon
      <4> QED  BY <2>2, <4>1, Zenon DEF Inv, Clock, Charged, Live
    <3> QED  BY <3>1, <3>2, Zenon
  <2> QED  BY <2>1, <2>2, Zenon DEF Clock, Charged, Live, State
<1> QED  BY <1>4, <1>8, <1>9, Zenon DEF Inv, Order

\* No step breaks the invariant.
LEMMA NextInv == ASSUME Inv, [Next]_vars PROVE Inv'
<1>1. ASSUME NEW s \in Slots, syscall(s) PROVE Inv'
  BY <1>1, yieldStep, allocprocStep, forkFailsStep, forkChildStep, exitStep, waitStep,
     sleepStartStep, sleepLoopStep, giveStep, Zenon DEF syscall
<1>2. ASSUME NEW s \in Slots, Bounded(s) PROVE Inv'
  BY <1>2, sleepEnterStep, blockStep, remainStep, giveStep, killStep, Zenon DEF Bounded
<1>3. CASE UNCHANGED vars
  <2>1. UNCHANGED <<proc, cpu, held, skip_target, nextpid, ticks, label, np, due, late>>
    BY <1>3, Zenon DEF vars
  <2>2. Types'
    BY <2>1, Zenon DEF Inv, Types
  <2>3. Order'
    BY <2>1, <2>2, QuietStep, Zenon DEF Woken, Kept
  <2>4. Clock'
    BY <2>1, <2>2, TimelessStep, Zenon
  <2> QED  BY <2>2, <2>3, <2>4, Zenon DEF Inv, Order
<1> QED  BY <1>1, <1>2, <1>3, schedulerStep, tickStep, wakeupStep, userinitStep, Zenon DEF Next

\* The invariant holds of the kernel for every number of slots, processors,
\* ticks and calls: what fork(), exit(), wait(), the sleeps and the scheduler
\* leave in the process table agrees with who is on a CPU.
THEOREM Inductive == Spec => []Inv
<1>1. Init => Inv
  BY InitInv, Zenon
<1>2. Inv /\ [Next]_vars => Inv'
  BY NextInv, Zenon
<1> QED  BY <1>1, <1>2, PTL DEF Spec

\* scheduler() and the switches agree on who runs where: a process is RUNNING
\* when exactly one CPU has it.
THEOREM RunsOnce == Spec => []OnOneCPU
<1>1. Inv => OnOneCPU
  <2> SUFFICES ASSUME Inv, NEW s \in Slots
               PROVE  Cardinality({c \in CPUs : cpu[c] = s}) = IF proc[s].state = "RUNNING" THEN 1 ELSE 0
    BY Zenon DEF OnOneCPU
  <2>1. CASE proc[s].state = "RUNNING"
    <3>1. PICK c \in CPUs : cpu[c] = s
      BY <2>1, Zenon DEF Inv, Seats, State, On
    <3>2. {d \in CPUs : cpu[d] = s} = {c}
      BY <3>1, Constants, Zenon DEF Inv, Seats
    <3> QED  BY <2>1, <3>2, FS_Singleton, Zenon
  <2>2. CASE proc[s].state # "RUNNING"
    <3>1. {d \in CPUs : cpu[d] = s} = {}
      BY <2>2, Constants, Zenon DEF Inv, Seats, State
    <3> QED  BY <2>2, <3>1, FS_EmptySet, Zenon
  <2> QED  BY <2>1, <2>2, Zenon
<1> QED  BY <1>1, Inductive, PTL

\* allocproc() never hands out a pid in use, so kill() and wait() mean one
\* process.
THEOREM PidsUnique == Spec => []UniquePids
<1>1. Inv => UniquePids
  BY Zenon DEF Inv, Pids
<1> QED  BY <1>1, Inductive, PTL

\* exit() leaves no orphans: every process has a parent that can collect it.
THEOREM NoOrphans == Spec => []Adopted
<1>1. Inv => Adopted
  BY Zenon DEF Inv, Families
<1> QED  BY <1>1, Inductive, PTL

\* Nobody sleeps in wait() beside a zombie child, or without a child.
THEOREM NoMissedExit == Spec => []WaitMissesNone
<1>1. Inv => WaitMissesNone
  BY Zenon DEF Inv
<1> QED  BY <1>1, Inductive, PTL

\* The time charged at switches is the time counted tick by tick, for every process
\* whose last estimate was stored by fork(), or by itself in the tick of its
\* dispatch.
THEOREM ChargedExactly == Spec => []Charged
<1>1. Inv => Charged
  BY Zenon DEF Inv, Clock
<1> QED  BY <1>1, Inductive, PTL

------------------------------------------------------------------------------
(* sleep(n)                                                                 *)

\* The countdown of a sleep(n): asleep, sleepticks is what is left of the n
\* ticks, and whoever is not asleep any more was killed or has slept them all.
\* Before that the clock stands still.
Napping(s) ==
  /\ State(s) \in {"SLEEPING", "RUNNABLE", "RUNNING"}
  /\ State(s) = "SLEEPING" =>
       /\ proc[s].chan = TicksChan /\ 0 <= proc[s].sleepticks
       /\ proc[s].sleepticks = nap[s].n - (ticks - nap[s].ticks0)
  /\ label[s] = "sleep" /\ State(s) # "SLEEPING" =>
       proc[s].killed \/ ticks - nap[s].ticks0 > nap[s].n
  /\ label[s] = "nap" =>
       State(s) = "RUNNING" /\ proc[s].sleepticks = nap[s].n /\ nap[s].ticks0 = ticks

InSleep == {"nap", "sleep"}

Countdown ==
  /\ nap \in [Slots -> [n : Nat, ticks0 : Nat]]
  /\ \A s \in Slots : label[s] \in InSleep => Napping(s)

\* What a step may do to a process in sleep(n) while the clock stands still: it
\* is left alone, dispatched, or killed.
Dozes(q) ==
  /\ label[q] = label'[q]
  /\ proc[q].killed => proc'[q].killed
  /\ \/ /\ proc'[q].state = proc[q].state /\ proc'[q].chan = proc[q].chan
        /\ proc'[q].sleepticks = proc[q].sleepticks
     \/ proc[q].state = "RUNNABLE" /\ proc'[q].state = "RUNNING"
     \/ proc[q].state = "SLEEPING" /\ proc'[q].state = "RUNNABLE" /\ proc'[q].killed

\* A step that leaves the sleepers alone, dispatches or kills them keeps the
\* countdown.
LEMMA DozeStep ==
  ASSUME Countdown, ticks' = ticks, nap' = nap,
         \A q \in Slots : label'[q] \in InSleep => Dozes(q)
  PROVE  Countdown'
  BY DEF Countdown, Napping, Dozes, State, InSleep

\* A process that leaves its CPU keeps what the table says of its sleep.
LEMMA LeaveKeeps ==
  ASSUME NEW tab \in Table, NEW s \in Slots, NEW st, Leave(tab, s, st)
  PROVE  /\ \A q \in Slots \ {s} : proc'[q] = tab[q]
         /\ proc'[s].state = st /\ proc'[s].chan = tab[s].chan
         /\ proc'[s].sleepticks = tab[s].sleepticks
  BY DEF Leave, account, Table, Proc

\* wakeup1 on a channel that is not the clock's leaves the sleepers asleep.
LEMMA WakeKeeps ==
  ASSUME NEW tab \in Table, NEW chan, NEW q \in Slots,
         tab[q].state = "SLEEPING" => tab[q].chan # chan
  PROVE  wakeup1(tab, chan)[q] = tab[q]
  BY Zenon DEF wakeup1

\* The clock: sleep_proc_notify counts down and wakes at zero.
LEMMA tickNaps == ASSUME Inv, Countdown, tick PROVE Countdown'
<1>1. nap' = nap /\ label' = label /\ ticks' = ticks + 1 /\ ticks \in Nat
  BY Zenon DEF tick, Inv, Types
<1>2. ASSUME NEW s \in Slots, label[s] \in InSleep PROVE Napping(s)'
  <2>0. label[s] = "sleep"
    BY <1>2, Zenon DEF InSleep, tick
  <2>1. Napping(s) /\ nap[s].n \in Nat /\ nap[s].ticks0 \in Nat
    BY <1>2, Zenon DEF Countdown
  <2>2. proc[s] \in Proc /\ proc[s].sleepticks \in Int
    BY Zenon DEF Inv, Types, Table, Proc
  <2>3. proc'[s] = IF proc[s].state = "SLEEPING" /\ proc[s].chan = TicksChan
                   THEN IF proc[s].sleepticks = 0 THEN [proc[s] EXCEPT !.state = "RUNNABLE"]
                        ELSE [proc[s] EXCEPT !.sleepticks = @ - 1]
                   ELSE proc[s]
    BY Zenon DEF tick, sleep_proc_notify
  <2>4. CASE proc[s].state # "SLEEPING"
    BY <1>1, <2>0, <2>1, <2>3, <2>4 DEF Napping, State
  <2>5. CASE proc[s].state = "SLEEPING" /\ proc[s].sleepticks = 0
    <3>1. proc'[s].state = "RUNNABLE"
      BY <2>1, <2>2, <2>3, <2>5, Zenon DEF Napping, State, Proc
    <3> QED  BY <1>1, <2>0, <2>1, <2>5, <3>1 DEF Napping, State
  <2>6. CASE proc[s].state = "SLEEPING" /\ proc[s].sleepticks # 0
    <3>1. /\ proc'[s].state = "SLEEPING" /\ proc'[s].chan = TicksChan
          /\ proc'[s].sleepticks = proc[s].sleepticks - 1
      BY <2>1, <2>2, <2>3, <2>6, Zenon DEF Napping, State, Proc
    <3>2. /\ 0 <= proc[s].sleepticks
          /\ proc[s].sleepticks = nap[s].n - (ticks - nap[s].ticks0)
      BY <2>1, <2>6, Zenon DEF Napping, State
    <3>3. /\ 0 <= proc[s].sleepticks - 1
          /\ proc[s].sleepticks - 1 = nap[s].n - ((ticks + 1) - nap[s].ticks0)
      BY <1>1, <2>1, <2>2, <2>6, <3>2
    <3> QED  BY <1>1, <2>0, <3>1, <3>3, Zenon DEF Napping, State
  <2> QED  BY <2>4, <2>5, <2>6, Zenon
<1> QED  BY <1>1, <1>2, Zenon DEF Countdown

\* sys_sleep(n) starts a countdown of n, and the loop after it never sleeps again.
LEMMA sleepNaps ==
  ASSUME Inv, Countdown, NEW s \in Slots, sleepEnter(s) \/ sleepStart(s) \/ sleepLoop(s)
  PROVE  Countdown'
<1>0. /\ proc \in Table /\ label \in [Slots -> Labels] /\ ticks \in Nat /\ ticks' = ticks
      /\ nap \in [Slots -> [n : Nat, ticks0 : Nat]]
  BY Zenon DEF Inv, Types, Countdown, sleepEnter, sleepStart, sleepLoop
<1>1. CASE sleepEnter(s)
  <2>1. PICK n \in Naps :
          /\ nap' = [nap EXCEPT ![s] = [n |-> n, ticks0 |-> ticks]]
          /\ proc' = [proc EXCEPT ![s].sleepticks = n]
    BY <1>1, Zenon DEF sleepEnter
  <2>2. n \in Nat
    BY STCFAssumption
  <2>3. /\ nap' \in [Slots -> [n : Nat, ticks0 : Nat]]
        /\ nap'[s].n = n /\ nap'[s].ticks0 = ticks
        /\ \A q \in Slots \ {s} : nap'[q] = nap[q]
    BY <1>0, <2>1, <2>2, Zenon
  <2>4. /\ proc'[s].state = "RUNNING" /\ proc'[s].sleepticks = n
        /\ \A q \in Slots \ {s} : proc'[q] = proc[q]
    <3>1. PICK c \in CPUs : cpu[c] = s
      BY <1>1, Zenon DEF sleepEnter, Enters, In, On
    <3>2. proc[s].state = "RUNNING"
      BY <3>1, Constants, Zenon DEF Inv, Seats, State
    <3> QED  BY <1>0, <2>1, <3>2 DEF Table, Proc
  <2>5. label'[s] = "nap" /\ \A q \in Slots \ {s} : label'[q] = label[q]
    BY <1>0, <1>1, Zenon DEF sleepEnter, Goto
  <2>6. Napping(s)'
    BY <1>0, <2>3, <2>4, <2>5, Zenon DEF Napping, State
  <2>7. ASSUME NEW q \in Slots \ {s}, label'[q] \in InSleep PROVE Napping(q)'
    <3>1. Napping(q)
      BY <2>5, <2>7, Zenon DEF Countdown
    <3> QED  BY <1>0, <2>3, <2>4, <2>5, <3>1, Zenon DEF Napping, State
  <2> QED  BY <2>3, <2>6, <2>7, Zenon DEF Countdown
<1>2. CASE sleepStart(s)
  <2>1. label[s] = "nap" /\ Napping(s)
    BY <1>2, Zenon DEF sleepStart, At, In, Countdown, InSleep
  <2>2. nap[s].n \in Nat /\ nap[s].ticks0 \in Nat /\ nap' \in [Slots -> [n : Nat, ticks0 : Nat]]
        /\ \A q \in Slots \ {s} : nap'[q] = nap[q]
    BY <1>0, <1>2 DEF sleepStart, NoNap
  <2>3. CASE Sleep(s, proc, TicksChan) /\ Goto(s, "sleep") /\ nap' = nap
    <3> DEFINE tab == [proc EXCEPT ![s].chan = TicksChan]
    <3>1. Leave(tab, s, "SLEEPING")
      BY <2>3, Zenon DEF Sleep
    <3>2. /\ tab \in Table /\ tab[s].chan = TicksChan /\ tab[s].sleepticks = proc[s].sleepticks
          /\ \A q \in Slots \ {s} : tab[q] = proc[q]
      BY <1>0 DEF Table, Proc, TicksChan
    <3> HIDE DEF tab
    <3>3. /\ \A q \in Slots \ {s} : proc'[q] = proc[q]
          /\ proc'[s].state = "SLEEPING" /\ proc'[s].chan = TicksChan
          /\ proc'[s].sleepticks = proc[s].sleepticks
      BY <3>1, <3>2, LeaveKeeps
    <3>4. label'[s] = "sleep" /\ \A q \in Slots \ {s} : label'[q] = label[q]
      BY <1>0, <2>3, Zenon DEF Goto
    <3>5. Napping(s)'
      BY <1>0, <2>1, <2>2, <2>3, <3>3, <3>4 DEF Napping, State
    <3>6. ASSUME NEW q \in Slots \ {s}, label'[q] \in InSleep PROVE Napping(q)'
      <4>1. Napping(q)
        BY <3>4, <3>6, Zenon DEF Countdown
      <4> QED  BY <1>0, <2>2, <3>3, <3>4, <4>1, Zenon DEF Napping, State
    <3> QED  BY <2>2, <3>5, <3>6, Zenon DEF Countdown
  <2>4. CASE Goto(s, "user") /\ UNCHANGED <<proc, cpu, held>>
    <3>1. label'[s] = "user" /\ \A q \in Slots \ {s} : label'[q] = label[q]
      BY <1>0, <2>4, Zenon DEF Goto
    <3>2. ASSUME NEW q \in Slots, label'[q] \in InSleep PROVE Napping(q)'
      <4>1. q # s
        BY <3>1, <3>2 DEF InSleep
      <4>2. Napping(q)
        BY <3>1, <3>2, <4>1, Zenon DEF Countdown
      <4> QED  BY <1>0, <2>2, <2>4, <3>1, <4>1, <4>2, Zenon DEF Napping, State
    <3> QED  BY <2>2, <3>2, Zenon DEF Countdown
  <2> QED  BY <1>2, <2>3, <2>4, Zenon DEF sleepStart
<1>3. CASE sleepLoop(s)
  <2>1. State(s) = "RUNNING" /\ label[s] = "sleep"
    BY <1>3, Constants, Zenon DEF sleepLoop, At, In, On, Inv, Seats
  <2>2. proc[s].killed \/ ~ (ticks - nap[s].ticks0 < nap[s].n)
    BY <1>0, <2>1 DEF Countdown, Napping, InSleep
  <2>3. /\ proc' = proc \/ proc' = [proc EXCEPT ![s].sleepticks = -1]
        /\ Goto(s, "user")
        /\ nap' = [nap EXCEPT ![s] = IF label'[s] = "user" THEN NoNap ELSE @]
    BY <1>3, <2>2, Zenon DEF sleepLoop
  <2>4. /\ label'[s] = "user" /\ \A q \in Slots \ {s} : label'[q] = label[q]
    BY <1>0, <2>3, Zenon DEF Goto
  <2>5. /\ nap' \in [Slots -> [n : Nat, ticks0 : Nat]]
        /\ \A q \in Slots \ {s} : nap'[q] = nap[q]
    BY <1>0, <2>3, <2>4, Zenon DEF NoNap
  <2>6. \A q \in Slots \ {s} : proc'[q] = proc[q]
    BY <1>0, <2>3, Zenon DEF Table
  <2>7. ASSUME NEW q \in Slots, label'[q] \in InSleep PROVE Napping(q)'
    <3>1. q # s
      BY <2>4, <2>7 DEF InSleep
    <3>2. Napping(q)
      BY <2>4, <2>7, <3>1, Zenon DEF Countdown
    <3> QED  BY <1>0, <2>4, <2>5, <2>6, <3>1, <3>2, Zenon DEF Napping, State
  <2> QED  BY <2>5, <2>7, Zenon DEF Countdown
<1> QED  BY <1>2, <1>3, <1>1, Zenon

\* Dispatching does not shorten a sleep, nor do drivers, kills and the calls that
\* leave the table to its owner.
LEMMA otherNaps ==
  ASSUME Inv, Countdown, NEW s \in Slots, NEW c, NEW p,
         \/ scheduler(c) \/ wakeup \/ kill(s, p) \/ remain(s) \/ giveMark(s) \/ giveTarget(s)
  PROVE  Countdown'
<1>0. ticks' = ticks /\ nap' = nap /\ proc \in Table /\ label \in [Slots -> Labels]
  BY Zenon DEF scheduler, wakeup, kill, remain, giveMark, giveTarget, Inv, Types
<1>1. CASE scheduler(c)
  <2> SUFFICES ASSUME NEW q \in Slots, label'[q] \in InSleep PROVE Dozes(q)
    BY <1>0, DozeStep, Zenon
  <2>1. label[q] = label'[q]
    <3>1. label' = label
      BY <1>1, Zenon DEF scheduler
    <3> QED  BY <3>1, Zenon
  <2> DEFINE Consumed(r) == skip_target # None /\ r # skip_target
             Tab(r) == IF Consumed(r) THEN [proc EXCEPT ![skip_target].skip_once = FALSE] ELSE proc
  <2>2. PICK r \in Slots :
          /\ Best(r)
          /\ proc' = [Tab(r) EXCEPT ![r].state = "RUNNING", ![r].chan = None,
                                    ![r].t_last_scheduled = ticks]
    BY <1>1, Zenon DEF scheduler
  <2>3. proc[r].state = "RUNNABLE"
    BY <2>2, Zenon DEF Best, Pass, Runnable
  <2>4. /\ Tab(r) \in Table
        /\ Tab(r)[q].state = proc[q].state /\ Tab(r)[q].chan = proc[q].chan
        /\ Tab(r)[q].sleepticks = proc[q].sleepticks /\ Tab(r)[q].killed = proc[q].killed
    <3>1. skip_target \in Slots \cup {None} /\ \A x \in Slots : proc[x] \in Proc
      BY <1>0, Zenon DEF Inv, Types, Table
    <3>2. ASSUME NEW x \in Slots
          PROVE  LET new == [proc[x] EXCEPT !.skip_once = FALSE]
                 IN  /\ new \in Proc
                     /\ new.state = proc[x].state /\ new.chan = proc[x].chan
                     /\ new.sleepticks = proc[x].sleepticks /\ new.killed = proc[x].killed
      BY <3>1, Zenon DEF Proc
    <3>3. Tab(r) = proc \/ /\ skip_target \in Slots
                           /\ Tab(r) = [proc EXCEPT ![skip_target] = [proc[skip_target] EXCEPT !.skip_once = FALSE]]
      BY <1>0, <3>1, Zenon DEF Table
    <3> HIDE DEF Tab
    <3>4. Tab(r) \in Table
      BY <1>0, <3>1, <3>2, <3>3, Zenon DEF Table
    <3>5. Tab(r)[q] = proc[q] \/ Tab(r)[q] = [proc[q] EXCEPT !.skip_once = FALSE]
      BY <1>0, <3>3, Zenon DEF Table
    <3> QED  BY <3>2, <3>4, <3>5, Zenon
  <2> HIDE DEF Tab
  <2>5. /\ proc'[q].killed = proc[q].killed
        /\ q = r => proc'[q].state = "RUNNING"
        /\ q # r => /\ proc'[q].state = proc[q].state /\ proc'[q].chan = proc[q].chan
                    /\ proc'[q].sleepticks = proc[q].sleepticks
    BY <2>2, <2>4 DEF Table, Proc
  <2> QED  BY <2>1, <2>3, <2>5, Zenon DEF Dozes
<1>2. CASE wakeup
  <2> SUFFICES ASSUME NEW q \in Slots, label'[q] \in InSleep PROVE Dozes(q)
    BY <1>0, DozeStep, Zenon
  <2>1. label[q] = label'[q] /\ proc' = wakeup1(proc, Device)
    BY <1>2, Zenon DEF wakeup
  <2>2. proc[q].state = "SLEEPING" => proc[q].chan # Device
    BY <2>1 DEF Countdown, Napping, State, TicksChan, Device
  <2> QED  BY <1>0, <2>1, <2>2, WakeKeeps, Zenon DEF Dozes
<1>3. CASE kill(s, p)
  <2> SUFFICES ASSUME NEW q \in Slots, label'[q] \in InSleep PROVE Dozes(q)
    BY <1>0, DozeStep, Zenon
  <2>1. label[q] = label'[q]
    BY <1>3, Zenon DEF kill
  <2>2. PICK r \in Slots : proc' = [proc EXCEPT ![r].killed = TRUE,
                              ![r].state = IF @ = "SLEEPING" THEN "RUNNABLE" ELSE @]
    BY <1>3, Zenon DEF kill
  <2>3. /\ q # r => proc'[q] = proc[q]
        /\ q = r => /\ proc'[q].killed /\ proc'[q].chan = proc[q].chan
                    /\ proc'[q].sleepticks = proc[q].sleepticks
                    /\ proc'[q].state = IF proc[q].state = "SLEEPING" THEN "RUNNABLE"
                                        ELSE proc[q].state
    BY <1>0, <2>2 DEF Table, Proc
  <2> QED  BY <2>1, <2>3, Zenon DEF Dozes
<1>4. CASE remain(s) \/ giveMark(s) \/ giveTarget(s)
  <2> SUFFICES ASSUME NEW q \in Slots, label'[q] \in InSleep PROVE Dozes(q)
    BY <1>0, DozeStep, Zenon
  <2>1. label[q] = label'[q]
    BY <1>0, <1>4, Zenon DEF remain, giveMark, giveTarget, Goto, InSleep
  <2>2. /\ proc'[q].killed = proc[q].killed /\ proc'[q].state = proc[q].state
        /\ proc'[q].chan = proc[q].chan /\ proc'[q].sleepticks = proc[q].sleepticks
    BY <1>0, <1>4 DEF remain, giveMark, giveTarget, Table, Proc
  <2> QED  BY <2>1, <2>2, Zenon DEF Dozes
<1> QED  BY <1>1, <1>2, <1>3, <1>4, Zenon

\* Nor do the last stores of userinit().
LEMMA userinitNaps == ASSUME Inv, Countdown, NEW c, userinit(c) PROVE Countdown'
<1>0. /\ ticks' = ticks /\ nap' = nap /\ label' = label
      /\ proc \in Table /\ initproc \in Slots
  BY Constants, Zenon DEF userinit, Inv, Types
<1> SUFFICES ASSUME NEW q \in Slots PROVE Dozes(q)
  BY <1>0, DozeStep, Zenon
<1>1. /\ proc'[q].killed = proc[q].killed /\ proc'[q].state = proc[q].state
      /\ proc'[q].chan = proc[q].chan /\ proc'[q].sleepticks = proc[q].sleepticks
  BY <1>0 DEF userinit, Table, Proc
<1> QED  BY <1>0, <1>1, Zenon DEF Dozes

\* A process that sleeps is not in these calls, nor the slot they set up or free.
LEMMA callNaps ==
  ASSUME Inv, Countdown, NEW s \in Slots,
         \/ yield(s) \/ block(s) \/ allocproc(s) \/ forkFails(s) \/ forkChild(s)
  PROVE  Countdown'
<1>0. ticks' = ticks /\ nap' = nap /\ proc \in Table /\ label \in [Slots -> Labels]
      /\ np \in [Slots -> Slots \cup {None}]
  BY Zenon DEF yield, block, allocproc, forkFails, forkChild, Inv, Types
<1> SUFFICES ASSUME NEW q \in Slots, label'[q] \in InSleep
             PROVE  label[q] = label'[q] /\ proc'[q] = proc[q]
  BY <1>0, DozeStep, Zenon DEF Dozes
<1>1. CASE yield(s)
  <2>1. label[q] = label'[q] /\ q # s
    BY <1>0, <1>1, ZenonT(30) DEF yield, Goto, At, In, InSleep
  <2> QED  BY <1>0, <1>1, <2>1, LeaveKeeps DEF yield
<1>2. CASE block(s)
  <2>1. label[q] = label'[q] /\ q # s
    BY <1>0, <1>2, Zenon DEF block, Calls, At, In, InSleep
  <2>2. Device \in Int
    BY DEF Device
  <2> DEFINE tab == [proc EXCEPT ![s].chan = Device]
  <2>3. Leave(tab, s, "SLEEPING") /\ tab \in Table /\ tab[q] = proc[q]
    BY <1>0, <1>2, <2>1, <2>2, SleepFields DEF block, Sleep
  <2> HIDE DEF tab
  <2> QED  BY <2>1, <2>3, LeaveKeeps
<1>3. CASE allocproc(s)
  <2>1. label[q] = label'[q]
    <3>1. label' = [label EXCEPT ![s] = "fork"]
      BY <1>3, Zenon DEF allocproc, Goto
    <3>2. q # s
      BY <1>0, <3>1, Zenon DEF InSleep
    <3> QED  BY <1>0, <3>1, <3>2, Zenon
  <2>2. PICK r \in Slots :
          /\ proc[r].state = "UNUSED"
          /\ proc' = [proc EXCEPT ![r].state = "EMBRYO", ![r].pid = nextpid,
                                  ![r].sleepticks = -1, ![r].chan = None]
    BY <1>3, Zenon DEF allocproc
  <2>3. q # r
    BY <2>1, <2>2, Zenon DEF Countdown, Napping, State
  <2> QED  BY <1>0, <2>1, <2>2, <2>3, Zenon DEF Table
<1>4. CASE forkFails(s)
  <2>1. label[q] = label'[q] /\ label[s] = "fork"
    BY <1>0, <1>4, Zenon DEF forkFails, Goto, In, InSleep
  <2>2. np[s] \in Slots /\ proc[np[s]].state = "EMBRYO"
    BY <2>1, Zenon DEF Inv, Embryos, State
  <2>3. q # np[s]
    BY <2>1, <2>2, Zenon DEF Countdown, Napping, State
  <2> QED  BY <1>0, <1>4, <2>1, <2>2, <2>3, Zenon DEF forkFails, Table
<1>5. CASE forkChild(s)
  <2>1. label[s] = "fork"
    BY <1>5, Zenon DEF forkChild, At, In
  <2>2. np[s] \in Slots
    BY <2>1, Zenon DEF Inv, Embryos, State
  <2>3. PICK inherits \in BOOLEAN :
          /\ proc' = [proc EXCEPT ![np[s]].parent = s,
                        ![np[s]].t_remain = IF inherits THEN proc[s].t_remain ELSE STCF_INIT_REMAIN,
                        ![np[s]].t_last_scheduled = -1, ![np[s]].skip_once = FALSE,
                        ![np[s]].state = "RUNNABLE"]
          /\ label' = [label EXCEPT ![s] = IF inherits THEN "yield" ELSE "user",
                                    ![np[s]] = "user"]
    BY <1>5, Zenon DEF forkChild
  <2>4. q # np[s] /\ q # s
    BY <1>0, <2>2, <2>3, Zenon DEF InSleep
  <2>5. label[q] = label'[q]
    BY <1>0, <2>3, <2>4, Zenon
  <2>6. proc'[q] = proc[q]
    BY <1>0, <2>3, <2>4, Zenon DEF Table
  <2> QED  BY <2>5, <2>6, Zenon
<1> QED  BY <1>1, <1>2, <1>3, <1>4, <1>5, Zenon

\* exit() wakes parents, whose channels are slots, and wait() frees a zombie.
LEMMA endNaps ==
  ASSUME Inv, Countdown, NEW s \in Slots, exit(s) \/ wait(s)
  PROVE  Countdown'
<1>0. ticks' = ticks /\ nap' = nap /\ proc \in Table /\ label \in [Slots -> Labels]
  BY Zenon DEF exit, wait, Inv, Types
<1>1. CASE exit(s)
  <2> SUFFICES ASSUME NEW q \in Slots, label'[q] \in InSleep PROVE Dozes(q)
    BY <1>0, DozeStep, Zenon
  <2>1. label[q] = label'[q] /\ q # s
    BY <1>1, Zenon DEF exit, At, In, InSleep
  <2> DEFINE woken == wakeup1(proc, proc[s].parent)
             kids == {r \in Slots : woken[r].parent = s}
             adopted == [r \in Slots |->
                IF r \in kids THEN [woken[r] EXCEPT !.parent = initproc] ELSE woken[r]]
             tab == reparent(woken, s)
  <2>2. proc[s].parent \in Int /\ proc[s].parent # TicksChan /\ initproc \in Slots /\ initproc # TicksChan
    BY <1>0, Constants DEF Table, Proc, TicksChan, Slots, None
  <2>3. woken \in Table
    BY <1>0, <2>2, WakeFields, Zenon
  <2>4. woken[q] = proc[q]
    BY <1>0, <2>1, <2>2, WakeKeeps DEF Countdown, Napping, State
  <2> HIDE DEF woken
  <2>5. adopted \in Table /\ adopted[q].state = proc[q].state /\ adopted[q].chan = proc[q].chan
        /\ adopted[q].sleepticks = proc[q].sleepticks /\ adopted[q].killed = proc[q].killed
    BY <2>2, <2>3, <2>4 DEF Table, Proc
  <2>6. tab = IF \E r \in kids : woken[r].state = "ZOMBIE"
              THEN wakeup1(adopted, initproc) ELSE adopted
    BY Zenon DEF reparent
  <2>7. Leave(tab, s, "ZOMBIE")
    BY <1>1, Zenon DEF exit, woken
  <2> HIDE DEF adopted, kids, tab
  <2>8. tab \in Table /\ tab[q] = adopted[q]
    <3>1. initproc \in Int
      BY DEF initproc
    <3>2. wakeup1(adopted, initproc) \in Table
      BY <2>5, <3>1, WakeFields, Zenon
    <3>3. wakeup1(adopted, initproc)[q] = adopted[q]
      BY <2>1, <2>2, <2>5, WakeKeeps DEF Countdown, Napping, State
    <3> QED  BY <2>5, <2>6, <3>2, <3>3, Zenon
  <2>9. proc'[q] = tab[q]
    BY <2>1, <2>7, <2>8, LeaveKeeps
  <2> QED  BY <2>1, <2>5, <2>8, <2>9, Zenon DEF Dozes
<1>2. CASE wait(s)
  <2> SUFFICES ASSUME NEW q \in Slots, label'[q] \in InSleep
               PROVE  label[q] = label'[q] /\ proc'[q] = proc[q]
    BY <1>0, DozeStep, Zenon DEF Dozes
  <2>1. label[q] = label'[q] /\ q # s
    BY <1>0, <1>2, Zenon DEF wait, Goto, Calls, At, In, InSleep
  <2>2. CASE Sleep(s, proc, s)
    <3> DEFINE tab == [proc EXCEPT ![s].chan = s]
    <3>1. Leave(tab, s, "SLEEPING") /\ tab \in Table /\ tab[q] = proc[q]
      <4>1. s \in Int
        BY DEF Slots
      <4> QED  BY <1>0, <2>1, <2>2, <4>1, SleepFields DEF Sleep
    <3> HIDE DEF tab
    <3> QED  BY <2>1, <3>1, LeaveKeeps
  <2>3. CASE \E z \in Zombies(s) :
                proc' = [proc EXCEPT ![z].pid = 0, ![z].parent = None,
                                     ![z].killed = FALSE, ![z].state = "UNUSED"]
    <3>1. PICK z \in Zombies(s) :
                proc' = [proc EXCEPT ![z].pid = 0, ![z].parent = None,
                                     ![z].killed = FALSE, ![z].state = "UNUSED"]
      BY <2>3, Zenon
    <3>2. z \in Slots /\ proc[z].state = "ZOMBIE"
      BY Zenon DEF Zombies, Kids
    <3>3. q # z
      BY <2>1, <3>2, Zenon DEF Countdown, Napping, State
    <3> QED  BY <1>0, <2>1, <3>1, <3>2, <3>3, Zenon DEF Table
  <2>4. CASE proc' = proc
    BY <2>1, <2>4, Zenon
  <2> QED  BY <1>2, <2>2, <2>3, <2>4, Zenon DEF wait
<1> QED  BY <1>1, <1>2, Zenon

\* A sleep(n) ends with the tick after its n-th and only a kill ends it earlier,
\* however ticks, dispatches, kills and the calls of others interleave.
THEOREM SleepsOut == Spec => []NapLength
<1>1. Init => Countdown
  BY DEF Init, Countdown, NoNap, InSleep
<1>2. Inv /\ Countdown /\ [Next]_vars => Countdown'
  <2> SUFFICES ASSUME Inv, Countdown, [Next]_vars PROVE Countdown'
    BY Zenon
  <2>1. ASSUME NEW s \in Slots, syscall(s) \/ Bounded(s) PROVE Countdown'
    BY <2>1, otherNaps, sleepNaps, callNaps, endNaps, Zenon DEF syscall, Bounded
  <2>2. ASSUME NEW c \in CPUs, scheduler(c) PROVE Countdown'
    BY <2>2, Constants, otherNaps, Zenon
  <2>3. ASSUME wakeup PROVE Countdown'
    BY <2>3, Constants, otherNaps, Zenon
  <2>4. CASE UNCHANGED vars
    BY <2>4, DozeStep, Zenon DEF vars, Dozes
  <2>5. ASSUME NEW c \in CPUs, userinit(c) PROVE Countdown'
    BY <2>5, userinitNaps, Zenon
  <2> QED  BY <2>1, <2>2, <2>3, <2>4, <2>5, tickNaps, Zenon DEF Next
<1>3. Inv /\ Countdown => NapLength
  BY DEF Inv, Types, Countdown, Napping, NapLength, Live, State, InSleep
<1> QED  BY <1>1, <1>2, <1>3, Inductive, PTL DEF Spec

==============================================================================
