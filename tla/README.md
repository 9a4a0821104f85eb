# A TLA+ verification of the systems-programming portfolio

The repository holds four C programs: a FUSE file system (`01`), a Unix shell
(`02`), an xv6 kernel with a shortest-time-to-completion-first (STCF) scheduler
(`03`) and two simulations on hand-written synchronisation primitives (`04`).
This directory models them in TLA+, checks the models with TLC on small
instances, and proves the safety properties of seven components with TLAPS for
every value of their constants.

`PROJECT.json` maps every definition to the lines it stands for, and lists the
runs, the mutants, the findings, the hazards and the theorems.

## 1. The parts of the system

| Part (sources) | Module | What is hard about it |
|---|---|---|
| 04 bounded buffer (`sync_utils.c`, `bounded_buffer.c`) | `BoundedBuffer`, `Snacks` | between `sem_wait` and `sem_post` a slot is counted nowhere; slots are never cleared; the queue is destroyed while cooks run |
| 04 readers-writers lock (`readers_writers.c`) | `RWLock`, `Schedule` | a writer tests, unlocks and then sleeps; woken writers are overtaken; `schedule_version++` has no mutex |
| 03 redo log (`log.c`) | `Log` | the machine stops between any two disk writes, in recovery too; space is reserved before it is used; sleepers and wakeups |
| 03 sleep locks, buffer cache, disk driver (`sleeplock.c`, `bio.c`, `ide.c`) | `BufCache` | two misses at once; recycling; the interrupt against queueing |
| 03 inodes, directories, file system calls (`fs.c`, `sysfile.c`, `file.c`) | `Inodes` | `iput` against lookup; link counts and blocks inside log transactions; lock order |
| 03 open files and pipes (`file.c`, `pipe.c`, `sysfile.c`) | `Files` | reference counts across fork, exit and failing calls; both ends of a ring asleep |
| 03 process table and scheduler (`proc.c`, `sysproc.c`, `trap.c`) | `STCF` | two CPUs; time charged lazily; naps counted down by the timer |
| 03 spinlocks and interrupts (`spinlock.c` and its users) | `Spinlocks` | lock order across files, handlers and context switches |
| 02 command lines, aliases, history (`wsh.c`, `hash_map.c`, `dynamic_array.c`) | `Shell` | quotes and bars; aliases of aliases; long sequences of lines |
| 02 pipelines (`run_pipeline` of `wsh.c`) | `Pipeline` | forgotten descriptors, failed forks, waiting in order |
| 01 wfs (`wfs.c`) | `WFS` | the mapped image keeps whatever stores were made when the process dies; calls that fail half way |

How they interact. In `04` the main threads (`snacks_run`, `schedule_run`)
start and join the threads that use the primitives: `Snacks` extends
`BoundedBuffer` and `Schedule` extends `RWLock`. In `03` sleep, wakeup and the
scheduler are under everything. File system calls (`Inodes`) run between
`begin_op` and `end_op`; the log (`Log`) groups them into commits and promises
`AtomicDisk`, which is what `Inodes` builds on; the log writes through the
buffer cache (`BufCache`), which promises `BlockStore`. In `02` the shell
(`Shell`, which extends `Pipeline`) runs pipelines. In `01` the image that mkfs
made is the state that FUSE calls work on. The four programs do not interact.

| Abstract specification | Promises | Implemented by |
|---|---|---|
| `BoundedFIFO` | a queue of bounded length, each item handed to one taker | `BoundedBuffer` |
| `WriterPriority` | readers enter only while no writer waits; a writer is alone | `RWLock` |
| `AtomicDisk` | a current and a durable contents; a commit, possible only when no operation is active, makes them equal; a crash goes back to the durable one | `Log` |
| `BlockStore` | blocks with one content, changed only by the process that has the block | `BufCache` |
| `FileTree` | a tree of names in which every step changes one node | `WFS` |

## 2. How the models correspond to the code

**BoundedBuffer, Snacks.** One action per statement of `bb_put` and `bb_take`
(`sem_wait`, lock, store or load, advance, unlock, `sem_post`); `pc` says where
a thread is. `empty`, `full` and `m` are the semaphores and the mutex, `heap`
the trays allocated and not freed. A put takes effect in `BoundedFIFO` when
`tail` is advanced, a take when `head` is. `Snacks` adds the main thread:
`bb_init` may fail, threads are spawned, the attendees joined, `bb_destroy`
frees the ring, clears the pointer to it and the process exits; a thread that
touches the ring after the free may fault, after the pointer is cleared it does.

**RWLock, Schedule.** One action per statement or critical section of the
mutex; `schedule_version++` is a load and a store. `Schedule` spawns and joins
all threads, then calls `rw_destroy`.

**Log.** A step is a critical section of `log.lock`, the write of one disk
block, or what a process does with a buffer it has locked. `home`, `logged` and
`head` are on disk and survive `Crash`; everything else is in memory. `cache`
and `dirty` are the buffer cache as the log relies on it: a buffer with
`B_DIRTY` is not recycled. Sectors are written whole.

**BufCache.** A step is a critical section of `bcache.lock`, of a sleep lock or
of `idelock`. `lru` is the list of buffers, most recently used first; `bget`
finds the block (`Cached`) or takes the last buffer of the list that is neither
used nor dirty (`Recyclable`). `device` is the command the disk works on; `Done`
is the disk (external), `ideintr` its interrupt. `bget` panics when there is no
buffer to recycle; the model does nothing then.

**Inodes.** A step is what a process does up to the release of an inode's lock
or to the next lock it must wait for; everything in such a step touches only
what its locks protect, plus one access under `icache.lock`. `todo` is the rest
of a call, `reg` its inode pointers, `fs` the cache and the blocks as calls see
them, `disk` what a crash leaves. A call that meets a resource limit the code
panics at (no inode, no block, no cache slot) stops the model there. Three history
fields of `fs` record what the properties except: `lost` the unlinked inodes that
nobody will free, `astray` the inodes that a path reached by the `..` of a removed
directory, `buried` what was put into a removed directory.

**Files.** A step is what a process does under one spinlock. `mine` holds the
files that local variables of a call point to, `io` its end of a pipe and the
bytes to go. Byte number s of a pipe has the value s, so that order and loss
show. `nread` and `nwrite` count modulo `WRAP`, as the code's do modulo 2^32.
`mute` remembers that bytes were stored and no reader was told.

**STCF.** What the kernel does under `ptable.lock` is one action; a call that
takes the lock several times is as many actions, and `label` says where its
kernel thread resumes. `boot` is the CPU that is still in `main`: init is RUNNABLE
before `userinit` has stored its last fields, and another CPU may run it meanwhile.
`sys_sleep` reads the clock under `tickslock` before it sleeps, so no tick comes
between the two (label `nap`); what else holding `tickslock` does is the subject of
`Spinlocks`. The history variables `due` (the estimate last stored, less one for
every tick the process was RUNNING), `late` (the processes whose estimate was stored
in a later tick than that of their dispatch) and `nap` are counted without looking
at the code's own accounting; no guard reads them.

**Spinlocks.** A kernel path is the sequence of its acquires, releases and
context switches, taken from the functions that use spinlocks; a CPU executes
the path of the thread it runs, and an interrupt puts the handler's path in
front. `acquire` is `pushcli` and a loop of `xchg`; the panics of `acquire`,
`release`, `popcli` and `sched` are explicit. `STCF` is a constant: the
Makefile builds either scheduler.

**Shell, Pipeline.** `ReadLine` takes a line, given as the command the user
wanted or as a slip; `split_pipeline` and `parseline_no_subst` work on it
character by character, where a run of ordinary characters counts as one. One
action per outcome of `run_line`. `Pipeline` is the loop over pipes, forks,
closes and waits, one call per action, and each child's `dup2`, closes and run.
Pipes, `fork`, `waitpid` and the commands are external. `pids[i]` of a stage
whose fork failed is never assigned in the code, so it holds any value of
`Garbage`. The ghosts `wanted`, `typed` and `meant` record what the user asked.

**WFS.** The image is mapped `MAP_SHARED`, so a store is in the file at once
and a step is a store, or several in a row that nobody can tell apart. When the
process dies the stores made so far stay. Blocks have `PerBlock` cells; a cell
is a directory entry, a block pointer or a piece of a file.

## 3. Runs

Every property of a passing run has a mutant: a plausible slip in the modelled
code (a dropped guard, a missing wakeup, a wrong order) under which TLC finds
the property violated.

| Run | Distinct states | Checks | Shows |
|---|---|---|---|
| `snacks` | 218,035 | `SlotAccounting` `OneOwner` `ImplementsFIFO` `Ends` | no interleaving loses a slot, overruns the ring, hands out or frees a tray twice; the ring is a FIFO queue; the simulation ends |
| `schedule` | 51,972 | `Exclusion` `NoLostWakeup` `UnusedAtDestroy` `ImplementsBoard` `Returns` | a writer is alone, no wakeup and no update is lost, the lock has writer priority, and it is destroyed when nobody uses it |
| `log` | 303,040 | `Saved` `NoPanic` `NoLostWakeup` `ImplementsDisk` `Woken` | operations are atomic with respect to crashes, also in recovery, and durable after the last `end_op`; `log_write` panics only when the operations in progress have used up what `begin_op` reserved; sleepers wake up unless there was a panic |
| `bufcache` | 298,974 | `Shared` `Awaited` `ImplementsStore` | a block has one buffer and one holder, whoever sleeps has somebody to wake it, and cache, queue and disk are a store of blocks |
| `inodes` | 412,299 | `RefsCounted` `BlocksOwned` `NoPanic` `CrashConsistent` | references, blocks and link counts stay right when calls overlap, and the disk that is booted from is consistent; inodes are lost, and free ones reached, only in the ways described below |
| `files` | 501,555 | `RefsCounted` `EndsCounted` `RingIntact` `NoLostWakeup` | reference counts and open ends agree with who holds them at every step, the ring keeps its bytes, nobody sleeps for what has happened |
| `stcf` | 885,587 | `OnOneCPU` `Adopted` `WaitMissesNone` `Charged` `NapLength` | table and CPUs agree, nobody is orphaned, `wait` misses no exit, lazy charging is exact for estimates that were not stored late, nobody is asleep in `sleep(n)` after its ticks are over or woken before, unless killed |
| `locks_rr` | 1,527,979 | `NoPanic` `NoDeadlock` | the round-robin kernel keeps a lock order, and no handler meets a lock its CPU holds |
| `wsh` | 245,167 | `TwoHolders` `Outcome` `ParsedAsWanted` `Remembered` `Returns` | lines are parsed as meant, aliases and history stay what the user made them, end of file and SIGPIPE arrive, nothing is lost, and every line ends: with the prompt, with `exit`, or with the fault described below |
| `wfs` | 657,167 | `Accounted` `NoDangling` `ImplementsTree` | calls that fail half way lose no inode, block or link; every store is one change of a file tree; what the root leads to is in use and has one owner even after the process died |

### Findings

Two runs end in a violation: the code does not do what its own comment or test
says. `PROJECT.json` quotes the lines.

| Run | Property | What happens |
|---|---|---|
| `locks_stcf` | `NoDeadlock` | in an STCF build `tickslock` and `ptable.lock` are taken in both orders; two CPUs can spin for ever |
| `inodes_deadlock` | `NoDeadlock` | `create` and `unlink` call `iput` on the directory, which locks it, while they hold the child; another process that has the directory and wants the child waits for ever |

### Other behaviour met while modelling

The models show these as well; no property forbids them. Where a property would,
it names the exception and allows no other.

* `04`: `snacks_run` destroys the queue while the cooks still use it; only the
  exit of the process ends them, or a fault does (`Fault`). Trays put and not taken are lost.
  The semaphore the writers sleep on is called binary and can reach 2; the loop
  around it makes that harmless.
* `log.c`: operations of `MAXOPBLOCKS` blocks, which `begin_op` admits, overrun
  the log that mkfs made, since its `LOGSIZE` blocks include the header
  (`log.c:218`, `param.h:11`). `log_write` also panics when the log is full and
  the block it is given is already in it, since it tests before it looks. `NoPanic`
  says that these panics come only when what was reserved is used up, but for the
  one block of the header.
* `bio.c`: with `NBUF` equal to `LOGSIZE` a full log can leave no buffer to
  recycle, and `bget` panics (`bio.c:92`). The second `sleep` of the loop in
  `iderw` is never taken.
* `fs.c`: two processes that drop the last two references of an unlinked inode
  can both see `ref == 2`, and nobody frees it or its blocks (`fs.c:118-120` and
  `fs.c:326-328` say that `iput` does); two `chdir("/")` out of a removed directory
  are enough. A crash leaves unlinked inodes that were in use in the same way.
  `BlocksOwned` says that no others are lost. A file made in a directory that is removed between
  `nameiparent` and `ilock` is buried with it (`buried`).
* `fs.c:310`: the `..` of a removed directory that is still in use may name an
  inode that has been freed since, and a path that follows it panics with "ilock: no
  type". The run reaches this; `NoPanic` allows the panic only for an inode that was
  reached that way. Not in the run is `link` with a new name that ends in `.` or
  `..`: `dirlink` then calls `iput` on the directory itself, which it has locked, or
  on its parent, against the lock order (`NoDeadlock` is violated without these).
* `pipe.c:86-88`: a writer that is killed after it filled the ring returns
  without waking readers. `NoLostWakeup` of `Files` names this exception
  (`mute`).
* `proc.c`: `remain` and `exec2` store an estimate and leave the time of the last
  dispatch alone, so that ticks run before the call are charged to the new estimate
  (`proc.h:57` calls it the remaining time); `userinit` clears the time of the
  dispatch of an init that may be running. `Charged` excepts these (`late`). A fork
  that fails after its child was killed leaves `killed` set in the slot.
* `proc.c`: on two CPUs a second `give_cpu` overwrites `skip_target`, and a
  dispatch elsewhere can use up a skip; the timer of an STCF build does not
  yield; `sleep(n)` lasts until the tick after its n-th; `kill` reaches a slot
  that is being set up.
* `wsh.c:311`: an alias with an empty value, used alone, makes the shell look up
  a null command name (`Fault` of `Shell`). After a failed `pipe` the
  descriptors made so far and the argument arrays are not freed; after a failed
  fork the value of an unassigned `pids[i]` decides whom the shell waits for, and
  the failure noted in `rc` is overwritten (`wsh.c:636`, `wsh.c:687`). A quote
  inside a word hides the bars behind it from `split_pipeline` (`wsh.c:176-178`),
  though for `parseline_no_subst` it opens nothing.
* `wfs.c`: after a death between the store of an entry and of the directory's
  size (`wfs.c:461`), a name can later be there twice; two FUSE threads between
  the scan and the set of a bitmap bit (`wfs.c:235`) take the same inode. Hence
  `Accounted` and `ImplementsTree` are about a process that never died, and the
  run has one thread.

### Bounds

* `Snacks`: two cooks, three attendees, two slots, four trays: the ring wraps
  around, fills and empties, with two threads of a kind between `sem_wait` and
  the mutex. `MaxTrays` stops the cooks, which the code never does.
* `Schedule`: two readers with two rounds and three writers: a writer asleep,
  one awake and one overtaking them are there at once.
* `Log`: three processes, two blocks, operations of one block in a log of three,
  the ratio of `MAXOPBLOCKS` to `LOGSIZE` in `param.h`. The log and its header are
  of the size mkfs gives them and an operation may use all it reserved, so that the
  log fills up and the panics are reached. The number of crashes is not bounded.
* `BufCache`: two processes, four blocks, three buffers, one of which the log may
  keep dirty: buffers are shared, recycled and waited for.
* `Inodes`: two processes, five inodes, six blocks, one direct and one indirect
  block; twelve calls on four names, `..` among them, of which `MaxCalls` (three)
  are made, and `MaxCrashes` (one). At first both processes are in a directory that
  has been removed since they entered it; after a crash they are in the root.
* `Files`: three processes, three files, three descriptors, two pages, a ring of
  two bytes whose counters wrap at four, writes of one and three bytes, and
  `MaxCalls` (six) calls besides `exit`: tables and rings fill, a write takes
  several pieces.
* `STCF`: three slots, two CPUs, `MaxPid` 3, `MaxTicks` 2 and `MaxCalls` 2: a slot
  is used twice, a nap of one tick ends. At the last tick the model may stop. TLC
  is given a `VIEW` that leaves out what is overwritten before it is read: fields of
  free slots, and the time of dispatch of a process that is not running.
* `Spinlocks`: two CPUs, two processes; locks that are used in the same way (log,
  pipes, sleep locks) are one.
* `Shell`: `MaxLines` (three) lines of 29 kinds, the first `PipeBy` (two) of which
  may be pipelines of three stages over pipes of one item (a first, a middle and a
  last stage are what `run_pipeline` tells apart; section 4 has any length); up to
  `MaxFails` (two) failures; three alias names in two buckets.
* `WFS`: two names, four inodes, three blocks of two cells, one direct block and
  the indirect one: directories and the disk fill up, calls fail at each
  allocation; of the writes one leaves a hole and succeeds, one ends past the
  largest file, and one goes from the direct block into the indirect ones, for which
  the image always lacks the last block; `MaxCrashes` (one).

`CHECK_DEADLOCK FALSE` is said only where the modelled program really may stop:
`Shell` after `exit` or the last line, `Files` and `Inodes` after their last call.
In the other runs deadlock is checked.

### Fairness

* `Snacks`: weak fairness of every thread: they are runnable POSIX threads, and
  `sem_wait` and the mutex admit a waiter that stays enabled. That is enough
  because attendees take a fixed number of snacks and cooks stop at a full ring.
* `Schedule`: also strong fairness of taking the mutex. Readers that are refused
  unlock and lock again in a loop, and a mutex that always went back to one of
  them would starve a writer; the code relies on the scheduler not doing that.
* `Log`: weak fairness of every process inside a call, of recovery and of the
  disk's answers; strong fairness of `end_op`: an operation makes finitely many
  writes and ends. Nobody has to begin an operation.
* `Shell`: weak fairness of the shell inside a line and of every child; the user
  need not type.

## 4. Theorems

TLC checks the instances of section 3; the theorems hold for every value of the
constants that satisfies the module's `ASSUME`, which TLC evaluates in each run.
They cover every safety property of the runs `snacks`, `schedule`, `log`,
`stcf`, `bufcache` and `files`, and those of `wsh` but `ParsedAsWanted`. Each component has an inductive invariant: it
holds initially, every action preserves it, and it implies the properties. A
proof that an action preserves it has one step per conjunct that the action can
disturb. `CountingLemmas` holds the facts about cardinalities that several
components need.

**Bounded buffer** (`BoundedBufferProofs`). Assumed: finite, disjoint sets of
cooks and attendees, at least one slot. `IInv` of `BoundedBuffer` is
`TypeOK /\ SlotAccounting /\ MutualExclusion /\ Handover`. `SlotAccounting`
counts every slot once, in a semaphore or in the hands of a thread; this alone
excludes overrun and underrun, but to preserve it one thread at a time must
advance `head` or `tail` (`MutualExclusion`). `Refinement` shows that the buffer
implements `BoundedFIFO`: only the advances of `tail` and `head` change the
abstract queue, and `Handover` says that the trays they publish are the right
ones. `OwnedOnce` needs `Trays` besides: no two places hold the same tray
(`Distinct`), and there are as many trays as places that hold one (`Tallied`).
`RunsThreads` carries all of this over to `Snacks`, where the main thread runs
beside the others, and `AttendeesGone` says what `bb_destroy` finds.

**Readers-writers lock** (`RWLockProofs`). Assumed: finite, disjoint sets of
readers and writers, at least one round each. `IInv` of `RWLock` ties the
counters to the sets of threads they count (`Counted`) and the mutex to its
critical sections (`MutexHeld`), and adds `Exclusion`, `NoLostWakeup` and
`StableBoard`. `NoLostUpdate` needs `UpdatesCounted`: `schedule_version` is the
number of iterations whose store has happened. `Refinement` shows that the lock
implements `WriterPriority`; `RunsThreads` and `DestroyedUnused` are about
`schedule_run`.

**Redo log** (`LogProofs`). Assumed: finitely many processes and
`0 < MAXOPBLOCKS <= LOGSIZE`; the number of crashes is not bounded. `IInv` of
`Log` is the conjunction of

* `Phases`: recovery runs alone, operations and the commit exclude each other,
  `outstanding` is the number of operations;
* `Room`: the log has space for what every running operation may still add
  (`Left`, a set of pairs, so that sums are cardinalities);
* `Cached`: no block is twice in the log, logged blocks are pinned until they
  are installed, and any other buffer agrees with the disk;
* `Progress`: how far a commit or recovery has come, and which blocks of the log
  and of the home locations are in place then;
* `NoLostWakeup` and `TypeOK`.

The proof first describes what each action changes (`Effects`), and every later
lemma works from that description. `PanicsOnlyWhenFull` says when the panics of
`log_write` can come: when `Left` has run out, or is no larger than what the log on
disk lacks to `LOGSIZE` blocks and a header. It follows from `Room` and `Overfull`:
whoever panicked had found the log full. From it and
`OpBlocks < MAXOPBLOCKS`, `LOGSIZE + OpBlocks + 1 < nlog + MAXOPBLOCKS` follows
`SmallOperations`: operations that stay that far below their reservation never
panic. `Refinement` shows that
the log implements `AtomicDisk`: the write of the header is the commit, and
installation and recovery change neither what a reader sees nor what a crash
leaves.

**Buffer cache** (`BufCacheProofs`). Assumed: finitely many processes, a value to
start from, any number of buffers (none at all included). `Inv` says that a
process in the cache has a buffer (`Places`), that a block is in one buffer and
`refcnt` counts its users (`Unique`, `Counted`), that the holder of a sleep lock
is past `acquiresleep` and whoever sleeps for it has a holder (`Holders`), what
`B_VALID` and `B_DIRTY` mean while the holder is in `iderw` (`Flags`), that the
queue holds the buffers waited for, each once (`Queued`), that the disk works for
its head with what is in it (`Transfer`), and that a clean buffer has what is on
the disk (`Clean`). `CacheImplementsStore` maps a block to its buffer's data if it
is valid and to the disk otherwise, and to the holder of the buffer; recycling is
a stutter because it takes only clean buffers that nobody uses.

**Open files and pipes** (`FilesProofs`). Assumed: finitely many processes, and a
`WRAP` larger than `PIPESIZE` and divisible by it, as 2^32 is by 512. `Inv` is

* `RefsCounted`: `ref` of a file is the number of descriptors and variables of
  running calls that hold it;
* `Held`: which variables hold a file at each point of a call, and that the files
  of a pipe in the making have no other holder; `Forks`: a child in the making
  has some of its parent's descriptors;
* `Represented`: an end of a pipe is open exactly when one file, or one call of
  `pipeclose` under way, stands for it; `Using`: whoever reads or writes has a
  descriptor of that end, so that nobody closes it meanwhile;
* `Rings`: the ring holds at most `PIPESIZE` bytes, the right ones;
* `Sleepers`: from its test on until it is woken, a sleeper's reason to sleep
  stands.

`FilesCounted`, `EndsRepresented`, `RingsIntact` and `SleepersWoken` follow, and
so does `ClosesOpenFiles`: `fileclose` never panics (`file.c:63`). Rings need
arithmetic modulo `WRAP`: the counters give the number of bytes because it stays
below `WRAP` (`CongNear`), and the cell of a byte does not jump when a counter
wraps because `PIPESIZE` divides `WRAP` (`CongFactor`).

**Process table** (`STCFProofs`). Assumed: at least one slot; any set of CPUs. `Inv`
says that CPUs and RUNNING processes are paired (`Seats`), that a process in
`fork` has an embryo of its own (`Embryos`), that pids are below `nextpid` and
unique (`Pids`), that init is always there and nobody's parent is gone
(`Families`), and contains `WaitMissesNone` and `Clock`, which adds to `Charged`
that a running process was scheduled in the past. `due` is counted tick by tick and
knows nothing of dispatches, so that `ChargedExactly` compares two independent
accounts; it says nothing of the processes in `late`. Since fork is two critical
sections, `Embryos` is what keeps a slot from being given away between them.
`SleepsOut` needs `Countdown` besides, which relates `sleepticks` to the ticks
that a nap still has to last.

**Shell and pipelines** (`ShellProofs`). Assumed: pipelines of `nseg >= 2` stages,
pipes that hold at least one item, any hash function from names to buckets;
nothing about lines, commands and aliases, and nothing about what an unassigned
`pids[i]` holds. `Inv` is

* `Types`, and `Rest`: between two pipelines nothing is left of the last one;
* `Descriptors`: the ends of pipes that the shell and each child have, by where
  they are in `run_pipeline`;
* `Stages`: a stage has a process and its number in `pids[]` unless its fork
  failed;
* `Reaped`: which children the loop of waits has reaped, and whose status it
  keeps;
* `Drained`: a copying command that has ended has used up its input, and the
  command before it has ended.

`TwoHolders` follows from `Descriptors`. `Outcome` needs the others: a wait on an
unassigned `pids[i]` can reap a child early, never late, and of copying commands
each ends only after the one before it. `Remembers` has an invariant of
its own: `Aliases` (each name that means something is in its bucket once, with that
value, and no bucket has anything else) and `History` (the array holds the lines
typed before this one, and they fit its capacity). The lemmas `GetIs`, `PutIs` and `DeleteIs` say what
`hm_get`, `hm_put` and `hm_delete` do to a bucket of any length.

### What is only model-checked

* Liveness: `Ends` of `snacks`, `Woken` of `log`, `Returns` of `schedule` and of
  `wsh`. The installed provers handle neither fairness nor `ENABLED`.
* `Spinlocks`: an inductive invariant would have to say, for every position in
  every path, which locks are held there and whether interrupts are off; that is
  the enumeration TLC makes, and the paths are given, not parameters.
* `Inodes`: the invariant would relate the rest of every running call (`todo`) to
  the references and locks it holds, and link counts to sums over directories.
* `WFS`, and `ParsedAsWanted` of `wsh`: lookup along a path, what the root reaches,
  splitting and parsing a line are recursive functions. What these compute for every
  input needs induction over data, which the installed provers cannot do.

## 5. What is not modelled

* xv6 address spaces (`vm.c`, `exec.c`, and what `clone` shares) and the allocator
  of pages, apart from running out of pages in `Files`.
* The console's line editing, `umalloc.c`, user programs and tests of xv6, boot
  code, interrupt controllers, and the layout that mkfs computes.
* Errors that the disk reports, and `memide.c`, the driver for a disk in memory.
* `getattr`, `read`, `readdir`, `statfs`, the colour attribute and the time stamps
  of wfs: they format what the modelled lookup finds, or set one field.
* The memory and names of processes in `STCF`; the size of the buffer cache in
  `Log`, which `BufCache` has.
* Tick counters and `t_remain` at the ends of their integer ranges: the model's
  integers are unbounded, and the edge is 2^31 ticks away.
* A failing `rw_init`, whose result `schedule_run` ignores.
* Printing, logging and random delays: interleaving covers the delays.
