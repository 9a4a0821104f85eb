---------------------------------- MODULE Log ---------------------------------
(***************************************************************************)
(* The redo log of the xv6 kernel, log.c, on top of its buffer cache, with *)
(* crashes and recovery.  A step is a critical section of log.lock, the    *)
(* write of one disk block, or what a process does to a buffer it has      *)
(* locked.  A disk block is one sector, which the disk writes whole.       *)
(***************************************************************************)
EXTENDS Integers, Sequences, FiniteSets

CONSTANTS Procs,        \* the processes
          Boot,         \* the kernel thread that runs initlog()
          Blocks,       \* the blocks outside the log
          Vals, Zero,   \* contents of a block, and those mkfs wrote
          NotCached, NoBlock,
          MAXOPBLOCKS, LOGSIZE,
          nlog,         \* blocks of the log on disk, the header included
          OpBlocks      \* how many blocks an operation really writes

ASSUME LogAssumption ==
  /\ Boot \notin Procs /\ IsFiniteSet(Procs) /\ Zero \in Vals
  /\ NotCached \notin Vals /\ NoBlock \notin Blocks
  /\ MAXOPBLOCKS \in Nat \ {0} /\ LOGSIZE \in Nat /\ MAXOPBLOCKS <= LOGSIZE /\ nlog \in Nat
  /\ OpBlocks \in 0 .. MAXOPBLOCKS

VARIABLES home,         \* on disk: the blocks in their home locations
          logged,       \* on disk: the data blocks of the log
          head,         \* on disk: block[0 .. n-1] of the log header
          cache, dirty, \* in memory: buffers, and those with B_DIRTY
          lh,           \* in memory: block[0 .. n-1] of log.lh
          outstanding, committing,
          pc,           \* where each process is
          buf,          \* the buffer a process has locked to write it
          wrote,        \* the blocks its running operation has written
          tail          \* loop counter of write_log() and install_trans()

disk == <<home, logged, head>>
bcache == <<cache, dirty>>
log == <<lh, outstanding, committing>>
local == <<buf, wrote, tail>>
vars == <<disk, bcache, log, pc, local>>

All == Procs \cup {Boot}
Index == 1 .. LOGSIZE
Elems(s) == {s[i] : i \in 1 .. Len(s)}

\* The kernel has booted and is about to run initlog().
EmptyCache == [b \in Blocks |-> NotCached]
Booted == [p \in All |-> IF p = Boot THEN "read_head" ELSE "idle"]
NoBuf == [p \in Procs |-> NoBlock]
NoneWritten == [p \in Procs |-> {}]

Init ==
  /\ home = [b \in Blocks |-> Zero] /\ logged = [i \in Index |-> Zero] /\ head = <<>>
  /\ cache = EmptyCache /\ dirty = {}
  /\ lh = <<>> /\ outstanding = 0 /\ committing = FALSE
  /\ pc = Booted /\ buf = NoBuf /\ wrote = NoneWritten /\ tail = 1

Up == pc[Boot] = "up"
At(p, l) == pc[p] = l /\ (p = Boot \/ Up)
Goto(p, l) == pc' = [pc EXCEPT ![p] = l]

\* wakeup(&log), after which p goes on at l
Wakeup(p, l) ==
  pc' = [q \in All |-> IF q = p THEN l ELSE IF pc[q] = "asleep" THEN "begin" ELSE pc[q]]

\* The contents bread() returns
Bread(b) == IF cache[b] = NotCached THEN home[b] ELSE cache[b]

------------------------------------------------------------------------------
(* Operations                                                               *)

\* Mutant: begin_op counts the operations that run already, and not the one
\* that begins.
FitsOthers == Len(lh) + outstanding * MAXOPBLOCKS <= LOGSIZE

\* The reservation test of begin_op
Fits == Len(lh) + (outstanding + 1) * MAXOPBLOCKS <= LOGSIZE

\* One test of the loop of begin_op
begin_op(p) ==
  /\ At(p, "idle") \/ At(p, "begin")
  /\ \/ /\ ~ committing /\ Fits
        /\ outstanding' = outstanding + 1
        /\ wrote' = [wrote EXCEPT ![p] = {}]
        /\ Goto(p, "op")
     \/ /\ committing \/ ~ Fits
        /\ Goto(p, "asleep")
        /\ UNCHANGED <<outstanding, wrote>>
  /\ UNCHANGED <<disk, bcache, lh, committing, buf, tail>>

\* bread(), a store into the buffer, and the tests at the head of log_write(),
\* which take no lock.
Modify(p, b, v) ==
  /\ At(p, "op") /\ Cardinality(wrote[p] \cup {b}) <= OpBlocks
  /\ \A q \in Procs : buf[q] # b
  /\ cache' = [cache EXCEPT ![b] = v]
  /\ buf' = [buf EXCEPT ![p] = b]
  /\ Goto(p, IF Len(lh) >= LOGSIZE \/ Len(lh) >= nlog - 1 \/ outstanding < 1
             THEN "panic" ELSE "log_write")
  /\ UNCHANGED <<disk, dirty, log, wrote, tail>>

\* The locked part of log_write(), and brelse()
log_write(p) ==
  /\ At(p, "log_write")
  /\ lh' = IF buf[p] \in Elems(lh) THEN lh ELSE Append(lh, buf[p])
  /\ dirty' = dirty \cup {buf[p]}
  /\ wrote' = [wrote EXCEPT ![p] = @ \cup {buf[p]}]
  /\ buf' = [buf EXCEPT ![p] = NoBlock]
  /\ Goto(p, "op")
  /\ UNCHANGED <<disk, cache, outstanding, committing, tail>>

\* Mutant: an end that leaves others running wakes nobody.
end_opSilent(p) ==
  /\ At(p, "op")
  /\ outstanding' = outstanding - 1
  /\ wrote' = [wrote EXCEPT ![p] = {}]
  /\ committing' = (outstanding = 1)
  /\ tail' = IF outstanding = 1 THEN 1 ELSE tail
  /\ Goto(p, IF outstanding > 1 THEN "idle" ELSE IF lh = <<>> THEN "done" ELSE "write_log")
  /\ UNCHANGED <<disk, bcache, lh, buf>>

\* Mutant: commit() tests lh.n > 1.
end_opSkipsOne(p) ==
  /\ At(p, "op")
  /\ outstanding' = outstanding - 1
  /\ wrote' = [wrote EXCEPT ![p] = {}]
  /\ committing' = (outstanding = 1)
  /\ tail' = IF outstanding = 1 THEN 1 ELSE tail
  /\ IF outstanding > 1 THEN Wakeup(p, "idle")
     ELSE Goto(p, IF Len(lh) <= 1 THEN "done" ELSE "write_log")
  /\ UNCHANGED <<disk, bcache, lh, buf>>

\* end_op up to commit(), whose test of log.lh.n is the last of its steps
end_op(p) ==
  /\ At(p, "op")
  /\ outstanding' = outstanding - 1
  /\ wrote' = [wrote EXCEPT ![p] = {}]
  /\ \/ committing /\ Goto(p, "panic") /\ UNCHANGED <<committing, tail>>
     \/ /\ ~ committing /\ outstanding = 1
        /\ committing' = TRUE /\ tail' = 1
        /\ Goto(p, IF lh = <<>> THEN "done" ELSE "write_log")
     \/ /\ ~ committing /\ outstanding # 1
        /\ Wakeup(p, "idle")
        /\ UNCHANGED <<committing, tail>>
  /\ UNCHANGED <<disk, bcache, lh, buf>>

\* Mutant: the end of a commit wakes nobody.
end_commitSilent(p) ==
  /\ At(p, "done")
  /\ committing' = FALSE
  /\ Goto(p, "idle")
  /\ UNCHANGED <<disk, bcache, lh, outstanding, local>>

\* The end of end_op, after commit()
end_commit(p) ==
  /\ At(p, "done")
  /\ committing' = FALSE
  /\ Wakeup(p, "idle")
  /\ UNCHANGED <<disk, bcache, lh, outstanding, local>>

------------------------------------------------------------------------------
(* commit() and recover_from_log()                                          *)

\* One turn of the loop of write_log
write_log(p) ==
  /\ At(p, "write_log")
  /\ IF tail <= Len(lh)
     THEN /\ logged' = [logged EXCEPT ![tail] = Bread(lh[tail])]
          /\ tail' = tail + 1 /\ UNCHANGED pc
     ELSE Goto(p, "write_head") /\ UNCHANGED <<logged, tail>>
  /\ UNCHANGED <<home, head, bcache, log, buf, wrote>>

\* The commit point
write_head(p) ==
  /\ At(p, "write_head")
  /\ head' = lh
  /\ tail' = 1
  /\ Goto(p, "install_trans")
  /\ UNCHANGED <<home, logged, bcache, log, buf, wrote>>

\* One turn of the loop of install_trans.  bwrite() clears B_DIRTY.
install_trans(p) ==
  /\ At(p, "install_trans")
  /\ IF tail <= Len(lh)
     THEN /\ home' = [home EXCEPT ![lh[tail]] = logged[tail]]
          /\ cache' = [cache EXCEPT ![lh[tail]] = logged[tail]]
          /\ dirty' = dirty \ {lh[tail]}
          /\ tail' = tail + 1 /\ UNCHANGED pc
     ELSE Goto(p, "clear") /\ UNCHANGED <<home, bcache, tail>>
  /\ UNCHANGED <<logged, head, log, buf, wrote>>

\* log.lh.n = 0; write_head()
clear(p) ==
  /\ At(p, "clear")
  /\ lh' = <<>> /\ head' = <<>>
  /\ Goto(p, IF p = Boot THEN "up" ELSE "done")
  /\ UNCHANGED <<home, logged, bcache, outstanding, committing, local>>

\* Mutant: recovery erases the log before it has installed it.
read_headErases ==
  /\ pc[Boot] = "read_head"
  /\ lh' = head /\ head' = <<>>
  /\ tail' = 1
  /\ Goto(Boot, "install_trans")
  /\ UNCHANGED <<home, logged, bcache, outstanding, committing, buf, wrote>>

\* recover_from_log: read the header, then install it
read_head ==
  /\ pc[Boot] = "read_head"
  /\ lh' = head
  /\ tail' = 1
  /\ Goto(Boot, "install_trans")
  /\ UNCHANGED <<disk, bcache, outstanding, committing, buf, wrote>>

------------------------------------------------------------------------------
(* The buffer cache and the machine                                         *)

\* bread() of a block that is not cached
Load(b) ==
  /\ cache[b] = NotCached
  /\ cache' = [cache EXCEPT ![b] = home[b]]
  /\ UNCHANGED <<disk, dirty, log, pc, local>>

\* bget() recycles a buffer that is neither in use nor dirty.
Evict(b) ==
  /\ cache[b] # NotCached /\ b \notin dirty /\ \A p \in Procs : buf[p] # b
  /\ cache' = [cache EXCEPT ![b] = NotCached]
  /\ UNCHANGED <<disk, dirty, log, pc, local>>

\* Power fails; the disk keeps what was written.
Crash ==
  /\ cache' = EmptyCache /\ dirty' = {}
  /\ lh' = <<>> /\ outstanding' = 0 /\ committing' = FALSE
  /\ pc' = Booted /\ buf' = NoBuf /\ wrote' = NoneWritten /\ tail' = 1
  /\ UNCHANGED disk

------------------------------------------------------------------------------
Step(p) ==
  \/ begin_op(p) \/ log_write(p) \/ end_commit(p)
  \/ write_log(p) \/ write_head(p)

Recover(p) == install_trans(p) \/ clear(p)

Next ==
  \/ \E p \in Procs : Step(p) \/ end_op(p) \/ \E b \in Blocks, v \in Vals : Modify(p, b, v)
  \/ \E p \in All : Recover(p)
  \/ read_head
  \/ \E b \in Blocks : Load(b) \/ Evict(b)
  \/ Crash

Spec == Init /\ [][Next]_vars

\* While operations are running some operation ends, after finitely many
\* writes, and the disk answers.  Nobody has to begin one, and crashes need not
\* happen.
FairSpec ==
  /\ Spec
  /\ \A p \in Procs : WF_vars(Step(p) /\ pc[p] # "idle")
  /\ SF_vars(\E p \in Procs : end_op(p))
  /\ \A p \in All : WF_vars(Recover(p))
  /\ WF_vars(read_head)

------------------------------------------------------------------------------
(* What the disk holds                                                      *)

\* What recovery makes of the disk: the blocks in the header come from the log.
Durable ==
  [b \in Blocks |-> IF b \in Elems(head)
                    THEN logged[CHOOSE i \in 1 .. Len(head) : head[i] = b] ELSE home[b]]

\* What bread() returns.  Nobody reads before recovery is over.
Current ==
  [b \in Blocks |-> IF Up THEN Bread(b) ELSE Durable[b]]

Active == {p \in Procs : pc[p] \in {"op", "log_write", "panic"}}

AtomicDisk == INSTANCE AtomicDisk WITH current <- Current, durable <- Durable, active <- Active

------------------------------------------------------------------------------
(* Properties                                                               *)

Labels == {"idle", "begin", "asleep", "op", "log_write", "panic", "done",
           "write_log", "write_head", "install_trans", "clear", "read_head", "up"}

DataOK ==
  /\ home \in [Blocks -> Vals] /\ logged \in [Index -> Vals]
  /\ head \in Seq(Blocks) /\ lh \in Seq(Blocks) /\ Len(head) <= LOGSIZE /\ Len(lh) <= LOGSIZE
  /\ cache \in [Blocks -> Vals \cup {NotCached}] /\ dirty \subseteq Blocks
  /\ tail \in 1 .. LOGSIZE + 1

ControlOK ==
  /\ outstanding \in Nat /\ committing \in BOOLEAN
  /\ pc \in [All -> Labels] /\ buf \in [Procs -> Blocks \cup {NoBlock}]
  /\ wrote \in [Procs -> SUBSET Blocks]

\* The types of the disk and of the kernel's variables; log.lh and the header
\* on disk never hold more than LOGSIZE block numbers.
TypeOK == DataOK /\ ControlOK

\* What running operations may still add to the log: for each of them, what it
\* reserved and has not used.
Left == {x \in Active \X (1 .. MAXOPBLOCKS) : x[2] > Cardinality(wrote[x[1]])}

\* The kernel panics only in log_write, and only when the log is really full:
\* the running operations have used all that begin_op reserved for them, or all
\* but one block when the log on disk has LOGSIZE blocks, since its header takes
\* one of them.  Whatever operations overlap, none runs out of log because of
\* another's, no operation ends during a commit and nobody calls log_write
\* outside an operation.
NoPanic ==
  \A p \in Procs : pc[p] = "panic" =>
     buf[p] # NoBlock /\ (Left = {} \/ Cardinality(Left) + nlog <= LOGSIZE + 1)

Committing == {"write_log", "write_head", "install_trans", "clear", "done"}

\* "The logging system only commits when there are no FS system calls active":
\* one process commits at a time, and none is in an operation then.
CommitsAlone ==
  \A p \in Procs : pc[p] \in Committing =>
     committing /\ outstanding = 0 /\ Active = {} /\
     \A q \in Procs : pc[q] \in Committing => q = p

\* No operation waits in begin_op for a wakeup that has already happened:
\* somebody is left to send one.
NoLostWakeup ==
  \A p \in Procs : Up /\ pc[p] = "asleep" => committing \/ outstanding > 0

\* end_op keeps its word: when no operation and no commit is in progress,
\* everything written so far survives a crash.
Saved == Up /\ outstanding = 0 /\ ~ committing => Durable = Current

\* Updates of an operation reach the disk all together or not at all, whenever
\* the machine stops, in a commit or in recovery from an earlier stop.
ImplementsDisk == AtomicDisk!Spec

\* No process sleeps in begin_op for ever: again and again nobody is asleep
\* there, because a wakeup on the log wakes all who are, unless the kernel has
\* panicked.
Woken == []<>((\A p \in Procs : pc[p] # "asleep") \/ \E p \in Procs : pc[p] = "panic")

------------------------------------------------------------------------------
(* The inductive invariant behind the properties                            *)

\* Who is where: recovery runs alone, operations and the commit exclude each
\* other, and only a process in log_write has a buffer.
Phases ==
  /\ pc[Boot] \in {"up", "read_head", "install_trans", "clear"}
  /\ ~ Up => ~ committing /\ \A p \in Procs : pc[p] = "idle"
  /\ \A p \in Procs : pc[p] \notin {"up", "read_head"}
  /\ outstanding = Cardinality(Active)
  /\ \A p \in Procs : pc[p] \in Committing => committing
  /\ \A p, q \in Procs : pc[p] \in Committing /\ pc[q] \in Committing => p = q
  /\ committing => Active = {}
  /\ \A p \in Procs : pc[p] = "log_write" => buf[p] \in Blocks
  /\ \A p \in Procs : pc[p] \notin {"log_write", "panic"} => buf[p] = NoBlock

\* The log has room for what running operations may still add to it.
Room ==
  /\ \A p \in Active : wrote[p] \subseteq Elems(lh)
  /\ \A p \in Procs : pc[p] = "log_write" =>
                        Cardinality(wrote[p] \cup {buf[p]}) <= MAXOPBLOCKS
  /\ Len(lh) + Cardinality(Left) <= LOGSIZE

Installs(p) == pc[p] \in {"install_trans", "clear"}

\* The log and the cache: the blocks of the log are pinned until they are
\* installed, and any other buffer agrees with the disk.
Cached ==
  /\ \A i, j \in 1 .. Len(lh) : lh[i] = lh[j] => i = j
  /\ \A i, j \in 1 .. Len(head) : head[i] = head[j] => i = j
  /\ \A b \in dirty : cache[b] # NotCached
  /\ \A p \in Procs : buf[p] \in Blocks => cache[buf[p]] # NotCached
  /\ \A b \in Blocks : b \notin dirty /\ (\A p \in Procs : buf[p] # b)
                         => cache[b] \in {NotCached, home[b]}
  /\ ~ Up => dirty = {}
  /\ Up => \A b \in dirty : \E i \in 1 .. Len(lh) :
              lh[i] = b /\ \A p \in Procs : Installs(p) => i >= tail
  /\ Up => \A i \in 1 .. Len(lh) :
              (\A p \in Procs : Installs(p) => i >= tail) => lh[i] \in dirty

\* How far a commit or recovery has come.
Progress ==
  /\ Up /\ (\A p \in Procs : ~ Installs(p)) => head = <<>>
  /\ \A p \in All : Installs(p) => head = lh
  /\ Up /\ outstanding = 0 /\ ~ committing => lh = <<>>
  /\ \A p \in Procs : pc[p] = "done" => lh = <<>>
  /\ \A p \in All : pc[p] \in {"write_log", "install_trans"} => tail <= Len(lh) + 1
  /\ \A p \in All : pc[p] = "clear" => tail = Len(lh) + 1
  /\ \A p \in Procs : pc[p] \in {"write_log", "write_head", "install_trans", "clear"} =>
        \A i \in 1 .. Len(lh) : (pc[p] = "write_log" => i < tail) => logged[i] = Bread(lh[i])
  /\ \A p \in All : Installs(p) =>
        \A i \in 1 .. Len(lh) : i < tail => home[lh[i]] = logged[i]

IInv == TypeOK /\ Phases /\ Room /\ Cached /\ Progress /\ NoLostWakeup

==============================================================================
