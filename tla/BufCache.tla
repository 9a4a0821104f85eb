-------------------------------- MODULE BufCache -------------------------------
(***************************************************************************)
(* The buffer cache of the xv6 kernel, bio.c, with the sleep-locks of its  *)
(* buffers, sleeplock.c, and the request queue of the disk driver, ide.c.  *)
(* A process reads a block, may change it and write it or leave it to the  *)
(* log, and releases it.  The disk is external.                            *)
(***************************************************************************)
EXTENDS Integers, Sequences, FiniteSets

CONSTANTS Procs, Nobody,
          Blocks, NoBlock, Vals,
          NBUF,
          LOGSIZE       \* bound on the blocks that log.c keeps dirty in the cache

ASSUME BufCacheAssumption ==
  /\ NBUF \in Nat /\ LOGSIZE \in Nat /\ IsFiniteSet(Procs) /\ Vals # {}
  /\ NoBlock \notin Blocks /\ Nobody \notin Procs

VARIABLES buf, lru,     \* the buffers, and their list, the most recently used first
          idequeue, disk,
          device,       \* the command the disk works on, or its interrupt
          pc, b         \* of each process: where it is, and its buffer

vars == <<buf, lru, idequeue, disk, device, pc, b>>

Bufs == 1 .. NBUF
AnyVal == CHOOSE v \in Vals : TRUE
NoCommand == [op |-> "none", blockno |-> NoBlock, data |-> AnyVal]

\* binit()
Init ==
  /\ disk = [k \in Blocks |-> AnyVal]
  /\ buf = [i \in Bufs |-> [blockno |-> NoBlock, refcnt |-> 0, valid |-> FALSE, dirty |-> FALSE,
                            data |-> AnyVal, holder |-> Nobody]]
  /\ lru = [i \in Bufs |-> NBUF + 1 - i]
  /\ idequeue = <<>> /\ device = NoCommand
  /\ pc = [p \in Procs |-> "idle"] /\ b = [p \in Procs |-> 0]

Goto(p, l) == pc' = [pc EXCEPT ![p] = l]
\* wakeup(): sleepers in state l on buffer i go on.
wakeup(now, from, to, i) ==
  [p \in Procs |-> IF now[p] = from /\ b[p] = i THEN to ELSE now[p]]

------------------------------------------------------------------------------
(* bio.c                                                                    *)

Cached(k) == {i \in Bufs : buf[i].blockno = k}

\* Mutant: buffers the log has changed are recycled.
RecyclableDirty == {j \in Bufs : buf[lru[j]].refcnt = 0}
\* The places in the list of the buffers that bget() may recycle
Recyclable == {j \in Bufs : buf[lru[j]].refcnt = 0 /\ ~ buf[lru[j]].dirty}

\* bget() up to the release of bcache.lock: the buffer of the block, or the one
\* used least recently.  It panics, here it does nothing, if there is no buffer.
\* What a recycled buffer held is not looked at again.
bget(p) ==
  /\ pc[p] = "idle"
  /\ \E k \in Blocks, i \in Bufs :
       /\ \/ i \in Cached(k) /\ buf' = [buf EXCEPT ![i].refcnt = @ + 1]
          \/ /\ Cached(k) = {}
             /\ \E j \in Recyclable : i = lru[j] /\ \A m \in Recyclable : m <= j
             /\ buf' = [buf EXCEPT ![i] = [@ EXCEPT !.blockno = k, !.valid = FALSE,
                                                    !.data = AnyVal, !.refcnt = 1]]
       /\ b' = [b EXCEPT ![p] = i]
  /\ Goto(p, "acquiresleep")
  /\ UNCHANGED <<lru, idequeue, disk, device>>

\* Mutant: a woken process does not test again.
acquiresleepOnce(p) ==
  /\ pc[p] \in {"acquiresleep", "woken"}
  /\ IF pc[p] = "acquiresleep" /\ buf[b[p]].holder # Nobody THEN Goto(p, "asleep") /\ UNCHANGED buf
     ELSE /\ buf' = [buf EXCEPT ![b[p]].holder = p]
          /\ Goto(p, IF buf[b[p]].valid THEN "held" ELSE "iderw")
  /\ UNCHANGED <<lru, idequeue, disk, device, b>>

\* acquiresleep(), and the test of bread()
acquiresleep(p) ==
  /\ pc[p] \in {"acquiresleep", "woken"}
  /\ IF buf[b[p]].holder # Nobody THEN Goto(p, "asleep") /\ UNCHANGED buf
     ELSE /\ buf' = [buf EXCEPT ![b[p]].holder = p]
          /\ Goto(p, IF buf[b[p]].valid THEN "held" ELSE "iderw")
  /\ UNCHANGED <<lru, idequeue, disk, device, b>>

\* The holder changes the block, then bwrite()
bwrite(p) ==
  /\ pc[p] = "held"
  /\ \E v \in Vals : buf' = [buf EXCEPT ![b[p]] = [@ EXCEPT !.data = v, !.dirty = TRUE]]
  /\ Goto(p, "iderw")
  /\ UNCHANGED <<lru, idequeue, disk, device, b>>

\* The holder changes the block, then log_write() sets B_DIRTY.
log_write(p) ==
  /\ pc[p] = "held"
  /\ buf[b[p]].dirty \/ Cardinality({i \in Bufs : buf[i].dirty}) < LOGSIZE
  /\ \E v \in Vals : buf' = [buf EXCEPT ![b[p]] = [@ EXCEPT !.data = v, !.dirty = TRUE]]
  /\ UNCHANGED <<lru, idequeue, disk, device, pc, b>>

\* brelse(): releasesleep()
releasesleep(p) ==
  /\ pc[p] = "held"
  /\ buf' = [buf EXCEPT ![b[p]].holder = Nobody]
  /\ pc' = wakeup([pc EXCEPT ![p] = "brelse"], "asleep", "woken", b[p])
  /\ UNCHANGED <<lru, idequeue, disk, device, b>>

\* The list with its j-th buffer moved to the front
ToFront(j) == [m \in Bufs |-> IF m = 1 THEN lru[j] ELSE IF m <= j THEN lru[m - 1] ELSE lru[m]]

\* brelse(): the rest of it, under bcache.lock
brelse(p) ==
  /\ pc[p] = "brelse" /\ Goto(p, "idle") /\ b' = [b EXCEPT ![p] = 0]
  /\ buf' = [buf EXCEPT ![b[p]].refcnt = @ - 1]
  /\ IF buf[b[p]].refcnt = 1 THEN \E j \in Bufs : lru[j] = b[p] /\ lru' = ToFront(j) ELSE lru' = lru
  /\ UNCHANGED <<idequeue, disk, device>>

------------------------------------------------------------------------------
(* ide.c                                                                    *)

\* idestart(): the disk gets the data of a write at once.
Command(i) == [op |-> IF buf[i].dirty THEN "write" ELSE "read", blockno |-> buf[i].blockno, data |-> buf[i].data]

\* iderw(), up to sleep()
iderw(p) ==
  /\ pc[p] = "iderw" /\ Goto(p, "iowait")
  /\ idequeue' = Append(idequeue, b[p])
  /\ device' = IF idequeue = <<>> THEN Command(b[p]) ELSE device
  /\ UNCHANGED <<buf, lru, disk, b>>

\* iderw(), after sleep(): the test of the flags
iderwTest(p) ==
  /\ pc[p] = "iotest"
  /\ Goto(p, IF buf[b[p]].valid /\ ~ buf[b[p]].dirty THEN "held" ELSE "iowait")
  /\ UNCHANGED <<buf, lru, idequeue, disk, device, b>>

\* The disk carries out its command.
Done ==
  /\ device.op \in {"read", "write"}
  /\ device' = [device EXCEPT !.op = "irq", !.data = IF device.op = "read" THEN disk[device.blockno] ELSE @]
  /\ disk' = IF device.op = "write" THEN [disk EXCEPT ![device.blockno] = device.data] ELSE disk
  /\ UNCHANGED <<buf, lru, idequeue, pc, b>>

\* Mutant: the next request is not started.
ideintrStops ==
  LET i == Head(idequeue) IN
    /\ device.op = "irq" /\ idequeue' = Tail(idequeue)
    /\ buf' = [buf EXCEPT ![i] = [@ EXCEPT !.data = IF buf[i].dirty THEN buf[i].data ELSE device.data,
                                           !.valid = TRUE, !.dirty = FALSE]]
    /\ pc' = wakeup(pc, "iowait", "iotest", i)
    /\ device' = NoCommand
    /\ UNCHANGED <<lru, disk, b>>

\* ideintr()
ideintr ==
  LET i == Head(idequeue) IN
    /\ device.op = "irq" /\ idequeue' = Tail(idequeue)
    /\ buf' = [buf EXCEPT ![i] = [@ EXCEPT !.data = IF buf[i].dirty THEN buf[i].data ELSE device.data,
                                           !.valid = TRUE, !.dirty = FALSE]]
    /\ pc' = wakeup(pc, "iowait", "iotest", i)
    /\ device' = IF idequeue' = <<>> THEN NoCommand ELSE Command(Head(idequeue'))
    /\ UNCHANGED <<lru, disk, b>>

------------------------------------------------------------------------------
Step(p) ==
  \/ bget(p) \/ acquiresleep(p) \/ bwrite(p) \/ log_write(p) \/ releasesleep(p) \/ brelse(p)
  \/ iderw(p) \/ iderwTest(p)

Next == ideintr \/ Done \/ \E p \in Procs : Step(p)

Spec == Init /\ [][Next]_vars

------------------------------------------------------------------------------
(* Properties                                                               *)

Users(i) == {p \in Procs : b[p] = i}
Inside(i) == {p \in Users(i) : pc[p] \in {"iderw", "iowait", "iotest", "held"}}

\* A block is in one buffer only, refcnt counts the processes that use it, and
\* whoever is past acquiresleep() is the only one: no buffer is recycled under a
\* process that waits for it.
Shared ==
  /\ \A i, j \in Bufs : buf[i].blockno = buf[j].blockno /\ buf[i].blockno # NoBlock => i = j
  /\ \A i \in Bufs :
       /\ buf[i].refcnt = Cardinality(Users(i))
       /\ Inside(i) = {buf[i].holder} \ {Nobody}

\* The disk works on the first request, whoever waits for the disk is in the
\* queue, and whoever sleeps for a buffer has somebody to release it.
Awaited ==
  /\ device.op = "none" <=> idequeue = <<>>
  /\ idequeue # <<>> => device.blockno = buf[Head(idequeue)].blockno
  /\ \A p \in Procs :
       /\ pc[p] = "iowait" => \E n \in DOMAIN idequeue : idequeue[n] = b[p]
       /\ pc[p] = "asleep" => buf[b[p]].holder # Nobody

\* A block is what its buffer says once it is read, and belongs to its holder.
Read(k) == {i \in Cached(k) : buf[i].valid}
Content(k) == IF Read(k) = {} THEN disk[k] ELSE buf[CHOOSE i \in Read(k) : TRUE].data
Owner(k) == IF Read(k) = {} THEN Nobody ELSE buf[CHOOSE i \in Read(k) : TRUE].holder

Store == INSTANCE BlockStore WITH
  content <- [k \in Blocks |-> Content(k)], owner <- [k \in Blocks |-> Owner(k)]

\* Blocks have one content, which changes only when a process that alone has
\* the block stores something: reading, recycling, writing out and the order of
\* the requests do not show.
ImplementsStore == Store!Spec

==============================================================================
