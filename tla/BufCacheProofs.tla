---------------------------- MODULE BufCacheProofs ----------------------------
(***************************************************************************)
(* The buffer cache is sound for any number of processes, buffers and      *)
(* blocks: a block is in one buffer, a buffer has one holder, whoever      *)
(* sleeps has somebody to wake it, and cache, request queue and disk       *)
(* together implement a store of blocks.                                   *)
(***************************************************************************)
EXTENDS BufCache, CountingLemmas

Labels == {"idle", "acquiresleep", "asleep", "woken", "iderw", "iowait", "iotest", "held", "brelse"}
Past == {"iderw", "iowait", "iotest", "held"}

Entry == [blockno : Blocks \cup {NoBlock}, refcnt : Nat, valid : BOOLEAN, dirty : BOOLEAN,
          data : Vals, holder : Procs \cup {Nobody}]
Commands == [op : {"none", "read", "write", "irq"}, blockno : Blocks \cup {NoBlock}, data : Vals]

Types ==
  /\ buf \in [Bufs -> Entry] /\ lru \in [Bufs -> Bufs] /\ idequeue \in Seq(Bufs)
  /\ disk \in [Blocks -> Vals] /\ device \in Commands
  /\ pc \in [Procs -> Labels] /\ b \in [Procs -> Bufs \cup {0}]

\* A process that is not idle has a buffer, which has a block.
Places ==
  \A p \in Procs : IF pc[p] = "idle" THEN b[p] = 0 ELSE b[p] \in Bufs /\ buf[b[p]].blockno \in Blocks

\* A block is in one buffer, and refcnt counts the users of a buffer.
Unique == \A i, j \in Bufs : buf[i].blockno = buf[j].blockno /\ buf[i].blockno # NoBlock => i = j
Counted == \A i \in Bufs : buf[i].refcnt = Cardinality(Users(i))

\* The holder of a sleep-lock is past acquiresleep(), nobody else is, and
\* whoever sleeps for it has a holder to release it.
Holders ==
  /\ \A p \in Procs : pc[p] \in Past => buf[b[p]].holder = p
  /\ \A p \in Procs : pc[p] = "asleep" => buf[b[p]].holder # Nobody
  /\ \A i \in Bufs : buf[i].holder # Nobody => b[buf[i].holder] = i /\ pc[buf[i].holder] \in Past

\* What B_VALID and B_DIRTY say while the holder is in iderw() and after it
Flags ==
  /\ \A i \in Bufs : (buf[i].dirty => buf[i].valid) /\ (buf[i].valid => buf[i].blockno \in Blocks)
  /\ \A p \in Procs :
       /\ pc[p] = "held" => buf[b[p]].valid
       /\ pc[p] = "iotest" => buf[b[p]].valid /\ ~ buf[b[p]].dirty
       /\ pc[p] \in {"iderw", "iowait"} => buf[b[p]].dirty \/ ~ buf[b[p]].valid

\* The queue holds the buffers of the processes that wait for the disk, each once.
Queued ==
  /\ \A m, n \in 1 .. Len(idequeue) : idequeue[m] = idequeue[n] => m = n
  /\ \A n \in 1 .. Len(idequeue) : \E p \in Procs : b[p] = idequeue[n] /\ pc[p] = "iowait"
  /\ \A p \in Procs : pc[p] = "iowait" => \E n \in 1 .. Len(idequeue) : idequeue[n] = b[p]

\* The disk works for the first buffer of the queue, with what is in it.
Working(i) ==
  /\ device.blockno = buf[i].blockno
  /\ device.op = "read" => ~ buf[i].dirty
  /\ device.op = "write" => buf[i].dirty /\ device.data = buf[i].data
  /\ device.op = "irq" => disk[device.blockno] = IF buf[i].dirty THEN buf[i].data ELSE device.data
Transfer ==
  /\ device.op = "none" <=> idequeue = <<>>
  /\ idequeue # <<>> => Working(idequeue[1])

\* A buffer that is not dirty has what is on the disk.
Clean == \A i \in Bufs : buf[i].valid /\ ~ buf[i].dirty => buf[i].data = disk[buf[i].blockno]

Inv == Types /\ Places /\ Unique /\ Counted /\ Holders /\ Flags /\ Queued /\ Transfer /\ Clean

------------------------------------------------------------------------------
(* Facts about the constants and about kinds of steps                       *)

\* There is a value to start from, and 0 is no buffer.
LEMMA Constants ==
  /\ AnyVal \in Vals /\ 0 \notin Bufs /\ Nobody \notin Procs /\ NoBlock \notin Blocks
  /\ IsFiniteSet(Procs)
<1>1. PICK v : v \in Vals
  BY BufCacheAssumption, Zenon
<1>2. AnyVal \in Vals
  BY <1>1, Zenon DEF AnyVal
<1> QED  BY <1>2, BufCacheAssumption DEF Bufs

\* The users of a buffer are finitely many.
LEMMA UsersFinite == \A i : IsFiniteSet(Users(i)) /\ IsFiniteSet(Users(i)')
<1>1. \A i : Users(i) \subseteq Procs /\ Users(i)' \subseteq Procs
  BY Zenon DEF Users
<1> QED  BY <1>1, Constants, FS_Subset, Zenon

\* A process in the cache has a buffer, and so has a buffer in the queue.
LEMMA HasBuffer ==
  ASSUME Inv, NEW p \in Procs, pc[p] # "idle"
  PROVE  b[p] \in Bufs /\ buf[b[p]] \in Entry /\ buf[b[p]].blockno \in Blocks
  BY Zenon DEF Inv, Types, Places

\* An update of one field of a buffer
LEMMA SetHolder ==
  ASSUME buf \in [Bufs -> Entry], NEW i \in Bufs, NEW h \in Procs \cup {Nobody},
         buf' = [buf EXCEPT ![i].holder = h]
  PROVE  /\ buf' \in [Bufs -> Entry] /\ \A j \in Bufs \ {i} : buf'[j] = buf[j]
         /\ buf'[i].holder = h
         /\ buf'[i].blockno = buf[i].blockno /\ buf'[i].refcnt = buf[i].refcnt
         /\ buf'[i].valid = buf[i].valid /\ buf'[i].dirty = buf[i].dirty
         /\ buf'[i].data = buf[i].data
  BY Zenon DEF Entry

\* An assignment to refcnt leaves the other fields and buffers alone.
LEMMA SetRefcnt ==
  ASSUME buf \in [Bufs -> Entry], NEW i \in Bufs, NEW n \in Nat,
         buf' = [buf EXCEPT ![i].refcnt = n]
  PROVE  /\ buf' \in [Bufs -> Entry] /\ \A j \in Bufs \ {i} : buf'[j] = buf[j]
         /\ buf'[i].refcnt = n
         /\ buf'[i].blockno = buf[i].blockno /\ buf'[i].holder = buf[i].holder
         /\ buf'[i].valid = buf[i].valid /\ buf'[i].dirty = buf[i].dirty
         /\ buf'[i].data = buf[i].data
  BY Zenon DEF Entry

\* A store to the data sets B_DIRTY and leaves the rest alone.
LEMMA SetData ==
  ASSUME buf \in [Bufs -> Entry], NEW i \in Bufs, NEW v \in Vals,
         buf' = [buf EXCEPT ![i] = [@ EXCEPT !.data = v, !.dirty = TRUE]]
  PROVE  /\ buf' \in [Bufs -> Entry] /\ \A j \in Bufs \ {i} : buf'[j] = buf[j]
         /\ buf'[i].data = v /\ buf'[i].dirty
         /\ buf'[i].blockno = buf[i].blockno /\ buf'[i].holder = buf[i].holder
         /\ buf'[i].valid = buf[i].valid /\ buf'[i].refcnt = buf[i].refcnt
<1> DEFINE new == [buf[i] EXCEPT !.data = v, !.dirty = TRUE]
<1>1. buf[i] \in Entry
  BY Zenon
<1>2. /\ new \in Entry /\ new.data = v /\ new.dirty
      /\ new.blockno = buf[i].blockno /\ new.holder = buf[i].holder
      /\ new.valid = buf[i].valid /\ new.refcnt = buf[i].refcnt
  BY <1>1, Zenon DEF Entry
<1>3. buf' = [buf EXCEPT ![i] = new]
  BY Zenon
<1> HIDE DEF new
<1> QED  BY <1>2, <1>3, Zenon

\* bget()'s recycling replaces the block number and clears B_VALID.
LEMMA Recycle ==
  ASSUME buf \in [Bufs -> Entry], NEW i \in Bufs, NEW k \in Blocks,
         buf' = [buf EXCEPT ![i] = [@ EXCEPT !.blockno = k, !.valid = FALSE,
                                             !.data = AnyVal, !.refcnt = 1]]
  PROVE  /\ buf' \in [Bufs -> Entry] /\ \A j \in Bufs \ {i} : buf'[j] = buf[j]
         /\ buf'[i].blockno = k /\ ~ buf'[i].valid /\ buf'[i].refcnt = 1
         /\ buf'[i].dirty = buf[i].dirty /\ buf'[i].holder = buf[i].holder
<1> DEFINE new == [buf[i] EXCEPT !.blockno = k, !.valid = FALSE, !.data = AnyVal, !.refcnt = 1]
<1>1. buf[i] \in Entry /\ AnyVal \in Vals
  BY Constants, Zenon
<1>2. /\ new \in Entry /\ new.blockno = k /\ ~ new.valid /\ new.refcnt = 1
      /\ new.dirty = buf[i].dirty /\ new.holder = buf[i].holder
  BY <1>1, Zenon DEF Entry
<1>3. buf' = [buf EXCEPT ![i] = new]
  BY Zenon
<1> HIDE DEF new
<1> QED  BY <1>2, <1>3, Zenon

\* The end of a transfer: a buffer to be written keeps its data, one to be read gets the disk's.
LEMMA Transferred ==
  ASSUME buf \in [Bufs -> Entry], NEW i \in Bufs, NEW v \in Vals,
         buf' = [buf EXCEPT ![i] = [@ EXCEPT !.data = IF buf[i].dirty THEN buf[i].data ELSE v,
                                             !.valid = TRUE, !.dirty = FALSE]]
  PROVE  /\ buf' \in [Bufs -> Entry] /\ \A j \in Bufs \ {i} : buf'[j] = buf[j]
         /\ buf'[i].data = (IF buf[i].dirty THEN buf[i].data ELSE v)
         /\ buf'[i].valid /\ ~ buf'[i].dirty
         /\ buf'[i].blockno = buf[i].blockno /\ buf'[i].holder = buf[i].holder
         /\ buf'[i].refcnt = buf[i].refcnt
<1> DEFINE new == [buf[i] EXCEPT !.data = IF buf[i].dirty THEN buf[i].data ELSE v, !.valid = TRUE, !.dirty = FALSE]
<1>1. buf[i] \in Entry
  BY Zenon
<1>2. /\ new \in Entry /\ new.data = (IF buf[i].dirty THEN buf[i].data ELSE v)
      /\ new.valid /\ ~ new.dirty
      /\ new.blockno = buf[i].blockno /\ new.holder = buf[i].holder
      /\ new.refcnt = buf[i].refcnt
  BY <1>1, Zenon DEF Entry
<1>3. buf' = [buf EXCEPT ![i] = new]
  BY Zenon
<1> HIDE DEF new
<1> QED  BY <1>2, <1>3, Zenon

------------------------------------------------------------------------------
(* Operations                                                               *)

\* Steps that move no reference keep the counts.
LEMMA CountKept ==
  ASSUME Counted, b' = b, \A i \in Bufs : buf'[i].refcnt = buf[i].refcnt
  PROVE  Counted'
  BY Zenon DEF Counted, Users

\* acquiresleep(): the process sleeps while there is a holder, or becomes it.
LEMMA acquireStep == ASSUME Inv, NEW p \in Procs, acquiresleep(p) PROVE Inv'
<1>1. /\ pc[p] \in {"acquiresleep", "woken"} /\ pc[p] # "idle" /\ pc[p] \notin Past
      /\ UNCHANGED <<lru, idequeue, disk, device, b>>
  BY Zenon DEF acquiresleep, Past
<1>2. b[p] \in Bufs /\ buf[b[p]] \in Entry /\ buf[b[p]].blockno \in Blocks
  BY <1>1, HasBuffer, Zenon
<1>3. pc \in [Procs -> Labels] /\ buf \in [Bufs -> Entry]
  BY Zenon DEF Inv, Types
<1>4. CASE buf[b[p]].holder # Nobody
  <2>1. buf' = buf /\ pc' = [pc EXCEPT ![p] = "asleep"]
    BY <1>4, Zenon DEF acquiresleep, Goto
  <2>2. /\ pc' \in [Procs -> Labels] /\ pc'[p] = "asleep" /\ \A q \in Procs \ {p} : pc'[q] = pc[q]
    BY <1>3, <2>1, Zenon DEF Labels
  <2>3. Types'
    BY <1>1, <2>1, <2>2, Zenon DEF Inv, Types
  <2>4. Places' /\ Unique'
    BY <1>1, <1>2, <2>1, <2>2, Zenon DEF Inv, Places, Unique
  <2>5. Counted'
    BY <1>1, <2>1, CountKept, Zenon DEF Inv
  <2>6. Holders'
    <3>1. \A q \in Procs : pc'[q] \in Past => q # p
      BY <2>2, Zenon DEF Past
    <3>2. \A i \in Bufs : buf[i].holder # Nobody => buf[i].holder \in Procs /\ buf[i].holder # p
      BY <1>1, <1>3 DEF Inv, Holders, Entry
    <3> QED  BY <1>1, <1>4, <2>1, <2>2, <3>1, <3>2 DEF Inv, Holders
  <2>7. Flags'
    BY <1>1, <2>1, <2>2, Zenon DEF Inv, Flags
  <2>8. Queued'
    BY <1>1, <2>1, <2>2 DEF Inv, Queued
  <2>9. Transfer' /\ Clean'
    BY <1>1, <2>1, Zenon DEF Inv, Transfer, Working, Clean
  <2> QED  BY <2>3, <2>4, <2>5, <2>6, <2>7, <2>8, <2>9, Zenon DEF Inv
<1>5. CASE buf[b[p]].holder = Nobody
  <2>1. /\ buf' = [buf EXCEPT ![b[p]].holder = p]
        /\ pc' = [pc EXCEPT ![p] = IF buf[b[p]].valid THEN "held" ELSE "iderw"]
    BY <1>5, Zenon DEF acquiresleep, Goto
  <2>2. /\ pc' \in [Procs -> Labels] /\ pc'[p] = (IF buf[b[p]].valid THEN "held" ELSE "iderw")
        /\ pc'[p] \in Past /\ \A q \in Procs \ {p} : pc'[q] = pc[q]
    BY <1>3, <2>1, Zenon DEF Labels, Past
  <2>3. /\ buf' \in [Bufs -> Entry] /\ \A j \in Bufs \ {b[p]} : buf'[j] = buf[j]
        /\ buf'[b[p]].holder = p
        /\ buf'[b[p]].blockno = buf[b[p]].blockno /\ buf'[b[p]].refcnt = buf[b[p]].refcnt
        /\ buf'[b[p]].valid = buf[b[p]].valid /\ buf'[b[p]].dirty = buf[b[p]].dirty
        /\ buf'[b[p]].data = buf[b[p]].data
    BY <1>2, <1>3, <2>1, SetHolder, Zenon
  <2>4. \A j \in Bufs : /\ buf'[j].blockno = buf[j].blockno /\ buf'[j].refcnt = buf[j].refcnt
                        /\ buf'[j].valid = buf[j].valid /\ buf'[j].dirty = buf[j].dirty
                        /\ buf'[j].data = buf[j].data
    BY <2>3, Zenon
  <2>5. Types'
    BY <1>1, <2>2, <2>3, Zenon DEF Inv, Types
  <2>6. Places'
    BY <1>1, <1>2, <2>2, <2>4 DEF Inv, Places, Past
  <2>7. Unique' /\ Counted'
    BY <1>1, <2>4, CountKept DEF Inv, Unique
  <2>8. Holders'
    <3>1. \A q \in Procs \ {p} : pc[q] \in Past \cup {"asleep"} => b[q] \in Bufs /\ b[q] # b[p]
      BY <1>5, Constants, HasBuffer DEF Inv, Holders, Past
    <3>2. \A i \in Bufs \ {b[p]} : buf[i].holder # Nobody => buf[i].holder \in Procs /\ buf[i].holder # p
      BY <1>1, <1>3 DEF Inv, Holders, Entry
    <3>3. \A q \in Procs : pc'[q] \in Past => buf'[b[q]].holder = q
      BY <2>2, <2>3, <3>1 DEF Inv, Holders
    <3>4. \A q \in Procs : pc'[q] = "asleep" => buf'[b[q]].holder # Nobody
      BY <2>2, <2>3, <3>1 DEF Inv, Holders, Past
    <3>5. \A i \in Bufs : buf'[i].holder # Nobody => b[buf'[i].holder] = i /\ pc'[buf'[i].holder] \in Past
      BY <1>2, <2>2, <2>3, <3>2 DEF Inv, Holders
    <3> QED  BY <1>1, <3>3, <3>4, <3>5, Zenon DEF Holders
  <2>9. Flags'
    <3>1. \A q \in Procs \ {p} : pc[q] # "idle" => b[q] \in Bufs
      BY HasBuffer, Zenon
    <3>2. buf[b[p]].dirty => buf[b[p]].valid
      BY <1>2, Zenon DEF Inv, Flags
    <3> QED  BY <1>1, <1>2, <2>2, <2>4, <3>1, <3>2 DEF Inv, Flags
  <2>10. Queued'
    BY <1>1, <2>2 DEF Inv, Queued, Past
  <2>11. Transfer' /\ Clean'
    <3>1. idequeue # <<>> => idequeue[1] \in Bufs
      BY DEF Inv, Types
    <3> QED  BY <1>1, <2>4, <3>1 DEF Inv, Transfer, Working, Clean
  <2> QED  BY <2>5, <2>6, <2>7, <2>8, <2>9, <2>10, <2>11, Zenon DEF Inv
<1> QED  BY <1>4, <1>5, Zenon

\* A reference taken or given up is counted.
LEMMA CountMoved ==
  ASSUME Inv, NEW p \in Procs, NEW i \in Bufs,
         \/ b[p] = 0 /\ b' = [b EXCEPT ![p] = i] /\ buf'[i].refcnt = buf[i].refcnt + 1
         \/ b[p] = i /\ b' = [b EXCEPT ![p] = 0] /\ buf'[i].refcnt = buf[i].refcnt - 1,
         \A j \in Bufs \ {i} : buf'[j].refcnt = buf[j].refcnt
  PROVE  Counted'
<1>1. b \in [Procs -> Bufs \cup {0}] /\ 0 \notin Bufs
  BY Constants, Zenon DEF Inv, Types
<1>2. ASSUME NEW j \in Bufs PROVE buf'[j].refcnt = Cardinality(Users(j)')
  <2>1. \A u : u # p => (u \in Users(j) <=> u \in Users(j)')
    BY <1>1, Zenon DEF Users
  <2>2. /\ Cardinality(Users(j)') \in Nat /\ Cardinality(Users(j)) \in Nat
        /\ (p \in Users(j) <=> p \in Users(j)') => Cardinality(Users(j)') = Cardinality(Users(j))
        /\ p \notin Users(j) /\ p \in Users(j)' => Cardinality(Users(j)') = Cardinality(Users(j)) + 1
        /\ p \in Users(j) /\ p \notin Users(j)' => Cardinality(Users(j)') = Cardinality(Users(j)) - 1
    <3>1. IsFiniteSet(Users(j))
      BY UsersFinite, Zenon
    <3> HIDE DEF Users
    <3> QED  BY <2>1, <3>1, Move, Zenon
  <2>3. buf[j].refcnt = Cardinality(Users(j))
    BY Zenon DEF Inv, Counted
  <2>4. (p \in Users(j) <=> b[p] = j) /\ (p \in Users(j)' <=> b'[p] = j)
    BY Zenon DEF Users
  <2>5. CASE j # i
    <3>1. p \in Users(j) <=> p \in Users(j)'
      BY <1>1, <2>4, <2>5, Zenon
    <3> QED  BY <2>2, <2>3, <2>5, <3>1, Zenon
  <2>6. CASE j = i
    <3>1. CASE b[p] = 0 /\ b' = [b EXCEPT ![p] = i] /\ buf'[i].refcnt = buf[i].refcnt + 1
      <4>1. p \notin Users(j) /\ p \in Users(j)'
        BY <1>1, <2>4, <2>6, <3>1, Zenon
      <4> QED  BY <2>2, <2>3, <2>6, <3>1, <4>1, Zenon
    <3>2. CASE b[p] = i /\ b' = [b EXCEPT ![p] = 0] /\ buf'[i].refcnt = buf[i].refcnt - 1
      <4>1. p \in Users(j) /\ p \notin Users(j)'
        BY <1>1, <2>4, <2>6, <3>2, Zenon
      <4> QED  BY <2>2, <2>3, <2>6, <3>2, <4>1, Zenon
    <3> QED  BY <3>1, <3>2, Zenon
  <2> QED  BY <2>5, <2>6, Zenon
<1> QED  BY <1>2, Zenon DEF Counted

\* A buffer without references has no user, no holder and no request.
LEMMA Free ==
  ASSUME Inv, NEW i \in Bufs, buf[i].refcnt = 0
  PROVE  /\ \A q \in Procs : b[q] # i
         /\ buf[i].holder = Nobody
         /\ \A n \in 1 .. Len(idequeue) : idequeue[n] # i
<1>1. Users(i) = {}
  <2>1. Cardinality(Users(i)) = 0 /\ IsFiniteSet(Users(i))
    BY UsersFinite, Zenon DEF Inv, Counted
  <2> QED  BY <2>1, FS_EmptySet, Zenon
<1>2. \A q \in Procs : b[q] # i
  BY <1>1, Zenon DEF Users
<1>3. buf[i].holder = Nobody
  BY <1>2 DEF Inv, Types, Entry, Holders
<1>4. \A n \in 1 .. Len(idequeue) : idequeue[n] # i
  BY <1>2 DEF Inv, Queued
<1> QED  BY <1>2, <1>3, <1>4, Zenon

\* bget(): the buffer of the block, or one that nobody uses and is not dirty
LEMMA bgetStep == ASSUME Inv, NEW p \in Procs, bget(p) PROVE Inv'
<1>1. /\ pc[p] = "idle" /\ b[p] = 0 /\ pc' = [pc EXCEPT ![p] = "acquiresleep"]
      /\ UNCHANGED <<lru, idequeue, disk, device>>
  BY Zenon DEF bget, Goto, Inv, Places
<1>2. /\ pc \in [Procs -> Labels] /\ buf \in [Bufs -> Entry] /\ b \in [Procs -> Bufs \cup {0}]
      /\ lru \in [Bufs -> Bufs]
  BY Zenon DEF Inv, Types
<1>3. PICK k \in Blocks, i \in Bufs :
        /\ \/ i \in Cached(k) /\ buf' = [buf EXCEPT ![i].refcnt = @ + 1]
           \/ /\ Cached(k) = {} /\ \E j \in Recyclable : i = lru[j]
              /\ buf' = [buf EXCEPT ![i] = [@ EXCEPT !.blockno = k, !.valid = FALSE,
                                                     !.data = AnyVal, !.refcnt = 1]]
        /\ b' = [b EXCEPT ![p] = i]
  BY Zenon DEF bget
<1>4. /\ pc' \in [Procs -> Labels] /\ pc'[p] = "acquiresleep"
      /\ \A q \in Procs \ {p} : pc'[q] = pc[q]
      /\ b' \in [Procs -> Bufs \cup {0}] /\ b'[p] = i /\ \A q \in Procs \ {p} : b'[q] = b[q]
  BY <1>1, <1>2, <1>3 DEF Labels
<1>5. \A q \in Procs \ {p} : pc[q] # "idle" => b[q] \in Bufs
  BY HasBuffer, Zenon
<1>6. \A j \in Bufs : buf[j].holder # Nobody => buf[j].holder \in Procs \ {p}
  BY <1>1, <1>2 DEF Inv, Holders, Entry, Past
<1>7. Queued'
  BY <1>1, <1>4 DEF Inv, Queued
<1>8. CASE i \in Cached(k) /\ buf' = [buf EXCEPT ![i].refcnt = @ + 1]
  <2>1. buf[i].blockno = k /\ buf[i].refcnt \in Nat
    BY <1>2, <1>8, Zenon DEF Cached, Entry
  <2>2. /\ buf' \in [Bufs -> Entry] /\ buf'[i].refcnt = buf[i].refcnt + 1
        /\ \A j \in Bufs \ {i} : buf'[j] = buf[j]
        /\ buf'[i].blockno = buf[i].blockno /\ buf'[i].holder = buf[i].holder
        /\ buf'[i].valid = buf[i].valid /\ buf'[i].dirty = buf[i].dirty
        /\ buf'[i].data = buf[i].data
    <3>1. buf[i].refcnt + 1 \in Nat
      BY <2>1
    <3>2. buf' = [buf EXCEPT ![i].refcnt = buf[i].refcnt + 1]
      BY <1>8, Zenon
    <3> QED  BY <1>2, <3>1, <3>2, SetRefcnt, Zenon
  <2>3. \A j \in Bufs : /\ buf'[j].blockno = buf[j].blockno /\ buf'[j].holder = buf[j].holder
                        /\ buf'[j].valid = buf[j].valid /\ buf'[j].dirty = buf[j].dirty
                        /\ buf'[j].data = buf[j].data
    BY <2>2, Zenon
  <2>4. Types'
    BY <1>1, <1>4, <2>2, Zenon DEF Inv, Types
  <2>5. Places'
    BY <1>4, <1>5, <2>1, <2>3 DEF Inv, Places
  <2>6. Unique'
    BY <2>3 DEF Inv, Unique
  <2>7. Counted'
    <3>1. \A j \in Bufs \ {i} : buf'[j].refcnt = buf[j].refcnt
      BY <2>2, Zenon
    <3> QED  BY <1>1, <1>3, <2>2, <3>1, CountMoved, Zenon
  <2>8. Holders'
    BY <1>4, <1>5, <1>6, <2>3 DEF Inv, Holders, Past
  <2>9. Flags'
    BY <1>4, <1>5, <2>3 DEF Inv, Flags
  <2>10. Transfer' /\ Clean'
    <3>1. idequeue # <<>> => idequeue[1] \in Bufs
      BY DEF Inv, Types
    <3> QED  BY <1>1, <2>3, <3>1 DEF Inv, Transfer, Working, Clean
  <2> QED  BY <1>7, <2>4, <2>5, <2>6, <2>7, <2>8, <2>9, <2>10, Zenon DEF Inv
<1>9. CASE /\ Cached(k) = {} /\ \E j \in Recyclable : i = lru[j]
           /\ buf' = [buf EXCEPT ![i] = [@ EXCEPT !.blockno = k, !.valid = FALSE,
                                                  !.data = AnyVal, !.refcnt = 1]]
  <2>1. buf[i].refcnt = 0 /\ ~ buf[i].dirty /\ \A j \in Bufs : buf[j].blockno # k
    BY <1>2, <1>9, Zenon DEF Recyclable, Cached
  <2>2. /\ buf' \in [Bufs -> Entry] /\ \A j \in Bufs \ {i} : buf'[j] = buf[j]
        /\ buf'[i].blockno = k /\ ~ buf'[i].valid /\ buf'[i].refcnt = 1
        /\ buf'[i].dirty = buf[i].dirty /\ buf'[i].holder = buf[i].holder
    BY <1>2, <1>9, Recycle, Zenon
  <2>3. /\ \A q \in Procs : b[q] # i
        /\ buf[i].holder = Nobody
        /\ \A n \in 1 .. Len(idequeue) : idequeue[n] # i
    BY <2>1, Free, Zenon
  <2>4. Types'
    BY <1>1, <1>4, <2>2, Zenon DEF Inv, Types
  <2>5. Places'
    BY <1>4, <1>5, <2>2, <2>3 DEF Inv, Places
  <2>6. Unique'
    BY <2>1, <2>2 DEF Inv, Unique
  <2>7. Counted'
    <3>1. \A j \in Bufs \ {i} : buf'[j].refcnt = buf[j].refcnt
      BY <2>2, Zenon
    <3>2. buf'[i].refcnt = buf[i].refcnt + 1
      BY <2>1, <2>2
    <3> QED  BY <1>1, <1>3, <3>1, <3>2, CountMoved, Zenon
  <2>8. Holders'
    BY <1>4, <1>5, <1>6, <2>2, <2>3 DEF Inv, Holders, Past
  <2>9. Flags'
    BY <1>4, <1>5, <2>1, <2>2, <2>3 DEF Inv, Flags
  <2>10. Transfer'
    <3>1. idequeue # <<>> => idequeue[1] \in Bufs /\ idequeue[1] # i
      BY <2>3 DEF Inv, Types
    <3> QED  BY <1>1, <2>2, <3>1 DEF Inv, Transfer, Working
  <2>11. Clean'
    BY <1>1, <2>2, Zenon DEF Inv, Clean
  <2> QED  BY <1>7, <2>4, <2>5, <2>6, <2>7, <2>8, <2>9, <2>10, <2>11, Zenon DEF Inv
<1> QED  BY <1>3, <1>8, <1>9, Zenon

\* A process past acquiresleep() has its buffer for itself.
LEMMA Alone ==
  ASSUME Inv, NEW p \in Procs, pc[p] \in Past
  PROVE  /\ b[p] \in Bufs /\ buf[b[p]] \in Entry /\ buf[b[p]].blockno \in Blocks
         /\ buf[b[p]].holder = p
         /\ \A q \in Procs \ {p} : pc[q] \in Past => b[q] \in Bufs /\ b[q] # b[p]
         /\ pc[p] # "iowait" => \A n \in 1 .. Len(idequeue) : idequeue[n] # b[p]
<1>1. b[p] \in Bufs /\ buf[b[p]] \in Entry /\ buf[b[p]].blockno \in Blocks
  BY HasBuffer, Zenon DEF Past
<1>2. \A q \in Procs : pc[q] \in Past => b[q] \in Bufs /\ buf[b[q]].holder = q
  BY HasBuffer, Zenon DEF Inv, Holders, Past
<1>3. pc[p] # "iowait" => \A n \in 1 .. Len(idequeue) : idequeue[n] # b[p]
  <2> SUFFICES ASSUME pc[p] # "iowait", NEW n \in 1 .. Len(idequeue), idequeue[n] = b[p]
               PROVE  FALSE
    BY Zenon
  <2>1. PICK q \in Procs : b[q] = idequeue[n] /\ pc[q] = "iowait"
    BY Zenon DEF Inv, Queued
  <2> QED  BY <1>2, <2>1 DEF Past
<1> QED  BY <1>1, <1>2, <1>3, Zenon

\* bwrite() and log_write(): the holder changes its buffer.
LEMMA writeStep == ASSUME Inv, NEW p \in Procs, bwrite(p) \/ log_write(p) PROVE Inv'
<1>1. /\ pc[p] = "held" /\ pc' \in {pc, [pc EXCEPT ![p] = "iderw"]}
      /\ UNCHANGED <<lru, idequeue, disk, device, b>>
  BY Zenon DEF bwrite, log_write, Goto
<1>2. PICK v \in Vals : buf' = [buf EXCEPT ![b[p]] = [@ EXCEPT !.data = v, !.dirty = TRUE]]
  BY Zenon DEF bwrite, log_write
<1>3. /\ b[p] \in Bufs /\ buf[b[p]] \in Entry /\ buf[b[p]].blockno \in Blocks
      /\ buf[b[p]].holder = p
      /\ \A q \in Procs \ {p} : pc[q] \in Past => b[q] \in Bufs /\ b[q] # b[p]
      /\ \A n \in 1 .. Len(idequeue) : idequeue[n] # b[p]
  BY <1>1, Alone, Zenon DEF Past
<1>4. pc \in [Procs -> Labels] /\ buf \in [Bufs -> Entry] /\ buf[b[p]].valid
  BY <1>1, Zenon DEF Inv, Types, Flags
<1>5. /\ buf' \in [Bufs -> Entry] /\ \A j \in Bufs \ {b[p]} : buf'[j] = buf[j]
      /\ buf'[b[p]].data = v /\ buf'[b[p]].dirty
      /\ buf'[b[p]].blockno = buf[b[p]].blockno /\ buf'[b[p]].holder = buf[b[p]].holder
      /\ buf'[b[p]].valid = buf[b[p]].valid /\ buf'[b[p]].refcnt = buf[b[p]].refcnt
  BY <1>2, <1>3, <1>4, SetData, Zenon
<1>6. \A j \in Bufs : /\ buf'[j].blockno = buf[j].blockno /\ buf'[j].holder = buf[j].holder
                      /\ buf'[j].valid = buf[j].valid /\ buf'[j].refcnt = buf[j].refcnt
  BY <1>5, Zenon
<1>7. /\ pc' \in [Procs -> Labels] /\ pc'[p] \in {"held", "iderw"}
      /\ \A q \in Procs \ {p} : pc'[q] = pc[q]
  BY <1>1, <1>4, Zenon DEF Labels
<1>8. Types'
  BY <1>1, <1>5, <1>7, Zenon DEF Inv, Types
<1>9. Places'
  BY <1>1, <1>3, <1>6, <1>7 DEF Inv, Places
<1>10. Unique' /\ Counted'
  BY <1>1, <1>6, CountKept DEF Inv, Unique
<1>11. Holders'
  <2>1. \A q \in Procs : pc[q] # "idle" => b[q] \in Bufs
    BY HasBuffer, Zenon
  <2>2. \A q \in Procs : (pc'[q] \in Past <=> pc[q] \in Past) /\ (pc'[q] = "asleep" <=> pc[q] = "asleep")
    BY <1>1, <1>7, Zenon DEF Past
  <2>3. \A j \in Bufs : buf[j].holder # Nobody => buf[j].holder \in Procs
    BY <1>4, Zenon DEF Entry
  <2> QED  BY <1>1, <1>6, <2>1, <2>2, <2>3 DEF Inv, Holders, Past
<1>12. Flags'
  <2>1. \A j \in Bufs : (buf'[j].dirty => buf'[j].valid) /\ (buf'[j].valid => buf'[j].blockno \in Blocks)
    BY <1>4, <1>5, Zenon DEF Inv, Flags
  <2>2. ASSUME NEW q \in Procs \ {p}, pc'[q] \in Past PROVE buf'[b[q]] = buf[b[q]] /\ pc'[q] = pc[q]
    BY <1>3, <1>5, <1>7, <2>2, Zenon
  <2>3. \A q \in Procs \ {p} :
           /\ pc'[q] = "held" => buf'[b[q]].valid
           /\ pc'[q] = "iotest" => buf'[b[q]].valid /\ ~ buf'[b[q]].dirty
           /\ pc'[q] \in {"iderw", "iowait"} => buf'[b[q]].dirty \/ ~ buf'[b[q]].valid
    BY <2>2, Zenon DEF Inv, Flags, Past
  <2>4. /\ pc'[p] # "iotest" /\ pc'[p] # "iowait" /\ buf'[b[p]].valid /\ buf'[b[p]].dirty
    BY <1>4, <1>5, <1>7, Zenon
  <2>5. b' = b
    BY <1>1, Zenon
  <2> QED  BY <2>1, <2>3, <2>4, <2>5, Zenon DEF Flags
<1>13. Queued'
  BY <1>1, <1>7 DEF Inv, Queued
<1>14. Transfer'
  <2>1. idequeue # <<>> => idequeue[1] \in Bufs /\ idequeue[1] # b[p]
    BY <1>3 DEF Inv, Types
  <2> QED  BY <1>1, <1>5, <2>1, Zenon DEF Inv, Transfer, Working
<1>15. Clean'
  BY <1>1, <1>5, Zenon DEF Inv, Clean
<1> QED  BY <1>8, <1>9, <1>10, <1>11, <1>12, <1>13, <1>14, <1>15, Zenon DEF Inv

\* releasesleep() wakes whoever sleeps for the buffer.
LEMMA releaseStep == ASSUME Inv, NEW p \in Procs, releasesleep(p) PROVE Inv'
<1>1. /\ pc[p] = "held" /\ buf' = [buf EXCEPT ![b[p]].holder = Nobody]
      /\ pc' = wakeup([pc EXCEPT ![p] = "brelse"], "asleep", "woken", b[p])
  BY Zenon DEF releasesleep
<1>0. UNCHANGED <<lru, idequeue, disk, device, b>>
  BY Zenon DEF releasesleep
<1>2. /\ b[p] \in Bufs /\ buf[b[p]] \in Entry /\ buf[b[p]].blockno \in Blocks
      /\ buf[b[p]].holder = p
      /\ \A q \in Procs \ {p} : pc[q] \in Past => b[q] \in Bufs /\ b[q] # b[p]
  BY <1>1, Alone, Zenon DEF Past
<1>3. pc \in [Procs -> Labels] /\ buf \in [Bufs -> Entry]
  BY Zenon DEF Inv, Types
<1>4. /\ buf' \in [Bufs -> Entry] /\ \A j \in Bufs \ {b[p]} : buf'[j] = buf[j]
      /\ buf'[b[p]].holder = Nobody
      /\ buf'[b[p]].blockno = buf[b[p]].blockno /\ buf'[b[p]].refcnt = buf[b[p]].refcnt
      /\ buf'[b[p]].valid = buf[b[p]].valid /\ buf'[b[p]].dirty = buf[b[p]].dirty
      /\ buf'[b[p]].data = buf[b[p]].data
  BY <1>1, <1>2, <1>3, SetHolder, Zenon
<1>5. \A j \in Bufs : /\ buf'[j].blockno = buf[j].blockno /\ buf'[j].refcnt = buf[j].refcnt
                      /\ buf'[j].valid = buf[j].valid /\ buf'[j].dirty = buf[j].dirty
                      /\ buf'[j].data = buf[j].data
  BY <1>4, Zenon
<1>6. /\ pc' \in [Procs -> Labels] /\ pc'[p] = "brelse"
      /\ \A q \in Procs \ {p} : pc'[q] = IF pc[q] = "asleep" /\ b[q] = b[p] THEN "woken" ELSE pc[q]
  BY <1>1, <1>3, Zenon DEF wakeup, Labels
<1>7. \A q \in Procs : pc[q] # "idle" => b[q] \in Bufs
  BY HasBuffer, Zenon
<1>8. Types'
  BY <1>0, <1>4, <1>6, Zenon DEF Inv, Types
<1>9. \A q \in Procs :
        /\ pc'[q] = "idle" <=> pc[q] = "idle"
        /\ pc'[q] \in Past => pc'[q] = pc[q] /\ q # p
        /\ pc'[q] = "asleep" => pc[q] = "asleep" /\ b[q] # b[p]
        /\ q # p /\ pc[q] \in Past => pc'[q] = pc[q]
  BY <1>1, <1>6, Zenon DEF Past
<1>10. Places'
  BY <1>0, <1>5, <1>7, <1>9, Zenon DEF Inv, Places
<1>11. Unique' /\ Counted'
  BY <1>0, <1>5, CountKept DEF Inv, Unique
<1>12. Holders'
  <2>1. \A q \in Procs : pc'[q] \in Past => buf'[b[q]].holder = q
    BY <1>2, <1>4, <1>9 DEF Inv, Holders
  <2>2. \A q \in Procs : pc'[q] = "asleep" => buf'[b[q]].holder # Nobody
    BY <1>4, <1>7, <1>9 DEF Inv, Holders
  <2>3. \A j \in Bufs \ {b[p]} : buf[j].holder # Nobody =>
           buf[j].holder \in Procs \ {p} /\ b[buf[j].holder] = j /\ pc'[buf[j].holder] \in Past
    BY <1>3, <1>9 DEF Inv, Holders, Entry
  <2>4. \A j \in Bufs : buf'[j].holder # Nobody => b[buf'[j].holder] = j /\ pc'[buf'[j].holder] \in Past
    BY <1>4, <2>3
  <2> QED  BY <1>0, <2>1, <2>2, <2>4, Zenon DEF Holders
<1>13. Flags'
  <2>1. \A q \in Procs : pc'[q] \in Past => pc'[q] = pc[q] /\ b[q] \in Bufs
    BY <1>7, <1>9, Zenon DEF Past
  <2> QED  BY <1>0, <1>5, <2>1 DEF Inv, Flags, Past
<1>14. Queued'
  <2>1. \A q \in Procs : pc'[q] = "iowait" <=> pc[q] = "iowait"
    BY <1>1, <1>9, Zenon DEF Past
  <2> QED  BY <1>0, <2>1 DEF Inv, Queued
<1>15. Transfer' /\ Clean'
  <2>1. idequeue # <<>> => idequeue[1] \in Bufs
    BY DEF Inv, Types
  <2> QED  BY <1>0, <1>5, <2>1 DEF Inv, Transfer, Working, Clean
<1> QED  BY <1>8, <1>10, <1>11, <1>12, <1>13, <1>14, <1>15, Zenon DEF Inv

\* brelse() gives the reference up; the list stays a list of buffers.
LEMMA brelseStep == ASSUME Inv, NEW p \in Procs, brelse(p) PROVE Inv'
<1>0. UNCHANGED <<idequeue, disk, device>> /\ pc[p] = "brelse" /\ pc[p] \notin Past
  BY Zenon DEF brelse, Past
<1>1. /\ pc' = [pc EXCEPT ![p] = "idle"] /\ b' = [b EXCEPT ![p] = 0]
      /\ buf' = [buf EXCEPT ![b[p]].refcnt = @ - 1]
  BY Zenon DEF brelse, Goto
<1>2. b[p] \in Bufs /\ buf[b[p]] \in Entry
  BY <1>0, HasBuffer, Zenon
<1>3. /\ pc \in [Procs -> Labels] /\ buf \in [Bufs -> Entry] /\ b \in [Procs -> Bufs \cup {0}]
      /\ lru \in [Bufs -> Bufs]
  BY Zenon DEF Inv, Types
<1>4. buf[b[p]].refcnt \in Nat /\ buf[b[p]].refcnt > 0
  <2>1. p \in Users(b[p]) /\ IsFiniteSet(Users(b[p]))
    BY UsersFinite, Zenon DEF Users
  <2>2. buf[b[p]].refcnt = Cardinality(Users(b[p]))
    BY <1>2, Zenon DEF Inv, Counted
  <2> QED  BY <2>1, <2>2, NonEmpty, Zenon
<1>5. /\ buf' \in [Bufs -> Entry] /\ \A j \in Bufs \ {b[p]} : buf'[j] = buf[j]
      /\ buf'[b[p]].refcnt = buf[b[p]].refcnt - 1
      /\ buf'[b[p]].blockno = buf[b[p]].blockno /\ buf'[b[p]].holder = buf[b[p]].holder
      /\ buf'[b[p]].valid = buf[b[p]].valid /\ buf'[b[p]].dirty = buf[b[p]].dirty
      /\ buf'[b[p]].data = buf[b[p]].data
  <2>1. buf[b[p]].refcnt - 1 \in Nat
    BY <1>4
  <2>2. buf' = [buf EXCEPT ![b[p]].refcnt = buf[b[p]].refcnt - 1]
    BY <1>1, Zenon
  <2> QED  BY <1>2, <1>3, <2>1, <2>2, SetRefcnt, Zenon
<1>6. \A j \in Bufs : /\ buf'[j].blockno = buf[j].blockno /\ buf'[j].holder = buf[j].holder
                      /\ buf'[j].valid = buf[j].valid /\ buf'[j].dirty = buf[j].dirty
                      /\ buf'[j].data = buf[j].data
  BY <1>5, Zenon
<1>7. /\ pc' \in [Procs -> Labels] /\ pc'[p] = "idle" /\ \A q \in Procs \ {p} : pc'[q] = pc[q]
      /\ b' \in [Procs -> Bufs \cup {0}] /\ b'[p] = 0 /\ \A q \in Procs \ {p} : b'[q] = b[q]
  BY <1>1, <1>3, Zenon DEF Labels
<1>8. lru' \in [Bufs -> Bufs]
  <2>1. ASSUME NEW j \in Bufs PROVE ToFront(j) \in [Bufs -> Bufs]
    <3>1. \A m \in Bufs : m # 1 => m - 1 \in Bufs
      BY BufCacheAssumption DEF Bufs
    <3> QED  BY <1>3, <3>1, Zenon DEF ToFront
  <2> QED  BY <1>3, <2>1 DEF brelse
<1>9. \A q \in Procs : pc[q] # "idle" => b[q] \in Bufs
  BY HasBuffer, Zenon
<1>10. Types'
  BY <1>0, <1>5, <1>7, <1>8, Zenon DEF Inv, Types
<1>11. Places'
  BY <1>6, <1>7, <1>9 DEF Inv, Places
<1>12. Unique'
  BY <1>6 DEF Inv, Unique
<1>13. Counted'
  <2>1. \A j \in Bufs \ {b[p]} : buf'[j].refcnt = buf[j].refcnt
    BY <1>5, Zenon
  <2> QED  BY <1>1, <1>2, <1>5, <2>1, CountMoved, Zenon
<1>14. Holders'
  <2>1. \A j \in Bufs : buf[j].holder # Nobody => buf[j].holder \in Procs \ {p}
    BY <1>0, <1>3 DEF Inv, Holders, Entry
  <2> QED  BY <1>6, <1>7, <1>9, <2>1 DEF Inv, Holders, Past
<1>15. Flags'
  BY <1>6, <1>7, <1>9 DEF Inv, Flags
<1>16. Queued'
  BY <1>0, <1>7 DEF Inv, Queued
<1>17. Transfer' /\ Clean'
  <2>1. idequeue # <<>> => idequeue[1] \in Bufs
    BY DEF Inv, Types
  <2> QED  BY <1>0, <1>6, <2>1 DEF Inv, Transfer, Working, Clean
<1> QED  BY <1>10, <1>11, <1>12, <1>13, <1>14, <1>15, <1>16, <1>17, Zenon DEF Inv

\* idestart(): the command for a buffer with a block
LEMMA Started ==
  ASSUME Types, NEW i \in Bufs
  PROVE  /\ Command(i) \in Commands /\ Command(i).op \in {"read", "write"}
         /\ Command(i).blockno = buf[i].blockno /\ Command(i).data = buf[i].data
         /\ Command(i).op = "write" <=> buf[i].dirty
<1>1. buf[i] \in Entry
  BY Zenon DEF Types
<1> QED  BY <1>1, Zenon DEF Command, Commands, Entry

\* iderw() queues the buffer, and starts the disk if it is idle.
LEMMA iderwStep == ASSUME Inv, NEW p \in Procs, iderw(p) PROVE Inv'
<1>0. UNCHANGED <<buf, lru, disk, b>> /\ pc[p] = "iderw" /\ pc[p] \in Past
  BY Zenon DEF iderw, Past
<1>1. /\ pc' = [pc EXCEPT ![p] = "iowait"] /\ idequeue' = Append(idequeue, b[p])
      /\ device' = IF idequeue = <<>> THEN Command(b[p]) ELSE device
  BY Zenon DEF iderw, Goto
<1>2. /\ b[p] \in Bufs /\ buf[b[p]] \in Entry /\ buf[b[p]].blockno \in Blocks
      /\ \A n \in 1 .. Len(idequeue) : idequeue[n] # b[p]
  BY <1>0, Alone, Zenon
<1>3. /\ pc \in [Procs -> Labels] /\ buf \in [Bufs -> Entry] /\ idequeue \in Seq(Bufs)
      /\ device \in Commands /\ Len(idequeue) \in Nat
  BY DEF Inv, Types
<1>4. /\ idequeue' \in Seq(Bufs) /\ Len(idequeue') = Len(idequeue) + 1
      /\ \A n \in 1 .. Len(idequeue) : idequeue'[n] = idequeue[n]
      /\ idequeue'[Len(idequeue) + 1] = b[p]
  BY <1>1, <1>2, <1>3
<1>5. /\ Command(b[p]) \in Commands /\ Command(b[p]).op \in {"read", "write"}
      /\ Command(b[p]).blockno = buf[b[p]].blockno /\ Command(b[p]).data = buf[b[p]].data
      /\ Command(b[p]).op = "write" <=> buf[b[p]].dirty
  BY <1>2, Started, Zenon DEF Inv
<1>6. pc' \in [Procs -> Labels] /\ pc'[p] = "iowait" /\ \A q \in Procs \ {p} : pc'[q] = pc[q]
  BY <1>1, <1>3, Zenon DEF Labels
<1>7. Types'
  BY <1>0, <1>1, <1>3, <1>4, <1>5, <1>6, Zenon DEF Inv, Types
<1>8. Places' /\ Unique' /\ Clean'
  BY <1>0, <1>6, Zenon DEF Inv, Places, Unique, Clean
<1>9. Counted'
  BY <1>0, CountKept, Zenon DEF Inv
<1>10. Holders'
  <2>1. \A q \in Procs : (pc'[q] \in Past <=> pc[q] \in Past) /\ (pc'[q] = "asleep" <=> pc[q] = "asleep")
    BY <1>0, <1>6, Zenon DEF Past
  <2>2. \A j \in Bufs : buf[j].holder # Nobody => buf[j].holder \in Procs
    BY <1>3, Zenon DEF Entry
  <2> QED  BY <1>0, <2>1, <2>2, Zenon DEF Inv, Holders
<1>11. Flags'
  BY <1>0, <1>6, Zenon DEF Inv, Flags
<1>12. Queued'
  <2>1. \A n \in 1 .. Len(idequeue') : n \in 1 .. Len(idequeue) \/ n = Len(idequeue) + 1
    BY <1>3, <1>4
  <2>2. \A m, n \in 1 .. Len(idequeue') : idequeue'[m] = idequeue'[n] => m = n
    <3>1. \A m, n \in 1 .. Len(idequeue) : idequeue[m] = idequeue[n] => m = n
      BY Zenon DEF Inv, Queued
    <3> QED  BY <1>2, <1>4, <2>1, <3>1, Zenon
  <2>3. \A n \in 1 .. Len(idequeue') : \E q \in Procs : b[q] = idequeue'[n] /\ pc'[q] = "iowait"
    BY <1>4, <1>6, <2>1 DEF Inv, Queued
  <2>4. \A q \in Procs : pc'[q] = "iowait" => \E n \in 1 .. Len(idequeue') : idequeue'[n] = b[q]
    <3>1. Len(idequeue) + 1 \in 1 .. Len(idequeue') /\ 1 .. Len(idequeue) \subseteq 1 .. Len(idequeue')
      BY <1>3, <1>4
    <3> QED  BY <1>4, <1>6, <3>1 DEF Inv, Queued
  <2> QED  BY <1>0, <2>2, <2>3, <2>4, Zenon DEF Queued
<1>13. Transfer'
  <2>1. idequeue' # <<>>
    BY <1>3, <1>4
  <2>2. CASE idequeue = <<>>
    <3>1. device' = Command(b[p]) /\ idequeue'[1] = b[p]
      BY <1>1, <1>4, <2>2
    <3> QED  BY <1>0, <1>5, <2>1, <3>1, Zenon DEF Transfer, Working
  <2>3. CASE idequeue # <<>>
    <3>1. device' = device /\ idequeue'[1] = idequeue[1]
      BY <1>1, <1>3, <1>4, <2>3
    <3> QED  BY <1>0, <2>1, <2>3, <3>1, Zenon DEF Inv, Transfer, Working
  <2> QED  BY <2>2, <2>3, Zenon
<1> QED  BY <1>7, <1>8, <1>9, <1>10, <1>11, <1>12, <1>13, Zenon DEF Inv

\* iderw() after sleep(): whoever was woken finds its request finished.
LEMMA testStep == ASSUME Inv, NEW p \in Procs, iderwTest(p) PROVE Inv'
<1>0. UNCHANGED <<buf, lru, idequeue, disk, device, b>> /\ pc[p] = "iotest"
  BY Zenon DEF iderwTest
<1>1. buf[b[p]].valid /\ ~ buf[b[p]].dirty
  BY <1>0, Zenon DEF Inv, Flags
<1>2. pc' = [pc EXCEPT ![p] = "held"] /\ pc \in [Procs -> Labels] /\ buf \in [Bufs -> Entry]
  BY <1>1, Zenon DEF iderwTest, Goto, Inv, Types
<1>3. pc' \in [Procs -> Labels] /\ pc'[p] = "held" /\ \A q \in Procs \ {p} : pc'[q] = pc[q]
  BY <1>2, Zenon DEF Labels
<1>4. Types'
  BY <1>0, <1>3, Zenon DEF Inv, Types
<1>5. Places' /\ Unique' /\ Clean'
  BY <1>0, <1>3, Zenon DEF Inv, Places, Unique, Clean
<1>6. Counted'
  BY <1>0, CountKept, Zenon DEF Inv
<1>7. Holders'
  <2>1. \A q \in Procs : (pc'[q] \in Past <=> pc[q] \in Past) /\ (pc'[q] = "asleep" <=> pc[q] = "asleep")
    BY <1>0, <1>3, Zenon DEF Past
  <2>2. \A j \in Bufs : buf[j].holder # Nobody => buf[j].holder \in Procs
    BY <1>2, Zenon DEF Entry
  <2> QED  BY <1>0, <2>1, <2>2, Zenon DEF Inv, Holders
<1>8. Flags'
  BY <1>0, <1>1, <1>3, Zenon DEF Inv, Flags
<1>9. Queued'
  BY <1>0, <1>3 DEF Inv, Queued
<1>10. Transfer'
  BY <1>0, Zenon DEF Inv, Transfer, Working
<1> QED  BY <1>4, <1>5, <1>6, <1>7, <1>8, <1>9, <1>10, Zenon DEF Inv

\* The disk works for a buffer that a process waits for.
LEMMA First ==
  ASSUME Inv, device.op # "none"
  PROVE  /\ idequeue \in Seq(Bufs) /\ idequeue # <<>> /\ Len(idequeue) \in Nat \ {0}
         /\ idequeue[1] \in Bufs /\ buf[idequeue[1]] \in Entry
         /\ buf[idequeue[1]].blockno \in Blocks
         /\ device.blockno = buf[idequeue[1]].blockno
         /\ device \in Commands /\ device.data \in Vals
<1>1. idequeue \in Seq(Bufs) /\ idequeue # <<>> /\ device \in Commands /\ buf \in [Bufs -> Entry]
  BY Zenon DEF Inv, Types, Transfer
<1>2. Len(idequeue) \in Nat \ {0} /\ 1 \in 1 .. Len(idequeue) /\ idequeue[1] \in Bufs
  BY <1>1
<1>3. PICK p \in Procs : b[p] = idequeue[1] /\ pc[p] = "iowait"
  BY <1>2, Zenon DEF Inv, Queued
<1>4. buf[idequeue[1]].blockno \in Blocks
  BY <1>3, HasBuffer, Zenon
<1>5. device.blockno = buf[idequeue[1]].blockno
  BY <1>1, Zenon DEF Inv, Transfer, Working
<1>6. device.data \in Vals
  BY <1>1, Zenon DEF Commands
<1> QED  BY <1>1, <1>2, <1>4, <1>5, <1>6, Zenon

\* The disk reads or writes the block of the first request.
LEMMA DoneStep == ASSUME Inv, Done PROVE Inv'
<1>0. UNCHANGED <<buf, lru, idequeue, pc, b>> /\ device.op \in {"read", "write"} /\ device.op # "none"
  BY Zenon DEF Done
<1>1. /\ idequeue # <<>> /\ idequeue[1] \in Bufs /\ buf[idequeue[1]] \in Entry
      /\ buf[idequeue[1]].blockno \in Blocks
      /\ device.blockno = buf[idequeue[1]].blockno
      /\ device \in Commands /\ device.data \in Vals
  BY <1>0, First, Zenon
<1>2. disk \in [Blocks -> Vals] /\ buf \in [Bufs -> Entry]
  BY Zenon DEF Inv, Types
<1>3. Working(idequeue[1])
  BY <1>1, Zenon DEF Inv, Transfer
<1>4. /\ device' \in Commands /\ device'.op = "irq" /\ device'.blockno = device.blockno
      /\ device'.data = IF device.op = "read" THEN disk[device.blockno] ELSE device.data
  <2>1. disk[device.blockno] \in Vals
    BY <1>1, <1>2, Zenon
  <2> QED  BY <1>0, <1>1, <2>1, Zenon DEF Done, Commands
<1>5. /\ disk' \in [Blocks -> Vals]
      /\ \A k \in Blocks : disk'[k] = IF device.op = "write" /\ k = device.blockno THEN device.data ELSE disk[k]
  BY <1>1, <1>2, Zenon DEF Done
<1>6. Types'
  BY <1>0, <1>4, <1>5, Zenon DEF Inv, Types
<1>7. Places' /\ Unique'
  BY <1>0, Zenon DEF Inv, Places, Unique
<1>8. Counted'
  BY <1>0, CountKept, Zenon DEF Inv
<1>9. Holders' /\ Flags' /\ Queued'
  BY <1>0 DEF Inv, Holders, Flags, Queued
<1>10. Transfer'
  <2>1. disk'[device.blockno] = IF buf[idequeue[1]].dirty THEN buf[idequeue[1]].data ELSE device'.data
    BY <1>0, <1>1, <1>3, <1>4, <1>5, Zenon DEF Working
  <2> QED  BY <1>0, <1>1, <1>4, <2>1, Zenon DEF Transfer, Working
<1>11. Clean'
  <2> SUFFICES ASSUME NEW j \in Bufs, buf[j].valid, ~ buf[j].dirty
               PROVE  buf[j].data = disk'[buf[j].blockno]
    BY <1>0, Zenon DEF Clean
  <2>1. buf[j].blockno \in Blocks /\ buf[j].data = disk[buf[j].blockno]
    BY Zenon DEF Inv, Flags, Clean
  <2>2. device.op = "write" => buf[j].blockno # device.blockno
    BY <1>1, <1>3, <2>1, Constants, Zenon DEF Inv, Unique, Working
  <2> QED  BY <1>5, <2>1, <2>2, Zenon
<1> QED  BY <1>6, <1>7, <1>8, <1>9, <1>10, <1>11, Zenon DEF Inv

\* What ideintr() does to the first buffer of the queue
LEMMA intrFields ==
  ASSUME Inv, ideintr, NEW i, i = idequeue[1]
  PROVE  /\ i \in Bufs /\ buf[i].blockno \in Blocks
         /\ buf' \in [Bufs -> Entry] /\ \A j \in Bufs \ {i} : buf'[j] = buf[j]
         /\ buf'[i].data = disk[buf[i].blockno] /\ (buf[i].dirty => buf'[i].data = buf[i].data)
         /\ buf'[i].valid /\ ~ buf'[i].dirty
         /\ buf'[i].blockno = buf[i].blockno /\ buf'[i].holder = buf[i].holder
         /\ buf'[i].refcnt = buf[i].refcnt
         /\ UNCHANGED <<lru, disk, b>>
<1>1. device.op = "irq" /\ device.op # "none"
  BY Zenon DEF ideintr
<1>2. /\ idequeue \in Seq(Bufs) /\ idequeue # <<>> /\ i \in Bufs /\ buf[i].blockno \in Blocks
      /\ device.blockno = buf[i].blockno /\ device.data \in Vals
  BY <1>1, First, Zenon
<1>3. Head(idequeue) = i
  BY <1>2
<1>4. /\ buf' = [buf EXCEPT ![i] = [@ EXCEPT !.data = IF buf[i].dirty THEN buf[i].data ELSE device.data,
                                             !.valid = TRUE, !.dirty = FALSE]]
      /\ UNCHANGED <<lru, disk, b>>
  BY <1>3, Zenon DEF ideintr
<1>5. buf \in [Bufs -> Entry]
  BY Zenon DEF Inv, Types
<1>6. /\ buf' \in [Bufs -> Entry] /\ \A j \in Bufs \ {i} : buf'[j] = buf[j]
      /\ buf'[i].data = (IF buf[i].dirty THEN buf[i].data ELSE device.data)
      /\ buf'[i].valid /\ ~ buf'[i].dirty
      /\ buf'[i].blockno = buf[i].blockno /\ buf'[i].holder = buf[i].holder
      /\ buf'[i].refcnt = buf[i].refcnt
  BY <1>2, <1>4, <1>5, Transferred, Zenon
<1>7. disk[buf[i].blockno] = IF buf[i].dirty THEN buf[i].data ELSE device.data
  BY <1>1, <1>2, Zenon DEF Inv, Transfer, Working
<1> QED  BY <1>2, <1>4, <1>6, <1>7, Zenon

\* ideintr() finishes the first request, wakes its process and starts the next.
LEMMA intrStep == ASSUME Inv, ideintr PROVE Inv'
<1> DEFINE i == idequeue[1]
<1>1. /\ i \in Bufs /\ buf[i].blockno \in Blocks
      /\ buf' \in [Bufs -> Entry] /\ \A j \in Bufs \ {i} : buf'[j] = buf[j]
      /\ buf'[i].data = disk[buf[i].blockno]
      /\ buf'[i].valid /\ ~ buf'[i].dirty
      /\ buf'[i].blockno = buf[i].blockno /\ buf'[i].holder = buf[i].holder
      /\ buf'[i].refcnt = buf[i].refcnt
  BY intrFields, Zenon
<1>0. UNCHANGED <<lru, disk, b>>
  BY intrFields, Zenon
<1>2. idequeue \in Seq(Bufs) /\ idequeue # <<>> /\ Len(idequeue) \in Nat \ {0}
  <2>1. device.op # "none"
    BY Zenon DEF ideintr
  <2> QED  BY <2>1, First, Zenon
<1>3. /\ idequeue' \in Seq(Bufs) /\ Len(idequeue') = Len(idequeue) - 1
      /\ \A n \in 1 .. Len(idequeue') : n + 1 \in 1 .. Len(idequeue) /\ idequeue'[n] = idequeue[n + 1]
  BY <1>2 DEF ideintr
<1>4. pc \in [Procs -> Labels] /\ buf \in [Bufs -> Entry] /\ b \in [Procs -> Bufs \cup {0}]
  BY Zenon DEF Inv, Types
<1>5. pc' = wakeup(pc, "iowait", "iotest", i)
  BY <1>2 DEF ideintr
<1>6. /\ pc' \in [Procs -> Labels]
      /\ \A q \in Procs : pc'[q] = IF pc[q] = "iowait" /\ b[q] = i THEN "iotest" ELSE pc[q]
  BY <1>4, <1>5, Zenon DEF wakeup, Labels
<1>7. \A n \in 1 .. Len(idequeue') : idequeue'[n] # i /\ idequeue'[n] \in Bufs
  <2> SUFFICES ASSUME NEW n \in 1 .. Len(idequeue') PROVE idequeue'[n] # i /\ idequeue'[n] \in Bufs
    BY Zenon
  <2>1. n + 1 # 1 /\ 1 \in 1 .. Len(idequeue) /\ n + 1 \in 1 .. Len(idequeue) /\ idequeue'[n] = idequeue[n + 1]
    BY <1>2, <1>3
  <2>2. idequeue[n + 1] # idequeue[1]
    BY <2>1, Zenon DEF Inv, Queued
  <2> QED
    BY <1>2, <2>1, <2>2
<1> HIDE DEF i
<1>8. \A j \in Bufs : /\ buf'[j].blockno = buf[j].blockno /\ buf'[j].holder = buf[j].holder
                      /\ buf'[j].refcnt = buf[j].refcnt
  BY <1>1, Zenon
<1>9. /\ idequeue' = <<>> => device' = NoCommand
      /\ idequeue' # <<>> => device' = Command(idequeue'[1])
  BY <1>3 DEF ideintr
<1>10. Types'
  <2>1. NoCommand \in Commands
    BY Constants, Zenon DEF NoCommand, Commands
  <2>2. idequeue' # <<>> => idequeue'[1] \in Bufs
    BY <1>3
  <2>3. idequeue' # <<>> => Command(idequeue'[1]) \in Commands
    BY <2>2, Started, Zenon DEF Inv
  <2>4. device' \in Commands
    BY <1>9, <2>1, <2>3, Zenon
  <2> QED  BY <1>0, <1>1, <1>3, <1>6, <2>4, Zenon DEF Inv, Types
<1>11. \A q \in Procs : pc[q] # "idle" => b[q] \in Bufs
  BY HasBuffer, Zenon
<1>12. Places'
  BY <1>0, <1>6, <1>8, <1>11, Zenon DEF Inv, Places
<1>13. Unique' /\ Counted'
  BY <1>0, <1>8, CountKept DEF Inv, Unique
<1>14. Holders'
  <2>1. \A q \in Procs : (pc'[q] \in Past <=> pc[q] \in Past) /\ (pc'[q] = "asleep" <=> pc[q] = "asleep")
    BY <1>6, Zenon DEF Past
  <2>2. \A j \in Bufs : buf[j].holder # Nobody => buf[j].holder \in Procs
    BY <1>4, Zenon DEF Entry
  <2>3. \A q \in Procs : pc[q] \in Past \cup {"asleep"} => b[q] \in Bufs
    BY <1>11, Zenon DEF Past
  <2> QED  BY <1>0, <1>8, <2>1, <2>2, <2>3 DEF Inv, Holders
<1>15. Flags'
  <2>1. \A j \in Bufs : (buf'[j].dirty => buf'[j].valid) /\ (buf'[j].valid => buf'[j].blockno \in Blocks)
    BY <1>1, Zenon DEF Inv, Flags
  <2>2. \A q \in Procs : b[q] = i /\ pc'[q] \in Past => pc'[q] \in {"iotest"}
    <3>1. PICK p \in Procs : b[p] = i /\ pc[p] = "iowait"
      BY <1>2 DEF Inv, Queued, i
    <3>2. \A q \in Procs : b[q] = i /\ pc[q] \in Past => q = p
      BY <3>1 DEF Inv, Holders, Past
    <3> QED  BY <1>6, <3>1, <3>2, Zenon DEF Past
  <2>3. \A q \in Procs : b[q] # i => pc'[q] = pc[q]
    BY <1>6, Zenon
  <2>4. ASSUME NEW q \in Procs
        PROVE  /\ pc'[q] = "held" => buf'[b[q]].valid
               /\ pc'[q] = "iotest" => buf'[b[q]].valid /\ ~ buf'[b[q]].dirty
               /\ pc'[q] \in {"iderw", "iowait"} => buf'[b[q]].dirty \/ ~ buf'[b[q]].valid
    <3>1. CASE b[q] = i
      BY <1>1, <2>2, <3>1, Zenon DEF Past
    <3>2. CASE b[q] # i
      BY <1>1, <1>11, <2>3, <3>2 DEF Inv, Flags
    <3> QED  BY <3>1, <3>2, Zenon
  <2> QED  BY <1>0, <2>1, <2>4, Zenon DEF Flags
<1>16. Queued'
  <2>1. ASSUME NEW m \in 1 .. Len(idequeue'), NEW n \in 1 .. Len(idequeue'), idequeue'[m] = idequeue'[n]
        PROVE  m = n
    <3>1. /\ m + 1 \in 1 .. Len(idequeue) /\ n + 1 \in 1 .. Len(idequeue)
          /\ idequeue[m + 1] = idequeue[n + 1]
      BY <1>3, <2>1, Zenon
    <3>2. m + 1 = n + 1
      BY <3>1, Zenon DEF Inv, Queued
    <3> QED  BY <1>3, <3>2
  <2>2. ASSUME NEW n \in 1 .. Len(idequeue')
        PROVE  \E q \in Procs : b[q] = idequeue'[n] /\ pc'[q] = "iowait"
    <3>1. n + 1 \in 1 .. Len(idequeue) /\ idequeue'[n] = idequeue[n + 1]
      BY <1>3, Zenon
    <3>2. PICK q \in Procs : b[q] = idequeue[n + 1] /\ pc[q] = "iowait"
      BY <3>1, Zenon DEF Inv, Queued
    <3> QED  BY <1>6, <1>7, <3>1, <3>2, Zenon
  <2>3. ASSUME NEW q \in Procs, pc'[q] = "iowait"
        PROVE  \E n \in 1 .. Len(idequeue') : idequeue'[n] = b[q]
    <3>1. pc[q] = "iowait" /\ b[q] # i
      BY <1>6, <2>3, Zenon
    <3>2. PICK n \in 1 .. Len(idequeue) : idequeue[n] = b[q]
      BY <3>1, Zenon DEF Inv, Queued
    <3>3. n # 1
      BY <3>1, <3>2, Zenon DEF i
    <3>4. n - 1 \in 1 .. Len(idequeue') /\ idequeue'[n - 1] = idequeue[(n - 1) + 1] /\ (n - 1) + 1 = n
      BY <1>2, <1>3, <3>2, <3>3
    <3> QED  BY <3>2, <3>4, Zenon
  <2> QED  BY <1>0, <2>1, <2>2, <2>3, Zenon DEF Queued
<1>17. Transfer'
  <2>1. CASE idequeue' = <<>>
    BY <1>9, <2>1 DEF Transfer, NoCommand
  <2>2. CASE idequeue' # <<>>
    <3> DEFINE h == idequeue'[1]
    <3>1. h \in Bufs /\ h # i
      <4>1. 1 \in 1 .. Len(idequeue')
        BY <1>3, <2>2
      <4> QED  BY <1>7, <4>1, Zenon
    <3>2. /\ Command(h).op \in {"read", "write"}
          /\ Command(h).blockno = buf[h].blockno /\ Command(h).data = buf[h].data
          /\ Command(h).op = "write" <=> buf[h].dirty
      BY <3>1, Started, Zenon DEF Inv
    <3>3. device' = Command(h) /\ buf'[h] = buf[h]
      BY <1>1, <1>9, <2>2, <3>1, Zenon
    <3> HIDE DEF h
    <3>4. h = idequeue'[1]
      BY Zenon DEF h
    <3> QED  BY <2>2, <3>2, <3>3, <3>4, Zenon DEF Transfer, Working
  <2> QED  BY <2>1, <2>2, Zenon
<1>18. Clean'
  BY <1>0, <1>1 DEF Inv, Clean
<1> QED  BY <1>10, <1>12, <1>13, <1>14, <1>15, <1>16, <1>17, <1>18, Zenon DEF Inv

------------------------------------------------------------------------------
(* The invariant, and what it says                                          *)

\* binit()'s empty cache satisfies the invariant.
LEMMA InitInv == ASSUME Init PROVE Inv
<1>1. /\ \A i \in Bufs : /\ buf[i] \in Entry /\ buf[i].blockno = NoBlock /\ buf[i].refcnt = 0
                         /\ ~ buf[i].valid /\ ~ buf[i].dirty /\ buf[i].holder = Nobody
      /\ buf \in [Bufs -> Entry]
  BY Constants, Zenon DEF Init, Entry
<1>2. /\ \A p \in Procs : pc[p] = "idle" /\ b[p] = 0
      /\ pc \in [Procs -> Labels] /\ b \in [Procs -> Bufs \cup {0}]
      /\ idequeue = <<>> /\ device = NoCommand
  BY Zenon DEF Init, Labels
<1>3. Types
  <2>1. lru \in [Bufs -> Bufs]
    BY BufCacheAssumption DEF Init, Bufs
  <2>2. NoCommand \in Commands /\ disk \in [Blocks -> Vals]
    BY Constants, Zenon DEF Init, NoCommand, Commands
  <2> QED  BY <1>1, <1>2, <2>1, <2>2 DEF Types
<1>4. Counted
  <2>1. \A i \in Bufs : Users(i) = {}
    BY <1>2, Constants, Zenon DEF Users
  <2>2. \A i \in Bufs : Cardinality(Users(i)) = 0
    BY <2>1, FS_EmptySet, Zenon
  <2> QED  BY <1>1, <2>2, Zenon DEF Counted
<1>5. Places /\ Unique /\ Holders /\ Flags /\ Clean
  BY <1>1, <1>2, Zenon DEF Places, Unique, Holders, Flags, Clean, Past
<1>6. Queued /\ Transfer
  <2>1. Len(idequeue) = 0
    BY <1>2, Zenon
  <2> QED  BY <1>2, <2>1 DEF Queued, Transfer, NoCommand
<1> QED  BY <1>3, <1>4, <1>5, <1>6, Zenon DEF Inv

\* No step breaks the invariant.
LEMMA NextInv == ASSUME Inv, [Next]_vars PROVE Inv'
<1>1. ASSUME NEW p \in Procs, Step(p) PROVE Inv'
  BY <1>1, bgetStep, acquireStep, writeStep, releaseStep, brelseStep, iderwStep, testStep, Zenon DEF Step
<1>2. CASE UNCHANGED vars
  <2>1. /\ buf' = buf /\ lru' = lru /\ idequeue' = idequeue /\ disk' = disk /\ device' = device
        /\ pc' = pc /\ b' = b
    BY <1>2, Zenon DEF vars
  <2>2. Types' /\ Places' /\ Unique'
    BY <2>1, Zenon DEF Inv, Types, Places, Unique
  <2>3. Counted' /\ Holders'
    BY <2>1 DEF Inv, Counted, Users, Holders
  <2>4. Flags' /\ Queued'
    BY <2>1 DEF Inv, Flags, Queued
  <2>5. Transfer' /\ Clean'
    BY <2>1, Zenon DEF Inv, Transfer, Working, Clean
  <2> QED  BY <2>2, <2>3, <2>4, <2>5, Zenon DEF Inv
<1> QED  BY <1>1, <1>2, intrStep, DoneStep, Zenon DEF Next

\* The invariant holds for every number of buffers, processes and blocks.
THEOREM Inductive == Spec => []Inv
<1>1. Init => Inv
  BY InitInv, Zenon
<1>2. Inv /\ [Next]_vars => Inv'
  BY NextInv, Zenon
<1> QED  BY <1>1, <1>2, PTL DEF Spec

\* bget() and brelse() keep one buffer for a block and count its users, and
\* acquiresleep() lets one of them in: no buffer is recycled under a process.
THEOREM BuffersShared == Spec => []Shared
<1>1. Inv => Shared
  <2> SUFFICES ASSUME Inv, NEW i \in Bufs PROVE Inside(i) = {buf[i].holder} \ {Nobody}
    BY Zenon DEF Inv, Unique, Counted, Shared
  <2>1. buf[i].holder \in Procs \cup {Nobody} /\ Nobody \notin Procs
    BY Constants, Zenon DEF Inv, Types, Entry
  <2>2. \A p \in Procs : p \in Inside(i) => p = buf[i].holder
    BY Zenon DEF Inv, Holders, Inside, Users, Past
  <2>3. buf[i].holder # Nobody => buf[i].holder \in Inside(i)
    BY <2>1, Zenon DEF Inv, Holders, Inside, Users, Past
  <2>4. Inside(i) \subseteq Procs
    BY Zenon DEF Inside, Users
  <2> QED  BY <2>1, <2>2, <2>3, <2>4, Zenon
<1> QED  BY <1>1, Inductive, PTL

\* No wakeup is lost: whoever waits in iderw() has a request in the queue, whose
\* first one the disk works on, and whoever waits in acquiresleep() a holder.
THEOREM WaitersServed == Spec => []Awaited
<1>1. Inv => Awaited
  <2> SUFFICES ASSUME Inv PROVE Awaited
    BY Zenon
  <2>1. idequeue \in Seq(Bufs)
    BY Zenon DEF Inv, Types
  <2>2. idequeue # <<>> => Head(idequeue) = idequeue[1]
    BY <2>1
  <2>3. DOMAIN idequeue = 1 .. Len(idequeue)
    BY <2>1
  <2> QED  BY <2>2, <2>3 DEF Inv, Transfer, Working, Queued, Holders, Awaited
<1> QED  BY <1>1, Inductive, PTL

------------------------------------------------------------------------------
(* The cache implements a store of blocks                                   *)

\* The block of a buffer that has been read is what the buffer says, and the
\* holder owns it; any other block is what the disk says, and nobody's.
LEMMA Cell ==
  ASSUME Unique, NEW k \in Blocks
  PROVE  /\ \A i \in Bufs : buf[i].blockno = k /\ buf[i].valid =>
               Content(k) = buf[i].data /\ Owner(k) = buf[i].holder
         /\ (\A i \in Bufs : buf[i].blockno = k => ~ buf[i].valid) =>
               Content(k) = disk[k] /\ Owner(k) = Nobody
<1>1. ASSUME NEW i \in Bufs, buf[i].blockno = k, buf[i].valid
      PROVE  Content(k) = buf[i].data /\ Owner(k) = buf[i].holder
  <2>1. Read(k) = {i}
    BY <1>1, Constants, Zenon DEF Unique, Read, Cached
  <2>2. (CHOOSE j \in {i} : TRUE) = i
    BY Zenon
  <2> QED  BY <2>1, <2>2, Zenon DEF Content, Owner
<1>2. ASSUME \A i \in Bufs : buf[i].blockno = k => ~ buf[i].valid
      PROVE  Content(k) = disk[k] /\ Owner(k) = Nobody
  <2>1. Read(k) = {}
    BY <1>2, Zenon DEF Read, Cached
  <2> QED  BY <2>1, Zenon DEF Content, Owner
<1> QED  BY <1>1, <1>2, Zenon

\* The same after a step
LEMMA CellNext ==
  ASSUME Unique', NEW k \in Blocks
  PROVE  /\ \A i \in Bufs : buf'[i].blockno = k /\ buf'[i].valid =>
               Content(k)' = buf'[i].data /\ Owner(k)' = buf'[i].holder
         /\ (\A i \in Bufs : buf'[i].blockno = k => ~ buf'[i].valid) =>
               Content(k)' = disk'[k] /\ Owner(k)' = Nobody
<1>1. ASSUME NEW i \in Bufs, buf'[i].blockno = k, buf'[i].valid
      PROVE  Content(k)' = buf'[i].data /\ Owner(k)' = buf'[i].holder
  <2>1. Read(k)' = {i}
    BY <1>1, Constants, Zenon DEF Unique, Read, Cached
  <2>2. (CHOOSE j \in {i} : TRUE) = i
    BY Zenon
  <2> QED  BY <2>1, <2>2, Zenon DEF Content, Owner
<1>2. ASSUME \A i \in Bufs : buf'[i].blockno = k => ~ buf'[i].valid
      PROVE  Content(k)' = disk'[k] /\ Owner(k)' = Nobody
  <2>1. Read(k)' = {}
    BY <1>2, Zenon DEF Read, Cached
  <2> QED  BY <2>1, Zenon DEF Content, Owner
<1> QED  BY <1>1, <1>2, Zenon

\* A step does not show in block k.
Same(k) == Content(k)' = Content(k) /\ Owner(k)' = Owner(k)

\* A block looks the same when its buffer, or the disk, does.
LEMMA Looks ==
  ASSUME Inv, Inv', NEW k \in Blocks,
         \A i \in Bufs : buf[i].blockno = k \/ buf'[i].blockno = k =>
            /\ buf'[i].blockno = buf[i].blockno /\ buf'[i].valid = buf[i].valid
            /\ buf[i].valid => buf'[i].data = buf[i].data /\ buf'[i].holder = buf[i].holder,
         disk'[k] = disk[k] \/ \E i \in Bufs : buf[i].blockno = k /\ buf[i].valid
  PROVE  Same(k)
<1>1. Unique /\ Unique'
  BY Zenon DEF Inv
<1>2. CASE \E i \in Bufs : buf[i].blockno = k /\ buf[i].valid
  <2>1. PICK i \in Bufs : buf[i].blockno = k /\ buf[i].valid
    BY <1>2, Zenon
  <2>2. Content(k) = buf[i].data /\ Owner(k) = buf[i].holder
    BY <1>1, <2>1, Cell, Zenon
  <2>3. Content(k)' = buf'[i].data /\ Owner(k)' = buf'[i].holder
    BY <1>1, <2>1, CellNext, Zenon
  <2> QED  BY <2>1, <2>2, <2>3, Zenon DEF Same
<1>3. CASE \A i \in Bufs : buf[i].blockno = k => ~ buf[i].valid
  <2>1. Content(k) = disk[k] /\ Owner(k) = Nobody
    BY <1>1, <1>3, Cell, Zenon
  <2>2. Content(k)' = disk'[k] /\ Owner(k)' = Nobody
    BY <1>1, <1>3, CellNext, Zenon
  <2> QED  BY <1>3, <2>1, <2>2, Zenon DEF Same
<1> QED  BY <1>2, <1>3, Zenon

content == [k \in Blocks |-> Content(k)]
owner == [k \in Blocks |-> Owner(k)]

\* The steps of the store: nothing, taking or leaving a block, storing into it
LEMMA StoreStutter == ASSUME \A k \in Blocks : Same(k) PROVE UNCHANGED <<content, owner>>
  BY Zenon DEF Same, content, owner

\* A lock that is taken or given back is a Take or a Leave of the store.
LEMMA StoreTakes ==
  ASSUME NEW p \in Procs, NEW k \in Blocks,
         \A m \in Blocks \ {k} : Same(m), Content(k)' = Content(k),
         (Owner(k) = Nobody /\ Owner(k)' = p) \/ (Owner(k) = p /\ Owner(k)' = Nobody)
  PROVE  [Store!Next]_<<content, owner>>
<1>1. content' = content
  BY Zenon DEF Same, content
<1>2. owner' = [owner EXCEPT ![k] = Owner(k)'] /\ owner[k] = Owner(k)
  BY Zenon DEF Same, owner
<1>3. Store!Take(p, k) \/ Store!Leave(p, k)
  BY <1>2, Zenon DEF Store!Take, Store!Leave, owner
<1> QED  BY <1>1, <1>3, Zenon DEF Store!Next, content, owner

\* A write by the holder of a block's lock is a Store of BlockStore.
LEMMA StoreStores ==
  ASSUME NEW p \in Procs, NEW k \in Blocks, NEW v \in Vals,
         \A m \in Blocks \ {k} : Same(m), Content(k)' = v, Owner(k) = p, Owner(k)' = p
  PROVE  [Store!Next]_<<content, owner>>
<1>1. owner' = owner /\ owner[k] = p
  BY Zenon DEF Same, owner
<1>2. content' = [content EXCEPT ![k] = v]
  BY Zenon DEF Same, content
<1>3. Store!Store(p, k)
  BY <1>1, <1>2, Zenon DEF Store!Store, content, owner
<1> QED  BY <1>1, <1>3, Zenon DEF Store!Next, content, owner

\* References, the queue and the disk do not show.
LEMMA hiddenStores ==
  ASSUME Inv, Inv', NEW p, iderw(p) \/ iderwTest(p) \/ UNCHANGED vars
  PROVE  \A k \in Blocks : Same(k)
<1>1. buf' = buf /\ disk' = disk
  BY Zenon DEF iderw, iderwTest, vars
<1> QED  BY <1>1, Looks, Zenon

\* Writing a block out does not show: its buffer has what is written.
LEMMA DoneStores == ASSUME Inv, Inv', Done PROVE \A k \in Blocks : Same(k)
<1>1. device.op \in {"read", "write"} /\ device.op # "none" /\ buf' = buf
  BY Zenon DEF Done
<1>2. idequeue # <<>> /\ idequeue[1] \in Bufs /\ device.blockno = buf[idequeue[1]].blockno
  BY <1>1, First, Zenon
<1>3. device.op = "write" => buf[idequeue[1]].valid
  BY <1>2, Zenon DEF Inv, Transfer, Working, Flags
<1>4. disk \in [Blocks -> Vals]
  BY Zenon DEF Inv, Types
<1>5. \A k \in Blocks : disk'[k] = disk[k] \/ (device.op = "write" /\ k = device.blockno)
  BY <1>4, Zenon DEF Done
<1>6. \A k \in Blocks : disk'[k] = disk[k] \/ \E i \in Bufs : buf[i].blockno = k /\ buf[i].valid
  BY <1>2, <1>3, <1>5, Zenon
<1> QED  BY <1>1, <1>6, Looks, Zenon

\* Taking and giving up a reference do not show, nor does recycling a buffer:
\* what it had is on the disk.
LEMMA refStores ==
  ASSUME Inv, Inv', NEW p \in Procs, bget(p) \/ brelse(p) PROVE \A k \in Blocks : Same(k)
<1>0. buf \in [Bufs -> Entry] /\ lru \in [Bufs -> Bufs] /\ disk' = disk
  BY Zenon DEF Inv, Types, bget, brelse
<1>1. ASSUME NEW i \in Bufs, NEW n, buf' = [buf EXCEPT ![i].refcnt = n]
      PROVE  \A k \in Blocks : Same(k)
  <2>1. \A j \in Bufs : /\ buf'[j].blockno = buf[j].blockno /\ buf'[j].holder = buf[j].holder
                        /\ buf'[j].valid = buf[j].valid /\ buf'[j].data = buf[j].data
    BY <1>0, <1>1 DEF Entry
  <2> QED  BY <1>0, <2>1, Looks, Zenon
<1>2. CASE brelse(p)
  <2>1. b[p] \in Bufs
    BY <1>2, HasBuffer, Zenon DEF brelse
  <2>2. buf' = [buf EXCEPT ![b[p]].refcnt = buf[b[p]].refcnt - 1]
    BY <1>2, Zenon DEF brelse
  <2> QED  BY <1>1, <2>1, <2>2, Zenon
<1>3. CASE bget(p)
  <2>1. PICK m \in Blocks, i \in Bufs :
          \/ i \in Cached(m) /\ buf' = [buf EXCEPT ![i].refcnt = buf[i].refcnt + 1]
          \/ /\ Cached(m) = {} /\ \E j \in Recyclable : i = lru[j]
             /\ buf' = [buf EXCEPT ![i] = [@ EXCEPT !.blockno = m, !.valid = FALSE,
                                                    !.data = AnyVal, !.refcnt = 1]]
    BY <1>3, Zenon DEF bget
  <2>2. CASE i \in Cached(m) /\ buf' = [buf EXCEPT ![i].refcnt = buf[i].refcnt + 1]
    BY <1>1, <2>2, Zenon
  <2>3. CASE /\ Cached(m) = {} /\ \E j \in Recyclable : i = lru[j]
             /\ buf' = [buf EXCEPT ![i] = [@ EXCEPT !.blockno = m, !.valid = FALSE,
                                                    !.data = AnyVal, !.refcnt = 1]]
    <3>1. buf[i].refcnt = 0 /\ ~ buf[i].dirty /\ \A j \in Bufs : buf[j].blockno # m
      BY <1>0, <2>3, Zenon DEF Recyclable, Cached
    <3>2. /\ \A j \in Bufs \ {i} : buf'[j] = buf[j]
          /\ buf'[i].blockno = m /\ ~ buf'[i].valid
      BY <1>0, <2>3, Recycle, Zenon
    <3>3. buf[i].holder = Nobody
      BY <3>1, Free, Zenon
    <3> SUFFICES ASSUME NEW k \in Blocks PROVE Same(k)
      BY Zenon
    <3>4. CASE k # m /\ k # buf[i].blockno
      BY <1>0, <3>2, <3>4, Looks, Zenon
    <3>5. CASE k = m
      <4>1. Content(k) = disk[k] /\ Owner(k) = Nobody
        BY <3>1, <3>5, Cell, Zenon DEF Inv
      <4>2. \A j \in Bufs : buf'[j].blockno = k => ~ buf'[j].valid
        BY <3>1, <3>2, <3>5, Zenon
      <4>3. Content(k)' = disk'[k] /\ Owner(k)' = Nobody
        BY <4>2, CellNext, Zenon DEF Inv
      <4> QED  BY <1>0, <4>1, <4>3, Zenon DEF Same
    <3>6. CASE k # m /\ k = buf[i].blockno
      <4>1. \A j \in Bufs : buf'[j].blockno # k
        BY <3>2, <3>6, Constants, Zenon DEF Inv, Unique
      <4>2. Content(k)' = disk'[k] /\ Owner(k)' = Nobody
        BY <4>1, CellNext, Zenon DEF Inv
      <4>3. CASE buf[i].valid
        <5>1. Content(k) = buf[i].data /\ Owner(k) = buf[i].holder
          BY <3>6, <4>3, Cell, Zenon DEF Inv
        <5>2. buf[i].data = disk[k]
          BY <3>1, <3>6, <4>3, Zenon DEF Inv, Clean
        <5> QED  BY <1>0, <3>3, <4>2, <5>1, <5>2 DEF Same
      <4>4. CASE ~ buf[i].valid
        <5>1. \A j \in Bufs : buf[j].blockno = k => ~ buf[j].valid
          BY <3>6, <4>4, Constants, Zenon DEF Inv, Unique
        <5>2. Content(k) = disk[k] /\ Owner(k) = Nobody
          BY <5>1, Cell, Zenon DEF Inv
        <5> QED  BY <1>0, <4>2, <5>2, Zenon DEF Same
      <4> QED  BY <4>3, <4>4, Zenon
    <3> QED  BY <3>4, <3>5, <3>6, Zenon
  <2> QED  BY <2>1, <2>2, <2>3, Zenon
<1> QED  BY <1>2, <1>3, Zenon

\* A change of buffer i shows in its block only.
LEMMA OneShows ==
  ASSUME Inv, Inv', NEW i \in Bufs, NEW k \in Blocks, buf[i].blockno = k, disk' = disk,
         \A j \in Bufs \ {i} : buf'[j] = buf[j], buf'[i].blockno = buf[i].blockno
  PROVE  /\ \A m \in Blocks \ {k} : Same(m)
         /\ buf[i].valid => Content(k) = buf[i].data /\ Owner(k) = buf[i].holder
         /\ ~ buf[i].valid => Content(k) = disk[k] /\ Owner(k) = Nobody
         /\ buf'[i].valid => Content(k)' = buf'[i].data /\ Owner(k)' = buf'[i].holder
<1>1. \A j \in Bufs : buf[j].blockno = k => j = i
  BY Constants, Zenon DEF Inv, Unique
<1>2. \A m \in Blocks \ {k} : Same(m)
  BY Looks, Zenon
<1>3. ~ buf[i].valid => Content(k) = disk[k] /\ Owner(k) = Nobody
  BY <1>1, Cell, Zenon DEF Inv
<1>4. buf[i].valid => Content(k) = buf[i].data /\ Owner(k) = buf[i].holder
  BY Cell DEF Inv
<1>5. buf'[i].valid => Content(k)' = buf'[i].data /\ Owner(k)' = buf'[i].holder
  BY CellNext DEF Inv
<1> QED  BY <1>2, <1>3, <1>4, <1>5, Zenon

\* acquiresleep() takes a block that has been read, releasesleep() leaves it.
LEMMA lockStores ==
  ASSUME Inv, Inv', NEW p \in Procs, acquiresleep(p) \/ releasesleep(p)
  PROVE  [Store!Next]_<<content, owner>>
<1>0. /\ buf \in [Bufs -> Entry] /\ disk' = disk /\ b' = b
  BY Zenon DEF Inv, Types, acquiresleep, releasesleep
<1>1. pc[p] # "idle"
  BY Zenon DEF acquiresleep, releasesleep
<1>2. b[p] \in Bufs /\ buf[b[p]].blockno \in Blocks
  BY <1>1, HasBuffer, Zenon
<1>3. PICK k \in Blocks, i \in Bufs : i = b[p] /\ buf[i].blockno = k
  BY <1>2, Zenon
<1>4. CASE buf' = buf
  <2>1. \A m \in Blocks : Same(m)
    BY <1>0, <1>4, Looks, Zenon
  <2> QED  BY <2>1, StoreStutter, Zenon
<1>5. ASSUME NEW h \in Procs \cup {Nobody}, buf' = [buf EXCEPT ![i].holder = h],
             (h = p /\ buf[i].holder = Nobody) \/ (h = Nobody /\ buf[i].holder = p)
      PROVE  [Store!Next]_<<content, owner>>
  <2>1. /\ \A j \in Bufs \ {i} : buf'[j] = buf[j]
        /\ buf'[i].holder = h /\ buf'[i].blockno = buf[i].blockno
        /\ buf'[i].valid = buf[i].valid /\ buf'[i].data = buf[i].data
    BY <1>0, <1>5, SetHolder, Zenon
  <2>2. /\ \A m \in Blocks \ {k} : Same(m)
        /\ buf[i].valid => Content(k) = buf[i].data /\ Owner(k) = buf[i].holder
        /\ buf'[i].valid => Content(k)' = buf'[i].data /\ Owner(k)' = buf'[i].holder
    BY <1>0, <1>3, <2>1, OneShows, Zenon
  <2>3. CASE buf[i].valid
    <3>1. Content(k)' = Content(k) /\ Owner(k) = buf[i].holder /\ Owner(k)' = h
      BY <2>1, <2>2, <2>3, Zenon
    <3>2. (Owner(k) = Nobody /\ Owner(k)' = p) \/ (Owner(k) = p /\ Owner(k)' = Nobody)
      BY <1>5, <3>1, Zenon
    <3> QED  BY <2>2, <3>1, <3>2, StoreTakes, Zenon
  <2>4. CASE ~ buf[i].valid
    <3>1. Same(k)
      <4>1. \A j \in Bufs : buf[j].blockno = k \/ buf'[j].blockno = k => j = i
        BY <1>3, <2>1, Constants DEF Inv, Unique
      <4> QED  BY <1>0, <2>1, <2>4, <4>1, Looks, Zenon
    <3>2. \A m \in Blocks : Same(m)
      BY <2>2, <3>1, Zenon
    <3> QED  BY <3>2, StoreStutter, Zenon
  <2> QED  BY <2>3, <2>4, Zenon
<1>6. CASE acquiresleep(p)
  <2>1. \/ buf' = buf
        \/ buf[i].holder = Nobody /\ buf' = [buf EXCEPT ![i].holder = p]
    BY <1>3, <1>6, Zenon DEF acquiresleep
  <2>2. p \in Procs \cup {Nobody}
    BY Zenon
  <2>3. CASE buf[i].holder = Nobody /\ buf' = [buf EXCEPT ![i].holder = p]
    <3>1. (p = p /\ buf[i].holder = Nobody) \/ (p = Nobody /\ buf[i].holder = p)
      BY <2>3, Zenon
    <3> QED  BY <1>5, <2>2, <2>3, <3>1, Zenon
  <2> QED  BY <1>4, <2>1, <2>3, Zenon
<1>7. CASE releasesleep(p)
  <2>1. buf' = [buf EXCEPT ![i].holder = Nobody] /\ pc[p] = "held"
    BY <1>3, <1>7, Zenon DEF releasesleep
  <2>2. buf[i].holder = p
    BY <1>3, <2>1, Zenon DEF Inv, Holders, Past
  <2>3. /\ Nobody \in Procs \cup {Nobody}
        /\ (Nobody = p /\ buf[i].holder = Nobody) \/ (Nobody = Nobody /\ buf[i].holder = p)
    BY <2>2, Zenon
  <2> QED  BY <1>5, <2>1, <2>3, Zenon
<1> QED  BY <1>6, <1>7, Zenon

\* bwrite() and log_write() store into a block the process owns.
LEMMA writeStores ==
  ASSUME Inv, Inv', NEW p \in Procs, bwrite(p) \/ log_write(p)
  PROVE  [Store!Next]_<<content, owner>>
<1>0. buf \in [Bufs -> Entry] /\ disk' = disk /\ pc[p] = "held"
  BY Zenon DEF Inv, Types, bwrite, log_write
<1>1. PICK k \in Blocks, i \in Bufs : i = b[p] /\ buf[i].blockno = k /\ buf[i].valid /\ buf[i].holder = p
  BY <1>0, HasBuffer, SMTT(30) DEF Inv, Flags, Holders, Past
<1>2. PICK v \in Vals : buf' = [buf EXCEPT ![i] = [@ EXCEPT !.data = v, !.dirty = TRUE]]
  BY <1>1, Zenon DEF bwrite, log_write
<1>3. /\ \A j \in Bufs \ {i} : buf'[j] = buf[j]
      /\ buf'[i].data = v /\ buf'[i].blockno = buf[i].blockno /\ buf'[i].holder = buf[i].holder
      /\ buf'[i].valid = buf[i].valid
  BY <1>0, <1>2, SetData, Zenon
<1>4. /\ \A m \in Blocks \ {k} : Same(m)
      /\ buf[i].valid => Content(k) = buf[i].data /\ Owner(k) = buf[i].holder
      /\ buf'[i].valid => Content(k)' = buf'[i].data /\ Owner(k)' = buf'[i].holder
  BY <1>0, <1>1, <1>3, OneShows, Zenon
<1>5. Owner(k) = p /\ Owner(k)' = p /\ Content(k)' = v
  BY <1>1, <1>3, <1>4, Zenon
<1> QED  BY <1>4, <1>5, StoreStores, Zenon

\* The end of a read gives the block to the holder of its buffer; the end of a
\* write does not show.
LEMMA intrStores == ASSUME Inv, Inv', ideintr PROVE [Store!Next]_<<content, owner>>
<1>1. PICK i : i = idequeue[1]
  BY Zenon
<1>2. /\ i \in Bufs /\ buf[i].blockno \in Blocks
      /\ \A j \in Bufs \ {i} : buf'[j] = buf[j]
      /\ buf'[i].data = disk[buf[i].blockno] /\ (buf[i].dirty => buf'[i].data = buf[i].data)
      /\ buf'[i].valid
      /\ buf'[i].blockno = buf[i].blockno /\ buf'[i].holder = buf[i].holder
      /\ disk' = disk
  BY <1>1, intrFields, Zenon
<1>3. PICK k \in Blocks : k = buf[i].blockno
  BY <1>2, Zenon
<1>4. PICK p \in Procs : b[p] = i /\ pc[p] = "iowait"
  <2>1. device.op # "none"
    BY Zenon DEF ideintr
  <2>2. 1 \in 1 .. Len(idequeue)
    BY <2>1, First
  <2> QED  BY <1>1, <2>2 DEF Inv, Queued
<1>5. buf[i].holder = p /\ (buf[i].dirty \/ ~ buf[i].valid) /\ (buf[i].dirty => buf[i].valid)
  BY <1>2, <1>4, Zenon DEF Inv, Holders, Flags, Past
<1>6. /\ \A m \in Blocks \ {k} : Same(m)
      /\ buf[i].valid => Content(k) = buf[i].data /\ Owner(k) = buf[i].holder
      /\ ~ buf[i].valid => Content(k) = disk[k] /\ Owner(k) = Nobody
      /\ buf'[i].valid => Content(k)' = buf'[i].data /\ Owner(k)' = buf'[i].holder
  BY <1>2, <1>3, OneShows, Zenon
<1>7. CASE buf[i].valid
  <2>1. Same(k)
    BY <1>2, <1>5, <1>6, <1>7, Zenon DEF Same
  <2>2. \A m \in Blocks : Same(m)
    BY <1>6, <2>1, Zenon
  <2> QED  BY <2>2, StoreStutter, Zenon
<1>8. CASE ~ buf[i].valid
  <2>1. Owner(k) = Nobody /\ Owner(k)' = p /\ Content(k)' = Content(k)
    BY <1>2, <1>3, <1>5, <1>6, <1>8, Zenon
  <2>2. \A m \in Blocks \ {k} : Same(m)
    BY <1>6, Zenon
  <2>3. (Owner(k) = Nobody /\ Owner(k)' = p) \/ (Owner(k) = p /\ Owner(k)' = Nobody)
    BY <2>1, Zenon
  <2> QED  BY <2>1, <2>2, <2>3, StoreTakes, Zenon
<1> QED  BY <1>7, <1>8, Zenon

\* The cache, the request queue and the disk are a store of blocks, each with
\* one content that only the process that owns the block changes: reading ahead
\* of a lock, recycling, writing out and the order of requests do not show.
THEOREM CacheImplementsStore == Spec => ImplementsStore
<1>1. Init => Store!Init
  <2> SUFFICES ASSUME Init PROVE Store!Init
    BY Zenon
  <2>1. Inv /\ \A i \in Bufs : ~ buf[i].valid
    BY InitInv, Zenon DEF Init
  <2>2. \A k \in Blocks : Content(k) = disk[k] /\ Owner(k) = Nobody
    BY <2>1, Cell, Zenon DEF Inv
  <2>3. \A k \in Blocks : disk[k] \in Vals
    BY <2>1, Zenon DEF Inv, Types
  <2>4. content \in [Blocks -> Vals] /\ owner = [k \in Blocks |-> Nobody]
    BY <2>2, <2>3, Zenon DEF content, owner
  <2> QED  BY <2>4, Zenon DEF Store!Init, content, owner
<1>2. Inv /\ Inv' /\ [Next]_vars => [Store!Next]_<<content, owner>>
  <2> SUFFICES ASSUME Inv, Inv', [Next]_vars PROVE [Store!Next]_<<content, owner>>
    BY Zenon
  <2>1. CASE UNCHANGED vars
    BY <2>1, hiddenStores, StoreStutter, Zenon
  <2>2. ASSUME NEW p \in Procs, Step(p) PROVE [Store!Next]_<<content, owner>>
    <3>1. CASE bget(p) \/ brelse(p)
      BY <3>1, refStores, StoreStutter, Zenon
    <3>2. CASE iderw(p) \/ iderwTest(p)
      BY <3>2, hiddenStores, StoreStutter, Zenon
    <3> QED  BY <2>2, <3>1, <3>2, lockStores, writeStores, Zenon DEF Step
  <2>3. CASE Done
    BY <2>3, DoneStores, StoreStutter, Zenon
  <2>4. CASE ideintr
    BY <2>4, intrStores, Zenon
  <2> QED  BY <2>1, <2>2, <2>3, <2>4, Zenon DEF Next
<1> QED  BY <1>1, <1>2, Inductive, PTL DEF Spec, ImplementsStore, Store!Spec, content, owner

==============================================================================
