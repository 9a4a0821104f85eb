------------------------------- MODULE Inodes -------------------------------
(***************************************************************************)
(* The inode layer of the xv6 kernel (fs.c) and the system calls above it  *)
(* (sysfile.c, file.c): the inode cache with its reference counts and its  *)
(* sleep-locks, block allocation, directories, path lookup, and the calls  *)
(* open, mkdir, mknod, link, unlink, chdir, read, write and close.         *)
(*                                                                         *)
(* A step of a process is what it does up to the release of an inode's     *)
(* lock or to the next lock it must wait for.  Everything inside such a    *)
(* step touches only what the locks it holds protect, plus one access      *)
(* under icache.lock, so the steps of others may be moved out of it.       *)
(*                                                                         *)
(* Below this layer is the redo log (module Log): the writes of all calls  *)
(* between two moments with no call outstanding reach the disk together.   *)
(* The log's promise is taken from AtomicDisk: end_op() of the last call   *)
(* makes `disk' equal to what the calls see, a crash goes back to `disk'.  *)
(***************************************************************************)
EXTENDS Naturals, Sequences, FiniteSets, FiniteSetsExt, SequencesExt

CONSTANTS
  Procs,        \* the processes
  Nobody,       \* the holder of a free lock
  Inums,        \* inode numbers of the disk, ROOTINO the least of them
  DataBlocks,   \* the data blocks of the disk
  NINODE,       \* slots of the inode cache
  NDIRECT,      \* direct blocks of an inode
  NINDIRECT,    \* blocks an indirect block lists
  Image,        \* what the disk holds at first
  Start,        \* the working directory of the processes at first
  Calls,        \* the calls with their arguments
  MaxCalls,     \* bound: calls made in a behaviour
  MaxCrashes    \* bound: crashes in a behaviour

ROOTINO == Min(Inums)
MAXFILE == NDIRECT + NINDIRECT
Slots == 1 .. NINODE
Registers == {"cur", "old", "dp", "ip", "cwd", "fd"}

ASSUME SizesAssumption ==
  /\ Inums \subseteq Nat \ {0} /\ Inums # {}
  /\ DataBlocks \subseteq Nat \ {0}
  /\ NINODE \in Nat \ {0} /\ NDIRECT \in Nat \ {0} /\ NINDIRECT \in Nat
  /\ Nobody \notin Procs /\ Start \in Inums

VARIABLES
  fs,      \* inode cache, and the disk's blocks as the calls see them
  disk,    \* the disk's blocks as a crash would leave them
  reg,     \* the inode pointers of a process (0: null); cwd and fd outlive calls
  file,    \* f->off and f->writable of a process' open file
  todo,    \* the steps left of a process' call
  call,    \* the call, with the rest of the path it walks
  inop,    \* the processes between begin_op() and end_op()
  calls, crashes

vars == <<fs, disk, reg, file, todo, call, inop, calls, crashes>>

-----------------------------------------------------------------------------
(* Blocks and inodes: every operator maps the state k of the file system   *)
(* to the state after the function of the same name.                       *)

Zero == [type |-> "none", nlink |-> 0, size |-> 0, addrs |-> <<>>, ind |-> 0]

EmptySlot == [inum |-> 0, ref |-> 0, valid |-> FALSE, ino |-> Zero, holder |-> Nobody]

Durable(k) == [dinode |-> k.dinode, dirent |-> k.dirent, indirect |-> k.indirect,
               used |-> k.used, buried |-> k.buried]

\* The allocated inodes without a link.
Unlinked(d) == {i \in Inums : d.dinode[i].type # "none" /\ d.dinode[i].nlink = 0}

\* After boot every process is in the root, which is not read yet.  Nothing looks
\* for the inodes that were unlinked and in use when the machine stopped: they
\* are lost.
Booted(d) == [dinode |-> d.dinode, dirent |-> d.dirent, indirect |-> d.indirect,
              used |-> d.used, buried |-> d.buried, panic |-> "",
              lost |-> Unlinked(d), astray |-> {},
              icache |-> [s \in Slots |->
                IF s = 1 THEN [EmptySlot EXCEPT !.inum = ROOTINO,
                                                !.ref = Cardinality(Procs)]
                         ELSE EmptySlot]]

Panic(k, why) == IF k.panic = "" THEN [k EXCEPT !.panic = why] ELSE k

\* The block is marked in the bitmap and zeroed.
balloc(k, b) ==
  [k EXCEPT !.used = @ \cup {b}, !.dirent[b] = {}, !.indirect[b] = <<>>]

FreeBlock(k) == Min(DataBlocks \ k.used)

\* The blocks an inode points to, the indirect one and those it lists included.
BlocksOf(k, n) ==
  Range(n.addrs) \cup (IF n.ind = 0 THEN {} ELSE {n.ind} \cup Range(k.indirect[n.ind]))

bfree(k, bs) == IF bs \subseteq k.used THEN [k EXCEPT !.used = @ \ bs]
                                       ELSE Panic(k, "freeing free block")

iupdate(k, s) == [k EXCEPT !.dinode[k.icache[s].inum] = k.icache[s].ino]

SlotOf(k, inum) ==
  LET hit == {s \in Slots : k.icache[s].ref > 0 /\ k.icache[s].inum = inum}
      empty == {s \in Slots : k.icache[s].ref = 0}
  IN  IF hit # {} THEN Min(hit) ELSE IF empty # {} THEN Min(empty) ELSE 0

iget(k, inum) ==
  LET s == SlotOf(k, inum)
  IN  IF s = 0 THEN Panic(k, "iget: no inodes")
      ELSE IF k.icache[s].ref > 0 THEN [k EXCEPT !.icache[s].ref = @ + 1]
      ELSE [k EXCEPT !.icache[s] = [EmptySlot EXCEPT !.inum = inum, !.ref = 1]]

idup(k, s) == [k EXCEPT !.icache[s].ref = @ + 1]

ilock(k, p, s) ==
  LET c == k.icache[s]
      n == IF c.valid THEN c.ino ELSE k.dinode[c.inum]
      l == [k EXCEPT !.icache[s] = [c EXCEPT !.holder = p, !.valid = TRUE, !.ino = n]]
  IN  IF ~c.valid /\ n.type = "none" THEN Panic(l, "ilock: no type") ELSE l

iunlock(k, s) == [k EXCEPT !.icache[s].holder = Nobody]

\* The file is written without holes: block bn is there or is the next one.
bmap(k, s, bn) ==
  LET n == k.icache[s].ino
      b == FreeBlock(k)
      i == IF n.ind = 0 THEN [balloc(k, b) EXCEPT !.icache[s].ino.ind = b] ELSE k
      c == FreeBlock(i)
  IN  IF bn < NDIRECT
      THEN IF bn < Len(n.addrs) THEN k
           ELSE [balloc(k, b) EXCEPT !.icache[s].ino.addrs = Append(@, b)]
      ELSE IF n.ind # 0 /\ bn - NDIRECT < Len(k.indirect[n.ind]) THEN k
           ELSE [balloc(i, c) EXCEPT !.indirect[i.icache[s].ino.ind] = Append(@, c)]

itrunc(k, s) ==
  LET n == k.icache[s].ino
      t == [n EXCEPT !.addrs = <<>>, !.ind = 0, !.size = 0]
  IN  iupdate([bfree(k, BlocksOf(k, n)) EXCEPT !.icache[s].ino = t], s)

\* The blocks bmap() allocates for block bn of an inode.
Allocates(n, bn) ==
  IF bn < n.size THEN 0 ELSE IF bn < NDIRECT \/ n.ind # 0 THEN 1 ELSE 2

\* One block is written at offset o (in blocks); TooFar is the -1 of the code.
TooFar(n, o) == o > n.size \/ o + 1 > MAXFILE

writei(k, s, o) ==
  IF Cardinality(DataBlocks \ k.used) < Allocates(k.icache[s].ino, o)
  THEN Panic(k, "balloc: out of blocks")
  ELSE LET w == bmap(k, s, o)
       IN  IF o + 1 > w.icache[s].ino.size
           THEN iupdate([w EXCEPT !.icache[s].ino.size = o + 1], s)
           ELSE w

readi(n, o) == IF o < n.size THEN 1 ELSE 0

(* Directories: the entries are in the directory's first block, which is    *)
(* large enough for every name a run uses.                                 *)

Entries(k, s) ==
  LET n == k.icache[s].ino IN IF n.size = 0 THEN {} ELSE k.dirent[Head(n.addrs)]

\* The inode number of the entry called name, 0 when there is none.
dirlookup(k, s, name) ==
  LET found == {e \in Entries(k, s) : e.name = name}
  IN  IF found = {} THEN 0 ELSE (CHOOSE e \in found : TRUE).inum

\* The part of dirlink() that follows its test that the name is not there.
dirlink(k, s, name, inum) ==
  LET n == k.icache[s].ino
      w == IF n.size = 0 THEN writei(k, s, 0) ELSE k
      b == Head(w.icache[s].ino.addrs)
  IN  IF w.panic # "" THEN w
      ELSE [w EXCEPT !.dirent[b] = @ \cup {[name |-> name, inum |-> inum]}]

\* Notes that inode inum is entered in a directory that has been removed.
Bury(k, s, nlink, inum) ==
  LET dp == k.icache[s].inum
  IN  IF nlink > 0 /\ dp \notin k.buried THEN k
      ELSE [k EXCEPT !.buried = @ \cup {inum, dp}]

isdirempty(k, s) == \A e \in Entries(k, s) : e.name \in {".", ".."}

SetLinks(k, s, d) == [k EXCEPT !.icache[s].ino.nlink = d]

iputNoTrunc(k, s) ==
  LET c == k.icache[s]
  IN  IF c.valid /\ c.ino.nlink = 0 /\ c.ref = 1
      THEN [k EXCEPT !.icache[s].valid = FALSE, !.dinode[c.inum] = Zero]
      ELSE k

iputFreesAll(k, s) ==
  LET c == k.icache[s]
  IN  IF c.valid /\ c.ino.nlink = 0
      THEN [iupdate([itrunc(k, s) EXCEPT !.icache[s].ino.type = "none"], s)
              EXCEPT !.icache[s].valid = FALSE]
      ELSE k

\* iput() up to its releasesleep(): the last reference to an inode without
\* links frees it.
iput(k, s) ==
  LET c == k.icache[s]
  IN  IF c.valid /\ c.ino.nlink = 0 /\ c.ref = 1
      THEN [iupdate([itrunc(k, s) EXCEPT !.icache[s].ino.type = "none"], s)
              EXCEPT !.icache[s].valid = FALSE, !.lost = @ \ {c.inum}]
      ELSE k

\* The last lines of iput().
deref(k, s) == IF k.icache[s].ref = 1 THEN [k EXCEPT !.icache[s] = EmptySlot]
                                      ELSE [k EXCEPT !.icache[s].ref = @ - 1]

ialloc(k, type) ==
  LET free == {i \in Inums \ {ROOTINO} : k.dinode[i].type = "none"}
  IN  [inum |-> IF free = {} THEN 0 ELSE Min(free),
       k |-> IF free = {} THEN Panic(k, "ialloc: no inodes")
             ELSE [k EXCEPT !.dinode[Min(free)] = [Zero EXCEPT !.type = type],
                            !.buried = @ \ {Min(free)},
                            !.astray = @ \ {Min(free)}]]

-----------------------------------------------------------------------------
(* Processes.  A call is a list of steps <<what, register>>; the steps of   *)
(* Locking wait for the lock of the inode in their register.               *)

Locking == {"namei", "nameiparent", "iput", "linkOld", "linkNew", "linkBad",
            "unlinkDir", "unlinkFile", "create", "createOld", "openFile",
            "chdir", "read", "write"}

Put(r) == << <<"iput", r>>, <<"deref", r>> >>

EndOp == << <<"end_op", "ip">> >>

NoCall == [op |-> "none", path |-> <<>>]

\* What a call does when a path cannot be followed.
Failed(c, walk) ==
  IF c.op = "link" /\ walk = "nameiparent"
  THEN << <<"linkBad", "ip">> >> \o Put("ip") \o EndOp
  ELSE EndOp

Program(c) ==
  CASE c.op = "link"   -> << <<"namei", "cur">>, <<"linkOld", "ip">> >>
    [] c.op = "unlink" -> << <<"nameiparent", "cur">>, <<"unlinkDir", "dp">> >>
    [] c.op = "open" /\ ~c.create -> << <<"namei", "cur">>, <<"openFile", "ip">> >>
    [] c.op = "chdir"  -> << <<"namei", "cur">>, <<"chdir", "ip">> >>
    [] c.op = "close"  -> Put("fd") \o EndOp
    [] c.op = "write"  -> << <<"write", "fd">> >> \o EndOp \o
                          << <<"begin_op", "fd">>, <<"write", "fd">> >> \o EndOp
    [] c.op = "read"   -> << <<"read", "fd">> >>
    [] OTHER           -> << <<"nameiparent", "cur">>, <<"create", "dp">> >>

\* The lock a process waits for in its next step, and who holds it.
Wanted(p) == IF todo[p] # <<>> /\ Head(todo[p])[1] \in Locking
             THEN reg[p][Head(todo[p])[2]] ELSE 0

WaitsFor(p) == IF Wanted(p) = 0 THEN Nobody ELSE fs.icache[Wanted(p)].holder

At(p, what) ==
  /\ fs.panic = "" /\ todo[p] # <<>>
  /\ Head(todo[p])[1] = what
  /\ WaitsFor(p) = Nobody

\* The step of p leads to state k, with steps next before the rest of its call.
Go(p, k, next) == fs' = k /\ todo' = [todo EXCEPT ![p] = next \o Tail(@)]

Jump(p, k, next) == fs' = k /\ todo' = [todo EXCEPT ![p] = next]

Set(p, r, s) == reg' = [reg EXCEPT ![p][r] = s]

Reg(p) == reg[p][Head(todo[p])[2]]

\* The state with the inode of this step's register locked.
Locked(p) == ilock(fs, p, Reg(p))

Quiet == UNCHANGED <<disk, file, inop, calls, crashes>>

\* The start of namex() for call c: the root or the working directory, and an
\* empty path at once.  rest is what the call does with the inode it finds.
namex(p, k, c, rest) ==
  LET from == IF c.abs THEN iget(k, ROOTINO) ELSE idup(k, reg[p].cwd)
      s == IF c.abs THEN SlotOf(from, ROOTINO) ELSE reg[p].cwd
  IN  CASE c.path # <<>> ->
             Jump(p, from, rest) /\ Set(p, "cur", s)
        [] c.path = <<>> /\ Head(rest)[1] = "namei" ->
             Jump(p, from, Tail(rest)) /\ Set(p, "ip", s)
        [] OTHER ->
             Jump(p, from, Put("cur") \o Failed(c, "nameiparent")) /\ Set(p, "cur", s)

\* Notes that a path has led to inode inum by the ".." of a removed directory n.
Stray(k, n, name, inum) ==
  IF n.nlink = 0 /\ name = ".." THEN [k EXCEPT !.astray = @ \cup {inum}] ELSE k

\* The loop of namex() for one path element, as namei() and nameiparent() use it.
walk(p, what) ==
  /\ At(p, what)
  /\ LET s == Reg(p)
         k == Locked(p)
         path == call[p].path
         dir == k.icache[s].ino.type = "dir"
         stop == what = "nameiparent" /\ Len(path) = 1
         inum == dirlookup(k, s, Head(path))
         next == Stray(iget(k, inum), k.icache[s].ino, Head(path), inum)
     IN  \/ /\ ~dir \/ (~stop /\ inum = 0)
            /\ Jump(p, iunlock(k, s), Put("cur") \o Failed(call[p], what))
            /\ UNCHANGED <<reg, call>>
         \/ /\ dir /\ stop
            /\ Go(p, iunlock(k, s), <<>>)
            /\ reg' = [reg EXCEPT ![p].dp = s, ![p].cur = 0]
            /\ UNCHANGED call
         \/ /\ dir /\ ~stop /\ inum # 0
            /\ LET more == Len(path) > 1
               IN  /\ Go(p, iunlock(next, s),
                         Put("old") \o (IF more THEN << <<what, "cur">> >> ELSE <<>>))
                   /\ reg' = [reg EXCEPT ![p].old = s,
                                         ![p].cur = IF more THEN SlotOf(next, inum) ELSE 0,
                                         ![p].ip = IF more THEN @ ELSE SlotOf(next, inum)]
            /\ call' = [call EXCEPT ![p].path = Tail(path)]
  /\ Quiet

namei(p) == walk(p, "namei")
nameiparent(p) == walk(p, "nameiparent")

\* Notes that p drops an inode without links while another process does so too,
\* has seen the reference of p, and has not taken its own away yet.
Lose(k, p, s) ==
  LET c == k.icache[s]
      dropping(q) == /\ todo[q] # <<>> /\ Head(todo[q])[1] = "deref"
                     /\ reg[q][Head(todo[q])[2]] = s
  IN  IF c.valid /\ c.ino.nlink = 0 /\ \E q \in Procs \ {p} : dropping(q)
      THEN [k EXCEPT !.lost = @ \cup {c.inum}] ELSE k

Iput(p) == /\ At(p, "iput")
           /\ Go(p, Lose(iput(fs, Reg(p)), p, Reg(p)), <<>>)
           /\ UNCHANGED <<reg, call>> /\ Quiet

Deref(p) == /\ At(p, "deref")
            /\ Go(p, deref(fs, Reg(p)), <<>>)
            /\ Set(p, Head(todo[p])[2], 0)
            /\ UNCHANGED call /\ Quiet

\* iunlock() of an inode the call has held across a wait.
Iunlock(p) == /\ At(p, "iunlock")
              /\ Go(p, iunlock(fs, Reg(p)), <<>>)
              /\ UNCHANGED <<reg, call>> /\ Quiet

\* The locals of a call are gone after it; chdir() has stored its inode.
Returned(p) ==
  [reg EXCEPT ![p] = [r \in Registers |->
     CASE r = "fd"  -> reg[p].fd
       [] r = "cwd" -> IF reg[p].cwd = 0 THEN reg[p].ip ELSE reg[p].cwd
       [] OTHER     -> 0]]

end_opAlone(p) ==
  /\ At(p, "end_op")
  /\ Go(p, fs, <<>>)
  /\ inop' = inop \ {p}
  /\ disk' = Durable(fs)
  /\ reg' = Returned(p)
  /\ call' = IF Len(todo[p]) = 1 THEN [call EXCEPT ![p] = NoCall] ELSE call
  /\ UNCHANGED <<file, calls, crashes>>

\* end_op(): the last outstanding call commits what all of them wrote.
end_op(p) ==
  /\ At(p, "end_op")
  /\ Go(p, fs, <<>>)
  /\ inop' = inop \ {p}
  /\ disk' = IF inop = {p} THEN Durable(fs) ELSE disk
  /\ reg' = Returned(p)
  /\ call' = IF Len(todo[p]) = 1 THEN [call EXCEPT ![p] = NoCall] ELSE call
  /\ UNCHANGED <<file, calls, crashes>>

-----------------------------------------------------------------------------
(* sys_link                                                                *)

linkOld(p) ==
  /\ At(p, "linkOld")
  /\ LET s == Reg(p)
         k == Locked(p)
         n == k.icache[s].ino
     IN  IF n.type = "dir"
         THEN /\ Jump(p, iunlock(k, s), Put("ip") \o EndOp)
              /\ UNCHANGED <<reg, call>>
         ELSE /\ call' = [call EXCEPT ![p].path = call[p].new]
              /\ namex(p, iunlock(iupdate(SetLinks(k, s, n.nlink + 1), s), s), call'[p],
                       << <<"nameiparent", "cur">>, <<"linkNew", "dp">> >>)
  /\ Quiet

\* dirlink() in sys_link(): when the name is taken, iput() of the inode found
\* comes before the directory is unlocked.
linkNew(p) ==
  /\ At(p, "linkNew")
  /\ LET s == Reg(p)
         k == Locked(p)
         name == Head(call[p].path)
         inum == dirlookup(k, s, name)
     IN  IF inum # 0
         THEN /\ Jump(p, iget(k, inum), Put("old") \o << <<"iunlock", "dp">> >>
                         \o Put("dp") \o Failed(call[p], "nameiparent"))
              /\ Set(p, "old", SlotOf(k, inum))
         ELSE /\ LET old == fs.icache[reg[p].ip].inum
                 IN  Jump(p, iunlock(dirlink(Bury(k, s, k.icache[s].ino.nlink, old), s, name, old), s),
                          Put("dp") \o Put("ip") \o EndOp)
              /\ UNCHANGED reg
  /\ UNCHANGED call /\ Quiet

\* The label bad of sys_link().
linkBad(p) ==
  /\ At(p, "linkBad")
  /\ LET s == Reg(p)
         k == Locked(p)
     IN  Go(p, iunlock(iupdate(SetLinks(k, s, k.icache[s].ino.nlink - 1), s), s), <<>>)
  /\ UNCHANGED <<reg, call>> /\ Quiet

-----------------------------------------------------------------------------
(* sys_unlink                                                              *)

unlinkDir(p) ==
  /\ At(p, "unlinkDir")
  /\ LET s == Reg(p)
         k == Locked(p)
         inum == dirlookup(k, s, Head(call[p].path))
     IN  IF inum = 0 \/ Head(call[p].path) \in {".", ".."}
         THEN Jump(p, iunlock(k, s), Put("dp") \o EndOp) /\ UNCHANGED reg
         ELSE Go(p, iget(k, inum), << <<"unlinkFile", "ip">> >>)
              /\ Set(p, "ip", SlotOf(k, inum))
  /\ UNCHANGED call /\ Quiet

\* With dp locked: the entry goes and dp is let go of, ip stays locked.
unlinkFile(p) ==
  /\ At(p, "unlinkFile")
  /\ LET s == Reg(p)
         d == reg[p].dp
         k == Locked(p)
         n == k.icache[s].ino
         b == Head(k.icache[d].ino.addrs)
         gone == [k EXCEPT !.dirent[b] = {e \in @ : e.name # Head(call[p].path)}]
     IN  CASE n.nlink < 1 -> Go(p, Panic(k, "unlink: nlink < 1"), <<>>)
           [] n.nlink >= 1 /\ n.type = "dir" /\ ~isdirempty(k, s) ->
                Go(p, iunlock(k, s), Put("ip") \o << <<"iunlock", "dp">> >>
                                     \o Put("dp") \o EndOp)
           [] n.nlink >= 1 /\ n.type = "dir" /\ isdirempty(k, s) ->
                Go(p, iunlock(iupdate(SetLinks(gone, d, gone.icache[d].ino.nlink - 1), d), d),
                   Put("dp") \o << <<"unlinkEnd", "ip">> >>)
           [] OTHER -> Go(p, iunlock(gone, d), Put("dp") \o << <<"unlinkEnd", "ip">> >>)
  /\ UNCHANGED <<reg, call>> /\ Quiet

unlinkEnd(p) ==
  /\ At(p, "unlinkEnd")
  /\ LET s == Reg(p)
     IN  Go(p, iunlock(iupdate(SetLinks(fs, s, fs.icache[s].ino.nlink - 1), s), s),
            Put("ip") \o EndOp)
  /\ UNCHANGED <<reg, call>> /\ Quiet

-----------------------------------------------------------------------------
(* create and the calls that use it                                        *)

\* create() with dp locked.  An inode just allocated is found by nobody else
\* before its entry is there, so that its lock is free.
create(p) ==
  /\ At(p, "create")
  /\ LET s == Reg(p)
         k == Locked(p)
         n == k.icache[s].ino
         name == Head(call[p].path)
         inum == dirlookup(k, s, name)
         new == ialloc(k, call[p].type)
         g == iget(new.k, new.inum)
         i == SlotOf(g, new.inum)
         l == iupdate(SetLinks(ilock(g, p, i), i, 1), i)
         dots == IF call[p].type # "dir" THEN l
                 ELSE dirlink(dirlink(iupdate(SetLinks(l, s, n.nlink + 1), s),
                                      i, ".", new.inum), i, "..", k.icache[s].inum)
     IN  IF inum # 0
         THEN /\ Jump(p, iunlock(iget(k, inum), s), Put("dp") \o << <<"createOld", "ip">> >>)
              /\ Set(p, "ip", SlotOf(k, inum))
         ELSE IF g.panic # "" THEN Go(p, Panic(fs, g.panic), <<>>) /\ UNCHANGED reg
         ELSE /\ Jump(p, iunlock(dirlink(Bury(dots, s, n.nlink, new.inum), s, name, new.inum), s),
                      Put("dp") \o << <<"createNew", "ip">> >>)
              /\ Set(p, "ip", i)
  /\ UNCHANGED call /\ Quiet

RefusedLeaks(p, k, s) == Jump(p, iunlock(k, s), EndOp) /\ UNCHANGED <<reg, file>>

\* The inode is let go of: an error, or a call that only creates.
Refused(p, k, s) ==
  Jump(p, iunlock(k, s), Put("ip") \o EndOp) /\ UNCHANGED <<reg, file>>

\* What sys_open(), sys_mkdir() and sys_mknod() do with the inode, locked: the
\* process has room for one open file, and open() fails when it has one.
Opened(p, k, s) ==
  IF call[p].op = "open" /\ reg[p].fd = 0
  THEN /\ Jump(p, iunlock(k, s), EndOp)
       /\ reg' = [reg EXCEPT ![p].fd = s, ![p].ip = 0]
       /\ file' = [file EXCEPT ![p] = [off |-> 0, writable |-> call[p].writable]]
  ELSE Refused(p, k, s)

createNew(p) ==
  /\ At(p, "createNew")
  /\ Opened(p, fs, Reg(p))
  /\ UNCHANGED <<disk, call, inop, calls, crashes>>

createOld(p) ==
  /\ At(p, "createOld")
  /\ LET k == Locked(p)
     IN  IF k.icache[Reg(p)].ino.type = "file" THEN Opened(p, k, Reg(p))
                                               ELSE Refused(p, k, Reg(p))
  /\ UNCHANGED <<disk, call, inop, calls, crashes>>

openFile(p) ==
  /\ At(p, "openFile")
  /\ LET k == Locked(p)
     IN  IF k.icache[Reg(p)].ino.type = "dir" /\ call[p].writable
         THEN Refused(p, k, Reg(p)) ELSE Opened(p, k, Reg(p))
  /\ UNCHANGED <<disk, call, inop, calls, crashes>>

chdir(p) ==
  /\ At(p, "chdir")
  /\ LET k == Locked(p)
     IN  IF k.icache[Reg(p)].ino.type = "dir"
         THEN Jump(p, iunlock(k, Reg(p)), Put("cwd") \o EndOp)
         ELSE Jump(p, iunlock(k, Reg(p)), Put("ip") \o EndOp)
  /\ UNCHANGED <<reg, call>> /\ Quiet

-----------------------------------------------------------------------------
(* fileread, filewrite                                                     *)

read(p) ==
  /\ At(p, "read")
  /\ LET k == Locked(p)
     IN  /\ Go(p, iunlock(k, Reg(p)), <<>>)
         /\ file' = [file EXCEPT ![p].off = @ + readi(k.icache[Reg(p)].ino, @)]
  /\ call' = [call EXCEPT ![p] = NoCall]
  /\ UNCHANGED <<disk, reg, inop, calls, crashes>>

\* One round of filewrite()'s loop: a transaction for each block.
write(p) ==
  /\ At(p, "write")
  /\ LET s == Reg(p)
         k == Locked(p)
         n == k.icache[s].ino
         o == file[p].off
     IN  IF n.type = "dev"
         THEN Go(p, iunlock(k, s), <<>>) /\ UNCHANGED file
         ELSE IF TooFar(n, o)
         THEN Jump(p, iunlock(k, s), EndOp) /\ UNCHANGED file
         ELSE /\ Go(p, iunlock(writei(k, s, o), s), <<>>)
              /\ file' = [file EXCEPT ![p].off = o + 1]
  /\ UNCHANGED <<disk, reg, call, inop, calls, crashes>>

begin_op(p) ==
  /\ At(p, "begin_op")
  /\ inop' = inop \cup {p}
  /\ Go(p, fs, <<>>)
  /\ UNCHANGED <<disk, reg, file, call, calls, crashes>>

-----------------------------------------------------------------------------
\* A process enters the kernel with call c.
Syscall(p, c) ==
  /\ fs.panic = "" /\ todo[p] = <<>>
  /\ calls < MaxCalls /\ calls' = calls + 1
  /\ call' = [call EXCEPT ![p] = c]
  /\ inop' = IF c.op = "read" THEN inop ELSE inop \cup {p}
  /\ CASE c.op \in {"close", "read"} ->
            reg[p].fd # 0 /\ Jump(p, fs, Program(c)) /\ UNCHANGED reg
       [] c.op = "write" ->
            reg[p].fd # 0 /\ file[p].writable /\ Jump(p, fs, Program(c)) /\ UNCHANGED reg
       [] OTHER -> namex(p, fs, c, Program(c))
  /\ UNCHANGED <<disk, file, crashes>>

AtRest == /\ reg = [p \in Procs |-> [r \in Registers |-> IF r = "cwd" THEN 1 ELSE 0]]
          /\ file = [p \in Procs |-> [off |-> 0, writable |-> FALSE]]
          /\ todo = [p \in Procs |-> <<>>]
          /\ call = [p \in Procs |-> NoCall]
          /\ inop = {}

\* The machine stops and boots: the log has the disk as the last commit left it.
Crash ==
  /\ crashes < MaxCrashes /\ crashes' = crashes + 1
  /\ fs' = Booted(disk)
  /\ reg' = [p \in Procs |-> [r \in Registers |-> IF r = "cwd" THEN 1 ELSE 0]]
  /\ file' = [p \in Procs |-> [off |-> 0, writable |-> FALSE]]
  /\ todo' = [p \in Procs |-> <<>>]
  /\ call' = [p \in Procs |-> NoCall]
  /\ inop' = {}
  /\ UNCHANGED <<disk, calls>>

Init == /\ disk = Image
        /\ fs = [Booted(Image) EXCEPT
                   !.icache[1] = [inum |-> Start, ref |-> Cardinality(Procs), valid |-> TRUE,
                                  ino |-> Image.dinode[Start], holder |-> Nobody],
                   !.lost = @ \ {Start}]
        /\ AtRest
        /\ calls = 0 /\ crashes = 0

Step(p) == \/ namei(p) \/ nameiparent(p) \/ Iput(p) \/ Deref(p) \/ Iunlock(p)
           \/ linkOld(p) \/ linkNew(p) \/ linkBad(p)
           \/ unlinkDir(p) \/ unlinkFile(p) \/ unlinkEnd(p)
           \/ create(p) \/ createNew(p) \/ createOld(p) \/ openFile(p) \/ chdir(p)
           \/ read(p) \/ write(p) \/ begin_op(p) \/ end_op(p)

Next == Crash \/ \E p \in Procs : Step(p) \/ \E c \in Calls : Syscall(p, c)

Spec == Init /\ [][Next]_vars

-----------------------------------------------------------------------------
(* Properties                                                              *)

\* ip->ref counts the pointers to a cache slot, in the middle of every call, on
\* its error paths and for working directories and open files; and no inode is
\* in the cache twice.
RefsCounted ==
  /\ \A s \in Slots :
       fs.icache[s].ref = Cardinality({x \in Procs \X Registers : reg[x[1]][x[2]] = s})
  /\ \A s, t \in Slots :
       fs.icache[s].ref > 0 /\ fs.icache[s].inum = fs.icache[t].inum => s = t

\* A block is marked in the bitmap exactly when an inode points to it, and only
\* one inode does, once; and an allocated inode has a link or is in use, so that
\* iput() frees it "if that was the last reference and the inode has no links"
\* (fs.c:327) and bmap(), itrunc() and iput() lose no block.  The code has two
\* exceptions, and the inodes in lost are just these: inodes in use without a
\* link when the machine stopped, and inodes without a link that two processes
\* drop at the same time, when both find ip->ref 2 (fs.c:337) and none frees it.
BlocksOwned ==
  LET owned(i) == BlocksOf(fs, fs.dinode[i])
      count(n) == Len(n.addrs) + (IF n.ind = 0 THEN 0 ELSE 1 + Len(fs.indirect[n.ind]))
  IN  fs.panic = "" =>
      /\ fs.used = UNION {owned(i) : i \in Inums}
      /\ \A i, j \in Inums : i # j => owned(i) \cap owned(j) = {}
      /\ \A i \in Inums : Cardinality(owned(i)) = count(fs.dinode[i])
      /\ \A i \in Unlinked(fs) \ fs.lost :
           \E s \in Slots : fs.icache[s].ref > 0 /\ fs.icache[s].inum = i

\* The panics that would mean a broken file system are not reached: a path or a
\* directory entry never leads to a free inode ("ilock: no type"), an entry's
\* inode has a link left ("unlink: nlink < 1"), no block is freed twice.  The code
\* has one exception, and the property allows no other: the ".." of a directory
\* that was removed while in use is no link to its parent, whose inode may be
\* free when a path leads to it that way (fs.c:310).
NoPanic ==
  /\ fs.panic \notin {"unlink: nlink < 1", "freeing free block"}
  /\ fs.panic = "ilock: no type" =>
       \A s \in Slots : fs.icache[s].valid /\ fs.icache[s].ino.type = "none" =>
                         fs.icache[s].inum \in fs.astray

\* The entries of disk d that count as links: not "." and not the ".." of a
\* directory that has been removed.
Links(d) ==
  LET dirs == {i \in Inums : d.dinode[i].type = "dir" /\ d.dinode[i].size > 0}
      removed(i) == d.dinode[i].nlink = 0 \/ i \in d.buried
  IN  UNION {{i} \X {e \in d.dirent[Head(d.dinode[i].addrs)] :
                       e.name # "." /\ ~(e.name = ".." /\ removed(i))} : i \in dirs}

\* Whenever the machine stops, the disk it boots from is a consistent file system:
\* every entry names an allocated inode, a directory has no two entries of a name,
\* and nlink is the number of an inode's entries (fs.h: "Number of links to inode
\* in file system"), however the calls of different processes overlapped in the
\* transaction.  Left out is what was put into a removed directory.
CrashConsistent ==
  LET links == Links(disk)
  IN  /\ \A l \in links : disk.dinode[l[2].inum].type # "none"
      /\ Cardinality({<<l[1], l[2].name>> : l \in links}) = Cardinality(links)
      /\ \A i \in Inums \ disk.buried :
           disk.dinode[i].nlink = Cardinality({l \in links : l[2].inum = i})

\* Calls never wait for each other's inode locks in a circle; usertests.c:855 runs
\* create, link and unlink of one name in two processes "to look for deadlocks".
NoDeadlock ==
  \A Q \in SUBSET Procs \ {{}} : \E p \in Q : WaitsFor(p) \notin Q

=============================================================================
