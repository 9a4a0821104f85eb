---------------------------------- MODULE WFS ---------------------------------
(***************************************************************************)
(* The FUSE file system wfs.c on its disk image.  The image is mapped with *)
(* MAP_SHARED, so every store is at once in the file, and a step is a      *)
(* store, or a few that nobody can tell apart, of one FUSE thread.  When   *)
(* the process dies the image keeps the stores made so far.                *)
(*                                                                         *)
(* A block has PerBlock cells.  A cell is a directory entry, a block       *)
(* pointer or a piece of a file, and offsets and sizes count cells.        *)
(***************************************************************************)
EXTENDS Integers, Sequences, FiniteSets, FiniteSetsExt

CONSTANTS Threads, Names, NoName,
          Vals,                    \* what a write stores, not 0
          NumInodes, NumBlocks, D_BLOCK, PerBlock,
          Paths,                   \* paths of directories that calls name
          Writes,                  \* <<offset, length>> of the write calls
          MaxCrashes               \* bound on the crashes in a behaviour

ASSUME WFSAssumption ==
  /\ NumInodes \in Nat \ {0} /\ NumBlocks \in Nat /\ D_BLOCK \in Nat \ {0} /\ PerBlock \in Nat \ {0}
  /\ Vals \subseteq Nat \ {0} /\ NoName \notin Names /\ MaxCrashes \in Nat

VARIABLES ibm, dbm,     \* the bitmaps, as the sets of what is in use
          inode, block, \* the inode table and the data blocks
          pc, op,       \* where each thread is, and the locals of its call
          crashes

image == <<ibm, dbm, inode, block>>
vars == <<image, pc, op, crashes>>

Inodes == 0 .. NumInodes - 1
Blocks == 1 .. NumBlocks          \* block pointer 0 is no block
IND_BLOCK == D_BLOCK              \* blocks[D_BLOCK] of the code is not used
Slots == 0 .. D_BLOCK * PerBlock - 1
MaxBlocks == D_BLOCK + PerBlock
Offsets == 0 .. PerBlock - 1

Zero == [name |-> NoName, num |-> 0]
ZeroBlock == [c \in Offsets |-> Zero]
NoBlocks == [k \in 0 .. IND_BLOCK |-> 0]
ZeroInode == [mode |-> "none", size |-> 0, nlinks |-> 0, blocks |-> NoBlocks]
NoOp == [call |-> "none", dir |-> 0, name |-> NoName, ino |-> 0,
         off |-> 0, len |-> 0, done |-> 0, val |-> 0, bit |-> 0]

\* wfs_mkfs
Init ==
  /\ ibm = {0} /\ dbm = {}
  /\ inode = [i \in Inodes |-> IF i = 0 THEN [ZeroInode EXCEPT !.mode = "dir", !.nlinks = 1] ELSE ZeroInode]
  /\ block = [b \in Blocks |-> ZeroBlock]
  /\ pc = [t \in Threads |-> "idle"] /\ op = [t \in Threads |-> NoOp]
  /\ crashes = 0

------------------------------------------------------------------------------
(* Lookup                                                                   *)

\* The entry in slot s of directory d, if it has a block
Entry(d, s) ==
  LET b == inode[d].blocks[s \div PerBlock] IN
    IF b = 0 THEN Zero ELSE block[b][s % PerBlock]
Used(d, s) == Entry(d, s).num # 0 /\ Entry(d, s).name # NoName

\* What the loops over size / sizeof(struct wfs_dentry) see
Visible(d) == {s \in Slots : s < inode[d].size /\ Used(d, s)}

\* The slots that hold name n
Found(d, n) == {s \in Visible(d) : Entry(d, s).name = n}
dentry_to_num(d, n) == Entry(d, Min(Found(d, n))).num

\* get_inode_from_path: the set of the inode a path leads to, or the empty set
Walk(path) ==
  LET at[i \in 0 .. Len(path)] ==
        IF i = 0 THEN {0}
        ELSE {dentry_to_num(d, path[i]) :
                d \in {e \in at[i - 1] : inode[e].mode = "dir" /\ Found(e, path[i]) # {}}} \cap ibm
  IN at[Len(path)]

\* A directory a call can name
Resolves(path, d) == d \in Walk(path) /\ inode[d].mode = "dir"

\* The kernel locks the inodes of a call that changes something (external).
Locked(t, S) ==
  \E u \in Threads \ {t} : pc[u] # "idle" /\ {op[u].dir, op[u].ino} \cap S # {}

------------------------------------------------------------------------------
(* Calls, up to the first store                                             *)

Start(t, l, o) ==
  pc' = [pc EXCEPT ![t] = l] /\ op' = [op EXCEPT ![t] = o] /\ UNCHANGED <<image, crashes>>
Goto(t, l) == pc' = [pc EXCEPT ![t] = l]
Return(t) == Goto(t, "idle") /\ op' = [op EXCEPT ![t] = NoOp]
Stay(t, l) == Goto(t, l) /\ UNCHANGED op

\* wfs_mknod and wfs_mkdir.  A name that exists is refused.
create(t, call) ==
  /\ pc[t] = "idle"
  /\ \E path \in Paths, n \in Names, d \in Inodes :
       /\ Resolves(path, d) /\ ~ Locked(t, {d}) /\ Found(d, n) = {}
       /\ Start(t, "scan_inode", [NoOp EXCEPT !.call = call, !.dir = d, !.name = n])

\* wfs_unlink and wfs_rmdir
remove(t, call) ==
  /\ pc[t] = "idle"
  /\ \E path \in Paths, n \in Names, d \in Inodes :
       /\ Resolves(path, d) /\ Found(d, n) # {}
       /\ LET i == dentry_to_num(d, n) IN
            /\ i \in ibm /\ ~ Locked(t, {d, i})
            /\ inode[i].mode = IF call = "unlink" THEN "file" ELSE "dir"
            /\ call = "rmdir" => Visible(i) = {}
            /\ Start(t, "remove", [NoOp EXCEPT !.call = call, !.dir = d, !.name = n, !.ino = i])

\* wfs_write
write(t) ==
  /\ pc[t] = "idle"
  /\ \E path \in Paths, n \in Names, d \in Inodes, w \in Writes, v \in Vals :
       /\ Resolves(path, d) /\ Found(d, n) # {}
       /\ LET i == dentry_to_num(d, n) IN
            /\ i \in ibm /\ ~ Locked(t, {i}) /\ inode[i].mode = "file"
            /\ Start(t, "data_offset",
                     [NoOp EXCEPT !.call = "write", !.dir = i, !.ino = i,
                                  !.off = w[1], !.len = w[2], !.val = v])

------------------------------------------------------------------------------
(* allocate_block: a word of the bitmap is read, then a bit of it is set.   *)

scan(t, from, bm, S, found, full) ==
  /\ pc[t] = from
  /\ IF S \subseteq bm THEN Stay(t, full)
     ELSE Goto(t, found) /\ op' = [op EXCEPT ![t].bit = Min(S \ bm)]
  /\ UNCHANGED <<image, crashes>>

scan_inode(t) == scan(t, "scan_inode", ibm, Inodes, "set_inode", "return")

\* allocate_inode and fillin_inode
allocate_inode(t) ==
  LET i == op[t].bit IN
    /\ pc[t] = "set_inode"
    /\ ibm' = ibm \cup {i}
    /\ inode' = [inode EXCEPT ![i] =
         [ZeroInode EXCEPT !.mode = IF op[t].call = "mkdir" THEN "dir" ELSE "file",
                           !.nlinks = IF op[t].call = "mkdir" THEN 2 ELSE 1]]
    /\ op' = [op EXCEPT ![t].ino = i]
    /\ Goto(t, IF op[t].call = "mkdir" THEN "link" ELSE "add_dentry")
    /\ UNCHANGED <<dbm, block, crashes>>

\* parent->nlinks++, and parent->nlinks-- when add_dentry fails
link(t) ==
  /\ pc[t] \in {"link", "unlink"}
  /\ inode' = [inode EXCEPT ![op[t].dir].nlinks = IF pc[t] = "link" THEN @ + 1 ELSE @ - 1]
  /\ IF pc[t] = "link" THEN Stay(t, "add_dentry") ELSE Return(t)
  /\ UNCHANGED <<ibm, dbm, block, crashes>>

\* The name is found in the meantime, the directory is full or so is the disk.
undo(t) ==
  /\ pc[t] = "undo"
  /\ ibm' = ibm \ {op[t].ino} /\ inode' = [inode EXCEPT ![op[t].ino] = ZeroInode]
  /\ IF op[t].call = "mkdir" THEN Stay(t, "unlink") ELSE Return(t)
  /\ UNCHANGED <<dbm, block, crashes>>

return(t) == pc[t] = "return" /\ Return(t) /\ UNCHANGED <<image, crashes>>

Failed(t) == IF op[t].call = "write" THEN "return" ELSE "undo"
scan_block(t) == scan(t, "scan_block", dbm, Blocks, "set_block", Failed(t))

\* allocate_data_block
allocate_data_block(t) ==
  /\ pc[t] = "set_block"
  /\ dbm' = dbm \cup {op[t].bit}
  /\ block' = [block EXCEPT ![op[t].bit] = ZeroBlock]
  /\ Stay(t, "attach")
  /\ UNCHANGED <<ibm, inode, crashes>>

\* The index of the block of a file that the write is at
BlockIndex(t) == (op[t].off + op[t].done) \div PerBlock

\* Where the new block goes: the first block a directory lacks, or the one
\* that data_offset needs, by way of the indirect block.
attach(t) ==
  LET i == IF op[t].call = "write" THEN op[t].ino ELSE op[t].dir
      k == IF op[t].call = "write" THEN Min({BlockIndex(t), IND_BLOCK})
           ELSE Min({j \in 0 .. D_BLOCK - 1 : inode[i].blocks[j] = 0})
  IN /\ pc[t] = "attach"
     /\ IF inode[i].blocks[k] = 0
        THEN inode' = [inode EXCEPT ![i].blocks[k] = op[t].bit] /\ UNCHANGED block
        ELSE /\ block' = [block EXCEPT ![inode[i].blocks[k]][BlockIndex(t) - D_BLOCK].num = op[t].bit]
             /\ UNCHANGED inode
     /\ Stay(t, IF op[t].call = "write" THEN "data_offset" ELSE "add_dentry")
     /\ UNCHANGED <<ibm, dbm, crashes>>

------------------------------------------------------------------------------
(* Directories                                                              *)

\* The slots add_dentry stops at: a free one, or one without a block
Stops(d) == {s \in Slots : ~ Used(d, s)}

\* The loop of add_dentry, up to the store of the entry
add_dentry(t) ==
  LET d == op[t].dir
      s == Min(Stops(d))
      b == inode[d].blocks[s \div PerBlock]
  IN /\ pc[t] = "add_dentry"
     /\ IF Found(d, op[t].name) # {} \/ Stops(d) = {}
        THEN Stay(t, "undo") /\ UNCHANGED block
        ELSE IF b = 0 THEN Stay(t, "scan_block") /\ UNCHANGED block
        ELSE /\ block' = [block EXCEPT ![b][s % PerBlock] = [name |-> op[t].name, num |-> op[t].ino]]
             /\ op' = [op EXCEPT ![t].off = s + 1]
             /\ Goto(t, "size")
     /\ UNCHANGED <<ibm, dbm, inode, crashes>>

\* The size is raised last, in add_dentry and in wfs_write.
size(t) ==
  LET i == IF op[t].call = "write" THEN op[t].ino ELSE op[t].dir
      n == op[t].off + op[t].done
  IN /\ pc[t] = "size"
     /\ inode' = [inode EXCEPT ![i].size = IF n > @ THEN n ELSE @]
     /\ Return(t)
     /\ UNCHANGED <<ibm, dbm, block, crashes>>

\* Mutant: the last entry is not looked at, and nobody checks the result.
remove_dentryShort(t) ==
  LET d == op[t].dir
      S == {u \in Slots : u + 1 < inode[d].size /\ Entry(d, u).num = op[t].ino}
      s == Min(S)
  IN /\ pc[t] = "remove"
     /\ block' = IF S = {} THEN block
                 ELSE [block EXCEPT ![inode[d].blocks[s \div PerBlock]][s % PerBlock] = Zero]
     /\ Stay(t, "drop")
     /\ UNCHANGED <<ibm, dbm, inode, crashes>>

\* remove_dentry.  It looks for the inode, not for the name, and finds it, as
\* nobody else works on a locked directory.
remove_dentry(t) ==
  LET d == op[t].dir
      S == {u \in Slots : u < inode[d].size /\ Entry(d, u).num = op[t].ino}
      s == Min(S)
  IN /\ pc[t] = "remove" /\ S # {}
     /\ block' = [block EXCEPT ![inode[d].blocks[s \div PerBlock]][s % PerBlock] = Zero]
     /\ Stay(t, "drop")
     /\ UNCHANGED <<ibm, dbm, inode, crashes>>

\* inode->nlinks-- of a file, parent->nlinks-- of a directory.  A file that
\* another entry still names is kept.
drop(t) ==
  LET i == IF op[t].call = "unlink" THEN op[t].ino ELSE op[t].dir IN
    /\ pc[t] = "drop"
    /\ inode' = [inode EXCEPT ![i].nlinks = @ - 1]
    /\ IF op[t].call = "unlink" /\ inode[i].nlinks > 1 THEN Return(t) ELSE Stay(t, "free")
    /\ UNCHANGED <<ibm, dbm, block, crashes>>

\* The pointers of the inode that are left to free, in the order of the code:
\* direct blocks, blocks of the indirect block, the indirect block itself.
Direct(i) == {k \in 0 .. D_BLOCK - 1 : inode[i].blocks[k] # 0}
Indirect(i) ==
  IF inode[i].blocks[IND_BLOCK] = 0 THEN {}
  ELSE {c \in Offsets : block[inode[i].blocks[IND_BLOCK]][c].num # 0}
\* Mutant: the indirect block itself is forgotten.
NextFreeNoIndirect(i) ==
  IF Direct(i) # {} THEN inode[i].blocks[Min(Direct(i))]
  ELSE IF Indirect(i) # {} THEN block[inode[i].blocks[IND_BLOCK]][Min(Indirect(i))].num
  ELSE 0
NextFree(i) ==
  IF Direct(i) # {} THEN inode[i].blocks[Min(Direct(i))]
  ELSE IF Indirect(i) # {} THEN block[inode[i].blocks[IND_BLOCK]][Min(Indirect(i))].num
  ELSE inode[i].blocks[IND_BLOCK]

\* free_block clears the bit, then the block; then the pointer goes.
free_block(t) ==
  LET b == NextFree(op[t].ino) IN
    /\ pc[t] = "free" /\ b # 0
    /\ dbm' = dbm \ {b}
    /\ Stay(t, "wipe")
    /\ UNCHANGED <<ibm, inode, block, crashes>>

wipe(t) ==
  LET i == op[t].ino
      b == NextFree(i)
      wiped == [block EXCEPT ![b] = ZeroBlock]
      ind == inode[i].blocks[IND_BLOCK]
  IN /\ pc[t] = "wipe"
     /\ IF Direct(i) = {} /\ Indirect(i) # {}
        THEN block' = [wiped EXCEPT ![ind][Min(Indirect(i))] = Zero] /\ UNCHANGED inode
        ELSE /\ block' = wiped
             /\ inode' = [inode EXCEPT ![i].blocks[IF Direct(i) # {} THEN Min(Direct(i)) ELSE IND_BLOCK] = 0]
     /\ Stay(t, "free")
     /\ UNCHANGED <<ibm, dbm, crashes>>

free_inode(t) ==
  /\ pc[t] = "free" /\ NextFree(op[t].ino) = 0
  /\ ibm' = ibm \ {op[t].ino}
  /\ inode' = [inode EXCEPT ![op[t].ino] = ZeroInode]
  /\ Return(t)
  /\ UNCHANGED <<dbm, block, crashes>>

------------------------------------------------------------------------------
(* Files                                                                    *)

\* The block of a file, 0 if there is none
FileBlock(i, k) ==
  IF k < D_BLOCK THEN inode[i].blocks[k]
  ELSE IF inode[i].blocks[IND_BLOCK] = 0 THEN 0
  ELSE block[inode[i].blocks[IND_BLOCK]][k - D_BLOCK].num

\* Mutant: the length of a chunk ignores where in the block it starts.
data_offsetAligned(t) ==
  LET o == op[t]
      at == o.off + o.done
      k == BlockIndex(t)
      first == at % PerBlock
      chunk == Min({o.len - o.done, PerBlock})
  IN /\ pc[t] = "data_offset"
     /\ IF o.done = o.len THEN Stay(t, "size") /\ UNCHANGED block
        ELSE IF k >= MaxBlocks THEN Stay(t, "return") /\ UNCHANGED block
        ELSE IF FileBlock(o.ino, k) = 0 THEN Stay(t, "scan_block") /\ UNCHANGED block
        ELSE /\ block' = [block EXCEPT ![FileBlock(o.ino, k)] =
                  [c \in Offsets |-> IF c \in first .. first + chunk - 1
                                     THEN [Zero EXCEPT !.num = o.val] ELSE @[c]]]
             /\ op' = [op EXCEPT ![t].done = @ + chunk]
             /\ UNCHANGED pc
     /\ UNCHANGED <<ibm, dbm, inode, crashes>>

\* One turn of the loop of wfs_write: data_offset, then memcpy
data_offset(t) ==
  LET o == op[t]
      at == o.off + o.done
      k == BlockIndex(t)
      first == at % PerBlock
      chunk == Min({o.len - o.done, PerBlock - first})
  IN /\ pc[t] = "data_offset"
     /\ IF o.done = o.len THEN Stay(t, "size") /\ UNCHANGED block
        ELSE IF k >= MaxBlocks THEN Stay(t, "return") /\ UNCHANGED block
        ELSE IF FileBlock(o.ino, k) = 0 THEN Stay(t, "scan_block") /\ UNCHANGED block
        ELSE /\ block' = [block EXCEPT ![FileBlock(o.ino, k)] =
                  [c \in Offsets |-> IF c \in first .. first + chunk - 1
                                     THEN [Zero EXCEPT !.num = o.val] ELSE @[c]]]
             /\ op' = [op EXCEPT ![t].done = @ + chunk]
             /\ UNCHANGED pc
     /\ UNCHANGED <<ibm, dbm, inode, crashes>>

------------------------------------------------------------------------------
\* The process dies and the image is mounted again.
Crash ==
  /\ crashes < MaxCrashes /\ crashes' = crashes + 1
  /\ pc' = [t \in Threads |-> "idle"] /\ op' = [t \in Threads |-> NoOp]
  /\ UNCHANGED image

Next ==
  \/ \E t \in Threads :
       \/ create(t, "mknod") \/ create(t, "mkdir") \/ remove(t, "unlink") \/ remove(t, "rmdir")
       \/ write(t)
       \/ scan_inode(t) \/ allocate_inode(t) \/ link(t) \/ undo(t) \/ return(t)
       \/ scan_block(t) \/ allocate_data_block(t) \/ attach(t)
       \/ add_dentry(t) \/ size(t) \/ remove_dentry(t) \/ drop(t)
       \/ free_block(t) \/ wipe(t) \/ free_inode(t) \/ data_offset(t)
  \/ Crash

Spec == Init /\ [][Next]_vars

------------------------------------------------------------------------------
(* Properties                                                               *)

IsDir(i) == inode[i].mode = "dir"

\* The inodes that entries lead to, from the root
Reachable ==
  LET R[n \in 0 .. NumInodes] ==
        IF n = 0 THEN {0}
        ELSE LET found == R[n - 1]
             IN  found \cup UNION {{Entry(d, s).num : s \in Visible(d)} : d \in {i \in found : IsDir(i)}}
  IN R[NumInodes]

\* The entries of the directories in S
Refs(S) == UNION {{<<d, s>> : s \in Visible(d)} : d \in {i \in S : IsDir(i)}}
Target(r) == Entry(r[1], r[2]).num

\* The block pointers of the inodes in S: <<inode, index, cell of the indirect block>>
Pointers(S) ==
  UNION {{<<i, k, 0>> : k \in {j \in 0 .. IND_BLOCK : inode[i].blocks[j] # 0}} : i \in S}
    \cup UNION {{<<i, IND_BLOCK + 1, c>> : c \in Indirect(i)} : i \in S}
BlockOf(p) ==
  IF p[2] <= IND_BLOCK THEN inode[p[1]].blocks[p[2]]
  ELSE block[inode[p[1]].blocks[IND_BLOCK]][p[3]].num

\* Whatever the root leads to is in use and belongs to one owner, at every
\* store of every call and whenever the process dies: an inode is filled and
\* marked before an entry names it, a block before a pointer does, and entries
\* go before inodes, inodes before blocks.
NoDangling ==
  LET reachable == Reachable
      refs == Refs(reachable)
      pointers == Pointers(reachable)
  IN  /\ \A r \in refs : Target(r) \in ibm \ {0} /\ inode[Target(r)].mode # "none"
      /\ Cardinality({Target(r) : r \in refs}) = Cardinality(refs)
      /\ \A p \in pointers : BlockOf(p) \in dbm
      /\ Cardinality({BlockOf(p) : p \in pointers}) = Cardinality(pointers)

Quiet == crashes = 0 /\ \A t \in Threads : pc[t] = "idle"
Entries(i) == {r \in Refs(Reachable) : Target(r) = i}

\* Between calls, as long as the process never died, nothing is lost: an inode
\* or block marked in use is one the root leads to, and nlinks counts the entries
\* of a file ("How many directory entries point to this inode", wfs.h) and for a
\* directory also itself ("." in wfs_mkdir) and every directory in it.  A mkdir or
\* mknod that failed half way for want of room has taken back what it took; a
\* write that failed half way has left the blocks it took attached to its file.
Accounted ==
  Quiet =>
    /\ ibm = Reachable /\ dbm = {BlockOf(p) : p \in Pointers(Reachable)}
    /\ \A i \in Reachable :
         inode[i].nlinks = Cardinality(Entries(i))
           + (IF IsDir(i) THEN 1 + Cardinality({s \in Visible(i) : IsDir(Entry(i, s).num)}) ELSE 0)

\* What the root leads to, seen as a tree of paths
AllPaths == Paths \cup {Append(p, n) : p \in Paths, n \in Names}
FileCells == 0 .. MaxBlocks * PerBlock - 1
Datum(i, c) ==
  LET b == FileBlock(i, c \div PerBlock) IN IF b = 0 THEN 0 ELSE block[b][c % PerBlock].num
Contents(i) == {x \in {<<c, Datum(i, c)>> : c \in FileCells} : x[2] # 0}
NodeAt(p, i) ==
  [path |-> p, mode |-> inode[i].mode,
   size |-> IF IsDir(i) THEN 0 ELSE inode[i].size,
   data |-> IF IsDir(i) THEN {} ELSE Contents(i)]

VisibleTree == UNION {{NodeAt(p, i) : i \in Walk(p)} : p \in AllPaths}
Tree == INSTANCE FileTree WITH Paths <- AllPaths, tree <- VisibleTree

\* As long as the process never died, every store is one change of one node of
\* the file tree, or none that shows: no call disturbs another file, a create
\* that fails leaves no trace, a name appears and goes in one step, and a file
\* reads as what was written to it.
ImplementsTree ==
  Tree!Init /\ [][crashes = 0 => UNCHANGED VisibleTree \/ Tree!Next]_image

==============================================================================
