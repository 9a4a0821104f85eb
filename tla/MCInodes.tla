------------------------------ MODULE MCInodes ------------------------------
(* The inode layer after a/g was made, entered by both processes and removed: *)
(* a directory a and a file f in the root, the directory that was a/g, one    *)
(* more inode and three free blocks.                                          *)
EXTENDS Inodes, TLC

CONSTANTS p1, p2

MCInums == 1 .. 5
MCBlocks == 1 .. 6

MCImage ==
  [dinode |-> [i \in MCInums |->
     CASE i = 1 -> [type |-> "dir", nlink |-> 2, size |-> 1, addrs |-> <<1>>, ind |-> 0]
       [] i = 2 -> [type |-> "dir", nlink |-> 1, size |-> 1, addrs |-> <<2>>, ind |-> 0]
       [] i = 3 -> [type |-> "file", nlink |-> 1, size |-> 0, addrs |-> <<>>, ind |-> 0]
       [] i = 4 -> [type |-> "dir", nlink |-> 0, size |-> 1, addrs |-> <<3>>, ind |-> 0]
       [] OTHER -> Zero],
   dirent |-> [b \in MCBlocks |->
     CASE b = 1 -> {[name |-> ".", inum |-> 1], [name |-> "..", inum |-> 1],
                    [name |-> "a", inum |-> 2], [name |-> "f", inum |-> 3]}
       [] b = 2 -> {[name |-> ".", inum |-> 2], [name |-> "..", inum |-> 1]}
       [] b = 3 -> {[name |-> ".", inum |-> 4], [name |-> "..", inum |-> 2]}
       [] OTHER -> {}],
   indirect |-> [b \in MCBlocks |-> <<>>],
   used |-> {1, 2, 3},
   buried |-> {}]

Open(path, new) ==
  [op |-> "open", abs |-> TRUE, path |-> path, create |-> new,
   type |-> "file", writable |-> new]
Make(path, type) == [op |-> "create", abs |-> TRUE, path |-> path, type |-> type]
Link(old, new) == [op |-> "link", abs |-> TRUE, path |-> old, new |-> new]
On(op, path) == [op |-> op, abs |-> TRUE, path |-> path]
Rel(c) == [c EXCEPT !.abs = FALSE]
File(op) == [op |-> op, path |-> <<>>]

MCCalls ==
  {Open(<<"f">>, FALSE), Open(<<"a", "g">>, TRUE),
   Make(<<"a", "g">>, "dir"),
   Link(<<"f">>, <<"a", "g">>), On("unlink", <<"a", "g">>), On("unlink", <<"a">>),
   On("unlink", <<"f">>), Rel(On("chdir", <<"..">>)), On("chdir", <<>>),
   File("close"), File("read"), File("write")}

Symmetry == Permutations(Procs)
=============================================================================
