-------------------------------- MODULE FileTree ------------------------------
(***************************************************************************)
(* What a mounted file system promises: a tree of names, every step of     *)
(* which changes one node only.  A file keeps what was stored in it beyond *)
(* its size, which a write that fails does not raise.                      *)
(***************************************************************************)
EXTENDS Integers, Sequences

CONSTANTS Paths,   \* sequences of names, <<>> for the root
          Vals,    \* what a write stores
          Writes   \* <<offset, length>> of the write calls

VARIABLE tree      \* the nodes: path, mode, size, and the <<position, value>> pairs stored

Parent(p) == SubSeq(p, 1, Len(p) - 1)
Node(p, m) == [path |-> p, mode |-> m, size |-> 0, data |-> {}]

Init == tree = {Node(<<>>, "dir")}

\* A node appears in a directory.
Make(p, m) ==
  /\ \A n \in tree : n.path # p
  /\ \E d \in tree : d.mode = "dir" /\ d.path = Parent(p)
  /\ tree' = tree \cup {Node(p, m)}

\* A node without children goes.
Remove(n) ==
  /\ n.path # <<>>
  /\ \A m \in tree : m.path = <<>> \/ Parent(m.path) # n.path
  /\ tree' = tree \ {n}

Span(w) == w[1] .. w[1] + w[2] - 1

\* Part of a write: some positions of its range get its value, all others keep
\* theirs.
Store(n, new, w, v) ==
  /\ new.size = n.size
  /\ \A x \in new.data : x \in n.data \/ (x[1] \in Span(w) /\ x[2] = v)
  /\ \A x \in n.data : \E y \in new.data : y[1] = x[1]

\* The end of a write that makes the file longer: all of it is there.
Grow(n, new, w, v) ==
  /\ new.data = n.data
  /\ new.size = w[1] + w[2] /\ new.size > n.size
  /\ \A c \in Span(w) : <<c, v>> \in n.data

Write(n) ==
  /\ n.mode = "file"
  /\ \E new \in tree' :
       /\ new.path = n.path /\ new.mode = n.mode
       /\ tree' = (tree \ {n}) \cup {new}
       /\ \E w \in Writes, v \in Vals : Store(n, new, w, v) \/ Grow(n, new, w, v)

Next ==
  \/ \E p \in Paths \ {<<>>}, m \in {"file", "dir"} : Make(p, m)
  \/ \E n \in tree : Remove(n) \/ Write(n)

Spec == Init /\ [][Next]_tree

==============================================================================
