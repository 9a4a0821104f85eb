------------------------------ MODULE FilesProofs -----------------------------
(***************************************************************************)
(* Open files and pipes are sound for any numbers of processes, files,     *)
(* descriptors and pages and any size of the ring: reference counts and    *)
(* open ends agree with who holds them, the ring keeps its bytes, and      *)
(* nobody sleeps for what has happened already.                            *)
(***************************************************************************)
EXTENDS Files, TLAPS

Labels == {"unused", "embryo", "user", "filealloc", "kalloc", "fileclose", "pipeclose", "io",
           "sleep", "asleep", "fork", "exit"}
\* In fileread() or filewrite()
InIO == {"io", "sleep", "asleep"}
\* A call with files in its variables
InCall == {"filealloc", "kalloc", "fileclose", "pipeclose"}
Locals == {rf, wf}
Places == FDs \cup Locals
Numbers == 0 .. WRAP - 1

FileRec == [ref : Nat, type : {"none", "pipe"}, writable : BOOLEAN, pipe : Pages \cup {None}]
Ring == [used : BOOLEAN, readopen : BOOLEAN, writeopen : BOOLEAN, nread : Numbers, nwrite : Numbers,
         data : [0 .. PIPESIZE - 1 -> Numbers], sent : Numbers, got : Numbers, mute : BOOLEAN]
IORec == [pipe : Pages \cup {None}, writable : BOOLEAN, n : Nat, exit : BOOLEAN]

Types ==
  /\ file \in [File -> FileRec] /\ pipe \in [Pages -> Ring]
  /\ ofile \in [Procs -> [FDs -> File \cup {None}]] /\ mine \in [Procs -> [Locals -> File \cup {None}]]
  /\ pc \in [Procs -> Labels] /\ killed \in [Procs -> BOOLEAN] /\ io \in [Procs -> IORec]
  /\ child \in [Procs -> Procs \cup {None}]

\* What the variables of a call hold: the files of a pipe in the making have no
\* other holder.
HeldBy(p) ==
  /\ pc[p] \in {"filealloc", "kalloc"} =>
       \A v \in Locals : mine[p][v] # None => file[mine[p][v]].ref = 1 /\ file[mine[p][v]].type = "none"
  /\ pc[p] = "filealloc" => mine[p][wf] = None
  /\ pc[p] = "kalloc" => \A v \in Locals : mine[p][v] # None
  /\ pc[p] = "fileclose" => \E v \in Locals : mine[p][v] # None
  /\ pc[p] \notin InCall => \A v \in Locals : mine[p][v] = None
Held == \A p \in Procs : HeldBy(p)

\* A child in the making has some of its parent's descriptors and no other parent;
\* a free slot has none.
Forks ==
  /\ \A p \in Procs : pc[p] = "fork" =>
       /\ child[p] \in Procs /\ pc[child[p]] = "embryo"
       /\ \A fd \in FDs : ofile[child[p]][fd] \in {None, ofile[p][fd]}
  /\ \A p, q \in Procs : pc[p] = "fork" /\ pc[q] = "fork" /\ child[p] = child[q] => p = q
  /\ \A p \in Procs : pc[p] = "unused" => \A fd \in FDs : ofile[p][fd] = None

\* An end of a pipe is open exactly when a file or a call of pipeclose() stands
\* for it, and only one does.
Opened(k, w) == IF w THEN pipe[k].writeopen ELSE pipe[k].readopen
IsEnd(f, k, w) == file[f].type = "pipe" /\ file[f].pipe = k /\ file[f].writable = w
Closes(p, k, w) == pc[p] = "pipeclose" /\ io[p].pipe = k /\ io[p].writable = w
Represented ==
  /\ \A f \in File : file[f].type = "pipe" => file[f].ref > 0 /\ file[f].pipe \in Pages
  /\ \A p \in Procs : pc[p] = "pipeclose" => io[p].pipe \in Pages
  /\ \A k \in Pages, w \in BOOLEAN :
       /\ Opened(k, w) <=> \/ \E f \in File : IsEnd(f, k, w)
                           \/ \E p \in Procs : Closes(p, k, w)
       /\ \A f, g \in File : IsEnd(f, k, w) /\ IsEnd(g, k, w) => f = g
       /\ \A p, q \in Procs : Closes(p, k, w) /\ Closes(q, k, w) => p = q
       /\ \A f \in File, p \in Procs : ~ (IsEnd(f, k, w) /\ Closes(p, k, w))
  /\ \A k \in Pages : pipe[k].used <=> pipe[k].readopen \/ pipe[k].writeopen

\* Whoever reads or writes has a descriptor for its end of the pipe.
Using ==
  \A p \in Procs : pc[p] \in InIO =>
    /\ io[p].pipe \in Pages
    /\ \E fd \in FDs : ofile[p][fd] # None /\ IsEnd(ofile[p][fd], io[p].pipe, io[p].writable)

\* The ring never holds more than it has room for.
Rings == RingIntact /\ \A k \in Pages : Count(pipe[k]) <= PIPESIZE

\* Why a process sleeps, from its last test on
Waits(p) ==
  LET r == pipe[io[p].pipe] IN
    IF io[p].writable THEN r.readopen /\ Room(r) = 0 ELSE r.writeopen /\ (Count(r) = 0 \/ r.mute)
Sleepers == \A p \in Procs : pc[p] \in {"sleep", "asleep"} => Waits(p)

Inv == Types /\ RefsCounted /\ Held /\ Forks /\ Represented /\ Using /\ Rings /\ Sleepers

------------------------------------------------------------------------------
(* The constants, and counting holders                                      *)

\* The variables of a call are no descriptors, and the null pointer is no file,
\* process or page.
LEMMA Constant ==
  /\ rf \notin FDs /\ wf \notin FDs /\ rf # wf /\ rf \in Locals /\ wf \in Locals
  /\ None \notin File /\ None \notin Procs /\ None \notin Pages
  /\ FDs \subseteq Places /\ Locals \subseteq Places
  BY FilesAssumption DEF FDs, rf, wf, Locals, File, Places

Holders(f) == {h \in Procs \X Places : Ref(h[1], h[2]) = f}

\* What counting holders needs of Cardinality: adding a place to a set of them counts
\* one more, and only the empty set counts zero.
Countable ==
  \A S \in SUBSET (Procs \X Places) :
    /\ Cardinality(S) \in Nat /\ (Cardinality(S) = 0 <=> S = {})
    /\ \A h \in (Procs \X Places) \ S : Cardinality(S \cup {h}) = Cardinality(S) + 1

\* The places that hold a file, one by one
LEMMA HolderIs ==
  \A f, p, x : <<p, x>> \in Holders(f) <=> p \in Procs /\ x \in Places /\ Ref(p, x) = f
  BY Zenon DEF Holders

\* RefsCounted in terms of Holders
LEMMA Counted == RefsCounted <=> \A f \in File : file[f].ref = Cardinality(Holders(f))
  BY Zenon DEF RefsCounted, Holders, Places, Locals

\* Likewise after a step
LEMMA CountedNext ==
  ASSUME \A f \in File : file'[f].ref = Cardinality(Holders(f)')
  PROVE  RefsCounted'
  BY Zenon DEF RefsCounted, Holders, Places, Locals

\* Taking a place out of a set of them counts one less.
LEMMA Less ==
  ASSUME Countable, NEW S \in SUBSET (Procs \X Places), NEW h \in S
  PROVE  Cardinality(S \ {h}) = Cardinality(S) - 1 /\ Cardinality(S \ {h}) \in Nat
<1>1. S \ {h} \in SUBSET (Procs \X Places) /\ h \in (Procs \X Places) \ (S \ {h}) /\ (S \ {h}) \cup {h} = S
  BY Zenon
<1>2. Cardinality(S) = Cardinality(S \ {h}) + 1 /\ Cardinality(S \ {h}) \in Nat
  BY <1>1 DEF Countable
<1> QED
  BY <1>2

\* Whoever holds a file has counted its reference, and two holders have two.
LEMMA Referred ==
  ASSUME Countable, RefsCounted, NEW f \in File, NEW p \in Procs, NEW x \in Places, Ref(p, x) = f
  PROVE  /\ file[f].ref \in Nat /\ file[f].ref > 0
         /\ \A q \in Procs, y \in Places : Ref(q, y) = f /\ <<q, y>> # <<p, x>> => file[f].ref > 1
<1>1. file[f].ref = Cardinality(Holders(f)) /\ Holders(f) \in SUBSET (Procs \X Places)
  BY Counted, Zenon DEF Holders
<1>2. <<p, x>> \in Holders(f)
  BY Zenon DEF Holders
<1>3. /\ Cardinality(Holders(f) \ {<<p, x>>}) = Cardinality(Holders(f)) - 1
      /\ Cardinality(Holders(f) \ {<<p, x>>}) \in Nat
  BY <1>1, <1>2, Less, Zenon
<1>4. Cardinality(Holders(f)) \in Nat /\ Cardinality(Holders(f)) > 0
  BY <1>1, <1>3 DEF Countable
<1>5. ASSUME NEW q \in Procs, NEW y \in Places, Ref(q, y) = f, <<q, y>> # <<p, x>>
      PROVE  Cardinality(Holders(f)) > 1
  <2>1. <<q, y>> \in Holders(f) \ {<<p, x>>}
    BY <1>5, Zenon DEF Holders
  <2>2. Cardinality(Holders(f) \ {<<p, x>>}) # 0
    BY <1>1, <2>1, Zenon DEF Countable
  <2> QED
    BY <1>3, <1>4, <2>2
<1> QED
  BY <1>1, <1>4, <1>5, Zenon

\* When one place changes, the count of a file follows what the place held and
\* what it holds.
LEMMA OnePlace ==
  ASSUME Countable, RefsCounted, NEW p \in Procs, NEW x \in Places, NEW f \in File,
         \A q \in Procs, y \in Places : <<q, y>> # <<p, x>> => Ref(q, y)' = Ref(q, y)
  PROVE  /\ file[f].ref \in Nat
         /\ (Ref(p, x) = f <=> Ref(p, x)' = f) => Cardinality(Holders(f)') = file[f].ref
         /\ Ref(p, x) # f /\ Ref(p, x)' = f => Cardinality(Holders(f)') = file[f].ref + 1
         /\ Ref(p, x) = f /\ Ref(p, x)' # f => Cardinality(Holders(f)') = file[f].ref - 1
<1> DEFINE S == Holders(f)
           R == Holders(f)'
           t == <<p, x>>
<1>1. file[f].ref = Cardinality(S) /\ S \in SUBSET (Procs \X Places) /\ t \in Procs \X Places
  BY Counted, Zenon DEF Holders
<1>2. \A u : u # t => (u \in S <=> u \in R)
  BY DEF Holders
<1>3. (t \in S <=> Ref(p, x) = f) /\ (t \in R <=> Ref(p, x)' = f)
  BY Zenon DEF Holders
<1> HIDE DEF S, R, t
<1>4. Cardinality(S) \in Nat
  BY <1>1, Zenon DEF Countable
<1>5. CASE t \in S <=> t \in R
  <2>1. R = S
    BY <1>2, <1>5
  <2> QED
    BY <1>1, <1>3, <1>4, <1>5, <2>1, Zenon DEF R
<1>6. CASE t \notin S /\ t \in R
  <2>1. R = S \cup {t}
    BY <1>2, <1>6, Zenon
  <2>2. Cardinality(R) = Cardinality(S) + 1
    BY <1>1, <1>6, <2>1, Zenon DEF Countable
  <2> QED
    BY <1>1, <1>3, <1>4, <1>6, <2>2, Zenon DEF R
<1>7. CASE t \in S /\ t \notin R
  <2>1. R = S \ {t}
    BY <1>2, <1>7, Zenon
  <2>2. Cardinality(R) = Cardinality(S) - 1
    BY <1>1, <1>7, <2>1, Less, Zenon
  <2> QED
    BY <1>1, <1>3, <1>4, <1>7, <2>2, Zenon DEF R
<1> QED
  BY <1>5, <1>6, <1>7, Zenon

\* A file that moves from one place to another has as many holders as before.
LEMMA Handed ==
  ASSUME Countable, RefsCounted, NEW f \in File, NEW a, NEW b \in Procs \X Places,
         a \in Holders(f), b \notin Holders(f), Holders(f)' = (Holders(f) \ {a}) \cup {b}
  PROVE  Cardinality(Holders(f)') = file[f].ref
<1> DEFINE S == Holders(f)
<1>1. S \in SUBSET (Procs \X Places) /\ file[f].ref = Cardinality(S)
  BY Counted, Zenon DEF Holders
<1>2. a \in S /\ b \notin S /\ Holders(f)' = (S \ {a}) \cup {b}
  BY Zenon
<1> HIDE DEF S
<1>3. Cardinality(S \ {a}) = Cardinality(S) - 1 /\ Cardinality(S) \in Nat
  BY <1>1, <1>2, Less, Zenon DEF Countable
<1>4. Cardinality((S \ {a}) \cup {b}) = Cardinality(S \ {a}) + 1
  BY <1>1, <1>2, Zenon DEF Countable
<1>5. Cardinality((S \ {a}) \cup {b}) = file[f].ref
  BY <1>1, <1>3, <1>4
<1> QED
  BY <1>2, <1>5, Zenon

------------------------------------------------------------------------------
(* The initial states, and what a step leaves alone                         *)

Intact(r) ==
  /\ (r.sent - r.got) % WRAP = Count(r) /\ Count(r) <= PIPESIZE
  /\ \A j \in 0 .. Count(r) - 1 : r.data[(r.nread + j) % PIPESIZE] = (r.got + j) % WRAP

\* The size of the ring and the modulus of its counters are positive.
LEMMA Moduli == /\ WRAP \in Nat \ {0} /\ PIPESIZE \in Nat \ {0} /\ PIPESIZE < WRAP /\ WRAP % PIPESIZE = 0
  BY FilesAssumption

\* RingIntact and the bound on what the ring holds, pipe by pipe
LEMMA RingsAre == Rings <=> \A k \in Pages : Intact(pipe[k])
  BY Zenon DEF Rings, RingIntact, Intact

\* A page that is no pipe's
LEMMA NoPipeIntact == NoPipe \in Ring /\ Intact(NoPipe) /\ Count(NoPipe) = 0
<1>1. NoPipe.nread = 0 /\ NoPipe.nwrite = 0 /\ NoPipe.sent = 0 /\ NoPipe.got = 0
  BY Zenon DEF NoPipe
<1>2. 0 \in Numbers
  BY Moduli DEF Numbers
<1>3. NoPipe \in Ring
  BY <1>2, Zenon DEF NoPipe, Ring
<1>4. Count(NoPipe) = 0 /\ (NoPipe.sent - NoPipe.got) % WRAP = 0
  BY <1>1, Moduli DEF Count
<1> QED
  BY <1>3, <1>4, Moduli DEF Intact

\* Reference counts of files that nobody takes or gives up
LEMMA RefsKept ==
  ASSUME RefsCounted, file' = file, ofile' = ofile, mine' = mine
  PROVE  RefsCounted'
  BY Zenon DEF RefsCounted, Ref

\* The variables of a call are as they were, and the process is no further in a
\* call than its first step.
LEMMA HeldKept ==
  ASSUME Held,
         \A p \in Procs : \/ HeldBy(p)'
                          \/ /\ mine'[p] = mine[p]
                             /\ \/ pc'[p] = pc[p]
                                \/ pc[p] \notin InCall /\ pc'[p] \notin InCall \ {"filealloc"}
                             /\ pc[p] \in {"filealloc", "kalloc"} =>
                                  \A v \in Locals : mine[p][v] # None =>
                                    /\ file'[mine[p][v]].type = file[mine[p][v]].type
                                    /\ file'[mine[p][v]].ref = file[mine[p][v]].ref
  PROVE  Held'
<1> SUFFICES ASSUME NEW p \in Procs, mine'[p] = mine[p],
                    \/ pc'[p] = pc[p]
                    \/ pc[p] \notin InCall /\ pc'[p] \notin InCall \ {"filealloc"},
                    pc[p] \in {"filealloc", "kalloc"} =>
                      \A v \in Locals : mine[p][v] # None =>
                        /\ file'[mine[p][v]].type = file[mine[p][v]].type
                        /\ file'[mine[p][v]].ref = file[mine[p][v]].ref
             PROVE  HeldBy(p)'
  BY Zenon DEF Held
<1>0. HeldBy(p)
  BY Zenon DEF Held
<1>1. CASE pc'[p] = pc[p]
  BY <1>0, <1>1 DEF HeldBy
<1>2. CASE pc[p] \notin InCall /\ pc'[p] \notin InCall \ {"filealloc"}
  <2>1. \A v \in Locals : mine[p][v] = None
    BY <1>0, <1>2, Zenon DEF HeldBy
  <2> QED
    BY <1>2, <2>1, Constant, Zenon DEF InCall, HeldBy
<1> QED
  BY <1>1, <1>2, Zenon

\* fork() goes on as before where nobody enters or leaves it.
LEMMA ForksKept ==
  ASSUME Forks, child' = child, ofile' = ofile,
         \A p \in Procs : \/ pc'[p] = pc[p]
                          \/ pc[p] \notin {"fork", "embryo", "unused"} /\ pc'[p] \notin {"fork", "embryo", "unused"}
  PROVE  Forks'
<1>1. \A p \in Procs : /\ pc'[p] = "fork" => pc[p] = "fork"
                       /\ pc[p] = "embryo" => pc'[p] = "embryo"
                       /\ pc'[p] = "unused" => pc[p] = "unused"
  BY Zenon
<1> QED
  BY <1>1, Zenon DEF Forks

\* The ends of pipes are represented as before where no file of a pipe changes
\* its pipe, and nobody begins or ends pipeclose().
LEMMA RepresentedKept ==
  ASSUME Represented,
         \A f \in File : /\ file'[f].type = file[f].type
                         /\ file[f].type = "pipe" =>
                              /\ file'[f].pipe = file[f].pipe /\ file'[f].writable = file[f].writable
                              /\ file[f].ref > 0 => file'[f].ref > 0,
         \A p \in Procs : /\ pc'[p] = "pipeclose" <=> pc[p] = "pipeclose"
                          /\ pc[p] = "pipeclose" => io'[p].pipe = io[p].pipe /\ io'[p].writable = io[p].writable,
         \A k \in Pages : /\ pipe'[k].used = pipe[k].used
                          /\ pipe'[k].readopen = pipe[k].readopen /\ pipe'[k].writeopen = pipe[k].writeopen
  PROVE  Represented'
<1>1. \A f \in File : \A k, w : IsEnd(f, k, w)' <=> IsEnd(f, k, w)
  BY Zenon DEF IsEnd
<1>2. \A p \in Procs : \A k, w : Closes(p, k, w)' <=> Closes(p, k, w)
  BY Zenon DEF Closes
<1>3. \A k \in Pages, w \in BOOLEAN : Opened(k, w)' <=> Opened(k, w)
  BY Zenon DEF Opened
<1>4. /\ \A f \in File : file'[f].type = "pipe" => file'[f].ref > 0 /\ file'[f].pipe \in Pages
      /\ \A p \in Procs : pc'[p] = "pipeclose" => io'[p].pipe \in Pages
      /\ \A k \in Pages : pipe'[k].used <=> pipe'[k].readopen \/ pipe'[k].writeopen
  BY DEF Represented
<1>5. ASSUME NEW k \in Pages, NEW w \in BOOLEAN
      PROVE  /\ Opened(k, w)' <=> \/ \E f \in File : IsEnd(f, k, w)'
                                  \/ \E p \in Procs : Closes(p, k, w)'
             /\ \A f, g \in File : IsEnd(f, k, w)' /\ IsEnd(g, k, w)' => f = g
             /\ \A p, q \in Procs : Closes(p, k, w)' /\ Closes(q, k, w)' => p = q
             /\ \A f \in File, p \in Procs : ~ (IsEnd(f, k, w)' /\ Closes(p, k, w)')
  <2>1. /\ Opened(k, w) <=> \/ \E f \in File : IsEnd(f, k, w)
                            \/ \E p \in Procs : Closes(p, k, w)
        /\ \A f, g \in File : IsEnd(f, k, w) /\ IsEnd(g, k, w) => f = g
        /\ \A p, q \in Procs : Closes(p, k, w) /\ Closes(q, k, w) => p = q
        /\ \A f \in File, p \in Procs : ~ (IsEnd(f, k, w) /\ Closes(p, k, w))
    BY Zenon DEF Represented
  <2>2. /\ \A f \in File : IsEnd(f, k, w)' <=> IsEnd(f, k, w)
        /\ \A p \in Procs : Closes(p, k, w)' <=> Closes(p, k, w)
        /\ Opened(k, w)' <=> Opened(k, w)
    BY <1>1, <1>2, <1>3, Zenon
  <2> QED
    BY <2>1, <2>2, Zenon
<1> QED
  BY <1>4, <1>5, Zenon DEF Represented

\* Readers and writers keep their ends where no descriptor is closed and nobody
\* begins to read or write.
LEMMA UsingKept ==
  ASSUME Types, Using,
         \A p \in Procs : pc'[p] \in InIO =>
           /\ pc[p] \in InIO /\ io'[p].pipe = io[p].pipe /\ io'[p].writable = io[p].writable
           /\ \A fd \in FDs : ofile[p][fd] # None =>
                /\ ofile'[p][fd] = ofile[p][fd]
                /\ file[ofile[p][fd]].type = "pipe" =>
                     /\ file'[ofile[p][fd]].type = "pipe"
                     /\ file'[ofile[p][fd]].pipe = file[ofile[p][fd]].pipe
                     /\ file'[ofile[p][fd]].writable = file[ofile[p][fd]].writable
  PROVE  Using'
<1> SUFFICES ASSUME NEW p \in Procs, pc'[p] \in InIO
             PROVE  /\ io'[p].pipe \in Pages
                    /\ \E fd \in FDs : ofile'[p][fd] # None /\ IsEnd(ofile[p][fd], io[p].pipe, io[p].writable)'
  BY Zenon DEF Using
<1>1. io[p].pipe \in Pages
  BY Zenon DEF Using
<1>2. PICK fd \in FDs : ofile[p][fd] # None /\ IsEnd(ofile[p][fd], io[p].pipe, io[p].writable)
  BY Zenon DEF Using
<1>3. ofile[p][fd] \in File /\ ofile'[p][fd] = ofile[p][fd]
  BY <1>2 DEF Types
<1>4. IsEnd(ofile[p][fd], io[p].pipe, io[p].writable)'
  BY <1>2, <1>3 DEF IsEnd
<1> QED
  BY <1>1, <1>2, <1>3, <1>4, Zenon

\* Whoever sleeps on a pipe that does not change has its reason still.
LEMMA SleepersKept ==
  ASSUME Sleepers,
         \A p \in Procs : pc'[p] \in {"sleep", "asleep"} =>
           /\ pc[p] \in {"sleep", "asleep"} /\ io'[p].pipe = io[p].pipe /\ io'[p].writable = io[p].writable
           /\ pipe'[io[p].pipe] = pipe[io[p].pipe]
  PROVE  Sleepers'
  BY DEF Sleepers, Waits, Count, Room

\* Rings that nobody writes or reads
LEMMA RingsKept ==
  ASSUME Rings, pipe' = pipe
  PROVE  Rings'
  BY Zenon DEF Rings, RingIntact, Count

------------------------------------------------------------------------------
(* The calls that leave the rings alone                                     *)

\* A call that is over, and what exit() knows while it closes
LEMMA NoIOIs == NoIO \in IORec
  BY Zenon DEF NoIO, IORec

\* pipealloc() makes a pipe of two files that nobody else has and a page that is no
\* pipe's, and gives the files to descriptors or to fileclose().
LEMMA pipeallocInv ==
  ASSUME Countable, Inv, NEW p \in Procs, pipealloc(p)
  PROVE  Inv'
<1> USE DEF Inv
<1>1. pc[p] = "kalloc" /\ killed' = killed /\ io' = io /\ child' = child
  BY Zenon DEF pipealloc
<1>2. \A u \in Locals : mine[p][u] \in File /\ file[mine[p][u]].ref = 1 /\ file[mine[p][u]].type = "none"
  BY <1>1 DEF Held, HeldBy, Types
<1>3. PICK r \in File : r = mine[p][rf]
  BY <1>2, Constant, Zenon
<1>4. PICK w \in File : w = mine[p][wf]
  BY <1>2, Constant, Zenon
<1>5. /\ Ref(p, rf) = r /\ Ref(p, wf) = w /\ rf \in Places /\ wf \in Places
      /\ file[r].ref = 1 /\ file[r].type = "none" /\ file[w].ref = 1 /\ file[w].type = "none"
  BY <1>2, <1>3, <1>4, Constant, Zenon DEF Ref
\* Nobody else has them.
<1>6. /\ \A q \in Procs, y \in Places : Ref(q, y) = r => q = p /\ y = rf
      /\ \A q \in Procs, y \in Places : Ref(q, y) = w => q = p /\ y = wf
  <2>1. \A q \in Procs, y \in Places : Ref(q, y) = r /\ <<q, y>> # <<p, rf>> => file[r].ref > 1
    BY <1>5, Referred
  <2>2. \A q \in Procs, y \in Places : Ref(q, y) = w /\ <<q, y>> # <<p, wf>> => file[w].ref > 1
    BY <1>5, Referred
  <2> QED
    BY <1>5, <2>1, <2>2
<1>7. r # w
  BY <1>5, <1>6, Constant, Zenon
<1>8. /\ \A q \in Procs, d \in FDs : ofile[q][d] # r /\ ofile[q][d] # w
      /\ \A q \in Procs, u \in Locals : q # p => mine[q][u] # r /\ mine[q][u] # w
  <2>1. \A q \in Procs, d \in FDs : Ref(q, d) = ofile[q][d] /\ d \in Places /\ d # rf /\ d # wf
    BY Constant, Zenon DEF Ref
  <2>2. \A q \in Procs, u \in Locals : Ref(q, u) = mine[q][u] /\ u \in Places
    BY Constant, Zenon DEF Ref, Locals
  <2> QED
    BY <1>6, <2>1, <2>2
<1>9. pc \in [Procs -> Labels] /\ file \in [File -> FileRec] /\ pipe \in [Pages -> Ring]
      /\ ofile \in [Procs -> [FDs -> File \cup {None}]] /\ mine \in [Procs -> [Locals -> File \cup {None}]]
  BY Zenon DEF Types
\* No page
<1>10. CASE Goto(p, "fileclose") /\ UNCHANGED <<file, pipe, ofile, mine>>
  <2>1. file' = file /\ pipe' = pipe /\ ofile' = ofile /\ mine' = mine
    BY <1>10, Zenon
  <2>2. pc' \in [Procs -> Labels] /\ pc'[p] = "fileclose" /\ \A q \in Procs : q # p => pc'[q] = pc[q]
    BY <1>9, <1>10, Zenon DEF Goto, Labels
  <2>3. Types'
    BY <1>1, <2>1, <2>2, Zenon DEF Types
  <2>4. RefsCounted' /\ Rings'
    BY <2>1, RefsKept, RingsKept, Zenon
  <2>5. Held'
    <3>1. HeldBy(p)'
      BY <1>2, <2>1, <2>2, Constant, Zenon DEF HeldBy, InCall
    <3> QED
      BY <2>1, <2>2, <3>1, HeldKept, Zenon
  <2>6. Forks'
    BY <1>1, <2>1, <2>2, ForksKept, Zenon
  <2>7. Represented'
    BY <1>1, <2>1, <2>2, RepresentedKept, Zenon
  <2>8. Using' /\ Sleepers'
    BY <1>1, <2>1, <2>2, UsingKept, SleepersKept, Zenon DEF InIO
  <2> QED
    BY <2>3, <2>4, <2>5, <2>6, <2>7, <2>8, Zenon
<1>11. ASSUME NEW k \in Pages, ~ pipe[k].used,
              pipe' = [pipe EXCEPT ![k] = [NoPipe EXCEPT !.used = TRUE, !.readopen = TRUE, !.writeopen = TRUE]],
              file' = [file EXCEPT ![r] = [ref |-> 1, type |-> "pipe", writable |-> FALSE, pipe |-> k],
                                   ![w] = [ref |-> 1, type |-> "pipe", writable |-> TRUE, pipe |-> k]],
              descriptors(p, r, w)
       PROVE  Inv'
  <2> DEFINE new == [NoPipe EXCEPT !.used = TRUE, !.readopen = TRUE, !.writeopen = TRUE]
             fr == [ref |-> 1, type |-> "pipe", writable |-> FALSE, pipe |-> k]
             fw == [ref |-> 1, type |-> "pipe", writable |-> TRUE, pipe |-> k]
  <2>1. new \in Ring /\ Intact(new) /\ new.used /\ new.readopen /\ new.writeopen
    <3>1. /\ new.nread = 0 /\ new.nwrite = 0 /\ new.sent = 0 /\ new.got = 0 /\ new.data = NoPipe.data
          /\ new.used /\ new.readopen /\ new.writeopen
      BY Zenon DEF NoPipe
    <3>2. new \in Ring
      BY NoPipeIntact, Zenon DEF Ring
    <3> HIDE DEF new
    <3>3. Count(new) = 0 /\ (new.sent - new.got) % WRAP = 0
      BY <3>1, Moduli DEF Count
    <3>4. Intact(new)
      BY <3>3, Moduli DEF Intact
    <3> QED
      BY <3>1, <3>2, <3>4, Zenon
  <2>2. /\ fr \in FileRec /\ fr.ref = 1 /\ fr.type = "pipe" /\ fr.writable = FALSE /\ fr.pipe = k
        /\ fw \in FileRec /\ fw.ref = 1 /\ fw.type = "pipe" /\ fw.writable = TRUE /\ fw.pipe = k
    BY Zenon DEF FileRec
  <2>3. pipe' = [pipe EXCEPT ![k] = new] /\ file' = [file EXCEPT ![r] = fr, ![w] = fw]
    BY <1>11, Zenon
  <2> HIDE DEF new, fr, fw
  <2>4. pipe' \in [Pages -> Ring] /\ pipe'[k] = new /\ \A j \in Pages : j # k => pipe'[j] = pipe[j]
    BY <1>9, <2>1, <2>3, Zenon
  <2>5. /\ file' \in [File -> FileRec] /\ file'[r] = fr /\ file'[w] = fw
        /\ \A f \in File : f # r /\ f # w => file'[f] = file[f]
    BY <1>7, <1>9, <2>2, <2>3, Zenon
  <2>6. PICK l \in {"user", "fileclose"} :
          /\ pc' = [pc EXCEPT ![p] = l]
          /\ \/ l = "user" /\ Installed(p, r, w) /\ mine' = [mine EXCEPT ![p] = NoLocals]
             \/ l = "fileclose" /\ ofile' = ofile /\ mine' = mine
    BY <1>11, Zenon DEF descriptors, Goto
  <2>7. pc' \in [Procs -> Labels] /\ pc'[p] = l /\ \A q \in Procs : q # p => pc'[q] = pc[q]
    BY <1>9, <2>6, Zenon DEF Labels
  \* What the places hold after it
  <2>8. /\ ofile' \in [Procs -> [FDs -> File \cup {None}]] /\ mine' \in [Procs -> [Locals -> File \cup {None}]]
        /\ \A q \in Procs : q # p => ofile'[q] = ofile[q] /\ mine'[q] = mine[q]
        /\ \A q \in Procs, d \in FDs : ofile[q][d] # None => ofile'[q][d] = ofile[q][d]
        /\ \A f \in File : Cardinality(Holders(f)') = file[f].ref
        /\ l = "user" => \A u \in Locals : mine'[p][u] = None
        /\ l = "fileclose" => mine' = mine
    <3>1. CASE l = "fileclose" /\ ofile' = ofile /\ mine' = mine
      <4>1. \A f \in File : Holders(f)' = Holders(f)
        BY <3>1, Zenon DEF Holders, Ref
      <4>2. \A f \in File : Cardinality(Holders(f)') = file[f].ref
        BY <4>1, Counted, Zenon
      <4> QED
        BY <1>9, <3>1, <4>2, Zenon
    <3>2. CASE l = "user" /\ Installed(p, r, w) /\ mine' = [mine EXCEPT ![p] = NoLocals]
      <4>1. PICK d0, d1 \in FDs : /\ First(Free(p), d0) /\ First(Free(p) \ {d0}, d1)
                                  /\ ofile' = [ofile EXCEPT ![p] = [@ EXCEPT ![d0] = r, ![d1] = w]]
        BY <3>2, Zenon DEF Installed
      <4>2. d0 # d1 /\ ofile[p][d0] = None /\ ofile[p][d1] = None
        BY <4>1, Zenon DEF First, Free
      <4>3. /\ ofile' \in [Procs -> [FDs -> File \cup {None}]] /\ ofile'[p][d0] = r /\ ofile'[p][d1] = w
            /\ \A d \in FDs : d # d0 /\ d # d1 => ofile'[p][d] = ofile[p][d]
            /\ \A q \in Procs : q # p => ofile'[q] = ofile[q]
        <5> DEFINE row == [ofile[p] EXCEPT ![d0] = r, ![d1] = w]
        <5>1. /\ row \in [FDs -> File \cup {None}] /\ row[d0] = r /\ row[d1] = w
              /\ \A d \in FDs : d # d0 /\ d # d1 => row[d] = ofile[p][d]
          BY <1>9, <4>2, Zenon
        <5>2. ofile' = [ofile EXCEPT ![p] = row]
          BY <4>1, Zenon
        <5> HIDE DEF row
        <5> QED
          BY <1>9, <5>1, <5>2, Zenon
      <4>4. /\ mine' \in [Procs -> [Locals -> File \cup {None}]] /\ \A u \in Locals : mine'[p][u] = None
            /\ \A q \in Procs : q # p => mine'[q] = mine[q]
        <5>1. NoLocals \in [Locals -> File \cup {None}] /\ \A u \in Locals : NoLocals[u] = None
          BY Zenon DEF NoLocals, Locals
        <5> QED
          BY <1>9, <3>2, <5>1, Zenon
      <4> DEFINE a0 == <<p, rf>>
                 a1 == <<p, wf>>
                 b0 == <<p, d0>>
                 b1 == <<p, d1>>
      <4>5. /\ Ref(p, rf)' = None /\ Ref(p, wf)' = None /\ Ref(p, d0)' = r /\ Ref(p, d1)' = w
            /\ Ref(p, d0) = None /\ Ref(p, d1) = None
            /\ a0 \in Procs \X Places /\ a1 \in Procs \X Places /\ b0 \in Procs \X Places /\ b1 \in Procs \X Places
            /\ a0 # b0 /\ a1 # b1 /\ a0 # a1 /\ b0 # b1 /\ a0 # b1 /\ a1 # b0
        BY <4>2, <4>3, <4>4, Constant, Zenon DEF Ref
      <4>6. \A q \in Procs, y \in Places :
              <<q, y>> # a0 /\ <<q, y>> # a1 /\ <<q, y>> # b0 /\ <<q, y>> # b1 => Ref(q, y)' = Ref(q, y)
        BY <4>3, <4>4, Zenon DEF Ref, Places, Locals
      <4> HIDE DEF a0, a1, b0, b1
      <4>7. ASSUME NEW f \in File PROVE Cardinality(Holders(f)') = file[f].ref
        <5>1. CASE f # r /\ f # w
          <6>1. Holders(f)' = Holders(f)
            BY <1>5, <4>5, <4>6, <5>1, Constant DEF Holders, a0, a1, b0, b1
          <6> QED
            BY <6>1, Counted, Zenon
        <5>2. CASE f = r
          <6>1. a0 \in Holders(f) /\ b0 \notin Holders(f)
            BY <1>5, <4>5, <5>2, Constant, Zenon DEF Holders, a0, b0
          <6>2. Holders(f)' = (Holders(f) \ {a0}) \cup {b0}
            BY <1>5, <1>7, <4>5, <4>6, <5>2, Constant DEF Holders, a0, a1, b0, b1
          <6> QED
            BY <4>5, <6>1, <6>2, Handed, Zenon
        <5>3. CASE f = w
          <6>1. a1 \in Holders(f) /\ b1 \notin Holders(f)
            BY <1>5, <4>5, <5>3, Constant, Zenon DEF Holders, a1, b1
          <6>2. Holders(f)' = (Holders(f) \ {a1}) \cup {b1}
            BY <1>5, <1>7, <4>5, <4>6, <5>3, Constant DEF Holders, a0, a1, b0, b1
          <6> QED
            BY <4>5, <6>1, <6>2, Handed, Zenon
        <5> QED
          BY <5>1, <5>2, <5>3, Zenon
      <4>8. \A q \in Procs, d \in FDs : ofile[q][d] # None => ofile'[q][d] = ofile[q][d]
        BY <4>2, <4>3, Zenon
      <4> QED
        BY <3>2, <4>3, <4>4, <4>7, <4>8, Zenon
    <3> QED
      BY <2>6, <3>1, <3>2, Zenon
  <2>9. Types'
    BY <1>1, <2>4, <2>5, <2>7, <2>8, Zenon DEF Types
  <2>10. RefsCounted'
    <3>1. \A f \in File : file'[f].ref = file[f].ref
      BY <1>5, <2>2, <2>5, Zenon
    <3> QED
      BY <2>8, <3>1, CountedNext, Zenon
  <2>11. Held'
    <3>1. HeldBy(p)'
      <4>1. CASE l = "user"
        BY <2>7, <2>8, <4>1, Zenon DEF HeldBy, InCall
      <4>2. CASE l = "fileclose"
        <5>1. mine'[p][rf] # None /\ rf \in Locals
          BY <1>3, <2>8, <4>2, Constant
        <5> QED
          BY <2>7, <4>2, <5>1, Zenon DEF HeldBy, InCall
      <4> QED
        BY <4>1, <4>2, Zenon
    <3>2. \A q \in Procs, u \in Locals : q # p /\ mine[q][u] # None => file'[mine[q][u]] = file[mine[q][u]]
      BY <1>8, <1>9, <2>5
    <3> QED
      BY <2>7, <2>8, <3>1, <3>2, HeldKept
  <2>12. Forks'
    <3>1. \A q \in Procs : pc'[q] = "fork" =>
            /\ pc[q] = "fork" /\ q # p /\ child[q] # p /\ child[q] \in Procs /\ pc'[child[q]] = "embryo"
      BY <1>1, <2>7, Zenon DEF Forks
    <3>2. \A q \in Procs : pc'[q] = "unused" => pc[q] = "unused" /\ q # p
      BY <2>7, Zenon
    <3>3. \A q \in Procs : q # p => ofile'[q] = ofile[q]
      BY <2>8, Zenon
    <3>4. \A q \in Procs : pc'[q] = "fork" =>
            /\ child'[q] \in Procs /\ pc'[child'[q]] = "embryo"
            /\ \A fd \in FDs : ofile'[child'[q]][fd] \in {None, ofile'[q][fd]}
      BY <1>1, <3>1, <3>3, Zenon DEF Forks
    <3>5. \A q, t \in Procs : pc'[q] = "fork" /\ pc'[t] = "fork" /\ child'[q] = child'[t] => q = t
      BY <1>1, <3>1 DEF Forks
    <3>6. \A q \in Procs : pc'[q] = "unused" => \A fd \in FDs : ofile'[q][fd] = None
      BY <3>2, <3>3 DEF Forks
    <3> QED
      BY <3>4, <3>5, <3>6, Zenon DEF Forks
  <2>13. Rings'
    <3>1. \A j \in Pages : Intact(pipe'[j])
      BY <2>1, <2>4, RingsAre, Zenon
    <3> QED
      BY <3>1, Zenon DEF Rings, RingIntact, Intact, Count
  <2>14. Using'
    <3>1. \A q \in Procs, d \in FDs : ofile[q][d] # None =>
            ofile'[q][d] = ofile[q][d] /\ file'[ofile[q][d]] = file[ofile[q][d]]
      BY <1>8, <1>9, <2>5, <2>8
    <3>2. \A q \in Procs : pc'[q] \in InIO => q # p /\ pc[q] \in InIO
      BY <2>7, Zenon DEF InIO
    <3> QED
      BY <1>1, <3>1, <3>2, UsingKept, Zenon
  \* The page was nobody's.
  <2>15. \A x \in BOOLEAN : /\ \A f \in File : ~ IsEnd(f, k, x)
                            /\ \A q \in Procs : ~ Closes(q, k, x)
    <3>1. ~ pipe[k].readopen /\ ~ pipe[k].writeopen
      BY <1>11, Zenon DEF Represented
    <3>2. \A x \in BOOLEAN : ~ Opened(k, x)
      BY <3>1, Zenon DEF Opened
    <3> QED
      BY <3>2, Zenon DEF Represented
  <2>16. Sleepers'
    <3>1. ASSUME NEW q \in Procs, pc'[q] \in {"sleep", "asleep"}
          PROVE  pc[q] \in {"sleep", "asleep"} /\ io[q].pipe \in Pages /\ io[q].pipe # k
      <4>1. q # p /\ pc[q] \in {"sleep", "asleep"}
        BY <2>7, <3>1, Zenon
      <4>2. io[q].pipe \in Pages /\ \E fd \in FDs : ofile[q][fd] # None
                                                    /\ IsEnd(ofile[q][fd], io[q].pipe, io[q].writable)
        BY <4>1, Zenon DEF Using, InIO
      <4>3. io[q].writable \in BOOLEAN
        BY Zenon DEF Types, IORec
      <4>4. io[q].pipe # k
        BY <1>9, <2>15, <4>2, <4>3
      <4> QED
        BY <4>1, <4>2, <4>4, Zenon
    <3> QED
      BY <1>1, <2>4, <3>1, SleepersKept, Zenon
  <2>17. Represented'
    <3>1. /\ \A f \in File : file'[f].type = "pipe" => file'[f].ref > 0 /\ file'[f].pipe \in Pages
          /\ \A q \in Procs : pc'[q] = "pipeclose" => io'[q].pipe \in Pages
          /\ \A j \in Pages : pipe'[j].used <=> pipe'[j].readopen \/ pipe'[j].writeopen
      <4>1. \A f \in File : file'[f].type = "pipe" => file'[f].ref > 0 /\ file'[f].pipe \in Pages
        BY <2>2, <2>5 DEF Represented
      <4>2. \A q \in Procs : pc'[q] = "pipeclose" => io'[q].pipe \in Pages
        BY <1>1, <2>7, Zenon DEF Represented
      <4>3. \A j \in Pages : pipe'[j].used <=> pipe'[j].readopen \/ pipe'[j].writeopen
        BY <2>1, <2>4, Zenon DEF Represented
      <4> QED
        BY <4>1, <4>2, <4>3, Zenon
    <3>2. \A f \in File : \A j, x : IsEnd(f, j, x)' <=> IF f = r THEN j = k /\ x = FALSE
                                                        ELSE IF f = w THEN j = k /\ x = TRUE ELSE IsEnd(f, j, x)
      BY <1>7, <2>2, <2>5, Zenon DEF IsEnd
    <3>3. \A q \in Procs : \A j, x : Closes(q, j, x)' <=> Closes(q, j, x)
      BY <1>1, <2>7, Zenon DEF Closes
    <3>4. \A j \in Pages, x \in BOOLEAN : Opened(j, x)' <=> Opened(j, x) \/ j = k
      BY <2>1, <2>4, Zenon DEF Opened
    <3>5. \A j, x : ~ IsEnd(r, j, x) /\ ~ IsEnd(w, j, x)
      BY <1>5, Zenon DEF IsEnd
    <3>6. ASSUME NEW j \in Pages, NEW x \in BOOLEAN
          PROVE  /\ Opened(j, x)' <=> \/ \E f \in File : IsEnd(f, j, x)'
                                      \/ \E q \in Procs : Closes(q, j, x)'
                 /\ \A f, g \in File : IsEnd(f, j, x)' /\ IsEnd(g, j, x)' => f = g
                 /\ \A q, t \in Procs : Closes(q, j, x)' /\ Closes(t, j, x)' => q = t
                 /\ \A f \in File, q \in Procs : ~ (IsEnd(f, j, x)' /\ Closes(q, j, x)')
      <4>1. /\ Opened(j, x) <=> \/ \E f \in File : IsEnd(f, j, x)
                                \/ \E q \in Procs : Closes(q, j, x)
            /\ \A f, g \in File : IsEnd(f, j, x) /\ IsEnd(g, j, x) => f = g
            /\ \A q, t \in Procs : Closes(q, j, x) /\ Closes(t, j, x) => q = t
            /\ \A f \in File, q \in Procs : ~ (IsEnd(f, j, x) /\ Closes(q, j, x))
        BY Zenon DEF Represented
      <4>2. /\ \A q \in Procs : Closes(q, j, x)' <=> Closes(q, j, x)
            /\ Opened(j, x)' <=> Opened(j, x) \/ j = k
        BY <3>3, <3>4, Zenon
      <4>3. CASE j = k
        <5>1. PICK e \in {r, w} : \A f \in File : IsEnd(f, j, x)' <=> f = e
          <6>1. CASE x = TRUE
            BY <1>7, <2>15, <3>2, <4>3, <6>1, Zenon
          <6>2. CASE x = FALSE
            BY <1>7, <2>15, <3>2, <4>3, <6>2, Zenon
          <6> QED
            BY <6>1, <6>2, Zenon
        <5>2. \A q \in Procs : ~ Closes(q, j, x)
          BY <2>15, <4>3, Zenon
        <5> QED
          BY <4>2, <4>3, <5>1, <5>2, Zenon
      <4>4. CASE j # k
        <5>1. \A f \in File : IsEnd(f, j, x)' <=> IsEnd(f, j, x)
          BY <3>2, <3>5, <4>4
        <5> QED
          BY <4>1, <4>2, <4>4, <5>1, Zenon
      <4> QED
        BY <4>3, <4>4, Zenon
    <3> QED
      BY <3>1, <3>6, Zenon DEF Represented
  <2> QED
    BY <2>9, <2>10, <2>11, <2>12, <2>13, <2>14, <2>16, <2>17, Zenon
<1> QED
  BY <1>3, <1>4, <1>10, <1>11, Zenon DEF pipealloc

\* The variables of a call, when one is cleared, say where it goes on.
LEMMA ResumeIs ==
  ASSUME NEW p \in Procs, NEW m \in [Locals -> File \cup {None}]
  PROVE  /\ Resume(p, m) \in {"fileclose", "exit", "user"}
         /\ Resume(p, m) = "fileclose" => \E u \in Locals : m[u] # None
         /\ Resume(p, m) # "fileclose" => \A u \in Locals : m[u] = None
<1>1. (\A u \in Locals : m[u] = None) => m = NoLocals
  BY Zenon DEF NoLocals, Locals
<1>2. m = NoLocals => \A u \in Locals : m[u] = None
  BY Zenon DEF NoLocals, Locals
<1> QED
  BY <1>1, <1>2, Zenon DEF Resume

\* fileclose() gives up a reference; with the last one of a pipe the call itself
\* stands for the end until pipeclose() is done.
LEMMA filecloseInv ==
  ASSUME Countable, Inv, NEW p \in Procs, fileclose(p)
  PROVE  Inv'
<1> USE DEF Inv
<1>0. PICK v \in Locals : v = IF mine[p][rf] # None THEN rf ELSE wf
  BY Constant, Zenon
<1>1. PICK f \in File : f = mine[p][v]
  <2>1. pc[p] = "fileclose"
    BY Zenon DEF fileclose
  <2>2. mine[p][v] # None
    BY <1>0, <2>1, Zenon DEF Held, HeldBy, Locals
  <2> QED
    BY <2>2 DEF Types
<1> DEFINE left == [mine[p] EXCEPT ![v] = None]
           newf == IF file[f].ref > 1 THEN [file[f] EXCEPT !.ref = file[f].ref - 1] ELSE NoFile
           newio == [io[p] EXCEPT !.pipe = file[f].pipe, !.writable = file[f].writable]
           last == file[f].ref = 1 /\ file[f].type = "pipe"
<1>2. /\ pc[p] = "fileclose" /\ file[f].ref >= 1
      /\ file' = [file EXCEPT ![f] = newf] /\ mine' = [mine EXCEPT ![p] = left]
      /\ pipe' = pipe /\ ofile' = ofile /\ killed' = killed /\ child' = child
  BY <1>0, <1>1, Zenon DEF fileclose
<1>3. /\ last => io' = [io EXCEPT ![p] = newio] /\ pc' = [pc EXCEPT ![p] = "pipeclose"]
      /\ ~ last => io' = io /\ pc' = [pc EXCEPT ![p] = Resume(p, left)]
  BY <1>0, <1>1, Zenon DEF fileclose, Goto
<1>4. /\ left \in [Locals -> File \cup {None}] /\ left[v] = None /\ \A u \in Locals : u # v => left[u] = mine[p][u]
  BY Zenon DEF Types
<1>5. /\ Resume(p, left) \in {"fileclose", "exit", "user"}
      /\ Resume(p, left) = "fileclose" => \E u \in Locals : left[u] # None
      /\ Resume(p, left) # "fileclose" => \A u \in Locals : left[u] = None
  BY <1>4, ResumeIs, Zenon
<1>6. /\ file[f] \in FileRec /\ file[f].ref \in Nat /\ file \in [File -> FileRec]
      /\ file[f].type = "pipe" => file[f].pipe \in Pages
  BY Zenon DEF Types, FileRec, Represented
<1>7. /\ newf \in FileRec
      /\ file[f].ref > 1 => /\ newf.ref = file[f].ref - 1 /\ newf.type = file[f].type /\ newf.pipe = file[f].pipe
                            /\ newf.writable = file[f].writable
      /\ ~ (file[f].ref > 1) => newf.ref = 0 /\ newf.type = "none"
  <2>1. NoFile \in FileRec /\ NoFile.ref = 0 /\ NoFile.type = "none"
    BY Zenon DEF NoFile, FileRec
  <2>2. file[f].ref > 1 => file[f].ref - 1 \in Nat
    BY <1>6
  <2>3. CASE file[f].ref > 1
    BY <1>6, <2>2, <2>3, Zenon DEF FileRec
  <2>4. CASE ~ (file[f].ref > 1)
    BY <2>1, <2>4, Zenon
  <2> QED
    BY <2>3, <2>4, Zenon
<1>8. newio \in IORec /\ newio.pipe = file[f].pipe /\ newio.writable = file[f].writable
  <2>1. io[p] \in IORec /\ file[f].pipe \in Pages \cup {None} /\ file[f].writable \in BOOLEAN
    BY <1>6, Zenon DEF Types, FileRec
  <2> QED
    BY <2>1, Zenon DEF IORec
<1> HIDE DEF left, newf, newio
<1>9. /\ file' \in [File -> FileRec] /\ file'[f] = newf /\ \A h \in File : h # f => file'[h] = file[h]
  BY <1>2, <1>6, <1>7, Zenon
<1>10. /\ mine' \in [Procs -> [Locals -> File \cup {None}]] /\ mine'[p] = left
       /\ \A r \in Procs : r # p => mine'[r] = mine[r]
  BY <1>2, <1>4, Zenon DEF Types
<1>11. /\ pc' \in [Procs -> Labels] /\ \A r \in Procs : r # p => pc'[r] = pc[r]
       /\ pc'[p] = IF last THEN "pipeclose" ELSE Resume(p, left)
  BY <1>3, <1>5, Zenon DEF Types, Labels
<1>12. /\ io' \in [Procs -> IORec] /\ \A r \in Procs : r # p => io'[r] = io[r]
       /\ last => io'[p] = newio
  BY <1>3, <1>8, Zenon DEF Types
<1>13. Types'
  BY <1>2, <1>9, <1>10, <1>11, <1>12, Zenon DEF Types
<1>14. Rings'
  BY <1>2, RingsKept, Zenon
<1>15. pc'[p] \notin InIO /\ pc'[p] \in {"pipeclose", "fileclose", "exit", "user"}
  BY <1>5, <1>11, Zenon DEF InIO
<1>16. Sleepers'
  BY <1>2, <1>11, <1>12, <1>15, SleepersKept, Zenon DEF InIO
<1>17. Forks'
  BY <1>2, <1>11, <1>15, ForksKept, Zenon
<1>18. Ref(p, v) = f /\ Ref(p, v)' = None /\ v \in Places /\ v \notin FDs
       /\ \A r \in Procs, y \in Places : <<r, y>> # <<p, v>> => Ref(r, y)' = Ref(r, y)
  <2>1. v \in Places /\ v \notin FDs /\ \A y \in Places : y \in FDs \/ y \in Locals
    BY Constant, Zenon DEF Places, Locals
  <2>2. Ref(p, v) = f /\ Ref(p, v)' = None
    BY <1>1, <1>4, <1>10, <2>1, Zenon DEF Ref
  <2>3. \A r \in Procs, u \in Locals : <<r, u>> # <<p, v>> => mine'[r][u] = mine[r][u]
    BY <1>4, <1>10, Zenon
  <2>4. \A r \in Procs, y \in Places : <<r, y>> # <<p, v>> => Ref(r, y)' = Ref(r, y)
    BY <1>2, <2>1, <2>3 DEF Ref
  <2> QED
    BY <2>1, <2>2, <2>4, Zenon
<1>19. RefsCounted'
  <2>1. ASSUME NEW h \in File PROVE file'[h].ref = Cardinality(Holders(h)')
    <3>1. /\ (Ref(p, v) = h <=> Ref(p, v)' = h) => Cardinality(Holders(h)') = file[h].ref
          /\ Ref(p, v) = h /\ Ref(p, v)' # h => Cardinality(Holders(h)') = file[h].ref - 1
      BY <1>18, OnePlace, Zenon
    <3>2. CASE h # f
      <4>1. Ref(p, v) # h /\ Ref(p, v)' # h
        BY <1>18, <3>2, Constant, Zenon
      <4> QED
        BY <1>9, <3>1, <3>2, <4>1, Zenon
    <3>3. CASE h = f
      <4>1. Ref(p, v) = h /\ Ref(p, v)' # h
        BY <1>18, <3>3, Constant, Zenon
      <4>2. newf.ref = file[f].ref - 1
        BY <1>2, <1>6, <1>7
      <4> QED
        BY <1>9, <3>1, <3>3, <4>1, <4>2, Zenon
    <3> QED
      BY <3>2, <3>3, Zenon
  <2> QED
    BY <2>1, CountedNext, Zenon
\* Nobody else has a file with one reference.
<1>20. \A r \in Procs, y \in Places : Ref(r, y) = f /\ <<r, y>> # <<p, v>> => file[f].ref > 1
  BY <1>18, Referred
<1>21. Held'
  <2>1. HeldBy(p)'
    BY <1>5, <1>10, <1>11, <1>15, Zenon DEF HeldBy, InCall
  <2>2. ASSUME NEW r \in Procs, r # p, pc[r] \in {"filealloc", "kalloc"}, NEW u \in Locals, mine[r][u] # None
        PROVE  mine[r][u] \in File /\ mine[r][u] # f
    <3>1. mine[r][u] \in File /\ file[mine[r][u]].ref = 1
      BY <2>2 DEF Types, Held, HeldBy
    <3>2. Ref(r, u) = mine[r][u] /\ u \in Places
      BY Constant, Zenon DEF Ref, Locals
    <3> QED
      BY <1>6, <1>20, <2>2, <3>1, <3>2
  <2> QED
    BY <1>9, <1>10, <1>11, <2>1, <2>2, HeldKept, Zenon
<1>22. Using'
  <2>1. ASSUME NEW r \in Procs, NEW d \in FDs, ofile[r][d] # None
        PROVE  /\ ofile[r][d] \in File
               /\ file'[ofile[r][d]].type = file[ofile[r][d]].type
               /\ file'[ofile[r][d]].pipe = file[ofile[r][d]].pipe
               /\ file'[ofile[r][d]].writable = file[ofile[r][d]].writable
    <3>1. ofile[r][d] \in File
      BY <2>1 DEF Types
    <3>2. Ref(r, d) = ofile[r][d] /\ d \in Places /\ d # v
      BY <1>18, Constant, Zenon DEF Ref
    <3>3. CASE ofile[r][d] = f
      BY <1>7, <1>9, <1>20, <3>2, <3>3, Zenon
    <3>4. CASE ofile[r][d] # f
      BY <1>9, <3>1, <3>4, Zenon
    <3> QED
      BY <3>1, <3>3, <3>4, Zenon
  <2>2. \A r \in Procs : pc'[r] \in InIO => r # p /\ pc[r] \in InIO
    BY <1>11, <1>15, Zenon
  <2> QED
    BY <1>2, <1>12, <2>1, <2>2, UsingKept, Zenon
<1>23. Represented'
  <2>1. CASE ~ last
    <3>1. file'[f].type = file[f].type
      BY <1>2, <1>6, <1>7, <1>9, <2>1 DEF FileRec
    <3>2. file[f].type = "pipe" => file'[f].pipe = file[f].pipe /\ file'[f].writable = file[f].writable /\ file'[f].ref > 0
      BY <1>2, <1>6, <1>7, <1>9, <2>1
    <3>3. \A r \in Procs : pc'[r] = "pipeclose" <=> pc[r] = "pipeclose"
      BY <1>2, <1>5, <1>11, <2>1, Zenon
    <3>4. io' = io
      BY <1>3, <2>1, Zenon
    <3> QED
      BY <1>2, <1>9, <3>1, <3>2, <3>3, <3>4, RepresentedKept, Zenon
  <2>2. CASE last
    <3> DEFINE kf == file[f].pipe
               wr == file[f].writable
    <3>1. /\ kf \in Pages /\ file[f].type = "pipe" /\ file'[f].type = "none" /\ wr \in BOOLEAN
          /\ \A h \in File : h # f => file'[h] = file[h]
      BY <1>6, <1>7, <1>9, <2>2 DEF FileRec
    <3>2. /\ pc'[p] = "pipeclose" /\ pc[p] # "pipeclose" /\ io'[p].pipe = kf /\ io'[p].writable = wr
          /\ \A r \in Procs : r # p => pc'[r] = pc[r] /\ io'[r] = io[r]
      BY <1>2, <1>8, <1>11, <1>12, <2>2, Zenon
    <3>3. \A k \in Pages, w \in BOOLEAN : Opened(k, w)' <=> Opened(k, w)
      BY <1>2, Zenon DEF Opened
    <3>4. \A k \in Pages, w \in BOOLEAN : \A h \in File :
            /\ IsEnd(h, k, w)' <=> IsEnd(h, k, w) /\ h # f
            /\ IsEnd(f, k, w) <=> k = kf /\ w = wr
      BY <3>1, Zenon DEF IsEnd
    <3>5. \A k \in Pages, w \in BOOLEAN : \A r \in Procs :
            Closes(r, k, w)' <=> Closes(r, k, w) \/ (r = p /\ k = kf /\ w = wr)
      BY <3>2, Zenon DEF Closes
    <3>6. \A k \in Pages, w \in BOOLEAN : ~ Closes(p, k, w)
      BY <3>2, Zenon DEF Closes
    <3> HIDE DEF kf, wr
    <3>7. ASSUME NEW k \in Pages, NEW w \in BOOLEAN
          PROVE  /\ Opened(k, w)' <=> \/ \E h \in File : IsEnd(h, k, w)'
                                      \/ \E r \in Procs : Closes(r, k, w)'
                 /\ \A g, h \in File : IsEnd(g, k, w)' /\ IsEnd(h, k, w)' => g = h
                 /\ \A q, r \in Procs : Closes(q, k, w)' /\ Closes(r, k, w)' => q = r
                 /\ \A h \in File, r \in Procs : ~ (IsEnd(h, k, w)' /\ Closes(r, k, w)')
      <4>1. /\ Opened(k, w) <=> \/ \E h \in File : IsEnd(h, k, w)
                                \/ \E r \in Procs : Closes(r, k, w)
            /\ \A g, h \in File : IsEnd(g, k, w) /\ IsEnd(h, k, w) => g = h
            /\ \A q, r \in Procs : Closes(q, k, w) /\ Closes(r, k, w) => q = r
            /\ \A h \in File, r \in Procs : ~ (IsEnd(h, k, w) /\ Closes(r, k, w))
        BY Zenon DEF Represented
      <4>2. /\ Opened(k, w)' <=> Opened(k, w)
            /\ \A h \in File : IsEnd(h, k, w)' <=> IsEnd(h, k, w) /\ h # f
            /\ IsEnd(f, k, w) <=> k = kf /\ w = wr
            /\ \A r \in Procs : Closes(r, k, w)' <=> Closes(r, k, w) \/ (r = p /\ k = kf /\ w = wr)
            /\ ~ Closes(p, k, w)
        BY <3>3, <3>4, <3>5, <3>6, Zenon
      <4>3. CASE k = kf /\ w = wr
        BY <4>1, <4>2, <4>3, Zenon
      <4>4. CASE ~ (k = kf /\ w = wr)
        BY <4>1, <4>2, <4>4, Zenon
      <4> QED
        BY <4>3, <4>4, Zenon
    <3>8. /\ \A h \in File : file'[h].type = "pipe" => file'[h].ref > 0 /\ file'[h].pipe \in Pages
          /\ \A r \in Procs : pc'[r] = "pipeclose" => io'[r].pipe \in Pages
          /\ \A k \in Pages : pipe'[k].used <=> pipe'[k].readopen \/ pipe'[k].writeopen
      <4>1. \A h \in File : file'[h].type = "pipe" => file'[h].ref > 0 /\ file'[h].pipe \in Pages
        BY <3>1, Zenon DEF Represented
      <4>2. \A r \in Procs : pc'[r] = "pipeclose" => io'[r].pipe \in Pages
        BY <3>1, <3>2, Zenon DEF Represented
      <4>3. \A k \in Pages : pipe'[k].used <=> pipe'[k].readopen \/ pipe'[k].writeopen
        BY <1>2, Zenon DEF Represented
      <4> QED
        BY <4>1, <4>2, <4>3, Zenon
    <3> QED
      BY <3>7, <3>8, Zenon DEF Represented
  <2> QED
    BY <2>1, <2>2, Zenon
<1> QED
  BY <1>13, <1>14, <1>16, <1>17, <1>19, <1>21, <1>22, <1>23, Zenon

\* filealloc() takes a file that nobody has.
LEMMA fileallocInv ==
  ASSUME Countable, Inv, NEW p \in Procs, filealloc(p)
  PROVE  Inv'
<1> USE DEF Inv
<1> DEFINE S == {f \in File : file[f].ref = 0}
<1>0. PICK v \in Locals : v = IF mine[p][rf] = None THEN rf ELSE wf
  BY Constant, Zenon
<1>1. /\ pc[p] = "filealloc" /\ pipe' = pipe /\ ofile' = ofile /\ killed' = killed /\ io' = io /\ child' = child
      /\ v \in Places /\ mine[p][wf] = None /\ mine[p][v] = None
      /\ \A u \in Locals : mine[p][u] # None => file[mine[p][u]].ref = 1 /\ file[mine[p][u]].type = "none"
  BY <1>0, Constant, Zenon DEF filealloc, Held, HeldBy
<1>2. CASE S = {} /\ Goto(p, Resume(p, mine[p])) /\ UNCHANGED <<file, mine>>
  <2>1. /\ file' = file /\ mine' = mine /\ pc' = [pc EXCEPT ![p] = Resume(p, mine[p])]
        /\ Resume(p, mine[p]) \in {"fileclose", "exit", "user"}
    BY <1>2, Zenon DEF Goto, Resume
  <2>2. /\ pc' \in [Procs -> Labels] /\ pc'[p] = Resume(p, mine[p]) /\ \A q \in Procs : q # p => pc'[q] = pc[q]
    BY <2>1, Zenon DEF Types, Labels
  <2>3. Types'
    BY <1>1, <2>1, <2>2, Zenon DEF Types
  <2>4. RefsCounted' /\ Rings'
    BY <1>1, <2>1, RefsKept, RingsKept, Zenon
  <2>5. Held'
    <3>1. mine[p] \in [Locals -> File \cup {None}]
      BY Zenon DEF Types
    <3>2. /\ Resume(p, mine[p]) = "fileclose" => \E u \in Locals : mine[p][u] # None
          /\ Resume(p, mine[p]) # "fileclose" => \A u \in Locals : mine[p][u] = None
      <4>1. (\A u \in Locals : mine[p][u] = None) => mine[p] = NoLocals
        BY <3>1, Zenon DEF NoLocals, Locals
      <4>2. mine[p] = NoLocals => \A u \in Locals : mine[p][u] = None
        BY Zenon DEF NoLocals, Locals
      <4> QED
        BY <4>1, <4>2, Zenon DEF Resume
    <3>3. HeldBy(p)'
      BY <2>1, <2>2, <3>2, Zenon DEF HeldBy, InCall
    <3> QED
      BY <2>1, <2>2, <3>3, HeldKept, Zenon
  <2>6. Forks'
    BY <1>1, <2>1, <2>2, ForksKept, Zenon
  <2>7. Represented'
    BY <1>1, <2>1, <2>2, RepresentedKept, Zenon
  <2>8. Using' /\ Sleepers'
    BY <1>1, <2>1, <2>2, UsingKept, SleepersKept, Zenon DEF InIO
  <2> QED
    BY <2>3, <2>4, <2>5, <2>6, <2>7, <2>8, Zenon
<1>3. CASE \E f \in File :
             /\ First(S, f)
             /\ file' = [file EXCEPT ![f].ref = 1]
             /\ mine' = [mine EXCEPT ![p][v] = f]
             /\ Goto(p, IF v = wf THEN "kalloc" ELSE "filealloc")
  <2>1. PICK f \in File :
             /\ First(S, f)
             /\ file' = [file EXCEPT ![f].ref = 1]
             /\ mine' = [mine EXCEPT ![p][v] = f]
             /\ Goto(p, IF v = wf THEN "kalloc" ELSE "filealloc")
    BY <1>3, Zenon
  <2>2. file[f].ref = 0 /\ file[f].type = "none"
    <3>1. file[f].ref = 0
      BY <2>1, Zenon DEF First
    <3>2. file[f].type # "pipe" /\ file[f].type \in {"none", "pipe"}
      BY <3>1 DEF Represented, Types, FileRec
    <3> QED
      BY <3>1, <3>2, Zenon
  <2>3. pc'[p] = (IF v = wf THEN "kalloc" ELSE "filealloc") /\ \A q \in Procs : q # p => pc'[q] = pc[q]
    BY <2>1, Zenon DEF Types, Goto
  <2>4. pc' \in [Procs -> Labels]
    BY <2>1, Zenon DEF Types, Goto, Labels
  <2>5. v = rf \/ (v = wf /\ mine[p][rf] # None)
    BY <1>0, Zenon
  <2> HIDE DEF S
  <2>6. /\ file' \in [File -> FileRec] /\ file'[f].ref = 1 /\ file'[f].type = "none"
        /\ \A h \in File : /\ h # f => file'[h] = file[h]
                           /\ file'[h].type = file[h].type /\ file'[h].pipe = file[h].pipe
                           /\ file'[h].writable = file[h].writable
    <3>1. file \in [File -> FileRec] /\ file[f] \in FileRec
      BY Zenon DEF Types
    <3>2. [file[f] EXCEPT !.ref = 1] \in FileRec /\ file' = [file EXCEPT ![f] = [file[f] EXCEPT !.ref = 1]]
      BY <2>1, <3>1, Zenon DEF FileRec
    <3>3. /\ file' \in [File -> FileRec] /\ file'[f] = [file[f] EXCEPT !.ref = 1]
          /\ \A h \in File : h # f => file'[h] = file[h]
      BY <3>1, <3>2, Zenon
    <3>4. /\ file'[f].ref = 1 /\ file'[f].type = file[f].type /\ file'[f].pipe = file[f].pipe
          /\ file'[f].writable = file[f].writable
      BY <3>1, <3>3, Zenon DEF FileRec
    <3> QED
      BY <2>2, <3>3, <3>4, Zenon
  <2>7. /\ mine' \in [Procs -> [Locals -> File \cup {None}]] /\ mine'[p][v] = f
        /\ \A r \in Procs, u \in Locals : <<r, u>> # <<p, v>> => mine'[r][u] = mine[r][u]
        /\ \A r \in Procs : r # p => mine'[r] = mine[r]
    BY <1>1, <2>1, Zenon DEF Types
  <2>8. Types'
    BY <1>1, <2>4, <2>6, <2>7, Zenon DEF Types
  <2>9. Rings' /\ Sleepers'
    BY <1>1, <2>3, RingsKept, SleepersKept, Zenon
  <2>10. /\ Ref(p, v) = None /\ Ref(p, v)' = f
         /\ \A r \in Procs, y \in Places : <<r, y>> # <<p, v>> => Ref(r, y)' = Ref(r, y)
    <3>1. v \notin FDs /\ \A y \in Places : y \in FDs \/ y \in Locals
      BY <1>1, Constant, Zenon DEF Places, Locals
    <3>2. Ref(p, v) = None /\ Ref(p, v)' = f
      BY <1>1, <2>7, <3>1, Zenon DEF Ref
    <3>3. \A r \in Procs, y \in Places : <<r, y>> # <<p, v>> => Ref(r, y)' = Ref(r, y)
      BY <1>1, <2>7, <3>1, Zenon DEF Ref
    <3> QED
      BY <3>2, <3>3, Zenon
  <2>11. RefsCounted'
    <3>1. ASSUME NEW h \in File PROVE file'[h].ref = Cardinality(Holders(h)')
      <4>1. /\ (Ref(p, v) = h <=> Ref(p, v)' = h) => Cardinality(Holders(h)') = file[h].ref
            /\ Ref(p, v) # h /\ Ref(p, v)' = h => Cardinality(Holders(h)') = file[h].ref + 1
        <5>1. v \in Places
          BY <1>1, Zenon
        <5> QED
          BY <2>10, <5>1, OnePlace, Zenon
      <4> QED
        BY <2>2, <2>6, <2>10, <4>1, Constant
    <3> QED
      BY <3>1, CountedNext, Zenon
  <2>12. ASSUME NEW r \in Procs, NEW u \in Locals, mine[r][u] # None
         PROVE  mine[r][u] \in File /\ mine[r][u] # f
    <3>1. mine[r][u] \in File
      BY <2>12 DEF Types
    <3>2. Ref(r, u) = mine[r][u] /\ u \in Places
      BY Constant, Zenon DEF Ref, Locals
    <3>3. file[mine[r][u]].ref > 0
      BY <3>1, <3>2, Referred, Zenon
    <3> QED
      BY <2>2, <3>1, <3>3
  <2>13. HeldBy(p)'
    <3>1. \A u \in Locals : mine'[p][u] # None => file'[mine'[p][u]].ref = 1 /\ file'[mine'[p][u]].type = "none"
      <4> SUFFICES ASSUME NEW u \in Locals, mine'[p][u] # None
                   PROVE  file'[mine'[p][u]].ref = 1 /\ file'[mine'[p][u]].type = "none"
        BY Zenon
      <4>1. CASE u = v
        BY <2>6, <2>7, <4>1, Zenon
      <4>2. CASE u # v
        BY <1>1, <2>6, <2>7, <2>12, <4>2
      <4> QED
        BY <4>1, <4>2, Zenon
    <3>2. CASE v = rf
      <4>1. pc'[p] = "filealloc" /\ mine'[p][wf] = None
        BY <1>1, <2>3, <2>7, <3>2, Constant, Zenon
      <4> QED
        BY <3>1, <4>1, Zenon DEF HeldBy, InCall
    <3>3. CASE v = wf /\ mine[p][rf] # None
      <4>1. pc'[p] = "kalloc" /\ \A u \in Locals : mine'[p][u] # None
        BY <2>1, <2>3, <2>7, <3>3, Constant, Zenon DEF Locals
      <4> QED
        BY <3>1, <4>1, Zenon DEF HeldBy, InCall
    <3> QED
      BY <2>5, <3>2, <3>3, Zenon
  <2>14. Held'
    BY <2>3, <2>6, <2>7, <2>12, <2>13, HeldKept
  <2>15. Forks'
    BY <1>1, <2>3, ForksKept, Zenon
  <2>16. Represented'
    BY <1>1, <2>2, <2>3, <2>6, RepresentedKept, Zenon
  <2>17. Using'
    <3>1. \A r \in Procs, d \in FDs : ofile[r][d] # None => ofile[r][d] \in File
      BY DEF Types
    <3>2. \A r \in Procs : pc'[r] \in InIO => r # p /\ pc[r] \in InIO
      BY <2>3, Zenon DEF InIO
    <3> QED
      BY <1>1, <2>6, <3>1, <3>2, UsingKept, Zenon
  <2> QED
    BY <2>8, <2>9, <2>11, <2>14, <2>15, <2>16, <2>17, Zenon
<1> QED
  BY <1>0, <1>2, <1>3, Zenon DEF filealloc

\* A descriptor gets a file that another has: filedup() in dup() and fork().
LEMMA DupInv ==
  ASSUME Countable, Inv, NEW p \in Procs, NEW fd \in FDs, NEW g \in File, ofile[p][fd] = g,
         NEW q \in Procs, NEW new \in FDs, ofile[q][new] = None,
         ofile' = [ofile EXCEPT ![q][new] = g], file' = [file EXCEPT ![g].ref = @ + 1],
         UNCHANGED <<pipe, pc, killed, mine, io, child>>, Forks'
  PROVE  Inv'
<1> USE DEF Inv
<1>1. /\ pipe' = pipe /\ pc' = pc /\ killed' = killed /\ mine' = mine /\ io' = io /\ child' = child
      /\ file \in [File -> FileRec] /\ ofile \in [Procs -> [FDs -> File \cup {None}]]
  BY Zenon DEF Types
<1>2. /\ file' \in [File -> FileRec] /\ file'[g].ref = file[g].ref + 1
      /\ \A f \in File : /\ f # g => file'[f] = file[f]
                         /\ file'[f].type = file[f].type /\ file'[f].pipe = file[f].pipe
                         /\ file'[f].writable = file[f].writable
  BY <1>1 DEF FileRec
<1>3. /\ ofile' \in [Procs -> [FDs -> File \cup {None}]] /\ ofile'[q][new] = g
      /\ \A r \in Procs, d \in FDs : <<r, d>> # <<q, new>> => ofile'[r][d] = ofile[r][d]
  BY <1>1, Zenon
<1>4. Types'
  BY <1>1, <1>2, <1>3 DEF Types
<1>5. Rings' /\ Sleepers'
  BY <1>1, RingsKept, SleepersKept, Zenon
<1>6. Ref(p, fd) = g /\ Ref(q, new) = None /\ Ref(q, new)' = g /\ new \in Places /\ fd \in Places
  BY <1>3, Constant, Zenon DEF Ref
<1>7. \A r \in Procs, y \in Places : <<r, y>> # <<q, new>> => Ref(r, y)' = Ref(r, y)
  BY <1>1, <1>3, Zenon DEF Ref
<1>8. file[g].ref \in Nat /\ file[g].ref > 0
  BY <1>6, Referred, Zenon
<1>9. RefsCounted'
  <2>1. ASSUME NEW f \in File PROVE file'[f].ref = Cardinality(Holders(f)')
    <3>1. /\ (Ref(q, new) = f <=> Ref(q, new)' = f) => Cardinality(Holders(f)') = file[f].ref
          /\ Ref(q, new) # f /\ Ref(q, new)' = f => Cardinality(Holders(f)') = file[f].ref + 1
      BY <1>6, <1>7, OnePlace, Zenon
    <3> QED
      BY <1>2, <1>6, <3>1, Constant
  <2> QED
    BY <2>1, CountedNext, Zenon
<1>10. Held'
  <2>1. ASSUME NEW r \in Procs, NEW v \in Locals, pc[r] \in {"filealloc", "kalloc"}, mine[r][v] # None
        PROVE  mine[r][v] \in File /\ mine[r][v] # g
    <3>1. mine[r][v] \in File /\ file[mine[r][v]].ref = 1
      BY <2>1 DEF Types, Held, HeldBy
    <3>2. Ref(r, v) = mine[r][v] /\ v \in Places /\ v # fd
      BY Constant, Zenon DEF Ref, Locals
    <3>3. mine[r][v] = g => file[g].ref > 1
      BY <1>6, <3>2, Referred
    <3> QED
      BY <3>1, <3>3
  <2> QED
    BY <1>1, <1>2, <2>1, HeldKept
<1>11. Represented'
  <2>1. \A f \in File : file[f].ref > 0 => file'[f].ref > 0
    BY <1>2, <1>8
  <2> QED
    BY <1>1, <1>2, <2>1, RepresentedKept, Zenon
<1>12. Using'
  <2>1. \A r \in Procs, d \in FDs : ofile[r][d] # None => ofile'[r][d] = ofile[r][d] /\ ofile[r][d] \in File
    BY <1>1, <1>3
  <2> QED
    BY <1>1, <1>2, <2>1, UsingKept
<1> QED
  BY <1>4, <1>5, <1>9, <1>10, <1>11, <1>12, Zenon

\* sys_dup() puts a second reference into fdalloc()'s slot before filedup() counts it.
LEMMA sys_dupInv ==
  ASSUME Countable, Inv, NEW p \in Procs, sys_dup(p)
  PROVE  Inv'
<1>1. PICK fd \in argfd(p), new \in FDs :
        /\ First(Free(p), new)
        /\ ofile' = [ofile EXCEPT ![p][new] = ofile[p][fd]]
        /\ file' = [file EXCEPT ![ofile[p][fd]].ref = @ + 1]
  BY Zenon DEF sys_dup
<1>2. UNCHANGED <<pipe, pc, killed, mine, io, child>> /\ pc[p] = "user"
  BY Zenon DEF sys_dup, Calls
<1>3. fd \in FDs /\ ofile[p][fd] \in File /\ ofile[p][new] = None
  BY <1>1 DEF argfd, First, Free, Inv, Types
<1>4. \A r \in Procs : r # p => ofile'[r] = ofile[r]
  BY <1>1, Zenon DEF Inv, Types
<1>5. Forks'
  <2>1. \A r \in Procs : pc[r] = "fork" => r # p /\ child[r] \in Procs /\ child[r] # p
    BY <1>2, Zenon DEF Inv, Forks
  <2> QED
    BY <1>2, <1>4, <2>1 DEF Inv, Forks
<1> QED
  BY <1>1, <1>2, <1>3, <1>5, DupInv, Zenon

\* fork() duplicates one descriptor, or is done.
LEMMA filedupInv ==
  ASSUME Countable, Inv, NEW p \in Procs, filedup(p)
  PROVE  Inv'
<1> USE DEF Inv
<1> DEFINE c == child[p]
           S == {fd \in FDs : ofile[p][fd] # ofile[c][fd]}
<1>1. pc[p] = "fork" /\ UNCHANGED <<pipe, killed, mine, io>>
  BY Zenon DEF filedup
<1>2. c \in Procs /\ pc[c] = "embryo" /\ c # p /\ \A fd \in FDs : ofile[c][fd] \in {None, ofile[p][fd]}
  BY <1>1, Zenon DEF Forks
<1>3. \A r \in Procs : pc[r] = "fork" /\ r # p => r # c /\ child[r] \in Procs /\ child[r] # c /\ child[r] # p
  BY <1>1, <1>2, Zenon DEF Forks
<1>4. CASE /\ S = {}
           /\ pc' = [pc EXCEPT ![p] = "user", ![c] = "user"] /\ child' = [child EXCEPT ![p] = None]
           /\ UNCHANGED <<file, ofile>>
  <2> HIDE DEF c
  <2>1. /\ pc'[p] = "user" /\ pc'[c] = "user" /\ \A r \in Procs : r # p /\ r # c => pc'[r] = pc[r]
        /\ \A r \in Procs : r # p => child'[r] = child[r]
        /\ pc' \in [Procs -> Labels] /\ child' \in [Procs -> Procs \cup {None}]
    BY <1>2, <1>4, Zenon DEF Types, Labels
  <2>2. file' = file /\ ofile' = ofile /\ pipe' = pipe /\ killed' = killed /\ mine' = mine /\ io' = io
    BY <1>1, <1>4, Zenon
  <2>3. Types'
    BY <2>1, <2>2, Zenon DEF Types
  <2>4. RefsCounted' /\ Rings'
    BY <2>2, RefsKept, RingsKept, Zenon
  <2>5. Held'
    BY <1>1, <1>2, <2>1, <2>2, HeldKept, Zenon DEF InCall
  <2>6. Represented'
    <3>1. \A r \in Procs : pc'[r] = "pipeclose" <=> pc[r] = "pipeclose"
      BY <1>1, <1>2, <2>1, Zenon
    <3> QED
      BY <2>2, <3>1, RepresentedKept, Zenon
  <2>7. Using' /\ Sleepers'
    <3>1. \A r \in Procs : pc'[r] \in InIO => pc'[r] = pc[r]
      BY <2>1, Zenon DEF InIO
    <3>2. \A r \in Procs : pc'[r] \in {"sleep", "asleep"} => pc'[r] = pc[r]
      BY <2>1, Zenon
    <3> QED
      BY <2>2, <3>1, <3>2, UsingKept, SleepersKept, Zenon
  <2>8. Forks'
    <3>1. \A r \in Procs : pc'[r] = "fork" => /\ pc[r] = "fork" /\ r # p /\ child'[r] = child[r]
                                              /\ pc'[child[r]] = pc[child[r]]
      BY <1>3, <2>1, Zenon
    <3>2. \A r \in Procs : pc'[r] = "unused" => pc[r] = "unused"
      BY <2>1, Zenon
    <3>3. \A r \in Procs : pc'[r] = "fork" =>
            /\ child'[r] \in Procs /\ pc'[child'[r]] = "embryo"
            /\ \A fd \in FDs : ofile'[child'[r]][fd] \in {None, ofile'[r][fd]}
      BY <2>2, <3>1, Zenon DEF Forks
    <3>4. \A r, t \in Procs : pc'[r] = "fork" /\ pc'[t] = "fork" /\ child'[r] = child'[t] => r = t
      BY <3>1 DEF Forks
    <3>5. \A r \in Procs : pc'[r] = "unused" => \A fd \in FDs : ofile'[r][fd] = None
      BY <2>2, <3>2, Zenon DEF Forks
    <3> QED
      BY <3>3, <3>4, <3>5, Zenon DEF Forks
  <2> QED
    BY <2>3, <2>4, <2>5, <2>6, <2>7, <2>8, Zenon
<1>5. CASE \E fd \in FDs :
             /\ First(S, fd)
             /\ ofile' = [ofile EXCEPT ![c][fd] = ofile[p][fd]]
             /\ file' = [file EXCEPT ![ofile[p][fd]].ref = @ + 1]
             /\ UNCHANGED <<pc, child>>
  <2>1. PICK fd \in FDs :
             /\ First(S, fd)
             /\ ofile' = [ofile EXCEPT ![c][fd] = ofile[p][fd]]
             /\ file' = [file EXCEPT ![ofile[p][fd]].ref = @ + 1]
             /\ UNCHANGED <<pc, child>>
    BY <1>5, Zenon
  <2>2. ofile[c][fd] = None /\ ofile[p][fd] # None
    BY <1>2, <2>1, Zenon DEF First
  <2>3. ofile[p][fd] \in File
    BY <2>2 DEF Types
  <2>4. UNCHANGED <<pipe, pc, killed, mine, io, child>>
    BY <1>1, <2>1, Zenon
  <2> HIDE DEF c, S
  <2>5. /\ \A r \in Procs : r # c => ofile'[r] = ofile[r]
        /\ \A d \in FDs : ofile'[c][d] \in {ofile[c][d], ofile[p][d]}
    BY <1>2, <2>1, Zenon DEF Types
  <2>6. Forks'
    <3>1. \A r \in Procs : pc[r] = "fork" => \A d \in FDs : ofile'[child[r]][d] \in {None, ofile'[r][d]}
      <4> SUFFICES ASSUME NEW r \in Procs, pc[r] = "fork", NEW d \in FDs
                   PROVE  ofile'[child[r]][d] \in {None, ofile'[r][d]}
        BY Zenon
      <4>1. CASE r = p
        BY <1>2, <2>5, <4>1, Zenon DEF c
      <4>2. CASE r # p
        BY <1>3, <2>5, <4>2, Zenon DEF Forks
      <4> QED
        BY <4>1, <4>2, Zenon
    <3>2. \A r \in Procs : pc[r] = "unused" => r # c
      BY <1>2, Zenon
    <3> QED
      BY <2>4, <2>5, <3>1, <3>2 DEF Forks
  <2> QED
    BY <1>2, <2>1, <2>2, <2>3, <2>4, <2>6, DupInv, Zenon
<1> QED
  BY <1>4, <1>5, Zenon DEF filedup

\* A descriptor is cleared and its file is handed to fileclose(): close() and exit().
LEMMA ClearInv ==
  ASSUME Countable, Inv, NEW p \in Procs, pc[p] \in {"user", "exit"}, NEW fd \in FDs, ofile[p][fd] # None,
         ofile' = [ofile EXCEPT ![p][fd] = None], mine' = [mine EXCEPT ![p][rf] = ofile[p][fd]],
         pc' = [pc EXCEPT ![p] = "fileclose"], io' \in [Procs -> IORec],
         \A q \in Procs : q # p => io'[q] = io[q],
         UNCHANGED <<file, pipe, killed, child>>
  PROVE  Inv'
<1> USE DEF Inv
<1> DEFINE g == ofile[p][fd]
<1>1. /\ pipe' = pipe /\ killed' = killed /\ child' = child /\ file' = file /\ g \in File
      /\ ofile \in [Procs -> [FDs -> File \cup {None}]] /\ mine \in [Procs -> [Locals -> File \cup {None}]]
      /\ pc \in [Procs -> Labels]
  BY DEF Types
<1> HIDE DEF g
<1>2. /\ pc' \in [Procs -> Labels] /\ pc'[p] = "fileclose" /\ \A q \in Procs : q # p => pc'[q] = pc[q]
  BY <1>1, Zenon DEF Labels
<1>3. /\ ofile' \in [Procs -> [FDs -> File \cup {None}]] /\ ofile'[p][fd] = None
      /\ \A r \in Procs, d \in FDs : <<r, d>> # <<p, fd>> => ofile'[r][d] = ofile[r][d]
  BY <1>1, Zenon
<1>4. mine' = [mine EXCEPT ![p][rf] = g] /\ rf \in Locals
  BY Constant, Zenon DEF g
<1>5. /\ mine' \in [Procs -> [Locals -> File \cup {None}]] /\ mine'[p][rf] = g
      /\ \A r \in Procs, v \in Locals : <<r, v>> # <<p, rf>> => mine'[r][v] = mine[r][v]
      /\ \A r \in Procs : r # p => mine'[r] = mine[r]
  BY <1>1, <1>4
<1>6. mine[p][rf] = None
  BY <1>4, Zenon DEF Held, HeldBy, InCall
<1>7. Types'
  BY <1>1, <1>2, <1>3, <1>5, Zenon DEF Types
<1>8. Rings' /\ Sleepers'
  BY <1>1, <1>2, RingsKept, SleepersKept, Zenon
<1>9. RefsCounted'
  <2> DEFINE a == <<p, fd>>
             b == <<p, rf>>
  <2>1. /\ Ref(p, fd) = g /\ Ref(p, rf) = None /\ Ref(p, fd)' = None /\ Ref(p, rf)' = g
        /\ a \in Procs \X Places /\ b \in Procs \X Places /\ a # b
    BY <1>3, <1>5, <1>6, Constant, Zenon DEF Ref, g
  <2>2. \A r \in Procs, y \in Places : <<r, y>> # a /\ <<r, y>> # b => Ref(r, y)' = Ref(r, y)
    BY <1>3, <1>5, Constant DEF Ref, Places
  <2> HIDE DEF a, b
  <2>3. ASSUME NEW f \in File PROVE file'[f].ref = Cardinality(Holders(f)')
    <3>1. file[f].ref = Cardinality(Holders(f))
      BY Counted, Zenon
    <3>2. CASE f # g
      <4>1. Holders(f)' = Holders(f)
        BY <2>1, <2>2, <3>2, Constant DEF Holders, a, b
      <4> QED
        BY <1>1, <3>1, <4>1, Zenon
    <3>3. CASE f = g
      <4>1. a \in Holders(f) /\ b \notin Holders(f)
        BY <2>1, <3>3, <1>1, Constant, Zenon DEF Holders, a, b
      <4>2. Holders(f)' = (Holders(f) \ {a}) \cup {b}
        BY <2>1, <2>2, <3>3, <1>1, Constant DEF Holders, a, b
      <4> QED
        <5>1. Cardinality(Holders(f)') = file[f].ref
          BY <2>1, <4>1, <4>2, Handed, Zenon
        <5> QED
          BY <1>1, <5>1, Zenon
    <3> QED
      BY <3>2, <3>3, Zenon
  <2> QED
    BY <2>3, CountedNext, Zenon
<1>10. Held'
  <2>1. HeldBy(p)'
    BY <1>1, <1>2, <1>4, <1>5, Constant, Zenon DEF HeldBy, InCall
  <2> QED
    BY <1>1, <1>2, <1>5, <2>1, HeldKept, Zenon
<1>11. Represented'
  BY <1>1, <1>2, RepresentedKept, Zenon
<1>12. Using'
  <2>1. \A r \in Procs : pc'[r] \in InIO => r # p /\ pc'[r] = pc[r] /\ \A d \in FDs : ofile'[r][d] = ofile[r][d]
    BY <1>2, <1>3, Zenon DEF InIO
  <2> QED
    BY <1>1, <2>1, UsingKept, Zenon
<1>13. Forks'
  <2>1. \A r \in Procs : pc'[r] = "fork" =>
          /\ pc[r] = "fork" /\ r # p /\ child[r] # p /\ child[r] \in Procs /\ pc'[child[r]] = "embryo"
    BY <1>2, Zenon DEF Forks
  <2>2. \A r \in Procs : r # p => \A d \in FDs : ofile'[r][d] = ofile[r][d]
    BY <1>3, Zenon
  <2>3. \A r \in Procs : pc'[r] = "unused" => pc[r] = "unused" /\ r # p
    BY <1>2, Zenon
  <2> QED
    BY <1>1, <2>1, <2>2, <2>3 DEF Forks
<1> QED
  BY <1>7, <1>8, <1>9, <1>10, <1>11, <1>12, <1>13, Zenon

\* sys_close() clears the slot before fileclose() drops the reference.
LEMMA sys_closeInv ==
  ASSUME Countable, Inv, NEW p \in Procs, sys_close(p)
  PROVE  Inv'
<1>1. PICK fd \in argfd(p) : /\ ofile' = [ofile EXCEPT ![p][fd] = None]
                             /\ mine' = [mine EXCEPT ![p][rf] = ofile[p][fd]]
  BY Zenon DEF sys_close
<1>2. /\ pc[p] = "user" /\ pc' = [pc EXCEPT ![p] = "fileclose"] /\ UNCHANGED <<file, pipe, killed, child>>
      /\ io' = io
  BY Zenon DEF sys_close, Calls, Goto
<1>3. fd \in FDs /\ ofile[p][fd] # None
  BY <1>1, Zenon DEF argfd
<1>4. io' \in [Procs -> IORec] /\ \A q \in Procs : q # p => io'[q] = io[q]
  BY <1>2, Zenon DEF Inv, Types
<1> QED
  BY <1>1, <1>2, <1>3, <1>4, ClearInv, Zenon

\* What exit() knows while it closes is a record of the same kind.
LEMMA ExitIO ==
  ASSUME NEW e \in BOOLEAN
  PROVE  [NoIO EXCEPT !.exit = e] \in IORec
<1>1. \A i \in IORec : [i EXCEPT !.exit = e] \in IORec
  BY Zenon DEF IORec
<1> QED
  BY <1>1, NoIOIs, Zenon

\* exit() closes one more file, or is done and leaves a slot without descriptors.
LEMMA exitInv ==
  ASSUME Countable, Inv, NEW p \in Procs, exit(p)
  PROVE  Inv'
<1> USE DEF Inv
<1>1. pc[p] \in {"user", "exit"} /\ UNCHANGED <<file, pipe, child>>
  BY Zenon DEF exit
<1>2. CASE /\ argfd(p) = {}
           /\ Goto(p, "unused") /\ killed' = [killed EXCEPT ![p] = FALSE] /\ io' = [io EXCEPT ![p] = NoIO]
           /\ UNCHANGED <<ofile, mine>>
  <2>1. /\ file' = file /\ pipe' = pipe /\ child' = child /\ ofile' = ofile /\ mine' = mine
        /\ \A fd \in FDs : ofile[p][fd] = None
    BY <1>1, <1>2, Zenon DEF argfd
  <2>2. /\ pc' \in [Procs -> Labels] /\ pc'[p] = "unused" /\ \A q \in Procs : q # p => pc'[q] = pc[q]
        /\ killed' \in [Procs -> BOOLEAN]
    BY <1>2, Zenon DEF Types, Labels, Goto
  <2>3. io' \in [Procs -> IORec] /\ \A q \in Procs : q # p => io'[q] = io[q]
    BY <1>2, NoIOIs, Zenon DEF Types
  <2>4. Types'
    BY <2>1, <2>2, <2>3, Zenon DEF Types
  <2>5. RefsCounted' /\ Rings'
    BY <2>1, RefsKept, RingsKept, Zenon
  <2>6. Held'
    BY <1>1, <2>1, <2>2, HeldKept, Zenon DEF InCall
  <2>7. Represented'
    BY <1>1, <2>1, <2>2, <2>3, RepresentedKept, Zenon
  <2>8. Using' /\ Sleepers'
    BY <2>1, <2>2, <2>3, UsingKept, SleepersKept, Zenon DEF InIO
  <2>9. Forks'
    <3>1. \A r \in Procs : pc'[r] = "fork" =>
            /\ pc[r] = "fork" /\ child[r] # p /\ child[r] \in Procs /\ pc'[child[r]] = "embryo"
      BY <1>1, <2>2, Zenon DEF Forks
    <3> QED
      BY <2>1, <2>2, <3>1 DEF Forks
  <2> QED
    BY <2>4, <2>5, <2>6, <2>7, <2>8, <2>9, Zenon
<1>3. CASE \E fd \in FDs :
             /\ First(argfd(p), fd)
             /\ ofile' = [ofile EXCEPT ![p][fd] = None]
             /\ mine' = [mine EXCEPT ![p][rf] = ofile[p][fd]]
             /\ Goto(p, "fileclose") /\ io' = [io EXCEPT ![p] = [NoIO EXCEPT !.exit = TRUE]]
             /\ UNCHANGED killed
  <2>1. PICK fd \in FDs :
             /\ First(argfd(p), fd)
             /\ ofile' = [ofile EXCEPT ![p][fd] = None]
             /\ mine' = [mine EXCEPT ![p][rf] = ofile[p][fd]]
             /\ Goto(p, "fileclose") /\ io' = [io EXCEPT ![p] = [NoIO EXCEPT !.exit = TRUE]]
             /\ UNCHANGED killed
    BY <1>3, Zenon
  <2>2. ofile[p][fd] # None /\ pc' = [pc EXCEPT ![p] = "fileclose"] /\ UNCHANGED <<file, pipe, killed, child>>
    BY <1>1, <2>1, Zenon DEF First, argfd, Goto
  <2>3. [NoIO EXCEPT !.exit = TRUE] \in IORec
    BY ExitIO, Zenon
  <2>4. io' \in [Procs -> IORec] /\ \A q \in Procs : q # p => io'[q] = io[q]
    BY <2>1, <2>3, Zenon DEF Types
  <2> QED
    BY <1>1, <2>1, <2>2, <2>4, ClearInv, Zenon
<1> QED
  BY <1>2, <1>3, Zenon DEF exit

\* sys_pipe() begins.
LEMMA sys_pipeInv ==
  ASSUME Inv, NEW p \in Procs, sys_pipe(p)
  PROVE  Inv'
<1> USE DEF Inv
<1>1. /\ pc[p] = "user" /\ pc' = [pc EXCEPT ![p] = "filealloc"] /\ pc \in [Procs -> Labels]
      /\ file' = file /\ pipe' = pipe /\ ofile' = ofile /\ killed' = killed /\ mine' = mine /\ io' = io
      /\ child' = child
  BY Zenon DEF sys_pipe, Calls, Goto, Types
<1>2. pc'[p] = "filealloc" /\ \A q \in Procs : q # p => pc'[q] = pc[q]
  BY <1>1, Zenon
<1>3. pc' \in [Procs -> Labels]
  BY <1>1, Zenon DEF Labels
<1>4. Types'
  BY <1>1, <1>3, Zenon DEF Types
<1>5. RefsCounted' /\ Rings'
  BY <1>1, RefsKept, RingsKept, Zenon
<1>6. Held'
  BY <1>1, <1>2, HeldKept, Zenon DEF InCall
<1>7. Forks'
  BY <1>1, <1>2, ForksKept, Zenon
<1>8. Represented'
  BY <1>1, <1>2, RepresentedKept, Zenon
<1>9. Using' /\ Sleepers'
  BY <1>1, <1>2, UsingKept, SleepersKept, Zenon DEF InIO
<1> QED
  BY <1>4, <1>5, <1>6, <1>7, <1>8, <1>9, Zenon

\* sleep() lets go of the pipe's lock.
LEMMA sleepInv ==
  ASSUME Inv, NEW p \in Procs, sleep(p)
  PROVE  Inv'
<1> USE DEF Inv
<1>1. /\ pc[p] = "sleep" /\ pc' = [pc EXCEPT ![p] = "asleep"] /\ pc \in [Procs -> Labels]
      /\ file' = file /\ pipe' = pipe /\ ofile' = ofile /\ killed' = killed /\ mine' = mine /\ io' = io
      /\ child' = child
  BY Zenon DEF sleep, Goto, Types
<1>2. pc'[p] = "asleep" /\ \A q \in Procs : q # p => pc'[q] = pc[q]
  BY <1>1, Zenon
<1>3. pc' \in [Procs -> Labels]
  BY <1>1, Zenon DEF Labels
<1>4. Types'
  BY <1>1, <1>3, Zenon DEF Types
<1>5. RefsCounted' /\ Rings'
  BY <1>1, RefsKept, RingsKept, Zenon
<1>6. Held'
  BY <1>1, <1>2, HeldKept, Zenon DEF InCall
<1>7. Forks'
  BY <1>1, <1>2, ForksKept, Zenon
<1>8. Represented'
  BY <1>1, <1>2, RepresentedKept, Zenon
<1>9. Using' /\ Sleepers'
  BY <1>1, <1>2, UsingKept, SleepersKept, Zenon DEF InIO
<1> QED
  BY <1>4, <1>5, <1>6, <1>7, <1>8, <1>9, Zenon

\* kill() of a process in any state
LEMMA killInv ==
  ASSUME Inv, NEW p \in Procs, kill(p)
  PROVE  Inv'
<1> USE DEF Inv
<1>1. /\ pc' = [pc EXCEPT ![p] = IF pc[p] = "asleep" THEN "io" ELSE pc[p]] /\ pc \in [Procs -> Labels]
      /\ killed' = [killed EXCEPT ![p] = TRUE] /\ killed \in [Procs -> BOOLEAN]
      /\ file' = file /\ pipe' = pipe /\ ofile' = ofile /\ mine' = mine /\ io' = io /\ child' = child
  BY Zenon DEF kill, Goto, Types
<1>2. \A q \in Procs : pc'[q] = pc[q] \/ (pc[q] = "asleep" /\ pc'[q] = "io")
  BY <1>1, Zenon
<1>3. pc' \in [Procs -> Labels] /\ killed' \in [Procs -> BOOLEAN]
  BY <1>1, Zenon DEF Labels
<1>4. Types'
  BY <1>1, <1>3, Zenon DEF Types
<1>5. RefsCounted' /\ Rings'
  BY <1>1, RefsKept, RingsKept, Zenon
<1>6. Held'
  BY <1>1, <1>2, HeldKept, Zenon DEF InCall
<1>7. Forks'
  BY <1>1, <1>2, ForksKept, Zenon
<1>8. Represented'
  BY <1>1, <1>2, RepresentedKept, Zenon
<1>9. Using' /\ Sleepers'
  BY <1>1, <1>2, UsingKept, SleepersKept, Zenon DEF InIO
<1> QED
  BY <1>4, <1>5, <1>6, <1>7, <1>8, <1>9, Zenon

\* fork() finds a free slot.
LEMMA forkInv ==
  ASSUME Inv, NEW p \in Procs, fork(p)
  PROVE  Inv'
<1> USE DEF Inv
<1>1. PICK c \in Procs : /\ pc[c] = "unused"
                         /\ child' = [child EXCEPT ![p] = c]
                         /\ pc' = [pc EXCEPT ![p] = "fork", ![c] = "embryo"]
  BY Zenon DEF fork
<1>2. /\ pc[p] = "user" /\ pc \in [Procs -> Labels] /\ child \in [Procs -> Procs \cup {None}]
      /\ file' = file /\ pipe' = pipe /\ ofile' = ofile /\ mine' = mine /\ killed' = killed /\ io' = io
  BY Zenon DEF fork, Calls, Types
<1>3. /\ c # p /\ pc'[p] = "fork" /\ pc'[c] = "embryo" /\ child'[p] = c
      /\ \A q \in Procs : q # p => child'[q] = child[q]
      /\ \A q \in Procs : q # p /\ q # c => pc'[q] = pc[q]
  BY <1>1, <1>2, Zenon
<1>4. pc' \in [Procs -> Labels] /\ child' \in [Procs -> Procs \cup {None}]
  BY <1>1, <1>2, Zenon DEF Labels
<1>5. Types'
  BY <1>2, <1>4, Zenon DEF Types
<1>6. RefsCounted' /\ Rings'
  BY <1>2, RefsKept, RingsKept, Zenon
<1>7. Held'
  BY <1>1, <1>2, <1>3, HeldKept, Zenon DEF InCall
<1>8. Represented'
  <2>1. \A q \in Procs : pc'[q] = "pipeclose" <=> pc[q] = "pipeclose"
    BY <1>1, <1>2, <1>3, Zenon
  <2> QED
    BY <1>2, <2>1, RepresentedKept, Zenon
<1>9. Using' /\ Sleepers'
  <2>1. \A q \in Procs : pc'[q] \in InIO => pc'[q] = pc[q]
    BY <1>3, Zenon DEF InIO
  <2>2. \A q \in Procs : pc'[q] \in {"sleep", "asleep"} => pc'[q] = pc[q]
    BY <1>3, Zenon
  <2> QED
    BY <1>2, <2>1, <2>2, UsingKept, SleepersKept, Zenon
<1>10. Forks'
  <2>1. \A q \in Procs : pc'[q] = "fork" /\ q # p => pc[q] = "fork" /\ child'[q] = child[q]
    BY <1>3, Zenon
  <2>2. \A q \in Procs : pc[q] = "fork" => child[q] \in Procs /\ pc[child[q]] = "embryo"
    BY Zenon DEF Forks
  <2>3. \A q \in Procs : pc[q] = "fork" => child[q] # c /\ child[q] # p
    BY <1>1, <1>2, <2>2, Zenon
  <2>4. \A q \in Procs : pc[q] = "fork" => pc'[child[q]] = "embryo"
    BY <1>3, <2>2, <2>3, Zenon
  <2>5. \A q \in Procs : pc'[q] = "fork" =>
          /\ child'[q] \in Procs /\ pc'[child'[q]] = "embryo"
          /\ \A fd \in FDs : ofile'[child'[q]][fd] \in {None, ofile'[q][fd]}
    <3> SUFFICES ASSUME NEW q \in Procs, pc'[q] = "fork"
                 PROVE  /\ child'[q] \in Procs /\ pc'[child'[q]] = "embryo"
                        /\ \A fd \in FDs : ofile[child'[q]][fd] \in {None, ofile[q][fd]}
      BY <1>2, Zenon
    <3>1. CASE q = p
      BY <1>1, <1>3, <3>1 DEF Forks
    <3>2. CASE q # p
      BY <2>1, <2>2, <2>4, <3>2, Zenon DEF Forks
    <3> QED
      BY <3>1, <3>2, Zenon
  <2>6. \A q, r \in Procs : pc'[q] = "fork" /\ pc'[r] = "fork" /\ child'[q] = child'[r] => q = r
    <3>1. \A q, r \in Procs : pc[q] = "fork" /\ pc[r] = "fork" /\ child[q] = child[r] => q = r
      BY Zenon DEF Forks
    <3> QED
      BY <1>3, <2>1, <2>3, <3>1
  <2>7. \A q \in Procs : pc'[q] = "unused" => \A fd \in FDs : ofile'[q][fd] = None
    BY <1>2, <1>3 DEF Forks
  <2> QED
    BY <2>5, <2>6, <2>7, Zenon DEF Forks
<1> QED
  BY <1>5, <1>6, <1>7, <1>8, <1>9, <1>10, Zenon

\* What a call knows of the end it reads or writes
IOOf(k, w, m) == [NoIO EXCEPT !.pipe = k, !.writable = w, !.n = m]

\* A transfer knows its pipe, its direction and its length, as piperead() and
\* pipewrite() are given them.
LEMMA TransferIO ==
  ASSUME NEW k \in Pages, NEW w \in BOOLEAN, NEW m \in Nat
  PROVE  IOOf(k, w, m) \in IORec /\ IOOf(k, w, m).pipe = k /\ IOOf(k, w, m).writable = w
<1>1. NoIO \in IORec
  BY Zenon DEF NoIO, IORec
<1>2. ASSUME NEW i \in IORec
      PROVE  [i EXCEPT !.pipe = k, !.writable = w, !.n = m] \in IORec
  BY Zenon DEF IORec
<1>3. ASSUME NEW i \in IORec
      PROVE  /\ [i EXCEPT !.pipe = k, !.writable = w, !.n = m].pipe = k
             /\ [i EXCEPT !.pipe = k, !.writable = w, !.n = m].writable = w
  BY Zenon DEF IORec
<1> QED
  BY <1>1, <1>2, <1>3, Zenon DEF IOOf

\* sys_read() and sys_write() find the end of a pipe at a descriptor.
LEMMA transferInv ==
  ASSUME Inv, NEW p \in Procs, NEW writes \in BOOLEAN, transfer(p, writes)
  PROVE  Inv'
<1> USE DEF Inv
<1>1. /\ pc[p] = "user" /\ pc' = [pc EXCEPT ![p] = "io"] /\ pc \in [Procs -> Labels]
      /\ file' = file /\ pipe' = pipe /\ ofile' = ofile /\ mine' = mine /\ killed' = killed /\ child' = child
      /\ io \in [Procs -> IORec]
  BY Zenon DEF transfer, Calls, Goto, Types
<1>2. PICK fd \in argfd(p), n \in Sizes :
        /\ Serves(file[ofile[p][fd]], writes)
        /\ io' = [io EXCEPT ![p] = [NoIO EXCEPT !.pipe = file[ofile[p][fd]].pipe, !.writable = writes, !.n = n]]
  BY Zenon DEF transfer
<1> DEFINE f == ofile[p][fd]
<1>3. fd \in FDs /\ f # None /\ f \in File
  BY <1>2 DEF argfd, Types
<1>4. file[f].type = "pipe" /\ file[f].writable = writes /\ file[f].pipe \in Pages
  BY <1>2, <1>3, Zenon DEF Serves, Represented
<1> HIDE DEF f
<1>5. n \in Nat
  BY FilesAssumption, Zenon
<1> DEFINE i == IOOf(file[f].pipe, writes, n)
<1>15. i \in IORec /\ i.pipe = file[f].pipe /\ i.writable = writes
  BY <1>4, <1>5, TransferIO
<1>16. io' = [io EXCEPT ![p] = i]
  BY <1>2, Zenon DEF f, IOOf
<1> HIDE DEF i
<1>6. /\ pc'[p] = "io" /\ \A q \in Procs : q # p => pc'[q] = pc[q] /\ io'[q] = io[q]
      /\ io'[p].pipe = file[f].pipe /\ io'[p].writable = writes
  BY <1>1, <1>15, <1>16, Zenon
<1>7. pc' \in [Procs -> Labels] /\ io' \in [Procs -> IORec]
  BY <1>1, <1>15, <1>16, Zenon DEF Labels
<1>8. Types'
  BY <1>1, <1>7, Zenon DEF Types
<1>9. RefsCounted' /\ Rings'
  BY <1>1, RefsKept, RingsKept, Zenon
<1>10. Held'
  BY <1>1, <1>6, HeldKept, Zenon DEF InCall
<1>11. Forks'
  BY <1>1, <1>6, ForksKept, Zenon
<1>12. Represented'
  BY <1>1, <1>6, RepresentedKept, Zenon
<1>13. Sleepers'
  BY <1>1, <1>6, SleepersKept, Zenon
<1>14. Using'
  <2> SUFFICES ASSUME NEW q \in Procs, pc'[q] \in InIO
               PROVE  /\ io'[q].pipe \in Pages
                      /\ \E d \in FDs : ofile[q][d] # None
                                        /\ IsEnd(ofile[q][d], io'[q].pipe, io'[q].writable)
    BY <1>1, Zenon DEF Using, IsEnd
  <2>1. CASE q = p
    BY <1>3, <1>4, <1>6, <2>1, Zenon DEF f, IsEnd
  <2>2. CASE q # p
    BY <1>6, <2>2, Zenon DEF Using
  <2> QED
    BY <2>1, <2>2, Zenon
<1> QED
  BY <1>8, <1>9, <1>10, <1>11, <1>12, <1>13, <1>14, Zenon

\* The invariant holds when no file is open (ftable is zeroed and no pipe exists).
LEMMA InitInv ==
  ASSUME Countable, Init
  PROVE  Inv
<1> USE DEF Init
<1>1. Types
  <2>1. NoFile \in FileRec
    BY Zenon DEF NoFile, FileRec
  <2>2. NoIO \in IORec
    BY Zenon DEF NoIO, IORec
  <2>3. Closed \in [FDs -> File \cup {None}] /\ NoLocals \in [Locals -> File \cup {None}]
    BY Zenon DEF Closed, NoLocals, Locals
  <2>4. pc \in [Procs -> Labels]
    BY Zenon DEF Labels
  <2> QED
    BY <2>1, <2>2, <2>3, <2>4, NoPipeIntact, Zenon DEF Types
<1>2. RefsCounted
  <2>1. \A p \in Procs, x \in Places : Ref(p, x) = None
    BY Zenon DEF Ref, Closed, NoLocals, Places, Locals
  <2>2. \A f \in File : Holders(f) = {}
    BY <2>1, Constant, Zenon DEF Holders
  <2>3. \A f \in File : file[f].ref = 0
    BY Zenon DEF NoFile
  <2>4. Cardinality({}) = 0
    BY Zenon DEF Countable
  <2> QED
    BY <2>2, <2>3, <2>4, Counted, Zenon
<1>3. Held
  BY Zenon DEF Held, HeldBy, NoLocals, Locals
<1>4. Forks
  BY Zenon DEF Forks, Closed
<1>5. Represented
  <2>1. \A f \in File : file[f].type = "none"
    BY Zenon DEF NoFile
  <2>2. \A p \in Procs : pc[p] # "pipeclose"
    BY Zenon
  <2>3. \A k \in Pages : ~ pipe[k].used /\ ~ pipe[k].readopen /\ ~ pipe[k].writeopen
    BY Zenon DEF NoPipe
  <2> QED
    BY <2>1, <2>2, <2>3, ZenonT(30) DEF Represented, Opened, IsEnd, Closes
<1>6. Using /\ Sleepers
  BY Zenon DEF Using, Sleepers, InIO
<1>7. Rings
  BY NoPipeIntact, RingsAre, Zenon
<1> QED
  BY <1>1, <1>2, <1>3, <1>4, <1>5, <1>6, <1>7, Zenon DEF Inv

------------------------------------------------------------------------------
(* Closing, writing and reading a pipe                                      *)

\* What wakeup() makes of the program counters: whoever is woken was asleep on
\* that side of the pipe, and nobody stays asleep there.
LEMMA WakeupIs ==
  ASSUME NEW now \in [Procs -> Labels], NEW k, NEW writers, pc' = wakeup(now, k, writers)
  PROVE  /\ pc' \in [Procs -> Labels]
         /\ \A q \in Procs : /\ now[q] = "asleep" /\ io[q].pipe = k /\ io[q].writable = writers => pc'[q] = "io"
                             /\ pc'[q] = now[q] \/ (pc'[q] = "io" /\ now[q] = "asleep")
<1>1. "io" \in Labels
  BY Zenon DEF Labels
<1>2. pc' \in [Procs -> Labels]
  BY <1>1, Zenon DEF wakeup
<1> QED
  BY <1>2, Zenon DEF wakeup

\* pipeclose() closes the end that the call alone stands for, and wakes the other
\* side.
LEMMA pipecloseInv ==
  ASSUME Inv, NEW p \in Procs, pipeclose(p)
  PROVE  Inv'
<1> USE DEF Inv
<1>1. PICK k \in Pages : k = io[p].pipe
  BY Zenon DEF pipeclose, Represented
<1>2. PICK w \in BOOLEAN : w = io[p].writable
  BY Zenon DEF Types, IORec
<1> DEFINE r == pipe[k]
           left == IF w THEN [r EXCEPT !.writeopen = FALSE, !.mute = FALSE] ELSE [r EXCEPT !.readopen = FALSE]
           new == IF left.readopen \/ left.writeopen THEN left ELSE NoPipe
           l == Resume(p, mine[p])
<1>3. /\ pc[p] = "pipeclose" /\ ~ Locked(k) /\ pipe' = [pipe EXCEPT ![k] = new]
      /\ pc' = wakeup([pc EXCEPT ![p] = l], k, ~ w)
      /\ io' = [io EXCEPT ![p] = [NoIO EXCEPT !.exit = io[p].exit]]
      /\ file' = file /\ ofile' = ofile /\ killed' = killed /\ mine' = mine /\ child' = child
  BY <1>1, <1>2, Zenon DEF pipeclose
<1>4. /\ l \in {"fileclose", "exit", "user"}
      /\ l = "fileclose" => \E u \in Locals : mine[p][u] # None
      /\ l # "fileclose" => \A u \in Locals : mine[p][u] = None
  BY ResumeIs, Zenon DEF Types
<1>5. r \in Ring /\ Intact(r) /\ (r.used <=> r.readopen \/ r.writeopen)
  BY RingsAre, Zenon DEF Types, Represented
<1>6. /\ left \in Ring /\ left.nread = r.nread /\ left.nwrite = r.nwrite /\ left.sent = r.sent /\ left.got = r.got
      /\ left.data = r.data /\ left.used = r.used
      /\ left.writeopen = (r.writeopen /\ ~ w) /\ left.readopen = (r.readopen /\ w)
  <2>1. CASE w
    BY <1>5, <2>1, Zenon DEF Ring
  <2>2. CASE ~ w
    BY <1>5, <2>2, Zenon DEF Ring
  <2> QED
    BY <2>1, <2>2, Zenon
<1> HIDE DEF left
<1>7. Intact(left)
  <2>1. Count(left) = Count(r)
    BY <1>6, Zenon DEF Count
  <2> QED
    BY <1>5, <1>6, <2>1, Zenon DEF Intact
<1>8. /\ new \in Ring /\ Intact(new) /\ new.writeopen = (r.writeopen /\ ~ w) /\ new.readopen = (r.readopen /\ w)
      /\ new.used <=> new.readopen \/ new.writeopen
  <2>1. CASE left.readopen \/ left.writeopen
    BY <1>5, <1>6, <1>7, <2>1, Zenon
  <2>2. CASE ~ (left.readopen \/ left.writeopen)
    BY <1>6, <2>2, NoPipeIntact, Zenon DEF NoPipe
  <2> QED
    BY <2>1, <2>2, Zenon
<1> HIDE DEF l, new, r
<1>9. /\ pc' \in [Procs -> Labels] /\ pc'[p] = l
      /\ \A q \in Procs : q # p =>
           /\ pc[q] = "asleep" /\ io[q].pipe = k /\ io[q].writable = ~ w => pc'[q] = "io"
           /\ pc'[q] = pc[q] \/ (pc'[q] = "io" /\ pc[q] = "asleep")
  <2> DEFINE now == [pc EXCEPT ![p] = l]
  <2>1. now \in [Procs -> Labels] /\ now[p] = l /\ l # "asleep" /\ \A q \in Procs : q # p => now[q] = pc[q]
    BY <1>4, Zenon DEF Types, Labels
  <2>2. pc' = wakeup(now, k, ~ w)
    BY <1>3, Zenon
  <2> HIDE DEF now
  <2>3. /\ pc' \in [Procs -> Labels]
        /\ \A q \in Procs : /\ now[q] = "asleep" /\ io[q].pipe = k /\ io[q].writable = ~ w => pc'[q] = "io"
                            /\ pc'[q] = now[q] \/ (pc'[q] = "io" /\ now[q] = "asleep")
    BY <2>1, <2>2, WakeupIs, Zenon
  <2> QED
    BY <2>1, <2>3, Zenon
<1>10. io' \in [Procs -> IORec] /\ \A q \in Procs : q # p => io'[q] = io[q]
  <2>1. io[p].exit \in BOOLEAN /\ io \in [Procs -> IORec]
    BY Zenon DEF Types, IORec
  <2>2. [NoIO EXCEPT !.exit = io[p].exit] \in IORec
    BY <2>1, ExitIO, Zenon
  <2> QED
    BY <1>3, <2>1, <2>2, Zenon
<1>11. /\ pipe' \in [Pages -> Ring] /\ pipe'[k] = new /\ \A j \in Pages : j # k => pipe'[j] = pipe[j]
  BY <1>3, <1>8, Zenon DEF Types
<1>12. Types'
  BY <1>3, <1>9, <1>10, <1>11, Zenon DEF Types
<1>13. Rings'
  <2>1. \A j \in Pages : Intact(pipe'[j])
    BY <1>8, <1>11, RingsAre, Zenon
  <2> QED
    BY <2>1, Zenon DEF Rings, RingIntact, Intact, Count
<1>14. RefsCounted'
  BY <1>3, RefsKept, Zenon
<1>15. Held'
  <2>1. HeldBy(p)'
    BY <1>3, <1>4, <1>9, Zenon DEF HeldBy, InCall
  <2>2. \A q \in Procs : q # p => \/ pc'[q] = pc[q]
                                  \/ pc[q] \notin InCall /\ pc'[q] \notin InCall \ {"filealloc"}
    BY <1>9, Zenon DEF InCall
  <2> QED
    BY <1>3, <2>1, <2>2, HeldKept, Zenon
<1>16. Forks'
  <2>1. \A q \in Procs : \/ pc'[q] = pc[q]
                         \/ pc[q] \notin {"fork", "embryo", "unused"} /\ pc'[q] \notin {"fork", "embryo", "unused"}
    BY <1>3, <1>4, <1>9, Zenon
  <2> QED
    BY <1>3, <2>1, ForksKept, Zenon
<1>17. Using'
  <2>1. \A q \in Procs : pc'[q] \in InIO => q # p /\ pc[q] \in InIO
    BY <1>4, <1>9, Zenon DEF InIO
  <2> QED
    BY <1>3, <1>10, <2>1, UsingKept, Zenon
\* No file stands for the end that is closed, and no other call closes it.
<1>18. /\ \A f \in File : ~ IsEnd(f, k, w)
       /\ \A q \in Procs : q # p => ~ Closes(q, k, w)
  <2>1. Closes(p, k, w)
    BY <1>1, <1>2, <1>3, Zenon DEF Closes
  <2> QED
    BY <2>1, Zenon DEF Represented
<1>19. Sleepers'
  <2>1. ASSUME NEW q \in Procs, pc'[q] \in {"sleep", "asleep"}
        PROVE  q # p /\ pc[q] \in {"sleep", "asleep"} /\ io[q].pipe \in Pages /\ io[q].pipe # k
    <3>1. q # p /\ pc[q] \in {"sleep", "asleep"} /\ pc'[q] = pc[q]
      BY <1>4, <1>9, <2>1, Zenon
    <3>2. io[q].pipe \in Pages /\ \E fd \in FDs : ofile[q][fd] # None
                                                  /\ IsEnd(ofile[q][fd], io[q].pipe, io[q].writable)
      BY <3>1, Zenon DEF Using, InIO
    <3>3. io[q].writable \in BOOLEAN
      BY Zenon DEF Types, IORec
    <3>4. ASSUME io[q].pipe = k PROVE FALSE
      <4>1. pc[q] = "asleep"
        BY <1>3, <3>1, <3>4, Zenon DEF Locked
      <4>2. io[q].writable = w
        BY <1>9, <3>1, <3>3, <3>4, <4>1, Zenon
      <4>3. \E f \in File : IsEnd(f, k, w)
        BY <3>2, <3>4, <4>2 DEF Types
      <4> QED
        BY <1>18, <4>3, Zenon
    <3> QED
      BY <3>1, <3>2, <3>4, Zenon
  <2>2. \A q \in Procs : pc'[q] \in {"sleep", "asleep"} =>
           /\ pc[q] \in {"sleep", "asleep"} /\ io'[q].pipe = io[q].pipe /\ io'[q].writable = io[q].writable
           /\ pipe'[io[q].pipe] = pipe[io[q].pipe]
    BY <1>10, <1>11, <2>1, Zenon
  <2> QED
    BY <2>2, SleepersKept, Zenon
<1>20. Represented'
  <2>1. /\ \A f \in File : file'[f].type = "pipe" => file'[f].ref > 0 /\ file'[f].pipe \in Pages
        /\ \A q \in Procs : pc'[q] = "pipeclose" => q # p /\ pc[q] = "pipeclose" /\ io'[q].pipe \in Pages
        /\ \A j \in Pages : pipe'[j].used <=> pipe'[j].readopen \/ pipe'[j].writeopen
    <3>1. \A f \in File : file'[f].type = "pipe" => file'[f].ref > 0 /\ file'[f].pipe \in Pages
      BY <1>3, Zenon DEF Represented
    <3>2. \A q \in Procs : pc'[q] = "pipeclose" => q # p /\ pc[q] = "pipeclose" /\ io'[q].pipe \in Pages
      BY <1>4, <1>9, <1>10, Zenon DEF Represented
    <3>3. \A j \in Pages : pipe'[j].used <=> pipe'[j].readopen \/ pipe'[j].writeopen
      BY <1>8, <1>11, Zenon DEF Represented
    <3> QED
      BY <3>1, <3>2, <3>3, Zenon
  <2>2. \A f \in File : \A j, x : IsEnd(f, j, x)' <=> IsEnd(f, j, x)
    BY <1>3, Zenon DEF IsEnd
  <2>3. \A q \in Procs : \A j, x : Closes(q, j, x)' <=> Closes(q, j, x) /\ q # p
    BY <1>3, <1>4, <1>9, <1>10, Zenon DEF Closes
  <2>4. \A j \in Pages, x \in BOOLEAN : Opened(j, x)' <=> Opened(j, x) /\ ~ (j = k /\ x = w)
    BY <1>8, <1>11, Zenon DEF Opened, r
  <2>5. \A j, x : Closes(p, j, x) => j = k /\ x = w
    BY <1>1, <1>2, Zenon DEF Closes
  <2>6. ASSUME NEW j \in Pages, NEW x \in BOOLEAN
        PROVE  /\ Opened(j, x)' <=> \/ \E f \in File : IsEnd(f, j, x)'
                                    \/ \E q \in Procs : Closes(q, j, x)'
               /\ \A f, g \in File : IsEnd(f, j, x)' /\ IsEnd(g, j, x)' => f = g
               /\ \A q, t \in Procs : Closes(q, j, x)' /\ Closes(t, j, x)' => q = t
               /\ \A f \in File, q \in Procs : ~ (IsEnd(f, j, x)' /\ Closes(q, j, x)')
    <3>1. /\ Opened(j, x) <=> \/ \E f \in File : IsEnd(f, j, x)
                              \/ \E q \in Procs : Closes(q, j, x)
          /\ \A f, g \in File : IsEnd(f, j, x) /\ IsEnd(g, j, x) => f = g
          /\ \A q, t \in Procs : Closes(q, j, x) /\ Closes(t, j, x) => q = t
          /\ \A f \in File, q \in Procs : ~ (IsEnd(f, j, x) /\ Closes(q, j, x))
      BY Zenon DEF Represented
    <3>2. /\ \A f \in File : IsEnd(f, j, x)' <=> IsEnd(f, j, x)
          /\ \A q \in Procs : Closes(q, j, x)' <=> Closes(q, j, x) /\ q # p
          /\ Opened(j, x)' <=> Opened(j, x) /\ ~ (j = k /\ x = w)
          /\ Closes(p, j, x) => j = k /\ x = w
      BY <2>2, <2>3, <2>4, <2>5, Zenon
    <3>3. CASE j = k /\ x = w
      BY <1>18, <3>1, <3>2, <3>3, Zenon
    <3>4. CASE ~ (j = k /\ x = w)
      BY <3>1, <3>2, <3>4, Zenon
    <3> QED
      BY <3>3, <3>4, Zenon
  <2> QED
    BY <2>1, <2>6, Zenon DEF Represented
<1> QED
  BY <1>12, <1>13, <1>14, <1>15, <1>16, <1>17, <1>19, <1>20, Zenon

------------------------------------------------------------------------------
(* Counting modulo n                                                        *)

\* a and b differ by a multiple of n.
Cong(a, b, n) == \E q \in Int : a = b + q * n

\* Quotient and remainder, the facts about % and \div the others rest on.
LEMMA Divided ==
  ASSUME NEW a \in Int, NEW n \in Nat \ {0}
  PROVE  a % n \in 0 .. n - 1 /\ a \div n \in Int /\ a = n * (a \div n) + (a % n)
<1>1. n > 0
  OBVIOUS
<1>2. a = n * (a \div n) + (a % n)
  BY <1>1
<1>3. a % n \in 0 .. n - 1
  BY <1>1
<1>4. a \div n \in Int
  BY <1>1
<1> QED
  BY <1>2, <1>3, <1>4, Zenon

\* The remainder lies in 0 .. n - 1 and differs from the number by a multiple of n:
\* what the uint nread and nwrite keep of the bytes counted.
LEMMA CongMod ==
  ASSUME NEW a \in Int, NEW n \in Nat \ {0}
  PROVE  a % n \in 0 .. n - 1 /\ Cong(a % n, a, n)
<1>1. a % n \in 0 .. n - 1 /\ a \div n \in Int /\ a = n * (a \div n) + (a % n)
  BY Divided, Zenon
<1>2. - (a \div n) \in Int /\ a % n = a + (- (a \div n)) * n
  BY <1>1
<1> QED
  BY <1>1, <1>2, Zenon DEF Cong

\* Sums and differences may be taken modulo n: nwrite - nread is the difference of the
\* true counts.
LEMMA CongAdd ==
  ASSUME NEW n \in Nat \ {0}, NEW a \in Int, NEW b \in Int, NEW c \in Int, NEW d \in Int,
         Cong(a, b, n), Cong(c, d, n)
  PROVE  Cong(a + c, b + d, n) /\ Cong(a - c, b - d, n)
<1>1. PICK q \in Int : a = b + q * n
  BY Zenon DEF Cong
<1>2. PICK r \in Int : c = d + r * n
  BY Zenon DEF Cong
<1>3. q + r \in Int /\ a + c = b + d + (q + r) * n
  BY <1>1, <1>2
<1>4. q - r \in Int /\ a - c = b - d + (q - r) * n
  BY <1>1, <1>2
<1> QED
  BY <1>3, <1>4, Zenon DEF Cong

\* Congruence is symmetric
LEMMA CongSym ==
  ASSUME NEW n \in Nat \ {0}, NEW a \in Int, NEW b \in Int, Cong(a, b, n)
  PROVE  Cong(b, a, n)
<1>1. PICK q \in Int : a = b + q * n
  BY Zenon DEF Cong
<1>2. -q \in Int /\ b = a + (-q) * n
  BY <1>1
<1> QED
  BY <1>2, Zenon DEF Cong

\* and reflexive.
LEMMA CongRefl ==
  ASSUME NEW n \in Nat \ {0}, NEW a \in Int
  PROVE  Cong(a, a, n)
<1>1. 0 \in Int /\ a = a + 0 * n
  OBVIOUS
<1> QED
  BY <1>1, Zenon DEF Cong

\* Congruent numbers less than n apart are equal: the bytes in a ring never are more
\* than its size, so their number can be read off the wrapped counters.
LEMMA CongNear ==
  ASSUME NEW n \in Nat \ {0}, NEW a \in Int, NEW b \in Int, Cong(a, b, n), a - b < n, b - a < n
  PROVE  a = b
<1>1. PICK q \in Int : a = b + q * n
  BY Zenon DEF Cong
<1>2. q * n < n /\ - n < q * n
  BY <1>1
<1>3. q < 1
  BY <1>2
<1>4. q > -1
  BY <1>2
<1> QED
  BY <1>1, <1>3, <1>4

\* Congruence is transitive.
LEMMA CongTrans ==
  ASSUME NEW n \in Nat \ {0}, NEW a \in Int, NEW b \in Int, NEW c \in Int, Cong(a, b, n), Cong(b, c, n)
  PROVE  Cong(a, c, n)
<1>1. PICK q \in Int : a = b + q * n
  BY Zenon DEF Cong
<1>2. PICK r \in Int : b = c + r * n
  BY Zenon DEF Cong
<1>3. q + r \in Int /\ a = c + (q + r) * n
  BY <1>1, <1>2
<1> QED
  BY <1>3, Zenon DEF Cong

\* Congruent means having the same remainder.
LEMMA CongEqual ==
  ASSUME NEW n \in Nat \ {0}, NEW a \in Int, NEW b \in Int
  PROVE  Cong(a, b, n) <=> a % n = b % n
<1>0. a % n \in 0 .. n - 1 /\ Cong(a % n, a, n) /\ b % n \in 0 .. n - 1 /\ Cong(b % n, b, n)
  BY CongMod, Zenon
<1>00. Cong(a, a % n, n) /\ Cong(b, b % n, n)
  BY <1>0, CongSym
<1>1. ASSUME Cong(a, b, n) PROVE a % n = b % n
  <2>1. Cong(a % n, b, n)
    BY <1>0, <1>1, CongTrans
  <2>2. Cong(a % n, b % n, n)
    BY <1>0, <1>00, <2>1, CongTrans
  <2> DEFINE c == a % n
             d == b % n
  <2>3. c \in Int /\ d \in Int /\ c - d < n /\ d - c < n
    BY <1>0
  <2>4. Cong(c, d, n)
    BY <2>2, Zenon
  <2> HIDE DEF c, d
  <2>5. c = d
    BY <2>3, <2>4, CongNear, Zenon
  <2> QED
    BY <2>5, Zenon DEF c, d
<1>2. ASSUME a % n = b % n PROVE Cong(a, b, n)
  BY <1>0, <1>00, <1>2, CongTrans
<1> QED
  BY <1>1, <1>2, Zenon

\* Congruent modulo a multiple of n is congruent modulo n: nwrite % PIPESIZE goes on
\* by one when nwrite wraps at 2^32, which 512 divides.
LEMMA CongFactor ==
  ASSUME NEW n \in Nat \ {0}, NEW m \in Nat \ {0}, m % n = 0, NEW a \in Int, NEW b \in Int, Cong(a, b, m)
  PROVE  Cong(a, b, n)
<1>1. m \div n \in Int /\ m = n * (m \div n)
  BY Divided
<1>2. PICK q \in Int : a = b + q * m
  BY Zenon DEF Cong
<1>3. q * (m \div n) \in Int /\ a = b + (q * (m \div n)) * n
  BY <1>1, <1>2
<1> QED
  BY <1>3, Zenon DEF Cong
------------------------------------------------------------------------------
(* The ring                                                                 *)

\* The counters of a ring are as far apart as the numbers of its first and next byte.
LEMMA Apart ==
  ASSUME NEW r \in Ring, Intact(r)
  PROVE  /\ Count(r) \in 0 .. PIPESIZE
         /\ Cong(r.nwrite - r.nread, Count(r), WRAP) /\ Cong(r.sent - r.got, Count(r), WRAP)
         /\ r.nwrite \in Int /\ r.nread \in Int /\ r.sent \in Int /\ r.got \in Int
<1>1. r.nwrite \in Int /\ r.nread \in Int /\ r.sent \in Int /\ r.got \in Int
  BY DEF Ring, Numbers
<1>2. r.nwrite - r.nread \in Int /\ r.sent - r.got \in Int
  BY <1>1
<1>3. Count(r) \in 0 .. WRAP - 1 /\ Count(r) <= PIPESIZE
  BY <1>2, Moduli, CongMod, Zenon DEF Count, Intact
<1>4. Cong(Count(r), r.nwrite - r.nread, WRAP)
  BY <1>2, Moduli, CongMod, Zenon DEF Count
<1>5. Cong(Count(r), r.sent - r.got, WRAP)
  <2>1. Cong((r.sent - r.got) % WRAP, r.sent - r.got, WRAP)
    BY <1>2, Moduli, CongMod, Zenon
  <2> QED
    BY <2>1, Zenon DEF Intact
<1>6. Count(r) \in Int /\ Count(r) \in 0 .. PIPESIZE
  BY <1>3, Moduli
<1> QED
  BY <1>1, <1>2, <1>4, <1>5, <1>6, Moduli, CongSym, Zenon

\* Adding to a number before or after it wraps makes no difference.
LEMMA WrapAdd ==
  ASSUME NEW a \in Int, NEW m \in Int
  PROVE  /\ (a + m) % WRAP \in Numbers /\ Cong((a + m) % WRAP, a + m, WRAP)
         /\ (a + m) % WRAP \in Int /\ a + m \in Int
<1>1. a + m \in Int
  OBVIOUS
<1>2. (a + m) % WRAP \in 0 .. WRAP - 1 /\ Cong((a + m) % WRAP, a + m, WRAP)
  BY <1>1, Moduli, CongMod, Zenon
<1>3. (a + m) % WRAP \in Int
  BY <1>2, Moduli
<1> QED
  BY <1>1, <1>2, <1>3, Zenon DEF Numbers

\* Numbers that are congruent to c, when c is a number below the modulus
LEMMA WrapIs ==
  ASSUME NEW a \in Int, NEW c \in 0 .. WRAP - 1, Cong(a, c, WRAP)
  PROVE  a % WRAP = c
<1>1. c \in Int /\ c % WRAP = c
  <2>1. c \in Int
    BY Moduli
  <2>2. c % WRAP \in 0 .. WRAP - 1 /\ Cong(c % WRAP, c, WRAP)
    BY <2>1, Moduli, CongMod, Zenon
  <2> DEFINE d == c % WRAP
  <2>3. d \in Int /\ d - c < WRAP /\ c - d < WRAP
    BY <2>1, <2>2, Moduli
  <2>4. Cong(d, c, WRAP)
    BY <2>2, Zenon
  <2> HIDE DEF d
  <2>5. d = c
    BY <2>1, <2>3, <2>4, Moduli, CongNear, Zenon
  <2> QED
    BY <2>1, <2>5, Zenon DEF d
<1>2. a % WRAP = c % WRAP
  BY <1>1, Moduli, CongEqual, Zenon
<1> QED
  BY <1>1, <1>2, Zenon

\* Two counters that are c apart, when the first advances
LEMMA AdvanceFirst ==
  ASSUME NEW a \in Int, NEW b \in Int, NEW c \in Int, Cong(a - b, c, WRAP), NEW m \in Int,
         c + m \in 0 .. WRAP - 1
  PROVE  (((a + m) % WRAP) - b) % WRAP = c + m
<1> DEFINE x == (a + m) % WRAP
<1>1. Cong(x, a + m, WRAP) /\ x \in Int /\ a + m \in Int
  BY WrapAdd, Zenon
<1>2. Cong(a, a, WRAP) /\ Cong(b, b, WRAP) /\ Cong(m, m, WRAP)
  BY CongRefl, Moduli, Zenon
<1> HIDE DEF x
<1>3. Cong(x - b, (a + m) - b, WRAP)
  BY <1>1, <1>2, CongAdd, Moduli, Zenon
<1>4. /\ a - b \in Int /\ (a - b) + m = (a + m) - b /\ x - b \in Int /\ c + m \in Int /\ (a + m) - b \in Int
  BY <1>1
<1>5. Cong((a - b) + m, c + m, WRAP)
  BY <1>2, <1>4, CongAdd, Moduli, Zenon
<1>6. Cong((a + m) - b, c + m, WRAP)
  BY <1>4, <1>5, Zenon
<1>7. Cong(x - b, c + m, WRAP)
  BY <1>3, <1>4, <1>6, CongTrans, Moduli, Zenon
<1>8. (x - b) % WRAP = c + m
  BY <1>4, <1>7, WrapIs, Zenon
<1> QED
  BY <1>8, Zenon DEF x

\* Two counters that are c apart, when the second advances
LEMMA AdvanceSecond ==
  ASSUME NEW a \in Int, NEW b \in Int, NEW c \in Int, Cong(a - b, c, WRAP), NEW m \in Int,
         c - m \in 0 .. WRAP - 1
  PROVE  (a - ((b + m) % WRAP)) % WRAP = c - m
<1> DEFINE x == (b + m) % WRAP
<1>1. Cong(x, b + m, WRAP) /\ x \in Int /\ b + m \in Int
  BY WrapAdd, Zenon
<1>2. Cong(a, a, WRAP) /\ Cong(b, b, WRAP) /\ Cong(m, m, WRAP)
  BY CongRefl, Moduli, Zenon
<1> HIDE DEF x
<1>3. Cong(a - x, a - (b + m), WRAP)
  BY <1>1, <1>2, CongAdd, Moduli, Zenon
<1>4. /\ a - b \in Int /\ (a - b) - m = a - (b + m) /\ a - x \in Int /\ c - m \in Int /\ a - (b + m) \in Int
  BY <1>1
<1>5. Cong((a - b) - m, c - m, WRAP)
  BY <1>2, <1>4, CongAdd, Moduli, Zenon
<1>6. Cong(a - (b + m), c - m, WRAP)
  BY <1>4, <1>5, Zenon
<1>7. Cong(a - x, c - m, WRAP)
  BY <1>3, <1>4, <1>6, CongTrans, Moduli, Zenon
<1>8. (a - x) % WRAP = c - m
  BY <1>4, <1>7, WrapIs, Zenon
<1> QED
  BY <1>8, Zenon DEF x

\* A number that wraps at WRAP falls on the same cell as one that does not.
LEMMA SameCell ==
  ASSUME NEW a \in Int, NEW b \in Int, NEW j \in Int, Cong(a, b, WRAP)
  PROVE  (a + j) % PIPESIZE = (b + j) % PIPESIZE /\ (a + j) % WRAP = (b + j) % WRAP
<1>1. Cong(j, j, WRAP) /\ a + j \in Int /\ b + j \in Int
  BY CongRefl, Moduli
<1>2. Cong(a + j, b + j, WRAP)
  BY <1>1, CongAdd, Moduli, Zenon
<1>3. Cong(a + j, b + j, PIPESIZE)
  BY <1>1, <1>2, CongFactor, Moduli, Zenon
<1> QED
  BY <1>1, <1>2, <1>3, CongEqual, Moduli, Zenon

\* Bytes that are less than a ring apart are in different cells.
LEMMA OtherCell ==
  ASSUME NEW a \in Int, NEW i \in Int, NEW j \in Int, i - j < PIPESIZE, j - i < PIPESIZE,
         (a + i) % PIPESIZE = (a + j) % PIPESIZE
  PROVE  i = j
<1>1. a + i \in Int /\ a + j \in Int
  OBVIOUS
<1>2. Cong(a + i, a + j, PIPESIZE)
  BY <1>1, CongEqual, Moduli, Zenon
<1>3. (a + i) - (a + j) < PIPESIZE /\ (a + j) - (a + i) < PIPESIZE
  BY Moduli
<1>4. a + i = a + j
  BY <1>1, <1>2, <1>3, CongNear, Moduli, Zenon
<1> QED
  BY <1>4

\* Reading m of the bytes that are there keeps the ring intact.
LEMMA TakenIntact ==
  ASSUME NEW r \in Ring, Intact(r), NEW m \in 0 .. Count(r)
  PROVE  /\ Taken(r, m) \in Ring /\ Intact(Taken(r, m)) /\ Count(Taken(r, m)) = Count(r) - m
         /\ Taken(r, m).used = r.used /\ Taken(r, m).readopen = r.readopen
         /\ Taken(r, m).writeopen = r.writeopen /\ Taken(r, m).mute = r.mute
<1> DEFINE n == Taken(r, m)
           c == Count(r)
<1>1. /\ c \in 0 .. PIPESIZE /\ Cong(r.nwrite - r.nread, c, WRAP) /\ Cong(r.sent - r.got, c, WRAP)
      /\ r.nwrite \in Int /\ r.nread \in Int /\ r.sent \in Int /\ r.got \in Int
  BY Apart, Zenon
<1>2. c \in Int /\ m \in Int /\ m <= c /\ c - m \in 0 .. WRAP - 1
  BY <1>1, Moduli
<1>3. /\ (r.nread + m) % WRAP \in Numbers /\ Cong((r.nread + m) % WRAP, r.nread + m, WRAP)
      /\ (r.nread + m) % WRAP \in Int /\ r.nread + m \in Int
      /\ (r.got + m) % WRAP \in Numbers /\ Cong((r.got + m) % WRAP, r.got + m, WRAP)
      /\ (r.got + m) % WRAP \in Int /\ r.got + m \in Int
  BY <1>1, <1>2, WrapAdd, Zenon
<1>4. /\ n.nread = (r.nread + m) % WRAP /\ n.got = (r.got + m) % WRAP
      /\ n.nwrite = r.nwrite /\ n.sent = r.sent /\ n.data = r.data
      /\ n.used = r.used /\ n.readopen = r.readopen /\ n.writeopen = r.writeopen /\ n.mute = r.mute
  BY Zenon DEF Taken, Ring
<1>5. n \in Ring
  <2>1. n = [r EXCEPT !.nread = n.nread, !.got = n.got]
    BY Zenon DEF Taken, Ring
  <2> HIDE DEF n
  <2>2. n.nread \in Numbers /\ n.got \in Numbers
    BY <1>3, <1>4, Zenon
  <2> QED
    BY <2>1, <2>2, Zenon DEF Ring
<1>6. Count(n) = c - m /\ (n.sent - n.got) % WRAP = c - m
  <2> HIDE DEF n, c
  <2>1. (r.nwrite - ((r.nread + m) % WRAP)) % WRAP = c - m
    BY <1>1, <1>2, AdvanceSecond
  <2>2. (r.sent - ((r.got + m) % WRAP)) % WRAP = c - m
    BY <1>1, <1>2, AdvanceSecond
  <2> QED
    BY <2>1, <2>2, <1>4, Zenon DEF Count
<1>7. ASSUME NEW j \in 0 .. Count(n) - 1
      PROVE  n.data[(n.nread + j) % PIPESIZE] = (n.got + j) % WRAP
  <2>1. j \in Int /\ m + j \in 0 .. c - 1
    BY <1>2, <1>6
  <2> HIDE DEF n, c
  <2>0. /\ n.nread \in Int /\ r.nread + m \in Int /\ Cong(n.nread, r.nread + m, WRAP)
        /\ n.got \in Int /\ r.got + m \in Int /\ Cong(n.got, r.got + m, WRAP)
    BY <1>3, <1>4, Zenon
  <2>2. (n.nread + j) % PIPESIZE = ((r.nread + m) + j) % PIPESIZE
    BY <2>0, <2>1, SameCell
  <2>3. (n.got + j) % WRAP = ((r.got + m) + j) % WRAP
    BY <2>0, <2>1, SameCell, Zenon
  <2>4. (r.nread + m) + j = r.nread + (m + j) /\ (r.got + m) + j = r.got + (m + j)
    BY <1>1, <1>2, <2>1
  <2>5. r.data[(r.nread + (m + j)) % PIPESIZE] = (r.got + (m + j)) % WRAP
    BY <2>1, Zenon DEF Intact, c
  <2> QED
    BY <1>4, <2>2, <2>3, <2>4, <2>5, Zenon
<1>8. Count(n) <= PIPESIZE
  BY <1>1, <1>2, <1>6, Moduli
<1> HIDE DEF n
<1>9. Intact(n)
  BY <1>6, <1>7, <1>8, Zenon DEF Intact
<1> QED
  BY <1>4, <1>5, <1>6, <1>9, Zenon DEF n

\* Storing m bytes where there is room for them keeps the ring intact: each byte
\* has a cell of its own, and none that is still to be read.
LEMMA StoredIntact ==
  ASSUME NEW r \in Ring, Intact(r), NEW m \in 0 .. Room(r)
  PROVE  /\ Stored(r, m) \in Ring /\ Intact(Stored(r, m)) /\ Count(Stored(r, m)) = Count(r) + m
         /\ Stored(r, m).used = r.used /\ Stored(r, m).readopen = r.readopen
         /\ Stored(r, m).writeopen = r.writeopen /\ Stored(r, m).mute = r.mute
<1> DEFINE n == Stored(r, m)
           c == Count(r)
           At(x) == CHOOSE j \in 0 .. m - 1 : Cell(r, j) = x
<1>1. /\ c \in 0 .. PIPESIZE /\ Cong(r.nwrite - r.nread, c, WRAP) /\ Cong(r.sent - r.got, c, WRAP)
      /\ r.nwrite \in Int /\ r.nread \in Int /\ r.sent \in Int /\ r.got \in Int
  BY Apart, Zenon
<1>2. c \in Int /\ m \in Int /\ 0 <= m /\ c + m <= PIPESIZE /\ c + m \in 0 .. WRAP - 1
  BY <1>1, Moduli DEF Room
<1>3. /\ (r.nwrite + m) % WRAP \in Numbers /\ (r.sent + m) % WRAP \in Numbers
      /\ \A j \in Int : (r.sent + j) % WRAP \in Numbers
  BY <1>1, <1>2, WrapAdd, Zenon
<1>4. /\ n.nwrite = (r.nwrite + m) % WRAP /\ n.sent = (r.sent + m) % WRAP
      /\ n.nread = r.nread /\ n.got = r.got
      /\ n.used = r.used /\ n.readopen = r.readopen /\ n.writeopen = r.writeopen /\ n.mute = r.mute
      /\ n.data = [x \in 0 .. PIPESIZE - 1 |-> IF \E j \in 0 .. m - 1 : Cell(r, j) = x
                                               THEN (r.sent + At(x)) % WRAP ELSE r.data[x]]
  BY Zenon DEF Stored, Ring
<1>5. \A x : (\E j \in 0 .. m - 1 : Cell(r, j) = x) => At(x) \in 0 .. m - 1 /\ Cell(r, At(x)) = x
  BY Zenon
<1> HIDE DEF At
<1>6. n.data \in [0 .. PIPESIZE - 1 -> Numbers]
  <2>1. r.data \in [0 .. PIPESIZE - 1 -> Numbers]
    BY Zenon DEF Ring
  <2>2. \A x : (\E j \in 0 .. m - 1 : Cell(r, j) = x) => At(x) \in Int
    BY <1>2, <1>5
  <2>3. \A x \in 0 .. PIPESIZE - 1 : (IF \E j \in 0 .. m - 1 : Cell(r, j) = x
                                      THEN (r.sent + At(x)) % WRAP ELSE r.data[x]) \in Numbers
    BY <1>3, <2>1, <2>2, Zenon
  <2> QED
    BY <1>4, <2>3, Zenon
<1>7. n \in Ring
  <2>1. n = [r EXCEPT !.nwrite = n.nwrite, !.sent = n.sent, !.data = n.data]
    BY Zenon DEF Stored, Ring
  <2> HIDE DEF n
  <2>2. n.nwrite \in Numbers /\ n.sent \in Numbers
    BY <1>3, <1>4, Zenon
  <2> QED
    BY <1>6, <2>1, <2>2, Zenon DEF Ring
<1> HIDE DEF n
<1>8. Count(n) = c + m /\ (n.sent - n.got) % WRAP = c + m
  <2> HIDE DEF c
  <2>1. (((r.nwrite + m) % WRAP) - r.nread) % WRAP = c + m
    BY <1>1, <1>2, AdvanceFirst
  <2>2. (((r.sent + m) % WRAP) - r.got) % WRAP = c + m
    BY <1>1, <1>2, AdvanceFirst
  <2> QED
    BY <2>1, <2>2, <1>4, Zenon DEF Count
<1>9. Cong(r.nwrite, r.nread + c, WRAP) /\ Cong(r.sent, r.got + c, WRAP) /\ r.nread + c \in Int /\ r.got + c \in Int
  <2>1. Cong(r.nread, r.nread, WRAP) /\ Cong(r.got, r.got, WRAP)
    BY <1>1, CongRefl, Moduli, Zenon
  <2>2. r.nwrite - r.nread \in Int /\ r.sent - r.got \in Int
    BY <1>1
  <2>3. /\ Cong(r.nread + (r.nwrite - r.nread), r.nread + c, WRAP)
        /\ Cong(r.got + (r.sent - r.got), r.got + c, WRAP)
    BY <1>1, <1>2, <2>1, <2>2, CongAdd, Moduli, Zenon
  <2>4. /\ r.nread + (r.nwrite - r.nread) = r.nwrite /\ r.got + (r.sent - r.got) = r.sent
        /\ r.nread + c \in Int /\ r.got + c \in Int
    BY <1>1, <1>2
  <2> QED
    BY <2>3, <2>4, Zenon
<1>10. \A i \in Int : Cell(r, i) = (r.nread + (c + i)) % PIPESIZE /\ (r.sent + i) % WRAP = (r.got + (c + i)) % WRAP
  <2>1. TAKE i \in Int
  <2> HIDE DEF c
  <2>2. Cell(r, i) = ((r.nread + c) + i) % PIPESIZE
    BY <1>1, <1>9, SameCell DEF Cell
  <2>4. (r.sent + i) % WRAP = ((r.got + c) + i) % WRAP
    BY <1>1, <1>9, SameCell
  <2>3. (r.nread + c) + i = r.nread + (c + i) /\ (r.got + c) + i = r.got + (c + i)
    BY <1>1, <1>2
  <2> QED
    BY <2>2, <2>3, <2>4, Zenon
<1>11. ASSUME NEW j \in 0 .. Count(n) - 1
       PROVE  n.data[(n.nread + j) % PIPESIZE] = (n.got + j) % WRAP
  <2> DEFINE x == (r.nread + j) % PIPESIZE
  <2>1. j \in Int /\ 0 <= j /\ j < c + m
    BY <1>2, <1>8
  <2>2. x \in 0 .. PIPESIZE - 1
    <3>1. r.nread + j \in Int
      BY <1>1, <2>1
    <3> QED
      BY <3>1, CongMod, Moduli, Zenon
  <2>3. \A i \in 0 .. m - 1 : Cell(r, i) = x => c + i = j
    <3>1. TAKE i \in 0 .. m - 1
    <3>2. i \in Int /\ c + i \in Int /\ (c + i) - j < PIPESIZE /\ j - (c + i) < PIPESIZE
      BY <1>1, <1>2, <2>1, Moduli
    <3>3. Cell(r, i) = x => (r.nread + (c + i)) % PIPESIZE = (r.nread + j) % PIPESIZE
      BY <1>10, <3>2, Zenon
    <3> QED
      BY <1>1, <2>1, <3>2, <3>3, OtherCell, Zenon
  <2> HIDE DEF x
  <2>4. CASE j < c
    <3>1. ~ \E i \in 0 .. m - 1 : Cell(r, i) = x
      BY <1>1, <1>2, <2>1, <2>3, <2>4
    <3>2. n.data[x] = r.data[x]
      BY <1>4, <2>2, <3>1, Zenon
    <3>3. j \in 0 .. c - 1
      BY <1>1, <2>1, <2>4
    <3>4. r.data[x] = (r.got + j) % WRAP
      BY <3>3, Zenon DEF Intact, x
    <3> QED
      BY <1>4, <3>2, <3>4, Zenon DEF x
  <2>5. CASE c <= j
    <3>1. j - c \in 0 .. m - 1 /\ j - c \in Int /\ c + (j - c) = j
      BY <1>1, <1>2, <2>1, <2>5
    <3>2. Cell(r, j - c) = x /\ (r.sent + (j - c)) % WRAP = (r.got + j) % WRAP
      BY <1>10, <3>1, Zenon DEF x
    <3>3. \E i \in 0 .. m - 1 : Cell(r, i) = x
      BY <3>1, <3>2, Zenon
    <3>4. At(x) \in 0 .. m - 1 /\ Cell(r, At(x)) = x
      BY <1>5, <3>3, Zenon
    <3>5. c + At(x) = j
      BY <2>3, <3>4, Zenon
    <3>6. At(x) = j - c
      BY <1>1, <1>2, <3>4, <3>5
    <3>7. n.data[x] = (r.sent + (j - c)) % WRAP
      <4>1. n.data[x] = (r.sent + At(x)) % WRAP
        BY <1>4, <2>2, <3>3, Zenon
      <4> QED
        BY <4>1, <3>6, Zenon
    <3> QED
      BY <1>4, <3>2, <3>7, Zenon DEF x
  <2> QED
    BY <1>1, <2>1, <2>4, <2>5
<1>12. Count(n) <= PIPESIZE
  BY <1>2, <1>8, Zenon
<1>13. Intact(n)
  BY <1>8, <1>11, <1>12, Zenon DEF Intact
<1> QED
  BY <1>4, <1>7, <1>8, <1>13, Zenon DEF n

\* A step of pipewrite() or piperead() leaves the ends of the pipe open, and
\* whoever it wakes goes on with its own call.
LEMMA RingStep ==
  ASSUME Inv, NEW p \in Procs, pc[p] = "io", NEW k \in Pages, NEW new \in Ring, Intact(new),
         new.used = pipe[k].used, new.readopen = pipe[k].readopen, new.writeopen = pipe[k].writeopen,
         pipe' \in [Pages -> Ring], pipe'[k] = new, \A j \in Pages : j # k => pipe'[j] = pipe[j],
         pc' \in [Procs -> Labels], pc'[p] \in {"user", "sleep"},
         \A q \in Procs : q # p => pc'[q] = pc[q] \/ (pc'[q] = "io" /\ pc[q] = "asleep"),
         io' \in [Procs -> IORec], \A q \in Procs : q # p => io'[q] = io[q],
         pc'[p] = "sleep" => io'[p].pipe = io[p].pipe /\ io'[p].writable = io[p].writable,
         UNCHANGED <<file, ofile, killed, mine, child>>, Sleepers'
  PROVE  Inv'
<1> USE DEF Inv
<1>1. file' = file /\ ofile' = ofile /\ killed' = killed /\ mine' = mine /\ child' = child
  BY Zenon
<1>2. pipe' \in [Pages -> Ring] /\ pipe'[k] = new /\ \A j \in Pages : j # k => pipe'[j] = pipe[j]
  BY Zenon
<1>3. Types'
  BY <1>1, <1>2, Zenon DEF Types
<1>4. RefsCounted'
  BY <1>1, RefsKept, Zenon
<1>5. Rings'
  <2>1. \A j \in Pages : Intact(pipe'[j])
    BY <1>2, RingsAre, Zenon
  <2> QED
    BY <2>1, Zenon DEF Rings, RingIntact, Intact, Count
<1>6. Held'
  <2>1. \A q \in Procs : \/ pc'[q] = pc[q]
                         \/ pc[q] \notin InCall /\ pc'[q] \notin InCall \ {"filealloc"}
    BY Zenon DEF InCall
  <2> QED
    BY <1>1, <2>1, HeldKept, Zenon
<1>7. Forks'
  <2>1. \A q \in Procs : \/ pc'[q] = pc[q]
                         \/ pc[q] \notin {"fork", "embryo", "unused"} /\ pc'[q] \notin {"fork", "embryo", "unused"}
    BY Zenon
  <2> QED
    BY <1>1, <2>1, ForksKept, Zenon
<1>8. Represented'
  <2>1. \A q \in Procs : /\ pc'[q] = "pipeclose" <=> pc[q] = "pipeclose"
                         /\ pc[q] = "pipeclose" => io'[q].pipe = io[q].pipe /\ io'[q].writable = io[q].writable
    BY Zenon
  <2>2. \A j \in Pages : /\ pipe'[j].used = pipe[j].used
                         /\ pipe'[j].readopen = pipe[j].readopen /\ pipe'[j].writeopen = pipe[j].writeopen
    BY <1>2, Zenon
  <2> QED
    BY <1>1, <2>1, <2>2, RepresentedKept, Zenon
<1>9. Using'
  <2>1. \A q \in Procs : pc'[q] \in InIO =>
          pc[q] \in InIO /\ io'[q].pipe = io[q].pipe /\ io'[q].writable = io[q].writable
    BY Zenon DEF InIO
  <2> QED
    BY <1>1, <2>1, UsingKept, Zenon
<1> QED
  BY <1>3, <1>4, <1>5, <1>6, <1>7, <1>8, <1>9, Zenon

\* What a process goes on with that sleeps neither before nor after
LEMMA SleepersOn ==
  ASSUME Sleepers, NEW p \in Procs, NEW k \in Pages, k = io[p].pipe, NEW new,
         pipe'[k] = new, \A j \in Pages : j # k => pipe'[j] = pipe[j],
         \A q \in Procs : q # p => io'[q] = io[q],
         \A q \in Procs : q # p => pc'[q] = pc[q] \/ (pc'[q] = "io" /\ pc[q] = "asleep"),
         \A q \in Procs : q # p /\ pc'[q] \in {"sleep", "asleep"} => io[q].pipe \in Pages,
         pc'[p] \in {"sleep", "asleep"} => Waits(p)',
         \A q \in Procs : q # p /\ pc'[q] \in {"sleep", "asleep"} /\ io[q].pipe = k =>
           IF io[q].writable THEN new.readopen /\ Room(new) = 0
           ELSE new.writeopen /\ (Count(new) = 0 \/ new.mute)
  PROVE  Sleepers'
<1> SUFFICES ASSUME NEW q \in Procs, pc'[q] \in {"sleep", "asleep"}
             PROVE  Waits(q)'
  BY Zenon DEF Sleepers
<1>1. CASE q = p
  BY <1>1, Zenon
<1>2. CASE q # p /\ io[q].pipe = k
  <2>1. io'[q] = io[q] /\ pipe'[k] = new
    BY <1>2, Zenon
  <2> QED
    BY <1>2, <2>1, SMTT(30) DEF Waits, Count, Room
<1>3. CASE q # p /\ io[q].pipe # k
  <2>1. io'[q] = io[q] /\ pipe'[io[q].pipe] = pipe[io[q].pipe] /\ pc[q] \in {"sleep", "asleep"}
    BY <1>3, Zenon
  <2>2. Waits(q)
    BY <2>1, Zenon DEF Sleepers
  <2> QED
    BY <2>1, <2>2, Zenon DEF Waits, Count, Room
<1> QED
  BY <1>1, <1>2, <1>3, Zenon

\* Whether readers know of the last bytes does not matter to the ring.
Muted(r, b) == [r EXCEPT !.mute = b]

\* Setting or clearing the mark leaves the bytes and the counters of the ring alone.
LEMMA MutedIntact ==
  ASSUME NEW r \in Ring, Intact(r), NEW b \in BOOLEAN
  PROVE  /\ Muted(r, b) \in Ring /\ Intact(Muted(r, b)) /\ Count(Muted(r, b)) = Count(r)
         /\ Muted(r, b).used = r.used /\ Muted(r, b).readopen = r.readopen
         /\ Muted(r, b).writeopen = r.writeopen /\ Muted(r, b).mute = b
<1> DEFINE n == Muted(r, b)
<1>1. /\ n.nread = r.nread /\ n.nwrite = r.nwrite /\ n.sent = r.sent /\ n.got = r.got /\ n.data = r.data
      /\ n.used = r.used /\ n.readopen = r.readopen /\ n.writeopen = r.writeopen /\ n.mute = b
  BY Zenon DEF Muted, Ring
<1>2. n \in Ring
  BY Zenon DEF Muted, Ring
<1> HIDE DEF n
<1>3. Count(n) = Count(r)
  BY <1>1, Zenon DEF Count
<1>4. Intact(n)
  BY <1>1, <1>3, Zenon DEF Intact
<1> QED
  BY <1>1, <1>2, <1>3, <1>4, Zenon DEF n

\* pipewrite() stores what there is room for.  A writer that sleeps finds the ring
\* full still, since then nothing was stored; a reader that is not woken is in the
\* exception, or nothing was stored for it.
LEMMA pipewriteInv ==
  ASSUME Inv, NEW p \in Procs, pipewrite(p)
  PROVE  Inv'
<1> USE DEF Inv
<1>1. pc[p] = "io" /\ io[p].writable
  BY Zenon DEF pipewrite
<1>2. PICK k \in Pages : k = io[p].pipe
  BY <1>1, Zenon DEF Using, InIO
<1> DEFINE r == pipe[k]
           n == io[p].n
           m == IF n <= Room(r) THEN n ELSE Room(r)
           new == Stored(r, m)
<1>3. r \in Ring /\ Intact(r) /\ pipe \in [Pages -> Ring] /\ r.mute \in BOOLEAN
  BY RingsAre, Zenon DEF Types, Ring
<1>4. n \in Nat /\ io[p] \in IORec /\ io \in [Procs -> IORec]
  BY Zenon DEF Types, IORec
<1> HIDE DEF r, n
<1>5. Count(r) \in 0 .. PIPESIZE
  BY <1>3, Apart, Zenon
<1>6. m \in 0 .. Room(r) /\ (m # n => m = Room(r)) /\ Room(r) = PIPESIZE - Count(r)
  BY <1>4, <1>5, Moduli DEF Room
<1> HIDE DEF m
<1>7. /\ new \in Ring /\ Intact(new) /\ Count(new) = Count(r) + m
      /\ new.used = r.used /\ new.readopen = r.readopen /\ new.writeopen = r.writeopen
  BY <1>3, <1>6, StoredIntact, Zenon
<1> HIDE DEF new
<1>8. /\ ~ Locked(k) /\ file' = file /\ ofile' = ofile /\ killed' = killed /\ mine' = mine /\ child' = child
      /\ IF m = n
         THEN /\ pipe' = [pipe EXCEPT ![k] = Muted(new, FALSE)]
              /\ pc' = wakeup([pc EXCEPT ![p] = "user"], k, FALSE)
              /\ io' = [io EXCEPT ![p] = NoIO]
         ELSE IF ~ r.readopen \/ killed[p]
         THEN /\ pipe' = [pipe EXCEPT ![k] = Muted(new, r.mute \/ m > 0)]
              /\ Goto(p, "user") /\ io' = [io EXCEPT ![p] = NoIO]
         ELSE /\ pipe' = [pipe EXCEPT ![k] = Muted(new, FALSE)]
              /\ pc' = wakeup([pc EXCEPT ![p] = "sleep"], k, FALSE)
              /\ io' = [io EXCEPT ![p].n = io[p].n - m]
  BY <1>2, Zenon DEF pipewrite, r, n, m, new, Muted
\* Whoever sleeps on this pipe
<1>9. ASSUME NEW q \in Procs, pc[q] \in {"sleep", "asleep"}
      PROVE  /\ io[q].pipe \in Pages
             /\ io[q].pipe = k => /\ pc[q] = "asleep"
                                  /\ IF io[q].writable THEN r.readopen /\ Room(r) = 0
                                     ELSE r.writeopen /\ (Count(r) = 0 \/ r.mute)
  <2>1. io[q].pipe \in Pages
    BY <1>9, Zenon DEF Using, InIO
  <2>2. io[q].pipe = k => pc[q] = "asleep"
    BY <1>8, <1>9, Zenon DEF Locked
  <2>3. Waits(q)
    BY <1>9, Zenon DEF Sleepers
  <2>4. io[q].pipe = k => IF io[q].writable THEN r.readopen /\ Room(r) = 0
                          ELSE r.writeopen /\ (Count(r) = 0 \/ r.mute)
    BY <2>3, Zenon DEF Waits, r
  <2> QED
    BY <2>1, <2>2, <2>4, Zenon
\* A writer asleep on it
<1>10. Room(r) = 0 => m = 0 /\ Count(new) = Count(r)
  BY <1>5, <1>6, <1>7
<1>11. CASE (m = n \/ ~ (~ r.readopen \/ killed[p]))
  <2> DEFINE ring == Muted(new, FALSE)
  <2>0. PICK l \in {"user", "sleep"} : l = IF m = n THEN "user" ELSE "sleep"
    BY Zenon
  <2>1. /\ ring \in Ring /\ Intact(ring) /\ Count(ring) = Count(new) /\ ring.used = r.used
        /\ ring.readopen = r.readopen /\ ring.writeopen = r.writeopen
    BY <1>7, MutedIntact, Zenon
  <2>2. pipe' = [pipe EXCEPT ![k] = ring] /\ pc' = wakeup([pc EXCEPT ![p] = l], k, FALSE)
    BY <1>8, <1>11, <2>0, Zenon
  <2> HIDE DEF ring
  <2>10. pipe' \in [Pages -> Ring] /\ pipe'[k] = ring /\ \A j \in Pages : j # k => pipe'[j] = pipe[j]
    BY <1>3, <2>1, <2>2, Zenon
  <2>3. /\ io' \in [Procs -> IORec] /\ \A q \in Procs : q # p => io'[q] = io[q]
        /\ l = "sleep" => io'[p].pipe = io[p].pipe /\ io'[p].writable = io[p].writable
    <3>1. CASE m = n
      BY <1>4, <1>8, <2>0, <3>1, NoIOIs, Zenon
    <3>2. CASE m # n
      <4>1. io' = [io EXCEPT ![p] = [io[p] EXCEPT !.n = n - m]]
        BY <1>8, <1>11, <3>2, Zenon DEF n
      <4>2. n - m \in Nat
        BY <1>4, <1>5, <1>6, <3>2, Moduli DEF m
      <4>3. [io[p] EXCEPT !.n = n - m] \in IORec
        BY <1>4, <4>2, Zenon DEF IORec
      <4>4. [io[p] EXCEPT !.n = n - m].pipe = io[p].pipe /\ [io[p] EXCEPT !.n = n - m].writable = io[p].writable
        BY <1>4, Zenon DEF IORec
      <4> QED
        BY <1>4, <4>1, <4>3, <4>4, Zenon
    <3> QED
      BY <3>1, <3>2, Zenon
  <2>4. /\ pc' \in [Procs -> Labels] /\ pc'[p] = l
        /\ \A q \in Procs : q # p =>
             /\ pc[q] = "asleep" /\ io[q].pipe = k /\ io[q].writable = FALSE => pc'[q] = "io"
             /\ pc'[q] = pc[q] \/ (pc'[q] = "io" /\ pc[q] = "asleep")
    <3> DEFINE now == [pc EXCEPT ![p] = l]
    <3>1. now \in [Procs -> Labels] /\ now[p] = l /\ l # "asleep" /\ \A q \in Procs : q # p => now[q] = pc[q]
      BY <2>0, Zenon DEF Types, Labels
    <3>2. pc' = wakeup(now, k, FALSE)
      BY <2>2, Zenon
    <3> HIDE DEF now
    <3>3. /\ pc' \in [Procs -> Labels]
          /\ \A q \in Procs : /\ now[q] = "asleep" /\ io[q].pipe = k /\ io[q].writable = FALSE => pc'[q] = "io"
                              /\ pc'[q] = now[q] \/ (pc'[q] = "io" /\ now[q] = "asleep")
      BY <3>1, <3>2, WakeupIs, Zenon
    <3> QED
      BY <3>1, <3>3, Zenon
  <2>5. \A q \in Procs : q # p /\ pc'[q] \in {"sleep", "asleep"} => pc[q] \in {"sleep", "asleep"} /\ pc'[q] = pc[q]
    BY <2>4, Zenon
  <2>6. \A q \in Procs : q # p /\ pc'[q] \in {"sleep", "asleep"} /\ io[q].pipe = k =>
           IF io[q].writable THEN ring.readopen /\ Room(ring) = 0
           ELSE ring.writeopen /\ (Count(ring) = 0 \/ ring.mute)
    <3> SUFFICES ASSUME NEW q \in Procs, q # p, pc'[q] \in {"sleep", "asleep"}, io[q].pipe = k
                 PROVE  io[q].writable /\ ring.readopen /\ Room(ring) = 0
      BY Zenon
    <3>1. pc[q] = "asleep" /\ pc'[q] = "asleep"
      BY <1>9, <2>5, Zenon
    <3>2. io[q].writable \in BOOLEAN /\ io[q].writable # FALSE
      BY <2>4, <3>1, Zenon DEF Types, IORec
    <3>3. r.readopen /\ Room(r) = 0
      BY <1>9, <3>1, <3>2, Zenon
    <3> QED
      BY <1>10, <2>1, <3>2, <3>3, Zenon DEF Room
  <2>7. pc'[p] \in {"sleep", "asleep"} => Waits(p)'
    <3> SUFFICES ASSUME l = "sleep" PROVE Waits(p)'
      BY <2>4, Zenon
    <3>1. m # n /\ r.readopen
      BY <1>11, <2>0, Zenon
    <3>2. Room(ring) = 0
      BY <1>5, <1>6, <1>7, <2>1, <3>1, Moduli DEF Room
    <3>3. io'[p].pipe = k /\ io'[p].writable /\ pipe'[k] = ring
      BY <1>1, <1>2, <1>3, <2>2, <2>3, Zenon
    <3> QED
      BY <2>1, <3>1, <3>2, <3>3, Zenon DEF Waits, Room, Count
  <2>8. Sleepers'
    <3>1. \A q \in Procs : q # p /\ pc'[q] \in {"sleep", "asleep"} => io[q].pipe \in Pages
      BY <1>9, <2>5, Zenon
    <3>2. \A q \in Procs : q # p => pc'[q] = pc[q] \/ (pc'[q] = "io" /\ pc[q] = "asleep")
      BY <2>4, Zenon
    <3> QED
      BY <1>2, <2>3, <2>6, <2>7, <2>10, <3>1, <3>2, SleepersOn
  <2>9. /\ ring.used = pipe[k].used /\ ring.readopen = pipe[k].readopen /\ ring.writeopen = pipe[k].writeopen
        /\ pc'[p] \in {"user", "sleep"}
        /\ \A q \in Procs : q # p => pc'[q] = pc[q] \/ (pc'[q] = "io" /\ pc[q] = "asleep")
        /\ pc'[p] = "sleep" => io'[p].pipe = io[p].pipe /\ io'[p].writable = io[p].writable
        /\ UNCHANGED <<file, ofile, killed, mine, child>>
    BY <1>8, <2>0, <2>1, <2>3, <2>4, Zenon DEF r
  <2> QED
    BY <1>1, <2>1, <2>3, <2>4, <2>8, <2>9, <2>10, RingStep, Zenon
<1>12. CASE m # n /\ (~ r.readopen \/ killed[p])
  <2> DEFINE b == r.mute \/ m > 0
             ring == Muted(new, b)
  <2>1. b \in BOOLEAN
    BY <1>3, Zenon
  <2>2. /\ ring \in Ring /\ Intact(ring) /\ Count(ring) = Count(new) /\ ring.used = r.used
        /\ ring.readopen = r.readopen /\ ring.writeopen = r.writeopen /\ ring.mute = b
    BY <1>7, <2>1, MutedIntact, Zenon
  <2>3. /\ pipe' = [pipe EXCEPT ![k] = ring] /\ pc' = [pc EXCEPT ![p] = "user"]
        /\ io' = [io EXCEPT ![p] = NoIO]
    BY <1>8, <1>12, Zenon DEF Goto
  <2> HIDE DEF ring
  <2>10. pipe' \in [Pages -> Ring] /\ pipe'[k] = ring /\ \A j \in Pages : j # k => pipe'[j] = pipe[j]
    BY <1>3, <2>2, <2>3, Zenon
  <2>4. io' \in [Procs -> IORec] /\ \A q \in Procs : q # p => io'[q] = io[q]
    BY <1>4, <2>3, NoIOIs, Zenon
  <2>5. pc' \in [Procs -> Labels] /\ pc'[p] = "user" /\ \A q \in Procs : q # p => pc'[q] = pc[q]
    BY <2>3, Zenon DEF Types, Labels
  <2>6. \A q \in Procs : q # p /\ pc'[q] \in {"sleep", "asleep"} /\ io[q].pipe = k =>
           IF io[q].writable THEN ring.readopen /\ Room(ring) = 0
           ELSE ring.writeopen /\ (Count(ring) = 0 \/ ring.mute)
    <3> SUFFICES ASSUME NEW q \in Procs, q # p, pc'[q] \in {"sleep", "asleep"}, io[q].pipe = k
                 PROVE  IF io[q].writable THEN ring.readopen /\ Room(ring) = 0
                        ELSE ring.writeopen /\ (Count(ring) = 0 \/ ring.mute)
      BY Zenon
    <3>1. IF io[q].writable THEN r.readopen /\ Room(r) = 0 ELSE r.writeopen /\ (Count(r) = 0 \/ r.mute)
      BY <1>9, <2>5, Zenon
    <3>2. CASE io[q].writable
      BY <1>10, <2>2, <3>1, <3>2 DEF Room
    <3>3. CASE ~ io[q].writable
      <4>1. r.writeopen /\ (Count(r) = 0 \/ r.mute)
        BY <3>1, <3>3, Zenon
      <4>2. m > 0 \/ m = 0
        BY <1>5, <1>6, Moduli
      <4>3. m = 0 => Count(new) = Count(r)
        BY <1>5, <1>7
      <4> QED
        BY <2>2, <3>3, <4>1, <4>2, <4>3, Zenon
    <3> QED
      BY <3>2, <3>3, Zenon
  <2>7. Sleepers'
    <3>1. \A q \in Procs : q # p /\ pc'[q] \in {"sleep", "asleep"} => io[q].pipe \in Pages
      BY <1>9, <2>5, Zenon
    <3>2. pc'[p] \in {"sleep", "asleep"} => Waits(p)'
      BY <2>5, Zenon
    <3> QED
      BY <1>2, <2>4, <2>5, <2>6, <2>10, <3>1, <3>2, SleepersOn
  <2>8. /\ ring.used = pipe[k].used /\ ring.readopen = pipe[k].readopen /\ ring.writeopen = pipe[k].writeopen
        /\ pc'[p] \in {"user", "sleep"}
        /\ \A q \in Procs : q # p => pc'[q] = pc[q] \/ (pc'[q] = "io" /\ pc[q] = "asleep")
        /\ pc'[p] = "sleep" => io'[p].pipe = io[p].pipe /\ io'[p].writable = io[p].writable
        /\ UNCHANGED <<file, ofile, killed, mine, child>>
    BY <1>8, <2>2, <2>5, Zenon DEF r
  <2> QED
    BY <1>1, <2>2, <2>4, <2>5, <2>7, <2>8, <2>10, RingStep, Zenon
<1> QED
  BY <1>11, <1>12, Zenon

\* piperead() takes what there is.  A reader that still sleeps then is in the
\* exception: there were bytes, so nobody had told it.
LEMMA pipereadInv ==
  ASSUME Inv, NEW p \in Procs, piperead(p)
  PROVE  Inv'
<1> USE DEF Inv
<1>1. pc[p] = "io" /\ ~ io[p].writable
  BY Zenon DEF piperead
<1>2. PICK k \in Pages : k = io[p].pipe
  BY <1>1, Zenon DEF Using, InIO
<1> DEFINE r == pipe[k]
           n == io[p].n
           m == IF n <= Count(r) THEN n ELSE Count(r)
           new == Taken(r, m)
<1>3. r \in Ring /\ Intact(r) /\ pipe \in [Pages -> Ring]
  BY RingsAre, Zenon DEF Types, Ring
<1>4. n \in Nat /\ io[p] \in IORec /\ io \in [Procs -> IORec] /\ pc \in [Procs -> Labels]
  BY Zenon DEF Types, IORec
<1> HIDE DEF r, n
<1>5. Count(r) \in 0 .. PIPESIZE
  BY <1>3, Apart, Zenon
<1>6. m \in 0 .. Count(r)
  BY <1>4, <1>5, Moduli
<1> HIDE DEF m
<1>7. /\ new \in Ring /\ Intact(new) /\ new.used = r.used /\ new.readopen = r.readopen
      /\ new.writeopen = r.writeopen /\ new.mute = r.mute
  BY <1>3, <1>6, TakenIntact, Zenon
<1> HIDE DEF new
<1>8. /\ ~ Locked(k) /\ file' = file /\ ofile' = ofile /\ killed' = killed /\ mine' = mine /\ child' = child
      /\ IF Count(r) = 0 /\ r.writeopen
         THEN IF killed[p] THEN Goto(p, "user") /\ io' = [io EXCEPT ![p] = NoIO] /\ pipe' = pipe
              ELSE Goto(p, "sleep") /\ io' = io /\ pipe' = pipe
         ELSE /\ pipe' = [pipe EXCEPT ![k] = new]
              /\ pc' = wakeup([pc EXCEPT ![p] = "user"], k, TRUE)
              /\ io' = [io EXCEPT ![p] = NoIO]
  BY <1>2, Zenon DEF piperead, r, n, m, new
<1>9. ASSUME NEW q \in Procs, pc[q] \in {"sleep", "asleep"}
      PROVE  /\ io[q].pipe \in Pages
             /\ io[q].pipe = k => /\ pc[q] = "asleep"
                                  /\ ~ io[q].writable => r.writeopen /\ (Count(r) = 0 \/ r.mute)
  <2>1. io[q].pipe \in Pages
    BY <1>9, Zenon DEF Using, InIO
  <2>2. io[q].pipe = k => pc[q] = "asleep"
    BY <1>8, <1>9, Zenon DEF Locked
  <2>3. Waits(q)
    BY <1>9, Zenon DEF Sleepers
  <2>4. io[q].pipe = k /\ ~ io[q].writable => r.writeopen /\ (Count(r) = 0 \/ r.mute)
    BY <2>3, Zenon DEF Waits, r
  <2> QED
    BY <2>1, <2>2, <2>4, Zenon
\* An empty ring: the reader leaves or sleeps.
<1>10. CASE Count(r) = 0 /\ r.writeopen
  <2>0. PICK l \in {"user", "sleep"} : l = IF killed[p] THEN "user" ELSE "sleep"
    BY Zenon
  <2>1. pipe' = pipe /\ pc' = [pc EXCEPT ![p] = l] /\ (l = "sleep" => io' = io)
        /\ (l # "sleep" => io' = [io EXCEPT ![p] = NoIO])
    BY <1>8, <1>10, <2>0, Zenon DEF Goto
  <2>2. io' \in [Procs -> IORec] /\ \A q \in Procs : q # p => io'[q] = io[q]
    BY <1>4, <2>1, NoIOIs, Zenon
  <2>3. pc' \in [Procs -> Labels] /\ pc'[p] = l /\ \A q \in Procs : q # p => pc'[q] = pc[q]
    BY <1>4, <2>1, Zenon DEF Labels
  <2>4. pipe' \in [Pages -> Ring] /\ pipe'[k] = r /\ \A j \in Pages : j # k => pipe'[j] = pipe[j]
    BY <1>3, <2>1, Zenon DEF r
  <2>5. Sleepers'
    <3> SUFFICES ASSUME NEW q \in Procs, pc'[q] \in {"sleep", "asleep"} PROVE Waits(q)'
      BY Zenon DEF Sleepers
    <3>1. CASE q = p
      <4>1. io' = io
        BY <2>1, <2>3, <3>1, Zenon
      <4> QED
        BY <1>1, <1>2, <1>10, <2>4, <3>1, <4>1, Zenon DEF Waits, Count
    <3>2. CASE q # p
      <4>1. Waits(q) /\ io'[q] = io[q]
        BY <2>2, <2>3, <3>2, Zenon DEF Sleepers
      <4> QED
        BY <2>1, <4>1, Zenon DEF Waits, Count, Room
    <3> QED
      BY <3>1, <3>2, Zenon
  <2>6. /\ r.used = pipe[k].used /\ r.readopen = pipe[k].readopen /\ r.writeopen = pipe[k].writeopen
        /\ pc'[p] \in {"user", "sleep"}
        /\ \A q \in Procs : q # p => pc'[q] = pc[q] \/ (pc'[q] = "io" /\ pc[q] = "asleep")
        /\ pc'[p] = "sleep" => io'[p].pipe = io[p].pipe /\ io'[p].writable = io[p].writable
        /\ UNCHANGED <<file, ofile, killed, mine, child>>
    BY <1>8, <2>1, <2>3, Zenon DEF r
  <2> QED
    BY <1>1, <1>3, <2>2, <2>3, <2>4, <2>5, <2>6, RingStep, Zenon
\* Bytes, or the end of the file
<1>11. CASE ~ (Count(r) = 0 /\ r.writeopen)
  <2>1. /\ pipe' = [pipe EXCEPT ![k] = new] /\ pc' = wakeup([pc EXCEPT ![p] = "user"], k, TRUE)
        /\ io' = [io EXCEPT ![p] = NoIO]
    BY <1>8, <1>11, Zenon
  <2>2. io' \in [Procs -> IORec] /\ \A q \in Procs : q # p => io'[q] = io[q]
    BY <1>4, <2>1, NoIOIs, Zenon
  <2>3. pipe' \in [Pages -> Ring] /\ pipe'[k] = new /\ \A j \in Pages : j # k => pipe'[j] = pipe[j]
    BY <1>3, <1>7, <2>1, Zenon
  <2>4. /\ pc' \in [Procs -> Labels] /\ pc'[p] = "user"
        /\ \A q \in Procs : q # p =>
             /\ pc[q] = "asleep" /\ io[q].pipe = k /\ io[q].writable = TRUE => pc'[q] = "io"
             /\ pc'[q] = pc[q] \/ (pc'[q] = "io" /\ pc[q] = "asleep")
    <3> DEFINE now == [pc EXCEPT ![p] = "user"]
    <3>1. now \in [Procs -> Labels] /\ now[p] = "user" /\ \A q \in Procs : q # p => now[q] = pc[q]
      BY <1>4, Zenon DEF Labels
    <3>2. pc' = wakeup(now, k, TRUE)
      BY <2>1, Zenon
    <3> HIDE DEF now
    <3>3. /\ pc' \in [Procs -> Labels]
          /\ \A q \in Procs : /\ now[q] = "asleep" /\ io[q].pipe = k /\ io[q].writable = TRUE => pc'[q] = "io"
                              /\ pc'[q] = now[q] \/ (pc'[q] = "io" /\ now[q] = "asleep")
      BY <3>1, <3>2, WakeupIs, Zenon
    <3> QED
      BY <3>1, <3>3, Zenon
  <2>5. \A q \in Procs : q # p /\ pc'[q] \in {"sleep", "asleep"} => pc[q] \in {"sleep", "asleep"} /\ pc'[q] = pc[q]
    BY <2>4, Zenon
  <2>6. \A q \in Procs : q # p /\ pc'[q] \in {"sleep", "asleep"} /\ io[q].pipe = k =>
           IF io[q].writable THEN new.readopen /\ Room(new) = 0
           ELSE new.writeopen /\ (Count(new) = 0 \/ new.mute)
    <3> SUFFICES ASSUME NEW q \in Procs, q # p, pc'[q] \in {"sleep", "asleep"}, io[q].pipe = k
                 PROVE  ~ io[q].writable /\ new.writeopen /\ new.mute
      BY Zenon
    <3>1. pc[q] = "asleep" /\ pc'[q] = "asleep"
      BY <1>9, <2>5, Zenon
    <3>2. io[q].writable \in BOOLEAN /\ io[q].writable # TRUE
      BY <2>4, <3>1, Zenon DEF Types, IORec
    <3>3. r.writeopen /\ (Count(r) = 0 \/ r.mute)
      BY <1>9, <3>1, <3>2, Zenon
    <3> QED
      BY <1>7, <1>11, <3>2, <3>3, Zenon
  <2>7. Sleepers'
    <3>1. \A q \in Procs : q # p /\ pc'[q] \in {"sleep", "asleep"} => io[q].pipe \in Pages
      BY <1>9, <2>5, Zenon
    <3>2. \A q \in Procs : q # p => pc'[q] = pc[q] \/ (pc'[q] = "io" /\ pc[q] = "asleep")
      BY <2>4, Zenon
    <3>3. pc'[p] \in {"sleep", "asleep"} => Waits(p)'
      BY <2>4, Zenon
    <3> QED
      BY <1>2, <2>2, <2>3, <2>6, <3>1, <3>2, <3>3, SleepersOn
  <2>8. /\ new.used = pipe[k].used /\ new.readopen = pipe[k].readopen /\ new.writeopen = pipe[k].writeopen
        /\ pc'[p] \in {"user", "sleep"}
        /\ \A q \in Procs : q # p => pc'[q] = pc[q] \/ (pc'[q] = "io" /\ pc[q] = "asleep")
        /\ pc'[p] = "sleep" => io'[p].pipe = io[p].pipe /\ io'[p].writable = io[p].writable
        /\ UNCHANGED <<file, ofile, killed, mine, child>>
    BY <1>7, <1>8, <2>4, Zenon DEF r
  <2> QED
    BY <1>1, <1>7, <2>2, <2>3, <2>4, <2>7, <2>8, RingStep
<1> QED
  BY <1>10, <1>11, Zenon

------------------------------------------------------------------------------
(* Theorems                                                                 *)

\* Every step of the specification keeps the invariant.
LEMMA NextInv ==
  ASSUME Countable, Inv, [Next]_vars
  PROVE  Inv'
<1>1. ASSUME NEW p \in Procs, Call(p) PROVE Inv'
  BY <1>1, sys_pipeInv, sys_dupInv, sys_closeInv, transferInv, forkInv, killInv, Zenon DEF Call
<1>2. ASSUME NEW p \in Procs, Step(p) PROVE Inv'
  BY <1>2, fileallocInv, pipeallocInv, filecloseInv, pipecloseInv, pipewriteInv, pipereadInv, sleepInv,
     filedupInv, exitInv, Zenon DEF Step
<1>3. ASSUME UNCHANGED vars PROVE Inv'
  <2>1. /\ file' = file /\ pipe' = pipe /\ ofile' = ofile /\ pc' = pc /\ killed' = killed /\ mine' = mine
        /\ io' = io /\ child' = child
    BY <1>3, Zenon DEF vars
  <2>2. Types'
    BY <2>1, Zenon DEF Inv, Types
  <2>3. RefsCounted' /\ Rings'
    BY <2>1, RefsKept, RingsKept, Zenon DEF Inv
  <2>4. Held' /\ Forks'
    BY <2>1, HeldKept, ForksKept, Zenon DEF Inv
  <2>5. Represented'
    BY <2>1, RepresentedKept, Zenon DEF Inv
  <2>6. Using' /\ Sleepers'
    BY <2>1, UsingKept, SleepersKept, Zenon DEF Inv
  <2> QED
    BY <2>2, <2>3, <2>4, <2>5, <2>6, Zenon DEF Inv
<1> QED
  BY <1>1, <1>2, <1>3, Zenon DEF Next

INSTANCE FiniteSetTheorems

\* The places are finitely many, so that sets of them have a size.
LEMMA PlacesCountable == Countable
<1>1. IsFiniteSet(FDs)
  BY FilesAssumption, FS_Interval DEF FDs
<1>2. IsFiniteSet(Locals)
  <2>1. IsFiniteSet({rf}) /\ IsFiniteSet({wf})
    BY FS_Singleton, Zenon
  <2>2. Locals = {rf} \cup {wf}
    BY Zenon DEF Locals
  <2> QED
    BY <2>1, <2>2, FS_Union, Zenon
<1>3. IsFiniteSet(Places)
  BY <1>1, <1>2, FS_Union, Zenon DEF Places
<1>4. IsFiniteSet(Procs \X Places)
  BY <1>3, FilesAssumption, FS_Product, Zenon
<1>5. \A S \in SUBSET (Procs \X Places) : IsFiniteSet(S)
  BY <1>4, FS_Subset, Zenon
<1> QED
  BY <1>5, FS_CardinalityType, FS_EmptySet, FS_AddElement, Zenon DEF Countable

\* The files, descriptors, calls and pipes of xv6 are always as Inv says, for any
\* numbers of processes, files, descriptors and pages and any size of the ring.
THEOREM Inductive == Spec => []Inv
  BY PlacesCountable, InitInv, NextInv, PTL DEF Spec

\* ref counts the descriptors and variables that hold a file, at every step of
\* dup(), fork(), close(), exit() and pipe(): file.c never reuses a file that
\* somebody has, and never keeps one that nobody has.
THEOREM FilesCounted == Spec => []RefsCounted
<1>1. Inv => RefsCounted
  BY Zenon DEF Inv
<1> QED
  BY <1>1, Inductive, PTL

\* The opposite of the test that makes fileclose() panic (ref < 1), wherever a process
\* is about to call it
NoPanic ==
  \A p \in Procs : pc[p] = "fileclose" =>
    \E f \in File : f = mine[p][IF mine[p][rf] # None THEN rf ELSE wf] /\ file[f].ref >= 1

\* fileclose() never panics: every file a process is about to close still has a
\* reference, on every path of sys_close(), exit() and a failing sys_pipe().
THEOREM ClosesOpenFiles == Spec => []NoPanic
<1>1. ASSUME Inv PROVE NoPanic
  <2> USE DEF Inv
  <2> SUFFICES ASSUME NEW p \in Procs, pc[p] = "fileclose"
               PROVE  \E f \in File : f = mine[p][IF mine[p][rf] # None THEN rf ELSE wf] /\ file[f].ref >= 1
    BY <1>1, Zenon DEF NoPanic
  <2>1. PICK v \in Locals : v = IF mine[p][rf] # None THEN rf ELSE wf
    BY Constant, Zenon
  <2>2. mine[p][v] # None
    BY <1>1, <2>1 DEF Held, HeldBy, Locals
  <2>3. mine[p][v] \in File
    BY <1>1, <2>2 DEF Types
  <2>4. Ref(p, v) = mine[p][v] /\ v \in Places
    BY Constant, Zenon DEF Ref, Locals
  <2>5. file[mine[p][v]].ref \in Nat /\ file[mine[p][v]].ref > 0
    BY <1>1, <2>3, <2>4, Referred, PlacesCountable, Zenon
  <2> QED
    BY <2>1, <2>3, <2>5
<1> QED
  BY <1>1, Inductive, PTL

\* A set with at most one element counts one or none.
LEMMA AtMostOne ==
  ASSUME NEW S, \A x, y \in S : x = y
  PROVE  Cardinality(S) = IF S = {} THEN 0 ELSE 1
<1>1. CASE S = {}
  BY <1>1, FS_EmptySet, Zenon
<1>2. CASE S # {}
  <2>1. PICK x \in S : TRUE
    BY <1>2, Zenon
  <2>2. S = {x}
    BY <2>1, Zenon
  <2> QED
    BY <1>2, <2>2, FS_Singleton, Zenon
<1> QED
  BY <1>1, <1>2, Zenon

\* An end of a pipe is open exactly as long as one file or one call of pipeclose()
\* stands for it, the page is the pipe's as long as an end is open, and whoever
\* reads, writes or sleeps has its end open.
THEOREM EndsRepresented == Spec => []EndsCounted
<1>1. ASSUME Inv PROVE EndsCounted
  <2> USE DEF Inv
  <2>0. Represented /\ Using /\ Types
    BY <1>1, Zenon
  <2>1. ASSUME NEW k \in Pages, NEW w \in BOOLEAN
        PROVE  Cardinality(Ends(k, w)) + Cardinality(Closing(k, w))
                 = IF pipe[k].used /\ (IF w THEN pipe[k].writeopen ELSE pipe[k].readopen) THEN 1 ELSE 0
    <3>1. /\ Opened(k, w) <=> \/ \E f \in File : IsEnd(f, k, w)
                              \/ \E p \in Procs : Closes(p, k, w)
          /\ \A f, g \in File : IsEnd(f, k, w) /\ IsEnd(g, k, w) => f = g
          /\ \A p, q \in Procs : Closes(p, k, w) /\ Closes(q, k, w) => p = q
          /\ \A f \in File, p \in Procs : ~ (IsEnd(f, k, w) /\ Closes(p, k, w))
      BY <2>0, Zenon DEF Represented
    <3>2. Ends(k, w) = {f \in File : IsEnd(f, k, w)} /\ Closing(k, w) = {p \in Procs : Closes(p, k, w)}
      BY Zenon DEF Ends, Closing, IsEnd, Closes
    <3>3. /\ Cardinality(Ends(k, w)) = IF Ends(k, w) = {} THEN 0 ELSE 1
          /\ Cardinality(Closing(k, w)) = IF Closing(k, w) = {} THEN 0 ELSE 1
      BY <3>1, <3>2, AtMostOne
    <3>4. Opened(k, w) <=> pipe[k].used /\ (IF w THEN pipe[k].writeopen ELSE pipe[k].readopen)
      BY <2>0, Zenon DEF Opened, Represented
    <3>5. /\ Opened(k, w) <=> Ends(k, w) # {} \/ Closing(k, w) # {}
          /\ Ends(k, w) = {} \/ Closing(k, w) = {}
      BY <3>1, <3>2, Zenon
    <3> QED
      BY <3>3, <3>4, <3>5
  <2>2. \A k \in Pages : pipe[k].used <=> pipe[k].readopen \/ pipe[k].writeopen
    BY <2>0, Zenon DEF Represented
  <2>3. \A k \in Pages, p \in Procs :
          pc[p] \in {"io", "sleep", "asleep"} /\ io[p].pipe = k => Ends(k, io[p].writable) # {}
    <3> SUFFICES ASSUME NEW p \in Procs, pc[p] \in InIO PROVE Ends(io[p].pipe, io[p].writable) # {}
      BY Zenon DEF InIO
    <3>1. PICK fd \in FDs : ofile[p][fd] # None /\ IsEnd(ofile[p][fd], io[p].pipe, io[p].writable)
      BY <2>0, Zenon DEF Using
    <3>2. ofile[p][fd] \in File
      BY <2>0, <3>1 DEF Types
    <3> QED
      BY <3>1, <3>2, Zenon DEF Ends, IsEnd
  <2> QED
    BY <2>1, <2>2, <2>3 DEF EndsCounted
<1> QED
  BY <1>1, Inductive, PTL

\* The ring of pipe.c holds the bytes that were written and not read yet, in their
\* order, when nread and nwrite wrap as well, provided that the size of the ring
\* divides the modulus of the counters (512 and 2^32 in the code).
THEOREM RingsIntact == Spec => []RingIntact
<1>1. Inv => RingIntact
  BY Zenon DEF Inv, Rings
<1> QED
  BY <1>1, Inductive, PTL

\* No wakeup of pipewrite(), piperead() or pipeclose() is lost: a reader sleeps
\* while the ring is empty and a writer is there, a writer while it is full and a
\* reader is there, except for readers of what a killed writer has left.
THEOREM SleepersWoken == Spec => []NoLostWakeup
<1>1. ASSUME Inv PROVE NoLostWakeup
  <2>1. \A p \in Procs : pc[p] = "asleep" => Waits(p)
    BY <1>1, Zenon DEF Inv, Sleepers
  <2> QED
    BY <2>1, Zenon DEF NoLostWakeup, Waits
<1> QED
  BY <1>1, Inductive, PTL

==============================================================================
