------------------------------ MODULE LogProofs ------------------------------
(***************************************************************************)
(* Theorems about Log for any number of processes and blocks and any size  *)
(* of the log: the invariant, the safety properties it implies, and that   *)
(* Log implements AtomicDisk.                                              *)
(***************************************************************************)
EXTENDS Log, CountingLemmas

------------------------------------------------------------------------------
(* What each action does, variable by variable                              *)

Others(p) == \A q \in All \ {p} : pc'[q] = pc[q]
Woke(p) == \A q \in All \ {p} : pc'[q] = IF pc[q] = "asleep" THEN "begin" ELSE pc[q]

begin_opEffect(p) ==
  /\ UNCHANGED <<home, logged, head, cache, dirty, lh, committing, buf, tail>>
  /\ Up /\ pc[p] \in {"idle", "begin"} /\ Others(p)
  /\ \/ /\ ~ committing /\ Fits /\ outstanding' = outstanding + 1
        /\ pc'[p] = "op" /\ wrote' = [wrote EXCEPT ![p] = {}]
     \/ /\ committing \/ ~ Fits
        /\ pc'[p] = "asleep" /\ UNCHANGED <<outstanding, wrote>>

log_writeEffect(p) ==
  /\ UNCHANGED <<home, logged, head, cache, outstanding, committing, tail>>
  /\ Up /\ pc[p] = "log_write" /\ pc'[p] = "op" /\ Others(p)
  /\ lh' = IF buf[p] \in Elems(lh) THEN lh ELSE Append(lh, buf[p])
  /\ dirty' = dirty \cup {buf[p]} /\ buf' = [buf EXCEPT ![p] = NoBlock]
  /\ wrote' = [wrote EXCEPT ![p] = @ \cup {buf[p]}]

end_commitEffect(p) ==
  /\ UNCHANGED <<home, logged, head, cache, dirty, lh, outstanding, buf, wrote, tail>>
  /\ Up /\ pc[p] = "done" /\ pc'[p] = "idle" /\ Woke(p) /\ committing' = FALSE

write_logEffect(p) ==
  /\ UNCHANGED <<home, head, cache, dirty, lh, outstanding, committing, buf, wrote>>
  /\ Up /\ pc[p] = "write_log" /\ Others(p)
  /\ \/ /\ tail <= Len(lh) /\ logged' = [logged EXCEPT ![tail] = Bread(lh[tail])]
        /\ tail' = tail + 1 /\ pc'[p] = "write_log"
     \/ ~ tail <= Len(lh) /\ UNCHANGED <<logged, tail>> /\ pc'[p] = "write_head"

write_headEffect(p) ==
  /\ UNCHANGED <<home, logged, cache, dirty, lh, outstanding, committing, buf, wrote>>
  /\ Up /\ pc[p] = "write_head" /\ pc'[p] = "install_trans" /\ Others(p)
  /\ head' = lh /\ tail' = 1

end_opEffect(p) ==
  /\ UNCHANGED <<home, logged, head, cache, dirty, lh, buf>>
  /\ wrote' = [wrote EXCEPT ![p] = {}]
  /\ Up /\ pc[p] = "op" /\ ~ committing /\ outstanding' = outstanding - 1
  /\ \/ /\ outstanding = 1 /\ committing' = TRUE /\ tail' = 1 /\ Others(p)
        /\ pc'[p] = IF lh = <<>> THEN "done" ELSE "write_log"
     \/ /\ outstanding # 1 /\ UNCHANGED <<committing, tail>> /\ Woke(p) /\ pc'[p] = "idle"

ModifyEffect(p, b, v) ==
  /\ UNCHANGED <<home, logged, head, dirty, lh, outstanding, committing, wrote, tail>>
  /\ Up /\ pc[p] = "op" /\ pc'[p] \in {"panic", "log_write"} /\ Others(p)
  /\ cache' = [cache EXCEPT ![b] = v] /\ buf' = [buf EXCEPT ![p] = b]
  /\ Cardinality(wrote[p] \cup {b}) <= OpBlocks /\ \A q \in Procs : buf[q] # b

install_transEffect(p) ==
  /\ UNCHANGED <<logged, head, lh, outstanding, committing, buf, wrote>>
  /\ p = Boot \/ Up
  /\ pc[p] = "install_trans" /\ Others(p)
  /\ \/ /\ tail <= Len(lh) /\ tail' = tail + 1 /\ pc'[p] = "install_trans"
        /\ home' = [home EXCEPT ![lh[tail]] = logged[tail]]
        /\ cache' = [cache EXCEPT ![lh[tail]] = logged[tail]]
        /\ dirty' = dirty \ {lh[tail]}
     \/ ~ tail <= Len(lh) /\ UNCHANGED <<home, cache, dirty, tail>> /\ pc'[p] = "clear"

clearEffect(p) ==
  /\ UNCHANGED <<home, logged, cache, dirty, outstanding, committing, buf, wrote, tail>>
  /\ p = Boot \/ Up
  /\ pc[p] = "clear" /\ Others(p) /\ lh' = <<>> /\ head' = <<>>
  /\ pc'[p] = IF p = Boot THEN "up" ELSE "done"

read_headEffect ==
  /\ UNCHANGED <<home, logged, head, cache, dirty, outstanding, committing, buf, wrote>>
  /\ pc[Boot] = "read_head" /\ pc'[Boot] = "install_trans" /\ Others(Boot)
  /\ lh' = head /\ tail' = 1

LoadEffect(b) ==
  /\ UNCHANGED <<home, logged, head, dirty, lh, outstanding, committing, pc, buf, wrote, tail>>
  /\ cache[b] = NotCached /\ cache' = [cache EXCEPT ![b] = home[b]]

EvictEffect(b) ==
  /\ UNCHANGED <<home, logged, head, dirty, lh, outstanding, committing, pc, buf, wrote, tail>>
  /\ cache[b] # NotCached /\ b \notin dirty /\ \A p \in Procs : buf[p] # b
  /\ cache' = [cache EXCEPT ![b] = NotCached]

CrashEffect ==
  /\ UNCHANGED <<home, logged, head>>
  /\ cache' = [b \in Blocks |-> NotCached] /\ dirty' = {} /\ lh' = <<>>
  /\ outstanding' = 0 /\ committing' = FALSE /\ tail' = 1
  /\ pc' \in [All -> Labels] /\ pc'[Boot] = "read_head" /\ \A p \in Procs : pc'[p] = "idle"
  /\ buf' = [p \in Procs |-> NoBlock] /\ wrote' = [p \in Procs |-> {}]

Stutter ==
  UNCHANGED <<home, logged, head, cache, dirty, lh, outstanding, committing, pc, buf, wrote, tail>>

\* Some action takes place, with its effect.
Effect ==
  \/ \E p \in Procs : \/ begin_opEffect(p) \/ log_writeEffect(p) \/ end_commitEffect(p)
                      \/ write_logEffect(p) \/ write_headEffect(p) \/ end_opEffect(p)
                      \/ \E b \in Blocks, v \in Vals : ModifyEffect(p, b, v)
  \/ \E p \in All : install_transEffect(p) \/ clearEffect(p)
  \/ read_headEffect
  \/ \E b \in Blocks : LoadEffect(b) \/ EvictEffect(b)
  \/ CrashEffect \/ Stutter

\* A step of log.c has one of these effects.  No operation ends in a commit.
LEMMA Effects ==
  ASSUME pc \in [All -> Labels], committing => Active = {}, [Next]_vars
  PROVE  Effect /\ pc' \in [All -> Labels]
<1> USE LogAssumption DEF At, Goto, Wakeup, Others, Woke, Up, All, disk, bcache, log, local
<1>1. ASSUME NEW p \in Procs, begin_op(p) PROVE begin_opEffect(p) /\ pc' \in [All -> Labels]
  BY <1>1, Zenon DEF begin_op, begin_opEffect, Labels
<1>2. ASSUME NEW p \in Procs, log_write(p) PROVE log_writeEffect(p) /\ pc' \in [All -> Labels]
  BY <1>2, Zenon DEF log_write, log_writeEffect, Labels
<1>3. ASSUME NEW p \in Procs, end_commit(p) PROVE end_commitEffect(p) /\ pc' \in [All -> Labels]
  BY <1>3, Zenon DEF end_commit, end_commitEffect, Labels
<1>4. ASSUME NEW p \in Procs, write_log(p) PROVE write_logEffect(p) /\ pc' \in [All -> Labels]
  BY <1>4, Zenon DEF write_log, write_logEffect, Labels
<1>5. ASSUME NEW p \in Procs, write_head(p) PROVE write_headEffect(p) /\ pc' \in [All -> Labels]
  BY <1>5, Zenon DEF write_head, write_headEffect, Labels
<1>6. ASSUME NEW p \in Procs, end_op(p) PROVE end_opEffect(p) /\ pc' \in [All -> Labels]
  <2>1. ~ committing
    BY <1>6, Zenon DEF end_op, Active
  <2> QED
    BY <1>6, <2>1, Zenon DEF end_op, end_opEffect, Labels
<1>7. ASSUME NEW p \in Procs, NEW b \in Blocks, NEW v \in Vals, Modify(p, b, v)
      PROVE  ModifyEffect(p, b, v) /\ pc' \in [All -> Labels]
  BY <1>7, Zenon DEF Modify, ModifyEffect, Labels
<1>8. ASSUME NEW p \in All, install_trans(p) PROVE install_transEffect(p) /\ pc' \in [All -> Labels]
  BY <1>8, Zenon DEF install_trans, install_transEffect, Labels
<1>9. ASSUME NEW p \in All, clear(p) PROVE clearEffect(p) /\ pc' \in [All -> Labels]
  BY <1>9, Zenon DEF clear, clearEffect, Labels
<1>10. ASSUME read_head PROVE read_headEffect /\ pc' \in [All -> Labels]
  BY <1>10, Zenon DEF read_head, read_headEffect, Labels
<1>11. ASSUME NEW b \in Blocks, Load(b) \/ Evict(b)
       PROVE  (LoadEffect(b) \/ EvictEffect(b)) /\ pc' \in [All -> Labels]
  BY <1>11, Zenon DEF Load, Evict, LoadEffect, EvictEffect
<1>12. ASSUME Crash PROVE CrashEffect /\ pc' \in [All -> Labels]
  BY <1>12, Zenon DEF Crash, CrashEffect, Booted, EmptyCache, NoBuf, NoneWritten, Labels
<1>13. ASSUME UNCHANGED vars PROVE Stutter /\ pc' \in [All -> Labels]
  BY <1>13, Zenon DEF vars, Stutter
<1> QED
  BY <1>1, <1>2, <1>3, <1>4, <1>5, <1>6, <1>7, <1>8, <1>9, <1>10, <1>11, <1>12, <1>13
  DEF Next, Step, Recover, Effect
------------------------------------------------------------------------------
(* Phases                                                                   *)

\* The number of running operations when at most p begins or ends one.
LEMMA ActiveMove ==
  ASSUME NEW p \in Procs, \A q \in Procs \ {p} : q \in Active <=> q \in Active'
  PROVE  /\ IsFiniteSet(Active) /\ IsFiniteSet(Active')
         /\ Cardinality(Active) \in Nat /\ Cardinality(Active') \in Nat
         /\ (p \in Active <=> p \in Active') => Cardinality(Active') = Cardinality(Active)
         /\ p \notin Active /\ p \in Active' =>
              Cardinality(Active') = Cardinality(Active) + 1
         /\ p \in Active /\ p \notin Active' =>
              Cardinality(Active') = Cardinality(Active) - 1
<1>1. IsFiniteSet(Active)
  <2>1. Active \in SUBSET Procs
    BY Zenon DEF Active
  <2> QED
    BY <2>1, LogAssumption, FS_Subset, Zenon
<1>2. \A u : u # p => (u \in Active <=> u \in Active')
  BY Zenon DEF Active
<1> QED
  BY <1>1, <1>2, Move, Zenon

\* Whoever is in an operation is counted.
LEMMA Counted ==
  ASSUME Phases, NEW p \in Active
  PROVE  outstanding \in Nat /\ outstanding > 0 /\ ~ committing
<1>1. Active \in SUBSET Procs
  BY Zenon DEF Active
<1>2. IsFiniteSet(Active) /\ outstanding = Cardinality(Active)
  BY <1>1, LogAssumption, FS_Subset, Zenon DEF Phases
<1>3. ~ committing
  BY Zenon DEF Phases
<1> QED
  BY <1>2, <1>3, NonEmpty, Zenon

\* Steps of p that neither begin nor end an operation or a commit.
Within(p) ==
  /\ Others(p) /\ UNCHANGED <<outstanding, committing>>
  /\ p \in Procs => /\ Up
                    /\ (pc[p] \in Committing <=> pc'[p] \in Committing)
                    /\ (p \in Active <=> pc'[p] \in {"op", "log_write", "panic"})
                    /\ pc'[p] \notin {"up", "read_head"}
                    /\ pc'[p] = "log_write" => buf'[p] \in Blocks
                    /\ pc'[p] \notin {"log_write", "panic"} => buf'[p] = NoBlock
  /\ p = Boot => pc[Boot] # "up" /\ pc'[Boot] \in {"up", "install_trans", "clear"}
  /\ \A q \in Procs \ {p} : buf'[q] = buf[q]

\* Such steps keep the phases.
LEMMA PhasesKept ==
  ASSUME Phases, NEW p \in All, Within(p)
  PROVE  Phases'
<1> USE LogAssumption DEF All, Others, Within
<1>1. Active' = Active
  BY Zenon DEF Active
<1>2. \A q \in Procs : pc'[q] \in Committing <=> pc[q] \in Committing
  BY Zenon
<1>3. pc'[Boot] \in {"up", "read_head", "install_trans", "clear"}
  BY Zenon DEF Phases
<1>4. ~ Up' => ~ Up /\ \A q \in Procs : pc'[q] = pc[q]
  BY Zenon DEF Phases, Up
<1> QED
  BY <1>1, <1>2, <1>3, <1>4 DEF Phases


\* Every step keeps the phases apart.
LEMMA PhasesStep ==
  ASSUME pc \in [All -> Labels], pc' \in [All -> Labels], outstanding \in Nat,
         buf \in [Procs -> Blocks \cup {NoBlock}], Phases, Effect
  PROVE  Phases'
<1> USE LogAssumption DEF All
<1>1. ASSUME NEW p \in Procs, begin_opEffect(p) PROVE Phases'
  <2>1. CASE pc'[p] = "op"
    <3>1. Active' = Active \cup {p} /\ p \notin Active /\ ~ committing
      BY <1>1, <2>1, Zenon DEF begin_opEffect, Active, Others
    <3>2. outstanding' = Cardinality(Active') /\ ~ committing'
      BY <1>1, <2>1, <3>1, ActiveMove, Zenon DEF begin_opEffect, Phases
    <3> QED
      BY <1>1, <2>1, <3>1, <3>2, Zenon DEF begin_opEffect, Phases, Others, Up, Committing
  <2>2. CASE pc'[p] # "op"
    <3>1. Within(p)
      BY <1>1, <2>2, Zenon DEF begin_opEffect, Within, Phases, Active, Committing
    <3> QED
      BY <3>1, PhasesKept, Zenon
  <2> QED
    BY <2>1, <2>2, Zenon
<1>2. ASSUME NEW p \in Procs, log_writeEffect(p) PROVE Phases'
  <2>1. Within(p)
    BY <1>2, Zenon DEF log_writeEffect, Within, Phases, Active, Committing
  <2> QED
    BY <2>1, PhasesKept, Zenon
<1>3. ASSUME NEW p \in Procs, end_commitEffect(p) PROVE Phases'
  <2>1. Active' = Active /\ pc'[Boot] = pc[Boot]
    BY <1>3, Zenon DEF end_commitEffect, Active, Woke, Phases
  <2>2. committing /\ \A q \in Procs \ {p} : pc[q] \notin Committing
    BY <1>3, Zenon DEF end_commitEffect, Phases, Committing
  <2>3. \A q \in Procs : pc'[q] \notin Committing /\ (pc'[q] = pc[q] \/ pc'[q] \in {"begin", "idle"})
    BY <1>3, <2>2, Zenon DEF end_commitEffect, Committing, Woke
  <2>4. Up' /\ ~ committing' /\ buf' = buf /\ outstanding' = outstanding
    BY <1>3, <2>1, Zenon DEF end_commitEffect, Up
  <2>5. \A q \in Procs : pc'[q] \notin {"log_write", "panic"} => buf'[q] = NoBlock
    BY <1>3, <2>4, Zenon DEF end_commitEffect, Phases, Woke
  <2>6. \A q \in Procs : pc'[q] = "log_write" => pc[q] = "log_write"
    BY <2>3, Zenon
  <2>7. \A q \in Procs : pc'[q] \notin {"up", "read_head"}
    BY <2>3, Zenon DEF Phases
  <2> QED
    BY <2>1, <2>3, <2>4, <2>5, <2>6, <2>7 DEF Phases, Up
<1>4. ASSUME NEW p \in Procs, write_logEffect(p) PROVE Phases'
  <2>1. Within(p)
    BY <1>4, Zenon DEF write_logEffect, Within, Phases, Active, Committing
  <2> QED
    BY <2>1, PhasesKept, Zenon
<1>5. ASSUME NEW p \in Procs, write_headEffect(p) PROVE Phases'
  <2>1. Within(p)
    BY <1>5, Zenon DEF write_headEffect, Within, Phases, Active, Committing
  <2> QED
    BY <2>1, PhasesKept, Zenon
<1>6. ASSUME NEW p \in Procs, end_opEffect(p) PROVE Phases'
  <2>1. p \in Active
    BY <1>6, Zenon DEF end_opEffect, Active
  <2>2. /\ Active' = Active \ {p} /\ pc'[Boot] = pc[Boot]
    BY <1>6, <2>1 DEF end_opEffect, Active, Others, Woke, Phases
  <2>3. outstanding' = Cardinality(Active') /\ IsFiniteSet(Active')
    BY <1>6, <2>1, <2>2, ActiveMove, Zenon DEF end_opEffect, Phases
  <2>4. \A q \in Procs : pc[q] \notin Committing
    BY <1>6, Zenon DEF end_opEffect, Phases
  <2>5. \A q \in Procs \ {p} : pc'[q] \notin Committing /\ (pc'[q] = pc[q] \/ (pc[q] = "asleep" /\ pc'[q] = "begin"))
    BY <1>6, <2>4, Zenon DEF end_opEffect, Committing, Others, Woke
  <2>6. pc'[p] \in {"done", "write_log", "idle"} /\ (pc'[p] \in Committing => committing')
    BY <1>6, Zenon DEF end_opEffect, Committing
  <2>7. committing' => Active' = {}
    <3>1. outstanding # 1 => ~ committing'
      BY <1>6, Zenon DEF end_opEffect
    <3>2. outstanding = 1 => outstanding' = 0
      BY <1>6 DEF end_opEffect
    <3>3. Cardinality(Active') > 0 <=> Active' # {}
      BY <2>3, NonEmpty, Zenon
    <3> QED
      BY <2>3, <3>1, <3>2, <3>3
  <2>8. Up' /\ buf' = buf /\ buf[p] = NoBlock
    BY <1>6, <2>2, Zenon DEF end_opEffect, Up, Phases
  <2>9. \A q \in Procs : /\ pc'[q] \notin {"up", "read_head"}
                         /\ pc'[q] = "log_write" => pc[q] = "log_write"
                         /\ pc'[q] \notin {"log_write", "panic"} => buf'[q] = NoBlock
    BY <2>5, <2>6, <2>8, Zenon DEF Phases
  <2>10. \A q, r \in Procs : pc'[q] \in Committing /\ pc'[r] \in Committing => q = r
    BY <2>5, Zenon
  <2>11. \A q \in Procs : pc'[q] \in Committing => committing'
    BY <2>5, <2>6, Zenon
  <2> QED
    BY <2>2, <2>3, <2>7, <2>8, <2>9, <2>10, <2>11 DEF Phases, Up
<1>7. ASSUME NEW p \in Procs, NEW b \in Blocks, NEW v \in Vals, ModifyEffect(p, b, v) PROVE Phases'
  <2>1. Within(p)
    BY <1>7, Zenon DEF ModifyEffect, Within, Phases, Active, Committing
  <2> QED
    BY <2>1, PhasesKept, Zenon
<1>8. ASSUME NEW p \in All, install_transEffect(p) PROVE Phases'
  <2>1. Within(p)
    BY <1>8, Zenon DEF install_transEffect, Within, Phases, Active, Committing
  <2> QED
    BY <2>1, PhasesKept, Zenon
<1>9. ASSUME NEW p \in All, clearEffect(p) PROVE Phases'
  <2>1. Within(p)
    BY <1>9, Zenon DEF clearEffect, Within, Phases, Active, Committing
  <2> QED
    BY <2>1, PhasesKept, Zenon
<1>10. ASSUME read_headEffect PROVE Phases'
  <2>1. Within(Boot)
    BY <1>10, Zenon DEF read_headEffect, Within, Phases
  <2> QED
    BY <2>1, PhasesKept, Zenon
<1>11. ASSUME NEW b \in Blocks, LoadEffect(b) PROVE Phases'
  BY <1>11, Zenon DEF LoadEffect, Phases, Active, Up
<1>12. ASSUME NEW b \in Blocks, EvictEffect(b) PROVE Phases'
  BY <1>12, Zenon DEF EvictEffect, Phases, Active, Up
<1>13. ASSUME CrashEffect PROVE Phases'
  <2>1. Active' = {}
    BY <1>13, Zenon DEF CrashEffect, Active
  <2> QED
    BY <1>13, <2>1, FS_EmptySet, Zenon DEF CrashEffect, Phases, Up, Committing
<1>14. ASSUME Stutter PROVE Phases'
  BY <1>14, Zenon DEF Stutter, Phases, Active, Up
<1> QED
  BY <1>1, <1>2, <1>3, <1>4, <1>5, <1>6, <1>7, <1>8, <1>9, <1>10, <1>11, <1>12, <1>13, <1>14, Zenon DEF Effect
------------------------------------------------------------------------------
(* Room in the log                                                          *)

\* The blocks in the log.
LEMMA ElemsFacts ==
  ASSUME lh \in Seq(Blocks)
  PROVE  /\ IsFiniteSet(Elems(lh))
         /\ \A b \in Blocks : Elems(Append(lh, b)) = Elems(lh) \cup {b}
<1>1. IsFiniteSet(Elems(lh))
  <2>1. IsFiniteSet(1 .. Len(lh))
    BY FS_Interval
  <2>2. lh \in Surjection(1 .. Len(lh), Elems(lh))
    BY DEF Surjection, Elems
  <2> QED
    BY <2>1, <2>2, FS_Surjection, Zenon
<1>2. ASSUME NEW b \in Blocks PROVE Elems(Append(lh, b)) = Elems(lh) \cup {b}
  <2>1. /\ Len(Append(lh, b)) = Len(lh) + 1 /\ Len(lh) \in Nat
        /\ \A i \in 1 .. Len(lh) : Append(lh, b)[i] = lh[i]
        /\ Append(lh, b)[Len(lh) + 1] = b
    OBVIOUS
  <2> QED
    BY <2>1 DEF Elems
<1> QED
  BY <1>1, <1>2, Zenon

\* What the operations A may still log is bounded by what was reserved for them.
LEMMA LeftBound ==
  ASSUME NEW A, IsFiniteSet(A), NEW L, L \subseteq A \X (1 .. MAXOPBLOCKS)
  PROVE  /\ IsFiniteSet(L) /\ Cardinality(L) \in Nat
         /\ Cardinality(L) <= Cardinality(A) * MAXOPBLOCKS
<1> DEFINE I == 1 .. MAXOPBLOCKS
<1>1. IsFiniteSet(I) /\ Cardinality(I) = MAXOPBLOCKS
  BY LogAssumption, FS_Interval
<1> HIDE DEF I
<1>2. IsFiniteSet(A \X I) /\ Cardinality(A \X I) = Cardinality(A) * MAXOPBLOCKS
  BY <1>1, FS_Product, Zenon
<1>3. L \in SUBSET (A \X I)
  BY Zenon DEF I
<1> QED
  BY <1>2, <1>3, FS_Subset, FS_CardinalityType

\* There are finitely many such blocks.
LEMMA LeftFinite ==
  /\ IsFiniteSet(Active) /\ IsFiniteSet(Left) /\ Cardinality(Left) \in Nat
<1>1. Active \in SUBSET Procs
  BY Zenon DEF Active
<1>2. IsFiniteSet(Active)
  BY <1>1, LogAssumption, FS_Subset, Zenon
<1>3. Left \subseteq Active \X (1 .. MAXOPBLOCKS)
  BY Zenon DEF Left
<1> QED
  BY <1>2, <1>3, LeftBound, Zenon

\* The log keeps its room when the operations may not log more than before.
LEMMA LeftShrinks ==
  ASSUME Left' \subseteq Left
  PROVE  Cardinality(Left') \in Nat /\ Cardinality(Left') <= Cardinality(Left)
  BY LeftFinite, FS_Subset, FS_CardinalityType, Zenon

\* Steps that write nothing.
LEMMA RoomKept ==
  ASSUME Room, lh \in Seq(Blocks), UNCHANGED lh, Active' \subseteq Active,
         \A q \in Active' : wrote'[q] = wrote[q],
         \A q \in Procs : pc'[q] = "log_write" => pc[q] = "log_write" /\ buf'[q] = buf[q]
  PROVE  Room'
<1>1. Left' \subseteq Left
  BY Zenon DEF Left
<1>2. Len(lh') + Cardinality(Left') <= LOGSIZE
  BY <1>1, LeftShrinks, LeftFinite, LogAssumption DEF Room
<1>3. \A q \in Procs : pc'[q] = "log_write" =>
        Cardinality(wrote'[q] \cup {buf'[q]}) <= MAXOPBLOCKS
  <2> SUFFICES ASSUME NEW q \in Procs, pc'[q] = "log_write"
               PROVE  Cardinality(wrote'[q] \cup {buf'[q]}) <= MAXOPBLOCKS
    BY Zenon
  <2>1. q \in Active' /\ buf'[q] = buf[q] /\ pc[q] = "log_write"
    BY Zenon DEF Active
  <2>2. wrote'[q] = wrote[q]
    BY <2>1, Zenon
  <2> QED
    BY <2>1, <2>2, Zenon DEF Room
<1>4. \A q \in Active' : wrote'[q] \subseteq Elems(lh')
  BY DEF Room, Elems
<1> QED
  BY <1>2, <1>3, <1>4, Zenon DEF Room

\* Steps after which no operation is in progress.
LEMMA RoomFree ==
  ASSUME Active' = {}, Len(lh') \in Nat, Len(lh') <= LOGSIZE
  PROVE  Room'
<1>1. Left' = {} /\ \A q \in Procs : pc'[q] # "log_write"
  BY Zenon DEF Left, Active
<1>2. Cardinality(Left') = 0
  BY <1>1, FS_EmptySet, Zenon
<1> QED
  BY <1>1, <1>2 DEF Room


\* Every step leaves room in the log.
LEMMA RoomStep ==
  ASSUME pc \in [All -> Labels], lh \in Seq(Blocks), Len(head) \in Nat, Len(head) <= LOGSIZE,
         outstanding \in Nat, buf \in [Procs -> Blocks \cup {NoBlock}],
         wrote \in [Procs -> SUBSET Blocks], Phases, Room, Effect
  PROVE  Room'
<1> USE LogAssumption DEF All
<1>1. ASSUME NEW p \in Procs, begin_opEffect(p) PROVE Room'
  <2>1. CASE pc'[p] = "op"
    <3>1. /\ Active' = Active \cup {p} /\ p \notin Active /\ lh' = lh /\ buf' = buf
          /\ wrote' = [wrote EXCEPT ![p] = {}] /\ Fits /\ Others(p)
      BY <1>1, <2>1 DEF begin_opEffect, Active, Others
    <3>2. IsFiniteSet(Active') /\ Cardinality(Active') = outstanding + 1
      <4>1. (\A q \in Procs \ {p} : q \in Active <=> q \in Active') /\ p \in Active'
        BY <3>1, Zenon
      <4>2. outstanding = Cardinality(Active)
        BY Zenon DEF Phases
      <4> QED
        BY <3>1, <4>1, <4>2, ActiveMove, Zenon
    <3>3. Cardinality(Left') \in Nat /\ Cardinality(Left') <= (outstanding + 1) * MAXOPBLOCKS
      <4>1. Left' \subseteq Active' \X (1 .. MAXOPBLOCKS)
        BY Zenon DEF Left
      <4> QED
        BY <3>2, <4>1, LeftBound, Zenon
    <3>4. Len(lh') + Cardinality(Left') <= LOGSIZE
      <4>1. Len(lh) + (outstanding + 1) * MAXOPBLOCKS <= LOGSIZE
        BY <3>1, Zenon DEF Fits
      <4>2. (outstanding + 1) * MAXOPBLOCKS \in Nat /\ Len(lh) \in Nat
        OBVIOUS
      <4> QED
        BY <3>1, <3>3, <4>1, <4>2
    <3>5. \A q \in Active' : wrote'[q] \subseteq Elems(lh')
      BY <3>1, Zenon DEF Active, Room
    <3>6. \A q \in Procs : pc'[q] = "log_write" => pc[q] = "log_write" /\ q # p
      BY <2>1, <3>1, Zenon DEF Others
    <3> QED
      BY <3>1, <3>4, <3>5, <3>6, Zenon DEF Room
  <2>2. CASE pc'[p] # "op"
    <3>1. /\ Active' \subseteq Active /\ lh' = lh /\ wrote' = wrote
          /\ \A q \in Procs : pc'[q] = "log_write" => pc[q] = "log_write" /\ buf'[q] = buf[q]
      BY <1>1, <2>2, Zenon DEF begin_opEffect, Active, Others
    <3> QED
      BY <3>1, RoomKept, Zenon
  <2> QED
    BY <2>1, <2>2, Zenon
<1>2. ASSUME NEW p \in Procs, log_writeEffect(p) PROVE Room'
  <2> DEFINE b == buf[p]
             n == Cardinality(wrote[p])
  <2>1. /\ b \in Blocks /\ p \in Active /\ p \in Procs /\ Active' = Active
        /\ wrote' = [wrote EXCEPT ![p] = wrote[p] \cup {b}]
        /\ lh' = IF b \in Elems(lh) THEN lh ELSE Append(lh, b)
    BY <1>2, Zenon DEF log_writeEffect, Phases, Active, Others
  <2>2. IsFiniteSet(wrote[p])
    <3>1. IsFiniteSet(Elems(lh)) /\ wrote[p] \in SUBSET Elems(lh)
      BY <2>1, ElemsFacts, Zenon DEF Room
    <3> QED
      BY <3>1, FS_Subset, Zenon
  <2>3. /\ n \in Nat /\ Cardinality(wrote[p] \cup {b}) \in Nat
        /\ Cardinality(wrote[p] \cup {b}) = IF b \in wrote[p] THEN n ELSE n + 1
        /\ Cardinality(wrote[p] \cup {b}) <= MAXOPBLOCKS
    <3>1. Cardinality(wrote[p] \cup {b}) <= MAXOPBLOCKS
      BY <1>2, Zenon DEF log_writeEffect, Room
    <3> QED
      BY <2>2, <3>1, FS_AddElement, FS_CardinalityType, Zenon
  <2>4. Elems(lh') = Elems(lh) \cup {b}
    BY <2>1, ElemsFacts, Zenon
  <2>5. \A q \in Active' : wrote'[q] \subseteq Elems(lh')
    BY <2>1, <2>4, Zenon DEF Active, Room
  <2>6. \A q \in Procs : pc'[q] = "log_write" =>
           q # p /\ pc[q] = "log_write" /\ buf'[q] = buf[q] /\ wrote'[q] = wrote[q]
    BY <1>2, Zenon DEF log_writeEffect, Others
  <2>7. \A q \in Active : q # p => wrote'[q] = wrote[q]
    BY <2>1, Zenon DEF Active
  <2>8. wrote'[p] = wrote[p] \cup {b}
    BY <2>1, Zenon
  <2> HIDE DEF b, n
  <2>9. Left' \subseteq Left
    BY <2>1, <2>3, <2>7, <2>8 DEF Left, n
  <2>10. Len(lh') + Cardinality(Left') <= LOGSIZE
    <3>0. Len(lh) + Cardinality(Left) <= LOGSIZE /\ Len(lh) \in Nat
      BY DEF Room
    <3>1. CASE b \in Elems(lh)
      BY <2>1, <2>9, <3>0, <3>1, LeftShrinks, LeftFinite
    <3>2. CASE b \notin Elems(lh)
      <4>1. b \notin wrote[p] /\ n + 1 \in 1 .. MAXOPBLOCKS
        BY <2>1, <2>3, <3>2 DEF Room
      <4>2. <<p, n + 1>> \in Left
        BY <2>1, <2>3, <4>1 DEF Left, n
      <4>3. <<p, n + 1>> \notin Left'
        BY <2>1, <2>3, <2>8, <4>1 DEF Left
      <4>4. Left' \in SUBSET (Left \ {<<p, n + 1>>})
        BY <2>9, <4>3, Zenon
      <4>5. /\ IsFiniteSet(Left \ {<<p, n + 1>>})
            /\ Cardinality(Left \ {<<p, n + 1>>}) = Cardinality(Left) - 1
        BY <4>2, LeftFinite, Shrink, FS_RemoveElement, Zenon
      <4>6. Cardinality(Left') \in Nat /\ Cardinality(Left') <= Cardinality(Left) - 1
        BY <4>4, <4>5, FS_Subset, FS_CardinalityType
      <4>7. Len(lh') = Len(lh) + 1
        BY <2>1, <3>2
      <4> QED
        BY <3>0, <4>6, <4>7, LeftFinite
    <3> QED
      BY <3>1, <3>2, Zenon
  <2> QED
    BY <2>5, <2>6, <2>10, Zenon DEF Room
<1>3. ASSUME NEW p \in Procs, end_commitEffect(p) PROVE Room'
  <2>1. Active' \subseteq Active /\ \A q \in Procs : pc'[q] = "log_write" => pc[q] = "log_write" /\ buf'[q] = buf[q]
    BY <1>3, Zenon DEF end_commitEffect, Active, Others, Woke
  <2> QED
    BY <1>3, <2>1, RoomKept, Zenon DEF end_commitEffect
<1>4. ASSUME NEW p \in Procs, write_logEffect(p) PROVE Room'
  <2>1. Active' \subseteq Active /\ \A q \in Procs : pc'[q] = "log_write" => pc[q] = "log_write" /\ buf'[q] = buf[q]
    BY <1>4, Zenon DEF write_logEffect, Active, Others, Woke
  <2> QED
    BY <1>4, <2>1, RoomKept, Zenon DEF write_logEffect
<1>5. ASSUME NEW p \in Procs, write_headEffect(p) PROVE Room'
  <2>1. Active' \subseteq Active /\ \A q \in Procs : pc'[q] = "log_write" => pc[q] = "log_write" /\ buf'[q] = buf[q]
    BY <1>5, Zenon DEF write_headEffect, Active, Others, Woke
  <2> QED
    BY <1>5, <2>1, RoomKept, Zenon DEF write_headEffect
<1>6. ASSUME NEW p \in Procs, end_opEffect(p) PROVE Room'
  <2>1. Active' \subseteq Active /\ \A q \in Procs : pc'[q] = "log_write" => pc[q] = "log_write" /\ buf'[q] = buf[q]
    BY <1>6, Zenon DEF end_opEffect, Active, Others, Woke
  <2>2. p \notin Active' /\ UNCHANGED lh
    BY <1>6, Zenon DEF end_opEffect, Active
  <2>3. \A q \in Active' : wrote'[q] = wrote[q]
    BY <1>6, <2>1, <2>2, Zenon DEF end_opEffect, Active
  <2> QED
    BY <2>1, <2>2, <2>3, RoomKept, Zenon
<1>7. ASSUME NEW p \in Procs, NEW b \in Blocks, NEW v \in Vals, ModifyEffect(p, b, v) PROVE Room'
  <2>1. Active' = Active /\ Left' = Left /\ lh' = lh /\ wrote' = wrote
    BY <1>7, Zenon DEF ModifyEffect, Active, Left, Others
  <2>2. Cardinality(wrote[p] \cup {b}) <= MAXOPBLOCKS
    <3>1. p \in Active
      BY <1>7, Zenon DEF ModifyEffect, Active
    <3>2. IsFiniteSet(Elems(lh)) /\ wrote[p] \in SUBSET Elems(lh)
      BY <3>1, ElemsFacts, Zenon DEF Room
    <3>3. IsFiniteSet(wrote[p])
      BY <3>2, FS_Subset, Zenon
    <3>4. Cardinality(wrote[p] \cup {b}) \in Nat
      BY <3>3, FS_AddElement, FS_CardinalityType, Zenon
    <3> QED
      BY <1>7, <3>4 DEF ModifyEffect
  <2>3. /\ buf'[p] = b /\ \A q \in Procs \ {p} : buf'[q] = buf[q] /\ pc'[q] = pc[q]
    BY <1>7, Zenon DEF ModifyEffect, Others
  <2>4. \A q \in Procs : pc'[q] = "log_write" =>
                           Cardinality(wrote'[q] \cup {buf'[q]}) <= MAXOPBLOCKS
    BY <2>1, <2>2, <2>3, Zenon DEF Room
  <2> QED
    BY <2>1, <2>4, Zenon DEF Room
<1>8. ASSUME NEW p \in All, install_transEffect(p) PROVE Room'
  <2>1. Active' \subseteq Active /\ \A q \in Procs : pc'[q] = "log_write" => pc[q] = "log_write" /\ buf'[q] = buf[q]
    BY <1>8, Zenon DEF install_transEffect, Active, Others, Woke
  <2> QED
    BY <1>8, <2>1, RoomKept, Zenon DEF install_transEffect
<1>9. ASSUME NEW p \in All, clearEffect(p) PROVE Room'
  <2>1. Active' = {}
    BY <1>9, Zenon DEF clearEffect, Active, Others, Phases, Committing, Up
  <2> QED
    BY <1>9, <2>1, RoomFree DEF clearEffect
<1>10. ASSUME read_headEffect PROVE Room'
  <2>1. Active' = {}
    BY <1>10, Zenon DEF read_headEffect, Active, Others, Phases, Committing, Up
  <2> QED
    BY <1>10, <2>1, RoomFree, Zenon DEF read_headEffect
<1>11. ASSUME NEW b \in Blocks, LoadEffect(b) PROVE Room'
  <2>1. Active' \subseteq Active /\ \A q \in Procs : pc'[q] = "log_write" => pc[q] = "log_write" /\ buf'[q] = buf[q]
    BY <1>11, Zenon DEF LoadEffect, Active, Others, Woke
  <2> QED
    BY <1>11, <2>1, RoomKept, Zenon DEF LoadEffect
<1>12. ASSUME NEW b \in Blocks, EvictEffect(b) PROVE Room'
  <2>1. Active' \subseteq Active /\ \A q \in Procs : pc'[q] = "log_write" => pc[q] = "log_write" /\ buf'[q] = buf[q]
    BY <1>12, Zenon DEF EvictEffect, Active, Others, Woke
  <2> QED
    BY <1>12, <2>1, RoomKept, Zenon DEF EvictEffect
<1>13. ASSUME CrashEffect PROVE Room'
  <2>1. Active' = {}
    BY <1>13, Zenon DEF CrashEffect, Active, Others, Phases, Committing, Up
  <2> QED
    BY <1>13, <2>1, RoomFree DEF CrashEffect
<1>14. ASSUME Stutter PROVE Room'
  <2>1. Active' \subseteq Active /\ \A q \in Procs : pc'[q] = "log_write" => pc[q] = "log_write" /\ buf'[q] = buf[q]
    BY <1>14, Zenon DEF Stutter, Active, Others, Woke
  <2> QED
    BY <1>14, <2>1, RoomKept, Zenon DEF Stutter
<1> QED
  BY <1>1, <1>2, <1>3, <1>4, <1>5, <1>6, <1>7, <1>8, <1>9, <1>10, <1>11, <1>12, <1>13, <1>14, Zenon DEF Effect
------------------------------------------------------------------------------
(* Types                                                                    *)


\* Every step keeps the types of the data.
LEMMA DataStep ==
  ASSUME DataOK, Phases, Room', Effect
  PROVE  DataOK'
<1> USE LogAssumption DEF DataOK, Index
<1>0. Len(lh') \in Nat => Len(lh') <= LOGSIZE
  <2>1. Active' \in SUBSET Procs /\ Left' \subseteq Active' \X (1 .. MAXOPBLOCKS)
    BY Zenon DEF Active, Left
  <2>2. IsFiniteSet(Active')
    BY <2>1, FS_Subset, Zenon
  <2>3. Cardinality(Left') \in Nat
    BY <2>1, <2>2, LeftBound, Zenon
  <2> QED
    BY <2>3 DEF Room
<1>1. ASSUME NEW p \in Procs, begin_opEffect(p) PROVE DataOK'
  BY <1>1, Zenon DEF begin_opEffect
<1>2. ASSUME NEW p \in Procs, log_writeEffect(p) PROVE DataOK'
  <2>1. buf[p] \in Blocks
    BY <1>2, Zenon DEF log_writeEffect, Phases
  <2>2. lh' \in Seq(Blocks)
    BY <1>2, <2>1 DEF log_writeEffect
  <2> QED
    BY <1>0, <1>2, <2>1, <2>2 DEF log_writeEffect
<1>3. ASSUME NEW p \in Procs, end_commitEffect(p) PROVE DataOK'
  BY <1>3, Zenon DEF end_commitEffect
<1>4. ASSUME NEW p \in Procs, write_logEffect(p) PROVE DataOK'
  <2>1. CASE tail <= Len(lh)
    <3>1. tail \in 1 .. Len(lh) /\ lh[tail] \in Blocks
      BY <2>1
    <3>2. Bread(lh[tail]) \in Vals
      BY <3>1, Zenon DEF Bread
    <3>3. logged' = [logged EXCEPT ![tail] = Bread(lh[tail])] /\ tail' = tail + 1
      BY <1>4, <2>1, Zenon DEF write_logEffect
    <3>4. logged' \in [1 .. LOGSIZE -> Vals] /\ tail' \in 1 .. LOGSIZE + 1
      BY <2>1, <3>2, <3>3
    <3> QED
      BY <1>4, <3>4, Zenon DEF write_logEffect
  <2>2. CASE ~ tail <= Len(lh)
    BY <1>4, <2>2, Zenon DEF write_logEffect
  <2> QED
    BY <2>1, <2>2, Zenon
<1>5. ASSUME NEW p \in Procs, write_headEffect(p) PROVE DataOK'
  BY <1>5 DEF write_headEffect
<1>6. ASSUME NEW p \in Procs, end_opEffect(p) PROVE DataOK'
  BY <1>6 DEF end_opEffect
<1>7. ASSUME NEW p \in Procs, NEW b \in Blocks, NEW v \in Vals, ModifyEffect(p, b, v) PROVE DataOK'
  BY <1>7, Zenon DEF ModifyEffect
<1>8. ASSUME NEW p \in All, install_transEffect(p) PROVE DataOK'
  <2>1. CASE tail <= Len(lh)
    <3>1. tail \in 1 .. Len(lh) /\ tail \in 1 .. LOGSIZE
      BY <2>1
    <3>2. lh[tail] \in Blocks /\ logged[tail] \in Vals
      BY <3>1
    <3>3. /\ home' = [home EXCEPT ![lh[tail]] = logged[tail]]
          /\ cache' = [cache EXCEPT ![lh[tail]] = logged[tail]]
          /\ dirty' = dirty \ {lh[tail]} /\ tail' = tail + 1
          /\ logged' = logged /\ head' = head /\ lh' = lh
      BY <1>8, <2>1, Zenon DEF install_transEffect
    <3>4. home' \in [Blocks -> Vals] /\ cache' \in [Blocks -> Vals \cup {NotCached}]
      BY <3>2, <3>3, Zenon
    <3> QED
      BY <2>1, <3>1, <3>3, <3>4
  <2>2. CASE ~ tail <= Len(lh)
    BY <1>8, <2>2, Zenon DEF install_transEffect
  <2> QED
    BY <2>1, <2>2, Zenon
<1>9. ASSUME NEW p \in All, clearEffect(p) PROVE DataOK'
  BY <1>9 DEF clearEffect
<1>10. ASSUME read_headEffect PROVE DataOK'
  BY <1>10 DEF read_headEffect
<1>11. ASSUME NEW b \in Blocks, LoadEffect(b) PROVE DataOK'
  BY <1>11, Zenon DEF LoadEffect
<1>12. ASSUME NEW b \in Blocks, EvictEffect(b) PROVE DataOK'
  BY <1>12, Zenon DEF EvictEffect
<1>13. ASSUME CrashEffect PROVE DataOK'
  BY <1>13 DEF CrashEffect
<1>14. ASSUME Stutter PROVE DataOK'
  BY <1>14, Zenon DEF Stutter
<1> QED
  BY <1>1, <1>2, <1>3, <1>4, <1>5, <1>6, <1>7, <1>8, <1>9, <1>10, <1>11, <1>12, <1>13, <1>14, Zenon DEF Effect


\* Every step keeps the types of the control.
LEMMA ControlStep ==
  ASSUME ControlOK, Phases, pc' \in [All -> Labels], Effect
  PROVE  ControlOK'
<1> USE LogAssumption DEF ControlOK
<1>1. ASSUME NEW p \in Procs, begin_opEffect(p) PROVE ControlOK'
  BY <1>1 DEF begin_opEffect
<1>2. ASSUME NEW p \in Procs, log_writeEffect(p) PROVE ControlOK'
  BY <1>2, Zenon DEF log_writeEffect, Phases
<1>3. ASSUME NEW p \in Procs, end_commitEffect(p) PROVE ControlOK'
  <2>1. committing' \in BOOLEAN
    BY <1>3, Zenon DEF end_commitEffect
  <2> QED
    BY <1>3, <2>1, Zenon DEF end_commitEffect
<1>4. ASSUME NEW p \in Procs, write_logEffect(p) PROVE ControlOK'
  BY <1>4, Zenon DEF write_logEffect
<1>5. ASSUME NEW p \in Procs, write_headEffect(p) PROVE ControlOK'
  BY <1>5, Zenon DEF write_headEffect
<1>6. ASSUME NEW p \in Procs, end_opEffect(p) PROVE ControlOK'
  <2>1. outstanding > 0
    BY <1>6, Counted, Zenon DEF end_opEffect, Active
  <2>2. committing' \in BOOLEAN
    BY <1>6, Zenon DEF end_opEffect
  <2> QED
    BY <1>6, <2>1, <2>2 DEF end_opEffect
<1>7. ASSUME NEW p \in Procs, NEW b \in Blocks, NEW v \in Vals, ModifyEffect(p, b, v) PROVE ControlOK'
  BY <1>7, Zenon DEF ModifyEffect
<1>8. ASSUME NEW p \in All, install_transEffect(p) PROVE ControlOK'
  BY <1>8, Zenon DEF install_transEffect
<1>9. ASSUME NEW p \in All, clearEffect(p) PROVE ControlOK'
  BY <1>9, Zenon DEF clearEffect
<1>10. ASSUME read_headEffect PROVE ControlOK'
  BY <1>10, Zenon DEF read_headEffect
<1>11. ASSUME NEW b \in Blocks, LoadEffect(b) PROVE ControlOK'
  BY <1>11, Zenon DEF LoadEffect
<1>12. ASSUME NEW b \in Blocks, EvictEffect(b) PROVE ControlOK'
  BY <1>12, Zenon DEF EvictEffect
<1>13. ASSUME CrashEffect PROVE ControlOK'
  <2>1. committing' \in BOOLEAN
    BY <1>13, Zenon DEF CrashEffect
  <2> QED
    BY <1>13, <2>1, Zenon DEF CrashEffect
<1>14. ASSUME Stutter PROVE ControlOK'
  BY <1>14, Zenon DEF Stutter
<1> QED
  BY <1>1, <1>2, <1>3, <1>4, <1>5, <1>6, <1>7, <1>8, <1>9, <1>10, <1>11, <1>12, <1>13, <1>14, Zenon DEF Effect
------------------------------------------------------------------------------
(* Wakeups                                                                  *)

\* Steps after which nobody else sleeps, and which end neither an operation nor
\* a commit.
LEMMA SleepersKept ==
  ASSUME NoLostWakeup, Up' => Up, committing' = committing, outstanding' = outstanding,
         \A q \in Procs : pc'[q] = "asleep" => pc[q] = "asleep"
  PROVE  NoLostWakeup'
  BY Zenon DEF NoLostWakeup


\* Every step leaves somebody to wake the processes that sleep.
LEMMA WakeupStep ==
  ASSUME outstanding \in Nat, Phases, Progress, NoLostWakeup, Effect
  PROVE  NoLostWakeup'
<1> USE LogAssumption DEF All
<1>1. ASSUME NEW p \in Procs, begin_opEffect(p) PROVE NoLostWakeup'
  <2>1. committing' \/ outstanding' > 0
    <3>1. Len(<<>>) = 0
      BY Zenon
    <3>2. CASE ~ committing /\ outstanding = 0
      <4>1. Fits
        BY <1>1, <3>1, <3>2 DEF begin_opEffect, Progress, Fits
      <4> QED
        BY <1>1, <3>2, <4>1 DEF begin_opEffect
    <3>3. CASE outstanding # 0
      BY <1>1, <3>3 DEF begin_opEffect
    <3>4. CASE committing
      BY <1>1, <3>4, Zenon DEF begin_opEffect
    <3> QED
      BY <3>2, <3>3, <3>4, Zenon
  <2> QED
    BY <2>1, Zenon DEF NoLostWakeup
<1>2. ASSUME NEW p \in Procs, log_writeEffect(p) PROVE NoLostWakeup'
  <2>1. \A q \in Procs : pc'[q] = "asleep" => pc[q] = "asleep"
    BY <1>2, Zenon DEF log_writeEffect, Others
  <2>2. Up' => Up
    BY <1>2, Zenon DEF log_writeEffect, Others, Up
  <2> QED
    BY <1>2, <2>1, <2>2, SleepersKept, Zenon DEF log_writeEffect
<1>3. ASSUME NEW p \in Procs, end_commitEffect(p) PROVE NoLostWakeup'
  <2>1. \A q \in Procs : pc'[q] # "asleep"
    BY <1>3, Zenon DEF end_commitEffect, Woke
  <2> QED
    BY <2>1, Zenon DEF NoLostWakeup
<1>4. ASSUME NEW p \in Procs, write_logEffect(p) PROVE NoLostWakeup'
  <2>1. \A q \in Procs : pc'[q] = "asleep" => pc[q] = "asleep"
    BY <1>4, Zenon DEF write_logEffect, Others
  <2>2. Up' => Up
    BY <1>4, Zenon DEF write_logEffect, Others, Up
  <2> QED
    BY <1>4, <2>1, <2>2, SleepersKept, Zenon DEF write_logEffect
<1>5. ASSUME NEW p \in Procs, write_headEffect(p) PROVE NoLostWakeup'
  <2>1. \A q \in Procs : pc'[q] = "asleep" => pc[q] = "asleep"
    BY <1>5, Zenon DEF write_headEffect, Others
  <2>2. Up' => Up
    BY <1>5, Zenon DEF write_headEffect, Others, Up
  <2> QED
    BY <1>5, <2>1, <2>2, SleepersKept, Zenon DEF write_headEffect
<1>6. ASSUME NEW p \in Procs, end_opEffect(p) PROVE NoLostWakeup'
  <2>1. CASE outstanding = 1
    <3>1. committing'
      BY <1>6, <2>1, Zenon DEF end_opEffect
    <3> QED
      BY <3>1, Zenon DEF NoLostWakeup
  <2>2. CASE outstanding # 1
    <3>1. \A q \in Procs : pc'[q] # "asleep"
      BY <1>6, <2>2, Zenon DEF end_opEffect, Woke
    <3> QED
      BY <3>1, Zenon DEF NoLostWakeup
  <2> QED
    BY <2>1, <2>2, Zenon
<1>7. ASSUME NEW p \in Procs, NEW b \in Blocks, NEW v \in Vals, ModifyEffect(p, b, v) PROVE NoLostWakeup'
  <2>1. \A q \in Procs : pc'[q] = "asleep" => pc[q] = "asleep"
    BY <1>7, Zenon DEF ModifyEffect, Others
  <2>2. Up' => Up
    BY <1>7, Zenon DEF ModifyEffect, Others, Up
  <2> QED
    BY <1>7, <2>1, <2>2, SleepersKept, Zenon DEF ModifyEffect
<1>8. ASSUME NEW p \in All, install_transEffect(p) PROVE NoLostWakeup'
  <2>1. CASE p \in Procs
    <3>1. \A q \in Procs : pc'[q] = "asleep" => pc[q] = "asleep"
      BY <1>8, <2>1, Zenon DEF install_transEffect, Others
    <3>2. Up' => Up
      BY <1>8, <2>1, Zenon DEF install_transEffect, Others, Up
    <3> QED
      BY <1>8, <3>1, <3>2, SleepersKept, Zenon DEF install_transEffect
  <2>2. CASE p = Boot
    <3>1. \A q \in Procs : pc'[q] = "idle"
      BY <1>8, <2>2, Zenon DEF install_transEffect, Others, Phases, Up
    <3> QED
      BY <3>1, Zenon DEF NoLostWakeup
  <2> QED
    BY <2>1, <2>2, Zenon
<1>9. ASSUME NEW p \in All, clearEffect(p) PROVE NoLostWakeup'
  <2>1. CASE p \in Procs
    <3>1. \A q \in Procs : pc'[q] = "asleep" => pc[q] = "asleep"
      BY <1>9, <2>1, Zenon DEF clearEffect, Others
    <3>2. Up' => Up
      BY <1>9, <2>1, Zenon DEF clearEffect, Others, Up
    <3> QED
      BY <1>9, <3>1, <3>2, SleepersKept, Zenon DEF clearEffect
  <2>2. CASE p = Boot
    <3>1. \A q \in Procs : pc'[q] = "idle"
      BY <1>9, <2>2, Zenon DEF clearEffect, Others, Phases, Up
    <3> QED
      BY <3>1, Zenon DEF NoLostWakeup
  <2> QED
    BY <2>1, <2>2, Zenon
<1>10. ASSUME read_headEffect PROVE NoLostWakeup'
  <2>1. \A q \in Procs : pc'[q] = "asleep" => pc[q] = "asleep"
    BY <1>10, Zenon DEF read_headEffect, Others
  <2>2. Up' => Up
    BY <1>10, Zenon DEF read_headEffect, Others, Up
  <2> QED
    BY <1>10, <2>1, <2>2, SleepersKept, Zenon DEF read_headEffect
<1>11. ASSUME NEW b \in Blocks, LoadEffect(b) PROVE NoLostWakeup'
  <2>1. \A q \in Procs : pc'[q] = "asleep" => pc[q] = "asleep"
    BY <1>11, Zenon DEF LoadEffect, Others
  <2>2. Up' => Up
    BY <1>11, Zenon DEF LoadEffect, Others, Up
  <2> QED
    BY <1>11, <2>1, <2>2, SleepersKept, Zenon DEF LoadEffect
<1>12. ASSUME NEW b \in Blocks, EvictEffect(b) PROVE NoLostWakeup'
  <2>1. \A q \in Procs : pc'[q] = "asleep" => pc[q] = "asleep"
    BY <1>12, Zenon DEF EvictEffect, Others
  <2>2. Up' => Up
    BY <1>12, Zenon DEF EvictEffect, Others, Up
  <2> QED
    BY <1>12, <2>1, <2>2, SleepersKept, Zenon DEF EvictEffect
<1>13. ASSUME CrashEffect PROVE NoLostWakeup'
  <2>1. \A q \in Procs : pc'[q] # "asleep"
    BY <1>13, Zenon DEF CrashEffect
  <2> QED
    BY <2>1, Zenon DEF NoLostWakeup
<1>14. ASSUME Stutter PROVE NoLostWakeup'
  <2>1. \A q \in Procs : pc'[q] = "asleep" => pc[q] = "asleep"
    BY <1>14, Zenon DEF Stutter, Others
  <2>2. Up' => Up
    BY <1>14, Zenon DEF Stutter, Others, Up
  <2> QED
    BY <1>14, <2>1, <2>2, SleepersKept, Zenon DEF Stutter
<1> QED
  BY <1>1, <1>2, <1>3, <1>4, <1>5, <1>6, <1>7, <1>8, <1>9, <1>10, <1>11, <1>12, <1>13, <1>14, Zenon DEF Effect

------------------------------------------------------------------------------
(* The log and the cache                                                    *)

\* Nobody commits while an operation runs or before the kernel is up.
LEMMA NoCommitter ==
  ASSUME Phases, ~ committing
  PROVE  \A q \in Procs : pc[q] \notin Committing /\ ~ Installs(q)
  BY Zenon DEF Phases, Committing, Installs

\* Steps that change neither the log nor the cache.
LEMMA CachedKept ==
  ASSUME Cached, UNCHANGED <<lh, head, dirty, cache, home, buf>>, Up' <=> Up,
         \A p \in Procs : Installs(p)' <=> Installs(p),
         (\E p \in Procs : Installs(p)) => tail' = tail
  PROVE  Cached'
<1>1. CASE \E p \in Procs : Installs(p)
  BY <1>1 DEF Cached
<1>2. CASE ~ \E p \in Procs : Installs(p)
  BY <1>2 DEF Cached
<1> QED
  BY <1>1, <1>2, Zenon


\* Every step keeps the log and the cache in agreement with the disk.
LEMMA CachedStep ==
  ASSUME DataOK, buf \in [Procs -> Blocks \cup {NoBlock}], outstanding \in Nat,
         Phases, Cached, Progress, Effect
  PROVE  Cached'
<1> USE LogAssumption DEF All
<1>a. lh \in Seq(Blocks) /\ Len(lh) \in Nat /\ dirty \subseteq Blocks
  BY DEF DataOK
<1>b. /\ home \in [Blocks -> Vals] /\ cache \in [Blocks -> Vals \cup {NotCached}]
      /\ tail \in Nat /\ tail >= 1 /\ \A i \in 1 .. Len(lh) : logged[i] \in Vals
  BY DEF DataOK, Index
<1>1. ASSUME NEW p \in Procs, begin_opEffect(p) PROVE Cached'
  <2>1. UNCHANGED <<lh, head, dirty, cache, home, buf>> /\ (Up' <=> Up)
    BY <1>1, Zenon DEF begin_opEffect, Others, Woke, Up
  <2>2. \A q \in Procs : Installs(q)' <=> Installs(q)
    BY <1>1, Zenon DEF begin_opEffect, Others, Woke, Installs
  <2>3. (\E q \in Procs : Installs(q)) => tail' = tail
    BY <1>1, Zenon DEF begin_opEffect
  <2> QED
    BY <2>1, <2>2, <2>3, CachedKept, Zenon
<1>2. ASSUME NEW p \in Procs, log_writeEffect(p) PROVE Cached'
  <2>0. ~ committing
    BY <1>2, Counted, Zenon DEF log_writeEffect, Active
  <2>1. /\ UNCHANGED <<head, cache, home, tail>> /\ Up /\ Up'
        /\ \A q \in Procs : ~ Installs(q)' /\ ~ Installs(q)
        /\ lh' = IF buf[p] \in Elems(lh) THEN lh ELSE Append(lh, buf[p])
        /\ dirty' = dirty \cup {buf[p]} /\ buf' = [buf EXCEPT ![p] = NoBlock]
        /\ buf[p] \in Blocks
    BY <1>2, <2>0, NoCommitter, Zenon DEF log_writeEffect, Others, Up, Installs, Phases
  <2>2. /\ \A i \in 1 .. Len(lh) : lh'[i] = lh[i]
        /\ Len(lh') >= Len(lh) /\ Len(lh') \in Nat
        /\ \A i, j \in 1 .. Len(lh') : lh'[i] = lh'[j] => i = j
        /\ \E i \in 1 .. Len(lh') : lh'[i] = buf[p]
        /\ \A i \in 1 .. Len(lh') : i \in 1 .. Len(lh) \/ lh'[i] = buf[p]
    <3>1. CASE buf[p] \in Elems(lh)
      BY <1>a, <2>1, <3>1 DEF Elems, Cached
    <3>2. CASE buf[p] \notin Elems(lh)
      <4>1. lh' = Append(lh, buf[p])
        BY <2>1, <3>2, Zenon
      <4>2. /\ Len(lh') = Len(lh) + 1 /\ Len(lh) \in Nat
            /\ \A i \in 1 .. Len(lh) : lh'[i] = lh[i]
            /\ lh'[Len(lh) + 1] = buf[p]
        BY <1>a, <2>1, <4>1
      <4>3. \A i \in 1 .. Len(lh) : lh[i] # buf[p]
        BY <3>2, Zenon DEF Elems
      <4>4. \A i, j \in 1 .. Len(lh) : lh[i] = lh[j] => i = j
        BY Zenon DEF Cached
      <4>5. \A i \in 1 .. Len(lh') : i \in 1 .. Len(lh) \/ i = Len(lh) + 1
        BY <4>2
      <4>6. \A i, j \in 1 .. Len(lh') : lh'[i] = lh'[j] => i = j
        BY <4>2, <4>3, <4>4, <4>5, Zenon
      <4>7. \E i \in 1 .. Len(lh') : lh'[i] = buf[p]
        <5>1. Len(lh) + 1 \in 1 .. Len(lh')
          BY <4>2
        <5> QED
          BY <4>2, <5>1, Zenon
      <4>8. Len(lh') >= Len(lh) /\ Len(lh') \in Nat
        BY <4>2
      <4>9. \A i \in 1 .. Len(lh') : i \in 1 .. Len(lh) \/ lh'[i] = buf[p]
        BY <4>2, <4>5, Zenon
      <4> QED
        BY <4>2, <4>6, <4>7, <4>8, <4>9, Zenon
    <3> QED
      BY <3>1, <3>2, Zenon
  <2>3. cache[buf[p]] # NotCached
    BY <2>1, Zenon DEF Cached
  <2>4. \A c \in Blocks : c # buf[p] /\ (\A q \in Procs : buf'[q] # c) =>
                              \A q \in Procs : buf[q] # c
    BY <2>1, Zenon
  <2>5. dirty' \subseteq Blocks /\ \A c \in dirty' : c = buf[p] \/ c \in dirty
    BY <1>a, <2>1, Zenon
  <2>6. \A q \in Procs : buf'[q] \in Blocks => buf'[q] = buf[q]
    BY <2>1, Zenon
  <2>7. Up' => \A c \in dirty' : \E i \in 1 .. Len(lh') :
                 lh'[i] = c /\ \A q \in Procs : Installs(q)' => i >= tail'
    <3> SUFFICES ASSUME NEW c \in dirty' PROVE \E i \in 1 .. Len(lh') : lh'[i] = c
      BY <2>1, Zenon
    <3>1. CASE c = buf[p]
      BY <2>2, <3>1, Zenon
    <3>2. CASE c \in dirty
      <4>1. PICK i \in 1 .. Len(lh) : lh[i] = c
        BY <2>1, <3>2, Zenon DEF Cached
      <4>2. i \in 1 .. Len(lh') /\ lh'[i] = c
        BY <2>2, <4>1
      <4> QED
        BY <4>2, Zenon
    <3> QED
      BY <2>5, <3>1, <3>2, Zenon
  <2>8. Up' => \A i \in 1 .. Len(lh') : lh'[i] \in dirty'
    BY <2>1, <2>2 DEF Cached
  <2>9. \A c \in Blocks : c \notin dirty' /\ (\A q \in Procs : buf'[q] # c)
                          => cache'[c] \in {NotCached, home'[c]}
    BY <2>1, <2>4, Zenon DEF Cached
  <2>10. \A i, j \in 1 .. Len(head') : head'[i] = head'[j] => i = j
    BY <2>1 DEF Cached
  <2>11. /\ \A c \in dirty' : cache'[c] # NotCached
         /\ \A q \in Procs : buf'[q] \in Blocks => cache'[buf'[q]] # NotCached
    BY <2>1, <2>3, <2>5, <2>6 DEF Cached
  <2> QED
    BY <2>1, <2>2, <2>7, <2>8, <2>9, <2>10, <2>11 DEF Cached
<1>3. ASSUME NEW p \in Procs, end_commitEffect(p) PROVE Cached'
  <2>1. UNCHANGED <<lh, head, dirty, cache, home, buf>> /\ (Up' <=> Up)
    BY <1>3, Zenon DEF end_commitEffect, Others, Woke, Up
  <2>2. \A q \in Procs : Installs(q)' <=> Installs(q)
    BY <1>3, Zenon DEF end_commitEffect, Others, Woke, Installs
  <2>3. (\E q \in Procs : Installs(q)) => tail' = tail
    BY <1>3, Zenon DEF end_commitEffect
  <2> QED
    BY <2>1, <2>2, <2>3, CachedKept, Zenon
<1>4. ASSUME NEW p \in Procs, write_logEffect(p) PROVE Cached'
  <2>1. UNCHANGED <<lh, head, dirty, cache, home, buf>> /\ (Up' <=> Up)
    BY <1>4, Zenon DEF write_logEffect, Others, Woke, Up
  <2>2. \A q \in Procs : Installs(q)' <=> Installs(q)
    BY <1>4, Zenon DEF write_logEffect, Others, Woke, Installs
  <2>3. (\E q \in Procs : Installs(q)) => tail' = tail
    BY <1>4, Zenon DEF write_logEffect, Phases, Committing, Installs
  <2> QED
    BY <2>1, <2>2, <2>3, CachedKept, Zenon
<1>5. ASSUME NEW p \in Procs, write_headEffect(p) PROVE Cached'
  <2>1. /\ UNCHANGED <<lh, dirty, cache, home, buf>> /\ Up /\ Up' /\ head' = lh /\ tail' = 1
        /\ \A q \in Procs : ~ Installs(q)
    BY <1>5, Zenon DEF write_headEffect, Others, Up, Phases, Committing, Installs
  <2> QED
    BY <2>1 DEF Cached
<1>6. ASSUME NEW p \in Procs, end_opEffect(p) PROVE Cached'
  <2>1. UNCHANGED <<lh, head, dirty, cache, home, buf>> /\ (Up' <=> Up)
    BY <1>6, Zenon DEF end_opEffect, Others, Woke, Up
  <2>2. \A q \in Procs : Installs(q)' <=> Installs(q)
    BY <1>6, Zenon DEF end_opEffect, Others, Woke, Installs
  <2>3. (\E q \in Procs : Installs(q)) => tail' = tail
    BY <1>6, NoCommitter, Zenon DEF end_opEffect
  <2> QED
    BY <2>1, <2>2, <2>3, CachedKept, Zenon
<1>7. ASSUME NEW p \in Procs, NEW b \in Blocks, NEW v \in Vals, ModifyEffect(p, b, v) PROVE Cached'
  <2>1. /\ UNCHANGED <<lh, head, dirty, home, tail>> /\ (Up' <=> Up)
        /\ \A q \in Procs : Installs(q)' <=> Installs(q)
        /\ cache' = [cache EXCEPT ![b] = v] /\ buf' = [buf EXCEPT ![p] = b]
        /\ buf[p] = NoBlock
    BY <1>7, Zenon DEF ModifyEffect, Others, Up, Installs, Phases
  <2>2. \A c \in Blocks : (\A q \in Procs : buf'[q] # c) => c # b /\ \A q \in Procs : buf[q] # c
    BY <2>1, Zenon
  <2>3. \A c \in Blocks \ {b} : cache'[c] = cache[c]
    BY <1>b, <2>1, Zenon
  <2>4. cache'[b] # NotCached
    BY <1>b, <2>1, Zenon
  <2>5. /\ \A c \in dirty' : cache'[c] # NotCached
        /\ \A q \in Procs : buf'[q] \in Blocks => cache'[buf'[q]] # NotCached
        /\ \A c \in Blocks : c \notin dirty' /\ (\A q \in Procs : buf'[q] # c)
                               => cache'[c] \in {NotCached, home'[c]}
    BY <1>a, <2>1, <2>2, <2>3, <2>4 DEF Cached
  <2> QED
    BY <2>1, <2>5 DEF Cached
<1>8. ASSUME NEW p \in All, install_transEffect(p) PROVE Cached'
  <2>1. CASE tail <= Len(lh)
    <3> DEFINE x == lh[tail]
    <3>0. \A q \in All : pc'[q] = pc[q]
      BY <1>8, <2>1, Zenon DEF install_transEffect, Others
    <3>1. /\ UNCHANGED <<lh, head, buf>> /\ (Up' <=> Up)
          /\ \A q \in Procs : Installs(q)' <=> Installs(q)
          /\ home' = [home EXCEPT ![x] = logged[tail]]
          /\ cache' = [cache EXCEPT ![x] = logged[tail]]
          /\ dirty' = dirty \ {x} /\ tail' = tail + 1
      BY <1>8, <2>1, <3>0, Zenon DEF install_transEffect, Up, Installs
    <3>2. x \in Blocks /\ tail \in 1 .. Len(lh) /\ logged[tail] \in Vals
      BY <1>a, <1>b, <2>1
    <3>3. \A c \in Blocks \ {x} : cache'[c] = cache[c] /\ home'[c] = home[c]
      BY <1>b, <3>1, Zenon
    <3>4. cache'[x] = logged[tail] /\ home'[x] = logged[tail]
      BY <1>b, <3>1, <3>2, Zenon
    <3>5. \A i \in 1 .. Len(lh) : lh[i] = x => i = tail
      BY <3>2, Zenon DEF Cached
    <3>6. \A q \in Procs : Installs(q) => q = p
      BY <1>8, Zenon DEF install_transEffect, Phases, Committing, Installs, Up
    <3>7. Up => p \in Procs /\ Installs(p)
      BY <1>8, Zenon DEF install_transEffect, Up, Installs
    <3> HIDE DEF x
    <3>8. /\ \A c \in dirty' : cache'[c] # NotCached
          /\ \A q \in Procs : buf'[q] \in Blocks => cache'[buf'[q]] # NotCached
          /\ \A c \in Blocks : c \notin dirty' /\ (\A q \in Procs : buf'[q] # c)
                              => cache'[c] \in {NotCached, home'[c]}
      BY <1>a, <3>1, <3>2, <3>3, <3>4 DEF Cached
    <3>9. ~ Up' => dirty' = {}
      BY <3>1, Zenon DEF Cached
    <3>10. Up' => \A c \in dirty' : \E i \in 1 .. Len(lh') :
                    lh'[i] = c /\ \A q \in Procs : Installs(q)' => i >= tail'
      <4> SUFFICES ASSUME Up', NEW c \in dirty'
                   PROVE  \E i \in 1 .. Len(lh') : lh'[i] = c /\ i >= tail'
        BY Zenon
      <4>1. Up /\ c \in dirty /\ c # x
        BY <3>1, Zenon
      <4>2. PICK i \in 1 .. Len(lh) : lh[i] = c /\ i >= tail
        BY <3>7, <4>1, Zenon DEF Cached
      <4>3. i # tail
        BY <4>1, <4>2, Zenon DEF x
      <4> QED
        BY <3>1, <3>2, <4>2, <4>3
    <3>11. Up' => \A i \in 1 .. Len(lh') :
                    (\A q \in Procs : Installs(q)' => i >= tail') => lh'[i] \in dirty'
      <4> SUFFICES ASSUME Up', NEW i \in 1 .. Len(lh'), \A q \in Procs : Installs(q)' => i >= tail'
                   PROVE  lh'[i] \in dirty'
        BY Zenon
      <4>1. Up /\ i \in 1 .. Len(lh) /\ i >= tail + 1
        BY <3>1, <3>7, Zenon
      <4>2. lh[i] \in dirty /\ lh[i] # x
        BY <3>2, <3>5, <4>1 DEF Cached
      <4> QED
        BY <3>1, <4>2, Zenon
    <3> QED
      BY <3>1, <3>8, <3>9, <3>10, <3>11 DEF Cached
  <2>2. CASE ~ tail <= Len(lh)
    <3>1. /\ UNCHANGED <<lh, head, dirty, cache, home, buf, tail>> /\ (Up' <=> Up)
          /\ \A q \in Procs : Installs(q)' <=> Installs(q)
      BY <1>8, <2>2, Zenon DEF install_transEffect, Others, Up, Installs
    <3> QED
      BY <3>1, CachedKept, Zenon
  <2> QED
    BY <2>1, <2>2, Zenon
<1>9. ASSUME NEW p \in All, clearEffect(p) PROVE Cached'
  <2>1. /\ UNCHANGED <<dirty, cache, home, buf>> /\ lh' = <<>> /\ head' = <<>> /\ Up'
        /\ tail = Len(lh) + 1
    BY <1>9, Zenon DEF clearEffect, Others, Up, Progress
  <2>2. dirty = {}
    <3>1. CASE p = Boot
      BY <1>9, <3>1, Zenon DEF clearEffect, Up, Cached
    <3>2. CASE p \in Procs
      BY <1>a, <1>9, <2>1, <3>2 DEF clearEffect, Up, Cached, Installs
    <3> QED
      BY <3>1, <3>2, Zenon
  <2> QED
    BY <2>1, <2>2 DEF Cached
<1>10. ASSUME read_headEffect PROVE Cached'
  <2>1. /\ UNCHANGED <<dirty, cache, home, buf, head>> /\ lh' = head /\ ~ Up /\ ~ Up'
    BY <1>10, Zenon DEF read_headEffect, Up
  <2> QED
    BY <2>1 DEF Cached
<1>11. ASSUME NEW b \in Blocks, LoadEffect(b) PROVE Cached'
  <2>1. /\ UNCHANGED <<lh, head, dirty, home, buf, tail>> /\ (Up' <=> Up)
        /\ \A q \in Procs : Installs(q)' <=> Installs(q)
    BY <1>11, Zenon DEF LoadEffect, Up, Installs
  <2>2. /\ \A c \in Blocks \ {b} : cache'[c] = cache[c]
        /\ cache'[b] = home[b] /\ cache'[b] # NotCached
    BY <1>b, <1>11, Zenon DEF LoadEffect
  <2>3. /\ \A c \in dirty' : cache'[c] # NotCached
        /\ \A q \in Procs : buf'[q] \in Blocks => cache'[buf'[q]] # NotCached
        /\ \A c \in Blocks : c \notin dirty' /\ (\A q \in Procs : buf'[q] # c)
                               => cache'[c] \in {NotCached, home'[c]}
    BY <1>a, <2>1, <2>2, Zenon DEF Cached
  <2> QED
    BY <2>1, <2>3 DEF Cached
<1>12. ASSUME NEW b \in Blocks, EvictEffect(b) PROVE Cached'
  <2>1. /\ UNCHANGED <<lh, head, dirty, home, buf, tail>> /\ (Up' <=> Up)
        /\ \A q \in Procs : Installs(q)' <=> Installs(q)
    BY <1>12, Zenon DEF EvictEffect, Up, Installs
  <2>2. /\ \A c \in Blocks \ {b} : cache'[c] = cache[c]
        /\ cache'[b] = NotCached /\ b \notin dirty /\ \A q \in Procs : buf[q] # b
    BY <1>b, <1>12, Zenon DEF EvictEffect
  <2>3. /\ \A c \in dirty' : cache'[c] # NotCached
        /\ \A q \in Procs : buf'[q] \in Blocks => cache'[buf'[q]] # NotCached
        /\ \A c \in Blocks : c \notin dirty' /\ (\A q \in Procs : buf'[q] # c)
                               => cache'[c] \in {NotCached, home'[c]}
    BY <1>a, <2>1, <2>2 DEF Cached
  <2> QED
    BY <2>1, <2>3 DEF Cached
<1>13. ASSUME CrashEffect PROVE Cached'
  <2>1. /\ head' = head /\ lh' = <<>> /\ dirty' = {} /\ ~ Up'
        /\ \A c \in Blocks : cache'[c] = NotCached
        /\ \A q \in Procs : buf'[q] = NoBlock
    BY <1>13, Zenon DEF CrashEffect, Up
  <2> QED
    BY <2>1 DEF Cached
<1>14. ASSUME Stutter PROVE Cached'
  <2>1. UNCHANGED <<lh, head, dirty, cache, home, buf>> /\ (Up' <=> Up)
    BY <1>14, Zenon DEF Stutter, Others, Woke, Up
  <2>2. \A q \in Procs : Installs(q)' <=> Installs(q)
    BY <1>14, Zenon DEF Stutter, Others, Woke, Installs
  <2>3. (\E q \in Procs : Installs(q)) => tail' = tail
    BY <1>14, Zenon DEF Stutter
  <2> QED
    BY <2>1, <2>2, <2>3, CachedKept, Zenon
<1> QED
  BY <1>1, <1>2, <1>3, <1>4, <1>5, <1>6, <1>7, <1>8, <1>9, <1>10, <1>11, <1>12, <1>13, <1>14, Zenon DEF Effect
------------------------------------------------------------------------------
(* How far a commit or recovery has come                                    *)

\* The part of Progress that is about p, which commits.
Commits(p) ==
  /\ Installs(p) => head = lh
  /\ ~ Installs(p) => head = <<>>
  /\ pc[p] = "done" => lh = <<>>
  /\ pc[p] \in {"write_log", "install_trans"} => tail <= Len(lh) + 1
  /\ pc[p] = "clear" => tail = Len(lh) + 1
  /\ pc[p] \in {"write_log", "write_head", "install_trans", "clear"} =>
       \A i \in 1 .. Len(lh) : (pc[p] = "write_log" => i < tail) => logged[i] = Bread(lh[i])
  /\ Installs(p) => \A i \in 1 .. Len(lh) : i < tail => home[lh[i]] = logged[i]

\* A process that commits is the only one.
LEMMA Committer ==
  ASSUME Phases, Progress, Up, NEW p \in Procs, pc[p] \in Committing
  PROVE  /\ committing /\ Commits(p)
         /\ \A q \in Procs \ {p} : pc[q] \notin Committing
<1>1. committing /\ \A q \in Procs \ {p} : pc[q] \notin Committing
  BY Zenon DEF Phases
<1>2. ~ Installs(p) => head = <<>>
  BY <1>1, Zenon DEF Progress, Installs, Committing
<1>3. p \in All
  BY Zenon DEF All
<1> QED
  BY <1>1, <1>2, <1>3, Zenon DEF Progress, Commits

\* So Progress says nothing of the others.
LEMMA OneCommits ==
  ASSUME NEW p \in Procs, (pc[Boot] = "up")', committing', Commits(p)',
         \A q \in Procs \ {p} : pc'[q] \notin Committing
  PROVE  Progress'
<1>1. \A q \in Procs \ {p} : ~ Installs(q)' /\ pc'[q] \notin {"done", "write_log", "write_head"}
  BY Zenon DEF Committing, Installs
<1>2. ~ Installs(Boot)' /\ pc'[Boot] # "write_log" /\ All = (Procs \ {p}) \cup {p, Boot}
  BY Zenon DEF Installs, All
<1> QED
  BY <1>1, <1>2, Zenon DEF Progress, Commits, Installs

\* When nobody commits the header on disk is empty.
LEMMA NobodyCommits ==
  ASSUME pc'[Boot] = "up", \A q \in Procs : pc'[q] \notin Committing, head' = <<>>,
         outstanding' = 0 /\ ~ committing' => lh' = <<>>
  PROVE  Progress'
<1>1. \A q \in Procs : ~ Installs(q)' /\ pc'[q] \notin {"done", "write_log", "write_head"}
  BY Zenon DEF Committing, Installs
<1>2. ~ Installs(Boot)' /\ pc'[Boot] # "write_log"
  BY Zenon DEF Installs
<1> QED
  BY <1>1, <1>2, Zenon DEF Progress, All, Installs

\* During recovery there is nobody else.
LEMMA BootRecovers ==
  ASSUME pc'[Boot] \in {"read_head", "install_trans", "clear"},
         \A q \in Procs : pc'[q] = "idle",
         pc'[Boot] # "read_head" =>
           /\ head' = lh' /\ tail' <= Len(lh') + 1
           /\ pc'[Boot] = "clear" => tail' = Len(lh') + 1
           /\ \A i \in 1 .. Len(lh') : i < tail' => home'[lh'[i]] = logged'[i]
  PROVE  Progress'
  BY Zenon DEF Progress, Installs, Up, All

\* Steps that touch neither the log nor the disk, by nobody who commits.
LEMMA ProgressKept ==
  ASSUME Progress, UNCHANGED <<head, lh, tail, logged, home, outstanding, committing>>,
         \A b \in Blocks : Bread(b)' = Bread(b), lh \in Seq(Blocks),
         \A q \in All : \/ pc'[q] = pc[q]
                        \/ pc[q] \in {"idle", "begin"} /\ pc'[q] = "asleep"
  PROVE  Progress'
<1>1. \A q \in All : /\ Installs(q)' <=> Installs(q)
                     /\ \A l \in Committing \cup {"up"} : pc'[q] = l <=> pc[q] = l
  BY Zenon DEF Installs, Committing
<1>2. Up' <=> Up
  BY <1>1, Zenon DEF Up, All
<1>3. \A i \in 1 .. Len(lh) : Bread(lh[i])' = Bread(lh[i])
  OBVIOUS
<1>4. Procs \subseteq All
  BY Zenon DEF All
<1> QED
  BY <1>1, <1>2, <1>3, <1>4 DEF Progress, Committing

\* While an operation runs, or could begin, nothing is committed.
LEMMA NoneLogged ==
  ASSUME Phases, Progress, Up, ~ committing
  PROVE  head = <<>> /\ pc[Boot] = "up" /\ \A q \in Procs : pc[q] \notin Committing
  BY NoCommitter, Zenon DEF Progress, Up


\* Every step keeps the account of how far a commit or recovery has come.
LEMMA ProgressStep ==
  ASSUME DataOK, outstanding \in Nat, buf \in [Procs -> Blocks \cup {NoBlock}],
         Phases, Cached, Progress, Effect
  PROVE  Progress'
<1> USE LogAssumption DEF All
<1>a. lh \in Seq(Blocks) /\ Len(lh) \in Nat
  BY DEF DataOK
<1>b. /\ home \in [Blocks -> Vals] /\ cache \in [Blocks -> Vals \cup {NotCached}]
      /\ tail \in Nat /\ tail >= 1 /\ DOMAIN logged = Index /\ Len(lh) <= LOGSIZE
      /\ \A i \in 1 .. Len(lh) : i \in DOMAIN logged /\ logged[i] \in Vals
  BY DEF DataOK, Index
<1>1. ASSUME NEW p \in Procs, begin_opEffect(p) PROVE Progress'
  <2>1. CASE pc'[p] = "op"
    <3>1. ~ committing /\ outstanding' = outstanding + 1 /\ head' = head /\ Up /\ Others(p)
      BY <1>1, <2>1, Zenon DEF begin_opEffect
    <3>2. head = <<>> /\ pc[Boot] = "up" /\ \A q \in Procs : pc[q] \notin Committing
      BY <3>1, NoneLogged, Zenon
    <3>3. pc'[Boot] = "up" /\ \A q \in Procs : pc'[q] \notin Committing
      BY <2>1, <3>1, <3>2, Zenon DEF Others, Committing
    <3> QED
      BY <3>1, <3>2, <3>3, NobodyCommits
  <2>2. CASE pc'[p] # "op"
    <3>1. /\ UNCHANGED <<head, lh, tail, logged, home, cache, outstanding, committing>>
          /\ pc[p] \in {"idle", "begin"} /\ pc'[p] = "asleep" /\ Others(p)
      BY <1>1, <2>2, Zenon DEF begin_opEffect
    <3>2. \A c \in Blocks : Bread(c)' = Bread(c)
      BY <3>1, Zenon DEF Bread
    <3>3. \A q \in All : \/ pc'[q] = pc[q]
                         \/ pc[q] \in {"idle", "begin"} /\ pc'[q] = "asleep"
      BY <3>1, Zenon DEF Others
    <3> QED
      BY <1>a, <3>1, <3>2, <3>3, ProgressKept, Zenon
  <2> QED
    BY <2>1, <2>2, Zenon
<1>2. ASSUME NEW p \in Procs, log_writeEffect(p) PROVE Progress'
  <2>1. p \in Active /\ Up /\ Others(p) /\ head' = head /\ outstanding' = outstanding /\ pc'[p] = "op"
    BY <1>2, Zenon DEF log_writeEffect, Active
  <2>2. outstanding > 0 /\ ~ committing
    BY <2>1, Counted, Zenon
  <2>3. head = <<>> /\ pc[Boot] = "up" /\ \A q \in Procs : pc[q] \notin Committing
    BY <2>1, <2>2, NoneLogged, Zenon
  <2>4. pc'[Boot] = "up" /\ \A q \in Procs : pc'[q] \notin Committing
    BY <2>1, <2>3, Zenon DEF Others, Committing
  <2> QED
    BY <2>1, <2>2, <2>3, <2>4, NobodyCommits
<1>3. ASSUME NEW p \in Procs, end_commitEffect(p) PROVE Progress'
  <2>1. /\ pc[p] = "done" /\ pc[p] \in Committing /\ Up /\ Woke(p) /\ pc'[p] = "idle"
        /\ head' = head /\ lh' = lh
    BY <1>3, Zenon DEF end_commitEffect, Committing
  <2>2. Commits(p) /\ \A q \in Procs \ {p} : pc[q] \notin Committing
    BY <2>1, Committer, Zenon
  <2>3. head = <<>> /\ lh = <<>>
    BY <2>1, <2>2, Zenon DEF Commits, Installs
  <2>4. pc'[Boot] = "up" /\ \A q \in Procs : pc'[q] \notin Committing
    BY <2>1, <2>2, Zenon DEF Woke, Committing, Up
  <2> QED
    BY <2>1, <2>3, <2>4, NobodyCommits, Zenon
<1>4. ASSUME NEW p \in Procs, write_logEffect(p) PROVE Progress'
  <2>1. /\ pc[p] = "write_log" /\ pc[p] \in Committing /\ Up /\ Others(p)
        /\ UNCHANGED <<home, head, cache, lh, committing>>
    BY <1>4, Zenon DEF write_logEffect, Committing
  <2>2. committing /\ Commits(p) /\ \A q \in Procs \ {p} : pc[q] \notin Committing
    BY <2>1, Committer, Zenon
  <2>3. pc'[Boot] = "up" /\ committing' /\ \A q \in Procs \ {p} : pc'[q] \notin Committing
    BY <2>1, <2>2, Zenon DEF Others, Up
  <2>4. \A i \in 1 .. Len(lh) : Bread(lh[i])' = Bread(lh[i])
    BY <2>1, Zenon DEF Bread
  <2>5. head = <<>> /\ \A i \in 1 .. Len(lh) : i < tail => logged[i] = Bread(lh[i])
    BY <2>1, <2>2, Zenon DEF Commits, Installs
  <2>6. CASE tail <= Len(lh)
    <3>1. /\ logged' = [logged EXCEPT ![tail] = Bread(lh[tail])]
          /\ tail' = tail + 1 /\ pc'[p] = "write_log"
      BY <1>4, <2>6, Zenon DEF write_logEffect
    <3>2. \A i \in 1 .. Len(lh) : i < tail' => logged'[i] = Bread(lh[i])
      BY <1>a, <1>b, <2>5, <2>6, <3>1
    <3>3. tail' <= Len(lh) + 1
      BY <1>a, <1>b, <2>6, <3>1
    <3>4. Commits(p)'
      BY <2>1, <2>4, <2>5, <3>1, <3>2, <3>3 DEF Commits, Installs
    <3> QED
      BY <2>3, <3>4, OneCommits, Zenon
  <2>7. CASE ~ tail <= Len(lh)
    <3>1. UNCHANGED <<logged, tail>> /\ pc'[p] = "write_head"
      BY <1>4, <2>7, Zenon DEF write_logEffect
    <3>2. \A i \in 1 .. Len(lh) : logged'[i] = Bread(lh[i])
      BY <1>a, <1>b, <2>5, <2>7, <3>1
    <3>3. Commits(p)'
      BY <2>1, <2>4, <2>5, <3>1, <3>2, Zenon DEF Commits, Installs
    <3> QED
      BY <2>3, <3>3, OneCommits, Zenon
  <2> QED
    BY <2>6, <2>7, Zenon
<1>5. ASSUME NEW p \in Procs, write_headEffect(p) PROVE Progress'
  <2>1. /\ pc[p] = "write_head" /\ pc[p] \in Committing /\ Up /\ Others(p)
        /\ UNCHANGED <<home, logged, cache, lh, committing>>
        /\ head' = lh /\ tail' = 1 /\ pc'[p] = "install_trans"
    BY <1>5, Zenon DEF write_headEffect, Committing
  <2>2. committing /\ Commits(p) /\ \A q \in Procs \ {p} : pc[q] \notin Committing
    BY <2>1, Committer, Zenon
  <2>3. pc'[Boot] = "up" /\ committing' /\ \A q \in Procs \ {p} : pc'[q] \notin Committing
    BY <2>1, <2>2, Zenon DEF Others, Up
  <2>4. \A i \in 1 .. Len(lh) : Bread(lh[i])' = Bread(lh[i]) /\ logged[i] = Bread(lh[i])
    BY <2>1, <2>2, Zenon DEF Bread, Commits
  <2>5. Commits(p)'
    <3>1. lh' = lh /\ head' = lh' /\ tail' = 1 /\ pc'[p] = "install_trans" /\ Installs(p)'
      BY <2>1, Zenon DEF Installs
    <3>2. \A i \in 1 .. Len(lh') : logged'[i] = Bread(lh[i])'
      <4>1. logged' = logged /\ lh' = lh
        BY <2>1, Zenon
      <4> QED  BY <2>4, <4>1, Zenon
    <3>3. tail' <= Len(lh') + 1 /\ \A i \in 1 .. Len(lh') : ~ (i < tail')
      BY <1>a, <3>1
    <3> QED  BY <3>1, <3>2, <3>3, Zenon DEF Commits
  <2> QED
    BY <2>3, <2>5, OneCommits, Zenon
<1>6. ASSUME NEW p \in Procs, end_opEffect(p) PROVE Progress'
  <2>1. /\ p \in Active /\ Up /\ pc[p] = "op" /\ ~ committing /\ head' = head /\ lh' = lh
        /\ outstanding' = outstanding - 1
    BY <1>6, Zenon DEF end_opEffect, Active
  <2>2. outstanding > 0
    BY <2>1, Counted, Zenon
  <2>3. head = <<>> /\ pc[Boot] = "up" /\ \A q \in Procs : pc[q] \notin Committing
    BY <2>1, NoneLogged, Zenon
  <2>4. CASE outstanding = 1
    <3>1. /\ committing' = TRUE /\ tail' = 1 /\ Others(p)
          /\ pc'[p] = IF lh = <<>> THEN "done" ELSE "write_log"
      BY <1>6, <2>4, Zenon DEF end_opEffect
    <3>2. pc'[Boot] = "up" /\ committing' /\ \A q \in Procs \ {p} : pc'[q] \notin Committing
      BY <2>3, <3>1, Zenon DEF Others
    <3>3. Commits(p)'
      BY <1>a, <2>1, <2>3, <3>1 DEF Commits, Installs
    <3> QED
      BY <3>2, <3>3, OneCommits, Zenon
  <2>5. CASE outstanding # 1
    <3>1. Woke(p) /\ pc'[p] = "idle" /\ outstanding' # 0
      BY <1>6, <2>1, <2>2, <2>5 DEF end_opEffect
    <3>2. pc'[Boot] = "up" /\ \A q \in Procs : pc'[q] \notin Committing
      BY <2>3, <3>1, Zenon DEF Woke, Committing
    <3> QED
      BY <2>1, <2>3, <3>1, <3>2, NobodyCommits, Zenon
  <2> QED
    BY <2>4, <2>5, Zenon
<1>7. ASSUME NEW p \in Procs, NEW b \in Blocks, NEW v \in Vals, ModifyEffect(p, b, v) PROVE Progress'
  <2>1. /\ p \in Active /\ Up /\ Others(p) /\ head' = head /\ outstanding' = outstanding
        /\ pc'[p] \in {"panic", "log_write"}
    BY <1>7, Zenon DEF ModifyEffect, Active
  <2>2. outstanding > 0 /\ ~ committing
    BY <2>1, Counted, Zenon
  <2>3. head = <<>> /\ pc[Boot] = "up" /\ \A q \in Procs : pc[q] \notin Committing
    BY <2>1, <2>2, NoneLogged, Zenon
  <2>4. pc'[Boot] = "up" /\ \A q \in Procs : pc'[q] \notin Committing
    BY <2>1, <2>3, Zenon DEF Others, Committing
  <2> QED
    BY <2>1, <2>2, <2>3, <2>4, NobodyCommits
<1>8. ASSUME NEW p \in All, install_transEffect(p) PROVE Progress'
  <2>0. Installs(p)
    BY <1>8, Zenon DEF install_transEffect, Installs
  <2>1. head = lh /\ UNCHANGED <<head, lh, logged, committing>> /\ Others(p)
    BY <1>8, <2>0 DEF install_transEffect, Progress
  <2>2. \A i \in 1 .. Len(lh) : i < tail => home[lh[i]] = logged[i]
    BY <2>0, Zenon DEF Progress
  <2>3. /\ pc'[p] \in {"install_trans", "clear"}
        /\ tail' <= Len(lh') + 1 /\ (pc'[p] = "clear" => tail' = Len(lh') + 1)
    <3>1. tail <= Len(lh) + 1 /\ lh' = lh
      BY <1>8, <2>1, Zenon DEF install_transEffect, Progress
    <3>2. CASE tail <= Len(lh)
      <4>1. tail' = tail + 1 /\ pc'[p] = "install_trans"
        BY <1>8, <3>2, Zenon DEF install_transEffect
      <4> QED
        BY <1>a, <1>b, <3>1, <3>2, <4>1
    <3>3. CASE ~ tail <= Len(lh)
      <4>1. tail' = tail /\ pc'[p] = "clear"
        BY <1>8, <3>3, Zenon DEF install_transEffect
      <4> QED
        BY <1>a, <1>b, <3>1, <3>3, <4>1
    <3> QED
      BY <3>2, <3>3, Zenon
  <2>4. \A i \in 1 .. Len(lh') : i < tail' => home'[lh'[i]] = logged'[i]
    <3>1. CASE tail <= Len(lh)
      <4>1. home' = [home EXCEPT ![lh[tail]] = logged[tail]] /\ tail' = tail + 1
        BY <1>8, <3>1, Zenon DEF install_transEffect
      <4>2. tail \in 1 .. Len(lh) /\ \A i \in 1 .. Len(lh) : lh[i] \in Blocks
        BY <1>a, <1>b, <3>1
      <4>3. \A i \in 1 .. Len(lh) : lh[i] = lh[tail] => i = tail
        BY <4>2, Zenon DEF Cached
      <4>4. \A i \in 1 .. Len(lh) : home'[lh[i]] = IF i = tail THEN logged[i] ELSE home[lh[i]]
        BY <1>b, <4>1, <4>2, <4>3, Zenon
      <4> SUFFICES ASSUME NEW i \in 1 .. Len(lh), i < tail' PROVE home'[lh[i]] = logged[i]
        BY <2>1, Zenon
      <4>5. CASE i = tail
        BY <4>4, <4>5, Zenon
      <4>6. CASE i # tail
        <5>1. i < tail
          BY <1>b, <4>1, <4>6
        <5> QED
          BY <2>2, <4>4, <4>6, <5>1, Zenon
      <4> QED
        BY <4>5, <4>6, Zenon
    <3>2. CASE ~ tail <= Len(lh)
      BY <1>8, <2>1, <2>2, <3>2, Zenon DEF install_transEffect
    <3> QED
      BY <3>1, <3>2, Zenon
  <2>5. CASE p = Boot
    <3>1. \A q \in Procs : pc'[q] = "idle"
      BY <1>8, <2>5, Zenon DEF install_transEffect, Phases, Up, Others
    <3> QED
      BY <2>1, <2>3, <2>4, <2>5, <3>1, BootRecovers, Zenon
  <2>6. CASE p \in Procs
    <3>1. Up /\ pc[p] = "install_trans" /\ pc[p] \in Committing
      BY <1>8, <2>6, Zenon DEF install_transEffect, Committing
    <3>2. committing /\ Commits(p) /\ \A q \in Procs \ {p} : pc[q] \notin Committing
      BY <2>6, <3>1, Committer, Zenon
    <3>3. pc'[Boot] = "up" /\ committing' /\ \A q \in Procs \ {p} : pc'[q] \notin Committing
      BY <2>1, <2>6, <3>1, <3>2 DEF Others, Up
    <3>4. \A i \in 1 .. Len(lh) : logged[i] = Bread(lh[i])
      BY <3>1, <3>2, Zenon DEF Commits
    <3>5. \A i \in 1 .. Len(lh) : logged[i] = Bread(lh[i])'
      <4>1. CASE tail <= Len(lh)
        <5>1. /\ home' = [home EXCEPT ![lh[tail]] = logged[tail]]
              /\ cache' = [cache EXCEPT ![lh[tail]] = logged[tail]]
          BY <1>8, <4>1, Zenon DEF install_transEffect
        <5>2. /\ tail \in 1 .. Len(lh) /\ logged[tail] \in Vals
              /\ \A i \in 1 .. Len(lh) : lh[i] \in Blocks
          BY <1>a, <1>b, <4>1
        <5>3. \A i \in 1 .. Len(lh) : lh[i] = lh[tail] => i = tail
          BY <5>2, Zenon DEF Cached
        <5> SUFFICES ASSUME NEW i \in 1 .. Len(lh) PROVE logged[i] = Bread(lh[i])'
          BY Zenon
        <5>4. CASE lh[i] = lh[tail]
          <6>1. i = tail /\ cache'[lh[i]] = logged[i] /\ logged[i] # NotCached
            BY <1>b, <5>1, <5>2, <5>3, <5>4, Zenon
          <6> QED
            BY <2>1, <6>1, Zenon DEF Bread
        <5>5. CASE lh[i] # lh[tail]
          <6>1. cache'[lh[i]] = cache[lh[i]] /\ home'[lh[i]] = home[lh[i]]
            BY <1>b, <5>1, <5>2, <5>5, Zenon
          <6> QED
            BY <2>1, <3>4, <6>1, Zenon DEF Bread
        <5> QED
          BY <5>4, <5>5, Zenon
      <4>2. CASE ~ tail <= Len(lh)
        BY <1>8, <2>1, <3>4, <4>2, Zenon DEF install_transEffect, Bread
      <4> QED
        BY <4>1, <4>2, Zenon
    <3>6. Commits(p)'
      BY <2>1, <2>3, <2>4, <3>5 DEF Commits, Installs
    <3> QED
      BY <2>6, <3>3, <3>6, OneCommits
  <2> QED
    BY <2>5, <2>6, Zenon
<1>9. ASSUME NEW p \in All, clearEffect(p) PROVE Progress'
  <2>1. lh' = <<>> /\ head' = <<>> /\ Others(p) /\ committing' = committing
    BY <1>9, Zenon DEF clearEffect
  <2>2. CASE p = Boot
    <3>1. ~ Up /\ pc'[Boot] = "up"
      BY <1>9, <2>2, Zenon DEF clearEffect, Up
    <3>2. \A q \in Procs : pc'[q] \notin Committing
      BY <2>1, <2>2, <3>1 DEF Phases, Others, Committing
    <3> QED
      BY <2>1, <3>1, <3>2, NobodyCommits, Zenon
  <2>3. CASE p \in Procs
    <3>1. Up /\ pc[p] \in Committing /\ pc'[p] = "done"
      BY <1>9, <2>3, Zenon DEF clearEffect, Committing
    <3>2. committing /\ \A q \in Procs \ {p} : pc[q] \notin Committing
      BY <2>3, <3>1, Committer, Zenon
    <3>3. pc'[Boot] = "up" /\ committing' /\ \A q \in Procs \ {p} : pc'[q] \notin Committing
      BY <2>1, <2>3, <3>1, <3>2, Zenon DEF Others, Up
    <3>4. Commits(p)'
      BY <2>1, <3>1, Zenon DEF Commits, Installs
    <3> QED
      BY <2>3, <3>3, <3>4, OneCommits, Zenon
  <2> QED
    BY <2>2, <2>3, Zenon
<1>10. ASSUME read_headEffect PROVE Progress'
  <2>1. /\ head' = lh' /\ tail' = 1 /\ pc'[Boot] = "install_trans" /\ Others(Boot) /\ ~ Up
        /\ lh' \in Seq(Blocks)
    BY <1>10, Zenon DEF read_headEffect, Up, DataOK
  <2>2. \A q \in Procs : pc'[q] = "idle"
    BY <2>1, Zenon DEF Phases, Others
  <2>3. Len(lh') \in Nat
    BY <2>1
  <2>4. tail' <= Len(lh') + 1
    BY <2>1, <2>3
  <2>5. \A i \in 1 .. Len(lh') : ~ i < tail'
    BY <2>1, <2>3
  <2>6. pc'[Boot] # "clear" /\ pc'[Boot] \in {"read_head", "install_trans", "clear"} /\ head' = lh'
    BY <2>1, Zenon
  <2> QED
    BY <2>2, <2>4, <2>5, <2>6, BootRecovers, Zenon
<1>11. ASSUME NEW b \in Blocks, LoadEffect(b) PROVE Progress'
  <2>1. \A c \in Blocks : Bread(c)' = Bread(c)
    BY <1>b, <1>11, Zenon DEF LoadEffect, Bread
  <2> QED
    BY <1>a, <1>11, <2>1, ProgressKept, Zenon DEF LoadEffect
<1>12. ASSUME NEW b \in Blocks, EvictEffect(b) PROVE Progress'
  <2>1. cache[b] = home[b] /\ cache' = [cache EXCEPT ![b] = NotCached] /\ home' = home
    BY <1>12, Zenon DEF EvictEffect, Cached
  <2>2. \A c \in Blocks : Bread(c)' = Bread(c)
    BY <1>b, <2>1, Zenon DEF Bread
  <2> QED
    BY <1>a, <1>12, <2>2, ProgressKept, Zenon DEF EvictEffect
<1>13. ASSUME CrashEffect PROVE Progress'
  <2>1. pc'[Boot] = "read_head" /\ \A q \in Procs : pc'[q] = "idle"
    BY <1>13, Zenon DEF CrashEffect
  <2> QED
    BY <2>1, BootRecovers, Zenon
<1>14. ASSUME Stutter PROVE Progress'
  <2>1. \A c \in Blocks : Bread(c)' = Bread(c)
    BY <1>14, Zenon DEF Stutter, Bread
  <2> QED
    BY <1>a, <1>14, <2>1, ProgressKept, Zenon DEF Stutter
<1> QED
  BY <1>1, <1>2, <1>3, <1>4, <1>5, <1>6, <1>7, <1>8, <1>9, <1>10, <1>11, <1>12, <1>13, <1>14, Zenon DEF Effect

------------------------------------------------------------------------------
\* The invariant holds before recovery begins.
LEMMA InitIInv == Init => IInv
<1> SUFFICES ASSUME Init PROVE IInv
  BY Zenon
<1> USE LogAssumption DEF Init, Booted, EmptyCache, NoBuf, NoneWritten, All
<1>1. TypeOK
  <2>1. DataOK
    BY DEF DataOK, Index
  <2>2. pc \in [All -> Labels]
    BY Zenon DEF Labels
  <2>3. committing \in BOOLEAN /\ outstanding \in Nat
    BY Zenon
  <2>4. buf \in [Procs -> Blocks \cup {NoBlock}] /\ wrote \in [Procs -> SUBSET Blocks]
    BY Zenon
  <2> QED
    BY <2>1, <2>2, <2>3, <2>4, Zenon DEF TypeOK, ControlOK
<1>2. Active = {} /\ ~ Up
  BY Zenon DEF Active, Up
<1>3. Phases
  BY <1>2, FS_EmptySet, Zenon DEF Phases, Up, Committing
<1>4. Left = {} /\ Cardinality(Left) = 0
  BY <1>2, FS_EmptySet, Zenon DEF Left
<1>5. Room
  BY <1>2, <1>4 DEF Room
<1>6. Cached
  BY <1>2 DEF Cached
<1>7. Progress
  BY <1>2, Zenon DEF Progress, Installs
<1>8. NoLostWakeup
  BY <1>2, Zenon DEF NoLostWakeup
<1> QED
  BY <1>1, <1>3, <1>5, <1>6, <1>7, <1>8 DEF IInv

\* The phases of recovery and commit, the reservation and the state of the
\* cache are kept by every step of log.c, crashes included.
THEOREM Inductive == Spec => []IInv
<1>1. ASSUME IInv, [Next]_vars PROVE IInv'
  <2>1. DataOK /\ ControlOK /\ Phases /\ Room /\ Cached /\ Progress /\ NoLostWakeup
    BY <1>1, Zenon DEF IInv, TypeOK
  <2>2. pc \in [All -> Labels] /\ (committing => Active = {})
    BY <2>1, Zenon DEF ControlOK, Phases
  <2>3. Effect /\ pc' \in [All -> Labels]
    BY <1>1, <2>2, Effects, Zenon
  <2>4. /\ lh \in Seq(Blocks) /\ Len(head) \in Nat /\ Len(head) <= LOGSIZE
        /\ buf \in [Procs -> Blocks \cup {NoBlock}] /\ wrote \in [Procs -> SUBSET Blocks]
        /\ outstanding \in Nat
    BY <2>1 DEF DataOK, ControlOK
  <2>5. Phases'
    BY <2>1, <2>2, <2>3, <2>4, PhasesStep, Zenon
  <2>6. Room'
    BY <2>1, <2>2, <2>3, <2>4, RoomStep, Zenon
  <2>7. DataOK' /\ ControlOK'
    BY <2>1, <2>3, <2>6, DataStep, ControlStep, Zenon
  <2>8. Cached' /\ Progress' /\ NoLostWakeup'
    BY <2>1, <2>3, <2>4, CachedStep, ProgressStep, WakeupStep, Zenon
  <2> QED
    BY <2>5, <2>6, <2>7, <2>8, Zenon DEF IInv, TypeOK
<1> QED
  BY InitIInv, <1>1, PTL DEF Spec

\* log.lh and the header on disk never outgrow LOGSIZE blocks, and every
\* variable of log.c keeps its type.
THEOREM TypeCorrect == Spec => []TypeOK
<1>1. IInv => TypeOK
  BY Zenon DEF IInv
<1> QED
  BY <1>1, Inductive, PTL

\* commit() of log.c runs with no operation active and in one process only.
THEOREM CommitExclusive == Spec => []CommitsAlone
<1>1. IInv => CommitsAlone
  <2> SUFFICES ASSUME IInv, NEW p \in Procs, pc[p] \in Committing
               PROVE  /\ committing /\ outstanding = 0 /\ Active = {}
                      /\ \A q \in Procs : pc[q] \in Committing => q = p
    BY Zenon DEF CommitsAlone
  <2>1. committing /\ Active = {}
    BY Zenon DEF IInv, Phases
  <2> QED
    BY <2>1, FS_EmptySet, Zenon DEF IInv, Phases
<1> QED
  BY <1>1, Inductive, PTL

\* Whoever sleeps in begin_op has somebody left to wake it.
THEOREM WakeupsKept == Spec => []NoLostWakeup
<1>1. IInv => NoLostWakeup
  BY Zenon DEF IInv
<1> QED
  BY <1>1, Inductive, PTL

\* The first block at which a block number is found in a list without repetitions.
LEMMA FoundAt ==
  ASSUME NEW s, \A i, j \in 1 .. Len(s) : s[i] = s[j] => i = j, NEW k \in 1 .. Len(s)
  PROVE  (CHOOSE i \in 1 .. Len(s) : s[i] = s[k]) = k
  BY Zenon

\* Outside an operation every buffer that is not in the log agrees with the disk.
LEMMA Quiescent ==
  ASSUME IInv, Active = {}, NEW b \in Blocks, b \notin Elems(lh), Up
  PROVE  Bread(b) = home[b]
<1>1. b \notin dirty
  BY DEF IInv, Cached, Elems
<1>2. \A p \in Procs : buf[p] # b
  BY LogAssumption, Zenon DEF IInv, Phases, Active
<1> QED
  BY <1>1, <1>2, Zenon DEF IInv, Cached, Bread

\* end_op of log.c keeps its word: once the last operation has been committed,
\* a crash loses nothing.
THEOREM NothingLost == Spec => []Saved
<1>1. IInv => Saved
  <2> SUFFICES ASSUME IInv, Up, outstanding = 0, ~ committing PROVE Durable = Current
    BY Zenon DEF Saved
  <2>1. Active = {}
    <3>1. Active \in SUBSET Procs
      BY Zenon DEF Active
    <3>2. IsFiniteSet(Active) /\ Cardinality(Active) = 0
      BY <3>1, LogAssumption, FS_Subset, Zenon DEF IInv, Phases
    <3> QED
      BY <3>2, NonEmpty
  <2>2. lh = <<>> /\ head = <<>>
    BY Zenon DEF IInv, Progress, Phases, Installs, Committing
  <2>3. Elems(lh) = {} /\ Elems(head) = {}
    BY <2>2 DEF Elems
  <2>4. \A b \in Blocks : Bread(b) = home[b]
    BY <2>1, <2>3, Quiescent, Zenon
  <2> QED
    BY <2>3, <2>4, Zenon DEF Durable, Current
<1> QED
  BY <1>1, Inductive, PTL

\* The space begin_op reserves for an operation that it has not used yet.
LEMMA Reserve ==
  ASSUME IInv, NEW p \in Active, Cardinality(wrote[p]) <= OpBlocks
  PROVE  Len(lh) + (MAXOPBLOCKS - OpBlocks) <= LOGSIZE
<1> DEFINE I == OpBlocks + 1 .. MAXOPBLOCKS
<1>1. IsFiniteSet(I) /\ Cardinality(I) = MAXOPBLOCKS - OpBlocks
  BY LogAssumption, FS_Interval
<1>2. IsFiniteSet({p}) /\ Cardinality({p}) = 1
  BY FS_Singleton, Zenon
<1>3. IsFiniteSet({p} \X I) /\ Cardinality({p} \X I) = MAXOPBLOCKS - OpBlocks
  <2>1. IsFiniteSet({p} \X I) /\ Cardinality({p} \X I) = Cardinality({p}) * Cardinality(I)
    BY <1>1, <1>2, FS_Product, Zenon
  <2> QED
    BY <1>1, <1>2, <2>1, LogAssumption
<1>4. IsFiniteSet(Left) /\ Cardinality(Left) \in Nat
  <2>1. Active \in SUBSET Procs
    BY Zenon DEF Active
  <2>2. IsFiniteSet(Active)
    BY <2>1, LogAssumption, FS_Subset, Zenon
  <2>3. Left \subseteq Active \X (1 .. MAXOPBLOCKS)
    BY Zenon DEF Left
  <2> QED
    BY <2>2, <2>3, LeftBound, Zenon
<1>5. {p} \X I \in SUBSET Left
  <2>1. IsFiniteSet(wrote[p])
    <3>1. IsFiniteSet(Elems(lh)) /\ wrote[p] \in SUBSET Elems(lh)
      BY ElemsFacts, Zenon DEF IInv, Room, TypeOK, DataOK
    <3> QED
      BY <3>1, FS_Subset, Zenon
  <2>2. Cardinality(wrote[p]) \in Nat
    BY <2>1, FS_CardinalityType, Zenon
  <2>3. \A i \in I : i \in 1 .. MAXOPBLOCKS /\ i > Cardinality(wrote[p])
    BY <2>2, LogAssumption
  <2> QED
    BY <2>3, Zenon DEF Left
<1> HIDE DEF I
<1>6. MAXOPBLOCKS - OpBlocks <= Cardinality(Left)
  BY <1>3, <1>4, <1>5, FS_Subset
<1> QED
  BY <1>4, <1>6, LogAssumption DEF IInv, TypeOK, DataOK, Room

\* A process that has panicked did so in log_write, before a full log.
Overfull ==
  \A p \in Procs : pc[p] = "panic" =>
     buf[p] # NoBlock /\ (Len(lh) >= LOGSIZE \/ Len(lh) >= nlog - 1)

\* Steps of which no process that has panicked notices anything.
LEMMA OverfullKept ==
  ASSUME Overfull, UNCHANGED lh,
         \A q \in Procs : pc'[q] = "panic" => pc[q] = "panic" /\ buf'[q] = buf[q]
  PROVE  Overfull'
  BY Zenon DEF Overfull

\* A step makes a process panic only before a full log, and the log stays full.
LEMMA OverfullStep == IInv /\ Overfull /\ [Next]_vars => Overfull'
<1> SUFFICES ASSUME IInv, Overfull, [Next]_vars PROVE Overfull'
  BY Zenon
<1> USE LogAssumption DEF Goto, Wakeup, At, All
<1>0. /\ pc \in [All -> Labels] /\ buf \in [Procs -> Blocks \cup {NoBlock}]
      /\ lh \in Seq(Blocks)
  BY Zenon DEF IInv, TypeOK, ControlOK, DataOK
<1>1. ASSUME NEW p \in Procs, log_write(p) PROVE Overfull'
  <2>1. Len(lh') \in Nat /\ Len(lh) \in Nat /\ Len(lh') >= Len(lh)
    <3>1. buf[p] \in Blocks
      BY <1>1, Zenon DEF log_write, IInv, Phases
    <3>2. lh' = lh \/ lh' = Append(lh, buf[p])
      BY <1>1, Zenon DEF log_write
    <3> QED
      BY <1>0, <3>1, <3>2
  <2>2. \A q \in Procs : pc'[q] = "panic" => pc[q] = "panic" /\ buf'[q] = buf[q]
    BY <1>0, <1>1, Zenon DEF log_write
  <2>3. Len(lh) >= LOGSIZE \/ Len(lh) >= nlog - 1 => Len(lh') >= LOGSIZE \/ Len(lh') >= nlog - 1
    BY <2>1
  <2> QED
    BY <2>2, <2>3, Zenon DEF Overfull
<1>2. ASSUME NEW p \in Procs, Step(p), ~ log_write(p) PROVE Overfull'
  BY <1>0, <1>2, OverfullKept, Zenon
  DEF Step, begin_op, end_commit, write_log, write_head, log, bcache, disk, local
<1>3. ASSUME NEW p \in Procs, end_op(p) PROVE Overfull'
  <2>1. ~ committing
    BY <1>3, Zenon DEF end_op, IInv, Phases, Active
  <2> QED
    BY <1>0, <1>3, <2>1, OverfullKept, Zenon DEF end_op
<1>4. ASSUME NEW p \in Procs, NEW b \in Blocks, NEW v \in Vals, Modify(p, b, v) PROVE Overfull'
  <2>1. ~ outstanding < 1
    <3>1. p \in Active /\ Active \in SUBSET Procs
      BY <1>4, Zenon DEF Modify, Active
    <3>2. IsFiniteSet(Active) /\ Cardinality(Active) = outstanding
      BY <3>1, FS_Subset, Zenon DEF IInv, Phases
    <3> QED
      BY <3>1, <3>2, NonEmpty DEF IInv, TypeOK, ControlOK
  <2>2. UNCHANGED lh /\ buf' = [buf EXCEPT ![p] = b]
    BY <1>4, Zenon DEF Modify, log
  <2>3. pc'[p] = "panic" => Len(lh) >= LOGSIZE \/ Len(lh) >= nlog - 1
    BY <1>0, <1>4, <2>1, Zenon DEF Modify
  <2>4. \A q \in Procs : q # p => pc'[q] = pc[q] /\ buf'[q] = buf[q]
    BY <1>0, <1>4, <2>2, Zenon DEF Modify
  <2>5. buf'[p] # NoBlock
    BY <1>0, <2>2, Zenon
  <2> QED
    BY <2>2, <2>3, <2>4, <2>5, Zenon DEF Overfull
<1>5. ASSUME NEW p \in All, install_trans(p) PROVE Overfull'
  BY <1>0, <1>5, OverfullKept, Zenon DEF install_trans, log
<1>6. ASSUME NEW p \in All, clear(p) PROVE Overfull'
  <2>1. \A q \in Procs : pc[q] # "panic"
    BY <1>6, Zenon DEF clear, Up, IInv, Phases, Active, Committing
  <2> QED
    BY <1>0, <1>6, <2>1, Zenon DEF clear, Overfull
<1>7. CASE read_head
  <2>1. \A q \in Procs : pc[q] # "panic"
    BY <1>7, Zenon DEF read_head, Up, IInv, Phases
  <2> QED
    BY <1>0, <1>7, <2>1, Zenon DEF read_head, Overfull
<1>8. CASE \E b \in Blocks : Load(b) \/ Evict(b)
  BY <1>8, OverfullKept, Zenon DEF Load, Evict, log, local
<1>9. CASE Crash
  BY <1>9, Zenon DEF Crash, Booted, Overfull
<1>10. CASE UNCHANGED vars
  BY <1>10, OverfullKept, Zenon DEF vars, log, local
<1> QED
  BY <1>1, <1>2, <1>3, <1>4, <1>5, <1>6, <1>7, <1>8, <1>9, <1>10, Zenon DEF Next, Recover

\* log_write panics only when the running operations have used what begin_op
\* reserved for them, but for the block that the header takes from the log, and
\* nothing else panics: whatever overlaps, begin_op admits no operation for
\* which the log has no room.
THEOREM PanicsOnlyWhenFull == Spec => []NoPanic
<1>1. Init => Overfull
  BY LogAssumption, Zenon DEF Init, Overfull, Booted, All
<1>2. IInv /\ Overfull => NoPanic
  <2> SUFFICES ASSUME IInv, NEW p \in Procs, buf[p] # NoBlock,
                      Len(lh) >= LOGSIZE \/ Len(lh) >= nlog - 1
               PROVE  Left = {} \/ Cardinality(Left) + nlog <= LOGSIZE + 1
    BY Zenon DEF NoPanic, Overfull
  <2>1. Len(lh) \in Nat /\ Len(lh) + Cardinality(Left) <= LOGSIZE
    BY DEF IInv, TypeOK, DataOK, Room
  <2>2. IsFiniteSet(Left) /\ Cardinality(Left) \in Nat
    BY LeftFinite, Zenon
  <2>3. CASE Len(lh) >= LOGSIZE
    <3>1. Cardinality(Left) = 0
      BY <2>1, <2>2, <2>3, LogAssumption
    <3> QED
      BY <3>1, <2>2, FS_EmptySet, Zenon
  <2>4. CASE Len(lh) >= nlog - 1
    BY <2>1, <2>2, <2>4, LogAssumption
  <2> QED
    BY <2>3, <2>4, Zenon
<1> QED
  BY <1>1, <1>2, OverfullStep, Inductive, PTL DEF Spec

\* No process has panicked.
Runs == \A p \in Procs : pc[p] # "panic"

\* Operations that leave part of their reservation unused never panic: one block
\* of MAXOPBLOCKS, and one more for the header if the log on disk has LOGSIZE
\* blocks.  With param.h's 30 and 10 these are operations of up to 8 blocks.
THEOREM SmallOperations ==
  ASSUME OpBlocks < MAXOPBLOCKS, LOGSIZE + OpBlocks + 1 < nlog + MAXOPBLOCKS
  PROVE  Spec => []Runs
<1>1. Init => Runs
  BY LogAssumption, Zenon DEF Init, Runs, Booted, All
<1>2. IInv /\ Runs /\ [Next]_vars => Runs'
  <2> SUFFICES ASSUME IInv, Runs, [Next]_vars PROVE Runs'
    BY Zenon
  <2> USE LogAssumption DEF Runs, Goto, Wakeup, At, All
  <2>0. pc \in [All -> Labels]
    BY Zenon DEF IInv, TypeOK, ControlOK
  <2>1. ASSUME NEW p \in Procs, Step(p) PROVE Runs'
    BY <2>0, <2>1, Zenon DEF Step, begin_op, log_write, end_commit, write_log, write_head
  <2>2. ASSUME NEW p \in Procs, end_op(p) PROVE Runs'
    <3>1. ~ committing
      BY <2>2, Zenon DEF end_op, IInv, Phases, Active
    <3> QED
      BY <2>0, <2>2, <3>1, Zenon DEF end_op
  <2>3. ASSUME NEW p \in Procs, NEW b \in Blocks, NEW v \in Vals, Modify(p, b, v) PROVE Runs'
    <3>1. p \in Active
      BY <2>3, Zenon DEF Modify, Active
    <3>2. IsFiniteSet(wrote[p])
      <4>1. IsFiniteSet(Elems(lh)) /\ wrote[p] \in SUBSET Elems(lh)
        BY <3>1, ElemsFacts, Zenon DEF IInv, Room, TypeOK, DataOK
      <4> QED
        BY <4>1, FS_Subset, Zenon
    <3>3. Cardinality(wrote[p]) <= OpBlocks
      <4> DEFINE W == wrote[p] \cup {b}
      <4>1. IsFiniteSet(W)
        BY <3>2, FS_AddElement, Zenon
      <4>2. wrote[p] \in SUBSET W
        BY Zenon
      <4>3. Cardinality(W) <= OpBlocks
        BY <2>3, Zenon DEF Modify
      <4> HIDE DEF W
      <4>4. Cardinality(wrote[p]) <= Cardinality(W) /\ Cardinality(W) \in Nat /\ Cardinality(wrote[p]) \in Nat
        BY <3>2, <4>1, <4>2, FS_Subset, FS_CardinalityType
      <4> QED
        BY <4>3, <4>4
    <3>4. Len(lh) + (MAXOPBLOCKS - OpBlocks) <= LOGSIZE /\ Len(lh) \in Nat
      BY <3>1, <3>3, Reserve DEF IInv, TypeOK, DataOK
    <3>5. ~ (Len(lh) >= LOGSIZE \/ Len(lh) >= nlog - 1)
      BY <3>4
    <3>6. outstanding >= 1
      <4>1. Active \in SUBSET Procs
        BY Zenon DEF Active
      <4>2. IsFiniteSet(Active) /\ Cardinality(Active) = outstanding
        BY <4>1, FS_Subset, Zenon DEF IInv, Phases
      <4> QED
        BY <3>1, <4>2, NonEmpty DEF IInv, TypeOK, ControlOK
    <3>7. ~ outstanding < 1
      BY <3>6 DEF IInv, TypeOK, ControlOK
    <3>8. pc' = [pc EXCEPT ![p] = "log_write"]
      BY <2>3, <3>5, <3>7, Zenon DEF Modify
    <3> QED
      BY <2>0, <3>8, Zenon
  <2>4. ASSUME NEW p \in All, Recover(p) PROVE Runs'
    BY <2>0, <2>4, Zenon DEF Recover, install_trans, clear
  <2>5. CASE read_head \/ (\E b \in Blocks : Load(b) \/ Evict(b)) \/ Crash
    BY <2>0, <2>5, Zenon DEF read_head, Load, Evict, Crash, Booted
  <2>6. CASE UNCHANGED vars
    BY <2>6, Zenon DEF vars
  <2> QED
    BY <2>1, <2>2, <2>3, <2>4, <2>5, <2>6, Zenon DEF Next
<1> QED
  BY <1>1, <1>2, Inductive, PTL DEF Spec

\* What a crash leaves once the header is empty, and while it is installed.
LEMMA DurableIs ==
  ASSUME IInv
  PROVE  /\ head = <<>> => \A b \in Blocks : Durable[b] = home[b]
         /\ \A i \in 1 .. Len(head) : head[i] \in Blocks /\ Durable[head[i]] = logged[i]
         /\ \A b \in Blocks : b \notin Elems(head) => Durable[b] = home[b]
<1>1. \A b \in Blocks : b \notin Elems(head) => Durable[b] = home[b]
  BY Zenon DEF Durable
<1>2. head = <<>> => Elems(head) = {}
  BY DEF Elems
<1>3. ASSUME NEW k \in 1 .. Len(head)
      PROVE  head[k] \in Blocks /\ Durable[head[k]] = logged[k]
  <2>1. head[k] \in Blocks /\ head[k] \in Elems(head)
    BY DEF IInv, TypeOK, DataOK, Elems
  <2>2. (CHOOSE i \in 1 .. Len(head) : head[i] = head[k]) = k
    BY FoundAt, Zenon DEF IInv, Cached
  <2> QED
    BY <2>1, <2>2, Zenon DEF Durable
<1> QED
  BY <1>1, <1>2, <1>3, Zenon

\* Steps that touch neither the disk nor a buffer.
LEMMA SameDisk ==
  ASSUME UNCHANGED <<home, logged, head>>
  PROVE  Durable' = Durable /\ (cache' = cache /\ (Up <=> Up') => Current' = Current)
  BY DEF Durable, Current, Bread, Elems

\* The write of a log block is not seen until the header names it.
LEMMA WriteLogHidden ==
  ASSUME IInv, NEW p \in Procs, write_log(p)
  PROVE  UNCHANGED AtomicDisk!vars
<1>0. Up /\ Up' /\ head' = head /\ home' = home /\ cache' = cache /\ pc[p] = "write_log"
  BY LogAssumption, Zenon DEF write_log, At, Goto, IInv, TypeOK, ControlOK, All, Up, bcache
<1>00. \A q \in Procs : ~ Installs(q)
  BY <1>0, Zenon DEF IInv, Phases, Committing, Installs
<1>1. Up /\ Up' /\ head = <<>> /\ head' = <<>> /\ home' = home /\ cache' = cache
  BY <1>0, <1>00, Zenon DEF IInv, Progress
<1>2. Durable' = Durable
  <2>1. Elems(head) = {} /\ Elems(head)' = {}
    BY <1>1 DEF Elems
  <2> QED
    BY <1>1, <2>1, Zenon DEF Durable
<1>3. Current' = Current
  BY <1>1, Zenon DEF Current, Bread
<1>4. Active' = Active
  BY LogAssumption, Zenon DEF write_log, At, Goto, IInv, TypeOK, ControlOK, All, Active
<1> QED
  BY <1>2, <1>3, <1>4, Zenon DEF AtomicDisk!vars

\* The write of the header makes every operation so far durable.
LEMMA CommitPoint ==
  ASSUME IInv, NEW p \in Procs, write_head(p)
  PROVE  AtomicDisk!Commit
<1>1. /\ Up /\ Up' /\ head' = lh /\ home' = home /\ cache' = cache /\ logged' = logged
      /\ pc[p] = "write_head" /\ pc' = [pc EXCEPT ![p] = "install_trans"]
  BY LogAssumption, Zenon DEF write_head, At, Goto, IInv, TypeOK, ControlOK, All, Up, bcache
<1>2. Active = {} /\ Active' = {}
  BY <1>1, LogAssumption DEF IInv, Phases, Committing, TypeOK, ControlOK, All, Active
<1>3. ASSUME NEW b \in Blocks PROVE Durable'[b] = Bread(b)
  <2>1. CASE b \notin Elems(lh)
    BY <1>1, <1>2, <2>1, Quiescent, Zenon DEF Durable
  <2>2. CASE b \in Elems(lh)
    <3>1. PICK k \in 1 .. Len(lh) : lh[k] = b
      BY <2>2, Zenon DEF Elems
    <3>2. (CHOOSE i \in 1 .. Len(lh) : lh[i] = lh[k]) = k
      BY FoundAt, Zenon DEF IInv, Cached
    <3>3. Durable'[b] = logged[k]
      BY <1>1, <2>2, <3>1, <3>2, Zenon DEF Durable
    <3> QED
      BY <1>1, <3>1, <3>3 DEF IInv, Progress
  <2> QED
    BY <2>1, <2>2, Zenon
<1>4. Durable' = Current
  BY <1>1, <1>3, Zenon DEF Durable, Current
<1>5. Current' = Current
  BY <1>1, Zenon DEF Current, Bread
<1> QED
  BY <1>2, <1>4, <1>5, Zenon DEF AtomicDisk!Commit

\* Installing a block of the log changes neither what a read returns nor what
\* survives a crash, in commit() and in recovery alike.
LEMMA InstallHidden ==
  ASSUME IInv, NEW p \in All, install_trans(p)
  PROVE  UNCHANGED AtomicDisk!vars
<1> USE LogAssumption DEF All
<1>0. pc \in [All -> Labels] /\ pc[p] = "install_trans" /\ (p = Boot \/ Up)
  BY Zenon DEF install_trans, At, IInv, TypeOK, ControlOK
<1>1. head = lh /\ head' = head /\ logged' = logged
  BY <1>0, Zenon DEF install_trans, IInv, Progress, Installs
<1>2. Active' = Active /\ (Up <=> Up')
  BY <1>0, Zenon DEF install_trans, Goto, Active, Up
<1>3. CASE tail <= Len(lh)
  <2>1. /\ home' = [home EXCEPT ![lh[tail]] = logged[tail]]
        /\ cache' = [cache EXCEPT ![lh[tail]] = logged[tail]]
    BY <1>3, Zenon DEF install_trans
  <2>2. /\ tail \in 1 .. Len(lh) /\ lh[tail] \in Blocks /\ lh[tail] \in Elems(head)
        /\ logged[tail] \in Vals
    BY <1>1, <1>3 DEF IInv, TypeOK, DataOK, Elems, Index
  <2>3. home \in [Blocks -> Vals] /\ cache \in [Blocks -> Vals \cup {NotCached}]
    BY Zenon DEF IInv, TypeOK, DataOK
  <2>4. \A b \in Blocks : b \notin Elems(head) => home'[b] = home[b]
    BY <2>1, <2>2, <2>3, Zenon
  <2>5. Durable' = Durable
    BY <1>1, <2>4 DEF Durable, Elems
  <2>6. CASE Up
    <3>1. p \in Procs
      BY <1>0, <2>6, Zenon DEF Up
    <3>2. logged[tail] = Bread(lh[tail])
      BY <1>0, <2>2, <3>1, Zenon DEF IInv, Progress
    <3>3. \A b \in Blocks : Bread(b)' = Bread(b)
      BY <2>1, <2>2, <2>3, <3>2, Zenon DEF Bread
    <3> QED
      BY <1>2, <2>5, <2>6, <3>3, Zenon DEF Current, AtomicDisk!vars
  <2>7. CASE ~ Up
    BY <1>2, <2>5, <2>7, Zenon DEF Current, AtomicDisk!vars
  <2> QED
    BY <2>6, <2>7, Zenon
<1>4. CASE ~ tail <= Len(lh)
  BY <1>1, <1>2, <1>4, SameDisk, Zenon DEF install_trans, bcache, AtomicDisk!vars
<1> QED
  BY <1>3, <1>4, Zenon

\* Nor does erasing the log once it is installed.
LEMMA ClearHidden ==
  ASSUME IInv, NEW p \in All, clear(p)
  PROVE  UNCHANGED AtomicDisk!vars
<1> USE LogAssumption DEF All
<1>0. /\ pc \in [All -> Labels] /\ pc[p] = "clear" /\ (p = Boot \/ Up)
      /\ pc' = [pc EXCEPT ![p] = IF p = Boot THEN "up" ELSE "done"]
  BY Zenon DEF clear, At, Goto, IInv, TypeOK, ControlOK
<1>1. head = lh /\ head' = <<>> /\ home' = home /\ logged' = logged /\ cache' = cache
  BY <1>0, Zenon DEF clear, IInv, Progress, Installs, bcache
<1>2. \A i \in 1 .. Len(head) : home[head[i]] = logged[i]
  BY <1>0, <1>1 DEF IInv, Progress, Installs, TypeOK, DataOK
<1>3. ASSUME NEW b \in Blocks PROVE Durable[b] = home[b]
  <2>1. CASE b \in Elems(head)
    <3>1. PICK i \in 1 .. Len(head) : head[i] = b
      BY <2>1, Zenon DEF Elems
    <3> QED
      BY <1>2, <3>1, DurableIs, Zenon
  <2>2. CASE b \notin Elems(head)
    BY <2>2, DurableIs, Zenon
  <2> QED
    BY <2>1, <2>2, Zenon
<1>4. \A b \in Blocks : Durable'[b] = home[b]
  BY <1>1 DEF Durable, Elems
<1>5. Durable' = Durable
  BY <1>3, <1>4, Zenon DEF Durable
<1>6. Active' = Active
  BY <1>0, Zenon DEF Active
<1>7. CASE p = Boot
  <2>1. ~ Up /\ Up'
    BY <1>0, <1>7, Zenon DEF Up
  <2>2. \A q \in Procs : buf[q] = NoBlock
    BY <2>1, Zenon DEF IInv, Phases
  <2>3. \A b \in Blocks : Bread(b)' = home[b]
    <3>1. dirty = {} /\ \A q \in Procs : buf[q] \notin Blocks
      BY <2>1, <2>2, Zenon DEF IInv, Cached
    <3>2. \A b \in Blocks : cache[b] \in {NotCached, home[b]}
      BY <3>1 DEF IInv, Cached
    <3> QED
      BY <1>1, <3>2, Zenon DEF Bread
  <2> QED
    BY <1>3, <1>5, <1>6, <2>1, <2>3, Zenon DEF Current, AtomicDisk!vars
<1>8. CASE p \in Procs
  <2>1. Up /\ Up'
    BY <1>0, <1>8, Zenon DEF Up
  <2> QED
    BY <1>1, <1>5, <1>6, <2>1, Zenon DEF Current, Bread, AtomicDisk!vars
<1> QED
  BY <1>7, <1>8, Zenon

\* Reading a block into the cache and recycling a clean buffer change nothing.
LEMMA CacheHidden ==
  ASSUME IInv, NEW b \in Blocks, Load(b) \/ Evict(b)
  PROVE  UNCHANGED AtomicDisk!vars
<1>1. UNCHANGED <<home, logged, head, pc>>
  BY Zenon DEF Load, Evict, disk
<1>2. cache \in [Blocks -> Vals \cup {NotCached}] /\ home \in [Blocks -> Vals]
  BY Zenon DEF IInv, TypeOK, DataOK
<1>3. \A c \in Blocks : Bread(c)' = Bread(c)
  <2>1. CASE Load(b)
    BY <1>1, <1>2, <2>1, LogAssumption, Zenon DEF Load, Bread
  <2>2. CASE Evict(b)
    <3>1. cache[b] = home[b] /\ cache' = [cache EXCEPT ![b] = NotCached]
      BY <2>2, Zenon DEF Evict, IInv, Cached
    <3> QED
      BY <1>1, <1>2, <3>1, Zenon DEF Bread
  <2> QED
    BY <2>1, <2>2, Zenon
<1> QED
  BY <1>1, <1>3, SameDisk, Zenon DEF Current, Up, Active, AtomicDisk!vars

\* Every step of log.c and of the cache is a step of the atomic disk, or none.
LEMMA DiskStep == IInv /\ [Next]_vars => [AtomicDisk!Next]_(AtomicDisk!vars)
<1> SUFFICES ASSUME IInv, [Next]_vars PROVE AtomicDisk!Next \/ UNCHANGED AtomicDisk!vars
  BY Zenon
<1> USE LogAssumption DEF All
<1>0. pc \in [All -> Labels]
  BY Zenon DEF IInv, TypeOK, ControlOK
<1>1. ASSUME NEW p \in Procs, begin_op(p) PROVE AtomicDisk!Begin(p) \/ UNCHANGED AtomicDisk!vars
  <2>1. /\ pc[p] \in {"idle", "begin"} /\ UNCHANGED <<home, logged, head, cache>>
        /\ \/ pc' = [pc EXCEPT ![p] = "op"] \/ pc' = [pc EXCEPT ![p] = "asleep"]
    BY <1>1, Zenon DEF begin_op, At, Goto, disk, bcache
  <2>2. Durable' = Durable /\ Current' = Current
    BY <1>0, <2>1, SameDisk, Zenon DEF Up
  <2>3. p \notin Active /\ (Active' = Active \cup {p} \/ Active' = Active)
    BY <1>0, <2>1, Zenon DEF Active
  <2> QED
    BY <2>2, <2>3, Zenon DEF AtomicDisk!Begin, AtomicDisk!vars
<1>2. ASSUME NEW p \in Procs, end_op(p) PROVE AtomicDisk!End(p)
  <2>1. pc[p] = "op" /\ p \in Active /\ UNCHANGED <<home, logged, head, cache>>
    BY <1>2, Zenon DEF end_op, At, disk, bcache, Active
  <2>2. ~ committing
    BY <2>1, Zenon DEF IInv, Phases
  <2>3. /\ pc'[p] \in {"done", "write_log", "idle"}
        /\ \A q \in All \ {p} : pc'[q] = pc[q] \/ (pc[q] = "asleep" /\ pc'[q] = "begin")
    BY <1>0, <1>2, <2>2, Zenon DEF end_op, Goto, Wakeup
  <2>4. Active' = Active \ {p}
    BY <2>1, <2>3, Zenon DEF Active
  <2>5. Up <=> Up'
    BY <2>3, Zenon DEF Up
  <2> QED
    BY <2>1, <2>4, <2>5, SameDisk, Zenon DEF AtomicDisk!End
<1>3. ASSUME NEW p \in Procs, log_write(p) \/ end_commit(p) PROVE UNCHANGED AtomicDisk!vars
  <2>1. UNCHANGED <<home, logged, head, cache>>
    BY <1>3, Zenon DEF log_write, end_commit, disk, bcache
  <2>2. /\ \/ pc[p] = "log_write" /\ pc'[p] = "op"
           \/ pc[p] = "done" /\ pc'[p] = "idle"
        /\ \A q \in All \ {p} : pc'[q] = pc[q] \/ (pc[q] = "asleep" /\ pc'[q] = "begin")
    BY <1>0, <1>3, Zenon DEF log_write, end_commit, At, Goto, Wakeup
  <2>3. Active' = Active /\ (Up <=> Up')
    BY <2>2, Zenon DEF Active, Up
  <2> QED
    BY <2>1, <2>3, SameDisk, Zenon DEF AtomicDisk!vars
<1>4. ASSUME NEW p \in Procs, NEW b \in Blocks, NEW v \in Vals, Modify(p, b, v)
      PROVE  AtomicDisk!Write(p, b, v)
  <2>1. /\ pc[p] = "op" /\ Up /\ UNCHANGED <<home, logged, head>>
        /\ cache' = [cache EXCEPT ![b] = v]
        /\ \A q \in All \ {p} : pc'[q] = pc[q]
        /\ pc'[p] \in {"panic", "log_write"}
    BY <1>0, <1>4, Zenon DEF Modify, At, Goto, disk
  <2>2. p \in Active /\ Active' = Active /\ Up'
    BY <2>1, Zenon DEF Active, Up
  <2>3. cache \in [Blocks -> Vals \cup {NotCached}]
    BY Zenon DEF IInv, TypeOK, DataOK
  <2>4. Current' = [Current EXCEPT ![b] = v]
    BY <2>1, <2>2, <2>3, Zenon DEF Current, Bread
  <2> QED
    BY <2>1, <2>2, <2>4, SameDisk, Zenon DEF AtomicDisk!Write
<1>5. ASSUME read_head PROVE UNCHANGED AtomicDisk!vars
  <2>1. UNCHANGED <<home, logged, head, cache>> /\ Active' = Active /\ (Up <=> Up')
    BY <1>0, <1>5, Zenon DEF read_head, Goto, disk, bcache, Active, Up
  <2> QED
    BY <2>1, SameDisk, Zenon DEF AtomicDisk!vars
<1>6. ASSUME Crash PROVE AtomicDisk!Crash
  <2>1. UNCHANGED <<home, logged, head>> /\ Active' = {} /\ ~ Up'
    BY <1>6, Zenon DEF Crash, disk, Booted, Active, Up
  <2>2. Durable' = Durable
    BY <2>1, SameDisk, Zenon
  <2>3. Current' = Durable
    BY <2>1, <2>2, Zenon DEF Current, Durable
  <2> QED
    BY <2>1, <2>2, <2>3, Zenon DEF AtomicDisk!Crash
<1>7. CASE UNCHANGED vars
  BY <1>7, SameDisk, Zenon DEF vars, disk, bcache, Active, Up, AtomicDisk!vars
<1>8. ASSUME NEW p \in Procs, Step(p) PROVE AtomicDisk!Next \/ UNCHANGED AtomicDisk!vars
  BY <1>1, <1>3, <1>8, WriteLogHidden, CommitPoint DEF Step, AtomicDisk!Next
<1>9. ASSUME NEW p \in All, Recover(p) PROVE UNCHANGED AtomicDisk!vars
  BY <1>9, InstallHidden, ClearHidden, Zenon DEF Recover
<1> QED
  BY <1>2, <1>4, <1>5, <1>6, <1>7, <1>8, <1>9, CacheHidden DEF Next, AtomicDisk!Next

\* log.c implements a disk on which operations are atomic: whenever the machine
\* stops, what recovery finds is the state at a moment between operations.
THEOREM Refinement == Spec => ImplementsDisk
<1>1. Init => AtomicDisk!Init
  <2> SUFFICES ASSUME Init PROVE AtomicDisk!Init
    BY Zenon
  <2>1. ~ Up /\ Active = {} /\ Elems(head) = {}
    BY LogAssumption DEF Init, Booted, All, Up, Active, Elems
  <2>2. Durable = [b \in Blocks |-> Zero]
    BY <2>1, Zenon DEF Durable, Init
  <2>3. Current = [b \in Blocks |-> Zero]
    BY <2>1, <2>2, Zenon DEF Current
  <2> QED
    BY <2>1, <2>2, <2>3, Zenon DEF AtomicDisk!Init
<1> QED
  BY <1>1, DiskStep, Inductive, PTL DEF Spec, ImplementsDisk, AtomicDisk!Spec
==============================================================================
