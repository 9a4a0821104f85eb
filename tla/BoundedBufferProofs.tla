------------------------- MODULE BoundedBufferProofs -------------------------
(***************************************************************************)
(* Proofs about BoundedBuffer for any number of cooks and attendees, any   *)
(* capacity and any number of trays.                                       *)
(***************************************************************************)
EXTENDS Snacks, CountingLemmas

\* Advancing an index of the ring gives the next index, cyclically.
LEMMA Advance ==
  ASSUME NEW x \in Slots
  PROVE  /\ (x + 1) % BUF_C \in Slots
         /\ (x + 1) % BUF_C = IF x + 1 = BUF_C THEN 0 ELSE x + 1
<1>1. x \in Nat /\ x + 1 <= BUF_C /\ BUF_C \in Nat \ {0}
  BY BBAssumption DEF Slots
<1>2. x + 1 \in Nat /\ x + 1 < 2 * BUF_C
  BY <1>1
<1>3. (x + 1) % BUF_C = IF x + 1 < BUF_C THEN x + 1 ELSE x + 1 - BUF_C
  BY <1>1, <1>2
<1> QED
  BY <1>1, <1>3 DEF Slots

\* The four sets of threads in flight are finite.
LEMMA Finite ==
  /\ IsFiniteSet(Filling) /\ IsFiniteSet(Filled)
  /\ IsFiniteSet(Emptying) /\ IsFiniteSet(Emptied)
<1>1. /\ Filling \in SUBSET Cooks /\ Filled \in SUBSET Cooks
      /\ Emptying \in SUBSET Attendees /\ Emptied \in SUBSET Attendees
  BY Zenon DEF Filling, Filled, Emptying, Emptied
<1>2. IsFiniteSet(Cooks) /\ IsFiniteSet(Attendees)
  BY BBAssumption, Zenon
<1> QED
  BY <1>1, <1>2, FS_Subset, Zenon

\* How the counts change when a cook moves from one label to another.
LEMMA CookMove ==
  ASSUME TypeOK, NEW t \in Cooks, NEW from, NEW to, Goto(t, from, to)
  PROVE  /\ Emptying' = Emptying /\ Emptied' = Emptied
         /\ Cardinality(Filling) \in Nat /\ Cardinality(Filled) \in Nat
         /\ Cardinality(Emptying) \in Nat /\ Cardinality(Emptied) \in Nat
         /\ Cardinality(Filling') \in Nat /\ Cardinality(Filled') \in Nat
         /\ LET L == {"put_lock", "put_store", "put_tail"}
                n == Cardinality(Filling)
            IN /\ (from \in L <=> to \in L) => Cardinality(Filling') = n
               /\ from \notin L /\ to \in L => Cardinality(Filling') = n + 1
               /\ from \in L /\ to \notin L => Cardinality(Filling') = n - 1
         /\ LET L == {"put_unlock", "put_post"}
                n == Cardinality(Filled)
            IN /\ (from \in L <=> to \in L) => Cardinality(Filled') = n
               /\ from \notin L /\ to \in L => Cardinality(Filled') = n + 1
               /\ from \in L /\ to \notin L => Cardinality(Filled') = n - 1
<1> DEFINE L1 == {"put_lock", "put_store", "put_tail"}
           L2 == {"put_unlock", "put_post"}
<1>1. /\ pc \in [Threads -> CookPC \cup AttendeePC]
      /\ pc' = [pc EXCEPT ![t] = to] /\ pc[t] = from
      /\ t \in Threads \ Attendees /\ Cooks \subseteq Threads /\ Attendees \subseteq Threads
  BY BBAssumption, Zenon DEF TypeOK, Goto, Threads
<1>2. Emptying' = Emptying /\ Emptied' = Emptied
  BY <1>1, Zenon DEF Emptying, Emptied
<1>3. /\ \A u : u # t => (u \in Filling <=> u \in Filling')
      /\ t \in Filling <=> from \in L1
      /\ t \in Filling' <=> to \in L1
  BY <1>1, Zenon DEF Filling
<1>4. /\ \A u : u # t => (u \in Filled <=> u \in Filled')
      /\ t \in Filled <=> from \in L2
      /\ t \in Filled' <=> to \in L2
  BY <1>1, Zenon DEF Filled
<1> HIDE DEF L1, L2
<1>5. /\ Cardinality(Filling) \in Nat /\ Cardinality(Filling') \in Nat
      /\ (from \in L1 <=> to \in L1) => Cardinality(Filling') = Cardinality(Filling)
      /\ from \notin L1 /\ to \in L1 => Cardinality(Filling') = Cardinality(Filling) + 1
      /\ from \in L1 /\ to \notin L1 => Cardinality(Filling') = Cardinality(Filling) - 1
  BY <1>3, Finite, Move, Zenon
<1>6. /\ Cardinality(Filled) \in Nat /\ Cardinality(Filled') \in Nat
      /\ (from \in L2 <=> to \in L2) => Cardinality(Filled') = Cardinality(Filled)
      /\ from \notin L2 /\ to \in L2 => Cardinality(Filled') = Cardinality(Filled) + 1
      /\ from \in L2 /\ to \notin L2 => Cardinality(Filled') = Cardinality(Filled) - 1
  BY <1>4, Finite, Move, Zenon
<1>7. Cardinality(Emptying) \in Nat /\ Cardinality(Emptied) \in Nat
  BY Finite, FS_CardinalityType, Zenon
<1> QED
  BY <1>2, <1>5, <1>6, <1>7, Zenon DEF L1, L2

\* How the counts change when an attendee moves from one label to another.
LEMMA AttendeeMove ==
  ASSUME TypeOK, NEW t \in Attendees, NEW from, NEW to, Goto(t, from, to)
  PROVE  /\ Filling' = Filling /\ Filled' = Filled
         /\ Cardinality(Emptying) \in Nat /\ Cardinality(Emptied) \in Nat
         /\ Cardinality(Filling) \in Nat /\ Cardinality(Filled) \in Nat
         /\ Cardinality(Emptying') \in Nat /\ Cardinality(Emptied') \in Nat
         /\ LET L == {"take_lock", "take_read", "take_head"}
                n == Cardinality(Emptying)
            IN /\ (from \in L <=> to \in L) => Cardinality(Emptying') = n
               /\ from \notin L /\ to \in L => Cardinality(Emptying') = n + 1
               /\ from \in L /\ to \notin L => Cardinality(Emptying') = n - 1
         /\ LET L == {"take_unlock", "take_post"}
                n == Cardinality(Emptied)
            IN /\ (from \in L <=> to \in L) => Cardinality(Emptied') = n
               /\ from \notin L /\ to \in L => Cardinality(Emptied') = n + 1
               /\ from \in L /\ to \notin L => Cardinality(Emptied') = n - 1
<1> DEFINE L1 == {"take_lock", "take_read", "take_head"}
           L2 == {"take_unlock", "take_post"}
<1>1. /\ pc \in [Threads -> CookPC \cup AttendeePC]
      /\ pc' = [pc EXCEPT ![t] = to] /\ pc[t] = from
      /\ t \in Threads \ Cooks /\ Cooks \subseteq Threads /\ Attendees \subseteq Threads
  BY BBAssumption, Zenon DEF TypeOK, Goto, Threads
<1>2. Filling' = Filling /\ Filled' = Filled
  BY <1>1, Zenon DEF Filling, Filled
<1>3. /\ \A u : u # t => (u \in Emptying <=> u \in Emptying')
      /\ t \in Emptying <=> from \in L1
      /\ t \in Emptying' <=> to \in L1
  BY <1>1, Zenon DEF Emptying
<1>4. /\ \A u : u # t => (u \in Emptied <=> u \in Emptied')
      /\ t \in Emptied <=> from \in L2
      /\ t \in Emptied' <=> to \in L2
  BY <1>1, Zenon DEF Emptied
<1> HIDE DEF L1, L2
<1>5. /\ Cardinality(Emptying) \in Nat /\ Cardinality(Emptying') \in Nat
      /\ (from \in L1 <=> to \in L1) => Cardinality(Emptying') = Cardinality(Emptying)
      /\ from \notin L1 /\ to \in L1 => Cardinality(Emptying') = Cardinality(Emptying) + 1
      /\ from \in L1 /\ to \notin L1 => Cardinality(Emptying') = Cardinality(Emptying) - 1
  BY <1>3, Finite, Move, Zenon
<1>6. /\ Cardinality(Emptied) \in Nat /\ Cardinality(Emptied') \in Nat
      /\ (from \in L2 <=> to \in L2) => Cardinality(Emptied') = Cardinality(Emptied)
      /\ from \notin L2 /\ to \in L2 => Cardinality(Emptied') = Cardinality(Emptied) + 1
      /\ from \in L2 /\ to \notin L2 => Cardinality(Emptied') = Cardinality(Emptied) - 1
  BY <1>4, Finite, Move, Zenon
<1>7. Cardinality(Filling) \in Nat /\ Cardinality(Filled) \in Nat
  BY Finite, FS_CardinalityType, Zenon
<1> QED
  BY <1>2, <1>5, <1>6, <1>7, Zenon DEF L1, L2

\* Every step keeps every variable in its type.
LEMMA TypeStep == TypeOK /\ [Next]_vars => TypeOK'
<1> SUFFICES ASSUME TypeOK, [Next]_vars PROVE TypeOK'
  BY Zenon
<1> USE BBAssumption DEF TypeOK, Threads, Slots, CookPC, AttendeePC, Goto, ring, sems,
        LoopTest, NULL, Free
<1>1. ASSUME NEW t \in Cooks, cook(t) PROVE TypeOK'
  BY <1>1 DEF cook
<1>2. ASSUME NEW t \in Cooks, PutWait(t) PROVE TypeOK'
  BY <1>2 DEF PutWait
<1>3. ASSUME NEW t \in Cooks, PutLock(t) PROVE TypeOK'
  BY <1>3, Zenon DEF PutLock
<1>4. ASSUME NEW t \in Cooks, PutStore(t) PROVE TypeOK'
  BY <1>4, Zenon DEF PutStore
<1>5. ASSUME NEW t \in Cooks, PutTail(t) PROVE TypeOK'
  <2>1. (tail + 1) % BUF_C \in Slots
    BY Advance, Zenon
  <2> QED
    BY <1>5, <2>1, Zenon DEF PutTail
<1>6. ASSUME NEW t \in Cooks, PutUnlock(t) PROVE TypeOK'
  BY <1>6, Zenon DEF PutUnlock
<1>7. ASSUME NEW t \in Cooks, PutPost(t) PROVE TypeOK'
  BY <1>7 DEF PutPost
<1>8. ASSUME NEW t \in Attendees, TakeWait(t) PROVE TypeOK'
  BY <1>8 DEF TakeWait
<1>9. ASSUME NEW t \in Attendees, TakeLock(t) PROVE TypeOK'
  BY <1>9, Zenon DEF TakeLock
<1>10. ASSUME NEW t \in Attendees, TakeRead(t) PROVE TypeOK'
  BY <1>10, Zenon DEF TakeRead
<1>11. ASSUME NEW t \in Attendees, TakeHead(t) PROVE TypeOK'
  <2>1. (head + 1) % BUF_C \in Slots
    BY Advance, Zenon
  <2> QED
    BY <1>11, <2>1, Zenon DEF TakeHead
<1>12. ASSUME NEW t \in Attendees, TakeUnlock(t) PROVE TypeOK'
  BY <1>12, Zenon DEF TakeUnlock
<1>13. ASSUME NEW t \in Attendees, TakePost(t) PROVE TypeOK'
  BY <1>13 DEF TakePost
<1>14. ASSUME NEW t \in Attendees, eat(t) PROVE TypeOK'
  <2>1. k' \in [Attendees -> Nat]
    BY <1>14 DEF eat
  <2>2. LoopTest(k[t] + 1) \in AttendeePC
    BY Zenon
  <2> QED
    BY <1>14, <2>1, <2>2, Zenon DEF eat
<1>15. CASE UNCHANGED vars
  BY <1>15, Zenon DEF vars
<1> QED
  BY <1>1, <1>2, <1>3, <1>4, <1>5, <1>6, <1>7, <1>8, <1>9, <1>10, <1>11, <1>12,
     <1>13, <1>14, <1>15, Zenon DEF Next, bb_put, bb_take

\* Every step keeps the mutual exclusion: only the holder of m is inside.
LEMMA MutexStep == TypeOK /\ MutualExclusion /\ [Next]_vars => MutualExclusion'
<1> SUFFICES ASSUME TypeOK, MutualExclusion, [Next]_vars PROVE MutualExclusion'
  BY Zenon
<1> USE BBAssumption DEF TypeOK, MutualExclusion, InCS, Threads, Goto
<1>1. ASSUME NEW t \in Cooks, cook(t) PROVE MutualExclusion'
  BY <1>1, Zenon DEF cook
<1>2. ASSUME NEW t \in Cooks, PutWait(t) PROVE MutualExclusion'
  BY <1>2, Zenon DEF PutWait
<1>3. ASSUME NEW t \in Cooks, PutLock(t) PROVE MutualExclusion'
  BY <1>3, Zenon DEF PutLock
<1>4. ASSUME NEW t \in Cooks, PutStore(t) PROVE MutualExclusion'
  BY <1>4, Zenon DEF PutStore
<1>5. ASSUME NEW t \in Cooks, PutTail(t) PROVE MutualExclusion'
  BY <1>5, Zenon DEF PutTail
<1>6. ASSUME NEW t \in Cooks, PutUnlock(t) PROVE MutualExclusion'
  BY <1>6, Zenon DEF PutUnlock
<1>7. ASSUME NEW t \in Cooks, PutPost(t) PROVE MutualExclusion'
  BY <1>7, Zenon DEF PutPost
<1>8. ASSUME NEW t \in Attendees, TakeWait(t) PROVE MutualExclusion'
  BY <1>8, Zenon DEF TakeWait
<1>9. ASSUME NEW t \in Attendees, TakeLock(t) PROVE MutualExclusion'
  BY <1>9, Zenon DEF TakeLock
<1>10. ASSUME NEW t \in Attendees, TakeRead(t) PROVE MutualExclusion'
  BY <1>10, Zenon DEF TakeRead
<1>11. ASSUME NEW t \in Attendees, TakeHead(t) PROVE MutualExclusion'
  BY <1>11, Zenon DEF TakeHead
<1>12. ASSUME NEW t \in Attendees, TakeUnlock(t) PROVE MutualExclusion'
  BY <1>12 DEF TakeUnlock
<1>13. ASSUME NEW t \in Attendees, TakePost(t) PROVE MutualExclusion'
  BY <1>13, Zenon DEF TakePost
<1>14. ASSUME NEW t \in Attendees, eat(t) PROVE MutualExclusion'
  BY <1>14, Zenon DEF eat, LoopTest
<1>15. CASE UNCHANGED vars
  BY <1>15, Zenon DEF vars
<1> QED
  BY <1>1, <1>2, <1>3, <1>4, <1>5, <1>6, <1>7, <1>8, <1>9, <1>10, <1>11, <1>12,
     <1>13, <1>14, <1>15, Zenon DEF Next, bb_put, bb_take

\* The steps that advance neither index.
Quiet(t) ==
  \/ /\ t \in Cooks
     /\ cook(t) \/ PutWait(t) \/ PutLock(t) \/ PutStore(t) \/ PutUnlock(t) \/ PutPost(t)
  \/ /\ t \in Attendees
     /\ TakeWait(t) \/ TakeLock(t) \/ TakeRead(t) \/ TakeUnlock(t) \/ TakePost(t) \/ eat(t)

\* A step is quiet, or advances tail, or advances head, or changes nothing.
LEMMA Steps ==
  ASSUME [Next]_vars
  PROVE  \/ \E t \in Threads : Quiet(t)
         \/ \E t \in Cooks : PutTail(t)
         \/ \E t \in Attendees : TakeHead(t)
         \/ UNCHANGED vars
  BY Zenon DEF Next, bb_put, bb_take, Quiet, Threads

\* A quiet step moves a slot between a semaphore and a thread at most: the
\* number of trays in the ring and the number of free slots stay the same.
LEMMA QuietCounts ==
  ASSUME TypeOK, NEW t, Quiet(t)
  PROVE  /\ Count' = Count /\ head' = head /\ tail' = tail
         /\ empty' + Cardinality(Filling') + Cardinality(Emptied') =
              empty + Cardinality(Filling) + Cardinality(Emptied)
<1> DEFINE Goal == /\ Count' = Count /\ head' = head /\ tail' = tail
                   /\ empty' + Cardinality(Filling') + Cardinality(Emptied') =
                        empty + Cardinality(Filling) + Cardinality(Emptied)
<1>0. empty \in Nat /\ full \in Nat
  BY Zenon DEF TypeOK
<1> USE <1>0 DEF Count, sems, ring
<1>1. ASSUME t \in Cooks, cook(t) PROVE Goal
  BY <1>1, CookMove DEF cook
<1>2. ASSUME t \in Cooks, PutWait(t) PROVE Goal
  BY <1>2, CookMove DEF PutWait
<1>3. ASSUME t \in Cooks, PutLock(t) PROVE Goal
  BY <1>3, CookMove DEF PutLock
<1>4. ASSUME t \in Cooks, PutStore(t) PROVE Goal
  BY <1>4, CookMove DEF PutStore
<1>5. ASSUME t \in Cooks, PutUnlock(t) PROVE Goal
  BY <1>5, CookMove DEF PutUnlock
<1>6. ASSUME t \in Cooks, PutPost(t) PROVE Goal
  BY <1>6, CookMove DEF PutPost
<1>7. ASSUME t \in Attendees, TakeWait(t) PROVE Goal
  BY <1>7, AttendeeMove DEF TakeWait
<1>8. ASSUME t \in Attendees, TakeLock(t) PROVE Goal
  BY <1>8, AttendeeMove DEF TakeLock
<1>9. ASSUME t \in Attendees, TakeRead(t) PROVE Goal
  BY <1>9, AttendeeMove DEF TakeRead
<1>10. ASSUME t \in Attendees, TakeUnlock(t) PROVE Goal
  BY <1>10, AttendeeMove DEF TakeUnlock
<1>11. ASSUME t \in Attendees, TakePost(t) PROVE Goal
  BY <1>11, AttendeeMove DEF TakePost
<1>12. ASSUME t \in Attendees, eat(t) PROVE Goal
  BY <1>12, AttendeeMove DEF eat, LoopTest
<1> QED
  BY <1>1, <1>2, <1>3, <1>4, <1>5, <1>6, <1>7, <1>8, <1>9, <1>10, <1>11, <1>12, Zenon
  DEF Quiet

\* The thread that advances tail fills one of the slots it reserved.
LEMMA PutTailCounts ==
  ASSUME TypeOK, SlotAccounting, NEW t \in Cooks, PutTail(t)
  PROVE  /\ Count \in 0 .. BUF_C - 1 /\ Count' = Count + 1
         /\ head' = head /\ tail' = IF tail + 1 = BUF_C THEN 0 ELSE tail + 1
         /\ empty' + Cardinality(Filling') + Cardinality(Emptied') + Count' = BUF_C
<1>1. /\ Cardinality(Filling) \in Nat /\ Cardinality(Filled) \in Nat
      /\ Cardinality(Emptying) \in Nat /\ Cardinality(Emptied) \in Nat
      /\ Cardinality(Filling') \in Nat
      /\ Cardinality(Filling') = Cardinality(Filling) - 1
      /\ Cardinality(Filled') = Cardinality(Filled) + 1
      /\ Emptying' = Emptying /\ Emptied' = Emptied
  BY CookMove DEF PutTail
<1>2. /\ empty \in Nat /\ full \in Nat
      /\ empty' = empty /\ full' = full /\ head' = head
      /\ tail' = IF tail + 1 = BUF_C THEN 0 ELSE tail + 1
  BY Advance, Zenon DEF PutTail, sems, TypeOK
<1>3. empty + Cardinality(Filling) + Cardinality(Emptied) + Count = BUF_C /\ BUF_C \in Nat
  BY BBAssumption, Zenon DEF SlotAccounting
<1> QED
  BY <1>1, <1>2, <1>3 DEF Count

\* The thread that advances head empties one of the slots it was promised.
LEMMA TakeHeadCounts ==
  ASSUME TypeOK, SlotAccounting, NEW t \in Attendees, TakeHead(t)
  PROVE  /\ Count \in 1 .. BUF_C /\ Count' = Count - 1
         /\ tail' = tail /\ head' = IF head + 1 = BUF_C THEN 0 ELSE head + 1
         /\ empty' + Cardinality(Filling') + Cardinality(Emptied') + Count' = BUF_C
<1>1. /\ Cardinality(Filling) \in Nat /\ Cardinality(Filled) \in Nat
      /\ Cardinality(Emptying) \in Nat /\ Cardinality(Emptied) \in Nat
      /\ Cardinality(Emptying') \in Nat
      /\ Cardinality(Emptying') = Cardinality(Emptying) - 1
      /\ Cardinality(Emptied') = Cardinality(Emptied) + 1
      /\ Filling' = Filling /\ Filled' = Filled
  BY AttendeeMove DEF TakeHead
<1>2. /\ empty \in Nat /\ full \in Nat
      /\ empty' = empty /\ full' = full /\ tail' = tail
      /\ head' = IF head + 1 = BUF_C THEN 0 ELSE head + 1
  BY Advance, Zenon DEF TakeHead, sems, TypeOK
<1>3. empty + Cardinality(Filling) + Cardinality(Emptied) + Count = BUF_C /\ BUF_C \in Nat
  BY BBAssumption, Zenon DEF SlotAccounting
<1> QED
  BY <1>1, <1>2, <1>3 DEF Count

\* Every step keeps the slots accounted for.
LEMMA SlotStep == TypeOK /\ SlotAccounting /\ [Next]_vars => SlotAccounting'
<1> SUFFICES ASSUME TypeOK, SlotAccounting, [Next]_vars PROVE SlotAccounting'
  BY Zenon
<1>0. BUF_C \in Nat \ {0} /\ head \in 0 .. BUF_C - 1 /\ tail \in 0 .. BUF_C - 1
  BY BBAssumption, Zenon DEF TypeOK, Slots
<1>1. ASSUME NEW t \in Threads, Quiet(t) PROVE SlotAccounting'
  BY <1>1, QuietCounts, Zenon DEF SlotAccounting
<1>2. ASSUME NEW t \in Cooks, PutTail(t) PROVE SlotAccounting'
  <2>1. /\ Count \in 0 .. BUF_C - 1 /\ Count' = Count + 1
        /\ head' = head /\ tail' = IF tail + 1 = BUF_C THEN 0 ELSE tail + 1
    BY <1>2, PutTailCounts, Zenon
  <2>2. tail = (head + Count) % BUF_C
    BY Zenon DEF SlotAccounting
  <2>3. tail' = (head' + Count') % BUF_C
    BY <1>0, <2>1, <2>2
  <2> QED
    BY <1>2, <2>3, PutTailCounts, Zenon DEF SlotAccounting
<1>3. ASSUME NEW t \in Attendees, TakeHead(t) PROVE SlotAccounting'
  <2>1. /\ Count \in 1 .. BUF_C /\ Count' = Count - 1
        /\ tail' = tail /\ head' = IF head + 1 = BUF_C THEN 0 ELSE head + 1
    BY <1>3, TakeHeadCounts, Zenon
  <2>2. tail = (head + Count) % BUF_C
    BY Zenon DEF SlotAccounting
  <2>3. tail' = (head' + Count') % BUF_C
    BY <1>0, <2>1, <2>2
  <2> QED
    BY <1>3, <2>3, TakeHeadCounts, Zenon DEF SlotAccounting
<1>4. CASE UNCHANGED vars
  BY <1>4, Zenon DEF vars, SlotAccounting, Count, Filling, Filled, Emptying, Emptied
<1> QED
  BY <1>1, <1>2, <1>3, <1>4, Steps, Zenon

\* The slot i places after head, for i within one lap.
LEMMA Slot ==
  ASSUME NEW h \in Slots, NEW i \in 0 .. BUF_C
  PROVE  /\ (h + i) % BUF_C \in Slots
         /\ (h + i) % BUF_C = IF h + i < BUF_C THEN h + i ELSE h + i - BUF_C
<1>1. BUF_C \in Nat \ {0} /\ h \in Nat /\ i \in Nat /\ h < BUF_C /\ i <= BUF_C
  BY BBAssumption DEF Slots
<1>2. (h + i) % BUF_C = IF h + i < BUF_C THEN h + i ELSE h + i - BUF_C
  BY <1>1
<1> QED
  BY <1>1, <1>2 DEF Slots

\* The ring between head and tail never holds more than BUF_C trays.
LEMMA CountBound ==
  ASSUME TypeOK, SlotAccounting
  PROVE  Count \in 0 .. BUF_C
<1>1. /\ Cardinality(Filling) \in Nat /\ Cardinality(Filled) \in Nat
      /\ Cardinality(Emptying) \in Nat /\ Cardinality(Emptied) \in Nat
  BY Finite, FS_CardinalityType, Zenon
<1>2. empty \in Nat /\ full \in Nat /\ BUF_C \in Nat
  BY BBAssumption, Zenon DEF TypeOK
<1>3. empty + Cardinality(Filling) + Cardinality(Emptied) + Count = BUF_C
  BY Zenon DEF SlotAccounting
<1> QED
  BY <1>1, <1>2, <1>3 DEF Count

\* A producer that has reserved a slot finds the ring not full.
LEMMA Reserved ==
  ASSUME TypeOK, SlotAccounting, NEW t \in Filling
  PROVE  Count < BUF_C
<1>1. /\ Cardinality(Filling) \in Nat /\ Cardinality(Filled) \in Nat
      /\ Cardinality(Emptying) \in Nat /\ Cardinality(Emptied) \in Nat
      /\ Cardinality(Filling) > 0
  BY Finite, FS_CardinalityType, NonEmpty, Zenon
<1>2. empty \in Nat /\ full \in Nat /\ BUF_C \in Nat
  BY BBAssumption, Zenon DEF TypeOK
<1>3. empty + Cardinality(Filling) + Cardinality(Emptied) + Count = BUF_C
  BY Zenon DEF SlotAccounting
<1> QED
  BY <1>1, <1>2, <1>3 DEF Count

\* A quiet step leaves the trays in the ring alone.  The store of bb_put writes
\* the slot after the last tray, never one between head and tail.
LEMMA QuietContents ==
  ASSUME TypeOK, SlotAccounting, NEW t, Quiet(t)
  PROVE  Contents' = Contents
<1>1. Count' = Count /\ head' = head /\ Count \in 0 .. BUF_C
  BY QuietCounts, CountBound, Zenon
<1>2. CASE t \in Cooks /\ PutStore(t)
  <2>1. t \in Filling
    BY <1>2, Zenon DEF PutStore, Goto, Filling
  <2>2. Count < BUF_C /\ tail = (head + Count) % BUF_C
    BY <2>1, Reserved, Zenon DEF SlotAccounting
  <2>3. /\ head \in Slots /\ tail \in Slots /\ buf \in [Slots -> Nat \cup {NULL}]
        /\ BUF_C \in Nat \ {0} /\ Slots = 0 .. BUF_C - 1
    BY BBAssumption, Zenon DEF TypeOK, Slots
  <2>4. ASSUME NEW i \in 1 .. Count
        PROVE  (head + i - 1) % BUF_C \in Slots /\ (head + i - 1) % BUF_C # tail
    <3>1. tail = IF head + Count < BUF_C THEN head + Count ELSE head + Count - BUF_C
      BY <1>1, <2>2, <2>3, Slot, Zenon
    <3>2. i - 1 \in 0 .. BUF_C /\ head + i - 1 = head + (i - 1) /\ i - 1 < Count
      BY <1>1, <2>3
    <3>3. /\ (head + (i - 1)) % BUF_C \in Slots
          /\ (head + (i - 1)) % BUF_C = IF head + (i - 1) < BUF_C THEN head + (i - 1)
                                         ELSE head + (i - 1) - BUF_C
      BY <2>3, <3>2, Slot, Zenon
    <3> QED
      BY <1>1, <2>2, <2>3, <3>1, <3>2, <3>3
  <2>5. ASSUME NEW i \in 1 .. Count
        PROVE  buf'[(head + i - 1) % BUF_C] = buf[(head + i - 1) % BUF_C]
    BY <1>2, <2>3, <2>4, Zenon DEF PutStore
  <2> QED
    BY <1>1, <2>5, Zenon DEF Contents
<1>3. CASE ~ (t \in Cooks /\ PutStore(t))
  <2>1. buf' = buf
    BY <1>3, Zenon DEF Quiet, cook, PutWait, PutLock, PutUnlock, PutPost, TakeWait, TakeLock,
                TakeRead, TakeUnlock, TakePost, eat, ring
  <2> QED
    BY <1>1, <2>1, Zenon DEF Contents
<1> QED
  BY <1>2, <1>3, Zenon

\* Advancing tail makes the stored tray the last one in the ring.
LEMMA PutTailContents ==
  ASSUME TypeOK, SlotAccounting, NEW t \in Cooks, PutTail(t)
  PROVE  /\ Len(Contents) < BUF_C
         /\ Contents' = Append(Contents, buf[tail])
<1>1. /\ Count \in 0 .. BUF_C - 1 /\ Count' = Count + 1 /\ head' = head /\ buf' = buf
      /\ tail = (head + Count) % BUF_C
  BY PutTailCounts, Zenon DEF PutTail, SlotAccounting
<1>2. head \in Nat /\ BUF_C \in Nat
  BY BBAssumption DEF TypeOK, Slots
<1>3. Contents = [i \in 1 .. Count |-> buf[(head + i - 1) % BUF_C]]
  BY Zenon DEF Contents
<1>4. Contents' = [i \in 1 .. Count + 1 |-> buf[(head + i - 1) % BUF_C]]
  BY <1>1, Zenon DEF Contents
<1>5. head + (Count + 1) - 1 = head + Count
  BY <1>1, <1>2
<1> HIDE DEF Contents
<1> QED
  BY <1>1, <1>2, <1>3, <1>4, <1>5

\* Advancing head drops the oldest tray from the ring.
LEMMA TakeHeadContents ==
  ASSUME TypeOK, SlotAccounting, NEW t \in Attendees, TakeHead(t)
  PROVE  /\ Contents # <<>> /\ Head(Contents) = buf[head]
         /\ Contents' = Tail(Contents)
<1>1. /\ Count \in 1 .. BUF_C /\ Count' = Count - 1 /\ buf' = buf
      /\ head' = IF head + 1 = BUF_C THEN 0 ELSE head + 1
  BY TakeHeadCounts, Zenon DEF TakeHead
<1>2. head \in Slots /\ head \in Nat /\ head < BUF_C /\ BUF_C \in Nat \ {0}
  BY BBAssumption DEF TypeOK, Slots
<1>3. Contents = [i \in 1 .. Count |-> buf[(head + i - 1) % BUF_C]]
  BY Zenon DEF Contents
<1>4. (head + 1 - 1) % BUF_C = head
  BY <1>2
<1>5. ASSUME NEW i \in 1 .. Count - 1
      PROVE  (head' + i - 1) % BUF_C = (head + (i + 1) - 1) % BUF_C
  BY <1>1, <1>2
<1>6. Contents' = [i \in 1 .. Count - 1 |-> buf[(head + (i + 1) - 1) % BUF_C]]
  BY <1>1, <1>5, Zenon DEF Contents
<1> HIDE DEF Contents
<1>7. Len(Contents) = Count /\ Contents # <<>> /\ Head(Contents) = Contents[1]
  BY <1>1, <1>2, <1>3
<1>8. Contents[1] = buf[head]
  BY <1>1, <1>2, <1>3, <1>4
<1>9. /\ Tail(Contents) \in Seq(Nat \cup {NULL}) /\ Len(Tail(Contents)) = Count - 1
      /\ \A i \in 1 .. Count - 1 : Tail(Contents)[i] = Contents[i + 1]
  <2>1. ASSUME NEW i \in 1 .. Count PROVE Contents[i] \in Nat \cup {NULL}
    <3>1. i - 1 \in 0 .. BUF_C /\ head + i - 1 = head + (i - 1)
      BY <1>1, <1>2
    <3> QED
      BY <1>2, <1>3, <3>1, Slot, Zenon DEF TypeOK
  <2>2. Contents \in Seq(Nat \cup {NULL})
    BY <1>1, <1>2, <1>3, <2>1
  <2> QED
    BY <1>1, <1>7, <2>2
<1>10. ASSUME NEW i \in 1 .. Count - 1
       PROVE  Contents[i + 1] = buf[(head + (i + 1) - 1) % BUF_C]
  <2>1. i + 1 \in 1 .. Count
    BY <1>1, <1>2
  <2> QED
    BY <1>3, <2>1, Zenon
<1>11. Contents' = Tail(Contents)
  <2> DEFINE rest == Tail(Contents)
  <2>1. rest \in Seq(Nat \cup {NULL}) /\ Len(rest) = Count - 1
    BY <1>9, Zenon
  <2>2. Contents' = [i \in 1 .. Count - 1 |-> rest[i]]
    BY <1>6, <1>9, <1>10, Zenon
  <2> HIDE DEF rest
  <2>3. rest = [i \in 1 .. Count - 1 |-> rest[i]]
    BY <2>1
  <2> QED
    BY <2>2, <2>3, Zenon DEF rest
<1> QED
  BY <1>7, <1>8, <1>11, Zenon

\* The three parts of Handover.
CooksReady ==
  \A t \in Cooks :
    /\ Owned[t] # NULL <=> pc[t] \notin {"cook", "put_unlock", "put_post"}
    /\ pc[t] = "put_tail" => buf[tail] = tray[t]
AttendeesReady ==
  \A t \in Attendees :
    /\ Owned[t] # NULL <=> pc[t] \in {"take_unlock", "take_post", "eat"}
    /\ pc[t] = "take_head" => tray[t] = buf[head]
NoHoles == \A i \in 1 .. Count : Contents[i] # NULL

\* bb_put and bb_take leave no hole between head and tail.
LEMMA NoHolesStep == IInv /\ [Next]_vars => NoHoles'
<1> SUFFICES ASSUME IInv, [Next]_vars PROVE NoHoles'
  BY Zenon
<1>0. TypeOK /\ SlotAccounting /\ CooksReady /\ NoHoles /\ Count \in 0 .. BUF_C /\ BUF_C \in Nat
  BY CountBound, BBAssumption, Zenon DEF IInv, Handover, CooksReady, NoHoles
<1>1. ASSUME NEW t \in Threads, Quiet(t) PROVE NoHoles'
  BY <1>0, <1>1, QuietCounts, QuietContents, Zenon DEF NoHoles
<1>2. ASSUME NEW t \in Cooks, PutTail(t) PROVE NoHoles'
  <2>1. buf[tail] # NULL
    BY <1>0, <1>2, Zenon DEF CooksReady, Owned, PutTail, Goto, Threads
  <2>2. head' = head /\ buf' = buf /\ Count' = Count + 1 /\ tail = (head + Count) % BUF_C
    BY <1>0, <1>2, PutTailCounts, Zenon DEF PutTail, SlotAccounting
  <2>3. ASSUME NEW i \in 1 .. Count + 1 PROVE buf[(head + i - 1) % BUF_C] # NULL
    <3>1. CASE i = Count + 1
      <4>1. head + i - 1 = head + Count
        BY <1>0, <3>1 DEF TypeOK, Slots
      <4> QED
        BY <2>1, <2>2, <4>1, Zenon
    <3>2. CASE i \in 1 .. Count
      BY <1>0, <3>2, Zenon DEF NoHoles, Contents
    <3> QED
      BY <1>0, <3>1, <3>2
  <2> QED
    BY <2>2, <2>3, Zenon DEF NoHoles, Contents
<1>3. ASSUME NEW t \in Attendees, TakeHead(t) PROVE NoHoles'
  <2>1. /\ Count' = Count - 1 /\ buf' = buf
        /\ head' = IF head + 1 = BUF_C THEN 0 ELSE head + 1
    BY <1>0, <1>3, TakeHeadCounts, Zenon DEF TakeHead
  <2>2. head \in Nat /\ head < BUF_C
    BY <1>0 DEF TypeOK, Slots
  <2>3. ASSUME NEW i \in 1 .. Count - 1 PROVE buf[(head' + i - 1) % BUF_C] # NULL
    <3>1. (head' + i - 1) % BUF_C = (head + (i + 1) - 1) % BUF_C
      BY <1>0, <2>1, <2>2
    <3>2. i + 1 \in 1 .. Count
      BY <1>0
    <3> QED
      BY <1>0, <3>1, <3>2, Zenon DEF NoHoles, Contents
  <2> QED
    BY <2>1, <2>3, Zenon DEF NoHoles, Contents
<1>4. CASE UNCHANGED vars
  BY <1>0, <1>4, Zenon DEF NoHoles, Contents, Count, Filled, Emptying, vars
<1> QED
  BY <1>1, <1>2, <1>3, <1>4, Steps, Zenon

\* Every step keeps the pointers the threads carry good.
LEMMA HandoverStep == IInv /\ [Next]_vars => Handover'
<1> SUFFICES ASSUME IInv, [Next]_vars PROVE CooksReady' /\ AttendeesReady'
  BY NoHolesStep, Zenon DEF Handover, CooksReady, AttendeesReady, NoHoles
<1>0. TypeOK /\ MutualExclusion /\ CooksReady /\ AttendeesReady
  BY Zenon DEF IInv, Handover, CooksReady, AttendeesReady
<1> DEFINE Goal == CooksReady' /\ AttendeesReady'
<1> USE <1>0, BBAssumption DEF TypeOK, CooksReady, AttendeesReady, MutualExclusion, InCS,
        Owned, Goto, ring, sems, Threads, Slots, NULL
<1>1. ASSUME NEW t \in Cooks, cook(t) PROVE Goal
  BY <1>1 DEF cook
<1>2. ASSUME NEW t \in Cooks, PutWait(t) PROVE Goal
  BY <1>2, Zenon DEF PutWait
<1>3. ASSUME NEW t \in Cooks, PutLock(t) PROVE Goal
  BY <1>3, Zenon DEF PutLock
<1>4. ASSUME NEW t \in Cooks, PutStore(t) PROVE Goal
  BY <1>4 DEF PutStore
<1>5. ASSUME NEW t \in Cooks, PutTail(t) PROVE Goal
  BY <1>5 DEF PutTail
<1>6. ASSUME NEW t \in Cooks, PutUnlock(t) PROVE Goal
  BY <1>6, Zenon DEF PutUnlock
<1>7. ASSUME NEW t \in Cooks, PutPost(t) PROVE Goal
  BY <1>7, Zenon DEF PutPost
<1>8. ASSUME NEW t \in Attendees, TakeWait(t) PROVE Goal
  BY <1>8, Zenon DEF TakeWait
<1>9. ASSUME NEW t \in Attendees, TakeLock(t) PROVE Goal
  BY <1>9, Zenon DEF TakeLock
<1>10. ASSUME NEW t \in Attendees, TakeRead(t) PROVE Goal
  BY <1>10, Zenon DEF TakeRead
<1>11. ASSUME NEW t \in Attendees, TakeHead(t) PROVE Goal
  <2>1. buf[head] # NULL
    <3>1. Contents # <<>> /\ Head(Contents) = buf[head] /\ Count \in 1 .. BUF_C
      BY <1>11, TakeHeadContents, TakeHeadCounts, Zenon DEF IInv
    <3>2. Contents[1] # NULL
      BY <3>1 DEF IInv, Handover
    <3>3. Head(Contents) = Contents[1]
      BY <3>1
    <3> QED
      BY <3>1, <3>2, <3>3, Zenon
  <2> QED
    BY <1>11, <2>1 DEF TakeHead
<1>12. ASSUME NEW t \in Attendees, TakeUnlock(t) PROVE Goal
  BY <1>12, Zenon DEF TakeUnlock
<1>13. ASSUME NEW t \in Attendees, TakePost(t) PROVE Goal
  BY <1>13, Zenon DEF TakePost
<1>14. ASSUME NEW t \in Attendees, eat(t) PROVE Goal
  BY <1>14, Zenon DEF eat, LoopTest
<1>15. CASE UNCHANGED vars
  BY <1>15, Zenon DEF vars
<1> QED
  BY <1>1, <1>2, <1>3, <1>4, <1>5, <1>6, <1>7, <1>8, <1>9, <1>10, <1>11, <1>12, <1>13,
     <1>14, <1>15, Zenon DEF Next, bb_put, bb_take

\* bb_init and the threads' first statements establish the invariant.
LEMMA InitIInv == Init => IInv
<1> SUFFICES ASSUME Init PROVE IInv
  BY Zenon
<1>1. TypeOK
  BY BBAssumption DEF Init, bb_init, TypeOK, Threads, Slots, CookPC, AttendeePC, LoopTest
<1>2. Filling = {} /\ Filled = {} /\ Emptying = {} /\ Emptied = {}
  BY BBAssumption, Zenon DEF Init, Filling, Filled, Emptying, Emptied, Threads, LoopTest
<1>3. Count = 0 /\ empty = BUF_C /\ head = 0 /\ tail = 0
  BY <1>2, FS_EmptySet DEF Count, Init, bb_init
<1>4. SlotAccounting
  BY <1>2, <1>3, FS_EmptySet, BBAssumption DEF SlotAccounting
<1>5. MutualExclusion
  BY BBAssumption, Zenon DEF Init, bb_init, MutualExclusion, InCS, Threads, LoopTest
<1>6. Handover
  BY <1>3, BBAssumption DEF Init, bb_init, Handover, Owned, Threads, LoopTest
<1> QED
  BY <1>1, <1>4, <1>5, <1>6, Zenon DEF IInv

\* The conjunction of the four invariants is preserved by every statement of
\* cook(), attendee(), bb_put and bb_take.
THEOREM Inductive == Spec => []IInv
<1>1. IInv /\ [Next]_vars => IInv'
  BY TypeStep, SlotStep, MutexStep, HandoverStep, Zenon DEF IInv
<1> QED
  BY InitIInv, <1>1, PTL DEF Spec

\* bb_put never overruns the ring and bb_take never reads an empty one: for
\* any numbers of threads the two semaphores account for every slot.
THEOREM SlotsAccounted == Spec => []SlotAccounting
<1>1. IInv => SlotAccounting
  BY Zenon DEF IInv
<1> QED
  BY Inductive, <1>1, PTL

\* The mutex m of bb_t gives its holder the ring alone.
THEOREM Exclusive == Spec => []MutualExclusion
<1>1. IInv => MutualExclusion
  BY Zenon DEF IInv
<1> QED
  BY Inductive, <1>1, PTL

\* The tray pointers that cook() and attendee() use are never NULL or stale.
THEOREM HandedOver == Spec => []Handover
<1>1. IInv => Handover
  BY Zenon DEF IInv
<1> QED
  BY Inductive, <1>1, PTL

\* Quiet steps other than cook and eat change the owner of no tray.
LEMMA OwnedStep ==
  ASSUME IInv
  PROVE  /\ \A t \in Cooks : cook(t) =>
                /\ Owned[t] = NULL
                /\ Owned' = [Owned EXCEPT ![t] = tray_counter]
         /\ \A t \in Cooks : PutTail(t) =>
                /\ Owned[t] # NULL /\ Owned[t] = buf[tail]
                /\ Owned' = [Owned EXCEPT ![t] = NULL]
         /\ \A t \in Attendees : TakeHead(t) =>
                /\ Owned[t] = NULL
                /\ Owned' = [Owned EXCEPT ![t] = buf[head]]
         /\ \A t \in Attendees : eat(t) =>
                /\ Owned[t] # NULL
                /\ Owned' = [Owned EXCEPT ![t] = NULL]
<1> USE BBAssumption DEF IInv, TypeOK, Handover, Threads, Owned, Goto, NULL
<1>1. ASSUME NEW t \in Cooks, cook(t)
      PROVE  Owned[t] = NULL /\ Owned' = [Owned EXCEPT ![t] = tray_counter]
  BY <1>1, Zenon DEF cook
<1>2. ASSUME NEW t \in Cooks, PutTail(t)
      PROVE  /\ Owned[t] # NULL /\ Owned[t] = buf[tail]
             /\ Owned' = [Owned EXCEPT ![t] = NULL]
  BY <1>2, Zenon DEF PutTail
<1>3. ASSUME NEW t \in Attendees, TakeHead(t)
      PROVE  Owned[t] = NULL /\ Owned' = [Owned EXCEPT ![t] = buf[head]]
  BY <1>3, Zenon DEF TakeHead
<1>4. ASSUME NEW t \in Attendees, eat(t)
      PROVE  Owned[t] # NULL /\ Owned' = [Owned EXCEPT ![t] = NULL]
  BY <1>4, Zenon DEF eat, LoopTest
<1> QED
  BY <1>1, <1>2, <1>3, <1>4, Zenon

\* The other quiet steps change no owner and make no tray.
LEMMA OwnedQuiet ==
  ASSUME TypeOK, NEW t, Quiet(t), ~ (t \in Cooks /\ cook(t)), ~ (t \in Attendees /\ eat(t))
  PROVE  Owned' = Owned /\ tray_counter' = tray_counter
<1> USE BBAssumption DEF TypeOK, Threads, Owned, Goto
<1>1. ASSUME t \in Cooks, PutWait(t) \/ PutLock(t) \/ PutStore(t)
      PROVE  Owned' = Owned /\ tray_counter' = tray_counter
  BY <1>1, Zenon DEF PutWait, PutLock, PutStore
<1>2. ASSUME t \in Cooks, PutUnlock(t) \/ PutPost(t)
      PROVE  Owned' = Owned /\ tray_counter' = tray_counter
  BY <1>2, Zenon DEF PutUnlock, PutPost
<1>3. ASSUME t \in Attendees, TakeWait(t) \/ TakeLock(t) \/ TakeRead(t)
      PROVE  Owned' = Owned /\ tray_counter' = tray_counter
  BY <1>3, Zenon DEF TakeWait, TakeLock, TakeRead
<1>4. ASSUME t \in Attendees, TakeUnlock(t) \/ TakePost(t)
      PROVE  Owned' = Owned /\ tray_counter' = tray_counter
  BY <1>4, Zenon DEF TakeUnlock, TakePost
<1> QED
  BY <1>1, <1>2, <1>3, <1>4, Zenon DEF Quiet

\* Every step of the buffer is a step of the FIFO queue, or no step of it: a
\* tray is made by cook, put by the advance of tail, taken by the advance of
\* head and eaten by free_food_tray.
LEMMA FIFOStep == IInv /\ [Next]_vars => [FIFO!Next]_(FIFO!vars)
<1> SUFFICES ASSUME IInv, [Next]_vars PROVE FIFO!Next \/ UNCHANGED FIFO!vars
  BY Zenon
<1>0. TypeOK /\ SlotAccounting
  BY Zenon DEF IInv
<1>1. ASSUME NEW t \in Cooks, cook(t) PROVE FIFO!Make(t)
  <2>1. Contents' = Contents
    BY <1>0, <1>1, QuietContents, Zenon DEF Quiet
  <2> QED
    BY <1>1, <2>1, OwnedStep, Zenon DEF FIFO!Make, FIFO!Nothing, NULL, cook
<1>2. ASSUME NEW t \in Cooks, PutTail(t) PROVE FIFO!Put(t)
  <2>1. Len(Contents) < BUF_C /\ Contents' = Append(Contents, buf[tail])
    BY <1>0, <1>2, PutTailContents, Zenon
  <2> QED
    BY <1>2, <2>1, OwnedStep, Zenon DEF FIFO!Put, FIFO!Nothing, NULL, PutTail
<1>3. ASSUME NEW t \in Attendees, TakeHead(t) PROVE FIFO!Take(t)
  <2>1. Contents # <<>> /\ Head(Contents) = buf[head] /\ Contents' = Tail(Contents)
    BY <1>0, <1>3, TakeHeadContents, Zenon
  <2> QED
    BY <1>3, <2>1, OwnedStep, Zenon DEF FIFO!Take, FIFO!Nothing, NULL, TakeHead
<1>4. ASSUME NEW t \in Attendees, eat(t) PROVE FIFO!Eat(t)
  <2>1. Contents' = Contents
    BY <1>0, <1>4, QuietContents, Zenon DEF Quiet
  <2> QED
    BY <1>4, <2>1, OwnedStep, Zenon DEF FIFO!Eat, FIFO!Nothing, NULL, eat
<1>5. ASSUME NEW t \in Threads, Quiet(t), ~ (t \in Cooks /\ cook(t)),
             ~ (t \in Attendees /\ eat(t))
      PROVE  UNCHANGED FIFO!vars
  BY <1>0, <1>5, QuietContents, OwnedQuiet, Zenon DEF FIFO!vars
<1>6. CASE UNCHANGED vars
  BY <1>6, Zenon DEF vars, FIFO!vars, Contents, Count, Filled, Emptying, Owned
<1> QED
  BY <1>1, <1>2, <1>3, <1>4, <1>5, <1>6, Steps, Zenon DEF FIFO!Next

\* The ring with its two semaphores and its mutex implements a FIFO queue of
\* capacity BUF_C: no tray is lost, duplicated or reordered.
THEOREM Refinement == Spec => ImplementsFIFO
<1>1. Init => FIFO!Init
  <2> SUFFICES ASSUME Init PROVE FIFO!Init
    BY Zenon
  <2>1. Filled = {} /\ Emptying = {}
    BY BBAssumption, Zenon DEF Init, Filled, Emptying, Threads, LoopTest
  <2>2. Count = 0
    BY <2>1, FS_EmptySet DEF Count, Init, bb_init
  <2>3. Contents = <<>>
    BY <2>2 DEF Contents
  <2>4. Owned = [t \in Cooks \cup Attendees |-> FIFO!Nothing]
    BY BBAssumption, Zenon DEF Init, Owned, Threads, LoopTest, FIFO!Nothing, NULL
  <2> QED
    BY <2>3, <2>4, Zenon DEF FIFO!Init, Init
<1> QED
  BY <1>1, FIFOStep, Inductive, PTL DEF Spec, ImplementsFIFO, FIFO!Spec

------------------------------------------------------------------------------
(* Trays                                                                    *)

Owners == {t \in Threads : Owned[t] # NULL}
InRing == {Contents[i] : i \in 1 .. Count}

\* No two places hold the same tray, and the next tray will be a new one.
Distinct ==
  /\ heap \subseteq 0 .. tray_counter - 1
  /\ \A t, u \in Owners : Owned[t] = Owned[u] => t = u
  /\ \A i, j \in 1 .. Count : Contents[i] = Contents[j] => i = j
  /\ \A t \in Owners : Owned[t] \notin InRing

\* The trays in use are those in the threads' hands and in the ring.
Tallied ==
  /\ heap = {Owned[t] : t \in Owners} \cup InRing
  /\ IsFiniteSet(heap) /\ Cardinality(heap) = Cardinality(Owners) + Count

Trays == Distinct /\ Tallied

\* The threads that own a tray are finitely many, as the threads are.
LEMMA OwnersFinite == IsFiniteSet(Owners) /\ Cardinality(Owners) \in Nat
<1>1. IsFiniteSet(Threads) /\ Owners \subseteq Threads
  BY BBAssumption, FS_Union, Zenon DEF Threads, Owners
<1> QED
  BY <1>1, FS_Subset, FS_CardinalityType, Zenon

\* What a step leaves as it was when it changes no tray.
LEMMA TraysKept ==
  ASSUME Trays, Owned' = Owned, Contents' = Contents, Count' = Count, heap' = heap,
         tray_counter' = tray_counter
  PROVE  Trays'
  BY DEF Trays, Distinct, Tallied, Owners, InRing

\* A new tray is one more for its cook.
LEMMA TrayMade ==
  ASSUME TypeOK, Trays, NEW t \in Threads, Owned[t] = NULL, Count \in Nat,
         Owned' = [Owned EXCEPT ![t] = tray_counter], Contents' = Contents, Count' = Count,
         heap' = heap \cup {tray_counter}, tray_counter' = tray_counter + 1
  PROVE  Trays'
<1>0. tray_counter \in Nat /\ tray_counter # NULL /\ tray_counter \notin heap
  BY DEF TypeOK, NULL, Trays, Distinct
<1>1. DOMAIN Owned = Threads
  BY Zenon DEF Owned
<1>2. Owned'[t] = tray_counter /\ \A u \in Threads \ {t} : Owned'[u] = Owned[u]
  BY <1>1, Zenon
<1>3. t \notin Owners /\ Owners' = Owners \cup {t} /\ \A u \in Owners : Owned'[u] = Owned[u]
  BY <1>0, <1>2, Zenon DEF Owners
<1>4. InRing' = InRing /\ InRing \subseteq heap /\ \A u \in Owners : Owned[u] \in heap
  BY Zenon DEF InRing, Trays, Tallied
<1>5. heap' \subseteq 0 .. tray_counter' - 1
  BY <1>0 DEF Trays, Distinct
<1>6. Distinct'
  <2>1. \A i, j \in 1 .. Count' : Contents'[i] = Contents'[j] => i = j
    BY Zenon DEF Trays, Distinct
  <2>2. \A v, u \in Owners' : Owned'[v] = Owned'[u] => v = u
    BY <1>0, <1>2, <1>3, <1>4 DEF Trays, Distinct
  <2>3. \A v \in Owners' : Owned'[v] \notin InRing'
    BY <1>0, <1>2, <1>3, <1>4 DEF Trays, Distinct
  <2> QED
    BY <1>5, <2>1, <2>2, <2>3, Zenon DEF Distinct
<1>7. heap' = {Owned'[u] : u \in Owners'} \cup InRing'
  BY <1>2, <1>3, <1>4, Zenon DEF Trays, Tallied
<1>8. IsFiniteSet(heap') /\ Cardinality(heap') = Cardinality(heap) + 1
  BY <1>0, FS_AddElement, Zenon DEF Trays, Tallied
<1>9. Cardinality(Owners') = Cardinality(Owners) + 1
  BY <1>3, OwnersFinite, FS_AddElement, Zenon
<1> QED
  BY <1>6, <1>7, <1>8, <1>9, OwnersFinite DEF Trays, Tallied

\* A tray goes from a cook to the end of the ring.
LEMMA TrayPut ==
  ASSUME Trays, NEW t \in Threads, Owned[t] # NULL, Count \in Nat, Count' = Count + 1,
         Owned' = [Owned EXCEPT ![t] = NULL], heap' = heap, tray_counter' = tray_counter,
         \A i \in 1 .. Count : Contents'[i] = Contents[i], Contents'[Count + 1] = Owned[t]
  PROVE  Trays'
<1>1. DOMAIN Owned = Threads
  BY Zenon DEF Owned
<1>2. Owned'[t] = NULL /\ \A u \in Threads \ {t} : Owned'[u] = Owned[u]
  BY <1>1, Zenon
<1>3. t \in Owners /\ Owners' = Owners \ {t} /\ \A u \in Owners' : Owned'[u] = Owned[u]
  BY <1>2, Zenon DEF Owners
<1>4. 1 .. Count' = (1 .. Count) \cup {Count + 1}
  OBVIOUS
<1>5. InRing' = InRing \cup {Owned[t]}
  BY <1>4 DEF InRing
<1>6. Distinct'
  <2>1. \A i \in 1 .. Count : Contents[i] \in InRing
    BY Zenon DEF InRing
  <2>2. Owned[t] \notin InRing
    BY <1>3, Zenon DEF Trays, Distinct
  <2>3. \A i, j \in 1 .. Count' : Contents'[i] = Contents'[j] => i = j
    BY <1>4, <2>1, <2>2 DEF Trays, Distinct
  <2>4. \A v, u \in Owners' : Owned'[v] = Owned'[u] => v = u
    BY <1>3 DEF Trays, Distinct
  <2>5. \A v \in Owners' : Owned'[v] \notin InRing'
    BY <1>3, <1>5 DEF Trays, Distinct
  <2> QED
    BY <2>3, <2>4, <2>5, Zenon DEF Trays, Distinct
<1>7. heap' = {Owned'[u] : u \in Owners'} \cup InRing'
  BY <1>3, <1>5 DEF Trays, Tallied
<1>8. Cardinality(Owners') = Cardinality(Owners) - 1
  BY <1>3, OwnersFinite, Shrink, Zenon
<1> QED
  BY <1>6, <1>7, <1>8, OwnersFinite DEF Trays, Tallied

\* The oldest tray of the ring goes to an attendee.
LEMMA TrayTaken ==
  ASSUME Trays, NEW t \in Threads, Owned[t] = NULL, Count \in Nat \ {0}, Count' = Count - 1,
         Contents[1] # NULL, Owned' = [Owned EXCEPT ![t] = Contents[1]],
         heap' = heap, tray_counter' = tray_counter,
         \A i \in 1 .. Count - 1 : Contents'[i] = Contents[i + 1]
  PROVE  Trays'
<1>1. DOMAIN Owned = Threads
  BY Zenon DEF Owned
<1>2. Owned'[t] = Contents[1] /\ \A u \in Threads \ {t} : Owned'[u] = Owned[u]
  BY <1>1, Zenon
<1>3. t \notin Owners /\ Owners' = Owners \cup {t} /\ \A u \in Owners : Owned'[u] = Owned[u]
  BY <1>2, Zenon DEF Owners
<1>4. \A i \in 1 .. Count : Contents[i] \in InRing
  BY Zenon DEF InRing
<1>5. InRing = InRing' \cup {Contents[1]} /\ Contents[1] \notin InRing'
  <2>1. \A x : x \in InRing' <=> \E i \in 1 .. Count - 1 : x = Contents[i + 1]
    BY Zenon DEF InRing
  <2>2. \A x : x \in InRing <=> \E i \in 1 .. Count : x = Contents[i]
    BY Zenon DEF InRing
  <2>3. \A i \in 1 .. Count - 1 : i + 1 \in 1 .. Count /\ Contents[i + 1] # Contents[1]
    BY DEF Trays, Distinct
  <2>4. \A i \in 1 .. Count : i = 1 \/ (i - 1 \in 1 .. Count - 1 /\ (i - 1) + 1 = i)
    OBVIOUS
  <2>5. \A x \in InRing' : x \in InRing /\ x # Contents[1]
    BY <2>1, <2>2, <2>3
  <2>6. ASSUME NEW x \in InRing, x # Contents[1] PROVE x \in InRing'
    <3>1. PICK i \in 1 .. Count : x = Contents[i]
      BY <2>2, Zenon
    <3>2. i - 1 \in 1 .. Count - 1 /\ (i - 1) + 1 = i
      BY <2>4, <2>6, <3>1, Zenon
    <3> QED
      BY <2>1, <3>1, <3>2, Zenon
  <2>7. Contents[1] \in InRing
    BY <1>4
  <2> QED
    BY <2>5, <2>6, <2>7, Zenon
<1>6. Distinct'
  <2>1. \A i, j \in 1 .. Count' : Contents'[i] = Contents'[j] => i = j
    BY DEF Trays, Distinct
  <2>2. Contents[1] \in InRing /\ \A u \in Owners : Owned[u] \notin InRing
    BY <1>4 DEF Trays, Distinct
  <2>3. \A v, u \in Owners' : Owned'[v] = Owned'[u] => v = u
    BY <1>2, <1>3, <2>2 DEF Trays, Distinct
  <2>4. \A v \in Owners' : Owned'[v] \notin InRing'
    BY <1>2, <1>3, <1>5, <2>2, Zenon
  <2> QED
    BY <2>1, <2>3, <2>4, Zenon DEF Trays, Distinct
<1>7. heap' = {Owned'[u] : u \in Owners'} \cup InRing'
  BY <1>2, <1>3, <1>5 DEF Trays, Tallied
<1>8. Cardinality(Owners') = Cardinality(Owners) + 1
  BY <1>3, OwnersFinite, FS_AddElement, Zenon
<1> QED
  BY <1>6, <1>7, <1>8, OwnersFinite DEF Trays, Tallied

\* An attendee frees its tray.
LEMMA TrayEaten ==
  ASSUME Trays, NEW t \in Threads, Owned[t] # NULL, Count \in Nat, Count' = Count,
         Owned' = [Owned EXCEPT ![t] = NULL], Contents' = Contents,
         heap' = heap \ {Owned[t]}, tray_counter' = tray_counter
  PROVE  Trays'
<1>1. DOMAIN Owned = Threads
  BY Zenon DEF Owned
<1>2. Owned'[t] = NULL /\ \A u \in Threads \ {t} : Owned'[u] = Owned[u]
  BY <1>1, Zenon
<1>3. t \in Owners /\ Owners' = Owners \ {t} /\ \A u \in Owners' : Owned'[u] = Owned[u]
  BY <1>2, Zenon DEF Owners
<1>4. InRing' = InRing /\ Owned[t] \notin InRing /\ Owned[t] \in heap
  BY <1>3 DEF InRing, Trays, Distinct, Tallied
<1>5. \A u \in Owners' : Owned[u] # Owned[t]
  BY <1>3, Zenon DEF Trays, Distinct
<1>6. Distinct'
  <2>1. \A i, j \in 1 .. Count' : Contents'[i] = Contents'[j] => i = j
    BY Zenon DEF Trays, Distinct
  <2>2. \A v, u \in Owners' : Owned'[v] = Owned'[u] => v = u
    BY <1>3 DEF Trays, Distinct
  <2>3. \A v \in Owners' : Owned'[v] \notin InRing'
    BY <1>3, <1>4 DEF Trays, Distinct
  <2> QED
    BY <2>1, <2>2, <2>3, Zenon DEF Trays, Distinct
<1>7. heap' = {Owned'[u] : u \in Owners'} \cup InRing'
  BY <1>3, <1>4, <1>5, Zenon DEF Trays, Tallied
<1>8. IsFiniteSet(heap') /\ Cardinality(heap') = Cardinality(heap) - 1
  <2>1. IsFiniteSet(heap)
    BY Zenon DEF Trays, Tallied
  <2> QED
    BY <1>4, <2>1, Shrink, FS_RemoveElement, Zenon
<1>9. Cardinality(Owners') = Cardinality(Owners) - 1
  BY <1>3, OwnersFinite, Shrink, Zenon
<1> QED
  BY <1>6, <1>7, <1>8, <1>9, OwnersFinite DEF Trays, Tallied

\* Every step makes, hands over or frees one tray, or none.
LEMMA TraysStep == IInv /\ Trays /\ [Next]_vars => Trays'
<1> SUFFICES ASSUME IInv, Trays, [Next]_vars PROVE Trays'
  BY Zenon
<1>0. TypeOK /\ SlotAccounting /\ Count \in Nat /\ Cooks \subseteq Threads /\ Attendees \subseteq Threads
  BY CountBound, BBAssumption DEF IInv, Threads
<1>1. ASSUME NEW t \in Cooks, cook(t) PROVE Trays'
  <2>1. Contents' = Contents /\ Count' = Count
    BY <1>0, <1>1, QuietContents, QuietCounts, Zenon DEF Quiet
  <2>2. heap' = heap \cup {tray_counter} /\ tray_counter' = tray_counter + 1
    BY <1>1, Zenon DEF cook
  <2> QED
    BY <1>0, <1>1, <2>1, <2>2, OwnedStep, TrayMade, Zenon
<1>2. ASSUME NEW t \in Cooks, PutTail(t) PROVE Trays'
  <2>1. Len(Contents) = Count /\ Contents = [i \in 1 .. Count |-> Contents[i]]
    BY <1>0 DEF Contents
  <2>2. Contents' = Append(Contents, buf[tail]) /\ Count' = Count + 1
    BY <1>0, <1>2, PutTailContents, PutTailCounts, Zenon
  <2>3. (\A i \in 1 .. Count : Contents'[i] = Contents[i]) /\ Contents'[Count + 1] = buf[tail]
    <3> HIDE DEF Contents
    <3> QED
      BY <1>0, <2>1, <2>2
  <2>4. heap' = heap /\ tray_counter' = tray_counter
    BY <1>2, Zenon DEF PutTail
  <2>5. t \in Threads /\ Owned[t] # NULL /\ Owned[t] = buf[tail] /\ Owned' = [Owned EXCEPT ![t] = NULL]
    BY <1>0, <1>2, OwnedStep, Zenon
  <2>6. Contents'[Count + 1] = Owned[t]
    BY <2>3, <2>5, Zenon
  <2> HIDE DEF Contents
  <2> QED
    BY <1>0, <2>2, <2>3, <2>4, <2>5, <2>6, TrayPut, Zenon
<1>3. ASSUME NEW t \in Attendees, TakeHead(t) PROVE Trays'
  <2>1. Len(Contents) = Count /\ Contents = [i \in 1 .. Count |-> Contents[i]]
    BY <1>0 DEF Contents
  <2>2. /\ Head(Contents) = buf[head] /\ Contents' = Tail(Contents)
        /\ Count \in Nat \ {0} /\ Count' = Count - 1
    BY <1>0, <1>3, TakeHeadContents, TakeHeadCounts
  <2>3. Contents[1] = buf[head] /\ \A i \in 1 .. Count - 1 : Contents'[i] = Contents[i + 1]
    <3> HIDE DEF Contents
    <3> QED
      BY <2>1, <2>2
  <2>4. heap' = heap /\ tray_counter' = tray_counter
    BY <1>3, Zenon DEF TakeHead
  <2>5. Contents[1] # NULL
    BY <2>2 DEF IInv, Handover
  <2>6. t \in Threads /\ Owned[t] = NULL /\ Owned' = [Owned EXCEPT ![t] = buf[head]]
    BY <1>0, <1>3, OwnedStep, Zenon
  <2>7. Owned' = [Owned EXCEPT ![t] = Contents[1]]
    BY <2>3, <2>6, Zenon
  <2> HIDE DEF Contents
  <2> QED
    BY <2>2, <2>3, <2>4, <2>5, <2>6, <2>7, TrayTaken, Zenon
<1>4. ASSUME NEW t \in Attendees, eat(t) PROVE Trays'
  <2>1. Contents' = Contents /\ Count' = Count
    BY <1>0, <1>4, QuietContents, QuietCounts, Zenon DEF Quiet
  <2>2. heap' = heap \ {Owned[t]} /\ tray_counter' = tray_counter
    BY <1>0, <1>4, Zenon DEF eat, Goto, Owned
  <2> QED
    BY <1>0, <1>4, <2>1, <2>2, OwnedStep, TrayEaten, Zenon
<1>5. ASSUME NEW t \in Threads, Quiet(t), ~ (t \in Cooks /\ cook(t)),
             ~ (t \in Attendees /\ eat(t))
      PROVE  Trays'
  <2>1. Contents' = Contents /\ Count' = Count
    BY <1>0, <1>5, QuietContents, QuietCounts, Zenon
  <2>2. heap' = heap
    BY <1>5, Zenon DEF Quiet, PutWait, PutLock, PutStore, PutUnlock, PutPost, TakeWait, TakeLock, TakeRead,
                TakeUnlock, TakePost
  <2> QED
    BY <1>0, <1>5, <2>1, <2>2, OwnedQuiet, TraysKept, Zenon
<1>6. CASE UNCHANGED vars
  <2>1. Owned' = Owned /\ Contents' = Contents /\ Count' = Count
    BY <1>6, Zenon DEF vars, Owned, Contents, Count, Filled, Emptying
  <2> QED
    BY <1>6, <2>1, TraysKept, Zenon DEF vars
<1> QED
  BY <1>1, <1>2, <1>3, <1>4, <1>5, <1>6, Steps, Zenon

\* At every moment each tray that was made and not freed is with one cook, in one
\* slot of the ring or with one attendee: free_food_tray() is called once for it.
THEOREM OwnedOnce == Spec => []OneOwner
<1>1. Init => Trays
  <2> SUFFICES ASSUME Init PROVE Trays
    BY Zenon
  <2>1. Filled = {} /\ Emptying = {}
    BY BBAssumption, Zenon DEF Init, Filled, Emptying, Threads, LoopTest
  <2>2. Count = 0 /\ heap = {} /\ tray_counter = 0
    BY <2>1, FS_EmptySet DEF Count, Init, bb_init
  <2>3. Owners = {}
    BY Zenon DEF Init, Owners, Owned
  <2>4. InRing = {}
    BY <2>2 DEF InRing
  <2> QED
    BY <2>2, <2>3, <2>4, FS_EmptySet DEF Trays, Distinct, Tallied
<1>2. Trays => OneOwner
  BY Zenon DEF Trays, Tallied, OneOwner, Owners, InRing
<1> QED
  BY <1>1, <1>2, TraysStep, Inductive, PTL DEF Spec

------------------------------------------------------------------------------
(* snacks_run()                                                             *)

\* To the buffer, snacks_run() is its cooks and attendees, also after bb_destroy:
\* what is proved of them holds of the program as long as it lives.
THEOREM RunsThreads == SnacksSpec => Spec
<1>1. SnacksInit => Init
  BY Zenon DEF SnacksInit
<1>2. [SnacksNext]_allvars => [Next]_vars
  <2> SUFFICES ASSUME [SnacksNext]_allvars PROVE [Next]_vars
    BY Zenon
  <2>1. ASSUME NEW t \in Threads, Spawn(t) \/ Fault(t) \/ Join(t) PROVE UNCHANGED vars
    BY <2>1, Zenon DEF Spawn, Fault, Join
  <2>2. ASSUME NEW t \in Threads, ThreadStep(t) PROVE Next
    BY <2>2, Zenon DEF ThreadStep, Next
  <2>3. CASE CallInit \/ bb_destroy \/ Return \/ Over \/ UNCHANGED allvars
    BY <2>3, Zenon DEF CallInit, bb_destroy, Return, Over, allvars
  <2> QED
    BY <2>1, <2>2, <2>3, Zenon DEF SnacksNext, Threads
<1> QED
  BY <1>1, <1>2, PTL DEF SnacksSpec, Spec

\* A joined attendee has returned, and the queue is destroyed when all are joined.
Joins ==
  /\ joined \subseteq Attendees
  /\ \A t \in joined : pc[t] = "done"
  /\ main \in {"destroy", "freed", "return"} => joined = Attendees

\* An attendee that has returned stays so.
LEMMA JoinsStep == TypeOK /\ Joins /\ [SnacksNext]_allvars => Joins'
<1> SUFFICES ASSUME TypeOK, Joins, [SnacksNext]_allvars PROVE Joins'
  BY Zenon
<1>1. ASSUME NEW t \in Threads, Spawn(t) \/ Fault(t) PROVE Joins'
  BY <1>1, Zenon DEF Spawn, Fault, MainGoto, Joins, vars
<1>2. ASSUME NEW t \in Attendees, Join(t) PROVE Joins'
  BY <1>2, Zenon DEF Join, MainGoto, Joins, vars
<1>3. ASSUME NEW t \in Threads, ThreadStep(t) PROVE Joins'
  <2>1. pc[t] # "done" /\ \E l : pc' = [pc EXCEPT ![t] = l]
    BY <1>3, Zenon DEF ThreadStep, bb_put, bb_take, cook, PutWait, PutLock, PutStore, PutTail, PutUnlock,
                PutPost, TakeWait, TakeLock, TakeRead, TakeHead, TakeUnlock, TakePost, eat, Goto
  <2>2. UNCHANGED svars
    BY <1>3, Zenon DEF ThreadStep
  <2> QED
    BY <2>1, <2>2 DEF Joins, svars, TypeOK
<1>4. CASE CallInit \/ bb_destroy
  BY <1>4, Zenon DEF CallInit, bb_destroy, MainGoto, Joins, vars
<1>5. CASE Return \/ Over \/ UNCHANGED allvars
  BY <1>5, Zenon DEF Return, MainGoto, Over, allvars, svars, vars, Joins
<1> QED
  BY <1>1, <1>2, <1>3, <1>4, <1>5, Zenon DEF SnacksNext

\* bb_destroy finds no attendee inside bb_take or with a tray in its hands.
THEOREM AttendeesGone == SnacksSpec => []ConsumersGone
<1>1. SnacksInit => Joins
  BY Zenon DEF SnacksInit, Joins
<1>2. Joins => ConsumersGone
  BY Zenon DEF Joins, ConsumersGone, Destroyed, Owned, Threads
<1>3. IInv => TypeOK
  BY Zenon DEF IInv
<1> QED
  BY <1>1, <1>2, <1>3, JoinsStep, RunsThreads, Inductive, PTL DEF SnacksSpec

==============================================================================
