---------------------------- MODULE RWLockProofs -----------------------------
(***************************************************************************)
(* Proofs about RWLock, and about schedule_run() around it, for any number *)
(* of readers, writers and iterations.                                     *)
(***************************************************************************)
EXTENDS Schedule, CountingLemmas

\* The sets of threads the lock counts are finite.
LEMMA Finite ==
  /\ IsFiniteSet(Reading) /\ IsFiniteSet(Waiting)
  /\ IsFiniteSet(ReadersIn) /\ IsFiniteSet(WritersIn)
<1>1. /\ Reading \in SUBSET Readers /\ Waiting \in SUBSET Writers
      /\ ReadersIn \in SUBSET Readers /\ WritersIn \in SUBSET Writers
  BY Zenon DEF Reading, Waiting, ReadersIn, WritersIn
<1> QED
  BY <1>1, RWAssumption, FS_Subset, Zenon

\* How the sets and their sizes change when a reader moves from one label to
\* another.
LEMMA ReaderMove ==
  ASSUME TypeOK, NEW t \in Readers, NEW from, NEW to, Goto(t, from, to)
  PROVE  /\ Waiting' = Waiting /\ Writing' = Writing /\ WritersIn' = WritersIn
         /\ LET L == {"renter", "read", "rexit", "runlock", "rleave"}
                n == Cardinality(Reading)
            IN /\ Reading' = IF to \in L THEN Reading \cup {t} ELSE Reading \ {t}
               /\ n \in Nat /\ Cardinality(Reading') \in Nat
               /\ t \in Reading <=> from \in L
               /\ (from \in L <=> to \in L) => Cardinality(Reading') = n
               /\ from \notin L /\ to \in L => Cardinality(Reading') = n + 1
               /\ from \in L /\ to \notin L => Cardinality(Reading') = n - 1
         /\ LET L == {"read", "rexit"}
                n == Cardinality(ReadersIn)
            IN /\ n \in Nat /\ Cardinality(ReadersIn') \in Nat
               /\ (from \in L <=> to \in L) => Cardinality(ReadersIn') = n
               /\ from \notin L /\ to \in L => Cardinality(ReadersIn') = n + 1
               /\ from \in L /\ to \notin L => Cardinality(ReadersIn') = n - 1
<1> DEFINE L1 == {"renter", "read", "rexit", "runlock", "rleave"}
           L2 == {"read", "rexit"}
<1>1. /\ pc \in [Threads -> ReaderPC \cup WriterPC]
      /\ pc' = [pc EXCEPT ![t] = to] /\ pc[t] = from
      /\ t \in Threads \ Writers /\ Readers \subseteq Threads /\ Writers \subseteq Threads
  BY RWAssumption, Zenon DEF TypeOK, Goto, Threads
<1>2. Waiting' = Waiting /\ Writing' = Writing /\ WritersIn' = WritersIn
  BY <1>1, Zenon DEF Waiting, Writing, WritersIn
<1>3. /\ \A u : u # t => (u \in Reading <=> u \in Reading')
      /\ t \in Reading <=> from \in L1
      /\ t \in Reading' <=> to \in L1
      /\ Reading' = IF to \in L1 THEN Reading \cup {t} ELSE Reading \ {t}
  BY <1>1, Zenon DEF Reading
<1>4. /\ \A u : u # t => (u \in ReadersIn <=> u \in ReadersIn')
      /\ t \in ReadersIn <=> from \in L2
      /\ t \in ReadersIn' <=> to \in L2
  BY <1>1, Zenon DEF ReadersIn
<1> HIDE DEF L1, L2
<1>5. /\ Cardinality(Reading) \in Nat /\ Cardinality(Reading') \in Nat
      /\ (from \in L1 <=> to \in L1) => Cardinality(Reading') = Cardinality(Reading)
      /\ from \notin L1 /\ to \in L1 => Cardinality(Reading') = Cardinality(Reading) + 1
      /\ from \in L1 /\ to \notin L1 => Cardinality(Reading') = Cardinality(Reading) - 1
  BY <1>3, Finite, Move, Zenon
<1>6. /\ Cardinality(ReadersIn) \in Nat /\ Cardinality(ReadersIn') \in Nat
      /\ (from \in L2 <=> to \in L2) => Cardinality(ReadersIn') = Cardinality(ReadersIn)
      /\ from \notin L2 /\ to \in L2 =>
           Cardinality(ReadersIn') = Cardinality(ReadersIn) + 1
      /\ from \in L2 /\ to \notin L2 =>
           Cardinality(ReadersIn') = Cardinality(ReadersIn) - 1
  BY <1>4, Finite, Move, Zenon
<1> QED
  BY <1>2, <1>3, <1>5, <1>6, Zenon DEF L1, L2

\* How the sets and their sizes change when a writer moves from one label to
\* another.
LEMMA WriterMove ==
  ASSUME TypeOK, NEW t \in Writers, NEW from, NEW to, Goto(t, from, to)
  PROVE  /\ Reading' = Reading /\ ReadersIn' = ReadersIn
         /\ LET L == {"wenter", "load", "store", "wexit", "wunlock", "wleave"}
            IN /\ Writing' = IF to \in L THEN Writing \cup {t} ELSE Writing \ {t}
               /\ t \in Writing <=> from \in L
         /\ LET L == {"wsleep", "wwake", "wtest"}
                n == Cardinality(Waiting)
            IN /\ Waiting' = IF to \in L THEN Waiting \cup {t} ELSE Waiting \ {t}
               /\ n \in Nat /\ Cardinality(Waiting') \in Nat
               /\ t \in Waiting <=> from \in L
               /\ (from \in L <=> to \in L) => Cardinality(Waiting') = n
               /\ from \notin L /\ to \in L => Cardinality(Waiting') = n + 1
               /\ from \in L /\ to \notin L => Cardinality(Waiting') = n - 1
         /\ LET L == {"load", "store", "wexit"}
                n == Cardinality(WritersIn)
            IN /\ n \in Nat /\ Cardinality(WritersIn') \in Nat
               /\ (from \in L <=> to \in L) => Cardinality(WritersIn') = n
               /\ from \notin L /\ to \in L => Cardinality(WritersIn') = n + 1
               /\ from \in L /\ to \notin L => Cardinality(WritersIn') = n - 1
<1> DEFINE L1 == {"wsleep", "wwake", "wtest"}
           L2 == {"load", "store", "wexit"}
           L3 == {"wenter", "load", "store", "wexit", "wunlock", "wleave"}
<1>1. /\ pc \in [Threads -> ReaderPC \cup WriterPC]
      /\ pc' = [pc EXCEPT ![t] = to] /\ pc[t] = from
      /\ t \in Threads \ Readers /\ Readers \subseteq Threads /\ Writers \subseteq Threads
  BY RWAssumption, Zenon DEF TypeOK, Goto, Threads
<1>2. /\ Reading' = Reading /\ ReadersIn' = ReadersIn
      /\ Writing' = IF to \in L3 THEN Writing \cup {t} ELSE Writing \ {t}
      /\ t \in Writing <=> from \in L3
  BY <1>1, Zenon DEF Reading, ReadersIn, Writing
<1>3. /\ \A u : u # t => (u \in Waiting <=> u \in Waiting')
      /\ t \in Waiting <=> from \in L1
      /\ t \in Waiting' <=> to \in L1
      /\ Waiting' = IF to \in L1 THEN Waiting \cup {t} ELSE Waiting \ {t}
  BY <1>1, Zenon DEF Waiting
<1>4. /\ \A u : u # t => (u \in WritersIn <=> u \in WritersIn')
      /\ t \in WritersIn <=> from \in L2
      /\ t \in WritersIn' <=> to \in L2
  BY <1>1, Zenon DEF WritersIn
<1> HIDE DEF L1, L2
<1>5. /\ Cardinality(Waiting) \in Nat /\ Cardinality(Waiting') \in Nat
      /\ (from \in L1 <=> to \in L1) => Cardinality(Waiting') = Cardinality(Waiting)
      /\ from \notin L1 /\ to \in L1 => Cardinality(Waiting') = Cardinality(Waiting) + 1
      /\ from \in L1 /\ to \notin L1 => Cardinality(Waiting') = Cardinality(Waiting) - 1
  BY <1>3, Finite, Move, Zenon
<1>6. /\ Cardinality(WritersIn) \in Nat /\ Cardinality(WritersIn') \in Nat
      /\ (from \in L2 <=> to \in L2) => Cardinality(WritersIn') = Cardinality(WritersIn)
      /\ from \notin L2 /\ to \in L2 =>
           Cardinality(WritersIn') = Cardinality(WritersIn) + 1
      /\ from \in L2 /\ to \notin L2 =>
           Cardinality(WritersIn') = Cardinality(WritersIn) - 1
  BY <1>4, Finite, Move, Zenon
<1> QED
  BY <1>2, <1>3, <1>5, <1>6, Zenon DEF L1, L2

\* The counters that are decremented are positive.
LEMMA Positive ==
  ASSUME TypeOK, Counted
  PROVE  /\ \A t \in Readers : pc[t] = "rleave" => readers > 0
         /\ \A t \in Readers : pc[t] = "rexit" => readers_in_cs > 0
         /\ \A t \in Writers : pc[t] = "wtest" => writers_waiting > 0
         /\ \A t \in Writers : pc[t] = "wexit" => writers_in_cs > 0
<1>1. ASSUME NEW t \in Readers, pc[t] = "rleave" PROVE readers > 0
  <2>1. t \in Reading
    BY <1>1, Zenon DEF Reading
  <2> QED
    BY <2>1, Finite, NonEmpty, Zenon DEF Counted
<1>2. ASSUME NEW t \in Readers, pc[t] = "rexit" PROVE readers_in_cs > 0
  <2>1. t \in ReadersIn
    BY <1>2, Zenon DEF ReadersIn
  <2> QED
    BY <2>1, Finite, NonEmpty, Zenon DEF Counted
<1>3. ASSUME NEW t \in Writers, pc[t] = "wtest" PROVE writers_waiting > 0
  <2>1. t \in Waiting
    BY <1>3, Zenon DEF Waiting
  <2> QED
    BY <2>1, Finite, NonEmpty, Zenon DEF Counted
<1>4. ASSUME NEW t \in Writers, pc[t] = "wexit" PROVE writers_in_cs > 0
  <2>1. t \in WritersIn
    BY <1>4, Zenon DEF WritersIn
  <2> QED
    BY <2>1, Finite, NonEmpty, Zenon DEF Counted
<1> QED
  BY <1>1, <1>2, <1>3, <1>4, Zenon

\* Every step keeps every variable in its type.
LEMMA TypeStep == TypeOK /\ Counted /\ [Next]_vars => TypeOK'
<1> SUFFICES ASSUME TypeOK, Counted, [Next]_vars PROVE TypeOK'
  BY Zenon
<1> USE RWAssumption DEF TypeOK, Threads, ReaderPC, WriterPC, Goto, rw, counts
<1> DEFINE Numbers == wlock \in Nat /\ readers \in Nat /\ writers_waiting \in Nat
           Labels == /\ pc \in [Threads -> ReaderPC \cup WriterPC]
                     /\ \A t \in Readers : pc[t] \in ReaderPC
                     /\ \A t \in Writers : pc[t] \in WriterPC
                     /\ k \in [Threads -> Nat] /\ v \in [Threads -> Nat]
<1>1. ASSUME NEW t \in Readers, Lock(t) PROVE TypeOK'
  BY <1>1 DEF Lock
<1>2. ASSUME NEW t \in Readers, RTest(t) PROVE TypeOK'
  BY <1>2 DEF RTest
<1>3. ASSUME NEW t \in Readers, REnter(t) PROVE TypeOK'
  BY <1>3 DEF REnter
<1>4. ASSUME NEW t \in Readers, Read(t) PROVE TypeOK'
  BY <1>4, Zenon DEF Read
<1>5. ASSUME NEW t \in Readers, RExit(t) PROVE TypeOK'
  BY <1>5, Positive DEF RExit
<1>6. ASSUME NEW t \in Readers, RLeave(t) PROVE TypeOK'
  BY <1>6, Positive DEF RLeave, NextRound
<1>7. ASSUME NEW t \in Writers, Lock(t) PROVE TypeOK'
  BY <1>7 DEF Lock
<1>8. ASSUME NEW t \in Writers, WAsk(t) PROVE TypeOK'
  <2>1. Numbers'
    BY <1>8 DEF WAsk, Test
  <2>2. Labels'
    BY <1>8, Zenon DEF WAsk, Test
  <2>3. writer_active' \in BOOLEAN
    BY <1>8, Zenon DEF WAsk, Test
  <2> QED
    BY <1>8, <2>1, <2>2, <2>3, Zenon DEF WAsk, Test
<1>9. ASSUME NEW t \in Writers, WSleep(t) PROVE TypeOK'
  BY <1>9 DEF WSleep
<1>10. ASSUME NEW t \in Writers, WTest(t) PROVE TypeOK'
  <2>1. Numbers'
    BY <1>10, Positive DEF WTest, Test
  <2>2. Labels'
    BY <1>10, Zenon DEF WTest, Test
  <2>3. writer_active' \in BOOLEAN
    BY <1>10, Zenon DEF WTest, Test
  <2> QED
    BY <1>10, <2>1, <2>2, <2>3, Zenon DEF WTest, Test
<1>11. ASSUME NEW t \in Writers, WEnter(t) PROVE TypeOK'
  BY <1>11 DEF WEnter
<1>12. ASSUME NEW t \in Writers, Load(t) PROVE TypeOK'
  BY <1>12, Zenon DEF Load
<1>13. ASSUME NEW t \in Writers, Store(t) PROVE TypeOK'
  BY <1>13 DEF Store
<1>14. ASSUME NEW t \in Writers, WExit(t) PROVE TypeOK'
  BY <1>14, Positive DEF WExit
<1>15. ASSUME NEW t \in Writers, WLeave(t) PROVE TypeOK'
  <2>1. Numbers'
    BY <1>15 DEF WLeave, NextRound
  <2>2. Labels'
    BY <1>15 DEF WLeave, NextRound
  <2>3. writer_active' \in BOOLEAN
    BY <1>15, Zenon DEF WLeave, NextRound
  <2> QED
    BY <1>15, <2>1, <2>2, <2>3, Zenon DEF WLeave, NextRound
<1>16. CASE UNCHANGED vars
  BY <1>16, Zenon DEF vars
<1> QED
  BY <1>1, <1>2, <1>3, <1>4, <1>5, <1>6, <1>7, <1>8, <1>9, <1>10,
     <1>11, <1>12, <1>13, <1>14, <1>15, <1>16
     DEF Next, reader, writer

\* Every step keeps the mutex with the thread that is in its section.
LEMMA MutexStep == TypeOK /\ MutexHeld /\ [Next]_vars => MutexHeld'
<1> SUFFICES ASSUME TypeOK, MutexHeld, [Next]_vars PROVE MutexHeld'
  BY Zenon
<1> USE RWAssumption DEF TypeOK, Threads, MutexHeld, Locked, Goto
<1>1. ASSUME NEW t \in Readers, Lock(t) PROVE MutexHeld'
  BY <1>1 DEF Lock
<1>2. ASSUME NEW t \in Readers, RTest(t) PROVE MutexHeld'
  BY <1>2, Zenon DEF RTest
<1>3. ASSUME NEW t \in Readers, REnter(t) PROVE MutexHeld'
  BY <1>3, Zenon DEF REnter
<1>4. ASSUME NEW t \in Readers, Read(t) PROVE MutexHeld'
  BY <1>4, Zenon DEF Read
<1>5. ASSUME NEW t \in Readers, RExit(t) PROVE MutexHeld'
  BY <1>5, Zenon DEF RExit
<1>6. ASSUME NEW t \in Readers, RLeave(t) PROVE MutexHeld'
  BY <1>6, Zenon DEF RLeave, NextRound
<1>7. ASSUME NEW t \in Writers, Lock(t) PROVE MutexHeld'
  BY <1>7 DEF Lock
<1>8. ASSUME NEW t \in Writers, WAsk(t) PROVE MutexHeld'
  BY <1>8, Zenon DEF WAsk, Test
<1>9. ASSUME NEW t \in Writers, WSleep(t) PROVE MutexHeld'
  BY <1>9, Zenon DEF WSleep
<1>10. ASSUME NEW t \in Writers, WTest(t) PROVE MutexHeld'
  BY <1>10, Zenon DEF WTest, Test
<1>11. ASSUME NEW t \in Writers, WEnter(t) PROVE MutexHeld'
  BY <1>11, Zenon DEF WEnter
<1>12. ASSUME NEW t \in Writers, Load(t) PROVE MutexHeld'
  BY <1>12, Zenon DEF Load
<1>13. ASSUME NEW t \in Writers, Store(t) PROVE MutexHeld'
  BY <1>13, Zenon DEF Store
<1>14. ASSUME NEW t \in Writers, WExit(t) PROVE MutexHeld'
  BY <1>14, Zenon DEF WExit
<1>15. ASSUME NEW t \in Writers, WLeave(t) PROVE MutexHeld'
  BY <1>15 DEF WLeave, NextRound
<1>16. CASE UNCHANGED vars
  BY <1>16, Zenon DEF vars
<1> QED
  BY <1>1, <1>2, <1>3, <1>4, <1>5, <1>6, <1>7, <1>8, <1>9, <1>10,
     <1>11, <1>12, <1>13, <1>14, <1>15, <1>16
     DEF Next, reader, writer

\* Every step keeps the counters equal to what they count.
LEMMA CountedStep == TypeOK /\ Counted /\ Exclusion /\ [Next]_vars => Counted'
<1> SUFFICES ASSUME TypeOK, Counted, Exclusion, [Next]_vars PROVE Counted'
  BY Zenon
<1> USE DEF Counted, rw, counts
<1>1. ASSUME NEW t \in Readers, Lock(t) PROVE Counted'
  BY <1>1, ReaderMove DEF Lock
<1>2. ASSUME NEW t \in Readers, RTest(t) PROVE Counted'
  BY <1>2, ReaderMove DEF RTest
<1>3. ASSUME NEW t \in Readers, REnter(t) PROVE Counted'
  BY <1>3, ReaderMove, Zenon DEF REnter
<1>4. ASSUME NEW t \in Readers, Read(t) PROVE Counted'
  BY <1>4, ReaderMove, Zenon DEF Read
<1>5. ASSUME NEW t \in Readers, RExit(t) PROVE Counted'
  BY <1>5, ReaderMove DEF RExit
<1>6. ASSUME NEW t \in Readers, RLeave(t) PROVE Counted'
  BY <1>6, ReaderMove DEF RLeave, NextRound
<1>7. ASSUME NEW t \in Writers, Lock(t) PROVE Counted'
  BY <1>7, WriterMove DEF Lock
<1>8. ASSUME NEW t \in Writers, WAsk(t) PROVE Counted'
  BY <1>8, WriterMove DEF WAsk, Test
<1>9. ASSUME NEW t \in Writers, WSleep(t) PROVE Counted'
  BY <1>9, WriterMove DEF WSleep
<1>10. ASSUME NEW t \in Writers, WTest(t) PROVE Counted'
  BY <1>10, WriterMove DEF WTest, Test
<1>11. ASSUME NEW t \in Writers, WEnter(t) PROVE Counted'
  BY <1>11, WriterMove, Zenon DEF WEnter
<1>12. ASSUME NEW t \in Writers, Load(t) PROVE Counted'
  BY <1>12, WriterMove DEF Load
<1>13. ASSUME NEW t \in Writers, Store(t) PROVE Counted'
  BY <1>13, WriterMove DEF Store
<1>14. ASSUME NEW t \in Writers, WExit(t) PROVE Counted'
  BY <1>14, WriterMove DEF WExit
<1>15. ASSUME NEW t \in Writers, WLeave(t) PROVE Counted'
  <2>1. Writing = {t} /\ Writing' = {}
    BY <1>15, WriterMove DEF WLeave, NextRound, Exclusion
  <2>2. writer_active' <=> Writing' # {}
    BY <1>15, <2>1, Zenon DEF WLeave
  <2> QED
    BY <1>15, <2>2, WriterMove DEF WLeave, NextRound
<1>16. CASE UNCHANGED vars
  BY <1>16, Zenon DEF vars, Reading, Waiting, Writing, ReadersIn, WritersIn
<1> QED
  BY <1>1, <1>2, <1>3, <1>4, <1>5, <1>6, <1>7, <1>8, <1>9, <1>10,
     <1>11, <1>12, <1>13, <1>14, <1>15, <1>16, Zenon
     DEF Next, reader, writer

\* Every step keeps a writer alone.
LEMMA ExclusionStep == TypeOK /\ Counted /\ Exclusion /\ [Next]_vars => Exclusion'
<1> SUFFICES ASSUME TypeOK, Counted, Exclusion, [Next]_vars PROVE Exclusion'
  BY Zenon
<1> USE DEF Exclusion, rw, counts
<1>1. ASSUME NEW t \in Readers, Lock(t) PROVE Exclusion'
  BY <1>1, ReaderMove DEF Lock
<1>2. ASSUME NEW t \in Readers, RTest(t) PROVE Exclusion'
  <2>1. writer_active <=> Writing # {}
    BY Zenon DEF Counted
  <2>2. CASE Writing = {}
    BY <1>2, <2>2, ReaderMove, Zenon DEF RTest
  <2>3. CASE Writing # {}
    BY <1>2, <2>1, <2>3, ReaderMove DEF RTest
  <2> QED
    BY <2>2, <2>3, Zenon
<1>3. ASSUME NEW t \in Readers, REnter(t) PROVE Exclusion'
  BY <1>3, ReaderMove, Zenon DEF REnter
<1>4. ASSUME NEW t \in Readers, Read(t) PROVE Exclusion'
  BY <1>4, ReaderMove, Zenon DEF Read
<1>5. ASSUME NEW t \in Readers, RExit(t) PROVE Exclusion'
  BY <1>5, ReaderMove, Zenon DEF RExit
<1>6. ASSUME NEW t \in Readers, RLeave(t) PROVE Exclusion'
  BY <1>6, ReaderMove, Zenon DEF RLeave, NextRound
<1>7. ASSUME NEW t \in Writers, Lock(t) PROVE Exclusion'
  BY <1>7, WriterMove DEF Lock
<1>8. ASSUME NEW t \in Writers, WAsk(t) PROVE Exclusion'
  <2>1. (writer_active <=> Writing # {}) /\ (readers = 0 => Reading = {})
    BY Finite, NonEmpty DEF Counted
  <2>2. CASE writer_active \/ readers > 0
    BY <1>8, <2>2, WriterMove DEF WAsk, Test, TypeOK
  <2>3. CASE ~ writer_active /\ readers = 0
    BY <1>8, <2>1, <2>3, WriterMove DEF WAsk, Test
  <2> QED
    BY <2>2, <2>3 DEF TypeOK
<1>9. ASSUME NEW t \in Writers, WSleep(t) PROVE Exclusion'
  BY <1>9, WriterMove DEF WSleep
<1>10. ASSUME NEW t \in Writers, WTest(t) PROVE Exclusion'
  <2>1. (writer_active <=> Writing # {}) /\ (readers = 0 => Reading = {})
    BY Finite, NonEmpty DEF Counted
  <2>2. CASE writer_active \/ readers > 0
    BY <1>10, <2>2, WriterMove DEF WTest, Test, TypeOK
  <2>3. CASE ~ writer_active /\ readers = 0
    BY <1>10, <2>1, <2>3, WriterMove DEF WTest, Test
  <2> QED
    BY <2>2, <2>3 DEF TypeOK
<1>11. ASSUME NEW t \in Writers, WEnter(t) PROVE Exclusion'
  BY <1>11, WriterMove DEF WEnter
<1>12. ASSUME NEW t \in Writers, Load(t) PROVE Exclusion'
  BY <1>12, WriterMove DEF Load
<1>13. ASSUME NEW t \in Writers, Store(t) PROVE Exclusion'
  BY <1>13, WriterMove DEF Store
<1>14. ASSUME NEW t \in Writers, WExit(t) PROVE Exclusion'
  BY <1>14, WriterMove DEF WExit
<1>15. ASSUME NEW t \in Writers, WLeave(t) PROVE Exclusion'
  BY <1>15, WriterMove DEF WLeave, NextRound
<1>16. CASE UNCHANGED vars
  BY <1>16, Zenon DEF vars, Reading, Writing
<1> QED
  BY <1>1, <1>2, <1>3, <1>4, <1>5, <1>6, <1>7, <1>8, <1>9, <1>10,
     <1>11, <1>12, <1>13, <1>14, <1>15, <1>16, Zenon
     DEF Next, reader, writer

\* Only a writer that is alone stores, so nobody's copy becomes stale.
LEMMA StableStep == TypeOK /\ Exclusion /\ StableBoard /\ [Next]_vars => StableBoard'
<1> SUFFICES ASSUME TypeOK, Exclusion, StableBoard, [Next]_vars PROVE StableBoard'
  BY Zenon
<1> USE RWAssumption DEF StableBoard, Goto, Threads, TypeOK
<1>1. ASSUME NEW t \in Readers, Lock(t) PROVE StableBoard'
  BY <1>1 DEF Lock
<1>2. ASSUME NEW t \in Readers, RTest(t) PROVE StableBoard'
  BY <1>2, Zenon DEF RTest
<1>3. ASSUME NEW t \in Readers, REnter(t) PROVE StableBoard'
  BY <1>3, Zenon DEF REnter
<1>4. ASSUME NEW t \in Readers, Read(t) PROVE StableBoard'
  BY <1>4, Zenon DEF Read
<1>5. ASSUME NEW t \in Readers, RExit(t) PROVE StableBoard'
  BY <1>5, Zenon DEF RExit
<1>6. ASSUME NEW t \in Readers, RLeave(t) PROVE StableBoard'
  BY <1>6, Zenon DEF RLeave, NextRound
<1>7. ASSUME NEW t \in Writers, Lock(t) PROVE StableBoard'
  BY <1>7 DEF Lock
<1>8. ASSUME NEW t \in Writers, WAsk(t) PROVE StableBoard'
  BY <1>8, Zenon DEF WAsk, Test
<1>9. ASSUME NEW t \in Writers, WSleep(t) PROVE StableBoard'
  BY <1>9, Zenon DEF WSleep
<1>10. ASSUME NEW t \in Writers, WTest(t) PROVE StableBoard'
  BY <1>10, Zenon DEF WTest, Test
<1>11. ASSUME NEW t \in Writers, WEnter(t) PROVE StableBoard'
  BY <1>11, Zenon DEF WEnter
<1>12. ASSUME NEW t \in Writers, Load(t) PROVE StableBoard'
  BY <1>12, Zenon DEF Load
<1>13. ASSUME NEW t \in Writers, Store(t) PROVE StableBoard'
  <2>1. t \in Writing /\ Writing = {t} /\ Reading = {}
    BY <1>13, Zenon DEF Store, Exclusion, Writing
  <2>2. \A u \in Threads : u # t => pc[u] \notin {"rexit", "store"}
    BY <2>1, Zenon DEF Reading, Writing, ReaderPC, WriterPC
  <2> QED
    BY <1>13, <2>2, Zenon DEF Store
<1>14. ASSUME NEW t \in Writers, WExit(t) PROVE StableBoard'
  BY <1>14, Zenon DEF WExit
<1>15. ASSUME NEW t \in Writers, WLeave(t) PROVE StableBoard'
  BY <1>15, Zenon DEF WLeave, NextRound
<1>16. CASE UNCHANGED vars
  BY <1>16, Zenon DEF vars
<1> QED
  BY <1>1, <1>2, <1>3, <1>4, <1>5, <1>6, <1>7, <1>8, <1>9, <1>10,
     <1>11, <1>12, <1>13, <1>14, <1>15, <1>16, Zenon
     DEF Next, reader, writer

\* A writer that moves between labels of the same kind changes no set.
LEMMA WriterStays ==
  ASSUME TypeOK, NEW t \in Writers, NEW from, NEW to, Goto(t, from, to)
  PROVE  /\ LET L == {"wsleep", "wwake", "wtest"}
            IN  (from \in L <=> to \in L) => Waiting' = Waiting
         /\ LET L == {"wenter", "load", "store", "wexit", "wunlock", "wleave"}
            IN  (from \in L <=> to \in L) => Writing' = Writing
         /\ Reading' = Reading
<1>1. /\ pc \in [Threads -> ReaderPC \cup WriterPC]
      /\ pc' = [pc EXCEPT ![t] = to] /\ pc[t] = from
      /\ t \in Threads \ Readers /\ Readers \subseteq Threads /\ Writers \subseteq Threads
  BY RWAssumption, Zenon DEF TypeOK, Goto, Threads
<1> QED
  BY <1>1, Zenon DEF Reading, Waiting, Writing

\* How the sleeping and the woken writers change.
LEMMA SleepMove ==
  ASSUME TypeOK, NEW t \in Threads, NEW from, NEW to, Goto(t, from, to)
  PROVE  /\ t \in Readers => Asleep' = Asleep /\ Awake' = Awake
         /\ t \in Writers =>
              /\ t \in Asleep <=> from = "wsleep"
              /\ t \in Awake <=> from \in {"wwake", "wtest"}
              /\ Asleep' = IF to = "wsleep" THEN Asleep \cup {t} ELSE Asleep \ {t}
              /\ Awake' = IF to \in {"wwake", "wtest"} THEN Awake \cup {t} ELSE Awake \ {t}
<1>1. /\ pc \in [Threads -> ReaderPC \cup WriterPC]
      /\ pc' = [pc EXCEPT ![t] = to] /\ pc[t] = from
      /\ Writers \subseteq Threads /\ (t \in Readers => t \notin Writers)
  BY RWAssumption, Zenon DEF TypeOK, Goto, Threads
<1> QED
  BY <1>1, Zenon DEF Asleep, Awake

\* Whoever leaves the board while a writer sleeps has posted the semaphore.
LEMMA WakeupStep == TypeOK /\ Counted /\ NoLostWakeup /\ [Next]_vars => NoLostWakeup'
<1> SUFFICES ASSUME TypeOK, Counted, NoLostWakeup, [Next]_vars PROVE NoLostWakeup'
  BY Zenon
<1>0. /\ Asleep # {} => writers_waiting > 0
      /\ writer_active => Writing # {}
      /\ readers > 0 => Reading # {}
  <2>1. Asleep \subseteq Waiting
    BY Zenon DEF Asleep, Waiting
  <2> QED
    BY <2>1, Finite, NonEmpty, Zenon DEF Counted
<1> USE DEF NoLostWakeup, Threads, rw
<1>1. ASSUME NEW t \in Readers, Lock(t) PROVE NoLostWakeup'
  BY <1>1, ReaderMove, SleepMove DEF Lock
<1>2. ASSUME NEW t \in Readers, RTest(t) PROVE NoLostWakeup'
  BY <1>2, ReaderMove, SleepMove DEF RTest
<1>3. ASSUME NEW t \in Readers, REnter(t) PROVE NoLostWakeup'
  BY <1>3, ReaderMove, SleepMove DEF REnter
<1>4. ASSUME NEW t \in Readers, Read(t) PROVE NoLostWakeup'
  BY <1>4, ReaderMove, SleepMove DEF Read
<1>5. ASSUME NEW t \in Readers, RExit(t) PROVE NoLostWakeup'
  BY <1>5, ReaderMove, SleepMove DEF RExit
<1>6. ASSUME NEW t \in Readers, RLeave(t) PROVE NoLostWakeup'
  <2>1. readers = Cardinality(Reading) /\ wlock \in Nat
    BY Zenon DEF Counted, TypeOK
  <2>2. readers' = Cardinality(Reading')
    BY <1>6, <2>1, ReaderMove DEF RLeave, NextRound
  <2>3. Reading' = {} => readers' = 0
    BY <2>2, FS_EmptySet, Zenon
  <2>4. Asleep' = Asleep
    BY <1>6, SleepMove, Zenon DEF RLeave, NextRound
  <2>5. Asleep # {} /\ Reading' = {} => wlock' > 0
    BY <1>0, <1>6, <2>1, <2>3 DEF RLeave
  <2> QED
    BY <2>4, <2>5, Zenon
<1>7. ASSUME NEW t \in Writers, Lock(t) PROVE NoLostWakeup'
  BY <1>7, WriterMove, SleepMove DEF Lock
<1>8. ASSUME NEW t \in Writers, WAsk(t) PROVE NoLostWakeup'
  <2>1. CASE writer_active \/ readers > 0
    <3>1. Goto(t, "wask", "wsleep")
      BY <1>8, <2>1 DEF WAsk, Test, TypeOK
    <3>2. Reading' = Reading /\ Writing' = Writing
      BY <3>1, WriterStays
    <3> QED
      BY <1>0, <2>1, <3>2, Zenon
  <2>2. CASE ~ writer_active /\ readers = 0
    BY <1>8, <2>2, WriterMove, SleepMove DEF WAsk, Test
  <2> QED
    BY <2>1, <2>2 DEF TypeOK
<1>9. ASSUME NEW t \in Writers, WSleep(t) PROVE NoLostWakeup'
  BY <1>9, WriterMove, SleepMove DEF WSleep
<1>10. ASSUME NEW t \in Writers, WTest(t) PROVE NoLostWakeup'
  <2>1. CASE writer_active \/ readers > 0
    <3>1. Goto(t, "wtest", "wsleep")
      BY <1>10, <2>1 DEF WTest, Test, TypeOK
    <3>2. Reading' = Reading /\ Writing' = Writing
      BY <3>1, WriterStays
    <3> QED
      BY <1>0, <2>1, <3>2, Zenon
  <2>2. CASE ~ writer_active /\ readers = 0
    BY <1>10, <2>2, WriterMove, SleepMove DEF WTest, Test
  <2> QED
    BY <2>1, <2>2 DEF TypeOK
<1>11. ASSUME NEW t \in Writers, WEnter(t) PROVE NoLostWakeup'
  BY <1>11, WriterMove, SleepMove DEF WEnter
<1>12. ASSUME NEW t \in Writers, Load(t) PROVE NoLostWakeup'
  BY <1>12, WriterMove, SleepMove DEF Load
<1>13. ASSUME NEW t \in Writers, Store(t) PROVE NoLostWakeup'
  BY <1>13, WriterMove, SleepMove DEF Store
<1>14. ASSUME NEW t \in Writers, WExit(t) PROVE NoLostWakeup'
  BY <1>14, WriterMove, SleepMove DEF WExit
<1>15. ASSUME NEW t \in Writers, WLeave(t) PROVE NoLostWakeup'
  <2>1. Asleep' = Asleep
    BY <1>15, SleepMove DEF WLeave, NextRound
  <2>2. Asleep # {} => wlock' > 0
    BY <1>0, <1>15 DEF WLeave, TypeOK
  <2> QED
    BY <2>1, <2>2, Zenon
<1>16. CASE UNCHANGED vars
  BY <1>16, Zenon DEF vars, Reading, Writing, Asleep, Awake
<1> QED
  BY <1>1, <1>2, <1>3, <1>4, <1>5, <1>6, <1>7, <1>8, <1>9, <1>10,
     <1>11, <1>12, <1>13, <1>14, <1>15, <1>16
     DEF Next, reader, writer

\* rw_init and the threads' first statements establish the invariant.
LEMMA InitIInv == Init => IInv
<1> SUFFICES ASSUME Init PROVE IInv
  BY Zenon
<1>1. TypeOK
  BY RWAssumption, Zenon DEF Init, rw_init, TypeOK, Threads, ReaderPC, WriterPC
<1>2. /\ Reading = {} /\ Waiting = {} /\ Writing = {} /\ Asleep = {}
      /\ ReadersIn = {} /\ WritersIn = {}
  BY RWAssumption, Zenon DEF Init, Threads, Reading, Waiting, Writing, Asleep, ReadersIn, WritersIn
<1>3. Counted
  BY <1>2, FS_EmptySet, Zenon DEF Counted, Init, rw_init
<1>4. MutexHeld /\ StableBoard
  BY RWAssumption, Zenon DEF Init, rw_init, MutexHeld, Locked, StableBoard, Threads
<1> QED
  BY <1>1, <1>2, <1>3, <1>4, Zenon DEF IInv, Exclusion, NoLostWakeup

\* The invariant is preserved by every statement of reader() and writer().
THEOREM Inductive == Spec => []IInv
<1>1. IInv /\ [Next]_vars => IInv'
  BY TypeStep, MutexStep, CountedStep, ExclusionStep, WakeupStep, StableStep, Zenon DEF IInv
<1> QED
  BY InitIInv, <1>1, PTL DEF Spec

\* rw_wlock lets a writer in alone, for any number of readers and writers.
THEOREM Exclusive == Spec => []Exclusion
<1>1. IInv => Exclusion
  BY Zenon DEF IInv
<1> QED
  BY Inductive, <1>1, PTL

\* No writer is left asleep on wlock with nobody to wake it.
THEOREM WakeupsKept == Spec => []NoLostWakeup
<1>1. IInv => NoLostWakeup
  BY Zenon DEF IInv
<1> QED
  BY Inductive, <1>1, PTL

\* schedule_version never changes under a thread that has read it.
THEOREM Stable == Spec => []StableBoard
<1>1. IInv => StableBoard
  BY Zenon DEF IInv
<1> QED
  BY Inductive, <1>1, PTL

\* The violation check of reader() and writer() never finds a violation.
THEOREM Clean == Spec => []NoViolation
<1>1. Init => NoViolation
  BY Zenon DEF Init, NoViolation
<1>2. IInv /\ NoViolation /\ [Next]_vars => NoViolation'
  <2> SUFFICES ASSUME IInv, NoViolation, [Next]_vars PROVE NoViolation'
    BY Zenon
  <2>1. TypeOK /\ Counted /\ Exclusion
    BY Zenon DEF IInv
  <2>2. ASSUME NEW t \in Readers, REnter(t) PROVE NoViolation'
    <3>1. t \in Reading
      BY <2>2, Zenon DEF REnter, Goto, Reading
    <3>2. Writing = {} /\ WritersIn = {}
      BY <2>1, <3>1, Zenon DEF Exclusion, Writing, WritersIn
    <3>3. writers_in_cs = 0
      BY <2>1, <3>2, FS_EmptySet, Zenon DEF Counted
    <3> QED
      BY <2>2, <3>3 DEF REnter, NoViolation
  <2>3. ASSUME NEW t \in Writers, WEnter(t) PROVE NoViolation'
    <3>1. t \in Writing /\ t \notin WritersIn
      BY <2>3, Zenon DEF WEnter, Goto, Writing, WritersIn
    <3>2. Reading = {} /\ Writing = {t} /\ WritersIn = {} /\ ReadersIn = {}
      BY <2>1, <3>1, Zenon DEF Exclusion, Reading, Writing, WritersIn, ReadersIn
    <3>3. writers_in_cs = 0 /\ readers_in_cs = 0
      BY <2>1, <3>2, FS_EmptySet, Zenon DEF Counted
    <3> QED
      BY <2>3, <3>3 DEF WEnter, NoViolation
  <2>4. ASSUME NEW t \in Readers, reader(t), ~ REnter(t) PROVE violation_count' = violation_count
    BY <2>4, Zenon DEF reader, Lock, RTest, Read, RExit, RLeave, counts
  <2>5. ASSUME NEW t \in Writers, writer(t), ~ WEnter(t) PROVE violation_count' = violation_count
    BY <2>5, Zenon DEF writer, Lock, WAsk, WSleep, WTest, Test, Load, Store, WExit, WLeave, counts
  <2> QED
    BY <2>2, <2>3, <2>4, <2>5, Zenon DEF Next, NoViolation, vars
<1> QED
  BY <1>1, <1>2, Inductive, PTL DEF Spec

\* Every step of the threads is a step of the abstract board, or none of it:
\* RTest starts a read, RLeave ends it, the first test of rw_wlock asks for the
\* board or takes it, a later test takes it, Store updates and WLeave ends.
LEMMA BoardStep == IInv /\ [Next]_vars => [Board!Next]_(Board!vars)
<1> SUFFICES ASSUME IInv, [Next]_vars PROVE Board!Next \/ UNCHANGED Board!vars
  BY Zenon
<1>0. TypeOK /\ Counted /\ Exclusion /\ StableBoard
  BY Zenon DEF IInv
<1>a. /\ writer_active <=> Writing # {}
      /\ readers = 0 <=> Reading = {}
      /\ writers_waiting = 0 <=> Waiting = {}
  BY <1>0, Finite, NonEmpty, FS_EmptySet, Zenon DEF Counted, TypeOK
<1> DEFINE Goal == Board!Next \/ UNCHANGED Board!vars
<1> USE <1>0 DEF rw, counts, Board!vars
<1>1. ASSUME NEW t \in Readers, Lock(t) PROVE Goal
  BY <1>1, ReaderMove DEF Lock
<1>2. ASSUME NEW t \in Readers, RTest(t) PROVE Goal
  <2>1. CASE ~ writer_active /\ writers_waiting = 0
    <3>1. Board!StartRead(t)
      BY <1>a, <1>2, <2>1, ReaderMove, Zenon DEF RTest, Board!StartRead
    <3> QED
      BY <3>1, Zenon DEF Board!Next
  <2>2. CASE writer_active \/ writers_waiting # 0
    BY <1>2, <2>2, ReaderMove DEF RTest
  <2> QED
    BY <2>1, <2>2, Zenon
<1>3. ASSUME NEW t \in Readers, REnter(t) PROVE Goal
  BY <1>3, ReaderMove, Zenon DEF REnter
<1>4. ASSUME NEW t \in Readers, Read(t) PROVE Goal
  BY <1>4, ReaderMove, Zenon DEF Read
<1>5. ASSUME NEW t \in Readers, RExit(t) PROVE Goal
  BY <1>5, ReaderMove, Zenon DEF RExit
<1>6. ASSUME NEW t \in Readers, RLeave(t) PROVE Goal
  <2>1. Board!EndRead(t)
    BY <1>6, ReaderMove DEF RLeave, NextRound, Board!EndRead
  <2> QED
    BY <2>1, Zenon DEF Board!Next
<1>7. ASSUME NEW t \in Writers, Lock(t) PROVE Goal
  BY <1>7, WriterStays DEF Lock
<1>8. ASSUME NEW t \in Writers, WAsk(t) PROVE Goal
  <2>1. CASE writer_active \/ readers > 0
    <3>1. Goto(t, "wask", "wsleep") /\ schedule_version' = schedule_version
      BY <1>8, <2>1 DEF WAsk, Test, TypeOK
    <3>2. t \notin Writing /\ Waiting' = Waiting \cup {t}
      BY <3>1, WriterMove, Zenon
    <3>3. Writing' = Writing /\ Reading' = Reading
      BY <3>1, WriterStays
    <3> QED
      BY <3>1, <3>2, <3>3, Zenon DEF Board!Next, Board!Ask
  <2>2. CASE ~ writer_active /\ readers = 0
    <3>1. Goto(t, "wask", "wenter") /\ schedule_version' = schedule_version
      BY <1>8, <2>2 DEF WAsk, Test, TypeOK
    <3>2. Writing' = Writing \cup {t} /\ Waiting' = Waiting \ {t} /\ Reading' = Reading
      BY <3>1, WriterMove, Zenon
    <3>3. Reading = {} /\ Writing = {}
      BY <1>a, <2>2, Zenon
    <3> QED
      BY <3>1, <3>2, <3>3, Zenon DEF Board!Next, Board!StartWrite
  <2> QED
    BY <2>1, <2>2 DEF TypeOK
<1>9. ASSUME NEW t \in Writers, WSleep(t) PROVE Goal
  BY <1>9, WriterStays DEF WSleep
<1>10. ASSUME NEW t \in Writers, WTest(t) PROVE Goal
  <2>1. CASE writer_active \/ readers > 0
    <3>1. Goto(t, "wtest", "wsleep") /\ schedule_version' = schedule_version
      BY <1>10, <2>1 DEF WTest, Test, TypeOK
    <3> QED
      BY <3>1, WriterStays
  <2>2. CASE ~ writer_active /\ readers = 0
    <3>1. Goto(t, "wtest", "wenter") /\ schedule_version' = schedule_version
      BY <1>10, <2>2 DEF WTest, Test, TypeOK
    <3>2. Writing' = Writing \cup {t} /\ Waiting' = Waiting \ {t} /\ Reading' = Reading
      BY <3>1, WriterMove, Zenon
    <3>3. Reading = {} /\ Writing = {}
      BY <1>a, <2>2, Zenon
    <3> QED
      BY <3>1, <3>2, <3>3, Zenon DEF Board!Next, Board!StartWrite
  <2> QED
    BY <2>1, <2>2 DEF TypeOK
<1>11. ASSUME NEW t \in Writers, WEnter(t) PROVE Goal
  BY <1>11, WriterStays DEF WEnter
<1>12. ASSUME NEW t \in Writers, Load(t) PROVE Goal
  BY <1>12, WriterStays DEF Load
<1>13. ASSUME NEW t \in Writers, Store(t) PROVE Goal
  <2>1. t \in Writing /\ Writing = {t} /\ Reading = {} /\ v[t] = schedule_version
    BY <1>13, Zenon DEF Store, Goto, Exclusion, Writing, StableBoard, Threads
  <2>2. Board!Update(t)
    BY <1>13, <2>1, WriterStays DEF Store, Board!Update
  <2> QED
    BY <2>2, Zenon DEF Board!Next
<1>14. ASSUME NEW t \in Writers, WExit(t) PROVE Goal
  BY <1>14, WriterStays DEF WExit
<1>15. ASSUME NEW t \in Writers, WLeave(t) PROVE Goal
  <2>1. Board!EndWrite(t)
    BY <1>15, WriterMove DEF WLeave, NextRound, Board!EndWrite
  <2> QED
    BY <2>1, Zenon DEF Board!Next
<1>16. CASE UNCHANGED vars
  BY <1>16, Zenon DEF vars, Reading, Waiting, Writing
<1> QED
  BY <1>1, <1>2, <1>3, <1>4, <1>5, <1>6, <1>7, <1>8, <1>9, <1>10,
     <1>11, <1>12, <1>13, <1>14, <1>15, <1>16
     DEF Next, reader, writer

\* The lock and the board implement the writer-priority board: shared reads,
\* exclusive writes, no new reader past a waiting writer, no lost update.
THEOREM Refinement == Spec => ImplementsBoard
<1>1. Init => Board!Init
  BY RWAssumption, Zenon DEF Init, Board!Init, Reading, Waiting, Writing, Threads
<1> QED
  BY <1>1, BoardStep, Inductive, PTL DEF Spec, ImplementsBoard, Board!Spec

\* An update is a pair of a writer and an iteration, so there are finitely many.
LEMMA UpdatesFinite == IsFiniteSet(Updates)
<1>1. IsFiniteSet(0 .. WriteRounds - 1)
  BY RWAssumption, FS_Interval
<1>2. IsFiniteSet(Writers \X (0 .. WriteRounds - 1))
  BY <1>1, RWAssumption, FS_Product, Zenon
<1>3. Updates \in SUBSET (Writers \X (0 .. WriteRounds - 1))
  BY Zenon DEF Updates
<1> QED
  BY <1>2, <1>3, FS_Subset, Zenon

\* Store adds one update, and no other step changes what has been updated.
LEMMA UpdatesStep == IInv /\ UpdatesCounted /\ [Next]_vars => UpdatesCounted'
<1> SUFFICES ASSUME IInv, UpdatesCounted, [Next]_vars PROVE UpdatesCounted'
  BY Zenon
<1>0. TypeOK /\ StableBoard
  BY Zenon DEF IInv
<1>a. WriteRounds \in Nat \ {0} /\ Readers \cap Writers = {}
  BY RWAssumption, Zenon
<1>b. ASSUME NEW t \in Readers, reader(t) PROVE UpdatesCounted'
  <2>1. /\ \A w \in Writers : pc'[w] = pc[w] /\ k'[w] = k[w]
        /\ schedule_version' = schedule_version
    BY <1>0, <1>a, <1>b DEF reader, Lock, RTest, REnter, Read, RExit, RLeave, NextRound, Goto,
                            TypeOK, Threads
  <2>2. Updates' = Updates
    BY <2>1, Zenon DEF Updates
  <2> QED
    BY <2>1, <2>2, Zenon DEF UpdatesCounted
<1>c. ASSUME NEW t \in Writers, Store(t) PROVE UpdatesCounted'
  <2>1. /\ pc[t] = "store" /\ pc' = [pc EXCEPT ![t] = "wexit"] /\ k' = k
        /\ schedule_version' = schedule_version + 1 /\ t \in Threads
    BY <1>0, <1>c, Zenon DEF Store, Goto, StableBoard, Threads
  <2>2. /\ pc \in [Threads -> ReaderPC \cup WriterPC] /\ k \in [Threads -> Nat]
        /\ Writers \subseteq Threads /\ k[t] < WriteRounds
    BY <1>0, <2>1, Zenon DEF TypeOK, Threads, UpdatesCounted
  <2> DEFINE new == <<t, k[t]>>
  <2>3. /\ \A u : u # new => (u \in Updates <=> u \in Updates')
        /\ new \notin Updates /\ new \in Updates'
    <3>1. new \in Writers \X (0 .. WriteRounds - 1)
      BY <1>a, <2>2, <2>1
    <3>2. ASSUME NEW u \in Writers \X (0 .. WriteRounds - 1), u # new
          PROVE  u \in Updates <=> u \in Updates'
      BY <2>1, <2>2, <3>2 DEF Updates
    <3>3. new \notin Updates /\ new \in Updates'
      BY <2>1, <2>2, <3>1 DEF Updates
    <3> QED
      BY <3>2, <3>3, Zenon DEF Updates
  <2> HIDE DEF new
  <2>4. Cardinality(Updates') = Cardinality(Updates) + 1
    BY <2>3, UpdatesFinite, Move, Zenon
  <2> QED
    BY <2>1, <2>2, <2>4, Zenon DEF UpdatesCounted
<1>d. ASSUME NEW t \in Writers, WLeave(t) PROVE UpdatesCounted'
  <2>1. /\ pc[t] = "wleave" /\ k' = [k EXCEPT ![t] = @ + 1]
        /\ pc' = [pc EXCEPT ![t] = IF k[t] + 1 < WriteRounds THEN "wlock" ELSE "done"]
        /\ schedule_version' = schedule_version /\ t \in Threads
    BY <1>d, Zenon DEF WLeave, NextRound, Goto, Threads
  <2>2. /\ pc \in [Threads -> ReaderPC \cup WriterPC] /\ k \in [Threads -> Nat]
        /\ Writers \subseteq Threads /\ k[t] < WriteRounds
    BY <1>0, <2>1, Zenon DEF TypeOK, Threads, UpdatesCounted
  <2>3. ASSUME NEW u \in Writers \X (0 .. WriteRounds - 1)
        PROVE  u \in Updates <=> u \in Updates'
    BY <1>a, <2>1, <2>2 DEF Updates
  <2>4. Updates' = Updates
    BY <2>3, Zenon DEF Updates
  <2> QED
    BY <1>a, <2>1, <2>2, <2>4 DEF UpdatesCounted
<1>e. ASSUME NEW t \in Writers, writer(t), ~ Store(t), ~ WLeave(t) PROVE UpdatesCounted'
  <2>1. PICK from, to :
          /\ Goto(t, from, to) /\ from # "done" /\ to # "done"
          /\ LET L == {"wexit", "wunlock", "wleave"} IN from \in L <=> to \in L
    BY <1>e DEF writer, Lock, WAsk, WSleep, WTest, Test, WEnter, Load, WExit
  <2>2. k' = k /\ schedule_version' = schedule_version
    BY <1>e, Zenon DEF writer, Lock, WAsk, WSleep, WTest, Test, WEnter, Load, WExit
  <2>3. pc \in [Threads -> ReaderPC \cup WriterPC] /\ Writers \subseteq Threads
    BY <1>0, Zenon DEF TypeOK, Threads
  <2>4. Updates' = Updates
    BY <2>1, <2>2, <2>3, Zenon DEF Updates, Goto
  <2> QED
    BY <2>1, <2>2, <2>3, <2>4, Zenon DEF UpdatesCounted, Goto
<1>f. CASE UNCHANGED vars
  BY <1>f, Zenon DEF vars, UpdatesCounted, Updates
<1> QED
  BY <1>b, <1>c, <1>d, <1>e, <1>f, Zenon DEF Next

\* No schedule update is lost: when the writers have returned, schedule_version
\* is the number of iterations they have made together.
THEOREM NoLostUpdate == Spec => []AllUpdates
<1>1. Init => UpdatesCounted
  <2> SUFFICES ASSUME Init PROVE UpdatesCounted
    BY Zenon
  <2>1. Updates = {}
    BY RWAssumption DEF Init, Updates, Threads
  <2> QED
    BY <2>1, FS_EmptySet, RWAssumption DEF Init, UpdatesCounted, Threads
<1>2. UpdatesCounted => AllUpdates
  <2> SUFFICES ASSUME UpdatesCounted, \A w \in Writers : pc[w] = "done"
               PROVE  schedule_version = Cardinality(Writers) * WriteRounds
    BY Zenon DEF AllUpdates
  <2>1. Updates = Writers \X (0 .. WriteRounds - 1)
    BY RWAssumption DEF Updates, UpdatesCounted
  <2>2. /\ IsFiniteSet(0 .. WriteRounds - 1)
        /\ Cardinality(0 .. WriteRounds - 1) = WriteRounds
    BY RWAssumption, FS_Interval
  <2>3. Cardinality(Writers \X (0 .. WriteRounds - 1)) = Cardinality(Writers) * WriteRounds
    BY <2>2, RWAssumption, FS_Product, Zenon
  <2> QED
    BY <2>1, <2>3, Zenon DEF UpdatesCounted
<1> QED
  BY <1>1, <1>2, UpdatesStep, Inductive, PTL DEF Spec

------------------------------------------------------------------------------
(* schedule_run()                                                           *)

\* To the lock and the board, schedule_run() is its readers and writers: what is
\* proved of them holds of the program from the spawns to rw_destroy.
THEOREM RunsThreads == ScheduleSpec => Spec
<1>1. ScheduleInit => Init
  BY Zenon DEF ScheduleInit
<1>2. [ScheduleNext]_allvars => [Next]_vars
  <2> SUFFICES ASSUME [ScheduleNext]_allvars PROVE [Next]_vars
    BY Zenon
  <2>1. ASSUME NEW t \in Threads, Spawn(t) \/ Join(t) PROVE UNCHANGED vars
    BY <2>1, Zenon DEF Spawn, Join
  <2>2. ASSUME NEW t \in Threads, ThreadStep(t) PROVE Next
    BY <2>2, Zenon DEF ThreadStep, Next
  <2>3. CASE rw_destroy \/ Over \/ UNCHANGED allvars
    BY <2>3, Zenon DEF rw_destroy, Over, allvars
  <2> QED
    BY <2>1, <2>2, <2>3, Zenon DEF ScheduleNext
<1> QED
  BY <1>1, <1>2, PTL DEF ScheduleSpec, Spec

\* The joins of schedule_run(): a joined thread has returned, and the lock is
\* destroyed when all are joined.
Joins ==
  /\ joined \subseteq Threads
  /\ \A t \in joined : pc[t] = "done"
  /\ main \in {"destroy", "return"} => joined = Threads

\* A thread that has returned stays so, whatever the others and main do.
LEMMA JoinsStep == TypeOK /\ Joins /\ [ScheduleNext]_allvars => Joins'
<1> SUFFICES ASSUME TypeOK, Joins, [ScheduleNext]_allvars PROVE Joins'
  BY Zenon
<1>1. ASSUME NEW t \in Threads, Spawn(t) PROVE Joins'
  BY <1>1, Zenon DEF Spawn, Joins, vars
<1>2. ASSUME NEW t \in Threads, Join(t) PROVE Joins'
  BY <1>2, Zenon DEF Join, Joins, vars
<1>3. ASSUME NEW t \in Threads, ThreadStep(t) PROVE Joins'
  <2>1. pc[t] # "done" /\ \E l : pc' = [pc EXCEPT ![t] = l]
    BY <1>3, SMTT(30)
       DEF ThreadStep, reader, writer, Lock, RTest, REnter, Read, RExit, RLeave, WAsk, WSleep,
           WTest, Test, WEnter, Load, Store, WExit, WLeave, NextRound, Goto
  <2>2. UNCHANGED mainvars
    BY <1>3, Zenon DEF ThreadStep
  <2> QED
    BY <2>1, <2>2, Zenon DEF Joins, mainvars, TypeOK
<1>4. CASE rw_destroy
  BY <1>4, Zenon DEF rw_destroy, Joins, vars
<1>5. CASE Over \/ UNCHANGED allvars
  BY <1>5, Zenon DEF Over, allvars, mainvars, vars, Joins
<1> QED
  BY <1>1, <1>2, <1>3, <1>4, <1>5, Zenon DEF ScheduleNext

\* When rw_destroy is called the lock is free, nobody is inside or asleep, and the
\* version and violation count that schedule_run() reports are final and right.
THEOREM DestroyedUnused == ScheduleSpec => []UnusedAtDestroy
<1>1. ScheduleInit => Joins
  BY Zenon DEF ScheduleInit, Joins
<1>2. IInv /\ Joins /\ NoViolation /\ AllUpdates => UnusedAtDestroy
  <2> SUFFICES ASSUME IInv, Joins, NoViolation, AllUpdates, main \in {"destroy", "return"}
               PROVE  /\ m = Free /\ readers = 0 /\ writers_waiting = 0 /\ ~ writer_active
                      /\ schedule_version = Cardinality(Writers) * WriteRounds /\ violation_count = 0
    BY Zenon DEF UnusedAtDestroy
  <2>1. \A t \in Threads : pc[t] = "done"
    BY Zenon DEF Joins
  <2>2. Reading = {} /\ Waiting = {} /\ Writing = {}
    BY <2>1, Zenon DEF Reading, Waiting, Writing, Threads
  <2>3. readers = 0 /\ writers_waiting = 0 /\ ~ writer_active
    BY <2>2, FS_EmptySet, Zenon DEF IInv, Counted
  <2>4. m = Free
    BY <2>1, Zenon DEF IInv, TypeOK, MutexHeld, Locked
  <2>5. schedule_version = Cardinality(Writers) * WriteRounds /\ violation_count = 0
    BY <2>1, Zenon DEF AllUpdates, NoViolation, Threads
  <2> QED
    BY <2>3, <2>4, <2>5, Zenon
<1>3. IInv => TypeOK
  BY Zenon DEF IInv
<1> QED
  BY <1>1, <1>2, <1>3, JoinsStep, RunsThreads, Inductive, Clean, NoLostUpdate, PTL DEF ScheduleSpec

==============================================================================
