-------------------------------- MODULE RWLock --------------------------------
(***************************************************************************)
(* The writer-priority lock rwlock_t of src/readers_writers.c and the      *)
(* threads reader() and writer() that share the schedule board through it. *)
(*                                                                         *)
(* The fields of rwlock_t are touched only between lock and unlock of its  *)
(* mutex m, so a critical section is two steps: getting m, and its body    *)
(* with the unlock.  The sections under instrumentation_mutex are one step *)
(* each.  schedule_version is protected by the lock alone: the update is a *)
(* load and a store.                                                       *)
(***************************************************************************)
EXTENDS Integers, FiniteSets

CONSTANTS Readers,      \* the threads running reader()
          Writers,      \* the threads running writer()
          ReadRounds,   \* iterations of the loop of reader()
          WriteRounds   \* iterations of the loop of writer()

Free == "free"

ASSUME RWAssumption ==
  /\ IsFiniteSet(Readers) /\ IsFiniteSet(Writers)
  /\ Readers \cap Writers = {}
  /\ Free \notin Readers \cup Writers
  /\ ReadRounds \in Nat \ {0} /\ WriteRounds \in Nat \ {0}

VARIABLES m,                \* holder of the mutex, or Free
          wlock,            \* the semaphore the writers sleep on
          readers, writers_waiting, writer_active,
          schedule_version, violation_count,
          readers_in_cs, writers_in_cs,
          pc,               \* next statement of each thread
          v,                \* the version a reader read, or a writer loaded
          k                 \* iterations each thread has finished

rw == <<readers, writers_waiting, writer_active>>
counts == <<violation_count, readers_in_cs, writers_in_cs>>
vars == <<m, wlock, readers, writers_waiting, writer_active, schedule_version,
          violation_count, readers_in_cs, writers_in_cs, pc, v, k>>

Threads == Readers \cup Writers
ReaderPC == {"rlock", "rtest", "renter", "read", "rexit", "runlock", "rleave", "done"}
WriterPC == {"wlock", "wask", "wsleep", "wwake", "wtest", "wenter", "load", "store",
             "wexit", "wunlock", "wleave", "done"}

Goto(t, from, to) ==
  /\ pc[t] = from
  /\ pc' = [pc EXCEPT ![t] = to]

rw_init ==
  /\ m = Free /\ wlock = 0
  /\ readers = 0 /\ writers_waiting = 0 /\ writer_active = FALSE

Init ==
  /\ rw_init
  /\ schedule_version = 0 /\ violation_count = 0
  /\ readers_in_cs = 0 /\ writers_in_cs = 0
  /\ pc = [t \in Threads |-> IF t \in Readers THEN "rlock" ELSE "wlock"]
  /\ v = [t \in Threads |-> 0]
  /\ k = [t \in Threads |-> 0]

\* pthread_mutex_lock(&rw->m)
Lock(t) ==
  /\ \E step \in {<<"rlock", "rtest">>, <<"runlock", "rleave">>, <<"wlock", "wask">>,
                  <<"wwake", "wtest">>, <<"wunlock", "wleave">>} :
       Goto(t, step[1], step[2])
  /\ m = Free
  /\ m' = t
  /\ UNCHANGED <<wlock, rw, schedule_version, counts, v, k>>

\* The end of an iteration: v goes out of scope, ++k and the loop test.
NextRound(t, from, again, rounds) ==
  /\ Goto(t, from, IF k[t] + 1 < rounds THEN again ELSE "done")
  /\ k' = [k EXCEPT ![t] = @ + 1]
  /\ v' = [v EXCEPT ![t] = 0]

------------------------------------------------------------------------------
(* reader()                                                                 *)

\* Mutant: only an active writer keeps new readers out.
RTestNoPriority(t) ==
  /\ m' = Free
  /\ \/ /\ ~ writer_active
        /\ readers' = readers + 1
        /\ Goto(t, "rtest", "renter")
     \/ /\ writer_active
        /\ readers' = readers
        /\ Goto(t, "rtest", "rlock")
  /\ UNCHANGED <<wlock, writers_waiting, writer_active, schedule_version, counts, v, k>>

\* rw_rlock under m: enter, or unlock and (after usleep) start over.
RTest(t) ==
  /\ m' = Free
  /\ \/ /\ ~ writer_active /\ writers_waiting = 0
        /\ readers' = readers + 1
        /\ Goto(t, "rtest", "renter")
     \/ /\ writer_active \/ writers_waiting # 0
        /\ readers' = readers
        /\ Goto(t, "rtest", "rlock")
  /\ UNCHANGED <<wlock, writers_waiting, writer_active, schedule_version, counts, v, k>>

\* readers_in_cs++, and a violation if a writer is in
REnter(t) ==
  /\ Goto(t, "renter", "read")
  /\ readers_in_cs' = readers_in_cs + 1
  /\ violation_count' = violation_count + (IF writers_in_cs > 0 THEN 1 ELSE 0)
  /\ UNCHANGED <<m, wlock, rw, schedule_version, writers_in_cs, v, k>>

\* int v = schedule_version
Read(t) ==
  /\ Goto(t, "read", "rexit")
  /\ v' = [v EXCEPT ![t] = schedule_version]
  /\ UNCHANGED <<m, wlock, rw, schedule_version, counts, k>>

\* readers_in_cs--
RExit(t) ==
  /\ Goto(t, "rexit", "runlock")
  /\ readers_in_cs' = readers_in_cs - 1
  /\ UNCHANGED <<m, wlock, rw, schedule_version, violation_count, writers_in_cs, v, k>>

\* Mutant: the last reader does not wake a writer.
RLeaveSilent(t) ==
  /\ m' = Free
  /\ readers' = readers - 1
  /\ NextRound(t, "rleave", "rlock", ReadRounds)
  /\ UNCHANGED <<wlock, writers_waiting, writer_active, schedule_version, counts>>

\* rw_runlock under m: the last reader wakes a waiting writer.
RLeave(t) ==
  /\ m' = Free
  /\ readers' = readers - 1
  /\ wlock' = IF readers' = 0 /\ writers_waiting > 0 THEN wlock + 1 ELSE wlock
  /\ NextRound(t, "rleave", "rlock", ReadRounds)
  /\ UNCHANGED <<writers_waiting, writer_active, schedule_version, counts>>

------------------------------------------------------------------------------
(* writer()                                                                 *)

\* The test of the while loop of rw_wlock, with waiting writers counted in
\* writers_waiting: take over and unlock, or unlock and go to sleep.
Test(t, from, waiting) ==
  /\ m' = Free
  /\ \/ /\ writer_active \/ readers > 0
        /\ writers_waiting' = waiting
        /\ writer_active' = writer_active
        /\ Goto(t, from, "wsleep")
     \/ /\ ~ writer_active /\ readers = 0
        /\ writers_waiting' = waiting - 1
        /\ writer_active' = TRUE
        /\ Goto(t, from, "wenter")
  /\ UNCHANGED <<wlock, readers, schedule_version, counts, v, k>>

\* rw_wlock under m: writers_waiting++, then the first test.
WAsk(t) == Test(t, "wask", writers_waiting + 1)

\* sem_wait(&rw->wlock)
WSleep(t) ==
  /\ Goto(t, "wsleep", "wwake")
  /\ wlock > 0
  /\ wlock' = wlock - 1
  /\ UNCHANGED <<m, rw, schedule_version, counts, v, k>>

\* Mutant: a woken writer takes over without looking again.
WTestOnce(t) ==
  /\ m' = Free
  /\ writers_waiting' = writers_waiting - 1
  /\ writer_active' = TRUE
  /\ Goto(t, "wtest", "wenter")
  /\ UNCHANGED <<wlock, readers, schedule_version, counts, v, k>>

\* The test again, after waking up.
WTest(t) == Test(t, "wtest", writers_waiting)

\* writers_in_cs++, and a violation if anybody else is in
WEnter(t) ==
  /\ Goto(t, "wenter", "load")
  /\ writers_in_cs' = writers_in_cs + 1
  /\ violation_count' =
       violation_count + (IF writers_in_cs' > 1 \/ readers_in_cs > 0 THEN 1 ELSE 0)
  /\ UNCHANGED <<m, wlock, rw, schedule_version, readers_in_cs, v, k>>

\* schedule_version++: the load
Load(t) ==
  /\ Goto(t, "load", "store")
  /\ v' = [v EXCEPT ![t] = schedule_version]
  /\ UNCHANGED <<m, wlock, rw, schedule_version, counts, k>>

\* schedule_version++: the store
Store(t) ==
  /\ Goto(t, "store", "wexit")
  /\ schedule_version' = v[t] + 1
  /\ UNCHANGED <<m, wlock, rw, counts, v, k>>

\* writers_in_cs--
WExit(t) ==
  /\ Goto(t, "wexit", "wunlock")
  /\ writers_in_cs' = writers_in_cs - 1
  /\ UNCHANGED <<m, wlock, rw, schedule_version, violation_count, readers_in_cs, v, k>>

\* rw_wunlock under m: wake the next writer.
WLeave(t) ==
  /\ m' = Free
  /\ writer_active' = FALSE
  /\ wlock' = IF writers_waiting > 0 THEN wlock + 1 ELSE wlock
  /\ NextRound(t, "wleave", "wlock", WriteRounds)
  /\ UNCHANGED <<readers, writers_waiting, schedule_version, counts>>

------------------------------------------------------------------------------
reader(t) == Lock(t) \/ RTest(t) \/ REnter(t) \/ Read(t) \/ RExit(t) \/ RLeave(t)

writer(t) ==
  \/ Lock(t) \/ WAsk(t) \/ WSleep(t) \/ WTest(t) \/ WEnter(t)
  \/ Load(t) \/ Store(t) \/ WExit(t) \/ WLeave(t)

Next == (\E t \in Readers : reader(t)) \/ (\E t \in Writers : writer(t))

Spec == Init /\ [][Next]_vars

-----------------------------------------------------------------------------
Reading == {t \in Readers : pc[t] \in {"renter", "read", "rexit", "runlock", "rleave"}}
Waiting == {t \in Writers : pc[t] \in {"wsleep", "wwake", "wtest"}}
Asleep == {t \in Writers : pc[t] = "wsleep"}
Awake == {t \in Writers : pc[t] \in {"wwake", "wtest"}}
Writing == {t \in Writers : pc[t] \in {"wenter", "load", "store", "wexit", "wunlock",
                                       "wleave"}}
ReadersIn == {t \in Readers : pc[t] \in {"read", "rexit"}}
WritersIn == {t \in Writers : pc[t] \in {"load", "store", "wexit"}}

\* Types of rwlock_t, the board and the threads: no counter of the code is ever
\* negative, and each thread is at a statement of its own function.
TypeOK ==
  /\ m \in Threads \cup {Free}
  /\ wlock \in Nat /\ readers \in Nat /\ writers_waiting \in Nat
  /\ writer_active \in BOOLEAN
  /\ schedule_version \in Nat /\ violation_count \in Nat
  /\ readers_in_cs \in Nat /\ writers_in_cs \in Nat
  /\ pc \in [Threads -> ReaderPC \cup WriterPC]
  /\ \A t \in Readers : pc[t] \in ReaderPC
  /\ \A t \in Writers : pc[t] \in WriterPC
  /\ v \in [Threads -> Nat] /\ k \in [Threads -> Nat]

\* Between lock and unlock of m in the four functions of the lock
Locked(t) == pc[t] \in {"rtest", "rleave", "wask", "wtest", "wleave"}

\* A thread is in a critical section of m exactly when it holds m.
MutexHeld == \A t \in Threads : Locked(t) <=> m = t

\* The fields of rwlock_t and the instrumentation count the threads they are
\* about, so that the tests of rw_rlock, rw_runlock, rw_wlock, rw_wunlock and
\* of the violation check mean what they say.
Counted ==
  /\ readers = Cardinality(Reading)
  /\ writers_waiting = Cardinality(Waiting)
  /\ writer_active <=> Writing # {}
  /\ readers_in_cs = Cardinality(ReadersIn)
  /\ writers_in_cs = Cardinality(WritersIn)

\* A writer has the board alone: no other writer, and no reader.
Exclusion == \A w \in Writing : Writing = {w} /\ Reading = {}

\* A writer asleep on wlock will be woken: a token is there for some writer, or
\* a writer is about to look again, or somebody who posts on leaving is in.
NoLostWakeup ==
  Asleep # {} => wlock > 0 \/ Awake # {} \/ Reading # {} \/ Writing # {}

\* The board does not change under a thread that has looked at it: neither
\* under a reader, nor between the load and the store of schedule_version++.
StableBoard ==
  \A t \in Threads : pc[t] \in {"rexit", "store"} => v[t] = schedule_version

IInv == TypeOK /\ MutexHeld /\ Counted /\ Exclusion /\ NoLostWakeup /\ StableBoard

\* The program's own check never fires: violation_count stays 0.
NoViolation == violation_count = 0

\* No update is lost: when the writers are done the schedule has gone through
\* one version for each of their iterations (get_final_schedule_version).
AllUpdates ==
  (\A w \in Writers : pc[w] = "done") =>
     schedule_version = Cardinality(Writers) * WriteRounds

\* The iterations of the writers whose store has happened; schedule_version
\* is their number.
Updates == {u \in Writers \X (0 .. WriteRounds - 1) :
              \/ u[2] < k[u[1]]
              \/ u[2] = k[u[1]] /\ pc[u[1]] \in {"wexit", "wunlock", "wleave"}}
UpdatesCounted ==
  /\ schedule_version = Cardinality(Updates)
  /\ \A w \in Writers : IF pc[w] = "done" THEN k[w] = WriteRounds ELSE k[w] < WriteRounds

\* The lock and the board implement WriterPriority.
Board == INSTANCE WriterPriority
           WITH reading <- Reading, waiting <- Waiting, writing <- Writing,
                version <- schedule_version
ImplementsBoard == Board!Spec

==============================================================================
