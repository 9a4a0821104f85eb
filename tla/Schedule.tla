------------------------------ MODULE Schedule -------------------------------
(***************************************************************************)
(* schedule_run() of src/readers_writers.c: the main thread sets up the    *)
(* lock, spawns readers and writers, joins them all and destroys the lock. *)
(***************************************************************************)
EXTENDS RWLock

VARIABLES main,      \* next statement of schedule_run
          spawned,   \* threads created so far
          joined     \* threads joined so far

mainvars == <<main, spawned, joined>>
allvars == <<vars, mainvars>>

ScheduleInit == Init /\ main = "spawn" /\ spawned = {} /\ joined = {}

\* The two spawn loops: all the readers, then all the writers.
Spawn(t) ==
  /\ main = "spawn"
  /\ t \notin spawned /\ (t \in Writers => Readers \subseteq spawned)
  /\ spawned' = spawned \cup {t}
  /\ main' = IF spawned' = Threads THEN "join" ELSE "spawn"
  /\ UNCHANGED <<vars, joined>>

\* Mutant: only the readers are joined.
JoinReadersOnly(t) ==
  /\ main = "join"
  /\ t \in Readers \ joined /\ pc[t] = "done"
  /\ joined' = joined \cup {t}
  /\ main' = IF joined' = Readers THEN "destroy" ELSE "join"
  /\ UNCHANGED <<vars, spawned>>

\* The two join loops, readers first; the order within a loop is immaterial.
Join(t) ==
  /\ main = "join"
  /\ t \notin joined /\ (t \in Writers => Readers \subseteq joined)
  /\ pc[t] = "done"
  /\ joined' = joined \cup {t}
  /\ main' = IF joined' = Threads THEN "destroy" ELSE "join"
  /\ UNCHANGED <<vars, spawned>>

rw_destroy ==
  /\ main = "destroy"
  /\ main' = "return"
  /\ UNCHANGED <<vars, spawned, joined>>

ThreadStep(t) ==
  /\ t \in spawned
  /\ (t \in Readers /\ reader(t)) \/ (t \in Writers /\ writer(t))
  /\ UNCHANGED mainvars

Over == main = "return" /\ UNCHANGED allvars

ScheduleNext ==
  \/ \E t \in Threads : Spawn(t) \/ Join(t) \/ ThreadStep(t)
  \/ rw_destroy \/ Over

\* Every thread that can run does.  A thread that waits for the mutex gets it in
\* the end: its holder always lets go of it, and a thread that finds no room
\* sleeps before it asks again.
ScheduleSpec ==
  /\ ScheduleInit /\ [][ScheduleNext]_allvars
  /\ WF_allvars(\E t \in Threads : Spawn(t) \/ Join(t)) /\ WF_allvars(rw_destroy)
  /\ \A t \in Threads : /\ WF_allvars(ThreadStep(t))
                        /\ SF_allvars(Lock(t) /\ ThreadStep(t))

------------------------------------------------------------------------------
\* rw_destroy: "We assume no one is using it anymore when this is called."  The
\* joins see to it: no thread is in the lock, none is asleep on wlock, and what
\* the run reports (final version, violations) is final.
UnusedAtDestroy ==
  main \in {"destroy", "return"} =>
    /\ m = Free /\ readers = 0 /\ writers_waiting = 0 /\ ~ writer_active
    /\ schedule_version = Cardinality(Writers) * WriteRounds /\ violation_count = 0

\* schedule_run returns: none of its joins waits for ever.
Returns == <>(main = "return")

==============================================================================
