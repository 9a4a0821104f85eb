------------------------------- MODULE Snacks --------------------------------
(***************************************************************************)
(* snacks_run() of src/bounded_buffer.c: the main thread creates the queue,*)
(* spawns cooks and attendees, joins the attendees only, destroys the      *)
(* queue and lets the process exit while the cooks are still running.      *)
(*                                                                         *)
(* After bb_destroy the ring is a null pointer and q->cap is zero.  The    *)
(* destroyed semaphores and mutex keep answering (sem_destroy leaves the   *)
(* counter alone and bb_put ignores what pthread_mutex_lock returns), so a *)
(* cook proceeds to the store through the null pointer or to the division  *)
(* by zero, and the process is killed.  Before the pointer is cleared      *)
(* it uses the freed ring, which may go unnoticed or kill the process.     *)
(***************************************************************************)
EXTENDS BoundedBuffer

VARIABLES main,      \* next statement of snacks_run
          spawned,   \* threads created so far
          joined,    \* attendees joined so far
          process    \* "running", "exited" or "killed" (by a signal)

svars == <<main, spawned, joined, process>>
allvars == <<vars, svars>>

SnacksInit ==
  /\ Init
  /\ main = "init" /\ spawned = {} /\ joined = {} /\ process = "running"

MainGoto(from, to) ==
  /\ process = "running"
  /\ main = from
  /\ main' = to

\* bb_init succeeds, or it returns -1 (allocation or initialisation failed)
\* and DIE exits.
CallInit ==
  \/ /\ MainGoto("init", "spawn")
     /\ UNCHANGED <<vars, spawned, joined, process>>
  \/ /\ MainGoto("init", "init")
     /\ process' = "exited"
     /\ UNCHANGED <<vars, spawned, joined>>

\* The two spawn loops: all the cooks, then all the attendees.
Spawn(t) ==
  /\ MainGoto("spawn", IF spawned \cup {t} = Threads THEN "join" ELSE "spawn")
  /\ t \notin spawned
  /\ t \in Attendees => Cooks \subseteq spawned
  /\ spawned' = spawned \cup {t}
  /\ UNCHANGED <<vars, joined, process>>

\* The join loop; the order in which the attendees are joined is immaterial.
Join(t) ==
  /\ MainGoto("join", IF joined \cup {t} = Attendees THEN "destroy" ELSE "join")
  /\ t \notin joined /\ pc[t] = "done"
  /\ joined' = joined \cup {t}
  /\ UNCHANGED <<vars, spawned, process>>

\* bb_destroy frees the ring, and then sets buf = NULL, cap = 0, head = 0, tail = 0.
\* Nobody can tell the new values, because whoever uses the ring from then on is
\* in Fault.
bb_destroy ==
  /\ MainGoto("destroy", "freed") \/ MainGoto("freed", "return")
  /\ UNCHANGED <<vars, spawned, joined, process>>

\* snacks_run and main return: the process exits and takes the cooks with it.
Return ==
  /\ MainGoto("return", "return")
  /\ process' = "exited"
  /\ UNCHANGED <<vars, spawned, joined>>

Destroyed == main \in {"freed", "return"}
Touching(t) == pc[t] \in {"put_store", "put_tail", "take_read", "take_head"}

\* A thread's own step while q->buf is set, or away from the ring.
ThreadStep(t) ==
  /\ process = "running" /\ t \in spawned
  /\ main = "return" => ~ Touching(t)
  /\ \/ t \in Cooks /\ (cook(t) \/ bb_put(t))
     \/ t \in Attendees /\ (bb_take(t) \/ eat(t))
  /\ UNCHANGED svars

\* A thread uses the ring after it was freed: SIGSEGV or SIGFPE.
Fault(t) ==
  /\ process = "running" /\ t \in spawned
  /\ Destroyed /\ Touching(t)
  /\ process' = "killed"
  /\ UNCHANGED <<vars, main, spawned, joined>>

Over == process # "running" /\ UNCHANGED allvars

SnacksNext ==
  \/ CallInit \/ bb_destroy \/ Return \/ Over
  \/ \E t \in Threads : Spawn(t) \/ ThreadStep(t) \/ Fault(t)
  \/ \E t \in Attendees : Join(t)

SnacksSpec ==
  /\ SnacksInit /\ [][SnacksNext]_allvars
  /\ WF_allvars(CallInit \/ bb_destroy \/ Return)
  /\ WF_allvars(\E t \in Threads : Spawn(t))
  /\ WF_allvars(\E t \in Attendees : Join(t))
  /\ \A t \in Threads : WF_allvars(ThreadStep(t) \/ Fault(t))

------------------------------------------------------------------------------
\* The joins protect the consumers: when bb_destroy has run, every attendee has
\* returned from its last bb_take and freed its tray, so only cooks can meet
\* the destroyed queue.
ConsumersGone ==
  Destroyed => \A t \in Attendees : pc[t] = "done" /\ Owned[t] = NULL

\* The simulation ends: snacks_run returns and the process exits (or dies), it
\* never hangs in a join or on a semaphore.
Ends == <>(process # "running")

==============================================================================
