---------------------------- MODULE BoundedBuffer ----------------------------
(***************************************************************************)
(* The bounded buffer bb_t of src/sync_utils.c and the threads that use    *)
(* it, cook() and attendee() of src/bounded_buffer.c.  bb_put and bb_take  *)
(* run one statement per action: the semaphores empty and full, the mutex  *)
(* m and the ring buf[head .. tail) are what the threads interleave on.    *)
(*                                                                         *)
(* A food tray is its number; its strings are left out.  heap is the set   *)
(* of trays malloc'ed and not yet freed.                                   *)
(***************************************************************************)
EXTENDS Integers, Sequences, FiniteSets

CONSTANTS Cooks,                \* NUM_COOKS threads running cook()
          Attendees,            \* NUM_ATTENDEES threads running attendee()
          BUF_C,                \* capacity given to bb_init
          SNACKS_PER_ATTENDEE,  \* bb_take calls of each attendee
          MaxTrays              \* bound: trays made before the cooks rest

NULL == -1
Free == "free"

ASSUME BBAssumption ==
  /\ IsFiniteSet(Cooks) /\ IsFiniteSet(Attendees)
  /\ Cooks \cap Attendees = {}
  /\ Free \notin Cooks \cup Attendees
  /\ BUF_C \in Nat \ {0}
  /\ SNACKS_PER_ATTENDEE \in Nat
  /\ MaxTrays \in Nat

VARIABLES buf, head, tail,      \* the ring of tray pointers
          empty, full,          \* the two semaphores
          m,                    \* holder of the mutex, or Free
          pc,                   \* next statement of each thread
          tray,                 \* local variable tray of each thread
          k,                    \* loop counter of attendee()
          tray_counter,         \* next tray id
          heap                  \* allocated trays

ring == <<buf, head, tail>>
sems == <<empty, full>>
vars == <<buf, head, tail, empty, full, m, pc, tray, k, tray_counter, heap>>

Threads == Cooks \cup Attendees
Slots == 0 .. BUF_C - 1
CookPC == {"cook", "put_wait", "put_lock", "put_store", "put_tail",
           "put_unlock", "put_post"}
AttendeePC == {"take_wait", "take_lock", "take_read", "take_head",
               "take_unlock", "take_post", "eat", "done"}

Goto(t, from, to) ==
  /\ pc[t] = from
  /\ pc' = [pc EXCEPT ![t] = to]

\* Where an attendee goes at the test of its for loop.
LoopTest(n) == IF n < SNACKS_PER_ATTENDEE THEN "take_wait" ELSE "done"

\* bb_init: a zeroed ring, every slot counted as empty.
bb_init ==
  /\ buf = [i \in Slots |-> NULL]
  /\ head = 0 /\ tail = 0
  /\ empty = BUF_C /\ full = 0
  /\ m = Free

Init ==
  /\ bb_init
  /\ pc = [t \in Threads |-> IF t \in Cooks THEN "cook" ELSE LoopTest(0)]
  /\ tray = [t \in Threads |-> NULL]
  /\ k = [t \in Attendees |-> 0]
  /\ tray_counter = 0
  /\ heap = {}

------------------------------------------------------------------------------
(* cook(): make a tray, then bb_put it                                      *)

\* tray_id = tray_counter++ under tray_counter_mutex, then create_food_tray.
cook(t) ==
  /\ tray_counter < MaxTrays
  /\ Goto(t, "cook", "put_wait")
  /\ tray' = [tray EXCEPT ![t] = tray_counter]
  /\ tray_counter' = tray_counter + 1
  /\ heap' = heap \cup {tray_counter}
  /\ UNCHANGED <<ring, sems, m, k>>

\* Mutant: sem_wait returns although no slot is empty (EINTR ignored).
PutWaitSpurious(t) ==
  /\ Goto(t, "put_wait", "put_lock")
  /\ empty' = IF empty > 0 THEN empty - 1 ELSE empty
  /\ UNCHANGED <<ring, full, m, tray, k, tray_counter, heap>>

\* sem_wait(&q->empty)
PutWait(t) ==
  /\ Goto(t, "put_wait", "put_lock")
  /\ empty > 0
  /\ empty' = empty - 1
  /\ UNCHANGED <<ring, full, m, tray, k, tray_counter, heap>>

\* pthread_mutex_lock(&q->m)
PutLock(t) ==
  /\ Goto(t, "put_lock", "put_store")
  /\ m = Free
  /\ m' = t
  /\ UNCHANGED <<ring, sems, tray, k, tray_counter, heap>>

\* q->buf[q->tail] = tray
PutStore(t) ==
  /\ Goto(t, "put_store", "put_tail")
  /\ buf' = [buf EXCEPT ![tail] = tray[t]]
  /\ UNCHANGED <<head, tail, sems, m, tray, k, tray_counter, heap>>

\* q->tail = (q->tail + 1) % q->cap
PutTail(t) ==
  /\ Goto(t, "put_tail", "put_unlock")
  /\ tail' = (tail + 1) % BUF_C
  /\ UNCHANGED <<buf, head, sems, m, tray, k, tray_counter, heap>>

\* pthread_mutex_unlock(&q->m)
PutUnlock(t) ==
  /\ Goto(t, "put_unlock", "put_post")
  /\ m' = Free
  /\ UNCHANGED <<ring, sems, tray, k, tray_counter, heap>>

\* sem_post(&q->full), and back to the top of cook()
PutPost(t) ==
  /\ Goto(t, "put_post", "cook")
  /\ full' = full + 1
  /\ UNCHANGED <<ring, empty, m, tray, k, tray_counter, heap>>

------------------------------------------------------------------------------
(* attendee(): bb_take a tray, eat, free it                                 *)

\* sem_wait(&q->full)
TakeWait(t) ==
  /\ Goto(t, "take_wait", "take_lock")
  /\ full > 0
  /\ full' = full - 1
  /\ UNCHANGED <<ring, empty, m, tray, k, tray_counter, heap>>

\* pthread_mutex_lock(&q->m)
TakeLock(t) ==
  /\ Goto(t, "take_lock", "take_read")
  /\ m = Free
  /\ m' = t
  /\ UNCHANGED <<ring, sems, tray, k, tray_counter, heap>>

\* tray = q->buf[q->head]
TakeRead(t) ==
  /\ Goto(t, "take_read", "take_head")
  /\ tray' = [tray EXCEPT ![t] = buf[head]]
  /\ UNCHANGED <<ring, sems, m, k, tray_counter, heap>>

\* Mutant: the consumer index is not advanced.
TakeHeadStuck(t) ==
  /\ Goto(t, "take_head", "take_unlock")
  /\ UNCHANGED <<ring, sems, m, tray, k, tray_counter, heap>>

\* q->head = (q->head + 1) % q->cap
TakeHead(t) ==
  /\ Goto(t, "take_head", "take_unlock")
  /\ head' = (head + 1) % BUF_C
  /\ UNCHANGED <<buf, tail, sems, m, tray, k, tray_counter, heap>>

\* Mutant: bb_take returns without unlocking.
TakeUnlockForgotten(t) ==
  /\ Goto(t, "take_unlock", "take_post")
  /\ UNCHANGED <<ring, sems, m, tray, k, tray_counter, heap>>

\* pthread_mutex_unlock(&q->m)
TakeUnlock(t) ==
  /\ Goto(t, "take_unlock", "take_post")
  /\ m' = Free
  /\ UNCHANGED <<ring, sems, tray, k, tray_counter, heap>>

\* sem_post(&q->empty), and bb_take returns the tray
TakePost(t) ==
  /\ Goto(t, "take_post", "eat")
  /\ empty' = empty + 1
  /\ UNCHANGED <<ring, full, m, tray, k, tray_counter, heap>>

\* Mutant: the attendee forgets free_food_tray.
eatLeak(t) ==
  /\ Goto(t, "eat", LoopTest(k[t] + 1))
  /\ k' = [k EXCEPT ![t] = @ + 1]
  /\ UNCHANGED <<ring, sems, m, tray, tray_counter, heap>>

\* free_food_tray(tray), then ++k and the loop test
eat(t) ==
  /\ Goto(t, "eat", LoopTest(k[t] + 1))
  /\ heap' = heap \ {tray[t]}
  /\ k' = [k EXCEPT ![t] = @ + 1]
  /\ UNCHANGED <<ring, sems, m, tray, tray_counter>>

------------------------------------------------------------------------------
bb_put(t) ==
  \/ PutWait(t) \/ PutLock(t) \/ PutStore(t)
  \/ PutTail(t) \/ PutUnlock(t) \/ PutPost(t)

bb_take(t) ==
  \/ TakeWait(t) \/ TakeLock(t) \/ TakeRead(t)
  \/ TakeHead(t) \/ TakeUnlock(t) \/ TakePost(t)

Next ==
  \/ \E t \in Cooks : cook(t) \/ bb_put(t)
  \/ \E t \in Attendees : bb_take(t) \/ eat(t)

Spec == Init /\ [][Next]_vars

------------------------------------------------------------------------------
(* Where the slots are                                                      *)

\* Producers that own an empty slot and have not filled it yet.
Filling == {t \in Cooks : pc[t] \in {"put_lock", "put_store", "put_tail"}}
\* Producers that have filled a slot and not announced it yet.
Filled == {t \in Cooks : pc[t] \in {"put_unlock", "put_post"}}
\* Consumers that own a full slot and have not emptied it yet.
Emptying == {t \in Attendees : pc[t] \in {"take_lock", "take_read", "take_head"}}
\* Consumers that have emptied a slot and not announced it yet.
Emptied == {t \in Attendees : pc[t] \in {"take_unlock", "take_post"}}

\* The number of trays between head and tail.
Count == full + Cardinality(Filled) + Cardinality(Emptying)

\* The trays between head and tail, oldest first.
Contents == [i \in 1 .. Count |-> buf[(head + i - 1) % BUF_C]]

\* The tray a thread owns: a cook until it has advanced tail, an attendee
\* from the time it has advanced head until it has freed the tray.
Owned == [t \in Threads |->
            IF pc[t] \in {"put_wait", "put_lock", "put_store", "put_tail",
                          "take_unlock", "take_post", "eat"}
            THEN tray[t] ELSE NULL]

\* Types of bb_t and of the threads: head and tail stay inside the ring, and
\* each thread is at a statement of its own function.
TypeOK ==
  /\ buf \in [Slots -> Nat \cup {NULL}]
  /\ head \in Slots /\ tail \in Slots
  /\ empty \in Nat /\ full \in Nat
  /\ m \in Threads \cup {Free}
  /\ pc \in [Threads -> CookPC \cup AttendeePC]
  /\ \A t \in Cooks : pc[t] \in CookPC
  /\ \A t \in Attendees : pc[t] \in AttendeePC
  /\ tray \in [Threads -> Nat \cup {NULL}]
  /\ k \in [Attendees -> Nat]
  /\ tray_counter \in Nat
  /\ heap \subseteq Nat

\* Every slot is always accounted for once: in a semaphore, or in the hands of
\* a thread between its sem_wait and its sem_post.  bb_put never finds the ring
\* full and bb_take never finds it empty, whatever the interleaving, and tail
\* is always Count slots after head although the two are advanced separately.
SlotAccounting ==
  /\ empty + Cardinality(Filling) + Cardinality(Emptied) + Count = BUF_C
  /\ tail = (head + Count) % BUF_C

\* Between the lock and the unlock of bb_put or bb_take
InCS(t) == pc[t] \in {"put_store", "put_tail", "put_unlock",
                      "take_read", "take_head", "take_unlock"}

\* The ring, head and tail are touched by one thread at a time: between lock
\* and unlock a thread is alone, and it is the mutex's holder.
MutualExclusion == \A t \in Threads : InCS(t) <=> m = t

\* The pointers the threads carry are good: what a cook is about to publish by
\* advancing tail is its own tray, what an attendee is about to own by advancing
\* head is still the oldest tray, and every slot between head and tail holds a
\* tray although bb_take never clears the slots it empties.
Handover ==
  /\ \A t \in Cooks :
       /\ Owned[t] # NULL <=> pc[t] \notin {"cook", "put_unlock", "put_post"}
       /\ pc[t] = "put_tail" => buf[tail] = tray[t]
  /\ \A t \in Attendees :
       /\ Owned[t] # NULL <=> pc[t] \in {"take_unlock", "take_post", "eat"}
       /\ pc[t] = "take_head" => tray[t] = buf[head]
  /\ \A i \in 1 .. Count : Contents[i] # NULL

\* Every allocated tray has exactly one owner: a cook that has not handed it
\* over, the ring between head and tail, or the attendee that took it.  So
\* bb_put overwrites no tray that nobody has taken, no tray is handed out
\* twice, and free_food_tray is never called on a freed tray.
OneOwner ==
  LET owners == {t \in Threads : Owned[t] # NULL}
  IN  /\ heap = {Owned[t] : t \in owners} \cup {Contents[i] : i \in 1 .. Count}
      /\ Cardinality(heap) = Cardinality(owners) + Count

\* The inductive invariant behind the proofs in BoundedBufferProofs.
IInv == TypeOK /\ SlotAccounting /\ MutualExclusion /\ Handover

\* bb_put and bb_take implement a FIFO queue of capacity BUF_C: a put takes
\* effect when tail is advanced and a take when head is.
FIFO == INSTANCE BoundedFIFO
          WITH Makers <- Cooks, Eaters <- Attendees, Capacity <- BUF_C,
               queue <- Contents, hand <- Owned, made <- tray_counter
ImplementsFIFO == FIFO!Spec

==============================================================================
