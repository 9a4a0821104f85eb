----------------------------- MODULE BoundedFIFO -----------------------------
(***************************************************************************)
(* What the snack queue of the conference simulation promises: a           *)
(* first-in-first-out queue of at most Capacity trays between the threads  *)
(* that make trays (Makers) and the threads that eat them (Eaters).  Every *)
(* tray is made once, by one maker, is handed over through the queue, and  *)
(* ends in the hand of exactly one eater.                                  *)
(***************************************************************************)
EXTENDS Integers, Sequences

CONSTANTS Makers, Eaters, Capacity

VARIABLES queue,  \* the trays in the queue, oldest first
          hand,   \* hand[t]: the tray thread t owns, or Nothing
          made    \* the number of trays made so far; tray i is the i-th one

Nothing == -1

vars == <<queue, hand, made>>

Init ==
  /\ queue = <<>>
  /\ hand = [t \in Makers \cup Eaters |-> Nothing]
  /\ made = 0

\* A maker with empty hands makes the next tray.
Make(t) ==
  /\ hand[t] = Nothing
  /\ hand' = [hand EXCEPT ![t] = made]
  /\ made' = made + 1
  /\ queue' = queue

\* A maker hands its tray over at the end of the queue, if there is room.
Put(t) ==
  /\ hand[t] # Nothing
  /\ Len(queue) < Capacity
  /\ queue' = Append(queue, hand[t])
  /\ hand' = [hand EXCEPT ![t] = Nothing]
  /\ made' = made

\* An eater with empty hands takes the oldest tray.
Take(t) ==
  /\ hand[t] = Nothing
  /\ queue # <<>>
  /\ hand' = [hand EXCEPT ![t] = Head(queue)]
  /\ queue' = Tail(queue)
  /\ made' = made

\* An eater disposes of its tray.
Eat(t) ==
  /\ hand[t] # Nothing
  /\ hand' = [hand EXCEPT ![t] = Nothing]
  /\ UNCHANGED <<queue, made>>

Next ==
  \/ \E t \in Makers : Make(t) \/ Put(t)
  \/ \E t \in Eaters : Take(t) \/ Eat(t)

Spec == Init /\ [][Next]_vars

==============================================================================
