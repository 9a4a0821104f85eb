------------------------------ MODULE AtomicDisk ------------------------------
(***************************************************************************)
(* What begin_op(), log_write() and end_op() of the xv6 kernel promise to  *)
(* the file system: the blocks that survive a crash are those of a moment  *)
(* at which no operation was in progress.                                  *)
(***************************************************************************)
CONSTANTS Procs, Blocks, Vals, Zero

VARIABLES current,  \* what a read of each block returns
          durable,  \* what it returns after a crash
          active    \* the processes in the middle of an operation

vars == <<current, durable, active>>

Init ==
  /\ current = [b \in Blocks |-> Zero]
  /\ durable = [b \in Blocks |-> Zero]
  /\ active = {}

Begin(p) ==
  /\ p \notin active
  /\ active' = active \cup {p}
  /\ UNCHANGED <<current, durable>>

Write(p, b, v) ==
  /\ p \in active
  /\ current' = [current EXCEPT ![b] = v]
  /\ UNCHANGED <<durable, active>>

End(p) ==
  /\ p \in active
  /\ active' = active \ {p}
  /\ UNCHANGED <<current, durable>>

\* All operations so far become durable together.
Commit ==
  /\ active = {}
  /\ durable' = current
  /\ UNCHANGED <<current, active>>

Crash ==
  /\ current' = durable
  /\ active' = {}
  /\ UNCHANGED durable

Next ==
  \/ \E p \in Procs : Begin(p) \/ End(p) \/ \E b \in Blocks, v \in Vals : Write(p, b, v)
  \/ Commit \/ Crash

Spec == Init /\ [][Next]_vars

==============================================================================
