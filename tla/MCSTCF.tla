------------------------------- MODULE MCSTCF --------------------------------
(***************************************************************************)
(* An instance of STCF for TLC: two processors, three slots.               *)
(***************************************************************************)
EXTENDS STCF, TLC

CONSTANTS c0, c1

MCCPUs == {c0, c1}
MCTimes == {2}
MCNaps == {1}
MCSymmetry == Permutations(MCCPUs)

\* What the rest of a run and the properties depend on.  Left out is what is
\* overwritten before it is read again: t_last_scheduled off the CPU, chan of
\* those who do not sleep, sleepticks outside sleep(), the time, the skip and the
\* history of a slot without a process, and the count of a late estimate.
Seen(s) ==
  LET p == proc[s]
      there == s \in Live
  IN  [p EXCEPT !.t_last_scheduled = IF p.state = "RUNNING" THEN @ ELSE -1,
                !.chan = IF p.state = "SLEEPING" THEN @ ELSE None,
                !.sleepticks = IF label[s] \in {"nap", "sleep"} THEN @ ELSE -1,
                !.t_remain = IF there THEN @ ELSE 0,
                !.skip_once = there /\ @]

MCView ==
  <<[s \in Slots |-> Seen(s)], cpu, held, skip_target, nextpid, ticks, label, np, nap,
    calls, boot, late \cap Live, [s \in Live \ late |-> due[s]]>>

\* The clock has reached its bound.
Stopped == ticks = MaxTicks /\ UNCHANGED vars
MCSpec == Init /\ [][Next \/ Stopped]_vars

==============================================================================
