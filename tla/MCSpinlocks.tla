------------------------------ MODULE MCSpinlocks -----------------------------
(* Instances of Spinlocks: two CPUs, two processes.                           *)
EXTENDS Spinlocks, TLC

\* The processes are alike.
ProcSymmetry == Permutations(Procs)

==============================================================================
