------------------------------ MODULE MCBufCache ------------------------------
(* A small instance of BufCache for TLC                                     *)
EXTENDS BufCache, TLC

\* Processes are alike, and so are blocks.
MCSymmetry == Permutations(Procs) \cup Permutations(Blocks)

==============================================================================
