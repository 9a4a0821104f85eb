-------------------------------- MODULE MCFiles -------------------------------
(* A small instance of Files for TLC                                        *)
EXTENDS Files, TLC

\* Pages are alike, and so are the processes but for the first.
MCSymmetry == Permutations(Procs \ {initproc}) \cup Permutations(Pages)

==============================================================================
