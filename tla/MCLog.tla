-------------------------------- MODULE MCLog ---------------------------------
(***************************************************************************)
(* An instance of Log for TLC: three processes on two blocks that hold one *)
(* of two values.  As in param.h and mkfs.c the log is three reservations  *)
(* long and its header takes one of its blocks; an operation may use its   *)
(* whole reservation, so the log fills.                                    *)
(***************************************************************************)
EXTENDS Log

CONSTANTS p1, p2, p3, b1, b2, boot, old, new, none

MCProcs == {p1, p2, p3}
MCBlocks == {b1, b2}
MCVals == {old, new}

==============================================================================
