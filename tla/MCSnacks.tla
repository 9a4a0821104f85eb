------------------------------ MODULE MCSnacks -------------------------------
(***************************************************************************)
(* Instances of Snacks for TLC: two cooks, a ring of two slots that wraps  *)
(* around, more trays than slots.                                          *)
(***************************************************************************)
EXTENDS Snacks, TLC

CONSTANTS c1, c2, a1, a2, a3

MCCooks == {c1, c2}

MCAttendees3 == {a1, a2, a3}

==============================================================================
