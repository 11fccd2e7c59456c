----------------------------- MODULE MCFdcLinks -----------------------------
(* Values of the constants of FdcLinks for TLC. *)
EXTENDS FdcLinks, TLC

Symmetry == Permutations(Track)

AllLineFaults == {"garble", "drop", "mute"}
=============================================================================
