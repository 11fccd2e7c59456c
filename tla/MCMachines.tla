----------------------------- MODULE MCMachines -----------------------------
(* The instance of Machines for TLC. *)
EXTENDS Machines
=============================================================================
