------------------------------ MODULE MCTransfer -----------------------------
(***************************************************************************)
(* The instance of Transfer for TLC.                                       *)
(***************************************************************************)
EXTENDS Transfer
=============================================================================
