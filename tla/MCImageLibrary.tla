--------------------------- MODULE MCImageLibrary ---------------------------
(* The instance of ImageLibrary for TLC. *)
EXTENDS ImageLibrary
=============================================================================
