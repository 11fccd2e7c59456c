--------------------------- MODULE MCCpmFileSystem --------------------------
(***************************************************************************)
(* The instance of CpmFileSystem for TLC.                                  *)
(***************************************************************************)
EXTENDS CpmFileSystem, TLC

\* Files are interchangeable.
Symmetry == Permutations(File)
=============================================================================
