--------------------------- MODULE MCDriveManager ---------------------------
(* Instances of DriveManager for TLC: see the cfg files of the same prefix.  *)
EXTENDS DriveManager, TLC

\* Images are interchangeable; so are requests (their identity never matters).
Symmetry == Permutations(Image) \cup Permutations(Req)

\* Every fault the code meets, and the faults of which the code leaves a
\* consistent state.
AllFaults == FaultSites
HandledFaults == {"close", "access", "write", "commit"}
=============================================================================
