--------------------------- MODULE MCDriveSession ---------------------------
(* Instances of DriveSession for TLC: see the cfg files of the same prefix.  *)
EXTENDS DriveSession, TLC

\* Connections are interchangeable, and so are requests.
Symmetry == Permutations(Conn) \cup Permutations(Req)

\* The faults after which the code loses nothing, and the others.
HandledFaults == {"open", "copy"}
OtherFaults == FaultSites \ HandledFaults
=============================================================================
