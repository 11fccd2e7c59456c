--------------------------- MODULE MCConfigStore ---------------------------
(* The instance of ConfigStore for TLC. *)
EXTENDS ConfigStore, TLC

Sections == {"logging", "serving"}
Keys == {"debug", "ws"}
SectionKeys == [s \in Sections |-> IF s = "logging" THEN {"debug"} ELSE {"ws"}]

\* Nothing saved yet; and three backups minus one, so that rotation fills the last.
Histories == { << >>, << ("debug" :> 0 @@ "ws" :> 1), ("debug" :> 1), ("ws" :> 0) >> }
Symmetry == Permutations(Page)
=============================================================================
