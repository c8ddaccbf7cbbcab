------------------------- MODULE MCArtifactRecovery -------------------------
(* A file, a directory, a plugin and a handoff.                               *)
EXTENDS ArtifactRecovery, TLC

UnitSymmetry == Permutations(Units)
=============================================================================
