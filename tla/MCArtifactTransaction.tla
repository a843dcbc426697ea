------------------------ MODULE MCArtifactTransaction ------------------------
(* Instance of ArtifactTransaction for TLC: budgets a chunk or two wide.   *)
EXTENDS ArtifactTransactionProperties

MCChunkSizes == {1, 2}
=============================================================================
