-------------------------- MODULE MCArtifactExecute --------------------------
(* Instance of ArtifactExecute for TLC.                                    *)
EXTENDS ArtifactExecute

MCChunkSizes == {1, 2}
=============================================================================
