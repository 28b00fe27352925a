---------------------------- MODULE MCArtifactSync ----------------------------
(***************************************************************************)
(* Instances of ArtifactSync for TLC.                                      *)
(***************************************************************************)
EXTENDS ArtifactSync

CONSTANTS h1, h2

Trees == {{h1}, {h1, h2}}

================================================================================
