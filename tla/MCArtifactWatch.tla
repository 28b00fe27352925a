-------------------------- MODULE MCArtifactWatch ---------------------------
(***************************************************************************)
(* Instances of ArtifactWatch for TLC.                                     *)
(***************************************************************************)
EXTENDS ArtifactWatch, TLC

CONSTANTS l1, l2, s1, s2, s3, i1, i2

================================================================================
