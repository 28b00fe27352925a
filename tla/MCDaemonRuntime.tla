--------------------------- MODULE MCDaemonRuntime ---------------------------
(***************************************************************************)
(* Small instances of DaemonRuntime for TLC.                               *)
(***************************************************************************)
EXTENDS DaemonRuntime, TLC

AttemptSymmetry == Permutations(Attempt)
Symmetry == Permutations(Run) \cup AttemptSymmetry

==============================================================================
