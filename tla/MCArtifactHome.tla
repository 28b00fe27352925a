--------------------------- MODULE MCArtifactHome ---------------------------
(***************************************************************************)
(* Small instances of ArtifactHome for TLC.                                *)
(***************************************************************************)
EXTENDS ArtifactHome, TLC

CONSTANTS h1

\* The same hash with its size and with a wrong one.
MCContent == {{[hash |-> h1, honest |-> b]} : b \in BOOLEAN}

Symmetry == Permutations(Key) \cup Permutations(Call)

=============================================================================
