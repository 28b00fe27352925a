\* Runs of two loops, one with a final artifact sync; the report of r1 is
\* answered by a protocol error.
CONSTANTS
  None = None
  Loop = {l1, l2}  Run = {r1, r2}
  ArtifactLoop = {l1}  Refused = {r1}  Attempt = {a1, a2}
SPECIFICATION Spec
SYMMETRY AttemptSymmetry
INVARIANTS OneRunAtATime WorkIsTracked NoRunIsForgotten
