\* What the code says of the abort after a process-control failure.
CONSTANTS
  None = None
  Loop = {l1}  Run = {r1, r2}
  ArtifactLoop = {}  Refused = {}  Attempt = {a1, a2}
SPECIFICATION FairSpec
PROPERTIES OwedReportBeforeAbort
