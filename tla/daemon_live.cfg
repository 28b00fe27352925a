\* Runs in batches under the fairness of timers, requests and the runner.
CONSTANTS
  None = None
  Loop = {l1}  Run = {r1, r2}
  ArtifactLoop = {}  Refused = {}  Attempt = {a1}
SPECIFICATION FairSpec
PROPERTIES StopCompletes ReportsGetThrough
