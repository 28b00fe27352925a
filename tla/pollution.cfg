\* A reclaimed run's late report against a retarget.
CONSTANTS
  r1 = r1  r2 = r2  r3 = r3  g1 = g1  g2 = g2  c1 = c1  c2 = c2  p1 = p1  p2 = p2
  None = None  Keep = Keep
  Goal = {}  Cron = {}  Path = {p1, p2}  Run = {r1, r2}
  Occurs <- MCOccurs
  RevisionMax = 0
  Loop = {l1}  Handler = {h1, h2}
  Request <- RetargetRequest
  Body <- Successes
  Eligible = {l1}  ArtifactGated = {}  LegacyRun = {}
  Inactivity = 1  Grace = 1  MaxTime = 0  MaxRevision = 4
SPECIFICATION Spec
INVARIANT TaskFileContentMatchesTarget
