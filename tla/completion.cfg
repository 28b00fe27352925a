\* Manual runs, finishes, goal edits and reopens of one loop.
CONSTANTS
  r1 = r1  r2 = r2  r3 = r3  g1 = g1  g2 = g2  c1 = c1  c2 = c2  p1 = p1  p2 = p2
  None = None  Keep = Keep
  Goal = {g1, g2}  Cron = {}  Path = {p1}  Run = {r1, r2, r3}
  Occurs <- MCOccurs
  RevisionMax = 3
  Loop = {l1}  Handler = {h1, h2}
  Request <- CompletionRequest
  Body <- Outcomes
  Eligible = {l1}  ArtifactGated = {}  LegacyRun = {}
  Inactivity = 1  Grace = 1  MaxTime = 0  MaxRevision = 6
SPECIFICATION Spec
SYMMETRY Symmetry
INVARIANTS RowsAgree
PROPERTIES SettledRunsRest PastIsKept ImplementsContract
