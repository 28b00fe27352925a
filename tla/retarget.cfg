\* Task-file retargets against claims, late reports, the sweep and a protocol 0
\* run, and what the server owes under fairness when daemons and owners owe nothing.
CONSTANTS
  r1 = r1  r2 = r2  r3 = r3  g1 = g1  g2 = g2  c1 = c1  c2 = c2  p1 = p1  p2 = p2
  None = None  Keep = Keep
  Goal = {}  Cron = {}  Path = {p1, p2}  Run = {r1, r2, r3}
  Occurs <- MCOccurs
  RevisionMax = 0
  Loop = {l1}  Handler = {h1, h2}
  Request <- RetargetRequest
  Body <- Reports
  Eligible = {l1}  ArtifactGated = {}  LegacyRun = {r1}
  Inactivity = 1  Grace = 1  MaxTime = 0  MaxRevision = 3
SPECIFICATION FairSpec
INVARIANTS RunningSeesItsTaskFile
PROPERTIES VanishedRunsAreReclaimed CallsAreAnswered
