\* One loop, whose job the cron factory may refuse, from its creation through edits,
\* finishes, reopens, boots, drains and crashes, under the fairness of timers,
\* returning calls and the boot.
CONSTANTS
  g1 = g1  c1 = c1  c2 = c2  p1 = p1  r1 = r1
  None = None  Keep = Keep
  Goal = {g1}  Cron = {c1}  Path = {p1}  Run = {r1}
  Occurs <- MCOccurs
  RevisionMax = 2
  Loop = {l1}  Eligible = {l1}  Flaky = {l1}  MaxTime = 2
SPECIFICATION FairSpec
INVARIANTS JobsMatchRows NoOccurrenceIsForgotten
PROPERTIES OccurrencesAreHandled
