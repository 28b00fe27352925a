\* Two sessions of one loop, two calls in flight, one blob declared with its size
\* and with a wrong one, two configuration changes, expiry and renewal.
CONSTANTS
  h1 = h1
  Loop = {l1}  Dir = {d1}  Key = {k1, k2}  Hash = {h1}
  Content <- MCContent
  Call = {a1, a2}
  None = None
  RevisionMax = 2  TTL = 1  MaxTime = 1  MaxRevision = 2
SPECIFICATION Spec
SYMMETRY Symmetry
INVARIANTS PublishedIsSound ShownStateIsCurrent
PROPERTIES ImplementsLog
