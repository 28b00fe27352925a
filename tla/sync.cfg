\* Two trees, calls of the watch manager and a final sync.
CONSTANTS
  h1 = h1  h2 = h2  None = None
  Hash = {h1, h2}  Tree <- Trees
  MaxRescans = 1  MaxRenegotiations = 1  MaxConfig = 2  MaxCalls = 2  MaxChanges = 1
SPECIFICATION Spec
INVARIANTS RecordIsKept FinalAnswerIsHonest
PROPERTIES CallsEnd
CHECK_DEADLOCK FALSE
