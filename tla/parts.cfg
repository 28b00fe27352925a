\* Sixteen parts that stand alone, one of them in each behaviour.
CONSTANTS
  None = None
  \* AgentRun: a child and one helper, two names in the outbox
  Helper = {"h1"}
  OutboxEntry = {"e1", "e2"}
  MaxWrites = 2
  \* ArtifactScan
  Node <- MCNode
  ScanRoot = "r"
  Parent <- MCParent
  Unsynced = {"s"}
  MaxCached = 1
  MaxScanAttempts = 2
  MaxScans = 2
  MaxChanges = 2
  \* UploadGate
  Upload <- MCUpload
  Limit = 2
  \* DataDirectory: a server and the claim command; three locks, one after another
  Process = {"server", "claimer"}
  Claimer = {"claimer"}
  MaxLocks = 3
  \* ClaimLegacy
  Machine = {"m1", "m2"}
  ClaimHash = {"b1", "b2"}
  ClaimTeam = "team"
  OtherTeam = "other"
  MaxMoves = 3
  \* MachineContact: two polls over an interval of three instants
  Poll = {1, 2}
  Field = {"host", "version"}
  Identity <- MCIdentity
  Refresh = 3
  Slack = 2
  MaxFlight = 1
  MaxRepairs = 2
  MaxInstant = 4
  MaxPollutions = 1
  \* SnapshotBinding
  Report = {1, 2}
  Manifest = {"n1", "n2"}
  ForeignManifest = {"n2"}
  MaxGeneration = 2
  \* BlobFiles
  Writer = {"w1", "w2", "w3"}
  Reader = {"a"}
  MaxIntrusions = 1
  \* OccurrenceSearch: every schedule over nine instants
  Earliest = 0
  Latest = 9
  FirstWindow = 2
  \* ManifestPolicy
  FilePath <- MCFilePath
  FileHash = {"x", "y"}
  Size = {1, 2, 4}
  DirectoryRule <- MCDirectoryRule
  FileRule = {"k"}
  MaxFile = 3
  MaxTotal = 3
  MaxEntries = 2
  MaxWire = 3
  Directory <- MCDirectory
  Landing <- MCLanding
  \* ArtifactRead
  Loop = {"mine", "theirs", "free"}
  Owner <- MCOwner
  Busy = "mine"
  Neighbour = "theirs"
  Team = {"team", "other"}
  Namespace = {"team"}
  ShownPath = {"p", "q"}
  Tree <- MCTree
  MaxConfigurations = 2
  MaxSnapshots = 3
  Chunks = 1
  \* OutputCapture: a cap of six bytes, and up to two beyond it
  Length <- MCLength
  Picky = {"first"}
  Longest = 3
  HalfCap = 3
  MaxChunk = 2
  MaxOutput = 8
  \* SweepPass: pages of one row, and what the broken coalescing would need to overlap
  Runs = 2
  PageSize = 1
  MaxPasses = 2
  Slot = {1, 2}
  \* TerminalPolicy
  Container = {"object", "array", "part"}
  StateRoot = "object"
  Array = {"array"}
  Given <- MCGiven
  KeyBytes = 3
  MaxBytes = 14
  MaxText = 6
  Texts <- MCTexts
  \* LoginFlow: two browsers and two calls; one account has a team already
  Browser = {"b1", "b2"}
  Callback = {1, 2}
  Account = {"u1", "u2"}
  Seeded = {"u2"}
  Capacity = 1
  TxTTL = 1
  SessionTTL = 1
  MaxStarts = 2
  MaxMints = 2
  MaxNow = 1
  \* DaemonStartup
  MaxUpdates = 2
SPECIFICATION Spec
INVARIANTS RunIsHonest ScanIsTrue PermitsAreKept OneProcessHasTheData WorkIsWhole
  SnapshotOfItsTime BlobIsWhole RulesAreExact ReadsAreHonest SessionIsEarned StartIsClean
PROPERTIES ContactIsKept PartsEnd
CHECK_DEADLOCK FALSE
