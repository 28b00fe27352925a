-------------------------------- MODULE Parts --------------------------------
(***************************************************************************)
(* The parts that stand alone, composed.  They share no state, so each     *)
(* behaviour is one of one part, chosen at the start; the variables of the *)
(* others stay as they were initially.  Their constants that go by one     *)
(* name in two parts have a name of their own here.                        *)
(***************************************************************************)
EXTENDS Integers, FiniteSets, Sequences

CONSTANTS
  Helper, OutboxEntry, MaxWrites,                                      \* AgentRun
  Node, ScanRoot, Parent, Unsynced, MaxCached, MaxScanAttempts,        \* ArtifactScan
  MaxScans, MaxChanges,
  Upload, Limit,                                                       \* UploadGate
  Process, Claimer, MaxLocks,                                          \* DataDirectory
  Machine, ClaimHash, ClaimTeam, OtherTeam, MaxMoves,                  \* ClaimLegacy
  Poll, Field, Identity, Refresh, Slack, MaxFlight, MaxRepairs,        \* MachineContact
  MaxInstant, MaxPollutions,
  Report, Manifest, ForeignManifest, MaxGeneration,                    \* SnapshotBinding
  Writer, Reader, MaxIntrusions,                                       \* BlobFiles
  Earliest, Latest, FirstWindow,                                       \* OccurrenceSearch
  FilePath, FileHash, Size, DirectoryRule, FileRule, MaxFile,          \* ManifestPolicy
  MaxTotal, MaxEntries, MaxWire, Directory, Landing,
  Loop, Owner, Busy, Neighbour, Team, Namespace, ShownPath, Tree,      \* ArtifactRead
  MaxConfigurations, MaxSnapshots, Chunks,
  Length, Picky, Longest, HalfCap, MaxChunk, MaxOutput,                \* OutputCapture
  Runs, PageSize, MaxPasses, Slot,                                     \* SweepPass
  Container, StateRoot, Array, Given, KeyBytes, MaxBytes, MaxText,     \* TerminalPolicy
  Texts,       \* the texts its rules are tried on
  Browser, Callback, Account, Seeded, Capacity, TxTTL, SessionTTL,     \* LoginFlow
  MaxStarts, MaxMints, MaxNow,
  MaxUpdates,                                                          \* DaemonStartup
  None

\* What the parts' proofs ask of the constants.  A helper is not the child; None
\* is none of the values it stands beside.
ASSUME AgentAssumption ==
  /\ "child" \notin Helper /\ MaxWrites \in Nat
  /\ None \notin {"zero", "nonzero", "signal", "timed-out", "aborted", "consumer-error", "exited", "signaled",
                  "spawn-error", "process-control", "ok", "failed", "success", "failure"}
  /\ None \notin [kind : {"command", "refused"}, ino : Nat]
\* The entries hang under the root, and no rule matches the root itself.
ASSUME ScanAssumption ==
  /\ ScanRoot \in Node /\ Parent \in [Node \ {ScanRoot} -> Node] /\ Unsynced \subseteq Node \ {ScanRoot}
  /\ \A S \in SUBSET (Node \ {ScanRoot}) : S # {} => \E p \in S : Parent[p] \notin S
  /\ MaxCached \in Nat \ {0} /\ MaxScanAttempts \in Nat /\ MaxScans \in Nat /\ MaxChanges \in Nat
  /\ None \notin Nat /\ None \notin {"ok", "unstable"}
ASSUME GateAssumption == IsFiniteSet(Upload) /\ Limit \in Nat
\* Teams are no machines.
ASSUME ClaimAssumption ==
  /\ ClaimTeam # OtherTeam /\ ClaimTeam \notin Machine /\ OtherTeam \notin Machine
  /\ None \notin {ClaimTeam, OtherTeam}
\* What a poll may send, or the row hold, in a field.
FieldValue == {None} \cup {i[f] : i \in Identity, f \in Field}
\* Two polls in flight, one after the other, take less than the refresh interval.
ASSUME ContactAssumption ==
  /\ MaxFlight \in Nat /\ Refresh \in Nat /\ Slack \in Nat /\ 2 * MaxFlight < Refresh
  /\ None \notin Nat /\ Identity \subseteq [Field -> FieldValue]
ASSUME BindingAssumption == None \notin {"active", "grace"}
ASSUME SweepAssumption == Runs \in Nat /\ PageSize \in Nat /\ None \notin Slot
\* A tree is a function; the loop things happen to is not its neighbour.
ASSUME ReadsAssumption ==
  /\ Busy \in Loop /\ Neighbour \in Loop /\ Busy # Neighbour /\ None \notin Loop
  /\ Tree # {} /\ \A tree \in Tree : tree = [p \in DOMAIN tree |-> tree[p]]
  /\ MaxConfigurations \in Nat /\ MaxSnapshots \in Nat /\ Chunks \in Nat
  /\ None \notin Nat /\ None # "eof"
\* The instants that are asked for begin with year 1, and a window is no point.
ASSUME SearchAssumption ==
  Earliest \in Int /\ Latest \in Int /\ Earliest <= Latest /\ FirstWindow \in Nat \ {0} /\ None \notin Int
\* Directories, the places where they really are and the paths of files are
\* sequences of segments, those of files of at least one.
Places == Directory \cup ({Landing[d] : d \in Directory} \ {None}) \cup FilePath
Segment == UNION {{d[i] : i \in DOMAIN d} : d \in Places}
ASSUME PolicyAssumption ==
  /\ Places \subseteq Seq(Segment) /\ <<>> \notin FilePath
  /\ Size \subseteq Nat /\ MaxFile \in Nat
\* A character has one byte at least and fits into either half.
ASSUME CaptureAssumption ==
  /\ Longest \in Nat \ {0} /\ HalfCap \in Nat /\ Longest <= HalfCap
  /\ Length \in [DOMAIN Length -> 1 .. Longest] /\ DOMAIN Length \cap {"high", "low"} = {}
  /\ \A n \in 0 .. 2 * HalfCap : None \notin [1 .. n -> DOMAIN Length \cup {"high", "low"}]
\* The empty container fits, and an absent text is none.
ASSUME TerminalAssumption ==
  /\ StateRoot \in Container /\ Container \cap {"digit", "bad", "missing"} = {}
  /\ Given \subseteq [Container -> Seq({"digit", "bad", "missing"} \cup Container)]
  /\ KeyBytes \in Nat /\ MaxBytes \in Nat /\ 2 <= MaxBytes
  /\ Texts \subseteq Seq(STRING) /\ None \notin Texts /\ MaxText \in Nat
\* The store has room for a login.
ASSUME LoginAssumption ==
  /\ Capacity \in Nat \ {0} /\ TxTTL \in Nat \ {0}
  /\ None \notin Nat /\ None \notin Browser
ASSUME BlobsAssumption == IsFiniteSet(Writer) /\ None \notin Writer /\ "odd" \notin Writer

VARIABLES
  part,
  at, pipes, exit, aborted, winner, term, closing, settled, v1, stage, held, parse,
  outbox, writes, listed, command, broken, out,                        \* AgentRun
  disk, clock, seen, began, scans, walk, cache, result,                \* ArtifactScan
  permits, waiting, caller, signalled,                                 \* UploadGate
  lockFile, inode, own, process, client, leaking, lost, raced, stuck,  \* DataDirectory
  owner, chain, active, blobRow, file, claim, moves, spoiled,          \* ClaimLegacy
  now, row, poll, heard, pollutions,                                   \* MachineContact
  generation, committed, run, lease, report, bound,                    \* SnapshotBinding
  bytes, temporary, final, writer, reader, intrusions,                 \* BlobFiles
  occurrences, search,                                                 \* OccurrenceSearch
  wire, accept, roots,                                                 \* ManifestPolicy
  loops, published, boundTo, reads, download,                          \* ArtifactRead
  output, whole, headPart, tailPart,                                   \* OutputCapture
  rows, passes, inFlight, awaited, timer, ticks,                       \* SweepPass
  given, cloning,                                                      \* TerminalPolicy
  time, started, pending, cookie, call, identity, session,             \* LoginFlow
  pc, root, owned, binary, pinned, ran                                 \* DaemonStartup

Agent == INSTANCE AgentRun WITH Entry <- OutboxEntry
Scanner == INSTANCE ArtifactScan WITH Root <- ScanRoot, NeverSync <- Unsynced, MaxAttempts <- MaxScanAttempts
Gate == INSTANCE UploadGate
DataDir == INSTANCE DataDirectory WITH stage <- process
Claim == INSTANCE ClaimLegacy WITH Hash <- ClaimHash, Team <- ClaimTeam, Other <- OtherTeam
Contact == INSTANCE MachineContact WITH MaxAttempts <- MaxRepairs, MaxNow <- MaxInstant
Binding == INSTANCE SnapshotBinding WITH Foreign <- ForeignManifest
Blobs == INSTANCE BlobFiles
Search == INSTANCE OccurrenceSearch
Policy == INSTANCE ManifestPolicy WITH Hash <- FileHash
Reads == INSTANCE ArtifactRead WITH Path <- ShownPath, MaxGeneration <- MaxConfigurations, reader <- reads
Capture == INSTANCE OutputCapture
Sweep == INSTANCE SweepPass
Terminal == INSTANCE TerminalPolicy WITH Root <- StateRoot
Login == INSTANCE LoginFlow WITH Call <- Callback, now <- time
Startup == INSTANCE DaemonStartup WITH held <- owned

agentVars == <<at, pipes, exit, aborted, winner, term, closing, settled, v1, stage, held, parse,
               outbox, writes, listed, command, broken, out>>
scannerVars == <<disk, clock, seen, began, scans, walk, cache, result>>
gateVars == <<permits, waiting, caller, signalled>>
directoryVars == <<lockFile, inode, own, process, client, leaking, lost, raced, stuck>>
claimVars == <<owner, chain, active, blobRow, file, claim, moves, spoiled>>
contactVars == <<now, row, poll, heard, pollutions>>
bindingVars == <<generation, committed, run, lease, report, bound>>
blobsVars == <<bytes, temporary, final, writer, reader, intrusions>>
searchVars == <<occurrences, search>>
policyVars == <<wire, accept, roots>>
readsVars == <<loops, published, boundTo, reads, download>>
captureVars == <<output, whole, headPart, tailPart>>
sweepVars == <<rows, passes, inFlight, awaited, timer, ticks>>
terminalVars == <<given, cloning>>
loginVars == <<time, started, pending, cookie, call, identity, session>>
startupVars == <<pc, root, owned, binary, pinned, ran>>
partVars == <<part, agentVars, scannerVars, gateVars, directoryVars, claimVars, contactVars, bindingVars,
  blobsVars, searchVars, policyVars, readsVars, captureVars, sweepVars, terminalVars,
  loginVars, startupVars>>

Init ==
  /\ part \in {"agent", "scanner", "gate", "directory", "claim", "contact", "binding", "blobs", "search",
               "policy", "reads", "capture", "sweep", "terminal", "login", "startup"}
  /\ Agent!Init /\ (part # "agent" => v1)
  /\ Contact!Init /\ (part # "contact" => row.seen = None)
  /\ Scanner!Init /\ Gate!Init /\ DataDir!Init /\ Claim!Init /\ Binding!Init
  /\ Blobs!Init /\ Search!Init /\ Policy!Init /\ Reads!Init /\ Capture!Init
  /\ Sweep!Init /\ Terminal!Init /\ Login!Init /\ Startup!Init

\* Nothing but the part named changes.
Only(name) ==
  /\ part = name /\ UNCHANGED part
  /\ name # "agent" => UNCHANGED agentVars
  /\ name # "scanner" => UNCHANGED scannerVars
  /\ name # "gate" => UNCHANGED gateVars
  /\ name # "directory" => UNCHANGED directoryVars
  /\ name # "claim" => UNCHANGED claimVars
  /\ name # "contact" => UNCHANGED contactVars
  /\ name # "binding" => UNCHANGED bindingVars
  /\ name # "blobs" => UNCHANGED blobsVars
  /\ name # "search" => UNCHANGED searchVars
  /\ name # "policy" => UNCHANGED policyVars
  /\ name # "reads" => UNCHANGED readsVars
  /\ name # "capture" => UNCHANGED captureVars
  /\ name # "sweep" => UNCHANGED sweepVars
  /\ name # "terminal" => UNCHANGED terminalVars
  /\ name # "login" => UNCHANGED loginVars
  /\ name # "startup" => UNCHANGED startupVars

Next ==
  \/ Only("agent") /\ Agent!Next
  \/ Only("scanner") /\ Scanner!Next
  \/ Only("gate") /\ Gate!Next
  \/ Only("directory") /\ DataDir!Next
  \/ Only("claim") /\ Claim!Next
  \/ Only("contact") /\ Contact!Next
  \/ Only("binding") /\ Binding!Next
  \/ Only("blobs") /\ Blobs!Next
  \/ Only("search") /\ Search!Next
  \/ Only("policy") /\ Policy!Next
  \/ Only("reads") /\ Reads!Next
  \/ Only("capture") /\ Capture!Next
  \/ Only("sweep") /\ Sweep!Next
  \/ Only("terminal") /\ Terminal!Next
  \/ Only("login") /\ Login!Next
  \/ Only("startup") /\ Startup!Next

\* The fairness of the two parts with a liveness property; Agent!Fairness would
\* ask for steps of the agent in behaviours of other parts, too.
Fairness ==
  /\ WF_agentVars(part = "agent" /\ Agent!Prepare)
  /\ WF_agentVars(part = "agent" /\ Agent!Timer)
  /\ WF_agentVars(part = "agent" /\ Agent!Settling)
  /\ WF_agentVars(part = "agent" /\ Agent!Conclude)
  /\ \A p \in Process \ Claimer : WF_directoryVars(part = "directory" /\ DataDir!ProcessStep(p))

Spec == Init /\ [][Next]_partVars /\ Fairness

-------------------------------------------------------------------------------
(***************************************************************************)
(* Properties, each of the part it is named for.                           *)
(***************************************************************************)

\* A run of the agent that settles leaves no process of its group unseen, and one
\* that reports success has earned it (claude-runner.ts, subprocess.ts).
RunIsHonest == part = "agent" => Agent!NothingRunsUnseen /\ Agent!SuccessIsEarned

\* What was told to end ends: a run of the agent whatever its processes do with
\* signals (unless one that left the group keeps the output open), and a server
\* that stops or whose boot failed, though a client never lets its connection go
\* (subprocess.ts, server-shutdown.ts).
Ending(p) == \/ part = "agent" /\ stage = "resolve"
             \/ part = "directory" /\ process[p] \in {"draining", "db"}
Ended(p) == \/ part = "agent" /\ (stage = "done" \/ Agent!PipeEscaped)
            \/ part = "directory" /\ process[p] = "down"
PartsEnd == \A p \in Process \ Claimer : Ending(p) ~> Ended(p)

\* A complete manifest is true, and unrest is never invented (artifact-scan.ts).
ScanIsTrue == part = "scanner" => Scanner!ManifestIsTrue /\ Scanner!UnrestIsReal

\* No upload permit is lost or held twice (createGate of artifact-sync.ts).
PermitsAreKept == part = "gate" => Gate!PermitsAreKept

\* One process at a time has the database open, unless its lock was taken from it or its
\* migration failed, and no release takes the lock of another but in a race
\* (data-dir-lock.ts, start.ts, db/index.ts).
OneProcessHasTheData == part = "directory" => DataDir!OneProcessHasTheData

\* What is begun is done as a whole: a claim, which may be repeated (claim/), and a
\* pass of the sweep, which no other overlaps (sweep/index.ts).
WorkIsWhole ==
  /\ part = "claim" => Claim!ClaimIsWhole
  /\ part = "sweep" => Sweep!SweepIsWhole

\* An acknowledged contact counts and each field it sent was on the row while its poll
\* ran; a watermark in the legal domain does not move back (store/machines.ts).
ContactIsKept == Contact!ContactIsKept

\* A run shows a snapshot only of the generation it reported in
\* (binding-plan.ts, store/report.ts).
SnapshotOfItsTime == part = "binding" => Binding!SnapshotOfItsTime

\* What is read under a key is complete and verified (blob-store-local.ts).
BlobIsWhole == part = "blobs" => Blobs!BlobIsWhole

\* Rules that are only computed: the latest occurrence is found exactly
\* (time-semantics.ts), daemon and server agree on manifests in any wire order
\* and on roots, which the server only narrows (artifact-policy.ts, jail.ts),
\* output past its cap is cut at whole characters (subprocess.ts), and what a run
\* hands over is accepted exactly if it can be stored and fits (terminal-policy.ts).
RulesAreExact ==
  /\ part = "search" => Search!SearchIsExact
  /\ part = "policy" => Policy!PolicyIsOrderFree /\ Policy!RootsOnlyNarrow
  /\ part = "capture" => Capture!CutsAreClean
  /\ part = "terminal" => Terminal!StateIsJudged /\ (given = None => Terminal!TextsAreStorable(Texts))

\* What is shown of artifacts is the loop's own and true, nobody learns of what
\* is not theirs, and no download keeps its file open (artifact/read.ts, app.ts).
ReadsAreHonest == part = "reads" => Reads!ReadsAreHonest

\* Every session came from a login of its own (auth/).
SessionIsEarned == part = "login" => Login!SessionIsEarned

\* A daemon leaves nothing of its start behind and polls only with the binary it
\* probed (cli.ts, probe-claude.ts).
StartIsClean == part = "startup" => Startup!StartIsClean
==============================================================================
