# Loop Platform: a verification project

Loop Platform runs an agent again and again. An owner creates a *loop* (a task
file, a goal, a schedule, a working directory on a machine); the *server* turns
schedule instants and manual requests into *runs*; the *daemon* on the machine
polls for runs, executes them one at a time and reports how they ended; the
server promotes what a run reported into its loop.

This directory holds TLA+ models of that system, the TLC configurations that
check them on small instances, and TLAPS proofs for all instances. The paths
below are relative to `src/packages/`.

## 1. The system

### Parts, their state, and what is hard about them

| Part | Code | State | Operations |
|---|---|---|---|
| Run coordination | `server/src/store/{runs,report,leases,guard-retry}.ts`, `coordinator/` | `runs`, `run_leases`, the loop row's revision; per-loop promise chains in memory | Run Now, scheduled trigger, claim (poll), progress, report, cancel, reclaim, prune |
| Loop lifecycle | `server/src/loop-lifecycle/` | the `loops` row | goal, schedule and task-file edits; completion; reopen |
| Schedule state machine, time semantics | `server/src/schedule/` | none (pure) | plan a transition, admit an occurrence, find the latest occurrence |
| Scheduler | `server/src/scheduler/` | registry, highest revisions, cron jobs, ticks in flight | register, reconcile, tick, boot scan and catch-up, drain |
| Sweep | `server/src/sweep/` | the pass in flight | reclaim silent runs, prune grace leases |
| Machines | `server/src/store/machines.ts` | the `machines` row | poll contact: watermark, identity, capabilities |
| Artifact home | `server/src/artifact/` | sessions, manifests, blobs, artifact columns of the loop | prepare, put, commit, configure, bind to a run, read |
| Server process | `server/src/{start,data-dir-lock}.ts`, `http/` | lock file, listener, timers | boot, drain, shutdown |
| Claim tool | `server/src/claim/` | offline migration of a database | plan, apply |
| Accounts and views | `server/src/{auth,owner,management,dashboard,admin}/` | pending logins, signed cookies | login, views, the same mutations again |
| Daemon runtime | `daemon/src/{runtime,client,cli}.ts` | queue, active pipeline, outbox, activity snapshot, fatal error, abort signal | poll, dispatch, report and retry, stop |
| Daemon artifact side | `daemon/src/artifact-*.ts` | watchers, generations, event windows, upload permits, session keys | watch, scan, sync, final sync |
| Run execution | `daemon/src/{claude-runner,subprocess,wrapper-main,journal,...}.ts` | a process group, a journal directory | start, time out, terminate, collect the result |
| Protocol | `protocol/src/` | none (pure) | schemas, terminal policy, artifact policy |

How they interact. The daemon calls the server over HTTP: a poll carries the
free slots and the progress of active runs and brings back claimed runs; a
report spends the run's credential. The scheduler calls the coordinator's
trigger. Every committed schedule change hands its row to the scheduler's
`reconcile`. The sweep reads runs and reclaims them through the store. A report
may complete a loop and thereby retire pending runs and stop the schedule. All
server parts share one database with one connection, so a statement or a
transaction is atomic, while every `await` outside a transaction is a place
where the others run.

What is hard:

* *Optimistic calls.* Most operations read the loop row, decide, and write in a
  later transaction guarded by `id` and `revision`; a lost guard is run once
  more (`store/guard-retry.ts`). Everything decided from the first read must
  still hold at the write.
* *Late answers.* The sweep gives a silent run up, but its daemon may be alive:
  a *terminal-grace* lease lets one late report reconcile. That report meets a
  loop that was edited, retargeted, completed or reopened in between.
* *Two clocks of schedule.* The in-memory registry and the rows change at
  different instants; reconciles come in any order; a boot has to cover exactly
  what the timers do not.
* *Unreliable requests.* A poll or a report may be handled after the daemon
  gave it up; the retry meets its own success.
* *Shutdown and crashes* at every point, on both sides.

### What makes each part correct

* Runs: one open run per loop; a run is handed out once and settles once; a
  credential exists exactly while it can be used.
* Loop row: an edit never acts on a stale row; a completed loop is frozen until
  it is reopened; a loop completes only for the goal the run was claimed for; a
  running run sees the task file it was handed.
* Schedule: no instant fires twice; revisions order schedules and never
  overflow; the watermark lies in the window of the current activation.
* Scheduler: jobs follow rows; no occurrence is forgotten; nothing runs after
  the drain.
* Daemon: one run at a time; no delivered run is forgotten; queue and slot are
  never left waiting for each other; a stop completes.
* Daemon artifact side: one subscription per loop, no announced change left
  unscanned; the record of the last snapshot is true; the sync answer a run
  reports is honest; a complete manifest is one that the tree really had.
* Run execution: no process of a run goes on unseen, and success is earned.
* Server process and claim tool: one process at a time has the data, as long as its
  lock is left to it and its boot does not fail half way (see Findings); a claim is
  whole or has not happened.
* Artifact home: a loop's snapshots form a log that each session appends to at
  most once; snapshots are complete; the state shown with a loop is that of the
  current directory and never older than the snapshot shown.

`PROJECT.json` lists every component with its status and every hazard with its
line and the properties that watch it.

## 2. The modules

| Module | Models |
|---|---|
| `LoopRow` | the loop row and the pure kernels that plan its writes |
| `RunLifecycle` | run coordination and loop lifecycle over `LoopRow` |
| `RunContract` | the abstract promise: what becomes of runs, without rows, leases or calls |
| `Scheduler` | the scheduler over `LoopRow` |
| `DaemonRuntime` | the daemon's runtime over a lossy network against a server that keeps `RunContract` |
| `ArtifactHome` | sessions, blobs, snapshots and the sync state of the server's artifact home |
| `ArtifactLog` | the abstract promise: per loop an append-only log, per session at most one entry |
| `SnapshotBinding` | the binding of a report to an artifact snapshot, statement by statement |
| `BlobFiles` | the local blob store: verified writes, links, reads, damage |
| `ArtifactRead` | what is shown of artifacts, and the body of a download |
| `SweepPass` | passes of the inactivity sweep, their pages, timer and drain |
| `MachineContact` | the contact a poll leaves on its machine's row |
| `DataDirectory` | the lock of a data directory, boot and stop of a server, the claim command |
| `ClaimLegacy` | the offline claim of machines, their blobs and metadata |
| `LoginFlow` | logins, sessions, cookies |
| `ArtifactWatch` | the daemon's watch manager |
| `ArtifactSync`, `UploadGate` | the daemon's sync client and final sync; the gate of its uploads |
| `ArtifactScan` | the scan of a tree that changes |
| `AgentRun`, `ProcessGroup`, `OutputCapture` | a run of the agent, its process group, what is kept of its output |
| `DaemonStartup` | the start of a daemon and what it must leave behind |
| `OccurrenceSearch` | the search for the latest occurrence |
| `ManifestPolicy`, `TerminalPolicy` | the policies that daemon and server share |
| `Parts` | the parts that stand alone, one of them in a behaviour, and what each promises |
| `RunLifecycle_proofs` | what the kernels of `LoopRow` return; type correctness of `RunLifecycle`; leases, open runs, outcomes, credentials; the step simulation of `RunContract`; the optimistic guard and the completed loop; schedule, watermark, ceiling, task file, grace window, completion |
| `Scheduler_proofs` | the registry and its jobs, and the way of every occurrence |
| `DaemonRuntime_proofs` | the daemon's work, its slots and the runs it must not forget |
| `ArtifactSync_proofs` | the record of the sync client, the answer of the final sync, the end of every call |
| `ArtifactWatch_proofs` | the subscriptions of the watch manager and the drivers of its rounds |
| `ArtifactHome_proofs` | the inductive invariant of `ArtifactHome` and what follows from it; the step simulation of `ArtifactLog` |
| `Processes_proofs` | the parts that run: the agent, the scan, the upload gate, the data directory, the start of a daemon, the claim, the sweep |
| `Records_proofs` | the parts that keep or show: contact, binding, blobs, reads, logins; the rules: occurrence search, manifests and roots, output, states and texts |
| `MCRunLifecycle`, `MCScheduler`, `MCDaemonRuntime`, `MCArtifactHome`, `MCArtifactWatch`, `MCArtifactSync`, `MCParts` | instances for TLC |

`RunLifecycle` and `DaemonRuntime` meet in `RunContract`: the first is checked
and proved to implement it (`ImplementsContract`), the second uses its actions as
the server. So the daemon is verified against what the server was shown to do.

### RunLifecycle and LoopRow

A database transaction is one action. An operation that reads first is two: it
*begins* (the read and the checks before the transaction; the row is kept as
`snap`) and then commits or loses its guard; a lost guard is a *retry* (fresh
read, all checks again) and then an answer. `Handler` is the set of calls that
may be in flight at once. A restart frees all calls. Report, cancel, reclaim,
prune and progress decide inside their transaction and are one action.

The columns kept are those the properties tell apart. A cron stands for cron
and time zone and is the set of its instants (`Occurs`); a goal or a task file
is a model value; stored task-file content is the path it was read from; stored
state is the run that reported it. A loop without a task file behaves as one
more member of `Path`. Timestamps of heartbeats and leases are ages: the idle
time of a running run up to `Inactivity` and the time left of a grace lease up
to `Grace`, because the code only compares their difference to the clock with
those constants. Schedule instants are absolute, up to `MaxTime`. An artifact
configuration appears as the set of loops whose claim is refused
(`ArtifactGated`), ownership of machines as `Eligible`.

### Scheduler

A schedule write and an enqueue are single steps here, which `RunLifecycle`
justifies; an enqueue is its watermark. A handler that commits leaves its row
in `commits` and reconciles it in a later step, in any order. A job fires at
most once per occurrence, late rather than never, and is skipped while its
previous callback is pending, which is how the cron library is configured. A
tick reads the machine's eligibility and then enqueues; each is a step. The
boot is: scan (rows read), register (all loops in one synchronous step), take
the cutoff, catch up serially. `start.ts` installs the signal handlers after
the scheduler has started, so a stop comes while it runs, or in place of a scan
that failed; a crash comes at any time. `lost` is history: occurrences
that the code gives up by design (skipped, ineligible, stopped, failed
enqueue). An occurrence between the commit of a schedule and the registration
of its job belongs to no timer; `from` on a job is the first instant it answers
for. Rows that a scan finds corrupt are skipped by the code and left out here.

### DaemonRuntime

`wire` holds requests on their way or in their handler, `answer` the answers on
their way back. Each request carries the identity of its attempt; an answer to
an attempt that was given up is discarded with its connection, but what the
handler did is done. The poll handler claims one run per step, so a crash or a
timeout comes between claims. The pipeline's stages are the runner, the final
artifact sync (only for artifact loops) and the first attempt of the report;
retries belong to the outbox. The final sync never throws
(`daemon/src/artifact-final-sync.ts` catches everything), so the pipeline's own
throw path is not modelled. `Dispatched` is the dispatch loop as a recursive
function over the runs of an answer, with its dedupe against the snapshot and
within the answer (`seenRunIds`). A crash takes what the process had in memory,
so that nothing of it acts any more. The watch digest is left out because it
changes nothing modelled here. The modelled server may claim any number of runs
for a poll, also more than `availableSlots`: the protocol admits several
deliveries, and it is the only way in which the queue is used.

### ArtifactHome

A handler is a record that says which statement comes next and what it keeps
from the earlier ones. Prepare reads the loop, reads the session, and inserts
under the loop's revision or renews under the expiry it saw; put reads, streams
the blob to disk, checks everything again and registers; commit reads the loop,
then the session, looks up the blobs, and then decides again inside its
transaction; a failed commit stamps the loop under the revision it read first.
Configuration changes and reported failures read, then write under the
revision. The artifact home and `RunLifecycle` meet in the loop row only, and
each is the other's "another column was written" (`OtherWrite` here).

Abstractions. A session is named by its request key. A manifest is the set of
its blobs, each with the truth of its declared size. `put` reads the session
and then the loop; the two are one step, because generations only grow and the
checks are conjunctive. Requests that are refused without a write end at their
start. The blob lookups of a commit are one step, with the file's absence or an
I/O fault as outcomes. A storage fault in the commit transaction either rolls
it back or strikes after it landed. The guards inside the transaction cannot
fail on the one connection, so the retry of commit never happens here. The
instants stamped on rows are left out; `by`, `config` and `base` of a failure
and `refused` are history.

`SnapshotBinding` takes the report transaction apart, statement by statement,
against configuration changes, the sweep, a cancel and a second report. The
comments of the code reason about row locks of a database with many connections;
the embedded one runs one transaction at a time, so the model allows more than
can happen. Which literal a run gets that is refused for its generation is not
claimed: on a retry the reason may be another one. `BlobFiles` opens up the
verified write that `ArtifactHome` uses as one step.

`ArtifactRead` follows one request at a time through its queries, between which
the loop is configured and synchronised. Teams do not change while the server
runs (the claim is offline) and manifests are never rewritten. One view is torn:
`readLoopArtifactsView` reads the loop row twice (`artifact/read.ts` 115 and
117), so the sync state of an old generation may be shown beside a new
configuration, although a comment in `artifact/config.ts` says that one can
never be mistaken for the other. `ReadsAreHonest` claims no more than holds: the
sync state is one the loop had.

`ImplementsLog` maps the manifests of a loop to its log, a session to a ticket
for one place of that log in one generation, and a receipt to the place taken.

### The artifact side of the daemon

`ArtifactWatch` has the objects the code has: a `LoopWatch` per generation, the
tasks that run between two awaits, the reconcile tick and the drain. A replaced
object lives on until its tasks end; its slot is used again when nothing refers
to it. The sync client, subscription and jail answer anything they may answer.
Left out: which rounds may reuse cached hashes, and the deadline of the drain
(`DrainsEnd` shows that it is not needed, given that the client's calls end). One loop is enough:
loops share only the watch set and the drain. The reconcile pass is needed for
more than lost events: a window opened before a refusal can still be open when
the loop is admitted again, and swallows what comes in it (`ChangesAreScanned`
says where this shows).

`ArtifactSync` has two callers of one loop, the rounds of the watch manager and
the final sync, and of the server what the daemon can tell. A request may be
applied and its answer lost; a commit may land after its caller gave up. A proposal
whose session is committed already is replayed, before its generation and base are
looked at, and the commit that follows fetches the receipt. A call that is cancelled
in the queue has run no round and leaves the record as it is (`runSerialized`); what a
round ends with goes through `Kept` (`runRound`).
`UploadGate` has the permits by themselves. `ArtifactScan` takes every system
call as a step; a stamp is what `lstat` shows of a file, and names its content.

### Runs of the agent

`AgentRun` extends `ProcessGroup`. Any process may exit, ignore a signal or fork
helpers that stay in the group or leave it; a signal may be refused and a probe
of the group may fail. A process that left the group and keeps the output open
can keep a run from settling: the property says so (`PipeEscaped`), because the
code cannot do better. `OutputCapture` knows bytes by the classes that UTF-8
tells apart; its halves hold 3 bytes and characters have up to 3, where the code
has 512 KiB and 4. An output passes the cap of 6 at 7 bytes and rolls the window of its
tail at 8. The observer of the process group that only an acceptance
test installs is left out.

### The processes

`DataDirectory` has the acquisition of the lock file, the comparison of inodes
and the unlink as steps of their own. Nobody takes a lock over: what a crash
leaves behind an operator removes by hand. The operator is asked to make sure first
that nobody uses the directory; in the model the file may go at any time, of a process
that runs, too. A migration that fails leaves the database open (`leaking`) while the
lock is released, for neither caller has the handle. No behaviour is excused as a whole:
what each process lost is remembered for it. `lost` holds the inodes that were unlinked
by another than their process, `raced` the processes whose own lock went between their
comparison and their unlink, or before an undo. So the property says that a release never
takes the lock of another but in that one instant, and that two have the database open
at once only if one of them had its lock taken or has released it after a failed
migration. A database that fails to close keeps the lock.
`ClaimLegacy` runs under that lock, may crash between any
two steps and be repeated. `DaemonStartup` assumes that an update of the agent
binary gives it a fresh identity; its second look at the binary is that around each
probe of a start, and the runner's before each run is not modelled.
`MachineContact` has the identity field by field. A poll writes the fields it sent that differ from what it read itself, so
two polls that overlap may leave a mixture that neither sent: over a row (A,0), polls of
(A,1) and (B,0) leave (B,1). What an acknowledgement is worth is therefore said of each
field by itself: it was on the row while the poll ran. The friendly name, which is
filled once from the host name, is left out. The model assumes that a contact is
decided and written within less than half of the refresh interval, that is, in five seconds.
`LoginFlow` leaves the single use of a code and PKCE to GitHub, and the comparison of the
state value to the identity of a transaction. `SweepPass` has rows that come, go
and stir under a pass and one kind that the sweep cannot help (running without
a lease).

### Rules

`OccurrenceSearch` takes one probe of `nextOccurrence` as a step and is checked
for every set of occurrences over nine instants. `ManifestPolicy` takes the
entries of a manifest one by one, in every order, and the roots of a machine;
`TerminalPolicy` the walk that clones a reported state and counts its bytes, on
every small value with shared and cyclic parts, and the rules for texts. What a
getter or a proxy in a value might do is one kind of leaf that JSON cannot hold.

### Parts

The parts share no state with each other, and a run costs start-up and a place in a
list. So `Parts` holds an instance of each, picks one at the start of a
behaviour and leaves the others as they were. Its fairness is stated for the two
parts with a liveness property, each under the condition that it was picked. The
theorems about the parts are theorems of this specification, and `MCParts` gives its
constants their values for TLC.

## 3. The runs

Deadlock is checked where a run's configuration does not say otherwise; the
watch, sync and parts runs may really stop. Times are with two workers, none
above four minutes.

| Run | Question | Bounds |
|---|---|---|
| `completion` | runs, leases, completion and the contract under Run Now, claims, goal edits, cancels, reclaims, reports, reopens | 1 loop, 2 calls in flight, 3 runs, `MaxRevision` 6 |
| `schedule` | watermark, firing, versions and the revision ceiling under triggers of every revision and instant, edits, completions, reopens | 1 loop, 2 calls, 3 runs, instants 0..3, 2 crons, ceiling 3 |
| `retarget` | the task file of a running run; silent runs, calls and grace leases end | 1 loop, 2 calls, 3 runs, 2 paths, one run of protocol 0, `MaxRevision` 3, fairness |
| `pollution` | expected violation, see Findings | 1 loop, 2 calls, 2 runs |
| `scheduler` | jobs match rows and are registered, no occurrence is forgotten, the drain is quiet, owed occurrences are handled | 1 loop whose job the factory may refuse, 1 cron, instants 0..2, revisions to 2, fairness |
| `daemon` | one run at a time, no lost wakeup, exact snapshot, no forgotten run, honest slots | 2 runs, 2 loops, one with a final sync, 2 attempts of a kind at once, one refused report |
| `daemon_live` | stop completes, reports get through | 2 runs, 1 attempt, fairness |
| `daemon_escalation` | expected violation, see Findings | 2 runs |
| `artifact` | one complete snapshot per session, honest refusals, current sync state, the append-only log | 1 loop, 1 directory, 2 keys, 1 blob with a true and a false size, 2 calls, instants 0..1 with TTL 1, ceiling 2, `MaxRevision` 2 |
| `watch` | one subscription, no undriven work, no unscanned change, drains end | 1 loop, 2 objects of it at once, 1 item, 1 late task and 1 error window, fairness |
| `sync` | a true record, an honest final answer, bounded renegotiation | 2 trees over 2 hashes, 2 configurations, 2 calls, 1 rescan, 1 renegotiation, 1 change |
| `parts` | sixteen parts by themselves, see the comments of `MCParts` | each part's are in `MCParts`: mostly two actors, one or two faults |

Bounds and why they are enough. Two calls in flight give every pair of racing
operations, and a retry that loses to a third writer, because operations that
decide inside their transaction need no handler. Three runs give a running one,
a pending one and the one that supersedes it, or a reclaimed one with a
successor. `MaxRevision` stops calls from *starting* on a row; six writes reach
completion, reopen and a second life. `RevisionMax` is the int32 ceiling made
small, so that it is reached. In `schedule`, three instants fit an activation,
a watermark and a trigger on either side. `WithinBounds` names the two places
where a bound enters a guard. In the scheduler, the instants 0 to 2
fit an activation, a cutoff with an occurrence at it and an occurrence after it. In the daemon, two
attempts of a kind let one attempt be handled late while the next is under way.
In the artifact home, two calls give every race of two handlers; two keys give
two sessions that compete for one place; the ceiling 2 is reached by
configuration changes and by snapshots; one tick lets a session expire and be
renewed. In the watch manager two objects are the replaced one and its
successor; in the sync client the second call is the one that meets what the
first left behind. In the parts two actors race and a third comes where a queue
needs one; caps are small enough to be reached and passed. What needs more (longer renewals, several loops at once) is proved.

### Fairness

`RunLifecycle`: calls in flight continue (promises resolve), time passes, and
the sweep keeps running (`setInterval`); nobody has to call, to claim, to beat
or to report. `VanishedRunsAreReclaimed` takes the end of heartbeats as its
premise instead of assuming it.

`Scheduler`: timers fire, reads and writes return, the boot proceeds. Nobody
has to boot, stop or use the server.

`DaemonRuntime`: timers and continuations run, the runner and the final sync
settle (both have deadlines), an abort ends what waits on its signal, and a
request ends (it has a timeout). Strong fairness is assumed of one thing only:
a report that is sent again and again is at last handled and answered in time.
Without it the retry loop has no end, which is what its code says: no cap.

`ArtifactWatch`: tasks continue, closes end, the interval of the reconcile pass
fires. No event, answer or change of the set is owed.

`Parts`: the runner goes on, its timer fires, and the server's boot and stop
proceed. No process has to exit and no client has to close its connection.

### Properties worth a second look

The configurations name conjunctions; the parts of each are named where it is
defined, and those below are among them.

* `SnapshotIsCurrent`: a call that passes the revision guard planned from
  exactly the row it writes. It makes the plan-then-write style sound, and
  would fail for any write of a loop row that forgets to move `revision`.
* `NoOccurrenceIsForgotten`: whatever is due is either going to fire, or in the
  hands of a callback that will choose it or a later one, or recorded, or given
  up on a path that logs it.
* `NoLostWakeup`: three paths may have to start the next queued run
  (answer, confirmation, end of the pipeline); in no reachable state do all
  three believe another one will.
* `RefusedIsNotPublished`: commit reads the loop first and the session second,
  and judges a receipt before a base. With either order turned round, the
  caller that lost a race against its own retry is told of a conflict although
  its snapshot is published.
* `ShownFailureIsCurrent`: a failure on show is a conflict exactly if a newer
  snapshot is on show, and never of a session that is published.
* `RecordIsTrue`: a tree that is passed over as unchanged is the one the server
  has, although answers get lost and commits land after their callers gave up.
* `PermitsAreKept`: a permit is handed over in the very turn in which its next
  holder may be cancelled.
* `ContactIsKept`: a race of two repairs neither undoes the newer contact nor
  leaves the polluted watermark, and no field that a poll sent is dropped unseen.
* `OneProcessHasTheData`: an excuse holds for the one process it is about, so a release
  that did not compare is caught in the presence of crashes, removals and failed boots.
* `StateIsJudged`: a value in which parts are shared is accepted exactly if its
  JSON fits, although each part is walked once.
* `NoRunIsForgotten`: relates the server's runs to the daemon's snapshot across
  lost and late requests.

## 4. The proofs

`tlapm` checks all of this for any sets of loops, runs, handlers, requests,
reports, messages and bounds. The assumptions are those the modules name: `None`
differs from all data (`NullAssumption`, `TicketAssumption`, `PipelineAssumption`, `SyncAssumption`, `WatchAssumption`), durations and bounds are
naturals, requests carry the arguments their schemas ask for, a manifest
declares one size per hash, at most one run was claimed before the server knew
terminal protocol 1. Those of the parts are in `Parts`, one per part: a team's name is no
machine's (`ClaimAssumption`), two polls in flight take less than the refresh interval
(`ContactAssumption`), the entries of a directory hang under its root and no rule matches
the root (`ScanAssumption`), writers and uploads are finite sets, the login store has room for
one login, directories are sequences of segments (`PolicyAssumption`), the first window of
the search is positive. TLC evaluates each of them in a run.

### Runs and loops

* `TypeCorrect`. One lemma per operation; the kernels of `LoopRow` have lemmas
  of their own (each maps a row to a row).
* `LeaseSafety`, `OneOpenRun`, `OutcomeSafety`, `CredentialSafety`, and
  `SettledSafety`, which joins the last two for the run's `SettledRunsRest`. Instead of
  one proof per action and property, every step is first shown to move each run
  in one of a few named ways with its lease (`NextMoves`); the
  properties follow from the moves. `RunningHoldsLease` is inductive
  together with `TypeOK`, `AtMostOneOpenRun` needs in addition that an enqueue
  finds no running run in its own step.
* `ContractSafety` for `ImplementsContract`: the refinement, step by step. Each
  operation maps to one action of `RunContract` or to a stutter: an enqueue to
  `Enqueue` (what it supersedes included), a claim to `HandOut`, a report to
  `Settle` with the runs it retires, a sweep to `Reclaim`, a pruned or spent
  grace lease to `Lapse`, a reopen to `StartOver`. What makes the mapping sound
  are the invariants above: without `RunningHoldsLease` a report might settle a
  run twice, without `AtMostOneOpenRun` an enqueue might join a working run.
* `GuardSafety`. `SnapshotIsCurrent` is not inductive: a held snapshot might be
  of a revision the row has not reached. The strengthening `SnapshotsBehind`
  says that a snapshot's revision is at most its row's, and equal only if the
  rows are equal. It is preserved because every step leaves a row alone or
  moves its revision up (`NextRowsMove`).
* `CompletedLoopSafety`. `CompletedLoopAtRest` needs the guard's soundness (a
  Run Now or trigger that passes it decided from an open row), plus
  `AllDecided`: a held call's snapshot still satisfies the checks it was
  admitted by. `AgreementSafety` joins all of these for `RowsAgree`.
* `ScheduleSafety` for `ScheduleIsSound`, from `WatermarkSafety`,
  `RevisionSafety` and `OccurrenceSafety`; `ScheduleVersions`. As with runs, every
  step is shown to move a row in one of a few ways: it keeps the schedule, moves
  the watermark forward under one schedule revision, or starts another revision.
  `OccurrenceFiresOnce` needs `DuesPast`: whatever a loop has fired for lies at
  or before its watermark, or before the activation of a schedule that has not
  fired yet, or before the activation that a write planned earlier would give it.
  The last part is why an edit or a reopen that was planned before a firing and
  would activate the schedule anew must lose the guard.
* `TaskFileSafety` for `RunningSeesItsTaskFile`: a retarget that read the row
  before the claim is held to it by the revision guard, because a claim moves the
  revision, and one that reads after it finds the run.
* `PastSafety` for `PastIsKept`, from `GraceSafety`, `FrozenSafety` and
  `CompletionSafety`, which rests on `CredentialForGoal` (as long as the goal
  revision of a credential is the loop's, so is the goal it was claimed for);
  `GenerationSafety`: a reopen leaves no lease of an earlier life behind.

### Scheduler

`SchedulerTypes`, `JobsFollow` for `JobsMatchRows`, `OccurrencesOnTheirWay` for
`NoOccurrenceIsForgotten`. The invariants relate four copies of a schedule that
change at different instants: the row, the commits on their way to a reconcile,
the rows a boot has scanned, and the registry with its jobs.

* `RevisionsSound`: every copy of a row (a commit under way, a scanned row) is an
  older one of it, and agrees with it where the schedule revisions are equal; jobs and
  callbacks derive from it likewise. Without it a late reconcile could install an
  old schedule under a new revision.
* `RegistrySound`, `MemoryIsSound`, `ModeSound`: the highest revision seen is one the
  row has reached, a loop's one job is the registered one, and what may be in
  memory in each phase of the server.
* `Followed`: the newest revision of a row is known and obeyed, or a commit or the
  boot's scan will still bring it. A boot registers scanned rows only where no
  reconcile was faster, so its scan needs a conjunct of its own.
* `AllOnTheirWay`: every instant that a job has answered for was recorded or
  given up on purpose, is with a callback that will choose it or a later one, or
  with a catch-up that has still to look at the loop. The boot's cutoff is the
  point where jobs and catch-up meet, and the step where an off-by-one would show.

### Daemon runtime

`OneRunOnly`, `WorkTracked` and `NothingForgotten` for the three invariants of
the run `daemon`, from `DaemonSound`. Its parts hold only together:

* `WorkSound`: what is queued, executing or owed its report is disjoint, of one
  run where it occupies the daemon, was delivered to this process, and is what
  the snapshot has. Every step is one of five moves of work (`Held`, `Owed`,
  `Delivered`, `Released`, `Emptied`), so the invariants are proved once per
  move and not once per action.
* `ServerSound`: every run that the daemon or a message names was handed out, and
  a run whose report has an answer under way is settled. It makes the release of
  a run safe: `NoRunIsForgotten` would fail if an answer could be read for a run
  the server still waits for.
* `Identified`: of two requests of a kind outstanding no two share an identity,
  so that the answer a poll gets is its own, which advertised slot it had
  included.

`Dispatched` is recursive, and what it returns (new runs, each once) is needed
for any answer. Where induction over data is out of reach, the least
counterexample is not: `LeastNumber` takes it from the well-foundedness of `<`
(`WFMin`, which has no operator parameter), `TableExists` shows that way that the
function exists and `DispatchedNew` what its values are.

### Artifact home

`PublishedSafety` and `ShownSafety` for `PublishedIsSound` and
`ShownStateIsCurrent`, from `ArtifactInvariant` and its corollaries `ArtifactTypes`, `OneSnapshot`,
`RefusalIsFinal`, `FailureIsCurrent`, `SuccessIsCurrent`, `SnapshotsVerified`
and `ExpiryGrows`. No
property is inductive alone: what a handler knows was read some time ago. The
invariant `IInv` adds to each waiting handler what it may still rely on
(`Sound`): what it read bounds the row from below, and is the row itself as
long as the revision is the same. The proof has three layers: every step
moves rows and sessions forward only (`NextForward`), so handlers that wait
stay sound (`SoundForward`) and the one that acts becomes so (`SoundNext`);
every step changes what is stored in one of a few ways (`NextSteps`); and each
of these keeps sessions, manifests and the state on show.

`LogSafety` for `ImplementsLog`: the refinement, step by step. `Opened` maps to
`Open`, a publication to `Publish`, a new configuration to `Reconfigure`, every
other way to a stutter. It needs two more facts. A request that was judged is for
the row until the row moves (`Drafted`), so the insert, which is guarded by the
revision, opens a session for the row of that instant, however long ago the loop
was read. And the base of a loop is the length of its log (`LogSound`), which is
where the numbers of the code and the sequence of the abstraction meet.
`Snapshots` is a recursive function; `SnapshotsAppend` says what one manifest
adds to it, by the argument of the least counterexample that `Dispatched` needs too.

### Daemon artifact sync

`RecordSafety` for `RecordIsKept`, `FinalSafety` for `FinalAnswerIsHonest`,
`CallsSafety` for `CallsEnd`, for any trees, generations and limits, and any number
of calls, losses and late commits. Every step is first shown to be one of a few moves
(`NextMoves`): a call ends and forgets, passes, reads its receipt, learns of a new
generation, lands its commit, or goes on, and then it is nearer to its end
(`Goes`), which is all that `CallsEnd` says. The invariant has these parts.

* `QueueSound`: busy calls are in one order, and a round has nobody before it. So a
  round may rely on being alone (`Alone`), and a queue has a first (`FirstInQueue`).
* `KnownSound`: while the manifest is known no commit is on the wire but that of the
  round under way. This is why every outcome but `unchanged` and `synced` has to
  forget the record: one that kept it could be overtaken by its own late commit.
* `ReceiptSound`: a session with a receipt is the newest manifest, because a landing
  drops what could still land. With it the receipt that is read is worth recording.
* `OwnSound`, `FinalSound`: once the final sync has made its first proposal the session
  is its own until it settles; the deadline that fired, not the outcome, tells a
  timeout.

### Daemon artifact watch

`SubscriptionSafety` for `WatchersFollowTheSet` and `DriverSafety` for
`WorkIsDriven`. Neither is inductive: what a task of an object may still do depends
on the status that other tasks gave the object meanwhile. The invariant says what may
be under way in each status (`IInv`).

* `AdmissionSound`: a live admission is the only one of its generation, has a
  subscription exactly when it waits for ready, and until it subscribes waits for
  every subscription its loop still has. A successor therefore never opens beside its
  predecessor.
* `StatusSound`: no round runs while an object is admitted, no admission waits for
  ready while it is watched, neither when it was refused; and after a changed
  configuration at most one of the two, because a failed report can bring that status
  before ready.
* `AnswerSound`: a refusal that is still to be reported, and a verification that the
  reconcile pass has begun, find the object shut. Otherwise an admission could start
  beside a round of the old one.
* `StopSound`: a stopped machine watches nothing, so that a new set, which clears the
  stop, finds no noted work without a driver.
* `ItemSound`: a current object has an item. A new set could otherwise drop an object
  from the map and leave its subscription open.

Steps that admit nothing are proved once (`FallKept`): objects are parked, refused or
found changed, and tasks end. An answer of the server (`OutcomeKept`) is one, whoever
asked. The steps that admit are proved one by one.

### The parts

Theorems of `Parts`: a step of it is a step of one part or leaves the part's variables
alone, so each inductive invariant speaks of one part only. Those that say most:

* The scan (`ScanSafety` for `ScanIsTrue`), for any tree and any changes between two
  system calls. `WalkInv` rests on stamps, which are given out once: what an attempt has
  not yet seen move is either as it was found or will be seen (`MovesAreSeen`). The part
  that carries the promise of completeness is `NothingIsMissed`: a path that the manifest
  lacks so far had no file at some moment, or has an ancestor that is still to be listed
  or inspected, or the attempt is `Doomed`, that is, dirty or with a directory still to be
  checked that is no longer the same. An entry is pruned with everything beneath it, and
  that is what `Pruned` of the model had to say for the proof to go through.
* The agent (`AgentSafety` for `RunIsHonest`). `GroupInv`: only a member forks into the
  group, so one that was found gone stays gone; hence whatever the outbox held then it
  holds (`RunFacts`), unless a process left the group.
* The upload gate (`GateSafety`). The queue holds each parked caller once, and permits
  are counted as free or held, a handed one included (`GateInv`); `QueueSpliced` is the
  `splice` of an abort in the middle of the queue.
* The data directory (`DirectorySafety`). Inodes are never used again, and the file at the
  path is that of every process that is not through with its own (`Relies`), unless that
  was lost. Where the next step unlinks without looking (`Blind`), it was lost since the
  look (`raced`). Nothing is assumed of the operator.
* The start (`StartupSafety`). `DirectoriesAreKnown`, and `Between`: every binary that a
  probe executed lies between the pinned file and the one that is there, so two equal
  identities leave no room for a third.
* The claim and the sweep (`WorkSafety` for `WorkIsWhole`). A claim counts what it will
  move and moves it in a later transaction: `CountsAreHonest` says that where the count is
  still that of the plan, so are the blobs, because an unclaimed machine only gets more
  rows. Of a pass `Covered` says that a row that was due at its start and still is lies
  on its page, beyond it, or is done; that a page of the least keys leaves no gap is a
  fact about ranks in finite sets of numbers (`RanksCount`, `PageIsLeast`).
* Contact (`ContactSafety` for `ContactIsKept`), an action property. `Explained`: between a
  poll's read and its write the watermark is as it was, or a poll that read not long before
  stamped it. That stamp may be one
  flight behind the read, which is one flight behind the write, so two flights must fit
  into the refresh interval (`2 * MaxFlight < Refresh`). `FlightIsTrue` says of the
  identity that what a poll still misses is not what it read, hence is in its patch.
* The binding (`BindingSafety`). A request that has planned is for the generation it read,
  and once it has locked the loop for the current one (`PlanIsSound`).
* Blobs (`BlobsSafety`). Whatever is at the path or open was linked by a writer past its
  verification; the writers that published since are counted (`Publishers`).
* Reads (`ReadsSafety` for `ReadsAreHonest`). The world grows only (`Grows`: manifests stay,
  a bound run stays bound, generations rise), so an answer once true stays true
  (`AnswersLast`), and each query adds to what the request has read (`ReadSoFar`).
  `DiffIsExact` is the operator's lemma: a difference leads from one tree to the other. The
  response is a small machine of its own (`DownloadInv`): it holds a file only between
  opening and its one release.
* Logins (`LoginSafety` for `SessionIsEarned`). A transaction is in the store, with one
  callback, or with one session, and never with two of them (`CallsAreOwn`,
  `SessionsAreOwn`), while callbacks overlap, the store evicts (`RoomIsMade`), cookies are
  lost and the server restarts.
* The rules (`RulesSafety` for `RulesAreExact`), all six. `SearchSafety`: while the search
  bisects, the latest occurrence lies above `low` and not above `high`, for any set of
  occurrences, even an infinite one. `RootsSafety`: of the common roots with a given
  directory below them one has the least length and is left, so the roots that are left
  allow exactly what both sides do. `PolicySafety`: sizes are sums over a fold; the number
  of the bytes of a wire (`BytesOf`) does not depend on its order. `CaptureSafety`: the
  tail is a suffix of the output and long enough for the cut (`CaptureInv`), through the
  roll of its window; the cuts fall between characters because a character is cut off at
  most by what its first byte still needs. `StateSafety`: the clone walk holds a stack
  of the containers it is inside, and what it has counted of each is the size of the
  entries it has closed, shared parts included (`Judged`); `TextsAreJudged` is the rest.
### Checked by TLC only

Everything under fairness and `ENABLED` (`VanishedRunsAreReclaimed`,
`CallsAreAnswered`, `OccurrencesAreHandled`, `StopCompletes`, `ReportsGetThrough`,
`ChangesAreScanned`, `DrainsEnd`, `PartsEnd`), because TLAPS does not reach it.

## 5. Findings

1. *Task-file pollution through a grace lease* (run `pollution`). A retarget is
   refused while a run is running, and the comments say that the old-snapshot
   race is closed by it. A run that the sweep has reclaimed is not running but
   may still report: its success is accepted on the grace lease and stores the
   content of the old task file for the new one.
2. *The owed report is cut by the abort* (run `daemon_escalation`). After a
   process-control failure the daemon wants to attempt the report before it
   aborts. The fatal error is recorded before the attempt, so the poll loop
   may throw on it and abort the daemon while the report is in flight.

What the models brought up and no run expresses as a violation:

* *A failed migration leaves the database open without its lock.*
  `server/src/db/index.ts` 67-71 opens the client and then migrates; if that throws, the
  handle is lost and `server/src/start.ts` 119-123 and `server/src/claim/legacy.ts` 101-105
  release the lock. The comment there says "The handle never existed"; `data-dir-lock.ts`
  promises that two processes never open the same `pgdata`, and `closeDb` releases "AFTER
  the client closes". Until that process exits, the next one may open the database beside
  it. `OneProcessHasTheData` names the case (`Released`).
* *The release looks and then unlinks.* `server/src/data-dir-lock.ts` 153-158 compares the
  inodes so as not to unlink a file that someone else created again; a removal and a new
  acquisition in between still lose the new lock. `raced` names that instant.
* *An identity that no poll sent* (`server/src/store/machines.ts` 292-328), as said of
  `MachineContact`.
* *Directories with the name of a file rule.* The scan tests each entry's path against the
  never-sync policy and passes a directory that matches over with everything in it
  (`daemon/src/artifact-scan.ts` 463, `Prune`). The policy has rules for directories and
  rules for file names, and a file-name rule looks at the last segment only, so a directory
  that bears the name of a file rule (say, `credentials`) is not synchronised, and neither
  are the ordinary files in it, although each of their paths by itself is allowed
  (`ManifestPolicy`). The proof of `ScanIsTrue` brought it up: `Pruned` has to include what
  lies beneath.

## 6. Not modelled

Formats, schemas, encodings, logging, redaction and layout; the dashboard, owner
and admin views, which present what the modelled operations change; the parsing
of configuration and arguments; the prompt, settings and environment of the
agent; secret scanning; cron expressions and time zones. Of the artifact home:
the deletion of loops and the remapping of a machine to another namespace. Of
machines: listing, claiming and revoking them. Corruption of rows from outside is
not modelled: the code that detects it answers an error and writes nothing. The
code that only tests run (fixtures, harnesses, fakes and compatibility scripts)
is not modelled either.

## 7. Plan

The modules of the plan are written and checked, and every safety property of a run is
proved. What is left:

1. The deletion of loops and the remapping of a machine in `ArtifactHome`; listing and
   revoking machines and the fill of the name in `MachineContact`.
2. The runner's look at its binary before each run (`DaemonStartup` ends with the start).
3. A run of its own for the failed migration, as a violation of the comment it
   contradicts.
