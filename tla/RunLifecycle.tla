----------------------------- MODULE RunLifecycle -----------------------------
(***************************************************************************)
(* The server's run coordination: loops, runs and run leases under every   *)
(* operation that writes them.                                             *)
(*                                                                         *)
(* The database has one connection, so a transaction is one step.  Most    *)
(* operations read the loop row in a step of their own and decide from it  *)
(* (Begin), then write in a transaction guarded by the row's revision; a   *)
(* lost guard is retried once from a fresh read (Retry), a second loss     *)
(* answers 500.  Operations that decide inside their transaction (report,  *)
(* cancel, reclaim, prune, heartbeat) are one step.                        *)
(*                                                                         *)
(* Timestamps are kept as what the code computes from them: a running      *)
(* run's idle time, a grace lease's time left.  Only schedule instants are *)
(* absolute; they stop advancing at MaxTime, the ages never stop.          *)
(***************************************************************************)
EXTENDS LoopRow, FiniteSets

CONSTANTS
  Loop,           \* loops; none is ever deleted
  Handler,        \* slots for management, trigger and claim calls in flight
  Request,        \* the calls clients make
  Body,           \* the final reports daemons send
  Eligible,       \* loops whose machine is claimed and not revoked
  ArtifactGated,  \* loops with an artifactDir on a machine without artifact-sync-v1
  LegacyRun,      \* runs claimed before the server knew terminal protocol 1
  Inactivity,     \* runInactivityMs
  Grace,          \* TERMINAL_GRACE_MS
  MaxTime,        \* bound: the last schedule instant
  MaxRevision     \* bound: no call starts on a row with this revision

ASSUME DurationAssumption == Inactivity \in Nat /\ Grace \in Nat
ASSUME BoundAssumption == MaxTime \in Nat /\ MaxRevision \in Nat
ASSUME LoopAssumption ==
  Eligible \subseteq Loop /\ ArtifactGated \subseteq Loop /\ None \notin Loop
ASSUME LegacyAssumption ==
  LegacyRun \subseteq Run /\ \A r, s \in LegacyRun : r = s

\* Request schemas: the argument a call carries.
ASSUME RequestAssumption ==
  \A q \in Request :
    /\ q.op \in {"runNow", "scheduled", "claim", "goal", "taskFile",
                 "schedule", "reopen"}
    /\ q.op = "scheduled" => q.arg.at \in Nat
    /\ q.op = "claim" => q.arg \in Run
    /\ q.op = "goal" => q.arg \in Goal \cup {None}
    /\ q.op = "taskFile" => q.arg \in Path
    /\ q.op = "schedule" => q.arg \in Patch

VARIABLES
  loop,   \* the loops table
  run,    \* the runs table, with the delivery a claim handed out
  lease,  \* the run_leases table, by run
  call,   \* the calls in flight
  now     \* the schedule clock

vars == <<loop, run, lease, call, now>>

Phase == {"absent", "pending", "running", "done", "error", "canceled"}

\* due is the occurrence a scheduled run was enqueued for.  taskFile, goal and
\* generation are what the run was claimed with.
RunRow == [phase: Phase, loop: Loop \cup {None}, idle: 0..Inactivity,
           due: Nat \cup {None}, taskFile: Path \cup {None},
           goal: Goal \cup {None}, generation: Nat]

Lease == [state: {"none", "active", "grace"}, version: {0, 1},
          canFinish: BOOLEAN, goalRevision: Nat, left: 0..Grace]

NoRun == [phase |-> "absent", loop |-> None, idle |-> 0, due |-> None,
          taskFile |-> None, goal |-> None, generation |-> 0]
NoLease == [state |-> "none", version |-> 0, canFinish |-> FALSE,
            goalRevision |-> 0, left |-> 0]

\* A call in flight is free, has read its row, or lost its guard once.  A
\* schedule write is planned for the instant of the read, not of the write.
Free == [stage |-> "free"]
Held(op, arg, l, attempt) ==
  [stage |-> "held", op |-> op, arg |-> arg, loop |-> l, snap |-> loop[l],
   at |-> IF op \in {"schedule", "reopen"} THEN now ELSE 0,
   attempt |-> attempt]
Retrying(c) ==
  [stage |-> "retry", op |-> c.op, arg |-> c.arg, loop |-> c.loop]

RunsOf(l, phase) == {r \in Run : run[r].phase = phase /\ run[r].loop = l}

CreatedRows ==
  {CreatedRow(goal, cron, path, 0) :
     goal \in Goal \cup {None}, cron \in Cron \cup {None}, path \in Path}

\* A run that was claimed by the server before it was upgraded.
Inherited(l) == [NoRun EXCEPT !.phase = "running", !.loop = l,
                              !.taskFile = loop[l].taskFile]

Init ==
  /\ now = 0
  /\ loop \in [Loop -> CreatedRows]
  /\ \E l \in Loop :
       run = [r \in Run |-> IF r \in LegacyRun THEN Inherited(l) ELSE NoRun]
  /\ lease = [r \in Run |->
       IF r \in LegacyRun THEN [NoLease EXCEPT !.state = "active"] ELSE NoLease]
  /\ call = [h \in Handler |-> Free]

--------------------------------------------------------------------------------
(***************************************************************************)
(* Calls that decide from a row they read before their transaction.        *)
(***************************************************************************)

\* The checks between a call's read of row and its transaction.  A call that
\* fails them answers a refusal and writes nothing; one that re-reads before
\* it refuses (a schedule no-op) is a call that begins later.
Admits(op, arg, l, row) ==
  CASE op = "runNow"    -> l \in Eligible /\ ~row.completed
    [] op = "scheduled" -> l \in Eligible /\ OccurrenceAdmits(row, arg, now)
    [] op = "claim"     -> /\ run[arg].phase = "pending" /\ run[arg].loop = l
                           /\ ~row.completed
                           /\ l \notin ArtifactGated
    [] op = "goal"      -> GoalAdmits(row, arg)
    [] op = "taskFile"  -> row.taskFile # arg
    [] op = "schedule"  -> ScheduleAdmits(row, arg)
    [] op = "reopen"    -> ReopenAdmits(row)

Enqueues(op) == op \in {"runNow", "scheduled"}

\* The coordinator runs the enqueues of one loop one after another.
EnqueueBusy(l) ==
  \E h \in Handler :
    call[h] # Free /\ Enqueues(call[h].op) /\ call[h].loop = l

\* Bounds: a call starts only on a row below MaxRevision, and an enqueue only
\* while a run identifier is left for every enqueue in flight.
WithinBounds(l, op) ==
  /\ loop[l].revision < MaxRevision
  /\ Enqueues(op) =>
       Cardinality({h \in Handler : call[h] # Free /\ Enqueues(call[h].op)})
         < Cardinality({r \in Run : run[r].phase = "absent"})

\* A call reads its row and passes its checks.
Begin(h) ==
  /\ call[h] = Free
  /\ \E l \in Loop, q \in Request :
       /\ WithinBounds(l, q.op)
       /\ Enqueues(q.op) => ~EnqueueBusy(l)
       /\ Admits(q.op, q.arg, l, loop[l])
       /\ call' = [call EXCEPT ![h] = Held(q.op, q.arg, l, 1)]
  /\ UNCHANGED <<loop, run, lease, now>>

\* The one bounded re-run: a fresh read, and the checks again.
Retry(h) ==
  /\ call[h].stage = "retry"
  /\ LET c == call[h] IN
     call' = [call EXCEPT ![h] =
       IF Admits(c.op, c.arg, c.loop, loop[c.loop])
       THEN Held(c.op, c.arg, c.loop, 2)
       ELSE Free]
  /\ UNCHANGED <<loop, run, lease, now>>

Holds(h, op) == call[h].stage = "held" /\ call[h].op = op

\* Mutant: a transaction that writes whatever it planned.
Guard_Dropped(h) == TRUE

\* The revision guard: does the row still have the revision the call read?
Guard(h) == loop[call[h].loop].revision = call[h].snap.revision

Answer(h) == call' = [call EXCEPT ![h] = Free]

\* Mutant: the retry keeps the row it read before.
LoseGuard_SameSnapshot(h) == UNCHANGED vars

\* The guard is lost: the transaction rolls back; one retry, then a 500.
LoseGuard(h) ==
  /\ call' = [call EXCEPT ![h] =
                IF call[h].attempt = 1 THEN Retrying(call[h]) ELSE Free]
  /\ UNCHANGED <<loop, run, lease, now>>

AnswerOnly(h) == Answer(h) /\ UNCHANGED <<loop, run, lease, now>>

WriteLoop(l, row) == loop' = [loop EXCEPT ![l] = Bump(row)]

Canceled(r) == [run[r] EXCEPT !.phase = "canceled", !.idle = 0]

NewRun(l, due) == [NoRun EXCEPT !.phase = "pending", !.loop = l, !.due = due]

\* Insert pending run r and supersede the loop's older pending runs.
InsertRun(r, l, due) ==
  run' = [x \in Run |->
    IF x = r THEN NewRun(l, due)
    ELSE IF x \in RunsOf(l, "pending") THEN Canceled(x) ELSE run[x]]

\* Run Now: a running run, and under "skip" a pending one, is probed before
\* the guard and answers with zero writes.
RunNow(h) ==
  /\ Holds(h, "runNow")
  /\ LET l == call[h].loop
         blocked == \/ RunsOf(l, "running") # {}
                    \/ call[h].arg = "skip" /\ RunsOf(l, "pending") # {}
     IN \/ blocked /\ AnswerOnly(h)
        \/ ~blocked /\ ~Guard(h) /\ LoseGuard(h)
        \/ /\ ~blocked /\ Guard(h)
           /\ \E r \in Run : run[r].phase = "absent" /\ InsertRun(r, l, None)
           /\ WriteLoop(l, loop[l])
           /\ Answer(h)
           /\ UNCHANGED <<lease, now>>

\* A scheduled trigger moves the watermark first; a running run then only
\* prevents the insert.
ScheduledEnqueue(h) ==
  /\ Holds(h, "scheduled")
  /\ LET l == call[h].loop
         at == call[h].arg.at
     IN \/ ~Guard(h) /\ LoseGuard(h)
        \/ /\ Guard(h)
           /\ WriteLoop(l, [loop[l] EXCEPT !.lastScheduledAt = at])
           /\ \/ RunsOf(l, "running") # {} /\ UNCHANGED run
              \/ /\ RunsOf(l, "running") = {}
                 /\ \E r \in Run : run[r].phase = "absent" /\ InsertRun(r, l, at)
           /\ Answer(h)
           /\ UNCHANGED <<lease, now>>

\* The lease a claim mints from the loop row it commits.
MintedLease(row) ==
  [state |-> "active", version |-> 1, canFinish |-> row.goal # None,
   goalRevision |-> row.goalRevision, left |-> 0]

\* The run's row once claimed, with the delivery built from the loop row.
ClaimedRun(r, row) ==
  [run[r] EXCEPT !.phase = "running", !.idle = 0, !.taskFile = row.taskFile,
                 !.goal = row.goal, !.generation = row.generation]

\* Mutant: the claim trusts the candidate it resolved.
StillPending_Assumed(r) == TRUE

\* The claim's own guard: cancel and supersede do not move the revision it read.
StillPending(r) == run[r].phase = "pending"

\* A poll's claim of one pending run: the phase flip, the loop's revision and
\* the lease in one transaction.
Claim(h) ==
  /\ Holds(h, "claim")
  /\ LET l == call[h].loop
         r == call[h].arg
     IN \/ ~StillPending(r) /\ AnswerOnly(h)
        \/ StillPending(r) /\ ~Guard(h) /\ LoseGuard(h)
        \/ /\ StillPending(r) /\ Guard(h)
           /\ run' = [run EXCEPT ![r] = ClaimedRun(r, loop[l])]
           /\ WriteLoop(l, loop[l])
           /\ lease' = [lease EXCEPT ![r] = MintedLease(loop[l])]
           /\ Answer(h)
           /\ UNCHANGED now

\* A loop write with no other effect, guarded by the revision.
GuardedWrite(h, row) ==
  \/ ~Guard(h) /\ LoseGuard(h)
  \/ /\ Guard(h)
     /\ WriteLoop(call[h].loop, row)
     /\ Answer(h)
     /\ UNCHANGED <<run, lease, now>>

\* A call plans its columns from the row it read; past the guard that row is
\* the row it writes (SnapshotIsCurrent).
UpdateGoal(h) ==
  /\ Holds(h, "goal")
  /\ GuardedWrite(h, GoalUpdate(call[h].snap, call[h].arg))

UpdateSchedule(h) ==
  /\ Holds(h, "schedule")
  /\ GuardedWrite(h, ScheduleTransition(call[h].snap, call[h].arg, call[h].at))

\* Mutant: only the revision protects a running run.
RunInProgress_Ignored(l) == FALSE

RunInProgress(l) == RunsOf(l, "running") # {}

\* A retarget is refused while a run of the loop is running.
UpdateTaskFile(h) ==
  /\ Holds(h, "taskFile")
  /\ \/ RunInProgress(call[h].loop) /\ AnswerOnly(h)
     \/ /\ ~RunInProgress(call[h].loop)
        /\ GuardedWrite(h, TaskFileUpdate(loop[call[h].loop], call[h].arg))

\* The leases when every lease of loop l is deleted.
Revoked(l) == [r \in Run |-> IF run[r].loop = l THEN NoLease ELSE lease[r]]

\* Reopen revokes the old generation: open runs are canceled and every lease
\* of the loop is deleted with the row's own write.
ReopenLoop(h) ==
  /\ Holds(h, "reopen")
  /\ LET l == call[h].loop IN
     \/ ~Guard(h) /\ LoseGuard(h)
     \/ /\ Guard(h)
        /\ run' = [r \in Run |->
             IF r \in RunsOf(l, "pending") \cup RunsOf(l, "running")
             THEN Canceled(r) ELSE run[r]]
        /\ lease' = Revoked(l)
        /\ WriteLoop(l, Reopening(call[h].snap, call[h].at))
        /\ Answer(h)
        /\ UNCHANGED now

--------------------------------------------------------------------------------
(***************************************************************************)
(* Operations that decide inside their transaction.                        *)
(***************************************************************************)

\* Only a grace lease dies of time, at its expiry.
LeaseDead(r) == lease[r].state = "grace" /\ lease[r].left = 0

Finalizes(r) == lease[r].state = "active" /\ run[r].phase = "running"
Reconciles(r) == lease[r].state = "grace" /\ run[r].phase = "error"

\* A lease of protocol 0 knows failure and success; its reports never touch
\* the loop.  A protocol 1 success must carry a valid terminal command.
Finishes(r, b) ==
  /\ lease[r].version = 1 /\ b.kind = "finish"
  /\ FinishAdmits(loop[run[r].loop], lease[r])

Succeeds(r, b) ==
  \/ lease[r].version = 0 /\ b.kind # "failure"
  \/ lease[r].version = 1 /\ b.kind = "report"
  \/ Finishes(r, b)

\* What an accepted success writes to the loop: the state and the task-file
\* content the report carries.
Promote(row, r, b) ==
  [row EXCEPT !.state = IF b.state THEN r ELSE @,
              !.taskFileContent = IF b.task THEN run[r].taskFile ELSE @]

\* Mutant: a late plain report still promotes into a completed loop.
LoopAfterReport_LatePromotes(r, b) ==
  LET row == loop[run[r].loop] IN
  IF Finishes(r, b) THEN Bump(Completion(Promote(row, r, b)))
  ELSE IF lease[r].version = 1 /\ b.kind = "report"
       THEN Bump(Promote(row, r, b))
       ELSE row

\* A finish completes the loop, a plain success promotes; a completed loop is
\* frozen, and every other report leaves the loop alone.
LoopAfterReport(r, b) ==
  LET row == loop[run[r].loop] IN
  IF Finishes(r, b) THEN Bump(Completion(Promote(row, r, b)))
  ELSE IF lease[r].version = 1 /\ b.kind = "report" /\ ~row.completed
       THEN Bump(Promote(row, r, b))
       ELSE row

\* The pending runs a finish retires.
RetiredBy(r, b) ==
  {x \in RunsOf(run[r].loop, "pending") \ {r} : Finishes(r, b)}

\* The final report: the run, the loop, the retired pending runs and the lease
\* in one transaction.
Report(r, b) ==
  /\ ~LeaseDead(r)
  /\ Finalizes(r) \/ Reconciles(r)
  /\ run' = [x \in Run |->
       IF x = r
       THEN [run[r] EXCEPT !.phase = IF Succeeds(r, b) THEN "done" ELSE "error",
                           !.idle = 0]
       ELSE IF x \in RetiredBy(r, b) THEN Canceled(x) ELSE run[x]]
  /\ loop' = [loop EXCEPT ![run[r].loop] = LoopAfterReport(r, b)]
  /\ lease' = [lease EXCEPT ![r] = NoLease]
  /\ UNCHANGED <<call, now>>

\* A report whose lease is dead or does not fit its run's phase: 401, and the
\* lease goes.  The resolve before the transaction drops a dead lease alike.
ReportDenied(r) ==
  /\ lease[r].state # "none"
  /\ LeaseDead(r) \/ ~(Finalizes(r) \/ Reconciles(r))
  /\ lease' = [lease EXCEPT ![r] = NoLease]
  /\ UNCHANGED <<loop, run, call, now>>

\* The owner cancels a run: the phase and the lease in one transaction.
CancelRun(r) ==
  /\ run[r].phase \in {"pending", "running"}
  /\ run' = [run EXCEPT ![r] = Canceled(r)]
  /\ lease' = [lease EXCEPT ![r] = NoLease]
  /\ UNCHANGED <<loop, call, now>>

\* Mutant: a run at exactly the limit is never stale.
Reclaimable_Beyond(r) ==
  /\ run[r].phase = "running"
  /\ run[r].idle > Inactivity
  /\ lease[r].state = "active"

\* Still running, silent for the whole limit, with an active lease to flip.
Reclaimable(r) ==
  /\ run[r].phase = "running"
  /\ run[r].idle = Inactivity
  /\ lease[r].state = "active"

\* The sweep reclaims a silent run: its transaction judges it again, and flips
\* the lease to the first and only grace window.
ReclaimStaleRun(r) ==
  /\ Reclaimable(r)
  /\ run' = [run EXCEPT ![r].phase = "error", ![r].idle = 0]
  /\ lease' = [lease EXCEPT ![r].state = "grace", ![r].left = Grace]
  /\ UNCHANGED <<loop, call, now>>

\* The sweep deletes a grace lease whose window has closed.
PruneGraceLease(r) ==
  /\ LeaseDead(r)
  /\ lease' = [lease EXCEPT ![r] = NoLease]
  /\ UNCHANGED <<loop, run, call, now>>

\* A poll-carried heartbeat refreshes a running run's activity.
ApplyRunProgress(r) ==
  /\ run[r].phase = "running"
  /\ run' = [run EXCEPT ![r].idle = 0]
  /\ UNCHANGED <<loop, lease, call, now>>

\* Time passes; a run's age counts from its last transition or heartbeat.
Tick ==
  /\ now' = IF now < MaxTime THEN now + 1 ELSE now
  /\ run' = [r \in Run |->
       IF run[r].phase \in {"running", "error"} /\ run[r].idle < Inactivity
       THEN [run[r] EXCEPT !.idle = @ + 1] ELSE run[r]]
  /\ lease' = [r \in Run |->
       IF lease[r].left > 0 THEN [lease[r] EXCEPT !.left = @ - 1] ELSE lease[r]]
  /\ UNCHANGED <<loop, call>>

\* The server stops between two steps: calls in flight are lost, rows stay.
Restart ==
  /\ call' = [h \in Handler |-> Free]
  /\ UNCHANGED <<loop, run, lease, now>>

--------------------------------------------------------------------------------

CallStep(h) ==
  \/ Retry(h) \/ RunNow(h) \/ ScheduledEnqueue(h) \/ Claim(h)
  \/ UpdateGoal(h) \/ UpdateSchedule(h) \/ UpdateTaskFile(h) \/ ReopenLoop(h)

Next ==
  \/ \E h \in Handler : Begin(h) \/ CallStep(h)
  \/ \E r \in Run, b \in Body : Report(r, b)
  \/ \E r \in Run : \/ ReportDenied(r) \/ CancelRun(r) \/ ReclaimStaleRun(r)
                    \/ PruneGraceLease(r) \/ ApplyRunProgress(r)
  \/ Tick
  \/ Restart

Spec == Init /\ [][Next]_vars

\* The event loop runs every ready continuation, time passes, and the sweep's
\* timer fires for ever.  Daemons and owners owe nothing.
Fairness ==
  /\ WF_vars(Tick)
  /\ \A h \in Handler : WF_vars(CallStep(h))
  /\ \A r \in Run : WF_vars(ReclaimStaleRun(r)) /\ WF_vars(PruneGraceLease(r))

FairSpec == Spec /\ Fairness

--------------------------------------------------------------------------------
(***************************************************************************)
(* Properties.                                                             *)
(***************************************************************************)

\* A held call is well formed.
CallTypeOK(c) ==
  \/ c = Free
  \/ /\ c.stage \in {"held", "retry"}
     /\ c.op \in {"runNow", "scheduled", "claim", "goal", "taskFile",
                   "schedule", "reopen"}
     /\ c.loop \in Loop
     /\ c.op = "scheduled" => c.arg.at \in Nat
     /\ c.op = "claim" => c.arg \in Run
     /\ c.op = "goal" => c.arg \in Goal \cup {None}
     /\ c.op = "taskFile" => c.arg \in Path
     /\ c.op = "schedule" => c.arg \in Patch
     /\ c.stage = "held" =>
          c.snap \in Row /\ c.at \in Nat /\ c.attempt \in {1, 2}

\* Every variable has its type.
TypeOK ==
  /\ loop \in [Loop -> Row]
  /\ run \in [Run -> RunRow]
  /\ \A r \in Run : run[r].phase # "absent" => run[r].loop \in Loop
  /\ lease \in [Run -> Lease]
  /\ DOMAIN call = Handler /\ \A h \in Handler : CallTypeOK(call[h])
  /\ now \in 0..MaxTime

Open(r) == run[r].phase \in {"pending", "running"}

\* A loop never has two open runs, whatever triggers, polls, cancels, sweeps
\* and reopens interleave (the supersede rule of enqueueExecRunTx).
AtMostOneOpenRun ==
  \A r, s \in Run :
    Open(r) /\ Open(s) /\ run[r].loop = run[s].loop => r = s

\* A run is running exactly while its lease is active, so every running run can
\* report, be canceled or be reclaimed; a grace lease belongs to a failed run.
RunningHoldsLease ==
  \A r \in Run :
    /\ run[r].phase = "running" <=> lease[r].state = "active"
    /\ lease[r].state = "grace" => run[r].phase = "error"

\* A completed loop is at rest: nothing pending, disabled, unarmed, with a goal.
\* A trigger, claim or patch that read the row before the finish does not
\* undo it.
CompletedLoopAtRest ==
  \A l \in Loop : loop[l].completed =>
    /\ RunsOf(l, "pending") = {}
    /\ ~loop[l].enabled
    /\ loop[l].goal # None
    /\ loop[l].scheduleActivatedAt = None

\* The revision guard is sound: a call that passes it has seen the whole row as
\* it is, because every write of a row moves its revision.
SnapshotIsCurrent ==
  \A h \in Handler :
    call[h].stage = "held" /\ Guard(h) => call[h].snap = loop[call[h].loop]

\* A schedule is armed exactly while it is active, and its watermark lies
\* after the activation and not in the future.
WatermarkInWindow ==
  \A l \in Loop :
    /\ ActiveSchedule(loop[l]) <=> loop[l].scheduleActivatedAt # None
    /\ loop[l].lastScheduledAt # None =>
         /\ loop[l].scheduleActivatedAt # None
         /\ loop[l].lastScheduledAt > loop[l].scheduleActivatedAt
         /\ loop[l].lastScheduledAt <= now

\* No instant fires a loop twice: not through duplicate or late triggers, nor
\* across pauses, schedule edits, completions and reopens.
OccurrenceFiresOnce ==
  \A r, s \in Run :
    run[r].due # None /\ run[r].due = run[s].due /\ run[r].loop = run[s].loop
      => r = s

\* While a run executes, its loop's task file is the one it was handed.
RunningSeesItsTaskFile ==
  \A r \in Run : run[r].phase = "running" =>
    run[r].taskFile = loop[run[r].loop].taskFile

\* No credential survives a Reopen: a lease belongs to a run that was claimed
\* in the loop's current generation.
LeaseOfThisGeneration ==
  \A r \in Run : lease[r].state # "none" =>
    run[r].generation = loop[run[r].loop].generation

\* The stored task-file content was read from the loop's current task file.
TaskFileContentMatchesTarget ==
  \A l \in Loop : loop[l].taskFileContent \in {None, loop[l].taskFile}

\* The phases a run may take next.  A failure is final unless it was reclaimed
\* and its grace lease is still there; done and canceled are final.
MayBecome(r) ==
  CASE run[r].phase = "absent"  -> {"absent", "pending"}
    [] run[r].phase = "pending" -> {"pending", "running", "canceled"}
    [] run[r].phase = "running" -> {"running", "done", "error", "canceled"}
    [] run[r].phase = "error"   -> IF lease[r].state = "grace"
                                   THEN {"error", "done"} ELSE {"error"}
    [] OTHER -> {run[r].phase}

\* Outcomes are stable: no interleaving of late reports, cancels and sweeps
\* revises a settled run, except the one report a reclaimed run may still send.
OutcomesAreStable ==
  [][\A r \in Run : run'[r].phase \in MayBecome(r)]_vars

\* A run is handed out once and reports once: when its credential is gone it
\* never comes back.
CredentialsAreSpentOnce ==
  [][\A r \in Run :
       lease[r].state = "none" /\ run[r].phase \notin {"absent", "pending"}
         => lease'[r].state = "none"]_vars

\* The grace window a reclaim opens is never extended or opened again.
GraceWindowNeverGrows ==
  [][\A r \in Run : lease[r].state = "grace" =>
       lease'[r].state # "active" /\ lease'[r].left <= lease[r].left]_vars

\* From completion to Reopen nothing is promoted into the loop: late reports,
\* goal updates and schedule edits leave its state, goal and snapshot alone.
CompletedLoopIsFrozen ==
  [][\A l \in Loop : loop[l].completed /\ loop'[l].completed =>
       /\ loop'[l].state = loop[l].state
       /\ loop'[l].goal = loop[l].goal
       /\ loop'[l].taskFileContent \in {loop[l].taskFileContent, None}]_vars

\* A loop completes only through a run of its own that was claimed for the
\* goal it still has.
CompletesForTheClaimedGoal ==
  [][\A l \in Loop : ~loop[l].completed /\ loop'[l].completed =>
       \E r \in Run :
         /\ run[r].loop = l /\ run[r].goal = loop[l].goal
         /\ run'[r].phase = "done"
         /\ lease[r].state # "none" /\ lease'[r].state = "none"]_vars

\* Under one schedule revision the schedule does not change and the watermark
\* only moves forward; schedule revisions never go back.
ScheduleIsVersioned ==
  [][\A l \in Loop :
       LET old == loop[l]  new == loop'[l] IN
       /\ new.scheduleRevision >= old.scheduleRevision
       /\ new.scheduleRevision = old.scheduleRevision =>
            /\ ActiveSchedule(new) = ActiveSchedule(old)
            /\ new.cron = old.cron
            /\ old.lastScheduledAt # None =>
                 /\ new.lastScheduledAt # None
                 /\ new.lastScheduledAt >= old.lastScheduledAt]_vars

\* No revision ever passes the int32 ceiling, however many edits, completions
\* and reopens are planned at the last admissible one.
RevisionsFitInt32 ==
  \A l \in Loop : /\ loop[l].scheduleRevision <= RevisionMax
                  /\ loop[l].goalRevision <= RevisionMax

\* What the rows of a loop, its runs, their leases and the calls that hold a row
\* say of each other agrees in every state: one open run, a lease to report with
\* while it runs, rest after completion, and a revision guard that can be trusted.
RowsAgree ==
  /\ TypeOK
  /\ AtMostOneOpenRun
  /\ RunningHoldsLease
  /\ CompletedLoopAtRest
  /\ SnapshotIsCurrent

\* A settled run keeps its outcome, and its credential does not come back, but
\* for the one late report of a reclaimed run.
SettledRunsRest == OutcomesAreStable /\ CredentialsAreSpentOnce

\* What is over has no say in what follows: no lease outlives a Reopen, no grace
\* window grows, nothing is promoted into a completed loop, and a loop completes
\* only for the goal its run was claimed for.
PastIsKept ==
  /\ [][LeaseOfThisGeneration']_vars
  /\ GraceWindowNeverGrows
  /\ CompletedLoopIsFrozen
  /\ CompletesForTheClaimedGoal

\* No instant fires twice, for the watermark stays in the window of the schedule
\* in force and the revision that tells schedules apart never overflows.
ScheduleIsSound ==
  /\ OccurrenceFiresOnce
  /\ WatermarkInWindow
  /\ RevisionsFitInt32

Heartbeat == \E r \in Run : run[r].phase = "running" /\ run'[r].phase = "running"
                            /\ run'[r].idle < run[r].idle

\* Once heartbeats have stopped, no run stays running and no credential of it
\* stays: the sweep takes the run, and prunes the grace lease, if nothing else
\* does.
VanishedRunsAreReclaimed ==
  <>[][~Heartbeat]_vars =>
    \A r \in Run : (run[r].phase = "running") ~> (lease[r].state = "none")

\* A call always ends: the bounded retry cannot spin.
CallsAreAnswered ==
  \A h \in Handler : (call[h] # Free) ~> (call[h] = Free)

--------------------------------------------------------------------------------
(***************************************************************************)
(* The contract this module implements.                                    *)
(***************************************************************************)

\* The status of a run, seen through its phase and its lease.
StatusOf(r) ==
  CASE run[r].phase = "pending" -> "waiting"
    [] run[r].phase = "running" -> "working"
    [] run[r].phase = "done"    -> "succeeded"
    [] run[r].phase = "error"   -> IF lease[r].state = "grace"
                                   THEN "reclaimed" ELSE "failed"
    [] OTHER -> run[r].phase

Contract == INSTANCE RunContract
              WITH status <- [r \in Run |-> StatusOf(r)],
                   owner  <- [r \in Run |-> run[r].loop]

\* Every step of the server is a step of the contract or changes nothing the
\* contract speaks of: transactions, retries, restarts and the sweep's grace
\* leases together hand out each run once, settle it once and keep one run
\* open per loop.
ImplementsContract == Contract!Spec

================================================================================
