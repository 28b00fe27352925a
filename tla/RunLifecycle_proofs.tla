------------------------- MODULE RunLifecycle_proofs -------------------------
(***************************************************************************)
(* Theorems about RunLifecycle, for every set of loops, runs, handlers,    *)
(* requests and reports and every bound.  First of the runs: types, leases *)
(* and phases agree, a loop has one open run at most, outcomes are stable, *)
(* and the whole implements RunContract.  Then of what is kept of the      *)
(* past: no instant fires a loop twice, a run executes on the task file it *)
(* was handed, no credential survives a Reopen, a completed loop is        *)
(* frozen, and a loop completes only for the goal its run was claimed for. *)
(***************************************************************************)
EXTENDS RunLifecycle, TLAPS

\* The kernels of LoopRow map rows to rows.
LEMMA CreatedRowType ==
  ASSUME NEW goal \in Goal \cup {None}, NEW cron \in Cron \cup {None},
         NEW path \in Path, NEW t \in Nat
  PROVE  CreatedRow(goal, cron, path, t) \in Row
BY DEF CreatedRow, Row

LEMMA BumpType == ASSUME NEW row \in Row PROVE Bump(row) \in Row
BY DEF Bump, Row

LEMMA GoalUpdateType ==
  ASSUME NEW row \in Row, NEW goal \in Goal \cup {None}
  PROVE  GoalUpdate(row, goal) \in Row
<1>1. row.goalRevision + 1 \in Nat BY DEF Row
<1>2. QED BY <1>1 DEF GoalUpdate, Row

LEMMA TaskFileUpdateType ==
  ASSUME NEW row \in Row, NEW path \in Path
  PROVE  TaskFileUpdate(row, path) \in Row
BY DEF TaskFileUpdate, Row

LEMMA ScheduleTransitionType ==
  ASSUME NEW row \in Row, NEW patch \in Patch, NEW t \in Nat
  PROVE  ScheduleTransition(row, patch, t) \in Row
<1>1. Patched(row.cron, patch.cron) \in Cron \cup {None}
  BY DEF Row, Patch, Patched
<1>2. Patched(row.enabled, patch.enabled) \in BOOLEAN
  BY DEF Row, Patch, Patched
<1>3. row.scheduleRevision + 1 \in Nat BY DEF Row
<1>4. QED BY ZenonT(60), <1>1, <1>2, <1>3 DEF ScheduleTransition, Row

LEMMA WatermarkType ==
  ASSUME NEW row \in Row, NEW at \in Nat
  PROVE  [row EXCEPT !.lastScheduledAt = at] \in Row
BY DEF Row

LEMMA CompletionType == ASSUME NEW row \in Row PROVE Completion(row) \in Row
<1>1. row.scheduleRevision + 1 \in Nat BY DEF Row
<1>2. QED BY <1>1 DEF Completion, Row

LEMMA ClearedRowType ==
  ASSUME NEW row \in Row
  PROVE  [row EXCEPT !.completed = FALSE, !.generation = @ + 1] \in Row
<1>1. row.generation + 1 \in Nat BY DEF Row
<1>2. QED BY <1>1 DEF Row

LEMMA ReopeningType ==
  ASSUME NEW row \in Row, NEW t \in Nat PROVE Reopening(row, t) \in Row
<1>1. [cron |-> Keep, enabled |-> TRUE] \in Patch
  BY DEF Patch
<1>2. ScheduleTransition(row, [cron |-> Keep, enabled |-> TRUE], t) \in Row
  BY <1>1, ScheduleTransitionType
<1>3. QED BY <1>2, ClearedRowType DEF Reopening

--------------------------------------------------------------------------------
\* Type correctness, one variable at a time.

LoopsOK == loop \in [Loop -> Row]
RunsOK == /\ run \in [Run -> RunRow]
          /\ \A r \in Run : run[r].phase # "absent" => run[r].loop \in Loop
LeasesOK == lease \in [Run -> Lease]
CallsOK == DOMAIN call = Handler /\ \A h \in Handler : CallTypeOK(call[h])
TimeOK == now \in 0..MaxTime

LEMMA TypeParts == TypeOK <=> LoopsOK /\ RunsOK /\ LeasesOK /\ CallsOK /\ TimeOK
BY DEF TypeOK, LoopsOK, RunsOK, LeasesOK, CallsOK, TimeOK

LEMMA TimeIsNat == ASSUME TimeOK PROVE now \in Nat
BY BoundAssumption DEF TimeOK

LEMMA ZeroAge == 0 \in 0..Inactivity /\ 0 \in 0..Grace
BY DurationAssumption

LEMMA NoRunType == NoRun \in RunRow
BY DurationAssumption DEF NoRun, RunRow, Phase

LEMMA NoLeaseType == NoLease \in Lease
BY DurationAssumption DEF NoLease, Lease

LEMMA NewRunType ==
  ASSUME NEW l \in Loop, NEW due \in Nat \cup {None}
  PROVE  NewRun(l, due) \in RunRow /\ NewRun(l, due).loop = l
BY ZeroAge DEF NewRun, NoRun, RunRow, Phase

LEMMA CanceledType ==
  ASSUME RunsOK, NEW r \in Run
  PROVE  Canceled(r) \in RunRow /\ Canceled(r).loop = run[r].loop
BY ZeroAge DEF Canceled, RunsOK, RunRow, Phase

LEMMA ClaimedRunType ==
  ASSUME RunsOK, NEW r \in Run, NEW row \in Row
  PROVE  ClaimedRun(r, row) \in RunRow /\ ClaimedRun(r, row).loop = run[r].loop
<1>1. row.taskFile \in Path /\ row.goal \in Goal \cup {None} /\ row.generation \in Nat
  BY DEF Row
<1>2. run[r] \in RunRow
  BY DEF RunsOK
<1>3. QED BY <1>1, <1>2, ZeroAge DEF ClaimedRun, RunRow, Phase

LEMMA MintedLeaseType == ASSUME NEW row \in Row PROVE MintedLease(row) \in Lease
BY DurationAssumption DEF MintedLease, Lease, Row

LEMMA WriteLoopType ==
  ASSUME LoopsOK, NEW l \in Loop, NEW row \in Row, WriteLoop(l, row)
  PROVE  LoopsOK'
BY BumpType DEF WriteLoop, LoopsOK

LEMMA AnswerType ==
  ASSUME CallsOK, NEW h \in Handler, Answer(h)
  PROVE  CallsOK'
BY DEF Answer, CallsOK, CallTypeOK, Free

LEMMA InsertRunType ==
  ASSUME RunsOK, NEW r \in Run, NEW l \in Loop, NEW due \in Nat \cup {None},
         InsertRun(r, l, due)
  PROVE  RunsOK'
<1>1. \A x \in Run : /\ run'[x] \in RunRow
                     /\ run'[x].phase # "absent" => run'[x].loop \in Loop
  <2> TAKE x \in Run
  <2>1. CASE x = r
    BY <2>1, NewRunType DEF InsertRun
  <2>2. CASE x # r /\ x \in RunsOf(l, "pending")
    BY <2>2, CanceledType DEF InsertRun, RunsOf
  <2>3. CASE x # r /\ x \notin RunsOf(l, "pending")
    BY <2>3 DEF InsertRun, RunsOK
  <2>4. QED BY <2>1, <2>2, <2>3
<1>2. run' = [x \in Run |-> run'[x]]
  BY DEF InsertRun
<1>3. QED BY <1>1, <1>2 DEF RunsOK

\* A call in the held stage, seen through its type.
LEMMA HeldType ==
  ASSUME CallsOK, NEW h \in Handler, call[h].stage = "held"
  PROVE  /\ call[h].loop \in Loop
         /\ call[h].snap \in Row
         /\ call[h].at \in Nat
         /\ call[h].attempt \in {1, 2}
         /\ call[h].op = "scheduled" => call[h].arg.at \in Nat
         /\ call[h].op = "claim" => call[h].arg \in Run
         /\ call[h].op = "goal" => call[h].arg \in Goal \cup {None}
         /\ call[h].op = "taskFile" => call[h].arg \in Path
         /\ call[h].op = "schedule" => call[h].arg \in Patch
BY DEF CallsOK, CallTypeOK, Free

LEMMA LoseGuardType ==
  ASSUME TypeOK, NEW h \in Handler, call[h].stage = "held", LoseGuard(h)
  PROVE  TypeOK'
<1> USE TypeParts
<1>1. CallTypeOK(Retrying(call[h]))
  BY DEF CallsOK, CallTypeOK, Retrying, Free
<1>2. CallTypeOK(Free)
  BY DEF CallTypeOK
<1>3. CallsOK'
  BY <1>1, <1>2 DEF LoseGuard, CallsOK
<1>4. QED
  BY <1>3 DEF LoseGuard, LoopsOK, RunsOK, LeasesOK, TimeOK, TypeOK, CallsOK

LEMMA AnswerOnlyType ==
  ASSUME TypeOK, NEW h \in Handler, AnswerOnly(h)
  PROVE  TypeOK'
<1>1. CallsOK'
  BY TypeParts, AnswerType DEF AnswerOnly
<1>2. QED
  BY <1>1 DEF AnswerOnly, TypeOK, CallsOK

LEMMA GuardedWriteType ==
  ASSUME TypeOK, NEW h \in Handler, call[h].stage = "held",
         NEW row \in Row, GuardedWrite(h, row)
  PROVE  TypeOK'
<1>1. CASE LoseGuard(h)
  BY <1>1, LoseGuardType
<1>2. CASE /\ WriteLoop(call[h].loop, row)
           /\ Answer(h)
           /\ UNCHANGED <<run, lease, now>>
  <2>1. LoopsOK'
    BY <1>2, TypeParts, HeldType, WriteLoopType
  <2>2. CallsOK'
    BY <1>2, TypeParts, AnswerType
  <2>3. QED BY <1>2, <2>1, <2>2 DEF TypeOK, LoopsOK, CallsOK
<1>3. QED BY <1>1, <1>2 DEF GuardedWrite

LEMMA InitTypeOK == Init => TypeOK
<1> SUFFICES ASSUME Init PROVE TypeOK
  OBVIOUS
<1>1. LoopsOK
  <2>1. CreatedRows \subseteq Row
    <3>1. \A goal \in Goal \cup {None}, cron \in Cron \cup {None}, path \in Path :
            CreatedRow(goal, cron, path, 0) \in Row
      BY CreatedRowType
    <3>2. QED BY <3>1 DEF CreatedRows
  <2>2. QED BY <2>1 DEF Init, LoopsOK
<1>2. RunsOK
  <2>1. PICK l \in Loop :
          run = [r \in Run |-> IF r \in LegacyRun THEN Inherited(l) ELSE NoRun]
    BY DEF Init
  <2>2. loop[l].taskFile \in Path
    BY <1>1 DEF LoopsOK, Row
  <2>3. Inherited(l) \in RunRow /\ Inherited(l).loop = l
    BY <2>2, NoRunType DEF Inherited, NoRun, RunRow, Phase
  <2>4. \A r \in Run : run[r] \in RunRow /\
                       (run[r].phase # "absent" => run[r].loop \in Loop)
    BY <2>1, <2>3, NoRunType DEF NoRun
  <2>5. QED BY <2>1, <2>4 DEF RunsOK
<1>3. LeasesOK
  <2>1. [NoLease EXCEPT !.state = "active"] \in Lease
    BY NoLeaseType DEF NoLease, Lease
  <2>2. QED BY <2>1, NoLeaseType DEF Init, LeasesOK
<1>4. CallsOK
  BY DEF Init, CallsOK, CallTypeOK
<1>5. TimeOK
  BY BoundAssumption DEF Init, TimeOK
<1>6. QED BY <1>1, <1>2, <1>3, <1>4, <1>5, TypeParts

LEMMA BeginTypeOK ==
  ASSUME TypeOK, NEW h \in Handler, Begin(h)
  PROVE  TypeOK'
<1> USE TypeParts
<1>1. PICK l \in Loop, q \in Request :
        call' = [call EXCEPT ![h] = Held(q.op, q.arg, l, 1)]
  BY DEF Begin
<1>2. CallTypeOK(Held(q.op, q.arg, l, 1))
  BY RequestAssumption, TimeIsNat DEF Held, CallTypeOK, LoopsOK
<1>3. CallsOK'
  BY <1>1, <1>2 DEF CallsOK
<1>4. QED BY <1>3 DEF Begin, TypeOK, CallsOK

LEMMA RetryTypeOK ==
  ASSUME TypeOK, NEW h \in Handler, Retry(h)
  PROVE  TypeOK'
<1> USE TypeParts
<1> DEFINE c == call[h]
<1>1. CallTypeOK(Held(c.op, c.arg, c.loop, 2))
  BY TimeIsNat DEF Retry, CallsOK, CallTypeOK, Held, Free, LoopsOK
<1>2. CallTypeOK(Free)
  BY DEF CallTypeOK
<1>3. CallsOK'
  BY <1>1, <1>2 DEF Retry, CallsOK
<1>4. QED BY <1>3 DEF Retry, TypeOK, CallsOK

LEMMA RunNowTypeOK ==
  ASSUME TypeOK, NEW h \in Handler, RunNow(h)
  PROVE  TypeOK'
<1> USE TypeParts
<1> DEFINE l == call[h].loop
<1>0. call[h].stage = "held" /\ l \in Loop
  BY HeldType DEF RunNow, Holds
<1>1. CASE AnswerOnly(h)
  BY <1>1, AnswerOnlyType
<1>2. CASE LoseGuard(h)
  BY <1>0, <1>2, LoseGuardType
<1>3. CASE /\ \E r \in Run : InsertRun(r, l, None)
           /\ WriteLoop(l, loop[l]) /\ Answer(h) /\ UNCHANGED <<lease, now>>
  <2>1. LoopsOK'
    BY <1>0, <1>3, WriteLoopType DEF LoopsOK
  <2>2. RunsOK'
    BY <1>0, <1>3, InsertRunType
  <2>3. CallsOK'
    BY <1>3, AnswerType
  <2>4. QED BY <1>3, <2>1, <2>2, <2>3
       DEF TypeOK, LoopsOK, RunsOK, LeasesOK, CallsOK, TimeOK
<1>4. QED BY <1>1, <1>2, <1>3 DEF RunNow

LEMMA ScheduledEnqueueTypeOK ==
  ASSUME TypeOK, NEW h \in Handler, ScheduledEnqueue(h)
  PROVE  TypeOK'
<1> USE TypeParts
<1> DEFINE l == call[h].loop  at == call[h].arg.at
<1>0. call[h].stage = "held" /\ l \in Loop /\ at \in Nat
  BY HeldType DEF ScheduledEnqueue, Holds
<1>1. CASE LoseGuard(h)
  BY <1>0, <1>1, LoseGuardType
<1>2. CASE /\ WriteLoop(l, [loop[l] EXCEPT !.lastScheduledAt = at])
           /\ \/ UNCHANGED run
              \/ \E r \in Run : InsertRun(r, l, at)
           /\ Answer(h) /\ UNCHANGED <<lease, now>>
  <2>1. [loop[l] EXCEPT !.lastScheduledAt = at] \in Row
    BY <1>0, WatermarkType DEF LoopsOK
  <2>2. LoopsOK'
    BY <1>0, <1>2, <2>1, WriteLoopType
  <2>3. RunsOK'
    BY <1>0, <1>2, InsertRunType DEF RunsOK
  <2>4. CallsOK'
    BY <1>2, AnswerType
  <2>5. QED BY <1>2, <2>2, <2>3, <2>4
       DEF TypeOK, LoopsOK, RunsOK, LeasesOK, CallsOK, TimeOK
<1>3. QED BY <1>1, <1>2 DEF ScheduledEnqueue

LEMMA ClaimTypeOK ==
  ASSUME TypeOK, NEW h \in Handler, Claim(h)
  PROVE  TypeOK'
<1> USE TypeParts
<1> DEFINE l == call[h].loop  r == call[h].arg
<1>0. call[h].stage = "held" /\ l \in Loop /\ r \in Run
  BY HeldType DEF Claim, Holds
<1>1. CASE AnswerOnly(h)
  BY <1>1, AnswerOnlyType
<1>2. CASE LoseGuard(h)
  BY <1>0, <1>2, LoseGuardType
<1>3. CASE /\ StillPending(r)
           /\ run' = [run EXCEPT ![r] = ClaimedRun(r, loop[l])]
           /\ WriteLoop(l, loop[l])
           /\ lease' = [lease EXCEPT ![r] = MintedLease(loop[l])]
           /\ Answer(h) /\ UNCHANGED now
  <2>1. LoopsOK'
    BY <1>0, <1>3, WriteLoopType DEF LoopsOK
  <2>2. ClaimedRun(r, loop[l]) \in RunRow /\ ClaimedRun(r, loop[l]).loop \in Loop
    BY <1>0, <1>3, ClaimedRunType DEF RunsOK, LoopsOK, StillPending
  <2>3. RunsOK'
    BY <1>3, <2>2 DEF RunsOK
  <2>4. LeasesOK'
    BY <1>0, <1>3, MintedLeaseType DEF LeasesOK, LoopsOK
  <2>5. CallsOK'
    BY <1>3, AnswerType
  <2>6. QED BY <1>3, <2>1, <2>3, <2>4, <2>5
       DEF TypeOK, LoopsOK, RunsOK, LeasesOK, CallsOK, TimeOK
<1>4. QED BY <1>1, <1>2, <1>3 DEF Claim

LEMMA ReopenLoopTypeOK ==
  ASSUME TypeOK, NEW h \in Handler, ReopenLoop(h)
  PROVE  TypeOK'
<1> USE TypeParts
<1> DEFINE l == call[h].loop
<1>0. call[h].stage = "held" /\ l \in Loop /\ call[h].snap \in Row
  BY HeldType DEF ReopenLoop, Holds
<1>1. CASE LoseGuard(h)
  BY <1>0, <1>1, LoseGuardType
<1>2. CASE /\ run' = [r \in Run |->
                IF r \in RunsOf(l, "pending") \cup RunsOf(l, "running")
                THEN Canceled(r) ELSE run[r]]
           /\ lease' = Revoked(l)
           /\ WriteLoop(l, Reopening(call[h].snap, call[h].at))
           /\ Answer(h) /\ UNCHANGED now
  <2>1. Reopening(call[h].snap, call[h].at) \in Row
    BY <1>0, ReopeningType, HeldType
  <2>2. LoopsOK'
    BY <1>0, <1>2, <2>1, WriteLoopType
  <2>3. \A r \in Run : run'[r] \in RunRow /\ run'[r].loop = run[r].loop
                       /\ (run'[r].phase = "absent" => run[r].phase = "absent")
    BY <1>2, CanceledType DEF RunsOK, Canceled, RunRow
  <2>4. RunsOK'
    BY <1>2, <2>3 DEF RunsOK, RunsOf
  <2>5. LeasesOK'
    BY <1>2, NoLeaseType DEF LeasesOK, Revoked
  <2>6. CallsOK'
    BY <1>2, AnswerType
  <2>7. QED BY <1>2, <2>2, <2>4, <2>5, <2>6
       DEF TypeOK, LoopsOK, RunsOK, LeasesOK, CallsOK, TimeOK
<1>3. QED BY <1>1, <1>2 DEF ReopenLoop

LEMMA UpdateGoalTypeOK ==
  ASSUME TypeOK, NEW h \in Handler, UpdateGoal(h)
  PROVE  TypeOK'
<1>1. GoalUpdate(call[h].snap, call[h].arg) \in Row
  BY TypeParts, HeldType, GoalUpdateType DEF UpdateGoal, Holds
<1>2. QED BY <1>1, GuardedWriteType DEF UpdateGoal, Holds

LEMMA UpdateScheduleTypeOK ==
  ASSUME TypeOK, NEW h \in Handler, UpdateSchedule(h)
  PROVE  TypeOK'
<1>1. ScheduleTransition(call[h].snap, call[h].arg, call[h].at) \in Row
  BY TypeParts, HeldType, ScheduleTransitionType
     DEF UpdateSchedule, Holds
<1>2. QED BY <1>1, GuardedWriteType DEF UpdateSchedule, Holds

LEMMA UpdateTaskFileTypeOK ==
  ASSUME TypeOK, NEW h \in Handler, UpdateTaskFile(h)
  PROVE  TypeOK'
<1>1. call[h].loop \in Loop /\ call[h].arg \in Path
  BY TypeParts, HeldType DEF UpdateTaskFile, Holds
<1>2. TaskFileUpdate(loop[call[h].loop], call[h].arg) \in Row
  BY <1>1, TypeParts, TaskFileUpdateType DEF LoopsOK
<1>3. QED
  BY <1>2, GuardedWriteType, AnswerOnlyType DEF UpdateTaskFile, Holds

LEMMA PromoteType ==
  ASSUME RunsOK, NEW row \in Row, NEW r \in Run, NEW b,
         run[r].taskFile \in Path \cup {None}
  PROVE  Promote(row, r, b) \in Row
BY ZenonT(60) DEF Promote, Row

LEMMA LoopAfterReportType ==
  ASSUME TypeOK, NEW r \in Run, NEW b, run[r].loop \in Loop
  PROVE  LoopAfterReport(r, b) \in Row
<1> DEFINE row == loop[run[r].loop]
<1>1. row \in Row
  BY TypeParts DEF LoopsOK
<1>2. Promote(row, r, b) \in Row
  BY <1>1, TypeParts, PromoteType DEF RunsOK, RunRow
<1>3. Bump(Promote(row, r, b)) \in Row
  BY <1>2, BumpType
<1>4. Bump(Completion(Promote(row, r, b))) \in Row
  BY <1>2, CompletionType, BumpType
<1>5. QED BY <1>1, <1>3, <1>4 DEF LoopAfterReport

LEMMA ReportTypeOK ==
  ASSUME TypeOK, NEW r \in Run, NEW b, Report(r, b)
  PROVE  TypeOK'
<1> USE TypeParts
<1>1. run[r].loop \in Loop
  BY DEF Report, Finalizes, Reconciles, RunsOK
<1>2. LoopsOK'
  BY <1>1, LoopAfterReportType DEF Report, LoopsOK
<1>3. RunsOK'
  <2> DEFINE settled ==
        [run[r] EXCEPT !.phase = IF Succeeds(r, b) THEN "done" ELSE "error",
                       !.idle = 0]
  <2>1. settled \in RunRow /\ settled.loop = run[r].loop
    BY ZeroAge DEF RunsOK, RunRow, Phase
  <2>2. \A x \in Run : run'[x] \in RunRow /\ run'[x].loop = run[x].loop
    BY <2>1, CanceledType DEF Report, RunsOK
  <2>3. \A x \in Run : run'[x].phase # "absent" => run'[x].loop \in Loop
    <3> TAKE x \in Run
    <3>1. CASE x = r
      BY <1>1, <2>2, <3>1
    <3>2. CASE x # r /\ x \in RetiredBy(r, b)
      BY <1>1, <2>2, <3>2 DEF RetiredBy, RunsOf
    <3>3. CASE x # r /\ x \notin RetiredBy(r, b)
      BY <3>3 DEF Report, RunsOK
    <3>4. QED BY <3>1, <3>2, <3>3
  <2>4. QED BY <2>2, <2>3 DEF Report, RunsOK
<1>4. LeasesOK'
  BY NoLeaseType DEF Report, LeasesOK
<1>5. QED BY <1>2, <1>3, <1>4
     DEF Report, TypeOK, LoopsOK, RunsOK, LeasesOK, CallsOK, TimeOK

LEMMA LeaseDroppedType ==
  ASSUME TypeOK, NEW r \in Run, lease' = [lease EXCEPT ![r] = NoLease],
         UNCHANGED <<loop, run, call, now>>
  PROVE  TypeOK'
<1>1. LeasesOK'
  BY TypeParts, NoLeaseType DEF LeasesOK
<1>2. QED BY <1>1 DEF TypeOK, LeasesOK

LEMMA CancelRunTypeOK ==
  ASSUME TypeOK, NEW r \in Run, CancelRun(r)
  PROVE  TypeOK'
<1> USE TypeParts
<1>1. RunsOK'
  BY CanceledType DEF CancelRun, RunsOK
<1>2. LeasesOK'
  BY NoLeaseType DEF CancelRun, LeasesOK
<1>3. QED BY <1>1, <1>2
     DEF CancelRun, TypeOK, LoopsOK, RunsOK, LeasesOK, CallsOK, TimeOK

LEMMA ReclaimStaleRunTypeOK ==
  ASSUME TypeOK, NEW r \in Run, ReclaimStaleRun(r)
  PROVE  TypeOK'
<1> USE TypeParts
<1> DEFINE failed == [run[r] EXCEPT !.phase = "error", !.idle = 0]
           grace == [lease[r] EXCEPT !.state = "grace", !.left = Grace]
<1>1. failed \in RunRow /\ failed.loop = run[r].loop
  BY ZeroAge DEF RunsOK, RunRow, Phase
<1>2. grace \in Lease
  <2>1. lease[r] \in Lease
    BY DEF LeasesOK
  <2>2. Grace \in 0..Grace
    BY DurationAssumption
  <2>3. QED BY <2>1, <2>2 DEF Lease
<1>3. /\ run' = [run EXCEPT ![r] = failed]
      /\ lease' = [lease EXCEPT ![r] = grace]
  BY DEF ReclaimStaleRun, RunsOK, LeasesOK
<1>4. RunsOK'
  BY <1>1, <1>3 DEF ReclaimStaleRun, Reclaimable, RunsOK
<1>5. LeasesOK'
  BY <1>2, <1>3 DEF LeasesOK
<1>6. QED BY <1>4, <1>5
     DEF ReclaimStaleRun, TypeOK, LoopsOK, RunsOK, LeasesOK, CallsOK, TimeOK

LEMMA ApplyRunProgressTypeOK ==
  ASSUME TypeOK, NEW r \in Run, ApplyRunProgress(r)
  PROVE  TypeOK'
<1>1. RunsOK'
  BY TypeParts, ZeroAge DEF ApplyRunProgress, RunsOK, RunRow, Phase
<1>2. QED BY <1>1
     DEF ApplyRunProgress, TypeOK, RunsOK

LEMMA TickTypeOK ==
  ASSUME TypeOK, Tick
  PROVE  TypeOK'
<1> USE TypeParts
<1>1. RunsOK'
  <2>1. \A r \in Run : run'[r] \in RunRow /\ run'[r].loop = run[r].loop
                       /\ run'[r].phase = run[r].phase
    <3> TAKE r \in Run
    <3>1. run[r] \in RunRow
      BY DEF RunsOK
    <3>2. CASE run[r].idle < Inactivity
      <4>1. run[r].idle + 1 \in 0..Inactivity
        BY <3>1, <3>2, DurationAssumption DEF RunRow
      <4>2. QED BY <3>1, <4>1 DEF Tick, RunRow
    <3>3. CASE ~(run[r].idle < Inactivity)
      BY <3>1, <3>3 DEF Tick
    <3>4. QED BY <3>2, <3>3
  <2>2. QED BY <2>1 DEF Tick, RunsOK
<1>2. LeasesOK'
  <2>1. \A r \in Run : lease'[r] \in Lease
    <3> TAKE r \in Run
    <3>1. lease[r] \in Lease
      BY DEF LeasesOK
    <3>2. CASE lease[r].left > 0
      <4>1. lease[r].left - 1 \in 0..Grace
        BY <3>1, <3>2, DurationAssumption DEF Lease
      <4>2. QED BY <3>1, <3>2, <4>1 DEF Tick, Lease
    <3>3. CASE ~(lease[r].left > 0)
      BY <3>1, <3>3 DEF Tick
    <3>4. QED BY <3>2, <3>3
  <2>2. QED BY <2>1 DEF Tick, LeasesOK
<1>3. TimeOK'
  BY BoundAssumption DEF Tick, TimeOK
<1>4. QED BY <1>1, <1>2, <1>3
     DEF Tick, TypeOK, LoopsOK, RunsOK, LeasesOK, CallsOK, TimeOK

LEMMA RestartTypeOK ==
  ASSUME TypeOK, Restart
  PROVE  TypeOK'
BY DEF Restart, TypeOK, CallTypeOK, Free

LEMMA CallStepTypeOK ==
  ASSUME TypeOK, NEW h \in Handler, CallStep(h)
  PROVE  TypeOK'
BY RetryTypeOK, RunNowTypeOK, ScheduledEnqueueTypeOK, ClaimTypeOK,
   UpdateGoalTypeOK, UpdateScheduleTypeOK, UpdateTaskFileTypeOK,
   ReopenLoopTypeOK
   DEF CallStep

LEMMA NextTypeOK == TypeOK /\ [Next]_vars => TypeOK'
<1> SUFFICES ASSUME TypeOK, [Next]_vars PROVE TypeOK'
  OBVIOUS
<1>1. ASSUME NEW h \in Handler, Begin(h) \/ CallStep(h) PROVE TypeOK'
  BY <1>1, BeginTypeOK, CallStepTypeOK
<1>2. ASSUME NEW r \in Run, NEW b \in Body, Report(r, b) PROVE TypeOK'
  BY <1>2, ReportTypeOK
<1>3. ASSUME NEW r \in Run, ReportDenied(r) \/ PruneGraceLease(r) PROVE TypeOK'
  BY <1>3, LeaseDroppedType DEF ReportDenied, PruneGraceLease
<1>4. ASSUME NEW r \in Run,
             CancelRun(r) \/ ReclaimStaleRun(r) \/ ApplyRunProgress(r)
      PROVE  TypeOK'
  BY <1>4, CancelRunTypeOK, ReclaimStaleRunTypeOK, ApplyRunProgressTypeOK
<1>5. CASE Tick \/ Restart
  BY <1>5, TickTypeOK, RestartTypeOK
<1>6. CASE UNCHANGED vars
  BY <1>6 DEF vars, TypeOK, CallTypeOK
<1>7. QED BY <1>1, <1>2, <1>3, <1>4, <1>5, <1>6 DEF Next

\* Every variable keeps its type under every operation: TypeOK is inductive.
THEOREM TypeCorrect == Spec => []TypeOK
<1>1. QED BY InitTypeOK, NextTypeOK, PTL DEF Spec

--------------------------------------------------------------------------------
(***************************************************************************)
(* Runs and leases.  OneLease is RunningHoldsLease of one run; a step      *)
(* preserves the invariant when it preserves it of every run.              *)
(***************************************************************************)

OneLease(x, y) ==
  /\ x.phase = "running" <=> y.state = "active"
  /\ y.state = "grace" => x.phase = "error"

LEMMA LeaseByRun ==
  RunningHoldsLease <=> \A r \in Run : OneLease(run[r], lease[r])
BY DEF RunningHoldsLease, OneLease

\* Inserting a run changes phases only from absent and pending.
LEMMA InsertRunPhases ==
  ASSUME RunsOK, NEW r \in Run, run[r].phase = "absent",
         NEW l \in Loop, NEW due \in Nat \cup {None}, InsertRun(r, l, due)
  PROVE  \A x \in Run :
           \/ run'[x] = run[x] /\ x # r /\ x \notin RunsOf(l, "pending")
           \/ /\ x = r /\ run[x].phase = "absent" /\ run'[x].phase = "pending"
              /\ run'[x].loop = l
           \/ /\ run[x].phase = "pending" /\ run'[x].phase = "canceled"
              /\ run[x].loop = l /\ run'[x].loop = l
<1> TAKE x \in Run
<1>1. CASE x = r
  BY <1>1 DEF InsertRun, NewRun, NoRun
<1>2. CASE x # r /\ x \in RunsOf(l, "pending")
  <2>1. run[x].phase = "pending" /\ run[x].loop = l /\ run[x] \in RunRow
    BY <1>2 DEF RunsOf, RunsOK
  <2>2. run'[x] = Canceled(x)
    BY <1>2 DEF InsertRun
  <2>3. QED BY <2>1, <2>2 DEF Canceled, RunRow
<1>3. CASE x # r /\ x \notin RunsOf(l, "pending")
  BY <1>3 DEF InsertRun
<1>4. QED BY <1>1, <1>2, <1>3

\* How a step that inserts no run may move a run's phase and its lease's state;
\* all that the theorems of this section need to know of it.
Moves(x, y, nx, ny) ==
  \/ nx.phase = x.phase /\ nx.loop = x.loop /\ ny.state = y.state
  \/ /\ x.phase = "pending" /\ nx.phase = "running" /\ nx.loop = x.loop
     /\ ny.state = "active"
  \/ /\ x.phase \in {"pending", "running"} /\ nx.phase = "canceled"
     /\ nx.loop = x.loop
     /\ \/ ny.state = "none"
        \/ x.phase = "pending" /\ ny.state = y.state
  \/ /\ x.phase = "running" /\ nx.phase = "error" /\ nx.loop = x.loop
     /\ y.state = "active" /\ ny.state \in {"none", "grace"}
  \/ /\ nx.phase \in {"done", "error"} /\ nx.loop = x.loop
     /\ ny.state = "none"
     /\ \/ x.phase = "running" /\ y.state = "active"
        \/ x.phase = "error" /\ y.state = "grace"
  \/ /\ x.phase = "error" /\ nx.phase = "error" /\ nx.loop = x.loop
     /\ y.state = "grace" /\ ny.state = "none"
  \/ /\ nx.phase = x.phase /\ x.phase # "running" /\ nx.loop = x.loop
     /\ ny.state = "none"

LEMMA MovesKeepLease ==
  ASSUME NEW x, NEW y, NEW nx, NEW ny, Moves(x, y, nx, ny), OneLease(x, y)
  PROVE  OneLease(nx, ny)
BY DEF Moves, OneLease

Moved == \A r \in Run : Moves(run[r], lease[r], run'[r], lease'[r])

\* The one other kind of step: a run is inserted into a loop with nothing running.
Inserted ==
  \E r \in Run, l \in Loop, due \in Nat \cup {None} :
    /\ run[r].phase = "absent"
    /\ RunsOf(l, "running") = {}
    /\ InsertRun(r, l, due)
    /\ UNCHANGED lease

LEMMA StillMoves ==
  ASSUME UNCHANGED <<run, lease>>
  PROVE  Moved
BY DEF Moved, Moves

LEMMA CallStepMoves ==
  ASSUME TypeOK, NEW h \in Handler, CallStep(h)
  PROVE  Moved \/ Inserted
<1> USE TypeParts
<1> DEFINE l == call[h].loop
<1>1. CASE \/ Retry(h) \/ UpdateGoal(h) \/ UpdateSchedule(h)
           \/ UpdateTaskFile(h)
  BY <1>1, StillMoves
     DEF Retry, UpdateGoal, UpdateSchedule, UpdateTaskFile, GuardedWrite,
         LoseGuard, AnswerOnly
<1>2. CASE RunNow(h)
  <2>1. l \in Loop
    BY <1>2, HeldType DEF RunNow, Holds
  <2>2. CASE AnswerOnly(h) \/ LoseGuard(h)
    BY <2>2, StillMoves DEF AnswerOnly, LoseGuard
  <2>3. CASE /\ RunsOf(l, "running") = {}
             /\ \E r \in Run : run[r].phase = "absent" /\ InsertRun(r, l, None)
             /\ UNCHANGED lease
    BY <2>1, <2>3 DEF Inserted
  <2>4. QED BY <1>2, <2>2, <2>3 DEF RunNow
<1>3. CASE ScheduledEnqueue(h)
  <2>1. l \in Loop /\ call[h].arg.at \in Nat
    BY <1>3, HeldType DEF ScheduledEnqueue, Holds
  <2>2. CASE LoseGuard(h) \/ UNCHANGED <<run, lease>>
    BY <2>2, StillMoves DEF LoseGuard
  <2>3. CASE /\ RunsOf(l, "running") = {}
             /\ \E r \in Run : /\ run[r].phase = "absent"
                               /\ InsertRun(r, l, call[h].arg.at)
             /\ UNCHANGED lease
    BY <2>1, <2>3 DEF Inserted
  <2>4. QED BY <1>3, <2>2, <2>3 DEF ScheduledEnqueue
<1>4. CASE Claim(h)
  <2> DEFINE r == call[h].arg
  <2>1. l \in Loop /\ r \in Run
    BY SMTT(30), <1>4, HeldType DEF Claim, Holds
  <2>2. CASE AnswerOnly(h) \/ LoseGuard(h)
    BY <2>2, StillMoves DEF AnswerOnly, LoseGuard
  <2>3. CASE /\ StillPending(r)
             /\ run' = [run EXCEPT ![r] = ClaimedRun(r, loop[l])]
             /\ lease' = [lease EXCEPT ![r] = MintedLease(loop[l])]
    <3>1. run[r].phase = "pending" /\ run[r] \in RunRow
      BY <2>1, <2>3 DEF StillPending, RunsOK
    <3>2. /\ ClaimedRun(r, loop[l]).phase = "running"
          /\ ClaimedRun(r, loop[l]).loop = run[r].loop
      BY <3>1 DEF ClaimedRun, RunRow
    <3>3. MintedLease(loop[l]).state = "active"
      BY DEF MintedLease
    <3>4. QED BY <2>1, <2>3, <3>1, <3>2, <3>3
         DEF Moved, Moves, RunsOK, LeasesOK
  <2>4. QED BY <1>4, <2>2, <2>3 DEF Claim
<1>5. CASE ReopenLoop(h)
  <2>1. CASE LoseGuard(h)
    BY <2>1, StillMoves DEF LoseGuard
  <2>2. CASE /\ run' = [r \in Run |->
                  IF r \in RunsOf(l, "pending") \cup RunsOf(l, "running")
                  THEN Canceled(r) ELSE run[r]]
             /\ lease' = Revoked(l)
    <3> SUFFICES ASSUME NEW r \in Run
                 PROVE  Moves(run[r], lease[r], run'[r], lease'[r])
      BY DEF Moved
    <3>1. run[r] \in RunRow
      BY DEF RunsOK
    <3>2. CASE r \in RunsOf(l, "pending") \cup RunsOf(l, "running")
      <4>1. run[r].phase \in {"pending", "running"} /\ run[r].loop = l
        BY <3>2 DEF RunsOf
      <4>2. run'[r].phase = "canceled" /\ run'[r].loop = run[r].loop
        BY <2>2, <3>1, <3>2 DEF Canceled, RunRow
      <4>3. lease'[r].state = "none"
        BY <2>2, <4>1 DEF Revoked, NoLease
      <4>4. QED BY <4>1, <4>2, <4>3 DEF Moves
    <3>3. CASE r \notin RunsOf(l, "pending") \cup RunsOf(l, "running")
      <4>1. run'[r] = run[r]
        BY <2>2, <3>3
      <4>2. CASE run[r].loop = l
        <5>1. run[r].phase # "running"
          BY <3>3, <4>2 DEF RunsOf
        <5>2. lease'[r].state = "none"
          BY <2>2, <4>2 DEF Revoked, NoLease
        <5>3. QED BY <4>1, <5>1, <5>2 DEF Moves
      <4>3. CASE run[r].loop # l
        BY <2>2, <4>1, <4>3 DEF Revoked, Moves
      <4>4. QED BY <4>2, <4>3
    <3>4. QED BY <3>2, <3>3
  <2>3. QED BY <1>5, <2>1, <2>2 DEF ReopenLoop
<1>6. QED BY <1>1, <1>2, <1>3, <1>4, <1>5 DEF CallStep

LEMMA ReportMoves ==
  ASSUME TypeOK, NEW r \in Run, NEW b, Report(r, b)
  PROVE  Moved
<1> USE TypeParts
<1> SUFFICES ASSUME NEW x \in Run
             PROVE  Moves(run[x], lease[x], run'[x], lease'[x])
  BY DEF Moved
<1>1. run[x] \in RunRow
  BY DEF RunsOK
<1>2. CASE x = r
  <2>1. run'[x].phase \in {"done", "error"} /\ run'[x].loop = run[x].loop
    BY <1>1, <1>2 DEF Report, RunRow
  <2>2. lease'[x].state = "none"
    BY <1>2 DEF Report, LeasesOK, NoLease
  <2>3. QED BY <1>2, <2>1, <2>2 DEF Report, Finalizes, Reconciles, Moves
<1>3. CASE x # r /\ x \in RetiredBy(r, b)
  <2>1. run[x].phase = "pending"
    BY <1>3 DEF RetiredBy, RunsOf
  <2>2. run'[x].phase = "canceled" /\ run'[x].loop = run[x].loop
    BY <1>1, <1>3 DEF Report, Canceled, RunRow
  <2>3. QED BY <1>3, <2>1, <2>2 DEF Report, LeasesOK, Moves
<1>4. CASE x # r /\ x \notin RetiredBy(r, b)
  BY <1>4 DEF Report, LeasesOK, Moves
<1>5. QED BY <1>2, <1>3, <1>4

LEMMA RunStepMoves ==
  ASSUME TypeOK, RunningHoldsLease, NEW r \in Run,
         \/ ReportDenied(r) \/ CancelRun(r) \/ ReclaimStaleRun(r)
         \/ PruneGraceLease(r) \/ ApplyRunProgress(r)
  PROVE  Moved
<1> USE TypeParts
<1>1. CASE ReportDenied(r) \/ PruneGraceLease(r)
  <2>1. run[r].phase # "running"
    BY <1>1 DEF ReportDenied, PruneGraceLease, LeaseDead, Finalizes,
                RunningHoldsLease
  <2>2. QED BY <1>1, <2>1
       DEF ReportDenied, PruneGraceLease, NoLease, LeasesOK, Moved, Moves
<1>2. CASE CancelRun(r)
  <2>1. Canceled(r).phase = "canceled" /\ Canceled(r).loop = run[r].loop
    BY DEF Canceled, RunsOK, RunRow
  <2>2. QED BY <1>2, <2>1
       DEF CancelRun, NoLease, RunsOK, LeasesOK, Moved, Moves
<1>3. CASE ReclaimStaleRun(r)
  <2>1. /\ run' = [run EXCEPT ![r] = [run[r] EXCEPT !.phase = "error", !.idle = 0]]
        /\ lease' = [lease EXCEPT ![r] =
                       [lease[r] EXCEPT !.state = "grace", !.left = Grace]]
    BY <1>3 DEF ReclaimStaleRun, RunsOK, LeasesOK
  <2>2. run'[r].phase = "error" /\ run'[r].loop = run[r].loop
    BY <2>1 DEF RunsOK, RunRow
  <2>3. lease'[r].state = "grace"
    BY <2>1 DEF LeasesOK, Lease
  <2>4. QED BY <1>3, <2>1, <2>2, <2>3
       DEF ReclaimStaleRun, Reclaimable, RunsOK, LeasesOK, Moved, Moves
<1>4. CASE ApplyRunProgress(r)
  <2>1. run' = [run EXCEPT ![r] = [run[r] EXCEPT !.idle = 0]]
    BY <1>4 DEF ApplyRunProgress, RunsOK
  <2>2. run'[r].phase = run[r].phase /\ run'[r].loop = run[r].loop
    BY <2>1 DEF RunsOK, RunRow
  <2>3. QED BY <1>4, <2>1, <2>2 DEF ApplyRunProgress, RunsOK, Moved, Moves
<1>5. QED BY <1>1, <1>2, <1>3, <1>4

LEMMA TickMoves ==
  ASSUME TypeOK, Tick
  PROVE  Moved
<1> USE TypeParts
<1> SUFFICES ASSUME NEW r \in Run
             PROVE  Moves(run[r], lease[r], run'[r], lease'[r])
  BY DEF Moved
<1>1. run'[r].phase = run[r].phase /\ run'[r].loop = run[r].loop
  BY DEF Tick, RunsOK, RunRow
<1>2. lease'[r].state = lease[r].state
  BY DEF Tick, LeasesOK, Lease
<1>3. QED BY <1>1, <1>2 DEF Moves

\* Every step inserts a run or moves runs and leases as Moves lists.
LEMMA NextMoves ==
  ASSUME TypeOK, RunningHoldsLease, [Next]_vars
  PROVE  Moved \/ Inserted
<1>1. ASSUME NEW h \in Handler, Begin(h) \/ CallStep(h) PROVE Moved \/ Inserted
  BY <1>1, CallStepMoves, StillMoves DEF Begin
<1>2. ASSUME NEW r \in Run, NEW b \in Body, Report(r, b) PROVE Moved
  BY <1>2, ReportMoves
<1>3. ASSUME NEW r \in Run,
             \/ ReportDenied(r) \/ CancelRun(r) \/ ReclaimStaleRun(r)
             \/ PruneGraceLease(r) \/ ApplyRunProgress(r)
      PROVE  Moved
  BY <1>3, RunStepMoves
<1>4. CASE Tick
  BY <1>4, TickMoves
<1>5. CASE Restart \/ UNCHANGED vars
  BY <1>5, StillMoves DEF Restart, vars
<1>6. QED BY <1>1, <1>2, <1>3, <1>4, <1>5 DEF Next

LEMMA InitLease == Init => RunningHoldsLease
<1> SUFFICES ASSUME Init, NEW r \in Run PROVE OneLease(run[r], lease[r])
  BY LeaseByRun
<1>1. PICK l \in Loop :
        run = [x \in Run |-> IF x \in LegacyRun THEN Inherited(l) ELSE NoRun]
  BY DEF Init
<1>2. CASE r \in LegacyRun
  <2>1. run[r].phase = "running"
    BY <1>1, <1>2 DEF Inherited, NoRun
  <2>2. lease[r].state = "active"
    BY <1>2 DEF Init, NoLease
  <2>3. QED BY <2>1, <2>2 DEF OneLease
<1>3. CASE r \notin LegacyRun
  BY <1>1, <1>3 DEF Init, NoRun, NoLease, OneLease
<1>4. QED BY <1>2, <1>3

\* A run is running exactly while its lease is active, and a grace lease
\* belongs to a failed run, in every interleaving of polls, reports, cancels,
\* reclaims, prunes and reopens.
THEOREM LeaseSafety == Spec => []RunningHoldsLease
<1>1. TypeOK /\ RunningHoldsLease /\ [Next]_vars => RunningHoldsLease'
  <2> SUFFICES ASSUME TypeOK, RunningHoldsLease, [Next]_vars
               PROVE  \A r \in Run : OneLease(run'[r], lease'[r])
    BY DEF RunningHoldsLease, OneLease
  <2>1. CASE Moved
    BY <2>1, LeaseByRun, MovesKeepLease DEF Moved
  <2>2. CASE Inserted
    BY <2>2, LeaseByRun, TypeParts, InsertRunPhases DEF Inserted, OneLease
  <2>3. QED BY <2>1, <2>2, NextMoves
<1>2. QED BY <1>1, InitLease, TypeCorrect, PTL DEF Spec

LEMMA InitOneOpen == Init => AtMostOneOpenRun
<1> SUFFICES ASSUME Init, NEW r \in Run, NEW s \in Run, Open(r), Open(s)
             PROVE  r = s
  BY DEF AtMostOneOpenRun
<1>1. \A x \in Run : x \notin LegacyRun => run[x].phase = "absent"
  BY DEF Init, NoRun
<1>2. QED BY <1>1, LegacyAssumption DEF Open

\* Whatever triggers, polls, cancels, sweeps and reopens interleave, no loop
\* ever has two open runs.
THEOREM OneOpenRun == Spec => []AtMostOneOpenRun
<1>1. TypeOK /\ RunningHoldsLease /\ AtMostOneOpenRun /\ [Next]_vars
        => AtMostOneOpenRun'
  <2> SUFFICES ASSUME TypeOK, RunningHoldsLease, AtMostOneOpenRun, [Next]_vars,
                      NEW r \in Run, NEW s \in Run, Open(r)', Open(s)',
                      run'[r].loop = run'[s].loop
               PROVE  r = s
    BY DEF AtMostOneOpenRun
  <2>1. CASE Moved
    <3>1. \A x \in Run : Open(x)' => Open(x) /\ run'[x].loop = run[x].loop
      BY <2>1 DEF Moved, Moves, Open
    <3>2. QED BY <3>1 DEF AtMostOneOpenRun
  <2>2. CASE Inserted
    <3>1. PICK n \in Run, l \in Loop, due \in Nat \cup {None} :
            /\ run[n].phase = "absent" /\ RunsOf(l, "running") = {}
            /\ InsertRun(n, l, due)
      BY <2>2 DEF Inserted
    <3>2. \A x \in Run \ {n} : Open(x)' => Open(x) /\ run'[x].loop = run[x].loop
                                           /\ run[x].loop # l
      BY <3>1, TypeParts, InsertRunPhases DEF Open, RunsOf
    <3>3. run'[n].loop = l
      BY <3>1, TypeParts, InsertRunPhases
    <3>4. QED BY <3>2, <3>3 DEF AtMostOneOpenRun
  <2>3. QED BY <2>1, <2>2, NextMoves
<1>2. QED BY <1>1, InitOneOpen, TypeCorrect, LeaseSafety, PTL DEF Spec

\* A settled run keeps its outcome, except that a reclaimed run may still turn
\* its failure into a success while its grace lease is there.
THEOREM OutcomeSafety == Spec => OutcomesAreStable
<1>1. TypeOK /\ RunningHoldsLease /\ [Next]_vars
        => [\A r \in Run : run'[r].phase \in MayBecome(r)]_vars
  <2> SUFFICES ASSUME TypeOK, RunningHoldsLease, [Next]_vars, NEW r \in Run
               PROVE  run'[r].phase \in MayBecome(r)
    OBVIOUS
  <2>1. run[r].phase \in Phase
    BY TypeParts DEF RunsOK, RunRow
  <2>2. CASE Moved
    BY <2>1, <2>2 DEF Moved, Moves, MayBecome, Phase
  <2>3. CASE Inserted
    <3>1. \/ run'[r].phase = run[r].phase
          \/ run[r].phase = "absent" /\ run'[r].phase = "pending"
          \/ run[r].phase = "pending" /\ run'[r].phase = "canceled"
      BY <2>3, TypeParts, InsertRunPhases DEF Inserted
    <3>2. QED BY <2>1, <3>1 DEF MayBecome, Phase
  <2>4. QED BY <2>2, <2>3, NextMoves
<1>2. QED BY <1>1, TypeCorrect, LeaseSafety, PTL DEF Spec, OutcomesAreStable

\* A run that was handed out and has lost its credential never gets one again.
THEOREM CredentialSafety == Spec => CredentialsAreSpentOnce
<1>1. TypeOK /\ RunningHoldsLease /\ [Next]_vars
        => [\A r \in Run :
              lease[r].state = "none" /\ run[r].phase \notin {"absent", "pending"}
                => lease'[r].state = "none"]_vars
  <2> SUFFICES ASSUME TypeOK, RunningHoldsLease, [Next]_vars, NEW r \in Run,
                      lease[r].state = "none",
                      run[r].phase \notin {"absent", "pending"}
               PROVE  lease'[r].state = "none"
    OBVIOUS
  <2>1. CASE Moved
    BY <2>1 DEF Moved, Moves
  <2>2. CASE Inserted
    BY <2>2 DEF Inserted
  <2>3. QED BY <2>1, <2>2, NextMoves
<1>2. QED BY <1>1, TypeCorrect, LeaseSafety, PTL
     DEF Spec, CredentialsAreSpentOnce

\* A settled run rests: neither its outcome nor its credential comes back to life.
THEOREM SettledSafety == Spec => SettledRunsRest
<1>1. OutcomesAreStable /\ CredentialsAreSpentOnce => SettledRunsRest
  BY DEF SettledRunsRest
<1>2. QED BY <1>1, OutcomeSafety, CredentialSafety

--------------------------------------------------------------------------------
(***************************************************************************)
(* The server implements RunContract: every step is a step of the contract *)
(* or leaves what the contract speaks of alone.                            *)
(***************************************************************************)

\* The state of the contract before and after a step.
Seen == [r \in Run |-> StatusOf(r)]
Owned == [r \in Run |-> run[r].loop]

StatusAs(x, y) ==
  CASE x.phase = "pending" -> "waiting"
    [] x.phase = "running" -> "working"
    [] x.phase = "done"    -> "succeeded"
    [] x.phase = "error"   -> IF y.state = "grace" THEN "reclaimed" ELSE "failed"
    [] OTHER -> x.phase

LEMMA SeenAs ==
  ASSUME NEW r \in Run
  PROVE  /\ Seen[r] = StatusAs(run[r], lease[r])
         /\ Seen'[r] = StatusAs(run'[r], lease'[r])
         /\ Owned[r] = run[r].loop /\ Owned'[r] = run'[r].loop
BY DEF Seen, Owned, StatusOf, StatusAs

LEMMA StatusPhase ==
  ASSUME NEW x, NEW y, x.phase \in Phase
  PROVE  /\ StatusAs(x, y) = "absent" <=> x.phase = "absent"
         /\ StatusAs(x, y) = "waiting" <=> x.phase = "pending"
         /\ StatusAs(x, y) = "working" <=> x.phase = "running"
         /\ StatusAs(x, y) = "succeeded" <=> x.phase = "done"
         /\ StatusAs(x, y) = "canceled" <=> x.phase = "canceled"
         /\ StatusAs(x, y) = "reclaimed" <=> x.phase = "error" /\ y.state = "grace"
         /\ StatusAs(x, y) = "failed" <=> x.phase = "error" /\ y.state # "grace"
BY DEF StatusAs, Phase

\* The contract's actions, said of Seen and Owned.
SeenOf(l, s) == {r \in Run : Owned[r] = l /\ Seen[r] = s}
SeenSet(runs, s) == [r \in Run |-> IF r \in runs THEN s ELSE Seen[r]]

SeenEnqueue(r, l) ==
  /\ Seen[r] = "absent"
  /\ SeenOf(l, "working") = {}
  /\ Seen' = [SeenSet(SeenOf(l, "waiting"), "canceled") EXCEPT ![r] = "waiting"]
  /\ Owned' = [Owned EXCEPT ![r] = l]

SeenMove(r, from, s) ==
  Seen[r] \in from /\ Seen' = SeenSet({r}, s) /\ Owned' = Owned

SeenSucceed(r, retired) ==
  /\ Seen[r] \in {"working", "reclaimed"}
  /\ Seen' = [SeenSet(retired, "canceled") EXCEPT ![r] = "succeeded"]
  /\ Owned' = Owned

SeenStartOver(l) ==
  /\ Seen' = [r \in Run |->
       IF r \in SeenOf(l, "waiting") \cup SeenOf(l, "working") THEN "canceled"
       ELSE IF r \in SeenOf(l, "reclaimed") THEN "failed" ELSE Seen[r]]
  /\ Owned' = Owned

SeenStep ==
  \/ \E r \in Run, l \in Loop : SeenEnqueue(r, l)
  \/ \E r \in Run : \/ SeenMove(r, {"waiting"}, "working")
                    \/ SeenMove(r, {"working", "reclaimed"}, "failed")
                    \/ SeenMove(r, {"working"}, "reclaimed")
                    \/ SeenMove(r, {"waiting", "working"}, "canceled")
                    \/ SeenSucceed(r, {})
                    \/ SeenSucceed(r, SeenOf(Owned[r], "waiting"))
  \/ \E l \in Loop : SeenStartOver(l)
  \/ Seen' = Seen /\ Owned' = Owned

LEMMA SeenStepIsStep == SeenStep => [Contract!Next]_(Contract!vars)
<1>1. ASSUME NEW r \in Run, NEW l \in Loop, SeenEnqueue(r, l)
      PROVE  Contract!Enqueue(r, l)
  BY <1>1 DEF Seen, Owned, Contract!Enqueue, Contract!Of, Contract!Set,
              SeenEnqueue, SeenOf, SeenSet
<1>2. ASSUME NEW r \in Run, SeenMove(r, {"waiting"}, "working")
      PROVE  Contract!HandOut(r)
  BY <1>2 DEF Seen, Owned, Contract!HandOut, Contract!Set, SeenMove, SeenSet
<1>3. ASSUME NEW r \in Run, SeenMove(r, {"working", "reclaimed"}, "failed")
      PROVE  Contract!Settle(r, {})
  BY <1>3 DEF Seen, Owned, Contract!Settle, Contract!Set, SeenMove, SeenSet
<1>4. ASSUME NEW r \in Run, SeenMove(r, {"working"}, "reclaimed")
      PROVE  Contract!Reclaim(r)
  BY <1>4 DEF Seen, Owned, Contract!Reclaim, Contract!Set, SeenMove, SeenSet
<1>5. ASSUME NEW r \in Run, SeenMove(r, {"waiting", "working"}, "canceled")
      PROVE  Contract!Cancel(r)
  BY <1>5 DEF Seen, Owned, Contract!Cancel, Contract!Set, SeenMove, SeenSet
<1>6. ASSUME NEW r \in Run, SeenSucceed(r, {})
      PROVE  Contract!Settle(r, {})
  BY <1>6 DEF Seen, Owned, Contract!Settle, Contract!Set, SeenSucceed, SeenSet
<1>7. ASSUME NEW r \in Run, SeenSucceed(r, SeenOf(Owned[r], "waiting"))
      PROVE  Contract!Settle(r, Contract!Of([x \in Run |-> run[x].loop][r], "waiting"))
  BY <1>7 DEF Seen, Owned, Contract!Settle, Contract!Of, Contract!Set,
              SeenSucceed, SeenOf, SeenSet
<1>8. ASSUME NEW l \in Loop, SeenStartOver(l)
      PROVE  Contract!StartOver(l)
  BY <1>8 DEF Seen, Owned, Contract!StartOver, Contract!Of, SeenStartOver, SeenOf
<1>9. ASSUME Seen' = Seen, Owned' = Owned
      PROVE  UNCHANGED Contract!vars
  BY <1>9 DEF Seen, Owned, Contract!vars
<1>10. QED BY <1>1, <1>2, <1>3, <1>4, <1>5, <1>6, <1>7, <1>8, <1>9
      DEF SeenStep, Contract!Next

\* From what becomes of every run to what becomes of the contract's state.
Becomes(x, s) ==
  StatusAs(run'[x], lease'[x]) = s /\ run'[x].loop = run[x].loop

Was(x) == StatusAs(run[x], lease[x])

LEMMA StutterSeen ==
  ASSUME \A x \in Run : Becomes(x, Was(x))
  PROVE  SeenStep
<1>1. Seen' = Seen
  BY DEF Becomes, Was, Seen, StatusOf, StatusAs
<1>2. Owned' = Owned
  BY DEF Becomes, Owned
<1>3. QED BY <1>1, <1>2 DEF SeenStep

LEMMA MoveSeen ==
  ASSUME NEW r \in Run, NEW from, NEW s, Was(r) \in from,
         \A x \in Run : Becomes(x, IF x = r THEN s ELSE Was(x))
  PROVE  SeenMove(r, from, s)
<1>1. Seen[r] \in from
  BY SeenAs DEF Was
<1>2. \A x \in Run : Seen'[x] = (IF x = r THEN s ELSE Seen[x])
  BY SeenAs DEF Becomes, Was
<1>3. Seen' = [x \in Run |-> Seen'[x]]
  BY DEF Seen
<1>4. Seen' = SeenSet({r}, s)
  BY <1>2, <1>3 DEF SeenSet
<1>5. Owned' = Owned
  BY DEF Becomes, Owned
<1>6. QED BY <1>1, <1>4, <1>5 DEF SeenMove

LEMMA SucceedSeen ==
  ASSUME NEW r \in Run, NEW retired \in SUBSET Run,
         Was(r) \in {"working", "reclaimed"},
         \A x \in Run : Becomes(x, IF x = r THEN "succeeded"
                                   ELSE IF x \in retired THEN "canceled" ELSE Was(x))
  PROVE  SeenSucceed(r, retired)
<1>1. Seen[r] \in {"working", "reclaimed"}
  BY SeenAs DEF Was
<1>2. \A x \in Run : Seen'[x] = (IF x = r THEN "succeeded"
                                 ELSE IF x \in retired THEN "canceled" ELSE Seen[x])
  BY SeenAs DEF Becomes, Was
<1>3. Seen' = [x \in Run |-> Seen'[x]]
  BY DEF Seen
<1>4. Seen' = [SeenSet(retired, "canceled") EXCEPT ![r] = "succeeded"]
  BY <1>2, <1>3 DEF SeenSet
<1>5. Owned' = Owned
  BY DEF Becomes, Owned
<1>6. QED BY <1>1, <1>4, <1>5 DEF SeenSucceed

LEMMA StartOverSeen ==
  ASSUME NEW l \in Loop,
         \A x \in Run : Becomes(x,
           IF run[x].loop = l /\ Was(x) \in {"waiting", "working"} THEN "canceled"
           ELSE IF run[x].loop = l /\ Was(x) = "reclaimed" THEN "failed" ELSE Was(x))
  PROVE  SeenStartOver(l)
<1>1. \A x \in Run : Seen'[x] =
        (IF x \in SeenOf(l, "waiting") \cup SeenOf(l, "working") THEN "canceled"
         ELSE IF x \in SeenOf(l, "reclaimed") THEN "failed" ELSE Seen[x])
  BY SeenAs DEF Becomes, Was, SeenOf
<1>2. Seen' = [x \in Run |-> Seen'[x]]
  BY DEF Seen
<1>3. Owned' = Owned
  BY DEF Becomes, Owned
<1>4. QED BY <1>1, <1>2, <1>3 DEF SeenStartOver

LEMMA EnqueueSeen ==
  ASSUME NEW r \in Run, NEW l \in Loop, Was(r) = "absent",
         \A x \in Run : ~(run[x].loop = l /\ Was(x) = "working"),
         StatusAs(run'[r], lease'[r]) = "waiting", run'[r].loop = l,
         \A x \in Run \ {r} : Becomes(x,
           IF run[x].loop = l /\ Was(x) = "waiting" THEN "canceled" ELSE Was(x))
  PROVE  SeenEnqueue(r, l)
<1>1. Seen[r] = "absent" /\ SeenOf(l, "working") = {}
  BY SeenAs DEF Was, SeenOf
<1>2. \A x \in Run : Seen'[x] =
        (IF x = r THEN "waiting"
         ELSE IF x \in SeenOf(l, "waiting") THEN "canceled" ELSE Seen[x])
  BY SeenAs DEF Becomes, Was, SeenOf
<1>3. \A x \in Run : Owned'[x] = (IF x = r THEN l ELSE Owned[x])
  BY SeenAs DEF Becomes
<1>4. Seen' = [x \in Run |-> Seen'[x]] /\ Owned' = [x \in Run |-> Owned'[x]]
  BY DEF Seen, Owned
<1>5. Seen' = [SeenSet(SeenOf(l, "waiting"), "canceled") EXCEPT ![r] = "waiting"]
  BY <1>2, <1>4 DEF SeenSet
<1>6. Owned = [x \in Run |-> Owned[x]]
  BY DEF Owned
<1>7. Owned' = [Owned EXCEPT ![r] = l]
  BY <1>3, <1>4, <1>6
<1>8. QED BY <1>1, <1>5, <1>7 DEF SeenEnqueue

LEMMA UntouchedSeen == ASSUME UNCHANGED <<run, lease>> PROVE SeenStep
BY StutterSeen DEF Becomes, Was

LEMMA WasPhase ==
  ASSUME TypeOK, NEW r \in Run
  PROVE  /\ Was(r) = "absent" <=> run[r].phase = "absent"
         /\ Was(r) = "waiting" <=> run[r].phase = "pending"
         /\ Was(r) = "working" <=> run[r].phase = "running"
         /\ Was(r) = "reclaimed" <=> run[r].phase = "error" /\ lease[r].state = "grace"
<1>1. run[r].phase \in Phase
  BY DEF TypeOK, RunRow
<1>2. QED BY <1>1, StatusPhase DEF Was

LEMMA InsertRunSeen ==
  ASSUME TypeOK, NEW r \in Run, NEW l \in Loop, NEW due, run[r].phase = "absent",
         RunsOf(l, "running") = {}, InsertRun(r, l, due), lease' = lease
  PROVE  SeenStep
<1>1. Was(r) = "absent" /\ \A x \in Run : ~(run[x].loop = l /\ Was(x) = "working")
  BY WasPhase DEF RunsOf
<1>2. run'[r] = NewRun(l, due)
  BY DEF InsertRun
<1>3. StatusAs(run'[r], lease'[r]) = "waiting" /\ run'[r].loop = l
  BY <1>2 DEF NewRun, NoRun, StatusAs
<1>4. ASSUME NEW x \in Run \ {r}
      PROVE  Becomes(x, IF run[x].loop = l /\ Was(x) = "waiting"
                        THEN "canceled" ELSE Was(x))
  <2>1. run[x] \in RunRow
    BY DEF TypeOK
  <2>2. CASE x \in RunsOf(l, "pending")
    <3>1. run'[x] = Canceled(x) /\ run[x].loop = l /\ Was(x) = "waiting"
      BY <2>2, WasPhase DEF InsertRun, RunsOf
    <3>2. QED BY <2>1, <3>1 DEF Canceled, RunRow, Becomes, StatusAs
  <2>3. CASE x \notin RunsOf(l, "pending")
    <3>1. run'[x] = run[x] /\ ~(run[x].loop = l /\ Was(x) = "waiting")
      BY <2>3, WasPhase DEF InsertRun, RunsOf
    <3>2. QED BY <3>1 DEF Becomes, Was
  <2>4. QED BY <2>2, <2>3
<1>5. SeenEnqueue(r, l)
  BY <1>1, <1>3, <1>4, EnqueueSeen
<1>6. QED BY <1>5 DEF SeenStep

LEMMA ClaimSeen ==
  ASSUME TypeOK, NEW h \in Handler, Claim(h) PROVE SeenStep
<1> DEFINE l == call[h].loop  r == call[h].arg
<1>0. r \in Run
  BY TypeParts, HeldType DEF Claim, Holds
<1>1. CASE UNCHANGED <<run, lease>>
  BY <1>1, UntouchedSeen
<1>2. CASE /\ StillPending(r)
           /\ run' = [run EXCEPT ![r] = ClaimedRun(r, loop[l])]
           /\ lease' = [lease EXCEPT ![r] = MintedLease(loop[l])]
  <2>1. run[r] \in RunRow /\ Was(r) = "waiting"
    BY <1>0, <1>2, WasPhase DEF TypeOK, StillPending
  <2>2. run'[r] = ClaimedRun(r, loop[l])
    BY <1>0, <1>2 DEF TypeOK
  <2>3. Becomes(r, "working")
    BY <2>1, <2>2 DEF ClaimedRun, RunRow, Becomes, StatusAs
  <2>4. \A x \in Run \ {r} : Becomes(x, Was(x))
    BY <1>2 DEF TypeOK, Becomes, Was
  <2>5. \A x \in Run : Becomes(x, IF x = r THEN "working" ELSE Was(x))
    BY <2>3, <2>4
  <2>6. SeenMove(r, {"waiting"}, "working")
    BY <1>0, <2>1, <2>5, MoveSeen
  <2>7. QED BY <1>0, <2>6 DEF SeenStep
<1>3. QED BY <1>1, <1>2 DEF Claim, AnswerOnly, LoseGuard

LEMMA ReopenLoopSeen ==
  ASSUME TypeOK, RunningHoldsLease, NEW h \in Handler, ReopenLoop(h) PROVE SeenStep
<1> DEFINE l == call[h].loop
<1>0. l \in Loop
  BY TypeParts, HeldType DEF ReopenLoop, Holds
<1>1. CASE UNCHANGED <<run, lease>>
  BY <1>1, UntouchedSeen
<1>2. CASE /\ run' = [x \in Run |->
                IF x \in RunsOf(l, "pending") \cup RunsOf(l, "running")
                THEN Canceled(x) ELSE run[x]]
           /\ lease' = Revoked(l)
  <2>1. ASSUME NEW x \in Run
        PROVE  Becomes(x,
           IF run[x].loop = l /\ Was(x) \in {"waiting", "working"} THEN "canceled"
           ELSE IF run[x].loop = l /\ Was(x) = "reclaimed" THEN "failed" ELSE Was(x))
    <3>1. run[x] \in RunRow /\ lease[x] \in Lease
      BY DEF TypeOK
    <3>2. lease'[x] = IF run[x].loop = l THEN NoLease ELSE lease[x]
      BY <1>2 DEF Revoked
    <3>3. CASE x \in RunsOf(l, "pending") \cup RunsOf(l, "running")
      <4>1. run'[x] = Canceled(x) /\ run[x].loop = l /\ Was(x) \in {"waiting", "working"}
        BY <1>2, <3>3, WasPhase DEF RunsOf
      <4>2. QED BY <3>1, <4>1 DEF Canceled, RunRow, Becomes, StatusAs
    <3>4. CASE x \notin RunsOf(l, "pending") \cup RunsOf(l, "running")
      <4>1. run'[x] = run[x] /\ ~(run[x].loop = l /\ Was(x) \in {"waiting", "working"})
        BY <1>2, <3>4, WasPhase DEF RunsOf
      <4>2. CASE run[x].loop # l
        BY <3>2, <4>1, <4>2 DEF Becomes, Was
      <4>3. CASE run[x].loop = l
        <5>1. lease'[x] = NoLease
          BY <3>2, <4>3
        <5>2. CASE Was(x) = "reclaimed"
          <6>1. run[x].phase = "error"
            BY <5>2, WasPhase
          <6>2. QED BY <4>1, <4>3, <5>1, <5>2, <6>1 DEF Becomes, StatusAs, NoLease
        <5>3. CASE Was(x) # "reclaimed"
          <6>1. ~(run[x].phase = "error" /\ lease[x].state = "grace")
            BY <5>3, WasPhase
          <6>2. QED BY <4>1, <4>3, <5>1, <5>3, <6>1 DEF Becomes, Was, StatusAs, NoLease
        <5>4. QED BY <5>2, <5>3
      <4>4. QED BY <4>2, <4>3
    <3>5. QED BY <3>3, <3>4
  <2>2. SeenStartOver(l)
    BY <1>0, <2>1, StartOverSeen
  <2>3. QED BY <1>0, <2>2 DEF SeenStep
<1>3. QED BY <1>1, <1>2 DEF ReopenLoop, LoseGuard

LEMMA CallStepSeen ==
  ASSUME TypeOK, RunningHoldsLease, NEW h \in Handler, CallStep(h) PROVE SeenStep
<1>1. CASE RunNow(h)
  <2> DEFINE l == call[h].loop
  <2>0. l \in Loop
    BY <1>1, TypeParts, HeldType DEF RunNow, Holds
  <2>1. CASE UNCHANGED <<run, lease>>
    BY <2>1, UntouchedSeen
  <2>2. CASE ~UNCHANGED <<run, lease>>
    <3>1. /\ RunsOf(l, "running") = {} /\ lease' = lease
          /\ \E r \in Run : run[r].phase = "absent" /\ InsertRun(r, l, None)
      BY <1>1, <2>2 DEF RunNow, AnswerOnly, LoseGuard
    <3>2. QED BY <2>0, <3>1, InsertRunSeen
  <2>3. QED BY <2>1, <2>2
<1>2. CASE ScheduledEnqueue(h)
  <2> DEFINE l == call[h].loop
  <2>0. l \in Loop
    BY <1>2, TypeParts, HeldType DEF ScheduledEnqueue, Holds
  <2>1. CASE UNCHANGED <<run, lease>>
    BY <2>1, UntouchedSeen
  <2>2. CASE ~UNCHANGED <<run, lease>>
    <3>1. /\ RunsOf(l, "running") = {} /\ lease' = lease
          /\ \E r \in Run : run[r].phase = "absent" /\ InsertRun(r, l, call[h].arg.at)
      BY <1>2, <2>2 DEF ScheduledEnqueue, LoseGuard
    <3>2. QED BY <2>0, <3>1, InsertRunSeen
  <2>3. QED BY <2>1, <2>2
<1>3. CASE Retry(h) \/ UpdateGoal(h) \/ UpdateSchedule(h) \/ UpdateTaskFile(h)
  BY <1>3, UntouchedSeen DEF Retry, UpdateGoal, UpdateSchedule, UpdateTaskFile,
     GuardedWrite, AnswerOnly, LoseGuard
<1>4. QED BY <1>1, <1>2, <1>3, ClaimSeen, ReopenLoopSeen DEF CallStep

LEMMA ReportSeen ==
  ASSUME TypeOK, NEW r \in Run, NEW b, Report(r, b) PROVE SeenStep
<1>1. Was(r) \in {"working", "reclaimed"}
  BY WasPhase DEF Report, Finalizes, Reconciles
<1>2. run[r] \in RunRow /\ lease[r] \in Lease
  BY DEF TypeOK
<1>3. lease'[r] = NoLease /\ \A x \in Run \ {r} : lease'[x] = lease[x]
  BY DEF Report, TypeOK
<1>4. run'[r] = [run[r] EXCEPT !.phase = IF Succeeds(r, b) THEN "done" ELSE "error",
                               !.idle = 0]
  BY DEF Report
<1>5. run'[r].phase = (IF Succeeds(r, b) THEN "done" ELSE "error")
      /\ run'[r].loop = run[r].loop
  BY <1>2, <1>4 DEF RunRow
<1>6. ASSUME NEW x \in RetiredBy(r, b), x # r
      PROVE  Becomes(x, "canceled") /\ Was(x) = "waiting" /\ run[x].loop = run[r].loop
  <2>1. x \in Run /\ run[x] \in RunRow /\ run'[x] = Canceled(x)
    BY <1>6 DEF Report, TypeOK, RetiredBy, RunsOf
  <2>2. run[x].phase = "pending" /\ run[x].loop = run[r].loop
    BY <1>6 DEF RetiredBy, RunsOf
  <2>3. Becomes(x, "canceled")
    BY <2>1 DEF Canceled, RunRow, Becomes, StatusAs
  <2>4. QED BY <2>1, <2>2, <2>3, WasPhase
<1>7. ASSUME NEW x \in Run \ {r}, x \notin RetiredBy(r, b)
      PROVE  Becomes(x, Was(x))
  <2>1. run'[x] = run[x]
    BY <1>7 DEF Report
  <2>2. QED BY <1>3, <2>1 DEF Becomes, Was
<1>8. CASE Succeeds(r, b)
  <2>1. Becomes(r, "succeeded")
    BY <1>5, <1>8 DEF Becomes, StatusAs
  <2>2. \A x \in Run : Becomes(x, IF x = r THEN "succeeded"
                         ELSE IF x \in RetiredBy(r, b) THEN "canceled" ELSE Was(x))
    BY <1>6, <1>7, <2>1
  <2>3. RetiredBy(r, b) \in SUBSET Run
    BY DEF RetiredBy, RunsOf
  <2>4. SeenSucceed(r, RetiredBy(r, b))
    BY <1>1, <2>2, <2>3, SucceedSeen
  <2>5. RetiredBy(r, b) = {} \/ RetiredBy(r, b) = SeenOf(Owned[r], "waiting")
    <3>1. CASE ~Finishes(r, b)
      BY <3>1 DEF RetiredBy
    <3>2. CASE Finishes(r, b)
      <4>1. \A x \in Run : x \in RetiredBy(r, b) <=> x \in SeenOf(Owned[r], "waiting")
        <5> TAKE x \in Run
        <5>1. run[x].phase = "pending" <=> Seen[x] = "waiting"
          BY WasPhase, SeenAs DEF Was
        <5>2. run[r].phase # "pending"
          BY <1>1, WasPhase
        <5>3. Owned[x] = run[x].loop /\ Owned[r] = run[r].loop
          BY SeenAs
        <5>4. QED BY <3>2, <5>1, <5>2, <5>3 DEF RetiredBy, RunsOf, SeenOf
      <4>2. SeenOf(Owned[r], "waiting") \subseteq Run
        BY DEF SeenOf
      <4>3. QED BY <2>3, <4>1, <4>2
    <3>3. QED BY <3>1, <3>2
  <2>6. QED BY <2>4, <2>5 DEF SeenStep
<1>9. CASE ~Succeeds(r, b)
  <2>1. Becomes(r, "failed")
    BY <1>3, <1>5, <1>9 DEF Becomes, StatusAs, NoLease
  <2>2. RetiredBy(r, b) = {}
    BY <1>9 DEF RetiredBy, Succeeds
  <2>3. \A x \in Run : Becomes(x, IF x = r THEN "failed" ELSE Was(x))
    BY <1>7, <2>1, <2>2
  <2>4. SeenMove(r, {"working", "reclaimed"}, "failed")
    BY <1>1, <2>3, MoveSeen
  <2>5. QED BY <2>4 DEF SeenStep
<1>10. QED BY <1>8, <1>9

\* A lease that goes while its run is not running: a reclaimed run has failed.
LEMMA LeaseGoneSeen ==
  ASSUME TypeOK, NEW r \in Run, run[r].phase # "running" \/ lease[r].state # "active",
         RunningHoldsLease, run' = run, lease' = [lease EXCEPT ![r] = NoLease]
  PROVE  SeenStep
<1>1. run[r] \in RunRow /\ lease[r] \in Lease /\ lease'[r] = NoLease
      /\ \A x \in Run \ {r} : lease'[x] = lease[x]
  BY DEF TypeOK
<1>2. \A x \in Run \ {r} : Becomes(x, Was(x))
  BY <1>1 DEF Becomes, Was
<1>3. CASE Was(r) = "reclaimed"
  <2>1. Becomes(r, "failed")
    <3>1. run[r].phase = "error"
      BY <1>3, WasPhase
    <3>2. QED BY <1>1, <3>1 DEF Becomes, StatusAs, NoLease
  <2>2. \A x \in Run : Becomes(x, IF x = r THEN "failed" ELSE Was(x))
    BY <1>2, <2>1
  <2>3. SeenMove(r, {"working", "reclaimed"}, "failed")
    BY <1>3, <2>2, MoveSeen
  <2>4. QED BY <2>3 DEF SeenStep
<1>4. CASE Was(r) # "reclaimed"
  <2>1. ~(run[r].phase = "error" /\ lease[r].state = "grace")
    BY <1>4, WasPhase
  <2>2. Becomes(r, Was(r))
    BY <1>1, <2>1 DEF Becomes, Was, StatusAs, NoLease
  <2>3. QED BY <1>2, <2>2, StutterSeen
<1>5. QED BY <1>3, <1>4

LEMMA RunStepSeen ==
  ASSUME TypeOK, RunningHoldsLease, NEW r \in Run,
         \/ ReportDenied(r) \/ CancelRun(r) \/ ReclaimStaleRun(r)
         \/ PruneGraceLease(r) \/ ApplyRunProgress(r)
  PROVE  SeenStep
<1>0. run[r] \in RunRow /\ lease[r] \in Lease
  BY DEF TypeOK
<1>1. CASE ReportDenied(r) \/ PruneGraceLease(r)
  <2>1. run[r].phase # "running" \/ lease[r].state # "active"
    BY <1>1 DEF ReportDenied, PruneGraceLease, LeaseDead, Finalizes
  <2>2. QED BY <1>1, <2>1, LeaseGoneSeen DEF ReportDenied, PruneGraceLease
<1>2. CASE CancelRun(r)
  <2>1. Was(r) \in {"waiting", "working"}
    BY <1>2, WasPhase DEF CancelRun
  <2>2. run'[r] = Canceled(r)
    BY <1>2 DEF CancelRun, TypeOK
  <2>3. Becomes(r, "canceled")
    BY <1>0, <2>2 DEF Canceled, RunRow, Becomes, StatusAs
  <2>4. \A x \in Run \ {r} : Becomes(x, Was(x))
    BY <1>2 DEF CancelRun, TypeOK, Becomes, Was
  <2>5. \A x \in Run : Becomes(x, IF x = r THEN "canceled" ELSE Was(x))
    BY <2>3, <2>4
  <2>6. SeenMove(r, {"waiting", "working"}, "canceled")
    BY <2>1, <2>5, MoveSeen
  <2>7. QED BY <2>6 DEF SeenStep
<1>3. CASE ReclaimStaleRun(r)
  <2>1. Was(r) \in {"working"}
    BY <1>3, WasPhase DEF ReclaimStaleRun, Reclaimable
  <2>2. /\ run'[r] = [run[r] EXCEPT !.phase = "error", !.idle = 0]
        /\ lease'[r] = [lease[r] EXCEPT !.state = "grace", !.left = Grace]
    BY <1>3 DEF ReclaimStaleRun, TypeOK
  <2>3. /\ run'[r].phase = "error" /\ run'[r].loop = run[r].loop
        /\ lease'[r].state = "grace"
    BY <1>0, <2>2 DEF RunRow, Lease
  <2>4. Becomes(r, "reclaimed")
    BY <2>3 DEF Becomes, StatusAs
  <2>5. \A x \in Run \ {r} : Becomes(x, Was(x))
    BY <1>3 DEF ReclaimStaleRun, TypeOK, Becomes, Was
  <2>6. \A x \in Run : Becomes(x, IF x = r THEN "reclaimed" ELSE Was(x))
    BY <2>4, <2>5
  <2>7. SeenMove(r, {"working"}, "reclaimed")
    BY <2>1, <2>6, MoveSeen
  <2>8. QED BY <2>7 DEF SeenStep
<1>4. CASE ApplyRunProgress(r)
  <2>1. \A x \in Run : run'[x].phase = run[x].phase /\ run'[x].loop = run[x].loop
                       /\ lease'[x] = lease[x]
    BY <1>4 DEF ApplyRunProgress, TypeOK, RunRow
  <2>2. \A x \in Run : Becomes(x, Was(x))
    BY <2>1 DEF Becomes, Was, StatusAs
  <2>3. QED BY <2>2, StutterSeen
<1>5. QED BY <1>1, <1>2, <1>3, <1>4

LEMMA TickSeen == ASSUME TypeOK, Tick PROVE SeenStep
<1>1. \A x \in Run : run'[x].phase = run[x].phase /\ run'[x].loop = run[x].loop
                     /\ lease'[x].state = lease[x].state
  <2> TAKE x \in Run
  <2>1. run[x] \in RunRow /\ lease[x] \in Lease
    BY DEF TypeOK
  <2>2. run'[x] = run[x] \/ run'[x] = [run[x] EXCEPT !.idle = @ + 1]
    BY DEF Tick
  <2>3. lease'[x] = lease[x] \/ lease'[x] = [lease[x] EXCEPT !.left = @ - 1]
    BY DEF Tick
  <2>4. QED BY <2>1, <2>2, <2>3 DEF RunRow, Lease
<1>2. \A x \in Run : Becomes(x, Was(x))
  BY <1>1 DEF Becomes, Was, StatusAs
<1>3. QED BY <1>2, StutterSeen

LEMMA NextSeen ==
  ASSUME TypeOK, RunningHoldsLease, [Next]_vars PROVE SeenStep
<1>1. CASE \E h \in Handler : Begin(h)
  BY <1>1, UntouchedSeen DEF Begin
<1>2. CASE Restart \/ UNCHANGED vars
  BY <1>2, UntouchedSeen DEF Restart, vars
<1>3. QED BY <1>1, <1>2, CallStepSeen, ReportSeen, RunStepSeen, TickSeen DEF Next

LEMMA InitContract == Init => Contract!Init
<1> SUFFICES ASSUME Init PROVE Contract!Init
  OBVIOUS
<1>1. PICK l \in Loop :
        run = [r \in Run |-> IF r \in LegacyRun THEN Inherited(l) ELSE NoRun]
  BY DEF Init
<1>2. ASSUME NEW r \in Run
      PROVE  IF r \in LegacyRun THEN Seen[r] = "working" /\ Owned[r] = l
                                ELSE Seen[r] = "absent" /\ Owned[r] = None
  <2>1. Seen[r] = StatusAs(run[r], lease[r]) /\ Owned[r] = run[r].loop
    BY SeenAs
  <2>2. CASE r \in LegacyRun
    <3>1. run[r] = Inherited(l)
      BY <1>1, <2>2
    <3>2. run[r].phase = "running" /\ run[r].loop = l
      BY <3>1 DEF Inherited, NoRun
    <3>3. QED BY <2>1, <2>2, <3>2 DEF StatusAs
  <2>3. CASE r \notin LegacyRun
    <3>1. run[r] = NoRun
      BY <1>1, <2>3
    <3>2. QED BY <2>1, <2>3, <3>1 DEF StatusAs, NoRun
  <2>4. QED BY <2>2, <2>3
<1>3. None \notin Loop /\ \A r, s \in LegacyRun : r = s
  BY LoopAssumption, LegacyAssumption
<1>4. Seen \in [Run -> {"absent", "working"}]
  <2>1. Seen = [r \in Run |-> Seen[r]]
    BY DEF Seen
  <2>2. QED BY <1>2, <2>1
<1>5. Owned \in [Run -> Loop \cup {None}]
  <2>1. Owned = [r \in Run |-> Owned[r]]
    BY DEF Owned
  <2>2. QED BY <1>2, <2>1
<1>6. \A r, s \in Run : Seen[r] = "working" /\ Seen[s] = "working" => r = s
  BY <1>2, <1>3
<1>7. \A r \in Run : Seen[r] = "working" <=> Owned[r] # None
  BY <1>2, <1>3
<1>8. QED BY <1>4, <1>5, <1>6, <1>7 DEF Contract!Init, Seen, Owned

\* The coordination keeps its contract: a run is handed out once and settles
\* once, a loop works on one run at a time, and only a reclaimed run has a second
\* chance to report, through every retry, sweep, cancel, reopen and restart.
THEOREM ContractSafety == Spec => ImplementsContract
<1>1. TypeOK /\ RunningHoldsLease /\ [Next]_vars => [Contract!Next]_(Contract!vars)
  BY NextSeen, SeenStepIsStep
<1>2. QED BY <1>1, InitContract, TypeCorrect, LeaseSafety, PTL
     DEF Spec, ImplementsContract, Contract!Spec


--------------------------------------------------------------------------------
(***************************************************************************)
(* Every write of a row moves its revision by one.                         *)
(***************************************************************************)

LEMMA BumpRevision ==
  ASSUME NEW row \in Row
  PROVE  Bump(row).revision = row.revision + 1
BY DEF Bump, Row

LEMMA KernelsKeepRevision ==
  ASSUME NEW row \in Row, NEW x, NEW t, NEW patch
  PROVE  /\ GoalUpdate(row, x).revision = row.revision
         /\ TaskFileUpdate(row, x).revision = row.revision
         /\ ScheduleTransition(row, patch, t).revision = row.revision
         /\ Reopening(row, t).revision = row.revision
         /\ Completion(row).revision = row.revision
         /\ [row EXCEPT !.lastScheduledAt = x].revision = row.revision
<1>1. /\ GoalUpdate(row, x).revision = row.revision
      /\ TaskFileUpdate(row, x).revision = row.revision
      /\ [row EXCEPT !.lastScheduledAt = x].revision = row.revision
  BY DEF GoalUpdate, TaskFileUpdate, Row
<1>2. ScheduleTransition(row, patch, t).revision = row.revision
  BY DEF ScheduleTransition, Row
<1>3. Reopening(row, t).revision = row.revision
  BY DEF Reopening, ScheduleTransition, Row
<1>4. Completion(row).revision = row.revision
  BY DEF Completion, Row
<1>5. QED BY <1>1, <1>2, <1>3, <1>4

RowsMove ==
  \A l \in Loop :
    loop'[l] = loop[l] \/ loop'[l].revision = loop[l].revision + 1

LEMMA WriteLoopMoves ==
  ASSUME LoopsOK, NEW l \in Loop, NEW row \in Row,
         row.revision = loop[l].revision, WriteLoop(l, row)
  PROVE  RowsMove
BY BumpRevision DEF WriteLoop, RowsMove, LoopsOK

LEMMA CallStepRowsMove ==
  ASSUME TypeOK, NEW h \in Handler, CallStep(h)
  PROVE  RowsMove
<1> USE TypeParts
<1> DEFINE l == call[h].loop  snap == call[h].snap
<1>1. CASE UNCHANGED loop
  BY <1>1 DEF RowsMove
<1>2. CASE Retry(h)
  BY <1>1, <1>2 DEF Retry
<1>3. ASSUME call[h].stage = "held" PROVE l \in Loop /\ loop[l] \in Row /\ snap \in Row
  BY <1>3, HeldType DEF LoopsOK
<1>4. ASSUME call[h].stage = "held", WriteLoop(l, loop[l]) PROVE RowsMove
  BY <1>3, <1>4, WriteLoopMoves
<1>5. CASE RunNow(h)
  BY <1>1, <1>4, <1>5 DEF RunNow, Holds, AnswerOnly, LoseGuard
<1>6. CASE ScheduledEnqueue(h)
  <2> DEFINE row == [loop[l] EXCEPT !.lastScheduledAt = call[h].arg.at]
  <2>1. l \in Loop /\ loop[l] \in Row /\ row \in Row
    BY <1>3, <1>6, HeldType, WatermarkType DEF ScheduledEnqueue, Holds
  <2>2. row.revision = loop[l].revision
    BY <2>1, KernelsKeepRevision
  <2>3. QED BY <1>1, <1>6, <2>1, <2>2, WriteLoopMoves
       DEF ScheduledEnqueue, LoseGuard
<1>7. CASE Claim(h)
  BY <1>1, <1>4, <1>7 DEF Claim, Holds, AnswerOnly, LoseGuard
<1>8. ASSUME call[h].stage = "held", NEW row \in Row, row.revision = snap.revision,
             GuardedWrite(h, row)
      PROVE  RowsMove
  BY <1>1, <1>3, <1>8, WriteLoopMoves DEF GuardedWrite, LoseGuard, Guard
<1>9. CASE UpdateGoal(h)
  <2>1. snap \in Row /\ call[h].arg \in Goal \cup {None}
    BY <1>9, HeldType DEF UpdateGoal, Holds
  <2>2. QED BY <1>8, <1>9, <2>1, GoalUpdateType, KernelsKeepRevision
       DEF UpdateGoal, Holds
<1>10. CASE UpdateSchedule(h)
  <2>1. snap \in Row /\ call[h].arg \in Patch /\ call[h].at \in Nat
    BY <1>10, HeldType DEF UpdateSchedule, Holds
  <2>2. QED BY <1>8, <1>10, <2>1, ScheduleTransitionType, KernelsKeepRevision
       DEF UpdateSchedule, Holds
<1>11. CASE UpdateTaskFile(h)
  <2> DEFINE row == TaskFileUpdate(loop[l], call[h].arg)
  <2>1. call[h].stage = "held" /\ l \in Loop /\ loop[l] \in Row /\ row \in Row
    BY <1>3, <1>11, HeldType, TaskFileUpdateType DEF UpdateTaskFile, Holds
  <2>2. row.revision = loop[l].revision
    BY <2>1, KernelsKeepRevision
  <2>3. QED BY <1>1, <1>11, <2>1, <2>2, WriteLoopMoves
       DEF UpdateTaskFile, GuardedWrite, LoseGuard, AnswerOnly
<1>12. CASE ReopenLoop(h)
  <2> DEFINE row == Reopening(snap, call[h].at)
  <2>1. l \in Loop /\ snap \in Row /\ row \in Row
    BY <1>12, HeldType, ReopeningType DEF ReopenLoop, Holds
  <2>2. row.revision = snap.revision
    BY <2>1, KernelsKeepRevision
  <2>3. QED BY <1>1, <1>12, <2>1, <2>2, WriteLoopMoves
       DEF ReopenLoop, LoseGuard, Guard
<1>13. QED BY <1>2, <1>5, <1>6, <1>7, <1>9, <1>10, <1>11, <1>12 DEF CallStep

LEMMA ReportRowsMove ==
  ASSUME TypeOK, NEW r \in Run, NEW b, Report(r, b)
  PROVE  RowsMove
<1> USE TypeParts
<1> DEFINE row == loop[run[r].loop]  promoted == Promote(row, r, b)
<1>1. run[r].loop \in Loop /\ row \in Row
  BY DEF Report, Finalizes, Reconciles, RunsOK, LoopsOK
<1>2. promoted \in Row
  BY <1>1, PromoteType DEF RunsOK, RunRow
<1>3. promoted.revision = row.revision
  BY <1>1 DEF Promote, Row
<1>4. \/ LoopAfterReport(r, b) = row
      \/ LoopAfterReport(r, b).revision = row.revision + 1
  BY <1>2, <1>3, CompletionType, KernelsKeepRevision, BumpRevision
     DEF LoopAfterReport
<1>5. QED BY <1>1, <1>4 DEF Report, RowsMove, LoopsOK

LEMMA NextRowsMove ==
  ASSUME TypeOK, [Next]_vars
  PROVE  RowsMove
<1>1. CASE UNCHANGED loop
  BY <1>1 DEF RowsMove
<1>2. ASSUME NEW h \in Handler, Begin(h) \/ CallStep(h) PROVE RowsMove
  BY <1>1, <1>2, CallStepRowsMove DEF Begin
<1>3. ASSUME NEW r \in Run, NEW b \in Body, Report(r, b) PROVE RowsMove
  BY <1>3, ReportRowsMove
<1>4. ASSUME NEW r \in Run,
             \/ ReportDenied(r) \/ CancelRun(r) \/ ReclaimStaleRun(r)
             \/ PruneGraceLease(r) \/ ApplyRunProgress(r)
      PROVE  RowsMove
  BY <1>1, <1>4 DEF ReportDenied, CancelRun, ReclaimStaleRun, PruneGraceLease,
                    ApplyRunProgress
<1>5. CASE Tick \/ Restart \/ UNCHANGED vars
  BY <1>1, <1>5 DEF Tick, Restart, vars
<1>6. QED BY <1>2, <1>3, <1>4, <1>5 DEF Next

--------------------------------------------------------------------------------
(***************************************************************************)
(* A held snapshot is never newer than its row, and at the row's revision  *)
(* it is the row.                                                          *)
(***************************************************************************)

Behind(c) ==
  c.stage = "held" =>
    /\ c.snap.revision <= loop[c.loop].revision
    /\ c.snap.revision = loop[c.loop].revision => c.snap = loop[c.loop]

SnapshotsBehind == \A h \in Handler : Behind(call[h])

\* What a step does to a call: nothing, release it, or hand it a fresh row that
\* passed the call's checks.
CallMoves(h) ==
  \/ call'[h] = call[h]
  \/ call'[h].stage # "held"
  \/ /\ UNCHANGED loop
     /\ \E op, arg, attempt : \E l \in Loop :
          /\ call'[h] = Held(op, arg, l, attempt)
          /\ Admits(op, arg, l, loop[l])

LEMMA AnswerMoves ==
  ASSUME CallsOK, NEW g \in Handler, NEW h \in Handler,
         Answer(g) \/ LoseGuard(g)
  PROVE  CallMoves(h)
BY DEF Answer, LoseGuard, CallMoves, CallsOK, Free, Retrying

LEMMA NextCallsMove ==
  ASSUME TypeOK, [Next]_vars, NEW h \in Handler
  PROVE  CallMoves(h)
<1> USE TypeParts
<1>1. CASE UNCHANGED call
  BY <1>1 DEF CallMoves
<1>2. ASSUME NEW g \in Handler, Begin(g) PROVE CallMoves(h)
  <2>1. PICK l \in Loop, q \in Request :
          /\ Admits(q.op, q.arg, l, loop[l])
          /\ call' = [call EXCEPT ![g] = Held(q.op, q.arg, l, 1)]
    BY <1>2 DEF Begin
  <2>2. QED BY <1>2, <2>1 DEF Begin, CallMoves, CallsOK
<1>3. ASSUME NEW g \in Handler, Retry(g) PROVE CallMoves(h)
  <2>1. call[g].loop \in Loop
    BY <1>3 DEF Retry, CallsOK, CallTypeOK, Free
  <2>2. QED BY <1>3, <2>1 DEF Retry, CallMoves, CallsOK, Free
<1>4. ASSUME NEW g \in Handler, CallStep(g), ~Retry(g) PROVE CallMoves(h)
  <2>1. Answer(g) \/ LoseGuard(g)
    BY <1>4 DEF CallStep, RunNow, ScheduledEnqueue, Claim, UpdateGoal,
                UpdateSchedule, UpdateTaskFile, ReopenLoop, GuardedWrite,
                AnswerOnly
  <2>2. QED BY <2>1, AnswerMoves
<1>5. ASSUME NEW r \in Run, NEW b \in Body, Report(r, b) PROVE CallMoves(h)
  BY <1>1, <1>5 DEF Report
<1>6. ASSUME NEW r \in Run,
             \/ ReportDenied(r) \/ CancelRun(r) \/ ReclaimStaleRun(r)
             \/ PruneGraceLease(r) \/ ApplyRunProgress(r)
      PROVE  CallMoves(h)
  BY <1>1, <1>6 DEF ReportDenied, CancelRun, ReclaimStaleRun, PruneGraceLease,
                    ApplyRunProgress
<1>7. CASE Tick \/ UNCHANGED vars
  BY <1>1, <1>7 DEF Tick, vars
<1>8. CASE Restart
  BY <1>8 DEF Restart, CallMoves, Free
<1>9. QED BY <1>2, <1>3, <1>4, <1>5, <1>6, <1>7, <1>8 DEF Next

LEMMA SnapshotsBehindHolds == Spec => []SnapshotsBehind
<1>1. Init => SnapshotsBehind
  BY DEF Init, SnapshotsBehind, Behind, Free
<1>2. TypeOK /\ SnapshotsBehind /\ [Next]_vars => SnapshotsBehind'
  <2> SUFFICES ASSUME TypeOK, SnapshotsBehind, [Next]_vars, NEW h \in Handler,
                      call'[h].stage = "held"
               PROVE  /\ call'[h].snap.revision <= loop'[call'[h].loop].revision
                      /\ call'[h].snap.revision = loop'[call'[h].loop].revision
                           => call'[h].snap = loop'[call'[h].loop]
    BY DEF SnapshotsBehind, Behind
  <2>1. CASE call'[h] = call[h]
    <3> DEFINE l == call[h].loop
    <3>1. l \in Loop /\ call[h].snap.revision \in Nat /\ loop[l].revision \in Nat
      BY <2>1, TypeParts, HeldType DEF LoopsOK, Row
    <3>2. loop'[l] = loop[l] \/ loop'[l].revision = loop[l].revision + 1
      BY <3>1, NextRowsMove DEF RowsMove
    <3>3. Behind(call[h])
      BY DEF SnapshotsBehind
    <3>4. QED BY <2>1, <3>1, <3>2, <3>3 DEF Behind
  <2>2. ASSUME UNCHANGED loop, NEW op, NEW arg, NEW attempt, NEW l \in Loop,
               call'[h] = Held(op, arg, l, attempt)
        PROVE  call'[h].snap = loop'[l] /\ call'[h].loop = l
    BY <2>2 DEF Held
  <2>3. CASE ~(call'[h] = call[h])
    <3>1. PICK op, arg, attempt : \E l \in Loop :
            call'[h] = Held(op, arg, l, attempt)
      BY <2>3, NextCallsMove DEF CallMoves
    <3>2. PICK l \in Loop : call'[h] = Held(op, arg, l, attempt)
      BY <3>1
    <3>3. UNCHANGED loop
      BY <2>3, NextCallsMove DEF CallMoves
    <3>4. loop'[l].revision \in Nat
      BY <3>3, TypeParts DEF LoopsOK, Row
    <3>5. QED BY <2>2, <3>2, <3>3, <3>4
  <2>4. QED BY <2>1, <2>3
<1>3. QED BY <1>1, <1>2, TypeCorrect, PTL DEF Spec

\* The revision guard is sound: a call that passes it decides from the row as
\* it is, however many writers came and went since it read.
THEOREM GuardSafety == Spec => []SnapshotIsCurrent
<1>1. SnapshotsBehind => SnapshotIsCurrent
  BY DEF SnapshotsBehind, Behind, SnapshotIsCurrent, Guard
<1>2. QED BY <1>1, SnapshotsBehindHolds, PTL

--------------------------------------------------------------------------------
(***************************************************************************)
(* A completed loop is at rest.  RestInv is CompletedLoopAtRest said of    *)
(* rows and of runs; it is preserved because a call that read its row      *)
(* before a finish loses the guard, and one that read it after was refused.*)
(***************************************************************************)

RowAtRest(row) ==
  row.completed => /\ ~row.enabled
                   /\ row.goal # None
                   /\ row.scheduleActivatedAt = None

PendingRest == \A r \in Run :
  run[r].phase = "pending" => ~loop[run[r].loop].completed

RestInv == (\A l \in Loop : RowAtRest(loop[l])) /\ PendingRest

\* What the checks of a call say of its snapshot.
Decided(c) ==
  c.stage = "held" =>
    /\ c.op \in {"runNow", "scheduled", "claim", "goal"} => ~c.snap.completed
    /\ c.op = "schedule" => ~(c.snap.completed /\ c.arg.enabled = TRUE)

AllDecided == \A h \in Handler : Decided(call[h])

LEMMA AdmitsDecided ==
  ASSUME NEW op, NEW arg, NEW l, NEW attempt, Admits(op, arg, l, loop[l])
  PROVE  Decided(Held(op, arg, l, attempt))
BY DEF Admits, Decided, Held, OccurrenceAdmits, GoalAdmits, ScheduleAdmits

LEMMA AllDecidedHolds == Spec => []AllDecided
<1>1. Init => AllDecided
  BY DEF Init, AllDecided, Decided, Free
<1>2. TypeOK /\ AllDecided /\ [Next]_vars => AllDecided'
  <2> SUFFICES ASSUME TypeOK, AllDecided, [Next]_vars, NEW h \in Handler
               PROVE  Decided(call'[h])
    BY DEF AllDecided, Decided
  <2>1. CASE call'[h] = call[h]
    BY <2>1 DEF AllDecided
  <2>2. CASE call'[h].stage # "held"
    BY <2>2 DEF Decided
  <2>3. ASSUME NEW op, NEW arg, NEW attempt, NEW l \in Loop,
               call'[h] = Held(op, arg, l, attempt),
               Admits(op, arg, l, loop[l])
        PROVE  Decided(call'[h])
    BY <2>3, AdmitsDecided
  <2>4. QED BY <2>1, <2>2, <2>3, NextCallsMove DEF CallMoves
<1>3. QED BY <1>1, <1>2, TypeCorrect, PTL DEF Spec

LEMMA KernelsAtRest ==
  ASSUME NEW row \in Row, RowAtRest(row), NEW patch \in Patch, NEW t \in Nat,
         ~(row.completed /\ patch.enabled = TRUE), NEW path
  PROVE  /\ RowAtRest(ScheduleTransition(row, patch, t))
         /\ ScheduleTransition(row, patch, t).completed = row.completed
         /\ RowAtRest(TaskFileUpdate(row, path))
         /\ TaskFileUpdate(row, path).completed = row.completed
<1>1. ScheduleTransition(row, patch, t).completed = row.completed
  BY DEF ScheduleTransition, Row
<1>2. CASE row.completed
  <2>1. ~Patched(row.enabled, patch.enabled)
    BY <1>2 DEF RowAtRest, Patched, Patch
  <2>2. RowAtRest(ScheduleTransition(row, patch, t))
    BY <1>2, <2>1 DEF ScheduleTransition, RowAtRest, Row
  <2>3. QED BY <1>1, <2>2 DEF TaskFileUpdate, RowAtRest, Row
<1>3. CASE ~row.completed
  BY <1>1, <1>3 DEF TaskFileUpdate, RowAtRest, Row
<1>4. QED BY <1>2, <1>3

LEMMA OpenRowAtRest ==
  ASSUME NEW row \in Row, ~row.completed, NEW x, NEW t
  PROVE  /\ ~GoalUpdate(row, x).completed
         /\ ~[row EXCEPT !.lastScheduledAt = x].completed
BY DEF GoalUpdate, Row

\* A step that writes one row, to which it may add pending runs only while the
\* row is not completed.
LEMMA WriteLoopRest ==
  ASSUME TypeOK, RestInv, NEW l \in Loop, NEW row \in Row, WriteLoop(l, row),
         row.completed => loop[l].completed,
         RowAtRest(row),
         \A x \in Run : run'[x].phase = "pending" =>
           \/ run[x].phase = "pending" /\ run'[x].loop = run[x].loop
           \/ run'[x].loop = l /\ ~row.completed
  PROVE  RestInv'
<1> USE TypeParts
<1>1. /\ Bump(row).completed = row.completed
      /\ RowAtRest(Bump(row))
  BY DEF Bump, RowAtRest, Row
<1>2. \A m \in Loop : loop'[m] = IF m = l THEN Bump(row) ELSE loop[m]
  BY DEF WriteLoop, LoopsOK
<1>3. \A m \in Loop : /\ RowAtRest(loop'[m])
                      /\ loop'[m].completed => loop[m].completed
  BY <1>1, <1>2 DEF RestInv
<1>4. \A x \in Run : run'[x].phase = "pending" => ~loop'[run'[x].loop].completed
  <2> TAKE x \in Run
  <2>1. CASE run[x].phase = "pending" /\ run'[x].loop = run[x].loop
    BY <1>3, <2>1 DEF RestInv, PendingRest, RunsOK
  <2>2. CASE run'[x].loop = l /\ ~row.completed
    BY <1>1, <1>2, <2>2
  <2>3. QED BY <2>1, <2>2
<1>5. QED BY <1>3, <1>4 DEF RestInv, PendingRest, RowAtRest

PendingShrinks ==
  \A x \in Run : run'[x].phase = "pending" =>
    run[x].phase = "pending" /\ run'[x].loop = run[x].loop

LEMMA MovedShrinks == Moved => PendingShrinks
BY DEF Moved, Moves, PendingShrinks

LEMMA InsertRunPending ==
  ASSUME RunsOK, NEW r \in Run, run[r].phase = "absent", NEW l \in Loop,
         NEW due \in Nat \cup {None}, InsertRun(r, l, due)
  PROVE  \A x \in Run : run'[x].phase = "pending" =>
           \/ run[x].phase = "pending" /\ run'[x].loop = run[x].loop
           \/ run'[x].loop = l
BY InsertRunPhases

LEMMA SameLoopRest ==
  ASSUME RestInv, UNCHANGED loop, PendingShrinks
  PROVE  RestInv'
BY DEF RestInv, PendingRest, RowAtRest, PendingShrinks

LEMMA CallStepRest ==
  ASSUME TypeOK, SnapshotIsCurrent, AllDecided, RestInv,
         NEW h \in Handler, CallStep(h)
  PROVE  RestInv'
<1> USE TypeParts
<1> DEFINE l == call[h].loop  snap == call[h].snap
<1>1. CASE UNCHANGED <<loop, run>>
  BY <1>1, SameLoopRest DEF PendingShrinks
<1>2. ASSUME call[h].stage = "held"
      PROVE  /\ l \in Loop /\ loop[l] \in Row /\ RowAtRest(loop[l])
             /\ Guard(h) => snap = loop[l]
             /\ call[h].op \in {"runNow", "scheduled", "claim", "goal"}
                  => ~snap.completed
  BY <1>2, HeldType DEF LoopsOK, RestInv, SnapshotIsCurrent, AllDecided, Decided
<1>3. CASE Retry(h)
  BY <1>1, <1>3 DEF Retry
<1>4. CASE RunNow(h)
  <2>1. l \in Loop /\ loop[l] \in Row /\ (Guard(h) => ~loop[l].completed)
    BY <1>2, <1>4 DEF RunNow, Holds
  <2>2. CASE AnswerOnly(h) \/ LoseGuard(h)
    BY <1>1, <2>2 DEF AnswerOnly, LoseGuard
  <2>3. ASSUME Guard(h), WriteLoop(l, loop[l]), NEW r \in Run,
               run[r].phase = "absent", InsertRun(r, l, None)
        PROVE  RestInv'
    <3>1. \A x \in Run : run'[x].phase = "pending" =>
             \/ run[x].phase = "pending" /\ run'[x].loop = run[x].loop
             \/ run'[x].loop = l
      BY <2>1, <2>3, InsertRunPending
    <3>2. QED BY <2>1, <2>3, <3>1, WriteLoopRest DEF RestInv
  <2>4. QED BY <1>4, <2>2, <2>3 DEF RunNow
<1>5. CASE ScheduledEnqueue(h)
  <2> DEFINE at == call[h].arg.at
             row == [loop[l] EXCEPT !.lastScheduledAt = at]
  <2>1. /\ l \in Loop /\ loop[l] \in Row /\ (Guard(h) => ~loop[l].completed)
        /\ at \in Nat /\ row \in Row
    BY <1>2, <1>5, HeldType, WatermarkType DEF ScheduledEnqueue, Holds
  <2>2. CASE LoseGuard(h)
    BY <1>1, <2>2 DEF LoseGuard
  <2>3. CASE /\ Guard(h) /\ WriteLoop(l, row)
             /\ \/ UNCHANGED run
                \/ \E r \in Run : run[r].phase = "absent" /\ InsertRun(r, l, at)
    <3>1. \A x \in Run : run'[x].phase = "pending" =>
             \/ run[x].phase = "pending" /\ run'[x].loop = run[x].loop
             \/ run'[x].loop = l
      BY <2>1, <2>3, InsertRunPending
    <3>2. ~row.completed
      BY <2>1, <2>3, OpenRowAtRest
    <3>3. RowAtRest(row)
      BY <3>2 DEF RowAtRest
    <3>4. QED BY <2>1, <2>3, <3>1, <3>2, <3>3, WriteLoopRest
  <2>4. QED BY <1>5, <2>2, <2>3 DEF ScheduledEnqueue
<1>6. CASE Claim(h)
  <2>1. l \in Loop /\ loop[l] \in Row /\ RowAtRest(loop[l])
    BY <1>2, <1>6 DEF Claim, Holds
  <2>2. CASE AnswerOnly(h) \/ LoseGuard(h)
    BY <1>1, <2>2 DEF AnswerOnly, LoseGuard
  <2>3. CASE WriteLoop(l, loop[l]) /\ UNCHANGED now
             /\ run' = [run EXCEPT ![call[h].arg] = ClaimedRun(call[h].arg, loop[l])]
    <3>1. \A x \in Run : run'[x].phase = "pending" =>
             run[x].phase = "pending" /\ run'[x].loop = run[x].loop
      BY <2>3 DEF ClaimedRun, RunsOK, RunRow
    <3>2. QED BY <2>1, <2>3, <3>1, WriteLoopRest
  <2>4. QED BY <1>6, <2>2, <2>3 DEF Claim
<1>7. ASSUME call[h].stage = "held", NEW row \in Row, GuardedWrite(h, row),
             Guard(h) => /\ row.completed => loop[l].completed
                         /\ RowAtRest(row)
      PROVE  RestInv'
  <2>1. CASE LoseGuard(h)
    BY <1>1, <2>1 DEF LoseGuard
  <2>2. CASE Guard(h) /\ WriteLoop(l, row) /\ UNCHANGED run
    BY <1>2, <1>7, <2>2, WriteLoopRest
  <2>3. QED BY <1>7, <2>1, <2>2 DEF GuardedWrite
<1>8. CASE UpdateGoal(h)
  <2> DEFINE row == GoalUpdate(snap, call[h].arg)
  <2>1. snap \in Row /\ ~snap.completed /\ row \in Row
    BY <1>2, <1>8, HeldType, GoalUpdateType DEF UpdateGoal, Holds
  <2>2. ~row.completed
    BY <2>1, OpenRowAtRest
  <2>3. QED BY <1>7, <1>8, <2>1, <2>2 DEF UpdateGoal, Holds, RowAtRest
<1>9. CASE UpdateSchedule(h)
  <2> DEFINE row == ScheduleTransition(snap, call[h].arg, call[h].at)
  <2>1. /\ snap \in Row /\ call[h].arg \in Patch /\ call[h].at \in Nat /\ row \in Row
        /\ ~(snap.completed /\ call[h].arg.enabled = TRUE)
    BY <1>9, HeldType, ScheduleTransitionType
       DEF UpdateSchedule, Holds, AllDecided, Decided
  <2>2. Guard(h) => snap = loop[l] /\ RowAtRest(snap)
    BY <1>2, <1>9 DEF UpdateSchedule, Holds
  <2>3. Guard(h) => /\ row.completed => loop[l].completed
                    /\ RowAtRest(row)
    BY <2>1, <2>2, KernelsAtRest
  <2>4. QED BY <1>7, <1>9, <2>1, <2>3 DEF UpdateSchedule, Holds
<1>10. CASE UpdateTaskFile(h)
  <2> DEFINE row == TaskFileUpdate(loop[l], call[h].arg)
  <2>1. loop[l] \in Row /\ RowAtRest(loop[l]) /\ row \in Row
    BY <1>2, <1>10, HeldType, TaskFileUpdateType DEF UpdateTaskFile, Holds
  <2>2. (row.completed => loop[l].completed) /\ RowAtRest(row)
    BY <2>1 DEF TaskFileUpdate, RowAtRest, Row
  <2>3. CASE AnswerOnly(h)
    BY <1>1, <2>3 DEF AnswerOnly
  <2>4. CASE GuardedWrite(h, row)
    BY <1>7, <1>10, <2>1, <2>2, <2>4 DEF UpdateTaskFile, Holds
  <2>5. QED BY <1>10, <2>3, <2>4 DEF UpdateTaskFile
<1>11. CASE ReopenLoop(h)
  <2> DEFINE row == Reopening(snap, call[h].at)
  <2>1. /\ l \in Loop /\ snap \in Row /\ row \in Row
        /\ ScheduleTransition(snap, [cron |-> Keep, enabled |-> TRUE], call[h].at) \in Row
    BY <1>11, HeldType, ReopeningType, ScheduleTransitionType
       DEF ReopenLoop, Holds, Patch
  <2>2. ~row.completed
    BY <2>1 DEF Reopening, Row
  <2>3. CASE LoseGuard(h)
    BY <1>1, <2>3 DEF LoseGuard
  <2>4. CASE /\ WriteLoop(l, row)
             /\ run' = [r \in Run |->
                  IF r \in RunsOf(l, "pending") \cup RunsOf(l, "running")
                  THEN Canceled(r) ELSE run[r]]
    <3>1. \A x \in Run : run'[x].phase = "pending" =>
             run[x].phase = "pending" /\ run'[x].loop = run[x].loop
      BY <2>4 DEF Canceled, RunsOK, RunRow
    <3>2. QED BY <2>1, <2>2, <2>4, <3>1, WriteLoopRest DEF RowAtRest
  <2>5. QED BY <1>11, <2>3, <2>4 DEF ReopenLoop
<1>12. QED BY <1>3, <1>4, <1>5, <1>6, <1>8, <1>9, <1>10, <1>11 DEF CallStep

LEMMA PromoteRest ==
  ASSUME NEW row \in Row, RowAtRest(row), NEW r, NEW b
  PROVE  /\ Promote(row, r, b).completed = row.completed
         /\ Promote(row, r, b).goal = row.goal
         /\ RowAtRest(Promote(row, r, b))
BY DEF Promote, RowAtRest, Row

LEMMA CompletionRest ==
  ASSUME NEW row \in Row, row.goal # None
  PROVE  RowAtRest(Completion(row))
BY DEF Completion, RowAtRest, Row

LEMMA BumpRest ==
  ASSUME NEW row \in Row
  PROVE  /\ Bump(row).completed = row.completed
         /\ RowAtRest(row) => RowAtRest(Bump(row))
BY DEF Bump, RowAtRest, Row

LEMMA ReportRest ==
  ASSUME TypeOK, RestInv, NEW r \in Run, NEW b, Report(r, b)
  PROVE  RestInv'
<1> USE TypeParts
<1> DEFINE l == run[r].loop  row == loop[l]  promoted == Promote(row, r, b)
<1>1. l \in Loop /\ row \in Row /\ RowAtRest(row) /\ promoted \in Row
  BY PromoteType DEF Report, Finalizes, Reconciles, RunsOK, RunRow, LoopsOK,
                     RestInv
<1>2. /\ promoted.completed = row.completed /\ promoted.goal = row.goal
      /\ RowAtRest(promoted)
  BY <1>1, PromoteRest
<1>3. Moved
  BY ReportMoves
<1>4. \A m \in Loop : loop'[m] = IF m = l THEN LoopAfterReport(r, b) ELSE loop[m]
  BY DEF Report, LoopsOK
<1>5. CASE Finishes(r, b)
  <2>1. Completion(promoted) \in Row /\ RowAtRest(Completion(promoted))
    BY <1>1, <1>2, <1>5, CompletionType, CompletionRest
       DEF Finishes, FinishAdmits
  <2>2. RowAtRest(LoopAfterReport(r, b))
    BY <1>5, <2>1, BumpRest DEF LoopAfterReport
  <2>3. \A x \in Run : run'[x].phase = "pending" =>
          run[x].phase = "pending" /\ run'[x].loop = run[x].loop /\ run[x].loop # l
    <3> SUFFICES ASSUME NEW x \in Run, run'[x].phase = "pending"
                 PROVE  run[x].loop # l
      BY <1>3, MovedShrinks DEF PendingShrinks
    <3>1. run[x].phase = "pending" /\ x # r
      BY <1>3, MovedShrinks DEF PendingShrinks, Report, Finalizes, Reconciles
    <3>2. x \notin RetiredBy(r, b)
      BY <3>1 DEF Report, Canceled, RunsOK, RunRow
    <3>3. QED BY <1>5, <3>1, <3>2 DEF RetiredBy, RunsOf
  <2>4. \A x \in Run : run'[x].phase = "pending" =>
          ~loop'[run'[x].loop].completed
    BY <1>4, <2>3 DEF RestInv, PendingRest, RunsOK
  <2>5. QED BY <1>4, <2>2, <2>4 DEF RestInv, PendingRest, RowAtRest
<1>6. CASE ~Finishes(r, b)
  <2>1. /\ LoopAfterReport(r, b).completed = row.completed
        /\ RowAtRest(LoopAfterReport(r, b))
    BY <1>1, <1>2, <1>6, BumpRest DEF LoopAfterReport
  <2>2. \A x \in Run : run'[x].phase = "pending" =>
          ~loop'[run'[x].loop].completed
    BY <1>3, <1>4, <2>1, MovedShrinks
       DEF RestInv, PendingRest, PendingShrinks, RunsOK
  <2>3. QED BY <1>4, <2>1, <2>2 DEF RestInv, PendingRest, RowAtRest
<1>7. QED BY <1>5, <1>6

LEMMA NextRest ==
  ASSUME TypeOK, RunningHoldsLease, SnapshotIsCurrent, AllDecided, RestInv,
         [Next]_vars
  PROVE  RestInv'
<1>1. ASSUME NEW h \in Handler, CallStep(h) PROVE RestInv'
  BY <1>1, CallStepRest
<1>2. ASSUME NEW r \in Run, NEW b \in Body, Report(r, b) PROVE RestInv'
  BY <1>2, ReportRest
<1>3. CASE UNCHANGED <<loop, run>>
  BY <1>3, SameLoopRest DEF PendingShrinks
<1>4. ASSUME NEW h \in Handler, Begin(h) PROVE RestInv'
  BY <1>3, <1>4 DEF Begin
<1>5. ASSUME NEW r \in Run,
             \/ ReportDenied(r) \/ CancelRun(r) \/ ReclaimStaleRun(r)
             \/ PruneGraceLease(r) \/ ApplyRunProgress(r)
      PROVE  RestInv'
  <2>1. UNCHANGED loop
    BY <1>5 DEF ReportDenied, CancelRun, ReclaimStaleRun, PruneGraceLease,
                ApplyRunProgress
  <2>2. QED BY <1>5, <2>1, RunStepMoves, MovedShrinks, SameLoopRest
<1>6. CASE Tick
  BY <1>6, TickMoves, MovedShrinks, SameLoopRest DEF Tick
<1>7. CASE Restart \/ UNCHANGED vars
  BY <1>3, <1>7 DEF Restart, vars
<1>8. QED BY <1>1, <1>2, <1>4, <1>5, <1>6, <1>7 DEF Next

\* A completed loop has nothing pending, is disabled and unarmed and has a
\* goal, whatever read it before it was completed.
THEOREM CompletedLoopSafety == Spec => []CompletedLoopAtRest
<1>1. Init => RestInv
  <2> SUFFICES ASSUME Init PROVE RestInv
    OBVIOUS
  <2>1. \A l \in Loop : ~loop[l].completed
    BY DEF Init, CreatedRows, CreatedRow
  <2>2. \A r \in Run : run[r].phase # "pending"
    BY DEF Init, Inherited, NoRun
  <2>3. QED BY <2>1, <2>2 DEF RestInv, PendingRest, RowAtRest
<1>2. /\ TypeOK /\ RunningHoldsLease /\ SnapshotIsCurrent /\ AllDecided
      /\ RestInv /\ [Next]_vars
      => RestInv'
  BY NextRest
<1>3. RestInv => CompletedLoopAtRest
  BY DEF RestInv, PendingRest, RowAtRest, CompletedLoopAtRest, RunsOf
<1>4. QED BY <1>1, <1>2, <1>3, TypeCorrect, LeaseSafety, GuardSafety,
             AllDecidedHolds, PTL DEF Spec

\* Rows, runs, leases and held calls agree in every state.
THEOREM AgreementSafety == Spec => []RowsAgree
<1>1. TypeOK /\ AtMostOneOpenRun /\ RunningHoldsLease /\ CompletedLoopAtRest /\ SnapshotIsCurrent
        => RowsAgree
  BY DEF RowsAgree
<1>2. QED BY <1>1, TypeCorrect, OneOpenRun, LeaseSafety, CompletedLoopSafety, GuardSafety, PTL

--------------------------------------------------------------------------------
(***************************************************************************)
(* What a held call's checks say of the row it read, whatever happened     *)
(* since.  An admitted trigger's instant and a schedule write's activation *)
(* lie in the past; a claim is of a run of its own loop.                   *)
(***************************************************************************)

Admitted(c) ==
  c.stage = "held" =>
    /\ c.op = "scheduled" => OccurrenceAdmits(c.snap, c.arg, now)
    /\ c.op = "goal" => GoalAdmits(c.snap, c.arg)
    /\ c.op = "schedule" => ScheduleAdmits(c.snap, c.arg)
    /\ c.op = "reopen" => ReopenAdmits(c.snap)
    /\ c.op = "claim" => run[c.arg].phase # "absent" /\ run[c.arg].loop = c.loop
    /\ c.op \in {"schedule", "reopen"} => c.at <= now

AllAdmitted == \A h \in Handler : Admitted(call[h])

LEMMA TimeMoves ==
  ASSUME TypeOK, [Next]_vars
  PROVE  now \in Nat /\ now' \in Nat /\ now <= now'
<1>1. now \in Nat /\ MaxTime \in Nat
  BY TypeParts, TimeIsNat, BoundAssumption
<1>2. UNCHANGED now \/ Tick
  BY DEF Next, vars, Begin, CallStep, Retry, RunNow, ScheduledEnqueue, Claim,
         UpdateGoal, UpdateSchedule, UpdateTaskFile, ReopenLoop, GuardedWrite,
         AnswerOnly, LoseGuard, Report, ReportDenied, CancelRun,
         ReclaimStaleRun, PruneGraceLease, ApplyRunProgress, Restart
<1>3. QED BY <1>1, <1>2 DEF Tick

\* A run keeps what its enqueue gave it.
SameOrigin(x, nx) ==
  /\ nx.loop = x.loop
  /\ nx.due = x.due
  /\ nx.phase = "absent" <=> x.phase = "absent"

\* The one run a step may insert, and the instant it is inserted for.
Inserts(n, l, due) ==
  /\ run[n].phase = "absent"
  /\ run'[n] = NewRun(l, due)
  /\ \A x \in Run \ {n} : SameOrigin(run[x], run'[x])

OriginsKept == \A x \in Run : SameOrigin(run[x], run'[x])

\* A trigger that is admitted moves the watermark to its instant.
Fires(l, at) ==
  /\ \E trigger : trigger.at = at /\ OccurrenceAdmits(loop[l], trigger, now)
  /\ loop' = [loop EXCEPT ![l] = Bump([loop[l] EXCEPT !.lastScheduledAt = at])]

LEMMA InsertRunInserts ==
  ASSUME RunsOK, NEW n \in Run, run[n].phase = "absent", NEW l \in Loop,
         NEW due \in Nat \cup {None}, InsertRun(n, l, due)
  PROVE  Inserts(n, l, due)
<1>1. run'[n] = NewRun(l, due)
  BY DEF InsertRun
<1>2. ASSUME NEW x \in Run \ {n} PROVE SameOrigin(run[x], run'[x])
  <2>1. CASE x \in RunsOf(l, "pending")
    <3>1. run[x].phase = "pending" /\ run[x] \in RunRow
      BY <2>1 DEF RunsOf, RunsOK
    <3>2. run'[x] = Canceled(x)
      BY <2>1, <1>2 DEF InsertRun
    <3>3. QED BY <3>1, <3>2 DEF Canceled, RunRow, SameOrigin
  <2>2. CASE x \notin RunsOf(l, "pending")
    BY <2>2, <1>2 DEF InsertRun, SameOrigin
  <2>3. QED BY <2>1, <2>2
<1>3. QED BY <1>1, <1>2 DEF Inserts

OriginsMove ==
  \/ OriginsKept
  \/ \E n \in Run, l \in Loop : Inserts(n, l, None)
  \/ \E n \in Run, l \in Loop, at \in Nat : Inserts(n, l, at) /\ Fires(l, at)

LEMMA CallStepOrigins ==
  ASSUME TypeOK, SnapshotIsCurrent, AllAdmitted, NEW h \in Handler, CallStep(h)
  PROVE  OriginsMove
<1> USE TypeParts
<1> DEFINE l == call[h].loop
<1>1. CASE UNCHANGED run
  BY <1>1 DEF OriginsMove, OriginsKept, SameOrigin
<1>2. CASE \/ Retry(h) \/ UpdateGoal(h) \/ UpdateSchedule(h) \/ UpdateTaskFile(h)
  BY <1>1, <1>2 DEF Retry, UpdateGoal, UpdateSchedule, UpdateTaskFile,
                    GuardedWrite, LoseGuard, AnswerOnly
<1>3. CASE RunNow(h)
  <2>1. l \in Loop
    BY <1>3, HeldType DEF RunNow, Holds
  <2>2. CASE AnswerOnly(h) \/ LoseGuard(h)
    BY <1>1, <2>2 DEF AnswerOnly, LoseGuard
  <2>3. CASE \E r \in Run : run[r].phase = "absent" /\ InsertRun(r, l, None)
    BY <2>1, <2>3, InsertRunInserts DEF OriginsMove
  <2>4. QED BY <1>3, <2>2, <2>3 DEF RunNow
<1>4. CASE ScheduledEnqueue(h)
  <2> DEFINE at == call[h].arg.at
  <2>1. l \in Loop /\ at \in Nat
    BY <1>4, HeldType DEF ScheduledEnqueue, Holds
  <2>2. CASE LoseGuard(h)
    BY <1>1, <2>2 DEF LoseGuard
  <2>3. CASE /\ Guard(h)
             /\ WriteLoop(l, [loop[l] EXCEPT !.lastScheduledAt = at])
             /\ \E r \in Run : run[r].phase = "absent" /\ InsertRun(r, l, at)
    <3>1. call[h].stage = "held" /\ call[h].op = "scheduled"
      BY <1>4 DEF ScheduledEnqueue, Holds
    <3>2. OccurrenceAdmits(loop[l], call[h].arg, now)
      BY <2>3, <3>1 DEF AllAdmitted, Admitted, SnapshotIsCurrent
    <3>3. Fires(l, at)
      BY <2>3, <3>2 DEF Fires, WriteLoop
    <3>4. QED BY <2>1, <2>3, <3>3, InsertRunInserts DEF OriginsMove
  <2>4. QED BY <1>1, <1>4, <2>2, <2>3 DEF ScheduledEnqueue
<1>5. CASE Claim(h)
  <2> DEFINE r == call[h].arg
  <2>1. r \in Run /\ run[r] \in RunRow
    BY SMTT(30), <1>5, HeldType DEF Claim, Holds, RunsOK
  <2>2. CASE AnswerOnly(h) \/ LoseGuard(h)
    BY <1>1, <2>2 DEF AnswerOnly, LoseGuard
  <2>3. CASE StillPending(r) /\ run' = [run EXCEPT ![r] = ClaimedRun(r, loop[l])]
    <3>1. SameOrigin(run[r], ClaimedRun(r, loop[l]))
      BY <2>1, <2>3 DEF SameOrigin, ClaimedRun, StillPending, RunRow
    <3>2. QED BY <2>1, <2>3, <3>1 DEF OriginsMove, OriginsKept, SameOrigin, RunsOK
  <2>4. QED BY <1>5, <2>2, <2>3 DEF Claim
<1>6. CASE ReopenLoop(h)
  <2>1. CASE LoseGuard(h)
    BY <1>1, <2>1 DEF LoseGuard
  <2>2. CASE run' = [r \in Run |->
               IF r \in RunsOf(l, "pending") \cup RunsOf(l, "running")
               THEN Canceled(r) ELSE run[r]]
    <3>1. ASSUME NEW x \in Run PROVE SameOrigin(run[x], run'[x])
      <4>1. run[x] \in RunRow
        BY DEF RunsOK
      <4>2. QED BY <2>2, <4>1 DEF RunsOf, Canceled, RunRow, SameOrigin
    <3>2. QED BY <3>1 DEF OriginsMove, OriginsKept
  <2>3. QED BY <1>6, <2>1, <2>2 DEF ReopenLoop
<1>7. QED BY <1>2, <1>3, <1>4, <1>5, <1>6 DEF CallStep

LEMMA NextOrigins ==
  ASSUME TypeOK, SnapshotIsCurrent, AllAdmitted, [Next]_vars
  PROVE  OriginsMove
<1> USE TypeParts
<1>1. CASE UNCHANGED run
  BY <1>1 DEF OriginsMove, OriginsKept, SameOrigin
<1>2. ASSUME NEW h \in Handler, Begin(h) \/ CallStep(h) PROVE OriginsMove
  BY <1>1, <1>2, CallStepOrigins DEF Begin
<1>3. ASSUME NEW r \in Run, NEW b \in Body, Report(r, b) PROVE OriginsMove
  <2>1. ASSUME NEW x \in Run PROVE SameOrigin(run[x], run'[x])
    <3>1. run[x] \in RunRow
      BY DEF RunsOK
    <3>2. CASE x = r
      BY <1>3, <3>1, <3>2 DEF Report, Finalizes, Reconciles, RunRow, SameOrigin
    <3>3. CASE x # r
      BY <1>3, <3>1, <3>3 DEF Report, RetiredBy, RunsOf, Canceled, RunRow, SameOrigin
    <3>4. QED BY <3>2, <3>3
  <2>2. QED BY <2>1 DEF OriginsMove, OriginsKept
<1>4. ASSUME NEW r \in Run, CancelRun(r) \/ ReclaimStaleRun(r) \/ ApplyRunProgress(r)
      PROVE  OriginsMove
  <2>1. \A x \in Run : run[x] \in RunRow
    BY DEF RunsOK
  <2>2. run'[r].loop = run[r].loop /\ run'[r].due = run[r].due
    BY <1>4, <2>1 DEF CancelRun, ReclaimStaleRun, ApplyRunProgress, Canceled,
                      RunsOK, RunRow
  <2>3. run'[r].phase # "absent" /\ run[r].phase # "absent"
    BY <1>4, <2>1 DEF CancelRun, ReclaimStaleRun, ApplyRunProgress, Canceled,
                      Reclaimable, RunsOK, RunRow
  <2>4. \A x \in Run \ {r} : run'[x] = run[x]
    BY <1>4 DEF CancelRun, ReclaimStaleRun, ApplyRunProgress, RunsOK
  <2>5. QED BY <2>2, <2>3, <2>4 DEF OriginsMove, OriginsKept, SameOrigin
<1>5. ASSUME NEW r \in Run, ReportDenied(r) \/ PruneGraceLease(r) PROVE OriginsMove
  BY <1>1, <1>5 DEF ReportDenied, PruneGraceLease
<1>6. CASE Tick
  BY <1>6 DEF Tick, OriginsMove, OriginsKept, SameOrigin, RunsOK, RunRow
<1>7. CASE Restart \/ UNCHANGED vars
  BY <1>1, <1>7 DEF Restart, vars
<1>8. QED BY <1>2, <1>3, <1>4, <1>5, <1>6, <1>7 DEF Next

LEMMA OriginStays ==
  ASSUME OriginsMove, NEW r \in Run, run[r].phase # "absent"
  PROVE  SameOrigin(run[r], run'[r])
BY DEF OriginsMove, OriginsKept, Inserts

LEMMA OccurrenceLater ==
  ASSUME NEW row, NEW trigger, trigger.at \in Nat, NEW t \in Nat, NEW u \in Nat,
         t <= u, OccurrenceAdmits(row, trigger, t)
  PROVE  OccurrenceAdmits(row, trigger, u)
BY DEF OccurrenceAdmits

LEMMA AdmittedFresh ==
  ASSUME NEW op, NEW arg, NEW l \in Loop, NEW attempt, TypeOK,
         Admits(op, arg, l, loop[l])
  PROVE  Admitted(Held(op, arg, l, attempt))
<1>1. now \in Nat /\ now <= now
  BY TypeParts, TimeIsNat
<1>2. QED BY <1>1 DEF Admits, Admitted, Held

LEMMA AdmittedStays ==
  ASSUME NEW c, CallTypeOK(c), Admitted(c),
         now \in Nat, now' \in Nat, now <= now', OriginsMove
  PROVE  c.stage = "held" =>
           /\ c.op = "scheduled" => OccurrenceAdmits(c.snap, c.arg, now')
           /\ c.op = "claim" => run'[c.arg].phase # "absent" /\ run'[c.arg].loop = c.loop
           /\ c.op \in {"schedule", "reopen"} => c.at <= now'
<1> SUFFICES ASSUME c.stage = "held"
             PROVE  /\ c.op = "scheduled" => OccurrenceAdmits(c.snap, c.arg, now')
                    /\ c.op = "claim" => run'[c.arg].phase # "absent" /\ run'[c.arg].loop = c.loop
                    /\ c.op \in {"schedule", "reopen"} => c.at <= now'
  OBVIOUS
<1>1. c.op = "scheduled" => OccurrenceAdmits(c.snap, c.arg, now')
  BY OccurrenceLater DEF Admitted, CallTypeOK, Free
<1>2. ASSUME c.op = "claim" PROVE run'[c.arg].phase # "absent" /\ run'[c.arg].loop = c.loop
  <2>1. c.arg \in Run /\ run[c.arg].phase # "absent" /\ run[c.arg].loop = c.loop
    BY <1>2 DEF Admitted, CallTypeOK, Free
  <2>2. QED BY <2>1, OriginStays DEF SameOrigin
<1>3. c.op \in {"schedule", "reopen"} => c.at <= now'
  BY DEF Admitted, CallTypeOK, Free
<1>4. QED BY <1>1, <1>2, <1>3

LEMMA AllAdmittedHolds == Spec => []AllAdmitted
<1>1. Init => AllAdmitted
  BY DEF Init, AllAdmitted, Admitted, Free
<1>2. TypeOK /\ TypeOK' /\ SnapshotIsCurrent /\ AllAdmitted /\ [Next]_vars => AllAdmitted'
  <2> SUFFICES ASSUME TypeOK, TypeOK', SnapshotIsCurrent, AllAdmitted, [Next]_vars,
                      NEW h \in Handler
               PROVE  Admitted(call[h])'
    BY DEF AllAdmitted
  <2>1. now \in Nat /\ now' \in Nat /\ now <= now' /\ OriginsMove
    BY TimeMoves, NextOrigins
  <2>2. ASSUME NEW c, c = call'[h], Admitted(c) PROVE Admitted(call[h])'
    <3>1. CallTypeOK(c)
      BY <2>2 DEF TypeOK, CallTypeOK
    <3>2. QED BY <2>1, <2>2, <3>1, AdmittedStays DEF Admitted
  <2>3. CASE call'[h] = call[h]
    BY <2>2, <2>3 DEF AllAdmitted
  <2>4. CASE call'[h].stage # "held"
    BY <2>4 DEF Admitted
  <2>5. ASSUME NEW op, NEW arg, NEW attempt, NEW l \in Loop,
               call'[h] = Held(op, arg, l, attempt),
               Admits(op, arg, l, loop[l])
        PROVE  Admitted(call[h])'
    BY <2>2, <2>5, AdmittedFresh
  <2>6. QED BY <2>3, <2>4, <2>5, NextCallsMove DEF CallMoves
<1>3. QED BY <1>1, <1>2, TypeCorrect, GuardSafety, PTL DEF Spec

--------------------------------------------------------------------------------
(***************************************************************************)
(* What a step may write to a loop's row, and what it knew when it wrote.  *)
(***************************************************************************)

Watermarked(l) ==
  \E trigger : /\ trigger.at \in Nat /\ OccurrenceAdmits(loop[l], trigger, now)
               /\ loop'[l] = Bump([loop[l] EXCEPT !.lastScheduledAt = trigger.at])

GoalSet(l) ==
  \E goal \in Goal \cup {None} :
    GoalAdmits(loop[l], goal) /\ loop'[l] = Bump(GoalUpdate(loop[l], goal))

\* The call whose guarded write this is: the row it read is the row it writes.
Writer(h, op, l) == Holds(h, op) /\ call[h].loop = l /\ Guard(h) /\ call[h].at <= now

Rescheduled(l) ==
  \E h \in Handler :
    /\ Writer(h, "schedule", l)
    /\ call[h].arg \in Patch
    /\ ScheduleAdmits(loop[l], call[h].arg)
    /\ loop'[l] = Bump(ScheduleTransition(loop[l], call[h].arg, call[h].at))

Retargeted(l) ==
  \E path \in Path :
    /\ RunsOf(l, "running") = {}
    /\ UNCHANGED <<run, lease>>
    /\ loop'[l] = Bump(TaskFileUpdate(loop[l], path))

Reopened(l) ==
  \E h \in Handler :
    /\ Writer(h, "reopen", l)
    /\ ReopenAdmits(loop[l])
    /\ lease' = Revoked(l)
    /\ loop'[l] = Bump(Reopening(loop[l], call[h].at))

Reported(l) ==
  \E r \in Run, b \in Body :
    Report(r, b) /\ run[r].loop = l /\ loop'[l] = LoopAfterReport(r, b)

RowStep(l) ==
  \/ loop'[l] \in {loop[l], Bump(loop[l])}
  \/ Watermarked(l) \/ GoalSet(l) \/ Rescheduled(l) \/ Retargeted(l)
  \/ Reopened(l) \/ Reported(l)

LEMMA OtherRows ==
  ASSUME LoopsOK, NEW l \in Loop, NEW row, WriteLoop(l, row), NEW m \in Loop,
         m = l => RowStep(m)
  PROVE  RowStep(m)
<1>1. m # l => loop'[m] = loop[m]
  BY DEF WriteLoop, LoopsOK
<1>2. QED BY <1>1 DEF RowStep

LEMMA CallStepRows ==
  ASSUME TypeOK, SnapshotIsCurrent, AllAdmitted,
         NEW h \in Handler, CallStep(h), NEW m \in Loop
  PROVE  RowStep(m)
<1> USE TypeParts
<1> DEFINE l == call[h].loop
<1>1. CASE UNCHANGED loop
  BY <1>1 DEF RowStep
<1>2. ASSUME call[h].stage = "held"
      PROVE  /\ l \in Loop /\ loop[l] \in Row /\ Admitted(call[h])
             /\ Guard(h) => call[h].snap = loop[l]
             /\ call[h].at \in Nat
  BY <1>2, HeldType DEF LoopsOK, AllAdmitted, SnapshotIsCurrent
<1>3. ASSUME NEW row, call[h].stage = "held", WriteLoop(l, row)
      PROVE  /\ loop'[l] = Bump(row)
             /\ (m = l => RowStep(m)) => RowStep(m)
  BY <1>2, <1>3, OtherRows DEF WriteLoop, LoopsOK
<1>4. CASE Retry(h)
  BY <1>1, <1>4 DEF Retry
<1>5. CASE RunNow(h) \/ Claim(h)
  <2>1. CASE WriteLoop(l, loop[l])
    BY <1>3, <1>5, <2>1 DEF RunNow, Claim, Holds, RowStep
  <2>2. QED BY <1>1, <1>5, <2>1 DEF RunNow, Claim, AnswerOnly, LoseGuard
<1>6. CASE ScheduledEnqueue(h)
  <2> DEFINE at == call[h].arg.at
             row == [loop[l] EXCEPT !.lastScheduledAt = at]
  <2>1. CASE Guard(h) /\ WriteLoop(l, row)
    <3>1. call[h].stage = "held" /\ call[h].op = "scheduled" /\ at \in Nat
      BY <1>6, HeldType DEF ScheduledEnqueue, Holds
    <3>2. OccurrenceAdmits(loop[l], call[h].arg, now)
      BY <1>2, <2>1, <3>1 DEF Admitted
    <3>3. loop'[l] = Bump(row)
      BY <1>3, <2>1, <3>1
    <3>4. Watermarked(l)
      BY <3>1, <3>2, <3>3 DEF Watermarked
    <3>5. QED BY <1>3, <2>1, <3>1, <3>4 DEF RowStep
  <2>2. QED BY <1>1, <1>6, <2>1 DEF ScheduledEnqueue, LoseGuard
<1>7. CASE UpdateGoal(h)
  <2> DEFINE row == GoalUpdate(call[h].snap, call[h].arg)
  <2>1. CASE Guard(h) /\ WriteLoop(l, row)
    <3>1. call[h].stage = "held" /\ call[h].op = "goal"
      BY <1>7 DEF UpdateGoal, Holds
    <3>2. GoalAdmits(loop[l], call[h].arg) /\ call[h].arg \in Goal \cup {None}
      BY <1>2, <2>1, <3>1, HeldType DEF Admitted
    <3>3. loop'[l] = Bump(GoalUpdate(loop[l], call[h].arg))
      BY <1>2, <1>3, <2>1, <3>1
    <3>4. GoalSet(l)
      BY <3>2, <3>3 DEF GoalSet
    <3>5. QED BY <1>3, <2>1, <3>1, <3>4 DEF RowStep
  <2>2. QED BY <1>1, <1>7, <2>1 DEF UpdateGoal, GuardedWrite, LoseGuard
<1>8. CASE UpdateSchedule(h)
  <2> DEFINE row == ScheduleTransition(call[h].snap, call[h].arg, call[h].at)
  <2>1. CASE Guard(h) /\ WriteLoop(l, row)
    <3>1. call[h].stage = "held" /\ call[h].op = "schedule"
      BY <1>8 DEF UpdateSchedule, Holds
    <3>2. /\ ScheduleAdmits(loop[l], call[h].arg) /\ call[h].arg \in Patch
          /\ call[h].at <= now
      BY <1>2, <2>1, <3>1, HeldType DEF Admitted
    <3>3. loop'[l] = Bump(ScheduleTransition(loop[l], call[h].arg, call[h].at))
      BY <1>2, <1>3, <2>1, <3>1
    <3>4. Rescheduled(l)
      BY <1>8, <2>1, <3>2, <3>3 DEF Rescheduled, Writer, UpdateSchedule
    <3>5. QED BY <1>3, <2>1, <3>1, <3>4 DEF RowStep
  <2>2. QED BY <1>1, <1>8, <2>1 DEF UpdateSchedule, GuardedWrite, LoseGuard
<1>9. CASE UpdateTaskFile(h)
  <2> DEFINE row == TaskFileUpdate(loop[l], call[h].arg)
  <2>1. CASE ~RunInProgress(l) /\ WriteLoop(l, row) /\ UNCHANGED <<run, lease>>
    <3>1. call[h].stage = "held" /\ call[h].arg \in Path
      BY <1>9, HeldType DEF UpdateTaskFile, Holds
    <3>2. Retargeted(l)
      BY <1>3, <2>1, <3>1 DEF Retargeted, RunInProgress
    <3>3. QED BY <1>3, <2>1, <3>1, <3>2 DEF RowStep
  <2>2. QED BY <1>1, <1>9, <2>1
       DEF UpdateTaskFile, GuardedWrite, LoseGuard, AnswerOnly
<1>10. CASE ReopenLoop(h)
  <2> DEFINE row == Reopening(call[h].snap, call[h].at)
  <2>1. CASE Guard(h) /\ WriteLoop(l, row) /\ lease' = Revoked(l)
    <3>1. call[h].stage = "held" /\ call[h].op = "reopen"
      BY <1>10 DEF ReopenLoop, Holds
    <3>2. ReopenAdmits(loop[l]) /\ call[h].at <= now
      BY <1>2, <2>1, <3>1 DEF Admitted
    <3>3. loop'[l] = Bump(Reopening(loop[l], call[h].at))
      BY <1>2, <1>3, <2>1, <3>1
    <3>4. Reopened(l)
      BY <1>10, <2>1, <3>2, <3>3 DEF Reopened, Writer, ReopenLoop
    <3>5. QED BY <1>3, <2>1, <3>1, <3>4 DEF RowStep
  <2>2. QED BY <1>1, <1>10, <2>1 DEF ReopenLoop, LoseGuard
<1>11. QED BY <1>4, <1>5, <1>6, <1>7, <1>8, <1>9, <1>10 DEF CallStep

LEMMA NextRows ==
  ASSUME TypeOK, SnapshotIsCurrent, AllAdmitted, [Next]_vars, NEW l \in Loop
  PROVE  RowStep(l)
<1>1. CASE UNCHANGED loop
  BY <1>1 DEF RowStep
<1>2. ASSUME NEW h \in Handler, Begin(h) \/ CallStep(h) PROVE RowStep(l)
  BY <1>1, <1>2, CallStepRows DEF Begin
<1>3. ASSUME NEW r \in Run, NEW b \in Body, Report(r, b) PROVE RowStep(l)
  <2>1. loop'[l] = IF l = run[r].loop THEN LoopAfterReport(r, b) ELSE loop[l]
    BY <1>3, TypeParts DEF Report, LoopsOK
  <2>2. QED BY <1>3, <2>1 DEF RowStep, Reported
<1>4. ASSUME NEW r \in Run,
             \/ ReportDenied(r) \/ CancelRun(r) \/ ReclaimStaleRun(r)
             \/ PruneGraceLease(r) \/ ApplyRunProgress(r)
      PROVE  RowStep(l)
  BY <1>1, <1>4 DEF ReportDenied, CancelRun, ReclaimStaleRun, PruneGraceLease,
                    ApplyRunProgress
<1>5. CASE Tick \/ Restart \/ UNCHANGED vars
  BY <1>1, <1>5 DEF Tick, Restart, vars
<1>6. QED BY <1>2, <1>3, <1>4, <1>5 DEF Next

--------------------------------------------------------------------------------
(***************************************************************************)
(* The schedule of a row: kept, fired under, or replaced by one with the   *)
(* next revision and no watermark.                                         *)
(***************************************************************************)

SameSchedule(old, new) ==
  /\ new.enabled = old.enabled
  /\ new.cron = old.cron
  /\ new.scheduleRevision = old.scheduleRevision
  /\ new.scheduleActivatedAt = old.scheduleActivatedAt
  /\ new.lastScheduledAt = old.lastScheduledAt

\* The schedule is armed at instant t, if it is armed.
Replaces(old, new, t) ==
  /\ old.scheduleRevision < RevisionMax
  /\ new.scheduleRevision = old.scheduleRevision + 1
  /\ new.scheduleActivatedAt = IF ActiveSchedule(new) THEN t ELSE None
  /\ new.lastScheduledAt = None

Replaced(l) ==
  \/ \E h \in Handler : /\ Writer(h, "schedule", l) \/ Writer(h, "reopen", l)
                        /\ Replaces(loop[l], loop'[l], call[h].at)
  \/ /\ Replaces(loop[l], loop'[l], now)
     /\ ~ActiveSchedule(loop'[l])

ScheduleStep(l) ==
  SameSchedule(loop[l], loop'[l]) \/ Watermarked(l) \/ Replaced(l)

LEMMA KernelsKeepSchedule ==
  ASSUME NEW row \in Row, NEW x, NEW r, NEW b
  PROVE  /\ SameSchedule(row, Bump(row))
         /\ SameSchedule(row, Bump(GoalUpdate(row, x)))
         /\ SameSchedule(row, Bump(TaskFileUpdate(row, x)))
         /\ SameSchedule(row, Bump(Promote(row, r, b)))
<1>1. SameSchedule(row, Bump(row))
  BY DEF Bump, SameSchedule, Row
<1>2. SameSchedule(row, Bump(GoalUpdate(row, x)))
  BY DEF Bump, GoalUpdate, SameSchedule, Row
<1>3. SameSchedule(row, Bump(TaskFileUpdate(row, x)))
  BY DEF Bump, TaskFileUpdate, SameSchedule, Row
<1>4. SameSchedule(row, Bump(Promote(row, r, b)))
  BY DEF Bump, Promote, SameSchedule, Row
<1>5. QED BY <1>1, <1>2, <1>3, <1>4

LEMMA TransitionReplaces ==
  ASSUME NEW row \in Row, NEW patch \in Patch, NEW t \in Nat,
         row.scheduleRevision < RevisionMax
  PROVE  Replaces(row, Bump(ScheduleTransition(row, patch, t)), t)
BY DEF Replaces, ActiveSchedule, Bump, ScheduleTransition, Row

LEMMA ReopeningReplaces ==
  ASSUME NEW row \in Row, NEW t \in Nat, row.scheduleRevision < RevisionMax
  PROVE  Replaces(row, Bump(Reopening(row, t)), t)
<1> DEFINE new == Bump(Reopening(row, t))
<1>1. Patched(row.cron, Keep) = row.cron
  BY DEF Patched
<1>2. /\ new.scheduleRevision = row.scheduleRevision + 1
      /\ new.lastScheduledAt = None
  BY DEF Bump, Reopening, ScheduleTransition, Row
<1>3. /\ new.enabled = Patched(row.enabled, TRUE)
      /\ new.cron = row.cron
      /\ new.scheduleActivatedAt =
           IF Patched(row.enabled, TRUE) /\ row.cron # None THEN t ELSE None
  BY <1>1 DEF Bump, Reopening, ScheduleTransition, Row
<1>4. QED BY <1>2, <1>3 DEF Replaces, ActiveSchedule

LEMMA CompletionReplaces ==
  ASSUME NEW row \in Row, NEW r, NEW b, NEW t, row.scheduleRevision < RevisionMax,
         Promote(row, r, b) \in Row
  PROVE  LET new == Bump(Completion(Promote(row, r, b)))
         IN  Replaces(row, new, t) /\ ~ActiveSchedule(new)
<1> DEFINE p == Promote(row, r, b)
<1>1. p.scheduleRevision = row.scheduleRevision
  BY DEF Promote, Row
<1>2. QED BY <1>1 DEF Replaces, ActiveSchedule, Bump, Completion, Row

\* What a report does to its loop's row.
LEMMA ReportedRow ==
  ASSUME TypeOK, NEW r \in Run, NEW b, Report(r, b)
  PROVE  LET row == loop[run[r].loop]
             promoted == Promote(row, r, b)
             new == LoopAfterReport(r, b)
         IN  /\ row \in Row /\ promoted \in Row
             /\ \/ new = row
                \/ new = Bump(promoted) /\ ~row.completed /\ ~Finishes(r, b)
                \/ /\ new = Bump(Completion(promoted))
                   /\ lease[r].version = 1 /\ FinishAdmits(row, lease[r])
                   /\ Finishes(r, b)
<1>1. run[r].loop \in Loop /\ loop[run[r].loop] \in Row
      /\ Promote(loop[run[r].loop], r, b) \in Row
  BY TypeParts, PromoteType DEF Report, Finalizes, Reconciles, RunsOK, RunRow, LoopsOK
<1>2. QED BY <1>1 DEF LoopAfterReport, Finishes

LEMMA NextSchedule ==
  ASSUME TypeOK, SnapshotIsCurrent, AllAdmitted, [Next]_vars, NEW l \in Loop
  PROVE  ScheduleStep(l)
<1> USE TypeParts
<1> DEFINE row == loop[l]
<1>0. row \in Row /\ RowStep(l)
  BY NextRows DEF LoopsOK
<1>1. CASE loop'[l] \in {loop[l], Bump(loop[l])}
  BY <1>0, <1>1, KernelsKeepSchedule DEF ScheduleStep, SameSchedule
<1>2. CASE Watermarked(l)
  BY <1>2 DEF ScheduleStep
<1>3. CASE GoalSet(l) \/ Retargeted(l)
  BY <1>0, <1>3, KernelsKeepSchedule DEF ScheduleStep, GoalSet, Retargeted
<1>4. CASE Rescheduled(l)
  <2>1. PICK h \in Handler :
          /\ Writer(h, "schedule", l) /\ call[h].arg \in Patch
          /\ ScheduleAdmits(row, call[h].arg)
          /\ loop'[l] = Bump(ScheduleTransition(row, call[h].arg, call[h].at))
    BY <1>4 DEF Rescheduled
  <2>2. call[h].at \in Nat
    BY <2>1, HeldType DEF Writer, Holds
  <2>3. Replaces(row, loop'[l], call[h].at)
    BY <1>0, <2>1, <2>2, TransitionReplaces DEF ScheduleAdmits
  <2>4. QED BY <2>1, <2>3 DEF ScheduleStep, Replaced
<1>5. CASE Reopened(l)
  <2>1. PICK h \in Handler :
          /\ Writer(h, "reopen", l) /\ ReopenAdmits(row)
          /\ loop'[l] = Bump(Reopening(row, call[h].at))
    BY <1>5 DEF Reopened
  <2>2. call[h].at \in Nat
    BY <2>1, HeldType DEF Writer, Holds
  <2>3. Replaces(row, loop'[l], call[h].at)
    BY <1>0, <2>1, <2>2, ReopeningReplaces DEF ReopenAdmits
  <2>4. QED BY <2>1, <2>3 DEF ScheduleStep, Replaced
<1>6. CASE Reported(l)
  <2>1. PICK r \in Run, b \in Body :
          Report(r, b) /\ run[r].loop = l /\ loop'[l] = LoopAfterReport(r, b)
    BY <1>6 DEF Reported
  <2>2. CASE loop'[l] = row
    BY <2>2 DEF ScheduleStep, SameSchedule
  <2>3. CASE loop'[l] = Bump(Promote(row, r, b))
    BY <1>0, <2>3, KernelsKeepSchedule DEF ScheduleStep
  <2>4. CASE /\ loop'[l] = Bump(Completion(Promote(row, r, b)))
             /\ FinishAdmits(row, lease[r]) /\ Promote(row, r, b) \in Row
    BY <1>0, <2>4, CompletionReplaces DEF FinishAdmits, ScheduleStep, Replaced
  <2>5. QED BY <2>1, <2>2, <2>3, <2>4, ReportedRow
<1>7. QED BY <1>0, <1>1, <1>2, <1>3, <1>4, <1>5, <1>6 DEF RowStep

\* Under one schedule revision the schedule does not change and the watermark
\* only moves forward; schedule revisions never go back.
THEOREM ScheduleVersions == Spec => ScheduleIsVersioned
<1> DEFINE Versioned(old, new) ==
      /\ new.scheduleRevision >= old.scheduleRevision
      /\ new.scheduleRevision = old.scheduleRevision =>
           /\ ActiveSchedule(new) = ActiveSchedule(old)
           /\ new.cron = old.cron
           /\ old.lastScheduledAt # None =>
                /\ new.lastScheduledAt # None
                /\ new.lastScheduledAt >= old.lastScheduledAt
<1>1. ASSUME TypeOK, SnapshotIsCurrent, AllAdmitted, [Next]_vars, NEW l \in Loop
      PROVE  Versioned(loop[l], loop'[l])
  <2>1. loop[l] \in Row /\ loop[l].scheduleRevision \in Nat
        /\ loop[l].lastScheduledAt \in Nat \cup {None}
    BY <1>1, TypeParts DEF LoopsOK, Row
  <2>2. CASE SameSchedule(loop[l], loop'[l])
    <3>1. ActiveSchedule(loop'[l]) = ActiveSchedule(loop[l])
      BY <2>2 DEF SameSchedule, ActiveSchedule
    <3>2. QED BY <2>1, <2>2, <3>1 DEF SameSchedule
  <2>3. CASE Watermarked(l)
    <3>1. PICK trigger : /\ trigger.at \in Nat
                         /\ OccurrenceAdmits(loop[l], trigger, now)
                         /\ loop'[l] = Bump([loop[l] EXCEPT !.lastScheduledAt = trigger.at])
      BY <2>3 DEF Watermarked
    <3>2. /\ loop'[l].scheduleRevision = loop[l].scheduleRevision
          /\ loop'[l].cron = loop[l].cron
          /\ loop'[l].enabled = loop[l].enabled
          /\ loop'[l].lastScheduledAt = trigger.at
      BY <2>1, <3>1 DEF Bump, Row
    <3>3. ActiveSchedule(loop'[l]) = ActiveSchedule(loop[l])
      BY <3>2 DEF ActiveSchedule
    <3>4. trigger.at # None
      BY <3>1, NoneAssumption
    <3>5. loop[l].lastScheduledAt # None => trigger.at > loop[l].lastScheduledAt
      BY <3>1 DEF OccurrenceAdmits
    <3>6. QED BY <2>1, <3>1, <3>2, <3>3, <3>4, <3>5
  <2>4. CASE Replaced(l)
    BY <2>1, <2>4 DEF Replaced, Replaces
  <2>5. QED BY <1>1, <2>2, <2>3, <2>4, NextSchedule DEF ScheduleStep
<1>2. TypeOK /\ SnapshotIsCurrent /\ AllAdmitted /\ [Next]_vars
        => [\A l \in Loop :
              LET old == loop[l]  new == loop'[l] IN
              /\ new.scheduleRevision >= old.scheduleRevision
              /\ new.scheduleRevision = old.scheduleRevision =>
                   /\ ActiveSchedule(new) = ActiveSchedule(old)
                   /\ new.cron = old.cron
                   /\ old.lastScheduledAt # None =>
                        /\ new.lastScheduledAt # None
                        /\ new.lastScheduledAt >= old.lastScheduledAt]_vars
  BY <1>1
<1>3. QED BY <1>2, TypeCorrect, GuardSafety, AllAdmittedHolds, PTL
     DEF Spec, ScheduleIsVersioned

--------------------------------------------------------------------------------
(***************************************************************************)
(* The watermark stays in the window of its schedule.                      *)
(***************************************************************************)

InWindow(row, t) ==
  /\ ActiveSchedule(row) <=> row.scheduleActivatedAt # None
  /\ row.lastScheduledAt # None =>
       /\ row.scheduleActivatedAt # None
       /\ row.lastScheduledAt > row.scheduleActivatedAt
       /\ row.lastScheduledAt <= t

LEMMA ScheduleStepInWindow ==
  ASSUME TypeOK, NEW l \in Loop, ScheduleStep(l), InWindow(loop[l], now),
         now \in Nat, now' \in Nat, now <= now'
  PROVE  InWindow(loop'[l], now')
<1>1. loop[l] \in Row /\ loop[l].lastScheduledAt \in Nat \cup {None}
      /\ loop[l].scheduleActivatedAt \in Nat \cup {None}
  BY TypeParts DEF LoopsOK, Row
<1>2. CASE SameSchedule(loop[l], loop'[l])
  <2>1. ActiveSchedule(loop'[l]) = ActiveSchedule(loop[l])
    BY <1>2 DEF SameSchedule, ActiveSchedule
  <2>2. loop[l].lastScheduledAt # None => loop[l].lastScheduledAt <= now'
    BY <1>1 DEF InWindow
  <2>3. QED BY <1>2, <2>1, <2>2 DEF SameSchedule, InWindow
<1>3. CASE Watermarked(l)
  <2>1. PICK trigger : /\ trigger.at \in Nat
                       /\ OccurrenceAdmits(loop[l], trigger, now)
                       /\ loop'[l] = Bump([loop[l] EXCEPT !.lastScheduledAt = trigger.at])
    BY <1>3 DEF Watermarked
  <2>2. /\ loop'[l].cron = loop[l].cron
        /\ loop'[l].enabled = loop[l].enabled
        /\ loop'[l].scheduleActivatedAt = loop[l].scheduleActivatedAt
        /\ loop'[l].lastScheduledAt = trigger.at
    BY <1>1, <2>1 DEF Bump, Row
  <2>3. ActiveSchedule(loop'[l]) = ActiveSchedule(loop[l])
    BY <2>2 DEF ActiveSchedule
  <2>4. /\ loop[l].scheduleActivatedAt # None
        /\ trigger.at > loop[l].scheduleActivatedAt
        /\ trigger.at <= now
    BY <2>1 DEF OccurrenceAdmits
  <2>5. trigger.at <= now'
    BY <2>1, <2>4
  <2>6. QED BY <2>2, <2>3, <2>4, <2>5 DEF InWindow
<1>4. CASE Replaced(l)
  <2>1. PICK t \in Nat : Replaces(loop[l], loop'[l], t)
    BY <1>4, TypeParts, HeldType DEF Replaced, Writer, Holds
  <2>2. t # None
    BY NoneAssumption
  <2>3. QED BY <2>1, <2>2 DEF Replaces, InWindow
<1>5. QED BY <1>2, <1>3, <1>4 DEF ScheduleStep

AllInWindow == \A l \in Loop : InWindow(loop[l], now)

LEMMA CreatedInWindow ==
  ASSUME Init, NEW l \in Loop
  PROVE  InWindow(loop[l], now)
<1>1. PICK goal \in Goal \cup {None}, cron \in Cron \cup {None}, path \in Path :
        loop[l] = CreatedRow(goal, cron, path, 0)
  BY DEF Init, CreatedRows
<1>2. 0 # None
  BY NoneAssumption
<1>3. QED BY <1>1, <1>2 DEF CreatedRow, InWindow, ActiveSchedule

\* A schedule is armed exactly while it is active, and its watermark lies after
\* its activation and not in the future, whichever triggers, edits, finishes
\* and reopens interleave.
THEOREM WatermarkSafety == Spec => []WatermarkInWindow
<1>1. Init => AllInWindow
  BY CreatedInWindow DEF AllInWindow
<1>2. TypeOK /\ SnapshotIsCurrent /\ AllAdmitted /\ AllInWindow /\ [Next]_vars
        => AllInWindow'
  <2> SUFFICES ASSUME TypeOK, SnapshotIsCurrent, AllAdmitted, AllInWindow,
                      [Next]_vars, NEW l \in Loop
               PROVE  InWindow(loop'[l], now')
    BY DEF AllInWindow, InWindow
  <2>1. InWindow(loop[l], now) /\ ScheduleStep(l)
    BY NextSchedule DEF AllInWindow
  <2>2. QED BY <2>1, TimeMoves, ScheduleStepInWindow
<1>3. AllInWindow => WatermarkInWindow
  BY DEF AllInWindow, InWindow, WatermarkInWindow
<1>4. QED BY <1>1, <1>2, <1>3, TypeCorrect, GuardSafety, AllAdmittedHolds, PTL
     DEF Spec

--------------------------------------------------------------------------------
(***************************************************************************)
(* Revisions stay within the int32 ceiling.                                *)
(***************************************************************************)

SameGoal(old, new) ==
  new.goal = old.goal /\ new.goalRevision = old.goalRevision

\* The goal of a row is kept, or set while the loop is open under a revision
\* below the ceiling.
GoalStep(l) ==
  \/ SameGoal(loop[l], loop'[l])
  \/ /\ ~loop[l].completed
     /\ loop[l].goalRevision < RevisionMax
     /\ loop'[l].goalRevision = loop[l].goalRevision + 1

LEMMA WritesKeepGoal ==
  ASSUME NEW row \in Row, NEW x
  PROVE  /\ SameGoal(row, Bump(row))
         /\ SameGoal(row, Bump([row EXCEPT !.lastScheduledAt = x]))
         /\ SameGoal(row, Bump(TaskFileUpdate(row, x)))
BY DEF SameGoal, Bump, TaskFileUpdate, Row

LEMMA TransitionKeepsGoal ==
  ASSUME NEW row \in Row, NEW patch, NEW t
  PROVE  SameGoal(row, Bump(ScheduleTransition(row, patch, t)))
BY DEF SameGoal, Bump, ScheduleTransition, Row

LEMMA ReopeningKeepsGoal ==
  ASSUME NEW row \in Row, NEW t
  PROVE  SameGoal(row, Bump(Reopening(row, t)))
BY DEF SameGoal, Bump, Reopening, ScheduleTransition, Row

LEMMA ReportKeepsGoal ==
  ASSUME NEW row \in Row, NEW r, NEW b, Promote(row, r, b) \in Row,
         NEW new \in {row, Bump(Promote(row, r, b)),
                           Bump(Completion(Promote(row, r, b)))}
  PROVE  SameGoal(row, new)
<1> DEFINE p == Promote(row, r, b)
<1>1. p.goal = row.goal /\ p.goalRevision = row.goalRevision
  BY DEF Promote, Row
<1>2. /\ Bump(p).goal = p.goal /\ Bump(p).goalRevision = p.goalRevision
      /\ Bump(Completion(p)).goal = p.goal
      /\ Bump(Completion(p)).goalRevision = p.goalRevision
  BY DEF Bump, Completion, Row
<1>3. QED BY <1>1, <1>2 DEF SameGoal

LEMMA NextGoal ==
  ASSUME TypeOK, SnapshotIsCurrent, AllAdmitted, [Next]_vars, NEW l \in Loop
  PROVE  GoalStep(l)
<1> USE TypeParts
<1> DEFINE row == loop[l]
<1>0. row \in Row /\ RowStep(l)
  BY NextRows DEF LoopsOK
<1>1. CASE GoalSet(l)
  BY <1>0, <1>1 DEF GoalSet, GoalAdmits, GoalUpdate, Bump, GoalStep, Row
<1>2. CASE Reported(l)
  <2>1. PICK r \in Run, b \in Body :
          Report(r, b) /\ run[r].loop = l /\ loop'[l] = LoopAfterReport(r, b)
    BY <1>2 DEF Reported
  <2>2. /\ Promote(row, r, b) \in Row
        /\ loop'[l] \in {row, Bump(Promote(row, r, b)),
                              Bump(Completion(Promote(row, r, b)))}
    BY <2>1, ReportedRow
  <2>3. QED BY <1>0, <2>2, ReportKeepsGoal DEF GoalStep
<1>3. CASE loop'[l] \in {row, Bump(row)}
  BY <1>0, <1>3, WritesKeepGoal DEF GoalStep, SameGoal
<1>4. CASE Watermarked(l)
  <2>1. PICK trigger : loop'[l] = Bump([row EXCEPT !.lastScheduledAt = trigger.at])
    BY <1>4 DEF Watermarked
  <2>2. QED BY <1>0, <2>1, WritesKeepGoal DEF GoalStep
<1>5. CASE Rescheduled(l)
  <2>1. PICK h \in Handler :
          loop'[l] = Bump(ScheduleTransition(row, call[h].arg, call[h].at))
    BY <1>5 DEF Rescheduled
  <2>2. QED BY <1>0, <2>1, TransitionKeepsGoal DEF GoalStep
<1>6. CASE Retargeted(l)
  <2>1. PICK path \in Path : loop'[l] = Bump(TaskFileUpdate(row, path))
    BY <1>6 DEF Retargeted
  <2>2. QED BY <1>0, <2>1, WritesKeepGoal DEF GoalStep
<1>7. CASE Reopened(l)
  <2>1. PICK h \in Handler : loop'[l] = Bump(Reopening(row, call[h].at))
    BY <1>7 DEF Reopened
  <2>2. QED BY <1>0, <2>1, ReopeningKeepsGoal DEF GoalStep
<1>8. QED BY <1>0, <1>1, <1>2, <1>3, <1>4, <1>5, <1>6, <1>7 DEF RowStep

\* No interleaving of edits, completions and reopens, each planned at the last
\* admissible revision, passes the ceiling.
THEOREM RevisionSafety == Spec => []RevisionsFitInt32
<1>1. Init => RevisionsFitInt32
  BY RevisionMaxAssumption
     DEF Init, CreatedRows, CreatedRow, RevisionsFitInt32
<1>2. TypeOK /\ SnapshotIsCurrent /\ AllAdmitted /\ RevisionsFitInt32 /\ [Next]_vars
        => RevisionsFitInt32'
  <2> SUFFICES ASSUME TypeOK, SnapshotIsCurrent, AllAdmitted, RevisionsFitInt32,
                      [Next]_vars, NEW l \in Loop
               PROVE  /\ loop'[l].scheduleRevision <= RevisionMax
                      /\ loop'[l].goalRevision <= RevisionMax
    BY DEF RevisionsFitInt32
  <2>1. /\ loop[l] \in Row
        /\ loop[l].scheduleRevision \in Nat /\ loop[l].goalRevision \in Nat
        /\ loop[l].scheduleRevision <= RevisionMax
        /\ loop[l].goalRevision <= RevisionMax
    BY TypeParts DEF LoopsOK, Row, RevisionsFitInt32
  <2>2. loop'[l].goalRevision <= RevisionMax
    BY <2>1, NextGoal, RevisionMaxAssumption DEF GoalStep, SameGoal
  <2>3. Watermarked(l) => loop'[l].scheduleRevision = loop[l].scheduleRevision
    BY <2>1 DEF Watermarked, Bump, Row
  <2>4. loop'[l].scheduleRevision <= RevisionMax
    BY <2>1, <2>3, NextSchedule, RevisionMaxAssumption
       DEF ScheduleStep, SameSchedule, Replaced, Replaces
  <2>5. QED BY <2>2, <2>4
<1>3. QED BY <1>1, <1>2, TypeCorrect, GuardSafety, AllAdmittedHolds, PTL DEF Spec

--------------------------------------------------------------------------------
(***************************************************************************)
(* No instant fires twice.  The instants a loop has fired for lie at or    *)
(* before its watermark, or before the activation of a schedule that has   *)
(* not fired yet, or before the activation a planned write would give it.  *)
(***************************************************************************)

PastDue(l, t) ==
  \A r \in Run : run[r].loop = l /\ run[r].due # None => run[r].due <= t

\* The last instant an armed schedule has accounted for.
Horizon(row) ==
  IF row.lastScheduledAt # None THEN row.lastScheduledAt
  ELSE row.scheduleActivatedAt

Armed(row) == row.scheduleActivatedAt # None

Planned(h, l) ==
  Guard(h) /\ call[h].loop = l /\ (Holds(h, "schedule") \/ Holds(h, "reopen"))

DuesPast ==
  /\ \A r \in Run : run[r].due # None => run[r].phase # "absent"
  /\ \A l \in Loop : PastDue(l, now)
  /\ \A l \in Loop : Armed(loop[l]) => PastDue(l, Horizon(loop[l]))
  /\ \A l \in Loop, h \in Handler : Planned(h, l) => PastDue(l, call[h].at)

LEMMA FiresMoves ==
  ASSUME TypeOK, NEW l \in Loop, NEW at, Fires(l, at)
  PROVE  /\ loop'[l].revision = loop[l].revision + 1
         /\ loop'[l].lastScheduledAt = at
         /\ \A m \in Loop \ {l} : loop'[m] = loop[m]
BY TypeParts DEF Fires, LoopsOK, Bump, Row

\* What fires lies after everything its loop has fired for.
LEMMA FiresLater ==
  ASSUME TypeOK, DuesPast, NEW l \in Loop, NEW at \in Nat, Fires(l, at),
         NEW r \in Run, run[r].loop = l, run[r].due # None
  PROVE  run[r].due < at
<1>1. PICK trigger : trigger.at = at /\ OccurrenceAdmits(loop[l], trigger, now)
  BY DEF Fires
<1>2. /\ Armed(loop[l]) /\ at > loop[l].scheduleActivatedAt
      /\ loop[l].lastScheduledAt # None => at > loop[l].lastScheduledAt
  BY <1>1 DEF OccurrenceAdmits, Armed
<1>3. loop[l].scheduleActivatedAt \in Nat \cup {None}
      /\ loop[l].lastScheduledAt \in Nat \cup {None}
      /\ run[r].due \in Nat \cup {None}
  BY TypeParts DEF LoopsOK, RunsOK, Row, RunRow
<1>4. run[r].due <= Horizon(loop[l])
  BY <1>2 DEF DuesPast, PastDue
<1>5. QED BY <1>2, <1>3, <1>4 DEF Horizon, Armed

LEMMA PastDueStays ==
  ASSUME OriginsMove, NEW l \in Loop, NEW t \in Nat, PastDue(l, t),
         \A at \in Nat : Fires(l, at) => at <= t
  PROVE  PastDue(l, t)'
<1> SUFFICES ASSUME NEW x \in Run, run'[x].loop = l, run'[x].due # None
             PROVE  run'[x].due <= t
  BY DEF PastDue
<1>1. CASE SameOrigin(run[x], run'[x])
  BY <1>1 DEF SameOrigin, PastDue
<1>2. CASE ~SameOrigin(run[x], run'[x])
  <2>1. CASE \E m \in Loop : run'[x] = NewRun(m, None)
    BY <2>1 DEF NewRun, NoRun
  <2>2. CASE \E m \in Loop, at \in Nat : run'[x] = NewRun(m, at) /\ Fires(m, at)
    <3>1. PICK m \in Loop, at \in Nat : run'[x] = NewRun(m, at) /\ Fires(m, at)
      BY <2>2
    <3>2. run'[x].loop = m /\ run'[x].due = at
      BY <3>1 DEF NewRun, NoRun
    <3>3. QED BY <3>1, <3>2
  <2>3. QED BY <1>2, <2>1, <2>2 DEF OriginsMove, OriginsKept, Inserts
<1>3. QED BY <1>1, <1>2

LEMMA HorizonStays ==
  ASSUME TypeOK, TypeOK', DuesPast, OriginsMove, NEW l \in Loop,
         ScheduleStep(l), Armed(loop'[l])
  PROVE  PastDue(l, Horizon(loop[l]))'
<1> DEFINE t == Horizon(loop'[l])
<1>1. /\ loop[l].scheduleActivatedAt \in Nat \cup {None}
      /\ loop[l].lastScheduledAt \in Nat \cup {None}
      /\ loop'[l].scheduleActivatedAt \in Nat \cup {None}
      /\ loop'[l].lastScheduledAt \in Nat \cup {None}
      /\ loop[l] \in Row
  BY DEF TypeOK, Row
<1>2. t \in Nat
  BY <1>1 DEF Horizon, Armed
<1>3. \A at \in Nat : Fires(l, at) => at <= t
  BY FiresMoves, NoneAssumption DEF Horizon
<1>4. PastDue(l, t)
  <2>1. CASE SameSchedule(loop[l], loop'[l])
    BY <2>1 DEF SameSchedule, DuesPast, Armed, Horizon
  <2>2. CASE Watermarked(l)
    <3>1. PICK trigger : /\ trigger.at \in Nat
                         /\ OccurrenceAdmits(loop[l], trigger, now)
                         /\ loop'[l] = Bump([loop[l] EXCEPT !.lastScheduledAt = trigger.at])
      BY <2>2 DEF Watermarked
    <3>2. t = trigger.at
      BY <1>1, <3>1, NoneAssumption DEF Bump, Row, Horizon
    <3>3. Armed(loop[l]) /\ Horizon(loop[l]) < trigger.at
      BY <1>1, <3>1 DEF OccurrenceAdmits, Armed, Horizon
    <3>4. PastDue(l, Horizon(loop[l])) /\ Horizon(loop[l]) \in Nat
      BY <1>1, <3>3 DEF DuesPast, Armed, Horizon
    <3>5. \A r \in Run : run[r].due \in Nat \cup {None}
      BY TypeParts DEF RunsOK, RunRow
    <3>6. QED BY <3>1, <3>2, <3>3, <3>4, <3>5 DEF PastDue
  <2>3. CASE Replaced(l)
    <3>1. PICK h \in Handler : /\ Writer(h, "schedule", l) \/ Writer(h, "reopen", l)
                               /\ Replaces(loop[l], loop'[l], call[h].at)
      BY <2>3 DEF Replaced, Replaces, Armed
    <3>2. t = call[h].at
      BY <3>1 DEF Replaces, Armed, Horizon
    <3>3. Planned(h, l)
      BY <3>1 DEF Planned, Writer
    <3>4. QED BY <3>2, <3>3 DEF DuesPast
  <2>4. QED BY <2>1, <2>2, <2>3 DEF ScheduleStep
<1>5. PICK u \in Nat : u = t
  BY <1>2
<1>6. PastDue(l, u)'
  BY <1>3, <1>4, <1>5, PastDueStays
<1>7. QED BY <1>5, <1>6 DEF PastDue

LEMMA PlannedStays ==
  ASSUME TypeOK, TypeOK', SnapshotsBehind, DuesPast, OriginsMove, [Next]_vars,
         NEW l \in Loop, NEW h \in Handler, Planned(h, l)'
  PROVE  PastDue(l, call[h].at)'
<1>1. PICK t \in Nat : t = call'[h].at
  BY DEF Planned, Holds, TypeOK, CallTypeOK, Free
<1>2. /\ call'[h].stage = "held" /\ call'[h].loop = l
      /\ call'[h].op \in {"schedule", "reopen"}
      /\ loop'[l].revision = call'[h].snap.revision
  BY DEF Planned, Holds, Guard
<1>3. loop'[l].revision \in Nat /\ loop[l].revision \in Nat
  BY DEF TypeOK, Row
<1>4. ASSUME loop'[l] = loop[l], PastDue(l, t) PROVE PastDue(l, call[h].at)'
  <2>1. \A at \in Nat : ~Fires(l, at)
    BY <1>3, <1>4, FiresMoves
  <2>2. PastDue(l, t)'
    BY <1>4, <2>1, PastDueStays
  <2>3. QED BY <1>1, <2>2 DEF PastDue
<1>5. CASE call'[h] = call[h]
  <2>1. call[h].snap.revision <= loop[l].revision
    BY <1>2, <1>5 DEF SnapshotsBehind, Behind
  <2>2. loop'[l] = loop[l]
    BY <1>2, <1>3, <2>1, <1>5, NextRowsMove DEF RowsMove
  <2>3. Planned(h, l)
    BY <1>2, <1>5, <2>2 DEF Planned, Holds, Guard
  <2>4. QED BY <1>1, <1>4, <1>5, <2>2, <2>3 DEF DuesPast
<1>6. CASE call'[h] # call[h]
  <2>1. UNCHANGED loop
    BY <1>2, <1>6, NextCallsMove DEF CallMoves
  <2>2. PICK op, arg, attempt : \E m \in Loop : call'[h] = Held(op, arg, m, attempt)
    BY <1>2, <1>6, NextCallsMove DEF CallMoves
  <2>3. t = now
    BY <1>1, <1>2, <2>2 DEF Held
  <2>4. QED BY <1>4, <2>1, <2>3 DEF DuesPast
<1>7. QED BY <1>5, <1>6

LEMMA NextDues ==
  ASSUME TypeOK, TypeOK', SnapshotIsCurrent, SnapshotsBehind, AllAdmitted,
         DuesPast, [Next]_vars
  PROVE  DuesPast'
<1>0. OriginsMove /\ now \in Nat /\ now' \in Nat /\ now <= now'
  BY NextOrigins, TimeMoves
<1>1. \A r \in Run : run'[r].due # None => run'[r].phase # "absent"
  <2> TAKE r \in Run
  <2>1. CASE SameOrigin(run[r], run'[r])
    BY <2>1 DEF SameOrigin, DuesPast
  <2>2. CASE \E m, due : run'[r] = NewRun(m, due)
    BY <2>2 DEF NewRun, NoRun
  <2>3. QED BY <1>0, <2>1, <2>2 DEF OriginsMove, OriginsKept, Inserts
<1>2. ASSUME NEW l \in Loop PROVE PastDue(l, now)'
  <2>1. PICK u \in Nat : u = now'
    BY <1>0
  <2>2. PastDue(l, u)
    <3>1. PastDue(l, now) /\ \A r \in Run : run[r].due \in Nat \cup {None}
      BY TypeParts DEF DuesPast, RunsOK, RunRow
    <3>2. QED BY <1>0, <2>1, <3>1 DEF PastDue
  <2>3. \A at \in Nat : Fires(l, at) => at <= u
    BY <1>0, <2>1 DEF Fires, OccurrenceAdmits
  <2>4. PastDue(l, u)'
    BY <1>0, <2>2, <2>3, PastDueStays
  <2>5. QED BY <2>1, <2>4 DEF PastDue
<1>3. ASSUME NEW l \in Loop, Armed(loop'[l]) PROVE PastDue(l, Horizon(loop[l]))'
  BY <1>0, <1>3, NextSchedule, HorizonStays
<1>4. ASSUME NEW l \in Loop, NEW h \in Handler, Planned(h, l)'
      PROVE  PastDue(l, call[h].at)'
  BY <1>0, <1>4, PlannedStays
<1>5. QED BY <1>1, <1>2, <1>3, <1>4 DEF DuesPast, Armed

LEMMA InitDues == Init => DuesPast
<1> SUFFICES ASSUME Init PROVE DuesPast
  OBVIOUS
<1>1. \A r \in Run : run[r].due = None
  BY DEF Init, Inherited, NoRun
<1>2. QED BY <1>1 DEF DuesPast, PastDue

LEMMA DuesPastHolds == Spec => []DuesPast
<1>1. QED BY InitDues, NextDues, TypeCorrect, GuardSafety, SnapshotsBehindHolds,
             AllAdmittedHolds, PTL DEF Spec

\* No instant fires a loop twice: not through duplicate or late triggers, nor
\* across pauses, schedule edits, completions and reopens.
THEOREM OccurrenceSafety == Spec => []OccurrenceFiresOnce
<1>1. Init => OccurrenceFiresOnce
  BY DEF Init, Inherited, NoRun, OccurrenceFiresOnce
<1>2. TypeOK /\ SnapshotIsCurrent /\ AllAdmitted /\ DuesPast
      /\ OccurrenceFiresOnce /\ [Next]_vars
        => OccurrenceFiresOnce'
  <2> SUFFICES ASSUME TypeOK, SnapshotIsCurrent, AllAdmitted, DuesPast,
                      OccurrenceFiresOnce, [Next]_vars
               PROVE  OccurrenceFiresOnce'
    OBVIOUS
  <2>1. CASE OriginsKept
    BY <2>1 DEF OriginsKept, SameOrigin, OccurrenceFiresOnce
  <2>2. ASSUME NEW n \in Run, NEW l \in Loop, Inserts(n, l, None)
        PROVE  OccurrenceFiresOnce'
    <3>1. run'[n].due = None
      BY <2>2 DEF Inserts, NewRun, NoRun
    <3>2. QED BY <2>2, <3>1 DEF Inserts, SameOrigin, OccurrenceFiresOnce
  <2>3. ASSUME NEW n \in Run, NEW l \in Loop, NEW at \in Nat,
               Inserts(n, l, at), Fires(l, at)
        PROVE  OccurrenceFiresOnce'
    <3>1. run'[n].due = at /\ run'[n].loop = l
      BY <2>3 DEF Inserts, NewRun, NoRun
    <3>2. \A x \in Run \ {n} : /\ run'[x].due = run[x].due
                               /\ run'[x].loop = run[x].loop
                               /\ run[x].loop = l => run[x].due # at
      <4> TAKE x \in Run \ {n}
      <4>1. at # None
        BY NoneAssumption
      <4>2. run[x].loop = l /\ run[x].due # None => run[x].due < at
        BY <2>3, FiresLater
      <4>3. QED BY <2>3, <4>1, <4>2 DEF Inserts, SameOrigin
    <3>3. QED BY <3>1, <3>2 DEF OccurrenceFiresOnce
  <2>4. QED BY <2>1, <2>2, <2>3, NextOrigins DEF OriginsMove
<1>3. QED BY <1>1, <1>2, TypeCorrect, GuardSafety, AllAdmittedHolds,
             DuesPastHolds, PTL DEF Spec

\* No instant fires twice, the watermark stays in the window of its schedule,
\* and no revision passes the ceiling.
THEOREM ScheduleSafety == Spec => []ScheduleIsSound
<1>1. OccurrenceFiresOnce /\ WatermarkInWindow /\ RevisionsFitInt32 => ScheduleIsSound
  BY DEF ScheduleIsSound
<1>2. QED BY <1>1, OccurrenceSafety, WatermarkSafety, RevisionSafety, PTL

--------------------------------------------------------------------------------
(***************************************************************************)
(* The rest of a row: what a run was handed, what it may promote, and who  *)
(* may complete the loop.                                                  *)
(***************************************************************************)

SameRest(old, new) ==
  /\ new.completed = old.completed
  /\ new.generation = old.generation
  /\ new.taskFile = old.taskFile
  /\ new.state = old.state
  /\ new.taskFileContent = old.taskFileContent

\* A success promotes into an open loop.
Promoted(l) ==
  /\ ~loop[l].completed /\ ~loop'[l].completed
  /\ loop'[l].generation = loop[l].generation
  /\ loop'[l].taskFile = loop[l].taskFile

\* A finish completes it.
Finished(l) ==
  /\ \E r \in Run, b \in Body :
       /\ Report(r, b) /\ Finishes(r, b)
       /\ run[r].loop = l /\ lease[r].version = 1
       /\ FinishAdmits(loop[l], lease[r])
  /\ ~loop[l].completed
  /\ loop'[l].generation = loop[l].generation
  /\ loop'[l].taskFile = loop[l].taskFile

RestStep(l) ==
  \/ SameRest(loop[l], loop'[l])
  \/ Retargeted(l) \/ Reopened(l) \/ Promoted(l) \/ Finished(l)

LEMMA WritesKeepRest ==
  ASSUME NEW row \in Row, NEW x
  PROVE  /\ SameRest(row, row) /\ SameRest(row, Bump(row))
         /\ SameRest(row, Bump([row EXCEPT !.lastScheduledAt = x]))
         /\ SameRest(row, Bump(GoalUpdate(row, x)))
BY DEF SameRest, Bump, GoalUpdate, Row

LEMMA TransitionKeepsRest ==
  ASSUME NEW row \in Row, NEW patch, NEW t
  PROVE  SameRest(row, Bump(ScheduleTransition(row, patch, t)))
BY DEF SameRest, Bump, ScheduleTransition, Row

LEMMA RetargetRest ==
  ASSUME NEW row \in Row, NEW path
  PROVE  LET new == Bump(TaskFileUpdate(row, path))
         IN  /\ new.completed = row.completed /\ new.generation = row.generation
             /\ new.state = row.state /\ new.taskFileContent = None
BY DEF Bump, TaskFileUpdate, Row

LEMMA ReopeningRest ==
  ASSUME NEW row \in Row, NEW t
  PROVE  LET new == Bump(Reopening(row, t))
         IN  ~new.completed /\ new.taskFile = row.taskFile
BY DEF Bump, Reopening, ScheduleTransition, Row

LEMMA PromotionKeepsRest ==
  ASSUME NEW row \in Row, NEW r, NEW b, Promote(row, r, b) \in Row
  PROVE  LET p == Promote(row, r, b) IN
         /\ Bump(p).completed = row.completed
         /\ Bump(p).generation = row.generation
         /\ Bump(p).taskFile = row.taskFile
         /\ Bump(Completion(p)).generation = row.generation
         /\ Bump(Completion(p)).taskFile = row.taskFile
<1> DEFINE p == Promote(row, r, b)
<1>1. /\ p.completed = row.completed /\ p.generation = row.generation
      /\ p.taskFile = row.taskFile
  BY DEF Promote, Row
<1>2. QED BY <1>1 DEF Bump, Completion, Row

LEMMA NextRestOfRow ==
  ASSUME TypeOK, SnapshotIsCurrent, AllAdmitted, [Next]_vars, NEW l \in Loop
  PROVE  RestStep(l)
<1> USE TypeParts
<1> DEFINE row == loop[l]
<1>0. row \in Row /\ RowStep(l)
  BY NextRows DEF LoopsOK
<1>1. CASE loop'[l] \in {row, Bump(row)}
  BY <1>0, <1>1, WritesKeepRest DEF RestStep
<1>2. CASE Watermarked(l)
  <2>1. PICK trigger : loop'[l] = Bump([row EXCEPT !.lastScheduledAt = trigger.at])
    BY <1>2 DEF Watermarked
  <2>2. QED BY <1>0, <2>1, WritesKeepRest DEF RestStep
<1>3. CASE GoalSet(l)
  <2>1. PICK goal : loop'[l] = Bump(GoalUpdate(row, goal))
    BY <1>3 DEF GoalSet
  <2>2. QED BY <1>0, <2>1, WritesKeepRest DEF RestStep
<1>4. CASE Rescheduled(l)
  <2>1. PICK h \in Handler :
          loop'[l] = Bump(ScheduleTransition(row, call[h].arg, call[h].at))
    BY <1>4 DEF Rescheduled
  <2>2. QED BY <1>0, <2>1, TransitionKeepsRest DEF RestStep
<1>5. CASE Reported(l)
  <2>1. PICK r \in Run, b \in Body :
          Report(r, b) /\ run[r].loop = l /\ loop'[l] = LoopAfterReport(r, b)
    BY <1>5 DEF Reported
  <2>2. Promote(row, r, b) \in Row
    BY <2>1, ReportedRow
  <2>3. CASE loop'[l] = row
    BY <1>0, <2>3, WritesKeepRest DEF RestStep
  <2>4. CASE loop'[l] = Bump(Promote(row, r, b)) /\ ~row.completed
    BY <1>0, <2>2, <2>4, PromotionKeepsRest DEF RestStep, Promoted
  <2>5. CASE /\ loop'[l] = Bump(Completion(Promote(row, r, b)))
             /\ lease[r].version = 1 /\ FinishAdmits(row, lease[r]) /\ Finishes(r, b)
    <3>1. ~row.completed
      BY <2>5 DEF FinishAdmits
    <3>2. loop'[l].generation = row.generation /\ loop'[l].taskFile = row.taskFile
      BY <1>0, <2>2, <2>5, PromotionKeepsRest
    <3>3. QED BY <2>1, <2>5, <3>1, <3>2 DEF RestStep, Finished
  <2>6. QED BY <2>1, <2>3, <2>4, <2>5, ReportedRow
<1>6. QED BY <1>0, <1>1, <1>2, <1>3, <1>4, <1>5 DEF RowStep, RestStep

--------------------------------------------------------------------------------
(***************************************************************************)
(* What a step does to one run and its lease: a claim builds both from the *)
(* row it commits, an enqueue has no lease, and nothing else changes what  *)
(* the run was handed or what its credential is for.                       *)
(***************************************************************************)

Claimed(r) ==
  LET l == run[r].loop IN
  /\ run[r].phase = "pending" /\ l \in Loop
  /\ run'[r] = ClaimedRun(r, loop[l])
  /\ lease'[r] = MintedLease(loop[l])
  /\ loop'[l] = Bump(loop[l])

Enqueued(r) == run'[r].phase = "pending" /\ lease'[r] = lease[r]

SameDelivery(x, nx) ==
  /\ nx.loop = x.loop /\ nx.taskFile = x.taskFile
  /\ nx.goal = x.goal /\ nx.generation = x.generation

\* A credential that is left is the one that was there, with no more time.
SameCredential(y, ny) ==
  /\ ny.state # "none" =>
       /\ y.state # "none"
       /\ ny.version = y.version /\ ny.goalRevision = y.goalRevision
  /\ y.state = "grace" => ny.state # "active" /\ ny.left <= y.left

Continues(r) ==
  /\ SameDelivery(run[r], run'[r])
  /\ run'[r].phase = "running" => run[r].phase = "running"
  /\ SameCredential(lease[r], lease'[r])

DeliveryStep(r) == Claimed(r) \/ Enqueued(r) \/ Continues(r)

LEMMA NoCredential ==
  ASSUME NEW y \in Lease
  PROVE  SameCredential(y, NoLease)
BY DurationAssumption DEF SameCredential, NoLease, Lease

LEMMA CredentialStays ==
  ASSUME NEW y \in Lease
  PROVE  SameCredential(y, y)
BY DurationAssumption DEF SameCredential, Lease

LEMMA CanceledContinues ==
  ASSUME RunsOK, NEW r \in Run
  PROVE  SameDelivery(run[r], Canceled(r)) /\ Canceled(r).phase = "canceled"
BY DEF RunsOK, RunRow, Canceled, SameDelivery

LEMMA StillContinues ==
  ASSUME RunsOK, LeasesOK, NEW r \in Run, run'[r] = run[r],
         lease'[r] \in {lease[r], NoLease}
  PROVE  Continues(r)
BY NoCredential, CredentialStays DEF LeasesOK, Continues, SameDelivery

LEMMA InsertRunDelivery ==
  ASSUME RunsOK, LeasesOK, NEW n \in Run, NEW l \in Loop, NEW due,
         InsertRun(n, l, due), UNCHANGED lease, NEW r \in Run
  PROVE  DeliveryStep(r)
<1>1. CASE r = n
  BY <1>1 DEF InsertRun, NewRun, NoRun, DeliveryStep, Enqueued
<1>2. CASE r # n /\ r \in RunsOf(l, "pending")
  <2>1. run'[r] = Canceled(r)
    BY <1>2 DEF InsertRun
  <2>2. QED BY <2>1, CanceledContinues, CredentialStays
       DEF LeasesOK, DeliveryStep, Continues
<1>3. CASE r # n /\ r \notin RunsOf(l, "pending")
  BY <1>3, StillContinues DEF InsertRun, DeliveryStep
<1>4. QED BY <1>1, <1>2, <1>3

LEMMA CallStepDelivery ==
  ASSUME TypeOK, AllAdmitted, NEW h \in Handler, CallStep(h), NEW r \in Run
  PROVE  DeliveryStep(r)
<1> USE TypeParts
<1> DEFINE l == call[h].loop
<1>1. CASE UNCHANGED <<run, lease>>
  BY <1>1, StillContinues DEF DeliveryStep
<1>2. CASE \/ Retry(h) \/ UpdateGoal(h) \/ UpdateSchedule(h) \/ UpdateTaskFile(h)
  BY <1>1, <1>2 DEF Retry, UpdateGoal, UpdateSchedule, UpdateTaskFile,
                    GuardedWrite, LoseGuard, AnswerOnly
<1>3. CASE RunNow(h)
  <2>1. l \in Loop
    BY <1>3, HeldType DEF RunNow, Holds
  <2>2. CASE \E n \in Run : InsertRun(n, l, None) /\ UNCHANGED lease
    BY <2>1, <2>2, InsertRunDelivery
  <2>3. QED BY <1>1, <1>3, <2>2 DEF RunNow, AnswerOnly, LoseGuard
<1>4. CASE ScheduledEnqueue(h)
  <2>1. l \in Loop
    BY <1>4, HeldType DEF ScheduledEnqueue, Holds
  <2>2. CASE \E n \in Run : InsertRun(n, l, call[h].arg.at) /\ UNCHANGED lease
    BY <2>1, <2>2, InsertRunDelivery
  <2>3. QED BY <1>1, <1>4, <2>2 DEF ScheduledEnqueue, LoseGuard
<1>5. CASE Claim(h)
  <2> DEFINE s == call[h].arg
  <2>1. CASE /\ StillPending(s) /\ run' = [run EXCEPT ![s] = ClaimedRun(s, loop[l])]
             /\ WriteLoop(l, loop[l])
             /\ lease' = [lease EXCEPT ![s] = MintedLease(loop[l])]
    <3>1. call[h].stage = "held" /\ call[h].op = "claim" /\ l \in Loop /\ s \in Run
      BY <1>5, HeldType DEF Claim, Holds
    <3>2. run[s].loop = l
      BY <3>1 DEF AllAdmitted, Admitted
    <3>3. loop'[l] = Bump(loop[l])
      BY <2>1, <3>1 DEF WriteLoop, LoopsOK
    <3>4. CASE r = s
      <4>1. run'[r] = ClaimedRun(r, loop[l]) /\ lease'[r] = MintedLease(loop[l])
        BY <2>1, <3>4 DEF RunsOK, LeasesOK
      <4>2. run[r].phase = "pending"
        BY <2>1, <3>4 DEF StillPending
      <4>3. QED BY <3>1, <3>2, <3>3, <3>4, <4>1, <4>2 DEF DeliveryStep, Claimed
    <3>5. CASE r # s
      BY <2>1, <3>5, StillContinues DEF RunsOK, LeasesOK, DeliveryStep
    <3>6. QED BY <3>4, <3>5
  <2>2. QED BY <1>1, <1>5, <2>1 DEF Claim, AnswerOnly, LoseGuard
<1>6. CASE ReopenLoop(h)
  <2>1. CASE /\ run' = [x \in Run |->
                  IF x \in RunsOf(l, "pending") \cup RunsOf(l, "running")
                  THEN Canceled(x) ELSE run[x]]
             /\ lease' = Revoked(l)
    <3>1. lease'[r] \in {lease[r], NoLease}
      BY <2>1 DEF Revoked
    <3>2. run'[r] = run[r] \/ run'[r] = Canceled(r)
      BY <2>1
    <3>3. SameCredential(lease[r], lease'[r])
      BY <3>1, NoCredential, CredentialStays DEF LeasesOK
    <3>4. CASE run'[r] = Canceled(r)
      BY <3>3, <3>4, CanceledContinues DEF DeliveryStep, Continues
    <3>5. QED BY <3>1, <3>2, <3>4, StillContinues DEF DeliveryStep
  <2>2. QED BY <1>1, <1>6, <2>1 DEF ReopenLoop, LoseGuard
<1>7. QED BY <1>2, <1>3, <1>4, <1>5, <1>6 DEF CallStep

LEMMA ReportDelivery ==
  ASSUME TypeOK, NEW s \in Run, NEW b, Report(s, b), NEW r \in Run
  PROVE  DeliveryStep(r)
<1> USE TypeParts
<1>1. run[r] \in RunRow /\ lease[r] \in Lease
  BY DEF RunsOK, LeasesOK
<1>2. CASE r = s
  <2>1. lease'[r] = NoLease
    BY <1>2 DEF Report, LeasesOK
  <2>2. SameDelivery(run[r], run'[r]) /\ run'[r].phase # "running"
    BY <1>1, <1>2 DEF Report, RunRow, SameDelivery
  <2>3. QED BY <1>1, <2>1, <2>2, NoCredential DEF DeliveryStep, Continues
<1>3. CASE r # s
  <2>1. lease'[r] = lease[r] /\ run'[r] \in {run[r], Canceled(r)}
    BY <1>3 DEF Report, LeasesOK
  <2>2. CASE run'[r] = Canceled(r)
    BY <1>1, <2>1, <2>2, CanceledContinues, CredentialStays
       DEF DeliveryStep, Continues
  <2>3. QED BY <2>1, <2>2, StillContinues DEF DeliveryStep
<1>4. QED BY <1>2, <1>3

LEMMA RunStepDelivery ==
  ASSUME TypeOK, NEW s \in Run,
         \/ ReportDenied(s) \/ CancelRun(s) \/ ReclaimStaleRun(s)
         \/ PruneGraceLease(s) \/ ApplyRunProgress(s),
         NEW r \in Run
  PROVE  DeliveryStep(r)
<1> USE TypeParts
<1>1. run[r] \in RunRow /\ lease[r] \in Lease
  BY DEF RunsOK, LeasesOK
<1>2. CASE ReportDenied(s) \/ PruneGraceLease(s)
  BY <1>2, StillContinues DEF ReportDenied, PruneGraceLease, LeasesOK, DeliveryStep
<1>3. CASE CancelRun(s)
  <2>1. lease'[r] \in {lease[r], NoLease} /\ run'[r] \in {run[r], Canceled(r)}
    BY <1>3 DEF CancelRun, RunsOK, LeasesOK
  <2>2. SameCredential(lease[r], lease'[r])
    BY <1>1, <2>1, NoCredential, CredentialStays
  <2>3. CASE run'[r] = Canceled(r)
    BY <2>2, <2>3, CanceledContinues DEF DeliveryStep, Continues
  <2>4. QED BY <2>1, <2>3, StillContinues DEF DeliveryStep
<1>4. CASE ReclaimStaleRun(s)
  <2>1. CASE r # s
    BY <1>4, <2>1, StillContinues DEF ReclaimStaleRun, RunsOK, LeasesOK, DeliveryStep
  <2>2. CASE r = s
    <3>1. run'[r] = [run[r] EXCEPT !.phase = "error", !.idle = 0]
      BY <1>4, <2>2 DEF ReclaimStaleRun, RunsOK
    <3>2. lease'[r] = [lease[r] EXCEPT !.state = "grace", !.left = Grace]
      BY <1>4, <2>2 DEF ReclaimStaleRun, LeasesOK
    <3>3. lease[r].state = "active"
      BY <1>4, <2>2 DEF ReclaimStaleRun, Reclaimable
    <3>4. SameDelivery(run[r], run'[r]) /\ run'[r].phase = "error"
      BY <1>1, <3>1 DEF RunRow, SameDelivery
    <3>5. SameCredential(lease[r], lease'[r])
      BY <1>1, <3>2, <3>3 DEF Lease, SameCredential
    <3>6. QED BY <3>4, <3>5 DEF DeliveryStep, Continues
  <2>3. QED BY <2>1, <2>2
<1>5. CASE ApplyRunProgress(s)
  <2>1. lease'[r] = lease[r] /\ run'[r] \in {run[r], [run[r] EXCEPT !.idle = 0]}
    BY <1>5 DEF ApplyRunProgress, RunsOK
  <2>2. SameDelivery(run[r], run'[r]) /\ run'[r].phase = run[r].phase
    BY <1>1, <2>1 DEF RunRow, SameDelivery
  <2>3. QED BY <1>1, <2>1, <2>2, CredentialStays DEF DeliveryStep, Continues
<1>6. QED BY <1>2, <1>3, <1>4, <1>5

LEMMA NextDelivery ==
  ASSUME TypeOK, AllAdmitted, [Next]_vars, NEW r \in Run
  PROVE  DeliveryStep(r)
<1> USE TypeParts
<1>1. CASE UNCHANGED <<run, lease>>
  BY <1>1, StillContinues DEF DeliveryStep
<1>2. ASSUME NEW h \in Handler, Begin(h) \/ CallStep(h) PROVE DeliveryStep(r)
  BY <1>1, <1>2, CallStepDelivery DEF Begin
<1>3. ASSUME NEW s \in Run, NEW b \in Body, Report(s, b) PROVE DeliveryStep(r)
  BY <1>3, ReportDelivery
<1>4. ASSUME NEW s \in Run,
             \/ ReportDenied(s) \/ CancelRun(s) \/ ReclaimStaleRun(s)
             \/ PruneGraceLease(s) \/ ApplyRunProgress(s)
      PROVE  DeliveryStep(r)
  BY <1>4, RunStepDelivery
<1>5. CASE Tick
  <2>1. run[r] \in RunRow /\ lease[r] \in Lease
    BY DEF RunsOK, LeasesOK
  <2>2. SameDelivery(run[r], run'[r]) /\ run'[r].phase = run[r].phase
    BY <1>5, <2>1 DEF Tick, RunRow, SameDelivery
  <2>3. /\ lease'[r].state = lease[r].state /\ lease'[r].version = lease[r].version
        /\ lease'[r].goalRevision = lease[r].goalRevision
        /\ lease'[r].left <= lease[r].left
    BY <1>5, <2>1, DurationAssumption DEF Tick, Lease
  <2>4. QED BY <2>2, <2>3 DEF DeliveryStep, Continues, SameCredential
<1>6. CASE Restart \/ UNCHANGED vars
  BY <1>1, <1>6 DEF Restart, vars
<1>7. QED BY <1>2, <1>3, <1>4, <1>5, <1>6 DEF Next

--------------------------------------------------------------------------------
(***************************************************************************)
(* A run executes on the task file it was handed.                          *)
(***************************************************************************)

LEMMA RunningHasLoop ==
  ASSUME RunsOK, NEW r \in Run, run[r].phase # "absent"
  PROVE  run[r].loop \in Loop
BY DEF RunsOK

LEMMA ClaimedFields ==
  ASSUME TypeOK, NEW r \in Run, Claimed(r)
  PROVE  LET row == loop[run[r].loop] IN
         /\ run[r].loop \in Loop /\ row \in Row
         /\ run'[r].loop = run[r].loop
         /\ run'[r].taskFile = row.taskFile
         /\ run'[r].goal = row.goal
         /\ run'[r].generation = row.generation
         /\ loop'[run[r].loop].taskFile = row.taskFile
         /\ loop'[run[r].loop].generation = row.generation
         /\ loop'[run[r].loop].goal = row.goal
         /\ loop'[run[r].loop].goalRevision = row.goalRevision
         /\ lease'[r].state = "active"
         /\ lease'[r].goalRevision = row.goalRevision
<1> DEFINE row == loop[run[r].loop]
<1>1. run[r] \in RunRow /\ run[r].loop \in Loop /\ row \in Row
  BY TypeParts DEF Claimed, RunsOK, LoopsOK
<1>2. run'[r] = ClaimedRun(r, row) /\ lease'[r] = MintedLease(row)
      /\ loop'[run[r].loop] = Bump(row)
  BY DEF Claimed
<1>3. /\ ClaimedRun(r, row).loop = run[r].loop
      /\ ClaimedRun(r, row).taskFile = row.taskFile
      /\ ClaimedRun(r, row).goal = row.goal
      /\ ClaimedRun(r, row).generation = row.generation
  BY <1>1 DEF ClaimedRun, RunRow
<1>4. /\ Bump(row).taskFile = row.taskFile /\ Bump(row).generation = row.generation
      /\ Bump(row).goal = row.goal /\ Bump(row).goalRevision = row.goalRevision
  BY <1>1 DEF Bump, Row
<1>5. MintedLease(row).state = "active" /\ MintedLease(row).goalRevision = row.goalRevision
  BY DEF MintedLease
<1>6. QED BY <1>1, <1>2, <1>3, <1>4, <1>5

\* While a run executes, its loop's task file is the one it was handed: a
\* retarget that read the row before the claim loses the guard or finds the run.
THEOREM TaskFileSafety == Spec => []RunningSeesItsTaskFile
<1>1. Init => RunningSeesItsTaskFile
  <2> SUFFICES ASSUME Init, NEW r \in Run, run[r].phase = "running"
               PROVE  run[r].taskFile = loop[run[r].loop].taskFile
    BY DEF RunningSeesItsTaskFile
  <2>1. PICK l \in Loop :
          run = [x \in Run |-> IF x \in LegacyRun THEN Inherited(l) ELSE NoRun]
    BY DEF Init
  <2>2. run[r] = Inherited(l)
    BY <2>1 DEF NoRun
  <2>3. QED BY <2>2 DEF Inherited, NoRun
<1>2. /\ TypeOK /\ SnapshotIsCurrent /\ AllAdmitted /\ RunningSeesItsTaskFile
      /\ [Next]_vars
      => RunningSeesItsTaskFile'
  <2> SUFFICES ASSUME TypeOK, SnapshotIsCurrent, AllAdmitted,
                      RunningSeesItsTaskFile, [Next]_vars,
                      NEW r \in Run, run'[r].phase = "running"
               PROVE  run'[r].taskFile = loop'[run'[r].loop].taskFile
    BY DEF RunningSeesItsTaskFile
  <2>1. CASE Claimed(r)
    BY <2>1, ClaimedFields
  <2>2. CASE Continues(r)
    <3> DEFINE l == run[r].loop
    <3>1. run[r].phase = "running" /\ run'[r].loop = l
          /\ run'[r].taskFile = run[r].taskFile
      BY <2>2 DEF Continues, SameDelivery
    <3>2. l \in Loop /\ run[r].taskFile = loop[l].taskFile
      BY <3>1, TypeParts, RunningHasLoop DEF RunningSeesItsTaskFile
    <3>3. ~Retargeted(l)
      BY <3>1 DEF Retargeted, RunsOf
    <3>4. loop[l] \in Row
      BY <3>2, TypeParts DEF LoopsOK
    <3>5. Reopened(l) => loop'[l].taskFile = loop[l].taskFile
      BY <3>4, ReopeningRest DEF Reopened
    <3>6. loop'[l].taskFile = loop[l].taskFile
      BY <3>2, <3>3, <3>5, NextRestOfRow DEF RestStep, SameRest, Promoted, Finished
    <3>7. QED BY <3>1, <3>2, <3>6
  <2>3. QED BY <2>1, <2>2, NextDelivery DEF DeliveryStep, Enqueued
<1>3. QED BY <1>1, <1>2, TypeCorrect, GuardSafety, AllAdmittedHolds, PTL DEF Spec

--------------------------------------------------------------------------------
(***************************************************************************)
(* What is over has no say in what follows.                                *)
(***************************************************************************)

LEMMA CredentialHasLoop ==
  ASSUME TypeOK, RunningHoldsLease, NEW r \in Run, lease[r].state # "none"
  PROVE  run[r].loop \in Loop /\ run[r].phase # "absent"
BY TypeParts DEF RunningHoldsLease, RunsOK, LeasesOK, Lease

LEMMA EnqueuedHasNone ==
  ASSUME TypeOK, RunningHoldsLease', NEW r \in Run, Enqueued(r)
  PROVE  lease'[r].state = "none"
<1>1. lease'[r].state \in {"none", "active", "grace"}
  BY TypeParts DEF Enqueued, LeasesOK, Lease
<1>2. QED BY <1>1 DEF Enqueued, RunningHoldsLease

\* No credential survives a Reopen: a lease belongs to a run that was claimed in
\* the loop's current generation.
THEOREM GenerationSafety == Spec => []LeaseOfThisGeneration
<1>1. Init => LeaseOfThisGeneration
  <2> SUFFICES ASSUME Init, NEW r \in Run, lease[r].state # "none"
               PROVE  run[r].generation = loop[run[r].loop].generation
    BY DEF LeaseOfThisGeneration
  <2>1. PICK l \in Loop :
          run = [x \in Run |-> IF x \in LegacyRun THEN Inherited(l) ELSE NoRun]
    BY DEF Init
  <2>2. run[r] = Inherited(l)
    BY <2>1 DEF Init, NoLease
  <2>3. loop[l].generation = 0
    BY DEF Init, CreatedRows, CreatedRow
  <2>4. QED BY <2>2, <2>3 DEF Inherited, NoRun
<1>2. /\ TypeOK /\ RunningHoldsLease /\ RunningHoldsLease' /\ SnapshotIsCurrent
      /\ AllAdmitted /\ LeaseOfThisGeneration /\ [Next]_vars
      => LeaseOfThisGeneration'
  <2> SUFFICES ASSUME TypeOK, RunningHoldsLease, RunningHoldsLease',
                      SnapshotIsCurrent, AllAdmitted,
                      LeaseOfThisGeneration, [Next]_vars,
                      NEW r \in Run, lease'[r].state # "none"
               PROVE  run'[r].generation = loop'[run'[r].loop].generation
    BY DEF LeaseOfThisGeneration
  <2>1. CASE Claimed(r)
    BY <2>1, ClaimedFields
  <2>2. CASE Continues(r)
    <3> DEFINE l == run[r].loop
    <3>1. lease[r].state # "none" /\ run'[r].loop = l
          /\ run'[r].generation = run[r].generation
      BY <2>2 DEF Continues, SameDelivery, SameCredential
    <3>2. l \in Loop /\ run[r].generation = loop[l].generation
      BY <3>1, CredentialHasLoop DEF LeaseOfThisGeneration
    <3>3. ~Reopened(l)
      BY DEF Reopened, Revoked, NoLease
    <3>4. loop[l] \in Row
      BY <3>2, TypeParts DEF LoopsOK
    <3>5. Retargeted(l) => loop'[l].generation = loop[l].generation
      BY <3>4, RetargetRest DEF Retargeted
    <3>6. loop'[l].generation = loop[l].generation
      BY <3>2, <3>3, <3>5, NextRestOfRow DEF RestStep, SameRest, Promoted, Finished
    <3>7. QED BY <3>1, <3>2, <3>6
  <2>3. QED BY <2>1, <2>2, NextDelivery, EnqueuedHasNone DEF DeliveryStep
<1>3. QED BY <1>1, <1>2, TypeCorrect, LeaseSafety, GuardSafety, AllAdmittedHolds,
             PTL DEF Spec

\* A credential is for a goal the loop has had, and while the loop's goal
\* revision is the credential's, its goal is the one the run was claimed for.
CredentialForGoal ==
  \A r \in Run : lease[r].state # "none" /\ lease[r].version = 1 =>
    LET row == loop[run[r].loop] IN
    /\ lease[r].goalRevision <= row.goalRevision
    /\ lease[r].goalRevision = row.goalRevision => run[r].goal = row.goal

LEMMA CredentialForGoalHolds == Spec => []CredentialForGoal
<1>1. Init => CredentialForGoal
  <2> SUFFICES ASSUME Init, NEW r \in Run PROVE lease[r].version = 0
    BY DEF CredentialForGoal
  <2>1. QED BY DEF Init, NoLease
<1>2. /\ TypeOK /\ RunningHoldsLease /\ RunningHoldsLease' /\ SnapshotIsCurrent
      /\ AllAdmitted /\ CredentialForGoal /\ [Next]_vars
      => CredentialForGoal'
  <2> SUFFICES ASSUME TypeOK, RunningHoldsLease, RunningHoldsLease',
                      SnapshotIsCurrent, AllAdmitted,
                      CredentialForGoal, [Next]_vars, NEW r \in Run,
                      lease'[r].state # "none", lease'[r].version = 1
               PROVE  LET row == loop'[run'[r].loop] IN
                      /\ lease'[r].goalRevision <= row.goalRevision
                      /\ lease'[r].goalRevision = row.goalRevision
                           => run'[r].goal = row.goal
    BY DEF CredentialForGoal
  <2>1. CASE Claimed(r)
    <3>1. loop[run[r].loop].goalRevision \in Nat
      BY <2>1, ClaimedFields DEF Row
    <3>2. QED BY <2>1, <3>1, ClaimedFields
  <2>2. CASE Continues(r)
    <3> DEFINE l == run[r].loop
    <3>1. /\ lease[r].state # "none" /\ lease[r].version = 1
          /\ lease'[r].goalRevision = lease[r].goalRevision
          /\ run'[r].loop = l /\ run'[r].goal = run[r].goal
      BY <2>2 DEF Continues, SameDelivery, SameCredential
    <3>2. l \in Loop /\ loop[l].goalRevision \in Nat /\ lease[r].goalRevision \in Nat
      BY <3>1, CredentialHasLoop, TypeParts DEF LoopsOK, Row, LeasesOK, Lease
    <3>3. /\ lease[r].goalRevision <= loop[l].goalRevision
          /\ lease[r].goalRevision = loop[l].goalRevision => run[r].goal = loop[l].goal
      BY <3>1 DEF CredentialForGoal
    <3>4. GoalStep(l)
      BY <3>2, NextGoal
    <3>5. QED BY <3>1, <3>2, <3>3, <3>4 DEF GoalStep, SameGoal
  <2>3. QED BY <2>1, <2>2, NextDelivery, EnqueuedHasNone DEF DeliveryStep
<1>3. QED BY <1>1, <1>2, TypeCorrect, LeaseSafety, GuardSafety, AllAdmittedHolds,
             PTL DEF Spec

\* The grace window a reclaim opens is never extended or opened again.
THEOREM GraceSafety == Spec => GraceWindowNeverGrows
<1>1. ASSUME TypeOK, RunningHoldsLease, AllAdmitted, [Next]_vars,
             NEW r \in Run, lease[r].state = "grace"
      PROVE  lease'[r].state # "active" /\ lease'[r].left <= lease[r].left
  <2>1. ~Claimed(r)
    BY <1>1 DEF Claimed, RunningHoldsLease
  <2>2. CASE Enqueued(r)
    BY <1>1, <2>2, TypeParts, DurationAssumption DEF Enqueued, LeasesOK, Lease
  <2>3. CASE Continues(r)
    BY <1>1, <2>3 DEF Continues, SameCredential
  <2>4. QED BY <1>1, <2>1, <2>2, <2>3, NextDelivery DEF DeliveryStep
<1>2. TypeOK /\ RunningHoldsLease /\ AllAdmitted /\ [Next]_vars
        => [\A r \in Run : lease[r].state = "grace" =>
              lease'[r].state # "active" /\ lease'[r].left <= lease[r].left]_vars
  BY <1>1
<1>3. QED BY <1>2, TypeCorrect, LeaseSafety, AllAdmittedHolds, PTL
     DEF Spec, GraceWindowNeverGrows

\* From completion to Reopen nothing is promoted into the loop: late reports,
\* goal updates and schedule edits leave its state, goal and snapshot alone.
THEOREM FrozenSafety == Spec => CompletedLoopIsFrozen
<1>1. ASSUME TypeOK, SnapshotIsCurrent, AllAdmitted, [Next]_vars,
             NEW l \in Loop, loop[l].completed, loop'[l].completed
      PROVE  /\ loop'[l].state = loop[l].state
             /\ loop'[l].goal = loop[l].goal
             /\ loop'[l].taskFileContent \in {loop[l].taskFileContent, None}
  <2>1. loop[l] \in Row
    BY <1>1, TypeParts DEF LoopsOK
  <2>2. loop'[l].goal = loop[l].goal
    BY <1>1, NextGoal DEF GoalStep, SameGoal
  <2>3. ~Reopened(l)
    BY <1>1, <2>1, ReopeningRest DEF Reopened
  <2>4. CASE Retargeted(l)
    BY <2>1, <2>2, <2>4, RetargetRest DEF Retargeted
  <2>5. QED BY <1>1, <2>2, <2>3, <2>4, NextRestOfRow
       DEF RestStep, SameRest, Promoted, Finished
<1>2. TypeOK /\ SnapshotIsCurrent /\ AllAdmitted /\ [Next]_vars
        => [\A l \in Loop : loop[l].completed /\ loop'[l].completed =>
              /\ loop'[l].state = loop[l].state
              /\ loop'[l].goal = loop[l].goal
              /\ loop'[l].taskFileContent \in {loop[l].taskFileContent, None}]_vars
  BY <1>1
<1>3. QED BY <1>2, TypeCorrect, GuardSafety, AllAdmittedHolds, PTL
     DEF Spec, CompletedLoopIsFrozen

\* A loop completes only through a run of its own that was claimed for the goal
\* it still has, with the credential that claim minted.
THEOREM CompletionSafety == Spec => CompletesForTheClaimedGoal
<1>1. ASSUME TypeOK, SnapshotIsCurrent, AllAdmitted, CredentialForGoal,
             [Next]_vars, NEW l \in Loop, ~loop[l].completed, loop'[l].completed
      PROVE  \E r \in Run :
               /\ run[r].loop = l /\ run[r].goal = loop[l].goal
               /\ run'[r].phase = "done"
               /\ lease[r].state # "none" /\ lease'[r].state = "none"
  <2>1. loop[l] \in Row
    BY <1>1, TypeParts DEF LoopsOK
  <2>2. ~Reopened(l)
    BY <1>1, <2>1, ReopeningRest DEF Reopened
  <2>3. ~Retargeted(l)
    BY <1>1, <2>1, RetargetRest DEF Retargeted
  <2>4. Finished(l)
    BY <1>1, <2>2, <2>3, NextRestOfRow DEF RestStep, SameRest, Promoted
  <2>5. PICK r \in Run, b \in Body :
          /\ Report(r, b) /\ Finishes(r, b)
          /\ run[r].loop = l /\ lease[r].version = 1
          /\ FinishAdmits(loop[l], lease[r])
    BY <2>4 DEF Finished
  <2>6. lease[r].state # "none" /\ lease'[r].state = "none"
    BY <1>1, <2>5, TypeParts DEF Report, Finalizes, Reconciles, LeasesOK, NoLease
  <2>7. run[r].goal = loop[l].goal
    BY <1>1, <2>5, <2>6 DEF CredentialForGoal, FinishAdmits
  <2>8. run'[r].phase = "done"
    <3>1. Succeeds(r, b) /\ run[r] \in RunRow
      BY <1>1, <2>5, TypeParts DEF Succeeds, RunsOK
    <3>2. run'[r] = [run[r] EXCEPT !.phase = "done", !.idle = 0]
      BY <2>5, <3>1 DEF Report
    <3>3. QED BY <3>1, <3>2 DEF RunRow
  <2>9. QED BY <2>5, <2>6, <2>7, <2>8
<1>2. TypeOK /\ SnapshotIsCurrent /\ AllAdmitted /\ CredentialForGoal /\ [Next]_vars
        => [\A l \in Loop : ~loop[l].completed /\ loop'[l].completed =>
              \E r \in Run :
                /\ run[r].loop = l /\ run[r].goal = loop[l].goal
                /\ run'[r].phase = "done"
                /\ lease[r].state # "none" /\ lease'[r].state = "none"]_vars
  BY <1>1
<1>3. QED BY <1>2, TypeCorrect, GuardSafety, AllAdmittedHolds,
             CredentialForGoalHolds, PTL
     DEF Spec, CompletesForTheClaimedGoal

\* What is over has no say in what follows.
THEOREM PastSafety == Spec => PastIsKept
<1>1. [][LeaseOfThisGeneration']_vars /\ GraceWindowNeverGrows
      /\ CompletedLoopIsFrozen /\ CompletesForTheClaimedGoal
        => PastIsKept
  BY DEF PastIsKept
<1>2. []LeaseOfThisGeneration => [][LeaseOfThisGeneration']_vars
  BY PTL
<1>3. QED BY <1>1, <1>2, GenerationSafety, GraceSafety, FrozenSafety,
             CompletionSafety, PTL

==============================================================================
