--------------------------- MODULE Scheduler_proofs ---------------------------
(***************************************************************************)
(* Safety theorems about Scheduler: once the handlers have resumed, the    *)
(* live jobs are those the rows ask for, and no occurrence a job answers   *)
(* for is forgotten.                                                       *)
(***************************************************************************)
EXTENDS Scheduler, TLAPS, WellFoundedInduction

\* The kernels of LoopRow that change a schedule map rows to rows.
LEMMA CreatedRowType ==
  ASSUME NEW goal \in Goal \cup {None}, NEW cron \in Cron \cup {None},
         NEW path \in Path, NEW t \in Nat
  PROVE  CreatedRow(goal, cron, path, t) \in Row
BY DEF CreatedRow, Row

LEMMA ScheduleTransitionType ==
  ASSUME NEW loopRow \in Row, NEW patch \in Patch, NEW t \in Nat
  PROVE  ScheduleTransition(loopRow, patch, t) \in Row
<1>1. Patched(loopRow.cron, patch.cron) \in Cron \cup {None}
  BY DEF Row, Patch, Patched
<1>2. Patched(loopRow.enabled, patch.enabled) \in BOOLEAN
  BY DEF Row, Patch, Patched
<1>3. loopRow.scheduleRevision + 1 \in Nat BY DEF Row
<1>4. QED BY ZenonT(60), <1>1, <1>2, <1>3 DEF ScheduleTransition, Row

LEMMA WatermarkType ==
  ASSUME NEW loopRow \in Row, NEW at \in Nat
  PROVE  [loopRow EXCEPT !.lastScheduledAt = at] \in Row
BY DEF Row

LEMMA CompletionType == ASSUME NEW loopRow \in Row PROVE Completion(loopRow) \in Row
<1>1. loopRow.scheduleRevision + 1 \in Nat BY DEF Row
<1>2. QED BY <1>1 DEF Completion, Row

LEMMA ClearedRowType ==
  ASSUME NEW loopRow \in Row
  PROVE  [loopRow EXCEPT !.completed = FALSE, !.generation = @ + 1] \in Row
<1>1. loopRow.generation + 1 \in Nat BY DEF Row
<1>2. QED BY <1>1 DEF Row

LEMMA ReopeningType ==
  ASSUME NEW loopRow \in Row, NEW t \in Nat PROVE Reopening(loopRow, t) \in Row
<1>1. [cron |-> Keep, enabled |-> TRUE] \in Patch
  BY DEF Patch
<1>2. ScheduleTransition(loopRow, [cron |-> Keep, enabled |-> TRUE], t) \in Row
  BY <1>1, ScheduleTransitionType
<1>3. QED BY <1>2, ClearedRowType DEF Reopening

--------------------------------------------------------------------------------
(***************************************************************************)
(* The latest of the instants up to a bound.                               *)
(***************************************************************************)

LEMMA LeastOf ==
  ASSUME NEW T \in SUBSET Nat, T # {}
  PROVE  \E x \in T : \A y \in T : x <= y
<1>1. IsWellFoundedOn(OpToRel(<, Nat), Nat)
  BY NatLessThanWellFounded
<1>2. PICK x \in T : \A y \in T : <<y, x>> \notin OpToRel(<, Nat)
  BY <1>1, WFMin
<1>3. \A y \in T : ~(y < x)
  BY <1>2 DEF OpToRel
<1>4. QED BY <1>3

LEMMA GreatestOf ==
  ASSUME NEW n \in Nat, NEW S \in SUBSET (0..n), S # {}
  PROVE  Max(S) \in S /\ \A y \in S : y <= Max(S)
<1> DEFINE T == {n - y : y \in S}
<1>1. T \in SUBSET Nat
  OBVIOUS
<1>2. PICK y \in S : TRUE
  OBVIOUS
<1>3. T # {}
  BY <1>2
<1>4. PICK m \in T : \A t \in T : m <= t
  BY <1>1, <1>3, LeastOf
<1>5. PICK x \in S : m = n - x
  OBVIOUS
<1>6. \A z \in S : x >= z
  <2> TAKE z \in S
  <2>1. m <= n - z
    BY <1>4
  <2>2. z \in 0..n /\ x \in 0..n
    OBVIOUS
  <2>3. QED BY <1>5, <2>1, <2>2
<1>7. Max(S) \in S /\ \A z \in S : Max(S) >= z
  BY <1>6 DEF Max
<1>8. QED BY <1>7

LEMMA UpToBounded ==
  ASSUME NEW c \in Cron, NEW t \in Nat
  PROVE  UpTo(c, t) \in SUBSET (0..t)
BY OccursAssumption DEF UpTo

--------------------------------------------------------------------------------
(***************************************************************************)
(* Reconcile, told loop by loop.                                           *)
(***************************************************************************)

\* What reconcile makes of loop l when its batch has no row of it, or only an
\* outdated one.
LeftAlone(l) ==
  /\ highest'[l] = highest[l] /\ registry'[l] = registry[l]
  /\ \A j : j.loop = l => (j \in jobs' <=> j \in jobs)

\* What it makes of loop l from row b, a job of which answers from instant t.
ReconciledWith(l, b, t) ==
  /\ highest'[l] = b.row.scheduleRevision
  /\ \/ /\ registry[l] = Entry(b.row) /\ registry'[l] = registry[l]
        /\ \A j : j.loop = l => (j \in jobs' <=> j \in jobs)
     \/ /\ l \in Flaky /\ ActiveSchedule(b.row)
        /\ registry'[l] = registry[l]
        /\ \A j \in jobs' : j.loop # l
     \/ /\ registry[l] # Entry(b.row) /\ registry'[l] = Entry(b.row)
        /\ \A j : j.loop = l =>
             (j \in jobs' <=> ActiveSchedule(b.row) /\ j = NewJob(b, t))

LEMMA ReconcileByLoop ==
  ASSUME NEW batch \in SUBSET [loop : Loop, row : Row], NEW from, NEW l \in Loop,
         \A b, c \in batch : b.loop = c.loop => b = c,
         Reconcile(batch, from)
  PROVE  /\ (\A b \in batch : b.loop = l => Outdated(b)) => LeftAlone(l)
         /\ \A b \in batch : b.loop = l /\ ~Outdated(b) =>
              ReconciledWith(l, b, from[l])
<1> DEFINE fresh   == {b \in batch : ~Outdated(b)}
           changed == {b \in fresh : registry[b.loop] # Entry(b.row)}
           armed   == {b \in changed : ActiveSchedule(b.row)}
<1>1. PICK refused \in SUBSET {b \in armed : b.loop \in Flaky} :
       /\ highest' = [x \in Loop |->
            IF \E b \in fresh : b.loop = x
            THEN (CHOOSE b \in fresh : b.loop = x).row.scheduleRevision
            ELSE highest[x]]
       /\ registry' = [x \in Loop |->
            IF \E b \in changed \ refused : b.loop = x
            THEN Entry((CHOOSE b \in changed \ refused : b.loop = x).row)
            ELSE registry[x]]
       /\ jobs' = Kept(changed) \cup {NewJob(b, from[b.loop]) : b \in armed \ refused}
  BY DEF Reconcile
<1> HIDE DEF fresh, changed, armed
<1>2. \A j : j \in jobs' <=> \/ j \in jobs /\ \A b \in changed : b.loop # j.loop
                            \/ \E b \in armed \ refused : j = NewJob(b, from[b.loop])
  BY <1>1 DEF Kept
<1>3. \A b, s : NewJob(b, s).loop = b.loop
  BY DEF NewJob
<1>4. armed \subseteq changed /\ changed \subseteq fresh /\ fresh \subseteq batch
      /\ refused \subseteq armed /\ \A b \in refused : b.loop \in Flaky
  BY <1>1 DEF armed, changed, fresh
<1>5. ASSUME \A b \in batch : b.loop = l => Outdated(b)
      PROVE  LeftAlone(l)
  <2>1. \A b \in fresh : b.loop # l
    BY <1>5 DEF fresh
  <2>2. highest'[l] = highest[l] /\ registry'[l] = registry[l]
    BY <1>1, <1>4, <2>1
  <2>3. \A j : j.loop = l => (j \in jobs' <=> j \in jobs)
    BY <1>2, <1>3, <1>4, <2>1
  <2>4. QED BY <2>2, <2>3 DEF LeftAlone
<1>6. ASSUME NEW b \in batch, b.loop = l, ~Outdated(b)
      PROVE  ReconciledWith(l, b, from[l])
  <2>1. b \in fresh /\ \A c \in fresh : c.loop = l => c = b
    BY <1>4, <1>6 DEF fresh
  <2>2. (CHOOSE c \in fresh : c.loop = l) = b
    BY <1>6, <2>1
  <2>3. highest'[l] = b.row.scheduleRevision
    BY <1>1, <1>6, <2>1, <2>2
  <2>4. CASE registry[l] = Entry(b.row)
    <3>1. \A c \in changed : c.loop # l
      BY <1>4, <1>6, <2>1, <2>4 DEF changed
    <3>2. registry'[l] = registry[l]
      BY <1>1, <3>1
    <3>3. \A j : j.loop = l => (j \in jobs' <=> j \in jobs)
      BY <1>2, <1>3, <1>4, <3>1
    <3>4. QED BY <2>3, <2>4, <3>2, <3>3 DEF ReconciledWith
  <2>5. CASE registry[l] # Entry(b.row) /\ b \in refused
    <3>1. \A c \in changed \ refused : c.loop # l
      BY <1>4, <2>1, <2>5
    <3>2. registry'[l] = registry[l]
      BY <1>1, <3>1
    <3>3. b \in changed /\ l \in Flaky /\ ActiveSchedule(b.row)
      BY <1>4, <1>6, <2>5 DEF armed
    <3>4. \A j \in jobs' : j.loop # l
      BY <1>2, <1>3, <1>4, <1>6, <3>1, <3>3
    <3>5. QED BY <2>3, <3>2, <3>3, <3>4 DEF ReconciledWith
  <2>6. CASE registry[l] # Entry(b.row) /\ b \notin refused
    <3>1. b \in changed \ refused
      BY <1>6, <2>1, <2>6 DEF changed
    <3>2. \A c \in changed \ refused : c.loop = l => c = b
      BY <1>4, <2>1
    <3>3. (CHOOSE c \in changed \ refused : c.loop = l) = b
      BY <1>6, <3>1, <3>2
    <3>4. registry'[l] = Entry(b.row)
      BY <1>1, <1>6, <3>1, <3>3
    <3>5. b \in armed \ refused <=> ActiveSchedule(b.row)
      BY <3>1 DEF armed
    <3>6. ASSUME NEW j, j.loop = l
          PROVE  j \in jobs' <=> ActiveSchedule(b.row) /\ j = NewJob(b, from[l])
      BY <1>2, <1>3, <1>4, <1>6, <3>1, <3>2, <3>5, <3>6
    <3>7. QED BY <2>3, <2>6, <3>4, <3>6 DEF ReconciledWith
  <2>7. QED BY <2>4, <2>5, <2>6
<1>7. QED BY <1>5, <1>6

--------------------------------------------------------------------------------
(***************************************************************************)
(* Rows.  A schedule revision names one schedule: a row that was read      *)
(* earlier is older, and differs under the same revision by its watermark  *)
(* at most.                                                                *)
(***************************************************************************)

Older(x, r) ==
  /\ x.scheduleRevision <= r.scheduleRevision
  /\ x.scheduleRevision = r.scheduleRevision =>
       /\ x.cron = r.cron /\ x.enabled = r.enabled
       /\ x.scheduleActivatedAt = r.scheduleActivatedAt
       /\ x.lastScheduledAt # None =>
            r.lastScheduledAt # None /\ x.lastScheduledAt <= r.lastScheduledAt

RowSound(r, t) ==
  /\ r.completed => ~r.enabled
  /\ ActiveSchedule(r) => r.scheduleActivatedAt \in 0..t

RowsSound == \A l \in Loop : Exists(l) => RowSound(row[l], now)

RowsOK == row \in [Loop -> Row \cup {None}]
TimeOK == now \in 0..MaxTime /\ cutoff \in 0..MaxTime

\* A request's row r for loop l is new, or replaces the row under the next
\* schedule revision.
NewRow(l, r) ==
  /\ r \in Row /\ RowSound(r, now)
  /\ Exists(l) => r.scheduleRevision > row[l].scheduleRevision

Handler(l) == CreateLoop(l) \/ UpdateSchedule(l) \/ Finish(l) \/ ReopenLoop(l)

LEMMA OlderReflexive == ASSUME NEW r \in Row PROVE Older(r, r)
BY DEF Older, Row

LEMMA OlderTransitive ==
  ASSUME NEW x \in Row, NEW y \in Row, NEW z \in Row, Older(x, y), Older(y, z)
  PROVE  Older(x, z)
<1>1. x.scheduleRevision \in Nat /\ y.scheduleRevision \in Nat /\ z.scheduleRevision \in Nat
  BY DEF Row
<1>2. \A r \in Row : r.lastScheduledAt # None => r.lastScheduledAt \in Nat
  BY DEF Row
<1>3. QED BY <1>1, <1>2 DEF Older

LEMMA TransitionSound ==
  ASSUME NEW r \in Row, NEW patch \in Patch, NEW t \in Nat, RowSound(r, t),
         ScheduleAdmits(r, patch)
  PROVE  LET new == ScheduleTransition(r, patch, t)
         IN  RowSound(new, t) /\ new.scheduleRevision > r.scheduleRevision
<1> DEFINE new == ScheduleTransition(r, patch, t)
           on == Patched(r.enabled, patch.enabled)
           cron == Patched(r.cron, patch.cron)
<1>1. /\ new.completed = r.completed /\ new.enabled = on /\ new.cron = cron
      /\ new.scheduleActivatedAt = IF on /\ cron # None THEN t ELSE None
      /\ new.scheduleRevision = r.scheduleRevision + 1
  BY DEF ScheduleTransition, Row
<1>2. r.completed => ~on
  BY DEF RowSound, ScheduleAdmits, Patched, Row, Patch
<1>3. QED BY <1>1, <1>2 DEF RowSound, ActiveSchedule, Row

LEMMA ReopeningSound ==
  ASSUME NEW r \in Row, NEW t \in Nat
  PROVE  LET new == Reopening(r, t)
         IN  RowSound(new, t) /\ new.scheduleRevision > r.scheduleRevision
<1> DEFINE new == Reopening(r, t)
           on == Patched(r.enabled, TRUE)
           cron == Patched(r.cron, Keep)
<1>1. /\ new.completed = FALSE /\ new.enabled = on /\ new.cron = cron
      /\ new.scheduleActivatedAt = IF on /\ cron # None THEN t ELSE None
      /\ new.scheduleRevision = r.scheduleRevision + 1
  BY DEF Reopening, ScheduleTransition, Row
<1>2. ActiveSchedule(new) => new.scheduleActivatedAt = t
  BY <1>1 DEF ActiveSchedule
<1>3. r.scheduleRevision \in Nat
  BY DEF Row
<1>4. t \in 0..t
  OBVIOUS
<1>5. new.completed = FALSE
  BY <1>1
<1>6. RowSound(new, t)
  BY Zenon, <1>2, <1>4, <1>5 DEF RowSound
<1>7. new.scheduleRevision > r.scheduleRevision
  BY <1>1, <1>3
<1>8. QED BY <1>6, <1>7

LEMMA HandlerCommits ==
  ASSUME RowsOK, TimeOK, RowsSound, NEW l \in Loop, Handler(l)
  PROVE  \E r : NewRow(l, r) /\ Commit(l, r)
<1>0. now \in Nat
  BY TimeAssumption DEF TimeOK
<1>1. CASE CreateLoop(l)
  <2>1. PICK g \in Goal, c \in Cron, p \in Path : Commit(l, CreatedRow(g, c, p, now))
    BY <1>1 DEF CreateLoop
  <2> DEFINE r == CreatedRow(g, c, p, now)
  <2>2. r \in Row
    BY <1>0, CreatedRowType
  <2>3. RowSound(r, now)
    BY <1>0 DEF RowSound, ActiveSchedule, CreatedRow
  <2>4. QED BY <1>1, <2>1, <2>2, <2>3 DEF NewRow, CreateLoop
<1>2. CASE UpdateSchedule(l)
  <2>1. PICK patch \in Patch :
          ScheduleAdmits(row[l], patch)
          /\ Commit(l, ScheduleTransition(row[l], patch, now))
    BY <1>2 DEF UpdateSchedule
  <2>2. row[l] \in Row /\ RowSound(row[l], now)
    BY <1>2 DEF UpdateSchedule, Exists, RowsOK, RowsSound
  <2>3. QED BY <1>0, <2>1, <2>2, TransitionSound, ScheduleTransitionType DEF NewRow
<1>3. CASE Finish(l)
  <2>1. row[l] \in Row /\ Commit(l, Completion(row[l]))
    BY <1>3 DEF Finish, Exists, RowsOK
  <2>2. Completion(row[l]) \in Row
    BY <2>1, CompletionType
  <2>3. /\ RowSound(Completion(row[l]), now)
        /\ Completion(row[l]).scheduleRevision > row[l].scheduleRevision
    BY <2>1 DEF RowSound, ActiveSchedule, Completion, Row
  <2>4. QED BY <2>1, <2>2, <2>3 DEF NewRow
<1>4. CASE ReopenLoop(l)
  <2>1. row[l] \in Row /\ Commit(l, Reopening(row[l], now))
    BY <1>4 DEF ReopenLoop, Exists, RowsOK
  <2>2. QED BY <1>0, <2>1, ReopeningSound, ReopeningType DEF NewRow
<1>5. QED BY <1>1, <1>2, <1>3, <1>4 DEF Handler

\* What a step does to the rows: one is written by a request, one has its
\* watermark moved, or none changes.
Requested == \E l \in Loop, r \in Row : NewRow(l, r) /\ Commit(l, r)
Watermarked ==
  \E k \in ticks :
    /\ TickEnqueue(k)
    /\ OccurrenceAdmits(row[k.loop], [revision |-> k.revision, at |-> k.at], now)
RowsStay == row' = row /\ now' = now

LEMMA NextRowSteps ==
  ASSUME RowsOK, TimeOK, RowsSound, [Next]_vars
  PROVE  Requested \/ Watermarked \/ RowsStay \/ PassTime
<1>1. CASE \E l \in Loop : Handler(l)
  <2>1. PICK l \in Loop : Handler(l)
    BY <1>1
  <2>2. PICK r : NewRow(l, r) /\ Commit(l, r)
    BY <2>1, HandlerCommits
  <2>3. r \in Row
    BY <2>2 DEF NewRow
  <2>4. QED BY <2>2, <2>3 DEF Requested
<1>2. CASE \E k \in ticks : TickEligibility(k) \/ TickEnqueue(k) \/ TickFails(k)
  BY <1>2 DEF TickEligibility, TickEnqueue, TickFails, Watermarked, RowsStay
<1>3. CASE ReconcileCommitted \/ \E j \in jobs : Fire(j) \/ Overrun(j)
  BY <1>3 DEF ReconcileCommitted, Fire, Overrun, RowsStay
<1>4. CASE Scan \/ Register \/ TakeCutoff \/ CatchUp \/ CaughtUp \/ Drained \/ Close
  BY <1>4 DEF Scan, Register, TakeCutoff, CatchUp, CaughtUp, Drained, Close, Down,
     RowsStay
<1>5. CASE Boot \/ Stop \/ Crash \/ UNCHANGED vars
  BY <1>5 DEF Boot, Stop, Crash, Down, RowsStay, vars
<1>6. QED BY <1>1, <1>2, <1>3, <1>4, <1>5 DEF Next, ServerStep, Handler

\* Rows are never lost, and every row is older than what it becomes.
RowsAge ==
  \A l \in Loop : Exists(l) => Exists(l)' /\ Older(row[l], row'[l])

\* Everything the scheduler holds in memory is of a loop that exists.
LoopsExist ==
  \A x \in commits \cup scanned \cup jobs \cup ticks : x.loop \in Loop /\ Exists(x.loop)

TicksOK == ticks \subseteq Tick

LEMMA NextRows ==
  ASSUME RowsOK, TimeOK, TicksOK, LoopsExist, RowsSound, [Next]_vars
  PROVE  /\ RowsOK' /\ RowsSound' /\ RowsAge
         /\ now' \in 0..MaxTime /\ now' >= now
<1>0. now \in Nat /\ now \in 0..MaxTime /\ MaxTime \in Nat
  BY TimeAssumption DEF TimeOK
<1>1. CASE Requested
  <2>1. PICK l \in Loop, r \in Row : NewRow(l, r) /\ Commit(l, r)
    BY <1>1 DEF Requested
  <2>2. row' = [row EXCEPT ![l] = r] /\ now' = now
    BY <2>1 DEF Commit
  <2>3. RowsOK'
    BY <2>2 DEF RowsOK
  <2>4. ASSUME NEW m \in Loop
        PROVE  /\ row'[m] # None => RowSound(row'[m], now)
               /\ row[m] # None => row'[m] # None /\ Older(row[m], row'[m])
    <3>1. CASE m = l
      <4>1. row'[m] = r /\ r # None
        BY <2>2, <3>1, NullAssumption DEF RowsOK
      <4>2. row[m] # None => row[m] \in Row /\ r.scheduleRevision > row[m].scheduleRevision
        BY <2>1, <3>1 DEF NewRow, Exists, RowsOK
      <4>3. row[m] # None => Older(row[m], r)
        BY <4>2 DEF Older, Row
      <4>4. QED BY <2>1, <4>1, <4>3 DEF NewRow
    <3>2. CASE m # l
      <4>1. row'[m] = row[m]
        BY <2>2, <3>2 DEF RowsOK
      <4>2. QED BY <4>1, OlderReflexive DEF RowsSound, Exists, RowsOK
    <3>3. QED BY <3>1, <3>2
  <2>5. QED BY <1>0, <2>2, <2>3, <2>4 DEF RowsSound, RowsAge, Exists
<1>2. CASE Watermarked
  <2>1. PICK k \in ticks :
          /\ TickEnqueue(k)
          /\ OccurrenceAdmits(row[k.loop], [revision |-> k.revision, at |-> k.at], now)
    BY <1>2 DEF Watermarked
  <2> DEFINE l == k.loop  r == [row[l] EXCEPT !.lastScheduledAt = k.at]
  <2>2. row' = [row EXCEPT ![l] = r] /\ now' = now
    BY <2>1 DEF TickEnqueue
  <2>3. l \in Loop /\ k.at \in Nat /\ row[l] # None
    BY TimeAssumption DEF TicksOK, Tick, LoopsExist, Exists
  <2>4. r \in Row /\ Older(row[l], r) /\ RowSound(r, now)
    <3>1. row[l] \in Row
      BY <2>3 DEF RowsOK
    <3>2. r \in Row
      BY <2>3, <3>1, WatermarkType
    <3>3. row[l].lastScheduledAt # None => k.at > row[l].lastScheduledAt
      BY <2>1 DEF OccurrenceAdmits
    <3>4. Older(row[l], r)
      BY <2>3, <3>1, <3>3, NoneAssumption DEF Older, Row
    <3>5. RowSound(row[l], now)
      BY <2>3 DEF RowsSound, Exists
    <3>6. RowSound(r, now)
      BY <3>1, <3>5 DEF RowSound, ActiveSchedule, Row
    <3>7. QED BY <3>1, <3>2, <3>4, <3>6
  <2>5. RowsOK'
    BY <2>2, <2>4 DEF RowsOK
  <2>6. \A m \in Loop : IF m = l THEN row'[m] = r ELSE row'[m] = row[m]
    BY <2>2 DEF RowsOK
  <2>7. r # None
    BY <2>4, NullAssumption
  <2>8. \A m \in Loop : row[m] # None => Older(row[m], row[m])
    BY OlderReflexive DEF RowsOK
  <2>9. QED BY <1>0, <2>2, <2>3, <2>4, <2>5, <2>6, <2>7, <2>8
          DEF RowsSound, RowsAge, Exists
<1>3. CASE RowsStay
  BY <1>0, <1>3, OlderReflexive DEF RowsStay, RowsOK, RowsSound, RowsAge, Exists
<1>4. CASE PassTime
  <2>1. row' = row /\ now' = now + 1 /\ now < MaxTime
    BY <1>4 DEF PassTime
  <2>2. \A l \in Loop : Exists(l) => RowSound(row[l], now + 1)
    BY <1>0 DEF RowsSound, RowSound
  <2>3. QED BY <1>0, <2>1, <2>2, OlderReflexive DEF RowsOK, RowsSound, RowsAge, Exists
<1>5. QED BY <1>1, <1>2, <1>3, <1>4, NextRowSteps

--------------------------------------------------------------------------------
(***************************************************************************)
(* What the jobs, ticks and copies of rows in memory come from.            *)
(***************************************************************************)

CommitsOK == commits \subseteq [loop : Loop, row : Row]
ScannedOK == scanned \subseteq [loop : Loop, row : Row]
JobsOK == jobs \subseteq Job

\* The scan has one row of a loop, and each asks for a job.
ScanSound ==
  /\ \A s \in scanned : ActiveSchedule(s.row) /\ s.row.scheduleActivatedAt \in 0..now
  /\ \A s, q \in scanned : s.loop = q.loop => s = q

\* A registered row b becomes a job that answers from now, or, after a boot,
\* from the activation of the schedule.
Registered(j) ==
  \E b \in commits \cup scanned :
    /\ ActiveSchedule(b.row) /\ ~Outdated(b)
    /\ \/ j = NewJob(b, now)
       \/ b \in scanned /\ j = NewJob(b, b.row.scheduleActivatedAt)

Refired(j) == \E i \in jobs : Due(i) # {} /\ j = [i EXCEPT !.fired = now]

JobsMove ==
  \A j \in jobs' : \/ j \in jobs
                   \/ RowsStay /\ (Refired(j) \/ Registered(j))

\* A callback starts when its timer is due, chooses the latest occurrence, or is
\* a catch-up for the latest missed one.
Started(k) ==
  \E j \in jobs : Due(j) # {} /\ k =
    [kind |-> "timer", loop |-> j.loop, revision |-> j.revision,
     cron |-> j.cron, stage |-> "eligibility", at |-> 0]

Chosen(k) ==
  \E i \in ticks : /\ i.stage = "eligibility"
                   /\ k = [i EXCEPT !.stage = "enqueue", !.at = TickOccurrence(i)]

CaughtUpWith(k) ==
  \E s \in scanned : Missed(s.row) # {} /\ k =
    [kind |-> "recovery", loop |-> s.loop,
     revision |-> s.row.scheduleRevision, cron |-> s.row.cron,
     stage |-> "enqueue", at |-> Max(Missed(s.row))]

TicksMove ==
  \A k \in ticks' :
    \/ k \in ticks
    \/ RowsStay /\ (Started(k) \/ Chosen(k) \/ CaughtUpWith(k))

CopiesMove ==
  /\ \A c \in commits' :
       c \in commits \/ \E l \in Loop, r \in Row :
         c = [loop |-> l, row |-> r] /\ NewRow(l, r) /\ Commit(l, r)
  /\ \A s \in scanned' :
       s \in scanned \/ /\ RowsStay /\ s.loop \in Loop /\ Exists(s.loop)
                        /\ ActiveSchedule(row[s.loop])
                        /\ s = [loop |-> s.loop, row |-> row[s.loop]]

LEMMA ReconcileJobs ==
  ASSUME NEW batch, NEW from, Reconcile(batch, from)
  PROVE  \A j \in jobs' :
           j \in jobs \/ \E b \in batch : /\ ActiveSchedule(b.row) /\ ~Outdated(b)
                                          /\ j = NewJob(b, from[b.loop])
<1> DEFINE fresh   == {b \in batch : ~Outdated(b)}
           changed == {b \in fresh : registry[b.loop] # Entry(b.row)}
           armed   == {b \in changed : ActiveSchedule(b.row)}
<1>1. PICK refused \in SUBSET {b \in armed : b.loop \in Flaky} :
        jobs' = Kept(changed) \cup {NewJob(b, from[b.loop]) : b \in armed \ refused}
  BY DEF Reconcile
<1>2. QED BY <1>1 DEF Kept

LEMMA RegisterReconciles ==
  ASSUME Register
  PROVE  \E from : /\ Reconcile(scanned, from)
                   /\ \A s \in scanned :
                        (\A q \in scanned : q.loop = s.loop => q = s)
                          => from[s.loop] = s.row.scheduleActivatedAt
<1> DEFINE from == [l \in {s.loop : s \in scanned} |->
                      (CHOOSE s \in scanned : s.loop = l).row.scheduleActivatedAt]
<1>1. Reconcile(scanned, from)
  BY DEF Register
<1>2. ASSUME NEW s \in scanned, \A q \in scanned : q.loop = s.loop => q = s
      PROVE  from[s.loop] = s.row.scheduleActivatedAt
  <2>1. (CHOOSE q \in scanned : q.loop = s.loop) = s
    BY <1>2
  <2>2. QED BY <2>1
<1>3. QED BY <1>1, <1>2

LEMMA NextJobs == ASSUME ScanSound, [Next]_vars PROVE JobsMove
<1>1. CASE ReconcileCommitted
  <2>1. PICK c \in commits :
          IF Stopped THEN jobs' = jobs
                     ELSE Reconcile({c}, [l \in {c.loop} |-> now])
    BY <1>1 DEF ReconcileCommitted
  <2>2. CASE Stopped
    BY <2>1, <2>2 DEF JobsMove
  <2>3. CASE ~Stopped
    <3>1. \A j \in jobs' : j \in jobs \/ /\ ActiveSchedule(c.row) /\ ~Outdated(c)
                                         /\ j = NewJob(c, now)
      BY <2>1, <2>3, ReconcileJobs
    <3>2. RowsStay
      BY <1>1 DEF ReconcileCommitted, RowsStay
    <3>3. QED BY <3>1, <3>2 DEF JobsMove, Registered
  <2>4. QED BY <2>2, <2>3
<1>2. CASE Register
  <2>1. PICK from : /\ Reconcile(scanned, from)
                    /\ \A s \in scanned : from[s.loop] = s.row.scheduleActivatedAt
    BY <1>2, RegisterReconciles DEF ScanSound
  <2>2. \A j \in jobs' : j \in jobs \/ \E b \in scanned :
          /\ ActiveSchedule(b.row) /\ ~Outdated(b)
          /\ j = NewJob(b, b.row.scheduleActivatedAt)
    BY <2>1, ReconcileJobs
  <2>3. RowsStay
    BY <1>2 DEF Register, RowsStay
  <2>4. QED BY <2>2, <2>3 DEF JobsMove, Registered
<1>3. CASE \E j \in jobs : Fire(j) \/ Overrun(j)
  BY <1>3 DEF Fire, Overrun, Refire, JobsMove, RowsStay, Refired
<1>4. CASE Stop \/ Crash \/ Close
  BY <1>4 DEF Stop, Crash, Close, Down, JobsMove
<1>5. CASE jobs' = jobs
  BY <1>5 DEF JobsMove
<1>6. QED BY <1>1, <1>2, <1>3, <1>4, <1>5
      DEF Next, ServerStep, CreateLoop, UpdateSchedule, Finish, ReopenLoop, Commit,
          TickEligibility, TickEnqueue, TickFails, Scan, TakeCutoff, CatchUp,
          CaughtUp, Drained, Boot, PassTime, memory, vars

LEMMA NextTicks == ASSUME [Next]_vars PROVE TicksMove
<1>1. CASE \E j \in jobs : Fire(j) \/ Overrun(j)
  BY <1>1 DEF Fire, Overrun, TicksMove, RowsStay, Started
<1>2. CASE \E k \in ticks : TickEligibility(k) \/ TickEnqueue(k) \/ TickFails(k)
  <2>1. PICK k \in ticks : TickEligibility(k) \/ TickEnqueue(k) \/ TickFails(k)
    BY <1>2
  <2>2. CASE TickEligibility(k)
    BY <2>2 DEF TickEligibility, TicksMove, RowsStay, Chosen
  <2>3. CASE TickEnqueue(k) \/ TickFails(k)
    BY <2>3 DEF TickEnqueue, TickFails, TicksMove
  <2>4. QED BY <2>1, <2>2, <2>3
<1>3. CASE CatchUp
  BY <1>3 DEF CatchUp, TicksMove, RowsStay, CaughtUpWith
<1>4. CASE Crash \/ Close
  BY <1>4 DEF Crash, Close, Down, TicksMove
<1>5. CASE ticks' = ticks
  BY <1>5 DEF TicksMove
<1>6. QED BY <1>1, <1>2, <1>3, <1>4, <1>5
      DEF Next, ServerStep, CreateLoop, UpdateSchedule, Finish, ReopenLoop, Commit,
          ReconcileCommitted, Scan, Register, TakeCutoff, CaughtUp, Drained, Stop,
          Boot, PassTime, memory, vars

LEMMA NextCopies ==
  ASSUME RowsOK, TimeOK, RowsSound, [Next]_vars PROVE CopiesMove
<1>1. CASE \E l \in Loop : Handler(l)
  <2>1. PICK l \in Loop : Handler(l)
    BY <1>1
  <2>2. PICK r : NewRow(l, r) /\ Commit(l, r)
    BY <2>1, HandlerCommits
  <2>3. r \in Row
    BY <2>2 DEF NewRow
  <2>4. commits' = commits \cup {[loop |-> l, row |-> r]} /\ scanned' = scanned
    BY <2>2 DEF Commit
  <2>5. QED BY <2>2, <2>3, <2>4 DEF CopiesMove
<1>2. CASE Scan
  <2>1. \A s \in scanned' : \E l \in Loop :
          /\ Exists(l) /\ ActiveSchedule(row[l]) /\ s = [loop |-> l, row |-> row[l]]
    BY <1>2, LoopsAssumption DEF Scan
  <2>2. RowsStay /\ commits' = commits
    BY <1>2 DEF Scan, RowsStay
  <2>3. QED BY <2>1, <2>2 DEF CopiesMove
<1>3. CASE Crash \/ Close \/ Stop \/ CatchUp \/ ReconcileCommitted
  BY <1>3 DEF Crash, Close, Down, Stop, CatchUp, ReconcileCommitted, CopiesMove
<1>4. CASE commits' = commits /\ scanned' = scanned
  BY <1>4 DEF CopiesMove
<1>5. QED BY <1>1, <1>2, <1>3, <1>4
      DEF Next, ServerStep, Handler, Fire, Overrun, TickEligibility, TickEnqueue,
          TickFails, Register, TakeCutoff, CaughtUp, Drained, Boot, PassTime,
          memory, vars

--------------------------------------------------------------------------------
(***************************************************************************)
(* Type correctness.                                                       *)
(***************************************************************************)

RegistryOK ==
  /\ registry \in [Loop -> [revision : Nat, cron : Cron] \cup {None}]
  /\ highest \in [Loop -> Nat \cup {None}]

LostOK == lost \subseteq Loop \X Nat \X Nat

LEMMA TypeParts ==
  TypeOK <=> /\ RowsOK /\ TimeOK /\ mode \in Mode /\ CommitsOK /\ RegistryOK
             /\ JobsOK /\ TicksOK /\ ScannedOK /\ LostOK
BY DEF TypeOK, RowsOK, TimeOK, CommitsOK, RegistryOK, JobsOK, TicksOK, ScannedOK,
       LostOK

\* A callback that has yet to choose has an occurrence to choose, and one that
\* has chosen holds an occurrence of the past.
TicksSound ==
  /\ cutoff <= now
  /\ \A k \in ticks :
       /\ k.stage = "eligibility" => UpTo(k.cron, now) # {}
       /\ k.stage = "enqueue" => k.at \in UpTo(k.cron, now)

\* The invariant: types need that the rows in memory are of loops that exist,
\* that an active one has an activation, and that a callback finds an occurrence.
MemoryIsSound == TypeOK /\ RowsSound /\ LoopsExist /\ ScanSound /\ TicksSound

LEMMA Times ==
  ASSUME TimeOK
  PROVE  now \in Nat /\ cutoff \in Nat /\ now \in 0..MaxTime /\ MaxTime \in Nat
BY TimeAssumption DEF TimeOK

LEMMA UpToGrows ==
  ASSUME NEW c, NEW t, NEW u \in Nat, NEW v \in Nat, u <= v, c \in Cron,
         t \in UpTo(c, u)
  PROVE  t \in UpTo(c, v)
BY OccursAssumption DEF UpTo

LEMMA LatestIn ==
  ASSUME NEW c \in Cron, NEW t \in Nat, UpTo(c, t) # {}
  PROVE  /\ LatestOccurrence(c, t) \in UpTo(c, t)
         /\ \A x \in UpTo(c, t) : x <= LatestOccurrence(c, t)
BY UpToBounded, GreatestOf DEF LatestOccurrence

LEMMA MissedIn ==
  ASSUME NEW r \in Row, ActiveSchedule(r), TimeOK, cutoff <= now, Missed(r) # {}
  PROVE  /\ Max(Missed(r)) \in UpTo(r.cron, now) /\ Max(Missed(r)) \in Missed(r)
         /\ \A x \in Missed(r) : x <= Max(Missed(r))
<1>1. r.cron \in Cron
  BY DEF ActiveSchedule, Row
<1>2. Missed(r) \in SUBSET (0..cutoff)
  BY <1>1, OccursAssumption, Times DEF Missed, Between
<1>3. Max(Missed(r)) \in Missed(r) /\ \A x \in Missed(r) : x <= Max(Missed(r))
  BY <1>2, Times, GreatestOf
<1>4. \A x \in Missed(r) : x \in UpTo(r.cron, now)
  BY <1>1, OccursAssumption, Times DEF Missed, Between, UpTo
<1>5. QED BY <1>3, <1>4

LEMMA NewJobType ==
  ASSUME NEW b, b.loop \in Loop, b.row \in Row, ActiveSchedule(b.row), TimeOK,
         NEW t \in 0..now
  PROVE  NewJob(b, t) \in Job
<1>1. b.row.cron \in Cron /\ b.row.scheduleRevision \in Nat
  BY DEF ActiveSchedule, Row
<1>2. t \in 0..MaxTime /\ now \in 0..MaxTime
  BY Times
<1>3. QED BY <1>1, <1>2 DEF NewJob, Job

LEMMA InitSound == Init => MemoryIsSound
<1> SUFFICES ASSUME Init PROVE MemoryIsSound
  OBVIOUS
<1>1. \A l \in Loop : row[l] = None \/ \E g \in Goal, c \in Cron \cup {None}, p \in Path :
        row[l] = CreatedRow(g, c, p, 0)
  BY DEF Init
<1>2. \A g \in Goal, c \in Cron \cup {None}, p \in Path :
        CreatedRow(g, c, p, 0) \in Row /\ RowSound(CreatedRow(g, c, p, 0), 0)
  <2> TAKE g \in Goal, c \in Cron \cup {None}, p \in Path
  <2>1. CreatedRow(g, c, p, 0) \in Row
    BY CreatedRowType
  <2>2. QED BY <2>1 DEF RowSound, ActiveSchedule, CreatedRow
<1>3. RowsOK /\ RowsSound
  <2>1. row = [l \in Loop |-> row[l]]
    BY DEF Init
  <2>2. now = 0
    BY DEF Init
  <2>3. QED BY <1>1, <1>2, <2>1, <2>2 DEF RowsOK, RowsSound, Exists
<1>4. /\ TimeOK /\ mode \in Mode /\ CommitsOK /\ RegistryOK
      /\ JobsOK /\ TicksOK /\ ScannedOK /\ LostOK
  BY TimeAssumption DEF Init, TimeOK, Mode, CommitsOK, RegistryOK, JobsOK, TicksOK,
     ScannedOK, LostOK
<1>5. LoopsExist /\ ScanSound /\ TicksSound
  BY DEF Init, LoopsExist, ScanSound, TicksSound
<1>6. QED BY <1>3, <1>4, <1>5, TypeParts DEF MemoryIsSound

LEMMA CopiesTyped ==
  ASSUME MemoryIsSound, [Next]_vars
  PROVE  /\ CommitsOK' /\ ScannedOK'
         /\ \A c \in commits' \cup scanned' : c.loop \in Loop /\ Exists(c.loop)'
<1> USE TypeParts
<1>1. CopiesMove /\ RowsAge /\ RowsOK'
  BY NextCopies, NextRows DEF MemoryIsSound
<1>2. ASSUME NEW l \in Loop, NEW r \in Row, Commit(l, r)
      PROVE  Exists(l)'
  BY <1>2, NullAssumption DEF Commit, MemoryIsSound, RowsOK, Exists
<1>3. \A c \in commits' : c \in [loop : Loop, row : Row] /\ Exists(c.loop)'
  BY <1>1, <1>2 DEF CopiesMove, MemoryIsSound, CommitsOK, LoopsExist, RowsAge
<1>4. \A s \in scanned' : s \in [loop : Loop, row : Row] /\ Exists(s.loop)'
  BY <1>1 DEF CopiesMove, MemoryIsSound, ScannedOK, LoopsExist, RowsAge, RowsOK, Exists
<1>5. QED BY <1>3, <1>4 DEF CommitsOK, ScannedOK

LEMMA JobsTyped ==
  ASSUME MemoryIsSound, [Next]_vars
  PROVE  /\ JobsOK'
         /\ \A j \in jobs' : j.loop \in Loop /\ Exists(j.loop)'
<1> USE TypeParts
<1>1. JobsMove /\ RowsAge
  BY NextJobs, NextRows DEF MemoryIsSound
<1>2. ASSUME NEW j \in jobs'
      PROVE  j \in Job /\ j.loop \in Loop /\ Exists(j.loop)'
  <2>1. CASE j \in jobs
    BY <1>1, <2>1 DEF MemoryIsSound, JobsOK, LoopsExist, RowsAge
  <2>2. CASE Refired(j)
    <3>1. PICK i \in jobs : j = [i EXCEPT !.fired = now]
      BY <2>2 DEF Refired
    <3>2. i \in Job /\ i.loop \in Loop /\ Exists(i.loop)'
      BY <1>1 DEF MemoryIsSound, JobsOK, LoopsExist, RowsAge
    <3>3. QED BY <3>1, <3>2, Times DEF MemoryIsSound, Job
  <2>3. CASE Registered(j)
    <3>1. PICK b \in commits \cup scanned :
            /\ ActiveSchedule(b.row)
            /\ \/ j = NewJob(b, now)
               \/ b \in scanned /\ j = NewJob(b, b.row.scheduleActivatedAt)
      BY <2>3 DEF Registered
    <3>2. b.loop \in Loop /\ b.row \in Row /\ Exists(b.loop)'
      BY <1>1 DEF MemoryIsSound, CommitsOK, ScannedOK, LoopsExist, RowsAge
    <3>3. now \in 0..now /\ (b \in scanned => b.row.scheduleActivatedAt \in 0..now)
      BY Times DEF MemoryIsSound, ScanSound
    <3>4. j \in Job
      BY <3>1, <3>2, <3>3, NewJobType DEF MemoryIsSound
    <3>5. QED BY <3>1, <3>2, <3>4 DEF NewJob
  <2>4. QED BY <1>1, <1>2, <2>1, <2>2, <2>3 DEF JobsMove
<1>3. QED BY <1>2 DEF JobsOK

LEMMA NextCutoff ==
  ASSUME TimeOK, cutoff <= now, [Next]_vars
  PROVE  cutoff' \in 0..MaxTime /\ (now' >= now => cutoff' <= now')
<1>0. now \in Nat /\ cutoff \in Nat /\ now \in 0..MaxTime /\ MaxTime \in Nat
  BY Times
<1>1. CASE TakeCutoff
  BY <1>0, <1>1 DEF TakeCutoff
<1>2. CASE Crash \/ Close
  BY <1>0, <1>2 DEF Crash, Close, Down
<1>3. CASE cutoff' = cutoff /\ (now' = now \/ now' = now + 1)
  BY <1>0, <1>3 DEF TimeOK
<1>4. QED BY <1>1, <1>2, <1>3
      DEF Next, ServerStep, CreateLoop, UpdateSchedule, Finish, ReopenLoop, Commit,
          ReconcileCommitted, Fire, Overrun, TickEligibility, TickEnqueue, TickFails,
          Scan, Register, CatchUp, CaughtUp, Drained, Stop, Boot, PassTime,
          memory, vars

LEMMA TicksTyped ==
  ASSUME MemoryIsSound, [Next]_vars
  PROVE  /\ TicksOK' /\ TicksSound'
         /\ \A k \in ticks' : k.loop \in Loop /\ Exists(k.loop)'
<1> USE TypeParts
<1>0. /\ now \in Nat /\ cutoff \in Nat /\ now \in 0..MaxTime /\ MaxTime \in Nat
      /\ TimeOK /\ cutoff <= now
  BY Times DEF MemoryIsSound, TicksSound
<1>1. TicksMove /\ RowsAge /\ now' >= now /\ now' \in 0..MaxTime
  BY NextTicks, NextRows DEF MemoryIsSound
<1>2. now' \in Nat
  BY <1>0, <1>1
<1>3. PICK t \in Nat : t = now' /\ t >= now
  BY <1>1, <1>2
<1>4. ASSUME NEW k \in ticks'
      PROVE  /\ k \in Tick /\ k.loop \in Loop /\ Exists(k.loop)'
             /\ k.stage = "eligibility" => UpTo(k.cron, t) # {}
             /\ k.stage = "enqueue" => k.at \in UpTo(k.cron, t)
  <2>1. CASE k \in ticks
    <3>1. k \in Tick /\ k.loop \in Loop /\ Exists(k.loop)' /\ k.cron \in Cron
      BY <1>1, <2>1 DEF MemoryIsSound, TicksOK, LoopsExist, RowsAge, Tick
    <3>2. /\ k.stage = "eligibility" => UpTo(k.cron, now) # {}
          /\ k.stage = "enqueue" => k.at \in UpTo(k.cron, now)
      BY <2>1 DEF MemoryIsSound, TicksSound
    <3>3. \A x \in UpTo(k.cron, now) : x \in UpTo(k.cron, t)
      BY <1>0, <1>3, <3>1, UpToGrows
    <3>4. QED BY <3>1, <3>2, <3>3
  <2>2. CASE RowsStay /\ Started(k)
    <3>1. PICK j \in jobs : Due(j) # {} /\ k =
            [kind |-> "timer", loop |-> j.loop, revision |-> j.revision,
             cron |-> j.cron, stage |-> "eligibility", at |-> 0]
      BY <2>2 DEF Started
    <3>2. j \in Job /\ Exists(j.loop)'
      BY <1>1 DEF MemoryIsSound, JobsOK, LoopsExist, RowsAge
    <3>3. UpTo(j.cron, now) # {}
      BY <3>1 DEF Due, Between, UpTo
    <3>4. t = now
      BY <1>3, <2>2 DEF RowsStay
    <3>5. QED BY <1>0, <3>1, <3>2, <3>3, <3>4 DEF Job, Tick
  <2>3. CASE RowsStay /\ Chosen(k)
    <3>1. PICK i \in ticks : /\ i.stage = "eligibility"
                             /\ k = [i EXCEPT !.stage = "enqueue",
                                              !.at = LatestOccurrence(i.cron, now)]
      BY <2>3 DEF Chosen, TickOccurrence
    <3>2. i \in Tick /\ i.cron \in Cron /\ Exists(i.loop)' /\ UpTo(i.cron, now) # {}
      BY <1>1, <3>1 DEF MemoryIsSound, TicksOK, TicksSound, LoopsExist, RowsAge, Tick
    <3>3. LatestOccurrence(i.cron, now) \in UpTo(i.cron, now)
      BY <1>0, <3>2, LatestIn
    <3>4. LatestOccurrence(i.cron, now) \in 0..MaxTime
      BY <1>0, <3>2, <3>3, OccursAssumption DEF UpTo
    <3>5. t = now
      BY <1>3, <2>3 DEF RowsStay
    <3>6. QED BY <3>1, <3>2, <3>3, <3>4, <3>5 DEF Tick
  <2>4. CASE RowsStay /\ CaughtUpWith(k)
    <3>1. PICK s \in scanned : Missed(s.row) # {} /\ k =
            [kind |-> "recovery", loop |-> s.loop,
             revision |-> s.row.scheduleRevision, cron |-> s.row.cron,
             stage |-> "enqueue", at |-> Max(Missed(s.row))]
      BY <2>4 DEF CaughtUpWith
    <3>2. /\ s.loop \in Loop /\ s.row \in Row /\ Exists(s.loop)'
          /\ ActiveSchedule(s.row)
      BY <1>1 DEF MemoryIsSound, ScannedOK, ScanSound, LoopsExist, RowsAge
    <3>3. Max(Missed(s.row)) \in UpTo(s.row.cron, now)
      BY <1>0, <3>1, <3>2, MissedIn
    <3>4. s.row.cron \in Cron /\ s.row.scheduleRevision \in Nat
      BY <3>2 DEF ActiveSchedule, Row
    <3>5. Max(Missed(s.row)) \in 0..MaxTime
      BY <1>0, <3>3, <3>4, OccursAssumption DEF UpTo
    <3>6. t = now
      BY <1>3, <2>4 DEF RowsStay
    <3>7. QED BY <3>1, <3>2, <3>3, <3>4, <3>5, <3>6 DEF Tick
  <2>5. QED BY <1>1, <1>4, <2>1, <2>2, <2>3, <2>4 DEF TicksMove
<1>5. cutoff' <= now'
  BY <1>0, <1>1, NextCutoff
<1>6. QED BY <1>3, <1>4, <1>5 DEF TicksOK, TicksSound, UpTo

LEMMA ScanStays ==
  ASSUME MemoryIsSound, [Next]_vars
  PROVE  ScanSound'
<1> USE TypeParts
<1>1. CopiesMove /\ now' >= now /\ now' \in 0..MaxTime
  BY NextCopies, NextRows DEF MemoryIsSound
<1>2. now \in Nat /\ now' \in Nat
  BY <1>1, Times DEF MemoryIsSound
<1>3. ASSUME NEW s \in scanned'
      PROVE  ActiveSchedule(s.row) /\ s.row.scheduleActivatedAt \in 0..now'
  <2>1. ActiveSchedule(s.row) /\ s.row.scheduleActivatedAt \in 0..now
    <3>1. CASE s \in scanned
      BY <3>1 DEF MemoryIsSound, ScanSound
    <3>2. CASE /\ s.loop \in Loop /\ Exists(s.loop) /\ ActiveSchedule(row[s.loop])
               /\ s = [loop |-> s.loop, row |-> row[s.loop]]
      <4>1. RowSound(row[s.loop], now) /\ s.row = row[s.loop]
        BY <3>2 DEF MemoryIsSound, RowsSound
      <4>2. QED BY <3>2, <4>1 DEF RowSound
    <3>3. QED BY <1>1, <3>1, <3>2 DEF CopiesMove
  <2>2. QED BY <1>1, <1>2, <2>1
<1>4. \A s, q \in scanned' : s.loop = q.loop => s = q
  <2>1. CASE Scan
    BY <2>1 DEF Scan
  <2>2. CASE scanned' \subseteq scanned
    BY <2>2 DEF MemoryIsSound, ScanSound
  <2>3. Scan \/ scanned' \subseteq scanned
    BY DEF Next, ServerStep, CreateLoop, UpdateSchedule, Finish, ReopenLoop, Commit,
          ReconcileCommitted, Fire, Overrun, TickEligibility, TickEnqueue, TickFails,
          Register, TakeCutoff, CatchUp, CaughtUp, Drained, Stop, Boot, Crash, Close,
          Down, PassTime, memory, vars
  <2>4. QED BY <2>1, <2>2, <2>3
<1>5. QED BY <1>3, <1>4 DEF ScanSound

LEMMA EntryType ==
  ASSUME NEW r \in Row
  PROVE  Entry(r) \in [revision : Nat, cron : Cron] \cup {None}
<1>1. ActiveSchedule(r) => r.cron \in Cron /\ r.scheduleRevision \in Nat
  BY DEF ActiveSchedule, Row
<1>2. QED BY <1>1 DEF Entry

LEMMA ReconcileType ==
  ASSUME RegistryOK, NEW batch \in SUBSET [loop : Loop, row : Row], NEW from,
         \A b, c \in batch : b.loop = c.loop => b = c, Reconcile(batch, from)
  PROVE  RegistryOK'
<1>1. /\ highest' = [l \in Loop |-> highest'[l]]
      /\ registry' = [l \in Loop |-> registry'[l]]
  BY DEF Reconcile
<1>2. ASSUME NEW l \in Loop
      PROVE  /\ registry'[l] \in [revision : Nat, cron : Cron] \cup {None}
             /\ highest'[l] \in Nat \cup {None}
  <2>1. CASE \A b \in batch : b.loop = l => Outdated(b)
    BY <2>1, ReconcileByLoop DEF LeftAlone, RegistryOK
  <2>2. CASE \E b \in batch : b.loop = l /\ ~Outdated(b)
    <3>1. PICK b \in batch : b.loop = l /\ ReconciledWith(l, b, from[l])
      BY <2>2, ReconcileByLoop
    <3>2. b.row \in Row /\ b.row.scheduleRevision \in Nat
      BY DEF Row
    <3>3. QED BY <3>1, <3>2, EntryType DEF ReconciledWith, RegistryOK
  <2>3. QED BY <2>1, <2>2
<1>3. QED BY <1>1, <1>2 DEF RegistryOK

LEMMA RegistryTyped ==
  ASSUME MemoryIsSound, [Next]_vars
  PROVE  RegistryOK'
<1> USE TypeParts
<1>0. RegistryOK
  BY DEF MemoryIsSound
<1>1. CASE ReconcileCommitted
  <2>1. PICK c \in commits :
          IF Stopped THEN registry' = registry /\ highest' = highest
                     ELSE Reconcile({c}, [l \in {c.loop} |-> now])
    BY <1>1 DEF ReconcileCommitted
  <2>2. {c} \in SUBSET [loop : Loop, row : Row]
    BY DEF MemoryIsSound, CommitsOK
  <2>3. CASE Stopped
    BY <1>0, <2>1, <2>3 DEF RegistryOK
  <2>4. CASE ~Stopped
    BY <1>0, <2>1, <2>2, <2>4, ReconcileType
  <2>5. QED BY <2>3, <2>4
<1>2. CASE Register
  <2>1. PICK from : Reconcile(scanned, from)
    BY <1>2, RegisterReconciles
  <2>2. scanned \in SUBSET [loop : Loop, row : Row]
        /\ \A b, c \in scanned : b.loop = c.loop => b = c
    BY DEF MemoryIsSound, ScannedOK, ScanSound
  <2>3. QED BY <1>0, <2>1, <2>2, ReconcileType
<1>3. CASE Stop \/ Crash \/ Close
  BY <1>0, <1>3 DEF Stop, Crash, Close, Down, RegistryOK
<1>4. CASE registry' = registry /\ highest' = highest
  BY <1>0, <1>4 DEF RegistryOK
<1>5. QED BY <1>1, <1>2, <1>3, <1>4
      DEF Next, ServerStep, CreateLoop, UpdateSchedule, Finish, ReopenLoop, Commit,
          Fire, Overrun, TickEligibility, TickEnqueue, TickFails, Scan, TakeCutoff,
          CatchUp, CaughtUp, Drained, Boot, PassTime, memory, vars

LEMMA LoseType ==
  ASSUME LostOK, NEW l \in Loop, NEW n \in Nat, NEW instants \in SUBSET Nat,
         Lose(l, n, instants)
  PROVE  LostOK'
BY DEF LostOK, Lose

LEMMA RestTyped ==
  ASSUME MemoryIsSound, [Next]_vars
  PROVE  LostOK' /\ mode' \in Mode
<1> USE TypeParts
<1>1. mode' \in Mode
  BY DEF MemoryIsSound, Mode, Next, ServerStep, CreateLoop, UpdateSchedule, Finish,
     ReopenLoop, Commit, ReconcileCommitted, Fire, Overrun, TickEligibility,
     TickEnqueue, TickFails, Scan, Register, TakeCutoff, CatchUp, CaughtUp, Drained,
     Stop, Boot, Crash, Close, Down, PassTime, memory, vars
<1>2. LostOK
  BY DEF MemoryIsSound
<1>3. CASE \E k \in ticks : TickEligibility(k) \/ TickEnqueue(k) \/ TickFails(k)
  <2>1. PICK k \in ticks : TickEligibility(k) \/ TickEnqueue(k) \/ TickFails(k)
    BY <1>3
  <2>2. k.loop \in Loop /\ k.revision \in Nat /\ k.cron \in Cron
    BY DEF MemoryIsSound, TicksOK, Tick
  <2>3. \A t : UpTo(k.cron, t) \in SUBSET Nat
    BY <2>2, OccursAssumption DEF UpTo
  <2>4. CASE lost' = lost
    BY <1>1, <1>2, <2>4 DEF LostOK
  <2>5. CASE \/ Lose(k.loop, k.revision, UpTo(k.cron, now))
             \/ Lose(k.loop, k.revision, UpTo(k.cron, k.at))
    BY <1>1, <1>2, <2>2, <2>3, <2>5, LoseType
  <2>6. QED BY <2>1, <2>4, <2>5 DEF TickEligibility, TickEnqueue, TickFails
<1>4. CASE \E j \in jobs : Fire(j) \/ Overrun(j)
  <2>1. PICK j \in jobs : Fire(j) \/ Overrun(j)
    BY <1>4
  <2>2. j.loop \in Loop /\ j.revision \in Nat /\ j.cron \in Cron
    BY DEF MemoryIsSound, JobsOK, Job
  <2>3. Due(j) \in SUBSET Nat
    BY <2>2, OccursAssumption DEF Due, Between
  <2>4. CASE lost' = lost
    BY <1>1, <1>2, <2>4 DEF LostOK
  <2>5. CASE Lose(j.loop, j.revision, Due(j))
    BY <1>1, <1>2, <2>2, <2>3, <2>5, LoseType
  <2>6. QED BY <2>1, <2>4, <2>5 DEF Fire, Overrun
<1>5. CASE lost' = lost \/ lost' = {}
  BY <1>1, <1>2, <1>5 DEF LostOK
<1>6. QED BY <1>1, <1>3, <1>4, <1>5
      DEF Next, ServerStep, CreateLoop, UpdateSchedule, Finish, ReopenLoop, Commit,
          ReconcileCommitted, Scan, Register, TakeCutoff, CatchUp, CaughtUp, Drained,
          Stop, Boot, Crash, Close, Down, PassTime, memory, vars

LEMMA MemorySound == Spec => []MemoryIsSound
<1>1. MemoryIsSound /\ [Next]_vars => MemoryIsSound'
  <2> SUFFICES ASSUME MemoryIsSound, [Next]_vars PROVE MemoryIsSound'
    OBVIOUS
  <2>1. RowsOK' /\ RowsSound' /\ now' \in 0..MaxTime /\ now' >= now
    BY TypeParts, NextRows DEF MemoryIsSound
  <2>2. cutoff' \in 0..MaxTime
    BY TypeParts, NextCutoff DEF MemoryIsSound, TicksSound
  <2>3. TimeOK'
    BY <2>1, <2>2 DEF TimeOK
  <2>4. LoopsExist'
    BY CopiesTyped, JobsTyped, TicksTyped DEF LoopsExist
  <2>5. TypeOK'
    BY <2>1, <2>3, CopiesTyped, JobsTyped, TicksTyped, RegistryTyped, RestTyped
       DEF TypeOK, RowsOK, TimeOK, CommitsOK, RegistryOK, JobsOK, TicksOK, ScannedOK,
           LostOK
  <2>6. QED BY <2>1, <2>4, <2>5, TicksTyped, ScanStays DEF MemoryIsSound
<1>2. QED BY <1>1, InitSound, PTL DEF Spec

\* The scheduler's memory always has its type, through boots, drains and crashes.
THEOREM SchedulerTypes == Spec => []TypeOK
<1>1. MemoryIsSound => TypeOK
  BY DEF MemoryIsSound
<1>2. QED BY <1>1, MemorySound, PTL

--------------------------------------------------------------------------------
(***************************************************************************)
(* Revisions.  What is held of a loop is older than its row; what was made *)
(* from a row of the current revision agrees with the row of today.        *)
(***************************************************************************)

\* x, a job or a callback, was made from a row that is older than r.
DerivedFrom(x, r) ==
  /\ x.revision <= r.scheduleRevision
  /\ x.revision = r.scheduleRevision => ActiveSchedule(r) /\ x.cron = r.cron

CopiesAreOlder ==
  \A c \in commits \cup scanned : Older(c.row, row[c.loop])

WorkIsDerived ==
  \A x \in jobs \cup ticks : DerivedFrom(x, row[x.loop])

RevisionsSound == CopiesAreOlder /\ WorkIsDerived

LEMMA DerivedLater ==
  ASSUME NEW x, x.revision \in Nat, NEW r \in Row, NEW q \in Row,
         DerivedFrom(x, r), Older(r, q)
  PROVE  DerivedFrom(x, q)
<1>1. r.scheduleRevision \in Nat /\ q.scheduleRevision \in Nat
  BY DEF Row
<1>2. x.revision <= r.scheduleRevision /\ r.scheduleRevision <= q.scheduleRevision
  BY DEF DerivedFrom, Older
<1>3. CASE x.revision # q.scheduleRevision
  BY <1>1, <1>2, <1>3 DEF DerivedFrom
<1>4. CASE x.revision = q.scheduleRevision
  <2>1. x.revision = r.scheduleRevision /\ r.scheduleRevision = q.scheduleRevision
    BY <1>1, <1>2, <1>4
  <2>2. r.cron = q.cron /\ r.enabled = q.enabled /\ ActiveSchedule(r) /\ x.cron = r.cron
    BY <2>1 DEF DerivedFrom, Older
  <2>3. QED BY <1>2, <1>4, <2>1, <2>2 DEF DerivedFrom, ActiveSchedule
<1>5. QED BY <1>3, <1>4

\* What is made from copy x of a row.
LEMMA DerivedFromCopy ==
  ASSUME NEW x \in Row, NEW r \in Row, Older(x, r), ActiveSchedule(x),
         NEW w, w.revision = x.scheduleRevision, w.cron = x.cron
  PROVE  DerivedFrom(w, r)
BY DEF Older, DerivedFrom, ActiveSchedule

LEMMA MemoryTypes ==
  ASSUME MemoryIsSound
  PROVE  /\ \A c \in commits \cup scanned :
              c.loop \in Loop /\ c.row \in Row /\ row[c.loop] \in Row
         /\ \A s \in scanned : ActiveSchedule(s.row)
         /\ \A j \in jobs : /\ j \in Job /\ j.loop \in Loop /\ row[j.loop] \in Row
                            /\ j.revision \in Nat
         /\ \A k \in ticks : /\ k \in Tick /\ k.loop \in Loop /\ row[k.loop] \in Row
                             /\ k.revision \in Nat
<1> USE TypeParts
<1>1. \A l \in Loop : Exists(l) => row[l] \in Row
  BY DEF MemoryIsSound, RowsOK, Exists
<1>2. \A c \in commits \cup scanned : c.loop \in Loop /\ c.row \in Row /\ row[c.loop] \in Row
  BY <1>1 DEF MemoryIsSound, CommitsOK, ScannedOK, LoopsExist
<1>3. \A j \in jobs : /\ j \in Job /\ j.loop \in Loop /\ row[j.loop] \in Row
                      /\ j.revision \in Nat
  BY <1>1 DEF MemoryIsSound, JobsOK, LoopsExist, Job
<1>4. \A k \in ticks : /\ k \in Tick /\ k.loop \in Loop /\ row[k.loop] \in Row
                       /\ k.revision \in Nat
  BY <1>1 DEF MemoryIsSound, TicksOK, LoopsExist, Tick
<1>5. QED BY <1>2, <1>3, <1>4 DEF MemoryIsSound, ScanSound

LEMMA NextMoves ==
  ASSUME MemoryIsSound, [Next]_vars
  PROVE  CopiesMove /\ JobsMove /\ TicksMove /\ RowsAge /\ RowsOK'
BY TypeParts, NextCopies, NextJobs, NextTicks, NextRows DEF MemoryIsSound

LEMMA AgedRows ==
  ASSUME MemoryIsSound, RowsAge, RowsOK', NEW l \in Loop, row[l] \in Row
  PROVE  row'[l] \in Row /\ Older(row[l], row'[l])
BY NullAssumption DEF RowsAge, RowsOK, Exists

LEMMA RevisionsStay ==
  ASSUME MemoryIsSound, RevisionsSound, [Next]_vars
  PROVE  RevisionsSound'
<1> USE MemoryTypes
<1>1. CopiesMove /\ JobsMove /\ TicksMove /\ RowsAge /\ RowsOK'
  BY NextMoves
<1>2. ASSUME NEW x, x \in commits' \cup scanned'
      PROVE  Older(x.row, row'[x.loop])
  <2>1. CASE x \in commits \cup scanned
    <3>1. x.loop \in Loop /\ x.row \in Row /\ row[x.loop] \in Row
      BY <2>1
    <3>2. row'[x.loop] \in Row /\ Older(row[x.loop], row'[x.loop])
      BY <1>1, <3>1, AgedRows
    <3>3. Older(x.row, row[x.loop])
      BY <2>1 DEF RevisionsSound, CopiesAreOlder
    <3>4. QED BY <3>1, <3>2, <3>3, OlderTransitive
  <2>2. CASE \E l \in Loop, r \in Row :
               x = [loop |-> l, row |-> r] /\ NewRow(l, r) /\ Commit(l, r)
    BY <2>2, OlderReflexive, TypeParts DEF Commit, MemoryIsSound, RowsOK
  <2>3. CASE /\ RowsStay /\ x.loop \in Loop /\ Exists(x.loop)
             /\ x = [loop |-> x.loop, row |-> row[x.loop]]
    BY <2>3, OlderReflexive, TypeParts DEF RowsStay, MemoryIsSound, RowsOK, Exists
  <2>4. QED BY <1>1, <1>2, <2>1, <2>2, <2>3 DEF CopiesMove
<1>3. ASSUME NEW j \in jobs'
      PROVE  DerivedFrom(j, row'[j.loop])
  <2>1. CASE j \in jobs
    BY <1>1, <2>1, AgedRows, DerivedLater DEF RevisionsSound, WorkIsDerived
  <2>2. CASE RowsStay /\ Refired(j)
    <3>1. PICK i \in jobs : j = [i EXCEPT !.fired = now]
      BY <2>2 DEF Refired
    <3>2. j.loop = i.loop /\ j.revision = i.revision /\ j.cron = i.cron
      BY <3>1 DEF Job
    <3>3. DerivedFrom(i, row[i.loop])
      BY DEF RevisionsSound, WorkIsDerived
    <3>4. QED BY <2>2, <3>2, <3>3 DEF RowsStay, DerivedFrom
  <2>3. CASE RowsStay /\ Registered(j)
    <3>1. PICK b \in commits \cup scanned :
            ActiveSchedule(b.row) /\ \E t : j = NewJob(b, t)
      BY <2>3 DEF Registered
    <3>2. j.loop = b.loop /\ j.revision = b.row.scheduleRevision /\ j.cron = b.row.cron
      BY <3>1 DEF NewJob
    <3>3. Older(b.row, row[b.loop])
      BY DEF RevisionsSound, CopiesAreOlder
    <3>4. QED BY <2>3, <3>1, <3>2, <3>3, DerivedFromCopy DEF RowsStay
  <2>4. QED BY <1>1, <1>3, <2>1, <2>2, <2>3 DEF JobsMove
<1>4. ASSUME NEW k \in ticks'
      PROVE  DerivedFrom(k, row'[k.loop])
  <2>1. CASE k \in ticks
    BY <1>1, <2>1, AgedRows, DerivedLater DEF RevisionsSound, WorkIsDerived
  <2>2. CASE RowsStay /\ Started(k)
    <3>1. PICK j \in jobs : k.loop = j.loop /\ k.revision = j.revision /\ k.cron = j.cron
      BY <2>2 DEF Started
    <3>2. DerivedFrom(j, row[j.loop])
      BY DEF RevisionsSound, WorkIsDerived
    <3>3. QED BY <2>2, <3>1, <3>2 DEF RowsStay, DerivedFrom
  <2>3. CASE RowsStay /\ Chosen(k)
    <3>1. PICK i \in ticks :
            k = [i EXCEPT !.stage = "enqueue", !.at = TickOccurrence(i)]
      BY <2>3 DEF Chosen
    <3>2. k.loop = i.loop /\ k.revision = i.revision /\ k.cron = i.cron
      BY <3>1 DEF Tick
    <3>3. DerivedFrom(i, row[i.loop])
      BY DEF RevisionsSound, WorkIsDerived
    <3>4. QED BY <2>3, <3>2, <3>3 DEF RowsStay, DerivedFrom
  <2>4. CASE RowsStay /\ CaughtUpWith(k)
    <3>1. PICK s \in scanned : /\ k.loop = s.loop /\ k.revision = s.row.scheduleRevision
                               /\ k.cron = s.row.cron
      BY <2>4 DEF CaughtUpWith
    <3>2. Older(s.row, row[s.loop])
      BY DEF RevisionsSound, CopiesAreOlder
    <3>3. QED BY <2>4, <3>1, <3>2, DerivedFromCopy DEF RowsStay
  <2>5. QED BY <1>1, <1>4, <2>1, <2>2, <2>3, <2>4 DEF TicksMove
<1>5. QED BY <1>2, <1>3, <1>4 DEF RevisionsSound, CopiesAreOlder, WorkIsDerived

LEMMA RevisionsHold == Spec => []RevisionsSound
<1>1. Init => RevisionsSound
  BY DEF Init, RevisionsSound, CopiesAreOlder, WorkIsDerived
<1>2. QED BY <1>1, RevisionsStay, MemorySound, PTL DEF Spec

--------------------------------------------------------------------------------
(***************************************************************************)
(* The registry: one job of a loop, the one it has an entry for.           *)
(***************************************************************************)

\* A job of loop l is replaced by itself with its timer set again.
Rearmed(l) ==
  /\ RowsStay /\ highest'[l] = highest[l] /\ registry'[l] = registry[l]
  /\ \E i \in jobs : /\ i.loop = l
                     /\ jobs' = (jobs \ {i}) \cup {[i EXCEPT !.fired = now]}

Emptied(l) ==
  /\ RowsStay /\ registry'[l] = None /\ highest'[l] \in {None, highest[l]}
  /\ \A j \in jobs' : j.loop # l

Accepted(l) ==
  /\ RowsStay
  /\ \E b \in commits \cup scanned, t \in Nat :
       b.loop = l /\ ~Outdated(b) /\ ReconciledWith(l, b, t)

RegistryStep(l) == LeftAlone(l) \/ Rearmed(l) \/ Emptied(l) \/ Accepted(l)

LEMMA ReconciledLoop ==
  ASSUME MemoryIsSound, NEW batch \in SUBSET (commits \cup scanned), NEW from,
         \A b, c \in batch : b.loop = c.loop => b = c,
         \A b \in batch : from[b.loop] \in Nat,
         RowsStay, Reconcile(batch, from), NEW l \in Loop
  PROVE  LeftAlone(l) \/ Accepted(l)
<1>1. batch \in SUBSET [loop : Loop, row : Row]
  BY TypeParts DEF MemoryIsSound, CommitsOK, ScannedOK
<1>2. CASE \A b \in batch : b.loop = l => Outdated(b)
  BY <1>1, <1>2, ReconcileByLoop
<1>3. CASE \E b \in batch : b.loop = l /\ ~Outdated(b)
  <2>1. PICK b \in batch : b.loop = l /\ ~Outdated(b)
    BY <1>3
  <2>2. ReconciledWith(l, b, from[l])
    BY <1>1, <2>1, ReconcileByLoop
  <2>3. from[l] \in Nat
    BY <2>1
  <2>4. QED BY <2>1, <2>2, <2>3 DEF Accepted
<1>4. QED BY <1>2, <1>3

LEMMA NextRegistry ==
  ASSUME MemoryIsSound, [Next]_vars, NEW l \in Loop
  PROVE  RegistryStep(l)
<1>0. now \in Nat
  BY Times, TypeParts DEF MemoryIsSound
<1>1. CASE ReconcileCommitted
  <2>1. PICK c \in commits :
          IF Stopped THEN UNCHANGED <<registry, highest, jobs>>
                     ELSE Reconcile({c}, [m \in {c.loop} |-> now])
    BY <1>1 DEF ReconcileCommitted
  <2>2. CASE Stopped
    BY <2>1, <2>2 DEF RegistryStep, LeftAlone
  <2>3. CASE ~Stopped
    <3>1. RowsStay
      BY <1>1 DEF ReconcileCommitted, RowsStay
    <3> DEFINE from == [m \in {c.loop} |-> now]
    <3>2. {c} \in SUBSET (commits \cup scanned) /\ \A b \in {c} : from[b.loop] \in Nat
      BY <1>0
    <3>3. Reconcile({c}, from)
      BY <2>1, <2>3
    <3> HIDE DEF from
    <3>4. LeftAlone(l) \/ Accepted(l)
      BY <3>1, <3>2, <3>3, ReconciledLoop
    <3>5. QED BY <3>4 DEF RegistryStep
  <2>4. QED BY <2>2, <2>3
<1>2. CASE Register
  <2>1. PICK from : /\ Reconcile(scanned, from)
                    /\ \A s \in scanned : from[s.loop] = s.row.scheduleActivatedAt
    BY <1>2, RegisterReconciles DEF MemoryIsSound, ScanSound
  <2>2. RowsStay
    BY <1>2 DEF Register, RowsStay
  <2>3. \A b, c \in scanned : b.loop = c.loop => b = c
    BY DEF MemoryIsSound, ScanSound
  <2>4. \A b \in scanned : from[b.loop] \in Nat
    BY <1>0, <2>1 DEF MemoryIsSound, ScanSound
  <2>5. scanned \in SUBSET (commits \cup scanned)
    OBVIOUS
  <2>6. LeftAlone(l) \/ Accepted(l)
    BY <2>1, <2>2, <2>3, <2>4, <2>5, ReconciledLoop
  <2>7. QED BY <2>6 DEF RegistryStep
<1>3. CASE \E j \in jobs : Fire(j) \/ Overrun(j)
  <2>1. PICK j \in jobs : Fire(j) \/ Overrun(j)
    BY <1>3
  <2>2. /\ RowsStay /\ highest' = highest /\ registry' = registry
        /\ jobs' = (jobs \ {j}) \cup {[j EXCEPT !.fired = now]}
    BY <2>1 DEF Fire, Overrun, Refire, RowsStay
  <2>3. CASE j.loop = l
    BY <2>2, <2>3 DEF RegistryStep, Rearmed
  <2>4. CASE j.loop # l
    <3>1. [j EXCEPT !.fired = now].loop = j.loop
      BY MemoryTypes DEF Job
    <3>2. QED BY <2>2, <2>4, <3>1 DEF RegistryStep, LeftAlone
  <2>5. QED BY <2>3, <2>4
<1>4. CASE Stop \/ Crash \/ Close
  BY <1>4 DEF Stop, Crash, Close, Down, RegistryStep, Emptied, RowsStay
<1>5. CASE UNCHANGED <<jobs, registry, highest>>
  BY <1>5 DEF RegistryStep, LeftAlone
<1>6. QED BY <1>1, <1>2, <1>3, <1>4, <1>5
      DEF Next, ServerStep, CreateLoop, UpdateSchedule, Finish, ReopenLoop, Commit,
          TickEligibility, TickEnqueue, TickFails, Scan, TakeCutoff, CatchUp,
          CaughtUp, Drained, Boot, PassTime, memory, vars

\* The newest revision that was seen of loop l, and the entry and the job it has.
Noted(l) ==
  /\ highest[l] # None => Exists(l) /\ highest[l] <= row[l].scheduleRevision
  /\ registry[l] # None => highest[l] # None /\ registry[l].revision <= highest[l]

OneJob(l) ==
  \A j \in jobs : j.loop = l =>
    /\ registry[l] = [revision |-> j.revision, cron |-> j.cron]
    /\ \A i \in jobs : i.loop = l => i = j

RegistrySound == \A l \in Loop : Noted(l) /\ OneJob(l)

LEMMA NotedStays ==
  ASSUME MemoryIsSound, RevisionsSound, RegistrySound, [Next]_vars, NEW l \in Loop
  PROVE  Noted(l)'
<1>0. /\ Noted(l) /\ RowsAge /\ RowsOK' /\ RowsOK
      /\ highest[l] \in Nat \cup {None}
      /\ registry[l] \in [revision : Nat, cron : Cron] \cup {None}
  BY NextMoves, TypeParts DEF RegistrySound, MemoryIsSound, RegistryOK
<1>1. Exists(l) => Exists(l)' /\ row[l].scheduleRevision <= row'[l].scheduleRevision
                   /\ row[l].scheduleRevision \in Nat /\ row'[l].scheduleRevision \in Nat
  BY <1>0 DEF RowsAge, Older, RowsOK, Exists, Row
<1>2. CASE highest'[l] = highest[l] /\ registry'[l] \in {registry[l], None}
  BY <1>0, <1>1, <1>2 DEF Noted
<1>3. CASE highest'[l] = None /\ registry'[l] = None
  BY <1>3 DEF Noted
<1>4. CASE Accepted(l)
  <2>1. PICK b \in commits \cup scanned, t \in Nat :
          b.loop = l /\ ~Outdated(b) /\ ReconciledWith(l, b, t)
    BY <1>4 DEF Accepted
  <2>2. b.row \in Row /\ row[l] \in Row /\ Exists(l) /\ Older(b.row, row[l])
    BY <2>1, MemoryTypes DEF RevisionsSound, CopiesAreOlder, MemoryIsSound, LoopsExist
  <2>3. /\ b.row.scheduleRevision \in Nat
        /\ b.row.scheduleRevision <= row[l].scheduleRevision
    BY <2>2 DEF Row, Older
  <2>4. highest'[l] = b.row.scheduleRevision /\ row' = row
    BY <1>4, <2>1 DEF ReconciledWith, Accepted, RowsStay
  <2>5. highest[l] # None => highest[l] <= b.row.scheduleRevision
    BY <1>0, <2>1, <2>3 DEF Outdated
  <2>6. registry'[l] \in {registry[l], Entry(b.row)}
    BY <2>1 DEF ReconciledWith
  <2>7. Entry(b.row) # None => Entry(b.row).revision = b.row.scheduleRevision
    BY DEF Entry
  <2>8. b.row.scheduleRevision # None
    BY <2>3, NoneAssumption
  <2>9. CASE registry'[l] = Entry(b.row)
    BY <2>2, <2>3, <2>4, <2>7, <2>8, <2>9 DEF Noted, Exists
  <2>10. CASE registry'[l] = registry[l]
    BY <1>0, <2>2, <2>3, <2>4, <2>5, <2>8, <2>10 DEF Noted, Exists
  <2>11. QED BY <2>6, <2>9, <2>10
<1>5. QED BY <1>2, <1>3, <1>4, NextRegistry
      DEF RegistryStep, LeftAlone, Rearmed, Emptied

LEMMA OneJobStays ==
  ASSUME MemoryIsSound, RegistrySound, [Next]_vars, NEW l \in Loop
  PROVE  OneJob(l)'
<1>0. OneJob(l)
  BY DEF RegistrySound
<1>1. CASE LeftAlone(l)
  BY <1>0, <1>1 DEF LeftAlone, OneJob
<1>2. CASE Rearmed(l)
  <2>1. PICK i \in jobs : /\ i.loop = l
                          /\ jobs' = (jobs \ {i}) \cup {[i EXCEPT !.fired = now]}
    BY <1>2 DEF Rearmed
  <2> DEFINE n == [i EXCEPT !.fired = now]
  <2>2. n.loop = l /\ n.revision = i.revision /\ n.cron = i.cron
    BY <2>1, MemoryTypes DEF Job
  <2>3. \A j \in jobs' : j.loop = l => j = n
    BY <1>0, <2>1 DEF OneJob
  <2>4. registry'[l] = [revision |-> i.revision, cron |-> i.cron]
    BY <1>0, <1>2, <2>1 DEF OneJob, Rearmed
  <2>5. QED BY <2>2, <2>3, <2>4 DEF OneJob
<1>3. CASE Emptied(l)
  BY <1>3 DEF Emptied, OneJob
<1>4. CASE Accepted(l)
  <2>1. PICK b \in commits \cup scanned, t \in Nat :
          b.loop = l /\ ReconciledWith(l, b, t)
    BY <1>4 DEF Accepted
  <2>2. CASE /\ registry'[l] = registry[l]
             /\ \A j : j.loop = l => (j \in jobs' <=> j \in jobs)
    BY <1>0, <2>2 DEF OneJob
  <2>3. CASE \A j \in jobs' : j.loop # l
    BY <2>3 DEF OneJob
  <2>4. CASE /\ registry'[l] = Entry(b.row)
             /\ \A j : j.loop = l =>
                  (j \in jobs' <=> ActiveSchedule(b.row) /\ j = NewJob(b, t))
    <3>1. \A j \in jobs' : j.loop = l => ActiveSchedule(b.row) /\ j = NewJob(b, t)
      BY <2>4
    <3>2. /\ NewJob(b, t).revision = b.row.scheduleRevision
          /\ NewJob(b, t).cron = b.row.cron
      BY DEF NewJob
    <3>3. QED BY <2>4, <3>1, <3>2 DEF OneJob, Entry
  <2>5. QED BY <2>1, <2>2, <2>3, <2>4 DEF ReconciledWith
<1>5. QED BY <1>1, <1>2, <1>3, <1>4, NextRegistry DEF RegistryStep

LEMMA RegistryHolds == Spec => []RegistrySound
<1>1. Init => RegistrySound
  BY DEF Init, RegistrySound, Noted, OneJob
<1>2. MemoryIsSound /\ RevisionsSound /\ RegistrySound /\ [Next]_vars => RegistrySound'
  BY NotedStays, OneJobStays DEF RegistrySound
<1>3. QED BY <1>1, <1>2, MemorySound, RevisionsHold, PTL DEF Spec

LEMMA OneJobRegistered ==
  ASSUME MemoryIsSound, RegistrySound PROVE JobsAreRegistered
<1> SUFFICES ASSUME NEW j \in jobs
             PROVE  /\ registry[j.loop] = [revision |-> j.revision, cron |-> j.cron]
                    /\ JobsOf(j.loop) = {j}
  BY DEF JobsAreRegistered
<1>1. j.loop \in Loop
  BY MemoryTypes
<1>2. registry[j.loop] = [revision |-> j.revision, cron |-> j.cron]
      /\ \A i \in jobs : i.loop = j.loop => i = j
  BY <1>1 DEF RegistrySound, OneJob
<1>3. JobsOf(j.loop) = {j}
  BY <1>2 DEF JobsOf
<1>4. QED BY <1>2, <1>3

--------------------------------------------------------------------------------
(***************************************************************************)
(* The life of the server: what is in memory in each of its modes.         *)
(***************************************************************************)

ModeSound ==
  /\ Stopped => jobs = {}
  /\ mode = "drained" => ticks = {}
  /\ mode = "down" => commits = {} /\ \A l \in Loop : highest[l] = None
  /\ scanned # {} => mode \in {"scanned", "registered", "recovering"}

LEMMA ModeHolds == Spec => []ModeSound
<1>1. Init => ModeSound
  BY DEF Init, ModeSound, Stopped
<1>2. MemoryIsSound /\ ModeSound /\ [Next]_vars => ModeSound'
  <2> SUFFICES ASSUME ModeSound, [Next]_vars PROVE ModeSound'
    OBVIOUS
  <2>1. CASE \E l \in Loop : CreateLoop(l) \/ UpdateSchedule(l) \/ Finish(l) \/ ReopenLoop(l)
    BY <2>1 DEF CreateLoop, UpdateSchedule, Finish, ReopenLoop, Commit, Serving,
       ModeSound, Stopped
  <2>2. CASE ReconcileCommitted
    BY <2>2 DEF ReconcileCommitted, Serving, ModeSound, Stopped
  <2>3. CASE \E j \in jobs : Fire(j) \/ Overrun(j)
    BY <2>3 DEF Fire, Overrun, Serving, ModeSound, Stopped
  <2>4. CASE \E k \in ticks : TickEligibility(k) \/ TickEnqueue(k) \/ TickFails(k)
    BY <2>4 DEF TickEligibility, TickEnqueue, TickFails, Serving, ModeSound, Stopped
  <2>5. CASE Scan \/ TakeCutoff \/ CatchUp \/ CaughtUp \/ Drained
    BY <2>5 DEF Scan, TakeCutoff, CatchUp, CaughtUp, Drained, InFlight, ModeSound, Stopped
  <2>6. CASE Register
    BY <2>6 DEF Register, ModeSound, Stopped
  <2>7. CASE Stop \/ Boot \/ Crash \/ Close
    BY <2>7 DEF Stop, Boot, Crash, Close, Down, ModeSound, Stopped
  <2>8. CASE PassTime \/ UNCHANGED vars
    BY <2>8 DEF PassTime, memory, vars, ModeSound, Stopped
  <2>9. QED BY <2>1, <2>2, <2>3, <2>4, <2>5, <2>6, <2>7, <2>8 DEF Next, ServerStep
<1>3. QED BY <1>1, <1>2, MemorySound, PTL DEF Spec

--------------------------------------------------------------------------------
(***************************************************************************)
(* Every committed row is followed: the registry knows it, or a handler or *)
(* the boot still holds it.                                                *)
(***************************************************************************)

Committed(l) ==
  \E c \in commits : c.loop = l /\ c.row.scheduleRevision = row[l].scheduleRevision

Scanned(l) ==
  \E s \in scanned : s.loop = l /\ s.row.scheduleRevision = row[l].scheduleRevision

ScanPending(l) == \E s \in scanned : s.loop = l

Newest(l) == highest[l] = row[l].scheduleRevision

\* The boot has yet to look at the row, or it does not ask for a job.
NotScanned(l) ==
  \/ mode \in {"down", "booting"}
  \/ mode = "scanned" /\ Scanned(l)
  \/ ~(ActiveSchedule(row[l]) /\ l \in Eligible)

\* The job of the row runs, unless there is none to run or it was refused.
Obeyed(l) ==
  \/ registry[l] = Entry(row[l]) /\ (ActiveSchedule(row[l]) => JobsOf(l) # {})
  \/ l \in Flaky /\ JobsOf(l) = {}

FollowedLoop(l) ==
  Exists(l) =>
    /\ highest[l] # None \/ CommitPending(l) => Newest(l) \/ Committed(l)
    /\ ScanPending(l) => Newest(l) \/ Committed(l) \/ Scanned(l)
    /\ Newest(l) \/ Committed(l) \/ NotScanned(l)
    /\ Newest(l) => Obeyed(l)

Followed == ~Stopped => \A l \in Loop : FollowedLoop(l)

SameSchedule(x, r) ==
  /\ x.scheduleRevision = r.scheduleRevision
  /\ x.cron = r.cron /\ x.enabled = r.enabled

SchedulesStay ==
  \A l \in Loop : (Exists(l) <=> Exists(l)') /\ (Exists(l) => SameSchedule(row[l], row'[l]))

LEMMA EntrySame ==
  ASSUME NEW x, NEW r, SameSchedule(x, r)
  PROVE  Entry(x) = Entry(r) /\ (ActiveSchedule(x) <=> ActiveSchedule(r))
BY DEF SameSchedule, Entry, ActiveSchedule

LEMMA WatermarkedStays ==
  ASSUME MemoryIsSound, Watermarked PROVE SchedulesStay
<1>1. PICK k \in ticks : TickEnqueue(k)
        /\ OccurrenceAdmits(row[k.loop], [revision |-> k.revision, at |-> k.at], now)
  BY DEF Watermarked
<1> DEFINE r == [row[k.loop] EXCEPT !.lastScheduledAt = k.at]
<1>2. k.loop \in Loop /\ row[k.loop] \in Row /\ k.at \in Nat /\ Exists(k.loop) /\ RowsOK
  BY MemoryTypes, TypeParts, TimeAssumption DEF MemoryIsSound, LoopsExist, Tick
<1>3. row' = [row EXCEPT ![k.loop] = r]
  BY <1>1 DEF TickEnqueue
<1>4. SameSchedule(row[k.loop], r)
  BY <1>2 DEF SameSchedule, Row
<1>5. r \in Row /\ r # None
  BY <1>2, WatermarkType, NullAssumption
<1>6. \A l \in Loop : row'[l] = IF l = k.loop THEN r ELSE row[l]
  BY <1>2, <1>3 DEF RowsOK
<1>7. QED BY <1>2, <1>4, <1>5, <1>6 DEF SchedulesStay, Exists, SameSchedule

\* A step that leaves the schedules, the registry and the copies of rows alone.
LEMMA FollowedStutters ==
  ASSUME NEW l \in Loop, FollowedLoop(l), SchedulesStay,
         UNCHANGED <<commits, scanned, registry, highest, mode>>,
         JobsOf(l) = {} <=> JobsOf(l)' = {}
  PROVE  FollowedLoop(l)'
<1>1. CASE ~Exists(l)
  BY <1>1 DEF SchedulesStay, FollowedLoop
<1>2. CASE Exists(l)
  <2>1. Exists(l)' /\ SameSchedule(row[l], row'[l])
    BY <1>2 DEF SchedulesStay
  <2>2. PICK r : r = row'[l]
    OBVIOUS
  <2>3. /\ Entry(row[l]) = Entry(r) /\ (ActiveSchedule(row[l]) <=> ActiveSchedule(r))
        /\ row[l].scheduleRevision = r.scheduleRevision
    BY <2>1, <2>2, EntrySame DEF SameSchedule
  <2>4. /\ Newest(l) <=> Newest(l)'
        /\ Committed(l) <=> Committed(l)'
        /\ CommitPending(l) <=> CommitPending(l)'
        /\ Scanned(l) <=> Scanned(l)'
        /\ ScanPending(l) <=> ScanPending(l)'
    BY <2>2, <2>3 DEF Newest, Committed, CommitPending, Scanned, ScanPending
  <2>5. NotScanned(l) <=> NotScanned(l)'
    BY <2>2, <2>3, <2>4 DEF NotScanned, ActiveSchedule
  <2>6. Obeyed(l) => Obeyed(l)'
    BY <2>2, <2>3 DEF Obeyed, Entry, ActiveSchedule
  <2>7. QED BY <1>2, <2>1, <2>4, <2>5, <2>6 DEF FollowedLoop
<1>3. QED BY <1>1, <1>2

LEMMA FollowedCommit ==
  ASSUME MemoryIsSound, RegistrySound, NEW m \in Loop, NEW r \in Row,
         NewRow(m, r), Commit(m, r), NEW l \in Loop, FollowedLoop(l)
  PROVE  FollowedLoop(l)'
<1>1. /\ row' = [row EXCEPT ![m] = r] /\ RowsOK
      /\ commits' = commits \cup {[loop |-> m, row |-> r]}
      /\ UNCHANGED <<mode, registry, highest, jobs, scanned>>
  BY TypeParts DEF Commit, MemoryIsSound
<1>2. CASE l = m
  <2>1. row'[l] = r
    BY <1>1, <1>2 DEF RowsOK
  <2>2. Committed(l)'
    <3> DEFINE c == [loop |-> m, row |-> r]
    <3>1. c \in commits' /\ c.loop = l /\ c.row.scheduleRevision = row'[l].scheduleRevision
      BY <1>1, <1>2, <2>1
    <3>2. QED BY <3>1 DEF Committed
  <2>3. ~Newest(l)'
    <3>1. highest[l] # None => Exists(l) /\ highest[l] <= row[l].scheduleRevision
      BY DEF RegistrySound, Noted
    <3>2. r.scheduleRevision \in Nat
      BY DEF Row
    <3>3. r.scheduleRevision # None
      BY <3>2, NoneAssumption
    <3>4. CASE highest[l] = None
      BY <1>1, <2>1, <3>3, <3>4 DEF Newest
    <3>5. CASE highest[l] # None
      <4>1. row[l] \in Row /\ r.scheduleRevision > row[l].scheduleRevision
        BY <1>1, <1>2, <3>1, <3>5 DEF NewRow, Exists, RowsOK
      <4>2. row[l].scheduleRevision \in Nat /\ highest[l] \in Nat
        BY <3>5, <4>1, TypeParts DEF Row, MemoryIsSound, RegistryOK
      <4>3. highest[l] # r.scheduleRevision
        BY <3>1, <3>2, <3>5, <4>1, <4>2
      <4>4. QED BY <1>1, <2>1, <4>3 DEF Newest
    <3>6. QED BY <3>4, <3>5
  <2>4. QED BY <2>2, <2>3 DEF FollowedLoop
<1>3. CASE l # m
  <2>1. row'[l] = row[l]
    BY <1>1, <1>3 DEF RowsOK
  <2>2. /\ Newest(l) <=> Newest(l)'
        /\ Committed(l) => Committed(l)'
        /\ CommitPending(l)' => CommitPending(l)
        /\ Scanned(l) <=> Scanned(l)'
        /\ ScanPending(l) <=> ScanPending(l)'
    BY <1>1, <1>3, <2>1 DEF Newest, Committed, CommitPending, Scanned, ScanPending
  <2>3. NotScanned(l) <=> NotScanned(l)'
    BY <1>1, <2>1, <2>2 DEF NotScanned, ActiveSchedule
  <2>4. Obeyed(l) => Obeyed(l)'
    BY <1>1, <2>1 DEF Obeyed, Entry, ActiveSchedule, JobsOf
  <2>5. QED BY <1>1, <2>1, <2>2, <2>3, <2>4 DEF FollowedLoop, Exists
<1>4. QED BY <1>2, <1>3


\* Loop l accepts a copy of its newest row: it obeys it.
LEMMA AcceptedObeys ==
  ASSUME MemoryIsSound, RevisionsSound, RegistrySound, NEW l \in Loop, FollowedLoop(l),
         NEW b \in commits \cup scanned, NEW t \in Nat, b.loop = l,
         b.row.scheduleRevision = row[l].scheduleRevision,
         RowsStay, ReconciledWith(l, b, t)
  PROVE  Newest(l)' /\ Obeyed(l)'
<1>1. b.row \in Row /\ row[l] \in Row /\ Exists(l) /\ Older(b.row, row[l])
  BY MemoryTypes DEF RevisionsSound, CopiesAreOlder, MemoryIsSound, LoopsExist
<1>2. SameSchedule(b.row, row[l])
  BY <1>1 DEF Older, SameSchedule
<1>3. PICK r : r = row[l]
  OBVIOUS
<1>4. Entry(b.row) = Entry(r) /\ (ActiveSchedule(b.row) <=> ActiveSchedule(r)) /\ row'[l] = r
  BY <1>2, <1>3, EntrySame DEF RowsStay
<1>5. Newest(l)'
  BY <1>3, <1>4 DEF Newest, ReconciledWith
<1>6. CASE /\ registry[l] = Entry(b.row) /\ registry'[l] = registry[l]
           /\ \A j : j.loop = l => (j \in jobs' <=> j \in jobs)
  <2>1. JobsOf(l)' = JobsOf(l) /\ registry'[l] = Entry(r) /\ registry[l] = Entry(r)
    BY <1>4, <1>6 DEF JobsOf
  <2>2. CASE ~ActiveSchedule(r)
    BY <1>4, <1>5, <2>1, <2>2 DEF Obeyed
  <2>3. CASE ActiveSchedule(r)
    <3>1. registry[l] = [revision |-> r.scheduleRevision, cron |-> r.cron]
      BY <1>4, <1>6, <2>3 DEF Entry
    <3>2. registry[l] # None
      BY <1>1, <1>3, <2>3, <3>1, NullAssumption DEF Row, ActiveSchedule
    <3>3. Noted(l) /\ highest[l] \in Nat \cup {None}
      BY TypeParts DEF RegistrySound, MemoryIsSound, RegistryOK
    <3>4. r.scheduleRevision <= highest[l] /\ highest[l] \in Nat
          /\ highest[l] <= r.scheduleRevision /\ r.scheduleRevision \in Nat
      BY <1>1, <1>3, <3>1, <3>2, <3>3 DEF Noted, Row
    <3>5. Newest(l)
      BY <1>3, <3>4 DEF Newest
    <3>6. Obeyed(l)
      BY <1>1, <3>5 DEF FollowedLoop
    <3>7. QED BY <1>3, <1>4, <1>5, <2>1, <3>6 DEF Obeyed
  <2>4. QED BY <2>2, <2>3
<1>7. CASE l \in Flaky /\ \A j \in jobs' : j.loop # l
  BY <1>5, <1>7 DEF Obeyed, JobsOf
<1>8. CASE /\ registry'[l] = Entry(b.row)
           /\ \A j : j.loop = l =>
                (j \in jobs' <=> ActiveSchedule(b.row) /\ j = NewJob(b, t))
  <2>1. NewJob(b, t).loop = l
    BY DEF NewJob
  <2>2. ActiveSchedule(r) => NewJob(b, t) \in jobs'
    BY <1>4, <1>8, <2>1
  <2>3. ActiveSchedule(r) => JobsOf(l)' # {}
    BY <2>1, <2>2 DEF JobsOf
  <2>4. QED BY <1>4, <1>5, <1>8, <2>3 DEF Obeyed
<1>9. QED BY <1>5, <1>6, <1>7, <1>8 DEF ReconciledWith

\* A step that leaves the rows and loop l's part of the registry alone, and its
\* copies but for those that no longer count.
LEMMA FollowedAlone ==
  ASSUME NEW l \in Loop, FollowedLoop(l), RowsStay, LeftAlone(l),
         Committed(l) => Committed(l)',
         CommitPending(l)' => CommitPending(l) \/ Newest(l) \/ Committed(l)',
         ScanPending(l)' =>
           Scanned(l)' \/ (ScanPending(l) /\ (Scanned(l) => Scanned(l)')),
         NotScanned(l) => NotScanned(l)' \/ Newest(l) \/ Committed(l)'
  PROVE  FollowedLoop(l)'
<1>1. row' = row /\ highest'[l] = highest[l] /\ registry'[l] = registry[l]
      /\ JobsOf(l)' = JobsOf(l)
  BY DEF RowsStay, LeftAlone, JobsOf
<1>2. (Newest(l) <=> Newest(l)') /\ (Obeyed(l) <=> Obeyed(l)') /\ (Exists(l) <=> Exists(l)')
  BY <1>1 DEF Newest, Obeyed, Exists, Entry, ActiveSchedule
<1>3. QED BY <1>1, <1>2 DEF FollowedLoop

LEMMA FollowedReconcile ==
  ASSUME MemoryIsSound, RevisionsSound, RegistrySound, NEW l \in Loop, FollowedLoop(l),
         ~Stopped, ReconcileCommitted
  PROVE  FollowedLoop(l)'
<1>1. PICK c \in commits : /\ commits' = commits \ {c}
                           /\ Reconcile({c}, [m \in {c.loop} |-> now])
  BY DEF ReconcileCommitted
<1>2. RowsStay /\ mode' = mode /\ scanned' = scanned
  BY DEF ReconcileCommitted, RowsStay
<1>3. c.loop \in Loop /\ c.row \in Row /\ row[c.loop] \in Row /\ Exists(c.loop)
      /\ Older(c.row, row[c.loop]) /\ now \in Nat
  BY MemoryTypes, TypeParts, TimeAssumption
     DEF RevisionsSound, CopiesAreOlder, MemoryIsSound, LoopsExist, TimeOK
<1>4. {c} \in SUBSET [loop : Loop, row : Row]
  BY TypeParts DEF MemoryIsSound, CommitsOK
<1>5. /\ (c.loop = l => Outdated(c)) => LeftAlone(l)
      /\ c.loop = l /\ ~Outdated(c) => ReconciledWith(l, c, now)
  <2> DEFINE from == [m \in {c.loop} |-> now]
  <2>1. \A b, d \in {c} : b.loop = d.loop => b = d
    OBVIOUS
  <2>2. /\ (\A b \in {c} : b.loop = l => Outdated(b)) => LeftAlone(l)
        /\ \A b \in {c} : b.loop = l /\ ~Outdated(b) => ReconciledWith(l, b, from[l])
    <3>1. Reconcile({c}, from)
      BY <1>1
    <3> HIDE DEF from
    <3>2. QED BY <1>4, <2>1, <3>1, ReconcileByLoop
  <2>3. c.loop = l => from[l] = now
    OBVIOUS
  <2> HIDE DEF from
  <2>4. QED BY <2>2, <2>3
<1>6. /\ NotScanned(l) => NotScanned(l)'
      /\ Scanned(l) => Scanned(l)'
      /\ ScanPending(l)' => ScanPending(l)
  BY <1>2 DEF NotScanned, Scanned, ScanPending, RowsStay
<1>7. CommitPending(l)' => CommitPending(l)
  BY <1>1 DEF CommitPending
<1>8. Noted(l) /\ highest[l] \in Nat \cup {None}
  BY TypeParts DEF RegistrySound, MemoryIsSound, RegistryOK
<1>9. Committed(l) /\ (c.loop = l => c.row.scheduleRevision # row[l].scheduleRevision)
        => Committed(l)'
  BY <1>1, <1>2 DEF Committed, RowsStay
<1>10. CASE c.loop # l
  BY <1>2, <1>5, <1>6, <1>7, <1>9, <1>10, FollowedAlone
<1>11. CASE c.loop = l /\ Outdated(c)
  <2>1. c.row.scheduleRevision # row[l].scheduleRevision
    <3>1. highest[l] \in Nat /\ c.row.scheduleRevision < highest[l]
      BY <1>8, <1>11 DEF Outdated
    <3>2. highest[l] <= row[l].scheduleRevision
      BY <1>8, <3>1, NoneAssumption DEF Noted
    <3>3. c.row.scheduleRevision \in Nat /\ row[l].scheduleRevision \in Nat
      BY <1>3, <1>11 DEF Row
    <3>4. QED BY <3>1, <3>2, <3>3
  <2>2. QED BY <1>2, <1>5, <1>6, <1>7, <1>9, <1>11, <2>1, FollowedAlone
<1>12. CASE c.loop = l /\ ~Outdated(c)
  <2>1. ReconciledWith(l, c, now) /\ Exists(l)
    BY <1>3, <1>5, <1>12
  <2>2. CASE c.row.scheduleRevision = row[l].scheduleRevision
    <3>1. Newest(l)' /\ Obeyed(l)'
      BY <1>2, <1>3, <1>12, <2>1, <2>2, AcceptedObeys
    <3>2. QED BY <3>1 DEF FollowedLoop
  <2>3. CASE c.row.scheduleRevision # row[l].scheduleRevision
    <3>1. c.row.scheduleRevision < row[l].scheduleRevision
      BY <1>3, <1>12, <2>3 DEF Older, Row
    <3>2. ~Newest(l)
      <4>1. SUFFICES ASSUME Newest(l) PROVE FALSE
        OBVIOUS
      <4>2. row[l].scheduleRevision # None
        BY <1>3, <1>12, NoneAssumption DEF Row
      <4>3. QED BY <1>12, <3>1, <4>1, <4>2 DEF Newest, Outdated
    <3>3. Committed(l)
      BY <1>12, <2>1, <3>2 DEF FollowedLoop, CommitPending
    <3>4. Committed(l)'
      BY <1>9, <2>3, <3>3
    <3>5. ~Newest(l)'
      BY <1>2, <2>1, <2>3 DEF Newest, ReconciledWith, RowsStay
    <3>6. QED BY <3>4, <3>5 DEF FollowedLoop
  <2>4. QED BY <2>2, <2>3
<1>13. QED BY <1>10, <1>11, <1>12


LEMMA FollowedRegister ==
  ASSUME MemoryIsSound, RevisionsSound, RegistrySound, NEW l \in Loop, FollowedLoop(l),
         Register
  PROVE  FollowedLoop(l)'
<1>1. PICK from : /\ Reconcile(scanned, from)
                  /\ \A s \in scanned : from[s.loop] = s.row.scheduleActivatedAt
  BY RegisterReconciles DEF MemoryIsSound, ScanSound
<1>2. RowsStay /\ commits' = commits /\ scanned' = scanned
      /\ mode = "scanned" /\ mode' = "registered"
  BY DEF Register, RowsStay
<1>3. /\ \A b, c \in scanned : b.loop = c.loop => b = c
      /\ scanned \in SUBSET [loop : Loop, row : Row]
      /\ \A b \in scanned : b.row.scheduleActivatedAt \in Nat
  BY TypeParts DEF MemoryIsSound, ScanSound, ScannedOK
<1>4. /\ (\A b \in scanned : b.loop = l => Outdated(b)) => LeftAlone(l)
      /\ \A b \in scanned : b.loop = l /\ ~Outdated(b) => ReconciledWith(l, b, from[l])
  BY <1>1, <1>3, ReconcileByLoop
<1>5. \A b \in scanned : b.loop = l =>
        /\ b.row \in Row /\ row[l] \in Row /\ Exists(l) /\ Older(b.row, row[l])
        /\ b.row.scheduleRevision \in Nat /\ row[l].scheduleRevision \in Nat
  BY MemoryTypes DEF RevisionsSound, CopiesAreOlder, MemoryIsSound, LoopsExist, Row
<1>6. /\ Committed(l) <=> Committed(l)'
      /\ CommitPending(l)' <=> CommitPending(l)
      /\ ScanPending(l)' <=> ScanPending(l)
      /\ Scanned(l) <=> Scanned(l)'
  BY <1>2 DEF Committed, CommitPending, ScanPending, Scanned, RowsStay
<1>7. Noted(l) /\ highest[l] \in Nat \cup {None}
  BY TypeParts DEF RegistrySound, MemoryIsSound, RegistryOK
<1>8. CASE \A b \in scanned : b.loop = l => Outdated(b)
  <2>1. ~Scanned(l)
    <3> SUFFICES ASSUME NEW s \in scanned, s.loop = l,
                        s.row.scheduleRevision = row[l].scheduleRevision
                 PROVE  FALSE
      BY DEF Scanned
    <3>1. highest[l] \in Nat /\ s.row.scheduleRevision < highest[l]
      BY <1>7, <1>8 DEF Outdated
    <3>2. highest[l] <= row[l].scheduleRevision
      BY <1>7, <3>1, NoneAssumption DEF Noted
    <3>3. QED BY <1>5, <3>1, <3>2
  <2>2. NotScanned(l) => NotScanned(l)'
    BY <1>2, <2>1 DEF NotScanned, ActiveSchedule, RowsStay
  <2>3. QED BY <1>2, <1>4, <1>6, <1>8, <2>2, FollowedAlone
<1>9. CASE \E b \in scanned : b.loop = l /\ ~Outdated(b)
  <2>1. PICK b \in scanned : b.loop = l /\ ~Outdated(b)
    BY <1>9
  <2>2. ReconciledWith(l, b, from[l]) /\ Exists(l)
    BY <1>4, <1>5, <2>1
  <2>3. CASE b.row.scheduleRevision = row[l].scheduleRevision
    <3>1. from[l] \in Nat
      BY <1>1, <1>3, <2>1
    <3>2. Newest(l)' /\ Obeyed(l)'
      BY <1>2, <2>1, <2>2, <2>3, <3>1, AcceptedObeys
    <3>3. QED BY <3>2 DEF FollowedLoop
  <2>4. CASE b.row.scheduleRevision # row[l].scheduleRevision
    <3>1. b.row.scheduleRevision < row[l].scheduleRevision
      BY <1>5, <2>1, <2>4 DEF Older
    <3>2. ~Newest(l)
      BY <1>5, <2>1, <3>1, NoneAssumption DEF Newest, Outdated
    <3>3. ~Scanned(l)
      BY <1>3, <2>1, <2>4 DEF Scanned
    <3>4. Committed(l)'
      BY <1>6, <2>1, <2>2, <3>2, <3>3 DEF FollowedLoop, ScanPending
    <3>5. ~Newest(l)'
      BY <1>2, <2>2, <2>4 DEF Newest, ReconciledWith, RowsStay
    <3>6. QED BY <3>4, <3>5 DEF FollowedLoop
  <2>5. QED BY <2>3, <2>4
<1>10. QED BY <1>8, <1>9

\* Before the scan nothing was noted of a loop but what a handler brought.
LEMMA FollowedScan ==
  ASSUME MemoryIsSound, NEW l \in Loop, FollowedLoop(l), Scan
  PROVE  FollowedLoop(l)'
<1>1. /\ RowsStay /\ mode' = "scanned"
      /\ UNCHANGED <<commits, registry, highest, jobs>>
      /\ scanned' = {[loop |-> m, row |-> row[m]] :
                       m \in {i \in Eligible : Exists(i) /\ ActiveSchedule(row[i])}}
  BY DEF Scan, RowsStay
<1>2. LeftAlone(l) /\ (Committed(l) <=> Committed(l)')
      /\ (CommitPending(l)' <=> CommitPending(l))
  BY <1>1 DEF LeftAlone, Committed, CommitPending, RowsStay
<1>3. ScanPending(l)' => Scanned(l)'
  BY <1>1 DEF ScanPending, Scanned, RowsStay
<1>4. CASE Exists(l) /\ ActiveSchedule(row[l]) /\ l \in Eligible
  <2> DEFINE s == [loop |-> l, row |-> row[l]]
  <2>1. s \in scanned' /\ s.loop = l /\ s.row.scheduleRevision = row'[l].scheduleRevision
    BY <1>1, <1>4 DEF RowsStay
  <2>2. Scanned(l)'
    BY <2>1 DEF Scanned
  <2>3. NotScanned(l)'
    BY <1>1, <2>2 DEF NotScanned
  <2>4. QED BY <1>1, <1>2, <1>3, <2>3, FollowedAlone
<1>5. CASE ~Exists(l)
  BY <1>1, <1>5 DEF FollowedLoop, Exists, RowsStay
<1>6. CASE ~(ActiveSchedule(row[l]) /\ l \in Eligible)
  <2>1. NotScanned(l)'
    BY <1>1, <1>6 DEF NotScanned, ActiveSchedule, RowsStay
  <2>2. QED BY <1>1, <1>2, <1>3, <2>1, FollowedAlone
<1>7. QED BY <1>4, <1>5, <1>6

\* The steps of the boot that register nothing.
LEMMA FollowedModes ==
  ASSUME MemoryIsSound, NEW l \in Loop, FollowedLoop(l),
         Boot \/ TakeCutoff \/ CatchUp \/ CaughtUp
  PROVE  FollowedLoop(l)'
<1>1. RowsStay /\ UNCHANGED <<commits, registry, highest, jobs>>
  BY DEF Boot, TakeCutoff, CatchUp, CaughtUp, RowsStay
<1>2. LeftAlone(l) /\ (Committed(l) <=> Committed(l)')
      /\ (CommitPending(l)' <=> CommitPending(l))
  BY <1>1 DEF LeftAlone, Committed, CommitPending, RowsStay
<1>3. NotScanned(l) => NotScanned(l)'
  BY <1>1 DEF NotScanned, ActiveSchedule, RowsStay, Boot, TakeCutoff, CatchUp, CaughtUp
<1>4. ScanPending(l)' => ScanPending(l) /\ (Scanned(l) => Scanned(l)')
  <2>1. CASE scanned' = scanned
    BY <1>1, <2>1 DEF ScanPending, Scanned, RowsStay
  <2>2. CASE \E s \in scanned : scanned' = scanned \ {s}
    <3>1. \A s, q \in scanned : s.loop = q.loop => s = q
      BY DEF MemoryIsSound, ScanSound
    <3>2. QED BY <1>1, <2>2, <3>1 DEF ScanPending, Scanned, RowsStay
  <2>3. QED BY <2>1, <2>2 DEF Boot, TakeCutoff, CatchUp, CaughtUp
<1>5. QED BY <1>1, <1>2, <1>3, <1>4, FollowedAlone


LEMMA FollowedTimers ==
  ASSUME MemoryIsSound, NEW l \in Loop, FollowedLoop(l),
         \/ \E j \in jobs : Fire(j) \/ Overrun(j)
         \/ \E k \in ticks : TickEligibility(k) \/ TickEnqueue(k) \/ TickFails(k)
         \/ Drained \/ PassTime \/ UNCHANGED vars
  PROVE  FollowedLoop(l)'
<1>1. CASE \E j \in jobs : Fire(j) \/ Overrun(j)
  <2>1. PICK j \in jobs : Fire(j) \/ Overrun(j)
    BY <1>1
  <2> DEFINE n == [j EXCEPT !.fired = now]
  <2>2. /\ row' = row /\ UNCHANGED <<commits, scanned, registry, highest, mode>>
        /\ jobs' = (jobs \ {j}) \cup {n}
    BY <2>1 DEF Fire, Overrun, Refire
  <2>3. n.loop = j.loop
    BY MemoryTypes DEF Job
  <2> HIDE DEF n
  <2>4. JobsOf(l) = {} <=> JobsOf(l)' = {}
    BY <2>2, <2>3 DEF JobsOf
  <2>5. SchedulesStay
    BY <2>2 DEF SchedulesStay, Exists, SameSchedule
  <2>6. QED BY <2>2, <2>4, <2>5, FollowedStutters
<1>2. CASE \/ \E k \in ticks : TickEligibility(k) \/ TickFails(k)
           \/ PassTime \/ UNCHANGED vars
  <2>1. row' = row /\ UNCHANGED <<commits, scanned, registry, highest, mode, jobs>>
    BY <1>2 DEF TickEligibility, TickFails, PassTime, memory, vars
  <2>2. SchedulesStay /\ JobsOf(l) = JobsOf(l)'
    BY <2>1 DEF SchedulesStay, Exists, SameSchedule, JobsOf
  <2>3. QED BY <2>1, <2>2, FollowedStutters
<1>3. CASE \E k \in ticks : TickEnqueue(k)
  <2>1. PICK k \in ticks : TickEnqueue(k)
    BY <1>3
  <2>2. UNCHANGED <<commits, scanned, registry, highest, mode, jobs>>
    BY <2>1 DEF TickEnqueue
  <2>3. SchedulesStay
    <3>1. CASE OccurrenceAdmits(row[k.loop], [revision |-> k.revision, at |-> k.at], now)
      BY <2>1, <3>1, WatermarkedStays DEF Watermarked
    <3>2. CASE ~OccurrenceAdmits(row[k.loop], [revision |-> k.revision, at |-> k.at], now)
      <4>1. row' = row
        BY <2>1, <3>2 DEF TickEnqueue
      <4>2. QED BY <4>1 DEF SchedulesStay, Exists, SameSchedule
    <3>3. QED BY <3>1, <3>2
  <2>4. JobsOf(l) = JobsOf(l)'
    BY <2>2 DEF JobsOf
  <2>5. QED BY <2>2, <2>3, <2>4, FollowedStutters
<1>4. CASE Drained
  <2>1. RowsStay /\ UNCHANGED <<commits, registry, highest, jobs, scanned>>
        /\ mode = "stopping" /\ mode' = "drained"
    BY <1>4 DEF Drained, RowsStay
  <2>2. LeftAlone(l) /\ (Committed(l) <=> Committed(l)')
        /\ (CommitPending(l)' <=> CommitPending(l))
        /\ (ScanPending(l) <=> ScanPending(l)') /\ (Scanned(l) <=> Scanned(l)')
    BY <2>1 DEF LeftAlone, Committed, CommitPending, ScanPending, Scanned, RowsStay
  <2>3. NotScanned(l) => NotScanned(l)'
    BY <2>1 DEF NotScanned, ActiveSchedule, RowsStay
  <2>4. QED BY <2>1, <2>2, <2>3, FollowedAlone
<1>5. QED BY <1>1, <1>2, <1>3, <1>4

\* The memory of a process that is down follows nothing.
LEMMA FollowedDown ==
  ASSUME NEW l \in Loop, Down, Exists(l) => row[l].scheduleRevision \in Nat
  PROVE  FollowedLoop(l)'
<1>1. /\ row' = row /\ highest'[l] = None /\ mode' = "down"
      /\ commits' = {} /\ scanned' = {}
  BY DEF Down
<1>2. ~CommitPending(l)' /\ ~ScanPending(l)' /\ NotScanned(l)'
  BY <1>1 DEF CommitPending, ScanPending, NotScanned
<1>3. Exists(l) => ~Newest(l)'
  BY <1>1, NoneAssumption DEF Newest
<1>4. QED BY <1>1, <1>2, <1>3 DEF FollowedLoop, Exists

LEMMA FollowedStays ==
  ASSUME MemoryIsSound, RevisionsSound, RegistrySound, Followed, [Next]_vars
  PROVE  Followed'
<1>1. CASE Stop \/ Drained
  BY <1>1 DEF Stop, Drained, Followed, Stopped
<1>2. CASE Crash \/ Close
  <2> SUFFICES ASSUME NEW l \in Loop PROVE FollowedLoop(l)'
    BY DEF Followed
  <2>1. Down
    BY <1>2 DEF Crash, Close
  <2>2. Exists(l) => row[l].scheduleRevision \in Nat
    BY TypeParts DEF MemoryIsSound, RowsOK, Row, Exists
  <2>3. QED BY <2>1, <2>2, FollowedDown
<1>3. CASE ~(Stop \/ Drained \/ Crash \/ Close)
  <2>1. SUFFICES ASSUME ~Stopped', NEW l \in Loop PROVE FollowedLoop(l)'
    BY DEF Followed
  <2>2. ~Stopped
    BY <1>3, <2>1 DEF Next, ServerStep, CreateLoop, UpdateSchedule, Finish, ReopenLoop,
       Commit, ReconcileCommitted, Fire, Overrun, TickEligibility, TickEnqueue, TickFails,
       Scan, Register, TakeCutoff, CatchUp, CaughtUp, Boot, PassTime, memory, vars, Stopped
  <2>3. FollowedLoop(l)
    BY <2>2 DEF Followed
  <2>4. CASE \E m \in Loop : Handler(m)
    <3>1. PICK m \in Loop : Handler(m)
      BY <2>4
    <3>2. PICK r : NewRow(m, r) /\ Commit(m, r)
      BY <3>1, HandlerCommits, TypeParts DEF MemoryIsSound
    <3>3. r \in Row
      BY <3>2 DEF NewRow
    <3>4. QED BY <2>3, <3>2, <3>3, FollowedCommit
  <2>5. CASE ReconcileCommitted
    BY <2>2, <2>3, <2>5, FollowedReconcile
  <2>6. CASE Register
    BY <2>3, <2>6, FollowedRegister
  <2>7. CASE Scan
    BY <2>3, <2>7, FollowedScan
  <2>8. CASE Boot \/ TakeCutoff \/ CatchUp \/ CaughtUp
    BY <2>3, <2>8, FollowedModes
  <2>9. CASE \/ \E j \in jobs : Fire(j) \/ Overrun(j)
             \/ \E k \in ticks : TickEligibility(k) \/ TickEnqueue(k) \/ TickFails(k)
             \/ PassTime \/ UNCHANGED vars
    BY <2>3, <2>9, FollowedTimers
  <2>10. QED BY <1>3, <2>4, <2>5, <2>6, <2>7, <2>8, <2>9 DEF Next, ServerStep, Handler
<1>4. QED BY <1>1, <1>2, <1>3

LEMMA FollowedHolds == Spec => []Followed
<1>1. Init /\ MemoryIsSound => Followed
  <2> SUFFICES ASSUME Init, MemoryIsSound, NEW l \in Loop PROVE FollowedLoop(l)
    BY DEF Followed
  <2>1. highest[l] = None /\ ~CommitPending(l) /\ ~ScanPending(l) /\ NotScanned(l)
    BY DEF Init, CommitPending, ScanPending, NotScanned
  <2>2. Exists(l) => row[l].scheduleRevision \in Nat
    BY TypeParts DEF MemoryIsSound, RowsOK, Row, Exists
  <2>3. Exists(l) => ~Newest(l)
    BY <2>1, <2>2, NoneAssumption DEF Newest
  <2>4. QED BY <2>1, <2>3 DEF FollowedLoop
<1>2. MemoryIsSound /\ RevisionsSound /\ RegistrySound /\ Followed /\ [Next]_vars
        => Followed'
  BY FollowedStays
<1>3. QED BY <1>1, <1>2, InitSound, MemorySound, RevisionsHold, RegistryHolds, PTL DEF Spec

LEMMA MatchFollows ==
  ASSUME MemoryIsSound, RevisionsSound, RegistrySound, ModeSound, Followed
  PROVE  JobsMatchRows
<1>1. TypeOK /\ JobsAreRegistered
  BY OneJobRegistered DEF MemoryIsSound
<1>2. DrainedIsQuiet
  BY DEF ModeSound, DrainedIsQuiet, Stopped
<1>3. ASSUME mode = "running", NEW l \in Loop, Exists(l), ~CommitPending(l)
      PROVE  /\ \A j \in JobsOf(l) :
                  /\ ActiveSchedule(row[l])
                  /\ j.revision = row[l].scheduleRevision /\ j.cron = row[l].cron
             /\ ActiveSchedule(row[l]) /\ l \in Eligible => JobsOf(l) # {} \/ Refused(l)
  <2>1. FollowedLoop(l) /\ ~Committed(l)
    BY <1>3 DEF Followed, Stopped, CommitPending, Committed
  <2>2. Newest(l) => Obeyed(l)
    BY <1>3, <2>1 DEF FollowedLoop
  <2>3. ASSUME NEW j \in JobsOf(l)
        PROVE  /\ ActiveSchedule(row[l])
               /\ j.revision = row[l].scheduleRevision /\ j.cron = row[l].cron
    <3>1. /\ j \in jobs /\ j.loop = l
          /\ registry[l] = [revision |-> j.revision, cron |-> j.cron]
          /\ j.revision \in Nat /\ j.cron \in Cron
      BY <2>3, <1>1, MemoryTypes DEF JobsOf, JobsAreRegistered, Job
    <3>2. registry[l] # None
      BY <3>1, NullAssumption
    <3>3. highest[l] # None
      BY <3>2 DEF RegistrySound, Noted
    <3>4. Newest(l) /\ JobsOf(l) # {}
      BY <1>3, <2>1, <2>3, <3>3 DEF FollowedLoop
    <3>5. registry[l] = Entry(row[l])
      BY <2>2, <3>4 DEF Obeyed
    <3>6. ActiveSchedule(row[l])
      BY <3>2, <3>5 DEF Entry
    <3>7. registry[l] = [revision |-> row[l].scheduleRevision, cron |-> row[l].cron]
      BY <3>5, <3>6 DEF Entry
    <3>8. QED BY <3>1, <3>6, <3>7
  <2>4. ASSUME ActiveSchedule(row[l]), l \in Eligible
        PROVE  JobsOf(l) # {} \/ Refused(l)
    <3>1. ~NotScanned(l)
      BY <1>3, <2>4 DEF NotScanned
    <3>2. Newest(l)
      BY <1>3, <2>1, <3>1 DEF FollowedLoop
    <3>3. QED BY <2>2, <2>4, <3>2 DEF Obeyed, Refused, Newest
  <2>5. QED BY <2>3, <2>4
<1>4. QED BY <1>1, <1>2, <1>3 DEF JobsMatchRows

\* Once the handlers of a loop have resumed, in whatever order, its job is the
\* one its row asks for, unless the factory refused it; no job is left that the
\* registry does not know, and none runs after a drain.
THEOREM JobsFollow == Spec => []JobsMatchRows
BY MatchFollows, MemorySound, RevisionsHold, RegistryHolds, ModeHolds, FollowedHolds, PTL


--------------------------------------------------------------------------------
(***************************************************************************)
(* No occurrence is forgotten: every instant a timer has passed is lost,   *)
(* recorded, overtaken, or carried by a tick or by the catch-up.           *)
(***************************************************************************)

Carries(k, j, t) ==
  /\ k.loop = j.loop /\ k.revision = j.revision
  /\ k.stage = "eligibility" \/ k.at >= t

\* The catch-up of scanned row s has yet to look at instant t.
AwaitsCatchUp(s, j, t) ==
  /\ s.loop = j.loop /\ s.row.scheduleRevision = j.revision
  /\ mode = "registered" \/ (mode = "recovering" /\ t <= cutoff)

Recorded(j, t) ==
  row[j.loop].lastScheduledAt # None /\ row[j.loop].lastScheduledAt >= t

OnItsWay(j, t) ==
  \/ <<j.loop, j.revision, t>> \in lost
  \/ row[j.loop].scheduleRevision # j.revision
  \/ Recorded(j, t)
  \/ \E k \in ticks : Carries(k, j, t)
  \/ \E s \in scanned : AwaitsCatchUp(s, j, t)

\* A job answers for no instant before the activation of its schedule.
JobSound(j) ==
  /\ j.fired <= now
  /\ j.revision = row[j.loop].scheduleRevision =>
       j.from >= row[j.loop].scheduleActivatedAt

JobsSound == \A j \in jobs : JobSound(j)

AllOnTheirWay ==
  JobsSound /\ \A j \in jobs : \A t \in Between(j.cron, j.from, j.fired) : OnItsWay(j, t)

\* An instant a job has answered for, under the schedule that is still current.
LEMMA CurrentJob ==
  ASSUME MemoryIsSound, RevisionsSound, JobsSound, NEW j \in jobs,
         NEW t \in Between(j.cron, j.from, j.fired),
         row[j.loop].scheduleRevision = j.revision
  PROVE  LET r == row[j.loop] IN
         /\ r \in Row /\ j.loop \in Loop /\ Exists(j.loop)
         /\ ActiveSchedule(r) /\ r.cron = j.cron /\ j.cron \in Cron /\ ~r.completed
         /\ r.scheduleActivatedAt \in 0..now /\ t \in Nat /\ t <= now
         /\ t > r.scheduleActivatedAt
         /\ t \in Occurs[j.cron] /\ now \in Nat
         /\ r.scheduleActivatedAt # None
<1>1. /\ j.loop \in Loop /\ row[j.loop] \in Row /\ Exists(j.loop) /\ j.cron \in Cron
      /\ j.from \in Nat /\ j.fired \in Nat /\ now \in Nat
  BY MemoryTypes, TypeParts, TimeAssumption DEF MemoryIsSound, LoopsExist, TimeOK, Job
<1>2. ActiveSchedule(row[j.loop]) /\ row[j.loop].cron = j.cron
  BY DEF RevisionsSound, WorkIsDerived, DerivedFrom
<1>3. RowSound(row[j.loop], now)
  BY <1>1 DEF MemoryIsSound, RowsSound
<1>4. /\ row[j.loop].scheduleActivatedAt \in 0..now /\ ~row[j.loop].completed
  BY <1>2, <1>3 DEF RowSound, ActiveSchedule
<1>5. j.fired <= now /\ j.from >= row[j.loop].scheduleActivatedAt
  BY DEF JobsSound, JobSound
<1>6. t \in Occurs[j.cron] /\ t > j.from /\ t <= j.fired /\ t \in Nat
  BY <1>1, OccursAssumption DEF Between
<1>7. row[j.loop].scheduleActivatedAt # None
  BY <1>4, NoneAssumption
<1>8. t <= now /\ t > row[j.loop].scheduleActivatedAt
  BY <1>1, <1>4, <1>5, <1>6
<1>9. QED BY <1>1, <1>2, <1>4, <1>6, <1>7, <1>8

LEMMA OvertakenStays ==
  ASSUME MemoryIsSound, RevisionsSound, [Next]_vars, NEW j \in jobs,
         row[j.loop].scheduleRevision # j.revision
  PROVE  row'[j.loop].scheduleRevision # j.revision
<1>1. /\ j.loop \in Loop /\ row[j.loop] \in Row /\ j.revision \in Nat
      /\ j.revision <= row[j.loop].scheduleRevision
  BY MemoryTypes DEF RevisionsSound, WorkIsDerived, DerivedFrom
<1>2. row'[j.loop] \in Row /\ Older(row[j.loop], row'[j.loop])
  BY <1>1, NextMoves, AgedRows
<1>3. QED BY <1>1, <1>2 DEF Older, Row

LEMMA RecordedStays ==
  ASSUME MemoryIsSound, [Next]_vars, NEW j \in jobs, NEW t \in Nat, Recorded(j, t),
         row[j.loop].scheduleRevision = j.revision
  PROVE  Recorded(j, t)' \/ row'[j.loop].scheduleRevision # j.revision
<1>1. /\ j.loop \in Loop /\ row[j.loop] \in Row
  BY MemoryTypes
<1>2. row'[j.loop] \in Row /\ Older(row[j.loop], row'[j.loop])
  BY <1>1, NextMoves, AgedRows
<1>3. QED BY <1>1, <1>2 DEF Older, Row, Recorded

LEMMA TickEnds ==
  ASSUME [Next]_vars, ~Down, NEW k \in ticks, k \notin ticks'
  PROVE  TickEligibility(k) \/ TickEnqueue(k) \/ TickFails(k)
<1>1. CASE \E m \in Loop : CreateLoop(m) \/ UpdateSchedule(m) \/ Finish(m) \/ ReopenLoop(m)
  BY <1>1 DEF CreateLoop, UpdateSchedule, Finish, ReopenLoop, Commit
<1>2. CASE ReconcileCommitted \/ \E j \in jobs : Fire(j) \/ Overrun(j)
  BY <1>2 DEF ReconcileCommitted, Fire, Overrun
<1>3. CASE \E i \in ticks : TickEligibility(i) \/ TickEnqueue(i) \/ TickFails(i)
  BY <1>3 DEF TickEligibility, TickEnqueue, TickFails
<1>4. CASE Scan \/ Register \/ TakeCutoff \/ CatchUp \/ CaughtUp \/ Drained \/ Boot \/ Stop
  BY <1>4 DEF Scan, Register, TakeCutoff, CatchUp, CaughtUp, Drained, Boot, Stop
<1>5. CASE PassTime \/ UNCHANGED vars
  BY <1>5 DEF PassTime, memory, vars
<1>6. QED BY <1>1, <1>2, <1>3, <1>4, <1>5 DEF Next, ServerStep, Close, Crash

LEMMA LostGrows ==
  ASSUME [Next]_vars, ~Down
  PROVE  lost \subseteq lost'
<1>1. CASE \E m \in Loop : CreateLoop(m) \/ UpdateSchedule(m) \/ Finish(m) \/ ReopenLoop(m)
  BY <1>1 DEF CreateLoop, UpdateSchedule, Finish, ReopenLoop, Commit
<1>2. CASE ReconcileCommitted \/ \E j \in jobs : Fire(j) \/ Overrun(j)
  BY <1>2 DEF ReconcileCommitted, Fire, Overrun, Lose
<1>3. CASE \E i \in ticks : TickEligibility(i) \/ TickEnqueue(i) \/ TickFails(i)
  BY <1>3 DEF TickEligibility, TickEnqueue, TickFails, Lose
<1>4. CASE Scan \/ Register \/ TakeCutoff \/ CatchUp \/ CaughtUp \/ Drained \/ Boot \/ Stop
  BY <1>4 DEF Scan, Register, TakeCutoff, CatchUp, CaughtUp, Drained, Boot, Stop
<1>5. CASE PassTime \/ UNCHANGED vars
  BY <1>5 DEF PassTime, memory, vars
<1>6. QED BY <1>1, <1>2, <1>3, <1>4, <1>5 DEF Next, ServerStep, Close, Crash

LEMMA ScanWaits ==
  ASSUME [Next]_vars, ~Down, mode \in {"registered", "recovering"}, NEW s \in scanned
  PROVE  \/ s \in scanned' /\ mode' = mode /\ cutoff' = cutoff
         \/ TakeCutoff \/ CatchUp
<1>1. CASE \E m \in Loop : CreateLoop(m) \/ UpdateSchedule(m) \/ Finish(m) \/ ReopenLoop(m)
  BY <1>1 DEF CreateLoop, UpdateSchedule, Finish, ReopenLoop, Commit
<1>2. CASE ReconcileCommitted \/ \E j \in jobs : Fire(j) \/ Overrun(j)
  BY <1>2 DEF ReconcileCommitted, Fire, Overrun
<1>3. CASE \E i \in ticks : TickEligibility(i) \/ TickEnqueue(i) \/ TickFails(i)
  BY <1>3 DEF TickEligibility, TickEnqueue, TickFails
<1>4. CASE Scan \/ Register \/ CaughtUp \/ Drained \/ Boot \/ Stop
  BY <1>4 DEF Scan, Register, CaughtUp, Drained, Boot, Stop
<1>5. CASE PassTime \/ UNCHANGED vars
  BY <1>5 DEF PassTime, memory, vars
<1>6. QED BY <1>1, <1>2, <1>3, <1>4, <1>5 DEF Next, ServerStep, Close, Crash


\* A tick that ends has chosen, recorded or lost what it carried.
LEMMA TickDelivers ==
  ASSUME MemoryIsSound, RevisionsSound, JobsSound, [Next]_vars, ~Down,
         NEW j \in jobs, NEW t \in Between(j.cron, j.from, j.fired),
         row[j.loop].scheduleRevision = j.revision,
         NEW k \in ticks, Carries(k, j, t)
  PROVE  OnItsWay(j, t)'
<1> DEFINE r == row[j.loop]
<1>1. /\ r \in Row /\ j.loop \in Loop /\ Exists(j.loop)
      /\ ActiveSchedule(r) /\ r.cron = j.cron /\ j.cron \in Cron /\ ~r.completed
      /\ r.scheduleActivatedAt \in 0..now /\ t \in Nat /\ t <= now
      /\ t > r.scheduleActivatedAt
      /\ t \in Occurs[j.cron] /\ now \in Nat
      /\ r.scheduleActivatedAt # None
  BY CurrentJob
<1>2. k \in Tick /\ k.cron = j.cron /\ k.revision = r.scheduleRevision /\ k.at \in Nat
  BY MemoryTypes, TimeAssumption DEF Carries, RevisionsSound, WorkIsDerived, DerivedFrom, Tick
<1>3. CASE k \in ticks'
  BY <1>3 DEF OnItsWay, Carries
<1>4. CASE k \notin ticks'
  <2>1. TickEligibility(k) \/ TickEnqueue(k) \/ TickFails(k)
    BY <1>4, TickEnds
  <2>2. CASE TickEligibility(k)
    <3>1. t \in UpTo(k.cron, now)
      BY <1>1, <1>2 DEF UpTo
    <3>2. CASE Stopped \/ k.loop \notin Eligible
      <4>1. <<k.loop, k.revision, t>> \in lost'
        BY <2>2, <3>1, <3>2 DEF TickEligibility, Lose
      <4>2. QED BY <4>1 DEF OnItsWay, Carries
    <3>3. CASE ~(Stopped \/ k.loop \notin Eligible)
      <4> DEFINE n == [k EXCEPT !.stage = "enqueue", !.at = TickOccurrence(k)]
      <4>1. n \in ticks'
        BY <2>2, <3>3 DEF TickEligibility
      <4>2. t <= LatestOccurrence(k.cron, now)
        BY <1>1, <1>2, <3>1, LatestIn
      <4>3. LatestOccurrence(k.cron, now) \in UpTo(k.cron, now)
        BY <1>1, <1>2, <3>1, LatestIn
      <4>4. LatestOccurrence(k.cron, now) \in Nat
        BY <1>1, <1>2, <4>3, UpToBounded
      <4>5. n.loop = k.loop /\ n.revision = k.revision /\ n.at = LatestOccurrence(k.cron, now)
        BY <1>2 DEF Tick, TickOccurrence
      <4> HIDE DEF n
      <4>6. n.at >= t
        BY <1>1, <4>2, <4>4, <4>5
      <4>7. n.loop = j.loop /\ n.revision = j.revision
        BY <4>5 DEF Carries
      <4>8. QED BY <4>1, <4>6, <4>7 DEF OnItsWay, Carries
    <3>4. QED BY <3>2, <3>3
  <2>3. CASE TickEnqueue(k)
    <3>1. k.stage = "enqueue" /\ k.loop = j.loop /\ k.at >= t
      BY <2>3 DEF TickEnqueue, Carries
    <3>2. k.at \in UpTo(k.cron, now)
      BY <3>1 DEF MemoryIsSound, TicksSound
    <3>3. CASE OccurrenceAdmits(r, [revision |-> k.revision, at |-> k.at], now)
      <4>1. row' = [row EXCEPT ![k.loop].lastScheduledAt = k.at]
        BY <2>3, <3>1, <3>3 DEF TickEnqueue
      <4>2. row'[j.loop].lastScheduledAt = k.at
        BY <1>1, <3>1, <4>1, TypeParts DEF MemoryIsSound, RowsOK, Row
      <4>3. k.at # None
        BY <1>2, NoneAssumption
      <4>4. QED BY <3>1, <4>2, <4>3 DEF OnItsWay, Recorded
    <3>4. CASE ~OccurrenceAdmits(r, [revision |-> k.revision, at |-> k.at], now)
      <4>1. row' = row
        BY <2>3, <3>1, <3>4 DEF TickEnqueue
      <4>2. k.at \in Occurs[r.cron] /\ k.at <= now
        BY <1>1, <1>2, <3>2 DEF UpTo
      <4>3. k.at > r.scheduleActivatedAt
        BY <1>1, <1>2, <3>1
      <4>4. r.lastScheduledAt # None /\ ~(k.at > r.lastScheduledAt)
        BY <1>1, <1>2, <3>4, <4>2, <4>3 DEF OccurrenceAdmits
      <4>5. r.lastScheduledAt \in Nat
        BY <1>1, <4>4 DEF Row
      <4>6. r.lastScheduledAt >= t
        BY <1>1, <1>2, <3>1, <4>4, <4>5
      <4>7. QED BY <4>1, <4>4, <4>6 DEF OnItsWay, Recorded
    <3>5. QED BY <3>3, <3>4
  <2>4. CASE TickFails(k)
    <3>1. k.stage = "enqueue" /\ k.loop = j.loop /\ k.at >= t
      BY <2>4 DEF TickFails, Carries
    <3>2. t \in UpTo(k.cron, k.at)
      BY <1>1, <1>2, <3>1 DEF UpTo
    <3>3. <<k.loop, k.revision, t>> \in lost'
      BY <2>4, <3>2 DEF TickFails, Lose
    <3>4. QED BY <3>3 DEF OnItsWay, Carries
  <2>5. QED BY <2>1, <2>2, <2>3, <2>4
<1>5. QED BY <1>3, <1>4

\* The catch-up looks at a row: what its job had passed before the cutoff is
\* recorded or enqueued.
LEMMA CatchUpDelivers ==
  ASSUME MemoryIsSound, RevisionsSound, RegistrySound, JobsSound, [Next]_vars, ~Down,
         NEW j \in jobs, NEW t \in Between(j.cron, j.from, j.fired),
         row[j.loop].scheduleRevision = j.revision,
         NEW s \in scanned, AwaitsCatchUp(s, j, t)
  PROVE  OnItsWay(j, t)'
<1> DEFINE r == row[j.loop]
<1>1. /\ r \in Row /\ j.loop \in Loop /\ Exists(j.loop)
      /\ ActiveSchedule(r) /\ r.cron = j.cron /\ j.cron \in Cron /\ ~r.completed
      /\ r.scheduleActivatedAt \in 0..now /\ t \in Nat /\ t <= now
      /\ t > r.scheduleActivatedAt
      /\ t \in Occurs[j.cron] /\ now \in Nat
      /\ r.scheduleActivatedAt # None
  BY CurrentJob
<1>2. s.loop = j.loop /\ s.row.scheduleRevision = r.scheduleRevision
      /\ mode \in {"registered", "recovering"}
  BY DEF AwaitsCatchUp
<1>3. CASE s \in scanned' /\ mode' = mode /\ cutoff' = cutoff
  BY <1>3 DEF OnItsWay, AwaitsCatchUp
<1>4. CASE TakeCutoff
  <2>1. s \in scanned' /\ mode' = "recovering" /\ cutoff' = now
    BY <1>4 DEF TakeCutoff
  <2>2. QED BY <1>1, <2>1 DEF OnItsWay, AwaitsCatchUp
<1>5. CASE CatchUp /\ s \notin scanned'
  <2>1. /\ mode = "recovering" /\ t <= cutoff
        /\ row' = row
        /\ ticks' = ticks \cup
            IF /\ registry[s.loop] # None
               /\ registry[s.loop].revision = s.row.scheduleRevision
               /\ Missed(s.row) # {}
            THEN {[kind |-> "recovery", loop |-> s.loop,
                   revision |-> s.row.scheduleRevision, cron |-> s.row.cron,
                   stage |-> "enqueue", at |-> Max(Missed(s.row))]}
            ELSE {}
    BY <1>5 DEF CatchUp, AwaitsCatchUp
  <2>2. s.row \in Row /\ ActiveSchedule(s.row) /\ Older(s.row, r)
    BY <1>2, MemoryTypes DEF RevisionsSound, CopiesAreOlder
  <2>3. s.row.cron = j.cron /\ s.row.scheduleActivatedAt = r.scheduleActivatedAt
    BY <1>1, <1>2, <2>2 DEF Older
  <2>4. CASE s.row.lastScheduledAt # None /\ t <= s.row.lastScheduledAt
    <3>1. r.lastScheduledAt # None /\ s.row.lastScheduledAt <= r.lastScheduledAt
      BY <1>2, <2>2, <2>4 DEF Older
    <3>2. s.row.lastScheduledAt \in Nat /\ r.lastScheduledAt \in Nat
      BY <1>1, <2>2, <2>4, <3>1 DEF Row
    <3>3. r.lastScheduledAt >= t
      BY <1>1, <2>4, <3>1, <3>2
    <3>4. QED BY <2>1, <3>1, <3>3 DEF OnItsWay, Recorded
  <2>5. CASE ~(s.row.lastScheduledAt # None /\ t <= s.row.lastScheduledAt)
    <3>1. s.row.lastScheduledAt \in Nat \cup {None}
      BY <2>2 DEF Row
    <3>2. s.row.lastScheduledAt # None => t > s.row.lastScheduledAt
      BY <1>1, <2>5, <3>1
    <3>3. t \in Missed(s.row)
      BY <1>1, <2>1, <2>3, <3>2 DEF Missed, Between
    <3>4. /\ registry[s.loop] # None
          /\ registry[s.loop].revision = s.row.scheduleRevision
      <4>1. registry[j.loop] = [revision |-> j.revision, cron |-> j.cron]
        BY OneJobRegistered DEF JobsAreRegistered
      <4>2. j.revision \in Nat
        BY MemoryTypes
      <4>3. QED BY <1>1, <1>2, <4>1, <4>2, NullAssumption
    <3> DEFINE k == [kind |-> "recovery", loop |-> s.loop,
                     revision |-> s.row.scheduleRevision, cron |-> s.row.cron,
                     stage |-> "enqueue", at |-> Max(Missed(s.row))]
    <3>5. k \in ticks'
      BY <2>1, <3>3, <3>4
    <3>6. TimeOK /\ cutoff <= now
      BY TypeParts DEF MemoryIsSound, TicksSound
    <3>7. /\ Max(Missed(s.row)) \in UpTo(s.row.cron, now)
          /\ t <= Max(Missed(s.row))
      BY <2>2, <3>3, <3>6, MissedIn
    <3>8. Max(Missed(s.row)) \in Nat
      BY <1>1, <2>3, <3>7, UpToBounded
    <3>9. k.loop = j.loop /\ k.revision = j.revision /\ k.at >= t
      BY <1>1, <1>2, <3>7, <3>8
    <3> HIDE DEF k
    <3>10. QED BY <3>5, <3>9 DEF OnItsWay, Carries
  <2>6. QED BY <2>4, <2>5
<1>6. CASE CatchUp /\ s \in scanned'
  BY <1>6 DEF CatchUp, OnItsWay, AwaitsCatchUp
<1>7. QED BY <1>2, <1>3, <1>4, <1>5, <1>6, ScanWaits

LEMMA WayStays ==
  ASSUME MemoryIsSound, RevisionsSound, RegistrySound, JobsSound, [Next]_vars, ~Down,
         NEW j \in jobs, NEW t \in Between(j.cron, j.from, j.fired), OnItsWay(j, t)
  PROVE  OnItsWay(j, t)'
<1>1. CASE row[j.loop].scheduleRevision # j.revision
  BY <1>1, OvertakenStays DEF OnItsWay
<1>2. CASE row[j.loop].scheduleRevision = j.revision
  <2>1. CASE <<j.loop, j.revision, t>> \in lost
    BY <2>1, LostGrows DEF OnItsWay
  <2>2. CASE Recorded(j, t)
    <3>1. t \in Nat
      BY <1>2, CurrentJob
    <3>2. QED BY <1>2, <2>2, <3>1, RecordedStays DEF OnItsWay
  <2>3. CASE \E k \in ticks : Carries(k, j, t)
    BY <1>2, <2>3, TickDelivers
  <2>4. CASE \E s \in scanned : AwaitsCatchUp(s, j, t)
    BY <1>2, <2>4, CatchUpDelivers
  <2>5. QED BY <1>2, <2>1, <2>2, <2>3, <2>4 DEF OnItsWay
<1>3. QED BY <1>1, <1>2


LEMMA JobsSoundStays ==
  ASSUME MemoryIsSound, RevisionsSound, JobsSound, [Next]_vars
  PROVE  JobsSound'
<1> SUFFICES ASSUME NEW j \in jobs' PROVE JobSound(j)'
  BY DEF JobsSound
<1>1. /\ now \in Nat /\ now' \in Nat /\ now' >= now
  BY NextRows, TypeParts, TimeAssumption DEF MemoryIsSound, TimeOK
<1>2. CASE j \in jobs
  <2>1. /\ j.loop \in Loop /\ row[j.loop] \in Row /\ j.revision \in Nat
        /\ j.revision <= row[j.loop].scheduleRevision /\ JobSound(j)
        /\ j.fired \in Nat /\ j.from \in Nat
    BY <1>2, MemoryTypes, TimeAssumption
       DEF RevisionsSound, WorkIsDerived, DerivedFrom, JobsSound, Job
  <2>2. row'[j.loop] \in Row /\ Older(row[j.loop], row'[j.loop])
    BY <2>1, NextMoves, AgedRows
  <2>3. j.fired <= now'
    BY <1>1, <2>1 DEF JobSound
  <2>4. CASE j.revision = row'[j.loop].scheduleRevision
    <3>1. row[j.loop].scheduleRevision = j.revision
      BY <2>1, <2>2, <2>4 DEF Older, Row
    <3>2. j.from >= row'[j.loop].scheduleActivatedAt
      BY <2>1, <2>2, <2>4, <3>1 DEF Older, JobSound
    <3>3. QED BY <2>3, <3>2 DEF JobSound
  <2>5. QED BY <2>3, <2>4 DEF JobSound
<1>3. CASE RowsStay /\ Refired(j)
  <2>1. PICK i \in jobs : j = [i EXCEPT !.fired = now]
    BY <1>3 DEF Refired
  <2>2. j.loop = i.loop /\ j.revision = i.revision /\ j.from = i.from /\ j.fired = now
    BY <2>1, MemoryTypes DEF Job
  <2>3. JobSound(i)
    BY DEF JobsSound
  <2>4. QED BY <1>1, <1>3, <2>2, <2>3 DEF JobSound, RowsStay
<1>4. CASE RowsStay /\ Registered(j)
  <2>1. PICK b \in commits \cup scanned :
          /\ ActiveSchedule(b.row)
          /\ \/ j = NewJob(b, now)
             \/ b \in scanned /\ j = NewJob(b, b.row.scheduleActivatedAt)
    BY <1>4 DEF Registered
  <2>2. /\ b.loop \in Loop /\ b.row \in Row /\ row[b.loop] \in Row /\ Exists(b.loop)
        /\ Older(b.row, row[b.loop]) /\ RowSound(row[b.loop], now)
    BY MemoryTypes DEF RevisionsSound, CopiesAreOlder, MemoryIsSound, LoopsExist, RowsSound
  <2>3. /\ j.loop = b.loop /\ j.revision = b.row.scheduleRevision /\ j.fired = now
        /\ j.from \in {now, b.row.scheduleActivatedAt}
    BY <2>1 DEF NewJob
  <2>4. ASSUME j.revision = row[j.loop].scheduleRevision
        PROVE  j.from >= row[j.loop].scheduleActivatedAt
    <3>1. /\ b.row.scheduleActivatedAt = row[b.loop].scheduleActivatedAt
          /\ ActiveSchedule(row[b.loop])
      BY <2>1, <2>2, <2>3, <2>4 DEF Older, ActiveSchedule
    <3>2. row[b.loop].scheduleActivatedAt \in 0..now
      BY <2>2, <3>1 DEF RowSound
    <3>3. QED BY <1>1, <2>3, <3>1, <3>2
  <2>5. QED BY <1>1, <1>4, <2>3, <2>4 DEF JobSound, RowsStay
<1>5. QED BY <1>2, <1>3, <1>4, NextMoves DEF JobsMove

\* A timer that fires or overruns leaves every instant it passes to a tick or
\* gives it up.
LEMMA FiredWay ==
  ASSUME MemoryIsSound, RevisionsSound, RegistrySound, AllOnTheirWay, [Next]_vars, ~Down,
         NEW i \in jobs, Fire(i) \/ Overrun(i),
         NEW t \in Between(i.cron, i.from, now)
  PROVE  OnItsWay(i, t)'
<1>1. t \in Nat /\ i.fired \in Nat /\ t <= now /\ t > i.from /\ t \in Occurs[i.cron]
  BY MemoryTypes, OccursAssumption, TimeAssumption DEF Job, Between
<1>2. CASE Fire(i)
  <2> DEFINE k == [kind |-> "timer", loop |-> i.loop, revision |-> i.revision,
                   cron |-> i.cron, stage |-> "eligibility", at |-> 0]
  <2>1. k \in ticks' /\ k.loop = i.loop /\ k.revision = i.revision
        /\ k.stage = "eligibility"
    BY <1>2 DEF Fire
  <2> HIDE DEF k
  <2>2. QED BY <2>1 DEF OnItsWay, Carries
<1>3. CASE Overrun(i)
  <2>1. CASE \E k \in Busy(i) : k.stage = "eligibility"
    <3>1. PICK k \in Busy(i) : k.stage = "eligibility"
      BY <2>1
    <3>2. k \in ticks' /\ k.loop = i.loop /\ k.revision = i.revision
      BY <1>3, <3>1 DEF Overrun, Busy
    <3>3. QED BY <3>1, <3>2 DEF OnItsWay, Carries
  <2>2. CASE ~\E k \in Busy(i) : k.stage = "eligibility"
    <3>1. CASE t <= i.fired
      <4>1. t \in Between(i.cron, i.from, i.fired)
        BY <1>1, <3>1 DEF Between
      <4>2. OnItsWay(i, t)
        BY <4>1 DEF AllOnTheirWay
      <4>3. QED BY <4>1, <4>2, WayStays DEF AllOnTheirWay
    <3>2. CASE t > i.fired
      <4>1. t \in Due(i)
        BY <1>1, <3>2 DEF Due, Between
      <4>2. <<i.loop, i.revision, t>> \in lost'
        BY <1>3, <2>2, <4>1 DEF Overrun, Lose
      <4>3. QED BY <4>2 DEF OnItsWay
    <3>3. QED BY <1>1, <3>1, <3>2
  <2>3. QED BY <2>1, <2>2
<1>4. QED BY <1>2, <1>3

\* A job that reconcile starts from a committed row has passed no instant yet.
LEMMA CommittedWay ==
  ASSUME MemoryIsSound, ReconcileCommitted, NEW j \in jobs', j \notin jobs
  PROVE  Between(j.cron, j.from, j.fired) = {}
<1>1. ~Stopped
  BY DEF ReconcileCommitted
<1>2. PICK c \in commits : Reconcile({c}, [l \in {c.loop} |-> now])
  BY <1>1 DEF ReconcileCommitted
<1> DEFINE from == [l \in {c.loop} |-> now]
<1>3. Reconcile({c}, from) /\ from[c.loop] = now
  BY <1>2
<1> HIDE DEF from
<1>4. j = NewJob(c, from[c.loop]) /\ ActiveSchedule(c.row)
  BY <1>3, ReconcileJobs
<1>5. j.fired = now /\ j.from = now
  BY <1>3, <1>4 DEF NewJob
<1>6. now \in Nat
  BY TypeParts, TimeAssumption DEF MemoryIsSound, TimeOK
<1>7. Between(j.cron, now, now) = {}
  <2> SUFFICES ASSUME NEW t, now < t, t <= now, t \in Occurs[j.cron] PROVE FALSE
    BY DEF Between
  <2>1. j.cron = c.row.cron /\ c.row \in Row
    BY <1>4, MemoryTypes DEF NewJob
  <2>2. j.cron \in Cron
    BY <1>4, <2>1 DEF ActiveSchedule, Row
  <2>3. t \in Nat
    BY <2>2, OccursAssumption
  <2>4. QED BY <1>6, <2>3
<1>8. QED BY <1>5, <1>7

\* The instants a job that the boot registers answers for await the catch-up.
LEMMA RegisteredWay ==
  ASSUME MemoryIsSound, Register, NEW j \in jobs', j \notin jobs, NEW t
  PROVE  OnItsWay(j, t)'
<1>1. PICK from : Reconcile(scanned, from)
  BY RegisterReconciles
<1>2. PICK s \in scanned : j = NewJob(s, from[s.loop])
  BY <1>1, ReconcileJobs
<1>3. /\ s \in scanned' /\ mode' = "registered"
      /\ s.loop = j.loop /\ s.row.scheduleRevision = j.revision
  BY <1>2 DEF Register, NewJob
<1>4. QED BY <1>3 DEF OnItsWay, AwaitsCatchUp

LEMMA NewJobs ==
  ASSUME [Next]_vars, ~Down, NEW j \in jobs', j \notin jobs
  PROVE  \/ \E i \in jobs : (Fire(i) \/ Overrun(i)) /\ j = [i EXCEPT !.fired = now]
         \/ ReconcileCommitted \/ Register
<1>1. CASE \E m \in Loop : CreateLoop(m) \/ UpdateSchedule(m) \/ Finish(m) \/ ReopenLoop(m)
  BY <1>1 DEF CreateLoop, UpdateSchedule, Finish, ReopenLoop, Commit
<1>2. CASE \E i \in jobs : Fire(i) \/ Overrun(i)
  BY <1>2 DEF Fire, Overrun, Refire
<1>3. CASE \E i \in ticks : TickEligibility(i) \/ TickEnqueue(i) \/ TickFails(i)
  BY <1>3 DEF TickEligibility, TickEnqueue, TickFails
<1>4. CASE Scan \/ TakeCutoff \/ CatchUp \/ CaughtUp \/ Drained \/ Boot \/ Stop
  BY <1>4 DEF Scan, TakeCutoff, CatchUp, CaughtUp, Drained, Boot, Stop
<1>5. CASE PassTime \/ UNCHANGED vars
  BY <1>5 DEF PassTime, memory, vars
<1>6. QED BY <1>1, <1>2, <1>3, <1>4, <1>5 DEF Next, ServerStep, Close, Crash

LEMMA OnTheirWayStays ==
  ASSUME MemoryIsSound, RevisionsSound, RegistrySound, AllOnTheirWay, [Next]_vars
  PROVE  AllOnTheirWay'
<1>1. CASE Down
  BY <1>1 DEF Down, AllOnTheirWay, JobsSound
<1>2. CASE ~Down
  <2> SUFFICES ASSUME NEW j \in jobs', NEW t \in Between(j.cron, j.from, j.fired)
               PROVE  OnItsWay(j, t)'
    BY JobsSoundStays DEF AllOnTheirWay, Between
  <2>1. CASE j \in jobs
    BY <1>2, <2>1, WayStays DEF AllOnTheirWay
  <2>2. CASE \E i \in jobs : (Fire(i) \/ Overrun(i)) /\ j = [i EXCEPT !.fired = now]
    <3>1. PICK i \in jobs : (Fire(i) \/ Overrun(i)) /\ j = [i EXCEPT !.fired = now]
      BY <2>2
    <3>2. /\ j.loop = i.loop /\ j.revision = i.revision /\ j.cron = i.cron
          /\ j.from = i.from /\ j.fired = now
      BY <3>1, MemoryTypes DEF Job
    <3>3. t \in Between(i.cron, i.from, now)
      BY <3>2
    <3>4. OnItsWay(i, t)'
      BY <1>2, <3>1, <3>3, FiredWay
    <3>5. QED BY <3>2, <3>4 DEF OnItsWay, Recorded, Carries, AwaitsCatchUp
  <2>3. CASE j \notin jobs /\ (ReconcileCommitted \/ Register)
    BY <2>3, CommittedWay, RegisteredWay
  <2>4. QED BY <1>2, <2>1, <2>2, <2>3, NewJobs
<1>3. QED BY <1>1, <1>2

LEMMA AllOnTheirWayHolds == Spec => []AllOnTheirWay
<1>1. Init => AllOnTheirWay
  BY DEF Init, AllOnTheirWay, JobsSound
<1>2. MemoryIsSound /\ RevisionsSound /\ RegistrySound /\ AllOnTheirWay /\ [Next]_vars
        => AllOnTheirWay'
  BY OnTheirWayStays
<1>3. QED BY <1>1, <1>2, MemorySound, RevisionsHold, RegistryHolds, PTL DEF Spec

LEMMA OwedIsOnItsWay ==
  ASSUME MemoryIsSound, RevisionsSound, AllOnTheirWay PROVE NoOccurrenceIsForgotten
<1> SUFFICES ASSUME NEW l \in Loop, NEW t \in 0..MaxTime, Owed(l, t),
                    ~\E j \in JobsOf(l) : t \in Due(j)
             PROVE  \E k \in ticks :
                      /\ k.loop = l /\ k.revision = row[l].scheduleRevision
                      /\ k.stage = "eligibility" \/ k.at >= t
  BY DEF NoOccurrenceIsForgotten
<1>1. PICK j \in JobsOf(l) : /\ j.revision = row[l].scheduleRevision
                             /\ t \in Between(j.cron, j.from, now)
                             /\ <<l, j.revision, t>> \notin lost
  BY DEF Owed
<1>2. j \in jobs /\ j.loop = l /\ j.fired \in Nat /\ t \in Nat /\ now \in Nat
  BY MemoryTypes, TypeParts, TimeAssumption DEF JobsOf, Job, MemoryIsSound, TimeOK
<1>3. t \in Between(j.cron, j.from, j.fired)
  BY <1>1, <1>2 DEF Due, Between
<1>4. OnItsWay(j, t)
  BY <1>2, <1>3 DEF AllOnTheirWay
<1>5. ~Recorded(j, t)
  <2>1. row[l] \in Row
    BY <1>2, MemoryTypes
  <2>2. QED BY <1>2, <2>1 DEF Recorded, Owed, Row
<1>6. \A s \in scanned : ~AwaitsCatchUp(s, j, t)
  BY DEF Owed, AwaitsCatchUp
<1>7. QED BY <1>1, <1>2, <1>4, <1>5, <1>6 DEF OnItsWay, Carries

\* An occurrence that is owed is on its way: its timer is due, or a callback in
\* flight has yet to choose an occurrence or has chosen this one or a later, and
\* nothing falls between the catch-up of a boot and the first timers.
THEOREM OccurrencesOnTheirWay == Spec => []NoOccurrenceIsForgotten
BY OwedIsOnItsWay, MemorySound, RevisionsHold, AllOnTheirWayHolds, PTL

================================================================================
