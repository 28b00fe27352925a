------------------------------ MODULE Scheduler ------------------------------
(***************************************************************************)
(* The server's scheduler: the in-memory registry of cron jobs, the ticks  *)
(* they start, the reconcile that follows each committed schedule change,  *)
(* the catch-up after a boot, and the drain at a shutdown.                 *)
(*                                                                         *)
(* A schedule write and an enqueue are single steps here; that they are    *)
(* atomic in spite of their two phases is RunLifecycle's business.  An     *)
(* enqueue is only its watermark: a run that is skipped because one is     *)
(* running moves it all the same.  The timers are the cron library's: a    *)
(* job fires at most once per occurrence, late rather than never, and is   *)
(* skipped while its previous callback is pending.                         *)
(***************************************************************************)
EXTENDS LoopRow, FiniteSetsExt

CONSTANTS
  Loop,      \* loops that exist or may be created
  Eligible,  \* loops whose machine is claimed and not revoked
  Flaky,     \* loops for which the cron factory may refuse a job
  MaxTime    \* bound: the last instant

ASSUME LoopsAssumption ==
  Eligible \subseteq Loop /\ Flaky \subseteq Loop /\ None \notin Loop
ASSUME TimeAssumption == MaxTime \in Nat
ASSUME NullAssumption ==
  None \notin Row /\ None \notin [revision : Nat, cron : Cron]

VARIABLES
  row,       \* the loops table; None where no loop was created
  now,       \* the clock
  mode,      \* where the server process is in its life
  commits,   \* rows that were committed and await their reconcile
  registry,  \* the registered schedule of each loop
  highest,   \* highestRevisions
  jobs,      \* the live cron jobs
  ticks,     \* callbacks and catch-up enqueues in flight
  scanned,   \* rows of the startup scan that still await their catch-up
  cutoff,    \* recoveryCutoff
  lost       \* history: occurrences given up in this life of the server

vars == <<row, now, mode, commits, registry, highest, jobs, ticks, scanned,
          cutoff, lost>>
memory == <<mode, commits, registry, highest, jobs, ticks, scanned, cutoff,
            lost>>

\* booting: the listener is bound, the scan is under way.  registered: between
\* the registration and the cutoff, with no other code running.  drained: the
\* scheduler has stopped, the listener is about to close.
Mode == {"down", "booting", "scanned", "registered", "recovering", "running",
         "stopping", "drained"}

\* fired is the instant the timer was set at, from the first instant whose
\* occurrences the job answers for (history).
Job == [loop: Loop, revision: Nat, cron: Cron, fired: 0..MaxTime,
        from: 0..MaxTime]

\* A tick reads the machine's eligibility, then enqueues for instant at.
Tick == [kind: {"timer", "recovery"}, loop: Loop, revision: Nat, cron: Cron,
         stage: {"eligibility", "enqueue"}, at: 0..MaxTime]

Exists(l) == row[l] # None

Stopped == mode \in {"stopping", "drained"}

\* The process serves requests and runs callbacks.
Serving == mode \notin {"down", "registered"}

Between(c, from, to) == {t \in Occurs[c] : from < t /\ t <= to}

UpTo(c, t) == {x \in Occurs[c] : x <= t}

\* The latest occurrence at or before t, if there is one.
LatestOccurrence(c, t) == Max(UpTo(c, t))

Init ==
  /\ now = 0
  /\ row \in [Loop -> {None} \cup
                {CreatedRow(g, c, p, 0) :
                   g \in Goal, c \in Cron \cup {None}, p \in Path}]
  /\ mode = "down"
  /\ commits = {}
  /\ registry = [l \in Loop |-> None]
  /\ highest = [l \in Loop |-> None]
  /\ jobs = {}
  /\ ticks = {}
  /\ scanned = {}
  /\ cutoff = 0
  /\ lost = {}

--------------------------------------------------------------------------------
(***************************************************************************)
(* Committed schedule changes and their reconcile.                         *)
(***************************************************************************)

\* The registry entry of row r.
Entry(r) == IF ActiveSchedule(r)
            THEN [revision |-> r.scheduleRevision, cron |-> r.cron] ELSE None

JobsOf(l) == {j \in jobs : j.loop = l}

NewJob(b, from) ==
  [loop |-> b.loop, revision |-> b.row.scheduleRevision, cron |-> b.row.cron,
   fired |-> now, from |-> from]

\* Mutant: a delayed row is taken for the newest.
Outdated_Never(b) == FALSE

\* A row older than one already seen changes nothing.
Outdated(b) ==
  highest[b.loop] # None /\ b.row.scheduleRevision < highest[b.loop]

\* The old job of a loop is stopped before the new one starts.
Kept(changed) == {j \in jobs : \A b \in changed : b.loop # j.loop}

\* reconcile(loop) for every row of batch, which has at most one per loop; a new
\* job of loop l answers from from[l].  A job the factory refuses leaves the
\* registry as it was, with the old job stopped.
Reconcile(batch, from) ==
  LET fresh   == {b \in batch : ~Outdated(b)}
      changed == {b \in fresh : registry[b.loop] # Entry(b.row)}
      armed   == {b \in changed : ActiveSchedule(b.row)}
      Update(f, rows, Value(_)) ==
        [l \in Loop |-> IF \E b \in rows : b.loop = l
                        THEN Value((CHOOSE b \in rows : b.loop = l).row)
                        ELSE f[l]]
      Revision(r) == r.scheduleRevision
  IN \E refused \in SUBSET {b \in armed : b.loop \in Flaky} :
       /\ highest' = Update(highest, fresh, Revision)
       /\ registry' = Update(registry, changed \ refused, Entry)
       /\ jobs' = Kept(changed) \cup {NewJob(b, from[b.loop]) : b \in armed \ refused}

\* A request commits row r for loop l; its handler still has to reconcile.
Commit(l, r) ==
  /\ Serving
  /\ row' = [row EXCEPT ![l] = r]
  /\ commits' = commits \cup {[loop |-> l, row |-> r]}
  /\ UNCHANGED <<now, mode, registry, highest, jobs, ticks, scanned, cutoff,
                 lost>>

CreateLoop(l) ==
  /\ ~Exists(l)
  /\ \E g \in Goal, c \in Cron, p \in Path : Commit(l, CreatedRow(g, c, p, now))

UpdateSchedule(l) ==
  /\ Exists(l)
  /\ \E patch \in Patch :
       /\ ScheduleAdmits(row[l], patch)
       /\ Commit(l, ScheduleTransition(row[l], patch, now))

\* A finish of a run of loop l.
Finish(l) ==
  /\ Exists(l)
  /\ FinishAdmits(row[l], [canFinish |-> TRUE, goalRevision |-> 0])
  /\ Commit(l, Completion(row[l]))

ReopenLoop(l) ==
  /\ Exists(l)
  /\ ReopenAdmits(row[l])
  /\ Commit(l, Reopening(row[l], now))

\* The handlers resume in any order.
ReconcileCommitted ==
  /\ Serving
  /\ \E c \in commits :
       /\ commits' = commits \ {c}
       /\ IF Stopped THEN UNCHANGED <<registry, highest, jobs>>
                     ELSE Reconcile({c}, [l \in {c.loop} |-> now])
  /\ UNCHANGED <<row, now, mode, ticks, scanned, cutoff, lost>>

--------------------------------------------------------------------------------
(***************************************************************************)
(* Ticks.                                                                  *)
(***************************************************************************)

Busy(j) ==
  {k \in ticks : k.kind = "timer" /\ k.loop = j.loop /\ k.revision = j.revision}

\* Mutant: an occurrence is due after its instant.
Due_Late(j) == Between(j.cron, j.fired, now - 1)

Due(j) == Between(j.cron, j.fired, now)

Refire(j) == jobs' = (jobs \ {j}) \cup {[j EXCEPT !.fired = now]}

Lose(l, revision, instants) ==
  lost' = lost \cup ({l} \X {revision} \X instants)

\* A timer fires and starts its callback.
Fire(j) ==
  /\ Serving
  /\ Due(j) # {}
  /\ Busy(j) = {}
  /\ Refire(j)
  /\ ticks' = ticks \cup
       {[kind |-> "timer", loop |-> j.loop, revision |-> j.revision,
         cron |-> j.cron, stage |-> "eligibility", at |-> 0]}
  /\ UNCHANGED <<row, now, mode, commits, registry, highest, scanned, cutoff,
                 lost>>

\* A timer fires while its previous callback is pending: skipped.  A callback
\* that has not chosen its occurrence yet will see this one.
Overrun(j) ==
  /\ Serving
  /\ Due(j) # {}
  /\ Busy(j) # {}
  /\ Refire(j)
  /\ IF \E k \in Busy(j) : k.stage = "eligibility"
     THEN UNCHANGED lost ELSE Lose(j.loop, j.revision, Due(j))
  /\ UNCHANGED <<row, now, mode, commits, registry, highest, ticks, scanned,
                 cutoff>>

TickOccurrence(k) == LatestOccurrence(k.cron, now)

\* The eligibility read returns: a stopped scheduler and an ineligible machine
\* end the tick, the others choose their occurrence.
TickEligibility(k) ==
  /\ Serving /\ k.stage = "eligibility"
  /\ IF Stopped \/ k.loop \notin Eligible
     THEN /\ ticks' = ticks \ {k}
          /\ Lose(k.loop, k.revision, UpTo(k.cron, now))
     ELSE /\ ticks' = (ticks \ {k}) \cup
               {[k EXCEPT !.stage = "enqueue", !.at = TickOccurrence(k)]}
          /\ UNCHANGED lost
  /\ UNCHANGED <<row, now, mode, commits, registry, highest, jobs, scanned,
                 cutoff>>

\* The enqueue: the trigger is judged against the row as it is now.
TickEnqueue(k) ==
  /\ Serving /\ k.stage = "enqueue"
  /\ ticks' = ticks \ {k}
  /\ row' = IF OccurrenceAdmits(row[k.loop],
                                [revision |-> k.revision, at |-> k.at], now)
            THEN [row EXCEPT ![k.loop].lastScheduledAt = k.at] ELSE row
  /\ UNCHANGED <<now, mode, commits, registry, highest, jobs, scanned, cutoff,
                 lost>>

\* The enqueue throws (enqueue_failed): its occurrences are given up.
TickFails(k) ==
  /\ Serving /\ k.stage = "enqueue"
  /\ ticks' = ticks \ {k}
  /\ Lose(k.loop, k.revision, UpTo(k.cron, k.at))
  /\ UNCHANGED <<row, now, mode, commits, registry, highest, jobs, scanned,
                 cutoff>>

--------------------------------------------------------------------------------
(***************************************************************************)
(* The life of the server.                                                 *)
(***************************************************************************)

\* The listener is bound and start() begins.
Boot ==
  /\ mode = "down"
  /\ mode' = "booting"
  /\ UNCHANGED <<row, now, commits, registry, highest, jobs, ticks, scanned,
                 cutoff, lost>>

\* The scan's query reads the active loops of eligible machines.
Scan ==
  /\ mode = "booting"
  /\ mode' = "scanned"
  /\ scanned' = {[loop |-> l, row |-> row[l]] :
                   l \in {m \in Eligible : Exists(m) /\ ActiveSchedule(row[m])}}
  /\ UNCHANGED <<row, now, commits, registry, highest, jobs, ticks, cutoff, lost>>

\* start() registers every scanned loop before any catch-up.
Register ==
  /\ mode = "scanned"
  /\ mode' = "registered"
  /\ LET Scanned(l) == (CHOOSE s \in scanned : s.loop = l).row IN
     Reconcile(scanned, [l \in {s.loop : s \in scanned} |->
                           Scanned(l).scheduleActivatedAt])
  /\ UNCHANGED <<row, now, commits, ticks, scanned, cutoff, lost>>

TakeCutoff ==
  /\ mode = "registered"
  /\ mode' = "recovering"
  /\ cutoff' = now
  /\ UNCHANGED <<row, now, commits, registry, highest, jobs, ticks, scanned,
                 lost>>

Recovering == {k \in ticks : k.kind = "recovery"}

\* Mutant: the occurrence at the cutoff itself is left out.
Missed_BeforeCutoff(r) ==
  {t \in Between(r.cron, r.scheduleActivatedAt, cutoff) :
     t < cutoff /\ (r.lastScheduledAt # None => t > r.lastScheduledAt)}

\* The occurrences up to the cutoff that scanned row r does not account for.
Missed(r) ==
  {t \in Between(r.cron, r.scheduleActivatedAt, cutoff) :
     r.lastScheduledAt # None => t > r.lastScheduledAt}

\* One loop of the serial catch-up: only the latest missed occurrence, and
\* only if the registry holds the revision that was scanned.
CatchUp ==
  /\ mode = "recovering" /\ Recovering = {}
  /\ \E s \in scanned :
       /\ scanned' = scanned \ {s}
       /\ ticks' = ticks \cup
            IF /\ registry[s.loop] # None
               /\ registry[s.loop].revision = s.row.scheduleRevision
               /\ Missed(s.row) # {}
            THEN {[kind |-> "recovery", loop |-> s.loop,
                   revision |-> s.row.scheduleRevision, cron |-> s.row.cron,
                   stage |-> "enqueue", at |-> Max(Missed(s.row))]}
            ELSE {}
  /\ UNCHANGED <<row, now, mode, commits, registry, highest, jobs, cutoff, lost>>

CaughtUp ==
  /\ mode = "recovering" /\ Recovering = {} /\ scanned = {}
  /\ mode' = "running"
  /\ UNCHANGED <<row, now, commits, registry, highest, jobs, ticks, scanned,
                 cutoff, lost>>

\* stopAndDrain, at a shutdown signal or after a failed scan.
Stop ==
  /\ mode \in {"booting", "running"}
  /\ mode' = "stopping"
  /\ registry' = [l \in Loop |-> None]
  /\ jobs' = {}
  /\ scanned' = {}
  /\ UNCHANGED <<row, now, commits, highest, ticks, cutoff, lost>>

\* What stopAndDrain waits for.
InFlight == ticks

Drained ==
  /\ mode = "stopping" /\ InFlight = {}
  /\ mode' = "drained"
  /\ UNCHANGED <<row, now, commits, registry, highest, jobs, ticks, scanned,
                 cutoff, lost>>

\* The process ends; what it held in memory is gone.
Down ==
  /\ mode' = "down"
  /\ commits' = {}
  /\ registry' = [l \in Loop |-> None]
  /\ highest' = [l \in Loop |-> None]
  /\ jobs' = {}
  /\ ticks' = {}
  /\ scanned' = {}
  /\ cutoff' = 0
  /\ lost' = {}
  /\ UNCHANGED <<row, now>>

\* The listener and the database close after the drain.
Close == mode = "drained" /\ Down

Crash == mode # "down" /\ Down

PassTime ==
  /\ now < MaxTime
  /\ now' = now + 1
  /\ UNCHANGED <<row, memory>>

--------------------------------------------------------------------------------

ServerStep ==
  \/ ReconcileCommitted
  \/ \E j \in jobs : Fire(j) \/ Overrun(j)
  \/ \E k \in ticks : TickEligibility(k) \/ TickEnqueue(k) \/ TickFails(k)
  \/ Scan \/ Register \/ TakeCutoff \/ CatchUp \/ CaughtUp \/ Drained \/ Close

Next ==
  \/ \E l \in Loop :
       CreateLoop(l) \/ UpdateSchedule(l) \/ Finish(l) \/ ReopenLoop(l)
  \/ ServerStep
  \/ Boot \/ Stop \/ Crash
  \/ PassTime

Spec == Init /\ [][Next]_vars

\* Timers fire, reads and writes return, continuations run.  Nobody has to
\* boot, stop or use the server.
Fairness ==
  /\ WF_vars(\E j \in jobs : Fire(j) \/ Overrun(j))
  /\ WF_vars(\E k \in ticks : TickEligibility(k) \/ TickEnqueue(k))
  /\ WF_vars(ReconcileCommitted)
  /\ WF_vars(Scan \/ Register \/ TakeCutoff \/ CatchUp \/ CaughtUp)
  /\ WF_vars(Drained)

FairSpec == Spec /\ Fairness

--------------------------------------------------------------------------------
(***************************************************************************)
(* Properties.                                                             *)
(***************************************************************************)

\* Every variable has its type.
TypeOK ==
  /\ row \in [Loop -> Row \cup {None}]
  /\ now \in 0..MaxTime /\ cutoff \in 0..MaxTime
  /\ mode \in Mode
  /\ commits \subseteq [loop : Loop, row : Row]
  /\ registry \in [Loop -> [revision : Nat, cron : Cron] \cup {None}]
  /\ highest \in [Loop -> Nat \cup {None}]
  /\ jobs \subseteq Job
  /\ ticks \subseteq Tick
  /\ scanned \subseteq [loop : Loop, row : Row]
  /\ lost \subseteq Loop \X Nat \X Nat

CommitPending(l) == \E c \in commits : c.loop = l

\* A loop never has two live jobs, and every live job is the registered one: none
\* is left behind that stopAndDrain could not stop.
JobsAreRegistered ==
  \A j \in jobs :
    /\ registry[j.loop] = [revision |-> j.revision, cron |-> j.cron]
    /\ JobsOf(j.loop) = {j}

\* The factory refused the job of the row: the revision is noted, nothing runs.
Refused(l) == l \in Flaky /\ highest[l] = row[l].scheduleRevision /\ JobsOf(l) = {}

\* When stopAndDrain has returned, no callback is left that could reach the
\* database while it closes.
DrainedIsQuiet == mode = "drained" => ticks = {} /\ jobs = {}

\* Once the handlers of a loop have resumed, in whatever order, its job is the
\* one its row asks for, unless the factory refused it: no delayed row downgrades
\* or resurrects a schedule, no boot scan overwrites a newer one, and no job is
\* left that the registry does not know or a drain cannot stop.
JobsMatchRows ==
  /\ TypeOK
  /\ JobsAreRegistered
  /\ DrainedIsQuiet
  /\ mode = "running" =>
       \A l \in Loop : Exists(l) /\ ~CommitPending(l) =>
         /\ \A j \in JobsOf(l) :
              /\ ActiveSchedule(row[l])
              /\ j.revision = row[l].scheduleRevision /\ j.cron = row[l].cron
         /\ ActiveSchedule(row[l]) /\ l \in Eligible => JobsOf(l) # {} \/ Refused(l)

\* Instant t of loop l's current schedule has come, the loop's job answers for
\* it, and it is neither recorded nor given up.
Owed(l, t) ==
  /\ mode = "running" /\ l \in Eligible
  /\ Exists(l) /\ ActiveSchedule(row[l])
  /\ \E j \in JobsOf(l) :
       /\ j.revision = row[l].scheduleRevision
       /\ t \in Between(j.cron, j.from, now)
       /\ <<l, j.revision, t>> \notin lost
  /\ row[l].lastScheduledAt # None => t > row[l].lastScheduledAt

\* An occurrence that is owed is on its way: its timer is due, or a callback in
\* flight has yet to choose an occurrence or has chosen this one or a later.
\* Nothing falls between the catch-up of a boot and the first timers.
NoOccurrenceIsForgotten ==
  \A l \in Loop, t \in 0..MaxTime : Owed(l, t) =>
    \/ \E j \in JobsOf(l) : t \in Due(j)
    \/ \E k \in ticks :
         /\ k.loop = l /\ k.revision = row[l].scheduleRevision
         /\ k.stage = "eligibility" \/ k.at >= t

\* Every occurrence that is owed is recorded, given up or overtaken by a
\* change of the schedule.
OccurrencesAreHandled ==
  \A l \in Loop : \A t \in 0..MaxTime : Owed(l, t) ~> ~Owed(l, t)

================================================================================
