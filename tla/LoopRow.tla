------------------------------- MODULE LoopRow -------------------------------
(***************************************************************************)
(* One row of the loops table and the pure kernels that plan its writes:   *)
(* goal, schedule, finish, reopen and task file.  Every operator takes a   *)
(* row and returns a row or a verdict, as the kernels under loop-lifecycle *)
(* and schedule do; the transactions that apply them are in RunLifecycle.  *)
(*                                                                         *)
(* A cron value stands for the (cron, timezone) pair, a task file and a    *)
(* goal for their text.  Stored task-file content is the path it was read  *)
(* from, stored state the run that reported it.                            *)
(***************************************************************************)
EXTENDS Naturals

CONSTANTS
  Goal,         \* goals an owner may set
  Cron,         \* schedules an owner may set
  Path,         \* task files an owner may point a loop at
  Run,          \* run identifiers
  Occurs,       \* Occurs[c]: the instants at which schedule c fires
  RevisionMax,  \* REVISION_INT32_MAX
  None,         \* SQL null
  Keep          \* a patch field that is absent

ASSUME RevisionMaxAssumption == RevisionMax \in Nat
ASSUME OccursAssumption == Occurs \in [Cron -> SUBSET Nat]
ASSUME NoneAssumption == None \notin Nat \cup Goal \cup Cron \cup Path \cup Run

Row == [goal: Goal \cup {None}, goalRevision: Nat,
        completed: BOOLEAN, enabled: BOOLEAN, cron: Cron \cup {None},
        scheduleRevision: Nat, scheduleActivatedAt: Nat \cup {None},
        lastScheduledAt: Nat \cup {None},
        taskFile: Path, taskFileContent: Path \cup {None},
        state: Run \cup {None},
        generation: Nat,    \* history: how often the loop was reopened
        revision: Nat]

Patch == [cron: Cron \cup {None, Keep}, enabled: BOOLEAN \cup {Keep}]

\* Every write of a loops row increments its optimistic-concurrency token.
Bump(row) == [row EXCEPT !.revision = @ + 1]

\* The row createLoop inserts at instant t.
CreatedRow(goal, cron, path, t) ==
  [goal |-> goal, goalRevision |-> 0, completed |-> FALSE, enabled |-> TRUE,
   cron |-> cron, scheduleRevision |-> 0,
   scheduleActivatedAt |-> IF cron = None THEN None ELSE t,
   lastScheduledAt |-> None, taskFile |-> path, taskFileContent |-> None,
   state |-> None, generation |-> 0, revision |-> 0]

--------------------------------------------------------------------------------
\* Schedule.

ActiveSchedule(row) == row.enabled /\ row.cron # None

Patched(old, new) == IF new = Keep THEN old ELSE new

ScheduleNoOp(row, patch) ==
  /\ Patched(row.cron, patch.cron) = row.cron
  /\ Patched(row.enabled, patch.enabled) = row.enabled

\* The patch an effective schedule change writes at instant t.
ScheduleTransition(row, patch, t) ==
  LET cron    == Patched(row.cron, patch.cron)
      enabled == Patched(row.enabled, patch.enabled)
  IN [row EXCEPT !.cron = cron, !.enabled = enabled,
                 !.scheduleRevision = @ + 1,
                 !.scheduleActivatedAt =
                    IF enabled /\ cron # None THEN t ELSE None,
                 !.lastScheduledAt = None]

ScheduleAdmits(row, patch) ==
  /\ ~(row.completed /\ patch.enabled = TRUE)
  /\ ~ScheduleNoOp(row, patch)
  /\ row.scheduleRevision < RevisionMax

\* Mutant: an occurrence before the activation is accepted.
OccurrenceAdmits_AnyAge(row, trigger, t) ==
  /\ ~row.completed
  /\ row.scheduleRevision = trigger.revision
  /\ ActiveSchedule(row)
  /\ row.scheduleActivatedAt # None
  /\ trigger.at \in Occurs[row.cron]
  /\ trigger.at <= t
  /\ row.lastScheduledAt # None => trigger.at > row.lastScheduledAt

\* What a scheduled trigger must find in the row it resolves at instant t:
\* trigger.revision is the schedule it was registered under, trigger.at the
\* occurrence it fires for.  An active schedule without an activation is a
\* corrupt row and admits nothing.
OccurrenceAdmits(row, trigger, t) ==
  /\ ~row.completed
  /\ row.scheduleRevision = trigger.revision
  /\ ActiveSchedule(row)
  /\ row.scheduleActivatedAt # None
  /\ trigger.at \in Occurs[row.cron]
  /\ trigger.at <= t
  /\ trigger.at > row.scheduleActivatedAt
  /\ row.lastScheduledAt # None => trigger.at > row.lastScheduledAt

--------------------------------------------------------------------------------
\* Goal, task file, finish, reopen.

GoalAdmits(row, goal) ==
  /\ ~row.completed
  /\ goal # row.goal
  /\ row.goalRevision < RevisionMax

GoalUpdate(row, goal) == [row EXCEPT !.goal = goal, !.goalRevision = @ + 1]

TaskFileUpdate(row, path) ==
  [row EXCEPT !.taskFile = path, !.taskFileContent = None]

\* auth is the lease of the run that asks: a finish needs the right to finish
\* and the goal its run was claimed for.
FinishAdmits(row, auth) ==
  /\ ~row.completed
  /\ auth.canFinish
  /\ row.goal # None
  /\ auth.goalRevision = row.goalRevision
  /\ row.scheduleRevision < RevisionMax

\* Mutant: completing a loop leaves its schedule revision.
Completion_SameSchedule(row) ==
  [row EXCEPT !.completed = TRUE, !.enabled = FALSE,
              !.scheduleActivatedAt = None, !.lastScheduledAt = None]

Completion(row) ==
  [row EXCEPT !.completed = TRUE, !.enabled = FALSE,
              !.scheduleRevision = @ + 1,
              !.scheduleActivatedAt = None, !.lastScheduledAt = None]

ReopenAdmits(row) == row.completed /\ row.scheduleRevision < RevisionMax

Reopening(row, t) ==
  [ScheduleTransition(row, [cron |-> Keep, enabled |-> TRUE], t)
     EXCEPT !.completed = FALSE, !.generation = @ + 1]

================================================================================
