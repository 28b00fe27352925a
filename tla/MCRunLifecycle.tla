--------------------------- MODULE MCRunLifecycle ---------------------------
(***************************************************************************)
(* Small instances of RunLifecycle for TLC.                                *)
(***************************************************************************)
EXTENDS RunLifecycle, TLC

CONSTANTS r1, r2, r3, g1, g2, c1, c2, p1, p2

\* c1 fires at every instant, c2 only at the second one.
MCOccurs == [c \in Cron |-> IF c = c1 THEN 1..MaxTime ELSE {2}]

Calls(op, args) == {[op |-> op, arg |-> a] : a \in args}

Triggers == Calls("scheduled", [revision : 0..RevisionMax, at : 1..MaxTime])
Claims   == Calls("claim", Run)
Manual   == Calls("runNow", {"supersede", "skip"})
Goals    == Calls("goal", Goal \cup {None})
Targets  == Calls("taskFile", Path)
Reopens  == Calls("reopen", {None})
Pauses   == Calls("schedule", [cron : {Keep}, enabled : {TRUE, FALSE}])
Edits    == Pauses \cup Calls("schedule", [cron : {None, c2}, enabled : {Keep}])

\* Manual runs, claims, goals and reopens: the completion life of a loop.
CompletionRequest == Manual \cup Claims \cup Goals \cup Reopens
\* Triggers against schedule edits.
ScheduleRequest == Triggers \cup Claims \cup Edits \cup Reopens
\* Task-file retargets against claims.
RetargetRequest == Calls("runNow", {"supersede"}) \cup Claims \cup Targets

Outcomes  == [kind : {"failure", "invalid", "report", "finish"},
              state : {TRUE}, task : {TRUE}]
Endings   == [kind : {"failure", "finish"}, state : {FALSE}, task : {FALSE}]
Reports   == [kind : {"failure", "invalid", "report"},
              state : {FALSE}, task : BOOLEAN]
Successes == [kind : {"report"}, state : {FALSE}, task : BOOLEAN]

Handlers == Permutations(Handler)
Symmetry ==
  Permutations(Run) \cup Permutations(Handler) \cup Permutations(Goal)

=============================================================================
