---------------------------- MODULE SnapshotBinding ----------------------------
(***************************************************************************)
(* How a final report binds an artifact snapshot to its run                *)
(* (server/src/artifact/binding-plan.ts, the report transaction of         *)
(* store/report.ts), while the configuration of the loop changes,          *)
(* manifests are committed, the run is swept or canceled and a second      *)
(* report arrives.  The statements of a transaction interleave with other  *)
(* transactions and hold row locks, as the code assumes; the embedded      *)
(* database runs one transaction at a time, which allows less.             *)
(***************************************************************************)
EXTENDS Naturals, FiniteSets

CONSTANTS
  Report,         \* report requests for one run
  Manifest,
  Foreign,        \* the manifests of another loop, machine or namespace
  MaxGeneration,  \* bound: configuration changes
  None

VARIABLES
  generation,  \* artifactConfigRevision of the loop
  committed,   \* generation each manifest was committed under, 0 if it was not
  run,         \* [phase, snapshot, error]
  lease,       \* "active", "grace" or None
  report,      \* the requests
  bound        \* history: the generation when the report that ended the run committed

bindingVars == <<generation, committed, run, lease, report, bound>>

NoReport == [pc |-> "idle", snapshot |-> None, error |-> "absent", tries |-> 0,
             phase |-> None, lease |-> None, generation |-> 0, writes |-> None]
Nothing == [snapshot |-> None, error |-> None]

Init ==
  /\ generation = 1 /\ committed = [m \in Manifest |-> 0] /\ bound = 0
  /\ run = [phase |-> "running", snapshot |-> None, error |-> None]
  /\ lease = "active" /\ report = [r \in Report |-> NoReport]

\* A transaction that has written the run or locked the loop keeps others off.
RunLocked == \E r \in Report : report[r].pc = "ending"
LoopLocked == \E r \in Report : report[r].pc = "ending" /\ report[r].writes.snapshot # None

Answer(r) == [report EXCEPT ![r] = [NoReport EXCEPT !.pc = "answered"]]
Denied(r) == report' = Answer(r) /\ UNCHANGED <<generation, committed, run, lease, bound>>

(***************************************************************************)
(* Other transactions.                                                     *)
(***************************************************************************)
Reconfigure ==
  /\ ~LoopLocked /\ generation < MaxGeneration /\ generation' = generation + 1
  /\ UNCHANGED <<committed, run, lease, report, bound>>

\* A foreign one has the generation of a loop, machine or namespace of its own.
CommitManifest(m) ==
  /\ committed[m] = 0 /\ committed' = [committed EXCEPT ![m] = IF m \in Foreign THEN 1 ELSE generation]
  /\ UNCHANGED <<generation, run, lease, report, bound>>

Sweep ==
  /\ run.phase = "running" /\ ~RunLocked
  /\ run' = [run EXCEPT !.phase = "error"] /\ lease' = "grace"
  /\ UNCHANGED <<generation, committed, report, bound>>

Cancel ==
  /\ run.phase = "running" /\ ~RunLocked
  /\ run' = [run EXCEPT !.phase = "canceled"] /\ lease' = None
  /\ UNCHANGED <<generation, committed, report, bound>>

(***************************************************************************)
(* The report.                                                             *)
(***************************************************************************)
\* Which snapshot and what text are carried together makes no difference, nor
\* does a blank text alone.
Arrive(r) ==
  /\ report[r].pc = "idle"
  /\ \E s \in Manifest \cup {None}, e \in {"absent", "blank", "text"} :
       /\ e = "absent" \/ (e = "text" /\ s = None) \/ (e = "blank" /\ s \in Manifest \ Foreign)
       /\ report' = [report EXCEPT ![r] = [NoReport EXCEPT !.pc = "read", !.snapshot = s, !.error = e]]
  /\ UNCHANGED <<generation, committed, run, lease, bound>>

\* Lease, run and loop in one statement; a lease that is gone or whose window
\* has closed, and a phase that does not fit it, are denied.
ReadState(r) ==
  /\ report[r].pc = "read"
  /\ IF <<lease, run.phase>> \in {<<"active", "running">>, <<"grace", "error">>}
     THEN /\ report' = [report EXCEPT ![r] = [@ EXCEPT !.pc = "plan", !.phase = run.phase, !.lease = lease,
                                                       !.generation = generation]]
          /\ UNCHANGED <<generation, committed, run, lease, bound>>
     ELSE Denied(r)

GraceEnds ==
  /\ lease = "grace" /\ ~RunLocked /\ lease' = None
  /\ UNCHANGED <<generation, committed, run, report, bound>>

\* planArtifactSnapshotBinding: the first reason that applies.  A field with no
\* usable text is carried, and yet leaves nothing to record.
BindingPlan(one) ==
  LET m == one.snapshot IN
  IF m # None /\ one.error # "absent" THEN [Nothing EXCEPT !.error = "ambiguous"]
  ELSE IF one.error = "text" THEN [Nothing EXCEPT !.error = "reported"]
  ELSE IF m = None THEN Nothing
  ELSE IF committed[m] = 0 THEN [Nothing EXCEPT !.error = "not_committed"]
  ELSE IF m \in Foreign THEN [Nothing EXCEPT !.error = "foreign"]
  ELSE IF committed[m] # one.generation THEN [Nothing EXCEPT !.error = "stale"]
  ELSE [Nothing EXCEPT !.snapshot = m]

Plan(r) ==
  /\ report[r].pc = "plan"
  /\ LET plan == BindingPlan(report[r]) IN
     report' = [report EXCEPT ![r] = [report[r] EXCEPT !.pc = "bind", !.writes = plan,
                                                       !.generation = IF plan.snapshot = None THEN 0 ELSE @]]
  /\ UNCHANGED <<generation, committed, run, lease, bound>>

\* A lost guard rolls the transaction back; it is tried once more.
Again(r) ==
  /\ report' = IF report[r].tries = 0
               THEN [report EXCEPT ![r] = [NoReport EXCEPT !.pc = "read", !.tries = 1,
                                                          !.snapshot = report[r].snapshot, !.error = report[r].error]]
               ELSE Answer(r)
  /\ UNCHANGED <<generation, committed, run, lease, bound>>

\* Mutant: the generation is not asked for again.
GuardAdmits_AnyGeneration(one) == run.phase = one.phase
GuardAdmits(one) == run.phase = one.phase /\ (one.writes.snapshot # None => generation = one.generation)

\* The UPDATE of the run, with the loop locked if it binds.  A report that
\* carries neither field writes nothing here and meets the guard at its end.
Bind(r) ==
  /\ report[r].pc = "bind" /\ ~RunLocked
  /\ IF GuardAdmits(report[r])
     THEN /\ report' = [report EXCEPT ![r].pc = "ending", ![r].phase = None, ![r].generation = 0]
          /\ UNCHANGED <<generation, committed, run, lease, bound>>
     ELSE Again(r)

\* Phase, binding and lease in one commit; the lease must still be the one read.
End(r) ==
  /\ report[r].pc = "ending"
  /\ \/ /\ lease = report[r].lease
        /\ \E phase \in {"done", "error"} :
             run' = [phase |-> phase, snapshot |-> report[r].writes.snapshot, error |-> report[r].writes.error]
        /\ lease' = None /\ bound' = generation /\ report' = Answer(r)
        /\ UNCHANGED <<generation, committed>>
     \/ lease # report[r].lease /\ Again(r)

\* A failure in the transaction, or a crash: nothing was written.
Abort(r) == report[r].pc \in {"plan", "bind", "ending"} /\ Denied(r)

Next ==
  \/ Reconfigure \/ Sweep \/ Cancel \/ GraceEnds
  \/ \E m \in Manifest : CommitManifest(m)
  \/ \E r \in Report : Arrive(r) \/ ReadState(r) \/ Plan(r) \/ Bind(r) \/ End(r) \/ Abort(r)

-------------------------------------------------------------------------------
\* A run is bound to a committed snapshot of its own loop, machine and namespace
\* and of the generation that was current when its report committed; it has a
\* snapshot or a sync error, never both, and neither while it can still report
\* or after it was canceled.
SnapshotOfItsTime ==
  /\ run.snapshot # None => run.snapshot \notin Foreign /\ committed[run.snapshot] = bound /\ run.error = None
  /\ lease # None \/ run.phase = "canceled" => run.snapshot = None /\ run.error = None
===============================================================================
