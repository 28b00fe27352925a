---------------------------- MODULE DaemonRuntime ----------------------------
(***************************************************************************)
(* The daemon's runtime against a server that keeps RunContract, over      *)
(* requests that time out, are lost, or arrive long after the daemon has   *)
(* given them up: the poll loop, the queue, the one execution pipeline,    *)
(* the outbox of unconfirmed reports, fatal errors and shutdown.           *)
(*                                                                         *)
(* A request carries the identity of its attempt, because an answer        *)
(* belongs to the connection that asked.  The runner, the final artifact   *)
(* sync and the server's other clients are the environment.                *)
(***************************************************************************)
EXTENDS Sequences, Naturals

CONSTANTS
  Loop, Run, None,
  ArtifactLoop,  \* loops whose runs end with a final artifact sync
  Refused,       \* runs whose report the server answers with a protocol error
  Attempt        \* bound: identities of requests of one kind outstanding at once

ASSUME NamesAssumption == None \notin Loop \cup Run \cup Attempt
ASSUME SubsetsAssumption ==
  ArtifactLoop \subseteq Loop /\ Refused \subseteq Run

\* The states of activePipeline: the run executes, its final artifact sync
\* runs, or its report has its first attempt.
Pipeline == [run : Run, stage : {"running", "syncing", "reporting"},
             failed : BOOLEAN]

ASSUME PipelineAssumption == None \notin Pipeline

VARIABLES
  status, owner,  \* the server's runs, as RunContract has them
  wire,           \* requests on their way to the server or being handled
  answer,         \* answers on their way back
  proc,           \* the daemon process: running, draining, closing, exited
  fatal,          \* a fatal error is recorded
  aborted,        \* stopCtl has aborted
  queue,          \* claimed runs that wait for their turn
  active,         \* activePipeline
  report,         \* pendingReports
  known,          \* the activity snapshot
  poll,           \* the poll in flight
  received        \* history: runs delivered to this process

server == <<status, owner>>
net == <<wire, answer>>
daemon == <<proc, fatal, aborted, queue, active, report, known, poll, received>>
vars == <<server, net, daemon>>

Server == INSTANCE RunContract

PollMessage == [kind : {"poll"}, id : Attempt, slots : {0, 1}, got : Seq(Run)]
ReportMessage == [kind : {"report"}, id : Attempt, run : Run]

PollRequest(id, slots) ==
  [kind |-> "poll", id |-> id, slots |-> slots, got |-> <<>>]
ReportRequest(r, id) == [kind |-> "report", id |-> id, run |-> r]

\* A run's entry in the outbox: sending is an attempt in flight, waiting the
\* pause before the next, kept an entry that shutdown leaves behind.
NoReport == [state |-> "none", id |-> None]

Elements(s) == {s[i] : i \in DOMAIN s}

Init ==
  /\ status = [r \in Run |-> "absent"] /\ owner = [r \in Run |-> None]
  /\ wire = {} /\ answer = {}
  /\ proc = "exited" /\ fatal = FALSE /\ aborted = FALSE
  /\ queue = <<>> /\ active = None
  /\ report = [r \in Run |-> NoReport]
  /\ known = {} /\ poll = None /\ received = {}

--------------------------------------------------------------------------------
(***************************************************************************)
(* Capacity.                                                               *)
(***************************************************************************)

\* Runs the runner has started and whose report is not pending yet.
InFlight(pipeline) ==
  IF pipeline # None /\ pipeline.stage # "reporting" THEN {pipeline.run} ELSE {}

Pending(outbox) == {r \in Run : outbox[r].state # "none"}

\* Mutant: an unconfirmed report does not occupy capacity.
ExecutionIdle_ReportsAside(pipeline, outbox) == InFlight(pipeline) = {}

\* Nothing executes and no report awaits its confirmation.
ExecutionIdle(pipeline, outbox) ==
  InFlight(pipeline) = {} /\ Pending(outbox) = {}

Started(r) == [run |-> r, stage |-> "running", failed |-> FALSE]

\* maybeStartNext, with backlog, pipeline and outbox as the caller left them.
MaybeStartNext(backlog, pipeline, outbox) ==
  IF backlog # <<>> /\ ~fatal /\ ~aborted /\ ExecutionIdle(pipeline, outbox)
  THEN queue' = Tail(backlog) /\ active' = Started(Head(backlog))
  ELSE queue' = backlog /\ active' = pipeline

\* The claimed but never started runs are dropped from both sets.
DropQueue == queue' = <<>> /\ known' = known \ Elements(queue)

--------------------------------------------------------------------------------
(***************************************************************************)
(* The poll loop.                                                          *)
(***************************************************************************)

Looping == proc = "running" /\ poll = None

\* The connection of an attempt is closed, with an answer that may be on it.
Hangup(kind, id) ==
  wire' = wire /\ answer' = {m \in answer : m.kind # kind \/ m.id # id}

FreeAttempts(kind) ==
  Attempt \ {m.id : m \in {x \in wire \cup answer : x.kind = kind}}

AvailableSlots ==
  IF ExecutionIdle(active, report) /\ queue = <<>> THEN 1 ELSE 0

PollOnce ==
  /\ Looping /\ ~fatal /\ ~aborted
  /\ \E id \in FreeAttempts("poll") :
       /\ poll' = id
       /\ wire' = wire \cup {PollRequest(id, AvailableSlots)}
  /\ UNCHANGED <<server, answer, proc, fatal, aborted, queue, active, report,
                 known, received>>

\* A timeout, a lost connection or a 5xx: transient, the next poll decides.
PollTransient ==
  /\ poll # None
  /\ poll' = None
  /\ Hangup("poll", poll)
  /\ UNCHANGED <<server, proc, fatal, aborted, queue, active, report, known,
                 received>>

\* The dispatch loop: what it queues of the runs of an answer, each of them once
\* and none that the snapshot has.
Dispatched(got, tracked) ==
  LET Queued[n \in 0..Len(got)] ==
        IF n = 0 THEN <<>>
        ELSE IF got[n] \in tracked \cup Elements(Queued[n - 1])
             THEN Queued[n - 1]
             ELSE Append(Queued[n - 1], got[n])
  IN Queued[Len(got)]

\* The poll's answer is dispatched, and the first run starts if the daemon is
\* idle.  A fatal error that landed during the poll surfaces before its deliveries.
PollAnswered ==
  /\ poll # None
  /\ \E m \in answer :
       /\ m.kind = "poll" /\ m.id = poll
       /\ answer' = answer \ {m}
       /\ IF fatal
          THEN UNCHANGED <<queue, active, known, received>>
          ELSE LET new == Dispatched(m.got, known) IN
               /\ known' = known \cup Elements(new)
               /\ received' = received \cup Elements(new)
               /\ MaybeStartNext(queue \o new, active, report)
  /\ poll' = None
  /\ UNCHANGED <<server, wire, proc, fatal, aborted, report>>

\* A 401, another 4xx or a malformed 2xx.
PollFatal ==
  /\ poll # None
  /\ poll' = None
  /\ Hangup("poll", poll)
  /\ fatal' = TRUE /\ aborted' = TRUE
  /\ DropQueue
  /\ UNCHANGED <<server, proc, active, report, received>>

--------------------------------------------------------------------------------
(***************************************************************************)
(* The pipeline and the outbox.                                            *)
(***************************************************************************)

Send(r, id) ==
  /\ wire' = wire \cup {ReportRequest(r, id)}
  /\ report' = [report EXCEPT ![r] = [state |-> "sending", id |-> id]]

Keep(r) == [report EXCEPT ![r] = [state |-> "kept", id |-> None]]

\* The report of run r is serialized and owed.  An aborted daemon keeps it; a
\* process-control failure (failed) records the fatal error and drops the
\* queue first, and delays the abort until the report was attempted.
Owe(r, failed) ==
  /\ fatal' = (fatal \/ failed)
  /\ IF failed THEN DropQueue ELSE UNCHANGED <<queue, known>>
  /\ \/ /\ aborted
        /\ report' = Keep(r)
        /\ active' = None
        /\ UNCHANGED wire
     \/ /\ ~aborted
        /\ \E id \in FreeAttempts("report") : Send(r, id)
        /\ active' = [run |-> r, stage |-> "reporting", failed |-> failed]
  /\ UNCHANGED <<server, answer, proc, aborted, poll, received>>

\* The runner settles; an artifact loop's final sync comes before the report.
RunnerSettles ==
  /\ active # None /\ active.stage = "running"
  /\ \E failed \in BOOLEAN :
       IF owner[active.run] \in ArtifactLoop
       THEN /\ active' = [active EXCEPT !.stage = "syncing", !.failed = failed]
            /\ UNCHANGED <<server, net, proc, fatal, aborted, queue, report,
                           known, poll, received>>
       ELSE Owe(active.run, failed)

FinalSyncEnds ==
  /\ active # None /\ active.stage = "syncing"
  /\ Owe(active.run, active.failed)

\* The first attempt is part of the pipeline, the retries are not.
InPipeline(r) == active # None /\ active.run = r /\ active.stage = "reporting"

PipelineAfter(r) == IF InPipeline(r) THEN None ELSE active

Escalates(r) == InPipeline(r) /\ active.failed

\* Mutant: a report is sent once.
AfterFailure_NoRetry(r) == Keep(r)

\* A failed attempt is followed by a pause, an aborted one by nothing.
AfterFailure(r) ==
  IF aborted THEN Keep(r)
  ELSE [report EXCEPT ![r] = [state |-> "waiting", id |-> None]]

\* An attempt ends without an answer.
ReportUnanswered(r) ==
  /\ report[r].state = "sending"
  /\ report' = AfterFailure(r)
  /\ Hangup("report", report[r].id)
  /\ active' = PipelineAfter(r)
  /\ aborted' = (aborted \/ Escalates(r))
  /\ UNCHANGED <<server, proc, fatal, queue, known, poll, received>>

RetryReport(r) ==
  /\ report[r].state = "waiting" /\ ~aborted
  /\ \E id \in FreeAttempts("report") : Send(r, id)
  /\ UNCHANGED <<server, answer, proc, fatal, aborted, queue, active, known,
                 poll, received>>

\* Mutant: a confirmed report does not look at the queue.
AfterConfirmation_NoDispatch(r, outbox) ==
  queue' = queue /\ active' = PipelineAfter(r)

\* The confirmed run leaves its slot to the next.
AfterConfirmation(r, outbox) == MaybeStartNext(queue, PipelineAfter(r), outbox)

\* A 2xx, or the coded 401 of a lease that was consumed.
ReportConfirmed(r) ==
  /\ report[r].state = "sending"
  /\ \E m \in answer :
       /\ m.kind = "report" /\ m.id = report[r].id /\ m.run = r
       /\ answer' = answer \ {m}
  /\ IF aborted
     THEN /\ report' = Keep(r)
          /\ active' = PipelineAfter(r)
          /\ UNCHANGED <<queue, known>>
     ELSE LET outbox == [report EXCEPT ![r] = NoReport] IN
          /\ report' = outbox
          /\ known' = known \ {r}
          /\ AfterConfirmation(r, outbox)
  /\ aborted' = (aborted \/ Escalates(r))
  /\ UNCHANGED <<server, wire, proc, fatal, poll, received>>

\* Mutant: a protocol error is taken for a confirmation.
ReportFatal_Confirms(r) ==
  /\ r \in Refused /\ report[r].state = "sending"
  /\ report' = [report EXCEPT ![r] = NoReport]
  /\ active' = PipelineAfter(r)
  /\ known' = known \ {r}
  /\ Hangup("report", report[r].id)
  /\ UNCHANGED <<server, proc, fatal, aborted, queue, poll, received>>

\* A protocol error: another 4xx, or a 401 without the code.
ReportFatal(r) ==
  /\ r \in Refused /\ report[r].state = "sending"
  /\ report' = Keep(r)
  /\ active' = PipelineAfter(r)
  /\ Hangup("report", report[r].id)
  /\ fatal' = TRUE /\ aborted' = TRUE
  /\ DropQueue
  /\ UNCHANGED <<server, proc, poll, received>>

--------------------------------------------------------------------------------
(***************************************************************************)
(* Shutdown, crash and start.                                              *)
(***************************************************************************)

Signal ==
  /\ proc = "running" /\ ~aborted
  /\ aborted' = TRUE
  /\ UNCHANGED <<server, net, proc, fatal, queue, active, report, known, poll,
                 received>>

\* The loop sees the fatal error or the signal: run() aborts what waits.
LeaveLoop ==
  /\ Looping /\ (fatal \/ aborted)
  /\ proc' = "draining"
  /\ aborted' = TRUE
  /\ UNCHANGED <<server, net, fatal, queue, active, report, known, poll, received>>

\* Mutant: the backlog outlives the end of the loop.
DropBacklog_Kept ==
  /\ proc = "draining"
  /\ proc' = "closing"
  /\ UNCHANGED <<server, net, fatal, aborted, queue, active, report, known, poll,
                 received>>

\* The artifact watch is drained; what never started is dropped.
DropBacklog ==
  /\ proc = "draining"
  /\ proc' = "closing"
  /\ DropQueue
  /\ UNCHANGED <<server, net, fatal, aborted, active, report, poll, received>>

Quiescent == queue = <<>> /\ active = None

\* run() joins the active pipeline, never the outbox.
Join ==
  /\ proc = "closing" /\ Quiescent
  /\ proc' = "exited"
  /\ UNCHANGED <<server, net, fatal, aborted, queue, active, report, known,
                 poll, received>>

\* What the process held in memory is gone, and nothing of it acts any more.
Crash ==
  /\ proc # "exited"
  /\ proc' = "exited"
  /\ queue' = <<>> /\ active' = None /\ poll' = None
  /\ report' = [r \in Run |-> NoReport]
  /\ known' = {} /\ received' = {}
  /\ UNCHANGED <<server, net, fatal, aborted>>

\* A new process knows nothing of the old one.
Start ==
  /\ proc = "exited"
  /\ proc' = "running"
  /\ fatal' = FALSE /\ aborted' = FALSE
  /\ queue' = <<>> /\ active' = None /\ poll' = None
  /\ report' = [r \in Run |-> NoReport]
  /\ known' = {} /\ received' = {}
  /\ answer' = {}
  /\ UNCHANGED <<server, wire>>

--------------------------------------------------------------------------------
(***************************************************************************)
(* The server and the network.                                             *)
(***************************************************************************)

\* The poll's handler claims one more pending run.  This repository's server
\* stops at one per free slot; the daemon is to cope with any number.
ClaimForPoll(m) ==
  /\ m.kind = "poll"
  /\ \E r \in Run :
       /\ Server!HandOut(r)
       /\ wire' = (wire \ {m}) \cup {[m EXCEPT !.got = Append(@, r)]}
  /\ UNCHANGED <<answer, daemon>>

\* The answer to an attempt nobody waits for is discarded with its connection.
Awaited(m) ==
  IF m.kind = "poll" THEN m.id = poll
  ELSE report[m.run].state = "sending" /\ report[m.run].id = m.id

Answer(m) ==
  /\ wire' = wire \ {m}
  /\ answer' = IF Awaited(m) THEN answer \cup {m} ELSE answer

AnswerPoll(m) == m.kind = "poll" /\ Answer(m) /\ UNCHANGED <<server, daemon>>

\* The report's transaction, or the coded 401 that changes nothing.
HandleReport(m) ==
  /\ m.kind = "report" /\ m.run \notin Refused
  /\ LET r == m.run IN
     \/ Server!Settle(r, {})
     \/ Server!Settle(r, Server!Of(owner[r], "waiting"))
     \/ status[r] \notin {"working", "reclaimed"} /\ UNCHANGED server
  /\ Answer(m)
  /\ UNCHANGED daemon

\* A request or an answer is lost, or the handler fails.
Lose(m) ==
  /\ wire' = wire \ {m}
  /\ UNCHANGED <<server, answer, daemon>>

\* What else happens on the server: triggers, cancels, the sweep, a reopen.
ServerElse ==
  /\ \/ \E r \in Run, l \in Loop : Server!Enqueue(r, l)
     \/ \E r \in Run : Server!Reclaim(r) \/ Server!Lapse(r) \/ Server!Cancel(r)
     \/ \E l \in Loop : Server!StartOver(l)
  /\ UNCHANGED <<net, daemon>>

--------------------------------------------------------------------------------

DaemonStep ==
  \/ PollTransient \/ PollAnswered \/ LeaveLoop \/ DropBacklog \/ Join
  \/ RunnerSettles \/ FinalSyncEnds
  \/ \E r \in Run : ReportUnanswered(r) \/ RetryReport(r) \/ ReportConfirmed(r)

ServerStep ==
  \E m \in wire :
    ClaimForPoll(m) \/ AnswerPoll(m) \/ HandleReport(m) \/ Lose(m)

Next ==
  \/ PollOnce \/ DaemonStep \/ ServerStep \/ ServerElse
  \/ PollFatal \/ Signal \/ Crash \/ Start
  \/ \E r \in Run : ReportFatal(r)

Spec == Init /\ [][Next]_vars

\* Timers and continuations run, the runner and the final sync settle, an abort
\* signal ends what waits on it.  The network may fail for long but not for
\* ever: a request ends somehow, and a report that is sent again and again is
\* handled and answered in time in the end.
Fairness ==
  /\ WF_vars(PollTransient \/ PollAnswered)
  /\ WF_vars(LeaveLoop) /\ WF_vars(DropBacklog) /\ WF_vars(Join)
  /\ WF_vars(RunnerSettles) /\ WF_vars(FinalSyncEnds)
  /\ \A r \in Run :
       /\ WF_vars(ReportUnanswered(r) \/ ReportConfirmed(r))
       /\ WF_vars(RetryReport(r))
       /\ SF_vars(ReportConfirmed(r))
       /\ SF_vars(\E m \in wire : /\ m.kind = "report" /\ m.run = r
                                   /\ Awaited(m) /\ HandleReport(m))
  /\ \A id \in Attempt :
       WF_vars(\E m \in wire : /\ m.kind = "report" /\ m.id = id
                               /\ HandleReport(m) \/ Lose(m))

FairSpec == Spec /\ Fairness

--------------------------------------------------------------------------------
(***************************************************************************)
(* Properties.                                                             *)
(***************************************************************************)

\* Every variable has its type.
TypeOK ==
  /\ Server!TypeOK
  /\ \A m \in wire \cup answer : m \in PollMessage \/ m \in ReportMessage
  /\ proc \in {"running", "draining", "closing", "exited"}
  /\ fatal \in BOOLEAN /\ aborted \in BOOLEAN
  /\ queue \in Seq(Run)
  /\ active \in {None} \cup Pipeline
  /\ report \in [Run -> [state : {"none", "sending", "waiting", "kept"},
                         id : Attempt \cup {None}]]
  /\ known \subseteq Run /\ received \subseteq Run
  /\ poll \in Attempt \cup {None}

Alive == proc = "running" /\ ~fatal /\ ~aborted

\* While the daemon is up it never forgets a run the server still counts on:
\* whatever is lost, late or answered twice, a run it was given and no longer
\* tracks has been settled, canceled or given up by the server.
NoRunIsForgotten ==
  Alive => \A r \in received :
    status[r] \in {"working", "reclaimed"} => r \in known

\* The daemon works on one run at a time, and an unconfirmed report counts.
OneRunOccupiesTheDaemon ==
  \A r, s \in InFlight(active) \cup Pending(report) : r = s

\* No wakeup is lost and none is owed to a dead queue: a run waits only behind
\* another one or for the end of an aborted process, and after a fatal error
\* nothing waits at all.
NoLostWakeup ==
  queue # <<>> /\ proc # "exited" =>
    ~fatal /\ (~ExecutionIdle(active, report) \/ aborted)

\* A slot that a poll advertised is still free when its answer comes, so that a
\* server that honours availableSlots never claims a run that has to wait.
AdvertisedSlotStaysFree ==
  \A m \in wire \cup answer :
    m.kind = "poll" /\ m.id = poll /\ m.slots = 1 =>
      queue = <<>> /\ ExecutionIdle(active, report)

\* A run that the server hands out finds the slot it was promised, for nothing
\* else occupies the daemon.
OneRunAtATime == TypeOK /\ OneRunOccupiesTheDaemon /\ AdvertisedSlotStaysFree

\* The activity snapshot, which the heartbeats and the dedupe of deliveries
\* live on, is exactly what is queued, executing or reporting.
SnapshotCoversActivity ==
  proc = "running" =>
    known = Elements(queue) \cup InFlight(active) \cup Pending(report)

\* Work the daemon has is tracked and, when its turn comes, started.
WorkIsTracked == NoLostWakeup /\ SnapshotCoversActivity

\* The owed report of a run whose process could not be controlled is attempted
\* before the abort.
OwedReportBeforeAbort ==
  [][~aborted /\ proc' = "draining" =>
       ~\E r \in Run : Escalates(r) /\ report[r].state = "sending"]_vars

\* A daemon that is told to stop, or must, exits.
StopCompletes == fatal \/ aborted ~> proc = "exited"

\* A report is repeated until it is confirmed, unless the daemon stops, which
\* a refused one makes it do.
ReportsGetThrough ==
  \A r \in Run \ Refused :
    Alive /\ report[r].state # "none" ~> report[r].state = "none" \/ ~Alive

================================================================================
