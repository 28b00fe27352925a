----------------------------- MODULE ArtifactSync -----------------------------
(***************************************************************************)
(* The daemon's artifact sync client: a call turns the local tree of a loop *)
(* into the server's manifest, or comes to one closed outcome.  Calls of    *)
(* one loop queue; refusals of the credential stop later calls.  The sync   *)
(* that follows a run runs under a deadline and then reports within a       *)
(* budget.  UploadGate has the gate its uploads pass.                       *)
(*                                                                          *)
(* One loop, whose calls are the watch manager's rounds and reports and the *)
(* final sync's.  A request may be applied and its answer lost, so it may   *)
(* be sent again, and a commit may land after its caller gave up.  A tree   *)
(* is the set of the hashes of its files.  Of the server there is what the  *)
(* daemon can tell (ArtifactHome has its inside); which blobs it has is     *)
(* left open.                                                               *)
(***************************************************************************)
EXTENDS Naturals, FiniteSets

CONSTANTS
  Hash,           \* contents of files
  Tree,           \* the trees the loop's directory may hold
  None,           \* null, undefined
  MaxRescans, MaxRenegotiations,
  MaxConfig,      \* bound: generations of the configuration
  MaxCalls,       \* bound: calls that are begun
  MaxChanges      \* bound: changes of the tree, the server and the stops

ASSUME SyncAssumption ==
  /\ Tree \subseteq SUBSET Hash /\ None \notin Tree
  /\ MaxRescans \in Nat /\ MaxRenegotiations \in Nat /\ MaxConfig \in Nat \ {0}

\* What the daemon records of the server, and the session of a proposal.
Record == [config : 1..MaxConfig, revision : Nat, tree : Tree \cup {None}]

Session ==
  [config : 1..MaxConfig, base : Nat, tree : Tree, made : BOOLEAN,
   receipt : Nat \cup {None}, late : BOOLEAN, own : BOOLEAN]

ASSUME NullAssumption == None \notin Nat \cup Record \cup Session

VARIABLES
  tree,      \* the files of the directory
  server,    \* the loop at the server: generation, revision, manifest
  orphans,   \* trees whose commit may still land, their session replaced
  baseline,  \* LoopState.baseline
  pending,   \* LoopState.pending, and what became of its session
  stop,      \* machineStop and loopStops
  call,      \* the calls
  final,     \* FinalArtifactSync.run
  shutdown,  \* the daemon is stopping
  begun,     \* number of calls begun
  changes    \* number of changes

server_side == <<server, orphans>>
client == <<baseline, pending, stop>>
counted == <<begun, changes>>
vars == <<tree, server_side, client, call, final, shutdown, counted>>

Call == {"round", "report", "final"}

\* freshPending is what the final sync's call begins with.
Idle == [at |-> "idle", config |-> 0, aborted |-> FALSE, fresh |-> FALSE,
         rescans |-> 0, renegotiations |-> 0, behind |-> {}]

\* Past the queue a round is where its next answer is awaited.
Round == {"read", "scan", "prepare", "upload", "commit", "report"}

CallState ==
  [at : {"idle", "queued"} \cup Round, config : 0..MaxConfig, aborted : BOOLEAN,
   fresh : BOOLEAN, rescans : 0..MaxRescans,
   renegotiations : 0..MaxRenegotiations, behind : SUBSET Call]

Busy(c) == call[c].at # "idle"

Changes == changes < MaxChanges /\ changes' = changes + 1

--------------------------------------------------------------------------------
(***************************************************************************)
(* The server, as its clients see it                                       *)
(***************************************************************************)

\* What the proposal p meets: a session that was committed is replayed, before its
\* generation and its base are looked at.
PrepareAnswer(p) ==
  IF p.receipt # None THEN "receipt"
  ELSE IF p.config # server.config THEN "config_conflict"
  ELSE IF p.base # server.revision THEN "conflict"
  ELSE "open"

\* What the commit of the session p meets.
Answer(p) == IF ~p.made THEN "gone" ELSE PrepareAnswer(p)

\* The tree t is committed: no commit against the older revision lands any more.
Publishes(t) ==
  /\ server' = [server EXCEPT !.revision = @ + 1, !.manifest = t]
  /\ orphans' = {}

\* A commit arrives that nobody waits for any more.
LateCommit ==
  /\ \/ \E t \in orphans : Publishes(t) /\ UNCHANGED pending
     \/ /\ pending # None /\ pending.late /\ Answer(pending) = "open"
        /\ Publishes(pending.tree)
        /\ pending' = [pending EXCEPT !.late = FALSE, !.receipt = server.revision + 1]
     \/ /\ pending # None /\ pending.late /\ Answer(pending) # "open"
        /\ pending' = [pending EXCEPT !.late = FALSE]
        /\ UNCHANGED server_side
  /\ UNCHANGED <<tree, baseline, stop, call, final, shutdown, counted>>

\* A configuration change keeps the manifest and its revision.
ConfigChanges ==
  /\ server.config < MaxConfig /\ Changes
  /\ server' = [server EXCEPT !.config = @ + 1]
  /\ orphans' = {}
  /\ UNCHANGED <<tree, client, call, final, shutdown, begun>>

\* The session expires, or the server has lost it.
ServerForgets ==
  /\ pending # None /\ pending.made /\ pending.receipt = None
  /\ Changes
  /\ pending' = [pending EXCEPT !.made = FALSE]
  /\ UNCHANGED <<tree, server_side, baseline, stop, call, final,
                 shutdown, begun>>

FilesChange ==
  /\ Changes
  /\ tree' \in Tree \ {tree}
  /\ UNCHANGED <<server_side, client, call, final, shutdown, begun>>

--------------------------------------------------------------------------------
(***************************************************************************)
(* Calls: the queue of a loop, outcomes, stops                             *)
(***************************************************************************)

\* The slot of call c is released; those before it still count.
Forgotten(c, behind) == behind \ {c}

\* Mutant: the record survives every outcome.
Kept_Always(outcome, b) == b

\* runRound's invalidation: only unchanged and synced leave the record known.
Kept(outcome, b) ==
  IF b = None \/ outcome \in {"unchanged", "synced"} THEN b
  ELSE [b EXCEPT !.tree = None]

\* runSerialized: call c comes to its outcome and leaves the queue.
Released(c, outcome) ==
  /\ call' = [d \in Call |->
       IF d = c THEN Idle ELSE [call[d] EXCEPT !.behind = Forgotten(c, @)]]
  /\ final' = IF c = "final"
              THEN [final EXCEPT !.outcome = outcome,
                                 !.own = outcome = "synced" /\ pending.own]
              ELSE final

\* The round of call c comes to its outcome, with b for the baseline.
End(c, outcome, b) == Released(c, outcome) /\ baseline' = Kept(outcome, b)

EndOf(c, outcome) == End(c, outcome, baseline) /\ UNCHANGED <<pending, stop>>

\* The pending session is replaced: its commit may be on its way.
Orphaned ==
  orphans' = orphans \cup (IF pending # None /\ pending.late /\ Answer(pending) = "open"
                          THEN {pending.tree} ELSE {})

\* config_changed: what is known of the loop is dropped.
EndConfigChanged(c) ==
  /\ End(c, "config_changed", None)
  /\ pending' = None
  /\ Orphaned
  /\ UNCHANGED stop

\* recordStop for a 401 or a 403; their scopes are the same to one loop.
EndDenied(c) ==
  /\ End(c, "stopped", baseline)
  /\ stop' = TRUE
  /\ UNCHANGED pending

\* send gives up after a number of transient faults, or when it is aborted.
GivesUp(c) == EndOf(c, IF call[c].aborted THEN "cancelled" ELSE "unavailable")

\* The round goes on with its next step.
Goto(c, at) == call' = [call EXCEPT ![c].at = at] /\ UNCHANGED final

\* The round begins anew with record r of itself: the baseline is read again.
Restart(c, r) ==
  /\ call' = [call EXCEPT ![c] = [r EXCEPT !.at = "read"]]
  /\ baseline' = [baseline EXCEPT !.tree = None]
  /\ UNCHANGED <<pending, stop, final>>

\* Mutant: a round negotiates again without end.
Renegotiates_Always(c) == TRUE

\* The round may be negotiated once more.
Renegotiates(c) == call[c].renegotiations < MaxRenegotiations

Renegotiate(c) ==
  IF Renegotiates(c)
  THEN Restart(c, [call[c] EXCEPT !.renegotiations =
                     IF @ < MaxRenegotiations THEN @ + 1 ELSE @])
  ELSE EndOf(c, "terminal")

\* syncLoop and reportLocalFailure: a stopped client sends nothing; calls of
\* the loop that are busy come first.
Begun(c, config) ==
  IF stop THEN Idle
  ELSE [Idle EXCEPT !.at = "queued", !.config = config, !.fresh = (c = "final"),
                    !.behind = {d \in Call \ {c} : Busy(d)}]

\* The watch manager's calls, for a watch item that may be of an older generation.
Begin(c, config) ==
  /\ c # "final" /\ ~Busy(c) /\ ~shutdown /\ ~stop
  /\ begun < MaxCalls /\ begun' = begun + 1
  /\ call' = [call EXCEPT ![c] = Begun(c, config)]
  /\ UNCHANGED <<tree, server_side, client, final, shutdown, changes>>

Reports(c) == c = "report" \/ (final.at = "reporting" /\ c = "final")

\* Its turn: the baseline is read unless it is known and of this generation.
Turn(c) ==
  /\ call[c].at = "queued" /\ call[c].behind = {} /\ ~call[c].aborted
  /\ Goto(c, IF /\ ~Reports(c) /\ baseline # None /\ baseline.tree # None
                /\ baseline.config = call[c].config
             THEN "scan" ELSE "read")
  /\ UNCHANGED <<tree, server_side, client, shutdown, counted>>

\* A queued call that is cancelled leaves at once: it has run no round, and what is
\* known stays known.
LeaveQueue(c) ==
  /\ call[c].at = "queued" /\ call[c].aborted
  /\ Released(c, "cancelled")
  /\ UNCHANGED <<tree, server_side, client, shutdown, counted>>

Abort(calls) ==
  call' = [c \in Call |-> [call[c] EXCEPT !.aborted = @ \/ (c \in calls /\ Busy(c))]]

\* The loop is parked.
Cancel(c) ==
  /\ c # "final" /\ Busy(c) /\ ~call[c].aborted
  /\ Abort({c})
  /\ UNCHANGED <<tree, server_side, client, final, shutdown, counted>>

\* clearStops, by a watch set that changed
ClearStops ==
  /\ stop /\ Changes
  /\ stop' = FALSE
  /\ UNCHANGED <<tree, server_side, baseline, pending, call, final, shutdown,
                 begun>>

--------------------------------------------------------------------------------
(***************************************************************************)
(* A round: read, scan, prepare, upload, commit                            *)
(***************************************************************************)

\* readBaselineOnce, and what syncLoop or the report makes of it
Read(c) ==
  /\ call[c].at = "read"
  /\ \/ stop /\ EndOf(c, "stopped") /\ UNCHANGED orphans
     \/ ~stop /\ GivesUp(c) /\ UNCHANGED orphans
     \/ /\ ~stop /\ ~call[c].aborted
        /\ \/ EndDenied(c) /\ UNCHANGED orphans
           \/ EndOf(c, "terminal") /\ UNCHANGED orphans
           \/ server.config # call[c].config /\ EndConfigChanged(c)
           \/ /\ server.config = call[c].config
              /\ baseline' = [config |-> server.config, revision |-> server.revision,
                              tree |-> None]
              /\ Goto(c, IF Reports(c) THEN "report" ELSE "scan")
              /\ UNCHANGED <<orphans, pending, stop>>
  /\ UNCHANGED <<tree, server, shutdown, counted>>

Payload(p) == [config |-> p.config, base |-> p.base, tree |-> p.tree]

\* The payload decides the session; a final sync's first proposal is a new one.
Mints(c, p) == call[c].fresh \/ pending = None \/ Payload(pending) # p

\* The tree is scanned: a local failure is reported, an unchanged tree has
\* nothing to say, another one is proposed to the server.
Scan(c) ==
  /\ call[c].at = "scan"
  /\ \/ call[c].aborted /\ EndOf(c, "cancelled") /\ UNCHANGED orphans
     \/ Goto(c, "report") /\ UNCHANGED <<orphans, baseline, pending, stop>>
     \/ /\ c # "final" /\ baseline.tree = tree /\ baseline.config = call[c].config
        /\ EndOf(c, "unchanged")
        /\ UNCHANGED orphans
     \/ /\ c = "final" \/ baseline.tree # tree \/ baseline.config # call[c].config
        /\ LET p == [config |-> call[c].config, base |-> baseline.revision,
                     tree |-> tree] IN
           IF Mints(c, p)
           THEN /\ pending' = [config |-> p.config, base |-> p.base, tree |-> tree,
                               made |-> FALSE, receipt |-> None, late |-> FALSE,
                               own |-> c = "final"]
                /\ Orphaned
           ELSE UNCHANGED <<pending, orphans>>
        /\ call' = [call EXCEPT ![c].at = "prepare", ![c].fresh = FALSE]
        /\ UNCHANGED <<baseline, stop, final>>
  /\ UNCHANGED <<tree, server, shutdown, counted>>

\* prepare: its answer, or its effect without the answer, after which it is sent
\* again or given up.  A replay asks for no blob and has its receipt read.
Prepare(c) ==
  /\ call[c].at = "prepare"
  /\ LET answer == PrepareAnswer(pending)
         made == [pending EXCEPT !.made = @ \/ answer = "open"]
     IN \/ GivesUp(c) /\ UNCHANGED orphans
        \/ /\ pending' = made /\ made # pending
           /\ UNCHANGED <<orphans, baseline, stop, call, final>>
        \/ /\ ~call[c].aborted
           /\ \/ EndDenied(c) /\ UNCHANGED orphans
              \/ EndOf(c, "terminal") /\ UNCHANGED orphans
              \/ answer = "config_conflict" /\ EndConfigChanged(c)
              \/ /\ answer \in {"conflict", "open"}  \* a conflict or storage fault
                 /\ Renegotiate(c) /\ UNCHANGED orphans
        \/ /\ ~call[c].aborted /\ answer = "open"
           /\ pending' = made
           /\ Goto(c, "upload")
           /\ UNCHANGED <<orphans, baseline, stop>>
        \/ /\ ~call[c].aborted /\ answer = "receipt"
           /\ Goto(c, "commit")
           /\ UNCHANGED <<orphans, baseline, pending, stop>>
  /\ UNCHANGED <<tree, server, shutdown, counted>>

\* What putting a blob meets.
PutAnswer ==
  IF Answer(pending) \in {"open", "conflict"} THEN "stored" ELSE Answer(pending)

\* readVerifiedArtifactEntry: the file of that hash, read again, still is that.
Verified(h) == h \in tree

\* uploadGroup: the files of a hash are read again and compared, and what was
\* read is put.
GroupResults(c, h) ==
  {"unreadable", "exhausted", "denied", "mismatch", "terminal"}
  \cup (IF Verified(h) THEN {PutAnswer} ELSE {"changed"})
  \cup (IF call[c].aborted THEN {"aborted"} ELSE {})

Refusals == {"gone", "receipt", "config_conflict", "mismatch", "terminal"}

\* uploadNeeded: a refusal of the credential comes first, then other refusals,
\* then what ended a group.
Adjudicated(results) ==
  IF "denied" \in results THEN {"denied"}
  ELSE IF results \cap Refusals # {} THEN results \cap Refusals
  ELSE results

\* What the round does when every group has ended.
Uploaded(c, judged) ==
  \/ "config_conflict" \in judged /\ EndConfigChanged(c)
  \/ /\ \/ "denied" \in judged /\ EndDenied(c)
        \/ "terminal" \in judged /\ EndOf(c, "terminal")
        \/ "aborted" \in judged /\ EndOf(c, "cancelled")
        \/ "exhausted" \in judged /\ EndOf(c, "unavailable")
        \/ "gone" \in judged /\ Renegotiate(c)
        \/ /\ judged \cap {"mismatch", "changed"} # {}
           /\ call[c].rescans < MaxRescans
           /\ Restart(c, [call[c] EXCEPT !.rescans = @ + 1])
        \/ /\ "mismatch" \in judged /\ call[c].rescans = MaxRescans
           /\ EndOf(c, "terminal")
        \/ /\ \/ "changed" \in judged /\ call[c].rescans = MaxRescans
              \/ "unreadable" \in judged
           /\ Goto(c, "report")
           /\ UNCHANGED <<baseline, pending, stop>>
        \/ /\ judged = {} \/ "receipt" \in judged  \* recovers its receipt
           /\ Goto(c, "commit")
           /\ UNCHANGED <<baseline, pending, stop>>
     /\ UNCHANGED orphans

\* The groups the server asked for, all of them awaited.
Upload(c) ==
  /\ call[c].at = "upload"
  /\ \E need \in SUBSET pending.tree :
     \E result \in [need -> UNION {GroupResults(c, h) : h \in need}] :
       LET results == {result[h] : h \in need} \ {"stored"} IN
       /\ \A h \in need : result[h] \in GroupResults(c, h)
       /\ Uploaded(c, Adjudicated(results))
  /\ UNCHANGED <<tree, server, shutdown, counted>>

\* commitOnce: a commit or its replay.  Its answer is lost, or it is given up
\* while it is on its way, or it is answered.
Commit(c) ==
  /\ call[c].at = "commit"
  /\ LET answer == Answer(pending) IN
     \/ /\ End(c, IF call[c].aborted THEN "cancelled" ELSE "unavailable", baseline)
        /\ pending' = [pending EXCEPT !.late = TRUE]
        /\ UNCHANGED <<server_side, stop>>
     \/ GivesUp(c) /\ UNCHANGED server_side
     \/ /\ answer = "open"
        /\ Publishes(pending.tree)
        /\ pending' = [pending EXCEPT !.receipt = server.revision + 1]
        /\ UNCHANGED <<baseline, stop, call, final>>
     \/ /\ ~call[c].aborted
        /\ \/ EndDenied(c) /\ UNCHANGED orphans
           \/ EndOf(c, "terminal") /\ UNCHANGED orphans
           \/ answer = "config_conflict" /\ EndConfigChanged(c)
           \/ /\ answer # "config_conflict" /\ answer # "receipt"
              /\ Renegotiate(c)  \* conflict, expiry, blobs missing
              /\ UNCHANGED orphans
        /\ UNCHANGED server
     \/ /\ ~call[c].aborted /\ answer = "receipt"
        /\ End(c, "synced",
               [config |-> call[c].config, revision |-> pending.receipt,
                tree |-> IF pending.receipt = baseline.revision + 1
                         THEN pending.tree ELSE None])
        /\ pending' = None
        /\ UNCHANGED <<server_side, stop>>
  /\ UNCHANGED <<tree, shutdown, counted>>

\* The one report of a local failure: whatever becomes of it, the call failed.
Report(c) ==
  /\ call[c].at = "report"
  /\ End(c, "failed", baseline)
  /\ UNCHANGED pending
  /\ \/ ~call[c].aborted /\ stop' = TRUE
     \/ UNCHANGED stop
  /\ UNCHANGED <<tree, server_side, shutdown, counted>>

--------------------------------------------------------------------------------
(***************************************************************************)
(* The final sync of a run                                                 *)
(***************************************************************************)

\* The closed outcomes of a call.
Outcome == {"unchanged", "synced", "cancelled", "unavailable", "terminal", "stopped",
            "config_changed", "failed"}

FinalState ==
  [at : {"idle", "syncing", "reporting", "done"}, fired : BOOLEAN,
   outcome : Outcome \cup {None}, own : BOOLEAN, config : 0..MaxConfig,
   answer : {"snapshot", "timeout", "nothing", "error", None}]

NoFinal == [at |-> "idle", fired |-> FALSE, outcome |-> None, own |-> FALSE,
            config |-> 0, answer |-> None]

\* A call of the final sync; a stopped client answers at once.
FinalCalls(at, config) ==
  /\ call' = [call EXCEPT !["final"] = Begun("final", config)]
  /\ final' = [final EXCEPT !.at = at, !.config = config,
                            !.outcome = IF stop THEN "stopped" ELSE None]

FinalStarts(config) ==
  /\ final.at = "idle" /\ ~shutdown
  /\ FinalCalls("syncing", config)
  /\ UNCHANGED <<tree, server_side, client, shutdown, counted>>

\* The deadline, or the budget of the report, is over while its call is busy.
Deadline ==
  /\ final.at \in {"syncing", "reporting"} /\ Busy("final")
  /\ ~call["final"].aborted /\ ~shutdown
  /\ final' = [final EXCEPT !.fired = TRUE]
  /\ Abort({"final"})
  /\ UNCHANGED <<tree, server_side, client, shutdown, counted>>

Done(answer) ==
  /\ final' = [final EXCEPT !.at = "done", !.outcome = None, !.config = 0,
                            !.answer = IF answer \in {"snapshot", "timeout", "nothing"}
                                       THEN answer ELSE "error"]
  /\ UNCHANGED call

\* Mutant: the outcome tells whether the deadline was over.
Overdue_Cancelled == final.outcome = "cancelled"

\* The watcher itself saw the deadline pass.
Overdue == final.fired

\* The sync has settled and its deadline is disarmed: a snapshot is bound even if
\* it was late, an overdue failure is a timeout that is reported.
FinalSettles ==
  /\ final.at = "syncing" /\ ~Busy("final")
  /\ \/ shutdown /\ Done("nothing")
     \/ ~shutdown /\ final.outcome = "synced" /\ Done("snapshot")
     \/ ~shutdown /\ final.outcome # "synced" /\ ~Overdue /\ Done(final.outcome)
     \/ /\ ~shutdown /\ final.outcome # "synced" /\ Overdue
        /\ FinalCalls("reporting", final.config)
  /\ UNCHANGED <<tree, server_side, client, shutdown, counted>>

FinalReported ==
  /\ final.at = "reporting" /\ ~Busy("final")
  /\ Done(IF shutdown THEN "nothing" ELSE "timeout")
  /\ UNCHANGED <<tree, server_side, client, shutdown, counted>>

\* The daemon stops: every signal is aborted.  To a loop without a final sync that is
\* what a park is.
Shutdown ==
  /\ final.at \in {"syncing", "reporting"} /\ ~shutdown /\ shutdown' = TRUE
  /\ Abort(Call)
  /\ UNCHANGED <<tree, server_side, client, final, counted>>

--------------------------------------------------------------------------------

Init ==
  /\ tree \in Tree
  /\ server = [config |-> 1, revision |-> 0, manifest |-> None]
  /\ orphans = {} /\ baseline = None /\ pending = None /\ stop = FALSE
  /\ call = [c \in Call |-> Idle]
  /\ final = NoFinal /\ shutdown = FALSE
  /\ begun = 0 /\ changes = 0

CallStep(c) ==
  \/ Turn(c) \/ LeaveQueue(c) \/ Read(c) \/ Scan(c) \/ Prepare(c)
  \/ Upload(c) \/ Commit(c) \/ Report(c)

Next ==
  \/ \E c \in Call : CallStep(c) \/ Cancel(c)
  \/ \E c \in Call, config \in 1..server.config : Begin(c, config)
  \/ \E config \in 1..server.config : FinalStarts(config)
  \/ Deadline \/ FinalSettles \/ FinalReported \/ Shutdown \/ ClearStops
  \/ LateCommit \/ ConfigChanges \/ ServerForgets \/ FilesChange

Spec == Init /\ [][Next]_vars

--------------------------------------------------------------------------------
(***************************************************************************)
(* Properties                                                              *)
(***************************************************************************)

TypeOK ==
  /\ tree \in Tree /\ orphans \subseteq Tree
  /\ server \in [config : 1..MaxConfig, revision : Nat, manifest : Tree \cup {None}]
  /\ baseline \in {None} \cup Record
  /\ pending \in {None} \cup Session
  /\ call \in [Call -> CallState]
  /\ final \in FinalState

\* What the daemon takes for the server's manifest is the manifest, so a tree that
\* is passed over as unchanged is the one the server has: answers that were lost,
\* commits that land late and reverts of the tree do not make the record lie.
\* While a commit is on the wire the record may be one behind.
RecordIsTrue ==
  /\ TypeOK
  /\ baseline # None /\ baseline.tree # None /\ baseline.config = server.config
     /\ (\A c \in Call : call[c].at # "commit")
     => baseline.revision = server.revision /\ baseline.tree = server.manifest

\* Calls of a loop queue: one of them is past the queue at a time, also when one
\* that waits is cancelled, and when a call is busy one of them has its turn.
RoundsOfALoopQueue ==
  /\ \A c, d \in Call :
       call[c].at \in Round /\ call[d].at \in Round => c = d
  /\ (\E c \in Call : Busy(c)) => \E c \in Call : Busy(c) /\ call[c].behind = {}

\* The rounds of a loop, one after another, keep its record true.
RecordIsKept == RoundsOfALoopQueue /\ RecordIsTrue

\* What a run's report says of its artifacts: the snapshot of a session of its own,
\* a timeout exactly when the deadline was over first, and nothing only when the
\* daemon stops.
FinalAnswerIsHonest ==
  final.at = "done" =>
    /\ final.answer = "snapshot" => final.own
    /\ final.fired => final.answer \in {"snapshot", "timeout", "nothing"}
    /\ ~final.fired => final.answer # "timeout"
    /\ final.answer = "nothing" => shutdown

\* A call ends after a bounded number of steps, however often it is renegotiated
\* and scanned again: each step brings it closer to its outcome.
Stage(at) ==
  CASE at = "queued" -> 6 [] at = "read" -> 5 [] at = "scan" -> 4
    [] at = "prepare" -> 3 [] at = "upload" -> 2 [] at = "commit" -> 1
    [] OTHER -> 0

StepsLeft(c) ==
  7 * ((MaxRescans - call[c].rescans) + (MaxRenegotiations - call[c].renegotiations))
  + Stage(call[c].at)

CallsEnd ==
  [][\A c \in Call :
       Busy(c) /\ Busy(c)' /\ call'[c].at # call[c].at => StepsLeft(c)' < StepsLeft(c)]_vars

================================================================================
