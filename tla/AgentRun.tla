------------------------------- MODULE AgentRun -------------------------------
(***************************************************************************)
(* One run of an agent (daemon/src/claude-runner.ts) over ProcessGroup:    *)
(* the directories it mints, its last checks before the spawn, the stream  *)
(* of events the child writes (claude-stream.ts), the outbox its wrapper   *)
(* writes terminal commands into (wrapper-main.ts, journal.ts), the        *)
(* snapshot of the task file (task-file.ts) and the release of everything. *)
(*                                                                         *)
(* An event is known by what the parser makes of it, a record of the       *)
(* outbox by what the collector makes of it and by its inode.  Redaction,  *)
(* settings, prompt, cost and progress labels are left out, and failures   *)
(* that differ only in their message are one.                              *)
(***************************************************************************)
EXTENDS ProcessGroup, FiniteSets

CONSTANTS
  Entry,         \* names of outbox entries
  MaxWrites      \* bound: writes into the outbox

VARIABLES
  v1,        \* the run uses the terminal protocol 1
  stage,     \* where the runner is
  held,      \* directories minted and not released: "control", "temp", "scratch"
  parse,     \* the parser: its terminal result and whether it failed
  outbox,    \* [Entry -> record or None]
  writes,    \* records written, also the next inode
  listed,    \* the outbox as the collector listed it
  command,   \* the terminal command collected
  broken,    \* a release failed
  out        \* None, "ok", "failed" or "process-control"

runVars == <<v1, stage, held, parse, outbox, writes, listed, command, broken, out>>
vars == <<groupVars, runVars>>

\* What an entry is to the collector: a terminal command, or something that it
\* refuses - not a regular file, a marker of the wrapper, a record that violates
\* size, shape or policy or holds a secret.
RecordKind == {"command", "refused"}
Record == [kind : RecordKind, ino : 1..MaxWrites]

\* What a line of the stream is to the parser; "junk" stands for malformed and
\* overlong lines and for a result of another session.
Event == {"progress", "success", "failure", "junk"}

Init ==
  /\ GroupInit
  /\ v1 \in BOOLEAN
  /\ stage = "resolve" /\ held = {} /\ broken = FALSE /\ out = None
  /\ parse = [terminal |-> None, failed |-> FALSE]
  /\ outbox = [e \in Entry |-> None] /\ writes = 0
  /\ listed = [e \in Entry |-> None] /\ command = None

--------------------------------------------------------------------------------
(***************************************************************************)
(* Before the spawn.                                                       *)
(***************************************************************************)

\* The report or the exception is decided; the finally block follows.
Refuse == stage' = "release" /\ out' = "failed"

\* jail.resolve, which mints a scratch directory for a loop without a working
\* directory; a refused agent or root settles the run with nothing minted.
Resolve ==
  /\ stage = "resolve"
  /\ \/ stage' = "temp" /\ held' \in {{}, {"scratch"}} /\ UNCHANGED out
     \/ stage' = "done" /\ out' = "failed" /\ UNCHANGED held
  /\ UNCHANGED <<groupVars, v1, parse, outbox, writes, listed, command, broken>>

\* A step of the preparation that goes on to stage next, with directory d minted
\* unless it is None, or fails and leaves nothing of its own behind.
Prepares(from, next, d) ==
  /\ stage = from
  /\ \/ held' = held \cup ({d} \ {None}) /\ stage' = next /\ UNCHANGED out
     \/ Refuse /\ UNCHANGED held
  /\ UNCHANGED <<groupVars, v1, parse, outbox, writes, listed, command, broken>>

\* The temp root of the run, for every protocol.
PrepareTemp == Prepares("temp", IF v1 THEN "task_file" ELSE "jail", "temp")

\* Protocol 1: the task file has to resolve to a readable file in the jail,
ResolveTaskFile == Prepares("task_file", "control", None)

\* and the control directory with context and outbox is minted.
PrepareControl == Prepares("control", "jail", "control")

\* The last checks before the spawn: roots, working directory and scratch are
\* what they were,
RevalidateJail == Prepares("jail", IF v1 THEN "same_file" ELSE "binary", None)

\* the task file is the file that was resolved,
RevalidateTaskFile == Prepares("same_file", "binary", None)

\* and the binary is the one probed at startup; a stop cuts this check short.
CheckBinary ==
  /\ Prepares("binary", "spawn", None)
  /\ aborted => stage' = "release"

Start ==
  /\ stage = "spawn"
  /\ Spawn
  /\ stage' = "running"
  /\ UNCHANGED <<v1, held, parse, outbox, writes, listed, command, broken, out>>

--------------------------------------------------------------------------------
(***************************************************************************)
(* While processes live.                                                   *)
(***************************************************************************)

\* One line: a failure is sticky, one result is the terminal one, and after it
\* only a second result matters.
Parsed(p, e) ==
  IF p.failed \/ e = "progress" \/ (e = "junk" /\ p.terminal # None) THEN p
  ELSE IF e = "junk" \/ p.terminal # None THEN [p EXCEPT !.failed = TRUE]
  ELSE [p EXCEPT !.terminal = e]

\* A chunk arrives, perhaps after the child has exited.  Once there is a winner
\* it is not parsed any more; a failed parser throws and becomes the winner.
Chunk(e) ==
  /\ closing = "open" /\ settled = None /\ winner = None
  /\ parse' = Parsed(parse, e)
  /\ \/ parse'.failed /\ Trigger("consumer-error")
     \/ ~parse'.failed /\ UNCHANGED <<winner, term, settled>>
  /\ UNCHANGED <<at, pipes, exit, aborted, closing>>
  /\ UNCHANGED <<v1, stage, held, outbox, writes, listed, command, broken, out>>

\* Processes of the run reach its outbox.  What is written when the collector
\* is done is read by nobody.
OutboxOpen ==
  /\ v1 /\ Living # {}
  /\ stage \in {"running", "list", "read"}
  /\ writes < MaxWrites

\* An invocation of the wrapper creates exactly one record, under a name of its
\* own: the command, or a marker when it is invalid.
Invoke(e) ==
  /\ OutboxOpen /\ outbox[e] = None
  /\ writes' = writes + 1
  /\ \E k \in RecordKind : outbox' = [outbox EXCEPT ![e] = [kind |-> k, ino |-> writes']]
  /\ UNCHANGED <<groupVars, v1, stage, held, parse, listed, command, broken, out>>

\* The agent may write there without the wrapper: it replaces or removes.
Tamper(e) ==
  /\ OutboxOpen /\ outbox[e] # None
  /\ writes' = writes + 1
  /\ \/ outbox' = [outbox EXCEPT ![e] = None]
     \/ \E k \in RecordKind : outbox' = [outbox EXCEPT ![e] = [kind |-> k, ino |-> writes']]
  /\ UNCHANGED <<groupVars, v1, stage, held, parse, listed, command, broken, out>>

--------------------------------------------------------------------------------
(***************************************************************************)
(* After the child.                                                        *)
(***************************************************************************)

\* The child exited with zero after exactly one result, a success.
Succeeded(p) ==
  /\ settled = "exited" /\ exit = "zero"
  /\ ~p.failed /\ p.terminal = "success"

\* The call is back: a lost group is thrown, everything else becomes a report.
\* The parser is flushed first, which may yield one more line.
Returned ==
  /\ stage = "running" /\ settled # None
  /\ \E e \in Event : parse' = IF closing = "settled" THEN Parsed(parse, e) ELSE parse
  /\ \/ settled = "process-control" /\ stage' = "release" /\ out' = settled
     \/ /\ settled # "process-control" /\ Succeeded(parse') /\ v1
        /\ stage' = "list" /\ UNCHANGED out
     \/ /\ settled # "process-control" /\ Succeeded(parse') /\ ~v1
        /\ stage' = "release" /\ out' = "ok"
     \/ settled # "process-control" /\ ~Succeeded(parse') /\ Refuse
  /\ UNCHANGED <<groupVars, v1, held, outbox, writes, listed, command, broken>>

\* collectJournal lists the outbox and looks at every entry.
ListOutbox ==
  /\ stage = "list"
  /\ listed' = outbox
  /\ stage' = "read"
  /\ UNCHANGED <<groupVars, v1, held, parse, outbox, writes, command, broken, out>>

Listed == {e \in Entry : listed[e] # None}

\* The only entry.
Collectable(e) == Listed = {e}

\* The record is read by its name without following links, and must be the file
\* that was listed and hold a terminal command.
ReadRecord ==
  /\ stage = "read"
  /\ \/ \E e \in Entry :
          /\ Collectable(e)
          /\ outbox[e] # None /\ outbox[e].ino = listed[e].ino
          /\ outbox[e].kind = "command"
          /\ command' = outbox[e] /\ stage' = "snapshot" /\ UNCHANGED out
     \/ Refuse /\ UNCHANGED command
  /\ UNCHANGED <<groupVars, v1, held, parse, outbox, writes, listed, broken>>

\* snapshotTaskFile: its content or the reason why there is none ride along; a
\* failure does not undo the run.
Snapshot ==
  /\ stage = "snapshot"
  /\ stage' = "release" /\ out' = "ok"
  /\ UNCHANGED <<groupVars, v1, held, parse, outbox, writes, listed, command, broken>>

\* The finally block, in its order.  A directory is removed, or was replaced and
\* is left alone; either way the next one follows.
Release(d) ==
  /\ stage = "release" /\ d \in held
  /\ held' = held \ {d}
  /\ broken' \in {broken, TRUE}
  /\ UNCHANGED <<groupVars, v1, stage, parse, outbox, writes, listed, command, out>>

ReleaseControl == Release("control")
ReleaseTemp == "control" \notin held /\ Release("temp")
ReleaseScratch == held = {"scratch"} /\ Release("scratch")

\* A failed release fails the run, but never hides a lost group.
Final == IF broken /\ out # "process-control" THEN "failed" ELSE out

Released ==
  /\ stage = "release" /\ held = {}
  /\ stage' = "done" /\ out' = Final
  /\ UNCHANGED <<groupVars, v1, held, parse, outbox, writes, listed, command, broken>>

--------------------------------------------------------------------------------

\* Processes that outlive the run concern nobody here.
GroupActs == stage # "done" /\ GroupStep /\ UNCHANGED runVars

Prepare ==
  \/ Resolve \/ PrepareTemp \/ ResolveTaskFile \/ PrepareControl
  \/ RevalidateJail \/ RevalidateTaskFile \/ CheckBinary \/ Start

Conclude ==
  \/ Returned \/ ListOutbox \/ ReadRecord \/ Snapshot
  \/ ReleaseControl \/ ReleaseTemp \/ ReleaseScratch \/ Released

Next ==
  \/ Prepare \/ GroupActs
  \/ \E e \in Event : Chunk(e)
  \/ \E e \in Entry : Invoke(e) \/ Tamper(e)
  \/ Conclude

Timer == (Timeout \/ GroupGone \/ GraceExpires \/ GroupLost) /\ UNCHANGED runVars
Settling == (Close \/ Settle) /\ UNCHANGED runVars

\* The runner goes on, timers ring and 'close' follows the end of the output.
\* No process has to exit, and none has to obey a signal.
Fairness == WF_vars(Prepare) /\ WF_vars(Timer) /\ WF_vars(Settling) /\ WF_vars(Conclude)

--------------------------------------------------------------------------------
(***************************************************************************)
(* Properties.                                                             *)
(***************************************************************************)

TypeOK ==
  /\ GroupTypeOK
  /\ stage \in {"resolve", "temp", "task_file", "control", "jail", "same_file", "binary",
                "spawn", "running", "list", "read", "snapshot", "release", "done"}
  /\ held \subseteq {"control", "temp", "scratch"}
  /\ outbox \in [Entry -> Record \cup {None}]
  /\ command \in Record \cup {None}
  /\ out \in {None, "ok", "failed", "process-control"}

\* A run that settles frees the daemon for the next one.  Whenever it settles
\* with a report or an ordinary failure, no process of its group is left; only
\* a process-control failure, which ends the daemon, may leave one behind.
NothingRunsUnseen ==
  /\ TypeOK
  /\ stage = "done" /\ out # "process-control" => ~GroupAlive

\* A run that reports success had a child that exited by itself with zero, after
\* one result, with every directory released; under protocol 1, unless a
\* process left the group, the command it reports is the only record that was
\* ever left in the outbox, also of the processes that outlived the child.
SuccessIsEarned ==
  stage = "done" /\ out = "ok" =>
    /\ exit = "zero" /\ winner = None /\ ~broken
    /\ parse = [terminal |-> "success", failed |-> FALSE]
    /\ v1 /\ (\A p \in Proc : at[p] \notin {"escaped", "left"}) =>
         \E e \in Entry : outbox = [f \in Entry |-> IF f = e THEN command ELSE None]

\* A process that left the group still holds the output of the child.
PipeEscaped == \E p \in pipes : at[p] = "escaped"

================================================================================
