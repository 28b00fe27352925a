----------------------------- MODULE ProcessGroup -----------------------------
(***************************************************************************)
(* The process group of one agent run (daemon/src/subprocess.ts): a child  *)
(* that leads a group of its own, helpers it forks into the group or that  *)
(* leave it, the timer, the abort signal and a consumer of its output that *)
(* may throw, the termination routine SIGTERM - grace - SIGKILL, and the   *)
(* one place where the call settles.                                       *)
(*                                                                         *)
(* Any process may exit at any time and none has to, so the routine's two  *)
(* deadlines are steps that may always be taken.  kill(2) may refuse a     *)
(* signal; a probe of the group may fail, or answer EPERM, which the code  *)
(* takes for life.  What is kept of the output is in OutputCapture; the    *)
(* observer of the group that only an acceptance test installs is left out.*)
(***************************************************************************)
EXTENDS Naturals

CONSTANTS
  Helper,  \* processes the child may start, directly or not
  None

Child == "child"
Proc == {Child} \cup Helper

VARIABLES
  at,       \* "unborn", in the "group", "escaped" from it, "gone", or escaped and gone: "left"
  pipes,    \* the processes that hold the child's stdout or stderr
  exit,     \* how the child ended: None, "zero", "nonzero" or "signal"
  aborted,  \* the daemon's abort signal
  winner,   \* the first of timeout, abort and throwing consumer, or None
  term,     \* the termination routine
  closing,  \* the child: "unspawned", "failed", "open", "reaping" or "settled"
  settled   \* None, the completion, or "process-control"

groupVars == <<at, pipes, exit, aborted, winner, term, closing, settled>>

GroupInit ==
  /\ at = [p \in Proc |-> "unborn"]
  /\ pipes = {} /\ exit = None /\ aborted = FALSE
  /\ winner = None /\ term = "idle" /\ closing = "unspawned" /\ settled = None

Members == {p \in Proc : at[p] = "group"}
GroupAlive == Members # {}
Living == {p \in Proc : at[p] \in {"group", "escaped"}}

--------------------------------------------------------------------------------
(***************************************************************************)
(* The processes.                                                          *)
(***************************************************************************)

\* A process of the group starts another, which may leave the group and may
\* keep the output it inherits open.
Fork(h) ==
  /\ at[h] = "unborn"
  /\ \E parent \in Members :
       /\ \E place \in {"group", "escaped"} : at' = [at EXCEPT ![h] = place]
       /\ \/ parent \in pipes /\ pipes' = pipes \cup {h}
          \/ UNCHANGED pipes
  /\ UNCHANGED <<exit, aborted, winner, term, closing, settled>>

\* A process exits, by itself or because a signal reached it.
Exit(p) ==
  /\ p \in Living
  /\ at' = [at EXCEPT ![p] = IF @ = "group" THEN "gone" ELSE "left"]
  /\ pipes' = pipes \ {p}
  /\ \/ p = Child /\ exit' \in {"zero", "nonzero", "signal"}
     \/ p # Child /\ UNCHANGED exit
  /\ UNCHANGED <<aborted, winner, term, closing, settled>>

--------------------------------------------------------------------------------
(***************************************************************************)
(* Termination.                                                            *)
(***************************************************************************)

\* failFatally: the caller gets a ProcessControlError at once, and everything
\* that comes later finds the call settled.  Without a child no signal is sent.
FailFatally ==
  /\ at[Child] # "unborn"
  /\ term' = "failed"
  /\ settled' = "process-control"

\* terminate(), up to its first wait: SIGTERM to the group, once.
Terminate ==
  /\ term = "idle"
  /\ \/ term' = "terming" /\ UNCHANGED settled
     \/ FailFatally

\* The group was seen to be gone within the grace.
GroupGone ==
  /\ term \in {"terming", "killing"} /\ settled = None
  /\ ~GroupAlive
  /\ term' = "done"
  /\ UNCHANGED <<at, pipes, exit, aborted, winner, closing, settled>>

\* The first grace is over: SIGKILL, which may be refused.
GraceExpires ==
  /\ term = "terming" /\ settled = None
  /\ \/ term' = "killing" /\ UNCHANGED settled
     \/ FailFatally
  /\ UNCHANGED <<at, pipes, exit, aborted, winner, closing>>

\* The group survived SIGKILL or cannot be probed.
GroupLost ==
  /\ term \in {"terming", "killing"} /\ settled = None
  /\ FailFatally
  /\ UNCHANGED <<at, pipes, exit, aborted, winner, closing>>

--------------------------------------------------------------------------------
(***************************************************************************)
(* The call.                                                               *)
(***************************************************************************)

\* spawnWithTimeout: nothing is created for an aborted signal; a child that
\* could not be created has no group, but its streams still close.
Spawn ==
  /\ closing = "unspawned"
  /\ \/ aborted /\ settled' = "aborted" /\ closing' = "settled" /\ UNCHANGED <<at, pipes>>
     \/ /\ ~aborted
        /\ at' = [at EXCEPT ![Child] = "group"] /\ pipes' = {Child}
        /\ closing' = "open" /\ UNCHANGED settled
     \/ /\ ~aborted
        /\ closing' = "failed" /\ UNCHANGED <<at, pipes, settled>>
  /\ UNCHANGED <<exit, aborted, winner, term>>

Listening == closing \in {"open", "failed"} /\ settled = None

\* The first trigger decides the completion; the routine runs once.
Trigger(kind) == winner = None /\ winner' = kind /\ Terminate

Timeout ==
  /\ Listening
  /\ Trigger("timed-out")
  /\ UNCHANGED <<at, pipes, exit, aborted, closing>>

\* The daemon stops.  The listener is there while the child is; when there is a
\* winner or the child is closed, a stop changes nothing any more.
Abort ==
  /\ ~aborted /\ aborted' = TRUE
  /\ \/ Listening /\ Trigger("aborted")
     \/ closing = "unspawned" /\ UNCHANGED <<winner, term, settled>>
  /\ UNCHANGED <<at, pipes, exit, closing>>

\* Mutant: what the child left behind is left alone.
Reap_Never == UNCHANGED <<term, settled>>

\* At close the child is done but its group may not be: members that remain,
\* or a probe that does not say they are gone, start the routine; a probe that
\* fails rejects the call.
Reap ==
  \/ /\ ~GroupAlive \/ term # "idle"
     /\ UNCHANGED <<term, settled>>
  \/ Terminate
  \/ FailFatally

\* 'close': the child is gone and nobody holds its output any more.  Timer and
\* listener are removed before anything is awaited.
Close ==
  /\ Listening
  /\ at[Child] # "group" /\ pipes = {}
  /\ closing' = IF closing = "failed" THEN "reaping_failed" ELSE "reaping"
  /\ Reap
  /\ UNCHANGED <<at, pipes, exit, aborted, winner>>

Completion ==
  IF closing = "reaping_failed" THEN "spawn-error"
  ELSE IF winner # None THEN winner
  ELSE IF exit = "signal" THEN "signaled" ELSE "exited"

\* The routine, if it was started, is done: the call resolves.
Settle ==
  /\ closing \in {"reaping", "reaping_failed"} /\ settled = None
  /\ term \in {"idle", "done"}
  /\ settled' = Completion
  /\ closing' = "settled"
  /\ UNCHANGED <<at, pipes, exit, aborted, winner, term>>

GroupStep ==
  \/ \E h \in Helper : Fork(h)
  \/ \E p \in Proc : Exit(p)
  \/ GroupGone \/ GraceExpires \/ GroupLost
  \/ Timeout \/ Abort \/ Close \/ Settle

GroupTypeOK ==
  /\ at \in [Proc -> {"unborn", "group", "escaped", "gone", "left"}]
  /\ pipes \subseteq Living
  /\ exit \in {None, "zero", "nonzero", "signal"}
  /\ aborted \in BOOLEAN
  /\ winner \in {None, "timed-out", "aborted", "consumer-error"}
  /\ term \in {"idle", "terming", "killing", "done", "failed"}
  /\ closing \in {"unspawned", "failed", "open", "reaping", "reaping_failed", "settled"}
  /\ settled \in {None, "exited", "signaled", "timed-out", "aborted", "consumer-error",
                  "spawn-error", "process-control"}

================================================================================
