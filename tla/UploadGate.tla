------------------------------ MODULE UploadGate ------------------------------
(***************************************************************************)
(* The gate that bounds the uploads of a daemon (createGate of             *)
(* daemon/src/artifact-sync.ts).  A permit is handed to the next waiter,   *)
(* never given back and taken again; a waiter may be cancelled before it   *)
(* is handed one and, until its promise resumes, after.                    *)
(***************************************************************************)
EXTENDS Naturals, FiniteSets, Sequences, Functions

CONSTANTS Upload,  \* callers of the gate
          Limit    \* permits

VARIABLES
  permits,   \* held
  waiting,   \* the callers parked at the gate, in order
  caller,    \* [Upload -> "out", "parked", "handed" a permit, "inside"]
  signalled  \* callers whose signal is aborted

gateVars == <<permits, waiting, caller, signalled>>

Init ==
  /\ permits = 0 /\ waiting = <<>> /\ signalled = {}
  /\ caller = [u \in Upload |-> "out"]

\* A call with an aborted signal returns at once; a later call has a fresh one.
Call(u) ==
  /\ caller[u] = "out" /\ u \notin signalled
  /\ \/ permits >= Limit /\ waiting' = Append(waiting, u)
        /\ caller' = [caller EXCEPT ![u] = "parked"] /\ UNCHANGED permits
     \/ permits < Limit /\ permits' = permits + 1
        /\ caller' = [caller EXCEPT ![u] = "inside"] /\ UNCHANGED waiting
  /\ UNCHANGED signalled

\* Mutant: the permit is given back as well as handed on.
Freed_HandedToo == permits' = permits - 1
\* Only a release that finds nobody waiting frees the permit.
Freed == permits' = IF waiting = <<>> THEN permits - 1 ELSE permits

Leave(u) ==
  /\ Freed
  /\ IF waiting = <<>> THEN caller' = [caller EXCEPT ![u] = "out"] /\ UNCHANGED waiting
     ELSE /\ caller' = [caller EXCEPT ![u] = "out", ![Head(waiting)] = "handed"]
          /\ waiting' = Tail(waiting)

\* The task ends, well or not.
Finish(u) == caller[u] = "inside" /\ Leave(u) /\ signalled' = signalled \ {u}

\* The promise of a caller that was handed a permit resumes.
Resume(u) ==
  /\ caller[u] = "handed"
  /\ \/ u \in signalled /\ Leave(u) /\ signalled' = signalled \ {u}
     \/ u \notin signalled /\ caller' = [caller EXCEPT ![u] = "inside"]
        /\ UNCHANGED <<permits, waiting, signalled>>

\* splice(i, 1)
Without(queue, i) == SubSeq(queue, 1, i - 1) \o SubSeq(queue, i + 1, Len(queue))

\* An abort takes a parked caller out of the queue; any other finds out later.
Abort(u) ==
  /\ caller[u] # "out" /\ u \notin signalled
  /\ IF caller[u] = "parked"
     THEN /\ \E i \in DOMAIN waiting : waiting[i] = u /\ waiting' = Without(waiting, i)
          /\ caller' = [caller EXCEPT ![u] = "out"] /\ UNCHANGED signalled
     ELSE signalled' = signalled \cup {u} /\ UNCHANGED <<waiting, caller>>
  /\ UNCHANGED permits

Next == \E u \in Upload : Call(u) \/ Finish(u) \/ Resume(u) \/ Abort(u)

\* Every permit is held by one caller that is inside or on its way in, however
\* cancels and hand-overs interleave: never more uploads than permits, none
\* lost, and nobody waits while one is free (createGate, "limit+1 uploads").
PermitsAreKept ==
  /\ permits = Cardinality({u \in Upload : caller[u] \in {"handed", "inside"}})
  /\ permits <= Limit
  /\ waiting # <<>> => permits = Limit
  /\ IsInjective(waiting) /\ Range(waiting) = {u \in Upload : caller[u] = "parked"}
===============================================================================
