------------------------------ MODULE RunContract ------------------------------
(***************************************************************************)
(* What the run coordination promises of runs, with no leases, revisions,  *)
(* rows or calls: every run is handed out once at most and settles once, a *)
(* loop works on one run at a time, and a reclaimed run has one more       *)
(* chance to tell how it ended.                                            *)
(***************************************************************************)
CONSTANTS Loop, Run, None

VARIABLES
  status,  \* what may still become of each run
  owner    \* the loop a run was enqueued for

vars == <<status, owner>>

Status == {"absent", "waiting", "working", "reclaimed",
           "succeeded", "failed", "canceled"}

TypeOK == status \in [Run -> Status] /\ owner \in [Run -> Loop \cup {None}]

Of(l, s) == {r \in Run : owner[r] = l /\ status[r] = s}

Set(runs, s) == [r \in Run |-> IF r \in runs THEN s ELSE status[r]]

Init ==
  /\ status \in [Run -> {"absent", "working"}]
  /\ \A r, s \in Run : status[r] = "working" /\ status[s] = "working" => r = s
  /\ owner \in [Run -> Loop \cup {None}]
  /\ \A r \in Run : status[r] = "working" <=> owner[r] # None

\* A new run takes the place of the waiting ones; none joins a working one.
Enqueue(r, l) ==
  /\ status[r] = "absent"
  /\ Of(l, "working") = {}
  /\ status' = [Set(Of(l, "waiting"), "canceled") EXCEPT ![r] = "waiting"]
  /\ owner' = [owner EXCEPT ![r] = l]

HandOut(r) ==
  /\ status[r] = "waiting"
  /\ status' = Set({r}, "working")
  /\ UNCHANGED owner

\* A run reports how it ended; a success may retire what waits in its loop.
Settle(r, retired) ==
  /\ status[r] \in {"working", "reclaimed"}
  /\ \/ retired = {} /\ status' = Set({r}, "failed")
     \/ status' = [Set(retired, "canceled") EXCEPT ![r] = "succeeded"]
  /\ UNCHANGED owner

\* The server gives a silent run up.
Reclaim(r) ==
  /\ status[r] = "working"
  /\ status' = Set({r}, "reclaimed")
  /\ UNCHANGED owner

\* A reclaimed run loses its chance.
Lapse(r) ==
  /\ status[r] = "reclaimed"
  /\ status' = Set({r}, "failed")
  /\ UNCHANGED owner

Cancel(r) ==
  /\ status[r] \in {"waiting", "working"}
  /\ status' = Set({r}, "canceled")
  /\ UNCHANGED owner

\* A loop starts over: what is open is canceled, what was reclaimed has failed.
StartOver(l) ==
  /\ status' = [r \in Run |->
       IF r \in Of(l, "waiting") \cup Of(l, "working") THEN "canceled"
       ELSE IF r \in Of(l, "reclaimed") THEN "failed"
       ELSE status[r]]
  /\ UNCHANGED owner

Next ==
  \/ \E r \in Run, l \in Loop : Enqueue(r, l)
  \/ \E r \in Run : \/ HandOut(r) \/ Reclaim(r) \/ Lapse(r) \/ Cancel(r)
                    \/ Settle(r, {}) \/ Settle(r, Of(owner[r], "waiting"))
  \/ \E l \in Loop : StartOver(l)

Spec == Init /\ [][Next]_vars

================================================================================
