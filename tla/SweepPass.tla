------------------------------ MODULE SweepPass ------------------------------
(***************************************************************************)
(* One pass of the inactivity sweep after another, their timer and its     *)
(* drain (server/src/sweep/index.ts).  What a reclaim does to a run and its*)
(* loop is the matter of RunLifecycle; here it is whether a pass reaches   *)
(* every row it should, page by page, while rows come, go and stir.        *)
(***************************************************************************)
EXTENDS Naturals, Sequences, FiniteSets

CONSTANTS
  Runs,       \* runs are 1 .. Runs, in the order of their ids
  PageSize,
  MaxPasses,  \* bound: passes that are started
  Slot,       \* names for passes under way
  None

VARIABLES
  rows,      \* each run: absent, fresh, stale, stuck (no lease), grace, dead, settled
  passes,    \* the passes under way
  inFlight,  \* the pass runOnce hands out, None when there is none
  awaited,   \* the pass the timer's last tick waits for
  timer,     \* armed, stopping, drained
  ticks      \* passes started

sweepVars == <<rows, passes, inFlight, awaited, timer, ticks>>

Run == 1 .. Runs
NoPass == [at |-> "none", page |-> <<>>, after |-> 0, short |-> FALSE, due |-> {}, whole |-> FALSE]

Init ==
  /\ rows = [r \in Run |-> "absent"]
  /\ passes = [s \in Slot |-> NoPass]
  /\ inFlight = None /\ awaited = None /\ timer = "armed" /\ ticks = 0

-------------------------------------------------------------------------------
(* Rows change under a pass.  A pass judges ages at the instant it began:   *)
(* due are the rows silent or expired then that have not changed since.     *)

Turns(r, row) ==
  /\ rows' = [rows EXCEPT ![r] = row]
  /\ passes' = [s \in Slot |-> [passes[s] EXCEPT !.due = @ \ {r}]]

\* Runs are claimed, heard of, silent, settled; leases run out and are used.
\* A stuck run is the broken invariant the sweep has to live with.
RowChanges ==
  /\ \E r \in Run : \E row \in CASE rows[r] = "absent" -> {"fresh", "stuck"}
                                [] rows[r] = "fresh" -> {"stale", "settled"}
                                [] rows[r] = "stale" -> {"fresh", "settled"}
                                [] rows[r] = "grace" -> {"dead", "settled"}
                                [] rows[r] = "dead" -> {"settled"}
                                [] OTHER -> {} :
       Turns(r, row)
  /\ UNCHANGED <<inFlight, awaited, timer, ticks>>

-------------------------------------------------------------------------------
(* The pass (execute, pruneTerminalGraceLeases).                            *)

\* Runs are paged by id, leases by the hash of their token: any other order.
Sorts == [runs |-> {"fresh", "stale", "stuck"}, leases |-> {"grace", "dead"}]
Key(at, r) == IF at = "runs" THEN r ELSE Runs + 1 - r
Keyed(at, k) == IF at = "runs" THEN k ELSE Runs + 1 - k

Beyond(at, after) == {k \in Run : k > after /\ rows[Keyed(at, k)] \in Sorts[at]}
PageKeys(at, after) ==
  {k \in Beyond(at, after) : Cardinality({j \in Beyond(at, after) : j <= k}) <= PageSize}
InOrder(keys) == [i \in 1 .. Cardinality(keys) |-> CHOOSE k \in keys : Cardinality({j \in keys : j <= k}) = i]

\* A page that is not full is the last.
Short(keys) == Cardinality(keys) < PageSize

ReadPage(s) ==
  LET pass == passes[s]
      keys == PageKeys(pass.at, pass.after)
      entry(k) == LET r == Keyed(pass.at, k) IN [run |-> r, due |-> r \in pass.due]
  IN /\ pass.at # "none" /\ pass.page = <<>> /\ ~pass.short
     /\ passes' = [passes EXCEPT ![s].page = [i \in DOMAIN InOrder(keys) |-> entry(InOrder(keys)[i])],
                                 ![s].after = IF keys = {} THEN @ ELSE CHOOSE k \in keys : \A j \in keys : j <= k,
                                 ![s].short = Short(keys)]
     /\ UNCHANGED <<rows, inFlight, awaited, timer, ticks>>

\* A candidate that looked fresh is kept.
Keep(s) ==
  /\ passes[s].page # <<>> /\ ~Head(passes[s].page).due
  /\ passes' = [passes EXCEPT ![s].page = Tail(@)]
  /\ UNCHANGED <<rows, inFlight, awaited, timer, ticks>>

\* One that looked silent is judged again in the transaction of its reclaim, after
\* the read of the machine, which decides nothing and may fail.  A stuck
\* run makes the reclaim throw; that is counted and the pass goes on.
Consider(s) ==
  /\ passes[s].at = "runs" /\ passes[s].page # <<>> /\ Head(passes[s].page).due
  /\ LET r == Head(passes[s].page).run
         reclaimed == rows[r] = "stale"
     IN /\ rows' = IF reclaimed THEN [rows EXCEPT ![r] = "grace"] ELSE rows
        /\ passes' = [p \in Slot |-> [passes[p] EXCEPT !.due = IF reclaimed THEN @ \ {r} ELSE @,
                                                       !.page = IF p = s THEN Tail(@) ELSE @]]
  /\ UNCHANGED <<inFlight, awaited, timer, ticks>>

\* An expired lease is deleted by its hash; it may be gone already.
Prune(s) ==
  /\ passes[s].at = "leases" /\ passes[s].page # <<>> /\ Head(passes[s].page).due
  /\ LET r == Head(passes[s].page).run
     IN /\ rows' = [rows EXCEPT ![r] = "settled"]
        /\ passes' = [p \in Slot |-> [passes[p] EXCEPT !.due = @ \ {r}, !.page = IF p = s THEN Tail(@) ELSE @]]
  /\ UNCHANGED <<inFlight, awaited, timer, ticks>>

RunsDone(s) ==
  /\ passes[s].at = "runs" /\ passes[s].page = <<>> /\ passes[s].short
  /\ passes' = [passes EXCEPT ![s].at = "leases", ![s].after = 0, ![s].short = FALSE]
  /\ UNCHANGED <<rows, inFlight, awaited, timer, ticks>>

\* The query of a page and the deletion of a lease may fail, which ends the pass.
MayFail(pass) ==
  \/ pass.at # "none" /\ pass.page = <<>> /\ ~pass.short
  \/ pass.at = "leases" /\ pass.page # <<>> /\ Head(pass.page).due

Settle(s) ==
  /\ \E whole \in BOOLEAN :
       /\ whole => passes[s].at = "leases" /\ passes[s].page = <<>> /\ passes[s].short
       /\ ~whole => MayFail(passes[s])
       /\ passes' = [passes EXCEPT ![s] = [NoPass EXCEPT !.whole = whole, !.due = IF whole THEN passes[s].due ELSE {}]]
  /\ inFlight' = None
  /\ UNCHANGED <<rows, awaited, timer, ticks>>

-------------------------------------------------------------------------------
(* runOnce and the timer (armInactivitySweep).                              *)

\* A call meets the pass in flight or starts one.
Joins == inFlight # None

\* Silent runs, stuck ones among them, and leases that are over.
DueNow == {r \in Run : rows[r] \in {"stale", "stuck", "dead"}}

Tick ==
  /\ timer = "armed"
  /\ \/ /\ Joins /\ awaited' = inFlight
        /\ UNCHANGED <<passes, inFlight, ticks>>
     \/ /\ ~Joins /\ ticks < MaxPasses
        /\ \E s \in Slot :
             /\ passes[s].at = "none"
             /\ passes' = [passes EXCEPT ![s] = [NoPass EXCEPT !.at = "runs", !.due = DueNow]]
             /\ inFlight' = s /\ awaited' = s
        /\ ticks' = ticks + 1
  /\ UNCHANGED <<rows, timer>>

\* stopAndDrain: no further tick, then wait for the pass; the database closes next.
Stop ==
  /\ timer = "armed" /\ timer' = "stopping"
  /\ UNCHANGED <<rows, passes, inFlight, awaited, ticks>>

Drain ==
  /\ timer = "stopping" /\ (awaited # None => passes[awaited].at = "none")
  /\ timer' = "drained"
  /\ UNCHANGED <<rows, passes, inFlight, awaited, ticks>>

PassStep(s) == ReadPage(s) \/ Keep(s) \/ Consider(s) \/ Prune(s) \/ RunsDone(s) \/ Settle(s)

Next == RowChanges \/ Tick \/ Stop \/ Drain \/ \E s \in Slot : PassStep(s)

-------------------------------------------------------------------------------
(***************************************************************************)
(* Properties.                                                             *)
(***************************************************************************)

\* A pass that ends has dealt with every row that was due when it began
\* and has not changed since, stuck runs aside, whatever came and went on the
\* pages meanwhile; passes do not overlap; none is left when the drain ends.
SweepIsWhole ==
  /\ \A s \in Slot : passes[s].whole => \A r \in passes[s].due : rows[r] = "stuck"
  /\ \A s, p \in Slot : passes[s].at # "none" /\ passes[p].at # "none" => s = p
  /\ timer = "drained" => \A s \in Slot : passes[s].at = "none"
==============================================================================
