---------------------------- MODULE ArtifactWatch ----------------------------
(***************************************************************************)
(* The daemon's artifact watch manager: one file system subscription per   *)
(* configured loop, events merged in fixed windows, rounds of the sync     *)
(* client driven to completion, generations swapped when the watch set     *)
(* changes, a periodic reconcile and a drain.                              *)
(*                                                                         *)
(* A generation of a loop is a LoopWatch object; a replaced object lives   *)
(* on until its tasks end, so objects are slots that are used again when   *)
(* nothing refers to them.  Tasks are what runs between two awaits; each   *)
(* remembers the generation number it started under, of which only one     *)
(* thing matters: whether the object still has it (live).  The sync        *)
(* client, the subscription and the jail answer anything they may answer.  *)
(* Left out: which rounds may reuse cached hashes, and the deadline of the  *)
(* drain, after which its caller no longer waits for the same join.        *)
(***************************************************************************)
EXTENDS Naturals, FiniteSets

CONSTANTS
  Loop,  \* loops
  Slot,  \* LoopWatch objects of a loop at a time
  Item,  \* what the server may say of a loop: directory, roots, revision
  LateTasks,  \* bound: tasks that a new watch set finds
  ErrorTasks, \* bound: error windows and their reports at a time
  None   \* null

ASSUME WatchAssumption ==
  /\ None \notin Item \cup Slot \cup (Loop \X Slot)
  /\ LateTasks \in Nat /\ ErrorTasks \in Nat

VARIABLES
  current,   \* states: the object of each loop
  watch,     \* the objects
  tasks,     \* background tasks, rounds among them
  tick,      \* the reconcile pass
  stopped,   \* machineStopped
  drain,     \* the drain, if one was asked for
  dirty      \* history: objects told of an event that no round has started after

vars == <<current, watch, tasks, tick, stopped, drain, dirty>>

Object == Loop \X Slot

LoopOf(o) == o[1]

\* An object; its ctl is aborted when it is parked or no longer current, or with the
\* drain.
LoopWatch ==
  [item : Item \cup {None},
   status : {"unused", "admitting", "watching", "refused", "config_changed", "parked"},
   watcher : {"none", "opening", "ready", "closing"}, pending : BOOLEAN]

Unused == [item |-> None, status |-> "unused", watcher |-> "none",
           pending |-> FALSE]

\* newState: until the subscription is ready and the scan ran
NewState(i) == [Unused EXCEPT !.item = i, !.status = "admitting"]

Draining == drain # "no"

IsCurrent(o) == current[LoopOf(o)] = o

CanRun(o) ==
  ~Draining /\ ~stopped /\ watch[o].status = "watching" /\ IsCurrent(o)

TaskState ==
  [of : Object, kind : {"round", "window", "error", "admission"},
   at : {"syncing", "settling", "sleeping", "reporting", "resolving", "predecessor",
         "opening"},
   live : BOOLEAN, wait : SUBSET Object]

Task(o, kind) == {t \in tasks : t.of = o /\ t.kind = kind}

\* windowCtl, errorWindowCtl and inFlight are not null.
WindowOpen(o) == Task(o, "window") # {}
ErrorWindowOpen(o) == Task(o, "error") # {}
InFlight(o) == Task(o, "round") # {}

\* A task of the object's current generation.
NewTask(o, kind, at) ==
  [of |-> o, kind |-> kind, at |-> at, live |-> TRUE, wait |-> {}]

\* Every task of these objects belongs to an older generation now.
Bumped(objects, ts) ==
  {[t EXCEPT !.live = @ /\ t.of \notin objects] : t \in ts}

\* ... and their windows end, aborted.
Aborted(objects, ts) ==
  Bumped(objects, {t \in ts : t.of \in objects => t.at # "sleeping"})

TickState ==
  [at : {"idle", "next", "round", "admitting"}, left : SUBSET Object,
   on : Object \cup {None}, live : BOOLEAN]

NoTick == [at |-> "idle", left |-> {}, on |-> None, live |-> FALSE]

TickBumped(objects) ==
  [tick EXCEPT !.live = @ /\ tick.on \notin objects]

\* closeWatcher for each of these objects
Closed(objects, w) ==
  [o \in Object |->
     IF o \in objects /\ w[o].watcher \in {"opening", "ready"}
     THEN [w[o] EXCEPT !.watcher = "closing"] ELSE w[o]]

\* What the newest close of a loop waits for.
Closing(l, w) == {o \in Object : LoopOf(o) = l /\ w[o].watcher = "closing"}

\* The synchronous part of stopLoop
Halted(objects, w) ==
  Closed(objects, [o \in Object |->
    IF o \in objects THEN [w[o] EXCEPT !.pending = FALSE] ELSE w[o]])

\* parkLoop publishes the status before the close can suspend.
Parked(objects, w) ==
  Halted(objects, [o \in Object |->
    IF o \in objects THEN [w[o] EXCEPT !.status = "parked"] ELSE w[o]])

--------------------------------------------------------------------------------
(***************************************************************************)
(* Rounds                                                                  *)
(***************************************************************************)

\* runSync: work for a running driver is noted (notePending), else a driver
\* starts.  w and ts are the objects and the tasks without the caller.
RunSync(o, w, ts) ==
  \/ /\ InFlight(o)
     /\ watch' = [w EXCEPT ![o].pending = TRUE]
     /\ tasks' = ts
     /\ UNCHANGED dirty
  \/ /\ ~InFlight(o)
     /\ IF ~Draining /\ ~stopped /\ IsCurrent(o) /\ w[o].status = "watching"
        THEN /\ tasks' = ts \cup {NewTask(o, "round", "syncing")}
             /\ dirty' = dirty \ {o}
        ELSE tasks' = ts /\ UNCHANGED dirty
     /\ watch' = w

\* What a round or a report came to.  done: synced, unchanged, unavailable, a
\* failure that is not of the root, ...
Outcome == {"done", "root", "config_changed", "loop_stopped", "machine_stopped"}

\* The objects that an outcome closes: a stopped machine parks all.
ClosedBy(o, outcome) ==
  IF outcome = "machine_stopped" THEN {current[l] : l \in Loop} \ {None}
  ELSE IF outcome = "done" THEN {} ELSE {o}

\* ... and those whose generation it ends.
EndedBy(o, outcome) ==
  IF outcome \in {"loop_stopped", "machine_stopped"} THEN ClosedBy(o, outcome) ELSE {}

\* handleOutcome up to its first await
HandleOutcome(o, outcome) ==
  /\ watch' =
       CASE outcome = "done" -> watch
         [] outcome = "root" ->
              Closed({o}, [watch EXCEPT ![o].status = "refused"])
         [] outcome = "config_changed" ->
              Closed({o}, [watch EXCEPT ![o].status = "config_changed"])
         [] OTHER -> Parked(ClosedBy(o, outcome), watch)
  /\ tick' = TickBumped(EndedBy(o, outcome))
  /\ stopped' = (stopped \/ outcome = "machine_stopped")

\* A task of a replaced generation does not act on its answer.
Void(t) == ~t.live \/ ~IsCurrent(t.of)

\* Mutant: the reconcile pass waits for a round that has ended.
TickAfter_Never(o) == tick

\* The reconcile pass goes on when the round it waits for has ended.
TickAfter(o) ==
  IF tick.at = "round" /\ tick.on = o
  THEN [NoTick EXCEPT !.at = "next", !.left = tick.left] ELSE tick

\* Work was noted while the round ran.
FollowUp(o) == watch[o].pending

\* The driver goes on: with the work noted meanwhile, or it releases inFlight in
\* the same step.
DriverGoesOn(t) ==
  LET o == t.of IN
  /\ watch' = [watch EXCEPT ![o].pending = @ /\ ~FollowUp(o)]
  /\ IF FollowUp(o) /\ CanRun(o)
     THEN /\ tasks' = (tasks \ {t}) \cup {NewTask(o, "round", "syncing")}
          /\ dirty' = dirty \ {o}
          /\ UNCHANGED tick
     ELSE /\ tasks' = tasks \ {t}
          /\ tick' = TickAfter(o)
          /\ UNCHANGED dirty
  /\ UNCHANGED <<current, stopped, drain>>

\* driveRounds gets its answer; what it closes is closed before it goes on.
RoundEnds(t) ==
  /\ t.kind = "round" /\ t.at = "syncing"
  /\ \/ /\ Void(t)
        /\ tasks' = tasks \ {t}
        /\ tick' = TickAfter(t.of)
        /\ UNCHANGED <<current, watch, stopped, drain, dirty>>
     \/ ~Void(t) /\ DriverGoesOn(t)
     \/ /\ ~Void(t)
        /\ \E outcome \in Outcome \ {"done"} :
             /\ HandleOutcome(t.of, outcome)
             /\ tasks' = Aborted(EndedBy(t.of, outcome), (tasks \ {t}) \cup
                  {[t EXCEPT !.at = "settling",
                             !.wait = UNION {Closing(LoopOf(o), watch') :
                                               o \in ClosedBy(t.of, outcome)}]})
        /\ UNCHANGED <<current, drain, dirty>>

RoundGoesOn(t) ==
  t.kind = "round" /\ t.at = "settling" /\ t.wait = {} /\ DriverGoesOn(t)

--------------------------------------------------------------------------------
(***************************************************************************)
(* Events and errors of a subscription                                     *)
(***************************************************************************)

\* A watcher that is not being closed reports to its object.
Subscribed(o) == watch[o].watcher \in {"opening", "ready"}

\* markDirty: before ready the event is only noted; after it, it opens a window
\* unless one is open.
Event(o) ==
  /\ Subscribed(o) /\ ~Draining
  /\ \/ /\ watch[o].status = "admitting"
        /\ watch' = [watch EXCEPT ![o].pending = TRUE]
        /\ UNCHANGED tasks
     \/ /\ watch[o].status = "watching"
        /\ tasks' = IF WindowOpen(o) THEN tasks
                    ELSE tasks \cup {NewTask(o, "window", "sleeping")}
        /\ UNCHANGED watch
  /\ dirty' = dirty \cup {o}
  /\ UNCHANGED <<current, tick, stopped, drain>>

\* A window ends that was not aborted; it may be of an older generation.
WindowEnds(t) ==
  /\ t.kind = "window"
  /\ LET rest == tasks \ {t} IN
     \/ /\ ~t.live
        /\ tasks' = rest
        /\ UNCHANGED <<watch, dirty>>
     \/ t.live /\ RunSync(t.of, watch, rest)
  /\ UNCHANGED <<current, tick, stopped, drain>>

\* onWatcherError: one report per window
Error(o) ==
  /\ Subscribed(o) /\ ~Draining /\ ~ErrorWindowOpen(o)
  /\ Cardinality({t \in tasks : t.kind = "error"}) < ErrorTasks
  /\ watch[o].status \in {"watching", "admitting"}
  /\ tasks' = tasks \cup {NewTask(o, "error", "sleeping")}
  /\ UNCHANGED <<current, watch, tick, stopped, drain, dirty>>

ErrorWindowEnds(t) ==
  /\ t.kind = "error" /\ t.at = "sleeping"
  /\ tasks' = IF Void(t) THEN tasks \ {t}
              ELSE (tasks \ {t}) \cup {[t EXCEPT !.at = "reporting"]}
  /\ UNCHANGED <<current, watch, tick, stopped, drain, dirty>>

\* reportLocalFailure answers a watcher's error or a refused admission; what its
\* outcome closes is awaited by nothing else.
Reported(t) ==
  /\ t.kind \in {"error", "admission"} /\ t.at = "reporting"
  /\ \/ /\ Void(t)
        /\ tasks' = tasks \ {t}
        /\ UNCHANGED <<watch, tick, stopped>>
     \/ /\ ~Void(t)
        /\ \E outcome \in Outcome :
             /\ t.kind = "error" => outcome # "root"
             /\ HandleOutcome(t.of, outcome)
             /\ tasks' = Aborted(EndedBy(t.of, outcome), tasks \ {t})
  /\ UNCHANGED <<current, drain, dirty>>

--------------------------------------------------------------------------------
(***************************************************************************)
(* Admission                                                               *)
(***************************************************************************)

Abandoned(t) ==
  Draining \/ stopped \/ Void(t) \/ watch[t.of].status # "admitting"

\* Mutant: the successor subscribes whatever its predecessor does.
Predecessors_Ignored(l) == {}

\* The close a successor awaits before it subscribes.
Predecessors(l) == Closing(l, watch)

\* The root was resolved in the jail and passed the guard, or it was refused,
\* which is reported: a generation is admitted once, so once.
Admitted(t) ==
  /\ t.kind = "admission" /\ t.at = "resolving"
  /\ LET o == t.of  rest == tasks \ {t} IN
     \/ /\ Abandoned(t)
        /\ tasks' = rest
        /\ UNCHANGED watch
     \/ /\ ~Abandoned(t)
        /\ tasks' = rest \cup
             {[t EXCEPT !.at = "predecessor", !.wait = Predecessors(LoopOf(o))]}
        /\ UNCHANGED watch
     \/ /\ ~Abandoned(t)
        /\ watch' = [watch EXCEPT ![o].status = "refused"]
        /\ tasks' = rest \cup {[t EXCEPT !.at = "reporting"]}
  /\ UNCHANGED <<current, tick, stopped, drain, dirty>>

Subscribe(t) ==
  /\ t.kind = "admission" /\ t.at = "predecessor" /\ t.wait = {}
  /\ LET o == t.of  rest == tasks \ {t} IN
     IF Abandoned(t)
     THEN tasks' = rest /\ UNCHANGED watch
     ELSE /\ watch' = [watch EXCEPT ![o].watcher = "opening"]
          /\ tasks' = rest \cup {[t EXCEPT !.at = "opening"]}
  /\ UNCHANGED <<current, tick, stopped, drain, dirty>>

\* chokidar is ready: the first scan follows.
Ready(t) ==
  /\ t.kind = "admission" /\ t.at = "opening" /\ ~Abandoned(t)
  /\ RunSync(t.of, [watch EXCEPT ![t.of].watcher = "ready", ![t.of].status = "watching"],
             tasks \ {t})
  /\ UNCHANGED <<current, tick, stopped, drain>>

\* ready() also resolves when the watcher is closed, and an abandoned admission
\* closes what it opened.
AbandonedAtReady(t) ==
  /\ t.kind = "admission" /\ t.at = "opening" /\ Abandoned(t)
  /\ watch' = Closed({t.of}, watch)
  /\ tasks' = tasks \ {t}
  /\ UNCHANGED <<current, tick, stopped, drain, dirty>>

--------------------------------------------------------------------------------
(***************************************************************************)
(* The watch set, the reconcile pass and the drain                         *)
(***************************************************************************)

\* Objects that nothing refers to any more.
Free(l) ==
  {o \in Object : /\ LoopOf(o) = l /\ current[l] # o
                  /\ watch[o].watcher = "none" /\ tick.on # o /\ o \notin tick.left
                  /\ \A t \in tasks : t.of # o}

\* reconcileSet gives the loop a new object: it is new, its item changed, or it
\* was parked.
Replaced(l, items) ==
  /\ items[l] # None
  /\ current[l] # None =>
       \/ watch[current[l]].item # items[l]
       \/ watch[current[l]].status = "parked"

\* The objects whose loop left the set or whose item changed.
Leaving(items) ==
  {current[l] : l \in {k \in Loop :
     current[k] # None /\ watch[current[k]].item # items[k]}}

\* What the object still needs when it is no longer current: its close.
Retired(w) == [Unused EXCEPT !.watcher = w.watcher]

\* apply: a changed set is reconciled in one step and clears the stops.  The set
\* also holds loops other than these, so it may change with all of these the same.
Apply(items) ==
  /\ ~Draining /\ Cardinality(tasks) <= LateTasks
  /\ LET fresh == {l \in Loop : Replaced(l, items)}
         left == Leaving(items)
         halted == Halted(left, watch)
     IN /\ \A l \in fresh : Free(l) # {}
        /\ LET created == [l \in fresh |-> CHOOSE o \in Free(l) : TRUE]
               new == {created[l] : l \in fresh}
               old == left \cup ({current[l] : l \in fresh} \ {None})
           IN /\ current' = [l \in Loop |->
                    IF items[l] = None THEN None
                    ELSE IF l \in fresh THEN created[l] ELSE current[l]]
              /\ watch' = [o \in Object |->
                    IF o \in new THEN NewState(items[LoopOf(o)])
                    ELSE IF o \in old THEN Retired(halted[o]) ELSE halted[o]]
              /\ tasks' = Aborted(left, tasks)
                    \cup {NewTask(o, "admission", "resolving") : o \in new}
              /\ dirty' = dirty \ old
        /\ tick' = TickBumped(left)
  /\ stopped' = FALSE
  /\ UNCHANGED drain

\* Every minute: all loops of this moment, one after the other.
TickStarts ==
  /\ tick.at = "idle" /\ ~Draining
  /\ tick' = [NoTick EXCEPT !.at = "next", !.left = {current[l] : l \in Loop} \ {None}]
  /\ UNCHANGED <<current, watch, tasks, stopped, drain, dirty>>

TickEnds ==
  /\ tick.at = "next" /\ (tick.left = {} \/ Draining)
  /\ tick' = NoTick
  /\ UNCHANGED <<current, watch, tasks, stopped, drain, dirty>>

\* Mutant: a watching loop is left to its events.
Reconciled_Never(o) == FALSE

\* The pass runs a round for the loop.
Reconciled(o) == watch[o].status = "watching"

\* A watching loop runs a full round, which the pass waits for unless one is
\* under way; a refused one is verified again.
TickVisits(o) ==
  /\ tick.at = "next" /\ o \in tick.left /\ ~Draining
  /\ LET left == tick.left \ {o}
         Visit(at) == tick' = IF at = "next"
           THEN [NoTick EXCEPT !.at = at, !.left = left]
           ELSE [at |-> at, left |-> left, on |-> o, live |-> TRUE]
     IN \/ /\ Reconciled(o)
           /\ RunSync(o, watch, tasks)
           /\ Visit(IF ~InFlight(o) /\ CanRun(o) THEN "round" ELSE "next")
        \/ /\ watch[o].status = "refused" /\ ~stopped
           /\ Visit("admitting")
           /\ UNCHANGED <<watch, tasks, dirty>>
        \/ /\ ~Reconciled(o)
           /\ watch[o].status = "refused" => stopped
           /\ Visit("next")
           /\ UNCHANGED <<watch, tasks, dirty>>
  /\ UNCHANGED <<current, stopped, drain>>

\* The local verification of a refused loop: its generation starts again.
TickAdmits ==
  /\ tick.at = "admitting"
  /\ LET o == tick.on
         allowed == ~Draining /\ tick.live /\ IsCurrent(o)
     IN \/ /\ allowed
           /\ watch' = [watch EXCEPT ![o].status = "admitting"]
           /\ tasks' = Bumped({o}, tasks) \cup {NewTask(o, "admission", "resolving")}
        \/ UNCHANGED <<watch, tasks>>
  /\ tick' = [NoTick EXCEPT !.at = "next", !.left = tick.left]
  /\ UNCHANGED <<current, stopped, drain, dirty>>

\* drain: no new work, every generation aborted, every watcher closed.
Drain ==
  /\ ~Draining
  /\ drain' = "joining"
  /\ LET objects == {current[l] : l \in Loop} \ {None} IN
     /\ watch' = Halted(objects, watch)
     /\ tasks' = Aborted(objects, tasks)
     /\ tick' = TickBumped(objects)
  /\ UNCHANGED <<current, stopped, dirty>>

\* Mutant: the drain waits for the closes and the current rounds only.
Joined_Rounds ==
  /\ \A o \in Object : watch[o].watcher # "closing"
  /\ \A l \in Loop : current[l] # None => ~InFlight(current[l])

\* No work is outstanding; every close is awaited by some work.
Joined ==
  /\ \A o \in Object : watch[o].watcher # "closing"
  /\ tasks = {} /\ tick.at = "idle"

DrainJoins ==
  /\ drain = "joining" /\ Joined
  /\ drain' = "settled"
  /\ UNCHANGED <<current, watch, tasks, tick, stopped, dirty>>

\* A watcher is closed: whoever awaits the close goes on.
WatcherCloses(o) ==
  /\ watch[o].watcher = "closing"
  /\ watch' = [watch EXCEPT ![o].watcher = "none"]
  /\ tasks' = {[t EXCEPT !.wait = @ \ {o}] : t \in tasks}
  /\ UNCHANGED <<current, tick, stopped, drain, dirty>>

--------------------------------------------------------------------------------

Init ==
  /\ current = [l \in Loop |-> None]
  /\ watch = [o \in Object |-> Unused]
  /\ tasks = {} /\ tick = NoTick /\ stopped = FALSE
  /\ drain = "no" /\ dirty = {}

TaskStep(t) ==
  \/ RoundEnds(t) \/ RoundGoesOn(t) \/ WindowEnds(t) \/ ErrorWindowEnds(t)
  \/ Reported(t) \/ Admitted(t) \/ Subscribe(t) \/ Ready(t) \/ AbandonedAtReady(t)

TickStep == TickEnds \/ TickAdmits \/ \E o \in Object : TickVisits(o)

Next ==
  \/ \E t \in tasks : TaskStep(t)
  \/ \E o \in Object : Event(o) \/ Error(o) \/ WatcherCloses(o)
  \/ TickStarts \/ TickStep
  \/ \E items \in [Loop -> Item \cup {None}] : Apply(items)
  \/ Drain \/ DrainJoins

Spec == Init /\ [][Next]_vars

\* Reads, requests, closes and timers end, and the reconcile pass keeps coming.
Fairness ==
  /\ \A o \in Object :
       /\ WF_vars(WatcherCloses(o))
       /\ \A kind \in {"round", "window", "error", "admission"} :
            WF_vars(\E t \in Task(o, kind) : TaskStep(t))
  /\ WF_vars(TickStarts) /\ WF_vars(TickStep) /\ WF_vars(DrainJoins)

FairSpec == Spec /\ Fairness

--------------------------------------------------------------------------------
(***************************************************************************)
(* Properties                                                              *)
(***************************************************************************)

\* Every variable has its type.
TypeOK ==
  /\ current \in [Loop -> Object \cup {None}]
  /\ watch \in [Object -> LoopWatch]
  /\ tasks \subseteq TaskState
  /\ tick \in TickState
  /\ stopped \in BOOLEAN
  /\ drain \in {"no", "joining", "settled"}
  /\ dirty \subseteq Object

\* A loop never has two subscriptions, whatever replaced whatever, for a
\* successor subscribes when the close of its predecessor is done; and nothing
\* stopped comes back: only the current object of a loop that is admitted or
\* watched has a subscription that is not being closed, and none after the drain.
WatchersFollowTheSet ==
  /\ TypeOK
  /\ \A o, p \in Object :
       watch[o].watcher # "none" /\ watch[p].watcher # "none" /\ LoopOf(o) = LoopOf(p)
         => o = p
  /\ \A o \in Object :
       Subscribed(o) =>
         IsCurrent(o) /\ ~Draining /\ watch[o].status \in {"admitting", "watching"}

\* An object drives one round at a time, whoever asked for it, and what was noted
\* for a driver while it ran is not left without one.
NotedWorkIsDriven ==
  /\ \A t, u \in tasks : t.kind = "round" /\ u.kind = "round" /\ t.of = u.of => t = u
  /\ \A o \in Object : watch[o].pending /\ CanRun(o) => InFlight(o)

\* A settled drain leaves no subscription and no work behind.
SettledIsQuiet ==
  drain = "settled" =>
    tasks = {} /\ \A o \in Object : watch[o].watcher = "none"

\* No work is left behind: neither noted beside a driver that ends, nor running
\* after the drain has settled.
WorkIsDriven == NotedWorkIsDriven /\ SettledIsQuiet

\* A change that was announced is scanned, unless the loop is no longer watched:
\* if not by its window, by the reconcile pass.  The pass is needed: a window of
\* the generation before a refusal can still be open when the loop is admitted
\* again, swallows the events that come meanwhile and ends without a round.
ChangesAreScanned ==
  \A o \in Object : o \in dirty /\ CanRun(o) ~> o \notin dirty \/ ~CanRun(o)

\* Rounds, closes, windows and the reconcile pass never wait for each other in
\* a circle: a drain would end without its deadline.
DrainsEnd == Draining ~> drain = "settled"

================================================================================
