------------------------- MODULE ArtifactWatch_proofs -------------------------
(***************************************************************************)
(* Theorems about ArtifactWatch: a loop has one subscription, that of its  *)
(* current object, and no noted work is left without a driver, for any     *)
(* sets of loops, objects and items.                                       *)
(***************************************************************************)
EXTENDS ArtifactWatch, TLAPS

--------------------------------------------------------------------------------
(***************************************************************************)
(* The invariant.                                                          *)
(***************************************************************************)

\* The object of a loop that is in the set, as long as there is no drain.
Up(o) == IsCurrent(o) /\ ~Draining

\* An admission that has still to subscribe, or to be ready.
Admits(t) == t.kind = "admission" /\ t.at \in {"resolving", "predecessor", "opening"}

IsOpening(t) == t.kind = "admission" /\ t.at = "opening"

IsSyncing(t) == t.kind = "round" /\ t.at = "syncing"

NoneOpening(o) == \A t \in tasks : t.of = o => ~IsOpening(t)

NoneSyncing(o) == \A t \in tasks : t.of = o => ~IsSyncing(t)

\* The object of a loop is one of its own.
CurrentSound ==
  \A l \in Loop :
    current[l] # None => LoopOf(current[l]) = l /\ watch[current[l]].status # "unused"

\* An admission under way is the only one of its generation; it has a subscription
\* exactly when it waits for ready, and before it subscribes it waits for whatever
\* subscription its loop still has.
AdmissionSound ==
  \A t \in tasks :
    Admits(t) /\ t.live /\ Up(t.of) /\ watch[t.of].status = "admitting" =>
      /\ t.at \in {"resolving", "predecessor"} => ~Subscribed(t.of)
      /\ t.at = "predecessor" =>
           \A p \in Object :
             LoopOf(p) = LoopOf(t.of) /\ watch[p].watcher # "none" => p \in t.wait
      /\ t.at = "opening" => Subscribed(t.of)
      /\ \A u \in tasks : Admits(u) /\ u.live /\ u.of = t.of => u = t

\* What may still be under way, of this and of older generations, in each status.
StatusSound ==
  \A o \in Object :
    Up(o) =>
      /\ watch[o].status = "admitting" =>
           /\ NoneSyncing(o)
           /\ \A t \in tasks : t.of = o /\ IsOpening(t) => t.live
      /\ watch[o].status = "watching" => NoneOpening(o)
      /\ watch[o].status = "refused" => NoneOpening(o) /\ NoneSyncing(o)
      /\ watch[o].status = "config_changed" => NoneOpening(o) \/ NoneSyncing(o)
      /\ watch[o].status # "parked" => \A t \in tasks : t.of = o /\ IsSyncing(t) => t.live
      /\ watch[o].status = "parked" => \A t \in tasks : t.of = o => ~t.live

\* Nothing of the object is under way that a new admission could meet.
Shut(o) ==
  watch[o].status \in {"refused", "config_changed"} /\ NoneOpening(o) /\ NoneSyncing(o)

\* Who may still refuse or admit an object anew finds it shut.
AnswerSound ==
  /\ \A t \in tasks :
       t.kind = "admission" /\ t.at = "reporting" /\ t.live /\ Up(t.of) => Shut(t.of)
  /\ tick.at = "admitting" => tick.on \in Object
  /\ tick.at = "admitting" /\ tick.live /\ Up(tick.on) => Shut(tick.on)

\* A stopped machine watches nothing.
StopSound == stopped => \A o \in Object : IsCurrent(o) => watch[o].status # "watching"

IInv ==
  /\ CurrentSound
  /\ WatchersFollowTheSet
  /\ AdmissionSound
  /\ StatusSound
  /\ AnswerSound
  /\ StopSound
  /\ WorkIsDriven

--------------------------------------------------------------------------------
(***************************************************************************)
(* What the operators on objects and tasks return.                         *)
(***************************************************************************)

Objects == [Object -> LoopWatch]

\* Closing changes the watchers of the closed objects only.
LEMMA ClosedWatch ==
  ASSUME NEW P, NEW w \in Objects
  PROVE  /\ Closed(P, w) \in Objects
         /\ \A o \in Object :
              /\ Closed(P, w)[o].status = w[o].status
              /\ Closed(P, w)[o].item = w[o].item
              /\ Closed(P, w)[o].pending = w[o].pending
              /\ Closed(P, w)[o].watcher =
                   IF o \in P /\ w[o].watcher \in {"opening", "ready"} THEN "closing"
                   ELSE w[o].watcher
PROOF
  <1>1. ASSUME NEW o \in Object
        PROVE  /\ Closed(P, w)[o] \in LoopWatch
               /\ Closed(P, w)[o].status = w[o].status
               /\ Closed(P, w)[o].item = w[o].item
               /\ Closed(P, w)[o].pending = w[o].pending
               /\ Closed(P, w)[o].watcher =
                    IF o \in P /\ w[o].watcher \in {"opening", "ready"} THEN "closing"
                    ELSE w[o].watcher
    <2>1. w[o] \in LoopWatch
      BY DEF Objects
    <2>2. Closed(P, w)[o] = IF o \in P /\ w[o].watcher \in {"opening", "ready"}
                            THEN [w[o] EXCEPT !.watcher = "closing"] ELSE w[o]
      BY DEF Closed
    <2> QED
      BY <2>1, <2>2 DEF LoopWatch
  <1>2. Closed(P, w) \in Objects
    BY <1>1 DEF Closed, Objects
  <1> QED
    BY <1>1, <1>2

\* A stop clears the noted work and closes.
LEMMA HaltedWatch ==
  ASSUME NEW P, NEW w \in Objects
  PROVE  /\ Halted(P, w) \in Objects
         /\ \A o \in Object :
              /\ Halted(P, w)[o].status = w[o].status
              /\ Halted(P, w)[o].item = w[o].item
              /\ Halted(P, w)[o].pending = (w[o].pending /\ o \notin P)
              /\ Halted(P, w)[o].watcher =
                   IF o \in P /\ w[o].watcher \in {"opening", "ready"} THEN "closing"
                   ELSE w[o].watcher
PROOF
  <1> DEFINE v == [o \in Object |-> IF o \in P THEN [w[o] EXCEPT !.pending = FALSE] ELSE w[o]]
  <1>1. ASSUME NEW o \in Object
        PROVE  /\ v[o] \in LoopWatch
               /\ v[o].status = w[o].status /\ v[o].item = w[o].item
               /\ v[o].watcher = w[o].watcher
               /\ v[o].pending = (w[o].pending /\ o \notin P)
    <2>1. w[o] \in LoopWatch
      BY DEF Objects
    <2>2. CASE o \in P
      BY <2>1, <2>2 DEF LoopWatch
    <2>3. CASE o \notin P
      BY <2>1, <2>3 DEF LoopWatch
    <2> QED
      BY <2>2, <2>3
  <1>2. v \in Objects
    BY <1>1 DEF Objects
  <1>3. Halted(P, w) = Closed(P, v)
    BY DEF Halted
  <1> HIDE DEF v
  <1>4. /\ Closed(P, v) \in Objects
        /\ \A o \in Object :
             /\ Closed(P, v)[o].status = v[o].status
             /\ Closed(P, v)[o].item = v[o].item
             /\ Closed(P, v)[o].pending = v[o].pending
             /\ Closed(P, v)[o].watcher =
                  IF o \in P /\ v[o].watcher \in {"opening", "ready"} THEN "closing"
                  ELSE v[o].watcher
    BY <1>2, ClosedWatch
  <1> QED
    BY <1>1, <1>3, <1>4

\* A park does that and publishes its status.
LEMMA ParkedWatch ==
  ASSUME NEW P, NEW w \in Objects
  PROVE  /\ Parked(P, w) \in Objects
         /\ \A o \in Object :
              /\ Parked(P, w)[o].status = IF o \in P THEN "parked" ELSE w[o].status
              /\ Parked(P, w)[o].item = w[o].item
              /\ Parked(P, w)[o].pending = (w[o].pending /\ o \notin P)
              /\ Parked(P, w)[o].watcher =
                   IF o \in P /\ w[o].watcher \in {"opening", "ready"} THEN "closing"
                   ELSE w[o].watcher
PROOF
  <1> DEFINE v == [o \in Object |->
                     IF o \in P THEN [w[o] EXCEPT !.status = "parked"] ELSE w[o]]
  <1>1. ASSUME NEW o \in Object
        PROVE  /\ v[o] \in LoopWatch
               /\ v[o].status = IF o \in P THEN "parked" ELSE w[o].status
               /\ v[o].item = w[o].item
               /\ v[o].watcher = w[o].watcher /\ v[o].pending = w[o].pending
    <2>1. w[o] \in LoopWatch
      BY DEF Objects
    <2> QED
      BY <2>1 DEF LoopWatch
  <1>2. v \in Objects
    BY <1>1 DEF Objects
  <1>3. Parked(P, w) = Halted(P, v)
    BY DEF Parked
  <1> HIDE DEF v
  <1> QED
    BY <1>1, <1>2, <1>3, HaltedWatch

\* A task after its generation may have ended: as it was, or no longer live.
LEMMA BumpedTasks ==
  ASSUME NEW P, NEW ts \in SUBSET TaskState
  PROVE  /\ Bumped(P, ts) \in SUBSET TaskState
         /\ \A u \in Bumped(P, ts) :
              \/ u \in ts /\ u.of \notin P
              \/ /\ u.of \in P /\ ~u.live
                 /\ \E v \in ts : u = [v EXCEPT !.live = FALSE]
         /\ \A v \in ts : v.of \notin P => v \in Bumped(P, ts)
PROOF
  <1>1. ASSUME NEW v \in ts, v.of \notin P
        PROVE  [v EXCEPT !.live = @ /\ v.of \notin P] = v
    BY <1>1 DEF TaskState
  <1>2. ASSUME NEW v \in ts, v.of \in P
        PROVE  /\ [v EXCEPT !.live = @ /\ v.of \notin P] = [v EXCEPT !.live = FALSE]
               /\ [v EXCEPT !.live = FALSE] \in TaskState
               /\ [v EXCEPT !.live = FALSE].of \in P
               /\ ~[v EXCEPT !.live = FALSE].live
    BY <1>2 DEF TaskState
  <1>3. ASSUME NEW u \in Bumped(P, ts)
        PROVE  /\ u \in TaskState
               /\ \/ u \in ts /\ u.of \notin P
                  \/ /\ u.of \in P /\ ~u.live
                     /\ \E v \in ts : u = [v EXCEPT !.live = FALSE]
    <2>1. PICK v \in ts : u = [v EXCEPT !.live = @ /\ v.of \notin P]
      BY <1>3 DEF Bumped
    <2>2. CASE v.of \notin P
      BY <1>1, <2>1, <2>2
    <2>3. CASE v.of \in P
      BY <1>2, <2>1, <2>3
    <2> QED
      BY <2>2, <2>3
  <1>4. ASSUME NEW v \in ts, v.of \notin P
        PROVE  v \in Bumped(P, ts)
    BY <1>1, <1>4 DEF Bumped
  <1> QED
    BY <1>3, <1>4

--------------------------------------------------------------------------------
(***************************************************************************)
(* Steps that admit nothing: objects are parked (P) or refused, or their   *)
(* item is found to have changed (F), and tasks end.                       *)
(***************************************************************************)

\* What becomes of the objects.
WatchFalls(P, F) ==
  /\ P \cap F = {}
  /\ \A o \in Object :
       /\ o \in P => watch'[o].status = "parked"
       /\ o \in F => watch'[o].status \in {"refused", "config_changed"}
       /\ o \in P \cup F => watch'[o].watcher \notin {"opening", "ready"}
       /\ o \notin P \cup F =>
            /\ watch'[o].status = watch[o].status
            /\ \/ watch'[o].watcher = watch[o].watcher
               \/ /\ watch'[o].watcher \notin {"opening", "ready"}
                  /\ \A t \in tasks' : t.of = o /\ Admits(t) => ~t.live
       /\ watch'[o].watcher # "none" => watch[o].watcher # "none"

\* A task that is new or has gone on, and admits nothing.
Harmless(u) ==
  /\ u.kind = "admission" => u.at = "reporting" /\ Shut(u.of)'
  /\ IsSyncing(u) => u.live /\ watch[u.of].status = "watching" /\ watch'[u.of].status = "watching"
  /\ u.live /\ Up(u.of) => watch'[u.of].status # "parked"

\* What becomes of the tasks.
TasksFall(P) ==
  \A u \in tasks' :
    \/ u \in tasks /\ u.of \notin P
    \/ u.of \in P /\ ~u.live /\ \E v \in tasks : u = [v EXCEPT !.live = FALSE]
    \/ Harmless(u)

\* What becomes of the reconcile pass.
TickFalls(P) ==
  tick'.at = "admitting" =>
    /\ tick'.on \in Object
    /\ tick'.live /\ Up(tick'.on) =>
         \/ tick.at = "admitting" /\ tick.live /\ tick'.on = tick.on /\ tick.on \notin P
         \/ \E o \in Object : o = tick'.on /\ Shut(o)'

\* What is still under way of objects that fell.
FallenSound(F) ==
  \A o \in F :
    Up(o) =>
      /\ watch'[o].status = "refused" => NoneOpening(o)' /\ NoneSyncing(o)'
      /\ NoneOpening(o)' \/ NoneSyncing(o)'
      /\ \A t \in tasks' : t.of = o /\ IsSyncing(t) => t.live

\* Tasks that stay, stay as they are but for their generation.
LEMMA StagesFall ==
  ASSUME TypeOK, TypeOK', NEW P, TasksFall(P), NEW u \in tasks'
  PROVE  /\ IsOpening(u) => \E v \in tasks : IsOpening(v) /\ v.of = u.of /\ (u.live => v = u)
                                             /\ (u # v => u.of \in P)
         /\ Admits(u) /\ u.live => u \in tasks /\ u.of \notin P
         /\ IsSyncing(u) =>
              \/ Harmless(u)
              \/ \E v \in tasks : IsSyncing(v) /\ v.of = u.of /\ (u # v => u.of \in P)
PROOF
  <1>1. CASE u \in tasks /\ u.of \notin P
    BY <1>1
  <1>2. ASSUME u.of \in P, ~u.live, NEW v \in tasks, u = [v EXCEPT !.live = FALSE]
        PROVE  v.of = u.of /\ v.kind = u.kind /\ v.at = u.at
    <2>1. v \in TaskState
      BY DEF TypeOK
    <2> QED
      BY <1>2, <2>1 DEF TaskState
  <1>3. CASE Harmless(u)
    BY <1>3 DEF Harmless, IsOpening, Admits
  <1> QED
    BY <1>1, <1>2, <1>3 DEF TasksFall, IsOpening, IsSyncing, Admits

\* Such a step keeps the invariant, if it keeps rounds single and driven.
LEMMA FallKept ==
  ASSUME IInv, TypeOK', UNCHANGED current, Draining' = Draining, NEW P, NEW F,
         WatchFalls(P, F), TasksFall(P), TickFalls(P), FallenSound(F),
         stopped' => stopped \/ \A o \in Object : IsCurrent(o) => o \in P,
         WorkIsDriven'
  PROVE  IInv'
PROOF
  <1>t. TypeOK
    BY DEF IInv, WatchersFollowTheSet
  <1>u. \A o : Up(o)' <=> Up(o)
    BY DEF Up, IsCurrent
  <1>w. \A o \in Object :
          /\ o \notin P \cup F => watch'[o].status = watch[o].status
          /\ o \in P => watch'[o].status = "parked"
          /\ o \in F => watch'[o].status \in {"refused", "config_changed"} /\ o \notin P
    BY DEF WatchFalls
  <1>0. \A t \in tasks' : t.of \in Object
    BY DEF TypeOK, TaskState
  <1>1. CurrentSound'
    <2>1. \A o \in Object : watch[o].status # "unused" => watch'[o].status # "unused"
      BY <1>w
    <2>2. \A l \in Loop : current[l] # None => current[l] \in Object
      BY <1>t DEF TypeOK
    <2> QED
      BY <2>1, <2>2 DEF CurrentSound, IInv
  <1>2. WatchersFollowTheSet'
    <2>1. \A o, p \in Object :
            watch'[o].watcher # "none" /\ watch'[p].watcher # "none" /\ LoopOf(o) = LoopOf(p)
              => o = p
      BY DEF WatchFalls, IInv, WatchersFollowTheSet
    <2>2. \A o \in Object :
            Subscribed(o)' => IsCurrent(o)' /\ ~Draining'
                              /\ watch'[o].status \in {"admitting", "watching"}
      <3> SUFFICES ASSUME NEW o \in Object, Subscribed(o)'
                   PROVE  IsCurrent(o)' /\ ~Draining'
                          /\ watch'[o].status \in {"admitting", "watching"}
        OBVIOUS
      <3>1. o \notin P \cup F /\ watch'[o].watcher = watch[o].watcher
        BY DEF WatchFalls, Subscribed
      <3>2. Subscribed(o)
        BY <3>1 DEF Subscribed
      <3> QED
        BY <1>w, <3>1, <3>2 DEF IInv, WatchersFollowTheSet, IsCurrent
    <2> QED
      BY <2>1, <2>2 DEF WatchersFollowTheSet
  <1>3. AdmissionSound'
    <2> SUFFICES ASSUME NEW t \in tasks', Admits(t), t.live, Up(t.of),
                        watch'[t.of].status = "admitting"
                 PROVE  /\ t.at \in {"resolving", "predecessor"} => ~Subscribed(t.of)'
                        /\ t.at = "predecessor" =>
                             \A p \in Object :
                               LoopOf(p) = LoopOf(t.of) /\ watch'[p].watcher # "none"
                                 => p \in t.wait
                        /\ t.at = "opening" => Subscribed(t.of)'
                        /\ \A u \in tasks' : Admits(u) /\ u.live /\ u.of = t.of => u = t
      BY <1>u DEF AdmissionSound, Admits
    <2>1. t \in tasks /\ t.of \notin P \cup F /\ watch[t.of].status = "admitting"
      BY <1>0, <1>t, <1>w, StagesFall
    <2>2. watch'[t.of].watcher = watch[t.of].watcher
      BY <1>0, <2>1 DEF WatchFalls
    <2>3. \A u \in tasks' : Admits(u) /\ u.live => u \in tasks
      BY <1>t, StagesFall
    <2>4. \A p \in Object : watch'[p].watcher # "none" => watch[p].watcher # "none"
      BY DEF WatchFalls
    <2>5. /\ t.at \in {"resolving", "predecessor"} => ~Subscribed(t.of)
          /\ t.at = "predecessor" =>
               \A p \in Object :
                 LoopOf(p) = LoopOf(t.of) /\ watch[p].watcher # "none" => p \in t.wait
          /\ t.at = "opening" => Subscribed(t.of)
          /\ \A u \in tasks : Admits(u) /\ u.live /\ u.of = t.of => u = t
      BY <2>1 DEF IInv, AdmissionSound
    <2> QED
      BY <2>2, <2>3, <2>4, <2>5 DEF Subscribed
  <1>o. \A o \in Object : NoneOpening(o) => NoneOpening(o)'
    <2> SUFFICES ASSUME NEW o \in Object, NoneOpening(o), NEW u \in tasks', u.of = o
                 PROVE  ~IsOpening(u)
      BY DEF NoneOpening, IsOpening
    <2> QED
      BY <1>t, StagesFall DEF NoneOpening
  <1>s. \A o \in Object :
          NoneSyncing(o) /\ watch'[o].status # "watching" => NoneSyncing(o)'
    <2> SUFFICES ASSUME NEW o \in Object, NoneSyncing(o), watch'[o].status # "watching",
                        NEW u \in tasks', u.of = o
                 PROVE  ~IsSyncing(u)
      BY DEF NoneSyncing, IsSyncing
    <2>1. ~Harmless(u) \/ ~IsSyncing(u)
      BY DEF Harmless
    <2> QED
      BY <1>t, <2>1, StagesFall DEF NoneSyncing
  <1>4. StatusSound'
    <2> SUFFICES ASSUME NEW o \in Object, Up(o)
                 PROVE  /\ watch'[o].status = "admitting" =>
                             /\ NoneSyncing(o)'
                             /\ \A t \in tasks' : t.of = o /\ IsOpening(t) => t.live
                        /\ watch'[o].status = "watching" => NoneOpening(o)'
                        /\ watch'[o].status = "refused" => NoneOpening(o)' /\ NoneSyncing(o)'
                        /\ watch'[o].status = "config_changed" =>
                             NoneOpening(o)' \/ NoneSyncing(o)'
                        /\ watch'[o].status # "parked" =>
                             \A t \in tasks' : t.of = o /\ IsSyncing(t) => t.live
                        /\ watch'[o].status = "parked" =>
                             \A t \in tasks' : t.of = o => ~t.live
      BY <1>u DEF StatusSound, IsOpening, IsSyncing
    <2>1. CASE o \in F
      BY <1>w, <2>1 DEF FallenSound
    <2>2. CASE o \in P
      <3>1. ASSUME NEW t \in tasks', t.of = o
            PROVE  ~t.live
        <4>1. ~(Harmless(t) /\ t.live)
          BY <2>2, <3>1, <1>w DEF Harmless
        <4> QED
          BY <2>2, <3>1, <4>1 DEF TasksFall
      <3> QED
        BY <1>w, <2>2, <3>1
    <2>3. CASE o \notin P \cup F
      <3>1. watch'[o].status = watch[o].status
        BY <1>w, <2>3
      <3>2. /\ watch[o].status = "admitting" =>
                 /\ NoneSyncing(o)
                 /\ \A t \in tasks : t.of = o /\ IsOpening(t) => t.live
            /\ watch[o].status = "watching" => NoneOpening(o)
            /\ watch[o].status = "refused" => NoneOpening(o) /\ NoneSyncing(o)
            /\ watch[o].status = "config_changed" => NoneOpening(o) \/ NoneSyncing(o)
            /\ watch[o].status # "parked" =>
                 \A t \in tasks : t.of = o /\ IsSyncing(t) => t.live
            /\ watch[o].status = "parked" => \A t \in tasks : t.of = o => ~t.live
        BY DEF IInv, StatusSound
      <3>3. ASSUME NEW t \in tasks', t.of = o, IsOpening(t)
            PROVE  t \in tasks
        BY <1>t, <2>3, <3>3, StagesFall
      <3>4. ASSUME NEW t \in tasks', t.of = o, IsSyncing(t)
            PROVE  t \in tasks \/ t.live
        BY <1>t, <2>3, <3>4, StagesFall DEF Harmless
      <3>5. ASSUME NEW t \in tasks', t.of = o, t.live, watch[o].status = "parked"
            PROVE  FALSE
        BY <2>3, <3>1, <3>2, <3>5 DEF TasksFall, Harmless
      <3> QED
        BY <1>o, <1>s, <3>1, <3>2, <3>3, <3>4, <3>5
    <2> QED
      BY <2>1, <2>2, <2>3
  <1>h. \A o \in Object \ P : Shut(o) => Shut(o)'
    <2> SUFFICES ASSUME NEW o \in Object \ P, Shut(o)
                 PROVE  Shut(o)'
      OBVIOUS
    <2>1. watch'[o].status \in {"refused", "config_changed"}
      BY <1>w DEF Shut
    <2> QED
      BY <1>o, <1>s, <2>1 DEF Shut
  <1>5. AnswerSound'
    <2>1. ASSUME NEW t \in tasks', t.kind = "admission", t.at = "reporting", t.live, Up(t.of)
          PROVE  Shut(t.of)'
      <3>1. CASE t \in tasks /\ t.of \notin P
        BY <1>0, <1>h, <2>1, <3>1 DEF IInv, AnswerSound
      <3>2. CASE Harmless(t)
        BY <2>1, <3>2 DEF Harmless
      <3> QED
        BY <2>1, <3>1, <3>2 DEF TasksFall
    <2>2. tick'.at = "admitting" =>
            /\ tick'.on \in Object
            /\ tick'.live /\ Up(tick'.on) => \E o \in Object : o = tick'.on /\ Shut(o)'
      BY <1>h DEF TickFalls, IInv, AnswerSound
    <2> QED
      BY <1>u, <2>1, <2>2 DEF AnswerSound
  <1>6. StopSound'
    BY <1>w DEF IInv, StopSound, IsCurrent
  <1> QED
    BY <1>1, <1>2, <1>3, <1>4, <1>5, <1>6 DEF IInv

--------------------------------------------------------------------------------
(***************************************************************************)
(* The types.                                                              *)
(***************************************************************************)

\* A task that begins.
LEMMA NewTaskTyped ==
  ASSUME NEW o \in Object,
         NEW kind \in {"round", "window", "error", "admission"},
         NEW at \in {"syncing", "settling", "sleeping", "reporting", "resolving",
                     "predecessor", "opening"}
  PROVE  /\ NewTask(o, kind, at) \in TaskState
         /\ NewTask(o, kind, at).of = o /\ NewTask(o, kind, at).kind = kind
         /\ NewTask(o, kind, at).at = at /\ NewTask(o, kind, at).live
         /\ NewTask(o, kind, at).wait = {}
PROOF
  BY DEF NewTask, TaskState

\* A task that goes on.
LEMMA TaskTyped ==
  ASSUME NEW t \in TaskState,
         NEW at \in {"syncing", "settling", "sleeping", "reporting", "resolving",
                     "predecessor", "opening"},
         NEW wait \in SUBSET Object
  PROVE  /\ [t EXCEPT !.at = at] \in TaskState
         /\ [t EXCEPT !.at = at, !.wait = wait] \in TaskState
         /\ [t EXCEPT !.wait = wait] \in TaskState
PROOF
  BY DEF TaskState

\* The tasks that an end of generations leaves.
LEMMA AbortedTyped ==
  ASSUME NEW P, NEW ts \in SUBSET TaskState
  PROVE  Aborted(P, ts) \in SUBSET TaskState
PROOF
  <1>1. {t \in ts : t.of \in P => t.at # "sleeping"} \in SUBSET TaskState
    OBVIOUS
  <1> QED
    BY <1>1, BumpedTasks DEF Aborted

\* Objects an outcome closes.
LEMMA ClosedByTyped ==
  ASSUME TypeOK, NEW o \in Object, NEW outcome
  PROVE  ClosedBy(o, outcome) \subseteq Object /\ EndedBy(o, outcome) \subseteq Object
PROOF
  BY DEF TypeOK, ClosedBy, EndedBy

\* Ways the reconcile pass may be left.
LEMMA TickTyped ==
  ASSUME NEW T \in TickState, NEW left \in SUBSET Object, NEW o \in Object,
         NEW at \in {"idle", "next", "round", "admitting"}, NEW live \in BOOLEAN
  PROVE  /\ NoTick \in TickState
         /\ [NoTick EXCEPT !.at = at, !.left = left] \in TickState
         /\ [at |-> at, left |-> left, on |-> o, live |-> live] \in TickState
         /\ [T EXCEPT !.live = live] \in TickState
PROOF
  BY DEF NoTick, TickState

\* runSync: it notes the work for the driver that runs, or starts one.
LEMMA RunSyncDoes ==
  ASSUME TypeOK, NEW o \in Object, NEW w \in Objects, NEW ts \in SUBSET TaskState,
         RunSync(o, w, ts)
  PROVE  /\ watch' \in Objects /\ tasks' \in SUBSET TaskState /\ dirty' \subseteq Object
         /\ \A p \in Object :
              /\ watch'[p].status = w[p].status /\ watch'[p].watcher = w[p].watcher
              /\ p # o => watch'[p].pending = w[p].pending
         /\ \/ tasks' = ts
            \/ /\ tasks' = ts \cup {NewTask(o, "round", "syncing")}
               /\ ~InFlight(o) /\ ~Draining /\ ~stopped /\ IsCurrent(o)
               /\ w[o].status = "watching"
         /\ InFlight(o) => tasks' = ts
         /\ ~InFlight(o) /\ ~Draining /\ ~stopped /\ IsCurrent(o) /\ w[o].status = "watching"
              => tasks' = ts \cup {NewTask(o, "round", "syncing")}
PROOF
  <1>d. dirty \subseteq Object
    BY DEF TypeOK
  <1>1. CASE /\ InFlight(o)
             /\ watch' = [w EXCEPT ![o].pending = TRUE]
             /\ tasks' = ts
             /\ UNCHANGED dirty
    <2>1. \A p \in Object : w[p] \in LoopWatch
      BY DEF Objects
    <2>2. /\ watch' \in Objects
          /\ \A p \in Object :
               /\ watch'[p].status = w[p].status /\ watch'[p].watcher = w[p].watcher
               /\ p # o => watch'[p].pending = w[p].pending
      BY <1>1, <2>1 DEF Objects, LoopWatch
    <2> QED
      BY <1>1, <1>d, <2>2
  <1>2. CASE /\ ~InFlight(o)
             /\ IF ~Draining /\ ~stopped /\ IsCurrent(o) /\ w[o].status = "watching"
                THEN /\ tasks' = ts \cup {NewTask(o, "round", "syncing")}
                     /\ dirty' = dirty \ {o}
                ELSE tasks' = ts /\ UNCHANGED dirty
             /\ watch' = w
    BY <1>2, <1>d, NewTaskTyped
  <1> QED
    BY <1>1, <1>2 DEF RunSync

\* A driver goes on with what was noted or ends.
LEMMA DriverDoes ==
  ASSUME TypeOK, NEW t \in tasks, DriverGoesOn(t)
  PROVE  /\ watch' \in Objects /\ tasks' \in SUBSET TaskState /\ tick' \in TickState
         /\ dirty' \subseteq Object
         /\ \A p \in Object :
              /\ watch'[p].status = watch[p].status /\ watch'[p].watcher = watch[p].watcher
              /\ watch'[p].pending = (watch[p].pending /\ p # t.of)
         /\ \/ tasks' = tasks \ {t}
            \/ /\ tasks' = (tasks \ {t}) \cup {NewTask(t.of, "round", "syncing")}
               /\ CanRun(t.of)
         /\ tick'.at = "admitting" => tick' = tick
         /\ UNCHANGED <<current, stopped, drain>>
PROOF
  <1>1. /\ t.of \in Object /\ watch \in Objects /\ tasks \in SUBSET TaskState
        /\ tick \in TickState /\ dirty \subseteq Object
    BY DEF TypeOK, TaskState, Objects
  <1>2. \A p \in Object : watch[p] \in LoopWatch
    BY <1>1 DEF Objects
  <1>3. watch' = [watch EXCEPT ![t.of].pending = @ /\ ~FollowUp(t.of)]
    BY DEF DriverGoesOn
  <1>4. watch[t.of].pending /\ ~FollowUp(t.of) <=> FALSE
    BY DEF FollowUp
  <1>5. watch' = [watch EXCEPT ![t.of].pending = FALSE]
    BY <1>3, <1>4
  <1>6. /\ watch' \in Objects
        /\ \A p \in Object :
              /\ watch'[p].status = watch[p].status /\ watch'[p].watcher = watch[p].watcher
              /\ watch'[p].pending = (watch[p].pending /\ p # t.of)
    <2>1. ASSUME NEW p \in Object
          PROVE  /\ watch'[p] \in LoopWatch
                 /\ watch'[p].status = watch[p].status /\ watch'[p].watcher = watch[p].watcher
                 /\ watch'[p].pending = (watch[p].pending /\ p # t.of)
      <3>0. watch[p] \in LoopWatch
        BY <1>2
      <3>1. CASE p = t.of
        <4>1. watch'[p] = [watch[p] EXCEPT !.pending = FALSE]
          BY <1>1, <1>5, <3>1 DEF Objects
        <4> QED
          BY <3>0, <3>1, <4>1 DEF LoopWatch
      <3>2. CASE p # t.of
        <4>1. watch'[p] = watch[p]
          BY <1>1, <1>5, <3>2 DEF Objects
        <4> QED
          BY <3>0, <3>2, <4>1 DEF LoopWatch
      <3> QED
        BY <3>1, <3>2
    <2> QED
      BY <1>1, <1>5, <2>1 DEF Objects
  <1>7. TickAfter(t.of) \in TickState
        /\ (TickAfter(t.of).at = "admitting" => TickAfter(t.of) = tick)
    <2>1. CASE tick.at = "round" /\ tick.on = t.of
      BY <1>1, <2>1 DEF TickAfter, NoTick, TickState
    <2>2. CASE ~(tick.at = "round" /\ tick.on = t.of)
      BY <1>1, <2>2 DEF TickAfter
    <2> QED
      BY <2>1, <2>2
  <1>8. /\ tasks' \in SUBSET TaskState /\ tick' \in TickState /\ dirty' \subseteq Object
        /\ \/ tasks' = tasks \ {t}
           \/ /\ tasks' = (tasks \ {t}) \cup {NewTask(t.of, "round", "syncing")}
              /\ CanRun(t.of)
        /\ tick'.at = "admitting" => tick' = tick
        /\ UNCHANGED <<current, stopped, drain>>
    BY <1>1, <1>7, NewTaskTyped DEF DriverGoesOn
  <1> QED
    BY <1>6, <1>8

\* Objects whose status an outcome changes without ending their generation.
Fallen(o, outcome) == IF outcome \in {"root", "config_changed"} THEN {o} ELSE {}

\* handleOutcome, in the terms of a step that admits nothing.
LEMMA OutcomeDoes ==
  ASSUME TypeOK, NEW o \in Object, NEW outcome \in Outcome, HandleOutcome(o, outcome)
  PROVE  /\ watch' \in Objects /\ tick' \in TickState /\ stopped' \in BOOLEAN
         /\ EndedBy(o, outcome) \cap Fallen(o, outcome) = {}
         /\ \A p \in Object :
              /\ p \in EndedBy(o, outcome) => watch'[p].status = "parked"
              /\ p \in Fallen(o, outcome) =>
                   watch'[p].status = IF outcome = "root" THEN "refused" ELSE "config_changed"
              /\ p \in EndedBy(o, outcome) \cup Fallen(o, outcome) =>
                   watch'[p].watcher \notin {"opening", "ready"}
              /\ p \notin EndedBy(o, outcome) \cup Fallen(o, outcome) =>
                   /\ watch'[p].status = watch[p].status
                   /\ watch'[p].watcher = watch[p].watcher
              /\ watch'[p].watcher # "none" => watch[p].watcher # "none"
              /\ watch'[p].pending => watch[p].pending
         /\ tick'.at = tick.at /\ tick'.on = tick.on
         /\ tick'.live => tick.live /\ tick.on \notin EndedBy(o, outcome)
         /\ stopped => stopped'
         /\ stopped' => stopped \/ \A p \in Object : IsCurrent(p) => p \in EndedBy(o, outcome)
PROOF
  <1>t. /\ watch \in Objects /\ tick \in TickState /\ stopped \in BOOLEAN
        /\ \A p \in Object : watch[p] \in LoopWatch
    BY DEF TypeOK, Objects
  <1> DEFINE P == EndedBy(o, outcome)
  <1>1. tick' = [tick EXCEPT !.live = @ /\ tick.on \notin P]
    BY DEF HandleOutcome, TickBumped
  <1>2. /\ tick' \in TickState /\ tick'.at = tick.at /\ tick'.on = tick.on
        /\ tick'.live => tick.live /\ tick.on \notin P
    BY <1>t, <1>1 DEF TickState
  <1>3. stopped' = (stopped \/ outcome = "machine_stopped")
    BY DEF HandleOutcome
  <1>4. /\ stopped' \in BOOLEAN
        /\ stopped => stopped'
        /\ stopped' => stopped \/ \A p \in Object : IsCurrent(p) => p \in P
    <2>1. ASSUME outcome = "machine_stopped", NEW p \in Object, IsCurrent(p)
          PROVE  p \in P
      <3>1. LoopOf(p) \in Loop /\ p # None /\ current[LoopOf(p)] = p
        BY <2>1, WatchAssumption DEF Object, LoopOf, IsCurrent
      <3> QED
        BY <2>1, <3>1 DEF EndedBy, ClosedBy
    <2> QED
      BY <1>t, <1>3, <2>1
  <1>5. CASE outcome = "done"
    <2>1. watch' = watch /\ P = {} /\ Fallen(o, outcome) = {}
      BY <1>5 DEF HandleOutcome, EndedBy, Fallen
    <2> QED
      BY <1>t, <1>2, <1>4, <2>1
  <1>6. CASE outcome \in {"root", "config_changed"}
    <2>1. PICK s \in {"refused", "config_changed"} :
            /\ s = IF outcome = "root" THEN "refused" ELSE "config_changed"
            /\ watch' = Closed({o}, [watch EXCEPT ![o].status = s])
      BY <1>6 DEF HandleOutcome
    <2>2. P = {} /\ Fallen(o, outcome) = {o}
      BY <1>6 DEF EndedBy, Fallen
    <2>3. PICK w : w = [watch EXCEPT ![o].status = s]
      OBVIOUS
    <2>4. /\ w \in Objects
          /\ \A p \in Object : /\ w[p].status = IF p = o THEN s ELSE watch[p].status
                               /\ w[p].watcher = watch[p].watcher
                               /\ w[p].pending = watch[p].pending
      BY <1>t, <2>3 DEF Objects, LoopWatch
    <2>5. watch' = Closed({o}, w)
      BY <2>1, <2>3
    <2>6. /\ watch' \in Objects
          /\ \A p \in Object :
              /\ watch'[p].status = w[p].status
              /\ watch'[p].pending = w[p].pending
              /\ watch'[p].watcher =
                   IF p \in {o} /\ w[p].watcher \in {"opening", "ready"} THEN "closing"
                   ELSE w[p].watcher
      BY <2>4, <2>5, ClosedWatch
    <2>7. \A p \in Object :
              /\ p \in P => watch'[p].status = "parked"
              /\ p \in Fallen(o, outcome) =>
                   watch'[p].status = IF outcome = "root" THEN "refused" ELSE "config_changed"
              /\ p \in P \cup Fallen(o, outcome) =>
                   watch'[p].watcher \notin {"opening", "ready"}
              /\ p \notin P \cup Fallen(o, outcome) =>
                   /\ watch'[p].status = watch[p].status
                   /\ watch'[p].watcher = watch[p].watcher
              /\ watch'[p].watcher # "none" => watch[p].watcher # "none"
              /\ watch'[p].pending => watch[p].pending
      <3> SUFFICES ASSUME NEW p \in Object
                   PROVE  /\ p = o => watch'[p].status = s
                          /\ p = o => watch'[p].watcher \notin {"opening", "ready"}
                          /\ p # o => /\ watch'[p].status = watch[p].status
                                      /\ watch'[p].watcher = watch[p].watcher
                          /\ watch'[p].watcher # "none" => watch[p].watcher # "none"
                          /\ watch'[p].pending => watch[p].pending
        BY <2>1, <2>2
      <3>1. CASE p = o
        BY <2>4, <2>6, <3>1
      <3>2. CASE p # o
        BY <2>4, <2>6, <3>2
      <3> QED
        BY <3>1, <3>2
    <2>8. P \cap Fallen(o, outcome) = {}
      BY <2>2
    <2> QED
      BY <1>2, <1>4, <2>6, <2>7, <2>8
  <1>7. CASE outcome \in {"loop_stopped", "machine_stopped"}
    <2>1. watch' = Parked(P, watch) /\ Fallen(o, outcome) = {}
      BY <1>7 DEF HandleOutcome, EndedBy, Fallen
    <2>2. /\ watch' \in Objects
          /\ \A p \in Object :
              /\ watch'[p].status = IF p \in P THEN "parked" ELSE watch[p].status
              /\ watch'[p].pending = (watch[p].pending /\ p \notin P)
              /\ watch'[p].watcher =
                   IF p \in P /\ watch[p].watcher \in {"opening", "ready"} THEN "closing"
                   ELSE watch[p].watcher
      BY <1>t, <2>1, ParkedWatch
    <2> QED
      BY <1>2, <1>4, <2>1, <2>2
  <1> QED
    BY <1>5, <1>6, <1>7 DEF Outcome

\* One round per object, whatever generations end.
LEMMA BumpedSingle ==
  ASSUME NEW P, NEW ts \in SUBSET TaskState,
         \A v, u \in ts : v.kind = "round" /\ u.kind = "round" /\ v.of = u.of => v = u
  PROVE  \A v, u \in Bumped(P, ts) :
           v.kind = "round" /\ u.kind = "round" /\ v.of = u.of => v = u
PROOF
  <1> SUFFICES ASSUME NEW v \in Bumped(P, ts), NEW u \in Bumped(P, ts),
                      v.kind = "round", u.kind = "round", v.of = u.of
               PROVE  v = u
    OBVIOUS
  <1>1. CASE v.of \notin P
    <2>1. v \in ts /\ u \in ts
      BY <1>1, BumpedTasks
    <2> QED
      BY <2>1
  <1>2. CASE v.of \in P
    <2>1. PICK v0 \in ts : v = [v0 EXCEPT !.live = FALSE]
      BY <1>2, BumpedTasks
    <2>2. PICK u0 \in ts : u = [u0 EXCEPT !.live = FALSE]
      BY <1>2, BumpedTasks
    <2>3. v0.kind = v.kind /\ v0.of = v.of /\ u0.kind = u.kind /\ u0.of = u.of
      BY <2>1, <2>2 DEF TaskState
    <2>4. v0 = u0
      BY <2>3
    <2> QED
      BY <2>1, <2>2, <2>4
  <1> QED
    BY <1>1, <1>2

\* What the tasks and objects say of an object that still may act.
LEMMA ActingTask ==
  ASSUME IInv, NEW t \in tasks, ~Void(t), ~Draining
  PROVE  /\ Up(t.of) /\ t.of \in Object /\ t.live
         /\ watch[t.of].status \in {"admitting", "watching", "refused", "config_changed"}
PROOF
  <1>1. t.of \in Object /\ watch[t.of] \in LoopWatch
    BY DEF IInv, WatchersFollowTheSet, TypeOK, TaskState
  <1>2. Up(t.of) /\ t.live
    BY DEF Void, Up
  <1>3. watch[t.of].status # "parked"
    BY <1>1, <1>2 DEF IInv, StatusSound
  <1>4. watch[t.of].status # "unused"
    <2>1. LoopOf(t.of) \in Loop /\ current[LoopOf(t.of)] = t.of /\ t.of # None
      BY <1>1, <1>2, WatchAssumption DEF Up, IsCurrent, LoopOf, Object
    <2> QED
      BY <2>1 DEF IInv, CurrentSound
  <1> QED
    BY <1>1, <1>2, <1>3, <1>4 DEF LoopWatch

--------------------------------------------------------------------------------
(***************************************************************************)
(* Driven work.                                                            *)
(***************************************************************************)

\* A task cannot be left after the drain has settled.
LEMMA NotSettled ==
  ASSUME IInv, NEW t \in tasks
  PROVE  drain # "settled"
PROOF
  BY DEF IInv, WorkIsDriven, SettledIsQuiet

\* Noted work stays with its driver where rounds only get ended that no current,
\* watched object waits for.
LEMMA WorkKept ==
  ASSUME IInv, UNCHANGED <<current, drain>>,
         drain' # "settled",
         stopped => stopped',
         \A v, u \in tasks' :
           v.kind = "round" /\ u.kind = "round" /\ v.of = u.of => v = u,
         \A o \in Object :
           watch'[o].pending /\ CanRun(o)' =>
             \/ InFlight(o)'
             \/ /\ watch[o].pending /\ watch[o].status = "watching"
                /\ InFlight(o) => InFlight(o)'
  PROVE  WorkIsDriven'
PROOF
  <1>1. \A o \in Object : watch'[o].pending /\ CanRun(o)' => InFlight(o)'
    <2> SUFFICES ASSUME NEW o \in Object, watch'[o].pending, CanRun(o)', ~InFlight(o)'
                 PROVE  FALSE
      OBVIOUS
    <2>1. watch[o].pending /\ watch[o].status = "watching" /\ ~InFlight(o)
      OBVIOUS
    <2>2. CanRun(o)
      BY <2>1 DEF CanRun, IsCurrent, Draining
    <2> QED
      BY <2>1, <2>2 DEF IInv, WorkIsDriven, NotedWorkIsDriven
  <1> QED
    BY <1>1 DEF WorkIsDriven, NotedWorkIsDriven, SettledIsQuiet

\* runSync leaves the work it was given with a driver.
LEMMA RunSyncWork ==
  ASSUME IInv, UNCHANGED <<current, stopped, drain>>, drain # "settled",
         NEW o \in Object, NEW w \in Objects, NEW ts \in SUBSET tasks,
         \A v \in tasks : v.kind = "round" => v \in ts,
         \A p \in Object :
           w[p].pending = watch[p].pending /\ (p # o => w[p].status = watch[p].status),
         RunSync(o, w, ts)
  PROVE  WorkIsDriven'
PROOF
  <1>t. TypeOK /\ ts \in SUBSET TaskState
    BY DEF IInv, WatchersFollowTheSet, TypeOK
  <1>1. /\ \A p \in Object :
             /\ watch'[p].status = w[p].status
             /\ p # o => watch'[p].pending = w[p].pending
        /\ \/ tasks' = ts
           \/ tasks' = ts \cup {NewTask(o, "round", "syncing")} /\ ~InFlight(o)
        /\ InFlight(o) => tasks' = ts
        /\ ~InFlight(o) /\ ~Draining /\ ~stopped /\ IsCurrent(o) /\ w[o].status = "watching"
             => tasks' = ts \cup {NewTask(o, "round", "syncing")}
    BY <1>t, RunSyncDoes
  <1>n. /\ NewTask(o, "round", "syncing").of = o
        /\ NewTask(o, "round", "syncing").kind = "round"
    BY NewTaskTyped
  <1>s. \A v, u \in tasks : v.kind = "round" /\ u.kind = "round" /\ v.of = u.of => v = u
    BY DEF IInv, WorkIsDriven, NotedWorkIsDriven
  <1>2. \A v, u \in tasks' : v.kind = "round" /\ u.kind = "round" /\ v.of = u.of => v = u
    <2>1. CASE tasks' = ts
      BY <1>s, <2>1
    <2>2. CASE tasks' = ts \cup {NewTask(o, "round", "syncing")} /\ ~InFlight(o)
      <3>1. \A v \in ts : v.kind = "round" => v.of # o
        BY <2>2 DEF InFlight, Task
      <3> QED
        BY <1>n, <1>s, <2>2, <3>1
    <2> QED
      BY <1>1, <2>1, <2>2
  <1>3. \A p \in Object : InFlight(p) => InFlight(p)'
    BY <1>1 DEF InFlight, Task
  <1>4. ASSUME NEW p \in Object, watch'[p].pending, CanRun(p)'
        PROVE  InFlight(p)' \/ (watch[p].pending /\ watch[p].status = "watching")
    <2>1. CASE p # o
      BY <1>1, <1>4, <2>1 DEF CanRun
    <2>2. CASE p = o /\ InFlight(o)
      BY <1>3, <2>2
    <2>3. CASE p = o /\ ~InFlight(o)
      <3>1. ~Draining /\ ~stopped /\ IsCurrent(o) /\ w[o].status = "watching"
        BY <1>1, <1>4, <2>3 DEF CanRun, IsCurrent, Draining
      <3>2. NewTask(o, "round", "syncing") \in tasks'
        BY <1>1, <2>3, <3>1
      <3> QED
        BY <1>n, <2>3, <3>2 DEF InFlight, Task
    <2> QED
      BY <2>1, <2>2, <2>3
  <1> QED
    BY <1>2, <1>3, <1>4, WorkKept

\* A driver that goes on or ends leaves nothing noted.
LEMMA DriverWork ==
  ASSUME IInv, NEW t \in tasks, t.kind = "round", DriverGoesOn(t)
  PROVE  WorkIsDriven'
PROOF
  <1>t. TypeOK /\ t.of \in Object
    BY DEF IInv, WatchersFollowTheSet, TypeOK, TaskState
  <1>1. /\ \A p \in Object :
             /\ watch'[p].status = watch[p].status
             /\ watch'[p].pending = (watch[p].pending /\ p # t.of)
        /\ \/ tasks' = tasks \ {t}
           \/ tasks' = (tasks \ {t}) \cup {NewTask(t.of, "round", "syncing")}
        /\ UNCHANGED <<current, stopped, drain>>
    BY <1>t, DriverDoes
  <1>n. /\ NewTask(t.of, "round", "syncing").of = t.of
        /\ NewTask(t.of, "round", "syncing").kind = "round"
    BY <1>t, NewTaskTyped
  <1>s. \A v, u \in tasks : v.kind = "round" /\ u.kind = "round" /\ v.of = u.of => v = u
    BY DEF IInv, WorkIsDriven, NotedWorkIsDriven
  <1>2. \A v, u \in tasks' : v.kind = "round" /\ u.kind = "round" /\ v.of = u.of => v = u
    BY <1>1, <1>n, <1>s
  <1>3. \A p \in Object : p # t.of /\ InFlight(p) => InFlight(p)'
    BY <1>1 DEF InFlight, Task
  <1>4. drain # "settled"
    BY NotSettled
  <1> QED
    BY <1>1, <1>2, <1>3, <1>4, WorkKept DEF CanRun

--------------------------------------------------------------------------------
(***************************************************************************)
(* Rounds and reports.                                                     *)
(***************************************************************************)

\* The tasks an end of generations leaves are the given ones, alive if they were and
\* their generation was not ended.
LEMMA AbortedTasks ==
  ASSUME NEW P, NEW ts \in SUBSET TaskState
  PROVE  /\ \A u \in Aborted(P, ts) :
              \/ u \in ts /\ u.of \notin P
              \/ /\ u.of \in P /\ ~u.live
                 /\ \E v \in ts : u = [v EXCEPT !.live = FALSE]
         /\ \A v \in ts : v.of \notin P => v \in Aborted(P, ts)
PROOF
  <1> DEFINE rest == {v \in ts : v.of \in P => v.at # "sleeping"}
  <1>1. rest \in SUBSET TaskState
    OBVIOUS
  <1>2. Aborted(P, ts) = Bumped(P, rest)
    BY DEF Aborted
  <1>3. /\ \A u \in Bumped(P, rest) :
              \/ u \in rest /\ u.of \notin P
              \/ /\ u.of \in P /\ ~u.live
                 /\ \E v \in rest : u = [v EXCEPT !.live = FALSE]
        /\ \A v \in rest : v.of \notin P => v \in Bumped(P, rest)
    BY <1>1, BumpedTasks
  <1> QED
    BY <1>2, <1>3

\* What waits for an answer of its object, and what that says of the object's other
\* tasks.
Answered(t) ==
  \/ t.kind = "round" /\ t.at = "syncing"
  \/ t.kind = "error"
  \/ t.kind = "admission" /\ t.at = "reporting"

LEMMA AnsweredAlone ==
  ASSUME IInv, NEW t \in tasks, ~Void(t), Answered(t), Up(t.of)
  PROVE  /\ t.kind # "error" =>
              /\ NoneOpening(t.of)
              /\ \A u \in tasks \ {t} : u.of = t.of => ~IsSyncing(u)
         /\ NoneOpening(t.of) \/ \A u \in tasks \ {t} : u.of = t.of => ~IsSyncing(u)
         /\ \A u \in tasks : u.of = t.of /\ IsSyncing(u) => u.live
PROOF
  <1> DEFINE o == t.of
  <1>1. /\ o \in Object /\ t.live
        /\ watch[o].status \in {"admitting", "watching", "refused", "config_changed"}
    BY ActingTask DEF Up
  <1>2. /\ watch[o].status = "admitting" => NoneSyncing(o)
        /\ watch[o].status = "watching" => NoneOpening(o)
        /\ watch[o].status = "refused" => NoneOpening(o) /\ NoneSyncing(o)
        /\ watch[o].status = "config_changed" => NoneOpening(o) \/ NoneSyncing(o)
        /\ watch[o].status # "parked" => \A u \in tasks : u.of = o /\ IsSyncing(u) => u.live
    BY <1>1 DEF IInv, StatusSound
  <1>3. CASE t.kind = "round" /\ t.at = "syncing"
    <2>1. ~NoneSyncing(o)
      BY <1>3 DEF NoneSyncing, IsSyncing
    <2>2. \A u \in tasks \ {t} : u.of = o => ~IsSyncing(u)
      BY <1>3 DEF IInv, WorkIsDriven, NotedWorkIsDriven, IsSyncing
    <2> QED
      BY <1>1, <1>2, <2>1, <2>2
  <1>4. CASE t.kind = "error"
    BY <1>1, <1>2, <1>4 DEF NoneSyncing
  <1>5. CASE t.kind = "admission" /\ t.at = "reporting"
    <2>1. Shut(o)
      BY <1>1, <1>5 DEF IInv, AnswerSound
    <2> QED
      BY <1>1, <1>2, <2>1 DEF Shut, NoneSyncing
  <1> QED
    BY <1>3, <1>4, <1>5 DEF Answered

\* An answer of the server, whoever asked, keeps the invariant.
LEMMA OutcomeKept ==
  ASSUME IInv, TypeOK', UNCHANGED <<current, drain>>,
         NEW t \in tasks, ~Void(t), Answered(t),
         NEW outcome \in Outcome, t.kind = "error" => outcome # "root",
         HandleOutcome(t.of, outcome),
         NEW ts \in SUBSET TaskState, tasks' = Aborted(EndedBy(t.of, outcome), ts),
         \A u \in ts :
           u \in tasks \ {t} \/ (u.kind = "round" /\ u.at = "settling" /\ u.of = t.of),
         \A v, u \in ts : v.kind = "round" /\ u.kind = "round" /\ v.of = u.of => v = u,
         \A v \in tasks : v.kind = "round" => \E u \in ts : u.kind = "round" /\ u.of = v.of
  PROVE  IInv'
PROOF
  <1> DEFINE o == t.of
             P == EndedBy(o, outcome)
             F == Fallen(o, outcome)
  <1>t. TypeOK /\ o \in Object
    BY DEF IInv, WatchersFollowTheSet, TypeOK, TaskState
  <1>d. Draining' = Draining /\ \A p : Up(p)' <=> Up(p)
    BY DEF Draining, Up, IsCurrent
  <1>1. /\ P \cap F = {}
        /\ \A p \in Object :
              /\ p \in P => watch'[p].status = "parked"
              /\ p \in F =>
                   watch'[p].status = IF outcome = "root" THEN "refused" ELSE "config_changed"
              /\ p \in P \cup F => watch'[p].watcher \notin {"opening", "ready"}
              /\ p \notin P \cup F =>
                   /\ watch'[p].status = watch[p].status
                   /\ watch'[p].watcher = watch[p].watcher
              /\ watch'[p].watcher # "none" => watch[p].watcher # "none"
              /\ watch'[p].pending => watch[p].pending
        /\ tick'.at = tick.at /\ tick'.on = tick.on
        /\ tick'.live => tick.live /\ tick.on \notin P
        /\ stopped => stopped'
        /\ stopped' => stopped \/ \A p \in Object : IsCurrent(p) => p \in P
    BY <1>t, OutcomeDoes
  <1>2. /\ \A u \in tasks' :
              \/ u \in ts /\ u.of \notin P
              \/ /\ u.of \in P /\ ~u.live
                 /\ \E v \in ts : u = [v EXCEPT !.live = FALSE]
        /\ \A v \in ts : v.of \notin P => v \in tasks'
    BY AbortedTasks
  <1>p. Up(o) => watch[o].status # "parked"
    BY ActingTask DEF Up
  <1>3. WatchFalls(P, F)
    BY <1>1 DEF WatchFalls
  <1>4. TasksFall(P)
    <2> SUFFICES ASSUME NEW u \in tasks'
                 PROVE  \/ u \in tasks /\ u.of \notin P
                        \/ u.of \in P /\ ~u.live /\ \E v \in tasks : u = [v EXCEPT !.live = FALSE]
                        \/ Harmless(u)
      BY DEF TasksFall
    <2>1. CASE u \in ts /\ u.of \notin P
      <3>1. CASE u \in tasks
        BY <2>1, <3>1
      <3>2. CASE u.kind = "round" /\ u.at = "settling" /\ u.of = o
        <4>1. Up(o) => watch'[o].status # "parked"
          BY <1>1, <1>p, <1>t, <2>1, <3>2
        <4> QED
          BY <3>2, <4>1 DEF Harmless, IsSyncing
      <3> QED
        BY <2>1, <3>1, <3>2
    <2>2. ASSUME u.of \in P, ~u.live, NEW v \in ts, u = [v EXCEPT !.live = FALSE]
          PROVE  \/ \E x \in tasks : u = [x EXCEPT !.live = FALSE]
                 \/ Harmless(u)
      <3>1. CASE v \in tasks
        BY <2>2, <3>1
      <3>2. CASE v.kind = "round" /\ v.at = "settling"
        <4>1. u.kind = "round" /\ u.at = "settling"
          BY <2>2, <3>2 DEF TaskState
        <4> QED
          BY <2>2, <4>1 DEF Harmless, IsSyncing
      <3> QED
        BY <3>1, <3>2
    <2> QED
      BY <1>2, <2>1, <2>2
  <1>5. TickFalls(P)
    BY <1>1 DEF TickFalls, IInv, AnswerSound
  <1>6. FallenSound(F)
    <2> SUFFICES ASSUME F = {o}, Up(o), outcome \in {"root", "config_changed"}
                 PROVE  /\ watch'[o].status = "refused" => NoneOpening(o)' /\ NoneSyncing(o)'
                        /\ NoneOpening(o)' \/ NoneSyncing(o)'
                        /\ \A u \in tasks' : u.of = o /\ IsSyncing(u) => u.live
      BY DEF FallenSound, Fallen
    <2>1. /\ t.kind # "error" =>
              /\ NoneOpening(o)
              /\ \A u \in tasks \ {t} : u.of = o => ~IsSyncing(u)
          /\ NoneOpening(o) \/ \A u \in tasks \ {t} : u.of = o => ~IsSyncing(u)
          /\ \A u \in tasks : u.of = o /\ IsSyncing(u) => u.live
      BY AnsweredAlone
    <2>2. P = {}
      BY DEF EndedBy
    <2>3. \A u \in tasks' :
            u \in tasks \ {t} \/ (~IsSyncing(u) /\ ~IsOpening(u))
      BY <1>2, <2>2 DEF IsSyncing, IsOpening
    <2>4. NoneOpening(o) => NoneOpening(o)'
      BY <2>3 DEF NoneOpening, IsOpening
    <2>5. (\A u \in tasks \ {t} : u.of = o => ~IsSyncing(u)) => NoneSyncing(o)'
      BY <2>3 DEF NoneSyncing, IsSyncing
    <2>6. watch'[o].status = "refused" => t.kind # "error"
      BY <1>1, <1>t
    <2> QED
      BY <2>1, <2>3, <2>4, <2>5, <2>6
  <1>7. WorkIsDriven'
    <2>1. \A v, u \in tasks' : v.kind = "round" /\ u.kind = "round" /\ v.of = u.of => v = u
      <3> DEFINE rest == {v \in ts : v.of \in P => v.at # "sleeping"}
      <3>1. rest \in SUBSET TaskState /\ tasks' = Bumped(P, rest)
        BY DEF Aborted
      <3>2. \A v, u \in rest : v.kind = "round" /\ u.kind = "round" /\ v.of = u.of => v = u
        OBVIOUS
      <3> HIDE DEF rest, P
      <3> QED
        BY <3>1, <3>2, BumpedSingle
    <2>2. ASSUME NEW p \in Object, watch'[p].pending, CanRun(p)'
          PROVE  watch[p].pending /\ watch[p].status = "watching"
                 /\ (InFlight(p) => InFlight(p)')
      <3>1. watch'[p].status = "watching"
        BY <2>2 DEF CanRun
      <3>2. p \notin P \cup F /\ watch[p].status = "watching" /\ watch[p].pending
        BY <1>1, <2>2, <3>1
      <3>3. ASSUME NEW v \in tasks, v.kind = "round", v.of = p
            PROVE  \E u \in tasks' : u.kind = "round" /\ u.of = p
        BY <1>2, <3>2, <3>3
      <3> QED
        BY <3>2, <3>3 DEF InFlight, Task
    <2>3. drain' # "settled"
      BY NotSettled
    <2> QED
      BY <1>1, <2>1, <2>2, <2>3, WorkKept
  <1> HIDE DEF P, F
  <1> QED
    BY <1>d, <1>1, <1>3, <1>4, <1>5, <1>6, <1>7, FallKept

\* Tasks that only end, where no round ends that noted work waits for.
LEMMA EndKept ==
  ASSUME IInv, TypeOK', UNCHANGED <<current, watch, stopped, drain>>,
         NEW t \in tasks, tasks' = tasks \ {t},
         t.kind = "round" => ~t.live \/ ~IsCurrent(t.of),
         t.kind = "round" => t.at = "syncing",
         tick'.at = "admitting" => tick' = tick
  PROVE  IInv'
PROOF
  <1>t. TypeOK /\ t.of \in Object
    BY DEF IInv, WatchersFollowTheSet, TypeOK, TaskState
  <1>1. WorkIsDriven'
    <2>1. \A v, u \in tasks' : v.kind = "round" /\ u.kind = "round" /\ v.of = u.of => v = u
      BY DEF IInv, WorkIsDriven, NotedWorkIsDriven
    <2>2. ASSUME NEW p \in Object, CanRun(p)', InFlight(p)
          PROVE  InFlight(p)'
      <3>1. PICK v \in tasks : v.kind = "round" /\ v.of = p
        BY <2>2 DEF InFlight, Task
      <3>2. v # t
        <4> SUFFICES ASSUME v = t
                     PROVE  FALSE
          OBVIOUS
        <4>1. Up(p) /\ watch[p].status = "watching"
          BY <2>2 DEF CanRun, Up, IsCurrent, Draining
        <4>2. IsSyncing(t) /\ t.of = p
          BY <3>1 DEF IsSyncing
        <4>3. t.live
          BY <4>1, <4>2 DEF IInv, StatusSound
        <4> QED
          BY <3>1, <4>1, <4>3 DEF Up
      <3> QED
        BY <3>1, <3>2 DEF InFlight, Task
    <2>3. drain' # "settled"
      BY NotSettled
    <2> QED
      BY <2>1, <2>2, <2>3, WorkKept DEF CanRun
  <1>2. WatchFalls({}, {})
    BY DEF WatchFalls
  <1>3. TasksFall({})
    BY DEF TasksFall
  <1>4. TickFalls({})
    BY DEF TickFalls, IInv, AnswerSound
  <1>5. FallenSound({})
    BY DEF FallenSound
  <1> QED
    BY <1>1, <1>2, <1>3, <1>4, <1>5, FallKept DEF Draining

\* A driver goes on, or ends.
LEMMA DriverKept ==
  ASSUME IInv, NEW t \in tasks, t.kind = "round", DriverGoesOn(t)
  PROVE  IInv'
PROOF
  <1>t. TypeOK /\ t.of \in Object
    BY DEF IInv, WatchersFollowTheSet, TypeOK, TaskState
  <1>1. /\ watch' \in Objects /\ tasks' \in SUBSET TaskState /\ tick' \in TickState
        /\ dirty' \subseteq Object
        /\ \A p \in Object :
             /\ watch'[p].status = watch[p].status /\ watch'[p].watcher = watch[p].watcher
        /\ \/ tasks' = tasks \ {t}
           \/ /\ tasks' = (tasks \ {t}) \cup {NewTask(t.of, "round", "syncing")}
              /\ CanRun(t.of)
        /\ tick'.at = "admitting" => tick' = tick
        /\ UNCHANGED <<current, stopped, drain>>
    BY <1>t, DriverDoes
  <1>2. TypeOK'
    BY <1>t, <1>1 DEF TypeOK, Objects
  <1>3. WorkIsDriven'
    BY DriverWork
  <1>4. WatchFalls({}, {})
    BY <1>1 DEF WatchFalls
  <1>5. TasksFall({})
    <2>1. CanRun(t.of) => Harmless(NewTask(t.of, "round", "syncing"))
      <3> SUFFICES ASSUME CanRun(t.of)
                   PROVE  Harmless(NewTask(t.of, "round", "syncing"))
        OBVIOUS
      <3>1. /\ NewTask(t.of, "round", "syncing").of = t.of
            /\ NewTask(t.of, "round", "syncing").kind = "round"
            /\ NewTask(t.of, "round", "syncing").live
        BY <1>t, NewTaskTyped
      <3>2. watch[t.of].status = "watching" /\ watch'[t.of].status = "watching"
        BY <1>t, <1>1 DEF CanRun
      <3> QED
        BY <3>1, <3>2 DEF Harmless
    <2> QED
      BY <1>1, <2>1 DEF TasksFall
  <1>6. TickFalls({})
    BY <1>1 DEF TickFalls, IInv, AnswerSound
  <1>7. FallenSound({})
    BY DEF FallenSound
  <1> QED
    BY <1>1, <1>2, <1>3, <1>4, <1>5, <1>6, <1>7, FallKept DEF Draining

LEMMA RoundEndsKept ==
  ASSUME IInv, NEW t \in tasks, RoundEnds(t)
  PROVE  IInv'
PROOF
  <1>t. /\ TypeOK /\ t.of \in Object /\ t \in TaskState /\ tasks \in SUBSET TaskState
        /\ watch \in Objects /\ tick \in TickState /\ current \in [Loop -> Object \cup {None}]
    BY DEF IInv, WatchersFollowTheSet, TypeOK, TaskState, Objects
  <1>k. t.kind = "round" /\ t.at = "syncing"
    BY DEF RoundEnds
  <1>1. CASE /\ Void(t)
             /\ tasks' = tasks \ {t}
             /\ tick' = TickAfter(t.of)
             /\ UNCHANGED <<current, watch, stopped, drain, dirty>>
    <2>1. TickAfter(t.of) \in TickState
          /\ (TickAfter(t.of).at = "admitting" => TickAfter(t.of) = tick)
      BY <1>t DEF TickAfter, NoTick, TickState
    <2>2. TypeOK'
      BY <1>t, <1>1, <2>1 DEF TypeOK
    <2> QED
      BY <1>1, <1>k, <2>1, <2>2, EndKept DEF Void
  <1>2. CASE ~Void(t) /\ DriverGoesOn(t)
    BY <1>2, <1>k, DriverKept
  <1>3. ASSUME ~Void(t), NEW outcome \in Outcome \ {"done"},
               HandleOutcome(t.of, outcome),
               tasks' = Aborted(EndedBy(t.of, outcome), (tasks \ {t}) \cup
                  {[t EXCEPT !.at = "settling",
                             !.wait = UNION {Closing(LoopOf(o), watch') :
                                               o \in ClosedBy(t.of, outcome)}]}),
               UNCHANGED <<current, drain, dirty>>
        PROVE  IInv'
    <2> DEFINE wait == UNION {Closing(LoopOf(o), watch') : o \in ClosedBy(t.of, outcome)}
               s == [t EXCEPT !.at = "settling", !.wait = wait]
               ts == (tasks \ {t}) \cup {s}
    <2>1. wait \in SUBSET Object
      BY DEF Closing
    <2>2. s \in TaskState
      BY <1>t, <2>1, TaskTyped
    <2>3. s.kind = "round" /\ s.at = "settling" /\ s.of = t.of
      BY <1>t, <1>k DEF TaskState
    <2>4. ts \in SUBSET TaskState
      BY <1>t, <2>2
    <2>5. tasks' = Aborted(EndedBy(t.of, outcome), ts)
      BY <1>3
    <2> HIDE DEF s
    <2>6. TypeOK'
      <3>1. tasks' \in SUBSET TaskState
        BY <2>4, <2>5, AbortedTyped
      <3>2. watch' \in Objects /\ tick' \in TickState /\ stopped' \in BOOLEAN
        BY <1>t, <1>3, OutcomeDoes
      <3> QED
        BY <1>t, <1>3, <3>1, <3>2 DEF TypeOK, Objects
    <2>7. \A u \in ts :
           u \in tasks \ {t} \/ (u.kind = "round" /\ u.at = "settling" /\ u.of = t.of)
      BY <2>3
    <2>s. \A v, u \in tasks : v.kind = "round" /\ u.kind = "round" /\ v.of = u.of => v = u
      BY DEF IInv, WorkIsDriven, NotedWorkIsDriven
    <2>8. \A v, u \in ts : v.kind = "round" /\ u.kind = "round" /\ v.of = u.of => v = u
      BY <1>k, <2>3, <2>s
    <2>9. \A v \in tasks : v.kind = "round" => \E u \in ts : u.kind = "round" /\ u.of = v.of
      BY <2>3
    <2>10. Answered(t)
      BY <1>k DEF Answered
    <2>11. /\ ~Void(t) /\ outcome \in Outcome /\ HandleOutcome(t.of, outcome)
           /\ UNCHANGED <<current, drain>> /\ t.kind # "error"
      BY <1>3, <1>k
    <2> HIDE DEF ts
    <2> QED
      BY <2>4, <2>5, <2>6, <2>7, <2>8, <2>9, <2>10, <2>11, OutcomeKept
  <1> QED
    BY <1>1, <1>2, <1>3 DEF RoundEnds

LEMMA RoundGoesOnKept ==
  ASSUME IInv, NEW t \in tasks, RoundGoesOn(t)
  PROVE  IInv'
PROOF
  BY DriverKept DEF RoundGoesOn

LEMMA ReportedKept ==
  ASSUME IInv, NEW t \in tasks, Reported(t)
  PROVE  IInv'
PROOF
  <1>t. /\ TypeOK /\ t.of \in Object /\ t \in TaskState /\ tasks \in SUBSET TaskState
        /\ watch \in Objects /\ tick \in TickState /\ current \in [Loop -> Object \cup {None}]
    BY DEF IInv, WatchersFollowTheSet, TypeOK, TaskState, Objects
  <1>k. t.kind \in {"error", "admission"} /\ t.at = "reporting"
        /\ UNCHANGED <<current, drain, dirty>>
    BY DEF Reported
  <1>1. CASE Void(t) /\ tasks' = tasks \ {t} /\ UNCHANGED <<watch, tick, stopped>>
    <2>1. TypeOK'
      BY <1>t, <1>1, <1>k DEF TypeOK
    <2> QED
      BY <1>1, <1>k, <2>1, EndKept
  <1>2. ASSUME ~Void(t), NEW outcome \in Outcome, t.kind = "error" => outcome # "root",
               HandleOutcome(t.of, outcome),
               tasks' = Aborted(EndedBy(t.of, outcome), tasks \ {t})
        PROVE  IInv'
    <2> DEFINE ts == tasks \ {t}
    <2>1. ts \in SUBSET TaskState /\ tasks' = Aborted(EndedBy(t.of, outcome), ts)
      BY <1>t, <1>2
    <2>2. TypeOK'
      <3>1. tasks' \in SUBSET TaskState
        BY <2>1, AbortedTyped
      <3>2. watch' \in Objects /\ tick' \in TickState /\ stopped' \in BOOLEAN
        BY <1>t, <1>2, OutcomeDoes
      <3> QED
        BY <1>t, <1>k, <3>1, <3>2 DEF TypeOK, Objects
    <2>3. \A u \in ts : u \in tasks \ {t}
      OBVIOUS
    <2>4. \A v, u \in ts : v.kind = "round" /\ u.kind = "round" /\ v.of = u.of => v = u
      BY DEF IInv, WorkIsDriven, NotedWorkIsDriven
    <2>5. \A v \in tasks : v.kind = "round" => \E u \in ts : u.kind = "round" /\ u.of = v.of
      BY <1>k
    <2>6. Answered(t)
      BY <1>k DEF Answered
    <2> HIDE DEF ts
    <2> QED
      BY <1>2, <1>k, <2>1, <2>2, <2>3, <2>4, <2>5, <2>6, OutcomeKept
  <1> QED
    BY <1>1, <1>2, <1>k DEF Reported

--------------------------------------------------------------------------------
(***************************************************************************)
(* Events, errors, admissions that end and the reconcile pass.             *)
(***************************************************************************)

\* Steps that leave the rounds as they are.
LEMMA QuietKept ==
  ASSUME IInv, TypeOK', UNCHANGED <<current, stopped, drain>>, drain # "settled",
         NEW F, WatchFalls({}, F), TickFalls({}), FallenSound(F),
         \A u \in tasks' : u \in tasks \/ Harmless(u),
         \A u : u.kind = "round" => (u \in tasks' <=> u \in tasks),
         \A o \in Object :
           watch'[o].pending /\ watch'[o].status = "watching" =>
             watch[o].pending /\ watch[o].status = "watching"
  PROVE  IInv'
PROOF
  <1>1. TasksFall({})
    BY DEF TasksFall
  <1>2. WorkIsDriven'
    <2>1. \A v, u \in tasks' : v.kind = "round" /\ u.kind = "round" /\ v.of = u.of => v = u
      BY DEF IInv, WorkIsDriven, NotedWorkIsDriven
    <2>2. \A o : InFlight(o) => InFlight(o)'
      BY DEF InFlight, Task
    <2> QED
      BY <2>1, <2>2, WorkKept DEF CanRun
  <1> QED
    BY <1>1, <1>2, FallKept DEF Draining

\* Nothing but tasks, which are new or have gone on.
LEMMA TasksKept ==
  ASSUME IInv, TypeOK', UNCHANGED <<current, watch, tick, stopped, drain>>,
         drain # "settled",
         \A u \in tasks' : u \in tasks \/ Harmless(u),
         \A u : u.kind = "round" => (u \in tasks' <=> u \in tasks)
  PROVE  IInv'
PROOF
  <1>1. WatchFalls({}, {}) /\ FallenSound({})
    BY DEF WatchFalls, FallenSound
  <1>2. TickFalls({})
    BY DEF TickFalls, IInv, AnswerSound
  <1> QED
    BY <1>1, <1>2, QuietKept

LEMMA EventKept ==
  ASSUME IInv, NEW o \in Object, Event(o)
  PROVE  IInv'
PROOF
  <1>t. /\ TypeOK /\ tasks \in SUBSET TaskState /\ watch \in Objects
        /\ watch[o] \in LoopWatch /\ dirty \subseteq Object
    BY DEF IInv, WatchersFollowTheSet, TypeOK, Objects
  <1>u. /\ UNCHANGED <<current, tick, stopped, drain>> /\ dirty' = dirty \cup {o}
        /\ Subscribed(o) /\ drain # "settled"
    BY DEF Event, Draining
  <1>1. CASE /\ watch[o].status = "admitting"
             /\ watch' = [watch EXCEPT ![o].pending = TRUE]
             /\ UNCHANGED tasks
    <2>1. /\ watch' \in Objects
          /\ \A p \in Object :
               /\ watch'[p].status = watch[p].status /\ watch'[p].watcher = watch[p].watcher
               /\ watch'[p].status = "watching" => watch'[p].pending = watch[p].pending
      BY <1>1, <1>t DEF Objects, LoopWatch
    <2>2. TypeOK'
      BY <1>1, <1>t, <1>u, <2>1 DEF TypeOK, Objects
    <2>3. WatchFalls({}, {}) /\ FallenSound({})
      BY <2>1 DEF WatchFalls, FallenSound
    <2>4. TickFalls({})
      BY <1>u DEF TickFalls, IInv, AnswerSound
    <2> QED
      BY <1>1, <1>u, <2>1, <2>2, <2>3, <2>4, QuietKept
  <1>2. CASE /\ watch[o].status = "watching"
             /\ tasks' = IF WindowOpen(o) THEN tasks
                         ELSE tasks \cup {NewTask(o, "window", "sleeping")}
             /\ UNCHANGED watch
    <2>1. /\ NewTask(o, "window", "sleeping") \in TaskState
          /\ NewTask(o, "window", "sleeping").kind = "window"
          /\ NewTask(o, "window", "sleeping").of = o
      BY NewTaskTyped
    <2>2. Harmless(NewTask(o, "window", "sleeping"))
      BY <1>2, <2>1 DEF Harmless, IsSyncing
    <2>3. TypeOK'
      BY <1>2, <1>t, <1>u, <2>1 DEF TypeOK
    <2> QED
      BY <1>2, <1>u, <2>1, <2>2, <2>3, TasksKept
  <1> QED
    BY <1>1, <1>2 DEF Event

LEMMA ErrorKept ==
  ASSUME IInv, NEW o \in Object, Error(o)
  PROVE  IInv'
PROOF
  <1>t. TypeOK /\ tasks \in SUBSET TaskState
    BY DEF IInv, WatchersFollowTheSet, TypeOK
  <1>1. /\ NewTask(o, "error", "sleeping") \in TaskState
        /\ NewTask(o, "error", "sleeping").kind = "error"
        /\ NewTask(o, "error", "sleeping").of = o
    BY NewTaskTyped
  <1>2. Harmless(NewTask(o, "error", "sleeping"))
    BY <1>1 DEF Harmless, IsSyncing, Error
  <1>3. TypeOK'
    BY <1>t, <1>1 DEF TypeOK, Error
  <1>4. drain # "settled" /\ UNCHANGED <<current, watch, tick, stopped, drain>>
        /\ tasks' = tasks \cup {NewTask(o, "error", "sleeping")}
    BY DEF Error, Draining
  <1> QED
    BY <1>1, <1>2, <1>3, <1>4, TasksKept

LEMMA ErrorWindowEndsKept ==
  ASSUME IInv, NEW t \in tasks, ErrorWindowEnds(t)
  PROVE  IInv'
PROOF
  <1>t. TypeOK /\ t \in TaskState /\ tasks \in SUBSET TaskState
    BY DEF IInv, WatchersFollowTheSet, TypeOK
  <1>k. /\ t.kind = "error" /\ t.at = "sleeping"
        /\ UNCHANGED <<current, watch, tick, stopped, drain, dirty>>
        /\ drain # "settled"
    BY NotSettled DEF ErrorWindowEnds
  <1>1. CASE Void(t) /\ tasks' = tasks \ {t}
    <2>1. TypeOK'
      BY <1>1, <1>k, <1>t DEF TypeOK
    <2> QED
      BY <1>1, <1>k, <2>1, TasksKept
  <1>2. CASE ~Void(t) /\ tasks' = (tasks \ {t}) \cup {[t EXCEPT !.at = "reporting"]}
    <2>1. /\ [t EXCEPT !.at = "reporting"] \in TaskState
          /\ [t EXCEPT !.at = "reporting"].kind = "error"
          /\ [t EXCEPT !.at = "reporting"].of = t.of
      BY <1>k, <1>t DEF TaskState
    <2>2. Up(t.of) => watch'[t.of].status # "parked"
      BY <1>2, <1>k, ActingTask DEF Up
    <2>3. Harmless([t EXCEPT !.at = "reporting"])
      BY <2>1, <2>2 DEF Harmless, IsSyncing
    <2>4. TypeOK'
      BY <1>2, <1>k, <1>t, <2>1 DEF TypeOK
    <2> QED
      BY <1>2, <1>k, <2>1, <2>3, <2>4, TasksKept
  <1> QED
    BY <1>1, <1>2 DEF ErrorWindowEnds

\* runSync without a change of the objects.
LEMMA RunSyncKept ==
  ASSUME IInv, UNCHANGED <<current, stopped, drain>>, drain # "settled",
         NEW o \in Object, NEW ts \in SUBSET tasks,
         \A v \in tasks : v.kind = "round" => v \in ts,
         RunSync(o, watch, ts), tick' \in TickState, TickFalls({})
  PROVE  IInv'
PROOF
  <1>t. /\ TypeOK /\ ts \in SUBSET TaskState /\ watch \in Objects
    BY DEF IInv, WatchersFollowTheSet, TypeOK, Objects
  <1>1. /\ watch' \in Objects /\ tasks' \in SUBSET TaskState /\ dirty' \subseteq Object
        /\ \A p \in Object :
              /\ watch'[p].status = watch[p].status /\ watch'[p].watcher = watch[p].watcher
        /\ \/ tasks' = ts
           \/ /\ tasks' = ts \cup {NewTask(o, "round", "syncing")}
              /\ watch[o].status = "watching"
    BY <1>t, RunSyncDoes
  <1>2. TypeOK'
    BY <1>1, <1>t DEF TypeOK, Objects
  <1>3. WorkIsDriven'
    BY <1>t, RunSyncWork
  <1>4. WatchFalls({}, {}) /\ FallenSound({})
    BY <1>1 DEF WatchFalls, FallenSound
  <1>5. watch[o].status = "watching" => Harmless(NewTask(o, "round", "syncing"))
    <2>1. /\ NewTask(o, "round", "syncing").of = o
          /\ NewTask(o, "round", "syncing").kind = "round"
          /\ NewTask(o, "round", "syncing").live
      BY NewTaskTyped
    <2> QED
      BY <1>1, <2>1 DEF Harmless
  <1>6. TasksFall({})
    BY <1>1, <1>5 DEF TasksFall
  <1> QED
    BY <1>2, <1>3, <1>4, <1>6, FallKept DEF Draining

LEMMA WindowEndsKept ==
  ASSUME IInv, NEW t \in tasks, WindowEnds(t)
  PROVE  IInv'
PROOF
  <1>t. TypeOK /\ t.of \in Object /\ tasks \in SUBSET TaskState /\ tick \in TickState
    BY DEF IInv, WatchersFollowTheSet, TypeOK, TaskState
  <1>k. /\ t.kind = "window" /\ UNCHANGED <<current, tick, stopped, drain>>
        /\ drain # "settled"
    BY NotSettled DEF WindowEnds
  <1>1. CASE tasks' = tasks \ {t} /\ UNCHANGED <<watch, dirty>>
    <2>1. TypeOK'
      BY <1>1, <1>k, <1>t DEF TypeOK
    <2> QED
      BY <1>1, <1>k, <2>1, TasksKept
  <1>2. CASE RunSync(t.of, watch, tasks \ {t})
    <2>1. tick' \in TickState /\ TickFalls({})
      BY <1>k, <1>t DEF TickFalls, IInv, AnswerSound
    <2> QED
      BY <1>2, <1>k, <1>t, <2>1, RunSyncKept
  <1> QED
    BY <1>1, <1>2 DEF WindowEnds

--------------------------------------------------------------------------------
(***************************************************************************)
(* Admissions.                                                             *)
(***************************************************************************)

\* What an admission that is not abandoned may rely on.
LEMMA AdmittingTask ==
  ASSUME IInv, NEW t \in tasks, Admits(t), ~Abandoned(t)
  PROVE  /\ t.of \in Object /\ t.live /\ Up(t.of) /\ ~stopped
         /\ watch[t.of].status = "admitting"
         /\ t.at \in {"resolving", "predecessor"} => ~Subscribed(t.of)
         /\ t.at = "predecessor" =>
              \A p \in Object :
                LoopOf(p) = LoopOf(t.of) /\ watch[p].watcher # "none" => p \in t.wait
         /\ t.at = "opening" => Subscribed(t.of)
         /\ \A u \in tasks : Admits(u) /\ u.live /\ u.of = t.of => u = t
         /\ \A u \in tasks : IsOpening(u) /\ u.of = t.of => u = t
         /\ NoneSyncing(t.of)
PROOF
  <1>1. /\ t.of \in Object /\ t.live /\ Up(t.of) /\ ~stopped
        /\ watch[t.of].status = "admitting"
    BY DEF Abandoned, Void, Up, IInv, WatchersFollowTheSet, TypeOK, TaskState
  <1>2. /\ t.at \in {"resolving", "predecessor"} => ~Subscribed(t.of)
        /\ t.at = "predecessor" =>
             \A p \in Object :
               LoopOf(p) = LoopOf(t.of) /\ watch[p].watcher # "none" => p \in t.wait
        /\ t.at = "opening" => Subscribed(t.of)
        /\ \A u \in tasks : Admits(u) /\ u.live /\ u.of = t.of => u = t
    BY <1>1 DEF IInv, AdmissionSound
  <1>3. NoneSyncing(t.of) /\ \A u \in tasks : u.of = t.of /\ IsOpening(u) => u.live
    BY <1>1 DEF IInv, StatusSound
  <1>4. \A u \in tasks : IsOpening(u) /\ u.of = t.of => u = t
    BY <1>2, <1>3 DEF IsOpening, Admits
  <1> QED
    BY <1>1, <1>2, <1>3, <1>4

\* An admission goes on: to its predecessor, to its subscription, to its first round.
LEMMA AdmissionKept ==
  ASSUME IInv, TypeOK', UNCHANGED <<current, tick, stopped, drain>>,
         NEW t \in tasks, Admits(t), ~Abandoned(t),
         NEW s, s.of = t.of, s.live, tasks' \subseteq (tasks \ {t}) \cup {s},
         \A p \in Object \ {t.of} :
           watch'[p].status = watch[p].status /\ watch'[p].watcher = watch[p].watcher,
         \/ /\ watch'[t.of].status = "admitting" /\ watch'[t.of].watcher = watch[t.of].watcher
            /\ t.at = "resolving" /\ s.kind = "admission" /\ s.at = "predecessor"
            /\ s.wait = Predecessors(LoopOf(t.of))
         \/ /\ watch'[t.of].status = "admitting" /\ watch'[t.of].watcher = "opening"
            /\ t.at = "predecessor" /\ t.wait = {} /\ IsOpening(s)
         \/ /\ watch'[t.of].status = "watching" /\ watch'[t.of].watcher = "ready"
            /\ t.at = "opening" /\ IsSyncing(s),
         WorkIsDriven'
  PROVE  IInv'
PROOF
  <1> DEFINE o == t.of
  <1>t. TypeOK
    BY DEF IInv, WatchersFollowTheSet
  <1>u. /\ \A p : Up(p)' <=> Up(p)
        /\ \A p : IsCurrent(p)' <=> IsCurrent(p)
        /\ Draining' = Draining
    BY DEF Up, IsCurrent, Draining
  <1>0. \A v \in tasks' : v.of \in Object
    BY DEF TypeOK, TaskState
  <1>1. /\ o \in Object /\ t.live /\ Up(o) /\ ~stopped
        /\ watch[o].status = "admitting"
        /\ t.at \in {"resolving", "predecessor"} => ~Subscribed(o)
        /\ t.at = "predecessor" =>
             \A p \in Object :
               LoopOf(p) = LoopOf(o) /\ watch[p].watcher # "none" => p \in t.wait
        /\ t.at = "opening" => Subscribed(o)
        /\ \A u \in tasks : Admits(u) /\ u.live /\ u.of = o => u = t
        /\ \A u \in tasks : IsOpening(u) /\ u.of = o => u = t
        /\ NoneSyncing(o)
    BY AdmittingTask
  <1>2. \A p \in Object : LoopOf(p) = LoopOf(o) /\ Up(p) => p = o
    BY <1>1 DEF Up, IsCurrent
  <1>3. CurrentSound'
    <2>1. \A p \in Object : watch[p].status # "unused" => watch'[p].status # "unused"
      OBVIOUS
    <2>2. \A l \in Loop : current[l] # None => current[l] \in Object
      BY <1>t DEF TypeOK
    <2> QED
      BY <2>1, <2>2 DEF CurrentSound, IInv
  <1>4. WatchersFollowTheSet'
    <2>1. /\ \A p, q \in Object :
               watch[p].watcher # "none" /\ watch[q].watcher # "none" /\ LoopOf(p) = LoopOf(q)
                 => p = q
          /\ \A p \in Object :
               Subscribed(p) =>
                 IsCurrent(p) /\ ~Draining /\ watch[p].status \in {"admitting", "watching"}
      BY DEF IInv, WatchersFollowTheSet
    <2>2. \A p, q \in Object :
            watch'[p].watcher # "none" /\ watch'[q].watcher # "none" /\ LoopOf(p) = LoopOf(q)
              => p = q
      <3>1. CASE t.at = "resolving"
        BY <2>1, <3>1
      <3>2. CASE t.at = "predecessor"
        <4>1. \A p \in Object : LoopOf(p) = LoopOf(o) => watch[p].watcher = "none"
          BY <1>1, <3>2
        <4> QED
          BY <2>1, <3>2, <4>1
      <3>3. CASE t.at = "opening"
        <4>1. watch[o].watcher # "none"
          BY <1>1, <3>3 DEF Subscribed
        <4> QED
          BY <1>1, <2>1, <3>3, <4>1
      <3> QED
        BY <3>1, <3>2, <3>3
    <2>3. \A p \in Object :
            Subscribed(p)' => IsCurrent(p) /\ ~Draining
                              /\ watch'[p].status \in {"admitting", "watching"}
      <3> SUFFICES ASSUME NEW p \in Object, Subscribed(p)'
                   PROVE  IsCurrent(p) /\ ~Draining
                          /\ watch'[p].status \in {"admitting", "watching"}
        OBVIOUS
      <3>1. CASE p = o
        BY <1>1, <3>1 DEF Up
      <3>2. CASE p # o
        BY <2>1, <3>2 DEF Subscribed
      <3> QED
        BY <3>1, <3>2
    <2> QED
      BY <1>u, <2>2, <2>3 DEF WatchersFollowTheSet
  <1>5. AdmissionSound'
    <2> SUFFICES ASSUME NEW v \in tasks', Admits(v), v.live, Up(v.of),
                        watch'[v.of].status = "admitting"
                 PROVE  /\ v.at \in {"resolving", "predecessor"} => ~Subscribed(v.of)'
                        /\ v.at = "predecessor" =>
                             \A p \in Object :
                               LoopOf(p) = LoopOf(v.of) /\ watch'[p].watcher # "none"
                                 => p \in v.wait
                        /\ v.at = "opening" => Subscribed(v.of)'
                        /\ \A u \in tasks' : Admits(u) /\ u.live /\ u.of = v.of => u = v
      BY <1>u DEF AdmissionSound, Admits
    <2>1. CASE v = s
      <3>1. \A u \in tasks' : Admits(u) /\ u.live /\ u.of = o => u = s
        BY <1>1
      <3>2. CASE t.at = "resolving"
        <4>1. ~Subscribed(o)' /\ ~Subscribed(o)
          BY <1>1, <3>2 DEF Subscribed
        <4>2. ASSUME NEW p \in Object, LoopOf(p) = LoopOf(o), watch'[p].watcher # "none"
              PROVE  p \in s.wait
          <5>1. watch[p].watcher # "none"
            BY <3>2, <4>2
          <5>2. ~Subscribed(p)
            BY <1>2, <4>1, <4>2 DEF IInv, WatchersFollowTheSet, Up
          <5>3. watch[p].watcher = "closing"
            BY <1>t, <5>1, <5>2 DEF Subscribed, TypeOK, LoopWatch
          <5> QED
            BY <3>2, <4>2, <5>3 DEF Predecessors, Closing
        <4> QED
          BY <2>1, <3>1, <3>2, <4>1, <4>2
      <3>3. CASE t.at = "predecessor"
        BY <1>1, <2>1, <3>1, <3>3 DEF IsOpening, Subscribed
      <3>4. CASE t.at = "opening"
        BY <2>1, <3>4 DEF Admits, IsSyncing
      <3> QED
        BY <3>2, <3>3, <3>4
    <2>2. CASE v # s
      <3>1. v \in tasks /\ v # t
        BY <2>2
      <3>2. v.of # o /\ v.of \in Object
        BY <1>0, <1>1, <3>1
      <3>3. LoopOf(v.of) # LoopOf(o)
        BY <1>2, <3>2
      <3>4. watch[v.of].status = "admitting" /\ watch'[v.of].watcher = watch[v.of].watcher
        BY <3>2
      <3>5. /\ v.at \in {"resolving", "predecessor"} => ~Subscribed(v.of)
            /\ v.at = "predecessor" =>
                 \A p \in Object :
                   LoopOf(p) = LoopOf(v.of) /\ watch[p].watcher # "none" => p \in v.wait
            /\ v.at = "opening" => Subscribed(v.of)
            /\ \A u \in tasks : Admits(u) /\ u.live /\ u.of = v.of => u = v
        BY <3>1, <3>4 DEF IInv, AdmissionSound
      <3>6. \A p \in Object : LoopOf(p) = LoopOf(v.of) => watch'[p].watcher = watch[p].watcher
        BY <3>3
      <3> QED
        BY <3>2, <3>4, <3>5, <3>6 DEF Subscribed
    <2> QED
      BY <2>1, <2>2
  <1>6. /\ \A p \in Object \ {o} : NoneOpening(p) => NoneOpening(p)'
        /\ \A p \in Object \ {o} : NoneSyncing(p) => NoneSyncing(p)'
    BY DEF NoneOpening, NoneSyncing, IsOpening, IsSyncing
  <1>7. StatusSound'
    <2> SUFFICES ASSUME NEW p \in Object, Up(p)
                 PROVE  /\ watch'[p].status = "admitting" =>
                             /\ NoneSyncing(p)'
                             /\ \A v \in tasks' : v.of = p /\ IsOpening(v) => v.live
                        /\ watch'[p].status = "watching" => NoneOpening(p)'
                        /\ watch'[p].status = "refused" => NoneOpening(p)' /\ NoneSyncing(p)'
                        /\ watch'[p].status = "config_changed" =>
                             NoneOpening(p)' \/ NoneSyncing(p)'
                        /\ watch'[p].status # "parked" =>
                             \A v \in tasks' : v.of = p /\ IsSyncing(v) => v.live
                        /\ watch'[p].status = "parked" =>
                             \A v \in tasks' : v.of = p => ~v.live
      BY <1>u DEF StatusSound, IsOpening, IsSyncing
    <2>1. CASE p = o
      <3>1. \A v \in tasks' : v.of = o /\ (IsOpening(v) \/ IsSyncing(v)) => v = s
        BY <1>1 DEF NoneSyncing
      <3>2. CASE watch'[o].status = "admitting"
        <4>1. ~IsSyncing(s)
          BY <3>2 DEF IsSyncing, IsOpening
        <4>2. NoneSyncing(o)'
          BY <3>1, <4>1 DEF NoneSyncing, IsSyncing
        <4> QED
          BY <2>1, <3>1, <3>2, <4>2
      <3>3. CASE watch'[o].status = "watching"
        <4>1. ~IsOpening(s)
          BY <3>3 DEF IsSyncing, IsOpening
        <4>2. NoneOpening(o)'
          BY <3>1, <4>1 DEF NoneOpening, IsOpening
        <4> QED
          BY <2>1, <3>1, <3>3, <4>2
      <3> QED
        BY <3>2, <3>3
    <2>2. CASE p # o
      <3>1. watch'[p].status = watch[p].status
        BY <2>2
      <3>2. \A v \in tasks' : v.of = p => v \in tasks
        BY <2>2
      <3>3. /\ watch[p].status = "admitting" =>
                 /\ NoneSyncing(p)
                 /\ \A v \in tasks : v.of = p /\ IsOpening(v) => v.live
            /\ watch[p].status = "watching" => NoneOpening(p)
            /\ watch[p].status = "refused" => NoneOpening(p) /\ NoneSyncing(p)
            /\ watch[p].status = "config_changed" => NoneOpening(p) \/ NoneSyncing(p)
            /\ watch[p].status # "parked" =>
                 \A v \in tasks : v.of = p /\ IsSyncing(v) => v.live
            /\ watch[p].status = "parked" => \A v \in tasks : v.of = p => ~v.live
        BY DEF IInv, StatusSound
      <3> QED
        BY <1>6, <2>2, <3>1, <3>2, <3>3
    <2> QED
      BY <2>1, <2>2
  <1>8. AnswerSound'
    <2>1. \A p \in Object : Shut(p) => Shut(p)'
      <3> SUFFICES ASSUME NEW p \in Object, Shut(p)
                   PROVE  Shut(p)'
        OBVIOUS
      <3>1. p # o
        BY <1>1 DEF Shut
      <3> QED
        BY <1>6, <3>1 DEF Shut
    <2>2. ~(s.kind = "admission" /\ s.at = "reporting")
      BY DEF IsOpening, IsSyncing
    <2>3. \A v \in tasks' :
            v.kind = "admission" /\ v.at = "reporting" /\ v.live /\ Up(v.of) => Shut(v.of)'
      BY <1>0, <2>1, <2>2 DEF IInv, AnswerSound
    <2>4. tick.at = "admitting" =>
            tick.on \in Object /\ (tick.live /\ Up(tick.on) => Shut(tick.on)')
      BY <2>1 DEF IInv, AnswerSound
    <2>5. tick' = tick
      OBVIOUS
    <2> QED
      BY <1>u, <2>3, <2>4, <2>5 DEF AnswerSound, Shut, NoneOpening, NoneSyncing
  <1>9. StopSound'
    BY <1>1 DEF StopSound
  <1> QED
    BY <1>3, <1>4, <1>5, <1>7, <1>8, <1>9 DEF IInv

LEMMA AdmittedKept ==
  ASSUME IInv, NEW t \in tasks, Admitted(t)
  PROVE  IInv'
PROOF
  <1> DEFINE o == t.of
  <1>t. /\ TypeOK /\ t \in TaskState /\ o \in Object /\ tasks \in SUBSET TaskState
        /\ watch \in Objects
    BY DEF IInv, WatchersFollowTheSet, TypeOK, TaskState, Objects
  <1>k. /\ t.kind = "admission" /\ t.at = "resolving" /\ Admits(t)
        /\ UNCHANGED <<current, tick, stopped, drain, dirty>> /\ drain # "settled"
    BY NotSettled DEF Admitted, Admits
  <1>1. CASE tasks' = tasks \ {t} /\ UNCHANGED watch
    <2>1. TypeOK'
      BY <1>1, <1>k, <1>t DEF TypeOK
    <2> QED
      BY <1>1, <1>k, <2>1, TasksKept
  <1>2. CASE /\ ~Abandoned(t)
             /\ tasks' = (tasks \ {t}) \cup
                  {[t EXCEPT !.at = "predecessor", !.wait = Predecessors(LoopOf(o))]}
             /\ UNCHANGED watch
    <2> DEFINE s == [t EXCEPT !.at = "predecessor", !.wait = Predecessors(LoopOf(o))]
    <2>1. Predecessors(LoopOf(o)) \in SUBSET Object
      BY DEF Predecessors, Closing
    <2>2. /\ s \in TaskState /\ s.of = o /\ s.live = t.live /\ s.kind = "admission"
          /\ s.at = "predecessor" /\ s.wait = Predecessors(LoopOf(o))
      BY <1>k, <1>t, <2>1 DEF TaskState
    <2>3. tasks' = (tasks \ {t}) \cup {s}
      BY <1>2
    <2> HIDE DEF s
    <2>4. TypeOK'
      BY <1>2, <1>k, <1>t, <2>2, <2>3 DEF TypeOK
    <2>5. t.live /\ watch[o].status = "admitting"
      BY <1>2, <1>k, AdmittingTask
    <2>6. \A u : u.kind = "round" => (u \in tasks' <=> u \in tasks)
      BY <1>k, <2>2, <2>3
    <2>7. WorkIsDriven'
      <3>1. \A v, u \in tasks' : v.kind = "round" /\ u.kind = "round" /\ v.of = u.of => v = u
        BY <2>6 DEF IInv, WorkIsDriven, NotedWorkIsDriven
      <3>2. \A p : InFlight(p) => InFlight(p)'
        BY <2>6 DEF InFlight, Task
      <3> QED
        BY <1>2, <1>k, <3>1, <3>2, WorkKept DEF CanRun
    <2> QED
      BY <1>2, <1>k, <2>2, <2>3, <2>4, <2>5, <2>7, AdmissionKept
  <1>3. CASE /\ ~Abandoned(t)
             /\ watch' = [watch EXCEPT ![o].status = "refused"]
             /\ tasks' = (tasks \ {t}) \cup {[t EXCEPT !.at = "reporting"]}
    <2> DEFINE s == [t EXCEPT !.at = "reporting"]
    <2>1. /\ s \in TaskState /\ s.of = o /\ s.kind = "admission" /\ s.at = "reporting"
      BY <1>k, <1>t DEF TaskState
    <2>2. tasks' = (tasks \ {t}) \cup {s}
      BY <1>3
    <2> HIDE DEF s
    <2>3. /\ watch' \in Objects
          /\ \A p \in Object :
               /\ watch'[p].status = IF p = o THEN "refused" ELSE watch[p].status
               /\ watch'[p].watcher = watch[p].watcher
               /\ watch'[p].pending = watch[p].pending
      <3>1. ASSUME NEW p \in Object
            PROVE  /\ watch'[p] \in LoopWatch
                   /\ watch'[p].status = IF p = o THEN "refused" ELSE watch[p].status
                   /\ watch'[p].watcher = watch[p].watcher
                   /\ watch'[p].pending = watch[p].pending
        BY <1>3, <1>t DEF Objects, LoopWatch
      <3> QED
        BY <1>3, <1>t, <3>1 DEF Objects
    <2>4. TypeOK'
      BY <1>k, <1>t, <2>1, <2>2, <2>3 DEF TypeOK, Objects
    <2>5. /\ Up(o) /\ ~Subscribed(o)
          /\ \A u \in tasks : IsOpening(u) /\ u.of = o => u = t
          /\ NoneSyncing(o)
      BY <1>3, <1>k, AdmittingTask
    <2>6. NoneOpening(o)' /\ NoneSyncing(o)'
      BY <2>1, <2>2, <2>5 DEF NoneOpening, NoneSyncing, IsOpening, IsSyncing
    <2>7. Shut(o)'
      BY <1>t, <2>3, <2>6 DEF Shut
    <2>8. Harmless(s)
      <3>1. s.kind = "admission" => s.at = "reporting" /\ Shut(s.of)'
        BY <2>1, <2>7 DEF Shut, NoneOpening, NoneSyncing
      <3>2. watch'[s.of].status # "parked" /\ ~IsSyncing(s)
        BY <1>t, <2>1, <2>3 DEF IsSyncing
      <3> QED
        BY <3>1, <3>2 DEF Harmless
    <2>9. WatchFalls({}, {o})
      BY <2>3, <2>5 DEF WatchFalls, Subscribed
    <2>10. FallenSound({o})
      <3>1. \A u \in tasks' : u.of = o => ~IsSyncing(u)
        BY <2>6 DEF NoneSyncing, IsSyncing
      <3> QED
        BY <2>6, <3>1 DEF FallenSound
    <2>11. TickFalls({})
      BY <1>k DEF TickFalls, IInv, AnswerSound
    <2>12. \A u : u.kind = "round" => (u \in tasks' <=> u \in tasks)
      BY <1>k, <2>1, <2>2
    <2>13. \A p \in Object :
             watch'[p].pending /\ watch'[p].status = "watching" =>
               watch[p].pending /\ watch[p].status = "watching"
      BY <2>3
    <2> QED
      BY <1>k, <2>2, <2>4, <2>8, <2>9, <2>10, <2>11, <2>12, <2>13, QuietKept
  <1> QED
    BY <1>1, <1>2, <1>3 DEF Admitted

LEMMA SubscribeKept ==
  ASSUME IInv, NEW t \in tasks, Subscribe(t)
  PROVE  IInv'
PROOF
  <1> DEFINE o == t.of
  <1>t. /\ TypeOK /\ t \in TaskState /\ o \in Object /\ tasks \in SUBSET TaskState
        /\ watch \in Objects
    BY DEF IInv, WatchersFollowTheSet, TypeOK, TaskState, Objects
  <1>k. /\ t.kind = "admission" /\ t.at = "predecessor" /\ t.wait = {} /\ Admits(t)
        /\ UNCHANGED <<current, tick, stopped, drain, dirty>> /\ drain # "settled"
    BY NotSettled DEF Subscribe, Admits
  <1>1. CASE tasks' = tasks \ {t} /\ UNCHANGED watch
    <2>1. TypeOK'
      BY <1>1, <1>k, <1>t DEF TypeOK
    <2> QED
      BY <1>1, <1>k, <2>1, TasksKept
  <1>2. CASE /\ ~Abandoned(t)
             /\ watch' = [watch EXCEPT ![o].watcher = "opening"]
             /\ tasks' = (tasks \ {t}) \cup {[t EXCEPT !.at = "opening"]}
    <2> DEFINE s == [t EXCEPT !.at = "opening"]
    <2>1. /\ s \in TaskState /\ s.of = o /\ s.live = t.live /\ s.kind = "admission"
          /\ s.at = "opening"
      BY <1>k, <1>t DEF TaskState
    <2>2. tasks' = (tasks \ {t}) \cup {s}
      BY <1>2
    <2> HIDE DEF s
    <2>3. /\ watch' \in Objects
          /\ \A p \in Object :
               /\ watch'[p].watcher = IF p = o THEN "opening" ELSE watch[p].watcher
               /\ watch'[p].status = watch[p].status
               /\ watch'[p].pending = watch[p].pending
      <3>1. ASSUME NEW p \in Object
            PROVE  /\ watch'[p] \in LoopWatch
                   /\ watch'[p].watcher = IF p = o THEN "opening" ELSE watch[p].watcher
                   /\ watch'[p].status = watch[p].status
                   /\ watch'[p].pending = watch[p].pending
        BY <1>2, <1>t DEF Objects, LoopWatch
      <3> QED
        BY <1>2, <1>t, <3>1 DEF Objects
    <2>4. TypeOK'
      BY <1>k, <1>t, <2>1, <2>2, <2>3 DEF TypeOK, Objects
    <2>5. t.live /\ watch[o].status = "admitting"
      BY <1>2, <1>k, AdmittingTask
    <2>6. \A u : u.kind = "round" => (u \in tasks' <=> u \in tasks)
      BY <1>k, <2>1, <2>2
    <2>7. WorkIsDriven'
      <3>1. \A v, u \in tasks' : v.kind = "round" /\ u.kind = "round" /\ v.of = u.of => v = u
        BY <2>6 DEF IInv, WorkIsDriven, NotedWorkIsDriven
      <3>2. \A p : InFlight(p) => InFlight(p)'
        BY <2>6 DEF InFlight, Task
      <3> QED
        BY <1>k, <2>3, <3>1, <3>2, WorkKept DEF CanRun
    <2>8. IsOpening(s)
      BY <2>1 DEF IsOpening
    <2> QED
      <3>1. \A p \in Object \ {o} :
              watch'[p].status = watch[p].status /\ watch'[p].watcher = watch[p].watcher
        BY <2>3
      <3>2. watch'[o].status = "admitting" /\ watch'[o].watcher = "opening"
        BY <1>t, <2>3, <2>5
      <3>3. ~Abandoned(t) /\ s.live /\ tasks' \subseteq (tasks \ {t}) \cup {s}
        BY <1>2, <2>1, <2>2, <2>5
      <3> QED
        BY <1>k, <2>1, <2>4, <2>7, <2>8, <3>1, <3>2, <3>3, AdmissionKept
  <1> QED
    BY <1>1, <1>2 DEF Subscribe

LEMMA ReadyKept ==
  ASSUME IInv, NEW t \in tasks, Ready(t)
  PROVE  IInv'
PROOF
  <1> DEFINE o == t.of
             w == [watch EXCEPT ![o].watcher = "ready", ![o].status = "watching"]
             ts == tasks \ {t}
             s == NewTask(o, "round", "syncing")
  <1>t. /\ TypeOK /\ t \in TaskState /\ o \in Object /\ tasks \in SUBSET TaskState
        /\ watch \in Objects
    BY DEF IInv, WatchersFollowTheSet, TypeOK, TaskState, Objects
  <1>k. /\ t.kind = "admission" /\ t.at = "opening" /\ Admits(t) /\ ~Abandoned(t)
        /\ UNCHANGED <<current, tick, stopped, drain>> /\ drain # "settled"
    BY NotSettled DEF Ready, Admits
  <1>1. /\ w \in Objects
        /\ \A p \in Object :
             /\ w[p].watcher = IF p = o THEN "ready" ELSE watch[p].watcher
             /\ w[p].status = IF p = o THEN "watching" ELSE watch[p].status
             /\ w[p].pending = watch[p].pending
    <2>1. ASSUME NEW p \in Object
          PROVE  /\ w[p] \in LoopWatch
                 /\ w[p].watcher = IF p = o THEN "ready" ELSE watch[p].watcher
                 /\ w[p].status = IF p = o THEN "watching" ELSE watch[p].status
                 /\ w[p].pending = watch[p].pending
      BY <1>t DEF Objects, LoopWatch
    <2> QED
      BY <1>t, <2>1 DEF Objects
  <1>2. RunSync(o, w, ts)
    BY DEF Ready
  <1> HIDE DEF w
  <1>3. s.of = o /\ s.live /\ IsSyncing(s)
    BY <1>t, NewTaskTyped DEF IsSyncing
  <1> HIDE DEF s
  <1>4. /\ watch' \in Objects /\ tasks' \in SUBSET TaskState /\ dirty' \subseteq Object
        /\ \A p \in Object :
              /\ watch'[p].status = w[p].status /\ watch'[p].watcher = w[p].watcher
        /\ tasks' = ts \/ tasks' = ts \cup {s}
    BY <1>1, <1>2, <1>t, RunSyncDoes DEF s
  <1>5. TypeOK'
    BY <1>4, <1>k, <1>t DEF TypeOK, Objects
  <1>6. WorkIsDriven'
    <2>1. ts \in SUBSET tasks /\ \A v \in tasks : v.kind = "round" => v \in ts
      BY <1>k
    <2> HIDE DEF ts
    <2> QED
      BY <1>1, <1>2, <1>k, <1>t, <2>1, RunSyncWork
  <1>7. \A p \in Object \ {o} :
          watch'[p].status = watch[p].status /\ watch'[p].watcher = watch[p].watcher
    BY <1>1, <1>4
  <1>8. watch'[o].status = "watching" /\ watch'[o].watcher = "ready"
    BY <1>1, <1>4, <1>t
  <1> QED
    BY <1>3, <1>4, <1>5, <1>6, <1>7, <1>8, <1>k, AdmissionKept

LEMMA AbandonedAtReadyKept ==
  ASSUME IInv, NEW t \in tasks, AbandonedAtReady(t)
  PROVE  IInv'
PROOF
  <1> DEFINE o == t.of
  <1>t. /\ TypeOK /\ t \in TaskState /\ o \in Object /\ tasks \in SUBSET TaskState
        /\ watch \in Objects
    BY DEF IInv, WatchersFollowTheSet, TypeOK, TaskState, Objects
  <1>k. /\ t.kind = "admission" /\ t.at = "opening"
        /\ tasks' = tasks \ {t} /\ watch' = Closed({o}, watch)
        /\ UNCHANGED <<current, tick, stopped, drain, dirty>> /\ drain # "settled"
    BY NotSettled DEF AbandonedAtReady
  <1>1. /\ watch' \in Objects
        /\ \A p \in Object :
             /\ watch'[p].status = watch[p].status
             /\ watch'[p].pending = watch[p].pending
             /\ watch'[p].watcher =
                  IF p \in {o} /\ watch[p].watcher \in {"opening", "ready"} THEN "closing"
                  ELSE watch[p].watcher
    BY <1>k, <1>t, ClosedWatch
  <1>2. TypeOK'
    BY <1>1, <1>k, <1>t DEF TypeOK, Objects
  <1>3. Subscribed(o) => \A u \in tasks' : u.of = o /\ Admits(u) => ~u.live
    <2> SUFFICES ASSUME Subscribed(o), NEW u \in tasks', u.of = o, Admits(u), u.live
                 PROVE  FALSE
      OBVIOUS
    <2>1. Up(o) /\ watch[o].status \in {"admitting", "watching"}
      BY <1>t DEF IInv, WatchersFollowTheSet, Up
    <2>2. IsOpening(t) /\ Admits(t)
      BY <1>k DEF IsOpening, Admits
    <2>3. watch[o].status = "admitting" /\ t.live
      BY <1>t, <2>1, <2>2 DEF IInv, StatusSound, NoneOpening
    <2>4. u = t
      BY <1>k, <2>1, <2>2, <2>3 DEF IInv, AdmissionSound
    <2> QED
      BY <1>k, <2>4
  <1>4. WatchFalls({}, {})
    <2>1. ASSUME NEW p \in Object
          PROVE  \/ watch'[p].watcher = watch[p].watcher
                 \/ /\ watch'[p].watcher \notin {"opening", "ready"}
                    /\ \A u \in tasks' : u.of = p /\ Admits(u) => ~u.live
      BY <1>1, <1>3 DEF Subscribed
    <2>2. \A p \in Object : watch'[p].watcher # "none" => watch[p].watcher # "none"
      BY <1>1
    <2> QED
      BY <1>1, <2>1, <2>2 DEF WatchFalls
  <1>5. TickFalls({}) /\ FallenSound({})
    BY <1>k DEF TickFalls, FallenSound, IInv, AnswerSound
  <1>6. \A p \in Object :
          watch'[p].pending /\ watch'[p].status = "watching" =>
            watch[p].pending /\ watch[p].status = "watching"
    BY <1>1
  <1>7. /\ \A u \in tasks' : u \in tasks \/ Harmless(u)
        /\ \A u : u.kind = "round" => (u \in tasks' <=> u \in tasks)
    BY <1>k
  <1> QED
    BY <1>2, <1>4, <1>5, <1>6, <1>7, <1>k, QuietKept

--------------------------------------------------------------------------------
(***************************************************************************)
(* The reconcile pass, the drain and the closes.                           *)
(***************************************************************************)

\* A step of the reconcile pass alone.
LEMMA TickKept ==
  ASSUME IInv, UNCHANGED <<current, watch, tasks, stopped, drain, dirty>>,
         tick' \in TickState, TickFalls({})
  PROVE  IInv'
PROOF
  <1>1. TypeOK'
    BY DEF IInv, WatchersFollowTheSet, TypeOK
  <1>2. WorkIsDriven'
    BY DEF IInv, WorkIsDriven, NotedWorkIsDriven, SettledIsQuiet, CanRun, IsCurrent,
           Draining, InFlight, Task
  <1>3. WatchFalls({}, {}) /\ TasksFall({}) /\ FallenSound({})
    BY DEF WatchFalls, TasksFall, FallenSound
  <1> QED
    BY <1>1, <1>2, <1>3, FallKept DEF Draining

LEMMA TickStartsKept ==
  ASSUME IInv, TickStarts
  PROVE  IInv'
PROOF
  <1> DEFINE left == {current[l] : l \in Loop} \ {None}
  <1>1. left \in SUBSET Object
    BY DEF IInv, WatchersFollowTheSet, TypeOK
  <1>2. tick' = [NoTick EXCEPT !.at = "next", !.left = left]
    BY DEF TickStarts
  <1> HIDE DEF left
  <1>3. tick' \in TickState /\ tick'.at = "next"
    BY <1>1, <1>2 DEF NoTick, TickState
  <1> QED
    BY <1>3, TickKept DEF TickStarts, TickFalls

LEMMA TickEndsKept ==
  ASSUME IInv, TickEnds
  PROVE  IInv'
PROOF
  <1>1. tick' \in TickState /\ tick'.at = "idle"
    BY DEF TickEnds, NoTick, TickState
  <1> QED
    BY <1>1, TickKept DEF TickEnds, TickFalls

LEMMA TickVisitsKept ==
  ASSUME IInv, NEW o \in Object, TickVisits(o)
  PROVE  IInv'
PROOF
  <1> DEFINE left == tick.left \ {o}
  <1>t. /\ TypeOK /\ left \in SUBSET Object
    BY DEF IInv, WatchersFollowTheSet, TypeOK, TickState
  <1>k. /\ UNCHANGED <<current, stopped, drain>> /\ drain # "settled" /\ ~Draining
    BY DEF TickVisits, Draining
  <1>v. ASSUME NEW at \in {"next", "round", "admitting"},
               tick' = IF at = "next"
                       THEN [NoTick EXCEPT !.at = at, !.left = left]
                       ELSE [at |-> at, left |-> left, on |-> o, live |-> TRUE]
        PROVE  /\ tick' \in TickState /\ tick'.at = at
               /\ at # "next" => tick'.on = o
    BY <1>t, <1>v DEF NoTick, TickState
  <1>1. ASSUME NEW at \in {"next", "round"},
               tick' = IF at = "next"
                       THEN [NoTick EXCEPT !.at = at, !.left = left]
                       ELSE [at |-> at, left |-> left, on |-> o, live |-> TRUE],
               RunSync(o, watch, tasks)
        PROVE  IInv'
    <2>1. tick' \in TickState /\ TickFalls({})
      BY <1>1, <1>v DEF TickFalls
    <2> QED
      BY <1>1, <1>k, <2>1, RunSyncKept
  <1>2. ASSUME watch[o].status = "refused",
               tick' = [at |-> "admitting", left |-> left, on |-> o, live |-> TRUE],
               UNCHANGED <<watch, tasks, dirty>>
        PROVE  IInv'
    <2>1. tick' \in TickState /\ tick'.on = o
      BY <1>2, <1>v
    <2>2. Up(o) => Shut(o)
      BY <1>2 DEF IInv, StatusSound, Shut
    <2>3. Shut(o)' <=> Shut(o)
      BY <1>2 DEF Shut, NoneOpening, NoneSyncing
    <2>4. TickFalls({})
      BY <2>1, <2>2, <2>3 DEF TickFalls
    <2> QED
      BY <1>2, <1>k, <2>1, <2>4, TickKept
  <1>3. ASSUME tick' = [NoTick EXCEPT !.at = "next", !.left = left],
               UNCHANGED <<watch, tasks, dirty>>
        PROVE  IInv'
    <2>1. tick' \in TickState /\ tick'.at = "next"
      BY <1>3, <1>v
    <2> QED
      BY <1>3, <1>k, <2>1, TickKept DEF TickFalls
  <1> DEFINE at == IF ~InFlight(o) /\ CanRun(o) THEN "round" ELSE "next"
  <1>4. \/ /\ RunSync(o, watch, tasks)
           /\ tick' = IF at = "next"
                      THEN [NoTick EXCEPT !.at = at, !.left = left]
                      ELSE [at |-> at, left |-> left, on |-> o, live |-> TRUE]
        \/ /\ watch[o].status = "refused"
           /\ tick' = [at |-> "admitting", left |-> left, on |-> o, live |-> TRUE]
           /\ UNCHANGED <<watch, tasks, dirty>>
        \/ /\ tick' = [NoTick EXCEPT !.at = "next", !.left = left]
           /\ UNCHANGED <<watch, tasks, dirty>>
    BY DEF TickVisits
  <1>5. at \in {"next", "round"}
    OBVIOUS
  <1> HIDE DEF at, left
  <1> QED
    BY <1>1, <1>2, <1>3, <1>4, <1>5

LEMMA DrainJoinsKept ==
  ASSUME IInv, DrainJoins
  PROVE  IInv'
PROOF
  <1>t. TypeOK /\ watch \in Objects
    BY DEF IInv, WatchersFollowTheSet, TypeOK, Objects
  <1>1. TypeOK'
    BY <1>t DEF DrainJoins, TypeOK
  <1>2. WorkIsDriven'
    <2>1. \A o \in Object : watch[o].watcher = "none"
      <3> SUFFICES ASSUME NEW o \in Object
                   PROVE  watch[o].watcher = "none"
        OBVIOUS
      <3>1. watch[o].watcher \in {"none", "opening", "ready", "closing"}
        BY <1>t DEF Objects, LoopWatch
      <3>2. ~Subscribed(o)
        BY DEF DrainJoins, Draining, IInv, WatchersFollowTheSet
      <3> QED
        BY <3>1, <3>2 DEF DrainJoins, Joined, Subscribed
    <2> QED
      BY <2>1 DEF DrainJoins, Joined, WorkIsDriven, NotedWorkIsDriven, SettledIsQuiet,
                  CanRun, Draining
  <1>3. WatchFalls({}, {}) /\ TasksFall({}) /\ TickFalls({}) /\ FallenSound({})
    BY DEF DrainJoins, WatchFalls, TasksFall, TickFalls, FallenSound, IInv, AnswerSound
  <1>4. Draining' = Draining
    BY DEF DrainJoins, Draining
  <1> QED
    BY <1>1, <1>2, <1>3, <1>4, FallKept DEF DrainJoins

\* The drain ends every generation and closes every watcher.
LEMMA DrainKept ==
  ASSUME IInv, Drain
  PROVE  IInv'
PROOF
  <1> DEFINE P == {current[l] : l \in Loop} \ {None}
  <1>t. /\ TypeOK /\ watch \in Objects /\ tasks \in SUBSET TaskState /\ tick \in TickState
        /\ current \in [Loop -> Object \cup {None}]
    BY DEF IInv, WatchersFollowTheSet, TypeOK, Objects
  <1>k. /\ watch' = Halted(P, watch) /\ tasks' = Aborted(P, tasks) /\ tick' = TickBumped(P)
        /\ drain' = "joining" /\ UNCHANGED <<current, stopped, dirty>>
    BY DEF Drain
  <1>c. \A o \in Object : IsCurrent(o) => o \in P
    <2> SUFFICES ASSUME NEW o \in Object, IsCurrent(o)
                 PROVE  o \in P
      OBVIOUS
    <2>1. LoopOf(o) \in Loop /\ o # None /\ current[LoopOf(o)] = o
      BY WatchAssumption DEF Object, LoopOf, IsCurrent
    <2> QED
      BY <2>1
  <1> HIDE DEF P
  <1>1. /\ watch' \in Objects
        /\ \A o \in Object :
             /\ watch'[o].status = watch[o].status
             /\ watch'[o].watcher =
                  IF o \in P /\ watch[o].watcher \in {"opening", "ready"} THEN "closing"
                  ELSE watch[o].watcher
    BY <1>k, <1>t, HaltedWatch
  <1>2. tick' \in TickState /\ tick'.at = tick.at /\ tick'.on = tick.on
    BY <1>k, <1>t DEF TickBumped, TickState
  <1>3. TypeOK'
    <2>1. tasks' \in SUBSET TaskState
      BY <1>k, <1>t, AbortedTyped
    <2> QED
      BY <1>1, <1>2, <1>k, <1>t, <2>1 DEF TypeOK, Objects
  <1>4. Draining' /\ \A o : ~Up(o)'
    BY <1>k DEF Draining, Up
  <1>5. CurrentSound'
    <2>1. \A l \in Loop : current[l] # None => current[l] \in Object
      BY <1>t
    <2> QED
      BY <1>1, <1>k, <2>1 DEF CurrentSound, IInv
  <1>6. WatchersFollowTheSet'
    <2>1. \A o, p \in Object :
            watch'[o].watcher # "none" /\ watch'[p].watcher # "none" /\ LoopOf(o) = LoopOf(p)
              => o = p
      BY <1>1 DEF IInv, WatchersFollowTheSet
    <2>2. \A o \in Object : ~Subscribed(o)'
      BY <1>1, <1>c DEF IInv, WatchersFollowTheSet, Subscribed
    <2> QED
      BY <1>3, <2>1, <2>2 DEF WatchersFollowTheSet
  <1>7. AdmissionSound' /\ StatusSound' /\ StopSound'
    BY <1>1, <1>4, <1>k DEF AdmissionSound, StatusSound, StopSound, IInv, IsCurrent
  <1>8. AnswerSound'
    BY <1>2, <1>4 DEF AnswerSound, IInv
  <1>9. WorkIsDriven'
    <2> DEFINE rest == {v \in tasks : v.of \in P => v.at # "sleeping"}
    <2>1. rest \in SUBSET TaskState /\ tasks' = Bumped(P, rest)
      BY <1>k, <1>t DEF Aborted
    <2>2. \A v, u \in rest : v.kind = "round" /\ u.kind = "round" /\ v.of = u.of => v = u
      BY DEF IInv, WorkIsDriven, NotedWorkIsDriven
    <2> HIDE DEF rest
    <2>3. \A v, u \in tasks' : v.kind = "round" /\ u.kind = "round" /\ v.of = u.of => v = u
      BY <2>1, <2>2, BumpedSingle
    <2> QED
      BY <1>4, <1>k, <2>3 DEF WorkIsDriven, NotedWorkIsDriven, SettledIsQuiet, CanRun
  <1> QED
    BY <1>5, <1>6, <1>7, <1>8, <1>9 DEF IInv

\* A close that is done: whoever awaits it waits for one close less.
LEMMA WatcherClosesKept ==
  ASSUME IInv, NEW o \in Object, WatcherCloses(o)
  PROVE  IInv'
PROOF
  <1> DEFINE Less(v) == [v EXCEPT !.wait = @ \ {o}]
  <1>t. /\ TypeOK /\ watch \in Objects /\ tasks \in SUBSET TaskState
    BY DEF IInv, WatchersFollowTheSet, TypeOK, Objects
  <1>k. /\ watch[o].watcher = "closing" /\ watch' = [watch EXCEPT ![o].watcher = "none"]
        /\ tasks' = {Less(v) : v \in tasks}
        /\ UNCHANGED <<current, tick, stopped, drain, dirty>>
    BY DEF WatcherCloses
  <1>0. \A v \in tasks :
          /\ Less(v) \in TaskState
          /\ Less(v).of = v.of /\ Less(v).kind = v.kind /\ Less(v).at = v.at
          /\ Less(v).live = v.live /\ Less(v).wait = v.wait \ {o}
    BY <1>t DEF TaskState
  <1>1. /\ watch' \in Objects
        /\ \A p \in Object :
             /\ watch'[p].status = watch[p].status
             /\ watch'[p].pending = watch[p].pending
             /\ watch'[p].watcher = IF p = o THEN "none" ELSE watch[p].watcher
    <2>1. ASSUME NEW p \in Object
          PROVE  /\ watch'[p] \in LoopWatch
                 /\ watch'[p].status = watch[p].status
                 /\ watch'[p].pending = watch[p].pending
                 /\ watch'[p].watcher = IF p = o THEN "none" ELSE watch[p].watcher
      BY <1>k, <1>t DEF Objects, LoopWatch
    <2> QED
      BY <1>k, <1>t, <2>1 DEF Objects
  <1>2. \A p \in Object : Subscribed(p)' <=> Subscribed(p)
    BY <1>1, <1>k DEF Subscribed
  <1> HIDE DEF Less
  <1>3. /\ \A u \in tasks' : \E v \in tasks :
             /\ u = Less(v) /\ u.of = v.of /\ u.kind = v.kind /\ u.at = v.at
             /\ u.live = v.live /\ u.wait = v.wait \ {o}
        /\ \A v \in tasks : \E u \in tasks' :
             u.of = v.of /\ u.kind = v.kind
    BY <1>0, <1>k
  <1>4. TypeOK'
    <2>1. tasks' \in SUBSET TaskState
      BY <1>0, <1>k
    <2> QED
      BY <1>1, <1>k, <1>t, <2>1 DEF TypeOK, Objects
  <1>u. /\ \A p : Up(p)' <=> Up(p)
        /\ \A p : IsCurrent(p)' <=> IsCurrent(p)
        /\ Draining' = Draining
    BY <1>k DEF Up, IsCurrent, Draining
  <1>5. CurrentSound'
    <2>1. \A l \in Loop : current[l] # None => current[l] \in Object
      BY <1>t DEF TypeOK
    <2> QED
      BY <1>1, <1>k, <2>1 DEF CurrentSound, IInv
  <1>6. WatchersFollowTheSet'
    <2>1. \A p, q \in Object :
            watch'[p].watcher # "none" /\ watch'[q].watcher # "none" /\ LoopOf(p) = LoopOf(q)
              => p = q
      BY <1>1 DEF IInv, WatchersFollowTheSet
    <2>2. \A p \in Object :
            Subscribed(p)' => IsCurrent(p) /\ ~Draining
                              /\ watch'[p].status \in {"admitting", "watching"}
      BY <1>1, <1>2 DEF IInv, WatchersFollowTheSet
    <2> QED
      BY <1>4, <1>u, <2>1, <2>2 DEF WatchersFollowTheSet
  <1>7. AdmissionSound'
    <2> SUFFICES ASSUME NEW u \in tasks', Admits(u), u.live, Up(u.of),
                        watch'[u.of].status = "admitting"
                 PROVE  /\ u.at \in {"resolving", "predecessor"} => ~Subscribed(u.of)'
                        /\ u.at = "predecessor" =>
                             \A p \in Object :
                               LoopOf(p) = LoopOf(u.of) /\ watch'[p].watcher # "none"
                                 => p \in u.wait
                        /\ u.at = "opening" => Subscribed(u.of)'
                        /\ \A x \in tasks' : Admits(x) /\ x.live /\ x.of = u.of => x = u
      BY <1>u DEF AdmissionSound, Admits
    <2>1. PICK v \in tasks :
            /\ u = Less(v) /\ u.of = v.of /\ u.kind = v.kind /\ u.at = v.at
            /\ u.live = v.live /\ u.wait = v.wait \ {o}
      BY <1>3
    <2>2. v.of \in Object /\ watch[v.of].status = "admitting" /\ Admits(v)
      BY <1>1, <1>t, <2>1 DEF TaskState, Admits
    <2>3. /\ v.at \in {"resolving", "predecessor"} => ~Subscribed(v.of)
          /\ v.at = "predecessor" =>
               \A p \in Object :
                 LoopOf(p) = LoopOf(v.of) /\ watch[p].watcher # "none" => p \in v.wait
          /\ v.at = "opening" => Subscribed(v.of)
          /\ \A x \in tasks : Admits(x) /\ x.live /\ x.of = v.of => x = v
      BY <2>1, <2>2 DEF IInv, AdmissionSound
    <2>4. ASSUME NEW x \in tasks', Admits(x), x.live, x.of = u.of
          PROVE  x = u
      <3>1. PICK y \in tasks :
              /\ x = Less(y) /\ x.of = y.of /\ x.kind = y.kind /\ x.at = y.at
              /\ x.live = y.live
        BY <1>3
      <3>2. y = v
        BY <2>1, <2>3, <2>4, <3>1 DEF Admits
      <3> QED
        BY <2>1, <3>1, <3>2
    <2>5. ASSUME u.at = "predecessor", NEW p \in Object, LoopOf(p) = LoopOf(u.of),
                 watch'[p].watcher # "none"
          PROVE  p \in u.wait
      <3>1. p # o /\ watch[p].watcher # "none"
        BY <1>1, <2>5
      <3> QED
        BY <2>1, <2>3, <2>5, <3>1
    <2> QED
      BY <1>2, <2>1, <2>2, <2>3, <2>4, <2>5
  <1>8. /\ \A p \in Object : NoneOpening(p) => NoneOpening(p)'
        /\ \A p \in Object : NoneSyncing(p) => NoneSyncing(p)'
    BY <1>3 DEF NoneOpening, NoneSyncing, IsOpening, IsSyncing
  <1>9. StatusSound'
    <2> SUFFICES ASSUME NEW p \in Object, Up(p)
                 PROVE  /\ watch'[p].status = "admitting" =>
                             /\ NoneSyncing(p)'
                             /\ \A u \in tasks' : u.of = p /\ IsOpening(u) => u.live
                        /\ watch'[p].status = "watching" => NoneOpening(p)'
                        /\ watch'[p].status = "refused" => NoneOpening(p)' /\ NoneSyncing(p)'
                        /\ watch'[p].status = "config_changed" =>
                             NoneOpening(p)' \/ NoneSyncing(p)'
                        /\ watch'[p].status # "parked" =>
                             \A u \in tasks' : u.of = p /\ IsSyncing(u) => u.live
                        /\ watch'[p].status = "parked" =>
                             \A u \in tasks' : u.of = p => ~u.live
      BY <1>u DEF StatusSound, IsOpening, IsSyncing
    <2>1. /\ watch[p].status = "admitting" =>
               /\ NoneSyncing(p)
               /\ \A v \in tasks : v.of = p /\ IsOpening(v) => v.live
          /\ watch[p].status = "watching" => NoneOpening(p)
          /\ watch[p].status = "refused" => NoneOpening(p) /\ NoneSyncing(p)
          /\ watch[p].status = "config_changed" => NoneOpening(p) \/ NoneSyncing(p)
          /\ watch[p].status # "parked" =>
               \A v \in tasks : v.of = p /\ IsSyncing(v) => v.live
          /\ watch[p].status = "parked" => \A v \in tasks : v.of = p => ~v.live
      BY DEF IInv, StatusSound
    <2>2. watch'[p].status = watch[p].status
      BY <1>1
    <2>3. ASSUME NEW u \in tasks', u.of = p
          PROVE  \E v \in tasks : /\ v.of = p /\ v.live = u.live
                                  /\ IsOpening(u) => IsOpening(v)
                                  /\ IsSyncing(u) => IsSyncing(v)
      BY <1>3, <2>3 DEF IsOpening, IsSyncing
    <2> QED
      BY <1>8, <2>1, <2>2, <2>3
  <1>10. AnswerSound'
    <2>1. \A p \in Object : Shut(p) => Shut(p)'
      BY <1>1, <1>8 DEF Shut
    <2>2. ASSUME NEW u \in tasks', u.kind = "admission", u.at = "reporting", u.live, Up(u.of)
          PROVE  Shut(u.of)'
      <3>1. PICK v \in tasks :
              u.of = v.of /\ u.kind = v.kind /\ u.at = v.at /\ u.live = v.live
        BY <1>3
      <3>2. v.of \in Object /\ Shut(v.of)
        BY <1>t, <2>2, <3>1 DEF IInv, AnswerSound, TaskState
      <3>3. Shut(v.of)'
        BY <2>1, <3>2
      <3> QED
        BY <3>1, <3>3
    <2>3. tick.at = "admitting" =>
            tick.on \in Object /\ (tick.live /\ Up(tick.on) => Shut(tick.on)')
      <3>1. tick' = tick
        BY <1>k
      <3> QED
        BY <2>1, <3>1 DEF IInv, AnswerSound
    <2>4. tick' = tick
      BY <1>k
    <2> QED
      BY <1>u, <2>2, <2>3, <2>4 DEF AnswerSound, Shut, NoneOpening, NoneSyncing
  <1>11. StopSound'
    BY <1>1, <1>k DEF StopSound, IInv, IsCurrent
  <1>12. WorkIsDriven'
    <2>1. \A u, x \in tasks' : u.kind = "round" /\ x.kind = "round" /\ u.of = x.of => u = x
      <3> SUFFICES ASSUME NEW u \in tasks', NEW x \in tasks',
                          u.kind = "round", x.kind = "round", u.of = x.of
                   PROVE  u = x
        OBVIOUS
      <3>1. PICK v \in tasks : u = Less(v) /\ u.of = v.of /\ u.kind = v.kind
        BY <1>3
      <3>2. PICK y \in tasks : x = Less(y) /\ x.of = y.of /\ x.kind = y.kind
        BY <1>3
      <3>3. v = y
        BY <3>1, <3>2 DEF IInv, WorkIsDriven, NotedWorkIsDriven
      <3> QED
        BY <3>1, <3>2, <3>3
    <2>2. \A p : InFlight(p) => InFlight(p)'
      BY <1>3 DEF InFlight, Task
    <2>3. drain' # "settled"
      BY <1>k DEF IInv, WorkIsDriven, SettledIsQuiet
    <2> QED
      BY <1>1, <1>k, <2>1, <2>2, <2>3, WorkKept DEF CanRun
  <1> QED
    BY <1>5, <1>6, <1>7, <1>9, <1>10, <1>11, <1>12 DEF IInv

\* A refused loop is admitted again: its generation ends and starts anew.
LEMMA TickAdmitsKept ==
  ASSUME IInv, TickAdmits
  PROVE  IInv'
PROOF
  <1>o. PICK o \in Object : o = tick.on
    BY DEF TickAdmits, IInv, AnswerSound
  <1> DEFINE s == NewTask(o, "admission", "resolving")
  <1>t. /\ TypeOK /\ watch \in Objects /\ tasks \in SUBSET TaskState /\ tick \in TickState
        /\ tick.at = "admitting"
    BY DEF IInv, WatchersFollowTheSet, TypeOK, Objects, TickAdmits
  <1>k. UNCHANGED <<current, stopped, drain, dirty>>
    BY DEF TickAdmits
  <1>1. tick' \in TickState /\ tick'.at = "next"
    BY <1>t DEF TickAdmits, NoTick, TickState
  <1>2. CASE UNCHANGED <<watch, tasks>>
    BY <1>1, <1>2, <1>k, TickKept DEF TickFalls
  <1>3. CASE /\ ~Draining /\ tick.live /\ IsCurrent(o)
             /\ watch' = [watch EXCEPT ![o].status = "admitting"]
             /\ tasks' = Bumped({o}, tasks) \cup {s}
    <2>1. /\ s \in TaskState /\ s.of = o /\ s.kind = "admission" /\ s.at = "resolving"
          /\ s.live
      BY <1>t, NewTaskTyped
    <2> HIDE DEF s
    <2>2. /\ watch' \in Objects
          /\ \A p \in Object :
               /\ watch'[p].status = IF p = o THEN "admitting" ELSE watch[p].status
               /\ watch'[p].watcher = watch[p].watcher
               /\ watch'[p].pending = watch[p].pending
      <3>1. ASSUME NEW p \in Object
            PROVE  /\ watch'[p] \in LoopWatch
                   /\ watch'[p].status = IF p = o THEN "admitting" ELSE watch[p].status
                   /\ watch'[p].watcher = watch[p].watcher
                   /\ watch'[p].pending = watch[p].pending
        BY <1>3, <1>t DEF Objects, LoopWatch
      <3> QED
        BY <1>3, <1>t, <3>1 DEF Objects
    <2>3. /\ Bumped({o}, tasks) \in SUBSET TaskState
          /\ \A u \in Bumped({o}, tasks) :
               \/ u \in tasks /\ u.of # o
               \/ /\ u.of = o /\ ~u.live
                  /\ \E v \in tasks : u = [v EXCEPT !.live = FALSE]
          /\ \A v \in tasks : v.of # o => v \in Bumped({o}, tasks)
      BY <1>t, BumpedTasks
    <2>4. \A u \in tasks' :
            \/ u = s
            \/ u \in tasks /\ u.of # o
            \/ /\ u.of = o /\ ~u.live
               /\ \E v \in tasks : v.of = o /\ v.kind = u.kind /\ v.at = u.at
      <3>1. ASSUME NEW u, u.of = o, NEW v \in tasks, u = [v EXCEPT !.live = FALSE]
            PROVE  v.of = o /\ v.kind = u.kind /\ v.at = u.at
        BY <1>t, <3>1 DEF TaskState
      <3> QED
        BY <1>3, <2>3, <3>1
    <2>5. TypeOK'
      BY <1>1, <1>3, <1>k, <1>t, <2>1, <2>2, <2>3 DEF TypeOK, Objects
    <2>6. Shut(o) /\ Up(o) /\ ~Subscribed(o)
      <3>1. Shut(o) /\ Up(o)
        BY <1>3, <1>o, <1>t DEF IInv, AnswerSound, Up
      <3> QED
        BY <1>t, <3>1 DEF IInv, WatchersFollowTheSet, Shut
    <2>u. /\ \A p : Up(p)' <=> Up(p)
          /\ \A p : IsCurrent(p)' <=> IsCurrent(p)
          /\ Draining' = Draining
          /\ \A p \in Object : Subscribed(p)' <=> Subscribed(p)
      BY <1>k, <2>2 DEF Up, IsCurrent, Draining, Subscribed
    <2>0. \A u \in tasks' : u.of \in Object
      BY <2>5 DEF TypeOK, TaskState
    <2>7. CurrentSound'
      <3>1. \A l \in Loop : current[l] # None => current[l] \in Object
        BY <1>t DEF TypeOK
      <3> QED
        BY <1>k, <2>2, <3>1 DEF CurrentSound, IInv
    <2>8. WatchersFollowTheSet'
      BY <2>2, <2>5, <2>6, <2>u DEF IInv, WatchersFollowTheSet
    <2>9. AdmissionSound'
      <3> SUFFICES ASSUME NEW u \in tasks', Admits(u), u.live, Up(u.of),
                          watch'[u.of].status = "admitting"
                   PROVE  /\ u.at \in {"resolving", "predecessor"} => ~Subscribed(u.of)
                          /\ u.at = "predecessor" =>
                               \A p \in Object :
                                 LoopOf(p) = LoopOf(u.of) /\ watch[p].watcher # "none"
                                   => p \in u.wait
                          /\ u.at = "opening" => Subscribed(u.of)
                          /\ \A x \in tasks' : Admits(x) /\ x.live /\ x.of = u.of => x = u
        BY <2>0, <2>2, <2>u DEF AdmissionSound, Admits
      <3>1. CASE u = s
        BY <2>1, <2>4, <2>6, <3>1
      <3>2. CASE u # s
        <4>1. u \in tasks /\ u.of # o
          BY <2>4, <3>2
        <4>2. watch[u.of].status = "admitting"
          BY <2>0, <2>2, <4>1
        <4>3. \A x \in tasks' : x.of = u.of => x \in tasks
          BY <2>1, <2>4, <4>1
        <4> QED
          BY <4>1, <4>2, <4>3 DEF IInv, AdmissionSound
      <3> QED
        BY <3>1, <3>2
    <2>10. /\ \A p \in Object : NoneOpening(p) => NoneOpening(p)'
           /\ \A p \in Object : NoneSyncing(p) => NoneSyncing(p)'
      <3>1. ~IsOpening(s) /\ ~IsSyncing(s)
        BY <2>1 DEF IsOpening, IsSyncing
      <3>2. ASSUME NEW u \in tasks', IsOpening(u) \/ IsSyncing(u)
            PROVE  \E v \in tasks : /\ v.of = u.of
                                    /\ IsOpening(u) => IsOpening(v)
                                    /\ IsSyncing(u) => IsSyncing(v)
        BY <2>4, <3>1, <3>2 DEF IsOpening, IsSyncing
      <3> QED
        BY <3>2 DEF NoneOpening, NoneSyncing, IsOpening, IsSyncing
    <2>11. StatusSound'
      <3> SUFFICES ASSUME NEW p \in Object, Up(p)
                   PROVE  /\ watch'[p].status = "admitting" =>
                               /\ NoneSyncing(p)'
                               /\ \A u \in tasks' : u.of = p /\ IsOpening(u) => u.live
                          /\ watch'[p].status = "watching" => NoneOpening(p)'
                          /\ watch'[p].status = "refused" => NoneOpening(p)' /\ NoneSyncing(p)'
                          /\ watch'[p].status = "config_changed" =>
                               NoneOpening(p)' \/ NoneSyncing(p)'
                          /\ watch'[p].status # "parked" =>
                               \A u \in tasks' : u.of = p /\ IsSyncing(u) => u.live
                          /\ watch'[p].status = "parked" =>
                               \A u \in tasks' : u.of = p => ~u.live
        BY <2>u DEF StatusSound, IsOpening, IsSyncing
      <3>1. CASE p = o
        <4>1. NoneOpening(o)' /\ NoneSyncing(o)'
          BY <1>t, <2>6, <2>10 DEF Shut
        <4>2. \A u \in tasks' : u.of = o => ~IsOpening(u) /\ ~IsSyncing(u)
          BY <4>1 DEF NoneOpening, NoneSyncing, IsOpening, IsSyncing
        <4>3. watch'[o].status = "admitting"
          BY <1>t, <2>2
        <4> QED
          BY <3>1, <4>1, <4>2, <4>3
      <3>2. CASE p # o
        <4>1. watch'[p].status = watch[p].status
          BY <2>2, <3>2
        <4>2. \A u \in tasks' : u.of = p => u \in tasks
          BY <2>1, <2>4, <3>2
        <4>3. /\ watch[p].status = "admitting" =>
                   /\ NoneSyncing(p)
                   /\ \A u \in tasks : u.of = p /\ IsOpening(u) => u.live
              /\ watch[p].status = "watching" => NoneOpening(p)
              /\ watch[p].status = "refused" => NoneOpening(p) /\ NoneSyncing(p)
              /\ watch[p].status = "config_changed" => NoneOpening(p) \/ NoneSyncing(p)
              /\ watch[p].status # "parked" =>
                   \A u \in tasks : u.of = p /\ IsSyncing(u) => u.live
              /\ watch[p].status = "parked" => \A u \in tasks : u.of = p => ~u.live
          BY DEF IInv, StatusSound
        <4> QED
          BY <2>10, <4>1, <4>2, <4>3
      <3> QED
        BY <3>1, <3>2
    <2>12. AnswerSound'
      <3>1. ASSUME NEW u \in tasks', u.kind = "admission", u.at = "reporting", u.live, Up(u.of)
            PROVE  Shut(u.of)'
        <4>1. u \in tasks /\ u.of # o
          BY <2>1, <2>4, <3>1
        <4>2. Shut(u.of) /\ u.of \in Object
          BY <2>0, <3>1, <4>1 DEF IInv, AnswerSound
        <4> QED
          BY <2>2, <2>10, <4>1, <4>2 DEF Shut
      <3> QED
        BY <1>1, <2>u, <3>1 DEF AnswerSound
    <2>13. StopSound'
      BY <1>k, <2>2, <2>u DEF StopSound, IInv
    <2>14. WorkIsDriven'
      <3>1. \A v, u \in Bumped({o}, tasks) :
              v.kind = "round" /\ u.kind = "round" /\ v.of = u.of => v = u
        BY <1>t, BumpedSingle DEF IInv, WorkIsDriven, NotedWorkIsDriven
      <3>2. \A v, u \in tasks' :
              v.kind = "round" /\ u.kind = "round" /\ v.of = u.of => v = u
        BY <1>3, <2>1, <3>1
      <3>3. \A p : p # o /\ InFlight(p) => InFlight(p)'
        BY <1>3, <2>3 DEF InFlight, Task
      <3>4. drain' # "settled"
        BY <1>3, <1>k DEF Draining
      <3>5. watch'[o].status # "watching"
        BY <1>t, <2>2
      <3> QED
        BY <1>k, <2>2, <3>2, <3>3, <3>4, <3>5, WorkKept DEF CanRun
    <2> QED
      BY <2>7, <2>8, <2>9, <2>11, <2>12, <2>13, <2>14 DEF IInv
  <1> QED
    BY <1>2, <1>3, <1>o DEF TickAdmits

--------------------------------------------------------------------------------
(***************************************************************************)
(* A new watch set.                                                        *)
(***************************************************************************)

\* A current object has its item.
ItemSound == \A l \in Loop : current[l] # None => watch[current[l]].item # None

\* What a new set does to each object: it is new, it is replaced or leaves, or it
\* stays.
Reset(new, old, left) ==
  /\ new \cap old = {} /\ left \subseteq old
  /\ \A o \in new : /\ watch[o].watcher = "none" /\ tick.on # o
                    /\ \A t \in tasks : t.of # o
  /\ \A o \in new : /\ watch'[o].status = "admitting" /\ watch'[o].watcher = "none"
                    /\ watch'[o].item # None
  /\ \A o \in old :
       /\ watch'[o].watcher \notin {"opening", "ready"}
       /\ watch'[o].watcher # "none" => watch[o].watcher # "none"
  /\ \A o \in Object \ (new \cup old) : watch'[o] = watch[o]
  /\ \A l \in Loop :
       current'[l] # None =>
         /\ LoopOf(current'[l]) = l
         /\ \/ current'[l] \in new
            \/ current'[l] = current[l] /\ current[l] \notin new \cup old
  /\ \A o \in Object : IsCurrent(o) /\ Subscribed(o) /\ o \notin old => IsCurrent(o)'
  /\ tasks' = Aborted(left, tasks) \cup {NewTask(o, "admission", "resolving") : o \in new}
  /\ tick' = TickBumped(left)
  /\ watch' \in Objects /\ current' \in [Loop -> Object \cup {None}]
  /\ dirty' \subseteq Object
  /\ stopped' = FALSE /\ UNCHANGED drain /\ ~Draining

LEMMA ApplyDoes ==
  ASSUME IInv, ItemSound, NEW items \in [Loop -> Item \cup {None}], Apply(items)
  PROVE  \E new, old, left \in SUBSET Object : Reset(new, old, left)
PROOF
  <1> DEFINE fresh == {l \in Loop : Replaced(l, items)}
             left == Leaving(items)
             halted == Halted(left, watch)
             created == [l \in fresh |-> CHOOSE o \in Free(l) : TRUE]
             new == {created[l] : l \in fresh}
             old == left \cup ({current[l] : l \in fresh} \ {None})
  <1>t. /\ TypeOK /\ watch \in Objects /\ dirty \subseteq Object
        /\ current \in [Loop -> Object \cup {None}]
    BY DEF IInv, WatchersFollowTheSet, TypeOK, Objects
  <1>c. \A l \in Loop : current[l] # None => LoopOf(current[l]) = l /\ current[l] \in Object
    BY <1>t DEF IInv, CurrentSound
  <1>1. /\ \A l \in fresh : Free(l) # {}
        /\ current' = [l \in Loop |->
             IF items[l] = None THEN None
             ELSE IF l \in fresh THEN created[l] ELSE current[l]]
        /\ watch' = [o \in Object |->
             IF o \in new THEN NewState(items[LoopOf(o)])
             ELSE IF o \in old THEN Retired(halted[o]) ELSE halted[o]]
        /\ tasks' = Aborted(left, tasks) \cup {NewTask(o, "admission", "resolving") : o \in new}
        /\ dirty' = dirty \ old
        /\ tick' = TickBumped(left)
        /\ stopped' = FALSE /\ UNCHANGED drain /\ ~Draining
    BY DEF Apply
  <1>2. \A l \in fresh : created[l] \in Free(l)
    BY <1>1
  <1>3. \A l \in fresh :
          /\ created[l] \in Object /\ LoopOf(created[l]) = l /\ current[l] # created[l]
          /\ watch[created[l]].watcher = "none" /\ tick.on # created[l]
          /\ \A t \in tasks : t.of # created[l]
    BY <1>2 DEF Free
  <1>4. \A l \in fresh : l \in Loop /\ items[l] # None
                         /\ (current[l] # None =>
                               \/ watch[current[l]].item # items[l]
                               \/ watch[current[l]].status = "parked")
    BY DEF Replaced
  <1>4b. \A l \in Loop \ fresh :
           items[l] # None => /\ current[l] # None
                              /\ watch[current[l]].item = items[l]
                              /\ watch[current[l]].status # "parked"
    BY DEF Replaced
  <1>5. \A o \in left : \E l \in Loop :
          o = current[l] /\ current[l] # None /\ watch[current[l]].item # items[l]
    BY DEF Leaving
  <1>5b. \A l \in Loop :
           current[l] # None /\ watch[current[l]].item # items[l] => current[l] \in left
    BY DEF Leaving
  <1> HIDE DEF fresh, left, halted, created
  <1>6. new \in SUBSET Object /\ left \in SUBSET Object /\ old \in SUBSET Object
    BY <1>3, <1>4, <1>5, <1>c
  <1>7. \A o \in old : \E l \in Loop :
          /\ o = current[l] /\ current[l] # None
          /\ l \in fresh \/ watch[current[l]].item # items[l]
    BY <1>4, <1>5
  <1>8. \A o \in new : \E l \in fresh : o = created[l] /\ LoopOf(o) = l /\ l \in Loop
    BY <1>3, <1>4
  <1>9. new \cap old = {}
    <2> SUFFICES ASSUME NEW o \in new, o \in old
                 PROVE  FALSE
      OBVIOUS
    <2>1. PICK l \in fresh : o = created[l] /\ LoopOf(o) = l
      BY <1>8
    <2>2. PICK k \in Loop : o = current[k] /\ current[k] # None
      BY <1>7
    <2>3. k = l
      BY <1>c, <2>1, <2>2
    <2> QED
      BY <1>3, <2>1, <2>2, <2>3
  <1>10. /\ halted \in Objects
         /\ \A o \in Object :
              /\ halted[o].status = watch[o].status
              /\ halted[o].item = watch[o].item
              /\ halted[o].pending = (watch[o].pending /\ o \notin left)
              /\ halted[o].watcher =
                   IF o \in left /\ watch[o].watcher \in {"opening", "ready"} THEN "closing"
                   ELSE watch[o].watcher
    BY <1>t, HaltedWatch DEF halted
  <1> HIDE DEF new, old
  <1>11. ASSUME NEW o \in new
         PROVE  /\ watch'[o] \in LoopWatch
                /\ watch'[o].status = "admitting" /\ watch'[o].watcher = "none"
                /\ watch'[o].item # None
    <2>1. PICK l \in fresh : LoopOf(o) = l
      BY <1>8
    <2>2. items[LoopOf(o)] # None /\ items[LoopOf(o)] \in Item
      BY <1>4, <2>1
    <2>3. watch'[o] = NewState(items[LoopOf(o)])
      BY <1>1, <1>6
    <2> QED
      BY <2>2, <2>3 DEF NewState, Unused, LoopWatch
  <1>12. ASSUME NEW o \in old
         PROVE  /\ watch'[o] \in LoopWatch
                /\ watch'[o].watcher \notin {"opening", "ready"}
                /\ watch'[o].watcher # "none" => watch[o].watcher # "none"
    <2>1. o \in Object /\ o \notin new
      BY <1>6, <1>9
    <2>2. watch'[o] = Retired(halted[o]) /\ halted[o] \in LoopWatch
      BY <1>1, <1>10, <2>1 DEF Objects
    <2>3. watch'[o] \in LoopWatch /\ watch'[o].watcher = halted[o].watcher
      BY <2>2 DEF Retired, Unused, LoopWatch
    <2>4. o \notin left => ~Subscribed(o)
      <3> SUFFICES ASSUME o \notin left
                   PROVE  ~Subscribed(o)
        OBVIOUS
      <3>1. PICK l \in Loop :
              /\ o = current[l] /\ current[l] # None
              /\ l \in fresh \/ watch[current[l]].item # items[l]
        BY <1>7
      <3>2. watch[o].status = "parked"
        BY <1>4, <1>5b, <3>1
      <3> QED
        BY <2>1, <3>2 DEF IInv, WatchersFollowTheSet
    <2> QED
      BY <1>10, <2>1, <2>3, <2>4 DEF Subscribed
  <1>13. ASSUME NEW o \in Object, o \notin new, o \notin old
         PROVE  watch'[o] = watch[o]
    <2>1. watch'[o] = halted[o]
      BY <1>1, <1>13
    <2>2. o \notin left
      BY <1>13 DEF old
    <2>3. halted[o] \in LoopWatch /\ watch[o] \in LoopWatch
      BY <1>10, <1>t DEF Objects
    <2>4. /\ halted[o].status = watch[o].status /\ halted[o].item = watch[o].item
          /\ halted[o].pending = watch[o].pending /\ halted[o].watcher = watch[o].watcher
      BY <1>10, <2>2, <2>3 DEF LoopWatch
    <2> QED
      BY <2>1, <2>3, <2>4 DEF LoopWatch
  <1>14. watch' \in Objects
    <2>1. \A o \in Object : watch'[o] \in LoopWatch
      BY <1>11, <1>12, <1>13, <1>t DEF Objects
    <2> QED
      BY <1>1, <2>1 DEF Objects
  <1>15. ASSUME NEW l \in Loop, current'[l] # None
         PROVE  /\ LoopOf(current'[l]) = l
                /\ \/ current'[l] \in new
                   \/ current'[l] = current[l] /\ current[l] \notin new \cup old
    <2>1. items[l] # None
      BY <1>1, <1>15
    <2>2. CASE l \in fresh
      <3>1. current'[l] = created[l]
        BY <1>1, <2>1, <2>2
      <3> QED
        BY <1>3, <2>2, <3>1 DEF new
    <2>3. CASE l \notin fresh
      <3>1. current'[l] = current[l] /\ current[l] # None
        BY <1>1, <1>4b, <2>1, <2>3
      <3>2. LoopOf(current[l]) = l
        BY <1>c, <3>1
      <3>3. current[l] \notin new
        BY <1>8, <2>3, <3>2
      <3>4. current[l] \notin old
        <4> SUFFICES ASSUME current[l] \in old
                     PROVE  FALSE
          OBVIOUS
        <4>1. PICK k \in Loop :
                /\ current[l] = current[k] /\ current[k] # None
                /\ k \in fresh \/ watch[current[k]].item # items[k]
          BY <1>7
        <4>2. k = l
          BY <1>c, <3>2, <4>1
        <4> QED
          BY <1>4b, <2>1, <2>3, <4>1, <4>2
      <3> QED
        BY <3>1, <3>2, <3>3, <3>4
    <2> QED
      BY <2>2, <2>3
  <1>16. ASSUME NEW o \in Object, IsCurrent(o), Subscribed(o), o \notin old
         PROVE  IsCurrent(o)'
    <2>1. LoopOf(o) \in Loop /\ o # None /\ current[LoopOf(o)] = o
      BY <1>16, WatchAssumption DEF Object, LoopOf, IsCurrent
    <2>2. o \notin left
      BY <1>16 DEF old
    <2>3. watch[o].item = items[LoopOf(o)]
      BY <1>5b, <2>1, <2>2
    <2>4. items[LoopOf(o)] # None
      BY <2>1, <2>3 DEF ItemSound
    <2>5. LoopOf(o) \notin fresh
      <3>1. watch[o].status # "parked"
        BY <1>16 DEF IInv, WatchersFollowTheSet
      <3> QED
        BY <1>4, <2>1, <2>3, <3>1
    <2>6. current'[LoopOf(o)] = o
      BY <1>1, <2>1, <2>4, <2>5
    <2> QED
      BY <2>6 DEF IsCurrent
  <1>17. current' \in [Loop -> Object \cup {None}]
    <2>1. \A l \in Loop : (IF items[l] = None THEN None
                           ELSE IF l \in fresh THEN created[l] ELSE current[l])
                          \in Object \cup {None}
      BY <1>3, <1>t
    <2> QED
      BY <1>1, <2>1
  <1>18. \A o \in new : /\ watch[o].watcher = "none" /\ tick.on # o
                        /\ \A t \in tasks : t.of # o
    BY <1>3, <1>8
  <1>19. dirty' \subseteq Object /\ left \subseteq old
    BY <1>1, <1>t DEF old
  <1>20. Reset(new, old, left)
    <2>1. tasks' = Aborted(left, tasks) \cup {NewTask(o, "admission", "resolving") : o \in new}
      BY <1>1
    <2>2. /\ \A o \in new :
               /\ watch'[o].status = "admitting" /\ watch'[o].watcher = "none"
               /\ watch'[o].item # None
          /\ \A o \in old :
               /\ watch'[o].watcher \notin {"opening", "ready"}
               /\ watch'[o].watcher # "none" => watch[o].watcher # "none"
      BY <1>11, <1>12
    <2>3. \A o \in Object \ (new \cup old) : watch'[o] = watch[o]
      BY <1>13
    <2>4. \A l \in Loop :
            current'[l] # None =>
              /\ LoopOf(current'[l]) = l
              /\ \/ current'[l] \in new
                 \/ current'[l] = current[l] /\ current[l] \notin new \cup old
      BY <1>15
    <2>5. \A o \in Object : IsCurrent(o) /\ Subscribed(o) /\ o \notin old => IsCurrent(o)'
      BY <1>16
    <2>6. tick' = TickBumped(left) /\ stopped' = FALSE /\ UNCHANGED drain /\ ~Draining
      BY <1>1
    <2> QED
      BY <1>9, <1>14, <1>17, <1>18, <1>19, <2>1, <2>2, <2>3, <2>4, <2>5, <2>6 DEF Reset
  <1> QED
    BY <1>6, <1>20

LEMMA ApplyKept ==
  ASSUME IInv, ItemSound, NEW items \in [Loop -> Item \cup {None}], Apply(items)
  PROVE  IInv' /\ ItemSound'
PROOF
  <1>1. PICK new, old, left \in SUBSET Object : Reset(new, old, left)
    BY ApplyDoes
  <1>r. /\ new \cap old = {} /\ left \subseteq old
        /\ \A o \in new : /\ watch[o].watcher = "none" /\ tick.on # o
                          /\ \A t \in tasks : t.of # o
        /\ \A o \in new : /\ watch'[o].status = "admitting" /\ watch'[o].watcher = "none"
                          /\ watch'[o].item # None
        /\ \A o \in old :
             /\ watch'[o].watcher \notin {"opening", "ready"}
             /\ watch'[o].watcher # "none" => watch[o].watcher # "none"
        /\ \A o \in Object \ (new \cup old) : watch'[o] = watch[o]
        /\ \A l \in Loop :
             current'[l] # None =>
               /\ LoopOf(current'[l]) = l
               /\ \/ current'[l] \in new
                  \/ current'[l] = current[l] /\ current[l] \notin new \cup old
        /\ \A o \in Object : IsCurrent(o) /\ Subscribed(o) /\ o \notin old => IsCurrent(o)'
        /\ tick' = TickBumped(left)
        /\ watch' \in Objects /\ current' \in [Loop -> Object \cup {None}]
        /\ dirty' \subseteq Object
        /\ stopped' = FALSE /\ UNCHANGED drain /\ ~Draining
    BY <1>1 DEF Reset
  <1>n. tasks' = Aborted(left, tasks) \cup {NewTask(o, "admission", "resolving") : o \in new}
    BY <1>1 DEF Reset
  <1>t. /\ TypeOK /\ watch \in Objects /\ tasks \in SUBSET TaskState /\ tick \in TickState
    BY DEF IInv, WatchersFollowTheSet, TypeOK, Objects
  <1>2. \A o \in new :
          /\ NewTask(o, "admission", "resolving") \in TaskState
          /\ NewTask(o, "admission", "resolving").of = o
          /\ NewTask(o, "admission", "resolving").kind = "admission"
          /\ NewTask(o, "admission", "resolving").at = "resolving"
    BY NewTaskTyped
  <1>3. /\ \A u \in Aborted(left, tasks) :
             \/ u \in tasks /\ u.of \notin left
             \/ /\ u.of \in left /\ ~u.live
                /\ \E v \in tasks : u = [v EXCEPT !.live = FALSE]
        /\ \A v \in tasks : v.of \notin left => v \in Aborted(left, tasks)
    BY <1>t, AbortedTasks
  <1>4. tasks' \in SUBSET TaskState
    <2>1. Aborted(left, tasks) \in SUBSET TaskState
      BY <1>t, AbortedTyped
    <2> QED
      BY <1>2, <1>n, <2>1
  <1>5. tick' \in TickState /\ tick'.at = tick.at /\ tick'.on = tick.on
        /\ (tick'.live => tick.live /\ tick.on \notin left)
    BY <1>r, <1>t DEF TickBumped, TickState
  <1>6. TypeOK'
    BY <1>4, <1>5, <1>r, <1>t DEF TypeOK, Objects
  \* A task of a new object is its admission, one of an object that stays is an old one.
  <1>7. \A u \in tasks' :
          /\ u.of \in Object
          /\ u.of \in new => u = NewTask(u.of, "admission", "resolving")
          /\ u.of \notin new \cup old => u \in tasks
    <2>1. \A u \in Aborted(left, tasks) : u.of \notin new
      BY <1>3, <1>r
    <2>2. \A u \in Aborted(left, tasks) : u.of \notin old => u \in tasks
      BY <1>3, <1>r
    <2>3. \A u \in tasks' : u.of \in Object
      BY <1>4 DEF TaskState
    <2>4. \A u \in tasks' :
            u \in Aborted(left, tasks)
            \/ \E o \in new : u = NewTask(o, "admission", "resolving") /\ u.of = o
      BY <1>2, <1>n
    <2> QED
      BY <2>1, <2>2, <2>3, <2>4
  <1>8. \A o \in Object :
          Up(o)' => o \in new \/ (o \notin new \cup old /\ Up(o) /\ watch'[o] = watch[o])
    <2> SUFFICES ASSUME NEW o \in Object, Up(o)'
                 PROVE  o \in new \/ (o \notin new \cup old /\ Up(o) /\ watch'[o] = watch[o])
      OBVIOUS
    <2>1. LoopOf(o) \in Loop /\ o # None /\ current'[LoopOf(o)] = o
      BY WatchAssumption DEF Object, LoopOf, Up, IsCurrent
    <2>2. \/ o \in new
          \/ current[LoopOf(o)] = o /\ o \notin new \cup old
      BY <1>r, <2>1
    <2> QED
      BY <1>r, <2>2 DEF Up, IsCurrent
  <1>9. CurrentSound' /\ ItemSound'
    <2>1. ASSUME NEW l \in Loop, current'[l] # None
          PROVE  /\ LoopOf(current'[l]) = l
                 /\ watch'[current'[l]].status # "unused"
                 /\ watch'[current'[l]].item # None
      <3>1. CASE current'[l] \in new
        BY <1>r, <2>1, <3>1
      <3>2. CASE current'[l] = current[l] /\ current[l] \notin new \cup old
        <4>1. current[l] \in Object /\ watch'[current[l]] = watch[current[l]]
          BY <1>r, <1>t, <2>1, <3>2 DEF TypeOK
        <4>2. watch[current[l]].status # "unused" /\ watch[current[l]].item # None
          BY <2>1, <3>2 DEF IInv, CurrentSound, ItemSound
        <4> QED
          BY <1>r, <2>1, <3>2, <4>1, <4>2
      <3> QED
        BY <1>r, <2>1, <3>1, <3>2
    <2> QED
      BY <2>1 DEF CurrentSound, ItemSound
  <1>w. \A o \in Object : watch'[o].watcher # "none" => watch[o].watcher # "none"
    BY <1>r
  <1>s. \A o \in Object :
          Subscribed(o)' => o \notin new \cup old /\ watch'[o] = watch[o] /\ Subscribed(o)
    BY <1>r DEF Subscribed
  <1>10. WatchersFollowTheSet'
    <2>1. \A o, p \in Object :
            watch'[o].watcher # "none" /\ watch'[p].watcher # "none" /\ LoopOf(o) = LoopOf(p)
              => o = p
      BY <1>w DEF IInv, WatchersFollowTheSet
    <2>2. \A o \in Object :
            Subscribed(o)' => IsCurrent(o)' /\ ~Draining'
                              /\ watch'[o].status \in {"admitting", "watching"}
      <3> SUFFICES ASSUME NEW o \in Object, Subscribed(o)'
                   PROVE  IsCurrent(o)' /\ ~Draining'
                          /\ watch'[o].status \in {"admitting", "watching"}
        OBVIOUS
      <3>1. o \notin new \cup old /\ watch'[o] = watch[o] /\ Subscribed(o)
        BY <1>s
      <3>2. IsCurrent(o) /\ watch[o].status \in {"admitting", "watching"}
        BY <3>1 DEF IInv, WatchersFollowTheSet
      <3> QED
        BY <1>r, <3>1, <3>2 DEF Draining
    <2> QED
      BY <1>6, <2>1, <2>2 DEF WatchersFollowTheSet
  <1>11. AdmissionSound'
    <2> SUFFICES ASSUME NEW u \in tasks', Admits(u), u.live, Up(u.of)',
                        watch'[u.of].status = "admitting"
                 PROVE  /\ u.at \in {"resolving", "predecessor"} => ~Subscribed(u.of)'
                        /\ u.at = "predecessor" =>
                             \A p \in Object :
                               LoopOf(p) = LoopOf(u.of) /\ watch'[p].watcher # "none"
                                 => p \in u.wait
                        /\ u.at = "opening" => Subscribed(u.of)'
                        /\ \A x \in tasks' : Admits(x) /\ x.live /\ x.of = u.of => x = u
      BY DEF AdmissionSound, Admits
    <2>1. CASE u.of \in new
      <3>1. u = NewTask(u.of, "admission", "resolving") /\ u.at = "resolving"
        BY <1>2, <1>7, <2>1
      <3>2. ~Subscribed(u.of)'
        BY <1>r, <2>1 DEF Subscribed
      <3>3. \A x \in tasks' : x.of = u.of => x = u
        BY <1>7, <2>1, <3>1
      <3> QED
        BY <3>1, <3>2, <3>3
    <2>2. CASE u.of \notin new
      <3>1. u.of \notin new \cup old /\ Up(u.of) /\ watch'[u.of] = watch[u.of] /\ u \in tasks
        BY <1>7, <1>8, <2>2
      <3>2. \A x \in tasks' : x.of = u.of => x \in tasks
        BY <1>7, <3>1
      <3>3. /\ u.at \in {"resolving", "predecessor"} => ~Subscribed(u.of)
            /\ u.at = "predecessor" =>
                 \A p \in Object :
                   LoopOf(p) = LoopOf(u.of) /\ watch[p].watcher # "none" => p \in u.wait
            /\ u.at = "opening" => Subscribed(u.of)
            /\ \A x \in tasks : Admits(x) /\ x.live /\ x.of = u.of => x = u
        BY <3>1 DEF IInv, AdmissionSound
      <3>4. Subscribed(u.of)' <=> Subscribed(u.of)
        BY <3>1 DEF Subscribed
      <3> QED
        BY <1>w, <3>2, <3>3, <3>4
    <2> QED
      BY <2>1, <2>2
  <1>12. \A o \in Object :
           /\ o \in new => \A u \in tasks' : u.of = o => ~IsOpening(u) /\ ~IsSyncing(u)
           /\ o \notin new \cup old /\ NoneOpening(o) => NoneOpening(o)'
           /\ o \notin new \cup old /\ NoneSyncing(o) => NoneSyncing(o)'
    <2>1. ASSUME NEW o \in new, NEW u \in tasks', u.of = o
          PROVE  ~IsOpening(u) /\ ~IsSyncing(u)
      BY <1>2, <1>7, <2>1 DEF IsOpening, IsSyncing
    <2>2. ASSUME NEW o \in Object, o \notin new \cup old
          PROVE  /\ NoneOpening(o) => NoneOpening(o)'
                 /\ NoneSyncing(o) => NoneSyncing(o)'
      BY <1>7, <2>2 DEF NoneOpening, NoneSyncing, IsOpening, IsSyncing
    <2> QED
      BY <2>1, <2>2
  <1>13. StatusSound'
    <2> SUFFICES ASSUME NEW p \in Object, Up(p)'
                 PROVE  /\ watch'[p].status = "admitting" =>
                             /\ NoneSyncing(p)'
                             /\ \A u \in tasks' : u.of = p /\ IsOpening(u) => u.live
                        /\ watch'[p].status = "watching" => NoneOpening(p)'
                        /\ watch'[p].status = "refused" => NoneOpening(p)' /\ NoneSyncing(p)'
                        /\ watch'[p].status = "config_changed" =>
                             NoneOpening(p)' \/ NoneSyncing(p)'
                        /\ watch'[p].status # "parked" =>
                             \A u \in tasks' : u.of = p /\ IsSyncing(u) => u.live
                        /\ watch'[p].status = "parked" =>
                             \A u \in tasks' : u.of = p => ~u.live
      BY DEF StatusSound, IsOpening, IsSyncing
    <2>1. CASE p \in new
      <3>1. \A u \in tasks' : u.of = p => ~IsOpening(u) /\ ~IsSyncing(u)
        BY <1>12, <2>1
      <3>2. NoneSyncing(p)'
        BY <3>1 DEF NoneSyncing, IsSyncing
      <3>3. watch'[p].status = "admitting"
        BY <1>r, <2>1
      <3> QED
        BY <3>1, <3>2, <3>3
    <2>2. CASE p \notin new
      <3>1. p \notin new \cup old /\ Up(p) /\ watch'[p] = watch[p]
        BY <1>8, <2>2
      <3>2. \A u \in tasks' : u.of = p => u \in tasks
        BY <1>7, <3>1
      <3>3. /\ watch[p].status = "admitting" =>
                 /\ NoneSyncing(p)
                 /\ \A u \in tasks : u.of = p /\ IsOpening(u) => u.live
            /\ watch[p].status = "watching" => NoneOpening(p)
            /\ watch[p].status = "refused" => NoneOpening(p) /\ NoneSyncing(p)
            /\ watch[p].status = "config_changed" => NoneOpening(p) \/ NoneSyncing(p)
            /\ watch[p].status # "parked" =>
                 \A u \in tasks : u.of = p /\ IsSyncing(u) => u.live
            /\ watch[p].status = "parked" => \A u \in tasks : u.of = p => ~u.live
        BY <3>1 DEF IInv, StatusSound
      <3>4. /\ NoneOpening(p) => NoneOpening(p)'
            /\ NoneSyncing(p) => NoneSyncing(p)'
        BY <1>12, <3>1
      <3> QED
        BY <3>1, <3>2, <3>3, <3>4
    <2> QED
      BY <2>1, <2>2
  <1>14. AnswerSound'
    <2>1. ASSUME NEW o \in Object, o \notin new \cup old, Shut(o), watch'[o] = watch[o]
          PROVE  Shut(o)'
      BY <1>12, <2>1 DEF Shut
    <2>2. ASSUME NEW u \in tasks', u.kind = "admission", u.at = "reporting", u.live, Up(u.of)'
          PROVE  Shut(u.of)'
      <3>1. u.of \notin new /\ u.of \in Object
        BY <1>2, <1>7, <2>2
      <3>2. u.of \notin new \cup old /\ Up(u.of) /\ watch'[u.of] = watch[u.of] /\ u \in tasks
        BY <1>7, <1>8, <2>2, <3>1
      <3>3. Shut(u.of)
        BY <2>2, <3>2 DEF IInv, AnswerSound
      <3> QED
        BY <2>1, <3>1, <3>2, <3>3
    <2>3. ASSUME tick'.at = "admitting"
          PROVE  tick'.on \in Object /\ (tick'.live /\ Up(tick.on)' => Shut(tick.on)')
      <3>1. PICK o \in Object : o = tick.on
        BY <1>5, <2>3 DEF IInv, AnswerSound
      <3>2. ASSUME tick'.live, Up(o)'
            PROVE  Shut(o)'
        <4>1. o \notin new
          BY <1>r, <3>1
        <4>2. o \notin new \cup old /\ Up(o) /\ watch'[o] = watch[o]
          BY <1>8, <3>2, <4>1
        <4>3. Shut(o)
          BY <1>5, <2>3, <3>1, <3>2, <4>2 DEF IInv, AnswerSound
        <4> QED
          BY <2>1, <4>2, <4>3
      <3>3. tick'.on = o
        BY <1>5, <3>1
      <3> QED
        BY <3>2, <3>3
    <2> QED
      BY <2>2, <2>3 DEF AnswerSound
  <1>15. StopSound'
    BY <1>r DEF StopSound
  <1>16. WorkIsDriven'
    <2> DEFINE rest == {v \in tasks : v.of \in left => v.at # "sleeping"}
    <2>1. rest \in SUBSET TaskState /\ Aborted(left, tasks) = Bumped(left, rest)
      BY <1>t DEF Aborted
    <2>2. \A v, u \in rest : v.kind = "round" /\ u.kind = "round" /\ v.of = u.of => v = u
      BY DEF IInv, WorkIsDriven, NotedWorkIsDriven
    <2> HIDE DEF rest
    <2>3. \A v, u \in Aborted(left, tasks) :
            v.kind = "round" /\ u.kind = "round" /\ v.of = u.of => v = u
      BY <2>1, <2>2, BumpedSingle
    <2>4. \A u \in tasks' : u.kind = "round" => u \in Aborted(left, tasks)
      BY <1>2, <1>n
    <2>5. ASSUME NEW o \in Object, watch'[o].pending, CanRun(o)'
          PROVE  InFlight(o)'
      <3>1. Up(o)' /\ watch'[o].status = "watching"
        BY <2>5 DEF CanRun, Up
      <3>2. o \notin new
        BY <1>r, <3>1
      <3>3. o \notin new \cup old /\ Up(o) /\ watch'[o] = watch[o]
        BY <1>8, <3>1, <3>2
      <3>4. ~stopped
        BY <3>1, <3>3 DEF IInv, StopSound, Up
      <3>5. CanRun(o) /\ watch[o].pending
        BY <2>5, <3>1, <3>3, <3>4 DEF CanRun, Up
      <3>6. PICK v \in tasks : v.of = o /\ v.kind = "round"
        BY <3>5 DEF IInv, WorkIsDriven, NotedWorkIsDriven, InFlight, Task
      <3>7. v \in tasks'
        BY <1>3, <1>n, <1>r, <3>3, <3>6
      <3> QED
        BY <3>6, <3>7 DEF InFlight, Task
    <2>6. drain' # "settled"
      BY <1>r DEF Draining
    <2> QED
      BY <2>3, <2>4, <2>5, <2>6 DEF WorkIsDriven, NotedWorkIsDriven, SettledIsQuiet
  <1> QED
    BY <1>9, <1>10, <1>11, <1>13, <1>14, <1>15, <1>16 DEF IInv

--------------------------------------------------------------------------------
(***************************************************************************)
(* The theorems.                                                           *)
(***************************************************************************)

\* Only a new watch set says anything new of an object.
LEMMA ItemsStay ==
  ASSUME TypeOK, UNCHANGED current, ItemSound,
         \A o \in Object : watch'[o].item = watch[o].item
  PROVE  ItemSound'
PROOF
  <1>1. \A l \in Loop : current[l] # None => current[l] \in Object
    BY DEF TypeOK
  <1> QED
    BY <1>1 DEF ItemSound

LEMMA OutcomeItems ==
  ASSUME TypeOK, NEW o \in Object, NEW outcome \in Outcome, HandleOutcome(o, outcome)
  PROVE  \A p \in Object : watch'[p].item = watch[p].item
PROOF
  <1>t. watch \in Objects /\ \A p \in Object : watch[p] \in LoopWatch
    BY DEF TypeOK, Objects
  <1>1. CASE outcome = "done"
    BY <1>1 DEF HandleOutcome
  <1>2. CASE outcome \in {"root", "config_changed"}
    <2>1. PICK s \in {"refused", "config_changed"} :
            watch' = Closed({o}, [watch EXCEPT ![o].status = s])
      BY <1>2 DEF HandleOutcome
    <2>2. PICK w : w = [watch EXCEPT ![o].status = s]
      OBVIOUS
    <2>3. w \in Objects /\ \A p \in Object : w[p].item = watch[p].item
      BY <1>t, <2>2 DEF Objects, LoopWatch
    <2>4. watch' = Closed({o}, w)
      BY <2>1, <2>2
    <2> QED
      BY <2>3, <2>4, ClosedWatch
  <1>3. CASE outcome \in {"loop_stopped", "machine_stopped"}
    <2>1. watch' = Parked(ClosedBy(o, outcome), watch)
      BY <1>3 DEF HandleOutcome
    <2> QED
      BY <1>t, <2>1, ParkedWatch
  <1> QED
    BY <1>1, <1>2, <1>3 DEF Outcome

LEMMA RunSyncItems ==
  ASSUME NEW o \in Object, NEW w \in Objects, NEW ts, RunSync(o, w, ts)
  PROVE  \A p \in Object : watch'[p].item = w[p].item
PROOF
  BY DEF RunSync, Objects, LoopWatch

LEMMA DriverItems ==
  ASSUME TypeOK, NEW t \in tasks, DriverGoesOn(t)
  PROVE  \A p \in Object : watch'[p].item = watch[p].item
PROOF
  <1>1. watch \in Objects /\ t.of \in Object
    BY DEF TypeOK, Objects, TaskState
  <1>2. watch' = [watch EXCEPT ![t.of].pending = @ /\ ~FollowUp(t.of)]
    BY DEF DriverGoesOn
  <1> QED
    BY <1>1, <1>2 DEF Objects, LoopWatch

LEMMA TaskItems ==
  ASSUME TypeOK, NEW t \in tasks, TaskStep(t)
  PROVE  UNCHANGED current /\ \A p \in Object : watch'[p].item = watch[p].item
PROOF
  <1>t. watch \in Objects /\ t.of \in Object /\ \A p \in Object : watch[p] \in LoopWatch
    BY DEF TypeOK, Objects, TaskState
  <1>1. CASE RoundEnds(t)
    BY <1>1, <1>t, DriverItems, OutcomeItems DEF RoundEnds, DriverGoesOn
  <1>2. CASE RoundGoesOn(t)
    BY <1>2, <1>t, DriverItems DEF RoundGoesOn, DriverGoesOn
  <1>3. CASE WindowEnds(t)
    BY <1>3, <1>t, RunSyncItems DEF WindowEnds
  <1>4. CASE ErrorWindowEnds(t)
    BY <1>4 DEF ErrorWindowEnds
  <1>5. CASE Reported(t)
    BY <1>5, <1>t, OutcomeItems DEF Reported
  <1>6. CASE Admitted(t)
    BY <1>6, <1>t DEF Admitted, Objects, LoopWatch
  <1>7. CASE Subscribe(t)
    BY <1>7, <1>t DEF Subscribe, Objects, LoopWatch
  <1>8. CASE Ready(t)
    <2>1. PICK w : w = [watch EXCEPT ![t.of].watcher = "ready", ![t.of].status = "watching"]
      OBVIOUS
    <2>2. w \in Objects /\ \A p \in Object : w[p].item = watch[p].item
      BY <1>t, <2>1 DEF Objects, LoopWatch
    <2>3. RunSync(t.of, w, tasks \ {t}) /\ UNCHANGED current
      BY <1>8, <2>1 DEF Ready
    <2> QED
      BY <1>t, <2>2, <2>3, RunSyncItems
  <1>9. CASE AbandonedAtReady(t)
    BY <1>9, <1>t, ClosedWatch DEF AbandonedAtReady
  <1> QED
    BY <1>1, <1>2, <1>3, <1>4, <1>5, <1>6, <1>7, <1>8, <1>9 DEF TaskStep

LEMMA OtherItems ==
  ASSUME TypeOK,
         \/ \E o \in Object : Event(o) \/ Error(o) \/ WatcherCloses(o)
         \/ TickStarts \/ TickStep \/ Drain \/ DrainJoins \/ UNCHANGED vars
  PROVE  UNCHANGED current /\ \A p \in Object : watch'[p].item = watch[p].item
PROOF
  <1>t. watch \in Objects /\ \A p \in Object : watch[p] \in LoopWatch
    BY DEF TypeOK, Objects
  <1>1. ASSUME NEW o \in Object, Event(o) \/ Error(o) \/ WatcherCloses(o)
        PROVE  UNCHANGED current /\ \A p \in Object : watch'[p].item = watch[p].item
    <2>1. CASE Event(o)
      BY <1>t, <2>1 DEF Event, LoopWatch, Objects
    <2>2. CASE Error(o)
      BY <2>2 DEF Error
    <2>3. CASE WatcherCloses(o)
      BY <1>t, <2>3 DEF WatcherCloses, LoopWatch, Objects
    <2> QED
      BY <1>1, <2>1, <2>2, <2>3
  <1>2. CASE TickStarts \/ TickEnds \/ DrainJoins \/ UNCHANGED vars
    BY <1>2 DEF TickStarts, TickEnds, DrainJoins, vars
  <1>3. CASE TickAdmits
    BY <1>3, <1>t DEF TickAdmits, LoopWatch, Objects
  <1>4. ASSUME NEW o \in Object, TickVisits(o)
        PROVE  UNCHANGED current /\ \A p \in Object : watch'[p].item = watch[p].item
    BY <1>4, <1>t, RunSyncItems DEF TickVisits
  <1>5. CASE Drain
    BY <1>5, <1>t, HaltedWatch DEF Drain
  <1> QED
    BY <1>1, <1>2, <1>3, <1>4, <1>5 DEF TickStep

LEMMA InitInv ==
  ASSUME Init
  PROVE  IInv /\ ItemSound
PROOF
  <1>1. \A o \in Object : /\ watch[o].status = "unused" /\ watch[o].watcher = "none"
                          /\ ~watch[o].pending
    BY DEF Init, Unused
  <1>2. \A l \in Loop : current[l] = None
    BY DEF Init
  <1>3. tick \in TickState /\ tick.at = "idle"
    BY DEF Init, NoTick, TickState
  <1>4. TypeOK
    <2>1. Unused \in LoopWatch
      BY DEF Unused, LoopWatch
    <2> QED
      BY <1>3, <2>1 DEF Init, TypeOK
  <1>5. \A o \in Object : ~IsCurrent(o)
    BY <1>2, WatchAssumption DEF Object, LoopOf, IsCurrent
  <1>6. \A o \in Object : ~Up(o) /\ ~Subscribed(o) /\ ~CanRun(o)
    BY <1>1, <1>5 DEF Up, Subscribed, CanRun
  <1>7. tasks = {} /\ drain = "no" /\ ~stopped
    BY DEF Init
  <1>8. CurrentSound /\ ItemSound
    BY <1>2 DEF CurrentSound, ItemSound
  <1>9. WatchersFollowTheSet
    BY <1>1, <1>4, <1>6 DEF WatchersFollowTheSet
  <1>10. AdmissionSound /\ StatusSound /\ AnswerSound /\ StopSound
    BY <1>3, <1>6, <1>7 DEF AdmissionSound, StatusSound, AnswerSound, StopSound
  <1>11. WorkIsDriven
    BY <1>6, <1>7 DEF WorkIsDriven, NotedWorkIsDriven, SettledIsQuiet
  <1> QED
    BY <1>8, <1>9, <1>10, <1>11 DEF IInv

LEMMA StepInv ==
  ASSUME IInv, ItemSound, [Next]_vars
  PROVE  IInv' /\ ItemSound'
PROOF
  <1>t. TypeOK
    BY DEF IInv, WatchersFollowTheSet
  <1>1. ASSUME NEW t \in tasks, TaskStep(t)
        PROVE  IInv' /\ ItemSound'
    <2>1. IInv'
      BY <1>1, RoundEndsKept, RoundGoesOnKept, WindowEndsKept, ErrorWindowEndsKept,
         ReportedKept, AdmittedKept, SubscribeKept, ReadyKept, AbandonedAtReadyKept
         DEF TaskStep
    <2>2. ItemSound'
      BY <1>1, <1>t, TaskItems, ItemsStay
    <2> QED
      BY <2>1, <2>2
  <1>2. ASSUME NEW o \in Object, Event(o) \/ Error(o) \/ WatcherCloses(o)
        PROVE  IInv' /\ ItemSound'
    <2>1. IInv'
      BY <1>2, EventKept, ErrorKept, WatcherClosesKept
    <2>2. ItemSound'
      BY <1>2, <1>t, OtherItems, ItemsStay
    <2> QED
      BY <2>1, <2>2
  <1>3. CASE TickStarts \/ TickStep
    <2>1. IInv'
      BY <1>3, TickStartsKept, TickEndsKept, TickAdmitsKept, TickVisitsKept DEF TickStep
    <2>2. ItemSound'
      BY <1>3, <1>t, OtherItems, ItemsStay
    <2> QED
      BY <2>1, <2>2
  <1>4. ASSUME NEW items \in [Loop -> Item \cup {None}], Apply(items)
        PROVE  IInv' /\ ItemSound'
    BY <1>4, ApplyKept
  <1>5. CASE Drain \/ DrainJoins
    <2>1. IInv'
      BY <1>5, DrainKept, DrainJoinsKept
    <2>2. ItemSound'
      BY <1>5, <1>t, OtherItems, ItemsStay
    <2> QED
      BY <2>1, <2>2
  <1>6. CASE UNCHANGED vars
    <2>1. tick' \in TickState /\ TickFalls({})
      BY <1>6, <1>t DEF vars, TypeOK, TickFalls, IInv, AnswerSound
    <2>2. IInv'
      BY <1>6, <2>1, TickKept DEF vars
    <2>3. ItemSound'
      BY <1>6, <1>t, OtherItems, ItemsStay
    <2> QED
      BY <2>2, <2>3
  <1> QED
    BY <1>1, <1>2, <1>3, <1>4, <1>5, <1>6 DEF Next

\* The invariant holds in every state that the manager reaches.
THEOREM Inductive == Spec => [](IInv /\ ItemSound)
PROOF
  <1>1. Init => IInv /\ ItemSound
    BY InitInv
  <1>2. IInv /\ ItemSound /\ [Next]_vars => (IInv /\ ItemSound)'
    BY StepInv
  <1> QED
    BY <1>1, <1>2, PTL DEF Spec

\* Whatever replaces whatever in states (apply, reconcileSet, parkLoop, tick, drain): a
\* loop has at most one subscription that is not fully closed, and one that is not being
\* closed belongs to the current object of its loop, which is admitted or watched, before
\* the drain.
THEOREM SubscriptionSafety == Spec => []WatchersFollowTheSet
PROOF
  <1>1. IInv => WatchersFollowTheSet
    BY DEF IInv
  <1> QED
    BY <1>1, Inductive, PTL

\* Whoever asks for a round (runSync, driveRounds, tick): an object drives one at a time,
\* work that was noted meanwhile has a driver, and a settled drain leaves none of it.
THEOREM DriverSafety == Spec => []WorkIsDriven
PROOF
  <1>1. IInv => WorkIsDriven
    BY DEF IInv
  <1> QED
    BY <1>1, Inductive, PTL

================================================================================
