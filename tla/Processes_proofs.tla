--------------------------------- MODULE Processes_proofs ---------------------------------
(***************************************************************************)
(* Theorems about the parts that run, of their composition in Parts: the   *)
(* agent, the scan, the upload gate, the lock of a data directory, the     *)
(* start of a daemon, the claim and the sweep keep their promises for all  *)
(* constants that the assumptions of Parts admit.  No step of one part     *)
(* touches another, so each inductive invariant is one of its part's own   *)
(* variables, kept by the part's steps and by those that leave them alone. *)
(***************************************************************************)
EXTENDS Parts, SequenceTheorems, FiniteSetTheorems, FunctionTheorems, TLAPS

--------------------------------------------------------------------------------
(***************************************************************************)
(* A run of the agent and its process group.                               *)
(***************************************************************************)
\* The call is back, and the group it ran was found gone.
Quiescent == settled \notin {None, "process-control"}

\* Once the group is found gone it stays so: only its members fork into it.
GroupInv ==
  /\ Agent!GroupTypeOK
  /\ at["child"] \notin {"escaped", "left"}
  /\ closing = "settled" <=> Quiescent
  /\ closing \in {"unspawned", "failed", "reaping_failed", "settled"} \/ term = "done" => ~Agent!GroupAlive
  /\ closing = "reaping" /\ term = "idle" => ~Agent!GroupAlive
  /\ closing = "unspawned" => term = "idle" /\ winner = None /\ settled = None
  /\ settled = "exited" => winner = None

LEMMA GroupInit == Agent!GroupInit => GroupInv
<1> SUFFICES ASSUME Agent!GroupInit PROVE GroupInv
    OBVIOUS
<1> USE AgentAssumption
<1>1. Agent!GroupTypeOK
  BY DEF Agent!GroupInit, Agent!GroupTypeOK
<1>2. \A p \in Agent!Proc : at[p] = "unborn"
  BY DEF Agent!GroupInit
<1>3. ~Agent!GroupAlive
  BY <1>2 DEF Agent!GroupAlive, Agent!Members
<1>4. at["child"] = "unborn"
  BY <1>2 DEF Agent!Proc, Agent!Child
<1>5. QED
  BY <1>1, <1>3, <1>4 DEF GroupInv, Quiescent, Agent!GroupInit

\* What a step leaves of a group that was found gone.
LEMMA GoneStaysGone ==
  ASSUME GroupInv, ~Agent!GroupAlive, \A p \in Agent!Proc : at'[p] = "group" => at[p] = "group"
  PROVE  ~Agent!GroupAlive'
BY DEF Agent!GroupAlive, Agent!Members

\* The steps that the processes take.
LEMMA ProcessesKeepGroup ==
  ASSUME GroupInv,
         (\E h \in Helper : Agent!Fork(h)) \/ (\E p \in Agent!Proc : Agent!Exit(p))
  PROVE  /\ GroupInv' /\ UNCHANGED <<aborted, winner, term, closing, settled>>
         /\ Quiescent => UNCHANGED exit
<1> USE AgentAssumption
<1>1. ASSUME NEW h \in Helper, Agent!Fork(h)
      PROVE  GroupInv' /\ UNCHANGED <<exit, aborted, winner, term, closing, settled>>
  <2>1. PICK place \in {"group", "escaped"} : at' = [at EXCEPT ![h] = place]
    BY <1>1 DEF Agent!Fork
  <2>2. Agent!GroupAlive /\ UNCHANGED <<exit, aborted, winner, term, closing, settled>> /\ pipes' \subseteq pipes \cup {h}
    BY <1>1 DEF Agent!Fork, Agent!GroupAlive
  <2>3. h \in Agent!Proc /\ h # "child" /\ "child" \in Agent!Proc
    BY DEF Agent!Proc, Agent!Child
  <2>4. \A p \in Agent!Proc : at'[p] = IF p = h THEN place ELSE at[p]
    BY <2>1 DEF GroupInv, Agent!GroupTypeOK
  <2>5. pipes' \subseteq Agent!Living'
    BY <2>2, <2>3, <2>4 DEF GroupInv, Agent!GroupTypeOK, Agent!Living
  <2>6. Agent!GroupTypeOK'
    BY <2>1, <2>2, <2>5 DEF GroupInv, Agent!GroupTypeOK
  <2>7. QED BY <2>2, <2>3, <2>4, <2>6 DEF GroupInv, Quiescent
<1>2. ASSUME NEW p \in Agent!Proc, Agent!Exit(p)
      PROVE  /\ GroupInv' /\ UNCHANGED <<aborted, winner, term, closing, settled>>
             /\ Quiescent => UNCHANGED exit
  <2>1. /\ p \in Agent!Living /\ at' = [at EXCEPT ![p] = IF @ = "group" THEN "gone" ELSE "left"]
        /\ pipes' = pipes \ {p} /\ UNCHANGED <<aborted, winner, term, closing, settled>>
    BY <1>2 DEF Agent!Exit
  <2>2. (p = "child" /\ exit' \in {"zero", "nonzero", "signal"}) \/ (p # "child" /\ UNCHANGED exit)
    BY <1>2 DEF Agent!Exit, Agent!Child
  <2>3. \A q \in Agent!Proc : at'[q] = IF q = p THEN IF at[p] = "group" THEN "gone" ELSE "left" ELSE at[q]
    BY <2>1 DEF GroupInv, Agent!GroupTypeOK
  <2>4. pipes' \subseteq Agent!Living'
    BY <2>1, <2>3 DEF GroupInv, Agent!GroupTypeOK, Agent!Living
  <2>5. Agent!GroupTypeOK'
    BY <2>1, <2>2, <2>4 DEF GroupInv, Agent!GroupTypeOK
  <2>6. ~Agent!GroupAlive => ~Agent!GroupAlive'
    BY <2>3, GoneStaysGone
  <2>7. "child" \in Agent!Proc /\ at'["child"] \notin {"escaped", "left"}
    BY <2>1, <2>3 DEF GroupInv, Agent!Living, Agent!Proc, Agent!Child
  <2>8. Quiescent => p # "child"
    BY <2>1, <2>7 DEF GroupInv, Agent!GroupAlive, Agent!Members, Agent!Living
  <2>9. QED BY <2>1, <2>2, <2>5, <2>6, <2>7, <2>8 DEF GroupInv, Quiescent
<1>3. QED BY <1>1, <1>2

\* A step of the routine or of the call that leaves the processes alone.
Routine ==
  \/ Agent!GroupGone \/ Agent!GraceExpires \/ Agent!GroupLost \/ Agent!Timeout \/ Agent!Abort
  \/ Agent!Close \/ Agent!Settle

LEMMA RoutineKeepsGroup ==
  ASSUME GroupInv, Routine
  PROVE  /\ GroupInv' /\ UNCHANGED <<at, pipes, exit>>
         /\ closing' = "unspawned" <=> closing = "unspawned"
         /\ Quiescent => UNCHANGED <<winner, settled, closing>>
<1> USE AgentAssumption
<1>1. /\ UNCHANGED <<at, pipes, exit>> /\ (Agent!GroupAlive' <=> Agent!GroupAlive)
      /\ Agent!Living' = Agent!Living
  BY DEF Routine, Agent!GroupGone, Agent!GraceExpires, Agent!GroupLost, Agent!Timeout, Agent!Abort,
         Agent!Close, Agent!Settle, Agent!GroupAlive, Agent!Members, Agent!Living
<1>2. /\ aborted' \in BOOLEAN /\ winner' \in {None, "timed-out", "aborted", "consumer-error"}
      /\ term' \in {"idle", "terming", "killing", "done", "failed"}
      /\ closing' \in {"unspawned", "failed", "open", "reaping", "reaping_failed", "settled"}
      /\ settled' \in {None, "exited", "signaled", "timed-out", "aborted", "consumer-error",
                       "spawn-error", "process-control"}
  BY DEF GroupInv, Agent!GroupTypeOK, Routine, Agent!GroupGone, Agent!GraceExpires, Agent!GroupLost, Agent!Timeout,
         Agent!Abort, Agent!Close, Agent!Settle, Agent!Listening, Agent!Trigger, Agent!Terminate, Agent!FailFatally,
         Agent!Reap, Agent!Completion
<1>3. Agent!GroupTypeOK'
  BY <1>1, <1>2 DEF GroupInv, Agent!GroupTypeOK
<1>4. /\ closing' = "unspawned" <=> closing = "unspawned"
      /\ Quiescent => UNCHANGED <<winner, settled, closing>>
  BY DEF GroupInv, Quiescent, Routine, Agent!GroupGone, Agent!GraceExpires, Agent!GroupLost, Agent!Timeout,
         Agent!Abort, Agent!Close, Agent!Settle, Agent!Listening
<1>5. closing' = "settled" <=> Quiescent'
  BY DEF GroupInv, Quiescent, Routine, Agent!GroupGone, Agent!GraceExpires, Agent!GroupLost, Agent!Timeout,
         Agent!Abort, Agent!Close, Agent!Settle, Agent!Listening, Agent!Trigger, Agent!Terminate, Agent!FailFatally,
         Agent!Reap, Agent!Completion, Agent!GroupTypeOK
<1>6. closing' \in {"unspawned", "failed", "reaping_failed", "settled"} \/ term' = "done" => ~Agent!GroupAlive
  BY DEF GroupInv, Quiescent, Routine, Agent!GroupGone, Agent!GraceExpires, Agent!GroupLost, Agent!Timeout,
         Agent!Abort, Agent!Close, Agent!Settle, Agent!Listening, Agent!Trigger, Agent!Terminate, Agent!FailFatally,
         Agent!Reap
<1>7. closing' = "reaping" /\ term' = "idle" => ~Agent!GroupAlive
  BY DEF GroupInv, Quiescent, Routine, Agent!GroupGone, Agent!GraceExpires, Agent!GroupLost, Agent!Timeout,
         Agent!Abort, Agent!Close, Agent!Settle, Agent!Listening, Agent!Trigger, Agent!Terminate, Agent!FailFatally,
         Agent!Reap
<1>8. closing' = "unspawned" => term' = "idle" /\ winner' = None /\ settled' = None
  BY DEF GroupInv, Quiescent, Routine, Agent!GroupGone, Agent!GraceExpires, Agent!GroupLost, Agent!Timeout,
         Agent!Abort, Agent!Close, Agent!Settle, Agent!Listening, Agent!Trigger, Agent!Terminate, Agent!FailFatally
<1>9. settled' = "exited" => winner' = None
  BY DEF GroupInv, Routine, Agent!GroupGone, Agent!GraceExpires, Agent!GroupLost, Agent!Timeout,
         Agent!Abort, Agent!Close, Agent!Settle, Agent!Listening, Agent!Trigger, Agent!Terminate, Agent!FailFatally,
         Agent!Reap, Agent!Completion, Agent!GroupTypeOK
<1>10. QED BY <1>1, <1>3, <1>4, <1>5, <1>6, <1>7, <1>8, <1>9 DEF GroupInv

LEMMA SpawnKeepsGroup ==
  ASSUME GroupInv, Agent!Spawn
  PROVE  GroupInv' /\ closing' # "unspawned"
<1> USE AgentAssumption
<1>1. /\ closing = "unspawned" /\ term = "idle" /\ winner = None /\ settled = None /\ ~Agent!GroupAlive
      /\ UNCHANGED <<exit, aborted, winner, term>>
  BY DEF Agent!Spawn, GroupInv
<1>2. CASE UNCHANGED <<at, pipes>>
  <2>1. (Agent!GroupAlive' <=> Agent!GroupAlive) /\ Agent!Living' = Agent!Living
    BY <1>2 DEF Agent!GroupAlive, Agent!Members, Agent!Living
  <2>2. \/ settled' = "aborted" /\ closing' = "settled"
        \/ closing' = "failed" /\ UNCHANGED settled
        \/ closing' = "open" /\ UNCHANGED settled
    BY DEF Agent!Spawn
  <2>3. QED BY <1>1, <1>2, <2>1, <2>2 DEF GroupInv, Agent!GroupTypeOK, Quiescent
<1>3. CASE ~UNCHANGED <<at, pipes>>
  <2>1. /\ at' = [at EXCEPT !["child"] = "group"] /\ pipes' = {"child"}
        /\ closing' = "open" /\ UNCHANGED settled
    BY <1>3 DEF Agent!Spawn, Agent!Child
  <2>2. "child" \in Agent!Proc BY DEF Agent!Proc, Agent!Child
  <2>3. at'["child"] = "group" /\ at' \in [Agent!Proc -> {"unborn", "group", "escaped", "gone", "left"}]
    BY <2>1, <2>2 DEF GroupInv, Agent!GroupTypeOK
  <2>4. pipes' \subseteq Agent!Living' BY <2>1, <2>2, <2>3 DEF Agent!Living
  <2>5. QED BY <1>1, <2>1, <2>3, <2>4 DEF GroupInv, Agent!GroupTypeOK, Quiescent
<1>4. QED BY <1>2, <1>3

\* No process ever left the group.
NobodyLeft == \A p \in Agent!Proc : at[p] \notin {"escaped", "left"}

\* The outbox holds the command and nothing else.
OnlyTheCommand == \E e \in OutboxEntry : outbox = [f \in OutboxEntry |-> IF f = e THEN command ELSE None]

Early == {"resolve", "temp", "task_file", "control", "jail", "same_file", "binary", "spawn"}
Late == {"list", "read", "snapshot"}
Over == {"release", "done"}

RunTypes ==
  /\ Agent!TypeOK
  /\ v1 \in BOOLEAN /\ broken \in BOOLEAN /\ writes \in 0..MaxWrites
  /\ parse \in [terminal : {None, "success", "failure"}, failed : BOOLEAN]
  /\ listed \in [OutboxEntry -> Agent!Record \cup {None}]

\* What the runner goes by after the child stays true until it is done: the
\* child's success, and without processes that left, the outbox.
RunFacts ==
  /\ stage \in Early => closing = "unspawned"
  /\ stage \in Late => v1 /\ Agent!Succeeded(parse)
  /\ stage \in Over => /\ out = "ok" => Agent!Succeeded(parse)
                       /\ out # "process-control" => closing = "unspawned" \/ Quiescent
  /\ stage = "done" /\ out = "ok" => ~broken
  /\ NobodyLeft /\ stage = "read" => listed = outbox
  /\ NobodyLeft /\ v1 /\ (stage = "snapshot" \/ (stage \in Over /\ out = "ok")) => OnlyTheCommand

AgentInv == GroupInv /\ RunTypes /\ RunFacts

LEMMA AgentInit == Agent!Init => AgentInv
<1> SUFFICES ASSUME Agent!Init PROVE AgentInv
    OBVIOUS
<1> USE AgentAssumption
<1>1. GroupInv
  BY GroupInit DEF Agent!Init
<1>2. RunTypes
  <2>1. 0 \in 0..MaxWrites OBVIOUS
  <2>2. Agent!TypeOK BY <1>1 DEF GroupInv, Agent!TypeOK, Agent!Init
  <2>3. v1 \in BOOLEAN /\ broken \in BOOLEAN /\ writes \in 0..MaxWrites
        /\ listed \in [OutboxEntry -> Agent!Record \cup {None}]
    BY <2>1 DEF Agent!Init
  <2>4. parse \in [terminal : {None, "success", "failure"}, failed : BOOLEAN]
    BY DEF Agent!Init
  <2>5. QED BY <2>2, <2>3, <2>4 DEF RunTypes
<1>3. RunFacts
  BY DEF RunFacts, Agent!Init, Agent!GroupInit, Early, Late, Over
<1>4. QED BY <1>1, <1>2, <1>3 DEF AgentInv

\* Whoever succeeded left nobody in the group, and alone nobody at all.
LEMMA SuccessIsQuiet ==
  ASSUME AgentInv, Agent!Succeeded(parse)
  PROVE  Quiescent /\ closing = "settled" /\ winner = None /\ (NobodyLeft => Agent!Living = {})
<1>1. Quiescent /\ closing = "settled" /\ winner = None /\ ~Agent!GroupAlive
  BY AgentAssumption DEF AgentInv, GroupInv, Quiescent, Agent!Succeeded
<1>2. NobodyLeft => Agent!Living = {}
  BY <1>1 DEF NobodyLeft, Agent!Living, Agent!GroupAlive, Agent!Members
<1>3. QED BY <1>1, <1>2

\* A step of the group while the runner waits or works.
LEMMA GroupActsKeeps ==
  ASSUME AgentInv, Agent!GroupActs
  PROVE  AgentInv'
<1> USE AgentAssumption
<1>1. UNCHANGED <<v1, stage, held, parse, outbox, writes, listed, command, broken, out>>
  BY DEF Agent!GroupActs, Agent!runVars
<1>2. \/ (\E h \in Helper : Agent!Fork(h)) \/ (\E p \in Agent!Proc : Agent!Exit(p))
      \/ Routine
  BY DEF Agent!GroupActs, Agent!GroupStep, Routine
<1>3. /\ GroupInv' /\ (closing' = "unspawned" <=> closing = "unspawned")
      /\ Quiescent => UNCHANGED <<exit, settled>>
  BY <1>2, ProcessesKeepGroup, RoutineKeepsGroup DEF AgentInv
<1>4. NobodyLeft' => NobodyLeft
  <2>1. CASE Routine
    BY <2>1, RoutineKeepsGroup DEF NobodyLeft, AgentInv
  <2>2. ASSUME NEW h \in Helper, Agent!Fork(h) PROVE NobodyLeft' => NobodyLeft
    BY <2>2 DEF Agent!Fork, NobodyLeft, AgentInv, GroupInv, Agent!GroupTypeOK
  <2>3. ASSUME NEW p \in Agent!Proc, Agent!Exit(p) PROVE NobodyLeft' => NobodyLeft
    BY <2>3 DEF Agent!Exit, NobodyLeft, AgentInv, GroupInv, Agent!GroupTypeOK, Agent!Living
  <2>4. QED BY <1>2, <2>1, <2>2, <2>3
<1>5. RunTypes'
  BY <1>1, <1>3 DEF AgentInv, GroupInv, RunTypes, Agent!TypeOK, Agent!Record
<1>6. Agent!Succeeded(parse) => Agent!Succeeded(parse)'
  BY <1>1, <1>3, SuccessIsQuiet DEF AgentInv, Agent!Succeeded
<1>7. Quiescent => Quiescent'
  BY <1>3 DEF Quiescent
<1>8. OnlyTheCommand => OnlyTheCommand'
  BY <1>1 DEF OnlyTheCommand
<1>9. RunFacts'
  BY <1>1, <1>3, <1>4, <1>6, <1>7, <1>8 DEF AgentInv, RunFacts
<1>10. QED BY <1>3, <1>5, <1>9 DEF AgentInv

\* A step of the runner that leaves the processes and the call alone.
LEMMA GroupRests ==
  ASSUME AgentInv, UNCHANGED <<at, pipes, exit, aborted, winner, term, closing, settled>>
  PROVE  /\ GroupInv' /\ Agent!GroupTypeOK' /\ (Quiescent' <=> Quiescent) /\ (NobodyLeft' <=> NobodyLeft)
         /\ \A p : Agent!Succeeded(p)' <=> Agent!Succeeded(p)
BY DEF AgentInv, GroupInv, Quiescent, NobodyLeft, Agent!GroupTypeOK, Agent!GroupAlive, Agent!Members, Agent!Living,
       Agent!Succeeded

\* A step of the preparation: to the next stage, or into the release of a failure.
LEMMA PreparesKeeps ==
  ASSUME AgentInv, NEW from \in Early, NEW next \in Early, NEW d \in {"control", "temp", "scratch", None},
         Agent!Prepares(from, next, d)
  PROVE  AgentInv'
<1> USE AgentAssumption
<1>1. /\ stage = from /\ held' \subseteq held \cup ({d} \ {None})
      /\ UNCHANGED <<at, pipes, exit, aborted, winner, term, closing, settled>>
      /\ UNCHANGED <<v1, parse, outbox, writes, listed, command, broken>>
      /\ (stage' = next /\ UNCHANGED out) \/ (stage' = "release" /\ out' = "failed")
  BY DEF Agent!Prepares, Agent!Refuse, Agent!groupVars
<1>2. /\ GroupInv' /\ Agent!GroupTypeOK'
  BY <1>1, GroupRests
<1>3. RunTypes'
  BY <1>1, <1>2 DEF AgentInv, RunTypes, Agent!TypeOK, Early, Agent!Record
<1>4. RunFacts'
  BY <1>1 DEF AgentInv, RunFacts, Early, Late, Over
<1>5. QED BY <1>2, <1>3, <1>4 DEF AgentInv

LEMMA PrepareKeeps ==
  ASSUME AgentInv, Agent!Prepare
  PROVE  AgentInv'
<1> USE AgentAssumption
<1>1. CASE Agent!Resolve
  <2>1. /\ stage = "resolve" /\ held' \subseteq {"scratch"} \cup held
        /\ UNCHANGED <<at, pipes, exit, aborted, winner, term, closing, settled>>
        /\ UNCHANGED <<v1, parse, outbox, writes, listed, command, broken>>
        /\ (stage' = "temp" /\ UNCHANGED out) \/ (stage' = "done" /\ out' = "failed")
    BY <1>1 DEF Agent!Resolve, Agent!groupVars
  <2>2. GroupInv' /\ Agent!GroupTypeOK'
    BY <2>1, GroupRests
  <2>3. RunTypes'
    BY <2>1, <2>2 DEF AgentInv, RunTypes, Agent!TypeOK, Agent!Record
  <2>4. RunFacts'
    BY <2>1 DEF AgentInv, RunFacts, Early, Late, Over
  <2>5. QED BY <2>2, <2>3, <2>4 DEF AgentInv
<1>2. CASE Agent!PrepareTemp \/ Agent!ResolveTaskFile \/ Agent!PrepareControl
           \/ Agent!RevalidateJail \/ Agent!RevalidateTaskFile \/ Agent!CheckBinary
  <2>1. \E from, next \in Early, d \in {"control", "temp", "scratch", None} : Agent!Prepares(from, next, d)
    BY <1>2 DEF Agent!PrepareTemp, Agent!ResolveTaskFile, Agent!PrepareControl, Agent!RevalidateJail,
                Agent!RevalidateTaskFile, Agent!CheckBinary, Early
  <2>2. QED BY <2>1, PreparesKeeps
<1>3. CASE Agent!Start
  <2>1. /\ stage = "spawn" /\ stage' = "running" /\ Agent!Spawn
        /\ UNCHANGED <<v1, held, parse, outbox, writes, listed, command, broken, out>>
    BY <1>3 DEF Agent!Start
  <2>2. GroupInv' BY <2>1, SpawnKeepsGroup DEF AgentInv
  <2>3. RunTypes'
    BY <2>1, <2>2 DEF AgentInv, GroupInv, RunTypes, Agent!TypeOK, Agent!Record
  <2>4. RunFacts'
    BY <2>1 DEF RunFacts, Early, Late, Over
  <2>5. QED BY <2>2, <2>3, <2>4 DEF AgentInv
<1>4. QED BY <1>1, <1>2, <1>3 DEF Agent!Prepare

\* Output is consumed only while nothing is decided.
LEMMA ChunkKeeps ==
  ASSUME AgentInv, NEW e \in Agent!Event, Agent!Chunk(e)
  PROVE  AgentInv'
<1> USE AgentAssumption
<1>1. /\ closing = "open" /\ settled = None /\ winner = None
      /\ parse' = Agent!Parsed(parse, e)
      /\ UNCHANGED <<at, pipes, exit, aborted, closing>>
      /\ UNCHANGED <<v1, stage, held, outbox, writes, listed, command, broken, out>>
      /\ \/ winner' = "consumer-error" /\ term = "idle" /\ term' \in {"terming", "failed"}
            /\ settled' = IF term' = "failed" THEN "process-control" ELSE None
         \/ UNCHANGED <<winner, term, settled>>
  BY DEF Agent!Chunk, Agent!Trigger, Agent!Terminate, Agent!FailFatally
<1>2. (Agent!GroupAlive' <=> Agent!GroupAlive) /\ Agent!Living' = Agent!Living /\ ~Quiescent
  BY <1>1 DEF Agent!GroupAlive, Agent!Members, Agent!Living, Quiescent
<1>3. GroupInv'
  BY <1>1, <1>2 DEF AgentInv, GroupInv, Agent!GroupTypeOK, Quiescent
<1>4. parse' \in [terminal : {None, "success", "failure"}, failed : BOOLEAN]
  BY <1>1 DEF AgentInv, RunTypes, Agent!Parsed, Agent!Event
<1>5. RunTypes'
  BY <1>1, <1>3, <1>4 DEF AgentInv, GroupInv, RunTypes, Agent!TypeOK, Agent!Record
<1>6. ~Agent!Succeeded(parse) /\ stage \notin Early /\ stage \notin Late /\ (stage \in Over => out = "process-control")
  BY <1>1, <1>2 DEF AgentInv, RunFacts, Agent!Succeeded
<1>7. RunFacts'
  BY <1>1, <1>6 DEF RunFacts, Late, Over
<1>8. QED BY <1>3, <1>5, <1>7 DEF AgentInv

\* While somebody lives that can write to the outbox it is not relied on.
LEMMA OutboxKeeps ==
  ASSUME AgentInv, NEW e \in OutboxEntry, Agent!Invoke(e) \/ Agent!Tamper(e)
  PROVE  AgentInv'
<1> USE AgentAssumption
<1>1. /\ Agent!OutboxOpen /\ writes' = writes + 1
      /\ UNCHANGED <<at, pipes, exit, aborted, winner, term, closing, settled>>
      /\ UNCHANGED <<v1, stage, held, parse, listed, command, broken, out>>
      /\ \/ outbox' = [outbox EXCEPT ![e] = None]
         \/ \E k \in {"command", "refused"} : outbox' = [outbox EXCEPT ![e] = [kind |-> k, ino |-> writes']]
  BY DEF Agent!Invoke, Agent!Tamper, Agent!groupVars, Agent!RecordKind
<1>2. GroupInv' /\ Agent!GroupTypeOK' /\ (Quiescent' <=> Quiescent) /\ (NobodyLeft' <=> NobodyLeft)
      /\ (Agent!Succeeded(parse)' <=> Agent!Succeeded(parse))
  BY <1>1, GroupRests DEF Agent!Succeeded
<1>3. writes' \in 1..MaxWrites
  BY <1>1 DEF AgentInv, RunTypes, Agent!OutboxOpen
<1>4. outbox' \in [OutboxEntry -> Agent!Record \cup {None}]
  BY <1>1, <1>3 DEF AgentInv, RunTypes, Agent!TypeOK, Agent!Record, Agent!RecordKind
<1>5. RunTypes'
  BY <1>1, <1>2, <1>3, <1>4 DEF AgentInv, RunTypes, Agent!TypeOK, Agent!Record
<1>6. v1 /\ Agent!Living # {} /\ stage \in {"running", "list", "read"}
  BY <1>1 DEF Agent!OutboxOpen
<1>7. stage = "read" => ~NobodyLeft
  BY <1>6, SuccessIsQuiet DEF AgentInv, RunFacts, Late
<1>8. RunFacts'
  BY <1>1, <1>2, <1>6, <1>7 DEF AgentInv, RunFacts, Early, Late, Over
<1>9. QED BY <1>2, <1>5, <1>8 DEF AgentInv

LEMMA ConcludeKeeps ==
  ASSUME AgentInv, Agent!Conclude
  PROVE  AgentInv'
<1> USE AgentAssumption
<1>1. UNCHANGED <<at, pipes, exit, aborted, winner, term, closing, settled>> /\ UNCHANGED <<v1, outbox, writes>>
  BY DEF Agent!Conclude, Agent!Returned, Agent!ListOutbox, Agent!ReadRecord, Agent!Snapshot, Agent!ReleaseControl,
         Agent!ReleaseTemp, Agent!ReleaseScratch, Agent!Release, Agent!Released, Agent!groupVars
<1>2. GroupInv' /\ Agent!GroupTypeOK' /\ (Quiescent' <=> Quiescent) /\ (NobodyLeft' <=> NobodyLeft)
      /\ \A p : Agent!Succeeded(p)' <=> Agent!Succeeded(p)
  BY <1>1, GroupRests
<1>3. CASE Agent!Returned
  <2>1. PICK e \in Agent!Event : parse' = IF closing = "settled" THEN Agent!Parsed(parse, e) ELSE parse
    BY <1>3 DEF Agent!Returned
  <2>2. parse' \in [terminal : {None, "success", "failure"}, failed : BOOLEAN]
    BY <2>1 DEF AgentInv, RunTypes, Agent!Parsed, Agent!Event
  <2>3. /\ stage = "running" /\ settled # None /\ UNCHANGED <<held, listed, command, broken>>
        /\ \/ settled = "process-control" /\ stage' = "release" /\ out' = "process-control"
           \/ Quiescent /\ Agent!Succeeded(parse') /\ v1 /\ stage' = "list" /\ UNCHANGED out
           \/ Quiescent /\ Agent!Succeeded(parse') /\ ~v1 /\ stage' = "release" /\ out' = "ok"
           \/ Quiescent /\ stage' = "release" /\ out' = "failed"
    BY <1>3 DEF Agent!Returned, Agent!Refuse, Quiescent
  <2>4. RunTypes'
    BY <1>1, <1>2, <2>2, <2>3 DEF AgentInv, RunTypes, Agent!TypeOK, Agent!Record
  <2>5. Agent!Succeeded(parse)' <=> Agent!Succeeded(parse')
    BY <1>1 DEF Agent!Succeeded
  <2>6. RunFacts'
    BY <1>1, <1>2, <2>3, <2>5 DEF AgentInv, RunFacts, Early, Late, Over
  <2>7. QED BY <1>2, <2>4, <2>6 DEF AgentInv
<1>4. CASE Agent!ListOutbox
  <2>1. stage = "list" /\ stage' = "read" /\ listed' = outbox /\ UNCHANGED <<held, parse, command, broken, out>>
    BY <1>4 DEF Agent!ListOutbox
  <2>2. RunTypes'
    BY <1>1, <1>2, <2>1 DEF AgentInv, RunTypes, Agent!TypeOK, Agent!Record
  <2>3. Agent!Succeeded(parse)' <=> Agent!Succeeded(parse)
    BY <1>1, <2>1 DEF Agent!Succeeded
  <2>4. RunFacts'
    BY <1>1, <1>2, <2>1, <2>3 DEF AgentInv, RunFacts, Early, Late, Over
  <2>5. QED BY <1>2, <2>2, <2>4 DEF AgentInv
<1>5. CASE Agent!ReadRecord
  <2>1. stage = "read" /\ UNCHANGED <<held, parse, listed, broken>>
    BY <1>5 DEF Agent!ReadRecord
  <2>2. Agent!Succeeded(parse) /\ (Agent!Succeeded(parse)' <=> Agent!Succeeded(parse)) /\ v1 /\ Quiescent
    BY <1>1, <2>1, SuccessIsQuiet DEF AgentInv, RunFacts, Late, Agent!Succeeded
  <2>3. CASE stage' = "release" /\ out' = "failed" /\ UNCHANGED command
    <3>1. RunTypes'
      BY <1>1, <1>2, <2>1, <2>3 DEF AgentInv, RunTypes, Agent!TypeOK, Agent!Record
    <3>2. RunFacts'
      BY <1>1, <1>2, <2>1, <2>2, <2>3 DEF RunFacts, Early, Late, Over
    <3>3. QED BY <1>2, <3>1, <3>2 DEF AgentInv
  <2>4. ASSUME NEW e \in OutboxEntry, Agent!Collectable(e), outbox[e] # None, command' = outbox[e],
               stage' = "snapshot", UNCHANGED out
        PROVE  AgentInv'
    <3>1. RunTypes'
      BY <1>1, <1>2, <2>1, <2>4 DEF AgentInv, RunTypes, Agent!TypeOK, Agent!Record
    <3>2. NobodyLeft => OnlyTheCommand'
      <4>1. SUFFICES ASSUME NobodyLeft PROVE OnlyTheCommand'
            OBVIOUS
      <4>2. listed = outbox
        BY <2>1, <4>1 DEF AgentInv, RunFacts
      <4>3. \A f \in OutboxEntry : f # e => outbox[f] = None
        BY <2>4, <4>2 DEF Agent!Collectable, Agent!Listed
      <4>4. outbox' = [f \in OutboxEntry |-> IF f = e THEN command' ELSE None]
        BY <1>1, <2>4, <4>3 DEF AgentInv, RunTypes, Agent!TypeOK
      <4>5. QED BY <4>4 DEF OnlyTheCommand
    <3>3. RunFacts'
      BY <1>1, <1>2, <2>1, <2>2, <2>4, <3>2 DEF RunFacts, Early, Late, Over
    <3>4. QED BY <1>2, <3>1, <3>3 DEF AgentInv
  <2>5. QED BY <1>5, <2>3, <2>4 DEF Agent!ReadRecord, Agent!Refuse
<1>6. CASE Agent!Snapshot
  <2>1. stage = "snapshot" /\ stage' = "release" /\ out' = "ok" /\ UNCHANGED <<held, parse, listed, command, broken>>
    BY <1>6 DEF Agent!Snapshot
  <2>2. RunTypes'
    BY <1>1, <1>2, <2>1 DEF AgentInv, RunTypes, Agent!TypeOK, Agent!Record
  <2>3. Agent!Succeeded(parse) /\ (Agent!Succeeded(parse)' <=> Agent!Succeeded(parse)) /\ Quiescent
    BY <1>1, <2>1, SuccessIsQuiet DEF AgentInv, RunFacts, Late, Agent!Succeeded
  <2>4. OnlyTheCommand' <=> OnlyTheCommand
    BY <1>1, <2>1 DEF OnlyTheCommand
  <2>5. RunFacts'
    BY <1>1, <1>2, <2>1, <2>3, <2>4 DEF AgentInv, RunFacts, Early, Late, Over
  <2>6. QED BY <1>2, <2>2, <2>5 DEF AgentInv
<1>7. CASE Agent!ReleaseControl \/ Agent!ReleaseTemp \/ Agent!ReleaseScratch
  <2>1. stage = "release" /\ held' \subseteq held /\ broken' \in {broken, TRUE}
        /\ UNCHANGED <<stage, parse, listed, command, out>>
    BY <1>7 DEF Agent!ReleaseControl, Agent!ReleaseTemp, Agent!ReleaseScratch, Agent!Release
  <2>2. RunTypes'
    BY <1>1, <1>2, <2>1 DEF AgentInv, RunTypes, Agent!TypeOK, Agent!Record
  <2>3. Agent!Succeeded(parse)' <=> Agent!Succeeded(parse)
    BY <1>1, <2>1 DEF Agent!Succeeded
  <2>4. OnlyTheCommand' <=> OnlyTheCommand
    BY <1>1, <2>1 DEF OnlyTheCommand
  <2>5. RunFacts'
    BY <1>1, <1>2, <2>1, <2>3, <2>4 DEF AgentInv, RunFacts, Early, Late, Over
  <2>6. QED BY <1>2, <2>2, <2>5 DEF AgentInv
<1>8. CASE Agent!Released
  <2>1. stage = "release" /\ stage' = "done" /\ out' = Agent!Final /\ UNCHANGED <<held, parse, listed, command, broken>>
    BY <1>8 DEF Agent!Released
  <2>2. /\ out' \in {out, "failed"} /\ (out' = "ok" => out = "ok" /\ ~broken)
        /\ (out = "process-control" => out' = out)
    BY <2>1 DEF Agent!Final
  <2>3. RunTypes'
    BY <1>1, <1>2, <2>1, <2>2 DEF AgentInv, RunTypes, Agent!TypeOK, Agent!Record
  <2>4. Agent!Succeeded(parse)' <=> Agent!Succeeded(parse)
    BY <1>1, <2>1 DEF Agent!Succeeded
  <2>5. OnlyTheCommand' <=> OnlyTheCommand
    BY <1>1, <2>1 DEF OnlyTheCommand
  <2>6. RunFacts'
    BY <1>1, <1>2, <2>1, <2>2, <2>4, <2>5 DEF AgentInv, RunFacts, Early, Late, Over
  <2>7. QED BY <1>2, <2>3, <2>6 DEF AgentInv
<1>9. QED BY <1>3, <1>4, <1>5, <1>6, <1>7, <1>8 DEF Agent!Conclude

LEMMA AgentStep == AgentInv /\ (Agent!Next \/ UNCHANGED agentVars) => AgentInv'
<1> SUFFICES ASSUME AgentInv, Agent!Next \/ UNCHANGED agentVars
             PROVE  AgentInv'
    OBVIOUS
<1>1. CASE UNCHANGED agentVars
  <2>1. GroupInv' /\ Agent!GroupTypeOK' /\ (Quiescent' <=> Quiescent) /\ (NobodyLeft' <=> NobodyLeft)
    BY <1>1, GroupRests DEF agentVars
  <2>2. (Agent!Succeeded(parse)' <=> Agent!Succeeded(parse)) /\ (OnlyTheCommand' <=> OnlyTheCommand)
    BY <1>1 DEF agentVars, Agent!Succeeded, OnlyTheCommand
  <2>3. QED BY <1>1, <2>1, <2>2 DEF agentVars, AgentInv, RunTypes, RunFacts, Agent!TypeOK, Agent!Record
<1>2. QED
  BY <1>1, PrepareKeeps, GroupActsKeeps, ChunkKeeps, OutboxKeeps, ConcludeKeeps DEF Agent!Next

\* A run that settles with a report left no process of its group, and one that
\* reports success had a child that succeeded and, with nobody escaped, an outbox
\* with its command alone (claude-runner.ts, subprocess.ts).
THEOREM AgentSafety == Spec => []RunIsHonest
<1>1. Init => AgentInv
  BY AgentInit DEF Init
<1>2. AgentInv /\ [Next]_partVars => AgentInv'
  <2>1. [Next]_partVars => Agent!Next \/ UNCHANGED agentVars
    BY DEF Next, Only, partVars
  <2>2. QED BY <2>1, AgentStep
<1>3. AgentInv => RunIsHonest
  <2> SUFFICES ASSUME AgentInv PROVE Agent!NothingRunsUnseen /\ Agent!SuccessIsEarned
      BY DEF RunIsHonest
  <2>1. Agent!NothingRunsUnseen
    BY DEF AgentInv, RunTypes, RunFacts, GroupInv, Over, Agent!NothingRunsUnseen
  <2>2. ASSUME stage = "done", out = "ok"
        PROVE  Agent!Succeeded(parse) /\ ~broken /\ (v1 /\ NobodyLeft => OnlyTheCommand)
    BY <2>2 DEF AgentInv, RunFacts, Over
  <2>3. Agent!SuccessIsEarned
    <3>1. SUFFICES ASSUME stage = "done", out = "ok"
                   PROVE  /\ exit = "zero" /\ winner = None /\ ~broken
                          /\ parse = [terminal |-> "success", failed |-> FALSE]
                          /\ v1 /\ NobodyLeft => OnlyTheCommand
          BY DEF Agent!SuccessIsEarned, NobodyLeft, OnlyTheCommand
    <3>2. winner = None BY <2>2, <3>1, SuccessIsQuiet
    <3>3. parse = [terminal |-> "success", failed |-> FALSE]
      BY <2>2, <3>1 DEF AgentInv, RunTypes, Agent!Succeeded
    <3>4. QED BY <2>2, <3>1, <3>2, <3>3 DEF Agent!Succeeded
  <2>4. QED BY <2>1, <2>3
<1>4. QED
  BY <1>1, <1>2, <1>3, PTL DEF Spec

--------------------------------------------------------------------------------
(***************************************************************************)
(* The scan of an artifact directory.                                      *)
(***************************************************************************)
SPath == Node \ {ScanRoot}

\* An entry with all the directories it is in, up to the root.
Above(p) ==
  {a \in Node : \A S \in SUBSET Node :
     p \in S /\ (\A q \in S \ {ScanRoot} : Parent[q] \in S) => a \in S}

LEMMA AboveFacts ==
  ASSUME NEW p \in SPath
  PROVE  /\ Above(p) \subseteq Node /\ p \in Above(p) /\ ScanRoot \in Above(p)
         /\ \A q \in Above(p) \ {ScanRoot} : Parent[q] \in Above(p)
<1>1. Above(p) \subseteq Node /\ p \in Above(p)
  BY DEF Above, SPath
<1>2. \A q \in Above(p) \ {ScanRoot} : Parent[q] \in Above(p)
  BY ScanAssumption DEF Above
<1>3. ScanRoot \in Above(p)
  <2>1. SUFFICES ASSUME NEW S \in SUBSET Node, p \in S, \A q \in S \ {ScanRoot} : Parent[q] \in S
                 PROVE  ScanRoot \in S
    BY ScanAssumption DEF Above
  <2>2. S \ {ScanRoot} \in SUBSET (Node \ {ScanRoot}) /\ S \ {ScanRoot} # {}
    BY <2>1 DEF SPath
  <2>3. PICK q \in S \ {ScanRoot} : Parent[q] \notin S \ {ScanRoot}
    BY <2>2, ScanAssumption
  <2>4. QED BY <2>1, <2>3
<1>4. QED BY <1>1, <1>2, <1>3

LEMMA AboveLeast ==
  ASSUME NEW p \in SPath, NEW S \in SUBSET Node, p \in S, \A q \in S \ {ScanRoot} : Parent[q] \in S
  PROVE  Above(p) \subseteq S
BY DEF Above

LEMMA PrunedFacts ==
  /\ Unsynced \subseteq Scanner!Pruned /\ Scanner!Pruned \subseteq SPath
  /\ \A q \in SPath : q \in Scanner!Pruned <=> q \in Unsynced \/ Parent[q] \in Scanner!Pruned
<1>1. Unsynced \subseteq Scanner!Pruned /\ Scanner!Pruned \subseteq SPath
  BY ScanAssumption DEF Scanner!Pruned, Scanner!Path, SPath
<1>2. ASSUME NEW q \in SPath, Parent[q] \in Scanner!Pruned PROVE q \in Scanner!Pruned
  <2>1. SUFFICES ASSUME NEW S \in SUBSET SPath, Unsynced \subseteq S,
                        \A r \in SPath : Parent[r] \in S => r \in S
                 PROVE  q \in S
    BY DEF Scanner!Pruned, Scanner!Path, SPath
  <2>2. Parent[q] \in S
    BY <1>2, <2>1 DEF Scanner!Pruned, Scanner!Path, SPath
  <2>3. QED BY <2>1, <2>2
<1>3. ASSUME NEW q \in Scanner!Pruned, q \notin Unsynced PROVE Parent[q] \in Scanner!Pruned
  <2>1. SUFFICES ASSUME Parent[q] \notin Scanner!Pruned PROVE FALSE
    OBVIOUS
  <2> DEFINE S == Scanner!Pruned \ {q}
  <2>2. S \in SUBSET SPath /\ Unsynced \subseteq S /\ q \notin S
    BY <1>1, <1>3
  <2>3. \A r \in SPath : Parent[r] \in S => r \in S
    BY <1>2, <2>1
  <2>4. q \in S
    <3> HIDE DEF S
    <3>1. \A T \in SUBSET SPath :
            Unsynced \subseteq T /\ (\A r \in SPath : Parent[r] \in T => r \in T) => q \in T
      BY <1>3 DEF Scanner!Pruned, Scanner!Path, SPath
    <3>2. QED BY <2>2, <2>3, <3>1
  <2>5. QED BY <2>2, <2>4
<1>4. QED BY <1>1, <1>2, <1>3

LEMMA AboveNotPruned ==
  ASSUME NEW p \in SPath, p \notin Scanner!Pruned
  PROVE  Above(p) \cap Scanner!Pruned = {}
<1>1. Above(p) \subseteq Node \ Scanner!Pruned
  <2>1. p \in Node \ Scanner!Pruned BY DEF SPath
  <2>2. \A q \in (Node \ Scanner!Pruned) \ {ScanRoot} : Parent[q] \in Node \ Scanner!Pruned
    BY PrunedFacts, ScanAssumption DEF SPath
  <2>3. QED BY <2>1, <2>2, AboveLeast
<1>2. QED BY <1>1

\* The way from a directory above p leads through one of its entries.
LEMMA TowardsEntry ==
  ASSUME NEW p \in SPath, NEW a \in Above(p), a # p
  PROVE  \E c \in Above(p) \ {ScanRoot} : Parent[c] = a
<1>1. SUFFICES ASSUME \A c \in Above(p) \ {ScanRoot} : Parent[c] # a PROVE FALSE
  OBVIOUS
<1> DEFINE S == Above(p) \ {a}
<1>2. S \in SUBSET Node /\ p \in S BY AboveFacts
<1>3. \A q \in S \ {ScanRoot} : Parent[q] \in S BY <1>1, AboveFacts
<1>4. Above(p) \subseteq S
  <2> HIDE DEF S
  <2>1. QED BY <1>2, <1>3, AboveLeast
<1>5. QED BY <1>4

FrameState == [kind : {"dir", "check"}, path : Node, stamp : Nat]
WalkState ==
  [pc : {"idle", "root", "walk", "list", "open", "read", "recheck"}, attempt : Nat, stack : Seq(FrameState),
   names : SUBSET SPath, file : [path : Node, pre : Nat, fd : Nat, bytes : Nat], dirty : BOOLEAN,
   manifest : [SPath -> Nat \cup {None}]]
FramesOf(stack) == {stack[i] : i \in 1 .. Len(stack)}
TopOf(stack) == stack[Len(stack)]

\* The directories are above their entries, and every stamp has been given out.
TreeIsWhole ==
  /\ disk \in [Node -> [kind : {"none", "file", "dir", "odd"}, stamp : Nat]] /\ clock \in Nat
  /\ \A n \in Node : disk[n].stamp <= clock
  /\ \A p \in SPath : disk[p].kind # "none" => disk[Parent[p]].kind = "dir"

HistoryIsTrue ==
  /\ seen \in [SPath -> SUBSET (Nat \cup {None})]
  /\ began \in [scan : Nat, attempt : Nat] /\ began.attempt <= clock
  /\ walk.pc # "idle" => \A p \in SPath : Scanner!ContentOf(disk, p) \in seen[p]

CacheIsTrue ==
  /\ cache \in Seq([path : SPath, stamp : Nat, hash : Nat]) /\ Len(cache) <= MaxCached
  /\ \A i \in DOMAIN cache : cache[i].hash = cache[i].stamp

ResultIsTrue ==
  /\ result.how = "ok" =>
       \A p \in SPath : IF p \in Scanner!Pruned THEN result.manifest[p] = None
                        ELSE result.manifest[p] \in seen[p]
  /\ result.how = "unstable" => clock >= began.scan + MaxScanAttempts
  /\ walk.pc # "idle" => result.how \notin {"ok", "unstable"}

Busied == {"open", "read", "recheck"}

WalkShape(w) ==
  /\ w \in WalkState
  /\ w.pc = "idle" => w = Scanner!Resting
  /\ w.pc # "idle" => w.attempt \in Nat \ {0}
  /\ w.attempt >= 1 => began.attempt >= began.scan + w.attempt - 1
  /\ w.pc = "list" => w.stack # <<>> /\ TopOf(w.stack).kind = "dir"
  /\ w.pc \in Busied => w.file.path \in SPath \ Scanner!Pruned

\* What the walk comes to is not pruned, and no directory of it was a file throughout.
WalkStays(w) ==
  /\ \A f \in FramesOf(w.stack) : f.stamp <= clock /\ f.path \notin Scanner!Pruned
                                   /\ (f.path \in SPath => None \in seen[f.path])
  /\ \A c \in w.names : Parent[c] \notin Scanner!Pruned

\* A file that is still what it was is read as what it is, and collected as that.
FileIsTrue(w) ==
  /\ w.pc \in Busied => w.file.pre <= clock
  /\ w.pc = "read" /\ Scanner!Unmoved(w.file) => w.file.fd = w.file.pre
  /\ w.pc = "recheck" /\ Scanner!Unmoved(w.file) => w.file.bytes = w.file.pre

ManifestIsSeen(w) ==
  \A p \in SPath : w.manifest[p] # None => p \notin Scanner!Pruned /\ w.manifest[p] \in seen[p]

\* The listing of a directory that is still what it was has an entry on the way
\* to everything that is there.
ListingIsWhole(w) ==
  w.pc = "list" /\ Scanner!SameDirectory(TopOf(w.stack)) =>
    /\ w.file.pre = TopOf(w.stack).stamp
    /\ \A p \in SPath \ Scanner!Pruned :
         TopOf(w.stack).path \in Above(p) \ {p} => None \in seen[p] \/ w.names \cap Above(p) # {}

\* What is missing so far was without a file, or is still to come, or the attempt
\* will be thrown away.
Doomed(w) == w.dirty \/ \E f \in FramesOf(w.stack) : f.kind = "check" /\ ~Scanner!SameDirectory(f)
Awaited(w, p) ==
  \/ w.pc = "root"
  \/ w.pc # "list" /\ w.names \cap Above(p) # {}
  \/ \E f \in FramesOf(w.stack) : f.kind = "dir" /\ f.path \in Above(p)
  \/ w.pc \in Busied /\ w.file.path = p
NothingIsMissed(w) ==
  w.pc # "idle" => \A p \in SPath \ Scanner!Pruned :
    None \in seen[p] \/ w.manifest[p] # None \/ Doomed(w) \/ Awaited(w, p)

\* An attempt that the tree has not moved under is clean.
QuietIsClean(w) ==
  w.pc # "idle" /\ clock = began.attempt =>
    /\ ~w.dirty
    /\ \A f \in FramesOf(w.stack) : Scanner!SameDirectory(f)
    /\ \A c \in w.names : disk[c].kind # "none"
    /\ w.pc \in Busied => Scanner!Unmoved(w.file)

WalkInv(w) ==
  /\ WalkShape(w) /\ WalkStays(w) /\ FileIsTrue(w) /\ ManifestIsSeen(w)
  /\ ListingIsWhole(w) /\ NothingIsMissed(w) /\ QuietIsClean(w)

ScanInv == TreeIsWhole /\ HistoryIsTrue /\ CacheIsTrue /\ ResultIsTrue /\ WalkInv(walk)

LEMMA StackGrows ==
  ASSUME NEW stack \in Seq(FrameState), NEW f \in FrameState
  PROVE  /\ Append(stack, f) \in Seq(FrameState) /\ Append(stack, f) # <<>>
         /\ FramesOf(Append(stack, f)) = FramesOf(stack) \cup {f}
         /\ TopOf(Append(stack, f)) = f
<1>1. /\ Append(stack, f) \in Seq(FrameState) /\ Append(stack, f) # <<>>
      /\ Len(stack) \in Nat /\ Len(Append(stack, f)) = Len(stack) + 1
      /\ \A i \in 1 .. Len(stack) : Append(stack, f)[i] = stack[i]
      /\ Append(stack, f)[Len(stack) + 1] = f
  BY AppendProperties, LenProperties
<1>2. FramesOf(Append(stack, f)) = FramesOf(stack) \cup {f}
  <2>1. 1 .. Len(stack) + 1 = (1 .. Len(stack)) \cup {Len(stack) + 1} BY <1>1
  <2>2. QED BY <1>1, <2>1 DEF FramesOf
<1>3. QED BY <1>1, <1>2 DEF TopOf

LEMMA StackShrinks ==
  ASSUME NEW stack \in Seq(FrameState), stack # <<>>
  PROVE  /\ Scanner!Pop(stack) \in Seq(FrameState)
         /\ TopOf(stack) \in FrameState
         /\ FramesOf(stack) = FramesOf(Scanner!Pop(stack)) \cup {TopOf(stack)}
<1>1. Len(stack) \in Nat \ {0} /\ DOMAIN stack = 1 .. Len(stack)
  BY LenProperties, EmptySeq
<1>2. /\ Scanner!Pop(stack) \in Seq(FrameState) /\ Len(Scanner!Pop(stack)) = Len(stack) - 1
      /\ \A i \in 1 .. Len(stack) - 1 : Scanner!Pop(stack)[i] = stack[i]
  BY <1>1 DEF Scanner!Pop
<1>3. TopOf(stack) \in FrameState BY <1>1 DEF TopOf
<1>4. 1 .. Len(stack) = (1 .. Len(stack) - 1) \cup {Len(stack)} BY <1>1
<1>5. QED BY <1>2, <1>3, <1>4 DEF FramesOf, TopOf

LEMMA NoStack == FramesOf(<<>>) = {}
BY DEF FramesOf

LEMMA Beneath ==
  ASSUME TreeIsWhole, NEW p \in SPath, NEW a \in Above(p), a # p, disk[a].kind # "dir"
  PROVE  disk[p].kind = "none"
<1>1. SUFFICES ASSUME disk[p].kind # "none" PROVE FALSE
  OBVIOUS
<1> DEFINE S == {n \in Node : disk[n].kind = "dir"} \cup {p}
<1>2. S \in SUBSET Node /\ p \in S BY DEF SPath
<1>3. \A q \in S \ {ScanRoot} : Parent[q] \in S
  BY <1>1, ScanAssumption DEF TreeIsWhole, SPath
<1>4. Above(p) \subseteq S
  <2> HIDE DEF S
  <2>1. QED BY <1>2, <1>3, AboveLeast
<1>5. QED BY <1>4

\* A step of another program: every entry it touches has a fresh stamp or is gone.
TreeMoves ==
  /\ clock' = clock + 1 /\ TreeIsWhole'
  /\ \A m \in Node : disk'[m] = disk[m] \/ disk'[m].stamp = clock + 1 \/ disk'[m].kind = "none"
  /\ seen' = IF walk.pc = "idle" THEN seen
             ELSE [p \in SPath |-> seen[p] \cup {Scanner!ContentOf(disk', p)}]
  /\ UNCHANGED <<began, scans, walk, cache, result>>

EntryState == [kind : {"none", "file", "dir", "odd"}, stamp : Nat]

LEMMA ChangeMoves ==
  ASSUME TreeIsWhole, NEW n \in Node, NEW thing \in EntryState, NEW inPlace \in BOOLEAN,
         Scanner!Change(n, thing, inPlace),
         thing.stamp = clock + 1 \/ thing = [kind |-> "none", stamp |-> 0],
         thing.kind # "dir" => \A p \in SPath : Parent[p] = n => disk[p].kind = "none",
         thing.kind # "none" => n = ScanRoot \/ disk[Parent[n]].kind = "dir"
  PROVE  TreeMoves
<1> DEFINE moved(m) == IF m = n THEN thing
                       ELSE IF ~inPlace /\ n # ScanRoot /\ m = Parent[n] THEN [disk[m] EXCEPT !.stamp = clock + 1]
                       ELSE disk[m]
<1>1. /\ clock' = clock + 1 /\ disk' = [m \in Node |-> moved(m)]
      /\ seen' = IF walk.pc = "idle" THEN seen
                 ELSE [p \in SPath |-> seen[p] \cup {Scanner!ContentOf(disk', p)}]
      /\ UNCHANGED <<began, scans, walk, cache, result>>
  BY DEF Scanner!Change, Scanner!Path, SPath
<1>2. /\ disk \in [Node -> EntryState] /\ clock \in Nat
      /\ \A m \in Node : disk[m].stamp <= clock
      /\ \A p \in SPath : disk[p].kind # "none" => disk[Parent[p]].kind = "dir"
  BY DEF TreeIsWhole, EntryState
<1>3. ASSUME NEW m \in Node
      PROVE  /\ moved(m) \in EntryState /\ moved(m).stamp <= clock + 1
             /\ m # n => moved(m).kind = disk[m].kind
             /\ moved(m) = disk[m] \/ moved(m).stamp = clock + 1 \/ moved(m).kind = "none"
  <2>1. CASE m = n BY <2>1, <1>2
  <2>2. CASE m # n /\ ~inPlace /\ n # ScanRoot /\ m = Parent[n]
    <3>1. moved(m) = [disk[m] EXCEPT !.stamp = clock + 1] BY <2>2
    <3>2. disk[m] \in EntryState BY <1>2
    <3>3. QED BY <2>2, <3>1, <3>2, <1>2 DEF EntryState
  <2>3. CASE m # n /\ ~(~inPlace /\ n # ScanRoot /\ m = Parent[n])
    <3>1. moved(m) = disk[m] BY <2>3
    <3>2. disk[m] \in EntryState /\ disk[m].stamp <= clock /\ disk[m].stamp \in Nat BY <1>2 DEF EntryState
    <3> HIDE DEF moved
    <3>3. QED BY <2>3, <3>1, <3>2, <1>2
  <2>4. QED BY <2>1, <2>2, <2>3
<1>4. \A m \in Node : disk'[m] = moved(m)
  <2> HIDE DEF moved
  <2>1. QED BY <1>1
<1>5. disk' \in [Node -> EntryState]
  <2>1. \A m \in Node : moved(m) \in EntryState BY <1>3
  <2> HIDE DEF moved
  <2>2. QED BY <2>1, <1>1
<1>6. moved(n) = thing
  OBVIOUS
<1>7. ASSUME NEW p \in SPath, disk'[p].kind # "none" PROVE disk'[Parent[p]].kind = "dir"
  <2>0. p \in Node /\ Parent[p] \in Node /\ Parent[p] # p
    <3>1. p \in Node /\ Parent[p] \in Node BY ScanAssumption DEF SPath
    <3>2. {p} \in SUBSET (Node \ {ScanRoot}) /\ {p} # {} BY DEF SPath
    <3>3. \E q \in {p} : Parent[q] \notin {p} BY <3>2, ScanAssumption
    <3>4. QED BY <3>1, <3>3
  <2> HIDE DEF moved
  <2>1. CASE p = n
    <3>1. thing.kind # "none" BY <2>1, <1>4, <1>6, <1>7, <2>0
    <3>2. disk[Parent[p]].kind = "dir" BY <3>1, <2>1 DEF SPath
    <3>3. QED BY <2>0, <2>1, <3>2, <1>3, <1>4
  <2>2. CASE p # n
    <3>1. disk[p].kind # "none" BY <2>0, <2>2, <1>3, <1>4, <1>7
    <3>2. disk[Parent[p]].kind = "dir" BY <3>1, <1>2
    <3>3. CASE Parent[p] = n
      <4>1. thing.kind = "dir" BY <3>3, <3>1
      <4>2. QED BY <4>1, <3>3, <1>4, <1>6
    <3>4. CASE Parent[p] # n BY <3>4, <3>2, <2>0, <1>3, <1>4
    <3>5. QED BY <3>3, <3>4
  <2>3. QED BY <2>1, <2>2
<1>8. \A m \in Node : /\ disk'[m].stamp <= clock'
                      /\ disk'[m] = disk[m] \/ disk'[m].stamp = clock + 1 \/ disk'[m].kind = "none"
  <2> HIDE DEF moved
  <2>1. QED BY <1>1, <1>3, <1>4
<1>9. TreeIsWhole'
  <2>1. clock' \in Nat BY <1>1, <1>2
  <2> HIDE DEF moved
  <2>2. QED BY <2>1, <1>5, <1>7, <1>8 DEF TreeIsWhole, EntryState
<1>10. QED BY <1>1, <1>8, <1>9 DEF TreeMoves

LEMMA OthersMove ==
  ASSUME TreeIsWhole,
         \/ \E n \in Node : Scanner!Create(n) \/ Scanner!Delete(n)
         \/ \E p \in SPath : Scanner!Write(p) \/ Scanner!Replace(p)
  PROVE  TreeMoves
<1>1. /\ disk \in [Node -> EntryState] /\ clock \in Nat
      /\ \A p \in SPath : disk[p].kind # "none" => disk[Parent[p]].kind = "dir"
  BY DEF TreeIsWhole, EntryState
<1>2. \A k \in {"file", "dir", "odd"} : /\ Scanner!Fresh(k) \in EntryState /\ Scanner!Fresh(k).kind = k
                                        /\ Scanner!Fresh(k).stamp = clock + 1
  BY <1>1 DEF Scanner!Fresh, EntryState
<1>3. /\ Scanner!Gone \in EntryState /\ Scanner!Gone = [kind |-> "none", stamp |-> 0]
      /\ Scanner!Gone.kind = "none"
  BY DEF Scanner!Gone, EntryState
<1>4. ASSUME NEW p \in SPath, Scanner!Write(p) PROVE TreeMoves
  <2>1. disk[p].kind = "file" /\ Scanner!Change(p, Scanner!Fresh("file"), TRUE) /\ p \in Node
    BY <1>4 DEF Scanner!Write, SPath
  <2>2. QED BY <2>1, <1>1, <1>2, ChangeMoves
<1>5. ASSUME NEW p \in SPath, Scanner!Replace(p) PROVE TreeMoves
  <2>1. disk[p].kind \in {"file", "odd"} /\ p \in Node
    BY <1>5 DEF Scanner!Replace, SPath
  <2>2. PICK k \in {"file", "odd"} : Scanner!Change(p, Scanner!Fresh(k), FALSE)
    BY <1>5 DEF Scanner!Replace
  <2>3. QED BY <2>1, <2>2, <1>1, <1>2, ChangeMoves
<1>6. ASSUME NEW n \in Node, Scanner!Create(n) PROVE TreeMoves
  <2>1. disk[n] = Scanner!Gone /\ (n # ScanRoot => disk[Parent[n]].kind = "dir")
    BY <1>6 DEF Scanner!Create
  <2>2. PICK k \in {"file", "dir", "odd"} : Scanner!Change(n, Scanner!Fresh(k), FALSE)
    BY <1>6 DEF Scanner!Create
  <2>3. \A p \in SPath : Parent[p] = n => disk[p].kind = "none"
    BY <2>1, <1>1, <1>3
  <2>4. QED BY <2>1, <2>2, <2>3, <1>2, ChangeMoves
<1>7. ASSUME NEW n \in Node, Scanner!Delete(n) PROVE TreeMoves
  <2>1. Scanner!Entries(n) = {} /\ Scanner!Change(n, Scanner!Gone, FALSE)
    BY <1>7 DEF Scanner!Delete
  <2>2. \A p \in SPath : Parent[p] = n => disk[p].kind = "none"
    BY <2>1 DEF Scanner!Entries, Scanner!Path, SPath
  <2>3. QED BY <2>1, <2>2, <1>3, ChangeMoves
<1>8. QED BY <1>4, <1>5, <1>6, <1>7

\* What has moved never looks again as it did.
LEMMA MovesAreSeen ==
  ASSUME TreeIsWhole, TreeMoves
  PROVE  /\ \A f \in FrameState : f.stamp <= clock /\ Scanner!SameDirectory(f)' => Scanner!SameDirectory(f)
         /\ \A f \in [path : Node, pre : Nat, fd : Nat, bytes : Nat] :
              f.pre <= clock /\ Scanner!Unmoved(f)' => Scanner!Unmoved(f)
<1>1. clock \in Nat /\ \A m \in Node : disk'[m] = disk[m] \/ disk'[m].stamp = clock + 1 \/ disk'[m].kind = "none"
  BY DEF TreeIsWhole, TreeMoves
<1>2. ASSUME NEW f \in FrameState, f.stamp <= clock, Scanner!SameDirectory(f)' PROVE Scanner!SameDirectory(f)
  <2>1. f.path \in Node /\ f.stamp \in Nat BY DEF FrameState
  <2>2. disk'[f.path].kind = "dir" /\ disk'[f.path].stamp = f.stamp BY <1>2 DEF Scanner!SameDirectory
  <2>3. disk'[f.path] = disk[f.path] BY <1>1, <1>2, <2>1, <2>2
  <2>4. QED BY <2>2, <2>3 DEF Scanner!SameDirectory
<1>3. ASSUME NEW f \in [path : Node, pre : Nat, fd : Nat, bytes : Nat], f.pre <= clock, Scanner!Unmoved(f)'
      PROVE  Scanner!Unmoved(f)
  <2>1. f.path \in Node /\ f.pre \in Nat OBVIOUS
  <2>2. disk'[f.path] = [kind |-> "file", stamp |-> f.pre] BY <1>3 DEF Scanner!Unmoved
  <2>3. disk'[f.path] = disk[f.path] BY <1>1, <1>3, <2>1, <2>2
  <2>4. QED BY <2>2, <2>3 DEF Scanner!Unmoved
<1>4. QED BY <1>2, <1>3

LEMMA MovesKeepScan ==
  ASSUME ScanInv, TreeMoves
  PROVE  ScanInv'
<1> USE DEF ScanInv
<1>1. /\ walk' = walk /\ began' = began /\ cache' = cache /\ result' = result
      /\ clock' = clock + 1 /\ clock \in Nat /\ TreeIsWhole' /\ TreeIsWhole
      /\ began \in [scan : Nat, attempt : Nat] /\ began.attempt <= clock
      /\ walk \in WalkState
  BY DEF TreeMoves, TreeIsWhole, HistoryIsTrue, WalkInv, WalkShape
<1>2. \A p \in SPath : Scanner!ContentOf(disk', p) \in Nat \cup {None}
  <2>1. \A p \in SPath : disk'[p] \in [kind : {"none", "file", "dir", "odd"}, stamp : Nat]
    BY <1>1 DEF TreeIsWhole, SPath
  <2>2. QED BY <2>1 DEF Scanner!ContentOf
<1>3. /\ seen' \in [SPath -> SUBSET (Nat \cup {None})]
      /\ \A p \in SPath : seen[p] \subseteq seen'[p]
      /\ walk.pc = "idle" => seen' = seen
      /\ walk.pc # "idle" => \A p \in SPath : Scanner!ContentOf(disk', p) \in seen'[p]
  <2>1. seen \in [SPath -> SUBSET (Nat \cup {None})] BY DEF HistoryIsTrue
  <2> DEFINE now_(p) == Scanner!ContentOf(disk', p)
  <2>2. seen' = IF walk.pc = "idle" THEN seen ELSE [p \in SPath |-> seen[p] \cup {now_(p)}]
    BY DEF TreeMoves
  <2>3. \A p \in SPath : now_(p) \in Nat \cup {None} BY <1>2
  <2> HIDE DEF now_
  <2>4. /\ seen' \in [SPath -> SUBSET (Nat \cup {None})]
        /\ \A p \in SPath : seen[p] \subseteq seen'[p]
        /\ walk.pc = "idle" => seen' = seen
        /\ walk.pc # "idle" => \A p \in SPath : now_(p) \in seen'[p]
    BY <2>1, <2>2, <2>3
  <2>5. QED BY <2>4 DEF now_
<1>4. HistoryIsTrue'
  <2>1. (\A p \in SPath : Scanner!ContentOf(disk, p) \in seen[p])' <=>
        \A p \in SPath : Scanner!ContentOf(disk', p) \in seen'[p]
    BY DEF Scanner!ContentOf
  <2>2. QED BY <2>1, <1>1, <1>3 DEF HistoryIsTrue
<1>5. CacheIsTrue'
  BY <1>1 DEF CacheIsTrue
<1>6. ResultIsTrue'
  <2>1. ASSUME result.how = "ok", NEW p \in SPath
        PROVE  IF p \in Scanner!Pruned THEN result.manifest[p] = None ELSE result.manifest[p] \in seen'[p]
    BY <1>3, <2>1 DEF ResultIsTrue
  <2>2. result.how = "unstable" => clock + 1 >= began.scan + MaxScanAttempts
    BY <1>1, ScanAssumption DEF ResultIsTrue
  <2>3. walk.pc # "idle" => result.how \notin {"ok", "unstable"}
    BY DEF ResultIsTrue
  <2>4. (Scanner!Pruned)' = Scanner!Pruned
    BY DEF Scanner!Pruned, Scanner!Path
  <2>5. QED BY <1>1, <2>1, <2>2, <2>3, <2>4 DEF ResultIsTrue
<1>7. (Scanner!Pruned)' = Scanner!Pruned
  BY DEF Scanner!Pruned, Scanner!Path
<1>8. \A f \in FramesOf(walk.stack) : f \in FrameState
  <2>1. walk.stack \in Seq(FrameState) BY <1>1 DEF WalkState
  <2>2. \A i \in 1 .. Len(walk.stack) : walk.stack[i] \in FrameState BY <2>1
  <2>3. QED BY <2>2 DEF FramesOf
<1>9. \A f \in FramesOf(walk.stack) : f.stamp <= clock /\ f.stamp \in Nat
  BY <1>8 DEF WalkInv, WalkStays, FrameState
<1>10. \A f \in FramesOf(walk.stack) : Scanner!SameDirectory(f)' => Scanner!SameDirectory(f)
  BY <1>1, <1>8, <1>9, MovesAreSeen
<1>11. walk.file \in [path : Node, pre : Nat, fd : Nat, bytes : Nat]
  BY <1>1 DEF WalkState
<1>12. walk.pc \in Busied /\ Scanner!Unmoved(walk.file)' => Scanner!Unmoved(walk.file)
  BY <1>1, <1>11, MovesAreSeen DEF WalkInv, FileIsTrue
<1>13. WalkShape(walk)'
  <2>1. (Scanner!Resting)' = Scanner!Resting
    BY DEF Scanner!Resting, Scanner!NoFile, Scanner!Empty, Scanner!Path
  <2>2. WalkShape(walk) BY DEF WalkInv
  <2>3. QED BY <2>1, <2>2, <1>1, <1>7 DEF WalkShape
<1>14. WalkStays(walk)'
  <2>1. \A f \in FramesOf(walk.stack) : f.stamp <= clock + 1 BY <1>1, <1>9
  <2>2. QED BY <2>1, <1>1, <1>3, <1>7 DEF WalkInv, WalkStays
<1>15. FileIsTrue(walk)'
  <2>1. walk.pc \in Busied => walk.file.pre <= clock + 1
    <3>1. walk.file.pre \in Nat BY <1>11
    <3>2. QED BY <3>1, <1>1 DEF WalkInv, FileIsTrue
  <2>2. /\ walk.pc = "read" /\ Scanner!Unmoved(walk.file)' => walk.file.fd = walk.file.pre
        /\ walk.pc = "recheck" /\ Scanner!Unmoved(walk.file)' => walk.file.bytes = walk.file.pre
    BY <1>12 DEF WalkInv, FileIsTrue, Busied
  <2>3. (Scanner!Unmoved(walk.file))' = (Scanner!Unmoved(walk.file)') OBVIOUS
  <2>4. QED BY <2>1, <2>2, <1>1 DEF FileIsTrue
<1>16. ManifestIsSeen(walk)'
  BY <1>1, <1>3, <1>7 DEF WalkInv, ManifestIsSeen
<1>17. ListingIsWhole(walk)'
  <2>1. SUFFICES ASSUME walk.pc = "list", Scanner!SameDirectory(TopOf(walk.stack))'
                 PROVE  /\ walk.file.pre = TopOf(walk.stack).stamp
                        /\ \A p \in SPath \ Scanner!Pruned :
                             TopOf(walk.stack).path \in Above(p) \ {p} =>
                               None \in seen'[p] \/ walk.names \cap Above(p) # {}
    BY <1>1, <1>7 DEF ListingIsWhole, Above
  <2>2. TopOf(walk.stack) \in FramesOf(walk.stack)
    <3>1. walk.stack \in Seq(FrameState) /\ walk.stack # <<>>
      BY <1>1, <2>1 DEF WalkState, WalkInv, WalkShape
    <3>2. QED BY <3>1, StackShrinks
  <2>3. Scanner!SameDirectory(TopOf(walk.stack))
    <3> DEFINE top == TopOf(walk.stack)
    <3>1. top' = top BY <1>1 DEF TopOf
    <3>2. disk'[top.path].kind = "dir" /\ disk'[top.path].stamp = top.stamp
      BY <2>1, <3>1 DEF Scanner!SameDirectory
    <3>3. top \in FramesOf(walk.stack) BY <2>2
    <3> HIDE DEF top
    <3>4. Scanner!SameDirectory(top) BY <3>2, <3>3, <1>10 DEF Scanner!SameDirectory
    <3>5. QED BY <3>4 DEF top
  <2>4. QED BY <2>1, <2>3, <1>3 DEF WalkInv, ListingIsWhole
<1>18. NothingIsMissed(walk)'
  <2>1. SUFFICES ASSUME walk.pc # "idle", NEW p \in SPath \ Scanner!Pruned
                 PROVE  None \in seen'[p] \/ walk.manifest[p] # None \/ Doomed(walk)' \/ Awaited(walk, p)'
    BY <1>1, <1>7 DEF NothingIsMissed
  <2>2. None \in seen[p] \/ walk.manifest[p] # None \/ Doomed(walk) \/ Awaited(walk, p)
    BY <2>1 DEF WalkInv, NothingIsMissed
  <2>3. Awaited(walk, p) => Awaited(walk, p)'
    BY <1>1 DEF Awaited, Above
  <2>4. Doomed(walk) => Doomed(walk)'
    BY <1>1, <1>10 DEF Doomed
  <2>5. QED BY <2>2, <2>3, <2>4, <1>3
<1>19. QuietIsClean(walk)'
  BY <1>1 DEF QuietIsClean
<1>20. QED BY <1>1, <1>4, <1>5, <1>6, <1>13, <1>14, <1>15, <1>16, <1>17, <1>18, <1>19 DEF WalkInv

\* The steps of the walk.
Untouched == UNCHANGED <<disk, clock, seen, began, scans, cache, result>>

LEMMA SameWalk ==
  ASSUME WalkInv(walk'), disk' = disk, clock' = clock, seen' = seen, began' = began
  PROVE  WalkInv(walk)'
<1>1. (Scanner!Pruned)' = Scanner!Pruned BY DEF Scanner!Pruned, Scanner!Path
<1>2. (Scanner!Resting)' = Scanner!Resting
  BY DEF Scanner!Resting, Scanner!NoFile, Scanner!Empty, Scanner!Path
<1>3. WalkShape(walk)' BY <1>1, <1>2 DEF WalkInv, WalkShape
<1>4. WalkStays(walk)' BY <1>1 DEF WalkInv, WalkStays
<1>5. FileIsTrue(walk)' BY DEF WalkInv, FileIsTrue, Scanner!Unmoved
<1>6. ManifestIsSeen(walk)' BY <1>1 DEF WalkInv, ManifestIsSeen
<1>7. ListingIsWhole(walk)'
  BY <1>1 DEF WalkInv, ListingIsWhole, Scanner!SameDirectory, Above
<1>8. NothingIsMissed(walk)'
  <2>1. Doomed(walk)' <=> Doomed(walk') BY DEF Doomed, Scanner!SameDirectory
  <2>2. \A p : Awaited(walk, p)' <=> Awaited(walk', p) BY DEF Awaited, Above
  <2>3. QED BY <2>1, <2>2, <1>1 DEF WalkInv, NothingIsMissed
<1>9. QuietIsClean(walk)'
  BY DEF WalkInv, QuietIsClean, Scanner!SameDirectory, Scanner!Unmoved
<1>10. QED BY <1>3, <1>4, <1>5, <1>6, <1>7, <1>8, <1>9 DEF WalkInv

LEMMA WalkIsKept ==
  ASSUME ScanInv, Untouched, walk.pc # "idle", WalkInv(walk')
  PROVE  ScanInv'
<1>1. disk' = disk /\ clock' = clock /\ seen' = seen /\ began' = began /\ cache' = cache /\ result' = result
  BY DEF Untouched
<1>2. TreeIsWhole' BY <1>1 DEF ScanInv, TreeIsWhole
<1>3. HistoryIsTrue' BY <1>1 DEF ScanInv, HistoryIsTrue, Scanner!ContentOf
<1>4. CacheIsTrue' BY <1>1 DEF ScanInv, CacheIsTrue
<1>5. (Scanner!Pruned)' = Scanner!Pruned BY DEF Scanner!Pruned, Scanner!Path
<1>6. ResultIsTrue' BY <1>1, <1>5 DEF ScanInv, ResultIsTrue
<1>7. WalkInv(walk)' BY <1>1, SameWalk
<1>8. QED BY <1>2, <1>3, <1>4, <1>6, <1>7 DEF ScanInv

LEMMA RestingFacts ==
  LET w == Scanner!Resting
  IN  /\ w \in WalkState /\ w.pc = "idle" /\ w.attempt = 0 /\ w.stack = <<>> /\ w.names = {}
      /\ ~w.dirty /\ \A p \in SPath : w.manifest[p] = None
<1>1. /\ ScanRoot \in Node /\ <<>> \in Seq(FrameState) /\ Scanner!Path = SPath
      /\ [p \in SPath |-> None] \in [SPath -> Nat \cup {None}]
  BY ScanAssumption DEF Scanner!Path, SPath
<1>2. QED BY <1>1 DEF Scanner!Resting, Scanner!NoFile, Scanner!Empty, WalkState

LEMMA RestingWalks == WalkInv(Scanner!Resting)
BY RestingFacts, NoStack
   DEF WalkInv, WalkShape, WalkStays, FileIsTrue, ManifestIsSeen, ListingIsWhole, NothingIsMissed, QuietIsClean, Busied

LEMMA FinishKeeps ==
  ASSUME ScanInv, NEW how, Scanner!Finish(how),
         how = "ok" => \A p \in SPath : IF p \in Scanner!Pruned THEN walk.manifest[p] = None
                                        ELSE walk.manifest[p] \in seen[p],
         how = "unstable" => clock >= began.scan + MaxScanAttempts
  PROVE  ScanInv'
<1>1. /\ walk' = Scanner!Resting /\ result'.how = how
      /\ result'.manifest = IF how = "ok" THEN walk.manifest ELSE Scanner!Empty
      /\ disk' = disk /\ clock' = clock /\ seen' = seen /\ began' = began /\ cache' = cache
  BY DEF Scanner!Finish, Scanner!treeVars
<1>2. TreeIsWhole' BY <1>1 DEF ScanInv, TreeIsWhole
<1>3. HistoryIsTrue' BY <1>1, RestingFacts DEF ScanInv, HistoryIsTrue
<1>4. CacheIsTrue' BY <1>1 DEF ScanInv, CacheIsTrue
<1>5. (Scanner!Pruned)' = Scanner!Pruned BY DEF Scanner!Pruned, Scanner!Path
<1>6. ResultIsTrue' BY <1>1, <1>5, RestingFacts DEF ResultIsTrue
<1>7. (Scanner!Resting)' = Scanner!Resting
  BY DEF Scanner!Resting, Scanner!NoFile, Scanner!Empty, Scanner!Path
<1>8. WalkInv(walk)'
  BY <1>1, <1>7, RestingFacts, NoStack
     DEF WalkInv, WalkShape, WalkStays, FileIsTrue, ManifestIsSeen, ListingIsWhole, NothingIsMissed, QuietIsClean, Busied
<1>9. QED BY <1>2, <1>3, <1>4, <1>6, <1>8 DEF ScanInv

LEMMA BeginKeeps ==
  ASSUME ScanInv, NEW n \in Nat \ {0}, Scanner!BeginAttempt(n),
         result'.how \notin {"ok", "unstable"},
         n # 1 => clock >= began.scan + n - 1
  PROVE  ScanInv'
<1>1. /\ walk' = [Scanner!Resting EXCEPT !.pc = "root", !.attempt = n]
      /\ seen' = [p \in SPath |-> {Scanner!ContentOf(disk, p)}]
      /\ began' = [scan |-> IF n = 1 THEN clock ELSE began.scan, attempt |-> clock]
      /\ disk' = disk /\ clock' = clock /\ cache' = cache
  BY DEF Scanner!BeginAttempt, Scanner!Clean, Scanner!treeVars, Scanner!Path, SPath
<1>2. /\ walk'.pc = "root" /\ walk'.attempt = n /\ walk' \in WalkState /\ walk'.stack = <<>>
      /\ walk'.names = {} /\ ~walk'.dirty /\ \A p \in SPath : walk'.manifest[p] = None
  BY <1>1, RestingFacts DEF WalkState
<1>3. TreeIsWhole' /\ clock \in Nat BY <1>1 DEF ScanInv, TreeIsWhole
<1>4. \A p \in SPath : Scanner!ContentOf(disk, p) \in Nat \cup {None}
  <2>1. \A p \in SPath : disk[p] \in [kind : {"none", "file", "dir", "odd"}, stamp : Nat]
    BY DEF ScanInv, TreeIsWhole, SPath
  <2>2. QED BY <2>1 DEF Scanner!ContentOf
<1>5. HistoryIsTrue'
  <2>1. seen' \in [SPath -> SUBSET (Nat \cup {None})] BY <1>1, <1>4
  <2>2. began' \in [scan : Nat, attempt : Nat] /\ began'.attempt = clock
    BY <1>1, <1>3 DEF ScanInv, HistoryIsTrue
  <2>3. \A p \in SPath : Scanner!ContentOf(disk, p) \in seen'[p] BY <1>1
  <2>4. \A p \in SPath : Scanner!ContentOf(disk, p)' = Scanner!ContentOf(disk, p)
    BY <1>1 DEF Scanner!ContentOf
  <2>5. QED BY <2>1, <2>2, <2>3, <2>4, <1>1, <1>3 DEF HistoryIsTrue
<1>6. CacheIsTrue' BY <1>1 DEF ScanInv, CacheIsTrue
<1>7. ResultIsTrue' BY DEF ResultIsTrue
<1>8. WalkShape(walk)'
  <2>1. began'.attempt = clock /\ began'.scan = IF n = 1 THEN clock ELSE began.scan
    BY <1>1
  <2>2. clock >= began'.scan + n - 1 BY <2>1, <1>3
  <2>3. QED BY <1>2, <2>1, <2>2 DEF WalkShape, Busied
<1>9. WalkStays(walk)' /\ FileIsTrue(walk)' /\ ManifestIsSeen(walk)' /\ ListingIsWhole(walk)' /\ QuietIsClean(walk)'
  BY <1>2, NoStack DEF WalkStays, FileIsTrue, ManifestIsSeen, ListingIsWhole, QuietIsClean, Busied
<1>10. NothingIsMissed(walk)' BY <1>2 DEF NothingIsMissed, Awaited
<1>11. QED BY <1>3, <1>5, <1>6, <1>7, <1>8, <1>9, <1>10 DEF ScanInv, WalkInv

LEMMA CloseOutKeeps == ScanInv /\ (Scanner!Scan \/ Scanner!CloseOut) => ScanInv'
<1>1. ASSUME ScanInv, Scanner!Scan PROVE ScanInv'
  <2>1. Scanner!BeginAttempt(1) /\ result'.how = None BY <1>1 DEF Scanner!Scan
  <2>2. QED BY <1>1, <2>1, ScanAssumption, BeginKeeps
<1>2. ASSUME ScanInv, Scanner!CloseOut PROVE ScanInv'
  <2>1. walk.pc = "walk" /\ walk.stack = <<>> /\ walk.names = {} BY <1>2 DEF Scanner!CloseOut
  <2>2. /\ walk.attempt \in Nat \ {0} /\ began.attempt >= began.scan + walk.attempt - 1
        /\ walk.dirty => clock > began.attempt
        /\ clock \in Nat /\ began.scan \in Nat /\ began.attempt \in Nat
    <3>1. walk.attempt \in Nat \ {0} /\ began.attempt >= began.scan + walk.attempt - 1
      BY <1>2, <2>1 DEF ScanInv, WalkInv, WalkShape
    <3>2. clock \in Nat /\ began.scan \in Nat /\ began.attempt \in Nat /\ began.attempt <= clock
      BY <1>2 DEF ScanInv, TreeIsWhole, HistoryIsTrue
    <3>3. walk.dirty => clock # began.attempt
      BY <1>2, <2>1 DEF ScanInv, WalkInv, QuietIsClean
    <3>4. QED BY <3>1, <3>2, <3>3
  <2>3. CASE ~walk.dirty /\ Scanner!Finish("ok")
    <3>1. ASSUME NEW p \in SPath PROVE IF p \in Scanner!Pruned THEN walk.manifest[p] = None
                                       ELSE walk.manifest[p] \in seen[p]
      <4>1. walk.manifest[p] # None => p \notin Scanner!Pruned /\ walk.manifest[p] \in seen[p]
        BY <1>2 DEF ScanInv, WalkInv, ManifestIsSeen
      <4>2. p \notin Scanner!Pruned => None \in seen[p] \/ walk.manifest[p] # None
        <5>1. ~Doomed(walk) /\ ~Awaited(walk, p)
          BY <2>1, <2>3, NoStack DEF Doomed, Awaited, Busied
        <5>2. QED BY <1>2, <2>1, <5>1 DEF ScanInv, WalkInv, NothingIsMissed
      <4>3. QED BY <4>1, <4>2
    <3>2. QED BY <1>2, <2>3, <3>1, FinishKeeps
  <2>4. CASE walk.dirty /\ walk.attempt = MaxScanAttempts /\ Scanner!Finish("unstable")
    <3>1. clock >= began.scan + MaxScanAttempts BY <2>2, <2>4
    <3>2. QED BY <1>2, <2>4, <3>1, FinishKeeps
  <2>5. CASE walk.dirty /\ Scanner!BeginAttempt(walk.attempt + 1) /\ result' = result
    <3>1. clock >= began.scan + (walk.attempt + 1) - 1 /\ walk.attempt + 1 \in Nat \ {0} BY <2>2, <2>5
    <3>2. result'.how \notin {"ok", "unstable"} BY <1>2, <2>1, <2>5 DEF ScanInv, ResultIsTrue
    <3>3. QED BY <1>2, <2>5, <3>1, <3>2, BeginKeeps
  <2>6. QED BY <1>2, <2>3, <2>4, <2>5 DEF Scanner!CloseOut
<1>3. QED BY <1>1, <1>2

LEMMA WalkStep ==
  ASSUME NEW w, Scanner!Walk(w)
  PROVE  walk' = w /\ Untouched
BY DEF Scanner!Walk, Scanner!treeVars, Untouched

LEMMA ScanFacts ==
  ASSUME ScanInv
  PROVE  /\ walk \in WalkState /\ WalkShape(walk) /\ WalkStays(walk) /\ FileIsTrue(walk) /\ ManifestIsSeen(walk)
         /\ ListingIsWhole(walk) /\ NothingIsMissed(walk) /\ QuietIsClean(walk)
         /\ disk \in [Node -> [kind : {"none", "file", "dir", "odd"}, stamp : Nat]]
         /\ clock \in Nat /\ began \in [scan : Nat, attempt : Nat] /\ began.attempt <= clock
         /\ walk.stack \in Seq(FrameState) /\ walk.names \subseteq SPath /\ walk.dirty \in BOOLEAN
         /\ walk.file \in [path : Node, pre : Nat, fd : Nat, bytes : Nat]
BY DEF ScanInv, WalkInv, WalkShape, WalkState, TreeIsWhole, HistoryIsTrue

LEMMA FrameFacts ==
  ASSUME ScanInv, NEW k \in {"dir", "check"}, NEW n \in Node
  PROVE  LET f == Scanner!Frame(k, n)
         IN  /\ f \in FrameState /\ f.kind = k /\ f.path = n /\ f.stamp <= clock
             /\ disk[n].kind = "dir" => Scanner!SameDirectory(f)
<1>1. disk[n].stamp \in Nat /\ disk[n].stamp <= clock
  BY DEF ScanInv, TreeIsWhole
<1>2. QED BY <1>1 DEF Scanner!Frame, FrameState, Scanner!SameDirectory

LEMMA RootKeeps == ScanInv /\ Scanner!LstatRoot => ScanInv'
<1> SUFFICES ASSUME ScanInv, Scanner!LstatRoot PROVE ScanInv'
    OBVIOUS
<1>1. walk.pc = "root" BY DEF Scanner!LstatRoot
<1>2. CASE disk[ScanRoot].kind # "dir"
  <2>1. Scanner!Finish("directory_missing") BY <1>2 DEF Scanner!LstatRoot
  <2>2. QED BY <2>1, FinishKeeps
<1>3. CASE disk[ScanRoot].kind = "dir"
  <2> DEFINE f == Scanner!Frame("dir", ScanRoot)
             w == [walk EXCEPT !.pc = "walk", !.stack = <<f>>]
  <2>1. walk' = w /\ Untouched
    <3>1. Scanner!Walk(w) BY <1>3 DEF Scanner!LstatRoot
    <3>2. QED BY <3>1, WalkStep
  <2>2. /\ f \in FrameState /\ f.kind = "dir" /\ f.path = ScanRoot /\ f.stamp <= clock
        /\ Scanner!SameDirectory(f)
    BY <1>3, ScanAssumption, FrameFacts
  <2>3. ScanRoot \notin Scanner!Pruned /\ ScanRoot \notin SPath
    BY PrunedFacts DEF SPath
  <2> HIDE DEF f
  <2>4. <<f>> \in Seq(FrameState) /\ FramesOf(<<f>>) = {f}
    <3>1. <<f>> \in Seq(FrameState) /\ Len(<<f>>) = 1 /\ <<f>>[1] = f BY <2>2
    <3>2. 1 .. 1 = {1} OBVIOUS
    <3>3. QED BY <3>1, <3>2 DEF FramesOf
  <2>5. /\ w \in WalkState /\ w.pc = "walk" /\ FramesOf(w.stack) = {f} /\ w.names = walk.names
        /\ w.dirty = walk.dirty /\ w.manifest = walk.manifest /\ w.attempt = walk.attempt
    BY <2>4, ScanFacts DEF WalkState
  <2> HIDE DEF w
  <2>6. WalkInv(w)
    <3>1. WalkShape(w) BY <2>5, <1>1, ScanFacts DEF WalkShape, Busied
    <3>2. WalkStays(w) BY <2>2, <2>3, <2>5, ScanFacts DEF WalkStays
    <3>3. FileIsTrue(w) /\ ListingIsWhole(w) BY <2>5 DEF FileIsTrue, ListingIsWhole, Busied
    <3>4. ManifestIsSeen(w) BY <2>5, ScanFacts DEF ManifestIsSeen
    <3>5. NothingIsMissed(w) BY <2>2, <2>5, AboveFacts DEF NothingIsMissed, Awaited
    <3>6. QuietIsClean(w) BY <1>1, <2>2, <2>5, ScanFacts DEF QuietIsClean, Busied
    <3>7. QED BY <3>1, <3>2, <3>3, <3>4, <3>5, <3>6 DEF WalkInv
  <2>7. QED BY <2>1, <2>6, <1>1, WalkIsKept
<1>4. QED BY <1>2, <1>3

LEMMA CheckKeeps == ScanInv /\ Scanner!CheckDirectory => ScanInv'
<1> SUFFICES ASSUME ScanInv, Scanner!CheckDirectory PROVE ScanInv'
    OBVIOUS
<1> DEFINE top == TopOf(walk.stack)
           d == walk.dirty \/ ~Scanner!SameDirectory(top)
           w == [walk EXCEPT !.dirty = d, !.stack = Scanner!Pop(walk.stack)]
<1>1. /\ walk.pc = "walk" /\ walk.names = {} /\ walk.stack # <<>> /\ top.kind = "check"
      /\ walk' = w /\ Untouched
  <2>1. walk.pc = "walk" /\ walk.names = {} /\ walk.stack # <<>> /\ top.kind = "check" /\ Scanner!Walk(w)
    BY DEF Scanner!CheckDirectory, Scanner!AtFrame, Scanner!Top, TopOf
  <2>2. QED BY <2>1, WalkStep
<1>2. /\ Scanner!Pop(walk.stack) \in Seq(FrameState)
      /\ FramesOf(walk.stack) = FramesOf(Scanner!Pop(walk.stack)) \cup {top}
  BY <1>1, ScanFacts, StackShrinks
<1>3. d \in BOOLEAN /\ (d <=> walk.dirty \/ ~Scanner!SameDirectory(top))
  BY ScanFacts
<1> HIDE DEF d, top
<1>4. /\ w \in WalkState /\ w.pc = "walk" /\ w.stack = Scanner!Pop(walk.stack) /\ w.names = {}
      /\ w.dirty = d /\ w.manifest = walk.manifest /\ w.attempt = walk.attempt
  BY <1>1, <1>2, <1>3, ScanFacts DEF WalkState
<1> HIDE DEF w
<1>5. WalkInv(w)
  <2>1. WalkShape(w) BY <1>1, <1>4, ScanFacts DEF WalkShape, Busied
  <2>2. WalkStays(w) BY <1>2, <1>4, ScanFacts DEF WalkStays
  <2>3. FileIsTrue(w) /\ ListingIsWhole(w) BY <1>4 DEF FileIsTrue, ListingIsWhole, Busied
  <2>4. ManifestIsSeen(w) BY <1>4, ScanFacts DEF ManifestIsSeen
  <2>5. NothingIsMissed(w)
    <3>1. SUFFICES ASSUME NEW p \in SPath \ Scanner!Pruned, Doomed(walk) \/ Awaited(walk, p)
                   PROVE  Doomed(w) \/ Awaited(w, p)
      BY <1>1, <1>4, ScanFacts DEF NothingIsMissed
    <3>2. CASE Doomed(walk) BY <3>2, <1>2, <1>3, <1>4 DEF Doomed
    <3>3. CASE Awaited(walk, p) BY <3>3, <1>1, <1>2, <1>4 DEF Awaited, Busied
    <3>4. QED BY <3>1, <3>2, <3>3
  <2>6. QuietIsClean(w)
    <3>1. ASSUME clock = began.attempt PROVE ~d /\ \A f \in FramesOf(w.stack) : Scanner!SameDirectory(f)
      BY <3>1, <1>1, <1>2, <1>3, <1>4, ScanFacts DEF QuietIsClean
    <3>2. QED BY <3>1, <1>4 DEF QuietIsClean, Busied
  <2>7. QED BY <2>1, <2>2, <2>3, <2>4, <2>5, <2>6 DEF WalkInv
<1>6. QED BY <1>1, <1>5, WalkIsKept

LEMMA OpenDirectoryKeeps == ScanInv /\ Scanner!OpenDirectory => ScanInv'
<1> SUFFICES ASSUME ScanInv, Scanner!OpenDirectory PROVE ScanInv'
    OBVIOUS
<1> DEFINE top == TopOf(walk.stack)
<1>1. walk.pc = "walk" /\ walk.names = {} /\ walk.stack # <<>> /\ top.kind = "dir"
  BY DEF Scanner!OpenDirectory, Scanner!AtFrame, Scanner!Top, TopOf
<1>2. /\ Scanner!Pop(walk.stack) \in Seq(FrameState) /\ top \in FrameState /\ top \in FramesOf(walk.stack)
      /\ FramesOf(walk.stack) = FramesOf(Scanner!Pop(walk.stack)) \cup {top}
  BY <1>1, ScanFacts, StackShrinks
<1>3. top.path \in Node BY <1>2 DEF FrameState
<1>4. CASE disk[top.path].kind # "dir"
  <2> DEFINE w == [walk EXCEPT !.dirty = TRUE, !.stack = Scanner!Pop(walk.stack)]
  <2>1. walk' = w /\ Untouched
    <3>1. Scanner!Walk(w) BY <1>4 DEF Scanner!OpenDirectory, Scanner!Top, TopOf
    <3>2. QED BY <3>1, WalkStep
  <2>2. /\ w \in WalkState /\ w.pc = "walk" /\ w.stack = Scanner!Pop(walk.stack) /\ w.names = {}
        /\ w.dirty /\ w.manifest = walk.manifest /\ w.attempt = walk.attempt
    BY <1>1, <1>2, ScanFacts DEF WalkState
  <2> HIDE DEF w
  <2>3. WalkInv(w)
    <3>1. WalkShape(w) BY <1>1, <2>2, ScanFacts DEF WalkShape, Busied
    <3>2. WalkStays(w) BY <1>2, <2>2, ScanFacts DEF WalkStays
    <3>3. FileIsTrue(w) /\ ListingIsWhole(w) BY <2>2 DEF FileIsTrue, ListingIsWhole, Busied
    <3>4. ManifestIsSeen(w) BY <2>2, ScanFacts DEF ManifestIsSeen
    <3>5. NothingIsMissed(w) BY <2>2 DEF NothingIsMissed, Doomed
    <3>6. clock # began.attempt
      BY <1>1, <1>2, <1>4, ScanFacts DEF QuietIsClean, Scanner!SameDirectory
    <3>7. QuietIsClean(w) BY <3>6 DEF QuietIsClean
    <3>8. QED BY <3>1, <3>2, <3>3, <3>4, <3>5, <3>7 DEF WalkInv
  <2>4. QED BY <2>1, <2>3, <1>1, WalkIsKept
<1>5. CASE disk[top.path].kind = "dir"
  <2> DEFINE found == Scanner!Entries(top.path)
             w == [walk EXCEPT !.pc = "list", !.names = found, !.file.pre = disk[top.path].stamp]
  <2>1. walk' = w /\ Untouched
    <3>1. Scanner!Walk(w) BY <1>5 DEF Scanner!OpenDirectory, Scanner!Top, TopOf
    <3>2. QED BY <3>1, WalkStep
  <2>2. found = {p \in SPath : Parent[p] = top.path /\ disk[p].kind # "none"}
    BY DEF Scanner!Entries, Scanner!Path, SPath
  <2>3. disk[top.path].stamp \in Nat BY <1>3, ScanFacts
  <2>4. found \in SUBSET SPath BY <2>2
  <2> HIDE DEF found
  <2>5. /\ w \in WalkState /\ w.pc = "list" /\ w.stack = walk.stack /\ w.names = found
        /\ w.dirty = walk.dirty /\ w.manifest = walk.manifest /\ w.attempt = walk.attempt
        /\ w.file.pre = disk[top.path].stamp
    <3>1. [walk.file EXCEPT !.pre = disk[top.path].stamp] \in [path : Node, pre : Nat, fd : Nat, bytes : Nat]
      BY <2>3, ScanFacts
    <3>2. walk \in WalkState BY ScanFacts
    <3> HIDE DEF top
    <3>3. QED BY <3>1, <3>2, <2>4 DEF WalkState
  <2> HIDE DEF w
  <2>6. WalkInv(w)
    <3>1. WalkShape(w) BY <1>1, <2>5, ScanFacts DEF WalkShape, Busied
    <3>2. WalkStays(w)
      <4>1. top.path \notin Scanner!Pruned BY <1>2, ScanFacts DEF WalkStays
      <4>2. QED BY <4>1, <2>2, <2>5, ScanFacts DEF WalkStays
    <3>3. FileIsTrue(w) BY <2>5 DEF FileIsTrue, Busied
    <3>4. ManifestIsSeen(w) BY <2>5, ScanFacts DEF ManifestIsSeen
    <3>5. ListingIsWhole(w)
      <4>1. Scanner!SameDirectory(top) => w.file.pre = top.stamp
        BY <2>5 DEF Scanner!SameDirectory
      <4>2. ASSUME NEW p \in SPath \ Scanner!Pruned, top.path \in Above(p) \ {p}
            PROVE  None \in seen[p] \/ w.names \cap Above(p) # {}
        <5>1. PICK c \in Above(p) \ {ScanRoot} : Parent[c] = top.path BY <4>2, TowardsEntry
        <5>2. c \in SPath BY <5>1, AboveFacts DEF SPath
        <5>3. CASE disk[c].kind # "none" BY <5>1, <5>2, <5>3, <2>2, <2>5
        <5>4. CASE disk[c].kind = "none"
          <6>1. disk[p].kind = "none"
            <7>1. CASE c = p BY <7>1, <5>4
            <7>2. CASE c # p BY <7>2, <5>1, <5>4, Beneath DEF ScanInv
            <7>3. QED BY <7>1, <7>2
          <6>2. Scanner!ContentOf(disk, p) = None BY <6>1 DEF Scanner!ContentOf
          <6>3. QED BY <6>2, <1>1 DEF ScanInv, HistoryIsTrue
        <5>5. QED BY <5>3, <5>4
      <4>3. QED BY <4>1, <4>2, <2>5 DEF ListingIsWhole
    <3>6. NothingIsMissed(w)
      <4>1. SUFFICES ASSUME NEW p \in SPath \ Scanner!Pruned, Doomed(walk) \/ Awaited(walk, p)
                     PROVE  Doomed(w) \/ Awaited(w, p)
        BY <1>1, <2>5, ScanFacts DEF NothingIsMissed
      <4>2. CASE Doomed(walk) BY <4>2, <2>5 DEF Doomed
      <4>3. CASE Awaited(walk, p) BY <4>3, <1>1, <2>5 DEF Awaited, Busied
      <4>4. QED BY <4>1, <4>2, <4>3
    <3>7. QuietIsClean(w)
      BY <1>1, <2>2, <2>5, ScanFacts DEF QuietIsClean, Busied
    <3>8. QED BY <3>1, <3>2, <3>3, <3>4, <3>5, <3>6, <3>7 DEF WalkInv
  <2>7. QED BY <2>1, <2>6, <1>1, WalkIsKept
<1>6. QED BY <1>4, <1>5

LEMMA ListKeeps == ScanInv /\ Scanner!ListDirectory => ScanInv'
<1> SUFFICES ASSUME ScanInv, Scanner!ListDirectory PROVE ScanInv'
    OBVIOUS
<1> DEFINE top == TopOf(walk.stack)
           f == [top EXCEPT !.kind = "check"]
           rest == Scanner!Pop(walk.stack)
<1>1. walk.pc = "list" /\ walk.stack # <<>> /\ top.kind = "dir"
  BY ScanFacts DEF Scanner!ListDirectory, WalkShape
<1>2. PICK found \in SUBSET (walk.names \cup Scanner!Entries(top.path)) :
        /\ disk[top.path].stamp = walk.file.pre => found = walk.names
        /\ Scanner!Walk([walk EXCEPT !.pc = "walk", !.names = found, !.file = Scanner!NoFile,
                                     !.stack = Append(rest, f)])
  BY DEF Scanner!ListDirectory, Scanner!Top, TopOf
<1> DEFINE w == [walk EXCEPT !.pc = "walk", !.names = found, !.file = Scanner!NoFile, !.stack = Append(rest, f)]
<1>3. walk' = w /\ Untouched BY <1>2, WalkStep
<1>4. /\ rest \in Seq(FrameState) /\ top \in FrameState /\ top \in FramesOf(walk.stack)
      /\ FramesOf(walk.stack) = FramesOf(rest) \cup {top}
  BY <1>1, ScanFacts, StackShrinks
<1>5. f \in FrameState /\ f.kind = "check" /\ f.path = top.path /\ f.stamp = top.stamp
      /\ (Scanner!SameDirectory(f) <=> Scanner!SameDirectory(top))
  BY <1>4 DEF FrameState, Scanner!SameDirectory
<1>6. found \subseteq SPath /\ \A c \in found : c \in walk.names \/ (Parent[c] = top.path /\ disk[c].kind # "none")
  BY ScanFacts DEF Scanner!Entries, Scanner!Path, SPath
<1>7. Append(rest, f) \in Seq(FrameState) /\ FramesOf(Append(rest, f)) = FramesOf(rest) \cup {f}
  <2> HIDE DEF f, rest
  <2>1. QED BY <1>4, <1>5, StackGrows
<1>8. Scanner!NoFile \in [path : Node, pre : Nat, fd : Nat, bytes : Nat]
  BY ScanAssumption DEF Scanner!NoFile
<1> HIDE DEF top, f, rest
<1>9. /\ w \in WalkState /\ w.pc = "walk" /\ FramesOf(w.stack) = FramesOf(rest) \cup {f} /\ w.names = found
      /\ w.dirty = walk.dirty /\ w.manifest = walk.manifest /\ w.attempt = walk.attempt
  BY <1>6, <1>7, <1>8, ScanFacts DEF WalkState
<1> HIDE DEF w
<1>10. WalkInv(w)
  <2>1. WalkShape(w) BY <1>1, <1>9, ScanFacts DEF WalkShape, Busied
  <2>2. WalkStays(w)
    <3>1. \A g \in FramesOf(w.stack) : \E h \in FramesOf(walk.stack) : g.path = h.path /\ g.stamp = h.stamp
      BY <1>4, <1>5, <1>9
    <3>2. top.path \notin Scanner!Pruned BY <1>4, ScanFacts DEF WalkStays
    <3>3. QED BY <3>1, <3>2, <1>6, <1>9, ScanFacts DEF WalkStays
  <2>3. FileIsTrue(w) /\ ListingIsWhole(w) BY <1>9 DEF FileIsTrue, ListingIsWhole, Busied
  <2>4. ManifestIsSeen(w) BY <1>9, ScanFacts DEF ManifestIsSeen
  <2>5. NothingIsMissed(w)
    <3>1. SUFFICES ASSUME NEW p \in SPath \ Scanner!Pruned, Doomed(walk) \/ Awaited(walk, p)
                   PROVE  None \in seen[p] \/ Doomed(w) \/ Awaited(w, p)
      BY <1>1, <1>9, ScanFacts DEF NothingIsMissed
    <3>2. CASE Doomed(walk) BY <3>2, <1>1, <1>4, <1>9 DEF Doomed
    <3>3. CASE ~Scanner!SameDirectory(top) BY <3>3, <1>5, <1>9 DEF Doomed
    <3>4. CASE Awaited(walk, p) /\ Scanner!SameDirectory(top)
      <4>1. PICK g \in FramesOf(walk.stack) : g.kind = "dir" /\ g.path \in Above(p)
        BY <3>4, <1>1 DEF Awaited, Busied
      <4>2. CASE g \in FramesOf(rest) BY <4>1, <4>2, <1>9 DEF Awaited
      <4>3. CASE g = top /\ top.path = p BY <4>3, <4>1, ScanFacts DEF WalkStays
      <4>4. CASE g = top /\ top.path # p
        <5>1. ListingIsWhole(walk) BY ScanFacts
        <5>2. walk.file.pre = top.stamp /\ (None \in seen[p] \/ walk.names \cap Above(p) # {})
          BY <5>1, <3>4, <4>1, <4>4, <1>1 DEF ListingIsWhole, top
        <5>3. disk[top.path].stamp = top.stamp BY <3>4 DEF Scanner!SameDirectory
        <5>4. found = walk.names
          <6>1. disk[top.path].stamp = walk.file.pre => found = walk.names BY <1>2 DEF top
          <6>2. QED BY <6>1, <5>2, <5>3
        <5>5. QED BY <5>2, <5>4, <1>9 DEF Awaited
      <4>5. QED BY <4>1, <4>2, <4>3, <4>4, <1>4
    <3>5. QED BY <3>1, <3>2, <3>3, <3>4
  <2>6. QuietIsClean(w)
    <3>1. QuietIsClean(walk) BY ScanFacts
    <3>2. ASSUME clock = began.attempt
          PROVE  /\ ~walk.dirty /\ (\A g \in FramesOf(w.stack) : Scanner!SameDirectory(g))
                 /\ \A c \in found : disk[c].kind # "none"
      BY <3>1, <3>2, <1>1, <1>4, <1>5, <1>6, <1>9 DEF QuietIsClean
    <3>3. QED BY <3>2, <1>9 DEF QuietIsClean, Busied
  <2>7. QED BY <2>1, <2>2, <2>3, <2>4, <2>5, <2>6 DEF WalkInv
<1>11. QED BY <1>1, <1>3, <1>10, WalkIsKept

LEMMA PruneKeeps == ASSUME NEW q \in SPath PROVE ScanInv /\ Scanner!Prune(q) => ScanInv'
<1> SUFFICES ASSUME ScanInv, Scanner!Prune(q) PROVE ScanInv'
    OBVIOUS
<1> DEFINE w == [walk EXCEPT !.names = walk.names \ {q}]
<1>1. walk.pc = "walk" /\ q \in walk.names /\ q \in Unsynced /\ walk' = w /\ Untouched
  <2>1. walk.pc = "walk" /\ q \in walk.names /\ q \in Unsynced /\ Scanner!Walk(w) BY DEF Scanner!Prune
  <2>2. QED BY <2>1, WalkStep
<1>2. /\ w \in WalkState /\ w.pc = "walk" /\ w.stack = walk.stack /\ w.names = walk.names \ {q}
      /\ w.dirty = walk.dirty /\ w.manifest = walk.manifest /\ w.attempt = walk.attempt
  BY <1>1, ScanFacts DEF WalkState
<1> HIDE DEF w
<1>3. WalkInv(w)
  <2>1. WalkShape(w) BY <1>1, <1>2, ScanFacts DEF WalkShape, Busied
  <2>2. WalkStays(w) BY <1>2, ScanFacts DEF WalkStays
  <2>3. FileIsTrue(w) /\ ListingIsWhole(w) BY <1>2 DEF FileIsTrue, ListingIsWhole, Busied
  <2>4. ManifestIsSeen(w) BY <1>2, ScanFacts DEF ManifestIsSeen
  <2>5. NothingIsMissed(w)
    <3>1. SUFFICES ASSUME NEW p \in SPath \ Scanner!Pruned, Doomed(walk) \/ Awaited(walk, p)
                   PROVE  Doomed(w) \/ Awaited(w, p)
      BY <1>1, <1>2, ScanFacts DEF NothingIsMissed
    <3>2. CASE Doomed(walk) BY <3>2, <1>2 DEF Doomed
    <3>3. CASE Awaited(walk, p)
      <4>1. q \notin Above(p) BY <1>1, PrunedFacts, AboveNotPruned
      <4>2. QED BY <4>1, <3>3, <1>1, <1>2 DEF Awaited, Busied
    <3>4. QED BY <3>1, <3>2, <3>3
  <2>6. QuietIsClean(w) BY <1>1, <1>2, ScanFacts DEF QuietIsClean, Busied
  <2>7. QED BY <2>1, <2>2, <2>3, <2>4, <2>5, <2>6 DEF WalkInv
<1>4. QED BY <1>1, <1>3, WalkIsKept

CacheEntry == [path : SPath, stamp : Nat, hash : Nat]

LEMMA RememberedIsTrue ==
  ASSUME CacheIsTrue, NEW entry \in CacheEntry, entry.hash = entry.stamp
  PROVE  LET kept == Scanner!Remembered(entry)
         IN  /\ kept \in Seq(CacheEntry) /\ Len(kept) <= MaxCached
             /\ \A i \in DOMAIN kept : kept[i].hash = kept[i].stamp
<1>1. /\ cache \in Seq(CacheEntry) /\ Len(cache) \in Nat /\ Len(cache) <= MaxCached
      /\ DOMAIN cache = 1 .. Len(cache) /\ MaxCached \in Nat \ {0}
      /\ \A i \in 1 .. Len(cache) : cache[i] \in CacheEntry /\ cache[i].hash = cache[i].stamp
  <2>1. cache \in Seq(CacheEntry) /\ Len(cache) <= MaxCached BY DEF CacheIsTrue, CacheEntry
  <2>2. Len(cache) \in Nat /\ DOMAIN cache = 1 .. Len(cache) BY <2>1, LenProperties
  <2>3. \A i \in 1 .. Len(cache) : cache[i] \in CacheEntry BY <2>1, ElementOfSeq
  <2>4. \A i \in 1 .. Len(cache) : cache[i].hash = cache[i].stamp BY <2>2 DEF CacheIsTrue
  <2>5. MaxCached \in Nat \ {0} BY ScanAssumption
  <2>6. QED BY <2>1, <2>2, <2>3, <2>4, <2>5
<1> DEFINE known == Scanner!Known(entry.path)
<1>2. CASE known # {}
  <2> DEFINE kept == [i \in DOMAIN cache |-> IF i \in known THEN entry ELSE cache[i]]
  <2>1. Scanner!Remembered(entry) = kept BY <1>2 DEF Scanner!Remembered
  <2> HIDE DEF known
  <2>2. \A i \in 1 .. Len(cache) : kept[i] \in CacheEntry /\ kept[i].hash = kept[i].stamp
    BY <1>1
  <2>3. DOMAIN kept = 1 .. Len(cache) BY <1>1
  <2>4. kept \in [1 .. Len(cache) -> CacheEntry]
    <3>1. kept = [i \in 1 .. Len(cache) |-> kept[i]] BY <1>1
    <3> HIDE DEF kept
    <3>2. QED BY <3>1, <2>2
  <2> HIDE DEF kept
  <2>5. kept \in Seq(CacheEntry) /\ Len(kept) = Len(cache) BY <2>4, <1>1, SeqDef, LenProperties
  <2>6. QED BY <2>1, <2>2, <2>3, <2>5, <1>1
<1>3. CASE known = {}
  <2> DEFINE base == IF Len(cache) = MaxCached THEN Tail(cache) ELSE cache
  <2>1. Scanner!Remembered(entry) = Append(base, entry) BY <1>3 DEF Scanner!Remembered
  <2>2. /\ base \in Seq(CacheEntry) /\ Len(base) \in Nat /\ Len(base) + 1 <= MaxCached
        /\ \A i \in 1 .. Len(base) : base[i].hash = base[i].stamp
    <3>1. CASE Len(cache) = MaxCached
      <4>1. /\ Tail(cache) \in Seq(CacheEntry) /\ Len(Tail(cache)) = Len(cache) - 1
            /\ \A i \in 1 .. Len(cache) - 1 : Tail(cache)[i] = cache[i + 1]
        BY <1>1, <3>1, HeadTailProperties, EmptySeq
      <4>2. base = Tail(cache) BY <3>1
      <4> HIDE DEF base
      <4>3. \A i \in 1 .. Len(cache) - 1 : i + 1 \in 1 .. Len(cache) BY <1>1
      <4>4. QED BY <4>1, <4>2, <4>3, <1>1, <3>1
    <3>2. CASE Len(cache) # MaxCached
      <4>1. base = cache BY <3>2
      <4> HIDE DEF base
      <4>2. \A n, m \in Nat : n <= m /\ n # m => n + 1 <= m OBVIOUS
      <4>3. Len(cache) + 1 <= MaxCached
        <5>1. Len(cache) \in Nat /\ MaxCached \in Nat /\ Len(cache) <= MaxCached BY <1>1
        <5>2. QED BY <5>1, <4>2, <3>2
      <4>4. QED BY <4>1, <4>3, <1>1
    <3>3. QED BY <3>1, <3>2
  <2> HIDE DEF base
  <2>3. /\ Append(base, entry) \in Seq(CacheEntry) /\ Len(Append(base, entry)) = Len(base) + 1
        /\ DOMAIN Append(base, entry) = 1 .. Len(base) + 1
        /\ \A i \in 1 .. Len(base) : Append(base, entry)[i] = base[i]
        /\ Append(base, entry)[Len(base) + 1] = entry
    BY <2>2, AppendProperties, LenProperties
  <2>4. \A i \in DOMAIN Append(base, entry) : i \in 1 .. Len(base) \/ i = Len(base) + 1
    BY <2>2, <2>3
  <2>5. QED BY <2>1, <2>2, <2>3, <2>4
<1>4. QED BY <1>2, <1>3

\* The files that are collected are read as they are.
LEMMA CollectKeeps ==
  ASSUME ScanInv, NEW w \in WalkState, NEW entry \in CacheEntry, Scanner!Collect(w, entry),
         entry.hash = entry.stamp, entry.path \notin Scanner!Pruned,
         disk[entry.path] = [kind |-> "file", stamp |-> entry.stamp],
         w.pc = "walk", w.stack = walk.stack, w.dirty = walk.dirty, w.manifest = walk.manifest,
         w.attempt = walk.attempt, w.names \subseteq walk.names,
         \/ walk.pc = "walk" /\ walk.names \subseteq w.names \cup {entry.path}
         \/ walk.pc = "recheck" /\ w.names = walk.names /\ walk.file.path = entry.path
  PROVE  ScanInv'
<1> DEFINE q == entry.path
           x == [w EXCEPT !.manifest[entry.path] = entry.hash]
<1>1. /\ walk' = x /\ cache' = Scanner!Remembered(entry) /\ disk' = disk /\ clock' = clock /\ seen' = seen
      /\ began' = began /\ result' = result
  BY DEF Scanner!Collect, Scanner!treeVars
<1>2. /\ x \in WalkState /\ x.pc = "walk" /\ x.stack = walk.stack /\ x.dirty = walk.dirty
      /\ x.attempt = walk.attempt /\ x.names = w.names
      /\ x.manifest = [walk.manifest EXCEPT ![q] = entry.hash]
      /\ walk.manifest \in [SPath -> Nat \cup {None}] /\ q \in SPath /\ entry.hash \in Nat
  <2>1. walk.manifest \in [SPath -> Nat \cup {None}] BY ScanFacts DEF WalkState
  <2>2. q \in SPath /\ entry.hash \in Nat BY DEF CacheEntry
  <2>3. [w.manifest EXCEPT ![q] = entry.hash] \in [SPath -> Nat \cup {None}] BY <2>1, <2>2
  <2>4. QED BY <2>1, <2>2, <2>3 DEF WalkState
<1>3. /\ x.manifest[q] = entry.hash /\ \A p \in SPath : p # q => x.manifest[p] = walk.manifest[p]
  BY <1>2
<1>4. walk.pc \in {"walk", "recheck"} OBVIOUS
<1>5. \A p \in SPath : Scanner!ContentOf(disk, p) \in seen[p]
  BY <1>4 DEF ScanInv, HistoryIsTrue
<1>6. entry.hash \in seen[q] /\ entry.hash # None
  BY <1>2, <1>5, ScanAssumption DEF Scanner!ContentOf
<1> HIDE DEF x
<1>7. WalkInv(x)
  <2>1. WalkShape(x) BY <1>2, <1>4, ScanFacts DEF WalkShape, Busied
  <2>2. WalkStays(x) BY <1>2, ScanFacts DEF WalkStays
  <2>3. FileIsTrue(x) /\ ListingIsWhole(x) BY <1>2 DEF FileIsTrue, ListingIsWhole, Busied
  <2>4. ManifestIsSeen(x) BY <1>2, <1>3, <1>6, ScanFacts DEF ManifestIsSeen
  <2>5. NothingIsMissed(x)
    <3>1. SUFFICES ASSUME NEW p \in SPath \ Scanner!Pruned, Doomed(walk) \/ Awaited(walk, p), p # q
                   PROVE  None \in seen[p] \/ Doomed(x) \/ Awaited(x, p)
      BY <1>2, <1>3, <1>4, <1>6, ScanFacts DEF NothingIsMissed
    <3>2. CASE Doomed(walk) BY <3>2, <1>2 DEF Doomed
    <3>3. CASE Awaited(walk, p)
      <4>1. CASE q \in Above(p)
        <5>1. disk[p].kind = "none" BY <4>1, <3>1, Beneath DEF ScanInv
        <5>2. QED BY <5>1, <1>5 DEF Scanner!ContentOf
      <4>2. CASE q \notin Above(p) BY <4>2, <3>1, <3>3, <1>2 DEF Awaited, Busied
      <4>3. QED BY <4>1, <4>2
    <3>4. QED BY <3>1, <3>2, <3>3
  <2>6. QuietIsClean(x)
    <3>1. QuietIsClean(walk) BY ScanFacts
    <3>2. QED BY <3>1, <1>2, <1>4 DEF QuietIsClean, Busied
  <2>7. QED BY <2>1, <2>2, <2>3, <2>4, <2>5, <2>6 DEF WalkInv
<1>8. CacheIsTrue'
  BY <1>1, RememberedIsTrue DEF ScanInv, CacheIsTrue, CacheEntry
<1>9. TreeIsWhole' /\ HistoryIsTrue' /\ ResultIsTrue' /\ WalkInv(walk)'
  <2>1. (Scanner!Pruned)' = Scanner!Pruned BY DEF Scanner!Pruned, Scanner!Path
  <2>3. TreeIsWhole' BY <1>1 DEF ScanInv, TreeIsWhole
  <2>4. HistoryIsTrue' BY <1>1, <1>4 DEF ScanInv, HistoryIsTrue, Scanner!ContentOf
  <2>5. ResultIsTrue' BY <1>1, <1>4, <2>1 DEF ScanInv, ResultIsTrue
  <2>6. WalkInv(walk') BY <1>1, <1>7
  <2>7. WalkInv(walk)' BY <2>6, <1>1, SameWalk
  <2>8. QED BY <2>3, <2>4, <2>5, <2>7
<1>10. QED BY <1>8, <1>9 DEF ScanInv

LEMMA InspectKeeps == ASSUME NEW q \in SPath PROVE ScanInv /\ Scanner!Inspect(q) => ScanInv'
<1> SUFFICES ASSUME ScanInv, Scanner!Inspect(q) PROVE ScanInv'
    OBVIOUS
<1> DEFINE after == [walk EXCEPT !.names = walk.names \ {q}]
           known == [path |-> q, stamp |-> disk[q].stamp]
<1>1. /\ walk.pc = "walk" /\ q \in walk.names /\ q \notin Unsynced /\ q \in Node
      /\ disk[q] \in [kind : {"none", "file", "dir", "odd"}, stamp : Nat] /\ disk[q].stamp <= clock
  <2>1. walk.pc = "walk" /\ q \in walk.names /\ q \notin Unsynced BY DEF Scanner!Inspect
  <2>2. QED BY <2>1, ScanFacts DEF SPath, ScanInv, TreeIsWhole
<1>2. q \notin Scanner!Pruned
  BY <1>1, PrunedFacts, ScanFacts DEF WalkStays
<1>3. /\ after \in WalkState /\ after.pc = "walk" /\ after.stack = walk.stack /\ after.names = walk.names \ {q}
      /\ after.dirty = walk.dirty /\ after.manifest = walk.manifest /\ after.attempt = walk.attempt
      /\ after.file = walk.file
  BY <1>1, ScanFacts DEF WalkState
<1>4. \A p \in SPath : Scanner!ContentOf(disk, p) \in seen[p]
  BY <1>1 DEF ScanInv, HistoryIsTrue
\* What is no directory takes nothing with it but itself.
<1>5. ASSUME disk[q].kind # "dir", NEW p \in SPath \ Scanner!Pruned, q \in Above(p), p # q
      PROVE  None \in seen[p]
  <2>1. disk[p].kind = "none" BY <1>5, Beneath DEF ScanInv
  <2>2. QED BY <2>1, <1>4 DEF Scanner!ContentOf
<1>6. CASE disk[q].kind = "none"
  <2> DEFINE w == [after EXCEPT !.dirty = TRUE]
  <2>1. walk' = w /\ Untouched
    <3>1. Scanner!Walk(w) BY <1>6 DEF Scanner!Inspect
    <3>2. QED BY <3>1, WalkStep
  <2> HIDE DEF after
  <2>2. /\ w \in WalkState /\ w.pc = "walk" /\ w.stack = walk.stack /\ w.names = walk.names \ {q}
        /\ w.dirty /\ w.manifest = walk.manifest /\ w.attempt = walk.attempt
    BY <1>3 DEF WalkState
  <2> HIDE DEF w
  <2>3. WalkInv(w)
    <3>1. WalkShape(w) BY <1>1, <2>2, ScanFacts DEF WalkShape, Busied
    <3>2. WalkStays(w) BY <2>2, ScanFacts DEF WalkStays
    <3>3. FileIsTrue(w) /\ ListingIsWhole(w) BY <2>2 DEF FileIsTrue, ListingIsWhole, Busied
    <3>4. ManifestIsSeen(w) BY <2>2, ScanFacts DEF ManifestIsSeen
    <3>5. NothingIsMissed(w) BY <2>2 DEF NothingIsMissed, Doomed
    <3>6. clock # began.attempt BY <1>1, <1>6, ScanFacts DEF QuietIsClean
    <3>7. QuietIsClean(w) BY <3>6 DEF QuietIsClean
    <3>8. QED BY <3>1, <3>2, <3>3, <3>4, <3>5, <3>7 DEF WalkInv
  <2>4. QED BY <2>1, <2>3, <1>1, WalkIsKept
<1>7. CASE disk[q].kind = "odd"
  <2>1. Scanner!Finish("failed") BY <1>7 DEF Scanner!Inspect
  <2>2. QED BY <2>1, FinishKeeps
<1>8. CASE disk[q].kind = "dir"
  <2> DEFINE f == Scanner!Frame("dir", q)
             w == [after EXCEPT !.stack = Append(after.stack, f)]
  <2>1. walk' = w /\ Untouched
    <3>1. Scanner!Walk(w) BY <1>8 DEF Scanner!Inspect
    <3>2. QED BY <3>1, WalkStep
  <2>2. /\ f \in FrameState /\ f.kind = "dir" /\ f.path = q /\ f.stamp <= clock /\ Scanner!SameDirectory(f)
    BY <1>1, <1>8, FrameFacts
  <2> HIDE DEF after, f
  <2>3. Append(walk.stack, f) \in Seq(FrameState) /\ FramesOf(Append(walk.stack, f)) = FramesOf(walk.stack) \cup {f}
    BY <2>2, ScanFacts, StackGrows
  <2>4. /\ w \in WalkState /\ w.pc = "walk" /\ FramesOf(w.stack) = FramesOf(walk.stack) \cup {f}
        /\ w.names = walk.names \ {q}
        /\ w.dirty = walk.dirty /\ w.manifest = walk.manifest /\ w.attempt = walk.attempt
    BY <1>3, <2>3 DEF WalkState
  <2> HIDE DEF w
  <2>5. WalkInv(w)
    <3>1. WalkShape(w) BY <1>1, <2>4, ScanFacts DEF WalkShape, Busied
    <3>2. WalkStays(w)
      <4>1. None \in seen[q] BY <1>4, <1>8 DEF Scanner!ContentOf
      <4>2. QED BY <4>1, <1>2, <2>2, <2>4, ScanFacts DEF WalkStays
    <3>3. FileIsTrue(w) /\ ListingIsWhole(w) BY <2>4 DEF FileIsTrue, ListingIsWhole, Busied
    <3>4. ManifestIsSeen(w) BY <2>4, ScanFacts DEF ManifestIsSeen
    <3>5. NothingIsMissed(w)
      <4>1. SUFFICES ASSUME NEW p \in SPath \ Scanner!Pruned, Doomed(walk) \/ Awaited(walk, p)
                     PROVE  Doomed(w) \/ Awaited(w, p)
        BY <1>1, <2>4, ScanFacts DEF NothingIsMissed
      <4>2. CASE Doomed(walk) BY <4>2, <2>4 DEF Doomed
      <4>3. CASE Awaited(walk, p) BY <4>3, <1>1, <2>2, <2>4 DEF Awaited, Busied
      <4>4. QED BY <4>1, <4>2, <4>3
    <3>6. QuietIsClean(w) BY <1>1, <2>2, <2>4, ScanFacts DEF QuietIsClean, Busied
    <3>7. QED BY <3>1, <3>2, <3>3, <3>4, <3>5, <3>6 DEF WalkInv
  <2>6. QED BY <2>1, <2>5, <1>1, WalkIsKept
<1>9. CASE disk[q].kind = "file"
  <2> DEFINE w == [after EXCEPT !.pc = "open", !.file = [Scanner!NoFile EXCEPT !.path = q, !.pre = known.stamp]]
  <2>1. \/ \E i \in Scanner!Reusable(known) : Scanner!Collect(after, cache[i])
        \/ Scanner!Walk(w)
    BY <1>9 DEF Scanner!Inspect
  <2>2. ASSUME NEW i \in Scanner!Reusable(known), Scanner!Collect(after, cache[i]) PROVE ScanInv'
    <3>1. i \in DOMAIN cache /\ cache[i].path = q /\ cache[i].stamp = disk[q].stamp
      BY DEF Scanner!Reusable, Scanner!Known
    <3>2. cache[i] \in CacheEntry /\ cache[i].hash = cache[i].stamp
      <4>1. cache \in Seq(CacheEntry) /\ \A k \in DOMAIN cache : cache[k].hash = cache[k].stamp
        BY DEF ScanInv, CacheIsTrue, CacheEntry
      <4>2. QED BY <4>1, <3>1
    <3> HIDE DEF after
    <3>3. disk[q] = [kind |-> "file", stamp |-> cache[i].stamp] BY <1>1, <1>9, <3>1
    <3>4. QED BY <1>1, <1>2, <1>3, <2>2, <3>1, <3>2, <3>3, CollectKeeps
  <2>3. CASE Scanner!Walk(w)
    <3>1. walk' = w /\ Untouched BY <2>3, WalkStep
    <3> DEFINE g == [Scanner!NoFile EXCEPT !.path = q, !.pre = known.stamp]
    <3>2. g \in [path : Node, pre : Nat, fd : Nat, bytes : Nat] /\ g.path = q /\ g.pre = disk[q].stamp
      BY <1>1 DEF Scanner!NoFile
    <3> HIDE DEF after, g
    <3>3. /\ w \in WalkState /\ w.pc = "open" /\ w.stack = walk.stack /\ w.names = walk.names \ {q}
          /\ w.dirty = walk.dirty /\ w.manifest = walk.manifest /\ w.attempt = walk.attempt /\ w.file = g
      BY <1>3, <3>2 DEF WalkState, g
    <3>4. Scanner!Unmoved(g) BY <3>2, <1>1, <1>9 DEF Scanner!Unmoved
    <3> HIDE DEF w
    <3>5. WalkInv(w)
      <4>1. WalkShape(w) BY <1>1, <1>2, <3>2, <3>3, ScanFacts DEF WalkShape, Busied
      <4>2. WalkStays(w) BY <3>3, ScanFacts DEF WalkStays
      <4>3. FileIsTrue(w) /\ ListingIsWhole(w) BY <1>1, <3>2, <3>3 DEF FileIsTrue, ListingIsWhole, Busied
      <4>4. ManifestIsSeen(w) BY <3>3, ScanFacts DEF ManifestIsSeen
      <4>5. NothingIsMissed(w)
        <5>1. SUFFICES ASSUME NEW p \in SPath \ Scanner!Pruned, Doomed(walk) \/ Awaited(walk, p)
                       PROVE  None \in seen[p] \/ Doomed(w) \/ Awaited(w, p)
          BY <1>1, <3>3, ScanFacts DEF NothingIsMissed
        <5>2. CASE Doomed(walk) BY <5>2, <3>3 DEF Doomed
        <5>3. CASE p = q BY <5>3, <3>2, <3>3 DEF Awaited, Busied
        <5>4. CASE p # q /\ q \in Above(p) BY <5>4, <1>5, <1>9
        <5>5. CASE Awaited(walk, p) /\ q \notin Above(p) BY <5>5, <1>1, <3>3 DEF Awaited, Busied
        <5>6. QED BY <5>1, <5>2, <5>3, <5>4, <5>5
      <4>6. QuietIsClean(w) BY <1>1, <3>3, <3>4, ScanFacts DEF QuietIsClean
      <4>7. QED BY <4>1, <4>2, <4>3, <4>4, <4>5, <4>6 DEF WalkInv
    <3>6. QED BY <3>1, <3>5, <1>1, WalkIsKept
  <2>4. QED BY <2>1, <2>2, <2>3
<1>10. QED BY <1>1, <1>6, <1>7, <1>8, <1>9

\* A file that moved is given up, and the attempt with it.
LEMMA MovedKeeps ==
  ASSUME ScanInv, walk.pc \in Busied, ~Scanner!Unmoved(walk.file), Scanner!Moved(walk)
  PROVE  ScanInv'
<1> DEFINE w == [walk EXCEPT !.pc = "walk", !.file = Scanner!NoFile, !.dirty = TRUE]
<1>1. walk' = w /\ Untouched
  <2>1. Scanner!Walk(w) BY DEF Scanner!Moved
  <2>2. QED BY <2>1, WalkStep
<1>2. Scanner!NoFile \in [path : Node, pre : Nat, fd : Nat, bytes : Nat]
  BY ScanAssumption DEF Scanner!NoFile
<1>3. /\ w \in WalkState /\ w.pc = "walk" /\ w.stack = walk.stack /\ w.names = walk.names
      /\ w.dirty /\ w.manifest = walk.manifest /\ w.attempt = walk.attempt
  BY <1>2, ScanFacts DEF WalkState
<1>4. walk.pc # "idle" BY DEF Busied
<1> HIDE DEF w
<1>5. WalkInv(w)
  <2>1. WalkShape(w) BY <1>3, <1>4, ScanFacts DEF WalkShape, Busied
  <2>2. WalkStays(w) BY <1>3, ScanFacts DEF WalkStays
  <2>3. FileIsTrue(w) /\ ListingIsWhole(w) BY <1>3 DEF FileIsTrue, ListingIsWhole, Busied
  <2>4. ManifestIsSeen(w) BY <1>3, ScanFacts DEF ManifestIsSeen
  <2>5. NothingIsMissed(w) BY <1>3 DEF NothingIsMissed, Doomed
  <2>6. clock # began.attempt BY <1>4, ScanFacts DEF QuietIsClean
  <2>7. QuietIsClean(w) BY <2>6 DEF QuietIsClean
  <2>8. QED BY <2>1, <2>2, <2>3, <2>4, <2>5, <2>7 DEF WalkInv
<1>6. QED BY <1>1, <1>4, <1>5, WalkIsKept

\* A step of the reading that has not seen the file move.
LEMMA ReadingGoesOn ==
  ASSUME ScanInv, walk.pc \in Busied, NEW w \in WalkState, walk' = w, Untouched,
         w.pc \in Busied, w.stack = walk.stack, w.names = walk.names, w.dirty = walk.dirty,
         w.manifest = walk.manifest, w.attempt = walk.attempt,
         w.file.path = walk.file.path, w.file.pre = walk.file.pre, FileIsTrue(w)
  PROVE  ScanInv'
<1>1. walk.pc # "idle" /\ walk.pc # "list" /\ walk.pc # "root" BY DEF Busied
<1>2. Scanner!Unmoved(w.file) <=> Scanner!Unmoved(walk.file) BY DEF Scanner!Unmoved
<1>3. WalkInv(w)
  <2>1. WalkShape(w) BY <1>1, ScanFacts DEF WalkShape, Busied
  <2>2. WalkStays(w) BY ScanFacts DEF WalkStays
  <2>3. ListingIsWhole(w) BY DEF ListingIsWhole, Busied
  <2>4. ManifestIsSeen(w) BY ScanFacts DEF ManifestIsSeen
  <2>5. NothingIsMissed(w)
    <3>1. Doomed(walk) => Doomed(w) BY DEF Doomed
    <3>2. \A p \in SPath : Awaited(walk, p) => Awaited(w, p) BY <1>1 DEF Awaited, Busied
    <3>3. QED BY <3>1, <3>2, <1>1, ScanFacts DEF NothingIsMissed
  <2>6. QuietIsClean(w) BY <1>1, <1>2, ScanFacts DEF QuietIsClean
  <2>7. QED BY <2>1, <2>2, <2>3, <2>4, <2>5, <2>6 DEF WalkInv
<1>4. QED BY <1>1, <1>3, WalkIsKept

LEMMA OpenKeeps == ScanInv /\ Scanner!Open => ScanInv'
<1> SUFFICES ASSUME ScanInv, Scanner!Open PROVE ScanInv'
    OBVIOUS
<1> DEFINE q == walk.file.path
<1>1. walk.pc = "open" /\ walk.pc \in Busied BY DEF Scanner!Open, Busied
<1>2. disk[q] \in [kind : {"none", "file", "dir", "odd"}, stamp : Nat]
  BY ScanFacts
<1>3. CASE disk[q].kind = "file"
  <2> DEFINE w == [walk EXCEPT !.pc = "read", !.file.fd = disk[q].stamp]
  <2>1. walk' = w /\ Untouched
    <3>1. Scanner!Walk(w) BY <1>3 DEF Scanner!Open, Scanner!Reading
    <3>2. QED BY <3>1, WalkStep
  <2>2. disk[q].stamp \in Nat BY <1>2
  <2>3. /\ w \in WalkState /\ w.pc = "read" /\ w.stack = walk.stack /\ w.names = walk.names
        /\ w.dirty = walk.dirty /\ w.manifest = walk.manifest /\ w.attempt = walk.attempt
        /\ w.file.path = q /\ w.file.pre = walk.file.pre /\ w.file.fd = disk[q].stamp
    <3>1. [walk.file EXCEPT !.fd = disk[q].stamp] \in [path : Node, pre : Nat, fd : Nat, bytes : Nat]
      BY <2>2, ScanFacts
    <3>2. walk \in WalkState BY ScanFacts
    <3>3. QED BY <3>1, <3>2 DEF WalkState
  <2> HIDE DEF w
  <2>4. FileIsTrue(w)
    <3>1. walk.file.pre <= clock BY <1>1, ScanFacts DEF FileIsTrue
    <3>2. QED BY <3>1, <2>3 DEF FileIsTrue, Scanner!Unmoved
  <2>5. QED BY <1>1, <2>1, <2>3, <2>4, ReadingGoesOn DEF Busied
<1>4. CASE disk[q].kind = "none"
  <2>1. Scanner!Moved(walk) BY <1>4 DEF Scanner!Open, Scanner!Reading
  <2>2. ~Scanner!Unmoved(walk.file) BY <1>4 DEF Scanner!Unmoved
  <2>3. QED BY <1>1, <2>1, <2>2, MovedKeeps
<1>5. CASE disk[q].kind \notin {"file", "none"}
  <2>1. Scanner!Finish("failed") BY <1>5 DEF Scanner!Open, Scanner!Reading
  <2>2. QED BY <2>1, FinishKeeps
<1>6. QED BY <1>3, <1>4, <1>5

LEMMA ReadKeeps == ScanInv /\ Scanner!Read => ScanInv'
<1> SUFFICES ASSUME ScanInv, Scanner!Read PROVE ScanInv'
    OBVIOUS
<1> DEFINE q == walk.file.path
           known == IF disk[q].stamp = walk.file.fd THEN {walk.file.fd}
                    ELSE {walk.file.fd, disk[q].stamp, Scanner!Torn}
<1>1. walk.pc = "read" /\ walk.pc \in Busied BY DEF Scanner!Read, Busied
<1>2. PICK b \in known : Scanner!Walk([walk EXCEPT !.pc = "recheck", !.file.bytes = b])
  BY DEF Scanner!Read, Scanner!Reading
<1> DEFINE w == [walk EXCEPT !.pc = "recheck", !.file.bytes = b]
<1>3. walk' = w /\ Untouched BY <1>2, WalkStep
<1>4. b \in Nat /\ (disk[q].stamp = walk.file.fd => b = walk.file.fd)
  <2>1. walk.file.fd \in Nat /\ disk[q].stamp \in Nat /\ Scanner!Torn \in Nat
    BY ScanFacts, ScanAssumption DEF Scanner!Torn
  <2>2. QED BY <2>1
<1>5. /\ w \in WalkState /\ w.pc = "recheck" /\ w.stack = walk.stack /\ w.names = walk.names
      /\ w.dirty = walk.dirty /\ w.manifest = walk.manifest /\ w.attempt = walk.attempt
      /\ w.file.path = q /\ w.file.pre = walk.file.pre /\ w.file.bytes = b
  <2>1. [walk.file EXCEPT !.bytes = b] \in [path : Node, pre : Nat, fd : Nat, bytes : Nat]
    BY <1>4, ScanFacts
  <2>2. walk \in WalkState BY ScanFacts
  <2>3. QED BY <2>1, <2>2 DEF WalkState
<1> HIDE DEF w, known
<1>6. FileIsTrue(w)
  <2>1. walk.file.pre <= clock BY <1>1, ScanFacts DEF FileIsTrue
  <2>2. ASSUME Scanner!Unmoved(w.file) PROVE b = walk.file.pre
    <3>1. disk[q] = [kind |-> "file", stamp |-> walk.file.pre] BY <2>2, <1>5 DEF Scanner!Unmoved
    <3>2. walk.file.fd = walk.file.pre BY <3>1, <1>1, ScanFacts DEF FileIsTrue, Scanner!Unmoved
    <3>3. QED BY <3>1, <3>2, <1>4
  <2>3. QED BY <2>1, <2>2, <1>5 DEF FileIsTrue
<1>7. QED BY <1>1, <1>3, <1>5, <1>6, ReadingGoesOn DEF Busied

LEMMA RecheckKeeps == ScanInv /\ Scanner!Recheck => ScanInv'
<1> SUFFICES ASSUME ScanInv, Scanner!Recheck PROVE ScanInv'
    OBVIOUS
<1> DEFINE q == walk.file.path
           w == [walk EXCEPT !.pc = "walk", !.file = Scanner!NoFile]
           entry == [path |-> q, stamp |-> disk[q].stamp, hash |-> walk.file.bytes]
<1>1. walk.pc = "recheck" /\ walk.pc \in Busied BY DEF Scanner!Recheck, Busied
<1>2. CASE ~Scanner!Unmoved(walk.file)
  <2>1. Scanner!Moved(walk) BY <1>2 DEF Scanner!Recheck
  <2>2. QED BY <1>1, <1>2, <2>1, MovedKeeps
<1>3. CASE Scanner!Unmoved(walk.file)
  <2>1. Scanner!Collect(w, entry) BY <1>3 DEF Scanner!Recheck, Scanner!Reading
  <2>2. q \in SPath /\ q \notin Scanner!Pruned BY <1>1, ScanFacts DEF WalkShape
  <2>3. disk[q] = [kind |-> "file", stamp |-> walk.file.pre] /\ walk.file.bytes = walk.file.pre
    BY <1>1, <1>3, ScanFacts DEF Scanner!Unmoved, FileIsTrue
  <2>4. /\ entry \in CacheEntry /\ entry.path = q /\ entry.hash = entry.stamp
        /\ disk[q] = [kind |-> "file", stamp |-> entry.stamp]
    BY <2>2, <2>3, ScanFacts DEF CacheEntry
  <2>5. Scanner!NoFile \in [path : Node, pre : Nat, fd : Nat, bytes : Nat]
    BY ScanAssumption DEF Scanner!NoFile
  <2>6. /\ w \in WalkState /\ w.pc = "walk" /\ w.stack = walk.stack /\ w.names = walk.names
        /\ w.dirty = walk.dirty /\ w.manifest = walk.manifest /\ w.attempt = walk.attempt
    BY <2>5, ScanFacts DEF WalkState
  <2> HIDE DEF w, entry
  <2>7. QED BY <1>1, <2>1, <2>2, <2>4, <2>6, CollectKeeps
<1>4. QED BY <1>2, <1>3

LEMMA ScanInit == Scanner!Init => ScanInv
<1> SUFFICES ASSUME Scanner!Init PROVE ScanInv
    OBVIOUS
<1> DEFINE dirs == {Parent[p] : p \in SPath} \cup {ScanRoot}
<1>1. /\ disk = [n \in Node |-> [kind |-> IF n \in dirs THEN "dir" ELSE "file", stamp |-> 0]]
      /\ clock = 0 /\ seen = [p \in SPath |-> {}] /\ began = [scan |-> 0, attempt |-> 0]
      /\ walk = Scanner!Resting /\ cache = <<>> /\ result.how = None
  BY DEF Scanner!Init, Scanner!Path, SPath
<1>2. \A p \in SPath : Parent[p] \in dirs /\ Parent[p] \in Node
  BY ScanAssumption DEF SPath
<1> HIDE DEF dirs
<1>3. TreeIsWhole BY <1>1, <1>2 DEF TreeIsWhole
<1>4. HistoryIsTrue BY <1>1, RestingFacts DEF HistoryIsTrue
<1>5. CacheIsTrue BY <1>1, ScanAssumption DEF CacheIsTrue
<1>6. ResultIsTrue BY <1>1, ScanAssumption, RestingFacts DEF ResultIsTrue
<1>7. WalkInv(walk) BY <1>1, RestingWalks
<1>8. QED BY <1>3, <1>4, <1>5, <1>6, <1>7 DEF ScanInv

LEMMA ScanNext == ScanInv /\ Scanner!Next => ScanInv'
<1> SUFFICES ASSUME ScanInv, Scanner!Next PROVE ScanInv'
    OBVIOUS
<1>1. TreeIsWhole BY DEF ScanInv
<1>2. ASSUME NEW n \in Node, Scanner!Create(n) \/ Scanner!Delete(n) PROVE ScanInv'
  BY <1>1, <1>2, OthersMove, MovesKeepScan
<1>3. ASSUME NEW p \in SPath, Scanner!Write(p) \/ Scanner!Replace(p) PROVE ScanInv'
  BY <1>1, <1>3, OthersMove, MovesKeepScan
<1>4. ASSUME NEW p \in SPath, Scanner!Prune(p) \/ Scanner!Inspect(p) PROVE ScanInv'
  BY <1>4, PruneKeeps, InspectKeeps
<1>5. CASE Scanner!Fail \/ Scanner!Cancel
  BY <1>5, FinishKeeps DEF Scanner!Fail, Scanner!Cancel
<1>6. CASE Scanner!Scan \/ Scanner!CloseOut BY <1>6, CloseOutKeeps
<1>7. CASE Scanner!LstatRoot BY <1>7, RootKeeps
<1>8. CASE Scanner!CheckDirectory BY <1>8, CheckKeeps
<1>9. CASE Scanner!OpenDirectory BY <1>9, OpenDirectoryKeeps
<1>10. CASE Scanner!ListDirectory BY <1>10, ListKeeps
<1>11. CASE Scanner!Open \/ Scanner!Read \/ Scanner!Recheck BY <1>11, OpenKeeps, ReadKeeps, RecheckKeeps
<1>12. \/ \E n \in Node : Scanner!Create(n) \/ Scanner!Delete(n)
       \/ \E p \in SPath : Scanner!Write(p) \/ Scanner!Replace(p) \/ Scanner!Prune(p) \/ Scanner!Inspect(p)
       \/ Scanner!Scan \/ Scanner!LstatRoot \/ Scanner!CloseOut \/ Scanner!CheckDirectory
       \/ Scanner!OpenDirectory \/ Scanner!ListDirectory
       \/ Scanner!Open \/ Scanner!Read \/ Scanner!Recheck \/ Scanner!Fail \/ Scanner!Cancel
  BY DEF Scanner!Next, Scanner!Path, SPath
<1>13. QED BY <1>2, <1>3, <1>4, <1>5, <1>6, <1>7, <1>8, <1>9, <1>10, <1>11, <1>12

LEMMA ScanStutters == ScanInv /\ UNCHANGED scannerVars => ScanInv'
<1> SUFFICES ASSUME ScanInv, UNCHANGED scannerVars PROVE ScanInv'
    OBVIOUS
<1>1. /\ disk' = disk /\ clock' = clock /\ seen' = seen /\ began' = began /\ walk' = walk
      /\ cache' = cache /\ result' = result
  BY DEF scannerVars
<1>2. (Scanner!Pruned)' = Scanner!Pruned BY DEF Scanner!Pruned, Scanner!Path
<1>3. TreeIsWhole' /\ CacheIsTrue' BY <1>1 DEF ScanInv, TreeIsWhole, CacheIsTrue
<1>4. HistoryIsTrue' BY <1>1 DEF ScanInv, HistoryIsTrue, Scanner!ContentOf
<1>5. ResultIsTrue' BY <1>1, <1>2 DEF ScanInv, ResultIsTrue
<1>6. WalkInv(walk') BY <1>1 DEF ScanInv
<1>7. WalkInv(walk)' BY <1>1, <1>6, SameWalk
<1>8. QED BY <1>3, <1>4, <1>5, <1>7 DEF ScanInv

\* A complete manifest is true and nothing that stayed is left out of it, however
\* the tree is changed between any two system calls of the scan; an attempt is
\* thrown away only for a change, and "unstable" says that each attempt met one.
THEOREM ScanSafety == Spec => []ScanIsTrue
<1>1. Init => ScanInv BY ScanInit DEF Init
<1>2. ScanInv /\ [Next]_partVars => ScanInv'
  <2>1. [Next]_partVars => Scanner!Next \/ UNCHANGED scannerVars
    BY DEF Next, Only, partVars
  <2>2. QED BY <2>1, ScanNext, ScanStutters
<1>3. ScanInv => ScanIsTrue
  <2> SUFFICES ASSUME ScanInv PROVE Scanner!ManifestIsTrue /\ Scanner!UnrestIsReal
      BY DEF ScanIsTrue
  <2>1. Scanner!ManifestIsTrue
    BY DEF Scanner!ManifestIsTrue, Scanner!Path, SPath, ScanInv, ResultIsTrue, CacheIsTrue
  <2>2. walk.dirty => clock > began.attempt
    <3>1. walk.dirty => walk.pc # "idle" BY RestingFacts, ScanFacts DEF WalkShape
    <3>2. QED BY <3>1, ScanFacts DEF QuietIsClean
  <2>3. /\ walk.attempt >= 1 => began.attempt >= began.scan + walk.attempt - 1
        /\ result.how = "unstable" => clock >= began.scan + MaxScanAttempts
    BY ScanFacts DEF WalkShape, ScanInv, ResultIsTrue
  <2>4. QED BY <2>1, <2>2, <2>3 DEF Scanner!UnrestIsReal
<1>4. QED BY <1>1, <1>2, <1>3, PTL DEF Spec

--------------------------------------------------------------------------------
(***************************************************************************)
(* The upload gate.                                                        *)
(***************************************************************************)
Holders == {u \in Upload : caller[u] \in {"handed", "inside"}}
Parked == {u \in Upload : caller[u] = "parked"}

\* The queue holds each parked caller once.
QueueOf(queue, set) ==
  /\ queue \in Seq(Upload)
  /\ \A i, j \in DOMAIN queue : queue[i] = queue[j] => i = j
  /\ \A u \in Upload : u \in set <=> \E i \in DOMAIN queue : queue[i] = u

GateInv ==
  /\ caller \in [Upload -> {"out", "parked", "handed", "inside"}]
  /\ permits \in Nat /\ permits <= Limit
  /\ permits = Cardinality(Holders)
  /\ waiting # <<>> => permits = Limit
  /\ QueueOf(waiting, Parked)

LEMMA QueueGrows ==
  ASSUME NEW queue, NEW set, QueueOf(queue, set), NEW u \in Upload, u \notin set
  PROVE  QueueOf(Append(queue, u), set \cup {u}) /\ Append(queue, u) # <<>>
<1>1. queue \in Seq(Upload) BY DEF QueueOf
<1>2. /\ Append(queue, u) \in Seq(Upload)
      /\ DOMAIN queue = 1..Len(queue) /\ Len(queue) \in Nat
      /\ DOMAIN Append(queue, u) = 1 .. Len(queue) + 1
      /\ \A i \in 1..Len(queue) : Append(queue, u)[i] = queue[i]
      /\ Append(queue, u)[Len(queue) + 1] = u
  BY <1>1, AppendProperties, LenProperties
<1>3. \A i \in DOMAIN queue : queue[i] # u
  BY <1>1 DEF QueueOf
<1>4. \A i, j \in DOMAIN Append(queue, u) : Append(queue, u)[i] = Append(queue, u)[j] => i = j
  BY <1>2, <1>3 DEF QueueOf
<1>5. \A v \in Upload : v \in set \cup {u} <=> \E i \in DOMAIN Append(queue, u) : Append(queue, u)[i] = v
  <2> SUFFICES ASSUME NEW v \in Upload
               PROVE  v \in set \cup {u} <=> \E i \in DOMAIN Append(queue, u) : Append(queue, u)[i] = v
      OBVIOUS
  <2>1. CASE v = u BY <2>1, <1>2
  <2>2. CASE v # u BY <2>2, <1>2 DEF QueueOf
  <2>3. QED BY <2>1, <2>2
<1>6. QED BY <1>1, <1>2, <1>4, <1>5, AppendProperties DEF QueueOf

LEMMA QueueShrinks ==
  ASSUME NEW queue, NEW set, QueueOf(queue, set), queue # <<>>
  PROVE  /\ Head(queue) \in Upload /\ Head(queue) \in set
         /\ QueueOf(Tail(queue), set \ {Head(queue)})
<1>1. queue \in Seq(Upload) BY DEF QueueOf
<1>2. /\ Tail(queue) \in Seq(Upload) /\ Len(queue) \in Nat \ {0}
      /\ DOMAIN queue = 1..Len(queue)
      /\ DOMAIN Tail(queue) = 1 .. Len(queue) - 1
      /\ \A i \in 1 .. Len(queue) - 1 : Tail(queue)[i] = queue[i + 1]
      /\ Head(queue) = queue[1] /\ Head(queue) \in Upload
  BY <1>1, HeadTailProperties, LenProperties, EmptySeq
<1>3. Head(queue) \in set
  BY <1>2 DEF QueueOf
<1>4. \A i, j \in DOMAIN Tail(queue) : Tail(queue)[i] = Tail(queue)[j] => i = j
  BY <1>2 DEF QueueOf
<1>5. ASSUME NEW v \in Upload
      PROVE  v \in set \ {Head(queue)} <=> \E i \in DOMAIN Tail(queue) : Tail(queue)[i] = v
  <2>1. ASSUME v \in set \ {Head(queue)} PROVE \E i \in DOMAIN Tail(queue) : Tail(queue)[i] = v
    <3>1. PICK i \in DOMAIN queue : queue[i] = v BY <2>1 DEF QueueOf
    <3>2. i # 1 BY <3>1, <2>1, <1>2
    <3>3. i - 1 \in DOMAIN Tail(queue) /\ Tail(queue)[i - 1] = v BY <3>1, <3>2, <1>2
    <3>4. QED BY <3>3
  <2>2. ASSUME NEW i \in DOMAIN Tail(queue), Tail(queue)[i] = v PROVE v \in set \ {Head(queue)}
    <3>1. i + 1 \in DOMAIN queue /\ queue[i + 1] = v /\ i + 1 # 1 BY <2>2, <1>2
    <3>2. queue[1] # v BY <3>1, <1>2 DEF QueueOf
    <3>3. QED BY <3>1, <3>2, <1>2 DEF QueueOf
  <2>3. QED BY <2>1, <2>2
<1>6. QED BY <1>2, <1>3, <1>4, <1>5 DEF QueueOf

LEMMA QueueSpliced ==
  ASSUME NEW queue, NEW set, QueueOf(queue, set), NEW k \in DOMAIN queue
  PROVE  QueueOf(Gate!Without(queue, k), set \ {queue[k]})
<1> DEFINE short == Gate!Without(queue, k)
<1>1. queue \in Seq(Upload) BY DEF QueueOf
<1>2. DOMAIN queue = 1..Len(queue) /\ Len(queue) \in Nat /\ k \in 1..Len(queue)
  BY <1>1, LenProperties
<1>3. /\ short \in Seq(Upload)
      /\ DOMAIN short = 1 .. Len(queue) - 1
      /\ \A i \in 1 .. Len(queue) - 1 : short[i] = IF i < k THEN queue[i] ELSE queue[i + 1]
  <2>1. /\ SubSeq(queue, 1, k - 1) \in Seq(Upload) /\ Len(SubSeq(queue, 1, k - 1)) = k - 1
        /\ \A i \in 1 .. k - 1 : SubSeq(queue, 1, k - 1)[i] = queue[i]
    BY <1>1, <1>2
  <2>2. /\ SubSeq(queue, k + 1, Len(queue)) \in Seq(Upload) /\ Len(SubSeq(queue, k + 1, Len(queue))) = Len(queue) - k
        /\ \A i \in 1 .. Len(queue) - k : SubSeq(queue, k + 1, Len(queue))[i] = queue[k + i]
    BY <1>1, <1>2
  <2>3. short = SubSeq(queue, 1, k - 1) \o SubSeq(queue, k + 1, Len(queue))
    BY DEF Gate!Without
  <2> DEFINE a == SubSeq(queue, 1, k - 1)
             b == SubSeq(queue, k + 1, Len(queue))
  <2> HIDE DEF short, a, b
  <2>9. /\ a \o b \in Seq(Upload) /\ Len(a \o b) = Len(a) + Len(b)
        /\ \A i \in 1 .. Len(a) + Len(b) : (a \o b)[i] = IF i <= Len(a) THEN a[i] ELSE b[i - Len(a)]
    <3>1. a \in Seq(Upload) /\ b \in Seq(Upload) BY <2>1, <2>2 DEF a, b
    <3>2. QED BY <3>1, ConcatProperties
  <2>4. /\ short \in Seq(Upload) /\ Len(short) = k - 1 + (Len(queue) - k)
        /\ \A i \in 1 .. Len(queue) - 1 : short[i] = IF i <= k - 1 THEN a[i] ELSE b[i - (k - 1)]
    <3>1. short = a \o b /\ Len(a) = k - 1 /\ Len(b) = Len(queue) - k BY <2>1, <2>2, <2>3 DEF a, b
    <3>2. QED BY <3>1, <2>9, <1>2
  <2>5. DOMAIN short = 1 .. Len(queue) - 1 BY <2>4, <1>2, LenProperties
  <2>6. ASSUME NEW i \in 1 .. Len(queue) - 1 PROVE short[i] = IF i < k THEN queue[i] ELSE queue[i + 1]
    <3>1. CASE i < k BY <3>1, <2>1, <2>4, <1>2 DEF a
    <3>2. CASE i >= k
      <4>1. i - (k - 1) \in 1 .. Len(queue) - k /\ k + (i - (k - 1)) = i + 1 BY <3>2, <1>2
      <4>2. short[i] = b[i - (k - 1)] BY <3>2, <2>4, <1>2
      <4>3. b[i - (k - 1)] = queue[k + (i - (k - 1))] BY <4>1, <2>2 DEF b
      <4>4. QED BY <3>2, <4>1, <4>2, <4>3, <1>2
    <3>3. QED BY <3>1, <3>2, <1>2
  <2>7. QED BY <2>4, <2>5, <2>6
<1> HIDE DEF short
<1>4. \A i, j \in DOMAIN short : short[i] = short[j] => i = j
  <2> SUFFICES ASSUME NEW i \in DOMAIN short, NEW j \in DOMAIN short, short[i] = short[j] PROVE i = j
      OBVIOUS
  <2>1. CASE i < k /\ j < k BY <2>1, <1>2, <1>3 DEF QueueOf
  <2>2. CASE i < k /\ j >= k
    <3>1. queue[i] = queue[j + 1] /\ i \in DOMAIN queue /\ j + 1 \in DOMAIN queue BY <2>2, <1>2, <1>3
    <3>2. i = j + 1 BY <3>1 DEF QueueOf
    <3>3. QED BY <3>2, <2>2, <1>2, <1>3
  <2>3. CASE i >= k /\ j < k BY <2>3, <1>2, <1>3 DEF QueueOf
  <2>4. CASE i >= k /\ j >= k
    <3>1. queue[i + 1] = queue[j + 1] BY <2>4, <1>2, <1>3
    <3>2. i + 1 = j + 1 BY <3>1, <1>2, <1>3 DEF QueueOf
    <3>3. QED BY <3>2, <1>3, <1>2
  <2>5. QED BY <2>1, <2>2, <2>3, <2>4, <1>2, <1>3
<1>5. ASSUME NEW v \in Upload
      PROVE  v \in set \ {queue[k]} <=> \E i \in DOMAIN short : short[i] = v
  <2>1. ASSUME v \in set \ {queue[k]} PROVE \E i \in DOMAIN short : short[i] = v
    <3>1. PICK i \in DOMAIN queue : queue[i] = v BY <2>1 DEF QueueOf
    <3>2. CASE i < k
      <4>1. i \in DOMAIN short /\ short[i] = v BY <3>1, <3>2, <1>2, <1>3
      <4>2. QED BY <4>1
    <3>3. CASE i > k
      <4>1. i - 1 \in DOMAIN short /\ ~(i - 1 < k) /\ i - 1 + 1 = i BY <3>1, <3>3, <1>2, <1>3
      <4>2. short[i - 1] = v BY <4>1, <3>1, <1>3
      <4>3. QED BY <4>1, <4>2
    <3>4. QED BY <3>1, <3>2, <3>3, <2>1, <1>2
  <2>2. ASSUME NEW i \in DOMAIN short, short[i] = v PROVE v \in set \ {queue[k]}
    <3>1. CASE i < k
      <4>1. i \in DOMAIN queue /\ queue[i] = v /\ i # k BY <2>2, <3>1, <1>2, <1>3
      <4>2. QED BY <4>1 DEF QueueOf
    <3>2. CASE i >= k
      <4>1. i + 1 \in DOMAIN queue /\ queue[i + 1] = v /\ i + 1 # k BY <2>2, <3>2, <1>2, <1>3
      <4>2. QED BY <4>1 DEF QueueOf
    <3>3. QED BY <3>1, <3>2, <1>2, <1>3
  <2>3. QED BY <2>1, <2>2
<1>6. QED BY <1>3, <1>4, <1>5 DEF QueueOf, short

LEMMA GateInit == Gate!Init => GateInv
<1> SUFFICES ASSUME Gate!Init PROVE GateInv
    OBVIOUS
<1>1. Holders = {} /\ Parked = {} BY DEF Gate!Init, Holders, Parked
<1>2. QueueOf(<<>>, {}) BY DEF QueueOf
<1>3. QED BY <1>1, <1>2, GateAssumption, FS_EmptySet DEF Gate!Init, GateInv

\* Somebody leaves: the permit is freed, or is the next one's.
LEMMA GateLeave ==
  ASSUME GateInv, NEW u \in Holders, Gate!Leave(u)
  PROVE  GateInv'
<1>1. u \in Upload /\ caller[u] \in {"handed", "inside"} BY DEF Holders
<1>2. IsFiniteSet(Holders)
  BY FS_Subset, GateAssumption DEF Holders
<1>3. CASE waiting = <<>>
  <2>1. caller' = [caller EXCEPT ![u] = "out"] /\ waiting' = waiting /\ permits' = permits - 1
    BY <1>3 DEF Gate!Leave, Gate!Freed
  <2>2. Holders' = Holders \ {u} /\ Parked' = Parked
    BY <2>1, <1>1 DEF Holders, Parked, GateInv
  <2>3. Cardinality(Holders') = Cardinality(Holders) - 1 /\ Cardinality(Holders') \in Nat
    BY <1>2, <2>2, FS_RemoveElement, FS_CardinalityType
  <2>4. caller' \in [Upload -> {"out", "parked", "handed", "inside"}]
    BY <2>1, <1>1 DEF GateInv
  <2>5. QED BY <2>1, <2>2, <2>3, <2>4, <1>3, GateAssumption DEF GateInv
<1>4. CASE waiting # <<>>
  <2> DEFINE h == Head(waiting)
  <2>1. caller' = [caller EXCEPT ![u] = "out", ![h] = "handed"] /\ waiting' = Tail(waiting) /\ permits' = permits
    BY <1>4 DEF Gate!Leave, Gate!Freed
  <2>2. h \in Upload /\ h \in Parked /\ QueueOf(Tail(waiting), Parked \ {h})
    BY <1>4, QueueShrinks DEF GateInv
  <2> HIDE DEF h
  <2>3. Holders' = (Holders \ {u}) \cup {h} /\ Parked' = Parked \ {h} /\ h \notin Holders
    BY <2>1, <2>2, <1>1 DEF Holders, Parked, GateInv
  <2>4. /\ IsFiniteSet(Holders \ {u}) /\ Cardinality(Holders \ {u}) = Cardinality(Holders) - 1
    BY <1>2, FS_RemoveElement
  <2>5. Cardinality(Holders') = Cardinality(Holders \ {u}) + 1
    BY <2>3, <2>4, FS_AddElement
  <2>6. Cardinality(Holders') = permits
    BY <2>4, <2>5 DEF GateInv
  <2>7. caller' \in [Upload -> {"out", "parked", "handed", "inside"}]
    BY <2>1, <2>2, <1>1 DEF GateInv
  <2>8. QED BY <2>1, <2>2, <2>3, <2>6, <2>7, <1>4 DEF GateInv
<1>5. QED BY <1>3, <1>4

LEMMA GateStep == GateInv /\ (Gate!Next \/ UNCHANGED gateVars) => GateInv'
<1> SUFFICES ASSUME GateInv, Gate!Next \/ UNCHANGED gateVars
             PROVE  GateInv'
    OBVIOUS
<1>0. IsFiniteSet(Holders)
  BY FS_Subset, GateAssumption DEF Holders
<1>1. ASSUME NEW u \in Upload, Gate!Call(u)
      PROVE  GateInv'
  <2>1. CASE permits >= Limit
    <3>1. waiting' = Append(waiting, u) /\ caller' = [caller EXCEPT ![u] = "parked"] /\ permits' = permits /\ caller[u] = "out"
      BY <1>1, <2>1, GateAssumption DEF Gate!Call, GateInv
    <3>2. Holders' = Holders /\ Parked' = Parked \cup {u} /\ u \notin Parked
      BY <3>1 DEF Holders, Parked, GateInv
    <3>3. QueueOf(waiting', Parked')
      BY <3>1, <3>2, QueueGrows DEF GateInv
    <3>4. caller' \in [Upload -> {"out", "parked", "handed", "inside"}]
      BY <3>1 DEF GateInv
    <3>5. QED BY <3>1, <3>2, <3>3, <3>4, <2>1, GateAssumption DEF GateInv
  <2>2. CASE permits < Limit
    <3>1. permits' = permits + 1 /\ caller' = [caller EXCEPT ![u] = "inside"] /\ waiting' = waiting /\ caller[u] = "out"
      BY <1>1, <2>2, GateAssumption DEF Gate!Call, GateInv
    <3>2. Holders' = Holders \cup {u} /\ u \notin Holders /\ Parked' = Parked
      BY <3>1 DEF Holders, Parked, GateInv
    <3>3. Cardinality(Holders') = Cardinality(Holders) + 1
      BY <3>2, <1>0, FS_AddElement
    <3>4. caller' \in [Upload -> {"out", "parked", "handed", "inside"}]
      BY <3>1 DEF GateInv
    <3>5. QED BY <3>1, <3>2, <3>3, <3>4, <2>2, GateAssumption DEF GateInv
  <2>3. QED BY <2>1, <2>2, GateAssumption DEF GateInv
<1>2. ASSUME NEW u \in Upload, Gate!Finish(u)
      PROVE  GateInv'
  BY <1>2, GateLeave DEF Gate!Finish, Holders
<1>3. ASSUME NEW u \in Upload, Gate!Resume(u)
      PROVE  GateInv'
  <2>1. CASE u \in signalled
    BY <1>3, <2>1, GateLeave DEF Gate!Resume, Holders
  <2>2. CASE u \notin signalled
    <3>1. caller' = [caller EXCEPT ![u] = "inside"] /\ caller[u] = "handed" /\ permits' = permits /\ waiting' = waiting
      BY <1>3, <2>2 DEF Gate!Resume
    <3>2. Holders' = Holders /\ Parked' = Parked /\ caller' \in [Upload -> {"out", "parked", "handed", "inside"}]
      BY <3>1 DEF Holders, Parked, GateInv
    <3>3. QED BY <3>1, <3>2 DEF GateInv
  <2>3. QED BY <2>1, <2>2
<1>4. ASSUME NEW u \in Upload, Gate!Abort(u)
      PROVE  GateInv'
  <2>1. CASE caller[u] = "parked"
    <3>1. PICK k \in DOMAIN waiting : waiting[k] = u /\ waiting' = Gate!Without(waiting, k)
      BY <1>4, <2>1 DEF Gate!Abort
    <3>2. caller' = [caller EXCEPT ![u] = "out"] /\ permits' = permits
      BY <1>4, <2>1 DEF Gate!Abort
    <3>3. Holders' = Holders /\ Parked' = Parked \ {u} /\ caller' \in [Upload -> {"out", "parked", "handed", "inside"}]
      BY <3>2, <2>1 DEF Holders, Parked, GateInv
    <3>4. QueueOf(waiting', Parked')
      BY <3>1, <3>3, QueueSpliced DEF GateInv
    <3>5. waiting # <<>>
      BY <3>1
    <3>6. QED BY <3>2, <3>3, <3>4, <3>5 DEF GateInv
  <2>2. CASE caller[u] # "parked"
    <3>1. UNCHANGED <<permits, waiting, caller>>
      BY <1>4, <2>2 DEF Gate!Abort
    <3>2. QED BY <3>1 DEF GateInv, Holders, Parked
  <2>3. QED BY <2>1, <2>2
<1>5. CASE UNCHANGED gateVars
  BY <1>5 DEF gateVars, GateInv, Holders, Parked
<1>6. QED BY <1>1, <1>2, <1>3, <1>4, <1>5 DEF Gate!Next

\* No permit is lost or held twice, however cancels and hand-overs interleave
\* (createGate of artifact-sync.ts).
THEOREM GateSafety == Spec => []PermitsAreKept
<1>1. Init => GateInv
  BY GateInit DEF Init
<1>2. GateInv /\ [Next]_partVars => GateInv'
  <2>1. [Next]_partVars => Gate!Next \/ UNCHANGED gateVars
    BY DEF Next, Only, partVars
  <2>2. QED BY <2>1, GateStep
<1>3. GateInv => PermitsAreKept
  <2> SUFFICES ASSUME GateInv PROVE Gate!PermitsAreKept
      BY DEF PermitsAreKept
  <2>1. Gate!IsInjective(waiting)
    BY DEF GateInv, QueueOf, Gate!IsInjective
  <2>2. Gate!Range(waiting) = {u \in Upload : caller[u] = "parked"}
    <3>1. \A i \in DOMAIN waiting : waiting[i] \in Upload
      BY LenProperties, ElementOfSeq DEF GateInv, QueueOf
    <3>2. QED BY <3>1 DEF GateInv, QueueOf, Parked, Gate!Range
  <2>3. permits = Cardinality({u \in Upload : caller[u] \in {"handed", "inside"}})
    BY DEF GateInv, Holders
  <2>4. permits <= Limit /\ (waiting # <<>> => permits = Limit)
    BY DEF GateInv
  <2>5. \A S : Gate!Cardinality(S) = Cardinality(S)
    BY DEF Gate!Cardinality, Cardinality
  <2>6. QED BY <2>1, <2>2, <2>3, <2>4, <2>5 DEF Gate!PermitsAreKept
<1>4. QED
  BY <1>1, <1>2, <1>3, PTL DEF Spec

--------------------------------------------------------------------------------
(***************************************************************************)
(* The lock of the data directory.                                         *)
(***************************************************************************)
\* A process that has made a lock and is not through with it.
Relies(p) == process[p] \notin {"down", "exit"}

\* Where the next step may be an unlink that does not look.
Blind == {"locked", "undo", "unlink"}

Stages == DataDir!Open \cup {"down", "locked", "held", "release", "unlink", "undo", "exit"}

\* Inodes are never used again.  The lock file is that of every process that is not
\* through with its own, or that was lost; and lost at once where it matters.
DirectoryInv ==
  /\ process \in [Process -> Stages]
  /\ lockFile \in Nat /\ inode \in Nat /\ own \in [Process -> Nat]
  /\ lockFile <= inode
  /\ \A p \in Process : own[p] <= inode /\ (own[p] = 0 <=> process[p] = "down")
  /\ \A p, q \in Process : own[p] = own[q] /\ own[p] # 0 => p = q
  /\ \A p \in Process : p \in leaking => process[p] # "down"
  /\ \A p \in Process : Relies(p) => lockFile = own[p] \/ own[p] \in lost
  /\ \A p \in Process : process[p] \in Blind => lockFile = own[p] \/ p \in raced

LEMMA DirectoryInit == DataDir!Init => DirectoryInv
<1> SUFFICES ASSUME DataDir!Init PROVE DirectoryInv
    OBVIOUS
<1>1. "down" \in Stages BY DEF Stages
<1>2. \A p \in Process : process[p] = "down" /\ own[p] = 0 BY DEF DataDir!Init
<1>3. process \in [Process -> Stages] /\ own \in [Process -> Nat] BY <1>1 DEF DataDir!Init
<1>4. \A p \in Process : ~Relies(p) /\ process[p] \notin Blind BY <1>2 DEF Relies, Blind
<1>5. lockFile = 0 /\ inode = 0 /\ leaking = {} BY DEF DataDir!Init
<1>6. QED BY <1>2, <1>3, <1>4, <1>5 DEF DirectoryInv

\* A step of p that changes nothing of the locks but where p is with its own; it may
\* forget a race that it has survived.
LEMMA DirectoryGo ==
  ASSUME DirectoryInv, NEW p \in Process, NEW to \in Stages \ {"down"},
         Relies(p), process' = [process EXCEPT ![p] = to],
         leaking' \subseteq leaking \cup {p}, UNCHANGED <<lockFile, inode, own, lost>>,
         \A q \in Process : q # p /\ q \in raced => q \in raced',
         to \in Blind => lockFile = own[p] \/ p \in raced'
  PROVE  DirectoryInv'
<1>1. /\ process' \in [Process -> Stages] /\ process'[p] = to
      /\ \A q \in Process : q # p => process'[q] = process[q]
  BY DEF DirectoryInv
<1>2. own[p] # 0
  BY DEF DirectoryInv, Relies
<1>3. \A q \in Process : own[q] = 0 <=> process'[q] = "down"
  BY <1>1, <1>2 DEF DirectoryInv
<1>4. \A q \in Process : Relies(q)' => lockFile = own[q] \/ own[q] \in lost
  BY <1>1 DEF DirectoryInv, Relies
<1>5. \A q \in Process : process'[q] \in Blind => lockFile = own[q] \/ q \in raced'
  BY <1>1 DEF DirectoryInv
<1>6. \A q \in Process : q \in leaking' => process'[q] # "down"
  BY <1>1 DEF DirectoryInv
<1>7. QED BY <1>1, <1>3, <1>4, <1>5, <1>6 DEF DirectoryInv

\* The plain steps of a process.
LEMMA DirectoryPlain ==
  ASSUME DirectoryInv, NEW p \in Process, NEW from, NEW to \in Stages \ {"down"},
         DataDir!Go(p, from, to), from \notin {"down", "exit"},
         to \in Blind => lockFile = own[p] \/ from = "locked"
  PROVE  DirectoryInv'
<1>1. /\ process[p] = from /\ process' = [process EXCEPT ![p] = to]
      /\ UNCHANGED <<lockFile, inode, own, lost, leaking, raced>>
  BY DEF DataDir!Go, DataDir!Stays
<1>2. to \in Blind => lockFile = own[p] \/ p \in raced
  BY <1>1 DEF DirectoryInv, Blind
<1>3. QED BY <1>1, <1>2, DirectoryGo DEF Relies

\* A process that is gone.
LEMMA DirectoryDown ==
  ASSUME DirectoryInv, NEW p \in Process, DataDir!Gone(p)
  PROVE  DirectoryInv'
<1>0. /\ process' = [process EXCEPT ![p] = "down"] /\ own' = [own EXCEPT ![p] = 0]
      /\ leaking' = leaking \ {p} /\ raced' = raced \ {p} /\ UNCHANGED <<lockFile, inode, lost>>
  BY DEF DataDir!Gone
<1>1. process' \in [Process -> Stages] /\ own' \in [Process -> Nat]
  BY <1>0 DEF DirectoryInv, Stages
<1>2. /\ process'[p] = "down" /\ own'[p] = 0
      /\ \A q \in Process : q # p => process'[q] = process[q] /\ own'[q] = own[q]
  BY <1>0 DEF DirectoryInv
<1>3. \A q \in Process : Relies(q)' => q # p /\ Relies(q)
  BY <1>2 DEF Relies
<1>4. \A q, r \in Process : own'[q] = own'[r] /\ own'[q] # 0 => q = r
  BY <1>2 DEF DirectoryInv
<1>5. \A q \in Process : own'[q] <= inode /\ (own'[q] = 0 <=> process'[q] = "down")
  BY <1>2 DEF DirectoryInv
<1>6. \A q \in Process : Relies(q)' => lockFile = own'[q] \/ own'[q] \in lost
  BY <1>2, <1>3 DEF DirectoryInv
<1>7. \A q \in Process : process'[q] \in Blind => lockFile = own'[q] \/ q \in raced'
  BY <1>0, <1>2 DEF DirectoryInv, Blind
<1>8. \A q \in Process : q \in leaking' => process'[q] # "down"
  BY <1>0, <1>2 DEF DirectoryInv
<1>9. QED BY <1>0, <1>1, <1>4, <1>5, <1>6, <1>7, <1>8 DEF DirectoryInv

\* The lock file goes, by an rm or at the hand of a process that is then through; it is
\* lost to the others.
LEMMA DirectoryUnlinked ==
  ASSUME DirectoryInv, lockFile' = 0, UNCHANGED <<inode, own, leaking>>,
         process' \in [Process -> Stages],
         \A q \in Process : \/ process'[q] = process[q]
                            \/ process'[q] = "exit" /\ process[q] # "down",
         \A q \in Process : Relies(q)' /\ lockFile = own[q] => own[q] \in lost',
         \A q \in Process : process'[q] \in Blind /\ lockFile = own[q] => q \in raced',
         lost \subseteq lost', raced \subseteq raced'
  PROVE  DirectoryInv'
<1>1. \A q \in Process : Relies(q)' => Relies(q)
  BY DEF Relies
<1>2. \A q \in Process : process'[q] \in Blind => process[q] \in Blind
  BY DEF Blind
<1>3. \A q \in Process : process'[q] = "down" <=> process[q] = "down"
  OBVIOUS
<1>4. \A q \in Process : Relies(q)' => own[q] \in lost'
  BY <1>1 DEF DirectoryInv
<1>5. \A q \in Process : process'[q] \in Blind => q \in raced'
  BY <1>2 DEF DirectoryInv
<1>6. 0 <= inode BY DEF DirectoryInv
<1>7. QED BY <1>3, <1>4, <1>5, <1>6 DEF DirectoryInv

\* A lock is made where none is.
LEMMA DirectoryAcquired ==
  ASSUME DirectoryInv, NEW p \in Process, DataDir!Acquire(p)
  PROVE  DirectoryInv'
<1>1. /\ process[p] = "down" /\ lockFile = 0 /\ lockFile' = inode + 1 /\ inode' = inode + 1
      /\ own' = [own EXCEPT ![p] = inode + 1] /\ process' = [process EXCEPT ![p] = "locked"]
      /\ UNCHANGED <<leaking, lost, raced>>
  BY DEF DataDir!Acquire
<1>2. /\ process'[p] = "locked" /\ own'[p] = inode + 1
      /\ \A q \in Process : q # p => process'[q] = process[q] /\ own'[q] = own[q]
      /\ process' \in [Process -> Stages] /\ own' \in [Process -> Nat] /\ inode \in Nat
  BY <1>1 DEF DirectoryInv, Stages
<1>3. ASSUME NEW q \in Process
      PROVE  /\ own'[q] <= inode' /\ (own'[q] = 0 <=> process'[q] = "down")
             /\ q # p => own'[q] # inode + 1
  <2>1. own[q] <= inode /\ (own[q] = 0 <=> process[q] = "down") /\ own[q] \in Nat /\ inode \in Nat
    BY DEF DirectoryInv
  <2>2. QED BY <1>1, <1>2, <2>1
<1>4. \A q, r \in Process : own'[q] = own'[r] /\ own'[q] # 0 => q = r
  BY <1>2, <1>3 DEF DirectoryInv
<1>5. ASSUME NEW q \in Process, q # p
      PROVE  /\ Relies(q)' => own'[q] \in lost
             /\ process'[q] \in Blind => q \in raced
  <2>1. (own[q] = 0 <=> process[q] = "down") /\ (Relies(q) => own[q] = 0 \/ own[q] \in lost)
        /\ (process[q] \in Blind => own[q] = 0 \/ q \in raced)
    BY <1>1 DEF DirectoryInv
  <2>2. QED BY <1>2, <1>5, <2>1 DEF Relies, Blind
<1>6. \A q \in Process : q \in leaking => process'[q] # "down"
  BY <1>2 DEF DirectoryInv
<1>7. \A q \in Process : Relies(q)' => lockFile' = own'[q] \/ own'[q] \in lost
  BY <1>1, <1>2, <1>5
<1>8. \A q \in Process : process'[q] \in Blind => lockFile' = own'[q] \/ q \in raced
  BY <1>1, <1>2, <1>5
<1>9. QED BY <1>1, <1>2, <1>3, <1>4, <1>6, <1>7, <1>8 DEF DirectoryInv

\* A process unlinks the lock file, or fails to.
LEMMA DirectoryUnlink ==
  ASSUME DirectoryInv, NEW p \in Process, DataDir!Unlink(p)
  PROVE  DirectoryInv'
<1>1. /\ process[p] \in {"unlink", "undo"} /\ process' = [process EXCEPT ![p] = "exit"]
      /\ UNCHANGED <<inode, own, leaking>> /\ Relies(p)
  BY DEF DataDir!Unlink, Relies
<1>2. /\ process'[p] = "exit" /\ \A q \in Process : q # p => process'[q] = process[q]
      /\ process' \in [Process -> Stages] /\ "exit" \in Stages \ {"down"} /\ "exit" \notin Blind
  BY <1>1 DEF DirectoryInv, Stages, Blind
<1>3. CASE lockFile' = lockFile
  <2>1. UNCHANGED <<lost, raced>> BY <1>3 DEF DataDir!Unlink
  <2>2. QED BY <1>1, <1>2, <1>3, <2>1, DirectoryGo
<1>4. CASE lockFile' = 0 /\ lockFile' # lockFile /\ lockFile # own[p]
  <2>1. lost' = lost \cup {lockFile} /\ raced' = raced \cup DataDir!Racing
    BY <1>4 DEF DataDir!Unlink
  <2>2. \A q \in Process : process'[q] \in Blind /\ lockFile = own[q] => q \in raced'
    BY <1>2, <2>1 DEF DataDir!Racing, Blind
  <2>3. QED BY <1>1, <1>2, <1>4, <2>1, <2>2, DirectoryUnlinked DEF Relies
<1>5. CASE lockFile' = 0 /\ lockFile' # lockFile /\ lockFile = own[p]
  <2>1. UNCHANGED <<lost, raced>> BY <1>5 DEF DataDir!Unlink
  <2>2. \A q \in Process : lockFile = own[q] => q = p
    BY <1>1, <1>5 DEF DirectoryInv, Relies
  <2>3. \A q \in Process : Relies(q)' /\ lockFile = own[q] => own[q] \in lost'
    BY <1>2, <2>2 DEF Relies
  <2>4. \A q \in Process : process'[q] \in Blind /\ lockFile = own[q] => q \in raced'
    BY <1>2, <2>2
  <2>5. QED BY <1>1, <1>2, <1>5, <2>1, <2>3, <2>4, DirectoryUnlinked DEF Relies
<1>6. QED BY <1>3, <1>4, <1>5 DEF DataDir!Unlink

LEMMA DirectoryStep == DirectoryInv /\ (DataDir!Next \/ UNCHANGED directoryVars) => DirectoryInv'
<1> SUFFICES ASSUME DirectoryInv, DataDir!Next \/ UNCHANGED directoryVars
             PROVE  DirectoryInv'
    OBVIOUS
<1>1. ASSUME NEW p \in Process, DataDir!WriteHolder(p)
      PROVE  DirectoryInv'
  <2>1. CASE DataDir!Go(p, "locked", "undo")
    BY <2>1, DirectoryPlain DEF Stages
  <2>2. CASE ~DataDir!Go(p, "locked", "undo")
    <3>1. /\ process[p] = "locked" /\ process' = [process EXCEPT ![p] = "held"]
          /\ raced' = raced \ {p} /\ UNCHANGED <<lockFile, inode, own, lost, leaking>>
      BY <1>1, <2>2 DEF DataDir!WriteHolder, DataDir!Stays
    <3>2. QED BY <3>1, DirectoryGo DEF Stages, Relies, Blind
  <2>3. QED BY <2>1, <2>2
<1>2. ASSUME NEW p \in Process, DataDir!OpenDatabase(p)
      PROVE  DirectoryInv'
  <2>1. CASE \E to \in {"release", "open"} : DataDir!Go(p, "held", to)
    BY <2>1, DirectoryPlain DEF Stages, DataDir!Open, Blind
  <2>2. CASE ~\E to \in {"release", "open"} : DataDir!Go(p, "held", to)
    <3>1. /\ process[p] = "held" /\ process' = [process EXCEPT ![p] = "release"]
          /\ leaking' = leaking \cup {p} /\ UNCHANGED <<lockFile, inode, own, lost, raced>>
      BY <1>2, <2>2 DEF DataDir!OpenDatabase, DataDir!Stays
    <3>2. QED BY <3>1, DirectoryGo DEF Stages, Relies, Blind
  <2>3. QED BY <2>1, <2>2
<1>3. ASSUME NEW p \in Process,
             DataDir!Listen(p) \/ DataDir!StartScheduler(p) \/ DataDir!Claim(p)
               \/ DataDir!Signal(p) \/ DataDir!Drained(p) \/ DataDir!Swept(p)
      PROVE  DirectoryInv'
  <2>1. \E from, to \in DataDir!Open : DataDir!Go(p, from, to)
    BY <1>3 DEF DataDir!Listen, DataDir!StartScheduler, DataDir!Claim, DataDir!Signal, DataDir!Drained,
                DataDir!Swept, DataDir!Open
  <2>2. QED BY <2>1, DirectoryPlain DEF DataDir!Open, Stages, Blind
<1>4. ASSUME NEW p \in Process, DataDir!Compare(p)
      PROVE  DirectoryInv'
  <2>1. CASE DataDir!Ours(p)
    <3>1. DataDir!Go(p, "release", "unlink") /\ lockFile = own[p]
      BY <1>4, <2>1 DEF DataDir!Compare, DataDir!Ours
    <3>2. QED BY <3>1, DirectoryPlain DEF Stages
  <2>2. CASE ~DataDir!Ours(p)
    <3>1. DataDir!Go(p, "release", "exit")
      BY <1>4, <2>2 DEF DataDir!Compare
    <3>2. QED BY <3>1, DirectoryPlain DEF Stages, Blind
  <2>3. QED BY <2>1, <2>2
<1>5. ASSUME NEW p \in Process, DataDir!CloseHttp(p)
      PROVE  DirectoryInv'
  <2>1. /\ process[p] = "http" /\ process' = [process EXCEPT ![p] = "db"]
        /\ UNCHANGED <<lockFile, inode, own, leaking, lost, raced>>
    BY <1>5 DEF DataDir!CloseHttp
  <2>2. QED BY <2>1, DirectoryGo DEF Stages, DataDir!Open, Relies, Blind
<1>6. ASSUME NEW p \in Process, DataDir!CloseDatabase(p)
      PROVE  DirectoryInv'
  <2>1. CASE DataDir!Go(p, "db", "release")
    BY <2>1, DirectoryPlain DEF Stages, Blind
  <2>2. CASE ~DataDir!Go(p, "db", "release")
    BY <1>6, <2>2, DirectoryDown DEF DataDir!CloseDatabase
  <2>3. QED BY <2>1, <2>2
<1>7. ASSUME NEW p \in Process, DataDir!Exit(p) \/ DataDir!Crash(p)
      PROVE  DirectoryInv'
  BY <1>7, DirectoryDown DEF DataDir!Exit, DataDir!Crash
<1>8. ASSUME NEW p \in Process, DataDir!Connect(p) \/ DataDir!Disconnect(p)
      PROVE  DirectoryInv'
  BY <1>8 DEF DataDir!Connect, DataDir!Disconnect, DirectoryInv, Relies
<1>9. CASE DataDir!RemoveLock
  <2>1. /\ lockFile' = 0 /\ UNCHANGED <<inode, own, process, leaking>>
        /\ lost' = lost \cup {lockFile} /\ raced' = raced \cup DataDir!Racing
    BY <1>9 DEF DataDir!RemoveLock
  <2>2. \A q \in Process : process'[q] \in Blind /\ lockFile = own[q] => q \in raced'
    BY <2>1 DEF DataDir!Racing, Blind
  <2>3. process' \in [Process -> Stages] BY <2>1 DEF DirectoryInv
  <2>4. QED BY <2>1, <2>2, <2>3, DirectoryUnlinked
<1>10. CASE UNCHANGED directoryVars
  BY <1>10 DEF directoryVars, DirectoryInv, Relies
<1>11. QED
  BY <1>1, <1>2, <1>3, <1>4, <1>5, <1>6, <1>7, <1>8, <1>9, <1>10, DirectoryAcquired, DirectoryUnlink
     DEF DataDir!Next, DataDir!ProcessStep

\* Whoever has the database open has the lock, unless it was lost; two have it open at
\* once only if one of them has lost its lock, or has released it after a migration that
\* failed; and nobody takes another's lock but in a race (data-dir-lock.ts, start.ts).
THEOREM DirectorySafety == Spec => []OneProcessHasTheData
<1>1. Init => DirectoryInv
  BY DirectoryInit DEF Init
<1>2. DirectoryInv /\ [Next]_partVars => DirectoryInv'
  <2>1. [Next]_partVars => DataDir!Next \/ UNCHANGED directoryVars
    BY DEF Next, Only, partVars
  <2>2. QED BY <2>1, DirectoryStep
<1>3. DirectoryInv => OneProcessHasTheData
  <2> SUFFICES ASSUME DirectoryInv PROVE DataDir!OneProcessHasTheData
      BY DEF OneProcessHasTheData
  <2>1. ASSUME NEW p \in Process, DataDir!Uses(p), ~DataDir!Released(p)
        PROVE  (lockFile = own[p] \/ own[p] \in lost) /\ own[p] # 0
    <3>1. process[p] # "down" /\ Relies(p)
      BY <2>1 DEF DataDir!Uses, DataDir!Released, DirectoryInv, Relies, DataDir!Open
    <3>2. QED BY <3>1 DEF DirectoryInv
  <2>2. ASSUME NEW p \in Process, NEW q \in Process, DataDir!Uses(p), DataDir!Uses(q), p # q,
               ~DataDir!Released(p), ~DataDir!Released(q)
        PROVE  {own[p], own[q]} \cap lost # {}
    <3>1. ~(own[p] = own[q] /\ own[p] # 0) BY <2>2 DEF DirectoryInv
    <3>2. QED BY <2>1, <2>2, <3>1
  <2>3. \A p \in Process : process[p] \in {"undo", "unlink"} => lockFile = own[p] \/ p \in raced
    BY DEF DirectoryInv, Blind
  <2>4. QED BY <2>1, <2>2, <2>3 DEF DataDir!OneProcessHasTheData
<1>4. QED
  BY <1>1, <1>2, <1>3, PTL DEF Spec

--------------------------------------------------------------------------------
(***************************************************************************)
(* The start of a daemon.                                                  *)
(***************************************************************************)

StartupTypes ==
  /\ root \in [Startup!Root -> {"none", "half", "made", "gone", "stuck", "replaced"}]
  /\ owned \in SUBSET Startup!Root
  /\ binary \in Nat /\ pinned \in Nat /\ ran \in [Startup!Probe -> Nat]
  /\ pinned <= binary

Prepared == {"stat", "before_version", "version", "after_version", "version_answer", "before_help",
             "help", "after_help", "help_answer", "bootstrap", "polling"}

\* Every directory that is there is being made or known to be released, and the
\* release has passed it only when it is gone.
DirectoriesAreKnown ==
  /\ root["scratch"] = "half" => pc \in {"chmod", "crashed"}
  /\ root["control"] = "half" => pc \in {"files", "crashed"}
  /\ \A d \in Startup!Root : root[d] = "made" => d \in owned
  /\ pc \in {"bundle", "files"} => "scratch" \in owned
  /\ pc \in Prepared => owned = Startup!Root
  /\ pc \in {"release_scratch", "ended"} => root["control"] # "made"
  /\ pc = "ended" => root["scratch"] # "made"

\* The file only gets newer: what a spawn executed lies between the file that
\* was pinned and the one that is there.
Between(i) == pinned <= ran[i] /\ ran[i] <= binary
ProbesArePinned ==
  /\ pc = "after_version" => Between("version")
  /\ pc \in {"version_answer", "before_help", "help", "after_help", "help_answer", "bootstrap", "polling"} =>
       ran["version"] = pinned
  /\ pc = "after_help" => Between("help")
  /\ pc \in {"help_answer", "bootstrap", "polling"} => ran["help"] = pinned

StartupInv == StartupTypes /\ DirectoriesAreKnown /\ ProbesArePinned

LEMMA StartupInit == Startup!Init => StartupInv
BY DEF Startup!Init, StartupInv, StartupTypes, DirectoriesAreKnown, ProbesArePinned, Prepared, Startup!Root, Startup!Probe

LEMMA StartupStep == StartupInv /\ (Startup!Next \/ UNCHANGED startupVars) => StartupInv'
<1> SUFFICES ASSUME StartupInv, Startup!Next \/ UNCHANGED startupVars
             PROVE  StartupInv'
    OBVIOUS
<1> USE DEF StartupInv, StartupTypes, DirectoriesAreKnown, ProbesArePinned, Between, Prepared,
            Startup!Root, Startup!Probe, Startup!At, Startup!FailAt, Startup!OnFailure
<1>1. CASE Startup!CreateJail
  BY <1>1 DEF Startup!CreateJail, Startup!Make
<1>2. CASE Startup!FinishJail
  BY <1>2 DEF Startup!FinishJail, Startup!Finish
<1>3. CASE Startup!CreateControlRoot
  BY <1>3 DEF Startup!CreateControlRoot, Startup!Make
<1>4. CASE Startup!FinishControlRoot
  <2>1. StartupTypes' BY <1>4 DEF Startup!FinishControlRoot, Startup!Finish
  <2>2. DirectoriesAreKnown'
    <3>1. CASE pc' = "stat"
      <4>1. pc = "files" /\ owned' = owned \cup {"control"} /\ pc' = "stat"
        BY <1>4, <3>1 DEF Startup!FinishControlRoot, Startup!Finish
      <4>2. owned' = Startup!Root
        BY <4>1
      <4>3. /\ root'["control"] # "half" /\ root'["scratch"] = root["scratch"]
            /\ root'["control"] = "made" => "control" \in owned'
        BY <1>4, <3>1, <4>1 DEF Startup!FinishControlRoot, Startup!Finish
      <4>4. QED BY <4>1, <4>2, <4>3
    <3>2. CASE pc' = "release_control"
      BY <1>4, <3>2 DEF Startup!FinishControlRoot, Startup!Finish
    <3>3. QED BY <1>4, <3>1, <3>2 DEF Startup!FinishControlRoot, Startup!Finish
  <2>3. ProbesArePinned' BY <1>4 DEF Startup!FinishControlRoot, Startup!Finish
  <2>4. QED BY <2>1, <2>2, <2>3
<1>5. CASE Startup!Stat
  <2>1. StartupTypes' BY <1>5 DEF Startup!Stat
  <2>2. DirectoriesAreKnown' BY <1>5 DEF Startup!Stat
  <2>3. ProbesArePinned' BY <1>5 DEF Startup!Stat
  <2>4. QED BY <2>1, <2>2, <2>3
<1>6. CASE Startup!ProbeVersion
  <2>1. StartupTypes' BY <1>6 DEF Startup!ProbeVersion, Startup!Look, Startup!LookAgain, Startup!Spawn
  <2>2. DirectoriesAreKnown' BY <1>6 DEF Startup!ProbeVersion, Startup!Look, Startup!LookAgain, Startup!Spawn
  <2>3. ProbesArePinned' BY <1>6 DEF Startup!ProbeVersion, Startup!Look, Startup!LookAgain, Startup!Spawn
  <2>4. QED BY <2>1, <2>2, <2>3
<1>7. CASE Startup!ProbeHelp
  <2>1. StartupTypes' BY <1>7 DEF Startup!ProbeHelp, Startup!Look, Startup!LookAgain, Startup!Spawn
  <2>2. DirectoriesAreKnown' BY <1>7 DEF Startup!ProbeHelp, Startup!Look, Startup!LookAgain, Startup!Spawn
  <2>3. ProbesArePinned' BY <1>7 DEF Startup!ProbeHelp, Startup!Look, Startup!LookAgain, Startup!Spawn
  <2>4. QED BY <2>1, <2>2, <2>3
<1>8. CASE Startup!Bootstrap
  BY <1>8 DEF Startup!Bootstrap
<1>9. CASE Startup!Leave
  BY <1>9 DEF Startup!Leave
<1>10. CASE Startup!ReleaseControl
  BY <1>10 DEF Startup!ReleaseControl, Startup!Release
<1>11. CASE Startup!ReleaseScratch
  BY <1>11 DEF Startup!ReleaseScratch, Startup!Release
<1>12. CASE Startup!Update
  <2>1. StartupTypes' BY <1>12 DEF Startup!Update
  <2>2. DirectoriesAreKnown' BY <1>12 DEF Startup!Update
  <2>3. ProbesArePinned' BY <1>12 DEF Startup!Update
  <2>4. QED BY <2>1, <2>2, <2>3
<1>13. CASE Startup!Crash
  BY <1>13 DEF Startup!Crash
<1>14. ASSUME NEW d \in Startup!Root, Startup!Displace(d)
       PROVE  StartupInv'
  BY <1>14 DEF Startup!Displace
<1>15. CASE UNCHANGED startupVars
  BY <1>15 DEF startupVars
<1>16. QED
  BY <1>1, <1>2, <1>3, <1>4, <1>5, <1>6, <1>7, <1>8, <1>9, <1>10, <1>11, <1>12, <1>13, <1>14, <1>15
     DEF Startup!Next

\* A process that ends by itself leaves no directory of its start behind, and a
\* daemon that polls has the binary that it probed (cli.ts, probe-claude.ts).
THEOREM StartupSafety == Spec => []StartIsClean
<1>1. Init => StartupInv
  BY StartupInit DEF Init
<1>2. [Next]_partVars => Startup!Next \/ UNCHANGED startupVars
  BY DEF Next, Only, partVars
<1>3. StartupInv /\ [Next]_partVars => StartupInv'
  BY <1>2, StartupStep
<1>4. StartupInv => StartIsClean
  BY DEF StartupInv, StartupTypes, DirectoriesAreKnown, ProbesArePinned, Prepared, StartIsClean, Startup!StartIsClean,
         Startup!Root, Startup!Probe
<1>5. QED
  BY <1>1, <1>3, <1>4, PTL DEF Spec

--------------------------------------------------------------------------------
(***************************************************************************)
(* The claim of machines for a team.                                       *)
(***************************************************************************)
ClaimSpace == Machine \cup {ClaimTeam, OtherTeam}
ChainRow == {r \in [kind : {"manifest", "session"}, machine : Machine, hash : ClaimHash \cup {None}, space : ClaimSpace] :
               r.kind = "manifest" => r.hash \in ClaimHash}
ClaimState ==
  [pc : {"idle", "plan", "copy", "write"}, todo : SUBSET Machine, fresh : SUBSET Machine,
   count : [Machine -> Nat \X Nat], need : SUBSET ClaimHash, from : [ClaimHash -> ClaimSpace \cup {None}],
   left : SUBSET ClaimHash, hash : ClaimHash \cup {None}]

ClaimTypes ==
  /\ owner \in [Machine -> {None, ClaimTeam, OtherTeam}] /\ chain \subseteq ChainRow /\ IsFiniteSet(chain)
  /\ blobRow \in [ClaimSpace -> SUBSET ClaimHash]
  /\ file \in [ClaimSpace -> [ClaimHash -> {"none", "good", "bad"}]]
  /\ claim \in ClaimState

\* The manifests of a machine that nobody has claimed, as the plan counts them.
OwnManifests(m) == {r \in chain : r.machine = m /\ r.space = m /\ r.kind = "manifest"}

\* Rows are only added to a machine that stays unclaimed: where the count is what
\* it was, the blobs are those of the plan.
CountsAreHonest ==
  \A m \in claim.fresh : owner[m] = None =>
    /\ Cardinality(OwnManifests(m)) >= claim.count[m][1]
    /\ Cardinality(OwnManifests(m)) = claim.count[m][1] =>
         \A r \in OwnManifests(m) : r.hash \in claim.need

\* What is no longer left to copy is there.
CopiesAreThere ==
  /\ claim.pc \in {"copy", "write"} => \A h \in claim.need \ claim.left : file[ClaimTeam][h] = "good"
  /\ claim.pc = "write" => claim.hash \in claim.left

ChainIsHome == \A r \in chain : r.space = Claim!Home(r.machine)
BlobsAreThere ==
  \A r \in chain : r.kind = "manifest" /\ owner[r.machine] = ClaimTeam =>
    r.hash \in blobRow[ClaimTeam] /\ (file[ClaimTeam][r.hash] = "good" \/ r.hash \in spoiled)

ClaimInv == ClaimTypes /\ ChainIsHome /\ BlobsAreThere /\ CountsAreHonest /\ CopiesAreThere

LEMMA HomeIsSpace ==
  ASSUME ClaimTypes, NEW m \in Machine
  PROVE  /\ Claim!Home(m) \in ClaimSpace /\ owner[m] \in {None, ClaimTeam, OtherTeam}
         /\ owner[m] = None => Claim!Home(m) = m
         /\ Claim!Home(m) = ClaimTeam <=> owner[m] = ClaimTeam
         /\ Claim!Home(m) = m <=> owner[m] = None
BY ClaimAssumption DEF ClaimTypes, Claim!Home, ClaimSpace

LEMMA NoClaimFits ==
  LET c == Claim!NoClaim
  IN  c \in ClaimState /\ c.pc = "idle" /\ c.fresh = {} /\ c.need = {}
BY DEF Claim!NoClaim, ClaimState

LEMMA CountIsCardinality ==
  ASSUME NEW m
  PROVE  Claim!Counted(m, m)[1] = Cardinality(OwnManifests(m))
<1>1. Claim!OfKind(Claim!RowsOf(m, m), "manifest") = OwnManifests(m)
  BY DEF Claim!OfKind, Claim!RowsOf, OwnManifests
<1>2. \A S : Claim!Cardinality(S) = Cardinality(S)
  BY DEF Claim!Cardinality, Cardinality
<1>3. QED BY <1>1, <1>2 DEF Claim!Counted

LEMMA CountType ==
  ASSUME ClaimTypes, NEW m, NEW s
  PROVE  Claim!Counted(m, s) \in Nat \X Nat
<1>1. \A S : Claim!Cardinality(S) = Cardinality(S)
  BY DEF Claim!Cardinality, Cardinality
<1>2. \A k : Claim!OfKind(Claim!RowsOf(m, s), k) \subseteq chain
  BY DEF Claim!OfKind, Claim!RowsOf
<1>3. \A S : S \subseteq chain => Cardinality(S) \in Nat
  BY FS_Subset, FS_CardinalityType DEF ClaimTypes
<1>4. QED BY <1>1, <1>2, <1>3 DEF Claim!Counted

LEMMA OwnManifestsCount ==
  ASSUME ClaimTypes, NEW m
  PROVE  IsFiniteSet(OwnManifests(m)) /\ Cardinality(OwnManifests(m)) \in Nat
<1>1. OwnManifests(m) \subseteq chain BY DEF OwnManifests
<1>2. QED BY <1>1, FS_Subset, FS_CardinalityType DEF ClaimTypes

LEMMA ClaimInit == Claim!Init => ClaimInv
<1> SUFFICES ASSUME Claim!Init PROVE ClaimInv
    OBVIOUS
<1>1. /\ owner = [m \in Machine |-> None] /\ chain = {} /\ claim = Claim!NoClaim
      /\ blobRow = [s \in ClaimSpace |-> {}] /\ file = [s \in ClaimSpace |-> [h \in ClaimHash |-> "none"]]
  BY DEF Claim!Init, Claim!Space, ClaimSpace
<1>2. ClaimTypes BY <1>1, NoClaimFits, FS_EmptySet DEF ClaimTypes
<1>3. QED BY <1>1, <1>2, NoClaimFits DEF ClaimInv, ChainIsHome, BlobsAreThere, CountsAreHonest, CopiesAreThere

\* A row more in the history of one machine.
RowAdded(r) ==
  /\ chain' = chain \cup {r} /\ UNCHANGED <<owner, claim>>
  /\ r \in ChainRow /\ r.space = Claim!Home(r.machine)

LEMMA RowsKeepCounts ==
  ASSUME ClaimInv, NEW r, RowAdded(r)
  PROVE  /\ chain' \subseteq ChainRow /\ IsFiniteSet(chain') /\ ChainIsHome' /\ CountsAreHonest'
<1>1. /\ ClaimTypes /\ chain' = chain \cup {r} /\ owner' = owner /\ claim' = claim
      /\ r \in ChainRow /\ r.space = Claim!Home(r.machine)
  BY DEF ClaimInv, RowAdded
<1>2. chain' \subseteq ChainRow /\ IsFiniteSet(chain')
  BY <1>1, FS_AddElement DEF ClaimTypes
<1>3. ChainIsHome'
  BY <1>1 DEF ClaimInv, ChainIsHome, Claim!Home
<1>4. ASSUME NEW m \in claim.fresh, owner[m] = None
      PROVE  /\ Cardinality(OwnManifests(m)') >= claim.count[m][1]
             /\ Cardinality(OwnManifests(m)') = claim.count[m][1] =>
                  \A q \in OwnManifests(m)' : q.hash \in claim.need
  <2>1. m \in Machine /\ claim.count[m][1] \in Nat
    BY <1>1 DEF ClaimTypes, ClaimState
  <2>2. IsFiniteSet(OwnManifests(m)) /\ Cardinality(OwnManifests(m)) \in Nat
    BY <1>1, OwnManifestsCount
  <2>3. /\ Cardinality(OwnManifests(m)) >= claim.count[m][1]
        /\ Cardinality(OwnManifests(m)) = claim.count[m][1] => \A q \in OwnManifests(m) : q.hash \in claim.need
    BY <1>4 DEF ClaimInv, CountsAreHonest
  <2>4. CASE r \in chain \/ r.machine # m \/ r.space # m \/ r.kind # "manifest"
    <3>1. OwnManifests(m)' = OwnManifests(m) BY <2>4, <1>1 DEF OwnManifests
    <3>2. QED BY <3>1, <2>3
  <2>5. CASE r \notin chain /\ r.machine = m /\ r.space = m /\ r.kind = "manifest"
    <3>1. OwnManifests(m)' = OwnManifests(m) \cup {r} /\ r \notin OwnManifests(m)
      BY <2>5, <1>1 DEF OwnManifests
    <3>2. Cardinality(OwnManifests(m) \cup {r}) = Cardinality(OwnManifests(m)) + 1
      BY <3>1, <2>2, FS_AddElement
    <3>3. QED BY <3>1, <3>2, <2>1, <2>2, <2>3
  <2>6. QED BY <2>4, <2>5
<1>5. CountsAreHonest'
  <2>1. \A m : Cardinality(OwnManifests(m))' = Cardinality(OwnManifests(m)') OBVIOUS
  <2>2. QED BY <2>1, <1>1, <1>4 DEF CountsAreHonest
<1>6. QED BY <1>2, <1>3, <1>5

LEMMA PublishKeeps ==
  ASSUME ClaimInv, NEW m \in Machine, NEW h \in ClaimHash, Claim!Publish(m, h)
  PROVE  ClaimInv'
<1> DEFINE r == [kind |-> "manifest", machine |-> m, hash |-> h, space |-> Claim!Home(m)]
           home == Claim!Home(m)
<1>1. /\ chain' = chain \cup {r} /\ blobRow' = [blobRow EXCEPT ![home] = blobRow[home] \cup {h}]
      /\ file' = [file EXCEPT ![home][h] = IF file[home][h] = "none" THEN "good" ELSE file[home][h]]
      /\ spoiled' = IF owner[m] = ClaimTeam /\ file[ClaimTeam][h] = "bad" THEN spoiled \cup {h} ELSE spoiled
      /\ owner' = owner /\ claim' = claim
  BY DEF Claim!Publish, Claim!Move
<1>2. ClaimTypes /\ home \in ClaimSpace /\ ClaimTeam \in ClaimSpace /\ (home = ClaimTeam <=> owner[m] = ClaimTeam)
  BY HomeIsSpace DEF ClaimInv, ClaimSpace
<1>3. RowAdded(r)
  BY <1>1, <1>2 DEF RowAdded, ChainRow
<1> HIDE DEF home
<1>4. /\ blobRow' \in [ClaimSpace -> SUBSET ClaimHash] /\ h \in blobRow'[home]
      /\ \A s \in ClaimSpace : blobRow[s] \subseteq blobRow'[s]
  BY <1>1, <1>2 DEF ClaimTypes
<1>5. /\ file' \in [ClaimSpace -> [ClaimHash -> {"none", "good", "bad"}]]
      /\ \A s \in ClaimSpace, g \in ClaimHash :
           file'[s][g] = IF s = home /\ g = h /\ file[s][g] = "none" THEN "good" ELSE file[s][g]
  <2> DEFINE new == IF file[home][h] = "none" THEN "good" ELSE file[home][h]
  <2>1. new \in {"none", "good", "bad"} BY <1>2 DEF ClaimTypes
  <2>2. file' = [file EXCEPT ![home][h] = new] BY <1>1
  <2>3. file \in [ClaimSpace -> [ClaimHash -> {"none", "good", "bad"}]] BY <1>2 DEF ClaimTypes
  <2> HIDE DEF new
  <2>4. /\ file' \in [ClaimSpace -> [ClaimHash -> {"none", "good", "bad"}]]
        /\ \A s \in ClaimSpace, g \in ClaimHash : file'[s][g] = IF s = home /\ g = h THEN new ELSE file[s][g]
    BY <2>1, <2>2, <2>3, <1>2
  <2>5. QED BY <2>4 DEF new
<1>6. ClaimTypes'
  BY <1>1, <1>2, <1>3, <1>4, <1>5, RowsKeepCounts DEF ClaimTypes
<1>7. BlobsAreThere'
  <2> SUFFICES ASSUME NEW q \in chain \cup {r}, q.kind = "manifest", owner[q.machine] = ClaimTeam
               PROVE  q.hash \in blobRow'[ClaimTeam] /\ (file'[ClaimTeam][q.hash] = "good" \/ q.hash \in spoiled')
      BY <1>1 DEF BlobsAreThere
  <2>1. CASE q \in chain
    <3>1. q.hash \in blobRow[ClaimTeam] /\ (file[ClaimTeam][q.hash] = "good" \/ q.hash \in spoiled)
      BY <2>1 DEF ClaimInv, BlobsAreThere
    <3>2. q.hash \in ClaimHash BY <2>1, <1>2 DEF ClaimTypes, ChainRow
    <3>3. spoiled \subseteq spoiled' BY <1>1
    <3>4. QED BY <3>1, <3>2, <3>3, <1>2, <1>4, <1>5
  <2>2. CASE q = r
    <3>1. q.hash = h /\ owner[m] = ClaimTeam /\ home = ClaimTeam BY <2>2, <1>2
    <3>2. file[ClaimTeam][h] \in {"none", "good", "bad"} BY <1>2 DEF ClaimTypes
    <3>3. QED BY <3>1, <3>2, <1>1, <1>2, <1>4, <1>5
  <2>3. QED BY <2>1, <2>2
<1>8. CopiesAreThere'
  <2>1. claim.need \subseteq ClaimHash BY <1>2 DEF ClaimTypes, ClaimState
  <2>2. QED BY <2>1, <1>1, <1>2, <1>5 DEF ClaimInv, CopiesAreThere
<1>9. QED BY <1>3, <1>6, <1>7, <1>8, RowsKeepCounts DEF ClaimInv

LEMMA NegotiateKeeps ==
  ASSUME ClaimInv, NEW m \in Machine, Claim!Negotiate(m)
  PROVE  ClaimInv'
<1> DEFINE r == [kind |-> "session", machine |-> m, hash |-> None, space |-> Claim!Home(m)]
<1>1. /\ chain' = chain \cup {r} /\ owner' = owner /\ claim' = claim /\ blobRow' = blobRow /\ file' = file
      /\ spoiled' = spoiled
  BY DEF Claim!Negotiate, Claim!Move
<1>2. ClaimTypes /\ Claim!Home(m) \in ClaimSpace BY HomeIsSpace DEF ClaimInv
<1>3. RowAdded(r) BY <1>1, <1>2 DEF RowAdded, ChainRow
<1>4. ClaimTypes' BY <1>1, <1>2, <1>3, RowsKeepCounts DEF ClaimTypes
<1>5. BlobsAreThere' BY <1>1 DEF ClaimInv, BlobsAreThere
<1>6. CopiesAreThere' BY <1>1 DEF ClaimInv, CopiesAreThere
<1>7. QED BY <1>3, <1>4, <1>5, <1>6, RowsKeepCounts DEF ClaimInv

\* The histories of unclaimed machines move to a team.
Takes(S, team) ==
  LET taken == {r \in chain : r.machine \in S /\ r.space = r.machine}
  IN  /\ chain' = (chain \ taken) \cup {[r EXCEPT !.space = team] : r \in taken}
      /\ owner' = [m \in Machine |-> IF m \in S THEN team ELSE owner[m]]

LEMMA TakesMovesAll ==
  ASSUME ClaimTypes, ChainIsHome, NEW S \in SUBSET Machine, \A m \in S : owner[m] = None,
         NEW team \in {ClaimTeam, OtherTeam}, Takes(S, team)
  PROVE  /\ chain' \subseteq ChainRow /\ IsFiniteSet(chain') /\ ChainIsHome'
         /\ owner' \in [Machine -> {None, ClaimTeam, OtherTeam}]
         /\ \A m \in Machine \ S : owner'[m] = owner[m] /\ OwnManifests(m)' = OwnManifests(m)
         /\ \A m \in S : owner'[m] = team
         /\ \A q \in chain' : q.machine \notin S => q \in chain
         /\ \A q \in chain' : q.machine \in S /\ q.kind = "manifest" =>
              \E r \in OwnManifests(q.machine) : r.hash = q.hash
<1> DEFINE taken == {r \in chain : r.machine \in S /\ r.space = r.machine}
           moved == {[r EXCEPT !.space = team] : r \in taken}
<1>1. /\ chain' = (chain \ taken) \cup moved
      /\ owner' = [m \in Machine |-> IF m \in S THEN team ELSE owner[m]]
  BY DEF Takes
<1>2. /\ owner' \in [Machine -> {None, ClaimTeam, OtherTeam}]
      /\ \A m \in Machine \ S : owner'[m] = owner[m]
      /\ \A m \in S : owner'[m] = team
  BY <1>1 DEF ClaimTypes
<1>3. \A r \in chain : r \in ChainRow /\ r.machine \in Machine /\ (r.machine \in S <=> r \in taken)
  BY DEF ClaimTypes, ChainIsHome, ChainRow, Claim!Home
<1>4. \A q \in moved : \E r \in taken : q = [r EXCEPT !.space = team]
  OBVIOUS
<1>5. ASSUME NEW r \in taken, NEW q, q = [r EXCEPT !.space = team]
      PROVE  /\ q \in ChainRow /\ q.machine = r.machine /\ q.machine \in S /\ q.kind = r.kind /\ q.hash = r.hash
             /\ q.space = team
  <2>1. r \in ChainRow /\ r.machine \in S /\ r \in chain BY <1>3
  <2>2. team \in ClaimSpace BY DEF ClaimSpace
  <2>3. QED BY <1>5, <2>1, <2>2 DEF ChainRow
<1>6. \A q \in moved : q \in ChainRow /\ q.machine \in S /\ q.space = team BY <1>4, <1>5
<1>7. chain' \subseteq ChainRow BY <1>1, <1>3, <1>6
<1>8. IsFiniteSet(chain')
  <2>1. IsFiniteSet(taken) /\ IsFiniteSet(chain \ taken)
    BY FS_Subset DEF ClaimTypes
  <2>2. IsFiniteSet(moved)
    <3> DEFINE f == [r \in taken |-> [r EXCEPT !.space = team]]
    <3>1. f \in Surjection(taken, moved) BY DEF Surjection
    <3>2. QED BY <3>1, <2>1, FS_Surjection
  <2>3. QED BY <1>1, <2>1, <2>2, FS_Union
<1> HIDE DEF taken, moved
<1>9. \A q \in chain' : q.machine \notin S => q \in chain
  BY <1>1, <1>6
<1>10. \A q \in chain' : q.machine \in S => q \in moved
  BY <1>1, <1>3
<1>11. ChainIsHome'
  <2> SUFFICES ASSUME NEW q \in chain' PROVE q.space = Claim!Home(q.machine)'
      BY DEF ChainIsHome
  <2>1. CASE q.machine \in S
    <3>1. q.space = team /\ owner'[q.machine] = team BY <2>1, <1>2, <1>6, <1>10
    <3>2. team # None BY ClaimAssumption
    <3>3. QED BY <3>1, <3>2 DEF Claim!Home
  <2>2. CASE q.machine \notin S
    <3>1. q \in chain /\ q.machine \in Machine \ S BY <2>2, <1>9, <1>3
    <3>2. q.space = Claim!Home(q.machine) /\ owner'[q.machine] = owner[q.machine] BY <3>1, <1>2 DEF ChainIsHome
    <3>3. QED BY <3>2 DEF Claim!Home
  <2>3. QED BY <2>1, <2>2
<1>12. ASSUME NEW m \in Machine \ S PROVE OwnManifests(m)' = OwnManifests(m)
  <2>1. \A q : q \in chain /\ q.machine = m => q \in chain' BY <1>1, <1>3
  <2>2. \A q : q \in chain' /\ q.machine = m => q \in chain BY <1>9
  <2>3. QED BY <2>1, <2>2 DEF OwnManifests
<1>13. ASSUME NEW q \in chain', q.machine \in S, q.kind = "manifest"
       PROVE  \E r \in OwnManifests(q.machine) : r.hash = q.hash
  <2>1. PICK r \in taken : q = [r EXCEPT !.space = team] BY <1>13, <1>10, <1>4
  <2>2. r \in chain /\ r.space = r.machine BY <2>1 DEF taken
  <2>3. q.machine = r.machine /\ q.kind = r.kind /\ q.hash = r.hash BY <2>1, <1>5
  <2>4. r \in OwnManifests(q.machine) BY <2>2, <2>3, <1>13 DEF OwnManifests
  <2>5. QED BY <2>3, <2>4
<1>14. QED BY <1>2, <1>7, <1>8, <1>9, <1>11, <1>12, <1>13

LEMMA OtherClaimsKeeps ==
  ASSUME ClaimInv, NEW m \in Machine, Claim!OtherClaims(m)
  PROVE  ClaimInv'
<1> DEFINE rows0 == Claim!RowsOf(m, m)
<1>1. /\ owner[m] = None /\ claim' = claim /\ spoiled' = spoiled
      /\ chain' = (chain \ rows0) \cup {[r EXCEPT !.space = OtherTeam] : r \in rows0}
      /\ blobRow' = [blobRow EXCEPT ![OtherTeam] = blobRow[OtherTeam] \cup Claim!HashesOf(rows0)]
      /\ file' = [file EXCEPT ![OtherTeam] = [h \in ClaimHash |-> IF h \in Claim!HashesOf(rows0) THEN "good" ELSE file[OtherTeam][h]]]
      /\ owner' = [owner EXCEPT ![m] = OtherTeam]
  BY DEF Claim!OtherClaims, Claim!Move
<1>2. ClaimTypes /\ ChainIsHome /\ OtherTeam \in ClaimSpace /\ OtherTeam # ClaimTeam /\ OtherTeam # None
      /\ ClaimTeam \in ClaimSpace
  BY ClaimAssumption DEF ClaimInv, ClaimSpace
<1>3. rows0 = {r \in chain : r.machine \in {m} /\ r.space = r.machine}
  BY DEF Claim!RowsOf
<1>4. owner' = [p \in Machine |-> IF p \in {m} THEN OtherTeam ELSE owner[p]]
  BY <1>1, <1>2 DEF ClaimTypes
<1>5. Takes({m}, OtherTeam)
  BY <1>1, <1>3, <1>4 DEF Takes
<1>6. /\ chain' \subseteq ChainRow /\ IsFiniteSet(chain') /\ ChainIsHome'
      /\ owner' \in [Machine -> {None, ClaimTeam, OtherTeam}]
      /\ \A p \in Machine \ {m} : owner'[p] = owner[p] /\ OwnManifests(p)' = OwnManifests(p)
      /\ owner'[m] = OtherTeam
      /\ \A q \in chain' : q.machine \notin {m} => q \in chain
  <2>1. {m} \in SUBSET Machine /\ OtherTeam \in {ClaimTeam, OtherTeam} /\ \A p \in {m} : owner[p] = None BY <1>1
  <2>2. QED BY <2>1, <1>2, <1>5, TakesMovesAll
<1>7. Claim!HashesOf(rows0) \subseteq ClaimHash
  BY <1>2 DEF Claim!HashesOf, Claim!OfKind, Claim!RowsOf, ClaimTypes, ChainRow
<1> HIDE DEF rows0
<1>8. blobRow' \in [ClaimSpace -> SUBSET ClaimHash] /\ blobRow'[ClaimTeam] = blobRow[ClaimTeam]
  BY <1>1, <1>2, <1>7 DEF ClaimTypes
<1>9. file' \in [ClaimSpace -> [ClaimHash -> {"none", "good", "bad"}]] /\ file'[ClaimTeam] = file[ClaimTeam]
  <2> DEFINE new == [h \in ClaimHash |-> IF h \in Claim!HashesOf(rows0) THEN "good" ELSE file[OtherTeam][h]]
  <2>1. file \in [ClaimSpace -> [ClaimHash -> {"none", "good", "bad"}]] BY <1>2 DEF ClaimTypes
  <2>2. new \in [ClaimHash -> {"none", "good", "bad"}] BY <2>1, <1>2
  <2>3. file' = [file EXCEPT ![OtherTeam] = new] BY <1>1
  <2> HIDE DEF new
  <2>4. QED BY <2>1, <2>2, <2>3, <1>2
<1>10. ClaimTypes' BY <1>1, <1>2, <1>6, <1>8, <1>9 DEF ClaimTypes
<1>11. BlobsAreThere'
  <2> SUFFICES ASSUME NEW q \in chain', q.kind = "manifest", owner'[q.machine] = ClaimTeam
               PROVE  q.hash \in blobRow'[ClaimTeam] /\ (file'[ClaimTeam][q.hash] = "good" \/ q.hash \in spoiled')
      BY DEF BlobsAreThere
  <2>1. q.machine \in Machine /\ q.machine # m BY <1>6, <1>2 DEF ChainRow
  <2>2. q \in chain /\ owner[q.machine] = ClaimTeam BY <2>1, <1>6
  <2>3. QED BY <2>2, <1>1, <1>8, <1>9 DEF ClaimInv, BlobsAreThere
<1>12. CountsAreHonest'
  <2>1. \A p : Cardinality(OwnManifests(p))' = Cardinality(OwnManifests(p)') OBVIOUS
  <2>2. \A p \in claim.fresh : p \in Machine BY <1>2 DEF ClaimTypes, ClaimState
  <2>3. \A p \in claim.fresh : owner'[p] = None => owner[p] = None /\ OwnManifests(p)' = OwnManifests(p)
    BY <1>2, <1>6, <2>2
  <2>4. QED BY <2>1, <2>3, <1>1 DEF ClaimInv, CountsAreHonest
<1>13. CopiesAreThere' BY <1>1, <1>9 DEF ClaimInv, CopiesAreThere
<1>14. QED BY <1>6, <1>10, <1>11, <1>12, <1>13 DEF ClaimInv

LEMMA DamageKeeps ==
  ASSUME ClaimInv, NEW space \in ClaimSpace, NEW h \in ClaimHash, Claim!Damage(space, h)
  PROVE  ClaimInv'
<1>1. PICK ill \in {"bad", "none"} : file' = [file EXCEPT ![space][h] = ill]
  BY DEF Claim!Damage
<1>2. /\ chain' = chain /\ owner' = owner /\ claim' = claim /\ blobRow' = blobRow /\ claim.pc = "idle"
      /\ spoiled' = IF space = ClaimTeam /\ \E m \in Machine : owner[m] = ClaimTeam /\ h \in Claim!HashesOf(Claim!RowsOf(m, ClaimTeam))
                    THEN spoiled \cup {h} ELSE spoiled
  BY DEF Claim!Damage, Claim!Move
<1>3. ClaimTypes /\ ChainIsHome BY DEF ClaimInv
<1>4. /\ file' \in [ClaimSpace -> [ClaimHash -> {"none", "good", "bad"}]]
      /\ \A s \in ClaimSpace, g \in ClaimHash : s # space \/ g # h => file'[s][g] = file[s][g]
  BY <1>1, <1>3 DEF ClaimTypes
<1>5. ClaimTypes' BY <1>2, <1>3, <1>4 DEF ClaimTypes
<1>6. BlobsAreThere'
  <2> SUFFICES ASSUME NEW q \in chain, q.kind = "manifest", owner[q.machine] = ClaimTeam
               PROVE  q.hash \in blobRow[ClaimTeam] /\ (file'[ClaimTeam][q.hash] = "good" \/ q.hash \in spoiled')
      BY <1>2 DEF BlobsAreThere
  <2>1. q \in ChainRow /\ q.hash \in ClaimHash /\ q.machine \in Machine BY <1>3 DEF ClaimTypes, ChainRow
  <2>2. q.space = ClaimTeam BY <1>3, <2>1, HomeIsSpace DEF ChainIsHome
  <2>3. q.hash \in blobRow[ClaimTeam] /\ (file[ClaimTeam][q.hash] = "good" \/ q.hash \in spoiled)
    BY DEF ClaimInv, BlobsAreThere
  <2>4. spoiled \subseteq spoiled' BY <1>2
  <2>5. ASSUME space = ClaimTeam, h = q.hash PROVE h \in spoiled'
    <3>1. q \in Claim!OfKind(Claim!RowsOf(q.machine, ClaimTeam), "manifest")
      BY <2>2 DEF Claim!OfKind, Claim!RowsOf
    <3>2. h \in Claim!HashesOf(Claim!RowsOf(q.machine, ClaimTeam)) BY <3>1, <2>5 DEF Claim!HashesOf
    <3>3. QED BY <3>2, <2>1, <2>5, <1>2
  <2>6. ClaimTeam \in ClaimSpace BY DEF ClaimSpace
  <2>7. QED BY <2>1, <2>3, <2>4, <2>5, <2>6, <1>4
<1>7. ChainIsHome' BY <1>2, <1>3 DEF ChainIsHome, Claim!Home
<1>8. CountsAreHonest'
  <2>1. \A p : Cardinality(OwnManifests(p))' = Cardinality(OwnManifests(p)') OBVIOUS
  <2>2. \A p : OwnManifests(p)' = OwnManifests(p) BY <1>2 DEF OwnManifests
  <2>3. QED BY <2>1, <2>2, <1>2 DEF ClaimInv, CountsAreHonest
<1>9. CopiesAreThere' BY <1>2 DEF CopiesAreThere
<1>10. QED BY <1>5, <1>6, <1>7, <1>8, <1>9 DEF ClaimInv

\* Nothing the invariant speaks of changes but the command.
Alone == UNCHANGED <<owner, chain, blobRow, file, spoiled>>

LEMMA CommandAlone ==
  ASSUME ClaimInv, Alone, claim' \in ClaimState, CopiesAreThere',
         \A m \in claim'.fresh : owner[m] = None =>
           \/ m \in claim.fresh /\ claim'.count[m] = claim.count[m] /\ claim.need \subseteq claim'.need
           \/ claim'.count[m][1] = Cardinality(OwnManifests(m)) /\ \A r \in OwnManifests(m) : r.hash \in claim'.need
  PROVE  ClaimInv'
<1>1. /\ owner' = owner /\ chain' = chain /\ blobRow' = blobRow /\ file' = file /\ spoiled' = spoiled
  BY DEF Alone
<1>2. ClaimTypes' BY <1>1 DEF ClaimInv, ClaimTypes
<1>3. ChainIsHome' /\ BlobsAreThere' BY <1>1 DEF ClaimInv, ChainIsHome, Claim!Home, BlobsAreThere
<1>4. CountsAreHonest'
  <2>1. \A p : Cardinality(OwnManifests(p))' = Cardinality(OwnManifests(p)') OBVIOUS
  <2>2. \A p : OwnManifests(p)' = OwnManifests(p) BY <1>1 DEF OwnManifests
  <2> SUFFICES ASSUME NEW m \in claim'.fresh, owner[m] = None
               PROVE  /\ Cardinality(OwnManifests(m)) >= claim'.count[m][1]
                      /\ Cardinality(OwnManifests(m)) = claim'.count[m][1] =>
                           \A r \in OwnManifests(m) : r.hash \in claim'.need
      BY <1>1, <2>1, <2>2 DEF CountsAreHonest
  <2>3. CASE m \in claim.fresh /\ claim'.count[m] = claim.count[m] /\ claim.need \subseteq claim'.need
    <3>1. /\ Cardinality(OwnManifests(m)) >= claim.count[m][1]
          /\ Cardinality(OwnManifests(m)) = claim.count[m][1] => \A r \in OwnManifests(m) : r.hash \in claim.need
      BY <2>3 DEF ClaimInv, CountsAreHonest
    <3>2. QED BY <3>1, <2>3
  <2>4. CASE claim'.count[m][1] = Cardinality(OwnManifests(m)) /\ \A r \in OwnManifests(m) : r.hash \in claim'.need
    <3>1. Cardinality(OwnManifests(m)) \in Nat BY OwnManifestsCount DEF ClaimInv
    <3>2. QED BY <2>4, <3>1
  <2>5. QED BY <2>3, <2>4
<1>5. QED BY <1>2, <1>3, <1>4 DEF ClaimInv

LEMMA RefusedKeeps ==
  ASSUME ClaimInv, Claim!Refused
  PROVE  ClaimInv'
<1>1. Alone /\ claim' = Claim!NoClaim BY DEF Claim!Refused, Claim!Step, Claim!worldVars, Alone
<1>2. claim' \in ClaimState /\ claim'.fresh = {} /\ claim'.pc = "idle" BY <1>1, NoClaimFits
<1>3. CopiesAreThere' BY <1>2 DEF CopiesAreThere
<1>4. QED BY <1>1, <1>2, <1>3, CommandAlone

LEMMA ClaimBeginKeeps ==
  ASSUME ClaimInv, Claim!Begin
  PROVE  ClaimInv'
<1>1. PICK chosen \in SUBSET Machine \ {{}} : Claim!Step([Claim!NoClaim EXCEPT !.pc = "plan", !.todo = chosen])
  BY DEF Claim!Begin
<1>2. Alone /\ claim' = [Claim!NoClaim EXCEPT !.pc = "plan", !.todo = chosen]
  BY <1>1 DEF Claim!Step, Claim!worldVars, Alone
<1>3. Claim!NoClaim \in ClaimState /\ Claim!NoClaim.fresh = {} BY NoClaimFits
<1>4. claim' \in ClaimState /\ claim'.fresh = {} /\ claim'.pc = "plan"
  BY <1>2, <1>3 DEF ClaimState
<1>5. CopiesAreThere' BY <1>4 DEF CopiesAreThere
<1>6. QED BY <1>2, <1>4, <1>5, CommandAlone

LEMMA PlanMachineKeeps ==
  ASSUME ClaimInv, NEW m \in Machine, Claim!PlanMachine(m)
  PROVE  ClaimInv'
<1>1. CASE Claim!Refused BY <1>1, RefusedKeeps
<1>2. CASE ~Claim!Refused
  <2> DEFINE src == Claim!Source(m)
             num == Claim!Counted(m, src)
  <2>1. /\ claim.pc = "plan" /\ owner[m] \in {None, ClaimTeam} /\ Claim!ChainWhole(m)
        /\ Claim!Step([claim EXCEPT !.todo = claim.todo \ {m},
                  !.fresh = IF owner[m] = None THEN claim.fresh \cup {m} ELSE claim.fresh,
                  !.count = [claim.count EXCEPT ![m] = num],
                  !.need = claim.need \cup blobRow[src],
                  !.from = [h \in ClaimHash |-> IF h \in blobRow[src] THEN src ELSE claim.from[h]]])
    BY <1>2 DEF Claim!PlanMachine
  <2>2. ClaimTypes /\ claim \in ClaimState BY DEF ClaimInv, ClaimTypes
  <2>3. src \in ClaimSpace /\ (owner[m] = None => src = m)
    BY ClaimAssumption DEF Claim!Source, ClaimSpace
  <2>4. num \in Nat \X Nat BY <2>2, CountType
  <2>5. owner[m] = None => num[1] = Cardinality(OwnManifests(m))
    BY <2>3, CountIsCardinality
  <2>6. owner[m] = None => \A r \in OwnManifests(m) : r.hash \in blobRow[src]
    <3> SUFFICES ASSUME owner[m] = None, NEW r \in OwnManifests(m) PROVE r.hash \in blobRow[src]
        OBVIOUS
    <3>1. r \in Claim!OfKind(Claim!RowsOf(m, src), "manifest")
      BY <2>3 DEF OwnManifests, Claim!OfKind, Claim!RowsOf
    <3>2. QED BY <3>1, <2>1 DEF Claim!ChainWhole, Claim!HashesOf
  <2>7. blobRow[src] \subseteq ClaimHash BY <2>2, <2>3 DEF ClaimTypes
  <2> HIDE DEF src, num
  <2> DEFINE c == [claim EXCEPT !.todo = claim.todo \ {m},
                  !.fresh = IF owner[m] = None THEN claim.fresh \cup {m} ELSE claim.fresh,
                  !.count = [claim.count EXCEPT ![m] = num],
                  !.need = claim.need \cup blobRow[src],
                  !.from = [h \in ClaimHash |-> IF h \in blobRow[src] THEN src ELSE claim.from[h]]]
  <2>8. /\ c \in ClaimState /\ c.pc = "plan" /\ c.need = claim.need \cup blobRow[src]
        /\ c.fresh = IF owner[m] = None THEN claim.fresh \cup {m} ELSE claim.fresh
        /\ c.count = [claim.count EXCEPT ![m] = num]
    BY <2>1, <2>2, <2>3, <2>4, <2>7 DEF ClaimState
  <2>9. Alone /\ claim' = c BY <2>1 DEF Claim!Step, Claim!worldVars, Alone
  <2> HIDE DEF c
  <2>10. CopiesAreThere' BY <2>8, <2>9 DEF CopiesAreThere
  <2>11. ASSUME NEW p \in c.fresh, owner[p] = None
         PROVE  \/ p \in claim.fresh /\ c.count[p] = claim.count[p] /\ claim.need \subseteq c.need
                \/ c.count[p][1] = Cardinality(OwnManifests(p)) /\ \A r \in OwnManifests(p) : r.hash \in c.need
    <3>1. claim.count \in [Machine -> Nat \X Nat] /\ claim.fresh \subseteq Machine BY <2>2 DEF ClaimState
    <3>2. CASE p = m
      <4>1. c.count[p] = num BY <3>1, <3>2, <2>8
      <4>2. QED BY <4>1, <3>2, <2>5, <2>6, <2>8, <2>11
    <3>3. CASE p # m
      <4>1. p \in claim.fresh /\ p \in Machine BY <3>1, <3>3, <2>8
      <4>2. c.count[p] = claim.count[p] BY <4>1, <3>1, <3>3, <2>8
      <4>3. QED BY <4>1, <4>2, <2>8
    <3>4. QED BY <3>2, <3>3
  <2>12. QED BY <2>8, <2>9, <2>10, <2>11, CommandAlone
<1>3. QED BY <1>1, <1>2

LEMMA ClassifyKeeps ==
  ASSUME ClaimInv, Claim!Classify
  PROVE  ClaimInv'
<1>1. CASE Claim!Refused BY <1>1, RefusedKeeps
<1>2. CASE ~Claim!Refused
  <2>1. Claim!Step([claim EXCEPT !.pc = "copy", !.left = claim.need])
    BY <1>2 DEF Claim!Classify, Claim!Refused
  <2>2. Alone /\ claim' = [claim EXCEPT !.pc = "copy", !.left = claim.need]
    BY <2>1 DEF Claim!Step, Claim!worldVars, Alone
  <2>3. claim \in ClaimState BY DEF ClaimInv, ClaimTypes
  <2>4. claim' \in ClaimState /\ claim'.fresh = claim.fresh /\ claim'.count = claim.count /\ claim'.need = claim.need
        /\ claim'.left = claim.need /\ claim'.pc = "copy"
    BY <2>2, <2>3 DEF ClaimState
  <2>5. CopiesAreThere' BY <2>4 DEF CopiesAreThere
  <2>6. QED BY <2>2, <2>4, <2>5, CommandAlone
<1>3. QED BY <1>1, <1>2

LEMMA VerifyKeeps ==
  ASSUME ClaimInv, claim.pc \in {"copy", "write"}, NEW h \in claim.left, Claim!Verify(h)
  PROVE  ClaimInv'
<1>1. CASE Claim!Refused BY <1>1, RefusedKeeps
<1>2. CASE ~Claim!Refused
  <2>1. file[ClaimTeam][h] = "good" /\ Claim!Step([claim EXCEPT !.pc = "copy", !.left = claim.left \ {h}, !.hash = None])
    BY <1>2 DEF Claim!Verify, Claim!VerifyExisting
  <2>2. Alone /\ claim' = [claim EXCEPT !.pc = "copy", !.left = claim.left \ {h}, !.hash = None]
    BY <2>1 DEF Claim!Step, Claim!worldVars, Alone
  <2>3. claim \in ClaimState BY DEF ClaimInv, ClaimTypes
  <2>4. claim' \in ClaimState /\ claim'.fresh = claim.fresh /\ claim'.count = claim.count /\ claim'.need = claim.need
        /\ claim'.left = claim.left \ {h} /\ claim'.pc = "copy"
    BY <2>2, <2>3 DEF ClaimState
  <2>5. CopiesAreThere' BY <2>1, <2>2, <2>4 DEF ClaimInv, CopiesAreThere, Alone
  <2>6. QED BY <2>2, <2>4, <2>5, CommandAlone
<1>3. QED BY <1>1, <1>2

LEMMA CopyKeeps ==
  ASSUME ClaimInv, NEW h \in ClaimHash, Claim!Copy(h)
  PROVE  ClaimInv'
<1>0. claim.pc = "copy" /\ h \in claim.left BY DEF Claim!Copy
<1>1. CASE file[ClaimTeam][h] # "none"
  <2>1. Claim!Verify(h) BY <1>1 DEF Claim!Copy
  <2>2. QED BY <2>1, <1>0, VerifyKeeps
<1>2. CASE file[ClaimTeam][h] = "none"
  <2>1. Alone /\ claim' = [claim EXCEPT !.pc = "write", !.hash = h]
    BY <1>2 DEF Claim!Copy, Claim!Step, Claim!worldVars, Alone
  <2>2. claim \in ClaimState BY DEF ClaimInv, ClaimTypes
  <2>3. claim' \in ClaimState /\ claim'.fresh = claim.fresh /\ claim'.count = claim.count /\ claim'.need = claim.need
        /\ claim'.left = claim.left /\ claim'.pc = "write" /\ claim'.hash = h
    BY <2>1, <2>2 DEF ClaimState
  <2>4. CopiesAreThere' BY <1>0, <2>1, <2>3 DEF ClaimInv, CopiesAreThere, Alone
  <2>5. QED BY <2>1, <2>3, <2>4, CommandAlone
<1>3. QED BY <1>1, <1>2

LEMMA ClaimWriteKeeps ==
  ASSUME ClaimInv, Claim!Write
  PROVE  ClaimInv'
<1> DEFINE h == claim.hash
<1>0. claim.pc = "write" /\ h \in claim.left /\ ClaimTypes /\ claim \in ClaimState /\ h \in ClaimHash
      /\ ClaimTeam \in ClaimSpace
  BY DEF Claim!Write, ClaimInv, CopiesAreThere, ClaimTypes, ClaimState, ClaimSpace
<1>1. CASE Claim!Refused BY <1>1, RefusedKeeps
<1>2. CASE Claim!Verify(h) BY <1>0, <1>2, VerifyKeeps
<1>3. CASE /\ file' = [file EXCEPT ![ClaimTeam][h] = "good"]
           /\ claim' = [claim EXCEPT !.pc = "copy", !.left = claim.left \ {h}, !.hash = None]
           /\ UNCHANGED <<owner, chain, active, blobRow, moves, spoiled>>
  <2>1. /\ file' \in [ClaimSpace -> [ClaimHash -> {"none", "good", "bad"}]]
        /\ \A g \in ClaimHash : file'[ClaimTeam][g] = IF g = h THEN "good" ELSE file[ClaimTeam][g]
    BY <1>0, <1>3 DEF ClaimTypes
  <2> HIDE DEF h
  <2>2. claim' \in ClaimState /\ claim'.fresh = claim.fresh /\ claim'.count = claim.count /\ claim'.need = claim.need
        /\ claim'.left = claim.left \ {h} /\ claim'.pc = "copy"
    BY <1>0, <1>3 DEF ClaimState
  <2>3. ClaimTypes' BY <1>0, <1>3, <2>1, <2>2 DEF ClaimTypes
  <2>4. ChainIsHome' BY <1>3 DEF ClaimInv, ChainIsHome, Claim!Home
  <2>5. BlobsAreThere'
    <3>1. \A q \in chain : q.kind = "manifest" => q.hash \in ClaimHash BY <1>0 DEF ClaimTypes, ChainRow
    <3>2. QED BY <3>1, <1>3, <2>1 DEF ClaimInv, BlobsAreThere
  <2>6. CountsAreHonest'
    <3>1. \A p : Cardinality(OwnManifests(p))' = Cardinality(OwnManifests(p)') OBVIOUS
    <3>2. \A p : OwnManifests(p)' = OwnManifests(p) BY <1>3 DEF OwnManifests
    <3>3. QED BY <3>1, <3>2, <1>3, <2>2 DEF ClaimInv, CountsAreHonest
  <2>7. CopiesAreThere'
    <3>1. claim.need \subseteq ClaimHash BY <1>0 DEF ClaimState
    <3>2. \A g \in claim.need \ claim.left : file[ClaimTeam][g] = "good" BY <1>0 DEF ClaimInv, CopiesAreThere
    <3>3. QED BY <3>1, <3>2, <2>1, <2>2 DEF CopiesAreThere
  <2>8. QED BY <2>3, <2>4, <2>5, <2>6, <2>7 DEF ClaimInv
<1>4. QED BY <1>1, <1>2, <1>3 DEF Claim!Write

LEMMA ApplyKeeps ==
  ASSUME ClaimInv, Claim!Apply
  PROVE  ClaimInv'
<1>1. CASE Claim!Refused BY <1>1, RefusedKeeps
<1>2. CASE ~Claim!Refused
  <2>1. /\ claim.pc = "copy" /\ claim.left = {} /\ \A m \in claim.fresh : Claim!PreImage(m)
        /\ blobRow' = [blobRow EXCEPT ![ClaimTeam] = blobRow[ClaimTeam] \cup claim.need]
        /\ claim' = Claim!NoClaim /\ file' = file /\ spoiled' = spoiled
        /\ Takes(claim.fresh, ClaimTeam)
    BY <1>2 DEF Claim!Apply, Takes
  <2>2. ClaimTypes /\ ChainIsHome /\ claim \in ClaimState /\ ClaimTeam \in ClaimSpace BY DEF ClaimInv, ClaimTypes, ClaimSpace
  <2>3. claim.fresh \in SUBSET Machine /\ claim.need \subseteq ClaimHash BY <2>2 DEF ClaimState
  <2>4. \A m \in claim.fresh : owner[m] = None /\ Claim!Counted(m, m) = claim.count[m]
    BY <2>1 DEF Claim!PreImage
  <2>5. /\ chain' \subseteq ChainRow /\ IsFiniteSet(chain') /\ ChainIsHome'
        /\ owner' \in [Machine -> {None, ClaimTeam, OtherTeam}]
        /\ \A m \in Machine \ claim.fresh : owner'[m] = owner[m]
        /\ \A q \in chain' : q.machine \notin claim.fresh => q \in chain
        /\ \A q \in chain' : q.machine \in claim.fresh /\ q.kind = "manifest" =>
              \E r \in OwnManifests(q.machine) : r.hash = q.hash
    <3>1. ClaimTeam \in {ClaimTeam, OtherTeam} /\ \A m \in claim.fresh : owner[m] = None BY <2>4
    <3>2. QED BY <3>1, <2>1, <2>2, <2>3, TakesMovesAll
  <2>6. \A h \in claim.need : file[ClaimTeam][h] = "good" BY <2>1 DEF ClaimInv, CopiesAreThere
  <2>7. \A m \in claim.fresh : \A r \in OwnManifests(m) : r.hash \in claim.need
    <3> TAKE m \in claim.fresh
    <3>1. Cardinality(OwnManifests(m)) = claim.count[m][1] BY <2>4, CountIsCardinality
    <3>2. QED BY <3>1, <2>4 DEF ClaimInv, CountsAreHonest
  <2>8. blobRow' \in [ClaimSpace -> SUBSET ClaimHash] /\ claim.need \subseteq blobRow'[ClaimTeam]
        /\ blobRow[ClaimTeam] \subseteq blobRow'[ClaimTeam]
    BY <2>1, <2>2, <2>3 DEF ClaimTypes
  <2>9. claim' \in ClaimState /\ claim'.pc = "idle" /\ claim'.fresh = {} BY <2>1, NoClaimFits
  <2>10. ClaimTypes' BY <2>1, <2>2, <2>5, <2>8, <2>9 DEF ClaimTypes
  <2>11. BlobsAreThere'
    <3> SUFFICES ASSUME NEW q \in chain', q.kind = "manifest", owner'[q.machine] = ClaimTeam
                 PROVE  q.hash \in blobRow'[ClaimTeam] /\ (file[ClaimTeam][q.hash] = "good" \/ q.hash \in spoiled)
        BY <2>1 DEF BlobsAreThere
    <3>1. CASE q.machine \in claim.fresh
      <4>1. q.hash \in claim.need BY <3>1, <2>5, <2>7
      <4>2. QED BY <4>1, <2>6, <2>8
    <3>2. CASE q.machine \notin claim.fresh
      <4>1. q.machine \in Machine /\ q \in chain BY <3>2, <2>5 DEF ChainRow
      <4>2. owner[q.machine] = ClaimTeam BY <4>1, <3>2, <2>5
      <4>3. q.hash \in blobRow[ClaimTeam] /\ (file[ClaimTeam][q.hash] = "good" \/ q.hash \in spoiled)
        BY <4>1, <4>2 DEF ClaimInv, BlobsAreThere
      <4>4. QED BY <4>3, <2>8
    <3>3. QED BY <3>1, <3>2
  <2>12. CountsAreHonest' /\ CopiesAreThere' BY <2>9 DEF CountsAreHonest, CopiesAreThere
  <2>13. QED BY <2>5, <2>10, <2>11, <2>12 DEF ClaimInv
<1>3. QED BY <1>1, <1>2

\* A run that starts or ends, and steps of the other parts, change nothing here.
LEMMA ClaimSame ==
  ASSUME ClaimInv, Alone, claim' = claim
  PROVE  ClaimInv'
<1>1. claim' \in ClaimState BY DEF ClaimInv, ClaimTypes
<1>2. CopiesAreThere' BY DEF ClaimInv, CopiesAreThere, Alone
<1>3. QED BY <1>1, <1>2, CommandAlone

LEMMA ClaimStep ==
  ASSUME ClaimInv, Claim!Next \/ UNCHANGED Claim!claimVars
  PROVE  ClaimInv'
<1>1. CASE UNCHANGED Claim!claimVars BY <1>1, ClaimSame DEF Claim!claimVars, Alone
<1>2. CASE \E m \in Machine : Claim!Negotiate(m) \/ Claim!OtherClaims(m) \/ Claim!PlanMachine(m)
                              \/ \E h \in ClaimHash : Claim!Publish(m, h)
  BY <1>2, NegotiateKeeps, OtherClaimsKeeps, PlanMachineKeeps, PublishKeeps
<1>3. CASE \E m \in Machine : Claim!RunStartsOrEnds(m)
  BY <1>3, ClaimSame DEF Claim!RunStartsOrEnds, Claim!Move, Alone
<1>4. CASE \E h \in ClaimHash : Claim!Copy(h) BY <1>4, CopyKeeps
<1>5. CASE \E h \in ClaimHash : \E space \in Claim!Space : Claim!Damage(space, h)
  BY <1>5, DamageKeeps DEF Claim!Space, ClaimSpace
<1>6. CASE Claim!Begin \/ Claim!Classify \/ Claim!Write \/ Claim!Apply
  BY <1>6, ClaimBeginKeeps, ClassifyKeeps, ClaimWriteKeeps, ApplyKeeps
<1>7. CASE Claim!Refuse BY <1>7, RefusedKeeps DEF Claim!Refuse
<1>8. QED BY <1>1, <1>2, <1>3, <1>4, <1>5, <1>6, <1>7 DEF Claim!Next

\* WorkIsWhole, the half of the claim: a machine's history is never half moved, and
\* a claimed machine has every blob its manifests name.
LEMMA ClaimIsKept ==
  ASSUME ClaimInv PROVE Claim!ClaimIsWhole
<1>1. \A r \in chain : r.space = Claim!Home(r.machine) BY DEF ClaimInv, ChainIsHome
<1>2. ASSUME NEW m \in Machine, owner[m] = ClaimTeam, NEW h \in Claim!HashesOf(Claim!RowsOf(m, ClaimTeam))
      PROVE  h \in blobRow[ClaimTeam] /\ (file[ClaimTeam][h] = "good" \/ h \in spoiled)
  <2>1. PICK r \in chain : r.machine = m /\ r.kind = "manifest" /\ r.hash = h
    BY <1>2 DEF Claim!HashesOf, Claim!RowsOf, Claim!OfKind
  <2>2. QED BY <2>1, <1>2 DEF ClaimInv, BlobsAreThere
<1>3. QED BY <1>1, <1>2 DEF Claim!ClaimIsWhole

--------------------------------------------------------------------------------
(***************************************************************************)
(* Finite sets of numbers.                                                 *)
(***************************************************************************)
\* Ranks count a set through, from its least member to its greatest.
Rank(S, k) == Cardinality({j \in S : j <= k})

LEMMA RanksCount ==
  ASSUME NEW S \in SUBSET Nat, IsFiniteSet(S)
  PROVE  /\ Cardinality(S) \in Nat
         /\ \A k \in S : Rank(S, k) \in 1 .. Cardinality(S)
         /\ \A k, j \in S : Rank(S, k) = Rank(S, j) => k = j
         /\ \A i \in 1 .. Cardinality(S) : \E k \in S : Rank(S, k) = i
<1> DEFINE n == Cardinality(S)
           Upto(k) == {j \in S : j <= k}
<1>1. n \in Nat BY FS_CardinalityType
<1>2. ASSUME NEW k \in S
      PROVE  IsFiniteSet(Upto(k)) /\ Rank(S, k) \in 1 .. n
  <2>1. IsFiniteSet(Upto(k)) /\ Cardinality(Upto(k)) <= n /\ Cardinality(Upto(k)) \in Nat
    BY FS_Subset, FS_CardinalityType
  <2>2. Cardinality(Upto(k)) # 0 BY <2>1, FS_EmptySet
  <2>3. QED BY <1>1, <2>1, <2>2 DEF Rank
<1>3. ASSUME NEW k \in S, NEW j \in S, Rank(S, k) = Rank(S, j), j < k
      PROVE  FALSE
  <2>0. k \in Nat /\ j \in Nat /\ \A i \in S : i \in Nat /\ (i <= j => i <= k) BY <1>3
  <2>1. Upto(j) \subseteq Upto(k) BY <2>0, Zenon
  <2>4. k <= k /\ ~(k <= j) BY <2>0, <1>3
  <2>5. k \notin Upto(j) /\ k \in Upto(k) BY <2>4
  <2>2. Upto(j) = Upto(k) BY <1>2, <1>3, <2>1, FS_Subset DEF Rank
  <2>3. QED BY <2>5, <2>2
<1>4. \A k, j \in S : Rank(S, k) = Rank(S, j) => k = j
  <2> TAKE k, j \in S
  <2>1. k = j \/ k < j \/ j < k OBVIOUS
  <2>2. QED BY <2>1, <1>3
<1> DEFINE f == [k \in S |-> Rank(S, k)]
<1>5. f \in Injection(S, 1 .. n)
  BY <1>2, <1>4 DEF Injection, IsInjective
<1>6. IsFiniteSet(1 .. n) /\ Cardinality(1 .. n) = n
  BY <1>1, FS_Interval
<1>7. f \in Surjection(S, 1 .. n) BY <1>5, <1>6, FS_Injection
<1>8. \A i \in 1 .. n : \E k \in S : Rank(S, k) = i
  BY <1>7 DEF Surjection
<1>9. QED BY <1>1, <1>2, <1>4, <1>8

LEMMA RanksRise ==
  ASSUME NEW S \in SUBSET Nat, IsFiniteSet(S), NEW k \in S, NEW j \in S, j <= k
  PROVE  Rank(S, j) <= Rank(S, k)
<1>0. \A i \in S : i \in Nat /\ (i <= j => i <= k) OBVIOUS
<1>1. {i \in S : i <= k} \subseteq S /\ {i \in S : i <= j} \subseteq {i \in S : i <= k} BY <1>0, Zenon
<1>2. IsFiniteSet({i \in S : i <= k}) BY <1>1, FS_Subset
<1>3. QED BY <1>1, <1>2, FS_Subset DEF Rank

LEMMA GreatestExists ==
  ASSUME NEW S \in SUBSET Nat, IsFiniteSet(S), S # {}
  PROVE  \E k \in S : \A j \in S : j <= k
<1>1. Cardinality(S) \in Nat /\ Cardinality(S) # 0 BY RanksCount, FS_EmptySet
<1>2. PICK k \in S : Rank(S, k) = Cardinality(S) BY <1>1, RanksCount
<1>3. {j \in S : j <= k} = S BY <1>2, FS_Subset DEF Rank
<1>4. QED BY <1>3

--------------------------------------------------------------------------------
(***************************************************************************)
(* The inactivity sweep.                                                   *)
(***************************************************************************)
RunRow == {"absent", "fresh", "stale", "stuck", "grace", "dead", "settled"}
PageEntry == [run : Sweep!Run, due : BOOLEAN]
PassState == [at : {"none", "runs", "leases"}, page : Seq(PageEntry), after : Nat, short : BOOLEAN,
              due : SUBSET Sweep!Run, whole : BOOLEAN]

SweepTypes ==
  /\ rows \in [Sweep!Run -> RunRow] /\ passes \in [Slot -> PassState]
  /\ inFlight \in Slot \cup {None} /\ awaited \in Slot \cup {None}
  /\ timer \in {"armed", "stopping", "drained"}

\* One pass at most is under way, and the drain knows it.
PassesAreKnown ==
  /\ \A s \in Slot : passes[s].at # "none" <=> inFlight = s
  /\ inFlight # None => awaited = inFlight
  /\ timer = "drained" => inFlight = None

\* What a stage of a pass has to deal with, and whether a row is still before it.
Wanted(stage0) == IF stage0 = "runs" THEN "stale" ELSE "dead"
OnPage(page, r) == \E i \in 1 .. Len(page) : page[i].run = r /\ page[i].due
Ahead(pass, r) == (Sweep!Key(pass.at, r) > pass.after /\ ~pass.short) \/ OnPage(pass.page, r)

Covered(pass, row0) ==
  /\ pass.at = "runs" => \A r \in pass.due : row0[r] \in {"stale", "stuck", "dead"}
  /\ pass.at = "leases" => \A r \in pass.due : row0[r] \in {"stuck", "dead"}
  /\ pass.at # "none" => \A r \in pass.due : row0[r] = Wanted(pass.at) => Ahead(pass, r)
  /\ pass.whole => \A r \in pass.due : row0[r] = "stuck"

SweepInv == SweepTypes /\ PassesAreKnown /\ \A s \in Slot : Covered(passes[s], rows)

LEMMA NoPassFits ==
  LET p == Sweep!NoPass
  IN  p \in PassState /\ p.at = "none" /\ p.due = {} /\ p.page = <<>> /\ p.after = 0 /\ p.short = FALSE /\ p.whole = FALSE
BY EmptySeq DEF Sweep!NoPass, PassState

LEMMA SweepInit == Sweep!Init => SweepInv
<1> SUFFICES ASSUME Sweep!Init PROVE SweepInv OBVIOUS
<1>1. /\ rows = [r \in Sweep!Run |-> "absent"] /\ passes = [s \in Slot |-> Sweep!NoPass]
      /\ inFlight = None /\ awaited = None /\ timer = "armed"
  BY DEF Sweep!Init
<1>2. SweepTypes BY <1>1, NoPassFits DEF SweepTypes, RunRow
<1>3. PassesAreKnown BY <1>1, NoPassFits, SweepAssumption DEF PassesAreKnown
<1>4. QED BY <1>1, <1>2, <1>3, NoPassFits DEF SweepInv, Covered

\* The page: the least keys beyond the last, as many as it holds.
LEMMA PageIsLeast ==
  ASSUME NEW stage0, NEW after
  PROVE  LET all == Sweep!Beyond(stage0, after)
             keys == Sweep!PageKeys(stage0, after)
         IN  /\ all \in SUBSET Nat /\ IsFiniteSet(all) /\ keys \in SUBSET all /\ IsFiniteSet(keys)
             /\ Cardinality(keys) \in Nat
             /\ keys # {} => \E k \in keys : \A j \in keys : j <= k
             /\ \A k \in all \ keys : Cardinality(keys) >= PageSize /\ \A j \in keys : j < k
<1> DEFINE all == Sweep!Beyond(stage0, after)
           keys == Sweep!PageKeys(stage0, after)
<1>1. all \subseteq 1 .. Runs BY DEF Sweep!Beyond, Sweep!Run
<1>2. all \in SUBSET Nat BY <1>1, SweepAssumption
<1>3. IsFiniteSet(all)
  <2>1. IsFiniteSet(1 .. Runs) BY SweepAssumption, FS_Interval
  <2>2. QED BY <1>1, <2>1, FS_Subset
<1>4. \A S : Sweep!Cardinality(S) = Cardinality(S) BY DEF Sweep!Cardinality, Cardinality
<1>5. keys = {k \in all : Rank(all, k) <= PageSize} BY <1>4 DEF Sweep!PageKeys, Rank
<1> HIDE DEF all, keys
<1>6. keys \in SUBSET all /\ keys \in SUBSET Nat /\ IsFiniteSet(keys) BY <1>2, <1>3, <1>5, FS_Subset
<1>7. Cardinality(keys) \in Nat BY <1>6, FS_CardinalityType
<1>8. keys # {} => \E k \in keys : \A j \in keys : j <= k BY <1>6, GreatestExists
<1>9. ASSUME NEW k \in all \ keys
      PROVE  Cardinality(keys) >= PageSize /\ \A j \in keys : j < k
  <2>1. Cardinality(all) \in Nat /\ Rank(all, k) \in 1 .. Cardinality(all) /\ \A j \in keys : Rank(all, j) \in 1 .. Cardinality(all)
    BY <1>2, <1>3, <1>6, RanksCount
  <2>2. Rank(all, k) > PageSize BY <2>1, <1>5, SweepAssumption
  <2>3. ASSUME NEW j \in keys PROVE j < k
    <3>1. Rank(all, j) <= PageSize BY <1>5
    <3>2. j \in Nat /\ k \in Nat BY <1>2, <1>6
    <3>3. ~(k <= j)
      <4> SUFFICES ASSUME k <= j PROVE FALSE OBVIOUS
      <4>1. Rank(all, k) <= Rank(all, j) BY <1>2, <1>3, <1>6, RanksRise
      <4>2. QED BY <4>1, <3>1, <2>1, <2>2, SweepAssumption
    <3>4. QED BY <3>2, <3>3
  <2>4. Cardinality(keys) >= PageSize
    <3> DEFINE f == [j \in keys |-> Rank(all, j)]
    <3>1. \A i \in 1 .. PageSize : \E j \in keys : Rank(all, j) = i
      <4> TAKE i \in 1 .. PageSize
      <4>1. i \in 1 .. Cardinality(all) BY <2>1, <2>2, SweepAssumption
      <4>2. PICK j \in all : Rank(all, j) = i BY <4>1, <1>2, <1>3, RanksCount
      <4>3. j \in keys BY <4>2, <1>5, SweepAssumption
      <4>4. QED BY <4>2, <4>3
    <3>2. \A j \in keys : Rank(all, j) \in 1 .. PageSize
      BY <2>1, <1>5, SweepAssumption
    <3>3. f \in Surjection(keys, 1 .. PageSize) BY <3>1, <3>2 DEF Surjection
    <3>4. Cardinality(1 .. PageSize) <= Cardinality(keys) BY <3>3, <1>6, FS_Surjection
    <3>5. Cardinality(1 .. PageSize) = PageSize BY FS_Interval, SweepAssumption
    <3>6. QED BY <3>4, <3>5, <1>7, SweepAssumption
  <2>5. QED BY <2>3, <2>4
<1>10. QED BY <1>2, <1>3, <1>6, <1>7, <1>8, <1>9 DEF all, keys

\* Every key is at its place on the page, and nothing else is on it.
LEMMA PageHoldsAll ==
  ASSUME NEW S \in SUBSET Nat, IsFiniteSet(S)
  PROVE  /\ Sweep!InOrder(S) \in [1 .. Cardinality(S) -> S]
         /\ \A k \in S : \E i \in 1 .. Cardinality(S) : Sweep!InOrder(S)[i] = k
<1>1. \A T : Sweep!Cardinality(T) = Cardinality(T) BY DEF Sweep!Cardinality, Cardinality
<1>2. Sweep!InOrder(S) = [i \in 1 .. Cardinality(S) |-> CHOOSE k \in S : Rank(S, k) = i]
  BY <1>1 DEF Sweep!InOrder, Rank
<1>3. \A i \in 1 .. Cardinality(S) : \E k \in S : Rank(S, k) = i BY RanksCount
<1>4. ASSUME NEW i \in 1 .. Cardinality(S)
      PROVE  Sweep!InOrder(S)[i] \in S /\ Rank(S, Sweep!InOrder(S)[i]) = i
  <2>1. Sweep!InOrder(S)[i] = CHOOSE k \in S : Rank(S, k) = i BY <1>2
  <2>2. \E k \in S : Rank(S, k) = i BY <1>3
  <2>3. QED BY <2>1, <2>2
<1>5. Sweep!InOrder(S) \in [1 .. Cardinality(S) -> S] BY <1>2, <1>3
<1>6. \A k \in S : \E i \in 1 .. Cardinality(S) : Sweep!InOrder(S)[i] = k
  <2> TAKE k \in S
  <2>1. Rank(S, k) \in 1 .. Cardinality(S) BY RanksCount
  <2> DEFINE q == Sweep!InOrder(S)[Rank(S, k)]
  <2>2. q \in S /\ Rank(S, q) = Rank(S, k) BY <2>1, <1>4
  <2> HIDE DEF q
  <2>3. q = k BY <2>2, RanksCount
  <2>4. QED BY <2>1, <2>3 DEF q
<1>7. QED BY <1>5, <1>6

\* The head of a page is dealt with.
LEMMA TailOfPage ==
  ASSUME NEW page \in Seq(PageEntry), page # <<>>
  PROVE  /\ Tail(page) \in Seq(PageEntry) /\ Head(page) \in PageEntry
         /\ \A r : OnPage(page, r) => OnPage(Tail(page), r) \/ (Head(page).run = r /\ Head(page).due)
<1>1. /\ Head(page) \in PageEntry /\ Tail(page) \in Seq(PageEntry) /\ Len(Tail(page)) = Len(page) - 1
      /\ \A i \in 1 .. Len(Tail(page)) : Tail(page)[i] = page[i + 1]
  BY HeadTailProperties
<1>2. Head(page) = page[1] /\ Len(page) \in Nat OBVIOUS
<1>3. ASSUME NEW r, OnPage(page, r), ~(Head(page).run = r /\ Head(page).due)
      PROVE  OnPage(Tail(page), r)
  <2>1. PICK i \in 1 .. Len(page) : page[i].run = r /\ page[i].due BY <1>3 DEF OnPage
  <2>2. i # 1 BY <1>2, <1>3, <2>1
  <2>3. i - 1 \in 1 .. Len(Tail(page)) /\ (i - 1) + 1 = i BY <2>2, <1>1, <1>2
  <2>4. Tail(page)[i - 1] = page[i] BY <2>3, <1>1
  <2>5. QED BY <2>1, <2>3, <2>4 DEF OnPage
<1>4. QED BY <1>1, <1>3

\* What a pass has to reach only shrinks when rows leave it and keep their kind.
Continues(p, q, row0, row1) ==
  /\ q.at = p.at /\ q.after = p.after /\ q.short = p.short /\ q.whole = p.whole /\ q.due \subseteq p.due
  /\ \A r \in q.due : row1[r] = row0[r]
  /\ \A r \in q.due : OnPage(p.page, r) /\ row0[r] = Wanted(p.at) => OnPage(q.page, r)

LEMMA CoverContinues ==
  ASSUME NEW p, NEW q, NEW row0, NEW row1, Covered(p, row0), Continues(p, q, row0, row1)
  PROVE  Covered(q, row1)
BY DEF Covered, Continues, Ahead

\* Rows stir, or a page's head is dealt with: no pass starts or ends.
LEMMA GoesOn ==
  ASSUME SweepInv, rows' \in [Sweep!Run -> RunRow], passes' \in [Slot -> PassState],
         UNCHANGED <<inFlight, awaited, timer>>,
         \A s \in Slot : Continues(passes[s], passes'[s], rows, rows')
  PROVE  SweepInv'
<1>1. SweepTypes' BY DEF SweepInv, SweepTypes
<1>2. \A s \in Slot : passes'[s].at = passes[s].at BY DEF Continues
<1>3. PassesAreKnown' BY <1>2 DEF SweepInv, PassesAreKnown
<1>4. \A s \in Slot : Covered(passes'[s], rows') BY CoverContinues DEF SweepInv
<1>5. QED BY <1>1, <1>3, <1>4 DEF SweepInv

LEMMA PassFields ==
  ASSUME SweepTypes, NEW s \in Slot
  PROVE  /\ passes[s] \in PassState /\ passes[s].page \in Seq(PageEntry) /\ passes[s].due \subseteq Sweep!Run
         /\ passes[s].after \in Nat /\ passes[s].short \in BOOLEAN
BY DEF SweepTypes, PassState

LEMMA RowChangesKeeps ==
  ASSUME SweepInv, Sweep!RowChanges
  PROVE  SweepInv'
<1>1. PICK r \in Sweep!Run, row0 \in RunRow :
         /\ rows' = [rows EXCEPT ![r] = row0]
         /\ passes' = [s \in Slot |-> [passes[s] EXCEPT !.due = passes[s].due \ {r}]]
         /\ UNCHANGED <<inFlight, awaited, timer>>
  BY DEF Sweep!RowChanges, Sweep!Turns, RunRow
<1>2. SweepTypes BY DEF SweepInv
<1>3. rows' \in [Sweep!Run -> RunRow] /\ \A k \in Sweep!Run : k # r => rows'[k] = rows[k]
  BY <1>1, <1>2 DEF SweepTypes
<1>4. ASSUME NEW s \in Slot
      PROVE  passes'[s] \in PassState /\ Continues(passes[s], passes'[s], rows, rows')
  <2>1. passes[s] \in PassState /\ passes[s].due \subseteq Sweep!Run BY <1>2, PassFields
  <2>2. passes'[s] = [passes[s] EXCEPT !.due = passes[s].due \ {r}] BY <1>1
  <2>3. /\ passes'[s] \in PassState /\ passes'[s].at = passes[s].at /\ passes'[s].after = passes[s].after
        /\ passes'[s].short = passes[s].short /\ passes'[s].whole = passes[s].whole
        /\ passes'[s].due = passes[s].due \ {r} /\ passes'[s].page = passes[s].page
    BY <2>1, <2>2 DEF PassState
  <2>4. QED BY <1>3, <2>1, <2>3 DEF Continues
<1>5. passes' \in [Slot -> PassState]
  <2>1. DOMAIN passes' = Slot /\ passes' = [s \in Slot |-> passes'[s]] BY <1>1
  <2>2. QED BY <2>1, <1>4
<1>6. QED BY <1>1, <1>3, <1>4, <1>5, GoesOn

LEMMA KeepKeeps ==
  ASSUME SweepInv, NEW s \in Slot, Sweep!Keep(s)
  PROVE  SweepInv'
<1>1. /\ passes[s].page # <<>> /\ ~Head(passes[s].page).due
      /\ passes' = [passes EXCEPT ![s].page = Tail(passes[s].page)]
      /\ UNCHANGED <<rows, inFlight, awaited, timer>>
  BY DEF Sweep!Keep
<1>2. SweepTypes BY DEF SweepInv
<1>3. passes[s] \in PassState /\ passes[s].page \in Seq(PageEntry) BY <1>2, PassFields
<1>4. Tail(passes[s].page) \in Seq(PageEntry) BY <1>1, <1>3, TailOfPage
<1> DEFINE q == [passes[s] EXCEPT !.page = Tail(passes[s].page)]
<1>5. /\ q \in PassState /\ q.at = passes[s].at /\ q.after = passes[s].after /\ q.short = passes[s].short
      /\ q.whole = passes[s].whole /\ q.due = passes[s].due /\ q.page = Tail(passes[s].page)
  BY <1>3, <1>4 DEF PassState
<1>6. passes' = [passes EXCEPT ![s] = q] BY <1>1
<1> HIDE DEF q
<1>7. /\ passes' \in [Slot -> PassState] /\ passes'[s] = q
      /\ \A p \in Slot : p # s => passes'[p] = passes[p]
  BY <1>2, <1>5, <1>6 DEF SweepTypes
<1>8. Continues(passes[s], q, rows, rows') BY <1>1, <1>3, <1>5, TailOfPage DEF Continues
<1>9. \A p \in Slot : p # s => Continues(passes[p], passes'[p], rows, rows') BY <1>1, <1>7 DEF Continues
<1>10. rows' \in [Sweep!Run -> RunRow] BY <1>1, <1>2 DEF SweepTypes
<1>11. QED BY <1>1, <1>7, <1>8, <1>9, <1>10, GoesOn

\* The head of a page is due: its row changes, or there is nothing left to do.
LEMMA DueHeadKeeps ==
  ASSUME SweepInv, NEW s \in Slot, passes[s].page # <<>>,
         NEW D, NEW row0 \in RunRow,
         D = {} \/ D = {Head(passes[s].page).run},
         D = {} => rows' = rows /\ rows[Head(passes[s].page).run] # Wanted(passes[s].at),
         D # {} => rows' = [rows EXCEPT ![Head(passes[s].page).run] = row0],
         passes' = [p \in Slot |-> [passes[p] EXCEPT !.due = passes[p].due \ D,
                                                     !.page = IF p = s THEN Tail(passes[p].page) ELSE passes[p].page]],
         UNCHANGED <<inFlight, awaited, timer>>
  PROVE  SweepInv'
<1> DEFINE r == Head(passes[s].page).run
<1>1. SweepTypes BY DEF SweepInv
<1>2. passes[s].page \in Seq(PageEntry) BY <1>1, PassFields
<1>3. Tail(passes[s].page) \in Seq(PageEntry) /\ r \in Sweep!Run
  BY <1>2, TailOfPage DEF PageEntry
<1>4. rows' \in [Sweep!Run -> RunRow] /\ \A k \in Sweep!Run : k \notin D => rows'[k] = rows[k]
  <2>1. CASE D = {} BY <2>1, <1>1 DEF SweepTypes
  <2>2. CASE D = {r} BY <2>2, <1>1, <1>3 DEF SweepTypes
  <2>3. QED BY <2>1, <2>2
<1>5. ASSUME NEW p \in Slot
      PROVE  passes'[p] \in PassState /\ Continues(passes[p], passes'[p], rows, rows')
  <2> DEFINE page == IF p = s THEN Tail(passes[p].page) ELSE passes[p].page
  <2>1. passes[p] \in PassState /\ passes[p].due \subseteq Sweep!Run /\ passes[p].page \in Seq(PageEntry)
    BY <1>1, PassFields
  <2>2. page \in Seq(PageEntry) BY <1>3, <2>1
  <2>3. passes'[p] = [passes[p] EXCEPT !.due = passes[p].due \ D, !.page = page] OBVIOUS
  <2>4. \A k : OnPage(passes[p].page, k) /\ ~(p = s /\ k = r) => OnPage(page, k)
    BY <1>2, TailOfPage
  <2> HIDE DEF page
  <2>5. /\ passes'[p] \in PassState /\ passes'[p].at = passes[p].at /\ passes'[p].after = passes[p].after
        /\ passes'[p].short = passes[p].short /\ passes'[p].whole = passes[p].whole
        /\ passes'[p].due = passes[p].due \ D /\ passes'[p].page = page
    BY <2>1, <2>2, <2>3 DEF PassState
  <2>6. \A k \in passes[p].due \ D : rows[k] = Wanted(passes[p].at) => ~(p = s /\ k = r)
    OBVIOUS
  <2>7. QED BY <1>4, <2>1, <2>4, <2>5, <2>6 DEF Continues
<1>6. passes' \in [Slot -> PassState]
  <2>1. DOMAIN passes' = Slot /\ passes' = [p \in Slot |-> passes'[p]] OBVIOUS
  <2>2. QED BY <2>1, <1>5
<1>7. QED BY <1>4, <1>5, <1>6, GoesOn

LEMMA ConsiderKeeps ==
  ASSUME SweepInv, NEW s \in Slot, Sweep!Consider(s)
  PROVE  SweepInv'
<1> DEFINE r == Head(passes[s].page).run
           D == IF rows[r] = "stale" THEN {r} ELSE {}
<1>1. /\ passes[s].at = "runs" /\ passes[s].page # <<>>
      /\ rows' = IF rows[r] = "stale" THEN [rows EXCEPT ![r] = "grace"] ELSE rows
      /\ UNCHANGED <<inFlight, awaited, timer>>
      /\ passes' = [p \in Slot |-> [passes[p] EXCEPT !.due = IF rows[r] = "stale" THEN passes[p].due \ {r} ELSE passes[p].due,
                                                     !.page = IF p = s THEN Tail(passes[p].page) ELSE passes[p].page]]
  BY DEF Sweep!Consider
<1>2. \A p \in Slot : (IF rows[r] = "stale" THEN passes[p].due \ {r} ELSE passes[p].due) = passes[p].due \ D
  OBVIOUS
<1>3. passes' = [p \in Slot |-> [passes[p] EXCEPT !.due = passes[p].due \ D,
                                                  !.page = IF p = s THEN Tail(passes[p].page) ELSE passes[p].page]]
  BY <1>1, <1>2
<1>4. D = {} => rows' = rows /\ rows[r] # Wanted(passes[s].at) BY <1>1 DEF Wanted
<1>5. D # {} => rows' = [rows EXCEPT ![r] = "grace"] BY <1>1
<1>6. (D = {} \/ D = {r}) /\ "grace" \in RunRow BY DEF RunRow
<1> HIDE DEF D
<1>7. passes[s].page # <<>> /\ UNCHANGED <<inFlight, awaited, timer>> BY <1>1
<1>8. QED BY <1>3, <1>4, <1>5, <1>6, <1>7, DueHeadKeeps

LEMMA SweepPruneKeeps ==
  ASSUME SweepInv, NEW s \in Slot, Sweep!Prune(s)
  PROVE  SweepInv'
<1> DEFINE r == Head(passes[s].page).run
           D == {r}
<1>1. /\ passes[s].page # <<>>
      /\ rows' = [rows EXCEPT ![r] = "settled"]
      /\ UNCHANGED <<inFlight, awaited, timer>>
      /\ passes' = [p \in Slot |-> [passes[p] EXCEPT !.due = passes[p].due \ D,
                                                     !.page = IF p = s THEN Tail(passes[p].page) ELSE passes[p].page]]
  BY DEF Sweep!Prune
<1>2. D # {} /\ D = {r} /\ "settled" \in RunRow BY DEF RunRow
<1> HIDE DEF D
<1>3. QED BY <1>1, <1>2, DueHeadKeeps

\* One pass becomes another, and no row changes.
LEMMA PassBecomes ==
  ASSUME SweepInv, NEW s \in Slot, NEW q \in PassState, Covered(q, rows),
         passes' = [passes EXCEPT ![s] = q], rows' = rows
  PROVE  /\ passes' \in [Slot -> PassState] /\ rows' \in [Sweep!Run -> RunRow]
         /\ passes'[s] = q /\ \A p \in Slot : p # s => passes'[p] = passes[p]
         /\ \A p \in Slot : Covered(passes'[p], rows')
<1>1. /\ passes \in [Slot -> PassState] /\ rows \in [Sweep!Run -> RunRow] /\ \A p \in Slot : Covered(passes[p], rows)
  BY DEF SweepInv, SweepTypes
<1>2. /\ passes' \in [Slot -> PassState]
      /\ passes'[s] = q /\ \A p \in Slot : p # s => passes'[p] = passes[p]
  BY <1>1
<1>3. ASSUME NEW p \in Slot PROVE Covered(passes'[p], rows')
  <2>1. CASE p = s BY <2>1, <1>2
  <2>2. CASE p # s BY <2>2, <1>1, <1>2
  <2>3. QED BY <2>1, <2>2
<1>4. QED BY <1>1, <1>2, <1>3

LEMMA RunsDoneKeeps ==
  ASSUME SweepInv, NEW s \in Slot, Sweep!RunsDone(s)
  PROVE  SweepInv'
<1> DEFINE q == [passes[s] EXCEPT !.at = "leases", !.after = 0, !.short = FALSE]
<1>1. /\ passes[s].at = "runs" /\ passes[s].page = <<>> /\ passes[s].short
      /\ passes' = [passes EXCEPT ![s] = q] /\ rows' = rows /\ UNCHANGED <<inFlight, awaited, timer>>
  BY DEF Sweep!RunsDone
<1>2. SweepTypes /\ Covered(passes[s], rows) BY DEF SweepInv
<1>3. passes[s] \in PassState /\ passes[s].due \subseteq Sweep!Run BY <1>2, PassFields
<1>4. /\ q \in PassState /\ q.at = "leases" /\ q.after = 0 /\ q.short = FALSE /\ q.due = passes[s].due
      /\ q.whole = passes[s].whole
  BY <1>3 DEF PassState
<1>5. \A r : ~OnPage(<<>>, r) BY EmptySeq DEF OnPage
<1>6. \A r \in passes[s].due : rows[r] \in {"stuck", "dead"}
  BY <1>1, <1>2, <1>5 DEF Covered, Ahead, Wanted
<1> HIDE DEF q
<1>7. \A r \in Sweep!Run : Sweep!Key("leases", r) > 0
  BY SweepAssumption DEF Sweep!Key, Sweep!Run
<1>8. Covered(q, rows) BY <1>2, <1>3, <1>4, <1>6, <1>7 DEF Covered, Ahead
<1>9. /\ passes' \in [Slot -> PassState] /\ rows' \in [Sweep!Run -> RunRow]
      /\ passes'[s] = q /\ \A p \in Slot : p # s => passes'[p] = passes[p]
      /\ \A p \in Slot : Covered(passes'[p], rows')
  BY <1>1, <1>4, <1>8, PassBecomes
<1>10. \A p \in Slot : passes'[p].at # "none" <=> passes[p].at # "none" BY <1>1, <1>4, <1>9
<1>11. SweepTypes' /\ PassesAreKnown'
  BY <1>1, <1>2, <1>9, <1>10 DEF SweepTypes, PassesAreKnown, SweepInv
<1>12. QED BY <1>9, <1>11 DEF SweepInv

LEMMA SettleKeeps ==
  ASSUME SweepInv, NEW s \in Slot, Sweep!Settle(s)
  PROVE  SweepInv'
<1>1. PICK done \in BOOLEAN :
        /\ done => passes[s].at = "leases" /\ passes[s].page = <<>> /\ passes[s].short
        /\ ~done => Sweep!MayFail(passes[s])
        /\ passes' = [passes EXCEPT ![s] = [Sweep!NoPass EXCEPT !.whole = done, !.due = IF done THEN passes[s].due ELSE {}]]
  BY DEF Sweep!Settle
<1>2. rows' = rows /\ awaited' = awaited /\ timer' = timer /\ inFlight' = None BY DEF Sweep!Settle
<1> DEFINE left0 == IF done THEN passes[s].due ELSE {}
           q == [Sweep!NoPass EXCEPT !.whole = done, !.due = left0]
<1>3. SweepTypes /\ PassesAreKnown /\ Covered(passes[s], rows) BY DEF SweepInv
<1>4. passes[s] \in PassState /\ passes[s].due \subseteq Sweep!Run BY <1>3, PassFields
<1>5. passes[s].at # "none" BY <1>1 DEF Sweep!MayFail
<1>6. left0 \in SUBSET Sweep!Run BY <1>4
<1>7. \A r : ~OnPage(<<>>, r) BY EmptySeq DEF OnPage
<1>8. done => \A r \in left0 : rows[r] = "stuck"
  BY <1>1, <1>3, <1>7 DEF Covered, Ahead, Wanted
<1>9. passes' = [passes EXCEPT ![s] = q] BY <1>1
<1> HIDE DEF left0
<1>10. q \in PassState /\ q.at = "none" /\ q.due = left0 /\ q.whole = done
  BY <1>6, NoPassFits DEF PassState
<1> HIDE DEF q
<1>11. Covered(q, rows) BY <1>8, <1>10 DEF Covered
<1>12. /\ passes' \in [Slot -> PassState] /\ rows' \in [Sweep!Run -> RunRow]
       /\ passes'[s] = q /\ \A p \in Slot : p # s => passes'[p] = passes[p]
       /\ \A p \in Slot : Covered(passes'[p], rows')
  BY <1>2, <1>9, <1>10, <1>11, PassBecomes
<1>13. inFlight = s BY <1>3, <1>5 DEF PassesAreKnown
<1>14. \A p \in Slot : passes'[p].at = "none" BY <1>3, <1>10, <1>12, <1>13 DEF PassesAreKnown
<1>15. SweepTypes' BY <1>2, <1>3, <1>12 DEF SweepTypes
<1>16. PassesAreKnown' BY <1>2, <1>14, SweepAssumption DEF PassesAreKnown
<1>17. QED BY <1>12, <1>15, <1>16 DEF SweepInv

LEMMA TickKeeps ==
  ASSUME SweepInv, Sweep!Tick
  PROVE  SweepInv'
<1>1. SweepTypes /\ PassesAreKnown BY DEF SweepInv
<1>2. timer = "armed" /\ timer' = timer /\ rows' = rows BY DEF Sweep!Tick
<1>3. CASE inFlight # None /\ awaited' = inFlight /\ UNCHANGED <<passes, inFlight>>
  BY <1>1, <1>2, <1>3 DEF SweepInv, SweepTypes, PassesAreKnown
<1>4. CASE inFlight = None /\ \E s \in Slot : /\ passes[s].at = "none"
                             /\ passes' = [passes EXCEPT ![s] = [Sweep!NoPass EXCEPT !.at = "runs", !.due = Sweep!DueNow]]
                             /\ inFlight' = s /\ awaited' = s
  <2>1. PICK s \in Slot : /\ passes[s].at = "none"
                          /\ passes' = [passes EXCEPT ![s] = [Sweep!NoPass EXCEPT !.at = "runs", !.due = Sweep!DueNow]]
                          /\ inFlight' = s /\ awaited' = s
    BY <1>4
  <2> DEFINE q == [Sweep!NoPass EXCEPT !.at = "runs", !.due = Sweep!DueNow]
  <2>2. Sweep!DueNow \in SUBSET Sweep!Run /\ \A r \in Sweep!DueNow : rows[r] \in {"stale", "stuck", "dead"}
    BY DEF Sweep!DueNow
  <2>3. q \in PassState /\ q.at = "runs" /\ q.due = Sweep!DueNow /\ q.after = 0 /\ q.short = FALSE /\ q.whole = FALSE
    BY <2>2, NoPassFits DEF PassState
  <2> HIDE DEF q
  <2>4. \A r \in Sweep!Run : Sweep!Key("runs", r) > 0
    BY SweepAssumption DEF Sweep!Key, Sweep!Run
  <2>5. Covered(q, rows) BY <2>2, <2>3, <2>4 DEF Covered, Ahead
  <2>6. passes' = [passes EXCEPT ![s] = q] BY <2>1 DEF q
  <2>7. /\ passes' \in [Slot -> PassState] /\ rows' \in [Sweep!Run -> RunRow]
        /\ passes'[s] = q /\ \A p \in Slot : p # s => passes'[p] = passes[p]
        /\ \A p \in Slot : Covered(passes'[p], rows')
    BY <1>2, <2>3, <2>5, <2>6, PassBecomes
  <2>8. \A p \in Slot : passes[p].at = "none" BY <1>1, <1>4, SweepAssumption DEF PassesAreKnown
  <2>9. PassesAreKnown' BY <1>2, <2>1, <2>3, <2>7, <2>8 DEF PassesAreKnown
  <2>10. SweepTypes' BY <1>1, <1>2, <2>1, <2>7 DEF SweepTypes
  <2>11. QED BY <2>7, <2>9, <2>10 DEF SweepInv
<1>5. QED BY <1>3, <1>4 DEF Sweep!Tick, Sweep!Joins

LEMMA StopKeeps ==
  ASSUME SweepInv, Sweep!Stop \/ Sweep!Drain \/ UNCHANGED Sweep!sweepVars
  PROVE  SweepInv'
<1>1. /\ UNCHANGED <<rows, passes, inFlight, awaited>> /\ timer' \in {timer, "stopping", "drained"}
      /\ timer' = "drained" => timer = "drained" \/ (awaited # None => passes[awaited].at = "none")
  BY DEF Sweep!Stop, Sweep!Drain, Sweep!sweepVars
<1>2. SweepTypes /\ PassesAreKnown BY DEF SweepInv
<1>3. SweepTypes' BY <1>1, <1>2 DEF SweepTypes
<1>4. timer' = "drained" => inFlight = None
  BY <1>1, <1>2 DEF PassesAreKnown, SweepTypes
<1>5. QED BY <1>1, <1>2, <1>3, <1>4 DEF SweepInv, PassesAreKnown

\* The next page: a row that is due and beyond it is either on it, or beyond it
\* still, and then the page is full.
LEMMA ReadPageKeeps ==
  ASSUME SweepInv, NEW s \in Slot, Sweep!ReadPage(s)
  PROVE  SweepInv'
<1> DEFINE pass == passes[s]
           all == Sweep!Beyond(pass.at, pass.after)
           keys == Sweep!PageKeys(pass.at, pass.after)
           order == Sweep!InOrder(keys)
           page == [i \in DOMAIN order |-> [run |-> Sweep!Keyed(pass.at, order[i]), due |-> Sweep!Keyed(pass.at, order[i]) \in pass.due]]
           last == IF keys = {} THEN pass.after ELSE CHOOSE k \in keys : \A j \in keys : j <= k
           ends == Sweep!Short(keys)
           q == [pass EXCEPT !.page = page, !.after = last, !.short = ends]
<1>1. /\ pass.at # "none" /\ pass.page = <<>> /\ ~pass.short
      /\ passes' = [passes EXCEPT ![s] = q] /\ rows' = rows /\ UNCHANGED <<inFlight, awaited, timer>>
  <2>1. passes' = [passes EXCEPT ![s].page = page,
                                 ![s].after = last, ![s].short = ends]
    BY DEF Sweep!ReadPage
  <2>2. passes \in [Slot -> PassState] BY DEF SweepInv, SweepTypes
  <2>3. pass.at # "none" /\ pass.page = <<>> /\ ~pass.short /\ rows' = rows /\ UNCHANGED <<inFlight, awaited, timer>>
    BY DEF Sweep!ReadPage
  <2> HIDE DEF page, keys, ends, last
  <2>4. passes' = [passes EXCEPT ![s] = q] BY <2>1, <2>2 DEF PassState
  <2>5. QED BY <2>3, <2>4
<1>2. SweepTypes /\ PassesAreKnown /\ Covered(pass, rows) BY DEF SweepInv
<1>3. pass \in PassState /\ pass.due \subseteq Sweep!Run /\ pass.after \in Nat BY <1>2, PassFields
<1>4. /\ all \in SUBSET Nat /\ IsFiniteSet(all) /\ keys \in SUBSET all /\ IsFiniteSet(keys)
      /\ Cardinality(keys) \in Nat
      /\ keys # {} => \E k \in keys : \A j \in keys : j <= k
      /\ \A k \in all \ keys : Cardinality(keys) >= PageSize /\ \A j \in keys : j < k
  BY PageIsLeast
<1>5. order \in [1 .. Cardinality(keys) -> keys] /\ \A k \in keys : \E i \in 1 .. Cardinality(keys) : order[i] = k
  BY <1>4, PageHoldsAll
<1>6. keys \subseteq Sweep!Run BY <1>4 DEF Sweep!Beyond
<1>7. \A k \in Sweep!Run : Sweep!Keyed(pass.at, k) \in Sweep!Run
  BY SweepAssumption DEF Sweep!Keyed, Sweep!Run
<1>8. /\ page \in [1 .. Cardinality(keys) -> PageEntry] /\ page \in Seq(PageEntry) /\ Len(page) = Cardinality(keys)
      /\ \A i \in 1 .. Cardinality(keys) : page[i].run = Sweep!Keyed(pass.at, order[i]) /\ page[i].due = (page[i].run \in pass.due)
  <2>1. DOMAIN order = 1 .. Cardinality(keys) BY <1>5
  <2>2. page = [i \in 1 .. Cardinality(keys) |-> [run |-> Sweep!Keyed(pass.at, order[i]), due |-> Sweep!Keyed(pass.at, order[i]) \in pass.due]]
    BY <2>1
  <2>3. \A i \in 1 .. Cardinality(keys) : Sweep!Keyed(pass.at, order[i]) \in Sweep!Run BY <1>5, <1>6, <1>7
  <2> HIDE DEF order, keys, pass
  <2>4. \A i \in 1 .. Cardinality(keys) :
           /\ [run |-> Sweep!Keyed(pass.at, order[i]), due |-> Sweep!Keyed(pass.at, order[i]) \in pass.due] \in PageEntry
           /\ page[i].run = Sweep!Keyed(pass.at, order[i]) /\ page[i].due = (page[i].run \in pass.due)
    BY <2>2, <2>3 DEF PageEntry
  <2>5. page \in [1 .. Cardinality(keys) -> PageEntry] BY <2>2, <2>4
  <2> HIDE DEF page
  <2>6. page \in Seq(PageEntry) /\ Len(page) = Cardinality(keys) BY <2>5, <1>4
  <2>7. QED BY <2>4, <2>5, <2>6
<1>9. ends \in BOOLEAN /\ (ends => Cardinality(keys) < PageSize)
  <2>1. Sweep!Cardinality(keys) = Cardinality(keys) BY DEF Sweep!Cardinality, Cardinality
  <2>2. QED BY <2>1 DEF Sweep!Short
<1>10. last \in Nat /\ \A k \in all \ keys : k > last
  <2>1. CASE keys = {}
    <3>1. last = pass.after /\ \A k \in all : k > pass.after BY <2>1 DEF Sweep!Beyond
    <3>2. QED BY <3>1, <1>3
  <2>2. CASE keys # {}
    <3>1. last = CHOOSE k \in keys : \A j \in keys : j <= k BY <2>2
    <3>2. last \in keys BY <3>1, <2>2, <1>4
    <3> HIDE DEF last, keys, all
    <3>3. last \in Nat BY <3>2, <1>4
    <3>4. QED BY <3>2, <3>3, <1>4
  <2>3. QED BY <2>1, <2>2
<1>11. ASSUME NEW r \in pass.due, rows[r] = Wanted(pass.at)
       PROVE  (Sweep!Key(pass.at, r) > last /\ ~ends) \/ OnPage(page, r)
  <2> DEFINE k == Sweep!Key(pass.at, r)
  <2>1. r \in Sweep!Run BY <1>3
  <2>2. pass.at \in {"runs", "leases"} BY <1>1, <1>3 DEF PassState
  <2>3. k \in Sweep!Run /\ Sweep!Keyed(pass.at, k) = r
    BY <2>1, <2>2, SweepAssumption DEF Sweep!Key, Sweep!Keyed, Sweep!Run
  <2>4. ~OnPage(<<>>, r) BY EmptySeq DEF OnPage
  <2>5. k > pass.after BY <1>1, <1>2, <1>11, <2>4 DEF Covered, Ahead
  <2>6. rows[r] \in Sweep!Sorts[pass.at] BY <1>11, <2>2 DEF Sweep!Sorts, Wanted
  <2>7. k \in all BY <2>3, <2>5, <2>6 DEF Sweep!Beyond
  <2> HIDE DEF k, all, keys, page, order, last, ends, pass
  <2>8. CASE k \in keys
    <3>1. PICK i \in 1 .. Cardinality(keys) : order[i] = k BY <2>8, <1>5
    <3>2. page[i].run = r /\ page[i].due BY <3>1, <2>3, <1>8, <1>11
    <3>3. QED BY <3>2, <1>8 DEF OnPage
  <2>9. CASE k \notin keys
    <3>1. k \in all \ keys BY <2>7, <2>9
    <3>2. k > last /\ Cardinality(keys) >= PageSize BY <3>1, <1>4, <1>10
    <3>3. ~ends BY <3>2, <1>4, <1>9, SweepAssumption
    <3>4. QED BY <3>2, <3>3 DEF k
  <2>10. QED BY <2>8, <2>9
<1>12. q \in PassState /\ q.at = pass.at /\ q.due = pass.due /\ q.whole = pass.whole /\ q.page = page
       /\ q.after = last /\ q.short = ends
  <2> HIDE DEF page, last, ends, pass
  <2>1. QED BY <1>3, <1>8, <1>9, <1>10 DEF PassState
<1> HIDE DEF q, page, last, ends, keys, all, order
<1>13. Covered(q, rows) BY <1>2, <1>11, <1>12 DEF Covered, Ahead
<1>14. /\ passes' \in [Slot -> PassState] /\ rows' \in [Sweep!Run -> RunRow]
       /\ passes'[s] = q /\ \A p \in Slot : p # s => passes'[p] = passes[p]
       /\ \A p \in Slot : Covered(passes'[p], rows')
  BY <1>1, <1>12, <1>13, PassBecomes
<1>15. \A p \in Slot : passes'[p].at = passes[p].at BY <1>12, <1>14
<1>16. SweepTypes' /\ PassesAreKnown'
  BY <1>1, <1>2, <1>14, <1>15 DEF SweepTypes, PassesAreKnown
<1>17. QED BY <1>14, <1>16 DEF SweepInv

LEMMA SweepStep ==
  ASSUME SweepInv, Sweep!Next \/ UNCHANGED Sweep!sweepVars
  PROVE  SweepInv'
<1>1. CASE Sweep!RowChanges BY <1>1, RowChangesKeeps
<1>2. CASE Sweep!Tick BY <1>2, TickKeeps
<1>3. CASE Sweep!Stop \/ Sweep!Drain \/ UNCHANGED Sweep!sweepVars BY <1>3, StopKeeps
<1>4. CASE \E s \in Slot : Sweep!PassStep(s)
  BY <1>4, ReadPageKeeps, KeepKeeps, ConsiderKeeps, SweepPruneKeeps, RunsDoneKeeps, SettleKeeps DEF Sweep!PassStep
<1>5. QED BY <1>1, <1>2, <1>3, <1>4 DEF Sweep!Next

LEMMA SweepIsKept ==
  ASSUME SweepInv PROVE Sweep!SweepIsWhole
BY SweepAssumption DEF SweepInv, PassesAreKnown, SweepTypes, Covered, Sweep!SweepIsWhole

--------------------------------------------------------------------------------
\* WorkIsWhole: a claim and a pass of the sweep are each done as a whole.
THEOREM WorkSafety == Spec => []WorkIsWhole
<1>1. Init => ClaimInv /\ SweepInv
  BY ClaimInit, SweepInit DEF Init
<1>2. [Next]_partVars => Claim!Next \/ UNCHANGED Claim!claimVars
  BY DEF Next, Only, partVars, claimVars, Claim!claimVars
<1>3. [Next]_partVars => Sweep!Next \/ UNCHANGED Sweep!sweepVars
  BY DEF Next, Only, partVars, sweepVars, Sweep!sweepVars
<1>4. ClaimInv /\ SweepInv /\ [Next]_partVars => ClaimInv' /\ SweepInv'
  BY <1>2, <1>3, ClaimStep, SweepStep
<1>5. ClaimInv /\ SweepInv => WorkIsWhole
  BY ClaimIsKept, SweepIsKept DEF WorkIsWhole
<1>6. QED BY <1>1, <1>4, <1>5, PTL DEF Spec

================================================================================
