------------------------- MODULE ArtifactSync_proofs -------------------------
(***************************************************************************)
(* Theorems about ArtifactSync: the rounds of a loop queue and keep its    *)
(* record true, a final sync answers honestly and every call gets nearer   *)
(* to its end, for any trees, bounds and number of calls.                  *)
(***************************************************************************)
EXTENDS ArtifactSync, TLAPS

--------------------------------------------------------------------------------
(***************************************************************************)
(* The invariant.                                                          *)
(***************************************************************************)

Negotiating == {"prepare", "upload", "commit"}

\* Busy calls are in one order, that of their beginnings; who is past the queue has
\* nobody before it.
QueueSound ==
  /\ \A c \in Call : Busy(c) => call[c].config # 0
  /\ \A c \in Call : call[c].at # "queued" => call[c].behind = {}
  /\ \A c, d \in Call : d \in call[c].behind => Busy(d) /\ c \notin call[d].behind
  /\ \A c, d \in Call :
       Busy(c) /\ Busy(d) /\ c # d => c \in call[d].behind \/ d \in call[c].behind
  /\ \A c, d, e \in Call :
       d \in call[c].behind /\ e \in call[d].behind => e \in call[c].behind

\* A round has what its stage works on.
WorkSound ==
  \A c \in Call :
    /\ call[c].at \in {"scan"} \cup Negotiating => baseline # None
    /\ call[c].at \in Negotiating => pending # None

\* The session that was published is the newest manifest, and no older commit can
\* land after it.
ReceiptSound ==
  pending # None /\ pending.receipt # None =>
    /\ pending.made
    /\ orphans = {}
    /\ server.revision = pending.receipt
    /\ server.manifest = pending.tree

Known == baseline # None /\ baseline.tree # None

\* While the manifest is known no commit is on the wire but that of the round under
\* way, and until that one lands what is known is the manifest.
KnownSound ==
  Known =>
    /\ orphans = {}
    /\ pending # None =>
         /\ ~pending.late
         /\ \E c \in Call : call[c].at \in Negotiating \cup {"report"}
         /\ pending.receipt # None => \E c \in Call : call[c].at = "commit"
    /\ pending = None \/ pending.receipt = None =>
         baseline.revision = server.revision /\ baseline.tree = server.manifest

\* Once the final sync has made its first proposal the session is its own.
OwnSound ==
  LET f == call["final"]
  IN /\ f.at = "queued" => f.fresh
     /\ f.at \in Negotiating => ~f.fresh
     /\ f.at # "idle" /\ ~f.fresh => pending # None /\ pending.own

\* The final sync and its call.
FinalSound ==
  /\ final.at \in {"idle", "done"} => ~Busy("final")
  /\ final.at \in {"syncing", "reporting"} => final.config # 0
  /\ final.at \in {"syncing", "reporting"} /\ ~Busy("final") => final.outcome \in Outcome
  /\ final.at = "syncing" /\ ~Busy("final") /\ final.outcome = "synced" => final.own
  /\ final.at = "reporting" => final.fired
  /\ FinalAnswerIsHonest

IInv ==
  /\ TypeOK
  /\ QueueSound
  /\ WorkSound
  /\ ReceiptSound
  /\ KnownSound
  /\ OwnSound
  /\ FinalSound

--------------------------------------------------------------------------------
(***************************************************************************)
(* The ways a step may go.                                                 *)
(***************************************************************************)

\* Call c ends with an outcome that leaves nothing known; its commit may be on the
\* wire.
Lost(c, outcome) ==
  /\ Busy(c)
  /\ End(c, outcome, baseline)
  /\ \/ UNCHANGED pending
     \/ call[c].at = "commit" /\ pending' = [pending EXCEPT !.late = TRUE]
  /\ UNCHANGED server_side

\* Call c is cancelled in the queue.
Leaves(c) ==
  /\ call[c].at = "queued"
  /\ Released(c, "cancelled")
  /\ UNCHANGED <<baseline, pending, server_side>>

\* Call c found the tree that the server has.
Passed(c) ==
  /\ call[c].at = "scan"
  /\ End(c, "unchanged", baseline)
  /\ UNCHANGED <<pending, server_side>>

\* Call c reads its receipt.
Received(c) ==
  /\ call[c].at = "commit"
  /\ pending.receipt # None
  /\ End(c, "synced",
         [config |-> call[c].config, revision |-> pending.receipt,
          tree |-> IF pending.receipt = baseline.revision + 1 THEN pending.tree ELSE None])
  /\ pending' = None
  /\ UNCHANGED server_side

\* Call c learns that its generation has passed.
Dropped(c) ==
  /\ call[c].at \in Round
  /\ EndConfigChanged(c)
  /\ UNCHANGED server

\* How far a call in state s is from its end.
Left(s) ==
  7 * ((MaxRescans - s.rescans) + (MaxRenegotiations - s.renegotiations)) + Stage(s.at)

\* Where a call stands in its row of steps.
LEMMA Stages ==
  /\ Stage("queued") = 6 /\ Stage("read") = 5 /\ Stage("scan") = 4
  /\ Stage("prepare") = 3 /\ Stage("upload") = 2 /\ Stage("commit") = 1
  /\ Stage("report") = 0
PROOF
  BY DEF Stage

\* Call c, whose turn it is, is in state n next, and nearer to its end.
Goes(c, n) ==
  /\ Busy(c)
  /\ call[c].behind = {}
  /\ n.at \in Round
  /\ n.behind = {}
  /\ n.config = call[c].config
  /\ Left(n) < Left(call[c])
  /\ call' = [call EXCEPT ![c] = n]
  /\ UNCHANGED <<final, server>>

\* It goes on with what it has.
GoesOn(c, n) ==
  /\ Goes(c, n)
  /\ n.fresh = call[c].fresh
  /\ n.at = "scan" => baseline # None
  /\ n.at \in Negotiating => call[c].at \in Negotiating
  /\ call[c].at \in Negotiating => n.at \in Negotiating \cup {"report"}
  /\ call[c].at \notin {"commit", "report"}
  /\ \/ UNCHANGED pending
     \/ pending # None /\ pending' = [pending EXCEPT !.made = TRUE]
  /\ UNCHANGED <<baseline, orphans>>

\* It has read the baseline.
Reads(c, n) ==
  /\ Goes(c, n)
  /\ call[c].at = "read"
  /\ n.fresh = call[c].fresh
  /\ n.at \in {"scan", "report"}
  /\ baseline' = [config |-> server.config, revision |-> server.revision, tree |-> None]
  /\ UNCHANGED <<pending, orphans>>

\* It begins anew.
Restarts(c, n) ==
  /\ Goes(c, n)
  /\ call[c].at \in Negotiating
  /\ n.fresh = call[c].fresh
  /\ n.at = "read"
  /\ baseline' = [baseline EXCEPT !.tree = None]
  /\ UNCHANGED <<pending, orphans>>

\* It proposes a tree, in a session that is new or was made for the same payload.
Proposes(c, n) ==
  /\ Goes(c, n)
  /\ call[c].at = "scan"
  /\ n.at = "prepare"
  /\ ~n.fresh
  /\ \/ /\ pending' = [config |-> call[c].config, base |-> baseline.revision, tree |-> tree,
                       made |-> FALSE, receipt |-> None, late |-> FALSE,
                       own |-> c = "final"]
        /\ Orphaned
     \/ /\ pending # None /\ ~call[c].fresh
        /\ UNCHANGED <<pending, orphans>>
  /\ UNCHANGED baseline

\* Its commit lands before it is answered.
Lands(c) ==
  /\ call[c].at = "commit"
  /\ pending.made
  /\ pending.receipt = None
  /\ Publishes(pending.tree)
  /\ pending' = [pending EXCEPT !.receipt = server.revision + 1]
  /\ UNCHANGED <<baseline, call, final>>

CallMove ==
  \E c \in Call :
    \/ \E outcome \in Outcome \ {"unchanged", "synced"} : Lost(c, outcome)
    \/ Leaves(c) \/ Passed(c) \/ Received(c) \/ Dropped(c) \/ Lands(c)
    \/ \E n \in CallState : GoesOn(c, n) \/ Reads(c, n) \/ Restarts(c, n) \/ Proposes(c, n)

\* What the server and the wire may do by themselves.
ServerMove ==
  /\ UNCHANGED <<baseline, call, final>>
  /\ \/ UNCHANGED <<server_side, pending>>
     \/ \E t \in orphans : Publishes(t) /\ UNCHANGED pending
     \/ /\ pending # None /\ pending.late /\ pending.made /\ pending.receipt = None
        /\ Publishes(pending.tree)
        /\ pending' = [pending EXCEPT !.late = FALSE, !.receipt = server.revision + 1]
     \/ /\ pending # None
        /\ \/ pending' = [pending EXCEPT !.late = FALSE]
           \/ pending' = [pending EXCEPT !.made = TRUE]
           \/ pending.receipt = None /\ pending' = [pending EXCEPT !.made = FALSE]
        /\ UNCHANGED server_side
     \/ /\ server.config < MaxConfig
        /\ server' = [server EXCEPT !.config = @ + 1]
        /\ orphans' = {}
        /\ UNCHANGED pending

\* Calls begin and are aborted, and the final sync takes its steps.
ClientMove ==
  /\ UNCHANGED <<server_side, baseline, pending>>
  /\ \/ \E c \in Call \ {"final"}, config \in 1..server.config :
          ~Busy(c) /\ call' = [call EXCEPT ![c] = Begun(c, config)] /\ UNCHANGED final
     \/ \E calls \in SUBSET Call :
          /\ Abort(calls)
          /\ \/ UNCHANGED final
             \/ /\ final.at \in {"syncing", "reporting"}
                /\ final' = [final EXCEPT !.fired = TRUE]
     \/ \E config \in 1..server.config : FinalStarts(config)
     \/ FinalSettles
     \/ FinalReported

Move ==
  /\ tree' \in Tree
  /\ shutdown => shutdown'
  /\ CallMove \/ ServerMove \/ ClientMove

\* The call that is past the queue is alone there, and nobody is before it.
LEMMA Alone ==
  ASSUME QueueSound, NEW c \in Call, call[c].at \in Round \/ (Busy(c) /\ call[c].behind = {})
  PROVE  /\ Busy(c) /\ call[c].behind = {}
         /\ \A d \in Call : d # c => call[d].at \notin Round
PROOF
  BY DEF QueueSound, Round, Busy

\* The next stage of a call, all else the same.
LEMMA GotoMoves ==
  ASSUME TypeOK, NEW c \in Call, Busy(c), call[c].behind = {},
         NEW at \in Round, Stage(at) < Stage(call[c].at), Goto(c, at), UNCHANGED server
  PROVE  \E n \in CallState : Goes(c, n) /\ n.at = at /\ n.fresh = call[c].fresh
PROOF
  <1>1. call[c] \in CallState
    BY DEF TypeOK
  <1>2. PICK n : n = [call[c] EXCEPT !.at = at]
    OBVIOUS
  <1>3. /\ n \in CallState /\ n.at = at /\ n.behind = {} /\ n.config = call[c].config
        /\ n.fresh = call[c].fresh
        /\ n.rescans = call[c].rescans /\ n.renegotiations = call[c].renegotiations
    BY <1>1, <1>2 DEF CallState
  <1>4. call' = [call EXCEPT ![c] = n] /\ UNCHANGED final
    BY <1>2 DEF Goto
  <1>5. Left(n) < Left(call[c])
    <2>1. Stage(at) \in Nat /\ Stage(call[c].at) \in Nat
      BY <1>1 DEF Stage, CallState, Round
    <2> QED
      BY <1>1, <1>3, <2>1, SyncAssumption DEF Left, CallState
  <1>6. Goes(c, n)
    BY <1>3, <1>4, <1>5 DEF Goes
  <1> QED
    BY <1>3, <1>6

\* An outcome that leaves nothing known.
LEMMA EndMoves ==
  ASSUME NEW c \in Call, Busy(c), UNCHANGED server_side,
         \/ GivesUp(c) \/ EndDenied(c)
         \/ \E outcome \in Outcome \ {"unchanged", "synced"} : EndOf(c, outcome)
  PROVE  \E outcome \in Outcome \ {"unchanged", "synced"} : Lost(c, outcome)
PROOF
  <1>1. CASE EndDenied(c)
    <2>1. Lost(c, "stopped")
      BY <1>1 DEF EndDenied, Lost
    <2> QED
      BY <2>1 DEF Outcome
  <1>2. ASSUME NEW outcome \in Outcome \ {"unchanged", "synced"}, EndOf(c, outcome)
        PROVE  Lost(c, outcome)
    BY <1>2 DEF EndOf, Lost
  <1>3. CASE GivesUp(c)
    <2>1. EndOf(c, "cancelled") \/ EndOf(c, "unavailable")
      BY <1>3 DEF GivesUp
    <2> QED
      BY <1>2, <2>1 DEF Outcome
  <1> QED
    BY <1>1, <1>2, <1>3

\* A round that begins anew has one scan or one negotiation less before it.
LEMMA RestartMoves ==
  ASSUME TypeOK, NEW c \in Call, call[c].at \in Negotiating, call[c].behind = {},
         \/ /\ Renegotiates(c)
            /\ Restart(c, [call[c] EXCEPT !.renegotiations =
                             IF @ < MaxRenegotiations THEN @ + 1 ELSE @])
         \/ /\ call[c].rescans < MaxRescans
            /\ Restart(c, [call[c] EXCEPT !.rescans = @ + 1]),
         UNCHANGED server_side
  PROVE  \E n \in CallState : Restarts(c, n)
PROOF
  <1>1. call[c] \in CallState /\ Stage(call[c].at) \in 1..3
    BY Stages DEF TypeOK, Negotiating
  <1>2. PICK m : /\ \/ /\ call[c].renegotiations < MaxRenegotiations
                       /\ m = [call[c] EXCEPT !.renegotiations = @ + 1]
                    \/ /\ call[c].rescans < MaxRescans
                       /\ m = [call[c] EXCEPT !.rescans = @ + 1]
                 /\ Restart(c, m)
    BY DEF Renegotiates
  <1>3. PICK n : n = [m EXCEPT !.at = "read"]
    OBVIOUS
  <1>4. call[c].rescans \in Nat /\ call[c].renegotiations \in Nat
    BY <1>1, SyncAssumption DEF CallState
  <1>5. /\ n.at = "read" /\ n.behind = {} /\ n.config = call[c].config
        /\ n.fresh = call[c].fresh
        /\ \/ /\ call[c].renegotiations < MaxRenegotiations
              /\ n.renegotiations = call[c].renegotiations + 1
              /\ n.rescans = call[c].rescans
           \/ /\ call[c].rescans < MaxRescans
              /\ n.rescans = call[c].rescans + 1
              /\ n.renegotiations = call[c].renegotiations
    BY <1>1, <1>2, <1>3 DEF CallState
  <1>6. n \in CallState
    <2>1. n.rescans \in 0..MaxRescans /\ n.renegotiations \in 0..MaxRenegotiations
      BY <1>1, <1>4, <1>5, SyncAssumption DEF CallState
    <2>2. \/ n = [call[c] EXCEPT !.renegotiations = n.renegotiations, !.at = "read"]
          \/ n = [call[c] EXCEPT !.rescans = n.rescans, !.at = "read"]
      BY <1>1, <1>2, <1>3 DEF CallState
    <2> QED
      BY <1>1, <2>1, <2>2 DEF CallState, Round
  <1>7. Left(n) < Left(call[c])
    BY <1>1, <1>4, <1>5, Stages, SyncAssumption DEF Left
  <1>8. call' = [call EXCEPT ![c] = n] /\ baseline' = [baseline EXCEPT !.tree = None]
        /\ UNCHANGED <<pending, final, server, orphans>>
    BY <1>2, <1>3 DEF Restart, server_side
  <1>9. Busy(c) /\ "read" \in Round
    BY DEF Busy, Negotiating, Round
  <1>10. Goes(c, n)
    BY <1>5, <1>7, <1>8, <1>9 DEF Goes
  <1>11. Restarts(c, n)
    BY <1>5, <1>8, <1>10 DEF Restarts
  <1> QED
    BY <1>6, <1>11

\* A negotiation that is over, or one more.
LEMMA RenegotiateMoves ==
  ASSUME TypeOK, NEW c \in Call, call[c].at \in Negotiating, call[c].behind = {},
         Renegotiate(c), UNCHANGED server_side
  PROVE  CallMove
PROOF
  <1>1. CASE Renegotiates(c)
    BY <1>1, RestartMoves DEF Renegotiate, CallMove
  <1>2. CASE ~Renegotiates(c)
    <2>1. EndOf(c, "terminal") /\ Busy(c)
      BY <1>2 DEF Renegotiate, Busy, Negotiating
    <2> QED
      BY <2>1, EndMoves DEF CallMove, Outcome
  <1> QED
    BY <1>1, <1>2

\* The turn of a queued call, and a queued call that is cancelled.
LEMMA QueueMoves ==
  ASSUME IInv, NEW c \in Call, Turn(c) \/ LeaveQueue(c)
  PROVE  CallMove
PROOF
  <1>t. TypeOK
    BY DEF IInv
  <1>1. CASE Turn(c)
    <2>1. call[c].at = "queued" /\ call[c].behind = {}
      BY <1>1 DEF Turn
    <2>2. PICK at \in {"scan", "read"} : Goto(c, at) /\ (at = "scan" => baseline # None)
      BY <1>1 DEF Turn
    <2>3. UNCHANGED <<server, orphans, baseline, pending>>
      BY <1>1 DEF Turn, server_side, client
    <2>4. PICK n \in CallState : Goes(c, n) /\ n.at = at /\ n.fresh = call[c].fresh
      BY <1>t, <2>1, <2>2, <2>3, GotoMoves, Stages DEF Busy, Round
    <2>5. GoesOn(c, n)
      BY <2>1, <2>2, <2>3, <2>4 DEF GoesOn, Negotiating
    <2> QED
      BY <2>5 DEF CallMove
  <1>2. CASE LeaveQueue(c)
    BY <1>2 DEF LeaveQueue, Leaves, CallMove, client
  <1> QED
    BY <1>1, <1>2

\* The baseline is read, or the call ends.
LEMMA ReadMoves ==
  ASSUME IInv, NEW c \in Call, Read(c)
  PROVE  CallMove
PROOF
  <1>t. TypeOK /\ QueueSound
    BY DEF IInv
  <1>a. call[c].at = "read" /\ Busy(c) /\ call[c].behind = {} /\ UNCHANGED server
    BY <1>t, Alone DEF Read, Round
  <1>1. CASE /\ UNCHANGED orphans
             /\ \/ GivesUp(c) \/ EndDenied(c)
                \/ \E outcome \in Outcome \ {"unchanged", "synced"} : EndOf(c, outcome)
    BY <1>1, <1>a, EndMoves DEF CallMove, server_side
  <1>2. CASE EndConfigChanged(c)
    BY <1>2, <1>a DEF CallMove, Dropped, Round
  <1>3. ASSUME NEW at \in {"scan", "report"}, Goto(c, at),
               baseline' = [config |-> server.config, revision |-> server.revision,
                            tree |-> None],
               UNCHANGED <<orphans, pending>>
        PROVE  CallMove
    <2>1. PICK n \in CallState : Goes(c, n) /\ n.at = at /\ n.fresh = call[c].fresh
      BY <1>t, <1>a, <1>3, GotoMoves, Stages DEF Round
    <2>2. Reads(c, n)
      BY <1>a, <1>3, <2>1 DEF Reads
    <2> QED
      BY <2>2 DEF CallMove
  <1> QED
    BY <1>1, <1>2, <1>3 DEF Read, Outcome

\* The tree is scanned: a failure, nothing new, or a proposal.
LEMMA ScanMoves ==
  ASSUME IInv, NEW c \in Call, Scan(c)
  PROVE  CallMove
PROOF
  <1>t. TypeOK /\ QueueSound
    BY DEF IInv
  <1>a. call[c].at = "scan" /\ Busy(c) /\ call[c].behind = {} /\ UNCHANGED server
    BY <1>t, Alone DEF Scan, Round
  <1>1. CASE EndOf(c, "cancelled") /\ UNCHANGED orphans
    BY <1>1, <1>a, EndMoves DEF CallMove, Outcome, server_side
  <1>2. CASE Goto(c, "report") /\ UNCHANGED <<orphans, baseline, pending, stop>>
    <2>1. PICK n \in CallState : Goes(c, n) /\ n.at = "report" /\ n.fresh = call[c].fresh
      BY <1>t, <1>a, <1>2, GotoMoves, Stages DEF Round
    <2>2. GoesOn(c, n)
      BY <1>a, <1>2, <2>1 DEF GoesOn, Negotiating
    <2> QED
      BY <2>2 DEF CallMove
  <1>3. CASE EndOf(c, "unchanged") /\ UNCHANGED orphans
    BY <1>3, <1>a DEF EndOf, CallMove, Passed, server_side
  <1>4. CASE /\ LET p == [config |-> call[c].config, base |-> baseline.revision, tree |-> tree]
                IN IF Mints(c, p)
                   THEN /\ pending' = [config |-> p.config, base |-> p.base, tree |-> tree,
                                       made |-> FALSE, receipt |-> None, late |-> FALSE,
                                       own |-> c = "final"]
                        /\ Orphaned
                   ELSE UNCHANGED <<pending, orphans>>
             /\ call' = [call EXCEPT ![c].at = "prepare", ![c].fresh = FALSE]
             /\ UNCHANGED <<baseline, stop, final>>
    <2>1. PICK n : n = [call[c] EXCEPT !.at = "prepare", !.fresh = FALSE]
      OBVIOUS
    <2>2. call[c] \in CallState
      BY <1>t DEF TypeOK
    <2>3. /\ n \in CallState /\ n.at = "prepare" /\ n.behind = {} /\ n.config = call[c].config
          /\ n.fresh = FALSE
          /\ n.rescans = call[c].rescans /\ n.renegotiations = call[c].renegotiations
      BY <1>a, <2>1, <2>2 DEF CallState, Round
    <2>4. Left(n) < Left(call[c])
      BY <1>a, <2>2, <2>3, Stages, SyncAssumption DEF Left, CallState
    <2>5. call' = [call EXCEPT ![c] = n]
      BY <1>4, <2>1
    <2>6. Goes(c, n)
      BY <1>4, <1>a, <2>3, <2>4, <2>5 DEF Goes, Round
    <2>7. Proposes(c, n)
      BY <1>4, <1>a, <2>3, <2>6 DEF Proposes, Mints
    <2> QED
      BY <2>3, <2>7 DEF CallMove
  <1> QED
    BY <1>1, <1>2, <1>3, <1>4 DEF Scan

\* A proposal is answered, or made without an answer.
LEMMA PrepareMoves ==
  ASSUME IInv, NEW c \in Call, Prepare(c)
  PROVE  CallMove \/ ServerMove
PROOF
  <1>t. TypeOK /\ QueueSound /\ pending # None
    BY DEF IInv, WorkSound, Prepare, Negotiating
  <1>a. /\ call[c].at = "prepare" /\ Busy(c) /\ call[c].behind = {} /\ UNCHANGED server
        /\ call[c].at \in Negotiating
    BY <1>t, Alone DEF Prepare, Round, Negotiating
  <1> DEFINE made == [pending EXCEPT !.made = @ \/ PrepareAnswer(pending) = "open"]
  <1>m. made = pending \/ made = [pending EXCEPT !.made = TRUE]
    <2>1. pending \in Session
      BY <1>t DEF TypeOK
    <2> QED
      BY <2>1 DEF Session
  <1>1. CASE /\ UNCHANGED orphans
             /\ \/ GivesUp(c) \/ EndDenied(c) \/ EndOf(c, "terminal")
    BY <1>1, <1>a, EndMoves DEF CallMove, server_side, Outcome
  <1>2. CASE pending' = made /\ UNCHANGED <<orphans, baseline, stop, call, final>>
    BY <1>2, <1>m, <1>t, <1>a DEF ServerMove, server_side
  <1>3. CASE EndConfigChanged(c)
    BY <1>3, <1>a DEF CallMove, Dropped, Round
  <1>4. CASE Renegotiate(c) /\ UNCHANGED orphans
    BY <1>4, <1>a, <1>t, RenegotiateMoves DEF server_side
  <1>5. CASE /\ pending' = made
             /\ Goto(c, "upload")
             /\ UNCHANGED <<orphans, baseline, stop>>
    <2>1. PICK n \in CallState : Goes(c, n) /\ n.at = "upload" /\ n.fresh = call[c].fresh
      BY <1>t, <1>a, <1>5, GotoMoves, Stages DEF Round
    <2>2. GoesOn(c, n)
      BY <1>a, <1>t, <1>m, <1>5, <2>1 DEF GoesOn, Negotiating
    <2> QED
      BY <2>2 DEF CallMove
  <1>6. CASE Goto(c, "commit") /\ UNCHANGED <<orphans, baseline, pending, stop>>
    <2>1. PICK n \in CallState : Goes(c, n) /\ n.at = "commit" /\ n.fresh = call[c].fresh
      BY <1>t, <1>a, <1>6, GotoMoves, Stages DEF Round
    <2>2. GoesOn(c, n)
      BY <1>a, <1>t, <1>6, <2>1 DEF GoesOn, Negotiating
    <2> QED
      BY <2>2 DEF CallMove
  <1> QED
    BY <1>1, <1>2, <1>3, <1>4, <1>5, <1>6 DEF Prepare

\* The uploads have ended.
LEMMA UploadMoves ==
  ASSUME IInv, NEW c \in Call, Upload(c)
  PROVE  CallMove
PROOF
  <1>t. TypeOK /\ QueueSound
    BY DEF IInv
  <1>a. /\ call[c].at = "upload" /\ Busy(c) /\ call[c].behind = {} /\ UNCHANGED server
        /\ call[c].at \in Negotiating
    BY <1>t, Alone DEF Upload, Round, Negotiating
  <1>p. PICK judged : Uploaded(c, judged)
    BY DEF Upload
  <1>1. CASE /\ UNCHANGED orphans
             /\ EndDenied(c) \/ EndOf(c, "terminal") \/ EndOf(c, "cancelled")
                \/ EndOf(c, "unavailable")
    BY <1>1, <1>a, EndMoves DEF CallMove, server_side, Outcome
  <1>2. CASE EndConfigChanged(c)
    BY <1>2, <1>a DEF CallMove, Dropped, Round
  <1>3. CASE Renegotiate(c) /\ UNCHANGED orphans
    BY <1>3, <1>a, <1>t, RenegotiateMoves DEF server_side
  <1>4. CASE /\ call[c].rescans < MaxRescans
             /\ Restart(c, [call[c] EXCEPT !.rescans = @ + 1])
             /\ UNCHANGED orphans
    BY <1>4, <1>a, <1>t, RestartMoves DEF CallMove, server_side
  <1>5. ASSUME NEW at \in {"report", "commit"}, Goto(c, at),
               UNCHANGED <<baseline, pending, orphans>>
        PROVE  CallMove
    <2>1. PICK n \in CallState : Goes(c, n) /\ n.at = at /\ n.fresh = call[c].fresh
      BY <1>t, <1>a, <1>5, GotoMoves, Stages DEF Round
    <2>2. GoesOn(c, n)
      BY <1>a, <1>5, <2>1 DEF GoesOn, Negotiating
    <2> QED
      BY <2>2 DEF CallMove
  <1> QED
    BY <1>p, <1>1, <1>2, <1>3, <1>4, <1>5 DEF Uploaded

\* A commit is given up, lands, or is answered.
LEMMA CommitMoves ==
  ASSUME IInv, NEW c \in Call, Commit(c)
  PROVE  CallMove
PROOF
  <1>t. TypeOK /\ QueueSound /\ pending # None
    BY DEF IInv, WorkSound, Commit, Negotiating
  <1>a. /\ call[c].at = "commit" /\ Busy(c) /\ call[c].behind = {}
        /\ call[c].at \in Negotiating
    BY <1>t, Alone DEF Commit, Round, Negotiating
  <1>1. CASE /\ End(c, IF call[c].aborted THEN "cancelled" ELSE "unavailable", baseline)
             /\ pending' = [pending EXCEPT !.late = TRUE]
             /\ UNCHANGED <<server_side, stop>>
    <2>1. PICK outcome \in {"cancelled", "unavailable"} : End(c, outcome, baseline)
      BY <1>1
    <2>2. Lost(c, outcome)
      BY <1>1, <1>a, <2>1 DEF Lost
    <2> QED
      BY <2>2 DEF CallMove, Outcome
  <1>2. CASE /\ UNCHANGED server_side
             /\ GivesUp(c) \/ EndDenied(c) \/ EndOf(c, "terminal")
    BY <1>2, <1>a, EndMoves DEF CallMove, Outcome
  <1>3. CASE /\ Answer(pending) = "open"
             /\ Publishes(pending.tree)
             /\ pending' = [pending EXCEPT !.receipt = server.revision + 1]
             /\ UNCHANGED <<baseline, stop, call, final>>
    <2>1. pending.made /\ pending.receipt = None
      BY <1>3 DEF Answer, PrepareAnswer
    <2>2. Lands(c)
      BY <1>3, <1>a, <2>1 DEF Lands
    <2> QED
      BY <2>2 DEF CallMove
  <1>4. CASE EndConfigChanged(c) /\ UNCHANGED server
    BY <1>4, <1>a DEF CallMove, Dropped, Round
  <1>5. CASE Renegotiate(c) /\ UNCHANGED <<orphans, server>>
    BY <1>5, <1>a, <1>t, RenegotiateMoves DEF server_side
  <1>6. CASE /\ Answer(pending) = "receipt"
             /\ End(c, "synced",
                    [config |-> call[c].config, revision |-> pending.receipt,
                     tree |-> IF pending.receipt = baseline.revision + 1
                              THEN pending.tree ELSE None])
             /\ pending' = None
             /\ UNCHANGED <<server_side, stop>>
    <2>1. pending.receipt # None
      BY <1>6 DEF Answer, PrepareAnswer
    <2>2. Received(c)
      BY <1>6, <1>a, <2>1 DEF Received
    <2> QED
      BY <2>2 DEF CallMove
  <1> QED
    BY <1>1, <1>2, <1>3, <1>4, <1>5, <1>6 DEF Commit, server_side

\* A report ends its call.
LEMMA ReportMoves ==
  ASSUME NEW c \in Call, Report(c)
  PROVE  CallMove
PROOF
  <1>1. Lost(c, "failed")
    BY DEF Report, Lost, Busy
  <1> QED
    BY <1>1 DEF CallMove, Outcome

\* What the server and the wire do by themselves.
LEMMA WireMoves ==
  ASSUME TypeOK, LateCommit \/ ConfigChanges \/ ServerForgets \/ FilesChange \/ ClearStops
  PROVE  ServerMove
PROOF
  <1>1. CASE LateCommit
    <2>1. Answer(pending) = "open" => pending.made /\ pending.receipt = None
      BY DEF Answer, PrepareAnswer
    <2> QED
      BY <1>1, <2>1 DEF LateCommit, ServerMove, server_side
  <1>2. CASE ConfigChanges
    BY <1>2 DEF ConfigChanges, ServerMove, client
  <1>3. CASE ServerForgets
    BY <1>3 DEF ServerForgets, ServerMove
  <1>4. CASE FilesChange
    BY <1>4 DEF FilesChange, ServerMove, client
  <1>5. CASE ClearStops
    BY <1>5 DEF ClearStops, ServerMove
  <1> QED
    BY <1>1, <1>2, <1>3, <1>4, <1>5

\* What the owner of the calls does.
LEMMA OwnerMoves ==
  ASSUME \/ \E c \in Call : Cancel(c)
         \/ \E c \in Call, config \in 1..server.config : Begin(c, config)
         \/ \E config \in 1..server.config : FinalStarts(config)
         \/ Deadline \/ FinalSettles \/ FinalReported \/ Shutdown
  PROVE  ClientMove
PROOF
  <1>1. ASSUME NEW c \in Call, Cancel(c)
        PROVE  ClientMove
    BY <1>1 DEF Cancel, ClientMove, client
  <1>2. ASSUME NEW c \in Call, NEW config \in 1..server.config, Begin(c, config)
        PROVE  ClientMove
    BY <1>2 DEF Begin, ClientMove, client
  <1>3. ASSUME NEW config \in 1..server.config, FinalStarts(config)
        PROVE  ClientMove
    BY <1>3 DEF FinalStarts, ClientMove, client
  <1>4. CASE Deadline
    <2>1. {"final"} \in SUBSET Call
      BY DEF Call
    <2> QED
      BY <1>4, <2>1 DEF Deadline, ClientMove, client
  <1>5. CASE FinalSettles
    BY <1>5 DEF FinalSettles, ClientMove, client
  <1>6. CASE FinalReported
    BY <1>6 DEF FinalReported, ClientMove, client
  <1>7. CASE Shutdown
    <2>1. Call \in SUBSET Call
      OBVIOUS
    <2> QED
      BY <1>7, <2>1 DEF Shutdown, ClientMove, client
  <1> QED
    BY <1>1, <1>2, <1>3, <1>4, <1>5, <1>6, <1>7

\* Every step is one of these moves; the tree stays a tree, and a daemon that stops
\* stays stopping.
LEMMA NextMoves ==
  ASSUME IInv, [Next]_vars
  PROVE  Move
PROOF
  <1>t. TypeOK /\ tree \in Tree
    BY DEF IInv, TypeOK
  <1>1. ASSUME NEW c \in Call, CallStep(c)
        PROVE  Move
    <2>1. UNCHANGED <<tree, shutdown>>
      BY <1>1 DEF CallStep, Turn, LeaveQueue, Read, Scan, Prepare, Upload, Commit, Report
    <2>2. CallMove \/ ServerMove
      BY <1>1, QueueMoves, ReadMoves, ScanMoves, PrepareMoves, UploadMoves, CommitMoves,
         ReportMoves DEF CallStep
    <2> QED
      BY <1>t, <2>1, <2>2 DEF Move
  <1>2. CASE LateCommit \/ ConfigChanges \/ ServerForgets \/ FilesChange \/ ClearStops
    <2>1. tree' \in Tree /\ UNCHANGED shutdown
      BY <1>2, <1>t DEF LateCommit, ConfigChanges, ServerForgets, FilesChange, ClearStops
    <2> QED
      BY <1>2, <1>t, <2>1, WireMoves DEF Move
  <1>3. CASE \/ \E c \in Call : Cancel(c)
             \/ \E c \in Call, config \in 1..server.config : Begin(c, config)
             \/ \E config \in 1..server.config : FinalStarts(config)
             \/ Deadline \/ FinalSettles \/ FinalReported \/ Shutdown
    <2>1. UNCHANGED tree /\ (shutdown => shutdown')
      <3>1. ASSUME NEW c \in Call, Cancel(c) PROVE UNCHANGED <<tree, shutdown>>
        BY <3>1 DEF Cancel
      <3>2. ASSUME NEW c \in Call, NEW config \in 1..server.config, Begin(c, config)
            PROVE  UNCHANGED <<tree, shutdown>>
        BY <3>2 DEF Begin
      <3>3. ASSUME NEW config \in 1..server.config, FinalStarts(config)
            PROVE  UNCHANGED <<tree, shutdown>>
        BY <3>3 DEF FinalStarts
      <3>4. CASE Deadline
        BY <3>4 DEF Deadline
      <3>5. CASE FinalSettles
        BY <3>5 DEF FinalSettles
      <3>6. CASE FinalReported
        BY <3>6 DEF FinalReported
      <3>7. CASE Shutdown
        BY <3>7 DEF Shutdown
      <3> QED
        BY <1>3, <3>1, <3>2, <3>3, <3>4, <3>5, <3>6, <3>7
    <2> QED
      BY <1>3, <1>t, <2>1, OwnerMoves DEF Move
  <1>4. CASE UNCHANGED vars
    BY <1>4, <1>t DEF Move, ServerMove, vars, client
  <1> QED
    BY <1>1, <1>2, <1>3, <1>4 DEF Next

--------------------------------------------------------------------------------
(***************************************************************************)
(* What becomes of the calls.                                              *)
(***************************************************************************)

\* A call that ends leaves the queue; the others are what they were.
LEMMA EndedCalls ==
  ASSUME TypeOK, NEW c \in Call, NEW outcome, Released(c, outcome)
  PROVE  /\ call' \in [Call -> CallState]
         /\ call'[c] = Idle
         /\ \A d \in Call \ {c} :
              /\ call'[d].at = call[d].at /\ call'[d].config = call[d].config
              /\ call'[d].fresh = call[d].fresh
              /\ call'[d].behind = call[d].behind \ {c}
PROOF
  <1>1. Idle \in CallState
    BY SyncAssumption DEF Idle, CallState
  <1>2. ASSUME NEW d \in Call \ {c}
        PROVE  /\ call'[d] \in CallState
               /\ call'[d].at = call[d].at /\ call'[d].config = call[d].config
               /\ call'[d].fresh = call[d].fresh
               /\ call'[d].behind = call[d].behind \ {c}
    <2>1. call[d] \in CallState /\ call'[d] = [call[d] EXCEPT !.behind = @ \ {c}]
      BY DEF TypeOK, Released, Forgotten
    <2>2. call[d].behind \ {c} \in SUBSET Call
      BY <2>1 DEF CallState
    <2> QED
      BY <2>1, <2>2 DEF CallState
  <1>3. call'[c] = Idle
    BY DEF Released
  <1> QED
    BY <1>1, <1>2, <1>3 DEF Released

\* A call that goes on, and no other, changes.
LEMMA GoneCalls ==
  ASSUME TypeOK, NEW c \in Call, NEW n \in CallState, Goes(c, n)
  PROVE  /\ call' \in [Call -> CallState]
         /\ call'[c] = n
         /\ \A d \in Call \ {c} : call'[d] = call[d]
PROOF
  BY DEF Goes, TypeOK

\* A call that begins is behind the busy ones; a stopped client begins none.
LEMMA BegunCalls ==
  ASSUME TypeOK, NEW c \in Call, NEW config \in 1..MaxConfig,
         call' = [call EXCEPT ![c] = Begun(c, config)]
  PROVE  /\ call' \in [Call -> CallState]
         /\ \A d \in Call \ {c} : call'[d] = call[d]
         /\ IF stop THEN call'[c] = Idle
            ELSE /\ call'[c].at = "queued" /\ call'[c].config = config
                 /\ call'[c].fresh = (c = "final")
                 /\ call'[c].behind = {d \in Call \ {c} : Busy(d)}
PROOF
  <1>1. Idle \in CallState
    BY SyncAssumption DEF Idle, CallState
  <1>2. config \in 0..MaxConfig /\ {d \in Call \ {c} : Busy(d)} \in SUBSET Call
        /\ (c = "final") \in BOOLEAN
    BY SyncAssumption DEF TypeOK
  <1>3. Begun(c, config) \in CallState
    BY <1>1, <1>2, SyncAssumption DEF Begun, Idle, CallState
  <1> QED
    BY <1>3 DEF TypeOK, Begun, Idle

\* An abort only marks calls.
LEMMA AbortedCalls ==
  ASSUME TypeOK, NEW calls \in SUBSET Call, Abort(calls)
  PROVE  /\ call' \in [Call -> CallState]
         /\ \A d \in Call :
              /\ call'[d].at = call[d].at /\ call'[d].config = call[d].config
              /\ call'[d].fresh = call[d].fresh /\ call'[d].behind = call[d].behind
PROOF
  <1>1. ASSUME NEW d \in Call
        PROVE  /\ call'[d] \in CallState
               /\ call'[d].at = call[d].at /\ call'[d].config = call[d].config
               /\ call'[d].fresh = call[d].fresh /\ call'[d].behind = call[d].behind
    <2>1. call[d] \in CallState
          /\ call'[d] = [call[d] EXCEPT !.aborted = @ \/ (d \in calls /\ Busy(d))]
      BY DEF TypeOK, Abort
    <2>2. (call[d].aborted \/ (d \in calls /\ Busy(d))) \in BOOLEAN
      OBVIOUS
    <2> QED
      BY <2>1, <2>2 DEF CallState
  <1> QED
    BY <1>1 DEF Abort

\* The ways the calls may go in a step.
CallsEndOne(c) == Busy(c) /\ \E outcome \in Outcome : Released(c, outcome)

CallsBeginOne(c) ==
  /\ ~Busy(c)
  /\ \E config \in 1..MaxConfig : call' = [call EXCEPT ![c] = Begun(c, config)]

CallsChange ==
  \/ UNCHANGED call
  \/ \E c \in Call : CallsEndOne(c) \/ CallsBeginOne(c) \/ \E n \in CallState : Goes(c, n)
  \/ \E calls \in SUBSET Call : Abort(calls)

\* What is recorded when a receipt is read.
LEMMA ReceivedRecord ==
  ASSUME IInv, NEW c \in Call, Received(c)
  PROVE  [config |-> call[c].config, revision |-> pending.receipt,
          tree |-> IF pending.receipt = baseline.revision + 1 THEN pending.tree ELSE None]
           \in Record
PROOF
  <1>1. call[c].config \in 1..MaxConfig
    <2>1. call[c].config \in 0..MaxConfig
      BY DEF IInv, TypeOK, CallState
    <2>2. call[c].config # 0
      BY DEF IInv, QueueSound, Busy, Received
    <2> QED
      BY <2>1, <2>2, SyncAssumption
  <1>2. pending \in Session /\ pending.receipt # None
    BY DEF IInv, TypeOK, WorkSound, Received, Negotiating
  <1> QED
    BY <1>1, <1>2 DEF Session, Record

\* A final sync that goes on has a generation.
LEMMA FinalConfig ==
  ASSUME IInv, final.at \in {"syncing", "reporting"}
  PROVE  final.config \in 1..MaxConfig
PROOF
  <1>1. final.config \in 0..MaxConfig /\ final.config # 0
    BY DEF IInv, TypeOK, FinalSound, FinalState
  <1> QED
    BY <1>1, SyncAssumption

\* The calls of every move.
LEMMA MovedCalls ==
  ASSUME IInv, Move
  PROVE  CallsChange
PROOF
  <1>t. TypeOK /\ QueueSound
    BY DEF IInv
  <1>1. ASSUME NEW c \in Call, NEW outcome \in Outcome \ {"unchanged", "synced"},
               Lost(c, outcome)
        PROVE  CallsEndOne(c)
    BY <1>1 DEF Lost, End, CallsEndOne
  <1>2. ASSUME NEW c \in Call, Passed(c)
        PROVE  CallsEndOne(c)
    BY <1>2 DEF Passed, End, CallsEndOne, Outcome, Busy
  <1>3. ASSUME NEW c \in Call, Received(c)
        PROVE  CallsEndOne(c)
    BY <1>3 DEF Received, End, CallsEndOne, Outcome, Busy
  <1>4. ASSUME NEW c \in Call, Dropped(c)
        PROVE  CallsEndOne(c)
    BY <1>4 DEF Dropped, EndConfigChanged, End, CallsEndOne, Outcome, Busy, Round
  <1>8. ASSUME NEW c \in Call, Leaves(c)
        PROVE  CallsEndOne(c)
    BY <1>8 DEF Leaves, CallsEndOne, Outcome, Busy
  <1>5. CASE CallMove
    <2>1. ASSUME NEW c \in Call, NEW n \in CallState,
                 GoesOn(c, n) \/ Reads(c, n) \/ Restarts(c, n) \/ Proposes(c, n)
          PROVE  Goes(c, n)
      BY <2>1 DEF GoesOn, Reads, Restarts, Proposes
    <2>2. ASSUME NEW c \in Call, Lands(c)
          PROVE  UNCHANGED call
      BY <2>2 DEF Lands
    <2> QED
      BY <1>1, <1>2, <1>3, <1>4, <1>5, <1>8, <2>1, <2>2 DEF CallMove, CallsChange
  <1>6. CASE ServerMove
    BY <1>6 DEF ServerMove, CallsChange
  <1>7. CASE ClientMove
    <2>0. 1..server.config \subseteq 1..MaxConfig
      BY <1>t, SyncAssumption DEF TypeOK
    <2>1. ASSUME NEW c \in Call \ {"final"}, NEW config \in 1..server.config, ~Busy(c),
                 call' = [call EXCEPT ![c] = Begun(c, config)]
          PROVE  CallsChange
      BY <2>0, <2>1 DEF CallsChange, CallsBeginOne
    <2>2. ASSUME NEW calls \in SUBSET Call, Abort(calls)
          PROVE  CallsChange
      BY <2>2 DEF CallsChange
    <2>3. ASSUME NEW config \in 1..MaxConfig, NEW at, ~Busy("final"), FinalCalls(at, config)
          PROVE  CallsChange
      BY <2>3 DEF CallsChange, CallsBeginOne, FinalCalls, Call
    <2>4. ASSUME NEW config \in 1..server.config, FinalStarts(config)
          PROVE  CallsChange
      <3>1. ~Busy("final")
        BY <2>4 DEF FinalStarts, IInv, FinalSound
      <3> QED
        BY <2>0, <2>3, <2>4, <3>1 DEF FinalStarts
    <2>5. CASE FinalSettles
      <3>1. CASE UNCHANGED call
        BY <3>1 DEF CallsChange
      <3>2. CASE FinalCalls("reporting", final.config)
        <4>1. final.config \in 1..MaxConfig /\ ~Busy("final")
          BY <2>5, FinalConfig DEF FinalSettles
        <4> QED
          BY <2>3, <3>2, <4>1
      <3> QED
        BY <2>5, <3>1, <3>2 DEF FinalSettles, Done
    <2>6. CASE FinalReported
      BY <2>6 DEF FinalReported, Done, CallsChange
    <2> QED
      BY <1>7, <2>1, <2>2, <2>4, <2>5, <2>6 DEF ClientMove
  <1> QED
    BY <1>5, <1>6, <1>7 DEF Move

\* They stay calls.
LEMMA CallsTyped ==
  ASSUME TypeOK, CallsChange
  PROVE  call' \in [Call -> CallState]
PROOF
  <1>1. CASE UNCHANGED call
    BY <1>1 DEF TypeOK
  <1>2. ASSUME NEW c \in Call, CallsEndOne(c)
        PROVE  call' \in [Call -> CallState]
    BY <1>2, EndedCalls DEF CallsEndOne
  <1>3. ASSUME NEW c \in Call, CallsBeginOne(c)
        PROVE  call' \in [Call -> CallState]
    BY <1>3, BegunCalls DEF CallsBeginOne
  <1>4. ASSUME NEW c \in Call, NEW n \in CallState, Goes(c, n)
        PROVE  call' \in [Call -> CallState]
    BY <1>4, GoneCalls
  <1>5. ASSUME NEW calls \in SUBSET Call, Abort(calls)
        PROVE  call' \in [Call -> CallState]
    BY <1>5, AbortedCalls
  <1> QED
    BY <1>1, <1>2, <1>3, <1>4, <1>5 DEF CallsChange

\* The queue: a call that begins comes after those that are busy, whoever ends leaves
\* its place, and only a call with nobody before it gets past the queue.
LEMMA QueueKept ==
  ASSUME TypeOK, QueueSound, CallsChange
  PROVE  QueueSound'
PROOF
  <1>1. CASE UNCHANGED call
    BY <1>1 DEF QueueSound, Busy
  <1>2. ASSUME NEW c \in Call, CallsEndOne(c)
        PROVE  QueueSound'
    <2>1. /\ call'[c].at = "idle" /\ call'[c].behind = {}
          /\ \A d \in Call \ {c} :
               /\ call'[d].at = call[d].at /\ call'[d].config = call[d].config
               /\ call'[d].behind = call[d].behind \ {c}
      BY <1>2, EndedCalls DEF CallsEndOne, Idle
    <2> QED
      BY <2>1 DEF QueueSound, Busy
  <1>3. ASSUME NEW c \in Call, CallsBeginOne(c)
        PROVE  QueueSound'
    <2>1. ~Busy(c) /\ call[c].behind = {}
      BY <1>3 DEF CallsBeginOne, QueueSound, Busy
    <2>2. \A d \in Call : c \notin call[d].behind
      BY <2>1 DEF QueueSound
    <2>3. PICK config \in 1..MaxConfig :
            /\ \A d \in Call \ {c} : call'[d] = call[d]
            /\ IF stop THEN call'[c] = Idle
               ELSE /\ call'[c].at = "queued" /\ call'[c].config = config
                    /\ call'[c].behind = {d \in Call \ {c} : Busy(d)}
      BY <1>3, BegunCalls DEF CallsBeginOne
    <2>4. CASE stop
      BY <2>1, <2>2, <2>3, <2>4 DEF QueueSound, Busy, Idle
    <2>5. CASE ~stop
      <3>1. \A d \in Call : Busy(d)' <=> Busy(d) \/ d = c
        BY <2>3, <2>5 DEF Busy
      <3>2. call'[c].behind = {d \in Call \ {c} : Busy(d)} /\ call'[c].at = "queued"
            /\ call'[c].config # 0
        BY <2>3, <2>5
      <3>3. /\ \A d \in Call : Busy(d)' => call'[d].config # 0
            /\ \A d \in Call : call'[d].at # "queued" => call'[d].behind = {}
        BY <2>1, <2>3, <3>1, <3>2 DEF QueueSound
      <3>4. \A d, e \in Call : e \in call'[d].behind => Busy(e)' /\ d \notin call'[e].behind
        BY <2>1, <2>2, <2>3, <3>1, <3>2 DEF QueueSound
      <3>5. \A d, e \in Call :
              Busy(d)' /\ Busy(e)' /\ d # e => d \in call'[e].behind \/ e \in call'[d].behind
        BY <2>1, <2>2, <2>3, <3>1, <3>2 DEF QueueSound
      <3>6. \A b, d, e \in Call :
              d \in call'[b].behind /\ e \in call'[d].behind => e \in call'[b].behind
        BY <2>1, <2>2, <2>3, <3>1, <3>2 DEF QueueSound
      <3> QED
        BY <3>3, <3>4, <3>5, <3>6 DEF QueueSound, Busy
    <2> QED
      BY <2>4, <2>5
  <1>4. ASSUME NEW c \in Call, NEW n \in CallState, Goes(c, n)
        PROVE  QueueSound'
    <2>1. call'[c] = n /\ \A d \in Call \ {c} : call'[d] = call[d]
      BY <1>4, GoneCalls
    <2>2. n.behind = {} /\ call[c].behind = {} /\ n.config = call[c].config /\ Busy(c)
          /\ n.at # "idle" /\ n.at # "queued"
      BY <1>4 DEF Goes, Round
    <2> QED
      BY <2>1, <2>2 DEF QueueSound, Busy
  <1>5. ASSUME NEW calls \in SUBSET Call, Abort(calls)
        PROVE  QueueSound'
    <2>1. \A d \in Call :
              /\ call'[d].at = call[d].at /\ call'[d].config = call[d].config
              /\ call'[d].behind = call[d].behind
      BY <1>5, AbortedCalls
    <2> QED
      BY <2>1 DEF QueueSound, Busy
  <1> QED
    BY <1>1, <1>2, <1>3, <1>4, <1>5 DEF CallsChange

--------------------------------------------------------------------------------
(***************************************************************************)
(* The types.                                                              *)
(***************************************************************************)

\* What an outcome leaves of a record is a record.
LEMMA KeptTyped ==
  ASSUME NEW outcome, NEW b \in {None} \cup Record
  PROVE  Kept(outcome, b) \in {None} \cup Record
PROOF
  BY DEF Kept, Record

\* A session that is marked is a session.
LEMMA SessionTyped ==
  ASSUME NEW p \in Session, NEW made \in BOOLEAN, NEW late \in BOOLEAN,
         NEW receipt \in Nat \cup {None}
  PROVE  /\ [p EXCEPT !.late = late] \in Session
         /\ [p EXCEPT !.made = made] \in Session
         /\ [p EXCEPT !.receipt = receipt] \in Session
         /\ [p EXCEPT !.late = late, !.receipt = receipt] \in Session
PROOF
  BY DEF Session

\* A tree that is published is the manifest of the next revision.
LEMMA PublishedTyped ==
  ASSUME TypeOK, NEW t \in Tree, Publishes(t)
  PROVE  /\ server' \in [config : 1..MaxConfig, revision : Nat, manifest : Tree \cup {None}]
         /\ server'.config = server.config
         /\ server'.revision = server.revision + 1 /\ server'.manifest = t
         /\ orphans' = {}
         /\ server.revision \in Nat
PROOF
  <1>1. /\ server \in [config : 1..MaxConfig, revision : Nat, manifest : Tree \cup {None}]
        /\ server.revision \in Nat /\ server.config \in 1..MaxConfig
    BY DEF TypeOK
  <1>2. server' = [server EXCEPT !.revision = @ + 1, !.manifest = t] /\ orphans' = {}
    BY DEF Publishes
  <1>3. server.revision + 1 \in Nat
    BY <1>1
  <1> QED
    BY <1>1, <1>2, <1>3

\* The session of a proposal.
LEMMA ProposalTyped ==
  ASSUME IInv, NEW c \in Call, call[c].at = "scan"
  PROVE  /\ baseline \in Record
         /\ [config |-> call[c].config, base |-> baseline.revision, tree |-> tree,
             made |-> FALSE, receipt |-> None, late |-> FALSE, own |-> c = "final"]
              \in Session
PROOF
  <1>1. baseline \in Record
    BY DEF IInv, TypeOK, WorkSound
  <1>2. call[c].config \in 0..MaxConfig /\ call[c].config # 0
    BY DEF IInv, TypeOK, QueueSound, CallState, Busy
  <1>3. call[c].config \in 1..MaxConfig /\ tree \in Tree /\ baseline.revision \in Nat
        /\ (c = "final") \in BOOLEAN
    BY <1>1, <1>2, SyncAssumption DEF IInv, TypeOK, Record
  <1> QED
    BY <1>1, <1>3 DEF Session

\* What a call does to the server, the session and the record.
LEMMA CallTyped ==
  ASSUME IInv, CallMove
  PROVE  /\ orphans' \subseteq Tree
         /\ server' \in [config : 1..MaxConfig, revision : Nat, manifest : Tree \cup {None}]
         /\ baseline' \in {None} \cup Record
         /\ pending' \in {None} \cup Session
PROOF
  <1>t. /\ orphans \subseteq Tree
        /\ server \in [config : 1..MaxConfig, revision : Nat, manifest : Tree \cup {None}]
        /\ baseline \in {None} \cup Record
        /\ pending \in {None} \cup Session
        /\ TypeOK
    BY DEF IInv, TypeOK
  <1>w. ASSUME NEW c \in Call, call[c].at \in Negotiating
        PROVE  pending \in Session /\ baseline \in Record
    BY <1>t, <1>w DEF IInv, WorkSound
  <1>o. ASSUME Orphaned
        PROVE  orphans' \subseteq Tree
    BY <1>t, <1>o DEF Orphaned, Session
  <1>1. ASSUME NEW c \in Call, NEW outcome \in Outcome \ {"unchanged", "synced"},
               Lost(c, outcome)
        PROVE  /\ baseline' \in {None} \cup Record /\ UNCHANGED server_side
               /\ pending' \in {None} \cup Session
    <2>1. baseline' \in {None} \cup Record
      BY <1>1, <1>t, KeptTyped DEF Lost, End
    <2>2. pending' \in {None} \cup Session
      BY <1>1, <1>t, <1>w, SessionTyped DEF Lost, Negotiating
    <2> QED
      BY <1>1, <2>1, <2>2 DEF Lost
  <1>2. ASSUME NEW c \in Call, Passed(c)
        PROVE  /\ baseline' \in {None} \cup Record /\ UNCHANGED server_side
               /\ pending' \in {None} \cup Session
    BY <1>2, <1>t, KeptTyped DEF Passed, End
  <1>3. ASSUME NEW c \in Call, Received(c)
        PROVE  /\ baseline' \in {None} \cup Record /\ UNCHANGED server_side
               /\ pending' \in {None} \cup Session
    BY <1>3, ReceivedRecord, KeptTyped DEF Received, End
  <1>4. ASSUME NEW c \in Call, Dropped(c)
        PROVE  /\ baseline' \in {None} \cup Record /\ UNCHANGED server
               /\ orphans' \subseteq Tree
               /\ pending' \in {None} \cup Session
    BY <1>4, <1>o, KeptTyped DEF Dropped, EndConfigChanged, End
  <1>5. ASSUME NEW c \in Call, Lands(c)
        PROVE  /\ baseline' \in {None} \cup Record
               /\ orphans' \subseteq Tree
               /\ server' \in [config : 1..MaxConfig, revision : Nat,
                               manifest : Tree \cup {None}]
               /\ pending' \in {None} \cup Session
    <2>1. pending \in Session /\ pending.tree \in Tree
      BY <1>5, <1>w DEF Lands, Negotiating, Session
    <2>2. server.revision + 1 \in Nat \cup {None}
      BY <1>t
    <2> QED
      BY <1>5, <1>t, <2>1, <2>2, PublishedTyped, SessionTyped DEF Lands
  <1>6. ASSUME NEW c \in Call, NEW n \in CallState, GoesOn(c, n)
        PROVE  /\ UNCHANGED <<server, orphans, baseline>>
               /\ pending' \in {None} \cup Session
    BY <1>6, <1>t, SessionTyped DEF GoesOn, Goes
  <1>7. ASSUME NEW c \in Call, NEW n \in CallState, Reads(c, n)
        PROVE  /\ UNCHANGED <<server, orphans, pending>>
               /\ baseline' \in {None} \cup Record
    BY <1>7, <1>t DEF Reads, Goes, Record
  <1>8. ASSUME NEW c \in Call, NEW n \in CallState, Restarts(c, n)
        PROVE  /\ UNCHANGED <<server, orphans, pending>>
               /\ baseline' \in {None} \cup Record
    BY <1>8, <1>w DEF Restarts, Goes, Record
  <1>9. ASSUME NEW c \in Call, NEW n \in CallState, Proposes(c, n)
        PROVE  /\ UNCHANGED <<server, baseline>>
               /\ orphans' \subseteq Tree
               /\ pending' \in {None} \cup Session
    BY <1>9, <1>o, <1>t, ProposalTyped DEF Proposes, Goes
  <1> QED
    BY <1>1, <1>2, <1>3, <1>4, <1>5, <1>6, <1>7, <1>8, <1>9, <1>t
       DEF CallMove, Leaves, server_side

\* What the server and the wire do to them.
LEMMA ServerTyped ==
  ASSUME TypeOK, ServerMove
  PROVE  /\ orphans' \subseteq Tree
         /\ server' \in [config : 1..MaxConfig, revision : Nat, manifest : Tree \cup {None}]
         /\ baseline' \in {None} \cup Record
         /\ pending' \in {None} \cup Session
PROOF
  <1>t. /\ orphans \subseteq Tree
        /\ server \in [config : 1..MaxConfig, revision : Nat, manifest : Tree \cup {None}]
        /\ baseline \in {None} \cup Record
        /\ pending \in {None} \cup Session
    BY DEF TypeOK
  <1>b. UNCHANGED baseline
    BY DEF ServerMove
  <1>1. CASE UNCHANGED <<server_side, pending>>
    BY <1>1, <1>b, <1>t DEF server_side
  <1>2. CASE \E t \in orphans : Publishes(t) /\ UNCHANGED pending
    BY <1>2, <1>b, <1>t, PublishedTyped
  <1>3. CASE /\ pending # None
             /\ Publishes(pending.tree)
             /\ pending' = [pending EXCEPT !.late = FALSE, !.receipt = server.revision + 1]
    <2>1. pending \in Session /\ pending.tree \in Tree /\ server.revision + 1 \in Nat \cup {None}
      BY <1>3, <1>t DEF Session
    <2> QED
      BY <1>3, <1>b, <1>t, <2>1, PublishedTyped, SessionTyped
  <1>4. CASE /\ pending # None
             /\ \/ pending' = [pending EXCEPT !.late = FALSE]
                \/ pending' = [pending EXCEPT !.made = TRUE]
                \/ pending' = [pending EXCEPT !.made = FALSE]
             /\ UNCHANGED server_side
    BY <1>4, <1>b, <1>t, SessionTyped DEF server_side
  <1>5. CASE /\ server.config < MaxConfig
             /\ server' = [server EXCEPT !.config = @ + 1]
             /\ orphans' = {}
             /\ UNCHANGED pending
    <2>1. server.config + 1 \in 1..MaxConfig
      BY <1>5, <1>t, SyncAssumption
    <2> QED
      BY <1>5, <1>b, <1>t, <2>1
  <1> QED
    BY <1>1, <1>2, <1>3, <1>4, <1>5 DEF ServerMove

\* The final sync hears from its call only, and a snapshot is one of its own.
LEMMA FinalHears ==
  ASSUME IInv, CallMove
  PROVE  /\ final' \in FinalState
         /\ final'.at = final.at /\ final'.fired = final.fired
         /\ final'.config = final.config /\ final'.answer = final.answer
         /\ \/ UNCHANGED final /\ Busy("final")' = Busy("final")
            \/ /\ Busy("final") /\ ~Busy("final")'
               /\ final'.outcome \in Outcome
               /\ final'.outcome = "synced" => final'.own
PROOF
  <1>t. TypeOK /\ final \in FinalState
    BY DEF IInv, TypeOK
  <1>1. ASSUME NEW c \in Call, NEW outcome \in Outcome, Released(c, outcome), Busy(c),
               outcome = "synced" /\ c = "final" => pending.own
        PROVE  /\ final' \in FinalState
               /\ final'.at = final.at /\ final'.fired = final.fired
               /\ final'.config = final.config /\ final'.answer = final.answer
               /\ \/ UNCHANGED final /\ Busy("final")' = Busy("final")
                  \/ /\ Busy("final") /\ ~Busy("final")'
                     /\ final'.outcome \in Outcome
                     /\ final'.outcome = "synced" => final'.own
    <2>1. call'[c].at = "idle" /\ \A d \in Call \ {c} : call'[d].at = call[d].at
      BY <1>1, <1>t, EndedCalls DEF Idle
    <2>2. CASE c = "final"
      <3>1. final' = [final EXCEPT !.outcome = outcome,
                                   !.own = outcome = "synced" /\ pending.own]
        BY <1>1, <2>2 DEF Released
      <3>2. (outcome = "synced" /\ pending.own) \in BOOLEAN
        BY <1>1, <2>2
      <3>3. /\ final' \in FinalState
            /\ final'.at = final.at /\ final'.fired = final.fired
            /\ final'.config = final.config /\ final'.answer = final.answer
            /\ final'.outcome = outcome
            /\ final'.own = (outcome = "synced" /\ pending.own)
        BY <1>t, <3>1, <3>2 DEF FinalState
      <3> QED
        BY <1>1, <2>1, <2>2, <3>3 DEF Busy
    <2>3. CASE c # "final"
      <3>1. UNCHANGED final
        BY <1>1, <2>3 DEF Released
      <3> QED
        BY <1>t, <2>1, <2>3, <3>1 DEF Busy, Call
    <2> QED
      BY <2>2, <2>3
  <1>2. ASSUME NEW c \in Call, NEW outcome \in Outcome \ {"unchanged", "synced"},
               Lost(c, outcome)
        PROVE  /\ Released(c, outcome) /\ Busy(c) /\ outcome \in Outcome
               /\ outcome # "synced"
    BY <1>2 DEF Lost, End
  <1>3. ASSUME NEW c \in Call, Passed(c)
        PROVE  Released(c, "unchanged") /\ Busy(c) /\ "unchanged" \in Outcome
    BY <1>3 DEF Passed, End, Busy, Outcome
  <1>4. ASSUME NEW c \in Call, Received(c)
        PROVE  /\ Busy(c) /\ "synced" \in Outcome
               /\ Released(c, "synced")
               /\ c = "final" => pending.own
    <2>1. c = "final" => pending.own
      BY <1>4 DEF Received, IInv, OwnSound, Negotiating
    <2> QED
      BY <1>4, <2>1 DEF Received, End, Busy, Outcome
  <1>5. ASSUME NEW c \in Call, Dropped(c)
        PROVE  Released(c, "config_changed") /\ Busy(c) /\ "config_changed" \in Outcome
    BY <1>5 DEF Dropped, EndConfigChanged, End, Busy, Round, Outcome
  <1>15. ASSUME NEW c \in Call, Leaves(c)
         PROVE  Released(c, "cancelled") /\ Busy(c) /\ "cancelled" \in Outcome
    BY <1>15 DEF Leaves, Busy, Outcome
  <1>6. ASSUME NEW c \in Call, NEW n \in CallState, Goes(c, n)
        PROVE  UNCHANGED final /\ Busy("final")' = Busy("final")
    BY <1>6, <1>t, GoneCalls DEF Goes, Busy, Round, Call
  <1>7. ASSUME NEW c \in Call, Lands(c)
        PROVE  UNCHANGED final /\ Busy("final")' = Busy("final")
    BY <1>7 DEF Lands, Busy
  <1>8. ASSUME NEW c \in Call, NEW n \in CallState,
               GoesOn(c, n) \/ Reads(c, n) \/ Restarts(c, n) \/ Proposes(c, n)
        PROVE  Goes(c, n)
    BY <1>8 DEF GoesOn, Reads, Restarts, Proposes
  <1>9. PICK c \in Call :
          \/ \E outcome \in Outcome \ {"unchanged", "synced"} : Lost(c, outcome)
          \/ Leaves(c) \/ Passed(c) \/ Received(c) \/ Dropped(c) \/ Lands(c)
          \/ \E n \in CallState : Goes(c, n)
    BY <1>8 DEF CallMove
  <1>10. CASE \E outcome \in Outcome \ {"unchanged", "synced"} : Lost(c, outcome)
    BY <1>1, <1>2, <1>10
  <1>11. CASE Passed(c)
    BY <1>1, <1>3, <1>11
  <1>12. CASE Received(c)
    BY <1>1, <1>4, <1>12
  <1>13. CASE Dropped(c)
    BY <1>1, <1>5, <1>13
  <1>14. CASE Lands(c) \/ \E n \in CallState : Goes(c, n)
    BY <1>t, <1>6, <1>7, <1>14
  <1>16. CASE Leaves(c)
    BY <1>1, <1>15, <1>16
  <1> QED
    BY <1>9, <1>10, <1>11, <1>12, <1>13, <1>14, <1>16

\* The final sync's own steps.
LEMMA FinalSteps ==
  ASSUME IInv, ClientMove, shutdown => shutdown'
  PROVE  final' \in FinalState /\ FinalSound'
PROOF
  <1>t. TypeOK /\ final \in FinalState /\ FinalSound
    BY DEF IInv, TypeOK
  <1>k. ASSUME UNCHANGED final, Busy("final")' = Busy("final")
        PROVE  final' \in FinalState /\ FinalSound'
    BY <1>k, <1>t DEF FinalSound, FinalAnswerIsHonest
  <1>1. ASSUME NEW c \in Call \ {"final"}, NEW config \in 1..server.config,
               call' = [call EXCEPT ![c] = Begun(c, config)], UNCHANGED final
        PROVE  final' \in FinalState /\ FinalSound'
    <2>1. call'["final"] = call["final"]
      BY <1>1, <1>t DEF TypeOK, Call
    <2> QED
      BY <1>1, <1>k, <2>1 DEF Busy
  <1>2. ASSUME NEW calls \in SUBSET Call, Abort(calls),
               \/ UNCHANGED final
               \/ /\ final.at \in {"syncing", "reporting"}
                  /\ final' = [final EXCEPT !.fired = TRUE]
        PROVE  final' \in FinalState /\ FinalSound'
    <2>1. call'["final"].at = call["final"].at
      BY <1>2, <1>t, AbortedCalls DEF Call
    <2>2. CASE UNCHANGED final
      BY <1>k, <2>1, <2>2 DEF Busy
    <2>3. CASE /\ final.at \in {"syncing", "reporting"}
               /\ final' = [final EXCEPT !.fired = TRUE]
      <3>1. /\ final' \in FinalState /\ final'.fired
            /\ final'.at = final.at /\ final'.config = final.config
            /\ final'.outcome = final.outcome /\ final'.own = final.own
        BY <1>t, <2>3 DEF FinalState
      <3> QED
        BY <1>t, <2>1, <2>3, <3>1 DEF FinalSound, FinalAnswerIsHonest, Busy
    <2> QED
      BY <1>2, <2>2, <2>3
  <1>3. ASSUME NEW config \in 1..MaxConfig, NEW at \in {"syncing", "reporting"},
               FinalCalls(at, config), at = "reporting" => final.fired
        PROVE  final' \in FinalState /\ FinalSound'
    <2>1. final' = [final EXCEPT !.at = at, !.config = config,
                                 !.outcome = IF stop THEN "stopped" ELSE None]
      BY <1>3 DEF FinalCalls
    <2>2. config \in 0..MaxConfig /\ config # 0
      BY SyncAssumption
    <2>3. /\ final' \in FinalState /\ final'.at = at /\ final'.config = config
          /\ final'.fired = final.fired
          /\ final'.outcome = IF stop THEN "stopped" ELSE None
      BY <1>t, <2>1, <2>2 DEF FinalState, Outcome
    <2>4. ~Busy("final")' => stop
      <3>1. ~stop => call'["final"].at = "queued"
        BY <1>3, <1>t, BegunCalls DEF FinalCalls, Call
      <3> QED
        BY <3>1 DEF Busy
    <2>5. ~Busy("final")' => final'.outcome = "stopped" /\ final'.outcome \in Outcome
      BY <2>3, <2>4 DEF Outcome
    <2> QED
      BY <1>3, <2>2, <2>3, <2>5 DEF FinalSound, FinalAnswerIsHonest
  <1>4. ASSUME NEW answer, Done(answer), ~Busy("final"),
               answer = "snapshot" => final.own,
               final.fired => answer \in {"snapshot", "timeout", "nothing"},
               ~final.fired => answer # "timeout",
               answer = "nothing" => shutdown
        PROVE  final' \in FinalState /\ FinalSound'
    <2>1. PICK said \in {"snapshot", "timeout", "nothing", "error"} :
            /\ said = IF answer \in {"snapshot", "timeout", "nothing"} THEN answer ELSE "error"
            /\ final' = [final EXCEPT !.at = "done", !.outcome = None, !.config = 0,
                                      !.answer = said]
            /\ UNCHANGED call
      BY <1>4 DEF Done
    <2>2. 0 \in 0..MaxConfig
      BY SyncAssumption
    <2>3. /\ final' \in FinalState /\ final'.at = "done" /\ final'.answer = said
          /\ final'.own = final.own /\ final'.fired = final.fired
      BY <1>t, <2>1, <2>2 DEF FinalState
    <2>4. ~Busy("final")'
      BY <1>4, <2>1 DEF Busy
    <2>5. FinalAnswerIsHonest'
      BY <1>4, <2>1, <2>3 DEF FinalAnswerIsHonest
    <2> QED
      BY <2>3, <2>4, <2>5 DEF FinalSound
  <1>5. ASSUME NEW config \in 1..server.config, FinalStarts(config)
        PROVE  final' \in FinalState /\ FinalSound'
    <2>1. config \in 1..MaxConfig
      BY <1>5, <1>t, SyncAssumption DEF TypeOK
    <2> QED
      BY <1>3, <1>5, <2>1 DEF FinalStarts
  <1>6. CASE FinalSettles
    <2>1. /\ final.at = "syncing" /\ ~Busy("final")
          /\ final.outcome \in Outcome
          /\ final.outcome = "synced" => final.own
      BY <1>6, <1>t DEF FinalSettles, FinalSound
    <2>2. CASE shutdown /\ Done("nothing")
      BY <1>4, <2>1, <2>2
    <2>3. CASE final.outcome = "synced" /\ Done("snapshot")
      BY <1>4, <2>1, <2>3
    <2>4. CASE ~final.fired /\ Done(final.outcome)
      BY <1>4, <2>1, <2>4 DEF Outcome
    <2>5. CASE final.fired /\ FinalCalls("reporting", final.config)
      <3>1. final.config \in 1..MaxConfig
        BY <2>1, FinalConfig
      <3> QED
        BY <1>3, <2>5, <3>1
    <2> QED
      BY <1>6, <2>2, <2>3, <2>4, <2>5 DEF FinalSettles, Overdue
  <1>7. CASE FinalReported
    <2>1. final.fired /\ ~Busy("final")
      BY <1>7, <1>t DEF FinalReported, FinalSound
    <2> QED
      BY <1>4, <1>7, <2>1 DEF FinalReported
  <1> QED
    BY <1>1, <1>2, <1>5, <1>6, <1>7 DEF ClientMove

\* What the final sync knows of itself.
LEMMA FinalKept ==
  ASSUME IInv, Move
  PROVE  final' \in FinalState /\ FinalSound'
PROOF
  <1>t. final \in FinalState /\ FinalSound /\ (shutdown => shutdown')
    BY DEF IInv, TypeOK, Move
  <1>1. CASE CallMove
    <2>1. /\ final' \in FinalState
          /\ final'.at = final.at /\ final'.fired = final.fired
          /\ final'.config = final.config /\ final'.answer = final.answer
      BY <1>1, FinalHears
    <2>2. CASE UNCHANGED final /\ Busy("final")' = Busy("final")
      BY <1>t, <2>1, <2>2 DEF FinalSound, FinalAnswerIsHonest
    <2>3. CASE /\ Busy("final") /\ ~Busy("final")'
               /\ final'.outcome \in Outcome
               /\ final'.outcome = "synced" => final'.own
      <3>1. final.at \in {"syncing", "reporting"}
        BY <1>t, <2>3 DEF FinalSound, FinalState
      <3> QED
        BY <1>t, <2>1, <2>3, <3>1 DEF FinalSound, FinalAnswerIsHonest
    <2> QED
      BY <1>1, <2>2, <2>3, FinalHears
  <1>2. CASE ServerMove
    BY <1>2, <1>t DEF ServerMove, FinalSound, FinalAnswerIsHonest, Busy
  <1>3. CASE ClientMove
    BY <1>3, <1>t, FinalSteps
  <1> QED
    BY <1>1, <1>2, <1>3 DEF Move

\* The types are kept.
LEMMA TypesKept ==
  ASSUME IInv, Move
  PROVE  TypeOK'
PROOF
  <1>t. TypeOK
    BY DEF IInv
  <1>1. call' \in [Call -> CallState]
    BY <1>t, MovedCalls, CallsTyped
  <1>2. final' \in FinalState
    BY FinalKept
  <1>3. /\ orphans' \subseteq Tree
        /\ server' \in [config : 1..MaxConfig, revision : Nat, manifest : Tree \cup {None}]
        /\ baseline' \in {None} \cup Record
        /\ pending' \in {None} \cup Session
    <2>1. CASE ClientMove
      BY <1>t, <2>1 DEF ClientMove, TypeOK, server_side
    <2> QED
      BY <1>t, <2>1, CallTyped, ServerTyped DEF Move
  <1> QED
    BY <1>1, <1>2, <1>3 DEF Move, TypeOK

--------------------------------------------------------------------------------
(***************************************************************************)
(* What a round works on, and the server's side.                           *)
(***************************************************************************)

\* Steps of the client leave the rounds where they are and begin none.
LEMMA RoundsStay ==
  ASSUME IInv, ClientMove, NEW c \in Call
  PROVE  /\ call[c].at \in Round \/ call'[c].at \in Round => call'[c].at = call[c].at
         /\ c = "final" =>
              \/ call'[c].at = call[c].at /\ call'[c].fresh = call[c].fresh
              \/ call'[c].at = "queued" /\ call'[c].fresh
              \/ call'[c].at = "idle"
PROOF
  <1>t. TypeOK
    BY DEF IInv
  <1>1. ASSUME NEW d \in Call, NEW config \in 1..MaxConfig, ~Busy(d),
               call' = [call EXCEPT ![d] = Begun(d, config)]
        PROVE  /\ call[c].at \in Round \/ call'[c].at \in Round => call'[c].at = call[c].at
               /\ c = "final" =>
                    \/ call'[c].at = call[c].at /\ call'[c].fresh = call[c].fresh
                    \/ call'[c].at = "queued" /\ call'[c].fresh
                    \/ call'[c].at = "idle"
    <2>1. \/ c # d /\ call'[c] = call[c]
          \/ c = d /\ stop /\ call'[c].at = "idle"
          \/ c = d /\ call'[c].at = "queued" /\ (c = "final" => call'[c].fresh)
      <3>1. CASE c # d
        BY <1>1, <1>t, <3>1, BegunCalls
      <3>2. CASE c = d /\ stop
        <4>1. call'[c] = Idle
          BY <1>1, <1>t, <3>2, BegunCalls
        <4> QED
          BY <3>2, <4>1 DEF Idle
      <3>3. CASE c = d /\ ~stop
        BY <1>1, <1>t, <3>3, BegunCalls
      <3> QED
        BY <3>1, <3>2, <3>3
    <2> QED
      BY <1>1, <2>1 DEF Busy, Round
  <1>2. ASSUME NEW calls \in SUBSET Call, Abort(calls)
        PROVE  call'[c].at = call[c].at /\ call'[c].fresh = call[c].fresh
    BY <1>2, <1>t, AbortedCalls
  <1>4. \A config \in 1..server.config : config \in 1..MaxConfig
    BY <1>t, SyncAssumption DEF TypeOK
  <1>5. ASSUME NEW config \in 1..server.config, FinalStarts(config)
        PROVE  call' = [call EXCEPT !["final"] = Begun("final", config)] /\ ~Busy("final")
    BY <1>5 DEF FinalStarts, FinalCalls, IInv, FinalSound
  <1>6. ASSUME FinalSettles \/ FinalReported
        PROVE  \/ UNCHANGED call
               \/ /\ ~Busy("final") /\ final.config \in 1..MaxConfig
                  /\ call' = [call EXCEPT !["final"] = Begun("final", final.config)]
    BY <1>6, FinalConfig DEF FinalSettles, FinalReported, FinalCalls, Done
  <1>7. "final" \in Call
    BY DEF Call
  <1> QED
    BY <1>1, <1>2, <1>4, <1>5, <1>6, <1>7 DEF ClientMove

\* A session or a record is something.
LEMMA SomethingIsNotNone == None \notin Session /\ None \notin Record /\ None \notin Nat
PROOF
  BY NullAssumption

\* A round keeps what it works on.
LEMMA WorkKept ==
  ASSUME IInv, Move
  PROVE  WorkSound'
PROOF
  <1>t. TypeOK /\ QueueSound /\ WorkSound /\ TypeOK'
    BY TypesKept DEF IInv
  <1>1. ASSUME NEW c \in Call, NEW outcome, Released(c, outcome),
               \/ call[c].at \in Round
               \/ /\ baseline # None => baseline' # None
                  /\ pending # None => pending' # None
        PROVE  WorkSound'
    <2>1. call'[c].at = "idle" /\ \A d \in Call \ {c} : call'[d].at = call[d].at
      BY <1>1, <1>t, EndedCalls DEF Idle
    <2>2. CASE call[c].at \in Round
      <3>1. \A d \in Call : call'[d].at \notin Round
        BY <1>t, <2>1, <2>2, Alone DEF Round
      <3> QED
        BY <3>1 DEF WorkSound, Round, Negotiating
    <2>3. CASE /\ baseline # None => baseline' # None
               /\ pending # None => pending' # None
      BY <1>t, <2>1, <2>3 DEF WorkSound, Negotiating
    <2> QED
      BY <1>1, <2>2, <2>3
  <1>2. ASSUME NEW c \in Call, NEW n \in CallState, Goes(c, n),
               n.at \in {"scan"} \cup Negotiating => baseline' # None,
               n.at \in Negotiating => pending' # None
        PROVE  WorkSound'
    <2>1. call'[c] = n /\ \A d \in Call \ {c} : call'[d] = call[d]
      BY <1>2, <1>t, GoneCalls
    <2>2. \A d \in Call \ {c} : call[d].at \notin Round
      BY <1>2, <1>t, Alone DEF Goes
    <2> QED
      BY <1>2, <2>1, <2>2 DEF WorkSound, Round, Negotiating
  <1>3. ASSUME NEW c \in Call, NEW outcome \in Outcome \ {"unchanged", "synced"},
               Lost(c, outcome)
        PROVE  WorkSound'
    <2>1. pending # None => pending' # None
      <3>1. ASSUME pending # None, pending' = [pending EXCEPT !.late = TRUE]
            PROVE  pending' # None
        <4>1. pending' \in Session
          BY <1>t, <3>1 DEF TypeOK, Session
        <4> QED
          BY <4>1, SomethingIsNotNone
      <3> QED
        BY <1>3, <3>1 DEF Lost
    <2>2. baseline # None => baseline' # None
      <3>1. ASSUME baseline # None
            PROVE  Kept(outcome, baseline) \in Record
        BY <3>1, <1>t DEF Kept, Record, TypeOK
      <3> QED
        BY <1>3, <3>1, SomethingIsNotNone DEF Lost, End
    <2> QED
      BY <1>1, <1>3, <2>1, <2>2 DEF Lost, End
  <1>4. ASSUME NEW c \in Call, Leaves(c) \/ Passed(c) \/ Received(c) \/ Dropped(c)
        PROVE  WorkSound'
    BY <1>1, <1>4 DEF Leaves, Passed, Received, Dropped, EndConfigChanged, End, Round
  <1>5. ASSUME NEW c \in Call, Lands(c)
        PROVE  WorkSound'
    <2>1. pending \in Session
      BY <1>5, <1>t DEF Lands, WorkSound, Negotiating, TypeOK
    <2>2. pending' \in Session
      <3>1. server.revision + 1 \in Nat \cup {None}
        BY <1>t DEF TypeOK
      <3> QED
        BY <1>5, <2>1, <3>1, SessionTyped DEF Lands
    <2> QED
      BY <1>5, <1>t, <2>2, SomethingIsNotNone DEF Lands, WorkSound
  <1>6. ASSUME NEW c \in Call, NEW n \in CallState, GoesOn(c, n)
        PROVE  WorkSound'
    <2>1. n.at \in {"scan"} \cup Negotiating => baseline' # None
      BY <1>6, <1>t DEF GoesOn, WorkSound
    <2>2. n.at \in Negotiating => pending' # None
      <3>1. n.at \in Negotiating => pending \in Session
        BY <1>6, <1>t DEF GoesOn, WorkSound, TypeOK
      <3>2. ASSUME pending \in Session
            PROVE  pending' \in Session
        BY <1>6, <3>2, SessionTyped DEF GoesOn
      <3> QED
        BY <3>1, <3>2, SomethingIsNotNone
    <2> QED
      BY <1>2, <1>6, <2>1, <2>2 DEF GoesOn
  <1>7. ASSUME NEW c \in Call, NEW n \in CallState, Reads(c, n)
        PROVE  WorkSound'
    <2>1. baseline' \in Record
      BY <1>7, <1>t DEF Reads, Record, TypeOK
    <2> QED
      BY <1>2, <1>7, <2>1, SomethingIsNotNone DEF Reads, Negotiating
  <1>8. ASSUME NEW c \in Call, NEW n \in CallState, Restarts(c, n)
        PROVE  WorkSound'
    BY <1>2, <1>8 DEF Restarts, Negotiating
  <1>9. ASSUME NEW c \in Call, NEW n \in CallState, Proposes(c, n)
        PROVE  WorkSound'
    <2>1. baseline # None
      BY <1>9, <1>t DEF Proposes, WorkSound
    <2>2. pending' # None
      BY <1>9, ProposalTyped, SomethingIsNotNone DEF Proposes
    <2> QED
      BY <1>2, <1>9, <2>1, <2>2 DEF Proposes
  <1>10. CASE CallMove
    BY <1>3, <1>4, <1>5, <1>6, <1>7, <1>8, <1>9, <1>10 DEF CallMove
  <1>11. CASE ServerMove
    <2>1. pending # None => pending' # None
      <3>1. ASSUME pending \in Session, server.revision + 1 \in Nat \cup {None},
                   \/ UNCHANGED pending
                   \/ pending' = [pending EXCEPT !.late = FALSE,
                                                 !.receipt = server.revision + 1]
                   \/ pending' = [pending EXCEPT !.late = FALSE]
                   \/ pending' = [pending EXCEPT !.made = TRUE]
                   \/ pending' = [pending EXCEPT !.made = FALSE]
            PROVE  pending' \in Session
        BY <3>1, SessionTyped
      <3>2. server.revision + 1 \in Nat \cup {None}
        BY <1>t DEF TypeOK
      <3>3. pending # None => pending \in Session
        BY <1>t DEF TypeOK
      <3> QED
        BY <1>11, <3>1, <3>2, <3>3, SomethingIsNotNone DEF ServerMove
    <2> QED
      BY <1>11, <1>t, <2>1 DEF ServerMove, WorkSound
  <1>12. CASE ClientMove
    <2>1. UNCHANGED <<baseline, pending>>
      BY <1>12 DEF ClientMove
    <2> QED
      BY <1>12, <1>t, <2>1, RoundsStay DEF WorkSound, Round, Negotiating
  <1> QED
    BY <1>10, <1>11, <1>12 DEF Move

\* The session of a round.
LEMMA RoundSession ==
  ASSUME IInv, NEW c \in Call, call[c].at \in Negotiating
  PROVE  pending \in Session /\ baseline \in Record
PROOF
  BY DEF IInv, WorkSound, TypeOK

\* A commit that landed stays the newest: whatever could land after it was dropped.
LEMMA ReceiptKept ==
  ASSUME IInv, Move
  PROVE  ReceiptSound'
PROOF
  <1>t. /\ TypeOK /\ ReceiptSound
        /\ pending # None => pending \in Session
        /\ server \in [config : 1..MaxConfig, revision : Nat, manifest : Tree \cup {None}]
    BY DEF IInv, TypeOK
  <1>k. ASSUME UNCHANGED <<server_side, pending>>
        PROVE  ReceiptSound'
    BY <1>k, <1>t DEF ReceiptSound, server_side
  <1>p. ASSUME pending \in Session, Publishes(pending.tree), pending.made,
               \/ pending' = [pending EXCEPT !.receipt = server.revision + 1]
               \/ pending' = [pending EXCEPT !.late = FALSE, !.receipt = server.revision + 1]
        PROVE  ReceiptSound'
    <2>1. pending.tree \in Tree
      BY <1>p DEF Session
    <2>2. /\ server'.revision = server.revision + 1 /\ server'.manifest = pending.tree
          /\ orphans' = {}
      BY <1>p, <1>t, <2>1, PublishedTyped
    <2>3. /\ pending'.receipt = server.revision + 1 /\ pending'.made
          /\ pending'.tree = pending.tree
      BY <1>p DEF Session
    <2> QED
      BY <2>2, <2>3 DEF ReceiptSound
  <1>m. ASSUME pending \in Session, UNCHANGED server_side,
               \/ pending' = [pending EXCEPT !.late = TRUE]
               \/ pending' = [pending EXCEPT !.late = FALSE]
               \/ pending' = [pending EXCEPT !.made = TRUE]
               \/ pending.receipt = None /\ pending' = [pending EXCEPT !.made = FALSE]
        PROVE  ReceiptSound'
    <2>1. /\ pending'.receipt = pending.receipt /\ pending'.tree = pending.tree
          /\ pending'.made = pending.made \/ pending'.made \/ pending.receipt = None
      BY <1>m DEF Session
    <2>2. pending # None
      BY <1>m, SomethingIsNotNone
    <2> QED
      BY <1>m, <1>t, <2>1, <2>2 DEF ReceiptSound, server_side
  <1>1. CASE CallMove
    <2>1. ASSUME NEW c \in Call, NEW outcome \in Outcome \ {"unchanged", "synced"},
                 Lost(c, outcome)
          PROVE  ReceiptSound'
      BY <1>k, <1>m, <2>1, RoundSession DEF Lost, Negotiating
    <2>2. ASSUME NEW c \in Call, Leaves(c) \/ Passed(c) \/ Received(c) \/ Dropped(c)
          PROVE  ReceiptSound'
      <3>1. CASE Leaves(c) \/ Passed(c)
        BY <1>k, <3>1 DEF Leaves, Passed
      <3>2. CASE Received(c) \/ Dropped(c)
        BY <3>2 DEF Received, Dropped, EndConfigChanged, ReceiptSound
      <3> QED
        BY <2>2, <3>1, <3>2
    <2>3. ASSUME NEW c \in Call, Lands(c)
          PROVE  ReceiptSound'
      BY <1>p, <2>3, RoundSession DEF Lands, Negotiating
    <2>4. ASSUME NEW c \in Call, NEW n \in CallState,
                 GoesOn(c, n) \/ Reads(c, n) \/ Restarts(c, n)
          PROVE  ReceiptSound'
      <3>1. UNCHANGED server_side
        BY <2>4 DEF GoesOn, Reads, Restarts, Goes, server_side
      <3>2. \/ UNCHANGED pending
            \/ pending # None /\ pending' = [pending EXCEPT !.made = TRUE]
        BY <2>4 DEF GoesOn, Reads, Restarts
      <3> QED
        BY <1>k, <1>m, <1>t, <3>1, <3>2
    <2>5. ASSUME NEW c \in Call, NEW n \in CallState, Proposes(c, n)
          PROVE  ReceiptSound'
      <3>1. CASE pending' = [config |-> call[c].config, base |-> baseline.revision,
                             tree |-> tree, made |-> FALSE, receipt |-> None,
                             late |-> FALSE, own |-> c = "final"]
        BY <3>1 DEF ReceiptSound
      <3>2. CASE UNCHANGED <<pending, orphans>>
        BY <1>k, <2>5, <3>2 DEF Proposes, Goes, server_side
      <3> QED
        BY <2>5, <3>1, <3>2 DEF Proposes
    <2> QED
      BY <1>1, <2>1, <2>2, <2>3, <2>4, <2>5 DEF CallMove
  <1>2. CASE ServerMove
    <2>1. ASSUME NEW t \in orphans, UNCHANGED pending
          PROVE  ReceiptSound'
      BY <1>t, <2>1 DEF ReceiptSound
    <2>2. CASE /\ server' = [server EXCEPT !.config = @ + 1] /\ orphans' = {}
               /\ UNCHANGED pending
      <3>1. server'.revision = server.revision /\ server'.manifest = server.manifest
        BY <1>t, <2>2
      <3> QED
        BY <1>t, <2>2, <3>1 DEF ReceiptSound
    <2> QED
      BY <1>2, <1>t, <1>k, <1>p, <1>m, <2>1, <2>2 DEF ServerMove
  <1>3. CASE ClientMove
    BY <1>3, <1>k DEF ClientMove
  <1> QED
    BY <1>1, <1>2, <1>3 DEF Move

\* The session of the final sync stays its own until it is settled: nobody else
\* proposes meanwhile.
LEMMA OwnKept ==
  ASSUME IInv, Move
  PROVE  OwnSound'
PROOF
  <1>t. /\ TypeOK /\ QueueSound /\ OwnSound
        /\ pending # None => pending \in Session
        /\ "final" \in Call
    BY DEF IInv, TypeOK, Call
  <1>o. ASSUME pending \in Session,
               \/ pending' = [pending EXCEPT !.receipt = server.revision + 1]
               \/ pending' = [pending EXCEPT !.late = FALSE, !.receipt = server.revision + 1]
               \/ pending' = [pending EXCEPT !.late = TRUE]
               \/ pending' = [pending EXCEPT !.late = FALSE]
               \/ pending' = [pending EXCEPT !.made = TRUE]
               \/ pending' = [pending EXCEPT !.made = FALSE]
        PROVE  pending' # None /\ pending'.own = pending.own
    <2>1. server.revision + 1 \in Nat \cup {None}
      BY <1>t DEF TypeOK
    <2>2. pending' \in Session
      BY <1>o, <2>1, SessionTyped
    <2>3. pending'.own = pending.own
      BY <1>o DEF Session
    <2> QED
      BY <2>2, <2>3, SomethingIsNotNone
  <1>f. ASSUME call'["final"].at = call["final"].at, call'["final"].fresh = call["final"].fresh,
               pending # None => pending' # None /\ pending'.own = pending.own
        PROVE  OwnSound'
    BY <1>f, <1>t DEF OwnSound
  <1>i. ASSUME call'["final"].at = "idle"
        PROVE  OwnSound'
    BY <1>i DEF OwnSound, Negotiating
  \* Of another call's round the final sync is not under way.
  <1>r. ASSUME NEW c \in Call, c # "final", call[c].at \in Round,
               call'["final"].at = call["final"].at, call'["final"].fresh = call["final"].fresh
        PROVE  OwnSound'
    <2>1. call["final"].at \notin Round
      BY <1>r, <1>t, Alone
    <2>2. call["final"] \in CallState
      BY <1>t DEF TypeOK
    <2>3. call["final"].at \in {"idle", "queued"}
      BY <2>1, <2>2 DEF CallState
    <2> QED
      BY <1>r, <1>t, <2>3 DEF OwnSound, Negotiating
  <1>e. ASSUME NEW c \in Call, NEW outcome, Released(c, outcome)
        PROVE  IF c = "final" THEN call'["final"].at = "idle"
               ELSE call'["final"].at = call["final"].at
                    /\ call'["final"].fresh = call["final"].fresh
    <2>1. CASE c = "final"
      BY <1>e, <1>t, <2>1, EndedCalls DEF Idle
    <2>2. CASE c # "final"
      BY <1>e, <1>t, <2>2, EndedCalls
    <2> QED
      BY <2>1, <2>2
  <1>1. ASSUME NEW c \in Call, NEW outcome \in Outcome \ {"unchanged", "synced"},
               Lost(c, outcome)
        PROVE  OwnSound'
    <2>1. pending # None => pending' # None /\ pending'.own = pending.own
      BY <1>1, <1>o, <1>t DEF Lost
    <2>2. IF c = "final" THEN call'["final"].at = "idle"
          ELSE call'["final"].at = call["final"].at
               /\ call'["final"].fresh = call["final"].fresh
      BY <1>1, <1>e DEF Lost, End
    <2> QED
      BY <1>f, <1>i, <2>1, <2>2
  <1>2. ASSUME NEW c \in Call, Passed(c) \/ Received(c) \/ Dropped(c)
        PROVE  OwnSound'
    <2>1. call[c].at \in Round /\ \E outcome : Released(c, outcome)
      BY <1>2 DEF Passed, Received, Dropped, EndConfigChanged, End, Round
    <2> QED
      BY <1>e, <1>i, <1>r, <2>1
  <1>3. ASSUME NEW c \in Call, Lands(c)
        PROVE  OwnSound'
    BY <1>3, <1>f, <1>o, <1>t DEF Lands
  <1>4. ASSUME NEW c \in Call, NEW n \in CallState,
               GoesOn(c, n) \/ Reads(c, n) \/ Restarts(c, n)
        PROVE  OwnSound'
    <2>1. /\ Goes(c, n) /\ n.fresh = call[c].fresh /\ n.at \in Round
          /\ n.at \in Negotiating => call[c].at \in Negotiating
          /\ Busy(c)
      BY <1>4 DEF GoesOn, Reads, Restarts, Goes, Negotiating
    <2>2. pending # None => pending' # None /\ pending'.own = pending.own
      BY <1>4, <1>o, <1>t DEF GoesOn, Reads, Restarts
    <2>3. CASE c = "final"
      <3>1. call'["final"] = n
        BY <1>t, <2>1, <2>3, GoneCalls
      <3> QED
        BY <1>t, <2>1, <2>2, <2>3, <3>1 DEF OwnSound, Round, Busy
    <2>4. CASE c # "final"
      BY <1>t, <1>f, <2>1, <2>2, <2>4, GoneCalls
    <2> QED
      BY <2>3, <2>4
  <1>5. ASSUME NEW c \in Call, NEW n \in CallState, Proposes(c, n)
        PROVE  OwnSound'
    <2>1. Goes(c, n) /\ call[c].at = "scan" /\ n.at = "prepare" /\ ~n.fresh
      BY <1>5 DEF Proposes
    <2>2. CASE c = "final"
      <3>1. call'["final"] = n
        BY <1>t, <2>1, <2>2, GoneCalls
      <3>2. pending' # None /\ pending'.own
        <4>1. CASE pending' = [config |-> call[c].config, base |-> baseline.revision,
                               tree |-> tree, made |-> FALSE, receipt |-> None,
                               late |-> FALSE, own |-> c = "final"]
          BY <2>1, <2>2, <4>1, ProposalTyped, SomethingIsNotNone
        <4>2. CASE pending # None /\ ~call[c].fresh /\ UNCHANGED pending
          BY <1>t, <2>1, <2>2, <4>2 DEF OwnSound
        <4> QED
          BY <1>5, <4>1, <4>2 DEF Proposes
      <3> QED
        BY <2>1, <3>1, <3>2 DEF OwnSound
    <2>3. CASE c # "final"
      BY <1>t, <1>r, <2>1, <2>3, GoneCalls DEF Round
    <2> QED
      BY <2>2, <2>3
  <1>9. ASSUME NEW c \in Call, Leaves(c)
        PROVE  OwnSound'
    <2>1. Released(c, "cancelled") /\ UNCHANGED pending
      BY <1>9 DEF Leaves
    <2> QED
      BY <1>e, <1>f, <1>i, <2>1
  <1>6. CASE CallMove
    BY <1>1, <1>2, <1>3, <1>4, <1>5, <1>6, <1>9 DEF CallMove
  <1>7. CASE ServerMove
    <2>1. pending # None => pending' # None /\ pending'.own = pending.own
      BY <1>7, <1>o, <1>t DEF ServerMove
    <2> QED
      BY <1>7, <1>f, <2>1 DEF ServerMove
  <1>8. CASE ClientMove
    <2>1. UNCHANGED pending
      BY <1>8 DEF ClientMove
    <2> QED
      BY <1>8, <1>t, <1>f, <1>i, <2>1, RoundsStay DEF OwnSound, Negotiating
  <1> QED
    BY <1>6, <1>7, <1>8 DEF Move

\* While the manifest is known, a call that is past the queue and neither commits nor
\* negotiates has no session, and one that negotiates has one that has not landed.
LEMMA KnownRound ==
  ASSUME IInv, Known, NEW c \in Call, call[c].at \in Round \/ (Busy(c) /\ call[c].behind = {}),
         call[c].at # "commit"
  PROVE  /\ pending # None => ~pending.late /\ pending.receipt = None
                              /\ call[c].at \in Negotiating \cup {"report"}
         /\ orphans = {}
         /\ baseline.revision = server.revision /\ baseline.tree = server.manifest
PROOF
  <1>1. QueueSound /\ KnownSound
    BY DEF IInv
  <1>2. \A d \in Call : d # c => call[d].at \notin Round
    BY <1>1, Alone
  <1>3. \A d \in Call : call[d].at \in Negotiating \cup {"report"} => d = c
    BY <1>2 DEF Negotiating, Round
  <1>4. \A d \in Call : call[d].at # "commit"
    BY <1>3 DEF Negotiating
  <1> QED
    BY <1>1, <1>3, <1>4 DEF KnownSound

\* What is known stays true: a round that proposes has nothing of its own on the wire,
\* a receipt is recorded when it is that of the next revision, and every other outcome
\* forgets.
LEMMA KnownKept ==
  ASSUME IInv, Move
  PROVE  KnownSound'
PROOF
  <1>t. /\ TypeOK /\ QueueSound /\ KnownSound /\ ReceiptSound
        /\ pending # None => pending \in Session
        /\ server \in [config : 1..MaxConfig, revision : Nat, manifest : Tree \cup {None}]
    BY DEF IInv, TypeOK
  <1>u. ASSUME baseline' = None \/ baseline'.tree = None
        PROVE  KnownSound'
    BY <1>u DEF KnownSound, Known
  <1>1. ASSUME NEW c \in Call, NEW outcome \in Outcome \ {"unchanged", "synced"},
               Lost(c, outcome)
        PROVE  KnownSound'
    <2>1. baseline' = Kept(outcome, baseline)
      BY <1>1 DEF Lost, End
    <2>2. baseline \in {None} \cup Record
      BY <1>t DEF TypeOK
    <2> QED
      BY <1>u, <2>1, <2>2 DEF Kept, Record
  <1>2. ASSUME NEW c \in Call, Passed(c)
        PROVE  KnownSound'
    <2>1. baseline' = baseline /\ UNCHANGED <<pending, server, orphans>>
      BY <1>2 DEF Passed, End, Kept, server_side
    <2>2. Known => /\ pending = None /\ orphans = {}
                   /\ baseline.revision = server.revision /\ baseline.tree = server.manifest
      BY <1>2, KnownRound DEF Passed, Round, Negotiating
    <2> QED
      BY <2>1, <2>2 DEF KnownSound, Known
  <1>3. ASSUME NEW c \in Call, Received(c)
        PROVE  KnownSound'
    <2>1. pending \in Session /\ pending.receipt # None /\ pending # None
      BY <1>3, RoundSession, SomethingIsNotNone DEF Received, Negotiating
    <2>2. /\ baseline' = [config |-> call[c].config, revision |-> pending.receipt,
                          tree |-> IF pending.receipt = baseline.revision + 1
                                   THEN pending.tree ELSE None]
          /\ pending' = None /\ UNCHANGED <<server, orphans>>
      <3>1. ASSUME NEW b \in Record
            PROVE  Kept("synced", b) = b
        BY SomethingIsNotNone DEF Kept
      <3> QED
        BY <1>3, <3>1, ReceivedRecord DEF Received, End, server_side
    <2>3. /\ orphans = {} /\ server.revision = pending.receipt
          /\ server.manifest = pending.tree
      BY <1>t, <2>1 DEF ReceiptSound
    <2> QED
      BY <2>2, <2>3 DEF KnownSound, Known
  <1>4. ASSUME NEW c \in Call, Dropped(c)
        PROVE  KnownSound'
    BY <1>4, <1>u DEF Dropped, EndConfigChanged, End, Kept
  <1>13. ASSUME NEW c \in Call, Leaves(c)
         PROVE  KnownSound'
    <2>1. /\ call[c].at = "queued" /\ \A d \in Call \ {c} : call'[d].at = call[d].at
          /\ UNCHANGED <<baseline, pending, server, orphans>>
      BY <1>13, <1>t, EndedCalls DEF Leaves, server_side
    <2>2. \A d \in Call : call[d].at \in Negotiating \cup {"report"} => call'[d].at = call[d].at
      BY <2>1 DEF Negotiating
    <2> QED
      BY <1>t, <2>1, <2>2 DEF KnownSound, Known, Negotiating
  <1>5. ASSUME NEW c \in Call, Lands(c)
        PROVE  KnownSound'
    <2>1. pending \in Session /\ pending # None
      BY <1>5, RoundSession, SomethingIsNotNone DEF Lands, Negotiating
    <2>2. /\ pending' = [pending EXCEPT !.receipt = server.revision + 1]
          /\ UNCHANGED <<baseline, call>> /\ orphans' = {}
      BY <1>5 DEF Lands, Publishes
    <2>3. /\ pending'.receipt = server.revision + 1 /\ pending'.late = pending.late
      BY <2>1, <2>2 DEF Session
    <2>4. pending' # None /\ pending'.receipt # None
      <3>1. server.revision + 1 \in Nat
        BY <1>t
      <3>2. pending' \in Session
        BY <2>1, <2>2, <3>1, SessionTyped
      <3> QED
        BY <2>3, <3>1, <3>2, SomethingIsNotNone
    <2>5. call[c].at = "commit" /\ call'[c].at = "commit"
      BY <1>5, <2>2 DEF Lands
    <2>6. Known => ~pending.late
      BY <1>t, <2>1 DEF KnownSound
    <2> QED
      BY <2>2, <2>3, <2>4, <2>5, <2>6 DEF KnownSound, Known, Negotiating
  <1>6. ASSUME NEW c \in Call, NEW n \in CallState, GoesOn(c, n)
        PROVE  KnownSound'
    <2>1. /\ Busy(c) /\ call[c].behind = {} /\ call[c].at # "commit" /\ n.at \in Round
          /\ call[c].at # "report"
          /\ call[c].at \in Negotiating => n.at \in Negotiating \cup {"report"}
          /\ UNCHANGED <<baseline, server, orphans>>
      BY <1>6 DEF GoesOn, Goes
    <2>2. call'[c] = n
      BY <1>6, <1>t, GoneCalls DEF GoesOn
    <2>3. pending # None /\ Known => pending'.late = pending.late /\ pending'.receipt = None
      <3>1. pending # None /\ Known => pending.receipt = None
        BY <2>1, KnownRound
      <3> QED
        BY <1>6, <1>t, <3>1 DEF GoesOn, Session
    <2>4. pending = None => pending' = None
      BY <1>6 DEF GoesOn
    <2>5. Known => /\ pending # None => ~pending.late
                      /\ call[c].at \in Negotiating \cup {"report"}
                   /\ orphans = {}
                   /\ baseline.revision = server.revision
                   /\ baseline.tree = server.manifest
      BY <2>1, KnownRound
    <2> QED
      BY <2>1, <2>2, <2>3, <2>4, <2>5 DEF KnownSound, Known
  <1>7. ASSUME NEW c \in Call, NEW n \in CallState, Reads(c, n)
        PROVE  KnownSound'
    BY <1>7, <1>u DEF Reads
  <1>8. ASSUME NEW c \in Call, NEW n \in CallState, Restarts(c, n)
        PROVE  KnownSound'
    <2>1. baseline \in Record
      BY <1>8, RoundSession DEF Restarts
    <2>2. baseline'.tree = None
      BY <1>8, <2>1 DEF Restarts, Record
    <2> QED
      BY <1>u, <2>2
  <1>9. ASSUME NEW c \in Call, NEW n \in CallState, Proposes(c, n)
        PROVE  KnownSound'
    <2>1. /\ call[c].at = "scan" /\ n.at = "prepare" /\ Goes(c, n)
          /\ UNCHANGED <<baseline, server>>
      BY <1>9 DEF Proposes, Goes
    <2>2. call'[c].at = "prepare"
      BY <1>t, <2>1, GoneCalls
    <2>3. Known => /\ pending = None /\ orphans = {}
                   /\ baseline.revision = server.revision
                   /\ baseline.tree = server.manifest
      BY <2>1, KnownRound DEF Round, Negotiating
    <2>4. Known => /\ pending' = [config |-> call[c].config, base |-> baseline.revision,
                                  tree |-> tree, made |-> FALSE, receipt |-> None,
                                  late |-> FALSE, own |-> c = "final"]
                   /\ orphans' = {}
      BY <1>9, <2>3 DEF Proposes, Orphaned
    <2> QED
      BY <2>1, <2>2, <2>3, <2>4 DEF KnownSound, Known, Negotiating
  <1>10. CASE CallMove
    BY <1>1, <1>2, <1>3, <1>4, <1>5, <1>6, <1>7, <1>8, <1>9, <1>10, <1>13 DEF CallMove
  <1>11. CASE ServerMove
    <2>b. UNCHANGED <<baseline, call>>
      BY <1>11 DEF ServerMove
    <2>1. CASE UNCHANGED <<server_side, pending>>
      BY <1>t, <2>1, <2>b DEF KnownSound, Known, server_side
    <2>2. CASE orphans # {} \/ (pending # None /\ pending.late)
      <3>1. ~Known
        BY <1>t, <2>2 DEF KnownSound
      <3> QED
        BY <2>b, <3>1 DEF KnownSound, Known
    <2>3. CASE /\ pending # None
               /\ \/ pending' = [pending EXCEPT !.late = FALSE]
                  \/ pending' = [pending EXCEPT !.made = TRUE]
                  \/ pending' = [pending EXCEPT !.made = FALSE]
               /\ UNCHANGED server_side
      <3>1. pending'.receipt = pending.receipt /\ (pending'.late => pending.late)
        BY <1>t, <2>3 DEF Session
      <3>2. pending' # None
        <4>1. pending \in Session
          BY <1>t, <2>3
        <4>2. pending' \in Session
          BY <2>3, <4>1, SessionTyped
        <4> QED
          BY <4>2, SomethingIsNotNone
      <3> QED
        BY <1>t, <2>b, <2>3, <3>1, <3>2 DEF KnownSound, Known, server_side
    <2>4. CASE /\ server' = [server EXCEPT !.config = @ + 1] /\ orphans' = {}
               /\ UNCHANGED pending
      <3>1. server'.revision = server.revision /\ server'.manifest = server.manifest
        BY <1>t, <2>4
      <3> QED
        BY <1>t, <2>b, <2>4, <3>1 DEF KnownSound, Known
    <2> QED
      BY <1>11, <2>1, <2>2, <2>3, <2>4 DEF ServerMove
  <1>12. CASE ClientMove
    <2>1. UNCHANGED <<server, orphans, baseline, pending>>
      BY <1>12 DEF ClientMove, server_side
    <2>2. \A c \in Call : call[c].at \in Round => call'[c].at = call[c].at
      BY <1>12, RoundsStay
    <2> QED
      BY <1>t, <2>1, <2>2 DEF KnownSound, Known, Round, Negotiating
  <1> QED
    BY <1>10, <1>11, <1>12 DEF Move

--------------------------------------------------------------------------------
(***************************************************************************)
(* The theorems.                                                           *)
(***************************************************************************)

\* Nothing has been asked yet.
LEMMA InitInvariant ==
  ASSUME Init
  PROVE  IInv
PROOF
  <1>1. Idle \in CallState /\ NoFinal \in FinalState
    <2>1. 0 \in 0..MaxConfig /\ 0 \in 0..MaxRescans /\ 0 \in 0..MaxRenegotiations
      BY SyncAssumption
    <2> QED
      BY <2>1 DEF Idle, CallState, NoFinal, FinalState
  <1>2. \A c \in Call : call[c] = Idle
    BY DEF Init
  <1>3. TypeOK
    <2>1. 1 \in 1..MaxConfig
      BY SyncAssumption
    <2>2. server \in [config : 1..MaxConfig, revision : Nat, manifest : Tree \cup {None}]
      BY <2>1 DEF Init
    <2> QED
      BY <1>1, <2>2 DEF Init, TypeOK
  <1>4. QueueSound /\ WorkSound
    BY <1>2 DEF QueueSound, WorkSound, Idle, Busy, Negotiating
  <1>5. ReceiptSound /\ KnownSound
    BY DEF Init, ReceiptSound, KnownSound, Known
  <1>6. OwnSound
    BY <1>2 DEF OwnSound, Idle, Negotiating, Call
  <1>7. FinalSound
    BY <1>2 DEF Init, FinalSound, FinalAnswerIsHonest, NoFinal, Busy, Idle, Call
  <1> QED
    BY <1>3, <1>4, <1>5, <1>6, <1>7 DEF IInv

\* The invariant is kept by every step.
LEMMA NextInvariant ==
  ASSUME IInv, [Next]_vars
  PROVE  IInv'
PROOF
  <1>1. Move
    BY NextMoves
  <1>2. QueueSound'
    BY <1>1, MovedCalls, QueueKept DEF IInv
  <1> QED
    BY <1>1, <1>2, TypesKept, WorkKept, ReceiptKept, KnownKept, OwnKept, FinalKept DEF IInv

\* Every reachable state satisfies the invariant.
LEMMA Invariant == Spec => []IInv
PROOF
  BY InitInvariant, NextInvariant, PTL DEF Spec

\* The variables of the sync client have their types.
THEOREM SyncTypes == Spec => []TypeOK
PROOF
  <1>1. IInv => TypeOK
    BY DEF IInv
  <1> QED
    BY <1>1, Invariant, PTL

\* Three calls that are in one order have a first one.
LEMMA FirstInQueue ==
  ASSUME QueueSound, TypeOK, NEW c \in Call, Busy(c)
  PROVE  \E d \in Call : Busy(d) /\ call[d].behind = {}
PROOF
  <1>t. \A b \in Call : call[b].behind \subseteq Call
    BY DEF TypeOK, CallState
  <1>q. /\ \A d, e \in Call : e \in call[d].behind => Busy(e) /\ d \notin call[e].behind
        /\ \A b, d, e \in Call :
             d \in call[b].behind /\ e \in call[d].behind => e \in call[b].behind
        /\ \A d \in Call : d \notin call[d].behind
    BY DEF QueueSound
  <1>1. ASSUME call[c].behind # {}
        PROVE  \E d \in Call : Busy(d) /\ call[d].behind = {}
    <2>1. PICK d \in Call : d \in call[c].behind
      BY <1>1, <1>t
    <2>2. Busy(d) /\ d # c /\ c \notin call[d].behind
      BY <1>q, <2>1
    <2>3. ASSUME call[d].behind # {}
          PROVE  \E e \in Call : Busy(e) /\ call[e].behind = {}
      <3>1. PICK e \in Call : e \in call[d].behind
        BY <2>3, <1>t
      <3>2. Busy(e) /\ e # d /\ e # c /\ d \notin call[e].behind /\ c \notin call[e].behind
        BY <1>q, <2>1, <2>2, <3>1
      <3>3. Call = {c, d, e}
        BY <2>2, <3>2 DEF Call
      <3>4. call[e].behind = {}
        BY <1>t, <1>q, <3>2, <3>3
      <3> QED
        BY <3>2, <3>4
    <2> QED
      BY <2>2, <2>3
  <1> QED
    BY <1>1

\* What the daemon takes for the server's manifest is the manifest, whatever answers
\* were lost, commits landed late and calls were given up: its record is that of a round
\* that read its own receipt, while rounds of a loop queue.
THEOREM RecordSafety == Spec => []RecordIsKept
PROOF
  <1>1. IInv => RecordIsKept
    <2> SUFFICES ASSUME IInv PROVE RecordIsKept
      OBVIOUS
    <2>1. RoundsOfALoopQueue
      BY Alone, FirstInQueue DEF IInv, RoundsOfALoopQueue
    <2>2. RecordIsTrue
      <3>1. ASSUME Known, \A c \in Call : call[c].at # "commit"
            PROVE  baseline.revision = server.revision /\ baseline.tree = server.manifest
        BY <3>1 DEF IInv, KnownSound
      <3> QED
        BY <3>1 DEF IInv, RecordIsTrue, Known
    <2> QED
      BY <2>1, <2>2 DEF RecordIsKept
  <1> QED
    BY <1>1, Invariant, PTL

\* A run's report says of its artifacts what is so: a snapshot is of the final sync's own
\* session, a timeout is one, and nothing is said only when the daemon stops.
THEOREM FinalSafety == Spec => []FinalAnswerIsHonest
PROOF
  <1>1. IInv => FinalAnswerIsHonest
    BY DEF IInv, FinalSound
  <1> QED
    BY <1>1, Invariant, PTL

\* Every step of a call brings it nearer to its end, so however often it is scanned and
\* negotiated again it takes no more than a bounded number of them.
THEOREM CallsSafety == Spec => CallsEnd
PROOF
  <1>1. ASSUME IInv, [Next]_vars, NEW c \in Call, Busy(c), Busy(c)',
               call'[c].at # call[c].at
        PROVE  StepsLeft(c)' < StepsLeft(c)
    <2>t. TypeOK
      BY <1>1 DEF IInv
    <2>1. CallsChange
      BY <1>1, NextMoves, MovedCalls
    <2>2. ASSUME NEW d \in Call, NEW n \in CallState, Goes(d, n)
          PROVE  StepsLeft(c)' < StepsLeft(c)
      <3>1. d = c /\ call'[c] = n
        BY <1>1, <2>t, <2>2, GoneCalls
      <3>2. Left(call'[c]) < Left(call[c])
        BY <2>2, <3>1 DEF Goes
      <3> QED
        BY <3>2 DEF StepsLeft, Left
    <2>3. ASSUME NEW d \in Call, CallsEndOne(d)
          PROVE  FALSE
      <3>1. call'[d].at = "idle" /\ \A e \in Call \ {d} : call'[e].at = call[e].at
        BY <2>t, <2>3, EndedCalls DEF CallsEndOne, Idle
      <3> QED
        BY <1>1, <3>1 DEF Busy
    <2>4. ASSUME NEW d \in Call, CallsBeginOne(d)
          PROVE  FALSE
      <3>1. \A e \in Call \ {d} : call'[e] = call[e]
        BY <2>t, <2>4, BegunCalls DEF CallsBeginOne
      <3> QED
        BY <1>1, <2>4, <3>1 DEF CallsBeginOne
    <2>5. ASSUME NEW calls \in SUBSET Call, Abort(calls)
          PROVE  FALSE
      BY <1>1, <2>t, <2>5, AbortedCalls
    <2> QED
      BY <1>1, <2>1, <2>2, <2>3, <2>4, <2>5 DEF CallsChange
  <1>2. IInv /\ [Next]_vars =>
          [\A c \in Call :
             Busy(c) /\ Busy(c)' /\ call'[c].at # call[c].at
               => StepsLeft(c)' < StepsLeft(c)]_vars
    BY <1>1
  <1> QED
    BY <1>2, Invariant, PTL DEF Spec, CallsEnd

================================================================================
