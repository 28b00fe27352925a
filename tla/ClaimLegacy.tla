------------------------------ MODULE ClaimLegacy ------------------------------
(***************************************************************************)
(* claim:legacy, the offline command that gives machines without a team to *)
(* the team of a user (server/src/claim/): plan, copy and verify the blobs *)
(* into the team's namespace, then move the metadata in one transaction.   *)
(* A run may crash between any two steps and be repeated.                  *)
(*                                                                         *)
(* A blob's size is a function of its hash here, a manifest has one entry, *)
(* and the parts of a history that a running system cannot leave broken    *)
(* (counts, dangling references, the user and its team) are the free       *)
(* refusal Refuse.                                                         *)
(***************************************************************************)
EXTENDS Naturals, FiniteSets

CONSTANTS
  Machine, Hash,
  Team, Other,  \* the team that claims, and another one
  MaxMoves,     \* bound: what happens outside the command
  None

Space == Machine \cup {Team, Other}

VARIABLES
  owner,    \* team_id of each machine
  chain,    \* manifests and sync sessions: whose, of which blob, in which namespace
  active,   \* machines with a running run
  blobRow,  \* the blobs each namespace has a row for
  file,     \* the blob files: "none", "good" or "bad"
  claim,    \* the command
  moves,    \* bound: moves outside it
  spoiled   \* history: blobs whose file was damaged or bad already when a claimed machine used it

claimVars == <<owner, chain, active, blobRow, file, claim, moves, spoiled>>
worldVars == <<owner, chain, active, blobRow, file, moves, spoiled>>

\* The command: its step, the machines still to plan, those to claim, the rows
\* it counted, the blobs to have in the team's namespace and where they are,
\* those still to copy or verify, the one being written.
NoClaim == [pc |-> "idle", todo |-> {}, fresh |-> {}, count |-> [m \in Machine |-> <<0, 0>>],
            need |-> {}, from |-> [h \in Hash |-> None], left |-> {}, hash |-> None]

Init ==
  /\ owner = [m \in Machine |-> None] /\ chain = {} /\ active = {}
  /\ blobRow = [s \in Space |-> {}] /\ file = [s \in Space |-> [h \in Hash |-> "none"]]
  /\ claim = NoClaim /\ moves = 0 /\ spoiled = {}

Home(m) == IF owner[m] = None THEN m ELSE owner[m]
RowsOf(m, space) == {r \in chain : r.machine = m /\ r.space = space}
OfKind(rows, kind) == {r \in rows : r.kind = kind}
HashesOf(rows) == {r.hash : r \in OfKind(rows, "manifest")}

-------------------------------------------------------------------------------
(***************************************************************************)
(* The system around it.  The lock keeps servers out while the command     *)
(* runs, but not an old build that does not know the lock.                 *)
(***************************************************************************)
Move == moves < MaxMoves /\ moves' = moves + 1 /\ UNCHANGED claim

\* A blob is uploaded (a file already there is not read again) and a manifest
\* that names it committed.
Publish(m, h) ==
  /\ Move
  /\ chain' = chain \cup {[kind |-> "manifest", machine |-> m, hash |-> h, space |-> Home(m)]}
  /\ blobRow' = [blobRow EXCEPT ![Home(m)] = @ \cup {h}]
  /\ file' = [file EXCEPT ![Home(m)][h] = IF @ = "none" THEN "good" ELSE @]
  /\ spoiled' = IF owner[m] = Team /\ file[Team][h] = "bad" THEN spoiled \cup {h} ELSE spoiled
  /\ UNCHANGED <<owner, active>>

Negotiate(m) ==
  /\ Move
  /\ chain' = chain \cup {[kind |-> "session", machine |-> m, hash |-> None, space |-> Home(m)]}
  /\ UNCHANGED <<owner, active, blobRow, file, spoiled>>

RunStartsOrEnds(m) ==
  /\ Move /\ active' = IF m \in active THEN active \ {m} ELSE active \cup {m}
  /\ UNCHANGED <<owner, chain, blobRow, file, spoiled>>

\* Another team's claim, from its first to its last step.
OtherClaims(m) ==
  /\ Move /\ owner[m] = None
  /\ LET rows == RowsOf(m, m) IN
     /\ chain' = (chain \ rows) \cup {[r EXCEPT !.space = Other] : r \in rows}
     /\ blobRow' = [blobRow EXCEPT ![Other] = @ \cup HashesOf(rows)]
     /\ file' = [file EXCEPT ![Other] = [h \in Hash |-> IF h \in HashesOf(rows) THEN "good" ELSE @[h]]]
  /\ owner' = [owner EXCEPT ![m] = Other]
  /\ UNCHANGED <<active, spoiled>>

\* A file is damaged or lost while the command does not run.
Damage(space, h) ==
  /\ Move /\ claim.pc = "idle" /\ file[space][h] = "good"
  /\ \E ill \in {"bad", "none"} : file' = [file EXCEPT ![space][h] = ill]
  /\ spoiled' = IF space = Team /\ \E m \in Machine : owner[m] = Team /\ h \in HashesOf(RowsOf(m, Team))
                THEN spoiled \cup {h} ELSE spoiled
  /\ UNCHANGED <<owner, chain, active, blobRow>>

-------------------------------------------------------------------------------
(***************************************************************************)
(* The plan: all or nothing, and nothing is written.                       *)
(***************************************************************************)
Step(c) == claim' = c /\ UNCHANGED worldVars
Refused == Step(NoClaim)

Begin ==
  /\ claim.pc = "idle"
  /\ \E chosen \in SUBSET Machine \ {{}} : Step([NoClaim EXCEPT !.pc = "plan", !.todo = chosen])

Source(m) == IF owner[m] = Team THEN Team ELSE m
Counted(m, space) == <<Cardinality(OfKind(RowsOf(m, space), "manifest")), Cardinality(OfKind(RowsOf(m, space), "session"))>>

ChainWhole(m) ==
  /\ \A r \in chain : r.machine = m => r.space = Source(m)
  /\ HashesOf(RowsOf(m, Source(m))) \subseteq blobRow[Source(m)]

\* The blob rows of the namespace are copied too: a session in flight needs them.
PlanMachine(m) ==
  /\ claim.pc = "plan" /\ m \in claim.todo
  /\ IF owner[m] \notin {None, Team} \/ ~ChainWhole(m) \/ m \in active THEN Refused
     ELSE Step([claim EXCEPT
                  !.todo = @ \ {m},
                  !.fresh = IF owner[m] = None THEN @ \cup {m} ELSE @,
                  !.count[m] = Counted(m, Source(m)),
                  !.need = @ \cup blobRow[Source(m)],
                  !.from = [h \in Hash |-> IF h \in blobRow[Source(m)] THEN Source(m) ELSE @[h]]])

\* Every source file is there.  A dry run, and one that finds every machine
\* claimed, end here.
Classify ==
  /\ claim.pc = "plan" /\ claim.todo = {}
  /\ IF \E h \in claim.need : file[claim.from[h]][h] = "none" THEN Refused
     ELSE IF claim.fresh = {} THEN Step(NoClaim)
     ELSE Step([claim EXCEPT !.pc = "copy", !.left = claim.need])

(***************************************************************************)
(* Copy and verify.                                                        *)
(***************************************************************************)
VerifyExisting(h) == file[Team][h] = "good"

Verify(h) == IF VerifyExisting(h) THEN Step([claim EXCEPT !.pc = "copy", !.left = @ \ {h}, !.hash = None]) ELSE Refused

\* has, and either the read-back of what is there or the read of the source.
Copy(h) ==
  /\ claim.pc = "copy" /\ h \in claim.left
  /\ IF file[Team][h] # "none" THEN Verify(h) ELSE Step([claim EXCEPT !.pc = "write", !.hash = h])

\* writeVerified: bytes that do not match are never published, and a file that
\* got there first is not overwritten.
Write ==
  /\ claim.pc = "write"
  /\ LET h == claim.hash IN
     IF file[claim.from[h]][h] # "good" THEN Refused
     ELSE IF file[Team][h] # "none" THEN Verify(h)
     ELSE /\ file' = [file EXCEPT ![Team][h] = "good"]
          /\ claim' = [claim EXCEPT !.pc = "copy", !.left = @ \ {h}, !.hash = None]
          /\ UNCHANGED <<owner, chain, active, blobRow, moves, spoiled>>

(***************************************************************************)
(* The transaction.                                                        *)
(***************************************************************************)
\* Mutant: the UPDATEs do not count their rows.
PreImage_Uncounted(m) == owner[m] = None /\ m \notin active
PreImage(m) == owner[m] = None /\ m \notin active /\ Counted(m, m) = claim.count[m]

Apply ==
  /\ claim.pc = "copy" /\ claim.left = {}
  /\ IF \E m \in claim.fresh : ~PreImage(m) THEN Refused
     ELSE LET moved == {r \in chain : r.machine \in claim.fresh /\ r.space = r.machine} IN
          /\ chain' = (chain \ moved) \cup {[r EXCEPT !.space = Team] : r \in moved}
          /\ owner' = [m \in Machine |-> IF m \in claim.fresh THEN Team ELSE owner[m]]
          /\ blobRow' = [blobRow EXCEPT ![Team] = @ \cup claim.need]
          /\ claim' = NoClaim
          /\ UNCHANGED <<active, file, moves, spoiled>>

\* A refusal not modelled above, an I/O error, a rollback, a kill.
Refuse == claim.pc # "idle" /\ Refused

Next ==
  \/ \E m \in Machine : \/ Negotiate(m) \/ RunStartsOrEnds(m) \/ OtherClaims(m) \/ PlanMachine(m)
                        \/ \E h \in Hash : Publish(m, h)
  \/ \E h \in Hash : Copy(h) \/ \E space \in Space : Damage(space, h)
  \/ Begin \/ Classify \/ Write \/ Apply \/ Refuse

-------------------------------------------------------------------------------
\* The history of a machine is never half moved, however runs crash, are
\* repeated or meet an old server: all its manifests and sessions are in the
\* namespace its owner reads, and a claimed machine has each blob they name,
\* with its row, in a file that some reader verified or wrote.
ClaimIsWhole ==
  /\ \A r \in chain : r.space = Home(r.machine)
  /\ \A m \in Machine : owner[m] = Team =>
       \A h \in HashesOf(RowsOf(m, Team)) : h \in blobRow[Team] /\ (file[Team][h] = "good" \/ h \in spoiled)
===============================================================================
