---------------------------- MODULE MachineContact ----------------------------
(***************************************************************************)
(* The contact a poll leaves on the row of its machine                     *)
(* (server/src/store/machines.ts, the poll route of http/app.ts): the      *)
(* last-seen watermark and the identity the daemon reports, written with   *)
(* no transaction by polls that run at once.  Each read and each write of  *)
(* the row is a step.                                                      *)
(*                                                                         *)
(* The capability snapshot is one of the fields, one that each poll sends. *)
(* The machine's name, filled in once from the host, is left out.  A       *)
(* watermark that cannot be parsed takes the branch of one too far in the  *)
(* future.                                                                 *)
(***************************************************************************)
EXTENDS Integers, FiniteSets

CONSTANTS
  Poll,         \* poll requests of one machine
  Field,        \* the identity fields
  Identity,     \* what a poll may send: a value or None for each field
  Refresh,      \* LAST_SEEN_REFRESH_MS
  Slack,        \* HEARTBEAT_SKEW_SLACK_MS
  MaxFlight,    \* time between a read of the row and what a poll decides or writes from it
  MaxAttempts,  \* 3 in the code
  MaxNow, MaxPollutions, \* bounds
  None

VARIABLES
  now,
  row,          \* [seen, identity, eligible]; None is what no contact has filled in
  poll,         \* the poll requests
  heard,        \* history: the latest contact acknowledged since the row was last polluted
  pollutions

contactVars == <<now, row, poll, heard, pollutions>>

Nothing == [f \in Field |-> None]
\* missing holds, as a history, the fields it sent that the row has not shown since.
NoPoll == [pc |-> "idle", offer |-> Nothing, read |-> None, readAt |-> 0, at |-> 0,
           attempt |-> 0, missing |-> {}, tainted |-> FALSE]

Init ==
  /\ now = 0 /\ heard = None /\ pollutions = 0
  /\ \/ row = [seen |-> None, identity |-> Nothing, eligible |-> TRUE]
     \/ \E i \in Identity : row = [seen |-> 0, identity |-> i, eligible |-> TRUE]
  /\ poll = [p \in Poll |-> NoPoll]

InFlight == {p \in Poll : poll[p].pc \in {"decide", "write"}}

Tick ==
  /\ now < MaxNow /\ now' = now + 1
  /\ \A p \in InFlight : now - poll[p].readAt < MaxFlight
  /\ UNCHANGED <<row, poll, heard, pollutions>>

\* A server whose clock is ahead stamped the row.
Pollute ==
  /\ pollutions < MaxPollutions /\ pollutions' = pollutions + 1
  /\ \E ahead \in {Slack, Slack + 2} : row' = [row EXCEPT !.seen = now + ahead]
  /\ heard' = None /\ poll' = [p \in Poll |-> [poll[p] EXCEPT !.tainted = p \in InFlight]]
  /\ UNCHANGED now

Revoke ==
  /\ row.eligible /\ row' = [row EXCEPT !.eligible = FALSE]
  /\ UNCHANGED <<now, poll, heard, pollutions>>

Arrive(p) ==
  /\ poll[p].pc = "idle"
  /\ \E i \in Identity :
       poll' = [poll EXCEPT ![p] = [NoPoll EXCEPT !.pc = "read", !.offer = i,
                                                  !.missing = {f \in Field : i[f] # None}]]
  /\ UNCHANGED <<now, row, heard, pollutions>>

Unshown(one, identity) == {f \in one.missing : identity[f] # one.offer[f]}

\* verifyEligibleMachineCredential at first, getMachine after a lost repair.
Read(p) ==
  /\ poll[p].pc = "read"
  /\ poll' = [poll EXCEPT ![p] =
       IF poll[p].attempt = 0 /\ ~row.eligible THEN NoPoll
       ELSE [poll[p] EXCEPT !.pc = "decide", !.read = row, !.readAt = now, !.tainted = FALSE,
                            !.missing = Unshown(poll[p], row.identity)]]
  /\ UNCHANGED <<now, row, heard, pollutions>>

Anomalous(seen, at) == seen # None /\ seen - at > Slack
Stale(seen, at) == seen = None \/ (~Anomalous(seen, at) /\ at - seen >= Refresh)
Newest(a, b) == IF a = None THEN b ELSE IF b = None THEN a ELSE IF a > b THEN a ELSE b

\* The poll is answered with a success; it counts if it saw no pollution.
Acknowledge(p, at) ==
  /\ poll' = [q \in Poll |->
       [IF q = p THEN [NoPoll EXCEPT !.pc = "acknowledged"] ELSE poll[q]
          EXCEPT !.missing = Unshown(poll[q], row'.identity)]]
  /\ heard' = IF poll[p].tainted THEN heard ELSE Newest(heard, at)
  /\ UNCHANGED <<now, pollutions>>

\* The fields a poll writes: those it sent that differ from what it read.
Patch(one) == {f \in Field : one.offer[f] \notin {None, one.read.identity[f]}}
Patched(one) == [f \in Field |-> IF f \in Patch(one) THEN one.offer[f] ELSE row.identity[f]]

\* Nothing to write if the watermark is fresh and no field differs.
Decide(p) ==
  /\ poll[p].pc = "decide"
  /\ LET seen == poll[p].read.seen IN
     IF Anomalous(seen, now) \/ Stale(seen, now) \/ Patch(poll[p]) # {}
     THEN /\ poll' = [poll EXCEPT ![p].pc = "write", ![p].at = now]
          /\ UNCHANGED <<now, row, heard, pollutions>>
     ELSE row' = row /\ Acknowledge(p, now)

\* Mutant: the repair does not ask whether the watermark is the one it saw.
RepairAdmits_Blind(p) == TRUE
RepairAdmits(p) == row.seen = poll[p].read.seen

Exhausted(p) == /\ poll' = [poll EXCEPT ![p] = NoPoll]
                /\ UNCHANGED <<now, row, heard, pollutions>>

\* A watermark too far ahead is repaired by compare-and-set, any other raised.
\* A lost repair is decided again, three times in all.
Write(p) ==
  /\ poll[p].pc = "write"
  /\ LET one == poll[p] IN
     IF ~Anomalous(one.read.seen, one.at)
     THEN /\ row' = [row EXCEPT !.seen = Newest(@, one.at), !.identity = Patched(one)]
          /\ Acknowledge(p, one.at)
     ELSE \/ /\ RepairAdmits(p)
             /\ row' = [row EXCEPT !.seen = one.at, !.identity = Patched(one)]
             /\ Acknowledge(p, one.at)
          \/ /\ ~RepairAdmits(p) /\ one.attempt + 1 < MaxAttempts
             /\ poll' = [poll EXCEPT ![p] = [one EXCEPT !.pc = "read", !.attempt = @ + 1]]
             /\ UNCHANGED <<now, row, heard, pollutions>>
          \/ ~RepairAdmits(p) /\ one.attempt + 1 = MaxAttempts /\ Exhausted(p)

Next ==
  \/ Tick \/ Pollute \/ Revoke
  \/ \E p \in Poll : Arrive(p) \/ Read(p) \/ Decide(p) \/ Write(p)

-------------------------------------------------------------------------------
\* An acknowledged contact counts as a sign of life: its stamp is not taken back
\* past the refresh interval nor left so far ahead that presence and the sweep
\* distrust it, and each field it sent was on the row while the poll ran.
ContactCounts ==
  /\ heard # None => row.seen # None /\ row.seen > heard - Refresh /\ row.seen - now <= Slack
  /\ \A p \in Poll : poll[p].pc = "acknowledged" => poll[p].missing = {}

\* A watermark within the legal domain never moves back; one that a write in
\* flight saw beyond it may.
KeepsContact ==
  /\ ContactCounts'
  /\ row.seen # None /\ row.seen - now <= Slack - MaxFlight /\ row'.seen # row.seen => row'.seen > row.seen

\* Polls that race to repair a polluted watermark or to raise it leave what they
\* acknowledged: every contact counts, and the watermark does not move back.
ContactIsKept == [][KeepsContact]_contactVars
===============================================================================
