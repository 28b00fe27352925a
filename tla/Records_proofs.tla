--------------------------------- MODULE Records_proofs ---------------------------------
(***************************************************************************)
(* Theorems about the parts that keep, show or only compute something, of  *)
(* their composition in Parts: the contact of a machine, the binding of a  *)
(* run, the blob store, what is shown of artifacts, logins; and the rules, *)
(* for the latest occurrence, manifests, roots, output past its cap, texts *)
(* and states.  As in Processes_proofs each inductive invariant is one of  *)
(* its part alone.                                                         *)
(***************************************************************************)
EXTENDS Parts, WellFoundedInduction, FiniteSetTheorems, FunctionTheorems, SequenceTheorems, TLAPS

--------------------------------------------------------------------------------
(***************************************************************************)
(* Sets of numbers.                                                        *)
(***************************************************************************)
\* The order of the naturals is well-founded.
LEMMA LeastExists ==
  ASSUME NEW S \in SUBSET Nat, S # {}
  PROVE  \E k \in S : \A j \in S : k <= j
<1>1. PICK k \in S : \A j \in S : <<j, k>> \notin OpToRel(<, Nat)
  BY NatLessThanWellFounded, WFMin
<1>2. \A j \in S : ~(j < k) BY <1>1 DEF OpToRel
<1>3. QED BY <1>2

--------------------------------------------------------------------------------
(***************************************************************************)
(* The contact of a machine.                                               *)
(***************************************************************************)
RowState == [seen : Nat \cup {None}, identity : [Field -> FieldValue], eligible : BOOLEAN]
PollState ==
  [pc : {"idle", "read", "decide", "write", "acknowledged"}, offer : [Field -> FieldValue],
   read : RowState \cup {None}, readAt : Nat, at : Nat, attempt : Nat, missing : SUBSET Field, tainted : BOOLEAN]

\* How the watermark got from what a poll read of it to s: it is as it was, or a
\* poll that read the row not long before stamped it since.
Explained(one, s, t) ==
  \/ s = one.read.seen
  \/ /\ s # None /\ s <= t
     /\ s >= one.readAt - MaxFlight \/ (one.read.seen # None /\ s > one.read.seen)

\* A field that is missing was sent.  A poll that has read the row decides on it
\* soon, misses what it did not read, and knows the watermark unless another
\* server stamped it meanwhile.
FlightIsTrue(one, s, t) ==
  /\ \A f \in one.missing : one.offer[f] # None
  /\ one.pc \in {"decide", "write"} =>
       /\ one.read \in RowState /\ one.readAt <= t /\ t - one.readAt <= MaxFlight
       /\ one.pc = "write" => one.readAt <= one.at /\ one.at <= t
       /\ \A f \in one.missing : one.read.identity[f] # one.offer[f]
       /\ ~one.tainted => Explained(one, s, t)

ContactInv ==
  /\ now \in Nat /\ row \in RowState /\ heard \in Nat \cup {None} /\ poll \in [Poll -> PollState]
  /\ heard # None => heard <= now
  /\ Contact!ContactCounts
  /\ \A p \in Poll : FlightIsTrue(poll[p], row.seen, now)

\* A watermark that stays, or that is stamped now by a poll in flight.
Stamped == \/ row'.seen = row.seen
           \/ row'.seen \in Nat /\ row'.seen <= now /\ row'.seen >= now - MaxFlight

LEMMA FlightStaysTrue ==
  ASSUME ContactInv, Stamped, NEW one \in PollState, FlightIsTrue(one, row.seen, now)
  PROVE  FlightIsTrue(one, row'.seen, now)
BY ContactAssumption DEF ContactInv, Stamped, FlightIsTrue, Explained, PollState, RowState

LEMMA IdleIsTrue ==
  /\ Contact!Nothing \in [Field -> FieldValue]
  /\ Contact!NoPoll \in PollState /\ Contact!NoPoll.pc = "idle" /\ Contact!NoPoll.missing = {}
  /\ \A s, t : FlightIsTrue(Contact!NoPoll, s, t)
<1>1. Contact!Nothing \in [Field -> FieldValue] BY DEF Contact!Nothing, FieldValue
<1>2. Contact!NoPoll \in PollState /\ Contact!NoPoll.pc = "idle" /\ Contact!NoPoll.missing = {}
  BY <1>1 DEF Contact!NoPoll, PollState
<1>3. QED BY <1>1, <1>2 DEF FlightIsTrue

LEMMA ContactInit == Contact!Init => ContactInv
<1> SUFFICES ASSUME Contact!Init PROVE ContactInv
    OBVIOUS
<1>1. \A p \in Poll : poll[p] = Contact!NoPoll
  BY DEF Contact!Init
<1>2. row \in RowState
  <2>1. CASE row = [seen |-> None, identity |-> Contact!Nothing, eligible |-> TRUE]
    BY <2>1, IdleIsTrue DEF RowState
  <2>2. ASSUME NEW i \in Identity, row = [seen |-> 0, identity |-> i, eligible |-> TRUE] PROVE row \in RowState
    BY <2>2, ContactAssumption DEF RowState
  <2>3. QED BY <2>1, <2>2 DEF Contact!Init
<1>3. now \in Nat /\ heard = None /\ poll \in [Poll -> PollState]
  BY IdleIsTrue DEF Contact!Init
<1>4. QED
  BY <1>1, <1>2, <1>3, IdleIsTrue DEF ContactInv, Contact!ContactCounts

\* A step that gives one poll a new state and changes nothing else.
LEMMA PollKeeps ==
  ASSUME ContactInv, NEW p \in Poll, NEW one \in PollState, poll' = [poll EXCEPT ![p] = one],
         one.pc = "acknowledged" => one.missing = {}, FlightIsTrue(one, row.seen, now),
         UNCHANGED <<now, row, heard>>
  PROVE  ContactInv' /\ Contact!KeepsContact
<1>1. poll' \in [Poll -> PollState] /\ \A q \in Poll : poll'[q] = IF q = p THEN one ELSE poll[q]
  BY DEF ContactInv
<1>2. ContactInv'
  BY <1>1 DEF ContactInv, Contact!ContactCounts
<1>3. QED BY <1>2 DEF ContactInv, Contact!KeepsContact

\* What an acknowledgement leaves of the other polls.
SamePoll(one, two) ==
  /\ two \in PollState /\ two.pc = one.pc /\ two.offer = one.offer /\ two.read = one.read
  /\ two.readAt = one.readAt /\ two.at = one.at /\ two.tainted = one.tainted
  /\ two.missing \subseteq one.missing

\* An acknowledgement, with or without a stamp, of a poll in flight.
LEMMA AcknowledgeKeeps ==
  ASSUME ContactInv, NEW p \in Poll, NEW t \in Nat, Contact!Acknowledge(p, t),
         t <= now, row' \in RowState, Stamped, Contact!Unshown(poll[p], row'.identity) = {},
         ~poll[p].tainted => row'.seen # None /\ row'.seen > t - Refresh /\ row'.seen - now <= Slack
  PROVE  ContactInv'
<1> USE ContactAssumption
<1>1. now' = now /\ heard' = IF poll[p].tainted THEN heard ELSE Contact!Newest(heard, t)
  BY DEF Contact!Acknowledge
<1>2. \A q \in Poll : poll[q] \in PollState
  BY DEF ContactInv
<1>3. \A q \in Poll \ {p} : SamePoll(poll[q], poll'[q])
  <2> SUFFICES ASSUME NEW q \in Poll \ {p} PROVE SamePoll(poll[q], poll'[q])
      OBVIOUS
  <2> DEFINE left == Contact!Unshown(poll[q], row'.identity)
  <2>1. poll'[q] = [poll[q] EXCEPT !.missing = left]
    BY DEF Contact!Acknowledge
  <2>2. left \subseteq poll[q].missing BY DEF Contact!Unshown
  <2> HIDE DEF left
  <2>3. QED BY <1>2, <2>1, <2>2 DEF PollState, SamePoll
<1>4. /\ poll'[p] \in PollState /\ poll'[p].pc = "acknowledged" /\ poll'[p].missing = {}
      /\ \A s, u : FlightIsTrue(poll'[p], s, u)
  <2>1. poll'[p] = [[Contact!NoPoll EXCEPT !.pc = "acknowledged"] EXCEPT !.missing = {}]
    BY DEF Contact!Acknowledge
  <2>2. poll'[p] \in PollState /\ poll'[p].pc = "acknowledged" /\ poll'[p].missing = {}
    BY <2>1, IdleIsTrue DEF PollState
  <2>3. QED BY <2>2 DEF FlightIsTrue
<1>5. poll' \in [Poll -> PollState]
  <2>1. DOMAIN poll' = Poll /\ poll' = [q \in Poll |-> poll'[q]] BY DEF Contact!Acknowledge
  <2>2. QED BY <2>1, <1>3, <1>4 DEF SamePoll
<1>6. \A q \in Poll : FlightIsTrue(poll'[q], row'.seen, now')
  <2> SUFFICES ASSUME NEW q \in Poll \ {p} PROVE FlightIsTrue(poll'[q], row'.seen, now')
      BY <1>4
  <2>1. FlightIsTrue(poll[q], row'.seen, now)
    BY <1>2, FlightStaysTrue DEF ContactInv
  <2>2. QED BY <1>1, <1>3, <2>1 DEF SamePoll, FlightIsTrue, Explained
<1>7. heard' \in Nat \cup {None} /\ (heard' # None => heard' <= now)
  BY <1>1 DEF ContactInv, Contact!Newest
<1>8. Contact!ContactCounts'
  <2>1. \A q \in Poll : poll'[q].pc = "acknowledged" => poll'[q].missing = {}
    <3>1. \A q \in Poll \ {p} : poll'[q].pc = "acknowledged" => poll'[q].missing = {}
      BY <1>3 DEF ContactInv, Contact!ContactCounts, SamePoll
    <3>2. QED BY <1>4, <3>1
  <2>2. heard # None => row'.seen # None /\ row'.seen > heard - Refresh /\ row'.seen - now <= Slack
    BY DEF ContactInv, Contact!ContactCounts, Stamped, RowState
  <2>3. heard' # None => row'.seen # None /\ row'.seen > heard' - Refresh /\ row'.seen - now <= Slack
    BY <1>1, <2>2 DEF ContactInv, Contact!Newest
  <2>4. QED BY <1>1, <2>1, <2>3 DEF Contact!ContactCounts
<1>9. QED BY <1>1, <1>5, <1>6, <1>7, <1>8 DEF ContactInv

LEMMA ContactReadKeeps ==
  ASSUME ContactInv, NEW p \in Poll, Contact!Read(p)
  PROVE  ContactInv' /\ Contact!KeepsContact
<1> USE ContactAssumption
<1> DEFINE left == Contact!Unshown(poll[p], row.identity)
           one == [poll[p] EXCEPT !.pc = "decide", !.read = row, !.readAt = now, !.tainted = FALSE, !.missing = left]
<1>1. /\ poll[p] \in PollState /\ row \in RowState /\ now \in Nat /\ UNCHANGED <<now, row, heard, pollutions>>
      /\ FlightIsTrue(poll[p], row.seen, now)
  BY DEF ContactInv, Contact!Read
<1>2. CASE poll[p].attempt = 0 /\ ~row.eligible
  <2>1. poll' = [poll EXCEPT ![p] = Contact!NoPoll]
    BY <1>2 DEF Contact!Read
  <2>2. QED BY <1>1, <2>1, IdleIsTrue, PollKeeps
<1>3. CASE ~(poll[p].attempt = 0 /\ ~row.eligible)
  <2>1. poll' = [poll EXCEPT ![p] = one]
    BY <1>1, <1>3 DEF Contact!Read, ContactInv
  <2>2. left \in SUBSET Field /\ left \subseteq poll[p].missing /\ \A f \in left : row.identity[f] # poll[p].offer[f]
    BY <1>1 DEF Contact!Unshown, PollState
  <2> HIDE DEF left
  <2>3. /\ one \in PollState /\ one.pc = "decide" /\ one.read = row /\ one.readAt = now
        /\ one.offer = poll[p].offer /\ one.missing = left
    BY <1>1, <2>2 DEF PollState
  <2>4. FlightIsTrue(one, row.seen, now)
    BY <1>1, <2>2, <2>3 DEF FlightIsTrue, Explained
  <2>5. QED BY <1>1, <2>1, <2>3, <2>4, PollKeeps
<1>4. QED BY <1>2, <1>3

\* The fields a poll misses are among those it writes.
LEMMA MissingIsPatched ==
  ASSUME NEW one \in PollState, NEW s, NEW t, FlightIsTrue(one, s, t), one.pc \in {"decide", "write"}
  PROVE  one.missing \subseteq Contact!Patch(one)
BY DEF FlightIsTrue, Contact!Patch, PollState

LEMMA DecideKeeps ==
  ASSUME ContactInv, NEW p \in Poll, Contact!Decide(p)
  PROVE  ContactInv' /\ Contact!KeepsContact
<1> USE ContactAssumption
<1> DEFINE one == [poll[p] EXCEPT !.pc = "write", !.at = now]
           old == poll[p].read.seen
<1>1. /\ poll[p] \in PollState /\ poll[p].pc = "decide" /\ now \in Nat /\ row \in RowState
      /\ FlightIsTrue(poll[p], row.seen, now) /\ poll[p].read \in RowState
  BY DEF ContactInv, Contact!Decide, FlightIsTrue
<1>2. CASE Contact!Anomalous(old, now) \/ Contact!Stale(old, now) \/ Contact!Patch(poll[p]) # {}
  <2>1. poll' = [poll EXCEPT ![p] = one] /\ UNCHANGED <<now, row, heard>>
    BY <1>1, <1>2 DEF Contact!Decide, ContactInv, PollState
  <2>2. /\ one \in PollState /\ one.pc = "write" /\ one.read = poll[p].read /\ one.readAt = poll[p].readAt
        /\ one.at = now /\ one.offer = poll[p].offer /\ one.missing = poll[p].missing
        /\ one.tainted = poll[p].tainted
    BY <1>1 DEF PollState
  <2>3. FlightIsTrue(one, row.seen, now)
    BY <1>1, <2>2 DEF FlightIsTrue, Explained
  <2>4. QED BY <2>1, <2>2, <2>3, PollKeeps
<1>3. CASE ~(Contact!Anomalous(old, now) \/ Contact!Stale(old, now) \/ Contact!Patch(poll[p]) # {})
  <2>1. row' = row /\ Contact!Acknowledge(p, now)
    BY <1>1, <1>3 DEF Contact!Decide
  <2>2. old \in Nat /\ old - now <= Slack /\ now - old < Refresh
    BY <1>1, <1>3 DEF Contact!Anomalous, Contact!Stale, RowState
  <2>3. ~poll[p].tainted => row.seen # None /\ row.seen > now - Refresh /\ row.seen - now <= Slack
    BY <1>1, <2>2 DEF FlightIsTrue, Explained, RowState, PollState
  <2>4. Stamped BY <2>1 DEF Stamped
  <2>5. Contact!Unshown(poll[p], row'.identity) = {}
    <3>1. poll[p].missing = {} BY <1>1, <1>3, MissingIsPatched
    <3>2. QED BY <3>1 DEF Contact!Unshown
  <2>6. ContactInv'
    BY <1>1, <2>1, <2>3, <2>4, <2>5, AcknowledgeKeeps
  <2>7. QED BY <2>1, <2>6 DEF ContactInv, Contact!KeepsContact
<1>4. QED BY <1>2, <1>3

LEMMA WriteKeeps ==
  ASSUME ContactInv, NEW p \in Poll, Contact!Write(p)
  PROVE  ContactInv' /\ Contact!KeepsContact
<1> USE ContactAssumption
<1> DEFINE one == poll[p]
           t == poll[p].at
<1>1. /\ one \in PollState /\ one.pc = "write" /\ now \in Nat /\ row \in RowState
      /\ FlightIsTrue(one, row.seen, now) /\ one.read \in RowState
  BY DEF ContactInv, Contact!Write, FlightIsTrue
<1>2. t \in Nat /\ t <= now /\ t >= now - MaxFlight
  BY <1>1 DEF FlightIsTrue, PollState
<1> DEFINE patched == Contact!Patched(one)
<1>3. patched \in [Field -> FieldValue] /\ Contact!Unshown(one, patched) = {}
  <2>1. patched \in [Field -> FieldValue]
    BY <1>1 DEF Contact!Patched, RowState, PollState
  <2>2. \A f \in one.missing : patched[f] = one.offer[f]
    BY <1>1, MissingIsPatched DEF Contact!Patched, PollState
  <2>3. QED BY <2>1, <2>2 DEF Contact!Unshown
<1> HIDE DEF patched
<1>4. CASE ~Contact!Anomalous(one.read.seen, t)
  <2>1. row' = [row EXCEPT !.seen = Contact!Newest(@, t), !.identity = patched] /\ Contact!Acknowledge(p, t)
    BY <1>4 DEF Contact!Write, patched
  <2>2. /\ row' \in RowState /\ row'.identity = patched
        /\ row'.seen = Contact!Newest(row.seen, t)
    BY <1>1, <1>2, <1>3, <2>1 DEF RowState, Contact!Newest
  <2>3. Stamped /\ row'.seen \in Nat /\ row'.seen >= t /\ row'.seen \in {row.seen, t}
    BY <1>1, <1>2, <2>2 DEF Stamped, Contact!Newest, RowState
  <2>4. ~one.tainted => row'.seen - now <= Slack
    BY <1>1, <1>2, <1>4, <2>3 DEF FlightIsTrue, Explained, Contact!Anomalous, RowState, PollState
  <2>5. row'.seen > t - Refresh
    BY <1>2, <2>3
  <2>6. ContactInv'
    BY <1>2, <1>3, <2>1, <2>2, <2>3, <2>4, <2>5, AcknowledgeKeeps
  <2>7. row.seen # None /\ row'.seen # row.seen => row'.seen > row.seen
    BY <1>1, <1>2, <2>2 DEF Contact!Newest, RowState
  <2>8. QED BY <2>6, <2>7 DEF ContactInv, Contact!KeepsContact
<1>5. CASE Contact!Anomalous(one.read.seen, t) /\ Contact!RepairAdmits(p) /\ Contact!Acknowledge(p, t)
           /\ row' = [row EXCEPT !.seen = t, !.identity = patched]
  <2>1. row' \in RowState /\ row'.identity = patched /\ row'.seen = t
    BY <1>1, <1>2, <1>5, <1>3 DEF RowState
  <2>2. t > t - Refresh /\ t - now <= Slack /\ t # None
    BY <1>1, <1>2
  <2>3. Stamped
    BY <1>2, <2>1 DEF Stamped
  <2>4. ContactInv'
    BY <1>2, <1>5, <1>3, <2>1, <2>2, <2>3, AcknowledgeKeeps
  <2>5. row.seen # None /\ row.seen - now > Slack - MaxFlight
    BY <1>1, <1>2, <1>5 DEF Contact!RepairAdmits, Contact!Anomalous, RowState
  <2>6. QED BY <1>1, <2>4, <2>5 DEF ContactInv, Contact!KeepsContact, RowState
<1>6. CASE poll' = [poll EXCEPT ![p] = [one EXCEPT !.pc = "read", !.attempt = @ + 1]]
           /\ UNCHANGED <<now, row, heard, pollutions>>
  <2> DEFINE two == [one EXCEPT !.pc = "read", !.attempt = @ + 1]
  <2>1. one.attempt + 1 \in Nat
    BY <1>1 DEF PollState
  <2>2. two \in PollState /\ two.pc = "read" /\ two.missing = one.missing /\ two.offer = one.offer
    BY <1>1, <2>1 DEF PollState
  <2>3. FlightIsTrue(two, row.seen, now) BY <1>1, <2>2 DEF FlightIsTrue
  <2>4. QED BY <1>6, <2>2, <2>3, PollKeeps
<1>7. CASE Contact!Exhausted(p)
  BY <1>7, IdleIsTrue, PollKeeps DEF Contact!Exhausted
<1>8. QED
  BY <1>4, <1>5, <1>6, <1>7 DEF Contact!Write, patched

LEMMA ContactStep ==
  ASSUME ContactInv, Contact!Next \/ UNCHANGED contactVars
  PROVE  ContactInv' /\ (Contact!KeepsContact \/ UNCHANGED contactVars)
<1> USE ContactAssumption
<1>1. CASE Contact!Tick
  <2>1. /\ now' = now + 1 /\ UNCHANGED <<row, poll, heard>>
        /\ \A p \in Poll : poll[p].pc \in {"decide", "write"} => now - poll[p].readAt < MaxFlight
    BY <1>1 DEF Contact!Tick, Contact!InFlight
  <2>2. \A p \in Poll : FlightIsTrue(poll[p], row.seen, now')
    BY <2>1 DEF ContactInv, FlightIsTrue, Explained, PollState, RowState
  <2>3. ContactInv'
    BY <2>1, <2>2 DEF ContactInv, Contact!ContactCounts, RowState
  <2>4. QED BY <2>1, <2>3 DEF ContactInv, Contact!KeepsContact
<1>2. CASE Contact!Pollute
  <2>1. PICK ahead \in {Slack, Slack + 2} : row' = [row EXCEPT !.seen = now + ahead]
    BY <1>2 DEF Contact!Pollute
  <2>2. /\ heard' = None /\ now' = now
        /\ poll' = [p \in Poll |-> [poll[p] EXCEPT !.tainted = p \in Contact!InFlight]]
    BY <1>2 DEF Contact!Pollute
  <2>3. row' \in RowState /\ row'.seen = now + ahead
    BY <2>1 DEF ContactInv, RowState
  <2>4. ASSUME NEW p \in Poll
        PROVE  /\ poll'[p] \in PollState /\ FlightIsTrue(poll'[p], row'.seen, now)
               /\ poll'[p].pc = "acknowledged" => poll'[p].missing = {}
    <3> DEFINE tainted == p \in Contact!InFlight
    <3>1. tainted \in BOOLEAN /\ poll[p] \in PollState /\ (poll[p].pc \in {"decide", "write"} => tainted)
      BY <2>4 DEF ContactInv, Contact!InFlight
    <3>2. poll'[p] = [poll[p] EXCEPT !.tainted = tainted]
      BY <2>2, <2>4
    <3> HIDE DEF tainted
    <3>3. /\ poll'[p] \in PollState /\ poll'[p].pc = poll[p].pc /\ poll'[p].offer = poll[p].offer
          /\ poll'[p].read = poll[p].read /\ poll'[p].readAt = poll[p].readAt /\ poll'[p].at = poll[p].at
          /\ poll'[p].missing = poll[p].missing /\ poll'[p].tainted = tainted
      BY <3>1, <3>2 DEF PollState
    <3>4. QED BY <3>1, <3>3, <2>4 DEF ContactInv, Contact!ContactCounts, FlightIsTrue
  <2>5. poll' \in [Poll -> PollState]
    BY <2>2, <2>4
  <2>6. ContactInv'
    BY <2>2, <2>3, <2>4, <2>5 DEF ContactInv, Contact!ContactCounts
  <2>7. row.seen # None /\ row.seen - now <= Slack - MaxFlight /\ row'.seen # row.seen => row'.seen > row.seen
    BY <2>3 DEF ContactInv, RowState
  <2>8. QED BY <2>6, <2>7 DEF ContactInv, Contact!KeepsContact
<1>3. CASE Contact!Revoke
  <2>1. row' \in RowState /\ row'.seen = row.seen /\ UNCHANGED <<now, poll, heard>>
    BY <1>3 DEF Contact!Revoke, ContactInv, RowState
  <2>2. ContactInv'
    BY <2>1 DEF ContactInv, Contact!ContactCounts
  <2>3. QED BY <2>1, <2>2 DEF ContactInv, Contact!KeepsContact
<1>4. ASSUME NEW p \in Poll, Contact!Arrive(p)
      PROVE  ContactInv' /\ Contact!KeepsContact
  <2>1. PICK i \in Identity :
          /\ poll' = [poll EXCEPT ![p] = [Contact!NoPoll EXCEPT !.pc = "read", !.offer = i,
                                                               !.missing = {f \in Field : i[f] # None}]]
          /\ UNCHANGED <<now, row, heard>>
    BY <1>4 DEF Contact!Arrive
  <2> DEFINE sent == {f \in Field : i[f] # None}
             one == [Contact!NoPoll EXCEPT !.pc = "read", !.offer = i, !.missing = sent]
  <2>2. sent \in SUBSET Field /\ i \in [Field -> FieldValue] OBVIOUS
  <2>3. one \in PollState /\ one.pc = "read" /\ one.offer = i /\ one.missing = sent
    BY <2>2, IdleIsTrue DEF PollState
  <2>4. FlightIsTrue(one, row.seen, now) BY <2>3 DEF FlightIsTrue
  <2>5. QED BY <2>1, <2>3, <2>4, PollKeeps
<1>5. CASE UNCHANGED contactVars
  BY <1>5 DEF contactVars, ContactInv, Contact!ContactCounts
<1>6. QED
  BY <1>1, <1>2, <1>3, <1>4, <1>5, ContactReadKeeps, DecideKeeps, WriteKeeps DEF Contact!Next

\* Every contact a poll acknowledged counts, and no watermark moves back unless it
\* was too far ahead (store/machines.ts).
THEOREM ContactSafety == Spec => ContactIsKept
<1>1. Init => ContactInv
  BY ContactInit DEF Init
<1>2. ContactInv /\ [Next]_partVars => ContactInv' /\ [Contact!KeepsContact]_contactVars
  <2>1. [Next]_partVars => Contact!Next \/ UNCHANGED contactVars
    BY DEF Next, Only, partVars
  <2>2. QED BY <2>1, ContactStep
<1>3. QED
  BY <1>1, <1>2, PTL DEF Spec, ContactIsKept, Contact!ContactIsKept, contactVars, Contact!contactVars

--------------------------------------------------------------------------------
(***************************************************************************)
(* The binding of a snapshot to its run.                                   *)
(***************************************************************************)
SyncError == {None, "ambiguous", "reported", "not_committed", "foreign", "stale"}
ReportState ==
  [pc : {"idle", "read", "plan", "bind", "ending", "answered"}, snapshot : Manifest \cup {None},
   error : {"absent", "blank", "text"}, tries : Nat, phase : {"running", "error", "canceled", "done", None},
   lease : {"active", "grace", None}, generation : Nat,
   writes : [snapshot : Manifest \cup {None}, error : SyncError] \cup {None}]
BindingTypes ==
  /\ generation \in Nat \ {0} /\ committed \in [Manifest -> Nat] /\ bound \in Nat
  /\ run \in [phase : {"running", "error", "canceled", "done"}, snapshot : Manifest \cup {None}, error : SyncError]
  /\ lease \in {"active", "grace", None}
  /\ report \in [Report -> ReportState]

\* What a plan may bind: a committed manifest of the loop's own.
Bindable(m) == m \in Manifest \ ForeignManifest /\ committed[m] # 0

\* A request that has planned knows a lease; its plan is of the generation it read,
\* and once it has locked the loop, of the one that is current.
PlanIsSound(one) ==
  /\ one.pc \in {"plan", "bind", "ending"} => one.lease \in {"active", "grace"}
  /\ one.pc \in {"bind", "ending"} =>
       /\ one.writes \in [snapshot : Manifest \cup {None}, error : SyncError]
       /\ one.writes.snapshot # None =>
            /\ Bindable(one.writes.snapshot) /\ one.writes.error = None
            /\ committed[one.writes.snapshot] = IF one.pc = "bind" THEN one.generation ELSE generation

\* The run has a lease while it runs or may still be heard, and nothing bound then.
RunIsBound ==
  /\ lease = "active" <=> run.phase = "running"
  /\ lease = "grace" => run.phase = "error"
  /\ lease # None \/ run.phase = "canceled" => run.snapshot = None /\ run.error = None
  /\ run.snapshot # None => Bindable(run.snapshot) /\ committed[run.snapshot] = bound /\ run.error = None

BindingInv == BindingTypes /\ RunIsBound /\ \A r \in Report : PlanIsSound(report[r])

LEMMA BindingInit == Binding!Init => BindingInv
<1> SUFFICES ASSUME Binding!Init PROVE BindingInv
    OBVIOUS
<1>1. BindingTypes
  BY DEF Binding!Init, BindingTypes, Binding!NoReport, ReportState, SyncError
<1>2. RunIsBound
  BY BindingAssumption DEF Binding!Init, RunIsBound
<1>3. \A r \in Report : PlanIsSound(report[r])
  BY DEF Binding!Init, PlanIsSound, Binding!NoReport
<1>4. QED BY <1>1, <1>2, <1>3 DEF BindingInv

\* A step that gives one request a new state and changes nothing else.
LEMMA BindingRequest ==
  ASSUME BindingInv, NEW r \in Report, NEW one \in ReportState, PlanIsSound(one),
         report' = [report EXCEPT ![r] = one], UNCHANGED <<generation, committed, run, lease, bound>>
  PROVE  BindingInv'
<1>1. report' \in [Report -> ReportState] /\ \A q \in Report : report'[q] = IF q = r THEN one ELSE report[q]
  BY DEF BindingInv, BindingTypes
<1>2. \A x : PlanIsSound(x)' <=> PlanIsSound(x)
  BY DEF PlanIsSound, Bindable
<1>3. \A q \in Report : PlanIsSound(report[q])'
  <2>1. \A q \in Report : PlanIsSound(report'[q])
    BY <1>1 DEF BindingInv
  <2>2. QED BY <2>1 DEF PlanIsSound, Bindable
<1>4. QED BY <1>1, <1>3 DEF BindingInv, BindingTypes, RunIsBound, Bindable

\* An answered request, and one that is tried again, has no plan.
LEMMA BindingAnswer ==
  ASSUME BindingInv, NEW r \in Report, Binding!Denied(r) \/ Binding!Again(r)
  PROVE  BindingInv'
<1>1. CASE Binding!Denied(r) \/ report' = Binding!Answer(r)
  <2> DEFINE one == [Binding!NoReport EXCEPT !.pc = "answered"]
  <2>1. one \in ReportState /\ PlanIsSound(one)
    BY DEF Binding!NoReport, ReportState, PlanIsSound
  <2>2. report' = [report EXCEPT ![r] = one] /\ UNCHANGED <<generation, committed, run, lease, bound>>
    BY <1>1 DEF Binding!Denied, Binding!Again, Binding!Answer
  <2>3. QED BY <2>1, <2>2, BindingRequest
<1>2. CASE Binding!Again(r) /\ report' # Binding!Answer(r)
  <2> DEFINE one == [Binding!NoReport EXCEPT !.pc = "read", !.tries = 1,
                                             !.snapshot = report[r].snapshot, !.error = report[r].error]
  <2>1. report[r] \in ReportState
    BY DEF BindingInv, BindingTypes
  <2>2. one \in ReportState /\ PlanIsSound(one)
    BY <2>1 DEF Binding!NoReport, ReportState, PlanIsSound
  <2>3. report' = [report EXCEPT ![r] = one] /\ UNCHANGED <<generation, committed, run, lease, bound>>
    BY <1>2 DEF Binding!Again
  <2>4. QED BY <2>2, <2>3, BindingRequest
<1>3. QED BY <1>1, <1>2

LEMMA BindingStep == BindingInv /\ (Binding!Next \/ UNCHANGED bindingVars) => BindingInv'
<1> SUFFICES ASSUME BindingInv, Binding!Next \/ UNCHANGED bindingVars
             PROVE  BindingInv'
    OBVIOUS
<1> USE BindingAssumption
<1>1. CASE Binding!Reconfigure
  <2>1. generation' = generation + 1 /\ UNCHANGED <<committed, run, lease, report, bound>>
        /\ \A r \in Report : report[r].pc = "ending" => report[r].writes.snapshot = None
    BY <1>1 DEF Binding!Reconfigure, Binding!LoopLocked
  <2>2. \A r \in Report : PlanIsSound(report[r])'
    BY <2>1 DEF BindingInv, PlanIsSound, Bindable
  <2>3. BindingTypes' BY <2>1 DEF BindingInv, BindingTypes
  <2>4. RunIsBound' BY <2>1 DEF BindingInv, RunIsBound, Bindable
  <2>5. QED BY <2>2, <2>3, <2>4 DEF BindingInv
<1>2. ASSUME NEW m \in Manifest, Binding!CommitManifest(m)
      PROVE  BindingInv'
  <2>1. committed[m] = 0 /\ committed' \in [Manifest -> Nat] /\ UNCHANGED <<generation, run, lease, report, bound>>
        /\ \A n \in Manifest : n # m => committed'[n] = committed[n]
    BY <1>2 DEF Binding!CommitManifest, BindingInv, BindingTypes
  <2>2. \A n : Bindable(n) => Bindable(n)' /\ committed'[n] = committed[n]
    BY <2>1 DEF Bindable
  <2>3. \A r \in Report : PlanIsSound(report[r])'
    BY <2>1, <2>2 DEF BindingInv, PlanIsSound
  <2>4. RunIsBound' BY <2>1, <2>2 DEF BindingInv, RunIsBound
  <2>5. QED BY <2>1, <2>3, <2>4 DEF BindingInv, BindingTypes
<1>3. CASE Binding!Sweep \/ Binding!Cancel \/ Binding!GraceEnds
  <2>1. UNCHANGED <<generation, committed, report, bound>>
    BY <1>3 DEF Binding!Sweep, Binding!Cancel, Binding!GraceEnds
  <2>2. \A r \in Report : PlanIsSound(report[r])'
    BY <2>1 DEF BindingInv, PlanIsSound, Bindable
  <2>3. BindingTypes'
    BY <1>3, <2>1 DEF BindingInv, BindingTypes, Binding!Sweep, Binding!Cancel, Binding!GraceEnds
  <2>4. RunIsBound'
    BY <1>3, <2>1 DEF BindingInv, BindingTypes, RunIsBound, Bindable, Binding!Sweep, Binding!Cancel, Binding!GraceEnds
  <2>5. QED BY <2>2, <2>3, <2>4 DEF BindingInv
<1>4. ASSUME NEW r \in Report, Binding!Arrive(r)
      PROVE  BindingInv'
  <2>1. PICK s \in Manifest \cup {None}, e \in {"absent", "blank", "text"} :
          /\ report' = [report EXCEPT ![r] = [Binding!NoReport EXCEPT !.pc = "read", !.snapshot = s, !.error = e]]
          /\ UNCHANGED <<generation, committed, run, lease, bound>>
    BY <1>4 DEF Binding!Arrive
  <2> DEFINE one == [Binding!NoReport EXCEPT !.pc = "read", !.snapshot = s, !.error = e]
  <2>2. one \in ReportState /\ PlanIsSound(one)
    BY DEF Binding!NoReport, ReportState, PlanIsSound
  <2>3. QED BY <2>1, <2>2, BindingRequest
<1>5. ASSUME NEW r \in Report, Binding!ReadState(r)
      PROVE  BindingInv'
  <2>1. CASE Binding!Denied(r)
    BY <2>1, BindingAnswer
  <2>2. CASE ~Binding!Denied(r)
    <3> DEFINE one == [report[r] EXCEPT !.pc = "plan", !.phase = run.phase, !.lease = lease, !.generation = generation]
    <3>1. /\ lease \in {"active", "grace"}
          /\ report' = [report EXCEPT ![r] = one] /\ UNCHANGED <<generation, committed, run, lease, bound>>
      BY <1>5, <2>2 DEF Binding!ReadState, BindingInv, BindingTypes
    <3>2. report[r] \in ReportState /\ run.phase \in {"running", "error", "canceled", "done", None} /\ generation \in Nat
      BY DEF BindingInv, BindingTypes
    <3>3. one \in ReportState /\ PlanIsSound(one)
      BY <3>1, <3>2 DEF ReportState, PlanIsSound
    <3>4. QED BY <3>1, <3>3, BindingRequest
  <2>3. QED BY <2>1, <2>2
<1>6. ASSUME NEW r \in Report, Binding!Plan(r)
      PROVE  BindingInv'
  <2> DEFINE plan == Binding!BindingPlan(report[r])
             one == [report[r] EXCEPT !.pc = "bind", !.writes = plan,
                                      !.generation = IF plan.snapshot = None THEN 0 ELSE @]
  <2>1. /\ report[r].pc = "plan" /\ report' = [report EXCEPT ![r] = one]
        /\ UNCHANGED <<generation, committed, run, lease, bound>>
    BY <1>6 DEF Binding!Plan
  <2>2. report[r] \in ReportState /\ report[r].lease \in {"active", "grace"}
    BY <2>1 DEF BindingInv, BindingTypes, PlanIsSound
  <2>3. /\ plan \in [snapshot : Manifest \cup {None}, error : SyncError]
        /\ plan.snapshot # None => /\ Bindable(plan.snapshot) /\ plan.error = None
                                   /\ committed[plan.snapshot] = report[r].generation
    BY <2>2 DEF Binding!BindingPlan, Binding!Nothing, ReportState, SyncError, Bindable
  <2> HIDE DEF plan
  <2>4. one \in ReportState
    BY <2>2, <2>3 DEF ReportState
  <2>5. /\ one.pc = "bind" /\ one.lease = report[r].lease /\ one.writes = plan
        /\ plan.snapshot # None => one.generation = report[r].generation
    BY <2>2 DEF ReportState
  <2>6. PlanIsSound(one)
    BY <2>2, <2>3, <2>5 DEF PlanIsSound
  <2>7. QED BY <2>1, <2>4, <2>6, BindingRequest
<1>7. ASSUME NEW r \in Report, Binding!Bind(r)
      PROVE  BindingInv'
  <2>1. CASE Binding!Again(r)
    BY <2>1, BindingAnswer
  <2>2. CASE ~Binding!Again(r)
    <3> DEFINE one == [report[r] EXCEPT !.pc = "ending", !.phase = None, !.generation = 0]
    <3>1. report[r] \in ReportState /\ PlanIsSound(report[r]) /\ report[r].pc = "bind"
      BY <1>7 DEF BindingInv, BindingTypes, Binding!Bind
    <3>2. /\ report[r].writes.snapshot # None => generation = report[r].generation
          /\ report' = [report EXCEPT ![r].pc = "ending", ![r].phase = None, ![r].generation = 0]
          /\ UNCHANGED <<generation, committed, run, lease, bound>>
      BY <1>7, <2>2 DEF Binding!Bind, Binding!GuardAdmits
    <3>3. report' = [report EXCEPT ![r] = one]
      BY <3>1, <3>2 DEF BindingInv, BindingTypes, ReportState
    <3>4. one \in ReportState /\ one.pc = "ending" /\ one.lease = report[r].lease /\ one.writes = report[r].writes
      BY <3>1 DEF ReportState
    <3>5. PlanIsSound(one)
      BY <3>1, <3>2, <3>4 DEF PlanIsSound
    <3>6. QED BY <3>2, <3>3, <3>4, <3>5, BindingRequest
  <2>3. QED BY <2>1, <2>2
<1>8. ASSUME NEW r \in Report, Binding!End(r)
      PROVE  BindingInv'
  <2>1. CASE Binding!Again(r)
    BY <2>1, BindingAnswer
  <2>2. CASE ~Binding!Again(r)
    <3> DEFINE w == report[r].writes
    <3>1. PICK phase \in {"done", "error"} : run' = [phase |-> phase, snapshot |-> w.snapshot, error |-> w.error]
      BY <1>8, <2>2 DEF Binding!End
    <3>2. /\ report[r].pc = "ending" /\ lease' = None /\ bound' = generation /\ report' = Binding!Answer(r)
          /\ UNCHANGED <<generation, committed>>
      BY <1>8, <2>2 DEF Binding!End
    <3>3. PlanIsSound(report[r]) /\ w \in [snapshot : Manifest \cup {None}, error : SyncError]
      BY <3>2 DEF BindingInv, PlanIsSound
    <3>4. w.snapshot # None => Bindable(w.snapshot) /\ w.error = None /\ committed[w.snapshot] = generation
      BY <3>2, <3>3 DEF PlanIsSound
    <3>5. [Binding!NoReport EXCEPT !.pc = "answered"] \in ReportState
          /\ PlanIsSound([Binding!NoReport EXCEPT !.pc = "answered"])
      BY DEF Binding!NoReport, ReportState, PlanIsSound
    <3>6. /\ report' \in [Report -> ReportState]
          /\ \A q \in Report : report'[q] \in {report[q], [Binding!NoReport EXCEPT !.pc = "answered"]}
      BY <3>2, <3>5 DEF Binding!Answer, BindingInv, BindingTypes
    <3>7. \A q \in Report : PlanIsSound(report'[q])
      BY <3>5, <3>6 DEF BindingInv
    <3>8. \A q \in Report : PlanIsSound(report[q])'
      BY <3>2, <3>7 DEF PlanIsSound, Bindable
    <3>9. BindingTypes'
      BY <3>1, <3>2, <3>3, <3>6 DEF BindingInv, BindingTypes
    <3>10. RunIsBound'
      BY <3>1, <3>2, <3>4 DEF RunIsBound, Bindable
    <3>11. QED BY <3>8, <3>9, <3>10 DEF BindingInv
  <2>3. QED BY <2>1, <2>2
<1>9. ASSUME NEW r \in Report, Binding!Abort(r)
      PROVE  BindingInv'
  BY <1>9, BindingAnswer DEF Binding!Abort
<1>10. CASE UNCHANGED bindingVars
  BY <1>10 DEF bindingVars, BindingInv, BindingTypes, RunIsBound, PlanIsSound, Bindable
<1>11. QED
  BY <1>1, <1>2, <1>3, <1>4, <1>5, <1>6, <1>7, <1>8, <1>9, <1>10 DEF Binding!Next

\* A run shows a snapshot only of its own loop, committed under the generation
\* that was current when its report committed, and none while it may still report
\* (binding-plan.ts, store/report.ts).
THEOREM BindingSafety == Spec => []SnapshotOfItsTime
<1>1. Init => BindingInv
  BY BindingInit DEF Init
<1>2. BindingInv /\ [Next]_partVars => BindingInv'
  <2>1. [Next]_partVars => Binding!Next \/ UNCHANGED bindingVars
    BY DEF Next, Only, partVars
  <2>2. QED BY <2>1, BindingStep
<1>3. BindingInv => SnapshotOfItsTime
  BY DEF BindingInv, RunIsBound, Bindable, SnapshotOfItsTime, Binding!SnapshotOfItsTime
<1>4. QED
  BY <1>1, <1>2, <1>3, PTL DEF Spec

--------------------------------------------------------------------------------
(***************************************************************************)
(* The local blob store.                                                   *)
(***************************************************************************)
Answered == {"idle", "failed", "published", "already_there"}

\* The writers that linked their file and have not crashed since.
Publishers == {w \in Writer : writer[w] \in {"tidy", "published"}}

\* The file of w is at the path or open.
Visible(w) == final = w \/ \E r \in Reader : reader[r].fd = w

BlobTypes ==
  /\ bytes \in [Writer -> {"none", "part", "whole"}] /\ temporary \subseteq Writer
  /\ final \in Writer \cup {"odd", None} /\ intrusions \in Nat
  /\ writer \in [Writer -> Answered \cup {"stream", "sync", "link", "tidy", "exists", "crashed"}]
  /\ reader \in [Reader -> [pc : {"idle", "open", "reading", "refused"}, fd : Writer \cup {None}]]

\* Whoever has verified its file has it whole, and what is visible was linked by
\* a writer past its verification.
BlobsInv ==
  /\ BlobTypes
  /\ \A w \in Writer : writer[w] \in {"sync", "link", "tidy", "published"} => bytes[w] = "whole"
  /\ \A w \in Writer : Visible(w) => bytes[w] = "whole" /\ writer[w] \in {"tidy", "published", "crashed"}
  /\ \A w \in temporary : writer[w] \notin Answered \cup {"exists"}
  /\ Cardinality(Publishers) <= intrusions + IF final = None THEN 0 ELSE 1

LEMMA PublishersAreFinite == IsFiniteSet(Publishers) /\ Cardinality(Publishers) \in Nat
<1>1. IsFiniteSet(Publishers) BY BlobsAssumption, FS_Subset DEF Publishers
<1>2. QED BY <1>1, FS_CardinalityType

LEMMA BlobsInit == Blobs!Init => BlobsInv
<1> SUFFICES ASSUME Blobs!Init PROVE BlobsInv
    OBVIOUS
<1>1. BlobTypes BY DEF Blobs!Init, BlobTypes, Answered
<1>2. \A w \in Writer : ~Visible(w) /\ writer[w] = "idle"
  BY BlobsAssumption DEF Blobs!Init, Visible
<1>3. Publishers = {} BY <1>2 DEF Publishers
<1>4. Cardinality(Publishers) = 0 BY <1>3, FS_EmptySet
<1>5. temporary = {} /\ intrusions = 0 BY DEF Blobs!Init
<1>6. QED BY <1>1, <1>2, <1>4, <1>5 DEF BlobsInv

\* The step of a writer that does not link: it neither is nor becomes visible, or
\* goes on from its link to its answer.
Goes(w, to, data) ==
  /\ Blobs!Goto(w, to) /\ data \in {"none", "part", "whole"} /\ bytes' = [bytes EXCEPT ![w] = data]
  /\ to \in Answered \cup {"stream", "sync", "link", "exists"}
  /\ to \in {"sync", "link", "published"} => data = "whole"
  /\ \/ writer[w] \in {"idle", "stream", "sync", "link", "exists"} /\ to # "published"
     \/ writer[w] = "tidy" /\ to = "published"
  /\ temporary' \subseteq temporary \cup {w}
  /\ to \in Answered \cup {"exists"} => w \notin temporary'
  /\ UNCHANGED <<final, reader, intrusions>>

LEMMA WriterGoes ==
  ASSUME BlobsInv, NEW w \in Writer, NEW to, NEW data, Goes(w, to, data)
  PROVE  BlobsInv'
<1> USE DEF Goes
<1>1. /\ writer'[w] = to /\ bytes'[w] = data
      /\ \A v \in Writer : v # w => writer'[v] = writer[v] /\ bytes'[v] = bytes[v]
  BY DEF BlobsInv, BlobTypes, Blobs!Goto
<1>2. BlobTypes'
  BY DEF BlobsInv, BlobTypes, Blobs!Goto
<1>3. \A v \in Writer : Visible(v)' <=> Visible(v)
  BY DEF Visible
<1>4. \A v \in Writer : Visible(v)' => bytes'[v] = "whole" /\ writer'[v] \in {"tidy", "published", "crashed"}
  BY <1>1, <1>3 DEF BlobsInv
<1>5. \A v \in Writer : writer'[v] \in {"sync", "link", "tidy", "published"} => bytes'[v] = "whole"
  BY <1>1 DEF BlobsInv, Answered
<1>6. \A v \in temporary' : writer'[v] \notin Answered \cup {"exists"}
  <2>1. \A v \in temporary : v \in Writer /\ writer[v] \notin Answered \cup {"exists"}
    BY DEF BlobsInv, BlobTypes
  <2>2. \A v \in temporary' : v = w \/ v \in temporary
    OBVIOUS
  <2>3. QED BY <1>1, <2>1, <2>2
<1>7. \A v \in Writer : writer'[v] \in {"tidy", "published"} => writer[v] \in {"tidy", "published"}
  BY <1>1 DEF Answered
<1>8. Publishers' \subseteq Publishers
  BY <1>7 DEF Publishers
<1>9. Cardinality(Publishers') <= Cardinality(Publishers)
  BY <1>8, PublishersAreFinite, FS_Subset
<1>10. Cardinality(Publishers') \in Nat
  BY <1>8, PublishersAreFinite, FS_Subset, FS_CardinalityType
<1>11. Cardinality(Publishers)' <= (intrusions + IF final = None THEN 0 ELSE 1)'
  BY <1>9, <1>10, PublishersAreFinite DEF BlobsInv, BlobTypes
<1>12. QED BY <1>2, <1>4, <1>5, <1>6, <1>11 DEF BlobsInv

\* Of a step of the readers only what they have open matters.
LEMMA ReaderGoes ==
  ASSUME BlobsInv, NEW r \in Reader,
         NEW one \in [pc : {"idle", "open", "reading", "refused"}, fd : Writer \cup {None}],
         one.fd \in {reader[r].fd, final, None}, reader' = [reader EXCEPT ![r] = one],
         UNCHANGED <<bytes, temporary, final, writer, intrusions>>
  PROVE  BlobsInv'
<1>1. /\ reader' \in [Reader -> [pc : {"idle", "open", "reading", "refused"}, fd : Writer \cup {None}]]
      /\ \A q \in Reader : reader'[q] = IF q = r THEN one ELSE reader[q]
  BY DEF BlobsInv, BlobTypes
<1>2. \A w \in Writer : Visible(w)' => Visible(w)
  BY <1>1, BlobsAssumption DEF Visible
<1>3. Publishers' = Publishers BY DEF Publishers
<1>4. QED BY <1>1, <1>2, <1>3 DEF BlobsInv, BlobTypes

LEMMA BlobsStep == BlobsInv /\ (Blobs!Next \/ UNCHANGED blobsVars) => BlobsInv'
<1> SUFFICES ASSUME BlobsInv, Blobs!Next \/ UNCHANGED blobsVars
             PROVE  BlobsInv'
    OBVIOUS
<1> USE BlobsAssumption
<1>1. ASSUME NEW w \in Writer, Blobs!OpenTemporary(w)
      PROVE  BlobsInv'
  <2>1. /\ writer[w] = "idle" /\ Blobs!Goto(w, "stream") /\ temporary' = temporary \cup {w}
        /\ bytes' = [bytes EXCEPT ![w] = "part"] /\ UNCHANGED <<final, reader, intrusions>>
    BY <1>1 DEF Blobs!OpenTemporary
  <2>2. temporary \subseteq Writer BY DEF BlobsInv, BlobTypes
  <2>3. "stream" \notin Answered BY DEF Answered
  <2>4. Goes(w, "stream", "part") BY <2>1, <2>2, <2>3 DEF Goes
  <2>5. QED BY <2>4, WriterGoes
<1>2. ASSUME NEW w \in Writer, Blobs!Verified(w)
      PROVE  BlobsInv'
  <2>1. /\ writer[w] = "stream" /\ Blobs!Goto(w, "sync") /\ temporary' = temporary
        /\ bytes' = [bytes EXCEPT ![w] = "whole"] /\ UNCHANGED <<final, reader, intrusions>>
    BY <1>2 DEF Blobs!Verified
  <2>2. temporary \subseteq Writer BY DEF BlobsInv, BlobTypes
  <2>3. "sync" \notin Answered BY DEF Answered
  <2>4. Goes(w, "sync", "whole") BY <2>1, <2>2, <2>3 DEF Goes
  <2>5. QED BY <2>4, WriterGoes
<1>3. ASSUME NEW w \in Writer, Blobs!Fail(w) \/ Blobs!Sync(w) \/ Blobs!Tidy(w) \/ Blobs!LstatExisting(w)
      PROVE  BlobsInv'
  <2>1. temporary \subseteq Writer /\ bytes' = bytes /\ bytes' = [bytes EXCEPT ![w] = bytes[w]]
        /\ bytes[w] \in {"none", "part", "whole"} /\ UNCHANGED <<final, reader, intrusions>>
    BY <1>3 DEF Blobs!Fail, Blobs!Sync, Blobs!Tidy, Blobs!LstatExisting, BlobsInv, BlobTypes
  <2>2. writer[w] \in {"sync", "tidy"} => bytes[w] = "whole"
    BY DEF BlobsInv
  <2>3. \E to \in Answered \cup {"link"} :
          /\ Blobs!Goto(w, to) /\ (to \in {"link", "published"} => bytes[w] = "whole")
          /\ \/ writer[w] \in {"idle", "stream", "sync", "link", "exists"} /\ to # "published"
             \/ writer[w] = "tidy" /\ to = "published" /\ bytes[w] = "whole"
          /\ temporary' \subseteq temporary /\ (to \in Answered => w \notin temporary')
    <3>1. CASE Blobs!Fail(w) BY <3>1 DEF Blobs!Fail, Answered
    <3>2. CASE Blobs!Sync(w) BY <3>2, <2>2 DEF Blobs!Sync, Answered
    <3>3. CASE Blobs!Tidy(w) BY <3>3, <2>2 DEF Blobs!Tidy, Answered
    <3>4. CASE Blobs!LstatExisting(w)
      <4>1. writer[w] = "exists" /\ w \notin temporary /\ UNCHANGED temporary
        BY <3>4 DEF Blobs!LstatExisting, BlobsInv
      <4>2. Blobs!Goto(w, "already_there") \/ Blobs!Goto(w, "failed")
        BY <3>4 DEF Blobs!LstatExisting
      <4>3. QED BY <4>1, <4>2 DEF Answered
    <3>5. QED BY <1>3, <3>1, <3>2, <3>3, <3>4
  <2>4. {"link", "exists"} \cap Answered = {} BY DEF Answered
  <2>5. PICK to \in Answered \cup {"link"} :
          /\ Blobs!Goto(w, to) /\ (to \in {"link", "published"} => bytes[w] = "whole")
          /\ \/ writer[w] \in {"idle", "stream", "sync", "link", "exists"} /\ to # "published"
             \/ writer[w] = "tidy" /\ to = "published" /\ bytes[w] = "whole"
          /\ temporary' \subseteq temporary /\ (to \in Answered => w \notin temporary')
    BY <2>3
  <2>6. to \in Answered \cup {"exists"} => w \notin temporary'
    BY <2>4, <2>5
  <2>7. to # "sync" BY <2>5 DEF Answered
  <2>8. Goes(w, to, bytes[w])
    BY <2>1, <2>5, <2>6, <2>7 DEF Goes
  <2>9. QED BY <2>8, WriterGoes
<1>4. ASSUME NEW w \in Writer, Blobs!Publish(w)
      PROVE  BlobsInv'
  <2>1. writer[w] = "link" /\ bytes[w] = "whole" /\ w \in Writer /\ UNCHANGED <<bytes, reader, intrusions>>
    BY <1>4 DEF Blobs!Publish, BlobsInv
  <2>2. CASE ~Blobs!Free
    <3>1. Blobs!Goto(w, "exists") /\ temporary' = temporary \ {w} /\ UNCHANGED final
      BY <1>4, <2>2 DEF Blobs!Publish
    <3>2. temporary' \subseteq Writer /\ bytes' = [bytes EXCEPT ![w] = bytes[w]] /\ bytes[w] \in {"none", "part", "whole"}
      BY <2>1, <3>1 DEF BlobsInv, BlobTypes
    <3>3. "exists" \notin Answered BY DEF Answered
    <3>4. Goes(w, "exists", bytes[w]) BY <2>1, <3>1, <3>2, <3>3 DEF Goes
    <3>5. QED BY <3>4, WriterGoes
  <2>3. CASE Blobs!Free
    <3>1. final = None /\ final' = w /\ Blobs!Goto(w, "tidy") /\ UNCHANGED temporary
      BY <1>4, <2>3 DEF Blobs!Publish, Blobs!Free
    <3>2. writer'[w] = "tidy" /\ \A v \in Writer : v # w => writer'[v] = writer[v]
      BY <3>1 DEF BlobsInv, BlobTypes, Blobs!Goto
    <3>3. BlobTypes'
      BY <2>1, <3>1 DEF BlobsInv, BlobTypes, Blobs!Goto
    <3>4. \A v \in Writer : Visible(v)' => v = w \/ Visible(v)
      BY <2>1, <3>1 DEF Visible
    <3>5. \A v \in Writer : Visible(v)' => bytes'[v] = "whole" /\ writer'[v] \in {"tidy", "published", "crashed"}
      BY <2>1, <3>2, <3>4 DEF BlobsInv
    <3>6. \A v \in Writer : writer'[v] \in {"sync", "link", "tidy", "published"} => bytes'[v] = "whole"
      BY <2>1, <3>2 DEF BlobsInv
    <3>7. \A v \in temporary' : writer'[v] \notin Answered \cup {"exists"}
      <4>1. "tidy" \notin Answered \cup {"exists"} BY DEF Answered
      <4>2. temporary' \subseteq Writer /\ temporary' = temporary BY <3>1 DEF BlobsInv, BlobTypes
      <4>3. QED BY <3>2, <4>1, <4>2 DEF BlobsInv
    <3>8. Publishers' = Publishers \cup {w} /\ w \notin Publishers
      BY <2>1, <3>2 DEF Publishers
    <3>9. Cardinality(Publishers') = Cardinality(Publishers) + 1
      BY <3>8, PublishersAreFinite, FS_AddElement
    <3>10. Cardinality(Publishers)' <= (intrusions + IF final = None THEN 0 ELSE 1)'
      BY <2>1, <3>1, <3>9, PublishersAreFinite DEF BlobsInv, BlobTypes
    <3>11. QED BY <3>3, <3>5, <3>6, <3>7, <3>10 DEF BlobsInv
  <2>4. QED BY <2>2, <2>3
<1>5. ASSUME NEW r \in Reader, Blobs!Lstat(r) \/ Blobs!Open(r)
      PROVE  BlobsInv'
  <2> DEFINE step == IF final \in Writer THEN "open" ELSE "refused"
             looked == [reader[r] EXCEPT !.pc = step]
             opened == IF final \in Writer THEN [pc |-> "reading", fd |-> final] ELSE [pc |-> "refused", fd |-> None]
  <2>1. reader[r] \in [pc : {"idle", "open", "reading", "refused"}, fd : Writer \cup {None}]
    BY DEF BlobsInv, BlobTypes
  <2>2. UNCHANGED <<bytes, temporary, final, writer, intrusions>>
    BY <1>5 DEF Blobs!Lstat, Blobs!Open
  <2>3. CASE Blobs!Lstat(r)
    <3>1. reader' = [reader EXCEPT ![r] = looked]
      BY <2>1, <2>3 DEF Blobs!Lstat, BlobsInv, BlobTypes
    <3>2. looked \in [pc : {"idle", "open", "reading", "refused"}, fd : Writer \cup {None}] /\ looked.fd = reader[r].fd
      BY <2>1
    <3>3. QED BY <2>2, <3>1, <3>2, ReaderGoes
  <2>4. CASE Blobs!Open(r)
    <3>1. reader' = [reader EXCEPT ![r] = opened]
      BY <2>4 DEF Blobs!Open
    <3>2. opened \in [pc : {"idle", "open", "reading", "refused"}, fd : Writer \cup {None}] /\ opened.fd \in {final, None}
      OBVIOUS
    <3>3. QED BY <2>2, <3>1, <3>2, ReaderGoes
  <2>5. QED BY <1>5, <2>3, <2>4
<1>6. CASE Blobs!Intrude
  <2>1. /\ intrusions' = intrusions + 1 /\ final' \in {None, "odd"}
        /\ UNCHANGED <<bytes, temporary, writer, reader>>
    BY <1>6 DEF Blobs!Intrude
  <2>2. Publishers' = Publishers BY <2>1 DEF Publishers
  <2>3. Cardinality(Publishers)' <= (intrusions + IF final = None THEN 0 ELSE 1)'
    BY <2>1, <2>2, PublishersAreFinite DEF BlobsInv, BlobTypes
  <2>4. \A w \in Writer : Visible(w)' => Visible(w)
    BY <2>1 DEF Visible
  <2>5. BlobTypes' BY <2>1 DEF BlobsInv, BlobTypes
  <2>6. QED BY <2>1, <2>3, <2>4, <2>5 DEF BlobsInv
<1>7. CASE Blobs!Crash
  <2>1. /\ writer' = [w \in Writer |-> IF writer[w] \in {"idle", "failed", "published", "already_there"}
                                       THEN writer[w] ELSE "crashed"]
        /\ reader' = [r \in Reader |-> [pc |-> "refused", fd |-> None]]
        /\ UNCHANGED <<bytes, temporary, final, intrusions>>
    BY <1>7 DEF Blobs!Crash
  <2>2. \A w \in Writer : writer'[w] = IF writer[w] \in Answered THEN writer[w] ELSE "crashed"
    BY <2>1 DEF Answered
  <2>3. \A w \in Writer : Visible(w)' => Visible(w)
    BY <2>1 DEF Visible
  <2>4. \A w \in Writer : Visible(w)' => bytes'[w] = "whole" /\ writer'[w] \in {"tidy", "published", "crashed"}
    BY <2>1, <2>2, <2>3 DEF BlobsInv, Answered
  <2>5. \A w \in Writer : writer'[w] \in {"sync", "link", "tidy", "published"} => bytes'[w] = "whole"
    BY <2>1, <2>2 DEF BlobsInv
  <2>6. \A w \in temporary' : writer'[w] \notin Answered \cup {"exists"}
    <3>1. temporary' = temporary /\ temporary \subseteq Writer BY <2>1 DEF BlobsInv, BlobTypes
    <3>2. "crashed" \notin Answered \cup {"exists"} BY DEF Answered
    <3>3. QED BY <2>2, <3>1, <3>2 DEF BlobsInv
  <2>7. Publishers' \subseteq Publishers
    BY <2>2 DEF Publishers
  <2>8. Cardinality(Publishers') <= Cardinality(Publishers) /\ Cardinality(Publishers') \in Nat
    BY <2>7, PublishersAreFinite, FS_Subset, FS_CardinalityType
  <2>9. Cardinality(Publishers)' <= (intrusions + IF final = None THEN 0 ELSE 1)'
    BY <2>1, <2>8, PublishersAreFinite DEF BlobsInv, BlobTypes
  <2>10. BlobTypes'
    <3>1. writer' \in [Writer -> Answered \cup {"stream", "sync", "link", "tidy", "exists", "crashed"}]
      BY <2>1, <2>2 DEF BlobsInv, BlobTypes
    <3>2. QED BY <2>1, <3>1 DEF BlobsInv, BlobTypes
  <2>11. QED BY <2>4, <2>5, <2>6, <2>9, <2>10 DEF BlobsInv
<1>8. CASE UNCHANGED blobsVars
  <2>1. Publishers' = Publishers /\ \A w : Visible(w)' <=> Visible(w)
    BY <1>8 DEF blobsVars, Publishers, Visible
  <2>2. QED BY <1>8, <2>1 DEF blobsVars, BlobsInv, BlobTypes
<1>9. QED
  BY <1>1, <1>2, <1>3, <1>4, <1>5, <1>6, <1>7, <1>8 DEF Blobs!Next

\* What is read under a key is complete and was verified, the writers that race
\* publish once for each time the path was free, and an answered writer leaves
\* no temporary file (blob-store-local.ts).
THEOREM BlobsSafety == Spec => []BlobIsWhole
<1>1. Init => BlobsInv
  BY BlobsInit DEF Init
<1>2. BlobsInv /\ [Next]_partVars => BlobsInv'
  <2>1. [Next]_partVars => Blobs!Next \/ UNCHANGED blobsVars
    BY DEF Next, Only, partVars
  <2>2. QED BY <2>1, BlobsStep
<1>3. BlobsInv => BlobIsWhole
  <2> SUFFICES ASSUME BlobsInv PROVE Blobs!BlobIsWhole
      BY DEF BlobIsWhole
  <2>1. \A w \in Writer : Visible(w) => bytes[w] = "whole"
    BY DEF BlobsInv
  <2>2. final \in Writer => bytes[final] = "whole"
    BY <2>1 DEF Visible
  <2>3. \A r \in Reader : reader[r].fd # None => bytes[reader[r].fd] = "whole"
    BY <2>1 DEF Visible, BlobsInv, BlobTypes
  <2>4. \A S : Blobs!Cardinality(S) = Cardinality(S)
    BY DEF Blobs!Cardinality, Cardinality
  <2>5. Cardinality(Publishers) <= 1 + intrusions
    BY PublishersAreFinite DEF BlobsInv, BlobTypes
  <2>6. \A w \in temporary : writer[w] \notin Answered
    BY DEF BlobsInv
  <2>7. QED BY <2>2, <2>3, <2>4, <2>5, <2>6 DEF Blobs!BlobIsWhole, Publishers, Answered
<1>4. QED
  BY <1>1, <1>2, <1>3, PTL DEF Spec

--------------------------------------------------------------------------------
(***************************************************************************)
(* What is shown of artifacts.                                             *)
(***************************************************************************)
ShownRow == [dir : BOOLEAN, generation : Nat \ {0}, attempted : BOOLEAN, snapshot : Nat]
Shown == [loop : Loop, generation : Nat, entries : Tree]

\* A loop has snapshots of its own, none of them of a later configuration.
World(ls, pub, bd) ==
  /\ ls \in [Loop -> ShownRow] /\ pub \in Seq(Shown) /\ bd \in [Loop -> Nat]
  /\ \A l \in Loop : ls[l].snapshot # 0 => ls[l].snapshot \in 1 .. Len(pub) /\ pub[ls[l].snapshot].loop = l
  /\ \A l \in Loop : bd[l] # 0 => bd[l] \in 1 .. Len(pub) /\ pub[bd[l]].loop = l
  /\ \A id \in 1 .. Len(pub) : pub[id].generation <= ls[pub[id].loop].generation

\* A manifest stays as it was committed, a run keeps its snapshot, and
\* configurations only follow one another.
Grows ==
  /\ Len(published) <= Len(published') /\ \A id \in 1 .. Len(published) : published'[id] = published[id]
  /\ \A l \in Loop : loops[l].generation <= loops'[l].generation
  /\ \A l \in Loop : boundTo[l] # 0 => boundTo'[l] = boundTo[l]
  /\ Len(published) \in Nat /\ Len(published') \in Nat

ReadsWorld == World(loops, published, boundTo)

LEMMA ConfigureKeeps ==
  ASSUME ReadsWorld, Reads!Configure
  PROVE  ReadsWorld' /\ Grows /\ UNCHANGED <<reads, download>>
<1>1. PICK dir \in BOOLEAN :
        loops' = [loops EXCEPT ![Busy] = [loops[Busy] EXCEPT !.dir = dir, !.generation = loops[Busy].generation + 1, !.attempted = FALSE]]
  BY DEF Reads!Configure
<1>2. UNCHANGED <<published, boundTo, reads, download>> BY DEF Reads!Configure
<1>3. Busy \in Loop BY ReadsAssumption
<1>4. loops \in [Loop -> ShownRow] /\ published \in Seq(Shown) BY DEF ReadsWorld, World
<1> DEFINE row0 == [loops[Busy] EXCEPT !.dir = dir, !.generation = loops[Busy].generation + 1, !.attempted = FALSE]
<1>5. row0 \in ShownRow /\ row0.snapshot = loops[Busy].snapshot /\ row0.generation = loops[Busy].generation + 1
  <2>1. loops[Busy] \in ShownRow BY <1>3, <1>4
  <2>2. loops[Busy].generation + 1 \in Nat \ {0} BY <2>1 DEF ShownRow
  <2> DEFINE g == loops[Busy].generation + 1
  <2>3. row0 = [loops[Busy] EXCEPT !.dir = dir, !.generation = g, !.attempted = FALSE] /\ g \in Nat \ {0} BY <2>2
  <2> HIDE DEF g, row0
  <2>4. QED BY <2>1, <2>3 DEF ShownRow, g
<1> HIDE DEF row0
<1>6. /\ loops' \in [Loop -> ShownRow] /\ \A l \in Loop : loops'[l].snapshot = loops[l].snapshot
      /\ \A l \in Loop : loops[l].generation <= loops'[l].generation
  <2>1. loops' = [loops EXCEPT ![Busy] = row0] BY <1>1 DEF row0
  <2>2. \A l \in Loop : loops[l].generation \in Nat BY <1>4 DEF ShownRow
  <2>3. QED BY <2>1, <2>2, <1>3, <1>4, <1>5
<1>7. \A id \in 1 .. Len(published) : published[id].loop \in Loop /\ published[id].generation \in Nat
  <2>1. \A id \in 1 .. Len(published) : published[id] \in Shown BY <1>4
  <2>2. QED BY <2>1 DEF Shown
<1>8. \A l \in Loop : loops[l].generation \in Nat /\ loops'[l].generation \in Nat BY <1>4, <1>6 DEF ShownRow
<1>9. \A id \in 1 .. Len(published) : published[id].generation <= loops'[published[id].loop].generation
  BY <1>6, <1>7, <1>8 DEF ReadsWorld, World
<1>10. ReadsWorld' BY <1>2, <1>6, <1>9 DEF ReadsWorld, World
<1>11. Grows BY <1>2, <1>4, <1>6 DEF Grows
<1>12. QED BY <1>2, <1>10, <1>11

LEMMA CommitKeeps ==
  ASSUME ReadsWorld, Reads!Commit
  PROVE  ReadsWorld' /\ Grows /\ UNCHANGED <<reads, download>>
<1>1. PICK tree \in Tree :
        published' = Append(published, [loop |-> Busy, generation |-> loops[Busy].generation, entries |-> tree])
  BY DEF Reads!Commit
<1> DEFINE m == [loop |-> Busy, generation |-> loops[Busy].generation, entries |-> tree]
           row0 == [loops[Busy] EXCEPT !.snapshot = Len(published'), !.attempted = TRUE]
<1>2. loops' = [loops EXCEPT ![Busy].snapshot = Len(published'), ![Busy].attempted = TRUE]
      /\ UNCHANGED <<boundTo, reads, download>>
  BY DEF Reads!Commit
<1>3. Busy \in Loop BY ReadsAssumption
<1>4. loops \in [Loop -> ShownRow] /\ published \in Seq(Shown) /\ boundTo \in [Loop -> Nat] BY DEF ReadsWorld, World
<1>5. m \in Shown /\ m.loop = Busy /\ m.generation = loops[Busy].generation
  BY <1>3, <1>4 DEF Shown, ShownRow
<1> HIDE DEF m
<1>6. /\ published' \in Seq(Shown) /\ Len(published') = Len(published) + 1 /\ published'[Len(published) + 1] = m
      /\ \A id \in 1 .. Len(published) : published'[id] = published[id]
      /\ Len(published) \in Nat
  BY <1>1, <1>4, <1>5 DEF m
<1>7. row0 \in ShownRow /\ row0.snapshot = Len(published) + 1 /\ row0.generation = loops[Busy].generation
  <2>1. Len(published') \in Nat BY <1>6
  <2>2. QED BY <2>1, <1>3, <1>4, <1>6 DEF ShownRow
<1>8. loops' = [loops EXCEPT ![Busy] = row0] BY <1>2, <1>3, <1>4 DEF ShownRow
<1> HIDE DEF row0
<1>9. /\ loops' \in [Loop -> ShownRow] /\ loops'[Busy].snapshot = Len(published) + 1
      /\ \A l \in Loop : l # Busy => loops'[l] = loops[l]
      /\ \A l \in Loop : loops'[l].generation = loops[l].generation
  BY <1>3, <1>4, <1>7, <1>8
<1>10. \A id \in 1 .. Len(published') : id \in 1 .. Len(published) \/ id = Len(published) + 1 BY <1>6
<1>11. \A l \in Loop : loops'[l].snapshot # 0 =>
         loops'[l].snapshot \in 1 .. Len(published') /\ published'[loops'[l].snapshot].loop = l
  <2> SUFFICES ASSUME NEW l \in Loop, loops'[l].snapshot # 0
               PROVE  loops'[l].snapshot \in 1 .. Len(published') /\ published'[loops'[l].snapshot].loop = l
      OBVIOUS
  <2>1. CASE l = Busy BY <2>1, <1>5, <1>6, <1>9
  <2>2. CASE l # Busy
    <3>1. loops[l].snapshot \in 1 .. Len(published) /\ published[loops[l].snapshot].loop = l
      BY <2>2, <1>9 DEF ReadsWorld, World
    <3>2. QED BY <3>1, <2>2, <1>6, <1>9
  <2>3. QED BY <2>1, <2>2
<1>12. \A l \in Loop : boundTo[l] # 0 => boundTo[l] \in 1 .. Len(published') /\ published'[boundTo[l]].loop = l
  BY <1>6 DEF ReadsWorld, World
<1>13. \A id \in 1 .. Len(published') : published'[id].generation <= loops'[published'[id].loop].generation
  <2> TAKE id \in 1 .. Len(published')
  <2>1. CASE id \in 1 .. Len(published)
    <3>1. published[id] \in Shown BY <2>1, <1>4
    <3>2. published[id].loop \in Loop BY <3>1 DEF Shown
    <3>3. QED BY <2>1, <3>2, <1>6, <1>9 DEF ReadsWorld, World
  <2>2. CASE id = Len(published) + 1
    <3>1. m.generation \in Nat BY <1>5 DEF Shown
    <3>2. QED BY <2>2, <3>1, <1>3, <1>5, <1>6, <1>9
  <2>3. QED BY <2>1, <2>2, <1>10
<1>14. ReadsWorld' BY <1>2, <1>4, <1>6, <1>9, <1>11, <1>12, <1>13 DEF ReadsWorld, World
<1>15. Grows
  <2>1. \A l \in Loop : loops[l].generation \in Nat BY <1>4 DEF ShownRow
  <2>2. QED BY <2>1, <1>2, <1>6, <1>9 DEF Grows
<1>16. QED BY <1>2, <1>14, <1>15

LEMMA SyncFailsKeeps ==
  ASSUME ReadsWorld, Reads!SyncFails
  PROVE  ReadsWorld' /\ Grows /\ UNCHANGED <<reads, download>>
<1>1. loops' = [loops EXCEPT ![Busy].attempted = TRUE] /\ UNCHANGED <<published, boundTo, reads, download>>
  BY DEF Reads!SyncFails
<1>2. Busy \in Loop /\ loops \in [Loop -> ShownRow] /\ published \in Seq(Shown) BY ReadsAssumption DEF ReadsWorld, World
<1> DEFINE row0 == [loops[Busy] EXCEPT !.attempted = TRUE]
<1>3. row0 \in ShownRow /\ row0.snapshot = loops[Busy].snapshot /\ row0.generation = loops[Busy].generation
  BY <1>2 DEF ShownRow
<1>4. loops' = [loops EXCEPT ![Busy] = row0] BY <1>1
<1> HIDE DEF row0
<1>5. /\ loops' \in [Loop -> ShownRow]
      /\ \A l \in Loop : loops'[l].snapshot = loops[l].snapshot /\ loops'[l].generation = loops[l].generation
  BY <1>2, <1>3, <1>4
<1>6. \A id \in 1 .. Len(published) : published[id].loop \in Loop
  <2>1. \A id \in 1 .. Len(published) : published[id] \in Shown BY <1>2
  <2>2. QED BY <2>1 DEF Shown
<1>7. ReadsWorld' BY <1>1, <1>5, <1>6 DEF ReadsWorld, World
<1>8. \A l \in Loop : loops[l].generation \in Nat BY <1>2 DEF ShownRow
<1>9. Grows BY <1>1, <1>2, <1>5, <1>8 DEF Grows
<1>10. QED BY <1>1, <1>7, <1>9

LEMMA BindRunKeeps ==
  ASSUME ReadsWorld, Reads!BindRun
  PROVE  ReadsWorld' /\ Grows /\ UNCHANGED <<reads, download>>
<1>1. /\ boundTo[Busy] = 0 /\ loops[Busy].snapshot # 0
      /\ boundTo' = [boundTo EXCEPT ![Busy] = loops[Busy].snapshot]
      /\ UNCHANGED <<loops, published, reads, download>>
  BY DEF Reads!BindRun
<1>2. Busy \in Loop /\ boundTo \in [Loop -> Nat] /\ loops \in [Loop -> ShownRow] /\ published \in Seq(Shown)
  BY ReadsAssumption DEF ReadsWorld, World
<1>3. loops[Busy].snapshot \in 1 .. Len(published) /\ published[loops[Busy].snapshot].loop = Busy
      /\ loops[Busy].snapshot \in Nat
  BY <1>1, <1>2 DEF ReadsWorld, World, ShownRow
<1>4. boundTo' \in [Loop -> Nat] /\ boundTo'[Busy] = loops[Busy].snapshot /\ \A l \in Loop : l # Busy => boundTo'[l] = boundTo[l]
  BY <1>1, <1>2, <1>3
<1>5. \A l \in Loop : boundTo'[l] # 0 => boundTo'[l] \in 1 .. Len(published) /\ published[boundTo'[l]].loop = l
  BY <1>3, <1>4 DEF ReadsWorld, World
<1>6. ReadsWorld' BY <1>1, <1>4, <1>5 DEF ReadsWorld, World
<1>7. \A l \in Loop : loops[l].generation \in Nat BY <1>2 DEF ShownRow
<1>8. Grows BY <1>1, <1>2, <1>4, <1>7 DEF Grows
<1>9. QED BY <1>1, <1>6, <1>8

\* A difference leads from one tree to the other.
Exact(before, d, after) ==
  /\ Reads!Applied(before, d) = after
  /\ DOMAIN d.added \cap DOMAIN before = {} /\ DOMAIN d.removed \subseteq DOMAIN before
  /\ \A p \in DOMAIN d.modified : d.modified[p][1] = before[p] /\ d.modified[p][2] # before[p]

LEMMA DiffIsExact ==
  ASSUME NEW before, before = [p \in DOMAIN before |-> before[p]],
         NEW after, after = [p \in DOMAIN after |-> after[p]]
  PROVE  /\ Exact(before, Reads!DiffManifests(before, after), after)
         /\ DOMAIN Reads!DiffManifests(before, after) = {"added", "modified", "removed"}
<1> DEFINE d == Reads!DiffManifests(before, after)
<1>1. /\ d.added = [p \in DOMAIN after \ DOMAIN before |-> after[p]]
      /\ d.removed = [p \in DOMAIN before \ DOMAIN after |-> before[p]]
      /\ d.modified = [p \in {q \in DOMAIN before \cap DOMAIN after : before[q] # after[q]} |-> <<before[p], after[p]>>]
      /\ DOMAIN d = {"added", "modified", "removed"}
  BY DEF Reads!DiffManifests, Reads!Added, Reads!Modified
<1> HIDE DEF d
<1>2. /\ DOMAIN d.added = DOMAIN after \ DOMAIN before /\ DOMAIN d.removed = DOMAIN before \ DOMAIN after
      /\ DOMAIN d.modified = {q \in DOMAIN before \cap DOMAIN after : before[q] # after[q]}
      /\ \A p \in DOMAIN d.added : d.added[p] = after[p]
      /\ \A p \in DOMAIN d.modified : d.modified[p] = <<before[p], after[p]>>
  BY <1>1
<1> DEFINE kept == DOMAIN before \ (DOMAIN d.removed \cup DOMAIN d.modified)
           all == DOMAIN Reads!Kept(before, d) \cup DOMAIN d.added \cup DOMAIN d.modified
<1>3. DOMAIN Reads!Kept(before, d) = kept BY DEF Reads!Kept
<1>4. all = DOMAIN after
  <2>1. \A p : p \in all <=> p \in DOMAIN after BY <1>2, <1>3
  <2>2. QED BY <2>1
<1>5. Reads!Applied(before, d) = [p \in all |->
        IF p \in DOMAIN d.added THEN d.added[p] ELSE IF p \in DOMAIN d.modified THEN d.modified[p][2] ELSE before[p]]
  BY DEF Reads!Applied
<1> HIDE DEF all
<1>6. \A p \in all :
        (IF p \in DOMAIN d.added THEN d.added[p] ELSE IF p \in DOMAIN d.modified THEN d.modified[p][2] ELSE before[p]) = after[p]
  <2> TAKE p \in all
  <2>1. p \in DOMAIN after BY <1>4
  <2>2. CASE p \in DOMAIN d.added BY <2>2, <1>2
  <2>3. CASE p \notin DOMAIN d.added /\ p \in DOMAIN d.modified
    <3>1. d.modified[p] = <<before[p], after[p]>> BY <2>3, <1>2
    <3>2. d.modified[p][2] = after[p] BY <3>1
    <3>3. QED BY <2>3, <3>2
  <2>4. CASE p \notin DOMAIN d.added /\ p \notin DOMAIN d.modified
    <3>1. before[p] = after[p] BY <2>1, <2>4, <1>2
    <3>2. QED BY <3>1, <2>4
  <2>5. QED BY <2>2, <2>3, <2>4
<1>7. Reads!Applied(before, d) = [p \in DOMAIN after |-> after[p]]
  BY <1>4, <1>5, <1>6
<1>8. \A p \in DOMAIN d.modified : d.modified[p][1] = before[p] /\ d.modified[p][2] # before[p]
  <2> TAKE p \in DOMAIN d.modified
  <2>1. d.modified[p] = <<before[p], after[p]>> /\ before[p] # after[p] BY <1>2
  <2>2. QED BY <2>1
<1>9. QED BY <1>1, <1>2, <1>7, <1>8 DEF Exact, d

(* Requests, as records: what one has read is still so when it answers. *)

Own(q, id) == id \in 1 .. Len(published) /\ published[id].loop = q.loop
ForeignTo(q) == q.loop # None /\ Owner[q.loop] # q.team
FilesBefore(q) == IF q.from = None THEN Reads!Empty ELSE published[q.from].entries

AnswerIsTrue(q, a) ==
  /\ ForeignTo(q) /\ q.team \in Namespace =>
       a = [refused |-> IF q.kind = "run" THEN "run_not_found" ELSE "loop_not_found"]
  /\ "files" \in DOMAIN a =>
       \/ a.snapshot = 0 /\ a.files = Reads!Empty
       \/ a.snapshot # 0 /\ Own(q, a.snapshot) /\ a.files = published[a.snapshot].entries
  /\ "stale" \in DOMAIN a =>
       /\ a.snapshot # 0 => Own(q, a.snapshot)
       /\ a.stale <=> (a.snapshot # 0 /\ published[a.snapshot].generation < a.generation)
  /\ "added" \in DOMAIN a =>
       Own(q, q.to) /\ (q.from # None => Own(q, q.from)) /\ Exact(FilesBefore(q), a, published[q.to].entries)
  /\ "sync" \in DOMAIN a => a.sync \in {None} \cup 1 .. a.generation
  /\ "state" \in DOMAIN a /\ a.state = "bound" => q.loop \in Loop /\ boundTo[q.loop] # 0 /\ a.snapshot = boundTo[q.loop]

Stage == {"idle", "run", "row", "team", "attribution", "machine_row", "view", "snapshot", "from", "open",
          "compose", "body", "answered"}
Downloading == {"open", "compose", "body"}
Shared == {"view", "snapshot", "from"} \cup Downloading

\* The stage of a request, by the kind of its question.
StageFits(r) ==
  /\ r.pc = "run" => r.question.kind = "run"
  /\ r.pc \in {"row", "team"} => r.question.kind # "machine"
  /\ r.pc = "machine_row" => r.question.kind = "machine"
  /\ r.pc = "view" => r.question.kind = "loop"
  /\ r.pc = "snapshot" => r.question.kind \in {"run", "diff", "download"}
  /\ r.pc = "from" => r.question.kind = "diff"
  /\ r.pc \in Downloading => r.question.kind = "download"

\* What it has read and checked so far.
ReadSoFar(r) ==
  LET q == r.question
      checked == r.pc \in Shared \/ (r.pc = "attribution" /\ q.kind # "machine")
  IN /\ r.pc = "team" \/ checked => q.loop \in Loop
     /\ checked => Owner[q.loop] = q.team
     /\ q.kind = "run" /\ r.pc \in {"row", "team", "attribution", "snapshot"} =>
          q.loop \in Loop /\ (r.seen # 0 => r.seen = boundTo[q.loop])
     /\ q.kind = "run" /\ r.pc = "snapshot" => r.seen # 0
     /\ q.kind = "loop" /\ r.pc \in {"team", "attribution", "view"} =>
          r.sync \in {None} \cup 1 .. loops[q.loop].generation
     /\ r.pc = "from" => q.from # None /\ Own(q, q.to) /\ r.seen = published[q.to].entries
     /\ r.pc \in Downloading => Own(q, q.to)

RequestShape(r) ==
  /\ r = [pc |-> r.pc, question |-> r.question, sync |-> r.sync, seen |-> r.seen, answer |-> r.answer]
  /\ r.pc \in Stage /\ (r.pc # "idle" => r.question \in Reads!Questions)

RequestInv(r) ==
  /\ RequestShape(r)
  /\ r.pc # "idle" => StageFits(r) /\ ReadSoFar(r)
  /\ r.pc = "answered" => AnswerIsTrue(r.question, r.answer)

LEMMA QuestionFields ==
  ASSUME NEW q \in Reads!Questions
  PROVE  /\ q.kind \in {"loop", "machine", "run", "diff", "download"} /\ q.loop \in Loop \cup {None} /\ q.team \in Team
         /\ q.kind \in {"diff", "download"} => q.to \in 1 .. MaxSnapshots
         /\ q.kind = "diff" => q.from \in 1 .. MaxSnapshots \cup {None}
         /\ q.kind = "run" => q.parent \in Loop \cup {None}
<1>1. CASE q \in [kind : {"loop", "machine"}, loop : Reads!Asked, team : Team] BY <1>1 DEF Reads!Asked
<1>2. CASE q \in [kind : {"run"}, loop : Reads!Asked, parent : Reads!Asked, team : Team] BY <1>2 DEF Reads!Asked
<1>3. CASE q \in [kind : {"diff"}, loop : Reads!Asked, to : Reads!Id, from : Reads!Id \cup {None}, team : Team]
  BY <1>3 DEF Reads!Asked, Reads!Id
<1>4. CASE q \in [kind : {"download"}, loop : Reads!Asked, to : Reads!Id, path : ShownPath, team : Team]
  BY <1>4 DEF Reads!Asked, Reads!Id
<1>5. QED BY <1>1, <1>2, <1>3, <1>4 DEF Reads!Questions

\* An answer stays true, and what was read stays read, as the world grows.
LEMMA AnswersLast ==
  ASSUME ReadsWorld, ReadsWorld', Grows, NEW q \in Reads!Questions, NEW a, AnswerIsTrue(q, a)
  PROVE  AnswerIsTrue(q, a)'
<1>1. \A id : Own(q, id) => published'[id] = published[id] /\ Own(q, id)'
  BY DEF Own, Grows
<1>2. "files" \in DOMAIN a =>
       \/ a.snapshot = 0 /\ a.files = Reads!Empty
       \/ a.snapshot # 0 /\ Own(q, a.snapshot)' /\ a.files = published'[a.snapshot].entries
  BY <1>1 DEF AnswerIsTrue
<1>3. "stale" \in DOMAIN a =>
       /\ a.snapshot # 0 => Own(q, a.snapshot)'
       /\ a.stale <=> (a.snapshot # 0 /\ published'[a.snapshot].generation < a.generation)
  BY <1>1 DEF AnswerIsTrue
<1>4. "added" \in DOMAIN a =>
        Own(q, q.to)' /\ (q.from # None => Own(q, q.from)') /\ Exact(FilesBefore(q)', a, published'[q.to].entries)
  BY <1>1 DEF AnswerIsTrue, FilesBefore, Reads!Empty
<1>5. "state" \in DOMAIN a /\ a.state = "bound" => q.loop \in Loop /\ boundTo'[q.loop] # 0 /\ a.snapshot = boundTo'[q.loop]
  BY DEF AnswerIsTrue, Grows
<1>6. QED BY <1>2, <1>3, <1>4, <1>5 DEF AnswerIsTrue, Exact, ForeignTo, Reads!Empty, Reads!Applied, Reads!Kept

LEMMA RequestsLast ==
  ASSUME ReadsWorld, ReadsWorld', Grows, NEW r, RequestInv(r)
  PROVE  RequestInv(r)'
<1>1. r.pc = "answered" => AnswerIsTrue(r.question, r.answer)'
  BY AnswersLast DEF RequestInv, RequestShape
<1>2. r.pc # "idle" => ReadSoFar(r)'
  <2> SUFFICES ASSUME r.pc # "idle" PROVE ReadSoFar(r)' OBVIOUS
  <2>1. ReadSoFar(r) BY DEF RequestInv
  <2>2. \A id : Own(r.question, id) => published'[id] = published[id] /\ Own(r.question, id)'
    BY DEF Own, Grows
  <2>3. r.question.loop \in Loop => 1 .. loops[r.question.loop].generation \subseteq 1 .. loops'[r.question.loop].generation
    <3> SUFFICES ASSUME r.question.loop \in Loop PROVE 1 .. loops[r.question.loop].generation \subseteq 1 .. loops'[r.question.loop].generation
        OBVIOUS
    <3>1. loops[r.question.loop].generation \in Nat /\ loops'[r.question.loop].generation \in Nat
      BY DEF ReadsWorld, World, ShownRow
    <3>2. QED BY <3>1 DEF Grows
  <2>4. r.seen # 0 /\ r.question.loop \in Loop /\ r.seen = boundTo[r.question.loop] => r.seen = boundTo'[r.question.loop]
    BY DEF Grows
  <2>5. r.pc \in {"attribution", "view"} /\ r.question.kind = "loop" => r.question.loop \in Loop
    BY <2>1 DEF ReadSoFar, Shared
  <2>6. QED BY <2>1, <2>2, <2>3, <2>4, <2>5 DEF ReadSoFar, Shared
<1>3. RequestShape(r)' /\ (r.pc # "idle" => StageFits(r)')
  BY DEF RequestInv, RequestShape, StageFits, Reads!Questions, Reads!Asked, Reads!Id
<1>4. QED BY <1>1, <1>2, <1>3 DEF RequestInv

\* The world stands still while a request takes a step.
StandsStill == UNCHANGED <<loops, published, boundTo>>

LEMMA RequestMoves ==
  ASSUME ReadsWorld, StandsStill, RequestInv(reads')
  PROVE  ReadsWorld' /\ RequestInv(reads)'
BY DEF ReadsWorld, StandsStill, RequestInv, RequestShape, StageFits, ReadSoFar, AnswerIsTrue, Own, ForeignTo, Exact, FilesBefore,
       Reads!Empty, Reads!Questions, Reads!Asked, Reads!Id, Reads!Applied, Reads!Kept

LEMMA Moves ==
  ASSUME NEW r, RequestShape(r), NEW pc0 \in Stage, r.pc # "idle"
  PROVE  LET n == [r EXCEPT !.pc = pc0]
         IN  /\ RequestShape(n) /\ n.pc = pc0 /\ n.question = r.question /\ n.sync = r.sync /\ n.seen = r.seen
             /\ n.answer = r.answer
BY DEF RequestShape

LEMMA AnswerFits ==
  ASSUME RequestShape(reads), reads.pc # "idle", NEW a, Reads!Answer(a), AnswerIsTrue(reads.question, a)
  PROVE  RequestInv(reads')
<1>1. reads' = [reads EXCEPT !.pc = "answered", !.seen = None, !.sync = None, !.answer = a] BY DEF Reads!Answer
<1>2. /\ reads' = [pc |-> "answered", question |-> reads.question, sync |-> None, seen |-> None, answer |-> a]
      /\ reads.question \in Reads!Questions
  BY <1>1 DEF RequestShape
<1>3. RequestShape(reads') BY <1>2 DEF RequestShape, Stage
<1>4. StageFits(reads') /\ ReadSoFar(reads')
  BY <1>2 DEF StageFits, ReadSoFar, Shared, Downloading
<1>5. QED BY <1>2, <1>3, <1>4 DEF RequestInv

\* A refusal shows nothing.
LEMMA RefusalFits ==
  ASSUME RequestShape(reads), reads.pc # "idle", NEW why, Reads!Refuse(why),
         ForeignTo(reads.question) /\ reads.question.team \in Namespace =>
           why = IF reads.question.kind = "run" THEN "run_not_found" ELSE "loop_not_found"
  PROVE  RequestInv(reads')
<1>1. Reads!Answer([refused |-> why]) BY DEF Reads!Refuse
<1>2. DOMAIN [refused |-> why] = {"refused"} OBVIOUS
<1>3. AnswerIsTrue(reads.question, [refused |-> why]) BY <1>2 DEF AnswerIsTrue
<1>4. QED BY <1>1, <1>3, AnswerFits

(* One lemma for each step of a request. *)

RequestStep(p) == ReadsWorld /\ RequestInv(reads) /\ reads.pc = p /\ StandsStill

\* What a step of a request starts from.
LEMMA AtStep ==
  ASSUME NEW p, p # "idle", RequestStep(p)
  PROVE  /\ RequestShape(reads) /\ reads.pc = p /\ StageFits(reads) /\ ReadSoFar(reads)
         /\ reads.question \in Reads!Questions
         /\ reads.question.kind \in {"loop", "machine", "run", "diff", "download"}
         /\ reads.question.loop \in Loop \cup {None}
BY QuestionFields DEF RequestStep, RequestInv, RequestShape

LEMMA AskFits ==
  ASSUME RequestStep("idle"), NEW q, q \in Reads!Questions, Reads!Ask(q)
  PROVE  RequestInv(reads')
<1> DEFINE pc0 == CASE q.kind = "run" -> "run" [] q.kind = "machine" -> "attribution" [] OTHER -> "row"
<1>1. q.kind \in {"loop", "machine", "run", "diff", "download"} BY QuestionFields
<1>2. /\ q.kind = "run" => pc0 = "run"
      /\ q.kind = "machine" => pc0 = "attribution"
      /\ q.kind \in {"loop", "diff", "download"} => pc0 = "row"
  BY <1>1
<1>3. reads' = [Reads!Idle EXCEPT !.question = q, !.pc = pc0] BY DEF Reads!Ask
<1> HIDE DEF pc0
<1>4. reads' = [pc |-> pc0, question |-> q, sync |-> None, seen |-> None, answer |-> None] BY <1>3 DEF Reads!Idle
<1>5. RequestShape(reads') BY <1>1, <1>2, <1>4 DEF RequestShape, Stage
<1>6. StageFits(reads') /\ ReadSoFar(reads')
  BY <1>1, <1>2, <1>4 DEF StageFits, ReadSoFar, Shared, Downloading
<1>7. reads'.pc # "answered" BY <1>1, <1>2, <1>4
<1>8. QED BY <1>5, <1>6, <1>7 DEF RequestInv

LEMMA ReadRunFits ==
  ASSUME RequestStep("run"), Reads!ReadRun
  PROVE  RequestInv(reads')
<1>1. RequestShape(reads) /\ reads.pc = "run" /\ reads.question \in Reads!Questions /\ reads.question.kind = "run"
      /\ reads.question.loop \in Loop \cup {None}
  BY AtStep DEF StageFits
<1>2. CASE reads.question.loop = None \/ reads.question.parent \notin {None, reads.question.loop}
  <2>1. Reads!Refuse("run_not_found") BY <1>2 DEF Reads!ReadRun, Reads!question
  <2>2. QED BY <1>1, <2>1, RefusalFits
<1>3. CASE ~(reads.question.loop = None \/ reads.question.parent \notin {None, reads.question.loop})
  <2> DEFINE b == boundTo[reads.question.loop]
  <2>1. reads' = [reads EXCEPT !.pc = "row", !.seen = b] BY <1>3 DEF Reads!ReadRun, Reads!question
  <2>2. reads.question.loop \in Loop BY <1>1, <1>3
  <2> HIDE DEF b
  <2>3. reads' = [pc |-> "row", question |-> reads.question, sync |-> reads.sync, seen |-> b, answer |-> reads.answer]
    BY <1>1, <2>1 DEF RequestShape
  <2>4. RequestShape(reads') BY <1>1, <2>3 DEF RequestShape, Stage
  <2>5. StageFits(reads') /\ ReadSoFar(reads')
    BY <1>1, <2>2, <2>3 DEF StageFits, ReadSoFar, Shared, Downloading, b
  <2>6. QED BY <2>3, <2>4, <2>5 DEF RequestInv
<1>4. QED BY <1>2, <1>3

LEMMA ReadRowFits ==
  ASSUME RequestStep("row"), Reads!ReadRow
  PROVE  RequestInv(reads')
<1>1. RequestShape(reads) /\ reads.pc = "row" /\ reads.question \in Reads!Questions /\ reads.question.kind # "machine"
      /\ reads.question.loop \in Loop \cup {None} /\ ReadSoFar(reads)
  BY AtStep DEF StageFits
<1>2. CASE reads.question.loop = None
  <2>1. Reads!Refuse("loop_not_found") BY <1>2 DEF Reads!ReadRow, Reads!question
  <2>2. ~ForeignTo(reads.question) BY <1>2 DEF ForeignTo
  <2>3. QED BY <1>1, <2>1, <2>2, RefusalFits
<1>3. CASE reads.question.loop # None
  <2> DEFINE s == IF reads.question.kind = "loop" THEN Reads!LastSync(loops[reads.question.loop]) ELSE None
  <2>1. reads' = [reads EXCEPT !.pc = "team", !.sync = s] BY <1>3 DEF Reads!ReadRow, Reads!question
  <2>2. reads.question.loop \in Loop BY <1>1, <1>3
  <2>3. loops[reads.question.loop].generation \in Nat \ {0} BY <2>2 DEF RequestStep, ReadsWorld, World, ShownRow
  <2>4. reads.question.kind = "loop" => s \in {None} \cup 1 .. loops[reads.question.loop].generation
    BY <2>3 DEF Reads!LastSync
  <2> HIDE DEF s
  <2>5. reads' = [pc |-> "team", question |-> reads.question, sync |-> s, seen |-> reads.seen, answer |-> reads.answer]
    BY <1>1, <2>1 DEF RequestShape
  <2>6. RequestShape(reads') BY <1>1, <2>5 DEF RequestShape, Stage
  <2>7. StageFits(reads') /\ ReadSoFar(reads')
    BY <1>1, <2>2, <2>4, <2>5 DEF StageFits, ReadSoFar, Shared, Downloading
  <2>8. QED BY <2>5, <2>6, <2>7 DEF RequestInv
<1>4. QED BY <1>2, <1>3

\* A machine's question: what it is told is of its own loop.
LEMMA ReadMachineRowFits ==
  ASSUME RequestStep("machine_row"), Reads!ReadMachineRow
  PROVE  RequestInv(reads')
<1>1. RequestShape(reads) /\ reads.pc = "machine_row" /\ reads.question \in Reads!Questions /\ reads.question.kind = "machine"
      /\ reads.question.loop \in Loop \cup {None}
  BY AtStep DEF StageFits
<1>2. CASE reads.question.loop \notin {l \in Loop : Owner[l] = reads.question.team}
  <2>1. Reads!Refuse("loop_not_found") BY <1>2 DEF Reads!ReadMachineRow, Reads!question
  <2>2. QED BY <1>1, <2>1, RefusalFits
<1>3. CASE reads.question.loop \in {l \in Loop : Owner[l] = reads.question.team}
  <2>1. ~ForeignTo(reads.question) BY <1>3 DEF ForeignTo
  <2>2. CASE ~loops[reads.question.loop].dir
    <3>1. Reads!Refuse("artifact_dir_unconfigured") BY <1>3, <2>2 DEF Reads!ReadMachineRow, Reads!question
    <3>2. QED BY <1>1, <2>1, <3>1, RefusalFits
  <2>3. CASE loops[reads.question.loop].dir
    <3> DEFINE a == [generation |-> loops[reads.question.loop].generation, snapshot |-> loops[reads.question.loop].snapshot]
    <3>1. Reads!Answer(a) BY <1>3, <2>3 DEF Reads!ReadMachineRow, Reads!question
    <3>2. DOMAIN a = {"generation", "snapshot"} OBVIOUS
    <3> HIDE DEF a
    <3>3. AnswerIsTrue(reads.question, a) BY <2>1, <3>2 DEF AnswerIsTrue
    <3>4. QED BY <1>1, <3>1, <3>3, AnswerFits
  <2>4. QED BY <2>2, <2>3
<1>4. QED BY <1>2, <1>3

\* The team is checked before anything is told.
LEMMA CheckTeamFits ==
  ASSUME RequestStep("team"), Reads!CheckTeam
  PROVE  RequestInv(reads')
<1>1. RequestShape(reads) /\ reads.pc = "team" /\ reads.question \in Reads!Questions /\ reads.question.kind # "machine"
      /\ reads.question.loop \in Loop /\ ReadSoFar(reads)
  BY AtStep DEF StageFits, ReadSoFar
<1>2. CASE Reads!TeamMatches(Owner[reads.question.loop], reads.question.team)
  <2>1. reads' = [reads EXCEPT !.pc = "attribution"] BY <1>2 DEF Reads!CheckTeam, Reads!question, Reads!Goto
  <2>2. Owner[reads.question.loop] = reads.question.team BY <1>2 DEF Reads!TeamMatches
  <2>3. reads' = [pc |-> "attribution", question |-> reads.question, sync |-> reads.sync, seen |-> reads.seen, answer |-> reads.answer]
    BY <1>1, <2>1 DEF RequestShape
  <2>4. RequestShape(reads') BY <1>1, <2>3 DEF RequestShape, Stage
  <2>5. StageFits(reads') /\ ReadSoFar(reads')
    BY <1>1, <2>2, <2>3 DEF StageFits, ReadSoFar, Shared, Downloading
  <2>6. QED BY <2>3, <2>4, <2>5 DEF RequestInv
<1>3. CASE ~Reads!TeamMatches(Owner[reads.question.loop], reads.question.team)
  <2> DEFINE why == IF reads.question.kind = "run" THEN "run_not_found" ELSE "loop_not_found"
  <2>1. Reads!Refuse(why) BY <1>3 DEF Reads!CheckTeam, Reads!question
  <2> HIDE DEF why
  <2>2. why = IF reads.question.kind = "run" THEN "run_not_found" ELSE "loop_not_found" BY DEF why
  <2>3. QED BY <1>1, <2>1, <2>2, RefusalFits
<1>4. QED BY <1>2, <1>3

LEMMA AttributeFits ==
  ASSUME RequestStep("attribution"), Reads!Attribute
  PROVE  RequestInv(reads')
<1>1. RequestShape(reads) /\ reads.pc = "attribution" /\ reads.question \in Reads!Questions /\ ReadSoFar(reads)
      /\ reads.question.kind \in {"loop", "machine", "run", "diff", "download"}
  BY AtStep
<1> DEFINE team == IF reads.question.kind = "machine" THEN reads.question.team ELSE Owner[reads.question.loop]
<1>2. reads.question.kind # "machine" =>
        reads.question.loop \in Loop /\ Owner[reads.question.loop] = reads.question.team
  BY <1>1 DEF ReadSoFar
<1>3. reads.question.kind # "machine" => ~ForeignTo(reads.question) BY <1>2 DEF ForeignTo
<1>4. team = reads.question.team BY <1>2
<1>5. IF ~Reads!Attributed(team) THEN Reads!Refuse("attribution_missing")
      ELSE CASE reads.question.kind = "machine" -> Reads!Goto("machine_row")
             [] reads.question.kind = "loop" -> Reads!Goto("view")
             [] reads.question.kind = "run" /\ reads.seen = 0 -> Reads!Answer([state |-> "missing"])
             [] OTHER -> Reads!Goto("snapshot")
  BY DEF Reads!Attribute, Reads!question
<1> HIDE DEF team
<1>6. CASE ~Reads!Attributed(team)
  <2>1. Reads!Refuse("attribution_missing") BY <1>5, <1>6
  <2>2. ~(reads.question.team \in Namespace) BY <1>4, <1>6 DEF Reads!Attributed
  <2>3. QED BY <1>1, <2>1, <2>2, RefusalFits
<1>7. CASE Reads!Attributed(team) /\ reads.question.kind = "run" /\ reads.seen = 0
  <2> DEFINE a == [state |-> "missing"]
  <2>1. Reads!Answer(a) BY <1>5, <1>7
  <2>2. DOMAIN a = {"state"} /\ a.state # "bound" OBVIOUS
  <2> HIDE DEF a
  <2>3. AnswerIsTrue(reads.question, a) BY <1>3, <1>7, <2>2 DEF AnswerIsTrue
  <2>4. QED BY <1>1, <2>1, <2>3, AnswerFits
<1>8. CASE Reads!Attributed(team) /\ ~(reads.question.kind = "run" /\ reads.seen = 0)
  <2> DEFINE pc0 == IF reads.question.kind = "machine" THEN "machine_row"
                    ELSE IF reads.question.kind = "loop" THEN "view" ELSE "snapshot"
  <2>1. Reads!Goto(pc0) BY <1>1, <1>5, <1>8
  <2>2. /\ reads.question.kind = "machine" => pc0 = "machine_row"
        /\ reads.question.kind = "loop" => pc0 = "view"
        /\ reads.question.kind \in {"run", "diff", "download"} => pc0 = "snapshot"
    OBVIOUS
  <2> HIDE DEF pc0
  <2>3. reads' = [pc |-> pc0, question |-> reads.question, sync |-> reads.sync, seen |-> reads.seen, answer |-> reads.answer]
    BY <1>1, <2>1 DEF RequestShape, Reads!Goto
  <2>4. pc0 \in {"machine_row", "view", "snapshot"} BY <1>1, <2>2
  <2>5. RequestShape(reads') BY <1>1, <2>3, <2>4 DEF RequestShape, Stage
  <2>6. StageFits(reads') BY <1>1, <2>2, <2>3 DEF StageFits, Downloading
  <2>7. ReadSoFar(reads') BY <1>1, <1>2, <1>8, <2>2, <2>3 DEF ReadSoFar, Shared, Downloading
  <2>8. QED BY <2>3, <2>4, <2>5, <2>6, <2>7 DEF RequestInv
<1>9. QED BY <1>6, <1>7, <1>8

\* The view: the row and the manifest it names, stale if of an earlier configuration.
LEMMA ViewFits ==
  ASSUME RequestStep("view"), Reads!View
  PROVE  RequestInv(reads')
<1>1. RequestShape(reads) /\ reads.pc = "view" /\ reads.question \in Reads!Questions /\ ReadSoFar(reads)
      /\ reads.question.kind = "loop"
  BY AtStep DEF StageFits
<1>2. /\ reads.question.loop \in Loop /\ Owner[reads.question.loop] = reads.question.team
      /\ reads.sync \in {None} \cup 1 .. loops[reads.question.loop].generation
  BY <1>1 DEF ReadSoFar, Shared
<1> DEFINE shown == loops[reads.question.loop]
           stale == Reads!Stale(shown)
           files == IF shown.snapshot = 0 THEN Reads!Empty ELSE published[shown.snapshot].entries
           a == [generation |-> shown.generation, snapshot |-> shown.snapshot, stale |-> stale, sync |-> reads.sync, files |-> files]
<1>3. Reads!Answer(a) BY DEF Reads!View, Reads!question
<1>4. shown.generation \in Nat /\ shown.snapshot \in Nat BY <1>2 DEF RequestStep, ReadsWorld, World, ShownRow
<1>5. shown.snapshot # 0 => Own(reads.question, shown.snapshot) BY <1>2 DEF RequestStep, ReadsWorld, World, Own
<1>6. shown.snapshot # 0 => published[shown.snapshot].generation \in Nat /\ published[shown.snapshot].generation <= shown.generation
  <2> SUFFICES ASSUME shown.snapshot # 0
               PROVE  published[shown.snapshot].generation \in Nat /\ published[shown.snapshot].generation <= shown.generation
      OBVIOUS
  <2>1. published \in Seq(Shown) BY DEF RequestStep, ReadsWorld, World
  <2>2. shown.snapshot \in 1 .. Len(published) /\ published[shown.snapshot].loop = reads.question.loop BY <1>5 DEF Own
  <2>3. published[shown.snapshot] \in Shown BY <2>1, <2>2
  <2>4. QED BY <2>2, <2>3 DEF Shown, RequestStep, ReadsWorld, World
<1>7. stale \in BOOLEAN /\ (stale <=> shown.snapshot # 0 /\ published[shown.snapshot].generation < shown.generation)
  BY <1>4, <1>6 DEF Reads!Stale
<1> HIDE DEF stale
<1>8. /\ DOMAIN a = {"generation", "snapshot", "stale", "sync", "files"}
      /\ a.generation = shown.generation /\ a.snapshot = shown.snapshot /\ a.stale = stale /\ a.sync = reads.sync /\ a.files = files
  OBVIOUS
<1>9. shown.snapshot = 0 => files = Reads!Empty OBVIOUS
<1>10. shown.snapshot # 0 => files = published[shown.snapshot].entries OBVIOUS
<1>11. ~ForeignTo(reads.question) /\ reads.sync \in {None} \cup 1 .. shown.generation BY <1>2 DEF ForeignTo
<1> HIDE DEF a, files, shown
<1>12. AnswerIsTrue(reads.question, a)
  BY <1>5, <1>7, <1>8, <1>9, <1>10, <1>11 DEF AnswerIsTrue
<1>13. QED BY <1>1, <1>3, <1>12, AnswerFits

\* A tree is a function from paths.
LEMMA TreesAreFunctions ==
  ASSUME ReadsWorld, NEW id \in 1 .. Len(published)
  PROVE  published[id].entries = [p \in DOMAIN published[id].entries |-> published[id].entries[p]]
<1>1. published \in Seq(Shown) BY DEF ReadsWorld, World
<1>2. published[id] \in Shown BY <1>1
<1>3. published[id].entries \in Tree BY <1>2 DEF Shown
<1>4. QED BY <1>3, ReadsAssumption

LEMMA EmptyIsFunction == Reads!Empty = [p \in DOMAIN Reads!Empty |-> Reads!Empty[p]]
BY DEF Reads!Empty

\* A difference that is shown is exact.
LEMMA DifferenceFits ==
  ASSUME ReadsWorld, NEW q, Own(q, q.to), q.from # None => Own(q, q.from), ~ForeignTo(q)
  PROVE  AnswerIsTrue(q, Reads!DiffManifests(FilesBefore(q), published[q.to].entries))
<1> DEFINE before == FilesBefore(q)
           after == published[q.to].entries
           a == Reads!DiffManifests(before, after)
<1>1. before = [p \in DOMAIN before |-> before[p]]
  <2>1. CASE q.from = None BY <2>1, EmptyIsFunction DEF FilesBefore
  <2>2. CASE q.from # None
    <3>1. q.from \in 1 .. Len(published) BY <2>2 DEF Own
    <3>2. before = published[q.from].entries BY <2>2 DEF FilesBefore
    <3>3. QED BY <3>1, <3>2, TreesAreFunctions
  <2>3. QED BY <2>1, <2>2
<1>2. after = [p \in DOMAIN after |-> after[p]] BY TreesAreFunctions DEF Own
<1> HIDE DEF after, before
<1>3. Exact(before, a, after) /\ DOMAIN a = {"added", "modified", "removed"} BY <1>1, <1>2, DiffIsExact
<1> HIDE DEF a
<1>4. Exact(FilesBefore(q), a, published[q.to].entries) BY <1>3 DEF before, after
<1>5. AnswerIsTrue(q, a) BY <1>3, <1>4 DEF AnswerIsTrue
<1>6. QED BY <1>5 DEF a, before, after

LEMMA ReadSnapshotFits ==
  ASSUME RequestStep("snapshot"), Reads!ReadSnapshot
  PROVE  RequestInv(reads')
<1> DEFINE q == reads.question
           id == IF q.kind = "run" THEN reads.seen ELSE q.to
           files == published[id].entries
<1>1. RequestShape(reads) /\ reads.pc = "snapshot" /\ q \in Reads!Questions /\ q.kind \in {"run", "diff", "download"}
      /\ ReadSoFar(reads)
  BY AtStep DEF StageFits
<1>2. q.loop \in Loop /\ Owner[q.loop] = q.team BY <1>1 DEF ReadSoFar, Shared
<1>3. ~ForeignTo(q) BY <1>2 DEF ForeignTo
<1>4. q.kind = "run" => reads.seen # 0 /\ boundTo[q.loop] = reads.seen BY <1>1 DEF ReadSoFar
<1>5. Reads!Mine(id) <=> Own(q, id) BY DEF Reads!Mine, Own, Reads!question
<1>6. CASE ~Own(q, id)
  <2>1. Reads!Refuse("snapshot_not_found") BY <1>5, <1>6 DEF Reads!ReadSnapshot, Reads!question
  <2>2. QED BY <1>1, <1>3, <2>1, RefusalFits
<1>7. CASE Own(q, id) /\ q.kind = "run"
  <2> DEFINE a == [state |-> "bound", snapshot |-> id, files |-> files]
  <2>1. Reads!Answer(a) BY <1>5, <1>7 DEF Reads!ReadSnapshot, Reads!question
  <2>2. id = reads.seen /\ id # 0 /\ id = boundTo[q.loop] BY <1>4, <1>7
  <2>3. DOMAIN a = {"state", "snapshot", "files"} /\ a.snapshot = id /\ a.files = files /\ a.state = "bound" OBVIOUS
  <2>4. files = published[id].entries OBVIOUS
  <2> HIDE DEF a, files, id
  <2>5. AnswerIsTrue(q, a) BY <1>2, <1>3, <1>7, <2>2, <2>3, <2>4 DEF AnswerIsTrue
  <2>6. QED BY <1>1, <2>1, <2>5, AnswerFits
<1>8. CASE Own(q, id) /\ q.kind = "diff" /\ q.from = None
  <2>1. Reads!Answer(Reads!DiffManifests(Reads!Empty, files)) BY <1>5, <1>8 DEF Reads!ReadSnapshot, Reads!question
  <2>2. id = q.to /\ FilesBefore(q) = Reads!Empty BY <1>8 DEF FilesBefore
  <2>3. Reads!Answer(Reads!DiffManifests(FilesBefore(q), published[q.to].entries)) BY <2>1, <2>2
  <2> HIDE DEF q
  <2>4. AnswerIsTrue(q, Reads!DiffManifests(FilesBefore(q), published[q.to].entries))
    BY <1>3, <1>8, <2>2, DifferenceFits DEF RequestStep
  <2>5. QED BY <1>1, <2>3, <2>4, AnswerFits DEF q
<1>9. CASE Own(q, id) /\ q.kind = "diff" /\ q.from # None
  <2>1. reads' = [reads EXCEPT !.pc = "from", !.seen = files] BY <1>5, <1>9 DEF Reads!ReadSnapshot, Reads!question
  <2>2. id = q.to /\ files = published[q.to].entries BY <1>9
  <2> HIDE DEF files, id
  <2>3. reads' = [pc |-> "from", question |-> q, sync |-> reads.sync, seen |-> files, answer |-> reads.answer]
    BY <1>1, <2>1 DEF RequestShape
  <2>4. RequestShape(reads') BY <1>1, <2>3 DEF RequestShape, Stage
  <2>5. StageFits(reads') BY <1>9, <2>3 DEF StageFits, Downloading
  <2>6. ReadSoFar(reads') BY <1>2, <1>9, <2>2, <2>3 DEF ReadSoFar, Shared, Downloading
  <2>7. QED BY <2>3, <2>4, <2>5, <2>6 DEF RequestInv
<1>10. CASE Own(q, id) /\ q.kind = "download" /\ q.path \notin DOMAIN files
  <2>1. Reads!Refuse("path_not_found") BY <1>5, <1>10 DEF Reads!ReadSnapshot, Reads!question
  <2>2. QED BY <1>1, <1>3, <2>1, RefusalFits
<1>11. CASE Own(q, id) /\ q.kind = "download" /\ q.path \in DOMAIN files
  <2> DEFINE hash == files[q.path]
  <2>1. reads' = [reads EXCEPT !.pc = "open", !.seen = hash] BY <1>5, <1>11 DEF Reads!ReadSnapshot, Reads!question
  <2>2. id = q.to BY <1>11
  <2> HIDE DEF hash, files, id
  <2>3. reads' = [pc |-> "open", question |-> q, sync |-> reads.sync, seen |-> hash, answer |-> reads.answer]
    BY <1>1, <2>1 DEF RequestShape
  <2>4. RequestShape(reads') BY <1>1, <2>3 DEF RequestShape, Stage
  <2>5. StageFits(reads') BY <1>11, <2>3 DEF StageFits, Downloading
  <2>6. ReadSoFar(reads') BY <1>2, <1>11, <2>2, <2>3 DEF ReadSoFar, Shared, Downloading
  <2>7. QED BY <2>3, <2>4, <2>5, <2>6 DEF RequestInv
<1>12. QED BY <1>1, <1>6, <1>7, <1>8, <1>9, <1>10, <1>11

LEMMA ReadFromFits ==
  ASSUME RequestStep("from"), Reads!ReadFrom
  PROVE  RequestInv(reads')
<1> DEFINE q == reads.question
<1>1. RequestShape(reads) /\ reads.pc = "from" /\ q \in Reads!Questions /\ ReadSoFar(reads)
  BY AtStep
<1>2. Owner[q.loop] = q.team /\ q.from # None /\ Own(q, q.to) /\ reads.seen = published[q.to].entries
  BY <1>1 DEF ReadSoFar, Shared
<1>3. ~ForeignTo(q) BY <1>2 DEF ForeignTo
<1>4. CASE ~Own(q, q.from)
  <2>1. Reads!Refuse("snapshot_not_found") BY <1>4 DEF Reads!ReadFrom, Reads!question, Reads!Mine, Own
  <2>2. QED BY <1>1, <1>3, <2>1, RefusalFits
<1>5. CASE Own(q, q.from)
  <2>1. Reads!Answer(Reads!DiffManifests(published[q.from].entries, reads.seen))
    BY <1>5 DEF Reads!ReadFrom, Reads!question, Reads!Mine, Own
  <2>2. FilesBefore(q) = published[q.from].entries BY <1>2 DEF FilesBefore
  <2>3. Reads!Answer(Reads!DiffManifests(FilesBefore(q), published[q.to].entries)) BY <1>2, <2>1, <2>2
  <2> HIDE DEF q
  <2>4. AnswerIsTrue(q, Reads!DiffManifests(FilesBefore(q), published[q.to].entries))
    BY <1>2, <1>3, <1>5, DifferenceFits DEF RequestStep
  <2>5. QED BY <1>1, <2>3, <2>4, AnswerFits DEF q
<1>6. QED BY <1>4, <1>5

\* A download that goes on, and one that ends, with whatever status.
LEMMA DownloadFits ==
  ASSUME NEW p \in Downloading, RequestStep(p),
         NEW pc0 \in Downloading, Reads!Goto(pc0)
  PROVE  RequestInv(reads')
<1>1. p # "idle" BY DEF Downloading
<1>2. RequestShape(reads) /\ reads.pc = p /\ StageFits(reads) /\ ReadSoFar(reads) /\ reads.question \in Reads!Questions
  BY <1>1, AtStep
<1>3. reads' = [pc |-> pc0, question |-> reads.question, sync |-> reads.sync, seen |-> reads.seen, answer |-> reads.answer]
  BY <1>2 DEF RequestShape, Reads!Goto
<1>4. RequestShape(reads') BY <1>2, <1>3 DEF RequestShape, Stage, Downloading
<1>5. StageFits(reads') /\ ReadSoFar(reads')
  BY <1>2, <1>3 DEF StageFits, ReadSoFar, Shared, Downloading
<1>6. pc0 # "answered" BY DEF Downloading
<1>7. QED BY <1>3, <1>4, <1>5, <1>6 DEF RequestInv

LEMMA DownloadRefused ==
  ASSUME NEW p \in Downloading, RequestStep(p), NEW why, Reads!Refuse(why)
  PROVE  RequestInv(reads')
<1>1. p # "idle" BY DEF Downloading
<1>2. RequestShape(reads) /\ reads.pc = p /\ ReadSoFar(reads) BY <1>1, AtStep
<1>3. ~ForeignTo(reads.question) BY <1>2 DEF ReadSoFar, Shared, ForeignTo
<1>4. reads.pc # "idle" BY <1>1, <1>2
<1>5. QED BY <1>2, <1>3, <1>4, RefusalFits

LEMMA DownloadAnswered ==
  ASSUME NEW p \in Downloading, RequestStep(p), Reads!Answer([status |-> 200])
  PROVE  RequestInv(reads')
<1>1. p # "idle" BY DEF Downloading
<1>2. RequestShape(reads) /\ reads.pc = p /\ ReadSoFar(reads) BY <1>1, AtStep
<1>3. ~ForeignTo(reads.question) BY <1>2 DEF ReadSoFar, Shared, ForeignTo
<1> DEFINE a == [status |-> 200]
<1>4. DOMAIN a = {"status"} OBVIOUS
<1>5. Reads!Answer(a) /\ reads.pc # "idle" BY <1>1, <1>2
<1> HIDE DEF a
<1>6. AnswerIsTrue(reads.question, a) BY <1>3, <1>4 DEF AnswerIsTrue
<1>7. QED BY <1>2, <1>5, <1>6, AnswerFits

(* The download: its file is let go of once, by whoever comes first. *)

Outcome == {None, "eof", "gone", "cancelled", "storage_error"}
Response == [file : {"none", "open", "closed"}, left : Nat, gone : BOOLEAN, settled : BOOLEAN, hooked : BOOLEAN,
             pulling : BOOLEAN, ended : BOOLEAN, sent : Nat, why : Outcome]

\* Whatever the stage: what is settled holds nothing, and why it was settled is true.
Honest(d) ==
  /\ d.settled => ~d.hooked /\ d.file # "open"
  /\ ~d.settled => d.why = None
  /\ d.why = "eof" => d.sent = Chunks

\* The stage p of the request and its response d.
DownloadFollows(p, d) ==
  /\ d \in Response /\ Honest(d)
  /\ d.file = "open" => p \in {"compose", "body"}
  /\ p \notin {"compose", "body", "answered"} => d.file = "none" /\ d.sent = 0 /\ ~d.settled /\ ~d.hooked
  /\ p = "compose" => ~d.settled /\ ~d.hooked /\ d.sent + d.left = Chunks
  /\ p = "body" => /\ d.settled \/ d.hooked
                   /\ d.gone => d.settled
                   /\ ~d.settled => d.sent + d.left = Chunks

LEMMA ResponseFields ==
  ASSUME NEW d \in Response
  PROVE  /\ d.file \in {"none", "open", "closed"} /\ d.left \in Nat /\ d.sent \in Nat /\ d.why \in Outcome
         /\ d.gone \in BOOLEAN /\ d.settled \in BOOLEAN /\ d.hooked \in BOOLEAN
         /\ d.pulling \in BOOLEAN /\ d.ended \in BOOLEAN
BY DEF Response

LEMMA ClosedHolds ==
  ASSUME NEW d \in Response
  PROVE  LET c == Reads!Closed(d)
         IN  /\ c \in Response /\ c.file # "open" /\ c.left = d.left /\ c.sent = d.sent /\ c.why = d.why
             /\ c.gone = d.gone /\ c.settled = d.settled /\ c.hooked = d.hooked /\ c.pulling = d.pulling /\ c.ended = d.ended
<1> DEFINE f == IF d.file = "open" THEN "closed" ELSE d.file
<1>1. f \in {"none", "closed"} BY DEF Response
<1>2. Reads!Closed(d) = [d EXCEPT !.file = f] BY DEF Reads!Closed
<1> HIDE DEF f
<1>3. QED BY <1>1, <1>2 DEF Response

\* The release: the first one says why, a later one changes nothing.
LEMMA ReleaseHolds ==
  ASSUME NEW d \in Response, Honest(d), NEW why0 \in Outcome, why0 = "eof" => d.sent = Chunks
  PROVE  LET c == Reads!Release(d, why0)
         IN  /\ c \in Response /\ Honest(c) /\ c.settled /\ c.file # "open" /\ ~c.hooked
             /\ c.left = d.left /\ c.sent = d.sent /\ c.gone = d.gone /\ c.pulling = d.pulling /\ c.ended = d.ended
<1>1. CASE d.settled BY <1>1 DEF Reads!Release, Honest
<1>2. CASE ~d.settled
  <2> DEFINE e == Reads!Closed(d)
             c == [e EXCEPT !.settled = TRUE, !.hooked = FALSE, !.why = why0]
  <2>1. Reads!Release(d, why0) = c BY <1>2 DEF Reads!Release
  <2>2. e \in Response /\ e.file # "open" /\ e.left = d.left /\ e.sent = d.sent
        /\ e.gone = d.gone /\ e.pulling = d.pulling /\ e.ended = d.ended
    BY ClosedHolds
  <2> HIDE DEF e
  <2>3. c \in Response /\ c.settled /\ ~c.hooked /\ c.why = why0 /\ c.file = e.file /\ c.left = e.left /\ c.sent = e.sent
        /\ c.gone = e.gone /\ c.pulling = e.pulling /\ c.ended = e.ended
    BY <2>2 DEF Response
  <2> HIDE DEF c
  <2>4. Honest(c) BY <2>2, <2>3 DEF Honest
  <2>5. QED BY <2>1, <2>2, <2>3, <2>4
<1>3. QED BY <1>1, <1>2

DownloadInv == DownloadFollows(reads.pc, download)

\* Until the file is opened a request leaves its response alone.
LEMMA BeforeTheFile ==
  ASSUME DownloadInv, UNCHANGED download,
         reads.pc \notin {"compose", "body", "answered"}, reads'.pc \notin {"compose", "body"}
  PROVE  DownloadInv'
BY DEF DownloadInv, DownloadFollows, Honest

LEMMA MetaGoto ==
  ASSUME RequestShape(reads), NEW pc0, Reads!Goto(pc0)
  PROVE  reads'.pc = pc0
BY DEF RequestShape, Reads!Goto

LEMMA MetaAnswer ==
  ASSUME RequestShape(reads), NEW a, Reads!Answer(a)
  PROVE  reads'.pc = "answered"
BY DEF RequestShape, Reads!Answer

LEMMA OpenBlobFollows ==
  ASSUME RequestShape(reads), DownloadInv, Reads!OpenBlob
  PROVE  DownloadInv'
<1>1. reads.pc = "open" BY DEF Reads!OpenBlob, Reads!Waits
<1>2. CASE Reads!Goto("compose") /\ download' = [download EXCEPT !.file = "open", !.left = Chunks]
  <2>1. reads'.pc = "compose" BY <1>2, MetaGoto
  <2>2. download \in Response /\ Honest(download) /\ download.sent = 0 /\ ~download.settled /\ ~download.hooked
    BY <1>1 DEF DownloadInv, DownloadFollows
  <2>3. Chunks \in Nat BY ReadsAssumption
  <2> DEFINE d == [download EXCEPT !.file = "open", !.left = Chunks]
  <2>4. d \in Response /\ d.sent = 0 /\ ~d.settled /\ ~d.hooked /\ d.left = Chunks /\ d.why = download.why
    BY <2>2, <2>3 DEF Response
  <2>5. download' = d BY <1>2
  <2> HIDE DEF d
  <2>6. Honest(d) BY <2>2, <2>4 DEF Honest
  <2>7. d.sent + d.left = Chunks BY <2>3, <2>4
  <2>8. QED BY <2>1, <2>4, <2>5, <2>6, <2>7 DEF DownloadInv, DownloadFollows
<1>3. CASE \E why \in {"path_not_found", "storage_error"} : Reads!Refuse(why) /\ UNCHANGED download
  <2>1. reads'.pc = "answered" BY <1>3, MetaAnswer DEF Reads!Refuse
  <2>2. QED BY <1>1, <1>3, <2>1, BeforeTheFile
<1>4. QED BY <1>2, <1>3 DEF Reads!OpenBlob

LEMMA ComposeFollows ==
  ASSUME RequestShape(reads), DownloadInv, Reads!Compose
  PROVE  DownloadInv'
<1>1. reads.pc = "compose" BY DEF Reads!Compose, Reads!Waits
<1>2. /\ download \in Response /\ Honest(download) /\ ~download.settled /\ ~download.hooked
      /\ download.sent + download.left = Chunks
  BY <1>1 DEF DownloadInv, DownloadFollows
<1>3. ASSUME NEW a, Reads!Answer(a), download' = Reads!Closed(download)
      PROVE  DownloadInv'
  <2>1. reads'.pc = "answered" BY <1>3, MetaAnswer
  <2> DEFINE c == Reads!Closed(download)
  <2>2. c \in Response /\ c.file # "open" /\ c.sent = download.sent /\ c.why = download.why
        /\ c.settled = download.settled /\ c.hooked = download.hooked
    BY <1>2, ClosedHolds
  <2>3. download' = c BY <1>3
  <2> HIDE DEF c
  <2>4. Honest(c) BY <1>2, <2>2 DEF Honest
  <2>5. QED BY <2>1, <2>2, <2>3, <2>4 DEF DownloadInv, DownloadFollows
<1>4. CASE Reads!Refuse("internal") /\ download' = Reads!Closed(download) BY <1>3, <1>4 DEF Reads!Refuse
<1>5. CASE Reads!Answer([status |-> 200]) /\ download' = Reads!Closed(download) BY <1>3, <1>5
<1>6. CASE ~Reads!GoneBefore /\ Reads!Goto("body") /\ download' = [download EXCEPT !.hooked = TRUE]
  <2>1. reads'.pc = "body" BY <1>6, MetaGoto
  <2> DEFINE d == [download EXCEPT !.hooked = TRUE]
  <2>2. d \in Response /\ d.hooked /\ d.settled = download.settled /\ d.gone = download.gone /\ d.file = download.file
        /\ d.sent = download.sent /\ d.left = download.left /\ d.why = download.why
    BY <1>2 DEF Response
  <2>3. download' = d /\ ~download.gone BY <1>6 DEF Reads!GoneBefore
  <2> HIDE DEF d
  <2>4. Honest(d) BY <1>2, <2>2 DEF Honest
  <2>5. QED BY <1>2, <2>1, <2>2, <2>3, <2>4 DEF DownloadInv, DownloadFollows
<1>7. QED BY <1>4, <1>5, <1>6 DEF Reads!Compose

\* The client leaves: what is hooked is released, what is not is composed no more.
LEMMA ClientLeavesFollows ==
  ASSUME DownloadInv, Reads!ClientLeaves
  PROVE  DownloadInv'
<1> DEFINE c == IF download.hooked THEN Reads!Release(download, "gone") ELSE download
           d == [c EXCEPT !.gone = TRUE]
<1>1. download' = d /\ reads' = reads /\ reads.pc \in {"open", "compose", "body"} BY DEF Reads!ClientLeaves
<1>2. download \in Response /\ Honest(download) BY DEF DownloadInv, DownloadFollows
<1>3. CASE download.hooked
  <2>1. reads.pc = "body" BY <1>1, <1>3 DEF DownloadInv, DownloadFollows
  <2>2. "gone" \in Outcome /\ "gone" # "eof" BY DEF Outcome
  <2>3. c \in Response /\ Honest(c) /\ c.settled /\ c.file # "open" /\ ~c.hooked BY <1>2, <1>3, <2>2, ReleaseHolds
  <2> HIDE DEF c
  <2>4. d \in Response /\ d.settled /\ d.file = c.file /\ d.hooked = c.hooked /\ d.why = c.why /\ d.sent = c.sent
        /\ d.settled = c.settled
    BY <2>3 DEF Response
  <2> HIDE DEF d
  <2>5. Honest(d) BY <2>3, <2>4 DEF Honest
  <2>6. QED BY <1>1, <2>1, <2>3, <2>4, <2>5 DEF DownloadInv, DownloadFollows
<1>4. CASE ~download.hooked
  <2>1. c = download BY <1>4
  <2> HIDE DEF c
  <2>2. d \in Response /\ d.gone /\ d.file = download.file /\ d.hooked = download.hooked /\ d.why = download.why
        /\ d.sent = download.sent /\ d.left = download.left /\ d.settled = download.settled
    BY <1>2, <2>1 DEF Response
  <2> HIDE DEF d
  <2>3. Honest(d) BY <1>2, <2>2 DEF Honest
  <2>4. QED BY <1>1, <1>4, <2>2, <2>3 DEF DownloadInv, DownloadFollows
<1>5. QED BY <1>3, <1>4

LEMMA CancelFollows ==
  ASSUME DownloadInv, Reads!Cancel
  PROVE  DownloadInv'
<1> DEFINE c == Reads!Release(download, "cancelled")
           d == [c EXCEPT !.ended = TRUE]
<1>1. download' = d /\ reads' = reads /\ reads.pc = "body" BY DEF Reads!Cancel, Reads!Waits
<1>2. download \in Response /\ Honest(download) BY DEF DownloadInv, DownloadFollows
<1>3. "cancelled" \in Outcome /\ "cancelled" # "eof" BY DEF Outcome
<1>4. c \in Response /\ Honest(c) /\ c.settled /\ c.file # "open" /\ ~c.hooked BY <1>2, <1>3, ReleaseHolds
<1> HIDE DEF c
<1>5. d \in Response /\ d.settled = c.settled /\ d.file = c.file /\ d.hooked = c.hooked /\ d.why = c.why /\ d.sent = c.sent
  BY <1>4 DEF Response
<1> HIDE DEF d
<1>6. Honest(d) BY <1>4, <1>5 DEF Honest
<1>7. QED BY <1>1, <1>4, <1>5, <1>6 DEF DownloadInv, DownloadFollows

LEMMA PullFollows ==
  ASSUME DownloadInv, Reads!Pull
  PROVE  DownloadInv'
<1>1. reads' = reads /\ reads.pc = "body" BY DEF Reads!Pull, Reads!Waits
<1>2. download \in Response BY DEF DownloadInv, DownloadFollows
<1>3. \/ download' = [download EXCEPT !.ended = TRUE]
      \/ download' = [download EXCEPT !.pulling = TRUE]
  BY DEF Reads!Pull
<1>4. /\ download' \in Response /\ download'.settled = download.settled /\ download'.file = download.file
      /\ download'.hooked = download.hooked /\ download'.why = download.why /\ download'.sent = download.sent
      /\ download'.left = download.left /\ download'.gone = download.gone
  BY <1>2, <1>3 DEF Response
<1>5. QED BY <1>1, <1>4 DEF DownloadInv, DownloadFollows, Honest

\* A chunk, the end of the file, a failure, or nothing for who has gone.
LEMMA ArriveFollows ==
  ASSUME DownloadInv, Reads!Arrive
  PROVE  DownloadInv'
<1> DEFINE d == [download EXCEPT !.pulling = FALSE]
<1>1. reads' = reads /\ reads.pc = "body" BY DEF Reads!Arrive, Reads!Waits
<1>2. download \in Response /\ Honest(download) /\ (~download.settled => download.sent + download.left = Chunks)
      /\ (download.settled \/ download.hooked) /\ (download.gone => download.settled)
  BY <1>1 DEF DownloadInv, DownloadFollows
<1>3. /\ d \in Response /\ d.settled = download.settled /\ d.file = download.file /\ d.hooked = download.hooked
      /\ d.why = download.why /\ d.sent = download.sent /\ d.left = download.left /\ d.gone = download.gone
  BY <1>2 DEF Response
<1>4. \/ d.settled /\ download' = d
      \/ ~d.settled /\ d.left > 0 /\ download' = [d EXCEPT !.left = d.left - 1, !.sent = d.sent + 1]
      \/ ~d.settled /\ d.left = 0 /\ download' = [Reads!Release(d, "eof") EXCEPT !.ended = TRUE]
      \/ ~d.settled /\ download' = [Reads!Release(d, "storage_error") EXCEPT !.ended = TRUE]
  BY DEF Reads!Arrive
<1> HIDE DEF d
<1>5. Honest(d) BY <1>2, <1>3 DEF Honest
<1>6. CASE d.settled /\ download' = d
  BY <1>1, <1>2, <1>3, <1>5, <1>6 DEF DownloadInv, DownloadFollows, Honest
<1>7. CASE ~d.settled /\ d.left > 0 /\ download' = [d EXCEPT !.left = d.left - 1, !.sent = d.sent + 1]
  <2> DEFINE l0 == d.left - 1
             s0 == d.sent + 1
             e == [d EXCEPT !.left = l0, !.sent = s0]
  <2>1. d.left \in Nat /\ d.sent \in Nat BY <1>3, ResponseFields
  <2>2. Chunks \in Nat /\ d.sent + d.left = Chunks BY <1>2, <1>3, <1>7, ReadsAssumption
  <2>3. l0 \in Nat /\ s0 \in Nat /\ s0 + l0 = Chunks BY <1>7, <2>1, <2>2
  <2>4. download' = e BY <1>7
  <2> HIDE DEF l0, s0
  <2>5. /\ e \in Response /\ e.settled = d.settled /\ e.file = d.file /\ e.hooked = d.hooked
        /\ e.why = d.why /\ e.sent = s0 /\ e.left = l0 /\ e.gone = d.gone
    BY <1>3, <2>3 DEF Response
  <2> HIDE DEF e
  <2>6. d.why = None /\ None # "eof" BY <1>5, <1>7, ReadsAssumption DEF Honest
  <2>7. Honest(e) BY <1>5, <1>7, <2>5, <2>6 DEF Honest
  <2>8. e.sent + e.left = Chunks BY <2>3, <2>5
  <2>9. QED BY <1>1, <1>2, <1>3, <1>7, <2>4, <2>5, <2>7, <2>8 DEF DownloadInv, DownloadFollows
<1>8. ASSUME NEW why0 \in {"eof", "storage_error"}, why0 = "eof" => d.left = 0, ~d.settled,
             download' = [Reads!Release(d, why0) EXCEPT !.ended = TRUE]
      PROVE  DownloadInv'
  <2> DEFINE c == Reads!Release(d, why0)
             e == [c EXCEPT !.ended = TRUE]
  <2>1. d.left \in Nat /\ d.sent \in Nat BY <1>3, ResponseFields
  <2>2. why0 = "eof" => d.sent = Chunks BY <1>2, <1>3, <1>8, <2>1
  <2>3. why0 \in Outcome BY <1>8 DEF Outcome
  <2>4. c \in Response /\ Honest(c) /\ c.settled /\ c.file # "open" /\ ~c.hooked BY <1>3, <1>5, <2>2, <2>3, ReleaseHolds
  <2>5. download' = e BY <1>8
  <2> HIDE DEF c
  <2>6. e \in Response /\ e.settled = c.settled /\ e.file = c.file /\ e.hooked = c.hooked /\ e.why = c.why /\ e.sent = c.sent
    BY <2>4 DEF Response
  <2> HIDE DEF e
  <2>7. Honest(e) BY <2>4, <2>6 DEF Honest
  <2>8. QED BY <1>1, <2>4, <2>5, <2>6, <2>7 DEF DownloadInv, DownloadFollows
<1>9. QED BY <1>4, <1>6, <1>7, <1>8

LEMMA FinishFollows ==
  ASSUME RequestShape(reads), DownloadInv, Reads!Finish
  PROVE  DownloadInv'
<1>1. reads'.pc = "answered" BY MetaAnswer DEF Reads!Finish
<1>2. download' = download /\ download.settled /\ reads.pc = "body" BY DEF Reads!Finish, Reads!Waits
<1>3. QED BY <1>1, <1>2 DEF DownloadInv, DownloadFollows, Honest

ReadsInv == ReadsWorld /\ RequestInv(reads) /\ DownloadInv

LEMMA ReadsInit ==
  ASSUME Reads!Init
  PROVE  ReadsInv
<1> DEFINE tree0 == CHOOSE tree \in Tree : TRUE
           m == [loop |-> Neighbour, generation |-> 1, entries |-> tree0]
<1>1. /\ published = <<m>> /\ reads = Reads!Idle /\ download = Reads!NoDownload
      /\ loops = [l \in Loop |-> [dir |-> TRUE, generation |-> 1, attempted |-> FALSE,
                                  snapshot |-> IF l = Neighbour THEN 1 ELSE 0]]
      /\ boundTo = [l \in Loop |-> loops[l].snapshot]
  BY DEF Reads!Init
<1>2. tree0 \in Tree BY ReadsAssumption
<1> HIDE DEF tree0
<1>3. m \in Shown /\ m.loop = Neighbour /\ m.generation = 1 BY <1>2, ReadsAssumption DEF Shown
<1> HIDE DEF m
<1>4. published \in Seq(Shown) /\ Len(published) = 1 /\ published[1] = m BY <1>1, <1>3
<1>5. \A l \in Loop : loops[l] \in ShownRow /\ loops[l].generation = 1
                      /\ (l = Neighbour => loops[l].snapshot = 1) /\ (l # Neighbour => loops[l].snapshot = 0)
  BY <1>1 DEF ShownRow
<1>6. loops \in [Loop -> ShownRow] BY <1>1, <1>5
<1>7. boundTo \in [Loop -> Nat] /\ \A l \in Loop : boundTo[l] = loops[l].snapshot BY <1>1, <1>5
<1>8. Neighbour \in Loop BY ReadsAssumption
<1>9. ReadsWorld BY <1>3, <1>4, <1>5, <1>6, <1>7, <1>8 DEF ReadsWorld, World
<1>10. reads = [pc |-> "idle", question |-> None, sync |-> None, seen |-> None, answer |-> None]
  BY <1>1 DEF Reads!Idle
<1>11. RequestInv(reads) BY <1>10 DEF RequestInv, RequestShape, Stage
<1>12. download = [file |-> "none", left |-> 0, gone |-> FALSE, settled |-> FALSE, hooked |-> FALSE,
                   pulling |-> FALSE, ended |-> FALSE, sent |-> 0, why |-> None]
  BY <1>1 DEF Reads!NoDownload
<1>13. download \in Response BY <1>12 DEF Response, Outcome
<1>14. DownloadInv BY <1>10, <1>12, <1>13, ReadsAssumption DEF DownloadInv, DownloadFollows, Honest
<1>15. QED BY <1>9, <1>11, <1>14 DEF ReadsInv

\* The steps of a request before its download.
Before == \/ \E q \in Reads!Questions : Reads!Ask(q)
          \/ Reads!ReadRun \/ Reads!ReadRow \/ Reads!ReadMachineRow \/ Reads!CheckTeam \/ Reads!Attribute
          \/ Reads!View \/ Reads!ReadSnapshot \/ Reads!ReadFrom

LEMMA BeforeStaysBefore ==
  ASSUME RequestInv(reads), Before
  PROVE  reads'.pc \notin {"compose", "body"} /\ reads.pc \notin {"compose", "body", "answered"}
         /\ UNCHANGED download /\ StandsStill
<1>0. RequestShape(reads) BY DEF RequestInv
<1>1. ASSUME NEW a, Reads!Answer(a) PROVE reads'.pc \notin {"compose", "body"} BY <1>0, <1>1, MetaAnswer
<1>2. ASSUME NEW pc0, Reads!Goto(pc0), pc0 \notin {"compose", "body"} PROVE reads'.pc \notin {"compose", "body"}
  BY <1>0, <1>2, MetaGoto
<1>3. ASSUME NEW q \in Reads!Questions, Reads!Ask(q)
      PROVE  reads'.pc \notin {"compose", "body"} /\ reads.pc = "idle" /\ UNCHANGED download /\ StandsStill
  <2> DEFINE pc0 == CASE q.kind = "run" -> "run" [] q.kind = "machine" -> "attribution" [] OTHER -> "row"
  <2>1. pc0 \in {"run", "attribution", "row"}
    <3>1. q.kind \in {"loop", "machine", "run", "diff", "download"} BY QuestionFields
    <3>2. QED BY <3>1
  <2>2. reads' = [Reads!Idle EXCEPT !.question = q, !.pc = pc0] BY <1>3 DEF Reads!Ask
  <2> HIDE DEF pc0
  <2>3. reads'.pc = pc0 BY <2>2 DEF Reads!Idle
  <2>4. QED BY <1>3, <2>1, <2>3 DEF Reads!Ask, StandsStill
<1>4. CASE Reads!ReadRun
  <2>1. \/ Reads!Refuse("run_not_found")
        \/ \E b : reads' = [reads EXCEPT !.pc = "row", !.seen = b]
    BY <1>4 DEF Reads!ReadRun
  <2>2. reads'.pc \notin {"compose", "body"} BY <1>0, <1>1, <2>1 DEF Reads!Refuse, RequestShape
  <2>3. QED BY <1>4, <2>2 DEF Reads!ReadRun, Reads!Waits, StandsStill
<1>5. CASE Reads!ReadRow
  <2>1. \/ Reads!Refuse("loop_not_found")
        \/ \E s : reads' = [reads EXCEPT !.pc = "team", !.sync = s]
    BY <1>5 DEF Reads!ReadRow
  <2>2. reads'.pc \notin {"compose", "body"} BY <1>0, <1>1, <2>1 DEF Reads!Refuse, RequestShape
  <2>3. QED BY <1>5, <2>2 DEF Reads!ReadRow, Reads!Waits, StandsStill
<1>6. CASE Reads!ReadMachineRow
  <2>1. \E a : Reads!Answer(a) BY <1>6 DEF Reads!ReadMachineRow, Reads!Refuse
  <2>2. QED BY <1>1, <1>6, <2>1 DEF Reads!ReadMachineRow, Reads!Waits, StandsStill
<1>7. CASE Reads!CheckTeam
  <2>1. Reads!Goto("attribution") \/ \E a : Reads!Answer(a) BY <1>7 DEF Reads!CheckTeam, Reads!Refuse
  <2>2. QED BY <1>1, <1>2, <1>7, <2>1 DEF Reads!CheckTeam, Reads!Waits, StandsStill
<1>8. CASE Reads!Attribute
  <2>1. \/ Reads!Goto("machine_row") \/ Reads!Goto("view") \/ Reads!Goto("snapshot")
        \/ \E a : Reads!Answer(a)
    BY <1>8 DEF Reads!Attribute, Reads!Refuse
  <2>2. QED BY <1>1, <1>2, <1>8, <2>1 DEF Reads!Attribute, Reads!Waits, StandsStill
<1>9. CASE Reads!View
  <2>1. \E a : Reads!Answer(a) BY <1>9 DEF Reads!View
  <2>2. QED BY <1>1, <1>9, <2>1 DEF Reads!View, Reads!Waits, StandsStill
<1>10. CASE Reads!ReadSnapshot
  <2> DEFINE id == IF reads.question.kind = "run" THEN reads.seen ELSE reads.question.to
             files == published[id].entries
  <2>1. /\ Reads!Waits("snapshot") /\ UNCHANGED download
        /\ CASE ~Reads!Mine(id) -> Reads!Refuse("snapshot_not_found")
             [] Reads!Mine(id) /\ reads.question.kind = "run" ->
                  Reads!Answer([state |-> "bound", snapshot |-> id, files |-> files])
             [] Reads!Mine(id) /\ reads.question.kind = "diff" ->
                  IF reads.question.from = None THEN Reads!Answer(Reads!DiffManifests(Reads!Empty, files))
                  ELSE reads' = [reads EXCEPT !.pc = "from", !.seen = files]
             [] Reads!Mine(id) /\ reads.question.kind = "download" ->
                  IF reads.question.path \notin DOMAIN files THEN Reads!Refuse("path_not_found")
                  ELSE reads' = [reads EXCEPT !.pc = "open", !.seen = files[reads.question.path]]
    BY <1>10 DEF Reads!ReadSnapshot, Reads!question
  <2> HIDE DEF files, id
  <2>2. reads.pc = "snapshot" /\ StandsStill BY <2>1 DEF Reads!Waits, StandsStill
  <2>3. reads.question.kind \in {"run", "diff", "download"} BY <2>2 DEF RequestInv, StageFits
  <2>4. \/ \E a : Reads!Answer(a)
        \/ \E s : reads' = [reads EXCEPT !.pc = "from", !.seen = s]
        \/ \E s : reads' = [reads EXCEPT !.pc = "open", !.seen = s]
    <3>1. CASE ~Reads!Mine(id) BY <2>1, <3>1 DEF Reads!Refuse
    <3>2. CASE Reads!Mine(id) /\ reads.question.kind = "run" BY <2>1, <3>2
    <3>3. CASE Reads!Mine(id) /\ reads.question.kind = "diff"
      <4>1. IF reads.question.from = None THEN Reads!Answer(Reads!DiffManifests(Reads!Empty, files))
            ELSE reads' = [reads EXCEPT !.pc = "from", !.seen = files]
        BY <2>1, <3>3
      <4>2. QED BY <4>1
    <3>4. CASE Reads!Mine(id) /\ reads.question.kind = "download"
      <4>1. IF reads.question.path \notin DOMAIN files THEN Reads!Refuse("path_not_found")
            ELSE reads' = [reads EXCEPT !.pc = "open", !.seen = files[reads.question.path]]
        BY <2>1, <3>4
      <4>2. QED BY <4>1 DEF Reads!Refuse
    <3>5. QED BY <2>3, <3>1, <3>2, <3>3, <3>4
  <2>5. reads'.pc \notin {"compose", "body"} BY <1>0, <1>1, <2>4 DEF RequestShape
  <2>6. QED BY <2>1, <2>2, <2>5
<1>11. CASE Reads!ReadFrom
  <2>1. \E a : Reads!Answer(a) BY <1>11 DEF Reads!ReadFrom, Reads!Refuse
  <2>2. QED BY <1>1, <1>11, <2>1 DEF Reads!ReadFrom, Reads!Waits, StandsStill
<1>12. QED BY <1>3, <1>4, <1>5, <1>6, <1>7, <1>8, <1>9, <1>10, <1>11 DEF Before

LEMMA BeforeFits ==
  ASSUME ReadsInv, Before
  PROVE  RequestInv(reads')
<1>1. ReadsWorld /\ RequestInv(reads) /\ RequestShape(reads) BY DEF ReadsInv, RequestInv
<1>2. StandsStill BY <1>1, BeforeStaysBefore
<1>3. \A p : reads.pc = p => RequestStep(p) BY <1>1, <1>2 DEF RequestStep
<1>4. ASSUME NEW q \in Reads!Questions, Reads!Ask(q) PROVE RequestInv(reads')
  <2>1. RequestStep("idle") BY <1>3, <1>4 DEF Reads!Ask
  <2>2. QED BY <1>4, <2>1, AskFits
<1>5. CASE Reads!ReadRun
  <2>1. RequestStep("run") BY <1>3, <1>5 DEF Reads!ReadRun, Reads!Waits
  <2>2. QED BY <1>5, <2>1, ReadRunFits
<1>6. CASE Reads!ReadRow
  <2>1. RequestStep("row") BY <1>3, <1>6 DEF Reads!ReadRow, Reads!Waits
  <2>2. QED BY <1>6, <2>1, ReadRowFits
<1>7. CASE Reads!ReadMachineRow
  <2>1. RequestStep("machine_row") BY <1>3, <1>7 DEF Reads!ReadMachineRow, Reads!Waits
  <2>2. QED BY <1>7, <2>1, ReadMachineRowFits
<1>8. CASE Reads!CheckTeam
  <2>1. RequestStep("team") BY <1>3, <1>8 DEF Reads!CheckTeam, Reads!Waits
  <2>2. QED BY <1>8, <2>1, CheckTeamFits
<1>9. CASE Reads!Attribute
  <2>1. RequestStep("attribution") BY <1>3, <1>9 DEF Reads!Attribute, Reads!Waits
  <2>2. QED BY <1>9, <2>1, AttributeFits
<1>10. CASE Reads!View
  <2>1. RequestStep("view") BY <1>3, <1>10 DEF Reads!View, Reads!Waits
  <2>2. QED BY <1>10, <2>1, ViewFits
<1>11. CASE Reads!ReadSnapshot
  <2>1. RequestStep("snapshot") BY <1>3, <1>11 DEF Reads!ReadSnapshot, Reads!Waits
  <2>2. QED BY <1>11, <2>1, ReadSnapshotFits
<1>12. CASE Reads!ReadFrom
  <2>1. RequestStep("from") BY <1>3, <1>12 DEF Reads!ReadFrom, Reads!Waits
  <2>2. QED BY <1>12, <2>1, ReadFromFits
<1>13. QED BY <1>4, <1>5, <1>6, <1>7, <1>8, <1>9, <1>10, <1>11, <1>12 DEF Before

LEMMA DownloadKeeps ==
  ASSUME ReadsInv,
         \/ Reads!OpenBlob \/ Reads!Compose \/ Reads!ClientLeaves \/ Reads!Cancel \/ Reads!Pull \/ Reads!Arrive \/ Reads!Finish
  PROVE  RequestInv(reads') /\ DownloadInv' /\ StandsStill
<1>1. ReadsWorld /\ RequestInv(reads) /\ RequestShape(reads) /\ DownloadInv BY DEF ReadsInv, RequestInv
<1>2. StandsStill
  BY DEF Reads!OpenBlob, Reads!Compose, Reads!ClientLeaves, Reads!Cancel, Reads!Pull, Reads!Arrive, Reads!Finish,
         Reads!Waits, StandsStill
<1>3. \A p : reads.pc = p => RequestStep(p) BY <1>1, <1>2 DEF RequestStep
<1>4. {"open", "compose", "body"} = Downloading BY DEF Downloading
<1>5. CASE Reads!OpenBlob
  <2>1. RequestStep("open") BY <1>3, <1>5 DEF Reads!OpenBlob, Reads!Waits
  <2>2. Reads!Goto("compose") \/ \E why : Reads!Refuse(why) BY <1>5 DEF Reads!OpenBlob
  <2>3. RequestInv(reads') BY <1>4, <2>1, <2>2, DownloadFits, DownloadRefused
  <2>4. QED BY <1>1, <1>2, <1>5, <2>3, OpenBlobFollows
<1>6. CASE Reads!Compose
  <2>1. RequestStep("compose") BY <1>3, <1>6 DEF Reads!Compose, Reads!Waits
  <2>2. Reads!Goto("body") \/ Reads!Refuse("internal") \/ Reads!Answer([status |-> 200]) BY <1>6 DEF Reads!Compose
  <2>3. RequestInv(reads') BY <1>4, <2>1, <2>2, DownloadFits, DownloadRefused, DownloadAnswered
  <2>4. QED BY <1>1, <1>2, <1>6, <2>3, ComposeFollows
<1>7. CASE Reads!ClientLeaves
  <2>1. reads' = reads BY <1>7 DEF Reads!ClientLeaves
  <2>2. QED BY <1>1, <1>2, <1>7, <2>1, ClientLeavesFollows
<1>8. CASE Reads!Cancel
  <2>1. reads' = reads BY <1>8 DEF Reads!Cancel
  <2>2. QED BY <1>1, <1>2, <1>8, <2>1, CancelFollows
<1>9. CASE Reads!Pull
  <2>1. reads' = reads BY <1>9 DEF Reads!Pull
  <2>2. QED BY <1>1, <1>2, <1>9, <2>1, PullFollows
<1>10. CASE Reads!Arrive
  <2>1. reads' = reads BY <1>10 DEF Reads!Arrive
  <2>2. QED BY <1>1, <1>2, <1>10, <2>1, ArriveFollows
<1>11. CASE Reads!Finish
  <2>1. RequestStep("body") BY <1>3, <1>11 DEF Reads!Finish, Reads!Waits
  <2>2. Reads!Answer([status |-> 200]) BY <1>11 DEF Reads!Finish
  <2>3. RequestInv(reads') BY <1>4, <2>1, <2>2, DownloadAnswered
  <2>4. QED BY <1>1, <1>2, <1>11, <2>3, FinishFollows
<1>12. QED BY <1>5, <1>6, <1>7, <1>8, <1>9, <1>10, <1>11

LEMMA ReadsStep ==
  ASSUME ReadsInv, Reads!Next \/ UNCHANGED Reads!readVars
  PROVE  ReadsInv'
<1>1. ReadsWorld /\ RequestInv(reads) /\ RequestShape(reads) /\ DownloadInv BY DEF ReadsInv, RequestInv
<1>2. ASSUME ReadsWorld', Grows, UNCHANGED <<reads, download>> PROVE ReadsInv'
  <2>1. RequestInv(reads)'
    <3>1. \A r : RequestInv(r) => RequestInv(r)' BY <1>1, <1>2, RequestsLast
    <3>2. PICK r0 : r0 = reads /\ RequestInv(r0)' BY <1>1, <3>1
    <3>3. reads' = r0 BY <1>2, <3>2
    <3>4. QED
      BY <3>2, <3>3 DEF RequestInv, RequestShape, StageFits, ReadSoFar, AnswerIsTrue, Own, ForeignTo, Exact, FilesBefore,
         Reads!Empty, Reads!Questions, Reads!Asked, Reads!Id, Reads!Applied, Reads!Kept
  <2>2. DownloadInv' BY <1>1, <1>2 DEF DownloadInv
  <2>3. QED BY <1>2, <2>1, <2>2 DEF ReadsInv
<1>3. CASE Reads!Configure BY <1>1, <1>2, <1>3, ConfigureKeeps
<1>4. CASE Reads!Commit BY <1>1, <1>2, <1>4, CommitKeeps
<1>5. CASE Reads!SyncFails BY <1>1, <1>2, <1>5, SyncFailsKeeps
<1>6. CASE Reads!BindRun BY <1>1, <1>2, <1>6, BindRunKeeps
<1>7. CASE Before
  <2>1. RequestInv(reads') BY <1>7, BeforeFits
  <2>2. StandsStill /\ UNCHANGED download /\ reads'.pc \notin {"compose", "body"} /\ reads.pc \notin {"compose", "body", "answered"}
    BY <1>1, <1>7, BeforeStaysBefore
  <2>3. ReadsWorld' /\ RequestInv(reads)' BY <1>1, <2>1, <2>2, RequestMoves
  <2>4. DownloadInv' BY <1>1, <2>2, BeforeTheFile
  <2>5. QED BY <2>3, <2>4 DEF ReadsInv
<1>8. CASE \/ Reads!OpenBlob \/ Reads!Compose \/ Reads!ClientLeaves \/ Reads!Cancel \/ Reads!Pull \/ Reads!Arrive
           \/ Reads!Finish
  <2>1. RequestInv(reads') /\ DownloadInv' /\ StandsStill BY <1>8, DownloadKeeps
  <2>2. ReadsWorld' /\ RequestInv(reads)' BY <1>1, <2>1, RequestMoves
  <2>3. QED BY <2>1, <2>2 DEF ReadsInv
<1>9. CASE UNCHANGED Reads!readVars
  <2>1. StandsStill /\ UNCHANGED <<reads, download>> BY <1>9 DEF Reads!readVars, StandsStill
  <2>2. RequestInv(reads') BY <1>1, <2>1
  <2>3. ReadsWorld' /\ RequestInv(reads)' BY <1>1, <2>1, <2>2, RequestMoves
  <2>4. DownloadInv' BY <1>1, <2>1 DEF DownloadInv
  <2>5. QED BY <2>3, <2>4 DEF ReadsInv
<1>10. QED BY <1>3, <1>4, <1>5, <1>6, <1>7, <1>8, <1>9 DEF Reads!Next, Reads!Reading, Before

LEMMA ReadsAreKept == ASSUME ReadsInv PROVE ReadsAreHonest
<1>1. ReadsWorld /\ RequestInv(reads) /\ RequestShape(reads) /\ DownloadInv BY DEF ReadsInv, RequestInv
<1>2. reads.pc = "answered" => AnswerIsTrue(reads.question, reads.answer) BY <1>1 DEF RequestInv
<1>3. reads.pc # "idle" => ReadSoFar(reads) BY <1>1 DEF RequestInv
<1>4. Reads!NothingLeaks
  <2>1. Reads!Foreign <=> ForeignTo(reads.question) BY DEF Reads!Foreign, Reads!question, ForeignTo
  <2>2. reads.pc \in Shared => Owner[reads.question.loop] = reads.question.team
    BY <1>3 DEF ReadSoFar, Shared, Downloading
  <2>3. reads.pc \in Shared => ~ForeignTo(reads.question) BY <2>2 DEF ForeignTo
  <2>4. {"view", "snapshot", "from", "open", "compose", "body"} = Shared BY DEF Shared, Downloading
  <2>5. QED BY <1>2, <2>1, <2>3, <2>4 DEF Reads!NothingLeaks, Reads!question, AnswerIsTrue
<1>5. Reads!AnswersAreTrue
  <2>1. \A id : Own(reads.question, id) <=> id \in Reads!OfThisLoop BY DEF Own, Reads!OfThisLoop, Reads!question
  <2>2. reads.pc \in {"open", "compose", "body"} => Own(reads.question, reads.question.to)
    BY <1>3 DEF ReadSoFar, Shared, Downloading
  <2>3. QED BY <1>2, <2>1, <2>2 DEF Reads!AnswersAreTrue, Reads!Shows, Reads!question, AnswerIsTrue, Own
<1>6. Reads!DiffsAreExact
  BY <1>2 DEF Reads!DiffsAreExact, Reads!Shows, Reads!question, AnswerIsTrue, Exact, FilesBefore
<1>7. Reads!DownloadsLetGo
  BY <1>1 DEF DownloadInv, DownloadFollows, Honest, Reads!DownloadsLetGo
<1>8. QED BY <1>4, <1>5, <1>6, <1>7 DEF ReadsAreHonest, Reads!ReadsAreHonest

\* ReadsAreHonest: nothing of another team's is shown, what is shown is what the loop
\* published, differences are exact and downloads let go of their file.
THEOREM ReadsSafety == Spec => []ReadsAreHonest
<1>1. Init => ReadsInv
  BY ReadsInit DEF Init
<1>2. [Next]_partVars => Reads!Next \/ UNCHANGED Reads!readVars
  BY DEF Next, Only, partVars, readsVars, Reads!readVars
<1>3. ReadsInv /\ [Next]_partVars => ReadsInv'
  BY <1>2, ReadsStep
<1>4. ReadsInv => ReadsAreHonest
  BY ReadsAreKept
<1>5. QED BY <1>1, <1>3, <1>4, PTL DEF Spec

--------------------------------------------------------------------------------
(***************************************************************************)
(* Login and logout.                                                       *)
(***************************************************************************)
SessionRow == [tx : Nat, account : Account, age : Nat, at : Nat, live : BOOLEAN]
LoginCall == [pc : {"idle", "resolving", "login", "mint", "minted", "failed", "leaving", "left"},
              browser : Browser \cup {None}, tx : Nat \cup {None}, account : Account \cup {None},
              session : Nat \cup {None}, age : Nat]
Cookie == [tx : Nat \cup {None}, session : Nat \cup {None}]
Known == [users : SUBSET Account, members : SUBSET Account,
          teams : [Account -> {{}, {"seeded"}, {"derived"}}]]
Transaction == 1 .. Len(started)

LoginTypes ==
  /\ time \in Nat /\ started \in Seq(Browser) /\ session \in Seq(SessionRow)
  /\ cookie \in [Browser -> Cookie] /\ call \in [Callback -> LoginCall] /\ identity \in Known

\* The store keeps each transaction once, and no more of them than it may.
StoreIsBounded ==
  /\ pending \subseteq [tx : Transaction, at : 0 .. time] /\ IsFiniteSet(pending)
  /\ Cardinality(pending) <= Capacity
  /\ \A p, q \in pending : p.tx = q.tx => p = q

Gone(t, store) == t \in Transaction /\ \A p \in store : p.tx # t
Established(a, known) == a \in known.users /\ a \in known.members /\ known.teams[a] # {}
Unused(t, minted) == \A n \in 1 .. Len(minted) : minted[n].tx # t

\* A callback has its transaction to itself, until the session has it.
Underway(k) == call[k].pc \in {"resolving", "login", "mint"}
CallsAreOwn ==
  /\ \A k \in Callback : Underway(k) =>
       /\ Gone(call[k].tx, pending) /\ Unused(call[k].tx, session) /\ started[call[k].tx] = call[k].browser
       /\ call[k].age < TxTTL
       /\ call[k].pc # "resolving" => call[k].account \in Account
       /\ call[k].pc = "mint" => Established(call[k].account, identity)
  /\ \A k, j \in Callback : Underway(k) /\ Underway(j) /\ call[k].tx = call[j].tx => k = j
  /\ \A k \in Callback : call[k].pc = "minted" =>
       call[k].session \in 1 .. Len(session) /\ started[session[call[k].session].tx] = call[k].browser

SessionsAreOwn ==
  /\ \A n \in 1 .. Len(session) :
       Gone(session[n].tx, pending) /\ session[n].age < TxTTL /\ Established(session[n].account, identity)
  /\ \A n, m \in 1 .. Len(session) : session[n].tx = session[m].tx => n = m

CookiesAreOwn ==
  \A b \in Browser : cookie[b].session # None =>
    cookie[b].session \in 1 .. Len(session) /\ started[session[cookie[b].session].tx] = b

LoginInv == LoginTypes /\ StoreIsBounded /\ CallsAreOwn /\ SessionsAreOwn /\ CookiesAreOwn

LEMMA LoginCardinality == \A S : Login!Cardinality(S) = Cardinality(S)
BY DEF Login!Cardinality, Cardinality

LEMMA NoCallFits ==
  LET c == Login!NoCall
  IN  c \in LoginCall /\ c.pc = "idle"
BY DEF Login!NoCall, LoginCall

LEMMA LoginInit == Login!Init => LoginInv
<1> SUFFICES ASSUME Login!Init PROVE LoginInv OBVIOUS
<1>1. /\ time = 0 /\ started = <<>> /\ pending = {} /\ session = <<>>
      /\ cookie = [b \in Browser |-> [tx |-> None, session |-> None]]
      /\ call = [k \in Callback |-> Login!NoCall]
      /\ identity = [users |-> {}, members |-> {},
                     teams |-> [a \in Account |-> IF a \in Seeded THEN {"seeded"} ELSE {}]]
  BY DEF Login!Init
<1>2. identity \in Known BY <1>1 DEF Known
<1>3. cookie \in [Browser -> Cookie] BY <1>1 DEF Cookie
<1>4. LoginTypes BY <1>1, <1>2, <1>3, NoCallFits DEF LoginTypes
<1>5. StoreIsBounded BY <1>1, FS_EmptySet, LoginAssumption DEF StoreIsBounded
<1>6. \A k \in Callback : call[k].pc = "idle" BY <1>1, NoCallFits
<1>7. CallsAreOwn BY <1>6 DEF CallsAreOwn, Underway
<1>8. SessionsAreOwn /\ CookiesAreOwn BY <1>1 DEF SessionsAreOwn, CookiesAreOwn
<1>9. QED BY <1>4, <1>5, <1>7, <1>8 DEF LoginInv

\* Room is made for a transaction: the expired go, then the oldest.
LEMMA RoomIsMade ==
  ASSUME LoginTypes, StoreIsBounded
  PROVE  /\ Login!EvictIfFull \subseteq pending /\ IsFiniteSet(Login!EvictIfFull)
         /\ Cardinality(Login!EvictIfFull) \in Nat /\ Cardinality(Login!EvictIfFull) < Capacity
<1> DEFINE live == {p \in pending : ~Login!Expired(p)}
           Upfrom(p) == {q \in live : q.tx >= p.tx}
           kept == {p \in live : Cardinality(Upfrom(p)) < Capacity}
<1>1. Cardinality(pending) \in Nat /\ IsFiniteSet(pending) BY FS_CardinalityType DEF StoreIsBounded
<1>2. CASE Cardinality(pending) < Capacity
  <2>1. Login!EvictIfFull = pending BY <1>2, LoginCardinality DEF Login!EvictIfFull
  <2>2. QED BY <2>1, <1>1, <1>2
<1>3. CASE ~(Cardinality(pending) < Capacity)
  <2>1. Login!EvictIfFull = kept BY <1>3, LoginCardinality DEF Login!EvictIfFull
  <2>2. live \subseteq pending /\ kept \subseteq live OBVIOUS
  <2>3. IsFiniteSet(live) /\ IsFiniteSet(kept) BY <1>1, <2>2, FS_Subset
  <2>4. Cardinality(kept) \in Nat BY <2>3, FS_CardinalityType
  <2>5. CASE kept = {}
    <3> HIDE DEF kept
    <3>1. Cardinality(kept) = 0 BY <2>5, FS_EmptySet
    <3>2. QED BY <3>1, <2>1, <2>2, <2>3, LoginAssumption
  <2>6. CASE kept # {}
    <3> DEFINE ids == {p.tx : p \in kept}
               f == [p \in kept |-> p.tx]
    <3>1. \A p \in kept : p.tx \in Nat BY <2>2 DEF StoreIsBounded, Transaction
    <3>2. ids \in SUBSET Nat /\ ids # {} BY <3>1, <2>6
    <3>3. f \in Surjection(kept, ids) BY DEF Surjection
    <3>4. IsFiniteSet(ids) BY <3>3, <2>3, FS_Surjection
    <3> HIDE DEF ids
    <3>5. PICK i \in ids : \A j \in ids : i <= j BY <3>2, LeastExists
    <3>6. PICK p \in kept : p.tx = i BY <3>5 DEF ids
    <3>7. \A q \in kept : q.tx \in ids BY DEF ids
    <3>8. \A q \in kept : q \in live /\ q.tx >= p.tx
      <4> TAKE q \in kept
      <4>1. q.tx \in ids /\ q.tx \in Nat /\ i \in Nat BY <3>1, <3>2, <3>5, <3>7
      <4>2. i <= q.tx BY <4>1, <3>5
      <4>3. QED BY <4>1, <4>2, <3>6
    <3>9. kept \subseteq Upfrom(p) BY <3>8
    <3>10. IsFiniteSet(Upfrom(p)) /\ Cardinality(Upfrom(p)) < Capacity
      <4>1. Upfrom(p) \subseteq live OBVIOUS
      <4>2. IsFiniteSet(Upfrom(p)) BY <4>1, <2>3, FS_Subset
      <4>3. QED BY <4>2, <3>6
    <3>11. Cardinality(kept) <= Cardinality(Upfrom(p)) /\ Cardinality(Upfrom(p)) \in Nat
      BY <3>9, <3>10, FS_Subset, FS_CardinalityType
    <3> HIDE DEF kept, Upfrom, live
    <3>12. Cardinality(kept) < Capacity BY <3>10, <3>11, <2>4, LoginAssumption
    <3>13. QED BY <3>12, <2>1, <2>2, <2>3, <2>4
  <2>7. QED BY <2>5, <2>6
<1>4. QED BY <1>2, <1>3

\* Nothing was started or minted, and nobody's login or membership was lost.
Stays ==
  /\ started' = started /\ session' = session
  /\ identity.users \subseteq identity'.users /\ identity.members \subseteq identity'.members
  /\ \A a \in Account : identity.teams[a] # {} => identity'.teams[a] # {}
  /\ pending' \subseteq pending

LEMMA StoreShrinks ==
  ASSUME LoginTypes, StoreIsBounded, started' = started, pending' \subseteq pending, time' \in Nat, time <= time'
  PROVE  StoreIsBounded'
<1>1. IsFiniteSet(pending') /\ Cardinality(pending') <= Cardinality(pending)
  BY FS_Subset DEF StoreIsBounded
<1>2. Cardinality(pending') \in Nat /\ Cardinality(pending) \in Nat BY <1>1, FS_CardinalityType DEF StoreIsBounded
<1>3. Cardinality(pending)' = Cardinality(pending') OBVIOUS
<1>4. Cardinality(pending') <= Capacity BY <1>1, <1>2, LoginAssumption DEF StoreIsBounded
<1>5. pending' \subseteq [tx : 1 .. Len(started), at : 0 .. time']
  <2> SUFFICES ASSUME NEW p \in pending' PROVE p \in [tx : 1 .. Len(started), at : 0 .. time'] OBVIOUS
  <2>1. p \in [tx : 1 .. Len(started), at : 0 .. time] /\ time \in Nat BY DEF StoreIsBounded, Transaction, LoginTypes
  <2>2. QED BY <2>1
<1>6. \A p, q \in pending' : p.tx = q.tx => p = q BY DEF StoreIsBounded
<1>7. QED BY <1>1, <1>3, <1>4, <1>5, <1>6 DEF StoreIsBounded, Transaction

LEMMA SessionsStay ==
  ASSUME LoginTypes, SessionsAreOwn, Stays
  PROVE  SessionsAreOwn'
<1>0. \A n \in 1 .. Len(session) : session[n] \in SessionRow
  BY DEF LoginTypes
<1>1. \A n \in 1 .. Len(session) : session[n].account \in Account
  BY <1>0 DEF SessionRow
<1>2. QED BY <1>1 DEF SessionsAreOwn, Stays, Gone, Transaction, Established

LEMMA CallFields ==
  ASSUME LoginTypes, NEW k \in Callback
  PROVE  /\ call[k] \in LoginCall /\ call[k].browser \in Browser \cup {None} /\ call[k].tx \in Nat \cup {None}
         /\ call[k].account \in Account \cup {None} /\ call[k].session \in Nat \cup {None} /\ call[k].age \in Nat
BY DEF LoginTypes, LoginCall

\* One call becomes another; it may hold a transaction only if that is its own.
MayHold(k, c) ==
  /\ c \in LoginCall
  /\ c.pc \in {"resolving", "login", "mint"} =>
       /\ Gone(c.tx, pending') /\ Unused(c.tx, session') /\ started[c.tx] = c.browser /\ c.age < TxTTL
       /\ c.pc # "resolving" => c.account \in Account
       /\ c.pc = "mint" => Established(c.account, identity')
       /\ \A j \in Callback : Underway(j) /\ call[j].tx = c.tx => j = k
  /\ c.pc = "minted" => c.session \in 1 .. Len(session') /\ started[session'[c.session].tx] = c.browser

LEMMA CallChanges ==
  ASSUME LoginTypes, CallsAreOwn, Stays, NEW k \in Callback, NEW c,
         call' = [call EXCEPT ![k] = c], MayHold(k, c)
  PROVE  CallsAreOwn' /\ call' \in [Callback -> LoginCall]
<1>1. call' \in [Callback -> LoginCall] /\ call'[k] = c /\ \A j \in Callback : j # k => call'[j] = call[j]
  BY DEF LoginTypes, MayHold
<1>2. \A j \in Callback : call[j].account \in Account \cup {None} BY CallFields
<1>3. ASSUME NEW j \in Callback, Underway(j)'
      PROVE  /\ Gone(call'[j].tx, pending') /\ Unused(call'[j].tx, session') /\ started[call'[j].tx] = call'[j].browser
             /\ call'[j].age < TxTTL
             /\ call'[j].pc # "resolving" => call'[j].account \in Account
             /\ call'[j].pc = "mint" => Established(call'[j].account, identity')
  <2>1. CASE j = k BY <2>1, <1>1, <1>3 DEF MayHold, Underway
  <2>2. CASE j # k
    <3>1. call'[j] = call[j] /\ Underway(j) BY <2>2, <1>1, <1>3 DEF Underway
    <3>2. /\ Gone(call[j].tx, pending) /\ Unused(call[j].tx, session) /\ started[call[j].tx] = call[j].browser
          /\ call[j].age < TxTTL
          /\ call[j].pc # "resolving" => call[j].account \in Account
          /\ call[j].pc = "mint" => Established(call[j].account, identity)
      BY <3>1 DEF CallsAreOwn
    <3>3. Gone(call[j].tx, pending') BY <3>1, <3>2 DEF Stays, Gone, Transaction
    <3>4. Unused(call[j].tx, session') BY <3>1, <3>2 DEF Stays, Unused
    <3>5. call[j].pc = "mint" => Established(call[j].account, identity') BY <3>1, <3>2 DEF Stays, Established
    <3>6. QED BY <3>1, <3>2, <3>3, <3>4, <3>5 DEF Gone, Unused, Established
  <2>3. QED BY <2>1, <2>2
<1>4. ASSUME NEW i \in Callback, NEW j \in Callback, Underway(i)', Underway(j)', call'[i].tx = call'[j].tx
      PROVE  i = j
  <2>1. CASE i # k /\ j # k BY <2>1, <1>1, <1>4 DEF Underway, CallsAreOwn
  <2>2. CASE i = k /\ j # k BY <2>2, <1>1, <1>4 DEF Underway, MayHold
  <2>3. CASE i # k /\ j = k BY <2>3, <1>1, <1>4 DEF Underway, MayHold
  <2>4. QED BY <2>1, <2>2, <2>3
<1>5. ASSUME NEW j \in Callback, call'[j].pc = "minted"
      PROVE  call'[j].session \in 1 .. Len(session') /\ started[session'[call'[j].session].tx] = call'[j].browser
  <2>1. CASE j = k BY <2>1, <1>1, <1>5 DEF MayHold
  <2>2. CASE j # k BY <2>2, <1>1, <1>5 DEF CallsAreOwn, Stays
  <2>3. QED BY <2>1, <2>2
<1>6. CallsAreOwn' BY <1>3, <1>4, <1>5 DEF CallsAreOwn, Stays, Gone, Transaction
<1>7. QED BY <1>1, <1>6

\* A step that starts and mints nothing: what is left is its call and its cookie.
LEMMA QuietStep ==
  ASSUME LoginInv, Stays, time' \in Nat, time <= time', call' \in [Callback -> LoginCall], CallsAreOwn',
         identity' \in Known, cookie' \in [Browser -> Cookie], CookiesAreOwn'
  PROVE  LoginInv'
<1>1. LoginTypes' BY DEF LoginInv, LoginTypes, Stays
<1>2. StoreIsBounded' BY StoreShrinks DEF LoginInv, Stays
<1>3. SessionsAreOwn' BY SessionsStay DEF LoginInv
<1>4. QED BY <1>1, <1>2, <1>3 DEF LoginInv

LEMMA SameCookies ==
  ASSUME LoginInv, started' = started, session' = session, cookie' = cookie
  PROVE  CookiesAreOwn' /\ cookie' \in [Browser -> Cookie]
BY DEF LoginInv, LoginTypes, CookiesAreOwn

\* A callback arrives and consumes the transaction of its cookie.
LEMMA ArriveKeeps ==
  ASSUME LoginInv, NEW k \in Callback, NEW b \in Browser, NEW code \in BOOLEAN,
         NEW s \in {t \in DOMAIN started : started[t] = b} \cup {None},
         Login!Arrive(k, b, s, code)
  PROVE  LoginInv'
<1> DEFINE t == cookie[b].tx
           passes0 == t # None /\ (\E p \in Login!Found(t) : ~Login!Expired(p)) /\ code /\ s = t
           age == time - (CHOOSE p \in Login!Found(t) : TRUE).at
           c == IF passes0 THEN [Login!NoCall EXCEPT !.pc = "resolving", !.browser = b, !.tx = t, !.age = age]
                ELSE [Login!NoCall EXCEPT !.pc = "failed", !.browser = b]
<1>1. /\ pending' = IF t = None THEN pending ELSE pending \ Login!Found(t)
      /\ call' = [call EXCEPT ![k] = c]
      /\ UNCHANGED <<time, started, cookie, identity, session>>
  BY DEF Login!Arrive, Login!Consumed
<1>2. Stays BY <1>1 DEF Stays
<1>3. LoginTypes /\ StoreIsBounded /\ CallsAreOwn /\ SessionsAreOwn BY DEF LoginInv
<1>4. t \in Nat \cup {None} BY <1>3 DEF LoginTypes, Cookie
<1>5. ASSUME passes0 PROVE MayHold(k, c)
  <2> HIDE DEF t
  <2>1. c = [Login!NoCall EXCEPT !.pc = "resolving", !.browser = b, !.tx = t, !.age = age] BY <1>5
  <2>2. PICK p \in Login!Found(t) : ~Login!Expired(p) BY <1>5
  <2>3. p \in pending /\ p.tx = t /\ \A q \in Login!Found(t) : q = p
    BY <2>2, <1>3 DEF Login!Found, StoreIsBounded
  <2>4. (CHOOSE q \in Login!Found(t) : TRUE) = p BY <2>2, <2>3
  <2>5. p.at \in 0 .. time /\ time \in Nat /\ t \in Transaction BY <2>3, <1>3 DEF StoreIsBounded, LoginTypes
  <2>6. age = time - p.at BY <2>4
  <2> HIDE DEF age
  <2>7. age \in Nat /\ age < TxTTL BY <2>2, <2>5, <2>6, LoginAssumption DEF Login!Expired
  <2>8. t \in Nat /\ t # None BY <1>4, <1>5
  <2>9. /\ c \in LoginCall /\ c.pc = "resolving" /\ c.browser = b /\ c.tx = t /\ c.age = age
    BY <2>1, <2>7, <2>8, NoCallFits DEF LoginCall
  <2>10. started[t] = b BY <1>5, <2>8
  <2>11. Gone(t, pending') BY <1>1, <2>5, <2>8 DEF Gone, Transaction, Login!Found
  <2>12. Unused(t, session') BY <1>1, <1>3, <2>3 DEF Unused, SessionsAreOwn, Gone
  <2>13. \A j \in Callback : Underway(j) => call[j].tx # t BY <1>3, <2>3 DEF CallsAreOwn, Gone
  <2> HIDE DEF c
  <2>14. QED BY <2>7, <2>9, <2>10, <2>11, <2>12, <2>13 DEF MayHold, Gone, Unused
<1>6. ASSUME ~passes0 PROVE MayHold(k, c)
  <2>1. c = [Login!NoCall EXCEPT !.pc = "failed", !.browser = b] BY <1>6
  <2>2. c \in LoginCall /\ c.pc = "failed" BY <2>1, NoCallFits DEF LoginCall
  <2> HIDE DEF c
  <2>3. QED BY <2>2 DEF MayHold
<1>7. MayHold(k, c) BY <1>5, <1>6
<1> HIDE DEF c
<1>8. CallsAreOwn' /\ call' \in [Callback -> LoginCall] BY <1>1, <1>2, <1>3, <1>7, CallChanges
<1>9. CookiesAreOwn' /\ cookie' \in [Browser -> Cookie] BY <1>1, SameCookies
<1>10. time' \in Nat /\ time <= time' /\ identity' \in Known BY <1>1, <1>3 DEF LoginTypes
<1>11. QED BY <1>2, <1>8, <1>9, <1>10, QuietStep

\* A call goes on with what it holds.
GoesTo(c, d) ==
  /\ d \in LoginCall /\ d.tx = c.tx /\ d.browser = c.browser /\ d.age = c.age

LEMMA ResolveKeeps ==
  ASSUME LoginInv, NEW k \in Callback, Login!Resolve(k)
  PROVE  LoginInv'
<1>1. /\ call[k].pc = "resolving" /\ UNCHANGED <<time, started, pending, cookie, identity, session>>
      /\ \/ \E a \in Account : call' = [call EXCEPT ![k].pc = "login", ![k].account = a]
         \/ call' = [call EXCEPT ![k].pc = "failed"]
  BY DEF Login!Resolve
<1>2. LoginTypes /\ CallsAreOwn /\ Stays BY <1>1 DEF LoginInv, Stays
<1>3. call[k] \in LoginCall /\ call \in [Callback -> LoginCall] BY <1>2 DEF LoginTypes
<1>4. /\ Gone(call[k].tx, pending) /\ Unused(call[k].tx, session) /\ started[call[k].tx] = call[k].browser /\ call[k].age < TxTTL
      /\ \A j \in Callback : Underway(j) /\ call[j].tx = call[k].tx => j = k
  BY <1>1, <1>2 DEF CallsAreOwn, Underway
<1>5. Gone(call[k].tx, pending') /\ Unused(call[k].tx, session')
  BY <1>1, <1>4 DEF Gone, Transaction, Unused
<1>6. \E c : call' = [call EXCEPT ![k] = c] /\ MayHold(k, c)
  <2>1. ASSUME NEW a \in Account, call' = [call EXCEPT ![k].pc = "login", ![k].account = a]
        PROVE  \E c : call' = [call EXCEPT ![k] = c] /\ MayHold(k, c)
    <3> DEFINE c == [call[k] EXCEPT !.pc = "login", !.account = a]
    <3>1. call' = [call EXCEPT ![k] = c] BY <1>3, <2>1 DEF LoginCall
    <3>2. GoesTo(call[k], c) /\ c.pc = "login" /\ c.account = a BY <1>3 DEF LoginCall, GoesTo
    <3> HIDE DEF c
    <3>3. c.tx = call[k].tx BY <3>2 DEF GoesTo
    <3>4. MayHold(k, c) BY <1>1, <1>4, <1>5, <3>2, <3>3 DEF MayHold, GoesTo, Gone, Unused
    <3>5. QED BY <3>1, <3>4
  <2>2. ASSUME call' = [call EXCEPT ![k].pc = "failed"]
        PROVE  \E c : call' = [call EXCEPT ![k] = c] /\ MayHold(k, c)
    <3> DEFINE c == [call[k] EXCEPT !.pc = "failed"]
    <3>1. call' = [call EXCEPT ![k] = c] BY <1>3, <2>2
    <3>2. c \in LoginCall /\ c.pc = "failed" BY <1>3 DEF LoginCall
    <3> HIDE DEF c
    <3>3. MayHold(k, c) BY <3>2 DEF MayHold
    <3>4. QED BY <3>1, <3>3
  <2>3. QED BY <1>1, <2>1, <2>2
<1>7. CallsAreOwn' /\ call' \in [Callback -> LoginCall] BY <1>2, <1>6, CallChanges
<1>8. CookiesAreOwn' /\ cookie' \in [Browser -> Cookie] BY <1>1, SameCookies
<1>9. time' \in Nat /\ time <= time' /\ identity' \in Known BY <1>1, <1>2 DEF LoginTypes
<1>10. QED BY <1>2, <1>7, <1>8, <1>9, QuietStep

\* The identity transaction.
LEMMA LoginKeeps ==
  ASSUME LoginInv, NEW k \in Callback, Login!Login(k)
  PROVE  LoginInv'
<1> DEFINE a == call[k].account
           c == [call[k] EXCEPT !.pc = "mint"]
<1>1. /\ call[k].pc = "login" /\ UNCHANGED <<time, started, pending, cookie, session>>
      /\ call' = [call EXCEPT ![k].pc = "mint"]
      /\ identity' = [users |-> identity.users \cup {a}, members |-> identity.members \cup {a},
                      teams |-> [identity.teams EXCEPT ![a] = Login!TeamsAfter(a)]]
  BY DEF Login!Login
<1>2. LoginTypes /\ CallsAreOwn BY DEF LoginInv
<1>3. call[k] \in LoginCall /\ call \in [Callback -> LoginCall] /\ identity \in Known BY <1>2 DEF LoginTypes
<1>4. /\ Gone(call[k].tx, pending) /\ Unused(call[k].tx, session) /\ started[call[k].tx] = call[k].browser /\ call[k].age < TxTTL
      /\ a \in Account
      /\ \A j \in Callback : Underway(j) /\ call[j].tx = call[k].tx => j = k
  BY <1>1, <1>2 DEF CallsAreOwn, Underway
<1>5. call' = [call EXCEPT ![k] = c] BY <1>1, <1>3
<1>6. GoesTo(call[k], c) /\ c.pc = "mint" /\ c.account = a BY <1>3 DEF LoginCall, GoesTo
<1> HIDE DEF c, a
<1>7. /\ identity' \in Known /\ identity.users \subseteq identity'.users /\ identity.members \subseteq identity'.members
      /\ \A e \in Account : identity.teams[e] # {} => identity'.teams[e] # {}
      /\ a \in identity'.users /\ a \in identity'.members /\ identity'.teams[a] # {}
  <2> DEFINE new == Login!TeamsAfter(a)
  <2>1. new \in {{}, {"seeded"}, {"derived"}} /\ new # {} BY <1>3, <1>4 DEF Login!TeamsAfter, Known
  <2>2. identity' = [users |-> identity.users \cup {a}, members |-> identity.members \cup {a},
                     teams |-> [identity.teams EXCEPT ![a] = new]]
    BY <1>1
  <2> HIDE DEF new
  <2>3. identity.teams \in [Account -> {{}, {"seeded"}, {"derived"}}] /\ identity.users \subseteq Account /\ identity.members \subseteq Account
    BY <1>3 DEF Known
  <2>4. QED BY <1>4, <2>1, <2>2, <2>3 DEF Known
<1>8. Stays BY <1>1, <1>7 DEF Stays
<1>9. Gone(call[k].tx, pending') /\ Unused(call[k].tx, session') BY <1>1, <1>4 DEF Gone, Transaction, Unused
<1>10. Established(a, identity') BY <1>7 DEF Established
<1>11. c.tx = call[k].tx BY <1>6 DEF GoesTo
<1>12. MayHold(k, c) BY <1>1, <1>4, <1>6, <1>9, <1>10, <1>11 DEF MayHold, GoesTo, Gone, Unused, Established
<1>13. CallsAreOwn' /\ call' \in [Callback -> LoginCall] BY <1>2, <1>5, <1>8, <1>12, CallChanges
<1>14. CookiesAreOwn' /\ cookie' \in [Browser -> Cookie] BY <1>1, SameCookies
<1>15. time' \in Nat /\ time <= time' BY <1>1, <1>2 DEF LoginTypes
<1>16. QED BY <1>7, <1>8, <1>13, <1>14, <1>15, QuietStep

\* The session is minted: from here on it has the transaction.
LEMMA MintKeeps ==
  ASSUME LoginInv, NEW k \in Callback, Login!Mint(k)
  PROVE  LoginInv'
<1> DEFINE n == Len(session) + 1
           s == [tx |-> call[k].tx, account |-> call[k].account, age |-> call[k].age, at |-> time, live |-> TRUE]
           c == [call[k] EXCEPT !.pc = "minted", !.session = n]
<1>1. /\ call[k].pc = "mint" /\ session' = Append(session, s)
      /\ call' = [call EXCEPT ![k].pc = "minted", ![k].session = n]
      /\ UNCHANGED <<time, started, pending, cookie, identity>>
  BY DEF Login!Mint
<1>2. LoginTypes /\ StoreIsBounded /\ CallsAreOwn /\ SessionsAreOwn /\ CookiesAreOwn BY DEF LoginInv
<1>3. call[k] \in LoginCall /\ call \in [Callback -> LoginCall] /\ session \in Seq(SessionRow) /\ time \in Nat
  BY <1>2 DEF LoginTypes
<1>4. /\ Gone(call[k].tx, pending) /\ Unused(call[k].tx, session) /\ started[call[k].tx] = call[k].browser
      /\ call[k].age < TxTTL /\ call[k].account \in Account /\ Established(call[k].account, identity)
      /\ \A j \in Callback : Underway(j) /\ call[j].tx = call[k].tx => j = k
  BY <1>1, <1>2 DEF CallsAreOwn, Underway
<1>5. s \in SessionRow /\ s.tx = call[k].tx /\ s.age = call[k].age /\ s.account = call[k].account
  <2>1. call[k].tx \in Nat BY <1>2, <1>4 DEF Gone, Transaction, LoginTypes
  <2>2. QED BY <1>3, <1>4, <2>1, CallFields, <1>2 DEF SessionRow
<1>6. n \in Nat /\ n # None BY <1>3, LoginAssumption
<1>7. call' = [call EXCEPT ![k] = c] BY <1>1, <1>3 DEF LoginCall
<1>8. c \in LoginCall /\ c.pc = "minted" /\ c.session = n /\ c.browser = call[k].browser
  BY <1>3, <1>6 DEF LoginCall
<1> HIDE DEF s, c
<1>9. /\ session' \in Seq(SessionRow) /\ Len(session') = n /\ session'[n] = s
      /\ \A m \in 1 .. Len(session) : session'[m] = session[m]
  BY <1>1, <1>3, <1>5
<1>10. 1 .. n = 1 .. Len(session) \cup {n} BY <1>3
<1> HIDE DEF n
<1>11. /\ call' \in [Callback -> LoginCall] /\ call'[k] = c /\ \A j \in Callback : j # k => call'[j] = call[j]
  BY <1>3, <1>7, <1>8
<1>12. LoginTypes' BY <1>1, <1>2, <1>9, <1>11 DEF LoginTypes
<1>13. StoreIsBounded' BY <1>1, <1>2 DEF StoreIsBounded, Transaction
<1>14. SessionsAreOwn'
  <2>1. ASSUME NEW m \in 1 .. n
        PROVE  Gone(session'[m].tx, pending) /\ session'[m].age < TxTTL /\ Established(session'[m].account, identity)
    <3>1. CASE m = n BY <3>1, <1>4, <1>5, <1>9
    <3>2. CASE m # n BY <3>2, <1>2, <1>9, <1>10 DEF SessionsAreOwn
    <3>3. QED BY <3>1, <3>2
  <2>2. ASSUME NEW m \in 1 .. n, NEW i \in 1 .. n, session'[m].tx = session'[i].tx
        PROVE  m = i
    <3>1. CASE m = n /\ i # n BY <3>1, <2>2, <1>4, <1>5, <1>9, <1>10 DEF Unused
    <3>2. CASE m # n /\ i = n BY <3>2, <2>2, <1>4, <1>5, <1>9, <1>10 DEF Unused
    <3>3. CASE m # n /\ i # n BY <3>3, <2>2, <1>2, <1>9, <1>10 DEF SessionsAreOwn
    <3>4. QED BY <3>1, <3>2, <3>3
  <2>3. QED BY <2>1, <2>2, <1>1, <1>9 DEF SessionsAreOwn, Gone, Transaction
<1>15. \A m \in 1 .. Len(session) : m \in 1 .. n BY <1>10
<1>16. CookiesAreOwn' BY <1>1, <1>2, <1>9, <1>15 DEF CookiesAreOwn
<1>17. CallsAreOwn'
  <2>1. ASSUME NEW j \in Callback, Underway(j)'
        PROVE  /\ j # k /\ Underway(j) /\ call'[j] = call[j]
               /\ Gone(call[j].tx, pending) /\ Unused(call[j].tx, session')
               /\ started[call[j].tx] = call[j].browser /\ call[j].age < TxTTL
               /\ call[j].pc # "resolving" => call[j].account \in Account
               /\ call[j].pc = "mint" => Established(call[j].account, identity)
    <3>1. j # k BY <2>1, <1>8, <1>11 DEF Underway
    <3>2. Underway(j) /\ call'[j] = call[j] BY <2>1, <3>1, <1>11 DEF Underway
    <3>3. call[j].tx # call[k].tx BY <3>1, <3>2, <1>4
    <3>4. Unused(call[j].tx, session) BY <3>2, <1>2 DEF CallsAreOwn
    <3>5. Unused(call[j].tx, session') BY <3>3, <3>4, <1>5, <1>9, <1>10 DEF Unused
    <3>6. QED BY <3>1, <3>2, <3>5, <1>2 DEF CallsAreOwn
  <2>2. ASSUME NEW j \in Callback, call'[j].pc = "minted"
        PROVE  call'[j].session \in 1 .. n /\ started[session'[call'[j].session].tx] = call'[j].browser
    <3>1. CASE j = k
      <4>1. call'[j].session = n /\ call'[j].browser = call[k].browser BY <3>1, <1>8, <1>11
      <4>2. QED BY <4>1, <1>4, <1>5, <1>9, <1>10
    <3>2. CASE j # k BY <3>2, <2>2, <1>2, <1>9, <1>11, <1>15 DEF CallsAreOwn
    <3>3. QED BY <3>1, <3>2
  <2>3. \A i, j \in Callback : Underway(i)' /\ Underway(j)' /\ call'[i].tx = call'[j].tx => i = j
    BY <2>1, <1>2 DEF CallsAreOwn
  <2>4. ASSUME NEW j \in Callback, Underway(j)'
        PROVE  /\ Gone(call'[j].tx, pending) /\ Unused(call'[j].tx, session')
               /\ started[call'[j].tx] = call'[j].browser /\ call'[j].age < TxTTL
               /\ call'[j].pc # "resolving" => call'[j].account \in Account
               /\ call'[j].pc = "mint" => Established(call'[j].account, identity)
    BY <2>1, <2>4
  <2>5. QED BY <2>2, <2>3, <2>4, <1>1, <1>9 DEF CallsAreOwn, Gone, Transaction
<1>18. QED BY <1>12, <1>13, <1>14, <1>16, <1>17 DEF LoginInv

LEMMA BeginLogoutKeeps ==
  ASSUME LoginInv, NEW k \in Callback, NEW b \in Browser, Login!BeginLogout(k, b)
  PROVE  LoginInv'
<1> DEFINE c == [Login!NoCall EXCEPT !.pc = "leaving", !.browser = b, !.session = cookie[b].session]
<1>1. call' = [call EXCEPT ![k] = c] /\ UNCHANGED <<time, started, pending, cookie, identity, session>>
  BY DEF Login!BeginLogout
<1>2. LoginTypes /\ CallsAreOwn /\ Stays BY <1>1 DEF LoginInv, Stays
<1>3. cookie[b].session \in Nat \cup {None} BY <1>2 DEF LoginTypes, Cookie
<1>4. c \in LoginCall /\ c.pc = "leaving" BY <1>3, NoCallFits DEF LoginCall
<1> HIDE DEF c
<1>5. MayHold(k, c) BY <1>4 DEF MayHold
<1>6. CallsAreOwn' /\ call' \in [Callback -> LoginCall] BY <1>1, <1>2, <1>5, CallChanges
<1>7. CookiesAreOwn' /\ cookie' \in [Browser -> Cookie] BY <1>1, SameCookies
<1>8. time' \in Nat /\ time <= time' /\ identity' \in Known BY <1>1, <1>2 DEF LoginTypes
<1>9. QED BY <1>2, <1>6, <1>7, <1>8, QuietStep

LEMMA RevokeKeeps ==
  ASSUME LoginInv, NEW k \in Callback, Login!Revoke(k)
  PROVE  LoginInv'
<1> DEFINE c == [call[k] EXCEPT !.pc = "left"]
           n == call[k].session
<1>1. /\ call[k].pc = "leaving" /\ session' = [session EXCEPT ![n].live = FALSE]
      /\ call' = [call EXCEPT ![k].pc = "left"] /\ UNCHANGED <<time, started, pending, cookie, identity>>
  BY DEF Login!Revoke
<1>2. LoginTypes /\ StoreIsBounded /\ CallsAreOwn /\ SessionsAreOwn /\ CookiesAreOwn BY DEF LoginInv
<1>3. call[k] \in LoginCall /\ call \in [Callback -> LoginCall] /\ session \in Seq(SessionRow)
  BY <1>2 DEF LoginTypes
<1>4. call' = [call EXCEPT ![k] = c] /\ c \in LoginCall /\ c.pc = "left" BY <1>1, <1>3 DEF LoginCall
<1> HIDE DEF c
<1>5. /\ call' \in [Callback -> LoginCall] /\ call'[k] = c /\ \A j \in Callback : j # k => call'[j] = call[j]
  BY <1>3, <1>4
<1>6. /\ session' \in Seq(SessionRow) /\ Len(session') = Len(session)
      /\ \A m \in 1 .. Len(session) : /\ session'[m].tx = session[m].tx /\ session'[m].age = session[m].age
                                      /\ session'[m].account = session[m].account
  <2>1. \A m \in 1 .. Len(session) : session[m] \in SessionRow BY <1>3
  <2>2. DOMAIN session = 1 .. Len(session) /\ Len(session) \in Nat BY <1>3
  <2> DEFINE r == [session[n] EXCEPT !.live = FALSE]
  <2>3. session' = [session EXCEPT ![n] = r] BY <1>1
  <2>4. n \in 1 .. Len(session) => r \in SessionRow /\ r.tx = session[n].tx /\ r.age = session[n].age /\ r.account = session[n].account
    BY <2>1 DEF SessionRow
  <2> HIDE DEF r, n
  <2>5. \A m \in 1 .. Len(session) : session'[m] = IF m = n THEN r ELSE session[m] BY <2>2, <2>3
  <2>6. session' \in [1 .. Len(session) -> SessionRow] BY <2>1, <2>2, <2>3, <2>4, <2>5
  <2>7. QED BY <2>2, <2>4, <2>5, <2>6
<1>7. LoginTypes' BY <1>1, <1>2, <1>5, <1>6 DEF LoginTypes
<1>8. StoreIsBounded' BY <1>1, <1>2 DEF StoreIsBounded, Transaction
<1>9. SessionsAreOwn' BY <1>1, <1>2, <1>6 DEF SessionsAreOwn, Gone, Transaction
<1>10. CookiesAreOwn' BY <1>1, <1>2, <1>6 DEF CookiesAreOwn
<1>11. CallsAreOwn'
  <2>1. \A t : Unused(t, session) => Unused(t, session') BY <1>6 DEF Unused
  <2>2. \A j \in Callback : Underway(j)' => j # k /\ Underway(j) /\ call'[j] = call[j]
    BY <1>4, <1>5 DEF Underway
  <2>3. \A j \in Callback : call'[j].pc = "minted" => call[j].pc = "minted" /\ call'[j] = call[j]
    BY <1>4, <1>5
  <2>4. ASSUME NEW j \in Callback, Underway(j)'
        PROVE  /\ Gone(call[j].tx, pending) /\ Unused(call[j].tx, session')
               /\ started[call[j].tx] = call[j].browser /\ call[j].age < TxTTL
               /\ call[j].pc # "resolving" => call[j].account \in Account
               /\ call[j].pc = "mint" => Established(call[j].account, identity)
    BY <2>1, <2>2, <2>4, <1>2 DEF CallsAreOwn
  <2>5. \A j \in Callback : call'[j].pc = "minted" =>
          call'[j].session \in 1 .. Len(session') /\ started[session'[call'[j].session].tx] = call'[j].browser
    BY <2>3, <1>2, <1>6 DEF CallsAreOwn
  <2>6. \A i, j \in Callback : Underway(i)' /\ Underway(j)' /\ call'[i].tx = call'[j].tx => i = j
    BY <2>2, <1>2 DEF CallsAreOwn
  <2>7. ASSUME NEW j \in Callback, Underway(j)'
        PROVE  /\ Gone(call'[j].tx, pending) /\ Unused(call'[j].tx, session')
               /\ started[call'[j].tx] = call'[j].browser /\ call'[j].age < TxTTL
               /\ call'[j].pc # "resolving" => call'[j].account \in Account
               /\ call'[j].pc = "mint" => Established(call'[j].account, identity)
    BY <2>2, <2>4, <2>7
  <2>8. QED BY <2>5, <2>6, <2>7, <1>1 DEF CallsAreOwn, Gone, Transaction
<1>12. QED BY <1>7, <1>8, <1>9, <1>10, <1>11 DEF LoginInv

\* The answer, with what it sets and clears; it may not arrive.
LEMMA AnswerKeeps ==
  ASSUME LoginInv, NEW k \in Callback, Login!Answer(k)
  PROVE  LoginInv'
<1> DEFINE b == call[k].browser
           d == Login!CookieAfter(k)
<1>1. /\ call[k].pc \in {"failed", "minted", "left"} /\ call' = [call EXCEPT ![k] = Login!NoCall]
      /\ cookie' = cookie \/ cookie' = [cookie EXCEPT ![b] = d]
      /\ UNCHANGED <<time, started, pending, identity, session>>
  BY DEF Login!Answer
<1>2. LoginTypes /\ CallsAreOwn /\ CookiesAreOwn /\ Stays BY <1>1 DEF LoginInv, Stays
<1>3. MayHold(k, Login!NoCall) BY NoCallFits DEF MayHold
<1>4. CallsAreOwn' /\ call' \in [Callback -> LoginCall] BY <1>1, <1>2, <1>3, CallChanges
<1>5. CookiesAreOwn' /\ cookie' \in [Browser -> Cookie]
  <2>1. CASE cookie' = cookie BY <2>1, <1>1, SameCookies
  <2>2. CASE b \notin Browser
    <3>1. cookie' = cookie BY <2>2, <1>1, <1>2 DEF LoginTypes
    <3>2. QED BY <3>1, <2>1
  <2>3. CASE b \in Browser /\ cookie' = [cookie EXCEPT ![b] = d]
    <3>1. /\ d \in Cookie
          /\ \/ d.session \in {cookie[b].session, None}
             \/ call[k].pc = "minted" /\ d.session = call[k].session
      BY <2>3, <1>1, <1>2, CallFields DEF Login!CookieAfter, LoginTypes, Cookie
    <3> HIDE DEF d
    <3>2. cookie' \in [Browser -> Cookie] /\ cookie'[b] = d /\ \A e \in Browser : e # b => cookie'[e] = cookie[e]
      BY <2>3, <3>1, <1>2 DEF LoginTypes
    <3>3. d.session # None => d.session \in 1 .. Len(session) /\ started[session[d.session].tx] = b
      BY <2>3, <3>1, <1>2 DEF CallsAreOwn, CookiesAreOwn
    <3> HIDE DEF b
    <3>4. ASSUME NEW e \in Browser, cookie'[e].session # None
          PROVE  cookie'[e].session \in 1 .. Len(session) /\ started[session[cookie'[e].session].tx] = e
      <4>1. CASE e = b BY <4>1, <3>2, <3>3, <3>4
      <4>2. CASE e # b BY <4>2, <3>2, <3>4, <1>2 DEF CookiesAreOwn
      <4>3. QED BY <4>1, <4>2
    <3>5. QED BY <3>2, <3>4, <1>1 DEF CookiesAreOwn
  <2>4. QED BY <2>1, <2>2, <2>3, <1>1
<1>6. time' \in Nat /\ time <= time' /\ identity' \in Known BY <1>1, <1>2 DEF LoginTypes
<1>7. QED BY <1>2, <1>4, <1>5, <1>6, QuietStep

\* A restart forgets the store and the calls; the cookies are the browsers'.
LEMMA RestartKeeps ==
  ASSUME LoginInv, Login!Restart
  PROVE  LoginInv'
<1>1. /\ pending' = {} /\ call' = [k \in Callback |-> Login!NoCall]
      /\ UNCHANGED <<time, started, cookie, identity, session>>
  BY DEF Login!Restart
<1>2. Stays BY <1>1 DEF Stays
<1>3. call' \in [Callback -> LoginCall] /\ \A k \in Callback : call'[k].pc = "idle" BY <1>1, NoCallFits
<1>4. CallsAreOwn' BY <1>3 DEF CallsAreOwn, Underway
<1>5. CookiesAreOwn' /\ cookie' \in [Browser -> Cookie] BY <1>1, SameCookies
<1>6. time' \in Nat /\ time <= time' /\ identity' \in Known BY <1>1 DEF LoginInv, LoginTypes
<1>7. QED BY <1>2, <1>3, <1>4, <1>5, <1>6, QuietStep

LEMMA TickPasses ==
  ASSUME LoginInv, Login!Tick \/ UNCHANGED Login!loginVars
  PROVE  LoginInv'
<1>1. /\ time' \in {time, time + 1} /\ UNCHANGED <<started, pending, cookie, call, identity, session>>
  BY DEF Login!Tick, Login!loginVars
<1>2. Stays BY <1>1 DEF Stays
<1>3. CallsAreOwn' /\ call' \in [Callback -> LoginCall]
  BY <1>1 DEF LoginInv, LoginTypes, CallsAreOwn, Underway, Gone, Transaction, Unused, Established
<1>4. CookiesAreOwn' /\ cookie' \in [Browser -> Cookie] BY <1>1, SameCookies
<1>5. time' \in Nat /\ time <= time' /\ identity' \in Known BY <1>1 DEF LoginInv, LoginTypes
<1>6. QED BY <1>2, <1>3, <1>4, <1>5, QuietStep

LEMMA StartKeeps ==
  ASSUME LoginInv, NEW b \in Browser, Login!Start(b)
  PROVE  LoginInv'
<1> DEFINE t == Len(started) + 1
           p == [tx |-> t, at |-> time]
           kept == Login!EvictIfFull
<1>1. /\ started' = Append(started, b) /\ pending' = kept \cup {p}
      /\ cookie' = cookie \/ cookie' = [cookie EXCEPT ![b].tx = t]
      /\ UNCHANGED <<time, call, identity, session>>
  BY DEF Login!Start
<1>2. LoginTypes /\ StoreIsBounded /\ CallsAreOwn /\ SessionsAreOwn /\ CookiesAreOwn BY DEF LoginInv
<1>3. kept \subseteq pending /\ IsFiniteSet(kept) /\ Cardinality(kept) \in Nat /\ Cardinality(kept) < Capacity
  BY <1>2, RoomIsMade
<1>4. started \in Seq(Browser) /\ time \in Nat BY <1>2 DEF LoginTypes
<1>5. t \in Nat /\ t # None /\ t \notin Transaction BY <1>4, LoginAssumption DEF Transaction
<1>6. /\ started' \in Seq(Browser) /\ Len(started') = t
      /\ \A i \in Transaction : started'[i] = started[i] /\ i \in 1 .. t
  BY <1>1, <1>4 DEF Transaction
<1>7. cookie' \in [Browser -> Cookie] /\ \A e \in Browser : cookie'[e].session = cookie[e].session
  <2>1. cookie \in [Browser -> Cookie] BY <1>2 DEF LoginTypes
  <2> HIDE DEF t
  <2>2. CASE cookie' = [cookie EXCEPT ![b].tx = t]
    <3> DEFINE d == [cookie[b] EXCEPT !.tx = t]
    <3>1. d \in Cookie /\ d.session = cookie[b].session BY <2>1, <1>5 DEF Cookie
    <3>2. cookie' = [cookie EXCEPT ![b] = d] BY <2>2
    <3> HIDE DEF d
    <3>3. QED BY <2>1, <3>1, <3>2
  <2>3. QED BY <2>1, <2>2, <1>1
<1>8. LoginTypes' BY <1>1, <1>2, <1>6, <1>7 DEF LoginTypes
<1>9. StoreIsBounded'
  <2>1. p.tx = t /\ p \in [tx : 1 .. t, at : 0 .. time] BY <1>4, <1>5
  <2> HIDE DEF p
  <2>2. \A q \in kept : q \in [tx : 1 .. t, at : 0 .. time] /\ q.tx # t
    <3> TAKE q \in kept
    <3>1. q \in [tx : Transaction, at : 0 .. time] BY <1>2, <1>3 DEF StoreIsBounded
    <3>2. q.tx \in Transaction /\ q.tx \in 1 .. t BY <3>1, <1>6
    <3> HIDE DEF t
    <3>3. QED BY <3>1, <3>2, <1>5
  <2>3. IsFiniteSet(pending') BY <1>1, <1>3, FS_AddElement
  <2>4. Cardinality(pending') <= Capacity
    <3>1. Cardinality(kept \cup {p}) <= Cardinality(kept) + 1 BY <1>3, FS_AddElement
    <3>2. Cardinality(kept \cup {p}) \in Nat BY <2>3, <1>1, FS_CardinalityType
    <3>3. QED BY <3>1, <3>2, <1>1, <1>3, LoginAssumption
  <2>5. Cardinality(pending)' = Cardinality(pending') OBVIOUS
  <2> HIDE DEF t, kept
  <2>6. \A q, r \in pending' : q.tx = r.tx => q = r
    BY <2>1, <2>2, <1>1, <1>2, <1>3 DEF StoreIsBounded
  <2>7. QED BY <2>1, <2>2, <2>3, <2>4, <2>5, <2>6, <1>1, <1>6 DEF StoreIsBounded, Transaction
<1>10. \A i : Gone(i, pending) => started'[i] = started[i] /\ i \in 1 .. t /\ \A q \in pending' : q.tx # i
  <2> TAKE i
  <2> SUFFICES ASSUME Gone(i, pending) PROVE started'[i] = started[i] /\ i \in 1 .. t /\ \A q \in pending' : q.tx # i
      OBVIOUS
  <2>1. i \in Transaction /\ i # t /\ p.tx = t BY <1>5 DEF Gone
  <2> HIDE DEF p, t, kept
  <2>2. QED BY <2>1, <1>1, <1>3, <1>6 DEF Gone
<1> HIDE DEF t, p, kept
<1>11. SessionsAreOwn'
  <2>1. \A n \in 1 .. Len(session) : session[n].tx \in 1 .. t /\ \A q \in pending' : q.tx # session[n].tx
    BY <1>2, <1>10 DEF SessionsAreOwn
  <2>2. QED BY <2>1, <1>1, <1>2, <1>6 DEF SessionsAreOwn, Gone, Transaction
<1>12. CookiesAreOwn'
  <2>1. \A n \in 1 .. Len(session) : started'[session[n].tx] = started[session[n].tx]
    BY <1>2, <1>10 DEF SessionsAreOwn
  <2>2. QED BY <2>1, <1>1, <1>2, <1>7 DEF CookiesAreOwn
<1>13. CallsAreOwn'
  <2>1. \A k \in Callback : Underway(k) =>
          /\ call[k].tx \in 1 .. t /\ \A q \in pending' : q.tx # call[k].tx
          /\ started'[call[k].tx] = call[k].browser
    BY <1>2, <1>10 DEF CallsAreOwn
  <2>2. \A n \in 1 .. Len(session) : started'[session[n].tx] = started[session[n].tx]
    BY <1>2, <1>10 DEF SessionsAreOwn
  <2>3. QED BY <2>1, <2>2, <1>1, <1>2, <1>6 DEF CallsAreOwn, Underway, Gone, Transaction
<1>14. QED BY <1>8, <1>9, <1>11, <1>12, <1>13 DEF LoginInv

LEMMA LoginStep ==
  ASSUME LoginInv, Login!Next \/ UNCHANGED Login!loginVars
  PROVE  LoginInv'
<1>1. CASE \E b \in Browser : Login!Start(b) BY <1>1, StartKeeps
<1>2. CASE \E k \in Callback, b \in Browser : Login!BeginLogout(k, b) BY <1>2, BeginLogoutKeeps
<1>3. CASE \E k \in Callback, b \in Browser :
             \E code \in BOOLEAN, s \in {t \in DOMAIN started : started[t] = b} \cup {None} : Login!Arrive(k, b, s, code)
  BY <1>3, ArriveKeeps
<1>4. CASE \E k \in Callback : Login!Resolve(k) \/ Login!Login(k) \/ Login!Mint(k) \/ Login!Revoke(k) \/ Login!Answer(k)
  BY <1>4, ResolveKeeps, LoginKeeps, MintKeeps, RevokeKeeps, AnswerKeeps
<1>5. CASE Login!Restart BY <1>5, RestartKeeps
<1>6. CASE Login!Tick \/ UNCHANGED Login!loginVars BY <1>6, TickPasses
<1>7. QED BY <1>1, <1>2, <1>3, <1>4, <1>5, <1>6 DEF Login!Next

\* SessionIsEarned: every session came from a login of its own.
THEOREM LoginSafety == Spec => []SessionIsEarned
<1>1. Init => LoginInv BY LoginInit DEF Init
<1>2. [Next]_partVars => Login!Next \/ UNCHANGED Login!loginVars
  BY DEF Next, Only, partVars, loginVars, Login!loginVars
<1>3. LoginInv => SessionIsEarned
  <2> SUFFICES ASSUME LoginInv PROVE Login!SessionIsEarned BY DEF SessionIsEarned
  <2>1. LoginTypes /\ StoreIsBounded /\ SessionsAreOwn /\ CookiesAreOwn BY DEF LoginInv
  <2>2. ASSUME NEW n \in DOMAIN session
        PROVE  /\ \A m \in DOMAIN session : session[m].tx = session[n].tx => m = n
               /\ session[n].age < TxTTL /\ Login!Found(session[n].tx) = {}
               /\ session[n].account \in identity.users \cap identity.members
               /\ Login!Cardinality(identity.teams[session[n].account]) = 1
    <3>1. DOMAIN session = 1 .. Len(session) /\ session[n] \in SessionRow BY <2>1 DEF LoginTypes
    <3>2. session[n].account \in Account BY <3>1 DEF SessionRow
    <3>3. Established(session[n].account, identity) /\ Gone(session[n].tx, pending) BY <3>1, <2>1 DEF SessionsAreOwn
    <3>4. identity.teams[session[n].account] \in {{"seeded"}, {"derived"}}
      BY <3>2, <3>3, <2>1 DEF Established, LoginTypes, Known
    <3>5. Cardinality(identity.teams[session[n].account]) = 1 BY <3>4, FS_Singleton
    <3>6. Login!Found(session[n].tx) = {} BY <3>3 DEF Gone, Login!Found
    <3>7. QED BY <3>1, <3>3, <3>5, <3>6, <2>1, LoginCardinality DEF SessionsAreOwn, Established
  <2>3. \A b \in Browser : cookie[b].session # None => started[session[cookie[b].session].tx] = b
    BY <2>1 DEF CookiesAreOwn
  <2>4. Login!Cardinality(pending) <= Capacity BY <2>1, LoginCardinality DEF StoreIsBounded
  <2>5. QED BY <2>2, <2>3, <2>4 DEF Login!SessionIsEarned
<1>4. QED BY <1>1, <1>2, <1>3, LoginStep, PTL DEF Spec

--------------------------------------------------------------------------------
(***************************************************************************)
(* The search for the latest occurrence.                                   *)
(***************************************************************************)
Past == {t \in occurrences : t <= search.at}
IsGreatest(m, S) == m \in S /\ \A t \in S : t <= m

SearchShape ==
  /\ occurrences \subseteq Earliest + 1 .. Latest
  /\ search = [pc |-> search.pc, at |-> search.at, low |-> search.low, high |-> search.high,
               window |-> search.window, found |-> search.found]
  /\ search.pc \in {"idle", "widen", "bisect", "done"}
  /\ search.at \in Int /\ search.low \in Int /\ search.high \in Int /\ search.window \in Int

\* While it widens nothing is known; while it bisects the latest occurrence lies
\* above low and not above high; and when it ends it is what was found.
SearchInv ==
  /\ SearchShape
  /\ search.pc \in {"idle", "widen", "bisect"} => search.found = None
  /\ search.pc = "widen" => search.high = search.at
  /\ search.pc = "bisect" =>
       /\ search.high <= search.at
       /\ \E m \in Past : IsGreatest(m, Past) /\ search.low < m /\ m <= search.high
  /\ search.pc = "done" => IF Past = {} THEN search.found = None ELSE IsGreatest(search.found, Past)

\* Bounded sets of integers have a least and a greatest member.
LEMMA LeastInteger ==
  ASSUME NEW lo \in Int, NEW hi \in Int, NEW S \in SUBSET (lo .. hi), S # {}
  PROVE  \E m \in S : \A t \in S : m <= t
<1> DEFINE N == {n \in 0 .. hi - lo : lo + n \in S}
<1>1. \A t \in S : t \in Int /\ t - lo \in N /\ lo + (t - lo) = t
  <2> TAKE t \in S
  <2>1. t \in lo .. hi OBVIOUS
  <2>2. t \in Int /\ t - lo \in 0 .. hi - lo /\ lo + (t - lo) = t BY <2>1
  <2>3. QED BY <2>2
<1>2. N # {} BY <1>1
<1>3. N \in SUBSET Nat OBVIOUS
<1>4. PICK k \in N : \A j \in N : k <= j BY <1>2, <1>3, LeastExists
<1>5. k \in Int /\ lo + k \in S BY <1>4
<1>6. \A t \in S : lo + k <= t
  <2> TAKE t \in S
  <2>1. t \in Int /\ t - lo \in N BY <1>1
  <2>2. k <= t - lo BY <2>1, <1>4
  <2> HIDE DEF N
  <2>3. QED BY <1>5, <2>1, <2>2
<1>7. QED BY <1>5, <1>6

LEMMA GreatestInteger ==
  ASSUME NEW lo \in Int, NEW hi \in Int, NEW S \in SUBSET (lo .. hi), S # {}
  PROVE  \E m \in S : \A t \in S : t <= m
<1> DEFINE N == {n \in 0 .. hi - lo : hi - n \in S}
<1>1. \A t \in S : t \in Int /\ hi - t \in N /\ hi - (hi - t) = t
  <2> TAKE t \in S
  <2>1. t \in lo .. hi OBVIOUS
  <2>2. t \in Int /\ hi - t \in 0 .. hi - lo /\ hi - (hi - t) = t BY <2>1
  <2>3. QED BY <2>2
<1>2. N # {} BY <1>1
<1>3. N \in SUBSET Nat OBVIOUS
<1>4. PICK k \in N : \A j \in N : k <= j BY <1>2, <1>3, LeastExists
<1>5. k \in Int /\ hi - k \in S BY <1>4
<1>6. \A t \in S : t <= hi - k
  <2> TAKE t \in S
  <2>1. t \in Int /\ hi - t \in N BY <1>1
  <2>2. k <= hi - t BY <2>1, <1>4
  <2> HIDE DEF N
  <2>3. QED BY <1>5, <2>1, <2>2
<1>7. QED BY <1>5, <1>6

\* What a probe says: whether an occurrence lies after it and not after the instant.
LEMMA ProbesTell ==
  ASSUME SearchShape, NEW after \in Int
  PROVE  /\ Search!Reached(Search!nextOccurrence(after)) <=> \E t \in Past : after < t
         /\ Search!Reached(Search!nextOccurrence(after)) =>
              /\ Search!nextOccurrence(after) \in Past /\ after < Search!nextOccurrence(after)
              /\ \A t \in Past : after < t => Search!nextOccurrence(after) <= t
<1> DEFINE later == {t \in occurrences : t > after}
           next == Search!nextOccurrence(after)
<1>1. /\ later = {} => next = None
      /\ later # {} => next = Search!Min(later)
  BY DEF Search!nextOccurrence
<1>2. \A t \in occurrences : t \in Int BY SearchAssumption DEF SearchShape
<1>3. search.at \in Int BY DEF SearchShape
<1>4. CASE later = {}
  <2>1. next = None BY <1>1, <1>4
  <2>2. ~Search!Reached(next) BY <2>1 DEF Search!Reached
  <2>3. ~ \E t \in Past : after < t BY <1>2, <1>4 DEF Past
  <2>4. QED BY <2>2, <2>3
<1>5. CASE later # {}
  <2>1. later \in SUBSET (Earliest + 1 .. Latest) BY DEF SearchShape
  <2>2. Earliest + 1 \in Int /\ Latest \in Int BY SearchAssumption
  <2> HIDE DEF later
  <2>3. \E m \in later : \A t \in later : m <= t BY <1>5, <2>1, <2>2, LeastInteger
  <2>4. Search!Min(later) \in later /\ \A t \in later : Search!Min(later) <= t BY <2>3 DEF Search!Min
  <2>5. next \in later /\ \A t \in later : next <= t BY <1>1, <1>5, <2>4
  <2> HIDE DEF next
  <2>6. next \in occurrences /\ next \in Int /\ after < next /\ next # None
        /\ \A t \in occurrences : after < t => next <= t
    BY <1>2, <2>5, SearchAssumption DEF later
  <2>7. Search!Reached(next) <=> next \in Past BY <2>6 DEF Search!Reached, Past
  <2>8. \A t \in Past : after < t => next <= t /\ next <= search.at
    BY <1>2, <1>3, <2>6 DEF Past
  <2>9. (\E t \in Past : after < t) => next \in Past BY <2>6, <2>8 DEF Past
  <2>10. QED BY <2>6, <2>7, <2>8, <2>9 DEF next
<1>6. QED BY <1>4, <1>5

LEMMA PastIsBounded ==
  ASSUME SearchShape
  PROVE  /\ \A t \in Past : t \in Int /\ t <= search.at /\ Earliest < t
         /\ Past # {} => \E m \in Past : IsGreatest(m, Past)
<1>1. Past \in SUBSET (Earliest + 1 .. Latest) BY DEF SearchShape, Past
<1>2. Earliest \in Int /\ Earliest + 1 \in Int /\ Latest \in Int BY SearchAssumption
<1>3. \A t \in Past : t \in Int /\ t <= search.at /\ Earliest < t
  <2> TAKE t \in Past
  <2>1. t \in Earliest + 1 .. Latest BY <1>1
  <2>2. t <= search.at BY DEF Past
  <2>3. QED BY <1>2, <2>1, <2>2
<1>4. Past # {} => \E m \in Past : \A t \in Past : t <= m BY <1>1, <1>2, GreatestInteger
<1>5. QED BY <1>3, <1>4 DEF IsGreatest

\* A step of the search that leaves the question as it is.
LEMMA SameQuestion ==
  ASSUME SearchShape, UNCHANGED occurrences, NEW s, search' = s, s.at = search.at,
         s = [pc |-> s.pc, at |-> s.at, low |-> s.low, high |-> s.high, window |-> s.window, found |-> s.found],
         s.pc \in {"idle", "widen", "bisect", "done"}, s.low \in Int, s.high \in Int, s.window \in Int
  PROVE  SearchShape' /\ Past' = Past
BY DEF SearchShape, Past

\* Two fields of a search at once.
LEMMA SearchFields ==
  ASSUME NEW r, NEW a, NEW b,
         r = [pc |-> r.pc, at |-> r.at, low |-> r.low, high |-> r.high, window |-> r.window, found |-> r.found]
  PROVE  /\ [r EXCEPT !.pc = a, !.low = b] =
              [pc |-> a, at |-> r.at, low |-> b, high |-> r.high, window |-> r.window, found |-> r.found]
         /\ [r EXCEPT !.pc = a, !.found = b] =
              [pc |-> a, at |-> r.at, low |-> r.low, high |-> r.high, window |-> r.window, found |-> b]
<1> DEFINE r1 == [r EXCEPT !.pc = a]
<1>1. r1 = [pc |-> a, at |-> r.at, low |-> r.low, high |-> r.high, window |-> r.window, found |-> r.found] OBVIOUS
<1>2. [r EXCEPT !.pc = a, !.low = b] = [r1 EXCEPT !.low = b]
      /\ [r EXCEPT !.pc = a, !.found = b] = [r1 EXCEPT !.found = b]
  OBVIOUS
<1> HIDE DEF r1
<1>3. [r1 EXCEPT !.low = b] = [pc |-> a, at |-> r.at, low |-> b, high |-> r.high, window |-> r.window, found |-> r.found]
  BY <1>1
<1>4. [r1 EXCEPT !.found = b] = [pc |-> a, at |-> r.at, low |-> r.low, high |-> r.high, window |-> r.window, found |-> b]
  BY <1>1
<1>5. QED BY <1>2, <1>3, <1>4

LEMMA WidenKeeps ==
  ASSUME SearchInv, Search!Widen
  PROVE  SearchInv'
<1> DEFINE start == Search!Greater(Earliest, search.at - search.window)
           probe == Search!Greater(Earliest, start - 1)
           wider == Search!Smaller(search.window * 2, search.at - Earliest)
           hit == Search!Reached(Search!nextOccurrence(probe))
<1>1. SearchShape /\ search.pc = "widen" /\ search.high = search.at /\ UNCHANGED occurrences
  BY DEF SearchInv, Search!Widen
<1>2. search' = IF hit THEN [search EXCEPT !.pc = "bisect", !.low = probe]
                ELSE IF start = Earliest THEN [search EXCEPT !.pc = "done"]
                ELSE [search EXCEPT !.window = wider]
  BY DEF Search!Widen
<1>3. start \in Int /\ probe \in Int /\ wider \in Int /\ (start = Earliest => probe = Earliest)
  BY <1>1, SearchAssumption DEF SearchShape, Search!Greater, Search!Smaller
<1> HIDE DEF start, wider, probe
<1>4. hit => \E t \in Past : probe < t BY <1>1, <1>3, ProbesTell
<1>5. ~hit => ~ \E t \in Past : probe < t BY <1>1, <1>3, ProbesTell
<1> HIDE DEF hit
<1>6. CASE hit
  <2> DEFINE s == [search EXCEPT !.pc = "bisect", !.low = probe]
  <2>1. search' = s BY <1>2, <1>6
  <2>2. s = [pc |-> "bisect", at |-> search.at, low |-> probe, high |-> search.high, window |-> search.window, found |-> search.found]
    <3>1. search = [pc |-> search.pc, at |-> search.at, low |-> search.low, high |-> search.high,
                    window |-> search.window, found |-> search.found]
      BY <1>1 DEF SearchShape
    <3> DEFINE s1 == [search EXCEPT !.pc = "bisect"]
    <3>2. s1 = [pc |-> "bisect", at |-> search.at, low |-> search.low, high |-> search.high,
                window |-> search.window, found |-> search.found]
      BY <3>1
    <3>3. s = [s1 EXCEPT !.low = probe] OBVIOUS
    <3> HIDE DEF s1, s
    <3>4. QED BY <3>2, <3>3
  <2> HIDE DEF s
  <2>3. SearchShape' /\ Past' = Past BY <1>1, <1>3, <2>1, <2>2, SameQuestion DEF SearchShape
  <2>4. PICK t \in Past : probe < t BY <1>4, <1>6
  <2>5. PICK m \in Past : IsGreatest(m, Past) BY <1>1, <2>4, PastIsBounded
  <2>6. t \in Int /\ m \in Int /\ m <= search.at /\ t <= m BY <1>1, <2>4, <2>5, PastIsBounded DEF IsGreatest
  <2>7. probe < m BY <1>3, <2>4, <2>6
  <2>8. search.at <= search.at /\ search.at \in Int BY <1>1 DEF SearchShape
  <2>9. search'.pc = "bisect" /\ search'.low = probe /\ search'.high = search.at /\ search'.at = search.at
        /\ search'.found = None
    BY <1>1, <2>1, <2>2 DEF SearchInv
  <2>10. IsGreatest(m, Past') /\ m \in Past' BY <2>3, <2>5
  <2>11. QED BY <2>3, <2>6, <2>7, <2>8, <2>9, <2>10 DEF SearchInv, IsGreatest
<1>7. CASE ~hit /\ start = Earliest
  <2> DEFINE s == [search EXCEPT !.pc = "done"]
  <2>1. search' = s BY <1>2, <1>7
  <2>2. s = [pc |-> "done", at |-> search.at, low |-> search.low, high |-> search.high, window |-> search.window, found |-> search.found]
    BY <1>1 DEF SearchShape
  <2> HIDE DEF s
  <2>3. SearchShape' /\ Past' = Past BY <1>1, <2>1, <2>2, SameQuestion DEF SearchShape
  <2>4. Past = {} BY <1>1, <1>3, <1>5, <1>7, PastIsBounded
  <2>5. search'.found = None /\ search'.pc = "done" BY <1>1, <2>1, <2>2 DEF SearchInv
  <2>6. QED BY <2>3, <2>4, <2>5 DEF SearchInv
<1>8. CASE ~hit /\ start # Earliest
  <2> DEFINE s == [search EXCEPT !.window = wider]
  <2>1. search' = s BY <1>2, <1>8
  <2>2. s = [pc |-> "widen", at |-> search.at, low |-> search.low, high |-> search.high, window |-> wider, found |-> search.found]
    BY <1>1 DEF SearchShape
  <2> HIDE DEF s
  <2>3. SearchShape' /\ Past' = Past BY <1>1, <1>3, <2>1, <2>2, SameQuestion DEF SearchShape
  <2>4. search'.pc = "widen" /\ search'.high = search'.at /\ search'.found = None
    BY <1>1, <2>1, <2>2 DEF SearchInv
  <2>5. QED BY <2>3, <2>4 DEF SearchInv
<1>9. QED BY <1>6, <1>7, <1>8

LEMMA BisectKeeps ==
  ASSUME SearchInv, Search!Bisect
  PROVE  SearchInv'
<1> DEFINE middle == search.low + (search.high - search.low) \div 2
           hit == Search!Reached(Search!nextOccurrence(middle))
<1>1. SearchShape /\ search.pc = "bisect" /\ search.high - search.low > 1 /\ UNCHANGED occurrences /\ search.found = None
  BY DEF SearchInv, Search!Bisect
<1>2. search' = IF hit THEN [search EXCEPT !.low = middle] ELSE [search EXCEPT !.high = middle]
  BY DEF Search!Bisect
<1>3. PICK m \in Past : IsGreatest(m, Past) /\ search.low < m /\ m <= search.high BY <1>1 DEF SearchInv
<1>4. search.high <= search.at BY <1>1 DEF SearchInv
<1>5. search.low \in Int /\ search.high \in Int /\ search.at \in Int BY <1>1 DEF SearchShape
<1>6. middle \in Int /\ middle <= search.high BY <1>1, <1>5
<1> HIDE DEF middle
<1>7. hit => \E t \in Past : middle < t BY <1>1, <1>6, ProbesTell
<1>8. ~hit => ~ \E t \in Past : middle < t BY <1>1, <1>6, ProbesTell
<1>9. m \in Int /\ \A t \in Past : t \in Int /\ t <= m BY <1>1, <1>3, PastIsBounded DEF IsGreatest
<1> HIDE DEF hit
<1>10. CASE hit
  <2> DEFINE s == [search EXCEPT !.low = middle]
  <2>1. search' = s BY <1>2, <1>10
  <2>2. s = [pc |-> "bisect", at |-> search.at, low |-> middle, high |-> search.high, window |-> search.window, found |-> search.found]
    BY <1>1 DEF SearchShape
  <2> HIDE DEF s
  <2>3. SearchShape' /\ Past' = Past BY <1>1, <1>6, <2>1, <2>2, SameQuestion DEF SearchShape
  <2>4. middle < m BY <1>6, <1>7, <1>9, <1>10
  <2>5. search'.pc = "bisect" /\ search'.low = middle /\ search'.high = search.high /\ search'.at = search.at
        /\ search'.found = None
    BY <1>1, <2>1, <2>2
  <2>6. IsGreatest(m, Past') /\ m \in Past' BY <2>3, <1>3
  <2>7. QED BY <1>3, <1>4, <2>3, <2>4, <2>5, <2>6 DEF SearchInv
<1>11. CASE ~hit
  <2> DEFINE s == [search EXCEPT !.high = middle]
  <2>1. search' = s BY <1>2, <1>11
  <2>2. s = [pc |-> "bisect", at |-> search.at, low |-> search.low, high |-> middle, window |-> search.window, found |-> search.found]
    BY <1>1 DEF SearchShape
  <2> HIDE DEF s
  <2>3. SearchShape' /\ Past' = Past BY <1>1, <1>6, <2>1, <2>2, SameQuestion DEF SearchShape
  <2>4. m <= middle /\ middle <= search.at BY <1>3, <1>4, <1>5, <1>6, <1>8, <1>9, <1>11
  <2>5. search'.pc = "bisect" /\ search'.low = search.low /\ search'.high = middle /\ search'.at = search.at
        /\ search'.found = None
    BY <1>1, <2>1, <2>2
  <2>6. IsGreatest(m, Past') /\ m \in Past' BY <2>3, <1>3
  <2>7. QED BY <1>3, <2>3, <2>4, <2>5, <2>6 DEF SearchInv
<1>12. QED BY <1>10, <1>11

\* One instant is left between low and high: the latest occurrence.
LEMMA SearchSettleKeeps ==
  ASSUME SearchInv, Search!Settle
  PROVE  SearchInv'
<1> DEFINE latest == Search!nextOccurrence(search.low)
           found0 == IF Search!Reached(latest) THEN latest ELSE None
<1>1. SearchShape /\ search.pc = "bisect" /\ search.high - search.low <= 1 /\ UNCHANGED occurrences
  BY DEF SearchInv, Search!Settle
<1>2. search' = [search EXCEPT !.pc = "done", !.found = found0] BY DEF Search!Settle
<1>3. PICK m \in Past : IsGreatest(m, Past) /\ search.low < m /\ m <= search.high BY <1>1 DEF SearchInv
<1>4. search.low \in Int /\ search.high \in Int BY <1>1 DEF SearchShape
<1>5. Search!Reached(latest) BY <1>1, <1>3, <1>4, ProbesTell
<1>6. latest \in Past /\ search.low < latest /\ latest <= m BY <1>1, <1>3, <1>4, <1>5, ProbesTell
<1>7. found0 = latest BY <1>5
<1> HIDE DEF latest, found0
<1>8. latest \in Int /\ m \in Int BY <1>1, <1>3, <1>6, PastIsBounded
<1>9. latest = m BY <1>1, <1>3, <1>4, <1>6, <1>8
<1> DEFINE s == [search EXCEPT !.pc = "done", !.found = found0]
<1>10. s = [pc |-> "done", at |-> search.at, low |-> search.low, high |-> search.high, window |-> search.window, found |-> found0]
  BY <1>1, SearchFields DEF SearchShape
<1>11. search' = s BY <1>2
<1> HIDE DEF s
<1>12. SearchShape' /\ Past' = Past BY <1>1, <1>10, <1>11, SameQuestion DEF SearchShape
<1>13. search'.pc = "done" /\ search'.found = m BY <1>7, <1>9, <1>10, <1>11
<1>14. Past' # {} /\ IsGreatest(m, Past') BY <1>3, <1>12
<1>15. QED BY <1>12, <1>13, <1>14 DEF SearchInv

LEMMA SearchStep ==
  ASSUME SearchInv, Search!Next \/ UNCHANGED Search!searchVars
  PROVE  SearchInv'
<1>1. ASSUME NEW t0 \in Search!Instant, NEW set \in SUBSET (Earliest + 1 .. Latest),
             search.pc = "idle", occurrences' = set,
             search' = [search EXCEPT !.pc = "widen", !.at = t0, !.low = t0, !.high = t0, !.window = FirstWindow]
      PROVE  SearchInv'
  <2>1. t0 \in Int BY SearchAssumption DEF Search!Instant
  <2>2. search' = [pc |-> "widen", at |-> t0, low |-> t0, high |-> t0, window |-> FirstWindow, found |-> search.found]
        /\ search.found = None
    BY <1>1 DEF SearchInv, SearchShape
  <2>3. FirstWindow \in Int BY SearchAssumption
  <2>4. QED BY <1>1, <2>1, <2>2, <2>3 DEF SearchInv, SearchShape
<1>2. CASE Search!Ask BY <1>1, <1>2 DEF Search!Ask
<1>3. CASE UNCHANGED Search!searchVars
  BY <1>3 DEF Search!searchVars, SearchInv, SearchShape, Past, IsGreatest
<1>4. QED BY <1>2, <1>3, WidenKeeps, BisectKeeps, SearchSettleKeeps DEF Search!Next

\* SearchIsExact, of RulesAreExact: the search finds the latest occurrence, or that
\* there is none, whatever the occurrences, the instant and the first window.
THEOREM SearchSafety == Spec => [](part = "search" => Search!SearchIsExact)
<1>1. Init => SearchInv
  <2> SUFFICES ASSUME Search!Init PROVE SearchInv BY DEF Init
  <2>1. Earliest \in Int BY SearchAssumption
  <2>2. QED BY <2>1 DEF Search!Init, SearchInv, SearchShape
<1>2. [Next]_partVars => Search!Next \/ UNCHANGED Search!searchVars
  BY DEF Next, Only, partVars, searchVars, Search!searchVars
<1>3. SearchInv /\ [Next]_partVars => SearchInv'
  BY <1>2, SearchStep
<1>4. SearchInv => Search!SearchIsExact
  <2> SUFFICES ASSUME SearchInv PROVE Search!SearchIsExact OBVIOUS
  <2>1. ASSUME NEW m \in Past, IsGreatest(m, Past) PROVE Search!Max(Past) = m
    <3>1. \A t \in Past : t \in Int BY PastIsBounded DEF SearchInv
    <3>2. \A t \in Past : m >= t BY <2>1, <3>1 DEF IsGreatest
    <3>3. \A x \in Past : (\A t \in Past : x >= t) => x = m BY <2>1, <3>1, <3>2
    <3>4. QED BY <2>1, <3>2, <3>3 DEF Search!Max
  <2>2. search.pc = "done" => search.found = (IF Past = {} THEN None ELSE Search!Max(Past))
    BY <2>1 DEF SearchInv, IsGreatest
  <2>3. search.pc = "bisect" => Past # {} /\ search.low < Search!Max(Past) /\ Search!Max(Past) <= search.high
    BY <2>1 DEF SearchInv
  <2> DEFINE past == {t \in occurrences : t <= search.at}
  <2>4. past = Past BY DEF Past
  <2>5. QED BY <2>2, <2>3, <2>4 DEF Search!SearchIsExact
<1>5. QED BY <1>1, <1>3, <1>4, PTL DEF Spec

--------------------------------------------------------------------------------
(***************************************************************************)
(* Roots: the server only narrows what the daemon allows.                  *)
(***************************************************************************)
Within(r, d) == Policy!isWithinOrEqual(r, d)

LEMMA WithinMeans ==
  ASSUME NEW r \in Seq(Segment), NEW d \in Seq(Segment)
  PROVE  Within(r, d) <=> Len(r) <= Len(d) /\ \A i \in 1 .. Len(r) : r[i] = d[i]
<1>1. Within(r, d) <=> Len(r) <= Len(d) /\ r = SubSeq(d, 1, Len(r))
  BY DEF Within, Policy!isWithinOrEqual
<1>2. Len(r) \in Nat /\ Len(d) \in Nat OBVIOUS
<1>3. CASE Len(r) <= Len(d)
  <2> DEFINE t == SubSeq(d, 1, Len(r))
  <2>1. t \in Seq(Segment) /\ Len(t) = Len(r) /\ \A i \in 1 .. Len(r) : t[i] = d[i]
    BY <1>2, <1>3, SubSeqProperties
  <2> HIDE DEF t
  <2>2. r = t <=> \A i \in 1 .. Len(r) : r[i] = t[i] BY <2>1, SeqEqual
  <2>3. QED BY <1>1, <1>3, <2>1, <2>2 DEF t
<1>4. QED BY <1>1, <1>3

LEMMA WithinOrders ==
  ASSUME NEW a \in Seq(Segment), NEW b \in Seq(Segment), NEW d \in Seq(Segment)
  PROVE  /\ Within(a, a)
         /\ Within(a, b) /\ Within(b, d) => Within(a, d)
         /\ Within(a, d) /\ Within(b, d) => Within(a, b) \/ Within(b, a)
         /\ Within(a, b) /\ Len(b) <= Len(a) => a = b
<1>1. Len(a) \in Nat /\ Len(b) \in Nat /\ Len(d) \in Nat OBVIOUS
<1>2. Within(a, a) BY <1>1, WithinMeans
<1>3. ASSUME Within(a, b), Within(b, d) PROVE Within(a, d)
  <2>1. Len(a) <= Len(b) /\ Len(b) <= Len(d) /\ (\A i \in 1 .. Len(a) : a[i] = b[i]) /\ (\A i \in 1 .. Len(b) : b[i] = d[i])
    BY <1>3, WithinMeans
  <2>2. Len(a) <= Len(d) /\ \A i \in 1 .. Len(a) : i \in 1 .. Len(b) BY <1>1, <2>1
  <2>3. \A i \in 1 .. Len(a) : a[i] = d[i] BY <2>1, <2>2
  <2>4. QED BY <2>2, <2>3, WithinMeans
<1>4. ASSUME Within(a, d), Within(b, d) PROVE Within(a, b) \/ Within(b, a)
  <2>1. (\A i \in 1 .. Len(a) : a[i] = d[i]) /\ (\A i \in 1 .. Len(b) : b[i] = d[i]) BY <1>4, WithinMeans
  <2>2. CASE Len(a) <= Len(b)
    <3>1. \A i \in 1 .. Len(a) : i \in 1 .. Len(b) BY <1>1, <2>2
    <3>2. QED BY <2>1, <2>2, <3>1, WithinMeans
  <2>3. CASE Len(b) <= Len(a)
    <3>1. \A i \in 1 .. Len(b) : i \in 1 .. Len(a) BY <1>1, <2>3
    <3>2. QED BY <2>1, <2>3, <3>1, WithinMeans
  <2>4. QED BY <1>1, <2>2, <2>3
<1>5. ASSUME Within(a, b), Len(b) <= Len(a) PROVE a = b
  <2>1. Len(a) = Len(b) /\ \A i \in 1 .. Len(a) : a[i] = b[i] BY <1>1, <1>5, WithinMeans
  <2>2. QED BY <2>1, SeqEqual
<1>6. QED BY <1>2, <1>3, <1>4, <1>5

RootsInv == roots = [daemon |-> roots.daemon, server |-> roots.server]
            /\ roots.daemon \subseteq Directory /\ roots.server \subseteq Directory

LEMMA DirectoriesAreSequences == Directory \subseteq Seq(Segment)
BY PolicyAssumption DEF Places

\* What both sides name, the narrower of each nested pair.
Common == {Policy!Narrower(pair[1], pair[2]) : pair \in {p \in roots.daemon \X roots.server :
             Policy!isWithinOrEqual(p[1], p[2]) \/ Policy!isWithinOrEqual(p[2], p[1])}}

LEMMA CommonMeans ==
  ASSUME RootsInv
  PROVE  /\ \A c \in Common : c \in Seq(Segment) /\ \E a \in roots.daemon, b \in roots.server : Within(a, c) /\ Within(b, c)
         /\ \A a \in roots.daemon, b \in roots.server :
              Within(a, b) \/ Within(b, a) => (IF Within(a, b) THEN b ELSE a) \in Common
         /\ Policy!intersectRoots = {r \in Common : \A other \in Common : other # r => ~Within(other, r)}
<1> DEFINE nested == {p \in roots.daemon \X roots.server :
                        Policy!isWithinOrEqual(p[1], p[2]) \/ Policy!isWithinOrEqual(p[2], p[1])}
<1>1. \A a \in roots.daemon : a \in Seq(Segment) BY DirectoriesAreSequences DEF RootsInv
<1>2. \A b \in roots.server : b \in Seq(Segment) BY DirectoriesAreSequences DEF RootsInv
<1>3. \A c \in Common : \E a \in roots.daemon, b \in roots.server :
        (Within(a, b) \/ Within(b, a)) /\ c = (IF Within(a, b) THEN b ELSE a)
  <2> TAKE c \in Common
  <2>1. PICK p \in nested : c = Policy!Narrower(p[1], p[2]) BY DEF Common
  <2>2. p[1] \in roots.daemon /\ p[2] \in roots.server /\ (Within(p[1], p[2]) \/ Within(p[2], p[1]))
    BY <2>1 DEF Within
  <2>3. c = (IF Within(p[1], p[2]) THEN p[2] ELSE p[1]) BY <2>1 DEF Policy!Narrower, Within
  <2>4. QED BY <2>2, <2>3
<1>4. \A c \in Common : c \in Seq(Segment) /\ \E a \in roots.daemon, b \in roots.server : Within(a, c) /\ Within(b, c)
  BY <1>1, <1>2, <1>3, WithinOrders
<1>5. ASSUME NEW a \in roots.daemon, NEW b \in roots.server, Within(a, b) \/ Within(b, a)
      PROVE  (IF Within(a, b) THEN b ELSE a) \in Common
  <2> DEFINE p == <<a, b>>
  <2>1. p \in nested /\ p[1] = a /\ p[2] = b BY <1>5 DEF Within
  <2>2. Policy!Narrower(p[1], p[2]) \in Common BY <2>1 DEF Common
  <2>3. QED BY <2>1, <2>2 DEF Policy!Narrower, Within
<1>6. Policy!intersectRoots = {r \in Common : \A other \in Common : other # r => ~Within(other, r)}
  BY DEF Policy!intersectRoots, Common, Within
<1>7. QED BY <1>4, <1>5, <1>6

\* Below every common root lies one that is left.
LEMMA LeftOver ==
  ASSUME RootsInv, NEW c \in Common
  PROVE  \E m \in Policy!intersectRoots : Within(m, c)
<1> DEFINE below == {x \in Common : Within(x, c)}
           lengths == {Len(x) : x \in below}
<1>1. \A x \in Common : x \in Seq(Segment) BY CommonMeans
<1>2. c \in below BY <1>1, WithinOrders
<1>3. \A x \in below : Len(x) \in 0 .. Len(c)
  <2> TAKE x \in below
  <2>1. x \in Seq(Segment) /\ c \in Seq(Segment) /\ Within(x, c) BY <1>1
  <2>2. Len(x) \in Nat /\ Len(c) \in Nat /\ Len(x) <= Len(c) BY <2>1, WithinMeans
  <2>3. QED BY <2>2
<1>4. lengths \subseteq 0 .. Len(c) BY <1>3
<1>5. Len(c) \in Nat BY <1>1
<1>6. lengths \in SUBSET Nat /\ lengths # {}
  <2>1. Len(c) \in lengths BY <1>2
  <2>2. QED BY <1>4, <2>1
<1>7. PICK k \in lengths : \A j \in lengths : k <= j BY <1>6, LeastExists
<1>8. PICK m \in below : Len(m) = k BY <1>7
<1>9. \A x \in below : Len(m) <= Len(x) BY <1>7, <1>8
<1>10. m \in Common /\ Within(m, c) /\ m \in Seq(Segment) BY <1>1, <1>8
<1>11. ASSUME NEW other \in Common, other # m, Within(other, m) PROVE FALSE
  <2>1. other \in Seq(Segment) BY <1>1
  <2>2. Within(other, c) BY <1>1, <1>10, <1>11, <2>1, WithinOrders
  <2>3. Len(m) <= Len(other) BY <1>9, <2>2
  <2>4. QED BY <1>10, <1>11, <2>1, <2>3, WithinOrders
<1>12. m \in Policy!intersectRoots BY <1>10, <1>11, CommonMeans
<1>13. QED BY <1>10, <1>12

AllowedBoth(d) == (\E r \in roots.daemon : Within(r, d)) /\ (roots.server # {} => \E r \in roots.server : Within(r, d))

\* What is left allows a directory exactly if both sides do.
LEMMA RootsMean ==
  ASSUME RootsInv, NEW d \in Seq(Segment)
  PROVE  (\E r \in Policy!effectiveRoots : Within(r, d)) <=> AllowedBoth(d)
<1>1. CASE roots.server = {} BY <1>1 DEF Policy!effectiveRoots, AllowedBoth
<1>2. CASE roots.server # {}
  <2>1. Policy!effectiveRoots = Policy!intersectRoots BY <1>2 DEF Policy!effectiveRoots
  <2>2. \A a \in roots.daemon : a \in Seq(Segment) BY DirectoriesAreSequences DEF RootsInv
  <2>3. \A b \in roots.server : b \in Seq(Segment) BY DirectoriesAreSequences DEF RootsInv
  <2>4. ASSUME NEW r \in Policy!intersectRoots, Within(r, d) PROVE AllowedBoth(d)
    <3>1. r \in Common /\ r \in Seq(Segment) BY <2>4, CommonMeans
    <3>2. PICK a \in roots.daemon, b \in roots.server : Within(a, r) /\ Within(b, r) BY <3>1, CommonMeans
    <3>3. Within(a, d) /\ Within(b, d) BY <2>2, <2>3, <2>4, <3>1, <3>2, WithinOrders
    <3>4. QED BY <3>3 DEF AllowedBoth
  <2>5. ASSUME AllowedBoth(d) PROVE \E r \in Policy!intersectRoots : Within(r, d)
    <3>1. PICK a \in roots.daemon, b \in roots.server : Within(a, d) /\ Within(b, d) BY <1>2, <2>5 DEF AllowedBoth
    <3>2. a \in Seq(Segment) /\ b \in Seq(Segment) BY <2>2, <2>3
    <3>3. Within(a, b) \/ Within(b, a) BY <3>1, <3>2, WithinOrders
    <3> DEFINE c == IF Within(a, b) THEN b ELSE a
    <3>4. c \in Common /\ Within(c, d) BY <3>1, <3>3, CommonMeans
    <3>5. c \in Seq(Segment) BY <3>2
    <3> HIDE DEF c
    <3>6. PICK m \in Policy!intersectRoots : Within(m, c) BY <3>4, LeftOver
    <3>7. m \in Seq(Segment) BY <3>6, CommonMeans
    <3>8. Within(m, d) BY <3>4, <3>5, <3>6, <3>7, WithinOrders
    <3>9. QED BY <3>8
  <2>6. QED BY <2>1, <2>4, <2>5
<1>3. QED BY <1>1, <1>2

LEMMA RootsNarrow ==
  ASSUME RootsInv
  PROVE  Policy!RootsOnlyNarrow
<1> DEFINE Allowed(set, d) == \E r \in set : Policy!isWithinOrEqual(r, d)
           Both(d) == Allowed(roots.daemon, d) /\ (roots.server # {} => Allowed(roots.server, d))
<1>1. \A d \in Seq(Segment) : Allowed(Policy!effectiveRoots, d) <=> Both(d)
  BY RootsMean DEF Within, AllowedBoth
<1>2. \A r, s \in Policy!intersectRoots : r # s => ~Policy!isWithinOrEqual(r, s)
  BY CommonMeans DEF Within
<1>3. \A d \in Directory : Landing[d] # None => Landing[d] \in Seq(Segment)
  BY PolicyAssumption DEF Places
<1>4. \A d \in Directory :
        LET real == Policy!resolveArtifactRoot(d)
        IN  (real # None /\ Policy!guardArtifactRoot(real)) <=>
              (Landing[d] # None /\ Both(Landing[d]) /\ ~Policy!NeverSyncDirectory(Landing[d]))
  <2> TAKE d \in Directory
  <2> DEFINE real == Policy!resolveArtifactRoot(d)
  <2>1. real = IF \E r \in Policy!effectiveRoots : Landing[d] # None /\ Policy!isWithinOrEqual(r, Landing[d])
               THEN Landing[d] ELSE None
    BY DEF Policy!resolveArtifactRoot
  <2> HIDE DEF real
  <2>2. real # None <=> Landing[d] # None /\ Allowed(Policy!effectiveRoots, Landing[d]) BY <2>1
  <2>3. real # None => real = Landing[d] BY <2>1
  <2>4. Landing[d] # None => (Allowed(Policy!effectiveRoots, Landing[d]) <=> Both(Landing[d])) BY <1>1, <1>3
  <2> HIDE DEF Allowed, Both
  <2>5. (real # None /\ Policy!guardArtifactRoot(real)) <=>
           (Landing[d] # None /\ Both(Landing[d]) /\ ~Policy!NeverSyncDirectory(Landing[d]))
    BY <2>2, <2>3, <2>4 DEF Policy!guardArtifactRoot
  <2>6. QED BY <2>5 DEF real
<1>5. \A d \in Directory : Allowed(Policy!effectiveRoots, d) <=> Both(d) BY <1>1, DirectoriesAreSequences
<1>6. QED BY <1>2, <1>4, <1>5 DEF Policy!RootsOnlyNarrow

\* RootsOnlyNarrow, of RulesAreExact: whatever roots either side names, a directory may
\* be used exactly if both allow it.
THEOREM RootsSafety == Spec => [](part = "policy" => Policy!RootsOnlyNarrow)
<1>1. Init => RootsInv
  BY DEF Init, Policy!Init, RootsInv
<1>2. [Next]_partVars => Policy!Next \/ UNCHANGED Policy!policyVars
  BY DEF Next, Only, partVars, policyVars, Policy!policyVars
<1>3. RootsInv /\ [Next]_partVars => RootsInv'
  <2> SUFFICES ASSUME RootsInv, Policy!Next \/ UNCHANGED Policy!policyVars PROVE RootsInv' BY <1>2
  <2>1. ASSUME NEW d \in Directory, roots' = [roots EXCEPT !.daemon = roots.daemon \cup {d}] PROVE RootsInv'
    BY <2>1 DEF RootsInv
  <2>2. ASSUME NEW d \in Directory, roots' = [roots EXCEPT !.server = roots.server \cup {d}] PROVE RootsInv'
    BY <2>2 DEF RootsInv
  <2>3. ASSUME UNCHANGED roots PROVE RootsInv' BY <2>3 DEF RootsInv
  <2>4. QED BY <2>1, <2>2, <2>3 DEF Policy!Next, Policy!Send, Policy!GiveRoot, Policy!policyVars
<1>4. RootsInv => Policy!RootsOnlyNarrow
  BY RootsNarrow
<1>5. QED BY <1>1, <1>3, <1>4, PTL DEF Spec

--------------------------------------------------------------------------------
(***************************************************************************)
(* Manifests: one pass, in wire order, finds what any order would.         *)
(***************************************************************************)
Legal(e) == ~Policy!NeverSync(e.path) /\ e.size <= MaxFile
Apart(a, b) == ~Policy!isWithinOrEqual(a.path, b.path) /\ (a.hash = b.hash => a.size = b.size)
WireIsLegal ==
  /\ \A i \in DOMAIN wire : Legal(wire[i])
  /\ \A i, j \in DOMAIN wire : i # j => Apart(wire[i], wire[j])
BytesOf(n) == UNION {{i} \X (1 .. wire[i].size) : i \in 1 .. n}

\* What the pass has seen is what has come, unless it has failed, and rightly so.
PolicyInv ==
  /\ wire \in Seq(Policy!Entry)
  /\ accept = [paths |-> accept.paths, prefixes |-> accept.prefixes, sizes |-> accept.sizes,
               total |-> accept.total, failed |-> accept.failed]
  /\ IF accept.failed THEN accept.failed = TRUE /\ ~WireIsLegal
     ELSE /\ accept.failed = FALSE /\ WireIsLegal
          /\ accept.paths = {wire[i].path : i \in DOMAIN wire}
          /\ accept.prefixes = UNION {Policy!ProperPrefixes(wire[i].path) : i \in DOMAIN wire}
          /\ accept.sizes = {[hash |-> wire[i].hash, size |-> wire[i].size] : i \in DOMAIN wire}
          /\ IsFiniteSet(BytesOf(Len(wire))) /\ accept.total = Cardinality(BytesOf(Len(wire)))

\* A path lies within another, or is it, if it is it or one of its prefixes.
LEMMA PrefixesNest ==
  ASSUME NEW a \in FilePath, NEW b \in FilePath
  PROVE  Policy!isWithinOrEqual(a, b) <=> a = b \/ a \in Policy!ProperPrefixes(b)
<1>1. a \in Seq(Segment) /\ b \in Seq(Segment) /\ Len(a) \in Nat /\ Len(b) \in Nat
  BY PolicyAssumption DEF Places
<1>2. Len(a) # 0 BY <1>1, PolicyAssumption
<1>3. ASSUME Policy!isWithinOrEqual(a, b) PROVE a = b \/ a \in Policy!ProperPrefixes(b)
  <2>1. Len(a) <= Len(b) /\ a = SubSeq(b, 1, Len(a)) BY <1>3 DEF Policy!isWithinOrEqual
  <2>2. CASE Len(a) = Len(b)
    <3>1. Within(a, b) /\ Len(b) <= Len(a) BY <1>1, <1>3, <2>2 DEF Within
    <3>2. QED BY <1>1, <3>1, WithinOrders
  <2>3. CASE Len(a) < Len(b)
    <3>1. Len(a) \in 1 .. Len(b) - 1 BY <1>1, <1>2, <2>3
    <3>2. QED BY <2>1, <3>1 DEF Policy!ProperPrefixes
  <2>4. QED BY <1>1, <2>1, <2>2, <2>3
<1>4. ASSUME a \in Policy!ProperPrefixes(b) PROVE Policy!isWithinOrEqual(a, b)
  <2>1. PICK i \in 1 .. Len(b) - 1 : a = SubSeq(b, 1, i) BY <1>4 DEF Policy!ProperPrefixes
  <2>2. i \in Nat /\ i <= Len(b) /\ \A k \in 1 .. i : b[k] \in Segment BY <1>1, <2>1
  <2>3. Len(SubSeq(b, 1, i)) = i BY <1>1, <2>2, SubSeqProperties
  <2>4. Len(a) = i BY <2>1, <2>3
  <2>5. QED BY <2>1, <2>2, <2>4 DEF Policy!isWithinOrEqual
<1>5. Policy!isWithinOrEqual(a, a)
  <2>1. Within(a, a) BY <1>1, WithinOrders
  <2>2. QED BY <2>1 DEF Within
<1>6. QED BY <1>3, <1>4, <1>5

\* The pass refuses an entry exactly if it is not legal or not apart from one it
\* has seen, whichever of the two would come first.
LEMMA EntryJudged ==
  ASSUME PolicyInv, ~accept.failed, NEW e \in Policy!Entry
  PROVE  Policy!EntryFails(e) <=> ~(Legal(e) /\ \A i \in DOMAIN wire : Apart(wire[i], e) /\ Apart(e, wire[i]))
<1>1. \A i \in DOMAIN wire : wire[i] \in Policy!Entry BY DEF PolicyInv
<1>2. e.path \in FilePath /\ e.size \in Nat /\ MaxFile \in Nat
      /\ \A i \in DOMAIN wire : wire[i].path \in FilePath /\ wire[i].size \in Nat
  BY <1>1, PolicyAssumption DEF Policy!Entry
<1>3. Policy!NeverSync(e.path) \/ e.size > MaxFile <=> ~Legal(e) BY <1>2 DEF Legal
<1>4. \A i \in DOMAIN wire :
        /\ Policy!isWithinOrEqual(wire[i].path, e.path) <=>
             wire[i].path = e.path \/ wire[i].path \in Policy!ProperPrefixes(e.path)
        /\ Policy!isWithinOrEqual(e.path, wire[i].path) <=>
             wire[i].path = e.path \/ e.path \in Policy!ProperPrefixes(wire[i].path)
  BY <1>2, PrefixesNest
<1>5. e.path \in accept.paths \/ Policy!Conflicts(e.path) <=>
        \E i \in DOMAIN wire : \/ Policy!isWithinOrEqual(wire[i].path, e.path)
                               \/ Policy!isWithinOrEqual(e.path, wire[i].path)
  <2>1. e.path \in accept.paths <=> \E i \in DOMAIN wire : wire[i].path = e.path BY DEF PolicyInv
  <2>2. Policy!ProperPrefixes(e.path) \cap accept.paths # {} <=>
          \E i \in DOMAIN wire : wire[i].path \in Policy!ProperPrefixes(e.path)
    BY DEF PolicyInv
  <2>3. e.path \in accept.prefixes <=> \E i \in DOMAIN wire : e.path \in Policy!ProperPrefixes(wire[i].path)
    BY DEF PolicyInv
  <2>4. QED BY <1>4, <2>1, <2>2, <2>3 DEF Policy!Conflicts
<1>6. (\E known \in accept.sizes : known.hash = e.hash /\ known.size # e.size) <=>
        \E i \in DOMAIN wire : wire[i].hash = e.hash /\ wire[i].size # e.size
  <2> DEFINE known(i) == [hash |-> wire[i].hash, size |-> wire[i].size]
  <2>1. accept.sizes = {known(i) : i \in DOMAIN wire} BY DEF PolicyInv
  <2>2. \A i \in DOMAIN wire : known(i).hash = wire[i].hash /\ known(i).size = wire[i].size OBVIOUS
  <2> HIDE DEF known
  <2>3. QED BY <2>1, <2>2
<1>7. Policy!EntryFails(e) <=>
        \/ ~Legal(e)
        \/ \E i \in DOMAIN wire : \/ Policy!isWithinOrEqual(wire[i].path, e.path)
                                  \/ Policy!isWithinOrEqual(e.path, wire[i].path)
        \/ \E i \in DOMAIN wire : wire[i].hash = e.hash /\ wire[i].size # e.size
  BY <1>3, <1>5, <1>6 DEF Policy!EntryFails
<1>8. \A i \in DOMAIN wire :
        Apart(wire[i], e) /\ Apart(e, wire[i]) <=>
          ~(\/ Policy!isWithinOrEqual(wire[i].path, e.path)
            \/ Policy!isWithinOrEqual(e.path, wire[i].path)
            \/ wire[i].hash = e.hash /\ wire[i].size # e.size)
  BY DEF Apart
<1>9. QED BY <1>7, <1>8

\* The bytes of an entry more.
LEMMA BytesGrow ==
  ASSUME wire \in Seq(Policy!Entry), NEW e \in Policy!Entry, wire' = Append(wire, e), IsFiniteSet(BytesOf(Len(wire)))
  PROVE  /\ IsFiniteSet(BytesOf(Len(wire))')
         /\ Cardinality(BytesOf(Len(wire))') = Cardinality(BytesOf(Len(wire))) + e.size
<1> DEFINE n == Len(wire)
           old == BytesOf(n)
           new == {n + 1} \X (1 .. e.size)
<1>1. n \in Nat /\ e.size \in Nat
  <2>1. e.size \in Size BY DEF Policy!Entry
  <2>2. e.size \in Nat BY <2>1, PolicyAssumption
  <2>3. QED BY <2>2
<1>2. /\ Len(wire') = n + 1 /\ wire'[n + 1] = e /\ \A i \in 1 .. n : wire'[i] = wire[i]
  BY AppendProperties
<1>3. BytesOf(Len(wire))' = old \cup new
  <2>1. BytesOf(Len(wire))' = UNION {{i} \X (1 .. wire'[i].size) : i \in 1 .. n + 1} BY <1>2 DEF BytesOf
  <2>2. 1 .. n + 1 = (1 .. n) \cup {n + 1} BY <1>1
  <2> DEFINE sized(i) == {i} \X (1 .. wire'[i].size)
  <2>3. \A i \in 1 .. n : sized(i) = {i} \X (1 .. wire[i].size) BY <1>2
  <2>4. sized(n + 1) = new BY <1>2
  <2>5. old = UNION {sized(i) : i \in 1 .. n} BY <2>3 DEF BytesOf
  <2>6. BytesOf(Len(wire))' = UNION {sized(i) : i \in (1 .. n) \cup {n + 1}} BY <2>1, <2>2
  <2> HIDE DEF n, old, new, sized
  <2>7. UNION {sized(i) : i \in (1 .. n) \cup {n + 1}} = (UNION {sized(i) : i \in 1 .. n}) \cup sized(n + 1)
    OBVIOUS
  <2>8. QED BY <2>4, <2>5, <2>6, <2>7
<1>4. IsFiniteSet(new) /\ Cardinality(new) = e.size
  <2>1. IsFiniteSet({n + 1}) /\ Cardinality({n + 1}) = 1 BY FS_Singleton
  <2>2. IsFiniteSet(1 .. e.size) /\ Cardinality(1 .. e.size) = e.size
    <3> DEFINE m == e.size
    <3>1. m \in Nat /\ 1 \in Int /\ m \in Int BY <1>1
    <3> HIDE DEF m
    <3>2. IsFiniteSet(1 .. m) /\ Cardinality(1 .. m) = IF 1 > m THEN 0 ELSE m - 1 + 1 BY <3>1, FS_Interval
    <3>3. Cardinality(1 .. m) = m BY <3>1, <3>2
    <3>4. QED BY <3>2, <3>3 DEF m
  <2>3. IsFiniteSet(new) /\ Cardinality(new) = 1 * e.size
    <3>1. /\ IsFiniteSet({n + 1} \X (1 .. e.size))
          /\ Cardinality({n + 1} \X (1 .. e.size)) = Cardinality({n + 1}) * Cardinality(1 .. e.size)
      BY <2>1, <2>2, FS_Product
    <3>2. QED BY <2>1, <2>2, <3>1
  <2>4. QED BY <1>1, <2>3
<1>5. old \cap new = {}
  <2>1. \A p \in old : p[1] \in 1 .. n BY DEF BytesOf
  <2>2. \A p \in new : p[1] = n + 1 OBVIOUS
  <2>3. n + 1 \notin 1 .. n BY <1>1
  <2>4. QED BY <2>1, <2>2, <2>3
<1> HIDE DEF new
<1>6. /\ IsFiniteSet(old \cup new)
      /\ Cardinality(old \cup new) = Cardinality(old) + Cardinality(new) - Cardinality(old \cap new)
  BY <1>4, FS_Union
<1>7. Cardinality(old \cap new) = 0 /\ Cardinality(old) \in Nat BY <1>5, FS_EmptySet, FS_CardinalityType
<1> HIDE DEF old
<1>8. QED BY <1>1, <1>3, <1>4, <1>6, <1>7 DEF old

LEMMA PolicyStep == PolicyInv /\ (Policy!Next \/ UNCHANGED policyVars) => PolicyInv'
<1> SUFFICES ASSUME PolicyInv, Policy!Next \/ UNCHANGED policyVars PROVE PolicyInv' OBVIOUS
<1>1. ASSUME NEW e \in Policy!Entry, Policy!Send(e) PROVE PolicyInv'
  <2> DEFINE n == Len(wire)
             fits == Legal(e) /\ \A i \in DOMAIN wire : Apart(wire[i], e) /\ Apart(e, wire[i])
  <2>1. /\ wire' = Append(wire, e) /\ wire \in Seq(Policy!Entry) /\ n \in Nat
        /\ wire' \in Seq(Policy!Entry) /\ DOMAIN wire = 1 .. n /\ DOMAIN wire' = 1 .. n + 1
        /\ Len(wire') = n + 1 /\ wire'[n + 1] = e /\ \A i \in 1 .. n : wire'[i] = wire[i]
    BY <1>1, AppendProperties DEF Policy!Send, PolicyInv
  <2>2. \A i \in DOMAIN wire' : i \in DOMAIN wire \/ i = n + 1 BY <2>1
  <2>3. n + 1 \in DOMAIN wire' /\ n + 1 \notin DOMAIN wire /\ \A i \in DOMAIN wire : i \in DOMAIN wire' /\ wire'[i] = wire[i]
    BY <2>1
  <2>4. WireIsLegal' <=> WireIsLegal /\ fits
    <3>1. ASSUME WireIsLegal' PROVE WireIsLegal /\ fits
      <4>1. /\ \A i \in DOMAIN wire' : Legal(wire'[i])
            /\ \A i, j \in DOMAIN wire' : i # j => Apart(wire'[i], wire'[j])
        BY <3>1 DEF WireIsLegal, Legal, Apart
      <4>2. WireIsLegal BY <2>3, <4>1 DEF WireIsLegal
      <4>3. Legal(e) BY <2>1, <2>3, <4>1
      <4>4. \A i \in DOMAIN wire : Apart(wire[i], e) /\ Apart(e, wire[i]) BY <2>1, <2>3, <4>1
      <4>5. QED BY <4>2, <4>3, <4>4
    <3>2. ASSUME WireIsLegal, fits PROVE WireIsLegal'
      <4>1. \A i \in DOMAIN wire' : Legal(wire'[i]) BY <2>1, <2>2, <2>3, <3>2 DEF WireIsLegal
      <4>2. ASSUME NEW i \in DOMAIN wire', NEW j \in DOMAIN wire', i # j PROVE Apart(wire'[i], wire'[j])
        <5>1. CASE i \in DOMAIN wire /\ j \in DOMAIN wire BY <2>3, <3>2, <4>2, <5>1 DEF WireIsLegal
        <5>2. CASE i = n + 1 /\ j \in DOMAIN wire BY <2>1, <2>3, <3>2, <5>2
        <5>3. CASE i \in DOMAIN wire /\ j = n + 1 BY <2>1, <2>3, <3>2, <5>3
        <5>4. QED BY <2>2, <4>2, <5>1, <5>2, <5>3
      <4>3. QED BY <4>1, <4>2 DEF WireIsLegal, Legal, Apart
    <3>3. QED BY <3>1, <3>2
  <2>5. ~accept.failed => (Policy!EntryFails(e) <=> ~fits) BY EntryJudged
  <2> HIDE DEF fits
  <2>6. CASE accept.failed \/ Policy!EntryFails(e)
    <3>1. accept' = [accept EXCEPT !.failed = TRUE] BY <1>1, <2>6 DEF Policy!Send
    <3>2. accept'.failed = TRUE /\ accept' = [paths |-> accept'.paths, prefixes |-> accept'.prefixes,
            sizes |-> accept'.sizes, total |-> accept'.total, failed |-> accept'.failed]
      BY <3>1 DEF PolicyInv
    <3>3. ~WireIsLegal' BY <2>4, <2>5, <2>6 DEF PolicyInv
    <3>4. QED BY <2>1, <3>2, <3>3 DEF PolicyInv
  <2>7. CASE ~(accept.failed \/ Policy!EntryFails(e))
    <3>1. accept' = [accept EXCEPT !.paths = @ \cup {e.path},
                                   !.prefixes = @ \cup Policy!ProperPrefixes(e.path),
                                   !.sizes = @ \cup {[hash |-> e.hash, size |-> e.size]},
                                   !.total = @ + e.size]
      BY <1>1, <2>7 DEF Policy!Send
    <3>2. /\ accept' = [paths |-> accept'.paths, prefixes |-> accept'.prefixes,
               sizes |-> accept'.sizes, total |-> accept'.total, failed |-> accept'.failed]
          /\ accept'.failed = FALSE /\ accept'.paths = accept.paths \cup {e.path}
          /\ accept'.prefixes = accept.prefixes \cup Policy!ProperPrefixes(e.path)
          /\ accept'.sizes = accept.sizes \cup {[hash |-> e.hash, size |-> e.size]}
          /\ accept'.total = accept.total + e.size
      BY <2>7, <3>1 DEF PolicyInv
    <3>3. WireIsLegal' BY <2>4, <2>5, <2>7 DEF PolicyInv
    <3>4. accept'.paths = {wire'[i].path : i \in DOMAIN wire'}
      <4>1. accept.paths = {wire[i].path : i \in DOMAIN wire} BY <2>7 DEF PolicyInv
      <4>2. QED BY <2>1, <2>2, <2>3, <3>2, <4>1
    <3>5. accept'.prefixes = UNION {Policy!ProperPrefixes(wire'[i].path) : i \in DOMAIN wire'}
      <4>1. accept.prefixes = UNION {Policy!ProperPrefixes(wire[i].path) : i \in DOMAIN wire} BY <2>7 DEF PolicyInv
      <4>2. QED BY <2>1, <2>2, <2>3, <3>2, <4>1
    <3>6. accept'.sizes = {[hash |-> wire'[i].hash, size |-> wire'[i].size] : i \in DOMAIN wire'}
      <4> DEFINE known(x) == [hash |-> x.hash, size |-> x.size]
      <4>1. accept.sizes = {known(wire[i]) : i \in DOMAIN wire} BY <2>7 DEF PolicyInv
      <4>2. accept'.sizes = accept.sizes \cup {known(e)} BY <3>2
      <4> HIDE DEF known
      <4>3. accept'.sizes = {known(wire'[i]) : i \in DOMAIN wire'} BY <2>1, <2>2, <2>3, <4>1, <4>2
      <4>4. QED BY <4>3 DEF known
    <3>7. IsFiniteSet(BytesOf(Len(wire))) /\ accept.total = Cardinality(BytesOf(Len(wire)))
      BY <2>7 DEF PolicyInv
    <3>8. IsFiniteSet(BytesOf(Len(wire))') /\ accept'.total = Cardinality(BytesOf(Len(wire))')
      <4>1. /\ IsFiniteSet(BytesOf(Len(wire))')
            /\ Cardinality(BytesOf(Len(wire))') = Cardinality(BytesOf(Len(wire))) + e.size
        BY <2>1, <3>7, BytesGrow
      <4>2. QED BY <3>2, <3>7, <4>1
    <3>9. QED BY <2>1, <3>2, <3>3, <3>4, <3>5, <3>6, <3>8 DEF PolicyInv
  <2>8. QED BY <2>6, <2>7
<1>2. ASSUME UNCHANGED <<wire, accept>> PROVE PolicyInv'
  <2>1. WireIsLegal' <=> WireIsLegal BY <1>2 DEF WireIsLegal, Legal, Apart
  <2>2. BytesOf(Len(wire))' = BytesOf(Len(wire)) BY <1>2 DEF BytesOf
  <2>3. QED BY <1>2, <2>1, <2>2 DEF PolicyInv
<1>3. QED
  <2>1. ASSUME NEW d \in Directory, Policy!GiveRoot(d) PROVE UNCHANGED <<wire, accept>>
    BY <2>1 DEF Policy!GiveRoot
  <2>2. QED BY <1>1, <1>2, <2>1 DEF Policy!Next, policyVars

\* A manifest is accepted in one pass exactly if it is legal in any order, so that
\* daemon and server agree on it (normalizeManifestEntries of artifact-policy.ts).
THEOREM PolicySafety == Spec => [](part = "policy" => Policy!PolicyIsOrderFree)
<1>1. Init => PolicyInv
  <2> SUFFICES ASSUME Init PROVE PolicyInv OBVIOUS
  <2>1. wire = <<>> /\ accept = [paths |-> {}, prefixes |-> {}, sizes |-> {}, total |-> 0, failed |-> FALSE]
    BY DEF Init, Policy!Init
  <2>2. wire \in Seq(Policy!Entry) /\ Len(wire) = 0 /\ DOMAIN wire = {} BY <2>1
  <2>3. BytesOf(Len(wire)) = {} BY <2>2 DEF BytesOf
  <2>4. IsFiniteSet({}) /\ Cardinality({}) = 0 BY FS_EmptySet
  <2>5. WireIsLegal BY <2>2 DEF WireIsLegal
  <2>6. QED BY <2>1, <2>2, <2>3, <2>4, <2>5 DEF PolicyInv
<1>2. PolicyInv /\ [Next]_partVars => PolicyInv'
  <2>1. [Next]_partVars => Policy!Next \/ UNCHANGED policyVars BY DEF Next, Only, partVars
  <2>2. QED BY <2>1, PolicyStep
<1>3. PolicyInv => Policy!PolicyIsOrderFree
  <2> SUFFICES ASSUME PolicyInv PROVE Policy!PolicyIsOrderFree OBVIOUS
  <2> DEFINE laid == UNION {{i} \X (1 .. wire[i].size) : i \in DOMAIN wire}
             capped == Len(wire) <= MaxEntries /\ Policy!Cardinality(laid) <= MaxTotal
  <2>1. laid = BytesOf(Len(wire))
    <3>1. DOMAIN wire = 1 .. Len(wire) BY DEF PolicyInv
    <3>2. QED BY <3>1 DEF BytesOf
  <2>2. Policy!Cardinality(laid) = Cardinality(laid) BY DEF Policy!Cardinality, Cardinality
  <2>3. Policy!PolicyIsOrderFree <=> (Policy!Accepted <=> capped /\ WireIsLegal)
    BY DEF Policy!PolicyIsOrderFree, WireIsLegal, Legal, Apart
  <2>4. Policy!Accepted <=> ~accept.failed /\ Len(wire) <= MaxEntries /\ accept.total <= MaxTotal
    BY DEF Policy!Accepted
  <2>5. ~accept.failed => accept.total = Policy!Cardinality(laid) BY <2>1, <2>2 DEF PolicyInv
  <2>6. accept.failed <=> ~WireIsLegal BY DEF PolicyInv
  <2> HIDE DEF laid
  <2>7. QED BY <2>3, <2>4, <2>5, <2>6
<1>4. QED BY <1>1, <1>2, <1>3, PTL DEF Spec

--------------------------------------------------------------------------------
(***************************************************************************)
(* What is kept of the output.                                             *)
(***************************************************************************)
Output == Seq(Capture!Byte)

\* All of it, or the first bytes, and the last ones with the context of their cut.
CaptureInv ==
  /\ output \in Output
  /\ IF Len(output) <= 2 * HalfCap THEN whole = output
     ELSE /\ whole = None /\ headPart = SubSeq(output, 1, HalfCap)
          /\ tailPart = SubSeq(output, Len(output) - HalfCap - Longest + 2, Len(output))

\* The greatest of a bounded set of places.
LEMMA GreatestPlace ==
  ASSUME NEW n \in Nat, NEW S \in SUBSET (1 .. n), S # {}
  PROVE  Capture!Max(S) \in S /\ \A i \in S : i <= Capture!Max(S)
<1>1. \E m \in S : \A i \in S : m >= i
  <2>1. 1 \in Int /\ n \in Int OBVIOUS
  <2>2. PICK m \in S : \A t \in S : t <= m BY <2>1, GreatestInteger
  <2>3. \A t \in S : m >= t BY <2>2
  <2>4. QED BY <2>3
<1>2. Capture!Max(S) \in S /\ \A i \in S : Capture!Max(S) >= i
  BY <1>1, Zenon DEF Capture!Max
<1>3. QED BY <1>2

\* The last bytes of a sequence.
LEMMA LastBytes ==
  ASSUME NEW s \in Output, NEW n \in Nat, n >= 1
  PROVE  Capture!LastOf(s, n) = IF Len(s) <= n THEN s ELSE SubSeq(s, Len(s) - n + 1, Len(s))
<1> DEFINE S == {1, Len(s) - n + 1}
<1>1. Len(s) \in Nat OBVIOUS
<1>2. \E m \in S : \A i \in S : m >= i BY <1>1
<1>3. Capture!Max(S) \in S /\ \A i \in S : Capture!Max(S) >= i
  BY <1>2, Zenon DEF Capture!Max
<1>4. Capture!LastOf(s, n) = SubSeq(s, Capture!Max(S), Len(s)) BY DEF Capture!LastOf
<1>5. CASE Len(s) <= n
  <2>1. Capture!Max(S) = 1 BY <1>1, <1>3, <1>5
  <2>2. SubSeq(s, 1, Len(s)) = s
    <3>1. SubSeq(s, 1, Len(s)) \in Output /\ Len(SubSeq(s, 1, Len(s))) = Len(s)
          /\ \A i \in 1 .. Len(s) : SubSeq(s, 1, Len(s))[i] = s[i]
      BY <1>1, SubSeqProperties DEF Output
    <3>2. QED BY <3>1, SeqEqual DEF Output
  <2>3. QED BY <1>4, <1>5, <2>1, <2>2
<1>6. CASE Len(s) > n
  <2>1. Capture!Max(S) = Len(s) - n + 1 BY <1>1, <1>3, <1>6
  <2> HIDE DEF S
  <2>2. Capture!LastOf(s, n) = SubSeq(s, Len(s) - n + 1, Len(s)) BY <1>4, <2>1
  <2>3. QED BY <1>1, <1>6, <2>2
<1>7. QED BY <1>1, <1>5, <1>6

\* The bytes of a sequence from a place on.
LEMMA Rest ==
  ASSUME NEW s \in Output, NEW i \in 1 .. Len(s) + 1
  PROVE  /\ SubSeq(s, i, Len(s)) \in Output /\ Len(SubSeq(s, i, Len(s))) = Len(s) - i + 1
         /\ \A k \in 1 .. Len(s) - i + 1 : SubSeq(s, i, Len(s))[k] = s[i + k - 1]
<1> DEFINE j == Len(s)
<1>1. j \in Nat /\ \A k \in i .. j : s[k] \in Capture!Byte BY DEF Output
<1> HIDE DEF j
<1>2. /\ SubSeq(s, i, j) \in Seq(Capture!Byte) /\ Len(SubSeq(s, i, j)) = IF i <= j THEN j - i + 1 ELSE 0
      /\ \A k \in 1 .. j - i + 1 : SubSeq(s, i, j)[k] = s[i + k - 1]
  BY <1>1, SubSeqProperties
<1>3. i \in 1 .. j + 1 BY DEF j
<1>4. Len(SubSeq(s, i, j)) = j - i + 1 BY <1>1, <1>2, <1>3
<1>5. QED BY <1>2, <1>4 DEF Output, j

\* The last bytes of the last bytes are last bytes.
LEMMA RestOfRest ==
  ASSUME NEW s \in Output, NEW o \in Nat, NEW n \in Nat, o + n = Len(s), NEW b \in Output, Len(b) = n,
         \A k \in 1 .. n : b[k] = s[o + k], NEW i \in 1 .. n + 1
  PROVE  SubSeq(b, i, Len(b)) = SubSeq(s, o + i, Len(s))
<1> DEFINE x == SubSeq(b, i, Len(b))
           m == o + i
           y == SubSeq(s, m, Len(s))
           size == n - i + 1
<1>1. /\ m \in 1 .. Len(s) + 1 /\ Len(s) - m + 1 = size /\ size \in Nat
      /\ \A k \in 1 .. size : m + k - 1 = o + (i + k - 1) /\ i + k - 1 \in 1 .. n
  OBVIOUS
<1>2. i \in 1 .. Len(b) + 1 /\ Len(b) - i + 1 = size OBVIOUS
<1> HIDE DEF m, size
<1>3. x \in Output /\ Len(x) = size /\ \A k \in 1 .. size : x[k] = b[i + k - 1] BY <1>2, Rest
<1>4. y \in Output /\ Len(y) = size /\ \A k \in 1 .. size : y[k] = s[m + k - 1] BY <1>1, Rest
<1> HIDE DEF x, y
<1>5. \A k \in 1 .. size : x[k] = y[k] BY <1>1, <1>3, <1>4
<1>6. x = y BY <1>3, <1>4, <1>5, SeqEqual DEF Output
<1>7. QED BY <1>6 DEF x, y, m

\* The last bytes of what has come so far, when more comes: they are the last
\* ones of the last bytes and the chunk.
LEMMA LastBytesMove ==
  ASSUME NEW s \in Output, NEW c \in Output, NEW n \in Nat, n >= 1, n <= Len(s)
  PROVE  Capture!LastOf(SubSeq(s, Len(s) - n + 1, Len(s)) \o c, n)
           = SubSeq(s \o c, Len(s \o c) - n + 1, Len(s \o c))
<1> DEFINE last == SubSeq(s, Len(s) - n + 1, Len(s))
           both == last \o c
           a == SubSeq(both, Len(c) + 1, Len(both))
           b == SubSeq(s \o c, Len(s \o c) - n + 1, Len(s \o c))
<1>1. Len(s) \in Nat /\ Len(c) \in Nat BY DEF Output
<1>2. /\ last \in Output /\ Len(last) = n
      /\ \A k \in 1 .. n : last[k] = s[Len(s) - n + k]
  <2> DEFINE i == Len(s) - n + 1
  <2>1. i \in 1 .. Len(s) + 1 /\ Len(s) - i + 1 = n /\ \A k \in 1 .. n : i + k - 1 = Len(s) - n + k BY <1>1
  <2> HIDE DEF i
  <2>2. last = SubSeq(s, i, Len(s)) BY DEF i
  <2> HIDE DEF last
  <2>3. QED BY <2>1, <2>2, Rest
<1> HIDE DEF last
<1>3. /\ both \in Output /\ Len(both) = n + Len(c)
      /\ \A k \in 1 .. n + Len(c) : both[k] = IF k <= n THEN last[k] ELSE c[k - n]
  BY <1>2, ConcatProperties DEF Output
<1>4. /\ s \o c \in Output /\ Len(s \o c) = Len(s) + Len(c)
      /\ \A k \in 1 .. Len(s) + Len(c) : (s \o c)[k] = IF k <= Len(s) THEN s[k] ELSE c[k - Len(s)]
  BY ConcatProperties DEF Output
<1> DEFINE all == s \o c
<1> HIDE DEF both, all
<1>5. a \in Output /\ Len(a) = n /\ \A k \in 1 .. n : a[k] = both[Len(c) + k]
  <2> DEFINE i == Len(c) + 1
  <2>1. i \in 1 .. Len(both) + 1 /\ Len(both) - i + 1 = n /\ \A k \in 1 .. n : i + k - 1 = Len(c) + k BY <1>1, <1>3
  <2> HIDE DEF i
  <2>2. a = SubSeq(both, i, Len(both)) BY DEF i
  <2>3. both \in Output BY <1>3
  <2> HIDE DEF a
  <2>4. QED BY <2>1, <2>2, <2>3, Rest
<1>6. b \in Output /\ Len(b) = n /\ \A k \in 1 .. n : b[k] = all[Len(s) + Len(c) - n + k]
  <2> DEFINE i == Len(all) - n + 1
  <2>1. /\ i \in 1 .. Len(all) + 1 /\ Len(all) - i + 1 = n
        /\ \A k \in 1 .. n : i + k - 1 = Len(s) + Len(c) - n + k
    BY <1>1, <1>4 DEF all
  <2> HIDE DEF i
  <2>2. all \in Output BY <1>4 DEF all
  <2>3. b = SubSeq(all, i, Len(all)) BY DEF i, all
  <2> HIDE DEF b
  <2>4. QED BY <2>1, <2>2, <2>3, Rest
<1> HIDE DEF a, b
<1>7. ASSUME NEW k \in 1 .. n PROVE a[k] = b[k]
  <2>1. Len(c) + k \in 1 .. n + Len(c) /\ Len(s) + Len(c) - n + k \in 1 .. Len(s) + Len(c) BY <1>1
  <2>2. a[k] = IF Len(c) + k <= n THEN s[Len(s) - n + (Len(c) + k)] ELSE c[Len(c) + k - n]
    <3>1. a[k] = IF Len(c) + k <= n THEN last[Len(c) + k] ELSE c[Len(c) + k - n] BY <2>1, <1>3, <1>5
    <3>2. Len(c) + k <= n => Len(c) + k \in 1 .. n BY <1>1
    <3>3. QED BY <3>1, <3>2, <1>2
  <2>3. b[k] = IF Len(s) + Len(c) - n + k <= Len(s) THEN s[Len(s) + Len(c) - n + k] ELSE c[Len(s) + Len(c) - n + k - Len(s)]
    BY <2>1, <1>4, <1>6 DEF all
  <2>4. /\ Len(s) + Len(c) - n + k <= Len(s) <=> Len(c) + k <= n
        /\ Len(s) - n + (Len(c) + k) = Len(s) + Len(c) - n + k
        /\ Len(s) + Len(c) - n + k - Len(s) = Len(c) + k - n
    BY <1>1
  <2>5. QED BY <2>2, <2>3, <2>4
<1>8. a = b BY <1>5, <1>6, <1>7, SeqEqual DEF Output
<1>9. Capture!LastOf(both, n) = a
  <2>1. Capture!LastOf(both, n) = IF Len(both) <= n THEN both ELSE SubSeq(both, Len(both) - n + 1, Len(both))
    BY <1>3, LastBytes
  <2>2. CASE Len(c) = 0
    <3>1. a = both
      <4>1. \A k \in 1 .. n : a[k] = both[k] BY <1>5, <2>2
      <4>2. QED BY <4>1, <1>3, <1>5, <2>2, SeqEqual DEF Output
    <3>2. QED BY <3>1, <2>1, <2>2, <1>3
  <2>3. CASE Len(c) # 0
    <3>1. ~(Len(both) <= n) /\ Len(both) - n + 1 = Len(c) + 1 BY <1>1, <1>3, <2>3
    <3>2. QED BY <3>1, <2>1 DEF a
  <2>4. QED BY <2>2, <2>3
<1>10. QED BY <1>8, <1>9 DEF both, last, b

\* The first bytes of a sequence.
LEMMA FirstBytes ==
  ASSUME NEW s \in Output, NEW n \in Nat, n <= Len(s)
  PROVE  /\ SubSeq(s, 1, n) \in Output /\ Len(SubSeq(s, 1, n)) = n
         /\ \A k \in 1 .. n : SubSeq(s, 1, n)[k] = s[k]
<1>1. \A k \in 1 .. n : s[k] \in Capture!Byte BY DEF Output
<1>2. /\ SubSeq(s, 1, n) \in Seq(Capture!Byte) /\ Len(SubSeq(s, 1, n)) = IF 1 <= n THEN n - 1 + 1 ELSE 0
      /\ \A k \in 1 .. n - 1 + 1 : SubSeq(s, 1, n)[k] = s[1 + k - 1]
  BY <1>1, SubSeqProperties
<1>3. \A k \in 1 .. n : 1 + k - 1 = k OBVIOUS
<1>4. QED BY <1>2, <1>3 DEF Output

\* They stay when more comes.
LEMMA FirstBytesStay ==
  ASSUME NEW s \in Output, NEW c \in Output, NEW n \in Nat, n <= Len(s)
  PROVE  SubSeq(s \o c, 1, n) = SubSeq(s, 1, n)
<1> DEFINE all == s \o c
           first == SubSeq(all, 1, n)
           old == SubSeq(s, 1, n)
<1>1. Len(s) \in Nat /\ Len(c) \in Nat BY DEF Output
<1>2. /\ all \in Output /\ Len(all) = Len(s) + Len(c)
      /\ \A k \in 1 .. Len(s) + Len(c) : all[k] = IF k <= Len(s) THEN s[k] ELSE c[k - Len(s)]
  BY ConcatProperties DEF Output
<1> HIDE DEF all
<1>3. \A k \in 1 .. n : all[k] = s[k] BY <1>1, <1>2
<1>4. all \in Output /\ n <= Len(all) BY <1>1, <1>2
<1>5. first \in Output /\ Len(first) = n /\ \A k \in 1 .. n : first[k] = all[k] BY <1>4, FirstBytes
<1>6. old \in Output /\ Len(old) = n /\ \A k \in 1 .. n : old[k] = s[k] BY FirstBytes
<1> HIDE DEF first, old
<1>7. first = old
  <2>1. \A k \in 1 .. n : first[k] = old[k] BY <1>3, <1>5, <1>6
  <2>2. QED BY <1>5, <1>6, <2>1, SeqEqual DEF Output
<1>8. QED BY <1>7 DEF all, first, old

\* All of an output that fits is not "no longer whole".
LEMMA WholeIsOutput ==
  ASSUME NEW s \in Output, Len(s) <= 2 * HalfCap
  PROVE  s # None
<1>1. s \in [1 .. Len(s) -> Capture!Byte] BY DEF Output
<1>2. Len(s) \in 0 .. 2 * HalfCap BY CaptureAssumption DEF Output
<1>3. Capture!Byte = DOMAIN Length \cup {"high", "low"} BY DEF Capture!Byte, Capture!Continuation
<1>4. QED BY <1>1, <1>2, <1>3, CaptureAssumption

LEMMA PushStep ==
  ASSUME CaptureInv, NEW chunk \in Output, Capture!Push(chunk)
  PROVE  CaptureInv'
<1> DEFINE keep == HalfCap + Capture!Context
           all == output \o chunk
<1>1. /\ HalfCap \in Nat /\ Longest \in Nat /\ Longest >= 1 /\ Longest <= HalfCap
      /\ keep \in Nat /\ keep = HalfCap + Longest - 1 /\ keep >= 1 /\ keep <= 2 * HalfCap
  BY CaptureAssumption DEF Capture!Context
<1>2. output \in Output /\ Len(output) \in Nat /\ Len(chunk) \in Nat BY DEF CaptureInv, Output
<1>3. output' = all /\ all \in Output /\ Len(all) = Len(output) + Len(chunk)
  BY <1>2, ConcatProperties DEF Capture!Push, Output
<1>4. CASE whole # None /\ Len(whole \o chunk) <= 2 * HalfCap
  <2>1. whole = output BY <1>4 DEF CaptureInv
  <2>2. whole' = all BY <1>1, <1>4, <2>1, <1>3 DEF Capture!Push
  <2>3. Len(all) <= 2 * HalfCap BY <1>4, <2>1
  <2>4. QED BY <1>3, <2>2, <2>3 DEF CaptureInv
<1>5. CASE whole # None /\ Len(whole \o chunk) > 2 * HalfCap
  <2>1. whole = output BY <1>5 DEF CaptureInv
  <2>2. /\ whole' = None /\ headPart' = SubSeq(all, 1, HalfCap)
        /\ tailPart' = Capture!LastOf(all, HalfCap + Capture!Context)
    BY <1>1, <1>5, <2>1, <1>3 DEF Capture!Push
  <2>3. Len(all) > 2 * HalfCap BY <1>5, <2>1
  <2> HIDE DEF all, keep
  <2>4. Capture!LastOf(all, keep) = SubSeq(all, Len(all) - keep + 1, Len(all))
    <3>1. Capture!LastOf(all, keep) = IF Len(all) <= keep THEN all ELSE SubSeq(all, Len(all) - keep + 1, Len(all))
      BY <1>1, <1>3, LastBytes
    <3>2. ~(Len(all) <= keep) BY <1>1, <1>2, <1>3, <2>3
    <3>3. QED BY <3>1, <3>2
  <2>5. Len(all) - keep + 1 = Len(all) - HalfCap - Longest + 2 /\ ~(Len(all) <= 2 * HalfCap)
    BY <1>1, <1>2, <1>3, <2>3
  <2>6. tailPart' = SubSeq(all, Len(all) - HalfCap - Longest + 2, Len(all)) BY <2>2, <2>4, <2>5 DEF keep
  <2>7. QED BY <1>3, <2>2, <2>5, <2>6 DEF CaptureInv
<1>6. CASE whole = None
  <2>1. ~(Len(output) <= 2 * HalfCap) BY <1>2, <1>6, WholeIsOutput DEF CaptureInv
  <2>2. /\ headPart = SubSeq(output, 1, HalfCap)
        /\ tailPart = SubSeq(output, Len(output) - HalfCap - Longest + 2, Len(output))
    BY <2>1 DEF CaptureInv
  <2>3. /\ whole' = None /\ headPart' = headPart
        /\ tailPart' = Capture!LastOf(tailPart \o chunk, HalfCap + Capture!Context)
    BY <1>6 DEF Capture!Push, Capture!Rolled
  <2> HIDE DEF keep
  <2>4. keep <= Len(output) /\ HalfCap <= Len(output) BY <1>1, <1>2, <2>1
  <2>5. Len(output) - keep + 1 = Len(output) - HalfCap - Longest + 2 BY <1>1, <1>2
  <2>6. tailPart' = SubSeq(all, Len(all) - keep + 1, Len(all))
    <3>1. tailPart = SubSeq(output, Len(output) - keep + 1, Len(output)) BY <2>2, <2>5
    <3>2. Capture!LastOf(SubSeq(output, Len(output) - keep + 1, Len(output)) \o chunk, keep)
            = SubSeq(output \o chunk, Len(output \o chunk) - keep + 1, Len(output \o chunk))
      BY <1>1, <1>2, <2>4, LastBytesMove
    <3>3. QED BY <2>3, <3>1, <3>2 DEF keep
  <2>7. headPart' = SubSeq(all, 1, HalfCap) BY <1>1, <1>2, <2>2, <2>3, <2>4, FirstBytesStay
  <2> HIDE DEF all
  <2>8. Len(all) - keep + 1 = Len(all) - HalfCap - Longest + 2 /\ ~(Len(all) <= 2 * HalfCap)
    BY <1>1, <1>2, <1>3, <2>1
  <2>9. QED BY <1>3, <2>3, <2>6, <2>7, <2>8 DEF CaptureInv
<1>7. QED BY <1>4, <1>5, <1>6 DEF Capture!Push

\* What a first byte needs, and the bytes that follow it.
LEMMA NeededBytes ==
  ASSUME NEW byte \in Capture!Byte
  PROVE  /\ Capture!Needed(byte) \in 1 .. Longest
         /\ byte \in Capture!Continuation => Capture!Needed(byte) = 1
<1>1. CASE byte \in Capture!Continuation BY <1>1, CaptureAssumption DEF Capture!Needed
<1>2. CASE byte \notin Capture!Continuation
  <2>1. Capture!Needed(byte) = Length[byte] /\ byte \in DOMAIN Length
    BY <1>2 DEF Capture!Needed, Capture!Byte
  <2>2. Length[byte] \in 1 .. Longest BY <2>1, CaptureAssumption
  <2>3. QED BY <1>2, <2>1, <2>2
<1>3. QED BY <1>1, <1>2

LEMMA FitsGoesOn ==
  ASSUME NEW s, NEW i \in Int, NEW last \in Int, Capture!Fits(s, i, last), NEW j \in i + 1 .. last
  PROVE  s[j] \in Capture!Continuation
BY DEF Capture!Fits, Capture!SecondFits

LEMMA FitsLess ==
  ASSUME NEW s, NEW i \in Int, NEW last \in Int, Capture!Fits(s, i, last), NEW m \in Int, m <= last
  PROVE  Capture!Fits(s, i, m)
<1>1. \A j \in i + 1 .. m : j \in i + 1 .. last OBVIOUS
<1>2. QED BY <1>1 DEF Capture!Fits

\* The same bytes at other places fit or do not.
SameBytes(b, i, last, s, o) == \A k \in i .. last : b[k] = s[o + k]
LEMMA FitsMoves ==
  ASSUME NEW b, NEW s, NEW o \in Int, NEW i \in Int, NEW last \in Int, SameBytes(b, i, last, s, o)
  PROVE  Capture!Fits(b, i, last) <=> Capture!Fits(s, o + i, o + last)
<1>0. \A k \in i .. last : b[k] = s[o + k] BY DEF SameBytes
<1>1. ASSUME Capture!Fits(b, i, last), NEW j \in o + i + 1 .. o + last
      PROVE  IF j = o + i + 1 THEN Capture!SecondFits(s[o + i], s[j]) ELSE s[j] \in Capture!Continuation
  <2> DEFINE k == j - o
  <2>1. k \in i + 1 .. last /\ k \in i .. last /\ i \in i .. last /\ o + k = j /\ (j = o + i + 1 <=> k = i + 1) BY <1>0
  <2>2. IF k = i + 1 THEN Capture!SecondFits(b[i], b[k]) ELSE b[k] \in Capture!Continuation
    BY <1>1, <2>1 DEF Capture!Fits
  <2>3. b[k] = s[j] /\ b[i] = s[o + i] BY <1>0, <2>1
  <2> HIDE DEF k
  <2>4. QED BY <2>1, <2>2, <2>3
<1>2. ASSUME Capture!Fits(s, o + i, o + last), NEW k \in i + 1 .. last
      PROVE  IF k = i + 1 THEN Capture!SecondFits(b[i], b[k]) ELSE b[k] \in Capture!Continuation
  <2> DEFINE j == o + k
  <2>1. j \in o + i + 1 .. o + last /\ k \in i .. last /\ i \in i .. last /\ (j = o + i + 1 <=> k = i + 1) BY <1>0
  <2>2. IF j = o + i + 1 THEN Capture!SecondFits(s[o + i], s[j]) ELSE s[j] \in Capture!Continuation
    BY <1>2, <2>1 DEF Capture!Fits
  <2>3. b[k] = s[j] /\ b[i] = s[o + i] BY <1>0, <2>1
  <2> HIDE DEF j
  <2>4. QED BY <2>1, <2>2, <2>3
<1>3. QED BY <1>0, <1>1, <1>2 DEF Capture!Fits

\* A character of the output has one first byte, and no more than the longest.
LEMMA OneFirstByte ==
  ASSUME output \in Output, NEW c \in Capture!Characters
  PROVE  /\ c[1] \in 1 .. Len(output) /\ c[2] \in 1 .. Len(output)
         /\ output[c[1]] \notin Capture!Continuation
         /\ c[2] = c[1] + Capture!Needed(output[c[1]]) - 1 /\ Capture!Needed(output[c[1]]) \in 1 .. Longest
         /\ Capture!Fits(output, c[1], c[2])
         /\ \A j \in c[1] + 1 .. c[2] : output[j] \in Capture!Continuation
<1>1. /\ c[1] \in 1 .. Len(output) /\ c[2] \in 1 .. Len(output)
      /\ output[c[1]] \notin Capture!Continuation
      /\ c[2] = c[1] + Capture!Needed(output[c[1]]) - 1 /\ Capture!Fits(output, c[1], c[2])
  BY DEF Capture!Characters
<1>2. output[c[1]] \in Capture!Byte BY <1>1 DEF Output
<1>3. Capture!Needed(output[c[1]]) \in 1 .. Longest BY <1>2, NeededBytes
<1>4. Len(output) \in Nat BY DEF Output
<1>5. c[1] \in Int /\ c[2] \in Int BY <1>1, <1>4
<1>6. \A j \in c[1] + 1 .. c[2] : output[j] \in Capture!Continuation BY <1>1, <1>5, FitsGoesOn
<1>7. QED BY <1>1, <1>3, <1>6

\* The head ends where a character does, and loses only what might have become one.
LEMMA HeadIsClean ==
  ASSUME output \in Output, Len(output) > 2 * HalfCap, headPart = SubSeq(output, 1, HalfCap)
  PROVE  \E h \in 0 .. HalfCap :
           /\ Capture!KeptHead = SubSeq(output, 1, h)
           /\ \A c \in Capture!Characters : ~(c[1] <= h /\ h < c[2])
           /\ h < HalfCap => /\ output[h + 1] \notin Capture!Continuation
                             /\ Capture!Needed(output[h + 1]) > HalfCap - h
                             /\ Capture!Fits(output, h + 1, HalfCap)
<1> DEFINE N == Len(output)
           H == HalfCap
           firsts == {i \in 1 .. Len(headPart) : headPart[i] \notin Capture!Continuation}
                       \cup {Len(headPart) - Capture!Context}
           first == Capture!Max(firsts)
           present == Len(headPart) - first + 1
           partial == Capture!Needed(headPart[first]) > present /\ Capture!Fits(headPart, first, Len(headPart))
<1>1. /\ N \in Nat /\ H \in Nat /\ H <= N /\ Longest \in Nat /\ Longest >= 1 /\ Longest <= H
      /\ \A k \in 1 .. N : output[k] \in Capture!Byte
  BY CaptureAssumption DEF Output
<1>2. /\ headPart \in Output /\ Len(headPart) = H /\ \A k \in 1 .. H : headPart[k] = output[k]
  BY <1>1, FirstBytes
<1>3. first \in firsts /\ \A i \in firsts : i <= first
  <2>1. firsts \in SUBSET (1 .. H) /\ firsts # {} BY <1>1, <1>2 DEF Capture!Context
  <2> HIDE DEF firsts
  <2>2. QED BY <1>1, <2>1, GreatestPlace
<1>4. first \in 1 .. H /\ (headPart[first] \notin Capture!Continuation \/ first = H - Longest + 1)
  <2> HIDE DEF first
  <2>1. \/ first \in 1 .. H /\ headPart[first] \notin Capture!Continuation
        \/ first = Len(headPart) - Capture!Context
    BY <1>2, <1>3
  <2>2. Len(headPart) - Capture!Context = H - Longest + 1 /\ H - Longest + 1 \in 1 .. H
    BY <1>1, <1>2 DEF Capture!Context
  <2>3. QED BY <2>1, <2>2
<1>5. Capture!KeptHead = IF partial THEN SubSeq(headPart, 1, first - 1) ELSE headPart
  BY DEF Capture!KeptHead, Capture!DropTrailingPartial
<1>6. present = H - first + 1 BY <1>2
<1>7. /\ headPart[first] = output[first] /\ output[first] \in Capture!Byte
      /\ Capture!Fits(headPart, first, Len(headPart)) <=> Capture!Fits(output, first, H)
  <2> HIDE DEF first
  <2>1. headPart[first] = output[first] /\ output[first] \in Capture!Byte BY <1>1, <1>2, <1>4
  <2>2. SameBytes(headPart, first, H, output, 0) BY <1>1, <1>2, <1>4 DEF SameBytes
  <2>3. Capture!Fits(headPart, first, H) <=> Capture!Fits(output, 0 + first, 0 + H)
    <3>1. 0 \in Int /\ H \in Int /\ first \in Int BY <1>1, <1>4
    <3> HIDE DEF H
    <3>2. QED BY <2>2, <3>1, FitsMoves
  <2>4. 0 + first = first /\ 0 + H = H BY <1>1, <1>4
  <2>5. QED BY <1>2, <2>1, <2>3, <2>4
<1>8. \A i \in 1 .. H : output[i] \notin Capture!Continuation => i <= first
  <2>1. \A i \in 1 .. H : output[i] \notin Capture!Continuation => i \in firsts BY <1>2
  <2>2. QED BY <1>3, <2>1
<1>9. partial <=> Capture!Needed(output[first]) > H - first + 1 /\ Capture!Fits(output, first, H)
  BY <1>6, <1>7
<1> HIDE DEF first, partial, present, firsts
<1>10. CASE partial
  <2> DEFINE h == first - 1
  <2>1. h \in 0 .. H /\ h < H /\ h + 1 = first /\ H - h = H - first + 1 BY <1>1, <1>4
  <2>2. Capture!Needed(output[h + 1]) > H - h /\ Capture!Fits(output, h + 1, H) BY <1>9, <1>10, <2>1
  <2>3. output[h + 1] \notin Capture!Continuation
    <3>1. output[first] \in Capture!Continuation => Capture!Needed(output[first]) = 1 BY <1>7, NeededBytes
    <3>2. H - h >= 1 BY <1>1, <1>4
    <3>3. QED BY <1>1, <1>4, <2>1, <2>2, <3>1, <3>2
  <2>4. Capture!KeptHead = SubSeq(output, 1, h)
    <3>1. Capture!KeptHead = SubSeq(headPart, 1, h) BY <1>5, <1>10
    <3>2. SubSeq(headPart, 1, h) = SubSeq(output, 1, h)
      <4> DEFINE a == SubSeq(headPart, 1, h)  b == SubSeq(output, 1, h)
      <4> HIDE DEF h
      <4>1. h \in Nat /\ h <= Len(headPart) /\ h <= N BY <1>1, <1>2, <2>1
      <4>2. a \in Output /\ Len(a) = h /\ \A k \in 1 .. h : a[k] = headPart[k] BY <1>2, <4>1, FirstBytes
      <4>3. b \in Output /\ Len(b) = h /\ \A k \in 1 .. h : b[k] = output[k] BY <4>1, FirstBytes
      <4>4. \A k \in 1 .. h : headPart[k] = output[k] BY <1>1, <1>2, <2>1
      <4> HIDE DEF a, b
      <4>5. a = b
        <5>1. \A k \in 1 .. h : a[k] = b[k] BY <4>2, <4>3, <4>4
        <5>2. QED BY <4>2, <4>3, <5>1, SeqEqual DEF Output
      <4>6. QED BY <4>5 DEF a, b
    <3>3. QED BY <3>1, <3>2
  <2>5. ASSUME NEW c \in Capture!Characters, c[1] <= h, h < c[2] PROVE FALSE
    <3>1. first \in c[1] + 1 .. c[2] BY <1>1, <1>4, <2>1, <2>5, OneFirstByte
    <3>2. QED BY <2>1, <2>3, <3>1, OneFirstByte
  <2> HIDE DEF h
  <2>6. QED BY <2>1, <2>2, <2>3, <2>4, <2>5
<1>11. CASE ~partial
  <2>1. Capture!KeptHead = SubSeq(output, 1, H) BY <1>5, <1>11
  <2>2. ASSUME NEW c \in Capture!Characters, c[1] <= H, H < c[2] PROVE FALSE
    <3>1. /\ c[1] \in 1 .. H /\ c[2] \in 1 .. N /\ output[c[1]] \notin Capture!Continuation
          /\ c[2] = c[1] + Capture!Needed(output[c[1]]) - 1 /\ Capture!Needed(output[c[1]]) \in 1 .. Longest
          /\ Capture!Fits(output, c[1], c[2])
          /\ \A j \in c[1] + 1 .. c[2] : output[j] \in Capture!Continuation
      BY <1>1, <2>2, OneFirstByte
    <3>2. c[1] <= first BY <1>8, <3>1
    <3>3. first = c[1]
      <4>1. CASE first > c[1]
        <5>1. first \in c[1] + 1 .. c[2] BY <1>1, <1>4, <2>2, <3>1, <4>1
        <5>2. output[first] \in Capture!Continuation BY <3>1, <5>1
        <5>3. first = H - Longest + 1 BY <1>4, <1>7, <5>2
        <5>4. QED BY <1>1, <2>2, <3>1, <4>1, <5>3
      <4>2. QED BY <1>4, <3>1, <3>2, <4>1
    <3>4. Capture!Needed(output[first]) > H - first + 1 BY <1>1, <2>2, <3>1, <3>3
    <3>5. Capture!Fits(output, first, H)
      <4>1. c[1] \in Int /\ c[2] \in Int /\ H \in Int /\ H <= c[2] BY <1>1, <2>2, <3>1
      <4>2. QED BY <3>1, <3>3, <4>1, FitsLess
    <3>6. QED BY <1>9, <1>11, <3>4, <3>5
  <2>3. H \in 0 .. H /\ ~(H < H) BY <1>1
  <2>4. QED BY <2>1, <2>2, <2>3
<1>12. QED BY <1>10, <1>11

\* The tail begins where a character does, and loses only the rest of a cut one.
LEMMA TailIsClean ==
  ASSUME output \in Output, Len(output) > 2 * HalfCap,
         tailPart = SubSeq(output, Len(output) - HalfCap - Longest + 2, Len(output))
  PROVE  \E t \in Len(output) - HalfCap + 1 .. Len(output) + 1 :
           /\ Capture!KeptTail = SubSeq(output, t, Len(output))
           /\ \A c \in Capture!Characters : ~(c[1] < t /\ t <= c[2])
           /\ t > Len(output) - HalfCap + 1 =>
                \E c \in Capture!Characters : c[1] <= Len(output) - HalfCap /\ c[2] = t - 1
<1> DEFINE N == Len(output)
           H == HalfCap
           o == N - H - Longest + 1
           size == H + Longest - 1
           start == Len(tailPart) - HalfCap + 1
           firsts == {i \in 1 .. start - 1 : tailPart[i] \notin Capture!Continuation}
           first == Capture!Max(firsts)
           end == first + Capture!Needed(tailPart[first])
           splits == /\ firsts # {} /\ tailPart[start] \in Capture!Continuation
                     /\ end > start /\ end - 1 <= Len(tailPart) /\ Capture!Fits(tailPart, first, end - 1)
           from == IF splits THEN end ELSE start
<1>1. /\ N \in Nat /\ H \in Nat /\ 2 * H < N /\ Longest \in Nat /\ Longest >= 1 /\ Longest <= H
      /\ \A k \in 1 .. N : output[k] \in Capture!Byte
  BY CaptureAssumption DEF Output
<1>2. o \in Nat /\ o + size = N /\ size \in Nat /\ N - H - Longest + 2 = o + 1 /\ N - o = size BY <1>1
<1>3. /\ tailPart \in Output /\ Len(tailPart) = size /\ \A k \in 1 .. size : tailPart[k] = output[o + k]
  <2> DEFINE i == o + 1
  <2>1. i \in 1 .. Len(output) + 1 /\ Len(output) - i + 1 = size /\ \A k \in 1 .. size : i + k - 1 = o + k
    BY <1>1, <1>2
  <2>2. tailPart = SubSeq(output, i, Len(output)) BY <1>2
  <2> DEFINE last == SubSeq(output, i, Len(output))
  <2> HIDE DEF i, o, size
  <2>3. /\ last \in Output /\ Len(last) = Len(output) - i + 1
        /\ \A k \in 1 .. Len(output) - i + 1 : last[k] = output[i + k - 1]
    BY <2>1, Rest
  <2> HIDE DEF last
  <2>4. /\ last \in Output /\ Len(last) = size /\ \A k \in 1 .. size : last[k] = output[o + k]
    BY <2>1, <2>3
  <2>5. tailPart = last BY <2>2 DEF last
  <2>6. QED BY <2>4, <2>5
<1>4. start = Longest BY <1>1, <1>3
<1>5. Capture!KeptTail = SubSeq(tailPart, from, Len(tailPart))
  BY DEF Capture!KeptTail, Capture!AlignTail
<1>6. firsts # {} => first \in 1 .. Longest - 1 /\ output[o + first] \notin Capture!Continuation
  <2> SUFFICES ASSUME firsts # {} PROVE first \in 1 .. Longest - 1 /\ output[o + first] \notin Capture!Continuation
    OBVIOUS
  <2>1. firsts \in SUBSET (1 .. Longest - 1) /\ Longest - 1 \in Nat BY <1>1, <1>4
  <2>2. \A i \in firsts : output[o + i] \notin Capture!Continuation
    <3>1. \A i \in firsts : i \in 1 .. size /\ tailPart[i] \notin Capture!Continuation BY <1>1, <1>4
    <3> HIDE DEF firsts, o, size
    <3>2. QED BY <1>3, <3>1
  <2> HIDE DEF firsts
  <2>3. first \in firsts BY <2>1, GreatestPlace
  <2>4. QED BY <2>1, <2>2, <2>3
<1>7. \A i \in 1 .. Longest - 1 : output[o + i] \notin Capture!Continuation => firsts # {} /\ i <= first
  <2> SUFFICES ASSUME NEW i \in 1 .. Longest - 1, output[o + i] \notin Capture!Continuation
               PROVE  firsts # {} /\ i <= first
    OBVIOUS
  <2>1. firsts \in SUBSET (1 .. Longest - 1) /\ Longest - 1 \in Nat BY <1>1, <1>4
  <2>2. i \in firsts
    <3>1. i \in 1 .. size /\ i \in 1 .. start - 1 BY <1>1, <1>4
    <3> HIDE DEF o, size, start
    <3>2. QED BY <1>3, <3>1
  <2> HIDE DEF firsts
  <2>3. QED BY <2>1, <2>2, GreatestPlace
<1>8. firsts # {} =>
        /\ end = first + Capture!Needed(output[o + first]) /\ Capture!Needed(output[o + first]) \in 1 .. Longest
        /\ \A last \in Int : last <= size =>
             (Capture!Fits(tailPart, first, last) <=> Capture!Fits(output, o + first, o + last))
  <2> SUFFICES ASSUME firsts # {}
               PROVE  /\ end = first + Capture!Needed(output[o + first])
                      /\ Capture!Needed(output[o + first]) \in 1 .. Longest
                      /\ \A last \in Int : last <= size =>
                           (Capture!Fits(tailPart, first, last) <=> Capture!Fits(output, o + first, o + last))
    OBVIOUS
  <2> HIDE DEF firsts, first
  <2>1. first \in 1 .. size /\ o + first \in 1 .. N BY <1>1, <1>2, <1>6
  <2>2. tailPart[first] = output[o + first] BY <1>3, <2>1
  <2>3. Capture!Needed(output[o + first]) \in 1 .. Longest BY <1>1, <2>1, NeededBytes
  <2> HIDE DEF o, size
  <2>4. ASSUME NEW last \in Int, last <= size
        PROVE  Capture!Fits(tailPart, first, last) <=> Capture!Fits(output, o + first, o + last)
    <3>1. o \in Nat /\ size \in Nat /\ first \in Int /\ first \in 1 .. size BY <1>2, <2>1
    <3>2. SameBytes(tailPart, first, last, output, o)
      <4> SUFFICES ASSUME NEW k \in first .. last PROVE tailPart[k] = output[o + k] BY DEF SameBytes
      <4>1. k \in 1 .. size BY <2>4, <3>1
      <4>2. QED BY <1>3, <4>1
    <3>3. o \in Int /\ first \in Int /\ last \in Int BY <3>1
    <3>4. QED BY <3>2, <3>3, FitsMoves
  <2>5. QED BY <2>2, <2>3, <2>4
<1> HIDE DEF start
<1>9. output[o + start] = tailPart[start] /\ o + start = N - H + 1
  <2>1. start \in 1 .. size BY <1>1, <1>4
  <2>2. o + start = N - H + 1 BY <1>1, <1>4
  <2> HIDE DEF o, size
  <2>3. QED BY <1>3, <2>1, <2>2
<1>10. splits <=> /\ firsts # {} /\ output[o + start] \in Capture!Continuation
                  /\ end > start /\ end - 1 <= size /\ Capture!Fits(tailPart, first, end - 1)
  BY <1>3, <1>9
<1> HIDE DEF firsts, first, end, splits
<1>11. CASE splits
  <2> DEFINE t == o + end
             f == o + first
             cut == <<f, t - 1>>
  <2>1. /\ first \in 1 .. Longest - 1 /\ output[f] \notin Capture!Continuation
        /\ end = first + Capture!Needed(output[f]) /\ Capture!Needed(output[f]) \in 1 .. Longest
        /\ end > start /\ end - 1 <= size
    BY <1>6, <1>8, <1>10, <1>11
  <2>2. Capture!Fits(output, f, t - 1)
    <3>1. end - 1 \in Int /\ o + (end - 1) = t - 1 BY <1>1, <2>1
    <3>2. Capture!Fits(tailPart, first, end - 1) /\ firsts # {} BY <1>10, <1>11
    <3> HIDE DEF o, size
    <3>3. Capture!Fits(output, f, o + (end - 1)) BY <1>8, <2>1, <3>1, <3>2
    <3>4. QED BY <3>1, <3>3
  <2>3. /\ t \in N - H + 1 .. N + 1 /\ f \in 1 .. N /\ t - 1 \in 1 .. N /\ f <= N - H /\ t - 1 = f + Capture!Needed(output[f]) - 1
        /\ f < t
    <3> DEFINE need == Capture!Needed(output[f])
    <3>1. /\ first \in 1 .. Longest - 1 /\ end = first + need /\ need \in 1 .. Longest
          /\ end > Longest /\ end - 1 <= size
      BY <1>4, <2>1
    <3> HIDE DEF need
    <3>2. /\ t \in N - H + 1 .. N + 1 /\ f \in 1 .. N /\ t - 1 \in 1 .. N /\ f <= N - H /\ t - 1 = f + need - 1
          /\ f < t
      BY <1>1, <1>2, <3>1
    <3>3. QED BY <3>2 DEF need
  <2>4. cut \in Capture!Characters /\ cut[1] = f /\ cut[2] = t - 1
    <3>1. cut \in (1 .. N) \X (1 .. N) /\ cut[1] = f /\ cut[2] = t - 1 BY <2>3
    <3> HIDE DEF t, f, cut
    <3>2. QED BY <2>1, <2>2, <2>3, <3>1 DEF Capture!Characters
  <2>5. Capture!KeptTail = SubSeq(output, t, N)
    <3>1. Capture!KeptTail = SubSeq(tailPart, end, Len(tailPart)) BY <1>5, <1>11
    <3>2. end \in 1 .. size + 1 BY <1>1, <1>2, <2>1
    <3>3. \A k \in 1 .. size : tailPart[k] = output[o + k] BY <1>3
    <3>4. QED BY <1>1, <1>2, <1>3, <3>1, <3>2, <3>3, RestOfRest
  <2>6. ASSUME NEW c \in Capture!Characters, c[1] < t, t <= c[2] PROVE FALSE
    <3>1. /\ c[1] \in 1 .. N /\ c[2] \in 1 .. N /\ output[c[1]] \notin Capture!Continuation
          /\ c[2] = c[1] + Capture!Needed(output[c[1]]) - 1
          /\ \A j \in c[1] + 1 .. c[2] : output[j] \in Capture!Continuation
      BY OneFirstByte
    <3>2. \A j \in f + 1 .. t - 1 : output[j] \in Capture!Continuation BY <2>4, OneFirstByte
    <3> HIDE DEF f, t, cut
    <3>3. CASE c[1] = f BY <1>1, <2>3, <2>6, <3>1, <3>3
    <3>4. CASE c[1] > f
      <4>1. c[1] \in f + 1 .. t - 1 BY <1>1, <2>3, <2>6, <3>1, <3>4
      <4>2. QED BY <3>1, <3>2, <4>1
    <3>5. CASE c[1] < f
      <4>1. f \in c[1] + 1 .. c[2] BY <1>1, <2>3, <2>6, <3>1, <3>5
      <4>2. QED BY <2>1, <3>1, <4>1
    <3>6. QED BY <2>3, <3>1, <3>3, <3>4, <3>5
  <2>7. cut[1] <= N - H /\ cut[2] = t - 1 BY <2>3, <2>4
  <2> HIDE DEF t, f, cut
  <2>8. QED BY <2>3, <2>4, <2>5, <2>6, <2>7
<1>12. CASE ~splits
  <2> DEFINE t == N - H + 1
  <2>1. t \in N - H + 1 .. N + 1 /\ ~(t > N - H + 1) BY <1>1
  <2>2. Capture!KeptTail = SubSeq(output, t, N)
    <3>1. Capture!KeptTail = SubSeq(tailPart, start, Len(tailPart)) BY <1>5, <1>12
    <3>2. start \in 1 .. size + 1 /\ o + start = t BY <1>1, <1>2, <1>4
    <3>3. \A k \in 1 .. size : tailPart[k] = output[o + k] BY <1>3
    <3> HIDE DEF o, size, t
    <3>4. SubSeq(tailPart, start, Len(tailPart)) = SubSeq(output, o + start, Len(output))
      BY <1>2, <1>3, <3>2, <3>3, RestOfRest
    <3>5. QED BY <3>1, <3>2, <3>4
  <2>3. ASSUME NEW c \in Capture!Characters, c[1] < t, t <= c[2] PROVE FALSE
    <3> DEFINE i == c[1] - o
    <3>1. /\ c[1] \in 1 .. N /\ c[2] \in 1 .. N /\ output[c[1]] \notin Capture!Continuation
          /\ c[2] = c[1] + Capture!Needed(output[c[1]]) - 1 /\ Capture!Needed(output[c[1]]) \in 1 .. Longest
          /\ Capture!Fits(output, c[1], c[2])
          /\ \A j \in c[1] + 1 .. c[2] : output[j] \in Capture!Continuation
      BY OneFirstByte
    <3>2. i \in 1 .. Longest - 1 /\ o + i = c[1] BY <1>1, <2>3, <3>1
    <3>3. firsts # {} /\ i <= first BY <1>7, <3>1, <3>2
    <3>4. first = i
      <4>1. CASE first > i
        <5>1. o + first \in c[1] + 1 .. c[2]
          <6>1. first \in 1 .. Longest - 1 /\ i \in 1 .. Longest - 1 /\ o + i = c[1] BY <1>6, <3>2, <3>3
          <6>2. o + (Longest - 1) = N - H /\ c[2] \in Int /\ c[2] >= N - H + 1 BY <1>1, <2>3, <3>1
          <6> HIDE DEF i
          <6>3. o + first <= N - H /\ o + first > o + i /\ o + first \in Int BY <1>1, <4>1, <6>1, <6>2
          <6>4. QED BY <1>1, <6>1, <6>2, <6>3
        <5>2. QED BY <1>6, <3>1, <3>3, <5>1
      <4>2. QED BY <1>1, <1>6, <3>2, <3>3, <4>1
    <3>5. end = c[2] - o + 1 /\ end > start /\ end - 1 <= size /\ o + (end - 1) = c[2] /\ end - 1 \in Int
      <4> DEFINE need == Capture!Needed(output[c[1]])
      <4>1. /\ o + i = c[1] /\ end = i + need /\ c[2] = c[1] + need - 1 /\ need \in 1 .. Longest
            /\ i \in 1 .. Longest - 1
        BY <1>8, <3>1, <3>2, <3>3, <3>4
      <4>2. o + Longest = N - H + 1 /\ c[2] \in 1 .. N /\ c[2] >= N - H + 1 /\ start = Longest
        BY <1>1, <1>4, <2>3, <3>1
      <4>3. o \in Nat /\ o + size = N /\ size \in Nat BY <1>2
      <4> HIDE DEF need, i, o, size
      <4>4. QED BY <1>1, <4>1, <4>2, <4>3
    <3>6. output[o + start] \in Capture!Continuation
      <4>1. o + start \in c[1] + 1 .. c[2] BY <1>1, <1>9, <2>3, <3>1
      <4>2. QED BY <3>1, <4>1
    <3>7. Capture!Fits(tailPart, first, end - 1)
      <4>1. o + first = c[1] BY <3>2, <3>4
      <4> HIDE DEF o, size, i
      <4>2. Capture!Fits(output, o + first, o + (end - 1)) BY <3>1, <3>5, <4>1
      <4>3. QED BY <1>8, <3>3, <3>5, <4>2
    <3>8. QED BY <1>10, <1>12, <3>3, <3>5, <3>6, <3>7
  <2> HIDE DEF t
  <2>4. QED BY <2>1, <2>2, <2>3 DEF t
<1>13. QED BY <1>11, <1>12

\* What is kept of the output is all of it, or its first and its last bytes, cut
\* at whole characters, however it came in chunks (CappedStream of subprocess.ts).
THEOREM CaptureSafety == Spec => [](part = "capture" => Capture!CutsAreClean)
<1>1. Init => CaptureInv
  <2> SUFFICES ASSUME Init PROVE CaptureInv OBVIOUS
  <2>1. output = <<>> /\ whole = <<>> BY DEF Init, Capture!Init
  <2>2. output \in Output /\ Len(output) = 0 BY <2>1 DEF Output
  <2>3. Len(output) <= 2 * HalfCap BY <2>2, CaptureAssumption
  <2>4. QED BY <2>1, <2>2, <2>3 DEF CaptureInv
<1>2. CaptureInv /\ [Next]_partVars => CaptureInv'
  <2> SUFFICES ASSUME CaptureInv, [Next]_partVars PROVE CaptureInv' OBVIOUS
  <2>1. CASE Capture!Next
    <3>1. PICK n \in 1 .. MaxChunk : \E chunk \in [1 .. n -> Capture!Byte] : Capture!Push(chunk)
      BY <2>1 DEF Capture!Next
    <3>2. PICK chunk \in [1 .. n -> Capture!Byte] : Capture!Push(chunk) BY <3>1
    <3>3. chunk \in Output BY DEF Output
    <3>4. QED BY <3>2, <3>3, PushStep
  <2>2. CASE UNCHANGED captureVars BY <2>2 DEF captureVars, CaptureInv
  <2>3. QED BY <2>1, <2>2 DEF Next, Only, partVars
<1>3. CaptureInv => Capture!CutsAreClean
  <2> SUFFICES ASSUME CaptureInv PROVE Capture!CutsAreClean OBVIOUS
  <2>1. output \in Output BY DEF CaptureInv
  <2>2. CASE Len(output) <= 2 * HalfCap
    <3>1. whole = output /\ output # None BY <2>1, <2>2, WholeIsOutput DEF CaptureInv
    <3>2. QED BY <2>2, <3>1 DEF Capture!CutsAreClean, Capture!Text
  <2>3. CASE ~(Len(output) <= 2 * HalfCap)
    <3>1. /\ headPart = SubSeq(output, 1, HalfCap)
          /\ tailPart = SubSeq(output, Len(output) - HalfCap - Longest + 2, Len(output))
      BY <2>3 DEF CaptureInv
    <3>2. Len(output) > 2 * HalfCap BY <2>1, <2>3, CaptureAssumption DEF Output
    <3>3. PICK h \in 0 .. HalfCap :
            /\ Capture!KeptHead = SubSeq(output, 1, h)
            /\ \A c \in Capture!Characters : ~(c[1] <= h /\ h < c[2])
            /\ h < HalfCap => /\ output[h + 1] \notin Capture!Continuation
                              /\ Capture!Needed(output[h + 1]) > HalfCap - h
                              /\ Capture!Fits(output, h + 1, HalfCap)
      BY <2>1, <3>1, <3>2, HeadIsClean
    <3>4. PICK t \in Len(output) - HalfCap + 1 .. Len(output) + 1 :
            /\ Capture!KeptTail = SubSeq(output, t, Len(output))
            /\ \A c \in Capture!Characters : ~(c[1] < t /\ t <= c[2])
            /\ t > Len(output) - HalfCap + 1 =>
                 \E c \in Capture!Characters : c[1] <= Len(output) - HalfCap /\ c[2] = t - 1
      BY <2>1, <3>1, <3>2, TailIsClean
    <3>5. QED BY <2>3, <3>3, <3>4 DEF Capture!CutsAreClean
  <2>4. QED BY <2>2, <2>3
<1>4. QED BY <1>1, <1>2, <1>3, PTL DEF Spec

--------------------------------------------------------------------------------
(***************************************************************************)
(* Texts.                                                                  *)
(***************************************************************************)
Text == Seq(STRING)

\* A text whose halves of pairs are paired.
Paired(t) ==
  \A i \in DOMAIN t : (t[i] = "high" => Terminal!After(t, i)) /\ (t[i] = "low" => Terminal!Before(t, i))

\* The scan gets to the end exactly if all halves are paired.
LEMMA ScanFindsHalves ==
  ASSUME NEW t \in Text
  PROVE  Terminal!HasUnpaired(t) <=> ~Paired(t)
<1> DEFINE N == Len(t)
           Through(stops) ==
             /\ 1 \in stops
             /\ \A i \in stops \cap DOMAIN t :
                  /\ t[i] # "low" /\ (t[i] = "high" => Terminal!After(t, i))
                  /\ (IF t[i] = "high" THEN i + 2 ELSE i + 1) \in stops
<1>1. N \in Nat /\ DOMAIN t = 1 .. N BY DEF Text
<1>2. Terminal!HasUnpaired(t) <=> ~ \E stops \in SUBSET (1 .. N + 2) : Through(stops)
  BY DEF Terminal!HasUnpaired
<1>3. ASSUME Paired(t) PROVE \E stops \in SUBSET (1 .. N + 2) : Through(stops)
  <2> DEFINE stops == {i \in 1 .. N + 2 : i \in 1 .. N => t[i] # "low"}
  <2>1. 1 \in stops
    <3>1. 1 \in 1 .. N => (t[1] = "low" => Terminal!Before(t, 1)) BY <1>1, <1>3 DEF Paired
    <3>2. ~Terminal!Before(t, 1) BY DEF Terminal!Before
    <3>3. QED BY <1>1, <3>1, <3>2
  <2>2. ASSUME NEW i \in stops \cap DOMAIN t
        PROVE  /\ t[i] # "low" /\ (t[i] = "high" => Terminal!After(t, i))
               /\ (IF t[i] = "high" THEN i + 2 ELSE i + 1) \in stops
    <3>1. i \in 1 .. N /\ t[i] # "low" /\ (t[i] = "high" => Terminal!After(t, i)) BY <1>1, <1>3 DEF Paired
    <3>2. ASSUME t[i] = "high" PROVE i + 2 \in stops
      <4>1. i < N /\ t[i + 1] = "low" BY <3>1, <3>2 DEF Terminal!After
      <4>2. i + 2 \in 1 .. N + 2 BY <1>1, <3>1
      <4>3. ASSUME i + 2 \in 1 .. N, t[i + 2] = "low" PROVE FALSE
        <5>1. Terminal!Before(t, i + 2) BY <1>1, <1>3, <4>3 DEF Paired
        <5>2. t[i + 2 - 1] = "high" /\ i + 2 - 1 = i + 1 BY <3>1, <5>1 DEF Terminal!Before
        <5>3. QED BY <4>1, <5>2
      <4>4. QED BY <4>2, <4>3
    <3>3. ASSUME t[i] # "high" PROVE i + 1 \in stops
      <4>1. i + 1 \in 1 .. N + 2 BY <1>1, <3>1
      <4>2. ASSUME i + 1 \in 1 .. N, t[i + 1] = "low" PROVE FALSE
        <5>1. Terminal!Before(t, i + 1) BY <1>1, <1>3, <4>2 DEF Paired
        <5>2. t[i + 1 - 1] = "high" /\ i + 1 - 1 = i BY <3>1, <5>1 DEF Terminal!Before
        <5>3. QED BY <3>3, <5>2
      <4>3. QED BY <4>1, <4>2
    <3>4. QED BY <3>1, <3>2, <3>3
  <2>3. stops \in SUBSET (1 .. N + 2) OBVIOUS
  <2> HIDE DEF stops
  <2>4. QED BY <2>1, <2>2, <2>3
<1>4. ASSUME NEW stops \in SUBSET (1 .. N + 2), Through(stops) PROVE Paired(t)
  <2> DEFINE Second(i) == i > 1 /\ i - 1 \in stops /\ t[i - 1] = "high" /\ t[i] = "low"
             skipped == {i \in 1 .. N : i \notin stops /\ ~Second(i)}
  <2>1. skipped = {}
    <3> SUFFICES ASSUME skipped # {} PROVE FALSE OBVIOUS
    <3>1. skipped \in SUBSET Nat OBVIOUS
    <3>2. PICK i \in skipped : \A j \in skipped : i <= j
      <4> HIDE DEF skipped
      <4>1. QED BY <3>1, LeastExists
    <3>3. i \in 1 .. N /\ i \notin stops /\ ~Second(i) /\ i # 1 BY <1>4
    <3>4. i - 1 \in 1 .. N /\ i - 1 \notin skipped BY <1>1, <3>2, <3>3
    <3>5. CASE i - 1 \in stops
      <4>1. /\ t[i - 1] = "high" => Terminal!After(t, i - 1)
            /\ (IF t[i - 1] = "high" THEN i - 1 + 2 ELSE i - 1 + 1) \in stops
        BY <1>1, <1>4, <3>4, <3>5
      <4>2. t[i - 1] # "high" => i \in stops BY <3>3, <4>1
      <4>3. t[i - 1] = "high" => t[i] = "low" BY <3>3, <4>1 DEF Terminal!After
      <4>4. QED BY <3>3, <3>5, <4>2, <4>3
    <3>6. CASE Second(i - 1)
      <4>1. i - 1 - 1 = i - 2 /\ i - 2 \in stops /\ t[i - 2] = "high" /\ i - 2 \in 1 .. N
        BY <1>1, <3>3, <3>4, <3>6
      <4>2. i - 2 + 2 \in stops BY <1>1, <1>4, <4>1
      <4>3. QED BY <3>3, <4>2
    <3>7. QED BY <3>4, <3>5, <3>6
  <2>2. ASSUME NEW i \in DOMAIN t
        PROVE  (t[i] = "high" => Terminal!After(t, i)) /\ (t[i] = "low" => Terminal!Before(t, i))
    <3>1. CASE i \in stops BY <1>4, <3>1
    <3>2. CASE Second(i) BY <3>2 DEF Terminal!Before
    <3>3. QED BY <1>1, <2>1, <3>1, <3>2
  <2>3. QED BY <2>2 DEF Paired
<1>5. QED BY <1>2, <1>3, <1>4

LEMMA StorableMeans ==
  ASSUME NEW t \in Text
  PROVE  Terminal!Representable(t) <=> Terminal!Storable(t)
<1>1. "nul" \notin Terminal!Units(t) <=> \A i \in DOMAIN t : t[i] # "nul" BY DEF Terminal!Units
<1>2. Terminal!Storable(t) <=> (\A i \in DOMAIN t : t[i] # "nul") /\ Paired(t)
  BY DEF Terminal!Storable, Paired
<1>3. QED BY <1>1, <1>2, ScanFindsHalves DEF Terminal!Representable

\* UTF-8 never shrinks: no text has fewer bytes than units.
LEMMA Utf8NeverShrinks ==
  ASSUME NEW t \in Text
  PROVE  Terminal!Utf8(t) \in Nat /\ Len(t) <= Terminal!Utf8(t)
<1> DEFINE N == Len(t)
           D == 1 .. N
           spread == UNION {{i} \X (1 .. Terminal!Encoded(t, i)) : i \in D}
           f == [i \in D |-> IF t[i] = "low" /\ Terminal!Before(t, i) THEN <<i - 1, 2>> ELSE <<i, 1>>]
<1>1. N \in Nat /\ DOMAIN t = D BY DEF Text
<1>2. Terminal!Utf8(t) = Cardinality(spread)
  BY <1>1 DEF Terminal!Utf8, Terminal!Cardinality, Cardinality
<1>3. \A i \in D : Terminal!Encoded(t, i) \in 0 .. 4 BY DEF Terminal!Encoded
<1>4. IsFiniteSet(spread)
  <2>1. spread \in SUBSET (D \X (1 .. 4)) BY <1>3
  <2>2. IsFiniteSet(D) /\ IsFiniteSet(1 .. 4)
    <3>1. N \in Int /\ 1 \in Int /\ 4 \in Int BY <1>1
    <3> HIDE DEF N
    <3>2. QED BY <3>1, FS_Interval
  <2>3. IsFiniteSet(D \X (1 .. 4)) BY <2>2, FS_Product
  <2> HIDE DEF spread, D
  <2>4. QED BY <2>1, <2>3, FS_Subset
<1>5. ASSUME NEW i \in D PROVE f[i] \in spread
  <2>1. CASE t[i] = "low" /\ Terminal!Before(t, i)
    <3>1. i - 1 \in D /\ t[i - 1] = "high" /\ i - 1 + 1 = i /\ i - 1 < N BY <1>1, <2>1 DEF Terminal!Before
    <3>2. Terminal!After(t, i - 1) BY <2>1, <3>1 DEF Terminal!After
    <3>3. Terminal!Encoded(t, i - 1) = 4
      <4> DEFINE p == i - 1
      <4>1. t[p] = "high" /\ Terminal!After(t, p) BY <3>1, <3>2
      <4> HIDE DEF p
      <4>2. Terminal!Encoded(t, p) = 4 BY <4>1 DEF Terminal!Encoded
      <4>3. QED BY <4>2 DEF p
    <3>4. f[i] = <<i - 1, 2>> /\ <<i - 1, 2>> \in {i - 1} \X (1 .. Terminal!Encoded(t, i - 1)) BY <2>1, <3>3
    <3>5. QED BY <3>1, <3>4
  <2>2. CASE ~(t[i] = "low" /\ Terminal!Before(t, i))
    <3>1. Terminal!Encoded(t, i) \in 1 .. 4 BY <2>2 DEF Terminal!Encoded
    <3>2. f[i] = <<i, 1>> /\ <<i, 1>> \in {i} \X (1 .. Terminal!Encoded(t, i)) BY <2>2, <3>1
    <3>3. QED BY <3>2
  <2>3. QED BY <2>1, <2>2
<1>6. f \in Injection(D, spread)
  <2>1. f \in [D -> spread] /\ DOMAIN f = D BY <1>5
  <2>2. \A i, j \in D : f[i] = f[j] => i = j OBVIOUS
  <2> HIDE DEF f, spread, D
  <2>3. QED BY <2>1, <2>2 DEF Injection, IsInjective
<1>7. Cardinality(D) = N
  <2>1. N \in Int /\ 1 \in Int BY <1>1
  <2> HIDE DEF N
  <2>2. Cardinality(1 .. N) = IF 1 > N THEN 0 ELSE N - 1 + 1 BY <2>1, FS_Interval
  <2>3. QED BY <1>1, <2>2
<1> HIDE DEF f, spread, D
<1>8. Cardinality(D) <= Cardinality(spread) /\ Cardinality(spread) \in Nat
  BY <1>4, <1>6, FS_Injection, FS_CardinalityType
<1>9. QED BY <1>2, <1>7, <1>8

LEMMA BytesDecide ==
  ASSUME NEW t \in Text
  PROVE  Terminal!BytesExceed(t, MaxText) <=> ~(Terminal!Utf8(t) <= MaxText)
<1>1. Terminal!Utf8(t) \in Nat /\ Len(t) <= Terminal!Utf8(t) BY Utf8NeverShrinks
<1>2. Len(t) \in Nat /\ MaxText \in Nat BY TerminalAssumption DEF Text
<1>3. QED BY <1>1, <1>2 DEF Terminal!BytesExceed

\* A trimmed text is a text, and trimming it again takes nothing away.
LEMMA TrimmedStays ==
  ASSUME NEW t \in Text
  PROVE  Terminal!Trimmed(t) \in Text /\ Terminal!Trimmed(Terminal!Trimmed(t)) = Terminal!Trimmed(t)
<1> DEFINE kept(s) == {i \in DOMAIN s : s[i] \notin Terminal!White}
           first(s) == CHOOSE i \in kept(s) : \A j \in kept(s) : i <= j
           last(s) == CHOOSE i \in kept(s) : \A j \in kept(s) : j <= i
<1>1. \A s : Terminal!Trimmed(s) = IF kept(s) = {} THEN <<>> ELSE SubSeq(s, first(s), last(s))
  BY DEF Terminal!Trimmed
<1>2. ASSUME NEW s \in Text, kept(s) # {}
      PROVE  /\ first(s) \in kept(s) /\ \A j \in kept(s) : first(s) <= j
             /\ last(s) \in kept(s) /\ \A j \in kept(s) : j <= last(s)
  <2>1. Len(s) \in Nat /\ DOMAIN s = 1 .. Len(s) BY DEF Text
  <2>2. kept(s) \in SUBSET (1 .. Len(s)) /\ kept(s) \in SUBSET Nat BY <2>1
  <2>3. 1 \in Int /\ Len(s) \in Int BY <2>1
  <2> HIDE DEF kept
  <2>4. \E i \in kept(s) : \A j \in kept(s) : i <= j BY <1>2, <2>2, LeastExists
  <2>5. \E i \in kept(s) : \A j \in kept(s) : j <= i BY <1>2, <2>2, <2>3, GreatestInteger
  <2>6. first(s) \in kept(s) /\ \A j \in kept(s) : first(s) <= j BY <2>4
  <2>7. last(s) \in kept(s) /\ \A j \in kept(s) : j <= last(s) BY <2>5
  <2>8. QED BY <2>6, <2>7
<1>3. CASE kept(t) = {}
  <2>1. Terminal!Trimmed(t) = <<>> BY <1>1, <1>3
  <2>2. kept(<<>>) = {} /\ <<>> \in Text BY DEF Text
  <2> HIDE DEF kept, first, last
  <2>3. Terminal!Trimmed(<<>>) = <<>> BY <1>1, <2>2
  <2>4. QED BY <2>1, <2>2, <2>3
<1>4. CASE kept(t) # {}
  <2> DEFINE a == first(t)
             b == last(t)
             g == SubSeq(t, a, b)
             n == b - a + 1
  <2>1. /\ Terminal!Trimmed(t) = g /\ a \in kept(t) /\ b \in kept(t)
        /\ (\A j \in kept(t) : a <= j) /\ \A j \in kept(t) : j <= b
    <3> HIDE DEF kept, first, last
    <3>1. QED BY <1>1, <1>2, <1>4
  <2> HIDE DEF first, last, a, b
  <2>2. a \in 1 .. Len(t) /\ b \in 1 .. Len(t) /\ t[a] \notin Terminal!White /\ t[b] \notin Terminal!White
        /\ a <= b /\ Len(t) \in Nat
    BY <2>1 DEF Text
  <2>3. g \in Text /\ Len(g) = n /\ \A i \in 1 .. n : g[i] = t[a + i - 1]
    <3>1. \A i \in a .. b : t[i] \in STRING BY <2>2 DEF Text
    <3>2. a \in Int /\ b \in Int BY <2>2
    <3>3. /\ SubSeq(t, a, b) \in Seq(STRING) /\ Len(SubSeq(t, a, b)) = IF a <= b THEN b - a + 1 ELSE 0
          /\ \A i \in 1 .. b - a + 1 : SubSeq(t, a, b)[i] = t[a + i - 1]
      BY <3>1, <3>2, SubSeqProperties
    <3>4. QED BY <2>2, <3>3 DEF Text
  <2>4. n \in Nat /\ 1 \in 1 .. n /\ n \in 1 .. n /\ a + 1 - 1 = a /\ a + n - 1 = b BY <2>2
  <2> HIDE DEF g
  <2>5. g[1] \notin Terminal!White /\ g[n] \notin Terminal!White BY <2>2, <2>3, <2>4
  <2> HIDE DEF n
  <2>6. 1 \in kept(g) /\ n \in kept(g) /\ \A j \in kept(g) : j \in 1 .. n
    BY <2>3, <2>4, <2>5 DEF Text
  <2>7. first(g) = 1 /\ last(g) = n
    <3> HIDE DEF kept
    <3>1. kept(g) # {} BY <2>6
    <3>2. first(g) \in kept(g) /\ first(g) <= 1 /\ last(g) \in kept(g) /\ n <= last(g) BY <1>2, <2>3, <2>6, <3>1
    <3>3. first(g) \in 1 .. n /\ last(g) \in 1 .. n BY <2>6, <3>2
    <3>4. QED BY <2>4, <3>2, <3>3
  <2>8. SubSeq(g, 1, n) = g
    <3>1. \A i \in 1 .. n : g[i] \in STRING BY <2>3, <2>4 DEF Text
    <3>2. 1 \in Int /\ n \in Int BY <2>4
    <3> DEFINE h == SubSeq(g, 1, n)
    <3>3. /\ h \in Seq(STRING) /\ Len(h) = IF 1 <= n THEN n - 1 + 1 ELSE 0
          /\ \A i \in 1 .. n - 1 + 1 : h[i] = g[1 + i - 1]
      BY <3>1, <3>2, SubSeqProperties
    <3> HIDE DEF h
    <3>4. Len(h) = n /\ \A i \in 1 .. n : h[i] = g[i] BY <2>4, <3>3
    <3>5. h = g BY <2>3, <3>3, <3>4, SeqEqual DEF Text
    <3>6. QED BY <3>5 DEF h
  <2>9. Terminal!Trimmed(g) = SubSeq(g, first(g), last(g))
    <3> HIDE DEF kept, first, last
    <3>1. QED BY <1>1, <2>6
  <2>10. QED BY <2>1, <2>3, <2>7, <2>8, <2>9
<1>5. QED BY <1>3, <1>4

\* What is accepted of texts can be stored as it is and fits in bytes, and nothing
\* else is refused; a goal that was kept is kept unchanged (terminal-policy.ts).
LEMMA TextsAreJudged == Terminal!TextsAreStorable(Texts)
<1> SUFFICES ASSUME NEW t \in Texts
             PROVE  /\ Terminal!TerminalText(t, FALSE) <=> Terminal!Storable(t) /\ Terminal!Utf8(t) <= MaxText
                    /\ Terminal!TaskFileSync(t, None) <=> Terminal!Storable(t) /\ Terminal!Utf8(t) <= MaxText
                    /\ Terminal!Goal(t) # None =>
                         /\ Terminal!Storable(Terminal!Goal(t)) /\ Terminal!Utf8(Terminal!Goal(t)) <= MaxText
                         /\ Terminal!Goal(Terminal!Goal(t)) = Terminal!Goal(t)
                         /\ Terminal!TerminalText(Terminal!Goal(t), TRUE)
                         /\ "feed" \notin Terminal!Units(Terminal!Goal(t))
  BY DEF Terminal!TextsAreStorable
<1>1. t \in Text /\ t # None BY TerminalAssumption DEF Text
<1>2. Terminal!TerminalText(t, FALSE) <=> Terminal!Storable(t) /\ Terminal!Utf8(t) <= MaxText
  BY <1>1, StorableMeans, BytesDecide DEF Terminal!TerminalText
<1>3. Terminal!TaskFileSync(t, None) <=> Terminal!Storable(t) /\ Terminal!Utf8(t) <= MaxText
  BY <1>1, StorableMeans, BytesDecide DEF Terminal!TaskFileSync
<1>4. ASSUME Terminal!Goal(t) # None
      PROVE  /\ Terminal!Storable(Terminal!Goal(t)) /\ Terminal!Utf8(Terminal!Goal(t)) <= MaxText
             /\ Terminal!Goal(Terminal!Goal(t)) = Terminal!Goal(t)
             /\ Terminal!TerminalText(Terminal!Goal(t), TRUE)
             /\ "feed" \notin Terminal!Units(Terminal!Goal(t))
  <2> DEFINE g == Terminal!Trimmed(t)
  <2>1. /\ Terminal!Goal(t) = g /\ g # <<>> /\ Terminal!Representable(g)
        /\ "feed" \notin Terminal!Units(g) /\ ~Terminal!BytesExceed(g, MaxText)
    BY <1>4 DEF Terminal!Goal
  <2>2. g \in Text /\ Terminal!Trimmed(g) = g BY <1>1, TrimmedStays
  <2> HIDE DEF g
  <2>3. Terminal!Storable(g) /\ Terminal!Utf8(g) <= MaxText BY <2>1, <2>2, StorableMeans, BytesDecide
  <2>4. Terminal!Goal(g) = g BY <2>1, <2>2 DEF Terminal!Goal
  <2>5. Terminal!TerminalText(g, TRUE) BY <2>1 DEF Terminal!TerminalText
  <2>6. QED BY <2>1, <2>3, <2>4, <2>5
<1>5. QED BY <1>2, <1>3, <1>4

--------------------------------------------------------------------------------
(***************************************************************************)
(* States.  The walk is followed with a given value g and a record w of    *)
(* what it keeps, so that no step has to be looked at twice.               *)
(***************************************************************************)
Leaf == {"digit", "bad", "missing"}
Values == [Container -> Seq(Leaf \cup Container)]

HeldIn(g, n) == {g[n][i] : i \in DOMAIN g[n]}
WithinIn(g, n) ==
  {m \in Container : \A S \in SUBSET Container :
                       n \in S /\ (\A c \in S : HeldIn(g, c) \cap Container \subseteq S) => m \in S}
InsideIn(g, n) == UNION {WithinIn(g, m) : m \in HeldIn(g, n) \cap Container}
StrictIn(g) ==
  \A n \in WithinIn(g, StateRoot) : n \notin InsideIn(g, n) /\ HeldIn(g, n) \cap {"bad", "missing"} = {}
SizeIn(g, size, n, i) == Terminal!Separator(n, i) + (IF g[n][i] \in Leaf THEN 1 ELSE size[g[n][i]])
LaidIn(g, size, n, k) == UNION {{i} \X (1 .. SizeIn(g, size, n, i)) : i \in 1 .. k}
Compacts(g) ==
  {size \in [WithinIn(g, StateRoot) -> 0 .. MaxBytes] :
     \A n \in WithinIn(g, StateRoot) : size[n] = 2 + Cardinality(LaidIn(g, size, n, Len(g[n])))}

LEMMA GivenIsAsDefined ==
  /\ Terminal!Strict <=> StrictIn(given)
  /\ \A n : Terminal!Within(n) = WithinIn(given, n)
  /\ \A size, n, k : Terminal!Laid(size, n, k) = LaidIn(given, size, n, k)
<1>1. \A n : Terminal!Held(n) = HeldIn(given, n) BY DEF Terminal!Held, HeldIn
<1>2. \A n : Terminal!Within(n) = WithinIn(given, n) BY <1>1 DEF Terminal!Within, WithinIn
<1>3. \A n : Terminal!Inside(n) = InsideIn(given, n) BY <1>1, <1>2 DEF Terminal!Inside, InsideIn
<1>4. \A size, n, k : Terminal!Laid(size, n, k) = LaidIn(given, size, n, k)
  <2>1. \A size, n, i : Terminal!EntryBytes(size, n, i) = SizeIn(given, size, n, i)
    BY DEF Terminal!EntryBytes, SizeIn, Terminal!Leaf, Leaf
  <2>2. QED BY <2>1 DEF Terminal!Laid, LaidIn
<1>5. QED BY <1>1, <1>2, <1>3, <1>4 DEF Terminal!Strict, StrictIn

\* What is within a container: itself, and what those within it hold, and no more.
LEMMA WithinIsClosed ==
  ASSUME NEW g, NEW n \in Container
  PROVE  /\ WithinIn(g, n) \in SUBSET Container /\ n \in WithinIn(g, n)
         /\ \A c \in WithinIn(g, n) : HeldIn(g, c) \cap Container \subseteq WithinIn(g, n)
         /\ \A S \in SUBSET Container :
              n \in S /\ (\A c \in S : HeldIn(g, c) \cap Container \subseteq S) => WithinIn(g, n) \subseteq S
<1>1. WithinIn(g, n) \in SUBSET Container /\ n \in WithinIn(g, n) BY DEF WithinIn
<1>2. ASSUME NEW c \in WithinIn(g, n), NEW m \in HeldIn(g, c) \cap Container PROVE m \in WithinIn(g, n)
  <2>1. ASSUME NEW S \in SUBSET Container, n \in S, \A x \in S : HeldIn(g, x) \cap Container \subseteq S PROVE m \in S
    <3>1. c \in S BY <2>1 DEF WithinIn
    <3>2. QED BY <2>1, <3>1
  <2>2. QED BY <2>1 DEF WithinIn
<1>3. QED BY <1>1, <1>2 DEF WithinIn

LEMMA InsideGoesOn ==
  ASSUME NEW g, NEW n \in Container
  PROVE  /\ \A m \in HeldIn(g, n) \cap Container : m \in InsideIn(g, n)
         /\ \A m \in InsideIn(g, n) : HeldIn(g, m) \cap Container \subseteq InsideIn(g, n)
<1>1. ASSUME NEW m \in HeldIn(g, n) \cap Container PROVE m \in InsideIn(g, n)
  BY WithinIsClosed DEF InsideIn
<1>2. ASSUME NEW m \in InsideIn(g, n), NEW c \in HeldIn(g, m) \cap Container PROVE c \in InsideIn(g, n)
  <2>1. PICK x \in HeldIn(g, n) \cap Container : m \in WithinIn(g, x) BY <1>2 DEF InsideIn
  <2>2. c \in WithinIn(g, x) BY <2>1, WithinIsClosed
  <2>3. QED BY <2>2 DEF InsideIn
<1>3. QED BY <1>1, <1>2

LEMMA SeparatorIsNat ==
  ASSUME NEW n, NEW i \in Int
  PROVE  Terminal!Separator(n, i) \in Nat /\ Terminal!Separator(n, i) <= KeyBytes + 1
BY TerminalAssumption DEF Terminal!Separator

\* The bytes of one entry more.
LEMMA LaidGrows ==
  ASSUME NEW g, NEW size, NEW n, NEW k \in Nat, IsFiniteSet(LaidIn(g, size, n, k)), SizeIn(g, size, n, k + 1) \in Nat
  PROVE  /\ IsFiniteSet(LaidIn(g, size, n, k + 1))
         /\ Cardinality(LaidIn(g, size, n, k + 1)) = Cardinality(LaidIn(g, size, n, k)) + SizeIn(g, size, n, k + 1)
<1> DEFINE m == SizeIn(g, size, n, k + 1)
           laid(i) == {i} \X (1 .. SizeIn(g, size, n, i))
           old == LaidIn(g, size, n, k)
           new == laid(k + 1)
<1>1. LaidIn(g, size, n, k + 1) = old \cup new
  <2>1. 1 .. k + 1 = (1 .. k) \cup {k + 1} OBVIOUS
  <2>2. LaidIn(g, size, n, k + 1) = UNION {laid(i) : i \in (1 .. k) \cup {k + 1}} BY <2>1 DEF LaidIn
  <2>3. old = UNION {laid(i) : i \in 1 .. k} BY DEF LaidIn
  <2> HIDE DEF laid, old
  <2>4. QED BY <2>2, <2>3
<1>2. IsFiniteSet(new) /\ Cardinality(new) = m
  <2>1. IsFiniteSet({k + 1}) /\ Cardinality({k + 1}) = 1 BY FS_Singleton
  <2>2. m \in Nat /\ m \in Int /\ 1 \in Int OBVIOUS
  <2>3. new = {k + 1} \X (1 .. m) OBVIOUS
  <2> HIDE DEF m, new
  <2>4. IsFiniteSet(1 .. m) /\ Cardinality(1 .. m) = IF 1 > m THEN 0 ELSE m - 1 + 1 BY <2>2, FS_Interval
  <2>5. Cardinality(1 .. m) = m BY <2>2, <2>4
  <2>6. /\ IsFiniteSet({k + 1} \X (1 .. m))
        /\ Cardinality({k + 1} \X (1 .. m)) = Cardinality({k + 1}) * Cardinality(1 .. m)
    BY <2>1, <2>4, FS_Product
  <2>7. Cardinality(new) = 1 * m BY <2>1, <2>3, <2>5, <2>6
  <2>8. QED BY <2>2, <2>3, <2>6, <2>7
<1>3. old \cap new = {}
  <2>1. \A p \in old : p[1] \in 1 .. k BY DEF LaidIn
  <2>2. \A p \in new : p[1] = k + 1 OBVIOUS
  <2>3. k + 1 \notin 1 .. k OBVIOUS
  <2> HIDE DEF old, new
  <2>4. QED BY <2>1, <2>2, <2>3
<1>4. IsFiniteSet(old) /\ m \in Nat OBVIOUS
<1> HIDE DEF old, new, m
<1>5. /\ IsFiniteSet(old \cup new)
      /\ Cardinality(old \cup new) = Cardinality(old) + Cardinality(new) - Cardinality(old \cap new)
  BY <1>2, <1>4, FS_Union
<1>6. Cardinality(old \cap new) = 0 /\ Cardinality(old) \in Nat BY <1>3, <1>4, FS_EmptySet, FS_CardinalityType
<1>7. Cardinality(old \cup new) = Cardinality(old) + m BY <1>2, <1>4, <1>5, <1>6
<1>8. QED BY <1>1, <1>5, <1>7 DEF old, m

LEMMA LaidNothing ==
  ASSUME NEW g, NEW size, NEW n
  PROVE  IsFiniteSet(LaidIn(g, size, n, 0)) /\ Cardinality(LaidIn(g, size, n, 0)) = 0
<1>1. LaidIn(g, size, n, 0) = {} BY DEF LaidIn
<1>2. QED BY <1>1, FS_EmptySet

LEMMA LaidAlike ==
  ASSUME NEW g, NEW size, NEW other, NEW n, NEW k \in Nat,
         \A i \in 1 .. k : g[n][i] \notin Leaf => size[g[n][i]] = other[g[n][i]]
  PROVE  LaidIn(g, size, n, k) = LaidIn(g, other, n, k)
<1>1. \A i \in 1 .. k : SizeIn(g, size, n, i) = SizeIn(g, other, n, i) BY DEF SizeIn
<1>2. QED BY <1>1 DEF LaidIn

(***************************************************************************)
(* The walk.                                                               *)
(***************************************************************************)
Value == Leaf \cup Container
WalkType ==
  [at : {"idle", "walking", "ok", "not_json", "too_large"},
   events : Seq([type : {"visit", "next"}, value : Value]), active : SUBSET Container, done : SUBSET Container,
   index : [Container -> Nat], bytes : [Container -> 0 .. MaxBytes], clone : [Container -> Seq(Value)],
   top : Value \cup {None}]

\* What is done is whole, holds nothing bad, and has its true size.
DoneInv(g, w) ==
  /\ \A n \in w.done :
       /\ HeldIn(g, n) \subseteq {"digit"} \cup w.done /\ n \notin InsideIn(g, n)
       /\ n \in WithinIn(g, StateRoot) /\ w.clone[n] = g[n]
       /\ w.bytes[n] = 2 + Cardinality(LaidIn(g, w.bytes, n, Len(g[n])))
  /\ \A size \in Compacts(g), n \in w.done : size[n] = w.bytes[n]

\* What is under way has taken its first entries, which are done.
Taken(w, n) == Len(w.clone[n])
Bytes(g, w, n) == Cardinality(LaidIn(g, w.bytes, n, Taken(w, n)))
OpenInv(g, w, n) ==
  /\ n \in WithinIn(g, StateRoot) /\ n \notin w.done
  /\ Taken(w, n) <= w.index[n] /\ w.index[n] <= Len(g[n])
  /\ \A i \in 1 .. Taken(w, n) : w.clone[n][i] = g[n][i] /\ g[n][i] \in {"digit"} \cup w.done
  /\ IsFiniteSet(LaidIn(g, w.bytes, n, Taken(w, n)))

\* Between two entries, or with an entry whose comma and key are counted.
Settled(g, w, n) == w.index[n] = Taken(w, n) /\ w.bytes[n] = 2 + Bytes(g, w, n)
Entering(g, w, n, v) ==
  /\ w.index[n] = Taken(w, n) + 1 /\ v = g[n][w.index[n]] /\ v # "missing"
  /\ w.bytes[n] = 2 + Bytes(g, w, n) + Terminal!Separator(n, w.index[n])

At(w, j) == w.events[j].value
Stack(g, w) ==
  /\ w.active = {At(w, j) : j \in 1 .. Len(w.events)}
  /\ \A j \in 1 .. Len(w.events) : w.events[j] = Terminal!Resume(At(w, j))
  /\ \A j, k \in 1 .. Len(w.events) : j < k => At(w, k) \in InsideIn(g, At(w, j)) /\ At(w, j) # At(w, k)
  /\ \A j \in 1 .. Len(w.events) - 1 : Entering(g, w, At(w, j), At(w, j + 1))
  /\ Len(w.events) >= 1 => At(w, 1) = StateRoot

Chain(g, w) ==
  /\ w \in WalkType /\ DoneInv(g, w) /\ Stack(g, w)
  /\ \A n \in w.active : OpenInv(g, w, n)
  /\ \A n \in Container : n \notin w.active \cup w.done => w.index[n] = 0 /\ w.clone[n] = <<>>

\* With an entry to take, or between two.
Carrying(g, w, v) ==
  /\ Chain(g, w) /\ v \in Value
  /\ IF Len(w.events) = 0 THEN v = StateRoot ELSE Entering(g, w, At(w, Len(w.events)), v)
Resting(g, w) == Chain(g, w) /\ Len(w.events) >= 1 /\ Settled(g, w, At(w, Len(w.events)))

\* A change to one container under way leaves the others as they are.
SameBut(w, u, n) ==
  \A m \in Container \ {n} : u.index[m] = w.index[m] /\ u.bytes[m] = w.bytes[m] /\ u.clone[m] = w.clone[m]

LEMMA OthersStay ==
  ASSUME NEW g \in Values, NEW w \in WalkType, NEW u \in WalkType, NEW n \in Container, n \notin w.done,
         u.done = w.done, SameBut(w, u, n)
  PROVE  /\ DoneInv(g, w) => DoneInv(g, u)
         /\ \A m \in Container \ {n} : OpenInv(g, w, m) =>
              /\ OpenInv(g, u, m)
              /\ \A v : Entering(g, w, m, v) => Entering(g, u, m, v)
         /\ \A k \in Nat :
              (\A i \in 1 .. k : g[n][i] \in {"digit"} \cup w.done) => LaidIn(g, u.bytes, n, k) = LaidIn(g, w.bytes, n, k)
<1>1. \A x \in w.done : x \in Container \ {n} /\ u.bytes[x] = w.bytes[x] /\ u.clone[x] = w.clone[x]
  BY DEF WalkType, SameBut
<1>2. ASSUME NEW m \in Container, NEW k \in Nat, \A i \in 1 .. k : g[m][i] \in {"digit"} \cup w.done
      PROVE  LaidIn(g, u.bytes, m, k) = LaidIn(g, w.bytes, m, k)
  <2>1. \A i \in 1 .. k : g[m][i] \notin Leaf => u.bytes[g[m][i]] = w.bytes[g[m][i]] BY <1>1, <1>2 DEF Leaf
  <2>2. QED BY <2>1, LaidAlike
<1>3. DoneInv(g, w) => DoneInv(g, u)
  <2> SUFFICES ASSUME DoneInv(g, w) PROVE DoneInv(g, u) OBVIOUS
  <2>1. ASSUME NEW m \in w.done PROVE LaidIn(g, u.bytes, m, Len(g[m])) = LaidIn(g, w.bytes, m, Len(g[m]))
    <3>1. g[m] \in Seq(Leaf \cup Container) BY <1>1, <2>1 DEF Values
    <3>2. Len(g[m]) \in Nat /\ \A i \in 1 .. Len(g[m]) : g[m][i] \in HeldIn(g, m) BY <3>1 DEF HeldIn
    <3>3. \A i \in 1 .. Len(g[m]) : g[m][i] \in {"digit"} \cup w.done BY <3>2, <2>1 DEF DoneInv
    <3>4. QED BY <1>1, <1>2, <3>2, <3>3
  <2>2. QED BY <1>1, <2>1 DEF DoneInv
<1>4. ASSUME NEW m \in Container \ {n}, OpenInv(g, w, m)
      PROVE  OpenInv(g, u, m) /\ \A v : Entering(g, w, m, v) => Entering(g, u, m, v)
  <2>1. Taken(u, m) = Taken(w, m) /\ Taken(w, m) \in Nat
    <3>1. w.clone[m] \in Seq(Value) BY DEF WalkType
    <3>2. QED BY <3>1 DEF Taken, SameBut
  <2>2. LaidIn(g, u.bytes, m, Taken(u, m)) = LaidIn(g, w.bytes, m, Taken(w, m))
    BY <1>2, <1>4, <2>1 DEF OpenInv
  <2>3. QED BY <1>4, <2>1, <2>2 DEF OpenInv, Entering, Bytes, SameBut
<1>5. QED BY <1>2, <1>3, <1>4

\* No true size is less than what is counted so far, or would be with the next
\* entry.
LEMMA CountedIsTrue ==
  ASSUME NEW g \in Values, NEW w \in WalkType, DoneInv(g, w), NEW n \in Container, OpenInv(g, w, n)
  PROVE  /\ Bytes(g, w, n) \in Nat
         /\ Taken(w, n) + 1 <= Len(g[n]) => \A size \in Compacts(g) :
              /\ size[n] \in 0 .. MaxBytes
              /\ 2 + Bytes(g, w, n) + Terminal!Separator(n, Taken(w, n) + 1) <= size[n]
              /\ g[n][Taken(w, n) + 1] \in {"digit"} \cup w.done =>
                   2 + Bytes(g, w, n) + SizeIn(g, w.bytes, n, Taken(w, n) + 1) <= size[n]
<1> DEFINE k == Taken(w, n)
           N == Len(g[n])
<1>1. k \in Nat /\ N \in Nat /\ \A i \in 1 .. N : g[n][i] \in HeldIn(g, n) /\ g[n][i] \in Leaf \cup Container
  <2>1. w.clone[n] \in Seq(Value) /\ g[n] \in Seq(Leaf \cup Container) BY DEF WalkType, Values
  <2>2. QED BY <2>1 DEF Taken, HeldIn
<1>2. Bytes(g, w, n) \in Nat BY FS_CardinalityType DEF OpenInv, Bytes
<1>3. ASSUME k + 1 <= N, NEW size \in Compacts(g)
      PROVE  /\ size[n] \in 0 .. MaxBytes
             /\ 2 + Bytes(g, w, n) + Terminal!Separator(n, k + 1) <= size[n]
             /\ g[n][k + 1] \in {"digit"} \cup w.done => 2 + Bytes(g, w, n) + SizeIn(g, w.bytes, n, k + 1) <= size[n]
  <2> DEFINE inside == WithinIn(g, StateRoot)
             sofar == LaidIn(g, size, n, k)
             next == LaidIn(g, size, n, k + 1)
             full == LaidIn(g, size, n, N)
             most == KeyBytes + 2 + MaxBytes
  <2>1. /\ n \in inside /\ size \in [inside -> 0 .. MaxBytes] /\ size[n] = 2 + Cardinality(full)
        /\ size[n] \in 0 .. MaxBytes
    BY DEF OpenInv, Compacts
  <2>2. \A i \in 1 .. N : g[n][i] \notin Leaf => g[n][i] \in inside /\ size[g[n][i]] \in 0 .. MaxBytes
    <3>1. HeldIn(g, n) \cap Container \subseteq inside BY <2>1, TerminalAssumption, WithinIsClosed
    <3>2. QED BY <1>1, <2>1, <3>1
  <2>3. \A i \in 1 .. N : SizeIn(g, size, n, i) \in Nat /\ SizeIn(g, size, n, i) <= most
                          /\ Terminal!Separator(n, i) <= SizeIn(g, size, n, i) /\ Terminal!Separator(n, i) \in Nat
    <3> TAKE i \in 1 .. N
    <3>1. Terminal!Separator(n, i) \in Nat /\ Terminal!Separator(n, i) <= KeyBytes + 1 BY SeparatorIsNat
    <3>2. KeyBytes \in Nat /\ MaxBytes \in Nat BY TerminalAssumption
    <3>3. (IF g[n][i] \in Leaf THEN 1 ELSE size[g[n][i]]) \in 0 .. MaxBytes + 1 BY <2>2, <3>2
    <3>4. QED BY <3>1, <3>2, <3>3 DEF SizeIn
  <2>4. IsFiniteSet(full)
    <3>1. most \in Nat BY TerminalAssumption
    <3>2. full \in SUBSET ((1 .. N) \X (1 .. most))
      <4> HIDE DEF N, most
      <4>1. \A i \in 1 .. N : {i} \X (1 .. SizeIn(g, size, n, i)) \subseteq (1 .. N) \X (1 .. most) BY <2>3, <3>1
      <4>2. QED BY <4>1 DEF LaidIn
    <3> HIDE DEF full
    <3>3. IsFiniteSet(1 .. N) /\ IsFiniteSet(1 .. most)
      <4>1. N \in Int /\ most \in Int /\ 1 \in Int BY <1>1, <3>1
      <4> HIDE DEF N, most
      <4>2. QED BY <4>1, FS_Interval
    <3>4. IsFiniteSet((1 .. N) \X (1 .. most)) BY <3>3, FS_Product
    <3>5. QED BY <3>2, <3>4, FS_Subset
  <2>5. next \subseteq full BY <1>1, <1>3 DEF LaidIn
  <2>6. sofar = LaidIn(g, w.bytes, n, k)
    <3>1. \A i \in 1 .. k : g[n][i] \in {"digit"} \cup w.done BY DEF OpenInv
    <3>2. \A i \in 1 .. k : g[n][i] \notin Leaf => size[g[n][i]] = w.bytes[g[n][i]]
      BY <1>3, <3>1 DEF DoneInv, Leaf
    <3>3. QED BY <1>1, <3>2, LaidAlike
  <2>7. IsFiniteSet(sofar) /\ Cardinality(sofar) = Bytes(g, w, n) BY <2>6 DEF OpenInv, Bytes
  <2>8. k + 1 \in 1 .. N BY <1>1, <1>3
  <2>9. Cardinality(next) = Cardinality(sofar) + SizeIn(g, size, n, k + 1)
    BY <1>1, <2>3, <2>7, <2>8, LaidGrows
  <2>10. Cardinality(next) <= Cardinality(full) /\ Cardinality(full) \in Nat
    <3> HIDE DEF next, full
    <3>1. QED BY <2>4, <2>5, FS_Subset, FS_CardinalityType
  <2>11. ASSUME g[n][k + 1] \in {"digit"} \cup w.done PROVE SizeIn(g, w.bytes, n, k + 1) = SizeIn(g, size, n, k + 1)
    BY <1>3, <2>11 DEF SizeIn, DoneInv, Leaf
  <2> DEFINE sep == Terminal!Separator(n, k + 1)
             one == SizeIn(g, size, n, k + 1)
             old == Bytes(g, w, n)
             all == Cardinality(full)
  <2>12. one \in Nat /\ sep \in Nat /\ sep <= one /\ old \in Nat /\ all \in Nat /\ old + one <= all /\ size[n] = 2 + all
    BY <1>2, <2>1, <2>3, <2>7, <2>8, <2>9, <2>10
  <2> HIDE DEF sep, one, old, all
  <2>13. 2 + old + sep <= size[n] /\ 2 + old + one <= size[n] BY <2>12
  <2>14. QED BY <2>1, <2>11, <2>13 DEF sep, one, old
<1>4. QED BY <1>2, <1>3

\* The container that is worked on: it is under way, and what it gives next is
\* within the root, and inside all those it is in.
LEMMA TopIsOpen ==
  ASSUME NEW g \in Values, NEW w, Chain(g, w), Len(w.events) >= 1
  PROVE  LET L == Len(w.events)
             n == At(w, L)
         IN /\ L \in Nat /\ n \in w.active /\ n \in Container /\ n \notin w.done
            /\ n \in WithinIn(g, StateRoot) /\ OpenInv(g, w, n)
            /\ g[n] \in Seq(Leaf \cup Container) /\ w.index[n] \in Nat /\ w.bytes[n] \in 0 .. MaxBytes
            /\ w.clone[n] \in Seq(Value) /\ Taken(w, n) \in Nat
            /\ \A j \in 1 .. L - 1 : At(w, j) \in w.active /\ At(w, j) # n /\ At(w, j) \in Container
            /\ \A i \in 1 .. Len(g[n]) :
                 /\ g[n][i] \in HeldIn(g, n)
                 /\ g[n][i] \in Container => g[n][i] \in WithinIn(g, StateRoot)
                 /\ g[n][i] \in Container => \A j \in 1 .. L : g[n][i] \in InsideIn(g, At(w, j))
<1> DEFINE L == Len(w.events)
           n == At(w, L)
<1>1. w \in WalkType /\ w.events \in Seq([type : {"visit", "next"}, value : Value]) /\ L \in Nat BY DEF Chain, WalkType
<1>2. n \in w.active /\ OpenInv(g, w, n) BY <1>1 DEF Chain, Stack
<1>3. n \in Container BY <1>1, <1>2 DEF WalkType
<1>4. n \in WithinIn(g, StateRoot) /\ n \notin w.done BY <1>2 DEF OpenInv
<1>5. g[n] \in Seq(Leaf \cup Container) BY <1>3 DEF Values
<1>6. w.index[n] \in Nat /\ w.bytes[n] \in 0 .. MaxBytes /\ w.clone[n] \in Seq(Value) BY <1>1, <1>3 DEF WalkType
<1>7. Taken(w, n) \in Nat BY <1>6 DEF Taken
<1>8. ASSUME NEW i \in 1 .. Len(g[n])
      PROVE  /\ g[n][i] \in HeldIn(g, n)
             /\ g[n][i] \in Container => g[n][i] \in WithinIn(g, StateRoot)
             /\ g[n][i] \in Container => \A j \in 1 .. L : g[n][i] \in InsideIn(g, At(w, j))
  <2>1. g[n][i] \in HeldIn(g, n) BY <1>5 DEF HeldIn
  <2>2. g[n][i] \in Container => g[n][i] \in WithinIn(g, StateRoot)
    BY <1>4, <2>1, TerminalAssumption, WithinIsClosed
  <2>3. ASSUME g[n][i] \in Container, NEW j \in 1 .. L PROVE g[n][i] \in InsideIn(g, At(w, j))
    <3>1. At(w, j) \in Container BY <1>1 DEF Chain, Stack, WalkType
    <3>2. CASE j = L BY <1>3, <2>1, <2>3, <3>2, InsideGoesOn
    <3>3. CASE j < L
      <4>1. n \in InsideIn(g, At(w, j)) BY <1>1, <3>3 DEF Chain, Stack
      <4>2. QED BY <2>1, <2>3, <3>1, <4>1, InsideGoesOn
    <3>4. QED BY <1>1, <3>2, <3>3
  <2>4. QED BY <2>1, <2>2, <2>3
<1>9. ASSUME NEW j \in 1 .. L - 1 PROVE At(w, j) \in w.active /\ At(w, j) # n /\ At(w, j) \in Container
  <2>1. j \in 1 .. L /\ L \in 1 .. L /\ j < L BY <1>1
  <2>2. At(w, j) \in w.active BY <2>1 DEF Chain, Stack
  <2>3. At(w, j) # n BY <2>1 DEF Chain, Stack
  <2>4. QED BY <1>1, <2>2, <2>3 DEF WalkType
<1>10. QED BY <1>1, <1>2, <1>3, <1>4, <1>5, <1>6, <1>7, <1>8, <1>9

\* What is carried to a container under way is an entry of it.
LEMMA CarriedIsHeld ==
  ASSUME NEW g \in Values, NEW w, NEW v, Carrying(g, w, v), Len(w.events) >= 1
  PROVE  LET n == At(w, Len(w.events))
         IN /\ w.index[n] \in 1 .. Len(g[n]) /\ v = g[n][w.index[n]] /\ v \in HeldIn(g, n) /\ v # "missing"
            /\ w.index[n] = Taken(w, n) + 1
<1> DEFINE n == At(w, Len(w.events))
<1>1. Chain(g, w) /\ Len(w.events) # 0 /\ Entering(g, w, n, v) BY DEF Carrying
<1>2. /\ OpenInv(g, w, n) /\ g[n] \in Seq(Leaf \cup Container) /\ w.index[n] \in Nat /\ Taken(w, n) \in Nat
      /\ \A i \in 1 .. Len(g[n]) : g[n][i] \in HeldIn(g, n)
  BY <1>1, TopIsOpen
<1>3. w.index[n] \in 1 .. Len(g[n]) BY <1>1, <1>2 DEF Entering, OpenInv
<1>4. QED BY <1>1, <1>2, <1>3 DEF Entering

\* Three ways for a value to be no JSON.
LEMMA NotJson ==
  ASSUME NEW g \in Values, NEW w
  PROVE  /\ \A v : Carrying(g, w, v) /\ v \in w.active => ~StrictIn(g)
         /\ Carrying(g, w, "bad") => ~StrictIn(g)
         /\ Resting(g, w) /\ w.index[At(w, Len(w.events))] + 1 <= Len(g[At(w, Len(w.events))])
              /\ g[At(w, Len(w.events))][w.index[At(w, Len(w.events))] + 1] = "missing" => ~StrictIn(g)
<1> DEFINE n == At(w, Len(w.events))
<1>1. ASSUME NEW v, Carrying(g, w, v), v \in w.active PROVE ~StrictIn(g)
  <2>1. Chain(g, w) /\ w \in WalkType BY <1>1 DEF Carrying, Chain
  <2>2. v \in Container /\ v \in WithinIn(g, StateRoot) BY <1>1, <2>1 DEF Chain, OpenInv, WalkType
  <2>3. PICK j \in 1 .. Len(w.events) : v = At(w, j) BY <1>1, <2>1 DEF Chain, Stack
  <2>4. Len(w.events) >= 1 /\ Len(w.events) \in Nat BY <2>1, <2>3 DEF WalkType
  <2>5. w.index[n] \in 1 .. Len(g[n]) /\ v = g[n][w.index[n]] BY <1>1, <2>4, CarriedIsHeld
  <2>6. v \in InsideIn(g, v) BY <2>1, <2>2, <2>3, <2>4, <2>5, TopIsOpen
  <2>7. QED BY <2>2, <2>6 DEF StrictIn
<1>2. ASSUME Carrying(g, w, "bad") PROVE ~StrictIn(g)
  <2>1. Chain(g, w) /\ w \in WalkType /\ Len(w.events) \in Nat BY <1>2 DEF Carrying, Chain, WalkType
  <2>2. Len(w.events) >= 1 BY <1>2, <2>1, TerminalAssumption DEF Carrying
  <2>3. n \in WithinIn(g, StateRoot) /\ "bad" \in HeldIn(g, n) BY <1>2, <2>1, <2>2, TopIsOpen, CarriedIsHeld
  <2>4. QED BY <2>3 DEF StrictIn
<1>3. ASSUME Resting(g, w), w.index[n] + 1 <= Len(g[n]), g[n][w.index[n] + 1] = "missing" PROVE ~StrictIn(g)
  <2>1. Chain(g, w) /\ Len(w.events) >= 1 BY <1>3 DEF Resting
  <2>2. w.index[n] \in Nat /\ n \in WithinIn(g, StateRoot) /\ g[n] \in Seq(Leaf \cup Container)
        /\ \A i \in 1 .. Len(g[n]) : g[n][i] \in HeldIn(g, n)
    BY <2>1, TopIsOpen
  <2>3. w.index[n] + 1 \in 1 .. Len(g[n]) BY <1>3, <2>2
  <2>4. "missing" \in HeldIn(g, n) BY <1>3, <2>2, <2>3
  <2>5. QED BY <2>2, <2>4 DEF StrictIn
<1>4. QED BY <1>1, <1>2, <1>3

\* What a change leaves of the stack.
LEMMA StackStays ==
  ASSUME NEW g, NEW w \in WalkType, NEW u, Stack(g, w), u.events = w.events, u.active = w.active,
         \A j \in 1 .. Len(w.events) - 1 : Entering(g, w, At(w, j), At(w, j + 1)) => Entering(g, u, At(w, j), At(w, j + 1))
  PROVE  Stack(g, u)
<1>1. \A j : At(u, j) = At(w, j) BY DEF At
<1>2. QED BY <1>1 DEF Stack

\* An entry is entered.
LEMMA EnterStep ==
  ASSUME NEW g \in Values, NEW w, Resting(g, w), NEW n, n = At(w, Len(w.events)), NEW i, i = w.index[n] + 1,
         i <= Len(g[n]), NEW u
  PROVE  /\ g[n][i] # "missing" /\ Terminal!Separator(n, i) <= MaxBytes - w.bytes[n]
            /\ u = [w EXCEPT !.index[n] = i, !.bytes[n] = @ + Terminal!Separator(n, i)]
              => Carrying(g, u, g[n][i])
         /\ Terminal!Separator(n, i) > MaxBytes - w.bytes[n] => Compacts(g) = {}
<1> DEFINE L == Len(w.events)
           sep == Terminal!Separator(n, i)
<1>1. Chain(g, w) /\ L >= 1 /\ Settled(g, w, n) /\ w \in WalkType /\ DoneInv(g, w) BY DEF Resting, Chain
<1>2. /\ L \in Nat /\ n \in w.active /\ n \in Container /\ n \notin w.done
      /\ OpenInv(g, w, n) /\ g[n] \in Seq(Leaf \cup Container)
      /\ w.index[n] \in Nat /\ w.bytes[n] \in 0 .. MaxBytes /\ Taken(w, n) \in Nat /\ w.clone[n] \in Seq(Value)
  BY <1>1, TopIsOpen
<1>3. i \in Nat /\ i = Taken(w, n) + 1 /\ w.bytes[n] = 2 + Bytes(g, w, n) BY <1>1, <1>2 DEF Settled
<1>4. sep \in Nat /\ MaxBytes \in Nat BY <1>3, SeparatorIsNat, TerminalAssumption
<1>5. ASSUME sep > MaxBytes - w.bytes[n] PROVE Compacts(g) = {}
  <2>1. ASSUME NEW size \in Compacts(g) PROVE FALSE
    <3>1. size[n] \in 0 .. MaxBytes /\ 2 + Bytes(g, w, n) + sep <= size[n]
      BY <1>1, <1>2, <1>3, CountedIsTrue DEF Chain
    <3> HIDE DEF sep
    <3>2. QED BY <1>2, <1>3, <1>4, <1>5, <3>1
  <2>2. QED BY <2>1
<1>6. ASSUME g[n][i] # "missing", sep <= MaxBytes - w.bytes[n], u = [w EXCEPT !.index[n] = i, !.bytes[n] = @ + sep]
      PROVE  Carrying(g, u, g[n][i])
  <2> HIDE DEF sep
  <2>1. /\ u \in WalkType /\ u.events = w.events /\ u.active = w.active /\ u.done = w.done /\ u.clone = w.clone
        /\ u.index = [w.index EXCEPT ![n] = i] /\ u.bytes = [w.bytes EXCEPT ![n] = @ + sep]
    <3>1. w.bytes[n] + sep \in 0 .. MaxBytes BY <1>2, <1>4, <1>6
    <3>2. QED BY <1>1, <1>2, <1>3, <1>6, <3>1 DEF WalkType
  <2>2. /\ u.index[n] = i /\ u.bytes[n] = w.bytes[n] + sep /\ Taken(u, n) = Taken(w, n)
        /\ SameBut(w, u, n)
    BY <1>1, <1>2, <2>1 DEF WalkType, SameBut, Taken
  <2>3. /\ DoneInv(g, u)
        /\ \A m \in Container \ {n} : OpenInv(g, w, m) =>
             OpenInv(g, u, m) /\ \A v : Entering(g, w, m, v) => Entering(g, u, m, v)
        /\ \A k \in Nat :
             (\A x \in 1 .. k : g[n][x] \in {"digit"} \cup w.done) => LaidIn(g, u.bytes, n, k) = LaidIn(g, w.bytes, n, k)
    <3>1. w \in WalkType /\ DoneInv(g, w) BY <1>1
    <3>2. n \in Container /\ n \notin w.done BY <1>2
    <3>3. u \in WalkType /\ u.done = w.done BY <2>1
    <3>4. SameBut(w, u, n) BY <2>2
    <3>5. QED BY <3>1, <3>2, <3>3, <3>4, OthersStay
  <2>4. LaidIn(g, u.bytes, n, Taken(u, n)) = LaidIn(g, w.bytes, n, Taken(w, n)) BY <1>2, <2>2, <2>3 DEF OpenInv
  <2>5. OpenInv(g, u, n) BY <1>2, <1>3, <2>1, <2>2, <2>4 DEF OpenInv
  <2>6. \A j \in 1 .. L - 1 : At(w, j) \in w.active /\ At(w, j) # n /\ At(w, j) \in Container
    BY <1>1, TopIsOpen
  <2>7. Stack(g, u)
    <3>1. \A j \in 1 .. L - 1 : Entering(g, w, At(w, j), At(w, j + 1)) => Entering(g, u, At(w, j), At(w, j + 1))
      BY <1>1, <2>3, <2>6 DEF Chain
    <3>2. QED BY <1>1, <2>1, <3>1, StackStays DEF Chain
  <2>8. \A m \in u.active : OpenInv(g, u, m) BY <1>1, <2>1, <2>3, <2>5 DEF Chain, WalkType
  <2>9. \A m \in Container : m \notin u.active \cup u.done => u.index[m] = 0 /\ u.clone[m] = <<>>
    BY <1>1, <1>2, <2>1, <2>2 DEF Chain, SameBut
  <2>10. Chain(g, u) BY <2>1, <2>3, <2>7, <2>8, <2>9 DEF Chain
  <2>11. Entering(g, u, n, g[n][i])
    BY <1>3, <1>6, <2>2, <2>4 DEF Entering, Bytes, sep
  <2>12. At(u, Len(u.events)) = n /\ Len(u.events) # 0 BY <1>1, <1>2, <2>1 DEF At
  <2>13. g[n][i] \in Value BY <1>2, <1>3 DEF Value
  <2>14. QED BY <2>10, <2>11, <2>12, <2>13 DEF Carrying
<1>7. QED BY <1>4, <1>5, <1>6

\* A finished value is attached.
Weighs(w, v) == IF v \in Leaf THEN 1 ELSE w.bytes[v]
AttachGoesOn(g, w, v, n, more, u) ==
  /\ more <= MaxBytes - w.bytes[n] /\ u = [w EXCEPT !.clone[n] = Append(@, v), !.bytes[n] = @ + more]
       => Resting(g, u)
  /\ more > MaxBytes - w.bytes[n] => Compacts(g) = {}

LEMMA AttachStep ==
  ASSUME NEW g \in Values, NEW w, NEW v, Carrying(g, w, v), Len(w.events) >= 1, NEW n, n = At(w, Len(w.events)),
         v \in {"digit"} \cup w.done, NEW more, more = Weighs(w, v), NEW u
  PROVE  AttachGoesOn(g, w, v, n, more, u)
<1> SUFFICES /\ more <= MaxBytes - w.bytes[n] /\ u = [w EXCEPT !.clone[n] = Append(@, v), !.bytes[n] = @ + more]
                  => Resting(g, u)
             /\ more > MaxBytes - w.bytes[n] => Compacts(g) = {}
    BY DEF AttachGoesOn
<1> USE DEF Weighs
<1> DEFINE L == Len(w.events)
           k == Taken(w, n)
           sep == Terminal!Separator(n, k + 1)
<1>1. Chain(g, w) /\ L >= 1 /\ Entering(g, w, n, v) /\ w \in WalkType /\ DoneInv(g, w) BY DEF Carrying, Chain
<1>2. /\ L \in Nat /\ n \in w.active /\ n \in Container /\ n \notin w.done
      /\ OpenInv(g, w, n) /\ g[n] \in Seq(Leaf \cup Container)
      /\ w.index[n] \in Nat /\ w.bytes[n] \in 0 .. MaxBytes /\ k \in Nat /\ w.clone[n] \in Seq(Value)
  BY <1>1, TopIsOpen
<1>3. w.index[n] = k + 1 /\ v = g[n][k + 1] /\ w.bytes[n] = 2 + Bytes(g, w, n) + sep /\ k + 1 <= Len(g[n])
  BY <1>1, <1>2, CarriedIsHeld DEF Entering
<1>4. sep \in Nat /\ MaxBytes \in Nat /\ Bytes(g, w, n) \in Nat
  <2>1. sep \in Nat BY <1>2, SeparatorIsNat
  <2>2. Bytes(g, w, n) \in Nat BY <1>1, <1>2, CountedIsTrue DEF Chain
  <2>3. QED BY <2>1, <2>2, TerminalAssumption
<1>5. v # n /\ more \in Nat
  <2>1. n \notin Leaf BY <1>2, TerminalAssumption DEF Leaf
  <2>2. v \in w.done => w.bytes[v] \in Nat BY <1>1 DEF WalkType
  <2>3. QED BY <1>2, <2>1, <2>2 DEF Leaf
<1>6. SizeIn(g, w.bytes, n, k + 1) = sep + more BY <1>3 DEF SizeIn
<1>7. ASSUME more > MaxBytes - w.bytes[n] PROVE Compacts(g) = {}
  <2>1. ASSUME NEW size \in Compacts(g) PROVE FALSE
    <3>1. size[n] \in 0 .. MaxBytes /\ 2 + Bytes(g, w, n) + SizeIn(g, w.bytes, n, k + 1) <= size[n]
      BY <1>1, <1>2, <1>3, CountedIsTrue DEF Chain
    <3> DEFINE old == Bytes(g, w, n)
               one == SizeIn(g, w.bytes, n, k + 1)
    <3>2. w.bytes[n] = 2 + old + sep /\ one = sep + more /\ 2 + old + one <= size[n] BY <1>3, <1>6, <3>1
    <3>3. old \in Nat /\ sep \in Nat /\ more \in Nat BY <1>4, <1>5
    <3> HIDE DEF sep, k, old, one
    <3>4. w.bytes[n] + more <= size[n] BY <3>1, <3>2, <3>3
    <3>5. QED BY <1>2, <1>4, <1>5, <1>7, <3>1, <3>4
  <2>2. QED BY <2>1
<1>8. ASSUME more <= MaxBytes - w.bytes[n], u = [w EXCEPT !.clone[n] = Append(@, v), !.bytes[n] = @ + more]
      PROVE  Resting(g, u)
  <2> HIDE DEF sep, k
  <2>1. /\ u \in WalkType /\ u.events = w.events /\ u.active = w.active /\ u.done = w.done /\ u.index = w.index
        /\ u.clone = [w.clone EXCEPT ![n] = Append(@, v)] /\ u.bytes = [w.bytes EXCEPT ![n] = @ + more]
    <3>1. w.bytes[n] + more \in 0 .. MaxBytes BY <1>2, <1>4, <1>5, <1>8
    <3>2. Append(w.clone[n], v) \in Seq(Value) BY <1>1, <1>2 DEF Value, Leaf, WalkType
    <3>3. QED BY <1>1, <1>2, <1>8, <3>1, <3>2 DEF WalkType
  <2>2. /\ u.bytes[n] = w.bytes[n] + more /\ u.clone[n] = Append(w.clone[n], v)
        /\ SameBut(w, u, n)
    BY <1>1, <1>2, <2>1 DEF WalkType, SameBut
  <2>3. Taken(u, n) = k + 1 /\ \A x \in 1 .. k + 1 : u.clone[n][x] = IF x = k + 1 THEN v ELSE w.clone[n][x]
    BY <1>2, <2>2 DEF Taken, k
  <2>4. /\ DoneInv(g, u)
        /\ \A m \in Container \ {n} : OpenInv(g, w, m) =>
             OpenInv(g, u, m) /\ \A x : Entering(g, w, m, x) => Entering(g, u, m, x)
        /\ \A d \in Nat :
             (\A x \in 1 .. d : g[n][x] \in {"digit"} \cup w.done) => LaidIn(g, u.bytes, n, d) = LaidIn(g, w.bytes, n, d)
    BY <1>1, <1>2, <2>1, <2>2, OthersStay
  <2>5. \A x \in 1 .. k : w.clone[n][x] = g[n][x] /\ g[n][x] \in {"digit"} \cup w.done BY <1>2 DEF OpenInv, k
  <2>6. LaidIn(g, u.bytes, n, k) = LaidIn(g, w.bytes, n, k) BY <1>2, <2>4, <2>5
  <2>7. SizeIn(g, u.bytes, n, k + 1) = sep + more
    <3>1. v \notin Leaf => u.bytes[v] = w.bytes[v] BY <1>1, <1>5, <2>2 DEF WalkType, Leaf, SameBut
    <3>2. QED BY <1>3, <1>6, <3>1 DEF SizeIn
  <2>8. IsFiniteSet(LaidIn(g, u.bytes, n, k)) /\ Cardinality(LaidIn(g, u.bytes, n, k)) = Bytes(g, w, n)
    BY <1>2, <2>6 DEF OpenInv, Bytes, k
  <2>9. /\ IsFiniteSet(LaidIn(g, u.bytes, n, k + 1))
        /\ Cardinality(LaidIn(g, u.bytes, n, k + 1)) = Bytes(g, w, n) + sep + more
    <3>1. sep + more \in Nat BY <1>4, <1>5
    <3>2. /\ IsFiniteSet(LaidIn(g, u.bytes, n, k + 1))
          /\ Cardinality(LaidIn(g, u.bytes, n, k + 1)) = Bytes(g, w, n) + (sep + more)
      BY <1>2, <2>7, <2>8, <3>1, LaidGrows
    <3>3. QED BY <1>4, <1>5, <3>2
  <2>10. OpenInv(g, u, n)
    <3>1. \A x \in 1 .. k + 1 : u.clone[n][x] = g[n][x] /\ g[n][x] \in {"digit"} \cup w.done
      BY <1>2, <1>3, <2>3, <2>5
    <3>2. n \in WithinIn(g, StateRoot) BY <1>2 DEF OpenInv
    <3>3. Taken(u, n) <= u.index[n] /\ u.index[n] <= Len(g[n]) BY <1>2, <1>3, <2>1, <2>3
    <3>4. IsFiniteSet(LaidIn(g, u.bytes, n, Taken(u, n))) BY <2>3, <2>9
    <3>5. QED BY <1>2, <2>1, <2>3, <3>1, <3>2, <3>3, <3>4 DEF OpenInv
  <2>11. \A j \in 1 .. L - 1 : At(w, j) \in w.active /\ At(w, j) # n /\ At(w, j) \in Container
    BY <1>1, TopIsOpen
  <2>12. Stack(g, u)
    <3>1. \A j \in 1 .. L - 1 : Entering(g, w, At(w, j), At(w, j + 1)) => Entering(g, u, At(w, j), At(w, j + 1))
      BY <1>1, <2>4, <2>11 DEF Chain
    <3>2. QED BY <1>1, <2>1, <3>1, StackStays DEF Chain
  <2>13. \A m \in u.active : OpenInv(g, u, m) BY <1>1, <2>1, <2>4, <2>10 DEF Chain, WalkType
  <2>14. \A m \in Container : m \notin u.active \cup u.done => u.index[m] = 0 /\ u.clone[m] = <<>>
    BY <1>1, <1>2, <2>1, <2>2 DEF Chain, SameBut
  <2>15. Chain(g, u) BY <2>1, <2>4, <2>12, <2>13, <2>14 DEF Chain
  <2>16. Settled(g, u, n)
    <3> DEFINE old == Bytes(g, w, n)
               new == Cardinality(LaidIn(g, u.bytes, n, k + 1))
    <3>1. w.bytes[n] = 2 + old + sep /\ u.bytes[n] = w.bytes[n] + more /\ new = old + sep + more
      BY <1>3, <2>2, <2>9
    <3>2. old \in Nat /\ sep \in Nat /\ more \in Nat BY <1>4, <1>5
    <3>3. Bytes(g, u, n) = new BY <2>3 DEF Bytes
    <3> HIDE DEF old, new
    <3>4. u.bytes[n] = 2 + new BY <3>1, <3>2
    <3>5. QED BY <1>3, <2>1, <2>3, <3>3, <3>4 DEF Settled
  <2>17. At(u, Len(u.events)) = n /\ Len(u.events) >= 1 BY <1>1, <2>1 DEF At
  <2>18. QED BY <2>15, <2>16, <2>17 DEF Resting
<1>9. QED BY <1>2, <1>4, <1>5, <1>7, <1>8

\* A container is begun.
LEMMA OpenStep ==
  ASSUME NEW g \in Values, NEW w, NEW v, Carrying(g, w, v), v \in Container, v \notin w.active, v \notin w.done,
         NEW u, u = [w EXCEPT !.active = @ \cup {v}, !.bytes[v] = 2, !.events = Append(@, Terminal!Resume(v))]
  PROVE  Resting(g, u)
<1> DEFINE L == Len(w.events)
<1>1. Chain(g, w) /\ w \in WalkType /\ DoneInv(g, w) BY DEF Carrying, Chain
<1>2. L \in Nat /\ w.events \in Seq([type : {"visit", "next"}, value : Value]) BY <1>1 DEF WalkType
<1>3. /\ u \in WalkType /\ u.events = Append(w.events, Terminal!Resume(v)) /\ u.active = w.active \cup {v}
      /\ u.done = w.done /\ u.index = w.index /\ u.clone = w.clone /\ u.bytes = [w.bytes EXCEPT ![v] = 2]
  <2>1. 2 \in 0 .. MaxBytes BY TerminalAssumption
  <2>2. Terminal!Resume(v) \in [type : {"visit", "next"}, value : Value] BY DEF Terminal!Resume, Value
  <2>3. u.events \in Seq([type : {"visit", "next"}, value : Value]) BY <1>1, <1>2, <2>2 DEF WalkType
  <2>4. QED BY <1>1, <2>1, <2>3 DEF WalkType
<1>4. /\ Len(u.events) = L + 1 /\ At(u, L + 1) = v /\ u.events[L + 1] = Terminal!Resume(v)
      /\ \A j \in 1 .. L : u.events[j] = w.events[j] /\ At(u, j) = At(w, j)
  <2>1. Len(u.events) = L + 1 /\ u.events[L + 1] = Terminal!Resume(v) /\ \A j \in 1 .. L : u.events[j] = w.events[j]
    BY <1>2, <1>3
  <2>2. Terminal!Resume(v).value = v BY DEF Terminal!Resume
  <2>3. QED BY <2>1, <2>2 DEF At
<1>5. v \in WithinIn(g, StateRoot) /\ \A j \in 1 .. L : v \in InsideIn(g, At(w, j))
  <2>1. CASE L = 0 BY <2>1, WithinIsClosed, TerminalAssumption DEF Carrying
  <2>2. CASE L >= 1
    <3>1. PICK n : n = At(w, L) OBVIOUS
    <3>2. w.index[n] \in 1 .. Len(g[n]) /\ v = g[n][w.index[n]] BY <2>2, <3>1, CarriedIsHeld
    <3>3. QED BY <1>1, <2>2, <3>1, <3>2, TopIsOpen
  <2>3. QED BY <1>2, <2>1, <2>2
<1>6. u.bytes[v] = 2 /\ u.index[v] = 0 /\ u.clone[v] = <<>> /\ Taken(u, v) = 0 /\ SameBut(w, u, v)
  BY <1>1, <1>3 DEF Chain, WalkType, SameBut, Taken
<1>7. /\ DoneInv(g, u)
      /\ \A m \in Container \ {v} : OpenInv(g, w, m) =>
           OpenInv(g, u, m) /\ \A x : Entering(g, w, m, x) => Entering(g, u, m, x)
  BY <1>1, <1>3, <1>6, OthersStay
<1>8. OpenInv(g, u, v) /\ Settled(g, u, v)
  <2>1. g[v] \in Seq(Leaf \cup Container) BY DEF Values
  <2>2. IsFiniteSet(LaidIn(g, u.bytes, v, 0)) /\ Cardinality(LaidIn(g, u.bytes, v, 0)) = 0 BY LaidNothing
  <2>3. QED BY <1>3, <1>5, <1>6, <2>1, <2>2 DEF OpenInv, Settled, Bytes
<1>9. \A j \in 1 .. L : At(w, j) \in w.active /\ At(w, j) \in Container /\ At(w, j) # v
  BY <1>1 DEF Chain, Stack, WalkType
<1>10. Stack(g, u)
  <2>1. u.active = {At(u, j) : j \in 1 .. L + 1}
    <3>1. w.active = {At(w, j) : j \in 1 .. L} BY <1>1 DEF Chain, Stack
    <3>2. 1 .. L + 1 = (1 .. L) \cup {L + 1} BY <1>2
    <3> HIDE DEF L
    <3>3. {At(u, j) : j \in (1 .. L) \cup {L + 1}} = {At(w, j) : j \in 1 .. L} \cup {v} BY <1>4
    <3>4. QED BY <1>3, <3>1, <3>2, <3>3
  <2>2. \A j \in 1 .. L + 1 : u.events[j] = Terminal!Resume(At(u, j))
    <3>1. \A j \in 1 .. L : w.events[j] = Terminal!Resume(At(w, j)) BY <1>1 DEF Chain, Stack
    <3>2. QED BY <1>2, <1>4, <3>1
  <2>3. ASSUME NEW j \in 1 .. L + 1, NEW k \in 1 .. L + 1, j < k PROVE At(u, k) \in InsideIn(g, At(u, j)) /\ At(u, j) # At(u, k)
    <3>1. j \in 1 .. L BY <1>2, <2>3
    <3>2. CASE k = L + 1 BY <1>4, <1>5, <1>9, <3>1, <3>2
    <3>3. CASE k \in 1 .. L
      <4>1. At(w, k) \in InsideIn(g, At(w, j)) /\ At(w, j) # At(w, k) BY <1>1, <2>3, <3>1, <3>3 DEF Chain, Stack
      <4>2. QED BY <1>4, <3>1, <3>3, <4>1
    <3>4. QED BY <1>2, <3>2, <3>3
  <2>4. ASSUME NEW j \in 1 .. L PROVE Entering(g, u, At(u, j), At(u, j + 1))
    <3>1. OpenInv(g, w, At(w, j)) BY <1>1, <1>9 DEF Chain
    <3>2. Entering(g, w, At(w, j), At(u, j + 1))
      <4>1. CASE j = L
        <5>1. L # 0 BY <1>2, <4>1
        <5>2. Entering(g, w, At(w, L), v) BY <5>1 DEF Carrying
        <5>3. QED BY <1>4, <4>1, <5>2
      <4>2. CASE j < L
        <5>1. j \in 1 .. L - 1 /\ j + 1 \in 1 .. L BY <1>2, <4>2
        <5>2. Entering(g, w, At(w, j), At(w, j + 1)) BY <1>1, <5>1 DEF Chain, Stack
        <5>3. QED BY <1>4, <5>1, <5>2
      <4>3. QED BY <1>2, <4>1, <4>2
    <3>3. QED BY <1>4, <1>7, <1>9, <3>1, <3>2
  <2>5. At(u, 1) = StateRoot
    <3>1. CASE L = 0 BY <1>4, <3>1 DEF Carrying
    <3>2. CASE L >= 1
      <4>1. At(w, 1) = StateRoot BY <1>1, <3>2 DEF Chain, Stack
      <4>2. 1 \in 1 .. L BY <1>2, <3>2
      <4>3. QED BY <1>4, <4>1, <4>2
    <3>3. QED BY <1>2, <3>1, <3>2
  <2>6. L + 1 - 1 = L BY <1>2
  <2> DEFINE M == Len(u.events)
  <2>7. M = L + 1 /\ M - 1 = L BY <1>4, <2>6
  <2> HIDE DEF L
  <2>8. /\ u.active = {At(u, j) : j \in 1 .. M} /\ \A j \in 1 .. M : u.events[j] = Terminal!Resume(At(u, j))
        /\ \A j, k \in 1 .. M : j < k => At(u, k) \in InsideIn(g, At(u, j)) /\ At(u, j) # At(u, k)
        /\ \A j \in 1 .. M - 1 : Entering(g, u, At(u, j), At(u, j + 1))
    BY <2>1, <2>2, <2>3, <2>4, <2>7
  <2>9. QED BY <2>5, <2>8 DEF Stack
<1>11. \A m \in u.active : OpenInv(g, u, m)
  <2>1. \A m \in w.active : m \in Container \ {v} /\ OpenInv(g, w, m) BY <1>1 DEF Chain, WalkType
  <2>2. QED BY <1>3, <1>7, <1>8, <2>1
<1>12. \A m \in Container : m \notin u.active \cup u.done => u.index[m] = 0 /\ u.clone[m] = <<>>
  BY <1>1, <1>3 DEF Chain
<1>13. Chain(g, u) BY <1>3, <1>7, <1>10, <1>11, <1>12 DEF Chain
<1>14. QED BY <1>2, <1>4, <1>8, <1>13 DEF Resting

\* The walk begins at the top.
LEMMA BeginStep ==
  ASSUME NEW g \in Values, NEW w,
         w = [Terminal!NotBegun EXCEPT !.at = "walking", !.index = [n \in Container |-> 0],
                !.bytes = [n \in Container |-> 0], !.clone = [n \in Container |-> <<>>]]
  PROVE  Carrying(g, w, StateRoot)
<1>1. /\ w.events = <<>> /\ w.active = {} /\ w.done = {} /\ w.at = "walking" /\ w.top = None
      /\ w.index = [n \in Container |-> 0] /\ w.bytes = [n \in Container |-> 0] /\ w.clone = [n \in Container |-> <<>>]
  BY DEF Terminal!NotBegun
<1>2. w \in WalkType
  <2>1. 0 \in 0 .. MaxBytes BY TerminalAssumption
  <2> DEFINE T == [type : {"visit", "next"}, value : Value]
  <2>2. w.events \in Seq(T)
    <3> HIDE DEF T
    <3>1. <<>> \in Seq(T) BY EmptySeq
    <3>2. QED BY <1>1, <3>1
  <2>3. w.clone \in [Container -> Seq(Value)] BY <1>1, EmptySeq
  <2>4. QED BY <1>1, <2>1, <2>2, <2>3 DEF WalkType, Terminal!NotBegun
<1>3. Len(w.events) = 0 BY <1>1
<1>4. DoneInv(g, w) BY <1>1 DEF DoneInv
<1>5. Stack(g, w) BY <1>1, <1>3 DEF Stack
<1>6. Chain(g, w) BY <1>1, <1>2, <1>4, <1>5 DEF Chain
<1>7. QED BY <1>3, <1>6, TerminalAssumption DEF Carrying, Value

\* What is done reaches nothing else.
LEMMA DoneIsWhole ==
  ASSUME NEW g, NEW w \in WalkType, DoneInv(g, w), NEW m \in w.done
  PROVE  WithinIn(g, m) \subseteq w.done
<1>1. w.done \in SUBSET Container /\ m \in Container BY DEF WalkType
<1>2. \A c \in w.done : HeldIn(g, c) \cap Container \subseteq w.done
  BY TerminalAssumption DEF DoneInv
<1>3. QED BY <1>1, <1>2, WithinIsClosed

\* A container with all its entries is what it was to be.
LEMMA FullIsWhole ==
  ASSUME NEW g \in Values, NEW w, Resting(g, w), NEW n, n = At(w, Len(w.events)), w.index[n] = Len(g[n])
  PROVE  /\ HeldIn(g, n) \subseteq {"digit"} \cup w.done /\ n \notin InsideIn(g, n) /\ w.clone[n] = g[n]
         /\ w.bytes[n] = 2 + Cardinality(LaidIn(g, w.bytes, n, Len(g[n])))
         /\ \A size \in Compacts(g) : size[n] = w.bytes[n]
<1>1. Chain(g, w) /\ Len(w.events) >= 1 /\ Settled(g, w, n) /\ w \in WalkType /\ DoneInv(g, w) BY DEF Resting, Chain
<1>2. /\ n \in Container /\ n \notin w.done /\ OpenInv(g, w, n) /\ g[n] \in Seq(Leaf \cup Container)
      /\ Taken(w, n) \in Nat /\ w.clone[n] \in Seq(Value) /\ n \in WithinIn(g, StateRoot)
  BY <1>1, TopIsOpen
<1>3. Taken(w, n) = Len(g[n]) /\ w.bytes[n] = 2 + Cardinality(LaidIn(g, w.bytes, n, Len(g[n])))
  BY <1>1 DEF Settled, Bytes
<1>4. \A i \in 1 .. Len(g[n]) : w.clone[n][i] = g[n][i] /\ g[n][i] \in {"digit"} \cup w.done
  BY <1>2, <1>3 DEF OpenInv
<1>5. HeldIn(g, n) \subseteq {"digit"} \cup w.done BY <1>2, <1>4 DEF HeldIn
<1>6. w.clone[n] = g[n]
  <2>1. Len(w.clone[n]) = Len(g[n]) BY <1>3 DEF Taken
  <2>2. g[n] \in Seq(Value) BY <1>2 DEF Value
  <2> DEFINE a == w.clone[n]
             b == g[n]
  <2>3. a \in Seq(Value) /\ b \in Seq(Value) /\ Len(a) = Len(b) /\ \A i \in 1 .. Len(a) : a[i] = b[i]
    BY <1>2, <1>4, <2>1, <2>2
  <2> HIDE DEF a, b
  <2>4. a = b BY <2>3, SeqEqual
  <2>5. QED BY <2>4 DEF a, b
<1>7. n \notin InsideIn(g, n)
  <2>1. HeldIn(g, n) \cap Container \subseteq w.done BY <1>5, TerminalAssumption
  <2>2. InsideIn(g, n) \subseteq w.done BY <1>1, <2>1, DoneIsWhole DEF InsideIn
  <2>3. QED BY <1>2, <2>2
<1>8. ASSUME NEW size \in Compacts(g) PROVE size[n] = w.bytes[n]
  <2>1. size[n] = 2 + Cardinality(LaidIn(g, size, n, Len(g[n]))) BY <1>2 DEF Compacts
  <2>2. \A i \in 1 .. Len(g[n]) : g[n][i] \notin Leaf => size[g[n][i]] = w.bytes[g[n][i]]
    BY <1>1, <1>4, <1>8 DEF DoneInv, Leaf
  <2>3. LaidIn(g, size, n, Len(g[n])) = LaidIn(g, w.bytes, n, Len(g[n])) BY <1>2, <1>3, <2>2, LaidAlike
  <2>4. QED BY <1>3, <2>1, <2>3
<1>9. QED BY <1>3, <1>5, <1>6, <1>7, <1>8

\* A container is closed and carried to the one it is in.
LEMMA CloseStep ==
  ASSUME NEW g \in Values, NEW w, Resting(g, w), NEW n, n = At(w, Len(w.events)), w.index[n] = Len(g[n]),
         NEW u, u = [w EXCEPT !.events = SubSeq(w.events, 1, Len(w.events) - 1), !.active = @ \ {n}, !.done = @ \cup {n}]
  PROVE  Carrying(g, u, n) /\ n \in u.done
<1> DEFINE L == Len(w.events)
           T == [type : {"visit", "next"}, value : Value]
<1>1. Chain(g, w) /\ L >= 1 /\ w \in WalkType /\ DoneInv(g, w) BY DEF Resting, Chain
<1>2. w.events \in Seq(T) /\ L \in Nat BY <1>1 DEF WalkType
<1>3. /\ n \in Container /\ n \notin w.done /\ OpenInv(g, w, n) /\ n \in WithinIn(g, StateRoot) /\ n \in w.active
      /\ \A j \in 1 .. L - 1 : At(w, j) \in w.active /\ At(w, j) # n /\ At(w, j) \in Container
  BY <1>1, TopIsOpen
<1>4. LET s == SubSeq(w.events, 1, L - 1)
      IN s \in Seq(T) /\ Len(s) = L - 1 /\ \A j \in 1 .. L - 1 : s[j] = w.events[j]
  <2>1. \A j \in 1 .. L - 1 : w.events[j] \in T
    <3> HIDE DEF T
    <3>1. QED BY <1>1, <1>2
  <2> HIDE DEF T
  <2>2. QED BY <1>1, <1>2, <2>1, SubSeqProperties
<1>5. /\ u \in WalkType /\ u.events = SubSeq(w.events, 1, L - 1) /\ u.active = w.active \ {n}
      /\ u.done = w.done \cup {n} /\ u.index = w.index /\ u.clone = w.clone /\ u.bytes = w.bytes
  BY <1>1, <1>3, <1>4 DEF WalkType
<1>6. Len(u.events) = L - 1 /\ \A j \in 1 .. L - 1 : u.events[j] = w.events[j] /\ At(u, j) = At(w, j)
  BY <1>4, <1>5 DEF At
<1>7. DoneInv(g, u)
  <2>1. ASSUME NEW m \in u.done
        PROVE  /\ HeldIn(g, m) \subseteq {"digit"} \cup u.done /\ m \notin InsideIn(g, m)
               /\ m \in WithinIn(g, StateRoot) /\ u.clone[m] = g[m]
               /\ u.bytes[m] = 2 + Cardinality(LaidIn(g, u.bytes, m, Len(g[m])))
               /\ \A size \in Compacts(g) : size[m] = u.bytes[m]
    <3>1. CASE m = n BY <1>3, <1>5, <3>1, FullIsWhole
    <3>2. CASE m \in w.done BY <1>1, <1>5, <3>2 DEF DoneInv
    <3>3. QED BY <1>5, <2>1, <3>1, <3>2
  <2>2. QED BY <2>1 DEF DoneInv
<1>8. \A m \in w.active : m # n => OpenInv(g, u, m) /\ \A x : Entering(g, w, m, x) => Entering(g, u, m, x)
  <2>1. \A m : Taken(u, m) = Taken(w, m) BY <1>5 DEF Taken
  <2>2. QED BY <1>1, <1>5, <2>1 DEF Chain, OpenInv, Entering, Bytes
<1>9. Stack(g, u)
  <2>1. u.active = {At(u, j) : j \in 1 .. L - 1}
    <3>1. w.active = {At(w, j) : j \in 1 .. L} BY <1>1 DEF Chain, Stack
    <3>2. 1 .. L = (1 .. L - 1) \cup {L} BY <1>1, <1>2
    <3> HIDE DEF L
    <3>3. {At(w, j) : j \in (1 .. L - 1) \cup {L}} = {At(w, j) : j \in 1 .. L - 1} \cup {n} BY DEF L
    <3>4. {At(u, j) : j \in 1 .. L - 1} = {At(w, j) : j \in 1 .. L - 1} BY <1>6
    <3>5. n \notin {At(w, j) : j \in 1 .. L - 1} BY <1>3
    <3>6. QED BY <1>5, <3>1, <3>2, <3>3, <3>4, <3>5
  <2>2. \A j \in 1 .. L - 1 : u.events[j] = Terminal!Resume(At(u, j))
    <3>1. \A j \in 1 .. L : w.events[j] = Terminal!Resume(At(w, j)) BY <1>1 DEF Chain, Stack
    <3>2. QED BY <1>2, <1>6, <3>1
  <2>3. ASSUME NEW j \in 1 .. L - 1, NEW k \in 1 .. L - 1, j < k
        PROVE  At(u, k) \in InsideIn(g, At(u, j)) /\ At(u, j) # At(u, k)
    <3>1. j \in 1 .. L /\ k \in 1 .. L BY <1>2
    <3>2. At(w, k) \in InsideIn(g, At(w, j)) /\ At(w, j) # At(w, k) BY <1>1, <2>3, <3>1 DEF Chain, Stack
    <3>3. QED BY <1>6, <3>2
  <2>4. ASSUME NEW j \in 1 .. L - 2 PROVE Entering(g, u, At(u, j), At(u, j + 1))
    <3>1. j \in 1 .. L - 1 /\ j + 1 \in 1 .. L - 1 BY <1>2
    <3>2. Entering(g, w, At(w, j), At(w, j + 1)) BY <1>1, <3>1 DEF Chain, Stack
    <3>3. QED BY <1>3, <1>6, <1>8, <3>1, <3>2
  <2>5. ASSUME L - 1 >= 1 PROVE At(u, 1) = StateRoot
    <3>1. At(w, 1) = StateRoot BY <1>1 DEF Chain, Stack
    <3>2. 1 \in 1 .. L - 1 BY <1>2, <2>5
    <3>3. QED BY <1>6, <3>1, <3>2
  <2> DEFINE M == Len(u.events)
  <2>6. M = L - 1 /\ M - 1 = L - 2 BY <1>2, <1>6
  <2> HIDE DEF L
  <2>7. /\ u.active = {At(u, j) : j \in 1 .. M} /\ \A j \in 1 .. M : u.events[j] = Terminal!Resume(At(u, j))
        /\ \A j, k \in 1 .. M : j < k => At(u, k) \in InsideIn(g, At(u, j)) /\ At(u, j) # At(u, k)
        /\ \A j \in 1 .. M - 1 : Entering(g, u, At(u, j), At(u, j + 1))
        /\ M >= 1 => At(u, 1) = StateRoot
    BY <2>1, <2>2, <2>3, <2>4, <2>5, <2>6
  <2>8. QED BY <2>7 DEF Stack
<1>10. \A m \in Container : m \notin u.active \cup u.done => u.index[m] = 0 /\ u.clone[m] = <<>>
  BY <1>1, <1>5 DEF Chain
<1>11. Chain(g, u) BY <1>5, <1>7, <1>8, <1>9, <1>10 DEF Chain
<1>12. IF Len(u.events) = 0 THEN n = StateRoot ELSE Entering(g, u, At(u, Len(u.events)), n)
  <2>1. L = 1 => n = StateRoot BY <1>1 DEF Chain, Stack
  <2>2. ASSUME L > 1 PROVE Entering(g, u, At(u, L - 1), n)
    <3>1. L - 1 \in 1 .. L - 1 /\ L - 1 + 1 = L BY <1>2, <2>2
    <3>2. Entering(g, w, At(w, L - 1), At(w, L - 1 + 1)) BY <1>1, <3>1 DEF Chain, Stack
    <3>3. Entering(g, u, At(w, L - 1), n) BY <1>3, <1>8, <3>1, <3>2
    <3>4. At(u, L - 1) = At(w, L - 1) BY <1>6, <3>1
    <3>5. QED BY <3>3, <3>4
  <2> DEFINE M == Len(u.events)
  <2>3. L \in Nat /\ L >= 1 /\ M = L - 1 BY <1>1, <1>2, <1>6
  <2> HIDE DEF L, M
  <2>4. IF M = 0 THEN n = StateRoot ELSE Entering(g, u, At(u, M), n)
    <3>1. CASE L = 1 BY <2>1, <2>3, <3>1
    <3>2. CASE L > 1
      <4>1. M = L - 1 /\ M # 0 BY <2>3, <3>2
      <4>2. QED BY <2>2, <3>2, <4>1
    <3>3. QED BY <2>3, <3>1, <3>2
  <2>5. QED BY <2>4 DEF M
<1>13. n \in Value BY <1>3 DEF Value
<1>14. QED BY <1>5, <1>11, <1>12, <1>13 DEF Carrying

(***************************************************************************)
(* What is known of the walk at each point.                                *)
(***************************************************************************)
Visiting(c, v) == [c EXCEPT !.events = Append(@, Terminal!Visit(v))]
Judged(g, w) ==
  /\ w \in WalkType
  /\ w.at = "walking" => Resting(g, w) \/ \E c, v : Carrying(g, c, v) /\ w = Visiting(c, v)
  /\ w.at = "ok" => DoneInv(g, w) /\ StateRoot \in w.done /\ w.top = StateRoot
  /\ w.at = "not_json" => ~StrictIn(g)
  /\ w.at = "too_large" => Compacts(g) = {}

StateInv == cloning.at = "idle" \/ (given \in Values /\ Judged(given, cloning))

LEMMA AttachJudged ==
  ASSUME NEW g \in Values, NEW w, NEW v, Carrying(g, w, v), w.at = "walking", v \in {"digit"} \cup w.done,
         cloning.bytes = w.bytes, NEW more, more = Weighs(w, v)
  PROVE  Judged(g, Terminal!Attach(w, v, more))
<1> DEFINE L == Len(w.events)
           n == At(w, L)
           u == [w EXCEPT !.clone[n] = Append(@, v), !.bytes[n] = @ + more]
           over == [w EXCEPT !.clone[n] = Append(@, v), !.at = "too_large", !.events = <<>>]
           end == [w EXCEPT !.top = v, !.at = "ok"]
<1>1. Chain(g, w) /\ w \in WalkType /\ DoneInv(g, w) /\ L \in Nat /\ v \in Value BY DEF Carrying, Chain, WalkType
<1>2. w.events = <<>> <=> L = 0
  <2> DEFINE T == [type : {"visit", "next"}, value : Value]
  <2>1. w.events \in Seq(T) BY <1>1 DEF WalkType
  <2> HIDE DEF T
  <2>2. QED BY <2>1, EmptySeq
<1>3. CASE L = 0
  <2>1. v = StateRoot /\ v \in w.done BY <1>3, TerminalAssumption DEF Carrying
  <2>2. Terminal!Attach(w, v, more) = end BY <1>2, <1>3 DEF Terminal!Attach
  <2>3. /\ end \in WalkType /\ end.at = "ok" /\ end.top = v
        /\ end.done = w.done /\ end.clone = w.clone /\ end.bytes = w.bytes
    BY <1>1 DEF WalkType
  <2> HIDE DEF end
  <2>4. DoneInv(g, end) BY <1>1, <2>3 DEF DoneInv
  <2>5. QED BY <2>1, <2>2, <2>3, <2>4 DEF Judged
<1>4. CASE L >= 1
  <2>1. n \in Container /\ w.bytes[n] \in 0 .. MaxBytes /\ w.clone[n] \in Seq(Value) BY <1>1, <1>4, TopIsOpen
  <2>2. Terminal!TooMany(n, more) <=> more > MaxBytes - w.bytes[n] BY DEF Terminal!TooMany
  <2>3. Terminal!Attach(w, v, more) = IF Terminal!TooMany(n, more) THEN over ELSE u
    <3>1. w.events # <<>> BY <1>2, <1>4
    <3>2. [[w EXCEPT !.clone[n] = Append(@, v)] EXCEPT !.at = "too_large", !.events = <<>>] = over
      BY <1>1 DEF WalkType
    <3>3. [[w EXCEPT !.clone[n] = Append(@, v)] EXCEPT !.bytes[n] = @ + more] = u BY <1>1 DEF WalkType
    <3>4. QED BY <3>1, <3>2, <3>3 DEF Terminal!Attach, At
  <2>4. /\ more <= MaxBytes - w.bytes[n] => Resting(g, u)
        /\ more > MaxBytes - w.bytes[n] => Compacts(g) = {}
    <3>1. n = At(w, Len(w.events)) /\ Len(w.events) >= 1 BY <1>4
    <3>2. u = [w EXCEPT !.clone[n] = Append(@, v), !.bytes[n] = @ + more] OBVIOUS
    <3> HIDE DEF n, u
    <3>3. AttachGoesOn(g, w, v, n, more, u) BY <3>1, AttachStep
    <3>4. QED BY <3>2, <3>3 DEF AttachGoesOn
  <2>5. over \in WalkType /\ over.at = "too_large"
    <3>1. Append(w.clone[n], v) \in Seq(Value) BY <1>1, <2>1
    <3> DEFINE T == [type : {"visit", "next"}, value : Value]
    <3>2. <<>> \in Seq(T) BY EmptySeq
    <3>3. QED BY <1>1, <2>1, <3>1, <3>2 DEF WalkType
  <2>6. u.at = "walking" BY <1>1 DEF WalkType
  <2>7. CASE Terminal!TooMany(n, more)
    <3>1. Compacts(g) = {} BY <2>2, <2>4, <2>7
    <3> HIDE DEF over
    <3>2. QED BY <2>3, <2>5, <2>7, <3>1 DEF Judged
  <2>8. CASE ~Terminal!TooMany(n, more)
    <3>1. more <= MaxBytes - w.bytes[n]
      <4>1. more \in Nat /\ MaxBytes \in Nat BY <1>1, TerminalAssumption DEF WalkType, Leaf, Weighs
      <4>2. QED BY <2>1, <2>2, <2>8, <4>1
    <3>2. Resting(g, u) BY <2>4, <3>1
    <3> HIDE DEF u
    <3>3. QED BY <2>3, <2>6, <2>8, <3>2 DEF Judged, Resting, Chain
  <2>9. QED BY <2>7, <2>8
<1>5. QED BY <1>1, <1>3, <1>4

LEMMA FailJudged ==
  ASSUME NEW g, NEW w \in WalkType, NEW why \in {"not_json", "too_large"},
         why = "not_json" => ~StrictIn(g), why = "too_large" => Compacts(g) = {}
  PROVE  Judged(g, [w EXCEPT !.at = why, !.events = <<>>])
<1> DEFINE u == [w EXCEPT !.at = why, !.events = <<>>]
           T == [type : {"visit", "next"}, value : Value]
<1>1. <<>> \in Seq(T) BY EmptySeq
<1>2. u \in WalkType /\ u.at = why BY <1>1 DEF WalkType
<1> HIDE DEF u
<1>3. Judged(g, u) BY <1>2 DEF Judged
<1>4. QED BY <1>3 DEF u

\* Between two entries the walk enters the next or closes the container.
LEMMA RestingMoves ==
  ASSUME given \in Values, Resting(given, cloning), cloning.at = "walking",
         Terminal!Close \/ Terminal!Enter \/ Terminal!VisitLeaf \/ Terminal!VisitContainer
  PROVE  Judged(given, cloning')
<1> DEFINE L == Len(cloning.events)
           n == At(cloning, L)
           i == cloning.index[n] + 1
           sep == Terminal!Separator(n, i)
<1>1. Chain(given, cloning) /\ L >= 1 /\ cloning \in WalkType /\ L \in Nat BY DEF Resting, Chain, WalkType
<1>2. cloning.events[L] = Terminal!Resume(n) BY <1>1 DEF Chain, Stack
<1>3. Terminal!Event.type = "next" /\ Terminal!Event.value = n BY <1>2 DEF Terminal!Event, Terminal!Resume
<1>4. cloning.bytes[n] \in 0 .. MaxBytes /\ n \in Container /\ cloning.index[n] \in Nat BY <1>1, TopIsOpen
<1>5. CASE Terminal!Close
  <2> DEFINE u == [cloning EXCEPT !.events = SubSeq(cloning.events, 1, L - 1), !.active = @ \ {n}, !.done = @ \cup {n}]
  <2>1. cloning.index[n] = Len(given[n]) BY <1>3, <1>5 DEF Terminal!Close
  <2>2. [Terminal!Popped EXCEPT !.active = @ \ {n}, !.done = @ \cup {n}] = u
    BY <1>1 DEF Terminal!Popped, Terminal!Below, WalkType
  <2>3. cloning' = Terminal!Attach(u, n, cloning.bytes[n]) BY <1>3, <1>5, <2>2 DEF Terminal!Close
  <2>4. u.at = "walking" /\ u.bytes = cloning.bytes BY <1>1 DEF WalkType
  <2> HIDE DEF u
  <2>5. Carrying(given, u, n) /\ n \in u.done
    <3>1. u = [cloning EXCEPT !.events = SubSeq(cloning.events, 1, L - 1), !.active = @ \ {n}, !.done = @ \cup {n}]
      BY DEF u
    <3>2. QED BY <2>1, <3>1, CloseStep
  <2>6. n \notin Leaf BY <1>4, TerminalAssumption DEF Leaf
  <2>7. cloning.bytes[n] = Weighs(u, n) BY <2>4, <2>6 DEF Weighs
  <2>8. Judged(given, Terminal!Attach(u, n, cloning.bytes[n])) BY <2>4, <2>5, <2>7, AttachJudged
  <2>9. QED BY <2>3, <2>8
<1>6. CASE Terminal!Enter
  <2>1. /\ i <= Len(given[n])
        /\ IF given[n][i] = "missing" /\ n \notin Array THEN Terminal!Fail("not_json")
           ELSE IF Terminal!TooMany(n, sep) THEN Terminal!Fail("too_large")
           ELSE IF given[n][i] = "missing" THEN Terminal!Fail("not_json")
           ELSE cloning' = [cloning EXCEPT !.index[n] = i, !.bytes[n] = @ + sep,
                                           !.events = Append(@, Terminal!Visit(given[n][i]))]
    BY <1>3, <1>6 DEF Terminal!Enter
  <2>2. given[n][i] = "missing" => ~StrictIn(given) BY <2>1, NotJson
  <2>3. sep \in Nat /\ MaxBytes \in Nat BY <1>4, SeparatorIsNat, TerminalAssumption
  <2>4. CASE given[n][i] = "missing" /\ Terminal!Fail("not_json")
    BY <1>1, <2>2, <2>4, FailJudged DEF Terminal!Fail
  <2>5. CASE Terminal!TooMany(n, sep) /\ Terminal!Fail("too_large")
    <3>1. sep > MaxBytes - cloning.bytes[n] BY <2>5 DEF Terminal!TooMany
    <3>2. Compacts(given) = {} BY <2>1, <3>1, EnterStep
    <3>3. QED BY <1>1, <2>5, <3>2, FailJudged DEF Terminal!Fail
  <2>6. CASE /\ given[n][i] # "missing" /\ ~Terminal!TooMany(n, sep)
             /\ cloning' = [cloning EXCEPT !.index[n] = i, !.bytes[n] = @ + sep,
                                           !.events = Append(@, Terminal!Visit(given[n][i]))]
    <3> DEFINE u == [cloning EXCEPT !.index[n] = i, !.bytes[n] = @ + sep]
               v == given[n][i]
    <3>1. sep <= MaxBytes - cloning.bytes[n] BY <1>4, <2>3, <2>6 DEF Terminal!TooMany
    <3>2. cloning' = Visiting(u, v) BY <1>1, <2>6 DEF Visiting, WalkType
    <3>3. Carrying(given, u, v) BY <2>1, <2>6, <3>1, EnterStep
    <3>4. cloning'.at = "walking" BY <1>1, <2>6 DEF WalkType
    <3>5. cloning' \in WalkType
      <4> DEFINE T == [type : {"visit", "next"}, value : Value]
      <4>1. u \in WalkType /\ v \in Value BY <3>3 DEF Carrying, Chain
      <4>2. Terminal!Visit(v) \in T BY <4>1 DEF Terminal!Visit
      <4> HIDE DEF u, v
      <4>3. u.events \in Seq(T) BY <4>1 DEF WalkType
      <4> HIDE DEF T
      <4>4. Append(u.events, Terminal!Visit(v)) \in Seq(T) BY <4>2, <4>3
      <4>5. QED BY <3>2, <4>1, <4>4 DEF Visiting, WalkType, T
    <3> HIDE DEF u, v
    <3>6. QED BY <3>2, <3>3, <3>4, <3>5 DEF Judged
  <2>7. QED BY <2>1, <2>4, <2>5, <2>6
<1>7. QED BY <1>3, <1>5, <1>6 DEF Terminal!VisitLeaf, Terminal!VisitContainer

\* With an entry to take, the walk attaches it, opens it, or fails.
LEMMA VisitingMoves ==
  ASSUME given \in Values, NEW c, NEW v, Carrying(given, c, v), cloning = Visiting(c, v), cloning.at = "walking",
         cloning \in WalkType,
         Terminal!Close \/ Terminal!Enter \/ Terminal!VisitLeaf \/ Terminal!VisitContainer
  PROVE  Judged(given, cloning')
<1> DEFINE L == Len(c.events)
           T == [type : {"visit", "next"}, value : Value]
<1>1. c \in WalkType /\ v \in Value /\ c.events \in Seq(T) /\ L \in Nat /\ Terminal!Visit(v) \in T
  BY DEF Carrying, Chain, WalkType, Terminal!Visit
<1>2. /\ cloning.events = Append(c.events, Terminal!Visit(v)) /\ cloning.active = c.active /\ cloning.done = c.done
      /\ cloning.bytes = c.bytes /\ c.at = "walking"
  BY <1>1 DEF Visiting, WalkType
<1>3. /\ Len(cloning.events) = L + 1 /\ cloning.events[L + 1] = Terminal!Visit(v)
      /\ SubSeq(cloning.events, 1, L) = c.events
  <2> HIDE DEF T
  <2>1. Len(cloning.events) = L + 1 /\ cloning.events[L + 1] = Terminal!Visit(v) BY <1>1, <1>2
  <2>2. SubSeq(cloning.events, 1, L) = c.events
    <3>1. \A s \in Seq(T), t \in T : SubSeq(Append(s, t), 1, Len(s)) = s OBVIOUS
    <3>2. QED BY <1>1, <1>2, <3>1
  <2>3. QED BY <2>1, <2>2
<1>4. Terminal!Event = Terminal!Visit(v) BY <1>3 DEF Terminal!Event
<1>5. Terminal!Event.type = "visit" /\ Terminal!Event.value = v BY <1>4 DEF Terminal!Visit
<1>6. Terminal!Popped = c
  <2>1. Terminal!Below = c.events BY <1>1, <1>3 DEF Terminal!Below
  <2>2. QED BY <1>1, <2>1 DEF Terminal!Popped, Visiting, WalkType
<1>7. CASE Terminal!VisitLeaf
  <2>1. v \in Leaf BY <1>5, <1>7 DEF Terminal!VisitLeaf, Terminal!Leaf, Leaf
  <2>2. v # "missing" BY <2>1, TerminalAssumption DEF Carrying, Entering, Leaf
  <2>3. CASE v = "bad"
    <3>1. ~StrictIn(given) BY <2>3, NotJson
    <3>2. cloning' = [cloning EXCEPT !.at = "not_json", !.events = <<>>]
      BY <1>5, <1>7, <2>3 DEF Terminal!VisitLeaf, Terminal!Fail
    <3>3. QED BY <3>1, <3>2, FailJudged
  <2>4. CASE v = "digit"
    <3>1. cloning' = Terminal!Attach(c, v, 1) BY <1>5, <1>6, <1>7, <2>4 DEF Terminal!VisitLeaf
    <3>2. 1 = Weighs(c, v) BY <2>1 DEF Weighs
    <3>3. Judged(given, Terminal!Attach(c, v, 1)) BY <1>2, <2>4, <3>2, AttachJudged
    <3>4. QED BY <3>1, <3>3
  <2>5. QED BY <2>1, <2>2, <2>3, <2>4 DEF Leaf
<1>8. CASE Terminal!VisitContainer
  <2>1. v \in Container BY <1>5, <1>8 DEF Terminal!VisitContainer
  <2>2. v \notin Leaf BY <2>1, TerminalAssumption DEF Leaf
  <2>3. CASE v \in c.active
    <3>1. ~StrictIn(given) BY <2>3, NotJson
    <3>2. cloning' = [cloning EXCEPT !.at = "not_json", !.events = <<>>]
      BY <1>2, <1>5, <1>8, <2>3 DEF Terminal!VisitContainer, Terminal!Fail
    <3>3. QED BY <3>1, <3>2, FailJudged
  <2>4. CASE v \notin c.active /\ v \in c.done
    <3>1. cloning' = Terminal!Attach(c, v, c.bytes[v])
      BY <1>2, <1>5, <1>6, <1>8, <2>4 DEF Terminal!VisitContainer, Terminal!SharedBytes
    <3>2. c.bytes[v] = Weighs(c, v) BY <2>2 DEF Weighs
    <3>3. Judged(given, Terminal!Attach(c, v, c.bytes[v])) BY <1>2, <2>4, <3>2, AttachJudged
    <3>4. QED BY <3>1, <3>3
  <2>5. CASE v \notin c.active /\ v \notin c.done
    <3> DEFINE u == [c EXCEPT !.active = @ \cup {v}, !.bytes[v] = 2, !.events = Append(@, Terminal!Resume(v))]
    <3>1. cloning' = u
      BY <1>2, <1>5, <1>6, <1>8, <2>5 DEF Terminal!VisitContainer
    <3>2. u = [c EXCEPT !.active = @ \cup {v}, !.bytes[v] = 2, !.events = Append(@, Terminal!Resume(v))] OBVIOUS
    <3>3. u.at = "walking" BY <1>1, <1>2 DEF WalkType
    <3> HIDE DEF u
    <3>4. Resting(given, u) BY <2>1, <2>5, <3>2, OpenStep
    <3>5. QED BY <3>1, <3>3, <3>4 DEF Judged, Resting, Chain
  <2>6. QED BY <2>3, <2>4, <2>5
<1>9. QED BY <1>5, <1>7, <1>8 DEF Terminal!Close, Terminal!Enter

LEMMA StateBegins ==
  ASSUME Terminal!Begin
  PROVE  StateInv'
<1> DEFINE w == [Terminal!NotBegun EXCEPT !.at = "walking", !.index = [n \in Container |-> 0],
                   !.bytes = [n \in Container |-> 0], !.clone = [n \in Container |-> <<>>]]
           T == [type : {"visit", "next"}, value : Value]
<1>1. given' \in Values BY TerminalAssumption DEF Terminal!Begin, Values, Leaf
<1>2. w.events = <<>> /\ w.at = "walking" BY DEF Terminal!NotBegun
<1>3. cloning' = [w EXCEPT !.events = <<Terminal!Visit(StateRoot)>>]
  BY DEF Terminal!Begin, Terminal!NotBegun
<1>4. w = [Terminal!NotBegun EXCEPT !.at = "walking", !.index = [n \in Container |-> 0],
             !.bytes = [n \in Container |-> 0], !.clone = [n \in Container |-> <<>>]]
  OBVIOUS
<1> HIDE DEF w
<1>5. Carrying(given', w, StateRoot) BY <1>1, <1>4, BeginStep
<1>6. w \in WalkType BY <1>5 DEF Carrying, Chain
<1>7. Terminal!Visit(StateRoot) \in T BY TerminalAssumption DEF Terminal!Visit, Value
<1>8. cloning' = Visiting(w, StateRoot)
  <2>1. Append(<<>>, Terminal!Visit(StateRoot)) = <<Terminal!Visit(StateRoot)>> OBVIOUS
  <2>2. QED BY <1>2, <1>3, <1>6, <2>1 DEF Visiting, WalkType
<1>9. cloning' \in WalkType /\ cloning'.at = "walking"
  <2>1. <<Terminal!Visit(StateRoot)>> \in Seq(T)
    <3> HIDE DEF T
    <3>1. QED BY <1>7
  <2>2. QED BY <1>2, <1>3, <1>6, <2>1 DEF WalkType
<1>10. Judged(given', cloning') BY <1>5, <1>8, <1>9 DEF Judged
<1>11. QED BY <1>1, <1>10 DEF StateInv

LEMMA StateStep ==
  ASSUME StateInv, Terminal!Next \/ UNCHANGED terminalVars
  PROVE  StateInv'
<1>1. CASE UNCHANGED terminalVars BY <1>1 DEF terminalVars, StateInv
<1>2. CASE Terminal!Begin BY <1>2, StateBegins
<1>3. CASE Terminal!Walk
  <2>1. /\ cloning.at = "walking" /\ given' = given
        /\ Terminal!Close \/ Terminal!Enter \/ Terminal!VisitLeaf \/ Terminal!VisitContainer
    BY <1>3 DEF Terminal!Walk
  <2>2. given \in Values /\ Judged(given, cloning) BY <2>1 DEF StateInv
  <2>3. Judged(given, cloning')
    <3>1. CASE Resting(given, cloning) BY <2>1, <2>2, <3>1, RestingMoves
    <3>2. CASE \E c, v : Carrying(given, c, v) /\ cloning = Visiting(c, v)
      <4>1. PICK c, v : Carrying(given, c, v) /\ cloning = Visiting(c, v) BY <3>2
      <4>2. cloning \in WalkType BY <2>2 DEF Judged
      <4>3. QED BY <2>1, <2>2, <4>1, <4>2, VisitingMoves
    <3>3. QED BY <2>1, <2>2, <3>1, <3>2 DEF Judged
  <2>4. QED BY <2>1, <2>2, <2>3 DEF StateInv
<1>4. QED BY <1>1, <1>2, <1>3 DEF Terminal!Next

LEMMA StateFollows == StateInv => Terminal!StateIsJudged
<1> SUFFICES ASSUME StateInv PROVE Terminal!StateIsJudged OBVIOUS
<1>1. CASE cloning.at = "idle" BY <1>1 DEF Terminal!StateIsJudged
<1>2. CASE cloning.at # "idle"
  <2>1. given \in Values /\ Judged(given, cloning) /\ cloning \in WalkType BY <1>2 DEF StateInv, Judged
  <2>2. StateRoot \in Container BY TerminalAssumption
  <2>3. \A n \in Container : cloning.bytes[n] <= MaxBytes BY <2>1, TerminalAssumption DEF WalkType
  <2>4. ASSUME cloning.at = "ok"
        PROVE  /\ Terminal!Strict /\ Terminal!IsCompact(cloning.bytes) /\ cloning.top = StateRoot
               /\ \A n \in Terminal!Within(StateRoot) : cloning.clone[n] = given[n]
    <3>1. DoneInv(given, cloning) /\ StateRoot \in cloning.done /\ cloning.top = StateRoot BY <2>1, <2>4 DEF Judged
    <3>2. WithinIn(given, StateRoot) \subseteq cloning.done BY <2>1, <3>1, DoneIsWhole
    <3>3. cloning.done \cap {"bad", "missing"} = {} BY <2>1, TerminalAssumption DEF WalkType
    <3>4. StrictIn(given) BY <3>1, <3>2, <3>3 DEF StrictIn, DoneInv
    <3>5. \A n \in WithinIn(given, StateRoot) :
            cloning.clone[n] = given[n]
              /\ cloning.bytes[n] = 2 + Cardinality(LaidIn(given, cloning.bytes, n, Len(given[n])))
      BY <3>1, <3>2 DEF DoneInv
    <3>6. Terminal!Within(StateRoot) = WithinIn(given, StateRoot) /\ Terminal!Strict BY <3>4, GivenIsAsDefined
    <3>7. \A n : Terminal!Laid(cloning.bytes, n, Len(given[n])) = LaidIn(given, cloning.bytes, n, Len(given[n]))
      BY GivenIsAsDefined
    <3>8. Terminal!IsCompact(cloning.bytes) BY <3>5, <3>6, <3>7 DEF Terminal!IsCompact, Terminal!Cardinality, Cardinality
    <3>9. QED BY <3>1, <3>5, <3>6, <3>8
  <2>5. cloning.at = "not_json" => ~Terminal!Strict BY <2>1, GivenIsAsDefined DEF Judged
  <2>6. ASSUME cloning.at = "too_large", NEW size \in [Terminal!Within(StateRoot) -> 0 .. MaxBytes], Terminal!IsCompact(size)
        PROVE  FALSE
    <3>1. size \in [WithinIn(given, StateRoot) -> 0 .. MaxBytes] BY <2>6, GivenIsAsDefined
    <3>2. \A n \in WithinIn(given, StateRoot) : size[n] = 2 + Cardinality(LaidIn(given, size, n, Len(given[n])))
      <4>1. Terminal!Within(StateRoot) = WithinIn(given, StateRoot) BY GivenIsAsDefined
      <4>2. \A n : Terminal!Laid(size, n, Len(given[n])) = LaidIn(given, size, n, Len(given[n]))
        BY GivenIsAsDefined
      <4>3. \A S : Terminal!Cardinality(S) = Cardinality(S) BY DEF Terminal!Cardinality, Cardinality
      <4>4. \A n \in WithinIn(given, StateRoot) :
              size[n] = 2 + Terminal!Cardinality(Terminal!Laid(size, n, Len(given[n])))
        BY <2>6, <4>1 DEF Terminal!IsCompact
      <4>5. QED BY <4>2, <4>3, <4>4
    <3>3. size \in Compacts(given) BY <3>1, <3>2 DEF Compacts
    <3>4. QED BY <2>1, <2>6, <3>3 DEF Judged
  <2>7. QED BY <2>3, <2>4, <2>5, <2>6 DEF Terminal!StateIsJudged
<1>3. QED BY <1>1, <1>2

LEMMA StateInit == Terminal!Init => StateInv
BY DEF Terminal!Init, Terminal!NotBegun, StateInv

--------------------------------------------------------------------------------
(***************************************************************************)
(* The rules together.                                                     *)
(***************************************************************************)

\* StateIsJudged, of RulesAreExact: a state is accepted exactly if it is strict
\* JSON whose compact form fits, and the clone is the value (terminal-policy.ts).
THEOREM StateSafety == Spec => [](part = "terminal" => Terminal!StateIsJudged)
<1>1. Init => StateInv
  BY StateInit DEF Init
<1>2. StateInv /\ [Next]_partVars => StateInv'
  <2>1. [Next]_partVars => Terminal!Next \/ UNCHANGED terminalVars
    BY DEF Next, Only, partVars
  <2>2. QED BY <2>1, StateStep
<1>3. QED BY <1>1, <1>2, StateFollows, PTL DEF Spec

\* Every rule that is only computed is exact: the search for an occurrence, the
\* manifests and roots, the output past its cap, the state and the texts.
THEOREM RulesSafety == Spec => []RulesAreExact
<1>1. /\ part = "search" => Search!SearchIsExact
      /\ part = "policy" => Policy!PolicyIsOrderFree
      /\ part = "policy" => Policy!RootsOnlyNarrow
      /\ part = "capture" => Capture!CutsAreClean
      /\ part = "terminal" => Terminal!StateIsJudged
      => RulesAreExact
  BY TextsAreJudged DEF RulesAreExact
<1>2. QED
  BY <1>1, SearchSafety, PolicySafety, RootsSafety, CaptureSafety, StateSafety, PTL

================================================================================
