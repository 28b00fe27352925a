------------------------- MODULE ArtifactHome_proofs -------------------------
(***************************************************************************)
(* Theorems about ArtifactHome: type correctness, what sessions, snapshots *)
(* and the state on show may be, and that it implements ArtifactLog, for   *)
(* any number of loops, keys, blobs and calls.                             *)
(***************************************************************************)
EXTENDS ArtifactHome, TLAPS, WellFoundedInduction

USE DEF database

--------------------------------------------------------------------------------
(***************************************************************************)
(* Type correctness.                                                       *)
(***************************************************************************)

\* A handler's stage tells its kind.
LEMMA Kinds ==
  ASSUME NEW q \in Handler
  PROVE  /\ q.at \in {"prepareLoop", "prepareSession", "insert", "renew"} =>
              q \in PrepareHandler
         /\ q.at \in {"putWrite", "putRecheck", "putRegister"} => q \in PutHandler
         /\ q.at \in {"commitSession", "complete", "commitTx", "stamp"} =>
              q \in CommitHandler
         /\ q.at \in {"configRead", "configWrite"} => q \in ConfigHandler
         /\ q.at = "report" => q \in ReportHandler
PROOF
  BY DEF Handler, Idle, PrepareHandler, PutHandler, CommitHandler, ConfigHandler,
         ReportHandler

\* A verdict lets a commit proceed only for what the row still is.
LEMMA Proceeds ==
  ASSUME NEW s \in Session, NEW r \in LoopRow \cup View, now \in Nat,
         Verdict(s, r) = "proceed"
  PROVE  /\ s.receipt = None
         /\ now < s.expires
         /\ s.payload.config = r.config
         /\ s.payload.base = r.base
         /\ r.base < RevisionMax
PROOF
  <1>1. s.receipt = None
    BY DEF Verdict
  <1>2. ~(now >= s.expires)
    BY <1>1 DEF Verdict
  <1>3. s.payload.config = r.config
    BY <1>1, <1>2 DEF Verdict
  <1>4. s.payload.base = r.base
    BY <1>1, <1>2, <1>3 DEF Verdict
  <1>5. ~(r.base >= RevisionMax)
    BY <1>1, <1>2, <1>3, <1>4 DEF Verdict
  <1> QED
    BY <1>1, <1>2, <1>3, <1>4, <1>5, BoundsAssumption DEF Session, LoopRow, View

\* A verdict refuses a session for good only if it is pending and not for the row.
LEMMA Refuses ==
  ASSUME NEW s \in Session, NEW r \in LoopRow \cup View,
         Verdict(s, r) \in {"config_conflict", "manifest_conflict"}
  PROVE  /\ s.receipt = None
         /\ Verdict(s, r) = "config_conflict" => s.payload.config # r.config
         /\ Verdict(s, r) = "manifest_conflict" =>
              s.payload.config = r.config /\ s.payload.base # r.base
PROOF
  <1>1. s.receipt = None
    BY DEF Verdict
  <1>2. ~(now >= s.expires)
    BY <1>1 DEF Verdict
  <1>3. CASE s.payload.config # r.config
    BY <1>1, <1>2, <1>3 DEF Verdict
  <1>4. CASE s.payload.config = r.config /\ s.payload.base # r.base
    BY <1>1, <1>2, <1>4 DEF Verdict
  <1>5. CASE s.payload.config = r.config /\ s.payload.base = r.base
    BY <1>1, <1>2, <1>5 DEF Verdict
  <1> QED
    BY <1>1, <1>3, <1>4, <1>5

\* The writes of a row give a row.
LEMMA RowWrites ==
  ASSUME NEW r \in LoopRow
  PROVE  /\ Bump(r) \in LoopRow
         /\ \A d \in Dir \cup {None} : ConfigAdmits(r, d) => Configured(r, d) \in LoopRow
         /\ \A e \in Error, k \in Key \cup {None}, config \in Nat, base \in Nat :
              Failed(r, e, k, config, base) \in LoopRow
PROOF
  <1>1. r.config \in 0..RevisionMax /\ r.revision \in Nat
    BY DEF LoopRow
  <1>2. r.revision + 1 \in Nat
    BY <1>1
  <1>3. Bump(r) \in LoopRow
    BY <1>2 DEF LoopRow, Bump
  <1>4. ASSUME NEW d \in Dir \cup {None}, ConfigAdmits(r, d)
        PROVE  Configured(r, d) \in LoopRow
    <2>1. r.config + 1 \in 0..RevisionMax
      BY <1>1, <1>4, BoundsAssumption DEF ConfigAdmits
    <2>2. r.config = Bump(r).config
      BY DEF Bump, LoopRow
    <2> QED
      BY <2>1, <1>3 DEF Configured, LoopRow
  <1>5. ASSUME NEW e \in Error, NEW k \in Key \cup {None}, NEW config \in Nat, NEW base \in Nat
        PROVE  Failed(r, e, k, config, base) \in LoopRow
    <2>1. [error |-> e, by |-> k, config |-> config, base |-> base] \in Failure
      BY DEF Failure
    <2> QED
      BY <2>1, <1>3 DEF Failed, LoopRow
  <1> QED
    BY <1>3, <1>4, <1>5

\* What a handler reads of a row is a view of it.
LEMMA ReadIsView ==
  ASSUME TypeOK, NEW l \in Loop
  PROVE  loop[l] \in LoopRow /\ Read(l) \in View
PROOF
  BY DEF TypeOK, Read, View, LoopRow

\* The session that a renewal, an upload or a commit works on is there.
SessionsHeld ==
  \A c \in Call :
    call[c].at \in {"renew", "putWrite", "putRecheck", "putRegister",
                   "commitSession", "complete", "commitTx", "stamp"} =>
      session[call[c].key] # None

\* A configuration change that has not lost its guard is one the row admits.
Planned ==
  \A c \in Call :
    LET q == call[c]
    IN At(c, "configWrite") /\ loop[q.loop].revision = q.revision =>
         ConfigAdmits(loop[q.loop], q.dir)

\* prepare keeps the types.
LEMMA TypePrepare ==
  ASSUME TypeOK, SessionsHeld, NEW c \in Call,
         \/ \E k \in Key : \E p \in Requests(k) : PrepareStart(c, k, p)
         \/ PrepareAgain(c) \/ PrepareSession(c) \/ PrepareInsert(c) \/ PrepareRenew(c)
  PROVE  TypeOK'
PROOF
  <1> USE DEF TypeOK
  <1> DEFINE q == call[c]
  <1>i. Idle \in Handler
    BY DEF Handler
  <1>q. q \in Handler
    OBVIOUS
  <1>n. now \in Nat /\ TTL \in Nat
    BY BoundsAssumption
  <1>1. ASSUME NEW k \in Key, NEW p \in Requests(k), PrepareStart(c, k, p)
        PROVE  TypeOK'
    <2>1. p \in Payload
      BY DEF Requests, Payload, Session, LoopRow
    <2>2. loop[p.loop] \in LoopRow
      BY <2>1 DEF Payload
    <2> DEFINE h == [at |-> "prepareSession", key |-> k, payload |-> p,
                     revision |-> loop[p.loop].revision, seen |-> 0, time |-> 0,
                     retried |-> FALSE]
    <2>3. h \in PrepareHandler
      BY <2>1, <2>2 DEF PrepareHandler, LoopRow
    <2>4. call' = [call EXCEPT ![c] = h]
      BY <1>1 DEF PrepareStart
    <2>5. call' \in [Call -> Handler]
      BY <2>3, <2>4 DEF Handler
    <2> QED
      BY <1>1, <2>5 DEF PrepareStart
  <1>2. CASE PrepareAgain(c)
    <2>1. q \in PrepareHandler
      BY <1>2, <1>q, Kinds DEF PrepareAgain, At
    <2>2. loop[q.payload.loop].revision \in Nat
      BY <2>1 DEF PrepareHandler, Payload, LoopRow
    <2>3. [q EXCEPT !.at = "prepareSession", !.revision = loop[q.payload.loop].revision]
            \in PrepareHandler
      BY <2>1, <2>2 DEF PrepareHandler
    <2>4. call' \in [Call -> Handler]
      BY <1>2, <1>i, <2>3 DEF PrepareAgain, Finish, Handler
    <2> QED
      BY <1>2, <2>4 DEF PrepareAgain
  <1>3. CASE PrepareSession(c)
    <2>1. q \in PrepareHandler
      BY <1>3, <1>q, Kinds DEF PrepareSession, At
    <2>2. [q EXCEPT !.at = "insert", !.time = now] \in PrepareHandler
      BY <1>n, <2>1 DEF PrepareHandler
    <2>3. ASSUME session[q.key] # None
          PROVE  [q EXCEPT !.at = "renew", !.time = now, !.seen = session[q.key].expires]
                   \in PrepareHandler
      <3>1. session[q.key].expires \in Nat
        BY <2>1, <2>3 DEF PrepareHandler, Session
      <3> QED
        BY <1>n, <2>1, <3>1 DEF PrepareHandler
    <2>4. call' \in [Call -> Handler]
      BY <1>3, <1>i, <2>2, <2>3 DEF PrepareSession, Finish, Handler
    <2> QED
      BY <1>3, <2>4 DEF PrepareSession
  <1>4. CASE PrepareInsert(c)
    <2>1. q \in PrepareHandler
      BY <1>4, <1>q, Kinds DEF PrepareInsert, At
    <2>2. ASSUME session[q.key] # None
          PROVE  [q EXCEPT !.at = "renew", !.seen = session[q.key].expires] \in PrepareHandler
      <3>1. session[q.key].expires \in Nat
        BY <2>1, <2>2 DEF PrepareHandler, Session
      <3> QED
        BY <2>1, <3>1 DEF PrepareHandler
    <2>3. [q EXCEPT !.at = "prepareLoop", !.retried = TRUE] \in PrepareHandler
      BY <2>1 DEF PrepareHandler
    <2>4. call' \in [Call -> Handler]
      BY <1>4, <1>i, <2>2, <2>3 DEF PrepareInsert, Finish, Handler
    <2>5. q.time + TTL \in Nat
      BY <1>n, <2>1 DEF PrepareHandler
    <2>6. [payload |-> q.payload, expires |-> q.time + TTL, receipt |-> None] \in Session
      BY <2>1, <2>5 DEF PrepareHandler, Session
    <2>7. session' \in [Key -> Session \cup {None}]
      BY <1>4, <2>6 DEF PrepareInsert
    <2> QED
      BY <1>4, <2>4, <2>7 DEF PrepareInsert
  <1>5. CASE PrepareRenew(c)
    <2>1. q \in PrepareHandler
      BY <1>5, <1>q, Kinds DEF PrepareRenew, At
    <2>2. q.time + TTL \in Nat
      BY <1>n, <2>1 DEF PrepareHandler
    <2>s. session[q.key] \in Session
      BY <1>5, <2>1 DEF PrepareRenew, At, SessionsHeld, PrepareHandler
    <2>3. session' \in [Key -> Session \cup {None}]
      BY <1>5, <2>s, <2>2 DEF PrepareRenew, PrepareHandler, Session
    <2>4. call' \in [Call -> Handler]
      BY <1>5, <1>i DEF PrepareRenew, Finish
    <2> QED
      BY <1>5, <2>3, <2>4 DEF PrepareRenew
  <1> QED
    BY <1>1, <1>2, <1>3, <1>4, <1>5

\* put keeps the types.
LEMMA TypePut ==
  ASSUME TypeOK, NEW c \in Call,
         \/ \E k \in Key, h \in Hash : PutStart(c, k, h)
         \/ PutWrite(c) \/ PutRecheck(c) \/ PutRegister(c)
  PROVE  TypeOK'
PROOF
  <1> USE DEF TypeOK
  <1> DEFINE q == call[c]
  <1>i. Idle \in Handler
    BY DEF Handler
  <1>g. ASSUME q \in PutHandler, NEW stage \in {"putRecheck", "putRegister"}
        PROVE  [q EXCEPT !.at = stage] \in Handler
    BY <1>g DEF PutHandler, Handler
  <1>1. ASSUME NEW k \in Key, NEW h \in Hash, PutStart(c, k, h)
        PROVE  TypeOK'
    <2>1. [at |-> "putWrite", key |-> k, hash |-> h] \in Handler
      BY DEF PutHandler, Handler
    <2> QED
      BY <1>1, <2>1 DEF PutStart
  <1>2. CASE PutWrite(c)
    <2>1. q \in PutHandler
      BY <1>2, Kinds DEF PutWrite, At
    <2>2. call' \in [Call -> Handler]
      BY <1>2, <1>i, <1>g, <2>1 DEF PutWrite, Goto, Finish
    <2>3. published' \subseteq Hash
      BY <1>2, <2>1 DEF PutWrite, PutHandler
    <2> QED
      BY <1>2, <2>2, <2>3 DEF PutWrite
  <1>3. CASE PutRecheck(c)
    <2>1. q \in PutHandler
      BY <1>3, Kinds DEF PutRecheck, At
    <2>2. call' \in [Call -> Handler]
      BY <1>3, <1>i, <1>g, <2>1 DEF PutRecheck, Goto, Finish
    <2> QED
      BY <1>3, <2>2 DEF PutRecheck
  <1>4. CASE PutRegister(c)
    <2>1. q \in PutHandler
      BY <1>4, Kinds DEF PutRegister, At
    <2>2. verified' \subseteq Hash
      BY <1>4, <2>1 DEF PutRegister, PutHandler
    <2> QED
      BY <1>4, <1>i, <2>2 DEF PutRegister, Finish
  <1> QED
    BY <1>1, <1>2, <1>3, <1>4

\* The transaction's writes keep the types.
LEMMA TypePublish ==
  ASSUME TypeOK, NEW k \in Key, session[k] # None, Publish(k),
         loop[session[k].payload.loop].base < RevisionMax
  PROVE  /\ loop' \in [Loop -> LoopRow]
         /\ manifests' \in Seq(Manifest)
         /\ session' \in [Key -> Session \cup {None}]
PROOF
  <1> USE DEF TypeOK
  <1> DEFINE p  == session[k].payload
             r  == loop[p.loop]
             id == Len(manifests) + 1
  <1>1. session[k] \in Session /\ p \in Payload
    BY DEF Session
  <1>2. r \in LoopRow /\ Bump(r) \in LoopRow
    BY <1>1, RowWrites DEF Payload
  <1>b. RevisionMax \in Nat /\ r.base \in 0..RevisionMax /\ r.base < RevisionMax
    BY <1>2, BoundsAssumption DEF LoopRow
  <1>3. r.base + 1 \in 0..RevisionMax /\ r.base + 1 \in Nat
    BY SMTT(30), <1>b
  <1>4. id \in Nat
    OBVIOUS
  <1>5. [Bump(r) EXCEPT !.base = r.base + 1, !.head = id, !.succeeded = TRUE,
                        !.failure = None] \in LoopRow
    BY <1>2, <1>3, <1>4 DEF LoopRow
  <1>6. loop' \in [Loop -> LoopRow]
    BY <1>1, <1>5 DEF Publish, Payload
  <1>7. [loop |-> p.loop, base |-> r.base + 1, config |-> p.config,
         content |-> p.content, session |-> k] \in Manifest
    BY <1>1, <1>3 DEF Manifest, Payload
  <1>8. manifests' \in Seq(Manifest)
    BY <1>7 DEF Publish
  <1>9. [session[k] EXCEPT !.receipt = [id |-> id, base |-> r.base + 1]] \in Session
    BY <1>1, <1>3, <1>4 DEF Session, Receipt
  <1> QED
    BY <1>6, <1>8, <1>9 DEF Publish

\* commit keeps the types.
LEMMA TypeCommit ==
  ASSUME TypeOK, SessionsHeld, NEW c \in Call,
         \/ \E k \in Key : CommitStart(c, k)
         \/ CommitSession(c) \/ CommitComplete(c) \/ CommitTx(c) \/ CommitStamp(c)
  PROVE  TypeOK'
PROOF
  <1> USE DEF TypeOK
  <1> DEFINE q == call[c]
             s == session[q.key]
  <1>i. Idle \in Handler
    BY DEF Handler
  <1>g. ASSUME q \in CommitHandler, q.at # "stamp", NEW stage \in {"complete", "commitTx"}
        PROVE  [q EXCEPT !.at = stage] \in Handler
    BY <1>g DEF CommitHandler, Handler
  <1>e. ASSUME q \in CommitHandler, NEW e \in Error
        PROVE  [q EXCEPT !.at = "stamp", !.error = e] \in Handler
    BY <1>e DEF CommitHandler, Handler
  <1>1. ASSUME NEW k \in Key, CommitStart(c, k)
        PROVE  TypeOK'
    <2>1. Read(session[k].payload.loop) \in View
      BY <1>1, ReadIsView DEF CommitStart, Session, Payload
    <2>2. [at |-> "commitSession", key |-> k, row |-> Read(session[k].payload.loop),
           error |-> None] \in Handler
      BY <2>1 DEF CommitHandler, Handler
    <2> QED
      BY <1>1, <2>2 DEF CommitStart
  <1>2. CASE CommitSession(c)
    <2>1. q \in CommitHandler /\ q.at # "stamp"
      BY <1>2, Kinds DEF CommitSession, At
    <2>2. q.key \in Key
      BY <2>1 DEF CommitHandler
    <2>3. refused' \subseteq Key
      BY <1>2, <2>2 DEF CommitSession, Learns
    <2>4. call' \in [Call -> Handler]
      <3> DEFINE verdict == Verdict(s, q.row)
      <3>1. CASE verdict = "proceed"
        BY <1>2, <1>g, <2>1, <3>1 DEF CommitSession, Goto
      <3>2. CASE verdict = "manifest_conflict"
        BY <1>2, <1>e, <2>1, <3>2 DEF CommitSession, Error
      <3>3. CASE verdict \notin {"proceed", "manifest_conflict"}
        BY <1>2, <1>i, <3>3 DEF CommitSession, Finish
      <3> QED
        BY <3>1, <3>2, <3>3
    <2> QED
      BY <1>2, <2>3, <2>4 DEF CommitSession
  <1>3. CASE CommitComplete(c)
    <2>1. q \in CommitHandler /\ q.at # "stamp"
      BY <1>3, Kinds DEF CommitComplete, At
    <2>2. call' \in [Call -> Handler]
      BY <1>3, <1>g, <1>e, <2>1 DEF CommitComplete, Goto, Error
    <2> QED
      BY <1>3, <2>2 DEF CommitComplete
  <1>4. CASE CommitTx(c)
    <2>1. q \in CommitHandler
      BY <1>4, Kinds DEF CommitTx, At
    <2>2. q.key \in Key /\ s \in Session
      BY <1>4, <2>1 DEF CommitTx, At, SessionsHeld, CommitHandler
    <2>3. refused' \subseteq Key
      BY <1>4, <2>2 DEF CommitTx, Learns
    <2>4. call' \in [Call -> Handler]
      <3>1. CASE call' = [call EXCEPT ![c].at = "stamp", ![c].error = "storage_error"]
        BY <1>e, <2>1, <3>1 DEF Error
      <3>2. CASE call' = [call EXCEPT ![c].at = "stamp", ![c].error = "manifest_conflict"]
        BY <1>e, <2>1, <3>2 DEF Error
      <3>3. CASE Finish(c)
        BY <1>i, <3>3 DEF Finish
      <3> QED
        BY <1>4, <3>1, <3>2, <3>3 DEF CommitTx
    <2>5. /\ loop' \in [Loop -> LoopRow]
          /\ manifests' \in Seq(Manifest)
          /\ session' \in [Key -> Session \cup {None}]
      <3>1. CASE Verdict(s, loop[s.payload.loop]) = "proceed" /\ Publish(q.key)
        <4>1. loop[s.payload.loop] \in LoopRow
          BY <2>2 DEF Session, Payload
        <4>2. loop[s.payload.loop].base < RevisionMax
          BY <2>2, <3>1, <4>1, Proceeds
        <4>3. s # None
          BY <1>4 DEF CommitTx, At, SessionsHeld
        <4> QED
          BY <2>2, <3>1, <4>2, <4>3, TypePublish
      <3>2. CASE UNCHANGED <<loop, session, manifests>>
        BY SMTT(30), <3>2
      <3> QED
        BY <1>4, <3>1, <3>2 DEF CommitTx, LiveVerdict
    <2> QED
      BY <1>4, <2>3, <2>4, <2>5 DEF CommitTx
  <1>5. CASE CommitStamp(c)
    <2>1. q \in CommitHandler
      BY SMTT(30), <1>5, Kinds DEF CommitStamp, At
    <2>2. q.key \in Key /\ s \in Session
      BY SMTT(30), <1>5, <2>1 DEF CommitStamp, At, SessionsHeld, CommitHandler
    <2>3. q.error \in Error
      BY <1>5, <2>1 DEF CommitStamp, At, CommitHandler
    <2>4. s.payload \in Payload /\ loop[s.payload.loop] \in LoopRow
      BY <2>2 DEF Session, Payload
    <2>5. Failed(loop[s.payload.loop], q.error, q.key, s.payload.config, s.payload.base)
            \in LoopRow
      BY <2>2, <2>3, <2>4, RowWrites DEF Payload
    <2>6. loop' \in [Loop -> LoopRow]
      BY <1>5, <2>5 DEF CommitStamp
    <2> QED
      BY SMTT(30), <1>5, <1>i, <2>6 DEF CommitStamp, Finish
  <1> QED
    BY <1>1, <1>2, <1>3, <1>4, <1>5

\* Configuration changes and reports keep the types.
LEMMA TypeConfig ==
  ASSUME TypeOK, NEW c \in Call,
         \/ \E l \in Loop, d \in Dir \cup {None} : ConfigStart(c, l, d)
         \/ ConfigAgain(c) \/ ConfigWrite(c)
         \/ \E l \in Loop : ReportStart(c, l)
         \/ ReportWrite(c),
         Planned
  PROVE  TypeOK'
PROOF
  <1> USE DEF TypeOK
  <1> DEFINE q == call[c]
  <1>i. Idle \in Handler
    BY DEF Handler
  <1>1. ASSUME NEW l \in Loop, NEW d \in Dir \cup {None}, ConfigStart(c, l, d)
        PROVE  TypeOK'
    <2>1. [at |-> "configWrite", loop |-> l, dir |-> d, revision |-> loop[l].revision,
           retried |-> FALSE] \in Handler
      BY DEF ConfigHandler, Handler, LoopRow
    <2> QED
      BY <1>1, <2>1 DEF ConfigStart
  <1>2. CASE ConfigAgain(c)
    <2>1. q \in ConfigHandler
      BY <1>2, Kinds DEF ConfigAgain, At
    <2>2. loop[q.loop].revision \in Nat
      BY <2>1 DEF ConfigHandler, LoopRow
    <2>3. [q EXCEPT !.at = "configWrite", !.revision = loop[q.loop].revision] \in Handler
      BY <2>1, <2>2 DEF ConfigHandler, Handler
    <2> QED
      BY <1>2, <1>i, <2>3 DEF ConfigAgain, Finish
  <1>3. CASE ConfigWrite(c)
    <2>1. q \in ConfigHandler
      BY <1>3, Kinds DEF ConfigWrite, At
    <2>2. [q EXCEPT !.at = "configRead", !.retried = TRUE] \in Handler
      BY <2>1 DEF ConfigHandler, Handler
    <2>3. call' \in [Call -> Handler]
      BY <1>3, <1>i, <2>2 DEF ConfigWrite, Finish
    <2>4. q.loop \in Loop /\ q.dir \in Dir \cup {None} /\ loop[q.loop] \in LoopRow
      BY <2>1 DEF ConfigHandler
    <2>5. loop[q.loop].revision = q.revision => Configured(loop[q.loop], q.dir) \in LoopRow
      BY <1>3, <2>4, RowWrites DEF Planned, ConfigWrite, At
    <2>6. loop' \in [Loop -> LoopRow]
      BY <1>3, <2>4, <2>5 DEF ConfigWrite
    <2> QED
      BY <1>3, <2>3, <2>6 DEF ConfigWrite
  <1>4. ASSUME NEW l \in Loop, ReportStart(c, l)
        PROVE  TypeOK'
    <2>1. [at |-> "report", loop |-> l, row |-> Read(l)] \in Handler
      BY ReadIsView DEF ReportHandler, Handler
    <2> QED
      BY <1>4, <2>1 DEF ReportStart
  <1>5. CASE ReportWrite(c)
    <2>1. q \in ReportHandler
      BY <1>5, Kinds DEF ReportWrite, At
    <2>2. q.loop \in Loop /\ loop[q.loop] \in LoopRow /\ q.row.config \in Nat /\ q.row.base \in Nat
      BY <2>1, BoundsAssumption DEF ReportHandler, View
    <2>3. Failed(loop[q.loop], "client", None, q.row.config, q.row.base) \in LoopRow
      BY <2>2, RowWrites DEF Error
    <2> QED
      BY <1>5, <1>i, <2>2, <2>3 DEF ReportWrite, Finish
  <1> QED
    BY <1>1, <1>2, <1>3, <1>4, <1>5

--------------------------------------------------------------------------------
(***************************************************************************)
(* What a handler may rely on, however long it waits.  Rows only move      *)
(* forward, and a row that moved has a new revision; so what was read of a *)
(* row bounds it from below, and is the row itself while the revision is   *)
(* the same.                                                               *)
(***************************************************************************)

\* A payload was negotiated for the row or for one before it; the generation of
\* a payload that is current has a directory.
Negotiated(p) ==
  /\ p.config <= loop[p.loop].config
  /\ p.base <= loop[p.loop].base
  /\ p.config = loop[p.loop].config => loop[p.loop].dir # None

\* The view r of loop l is the row, or one before it.
Basis(r, l) ==
  /\ r.revision <= loop[l].revision
  /\ r.config <= loop[l].config
  /\ r.base <= loop[l].base
  /\ r.revision = loop[l].revision => r.config = loop[l].config /\ r.base = loop[l].base

\* A request that was judged is for the row, until the row moves.
Drafted(q) ==
  LET r == loop[q.payload.loop]
  IN /\ q.revision <= r.revision
     /\ q.revision = r.revision =>
          q.payload.config = r.config /\ q.payload.base = r.base

PrepareSound(q) ==
  q.at \in {"prepareLoop", "prepareSession", "insert", "renew"} =>
    /\ Negotiated(q.payload)
    /\ q.at = "renew" => session[q.key] # None /\ q.seen <= q.time
    /\ q.at \in {"prepareSession", "insert"} => Drafted(q)

PutSound(q) ==
  q.at \in {"putWrite", "putRecheck", "putRegister"} => session[q.key] # None

CommitSound(q) ==
  q.at \in {"commitSession", "complete", "commitTx", "stamp"} =>
    LET s == session[q.key]
        p == s.payload
        unmoved == q.row.revision = loop[p.loop].revision
    IN /\ s # None
       /\ Basis(q.row, p.loop)
       /\ p.config <= q.row.config
       /\ p.base <= q.row.base
       /\ q.at \in {"complete", "commitTx"} =>
            p.config = q.row.config /\ p.base = q.row.base
       /\ q.at = "commitTx" => \A x \in p.content : x.honest /\ x.hash \in verified
       /\ q.at # "commitSession" /\ unmoved => s.receipt = None
       /\ q.at = "stamp" /\ unmoved =>
            /\ p.config = q.row.config
            /\ (q.error = "manifest_conflict") = (p.base < q.row.base)

ConfigSound(q) ==
  q.at = "configWrite" =>
    /\ q.revision <= loop[q.loop].revision
    /\ q.revision = loop[q.loop].revision => ConfigAdmits(loop[q.loop], q.dir)

ReportSound(q) == q.at = "report" => Basis(q.row, q.loop)

Sound(q) ==
  PrepareSound(q) /\ PutSound(q) /\ CommitSound(q) /\ ConfigSound(q) /\ ReportSound(q)

AllSound == \A c \in Call : Sound(call[c])

\* Sessions were negotiated, and a refused one can no longer be published.
SessionsSound ==
  /\ \A k \in Key : session[k] # None => Negotiated(session[k].payload)
  /\ \A k \in refused :
       LET s == session[k]
       IN /\ s # None
          /\ s.receipt = None
          /\ \/ s.payload.config < loop[s.payload.loop].config
             \/ s.payload.base < loop[s.payload.loop].base

\* Manifests belong to the receipts of their sessions and are verified.
ManifestsSound ==
  /\ \A m \in DOMAIN manifests :
       /\ session[manifests[m].session] # None
       /\ session[manifests[m].session].receipt = [id |-> m, base |-> manifests[m].base]
  /\ SnapshotsAreVerified

\* The state on show.
ShownSound ==
  /\ \A l \in Loop :
       loop[l].succeeded => /\ loop[l].dir # None
                            /\ loop[l].head \in DOMAIN manifests
                            /\ manifests[loop[l].head].config = loop[l].config
  /\ \A l \in Loop :
       LET a == loop[l].failure
       IN a # None =>
            /\ a.config = loop[l].config
            /\ a.by # None => session[a.by] # None /\ session[a.by].receipt = None
            /\ (a.error = "manifest_conflict") = (a.base < loop[l].base)
            /\ a.by # None => session[a.by].payload.loop = l

IInv == TypeOK /\ AllSound /\ SessionsSound /\ ManifestsSound /\ ShownSound

\* What sound handlers hold is what type correctness needs.
LEMMA SoundHolds ==
  ASSUME AllSound
  PROVE  SessionsHeld /\ Planned
PROOF
  BY DEF AllSound, Sound, PrepareSound, PutSound, CommitSound, ConfigSound,
         SessionsHeld, Planned, At

\* A row stays or moves forward.
Later(r, n) ==
  /\ n.revision > r.revision
  /\ n.config >= r.config
  /\ n.base >= r.base
  /\ n.config = r.config => n.dir = r.dir

RowForward(l) == loop'[l] = loop[l] \/ Later(loop[l], loop'[l])

\* A session stays, and a receipt comes with a new revision of the loop.
SessionForward(k) ==
  session[k] # None =>
    LET l == session[k].payload.loop
    IN /\ session'[k] # None
       /\ session'[k].payload = session[k].payload
       /\ \/ session'[k].receipt = session[k].receipt
          \/ session[k].receipt = None /\ loop'[l].revision > loop[l].revision

Forward ==
  /\ \A l \in Loop : RowForward(l)
  /\ \A k \in Key : SessionForward(k)
  /\ verified \subseteq verified'

\* A payload stays negotiated for the row or for one before it.
LEMMA NegotiatedForward ==
  ASSUME TypeOK, TypeOK', NEW p \in Payload, RowForward(p.loop), Negotiated(p)
  PROVE  Negotiated(p)'
PROOF
  <1>1. p.loop \in Loop /\ p.config \in Nat /\ p.base \in Nat
    BY DEF Payload
  <1>2. loop[p.loop] \in LoopRow /\ loop'[p.loop] \in LoopRow
    BY <1>1 DEF TypeOK
  <1> QED
    BY <1>1, <1>2, BoundsAssumption DEF Negotiated, RowForward, Later, LoopRow

\* A view of a row still is one of it or of one before it, and it is of the row
\* itself only if the row has not moved.
LEMMA BasisForward ==
  ASSUME TypeOK, TypeOK', NEW r \in View, NEW l \in Loop, RowForward(l), Basis(r, l)
  PROVE  /\ Basis(r, l)'
         /\ (r.revision = loop[l].revision)' => loop'[l] = loop[l]
PROOF
  <1>1. loop[l] \in LoopRow /\ loop'[l] \in LoopRow
    BY DEF TypeOK
  <1> QED
    BY <1>1, BoundsAssumption DEF Basis, RowForward, Later, LoopRow, View

\* A handler that does nothing stays sound.
LEMMA SoundForward ==
  ASSUME TypeOK, TypeOK', Forward, NEW q \in Handler, Sound(q)
  PROVE  Sound(q)'
PROOF
  <1>1. PrepareSound(q)'
    <2>1. CASE q.at \in {"prepareLoop", "prepareSession", "insert", "renew"}
      <3>1. q \in PrepareHandler
        BY <2>1, Kinds
      <3>2. q.payload \in Payload /\ q.payload.loop \in Loop /\ q.key \in Key
        BY <3>1 DEF PrepareHandler, Payload
      <3>3. Negotiated(q.payload)'
        BY <2>1, <3>2, NegotiatedForward DEF Sound, PrepareSound, Forward
      <3>4. ASSUME q.at \in {"prepareSession", "insert"}
            PROVE  Drafted(q)'
        <4>1. Drafted(q) /\ RowForward(q.payload.loop)
          BY <2>1, <3>2, <3>4 DEF Sound, PrepareSound, Forward
        <4>2. q.revision \in Nat
          BY <3>1 DEF PrepareHandler
        <4>3. loop[q.payload.loop] \in LoopRow /\ loop'[q.payload.loop] \in LoopRow
          BY <3>2 DEF TypeOK
        <4> QED
          BY <4>1, <4>2, <4>3 DEF Drafted, RowForward, Later, LoopRow
      <3> QED
        BY <2>1, <3>2, <3>3, <3>4 DEF Sound, PrepareSound, Forward, SessionForward
    <2> QED
      BY <2>1 DEF PrepareSound
  <1>2. PutSound(q)'
    <2>1. CASE q.at \in {"putWrite", "putRecheck", "putRegister"}
      <3>1. q.key \in Key
        BY <2>1, Kinds DEF PutHandler
      <3> QED
        BY <2>1, <3>1 DEF Sound, PutSound, Forward, SessionForward
    <2> QED
      BY <2>1 DEF PutSound
  <1>3. CommitSound(q)'
    <2>1. CASE q.at \in {"commitSession", "complete", "commitTx", "stamp"}
      <3> DEFINE s == session[q.key]
                 p == s.payload
      <3>1. q.key \in Key /\ q.row \in View
        BY <2>1, Kinds DEF CommitHandler
      <3>2. s # None /\ s \in Session /\ p \in Payload /\ p.loop \in Loop
        BY <2>1, <3>1 DEF Sound, CommitSound, TypeOK, Session, Payload
      <3>3. session'[q.key] # None /\ session'[q.key].payload = p
        BY <3>1, <3>2 DEF Forward, SessionForward
      <3>4. /\ Basis(q.row, p.loop)'
            /\ (q.row.revision = loop[p.loop].revision)' => loop'[p.loop] = loop[p.loop]
        <4>1. Basis(q.row, p.loop)
          BY <2>1 DEF Sound, CommitSound
        <4> QED
          BY <3>1, <3>2, <3>3, <4>1, BasisForward DEF Forward
      <3>5. (q.row.revision = loop[p.loop].revision)' =>
              session'[q.key].receipt = s.receipt
        <4>1. loop[p.loop] \in LoopRow
          BY <3>2 DEF TypeOK
        <4> QED
          BY <3>1, <3>2, <3>3, <3>4, <4>1 DEF Forward, SessionForward, LoopRow
      <3> QED
        BY <2>1, <3>1, <3>2, <3>3, <3>4, <3>5 DEF Sound, CommitSound, Forward
    <2> QED
      BY <2>1 DEF CommitSound
  <1>4. ConfigSound(q)'
    <2>1. CASE q.at = "configWrite"
      <3>1. q.loop \in Loop /\ q.revision \in Nat
        BY <2>1, Kinds DEF ConfigHandler
      <3>2. loop[q.loop] \in LoopRow /\ loop'[q.loop] \in LoopRow
        BY <3>1 DEF TypeOK
      <3>3. RowForward(q.loop)
        BY <3>1 DEF Forward
      <3> QED
        BY <2>1, <3>1, <3>2, <3>3 DEF Sound, ConfigSound, RowForward, Later, LoopRow, ConfigAdmits
    <2> QED
      BY <2>1 DEF ConfigSound
  <1>5. ReportSound(q)'
    <2>1. CASE q.at = "report"
      <3>1. q.loop \in Loop /\ q.row \in View
        BY <2>1, Kinds DEF ReportHandler
      <3> QED
        BY <2>1, <3>1, BasisForward DEF Sound, ReportSound, Forward
    <2> QED
      BY <2>1 DEF ReportSound
  <1> QED
    BY <1>1, <1>2, <1>3, <1>4, <1>5 DEF Sound

--------------------------------------------------------------------------------
(***************************************************************************)
(* Every step keeps the types and moves rows and sessions forward only.    *)
(***************************************************************************)

\* Every step keeps the types.
LEMMA TypeNext == TypeOK /\ AllSound /\ [Next]_vars => TypeOK'
PROOF
  <1> SUFFICES ASSUME TypeOK, AllSound, [Next]_vars PROVE TypeOK'
    OBVIOUS
  <1>s. SessionsHeld /\ Planned
    BY SoundHolds
  <1>1. ASSUME NEW c \in Call,
               \/ \E k \in Key : \E p \in Requests(k) : PrepareStart(c, k, p)
               \/ PrepareAgain(c) \/ PrepareSession(c) \/ PrepareInsert(c) \/ PrepareRenew(c)
        PROVE  TypeOK'
    BY <1>1, <1>s, TypePrepare
  <1>2. ASSUME NEW c \in Call,
               \/ \E k \in Key, h \in Hash : PutStart(c, k, h)
               \/ PutWrite(c) \/ PutRecheck(c) \/ PutRegister(c)
        PROVE  TypeOK'
    BY <1>2, TypePut
  <1>3. ASSUME NEW c \in Call,
               \/ \E k \in Key : CommitStart(c, k)
               \/ CommitSession(c) \/ CommitComplete(c) \/ CommitTx(c) \/ CommitStamp(c)
        PROVE  TypeOK'
    BY <1>3, <1>s, TypeCommit
  <1>4. ASSUME NEW c \in Call,
               \/ \E l \in Loop, d \in Dir \cup {None} : ConfigStart(c, l, d)
               \/ ConfigAgain(c) \/ ConfigWrite(c)
               \/ \E l \in Loop : ReportStart(c, l)
               \/ ReportWrite(c)
        PROVE  TypeOK'
    BY <1>4, <1>s, TypeConfig
  <1>5. ASSUME NEW l \in Loop, OtherWrite(l)
        PROVE  TypeOK'
    BY <1>5, RowWrites DEF OtherWrite, TypeOK
  <1>6. ASSUME NEW h \in Hash, FileLost(h)
        PROVE  TypeOK'
    BY <1>6 DEF FileLost, TypeOK
  <1>7. CASE Tick
    BY <1>7, BoundsAssumption DEF Tick, TypeOK
  <1>8. CASE Restart
    BY <1>8 DEF Restart, TypeOK, Handler
  <1>9. CASE UNCHANGED vars
    BY <1>9 DEF vars, TypeOK
  <1> QED
    BY <1>1, <1>2, <1>3, <1>4, <1>5, <1>6, <1>7, <1>8, <1>9 DEF Next

\* The row that a commit writes.
Published(r, id) ==
  [Bump(r) EXCEPT !.base = r.base + 1, !.head = id, !.succeeded = TRUE, !.failure = None]

\* The writes of a row move it forward.
LEMMA RowsForward ==
  ASSUME NEW r \in LoopRow
  PROVE  /\ Later(r, Bump(r))
         /\ \A e, k, config, base : Later(r, Failed(r, e, k, config, base))
         /\ \A d : Later(r, Configured(r, d))
         /\ \A id : Later(r, Published(r, id))
PROOF
  <1>1. r.revision \in Nat /\ r.config \in Nat /\ r.base \in Nat
    <2>1. r.revision \in Nat /\ r.config \in 0..RevisionMax /\ r.base \in 0..RevisionMax
      BY DEF LoopRow
    <2> QED
      BY <2>1, BoundsAssumption
  <1>2. /\ Bump(r).revision = r.revision + 1
        /\ Bump(r).config = r.config
        /\ Bump(r).base = r.base
        /\ Bump(r).dir = r.dir
        /\ Bump(r) \in LoopRow
    BY RowWrites DEF Bump, LoopRow
  <1>3. Later(r, Bump(r))
    BY <1>1, <1>2 DEF Later
  <1>4. ASSUME NEW e, NEW k, NEW config, NEW base
        PROVE  Later(r, Failed(r, e, k, config, base))
    <2> DEFINE n == Failed(r, e, k, config, base)
    <2>1. n.revision = r.revision + 1 /\ n.config = r.config /\ n.base = r.base /\ n.dir = r.dir
      BY <1>2 DEF Failed, LoopRow
    <2> QED
      BY <1>1, <2>1 DEF Later
  <1>5. ASSUME NEW d
        PROVE  Later(r, Configured(r, d))
    <2> DEFINE n == Configured(r, d)
    <2>1. n.revision = r.revision + 1 /\ n.config = r.config + 1 /\ n.base = r.base
      BY <1>2 DEF Configured, LoopRow
    <2> QED
      BY <1>1, <2>1 DEF Later
  <1>6. ASSUME NEW id
        PROVE  Later(r, Published(r, id))
    <2> DEFINE n == Published(r, id)
    <2>1. n.revision = r.revision + 1 /\ n.config = r.config /\ n.base = r.base + 1 /\ n.dir = r.dir
      BY <1>2 DEF Published, LoopRow
    <2> QED
      BY <1>1, <2>1 DEF Later
  <1> QED
    BY <1>3, <1>4, <1>5, <1>6

\* A published session's row moves forward, with its receipt.
LEMMA PublishForward ==
  ASSUME TypeOK, NEW k \in Key, session[k] # None, session[k].receipt = None, Publish(k)
  PROVE  /\ \A l \in Loop : RowForward(l)
         /\ \A j \in Key : SessionForward(j)
PROOF
  <1> DEFINE p == session[k].payload
  <1>1. session[k] \in Session /\ p \in Payload /\ p.loop \in Loop
    BY DEF TypeOK, Session, Payload
  <1>2. loop[p.loop] \in LoopRow /\ loop[p.loop].revision \in Nat
    BY <1>1 DEF TypeOK, LoopRow
  <1>3. loop'[p.loop] = Published(loop[p.loop], Len(manifests) + 1)
    BY <1>1 DEF Publish, Published, TypeOK
  <1>4. ASSUME NEW l \in Loop PROVE RowForward(l)
    <2>1. CASE l = p.loop
      BY <1>2, <1>3, <2>1, RowsForward DEF RowForward
    <2>2. CASE l # p.loop
      BY <1>1, <2>2 DEF Publish, TypeOK, RowForward
    <2> QED
      BY <2>1, <2>2
  <1>5. loop'[p.loop].revision > loop[p.loop].revision
    BY <1>2, <1>3, RowsForward DEF Later
  <1>6. ASSUME NEW j \in Key PROVE SessionForward(j)
    <2>1. CASE j = k
      <3> DEFINE t == [session[k] EXCEPT !.receipt = [id |-> Len(manifests) + 1,
                                                     base |-> loop[p.loop].base + 1]]
      <3>1. session'[k] = t
        BY DEF Publish, TypeOK
      <3>2. t.payload = p /\ DOMAIN t = {"payload", "expires", "receipt"}
        BY <1>1 DEF Session
      <3>3. t # None
        <4>1. Len(manifests) + 1 \in Nat /\ loop[p.loop].base + 1 \in Nat
          BY <1>2, BoundsAssumption DEF TypeOK, LoopRow
        <4>2. t \in Session
          BY <1>1, <4>1 DEF Session, Receipt
        <4> QED
          BY <4>2, NullAssumption
      <3> QED
        BY <1>5, <2>1, <3>1, <3>2, <3>3 DEF SessionForward
    <2>2. CASE j # k
      BY <2>2 DEF Publish, TypeOK, SessionForward
    <2> QED
      BY <2>1, <2>2
  <1> QED
    BY <1>4, <1>6

\* Every step moves rows and sessions forward only.
LEMMA NextForward == TypeOK /\ AllSound /\ [Next]_vars => Forward
PROOF
  <1> SUFFICES ASSUME TypeOK, AllSound, [Next]_vars PROVE Forward
    OBVIOUS
  <1>s. SessionsHeld /\ Planned
    BY SoundHolds
  <1>u. ASSUME UNCHANGED <<loop, session>>, verified \subseteq verified'
        PROVE  Forward
    BY <1>u DEF Forward, RowForward, SessionForward
  <1>r. ASSUME NEW l \in Loop, NEW n, loop' = [loop EXCEPT ![l] = n],
               n = loop[l] \/ Later(loop[l], n), UNCHANGED <<session, verified>>
        PROVE  Forward
    BY <1>r DEF Forward, RowForward, SessionForward, TypeOK
  <1>1. ASSUME NEW c \in Call, PrepareInsert(c)
        PROVE  Forward
    <2>1. call[c].key \in Key
      BY <1>1, Kinds DEF PrepareInsert, At, TypeOK, PrepareHandler
    <2>2. \A k \in Key : session[k] # None => session'[k] = session[k]
      BY <1>1, <2>1 DEF PrepareInsert, TypeOK
    <2> QED
      BY <1>1, <2>2 DEF PrepareInsert, Forward, RowForward, SessionForward
  <1>2. ASSUME NEW c \in Call, PrepareRenew(c)
        PROVE  Forward
    <2> DEFINE q == call[c]
               t == [session[q.key] EXCEPT !.expires = q.time + TTL]
    <2>1. q.key \in Key /\ q.time + TTL \in Nat
      BY <1>2, Kinds, BoundsAssumption DEF PrepareRenew, At, TypeOK, PrepareHandler
    <2>2. session[q.key] \in Session
      BY <1>2, <1>s, <2>1 DEF PrepareRenew, At, TypeOK, SessionsHeld
    <2>3. t \in Session /\ t.payload = session[q.key].payload
                       /\ t.receipt = session[q.key].receipt
      BY <2>1, <2>2 DEF Session
    <2>4. t # None
      BY <2>3, NullAssumption
    <2>5. session' = session \/ session' = [session EXCEPT ![q.key] = t]
      BY <1>2 DEF PrepareRenew
    <2>6. \A k \in Key : session'[k] = session[k] \/ (k = q.key /\ session'[k] = t)
      BY <2>1, <2>5 DEF TypeOK
    <2> QED
      BY <1>2, <2>3, <2>4, <2>6 DEF PrepareRenew, Forward, RowForward, SessionForward
  <1>3. ASSUME NEW c \in Call, CommitTx(c)
        PROVE  Forward
    <2> DEFINE q == call[c]
               s == session[q.key]
    <2>1. q.key \in Key
      BY <1>3, Kinds DEF CommitTx, At, TypeOK, CommitHandler
    <2>2. s # None /\ s \in Session
      BY <1>3, <1>s, <2>1 DEF CommitTx, At, TypeOK, SessionsHeld
    <2>3. CASE Verdict(s, loop[s.payload.loop]) = "proceed" /\ Publish(q.key)
      <3>1. loop[s.payload.loop] \in LoopRow /\ now \in Nat
        BY <2>2 DEF TypeOK, Session, Payload
      <3>2. s.receipt = None
        BY <2>2, <2>3, <3>1, Proceeds
      <3> QED
        BY <1>3, <2>1, <2>2, <2>3, <3>2, PublishForward DEF CommitTx, Forward
    <2>4. CASE UNCHANGED <<loop, session>>
      BY <1>3, <1>u, <2>4 DEF CommitTx
    <2> QED
      BY <1>3, <2>3, <2>4 DEF CommitTx, LiveVerdict
  <1>4. ASSUME NEW c \in Call, CommitStamp(c)
        PROVE  Forward
    <2> DEFINE q == call[c]
               p == session[q.key].payload
    <2>1. p.loop \in Loop /\ loop[p.loop] \in LoopRow
      BY <1>4, <1>s, Kinds DEF CommitStamp, At, TypeOK, SessionsHeld, CommitHandler, Session, Payload
    <2>2. CASE UNCHANGED loop
      BY SMTT(30), <1>4, <1>u, <2>2 DEF CommitStamp
    <2>3. CASE loop' = [loop EXCEPT ![p.loop] =
                          Failed(loop[p.loop], q.error, q.key, p.config, p.base)]
      BY <1>4, <1>r, <2>1, <2>3, RowsForward DEF CommitStamp
    <2> QED
      BY <1>4, <2>2, <2>3 DEF CommitStamp
  <1>5. ASSUME NEW c \in Call, ConfigWrite(c)
        PROVE  Forward
    <2> DEFINE q == call[c]
    <2>1. q.loop \in Loop /\ loop[q.loop] \in LoopRow
      BY <1>5, Kinds DEF ConfigWrite, At, TypeOK, ConfigHandler
    <2>2. CASE UNCHANGED loop
      BY <1>5, <1>u, <2>2 DEF ConfigWrite
    <2>3. CASE loop' = [loop EXCEPT ![q.loop] = Configured(loop[q.loop], q.dir)]
      BY <1>5, <1>r, <2>1, <2>3, RowsForward DEF ConfigWrite
    <2> QED
      BY <1>5, <2>2, <2>3 DEF ConfigWrite
  <1>6. ASSUME NEW c \in Call, ReportWrite(c)
        PROVE  Forward
    <2> DEFINE q == call[c]
    <2>1. q.loop \in Loop /\ loop[q.loop] \in LoopRow
      BY <1>6, Kinds DEF ReportWrite, At, TypeOK, ReportHandler
    <2>2. CASE UNCHANGED loop
      BY <1>6, <1>u, <2>2 DEF ReportWrite
    <2>3. CASE loop' = [loop EXCEPT ![q.loop] =
                          Failed(loop[q.loop], "client", None, q.row.config, q.row.base)]
      BY <1>6, <1>r, <2>1, <2>3, RowsForward DEF ReportWrite
    <2> QED
      BY <1>6, <2>2, <2>3 DEF ReportWrite
  <1>7. ASSUME NEW l \in Loop, OtherWrite(l)
        PROVE  Forward
    <2>1. loop[l] \in LoopRow
      BY DEF TypeOK
    <2> QED
      BY <1>7, <1>r, <2>1, RowsForward DEF OtherWrite
  <1>8. ASSUME NEW c \in Call,
               \/ \E k \in Key : \E p \in Requests(k) : PrepareStart(c, k, p)
               \/ PrepareAgain(c) \/ PrepareSession(c)
               \/ \E k \in Key, h \in Hash : PutStart(c, k, h)
               \/ PutWrite(c) \/ PutRecheck(c) \/ PutRegister(c)
        PROVE  Forward
    BY <1>8, <1>u DEF PrepareStart, PrepareAgain, PrepareSession, PutStart, PutWrite,
                      PutRecheck, PutRegister
  <1>9. ASSUME NEW c \in Call,
               \/ \E k \in Key : CommitStart(c, k)
               \/ CommitSession(c) \/ CommitComplete(c)
               \/ \E l \in Loop, d \in Dir \cup {None} : ConfigStart(c, l, d)
               \/ ConfigAgain(c)
               \/ \E l \in Loop : ReportStart(c, l)
        PROVE  Forward
    BY <1>9, <1>u DEF CommitStart, CommitSession, CommitComplete, ConfigStart, ConfigAgain,
                      ReportStart
  <1>10. CASE Tick \/ Restart \/ (\E h \in Hash : FileLost(h)) \/ UNCHANGED vars
    BY <1>10, <1>u DEF Tick, Restart, FileLost, vars
  <1> QED
    BY <1>1, <1>2, <1>3, <1>4, <1>5, <1>6, <1>7, <1>8, <1>9, <1>10 DEF Next

--------------------------------------------------------------------------------
(***************************************************************************)
(* Every step keeps every handler sound.                                   *)
(***************************************************************************)

\* A step of handler c keeps the others sound; it must make its own state so.
LEMMA SoundStep ==
  ASSUME TypeOK, TypeOK', Forward, AllSound, NEW c \in Call, NEW h,
         call' = [call EXCEPT ![c] = h], Sound(h)'
  PROVE  AllSound'
PROOF
  <1> SUFFICES ASSUME NEW d \in Call PROVE Sound(call[d])'
    BY DEF AllSound
  <1>p. PICK q \in Handler : q = call[d]
    BY DEF TypeOK
  <1>1. CASE d = c
    <2>1. h = call'[d]
      BY SMTT(30), <1>1 DEF TypeOK
    <2> QED
      BY <2>1 DEF Sound, PrepareSound, PutSound, CommitSound, ConfigSound, ReportSound
  <1>2. CASE d # c
    <2>1. Sound(q)
      BY <1>p DEF AllSound
    <2>2. Sound(q)'
      BY <2>1, SoundForward
    <2>3. q = call'[d]
      BY <1>2, <1>p DEF TypeOK
    <2> QED
      BY <2>2, <2>3 DEF Sound, PrepareSound, PutSound, CommitSound, ConfigSound, ReportSound
  <1> QED
    BY <1>1, <1>2

\* A handler that ends is sound.
LEMMA SoundFinish ==
  ASSUME TypeOK, TypeOK', Forward, AllSound, NEW c \in Call, Finish(c)
  PROVE  AllSound'
PROOF
  <1>1. Sound(Idle)'
    BY DEF Sound, PrepareSound, PutSound, CommitSound, ConfigSound, ReportSound, Idle
  <1>2. PICK h : h = Idle
    OBVIOUS
  <1>3. Sound(h)'
    BY <1>1, <1>2 DEF Idle
  <1>4. call' = [call EXCEPT ![c] = h]
    BY <1>2 DEF Finish
  <1> QED
    BY <1>3, <1>4, SoundStep

\* Handlers that do not move stay sound.
LEMMA SoundUnmoved ==
  ASSUME TypeOK, TypeOK', Forward, AllSound, UNCHANGED call
  PROVE  AllSound'
PROOF
  <1> SUFFICES ASSUME NEW d \in Call PROVE Sound(call[d])'
    BY DEF AllSound
  <1>1. PICK q \in Handler : q = call[d]
    BY DEF TypeOK
  <1>2. Sound(q)'
    BY <1>1, SoundForward DEF AllSound
  <1> QED
    BY <1>1, <1>2 DEF Sound, PrepareSound, PutSound, CommitSound, ConfigSound, ReportSound

\* prepare keeps handlers sound: a renewal goes by an expiry that has passed.
LEMMA SoundPrepare ==
  ASSUME TypeOK, TypeOK', Forward, AllSound, NEW c \in Call,
         \/ \E k \in Key : \E p \in Requests(k) : PrepareStart(c, k, p)
         \/ PrepareAgain(c) \/ PrepareSession(c) \/ PrepareInsert(c) \/ PrepareRenew(c)
  PROVE  AllSound'
PROOF
  <1> DEFINE q == call[c]
  <1> USE DEF PutSound, CommitSound, ConfigSound, ReportSound
  <1>q. q \in Handler /\ Sound(q)
    BY DEF TypeOK, AllSound
  <1>k. q.at \in {"prepareLoop", "prepareSession", "insert", "renew"} =>
          /\ q \in PrepareHandler
          /\ q.payload \in Payload /\ q.payload.loop \in Loop
          /\ loop[q.payload.loop] \in LoopRow
          /\ Negotiated(q.payload)
    BY <1>q, Kinds DEF PrepareHandler, Payload, TypeOK, Sound, PrepareSound
  <1>n. now \in Nat
    BY DEF TypeOK
  <1>1. ASSUME NEW k \in Key, NEW p \in Requests(k), PrepareStart(c, k, p)
        PROVE  AllSound'
    <2>1. p.config = loop[p.loop].config /\ p.base = loop[p.loop].base /\ loop[p.loop].dir # None
      BY <1>1 DEF PrepareStart, Negotiable
    <2>2. p \in Payload
      <3>1. CASE session[k] # None /\ p = session[k].payload
        BY <3>1 DEF Session, TypeOK
      <3>2. CASE \E l \in Loop, e \in Content :
                   p = [loop |-> l, config |-> loop[l].config, base |-> loop[l].base,
                        content |-> e]
        BY <3>2, BoundsAssumption DEF TypeOK, LoopRow, Payload
      <3> QED
        BY <3>1, <3>2 DEF Requests
    <2>3. p.config \in Nat /\ p.base \in Nat
      BY <2>2 DEF Payload
    <2>p. PICK h : h = [at |-> "prepareSession", key |-> k, payload |-> p,
                        revision |-> loop[p.loop].revision, seen |-> 0, time |-> 0,
                        retried |-> FALSE]
      OBVIOUS
    <2>4. loop' = loop
      BY <1>1 DEF PrepareStart
    <2>5. Negotiated(h.payload)'
      BY <2>1, <2>3, <2>4, <2>p DEF Negotiated
    <2>7. Drafted(h)'
      <3>1. loop[p.loop].revision \in Nat
        BY <2>2 DEF TypeOK, Payload, LoopRow
      <3> QED
        BY <2>1, <2>4, <2>p, <3>1 DEF Drafted
    <2>6. Sound(h)'
      BY <2>5, <2>7, <2>p DEF Sound, PrepareSound
    <2> QED
      BY <1>1, <2>6, <2>p, SoundStep DEF PrepareStart
  <1>2. CASE PrepareAgain(c)
    <2>1. CASE Finish(c)
      BY <2>1, SoundFinish
    <2>2. CASE /\ Negotiable(q.payload, loop[q.payload.loop])
               /\ call' = [call EXCEPT ![c].at = "prepareSession",
                                       ![c].revision = loop[q.payload.loop].revision]
      <3> DEFINE p == q.payload
      <3>1. /\ p.config = loop[p.loop].config /\ p.base = loop[p.loop].base
            /\ loop[p.loop].dir # None /\ p.config \in Nat /\ p.base \in Nat
        BY <1>2, <1>k, <2>2 DEF PrepareAgain, Negotiable, At, Payload
      <3>p. PICK h : h = [q EXCEPT !.at = "prepareSession", !.revision = loop[p.loop].revision]
        OBVIOUS
      <3>2. h.at = "prepareSession" /\ h.payload = p /\ h.revision = loop[p.loop].revision
        BY <1>2, <1>k, <3>p DEF PrepareAgain, At, PrepareHandler
      <3>3. Negotiated(h.payload)'
        BY <1>2, <3>1, <3>2 DEF Negotiated, PrepareAgain
      <3>5. Drafted(h)'
        <4>1. loop[p.loop].revision \in Nat /\ loop' = loop
          BY <1>2, <1>k DEF PrepareAgain, At, LoopRow
        <4> QED
          BY <3>1, <3>2, <4>1 DEF Drafted
      <3>4. Sound(h)'
        BY <3>2, <3>3, <3>5 DEF Sound, PrepareSound
      <3> QED
        BY <2>2, <3>4, <3>p, SoundStep
    <2> QED
      BY <1>2, <2>1, <2>2 DEF PrepareAgain
  <1>3. CASE PrepareSession(c)
    <2>g. q \in PrepareHandler /\ Negotiated(q.payload)
      BY <1>3, <1>k DEF PrepareSession, At
    <2>1. CASE Finish(c)
      BY <2>1, SoundFinish
    <2>2. CASE call' = [call EXCEPT ![c].at = "insert", ![c].time = now]
      <3>p. PICK h : h = [q EXCEPT !.at = "insert", !.time = now]
        OBVIOUS
      <3>2. h.at = "insert" /\ h.payload = q.payload /\ h.revision = q.revision
        BY <2>g, <3>p DEF PrepareHandler
      <3>3. Negotiated(h.payload)'
        BY <1>3, <2>g, <3>2 DEF Negotiated, PrepareSession
      <3>5. Drafted(h)'
        <4>1. Drafted(q) /\ loop' = loop
          BY <1>3, <1>q DEF PrepareSession, At, Sound, PrepareSound
        <4> QED
          BY <3>2, <4>1 DEF Drafted
      <3>4. Sound(h)'
        BY <3>2, <3>3, <3>5 DEF Sound, PrepareSound
      <3> QED
        BY <2>2, <3>4, <3>p, SoundStep
    <2>3. CASE /\ session[q.key] # None
               /\ now >= session[q.key].expires
               /\ call' = [call EXCEPT ![c].at = "renew", ![c].time = now,
                                       ![c].seen = session[q.key].expires]
      <3> DEFINE s == session[q.key]
      <3>p. PICK h : h = [q EXCEPT !.at = "renew", !.time = now, !.seen = s.expires]
        OBVIOUS
      <3>1. s.expires \in Nat
        BY <2>g, <2>3 DEF PrepareHandler, TypeOK, Session
      <3>2. h.at = "renew" /\ h.payload = q.payload /\ h.key = q.key /\ h.seen <= h.time
        BY <1>n, <2>g, <2>3, <3>1, <3>p DEF PrepareHandler
      <3>3. Negotiated(h.payload)' /\ session'[h.key] # None
        BY <1>3, <2>g, <2>3, <3>2 DEF Negotiated, PrepareSession
      <3>4. Sound(h)'
        BY <3>2, <3>3 DEF Sound, PrepareSound
      <3> QED
        BY <2>3, <3>4, <3>p, SoundStep
    <2>4. CASE session[q.key] = None
      BY <1>3, <2>2, <2>4 DEF PrepareSession
    <2>5. CASE session[q.key] # None
      BY <1>3, <2>1, <2>3, <2>5 DEF PrepareSession
    <2> QED
      BY <2>4, <2>5
  <1>4. CASE PrepareInsert(c)
    <2>g. /\ q \in PrepareHandler /\ Negotiated(q.payload)
          /\ q.key \in Key /\ q.time \in Nat
      BY <1>4, <1>k DEF PrepareInsert, At, PrepareHandler
    <2>1. CASE Finish(c)
      BY <2>1, SoundFinish
    <2>2. CASE call' = [call EXCEPT ![c].at = "prepareLoop", ![c].retried = TRUE]
      <3>p. PICK h : h = [q EXCEPT !.at = "prepareLoop", !.retried = TRUE]
        OBVIOUS
      <3>2. h.at = "prepareLoop" /\ h.payload = q.payload
        BY <2>g, <3>p DEF PrepareHandler
      <3>3. Negotiated(h.payload)'
        BY <1>4, <2>g, <3>2 DEF Negotiated, PrepareInsert
      <3>4. Sound(h)'
        BY <3>2, <3>3 DEF Sound, PrepareSound
      <3> QED
        BY <2>2, <3>4, <3>p, SoundStep
    <2>3. CASE /\ session[q.key] # None
               /\ q.time >= session[q.key].expires
               /\ UNCHANGED session
               /\ call' = [call EXCEPT ![c].at = "renew", ![c].seen = session[q.key].expires]
      <3> DEFINE s == session[q.key]
      <3>p. PICK h : h = [q EXCEPT !.at = "renew", !.seen = s.expires]
        OBVIOUS
      <3>1. s.expires \in Nat
        BY <2>g, <2>3 DEF TypeOK, Session
      <3>2. h.at = "renew" /\ h.payload = q.payload /\ h.key = q.key /\ h.seen <= h.time
        BY <2>g, <2>3, <3>1, <3>p DEF PrepareHandler
      <3>3. Negotiated(h.payload)' /\ session'[h.key] # None
        BY <1>4, <2>g, <2>3, <3>2 DEF Negotiated, PrepareInsert
      <3>4. Sound(h)'
        BY <3>2, <3>3 DEF Sound, PrepareSound
      <3> QED
        BY <2>3, <3>4, <3>p, SoundStep
    <2> QED
      BY <1>4, <2>1, <2>2, <2>3 DEF PrepareInsert
  <1>5. CASE PrepareRenew(c)
    BY <1>5, SoundFinish DEF PrepareRenew
  <1> QED
    BY <1>1, <1>2, <1>3, <1>4, <1>5

\* put keeps handlers sound.
LEMMA SoundPut ==
  ASSUME TypeOK, TypeOK', Forward, AllSound, NEW c \in Call,
         \/ \E k \in Key, h \in Hash : PutStart(c, k, h)
         \/ PutWrite(c) \/ PutRecheck(c) \/ PutRegister(c)
  PROVE  AllSound'
PROOF
  <1> DEFINE q == call[c]
  <1> USE DEF PrepareSound, CommitSound, ConfigSound, ReportSound
  <1>q. q \in Handler /\ Sound(q)
    BY DEF TypeOK, AllSound
  <1>g. ASSUME q \in PutHandler, q.at \in {"putWrite", "putRecheck"}, UNCHANGED session,
               NEW stage \in {"putRecheck", "putRegister"}, Goto(c, stage)
        PROVE  AllSound'
    <2>p. PICK h : h = [q EXCEPT !.at = stage]
      OBVIOUS
    <2>1. h.at = stage /\ h.key = q.key
      BY <1>g, <2>p DEF PutHandler
    <2>2. Sound(h)'
      BY <1>q, <1>g, <2>1 DEF Sound, PutSound
    <2> QED
      BY <1>g, <2>2, <2>p, SoundStep DEF Goto
  <1>1. ASSUME NEW k \in Key, NEW b \in Hash, PutStart(c, k, b)
        PROVE  AllSound'
    <2>p. PICK h : h = [at |-> "putWrite", key |-> k, hash |-> b]
      OBVIOUS
    <2>1. Sound(h)'
      BY <1>1, <2>p DEF Sound, PutSound, PutStart
    <2> QED
      BY <1>1, <2>1, <2>p, SoundStep DEF PutStart
  <1>2. CASE PutWrite(c)
    <2>1. q \in PutHandler /\ q.at = "putWrite"
      BY <1>2, <1>q, Kinds DEF PutWrite, At
    <2> QED
      BY <1>2, <1>g, <2>1, SoundFinish DEF PutWrite
  <1>3. CASE PutRecheck(c)
    <2>1. q \in PutHandler /\ q.at = "putRecheck"
      BY <1>3, <1>q, Kinds DEF PutRecheck, At
    <2> QED
      BY <1>3, <1>g, <2>1, SoundFinish DEF PutRecheck
  <1>4. CASE PutRegister(c)
    BY <1>4, SoundFinish DEF PutRegister
  <1> QED
    BY <1>1, <1>2, <1>3, <1>4

\* Configuration changes and reports keep handlers sound.
LEMMA SoundConfig ==
  ASSUME TypeOK, TypeOK', Forward, AllSound, NEW c \in Call,
         \/ \E l \in Loop, d \in Dir \cup {None} : ConfigStart(c, l, d)
         \/ ConfigAgain(c) \/ ConfigWrite(c)
         \/ \E l \in Loop : ReportStart(c, l)
         \/ ReportWrite(c)
  PROVE  AllSound'
PROOF
  <1> DEFINE q == call[c]
  <1> USE DEF PrepareSound, PutSound, CommitSound
  <1>q. q \in Handler
    BY DEF TypeOK
  <1>1. ASSUME NEW l \in Loop, NEW d \in Dir \cup {None}, ConfigStart(c, l, d)
        PROVE  AllSound'
    <2>p. PICK h : h = [at |-> "configWrite", loop |-> l, dir |-> d,
                        revision |-> loop[l].revision, retried |-> FALSE]
      OBVIOUS
    <2>1. loop' = loop /\ loop[l].revision \in Nat
      BY <1>1 DEF ConfigStart, TypeOK, LoopRow
    <2>2. ConfigSound(h)'
      BY <1>1, <2>1, <2>p DEF ConfigSound, ConfigStart
    <2>3. Sound(h)'
      BY <2>2, <2>p DEF Sound, ReportSound
    <2> QED
      BY <1>1, <2>3, <2>p, SoundStep DEF ConfigStart
  <1>2. CASE ConfigAgain(c)
    <2>1. CASE Finish(c)
      BY <2>1, SoundFinish
    <2>2. CASE /\ ConfigAdmits(loop[q.loop], q.dir)
               /\ call' = [call EXCEPT ![c].at = "configWrite",
                                       ![c].revision = loop[q.loop].revision]
      <3>1. q \in ConfigHandler
        BY <1>2, <1>q, Kinds DEF ConfigAgain, At
      <3>p. PICK h : h = [q EXCEPT !.at = "configWrite", !.revision = loop[q.loop].revision]
        OBVIOUS
      <3>2. loop' = loop /\ loop[q.loop].revision \in Nat
        BY <1>2, <3>1 DEF ConfigAgain, ConfigHandler, TypeOK, LoopRow
      <3>3. /\ h.at = "configWrite" /\ h.loop = q.loop /\ h.dir = q.dir
            /\ h.revision = loop[q.loop].revision
        BY <3>1, <3>p DEF ConfigHandler
      <3>4. ConfigSound(h)'
        BY <2>2, <3>2, <3>3 DEF ConfigSound
      <3>5. Sound(h)'
        BY <3>3, <3>4 DEF Sound, ReportSound
      <3> QED
        BY <2>2, <3>5, <3>p, SoundStep
    <2> QED
      BY <1>2, <2>1, <2>2 DEF ConfigAgain
  <1>3. CASE ConfigWrite(c)
    <2>1. CASE Finish(c)
      BY <2>1, SoundFinish
    <2>2. CASE call' = [call EXCEPT ![c].at = "configRead", ![c].retried = TRUE]
      <3>1. q \in ConfigHandler
        BY <1>3, <1>q, Kinds DEF ConfigWrite, At
      <3>p. PICK h : h = [q EXCEPT !.at = "configRead", !.retried = TRUE]
        OBVIOUS
      <3>2. h.at = "configRead"
        BY <3>1, <3>p DEF ConfigHandler
      <3>3. Sound(h)'
        BY <3>2 DEF Sound, ConfigSound, ReportSound
      <3> QED
        BY <2>2, <3>3, <3>p, SoundStep
    <2> QED
      BY <1>3, <2>1, <2>2 DEF ConfigWrite
  <1>4. ASSUME NEW l \in Loop, ReportStart(c, l)
        PROVE  AllSound'
    <2>p. PICK h : h = [at |-> "report", loop |-> l, row |-> Read(l)]
      OBVIOUS
    <2>1. loop' = loop /\ loop[l] \in LoopRow
      BY <1>4 DEF ReportStart, TypeOK
    <2>2. Basis(h.row, l)'
      BY <2>1, <2>p, BoundsAssumption DEF Basis, Read, LoopRow
    <2>3. Sound(h)'
      BY <2>2, <2>p DEF Sound, ConfigSound, ReportSound
    <2> QED
      BY <1>4, <2>3, <2>p, SoundStep DEF ReportStart
  <1>5. CASE ReportWrite(c)
    BY <1>5, SoundFinish DEF ReportWrite
  <1> QED
    BY <1>1, <1>2, <1>3, <1>4, <1>5

\* commit keeps handlers sound: what it judged by one read of the loop holds of
\* the loop for as long as the revision is the one it read.
LEMMA SoundCommit ==
  ASSUME TypeOK, TypeOK', Forward, AllSound, SessionsSound, NEW c \in Call,
         \/ \E k \in Key : CommitStart(c, k)
         \/ CommitSession(c) \/ CommitComplete(c) \/ CommitTx(c) \/ CommitStamp(c)
  PROVE  AllSound'
PROOF
  <1> DEFINE q == call[c]
             s == session[q.key]
             p == s.payload
  <1> USE DEF PrepareSound, PutSound, ConfigSound, ReportSound
  <1>q. q \in Handler /\ Sound(q)
    BY DEF TypeOK, AllSound
  <1>k. ASSUME q.at \in {"commitSession", "complete", "commitTx"}
        PROVE  /\ q \in CommitHandler /\ q.key \in Key /\ q.row \in View
               /\ s # None /\ s \in Session /\ p \in Payload /\ p.loop \in Loop
               /\ loop[p.loop] \in LoopRow
               /\ CommitSound(q)
    <2>1. q \in CommitHandler /\ q.key \in Key /\ q.row \in View
      BY <1>q, <1>k, Kinds DEF CommitHandler
    <2>2. CommitSound(q) /\ s # None
      BY <1>q, <1>k DEF Sound, CommitSound
    <2> QED
      BY <2>1, <2>2 DEF TypeOK, Session, Payload
  <1>g. ASSUME q \in CommitHandler, q.at # "stamp", NEW stage \in {"complete", "commitTx"},
               NEW h, h = [q EXCEPT !.at = stage]
        PROVE  h.at = stage /\ h.key = q.key /\ h.row = q.row
    BY <1>g DEF CommitHandler
  <1>e. ASSUME q \in CommitHandler, NEW e, NEW h, h = [q EXCEPT !.at = "stamp", !.error = e]
        PROVE  h.at = "stamp" /\ h.key = q.key /\ h.row = q.row /\ h.error = e
    BY <1>e DEF CommitHandler
  <1>1. ASSUME NEW k \in Key, CommitStart(c, k)
        PROVE  AllSound'
    <2>p. PICK h : h = [at |-> "commitSession", key |-> k,
                        row |-> Read(session[k].payload.loop), error |-> None]
      OBVIOUS
    <2>1. session[k] # None /\ session' = session /\ loop' = loop
      BY <1>1 DEF CommitStart
    <2>2. session[k].payload \in Payload /\ loop[session[k].payload.loop] \in LoopRow
      BY <2>1 DEF TypeOK, Session, Payload
    <2>3. Negotiated(session[k].payload)
      BY <2>1 DEF SessionsSound
    <2>4. CommitSound(h)'
      BY <2>1, <2>2, <2>3, <2>p, BoundsAssumption
         DEF CommitSound, Basis, Negotiated, Read, LoopRow, Payload
    <2>5. Sound(h)'
      BY <2>4, <2>p DEF Sound
    <2> QED
      BY <1>1, <2>5, <2>p, SoundStep DEF CommitStart
  <1>2. CASE CommitSession(c)
    <2> DEFINE verdict == Verdict(s, q.row)
    <2>g. q.at = "commitSession" /\ session' = session /\ loop' = loop
      BY <1>2 DEF CommitSession, At
    <2>k. /\ q \in CommitHandler /\ q.key \in Key /\ q.row \in View
          /\ s # None /\ s \in Session /\ p \in Payload /\ p.loop \in Loop
          /\ CommitSound(q)
      BY <1>k, <2>g
    <2>1. CASE verdict = "proceed"
      <3>p. PICK h : h = [q EXCEPT !.at = "complete"]
        OBVIOUS
      <3>1. h.at = "complete" /\ h.key = q.key /\ h.row = q.row
        BY <1>g, <2>g, <2>k, <3>p
      <3>2. s.receipt = None /\ p.config = q.row.config /\ p.base = q.row.base
        BY <2>1, <2>k, Proceeds DEF TypeOK
      <3>3. CommitSound(h)'
        BY <2>g, <2>k, <3>1, <3>2 DEF CommitSound, Basis
      <3>4. Sound(h)'
        BY <3>1, <3>3 DEF Sound
      <3> QED
        BY <1>2, <2>1, <3>4, <3>p, SoundStep DEF CommitSession, Goto
    <2>2. CASE verdict = "manifest_conflict"
      <3>p. PICK h : h = [q EXCEPT !.at = "stamp", !.error = "manifest_conflict"]
        OBVIOUS
      <3>1. h.at = "stamp" /\ h.key = q.key /\ h.row = q.row /\ h.error = "manifest_conflict"
        BY <2>k, <3>p DEF CommitHandler
      <3>c. call' = [call EXCEPT ![c].at = "stamp", ![c].error = "manifest_conflict"]
        BY <1>2, <2>2 DEF CommitSession
      <3>2. s.receipt = None /\ p.config = q.row.config /\ p.base # q.row.base
        BY <2>2, <2>k, Refuses
      <3>3. p.base <= q.row.base /\ p.base \in Nat /\ q.row.base \in Nat
        BY <2>g, <2>k, BoundsAssumption DEF CommitSound, Payload, View
      <3>4. p.base < q.row.base
        BY <3>2, <3>3
      <3>5. CommitSound(h)'
        BY <2>g, <2>k, <3>1, <3>2, <3>4 DEF CommitSound, Basis
      <3>6. Sound(h)'
        BY <3>1, <3>5 DEF Sound
      <3> QED
        BY <3>c, <3>6, <3>p, SoundStep
    <2>3. CASE verdict \notin {"proceed", "manifest_conflict"}
      BY SMTT(30), <1>2, <2>3, SoundFinish DEF CommitSession
    <2> QED
      BY <2>1, <2>2, <2>3
  <1>3. CASE CommitComplete(c)
    <2>g. q.at = "complete" /\ session' = session /\ loop' = loop /\ verified' = verified
      BY <1>3 DEF CommitComplete, At
    <2>k. /\ q \in CommitHandler /\ q.key \in Key /\ q.row \in View
          /\ s # None /\ s \in Session /\ p \in Payload /\ p.loop \in Loop
          /\ CommitSound(q)
      BY <1>k, <2>g
    <2>b. p.base = q.row.base /\ p.config = q.row.config /\ q.row.base \in Nat
      BY <2>g, <2>k, BoundsAssumption DEF CommitSound, View
    <2>1. CASE Goto(c, "commitTx") /\ \A x \in p.content : Present(x)
      <3>p. PICK h : h = [q EXCEPT !.at = "commitTx"]
        OBVIOUS
      <3>1. h.at = "commitTx" /\ h.key = q.key /\ h.row = q.row
        BY <1>g, <2>g, <2>k, <3>p
      <3>3. CommitSound(h)'
        BY <2>1, <2>g, <2>k, <2>b, <3>1 DEF CommitSound, Basis, Present, Registered
      <3>4. Sound(h)'
        BY <3>1, <3>3 DEF Sound
      <3> QED
        BY <2>1, <3>4, <3>p, SoundStep DEF Goto
    <2>2. ASSUME NEW e \in {"blob_missing", "storage_error"},
                 call' = [call EXCEPT ![c].at = "stamp", ![c].error = e]
          PROVE  AllSound'
      <3>p. PICK h : h = [q EXCEPT !.at = "stamp", !.error = e]
        OBVIOUS
      <3>1. h.at = "stamp" /\ h.key = q.key /\ h.row = q.row /\ h.error = e
        BY ZenonT(60), <1>e, <2>k, <3>p
      <3>3. CommitSound(h)'
        BY <2>g, <2>k, <2>b, <3>1 DEF CommitSound, Basis
      <3>4. Sound(h)'
        BY <3>1, <3>3 DEF Sound
      <3> QED
        BY <2>2, <3>4, <3>p, SoundStep
    <2> QED
      BY <1>3, <2>1, <2>2 DEF CommitComplete
  <1>4. CASE CommitTx(c)
    <2> DEFINE live == loop[p.loop]
    <2>g. q.at = "commitTx" /\ verified' = verified
      BY <1>4 DEF CommitTx, At
    <2>k. /\ q \in CommitHandler /\ q.key \in Key /\ q.row \in View
          /\ s # None /\ s \in Session /\ p \in Payload /\ p.loop \in Loop
          /\ live \in LoopRow
          /\ CommitSound(q)
      BY <1>k, <2>g
    <2>b. /\ p.base = q.row.base /\ p.config = q.row.config /\ q.row.base \in Nat
          /\ Basis(q.row, p.loop)
      BY <2>g, <2>k, BoundsAssumption DEF CommitSound, View
    <2>1. CASE Finish(c)
      BY <2>1, SoundFinish
    <2>2. ASSUME NEW e, call' = [call EXCEPT ![c].at = "stamp", ![c].error = e],
                 \/ e = "storage_error" /\ UNCHANGED <<loop, session>>
                 \/ e = "storage_error" /\ Publish(q.key)
                 \/ q.row.revision # live.revision /\ UNCHANGED <<loop, session>>
          PROVE  AllSound'
      <3>p. PICK h : h = [q EXCEPT !.at = "stamp", !.error = e]
        OBVIOUS
      <3>1. h.at = "stamp" /\ h.key = q.key /\ h.row = q.row /\ h.error = e
        BY ZenonT(60), <1>e, <2>k, <3>p
      <3>r. PICK row, l, k : row = q.row /\ l = p.loop /\ k = q.key
        OBVIOUS
      <3>2. CASE UNCHANGED <<loop, session>>
        <4>2. q.row.revision = loop[p.loop].revision =>
                s.receipt = None /\ e = "storage_error"
          BY <2>2, <2>g, <2>k, <3>2 DEF CommitSound
        <4>3. session'[k] = s /\ loop'[l] = live
          BY <3>2, <3>r
        <4>5. Basis(row, l)'
          BY <2>b, <3>r, <4>3 DEF Basis
        <4>a. /\ h.key = k /\ session'[k] = s /\ s # None
              /\ h.row = row /\ s.payload.loop = l
          BY <2>k, <3>1, <3>r, <4>3
        <4>b. /\ s.payload.config = row.config /\ s.payload.base = row.base
              /\ row.base \in Nat /\ row.config \in Int
          BY <2>b, <2>k, <3>r DEF View
        <4>c. row.revision = loop'[l].revision =>
                s.receipt = None /\ h.error # "manifest_conflict"
          BY <3>1, <3>r, <4>2, <4>3
        <4>d. (h.error = "manifest_conflict") = (s.payload.base < row.base)
                \/ row.revision # loop'[l].revision
          BY <4>b, <4>c
        <4>e. s.payload.config <= row.config /\ s.payload.base <= row.base
          BY <4>b
        <4>f. h.at = "stamp"
          BY <3>1
        <4>6. CommitSound(h)'
          BY <4>a, <4>b, <4>c, <4>d, <4>e, <4>f, <4>5 DEF CommitSound
        <4>7. Sound(h)'
          BY <3>1, <4>6 DEF Sound
        <4> QED
          BY <2>2, <3>p, <4>7, SoundStep
      <3>3. CASE Publish(k)
        <4>1. session'[k] # None /\ session'[k].payload = p
          BY SMTT(30), <2>k, <3>r DEF Forward, SessionForward
        <4>2. loop'[l] = Published(live, Len(manifests) + 1)
          BY <2>k, <3>3, <3>r DEF Publish, Published, TypeOK
        <4>3. Later(live, loop'[l])
          BY SMTT(30), <2>k, <4>2, RowsForward
        <4>4. Basis(row, l)'
          BY <2>k, <2>b, <3>r, <4>3, BasisForward DEF RowForward
        <4>5. row.revision # loop'[l].revision
          <5>1. row.revision \in Nat /\ live.revision \in Nat /\ row.revision <= live.revision
            BY <2>k, <2>b, <3>r DEF View, LoopRow, Basis
          <5>2. loop'[l] \in LoopRow
            BY <2>k, <3>r DEF TypeOK
          <5>3. loop'[l].revision \in Nat /\ loop'[l].revision > live.revision
            BY SMTT(30), <4>3, <5>2 DEF Later, LoopRow
          <5> QED
            BY SMTT(30), <5>1, <5>3
        <4>6. CommitSound(h)'
          BY <2>b, <2>g, <2>k, <3>1, <3>r, <4>1, <4>4, <4>5 DEF CommitSound
        <4>7. Sound(h)'
          BY <3>1, <4>6 DEF Sound
        <4> QED
          BY <2>2, <3>p, <4>7, SoundStep
      <3> QED
        BY <2>2, <3>2, <3>3, <3>r
    <2>3. ASSUME Verdict(s, live) = "manifest_conflict"
          PROVE  q.row.revision # live.revision
      BY SMTT(30), <2>3, <2>k, <2>b, Refuses DEF Basis
    <2> QED
      BY ZenonT(60), <1>4, <2>1, <2>2, <2>3 DEF CommitTx, LiveVerdict
  <1>5. CASE CommitStamp(c)
    BY <1>5, SoundFinish DEF CommitStamp
  <1> QED
    BY <1>1, <1>2, <1>3, <1>4, <1>5

\* Every step keeps every handler sound.
LEMMA SoundNext ==
  TypeOK /\ TypeOK' /\ Forward /\ AllSound /\ SessionsSound /\ [Next]_vars => AllSound'
PROOF
  <1> SUFFICES ASSUME TypeOK, TypeOK', Forward, AllSound, SessionsSound, [Next]_vars
               PROVE  AllSound'
    OBVIOUS
  <1>1. ASSUME NEW c \in Call,
               \/ \E k \in Key : \E p \in Requests(k) : PrepareStart(c, k, p)
               \/ PrepareAgain(c) \/ PrepareSession(c) \/ PrepareInsert(c) \/ PrepareRenew(c)
        PROVE  AllSound'
    BY <1>1, SoundPrepare
  <1>2. ASSUME NEW c \in Call,
               \/ \E k \in Key, h \in Hash : PutStart(c, k, h)
               \/ PutWrite(c) \/ PutRecheck(c) \/ PutRegister(c)
        PROVE  AllSound'
    BY <1>2, SoundPut
  <1>3. ASSUME NEW c \in Call,
               \/ \E k \in Key : CommitStart(c, k)
               \/ CommitSession(c) \/ CommitComplete(c) \/ CommitTx(c) \/ CommitStamp(c)
        PROVE  AllSound'
    BY <1>3, SoundCommit
  <1>4. ASSUME NEW c \in Call,
               \/ \E l \in Loop, d \in Dir \cup {None} : ConfigStart(c, l, d)
               \/ ConfigAgain(c) \/ ConfigWrite(c)
               \/ \E l \in Loop : ReportStart(c, l)
               \/ ReportWrite(c)
        PROVE  AllSound'
    BY <1>4, SoundConfig
  <1>5. CASE Tick \/ (\E l \in Loop : OtherWrite(l)) \/ (\E h \in Hash : FileLost(h))
               \/ UNCHANGED vars
    BY <1>5, SoundUnmoved DEF Tick, OtherWrite, FileLost, vars
  <1>6. CASE Restart
    <2>1. Sound(Idle)'
      BY DEF Sound, PrepareSound, PutSound, CommitSound, ConfigSound, ReportSound, Idle
    <2>2. \A c \in Call : call'[c] = Idle
      BY <1>6 DEF Restart
    <2> QED
      BY <2>1, <2>2 DEF AllSound, Sound, PrepareSound, PutSound, CommitSound, ConfigSound,
                        ReportSound, Idle
  <1> QED
    BY <1>1, <1>2, <1>3, <1>4, <1>5, <1>6 DEF Next

--------------------------------------------------------------------------------
(***************************************************************************)
(* The ways a step may change what is stored.                              *)
(***************************************************************************)

\* Nothing, but for blobs that are registered.
Quiet == UNCHANGED <<loop, session, manifests, refused>> /\ verified \subseteq verified'

\* A session is opened for what the row is.
Opened(k, t) ==
  /\ session[k] = None
  /\ t.receipt = None
  /\ Negotiated(t.payload)
  /\ t.payload.config = loop[t.payload.loop].config
  /\ t.payload.base = loop[t.payload.loop].base
  /\ session' = [session EXCEPT ![k] = t]
  /\ UNCHANGED <<loop, manifests, verified, refused>>

\* A session is given more time.
Renewed(k, t) ==
  /\ session[k] # None
  /\ t.payload = session[k].payload
  /\ t.receipt = session[k].receipt
  /\ t.expires >= session[k].expires
  /\ session' = [session EXCEPT ![k] = t]
  /\ UNCHANGED <<loop, manifests, verified, refused>>

\* A session is refused that is not for the row and never will be.
RefusedStep(k) ==
  LET s == session[k]
      r == loop[s.payload.loop]
  IN /\ s # None
     /\ s.receipt = None
     /\ s.payload.config < r.config \/ s.payload.base < r.base
     /\ refused' = refused \cup {k}
     /\ UNCHANGED <<loop, session, manifests, verified>>

\* A session is published that is for the row, with blobs that are verified.
PublishStep(k) ==
  LET s == session[k]
      r == loop[s.payload.loop]
  IN /\ s # None
     /\ s.receipt = None
     /\ s.payload.config = r.config
     /\ s.payload.base = r.base
     /\ \A x \in s.payload.content : x.honest /\ x.hash \in verified
     /\ Publish(k)
     /\ UNCHANGED <<verified, refused>>

\* The row n of loop l is written.
RowStep(l, n) ==
  /\ loop' = [loop EXCEPT ![l] = n]
  /\ UNCHANGED <<session, manifests, verified, refused>>

\* A failure is shown that is the row's own.
FailStep(l, e, k, config, base) ==
  /\ config = loop[l].config
  /\ (e = "manifest_conflict") = (base < loop[l].base)
  /\ k # None => /\ session[k] # None
                 /\ session[k].receipt = None
                 /\ session[k].payload.loop = l
  /\ RowStep(l, Failed(loop[l], e, k, config, base))

Step ==
  \/ Quiet
  \/ \E k \in Key : \E t \in Session : Opened(k, t) \/ Renewed(k, t)
  \/ \E k \in Key : RefusedStep(k) \/ PublishStep(k)
  \/ \E l \in Loop : RowStep(l, Bump(loop[l]))
  \/ \E l \in Loop, d \in Dir \cup {None} : RowStep(l, Configured(loop[l], d))
  \/ \E l \in Loop, e \in Error, k \in Key \cup {None}, config \in Nat, base \in Nat :
       FailStep(l, e, k, config, base)

\* A commit that writes publishes, refuses or shows a failure as it may.
LEMMA CommitSteps ==
  ASSUME TypeOK, AllSound, NEW c \in Call, CommitSession(c) \/ CommitTx(c) \/ CommitStamp(c)
  PROVE  Step
PROOF
  <1> DEFINE q == call[c]
             s == session[q.key]
             p == s.payload
             live == loop[p.loop]
  <1>k. /\ q \in CommitHandler /\ q.key \in Key /\ q.row \in View
        /\ s # None /\ s \in Session /\ p \in Payload /\ p.loop \in Loop
        /\ live \in LoopRow
        /\ CommitSound(q)
    <2>1. q.at \in {"commitSession", "commitTx", "stamp"} /\ q \in Handler /\ Sound(q)
      BY DEF CommitSession, CommitTx, CommitStamp, At, TypeOK, AllSound
    <2>2. q \in CommitHandler /\ q.key \in Key /\ q.row \in View
      BY <2>1, Kinds DEF CommitHandler
    <2>3. CommitSound(q) /\ s # None
      BY <2>1 DEF Sound, CommitSound
    <2> QED
      BY SMTT(30), <2>2, <2>3 DEF TypeOK, Session, Payload
  <1>n. /\ now \in Nat /\ p.config \in Nat /\ p.base \in Nat
        /\ live.config \in Nat /\ live.base \in Nat
        /\ q.row.config \in Nat /\ q.row.base \in Nat
    BY SMTT(30), <1>k, BoundsAssumption DEF TypeOK, Payload, LoopRow, View
  <1>b. Basis(q.row, p.loop) /\ p.config <= q.row.config /\ p.base <= q.row.base
    BY <1>k DEF CommitSound, CommitSession, CommitTx, CommitStamp, At
  <1>1. CASE CommitSession(c)
    <2> DEFINE verdict == Verdict(s, q.row)
    <2>1. CASE verdict \in {"config_conflict", "manifest_conflict"}
      <3>1. s.receipt = None /\ (p.config # q.row.config \/ p.base # q.row.base)
        BY <1>k, <2>1, Refuses
      <3>2. p.config < live.config \/ p.base < live.base
        BY <1>b, <1>n, <3>1 DEF Basis
      <3>3. RefusedStep(q.key)
        BY <1>1, <1>k, <2>1, <3>1, <3>2 DEF CommitSession, Learns, RefusedStep
      <3> QED
        BY <1>k, <3>3 DEF Step
    <2>2. CASE verdict \notin {"config_conflict", "manifest_conflict"}
      BY SMTT(30), <1>1, <2>2 DEF CommitSession, Learns, Step, Quiet
    <2> QED
      BY <2>1, <2>2
  <1>2. CASE CommitTx(c)
    <2> DEFINE verdict == Verdict(s, live)
    <2>1. CASE verdict = "proceed" /\ Publish(q.key) /\ UNCHANGED refused
      <3>1. s.receipt = None /\ p.config = live.config /\ p.base = live.base
        BY SMTT(30), <1>k, <1>n, <2>1, Proceeds
      <3>2. \A x \in p.content : x.honest /\ x.hash \in verified
        BY ZenonT(60), <1>2, <1>k DEF CommitTx, At, CommitSound
      <3>3. PublishStep(q.key)
        BY ZenonT(60), <1>2, <1>k, <2>1, <3>1, <3>2 DEF CommitTx, PublishStep
      <3> QED
        BY <1>k, <3>3 DEF Step
    <2>2. CASE /\ verdict \in {"config_conflict", "manifest_conflict"}
               /\ Learns(q.key, verdict)
               /\ UNCHANGED <<loop, session, manifests>>
      <3>1. s.receipt = None /\ (p.config # live.config \/ p.base # live.base)
        BY <1>k, <2>2, Refuses
      <3>2. p.config < live.config \/ p.base < live.base
        BY SMTT(30), <1>b, <1>n, <3>1 DEF Basis
      <3>3. RefusedStep(q.key)
        BY ZenonT(60), <1>2, <1>k, <2>2, <3>1, <3>2 DEF CommitTx, Learns, RefusedStep
      <3> QED
        BY <1>k, <3>3 DEF Step
    <2>3. CASE UNCHANGED <<loop, session, manifests, refused>>
      BY SMTT(30), <1>2, <2>3 DEF CommitTx, Step, Quiet
    <2> QED
      BY <1>2, <2>1, <2>2, <2>3 DEF CommitTx, LiveVerdict, Learns
  <1>3. CASE CommitStamp(c)
    <2>1. CASE UNCHANGED loop
      BY SMTT(30), <1>3, <2>1 DEF CommitStamp, Step, Quiet
    <2>2. CASE /\ StampAdmits(q.row, p.config, live)
               /\ loop' = [loop EXCEPT ![p.loop] =
                             Failed(live, q.error, q.key, p.config, p.base)]
      <3>1. q.at = "stamp" /\ q.error \in Error
        BY ZenonT(60), <1>3, <1>k DEF CommitStamp, At, CommitHandler
      <3>2. q.row.revision = live.revision /\ p.config = live.config /\ q.row.base = live.base
        BY ZenonT(60), <1>b, <2>2 DEF StampAdmits, Basis
      <3>3. s.receipt = None /\ (q.error = "manifest_conflict") = (p.base < live.base)
        BY SMTT(30), <1>k, <3>1, <3>2 DEF CommitSound
      <3>4. FailStep(p.loop, q.error, q.key, p.config, p.base)
        BY <1>3, <1>k, <2>2, <3>2, <3>3 DEF FailStep, RowStep, CommitStamp
      <3> QED
        BY SMTT(30), <1>k, <1>n, <3>1, <3>4 DEF Step
    <2> QED
      BY <1>3, <2>1, <2>2 DEF CommitStamp
  <1> QED
    BY <1>1, <1>2, <1>3

\* Every step changes what is stored in one of these ways.
LEMMA NextSteps == TypeOK /\ AllSound /\ [Next]_vars => Step
PROOF
  <1> SUFFICES ASSUME TypeOK, AllSound, [Next]_vars PROVE Step
    OBVIOUS
  <1>s. SessionsHeld
    BY SoundHolds
  <1>u. ASSUME UNCHANGED <<loop, session, manifests, refused>>, verified \subseteq verified'
        PROVE  Step
    BY <1>u DEF Step, Quiet
  <1>1. ASSUME NEW c \in Call, PrepareInsert(c)
        PROVE  Step
    <2> DEFINE q == call[c]
               t == [payload |-> q.payload, expires |-> q.time + TTL, receipt |-> None]
    <2>1. q \in PrepareHandler /\ Negotiated(q.payload)
      BY <1>1, Kinds DEF PrepareInsert, At, TypeOK, AllSound, Sound, PrepareSound
    <2>2. q.key \in Key /\ q.payload \in Payload /\ q.time + TTL \in Nat
      BY <2>1, BoundsAssumption DEF PrepareHandler
    <2>3. t \in Session
      BY <2>2 DEF Session
    <2>4. CASE session[q.key] = None /\ session' = [session EXCEPT ![q.key] = t]
      <3>2. InsertAdmits(q.revision, loop[q.payload.loop])
        <4>1. session' # session
          BY <2>2, <2>3, <2>4, NullAssumption DEF TypeOK
        <4> QED
          BY <1>1, <4>1 DEF PrepareInsert
      <3>3. Drafted(q)
        BY <1>1, <2>1 DEF PrepareInsert, At, AllSound, Sound, PrepareSound
      <3>1. Opened(q.key, t)
        BY <1>1, <2>1, <2>4, <3>2, <3>3 DEF Opened, PrepareInsert, InsertAdmits, Drafted
      <3> QED
        BY <2>2, <2>3, <3>1 DEF Step
    <2>5. CASE UNCHANGED session
      BY <1>1, <1>u, <2>5 DEF PrepareInsert
    <2> QED
      BY <1>1, <2>4, <2>5 DEF PrepareInsert
  <1>2. ASSUME NEW c \in Call, PrepareRenew(c)
        PROVE  Step
    <2> DEFINE q == call[c]
               s == session[q.key]
               t == [s EXCEPT !.expires = q.time + TTL]
    <2>1. q \in PrepareHandler /\ s # None /\ q.seen <= q.time
      BY <1>2, Kinds DEF PrepareRenew, At, TypeOK, AllSound, Sound, PrepareSound
    <2>2. q.key \in Key /\ q.seen \in Nat /\ q.time \in Nat /\ TTL \in Nat /\ q.time + TTL \in Nat
      BY <2>1, BoundsAssumption DEF PrepareHandler
    <2>3. s \in Session
      BY <2>1, <2>2 DEF TypeOK
    <2>4. t \in Session /\ t.payload = s.payload /\ t.receipt = s.receipt
                       /\ t.expires = q.time + TTL
      BY <2>2, <2>3 DEF Session
    <2>5. CASE RenewAdmits(q, s) /\ session' = [session EXCEPT ![q.key] = t]
      <3>1. t.expires >= s.expires
        BY <2>1, <2>2, <2>4, <2>5 DEF RenewAdmits
      <3>2. Renewed(q.key, t)
        BY <1>2, <2>1, <2>4, <2>5, <3>1 DEF Renewed, PrepareRenew
      <3> QED
        BY <2>2, <2>4, <3>2 DEF Step
    <2>6. CASE UNCHANGED session
      BY <1>2, <1>u, <2>6 DEF PrepareRenew
    <2> QED
      BY <1>2, <2>5, <2>6 DEF PrepareRenew
  <1>3. ASSUME NEW c \in Call, CommitSession(c) \/ CommitTx(c) \/ CommitStamp(c)
        PROVE  Step
    BY <1>3, CommitSteps
  <1>4. ASSUME NEW c \in Call, ConfigWrite(c)
        PROVE  Step
    <2> DEFINE q == call[c]
    <2>1. q.loop \in Loop /\ q.dir \in Dir \cup {None}
      BY <1>4, Kinds DEF ConfigWrite, At, TypeOK, ConfigHandler
    <2>2. CASE UNCHANGED loop
      BY <1>4, <1>u, <2>2 DEF ConfigWrite
    <2>3. CASE loop' = [loop EXCEPT ![q.loop] = Configured(loop[q.loop], q.dir)]
      <3>1. RowStep(q.loop, Configured(loop[q.loop], q.dir))
        BY <1>4, <2>3 DEF RowStep, ConfigWrite
      <3> QED
        BY <2>1, <3>1 DEF Step
    <2> QED
      BY <1>4, <2>2, <2>3 DEF ConfigWrite
  <1>5. ASSUME NEW c \in Call, ReportWrite(c)
        PROVE  Step
    <2> DEFINE q == call[c]
               live == loop[q.loop]
    <2>1. q.loop \in Loop /\ live \in LoopRow /\ q.row \in View
      BY <1>5, Kinds DEF ReportWrite, At, TypeOK, ReportHandler
    <2>2. CASE UNCHANGED loop
      BY <1>5, <1>u, <2>2 DEF ReportWrite
    <2>3. CASE /\ q.row.config = live.config /\ q.row.base = live.base
               /\ loop' = [loop EXCEPT ![q.loop] =
                             Failed(live, "client", None, q.row.config, q.row.base)]
      <3>1. live.config \in Nat /\ live.base \in Nat
        BY <2>1, BoundsAssumption DEF LoopRow
      <3>3. RowStep(q.loop, Failed(live, "client", None, q.row.config, q.row.base))
        BY <1>5, <2>3 DEF RowStep, ReportWrite
      <3>4. ("client" = "manifest_conflict") = (q.row.base < live.base)
        BY <2>3, <3>1
      <3>2. FailStep(q.loop, "client", None, q.row.config, q.row.base)
        BY <2>3, <3>3, <3>4 DEF FailStep
      <3> QED
        BY <2>1, <2>3, <3>1, <3>2 DEF Step, Error
    <2> QED
      BY <1>5, <2>2, <2>3 DEF ReportWrite, StampAdmits
  <1>6. ASSUME NEW l \in Loop, OtherWrite(l)
        PROVE  Step
    <2>1. RowStep(l, Bump(loop[l]))
      BY <1>6 DEF OtherWrite, RowStep, TypeOK
    <2> QED
      BY <2>1 DEF Step
  <1>7. ASSUME NEW c \in Call,
               \/ \E k \in Key : \E p \in Requests(k) : PrepareStart(c, k, p)
               \/ PrepareAgain(c) \/ PrepareSession(c)
               \/ \E k \in Key, h \in Hash : PutStart(c, k, h)
               \/ PutWrite(c) \/ PutRecheck(c) \/ PutRegister(c)
        PROVE  Step
    BY <1>7, <1>u DEF PrepareStart, PrepareAgain, PrepareSession, PutStart, PutWrite,
                      PutRecheck, PutRegister
  <1>8. ASSUME NEW c \in Call,
               \/ \E k \in Key : CommitStart(c, k)
               \/ CommitComplete(c)
               \/ \E l \in Loop, d \in Dir \cup {None} : ConfigStart(c, l, d)
               \/ ConfigAgain(c)
               \/ \E l \in Loop : ReportStart(c, l)
        PROVE  Step
    BY <1>8, <1>u DEF CommitStart, CommitComplete, ConfigStart, ConfigAgain, ReportStart
  <1>9. CASE Tick \/ Restart \/ (\E h \in Hash : FileLost(h)) \/ UNCHANGED vars
    BY <1>9, <1>u DEF Tick, Restart, FileLost, vars
  <1> QED
    BY <1>1, <1>2, <1>3, <1>4, <1>5, <1>6, <1>7, <1>8, <1>9 DEF Next

\* A stored session keeps its receipt unless it is published, and its time only
\* grows.
LEMMA StepSessions ==
  ASSUME TypeOK, Step, NEW k \in Key, session[k] # None
  PROVE  /\ session'[k].receipt = session[k].receipt \/ PublishStep(k)
         /\ session'[k].expires >= session[k].expires
PROOF
  <1>1. session[k] \in Session /\ session[k].expires \in Nat
    BY DEF TypeOK, Session
  <1>2. CASE UNCHANGED session
    BY <1>1, <1>2
  <1>3. ASSUME NEW j \in Key, NEW t \in Session, Opened(j, t) \/ Renewed(j, t)
        PROVE  /\ session'[k].receipt = session[k].receipt
               /\ session'[k].expires >= session[k].expires
    BY <1>1, <1>3 DEF Opened, Renewed, TypeOK
  <1>4. ASSUME NEW j \in Key, PublishStep(j)
        PROVE  /\ session'[k].receipt = session[k].receipt \/ PublishStep(k)
               /\ session'[k].expires >= session[k].expires
    <2>1. CASE j = k
      <3>1. session'[k].expires = session[k].expires
        BY <1>1, <1>4, <2>1 DEF PublishStep, Publish, TypeOK, Session
      <3> QED
        BY <1>1, <1>4, <2>1, <3>1
    <2>2. CASE j # k
      BY <1>1, <1>4, <2>2 DEF PublishStep, Publish, TypeOK
    <2> QED
      BY <2>1, <2>2
  <1>5. ASSUME NEW j \in Key, RefusedStep(j)
        PROVE  UNCHANGED session
    BY <1>5 DEF RefusedStep
  <1> QED
    BY <1>2, <1>3, <1>4, <1>5 DEF Step, Quiet, RowStep, FailStep

\* Sessions stay what they were negotiated for; a refused one stays refused.
LEMMA SessionsNext ==
  ASSUME TypeOK, TypeOK', Forward, Step, SessionsSound
  PROVE  SessionsSound'
PROOF
  <1>1. ASSUME NEW k \in Key, session'[k] # None
        PROVE  Negotiated(session[k].payload)'
    <2>p. PICK p : p = session'[k].payload
      OBVIOUS
    <2>1. p \in Payload /\ p.loop \in Loop
      BY <1>1, <2>p DEF TypeOK, Session, Payload
    <2>2. CASE session[k] # None
      <3>1. p = session[k].payload
        BY <2>2, <2>p DEF Forward, SessionForward
      <3>2. Negotiated(p)
        BY <2>2, <3>1 DEF SessionsSound
      <3>3. Negotiated(p)'
        BY <2>1, <3>2, NegotiatedForward DEF Forward
      <3> QED
        BY <2>p, <3>3 DEF Negotiated
    <2>3. CASE session[k] = None
      <3>1. PICK t \in Session : Opened(k, t)
        BY <1>1, <2>3 DEF Step, Quiet, Opened, Renewed, RefusedStep, PublishStep, Publish,
                          RowStep, FailStep, TypeOK
      <3>2. p = t.payload /\ loop' = loop
        BY <2>p, <3>1 DEF Opened, TypeOK
      <3> QED
        BY SMTT(30), <2>p, <3>1, <3>2 DEF Opened, Negotiated
    <2> QED
      BY <2>2, <2>3
  <1>2. ASSUME NEW k \in refused'
        PROVE  LET s == session'[k]
               IN /\ s # None
                  /\ s.receipt = None
                  /\ \/ s.payload.config < loop'[s.payload.loop].config
                     \/ s.payload.base < loop'[s.payload.loop].base
    <2>k. k \in Key
      BY DEF TypeOK
    <2>1. CASE k \in refused
      <3> DEFINE p == session[k].payload
      <3>1. /\ session[k] # None /\ session[k].receipt = None
            /\ p.config < loop[p.loop].config \/ p.base < loop[p.loop].base
        BY <2>1 DEF SessionsSound
      <3>2. p \in Payload /\ p.loop \in Loop
        BY <2>k, <3>1 DEF TypeOK, Session, Payload
      <3>3. /\ p.config \in Nat /\ p.base \in Nat
            /\ loop[p.loop].config \in Nat /\ loop[p.loop].base \in Nat
            /\ loop'[p.loop].config \in Nat /\ loop'[p.loop].base \in Nat
        BY <3>2, BoundsAssumption DEF TypeOK, Payload, LoopRow
      <3>4. ~PublishStep(k)
        BY <3>1, <3>3 DEF PublishStep
      <3>5. session'[k].receipt = None
        BY <2>k, <3>1, <3>4, StepSessions
      <3>6. session'[k] # None /\ session'[k].payload = p
        BY <2>k, <3>1 DEF Forward, SessionForward
      <3>7. RowForward(p.loop)
        BY <3>2 DEF Forward
      <3>8. p.config < loop'[p.loop].config \/ p.base < loop'[p.loop].base
        BY <3>1, <3>3, <3>7 DEF RowForward, Later
      <3> QED
        BY <3>5, <3>6, <3>8
    <2>2. CASE k \notin refused
      <3>1. RefusedStep(k)
        BY <2>2 DEF Step, Quiet, Opened, Renewed, RefusedStep, PublishStep, RowStep, FailStep
      <3> QED
        BY <3>1 DEF RefusedStep
    <2> QED
      BY <2>1, <2>2
  <1> QED
    BY <1>1, <1>2 DEF SessionsSound

\* Manifests stay the ones their sessions' receipts name, and verified.
LEMMA ManifestsNext ==
  ASSUME TypeOK, TypeOK', Forward, Step, ManifestsSound
  PROVE  ManifestsSound'
PROOF
  <1>1. ASSUME NEW m \in DOMAIN manifests, manifests'[m] = manifests[m]
        PROVE  /\ session'[manifests'[m].session] # None
               /\ session'[manifests'[m].session].receipt = [id |-> m, base |-> manifests'[m].base]
               /\ \A x \in manifests'[m].content : x.honest /\ x.hash \in verified'
    <2> DEFINE k == manifests[m].session
               r == [id |-> m, base |-> manifests[m].base]
    <2>m. m \in Nat /\ manifests[m] \in Manifest
      BY DEF TypeOK
    <2>1. k \in Key /\ r \in Receipt
      BY <2>m DEF Manifest, Receipt
    <2>2. session[k] # None /\ session[k].receipt = r
      BY DEF ManifestsSound
    <2>3. r # None
      BY <2>1, NullAssumption
    <2>4. session'[k] # None
      BY <2>1, <2>2 DEF Forward, SessionForward
    <2>5. session'[k].receipt = r
      BY <2>1, <2>2, <2>3, StepSessions DEF PublishStep
    <2>6. verified \subseteq verified'
      BY DEF Forward
    <2>7. \A x \in manifests[m].content : x.honest /\ x.hash \in verified
      BY DEF ManifestsSound, SnapshotsAreVerified
    <2> QED
      BY <1>1, <2>4, <2>5, <2>6, <2>7
  <1>2. CASE UNCHANGED manifests
    BY <1>1, <1>2 DEF ManifestsSound, SnapshotsAreVerified
  <1>3. ASSUME NEW k \in Key, PublishStep(k)
        PROVE  ManifestsSound'
    <2> DEFINE p  == session[k].payload
               id == Len(manifests) + 1
               b  == loop[p.loop].base + 1
               n  == [loop |-> p.loop, base |-> b, config |-> p.config,
                      content |-> p.content, session |-> k]
    <2>1. manifests' = Append(manifests, n) /\ manifests \in Seq(Manifest)
      BY <1>3 DEF PublishStep, Publish, TypeOK
    <2>2. /\ DOMAIN manifests' = DOMAIN manifests \cup {id}
          /\ manifests'[id] = n
          /\ \A m \in DOMAIN manifests : manifests'[m] = manifests[m]
      BY <2>1
    <2>3. session[k] \in Session /\ session' = [session EXCEPT ![k].receipt = [id |-> id, base |-> b]]
      BY <1>3 DEF PublishStep, Publish, TypeOK
    <2>4. session'[k].receipt = [id |-> id, base |-> b]
      BY <2>3 DEF TypeOK, Session
    <2>5. session'[k] # None
      BY <1>3 DEF PublishStep, Forward, SessionForward
    <2>6. \A x \in p.content : x.honest /\ x.hash \in verified'
      BY <1>3 DEF PublishStep
    <2>7. ASSUME NEW m \in DOMAIN manifests'
          PROVE  /\ session'[manifests'[m].session] # None
                 /\ session'[manifests'[m].session].receipt =
                      [id |-> m, base |-> manifests'[m].base]
                 /\ \A x \in manifests'[m].content : x.honest /\ x.hash \in verified'
      <3>1. CASE m \in DOMAIN manifests
        BY <1>1, <2>2, <3>1
      <3>2. CASE m = id
        BY <2>2, <2>4, <2>5, <2>6, <3>2
      <3> QED
        BY <2>2, <3>1, <3>2
    <2> QED
      BY <2>7 DEF ManifestsSound, SnapshotsAreVerified
  <1> QED
    BY <1>2, <1>3 DEF Step, Quiet, Opened, Renewed, RefusedStep, RowStep, FailStep

\* What ShownSound says of a row.
SuccessSound(r) ==
  r.succeeded => /\ r.dir # None
                 /\ r.head \in DOMAIN manifests
                 /\ manifests[r.head].config = r.config

FailureSound(r, l) ==
  r.failure # None =>
    /\ r.failure.config = r.config
    /\ (r.failure.error = "manifest_conflict") = (r.failure.base < r.base)
    /\ r.failure.by # None => /\ session[r.failure.by] # None
                              /\ session[r.failure.by].receipt = None
                              /\ session[r.failure.by].payload.loop = l

\* A row that stays keeps its state on show, unless its failure was of the session
\* that is published.
LEMMA ShownStays ==
  ASSUME TypeOK, Forward, Step, NEW l \in Loop, NEW r \in LoopRow,
         SuccessSound(r), FailureSound(r, l),
         \A k \in Key : PublishStep(k) => session[k].payload.loop # l \/ r.failure = None
  PROVE  SuccessSound(r)' /\ FailureSound(r, l)'
PROOF
  <1>1. SuccessSound(r)'
    <2>1. \A m \in DOMAIN manifests : m \in DOMAIN manifests' /\ manifests'[m] = manifests[m]
      <3>1. CASE UNCHANGED manifests
        BY <3>1
      <3>2. ASSUME NEW k \in Key, PublishStep(k), NEW m \in DOMAIN manifests
            PROVE  m \in DOMAIN manifests' /\ manifests'[m] = manifests[m]
        <4>1. PICK n : manifests' = Append(manifests, n)
          BY <3>2 DEF PublishStep, Publish
        <4>2. manifests \in Seq(Manifest)
          BY DEF TypeOK
        <4> QED
          BY SMTT(30), <4>1, <4>2
      <3> QED
        BY <3>1, <3>2 DEF Step, Quiet, Opened, Renewed, RefusedStep, RowStep, FailStep
    <2> QED
      BY <2>1 DEF SuccessSound
  <1>2. FailureSound(r, l)'
    <2> SUFFICES ASSUME r.failure # None, r.failure.by # None
                 PROVE  /\ session'[r.failure.by] # None
                        /\ session'[r.failure.by].receipt = None
                        /\ session'[r.failure.by].payload.loop = l
      BY DEF FailureSound
    <2>1. r.failure.by \in Key
      BY DEF LoopRow, Failure
    <2>2. /\ session[r.failure.by] # None
          /\ session[r.failure.by].receipt = None
          /\ session[r.failure.by].payload.loop = l
      BY DEF FailureSound
    <2>3. ~PublishStep(r.failure.by)
      BY <2>1, <2>2
    <2> QED
      BY <2>1, <2>2, <2>3, StepSessions DEF Forward, SessionForward
  <1> QED
    BY <1>1, <1>2

\* The state on show stays current.
LEMMA ShownNext ==
  ASSUME TypeOK, TypeOK', Forward, Step, SessionsSound, ShownSound
  PROVE  ShownSound'
PROOF
  <1> SUFFICES ASSUME NEW l \in Loop
               PROVE  SuccessSound(loop[l])' /\ FailureSound(loop[l], l)'
    BY DEF ShownSound, SuccessSound, FailureSound
  <1>r. loop[l] \in LoopRow /\ loop'[l] \in LoopRow
    BY DEF TypeOK
  <1>s. SuccessSound(loop[l]) /\ FailureSound(loop[l], l)
    BY DEF ShownSound, SuccessSound, FailureSound
  <1>p. ASSUME NEW k \in Key, PublishStep(k), session[k].payload.loop = l
        PROVE  loop'[l] = Published(loop[l], Len(manifests) + 1) /\ loop'[l] # loop[l]
    <2>1. loop'[l] = Published(loop[l], Len(manifests) + 1)
      BY <1>p DEF PublishStep, Publish, Published, TypeOK
    <2>2. Later(loop[l], loop'[l])
      BY <1>r, <2>1, RowsForward
    <2> QED
      BY <1>r, <2>1, <2>2 DEF Later, LoopRow
  <1>u. ASSUME loop'[l] = loop[l]
        PROVE  SuccessSound(loop[l])' /\ FailureSound(loop[l], l)'
    <2>1. PICK r \in LoopRow : r = loop[l]
      BY <1>r
    <2>2. SuccessSound(r)' /\ FailureSound(r, l)'
      BY <1>s, <1>u, <1>p, <2>1, ShownStays
    <2> QED
      BY <1>u, <2>1, <2>2 DEF SuccessSound, FailureSound
  <1>n. ASSUME UNCHANGED <<session, manifests>>, SuccessSound(loop'[l]), FailureSound(loop'[l], l)
        PROVE  SuccessSound(loop[l])' /\ FailureSound(loop[l], l)'
    BY <1>n DEF SuccessSound, FailureSound
  <1>1. ASSUME NEW k \in Key, PublishStep(k)
        PROVE  SuccessSound(loop[l])' /\ FailureSound(loop[l], l)'
    <2> DEFINE p == session[k].payload
               id == Len(manifests) + 1
    <2>1. CASE l = p.loop
      <3>1. loop'[l] = Published(loop[l], id)
        BY <1>1, <1>p, <2>1
      <3>2. /\ loop'[l].failure = None /\ loop'[l].head = id
            /\ loop'[l].dir = loop[l].dir /\ loop'[l].config = loop[l].config
        BY <1>r, <3>1 DEF Published, Bump, LoopRow
      <3>3. id \in DOMAIN manifests' /\ manifests'[id].config = p.config
        BY <1>1 DEF PublishStep, Publish, TypeOK
      <3>4. p.config = loop[l].config /\ session[k] # None
        BY <1>1, <2>1 DEF PublishStep
      <3>5. loop[l].dir # None
        BY <2>1, <3>4 DEF SessionsSound, Negotiated
      <3> QED
        BY <3>2, <3>3, <3>4, <3>5 DEF SuccessSound, FailureSound
    <2>2. CASE l # p.loop
      BY <1>1, <1>u, <2>2 DEF PublishStep, Publish, TypeOK
    <2> QED
      BY <2>1, <2>2
  <1>2. ASSUME NEW j \in Loop, RowStep(j, Bump(loop[j]))
        PROVE  SuccessSound(loop[l])' /\ FailureSound(loop[l], l)'
    <2>1. CASE j = l
      <3>1. loop'[l] = Bump(loop[l])
        BY <1>2, <2>1 DEF RowStep, TypeOK
      <3>2. SuccessSound(loop'[l]) /\ FailureSound(loop'[l], l)
        BY <1>r, <1>s, <3>1 DEF SuccessSound, FailureSound, Bump, LoopRow
      <3> QED
        BY <1>2, <1>n, <3>2 DEF RowStep
    <2>2. CASE j # l
      BY <1>2, <1>u, <2>2 DEF RowStep, TypeOK
    <2> QED
      BY <2>1, <2>2
  <1>3. ASSUME NEW j \in Loop, NEW d \in Dir \cup {None}, RowStep(j, Configured(loop[j], d))
        PROVE  SuccessSound(loop[l])' /\ FailureSound(loop[l], l)'
    <2>1. CASE j = l
      <3>1. loop'[l] = Configured(loop[l], d)
        BY <1>3, <2>1 DEF RowStep, TypeOK
      <3>2. loop'[l].failure = None /\ loop'[l].succeeded = FALSE
        BY <1>r, <3>1 DEF Configured, Bump, LoopRow
      <3> QED
        BY <3>2 DEF SuccessSound, FailureSound
    <2>2. CASE j # l
      BY <1>3, <1>u, <2>2 DEF RowStep, TypeOK
    <2> QED
      BY <2>1, <2>2
  <1>4. ASSUME NEW j \in Loop, NEW e \in Error, NEW k \in Key \cup {None},
               NEW config \in Nat, NEW base \in Nat, FailStep(j, e, k, config, base)
        PROVE  SuccessSound(loop[l])' /\ FailureSound(loop[l], l)'
    <2>1. CASE j = l
      <3>1. loop'[l] = Failed(loop[l], e, k, config, base)
        BY <1>4, <2>1 DEF FailStep, RowStep, TypeOK
      <3>2. /\ loop'[l].failure = [error |-> e, by |-> k, config |-> config, base |-> base]
            /\ loop'[l].config = loop[l].config /\ loop'[l].base = loop[l].base
            /\ loop'[l].succeeded = loop[l].succeeded
            /\ loop'[l].dir = loop[l].dir /\ loop'[l].head = loop[l].head
        BY <1>r, <3>1 DEF Failed, Bump, LoopRow
      <3>3. SuccessSound(loop'[l])
        BY <1>s, <3>2 DEF SuccessSound
      <3>4. FailureSound(loop'[l], l)
        BY <1>4, <2>1, <3>2 DEF FailureSound, FailStep
      <3> QED
        BY <1>4, <1>n, <3>3, <3>4 DEF FailStep, RowStep
    <2>2. CASE j # l
      BY <1>4, <1>u, <2>2 DEF FailStep, RowStep, TypeOK
    <2> QED
      BY <2>1, <2>2
  <1>5. CASE \/ Quiet
             \/ \E k \in Key : \E t \in Session : Opened(k, t) \/ Renewed(k, t)
             \/ \E k \in Key : RefusedStep(k)
    BY <1>5, <1>u DEF Quiet, Opened, Renewed, RefusedStep
  <1> QED
    BY <1>1, <1>2, <1>3, <1>4, <1>5 DEF Step

--------------------------------------------------------------------------------
(***************************************************************************)
(* The invariant and the theorems.                                         *)
(***************************************************************************)

\* The initial states are as the invariant says.
LEMMA InitSound == Init => IInv
PROOF
  <1> SUFFICES ASSUME Init PROVE IInv
    OBVIOUS
  <1>1. \A d \in Dir \cup {None} :
          NewLoop(d) \in LoopRow /\ ~NewLoop(d).succeeded /\ NewLoop(d).failure = None
    BY BoundsAssumption DEF NewLoop, LoopRow
  <1>2. \A l \in Loop : loop[l] \in LoopRow /\ ~loop[l].succeeded /\ loop[l].failure = None
    BY <1>1 DEF Init
  <1>3. TypeOK
    BY <1>1, BoundsAssumption DEF Init, TypeOK, Handler
  <1>4. AllSound
    BY DEF Init, AllSound, Sound, PrepareSound, PutSound, CommitSound, ConfigSound,
           ReportSound, Idle
  <1>5. SessionsSound /\ ManifestsSound
    BY DEF Init, SessionsSound, ManifestsSound, SnapshotsAreVerified
  <1>6. ShownSound
    BY <1>2 DEF ShownSound
  <1> QED
    BY <1>3, <1>4, <1>5, <1>6 DEF IInv

\* Every step keeps the invariant.
LEMMA NextSound == IInv /\ [Next]_vars => IInv'
PROOF
  <1> SUFFICES ASSUME IInv, [Next]_vars PROVE IInv'
    OBVIOUS
  <1>1. TypeOK /\ AllSound /\ SessionsSound /\ ManifestsSound /\ ShownSound
    BY DEF IInv
  <1>2. TypeOK' /\ Forward /\ Step
    BY <1>1, TypeNext, NextForward, NextSteps
  <1>3. AllSound'
    BY <1>1, <1>2, SoundNext
  <1>4. SessionsSound' /\ ManifestsSound' /\ ShownSound'
    BY <1>1, <1>2, SessionsNext, ManifestsNext, ShownNext
  <1> QED
    BY <1>2, <1>3, <1>4 DEF IInv

\* The invariant of the artifact home.
THEOREM ArtifactInvariant == Spec => []IInv
PROOF
  BY InitSound, NextSound, PTL DEF Spec

\* Rows, sessions, manifests and handlers keep the shapes of the schema, and no
\* revision passes its ceiling: prepare, put, commit, config and report.
THEOREM ArtifactTypes == Spec => []TypeOK
PROOF
  <1>1. IInv => TypeOK
    BY DEF IInv
  <1> QED
    BY <1>1, ArtifactInvariant, PTL

\* However commits are repeated, run together or lose their acknowledgement, a
\* session has one snapshot, the one of its receipt.
THEOREM OneSnapshot == Spec => []OneSnapshotPerSession
PROOF
  <1>1. IInv => OneSnapshotPerSession
    BY DEF IInv, ManifestsSound, OneSnapshotPerSession
  <1> QED
    BY <1>1, ArtifactInvariant, PTL

\* A session whose commit was refused for its generation or base is not published.
THEOREM RefusalIsFinal == Spec => []RefusedIsNotPublished
PROOF
  <1>1. IInv => RefusedIsNotPublished
    BY DEF IInv, SessionsSound, RefusedIsNotPublished
  <1> QED
    BY <1>1, ArtifactInvariant, PTL

\* The failure on show is of the generation on show and of no published session.
THEOREM FailureIsCurrent == Spec => []ShownFailureIsCurrent
PROOF
  <1>1. IInv => ShownFailureIsCurrent
    BY DEF IInv, ShownSound, ShownFailureIsCurrent
  <1> QED
    BY <1>1, ArtifactInvariant, PTL

\* The success on show is of the manifest on show, under the current directory.
THEOREM SuccessIsCurrent == Spec => []ShownSuccessIsCurrent
PROOF
  <1>1. IInv => ShownSuccessIsCurrent
    BY DEF IInv, ShownSound, ShownSuccessIsCurrent
  <1> QED
    BY <1>1, ArtifactInvariant, PTL

\* Every blob of a published manifest was verified against its declared size.
THEOREM SnapshotsVerified == Spec => []SnapshotsAreVerified
PROOF
  <1>1. IInv => SnapshotsAreVerified
    BY DEF IInv, ManifestsSound
  <1> QED
    BY <1>1, ArtifactInvariant, PTL

\* The time a session is granted never shrinks: renewals that race converge.
THEOREM ExpiryGrows == Spec => ExpiryNeverShrinks
PROOF
  <1>1. IInv /\ [Next]_vars =>
          [\A k \in Key : session[k] # None => session'[k].expires >= session[k].expires]_vars
    <2> SUFFICES ASSUME IInv, [Next]_vars, NEW k \in Key, session[k] # None
                 PROVE  session'[k].expires >= session[k].expires
      OBVIOUS
    <2>1. TypeOK /\ Step
      BY NextSteps DEF IInv
    <2> QED
      BY <2>1, StepSessions
  <1> QED
    BY <1>1, ArtifactInvariant, PTL DEF Spec, ExpiryNeverShrinks

\* What is published is sound: one verified snapshot for a session, none for one
\* that was told it lost.
THEOREM PublishedSafety == Spec => []PublishedIsSound
PROOF
  <1>1. TypeOK /\ OneSnapshotPerSession /\ RefusedIsNotPublished /\ SnapshotsAreVerified
          => PublishedIsSound
    BY DEF PublishedIsSound
  <1> QED
    BY <1>1, ArtifactTypes, OneSnapshot, RefusalIsFinal, SnapshotsVerified, PTL

\* The failure and the success on show are of the generation on show.
THEOREM ShownSafety == Spec => []ShownStateIsCurrent
PROOF
  <1>1. ShownFailureIsCurrent /\ ShownSuccessIsCurrent => ShownStateIsCurrent
    BY DEF ShownStateIsCurrent
  <1> QED
    BY <1>1, FailureIsCurrent, SuccessIsCurrent, PTL

--------------------------------------------------------------------------------
(***************************************************************************)
(* The log of a loop: what one more manifest adds to it.                   *)
(***************************************************************************)

\* A number that has a property has a least one that has it.
LEMMA LeastNumber ==
  ASSUME NEW T \in SUBSET Nat, T # {}
  PROVE  \E x \in T : \A y \in T : x <= y
PROOF
  <1>1. IsWellFoundedOn(OpToRel(<, Nat), Nat)
    BY NatLessThanWellFounded
  <1>2. PICK x \in T : \A y \in T : <<y, x>> \notin OpToRel(<, Nat)
    BY <1>1, WFMin
  <1>3. \A y \in T : ~(y < x)
    BY <1>2 DEF OpToRel
  <1> QED
    BY <1>3

\* What the log keeps of a manifest.
SnapshotOf(m) == [session |-> m.session, content |-> m.content]

\* A manifest more, after the snapshots log of the earlier ones.
Extended(log, m, l) == IF m.loop = l THEN Append(log, SnapshotOf(m)) ELSE log

\* g has the snapshots of loop l among the first i manifests, for every i <= n.
Table(g, s, l, n) ==
  g = [i \in 0..n |-> IF i = 0 THEN <<>> ELSE Extended(g[i - 1], s[i], l)]

\* Such a table exists: the recursion of Snapshots defines a function.
LEMMA TableExists ==
  ASSUME NEW s, NEW l, NEW n \in Nat
  PROVE  \E g : Table(g, s, l, n)
PROOF
  <1> DEFINE T == {k \in Nat : ~\E g : Table(g, s, l, k)}
  <1>1. CASE T = {}
    BY <1>1
  <1>2. CASE T # {}
    <2>1. PICK k \in T : \A y \in T : k <= y
      <3>1. T \in SUBSET Nat
        OBVIOUS
      <3> HIDE DEF T
      <3> QED
        BY <1>2, <3>1, LeastNumber
    <2>2. CASE k = 0
      <3> DEFINE g == [i \in 0..0 |-> <<>>]
      <3>1. Table(g, s, l, 0)
        BY DEF Table
      <3> QED
        BY <2>1, <2>2, <3>1
    <2>3. CASE k # 0
      <3>1. k - 1 \in Nat /\ k \in Nat /\ k - 1 \notin T
        BY <2>1, <2>3
      <3>2. PICK g : Table(g, s, l, k - 1)
        BY <3>1
      <3> DEFINE h == [i \in 0..k |-> IF i = k THEN Extended(g[k - 1], s[k], l) ELSE g[i]]
      <3>3. \A i \in 0..(k - 1) : g[i] = IF i = 0 THEN <<>> ELSE Extended(g[i - 1], s[i], l)
        BY <3>2 DEF Table
      <3>4. \A i \in 0..k : h[i] = IF i = 0 THEN <<>> ELSE Extended(h[i - 1], s[i], l)
        <4> TAKE i \in 0..k
        <4>1. CASE i = k
          <5>1. h[i] = Extended(g[k - 1], s[k], l) /\ h[k - 1] = g[k - 1]
            BY <3>1, <4>1
          <5> QED
            BY <2>3, <4>1, <5>1
        <4>2. CASE i # k
          <5>1. h[i] = g[i] /\ i \in 0..(k - 1)
            BY <3>1, <4>2
          <5>2. i # 0 => h[i - 1] = g[i - 1]
            BY <3>1, <4>2
          <5> QED
            BY <3>3, <5>1, <5>2
        <4> QED
          BY <4>1, <4>2
      <3>5. h = [i \in 0..k |-> h[i]]
        OBVIOUS
      <3> HIDE DEF h
      <3>6. h = [i \in 0..k |-> IF i = 0 THEN <<>> ELSE Extended(h[i - 1], s[i], l)]
        BY <3>4, <3>5
      <3>7. Table(h, s, l, k)
        BY <3>6 DEF Table
      <3> QED
        BY <2>1, <3>7
    <2> QED
      BY <2>2, <2>3
  <1> QED
    BY <1>1, <1>2

\* Snapshots is the last entry of one.
LEMMA SnapshotsFromTable ==
  ASSUME NEW s, NEW l, Len(s) \in Nat
  PROVE  \E g : Table(g, s, l, Len(s)) /\ Snapshots(s, l) = g[Len(s)]
PROOF
  <1> DEFINE Q == CHOOSE g : g = [n \in 0..Len(s) |->
                     IF n = 0 THEN <<>>
                     ELSE IF s[n].loop = l
                          THEN Append(g[n - 1], [session |-> s[n].session,
                                                 content |-> s[n].content])
                          ELSE g[n - 1]]
  <1>1. \E g : g = [n \in 0..Len(s) |->
                     IF n = 0 THEN <<>>
                     ELSE IF s[n].loop = l
                          THEN Append(g[n - 1], [session |-> s[n].session,
                                                 content |-> s[n].content])
                          ELSE g[n - 1]]
    <2>1. \E g : Table(g, s, l, Len(s))
      BY TableExists
    <2> QED
      BY <2>1, Zenon DEF Table, Extended, SnapshotOf
  <1>2. Q = [n \in 0..Len(s) |->
                     IF n = 0 THEN <<>>
                     ELSE IF s[n].loop = l
                          THEN Append(Q[n - 1], [session |-> s[n].session,
                                                 content |-> s[n].content])
                          ELSE Q[n - 1]]
    BY <1>1, Zenon
  <1>3. Snapshots(s, l) = Q[Len(s)]
    BY Zenon DEF Snapshots
  <1> HIDE DEF Q
  <1> QED
    BY <1>2, <1>3, Zenon DEF Table, Extended, SnapshotOf

\* The log grows by the snapshot of a manifest of its loop.
LEMMA SnapshotsAppend ==
  ASSUME NEW S, NEW s \in Seq(S), NEW m \in S, NEW l
  PROVE  Snapshots(Append(s, m), l) = Extended(Snapshots(s, l), m, l)
PROOF
  <1>p. PICK t, n, k : t = Append(s, m) /\ n = Len(s) /\ k = n + 1
    OBVIOUS
  <1>1. /\ n \in Nat /\ k \in Nat /\ n <= k
        /\ Len(t) = k /\ t[k] = m /\ \A i \in 1..n : s[i] = t[i]
    BY <1>p
  <1>2. PICK g : Table(g, s, l, n) /\ Snapshots(s, l) = g[n]
    BY <1>p, <1>1, SnapshotsFromTable, Zenon
  <1>3. PICK h : Table(h, t, l, k) /\ Snapshots(t, l) = h[k]
    BY <1>1, SnapshotsFromTable, Zenon
  <1>4. g[n] = h[n]
    <2> DEFINE T == {i \in 0..n : g[i] # h[i]}
    <2>1. /\ g[0] = <<>> /\ h[0] = <<>>
          /\ \A i \in 1..n : g[i] = Extended(g[i - 1], s[i], l)
          /\ \A i \in 1..n : h[i] = Extended(h[i - 1], t[i], l)
      BY <1>1, <1>2, <1>3 DEF Table
    <2>2. ASSUME T # {} PROVE FALSE
      <3>1. PICK i \in T : \A y \in T : i <= y
        <4>1. T \in SUBSET Nat
          BY <1>1
        <4> HIDE DEF T
        <4> QED
          BY <2>2, <4>1, LeastNumber
      <3>2. i # 0
        BY <2>1, <3>1
      <3>3. i \in 1..n /\ i - 1 \in 0..n /\ i - 1 \notin T
        BY <1>1, <3>1, <3>2
      <3>4. g[i - 1] = h[i - 1]
        BY <3>3
      <3> QED
        BY <1>1, <2>1, <3>1, <3>3, <3>4
    <2> QED
      BY <1>1, <2>2
  <1>5. h[k] = Extended(h[n], t[k], l)
    <2>1. k \in 0..k /\ k # 0 /\ k - 1 = n
      BY <1>p, <1>1
    <2> QED
      BY <1>3, <2>1 DEF Table
  <1> QED
    BY <1>p, <1>1, <1>2, <1>3, <1>4, <1>5, Zenon

\* No manifest, no snapshot.
LEMMA SnapshotsEmpty ==
  ASSUME NEW l PROVE Snapshots(<<>>, l) = <<>>
PROOF
  <1>1. PICK g : Table(g, <<>>, l, 0) /\ Snapshots(<<>>, l) = g[0]
    BY SnapshotsFromTable
  <1> QED
    BY <1>1 DEF Table

--------------------------------------------------------------------------------
(***************************************************************************)
(* The artifact home implements ArtifactLog.                               *)
(***************************************************************************)

\* The base of a loop is the length of its log.
LogSound ==
  \A l \in Loop : /\ LogOf(l) \in Seq([session: Key, content: Content])
                  /\ Len(LogOf(l)) = loop[l].base

\* A publication adds its snapshot to the log of its loop, and to no other.
LEMMA PublishAppends ==
  ASSUME TypeOK, TypeOK', NEW k \in Key, session[k] # None, Publish(k), NEW l \in Loop
  PROVE  LET p == session[k].payload
         IN LogOf(l)' = IF l = p.loop
                        THEN Append(LogOf(l), [session |-> k, content |-> p.content])
                        ELSE LogOf(l)
PROOF
  <1> DEFINE p == session[k].payload
  <1>p. PICK m : m = [loop |-> p.loop, base |-> loop[p.loop].base + 1, config |-> p.config,
                      content |-> p.content, session |-> k]
    OBVIOUS
  <1>1. manifests' = Append(manifests, m)
    BY <1>p DEF Publish
  <1>2. m \in Manifest
    <2>1. /\ Len(manifests) + 1 \in DOMAIN manifests'
          /\ manifests'[Len(manifests) + 1] = m
      BY <1>1 DEF TypeOK
    <2> QED
      BY <2>1 DEF TypeOK
  <1>3. Snapshots(Append(manifests, m), l) = Extended(Snapshots(manifests, l), m, l)
    <2>1. manifests \in Seq(Manifest)
      BY DEF TypeOK
    <2> QED
      BY <1>2, <2>1, SnapshotsAppend, Zenon
  <1>4. m.loop = p.loop /\ SnapshotOf(m) = [session |-> k, content |-> p.content]
    BY <1>p DEF SnapshotOf
  <1>5. LogOf(l)' = Extended(LogOf(l), m, l)
    BY <1>1, <1>3, Zenon DEF LogOf
  <1> QED
    BY <1>4, <1>5 DEF Extended

\* Every step keeps the log as long as the base says.
LEMMA LogSoundNext ==
  ASSUME TypeOK, TypeOK', Step, LogSound
  PROVE  LogSound'
PROOF
  <1> SUFFICES ASSUME NEW l \in Loop
               PROVE  /\ LogOf(l)' \in Seq([session: Key, content: Content])
                      /\ Len(LogOf(l)') = loop'[l].base
    BY DEF LogSound
  <1>r. loop[l] \in LoopRow /\ loop'[l] \in LoopRow
    BY DEF TypeOK
  <1>l. /\ LogOf(l) \in Seq([session: Key, content: Content])
        /\ Len(LogOf(l)) = loop[l].base
    BY DEF LogSound
  <1>u. ASSUME UNCHANGED manifests, loop'[l].base = loop[l].base
        PROVE  /\ LogOf(l)' \in Seq([session: Key, content: Content])
               /\ Len(LogOf(l)') = loop'[l].base
    <2>1. LogOf(l)' = LogOf(l)
      BY <1>u DEF LogOf
    <2> QED
      BY <1>u, <1>l, <2>1
  <1>1. ASSUME NEW k \in Key, PublishStep(k)
        PROVE  /\ LogOf(l)' \in Seq([session: Key, content: Content])
               /\ Len(LogOf(l)') = loop'[l].base
    <2> DEFINE p == session[k].payload
    <2>1. session[k] # None /\ Publish(k)
      BY <1>1 DEF PublishStep
    <2>2. p \in Payload /\ p.content \in Content
      BY <2>1 DEF TypeOK, Session, Payload
    <2>3. CASE l = p.loop
      <3>1. LogOf(l)' = Append(LogOf(l), [session |-> k, content |-> p.content])
        BY <2>1, <2>3, PublishAppends
      <3>2. loop'[l] = Published(loop[l], Len(manifests) + 1)
        BY <2>1, <2>3 DEF Publish, Published, TypeOK
      <3>3. loop'[l].base = loop[l].base + 1
        BY <1>r, <3>2 DEF Published, Bump, LoopRow
      <3>4. [session |-> k, content |-> p.content] \in [session: Key, content: Content]
        BY <2>2
      <3> QED
        BY <1>l, <3>1, <3>3, <3>4
    <2>4. CASE l # p.loop
      <3>1. LogOf(l)' = LogOf(l)
        BY <2>1, <2>4, PublishAppends
      <3>2. loop'[l] = loop[l]
        BY <2>1, <2>2, <2>4 DEF Publish, TypeOK, Payload
      <3> QED
        BY <1>l, <3>1, <3>2
    <2> QED
      BY <2>3, <2>4
  <1>2. ASSUME NEW j \in Loop, NEW n, RowStep(j, n), n.base = loop[j].base
        PROVE  /\ LogOf(l)' \in Seq([session: Key, content: Content])
               /\ Len(LogOf(l)') = loop'[l].base
    <2>1. loop'[l].base = loop[l].base /\ UNCHANGED manifests
      BY <1>2 DEF RowStep, TypeOK
    <2> QED
      BY <1>u, <2>1
  <1>3. ASSUME NEW j \in Loop
        PROVE  /\ Bump(loop[j]).base = loop[j].base
               /\ \A d : Configured(loop[j], d).base = loop[j].base
               /\ \A e, k, config, base :
                    Failed(loop[j], e, k, config, base).base = loop[j].base
    <2>1. loop[j] \in LoopRow
      BY DEF TypeOK
    <2> QED
      BY <2>1 DEF Bump, Configured, Failed, LoopRow
  <1>4. CASE \/ Quiet
             \/ \E k \in Key : \E t \in Session : Opened(k, t) \/ Renewed(k, t)
             \/ \E k \in Key : RefusedStep(k)
    BY <1>4, <1>u DEF Quiet, Opened, Renewed, RefusedStep
  <1>5. CASE \E j \in Loop : RowStep(j, Bump(loop[j]))
    BY <1>2, <1>3, <1>5
  <1>6. CASE \E j \in Loop, d \in Dir \cup {None} : RowStep(j, Configured(loop[j], d))
    BY <1>2, <1>3, <1>6
  <1>7. ASSUME NEW j \in Loop, NEW e \in Error, NEW k \in Key \cup {None},
               NEW config \in Nat, NEW base \in Nat, FailStep(j, e, k, config, base)
        PROVE  /\ LogOf(l)' \in Seq([session: Key, content: Content])
               /\ Len(LogOf(l)') = loop'[l].base
    <2>1. RowStep(j, Failed(loop[j], e, k, config, base))
      BY <1>7 DEF FailStep
    <2> QED
      BY <1>2, <1>3, <2>1
  <1> QED
    BY <1>1, <1>4, <1>5, <1>6, <1>7 DEF Step

\* What a step leaves alone of the four functions, it leaves alone of the abstract
\* state.
LEMMA LogStutters ==
  ASSUME UNCHANGED manifests,
         \A l \in Loop : loop'[l].config = loop[l].config,
         \A k \in Key : TicketOf(k)' = TicketOf(k) /\ ReceiptOf(k)' = ReceiptOf(k)
  PROVE  UNCHANGED Log!vars
PROOF
  <1>1. [l \in Loop |-> LogOf(l)]' = [l \in Loop |-> LogOf(l)]
    BY DEF LogOf
  <1>2. [l \in Loop |-> loop[l].config]' = [l \in Loop |-> loop[l].config]
    OBVIOUS
  <1>3. [k \in Key |-> TicketOf(k)]' = [k \in Key |-> TicketOf(k)]
    OBVIOUS
  <1>4. [k \in Key |-> ReceiptOf(k)]' = [k \in Key |-> ReceiptOf(k)]
    OBVIOUS
  <1> QED
    BY <1>1, <1>2, <1>3, <1>4 DEF Log!vars

\* A session that is there and keeps its payload and its receipt keeps its ticket and
\* its place.
LEMMA SeenAlike ==
  ASSUME NEW k \in Key,
         \/ session'[k] = session[k]
         \/ /\ session[k] # None /\ session'[k] # None
            /\ session'[k].payload = session[k].payload
            /\ session'[k].receipt = session[k].receipt
  PROVE  TicketOf(k)' = TicketOf(k) /\ ReceiptOf(k)' = ReceiptOf(k)
PROOF
  BY DEF TicketOf, ReceiptOf

\* Opening a session is Open.
LEMMA OpenedIsOpen ==
  ASSUME TypeOK, LogSound, NEW k \in Key, NEW t \in Session, Opened(k, t)
  PROVE  \E l \in Loop, e \in Content : Log!Open(k, l, e)
PROOF
  <1> DEFINE p == t.payload
  <1>1. p \in Payload /\ p.loop \in Loop /\ p.content \in Content /\ t # None
    BY NullAssumption DEF Session, Payload
  <1>2. /\ p.config = loop[p.loop].config
        /\ p.base = Len(LogOf(p.loop))
    BY <1>1 DEF Opened, LogSound
  <1>3. /\ session'[k] = t /\ session[k] = None
        /\ \A j \in Key : j # k => session'[j] = session[j]
    BY DEF Opened, TypeOK
  <1>4. /\ TicketOf(k) = None
        /\ TicketOf(k)' = [loop |-> p.loop, base |-> Len(LogOf(p.loop)),
                           generation |-> loop[p.loop].config, content |-> p.content]
        /\ \A j \in Key : j # k => TicketOf(j)' = TicketOf(j)
    BY <1>1, <1>2, <1>3 DEF TicketOf
  <1>5. \A j \in Key : ReceiptOf(j)' = ReceiptOf(j)
    BY <1>3 DEF ReceiptOf, Opened
  <1>6. UNCHANGED <<loop, manifests>>
    BY DEF Opened
  <1>7. [l \in Loop |-> LogOf(l)]' = [l \in Loop |-> LogOf(l)]
    BY <1>6 DEF LogOf
  <1>8. [l \in Loop |-> loop[l].config]' = [l \in Loop |-> loop[l].config]
    BY <1>6
  <1>9. [j \in Key |-> ReceiptOf(j)]' = [j \in Key |-> ReceiptOf(j)]
    BY <1>5
  <1>10. [j \in Key |-> TicketOf(j)]' =
           [[j \in Key |-> TicketOf(j)] EXCEPT ![k] =
              [loop |-> p.loop, base |-> Len([l \in Loop |-> LogOf(l)][p.loop]),
               generation |-> [l \in Loop |-> loop[l].config][p.loop],
               content |-> p.content]]
    BY <1>1, <1>4
  <1>11. Log!Open(k, p.loop, p.content)
    BY <1>4, <1>7, <1>8, <1>9, <1>10 DEF Log!Open
  <1> QED
    BY <1>1, <1>11

\* The transaction of a commit is Publish.
LEMMA PublishStepIsPublish ==
  ASSUME TypeOK, TypeOK', LogSound, NEW k \in Key, PublishStep(k)
  PROVE  Log!Publish(k)
PROOF
  <1> DEFINE s == session[k]
             p == s.payload
             r == loop[p.loop]
  <1>1. /\ s # None /\ s.receipt = None /\ s \in Session /\ Publish(k)
        /\ p \in Payload /\ p.loop \in Loop
        /\ p.config = r.config /\ p.base = r.base
    BY DEF PublishStep, TypeOK, Session, Payload
  <1>2. r \in LoopRow /\ p.base = Len(LogOf(p.loop))
    BY <1>1 DEF TypeOK, LogSound
  <1>3. \A l \in Loop : loop'[l].config = loop[l].config
    <2> TAKE l \in Loop
    <2>1. CASE l = p.loop
      <3>1. loop'[l] = Published(r, Len(manifests) + 1)
        BY <1>1, <2>1 DEF Publish, Published, TypeOK
      <3> QED
        BY <1>2, <2>1, <3>1 DEF Published, Bump, LoopRow
    <2>2. CASE l # p.loop
      BY <1>1, <2>2 DEF Publish, TypeOK
    <2> QED
      BY <2>1, <2>2
  <1>4. /\ session'[k] = [s EXCEPT !.receipt = [id |-> Len(manifests) + 1, base |-> r.base + 1]]
        /\ \A j \in Key : j # k => session'[j] = session[j]
    BY <1>1 DEF Publish, TypeOK
  <1>5. /\ session'[k] # None /\ session'[k].payload = p
        /\ session'[k].receipt = [id |-> Len(manifests) + 1, base |-> r.base + 1]
        /\ session'[k].receipt # None
    <2>1. /\ session'[k].payload = p
          /\ session'[k].receipt = [id |-> Len(manifests) + 1, base |-> r.base + 1]
      BY <1>1, <1>4 DEF Session
    <2>2. Len(manifests) + 1 \in Nat /\ r.base + 1 \in Nat
      <3>1. r.base \in 0..RevisionMax /\ RevisionMax \in Nat
        BY <1>2, BoundsAssumption DEF LoopRow
      <3>2. manifests \in Seq(Manifest)
        BY DEF TypeOK
      <3> QED
        BY <3>1, <3>2
    <2>3. session'[k].receipt \in Receipt
      BY <2>1, <2>2 DEF Receipt
    <2>4. session'[k] \in Session
      BY <1>1, <1>4, <2>1, <2>3 DEF Session
    <2> QED
      BY <2>1, <2>3, <2>4, NullAssumption
  <1>6. \A j \in Key : TicketOf(j)' = TicketOf(j)
    BY <1>1, <1>4, <1>5 DEF TicketOf
  <1>7. /\ TicketOf(k) = [loop |-> p.loop, base |-> p.base, generation |-> p.config,
                          content |-> p.content]
        /\ TicketOf(k) # None
    <2>1. TicketOf(k) = [loop |-> p.loop, base |-> p.base, generation |-> p.config,
                         content |-> p.content]
      BY <1>1 DEF TicketOf
    <2>2. TicketOf(k) \in [loop: Loop, base: Nat, generation: Nat, content: Content]
      BY <1>1, <2>1 DEF Payload
    <2> QED
      BY <2>1, <2>2, TicketAssumption
  <1>8. /\ ReceiptOf(k) = None
        /\ ReceiptOf(k)' = p.base + 1
        /\ \A j \in Key : j # k => ReceiptOf(j)' = ReceiptOf(j)
    BY <1>1, <1>4, <1>5 DEF ReceiptOf
  <1>9. \A l \in Loop : LogOf(l)' =
          IF l = p.loop THEN Append(LogOf(l), [session |-> k, content |-> p.content])
          ELSE LogOf(l)
    BY <1>1, PublishAppends
  <1> DEFINE tickets == [j \in Key |-> TicketOf(j)]
             logs == [l \in Loop |-> LogOf(l)]
             configs == [l \in Loop |-> loop[l].config]
             places == [j \in Key |-> ReceiptOf(j)]
  <1>10. tickets' = tickets /\ configs' = configs
    BY <1>3, <1>6
  <1>11. /\ tickets[k].loop = p.loop /\ tickets[k].base = p.base
         /\ tickets[k].generation = p.config /\ tickets[k].content = p.content
         /\ tickets[k] # None
    BY <1>7
  <1>12. logs' = [logs EXCEPT ![p.loop] = Append(@, [session |-> k, content |-> p.content])]
    BY <1>1, <1>9
  <1>13. places' = [places EXCEPT ![k] = p.base + 1] /\ places[k] = None
    BY <1>8
  <1>14. p.base = Len(logs[p.loop]) /\ p.config = configs[p.loop]
    BY <1>1, <1>2
  <1> QED
    BY <1>10, <1>11, <1>12, <1>13, <1>14 DEF Log!Publish

\* A new configuration is Reconfigure.
LEMMA ConfiguredIsReconfigure ==
  ASSUME TypeOK, NEW l \in Loop, NEW d, RowStep(l, Configured(loop[l], d))
  PROVE  Log!Reconfigure(l)
PROOF
  <1>1. loop[l] \in LoopRow
    BY DEF TypeOK
  <1>2. Configured(loop[l], d).config = loop[l].config + 1
    BY <1>1 DEF Configured, Bump, LoopRow
  <1>3. [j \in Loop |-> loop[j].config]' =
          [[j \in Loop |-> loop[j].config] EXCEPT ![l] = @ + 1]
    BY <1>2 DEF RowStep, TypeOK
  <1>4. UNCHANGED <<session, manifests>>
    BY DEF RowStep
  <1>5. [j \in Loop |-> LogOf(j)]' = [j \in Loop |-> LogOf(j)]
    BY <1>4 DEF LogOf
  <1>6. /\ [k \in Key |-> TicketOf(k)]' = [k \in Key |-> TicketOf(k)]
        /\ [k \in Key |-> ReceiptOf(k)]' = [k \in Key |-> ReceiptOf(k)]
    BY <1>4 DEF TicketOf, ReceiptOf
  <1> QED
    BY <1>3, <1>5, <1>6 DEF Log!Reconfigure

\* Every step is one of ArtifactLog or leaves the log and its sessions alone.
LEMMA StepSimulates ==
  ASSUME TypeOK, TypeOK', LogSound, Step
  PROVE  [Log!Next]_(Log!vars)
PROOF
  <1>1. ASSUME NEW k \in Key, NEW t \in Session, Opened(k, t)
        PROVE  Log!Next
    BY <1>1, OpenedIsOpen DEF Log!Next
  <1>2. ASSUME NEW k \in Key, PublishStep(k)
        PROVE  Log!Next
    BY <1>2, PublishStepIsPublish DEF Log!Next
  <1>3. ASSUME NEW l \in Loop, NEW d \in Dir \cup {None}, RowStep(l, Configured(loop[l], d))
        PROVE  Log!Next
    BY <1>3, ConfiguredIsReconfigure DEF Log!Next
  <1>4. CASE Quiet \/ \E k \in Key : RefusedStep(k)
    <2>1. UNCHANGED <<loop, session, manifests>>
      BY <1>4 DEF Quiet, RefusedStep
    <2>2. \A k \in Key : TicketOf(k)' = TicketOf(k) /\ ReceiptOf(k)' = ReceiptOf(k)
      BY <2>1, SeenAlike
    <2> QED
      BY <2>1, <2>2, LogStutters
  <1>5. ASSUME NEW k \in Key, NEW t \in Session, Renewed(k, t)
        PROVE  UNCHANGED Log!vars
    <2>1. t # None
      BY NullAssumption
    <2>2. \A j \in Key : TicketOf(j)' = TicketOf(j) /\ ReceiptOf(j)' = ReceiptOf(j)
      <3> TAKE j \in Key
      <3>1. CASE j = k
        <4>1. /\ session[j] # None /\ session'[j] = t
              /\ t.payload = session[j].payload /\ t.receipt = session[j].receipt
          BY <1>5, <3>1 DEF Renewed, TypeOK
        <4> QED
          BY <2>1, <4>1, SeenAlike
      <3>2. CASE j # k
        <4>1. session'[j] = session[j]
          BY <1>5, <3>2 DEF Renewed, TypeOK
        <4> QED
          BY <4>1, SeenAlike
      <3> QED
        BY <3>1, <3>2
    <2> QED
      BY <1>5, <2>2, LogStutters DEF Renewed
  <1>6. ASSUME NEW l \in Loop, NEW n, RowStep(l, n), n.config = loop[l].config
        PROVE  UNCHANGED Log!vars
    <2>1. UNCHANGED <<session, manifests>> /\ \A j \in Loop : loop'[j].config = loop[j].config
      BY <1>6 DEF RowStep, TypeOK
    <2>2. \A k \in Key : TicketOf(k)' = TicketOf(k) /\ ReceiptOf(k)' = ReceiptOf(k)
      BY <2>1, SeenAlike
    <2> QED
      BY <2>1, <2>2, LogStutters
  <1>7. ASSUME NEW l \in Loop
        PROVE  /\ Bump(loop[l]).config = loop[l].config
               /\ \A e, k, config, base :
                    Failed(loop[l], e, k, config, base).config = loop[l].config
    <2>1. loop[l] \in LoopRow
      BY DEF TypeOK
    <2> QED
      BY <2>1 DEF Bump, Failed, LoopRow
  <1>8. CASE \E l \in Loop : RowStep(l, Bump(loop[l]))
    BY <1>6, <1>7, <1>8
  <1>9. ASSUME NEW l \in Loop, NEW e \in Error, NEW k \in Key \cup {None},
               NEW config \in Nat, NEW base \in Nat, FailStep(l, e, k, config, base)
        PROVE  UNCHANGED Log!vars
    <2>1. RowStep(l, Failed(loop[l], e, k, config, base))
      BY <1>9 DEF FailStep
    <2> QED
      BY <1>6, <1>7, <2>1
  <1> QED
    BY <1>1, <1>2, <1>3, <1>4, <1>5, <1>8, <1>9 DEF Step

\* The log of every loop begins empty, with no session.
LEMMA InitLog == Init => LogSound /\ Log!Init
PROOF
  <1> SUFFICES ASSUME Init PROVE LogSound /\ Log!Init
    OBVIOUS
  <1>1. \A d \in Dir \cup {None} : NewLoop(d).base = 0 /\ NewLoop(d).config \in {0, 1}
    BY DEF NewLoop
  <1>2. \A l \in Loop : loop[l].base = 0 /\ loop[l].config \in {0, 1}
    BY <1>1 DEF Init
  <1>3. \A l \in Loop : LogOf(l) = <<>>
    BY SnapshotsEmpty DEF Init, LogOf
  <1>4. LogSound
    <2>1. <<>> \in Seq([session: Key, content: Content]) /\ Len(<<>>) = 0
      OBVIOUS
    <2> QED
      BY <1>2, <1>3, <2>1, Zenon DEF LogSound
  <1>5. \A k \in Key : TicketOf(k) = None /\ ReceiptOf(k) = None
    BY DEF Init, TicketOf, ReceiptOf
  <1>6. [l \in Loop |-> LogOf(l)] = [l \in Loop |-> <<>>]
    BY <1>3
  <1>7. [l \in Loop |-> loop[l].config] \in [Loop -> {0, 1}]
    BY <1>2
  <1>8. /\ [k \in Key |-> TicketOf(k)] = [k \in Key |-> None]
        /\ [k \in Key |-> ReceiptOf(k)] = [k \in Key |-> None]
    BY <1>5
  <1>9. Log!Init
    BY <1>6, <1>7, <1>8 DEF Log!Init
  <1> QED
    BY <1>4, <1>9

\* Between prepare's reads and its insert, and between commit's reads and its
\* transaction, any call may run; still a session is opened for the end of the log as
\* it then is, and appends at that place, once, or never.
THEOREM LogSafety == Spec => ImplementsLog
PROOF
  <1>1. IInv /\ LogSound /\ [Next]_vars => LogSound' /\ [Log!Next]_(Log!vars)
    <2> SUFFICES ASSUME IInv, LogSound, [Next]_vars
                 PROVE  LogSound' /\ [Log!Next]_(Log!vars)
      OBVIOUS
    <2>1. TypeOK /\ TypeOK' /\ Step
      BY NextSound, NextSteps DEF IInv
    <2> QED
      BY <2>1, LogSoundNext, StepSimulates
  <1> QED
    BY <1>1, InitLog, ArtifactInvariant, PTL DEF Spec, ImplementsLog, Log!Spec

================================================================================
