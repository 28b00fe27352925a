---------------------------- MODULE ArtifactHome ----------------------------
(***************************************************************************)
(* The server's artifact home: sync sessions negotiated by prepare, blobs  *)
(* uploaded by put, snapshots published by commit, the configuration that  *)
(* starts a new generation, and the sync-attempt state shown with a loop.  *)
(*                                                                         *)
(* One machine in one namespace; loops are not deleted.  A statement or a  *)
(* transaction is one step, for the database has one connection; between   *)
(* two of them any other call may run.  A session is named by its request  *)
(* key.  The instant a handler stamps on a row is left out.                *)
(***************************************************************************)
EXTENDS Integers, Sequences

CONSTANTS
  Loop,         \* loops
  Dir,          \* artifact directories
  Key,          \* request keys of prepare
  Hash,         \* hashes of blobs
  Content,      \* normalised manifests: sets of Entry
  Call,         \* handlers that run at the same time
  None,         \* null
  RevisionMax,  \* REVISION_INT32_MAX
  TTL,          \* ARTIFACT_SYNC_SESSION_TTL_MILLIS
  MaxTime,      \* bound: the last instant
  MaxRevision   \* bound: no call starts on a loop row of this revision

\* An entry of a manifest; honest says that the declared size is the blob's.
Entry == [hash: Hash, honest: BOOLEAN]

ASSUME ContentAssumption ==
  \A e \in Content : e \subseteq Entry /\ \A x, y \in e : x.hash = y.hash => x = y
ASSUME NoneAssumption == None \notin Dir \cup Key \cup Nat
ASSUME BoundsAssumption ==
  RevisionMax \in Nat \ {0} /\ TTL \in Nat \ {0} /\ MaxTime \in Nat /\ MaxRevision \in Nat

VARIABLES
  now,        \* the clock
  loop,       \* the artifact columns of each loop row
  session,    \* artifact_sync_sessions, None before the insert
  manifests,  \* artifact_manifests in the order of their inserts, by id
  verified,   \* artifact_blobs: hashes whose blob was verified
  published,  \* the files of the blob store
  call,       \* the state of each handler
  refused     \* history: sessions whose commit was refused for good

vars == <<now, loop, session, manifests, verified, published, call, refused>>

Error == {"manifest_conflict", "blob_missing", "storage_error", "client"}

\* A failed attempt; the session, generation and base it was judged by are history.
Failure == [error: Error, by: Key \cup {None}, config: Nat, base: Nat]

\* dir .. artifactDir, config .. artifactConfigRevision, base ..
\* artifactManifestRevision, head .. artifactManifestId, failure ..
\* artifactSyncError, succeeded .. artifactSyncSucceededAt, revision .. the OCC
\* revision.
LoopRow == [dir: Dir \cup {None}, config: 0..RevisionMax, base: 0..RevisionMax,
            head: Nat \cup {None}, failure: Failure \cup {None},
            succeeded: BOOLEAN, revision: Nat]

\* What a handler keeps of a row it has read.
View == [config: 0..RevisionMax, base: 0..RevisionMax, revision: Nat]

Payload == [loop: Loop, config: Nat, base: Nat, content: Content]

Receipt == [id: Nat, base: Nat]

Session == [payload: Payload, expires: Nat, receipt: Receipt \cup {None}]

Manifest == [loop: Loop, base: Nat, config: Nat, content: Content, session: Key]

ASSUME NullAssumption == None \notin Session \cup Receipt \cup Failure

Idle == [at |-> "idle"]

\* The states of a handler between two statements, by the handler's kind.
PrepareHandler ==
  [at: {"prepareLoop", "prepareSession", "insert", "renew"}, key: Key,
   payload: Payload, revision: Nat, seen: Nat, time: Nat, retried: BOOLEAN]

PutHandler == [at: {"putWrite", "putRecheck", "putRegister"}, key: Key, hash: Hash]

CommitHandler ==
  [at: {"commitSession", "complete", "commitTx"}, key: Key, row: View, error: {None}]
  \cup [at: {"stamp"}, key: Key, row: View, error: Error]

ConfigHandler ==
  [at: {"configRead", "configWrite"}, loop: Loop, dir: Dir \cup {None},
   revision: Nat, retried: BOOLEAN]

ReportHandler == [at: {"report"}, loop: Loop, row: View]

Handler == {Idle} \cup PrepareHandler \cup PutHandler \cup CommitHandler
             \cup ConfigHandler \cup ReportHandler

NewLoop(d) ==
  [dir |-> d, config |-> IF d = None THEN 0 ELSE 1, base |-> 0, head |-> None,
   failure |-> None, succeeded |-> FALSE, revision |-> 0]

Init ==
  /\ now = 0
  /\ loop \in [Loop -> {NewLoop(d) : d \in Dir \cup {None}}]
  /\ session = [k \in Key |-> None]
  /\ manifests = <<>>
  /\ verified = {}
  /\ published = {}
  /\ call = [c \in Call |-> Idle]
  /\ refused = {}

database == <<loop, session, manifests, verified>>

At(c, stage) == call[c].at = stage

Goto(c, stage) == call' = [call EXCEPT ![c].at = stage]

Finish(c) == call' = [call EXCEPT ![c] = Idle]

\* The bound on calls that may write to loop l.
Room(l) == loop[l].revision < MaxRevision

Read(l) ==
  [config |-> loop[l].config, base |-> loop[l].base, revision |-> loop[l].revision]

Bump(r) == [r EXCEPT !.revision = @ + 1]

--------------------------------------------------------------------------------
(***************************************************************************)
(* prepare: negotiate a session.                                           *)
(***************************************************************************)

\* The baseline of loop l with a new content, or what key k was used for.
Requests(k) ==
  {[loop |-> l, config |-> loop[l].config, base |-> loop[l].base, content |-> e] :
     l \in Loop, e \in Content}
  \cup (IF session[k] = None THEN {} ELSE {session[k].payload})

\* The loop still is what the request was made for.
Negotiable(p, r) == r.dir # None /\ p.config = r.config /\ p.base = r.base

\* The loop is read.  A request it refuses writes nothing, whatever its session.
PrepareStart(c, k, p) ==
  /\ At(c, "idle")
  /\ Negotiable(p, loop[p.loop])
  /\ call' = [call EXCEPT ![c] =
                [at |-> "prepareSession", key |-> k, payload |-> p,
                 revision |-> loop[p.loop].revision, seen |-> 0, time |-> 0,
                 retried |-> FALSE]]
  /\ UNCHANGED <<now, database, published, refused>>

\* The bounded re-run reads the loop again.
PrepareAgain(c) ==
  LET p == call[c].payload
  IN /\ At(c, "prepareLoop")
     /\ IF Negotiable(p, loop[p.loop])
        THEN call' = [call EXCEPT ![c].at = "prepareSession",
                                  ![c].revision = loop[p.loop].revision]
        ELSE Finish(c)
     /\ UNCHANGED <<now, database, published, refused>>

\* The session is read and the request is planned at this instant.  A session
\* of another payload, a committed one and one that has time left need no write.
PrepareSession(c) ==
  LET q == call[c]
      s == session[q.key]
  IN /\ At(c, "prepareSession")
     /\ \/ /\ s = None
           /\ call' = [call EXCEPT ![c].at = "insert", ![c].time = now]
        \/ /\ s # None
           /\ IF s.payload = q.payload /\ s.receipt = None /\ now >= s.expires
              THEN call' = [call EXCEPT ![c].at = "renew", ![c].time = now,
                                        ![c].seen = s.expires]
              ELSE Finish(c)
     /\ UNCHANGED <<now, database, published, refused>>

\* The loop is as it was when the request was judged.
InsertAdmits(revision, live) == live.revision = revision

\* insertSessionGuarded: a key that is taken by now is planned again, a loop that
\* moved is read again, once.
PrepareInsert(c) ==
  LET q == call[c]
      l == q.payload.loop
      s == session[q.key]
  IN /\ At(c, "insert")
     /\ \/ /\ InsertAdmits(q.revision, loop[l])
           /\ s = None
           /\ session' = [session EXCEPT ![q.key] =
                [payload |-> q.payload, expires |-> q.time + TTL, receipt |-> None]]
           /\ Finish(c)
        \/ /\ InsertAdmits(q.revision, loop[l])
           /\ s # None
           /\ UNCHANGED session
           /\ IF s.payload = q.payload /\ s.receipt = None /\ q.time >= s.expires
              THEN call' = [call EXCEPT ![c].at = "renew", ![c].seen = s.expires]
              ELSE Finish(c)
        \/ /\ ~InsertAdmits(q.revision, loop[l])
           /\ UNCHANGED session
           /\ IF q.retried THEN Finish(c)
              ELSE call' = [call EXCEPT ![c].at = "prepareLoop", ![c].retried = TRUE]
     /\ UNCHANGED <<now, loop, manifests, verified, published, refused>>

\* The session is pending and expires when it was seen to.
RenewAdmits(q, s) == s.receipt = None /\ s.expires = q.seen

PrepareRenew(c) ==
  LET q == call[c]
  IN /\ At(c, "renew")
     /\ session' = IF RenewAdmits(q, session[q.key])
                   THEN [session EXCEPT ![q.key].expires = q.time + TTL]
                   ELSE session
     /\ Finish(c)
     /\ UNCHANGED <<now, loop, manifests, verified, published, refused>>

--------------------------------------------------------------------------------
(***************************************************************************)
(* put: upload one negotiated blob.                                        *)
(***************************************************************************)

\* The session is neither committed nor expired.
Pending(k) == session[k].receipt = None /\ now < session[k].expires

Current(k) == session[k].payload.config = loop[session[k].payload.loop].config

EntryOf(k, h) == {x \in session[k].payload.content : x.hash = h}

\* The session and its loop are read one after the other, before the upload and
\* after it.  A generation that is current at the second read was so at the first:
\* the two are one step.
PutStart(c, k, h) ==
  /\ At(c, "idle")
  /\ session[k] # None
  /\ Pending(k)
  /\ Current(k)
  /\ EntryOf(k, h) # {}
  /\ call' = [call EXCEPT ![c] = [at |-> "putWrite", key |-> k, hash |-> h]]
  /\ UNCHANGED <<now, database, published, refused>>

\* The bytes are what session k declared.
Accepted(k, h) == \A x \in EntryOf(k, h) : x.honest

\* writeVerified: publish the file or find it there, or fail.
PutWrite(c) ==
  LET q == call[c]
  IN /\ At(c, "putWrite")
     /\ \/ /\ Accepted(q.key, q.hash)
           /\ published' = published \cup {q.hash}
           /\ Goto(c, "putRecheck")
        \/ UNCHANGED published /\ Finish(c)
     /\ UNCHANGED <<now, database, refused>>

\* What was checked before the upload still holds.
StillCounts(k) == Pending(k) /\ Current(k)

PutRecheck(c) ==
  /\ At(c, "putRecheck")
  /\ IF StillCounts(call[c].key) THEN Goto(c, "putRegister") ELSE Finish(c)
  /\ UNCHANGED <<now, database, published, refused>>

\* The metadata row, unless the insert fails.
PutRegister(c) ==
  /\ At(c, "putRegister")
  /\ verified' \in {verified, verified \cup {call[c].hash}}
  /\ Finish(c)
  /\ UNCHANGED <<now, loop, session, manifests, published, refused>>

--------------------------------------------------------------------------------
(***************************************************************************)
(* commit: publish the snapshot of a session.                              *)
(***************************************************************************)

\* The session is probed, then the loop is read.
CommitStart(c, k) ==
  /\ At(c, "idle")
  /\ session[k] # None
  /\ Room(session[k].payload.loop)
  /\ call' = [call EXCEPT ![c] =
                [at |-> "commitSession", key |-> k,
                 row |-> Read(session[k].payload.loop), error |-> None]]
  /\ UNCHANGED <<now, database, published, refused>>

\* Mutant: only the generation of the loop counts.
Verdict_NoBase(s, r) ==
  IF s.receipt # None THEN "receipt"
  ELSE IF now >= s.expires THEN "expired"
  ELSE IF s.payload.config # r.config THEN "config_conflict"
  ELSE IF r.base >= RevisionMax THEN "exhausted"
  ELSE "proceed"

\* planCommitPrecheck of session s against loop row r; the order is the code's.
Verdict(s, r) ==
  IF s.receipt # None THEN "receipt"
  ELSE IF now >= s.expires THEN "expired"
  ELSE IF s.payload.config # r.config THEN "config_conflict"
  ELSE IF s.payload.base # r.base THEN "manifest_conflict"
  ELSE IF r.base >= RevisionMax THEN "exhausted"
  ELSE "proceed"

\* The caller of session k's commit learns a verdict; a receipt is the stored one.
Learns(k, verdict) ==
  refused' = IF verdict \in {"config_conflict", "manifest_conflict"}
             THEN refused \cup {k} ELSE refused

\* The outer adjudication.
CommitSession(c) ==
  LET q == call[c]
      verdict == Verdict(session[q.key], q.row)
  IN /\ At(c, "commitSession")
     /\ Learns(q.key, verdict)
     /\ CASE verdict = "proceed"           -> Goto(c, "complete")
          [] verdict = "manifest_conflict" ->
               call' = [call EXCEPT ![c].at = "stamp", ![c].error = verdict]
          [] OTHER                         -> Finish(c)
     /\ UNCHANGED <<now, database, published>>

\* A blob of the declared size was verified.
Registered(x) == x.honest /\ x.hash \in verified

\* And its file is there.
Present(x) == Registered(x) /\ x.hash \in published

\* Every negotiated blob is looked up; the lookup of a file may fail.
CommitComplete(c) ==
  /\ At(c, "complete")
  /\ \/ /\ \A x \in session[call[c].key].payload.content : Present(x)
        /\ Goto(c, "commitTx")
     \/ /\ \E x \in session[call[c].key].payload.content : ~Present(x)
        /\ call' = [call EXCEPT ![c].at = "stamp", ![c].error = "blob_missing"]
     \/ /\ \E x \in session[call[c].key].payload.content : Registered(x)
        /\ call' = [call EXCEPT ![c].at = "stamp", ![c].error = "storage_error"]
  /\ UNCHANGED <<now, database, published, refused>>

\* Mutant: the transaction trusts the adjudication before it.
LiveVerdict_Trusted(s, r) == "proceed"

\* The transaction judges the live rows again.
LiveVerdict(s, r) == Verdict(s, r)

\* The transaction's writes for session k: pointer, success and revision of the
\* loop, the manifest, the receipt.
Publish(k) ==
  LET p  == session[k].payload
      r  == loop[p.loop]
      id == Len(manifests) + 1
  IN /\ loop' = [loop EXCEPT ![p.loop] =
           [Bump(r) EXCEPT !.base = r.base + 1, !.head = id, !.succeeded = TRUE,
              !.failure = None]]
     /\ manifests' = Append(manifests,
           [loop |-> p.loop, base |-> r.base + 1, config |-> p.config,
            content |-> p.content, session |-> k])
     /\ session' = [session EXCEPT ![k].receipt = [id |-> id, base |-> r.base + 1]]

\* The commit transaction.  A storage fault rolls it back or loses the
\* acknowledgement of a commit that landed.
CommitTx(c) ==
  LET q == call[c]
      k == q.key
      s == session[k]
      verdict == LiveVerdict(s, loop[s.payload.loop])
      Faulted == call' = [call EXCEPT ![c].at = "stamp", ![c].error = "storage_error"]
  IN /\ At(c, "commitTx")
     /\ \/ /\ verdict = "proceed"
           /\ Publish(k)
           /\ Finish(c) \/ Faulted
           /\ UNCHANGED refused
        \/ /\ verdict # "proceed"
           /\ Learns(k, verdict)
           /\ IF verdict = "manifest_conflict"
              THEN call' = [call EXCEPT ![c].at = "stamp", ![c].error = verdict]
              ELSE Finish(c)
           /\ UNCHANGED <<loop, session, manifests>>
        \/ /\ Faulted
           /\ UNCHANGED <<loop, session, manifests, refused>>
     /\ UNCHANGED <<now, verified, published>>

\* Mutant: only the generation guards the stamp.
StampAdmits_Generation(r, config, live) == live.config = config

\* The loop did not move since it was read, and the generation is the session's.
StampAdmits(r, config, live) == r.revision = live.revision /\ live.config = config

\* The attempt failed: error, by session k or a client for generation config and
\* base.
Failed(r, error, k, config, base) ==
  [Bump(r) EXCEPT !.failure =
     [error |-> error, by |-> k, config |-> config, base |-> base]]

\* stampCommitFailure: a fault may take the stamp down too.
CommitStamp(c) ==
  LET q == call[c]
      p == session[q.key].payload
      live == loop[p.loop]
  IN /\ At(c, "stamp")
     /\ \/ /\ StampAdmits(q.row, p.config, live)
           /\ loop' = [loop EXCEPT ![p.loop] =
                         Failed(live, q.error, q.key, p.config, p.base)]
        \/ /\ ~StampAdmits(q.row, p.config, live) \/ q.error = "storage_error"
           /\ UNCHANGED loop
     /\ Finish(c)
     /\ UNCHANGED <<now, session, manifests, verified, published, refused>>

--------------------------------------------------------------------------------
(***************************************************************************)
(* Configuration changes and failures that the daemon reports.             *)
(***************************************************************************)

\* The directory changes and the generation has a successor.
ConfigAdmits(r, d) == d # r.dir /\ r.config < RevisionMax

\* A new generation; the pointer to the old view stays.
Configured(r, d) ==
  [Bump(r) EXCEPT !.dir = d, !.config = r.config + 1, !.failure = None,
                  !.succeeded = FALSE]

\* The loop is read and the change is planned; a noop or a refusal ends here.
ConfigStart(c, l, d) ==
  /\ At(c, "idle")
  /\ Room(l)
  /\ ConfigAdmits(loop[l], d)
  /\ call' = [call EXCEPT ![c] =
                [at |-> "configWrite", loop |-> l, dir |-> d,
                 revision |-> loop[l].revision, retried |-> FALSE]]
  /\ UNCHANGED <<now, database, published, refused>>

ConfigAgain(c) ==
  LET q == call[c]
  IN /\ At(c, "configRead")
     /\ IF ConfigAdmits(loop[q.loop], q.dir)
        THEN call' = [call EXCEPT ![c].at = "configWrite",
                                  ![c].revision = loop[q.loop].revision]
        ELSE Finish(c)
     /\ UNCHANGED <<now, database, published, refused>>

\* The guarded write of a planned change; it is planned again once.
ConfigWrite(c) ==
  LET q == call[c]
      live == loop[q.loop]
  IN /\ At(c, "configWrite")
     /\ \/ /\ live.revision = q.revision
           /\ loop' = [loop EXCEPT ![q.loop] = Configured(live, q.dir)]
           /\ Finish(c)
        \/ /\ live.revision # q.revision
           /\ UNCHANGED loop
           /\ IF q.retried THEN Finish(c)
              ELSE call' = [call EXCEPT ![c].at = "configRead", ![c].retried = TRUE]
     /\ UNCHANGED <<now, session, manifests, verified, published, refused>>

\* A failure is reported for the generation and the base of the loop now; a
\* report for older ones, or for a loop with no directory, ends here.
ReportStart(c, l) ==
  /\ At(c, "idle")
  /\ Room(l)
  /\ loop[l].dir # None
  /\ call' = [call EXCEPT ![c] = [at |-> "report", loop |-> l, row |-> Read(l)]]
  /\ UNCHANGED <<now, database, published, refused>>

\* recordArtifactSyncError: a loop that moved keeps what it shows.
ReportWrite(c) ==
  LET q == call[c]
      live == loop[q.loop]
  IN /\ At(c, "report")
     /\ loop' = IF /\ StampAdmits(q.row, q.row.config, live)
                   /\ live.base = q.row.base
                THEN [loop EXCEPT ![q.loop] =
                        Failed(live, "client", None, q.row.config, q.row.base)]
                ELSE loop
     /\ Finish(c)
     /\ UNCHANGED <<now, session, manifests, verified, published, refused>>

--------------------------------------------------------------------------------
(***************************************************************************)
(* The surroundings.                                                       *)
(***************************************************************************)

\* Another column of loop l's row is written.
OtherWrite(l) ==
  /\ Room(l)
  /\ loop' = [loop EXCEPT ![l] = Bump(@)]
  /\ UNCHANGED <<now, session, manifests, verified, published, call, refused>>

\* A file disappears from the disk.
FileLost(h) ==
  /\ h \in published
  /\ published' = published \ {h}
  /\ UNCHANGED <<now, database, call, refused>>

Tick ==
  /\ now < MaxTime
  /\ now' = now + 1
  /\ UNCHANGED <<database, published, call, refused>>

\* The server restarts: handlers are gone, database and files stay.
Restart ==
  /\ call' = [c \in Call |-> Idle]
  /\ UNCHANGED <<now, database, published, refused>>

Next ==
  \/ \E c \in Call :
       \/ \E k \in Key : \E p \in Requests(k) : PrepareStart(c, k, p)
       \/ PrepareAgain(c) \/ PrepareSession(c) \/ PrepareInsert(c) \/ PrepareRenew(c)
       \/ \E k \in Key, h \in Hash : PutStart(c, k, h)
       \/ PutWrite(c) \/ PutRecheck(c) \/ PutRegister(c)
       \/ \E k \in Key : CommitStart(c, k)
       \/ CommitSession(c) \/ CommitComplete(c) \/ CommitTx(c) \/ CommitStamp(c)
       \/ \E l \in Loop, d \in Dir \cup {None} : ConfigStart(c, l, d)
       \/ ConfigAgain(c) \/ ConfigWrite(c)
       \/ \E l \in Loop : ReportStart(c, l)
       \/ ReportWrite(c)
  \/ \E l \in Loop : OtherWrite(l)
  \/ \E h \in Hash : FileLost(h)
  \/ Tick
  \/ Restart

Spec == Init /\ [][Next]_vars

--------------------------------------------------------------------------------
(***************************************************************************)
(* Properties.                                                             *)
(***************************************************************************)

\* Rows, sessions, manifests and handlers have the shapes of the schema and the
\* code, and no revision passes the ceiling.
TypeOK ==
  /\ now \in 0..MaxTime
  /\ loop \in [Loop -> LoopRow]
  /\ session \in [Key -> Session \cup {None}]
  /\ manifests \in Seq(Manifest)
  /\ verified \subseteq Hash
  /\ published \subseteq Hash
  /\ call \in [Call -> Handler]
  /\ refused \subseteq Key

\* A session publishes at most one manifest, the one that its stored receipt, which
\* answers every commit of it, names: a lost acknowledgement, a repeated or a
\* concurrent commit makes no second snapshot.
OneSnapshotPerSession ==
  \A m \in DOMAIN manifests :
    session[manifests[m].session].receipt = [id |-> m, base |-> manifests[m].base]

\* A session whose commit was refused for its generation or its base is not
\* published and never will be: the two reads of commit, loop first, leave no
\* window in which the publisher of a session is told that it lost.
RefusedIsNotPublished == \A k \in refused : session[k].receipt = None

\* The failure on show is one of the generation on show, of a session that was
\* not published; a conflict is shown beside a newer manifest, any other failure
\* beside the manifest it was based on: late failures never cover a success.
ShownFailureIsCurrent ==
  \A l \in Loop :
    LET a == loop[l].failure
    IN a # None =>
         /\ a.config = loop[l].config
         /\ a.by # None => session[a.by].receipt = None
         /\ (a.error = "manifest_conflict") = (a.base < loop[l].base)

\* A success on show is that of the manifest on show, published under the
\* current directory: a change of the configuration takes the old one back.
ShownSuccessIsCurrent ==
  \A l \in Loop :
    loop[l].succeeded => /\ loop[l].dir # None
                         /\ manifests[loop[l].head].config = loop[l].config

\* Every blob of a published manifest was verified against the size the manifest
\* declares.
SnapshotsAreVerified ==
  \A m \in DOMAIN manifests : \A x \in manifests[m].content :
    x.honest /\ x.hash \in verified

\* What is published is sound: one verified snapshot for a session, and none for
\* a session that was told it lost.
PublishedIsSound ==
  /\ TypeOK
  /\ OneSnapshotPerSession
  /\ RefusedIsNotPublished
  /\ SnapshotsAreVerified

\* What the owner sees, a failure or a success, is of the generation on show.
ShownStateIsCurrent == ShownFailureIsCurrent /\ ShownSuccessIsCurrent

\* The time a session is granted never shrinks: concurrent renewals converge.
ExpiryNeverShrinks ==
  [][\A k \in Key : session[k] # None => session'[k].expires >= session[k].expires]_vars

\* The snapshots of loop l in a sequence of manifests, in their order.
Snapshots(s, l) ==
  LET Upto[n \in 0..Len(s)] ==
        IF n = 0 THEN <<>>
        ELSE IF s[n].loop = l
             THEN Append(Upto[n - 1], [session |-> s[n].session, content |-> s[n].content])
             ELSE Upto[n - 1]
  IN Upto[Len(s)]

\* The log, tickets and receipts of ArtifactLog.
LogOf(l) == Snapshots(manifests, l)

TicketOf(k) ==
  IF session[k] = None THEN None
  ELSE [loop |-> session[k].payload.loop, base |-> session[k].payload.base,
        generation |-> session[k].payload.config, content |-> session[k].payload.content]

ASSUME TicketAssumption ==
  None \notin [loop: Loop, base: Nat, generation: Nat, content: Content]

ReceiptOf(k) ==
  IF session[k] = None \/ session[k].receipt = None THEN None
  ELSE session[k].receipt.base

Log == INSTANCE ArtifactLog WITH
  log        <- [l \in Loop |-> LogOf(l)],
  generation <- [l \in Loop |-> loop[l].config],
  ticket     <- [k \in Key |-> TicketOf(k)],
  receipt    <- [k \in Key |-> ReceiptOf(k)]

\* The artifact home implements ArtifactLog: in spite of the window between the
\* reads of prepare and commit and their transactions, a session is opened for the
\* end of the log as it then is, and appends at that place or never.
ImplementsLog == Log!Spec

================================================================================
