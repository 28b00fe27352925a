----------------------------- MODULE ArtifactRead -----------------------------
(***************************************************************************)
(* What the server shows of artifacts (server/src/artifact/read.ts with    *)
(* api.ts, store/scope.ts, attribution-team.ts, and the download response  *)
(* of http/app.ts).  Every query of a request is a step of its own; between*)
(* them the loop is configured and synchronised; a blob may have been lost.*)
(***************************************************************************)
EXTENDS Naturals, Sequences

CONSTANTS
  Loop, Owner,     \* the team of each loop's machine, None while unclaimed
  Busy,            \* the loop things happen to
  Neighbour,       \* a loop of another team, with a snapshot
  Team,            \* teams with a session
  Namespace,       \* teams whose name is a storage namespace
  Path, Tree,      \* trees that are published, from paths to hashes
  MaxGeneration,   \* bound: configurations of Busy
  MaxSnapshots,    \* bound: snapshots that are published
  Chunks,          \* chunks of a blob
  None

VARIABLES
  loops,      \* each loop's artifact columns
  published,  \* the manifests, in the order of their commits
  boundTo,    \* the snapshot of the one run of each loop
  reader,     \* a request: its step, question, what it has read, its answer
  download    \* the response body of a download and its open file

readVars == <<loops, published, boundTo, reader, download>>

Empty == [p \in {} |-> None]
NoDownload == [file |-> "none", left |-> 0, gone |-> FALSE, settled |-> FALSE, hooked |-> FALSE,
               pulling |-> FALSE, ended |-> FALSE, sent |-> 0, why |-> None]
Idle == [pc |-> "idle", question |-> None, sync |-> None, seen |-> None, answer |-> None]

Init ==
  /\ published = <<[loop |-> Neighbour, generation |-> 1, entries |-> CHOOSE tree \in Tree : TRUE]>>
  /\ loops = [l \in Loop |-> [dir |-> TRUE, generation |-> 1, attempted |-> FALSE,
                              snapshot |-> IF l = Neighbour THEN 1 ELSE 0]]
  /\ boundTo = [l \in Loop |-> loops[l].snapshot]
  /\ reader = Idle /\ download = NoDownload

-------------------------------------------------------------------------------
(* What happens meanwhile; one transaction each (config.ts, sync.ts,        *)
(* store/report.ts).                                                        *)

Configure ==
  /\ loops[Busy].generation < MaxGeneration
  /\ \E dir \in BOOLEAN :
       loops' = [loops EXCEPT ![Busy] = [loops[Busy] EXCEPT !.dir = dir, !.generation = @ + 1, !.attempted = FALSE]]
  /\ UNCHANGED <<published, boundTo, reader, download>>

Commit ==
  /\ Len(published) < MaxSnapshots /\ loops[Busy].dir
  /\ \E tree \in Tree :
       published' = Append(published, [loop |-> Busy, generation |-> loops[Busy].generation, entries |-> tree])
  /\ loops' = [loops EXCEPT ![Busy].snapshot = Len(published'), ![Busy].attempted = TRUE]
  /\ UNCHANGED <<boundTo, reader, download>>

SyncFails ==
  /\ loops[Busy].dir /\ loops' = [loops EXCEPT ![Busy].attempted = TRUE]
  /\ UNCHANGED <<published, boundTo, reader, download>>

BindRun ==
  /\ boundTo[Busy] = 0 /\ loops[Busy].snapshot # 0
  /\ boundTo' = [boundTo EXCEPT ![Busy] = loops[Busy].snapshot]
  /\ UNCHANGED <<loops, published, reader, download>>

-------------------------------------------------------------------------------
(* A request.  None is an unknown loop or run.                              *)

Asked == Loop \cup {None}
Id == 1 .. MaxSnapshots
Questions ==
  [kind : {"loop", "machine"}, loop : Asked, team : Team]
  \cup [kind : {"run"}, loop : Asked, parent : Asked, team : Team]
  \cup [kind : {"diff"}, loop : Asked, to : Id, from : Id \cup {None}, team : Team]
  \cup [kind : {"download"}, loop : Asked, to : Id, path : Path, team : Team]

Goto(pc) == reader' = [reader EXCEPT !.pc = pc]
Answer(a) == reader' = [reader EXCEPT !.pc = "answered", !.seen = None, !.sync = None, !.answer = a]
Refuse(why) == Answer([refused |-> why])
Waits(pc) == reader.pc = pc /\ UNCHANGED <<loops, published, boundTo>>
question == reader.question

\* One request in a behaviour: none leaves anything for the next.  A machine's
\* team is its identity here: its credential has been verified.
Ask(q) ==
  /\ reader.pc = "idle" /\ UNCHANGED <<loops, published, boundTo, download>>
  /\ reader' = [Idle EXCEPT !.question = q,
                            !.pc = CASE q.kind = "run" -> "run" [] q.kind = "machine" -> "attribution" [] OTHER -> "row"]

ReadRun ==
  /\ Waits("run") /\ UNCHANGED download
  /\ IF question.loop = None \/ question.parent \notin {None, question.loop} THEN Refuse("run_not_found")
     ELSE reader' = [reader EXCEPT !.pc = "row", !.seen = boundTo[question.loop]]

\* The row as it is now; the answer to a "loop" keeps its sync columns, which
\* are of the generation that is current here.
LastSync(row) == IF row.attempted THEN row.generation ELSE None
ReadRow ==
  /\ Waits("row") /\ UNCHANGED download
  /\ IF question.loop = None THEN Refuse("loop_not_found")
     ELSE reader' = [reader EXCEPT !.pc = "team",
                       !.sync = IF question.kind = "loop" THEN LastSync(loops[question.loop]) ELSE None]

\* What a machine asks for to recover: only of its own loops, and in one query.
ReadMachineRow ==
  /\ Waits("machine_row") /\ UNCHANGED download
  /\ IF question.loop \notin {l \in Loop : Owner[l] = question.team}
     THEN Refuse("loop_not_found")
     ELSE IF ~loops[question.loop].dir THEN Refuse("artifact_dir_unconfigured")
     ELSE Answer([generation |-> loops[question.loop].generation, snapshot |-> loops[question.loop].snapshot])

TeamMatches(owner, team) == owner # None /\ owner = team

CheckTeam ==
  /\ Waits("team") /\ UNCHANGED download
  /\ IF TeamMatches(Owner[question.loop], question.team) THEN Goto("attribution")
     ELSE Refuse(IF question.kind = "run" THEN "run_not_found" ELSE "loop_not_found")

Attributed(team) == team \in Namespace
Attribute ==
  /\ Waits("attribution") /\ UNCHANGED download
  /\ LET team == IF question.kind = "machine" THEN question.team ELSE Owner[question.loop]
     IN IF ~Attributed(team) THEN Refuse("attribution_missing")
        ELSE CASE question.kind = "machine" -> Goto("machine_row")
               [] question.kind = "loop" -> Goto("view")
               [] question.kind = "run" /\ reader.seen = 0 -> Answer([state |-> "missing"])
               [] OTHER -> Goto("snapshot")

\* readCurrentArtifactView: the row again, and the manifest it names, which no
\* longer changes.
Stale(row) == row.snapshot # 0 /\ published[row.snapshot].generation # row.generation
View ==
  /\ Waits("view") /\ UNCHANGED download
  /\ LET row == loops[question.loop] IN
     Answer([generation |-> row.generation, snapshot |-> row.snapshot, stale |-> Stale(row), sync |-> reader.sync,
             files |-> IF row.snapshot = 0 THEN Empty ELSE published[row.snapshot].entries])

\* A snapshot of another loop is as if it had never been.
Mine(id) == id \in 1 .. Len(published) /\ published[id].loop = question.loop

Added(before, after) == [p \in DOMAIN after \ DOMAIN before |-> after[p]]
Modified(before, after) ==
  [p \in {p \in DOMAIN before \cap DOMAIN after : before[p] # after[p]} |-> <<before[p], after[p]>>]
DiffManifests(before, after) ==
  [added |-> Added(before, after), modified |-> Modified(before, after), removed |-> Added(after, before)]

ReadSnapshot ==
  /\ Waits("snapshot") /\ UNCHANGED download
  /\ LET id == IF question.kind = "run" THEN reader.seen ELSE question.to
         files == published[id].entries
     IN CASE ~Mine(id) -> Refuse("snapshot_not_found")
          [] Mine(id) /\ question.kind = "run" -> Answer([state |-> "bound", snapshot |-> id, files |-> files])
          [] Mine(id) /\ question.kind = "diff" ->
               IF question.from = None THEN Answer(DiffManifests(Empty, files))
               ELSE reader' = [reader EXCEPT !.pc = "from", !.seen = files]
          [] Mine(id) /\ question.kind = "download" ->
               IF question.path \notin DOMAIN files THEN Refuse("path_not_found")
               ELSE reader' = [reader EXCEPT !.pc = "open", !.seen = files[question.path]]

ReadFrom ==
  /\ Waits("from") /\ UNCHANGED download
  /\ IF ~Mine(question.from) THEN Refuse("snapshot_not_found")
     ELSE Answer(DiffManifests(published[question.from].entries, reader.seen))

-------------------------------------------------------------------------------
(* The download: the open file, the response and its body.                  *)

\* A blob that is gone is a path that is not found; an odd file or a failed
\* fstat leaves nothing open.
OpenBlob ==
  /\ Waits("open")
  /\ \/ Goto("compose") /\ download' = [download EXCEPT !.file = "open", !.left = Chunks]
     \/ \E why \in {"path_not_found", "storage_error"} : Refuse(why) /\ UNCHANGED download

Closed(d) == [d EXCEPT !.file = IF @ = "open" THEN "closed" ELSE @]
\* The one release: what settled it first.
Release(d, why) ==
  IF d.settled THEN d ELSE [Closed(d) EXCEPT !.settled = TRUE, !.hooked = FALSE, !.why = why]

\* Mutant: a listener on a signal that has fired already.
GoneBefore_Unchecked == FALSE
GoneBefore == download.gone

\* Building the headers may throw; HEAD and a client that has left get no body.
Compose ==
  /\ Waits("compose")
  /\ \/ Refuse("internal") /\ download' = Closed(download)
     \/ \E head \in BOOLEAN :
          \/ (head \/ GoneBefore) /\ Answer([status |-> 200]) /\ download' = Closed(download)
          \/ ~head /\ ~GoneBefore /\ Goto("body") /\ download' = [download EXCEPT !.hooked = TRUE]

\* The client goes; the listener, once it is there, does not wait for a read.
ClientLeaves ==
  /\ Waits(reader.pc) /\ reader.pc \in {"open", "compose", "body"} /\ ~download.gone /\ UNCHANGED reader
  /\ download' = [(IF download.hooked THEN Release(download, "gone") ELSE download) EXCEPT !.gone = TRUE]

\* The consumer cancels, before any read or during one.
Cancel ==
  /\ Waits("body") /\ ~download.ended /\ UNCHANGED reader
  /\ download' = [Release(download, "cancelled") EXCEPT !.ended = TRUE]

Pull ==
  /\ Waits("body") /\ ~download.pulling /\ ~download.ended /\ UNCHANGED reader
  /\ download' = IF download.settled THEN [download EXCEPT !.ended = TRUE]
                 ELSE [download EXCEPT !.pulling = TRUE]

\* The pump's next chunk; after a failure in the middle or at the end of the file
\* the store closes it itself, and a client gone meanwhile gets no more.
Arrive ==
  /\ Waits("body") /\ download.pulling /\ UNCHANGED reader
  /\ LET d == [download EXCEPT !.pulling = FALSE] IN
     \/ d.settled /\ download' = d
     \/ ~d.settled /\ d.left > 0 /\ download' = [d EXCEPT !.left = @ - 1, !.sent = @ + 1]
     \/ ~d.settled /\ d.left = 0 /\ download' = [Release(d, "eof") EXCEPT !.ended = TRUE]
     \/ ~d.settled /\ download' = [Release(d, "storage_error") EXCEPT !.ended = TRUE]

Finish ==
  /\ Waits("body") /\ download.settled /\ ~download.pulling /\ Answer([status |-> 200]) /\ UNCHANGED download

Reading ==
  \/ \E q \in Questions : Ask(q)
  \/ ReadRun \/ ReadRow \/ ReadMachineRow \/ CheckTeam \/ Attribute \/ View \/ ReadSnapshot \/ ReadFrom
  \/ OpenBlob \/ Compose \/ ClientLeaves \/ Cancel \/ Pull \/ Arrive \/ Finish

Next == Configure \/ Commit \/ SyncFails \/ BindRun \/ Reading

-------------------------------------------------------------------------------
Shows(field) == reader.pc = "answered" /\ field \in DOMAIN reader.answer
Foreign == question.loop # None /\ Owner[question.loop] # question.team

\* Nobody learns of what another team or no team owns: the answer is the one to
\* a loop or run that does not exist, whatever else is wrong with it.
NothingLeaks ==
  /\ reader.pc = "answered" /\ Foreign /\ question.team \in Namespace =>
       reader.answer = [refused |-> IF question.kind = "run" THEN "run_not_found" ELSE "loop_not_found"]
  /\ reader.pc \in {"view", "snapshot", "from", "open", "compose", "body"} => ~Foreign

OfThisLoop == {id \in 1 .. Len(published) : published[id].loop = question.loop}

\* What is shown is what the loop published, never another loop's, whatever ids
\* a question combines: the files of the snapshot that is named, stale exactly if
\* of an older configuration than the one shown, a run with the snapshot it keeps,
\* and no sync that is later than the view (an earlier one may be, for the row is
\* read twice).
AnswersAreTrue ==
  /\ Shows("files") =>
       LET id == reader.answer.snapshot IN
       IF id = 0 THEN reader.answer.files = Empty
       ELSE published[id].loop = question.loop /\ reader.answer.files = published[id].entries
  /\ Shows("stale") => (reader.answer.stale <=>
       /\ reader.answer.snapshot # 0
       /\ published[reader.answer.snapshot].generation < reader.answer.generation)
  /\ Shows("added") => {question.to, question.from} \subseteq {None} \cup OfThisLoop
  /\ reader.pc \in {"open", "compose", "body"} => published[question.to].loop = question.loop
  /\ Shows("sync") => reader.answer.sync \in {None} \cup 1 .. reader.answer.generation
  /\ Shows("state") /\ reader.answer.state = "bound" => reader.answer.snapshot = boundTo[question.loop]

\* A difference is exactly what leads from one snapshot to the other.
Kept(before, d) == [p \in DOMAIN before \ (DOMAIN d.removed \cup DOMAIN d.modified) |-> before[p]]
Applied(before, d) ==
  [p \in DOMAIN Kept(before, d) \cup DOMAIN d.added \cup DOMAIN d.modified |->
     IF p \in DOMAIN d.added THEN d.added[p] ELSE IF p \in DOMAIN d.modified THEN d.modified[p][2] ELSE before[p]]
DiffsAreExact ==
  Shows("added") =>
    LET before == IF question.from = None THEN Empty ELSE published[question.from].entries
        d == reader.answer
    IN /\ Applied(before, d) = published[question.to].entries
       /\ DOMAIN d.added \cap DOMAIN before = {} /\ DOMAIN d.removed \subseteq DOMAIN before
       /\ \A p \in DOMAIN d.modified : d.modified[p][1] = before[p] /\ d.modified[p][2] # before[p]

\* Whoever leaves and whenever, the file of a download is open only while its
\* client waits for it; nothing is sent after it was let go, and a body is cut
\* short only for a client that went or a store that failed.
DownloadsLetGo ==
  /\ download.file = "open" => \/ reader.pc = "compose"
                               \/ reader.pc = "body" /\ ~download.gone /\ ~download.settled
  /\ download.settled => ~download.hooked
  /\ download.why = "eof" => download.sent = Chunks

ReadsAreHonest == NothingLeaks /\ AnswersAreTrue /\ DiffsAreExact /\ DownloadsLetGo
===============================================================================
