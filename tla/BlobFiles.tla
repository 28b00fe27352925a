------------------------------- MODULE BlobFiles -------------------------------
(***************************************************************************)
(* One key of the local blob store (server/src/artifact/                   *)
(* blob-store-local.ts and blob-store-verify.ts): writers that stream into *)
(* files of their own and publish by link, a reader, crashes, and someone  *)
(* who removes the blob or parks something else at its path.               *)
(***************************************************************************)
EXTENDS Naturals, FiniteSets

CONSTANTS
  Writer, Reader,
  MaxIntrusions,  \* bound: what others do at the path
  None

VARIABLES
  bytes,       \* what the file of each writer holds: "none", "part", "whole"
  temporary,   \* the writers whose temporary name exists
  final,       \* the file at the blob's path: a writer's, "odd" or None
  writer,      \* step and answer of each writer
  reader,      \* step of each reader and the file it has open
  intrusions

blobVars == <<bytes, temporary, final, writer, reader, intrusions>>

Init ==
  /\ bytes = [w \in Writer |-> "none"] /\ temporary = {} /\ final = None /\ intrusions = 0
  /\ writer = [w \in Writer |-> "idle"]
  /\ reader = [r \in Reader |-> [pc |-> "idle", fd |-> None]]

Goto(w, pc) == writer' = [writer EXCEPT ![w] = pc]

\* open(tmp, "wx") in the namespace's own directory.
OpenTemporary(w) ==
  /\ writer[w] = "idle" /\ Goto(w, "stream")
  /\ temporary' = temporary \cup {w} /\ bytes' = [bytes EXCEPT ![w] = "part"]
  /\ UNCHANGED <<final, reader, intrusions>>

\* verifyByteStream: size and digest of what was streamed decide.
Verified(w) ==
  /\ writer[w] = "stream" /\ Goto(w, "sync") /\ bytes' = [bytes EXCEPT ![w] = "whole"]
  /\ UNCHANGED <<temporary, final, reader, intrusions>>

\* A mismatch, a broken source or an I/O error removes this file only.
Fail(w) ==
  /\ writer[w] \in {"stream", "sync", "link"} /\ Goto(w, "failed")
  /\ temporary' = temporary \ {w}
  /\ UNCHANGED <<bytes, final, reader, intrusions>>

Sync(w) == writer[w] = "sync" /\ Goto(w, "link") /\ UNCHANGED <<bytes, temporary, final, reader, intrusions>>

\* Mutant: rename, which replaces what is there.
Free_Always == TRUE
Free == final = None

\* link(2) is the test and the set.
Publish(w) ==
  /\ writer[w] = "link"
  /\ \/ /\ Free /\ final' = w /\ Goto(w, "tidy") /\ UNCHANGED temporary
     \/ /\ ~Free /\ Goto(w, "exists") /\ temporary' = temporary \ {w} /\ UNCHANGED final
  /\ UNCHANGED <<bytes, reader, intrusions>>

Tidy(w) ==
  /\ writer[w] = "tidy" /\ Goto(w, "published")
  /\ temporary' = temporary \ {w}
  /\ UNCHANGED <<bytes, final, reader, intrusions>>

LstatExisting(w) ==
  /\ writer[w] = "exists"
  /\ Goto(w, IF final \in Writer THEN "already_there" ELSE "failed")
  /\ UNCHANGED <<bytes, temporary, final, reader, intrusions>>

\* lstat, then open without following, then fstat.
Lstat(r) ==
  /\ reader[r].pc = "idle"
  /\ reader' = [reader EXCEPT ![r].pc = IF final \in Writer THEN "open" ELSE "refused"]
  /\ UNCHANGED <<bytes, temporary, final, writer, intrusions>>

Open(r) ==
  /\ reader[r].pc = "open"
  /\ reader' = [reader EXCEPT ![r] = IF final \in Writer THEN [pc |-> "reading", fd |-> final]
                                     ELSE [pc |-> "refused", fd |-> None]]
  /\ UNCHANGED <<bytes, temporary, final, writer, intrusions>>

Intrude ==
  /\ intrusions < MaxIntrusions /\ intrusions' = intrusions + 1
  /\ \E thing \in {None, "odd"} : thing # final /\ final' = thing
  /\ UNCHANGED <<bytes, temporary, writer, reader>>

\* Every writer of the process that has not answered.
Crash ==
  /\ writer' = [w \in Writer |-> IF writer[w] \in {"idle", "failed", "published", "already_there"}
                                 THEN writer[w] ELSE "crashed"]
  /\ reader' = [r \in Reader |-> [pc |-> "refused", fd |-> None]]
  /\ UNCHANGED <<bytes, temporary, final, intrusions>>

Next ==
  \/ \E w \in Writer : \/ OpenTemporary(w) \/ Verified(w) \/ Fail(w) \/ Sync(w)
                       \/ Publish(w) \/ Tidy(w) \/ LstatExisting(w)
  \/ \E r \in Reader : Lstat(r) \/ Open(r)
  \/ Intrude \/ Crash

-------------------------------------------------------------------------------
\* What can be read under a key is complete and was verified, whoever crashes
\* while writing it and whatever is swapped at its path; of the writers that
\* race, one publishes for each time the path was free; and a writer that has
\* answered leaves no file behind.
BlobIsWhole ==
  /\ final \in Writer => bytes[final] = "whole"
  /\ \A r \in Reader : reader[r].fd # None => bytes[reader[r].fd] = "whole"
  /\ Cardinality({w \in Writer : writer[w] \in {"tidy", "published"}}) <= 1 + intrusions
  /\ \A w \in temporary : writer[w] \notin {"idle", "failed", "published", "already_there"}
===============================================================================
