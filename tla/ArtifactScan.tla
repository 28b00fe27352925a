----------------------------- MODULE ArtifactScan -----------------------------
(***************************************************************************)
(* The scan that turns an artifact directory into the manifest of its      *)
(* files (daemon/src/artifact-scan.ts, artifact-hash-cache.ts,             *)
(* bounded-read.ts), while other programs change the tree.  Every system   *)
(* call is a step of its own.  The re-read of a file before its upload     *)
(* (ArtifactSync) takes the same steps as a read of the scan.              *)
(*                                                                         *)
(* A manifest is committed as the complete tree: a path it lacks is        *)
(* deleted on the server.  So an attempt that saw anything move is thrown  *)
(* away whole, and after MaxAttempts the scan reports "unstable".          *)
(*                                                                         *)
(* Every change of the tree takes a fresh stamp.  A stamp is the identity  *)
(* that lstat shows (device, inode, size, mtime, ctime) and names a file's *)
(* content too: two writes that leave all five fields alike are outside    *)
(* the model, as they are outside what the code can see.  A move is a      *)
(* removal and a creation.  The order of siblings is left open, and what   *)
(* lies behind a symbolic link that takes a directory's place.             *)
(***************************************************************************)
EXTENDS Naturals, Sequences

CONSTANTS
  Node,         \* the paths of the tree, Root among them
  Root,         \* the artifact directory itself
  Parent,       \* the directory that each other path is in
  NeverSync,    \* the paths that a never-sync rule matches
  MaxCached,    \* ARTIFACT_HASH_CACHE_MAX_ENTRIES
  MaxAttempts,  \* ARTIFACT_SCAN_MAX_ATTEMPTS
  MaxScans,     \* bound: scans
  MaxChanges,   \* bound: changes of the tree
  None

Path == Node \ {Root}

VARIABLES
  disk,    \* what is at each path: its kind and its stamp
  clock,   \* the last stamp
  seen,    \* history: the contents each path had during this attempt
  began,   \* history: the clock when the scan began and when the attempt did
  scans,   \* scans begun; cached hashes are reused from the second on
  walk,    \* the scanner (WalkType)
  cache,   \* identities and hashes of files, oldest first
  result   \* how the last scan ended, with its manifest

treeVars == <<disk, clock>>
scanVars == <<disk, clock, seen, began, scans, walk, cache, result>>

Gone == [kind |-> "none", stamp |-> 0]
Torn == MaxChanges + 1    \* bytes of which some are old and some are new
Empty == [p \in Path |-> None]

\* The scanner: its next system call, its attempt, the directories to list or
\* to check again, the entries still to inspect, the file or directory it has
\* open (first identity, identity of the descriptor, bytes), whether the
\* attempt saw anything move, the files collected by content.
NoFile == [path |-> Root, pre |-> 0, fd |-> 0, bytes |-> 0]
Resting == [pc |-> "idle", attempt |-> 0, stack |-> <<>>, names |-> {}, file |-> NoFile,
            dirty |-> FALSE, manifest |-> Empty]

\* Every entry is there to begin with; the parents are the directories.
Init ==
  /\ disk = [n \in Node |-> [kind |-> IF n \in {Parent[p] : p \in Path} \cup {Root} THEN "dir" ELSE "file",
                            stamp |-> 0]]
  /\ clock = 0 /\ seen = [p \in Path |-> {}] /\ began = [scan |-> 0, attempt |-> 0]
  /\ scans = 0 /\ walk = Resting /\ cache = <<>>
  /\ result = [how |-> None, manifest |-> Empty]

-------------------------------------------------------------------------------
(***************************************************************************)
(* Other programs.                                                         *)
(***************************************************************************)
Entries(n) == {p \in Path : Parent[p] = n /\ disk[p].kind # "none"}
ContentOf(tree, p) == IF tree[p].kind = "file" THEN tree[p].stamp ELSE None

\* An entry made, removed or replaced also stamps the directory it is in.
Change(n, thing, inPlace) ==
  /\ clock < MaxChanges /\ clock' = clock + 1
  /\ disk' = [m \in Node |->
       IF m = n THEN thing
       ELSE IF ~inPlace /\ n # Root /\ m = Parent[n] THEN [disk[m] EXCEPT !.stamp = clock + 1]
       ELSE disk[m]]
  /\ seen' = IF walk.pc = "idle" THEN seen ELSE [p \in Path |-> seen[p] \cup {ContentOf(disk', p)}]
  /\ UNCHANGED <<began, scans, walk, cache, result>>

Fresh(kind) == [kind |-> kind, stamp |-> clock + 1]

Write(p) == disk[p].kind = "file" /\ Change(p, Fresh("file"), TRUE)
Replace(p) ==
  /\ disk[p].kind \in {"file", "odd"}
  /\ \E kind \in {"file", "odd"} : Change(p, Fresh(kind), FALSE)
Create(n) ==
  /\ disk[n] = Gone /\ (n # Root => disk[Parent[n]].kind = "dir")
  /\ \E kind \in {"file", "dir", "odd"} : (n = Root => kind = "dir") /\ Change(n, Fresh(kind), FALSE)
Delete(n) == disk[n] # Gone /\ Entries(n) = {} /\ Change(n, Gone, FALSE)

-------------------------------------------------------------------------------
(***************************************************************************)
(* The walk.                                                               *)
(***************************************************************************)
Walk(w) == walk' = w /\ UNCHANGED <<treeVars, seen, began, scans, cache, result>>

Finish(how) ==
  /\ walk' = Resting
  /\ result' = [how |-> how, manifest |-> IF how = "ok" THEN walk.manifest ELSE Empty]
  /\ UNCHANGED <<treeVars, seen, began, scans, cache>>

\* Mutant: the flag of the last attempt is still set.
Clean_Never == [Resting EXCEPT !.dirty = walk.dirty]
Clean == Resting

BeginAttempt(n) ==
  /\ walk' = [Clean EXCEPT !.pc = "root", !.attempt = n]
  /\ seen' = [p \in Path |-> {ContentOf(disk, p)}]
  /\ began' = [scan |-> IF n = 1 THEN clock ELSE began.scan, attempt |-> clock]
  /\ UNCHANGED <<treeVars, cache>>

Scan ==
  /\ walk.pc = "idle" /\ scans < MaxScans /\ scans' = scans + 1
  /\ BeginAttempt(1) /\ result' = [how |-> None, manifest |-> Empty]

Frame(kind, n) == [kind |-> kind, path |-> n, stamp |-> disk[n].stamp]

SameDirectory(frame) == disk[frame.path].kind = "dir" /\ disk[frame.path].stamp = frame.stamp

LstatRoot ==
  /\ walk.pc = "root"
  /\ CASE disk[Root].kind = "dir" -> Walk([walk EXCEPT !.pc = "walk", !.stack = <<Frame("dir", Root)>>])
       [] OTHER -> Finish("directory_missing")

\* The attempt is clean, or the tree is walked again, or the scan gives up.
CloseOut ==
  /\ walk.pc = "walk" /\ walk.stack = <<>> /\ walk.names = {}
  /\ \/ ~walk.dirty /\ Finish("ok")
     \/ walk.dirty /\ walk.attempt = MaxAttempts /\ Finish("unstable")
     \/ walk.dirty /\ walk.attempt < MaxAttempts /\ BeginAttempt(walk.attempt + 1) /\ UNCHANGED <<scans, result>>

Top == walk.stack[Len(walk.stack)]
Pop(stack) == SubSeq(stack, 1, Len(stack) - 1)
AtFrame(kind) == walk.pc = "walk" /\ walk.names = {} /\ walk.stack # <<>> /\ Top.kind = kind

\* The re-check of a directory, after everything below it.
CheckDirectory ==
  /\ AtFrame("check")
  /\ Walk([walk EXCEPT !.dirty = @ \/ ~SameDirectory(Top), !.stack = Pop(@)])

\* What an enumeration returns is settled only when it ends.
OpenDirectory ==
  /\ AtFrame("dir")
  /\ CASE disk[Top.path].kind = "dir" ->
            Walk([walk EXCEPT !.pc = "list", !.names = Entries(Top.path), !.file.pre = disk[Top.path].stamp])
       [] OTHER -> Walk([walk EXCEPT !.dirty = TRUE, !.stack = Pop(@)])

ListDirectory ==
  /\ walk.pc = "list"
  /\ \E found \in SUBSET (walk.names \cup Entries(Top.path)) :
       /\ disk[Top.path].stamp = walk.file.pre => found = walk.names
       /\ Walk([walk EXCEPT !.pc = "walk", !.names = found, !.file = NoFile,
                            !.stack = Append(Pop(@), [Top EXCEPT !.kind = "check"])])

Known(path) == {i \in DOMAIN cache : cache[i].path = path}

\* set: a known file keeps its place, the oldest makes room for a new one.
Remembered(entry) ==
  IF Known(entry.path) # {}
  THEN [i \in DOMAIN cache |-> IF i \in Known(entry.path) THEN entry ELSE cache[i]]
  ELSE Append(IF Len(cache) = MaxCached THEN Tail(cache) ELSE cache, entry)

Reusable(known) == {i \in Known(known.path) : scans > 1 /\ cache[i].stamp = known.stamp}

Collect(w, entry) ==
  /\ walk' = [w EXCEPT !.manifest[entry.path] = entry.hash]
  /\ cache' = Remembered(entry)
  /\ UNCHANGED <<treeVars, seen, began, scans, result>>

\* Never-sync entries are dropped before any system call, and so before it is
\* known whether they are files.
Prune(p) ==
  /\ walk.pc = "walk" /\ p \in walk.names \cap NeverSync
  /\ Walk([walk EXCEPT !.names = @ \ {p}])

Inspect(p) ==
  /\ walk.pc = "walk" /\ p \in walk.names \ NeverSync
  /\ LET after == [walk EXCEPT !.names = @ \ {p}]
         known == [path |-> p, stamp |-> disk[p].stamp]
     IN CASE disk[p].kind = "none" -> Walk([after EXCEPT !.dirty = TRUE])
          [] disk[p].kind = "odd" -> Finish("failed")
          [] disk[p].kind = "dir" -> Walk([after EXCEPT !.stack = Append(@, Frame("dir", p))])
          [] OTHER -> \/ \E i \in Reusable(known) : Collect(after, cache[i])
                      \/ /\ Reusable(known) = {}
                         /\ Walk([after EXCEPT !.pc = "open", !.file = [NoFile EXCEPT !.path = p, !.pre = known.stamp]])

(***************************************************************************)
(* Reading a file: lstat (above), open without following, read, lstat.     *)
(***************************************************************************)
Reading == walk.file.path
Moved(w) == Walk([w EXCEPT !.pc = "walk", !.file = NoFile, !.dirty = TRUE])

Open ==
  /\ walk.pc = "open"
  /\ CASE disk[Reading].kind = "file" -> Walk([walk EXCEPT !.pc = "read", !.file.fd = disk[Reading].stamp])
       [] disk[Reading].kind = "none" -> Moved(walk)
       [] OTHER -> Finish("failed")

\* Bytes of a file that is written meanwhile may be of either version or of both.
Read ==
  /\ walk.pc = "read"
  /\ \E bytes \in IF disk[Reading].stamp = walk.file.fd THEN {walk.file.fd}
                  ELSE {walk.file.fd, disk[Reading].stamp, Torn} :
       Walk([walk EXCEPT !.pc = "recheck", !.file.bytes = bytes])

\* The file at the path is still the one that was inspected.
Unmoved(f) == disk[f.path] = [kind |-> "file", stamp |-> f.pre]

Recheck ==
  /\ walk.pc = "recheck"
  /\ \/ /\ Unmoved(walk.file)
        /\ Collect([walk EXCEPT !.pc = "walk", !.file = NoFile],
                   [path |-> Reading, stamp |-> disk[Reading].stamp, hash |-> walk.file.bytes])
     \/ ~Unmoved(walk.file) /\ Moved(walk)

\* A refusal of the kernel, a path the wire cannot carry or a limit fails the
\* scan; an abort is noticed before an attempt, a frame or an entry.
Fail == walk.pc # "idle" /\ Finish("failed")
Cancel == walk.pc \in {"root", "walk"} /\ Finish("cancelled")

Next ==
  \/ \E n \in Node : Create(n) \/ Delete(n)
  \/ \E p \in Path : Write(p) \/ Replace(p) \/ Prune(p) \/ Inspect(p)
  \/ Scan \/ LstatRoot \/ CloseOut \/ CheckDirectory \/ OpenDirectory \/ ListDirectory
  \/ Open \/ Read \/ Recheck \/ Fail \/ Cancel

-------------------------------------------------------------------------------
\* What the scan never comes to: what a rule matches, and what is in it.
Pruned ==
  {p \in Path : \A S \in SUBSET Path :
     NeverSync \subseteq S /\ (\A q \in Path : Parent[q] \in S => q \in S) => p \in S}

\* A complete manifest is true: each file in it had that content at its path
\* during the attempt, and a path it lacks was without a file at some moment of
\* it; nothing that stayed is left out, and so deleted on the server, unless it
\* is pruned.  The same hash never stands for other bytes in the cache.
ManifestIsTrue ==
  /\ result.how = "ok" =>
       \A p \in Path : IF p \in Pruned THEN result.manifest[p] = None
                       ELSE result.manifest[p] \in seen[p]
  /\ \A i \in DOMAIN cache : cache[i].hash = cache[i].stamp
  /\ Len(cache) <= MaxCached

\* Unrest is never invented: an attempt is thrown away only if the tree changed
\* since it began, so a quiet tree is not rescanned, and a scan reports
\* "unstable" only after a change in every attempt.
UnrestIsReal ==
  /\ walk.dirty => clock > began.attempt
  /\ walk.attempt >= 1 => began.attempt >= began.scan + walk.attempt - 1
  /\ result.how = "unstable" => clock >= began.scan + MaxAttempts
===============================================================================
