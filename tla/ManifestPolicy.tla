---------------------------- MODULE ManifestPolicy ----------------------------
(***************************************************************************)
(* Two rules that daemon and server share: which manifests are legal       *)
(* (normalizeManifestEntries of protocol/src/artifact-policy.ts, one entry *)
(* at a time in wire order) and which directories the daemon may use       *)
(* (intersectRoots of daemon/src/jail.ts, resolveArtifactRoot of           *)
(* artifact-jail.ts, guardArtifactRoot of artifact-root-guard.ts).  A path *)
(* is the sequence of its segments; the spelling of paths, hashes and      *)
(* sizes is left out.                                                      *)
(***************************************************************************)
EXTENDS Naturals, FiniteSets, Sequences

CONSTANTS
  FilePath,       \* paths entries may have
  Hash, Size,
  DirectoryRule,  \* NEVER_SYNC_DIRECTORY_RULES: windows of segments
  FileRule,       \* NEVER_SYNC_FILE_RULES: last segments
  MaxFile,        \* ARTIFACT_FILE_MAX_BYTES
  MaxTotal,       \* ARTIFACT_MANIFEST_MAX_TOTAL_BYTES
  MaxEntries,     \* ARTIFACT_MANIFEST_MAX_ENTRIES
  MaxWire,        \* bound: entries sent
  Directory,      \* paths of directories that roots may name
  Landing,        \* where each of them really is, None if it is not there
  None

VARIABLES
  wire,    \* the entries so far
  accept,  \* what the pass has seen: [paths, prefixes, sizes, total, failed]
  roots    \* [daemon, server]: canonical roots of either side

policyVars == <<wire, accept, roots>>

Init ==
  /\ wire = <<>>
  /\ accept = [paths |-> {}, prefixes |-> {}, sizes |-> {}, total |-> 0, failed |-> FALSE]
  /\ roots = [daemon |-> {}, server |-> {}]

Entry == [path : FilePath, hash : Hash, size : Size]

\* A directory rule matches any window of segments, a file rule the last one.
NeverSyncDirectory(path) ==
  \E rule \in DirectoryRule : \E i \in 1..Len(path) - Len(rule) + 1 : SubSeq(path, i, i + Len(rule) - 1) = rule
NeverSync(path) == NeverSyncDirectory(path) \/ path[Len(path)] \in FileRule

ProperPrefixes(path) == {SubSeq(path, 1, i) : i \in 1..Len(path) - 1}

\* `a` then `a/b`, and `a/b` then `a`.
Conflicts(path) == ProperPrefixes(path) \cap accept.paths # {} \/ path \in accept.prefixes

EntryFails(e) ==
  \/ NeverSync(e.path) \/ e.size > MaxFile
  \/ e.path \in accept.paths \/ Conflicts(e.path)
  \/ \E known \in accept.sizes : known.hash = e.hash /\ known.size # e.size

Send(e) ==
  /\ Len(wire) < MaxWire /\ wire' = Append(wire, e)
  /\ accept' = IF accept.failed \/ EntryFails(e) THEN [accept EXCEPT !.failed = TRUE]
               ELSE [accept EXCEPT !.paths = @ \cup {e.path},
                                   !.prefixes = @ \cup ProperPrefixes(e.path),
                                   !.sizes = @ \cup {[hash |-> e.hash, size |-> e.size]},
                                   !.total = @ + e.size]
  /\ UNCHANGED roots

\* After the pass, the caps.
Accepted == ~accept.failed /\ Len(wire) <= MaxEntries /\ accept.total <= MaxTotal

-------------------------------------------------------------------------------
isWithinOrEqual(parent, child) == Len(parent) <= Len(child) /\ parent = SubSeq(child, 1, Len(parent))

Narrower(d, s) == IF isWithinOrEqual(d, s) THEN s ELSE d

intersectRoots ==
  LET nested == {pair \in roots.daemon \X roots.server :
                   isWithinOrEqual(pair[1], pair[2]) \/ isWithinOrEqual(pair[2], pair[1])}
      common == {Narrower(pair[1], pair[2]) : pair \in nested}
  IN {r \in common : \A other \in common : other # r => ~isWithinOrEqual(other, r)}

\* No roots from the server: nothing is narrowed.
effectiveRoots == IF roots.server = {} THEN roots.daemon ELSE intersectRoots

\* The directory is taken where it really is, links followed, and that must lie
\* within a root; the guard looks at the same place.
resolveArtifactRoot(d) ==
  IF \E r \in effectiveRoots : Landing[d] # None /\ isWithinOrEqual(r, Landing[d]) THEN Landing[d] ELSE None
guardArtifactRoot(real) == ~NeverSyncDirectory(real)

\* The roots are the canonical ones.
GiveRoot(d) ==
  /\ wire = <<>>
  /\ Landing[d] = d
  /\ \/ d \notin roots.daemon /\ roots' = [roots EXCEPT !.daemon = @ \cup {d}]
     \/ d \notin roots.server /\ roots' = [roots EXCEPT !.server = @ \cup {d}]
  /\ UNCHANGED <<wire, accept>>

Next ==
  \/ \E e \in Entry : roots = [daemon |-> {}, server |-> {}] /\ Send(e)
  \/ \E d \in Directory : GiveRoot(d)

-------------------------------------------------------------------------------
\* A manifest is accepted in one pass exactly if, in any order, its paths are
\* distinct, none is a directory of another, a hash has one size, nothing in it
\* may stay behind and it is within the caps, all its bytes side by side: daemon
\* and server agree on it.
PolicyIsOrderFree ==
  LET at == DOMAIN wire
      Apart(i, j) == /\ ~isWithinOrEqual(wire[i].path, wire[j].path)
                     /\ wire[i].hash = wire[j].hash => wire[i].size = wire[j].size
  IN Accepted <=>
       /\ Len(wire) <= MaxEntries
       /\ Cardinality(UNION {{i} \X (1 .. wire[i].size) : i \in at}) <= MaxTotal
       /\ \A i \in at : ~NeverSync(wire[i].path) /\ wire[i].size <= MaxFile
       /\ \A i, j \in at : i # j => Apart(i, j)

\* The server only narrows: a directory may be used exactly if both sides allow
\* it, and no root that is left lies within another.  An artifact directory is
\* followed to where it is: what is synced is allowed by the daemon, by a server
\* that names roots, and is in no directory that must stay behind.
RootsOnlyNarrow ==
  LET Allowed(set, d) == \E r \in set : isWithinOrEqual(r, d)
      Both(d) == Allowed(roots.daemon, d) /\ (roots.server # {} => Allowed(roots.server, d))
  IN
  /\ \A d \in Directory : Allowed(effectiveRoots, d) <=> Both(d)
  /\ roots.server # {} => \A r, s \in intersectRoots : r # s => ~isWithinOrEqual(r, s)
  /\ \A d \in Directory :
       LET real == resolveArtifactRoot(d) IN
       (real # None /\ guardArtifactRoot(real)) <=>
         (Landing[d] # None /\ Both(Landing[d]) /\ ~NeverSyncDirectory(Landing[d]))
===============================================================================
