----------------------------- MODULE DaemonStartup -----------------------------
(***************************************************************************)
(* The start and the end of a daemon process (daemon/src/cli.ts): the      *)
(* directories made for this start (jail.ts, control-root.ts), the probe   *)
(* of the Claude binary (probe-claude.ts), and their release, with a       *)
(* failure of any step, a crash, an update of the binary and someone who   *)
(* moves the directories away.  What happens between the first poll and    *)
(* the last is in DaemonRuntime.                                           *)
(***************************************************************************)
EXTENDS Naturals

CONSTANTS MaxUpdates   \* bound: updates of the binary

VARIABLES
  pc,       \* the step the process is at
  root,     \* the directories "scratch" and "control" of this start
  held,     \* those the process knows it has to release
  binary,   \* the identity of the file at the resolved path
  pinned,   \* the identity the probe took, 0 before
  ran       \* history: the identity that each probe executed

startVars == <<pc, root, held, binary, pinned, ran>>

Root == {"scratch", "control"}
Probe == {"version", "help"}

Init ==
  /\ pc = "off" /\ root = [d \in Root |-> "none"] /\ held = {}
  /\ binary = 1 /\ pinned = 0 /\ ran = [i \in Probe |-> 0]

At(step, next) == pc = step /\ pc' = next

\* Every failure of prepareDaemon ends in the release of what was handed over.
OnFailure == "release_control"

FailAt(step) == At(step, OnFailure) /\ UNCHANGED <<root, held, binary, pinned, ran>>

(***************************************************************************)
(* The directories: mkdtemp, then what makes one usable.  A directory that *)
(* is not finished is removed where it was made, as far as that goes.      *)
(***************************************************************************)
Make(d, step, next) ==
  /\ At(step, next) /\ root' = [root EXCEPT ![d] = "half"]
  /\ UNCHANGED <<held, binary, pinned, ran>>

Finish(d, step, next) ==
  \/ /\ At(step, next) /\ held' = held \cup {d}
     /\ root' = [root EXCEPT ![d] = IF @ = "half" THEN "made" ELSE @]
     /\ UNCHANGED <<binary, pinned, ran>>
  \/ /\ At(step, OnFailure)
     /\ \E left \in {"gone", "stuck"} : root' = [root EXCEPT ![d] = left]
     /\ UNCHANGED <<held, binary, pinned, ran>>

CreateJail == Make("scratch", "off", "chmod") \/ FailAt("off")
FinishJail == Finish("scratch", "chmod", "bundle")
\* The bundle and its digest, Node and its OpenSSL settings come first.
CreateControlRoot == Make("control", "bundle", "files") \/ FailAt("bundle")
FinishControlRoot == Finish("control", "files", "stat")

(***************************************************************************)
(* The probe: two spawns, each between two looks at the file.              *)
(***************************************************************************)
Stat ==
  \/ /\ At("stat", "before_version") /\ pinned' = binary
     /\ UNCHANGED <<root, held, binary, ran>>
  \/ FailAt("stat")

Look(step, next) ==
  \/ At(step, next) /\ binary = pinned /\ UNCHANGED <<root, held, binary, pinned, ran>>
  \/ FailAt(step)

\* Mutant: the file is not looked at again after the spawn.
LookAgain_Trusted(step, next) == At(step, next) /\ UNCHANGED <<root, held, binary, pinned, ran>>
LookAgain(step, next) == Look(step, next)

Spawn(i, step, next) ==
  /\ At(step, next) /\ ran' = [ran EXCEPT ![i] = binary]
  /\ UNCHANGED <<root, held, binary, pinned>>

ProbeVersion ==
  \/ Look("before_version", "version")
  \/ Spawn("version", "version", "after_version")
  \/ LookAgain("after_version", "version_answer")
  \/ At("version_answer", "before_help") /\ UNCHANGED <<root, held, binary, pinned, ran>>
  \/ FailAt("version_answer")

ProbeHelp ==
  \/ Look("before_help", "help")
  \/ Spawn("help", "help", "after_help")
  \/ LookAgain("after_help", "help_answer")
  \/ At("help_answer", "bootstrap") /\ UNCHANGED <<root, held, binary, pinned, ran>>
  \/ FailAt("help_answer")

\* The provider settings and the composition, then the first poll.
Bootstrap ==
  \/ At("bootstrap", "polling") /\ UNCHANGED <<root, held, binary, pinned, ran>>
  \/ FailAt("bootstrap")

\* A signal or a fatal error: run() returns or throws into main's finally.
Leave == At("polling", "release_control") /\ UNCHANGED <<root, held, binary, pinned, ran>>

(***************************************************************************)
(* The release: control root, then scratch root; one that fails is logged. *)
(***************************************************************************)
Release(d, step, next) ==
  \/ d \notin held /\ At(step, next) /\ UNCHANGED <<root, held, binary, pinned, ran>>
  \/ /\ d \in held /\ At(step, next)
     /\ root' \in {[root EXCEPT ![d] = IF @ = "made" THEN left ELSE @] : left \in {"gone", "stuck"}}
     /\ UNCHANGED <<held, binary, pinned, ran>>

ReleaseControl == Release("control", "release_control", "release_scratch")
ReleaseScratch == Release("scratch", "release_scratch", "ended")

(***************************************************************************)
(* The world.                                                              *)
(***************************************************************************)
Update ==
  /\ binary <= MaxUpdates /\ binary' = binary + 1
  /\ UNCHANGED <<pc, root, held, pinned, ran>>

\* Something that is no directory takes the place of one, or nothing does.
Displace(d) ==
  /\ root[d] \in {"half", "made"} /\ \E v \in {"gone", "replaced"} : root' = [root EXCEPT ![d] = v]
  /\ UNCHANGED <<pc, held, binary, pinned, ran>>

Crash ==
  /\ pc \notin {"off", "ended", "crashed"} /\ pc' = "crashed"
  /\ UNCHANGED <<root, held, binary, pinned, ran>>

Next ==
  \/ CreateJail \/ FinishJail \/ CreateControlRoot \/ FinishControlRoot
  \/ Stat \/ ProbeVersion \/ ProbeHelp \/ Bootstrap \/ Leave
  \/ ReleaseControl \/ ReleaseScratch
  \/ Update \/ Crash \/ \E d \in Root : Displace(d)

-------------------------------------------------------------------------------
\* A process that ends by itself leaves no directory of its start behind, except
\* one whose removal failed or that is no longer the one it made, at whichever step
\* it failed; and a daemon that polls has pinned the very binary that gave both
\* answers of the probe, whatever was installed meanwhile.
StartIsClean ==
  /\ pc = "ended" => \A d \in Root : root[d] \notin {"half", "made"}
  /\ pc = "polling" => held = Root /\ \A i \in Probe : ran[i] = pinned
===============================================================================
