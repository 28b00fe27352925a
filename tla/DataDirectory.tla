----------------------------- MODULE DataDirectory -----------------------------
(***************************************************************************)
(* Who may open the database of a data directory: the lock file            *)
(* (server/src/data-dir-lock.ts), the boot and the stop of a server        *)
(* (start.ts, http/server-shutdown.ts, db/index.ts) and a run of           *)
(* claim:legacy (claim/legacy.ts), with crashes that leave the lock file   *)
(* behind and an operator who removes it at any time.  What a server does  *)
(* while it serves is in the other modules.                                *)
(***************************************************************************)
EXTENDS Naturals

CONSTANTS
  Process,
  Claimer,    \* the processes that run claim:legacy; the others are servers
  MaxLocks    \* bound: lock files created

VARIABLES
  lockFile,   \* the inode of the lock file, 0 if there is none
  inode,      \* the last inode
  own,        \* the inode each process created
  stage,      \* where each process is
  client,     \* servers that a client keeps a connection to
  leaking,    \* processes whose migration failed, with the database left open
  lost,       \* history: inodes that were unlinked by others than their process
  raced,      \* history: processes whose lock was lost as they were to unlink it
  stuck       \* history: a close of the database failed

dirVars == <<lockFile, inode, own, stage, client, leaking, lost, raced, stuck>>

\* The stages in which the process has the database open and means to.
Open == {"open", "listening", "serving", "draining", "sweeping", "http", "db"}

Init ==
  /\ lockFile = 0 /\ inode = 0 /\ client = {} /\ stuck = FALSE
  /\ leaking = {} /\ lost = {} /\ raced = {}
  /\ own = [p \in Process |-> 0]
  /\ stage = [p \in Process |-> "down"]

Stays == UNCHANGED <<lockFile, inode, own, client, lost, stuck>>

\* p's next step changes nothing but its stage.
Go(p, from, to) ==
  /\ stage[p] = from /\ stage' = [stage EXCEPT ![p] = to]
  /\ Stays /\ UNCHANGED <<leaking, raced>>

(***************************************************************************)
(* Boot.                                                                   *)
(***************************************************************************)
\* open(path, "wx"); EEXIST refuses and changes nothing.
Acquire(p) ==
  /\ stage[p] = "down" /\ lockFile = 0 /\ inode < MaxLocks
  /\ inode' = inode + 1 /\ lockFile' = inode + 1
  /\ own' = [own EXCEPT ![p] = inode + 1]
  /\ stage' = [stage EXCEPT ![p] = "locked"]
  /\ UNCHANGED <<client, leaking, lost, raced, stuck>>

\* A record that cannot be written undoes the lock.
WriteHolder(p) ==
  \/ Go(p, "locked", "undo")
  \/ /\ stage[p] = "locked" /\ stage' = [stage EXCEPT ![p] = "held"]
     /\ raced' = raced \ {p}
     /\ Stays /\ UNCHANGED leaking

\* The database is not there or does not open; or it opens and is migrated.  If the
\* migration fails nobody has the handle to close it, and the lock is released.
OpenDatabase(p) ==
  \/ Go(p, "held", "release") \/ Go(p, "held", "open")
  \/ /\ stage[p] = "held" /\ stage' = [stage EXCEPT ![p] = "release"]
     /\ leaking' = leaking \cup {p}
     /\ Stays /\ UNCHANGED raced

\* A server binds its port, then starts the scheduler; a listener that fails
\* closes the database, a scheduler that fails is drained first.
Listen(p) == p \notin Claimer /\ (Go(p, "open", "listening") \/ Go(p, "open", "db"))
StartScheduler(p) == Go(p, "listening", "serving") \/ Go(p, "listening", "draining")
Claim(p) == p \in Claimer /\ Go(p, "open", "db")

(***************************************************************************)
(* Stop: the scheduler, the sweep, the listener, the database, the lock.   *)
(***************************************************************************)
Signal(p) == Go(p, "serving", "draining")
Drained(p) == Go(p, "draining", "sweeping")
Swept(p) == Go(p, "sweeping", "http")

\* Idle connections are closed at once; one in use, or one whose client never
\* lets go, is cut when the grace period ends.
Connect(p) == stage[p] = "serving" /\ p \notin client /\ client' = client \cup {p}
              /\ UNCHANGED <<lockFile, inode, own, stage, leaking, lost, raced, stuck>>
Disconnect(p) == p \in client /\ client' = client \ {p}
                 /\ UNCHANGED <<lockFile, inode, own, stage, leaking, lost, raced, stuck>>

\* Mutant: the listener waits for its clients.
ListenerClosed_Waits(p) == p \notin client
ListenerClosed(p) == TRUE

CloseHttp(p) ==
  /\ stage[p] = "http" /\ ListenerClosed(p)
  /\ stage' = [stage EXCEPT ![p] = "db"] /\ client' = client \ {p}
  /\ UNCHANGED <<lockFile, inode, own, leaking, lost, raced, stuck>>

\* p is gone, with what it had in memory.
Gone(p) ==
  /\ stage' = [stage EXCEPT ![p] = "down"] /\ own' = [own EXCEPT ![p] = 0]
  /\ client' = client \ {p} /\ leaking' = leaking \ {p} /\ raced' = raced \ {p}
  /\ UNCHANGED <<lockFile, inode, lost>>

\* The lock is not released if the client of the database fails to close.
CloseDatabase(p) ==
  \/ Go(p, "db", "release")
  \/ stage[p] = "db" /\ Gone(p) /\ stuck' = TRUE

\* Mutant: the path is unlinked whatever it names.
Ours_Assumed(p) == TRUE
Ours(p) == lockFile = own[p]

Compare(p) == IF Ours(p) THEN Go(p, "release", "unlink") ELSE Go(p, "release", "exit")

\* The processes that were to unlink the lock file, now that another does.
Racing == {p \in Process : own[p] = lockFile /\ stage[p] \in {"locked", "undo", "unlink"}}

\* The path is unlinked without another look, and so is the lock of another that is
\* there by now.  A failure is ignored.
Unlink(p) ==
  /\ stage[p] \in {"unlink", "undo"} /\ stage' = [stage EXCEPT ![p] = "exit"]
  /\ \/ lockFile' = 0
     \/ lockFile' = lockFile
  /\ IF lockFile' # lockFile /\ lockFile # own[p]
     THEN lost' = lost \cup {lockFile} /\ raced' = raced \cup Racing
     ELSE UNCHANGED <<lost, raced>>
  /\ UNCHANGED <<inode, own, client, leaking, stuck>>

Exit(p) == stage[p] = "exit" /\ Gone(p) /\ UNCHANGED stuck

(***************************************************************************)
(* A crash, and the operator's rm of a lock file.                          *)
(***************************************************************************)
Crash(p) == stage[p] # "down" /\ Gone(p) /\ UNCHANGED stuck

\* The operator is asked to make sure first that no process uses the directory.
RemoveLock ==
  /\ lockFile # 0 /\ lockFile' = 0
  /\ lost' = lost \cup {lockFile} /\ raced' = raced \cup Racing
  /\ UNCHANGED <<inode, own, stage, client, leaking, stuck>>

ProcessStep(p) ==
  \/ WriteHolder(p) \/ OpenDatabase(p) \/ Listen(p) \/ StartScheduler(p) \/ Claim(p)
  \/ Drained(p) \/ Swept(p) \/ CloseHttp(p) \/ CloseDatabase(p)
  \/ Compare(p) \/ Unlink(p) \/ Exit(p)

Next ==
  \/ \E p \in Process : ProcessStep(p) \/ Acquire(p) \/ Signal(p) \/ Connect(p) \/ Disconnect(p) \/ Crash(p)
  \/ RemoveLock

-------------------------------------------------------------------------------
\* Who has the database open, failed boots among them, and who of them has
\* released its lock nevertheless.
Uses(p) == stage[p] \in Open \/ p \in leaking
Released(p) == p \in leaking /\ stage[p] = "exit"

\* The lock file is there and that of the process which has the database open, until
\* that releases it, unless its own lock was lost; so of two that have it open at once
\* one has lost its lock, or its migration failed and it released a lock that it still
\* needed.  A process in its release or its undo takes the lock of another only if it
\* has itself lost its own since it compared, or before a record that it could not
\* write: after an rm of its lock while it ran, another's is left alone.
OneProcessHasTheData ==
  /\ \A p \in Process : Uses(p) /\ ~Released(p) => lockFile = own[p] \/ own[p] \in lost
  /\ \A p, q \in Process :
       Uses(p) /\ Uses(q) /\ p # q =>
         {own[p], own[q]} \cap lost # {} \/ Released(p) \/ Released(q)
  /\ \A p \in Process : stage[p] \in {"undo", "unlink"} => lockFile = own[p] \/ p \in raced
===============================================================================
