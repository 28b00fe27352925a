----------------------------- MODULE ArtifactLog -----------------------------
(***************************************************************************)
(* What the artifact home promises.  Every loop has an append-only log of  *)
(* snapshots.  A sync session is opened against the current end of the log *)
(* and the current generation of the loop's configuration; it appends its  *)
(* snapshot at most once, at the very place it was opened for, and never   *)
(* for a generation that has passed.                                       *)
(***************************************************************************)
EXTENDS Integers, Sequences

CONSTANTS Loop, Key, Content, None

VARIABLES
  log,         \* the snapshots of each loop
  generation,  \* the generation of each loop's configuration
  ticket,      \* what each session was opened for, None before
  receipt      \* the place of each session's snapshot in its log, None before

vars == <<log, generation, ticket, receipt>>

Ticket == [loop: Loop, base: Nat, generation: Nat, content: Content]

\* A loop that is created with a directory begins with generation 1.
Init ==
  /\ log = [l \in Loop |-> <<>>]
  /\ generation \in [Loop -> {0, 1}]
  /\ ticket = [k \in Key |-> None]
  /\ receipt = [k \in Key |-> None]

\* Session k is negotiated for the end of loop l's log.
Open(k, l, content) ==
  /\ ticket[k] = None
  /\ ticket' = [ticket EXCEPT ![k] = [loop |-> l, base |-> Len(log[l]),
                                      generation |-> generation[l],
                                      content |-> content]]
  /\ UNCHANGED <<log, generation, receipt>>

\* Session k appends its snapshot.
Publish(k) ==
  LET t == ticket[k]
  IN /\ t # None
     /\ receipt[k] = None
     /\ t.base = Len(log[t.loop])
     /\ t.generation = generation[t.loop]
     /\ log' = [log EXCEPT ![t.loop] = Append(@, [session |-> k, content |-> t.content])]
     /\ receipt' = [receipt EXCEPT ![k] = t.base + 1]
     /\ UNCHANGED <<generation, ticket>>

\* The configuration of loop l changes; its log stays.
Reconfigure(l) ==
  /\ generation' = [generation EXCEPT ![l] = @ + 1]
  /\ UNCHANGED <<log, ticket, receipt>>

Next ==
  \/ \E k \in Key, l \in Loop, e \in Content : Open(k, l, e)
  \/ \E k \in Key : Publish(k)
  \/ \E l \in Loop : Reconfigure(l)

Spec == Init /\ [][Next]_vars

================================================================================
