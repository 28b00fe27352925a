----------------------------- MODULE MCScheduler -----------------------------
(***************************************************************************)
(* Small instances of Scheduler for TLC.                                   *)
(***************************************************************************)
EXTENDS Scheduler, TLC

CONSTANTS g1, c1, c2, p1, r1

\* c1 fires at every instant, c2 at every second one.
MCOccurs == [c \in Cron |-> IF c = c1 THEN 1..MaxTime
                            ELSE {t \in 1..MaxTime : t % 2 = 0}]

=============================================================================
