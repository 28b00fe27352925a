--------------------------- MODULE OccurrenceSearch ---------------------------
(***************************************************************************)
(* latestOccurrence of server/src/schedule/time-semantics.ts: the latest   *)
(* occurrence at or before an instant, found with nextOccurrence alone, by *)
(* looking back over a window that doubles and then bisecting.  One probe  *)
(* is one step; a schedule is the set of its occurrences.                  *)
(***************************************************************************)
EXTENDS Integers, FiniteSetsExt

CONSTANTS
  Earliest,      \* the first instant of year 1; no occurrence is searched at it
  Latest,        \* bound: the last instant asked for
  FirstWindow,   \* 120 s
  None

Instant == Earliest..Latest

VARIABLES
  occurrences,  \* the occurrences of the schedule, also later ones than asked for
  search        \* [pc, at, low, high, window, found]

searchVars == <<occurrences, search>>

Init ==
  /\ occurrences = {}
  /\ search = [pc |-> "idle", at |-> Earliest, low |-> Earliest, high |-> Earliest, window |-> 0, found |-> None]

\* Strictly after; None where Croner finds nothing.
nextOccurrence(after) ==
  LET later == {t \in occurrences : t > after} IN IF later = {} THEN None ELSE Min(later)

Ask ==
  /\ search.pc = "idle"
  /\ \E at \in Instant, set \in SUBSET (Earliest + 1 .. Latest) :
       /\ occurrences' = set
       /\ search' = [search EXCEPT !.pc = "widen", !.at = at, !.low = at, !.high = at, !.window = FirstWindow]

Reached(t) == t # None /\ t <= search.at

Greater(a, b) == IF a > b THEN a ELSE b
Smaller(a, b) == IF a < b THEN a ELSE b

Widen ==
  /\ search.pc = "widen"
  /\ LET start == Greater(Earliest, search.at - search.window)
         probe == Greater(Earliest, start - 1)
     IN search' =
          IF Reached(nextOccurrence(probe)) THEN [search EXCEPT !.pc = "bisect", !.low = probe]
          ELSE IF start = Earliest THEN [search EXCEPT !.pc = "done"]
          ELSE [search EXCEPT !.window = Smaller(@ * 2, search.at - Earliest)]
  /\ UNCHANGED occurrences

Bisect ==
  /\ search.pc = "bisect" /\ search.high - search.low > 1
  /\ LET middle == search.low + (search.high - search.low) \div 2 IN
     search' = IF Reached(nextOccurrence(middle)) THEN [search EXCEPT !.low = middle]
               ELSE [search EXCEPT !.high = middle]
  /\ UNCHANGED occurrences

Settle ==
  /\ search.pc = "bisect" /\ search.high - search.low <= 1
  /\ LET latest == nextOccurrence(search.low) IN
     search' = [search EXCEPT !.pc = "done", !.found = IF Reached(latest) THEN latest ELSE None]
  /\ UNCHANGED occurrences

Next == Ask \/ Widen \/ Bisect \/ Settle

\* The search finds the latest occurrence at or before the instant, the one at
\* the instant itself included, and none only if there is none; and the boundary
\* it bisects for stays between low and high.
SearchIsExact ==
  LET past == {t \in occurrences : t <= search.at} IN
  /\ search.pc = "done" => search.found = (IF past = {} THEN None ELSE Max(past))
  /\ search.pc = "bisect" => past # {} /\ search.low < Max(past) /\ Max(past) <= search.high
===============================================================================
