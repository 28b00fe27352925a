---------------------------- MODULE TerminalPolicy ----------------------------
(***************************************************************************)
(* What a run may hand over at its end (protocol/src/terminal-policy.ts):  *)
(* the walk that clones a reported state while it counts the bytes of its  *)
(* JSON, and the rules for texts.  A value is a leaf or a container; a     *)
(* container may be met more than once, or inside itself.  Texts are       *)
(* sequences of UTF-16 units of the classes the rules tell apart.          *)
(***************************************************************************)
EXTENDS Naturals, Sequences, FiniteSets

CONSTANTS
  Container, Root,  \* the containers of a value and the object at its top
  Array,            \* the containers that are arrays; the others are objects
  Given,            \* the values that are reported: what each container holds
  KeyBytes,         \* a key with its colon
  MaxBytes,         \* TERMINAL_STATE_MAX_COMPACT_UTF8_BYTES
  MaxText,          \* the cap of a text in UTF-8 bytes
  None

VARIABLES
  given,    \* the value
  cloning   \* the walk through it

terminalVars == <<given, cloning>>

\* A leaf of one byte; one that strict JSON or the database cannot hold; a hole
\* in an array, or an entry whose key cannot be held.
Leaf == {"digit", "bad", "missing"}

NotBegun == [at |-> "idle", events |-> <<>>, active |-> {}, done |-> {}, index |-> None,
             bytes |-> None, clone |-> None, top |-> None]

Init == given = None /\ cloning = NotBegun

-------------------------------------------------------------------------------
(* cloneTerminalState: a stack of frames to go on with, and at most one      *)
(* value to visit on top of them.                                            *)

Visit(value) == [type |-> "visit", value |-> value]
Resume(n) == [type |-> "next", value |-> n]

Begin ==
  /\ cloning.at = "idle"
  /\ given' \in Given
  /\ cloning' = [NotBegun EXCEPT !.at = "walking", !.events = <<Visit(Root)>>,
                   !.index = [n \in Container |-> 0], !.bytes = [n \in Container |-> 0],
                   !.clone = [n \in Container |-> <<>>]]

Event == cloning.events[Len(cloning.events)]
Below == SubSeq(cloning.events, 1, Len(cloning.events) - 1)
Fail(why) == cloning' = [cloning EXCEPT !.at = why, !.events = <<>>]

TooMany(n, more) == more > MaxBytes - cloning.bytes[n]

\* Attaches a finished value to the container below it, whose bytes grow; walk is
\* the walk without the event and with what the event itself has changed.
Attach(walk, value, size) ==
  IF walk.events = <<>> THEN [walk EXCEPT !.top = value, !.at = "ok"]
  ELSE LET n == walk.events[Len(walk.events)].value
           taken == [walk EXCEPT !.clone[n] = Append(@, value)]
       IN IF TooMany(n, size) THEN [taken EXCEPT !.at = "too_large", !.events = <<>>]
          ELSE [taken EXCEPT !.bytes[n] = @ + size]

Popped == [cloning EXCEPT !.events = Below]

Close ==
  LET n == Event.value
  IN /\ Event.type = "next" /\ cloning.index[n] = Len(given[n])
     /\ cloning' = Attach([Popped EXCEPT !.active = @ \ {n}, !.done = @ \cup {n}], n, cloning.bytes[n])

\* A comma unless the entry is the first, and in an object the key.
Separator(n, i) == (IF i > 1 THEN 1 ELSE 0) + (IF n \in Array THEN 0 ELSE KeyBytes)

\* The next entry: a bad key is seen before its bytes are counted, a hole after.
Enter ==
  LET n == Event.value
      i == cloning.index[n] + 1
      more == Separator(n, i)
      missing == given[n][i] = "missing"
  IN /\ Event.type = "next" /\ i <= Len(given[n])
     /\ IF missing /\ n \notin Array THEN Fail("not_json")
        ELSE IF TooMany(n, more) THEN Fail("too_large")
        ELSE IF missing THEN Fail("not_json")
        ELSE cloning' = [cloning EXCEPT !.index[n] = i, !.bytes[n] = @ + more,
                                        !.events = Append(@, Visit(given[n][i]))]

\* A container met again is attached with the bytes it was found to have.
SharedBytes(n) == cloning.bytes[n]

VisitLeaf ==
  /\ Event.type = "visit" /\ Event.value \in Leaf
  /\ IF Event.value = "bad" THEN Fail("not_json") ELSE cloning' = Attach(Popped, "digit", 1)

VisitContainer ==
  LET n == Event.value
  IN /\ Event.type = "visit" /\ n \in Container
     /\ IF n \in cloning.active THEN Fail("not_json")
        ELSE IF n \in cloning.done THEN cloning' = Attach(Popped, n, SharedBytes(n))
        ELSE cloning' = [Popped EXCEPT !.active = @ \cup {n}, !.bytes[n] = 2, !.events = Append(@, Resume(n))]

Walk ==
  /\ cloning.at = "walking" /\ UNCHANGED given
  /\ Close \/ Enter \/ VisitLeaf \/ VisitContainer

Next == Begin \/ Walk

-------------------------------------------------------------------------------
(* Texts: units of one byte, of three, halves of a pair of four, a NUL, a    *)
(* space and a line feed.                                                    *)

Unit == {"one", "three", "high", "low", "nul", "space", "feed"}

Units(t) == {t[i] : i \in DOMAIN t}
Before(t, i) == i > 1 /\ t[i - 1] = "high"
After(t, i) == i < Len(t) /\ t[i + 1] = "low"

\* hasUnpairedSurrogate: a scan that steps over pairs does not get to the end;
\* the stops are places where it finds nothing.
HasUnpaired(t) ==
  ~ \E stops \in SUBSET (1 .. Len(t) + 2) :
      /\ 1 \in stops
      /\ \A i \in stops \cap DOMAIN t :
           /\ t[i] # "low" /\ (t[i] = "high" => After(t, i))
           /\ (IF t[i] = "high" THEN i + 2 ELSE i + 1) \in stops

Representable(t) == "nul" \notin Units(t) /\ ~HasUnpaired(t)

\* TextEncoder: half a pair becomes the replacement character.
Encoded(t, i) ==
  IF t[i] = "high" /\ After(t, i) THEN 4
  ELSE IF t[i] = "low" /\ Before(t, i) THEN 0
  ELSE IF t[i] \in {"three", "high", "low"} THEN 3 ELSE 1
Utf8(t) == Cardinality(UNION {{i} \X (1 .. Encoded(t, i)) : i \in DOMAIN t})

\* More units than bytes allowed need no encoding.
BytesExceed(t, max) == Len(t) > max \/ Utf8(t) > max

White == {"space", "feed"}
Trimmed(t) ==
  LET kept == {i \in DOMAIN t : t[i] \notin White}
  IN IF kept = {} THEN <<>>
     ELSE SubSeq(t, CHOOSE i \in kept : \A j \in kept : i <= j, CHOOSE i \in kept : \A j \in kept : j <= i)

\* normalizeGoal: None, or the goal that is kept.
Goal(t) ==
  LET goal == Trimmed(t)
  IN IF goal = <<>> \/ ~Representable(goal) \/ "feed" \in Units(goal) \/ BytesExceed(goal, MaxText)
     THEN None ELSE goal

\* A message may be empty, the reason of a finish may not.
TerminalText(t, required) ==
  ~(required /\ t = <<>>) /\ Representable(t) /\ ~BytesExceed(t, MaxText)

\* Content or an error, not both; None stands for an absent one.
TaskFileSync(content, error) ==
  /\ (content = None) # (error = None)
  /\ content # None => Representable(content) /\ ~BytesExceed(content, MaxText)

-------------------------------------------------------------------------------
(***************************************************************************)
(* Properties.                                                             *)
(***************************************************************************)

Held(n) == {given[n][i] : i \in DOMAIN given[n]}
\* The containers met from one: no set that has it and what it holds has fewer.
Within(n) ==
  {m \in Container : \A S \in SUBSET Container :
                       n \in S /\ (\A c \in S : Held(c) \cap Container \subseteq S) => m \in S}
Inside(n) == UNION {Within(m) : m \in Held(n) \cap Container}
Strict == \A n \in Within(Root) : n \notin Inside(n) /\ Held(n) \cap {"bad", "missing"} = {}

\* The bytes of the first entries of a container, side by side, when size gives
\* those of the containers; and what the compact JSON of each comes to.
EntryBytes(size, n, i) == Separator(n, i) + (IF given[n][i] \in Leaf THEN 1 ELSE size[given[n][i]])
Laid(size, n, k) == UNION {{i} \X (1 .. EntryBytes(size, n, i)) : i \in 1 .. k}
IsCompact(size) == \A n \in Within(Root) : size[n] = 2 + Cardinality(Laid(size, n, Len(given[n])))

\* A state is accepted exactly if it is strict JSON whose compact form fits,
\* however often a part is shared; the clone is the value; a refusal has its
\* true reason; the count never runs past the cap.
StateIsJudged ==
  /\ cloning.at = "ok" =>
       /\ Strict /\ IsCompact(cloning.bytes) /\ cloning.top = Root
       /\ \A n \in Within(Root) : cloning.clone[n] = given[n]
  /\ cloning.at = "not_json" => ~Strict
  /\ cloning.at = "too_large" /\ Strict => ~ \E size \in [Within(Root) -> 0 .. MaxBytes] : IsCompact(size)
  /\ cloning.at # "idle" => \A n \in Container : cloning.bytes[n] <= MaxBytes

\* What is accepted can be stored as it is and fits in bytes, and nothing else
\* is refused; a goal that was kept is kept unchanged.
Storable(t) ==
  \A i \in DOMAIN t : t[i] # "nul" /\ (t[i] = "high" => After(t, i)) /\ (t[i] = "low" => Before(t, i))
TextsAreStorable(Texts) ==
  \A t \in Texts :
    /\ TerminalText(t, FALSE) <=> Storable(t) /\ Utf8(t) <= MaxText
    /\ TaskFileSync(t, None) <=> Storable(t) /\ Utf8(t) <= MaxText
    /\ Goal(t) # None => /\ Storable(Goal(t)) /\ Utf8(Goal(t)) <= MaxText /\ Goal(Goal(t)) = Goal(t)
                         /\ TerminalText(Goal(t), TRUE) /\ "feed" \notin Units(Goal(t))
==============================================================================
