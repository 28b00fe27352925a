---------------------------- MODULE OutputCapture ----------------------------
(***************************************************************************)
(* What is kept of the output of a child (CappedStream of                  *)
(* daemon/src/subprocess.ts): all of it up to a cap, then a frozen head    *)
(* and a rolling tail of raw bytes, both cut at whole characters.  A byte  *)
(* is of one of the classes that UTF-8 tells apart.                        *)
(***************************************************************************)
EXTENDS Integers, Sequences, FiniteSetsExt

CONSTANTS
  Length,     \* for each class of first byte, the bytes its character needs
  Picky,      \* first bytes whose second byte must be "high"
  Longest,    \* the longest character
  HalfCap,    \* no less than Longest
  MaxChunk,   \* bound: bytes of one chunk
  MaxOutput,  \* bound: bytes the child writes
  None

Continuation == {"high", "low"}
Byte == DOMAIN Length \cup Continuation

VARIABLES
  output,    \* everything the child wrote
  whole,     \* all of it while it fits, then None
  headPart,  \* the first half, frozen when the cap was passed
  tailPart   \* the last half and the context of its cut

captureVars == <<output, whole, headPart, tailPart>>

Init == output = <<>> /\ whole = <<>> /\ headPart = <<>> /\ tailPart = <<>>

LastOf(bytes, n) == SubSeq(bytes, Max({1, Len(bytes) - n + 1}), Len(bytes))

\* What a cut character may need of the bytes before it.
Context == Longest - 1

\* Mutant: the window that rolls on keeps no context.
Rolled_NoContext(bytes) == LastOf(bytes, HalfCap)
\* The window once past the cap: the chunks before it are dropped or trimmed.
Rolled(bytes) == LastOf(bytes, HalfCap + Context)

Push(chunk) ==
  /\ output' = output \o chunk
  /\ \/ /\ whole # None /\ Len(whole \o chunk) <= 2 * HalfCap
        /\ whole' = whole \o chunk /\ UNCHANGED <<headPart, tailPart>>
     \/ /\ whole # None /\ Len(whole \o chunk) > 2 * HalfCap
        /\ whole' = None /\ headPart' = SubSeq(whole \o chunk, 1, HalfCap)
        /\ tailPart' = LastOf(whole \o chunk, HalfCap + Context)
     \/ /\ whole = None /\ tailPart' = Rolled(tailPart \o chunk)
        /\ UNCHANGED <<whole, headPart>>

Needed(byte) == IF byte \in Continuation THEN 1 ELSE Length[byte]
SecondFits(first, byte) == byte \in Continuation /\ (first \in Picky => byte = "high")

\* The bytes from place i on look like the character that bytes[i] begins.
Fits(bytes, i, last) ==
  \A j \in i + 1 .. last : IF j = i + 1 THEN SecondFits(bytes[i], bytes[j]) ELSE bytes[j] \in Continuation

\* A character the frozen head ends in, if the bytes there can still become one.
DropTrailingPartial(bytes) ==
  LET firsts == {i \in 1..Len(bytes) : bytes[i] \notin Continuation} \cup {Len(bytes) - Context}
      first == Max(firsts)
      present == Len(bytes) - first + 1
  IN IF Needed(bytes[first]) > present /\ Fits(bytes, first, Len(bytes))
     THEN SubSeq(bytes, 1, first - 1) ELSE bytes

\* The rest of a character that the cut before place start splits; bytes that
\* are no part of one stay.
AlignTail(bytes, start) ==
  LET firsts == {i \in 1 .. start - 1 : bytes[i] \notin Continuation}
      first == Max(firsts)
      end == first + Needed(bytes[first])
      splits == /\ firsts # {} /\ bytes[start] \in Continuation
                /\ end > start /\ end - 1 <= Len(bytes) /\ Fits(bytes, first, end - 1)
  IN SubSeq(bytes, IF splits THEN end ELSE start, Len(bytes))

KeptHead == DropTrailingPartial(headPart)
KeptTail == AlignTail(tailPart, Len(tailPart) - HalfCap + 1)
Text == IF whole # None THEN whole ELSE KeptHead \o KeptTail

Next ==
  \E n \in 1..MaxChunk :
    Len(output) + n <= MaxOutput /\ \E chunk \in [1..n -> Byte] : Push(chunk)

-------------------------------------------------------------------------------
\* The characters of the output, as intervals of places.
Characters ==
  {c \in (1..Len(output)) \X (1..Len(output)) :
     /\ output[c[1]] \notin Continuation /\ c[2] = c[1] + Needed(output[c[1]]) - 1
     /\ Fits(output, c[1], c[2])}

\* What is kept does not depend on how the output came in chunks: all of it, or
\* once it passed the cap its first and its last bytes, of which only those of
\* characters across the cut are missing (and, at the head, of what might have
\* become one).  No character is kept in part, and no other byte is lost.
CutsAreClean ==
  IF Len(output) <= 2 * HalfCap THEN Text = output
  ELSE \E h \in 0..HalfCap, t \in Len(output) - HalfCap + 1 .. Len(output) + 1 :
         /\ KeptHead = SubSeq(output, 1, h) /\ KeptTail = SubSeq(output, t, Len(output))
         /\ \A c \in Characters : ~(c[1] <= h /\ h < c[2]) /\ ~(c[1] < t /\ t <= c[2])
         /\ h < HalfCap => /\ output[h + 1] \notin Continuation
                           /\ Needed(output[h + 1]) > HalfCap - h /\ Fits(output, h + 1, HalfCap)
         /\ t > Len(output) - HalfCap + 1 =>
              \E c \in Characters : c[1] <= Len(output) - HalfCap /\ c[2] = t - 1
===============================================================================
