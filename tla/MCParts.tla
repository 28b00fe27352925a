------------------------------- MODULE MCParts -------------------------------
(***************************************************************************)
(* Small instances of the parts that stand alone.                          *)
(***************************************************************************)
EXTENDS Parts

\* A directory in the root with a file of its own and one that stays behind,
\* beside another file; the cache holds one entry.
MCNode == {"r", "f", "d", "g", "s"}
MCParent == [f |-> "r", d |-> "r", g |-> "d", s |-> "d"]

\* Twice as many callers as permits.
MCUpload == 1..4

\* Two fields of two values; a poll sends both, or the second alone.
MCIdentity == {[host |-> "i1", version |-> "i1"], [host |-> "i2", version |-> "i1"],
               [host |-> None, version |-> "i2"]}

\* Entries whose paths nest, repeat or match a rule, of sizes up to a cap and
\* above it; directories that nest, a link to one, and one that is not there.
MCFilePath == {<<"a">>, <<"b">>, <<"a", "b">>, <<"a", "b", "a">>, <<"g", "a">>, <<"a", "k">>}
MCDirectoryRule == {<<"g">>, <<"b", "a">>}
MCDirectory == {<<>>, <<"a">>, <<"b">>, <<"a", "a">>, <<"a", "b">>, <<"a", "b", "a">>, <<"l">>, <<"m">>}
MCLanding == [d \in MCDirectory |-> CASE d = <<"l">> -> <<"a", "b">> [] d = <<"m">> -> None [] OTHER -> d]

\* A loop of the session's team, one of a team without a namespace, an unclaimed one.
MCOwner == [l \in {"mine", "theirs", "free"} |->
              CASE l = "mine" -> "team" [] l = "theirs" -> "other" [] l = "free" -> None]
MCTree == {[p \in {"p", "q"} |-> "x"], [p \in {"p"} |-> "y"]}

\* Characters of up to three bytes and halves that hold one.
MCLength == [ascii |-> 1, first |-> 3]

\* An object at the top, an array and an object, which may hold each other, at
\* most two entries each; the cap lies between a value counted once and twice.
UpToTwo(S) == UNION {[1..k -> S] : k \in 0..2}
MCGiven == {[object |-> x, array |-> y, part |-> z] :
              x \in UpToTwo({"digit", "array", "part"}), z \in UpToTwo({"digit", "missing", "array"}),
              y \in UpToTwo({"digit", "bad", "missing", "part", "object"})}
MCTexts == UNION {[1..k -> {"one", "three", "high", "low", "nul", "space", "feed"}] : k \in 0..4}
==============================================================================
