------------------------------ MODULE MCInstaller ------------------------------
(***************************************************************************)
(* A small instance of InstallCommand and the Installer in it.             *)
(***************************************************************************)
EXTENDS InstallCommand, TLC

CONSTANTS setting

OneSetting == {setting}
Listed(E) == [array |-> TRUE, entries |-> E]
Value(E) == [array |-> FALSE, entries |-> E]
Settings(schema, first, second) ==
    [object |-> TRUE, schema |-> schema, rest |-> {setting},
     lists |-> ("first" :> first @@ "second" :> second)]

\* Files that an ordinary user has: nothing of ctxlite yet, or ctxlite by
\* hand, and a text that is not JSON.
Untouched == [k \in JsonKind |-> Missing]
Plain == Settings("absent", Listed({"theirs"}), Value({}))
ByHand == Settings("absent", Listed({"theirs", "ours"}), Value({}))
OpenCodeTargets == <<"opencode", "opencode-tui", "skill">>
OrdinaryShapes ==
    {[Untouched EXCEPT !["opencode"] = x, !["opencode-tui"] = y] :
        x \in {Missing, Typo, Plain, ByHand}, y \in {Missing, Typo, Plain}}

\* Every shape that makes a difference to a settings file, one file at a time:
\* a merge looks at no other file.
First == {Value({}), Value({"odd"}), Listed({}), Listed({"theirs", "odd"}), Listed({"ours", "theirs"})}
ShapesOf(k) ==
    (CASE k = "opencode" -> {Settings("set", l, Value({})) : l \in First}
       [] k = "opencode-tui" -> {Settings("absent", l, Value({})) : l \in First}
       [] k = "mcp" -> {Settings("absent", l, Value({})) : l \in First \cup {Listed({"stale"})}}
       [] k = "claude-code-hooks" ->
            {Settings("absent", l, m) : l \in First \cup {Listed({"mixed"})}, m \in First}
       [] k = "cursor-hooks" ->
            {Settings(v, l, Value({})) : v \in {"absent", "empty", "set"},
                                         l \in First \cup {Listed({"mixed"})}})
    \cup {[Settings("absent", Value({}), Value({})) EXCEPT !.object = FALSE]}
EachShape == OrdinaryShapes \cup UNION {{[Untouched EXCEPT ![k] = c] : c \in ShapesOf(k)} : k \in JsonKind}

\* What a user saves meanwhile: settings with and without ctxlite, a text that
\* is not JSON, no file.
SomeEdits == {Untouched} \cup {[Untouched EXCEPT !["opencode"] = x] : x \in {Typo, Plain, ByHand}}

Symmetry == Permutations(Process)

=============================================================================
