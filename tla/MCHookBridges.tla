---------------------------- MODULE MCHookBridges ----------------------------
(***************************************************************************)
(* Small instances of HookBridges.                                         *)
(***************************************************************************)
EXTENDS HookBridges

npm == Word(<<"npm">>)
test == Word(<<"test">>)
pytest == Word(<<"pytest">>)
make == Word(<<"make">>)
jestConfig == Word(<<"jest", "config", "js">>)
verbose == Option(<<"v">>, {"-v"})
silent == Option(<<"silent">>, {"--silent", "-s"})
ls == Word(<<"ls">>)
quote == DoubleQuote
tick == SingleQuote

\* Every command of up to four or three of these lexemes, and longer ones: a
\* chain with the tool in quotes, a flag in quotes, a segment that meets several
\* rules, the second rule for pytest, and watch mode; quotes in quotes, an
\* escaped quote, an escaped operator, a group and a comment.
UpTo(size, lexemes) == UNION {[1 .. k -> lexemes] : k \in 1 .. size}
Short == UpTo(4, {pytest, quote, Operator}) \cup UpTo(3, {npm, test, Operator})
Long == {<<npm, test, Operator, npm, test, quote, npm, test, quote>>,
         <<quote, pytest, quote, Operator, npm, test, quote, silent, quote>>,
         <<make, pytest, jestConfig, Operator, make, npm, test>>,
         <<Word(<<"python">>), Option(<<"m">>, {}), pytest, verbose, Operator, make, test>>,
         <<Word(<<"docker">>), Word(<<"compose">>), Word(<<"logs">>), Operator,
           Word(<<"vitest">>), Word(<<"watch">>)>>,
         <<tick, quote, tick, Operator, npm, test, tick, pytest, Operator, tick>>,
         <<quote, npm, Backslash, quote, Operator, tick, npm, test, quote, Operator, pytest>>,
         <<ls, tick, LineEnd, tick, npm, test>>}
Misread == {<<ls, Backslash, Operator, npm, test, Backslash, Operator>>,
            <<ls, Operator, Parenthesis, npm, test, Parenthesis>>,
            <<npm, test, Hash, npm, tick, test>>,
            <<tick, pytest, Backslash, tick, Operator, npm, test, tick, ls, tick>>,
            <<npm, test, LineEnd, pytest, LineEnd, Operator, ls>>}
SomeCommands == {Scanned(command) : command \in Short \cup Long \cup Misread}

\* A test run and a second line, one that is fed by a here-document, one in a
\* group, one with an escaped operator behind it, one with a comment, and one
\* that stands in a string behind another that ends with a backslash.
Misplaced == {Scanned(command) : command \in
    {<<npm, test, LineEnd, ls>>, <<npm, test, HereDocument>>,
     <<Parenthesis, ls, Operator, npm, test, Parenthesis>>,
     <<npm, test, Backslash, Operator, ls>>,
     <<npm, test, Hash, ls>>,
     <<ls, tick, ls, Backslash, tick, Operator, ls, tick, npm, test, tick>>}}
SomeLexemes == UNION {ToSet(command) : command \in SomeCommands \cup Misplaced}

vendor == {"vendor"}
generated == {"a.generated.ts"}
SomePaths == {<<"src", "a.ts">>, <<"vendor", "a.ts">>, <<"vendor">>, <<"dist", "a.js">>,
              <<"", "repo", "dist", "a.js">>, <<"src", "x", "a.generated.ts">>}
Trees == IgnorePattern(<<vendor>>, TRUE)
Deep == IgnorePattern(<<{"src"}, DoubleStar, generated>>, FALSE)
SomeIgnoreFiles == {{}, {Trees, Deep}}
NoIgnoreFile == {{}}
OneSaving == {1}
NoPaths == {}

=============================================================================
