------------------------------ MODULE MCToolbox ------------------------------
(***************************************************************************)
(* A small instance of Toolbox: every task has one input or a few.  Tasks  *)
(* of the tools that answer at once are called once, with many inputs; the *)
(* calls that overlap, restarts and reports have tasks of their own.       *)
(***************************************************************************)
EXTENDS Toolbox, TLC

CONSTANTS blank, none, noCall, noReport, noGrammar, noTree, t1, t2, s1

Terms == {t1, t2}

\* A task that is asked once for each input, without reports.
Once(host, tool, inputs) ==
    {[host |-> host, tool |-> tool, inputs |-> {x}, calls |-> 1, restarts |-> 0,
      reports |-> FALSE] : x \in inputs}
SeqsOf(S, lengths) == UNION {[1 .. n -> S] : n \in lengths}

-----------------------------------------------------------------------------
\* trim_context: a file about the query, one about another term or with
\* nothing but stop words, and one that a file imports by its very path.
TrimFile(path, terms, weight, imports, tokens) ==
    [path |-> path, terms |-> terms, weight |-> weight, imports |-> imports,
     language |-> "typescript", tokens |-> tokens]
FirstFiles == {TrimFile("a", ts, w, <<"c">>, n) : ts \in {{t1}, {}}, w \in {50, 400}, n \in {1, 6}}
SecondFiles == {TrimFile("b", {t1, t2}, w, <<>>, n) : w \in {200, 400}, n \in {2, 5}}
ThirdFiles == {TrimFile("c", ts, 100, <<>>, n) : ts \in {{}, {t2}}, n \in {1, 12}}
TrimInputs ==
    [files : {<<f, g, h>> : f \in FirstFiles, g \in SecondFiles, h \in ThirdFiles},
     ignored : {{}}, query : {{}, {t1}, {t2}}, maxTokens : {4, 7}]
    \cup [files : {<<>>, <<TrimFile("a", {}, 1, <<>>, 1), TrimFile("b", {}, 1, <<>>, 2)>>,
                   <<TrimFile("a", {t1}, 400, <<>>, 3), TrimFile("a", {}, 1, <<>>, 3)>>,
                   <<[TrimFile("a", {t1}, 400, <<"b">>, 3) EXCEPT !.language = "ts"],
                     TrimFile("b", {t2}, 100, <<>>, 3)>>},
          ignored : {{}, {"b"}}, query : {blank, {t1}}, maxTokens : {4}]

-----------------------------------------------------------------------------
Line(kind) == [kind |-> kind, tokens |-> IF kind = "at" THEN 1 ELSE 2]
LogInputs ==
    [big : {FALSE}, lines : SeqsOf({Line(k) : k \in {"error", "stack", "at", "plain"}}, 0 .. 4)
                            \cup {<<Line("plain"), Line("warning"), Line("error")>>},
     budget : {1, 6, 9}]
    \cup {[big |-> TRUE, lines |-> <<>>, budget |-> 1]}

Lines(n) == [i \in 1 .. n |-> [tokens |-> 1]]
Hunk(start, count) == [start |-> start, count |-> count]
DiffInputs ==
    [big : {FALSE}, lines : {Lines(9)}, context : {0, 1}, budget : {1, 5, 9},
     hunks : {<<Hunk(2, 2)>>, <<Hunk(2, 2), Hunk(6, 1)>>, <<Hunk(1, 5), Hunk(8, 0)>>,
              <<Hunk(2, 1), Hunk(4, 2), Hunk(9, 3)>>, <<Hunk(20, 1)>>}]
    \cup [big : {TRUE, FALSE}, lines : {<<>>}, context : {0}, budget : {1}, hunks : {<<>>}]

Match(f) == [file |-> f, tokens |-> 3]
GrepInputs ==
    [lines : SeqsOf({Match(f) : f \in {"a", "b", "c", NoFile}}, 1 .. 5), minTokens : {6},
     general : {1}]

PlanInputs ==
    [words : SUBSET {"search", "multi", "diff", "large read", "log"}, maxBudget : {1, 10}]

-----------------------------------------------------------------------------
\* A directory with two files and one below it, and what a search leaves out.
Text3(a, b, c) == <<[found |-> a, tokens |-> 2], [found |-> b, tokens |-> 3], [found |-> c, tokens |-> 1]>>
Entry(path) ==
    [path |-> path, dir |-> FALSE, hidden |-> FALSE, ignored |-> FALSE, code |-> TRUE, big |-> FALSE,
     terms |-> {t1}, weight |-> 200, tokens |-> 6, lines |-> Text3(0, 1, 0)]
Tree ==
    [root |-> <<Entry("a"), [Entry("git") EXCEPT !.hidden = TRUE],
                [Entry("sub") EXCEPT !.dir = TRUE], [Entry("png") EXCEPT !.code = FALSE],
                [Entry("b") EXCEPT !.weight = 400, !.lines = Text3(2, 0, 0)]>>,
     sub |-> <<[Entry("c") EXCEPT !.lines = Text3(0, 0, 3)],
               [Entry("d") EXCEPT !.terms = {t2}, !.weight = 300], Entry("e")>>]
SearchInputs == [tree : {Tree}, query : {blank, {t1}, {t1, t2}, {}}, maxResults : {1, 2, 5}, budget : {1, 4}]

-----------------------------------------------------------------------------
Node(type, tokens, head, names, parts) ==
    [type |-> type, tokens |-> tokens, head |-> head, names |-> names, parts |-> parts]
Function == Node("function", 9, 2, <<"f">>, <<>>)
Class == Node("class", 14, 2, <<"C", "m", "x">>,
              <<Node("method", 8, 2, <<"m">>, <<>>), Node("field", 2, 2, <<"x">>, <<>>)>>)
Export == Node("export", 20, 1, <<"C", "m", "x", "g">>,
               <<Class, Node("closure", 4, 2, <<"g">>, <<>>)>>)
Closure == Node("closure", 4, 3, <<"h", "k">>, <<>>)
Interface == Node("interface", 3, 3, <<"I">>, <<>>)
Decorated == Node("export", 16, 0, <<"C", "m", "x">>, <<Node("decorator", 2, 2, <<>>, <<>>), Class>>)

\* A budget that files are cut to by characters, one that some lines exceed and
\* one without room for a tail.
Source(grammar, nodes, lines, width, budget) ==
    [grammar |-> grammar, nodes |-> nodes, budget |-> budget,
     text |-> [lines |-> lines, width |-> width, noise |-> 5]]
Sources3 == {Source("typescript", <<Function, Interface>>, 4, 29, 58),
             Source("tsx", <<Export, Closure, Decorated, Class,
                             Node("variable", 2, 2, <<"v">>, <<>>)>>, 4, 29, 58)}
Unknown == Source(noGrammar, noTree, 10, 40, 58)
OtherSources == {Source("typescript", noTree, 10, 40, 58), Unknown,
                 Source(noGrammar, noTree, 200, 1, 58), Source(noGrammar, noTree, 10, 40, 8),
                 Source("javascript", <<Node("export", 2, 1, <<>>, <<>>)>>, 4, 29, 58)}

-----------------------------------------------------------------------------
Tasks ==
    UNION {
      Once("mcp", "trim_context", TrimInputs),
      Once("opencode", "trim_context", {x \in TrimInputs : x.maxTokens = 7 /\ x.ignored = {}}),
      Once("mcp", "log_summary", LogInputs), Once("mcp", "diff_read", DiffInputs),
      Once("opencode", "grep", GrepInputs), Once("mcp", "budget_planner", PlanInputs),
      Once("mcp", "code_search", SearchInputs),
      {[host |-> "mcp", tool |-> "smart_read", inputs |-> Sources3, calls |-> 4, restarts |-> 1,
        reports |-> FALSE],
       [host |-> "opencode", tool |-> "smart_read", inputs |-> OtherSources, calls |-> 2,
        restarts |-> 1, reports |-> FALSE],
       [host |-> "opencode", tool |-> "smart_read", inputs |-> {Unknown},
        calls |-> 1, restarts |-> 0, reports |-> TRUE]}}

\* Rows of a hook, a turn and a reply of another host, of an older ctxlite
\* and of the proxy, which names no host.
SomeRows ==
    {[Row("trim", 3, "mcp", s1) EXCEPT !.old = TRUE],
     Row("concise", 2, "opencode", s1),
     [Row("session", 0, "opencode", s1) EXCEPT !.used = 5, !.out = 1],
     [Row("proxy", 4, none, none) EXCEPT !.trimmed = TRUE],
     Row("cache", 1, none, none)}

SomeLines ==
    {<<"stats">>, <<"stats", "--last", "today", "opencode">>, <<"stats", "--by-session">>,
     <<"stats", "--by-session", "--compact", "--last">>, <<"install", "--help">>,
     <<"stats", "--last", "never">>}

=============================================================================
