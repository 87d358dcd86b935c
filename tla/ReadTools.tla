------------------------------ MODULE ReadTools ------------------------------
(***************************************************************************)
(* The helpers that shorten what an agent is about to read: log_summary    *)
(* (packages/core/src/log-summary.ts), diff_read (diff-read.ts), the       *)
(* grouping of grep output (grep-output-compress.ts), the plan of          *)
(* budget_planner (budget-planner.ts) and the outline of smart_read        *)
(* (smart-read.ts).                                                        *)
(*                                                                         *)
(* A text is the sequence of its lines.  A line has its tokens and what    *)
(* the patterns of the code see in it; the tokens of a text are the sum    *)
(* over its lines, and the texts that ctxlite adds have sizes of their own.*)
(***************************************************************************)
EXTENDS Selections, ToolOutput

CONSTANTS Heading,       \* tokens of a heading: of a summary, a block, a list
          MaxLines,      \* lines of grep output shown of one file
          MaxMatchFiles  \* files of grep output shown

Saving(tokensIn, tokensOut) == Max({0, tokensIn - tokensOut})

-----------------------------------------------------------------------------
(* log-summary.ts: a line is "error", "warning", "stack" (a frame, indented, *)
(* which is an error line too), "at" (a frame at the margin) or "plain".     *)

LogLine == [kind : {"error", "warning", "stack", "at", "plain"}, tokens : Nat]
IsError(l) == l.kind \in {"error", "stack"}
IsFrame(lines, i) == i \in DOMAIN lines /\ lines[i].kind = "stack"

\* The places of the lines that are kept.  After an error line with a frame
\* below it, all frames that follow are.
KeptLines(lines) ==
    FoldLeft(LAMBDA k, i :
                IF k.frames /\ lines[i].kind \in {"stack", "at"}
                THEN [k EXCEPT !.places = Append(@, i)]
                ELSE IF IsError(lines[i]) \/ lines[i].kind = "warning" \/ IsFrame(lines, i + 1)
                THEN [places |-> Append(k.places, i),
                      frames |-> IsError(lines[i]) /\ IsFrame(lines, i + 1)]
                ELSE [k EXCEPT !.frames = FALSE],
             [places |-> <<>>, frames |-> FALSE], [i \in DOMAIN lines |-> i]).places

\* Mutant of Fitting: lines are dropped from the front.
FittingTail(lines, places, budget) ==
    LET fits == {n \in 1 .. Len(places) + 1 :
                    Heading + TokensAt(lines, SubSeq(places, n, Len(places))) <= budget}
    IN  IF fits = {} THEN <<>> ELSE SubSeq(places, Min(fits), Len(places))
\* Lines are dropped from the end until the summary is within the budget;
\* nothing in it says so.
Fitting(lines, places, budget) ==
    LET fits == {n \in 0 .. Len(places) :
                    Heading + TokensAt(lines, SubSeq(places, 1, n)) <= budget}
    IN  IF fits = {} THEN <<>> ELSE SubSeq(places, 1, Max(fits))

SummarizeLog(lines, budget) ==
    LET kept == KeptLines(lines)
        shown == Fitting(lines, kept, budget)
        out == Heading + TokensAt(lines, shown)
    IN  [none |-> kept = <<>>, shown |-> shown, tokensIn |-> Sum(lines), tokensOut |-> out,
         tokensSaved |-> Saving(Sum(lines), out)]

-----------------------------------------------------------------------------
(* diff-read.ts: a hunk is where it starts in the new file and how many      *)
(* lines it has there.                                                       *)

FileLine == [tokens : Nat]
DiffHunk == [start : Nat, count : Nat]

\* The lines that a hunk shows, first and last; none if it starts behind the
\* end of the file.
HunkRange(lines, hunk, context) ==
    <<Max({1, hunk.start - context}),
      Min({Len(lines), hunk.start + Max({hunk.count, 1}) - 1 + context})>>

BlockTokens(lines, hunk, context) ==
    LET r == HunkRange(lines, hunk, context)
    IN  Heading + TokensIn(lines, r[1] .. r[2])

\* Blocks are taken up to the first that is over the budget, the first one
\* whatever its size; a note says how many are left out.
DiffRead(lines, hunks, context, budget) ==
    LET block == [k \in DOMAIN hunks |-> BlockTokens(lines, hunks[k], context)]
        upTo(n) == Heading + SumFunctionOnSet(block, 1 .. n)
        included == Min({n \in DOMAIN hunks : n = Len(hunks) \/ upTo(n + 1) > budget})
        out == upTo(included) + (IF included < Len(hunks) THEN Heading ELSE 0)
    IN  [included |-> included, tokensIn |-> Sum(lines), tokensOut |-> out,
         shown |-> UNION {HunkRange(lines, hunks[k], context)[1] ..
                          HunkRange(lines, hunks[k], context)[2] : k \in 1 .. included},
         tokensSaved |-> Saving(Sum(lines), out)]

-----------------------------------------------------------------------------
(* grep-output-compress.ts: the file of a line is where the match is, or     *)
(* NoFile if the line is not of the form file:line:text.                     *)

NoFile == "no file"
GrepLine == [file : STRING, tokens : Nat]

\* The files in the order of their first matches.
MatchFiles(lines) ==
    LET files == [i \in DOMAIN lines |-> lines[i].file]
    IN  Unique(Kept(files, Range(files) \ {NoFile}))
MatchesOf(lines, file) == InOrder({i \in DOMAIN lines : lines[i].file = file})

\* What is shown: places of matches, the count hidden of each file and the
\* count of files hidden altogether.
CompressGrepOutput(lines, minTokens) ==
    LET files == MatchFiles(lines)
        few == SubSeq(files, 1, Min({Len(files), MaxMatchFiles}))
        some(f) == SubSeq(MatchesOf(lines, f), 1, Min({Len(MatchesOf(lines, f)), MaxLines}))
        hidden == [f \in Range(few) |-> Len(MatchesOf(lines, f)) - Len(some(f))]
        shown == UNION {Range(some(f)) : f \in Range(few)}
        out == TokensIn(lines, shown) + Heading * Cardinality({f \in Range(few) : hidden[f] > 0})
               + (IF Len(files) > Len(few) THEN Heading ELSE 0)
        same == [compressed |-> FALSE, shown |-> DOMAIN lines,
                 hidden |-> <<>>, hiddenFiles |-> 0,
                 tokensIn |-> Sum(lines), tokensOut |-> Sum(lines)]
    IN  IF Sum(lines) < minTokens \/ files = <<>> \/ out >= Sum(lines) THEN same
        ELSE [same EXCEPT !.compressed = TRUE, !.shown = shown, !.hidden = hidden,
                          !.hiddenFiles = Len(files) - Len(few), !.tokensOut = out]

-----------------------------------------------------------------------------
(* budget-planner.ts: a task is the set of the keyword classes it mentions.  *)

Keyword == {"search", "multi", "diff", "large read", "log"}
Mentions(task, class, tool) == IF class \in task THEN <<tool>> ELSE <<>>

PlannedTools(task) ==
    LET asked == Mentions(task, IF "search" \in task THEN "search" ELSE "multi", "code_search")
                 \o Mentions(task, "multi", "trim_context")
                 \o (IF "diff" \in task THEN <<"diff_read">>
                     ELSE Mentions(task, "large read", "smart_read"))
                 \o Mentions(task, "log", "log_summary")
                 \o <<"get_stats">>
    IN  IF Len(asked) < 3 THEN <<"budget_planner", "smart_read">> \o asked ELSE asked

AllocateStepBudgets(maxBudget, n) ==
    [i \in 1 .. n |-> (maxBudget \div n) + (IF i <= maxBudget % n THEN 1 ELSE 0)]

\* Of the steps of one tool the first one stands.
PlanBudget(task, maxBudget) ==
    LET tools == Unique(PlannedTools(task))
    IN  [tools |-> tools, budgets |-> AllocateStepBudgets(maxBudget, Len(tools))]

-----------------------------------------------------------------------------
(* smart-read.ts, extractSymbols: a file is the sequence of its top-level    *)
(* nodes.  A node has its tokens, those before its body, the names that it   *)
(* declares and, first of them, its own; its parts are the members of a      *)
(* class or the children of an export.                                       *)

SyntaxNode(Part) ==
    [type : STRING, tokens : Nat, head : Nat, names : Seq(STRING), parts : Seq(Part)]
Member == {n \in SyntaxNode({}) : n.type = "method" => Len(n.names) = 1}
Declaration ==
    {n \in SyntaxNode(Member) :
        /\ n.type # "export"
        /\ n.type = "function" => Len(n.names) = 1
        /\ n.type = "closure" => n.names # <<>>
        /\ n.type = "class" =>
              Range(n.names) = {Head(n.names)} \cup UNION {Range(p.names) : p \in Range(n.parts)}}
TopLevelNode ==
    Declaration \cup
    {n \in SyntaxNode(Declaration) :
        /\ n.type = "export"
        /\ n.parts # <<>> => Range(n.names) = UNION {Range(p.names) : p \in Range(n.parts)}}

Text(n) == [tokens |-> n.tokens, names |-> Range(n.names)]

\* blankFunctionBody; of a declaration whose first variable is a function, all
\* behind that function's body is left out, and nothing says so.
Blanked(n) ==
    IF n.head = n.tokens THEN Text(n)
    ELSE [tokens |-> n.head + Heading, names |-> {Head(n.names)}]

Joined(tokens, names, pieces) ==
    [tokens |-> tokens + Sum(pieces),
     names |-> names \cup UNION {pieces[k].names : k \in DOMAIN pieces}]

\* Mutant of SummarizeClass: members without a body are skipped.
SummarizeMethods(n) ==
    Joined(n.head, {Head(n.names)},
           LET methods == Kept(n.parts, {m \in Range(n.parts) : m.type = "method"})
           IN  [k \in DOMAIN methods |-> Blanked(methods[k])])
SummarizeClass(n) ==
    IF n.head = n.tokens THEN Text(n)
    ELSE Joined(n.head, {Head(n.names)},
                [k \in DOMAIN n.parts |->
                    IF n.parts[k].type = "method" THEN Blanked(n.parts[k]) ELSE Text(n.parts[k])])

\* "closure" is a variable whose value is a function.
SummarizeDeclared(n) ==
    CASE n.type \in {"function", "closure"} -> Blanked(n)
      [] n.type = "class" -> SummarizeClass(n)
      [] OTHER -> Text(n)

\* An export shows its first child and nothing behind it: of a decorated class
\* the decorator.
SummarizeTopLevelNode(n) ==
    IF n.type = "export" /\ n.parts # <<>>
    THEN Joined(n.head, {}, <<SummarizeDeclared(Head(n.parts))>>)
    ELSE SummarizeDeclared(n)

Outline(nodes) == Joined(0, {}, [k \in DOMAIN nodes |-> SummarizeTopLevelNode(nodes[k])])

=============================================================================
