------------------------------- MODULE Toolbox -------------------------------
(***************************************************************************)
(* The tools that ctxlite offers to an agent: the MCP server               *)
(* (packages/mcp/src/server.ts and tools/) and the tools of the OpenCode   *)
(* plugin (packages/opencode/src/tools.ts, smart-read-tool.ts), one        *)
(* process each.  Handlers are asynchronous: calls overlap at every await. *)
(* They share the parser of smart_read (packages/core/src/smart-read.ts)   *)
(* and the table of savings, which other processes write as well and which *)
(* StatsReports reads.                                                     *)
(*                                                                         *)
(* What one process is asked for is its task: a tool and the inputs it is  *)
(* called with, which hold what the tool finds on the disk.  With it come  *)
(* the bounds: how many calls and restarts there are, and whether reports  *)
(* are read and other processes log meanwhile.                             *)
(***************************************************************************)
EXTENDS Relevance, ReadTools, StatsReports

CONSTANTS Client,      \* calls that may be open at the same time
          Task,        \* tasks: host, tool, inputs, calls, restarts, reports
          NoCall,
          NoGrammar,   \* the grammar of a file without one
          NoTree       \* the nodes of a file that the parser gives up on

\* What the tools are called with.  Numbers are whole and not below zero: the
\* schemas of the MCP server take no others, OpenCode's would for trim_context.
IsInput(tool, x) ==
    CASE tool = "trim_context" ->
            x \in [files : Seq(File), ignored : SUBSET STRING, query : QueryTerms, maxTokens : Nat]
      [] tool = "log_summary" -> x \in [big : BOOLEAN, lines : Seq(LogLine), budget : Nat]
      [] tool = "diff_read" ->
            x \in [big : BOOLEAN, lines : Seq(FileLine), hunks : Seq(DiffHunk), context : Nat,
                   budget : Nat]
      [] tool = "grep" -> x \in [lines : Seq(GrepLine), minTokens : Nat, general : Nat]
      [] tool = "budget_planner" -> x \in [words : SUBSET Keyword, maxBudget : Nat]
      [] tool = "code_search" ->
            /\ x \in [tree : {x.tree}, query : QueryTerms, maxResults : Nat, budget : Nat]
            /\ IsTree(x.tree)
      [] tool = "smart_read" ->
            x \in [grammar : {NoGrammar} \cup STRING, text : AnyText, budget : Nat \ {0},
                   nodes : {NoTree} \cup Seq(TopLevelNode)]
Tools == {"trim_context", "log_summary", "diff_read", "grep", "budget_planner", "code_search",
          "smart_read"}

ASSUME ToolboxAssumption ==
    /\ \A n \in {HalfWindow, MaxFiles, Heading, MaxLines, MaxMatchFiles} : n \in Nat
    /\ \A t \in Task : /\ t.host \in {"mcp", "opencode"}
                       /\ t.tool \in Tools
                       /\ \A x \in t.inputs : IsInput(t.tool, x)

VARIABLES
    task,    \* what this process is asked for
    server,  \* its state: the parser's initialisation and its languages
    call,    \* call[c]: the call that is open
    made     \* calls and restarts so far

toolVars == <<task, server, call, made>>
vars == <<task, server, call, made, rows, others, report, reports>>

\* inits: how often the parser's initialisation was begun.
NewServer == [init |-> "none", inits |-> 0, languages |-> {}]

Init ==
    /\ ReportsInit
    /\ task \in Task
    /\ server = NewServer
    /\ call = [c \in Client |-> NoCall]
    /\ made = [calls |-> 0, restarts |-> 0]

\* MCP knows no session: the life of the process stands for one.
Session(c) == <<task.host, IF task.host = "mcp" THEN made.restarts ELSE c>>

Becomes(c, value) == call' = [call EXCEPT ![c] = value]

\* A call begins with one of the task's inputs.
Opens(c, tool, input) ==
    /\ call[c] = NoCall
    /\ task.tool = tool
    /\ input \in task.inputs
    /\ made.calls < task.calls
    /\ made' = [made EXCEPT !.calls = @ + 1]

Answer(input, result, booked) ==
    [stage |-> "answered", input |-> input, result |-> result, booked |-> booked]
Failure(input) == [stage |-> "failed", input |-> input]

\* logTrimResult, logOptimizationSavings: a row if anything is saved, which
\* the store may yet drop; then the answer.
LogAndAnswer(c, source, input, tokensIn, tokensOut, result) ==
    /\ Becomes(c, Answer(input, result, Max({0, tokensIn - tokensOut})))
    /\ \/ /\ tokensIn > tokensOut
          /\ rows' = Append(rows, Row(source, tokensIn - tokensOut, task.host, Session(c)))
       \/ UNCHANGED rows
    /\ UNCHANGED <<others, report, reports>>

Fails(c, input) == Becomes(c, Failure(input)) /\ UNCHANGED <<rows, others, report, reports>>

-----------------------------------------------------------------------------
(* Tools that answer at once.                                              *)

TrimTool(c) == \E x \in task.inputs :
    LET r == TrimContext(task.host, x.files, x.ignored, x.query, x.maxTokens) IN
    /\ Opens(c, "trim_context", x)
    /\ LogAndAnswer(c, "trim", x, r.tokensIn, r.tokensOut, r)
    /\ UNCHANGED <<task, server>>

\* A text above 1 MiB is refused.
LogSummary(c) == \E x \in task.inputs :
    /\ Opens(c, "log_summary", x)
    /\ IF x.big THEN Fails(c, x)
       ELSE LET r == SummarizeLog(x.lines, x.budget)
            IN  LogAndAnswer(c, "log_summary", x, r.tokensIn, r.tokensIn - r.tokensSaved, r)
    /\ UNCHANGED <<task, server>>

\* Refused are a diff above 1 MiB, one without a hunk, and a missing file.
DiffTool(c) == \E x \in task.inputs :
    /\ Opens(c, "diff_read", x)
    /\ IF x.big \/ x.hunks = <<>> \/ x.lines = <<>> THEN Fails(c, x)
       ELSE LET r == DiffRead(x.lines, x.hunks, x.context, x.budget)
            IN  LogAndAnswer(c, "diff_read", x, r.tokensIn, r.tokensIn - r.tokensSaved, r)
    /\ UNCHANGED <<task, server>>

\* compressOutputForTool, which the hooks call behind a grep: what grouping
\* does not shorten goes through the general shortening, to x.general tokens.
GrepOutput(c) == \E x \in task.inputs :
    LET r == CompressGrepOutput(x.lines, x.minTokens) IN
    /\ Opens(c, "grep", x)
    /\ LogAndAnswer(c, "compress", x, r.tokensIn,
                    IF r.compressed THEN r.tokensOut ELSE x.general, r)
    /\ UNCHANGED <<task, server>>

PlanTool(c) == \E x \in task.inputs :
    /\ Opens(c, "budget_planner", x)
    /\ Becomes(c, Answer(x, PlanBudget(x.words, x.maxBudget), 0))
    /\ UNCHANGED <<task, server, rows, others, report, reports>>

-----------------------------------------------------------------------------
(* smart_read.  A file has a grammar, its text and its top-level nodes      *)
(* (NoTree if the parser gives up on it).                                  *)

\* compressToolOutput stands in for an outline, with four characters for each
\* token of the budget.
Budgeted(c, f) == \E out \in {Tokens(CompressToolOutput(f.text, 1, 4 * f.budget))} :
    LogAndAnswer(c, "smart_read", f, Tokens(Length(f.text)), out,
                 [kind |-> "budgeted", tokensOut |-> out])

\* ensureInit: the first caller begins, all wait for the same promise.
\* Mutant of EnsureInit: only a promise that is kept is shared.
EnsureInitAgain ==
    server' = IF server.init # "ready"
              THEN [server EXCEPT !.init = "loading", !.inits = @ + 1] ELSE server
EnsureInit ==
    server' = IF server.init = "none"
              THEN [server EXCEPT !.init = "loading", !.inits = @ + 1] ELSE server

SmartRead(c) == \E f \in task.inputs :
    /\ Opens(c, "smart_read", f)
    /\ \/ /\ Fails(c, f)       \* the file cannot be read
          /\ UNCHANGED server
       \/ /\ f.grammar = NoGrammar
          /\ Budgeted(c, f)
          /\ UNCHANGED server
       \/ /\ f.grammar # NoGrammar
          /\ IF f.grammar \in server.languages
             THEN Becomes(c, [stage |-> "parse", input |-> f]) /\ UNCHANGED server
             ELSE Becomes(c, [stage |-> "init", input |-> f]) /\ EnsureInit
          /\ UNCHANGED <<rows, others, report, reports>>
    /\ UNCHANGED task

\* Parser.init ends, one way or the other.
InitSettles ==
    /\ server.init = "loading"
    /\ \E outcome \in {"ready", "rejected"} : server' = [server EXCEPT !.init = outcome]
    /\ UNCHANGED <<task, call, made, rows, others, report, reports>>

\* Mutant of InitReturns: who waits for a rejected promise is forgotten.
InitReturnsReady(c) ==
    /\ call[c] # NoCall /\ call[c].stage = "init"
    /\ server.init = "ready"
    /\ Becomes(c, [call[c] EXCEPT !.stage = "load"])
    /\ UNCHANGED <<task, server, made, rows, others, report, reports>>
\* A caller goes on, or fails with the initialisation; nothing begins it
\* anew as long as the process lives.
InitReturns(c) ==
    /\ call[c] # NoCall /\ call[c].stage = "init"
    /\ server.init \in {"ready", "rejected"}
    /\ Becomes(c, IF server.init = "ready" THEN [call[c] EXCEPT !.stage = "load"]
                  ELSE Failure(call[c].input))
    /\ UNCHANGED <<task, server, made, rows, others, report, reports>>

\* The grammar is read and kept; every caller that found none loads it for
\* itself.  A grammar that cannot be loaded is tried again next time.
LoadLanguage(c) ==
    /\ call[c] # NoCall /\ call[c].stage = "load"
    /\ \/ /\ server' = [server EXCEPT !.languages = @ \cup {call[c].input.grammar}]
          /\ Becomes(c, [call[c] EXCEPT !.stage = "parse"])
       \/ /\ Becomes(c, Failure(call[c].input))
          /\ UNCHANGED server
    /\ UNCHANGED <<task, made, rows, others, report, reports>>

\* extractSymbols and the handler's answer: the outline, whether shorter or
\* not, or the shortened file.
Parse(c) ==
    /\ call[c] # NoCall /\ call[c].stage = "parse"
    /\ LET f == call[c].input IN
       IF f.nodes = NoTree THEN Budgeted(c, f)
       ELSE \E o \in {Outline(f.nodes)} :
              LogAndAnswer(c, "smart_read", f, Tokens(Length(f.text)), o.tokens,
                           [kind |-> "symbols", names |-> o.names])
    /\ UNCHANGED <<task, server, made>>

-----------------------------------------------------------------------------
(* code_search.                                                            *)

SearchTool(c) == \E x \in task.inputs :
    /\ Opens(c, "code_search", x)
    /\ Becomes(c, IF x.query = Blank THEN Failure(x)
                  ELSE [stage |-> "walk", input |-> x, files |-> <<>>, queue |-> <<"root">>])
    /\ UNCHANGED <<task, server, rows, others, report, reports>>

Walking(c) == call[c].queue # <<>> /\ Len(call[c].files) < MaxFiles

Walked(c) == call[c] # NoCall /\ call[c].stage = "walk" /\ ~ Walking(c)

\* The next directory; it, or files in it, may be gone by now.
WalkOn(c) ==
    /\ call[c] # NoCall /\ call[c].stage = "walk"
    /\ Walking(c)
    /\ LET x == call[c].input
           rest == Tail(call[c].queue)
           entries == x.tree[Head(call[c].queue)]
       IN  \/ Becomes(c, [call[c] EXCEPT !.queue = rest])
           \/ \E gone \in SUBSET {entries[i].path : i \in DOMAIN entries} :
                LET w == WalkDirectory(call[c].files, rest, entries, gone)
                IN  Becomes(c, [call[c] EXCEPT !.files = w.files, !.queue = w.queue])
    /\ UNCHANGED <<task, server, made, rows, others, report, reports>>

\* The answer has a heading, one for each hit, and the snippets.
SearchEnds(c) ==
    /\ Walked(c)
    /\ LET x == call[c].input
           r == SearchHits(call[c].files, x.query, x.maxResults, x.budget)
           out == Heading * (1 + Len(r.hits)) + Sum(r.hits)
       IN  LogAndAnswer(c, "code_search", x, out + r.tokensSaved, out,
                        [hits |-> r.hits, files |-> call[c].files])
    /\ UNCHANGED <<task, server, made>>

-----------------------------------------------------------------------------

\* The host takes the answer.
Take(c) ==
    /\ call[c] # NoCall /\ call[c].stage \in {"answered", "failed"}
    /\ Becomes(c, NoCall)
    /\ UNCHANGED <<task, server, made, rows, others, report, reports>>

\* The host ends the process and starts another one.
Restart ==
    /\ made.restarts < task.restarts
    /\ made' = [made EXCEPT !.restarts = @ + 1]
    /\ server' = NewServer
    /\ call' = [c \in Client |-> NoCall]
    /\ UNCHANGED <<task, rows, others, report, reports>>

Reporting ==
    /\ task.reports
    /\ \/ OtherLogs \/ RunStats
       \/ \E c \in Client : GetStats(task.host, Session(c)) \/ Sidebar(Session(c))
       \/ Query \/ EndReport
    /\ UNCHANGED toolVars

Step(c) == InitReturns(c) \/ LoadLanguage(c) \/ Parse(c) \/ WalkOn(c) \/ Take(c)

Next ==
    \/ \E c \in Client :
         \/ TrimTool(c) \/ LogSummary(c) \/ DiffTool(c) \/ GrepOutput(c) \/ PlanTool(c)
         \/ SmartRead(c) \/ SearchTool(c)
         \/ InitReturns(c) \/ LoadLanguage(c) \/ Parse(c)
         \/ WalkOn(c) \/ SearchEnds(c) \/ Take(c)
    \/ InitSettles
    \/ Restart
    \/ Reporting

\* The event loop runs what is due, and the disk answers.  The last formula is
\* WF_vars(SearchEnds(c)): whenever a walk is over, the search can end.
Fairness ==
    /\ WF_vars(InitSettles)
    /\ \A c \in Client : /\ WF_vars(Step(c))
                         /\ []<>(~ Walked(c)) \/ []<><<SearchEnds(c)>>_vars

Spec == Init /\ [][Next]_vars /\ Fairness

-----------------------------------------------------------------------------
(* Properties                                                              *)

Answered(tool, P(_, _)) ==
    \A c \in Client : task.tool = tool /\ call[c] # NoCall =>
        (call[c].stage = "answered" => P(call[c].input, call[c].result))

\* smart-read.ts 20: however calls overlap, a process begins the parser's
\* initialisation once; a call waits for one that was begun, reads a grammar
\* only when it has succeeded and parses only with its grammar loaded.
ParserStartsOnce ==
    /\ server.inits <= 1
    /\ server.init = "none" <=> server.inits = 0
    /\ server.languages # {} => server.init = "ready"
    /\ \A c \in Client : call[c] # NoCall =>
          /\ call[c].stage = "init" => server.inits = 1
          /\ call[c].stage = "load" => server.init = "ready"
          /\ call[c].stage = "parse" => call[c].input.grammar \in server.languages

\* Every call is answered or fails, and is taken or dropped by a restart:
\* none waits for an initialisation that was rejected or walks for ever.
CallsReturn == \A c \in Client : call[c] # NoCall ~> call[c] = NoCall

\* trimmer.ts: what is chosen is within the budget, unless the query is blank
\* or the whole is less than a ninth above the budget.
TrimKeepsBudget(x, r) ==
    \/ r.tokensOut <= x.maxTokens
    \/ r.tokensOut = r.tokensIn /\ (x.query = Blank \/ 9 * r.tokensIn < 10 * x.maxTokens)

\* What the limits of a call bound: what trim_context chooses; the summary of a
\* log, its heading aside; the blocks of a diff behind the first (diff-read.ts 95-99:
\* that one passes at any size, and the note is not counted); snippets and hits of
\* a search, and the files that it reads; a file that smart_read cannot outline, if
\* it has no more than 125 lines and the budget is 58 tokens or more.  Of a longer
\* file 120 lines are shown whatever they hold, and a smaller budget has no room
\* for a tail, so that nearly all of the file is shown (tool-output-compress.ts
\* 54-76).  The budgets of a plan add up to the budget, over different tools.
LimitsAreKept ==
    /\ Answered("trim_context", TrimKeepsBudget)
    /\ Answered("log_summary", LAMBDA x, r : r.tokensOut <= x.budget \/ r.shown = <<>>)
    /\ Answered("diff_read", LAMBDA x, r : r.included = 1 \/ r.tokensOut <= x.budget + Heading)
    /\ Answered("smart_read", LAMBDA f, r :
          r.kind = "budgeted" /\ f.text.lines <= LineLimit /\ f.budget >= 58 =>
              r.tokensOut <= f.budget)
    /\ Answered("grep", LAMBDA x, r : r.compressed => r.tokensOut < r.tokensIn)
    /\ Answered("code_search", LAMBDA x, r :
          /\ Len(r.files) <= MaxFiles
          /\ Len(r.hits) <= x.maxResults
          /\ \A k \in DOMAIN r.hits : r.hits[k].tokens <= x.budget)
    /\ Answered("budget_planner", LAMBDA x, r :
          /\ SumFunction(r.budgets) = x.maxBudget
          /\ Len(r.tools) >= 3 /\ IsInjective(r.tools)
          /\ \A i, j \in DOMAIN r.budgets : r.budgets[i] - r.budgets[j] <= 1)

\* What a log summary should keep: errors, warnings, the line above a frame,
\* and the frames right below an error.
Interesting(lines) ==
    {i \in DOMAIN lines :
        \/ lines[i].kind \in {"error", "warning", "stack"}
        \/ i < Len(lines) /\ lines[i + 1].kind = "stack"
        \/ \E e \in 1 .. i - 1 : /\ IsError(lines[e])
                                  /\ lines[e + 1].kind = "stack"
                                  /\ \A j \in e + 1 .. i : lines[j].kind \in {"stack", "at"}}

\* The names that an outline leaves out without a mark: of the variables that
\* are declared behind one whose value is a function (smart-read.ts 144-150), and
\* of all that an export has behind its first child, as the class behind its
\* decorator (166-172).
BehindFunction(n) == IF n.type = "closure" THEN Range(Tail(n.names)) ELSE {}
Unmarked(n) ==
    IF n.type = "export" /\ n.parts # <<>>
    THEN BehindFunction(Head(n.parts)) \cup UNION {Range(p.names) : p \in Range(Tail(n.parts))}
    ELSE BehindFunction(n)

\* What an answer keeps of what the tool is for.  trim_context leaves a file
\* that reaches the score out only if there is no room for it; a log summary shows
\* the first of the interesting lines, without a gap (the others are gone without
\* a mark, log-summary.ts 85-88); a diff is cut behind a hunk, and every hunk before
\* is shown whole; the matches of a grep are shown or counted; a search passes over
\* a hit only for better ones; an outline has the names of all functions, classes,
\* their members and variables, but for the unmarked ones above.
AnswersKeepTheirPart ==
    /\ Answered("trim_context", LAMBDA x, r :
          LET score == FinalScores(r.files, x.query) IN
          \A i \in DOMAIN r.files \ Range(r.shown) :
              TooLow(score[i]) \/ r.tokensOut + r.files[i].tokens > x.maxTokens)
    /\ Answered("log_summary", LAMBDA x, r :
          /\ \A k \in 1 .. Len(r.shown) - 1 : r.shown[k] < r.shown[k + 1]
          /\ Range(r.shown) \subseteq Interesting(x.lines)
          /\ \A i \in Interesting(x.lines) \ Range(r.shown) :
                 \A j \in Range(r.shown) : j < i)
    /\ Answered("diff_read", LAMBDA x, r :
          \A k \in 1 .. r.included :
              (x.hunks[k].start .. x.hunks[k].start + x.hunks[k].count - 1)
                  \cap DOMAIN x.lines \subseteq r.shown)
    /\ Answered("grep", LAMBDA x, r :
          \A f \in {x.lines[i].file : i \in DOMAIN x.lines} \ {NoFile} :
              LET all == {i \in DOMAIN x.lines : x.lines[i].file = f}
              IN  r.compressed =>
                    \/ f \in DOMAIN r.hidden
                       /\ Cardinality(all \cap r.shown) + r.hidden[f] = Cardinality(all)
                    \/ f \notin DOMAIN r.hidden /\ r.hiddenFiles > 0)
    /\ Answered("code_search", LAMBDA x, r :
          LET shown == {r.hits[k].path : k \in DOMAIN r.hits} IN
          \A i \in DOMAIN r.files :
              r.files[i].terms \cap x.query # {} /\ r.files[i].path \notin shown =>
                  /\ Len(r.hits) = x.maxResults
                  /\ \A j \in DOMAIN r.files :
                        r.files[j].path \in shown => r.files[j].weight >= r.files[i].weight)
    /\ Answered("smart_read", LAMBDA f, r :
          r.kind = "symbols" => \A k \in DOMAIN f.nodes :
              Range(f.nodes[k].names) \ Unmarked(f.nodes[k]) \subseteq r.names)

\* stats.ts 143-275: the three statements of a summary are not one moment, and
\* what is shown still lies between the summaries of the first and the last
\* of them; the real-time saving is not negative and no more than what it is
\* compared with.  The exception is a row of an older ctxlite logged between
\* the first two statements: it is subtracted without having been added.
\* report.ts: where something was saved at first, it is shown, in bars that
\* compare as the savings do.
SummaryIsOfItsTime ==
    Complete /\ ~ report.bySession =>
        LET f == report.filter
            at(n) == Summary(Seen(n, f), Seen(n, f), Seen(n, f))
            first == at(report.seen[1])
            s == ReadSummary(1, f)
            last == at(report.seen[3])
        IN  /\ first.total <= s.total /\ s.total <= last.total
            /\ first.saved <= s.saved /\ s.saved <= last.saved
            /\ first.turns <= s.turns /\ s.turns <= last.turns
            /\ \A k \in DOMAIN Sources : first.by[k] <= s.by[k] /\ s.by[k] <= last.by[k]
            /\ Legacy(Seen(report.seen[1], f)) = Legacy(Seen(report.seen[2], f)) =>
                  /\ 0 <= s.realtime /\ s.realtime <= s.before
                  /\ first.realtime <= s.realtime /\ s.realtime <= last.realtime
            /\ Shown(s, report.surface).kind = "nothing yet" => first.saved = 0
            /\ \A j, k \in DOMAIN Sources :
                  /\ Bars(s)[k] <= 20
                  /\ s.by[j] <= s.by[k] => Bars(s)[j] <= Bars(s)[k]

\* stats.ts 277-320: a breakdown lists every session of its filter once, with
\* one heading for each host (report.ts 201-228), and the summary below a
\* session, read later and over all times, has at least the rows that its
\* line says.
SessionsAddUp ==
    Complete /\ report.bySession =>
        /\ {<<e.host, e.session>> : e \in Range(Listed)}
              = {p \in SessionsOf(Seen(report.seen[1], report.filter)) : None \notin {p[1], p[2]}}
        /\ \A k, m \in DOMAIN Listed :
              k # m => <<Listed[k].host, Listed[k].session>> # <<Listed[m].host, Listed[m].session>>
        /\ Cardinality(HostLines(Listed)) = Cardinality({e.host : e \in Range(Listed)})
        /\ ~ report.compact => \A k \in DOMAIN Entries :
              /\ Entries[k].row.saved <= Entries[k].summary.saved
              /\ Entries[k].row.total <= Entries[k].summary.total + Entries[k].summary.turns

=============================================================================
