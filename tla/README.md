# ctxlite in TLA+

ctxlite saves tokens for coding agents. It is a TypeScript core
(`packages/core`) with four ways into it (an OpenCode plugin, an MCP server, a
command line with hook bridges for Claude Code and Cursor, an installer), and a
Go binary (`go/`) that is an HTTP proxy with a two-level response cache. The
ways into the core write what they saved into one SQLite file,
`~/.ctxlite/stats.db`, from several processes at once; the proxy keeps its cache
and its request log in a file of its own, `~/.ctxlite/cache.db`.

This directory holds TLA+ modules of the parts where state, concurrency or
failure matter, TLC configurations that check them on small instances, and
proofs for TLAPS of the invariants that matter most. Paths below are relative
to the repository. `PROJECT.json` names, for each definition, the lines of
source it stands for.

## 1. Inventory

| Component | State | Operations | What is hard | What makes it correct |
|---|---|---|---|---|
| Savings store, `core/src/stats.ts`, `sqlite-adapter.ts` | table `requests` and its added columns; one shared connection, failure counter per process | open and migrate, `log` with retries, prune by age, close | several processes migrate and write the same file; lock time-outs as exceptions; duplicate events | what `log` accepted stays; a row never changes; a row is dropped by an open store only after the whole retry budget, by one that has to be opened after one lock exception; `log` returns |
| OpenCode tool hooks, `opencode/src/tool-precall-hook.ts`, `tool-compress-hook.ts`, `precall-state.ts` | pending savings by session and call, engaged paths by session, rows of the store | before hook (pass, block, rewrite), after hook | parallel calls of several sessions, calls without after hook, restart of the plugin | each row belongs to the call that earned it; a large read passes exactly if the session engaged the path |
| OpenCode message events, `opencode/src/stats-events.ts`, `session-display.ts` | last total by session, session titles at the host | `message.updated` | three awaits of the host per handler, duplicate events, renames meanwhile | toasts add up; titles never overstate; a title is spoilt only by a race |
| Context pruning, `core/src/context-prune.ts`, `tool-output-compress.ts`, `opencode/src/messages-transform-hook.ts` | the messages of a request, rows of the store | prune duplicates, cap old outputs, log | two passes over the same parts; ids by the clock | a placeholder leads to a later completed call of the same tool and arguments, whose output is there whole, cut or empty; what is booked was saved |
| Installer, `core/src/install/*` | settings files of the hosts | plan, merge or remove, write | runs side by side, files of any shape, killed runs, the user's own edits | the user's part stays; a syntax error stops everything; installing again changes nothing |
| Response cache of the proxy, `go/internal/cache`, `proxy/handler.go` | `cache_exact`, `cache_semantic_*` | lookup, store, evict, clear, restart | handlers, goroutines, the hourly ticker and another process interleave at every SQL statement | a hit is authentic and fresh, or similar enough; the capacity holds up to what is in flight |
| Precall rules and hook bridges, `core/src/tool-precall.ts`, `ctxliteignore.ts`, `cli/src/hook.ts`, `cursor-hook.ts` | `.ctxliteignore`, rows of the store; none of their own | rewrite a command, deny a path, log, answer the host | chains, quotes, escapes, groups, comments and several lines, of which the scanner knows some; several rules for one command; a bridge killed between its row and its answer; commands run again as they came out | where the scanner reads a command as a shell does, a flag lands on its tool; a rule does not meet its own result; a row stands for what was done |
| Requests of the proxy, `go/internal/proxy`, `stats/stats.go` | the handlers, table `requests` of the proxy | look up, trim, forward, copy a stream, store, log, sum up | disconnects, streams that break off on either side, id clashes, locks | every answered request is logged once; only answers read without an error are cached, whole or cut at 50 MB; the summary adds up |
| Trimmer of the proxy, `go/internal/trimmer` | none | take files out of a request, rank, select within a budget, rebuild | ties, the boundary of the budget, files of several messages | the query stays; the files chosen for the last message with code fit into the budget and nothing that fits is left out |
| Trimmer of the core, `core/src/trimmer.ts`, `budget-planner.ts` | none | choose files within a budget | the boundary of the budget | what is chosen is within the budget, what is given up on below a tenth above it |
| Smart read, `core/src/smart-read.ts` | a shared initialisation of the parser, the grammars loaded so far | outline of a file, or a cut of it to a budget | calls overlap while the parser or a grammar is loading; either may fail | one initialisation; nobody waits for a rejected one; declared names stay in the outline, but for those behind a function value or a decorator |
| Search, diff, log and budget helpers, `core/src/code-search.ts`, `diff-read.ts`, `log-summary.ts`, `grep-output-compress.ts` | none | shorten what an agent is about to read | files vanish under the walk of a search; boundaries of budgets | limits hold, with the exceptions of section 5; what is left out is counted, had no room or is behind what is better; a log summary keeps the first failures |
| Summaries of the core, `core/src/stats.ts:143-335`, `report.ts` | rows (read only) | totals by session, host, period | other processes log between the statements of one summary | what is shown lies between the first statement and the last; parts add up to the whole |
| Command line, `cli/src/index.ts`, `install.ts`, `stats-command.ts`; `core/src/install/opencode-refresh.ts` | OpenCode's plugin cache (shared) | install with preview, prompt and refresh; stats | the prompt stays open while files change; the cache is cleared before the plugin is fetched anew | the command does to the target files what the installer does; the plugin comes back |
| MCP server, `mcp/src`; tools of the plugin, `opencode/src/tools.ts` | calls in progress | refuse or run a tool, log what it saved, answer | calls overlap at every await; restarts | every call returns |
| Plugin registration, system prompt, compaction text; Go configuration; benches | none of their own | read settings, print | none | none stated here |

How they interact: the plugin, the MCP server and the command line call the core
as a library; all savings go through `logOptimizationSavings` or
`logConcisenessSavings` into the store; the message events read the totals that
the hooks wrote; the reports of all hosts read all rows; the proxy shares
neither code nor files with the TypeScript side
(`go/internal/config/config.go:48`).

## 2. Modules

Each module states at its head what it abstracts; each action carries the
condition, the assignments and the early returns of the code.

**StatsStore**, with the abstract **SavingsLedger**. A process is one thread
with at most one `log` call; `pc[p]` is the SQL statement it executes next
(`CreateTable`, `AddHost`, `AddSession`, `Insert`). A statement may throw
because another process holds the write lock beyond `busy_timeout`
(`Contended`): during the open that is `OpenFails`, in an `ALTER TABLE` it is
swallowed (`AlterSwallowed`), in an insert it is retried (`RetryInsert`) and in
the end counted (`GiveUp`). `OpenFails` drops the row at once and uncounted, as
the code does; the history variable `lost` counts these rows. An insert also
throws while a column is missing. `Crash`, `Close`, `PruneOlderThan` and the
clock interleave. `SavingsLedger` says what a writer may rely on: an id is
recorded at most once, its first value stands, rows leave only by age.

**PluginHooks**. `Begin` is the head of the before hook, which marks the
engaged path first; `BeforePass`, `BeforeBlock` and `BeforeModify` are its three
outcomes; `AfterOutput` and `AfterNothing` the after hook; `ToolFails` a tool
that throws; `Restart` the loss of the maps. `Log` is
`logOptimizationSavings`: nothing for 0, `INSERT OR IGNORE` otherwise, and any
row may be lost (that is what StatsStore's `GiveUp` and `OpenFails` amount to).

**StatsEvents**. A handler is atomic up to its first await and then one step
per answer of the host: toast, `session.get`, `session.update`; each may also
fail. The events come in any number and order, duplicates included.

**ToolOutput** and **ContextPrune**. ToolOutput is `compressToolOutput`: texts
are a number of lines of one width and an amount of colour codes; lengths, cuts
and token estimates are computed with the code's own arithmetic. ContextPrune's
`Transform` is the whole hook on one request: prune, then cap (which calls
ToolOutput), then two rows. The budgeted `smart_read` of Toolbox calls it too.

**Installer**. A run is `PlanTarget` per target, then per target `ReadAgain`,
`OpenFile` (truncation), `WriteFile`. The merge functions work on settings
abstracted to: is it an object, is `$schema` or `version` set, the user's other
keys, and two lists with the entries that the code tells apart. `UserSaves` is
an edit of the user, of a small set `Edited`; `raced` collects the files whose
edit fell between the second read of a run and its write, which is the one case
in which an edit is lost.

**InstallCommand** puts the command around it: `Preview` and `Decline`, or
`Begin`, the steps of Installer (`Runs`), `Breaks` or `Completes`, and behind an
installation `ClearCache` and `Reinstall`. The options and the wording of the
prompts are left out, since they only choose which targets there are; the
preview is one step, since nothing of what it read is used; the commands are of
one scope (global or project). OpenCode's own part, fetching a plugin that is
not in its cache, is external.

**ResponseCache**. A request is `Request` (L1), `KnnSearch`, `FetchRow`,
`Forward`, `InsertL1`, `CountL1`, `EvictL1`; the goroutine for L2 is `StoreL2`;
`EvictExpired`, `EvictorCounts` and `EvictorDeletes` are the ticker. Cache
clears of the command line, disconnects and restarts come at any point.

**ContextTrimmer** and **ProxyRequests**. ContextTrimmer is the trimmer as
operators: files of the conversation (the first of a path wins), the query (the
text of the last message of the user that has one), the selection by falling
rank within the budget, where `sort.Slice` may order ties either way, and the
rebuilt request, which is the request itself when less than a tenth would be
saved. Rebuilding writes every message again with its role and content; only the
last one with code gets other blocks (`LastCoded`). ProxyRequests is a handler
from `Receive` to its end: `HitL1` and `HitL2`, `Miss` (which trims),
`ForwardFails`, `AnswerArrives` and `StoreAnswer`, or `StreamStarts`,
`CopyLine`, `StreamEnds` and `WriteFails`, then `LogRow` or `LogFails`, and
`Deliver`: an answer that is no stream is written after its row. `AnswerArrives`
reads the whole body or, of one above 50 MB, the first 50 MB (`io.LimitReader`);
`got` remembers which. `ClientGone` cancels the context of a request, on which
the insert into the log and the storing depend; `Restart` ends all. The cache is
external there: ResponseCache has its inside. `SummaryFrom` is the query of
`ctxlite stats` over the rows since a time.

**PrecallRules** and **HookBridges**. PrecallRules has the rules for shell
commands in their order, the scanner before them, and the
patterns for denied paths. A command is a sequence of lexemes: words, each a list
of the letter runs and flags that the regular expressions can tell apart, and
marks: the two quotes, a backslash, an operator, a parenthesis, a `#`, a line
end, a here-document. What a lexeme is (`is`) and what the code takes it for
(`kind`) are two things. `Scanned` is `stripEmbeddedText`, pattern by pattern:
double-quoted strings first and without a look at single quotes, a backslash
that keeps a mark from closing a string but not from opening one, nothing known
of comments; `Segments` is `splitTopLevel`, which knows no groups and no escaped
operators. A rewritten command is scanned anew (`Rewritten`). `ShellRead` of
HookBridges is the same command as a shell reads it, by modes (outside, in
double or single quotes, in a comment); it is a part of the property, and no
code is translated there. Line continuations (a backslash before a line end) and
command substitutions inside of double quotes are left out of both.
HookBridges puts them to use: one tool call after the other, with a process of
its own before it and, for Claude Code, after it. `BeforePass`, `BeforeModify`
and `BeforeBlock` are the outcomes of `optimizeToolArgs`; `LogBefore` the row,
`AnswerBefore` the printed answer, `NoAnswerBefore` a killed bridge or an input
that is no JSON; `AfterCompress`, `LogAfter`, `AnswerAfter`, `NoAnswerAfter` the
same for the output. `StartAgain` is an agent that runs a command in the form
it got.

**Selections**, **Relevance**, **ReadTools**, **StatsReports** and **Toolbox**.
The first three are operators: Selections has what the tools share (sorting,
filtering, the numbers without repetition, sums of tokens); Relevance the
scores, the import boost, the selection of `trim_context` and the walk, ranking
and snippets of `code_search`; ReadTools the log summary, the blocks of a diff,
the grouping of grep output, the plan of budgets and the outline of a file.
Texts are sequences of lines with token counts and what the patterns see in a
line. What an input may be is named where it is declared (`File`, `LogLine`,
`DiffHunk`, `SyntaxNode`, ...; `IsInput` of Toolbox, `IsRow` of StatsReports)
and assumed of the inputs of each task. Numbers there are whole and not below
zero, as the schemas of the MCP server demand; the schema of OpenCode's
`trim_context` would take a `maxTokens` below zero too, which is left out.
StatsReports has the rows and a report as it is read, a statement at a time
(`Query`), with `Summary`, `SessionRows` and what the surfaces make of them
(`SavingsLine`, `Bars`), and the words of `ctxlite stats` (`ParseArgs`). Toolbox
composes the three into a server process of either host: `TrimTool`,
`LogSummary`, `DiffTool`, `GrepOutput` and `PlanTool` answer at once;
`SmartRead`, `InitSettles`, `InitReturns`, `LoadLanguage` and `Parse` are the
awaits of a smart read, whose input has the text's sizes, the nodes and the
budget (a file that has no outline is cut by ToolOutput to four characters a
token); `SearchTool`, `WalkOn` and `SearchEnds` those of a search, whose
directories and files may vanish on the way; `Take` hands over the answer;
`Restart` ends the process. `OtherLogs` is a row that another process writes
while a report is read.

`MC*` modules give the constants of the small instances. `*_proofs` modules
and `FoldLemmas` hold theorems and proofs. Where the proofs need them, the
models name what inputs are made of: `Lexemes` in HookBridges, `Paths` and
`Texts` in ContextTrimmer. What StatsEvents calls `EventsInit`, `EventsNext` and
so on is named for standing next to StatsStore in one module of proofs, and
`PruneInit`, `PruneNext` in ContextPrune for standing next to PluginHooks, with
which it shares the sessions of OpenCode (module OpenCode).

What is assumed of the host, because no code under `packages/` shows it: a call
that the before hook blocked, and a tool that throws, have no after hook; call
ids are unique within a session; the transform hook gets a copy of the history,
so that each request starts from the whole outputs; a host that gets no answer
from a bridge goes on with the call as it was. Whether a host lets `command`
replace the whole input of a call or only that argument is not modelled.

## 3. Runs

| Run | Checks | Bounds |
|---|---|---|
| `store` | `AckedIsDurable`, `DropsCostExceptions`, `LogReturns`, and that StatsStore implements SavingsLedger | 2 processes, 2 ids, 2 calls, 4 lock exceptions per process, clock 0..1; new, legacy and current databases |
| `hooks` | `SavingsAreEarned`, `RewritesAreLogged`, `LargeReadsNeedEngagement` | 2 sessions and 2 call ids (4 calls), a large path and a low-signal one, any number of restarts |
| `events` | `ToastsAddUp`, `TitleNeverOverstates`, `TitlesSpoilOnlyByRace` | 2 sessions, 3 messages (two in one session, one without saving), 2 handlers, 2 titles of the user, any number of duplicate events, renames and restarts |
| `cache_hits` | `L1HitIsAuthentic`, `L2HitIsSimilar` | 2 handlers, 3 bodies (two alike), capacity 1, TTL 1, clock 0..1, 3 requests |
| `cache_capacity` | `CapacityIsAccountedFor`, `CapacityIsRestored` | the same without L2, with a restart, under fairness |
| `install_parallel` | `UserPartsStay`, `TypoStopsEverything`, `DoneMeansConfigured`, `SecondRunIsNoOp`, `PluginComesBack` | 2 commands, 3 targets, 12 ordinary starting points (each file missing, with a syntax error, without ctxlite or with it), and, one file at a time, every shape of each of the five kinds; 1 crash, 1 edit out of 5 kinds, removals |
| `prune` | `PlaceholdersLeadOn`, `BookedIsSaved` | 2 messages, 3 calls, 2 keys, texts that are empty, cut by lines, or large by colour codes alone; 2 milliseconds |
| `proxy` | `AnsweredRequestsAreLogged`, `OneRowPerAnswer`, `CachedAnswersWereRead`, `TrimKeepsTheQuery`, `ChosenFilesFillTheBudget`, `SummaryAddsUp` | 2 handlers, 2 requests, 5 conversations (no files, above the budget, over two messages, no question, nameless blocks in two messages), 2 orders of rank (one with a tie, one below the minimum), 3 reports of usage, answers of up to and above 50 MB, 2 lines, clock 0..1 |
| `bridges` | `FlagsStayWithTheirTool`, `RulesFireOnce`, `RowsAreEarned`, `AnswersAreBooked` | all commands of up to four of a tool, a quote and an operator or up to three of two words and an operator, and thirteen longer ones with quotes in quotes, escapes, a group, a comment or several lines, 6 paths, 2 ignore files, 2 calls of which 1 is no repetition |
| `toolbox` | `ParserStartsOnce`, `LimitsAreKept`, `AnswersKeepTheirPart`, `SummaryIsOfItsTime`, `SessionsAddUp`, `CallsReturn` | 2 clients; for each tool that answers at once some tens to some hundreds of inputs, one call; smart reads: 4 calls and 1 restart of 2 grammars, 2 calls of files without grammar or tree; a walk of 2 directories at 4 files; 1 report with 2 rows of others out of 5 kinds |
| `store_alter`, `bridges_lines` | one divergence each, section 5 | as small as shows it |

What some of these say, where a short name might promise more:

* `DropsCostExceptions`: on a database that has its columns, the lock exceptions
  of a process are at least the whole budget for each row it dropped while open
  (`runWithRetry`), plus one for each row whose call found the store closed
  and could not open it, plus the attempts under way. It does not say that only
  a spent budget loses a row, for a failed open does after one.
* `PlaceholdersLeadOn`: the call that is named is later, completed and no
  placeholder; its output is whole, cut by the second pass or empty, never
  anything else.
* `CachedAnswersWereRead`: what is stored or served again was read without an
  error. It is the head of the answer if that had more than 50 MB.
* `ChosenFilesFillTheBudget`: the files chosen for the last message with code.
  The request as a whole may be above the budget by the blocks of the messages
  before, which keep all of theirs.
* `FlagsStayWithTheirTool`: commands of one line, without groups and comments,
  whose quotes, escapes and operators the scanner takes for what a shell takes
  them for (`ReadAlike`): the result is the old text with a flag behind some
  simple commands, each of which names the flag's tool outside of quotes. Of the
  commands in the run it covers quotes in quotes and escaped quotes as far as
  both read them alike; `bridges_lines` has those that are read otherwise.
* `LimitsAreKept` and `AnswersKeepTheirPart`: the limits and parts that the code
  keeps, tool by tool; what it does not keep is named in the comments and in
  section 5.

The `bridges` run has 258,382 distinct states and takes about a minute, `prune`
145,332 and takes two to three.

The `TypeOK` of a module is proved where section 4 says so, and is checked by
the `proxy` run for ProxyRequests too. ContextPrune's (`PruneTypeOK`) is proved
and in no run.

Each bound is the smallest at which the case of interest occurs: two of
everything that can race, three attempts because that is the code's budget (with
four lock exceptions a process can spend a budget and go on), a capacity of one
because the first row above it is what counts, one clock tick because it lets a
TTL of one expire. Counters that would grow without end carry a bound named in
`CONSTANTS` (`MaxCalls`, `MaxFresh`, `MaxBusy`, `MaxRequests`, `MaxLines`,
`MaxTime`, `MaxOthers`, ...). In Toolbox the bounds come with the task: each
task is one tool with its inputs and the number of calls and restarts, so that
inputs are many where calls do not interact, and calls are many where they do.
Its constants `HalfWindow`, `MaxFiles`, `MaxLines`, `MaxMatchFiles`, `Heading`
and `Baseline` are limits of the code scaled down, such that both sides of each
limit occur.

Symmetry is used where the elements are interchangeable in the
specification and in every constant, and only in runs of safety properties:
sessions and call ids in `hooks`, handlers in `cache_hits`, handlers and user
titles in `events`, processes in `install_parallel`, handlers in `proxy`.

`CHECK_DEADLOCK FALSE`: all systems here may stop. Every bound on requests,
calls or edits ends a behaviour, and a process without events does nothing.

Fairness is stated in three modules. `StatsStore!FairSpec`: weak fairness of the
steps of a process that has a call in progress; the calls are synchronous and
SQLite answers or times out. `ResponseCache!FairSpec`: weak fairness of each
handler (the server and the upstream client have time-outs, so a request ends)
and of the ticker (`StartEviction` runs as long as the proxy does).
`Toolbox!Fairness`: weak fairness of the initialisation of the parser and of
each step of a call (the event loop runs what is due, reads of the disk end);
`InitSettles` may as well reject. The fairness of `SearchEnds` is written out
as infinitely often taken or not at its point, which is what WF says of an
action whose only guard is `Walked`: TLC would look for a successor to find out
whether it is enabled, and that is the whole ranking. Nothing is assumed of
users, clears, restarts, reports, other processes or events.

## 4. Proofs

All theorems hold for any values of the constants that satisfy the named
assumption of the module. Each rests on an inductive invariant:

* `StatsStore_proofs`: `Inv` is `TypeOK` with the fact that a process between
  two statements has a call (and an idle one none, with no attempts). It is
  needed because `Insert` reads `call[p].id`. `AckedIsDurable`,
  `FirstWriteWins` and the refinement of `SavingsLedger` follow step by step;
  `DropsCostExceptions` adds that the schema is full and the balance of
  exceptions, which a retry, a give-up and a failed open keep exactly: a failed
  open adds one to both sides, its exception and its row.
* `PluginHooks_proofs`: the ledger alone says nothing of the maps, so the
  invariant adds: a pending saving belongs to a call that runs, was rewritten
  and saved that amount; at most one call per id has started; each row belongs
  to a call that ended in the matching way.
* `StatsStore_proofs`, second part, about StatsEvents, with which StatsStore
  shares no variable: besides the two properties, a handler between two awaits
  carries a total that is no larger than the present one, and no toast was shown
  before the first turn. `TitlesSpoilOnlyByRace` is a property of a step and
  needs the types only.
* `ResponseCache_proofs`: every stored response is one for its own body and is
  not newer than its row. The capacity is proved by counting: the number of
  rows above the capacity is at most the number of handlers in eviction plus
  those that were cut off; an insert adds one row and one such handler, and a
  handler that counted no excess leaves only when there is none. For L2 the
  invariant `Similar` says that a row is of its own body, and that a row found
  by a search and not yet fetched is near to the body that was searched, unless
  L2 was cleared since (`L2HitIsSimilar`).
* `Installer_proofs`: while a file with a syntax error exists no run gets
  beyond its plan; and what a run is about to write contains the user's part of
  what the file holds, for every kind and shape, edits included except the raced
  ones. `SecondRunIsNoOp` is about one command applied twice: the merges and
  removals are idempotent, shape by shape. `DoneMeansConfigured` needs the
  invariant `Settling`: as long as nobody removes or edits, and no run ended
  early (`Calm`), a target file is its original, the final text or truncated on
  the way to it (`Between`), and the targets behind a run are on the way or there
  (`Progress`).
  Assumed is `NoEmptySchema`, that no `opencode.json` starts with an empty
  `$schema`: with one the final text is not a fixed point (section 5). For
  InstallCommand it is proved that each step of the command is one of Installer
  or leaves its variables alone, so that the command implements the installer
  and inherits its theorems; `PluginComesBack` adds that the run of a command is
  on in the stage "run" only.
* `PluginHooks_proofs`, second part, about ContextPrune: a request's
  placeholders are made in one step, so the invariant only says that the host's
  history holds none and has calls with numbers of the range. The rest is about
  maxima: the latest call of a key exists (by well-foundedness of the numbers),
  comes after every call that is pruned, and is not pruned; the cap changes
  nothing but outputs. For `BookedIsSaved` prune and cap are taken part by part:
  they keep the places of all parts and lengthen none, so that a request is
  shorter by exactly what the changed parts are; that is a sum over two finite
  sets, of which one adds nothing. The two rows are told apart by their sources,
  and each books that difference or is lost to a row of the same id. The theorem
  assumes `ShortNames`: a tool's name and a call id have at most 123 characters
  together, so that a placeholder has no more than the 48 tokens of the shortest
  output that is pruned. `PruneTypeOK` needs no such assumption.
* `ProxyRequests_proofs`: `IInv` is `Shape /\ Working /\ RowsBelong /\
  LoggedSoFar /\ ReadSoFar`. `Shape` says that `past` is a sequence and the
  clock in its range; `Working` that a request in work has one handler and no
  end yet; `RowsBelong` that a row names a request that did not fail, and whose
  handler, if it is still at work, has only to deliver; `LoggedSoFar` is the
  property with the requests whose answer is still to be delivered; `ReadSoFar`
  says what was read of every answer that is stored, served or about to be. On
  top of it `Typed` follows the trimmer: what a handler forwards is one of the
  results of `Trim` for the body it received, so that `TrimKeepsTheQuery` and
  `ChosenFilesFillTheBudget` are facts about the trimmer. The selection is a
  fold; run file by file it keeps that the sum is within the budget, that each
  kept file is one of the request, and that each file passed over ranks too low
  or did not fit behind what was kept by then, hence not behind what is kept in
  the end. `SummaryAddsUp` compares sums over sets of rows: hits and trimmed
  rows are disjoint, and no row saves more than its input.
* `Toolbox_proofs`: for `ParserStartsOnce` the invariant `ParserInv` is that
  property with the shape of the server's state and of a call that waits
  (`HasFields`); a server only ever goes on (`GoesOn`), so that what another call
  waits for stays as good as it was, and a restart forgets the calls with it.
  For `LimitsAreKept` and `AnswersKeepTheirPart`, `AnswersInv` says that a call
  on its way is one of its task's inputs, that a walk has found entries of the
  tree only, and that each answer is as its tool promises. The promises are
  lemmas about the operators, one per tool: what the loop over ranked files,
  hunks or lines keeps is within the limit at each round, and what it passed
  over is counted, found no room, or comes later in the order.
  For `SummaryIsOfItsTime` and `SessionsAddUp`, `ReportInv` says that rows count
  and that turns save nothing, and that the statements of a report saw tables
  that only grow. A sum over more rows is then at least as large, statement by
  statement; real-time savings are a difference, which is why their bound needs
  that no older row came in between. Sessions are the pairs of host and session
  of the rows seen; sorted by the place of the host first, all sessions of one
  host stand together, so that it has one heading.
* `HookBridges_proofs`: the stage of the last call says which rows it has
  (`RowsByStage`), and the calls before it are over (`OneAtATime`). With that a
  step is safe if it does not go back behind a row, does not change what a row
  may hold and owes no new one (`Advanced`), or is the one that writes it
  (`RowWritten`). `FullInv` adds the types and what the rules say of a call
  (`Sound`: a modified call met a rule and runs the rewritten command) and of
  its repetitions (`Inherits`: it met no rule that an earlier run of the same
  command met). The rules are opened up for that: a rewritten command is cut
  into the same segments as the old one (`SegmentsOfRewritten`), each as it was
  or with the flag of its first rule behind it (`SegmentQuietened`); for each of
  the 22 rules its own flag keeps it off (`RulesSettle`); and a rule that fired
  stays off because flags are never taken away (`CarriedStays`,
  `CarriedIsQuiet`). Since a rewritten command is scanned anew, each of this rests
  on `ScanStays`: a word that takes the place of the line ends before an operator,
  or at the end of the command, opens and closes no string, so that every other
  lexeme is still taken for what it was before; segment by segment the rebuilt
  command is then one that is scanned already (`RewrittenIsRebuilt`). The proof
  follows the folds of the scanner lexeme by lexeme. `RulesFireOnce` follows. For
  `FlagsStayWithTheirTool`, where both read alike the segments of the scanner are
  the simple commands of the shell, and the rebuilt text is these with a flag
  behind some (`FlagsOfRebuilt`). For `RowsAreEarned` a rewriting shows: the command
  it makes differs from the old one (`RewritingShows`).
* `FoldLemmas`: induction over numbers and finite sets, stated for a *set* that
  holds what is shown so far, since the theorems of the library that take a
  predicate as a parameter cannot be used; by it a fold of the community modules
  is unrolled into a run of values, one for each step of the loop
  (`FoldLeftRuns`), and a sum over a finite set is one to which each element
  adds (`SumIsSum`, `SumGrows`, `SumOfParts`, `SumAtMost`, `SumOfBoth`); a finite
  set of numbers has a largest and a smallest one. Nothing in it is about this code.

Assumed beyond the named assumptions of the modules are `NoEmptySchema` and
`ShortNames` only; they stand in the statements of their theorems, and the
instances of the runs satisfy both.

Only model-checked is liveness (`LogReturns`, `CapacityIsRestored`,
`CallsReturn`), which is beyond TLAPS here. Every other property of the passing
runs is a theorem.

## 5. Divergences

Two runs are expected to find a violation; each property is a sentence of the
repository, and the finding in `PROJECT.json` quotes it.

* `store_alter`: the comment at `core/src/stats.ts:34` takes every exception of
  an `ALTER TABLE` for "column already exists". One that comes from a held lock
  leaves an open store without the column, and each insert of that process fails.
* `bridges_lines`: the comment at `core/src/tool-precall.ts:68-71` says that
  what the scanner does not know costs an optimization and no wrongly placed
  flag. A command of two lines is one segment, so the flag for `npm test` on the
  first line goes to the command of the second; behind a here-document it stands
  on the line of the delimiter; of a group it stands behind the closing
  parenthesis, which is no command (`(cd x && npm test) --silent`); of an
  escaped operator between the backslash and the operator; behind a trailing
  comment inside of the comment. A backslash before a closing single quote is
  taken for an escape, so that the text of the next string is taken for a
  command and gets a flag behind it. TLC finds one of these; each of the six
  commands of `Misplaced` violates the property.

Noticed while modelling and described here only, since the number of runs is
kept small. Of the TypeScript side:

* the comment at `stats.ts:49-57` says that a write gets more than one chance
  before its row is lost. One whose call finds the store closed does not: the
  open is outside of the retry (`stats.ts:88-92`), its exception is swallowed by
  the caller (`stats.ts:406-422`, `503`), and the row is gone after it, without
  being counted by `getLogFailureCount`;
* `docs/architecture.md:46` says of `prune` that an output is replaced when the
  same call "already appears earlier in the conversation". The code does the
  opposite: it keeps the latest call of equal ones and replaces those before it
  (`context-prune.ts:51-60`), whatever the latest has for an output
  (`PlaceholdersLeadOn`);
* `smart_read` keeps its budget only for files of up to 125 lines and budgets of
  58 tokens or more. Of a longer file 120 lines are shown however long they are
  (`tool-output-compress.ts:55`), and of a smaller budget no room is left for the
  tail, whose `slice` then takes nearly all of the file (line 68). Scenario 3 of
  the first story of `specs/024*/spec.md` (line 45) has the output stay within the
  requested budget. `LimitsAreKept` excepts both cases;
* the first hunk of a diff is shown whatever the budget (`diff-read.ts:95-99`),
  and the note behind a cut is not counted; the schema calls the budget "Max
  output tokens" (`mcp/src/tools/diff-read.ts:9`);
* some losses leave no mark in an answer: the declarators behind one whose value
  is a function (`smart-read.ts:144-150`), the class behind a decorator in an
  export (`smart-read.ts:166-172`), and the lines that are popped off a log
  summary until it fits (`log-summary.ts:85-88`). `AnswersKeepTheirPart` excepts
  the first two and lets a log summary end anywhere, though without a gap;
* the after hook returns on an empty output before it takes the pending entry,
  which stays (`tool-compress-hook.ts:17`, `precall-state.ts:1`);
* a refused large read is booked as a saving each time, also when the file is
  read in full later (`tool-precall-hook.ts:59`);
* of two overlapping handlers the one with the older total may write the title
  last (`stats-events.ts:119`);
* after a clear, SQLite may give a rowid found by a search to another entry
  before it is fetched (`semantic.go:114`); `L2HitIsSimilar` excepts these
  requests, which the history variable `cleared` collects;
* a run of the installer that is killed after the truncation leaves an empty
  file (`run.ts:161`), and an empty `$schema` makes the second run write again
  (`merge.ts:71`); the shapes of `install_parallel` leave that value out for
  OpenCode;
* an edit that the user saves while a run is between its second read of that
  file and its write is overwritten (`run.ts:158`);
* an installation clears the cache of the working plugin first; when the
  registry is out of reach, the plugin stays away until the next command or
  start that can fetch it, and a removal of the cache that fails is reported as
  a refresh all the same (`opencode-refresh.ts:38`); `--tool ,` is an empty list
  of tools, with nothing to do, and an example of the help names a tool that
  `--tool` does not accept (`cli/src/index.ts:38`);
* a placeholder is longer than the shortest output it replaces when a tool's
  name and the call id have more than 123 characters together; the loss is then
  subtracted from what the pruning of other parts has saved, or not booked at
  all (`context-prune.ts:86`, `messages-transform-hook.ts:22`);
* a pruned output may differ from the latest one of the same arguments
  (`context-prune.ts:58`), and an old output above 125 lines is cut by lines and
  may stay far above the token budget (`tool-output-compress.ts:55`);
* a rename between `session.get` and `session.update` is undone, and an answer
  without data erases the title (`stats-events.ts:30`);
* a plugin entry that is no string is deleted when the list is written
  (`merge.ts:55`);
* the rules look for the name of a tool anywhere outside of quotes, so that an
  argument of that name gets a flag (`cat jest.config.js`, `which curl`), and a
  flag anywhere in a command, quoted text included, keeps a rule off;
  `python -m pytest -v` gets `-q`; `make pytest` is rewritten in two rounds;
* an initialisation of the parser that was rejected is kept, so that every smart
  read of a known language fails until the process ends (`smart-read.ts:20`);
* an import is boosted if its raw string is the path of a file, which a relative
  import without its extension never is; the MCP server passes the ending of
  the path for the language, and there is no pattern for "ts" (`imports.ts`);
* sums of token counts leave the separators between lines out and round up line by line;
* the summary below a session in `stats --by-session` is of all times, whatever
  `--last` says, and its line counts turns, which the summary does not; a row of
  an older ctxlite that is logged between the first two statements of a summary
  lowers its saving, since it is subtracted and was not added (`stats.ts:143`);
* an ignore pattern that begins with a slash never fits a relative path, and
  `vendor` without a slash does not cover what lies below.

Of the proxy:

* the key of the cache leaves out host and path (`exact.go:44`), two evictions
  may both count the excess before either deletes (`exact.go:134`), and the
  order is that of creation and not of use (`exact.go:138`);
* a miss that was not trimmed has `TokensUsed` 0, so that the summary counts its
  whole input as saved by trimming (`handler.go:63`, `trimmer.go:58`,
  `stats.go:140`);
* the rebuilt message keeps nothing of the old one but role and query: images
  and tool results go (`parser.go:292`), and all messages are written again with
  role and content only, so that any other field of theirs goes too
  (`parser.go:274-342`; such fields are in no property);
* files of earlier messages stay although they were counted as dropped, so that
  a trimmed request may still be above the budget (`ChosenFilesFillTheBudget` is
  about the chosen files only), the older version of a path wins
  (`parser.go:179`), and nameless blocks of two messages share a name;
* a body above the budget passes unchanged when less than a tenth would be
  saved, and when no file ranks high enough all go;
* prices are looked up by "anthropic" and "openai", but the name is a host, so
  that the default applies (`handler.go:17`, `handler.go:128`);
* of an answer above 50 MB the head is served and cached as if it were all, for
  `io.LimitReader` ends it without an error (`upstream.go:92`);
  `CachedAnswersWereRead` says "read", not "whole", for that reason.

## 6. Not modelled

The prompts of the command line choose targets and are no part of the models;
`--dry-run` is the preview alone. The command line offers OpenCode only
(`core/src/install/run.ts:72`); the Claude Code and Cursor targets are reached through
`planInstall` and `runInstall`. Where the settings files and the database are
(`install/paths.ts`, `stats-path.ts`) is a table of names. Scores, embeddings
and BM25 are real numbers: the models keep their order, and whether a document
shares a term with the query; tokenising a text is left out, as are the
patterns that find imports, frames and hunks, whose results the inputs bring
along. Parsing of source by tree-sitter is external. Registration of the
plugin, its system prompt and the text for a compaction only produce wording.
The Go settings are read once at start and printed by the commands; what the
commands do to the cache is in ResponseCache. Formatting, layout of reports,
packaging, fixtures and the benches are left out: none of it keeps state.

## 7. Plan

1. Done: the core, the tools and reports of the core, the install command, the
   scanner of the precall rules, and the proofs of every safety property that a
   passing run checks.
2. Model: the import boost and scores of the Go trimmer, which are an arbitrary
   rank now; the Go commands that clear and list the cache while the proxy runs.
3. Prove: what these add, and that the rows of a report are those that
   SavingsLedger promises to keep.
