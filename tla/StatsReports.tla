----------------------------- MODULE StatsReports -----------------------------
(***************************************************************************)
(* Reading the savings: the summaries and the session breakdown of         *)
(* packages/core/src/stats.ts, what report.ts makes of them, and the       *)
(* surfaces that show them: "ctxlite stats" (packages/cli/src/             *)
(* stats-command.ts, format.ts), get_stats of the MCP server and of the    *)
(* OpenCode plugin (tools.ts) and its sidebar (tui.tsx,                    *)
(* session-display.ts).                                                    *)
(*                                                                         *)
(* A summary is three statements outside of any transaction, and a         *)
(* detailed breakdown three more for each session: rows that other         *)
(* processes log in between are seen by the later ones only.  Nothing      *)
(* outside of the tests deletes rows, so what a statement saw is given by  *)
(* how many rows there were.                                               *)
(***************************************************************************)
EXTENDS Selections

CONSTANTS OtherRows,    \* rows that other processes log
          CommandLines, \* words behind "ctxlite"
          Baseline,     \* turns before a percentage is shown: 10
          MaxOthers,    \* bound: rows logged by other processes
          MaxReports,   \* bound: reports
          None,         \* no filter; for a row: NULL
          NoReport

VARIABLES
    rows,    \* the rows of the requests table, oldest first
    others,  \* those of other processes
    report,  \* the report being read
    reports  \* reports so far

reportVars == <<rows, others, report, reports>>

\* The sources with a line of their own in a report, in its order; an older
\* ctxlite logged other ones.
Sources == <<"precall", "compress", "prune", "compact", "smart_read", "diff_read",
             "log_summary", "code_search", "trim", "concise">>
KnownSources == Range(Sources) \cup {"cache", "session"}
HostOrder == <<"claude-code", "cursor", "mcp", "opencode">>
Hosts == Range(HostOrder)

\* What is logged; a turn saves nothing (logSessionUsage, stats.ts 519-548).
IsRow(r) ==
    /\ r \in [source : STRING, saved : Nat, used : Nat, out : Nat, trimmed : BOOLEAN,
              host : Hosts \cup {None}, session : {r.session}, old : BOOLEAN]
    /\ r.source = "session" => r.saved = 0

ASSUME ReportsAssumption ==
    /\ \A r \in OtherRows : IsRow(r)
    /\ Baseline \in Nat /\ MaxOthers \in Nat /\ MaxReports \in Nat

\* A row of the current version, of this period.
Row(source, saved, host, session) ==
    [source |-> source, saved |-> saved, used |-> 0, out |-> 0, trimmed |-> source = "trim",
     host |-> host, session |-> session, old |-> FALSE]

-----------------------------------------------------------------------------
(* stats.ts                                                                *)

\* The places of the rows that a statement with this filter saw when there
\* were n.
Seen(n, f) ==
    {i \in 1 .. n : /\ f.recent => ~ rows[i].old
                    /\ f.host # None => rows[i].host = f.host
                    /\ f.session # None => rows[i].session = f.session}

Of(at, S) == {i \in at : rows[i].source \in S}
Saved(at) == SumFunctionOnSet([i \in DOMAIN rows |-> rows[i].saved], at)
\* Mutant of Legacy: every trimmed row is one of an older version.
LegacyOfAll(at) == {i \in at : rows[i].trimmed}
Legacy(at) == {i \in at : rows[i].source \notin KnownSources /\ rows[i].trimmed}

\* summaryWithFilter: the first statement counts and adds up all rows but the
\* turns, the second the trimmed rows of older versions, the third the turns.
\* What trimming saved is no part of the ratio.
Summary(totals, legacy, session) ==
    LET saved == Saved(totals \ Of(totals, {"session"}))
        trim == Saved(Of(totals, {"trim"})) + Saved(Legacy(legacy))
        concise == Saved(Of(totals, {"concise"}))
        input == saved - trim - concise
        turns == Of(session, {"session"})
        inputUsed == SumFunctionOnSet([i \in DOMAIN rows |-> rows[i].used], turns)
        outputUsed == SumFunctionOnSet([i \in DOMAIN rows |-> rows[i].out], turns)
    IN  [total |-> Cardinality(totals \ Of(totals, {"session"})), saved |-> saved,
         by |-> [k \in DOMAIN Sources |-> IF Sources[k] = "trim" THEN trim
                                          ELSE Saved(Of(totals, {Sources[k]}))],
         count |-> [k \in DOMAIN Sources |->
                        Cardinality(Of(totals, {Sources[k]}))
                        + (IF Sources[k] = "trim" THEN Cardinality(Legacy(legacy)) ELSE 0)],
         realtime |-> input + concise, turns |-> Cardinality(turns),
         traffic |-> inputUsed + outputUsed,
         before |-> input + inputUsed + concise + outputUsed]

\* sessionBreakdown: the sessions seen, by host, the latest first.
SessionsOf(at) == {<<rows[i].host, rows[i].session>> : i \in at}
Named(at) == {i \in at : rows[i].host # None /\ rows[i].session # None}
\* Mutant of SessionRows: sessions of two hosts with one name are one.
SessionRowsByName(at) ==
    LET names == SetToSeq({rows[i].session : i \in Named(at)})
        of(s) == {i \in Named(at) : rows[i].session = s}
    IN  [k \in DOMAIN names |->
            [host |-> rows[Max(of(names[k]))].host, session |-> names[k],
             total |-> Cardinality(of(names[k])), saved |-> Saved(of(names[k]))]]
SessionRows(at) ==
    LET of(s) == {i \in Named(at) : <<rows[i].host, rows[i].session>> = s}
        place(h) == CHOOSE i \in DOMAIN HostOrder : HostOrder[i] = h
        before(s, t) == \/ place(s[1]) < place(t[1])
                        \/ s[1] = t[1] /\ Max(of(s)) >= Max(of(t))
        sessions == Sorted(SessionsOf(Named(at)), before)
    IN  [k \in DOMAIN sessions |->
            [host |-> sessions[k][1], session |-> sessions[k][2],
             total |-> Cardinality(of(sessions[k])), saved |-> Saved(of(sessions[k]))]]

-----------------------------------------------------------------------------
(* report.ts                                                               *)

\* formatSavingsLine: without any turn there is nothing to compare with, and
\* before the baseline no percentage is shown.
SavingsLine(s) ==
    IF s.traffic = 0 /\ s.turns = 0 THEN [kind |-> "no baseline",
                                          saved |-> IF s.realtime # 0 THEN s.realtime ELSE s.saved]
    ELSE IF s.turns < Baseline THEN [kind |-> "turns", saved |-> s.realtime]
    ELSE [kind |-> "percent", saved |-> s.realtime, of |-> s.before]

\* renderStatsBarChart: bars of twenty characters at most, rounded.
Bars(s) ==
    LET most == Max({1} \cup Range(s.by))
    IN  [k \in DOMAIN s.by |-> (2 * 20 * s.by[k] + most) \div (2 * most)]

\* What every surface shows of a summary; the sidebar of a session shows
\* nothing as long as nothing is saved.
Shown(s, surface) ==
    IF s.total = 0 \/ (surface = "sidebar" /\ s.saved <= 0)
    THEN [kind |-> "nothing yet"]
    ELSE [kind |-> "report", line |-> SavingsLine(s), bars |-> Bars(s), by |-> s.by,
          count |-> s.count]

\* renderSessionBreakdown: a line for the host where it changes.
HostLines(entries) ==
    {k \in DOMAIN entries : k = 1 \/ entries[k].host # entries[k - 1].host}

-----------------------------------------------------------------------------
(* stats-command.ts                                                        *)

NoArgs == [subcommand |-> "", last |-> "all", export |-> "text", host |-> None,
           bySession |-> FALSE, compact |-> FALSE, help |-> FALSE, value |-> ""]
Flags == {"--last", "--export", "--db", "--by-session", "--compact", "--help", "--other"}

\* parseArgs, a word at a time: "value" is the flag that waits for its value.
\* Once the subcommand is another one than stats its words are its own.
ParseWord(args, word) ==
    CASE args.value = "--last" -> [args EXCEPT !.last = word, !.value = ""]
      [] args.value = "--export" -> [args EXCEPT !.export = word, !.value = ""]
      [] args.value = "--db" -> [args EXCEPT !.value = ""]
      [] args.value = "" /\ args.subcommand = "" /\ word \notin Flags ->
            [args EXCEPT !.subcommand = word]
      [] args.value = "" /\ args.subcommand \notin {"", "stats"} -> args
      [] args.value = "" /\ args.subcommand = "stats" /\ word \notin Flags ->
            [args EXCEPT !.host = word]
      [] args.value = "" /\ args.subcommand \in {"", "stats"} /\ word \in Flags ->
            CASE word \in {"--last", "--export", "--db"} -> [args EXCEPT !.value = word]
              [] word = "--by-session" -> [args EXCEPT !.bySession = TRUE]
              [] word = "--compact" -> [args EXCEPT !.compact = TRUE]
              [] word = "--help" -> [args EXCEPT !.help = TRUE]
              [] OTHER -> args
\* A flag at the very end takes its default value.
ParseArgs(words) ==
    LET args == FoldLeft(ParseWord, NoArgs, words)
    IN  CASE args.value = "--last" -> [args EXCEPT !.last = "today"]
          [] args.value = "--export" -> [args EXCEPT !.export = "text"]
          [] OTHER -> args

Valid(args) ==
    /\ args.subcommand = "stats" /\ ~ args.help
    /\ args.last \in {"session", "today", "7d", "30d", "all"}
    /\ args.export \in {"text", "json"}
    /\ args.host \in Hosts \cup {None}

Filter(host, session, recent) == [host |-> host, session |-> session, recent |-> recent]

-----------------------------------------------------------------------------

ReportsInit ==
    /\ rows \in {<<>>}
    /\ others = 0
    /\ report = NoReport
    /\ reports = 0

\* Another process, of this version or an older one, logs a row.
OtherLogs ==
    /\ others < MaxOthers
    /\ others' = others + 1
    /\ \E r \in OtherRows : rows' = Append(rows, r)
    /\ UNCHANGED <<report, reports>>

Begin(surface, filter, bySession, compact) ==
    /\ report = NoReport
    /\ reports < MaxReports
    /\ reports' = reports + 1
    /\ report' = [surface |-> surface, filter |-> filter, bySession |-> bySession,
                  compact |-> compact, seen |-> <<>>]
    /\ UNCHANGED <<rows, others>>

\* runStats; anything that is not valid ends with a message.
RunStats ==
    \E words \in CommandLines :
        LET args == ParseArgs(words) IN
        /\ Valid(args)
        /\ Begin("cli", Filter(args.host, None, args.last # "all"),
                 args.bySession, args.compact)

\* get_stats of a host: of the session, or of a period over all sessions.
GetStats(host, session) ==
    \/ Begin("get_stats", Filter(host, session, FALSE), FALSE, FALSE)
    \/ \E recent \in BOOLEAN :
          Begin("get_stats", Filter(None, None, recent), FALSE, FALSE)

Sidebar(session) == Begin("sidebar", Filter("opencode", session, FALSE), FALSE, FALSE)

\* The sessions of a breakdown, and the statements that it needs in all.
Listed == SessionRows(Seen(report.seen[1], report.filter))
Statements ==
    IF ~ report.bySession THEN 3
    ELSE IF report.seen = <<>> \/ report.compact THEN 1
    ELSE 1 + 3 * Len(Listed)

\* The next statement.
Query ==
    /\ report # NoReport
    /\ Len(report.seen) < Statements
    /\ report' = [report EXCEPT !.seen = Append(@, Len(rows))]
    /\ UNCHANGED <<rows, others, reports>>

Complete == report # NoReport /\ report.seen # <<>> /\ Len(report.seen) = Statements

\* A statement throws: "stats unavailable"; or the report was shown.
EndReport ==
    /\ report # NoReport
    /\ report' = NoReport
    /\ UNCHANGED <<rows, others, reports>>

\* The summary from the statements number k to k + 2.
ReadSummary(k, f) ==
    Summary(Seen(report.seen[k], f), Seen(report.seen[k + 1], f), Seen(report.seen[k + 2], f))
\* The sessions with their summaries, of all times.
Entries ==
    [k \in DOMAIN Listed |->
        [row |-> Listed[k],
         summary |-> ReadSummary(3 * k - 1, Filter(Listed[k].host, Listed[k].session, FALSE))]]

=============================================================================
