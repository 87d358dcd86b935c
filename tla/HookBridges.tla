------------------------------ MODULE HookBridges ------------------------------
(***************************************************************************)
(* The hook bridges of the command line: packages/cli/src/hook.ts for      *)
(* Claude Code and cursor-hook.ts for Cursor.  The host spawns a process   *)
(* before and, Claude Code only, after a tool call, hands it the call and  *)
(* reads the answer from its output.  A bridge keeps nothing between two   *)
(* calls, so one call after the other is enough; it may be killed at any   *)
(* point, and what it was given may be unreadable.  The agent may run a    *)
(* command again in the form it got.                                       *)
(*                                                                         *)
(* The store may drop a row (StatsStore); the ids of these rows are        *)
(* random, so each is a new one.  A host that gets no answer goes on with  *)
(* the call as it was.                                                     *)
(***************************************************************************)
EXTENDS PrecallRules, FiniteSets

CONSTANTS Lexemes,      \* the lexemes that commands are made of
          Commands,     \* shell commands of an agent, scanned
          Paths,        \* paths it reads
          IgnoreFiles,  \* sets of patterns that .ctxliteignore may hold
          Savings,      \* what compressing an output may save
          MaxCalls,     \* bound: tool calls
          MaxFresh      \* bound: those that repeat no earlier one

ASSUME BridgesAssumption ==
    /\ Commands \subseteq Seq(Lexemes)
    /\ \A command \in Commands : Scanned(command) = command
    /\ Savings \subseteq Nat \ {0}
    /\ MaxCalls \in Nat /\ MaxFresh \in Nat

Host == {"claude-code", "cursor"}
ReadingTools == {"read", "glob"}
Stages == {"before", "log before", "answer before", "run", "after", "log after",
           "answer after", "over"}
Verdicts == {"pass", "modify", "block"}

VARIABLES
    calls,   \* the tool calls so far, the last one in progress
    ledger,  \* rows of stats.db: call, source and tokens
    ignore   \* the patterns of .ctxliteignore

vars == <<calls, ledger, ignore>>

\* of: the first call of a command that was run again as it came out;
\* ran: the argument the tool runs with; kept: whether the rows were taken;
\* killed: whether a bridge of the call was.
NewCall(host, tool, arg, of) ==
    [host |-> host, tool |-> tool, arg |-> arg, of |-> of, ran |-> arg, stage |-> "before",
     verdict |-> "pass", saved |-> 0, compressed |-> 0, kept |-> TRUE, killed |-> FALSE]

Init ==
    /\ calls = <<>>
    /\ ledger = {}
    /\ ignore \in IgnoreFiles

n == Len(calls)
At(stage) == calls # <<>> /\ calls[n].stage = stage
Idle == calls = <<>> \/ At("over")

\* The call in progress gets these values.
Becomes(call) == calls' = [calls EXCEPT ![n] = call]

-----------------------------------------------------------------------------

Start(host, tool, arg, of) ==
    /\ Idle
    /\ n < MaxCalls
    /\ of > n => Cardinality({m \in DOMAIN calls : calls[m].of = m}) < MaxFresh
    /\ calls' = Append(calls, NewCall(host, tool, arg, of))
    /\ UNCHANGED <<ledger, ignore>>

\* The command of the last call, as the tool ran it.
StartAgain ==
    /\ calls # <<>> /\ calls[n].tool = "bash"
    /\ Start(calls[n].host, "bash", calls[n].ran, calls[n].of)

\* optimizeToolArgs for a host that asks for no threshold of size.
Modifies(call) == call.tool = "bash" /\ Fired(call.arg) # {}
Blocks(call) == call.tool \in ReadingTools /\ LowSignal(call.arg, ignore)

\* Nothing to do: the bridge prints nothing.
BeforePass ==
    /\ At("before")
    /\ ~ Modifies(calls[n]) /\ ~ Blocks(calls[n])
    /\ Becomes([calls[n] EXCEPT !.stage = "run"])
    /\ UNCHANGED <<ledger, ignore>>

\* Mutant of BeforeModify: a changed command is not logged, as in the plugin,
\* where the hook after the call does it.
BeforeModifyUnlogged ==
    /\ At("before") /\ Modifies(calls[n])
    /\ Becomes([calls[n] EXCEPT !.stage = "answer before", !.verdict = "modify",
                                !.saved = SavedBy(calls[n].arg)])
    /\ UNCHANGED <<ledger, ignore>>

BeforeModify ==
    /\ At("before") /\ Modifies(calls[n])
    /\ Becomes([calls[n] EXCEPT !.stage = "log before", !.verdict = "modify",
                                !.saved = SavedBy(calls[n].arg)])
    /\ UNCHANGED <<ledger, ignore>>

BeforeBlock ==
    /\ At("before") /\ Blocks(calls[n])
    /\ Becomes([calls[n] EXCEPT !.stage = "log before", !.verdict = "block",
                                !.saved = LowSignalSaving])
    /\ UNCHANGED <<ledger, ignore>>

\* logOptimizationSavings: the store takes the row or drops it.
Log(source, tokens, next) ==
    \/ /\ ledger' = ledger \cup {[call |-> n, source |-> source, tokens |-> tokens]}
       /\ Becomes([calls[n] EXCEPT !.stage = next])
    \/ /\ Becomes([calls[n] EXCEPT !.stage = next, !.kept = FALSE])
       /\ UNCHANGED ledger

LogBefore ==
    /\ At("log before")
    /\ Log("precall", calls[n].saved, "answer before")
    /\ UNCHANGED ignore

\* Mutant of AnswerBefore: a call that is blocked runs all the same.
AnswerBeforeRuns ==
    /\ At("answer before")
    /\ Becomes([calls[n] EXCEPT !.stage = "run",
                    !.ran = IF calls[n].tool = "bash" THEN Rewritten(@) ELSE @])
    /\ UNCHANGED <<ledger, ignore>>

\* The answer is printed: the call is denied, or gets the new command.
AnswerBefore ==
    /\ At("answer before")
    /\ Becomes(IF calls[n].verdict = "block" THEN [calls[n] EXCEPT !.stage = "over"]
               ELSE [calls[n] EXCEPT !.stage = "run", !.ran = Rewritten(@)])
    /\ UNCHANGED <<ledger, ignore>>

\* The bridge is killed, or cannot read what it was given: no answer.
NoAnswerBefore ==
    /\ At("before") \/ At("log before") \/ At("answer before")
    /\ Becomes([calls[n] EXCEPT !.stage = "run", !.killed = TRUE])
    /\ UNCHANGED <<ledger, ignore>>

\* The tool has run.  Cursor has no hook that could replace its output.
ToolEnds ==
    /\ At("run")
    /\ Becomes([calls[n] EXCEPT !.stage = IF calls[n].host = "cursor" THEN "over" ELSE "after"])
    /\ UNCHANGED <<ledger, ignore>>

\* No text in the output, or it is short enough.
AfterPass ==
    /\ At("after")
    /\ Becomes([calls[n] EXCEPT !.stage = "over"])
    /\ UNCHANGED <<ledger, ignore>>

AfterCompress(saved) ==
    /\ At("after")
    /\ Becomes([calls[n] EXCEPT !.stage = "log after", !.compressed = saved])
    /\ UNCHANGED <<ledger, ignore>>

LogAfter ==
    /\ At("log after")
    /\ Log("compress", calls[n].compressed, "answer after")
    /\ UNCHANGED ignore

AnswerAfter ==
    /\ At("answer after")
    /\ Becomes([calls[n] EXCEPT !.stage = "over"])
    /\ UNCHANGED <<ledger, ignore>>

NoAnswerAfter ==
    /\ At("log after") \/ At("answer after")
    /\ Becomes([calls[n] EXCEPT !.stage = "over", !.killed = TRUE])
    /\ UNCHANGED <<ledger, ignore>>

\* The user saves .ctxliteignore, which is read at every call.
EditIgnoreFile(patterns) ==
    /\ ignore' = patterns
    /\ UNCHANGED <<calls, ledger>>

Next ==
    \/ \E host \in Host :
        \/ \E command \in Commands : Start(host, "bash", command, n + 1)
        \/ \E tool \in ReadingTools, path \in Paths : Start(host, tool, path, n + 1)
    \/ StartAgain
    \/ BeforePass \/ BeforeModify \/ BeforeBlock
    \/ LogBefore \/ AnswerBefore \/ NoAnswerBefore
    \/ ToolEnds
    \/ AfterPass \/ \E saved \in Savings : AfterCompress(saved)
    \/ LogAfter \/ AnswerAfter \/ NoAnswerAfter
    \/ \E patterns \in IgnoreFiles : EditIgnoreFile(patterns)

Spec == Init /\ [][Next]_vars

-----------------------------------------------------------------------------
(* Properties.                                                             *)

\* The type invariant.  Only Claude Code has its outputs shortened.
TypeOK ==
    /\ \A m \in DOMAIN calls :
        /\ calls[m].host \in Host
        /\ calls[m].tool \in ReadingTools \cup {"bash"}
        /\ calls[m].of \in 1 .. m
        /\ calls[m].stage \in Stages
        /\ calls[m].verdict \in Verdicts
        /\ calls[m].saved \in Nat /\ calls[m].compressed \in Savings \cup {0}
        /\ calls[m].kept \in BOOLEAN /\ calls[m].killed \in BOOLEAN
        /\ calls[m].compressed # 0 => calls[m].host = "claude-code"
    /\ ledger \subseteq [call : DOMAIN calls, source : {"precall", "compress"}, tokens : Nat]
    /\ ignore \in IgnoreFiles

\* How a shell reads on: outside of all, in a string or in a comment.  What is
\* escaped opens nothing, and closes no double-quoted string.
Turn(mode, x, escaped) ==
    CASE mode = "outside" /\ x.is \in {"double", "single", "hash"} /\ ~ escaped -> x.is
      [] mode = "double" /\ x.is = "double" /\ ~ escaped -> "outside"
      [] mode = "single" /\ x.is = "single" -> "outside"
      [] mode = "hash" /\ x.is = "line end" -> "outside"
      [] OTHER -> mode

\* What it takes a lexeme for that it reads between these modes.
Taken(before, behind, x, escaped) ==
    CASE {before, behind} \cap {"double", "single"} # {} -> "quoted"
      [] behind = "hash" -> "comment"
      [] before = "outside" /\ behind = "outside" /\ escaped -> "word"
      [] OTHER -> x.is

\* The command as a shell takes it.
ShellRead(command) ==
    LET raw == Raw(command)
        modes == FoldLeftDomain(LAMBDA m, i : Append(m, Turn(Last(m), raw[i], Escaped(raw, i))),
                                <<"outside">>, raw)
    IN  [i \in DOMAIN raw |->
            [raw[i] EXCEPT !.kind = Taken(modes[i], modes[i + 1], raw[i], Escaped(raw, i))]]

\* What ends a simple command, and what nothing may follow on its line.
Separators == {"operator", "group", "line end"}
Closing == {"heredoc", "comment", "backslash"}

\* A simple command as it was, or with the flag of a tool that it names.
Fitting(part) ==
    {part} \cup
    {Append(part, Rules[r].flag) : r \in {r \in DOMAIN Rules :
        /\ \E tool \in Rules[r].tools : Names(Skeleton(part), tool)
        /\ \A i \in DOMAIN part : part[i].kind \in Closing => i < Len(part)}}

\* The text is the old one with such flags behind the simple commands of a shell.
FlagsFit(old, new) ==
    LET read == ShellRead(old)
        ends == Ends(read, Separators)
        parts == Parts(read, Separators)
    IN  \E after \in [DOMAIN parts -> UNION {Fitting(parts[k]) : k \in DOMAIN parts}] :
            /\ \A k \in DOMAIN parts : after[k] \in Fitting(parts[k])
            /\ Raw(new) = Raw(Rejoined(read, ends, after))

\* The scanner takes all for what it is, in a command of one line without groups
\* and comments, where no backslash stands before an operator or at the end.
ReadAlike(command) ==
    /\ ShellRead(command) = command
    /\ \A i \in DOMAIN command :
        /\ command[i].kind \notin {"group", "line end", "heredoc", "comment"}
        /\ command[i].kind = "backslash" =>
            i < Len(command) /\ command[i + 1].kind # "operator"

\* Where the scanner takes the strings, the escapes and the operators of a
\* command of one line for what they are to a shell, each flag lands on the
\* simple command that names its tool outside of quotes, and all else stays as
\* it was (tool-precall.ts:74-127, 244-275).
FlagsStayWithTheirTool ==
    /\ At("run") /\ calls[n].tool = "bash"
    /\ ReadAlike(calls[n].arg) /\ calls[n].ran # calls[n].arg
    => FlagsFit(calls[n].arg, calls[n].ran)

\* The comment at tool-precall.ts:68-71, of any command: "a missed optimization
\* is harmless, a wrongly-placed flag isn't".
NoFlagIsMisplaced ==
    At("run") /\ calls[n].tool = "bash" /\ calls[n].ran # calls[n].arg
    => FlagsFit(calls[n].arg, calls[n].ran)

\* A command that is run again as it came out meets no rule a second time, so
\* that rewriting comes to rest and a saving is not booked again and again
\* for the same command (hasFlag, tool-precall.ts:40-42, and every rule).
RulesFireOnce ==
    \A l, m \in DOMAIN calls :
        /\ l < m /\ calls[l].of = calls[m].of
        /\ calls[l].tool = "bash" /\ calls[l].ran # calls[l].arg
        => Fired(calls[l].arg) \cap Fired(calls[m].arg) = {}

\* A call has at most one row of each source, which holds what that hook saved.
RowsAreOfTheirCall ==
    /\ \A row, other \in ledger :
        other.call = row.call /\ other.source = row.source => other = row
    /\ \A row \in ledger :
        row.tokens = IF row.source = "compress" THEN calls[row.call].compressed
                     ELSE calls[row.call].saved

\* What a row before a call says was done: the command ran with its flags, or
\* the read was denied.
RowsAreTrue ==
    \A row \in ledger : row.source = "precall" =>
        LET call == calls[row.call] IN
        \/ call.killed \/ call.stage = "answer before"
        \/ call.verdict = "block" /\ call.stage = "over"
        \/ call.verdict = "modify" /\ call.ran # call.arg

\* A saving is booked once for each hook, with its own tokens, and for what was
\* done: the command ran with its flags, or the read was denied.  Only a bridge
\* that is killed between the row and the answer books for nothing
\* (hook.ts:78-118, cursor-hook.ts:48-79).
RowsAreEarned == RowsAreOfTheirCall /\ RowsAreTrue

\* Whether the bridge before a call should have written a row by now.
Owes(call) ==
    call.verdict # "pass" /\ call.kept /\ ~ call.killed /\ call.stage # "log before"

\* What was denied or changed is booked, unless the store dropped a row or a
\* bridge of the call was killed (hook.ts:78-118, cursor-hook.ts:48-79).
AnswersAreBooked ==
    \A m \in DOMAIN calls : Owes(calls[m]) =>
        \E row \in ledger : row.call = m /\ row.source = "precall"

=============================================================================
