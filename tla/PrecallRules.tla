----------------------------- MODULE PrecallRules -----------------------------
(***************************************************************************)
(* The rules of packages/core/src/tool-precall.ts and ctxliteignore.ts:    *)
(* how the command of a shell call gets its quiet flags, and which paths   *)
(* are not read at all.                                                    *)
(*                                                                         *)
(* A command is a sequence of lexemes: words, operators, line ends, here-  *)
(* documents, and the marks that quote, escape, group or begin a comment.  *)
(* Of a word the rules see the runs of letters that stand between word     *)
(* boundaries ("jest.config.js" has three, "--watch" has an empty one      *)
(* first), and which of the flags they look for its text contains          *)
(* ("--silent" contains -s).  The operators are those the code knows;      *)
(* redirections such as 2>&1 are words.  What a lexeme is to the eye is    *)
(* not always what the code, or a shell, takes it for.                     *)
(***************************************************************************)
EXTENDS Naturals, Sequences, SequencesExt

\* is: what it looks like; kind: what it is taken for.
Lexeme(is, names, flags) == [is |-> is, kind |-> is, names |-> names, flags |-> flags]
Word(names) == Lexeme("word", names, {})
Option(names, flags) == Lexeme("word", <<"">> \o names, flags)
Mark(is) == Lexeme(is, <<"">>, {})
DoubleQuote == Mark("double")
SingleQuote == Mark("single")
Backslash == Mark("backslash")             \* escapes the lexeme behind it
Parenthesis == Mark("group")               \* ( ) and $(
Hash == Mark("hash")                       \* # where a word begins
HereDocument == Mark("heredoc")
Operator == Mark("operator")               \* && || ; | &
LineEnd == Mark("line end")

-----------------------------------------------------------------------------
(* stripEmbeddedText: the text of here-documents, of double-quoted and     *)
(* then of single-quoted strings is blanked, by patterns that know nothing *)
(* else of a shell.                                                        *)

Raw(command) == [i \in DOMAIN command |-> [command[i] EXCEPT !.kind = command[i].is]]

Escaped(command, i) == i > 1 /\ command[i - 1].kind = "backslash"

\* Whether a string is open behind the i-th lexeme, if one is behind those
\* before it that are in open.  Any mark opens one, a backslash only keeps a
\* mark from closing it.
Opens(command, mark, open, i) ==
    IF command[i].kind = mark THEN i - 1 \notin open \/ Escaped(command, i) ELSE i - 1 \in open

OpenBehind(command, mark) ==
    FoldLeftDomain(LAMBDA open, i :
        IF Opens(command, mark, open, i) THEN open \cup {i} ELSE open, {}, command)

\* The lexemes of the strings between these marks become blanks.  A mark that
\* nothing closes opens no string.
Blanked(command, mark) ==
    LET open == OpenBehind(command, mark) IN
    [i \in DOMAIN command |->
        IF /\ {i - 1, i} \cap open # {}
           /\ \E j \in DOMAIN command : i <= j /\ j \notin open
        THEN [command[i] EXCEPT !.kind = "quoted"] ELSE command[i]]

\* The command as the code takes it.
Scanned(command) == Blanked(Blanked(Raw(command), "double"), "single")

-----------------------------------------------------------------------------
(* matchQuietPattern.                                                      *)

\* The flags the rules append.
QuietFlag ==
    [silent |-> Option(<<"silent">>, {"--silent", "-s"}),
     warn |-> Option(<<"loglevel", "warn">>, {"--loglevel"}),
     dots |-> Option(<<"reporter", "dot">>, {"--reporter", "--reporter=dot"}),
     quiet |-> Option(<<"quiet">>, {"--quiet", "-q"}),
     verbosity |-> Option(<<"verbosity", "quiet">>, {"--verbosity", "-v"}),
     q |-> Option(<<"q">>, {"-q"}),
     s |-> Option(<<"s">>, {"-s"}),
     logLevel |-> Option(<<"logLevel", "warn">>, {"--logLevel"}),
     tail |-> Option(<<"tail", "80">>, {"--tail"}),
     sS |-> Option(<<"sS">>, {"-s"})]

\* What follows a tool whose arguments are of no concern: a word that begins
\* with a letter (\w), or any word (\S).
Letter == "\\w"
Anything == "\\S"

\* A rule: the tools it is for, a name that keeps it off, the flags that do,
\* the flag it appends and the tokens that saves.  The first and last part of
\* a tool are names, a part in between is a word.  The extension of a wrapper
\* (mvnw.cmd) is not told from the wrapper's name.
Rule(label, tools, flags, flag, saves) ==
    [label |-> label, tools |-> tools, butNot |-> {}, flags |-> flags,
     flag |-> QuietFlag[flag], saves |-> saves]

Verbs(tool, verbs) == {<<tool, v>> : v \in verbs}
NpmRun(script) == {<<"npm", script>>, <<"npm", <<"run">>, script>>}

Rules == <<
    Rule("npm_test", NpmRun("test"), {"--silent", "--quiet", "--loglevel silent"}, "silent", 800),
    Rule("npm_build", NpmRun("build"), {"--loglevel", "--silent"}, "warn", 400),
    Rule("npm_test", Verbs("pnpm", {"test"}), {"--reporter=dot", "--silent"}, "dots", 800),
    Rule("npm_test", Verbs("yarn", {"test"}), {"--silent"}, "silent", 800),
    Rule("cargo_test", Verbs("cargo", {"test"}), {"--quiet", "-q"}, "quiet", 600),
    Rule("cargo_build", Verbs("cargo", {"build", "run", "check", "bench"}),
         {"--quiet", "-q"}, "quiet", 400),
    Rule("dotnet", Verbs("dotnet", {"build", "test", "restore", "publish"}),
         {"--verbosity", "-v"}, "verbosity", 500),
    Rule("pytest", {<<"pytest">>}, {"-q", "--quiet", "-v"}, "q", 500),
    Rule("pytest", {<<"python", <<"", "m">>, "pytest">>}, {"-q", "--quiet"}, "q", 500),
    Rule("npm_install", Verbs("npm", {"install", "ci"}), {"--loglevel", "--silent"}, "warn", 300),
    Rule("pip_install", Verbs("pip", {"install"}) \cup Verbs("pip3", {"install"}),
         {"-q", "--quiet", "-v"}, "q", 300),
    Rule("composer_install", Verbs("composer", {"install", "update"}), {"--quiet", "-v"}, "quiet", 300),
    Rule("bundle_install", Verbs("bundle", {"install"}), {"--quiet", "-v"}, "quiet", 300),
    Rule("maven", {<<"mvn", Anything>>, <<"mvnw", Anything>>},
         {"-q", "--quiet", "-X", "--debug", "-v"}, "q", 500),
    Rule("gradle", {<<"gradle", Anything>>, <<"gradlew", Anything>>},
         {"-q", "--quiet", "--debug", "-v"}, "q", 500),
    Rule("make", {<<"make", Letter>>}, {"-s", "--silent"}, "s", 300),
    Rule("vite_build", Verbs("vite", {"build"}), {"--logLevel", "--debug"}, "logLevel", 400),
    Rule("docker_logs", {<<"docker", "logs">>, <<"docker", <<"compose">>, "logs">>},
         {"--tail", "-n"}, "tail", 700),
    Rule("curl", {<<"curl">>}, {"-s", "--silent", "-S"}, "sS", 200),
    [Rule("vitest_run", {<<"vitest">>}, {"--reporter", "-r "}, "dots", 600)
        EXCEPT !.butNot = {"watch"}],
    Rule("jest_test", {<<"jest">>}, {"--silent"}, "silent", 600),
    Rule("eslint_lint", {<<"eslint">>}, {"--quiet"}, "quiet", 400)
>>

\* What the patterns see: all that is not blanked, and a line end is as good as
\* a blank.
Skeleton(segment) ==
    SelectSeq(segment, LAMBDA x : x.kind \notin {"quoted", "heredoc", "line end"})

BeginsWith(word, part) ==
    \/ part = Anything
    \/ part = Letter /\ word.names[1] # ""
    \/ word.names[1] = part

\* The words name the tool: one name wherever it stands, of several parts the
\* first ends a word and the last begins one.
Names(words, tool) ==
    \E i \in 0 .. Len(words) - Len(tool) :
        IF Len(tool) = 1 THEN tool[1] \in ToSet(words[i + 1].names)
        ELSE /\ Last(words[i + 1].names) = tool[1]
             /\ \A k \in 2 .. Len(tool) - 1 : words[i + k].names = tool[k]
             /\ BeginsWith(words[i + Len(tool)], tool[Len(tool)])

\* hasFlag looks at the text with its quoted strings.
HasFlag(segment, flags) == \E i \in DOMAIN segment : segment[i].flags \cap flags # {}

\* Mutant of Applies: a flag that is there already is not noticed.
AppliesAgain(r, segment) == \E tool \in Rules[r].tools : Names(Skeleton(segment), tool)

\* Mutant of Applies: the patterns see what is quoted.
AppliesToQuoted(r, segment) ==
    /\ \E tool \in Rules[r].tools : Names(Skeleton(Raw(segment)), tool)
    /\ ~ HasFlag(segment, Rules[r].flags)

Applies(r, segment) ==
    LET words == Skeleton(segment) IN
    /\ \E tool \in Rules[r].tools : Names(words, tool)
    /\ \A i \in DOMAIN words : ToSet(words[i].names) \cap Rules[r].butNot = {}
    /\ ~ HasFlag(segment, Rules[r].flags)

Applicable(segment) == {r \in DOMAIN Rules : Applies(r, segment)}

\* The rules are an else-if chain: the first that applies.
FirstRule(segment) == Min(Applicable(segment))

-----------------------------------------------------------------------------
(* optimizeBashCommand.                                                    *)

\* The command is read from the left: its parts end at the lexemes of these
\* kinds, the last one with the command.
Ends(command, kinds) ==
    LET found == FoldLeftDomain(LAMBDA ends, i :
                     IF command[i].kind \in kinds THEN Append(ends, i) ELSE ends, <<>>, command)
    IN  Append(found, Len(command) + 1)

Parts(command, kinds) ==
    LET ends == Ends(command, kinds)
    IN  [k \in DOMAIN ends |->
            SubSeq(command, IF k = 1 THEN 1 ELSE ends[k - 1] + 1, ends[k] - 1)]

\* splitTopLevel: any operator that is not blanked ends a segment.
Segments(command) == Parts(command, {"operator"})

\* appendFlag: behind the last lexeme, without the line ends that follow it.
\* The text never ends with the flag already, which hasFlag would have seen.
AppendFlag(segment, flag) ==
    LET last == SelectLastInSeq(segment, LAMBDA x : x.kind # "line end")
    IN  SubSeq(segment, 1, last) \o <<flag>>

Quietened(segment) ==
    IF Applicable(segment) = {} THEN segment
    ELSE AppendFlag(segment, Rules[FirstRule(segment)].flag)

\* Mutant of Rewritten: the flag of the first rule goes to the end of all.
RewrittenAtTheEnd(command) ==
    LET segments == Segments(command)
        hit == {k \in DOMAIN segments : Applicable(segments[k]) # {}}
    IN  IF hit = {} THEN command
        ELSE AppendFlag(command, Rules[FirstRule(segments[Min(hit)])].flag)

\* These parts, each with the lexeme behind it at which it ends.
Rejoined(command, ends, parts) ==
    FoldLeftDomain(LAMBDA rebuilt, k :
        rebuilt \o parts[k] \o (IF k < Len(ends) THEN <<command[ends[k]]>> ELSE <<>>), <<>>, ends)

\* The command is rebuilt segment by segment.
Rebuilt(command) ==
    LET segments == Segments(command)
    IN  Rejoined(command, Ends(command, {"operator"}),
                 [k \in DOMAIN segments |-> Quietened(segments[k])])

\* And is scanned anew when it comes again.
Rewritten(command) == Scanned(Rebuilt(command))

\* The rules that a command meets, by segment, and what they save.
Fired(command) ==
    LET segments == Segments(command)
        hit == {k \in DOMAIN segments : Applicable(segments[k]) # {}}
    IN  {<<k, FirstRule(segments[k])>> : k \in hit}

SavedBy(command) == FoldSet(LAMBDA f, n : n + Rules[f[2]].saves, 0, Fired(command))

-----------------------------------------------------------------------------
(* optimizeReadPath without its threshold of size, and ctxliteignore.ts.   *)
(* A path is the sequence of its names, the first one empty if it is       *)
(* absolute.  A part of a pattern is the set of the names it fits, and the *)
(* empty set stands for a double star.  Double stars inside of a name are  *)
(* left out.                                                               *)

DoubleStar == {}
IgnorePattern(parts, directoryOnly) == [parts |-> parts, directoryOnly |-> directoryOnly]

\* globBodyToRegexSource: a double star fits any number of names, none too.
Fits(parts, path) ==
    \E part \in [DOMAIN path -> DOMAIN parts] :
        /\ \A i, j \in DOMAIN path : i < j => part[i] <= part[j]
        /\ \A i \in DOMAIN path :
            parts[part[i]] # DoubleStar => path[i] \in parts[part[i]]
        /\ \A k \in DOMAIN parts :
            parts[k] # DoubleStar => \E i \in DOMAIN path :
                part[i] = k /\ \A j \in DOMAIN path : part[j] = k => j = i

\* compilePattern: the pattern starts at any name.  That of a directory fits
\* what lies in it, at any depth, any other the path to its end.
Ignores(pattern, path) ==
    \E from \in DOMAIN path, to \in DOMAIN path :
        /\ from <= to
        /\ IF pattern.directoryOnly THEN to < Len(path) ELSE to = Len(path)
        /\ Fits(pattern.parts, SubSeq(path, from, to))

IsIgnored(path, patterns) == \E pattern \in patterns : Ignores(pattern, path)

\* BLOCKED_READ_PATTERNS.  A name ending in node_modules or .git is not told
\* from these, nor is a name ending in that of a lock file.
BuiltIn(path) ==
    \/ \E i \in 1 .. Len(path) - 1 :
        \/ path[i] \in {"node_modules", ".git"}
        \/ path[i] \in {"dist", "build"} /\ i > 1
    \/ Last(path) \in {"package-lock.json", "yarn.lock", "pnpm-lock.yaml", "any.min.js"}

LowSignalSaving == 2000
LowSignal(path, patterns) == BuiltIn(path) \/ IsIgnored(path, patterns)

=============================================================================
