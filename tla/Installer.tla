------------------------------- MODULE Installer -------------------------------
(***************************************************************************)
(* "ctxlite install" (packages/core/src/install): it adds ctxlite's own    *)
(* entries to the settings files of the hosts, or removes them.  A run     *)
(* first reads every target file and plans, then goes through the targets  *)
(* again: read, merge, write.  A file is written by truncating it and then *)
(* writing it, so a run may end between any two steps, and runs of other   *)
(* processes and the user's own edits interleave with all of it.  The plan *)
(* that the command prints for confirmation is made anew by runInstall and *)
(* is left out.                                                            *)
(***************************************************************************)
EXTENDS Naturals, Sequences

CONSTANTS Process,     \* runs of the command, and others of the same user
          Target,      \* the kinds of the target files, in buildTargets' order
          Setting,     \* top-level settings of the user
          Shape,       \* what a user's settings files may hold, by kind,
          Edited,      \* ... and what he may save into them meanwhile
          Missing,     \* what a file may hold instead of settings: no file;
          Truncated,   \* an empty file;
          Typo,        \* the user's text, which is not JSON;
          Torn,        \* a mixture of the texts of two writers;
          Ours,        \* all of a file that ctxlite owns whole;
          Older,       \* the same of another version of ctxlite
          Removes,     \* whether "--remove" is in use
          MaxRuns,     \* bound: runs of one process
          MaxEdits,    \* bound: edits by the user
          MaxCrashes   \* bound: runs that end early

JsonKind == {"opencode", "opencode-tui", "mcp", "claude-code-hooks", "cursor-hooks"}
Kind == JsonKind \cup {"skill"}     \* "skill": any file that ctxlite owns whole

\* A settings file: whether it holds an object, whether $schema (or version)
\* is set ("empty": to an empty string), the user's other settings, and the lists ctxlite adds an entry to:
\* "first" is plugin, mcpServers or preToolUse, "second" is PostToolUse.  A
\* list that is no array (no object, for mcpServers) may be a value of the
\* user.  Of the entries, "stale" is an mcp entry of ours that differs, "odd"
\* one that has not the expected type, "mixed" a hook of the user's that also
\* calls ctxlite.
Entry == {"ours", "stale", "theirs", "odd", "mixed"}
List == {"first", "second"}
Config == [object : BOOLEAN, schema : {"absent", "empty", "set"}, rest : SUBSET Setting,
           lists : [List -> [array : BOOLEAN, entries : SUBSET Entry]]]

NotJson == {Typo, Truncated, Torn}
Content(kind) == IF kind = "skill" THEN {Missing, Truncated, Torn, Ours, Older}
                 ELSE {Missing, Typo, Truncated, Torn} \cup Config
UserContent(kind) == IF kind = "skill" THEN {Missing, Ours, Older}
                     ELSE {s[kind] : s \in Edited}

ASSUME InstallerAssumption ==
    /\ Target \in Seq(Kind)
    /\ Shape \subseteq [JsonKind -> {Missing, Typo} \cup Config]
    /\ Edited \subseteq Shape
    /\ Removes \in BOOLEAN
    /\ \A c \in {Missing, Truncated, Typo, Torn, Ours, Older} : c \notin Config
    /\ Missing \notin {Truncated, Typo, Torn, Ours, Older}
    /\ Truncated \notin {Typo, Torn, Ours, Older}
    /\ Typo \notin {Torn, Ours, Older}
    /\ Torn \notin {Ours, Older} /\ Ours # Older
    /\ MaxRuns \in Nat /\ MaxEdits \in Nat /\ MaxCrashes \in Nat

File == 1 .. Len(Target)

-----------------------------------------------------------------------------
(* merge.ts: what a merge or a removal makes of a settings file, and       *)
(* whether it counts as a change.                                          *)

NoList == [array |-> FALSE, entries |-> {}]
Empty == [object |-> TRUE, schema |-> "absent", rest |-> {}, lists |-> [l \in List |-> NoList]]
Base(c) == IF c.object THEN c ELSE Empty
Of(c, l) == IF c.lists[l].array THEN c.lists[l].entries ELSE {}
WithList(c, l, E) == [c EXCEPT !.lists[l] = [array |-> TRUE, entries |-> E]]
DefaultSchema(c) == [c EXCEPT !.schema = IF @ = "absent" THEN "set" ELSE @]
Result(c, changed) == [next |-> c, changed |-> changed]

\* Plugins: only strings are kept when the list is written.
Plugins(c) == Of(c, "first") \ {"odd"}
\* Mutant of AddPlugin: it starts from an empty list.
AddOnlyPlugin(c) == WithList(c, "first", {"ours"})
AddPlugin(c) == WithList(c, "first", Plugins(c) \cup {"ours"})

\* Mutant of MergeOpenCode: the missing $schema is noticed but not added.
MergeOpenCodeTwice(c) ==
    IF "ours" \in Plugins(Base(c))
    THEN Result(Base(c), Base(c).schema # "set")
    ELSE Result(AddPlugin(Base(c)), TRUE)

MergeOpenCode(c) ==
    IF "ours" \in Plugins(Base(c))
    THEN Result([Base(c) EXCEPT !.schema = "set"], Base(c).schema # "set")
    ELSE Result(DefaultSchema(AddPlugin(Base(c))), TRUE)

MergeTui(c) ==
    IF "ours" \in Plugins(Base(c))
    THEN Result(Base(c), FALSE)
    ELSE Result(AddPlugin(Base(c)), TRUE)

RemovePlugin(c) ==
    IF "ours" \in Plugins(Base(c))
    THEN Result(WithList(Base(c), "first", Plugins(Base(c)) \ {"ours"}), TRUE)
    ELSE Result(Base(c), FALSE)

\* MCP servers: one entry by the name of ctxlite.
MergeMcp(c) ==
    LET servers == Of(Base(c), "first") IN
    IF "ours" \in servers
    THEN Result(WithList(Base(c), "first", servers), FALSE)
    ELSE Result(WithList(Base(c), "first", (servers \ {"stale"}) \cup {"ours"}), TRUE)

RemoveMcp(c) ==
    LET servers == Of(Base(c), "first") IN
    IF servers \cap {"ours", "stale"} # {}
    THEN Result(WithList(Base(c), "first", servers \ {"ours", "stale"}), TRUE)
    ELSE Result(Base(c), FALSE)

\* Hooks: an entry is ctxlite's if a command in it mentions ctxlite.
IsHook == {"ours", "mixed"}
Hooked(c, l) == Of(c, l) \cap IsHook # {}
AddHook(c, l) == WithList(c, l, IF Hooked(c, l) THEN Of(c, l) ELSE Of(c, l) \cup {"ours"})
DropHook(c, l) == WithList(c, l, Of(c, l) \ IsHook)

MergeClaudeHooks(c) ==
    IF \A l \in List : Hooked(Base(c), l)
    THEN Result(Base(c), FALSE)
    ELSE Result(AddHook(AddHook(Base(c), "first"), "second"), TRUE)

RemoveClaudeHooks(c) ==
    IF \E l \in List : Hooked(Base(c), l)
    THEN Result(DropHook(DropHook(Base(c), "first"), "second"), TRUE)
    ELSE Result(Base(c), FALSE)

MergeCursorHooks(c) ==
    IF Hooked(Base(c), "first")
    THEN Result(Base(c), FALSE)
    ELSE Result(DefaultSchema(AddHook(Base(c), "first")), TRUE)

RemoveCursorHooks(c) ==
    IF Hooked(Base(c), "first")
    THEN Result(DropHook(Base(c), "first"), TRUE)
    ELSE Result(Base(c), FALSE)

ApplyConfigChange(kind, c, remove) ==
    CASE kind = "opencode"          -> IF remove THEN RemovePlugin(c) ELSE MergeOpenCode(c)
      [] kind = "opencode-tui"      -> IF remove THEN RemovePlugin(c) ELSE MergeTui(c)
      [] kind = "cursor-hooks"      -> IF remove THEN RemoveCursorHooks(c) ELSE MergeCursorHooks(c)
      [] kind = "claude-code-hooks" -> IF remove THEN RemoveClaudeHooks(c) ELSE MergeClaudeHooks(c)
      [] kind = "mcp"               -> IF remove THEN RemoveMcp(c) ELSE MergeMcp(c)

\* fullFileChange; a missing and an empty file have no content.
FullFileChange(c, remove) ==
    IF remove THEN Result(Missing, c \notin {Missing, Truncated})
              ELSE Result(Ours, c # Ours)

\* Mutant of ReadJson: text that is not JSON counts as an empty object.
ReadLeniently(c) == [valid |-> TRUE,
                     data |-> IF c \in {Missing} \cup NotJson THEN Empty ELSE c]
\* readJsonFile: a missing file is an empty object, other text that is not
\* JSON, the empty text included, is an error.
ReadJson(c) == [valid |-> c \notin NotJson,
                data |-> IF c \in {Missing} \cup NotJson THEN Empty ELSE c]

Readable(kind, c) == kind = "skill" \/ ReadJson(c).valid
Change(kind, c, remove) == IF kind = "skill" THEN FullFileChange(c, remove)
                           ELSE ApplyConfigChange(kind, ReadJson(c).data, remove)

\* Mutant of ActionFor: a file that is not there is skipped.
ActionForExisting(existed, changed, remove) ==
    IF ~ changed \/ ~ existed THEN "skip"
    ELSE IF remove THEN "remove" ELSE "update"
ActionFor(existed, changed, remove) ==
    IF ~ changed THEN "skip"
    ELSE IF remove THEN "remove"
    ELSE IF existed THEN "update" ELSE "create"

-----------------------------------------------------------------------------
(* run.ts.                                                                 *)

VARIABLES
    file,      \* file[f]: what target file f holds
    job,       \* job[p]: the run of process p
    original,  \* original[f]: what the user last saved there
    done,      \* processes whose last run completed an installation
    removing,  \* whether a removal was ever started
    runs,      \* runs[p]: runs so far
    raced,     \* files that the user last saved while a run was to write them
    edits, crashes

vars == <<file, job, original, done, removing, runs, raced, edits, crashes>>

Action == {"skip", "remove", "create", "update"}
NoRun == [pc |-> "idle", remove |-> FALSE, i |-> 1, plan |-> [f \in File |-> "skip"],
          next |-> Missing]
Run == [pc : {"plan", "apply", "open", "write"}, remove : BOOLEAN,
        i : 1 .. Len(Target) + 1, plan : [File -> Action],
        next : {Missing, Ours} \cup Config]

TypeOK ==
    /\ file = [f \in File |-> file[f]]
    /\ original = [f \in File |-> original[f]]
    /\ \A f \in File : /\ file[f] \in Content(Target[f])
                      /\ original[f] \in Content(Target[f])
    /\ job \in [Process -> Run \cup {NoRun}]
    /\ done \in SUBSET Process
    /\ removing \in BOOLEAN
    /\ runs \in [Process -> 0 .. MaxRuns]
    /\ raced \in SUBSET File
    /\ edits \in 0 .. MaxEdits
    /\ crashes \in 0 .. MaxCrashes

Init ==
    /\ \E s \in Shape, owned \in {Missing, Ours, Older} :
         file = [f \in File |-> IF Target[f] = "skill" THEN owned ELSE s[Target[f]]]
    /\ original = file
    /\ job = [p \in Process |-> NoRun]
    /\ done = {}
    /\ removing = FALSE
    /\ runs = [p \in Process |-> 0]
    /\ raced = {}
    /\ edits = 0
    /\ crashes = 0

Start(p, remove) ==
    /\ job[p] = NoRun
    /\ runs[p] < MaxRuns
    /\ remove => Removes
    /\ runs' = [runs EXCEPT ![p] = @ + 1]
    /\ job' = [job EXCEPT ![p] = [NoRun EXCEPT !.pc = "plan", !.remove = remove]]
    /\ done' = done \ {p}
    /\ removing' = (removing \/ remove)
    /\ UNCHANGED <<file, original, raced, edits, crashes>>

\* planInstall reads one target after the other.
PlanTarget(p) ==
    LET j == job[p]
        kind == Target[j.i]
        c == file[j.i]
    IN
    /\ j.pc = "plan" /\ j.i \in File
    /\ Readable(kind, c)
    /\ job' = [job EXCEPT
                 ![p].plan[j.i] = ActionFor(c # Missing, Change(kind, c, j.remove).changed, j.remove),
                 ![p].i = j.i + 1]
    /\ UNCHANGED <<file, original, done, removing, runs, raced, edits, crashes>>

\* With the plan complete, the targets are gone through again.
PlanComplete(p) ==
    /\ job[p].pc = "plan" /\ job[p].i \notin File
    /\ job' = [job EXCEPT ![p].pc = "apply", ![p].i = 1]
    /\ UNCHANGED <<file, original, done, removing, runs, raced, edits, crashes>>

\* "Invalid JSON in ...": the run ends, in the plan or between two targets.
ReadFails(p) ==
    /\ job[p].pc \in {"plan", "apply"} /\ job[p].i \in File
    /\ job[p].pc = "apply" => job[p].plan[job[p].i] # "skip"
    /\ ~ Readable(Target[job[p].i], file[job[p].i])
    /\ job' = [job EXCEPT ![p] = NoRun]
    /\ UNCHANGED <<file, original, done, removing, runs, raced, edits, crashes>>

ApplySkip(p) ==
    LET j == job[p] IN
    /\ j.pc = "apply" /\ j.i \in File
    /\ j.plan[j.i] = "skip"
    /\ job' = [job EXCEPT ![p].i = j.i + 1]
    /\ UNCHANGED <<file, original, done, removing, runs, raced, edits, crashes>>

\* rm of a file that ctxlite owns.
DeleteFile(p) ==
    LET j == job[p] IN
    /\ j.pc = "apply" /\ j.i \in File
    /\ Target[j.i] = "skill" /\ j.plan[j.i] = "remove"
    /\ file' = [file EXCEPT ![j.i] = Missing]
    /\ job' = [job EXCEPT ![p].i = j.i + 1]
    /\ UNCHANGED <<original, done, removing, runs, raced, edits, crashes>>

\* What is written is worked out from what the file holds by now; whether
\* that is still a change is not asked again.
ReadAgain(p) ==
    LET j == job[p]
        kind == Target[j.i]
    IN
    /\ j.pc = "apply" /\ j.i \in File
    /\ j.plan[j.i] # "skip"
    /\ kind = "skill" => j.plan[j.i] # "remove"
    /\ Readable(kind, file[j.i])
    /\ job' = [job EXCEPT ![p].pc = "open",
                          ![p].next = Change(kind, file[j.i], j.remove).next]
    /\ UNCHANGED <<file, original, done, removing, runs, raced, edits, crashes>>

\* writeFile truncates the file ...
OpenFile(p) ==
    /\ job[p].pc = "open"
    /\ file' = [file EXCEPT ![job[p].i] = Truncated]
    /\ job' = [job EXCEPT ![p].pc = "write"]
    /\ UNCHANGED <<original, done, removing, runs, raced, edits, crashes>>

\* ... and writes it.  Over text that another writer put there meanwhile it
\* may leave a mixture; a file deleted meanwhile stays deleted.
WriteFile(p) ==
    LET j == job[p] IN
    /\ j.pc = "write"
    /\ \E c \in IF file[j.i] = Missing THEN {Missing}
                ELSE IF file[j.i] \in {Truncated, j.next} THEN {j.next}
                ELSE {j.next, Torn} :
         file' = [file EXCEPT ![j.i] = c]
    /\ job' = [job EXCEPT ![p].pc = "apply", ![p].i = j.i + 1, ![p].next = Missing]
    /\ UNCHANGED <<original, done, removing, runs, raced, edits, crashes>>

Finish(p) ==
    /\ job[p].pc = "apply" /\ job[p].i \notin File
    /\ done' = IF job[p].remove THEN done ELSE done \cup {p}
    /\ job' = [job EXCEPT ![p] = NoRun]
    /\ UNCHANGED <<file, original, removing, runs, raced, edits, crashes>>

\* The run ends early: it is killed, or the file system refuses a call.
Crash(p) ==
    /\ job[p] # NoRun
    /\ crashes < MaxCrashes
    /\ crashes' = crashes + 1
    /\ job' = [job EXCEPT ![p] = NoRun]
    /\ UNCHANGED <<file, original, done, removing, runs, raced, edits>>

\* The user saves a file: the editor writes it in place, in one step.
UserSaves(f) ==
    /\ edits < MaxEdits
    /\ edits' = edits + 1
    /\ \E c \in UserContent(Target[f]) :
         /\ file' = [file EXCEPT ![f] = c]
         /\ original' = [original EXCEPT ![f] = c]
    /\ raced' = IF \E p \in Process : job[p].pc \in {"open", "write"} /\ job[p].i = f
                THEN raced \cup {f} ELSE raced \ {f}
    /\ UNCHANGED <<job, done, removing, runs, crashes>>

Next ==
    \/ \E p \in Process :
         \/ \E remove \in BOOLEAN : Start(p, remove)
         \/ PlanTarget(p) \/ PlanComplete(p) \/ ReadFails(p)
         \/ ApplySkip(p) \/ DeleteFile(p)
         \/ ReadAgain(p) \/ OpenFile(p) \/ WriteFile(p)
         \/ Finish(p) \/ Crash(p)
    \/ \E f \in File : UserSaves(f)

Spec == Init /\ [][Next]_vars

-----------------------------------------------------------------------------
(* Properties.                                                             *)

\* What of a settings file is the user's.
UserParts(c) ==
    IF c \notin Config THEN {}
    ELSE {<<"setting", s>> : s \in c.rest}
         \cup UNION {{<<l, e>> : e \in c.lists[l].entries \ {"ours", "stale"}} : l \in List}
         \cup (IF c.object THEN {} ELSE {<<"not an object", "">>})

Ordinary(c) ==
    /\ c.object
    /\ \A l \in List : /\ c.lists[l].entries \subseteq {"ours", "stale", "theirs"}
                       /\ ~ c.lists[l].array => c.lists[l].entries = {}

\* A settings file that can be read has all that the user last saved in it, if
\* it was an ordinary one, whatever runs of several processes, ended early or
\* not, install and remove at the same time (merge.ts:24-242, run.ts:130-165):
\* a save is undone only by a run that was about to write the file just then.
UserPartsStay ==
    \A f \in File :
        f \notin raced /\ file[f] \in Config /\ original[f] \in Config /\ Ordinary(original[f])
            => UserParts(original[f]) \subseteq UserParts(file[f])

\* A settings file with a syntax error stops a run before it has touched any
\* file (run.ts:51-64, 91-131): all targets are read before one is written.
TypoStopsEverything ==
    edits = 0 /\ (\E f \in File : original[f] = Typo) => file = original

HasOurs(kind, c) ==
    CASE c \in Config -> \A l \in List :
                            l = "first" \/ kind = "claude-code-hooks" => Of(c, l) \cap IsHook # {}
      [] OTHER -> c = Ours

\* When a run has completed, ctxlite is in every target, unless somebody
\* writes the file just now: parallel runs neither undo each other nor leave
\* out a target that one of them found done (run.ts:140-146).
DoneMeansConfigured ==
    edits = 0 /\ crashes = 0 /\ ~ removing =>
        \A p \in done, f \in File :
            \/ HasOurs(Target[f], file[f])
            \/ \E q \in Process : job[q].pc = "write" /\ job[q].i = f

\* The same command, run on what it made of a settings file, changes nothing.
\* The exception is a $schema that is an empty string.
SettledBy(kind, c, remove) ==
    ~ (kind = "opencode" /\ c.schema = "empty") =>
        ~ ApplyConfigChange(kind, c, remove).changed

MergesSettle ==
    \A s \in Shape, kind \in JsonKind, remove \in BOOLEAN :
        Readable(kind, s[kind]) => SettledBy(kind, Change(kind, s[kind], remove).next, remove)

\* specs/16.md:111 "running install twice is a no-op": what a run makes of a
\* settings file of any shape, or holds to be written into one while others
\* write it too, the same command would not change again (merge.ts:24-242).
SecondRunIsNoOp ==
    /\ MergesSettle
    /\ \A p \in Process :
          LET j == job[p] IN
          j.pc \in {"open", "write"} /\ j.next \in Config
             => SettledBy(Target[j.i], j.next, j.remove)

=============================================================================
