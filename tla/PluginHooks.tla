----------------------------- MODULE PluginHooks -----------------------------
(***************************************************************************)
(* The two tool hooks of the OpenCode plugin (packages/opencode/src):      *)
(* tool.execute.before blocks a read or rewrites the arguments,            *)
(* tool.execute.after logs the deferred saving and compresses the output.  *)
(* Between them they share the in-memory maps of precall-state.ts and the  *)
(* savings database.  Hooks are synchronous JavaScript, so each is one     *)
(* step; calls of one or several sessions run in parallel and finish in    *)
(* any order, a tool may fail (no after hook), and the plugin process may  *)
(* be restarted, which loses the maps but not the database.                *)
(***************************************************************************)
EXTENDS OpenCode, Integers

CONSTANTS CallId,        \* the host's ids of tool calls
          Path,          \* path strings as the agent spells them
          LargePath,     \* paths of files that isEligibleForSmartRead
          LowSignalPath, \* paths a built-in pattern or .ctxliteignore blocks
          Tool,          \* the tools in use
          Estimate,      \* positive token estimates of a saving
          UniqueCallIds, \* whether two sessions never share a call id
          None

EngagingTools == {"smart_read", "edit"}   \* "edit": edit, write, patch, multiedit
SkippedBefore == {"smart_read", "get_stats", "concise_reply"}
SkippedAfter == {"smart_read", "get_stats"}
PathTools == {"smart_read", "edit", "read", "glob"}
KnownTools == PathTools \cup SkippedBefore \cup {"bash"}

ASSUME HooksAssumption ==
    /\ LargePath \subseteq Path /\ LowSignalPath \subseteq Path
    /\ Tool \subseteq KnownTools
    /\ Estimate \subseteq Nat \ {0}
    /\ UniqueCallIds \in BOOLEAN
    /\ None \notin Path

Call == Session \X CallId
SessionOf(c) == c[1]
IdOf(c) == c[2]

VARIABLES
    stage,    \* stage[c]: how far the call has come
    req,      \* req[c]: what was asked and what the before hook made of it
    pending,  \* pending[c]: the deferred saving of precall-state.ts, 0 if none
    engaged,  \* engaged[s]: paths smart_read or an edit named in this process
    current,  \* calls whose before hook ran in this process
    ledger,   \* rows of stats.db by kind and call id
    dropped   \* rows the store failed to write

vars == <<stage, req, pending, engaged, current, ledger, dropped>>

Stage == {"new", "running", "blocked", "done", "empty", "failed", "aborted"}
RowId == {"precall-block", "precall", "compress"} \X CallId
Row == [session : Session, tok : Estimate]
NoRow == [session |-> None, tok |-> 0]
Request == [tool : Tool, path : Path \cup {None},
            verdict : {"pass", "modify", "block"}, saved : Estimate \cup {0}]
NoRequest == [tool |-> None, path |-> None, verdict |-> "pass", saved |-> 0]

TypeOK ==
    /\ stage \in [Call -> Stage]
    /\ req \in [Call -> Request \cup {NoRequest}]
    /\ pending \in [Call -> Estimate \cup {0}]
    /\ engaged \in [Session -> SUBSET Path]
    /\ current \in SUBSET Call
    /\ ledger \in [RowId -> Row \cup {NoRow}]
    /\ dropped \in SUBSET RowId

Init ==
    /\ stage = [c \in Call |-> "new"]
    /\ req = [c \in Call |-> NoRequest]
    /\ pending = [c \in Call |-> 0]
    /\ engaged = [s \in Session |-> {}]
    /\ current = {}
    /\ ledger = [r \in RowId |-> NoRow]
    /\ dropped = {}

-----------------------------------------------------------------------------

\* logOptimizationSavings for a set of new rows of session s: nothing for a
\* saving of 0, INSERT OR IGNORE otherwise, and a write that fails is lost.
Log(s, ids, tok) ==
    \E lost \in SUBSET {r \in ids : tok[r] > 0} :
        /\ ledger' = [r \in RowId |->
                        IF /\ r \in ids \ lost
                           /\ tok[r] > 0
                           /\ ledger[r] = NoRow
                        THEN [session |-> s, tok |-> tok[r]]
                        ELSE ledger[r]]
        /\ dropped' = dropped \cup lost

\* optimizeReadPath: low-signal paths always, large files only for "read" and
\* only while the session has not engaged that very string.
LowSignal(tool, path) == tool \in {"read", "glob"} /\ path \in LowSignalPath
TooLarge(tool, path, s) ==
    tool = "read" /\ path \in LargePath /\ path \notin engaged[s]
Blocked(tool, path, s) == LowSignal(tool, path) \/ TooLarge(tool, path, s)

\* Mutant of Begin: the engaged paths are not kept apart by session.
BeginForAll(c, tool, path, verdict, saved) ==
    /\ stage[c] = "new"
    /\ UniqueCallIds => \A d \in Call : IdOf(d) = IdOf(c) => stage[d] = "new"
    /\ (path # None) => tool \in PathTools
    /\ req' = [req EXCEPT ![c] =
                 [tool |-> tool, path |-> path, verdict |-> verdict, saved |-> saved]]
    /\ current' = current \cup {c}
    /\ engaged' = [s \in Session |->
                     engaged[s] \cup (IF tool \in EngagingTools THEN {path} \ {None} ELSE {})]

\* The host starts a call: its id is new, and the before hook first of all
\* marks the path of an engaging tool, even of one it then skips.
Begin(c, tool, path, verdict, saved) ==
    /\ stage[c] = "new"
    /\ UniqueCallIds => \A d \in Call : IdOf(d) = IdOf(c) => stage[d] = "new"
    /\ (path # None) => tool \in PathTools
    /\ req' = [req EXCEPT ![c] =
                 [tool |-> tool, path |-> path, verdict |-> verdict, saved |-> saved]]
    /\ current' = current \cup {c}
    /\ engaged' = [engaged EXCEPT ![SessionOf(c)] =
                     IF tool \in EngagingTools /\ path # None THEN @ \cup {path} ELSE @]

\* tool.execute.before, nothing to do: a skipped tool or unchanged arguments.
BeforePass(c, tool, path) ==
    /\ Begin(c, tool, path, "pass", 0)
    /\ tool \in SkippedBefore \/ ~ Blocked(tool, path, SessionOf(c))
    /\ stage' = [stage EXCEPT ![c] = "running"]
    /\ UNCHANGED <<pending, ledger, dropped>>

\* tool.execute.before, blocked: the reason replaces the result and the
\* saving is logged at once (an estimate of 0: the file went away meanwhile).
BeforeBlock(c, tool, path, saved) ==
    /\ Begin(c, tool, path, "block", saved)
    /\ tool \notin SkippedBefore
    /\ Blocked(tool, path, SessionOf(c))
    /\ LowSignal(tool, path) => saved > 0
    /\ stage' = [stage EXCEPT ![c] = "blocked"]
    /\ LET r == <<"precall-block", IdOf(c)>> IN
         Log(SessionOf(c), {r}, [x \in {r} |-> saved])
    /\ UNCHANGED pending

\* tool.execute.before on a bash command that takes a quiet flag: the saving
\* waits in precall-state.ts for the after hook.
BeforeModify(c, tool, saved) ==
    /\ Begin(c, tool, None, "modify", saved)
    /\ tool = "bash" /\ saved > 0
    /\ stage' = [stage EXCEPT ![c] = "running"]
    /\ pending' = [pending EXCEPT ![c] = saved]
    /\ UNCHANGED <<ledger, dropped>>

\* Mutant of AfterOutput: pending savings are not kept apart by call.
AfterOutputOfSession(c, saved) ==
    /\ stage[c] = "running"
    /\ req[c].tool \notin SkippedAfter
    /\ \E d \in {c} \cup {e \in current : SessionOf(e) = SessionOf(c) /\ pending[e] > 0} :
         /\ LET pre == <<"precall", IdOf(c)>>
                cmp == <<"compress", IdOf(c)>>
            IN Log(SessionOf(c), {pre, cmp},
                   [r \in {pre, cmp} |-> IF r = pre THEN pending[d] ELSE saved])
         /\ pending' = [pending EXCEPT ![d] = 0]
    /\ stage' = [stage EXCEPT ![c] = "done"]
    /\ UNCHANGED <<req, engaged, current>>

\* Mutant of AfterOutput: an output that is not compressed ends the hook early.
AfterOutputCompressed(c, saved) ==
    /\ stage[c] = "running"
    /\ req[c].tool \notin SkippedAfter
    /\ LET pre == <<"precall", IdOf(c)>>
           cmp == <<"compress", IdOf(c)>>
       IN IF saved > 0
          THEN /\ Log(SessionOf(c), {pre, cmp},
                      [r \in {pre, cmp} |-> IF r = pre THEN pending[c] ELSE saved])
               /\ pending' = [pending EXCEPT ![c] = 0]
          ELSE UNCHANGED <<ledger, dropped, pending>>
    /\ stage' = [stage EXCEPT ![c] = "done"]
    /\ UNCHANGED <<req, engaged, current>>

\* tool.execute.after with output: the pending saving is taken and logged, and
\* a compressed output (saved > 0) is logged under its own id.
AfterOutput(c, saved) ==
    /\ stage[c] = "running"
    /\ req[c].tool \notin SkippedAfter
    /\ LET pre == <<"precall", IdOf(c)>>
           cmp == <<"compress", IdOf(c)>>
       IN Log(SessionOf(c), {pre, cmp},
              [r \in {pre, cmp} |-> IF r = pre THEN pending[c] ELSE saved])
    /\ pending' = [pending EXCEPT ![c] = 0]
    /\ stage' = [stage EXCEPT ![c] = "done"]
    /\ UNCHANGED <<req, engaged, current>>

\* tool.execute.after returns early: a skipped tool, or no output.
AfterNothing(c) ==
    /\ stage[c] = "running"
    /\ stage' = [stage EXCEPT ![c] =
                   IF req[c].tool \in SkippedAfter THEN "done" ELSE "empty"]
    /\ UNCHANGED <<req, pending, engaged, current, ledger, dropped>>

\* The tool throws: the host runs no after hook.
ToolFails(c) ==
    /\ stage[c] = "running"
    /\ stage' = [stage EXCEPT ![c] = "failed"]
    /\ UNCHANGED <<req, pending, engaged, current, ledger, dropped>>

\* The plugin process is restarted: its maps are gone, running calls with it.
Restart ==
    /\ current # {}
    /\ stage' = [c \in Call |-> IF stage[c] = "running" THEN "aborted" ELSE stage[c]]
    /\ pending' = [c \in Call |-> 0]
    /\ engaged' = [s \in Session |-> {}]
    /\ current' = {}
    /\ UNCHANGED <<req, ledger, dropped>>

Next ==
    \/ \E c \in Call :
         \/ \E tool \in Tool, path \in Path \cup {None} :
              \/ BeforePass(c, tool, path)
              \/ \E saved \in Estimate \cup {0} : BeforeBlock(c, tool, path, saved)
         \/ \E tool \in Tool, saved \in Estimate : BeforeModify(c, tool, saved)
         \/ \E saved \in Estimate \cup {0} : AfterOutput(c, saved)
         \/ AfterNothing(c)
         \/ ToolFails(c)
    \/ Restart

Spec == Init /\ [][Next]_vars

-----------------------------------------------------------------------------
(* Properties.                                                             *)

\* Session s named path p to smart_read or an edit earlier in this process.
EngagedBefore(s, p) ==
    \E d \in current :
        /\ SessionOf(d) = s
        /\ req[d].tool \in EngagingTools
        /\ req[d].path = p

\* The block of large reads can neither be worn down nor get stuck: a large
\* file is read in full exactly if an earlier call of the same session in the
\* same process, other than a read, named that path (precall-state.ts:26-37,
\* tool-precall-hook.ts:35-52).  Repeating the blocked read, and calls of
\* other sessions, change nothing.
LargeReadsNeedEngagement ==
    [][\A c \in Call :
         /\ stage[c] = "new" /\ stage'[c] # "new"
         /\ req'[c].tool = "read"
         /\ req'[c].path \in LargePath \ LowSignalPath
         => (req'[c].verdict = "block"
               <=> ~ EngagedBefore(SessionOf(c), req'[c].path))]_vars

\* What a row says of a call: it was really changed in that way, by that
\* session, for that amount.
PrecallRowIsEarned(id) ==
    LET row == ledger[<<"precall", id>>] IN
    row # NoRow =>
      \E c \in Call :
        /\ IdOf(c) = id /\ SessionOf(c) = row.session
        /\ req[c].verdict = "modify" /\ req[c].saved = row.tok
        /\ stage[c] = "done"

BlockRowIsEarned(id) ==
    LET row == ledger[<<"precall-block", id>>] IN
    row # NoRow =>
      \E c \in Call :
        /\ IdOf(c) = id /\ SessionOf(c) = row.session
        /\ req[c].verdict = "block" /\ req[c].saved = row.tok
        /\ stage[c] = "blocked"

\* Every saving of the before hook in the database belongs to one call that
\* earned it, whatever order parallel calls start, end, fail or are cut off
\* by a restart in; none is counted both as a block and as a rewrite.
\* Call ids must be unique across sessions: pending is keyed by session and
\* call, the rows by call alone (tool-compress-hook.ts:29).
SavingsAreEarned ==
    UniqueCallIds =>
      \A id \in CallId :
        /\ PrecallRowIsEarned(id)
        /\ BlockRowIsEarned(id)
        /\ ledger[<<"precall", id>>] = NoRow \/ ledger[<<"precall-block", id>>] = NoRow

\* A rewritten call that produced output in the process that rewrote it has
\* its saving in the database, unless the store dropped the row.
RewritesAreLogged ==
    UniqueCallIds =>
      \A c \in Call :
        req[c].verdict = "modify" /\ stage[c] = "done" =>
          \/ ledger[<<"precall", IdOf(c)>>] = [session |-> SessionOf(c), tok |-> req[c].saved]
          \/ <<"precall", IdOf(c)>> \in dropped

=============================================================================
