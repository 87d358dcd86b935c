---------------------------- MODULE InstallCommand ----------------------------
(***************************************************************************)
(* The command "ctxlite install" around the installer: the options and     *)
(* prompts of packages/cli/src/install.ts, the preview that it asks the    *)
(* user to confirm, the run itself (Installer), and behind an installation *)
(* the refresh of OpenCode's plugin cache (packages/core/src/install/      *)
(* opencode-refresh.ts), which the commands of all processes share.        *)
(*                                                                         *)
(* The commands here are for one scope, the one of the target files; those *)
(* of the other scope touch other files and the same cache.  OpenCode's    *)
(* own part is external: it fetches the latest version of a plugin that is *)
(* not in the cache, and leaves one alone that is.                         *)
(***************************************************************************)
EXTENDS Installer

VARIABLES
    command,  \* command[p]: where the command of process p is
    cache,    \* the plugin in the cache: the version it was pinned to, none, the latest
    failed    \* whether the last reinstallation failed or was cut off

commandVars == <<command, cache, failed>>

Stage == {"none", "previewed", "run", "refresh", "reinstall"}

CommandTypeOK ==
    /\ command \in [Process -> Stage]
    /\ cache \in {"pinned", "gone", "latest"}
    /\ failed \in BOOLEAN

CommandInit ==
    /\ Init
    /\ command = [p \in Process |-> "none"]
    /\ cache = "pinned"
    /\ failed = FALSE

Goes(p, stage) == command' = [command EXCEPT ![p] = stage]
Stops(p) == Goes(p, "none")

\* The options and prompts read no file and keep nothing but what to do.  The
\* preview keeps nothing of what it reads, so its reads are one step; a file
\* that cannot be read ends the command, as does --dry-run.
Preview(p) ==
    /\ command[p] = "none"
    /\ \A f \in File : Readable(Target[f], file[f])
    /\ Goes(p, "previewed")
    /\ UNCHANGED <<vars, cache, failed>>

\* The user says no, or without --yes there is nobody to ask.
Decline(p) ==
    /\ command[p] = "previewed"
    /\ Stops(p)
    /\ UNCHANGED <<vars, cache, failed>>

\* runInstall plans anew, however long the prompt was open.
Begin(p) ==
    /\ command[p] = "previewed"
    /\ \E remove \in BOOLEAN : Start(p, remove)
    /\ Goes(p, "run")
    /\ UNCHANGED <<cache, failed>>

Runs(p) ==
    /\ \/ PlanTarget(p) \/ PlanComplete(p)
       \/ ApplySkip(p) \/ DeleteFile(p)
       \/ ReadAgain(p) \/ OpenFile(p) \/ WriteFile(p)
    /\ UNCHANGED commandVars

\* An error, or the end of the process, ends the command.
Breaks(p) ==
    /\ ReadFails(p) \/ Crash(p)
    /\ Stops(p)
    /\ UNCHANGED <<cache, failed>>

\* Mutant of Completes: the cache is refreshed behind a removal, too.
CompletesAlike(p) ==
    /\ Finish(p)
    /\ Goes(p, "refresh")
    /\ UNCHANGED <<cache, failed>>
\* An installation, whether it changed anything or not, refreshes the cache.
Completes(p) ==
    /\ Finish(p)
    /\ IF job[p].remove THEN Stops(p) ELSE Goes(p, "refresh")
    /\ UNCHANGED <<cache, failed>>

\* "opencode --version" fails, or the process ends; otherwise the cache is
\* removed, or an error of the removal passed over.
ClearCache(p) ==
    /\ command[p] = "refresh"
    /\ \/ Stops(p) /\ UNCHANGED cache
       \/ Goes(p, "reinstall") /\ cache' \in {"gone", cache}
    /\ UNCHANGED <<vars, failed>>

\* "opencode plugin ... --force": without the registry it fails.
Reinstall(p) ==
    /\ command[p] = "reinstall"
    /\ Stops(p)
    /\ \/ cache' = (IF cache = "gone" THEN "latest" ELSE cache) /\ failed' = FALSE
       \/ failed' = TRUE /\ UNCHANGED cache
    /\ UNCHANGED vars

UserEdits == (\E f \in File : UserSaves(f)) /\ UNCHANGED commandVars

CommandNext ==
    \/ \E p \in Process :
         \/ Preview(p) \/ Decline(p) \/ Begin(p)
         \/ Runs(p) \/ Breaks(p) \/ Completes(p)
         \/ ClearCache(p) \/ Reinstall(p)
    \/ UserEdits

CommandSpec == CommandInit /\ [][CommandNext]_<<vars, commandVars>>

-----------------------------------------------------------------------------
(* Properties.                                                             *)

\* opencode-refresh.ts 22-59: the plugin that worked is taken away only on
\* the way to a newer one.  When it is gone some command is just fetching it,
\* or the last one to do so has failed; commands of several processes clear
\* the cache for each other.  And the cache is touched only behind a complete
\* installation: not by a preview, a removal, a command declined or one that
\* an error ended.
PluginComesBack ==
    /\ cache = "gone" => failed \/ (\E p \in Process : command[p] = "reinstall")
    /\ \A p \in Process : command[p] \in {"refresh", "reinstall"} => p \in done

=============================================================================
