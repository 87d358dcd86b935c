---------------------------- MODULE Installer_proofs ----------------------------
(***************************************************************************)
(* Proofs about Installer: the types, that a syntax error stops a run      *)
(* before it has written anything, that ordinary settings keep what the    *)
(* user put there, that a second run changes nothing, and that a completed *)
(* one is in every target; and about InstallCommand, which implements      *)
(* Installer and gives the plugin cache back.                              *)
(***************************************************************************)
EXTENDS InstallCommand, TLAPS

-----------------------------------------------------------------------------
(* The operators of merge.ts stay within Config.                           *)

\* A list replaced within a settings file leaves a settings file.
LEMMA WithListType ==
    ASSUME NEW c \in Config, NEW l \in List, NEW E \in SUBSET Entry
    PROVE  WithList(c, l, E) \in Config
BY DEF WithList, Config

\* The entries that count are entries.
LEMMA OfType ==
    ASSUME NEW c \in Config, NEW l \in List
    PROVE  Of(c, l) \in SUBSET Entry
BY DEF Of, Config

\* The empty object is a settings file.
LEMMA EmptyType == Empty \in Config /\ Empty.object
<1>1. NoList \in [array : BOOLEAN, entries : SUBSET Entry]
  BY DEF NoList
<1>2. [l \in List |-> NoList] \in [List -> [array : BOOLEAN, entries : SUBSET Entry]]
  BY <1>1
<1> QED
  BY <1>2 DEF Empty, Config

\* What a merge starts from is a settings file that holds an object.
LEMMA BaseType ==
    ASSUME NEW c \in Config
    PROVE  Base(c) \in Config /\ Base(c).object
BY EmptyType DEF Base, Config

\* Setting $schema leaves a settings file.
LEMMA SchemaType ==
    ASSUME NEW c \in Config
    PROVE  DefaultSchema(c) \in Config /\ [c EXCEPT !.schema = "set"] \in Config
BY DEF DefaultSchema, Config

\* A hook added or dropped leaves a settings file.
LEMMA HookType ==
    ASSUME NEW c \in Config, NEW l \in List
    PROVE  AddHook(c, l) \in Config /\ DropHook(c, l) \in Config
BY OfType, WithListType DEF AddHook, DropHook, Entry, IsHook

\* Every merge and every removal makes a settings file of a settings file.
LEMMA ApplyType ==
    ASSUME NEW kind \in JsonKind, NEW c \in Config, NEW remove \in BOOLEAN
    PROVE  ApplyConfigChange(kind, c, remove).next \in Config
<1> DEFINE b == Base(c)
<1>b. b \in Config
  BY BaseType
<1>l. "first" \in List /\ "second" \in List
  BY DEF List
<1>1. AddPlugin(b) \in Config
  BY <1>b, <1>l, OfType, WithListType DEF AddPlugin, Plugins, Entry
<1>2. \A E \in SUBSET Entry : WithList(b, "first", E) \in Config
  BY <1>b, <1>l, WithListType
<1>3. Of(b, "first") \in SUBSET Entry
  BY <1>b, <1>l, OfType
<1>4. RemovePlugin(c).next \in Config
  <2>1. WithList(b, "first", Plugins(b) \ {"ours"}) \in Config
    BY <1>2, <1>3 DEF Plugins
  <2> QED BY <2>1, <1>b DEF RemovePlugin, Result
<1>5. MergeOpenCode(c).next \in Config
  BY <1>1, <1>b, SchemaType DEF MergeOpenCode, Result
<1>6. MergeTui(c).next \in Config
  BY <1>1, <1>b DEF MergeTui, Result
<1>7. MergeMcp(c).next \in Config
  <2>1. WithList(b, "first", (Of(b, "first") \ {"stale"}) \cup {"ours"}) \in Config
    BY <1>2, <1>3 DEF Entry
  <2>2. WithList(b, "first", Of(b, "first")) \in Config
    BY <1>2, <1>3
  <2> QED BY <2>1, <2>2 DEF MergeMcp, Result
<1>8. RemoveMcp(c).next \in Config
  <2>1. WithList(b, "first", Of(b, "first") \ {"ours", "stale"}) \in Config
    BY <1>2, <1>3
  <2> QED BY <2>1, <1>b DEF RemoveMcp, Result
<1>9. AddHook(AddHook(b, "first"), "second") \in Config
  BY <1>b, <1>l, HookType
<1>10. DropHook(DropHook(b, "first"), "second") \in Config
  BY <1>b, <1>l, HookType
<1>11. MergeClaudeHooks(c).next \in Config
  BY <1>b, <1>9 DEF MergeClaudeHooks, Result
<1>12. RemoveClaudeHooks(c).next \in Config
  BY <1>b, <1>10 DEF RemoveClaudeHooks, Result
<1>13. MergeCursorHooks(c).next \in Config
  <2>1. DefaultSchema(AddHook(b, "first")) \in Config
    BY <1>b, <1>l, HookType, SchemaType
  <2> QED BY <2>1, <1>b DEF MergeCursorHooks, Result
<1>14. RemoveCursorHooks(c).next \in Config
  BY <1>b, <1>l, HookType DEF RemoveCursorHooks, Result
<1> QED
  BY <1>4, <1>5, <1>6, <1>7, <1>8, <1>11, <1>12, <1>13, <1>14
     DEF ApplyConfigChange, JsonKind

-----------------------------------------------------------------------------
(* Types.                                                                  *)

\* What a run holds to be written into a target of this kind.
Text(kind) == IF kind = "skill" THEN {Missing, Ours} ELSE Config

\* The types, and that a run between reading and writing is at a target and
\* holds a text for a file of its kind.
Holds(p) ==
    job[p].pc \in {"open", "write"} => /\ job[p].i \in File
                                       /\ job[p].next \in Text(Target[job[p].i])
TypeInv == TypeOK /\ \A p \in Process : Holds(p)

\* The targets are of a known kind.
LEMMA TargetKind == \A f \in File : Target[f] \in Kind
BY InstallerAssumption DEF File

\* The texts a user saves are contents of a file of that kind.
LEMMA UserContentType ==
    ASSUME NEW f \in File
    PROVE  UserContent(Target[f]) \subseteq Content(Target[f])
<1>1. CASE Target[f] = "skill"
  BY <1>1 DEF UserContent, Content
<1>2. CASE Target[f] \in JsonKind
  <2>1. Target[f] # "skill"
    BY <1>2 DEF JsonKind
  <2>2. \A s \in Edited : s[Target[f]] \in {Missing, Typo} \cup Config
    BY <1>2, InstallerAssumption
  <2> QED
    BY <2>1, <2>2 DEF UserContent, Content
<1> QED
  BY <1>1, <1>2, TargetKind DEF Kind

\* A change of a readable file is a text for a file of that kind.
LEMMA ChangeType ==
    ASSUME NEW kind \in Kind, NEW c \in Content(kind), Readable(kind, c),
           NEW remove \in BOOLEAN
    PROVE  Change(kind, c, remove).next \in Text(kind)
<1>1. CASE kind = "skill"
  BY <1>1 DEF Change, FullFileChange, Result, Text
<1>2. CASE kind # "skill"
  <2>1. kind \in JsonKind
    BY <1>2 DEF Kind
  <2>2. ReadJson(c).data \in Config
    BY <1>2, EmptyType DEF Readable, ReadJson, NotJson, Content
  <2> QED
    BY <1>2, <2>1, <2>2, ApplyType DEF Change, Text
<1> QED
  BY <1>1, <1>2

\* The states of a run other than that of no run.
LEMMA RunFields ==
    ASSUME NEW p \in Process, TypeInv, job[p].pc # "idle"
    PROVE  job[p] \in Run /\ job[p] # NoRun
BY DEF TypeInv, TypeOK, Holds, NoRun

\* Init establishes the types.
LEMMA InitType == Init => TypeInv
<1> SUFFICES ASSUME Init PROVE TypeInv
  OBVIOUS
<1>1. /\ file = [f \in File |-> file[f]]
      /\ \A f \in File : file[f] \in Content(Target[f])
  <2>1. PICK s \in Shape, owned \in {Missing, Ours, Older} :
          file = [f \in File |-> IF Target[f] = "skill" THEN owned ELSE s[Target[f]]]
    BY DEF Init
  <2>2. ASSUME NEW f \in File PROVE file[f] \in Content(Target[f])
    <3>1. CASE Target[f] = "skill"
      BY <2>1, <3>1 DEF Content
    <3>2. CASE Target[f] \in JsonKind
      <4>1. Target[f] # "skill" /\ s[Target[f]] \in {Missing, Typo} \cup Config
        BY <3>2, InstallerAssumption DEF JsonKind
      <4> QED BY <2>1, <4>1 DEF Content
    <3> QED BY <3>1, <3>2, TargetKind DEF Kind
  <2> QED BY <2>1, <2>2
<1>2. job \in [Process -> Run \cup {NoRun}]
  BY DEF Init
<1>3. \A p \in Process : Holds(p)
  BY DEF Init, Holds, NoRun
<1>4. /\ runs \in [Process -> 0 .. MaxRuns] /\ raced \in SUBSET File
      /\ edits \in 0 .. MaxEdits /\ crashes \in 0 .. MaxCrashes
  BY InstallerAssumption DEF Init
<1>5. original = file /\ done \in SUBSET Process /\ removing \in BOOLEAN
  BY DEF Init
<1> QED
  BY <1>1, <1>2, <1>3, <1>4, <1>5 DEF TypeInv, TypeOK

\* Every step keeps the types.
LEMMA NextType == TypeInv /\ [Next]_vars => TypeInv'
<1> SUFFICES ASSUME TypeInv, [Next]_vars PROVE TypeInv'
  OBVIOUS
<1>0. /\ File \subseteq 1 .. Len(Target) + 1
      /\ \A i \in File : i + 1 \in 1 .. Len(Target) + 1
      /\ 1 \in 1 .. Len(Target) + 1
      /\ Len(Target) \in Nat
      /\ MaxRuns \in Nat /\ MaxEdits \in Nat /\ MaxCrashes \in Nat
  BY InstallerAssumption DEF File
<1>1. ASSUME NEW p \in Process, NEW remove \in BOOLEAN, Start(p, remove) PROVE TypeInv'
  <2>1. [NoRun EXCEPT !.pc = "plan", !.remove = remove] \in Run
    BY <1>0 DEF NoRun, Run, Action
  <2>2. job' \in [Process -> Run \cup {NoRun}]
    BY <1>1, <2>1 DEF Start, TypeInv, TypeOK
  <2>3. \A q \in Process : Holds(q)'
    BY <1>1, <2>1 DEF Start, TypeInv, TypeOK, Holds, NoRun
  <2>4. runs' \in [Process -> 0 .. MaxRuns]
    BY <1>0, <1>1 DEF Start, TypeInv, TypeOK
  <2>5. done' \in SUBSET Process /\ removing' \in BOOLEAN
    BY <1>1 DEF Start, TypeInv, TypeOK
  <2> QED BY <1>1, <2>2, <2>3, <2>4, <2>5 DEF Start, TypeInv, TypeOK
<1>2. ASSUME NEW p \in Process, NEW r \in Run \cup {NoRun},
             job' = [job EXCEPT ![p] = r], r.pc \notin {"open", "write"},
             UNCHANGED <<original, removing, runs, raced, edits>>,
             file' = file,
             done' \in SUBSET Process, crashes' \in 0 .. MaxCrashes
      PROVE  TypeInv'
  <2>1. job' \in [Process -> Run \cup {NoRun}]
    BY <1>2 DEF TypeInv, TypeOK
  <2>2. \A q \in Process : Holds(q)'
    BY <1>2 DEF TypeInv, TypeOK, Holds
  <2> QED BY <1>2, <2>1, <2>2 DEF TypeInv, TypeOK
<1>3. ASSUME NEW p \in Process, PlanTarget(p) PROVE TypeInv'
  <2>1. job[p] \in Run
    BY <1>3, RunFields DEF PlanTarget
  <2>2. \A x, y, z : ActionFor(x, y, z) \in Action
    BY DEF ActionFor, Action
  <2> DEFINE a == ActionFor(file[job[p].i] # Missing,
                            Change(Target[job[p].i], file[job[p].i], job[p].remove).changed,
                            job[p].remove)
             r == [job[p] EXCEPT !.plan[job[p].i] = a, !.i = job[p].i + 1]
  <2>3. a \in Action
    BY <2>2
  <2>4. r \in Run /\ r.pc = "plan"
    <3> HIDE DEF a
    <3> QED BY <1>3, <2>1, <2>3, <1>0 DEF Run, PlanTarget
  <2>5. job' = [job EXCEPT ![p] = r]
    <3> SUFFICES job' = [job EXCEPT ![p].plan[job[p].i] = a, ![p].i = job[p].i + 1]
      BY DEF TypeInv, TypeOK
    <3> QED BY <1>3 DEF PlanTarget
  <2> HIDE DEF r
  <2> QED BY <1>2, <1>3, <2>4, <2>5 DEF PlanTarget, TypeInv, TypeOK
<1>4. ASSUME NEW p \in Process, PlanComplete(p) PROVE TypeInv'
  <2>1. [job[p] EXCEPT !.pc = "apply", !.i = 1] \in Run
    BY <1>4, <1>0, RunFields DEF PlanComplete, Run
  <2>2. job' = [job EXCEPT ![p] = [job[p] EXCEPT !.pc = "apply", !.i = 1]]
    BY <1>4 DEF PlanComplete, TypeInv, TypeOK
  <2>3. [job[p] EXCEPT !.pc = "apply", !.i = 1].pc = "apply"
    BY <1>4, RunFields DEF PlanComplete, Run
  <2> QED BY <1>2, <1>4, <2>1, <2>2, <2>3 DEF PlanComplete, TypeInv, TypeOK
<1>5. ASSUME NEW p \in Process, ReadFails(p) PROVE TypeInv'
  BY <1>2, <1>5 DEF ReadFails, TypeInv, TypeOK, NoRun
<1>6. ASSUME NEW p \in Process, ApplySkip(p) PROVE TypeInv'
  <2>1. [job[p] EXCEPT !.i = job[p].i + 1] \in Run
    BY <1>6, <1>0, RunFields DEF ApplySkip, Run
  <2>2. job' = [job EXCEPT ![p] = [job[p] EXCEPT !.i = job[p].i + 1]]
    BY <1>6 DEF ApplySkip, TypeInv, TypeOK
  <2>3. [job[p] EXCEPT !.i = job[p].i + 1].pc = "apply"
    BY <1>6, <2>1, RunFields DEF ApplySkip, Run
  <2> QED BY <1>2, <1>6, <2>1, <2>2, <2>3 DEF ApplySkip, TypeInv, TypeOK
<1>7. ASSUME NEW p \in Process, DeleteFile(p) PROVE TypeInv'
  <2>1. [job[p] EXCEPT !.i = job[p].i + 1] \in Run
    BY <1>7, <1>0, RunFields DEF DeleteFile, Run
  <2>2. job' \in [Process -> Run \cup {NoRun}]
    BY <1>7, <2>1 DEF DeleteFile, TypeInv, TypeOK
  <2>3. \A q \in Process : Holds(q)'
    BY <1>7 DEF DeleteFile, TypeInv, TypeOK, Holds
  <2>4. \A f \in File : file'[f] \in Content(Target[f])
    BY <1>7 DEF DeleteFile, TypeInv, TypeOK, Content
  <2> QED BY <1>7, <2>2, <2>3, <2>4 DEF DeleteFile, TypeInv, TypeOK
<1>8. ASSUME NEW p \in Process, ReadAgain(p) PROVE TypeInv'
  <2> DEFINE n == Change(Target[job[p].i], file[job[p].i], job[p].remove).next
             r == [job[p] EXCEPT !.pc = "open", !.next = n]
  <2>1. job[p] \in Run /\ job[p].i \in File
    BY <1>8, RunFields DEF ReadAgain
  <2>2. n \in Text(Target[job[p].i])
    BY <1>8, <2>1, ChangeType, TargetKind DEF ReadAgain, Run, TypeInv, TypeOK
  <2>3. n \in {Missing, Ours} \cup Config
    BY <2>2 DEF Text
  <2>4. job' = [job EXCEPT ![p] = r]
    BY <1>8 DEF ReadAgain, TypeInv, TypeOK
  <2> HIDE DEF n
  <2>5. r \in Run /\ r.i = job[p].i /\ r.next = n
    BY <2>1, <2>3 DEF Run
  <2> HIDE DEF r
  <2>6. job' \in [Process -> Run \cup {NoRun}]
    BY <2>4, <2>5 DEF TypeInv, TypeOK
  <2>7. \A q \in Process : Holds(q)'
    BY <2>1, <2>2, <2>4, <2>5 DEF TypeInv, TypeOK, Holds
  <2> QED BY <1>8, <2>6, <2>7 DEF ReadAgain, TypeInv, TypeOK
<1>9. ASSUME NEW p \in Process, OpenFile(p) PROVE TypeInv'
  <2>1. job[p] \in Run /\ job[p].i \in File
    BY <1>9, RunFields DEF OpenFile, TypeInv, Holds
  <2>2. [job[p] EXCEPT !.pc = "write"] \in Run
    BY <2>1 DEF Run
  <2>3. job' \in [Process -> Run \cup {NoRun}]
    BY <1>9, <2>2 DEF OpenFile, TypeInv, TypeOK
  <2>4. \A q \in Process : Holds(q)'
    BY <1>9 DEF OpenFile, TypeInv, TypeOK, Holds
  <2>5. \A f \in File : file'[f] \in Content(Target[f])
    BY <1>9 DEF OpenFile, TypeInv, TypeOK, Content
  <2> QED BY <1>9, <2>3, <2>4, <2>5 DEF OpenFile, TypeInv, TypeOK
<1>10. ASSUME NEW p \in Process, WriteFile(p) PROVE TypeInv'
  <2>1. job[p] \in Run /\ job[p].i \in File /\ job[p].next \in Text(Target[job[p].i])
    BY <1>10, RunFields DEF WriteFile, TypeInv, Holds
  <2>2. [job[p] EXCEPT !.pc = "apply", !.i = job[p].i + 1, !.next = Missing] \in Run
    BY <2>1, <1>0 DEF Run
  <2>3. job' \in [Process -> Run \cup {NoRun}]
    BY <1>10, <2>2 DEF WriteFile, TypeInv, TypeOK
  <2>4. \A q \in Process : Holds(q)'
    BY <1>10 DEF WriteFile, TypeInv, TypeOK, Holds
  <2>5. PICK c \in {Missing, job[p].next, Torn} :
          file' = [file EXCEPT ![job[p].i] = c]
    BY <1>10 DEF WriteFile
  <2>6. c \in Content(Target[job[p].i])
    BY <2>1, <2>5 DEF Content, Text, TypeInv, TypeOK
  <2>7. \A f \in File : file'[f] \in Content(Target[f])
    BY <2>1, <2>5, <2>6 DEF TypeInv, TypeOK
  <2>8. file' = [f \in File |-> file'[f]]
    BY <2>5 DEF TypeInv, TypeOK
  <2> QED BY <1>10, <2>3, <2>4, <2>7, <2>8 DEF WriteFile, TypeInv, TypeOK
<1>11. ASSUME NEW p \in Process, Finish(p) PROVE TypeInv'
  BY <1>2, <1>11 DEF Finish, TypeInv, TypeOK, NoRun
<1>12. ASSUME NEW p \in Process, Crash(p) PROVE TypeInv'
  <2>1. crashes' \in 0 .. MaxCrashes
    BY <1>0, <1>12 DEF Crash, TypeInv, TypeOK
  <2> QED BY <1>2, <1>12, <2>1 DEF Crash, TypeInv, TypeOK, NoRun
<1>13. ASSUME NEW f \in File, UserSaves(f) PROVE TypeInv'
  <2>1. PICK c \in UserContent(Target[f]) : /\ file' = [file EXCEPT ![f] = c]
                                            /\ original' = [original EXCEPT ![f] = c]
    BY <1>13 DEF UserSaves
  <2>2. c \in Content(Target[f])
    BY UserContentType
  <2>3. edits' \in 0 .. MaxEdits
    BY <1>0, <1>13 DEF UserSaves, TypeInv, TypeOK
  <2>4. \A g \in File : file'[g] \in Content(Target[g]) /\ original'[g] \in Content(Target[g])
    BY <2>1, <2>2 DEF TypeInv, TypeOK
  <2>5. file' = [g \in File |-> file'[g]] /\ original' = [g \in File |-> original'[g]]
    BY <2>1 DEF TypeInv, TypeOK
  <2>6. raced' \in SUBSET File
    BY <1>13 DEF UserSaves, TypeInv, TypeOK
  <2> QED BY <1>13, <2>3, <2>4, <2>5, <2>6 DEF UserSaves, TypeInv, TypeOK, Holds
<1>14. CASE UNCHANGED vars
  BY <1>14 DEF vars, TypeInv, TypeOK, Holds
<1> QED
  BY <1>1, <1>3, <1>4, <1>5, <1>6, <1>7, <1>8, <1>9, <1>10, <1>11, <1>12, <1>13, <1>14 DEF Next

\* The installer keeps its types, for any targets, settings and number of
\* runs (run.ts:91-165, merge.ts:24-266).
THEOREM TypeCorrect == Spec => []TypeOK
<1>1. TypeInv => TypeOK
  BY DEF TypeInv
<1> QED
  BY <1>1, InitType, NextType, PTL DEF Spec

-----------------------------------------------------------------------------
(* A syntax error.                                                         *)

\* Inductive: while a settings file with a syntax error is among the targets
\* no run gets past it in its plan, so none comes to write.
StopsInv ==
    edits = 0 => \A f \in File : original[f] = Typo =>
        /\ file = original
        /\ \A p \in Process : /\ job[p].pc \in {"idle", "plan"}
                              /\ job[p].pc = "plan" => job[p].i <= f

\* A file with a syntax error cannot be read as settings.
LEMMA TypoUnreadable ==
    ASSUME TypeInv, NEW f \in File, original[f] = Typo
    PROVE  ~ Readable(Target[f], Typo)
BY InstallerAssumption DEF TypeInv, TypeOK, Content, Readable, ReadJson, NotJson

\* Every step keeps StopsInv.
LEMMA NextStops == TypeInv /\ StopsInv /\ [Next]_vars => StopsInv'
<1> SUFFICES ASSUME TypeInv, StopsInv, [Next]_vars, edits' = 0,
                    NEW f \in File, original'[f] = Typo
             PROVE  /\ file' = original'
                    /\ \A q \in Process : /\ job'[q].pc \in {"idle", "plan"}
                                          /\ job'[q].pc = "plan" => job'[q].i <= f
  BY DEF StopsInv
<1>1. original' = original /\ edits = 0
  <2>1. \A g \in File : ~ UserSaves(g)
    BY DEF UserSaves, TypeInv, TypeOK
  <2> QED
    BY <2>1 DEF Next, vars, Start, PlanTarget, PlanComplete, ReadFails, ApplySkip,
                DeleteFile, ReadAgain, OpenFile, WriteFile, Finish, Crash
<1>2. /\ file = original /\ file[f] = Typo
      /\ \A q \in Process : /\ job[q].pc \in {"idle", "plan"}
                            /\ job[q].pc = "plan" => job[q].i <= f
  BY <1>1 DEF StopsInv
<1>3. \A q \in Process : ~ (ApplySkip(q) \/ DeleteFile(q) \/ ReadAgain(q) \/ OpenFile(q)
                            \/ WriteFile(q) \/ Finish(q))
  BY <1>2 DEF ApplySkip, DeleteFile, ReadAgain, OpenFile, WriteFile, Finish
<1>4. f \in 1 .. Len(Target) /\ Len(Target) \in Nat /\ 1 <= f
  BY InstallerAssumption DEF File
<1>5. ASSUME NEW p \in Process, NEW remove \in BOOLEAN, Start(p, remove)
      PROVE  file' = file /\ \A q \in Process : /\ job'[q].pc \in {"idle", "plan"}
                                                /\ job'[q].pc = "plan" => job'[q].i <= f
  BY <1>2, <1>4, <1>5 DEF Start, TypeInv, TypeOK, NoRun
<1>6. ASSUME NEW p \in Process, PlanTarget(p)
      PROVE  file' = file /\ \A q \in Process : /\ job'[q].pc \in {"idle", "plan"}
                                                /\ job'[q].pc = "plan" => job'[q].i <= f
  <2>1. job[p] \in Run /\ job[p].i \in File /\ job[p].i <= f
    BY <1>2, <1>6, RunFields DEF PlanTarget
  <2>2. job[p].i # f
    BY <1>1, <1>2, <1>6, TypoUnreadable DEF PlanTarget
  <2>3. job[p].i + 1 <= f
    BY <1>4, <2>1, <2>2 DEF File
  <2>4. job'[p].pc = "plan" /\ job'[p].i = job[p].i + 1
    BY <1>6, <2>1 DEF PlanTarget, TypeInv, TypeOK, Run
  <2>5. \A q \in Process \ {p} : job'[q] = job[q]
    BY <1>6 DEF PlanTarget, TypeInv, TypeOK
  <2> QED BY <1>2, <1>6, <2>3, <2>4, <2>5 DEF PlanTarget
<1>7. ASSUME NEW p \in Process PROVE ~ PlanComplete(p)
  <2> SUFFICES ASSUME PlanComplete(p) PROVE FALSE
    OBVIOUS
  <2>1. job[p] \in Run /\ job[p].i <= f
    BY <1>2, RunFields DEF PlanComplete
  <2> QED BY <1>4, <2>1 DEF PlanComplete, Run, File
<1>8. ASSUME NEW p \in Process, ReadFails(p) \/ Crash(p)
      PROVE  file' = file /\ \A q \in Process : /\ job'[q].pc \in {"idle", "plan"}
                                                /\ job'[q].pc = "plan" => job'[q].i <= f
  BY <1>2, <1>8 DEF ReadFails, Crash, TypeInv, TypeOK, NoRun
<1>9. \A g \in File : ~ UserSaves(g)
  BY DEF UserSaves, TypeInv, TypeOK
<1>10. CASE UNCHANGED vars
  BY <1>1, <1>2, <1>10 DEF vars
<1> QED
  BY <1>1, <1>2, <1>3, <1>5, <1>6, <1>7, <1>8, <1>9, <1>10 DEF Next

\* A settings file with a syntax error stops every run before any file is
\* touched, whatever the other targets are (run.ts:51-64, 91-131).
THEOREM TypoAlwaysStopsEverything == Spec => []TypoStopsEverything
<1>1. Init => StopsInv
  BY DEF Init, StopsInv, NoRun
<1>2. StopsInv => TypoStopsEverything
  BY DEF StopsInv, TypoStopsEverything
<1> QED
  BY <1>1, <1>2, InitType, NextType, NextStops, PTL DEF Spec

-----------------------------------------------------------------------------
(* The user's parts.                                                       *)

\* d has the settings of c, and the entries that are not ctxlite's.
Keeps(c, d) ==
    /\ c.rest \subseteq d.rest
    /\ \A l \in List : c.lists[l].entries \ {"ours", "stale"} \subseteq d.lists[l].entries

\* A list replaced by one with all of the user's entries keeps an ordinary
\* settings file.
LEMMA WithListKeeps ==
    ASSUME NEW c \in Config, Ordinary(c), NEW l \in List,
           NEW E \in SUBSET {"ours", "stale", "theirs"},
           Of(c, l) \ {"ours", "stale"} \subseteq E
    PROVE  Ordinary(WithList(c, l, E)) /\ Keeps(c, WithList(c, l, E))
BY DEF WithList, Config, Ordinary, Keeps, Of

\* An ordinary settings file has only ordinary entries.
LEMMA OrdinaryEntries ==
    ASSUME NEW c \in Config, Ordinary(c), NEW l \in List
    PROVE  Of(c, l) \in SUBSET {"ours", "stale", "theirs"}
BY DEF Config, Ordinary, Of

\* A hook added or dropped keeps an ordinary settings file.
LEMMA HookKeeps ==
    ASSUME NEW c \in Config, Ordinary(c), NEW l \in List
    PROVE  /\ Ordinary(AddHook(c, l)) /\ Keeps(c, AddHook(c, l))
           /\ Ordinary(DropHook(c, l)) /\ Keeps(c, DropHook(c, l))
<1>1. Ordinary(AddHook(c, l)) /\ Keeps(c, AddHook(c, l))
  BY OrdinaryEntries, WithListKeeps DEF AddHook
<1>2. Of(c, l) \ IsHook \in SUBSET {"ours", "stale", "theirs"}
  BY OrdinaryEntries
<1>3. Of(c, l) \ {"ours", "stale"} \subseteq Of(c, l) \ IsHook
  BY OrdinaryEntries DEF IsHook
<1> QED
  BY <1>1, <1>2, <1>3, WithListKeeps DEF DropHook

\* What is kept twice is kept.
LEMMA KeepsTransitive ==
    ASSUME NEW c, NEW d, NEW e, Keeps(c, d), Keeps(d, e)
    PROVE  Keeps(c, e)
BY DEF Keeps

\* Every merge and every removal keeps an ordinary settings file.
LEMMA ApplyKeeps ==
    ASSUME NEW kind \in JsonKind, NEW c \in Config, Ordinary(c), NEW remove \in BOOLEAN
    PROVE  LET n == ApplyConfigChange(kind, c, remove).next IN Ordinary(n) /\ Keeps(c, n)
<1> DEFINE Good(n) == Ordinary(n) /\ Keeps(c, n)
<1>0. Base(c) = c /\ Good(c) /\ "first" \in List /\ "second" \in List
  BY DEF Base, Ordinary, Keeps, List
<1>1. Of(c, "first") \in SUBSET {"ours", "stale", "theirs"}
  BY <1>0, OrdinaryEntries
<1>2. \A E \in SUBSET {"ours", "stale", "theirs"} :
         Of(c, "first") \ {"ours", "stale"} \subseteq E => Good(WithList(c, "first", E))
  BY <1>0, WithListKeeps
<1>3. Plugins(c) = Of(c, "first")
  BY <1>1 DEF Plugins
<1>4. Good(AddPlugin(c)) /\ AddPlugin(c) \in Config
  <2>1. Of(c, "first") \cup {"ours"} \in SUBSET {"ours", "stale", "theirs"}
    BY <1>1
  <2>2. Of(c, "first") \cup {"ours"} \in SUBSET Entry
    BY <2>1 DEF Entry
  <2> QED BY <1>0, <1>2, <1>3, <2>1, <2>2, WithListType DEF AddPlugin
<1>5. \A d \in Config : Good(d) => Good(DefaultSchema(d)) /\ Good([d EXCEPT !.schema = "set"])
  BY DEF DefaultSchema, Config, Ordinary, Keeps
<1>6. Good(RemovePlugin(c).next)
  <2>1. Good(WithList(c, "first", Of(c, "first") \ {"ours"}))
    BY <1>1, <1>2
  <2> QED BY <1>0, <1>3, <2>1 DEF RemovePlugin, Result
<1>7. Good(MergeOpenCode(c).next)
  BY <1>0, <1>4, <1>5 DEF MergeOpenCode, Result
<1>8. Good(MergeTui(c).next)
  BY <1>0, <1>4 DEF MergeTui, Result
<1>9. Good(MergeMcp(c).next)
  <2>1. Good(WithList(c, "first", (Of(c, "first") \ {"stale"}) \cup {"ours"}))
    BY <1>1, <1>2
  <2>2. Good(WithList(c, "first", Of(c, "first")))
    BY <1>1, <1>2
  <2> QED BY <1>0, <2>1, <2>2 DEF MergeMcp, Result
<1>10. Good(RemoveMcp(c).next)
  <2>1. Good(WithList(c, "first", Of(c, "first") \ {"ours", "stale"}))
    BY <1>1, <1>2
  <2> QED BY <1>0, <2>1 DEF RemoveMcp, Result
<1>11. /\ Good(AddHook(c, "first")) /\ Good(DropHook(c, "first"))
       /\ AddHook(c, "first") \in Config /\ DropHook(c, "first") \in Config
  BY <1>0, HookKeeps, HookType
<1>12. Good(AddHook(AddHook(c, "first"), "second"))
  BY <1>0, <1>11, HookKeeps, KeepsTransitive
<1>13. Good(DropHook(DropHook(c, "first"), "second"))
  BY <1>0, <1>11, HookKeeps, KeepsTransitive
<1>14. Good(MergeClaudeHooks(c).next)
  BY <1>0, <1>12 DEF MergeClaudeHooks, Result
<1>15. Good(RemoveClaudeHooks(c).next)
  BY <1>0, <1>13 DEF RemoveClaudeHooks, Result
<1>16. Good(MergeCursorHooks(c).next)
  BY <1>0, <1>5, <1>11 DEF MergeCursorHooks, Result
<1>17. Good(RemoveCursorHooks(c).next)
  BY <1>0, <1>11 DEF RemoveCursorHooks, Result
<1> QED
  BY <1>6, <1>7, <1>8, <1>9, <1>10, <1>14, <1>15, <1>16, <1>17 DEF ApplyConfigChange, JsonKind

\* A text that, where it is settings, is ordinary and keeps those of o.
Fine(o, c) == c # Missing /\ (c \in Config => Ordinary(c) /\ Keeps(o, c))

\* Inductive: a text on its way into a file keeps the user's settings too.
PartsInv ==
    \A f \in File \ raced : original[f] \in Config /\ Ordinary(original[f]) =>
        /\ Fine(original[f], file[f])
        /\ \A p \in Process : job[p].pc \in {"open", "write"} /\ job[p].i = f
                                => Fine(original[f], job[p].next)

\* Nothing but settings is a record of settings.
LEMMA NotSettings ==
    \A c \in {Missing, Truncated, Typo, Torn, Ours, Older} : c \notin Config
BY InstallerAssumption

\* The texts that are not the missing file.
LEMMA NotMissing == Truncated # Missing /\ Torn # Missing
BY InstallerAssumption

\* A file whose user saved settings is a settings file.
LEMMA SettingsKind ==
    ASSUME TypeInv, NEW f \in File, original[f] \in Config
    PROVE  Target[f] \in JsonKind
BY TargetKind, NotSettings DEF TypeInv, TypeOK, Content, Kind

\* What is worked out from a fine text is fine.
LEMMA ChangeKeeps ==
    ASSUME NEW kind \in JsonKind, NEW o \in Config, NEW c \in Content(kind), Fine(o, c),
           Readable(kind, c), NEW remove \in BOOLEAN
    PROVE  Fine(o, Change(kind, c, remove).next)
<1>1. kind # "skill"
  BY DEF JsonKind
<1>2. c \in Config /\ ReadJson(c).data = c
  BY <1>1, NotSettings DEF Content, Readable, ReadJson, NotJson, Fine
<1>3. Change(kind, c, remove).next = ApplyConfigChange(kind, c, remove).next
  BY <1>1, <1>2 DEF Change
<1>4. ApplyConfigChange(kind, c, remove).next \in Config
  BY <1>2, ApplyType
<1> QED
  BY <1>2, <1>3, <1>4, ApplyKeeps, KeepsTransitive, NotSettings DEF Fine

\* Every step keeps PartsInv.
LEMMA NextParts == TypeInv /\ PartsInv /\ [Next]_vars => PartsInv'
<1> SUFFICES ASSUME TypeInv, PartsInv, [Next]_vars,
                    NEW f \in File, f \notin raced',
                    original'[f] \in Config, Ordinary(original'[f])
             PROVE  /\ Fine(original'[f], file'[f])
                    /\ \A p \in Process : job'[p].pc \in {"open", "write"} /\ job'[p].i = f
                                            => Fine(original'[f], job'[p].next)
  BY DEF PartsInv
\* After a save of the file no run is about to write it.
<1>1. ASSUME UserSaves(f)
      PROVE  /\ Fine(original'[f], file'[f])
             /\ \A p \in Process : ~ (job'[p].pc \in {"open", "write"} /\ job'[p].i = f)
  <2>1. file'[f] = original'[f] /\ job' = job
    BY <1>1 DEF UserSaves, TypeInv, TypeOK
  <2>2. ~ \E p \in Process : job[p].pc \in {"open", "write"} /\ job[p].i = f
    BY <1>1 DEF UserSaves
  <2>3. Fine(original'[f], file'[f])
    BY <2>1, NotSettings DEF Fine, Keeps
  <2> QED BY <2>1, <2>2, <2>3
\* A save of another file leaves this one and the runs alone.
<1>u. ASSUME NEW g \in File, UserSaves(g), g # f
      PROVE  /\ file'[f] = file[f] /\ original'[f] = original[f] /\ job' = job
             /\ f \notin raced
  BY <1>u DEF UserSaves, TypeInv, TypeOK
<1> SUFFICES ASSUME ~ UserSaves(f)
             PROVE  /\ Fine(original'[f], file'[f])
                    /\ \A p \in Process : job'[p].pc \in {"open", "write"} /\ job'[p].i = f
                                            => Fine(original'[f], job'[p].next)
  BY <1>1
<1>2. original'[f] = original[f] /\ f \notin raced
  <2>1. CASE \E g \in File : UserSaves(g)
    BY <1>u, <2>1
  <2>2. CASE ~ \E g \in File : UserSaves(g)
    BY <2>2 DEF Next, vars, Start, PlanTarget, PlanComplete, ReadFails, ApplySkip,
                DeleteFile, ReadAgain, OpenFile, WriteFile, Finish, Crash
  <2> QED BY <2>1, <2>2
<1>3. /\ original[f] \in Config /\ Ordinary(original[f]) /\ Fine(original[f], file[f])
      /\ \A p \in Process : job[p].pc \in {"open", "write"} /\ job[p].i = f
                              => Fine(original[f], job[p].next)
  BY <1>2 DEF PartsInv
<1>4. Target[f] \in JsonKind /\ Target[f] # "skill"
  BY <1>3, SettingsKind DEF JsonKind
<1> DEFINE Kept == /\ Fine(original[f], file'[f])
                   /\ \A p \in Process : job'[p].pc \in {"open", "write"} /\ job'[p].i = f
                                           => Fine(original[f], job'[p].next)
<1>5. ASSUME NEW p \in Process, file' = file,
             \/ job' = job
             \/ job'[p].pc \notin {"open", "write"} /\ \A q \in Process \ {p} : job'[q] = job[q]
      PROVE  Kept
  BY <1>3, <1>5
<1>6. ASSUME NEW p \in Process, NEW remove \in BOOLEAN, Start(p, remove) PROVE Kept
  BY <1>5, <1>6 DEF Start, TypeInv, TypeOK, NoRun
<1>7. ASSUME NEW p \in Process, PlanTarget(p) PROVE Kept
  BY <1>5, <1>7, RunFields DEF PlanTarget, TypeInv, TypeOK, Run
<1>8. ASSUME NEW p \in Process, PlanComplete(p) PROVE Kept
  BY <1>5, <1>8, RunFields DEF PlanComplete, TypeInv, TypeOK, Run
<1>9. ASSUME NEW p \in Process, ReadFails(p) \/ Finish(p) \/ Crash(p) PROVE Kept
  BY <1>5, <1>9 DEF ReadFails, Finish, Crash, TypeInv, TypeOK, NoRun
<1>10. ASSUME NEW p \in Process, ApplySkip(p) PROVE Kept
  BY <1>5, <1>10, RunFields DEF ApplySkip, TypeInv, TypeOK, Run
<1>11. ASSUME NEW p \in Process, DeleteFile(p) PROVE Kept
  <2>1. job[p].i # f /\ job[p].i \in File
    BY <1>4, <1>11 DEF DeleteFile
  <2>2. file'[f] = file[f]
    BY <1>11, <2>1 DEF DeleteFile, TypeInv, TypeOK
  <2>3. job'[p].pc = "apply" /\ \A q \in Process \ {p} : job'[q] = job[q]
    BY <1>11, RunFields DEF DeleteFile, TypeInv, TypeOK, Run
  <2> QED BY <1>3, <2>2, <2>3
<1>12. ASSUME NEW p \in Process, ReadAgain(p) PROVE Kept
  <2>1. job[p] \in Run /\ job[p].i \in File /\ file' = file
    BY <1>12, RunFields DEF ReadAgain
  <2>2. \A q \in Process \ {p} : job'[q] = job[q]
    BY <1>12 DEF ReadAgain, TypeInv, TypeOK
  <2>3. /\ job'[p].i = job[p].i
        /\ job'[p].next = Change(Target[job[p].i], file[job[p].i], job[p].remove).next
    BY <1>12, <2>1 DEF ReadAgain, TypeInv, TypeOK, Run
  <2>4. CASE job[p].i = f
    <3>1. file[f] \in Content(Target[f]) /\ job[p].remove \in BOOLEAN
      BY <2>1 DEF TypeInv, TypeOK, Run
    <3>2. Readable(Target[f], file[f])
      BY <1>12, <2>4 DEF ReadAgain
    <3>3. Fine(original[f], job'[p].next)
      BY <1>3, <1>4, <2>3, <2>4, <3>1, <3>2, ChangeKeeps
    <3> QED BY <1>3, <2>1, <2>2, <3>3
  <2>5. CASE job[p].i # f
    BY <1>3, <2>1, <2>2, <2>3, <2>5
  <2> QED BY <2>4, <2>5
<1>13. ASSUME NEW p \in Process, OpenFile(p) PROVE Kept
  <2>1. job[p] \in Run /\ job[p].i \in File
    BY <1>13, RunFields DEF OpenFile, TypeInv, Holds
  <2>2. /\ job'[p].i = job[p].i /\ job'[p].next = job[p].next
        /\ \A q \in Process \ {p} : job'[q] = job[q]
    BY <1>13, <2>1 DEF OpenFile, TypeInv, TypeOK, Run
  <2>3. file'[f] \in {file[f], Truncated}
    BY <1>13 DEF OpenFile, TypeInv, TypeOK
  <2>4. Fine(original[f], file'[f])
    BY <1>3, <2>3, NotSettings, NotMissing DEF Fine
  <2>5. job[p].pc = "open"
    BY <1>13 DEF OpenFile
  <2> QED BY <1>3, <2>2, <2>4, <2>5
<1>14. ASSUME NEW p \in Process, WriteFile(p) PROVE Kept
  <2>1. job[p] \in Run /\ job[p].i \in File /\ job[p].pc = "write"
    BY <1>14, RunFields DEF WriteFile, TypeInv, Holds
  <2>2. job'[p].pc = "apply" /\ \A q \in Process \ {p} : job'[q] = job[q]
    BY <1>14, <2>1 DEF WriteFile, TypeInv, TypeOK, Run
  <2>3. PICK c \in {file[job[p].i], job[p].next, Torn} : file' = [file EXCEPT ![job[p].i] = c]
    BY <1>14 DEF WriteFile
  <2>4. job[p].i = f => Fine(original[f], c)
    BY <1>3, <2>1, <2>3, NotSettings, NotMissing DEF Fine
  <2>5. Fine(original[f], file'[f])
    BY <1>3, <2>3, <2>4 DEF TypeInv, TypeOK
  <2> QED BY <1>3, <2>2, <2>5
<1>15. ASSUME UNCHANGED vars PROVE Kept
  BY <1>3, <1>15 DEF vars
<1>16. ASSUME NEW g \in File, UserSaves(g) PROVE Kept
  BY <1>3, <1>16, <1>u
<1>17. Kept
  BY <1>6, <1>7, <1>8, <1>9, <1>10, <1>11, <1>12, <1>13, <1>14, <1>15, <1>16 DEF Next
<1> QED
  BY <1>2, <1>17

\* Init establishes PartsInv.
LEMMA InitParts == Init => PartsInv
<1>0. ASSUME Init, NEW p \in Process PROVE job[p].pc = "idle"
  <2>1. job = [q \in Process |-> NoRun]
    BY <1>0 DEF Init
  <2> QED BY <1>0, <2>1 DEF NoRun
<1> SUFFICES ASSUME Init, NEW f \in File, original[f] \in Config, Ordinary(original[f])
             PROVE  Fine(original[f], file[f])
  BY <1>0 DEF PartsInv
<1>1. file[f] = original[f]
  BY DEF Init
<1> QED
  BY <1>1, NotSettings DEF Fine, Keeps

\* Ordinary files that keep the settings keep all the user's parts.
LEMMA KeepsParts ==
    ASSUME NEW o \in Config, NEW c \in Config, Ordinary(o), Ordinary(c), Keeps(o, c)
    PROVE  UserParts(o) \subseteq UserParts(c)
BY DEF UserParts, Ordinary, Keeps

\* Ordinary settings keep all that the user saved in them, whatever runs
\* install and remove side by side, complete or not (merge.ts:24-266,
\* run.ts:130-165).
THEOREM UserPartsAlwaysStay == Spec => []UserPartsStay
<1>1. TypeInv /\ PartsInv => UserPartsStay
  <2> SUFFICES ASSUME PartsInv, NEW f \in File, f \notin raced, file[f] \in Config,
                      original[f] \in Config, Ordinary(original[f])
               PROVE  UserParts(original[f]) \subseteq UserParts(file[f])
    BY DEF UserPartsStay
  <2> QED
    BY KeepsParts DEF PartsInv, Fine
<1> QED
  BY <1>1, InitType, NextType, InitParts, NextParts, PTL DEF Spec

-----------------------------------------------------------------------------
(* The same command again.                                                 *)

\* What a list holds after it was replaced; all else stays.
LEMMA WithListOf ==
    ASSUME NEW c \in Config, NEW l \in List, NEW E \in SUBSET Entry
    PROVE  /\ Of(WithList(c, l, E), l) = E
           /\ \A m \in List \ {l} : Of(WithList(c, l, E), m) = Of(c, m)
           /\ WithList(c, l, E).object = c.object
           /\ WithList(c, l, E).schema = c.schema
BY DEF WithList, Of, Config

\* A settings file that holds an object is what a merge starts from.
LEMMA BaseSame == ASSUME NEW c \in Config, c.object PROVE Base(c) = c
BY DEF Base

\* Setting $schema changes neither list and not whether it is an object.
LEMMA SchemaOf ==
    ASSUME NEW c \in Config
    PROVE  /\ \A l \in List : Of(DefaultSchema(c), l) = Of(c, l)
           /\ \A l \in List : Of([c EXCEPT !.schema = "set"], l) = Of(c, l)
           /\ DefaultSchema(c).object = c.object
           /\ [c EXCEPT !.schema = "set"].object = c.object
           /\ [c EXCEPT !.schema = "set"].schema = "set"
           /\ DefaultSchema(c).schema # "absent"
BY DEF DefaultSchema, Of, Config

\* An added hook is there, a dropped one is not, in that list only.
LEMMA HookOf ==
    ASSUME NEW c \in Config, NEW l \in List
    PROVE  /\ Hooked(AddHook(c, l), l) /\ ~ Hooked(DropHook(c, l), l)
           /\ \A m \in List \ {l} : /\ Hooked(AddHook(c, l), m) <=> Hooked(c, m)
                                    /\ Hooked(DropHook(c, l), m) <=> Hooked(c, m)
           /\ AddHook(c, l).object = c.object /\ DropHook(c, l).object = c.object
<1> DEFINE A == IF Hooked(c, l) THEN Of(c, l) ELSE Of(c, l) \cup {"ours"}
           D == Of(c, l) \ IsHook
<1>1. A \in SUBSET Entry /\ D \in SUBSET Entry
  BY OfType DEF Entry
<1>2. A \cap IsHook # {} /\ D \cap IsHook = {}
  BY DEF Hooked, IsHook
<1> HIDE DEF A, D
<1>3. AddHook(c, l) = WithList(c, l, A) /\ DropHook(c, l) = WithList(c, l, D)
  BY DEF AddHook, DropHook, A, D
<1> QED
  BY <1>1, <1>2, <1>3, WithListOf DEF Hooked

\* The plugin, once added or removed, is there or not, and so it stays.
LEMMA PluginSettles ==
    ASSUME NEW c \in Config
    PROVE  /\ SettledBy("opencode", MergeOpenCode(c).next, FALSE)
           /\ SettledBy("opencode-tui", MergeTui(c).next, FALSE)
           /\ ~ RemovePlugin(RemovePlugin(c).next).changed
<1> DEFINE b == Base(c)
<1>1. b \in Config /\ b.object /\ "first" \in List
  BY BaseType DEF List
<1>2. /\ Plugins(b) \cup {"ours"} \in SUBSET Entry
      /\ Plugins(b) \ {"ours"} \in SUBSET Entry
  BY <1>1, OfType DEF Plugins, Entry
<1>3. /\ AddPlugin(b) \in Config /\ AddPlugin(b).object
      /\ "ours" \in Plugins(AddPlugin(b))
  BY <1>1, <1>2, WithListType, WithListOf DEF AddPlugin, Plugins
<1> HIDE DEF b
<1>4. SettledBy("opencode", MergeOpenCode(c).next, FALSE)
  <2>1. CASE "ours" \in Plugins(b)
    <3> DEFINE n == [b EXCEPT !.schema = "set"]
    <3>1. n \in Config /\ n.object /\ "ours" \in Plugins(n) /\ n.schema = "set"
      BY <1>1, <2>1, SchemaType, SchemaOf DEF Plugins
    <3>2. MergeOpenCode(c).next = n
      BY <2>1 DEF MergeOpenCode, Result, b
    <3> HIDE DEF n
    <3> QED BY <3>1, <3>2, BaseSame DEF SettledBy, ApplyConfigChange, MergeOpenCode, Result
  <2>2. CASE "ours" \notin Plugins(b)
    <3> DEFINE n == DefaultSchema(AddPlugin(b))
    <3>1. n \in Config /\ n.object /\ "ours" \in Plugins(n) /\ n.schema # "absent"
      BY <1>1, <1>3, SchemaType, SchemaOf DEF Plugins
    <3>2. MergeOpenCode(c).next = n
      BY <2>2 DEF MergeOpenCode, Result, b
    <3> HIDE DEF n
    <3>3. n.schema \in {"empty", "set"}
      BY <3>1 DEF Config
    <3> QED BY <3>1, <3>2, <3>3, BaseSame DEF SettledBy, ApplyConfigChange, MergeOpenCode, Result
  <2> QED BY <2>1, <2>2
<1>5. SettledBy("opencode-tui", MergeTui(c).next, FALSE)
  <2>1. MergeTui(c).next = IF "ours" \in Plugins(b) THEN b ELSE AddPlugin(b)
    BY DEF MergeTui, Result, b
  <2> DEFINE n == MergeTui(c).next
  <2>2. n \in Config /\ n.object /\ "ours" \in Plugins(n)
    BY <1>1, <1>3, <2>1
  <2> HIDE DEF n
  <2> QED BY <2>2, BaseSame DEF SettledBy, ApplyConfigChange, MergeTui, Result, n
<1>6. ~ RemovePlugin(RemovePlugin(c).next).changed
  <2> DEFINE E == Plugins(b) \ {"ours"}
             n == IF "ours" \in Plugins(b) THEN WithList(b, "first", E) ELSE b
  <2>1. RemovePlugin(c).next = n
    BY DEF RemovePlugin, Result, b
  <2>2. n \in Config /\ n.object /\ "ours" \notin Plugins(n)
    BY <1>1, <1>2, WithListType, WithListOf DEF Plugins
  <2> HIDE DEF n
  <2> QED BY <2>1, <2>2, BaseSame DEF RemovePlugin, Result
<1> QED
  BY <1>4, <1>5, <1>6

\* The server's entry, once added or removed, is there or not, and no other
\* of its name.
LEMMA McpSettles ==
    ASSUME NEW c \in Config
    PROVE  ~ MergeMcp(MergeMcp(c).next).changed /\ ~ RemoveMcp(RemoveMcp(c).next).changed
<1> DEFINE b == Base(c)
           servers == Of(b, "first")
           added == IF "ours" \in servers THEN servers
                    ELSE (servers \ {"stale"}) \cup {"ours"}
           left == servers \ {"ours", "stale"}
<1>1. b \in Config /\ b.object /\ "first" \in List
  BY BaseType DEF List
<1>2. servers \in SUBSET Entry
  BY <1>1, OfType
<1>3. added \in SUBSET Entry /\ "ours" \in added /\ left \in SUBSET Entry
  BY <1>2 DEF Entry
<1>4. MergeMcp(c).next = WithList(b, "first", added)
  BY DEF MergeMcp, Result
<1>5. RemoveMcp(c).next = IF servers \cap {"ours", "stale"} # {}
                          THEN WithList(b, "first", left) ELSE b
  BY DEF RemoveMcp, Result
<1> HIDE DEF added, b
<1>6. ~ MergeMcp(MergeMcp(c).next).changed
  <2> DEFINE n == WithList(b, "first", added)
  <2>1. n \in Config /\ n.object /\ Of(n, "first") = added
    BY <1>1, <1>3, WithListType, WithListOf
  <2> HIDE DEF n
  <2>2. MergeMcp(c).next = n
    BY <1>4 DEF n
  <2> QED BY <1>3, <2>1, <2>2, BaseSame DEF MergeMcp, Result
<1>7. ~ RemoveMcp(RemoveMcp(c).next).changed
  <2> DEFINE n == IF servers \cap {"ours", "stale"} # {}
                  THEN WithList(b, "first", left) ELSE b
  <2>1. n \in Config /\ n.object /\ Of(n, "first") \cap {"ours", "stale"} = {}
    BY <1>1, <1>3, WithListType, WithListOf
  <2>2. RemoveMcp(c).next = n
    BY <1>5
  <2> HIDE DEF n
  <2> QED BY <2>1, <2>2, BaseSame DEF RemoveMcp, Result
<1> QED
  BY <1>6, <1>7

\* The hooks, once added to their lists or dropped from them, are there or
\* not.
LEMMA HooksSettle ==
    ASSUME NEW c \in Config
    PROVE  /\ ~ MergeClaudeHooks(MergeClaudeHooks(c).next).changed
           /\ ~ RemoveClaudeHooks(RemoveClaudeHooks(c).next).changed
           /\ ~ MergeCursorHooks(MergeCursorHooks(c).next).changed
           /\ ~ RemoveCursorHooks(RemoveCursorHooks(c).next).changed
<1> DEFINE b == Base(c)
           a1 == AddHook(b, "first")
           a2 == AddHook(a1, "second")
           d1 == DropHook(b, "first")
           d2 == DropHook(d1, "second")
<1>1. b \in Config /\ b.object /\ List = {"first", "second"}
  BY BaseType DEF List
<1> HIDE DEF b
<1>2. a1 \in Config /\ a1.object /\ Hooked(a1, "first")
  BY <1>1, HookType, HookOf
<1>3. d1 \in Config /\ d1.object /\ ~ Hooked(d1, "first")
  BY <1>1, HookType, HookOf
<1> HIDE DEF a1, d1
<1>s. "second" \in List /\ "first" \in List \ {"second"}
  BY <1>1
<1>4. a2 \in Config /\ a2.object /\ \A l \in List : Hooked(a2, l)
  <2>1. a2 \in Config /\ a2.object /\ Hooked(a2, "second")
    BY <1>2, <1>s, HookType, HookOf
  <2>2. Hooked(a2, "first")
    BY <1>2, <1>s, HookOf
  <2> QED BY <1>1, <2>1, <2>2
<1>5. d2 \in Config /\ d2.object /\ \A l \in List : ~ Hooked(d2, l)
  <2>1. d2 \in Config /\ d2.object /\ ~ Hooked(d2, "second")
    BY <1>3, <1>s, HookType, HookOf
  <2>2. ~ Hooked(d2, "first")
    BY <1>3, <1>s, HookOf
  <2> QED BY <1>1, <2>1, <2>2
<1> HIDE DEF a2, d2
<1>6. ~ MergeClaudeHooks(MergeClaudeHooks(c).next).changed
  <2>1. MergeClaudeHooks(c).next = IF \A l \in List : Hooked(b, l) THEN b ELSE a2
    BY DEF MergeClaudeHooks, Result, b, a1, a2
  <2> DEFINE n == MergeClaudeHooks(c).next
  <2>2. n \in Config /\ n.object /\ \A l \in List : Hooked(n, l)
    BY <1>1, <1>4, <2>1
  <2> HIDE DEF n
  <2>3. ~ MergeClaudeHooks(n).changed
    BY <2>2, BaseSame DEF MergeClaudeHooks, Result
  <2> QED BY <2>3 DEF n
<1>7. ~ RemoveClaudeHooks(RemoveClaudeHooks(c).next).changed
  <2>1. RemoveClaudeHooks(c).next = IF \E l \in List : Hooked(b, l) THEN d2 ELSE b
    BY DEF RemoveClaudeHooks, Result, b, d1, d2
  <2> DEFINE n == RemoveClaudeHooks(c).next
  <2>2. n \in Config /\ n.object /\ \A l \in List : ~ Hooked(n, l)
    BY <1>1, <1>5, <2>1
  <2> HIDE DEF n
  <2>3. ~ RemoveClaudeHooks(n).changed
    BY <2>2, BaseSame DEF RemoveClaudeHooks, Result
  <2> QED BY <2>3 DEF n
<1>8. ~ MergeCursorHooks(MergeCursorHooks(c).next).changed
  <2>1. MergeCursorHooks(c).next = IF Hooked(b, "first") THEN b ELSE DefaultSchema(a1)
    BY DEF MergeCursorHooks, Result, b, a1
  <2>2. /\ DefaultSchema(a1) \in Config /\ DefaultSchema(a1).object
        /\ Hooked(DefaultSchema(a1), "first")
    BY <1>1, <1>2, SchemaType, SchemaOf DEF Hooked
  <2> DEFINE n == MergeCursorHooks(c).next
  <2>3. n \in Config /\ n.object /\ Hooked(n, "first")
    BY <1>1, <2>1, <2>2
  <2> HIDE DEF n
  <2>4. ~ MergeCursorHooks(n).changed
    BY <2>3, BaseSame DEF MergeCursorHooks, Result
  <2> QED BY <2>4 DEF n
<1>9. ~ RemoveCursorHooks(RemoveCursorHooks(c).next).changed
  <2>1. RemoveCursorHooks(c).next = IF Hooked(b, "first") THEN d1 ELSE b
    BY DEF RemoveCursorHooks, Result, b, d1
  <2> DEFINE n == RemoveCursorHooks(c).next
  <2>2. n \in Config /\ n.object /\ ~ Hooked(n, "first")
    BY <1>1, <1>3, <2>1
  <2> HIDE DEF n
  <2>3. ~ RemoveCursorHooks(n).changed
    BY <2>2, BaseSame DEF RemoveCursorHooks, Result
  <2> QED BY <2>3 DEF n
<1> QED
  BY <1>6, <1>7, <1>8, <1>9

\* What a merge or a removal makes of a settings file it does not change again.
LEMMA ApplySettles ==
    ASSUME NEW kind \in JsonKind, NEW c \in Config, NEW remove \in BOOLEAN
    PROVE  SettledBy(kind, ApplyConfigChange(kind, c, remove).next, remove)
<1>1. CASE kind = "opencode"
  BY <1>1, PluginSettles DEF SettledBy, ApplyConfigChange
<1>2. CASE kind = "opencode-tui"
  BY <1>2, PluginSettles DEF SettledBy, ApplyConfigChange
<1>3. CASE kind = "mcp"
  BY <1>3, McpSettles DEF SettledBy, ApplyConfigChange
<1>4. CASE kind \in {"claude-code-hooks", "cursor-hooks"}
  BY <1>4, HooksSettle DEF SettledBy, ApplyConfigChange
<1> QED
  BY <1>1, <1>2, <1>3, <1>4 DEF JsonKind

\* What a run is about to write the same command would not change again.
SettledInv ==
    \A p \in Process : job[p].pc \in {"open", "write"} /\ job[p].next \in Config
        => SettledBy(Target[job[p].i], job[p].next, job[p].remove)

\* Every step keeps SettledInv.
LEMMA NextSettled == TypeInv /\ SettledInv /\ [Next]_vars => SettledInv'
<1> SUFFICES ASSUME TypeInv, SettledInv, [Next]_vars PROVE SettledInv'
  OBVIOUS
<1>1. ASSUME NEW p \in Process,
             job'[p].pc \notin {"open", "write"}, \A q \in Process \ {p} : job'[q] = job[q]
      PROVE  SettledInv'
  BY <1>1 DEF SettledInv
<1>2. ASSUME job' = job PROVE SettledInv'
  BY <1>2 DEF SettledInv
<1>3. ASSUME NEW p \in Process, NEW remove \in BOOLEAN, Start(p, remove) PROVE SettledInv'
  BY <1>1, <1>3 DEF Start, TypeInv, TypeOK, NoRun
<1>4. ASSUME NEW p \in Process, PlanTarget(p) PROVE SettledInv'
  BY <1>1, <1>4, RunFields DEF PlanTarget, TypeInv, TypeOK, Run
<1>5. ASSUME NEW p \in Process, PlanComplete(p) PROVE SettledInv'
  BY <1>1, <1>5, RunFields DEF PlanComplete, TypeInv, TypeOK, Run
<1>6. ASSUME NEW p \in Process, ReadFails(p) \/ Finish(p) \/ Crash(p) PROVE SettledInv'
  BY <1>1, <1>6 DEF ReadFails, Finish, Crash, TypeInv, TypeOK, NoRun
<1>7. ASSUME NEW p \in Process, ApplySkip(p) \/ DeleteFile(p) PROVE SettledInv'
  <2>1. job[p] \in Run /\ job[p].pc = "apply" /\ job' = [job EXCEPT ![p].i = job[p].i + 1]
    BY <1>7, RunFields DEF ApplySkip, DeleteFile
  <2>2. job'[p].pc = "apply" /\ \A q \in Process \ {p} : job'[q] = job[q]
    BY <2>1 DEF TypeInv, TypeOK, Run
  <2> QED BY <1>1, <2>2
<1>8. ASSUME NEW p \in Process, ReadAgain(p) PROVE SettledInv'
  <2> DEFINE f == job[p].i
  <2>1. job[p] \in Run /\ f \in File
    BY <1>8, RunFields DEF ReadAgain
  <2>2. /\ job'[p].i = f /\ job'[p].remove = job[p].remove
        /\ job'[p].next = Change(Target[f], file[f], job[p].remove).next
        /\ \A q \in Process \ {p} : job'[q] = job[q]
    BY <1>8, <2>1 DEF ReadAgain, TypeInv, TypeOK, Run
  <2>3. file[f] \in Content(Target[f]) /\ Target[f] \in Kind /\ job[p].remove \in BOOLEAN
    BY <2>1, TargetKind DEF TypeInv, TypeOK, Run
  <2>4. CASE Target[f] = "skill"
    <3>1. job'[p].next \notin Config
      BY <2>2, <2>4, NotSettings DEF Change, FullFileChange, Result
    <3> QED BY <2>2, <3>1 DEF SettledInv
  <2>5. CASE Target[f] # "skill"
    <3>1. Target[f] \in JsonKind
      BY <2>3, <2>5 DEF Kind
    <3>2. ReadJson(file[f]).data \in Config
      BY <1>8, <2>3, <2>5, EmptyType DEF ReadAgain, Readable, ReadJson, NotJson, Content
    <3>3. job'[p].next = ApplyConfigChange(Target[f], ReadJson(file[f]).data, job[p].remove).next
      BY <2>2, <2>5 DEF Change
    <3>4. SettledBy(Target[f], job'[p].next, job[p].remove)
      BY <2>3, <3>1, <3>2, <3>3, ApplySettles
    <3> QED BY <2>2, <3>4 DEF SettledInv
  <2> QED BY <2>4, <2>5
<1>9. ASSUME NEW p \in Process, OpenFile(p) PROVE SettledInv'
  <2>1. job[p] \in Run /\ job[p].pc = "open"
    BY <1>9, RunFields DEF OpenFile
  <2>2. /\ job'[p].i = job[p].i /\ job'[p].next = job[p].next /\ job'[p].remove = job[p].remove
        /\ \A q \in Process \ {p} : job'[q] = job[q]
    BY <1>9, <2>1 DEF OpenFile, TypeInv, TypeOK, Run
  <2> QED BY <2>1, <2>2 DEF SettledInv
<1>10. ASSUME NEW p \in Process, WriteFile(p) PROVE SettledInv'
  BY <1>1, <1>10, RunFields DEF WriteFile, TypeInv, TypeOK, Run
<1>11. ASSUME NEW f \in File, UserSaves(f) PROVE SettledInv'
  BY <1>2, <1>11 DEF UserSaves
<1>12. ASSUME UNCHANGED vars PROVE SettledInv'
  BY <1>2, <1>12 DEF vars
<1> QED
  BY <1>3, <1>4, <1>5, <1>6, <1>7, <1>8, <1>9, <1>10, <1>11, <1>12 DEF Next

\* Installing, or removing, twice changes nothing, whatever the settings files
\* hold and whoever else writes them (merge.ts:24-242): the one exception is
\* a $schema that is an empty string.
THEOREM SecondRunIsAlwaysNoOp == Spec => []SecondRunIsNoOp
<1>1. MergesSettle
  <2> SUFFICES ASSUME NEW s \in Shape, NEW kind \in JsonKind, NEW remove \in BOOLEAN,
                      Readable(kind, s[kind])
               PROVE  SettledBy(kind, Change(kind, s[kind], remove).next, remove)
    BY DEF MergesSettle
  <2>1. kind # "skill"
    BY DEF JsonKind
  <2>2. s[kind] \in {Missing, Typo} \cup Config
    BY InstallerAssumption
  <2>3. ReadJson(s[kind]).data \in Config
    BY <2>1, <2>2, EmptyType DEF Readable, ReadJson, NotJson
  <2> QED BY <2>1, <2>3, ApplySettles DEF Change
<1>2. Init => SettledInv
  BY DEF Init, SettledInv, NoRun
<1>3. SettledInv => SecondRunIsNoOp
  BY <1>1 DEF SettledInv, SecondRunIsNoOp
<1> QED
  BY <1>2, <1>3, InitType, NextType, NextSettled, PTL DEF Spec

-----------------------------------------------------------------------------
(* An installation that completed is in every target.                      *)

\* Settings that an installation does not change have ctxlite in them, and
\* are what it would write.
LEMMA UnchangedIsDone ==
    ASSUME NEW kind \in JsonKind, NEW c \in Config, c.object,
           ~ ApplyConfigChange(kind, c, FALSE).changed
    PROVE  ApplyConfigChange(kind, c, FALSE).next = c /\ HasOurs(kind, c)
<1>b. Base(c) = c /\ "first" \in List /\ "ours" \in IsHook
  BY BaseSame DEF List, IsHook
<1>h. ASSUME kind # "claude-code-hooks", Of(c, "first") \cap IsHook # {}
      PROVE  HasOurs(kind, c)
  BY <1>h DEF HasOurs
<1>1. CASE kind = "opencode"
  <2>1. "ours" \in Plugins(c) /\ ~ (c.schema # "set")
    BY <1>1, <1>b DEF ApplyConfigChange, MergeOpenCode, Result
  <2>2. [c EXCEPT !.schema = "set"] = c
    BY <2>1 DEF Config
  <2>3. ApplyConfigChange(kind, c, FALSE).next = c
    BY <1>1, <1>b, <2>1, <2>2 DEF ApplyConfigChange, MergeOpenCode, Result
  <2>4. Of(c, "first") \cap IsHook # {}
    BY <1>b, <2>1 DEF Plugins
  <2> QED BY <1>1, <1>h, <2>3, <2>4
<1>2. CASE kind = "opencode-tui"
  <2>1. "ours" \in Plugins(c)
    BY <1>2, <1>b DEF ApplyConfigChange, MergeTui, Result
  <2>2. ApplyConfigChange(kind, c, FALSE).next = c
    BY <1>2, <1>b, <2>1 DEF ApplyConfigChange, MergeTui, Result
  <2>3. Of(c, "first") \cap IsHook # {}
    BY <1>b, <2>1 DEF Plugins
  <2> QED BY <1>2, <1>h, <2>2, <2>3
<1>3. CASE kind = "mcp"
  <2>1. "ours" \in Of(c, "first")
    BY <1>3, <1>b DEF ApplyConfigChange, MergeMcp, Result
  <2>2. WithList(c, "first", Of(c, "first")) = c
    BY <1>b, <2>1 DEF WithList, Of, Config
  <2>3. ApplyConfigChange(kind, c, FALSE).next = c
    BY <1>3, <1>b, <2>1, <2>2 DEF ApplyConfigChange, MergeMcp, Result
  <2> QED BY <1>3, <1>b, <1>h, <2>1, <2>3
<1>4. CASE kind = "claude-code-hooks"
  <2>1. \A l \in List : Hooked(c, l)
    BY <1>4, <1>b DEF ApplyConfigChange, MergeClaudeHooks, Result
  <2>2. ApplyConfigChange(kind, c, FALSE).next = c
    BY <1>4, <1>b, <2>1 DEF ApplyConfigChange, MergeClaudeHooks, Result
  <2>3. HasOurs(kind, c)
    BY <2>1 DEF HasOurs, Hooked
  <2> QED BY <2>2, <2>3
<1>5. CASE kind = "cursor-hooks"
  <2>1. Hooked(c, "first")
    BY <1>5, <1>b DEF ApplyConfigChange, MergeCursorHooks, Result
  <2>2. ApplyConfigChange(kind, c, FALSE).next = c
    BY <1>5, <1>b, <2>1 DEF ApplyConfigChange, MergeCursorHooks, Result
  <2> QED BY <1>5, <1>h, <2>1, <2>2 DEF Hooked
<1> QED
  BY <1>1, <1>2, <1>3, <1>4, <1>5 DEF JsonKind

\* An empty object is changed by every installation.
LEMMA EmptyIsChanged ==
    ASSUME NEW kind \in JsonKind
    PROVE  ApplyConfigChange(kind, Empty, FALSE).changed
<1>1. ~ HasOurs(kind, Empty)
  <2>1. Of(Empty, "first") = {} /\ "first" \in List
    BY DEF Of, Empty, NoList, List
  <2> QED BY <2>1, EmptyType DEF HasOurs
<1> QED
  BY <1>1, EmptyType, UnchangedIsDone

\* An installation starts from the empty object where there is none.
LEMMA BaseOnly ==
    ASSUME NEW kind \in JsonKind, NEW c \in Config
    PROVE  ApplyConfigChange(kind, c, FALSE) = ApplyConfigChange(kind, Base(c), FALSE)
<1>1. Base(Base(c)) = Base(c)
  BY BaseType, BaseSame
<1> QED
  BY <1>1 DEF ApplyConfigChange, MergeOpenCode, MergeTui, MergeMcp, MergeClaudeHooks,
              MergeCursorHooks, JsonKind

\* An installation makes an object, and no empty $schema.
LEMMA ApplyMakesObject ==
    ASSUME NEW kind \in JsonKind, NEW c \in Config
    PROVE  /\ ApplyConfigChange(kind, c, FALSE).next.object
           /\ c.schema # "empty" =>
                ApplyConfigChange("opencode", c, FALSE).next.schema # "empty"
<1> DEFINE b == Base(c)
<1>1. b \in Config /\ b.object /\ List = {"first", "second"}
  BY BaseType DEF List
<1>2. c.schema # "empty" => b.schema # "empty"
  BY DEF Base, Empty
<1> HIDE DEF b
<1>3. \A E \in SUBSET Entry : /\ WithList(b, "first", E) \in Config
                              /\ WithList(b, "first", E).object
                              /\ WithList(b, "first", E).schema = b.schema
  BY <1>1, WithListType, WithListOf
<1>4. AddPlugin(b) \in Config /\ AddPlugin(b).object /\ AddPlugin(b).schema = b.schema
  <2>1. Plugins(b) \cup {"ours"} \in SUBSET Entry
    BY <1>1, OfType DEF Plugins, Entry
  <2> QED BY <1>3, <2>1 DEF AddPlugin
<1>5. /\ MergeOpenCode(c).next.object
      /\ b.schema # "empty" => MergeOpenCode(c).next.schema # "empty"
  <2>1. /\ DefaultSchema(AddPlugin(b)).object
        /\ b.schema # "empty" => DefaultSchema(AddPlugin(b)).schema # "empty"
    BY <1>4 DEF DefaultSchema, Config
  <2>2. [b EXCEPT !.schema = "set"].object /\ [b EXCEPT !.schema = "set"].schema # "empty"
    BY <1>1, SchemaOf
  <2>3. MergeOpenCode(c).next \in {[b EXCEPT !.schema = "set"], DefaultSchema(AddPlugin(b))}
    BY DEF MergeOpenCode, Result, b
  <2> QED BY <2>1, <2>2, <2>3
<1>6. MergeTui(c).next.object
  BY <1>1, <1>4 DEF MergeTui, Result, b
<1>7. MergeMcp(c).next.object
  <2>1. Of(b, "first") \in SUBSET Entry /\ (Of(b, "first") \ {"stale"}) \cup {"ours"} \in SUBSET Entry
    BY <1>1, OfType DEF Entry
  <2> QED BY <1>3, <2>1 DEF MergeMcp, Result, b
<1>8. MergeClaudeHooks(c).next.object
  <2>1. AddHook(b, "first") \in Config /\ AddHook(b, "first").object
    BY <1>1, HookType, HookOf
  <2>2. AddHook(AddHook(b, "first"), "second").object
    BY <1>1, <2>1, HookOf
  <2> QED BY <1>1, <2>2 DEF MergeClaudeHooks, Result, b
<1>9. MergeCursorHooks(c).next.object
  <2>1. AddHook(b, "first") \in Config /\ AddHook(b, "first").object
    BY <1>1, HookType, HookOf
  <2>2. DefaultSchema(AddHook(b, "first")).object
    BY <2>1, SchemaOf
  <2> QED BY <1>1, <2>2 DEF MergeCursorHooks, Result, b
<1>10. ApplyConfigChange(kind, c, FALSE).next.object
  BY <1>5, <1>6, <1>7, <1>8, <1>9 DEF ApplyConfigChange, JsonKind
<1>11. ApplyConfigChange("opencode", c, FALSE) = MergeOpenCode(c)
  BY DEF ApplyConfigChange
<1> QED
  BY <1>2, <1>5, <1>10, <1>11

\* The assumption of what follows: no opencode.json has an empty $schema to
\* begin with, which a second run would set.
NoEmptySchema == \A s \in Shape : s["opencode"] \in Config => s["opencode"].schema # "empty"

\* What file f is when an installation of it is done.
Final(f) == Change(Target[f], original[f], FALSE).next

\* What a user's file is before anybody saves it again.
Fresh(f) ==
    /\ original[f] # Truncated
    /\ Target[f] = "skill" => original[f] \in {Missing, Ours, Older}
    /\ Target[f] # "skill" => original[f] \in {Missing, Typo} \cup Config
    /\ Target[f] = "opencode" /\ original[f] \in Config => original[f].schema # "empty"

\* An installation comes to rest at the final text, which has ctxlite in it.
LEMMA FinalIsDone ==
    ASSUME NEW f \in File, Fresh(f), original[f] # Typo
    PROVE  /\ HasOurs(Target[f], Final(f))
           /\ Final(f) \notin {Missing, Truncated}
           /\ Change(Target[f], Final(f), FALSE).next = Final(f)
           /\ ~ Change(Target[f], original[f], FALSE).changed => original[f] = Final(f)
<1> DEFINE kind == Target[f]
           o == original[f]
           n == Final(f)
<1>1. CASE kind = "skill"
  <2>1. n = Ours /\ Ours \notin Config
    BY <1>1, NotSettings DEF Final, Change, FullFileChange, Result
  <2>2. HasOurs(kind, n) /\ Change(kind, n, FALSE).next = n
    BY <1>1, <2>1 DEF HasOurs, Change, FullFileChange, Result
  <2>3. n \notin {Missing, Truncated}
    BY <2>1, InstallerAssumption
  <2>4. ~ Change(kind, o, FALSE).changed => o = n
    BY <1>1, <2>1 DEF Change, FullFileChange, Result
  <2> QED BY <2>2, <2>3, <2>4
<1>2. CASE kind # "skill"
  <2> DEFINE d == ReadJson(o).data
  <2>1. kind \in JsonKind
    BY <1>2, TargetKind DEF Kind
  <2>2. o = Missing \/ o \in Config
    BY <1>2 DEF Fresh
  <2>3. /\ d \in Config /\ d = (IF o = Missing THEN Empty ELSE o)
        /\ kind = "opencode" => d.schema # "empty"
    <3>1. o \in Config => o \notin {Missing} \cup NotJson
      BY NotSettings DEF NotJson
    <3>2. Empty.schema # "empty"
      BY DEF Empty
    <3> QED BY <2>2, <3>1, <3>2, EmptyType DEF Fresh, ReadJson
  <2>4. Change(kind, o, FALSE) = ApplyConfigChange(kind, d, FALSE)
    BY <1>2 DEF Change
  <2> HIDE DEF d
  <2>5. n = ApplyConfigChange(kind, d, FALSE).next
    BY <2>4 DEF Final
  <2>6. n \in Config /\ n.object /\ (kind = "opencode" => n.schema # "empty")
    BY <2>1, <2>3, <2>5, ApplyType, ApplyMakesObject
  <2>7. ~ ApplyConfigChange(kind, n, FALSE).changed
    BY <2>1, <2>3, <2>5, <2>6, ApplySettles DEF SettledBy
  <2>8. HasOurs(kind, n) /\ ApplyConfigChange(kind, n, FALSE).next = n
    BY <2>1, <2>6, <2>7, UnchangedIsDone
  <2>9. n \notin {Missing, Truncated} /\ ReadJson(n).data = n
    <3>1. n \notin {Missing} \cup NotJson
      BY <2>6, NotSettings DEF NotJson
    <3> QED BY <3>1 DEF ReadJson, NotJson
  <2>10. Change(kind, n, FALSE).next = n
    BY <1>2, <2>8, <2>9 DEF Change
  <2>11. ASSUME ~ Change(kind, o, FALSE).changed PROVE o = n
    <3>1. ~ ApplyConfigChange(kind, d, FALSE).changed
      BY <2>4, <2>11
    <3>2. Base(d) # Empty
      BY <2>1, <2>3, <3>1, BaseOnly, EmptyIsChanged
    <3>3. d.object
      BY <3>2 DEF Base
    <3>4. ApplyConfigChange(kind, d, FALSE).next = d
      BY <2>1, <2>3, <3>1, <3>3, UnchangedIsDone
    <3>5. d = o
      BY <2>3, <3>2, <3>3, EmptyType, BaseSame
    <3> QED BY <2>5, <3>4, <3>5
  <2> QED BY <2>8, <2>9, <2>10, <2>11
<1> QED
  BY <1>1, <1>2

\* Without edits, crashes and removals a file is the original, final, or just
\* being written, and a run leaves no file behind that is still the original.
Calm == edits = 0 /\ crashes = 0 /\ ~ removing
Moved(f) == file[f] \in {Final(f), Truncated}
Between(f) ==
    /\ file[f] \in {original[f], Final(f), Truncated}
    /\ file[f] = Truncated => \E p \in Process : job[p].pc = "write" /\ job[p].i = f
Progress(p) ==
    /\ job[p].remove = FALSE
    /\ \A f \in File : job[p].plan[f] # "remove"
    /\ job[p].pc \in {"open", "write"} => job[p].next = Final(job[p].i)
    /\ job[p].pc = "write" => file[job[p].i] \in {Final(job[p].i), Truncated}
    /\ job[p].pc = "plan" =>
          \A f \in File : f < job[p].i /\ job[p].plan[f] = "skip" => Moved(f)
    /\ job[p].pc \in {"apply", "open", "write"} =>
          \A f \in File : f < job[p].i \/ job[p].plan[f] = "skip" => Moved(f)
Settling ==
    /\ \A f \in File : Between(f)
    /\ \A p \in Process : Progress(p)
    /\ \A p \in done, f \in File : Moved(f)
DoneInv ==
    Calm => /\ \A f \in File : Fresh(f)
            /\ (\E f \in File : original[f] = Typo) => done = {}
            /\ (\A f \in File : original[f] # Typo) => Settling

\* Calm states come from calm ones.
LEMMA CalmBefore ==
    ASSUME TypeInv, [Next]_vars, Calm'
    PROVE  /\ Calm /\ original' = original
           /\ \A f \in File : ~ UserSaves(f)
           /\ \A p \in Process : ~ Crash(p) /\ ~ Start(p, TRUE)
<1>0. MaxEdits \in Nat /\ MaxCrashes \in Nat /\ edits \in Nat /\ crashes \in Nat
  BY InstallerAssumption DEF TypeInv, TypeOK
<1>1. \A f \in File : ~ UserSaves(f)
  BY <1>0 DEF UserSaves, Calm
<1>2. \A p \in Process : ~ Crash(p)
  BY <1>0 DEF Crash, Calm
<1>3. \A p \in Process : ~ Start(p, TRUE)
  BY DEF Start, Calm
<1>4. ASSUME NEW p \in Process, Start(p, FALSE) PROVE Calm /\ original' = original
  BY <1>4 DEF Start, Calm
<1>5. ASSUME NEW p \in Process,
             \/ PlanTarget(p) \/ PlanComplete(p) \/ ReadFails(p) \/ ApplySkip(p) \/ DeleteFile(p)
             \/ ReadAgain(p) \/ OpenFile(p) \/ WriteFile(p) \/ Finish(p)
      PROVE  Calm /\ original' = original
  BY <1>5 DEF PlanTarget, PlanComplete, ReadFails, ApplySkip, DeleteFile, ReadAgain, OpenFile,
              WriteFile, Finish, Calm
<1>6. ASSUME UNCHANGED vars PROVE Calm /\ original' = original
  BY <1>6 DEF vars, Calm
<1>7. CASE \E p \in Process, remove \in BOOLEAN : Start(p, remove)
  BY <1>1, <1>2, <1>3, <1>4, <1>7
<1> QED
  BY <1>1, <1>2, <1>3, <1>5, <1>6, <1>7 DEF Next

\* A run that goes on without touching the files keeps Settling, if its
\* progress is one.
LEMMA GoesOn ==
    ASSUME TypeInv, Settling, original' = original, file' = file, NEW p \in Process,
           \A q \in Process \ {p} : job'[q] = job[q],
           job[p].pc # "write", Progress(p)',
           \A q \in done' : q \in done \/ \A f \in File : Moved(f)
    PROVE  Settling'
<1>1. \A f \in File : Final(f)' = Final(f) /\ Moved(f)' = Moved(f)
  BY DEF Final, Moved
<1>2. ASSUME NEW f \in File PROVE Between(f)'
  <2>1. Between(f)
    BY DEF Settling
  <2>2. ASSUME NEW q \in Process, job[q].pc = "write", job[q].i = f
        PROVE  job'[q].pc = "write" /\ job'[q].i = f
    BY <2>2
  <2> QED BY <1>1, <2>1, <2>2 DEF Between
<1>3. ASSUME NEW q \in Process PROVE Progress(q)'
  <2>1. CASE q = p
    BY <2>1
  <2>2. CASE q # p
    <3>1. Progress(q) /\ job'[q] = job[q]
      BY <2>2 DEF Settling
    <3>2. job[q].pc \in {"open", "write"} => job[q].i \in File
      BY DEF TypeInv, Holds
    <3> QED BY <1>1, <3>1, <3>2 DEF Progress
  <2> QED BY <2>1, <2>2
<1>4. \A q \in done', f \in File : Moved(f)'
  BY <1>1 DEF Settling
<1> QED
  BY <1>2, <1>3, <1>4 DEF Settling

\* A run that truncates or writes its file brings it on its way.
LEMMA MovesOn ==
    ASSUME TypeInv, Settling, original' = original, done' = done, NEW p \in Process,
           NEW i \in File, NEW c \in {Final(i), Truncated}, file' = [file EXCEPT ![i] = c],
           \A q \in Process \ {p} : job'[q] = job[q],
           job[p].pc = "write" => job[p].i = i,
           c = Truncated => job'[p].pc = "write" /\ job'[p].i = i,
           Progress(p)'
    PROVE  Settling'
<1>1. \A f \in File : Final(f)' = Final(f)
  BY DEF Final
<1>2. \A f \in File : f # i => file'[f] = file[f]
  BY DEF TypeInv, TypeOK
<1>3. file'[i] = c
  BY DEF TypeInv, TypeOK
<1>4. \A f \in File : Moved(f) => Moved(f)'
  BY <1>1, <1>2, <1>3 DEF Moved
<1>5. Moved(i)'
  BY <1>1, <1>3 DEF Moved
<1>6. ASSUME NEW f \in File PROVE Between(f)'
  <2>1. CASE f = i
    BY <1>1, <1>3, <2>1 DEF Between
  <2>2. CASE f # i
    <3>1. Between(f) /\ file'[f] = file[f]
      BY <1>2, <2>2 DEF Settling
    <3>2. ASSUME NEW q \in Process, job[q].pc = "write", job[q].i = f
          PROVE  job'[q].pc = "write" /\ job'[q].i = f
      BY <2>2, <3>2
    <3> QED BY <1>1, <3>1, <3>2 DEF Between
  <2> QED BY <2>1, <2>2
<1>7. ASSUME NEW q \in Process PROVE Progress(q)'
  <2>1. CASE q = p
    BY <2>1
  <2>2. CASE q # p
    <3>1. Progress(q) /\ job'[q] = job[q]
      BY <2>2 DEF Settling
    <3>2. job[q].pc \in {"open", "write"} => job[q].i \in File
      BY DEF TypeInv, Holds
    <3>3. (job[q].pc \in {"open", "write"} => job[q].next = Final(job[q].i))'
      BY <3>1 DEF Progress, Final
    <3>4. (job[q].pc = "write" => file[job[q].i] \in {Final(job[q].i), Truncated})'
      <4> SUFFICES ASSUME job[q].pc = "write"
                   PROVE  file'[job[q].i] \in {Change(Target[job[q].i], original[job[q].i], FALSE).next,
                                               Truncated}
        BY <3>1 DEF Final
      <4>1. job[q].i \in File /\ file[job[q].i] \in {Final(job[q].i), Truncated}
        BY <3>1, <3>2 DEF Progress
      <4>2. CASE job[q].i = i
        BY <1>3, <4>2 DEF Final
      <4>3. CASE job[q].i # i
        BY <1>2, <4>1, <4>3 DEF Final
      <4> QED BY <4>2, <4>3
    <3>5. /\ job'[q].remove = FALSE
          /\ \A f \in File : job'[q].plan[f] # "remove"
      BY <3>1 DEF Progress
    <3>6. job'[q].pc = "plan" =>
             \A f \in File : f < job'[q].i /\ job'[q].plan[f] = "skip" => Moved(f)'
      BY <1>4, <3>1 DEF Progress
    <3>7. job'[q].pc \in {"apply", "open", "write"} =>
             \A f \in File : f < job'[q].i \/ job'[q].plan[f] = "skip" => Moved(f)'
      BY <1>4, <3>1 DEF Progress
    <3>8. job'[q] = job[q]
      BY <3>1
    <3> QED BY <3>3, <3>4, <3>5, <3>6, <3>7, <3>8 DEF Progress, Final
  <2> QED BY <2>1, <2>2
<1>8. \A q \in done', f \in File : Moved(f)'
  BY <1>4 DEF Settling
<1> QED
  BY <1>6, <1>7, <1>8 DEF Settling

\* What a run that reads a readable file holds to be written is final.
LEMMA ReadIsFinal ==
    ASSUME NEW f \in File, Fresh(f), original[f] # Typo,
           NEW c \in {original[f], Final(f), Truncated}, Readable(Target[f], c)
    PROVE  /\ Change(Target[f], c, FALSE).next = Final(f)
           /\ ~ Change(Target[f], c, FALSE).changed => c \in {Final(f), Truncated}
<1>1. CASE c = original[f]
  BY <1>1, FinalIsDone DEF Final
<1>2. CASE c = Final(f)
  BY <1>2, FinalIsDone
<1>3. CASE c = Truncated
  <2>1. Target[f] = "skill"
    BY <1>3 DEF Readable, ReadJson, NotJson
  <2>2. Final(f) = Ours /\ Change(Target[f], c, FALSE).next = Ours
    BY <2>1 DEF Final, Change, FullFileChange, Result
  <2> QED BY <1>3, <2>2
<1> QED
  BY <1>1, <1>2, <1>3

\* Every step of a process keeps Settling, if no file had a syntax error.
LEMMA NextSettling ==
    ASSUME TypeInv, Settling, original' = original, NEW p \in Process,
           \A f \in File : Fresh(f) /\ original[f] # Typo,
           \/ Start(p, FALSE) \/ PlanTarget(p) \/ PlanComplete(p) \/ ReadFails(p)
           \/ ApplySkip(p) \/ DeleteFile(p) \/ ReadAgain(p) \/ OpenFile(p) \/ WriteFile(p)
           \/ Finish(p)
    PROVE  Settling'
<1>1. /\ job[p] \in Run \cup {NoRun} /\ Progress(p)
      /\ job = [q \in Process |-> job[q]] /\ Holds(p)
  BY DEF TypeInv, TypeOK, Settling
<1>2. File \in SUBSET Nat /\ Len(Target) \in Nat /\ File = 1 .. Len(Target)
  BY InstallerAssumption DEF File
<1>3. \A f \in File : Moved(f)' = (file'[f] \in {Final(f), Truncated})
  BY DEF Moved, Final
<1>4. CASE Start(p, FALSE)
  <2>1. /\ file' = file /\ job[p].pc = "idle" /\ \A q \in done' : q \in done
        /\ \A q \in Process \ {p} : job'[q] = job[q]
    BY <1>1, <1>4 DEF Start, NoRun
  <2>2. /\ job'[p].pc = "plan" /\ job'[p].remove = FALSE /\ job'[p].i = 1
        /\ \A f \in File : job'[p].plan[f] = "skip"
    BY <1>1, <1>4 DEF Start, NoRun
  <2>3. Progress(p)'
    BY <1>2, <2>2 DEF Progress
  <2> QED BY <2>1, <2>3, GoesOn
<1>5. CASE PlanTarget(p)
  <2> DEFINE i == job[p].i
             a == ActionFor(file[i] # Missing, Change(Target[i], file[i], FALSE).changed, FALSE)
  <2>1. /\ job[p].pc = "plan" /\ i \in File /\ Readable(Target[i], file[i])
        /\ file' = file /\ done' = done
        /\ \A q \in Process \ {p} : job'[q] = job[q]
    BY <1>1, <1>5 DEF PlanTarget
  <2>2. /\ job[p] \in Run /\ job[p].remove = FALSE
    BY <1>1, <2>1 DEF NoRun, Progress
  <2>3. /\ job'[p].pc = "plan" /\ job'[p].remove = FALSE /\ job'[p].i = i + 1
        /\ job'[p].plan = [job[p].plan EXCEPT ![i] = a]
    BY <1>1, <1>5, <2>1, <2>2 DEF PlanTarget, Run
  <2>4. a # "remove" /\ (a = "skip" => Moved(i))
    <3>1. a = "skip" => ~ Change(Target[i], file[i], FALSE).changed
      BY DEF ActionFor
    <3>2. file[i] \in {original[i], Final(i), Truncated}
      BY <2>1 DEF Settling, Between
    <3>3. ~ Change(Target[i], file[i], FALSE).changed => file[i] \in {Final(i), Truncated}
      BY <2>1, <3>2, ReadIsFinal
    <3> QED BY <3>1, <3>3 DEF Moved, ActionFor
  <2> HIDE DEF a
  <2>5. \A f \in File : job'[p].plan[f] = IF f = i THEN a ELSE job[p].plan[f]
    BY <2>2, <2>3 DEF Run
  <2>6. \A f \in File : f < i + 1 => f < i \/ f = i
    BY <1>2, <2>1
  <2>7. \A f \in File : f < job'[p].i /\ job'[p].plan[f] = "skip" => Moved(f)'
    BY <1>1, <1>3, <2>1, <2>3, <2>4, <2>5, <2>6 DEF Progress, Moved
  <2>8. \A f \in File : job'[p].plan[f] # "remove"
    BY <1>1, <2>4, <2>5 DEF Progress
  <2>9. Progress(p)'
    BY <2>3, <2>7, <2>8 DEF Progress
  <2> QED BY <2>1, <2>9, GoesOn
<1>6. CASE PlanComplete(p)
  <2>1. /\ job[p].pc = "plan" /\ job[p].i \notin File
        /\ file' = file /\ done' = done
        /\ \A q \in Process \ {p} : job'[q] = job[q]
    BY <1>1, <1>6 DEF PlanComplete
  <2>2. job[p] \in Run /\ job[p].i \in 1 .. Len(Target) + 1
    BY <1>1, <2>1 DEF NoRun, Run
  <2>3. /\ job'[p].pc = "apply" /\ job'[p].remove = job[p].remove /\ job'[p].i = 1
        /\ job'[p].plan = job[p].plan
    BY <1>1, <1>6, <2>2 DEF PlanComplete, Run
  <2>4. \A f \in File : f < job[p].i /\ ~ (f < 1)
    BY <1>2, <2>1, <2>2
  <2>5. \A f \in File : job[p].plan[f] = "skip" => Moved(f)'
    BY <1>1, <1>3, <2>1, <2>4 DEF Progress, Moved
  <2>6. Progress(p)'
    BY <1>1, <2>3, <2>4, <2>5 DEF Progress
  <2> QED BY <2>1, <2>6, GoesOn
<1>7. CASE ReadFails(p)
  <2>1. /\ job[p].pc # "write" /\ job'[p] = NoRun
        /\ file' = file /\ done' = done
        /\ \A q \in Process \ {p} : job'[q] = job[q]
    BY <1>1, <1>7 DEF ReadFails
  <2>2. Progress(p)'
    BY <2>1 DEF Progress, NoRun
  <2> QED BY <2>1, <2>2, GoesOn
<1>8. CASE ApplySkip(p)
  <2>1. /\ job[p].pc = "apply" /\ job[p].i \in File /\ job[p].plan[job[p].i] = "skip"
        /\ file' = file /\ done' = done
        /\ \A q \in Process \ {p} : job'[q] = job[q]
    BY <1>1, <1>8 DEF ApplySkip
  <2>2. job[p] \in Run
    BY <1>1, <2>1 DEF NoRun
  <2>3. /\ job'[p].pc = "apply" /\ job'[p].remove = job[p].remove /\ job'[p].i = job[p].i + 1
        /\ job'[p].plan = job[p].plan
    BY <1>1, <1>8, <2>1, <2>2 DEF ApplySkip, Run
  <2>4. \A f \in File : f < job[p].i + 1 => f < job[p].i \/ f = job[p].i
    BY <1>2, <2>1
  <2>5. \A f \in File : f < job'[p].i \/ job'[p].plan[f] = "skip" => Moved(f)'
    BY <1>1, <1>3, <2>1, <2>3, <2>4 DEF Progress, Moved
  <2>6. Progress(p)'
    BY <1>1, <2>3, <2>5 DEF Progress
  <2> QED BY <2>1, <2>6, GoesOn
<1>9. CASE DeleteFile(p)
  BY <1>1, <1>9 DEF DeleteFile, Progress
<1>10. CASE ReadAgain(p)
  <2> DEFINE i == job[p].i
  <2>1. /\ job[p].pc = "apply" /\ i \in File /\ Readable(Target[i], file[i])
        /\ file' = file /\ done' = done
        /\ \A q \in Process \ {p} : job'[q] = job[q]
    BY <1>1, <1>10 DEF ReadAgain
  <2>2. job[p] \in Run /\ job[p].remove = FALSE
    BY <1>1, <2>1 DEF NoRun, Progress
  <2>3. /\ job'[p].pc = "open" /\ job'[p].remove = FALSE /\ job'[p].i = i
        /\ job'[p].plan = job[p].plan
        /\ job'[p].next = Change(Target[i], file[i], FALSE).next
    BY <1>1, <1>10, <2>1, <2>2 DEF ReadAgain, Run
  <2>4. job'[p].next = Final(i)
    <3>1. file[i] \in {original[i], Final(i), Truncated}
      BY <2>1 DEF Settling, Between
    <3> QED BY <2>1, <2>3, <3>1, ReadIsFinal
  <2>5. \A f \in File : f < job'[p].i \/ job'[p].plan[f] = "skip" => Moved(f)'
    BY <1>1, <1>3, <2>1, <2>3 DEF Progress, Moved
  <2>6. Progress(p)'
    BY <1>1, <2>3, <2>4, <2>5 DEF Progress, Final
  <2> QED BY <2>1, <2>6, GoesOn
<1>11. CASE OpenFile(p)
  <2> DEFINE i == job[p].i
  <2>1. /\ job[p].pc = "open" /\ done' = done
        /\ file' = [file EXCEPT ![i] = Truncated]
        /\ \A q \in Process \ {p} : job'[q] = job[q]
    BY <1>1, <1>11 DEF OpenFile
  <2>2. job[p] \in Run /\ i \in File /\ job[p].next = Final(i)
    BY <1>1, <2>1 DEF NoRun, Progress, Holds
  <2>3. /\ job'[p].pc = "write" /\ job'[p].remove = job[p].remove /\ job'[p].i = i
        /\ job'[p].plan = job[p].plan /\ job'[p].next = job[p].next
    BY <1>1, <1>11, <2>2 DEF OpenFile, Run
  <2>4. \A f \in File : file'[f] = IF f = i THEN Truncated ELSE file[f]
    BY <2>1 DEF TypeInv, TypeOK
  <2>5. \A f \in File : f < job'[p].i \/ job'[p].plan[f] = "skip" => Moved(f)'
    BY <1>1, <1>3, <2>1, <2>3, <2>4 DEF Progress, Moved
  <2>6. Progress(p)'
    BY <1>1, <2>2, <2>3, <2>4, <2>5 DEF Progress, Final
  <2> QED BY <2>1, <2>2, <2>3, <2>6, MovesOn
<1>12. CASE WriteFile(p)
  <2> DEFINE i == job[p].i
  <2>1. /\ job[p].pc = "write" /\ done' = done
        /\ \A q \in Process \ {p} : job'[q] = job[q]
    BY <1>1, <1>12 DEF WriteFile
  <2>2. /\ job[p] \in Run /\ i \in File /\ job[p].next = Final(i)
        /\ file[i] \in {Final(i), Truncated}
    BY <1>1, <2>1 DEF NoRun, Progress, Holds
  <2>3. file[i] # Missing
    BY <2>2, FinalIsDone, NotMissing
  <2>4. file' = [file EXCEPT ![i] = Final(i)]
    BY <1>12, <2>2, <2>3 DEF WriteFile
  <2>5. /\ job'[p].pc = "apply" /\ job'[p].remove = job[p].remove /\ job'[p].i = i + 1
        /\ job'[p].plan = job[p].plan
    BY <1>1, <1>12, <2>2 DEF WriteFile, Run
  <2>6. \A f \in File : file'[f] = IF f = i THEN Final(i) ELSE file[f]
    BY <2>4 DEF TypeInv, TypeOK
  <2>7. \A f \in File : f < i + 1 => f < i \/ f = i
    BY <1>2, <2>2
  <2>8. \A f \in File : f < job'[p].i \/ job'[p].plan[f] = "skip" => Moved(f)'
    BY <1>1, <1>3, <2>1, <2>5, <2>6, <2>7 DEF Progress, Moved
  <2>9. Progress(p)'
    BY <1>1, <2>5, <2>8 DEF Progress
  <2>10. Final(i) # Truncated
    BY <2>2, FinalIsDone
  <2> QED BY <2>1, <2>2, <2>4, <2>9, <2>10, MovesOn
<1>13. CASE Finish(p)
  <2>1. /\ job[p].pc = "apply" /\ job[p].i \notin File /\ job'[p] = NoRun
        /\ file' = file /\ \A q \in done' : q \in done \/ q = p
        /\ \A q \in Process \ {p} : job'[q] = job[q]
    BY <1>1, <1>13 DEF Finish
  <2>2. job[p].i \in 1 .. Len(Target) + 1
    BY <1>1, <2>1 DEF NoRun, Run
  <2>3. \A f \in File : f < job[p].i
    BY <1>2, <2>1, <2>2
  <2>4. \A f \in File : Moved(f)
    BY <1>1, <2>1, <2>3 DEF Progress
  <2>5. Progress(p)'
    BY <2>1 DEF Progress, NoRun
  <2> QED BY <2>1, <2>4, <2>5, GoesOn
<1> QED
  BY <1>4, <1>5, <1>6, <1>7, <1>8, <1>9, <1>10, <1>11, <1>12, <1>13

\* Every step keeps DoneInv.
LEMMA NextDone == TypeInv /\ StopsInv /\ DoneInv /\ [Next]_vars => DoneInv'
<1> SUFFICES ASSUME TypeInv, StopsInv, DoneInv, [Next]_vars, Calm'
             PROVE  /\ \A f \in File : Fresh(f)'
                    /\ (\E f \in File : original'[f] = Typo) => done' = {}
                    /\ (\A f \in File : original'[f] # Typo) => Settling'
  BY DEF DoneInv
<1>1. /\ Calm /\ original' = original
      /\ \A f \in File : ~ UserSaves(f)
      /\ \A p \in Process : ~ Crash(p) /\ ~ Start(p, TRUE)
  BY CalmBefore
<1>2. \A f \in File : Fresh(f) /\ Fresh(f)'
  BY <1>1 DEF DoneInv, Fresh
<1>3. UNCHANGED vars \/ \E p \in Process :
           \/ Start(p, FALSE) \/ PlanTarget(p) \/ PlanComplete(p) \/ ReadFails(p)
           \/ ApplySkip(p) \/ DeleteFile(p) \/ ReadAgain(p) \/ OpenFile(p) \/ WriteFile(p)
           \/ Finish(p)
  <2>1. ASSUME NEW p \in Process, NEW remove \in BOOLEAN, Start(p, remove)
        PROVE  Start(p, FALSE)
    BY <1>1, <2>1
  <2> QED BY <1>1, <2>1 DEF Next
<1>4. ASSUME NEW f \in File, original[f] = Typo PROVE done' = {}
  <2>1. done = {}
    BY <1>1, <1>4 DEF DoneInv
  <2>2. \A p \in Process : job[p].pc # "apply"
    BY <1>1, <1>4 DEF StopsInv, Calm
  <2>3. \A p \in Process : ~ Finish(p)
    BY <2>2 DEF Finish
  <2>4. done' \subseteq done
    BY <1>3, <2>3 DEF vars, Start, PlanTarget, PlanComplete, ReadFails, ApplySkip, DeleteFile,
                      ReadAgain, OpenFile, WriteFile
  <2> QED BY <2>1, <2>4
<1>5. ASSUME \A f \in File : original[f] # Typo PROVE Settling'
  <2>1. Settling
    BY <1>1, <1>5 DEF DoneInv
  <2>2. CASE UNCHANGED vars
    BY <2>1, <2>2 DEF vars, Settling, Between, Progress, Moved, Final
  <2> QED BY <1>1, <1>2, <1>3, <1>5, <2>1, <2>2, NextSettling
<1> QED
  BY <1>1, <1>2, <1>4, <1>5

\* Initially nothing has changed and nobody is done.
LEMMA InitDone == NoEmptySchema /\ Init => DoneInv
<1> SUFFICES ASSUME NoEmptySchema, Init PROVE DoneInv
  OBVIOUS
<1>1. PICK s \in Shape, owned \in {Missing, Ours, Older} :
         file = [f \in File |-> IF Target[f] = "skill" THEN owned ELSE s[Target[f]]]
  BY DEF Init
<1>2. original = file /\ done = {} /\ \A p \in Process : job[p] = NoRun
  BY DEF Init
<1>3. ASSUME NEW f \in File PROVE Fresh(f)
  <2>1. CASE Target[f] = "skill"
    BY <1>1, <1>2, <2>1, InstallerAssumption DEF Fresh
  <2>2. CASE Target[f] \in JsonKind
    <3>1. Target[f] # "skill" /\ original[f] = s[Target[f]]
      BY <1>1, <1>2, <2>2 DEF JsonKind
    <3>2. s[Target[f]] \in {Missing, Typo} \cup Config
      BY <2>2, InstallerAssumption
    <3>3. s[Target[f]] # Truncated
      BY <3>2, InstallerAssumption
    <3> QED BY <3>1, <3>2, <3>3 DEF Fresh, NoEmptySchema
  <2> QED BY <2>1, <2>2, TargetKind DEF Kind
<1>4. Settling
  <2>1. \A f \in File : Between(f)
    BY <1>2, <1>3 DEF Between, Fresh
  <2>2. NoRun.pc = "idle" /\ NoRun.remove = FALSE /\ \A f \in File : NoRun.plan[f] = "skip"
    BY DEF NoRun
  <2>3. ASSUME NEW p \in Process PROVE Progress(p)
    BY <1>2, <2>2 DEF Progress
  <2> QED BY <1>2, <2>1, <2>3 DEF Settling
<1> QED
  BY <1>2, <1>3, <1>4 DEF DoneInv

\* While everything is calm the files of a completed run have ctxlite in them.
LEMMA DoneIsConfigured == TypeInv /\ DoneInv => DoneMeansConfigured
<1> SUFFICES ASSUME TypeInv, DoneInv, Calm, NEW p \in done, NEW f \in File
             PROVE  \/ HasOurs(Target[f], file[f])
                    \/ \E q \in Process : job[q].pc = "write" /\ job[q].i = f
  BY DEF DoneMeansConfigured, Calm
<1>1. (\A g \in File : original[g] # Typo) /\ Fresh(f) /\ Settling
  BY DEF DoneInv
<1>2. CASE file[f] = Final(f)
  BY <1>1, <1>2, FinalIsDone
<1>3. CASE file[f] = Truncated
  BY <1>1, <1>3 DEF Settling, Between
<1> QED
  BY <1>1, <1>2, <1>3 DEF Settling, Moved

\* An installation that completed is in every target file, however many runs
\* of the command there are at the same time (run.ts:130-165): no run leaves
\* out a target that another one has still to write.  Assumed is only that no
\* opencode.json starts with an empty $schema.
THEOREM DoneIsAlwaysConfigured ==
    ASSUME NoEmptySchema PROVE Spec => []DoneMeansConfigured
<1>1. Init => TypeInv /\ StopsInv /\ DoneInv
  <2>1. Init => StopsInv
    BY DEF Init, StopsInv, NoRun
  <2> QED BY <2>1, InitType, InitDone
<1>2. (TypeInv /\ StopsInv /\ DoneInv) /\ [Next]_vars => (TypeInv /\ StopsInv /\ DoneInv)'
  BY NextType, NextStops, NextDone
<1>3. TypeInv /\ StopsInv /\ DoneInv => DoneMeansConfigured
  BY DoneIsConfigured
<1> QED
  BY <1>1, <1>2, <1>3, PTL DEF Spec

-----------------------------------------------------------------------------
(* The command around the installer runs the installer and nothing else on *)
(* the target files, so that what is proved of Installer holds of it.      *)

\* The command's steps are steps of the installer, or leave its state alone.
LEMMA CommandStep == [CommandNext]_<<vars, commandVars>> => [Next]_vars
<1>1. ASSUME NEW p \in Process, Begin(p) \/ Runs(p) \/ Breaks(p) \/ Completes(p)
      PROVE  Next
  BY <1>1 DEF Begin, Runs, Breaks, Completes, Next
<1>2. ASSUME NEW p \in Process, Preview(p) \/ Decline(p) \/ ClearCache(p) \/ Reinstall(p)
      PROVE  UNCHANGED vars
  BY <1>2 DEF Preview, Decline, ClearCache, Reinstall
<1>3. ASSUME UserEdits PROVE Next
  BY <1>3 DEF UserEdits, Next
<1> QED
  BY <1>1, <1>2, <1>3 DEF CommandNext

\* The command implements the installer (cli/src/install.ts 162-242): options,
\* prompts, preview and refresh around runInstall never touch a target file.
THEOREM CommandImplementsInstaller == CommandSpec => Spec
<1>1. CommandInit => Init
  BY DEF CommandInit
<1> QED
  BY <1>1, CommandStep, PTL DEF CommandSpec, Spec

\* So the user's parts, the files beside a syntax error and a second run are
\* safe with the command, too.
THEOREM CommandIsSafe ==
    CommandSpec => [](UserPartsStay /\ TypoStopsEverything /\ SecondRunIsNoOp)
BY CommandImplementsInstaller, UserPartsAlwaysStay, TypoAlwaysStopsEverything,
   SecondRunIsAlwaysNoOp, PTL

-----------------------------------------------------------------------------
(* The plugin cache.                                                       *)

\* Where a command is and whether its run is over belong together: a run is
\* on only in the stage "run".
Staged ==
    \A p \in Process : /\ command[p] # "run" => job[p] = NoRun
                       /\ command[p] \in {"refresh", "reinstall"} => p \in done

CacheInv == CommandTypeOK /\ Staged /\ PluginComesBack

\* Every step keeps CacheInv.
LEMMA NextCache ==
    CacheInv /\ TypeInv /\ [CommandNext]_<<vars, commandVars>> => CacheInv'
<1> SUFFICES ASSUME CacheInv, TypeInv, [CommandNext]_<<vars, commandVars>>
             PROVE  CacheInv'
  OBVIOUS
<1> USE DEF CacheInv
<1>1. ASSUME NEW p \in Process, Preview(p) \/ Decline(p) PROVE CacheInv'
  <2>1. command[p] \in {"none", "previewed"}
    BY <1>1 DEF Preview, Decline
  <2>2. command' \in [Process -> Stage] /\ command'[p] \in {"none", "previewed"}
    BY <1>1 DEF Preview, Decline, Goes, Stops, CommandTypeOK, Stage
  <2>3. \A q \in Process \ {p} : command'[q] = command[q]
    BY <1>1 DEF Preview, Decline, Goes, Stops, CommandTypeOK
  <2>4. cache' = cache /\ failed' = failed /\ job' = job /\ done' = done
    BY <1>1 DEF Preview, Decline, vars
  <2> QED BY <2>1, <2>2, <2>3, <2>4 DEF CommandTypeOK, Staged, PluginComesBack
<1>2. ASSUME NEW p \in Process, Begin(p) PROVE CacheInv'
  <2>1. /\ command[p] = "previewed"
        /\ command' \in [Process -> Stage] /\ command'[p] = "run"
        /\ \A q \in Process \ {p} : command'[q] = command[q]
        /\ cache' = cache /\ failed' = failed
    BY <1>2 DEF Begin, Goes, CommandTypeOK, Stage
  <2>2. \A q \in Process \ {p} : job'[q] = job[q] /\ (q \in done => q \in done')
    BY <1>2 DEF Begin, Start, TypeInv, TypeOK
  <2> QED BY <2>1, <2>2 DEF CommandTypeOK, Staged, PluginComesBack
<1>3. ASSUME NEW p \in Process, Runs(p) PROVE CacheInv'
  <2>1. job[p] # NoRun
    BY <1>3, RunFields DEF Runs, PlanTarget, PlanComplete, ApplySkip, DeleteFile, ReadAgain,
                          OpenFile, WriteFile, NoRun
  <2>2. \A q \in Process \ {p} : job'[q] = job[q]
    BY <1>3 DEF Runs, PlanTarget, PlanComplete, ApplySkip, DeleteFile, ReadAgain,
               OpenFile, WriteFile, TypeInv, TypeOK
  <2>3. done' = done /\ UNCHANGED commandVars
    BY <1>3 DEF Runs, PlanTarget, PlanComplete, ApplySkip, DeleteFile, ReadAgain,
               OpenFile, WriteFile
  <2> QED BY <2>1, <2>2, <2>3 DEF commandVars, CommandTypeOK, Staged, PluginComesBack
<1>4. ASSUME NEW p \in Process, Breaks(p) PROVE CacheInv'
  <2>1. job[p] # NoRun
    BY <1>4 DEF Breaks, ReadFails, Crash, NoRun
  <2>2. command[p] = "run"
    BY <2>1 DEF Staged
  <2>3. /\ command' \in [Process -> Stage] /\ command'[p] = "none"
        /\ \A q \in Process \ {p} : command'[q] = command[q] /\ job'[q] = job[q]
        /\ job'[p] = NoRun /\ done' = done /\ cache' = cache /\ failed' = failed
    BY <1>4 DEF Breaks, ReadFails, Crash, Goes, Stops, CommandTypeOK, Stage, TypeInv, TypeOK
  <2> QED BY <2>2, <2>3 DEF CommandTypeOK, Staged, PluginComesBack
<1>5. ASSUME NEW p \in Process, Completes(p) PROVE CacheInv'
  <2>1. job[p] # NoRun
    BY <1>5 DEF Completes, Finish, NoRun
  <2>2. command[p] = "run"
    BY <2>1 DEF Staged
  <2>3. /\ command' \in [Process -> Stage]
        /\ \A q \in Process \ {p} : /\ command'[q] = command[q] /\ job'[q] = job[q]
                                    /\ q \in done => q \in done'
        /\ job'[p] = NoRun /\ cache' = cache /\ failed' = failed
    BY <1>5 DEF Completes, Finish, Goes, Stops, CommandTypeOK, Stage, TypeInv, TypeOK
  <2>4. command'[p] = "none" \/ (command'[p] = "refresh" /\ p \in done')
    BY <1>5 DEF Completes, Finish, Goes, Stops, CommandTypeOK
  <2> QED BY <2>2, <2>3, <2>4 DEF CommandTypeOK, Staged, PluginComesBack
<1>6. ASSUME NEW p \in Process, ClearCache(p) PROVE CacheInv'
  <2>1. /\ command[p] = "refresh" /\ failed' = failed /\ job' = job /\ done' = done
        /\ command' \in [Process -> Stage]
        /\ \A q \in Process \ {p} : command'[q] = command[q]
    BY <1>6 DEF ClearCache, Goes, Stops, CommandTypeOK, Stage, vars
  <2>2. \/ command'[p] = "none" /\ cache' = cache
        \/ command'[p] = "reinstall" /\ cache' \in {"gone", cache}
    BY <1>6 DEF ClearCache, Goes, Stops, CommandTypeOK
  <2> QED BY <2>1, <2>2 DEF CommandTypeOK, Staged, PluginComesBack
<1>7. ASSUME NEW p \in Process, Reinstall(p) PROVE CacheInv'
  <2>1. /\ command' \in [Process -> Stage] /\ command'[p] = "none"
        /\ \A q \in Process \ {p} : command'[q] = command[q]
        /\ job' = job /\ done' = done /\ command[p] = "reinstall"
    BY <1>7 DEF Reinstall, Goes, Stops, CommandTypeOK, Stage, vars
  <2>2. \/ cache' # "gone" /\ cache' \in {cache, "latest"} /\ failed' = FALSE
        \/ cache' = cache /\ failed' = TRUE
    BY <1>7 DEF Reinstall
  <2> QED BY <2>1, <2>2 DEF CommandTypeOK, Staged, PluginComesBack
<1>8. ASSUME UserEdits PROVE CacheInv'
  <2>1. job' = job /\ done' = done /\ UNCHANGED commandVars
    BY <1>8 DEF UserEdits, UserSaves
  <2> QED BY <2>1 DEF commandVars, CommandTypeOK, Staged, PluginComesBack
<1>9. ASSUME UNCHANGED <<vars, commandVars>> PROVE CacheInv'
  BY <1>9 DEF vars, commandVars, CommandTypeOK, Staged, PluginComesBack
<1> QED
  BY <1>1, <1>2, <1>3, <1>4, <1>5, <1>6, <1>7, <1>8, <1>9 DEF CommandNext

\* The working plugin is taken away only on the way to a newer one, whoever
\* else installs, and only behind a complete installation (opencode-refresh.ts
\* 22-59).
THEOREM PluginAlwaysComesBack == CommandSpec => []PluginComesBack
<1>1. CommandInit => CacheInv
  BY DEF CommandInit, Init, CacheInv, CommandTypeOK, Staged, PluginComesBack, Stage
<1>2. CommandInit => TypeInv
  BY InitType DEF CommandInit
<1>3. CacheInv => PluginComesBack
  BY DEF CacheInv
<1> QED
  BY <1>1, <1>2, <1>3, CommandStep, NextType, NextCache, PTL DEF CommandSpec

=============================================================================
