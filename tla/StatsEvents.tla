----------------------------- MODULE StatsEvents -----------------------------
(***************************************************************************)
(* The event handler of the OpenCode plugin, stats-events.ts: when an      *)
(* assistant message completes it logs the conciseness saving, compares    *)
(* the session's total with the one of the last turn, shows a toast and    *)
(* rewrites the session title.  The host does not wait for a handler, and  *)
(* the handler awaits the host three times, so handlers of one session     *)
(* overlap; everything before the first await is one step.                 *)
(***************************************************************************)
EXTENDS Integers

CONSTANTS Session, Message,
          Home,       \* Home[m]: the session of message m
          Saving,     \* Saving[m]: estimated conciseness saving of m, may be 0
          Handler,    \* bound: handlers that run at the same time
          UserTitle,  \* titles a user may give a session
          Blank,      \* the empty title
          MaxOther,   \* bound: tokens a session saves outside this handler
          None

ASSUME EventsAssumption ==
    /\ Home \in [Message -> Session]
    /\ Saving \in [Message -> Nat]
    /\ Blank \notin UserTitle
    /\ MaxOther \in Nat
    /\ None \notin Nat

VARIABLES
    logged,     \* messages with a row concise-<id>
    total,      \* total[s]: tokensSaved of summaryForSession
    other,      \* other[s]: the part of total[s] the other hooks logged
    lastTotal,  \* lastTotalBySession
    task,       \* task[h]: a handler between two awaits
    title,      \* title[s]: what the host holds: the user's part and our suffix
    userTitle,  \* userTitle[s]: the title the user last gave the session
    baseline,   \* baseline[s]: the total the first turn of this process found
    toasted     \* toasted[s]: sum of the toasts shown since

eventsVars == <<logged, total, other, lastTotal, task, title, userTitle, baseline,
          toasted>>

Title == [user : UserTitle \cup {Blank}, suffix : Nat]   \* suffix 0: none
Idle == [pc |-> "idle", session |-> None, total |-> 0, base |-> Blank]
Task == [pc : {"toast", "get", "update"}, session : Session, total : Nat,
         base : UserTitle \cup {Blank}]

EventsTypeOK ==
    /\ logged \in SUBSET Message
    /\ total \in [Session -> Nat]
    /\ other \in [Session -> 0 .. MaxOther]
    /\ lastTotal \in [Session -> Nat \cup {None}]
    /\ task \in [Handler -> Task \cup {Idle}]
    /\ title \in [Session -> Title]
    /\ userTitle \in [Session -> UserTitle]
    /\ baseline \in [Session -> Nat]
    /\ toasted \in [Session -> Nat]

EventsInit ==
    /\ logged = {}
    /\ total = [s \in Session |-> 0]
    /\ other = [s \in Session |-> 0]
    /\ lastTotal = [s \in Session |-> None]
    /\ task = [h \in Handler |-> Idle]
    /\ userTitle \in [Session -> UserTitle]
    /\ title = [s \in Session |-> [user |-> userTitle[s], suffix |-> 0]]
    /\ baseline = [s \in Session |-> 0]
    /\ toasted = [s \in Session |-> 0]

\* The other hooks and tools of the plugin log a saving for the session.
OtherSaving(s) ==
    /\ other[s] < MaxOther
    /\ other' = [other EXCEPT ![s] = @ + 1]
    /\ total' = [total EXCEPT ![s] = @ + 1]
    /\ UNCHANGED <<logged, lastTotal, task, title, userTitle, baseline, toasted>>

-----------------------------------------------------------------------------
(* message.updated for a completed assistant message, until the first      *)
(* await.                                                                  *)

\* logConcisenessSavings: no row for a saving of 0, and none for a message
\* that has one already (INSERT OR IGNORE) or that the store drops (~ kept).
\* The usage row of logSessionUsage does not count in tokensSaved.
TotalWith(m, kept) ==
    IF kept /\ m \notin logged THEN total[Home[m]] + Saving[m] ELSE total[Home[m]]

LogMessage(m, kept) ==
    /\ logged' = IF kept /\ Saving[m] > 0 THEN logged \cup {m} ELSE logged
    /\ total' = [total EXCEPT ![Home[m]] = TotalWith(m, kept)]

\* The first turn seen for a session only sets the baseline.
FirstTurn(m, kept) ==
    LET s == Home[m] IN
    /\ LogMessage(m, kept)
    /\ lastTotal[s] = None
    /\ lastTotal' = [lastTotal EXCEPT ![s] = TotalWith(m, kept)]
    /\ baseline' = [baseline EXCEPT ![s] = TotalWith(m, kept)]
    /\ UNCHANGED <<other, task, title, userTitle, toasted>>

\* Nothing new, as after a duplicate event: no toast.
QuietTurn(m, kept) ==
    LET s == Home[m] IN
    /\ LogMessage(m, kept)
    /\ lastTotal[s] # None /\ TotalWith(m, kept) <= lastTotal[s]
    /\ lastTotal' = [lastTotal EXCEPT ![s] = TotalWith(m, kept)]
    /\ UNCHANGED <<other, task, title, userTitle, baseline, toasted>>

\* Mutant of SavingTurn: the total is not remembered with the toast.
SavingTurnForgets(h, m, kept) ==
    LET s == Home[m] IN
    /\ task[h] = Idle
    /\ LogMessage(m, kept)
    /\ lastTotal[s] # None /\ TotalWith(m, kept) > lastTotal[s]
    /\ toasted' = [toasted EXCEPT ![s] = @ + (TotalWith(m, kept) - lastTotal[s])]
    /\ task' = [task EXCEPT ![h] = [pc |-> "toast", session |-> s,
                                    total |-> TotalWith(m, kept), base |-> Blank]]
    /\ UNCHANGED <<other, lastTotal, title, userTitle, baseline>>

\* New savings: the total is remembered, then the toast is requested.
SavingTurn(h, m, kept) ==
    LET s == Home[m] IN
    /\ task[h] = Idle
    /\ LogMessage(m, kept)
    /\ lastTotal[s] # None /\ TotalWith(m, kept) > lastTotal[s]
    /\ lastTotal' = [lastTotal EXCEPT ![s] = TotalWith(m, kept)]
    /\ toasted' = [toasted EXCEPT ![s] = @ + (TotalWith(m, kept) - lastTotal[s])]
    /\ task' = [task EXCEPT ![h] = [pc |-> "toast", session |-> s,
                                    total |-> TotalWith(m, kept), base |-> Blank]]
    /\ UNCHANGED <<other, title, userTitle, baseline>>

\* The summary cannot be read: the exception ends the handler, rows stay.
ReadFails(m, kept) ==
    /\ LogMessage(m, kept)
    /\ UNCHANGED <<other, lastTotal, task, title, userTitle, baseline, toasted>>

-----------------------------------------------------------------------------
(* The rest of the handler, one step per answer of the host.               *)

\* Mutant of ToastShown: the title is not asked for before it is written.
ToastShownUnread(h) ==
    /\ task[h].pc = "toast"
    /\ task' = [task EXCEPT ![h].pc = "update"]
    /\ UNCHANGED <<logged, total, other, lastTotal, title, userTitle, baseline, toasted>>

ToastShown(h) ==
    /\ task[h].pc = "toast"
    /\ task' = [task EXCEPT ![h].pc = "get"]
    /\ UNCHANGED <<logged, total, other, lastTotal, title, userTitle, baseline,
                   toasted>>

\* session.get answers with the title of that moment.  The new title strips
\* our own suffix from it.
GotTitle(h) ==
    /\ task[h].pc = "get"
    /\ task' = [task EXCEPT ![h].pc = "update",
                            ![h].base = title[task[h].session].user]
    /\ UNCHANGED <<logged, total, other, lastTotal, title, userTitle, baseline,
                   toasted>>

\* session.get answers without data: the code goes on with an empty title.
GotNoTitle(h) ==
    /\ task[h].pc = "get"
    /\ task' = [task EXCEPT ![h].pc = "update", ![h].base = Blank]
    /\ UNCHANGED <<logged, total, other, lastTotal, title, userTitle, baseline, toasted>>

\* Mutant of TitleUpdated: the total is added to the one displayed.
TitleAccumulates(h) ==
    LET t == task[h] IN
    /\ t.pc = "update"
    /\ title' = [title EXCEPT ![t.session] =
                   [user |-> t.base, suffix |-> @.suffix + t.total]]
    /\ task' = [task EXCEPT ![h] = Idle]
    /\ UNCHANGED <<logged, total, other, lastTotal, userTitle, baseline, toasted>>

\* session.update takes effect.
TitleUpdated(h) ==
    LET t == task[h] IN
    /\ t.pc = "update"
    /\ title' = [title EXCEPT ![t.session] = [user |-> t.base, suffix |-> t.total]]
    /\ task' = [task EXCEPT ![h] = Idle]
    /\ UNCHANGED <<logged, total, other, lastTotal, userTitle, baseline, toasted>>

\* A call to the host rejects: caught, and the handler ends.
HostFails(h) ==
    /\ task[h] # Idle
    /\ task' = [task EXCEPT ![h] = Idle]
    /\ UNCHANGED <<logged, total, other, lastTotal, title, userTitle, baseline, toasted>>

\* The user renames the session.
Rename(s, u) ==
    /\ userTitle' = [userTitle EXCEPT ![s] = u]
    /\ title' = [title EXCEPT ![s] = [user |-> u, suffix |-> 0]]
    /\ UNCHANGED <<logged, total, other, lastTotal, task, baseline, toasted>>

\* A new plugin process: the handlers and the remembered totals are gone.
Restart ==
    /\ lastTotal' = [s \in Session |-> None]
    /\ task' = [h \in Handler |-> Idle]
    /\ baseline' = [s \in Session |-> 0]
    /\ toasted' = [s \in Session |-> 0]
    /\ UNCHANGED <<logged, total, other, title, userTitle>>

EventsNext ==
    \/ \E s \in Session : OtherSaving(s) \/ \E u \in UserTitle : Rename(s, u)
    \/ \E m \in Message, kept \in BOOLEAN :
         \/ FirstTurn(m, kept) \/ QuietTurn(m, kept) \/ ReadFails(m, kept)
         \/ \E h \in Handler : SavingTurn(h, m, kept)
    \/ \E h \in Handler :
         \/ ToastShown(h) \/ GotTitle(h) \/ GotNoTitle(h)
         \/ TitleUpdated(h) \/ HostFails(h)
    \/ Restart

EventsSpec == EventsInit /\ [][EventsNext]_eventsVars

-----------------------------------------------------------------------------
(* Properties.                                                             *)

\* The toasts of a session add up to exactly what it saved since the first
\* turn this process saw: no saving is announced twice by overlapping or
\* duplicate events, none of an earlier run or of another session is
\* announced at all (stats-events.ts:43-46, 94-108).
ToastsAddUp ==
    \A s \in Session :
        lastTotal[s] # None =>
            /\ baseline[s] + toasted[s] = lastTotal[s]
            /\ lastTotal[s] <= total[s]

\* A title never claims more than the session has saved, whatever order the
\* updates of overlapping handlers take effect in.
TitleNeverOverstates ==
    \A s \in Session : title[s].suffix <= total[s]

\* The title of s is the user's, and no handler is about to write another.
Writes(h, s) == task[h].pc = "update" /\ task[h].session = s
Faithful(s) == /\ title[s].user = userTitle[s]
               /\ \A h \in Handler : Writes(h, s) => task[h].base = userTitle[s]

\* stats-events.ts:24 "Sets the session title to "<original title> ...": of
\* overlapping handlers, duplicate events, renames and restarts only two
\* things take the user's title away.  One is a rename between a handler's
\* session.get and its session.update, which the handler undoes; the other a
\* session.get that is answered without data.
TitlesSpoilOnlyByRace ==
    [][\A s \in Session : Faithful(s) =>
          \/ Faithful(s)'
          \/ userTitle'[s] # userTitle[s] /\ \E h \in Handler : Writes(h, s)
          \/ \E h \in Handler : GotNoTitle(h) /\ task[h].session = s]_eventsVars

=============================================================================
