------------------------------ MODULE StatsStore ------------------------------
(***************************************************************************)
(* The savings database ~/.ctxlite/stats.db of packages/core/src/stats.ts  *)
(* and the processes that write it: the OpenCode plugin and the MCP server *)
(* (one shared connection for the life of the process) and the command     *)
(* line and hook bridges (a connection per run).  A process is single      *)
(* threaded and log() is synchronous, so a process has one call at a time; *)
(* the processes interleave at every SQL statement.  A statement may throw *)
(* because another process holds the write lock for longer than            *)
(* busy_timeout: that is what the retry, the swallowed exceptions and the  *)
(* failure counter are about.                                              *)
(***************************************************************************)
EXTENDS Naturals

CONSTANTS Process,         \* operating system processes with a copy of the store
          Id,              \* primary keys of rows, e.g. concise-<message>
          Tokens,          \* savings worth logging; log*() returns at once on <= 0
          Absent,          \* no row, no call
          Attempts,        \* runWithRetry's budget, 3 in the code
          InitialSchemas,  \* what an existing stats.db may hold at the start
          MaxCalls,        \* bound: log() calls in a behaviour
          MaxBusy,         \* bound: exceptions by lock contention per process
          MaxNow           \* bound: the clock, in days

Base == "requests"
HostColumn == "host"
SessionColumn == "session_id"
FullSchema == {Base, HostColumn, SessionColumn}

Row == [tok : Tokens, ts : 0 .. MaxNow]
Call == [id : Id, tok : Tokens]

ASSUME StoreAssumption ==
    /\ Absent \notin Tokens \cup Row
    /\ Attempts \in Nat \ {0}
    /\ InitialSchemas \subseteq SUBSET FullSchema
    /\ MaxCalls \in Nat /\ MaxBusy \in Nat /\ MaxNow \in Nat

VARIABLES
    schema,     \* the table and the added columns that exist
    rows,       \* rows[i] = Absent or what the row of i holds
    conn,       \* conn[p]: the process holds an open StatsStore
    pc,         \* pc[p]: the statement the process executes next
    call,       \* call[p]: the log() call in progress
    tries,      \* tries[p]: failed attempts of the call in progress
    failures,   \* failures[p]: logFailureCount
    lost,       \* lost[p]: rows dropped because the store did not open (history)
    busy,       \* busy[p]: exceptions by contention so far
    now,        \* the clock
    calls,      \* log() calls so far
    acked,      \* ids whose log() call came back without an exception
    pruned      \* ids deleted by age

vars == <<schema, rows, conn, pc, call, tries, failures, lost, busy, now, calls,
          acked, pruned>>

Step == {"idle", "create", "addHost", "addSession", "insert"}

TypeOK ==
    /\ schema \in SUBSET FullSchema
    /\ rows \in [Id -> Row \cup {Absent}]
    /\ conn \in [Process -> BOOLEAN]
    /\ pc \in [Process -> Step]
    /\ call \in [Process -> Call \cup {Absent}]
    /\ tries \in [Process -> 0 .. Attempts - 1]
    /\ failures \in [Process -> Nat]
    /\ lost \in [Process -> Nat]
    /\ busy \in [Process -> 0 .. MaxBusy]
    /\ now \in 0 .. MaxNow
    /\ calls \in 0 .. MaxCalls
    /\ acked \in SUBSET Id
    /\ pruned \in SUBSET Id

Init ==
    /\ schema \in InitialSchemas
    /\ rows = [i \in Id |-> Absent]
    /\ conn = [p \in Process |-> FALSE]
    /\ pc = [p \in Process |-> "idle"]
    /\ call = [p \in Process |-> Absent]
    /\ tries = [p \in Process |-> 0]
    /\ failures = [p \in Process |-> 0]
    /\ lost = [p \in Process |-> 0]
    /\ busy = [p \in Process |-> 0]
    /\ now = 0
    /\ calls = 0
    /\ acked = {}
    /\ pruned = {}

Goto(p, step) == pc' = [pc EXCEPT ![p] = step]

\* The call is over and the process waits for the next event.
Return(p) ==
    /\ Goto(p, "idle")
    /\ call' = [call EXCEPT ![p] = Absent]
    /\ tries' = [tries EXCEPT ![p] = 0]

\* A statement throws because the write lock is held elsewhere.
Contended(p) ==
    /\ busy[p] < MaxBusy
    /\ busy' = [busy EXCEPT ![p] = @ + 1]

-----------------------------------------------------------------------------
(* A call of one of the log functions.                                     *)

\* getSharedStore opens the store on first use, later calls reuse it.  The id
\* is fixed here, before the retries.
LogCall(p, i, t) ==
    /\ pc[p] = "idle"
    /\ calls < MaxCalls
    /\ calls' = calls + 1
    /\ call' = [call EXCEPT ![p] = [id |-> i, tok |-> t]]
    /\ Goto(p, IF conn[p] THEN "insert" ELSE "create")
    /\ UNCHANGED <<schema, rows, conn, tries, failures, lost, busy, now, acked, pruned>>

\* CREATE TABLE IF NOT EXISTS: the table as it was before the two ALTERs.
CreateTable(p) ==
    /\ pc[p] = "create"
    /\ schema' = schema \cup {Base}
    /\ Goto(p, "addHost")
    /\ UNCHANGED <<rows, conn, call, tries, failures, lost, busy, now, calls, acked, pruned>>

\* The open, a pragma or the CREATE throws: the constructor throws, outside
\* the retry, and the log function swallows it.  The row is dropped after this
\* one exception, and logFailureCount does not see it.
OpenFails(p) ==
    /\ pc[p] = "create"
    /\ Contended(p)
    /\ Return(p)
    /\ lost' = [lost EXCEPT ![p] = @ + 1]
    /\ UNCHANGED <<schema, rows, conn, failures, now, calls, acked, pruned>>

\* ALTER TABLE ... ADD COLUMN host; on an existing column it throws and the
\* exception is swallowed, which leaves the same schema.
AddHost(p) ==
    /\ pc[p] = "addHost"
    /\ schema' = schema \cup {HostColumn}
    /\ Goto(p, "addSession")
    /\ UNCHANGED <<rows, conn, call, tries, failures, lost, busy, now, calls, acked, pruned>>

\* ALTER TABLE ... ADD COLUMN session_id, the last step of the constructor.
AddSession(p) ==
    /\ pc[p] = "addSession"
    /\ schema' = schema \cup {SessionColumn}
    /\ conn' = [conn EXCEPT ![p] = TRUE]
    /\ Goto(p, "insert")
    /\ UNCHANGED <<rows, call, tries, failures, lost, busy, now, calls, acked, pruned>>

\* The same catch swallows lock contention, and the open goes on.
AlterSwallowed(p) ==
    /\ Contended(p)
    /\ \/ /\ pc[p] = "addHost"
          /\ Goto(p, "addSession")
          /\ UNCHANGED conn
       \/ /\ pc[p] = "addSession"
          /\ Goto(p, "insert")
          /\ conn' = [conn EXCEPT ![p] = TRUE]
    /\ UNCHANGED <<schema, rows, call, tries, failures, lost, now, calls, acked, pruned>>

\* Mutant of Insert: INSERT OR REPLACE.
InsertReplaces(p) ==
    /\ pc[p] = "insert"
    /\ schema = FullSchema
    /\ rows' = [rows EXCEPT ![call[p].id] = [tok |-> call[p].tok, ts |-> now]]
    /\ acked' = acked \cup {call[p].id}
    /\ pruned' = pruned \ {call[p].id}
    /\ Return(p)
    /\ UNCHANGED <<schema, conn, failures, lost, busy, now, calls>>

\* INSERT OR IGNORE: the row of a known id stays as it is.
Insert(p) ==
    /\ pc[p] = "insert"
    /\ schema = FullSchema
    /\ LET c == call[p] IN
         /\ rows' = [rows EXCEPT ![c.id] =
                       IF @ = Absent THEN [tok |-> c.tok, ts |-> now] ELSE @]
         /\ acked' = acked \cup {c.id}
         /\ pruned' = pruned \ {c.id}
    /\ Return(p)
    /\ UNCHANGED <<schema, conn, failures, lost, busy, now, calls>>

\* The statement throws: a column it names is missing, or the lock is held.
InsertThrows(p) ==
    /\ pc[p] = "insert"
    /\ \/ schema # FullSchema /\ UNCHANGED busy
       \/ Contended(p)

\* Mutant of RetryInsert: the attempts are not counted.
RetryUncounted(p) ==
    /\ InsertThrows(p)
    /\ UNCHANGED <<schema, rows, conn, pc, call, tries, failures, lost, now, calls,
                   acked, pruned>>

\* One more attempt while the budget lasts, with the same id.
RetryInsert(p) ==
    /\ InsertThrows(p)
    /\ tries[p] + 1 < Attempts
    /\ tries' = [tries EXCEPT ![p] = @ + 1]
    /\ UNCHANGED <<schema, rows, conn, pc, call, failures, lost, now, calls, acked, pruned>>

\* Mutant of GiveUp: the last exception is swallowed as if the row were there.
GiveUpSilently(p) ==
    /\ InsertThrows(p)
    /\ tries[p] + 1 = Attempts
    /\ acked' = acked \cup {call[p].id}
    /\ Return(p)
    /\ UNCHANGED <<schema, rows, conn, failures, lost, now, calls, pruned>>

\* Mutant of GiveUp: one attempt too few.
GiveUpEarly(p) ==
    /\ InsertThrows(p)
    /\ tries[p] + 2 >= Attempts
    /\ failures' = [failures EXCEPT ![p] = @ + 1]
    /\ Return(p)
    /\ UNCHANGED <<schema, rows, conn, lost, now, calls, acked, pruned>>

\* The budget is spent: the row is dropped and counted.
GiveUp(p) ==
    /\ InsertThrows(p)
    /\ tries[p] + 1 = Attempts
    /\ failures' = [failures EXCEPT ![p] = @ + 1]
    /\ Return(p)
    /\ UNCHANGED <<schema, rows, conn, lost, now, calls, acked, pruned>>

-----------------------------------------------------------------------------
(* The rest of a process's life.                                           *)

\* close, or closeSharedStores at the end of a short-lived run.
Close(p) ==
    /\ pc[p] = "idle" /\ conn[p]
    /\ conn' = [conn EXCEPT ![p] = FALSE]
    /\ UNCHANGED <<schema, rows, pc, call, tries, failures, lost, busy, now, calls, acked, pruned>>

\* The process dies between two statements and is started again.
Crash(p) ==
    /\ conn[p] \/ pc[p] # "idle"
    /\ conn' = [conn EXCEPT ![p] = FALSE]
    /\ failures' = [failures EXCEPT ![p] = 0]
    /\ Return(p)
    /\ UNCHANGED <<schema, rows, lost, busy, now, calls, acked, pruned>>

\* pruneOlderThan: ts < now - days, where the cutoff may lie before day 0.
Older(i, days) == rows[i] # Absent /\ rows[i].ts + days < now

PruneOlderThan(p, days) ==
    /\ pc[p] = "idle" /\ conn[p]
    /\ LET S == {i \in Id : Older(i, days)} IN
         /\ S # {}
         /\ rows' = [i \in Id |-> IF i \in S THEN Absent ELSE rows[i]]
         /\ pruned' = pruned \cup S
    /\ UNCHANGED <<schema, conn, pc, call, tries, failures, lost, busy, now, calls, acked>>

Tick ==
    /\ now < MaxNow
    /\ now' = now + 1
    /\ UNCHANGED <<schema, rows, conn, pc, call, tries, failures, lost, busy, calls, acked, pruned>>

\* The steps of a process that has a call in progress.
Proceed(p) ==
    \/ CreateTable(p) \/ OpenFails(p)
    \/ AddHost(p) \/ AddSession(p) \/ AlterSwallowed(p)
    \/ Insert(p) \/ RetryInsert(p) \/ GiveUp(p)

Next ==
    \/ \E p \in Process :
         \/ \E i \in Id, t \in Tokens : LogCall(p, i, t)
         \/ Proceed(p)
         \/ Close(p)
         \/ Crash(p)
         \/ \E days \in 0 .. MaxNow : PruneOlderThan(p, days)
    \/ Tick

Spec == Init /\ [][Next]_vars

\* A synchronous call runs to its end: SQLite answers or times out.
FairSpec == Spec /\ \A p \in Process : WF_vars(Proceed(p))

-----------------------------------------------------------------------------
(* Properties.                                                             *)

\* A log() call that came back without an exception has its row in the
\* database, through retries, crashes of any process and concurrent opens,
\* until the row is deleted by age (stats.ts:98-129, 340-343).
AckedIsDurable ==
    \A i \in acked : i \in pruned \/ rows[i] # Absent

\* A duplicate event never changes the row of the first one: stats-events.ts:38
\* relies on it to be safe across duplicate events, retries and two processes.
FirstWriteWins ==
    [][\A i \in Id : rows[i] # Absent => rows'[i] \in {rows[i], Absent}]_rows

\* On a database that has its columns from the start the contention seen by a
\* process covers what its dropped rows cost: Attempts exceptions, all spent on
\* that row, for one that an open store drops (runWithRetry, stats.ts:59-70), but
\* a single one for a row whose call had to open the store (stats.ts:88-92 outside
\* of the retry, swallowed at 406-422 and 503).  Shorter contention, over any
\* number of calls of open stores, loses nothing.
DropsCostExceptions ==
    schema = FullSchema =>
        [](\A p \in Process :
             Attempts * failures[p] + lost[p] + tries[p] <= busy[p])

\* Every log() call returns to its caller: a database problem never hangs a
\* tool call (the retry is bounded).
LogReturns == \A p \in Process : pc[p] # "idle" ~> pc[p] = "idle"

\* The comment at stats.ts:34 takes every exception of an ALTER for "Column
\* already exists": an open store then has all its columns.
OpenStoreHasItsColumns == \A p \in Process : conn[p] => schema = FullSchema

\* What the database promises to its writers.
Ledger == INSTANCE SavingsLedger WITH
            ledger <- [i \in Id |-> IF rows[i] = Absent THEN Absent ELSE rows[i].tok]

ImplementsLedger == Ledger!LedgerSpec

=============================================================================
