--------------------------- MODULE StatsStore_proofs ---------------------------
(***************************************************************************)
(* Proofs about StatsStore and about StatsEvents, which share no variable: *)
(* for each its own invariant.                                             *)
(*                                                                         *)
(* The store, for any processes, ids, amounts, budget of attempts and      *)
(* bounds.  A process that is not idle has a call: with the types this is  *)
(* the inductive invariant behind every theorem, because what an INSERT    *)
(* writes comes from the call that was begun, through opening and retries, *)
(* some steps earlier.                                                     *)
(*                                                                         *)
(* The message events, for any sessions, messages, savings and number of   *)
(* overlapping handlers.  What a handler carries from the event to the     *)
(* title, across three awaits, is a total the session once had, and totals *)
(* only grow: TasksAreOld is what makes TitleNeverOverstates inductive.    *)
(* ToastsAddUp needs that nothing was shown for a session before its first *)
(* turn: NoToastYet.                                                       *)
(***************************************************************************)
EXTENDS StatsStore, StatsEvents, TLAPS

CallInProgress == \A p \in Process : pc[p] # "idle" => call[p] \in Call

Inv == TypeOK /\ CallInProgress

USE DEF Goto, Return, Contended, Base, HostColumn, SessionColumn, FullSchema

\* The invariant holds initially.
LEMMA InitInv == Init => Inv
  BY StoreAssumption DEF Init, Inv, TypeOK, CallInProgress, Step

\* Every step of every process preserves the invariant.
LEMMA NextInv == Inv /\ [Next]_vars => Inv'
<1> SUFFICES ASSUME Inv, [Next]_vars PROVE Inv'
  OBVIOUS
<1> USE StoreAssumption DEF Inv, TypeOK, CallInProgress, Step, Call, Row
<1>1. ASSUME NEW p \in Process, NEW i \in Id, NEW t \in Tokens, LogCall(p, i, t)
      PROVE  Inv'
  BY <1>1 DEF LogCall
<1>2. ASSUME NEW p \in Process, CreateTable(p) PROVE Inv'
  BY <1>2 DEF CreateTable
<1>3. ASSUME NEW p \in Process, OpenFails(p) PROVE Inv'
  BY <1>3 DEF OpenFails
<1>4. ASSUME NEW p \in Process, AddHost(p) PROVE Inv'
  BY <1>4 DEF AddHost
<1>5. ASSUME NEW p \in Process, AddSession(p) PROVE Inv'
  BY <1>5 DEF AddSession
<1>6. ASSUME NEW p \in Process, AlterSwallowed(p) PROVE Inv'
  <2>1. CASE pc[p] = "addHost"
    BY <1>6, <2>1 DEF AlterSwallowed
  <2>2. CASE pc[p] = "addSession"
    <3>1. /\ busy[p] < MaxBusy /\ busy' = [busy EXCEPT ![p] = @ + 1]
          /\ pc' = [pc EXCEPT ![p] = "insert"]
          /\ conn' = [conn EXCEPT ![p] = TRUE]
          /\ UNCHANGED <<schema, rows, call, tries, failures, lost, now, calls, acked, pruned>>
      BY <1>6, <2>2 DEF AlterSwallowed
    <3> QED
      BY <2>2, <3>1
  <2> QED
    BY <1>6, <2>1, <2>2 DEF AlterSwallowed
<1>7. ASSUME NEW p \in Process, Insert(p) PROVE Inv'
  BY <1>7 DEF Insert
<1>8. ASSUME NEW p \in Process, RetryInsert(p) PROVE Inv'
  BY <1>8 DEF RetryInsert, InsertThrows
<1>9. ASSUME NEW p \in Process, GiveUp(p) PROVE Inv'
  BY <1>9 DEF GiveUp, InsertThrows
<1>10. ASSUME NEW p \in Process, Close(p) PROVE Inv'
  BY <1>10 DEF Close
<1>11. ASSUME NEW p \in Process, Crash(p) PROVE Inv'
  BY <1>11 DEF Crash
<1>12. ASSUME NEW p \in Process, NEW days \in 0 .. MaxNow, PruneOlderThan(p, days)
       PROVE  Inv'
  BY <1>12 DEF PruneOlderThan, Older
<1>13. ASSUME Tick PROVE Inv'
  BY <1>13 DEF Tick
<1>14. CASE UNCHANGED vars
  BY <1>14 DEF vars
<1> QED
  BY <1>1, <1>2, <1>3, <1>4, <1>5, <1>6, <1>7, <1>8, <1>9, <1>10, <1>11,
     <1>12, <1>13, <1>14 DEF Next, Proceed

\* The inductive invariant.
LEMMA Invariant == Spec => []Inv
  BY InitInv, NextInv, PTL DEF Spec

\* The variables keep their types, whatever the processes do.
THEOREM TypeCorrect == Spec => []TypeOK
  BY Invariant, PTL DEF Inv

-----------------------------------------------------------------------------
(* Durability.                                                             *)

\* A log() call that came back without an exception has its row until the row
\* is deleted by age, for any interleaving of processes, retries and crashes.
THEOREM AckedRowsAreDurable == Spec => []AckedIsDurable
<1>1. Init => AckedIsDurable
  BY DEF Init, AckedIsDurable
<1>2. Inv /\ AckedIsDurable /\ [Next]_vars => AckedIsDurable'
  <2> SUFFICES ASSUME Inv, AckedIsDurable, [Next]_vars PROVE AckedIsDurable'
    OBVIOUS
  <2> USE DEF AckedIsDurable
  <2>1. ASSUME NEW p \in Process, Insert(p) PROVE AckedIsDurable'
    <3>1. call[p] \in Call
      BY <2>1 DEF Insert, Inv, CallInProgress
    <3>2. [tok |-> call[p].tok, ts |-> now] # Absent
      BY <3>1, StoreAssumption DEF Inv, TypeOK, Call, Row
    <3> QED
      BY <2>1, <3>1, <3>2 DEF Insert, Inv, TypeOK, Call
  <2>2. ASSUME NEW p \in Process, NEW days \in 0 .. MaxNow, PruneOlderThan(p, days)
        PROVE  AckedIsDurable'
    BY <2>2 DEF PruneOlderThan, Inv, TypeOK
  <2>3. CASE UNCHANGED <<rows, acked, pruned>>
    BY <2>3
  <2> QED
    BY <2>1, <2>2, <2>3 DEF Next, Proceed, LogCall, CreateTable, OpenFails,
       AddHost, AddSession, AlterSwallowed, RetryInsert, GiveUp, Close, Crash,
       Tick, vars
<1> QED
  BY <1>1, <1>2, Invariant, PTL DEF Spec

\* The steps that write rows: an insert, or a deletion by age.
LEMMA OnlyInsertAndPruneWrite ==
    [Next]_vars /\ rows' # rows
      => \E p \in Process :
           \/ Insert(p)
           \/ \E days \in 0 .. MaxNow : PruneOlderThan(p, days)
  BY DEF Next, Proceed, LogCall, CreateTable, OpenFails, AddHost, AddSession,
     AlterSwallowed, RetryInsert, GiveUp, Close, Crash, Tick, vars

\* The first row of an id stands: retries and duplicate events in any number
\* of processes never overwrite it.
THEOREM FirstWriteStands == Spec => FirstWriteWins
<1>1. Inv /\ [Next]_vars
        => [\A i \in Id : rows[i] # Absent => rows'[i] \in {rows[i], Absent}]_rows
  <2> SUFFICES ASSUME Inv, [Next]_vars, rows' # rows,
                      NEW i \in Id, rows[i] # Absent
               PROVE  rows'[i] \in {rows[i], Absent}
    OBVIOUS
  <2>1. ASSUME NEW p \in Process, Insert(p) PROVE rows'[i] \in {rows[i], Absent}
    BY <2>1 DEF Insert, Inv, TypeOK
  <2>2. ASSUME NEW p \in Process, NEW days \in 0 .. MaxNow, PruneOlderThan(p, days)
        PROVE  rows'[i] \in {rows[i], Absent}
    BY <2>2 DEF PruneOlderThan, Inv, TypeOK
  <2> QED
    BY <2>1, <2>2, OnlyInsertAndPruneWrite
<1> QED
  BY <1>1, Invariant, PTL DEF Spec, FirstWriteWins

-----------------------------------------------------------------------------
(* Dropped rows.                                                           *)

\* When the columns are there from the start they stay, so
\* that every exception of an INSERT is contention, and what the dropped rows and
\* the tries of the current call have cost is covered by the contention seen.
Covered ==
    /\ schema = FullSchema
    /\ \A p \in Process : Attempts * failures[p] + lost[p] + tries[p] <= busy[p]

\* A row costs Attempts exceptions by contention to drop from an open store, and
\* one where the store had to be opened for it.
THEOREM DroppedRowsHaveTheirCost == Spec => DropsCostExceptions
<1> DEFINE D == \A p \in Process : Attempts * failures[p] + lost[p] + tries[p] <= busy[p]
<1>1. Init /\ schema = FullSchema => Covered
  BY StoreAssumption DEF Init, Covered
<1>2. Inv /\ Covered /\ [Next]_vars => Covered'
  <2> SUFFICES ASSUME Inv, Covered, [Next]_vars PROVE Covered'
    OBVIOUS
  <2> USE StoreAssumption DEF Inv, TypeOK, Covered
  <2>1. ASSUME NEW p \in Process, GiveUp(p) PROVE Covered'
    <3>1. /\ busy[p] < MaxBusy /\ busy' = [busy EXCEPT ![p] = @ + 1]
          /\ tries[p] + 1 = Attempts /\ tries' = [tries EXCEPT ![p] = 0]
          /\ failures' = [failures EXCEPT ![p] = @ + 1]
          /\ UNCHANGED <<schema, lost>>
      BY <2>1 DEF GiveUp, InsertThrows
    <3>2. Attempts * (failures[p] + 1) = Attempts * failures[p] + Attempts
      OBVIOUS
    <3> QED
      BY <3>1, <3>2
  <2>2. ASSUME NEW p \in Process, RetryInsert(p) PROVE Covered'
    <3>1. /\ busy' = [busy EXCEPT ![p] = @ + 1]
          /\ tries' = [tries EXCEPT ![p] = @ + 1]
          /\ UNCHANGED <<schema, failures, lost>>
      BY <2>2 DEF RetryInsert, InsertThrows
    <3>2. \A q \in Process : Attempts * failures[q] \in Nat
      OBVIOUS
    <3> QED
      BY <3>1, <3>2
  <2>3. ASSUME NEW p \in Process, OpenFails(p) PROVE Covered'
    <3>1. /\ busy' = [busy EXCEPT ![p] = @ + 1]
          /\ lost' = [lost EXCEPT ![p] = @ + 1]
          /\ tries' = [tries EXCEPT ![p] = 0]
          /\ UNCHANGED <<schema, failures>>
      BY <2>3 DEF OpenFails
    <3>2. \A q \in Process : Attempts * failures[q] \in Nat
      OBVIOUS
    <3> QED
      BY <3>1, <3>2
  <2>4. ASSUME NEW p \in Process, Insert(p) PROVE Covered'
    <3>1. /\ tries' = [tries EXCEPT ![p] = 0]
          /\ UNCHANGED <<schema, failures, lost, busy>>
      BY <2>4 DEF Insert
    <3>2. \A q \in Process : Attempts * failures[q] \in Nat
      OBVIOUS
    <3> QED
      BY <3>1, <3>2
  <2>5. ASSUME NEW p \in Process, Crash(p) PROVE Covered'
    <3>1. /\ tries' = [tries EXCEPT ![p] = 0]
          /\ failures' = [failures EXCEPT ![p] = 0]
          /\ UNCHANGED <<schema, lost, busy>>
      BY <2>5 DEF Crash
    <3>2. Attempts * 0 = 0
      OBVIOUS
    <3> QED
      BY <3>1, <3>2
  <2>6. ASSUME NEW p \in Process, CreateTable(p) \/ AddHost(p) \/ AddSession(p)
        PROVE  Covered'
    BY <2>6 DEF CreateTable, AddHost, AddSession
  <2>7. ASSUME NEW p \in Process, AlterSwallowed(p) PROVE Covered'
    <3>1. /\ busy' = [busy EXCEPT ![p] = @ + 1]
          /\ UNCHANGED <<schema, failures, lost, tries>>
      BY <2>7 DEF AlterSwallowed
    <3>2. \A q \in Process : Attempts * failures[q] \in Nat
      OBVIOUS
    <3> QED
      BY <3>1, <3>2
  <2>8. CASE UNCHANGED <<schema, failures, lost, tries, busy>>
    BY <2>8
  <2> QED
    BY <2>1, <2>2, <2>3, <2>4, <2>5, <2>6, <2>7, <2>8
       DEF Next, Proceed, LogCall, Close, PruneOlderThan, Tick, vars
<1>3. Covered => D
  BY DEF Covered
<1>4. DropsCostExceptions <=> (schema = FullSchema => []D)
  BY DEF DropsCostExceptions
<1> QED
  BY <1>1, <1>2, <1>3, <1>4, Invariant, PTL DEF Spec

-----------------------------------------------------------------------------
(* Refinement.                                                             *)

LedgerView == [i \in Id |-> IF rows[i] = Absent THEN Absent ELSE rows[i].tok]

\* The store with its retries, migrations and crashes implements the ledger:
\* every step is a first recording, a deletion of a set of rows, or a stutter.
THEOREM StoreImplementsLedger == Spec => ImplementsLedger
<1> USE DEF LedgerView
<1>1. Init => Ledger!LedgerInit
  BY DEF Init, Ledger!LedgerInit
<1>2. Inv /\ [Next]_vars => [Ledger!LedgerNext]_LedgerView
  <2> SUFFICES ASSUME Inv, [Next]_vars, rows' # rows
               PROVE  Ledger!LedgerNext \/ LedgerView' = LedgerView
    OBVIOUS
  <2>1. ASSUME NEW p \in Process, Insert(p)
        PROVE  Ledger!LedgerNext \/ LedgerView' = LedgerView
    <3>1. /\ call[p] \in Call
          /\ call[p].id \in Id /\ call[p].tok \in Tokens
      BY <2>1 DEF Insert, Inv, CallInProgress, Call
    <3>2. rows[call[p].id] = Absent
      BY <2>1, <3>1 DEF Insert, Inv, TypeOK
    <3>3. rows' = [rows EXCEPT ![call[p].id] = [tok |-> call[p].tok, ts |-> now]]
      BY <2>1, <3>1, <3>2 DEF Insert, Inv, TypeOK
    <3>4. [tok |-> call[p].tok, ts |-> now] # Absent
      BY <3>1, StoreAssumption DEF Inv, TypeOK, Row
    <3>5. Ledger!Record(call[p].id, call[p].tok)
      BY <3>1, <3>2, <3>3, <3>4 DEF Ledger!Record, Inv, TypeOK
    <3> QED
      BY <3>1, <3>5 DEF Ledger!LedgerNext, Ledger!Record
  <2>2. ASSUME NEW p \in Process, NEW days \in 0 .. MaxNow, PruneOlderThan(p, days)
        PROVE  Ledger!LedgerNext \/ LedgerView' = LedgerView
    <3> DEFINE S == {i \in Id : Older(i, days)}
    <3>1. rows' = [i \in Id |-> IF i \in S THEN Absent ELSE rows[i]]
      BY <2>2 DEF PruneOlderThan
    <3>2. LedgerView' = [i \in Id |-> IF i \in S THEN Absent ELSE LedgerView[i]]
      BY <3>1
    <3>3. S \in SUBSET Id
      OBVIOUS
    <3> HIDE DEF S, LedgerView
    <3> QED
      BY <3>2, <3>3 DEF Ledger!LedgerNext, Ledger!Forget, LedgerView
  <2> QED
    BY <2>1, <2>2, OnlyInsertAndPruneWrite
<1> QED
  BY <1>1, <1>2, Invariant, PTL
     DEF Spec, ImplementsLedger, Ledger!LedgerSpec

-----------------------------------------------------------------------------
(* The message events.                                                     *)

TasksAreOld ==
    \A h \in Handler : task[h] # Idle => task[h].total <= total[task[h].session]

NoToastYet == \A s \in Session : lastTotal[s] = None => toasted[s] = 0

EventsInv == EventsTypeOK /\ ToastsAddUp /\ TitleNeverOverstates /\ TasksAreOld /\ NoToastYet

\* A task that waits for the host is no idle handler.
LEMMA TaskFacts ==
    ASSUME EventsTypeOK, NEW h \in Handler
    PROVE  task[h].pc # "idle" <=> task[h] \in Task
  BY DEF EventsTypeOK, Task, Idle

\* Logging a message never lowers the total of a session.
LEMMA LogMessageGrows ==
    ASSUME EventsTypeOK, NEW m \in Message, NEW kept \in BOOLEAN, LogMessage(m, kept)
    PROVE  /\ Home[m] \in Session /\ TotalWith(m, kept) \in Nat
           /\ TotalWith(m, kept) >= total[Home[m]]
           /\ logged' \in SUBSET Message /\ total' \in [Session -> Nat]
           /\ total'[Home[m]] = TotalWith(m, kept)
           /\ \A s \in Session : total'[s] >= total[s]
           /\ \A s \in Session \ {Home[m]} : total'[s] = total[s]
<1>1. Home[m] \in Session /\ Saving[m] \in Nat
  BY EventsAssumption
<1>2. TotalWith(m, kept) \in Nat /\ TotalWith(m, kept) >= total[Home[m]]
  BY <1>1 DEF TotalWith, EventsTypeOK
<1> QED
  BY <1>1, <1>2 DEF LogMessage, EventsTypeOK

\* Growing totals keep titles and tasks truthful.
TotalsGrow == /\ total' \in [Session -> Nat]
              /\ \A s \in Session : total'[s] >= total[s]

\* While the totals grow, what titles and handlers display stays below them.
LEMMA GrowingTotals ==
    ASSUME EventsInv, TotalsGrow
    PROVE  /\ title' = title => TitleNeverOverstates'
           /\ task' = task => TasksAreOld'
<1>1. title' = title => TitleNeverOverstates'
  BY DEF EventsInv, TitleNeverOverstates, EventsTypeOK, Title, TotalsGrow
<1>2. task' = task => TasksAreOld'
  <2> SUFFICES ASSUME task' = task, NEW h \in Handler, task[h] # Idle
               PROVE  task[h].total <= total'[task[h].session]
    BY DEF TasksAreOld
  <2>1. task[h] \in Task
    BY DEF EventsInv, EventsTypeOK
  <2> QED
    BY <2>1 DEF EventsInv, TasksAreOld, EventsTypeOK, Task, TotalsGrow
<1> QED
  BY <1>1, <1>2

\* The invariant holds initially.
LEMMA InitEvents == EventsInit => EventsInv
<1> SUFFICES ASSUME EventsInit PROVE EventsInv
  OBVIOUS
<1>1. title \in [Session -> Title]
  BY DEF EventsInit, Title
<1>2. EventsTypeOK
  <2>1. /\ other \in [Session -> 0 .. MaxOther]
        /\ baseline \in [Session -> Nat] /\ toasted \in [Session -> Nat]
        /\ total \in [Session -> Nat]
    BY EventsAssumption DEF EventsInit
  <2> QED
    BY <1>1, <2>1 DEF EventsInit, EventsTypeOK
<1>3. ToastsAddUp /\ TasksAreOld /\ NoToastYet
  BY DEF EventsInit, ToastsAddUp, TasksAreOld, NoToastYet
<1>4. TitleNeverOverstates
  <2> SUFFICES ASSUME NEW s \in Session PROVE title[s].suffix <= total[s]
    BY DEF TitleNeverOverstates
  <2>1. title[s] = [user |-> userTitle[s], suffix |-> 0] /\ total[s] = 0
    BY DEF EventsInit
  <2>2. title[s].suffix = 0
    BY <2>1
  <2> QED
    BY <2>1, <2>2
<1> QED
  BY <1>2, <1>3, <1>4 DEF EventsInv

\* A completed message preserves the invariant, with and without new savings.
LEMMA TurnInv ==
    ASSUME EventsInv, NEW m \in Message, NEW kept \in BOOLEAN,
           \/ FirstTurn(m, kept) \/ QuietTurn(m, kept) \/ ReadFails(m, kept)
           \/ \E h \in Handler : SavingTurn(h, m, kept)
    PROVE  EventsInv'
<1> DEFINE s == Home[m]
<1>1. EventsTypeOK /\ LogMessage(m, kept) /\ UNCHANGED title
  BY DEF EventsInv, FirstTurn, QuietTurn, ReadFails, SavingTurn
<1>2. /\ s \in Session /\ TotalWith(m, kept) \in Nat /\ TotalWith(m, kept) >= total[s]
      /\ logged' \in SUBSET Message /\ total' \in [Session -> Nat]
      /\ total'[s] = TotalWith(m, kept)
      /\ \A t \in Session : total'[t] >= total[t]
      /\ \A t \in Session \ {s} : total'[t] = total[t]
  BY <1>1, LogMessageGrows
<1>3. TotalsGrow
  BY <1>2 DEF TotalsGrow
<1>4. ToastsAddUp /\ NoToastYet
  BY DEF EventsInv
<1>5. CASE FirstTurn(m, kept)
  <2>1. EventsTypeOK'
    BY <1>1, <1>2, <1>5 DEF FirstTurn, EventsTypeOK
  <2>2. TitleNeverOverstates' /\ TasksAreOld'
    BY <1>1, <1>3, <1>5, GrowingTotals DEF FirstTurn
  <2>3. toasted[s] = 0
    BY <1>2, <1>4, <1>5 DEF FirstTurn, NoToastYet
  <2>4. ToastsAddUp' /\ NoToastYet'
    BY <1>1, <1>2, <1>4, <1>5, <2>3, EventsAssumption
       DEF FirstTurn, ToastsAddUp, NoToastYet, EventsTypeOK
  <2> QED
    BY <2>1, <2>2, <2>4 DEF EventsInv
<1>6. CASE QuietTurn(m, kept)
  <2>1. EventsTypeOK'
    BY <1>1, <1>2, <1>6 DEF QuietTurn, EventsTypeOK
  <2>2. TitleNeverOverstates' /\ TasksAreOld'
    BY <1>1, <1>3, <1>6, GrowingTotals DEF QuietTurn
  <2>3. lastTotal'[s] = lastTotal[s] /\ lastTotal[s] \in Nat
    <3>1. lastTotal[s] # None /\ TotalWith(m, kept) <= lastTotal[s]
          /\ lastTotal' = [lastTotal EXCEPT ![s] = TotalWith(m, kept)]
      BY <1>6 DEF QuietTurn
    <3>2. lastTotal[s] \in Nat /\ lastTotal'[s] = TotalWith(m, kept)
      BY <1>1, <1>2, <3>1 DEF EventsTypeOK
    <3>3. lastTotal[s] <= total[s] /\ total[s] \in Nat
      BY <1>1, <1>2, <1>4, <3>1 DEF ToastsAddUp, EventsTypeOK
    <3> QED
      BY <1>2, <3>1, <3>2, <3>3
  <2>4. ToastsAddUp' /\ NoToastYet'
    BY <1>1, <1>2, <1>4, <1>6, <2>3 DEF QuietTurn, ToastsAddUp, NoToastYet, EventsTypeOK
  <2> QED
    BY <2>1, <2>2, <2>4 DEF EventsInv
<1>7. ASSUME NEW h \in Handler, SavingTurn(h, m, kept) PROVE EventsInv'
  <2> DEFINE new == [pc |-> "toast", session |-> s, total |-> TotalWith(m, kept), base |-> Blank]
  <2>1. /\ lastTotal[s] \in Nat /\ TotalWith(m, kept) - lastTotal[s] \in Nat
        /\ lastTotal' = [lastTotal EXCEPT ![s] = TotalWith(m, kept)]
        /\ toasted' = [toasted EXCEPT ![s] = @ + (TotalWith(m, kept) - lastTotal[s])]
        /\ UNCHANGED <<other, userTitle, baseline>>
    BY <1>1, <1>2, <1>7 DEF SavingTurn, EventsTypeOK
  <2>3. task' = [task EXCEPT ![h] = new] /\ new \in Task
    BY <1>2, <1>7 DEF SavingTurn, Task
  <2>4. EventsTypeOK'
    <3>1. /\ lastTotal' \in [Session -> Nat \cup {None}]
          /\ toasted' \in [Session -> Nat]
      BY <1>1, <1>2, <2>1 DEF EventsTypeOK
    <3>2. task' \in [Handler -> Task \cup {Idle}]
      BY <1>1, <2>3 DEF EventsTypeOK
    <3> QED
      BY <1>1, <1>2, <2>1, <3>1, <3>2 DEF EventsTypeOK
  <2>5. TitleNeverOverstates' /\ TasksAreOld'
    <3>1. TitleNeverOverstates'
      BY <1>1, <1>3, GrowingTotals
    <3> SUFFICES ASSUME NEW g \in Handler, task'[g] # Idle
                 PROVE  task'[g].total <= total'[task'[g].session]
      BY <3>1 DEF TasksAreOld
    <3>2. CASE g = h
      BY <1>1, <1>2, <2>3, <3>2 DEF EventsTypeOK
    <3>3. CASE g # h
      <4>1. task'[g] = task[g] /\ task[g] \in Task
        BY <1>1, <2>3, <3>3 DEF EventsTypeOK
      <4> QED
        BY <1>1, <1>3, <4>1 DEF EventsInv, TasksAreOld, TotalsGrow, EventsTypeOK, Task
    <3> QED
      BY <3>2, <3>3
  <2>6. ToastsAddUp' /\ NoToastYet'
    <3>1. lastTotal'[s] = TotalWith(m, kept) /\ TotalWith(m, kept) # None
      BY <1>1, <1>2, <2>1, EventsAssumption DEF EventsTypeOK
    <3>2. toasted'[s] = toasted[s] + (TotalWith(m, kept) - lastTotal[s])
      BY <1>1, <1>2, <2>1 DEF EventsTypeOK
    <3>3. baseline[s] + toasted[s] = lastTotal[s] /\ baseline[s] \in Nat /\ toasted[s] \in Nat
      BY <1>1, <1>2, <1>4, <2>1, EventsAssumption DEF ToastsAddUp, EventsTypeOK
    <3>4. \A t \in Session \ {s} : lastTotal'[t] = lastTotal[t] /\ toasted'[t] = toasted[t]
      BY <1>1, <2>1 DEF EventsTypeOK
    <3> QED
      BY <1>1, <1>2, <1>4, <2>1, <3>1, <3>2, <3>3, <3>4
         DEF ToastsAddUp, NoToastYet, EventsTypeOK
  <2> QED
    BY <2>4, <2>5, <2>6 DEF EventsInv
<1>8. CASE ReadFails(m, kept)
  <2>1. EventsTypeOK'
    BY <1>1, <1>2, <1>8 DEF ReadFails, EventsTypeOK
  <2>2. TitleNeverOverstates' /\ TasksAreOld'
    BY <1>1, <1>3, <1>8, GrowingTotals DEF ReadFails
  <2>3. ToastsAddUp' /\ NoToastYet'
    BY <1>1, <1>2, <1>4, <1>8 DEF ReadFails, ToastsAddUp, NoToastYet, EventsTypeOK
  <2> QED
    BY <2>1, <2>2, <2>3 DEF EventsInv
<1> QED
  BY <1>5, <1>6, <1>7, <1>8

\* An answer of the host moves a handler on and keeps the invariant.
LEMMA HostInv ==
    ASSUME EventsInv, NEW h \in Handler,
           ToastShown(h) \/ GotTitle(h) \/ GotNoTitle(h) \/ TitleUpdated(h) \/ HostFails(h)
    PROVE  EventsInv'
<1>1. EventsTypeOK /\ task[h] \in Task /\ task[h] # Idle /\ task[h].session \in Session
      /\ task[h].total <= total[task[h].session]
  <2>1. EventsTypeOK /\ task[h] # Idle
    BY DEF EventsInv, ToastShown, GotTitle, GotNoTitle, TitleUpdated, HostFails, Idle
  <2>2. task[h] \in Task
    BY <2>1 DEF EventsTypeOK
  <2> QED
    BY <2>1, <2>2 DEF EventsInv, TasksAreOld, Task
<1>2. UNCHANGED <<logged, total, other, lastTotal, userTitle, baseline, toasted>>
  BY DEF ToastShown, GotTitle, GotNoTitle, TitleUpdated, HostFails
<1>4. ToastsAddUp' /\ NoToastYet'
  BY <1>2 DEF EventsInv, ToastsAddUp, NoToastYet
<1>5. CASE UNCHANGED title
  <2>1. PICK t : /\ task' = [task EXCEPT ![h] = t]
                 /\ \/ t = Idle
                    \/ /\ t \in Task
                       /\ t.session = task[h].session /\ t.total = task[h].total
    <3>1. CASE ToastShown(h)
      <4> DEFINE t == [task[h] EXCEPT !.pc = "get"]
      <4>1. task' = [task EXCEPT ![h] = t]
        BY <3>1 DEF ToastShown
      <4>2. t \in Task /\ t.session = task[h].session /\ t.total = task[h].total
        BY <1>1 DEF Task
      <4> QED
        BY <4>1, <4>2
    <3>2. CASE GotTitle(h)
      <4> DEFINE t == [task[h] EXCEPT !.pc = "update",
                                         !.base = title[task[h].session].user]
      <4>1. task' = [task EXCEPT ![h] = t]
        BY <3>2 DEF GotTitle
      <4>2. t \in Task /\ t.session = task[h].session /\ t.total = task[h].total
        BY <1>1 DEF Task, Title, EventsTypeOK
      <4> QED
        BY <4>1, <4>2
    <3>3. CASE GotNoTitle(h)
      <4> DEFINE t == [task[h] EXCEPT !.pc = "update", !.base = Blank]
      <4>1. task' = [task EXCEPT ![h] = t]
        BY <3>3 DEF GotNoTitle
      <4>2. t \in Task /\ t.session = task[h].session /\ t.total = task[h].total
        BY <1>1 DEF Task
      <4> QED
        BY <4>1, <4>2
    <3>4. CASE TitleUpdated(h) \/ HostFails(h)
      BY <1>1, <3>4 DEF TitleUpdated, HostFails
    <3> QED
      BY <3>1, <3>2, <3>3, <3>4
  <2>2. EventsTypeOK'
    BY <1>1, <1>2, <1>5, <2>1 DEF EventsTypeOK
  <2>3. TitleNeverOverstates'
    BY <1>2, <1>5 DEF EventsInv, TitleNeverOverstates
  <2>4. TasksAreOld'
    BY <1>1, <1>2, <2>1 DEF EventsInv, TasksAreOld, EventsTypeOK
  <2> QED
    BY <1>4, <2>2, <2>3, <2>4 DEF EventsInv
<1>6. CASE TitleUpdated(h)
  <2> DEFINE new == [user |-> task[h].base, suffix |-> task[h].total]
  <2>1. /\ title' = [title EXCEPT ![task[h].session] = new] /\ new \in Title
        /\ task' = [task EXCEPT ![h] = Idle]
    BY <1>1, <1>6 DEF TitleUpdated, Title, Task
  <2>2. EventsTypeOK'
    BY <1>1, <1>2, <2>1 DEF EventsTypeOK
  <2>3. TitleNeverOverstates'
    BY <1>1, <1>2, <2>1 DEF EventsInv, TitleNeverOverstates, EventsTypeOK
  <2>4. TasksAreOld'
    BY <1>1, <1>2, <2>1 DEF EventsInv, TasksAreOld, EventsTypeOK
  <2> QED
    BY <1>4, <2>2, <2>3, <2>4 DEF EventsInv
<1> QED
  BY <1>5, <1>6 DEF ToastShown, GotTitle, GotNoTitle, HostFails

\* Savings logged elsewhere, renames and restarts preserve the invariant.
LEMMA OtherInv ==
    ASSUME EventsInv,
           \/ \E s \in Session : OtherSaving(s) \/ \E u \in UserTitle : Rename(s, u)
           \/ Restart \/ UNCHANGED eventsVars
    PROVE  EventsInv'
<1> USE EventsAssumption
<1>1. ASSUME NEW s \in Session, OtherSaving(s) PROVE EventsInv'
  <2>1. /\ total' \in [Session -> Nat] /\ other' \in [Session -> 0 .. MaxOther]
        /\ \A t \in Session : total'[t] >= total[t]
    <3>1. /\ total \in [Session -> Nat] /\ other \in [Session -> 0 .. MaxOther]
          /\ other[s] < MaxOther
          /\ total' = [total EXCEPT ![s] = @ + 1] /\ other' = [other EXCEPT ![s] = @ + 1]
      BY <1>1 DEF OtherSaving, EventsInv, EventsTypeOK
    <3> QED
      BY <3>1
  <2>2. EventsTypeOK'
    BY <1>1, <2>1 DEF OtherSaving, EventsInv, EventsTypeOK
  <2>3. TitleNeverOverstates' /\ TasksAreOld'
    BY <1>1, <2>1, GrowingTotals DEF OtherSaving, TotalsGrow
  <2>4. ToastsAddUp' /\ NoToastYet'
    BY <1>1, <2>1 DEF OtherSaving, EventsInv, ToastsAddUp, NoToastYet, EventsTypeOK
  <2> QED
    BY <2>2, <2>3, <2>4 DEF EventsInv
<1>2. ASSUME NEW s \in Session, NEW u \in UserTitle, Rename(s, u) PROVE EventsInv'
  <2>1. [user |-> u, suffix |-> 0] \in Title
    BY DEF Title
  <2>2. EventsTypeOK'
    BY <1>2, <2>1 DEF Rename, EventsInv, EventsTypeOK
  <2>3. TitleNeverOverstates'
    BY <1>2 DEF Rename, EventsInv, TitleNeverOverstates, EventsTypeOK
  <2>4. ToastsAddUp' /\ NoToastYet' /\ TasksAreOld'
    BY <1>2 DEF Rename, EventsInv, ToastsAddUp, NoToastYet, TasksAreOld
  <2> QED
    BY <2>2, <2>3, <2>4 DEF EventsInv
<1>3. CASE Restart
  <2>2. EventsTypeOK'
    BY <1>3 DEF Restart, EventsInv, EventsTypeOK
  <2>3. TitleNeverOverstates' /\ TasksAreOld'
    BY <1>3 DEF Restart, EventsInv, TitleNeverOverstates, TasksAreOld
  <2>4. ToastsAddUp' /\ NoToastYet'
    BY <1>3 DEF Restart, ToastsAddUp, NoToastYet
  <2> QED
    BY <2>2, <2>3, <2>4 DEF EventsInv
<1>4. CASE UNCHANGED eventsVars
  BY <1>4 DEF eventsVars, EventsInv, EventsTypeOK, ToastsAddUp, NoToastYet, TitleNeverOverstates, TasksAreOld
<1> QED
  BY <1>1, <1>2, <1>3, <1>4

\* Every event, answer, rename and restart preserves the invariant.
LEMMA NextEvents == EventsInv /\ [EventsNext]_eventsVars => EventsInv'
  BY TurnInv, HostInv, OtherInv DEF EventsNext

\* The invariant holds in every reachable state.
LEMMA EventsInvariant == EventsSpec => []EventsInv
  BY InitEvents, NextEvents, PTL DEF EventsSpec

-----------------------------------------------------------------------------
(* The theorems.                                                           *)

\* The variables keep their types, whatever events and answers come.
THEOREM EventsTypeCorrect == EventsSpec => []EventsTypeOK
  BY EventsInvariant, PTL DEF EventsInv

\* The toasts of a session announce exactly what it saved since its first
\* turn, with any number of overlapping handlers and duplicate events.
THEOREM ToastsAlwaysAddUp == EventsSpec => []ToastsAddUp
  BY EventsInvariant, PTL DEF EventsInv

\* A session title never claims more than the session saved.
THEOREM TitlesNeverOverstate == EventsSpec => []TitleNeverOverstates
  BY EventsInvariant, PTL DEF EventsInv

-----------------------------------------------------------------------------
(* Titles.                                                                 *)

Excused(s) ==
    \/ userTitle'[s] # userTitle[s] /\ \E h \in Handler : Writes(h, s)
    \/ \E h \in Handler : GotNoTitle(h) /\ task[h].session = s

\* A step that leaves the titles alone keeps one faithful if a handler that
\* is about to write it now was so before, or has the user's title.
LEMMA TitlesUntouched ==
    ASSUME NEW s \in Session, Faithful(s), UNCHANGED <<title, userTitle>>,
           \A g \in Handler : Writes(g, s)' =>
               \/ task'[g].base = userTitle[s]
               \/ Writes(g, s) /\ task'[g].base = task[g].base
    PROVE  Faithful(s)'
  BY DEF Faithful

\* What a handler does keeps a title faithful, a session.get without data aside.
LEMMA HandlerKeepsTitle ==
    ASSUME EventsTypeOK, NEW s \in Session, Faithful(s), ~ Excused(s), NEW h \in Handler,
           ToastShown(h) \/ GotTitle(h) \/ GotNoTitle(h) \/ TitleUpdated(h) \/ HostFails(h)
    PROVE  Faithful(s)'
<1>1. task[h] \in Task /\ task[h].session \in Session
  <2>1. task[h] # Idle
    BY DEF ToastShown, GotTitle, GotNoTitle, TitleUpdated, HostFails, Idle
  <2>2. task[h] \in Task
    BY <2>1 DEF EventsTypeOK
  <2> QED
    BY <2>2 DEF Task
<1>2. task = [g \in Handler |-> task[g]] /\ title = [t \in Session |-> title[t]]
  BY DEF EventsTypeOK
<1>3. CASE ToastShown(h)
  BY <1>1, <1>2, <1>3, TitlesUntouched DEF ToastShown, Writes
<1>4. CASE GotTitle(h)
  <2>1. title[s].user = userTitle[s]
    BY DEF Faithful
  <2>2. task' = [task EXCEPT ![h].pc = "update", ![h].base = title[task[h].session].user]
        /\ UNCHANGED <<title, userTitle>>
    BY <1>4 DEF GotTitle
  <2>3. /\ task'[h].session = task[h].session
        /\ task'[h].base = title[task[h].session].user
        /\ \A g \in Handler \ {h} : task'[g] = task[g]
    <3>1. task[h] = [pc |-> task[h].pc, session |-> task[h].session,
                     total |-> task[h].total, base |-> task[h].base]
      BY <1>1 DEF Task
    <3> QED
      BY <1>2, <2>2, <3>1
  <2>4. \A g \in Handler : Writes(g, s)' =>
           \/ task'[g].base = userTitle[s]
           \/ Writes(g, s) /\ task'[g].base = task[g].base
    BY <2>1, <2>3 DEF Writes
  <2> QED
    BY <2>2, <2>4, TitlesUntouched
<1>5. CASE GotNoTitle(h)
  <2>1. task[h].session # s
    BY <1>5 DEF Excused
  <2> QED
    BY <1>1, <1>2, <1>5, <2>1, TitlesUntouched DEF GotNoTitle, Writes
<1>6. CASE TitleUpdated(h)
  <2>1. \A g \in Handler : Writes(g, s)' => Writes(g, s) /\ task'[g] = task[g]
    BY <1>1, <1>2, <1>6 DEF TitleUpdated, Writes, Idle
  <2>2. title'[s].user = userTitle[s]
    <3>1. CASE task[h].session = s
      <4>1. task[h].base = userTitle[s]
        BY <1>6, <3>1 DEF TitleUpdated, Faithful, Writes
      <4> QED
        BY <1>2, <1>6, <3>1, <4>1 DEF TitleUpdated
    <3>2. CASE task[h].session # s
      BY <1>2, <1>6, <3>2 DEF TitleUpdated, Faithful
    <3> QED
      BY <3>1, <3>2
  <2> QED
    BY <1>6, <2>1, <2>2 DEF TitleUpdated, Faithful
<1>7. CASE HostFails(h)
  BY <1>1, <1>2, <1>7, TitlesUntouched DEF HostFails, Writes, Idle
<1> QED
  BY <1>3, <1>4, <1>5, <1>6, <1>7

\* So does every other step, but for a rename that meets a handler.
LEMMA StepKeepsTitle ==
    ASSUME EventsTypeOK, [EventsNext]_eventsVars, NEW s \in Session, Faithful(s), ~ Excused(s)
    PROVE  Faithful(s)'
<1>1. task = [g \in Handler |-> task[g]] /\ title = [t \in Session |-> title[t]]
      /\ userTitle = [t \in Session |-> userTitle[t]]
  BY DEF EventsTypeOK
<1>2. ASSUME NEW t \in Session, NEW u \in UserTitle, Rename(t, u) PROVE Faithful(s)'
  <2>1. CASE t # s \/ userTitle[s] = u
    BY <1>1, <1>2, <2>1 DEF Rename, Faithful, Writes
  <2>2. CASE t = s /\ userTitle[s] # u
    <3>1. userTitle'[s] = u /\ title'[s].user = u /\ task' = task
      BY <1>1, <1>2, <2>2 DEF Rename
    <3>2. \A g \in Handler : ~ Writes(g, s)
      BY <2>2, <3>1 DEF Excused
    <3> QED
      BY <3>1, <3>2 DEF Faithful, Writes
  <2> QED
    BY <2>1, <2>2
<1>3. ASSUME NEW t \in Session, OtherSaving(t) PROVE Faithful(s)'
  BY <1>3 DEF OtherSaving, Faithful, Writes
<1>4. ASSUME NEW m \in Message, NEW kept \in BOOLEAN,
             FirstTurn(m, kept) \/ QuietTurn(m, kept) \/ ReadFails(m, kept)
      PROVE  Faithful(s)'
  BY <1>4 DEF FirstTurn, QuietTurn, ReadFails, Faithful, Writes
<1>5. ASSUME NEW m \in Message, NEW kept \in BOOLEAN, NEW h \in Handler, SavingTurn(h, m, kept)
      PROVE  Faithful(s)'
  BY <1>1, <1>5, TitlesUntouched DEF SavingTurn, Writes
<1>6. CASE Restart
  BY <1>6, TitlesUntouched DEF Restart, Writes, Idle
<1>7. CASE UNCHANGED eventsVars
  BY <1>7 DEF eventsVars, Faithful, Writes
<1> QED
  BY <1>2, <1>3, <1>4, <1>5, <1>6, <1>7, HandlerKeepsTitle DEF EventsNext

\* Nothing but a rename between session.get and session.update, or an answer
\* without data, takes the user's title from a session.
THEOREM TitlesAlwaysSpoilOnlyByRace == EventsSpec => TitlesSpoilOnlyByRace
<1>1. EventsTypeOK /\ [EventsNext]_eventsVars =>
        \A s \in Session : Faithful(s) => Faithful(s)' \/ Excused(s)
  BY StepKeepsTitle
<1>2. EventsInv => EventsTypeOK
  BY DEF EventsInv
<1>3. (\A s \in Session : Faithful(s) => Faithful(s)' \/ Excused(s))
      => \A s \in Session : Faithful(s) =>
            \/ Faithful(s)'
            \/ userTitle'[s] # userTitle[s] /\ \E h \in Handler : Writes(h, s)
            \/ \E h \in Handler : GotNoTitle(h) /\ task[h].session = s
  BY DEF Excused
<1> QED
  BY <1>1, <1>2, <1>3, EventsInvariant, PTL DEF EventsSpec, TitlesSpoilOnlyByRace

=============================================================================
