---------------------------- MODULE SavingsLedger ----------------------------
(***************************************************************************)
(* What the savings database promises to its writers, whatever the number  *)
(* of processes, the lock contention and the crashes: an id is recorded at *)
(* most once, its first value stands, and rows leave only by age.  The     *)
(* module StatsStore is the mechanism; it implements this specification.   *)
(***************************************************************************)
CONSTANTS Id,       \* the primary keys callers choose
          Tokens,   \* the amounts of tokens a row may save
          Absent    \* an id with no row

VARIABLE ledger     \* ledger[i] is what the row of i says, or Absent

LedgerTypeOK == ledger \in [Id -> Tokens \cup {Absent}]

LedgerInit == ledger = [i \in Id |-> Absent]

\* A new saving; an id that is there already is left as it is.
Record(i, t) ==
    /\ ledger[i] = Absent
    /\ ledger' = [ledger EXCEPT ![i] = t]

\* Old rows are discarded, and nothing else changes.
Forget(S) == ledger' = [i \in Id |-> IF i \in S THEN Absent ELSE ledger[i]]

LedgerNext ==
    \/ \E i \in Id, t \in Tokens : Record(i, t)
    \/ \E S \in SUBSET Id : Forget(S)

LedgerSpec == LedgerInit /\ [][LedgerNext]_ledger

=============================================================================
