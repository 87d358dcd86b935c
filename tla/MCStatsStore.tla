----------------------------- MODULE MCStatsStore -----------------------------
(***************************************************************************)
(* Small instances of StatsStore.                                          *)
(***************************************************************************)
EXTENDS StatsStore, TLC

\* A new database, one from before the columns were added, and one written by
\* this version.
Legacy == {Base}
AnySchema == {{}, Legacy, FullSchema}
NewOrLegacy == {{}, Legacy}

=============================================================================
