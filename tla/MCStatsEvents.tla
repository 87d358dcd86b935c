---------------------------- MODULE MCStatsEvents ----------------------------
(***************************************************************************)
(* Small instances of StatsEvents.                                         *)
(***************************************************************************)
EXTENDS StatsEvents, TLC

CONSTANTS s1, s2, m1, m2, m3

\* Two messages in one session, one without a saving in the other.
TwoSessions == {s1, s2}
ThreeMessages == {m1, m2, m3}
HomeOf == m1 :> s1 @@ m2 :> s1 @@ m3 :> s2
SavingOf == m1 :> 1 @@ m2 :> 2 @@ m3 :> 0

Symmetry == Permutations(Handler) \cup Permutations(UserTitle)

=============================================================================
