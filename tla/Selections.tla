------------------------------ MODULE Selections ------------------------------
(***************************************************************************)
(* What the models of the core make of lists: Array.sort and Array.filter  *)
(* of JavaScript, and sums of the tokens of items.                         *)
(***************************************************************************)
EXTENDS Integers, Sequences, SequencesExt, FiniteSetsExt

\* The elements of S in an order that is total and reflexive, each at the place
\* that says how many are before it.
Sorted(S, Before(_, _)) ==
    [k \in 1 .. Cardinality(S) |-> CHOOSE x \in S : Cardinality({y \in S : Before(y, x)}) = k]
InOrder(places) == Sorted(places, LAMBDA i, j : i <= j)

\* The items at some places, those that are in S, and all without repetitions,
\* each in its order.
ItemsAt(s, places) == LET at == InOrder(places) IN [k \in DOMAIN at |-> s[at[k]]]
Kept(s, S) == ItemsAt(s, {i \in DOMAIN s : s[i] \in S})
Unique(s) == ItemsAt(s, {i \in DOMAIN s : \A j \in 1 .. i - 1 : s[j] # s[i]})

\* The tokens of the items at a set of places, of all of them, and of those at
\* the places of a list.
TokensIn(items, S) == SumFunctionOnSet([i \in DOMAIN items |-> items[i].tokens], S)
Sum(items) == TokensIn(items, DOMAIN items)
TokensAt(items, places) == SumFunction([k \in DOMAIN places |-> items[places[k]].tokens])

=============================================================================
