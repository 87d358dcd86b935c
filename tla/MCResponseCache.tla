--------------------------- MODULE MCResponseCache ---------------------------
(***************************************************************************)
(* Small instances of ResponseCache.                                       *)
(***************************************************************************)
EXTENDS ResponseCache, TLC

CONSTANTS b1, b2, b3

\* Bodies b1 and b2 resemble each other, b3 is about something else.
Likeness == [b \in Body |-> [c \in Body |->
    CASE b = c -> 0
      [] {b, c} = {b1, b2} -> 1
      [] OTHER -> 9]]

\* Handlers are interchangeable.
Symmetry == Permutations(Handler)

=============================================================================
