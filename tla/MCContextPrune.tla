---------------------------- MODULE MCContextPrune ----------------------------
(***************************************************************************)
(* Small instances of ContextPrune.                                        *)
(***************************************************************************)
EXTENDS ContextPrune, TLC

CONSTANTS read, bash

ReadAndBash == {read, bash}
NameLengths == [k \in Key |-> 4]

\* Nothing; an output that is cut by lines; one that is large by its colour
\* codes alone, which the cap takes away.  All but the first are worth pruning.
Text1(lines, width, noise) == [lines |-> lines, width |-> width, noise |-> noise]
Nothing == Text1(1, 0, 0)
Long == Text1(400, 30, 0)
Coloured == Text1(60, 30, 400)
ThreeTexts == {Nothing, Long, Coloured}

=============================================================================
