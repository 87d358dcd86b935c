------------------------------ MODULE ToolOutput ------------------------------
(***************************************************************************)
(* compressToolOutput (packages/core/src/tool-output-compress.ts), which   *)
(* shortens a text to so many characters: the outputs of old messages, the *)
(* outputs that the hooks see and the files that smart_read cannot         *)
(* outline.  What matters of a text are its sizes.                         *)
(***************************************************************************)
EXTENDS Integers, FiniteSets, FiniteSetsExt

\* A text: its lines, all of one width, and the characters that are colour
\* codes or blank lines beyond the second.
AnyText == [lines : Nat \ {0}, width : Nat, noise : Nat]

\* Lengths, in characters, and tokens.
Tokens(length) == (length + 3) \div 4
InLines(lines, width) == lines * (width + 1) - 1
Plain(t) == InLines(t.lines, t.width)
Length(t) == Plain(t) + t.noise
\* Of a number with ten digits at most; a text has fewer characters.
Digits(n) == 1 + Cardinality({d \in 1 .. 9 : 10 ^ d <= n})

\* What no caller changes: the lines kept of a text that has many, and from
\* how many on it is cut by lines.
HeadLines == 80
TailLines == 40
LineLimit == HeadLines + TailLines + 5

\* head, "", marker, "", tail
Shortened(head, marker, tail) == head + marker + tail + 4
ByLines(t) ==
    LET head == InLines(HeadLines, t.width)
        tail == InLines(TailLines, t.width)
    IN  Shortened(head, 44 + Digits(t.lines - HeadLines - TailLines)
                           + Digits(Tokens(Plain(t)) - Tokens(head + tail)), tail)

\* A budget that leaves no room for a tail takes the text from where the tail
\* is counted from instead: slice(0) is all of it, slice(n) all but n characters.
ByChars(t, maxChars) ==
    LET head == (maxChars * 65) \div 100
        tail == maxChars - head - 80
    IN  Shortened(head, 28 + Digits(Plain(t) - head - tail),
                  IF tail > 0 THEN tail ELSE Max({0, Plain(t) + tail}))

\* Lines are cut whatever the number of characters asked for.
Normalized(t, maxChars) ==
    IF Plain(t) <= maxChars THEN Plain(t)
    ELSE IF t.lines > LineLimit THEN ByLines(t) ELSE ByChars(t, maxChars)

\* The length of the output: a short text, and one that would not get shorter
\* in tokens, is left.
CompressToolOutput(t, minTokens, maxChars) ==
    IF \/ Tokens(Length(t)) < minTokens
       \/ Tokens(Normalized(t, maxChars)) >= Tokens(Length(t))
    THEN Length(t) ELSE Normalized(t, maxChars)

=============================================================================
