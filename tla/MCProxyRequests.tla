--------------------------- MODULE MCProxyRequests ---------------------------
(***************************************************************************)
(* Small instances of ProxyRequests.                                       *)
(***************************************************************************)
EXTENDS ProxyRequests, TLC

CONSTANTS old, new, big, none, ask, more

Contents == {old, new, big}
TokensFn == old :> 2 @@ new :> 1 @@ big :> 4

Block(p, c) == [path |-> p, content |-> c]
User(t, bs) == [role |-> "user", text |-> t, blocks |-> bs,
               other |-> FALSE, fields |-> FALSE]
ToolResult(t, bs) == [User(t, bs) EXCEPT !.other = TRUE]
Assistant(t) == [User(t, <<>>) EXCEPT !.role = "assistant", !.fields = TRUE]

\* No files: nothing to trim.
Plain == <<User(ask, <<>>)>>
\* Three files, which do not all fit.
Three == <<User(ask, <<Block(<<"a">>, old), Block(<<"b">>, big), Block(<<>>, new)>>)>>
\* A file of an earlier message in a newer version; the last message is a
\* question alone.
Later == <<User(ask, <<Block(<<"a">>, old)>>), Assistant(ask),
           ToolResult(none, <<Block(<<"a">>, new), Block(<<"b">>, big)>>),
           User(more, <<>>)>>
\* Code without a question.
Mute == <<User(none, <<Block(<<"a">>, old), Block(<<"b">>, big)>>)>>
\* Two messages with a block that has no path: both are snippet 0.
Snippets == <<User(ask, <<Block(<<>>, old)>>),
              User(more, <<Block(<<>>, big), Block(<<"b">>, new)>>)>>

ManyBodies == {Plain, Three, Later, Mute, Snippets}

PathSet == {<<>>, <<"a">>, <<"b">>}
TextSet == {ask, more}

RankSets == {old :> 2 @@ new :> 1 @@ big :> 2, old :> 2 @@ new :> 1 @@ big :> 0}

NoReport == [input |-> 0, output |-> 0]
OutputOnly == [input |-> 0, output |-> 1]
Full == [input |-> 3, output |-> 1]
SomeUsages == {NoReport, OutputOnly, Full}

Symmetry == Permutations(Handler)

=============================================================================
