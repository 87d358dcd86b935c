--------------------------- MODULE ContextTrimmer ---------------------------
(***************************************************************************)
(* The trimmer of the Go proxy, go/internal/trimmer: it takes the files    *)
(* out of the code blocks of a chat request, keeps those that matter for   *)
(* the query within a budget of tokens, and rewrites the request.          *)
(*                                                                         *)
(* A request is its sequence of messages.  A message has a role, the text  *)
(* around its code blocks, the blocks, a mark for parts that are no text   *)
(* (images, tool results) and one for fields besides role and content (a   *)
(* name, tool calls).  A body that is no JSON, or has no messages, is the  *)
(* empty sequence: the trimmer passes both on.  The two formats differ in  *)
(* syntax only.  BM25 and the import graph give each content a rank; real  *)
(* numbers are replaced by their order.                                    *)
(***************************************************************************)
EXTENDS Integers, Sequences, SequencesExt

CONSTANTS Content,          \* contents of code blocks
          Paths,            \* what a path line may name, <<>> without one
          Texts,            \* texts around the code blocks
          Tokens,           \* Tokens[c]: EstimateTokens of a content
          TextTokens,       \* EstimateTokens of any text of the user
          MaxContextTokens, \* the budget
          MinScore,         \* files of a lower rank are left out
          NoText            \* a message of code blocks only

ASSUME TrimmerAssumption ==
    /\ Tokens \in [Content -> Nat]
    /\ TextTokens \in Nat
    /\ MaxContextTokens \in Nat
    /\ MinScore \in Nat

\* A code block, or a file: a block without a path line gets a snippet's name.
File == [path : Paths \cup ({"snippet"} \X Nat), content : Content]
Message == [role : STRING, text : Texts \cup {NoText}, blocks : Seq(File),
            other : BOOLEAN, fields : BOOLEAN]

\* The sum of the tokens of a sequence of files or blocks.
TokensOf(files) == FoldLeft(LAMBDA n, f : n + Tokens[f.content], 0, files)

\* EstimateTokens of a whole body.
EstimateTokens(body) ==
    FoldLeft(LAMBDA n, m : n + TokensOf(m.blocks)
                             + (IF m.text = NoText THEN 0 ELSE TextTokens),
             0, body)

-----------------------------------------------------------------------------
(* Parse.                                                                  *)

\* The blocks of a message as files.  One without a path line is called
\* after its place in the message.
ExtractCodeBlocks(m) ==
    [i \in DOMAIN m.blocks |->
        IF m.blocks[i].path = <<>>
        THEN [m.blocks[i] EXCEPT !.path = <<"snippet", i - 1>>]
        ELSE m.blocks[i]]

UserMessages(body) == {i \in DOMAIN body : body[i].role = "user"}

\* The query is the text of the last message of the user that has one.
Query(body) ==
    LET asked == {i \in UserMessages(body) : body[i].text # NoText}
    IN  IF asked = {} THEN NoText
        ELSE body[CHOOSE i \in asked : \A j \in asked : j <= i].text

\* Only the first file of a path counts, in the whole conversation.
AddFile(files, f) ==
    IF \E i \in DOMAIN files : files[i].path = f.path THEN files
    ELSE Append(files, f)

Files(body) ==
    FoldLeft(LAMBDA files, m :
                IF m.role = "user" THEN FoldLeft(AddFile, files, ExtractCodeBlocks(m))
                ELSE files,
             <<>>, body)

-----------------------------------------------------------------------------
(* SelectFiles.                                                            *)

\* The files by falling rank.  sort.Slice is not stable: files of one rank
\* may come in any order.
Orders(files, rank) ==
    {s \in SetToSeqs({files[i] : i \in DOMAIN files}) :
        \A i, j \in DOMAIN s : i < j => rank[s[i].content] >= rank[s[j].content]}

\* Mutant of Select: the first file that does not fit ends the selection.
SelectStops(order, rank) ==
    FoldLeft(LAMBDA acc, f :
                IF acc.full \/ rank[f.content] < MinScore THEN acc
                ELSE IF TokensOf(acc.sel) + Tokens[f.content] > MaxContextTokens
                THEN [acc EXCEPT !.full = TRUE]
                ELSE [acc EXCEPT !.sel = Append(@, f)],
             [sel |-> <<>>, full |-> FALSE], order).sel

\* Each file that ranks high enough and still fits is kept; a file that does
\* not fit is passed over for smaller ones.
Select(order, rank) ==
    FoldLeft(LAMBDA sel, f :
                IF \/ rank[f.content] < MinScore
                   \/ TokensOf(sel) + Tokens[f.content] > MaxContextTokens
                THEN sel ELSE Append(sel, f),
             <<>>, order)

-----------------------------------------------------------------------------
(* Trim.                                                                   *)

\* The last message of the user with code blocks.
LastCoded(body) ==
    LET coded == {i \in UserMessages(body) : body[i].blocks # <<>>}
    IN  CHOOSE i \in coded : \A j \in coded : j <= i

\* Mutant of Rebuild: the files are written without the query.
RebuildFilesOnly(body, selected) ==
    [i \in DOMAIN body |->
        IF i = LastCoded(body)
        THEN [body[i] EXCEPT !.text = NoText, !.blocks = selected,
                             !.other = FALSE, !.fields = FALSE]
        ELSE [body[i] EXCEPT !.fields = FALSE]]

\* The last message with code becomes the query and the selected files, and all
\* else its content held goes.  The others keep their content; but the whole list
\* is written anew from role and content, so that no message keeps other fields.
Rebuild(body, selected) ==
    [i \in DOMAIN body |->
        IF i = LastCoded(body)
        THEN [body[i] EXCEPT !.text = Query(body), !.blocks = selected,
                             !.other = FALSE, !.fields = FALSE]
        ELSE [body[i] EXCEPT !.fields = FALSE]]

\* A TrimResult: used and saved are 0 in a result that changes nothing.
Untouched(body, tokensIn) ==
    [body |-> body, tokensIn |-> tokensIn, used |-> 0, saved |-> 0]

TrimTo(body, files, selected) ==
    LET total == TokensOf(files)
        saved == total - TokensOf(selected)
    IN  IF saved * 10 < total \/ total = 0 THEN Untouched(body, total)
        ELSE [body |-> Rebuild(body, selected), tokensIn |-> total,
              used |-> total - saved, saved |-> saved]

\* The results Trim may give: nothing to do without files or query, nor when
\* less than a tenth would be saved.
Trim(body, rank) ==
    LET files == Files(body)
    IN  IF files = <<>> \/ Query(body) = NoText
        THEN {Untouched(body, EstimateTokens(body))}
        ELSE {TrimTo(body, files, Select(order, rank)) : order \in Orders(files, rank)}

=============================================================================
