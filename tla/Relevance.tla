------------------------------ MODULE Relevance ------------------------------
(***************************************************************************)
(* What of the workspace matters for a query: the BM25 scores              *)
(* (packages/core/src/bm25.ts), the import graph (imports.ts), the         *)
(* selection of trim_context (trimmer.ts) and the hits of code_search      *)
(* (code-search.ts).                                                       *)
(*                                                                         *)
(* A query is the set of its terms, Blank one of white space.  A file has  *)
(* a path, the terms of path and text, the strings it imports, its tokens  *)
(* and a language.  A score is a real number; here it is a number of       *)
(* thousandths, which a file brings along: BM25 says that it is positive   *)
(* if the file has a term of the query, and 0 if not.                      *)
(***************************************************************************)
EXTENDS Selections

CONSTANTS Term,        \* what texts and queries are made of
          Blank,       \* a query without any character
          HalfWindow,  \* lines of a snippet before and after its best line
          MaxFiles     \* files that a search reads at most

QueryTerms == {Blank} \cup SUBSET Term
File == [path : STRING, terms : SUBSET Term, weight : Nat \ {0}, imports : Seq(STRING),
         language : STRING, tokens : Nat]

\* An entry of a directory; every file has a line.  In a tree each directory
\* has its entries, and no two entries have one path.
DirectoryEntry ==
    [path : STRING, dir : BOOLEAN, hidden : BOOLEAN, ignored : BOOLEAN, code : BOOLEAN,
     big : BOOLEAN, terms : SUBSET Term, weight : Nat \ {0}, tokens : Nat,
     lines : Seq([found : Nat, tokens : Nat]) \ {<<>>}]
EntriesOf(tree) == UNION {Range(tree[d]) : d \in DOMAIN tree}
IsTree(tree) ==
    /\ "root" \in DOMAIN tree
    /\ \A d \in DOMAIN tree : tree[d] \in Seq(DirectoryEntry)
    /\ \A e \in EntriesOf(tree) : e.dir => e.path \in DOMAIN tree
    /\ \A e, f \in EntriesOf(tree) : e.path = f.path => e = f

MinScore == 100        \* 0.1, the default of trimmer.ts
NaN == -1              \* the score where no document has a term: 0 / 0

-----------------------------------------------------------------------------
(* bm25.ts                                                                 *)

\* The score of every document.  Stop words, numbers and single letters are
\* no terms; a query may have none and still not be blank.
Scores(files, query) ==
    [i \in DOMAIN files |->
        IF query = {} THEN 0
        ELSE IF \A j \in DOMAIN files : files[j].terms = {} THEN NaN
        ELSE IF files[i].terms \cap query = {} THEN 0 ELSE files[i].weight]

\* The places of the documents by falling score; Array.sort is stable.
ByScore(score) ==
    Sorted(DOMAIN score,
           LAMBDA j, i : score[j] > score[i] \/ (score[j] = score[i] /\ j <= i))

-----------------------------------------------------------------------------
(* imports.ts                                                              *)

\* The strings that the files of a path import: of its last file that
\* imports any.  Only "typescript" and its like name a pattern, "ts" does not.
Imports(files, path) ==
    LET of == {i \in DOMAIN files : /\ files[i].path = path
                                    /\ files[i].language = "typescript"
                                    /\ files[i].imports # <<>>}
    IN  IF of = {} THEN <<>> ELSE files[Max(of)].imports

\* A file gets three tenths of the score of each file that imports a string
\* equal to its path, as often as it does.
ImportBoost(files, score, path) ==
    LET times(p) == Cardinality({k \in DOMAIN Imports(files, p) : Imports(files, p)[k] = path})
    IN  SumFunctionOnSet([p \in DOMAIN score |-> times(p) * ((3 * score[p]) \div 10)],
                         {p \in DOMAIN score : score[p] > 0})

-----------------------------------------------------------------------------
(* trimmer.ts                                                              *)

\* The scores by path: of files of one path the lowest one stands.
PathScores(files, score) ==
    [p \in {files[i].path : i \in DOMAIN files} |->
        Min({score[i] : i \in {j \in DOMAIN files : files[j].path = p}})]

FinalScores(files, query) ==
    LET path == PathScores(files, Scores(files, query))
    IN  [i \in DOMAIN files |->
            IF path[files[i].path] = NaN THEN NaN
            ELSE path[files[i].path] + ImportBoost(files, path, files[i].path)]

AllOf(files) == [i \in DOMAIN files |-> i]
TooLow(s) == s # NaN /\ s < MinScore

\* Mutant of Selection: what is already chosen does not count.
SelectionOfEach(files, score, maxTokens) ==
    FoldLeft(LAMBDA chosen, i :
                IF TooLow(score[i]) \/ files[i].tokens > maxTokens
                THEN chosen ELSE Append(chosen, i),
             <<>>, ByScore(score))
\* The best files that fit, in the order of their scores; one that does not
\* fit is passed over.
Selection(files, score, maxTokens) ==
    FoldLeft(LAMBDA chosen, i :
                IF TooLow(score[i]) \/ TokensAt(files, chosen) + files[i].tokens > maxTokens
                THEN chosen ELSE Append(chosen, i),
             <<>>, ByScore(score))

\* trimFiles: the files, the places of those to show, and tokens before and after.
\* Savings below a tenth are given up, and with them the budget.
TrimFiles(files, query, maxTokens) ==
    LET all == [files |-> files, shown |-> AllOf(files), tokensIn |-> TokensAt(files, AllOf(files)),
                tokensOut |-> TokensAt(files, AllOf(files))]
        some == Selection(files, FinalScores(files, query), maxTokens)
        trimmed == [all EXCEPT !.shown = some, !.tokensOut = TokensAt(files, some)]
    IN  IF files = <<>> \/ query = Blank THEN all
        ELSE IF 10 * (trimmed.tokensIn - trimmed.tokensOut) < trimmed.tokensIn \/ all.tokensIn = 0
        THEN all ELSE trimmed

\* The tool of either host: files of .ctxliteignore are left out, and without
\* a saving the answer says that all files are relevant.  MCP takes the
\* ending of the path for a language that is not given.
TrimContext(host, files, ignored, query, maxTokens) ==
    LET candidates == Kept(files, {f \in Range(files) : f.path \notin ignored})
        named == [i \in DOMAIN candidates |->
                    IF host = "opencode" THEN [candidates[i] EXCEPT !.language = "typescript"]
                    ELSE candidates[i]]
    IN  TrimFiles(named, query, maxTokens)

-----------------------------------------------------------------------------
(* code-search.ts                                                          *)

\* What reading one directory adds: its code files to the files, up to their
\* limit, and its directories to the queue.  "gone" are entries that cannot be
\* read any more.
WalkDirectory(files, queue, entries, gone) ==
    LET seen == {e \in Range(entries) : ~ e.hidden /\ ~ e.ignored}
        read == files \o Kept(entries, {e \in seen : ~ e.dir /\ e.code /\ ~ e.big /\ e.path \notin gone})
        dirs == Kept(entries, {e \in seen : e.dir})
    IN  [files |-> SubSeq(read, 1, Min({Len(read), MaxFiles})),
         queue |-> queue \o [k \in DOMAIN dirs |-> dirs[k].path]]

\* extractSnippet: the window around the first line with most terms, cut at
\* its end until it is within the budget.
BestLine(lines) ==
    Min({i \in DOMAIN lines : \A j \in DOMAIN lines : lines[j].found <= lines[i].found})
SnippetEnd(lines, first, last, budget) ==
    Max({e \in first - 1 .. last : e = first - 1 \/ TokensIn(lines, first .. e) <= budget})
Snippet(file, budget) ==
    LET lines == file.lines
        best == BestLine(lines)
        first == Max({1, best - HalfWindow})
        last == SnippetEnd(lines, first, Min({Len(lines), best + HalfWindow}), budget)
    IN  [path |-> file.path, line |-> best, first |-> first, last |-> last,
         tokens |-> TokensIn(lines, first .. last)]

\* searchCodebase, with the files already read: the best hits and what they
\* save against reading these files whole.
SearchHits(files, query, maxResults, budget) ==
    LET score == Scores(files, query)
        found == Kept(ByScore(score), {i \in DOMAIN score : score[i] > 0})
        best == SubSeq(found, 1, Min({Len(found), maxResults}))
        hits == [k \in DOMAIN best |-> Snippet(files[best[k]], budget)]
    IN  [hits |-> hits, tokensSaved |-> Max({0, TokensAt(files, best) - Sum(hits)})]

=============================================================================
