---------------------------- MODULE ProxyRequests ----------------------------
(***************************************************************************)
(* The life of a request in the Go proxy, go/internal/proxy: cache lookup, *)
(* trimming, forwarding, the copy of a stream line by line or of an answer *)
(* as a whole, and the row in the request log, which `ctxlite stats` sums  *)
(* up.  Handlers run side by side; a client may go away at any time, which *)
(* cancels the request's context.                                          *)
(*                                                                         *)
(* The cache is external here (ResponseCache has its inside): any stored   *)
(* answer for the body may be found or not.  A hit of the second level may *)
(* be any stored answer.  Statuses and headers are left out.               *)
(***************************************************************************)
EXTENDS ContextTrimmer, FiniteSets, FiniteSetsExt

CONSTANTS Handler,     \* bound: requests at a time
          Bodies,      \* requests of the clients
          Ranks,       \* the ranks a query may give the contents
          Usages,      \* token counts an answer or a line of a stream reports
          MaxRequests, \* bound: requests in all
          MaxLines,    \* bound: lines of a stream
          MaxTime      \* bound: the clock that gives rows their ids

ASSUME ProxyAssumption ==
    /\ MaxRequests \in Nat /\ MaxLines \in Nat /\ MaxTime \in Nat
    /\ Usages \subseteq [input : Nat, output : Nat]
    /\ Bodies \subseteq Seq(Message)
    /\ Ranks \subseteq [Content -> Nat]

VARIABLES
    task,   \* task[h]: where the handler is and what it holds
    cached, \* entries of the cache: the body and the request that was answered
    rows,   \* the table requests
    now,    \* time.Now().UnixNano()
    past    \* past[n]: what became of request n (history)

vars == <<task, cached, rows, now, past>>

Request == 1 .. MaxRequests
Idle == [pc |-> "idle"]
New == [end |-> "none", got |-> "nothing", gone |-> FALSE, locked |-> FALSE,
        stamp |-> 0]
NoUsage == [input |-> 0, output |-> 0]

Init ==
    /\ task = [h \in Handler |-> Idle]
    /\ cached = {}
    /\ rows = {}
    /\ now = 0
    /\ past = <<>>

\* Something was read for the request, now or when it was cached.
Got(request) == request.got # "nothing"

\* The handler returns, and the request has come to this end.
EndAs(h, end) ==
    /\ task' = [task EXCEPT ![h] = Idle]
    /\ past' = [past EXCEPT ![task[h].n].end = end]

-----------------------------------------------------------------------------
(* handle.                                                                 *)

Receive(h, body) ==
    /\ task[h] = Idle
    /\ Len(past) < MaxRequests
    /\ past' = Append(past, New)
    /\ task' = [task EXCEPT ![h] = [pc |-> "lookup", n |-> Len(past) + 1, body |-> body]]
    /\ UNCHANGED <<cached, rows, now>>

\* No content type, an unreadable or too large body, no host: an error goes
\* back before anything else.
Refuse(h) ==
    /\ task[h].pc = "lookup"
    /\ EndAs(h, "refused")
    /\ UNCHANGED <<cached, rows, now>>

\* The stored answer is written; a failed write is only reported.
Hit(h, entry) ==
    /\ task[h].pc = "lookup"
    /\ task' = [task EXCEPT ![h] = [pc |-> "log", n |-> @.n, end |-> "hit",
                    row |-> [hit |-> TRUE, input |-> EstimateTokens(@.body),
                             used |-> 0, output |-> 0, saved |-> 0]]]
    /\ past' = [past EXCEPT ![task[h].n].got = past[entry.by].got]
    /\ UNCHANGED <<cached, rows, now>>

HitL1(h, entry) == Hit(h, entry) /\ entry.body = task[h].body
HitL2(h, entry) == Hit(h, entry) /\ entry.body # task[h].body

\* No answer in the cache: the body is trimmed.
Miss(h, rank) ==
    /\ task[h].pc = "lookup"
    /\ \E trim \in Trim(task[h].body, rank) :
        task' = [task EXCEPT ![h] = [pc |-> "forward", n |-> @.n, body |-> @.body,
                                     trim |-> trim, rank |-> rank]]
    /\ UNCHANGED <<cached, rows, now, past>>

\* Mutant of InputTokens: what the trimmer left is taken off once more.
InputTokensTwice(usage, trim) ==
    IF usage.input > 0 THEN usage.input - trim.used
    ELSE IF trim.used > 0 THEN trim.used ELSE EstimateTokens(trim.body)

\* The tokens a row has as input: what the upstream counted, or what the
\* trimmer left, or the estimate of what was sent.
InputTokens(usage, trim) ==
    IF usage.input > 0 THEN usage.input
    ELSE IF trim.used > 0 THEN trim.used ELSE EstimateTokens(trim.body)

\* The row of an answered request; the cost saved is a price times saved.
RowOf(usage, trim) ==
    [hit |-> FALSE, input |-> InputTokens(usage, trim), used |-> trim.used,
     output |-> usage.output, saved |-> trim.saved]

\* Mutant of ForwardFails: the error of reading an answer is not looked at.
ForwardFailsUnseen(h) ==
    /\ task[h].pc = "forward"
    /\ task' = [task EXCEPT ![h] = [pc |-> "store", n |-> @.n, body |-> @.body,
                                    end |-> "whole", row |-> RowOf(NoUsage, @.trim)]]
    /\ UNCHANGED <<cached, rows, now, past>>

\* The upstream cannot be reached, breaks off inside an answer that is no
\* stream, or the context is cancelled: 502.
ForwardFails(h) ==
    /\ task[h].pc = "forward"
    /\ EndAs(h, "failed")
    /\ UNCHANGED <<cached, rows, now>>

\* An answer that is no stream has been read without an error: whole, or the
\* first 50 MB of a longer one, where io.LimitReader ends it in silence.  What is
\* cut off there is no JSON and reports no tokens.
AnswerArrives(h, usage, got) ==
    /\ task[h].pc = "forward"
    /\ got = "head" => usage = NoUsage
    /\ task' = [task EXCEPT ![h] = [pc |-> "store", n |-> @.n, body |-> @.body,
                                    end |-> "whole", row |-> RowOf(usage, @.trim)]]
    /\ past' = [past EXCEPT ![task[h].n].got = got]
    /\ UNCHANGED <<cached, rows, now>>

\* Cache.Set, under the key of the untrimmed body; it may fail, as with a
\* cancelled context.
StoreAnswer(h) ==
    /\ task[h].pc = "store"
    /\ \/ cached' = {e \in cached : e.body # task[h].body}
                        \cup {[body |-> task[h].body, by |-> task[h].n]}
       \/ UNCHANGED cached
    /\ task' = [task EXCEPT ![h] = [pc |-> "log", n |-> @.n, end |-> @.end, row |-> @.row]]
    /\ UNCHANGED <<rows, now, past>>

Deliver(h) ==
    /\ task[h].pc = "deliver"
    /\ EndAs(h, "whole")
    /\ UNCHANGED <<cached, rows, now>>

-----------------------------------------------------------------------------
(* pipeStream.                                                             *)

\* ParseTokenUsage: counts of zero are no report.
LineUsage(old, usage) == IF usage.input + usage.output > 0 THEN usage ELSE old

StreamStarts(h) ==
    /\ task[h].pc = "forward"
    /\ task' = [task EXCEPT ![h] = [pc |-> "stream", n |-> @.n, trim |-> @.trim,
                                    lines |-> 0, usage |-> NoUsage]]
    /\ UNCHANGED <<cached, rows, now, past>>

\* A line is copied and flushed.  ParseStreamTokenUsage takes the last line
\* that reports tokens.
CopyLine(h, usage) ==
    /\ task[h].pc = "stream"
    /\ task[h].lines < MaxLines
    /\ task' = [task EXCEPT ![h] = [pc |-> "stream", n |-> @.n, trim |-> @.trim,
                                    lines |-> @.lines + 1,
                                    usage |-> LineUsage(@.usage, usage)]]
    /\ UNCHANGED <<cached, rows, now, past>>

\* The write to the client fails, because it went away or the server's write
\* timeout is over: the handler returns and logs nothing.
WriteFails(h) ==
    /\ task[h].pc = "stream"
    /\ EndAs(h, "cut")
    /\ UNCHANGED <<cached, rows, now>>

\* Mutant of StreamEnds: a stream that broke off is not logged.
StreamEndsUnlogged(h, broken) ==
    /\ task[h].pc = "stream"
    /\ IF broken THEN EndAs(h, "stream")
       ELSE /\ task' = [task EXCEPT ![h] = [pc |-> "log", n |-> @.n, end |-> "stream",
                                            row |-> RowOf(@.usage, @.trim)]]
            /\ UNCHANGED past
    /\ UNCHANGED <<cached, rows, now>>

\* The end of the stream, or of the connection to the upstream (broken).
StreamEnds(h, broken) ==
    /\ task[h].pc = "stream"
    /\ task' = [task EXCEPT ![h] = [pc |-> "log", n |-> @.n, end |-> "stream",
                                    row |-> RowOf(@.usage, @.trim)]]
    /\ UNCHANGED <<cached, rows, now, past>>

-----------------------------------------------------------------------------
(* logRequest.                                                             *)

\* A whole answer is written to the client after its row.
AfterLog(h) ==
    IF task[h].end = "whole"
    THEN task' = [task EXCEPT ![h] = [pc |-> "deliver", n |-> @.n]]
    ELSE task' = [task EXCEPT ![h] = Idle]

\* An answer that is still to be written leaves its request open.
EndAfterLog(h) == IF task[h].end = "whole" THEN "none" ELSE task[h].end

Logged(h, isLocked) ==
    past' = [past EXCEPT ![task[h].n] =
                [@ EXCEPT !.stamp = now, !.locked = isLocked, !.end = EndAfterLog(h)]]

\* The id is the clock's, and the primary key: a second row of that
\* nanosecond is refused.
TakeRow(h) ==
    IF \E r \in rows : r.id = now THEN UNCHANGED rows
    ELSE rows' = rows \cup {[id |-> now, of |-> task[h].n, row |-> task[h].row]}

\* Mutant of LogRow: an answer that is no stream is logged after it has been
\* written, too.
LogRowAgain(h) ==
    /\ task[h].pc \in {"log", "deliver"}
    /\ ~ past[task[h].n].gone
    /\ IF \E r \in rows : r.id = now THEN UNCHANGED rows
       ELSE rows' = rows \cup {[id |-> now, of |-> task[h].n,
                                row |-> RowOf(NoUsage, Untouched(<<>>, 0))]}
    /\ IF task[h].pc = "log" THEN AfterLog(h) /\ Logged(h, FALSE)
       ELSE UNCHANGED <<task, past>>
    /\ UNCHANGED <<cached, now>>

LogRow(h) ==
    /\ task[h].pc = "log"
    /\ ~ past[task[h].n].gone
    /\ TakeRow(h)
    /\ AfterLog(h)
    /\ Logged(h, FALSE)
    /\ UNCHANGED <<cached, now>>

\* ExecContext returns an error: the context is cancelled, or the file is
\* locked for too long.
LogFails(h) ==
    /\ task[h].pc = "log"
    /\ AfterLog(h)
    /\ Logged(h, ~ past[task[h].n].gone)
    /\ UNCHANGED <<cached, rows, now>>

-----------------------------------------------------------------------------
(* The surroundings.                                                       *)

ClientGone(h) ==
    /\ task[h] # Idle
    /\ ~ past[task[h].n].gone
    /\ past' = [past EXCEPT ![task[h].n].gone = TRUE]
    /\ UNCHANGED <<task, cached, rows, now>>

\* The entry of a body leaves the cache: age, capacity, `ctxlite cache clear`.
Evict(entry) ==
    /\ cached' = cached \ {entry}
    /\ UNCHANGED <<task, rows, now, past>>

\* The proxy ends; Stop waits five seconds at most.
Restart ==
    /\ task # [h \in Handler |-> Idle]
    /\ task' = [h \in Handler |-> Idle]
    /\ past' = [n \in DOMAIN past |->
                   IF past[n].end = "none" THEN [past[n] EXCEPT !.end = "killed"]
                   ELSE past[n]]
    /\ UNCHANGED <<cached, rows, now>>

Tick ==
    /\ now < MaxTime
    /\ now' = now + 1
    /\ UNCHANGED <<task, cached, rows, past>>

Next ==
    \/ \E h \in Handler :
        \/ \E body \in Bodies : Receive(h, body)
        \/ Refuse(h)
        \/ \E entry \in cached : HitL1(h, entry)
        \/ \E entry \in cached : HitL2(h, entry)
        \/ \E rank \in Ranks : Miss(h, rank)
        \/ ForwardFails(h)
        \/ \E usage \in Usages, got \in {"whole", "head"} : AnswerArrives(h, usage, got)
        \/ StoreAnswer(h)
        \/ Deliver(h)
        \/ StreamStarts(h)
        \/ \E usage \in Usages : CopyLine(h, usage)
        \/ WriteFails(h)
        \/ \E broken \in BOOLEAN : StreamEnds(h, broken)
        \/ LogRow(h)
        \/ LogFails(h)
        \/ ClientGone(h)
    \/ \E entry \in cached : Evict(entry)
    \/ Restart
    \/ Tick

Spec == Init /\ [][Next]_vars

-----------------------------------------------------------------------------
(* Properties.                                                             *)

Row == [hit : BOOLEAN, input : Nat, used : Nat, output : Nat, saved : Nat]
Ends == {"none", "refused", "failed", "hit", "whole", "stream", "cut", "killed"}

\* The type invariant.
TypeOK ==
    /\ \A h \in Handler :
        \/ task[h] = Idle
        \/ /\ task[h].pc \in {"lookup", "forward", "store", "stream", "log", "deliver"}
           /\ task[h].n \in DOMAIN past
           /\ task[h].pc \in {"lookup", "forward", "store"} => task[h].body \in Bodies
           /\ task[h].pc \in {"store", "log"} => task[h].row \in Row
           /\ task[h].pc = "stream" => task[h].lines \in 0 .. MaxLines
    /\ cached \subseteq [body : Bodies, by : DOMAIN past]
    /\ rows \subseteq [id : 0 .. MaxTime, of : DOMAIN past, row : Row]
    /\ now \in 0 .. MaxTime
    /\ past \in Seq([end : Ends, got : {"nothing", "whole", "head"}, gone : BOOLEAN, locked : BOOLEAN,
                     stamp : 0 .. MaxTime])

\* A request that got its answer, from the cache, as a whole or as a stream
\* to the end of the upstream's part, is in the log, unless its client was
\* gone or the file locked; only a row of the same nanosecond takes its place.
AnsweredRequestsAreLogged ==
    \A n \in DOMAIN past :
        /\ past[n].end \in {"hit", "whole", "stream"}
        /\ ~ past[n].gone /\ ~ past[n].locked
        => \E r \in rows : r.id = past[n].stamp

\* No request is in the log twice, and none that was refused, failed at the
\* upstream or was cut off in its stream.
OneRowPerAnswer ==
    /\ \A r, s \in rows : r.of = s.of \/ r.id = s.id => r = s
    /\ \A r \in rows : past[r.of].end \notin {"refused", "failed", "cut"}

\* What the cache holds and serves was read from the upstream without an error,
\* never from a stream or from an answer that broke off.  It is whole unless the
\* answer had more than 50 MB: of that one the head is stored and served, and
\* nothing marks it (upstream.go:92, handler.go:79-86).
CachedAnswersWereRead ==
    /\ \A e \in cached : Got(past[e.by])
    /\ \A n \in DOMAIN past : past[n].end \in {"hit", "whole"} => Got(past[n])

\* The upstream is asked what the client asked: the query read from the
\* trimmed request is that of the original one.
TrimKeepsTheQuery ==
    \A h \in Handler :
        task[h].pc = "forward" => Query(task[h].trim.body) = Query(task[h].body)

\* The files the trimmer chose for the last message with code: they fit into the
\* budget, each is from the request, and of those left out one that ranks high
\* enough no longer fits.  The budget is theirs alone: the messages before keep
\* the blocks they had, chosen, dropped or repeated, and the request may be above
\* the budget by all of these (parser.go:274-302, budget.go:25-63).
ChosenFilesFillTheBudget ==
    \A h \in Handler :
        task[h].pc = "forward" /\ task[h].trim.saved > 0 =>
            LET body == task[h].body
                trimmed == task[h].trim.body
                all == Files(body)
                kept == trimmed[LastCoded(body)].blocks
            IN  /\ TokensOf(kept) <= MaxContextTokens
                /\ TokensOf(kept) = task[h].trim.used
                /\ \A i \in DOMAIN kept : \E j \in DOMAIN all : kept[i] = all[j]
                /\ \A j \in DOMAIN all :
                    \/ \E i \in DOMAIN kept : kept[i] = all[j]
                    \/ task[h].rank[all[j].content] < MinScore
                    \/ TokensOf(kept) + Tokens[all[j].content] > MaxContextTokens
                /\ DOMAIN trimmed = DOMAIN body
                /\ \A i \in DOMAIN body \ {LastCoded(body)} :
                      trimmed[i].blocks = body[i].blocks

\* SummaryFrom, over the rows since a time.
SumOf(S, f(_)) == FoldSet(LAMBDA r, n : n + f(r), 0, S)

\* Mutant of SummaryFrom: requests that hit the cache are not left out of the
\* trimmed ones.
SummaryFromAll(since) ==
    LET all == {r \in rows : r.id >= since}
        hits == {r \in all : r.row.hit}
        trimmed == {r \in all : r.row.input > r.row.used}
    IN  [totalRequests |-> Cardinality(all),
         cacheHits |-> Cardinality(hits),
         trimmedRequests |-> Cardinality(trimmed),
         tokensSavedCache |-> SumOf(hits, LAMBDA r : r.row.input),
         tokensSavedTrim |-> SumOf(trimmed, LAMBDA r : r.row.input - r.row.used),
         costSaved |-> SumOf(all, LAMBDA r : r.row.saved)]

SummaryFrom(since) ==
    LET all == {r \in rows : r.id >= since}
        hits == {r \in all : r.row.hit}
        trimmed == {r \in all \ hits : r.row.input > r.row.used}
    IN  [totalRequests |-> Cardinality(all),
         cacheHits |-> Cardinality(hits),
         trimmedRequests |-> Cardinality(trimmed),
         tokensSavedCache |-> SumOf(hits, LAMBDA r : r.row.input),
         tokensSavedTrim |-> SumOf(trimmed, LAMBDA r : r.row.input - r.row.used),
         costSaved |-> SumOf(all, LAMBDA r : r.row.saved)]

\* Whatever period is asked for, no request counts as answered from the cache
\* and as trimmed, and no more tokens are said to be saved than the requests
\* of the period had (stats.go:117-168).
SummaryAddsUp ==
    \A since \in 0 .. MaxTime :
        LET s == SummaryFrom(since) IN
        /\ s.cacheHits + s.trimmedRequests <= s.totalRequests
        /\ s.tokensSavedCache + s.tokensSavedTrim
             <= SumOf({r \in rows : r.id >= since}, LAMBDA r : r.row.input)

=============================================================================
