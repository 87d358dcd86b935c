------------------------- MODULE ProxyRequests_proofs -------------------------
(***************************************************************************)
(* Proofs about ProxyRequests, for any number of handlers, requests,       *)
(* bodies and lines: the request log has one row for each answered         *)
(* request, the cache holds only answers that were read without an error,  *)
(* what is trimmed keeps its query, the files chosen for it fill the       *)
(* budget, and the summary adds up.  The loops of the trimmer are folds;   *)
(* FoldLemmas unrolls them.                                                *)
(***************************************************************************)
EXTENDS ProxyRequests, FoldLemmas, SequenceTheorems

USE DEF Got

Entry == [end : Ends, got : {"nothing", "whole", "head"}, gone : BOOLEAN, locked : BOOLEAN,
          stamp : 0 .. MaxTime]

\* The parts of the type that do not depend on the trimmer.
Shape ==
    /\ past \in Seq(Entry)
    /\ task = [h \in Handler |-> task[h]]
    /\ now \in 0 .. MaxTime

\* A handler at work has an open request of its own; what it is about to log
\* is an answer.
Working ==
    /\ \A h \in Handler : task[h] # Idle =>
        /\ task[h].n \in DOMAIN past
        /\ past[task[h].n].end = "none"
        /\ task[h].pc = "log" => task[h].end \in {"hit", "whole", "stream"}
        /\ task[h].pc = "store" => task[h].end = "whole"
    /\ \A g, h \in Handler :
        task[g] # Idle /\ task[h] # Idle /\ task[g].n = task[h].n => g = h

\* Rows belong to requests that are answered, or whose handler has logged.
RowsBelong ==
    /\ \A r \in rows : r.of \in DOMAIN past
    /\ \A r \in rows : past[r.of].end \notin {"refused", "failed", "cut"}
    /\ \A r \in rows, h \in Handler :
        task[h] # Idle /\ task[h].n = r.of => task[h].pc = "deliver"
    /\ \A r, s \in rows : r.of = s.of \/ r.id = s.id => r = s

\* A request that has been logged, also one that waits for its delivery.
Recorded(entry, table) ==
    ~ entry.gone /\ ~ entry.locked => \E r \in table : r.id = entry.stamp

LoggedSoFar ==
    /\ \A n \in DOMAIN past : past[n].end \in {"hit", "whole", "stream"} => Recorded(past[n], rows)
    /\ \A h \in Handler :
        task[h] # Idle /\ task[h].pc = "deliver" => Recorded(past[task[h].n], rows)

\* Answers read without an error, in the cache and on the way.
ReadSoFar ==
    /\ \A e \in cached : e.by \in DOMAIN past /\ Got(past[e.by])
    /\ \A n \in DOMAIN past : past[n].end \in {"hit", "whole"} => Got(past[n])
    /\ \A h \in Handler : task[h] # Idle =>
        /\ task[h].pc \in {"store", "deliver"} => Got(past[task[h].n])
        /\ task[h].pc = "log" /\ task[h].end \in {"hit", "whole"} => Got(past[task[h].n])

IInv == Shape /\ Working /\ RowsBelong /\ LoggedSoFar /\ ReadSoFar

-----------------------------------------------------------------------------
\* Init establishes the invariant.
LEMMA InitIInv == Init => IInv
<1> SUFFICES ASSUME Init PROVE IInv
    OBVIOUS
<1>1. 0 \in 0 .. MaxTime
    BY ProxyAssumption
<1>2. past = <<>> /\ rows = {} /\ cached = {} /\ now = 0
      /\ task = [h \in Handler |-> Idle]
    BY DEF Init
<1> QED
    BY <1>1, <1>2 DEF IInv, Shape, Working, RowsBelong, LoggedSoFar, ReadSoFar

\* One entry of the history is replaced.
LEMMA Update ==
    ASSUME past \in Seq(Entry), NEW n \in DOMAIN past, NEW e \in Entry,
           past' = [past EXCEPT ![n] = e]
    PROVE  /\ past' \in Seq(Entry)
           /\ DOMAIN past' = DOMAIN past
           /\ past'[n] = e
           /\ \A m \in DOMAIN past : m # n => past'[m] = past[m]
<1>1. n \in 1 .. Len(past)
    OBVIOUS
<1> QED
    BY <1>1, ExceptSeq

\* A step of a handler: it goes on as t, the entry of its request becomes e,
\* and what it adds to the log and the cache is its own.
LEMMA HandlerStep ==
    ASSUME IInv, NEW h \in Handler, NEW t, NEW e \in Entry, NEW n, n = task[h].n,
           task[h] # Idle,
           task' = [task EXCEPT ![h] = t],
           past' = [past EXCEPT ![n] = e],
           now' = now,
           rows \subseteq rows',
           \A r \in rows' \ rows :
               /\ task[h].pc = "log" /\ r.of = n
               /\ \A s \in rows : s.id # r.id
               /\ \A s \in rows' \ rows : s = r,
           \A x \in cached' : x \in cached \/ (x.by = n /\ Got(e)),
           Got(past[n]) => Got(e),
           t # Idle =>
               /\ t.n = n /\ e.end = "none"
               /\ t.pc = "log" => t.end \in {"hit", "whole", "stream"}
               /\ t.pc = "store" => t.end = "whole"
               /\ t.pc \in {"store", "deliver"} => Got(e)
               /\ t.pc = "log" /\ t.end \in {"hit", "whole"} => Got(e)
               /\ t.pc = "deliver" => Recorded(e, rows'),
           task[h].pc = "deliver" \/ rows' # rows =>
               /\ e.end \notin {"refused", "failed", "cut"}
               /\ t # Idle => t.pc = "deliver",
           e.end \in {"hit", "whole", "stream"} => Recorded(e, rows'),
           e.end \in {"hit", "whole"} => Got(e)
    PROVE  IInv'
<1>1. n \in DOMAIN past /\ past \in Seq(Entry)
    BY DEF IInv, Working, Shape
<1>2. /\ past' \in Seq(Entry)
      /\ DOMAIN past' = DOMAIN past
      /\ past'[n] = e
      /\ \A m \in DOMAIN past : m # n => past'[m] = past[m]
    BY <1>1, Update
<1>3. /\ task'[h] = t
      /\ \A g \in Handler : g # h => task'[g] = task[g]
      /\ task' = [g \in Handler |-> task'[g]]
    BY DEF IInv, Shape
<1>4. \A g \in Handler : g # h /\ task[g] # Idle => task[g].n \in DOMAIN past /\ task[g].n # n
    BY DEF IInv, Working
<1>5. \A r \in rows : r.of = n => task[h].pc = "deliver"
    BY DEF IInv, RowsBelong
<1>6. \A x, table : Recorded(x, rows) /\ rows \subseteq table => Recorded(x, table)
    BY DEF Recorded
<1>7. Shape'
    BY <1>2, <1>3 DEF IInv, Shape
<1>8. Working'
    BY <1>1, <1>2, <1>3, <1>4 DEF IInv, Working
<1>9. RowsBelong'
    <2>1. \A r \in rows' : r \in rows \/ (r.of = n /\ task[h].pc = "log")
        OBVIOUS
    <2>2. \A r \in rows' : r.of \in DOMAIN past'
        BY <1>1, <1>2, <2>1 DEF IInv, RowsBelong
    <2>3. \A r \in rows' : past'[r.of].end \notin {"refused", "failed", "cut"}
        BY <1>2, <1>5, <2>1, <2>2 DEF IInv, RowsBelong
    <2>4. \A r \in rows', g \in Handler :
              task'[g] # Idle /\ task'[g].n = r.of => task'[g].pc = "deliver"
        BY <1>3, <1>4, <1>5, <2>1 DEF IInv, RowsBelong
    <2>5. ASSUME NEW r \in rows', NEW s \in rows', r.of = s.of \/ r.id = s.id
          PROVE  r = s
        <3>1. CASE r \in rows /\ s \in rows
            BY <2>5, <3>1 DEF IInv, RowsBelong
        <3>2. CASE r \notin rows \/ s \notin rows
            BY <1>5, <2>5, <3>2
        <3> QED
            BY <3>1, <3>2
    <2> QED
        BY <2>2, <2>3, <2>4, <2>5 DEF RowsBelong
<1>10. LoggedSoFar'
    <2>1. \A m \in DOMAIN past : past'[m].end \in {"hit", "whole", "stream"}
              => Recorded(past'[m], rows')
        BY <1>2, <1>6 DEF IInv, LoggedSoFar
    <2>2. \A g \in Handler : task'[g] # Idle /\ task'[g].pc = "deliver"
              => Recorded(past'[task'[g].n], rows')
        BY <1>2, <1>3, <1>4, <1>6 DEF IInv, LoggedSoFar
    <2> QED
        BY <1>2, <2>1, <2>2 DEF LoggedSoFar
<1>11. ReadSoFar'
    <2>1. \A m \in DOMAIN past : Got(past[m]) => Got(past'[m])
        BY <1>2
    <2>2. \A x \in cached' : x.by \in DOMAIN past' /\ Got(past'[x.by])
        BY <1>1, <1>2, <2>1 DEF IInv, ReadSoFar
    <2>3. \A m \in DOMAIN past' : past'[m].end \in {"hit", "whole"} => Got(past'[m])
        BY <1>2 DEF IInv, ReadSoFar
    <2>4. \A g \in Handler : g # h /\ task'[g] # Idle =>
              /\ task'[g] = task[g] /\ task[g] # Idle
              /\ past'[task[g].n].got = past[task[g].n].got
        BY <1>2, <1>3, <1>4
    <2> QED
        BY <1>2, <1>3, <2>2, <2>3, <2>4 DEF IInv, ReadSoFar
<1> QED
    BY <1>7, <1>8, <1>9, <1>10, <1>11 DEF IInv

\* The facts about a handler at work that its steps start from.
LEMMA AtWork ==
    ASSUME IInv, NEW h \in Handler, task[h] # Idle
    PROVE  /\ task[h].n \in DOMAIN past
           /\ past[task[h].n] \in Entry
           /\ past[task[h].n].end = "none"
           /\ past = [past EXCEPT ![task[h].n] = past[task[h].n]]
BY DEF IInv, Working, Shape

-----------------------------------------------------------------------------
\* A new request.
LEMMA ReceiveIInv ==
    ASSUME IInv, NEW h \in Handler, NEW body \in Bodies, Receive(h, body)
    PROVE  IInv'
<1> DEFINE new == Len(past) + 1
           t == [pc |-> "lookup", n |-> new, body |-> body]
<1>1. past \in Seq(Entry) /\ New \in Entry
    BY ProxyAssumption DEF IInv, Shape, Entry, New, Ends
<1>2. /\ past' \in Seq(Entry)
      /\ Len(past') = new
      /\ past'[new] = New
      /\ \A m \in DOMAIN past : past'[m] = past[m]
    BY <1>1, AppendProperties DEF Receive
<1>3. /\ DOMAIN past = 1 .. Len(past) /\ DOMAIN past' = 1 .. Len(past')
      /\ Len(past) \in Nat
    BY <1>1, <1>2
<1>4. DOMAIN past' = DOMAIN past \cup {new} /\ new \notin DOMAIN past
    BY <1>2, <1>3
<1>5. /\ task'[h] = t /\ t # Idle /\ t.pc = "lookup" /\ t.n = new
      /\ \A g \in Handler : g # h => task'[g] = task[g]
      /\ task' = [g \in Handler |-> task'[g]]
    BY DEF Receive, IInv, Shape, Idle
<1>6. rows' = rows /\ cached' = cached /\ now' = now
    BY DEF Receive
<1>7. past'[new].end = "none"
    BY <1>2 DEF New
<1> HIDE DEF new, t
<1>8. Shape'
    BY <1>2, <1>5, <1>6 DEF IInv, Shape
<1>9. Working'
    BY <1>2, <1>4, <1>5, <1>7 DEF IInv, Working
<1>10. RowsBelong'
    BY <1>2, <1>4, <1>5, <1>6 DEF IInv, RowsBelong
<1>11. LoggedSoFar'
    <2>1. \A m \in DOMAIN past' : past'[m].end \in {"hit", "whole", "stream"}
              => Recorded(past'[m], rows')
        BY <1>2, <1>4, <1>6, <1>7 DEF IInv, LoggedSoFar
    <2>2. \A g \in Handler : task'[g] # Idle /\ task'[g].pc = "deliver"
              => Recorded(past'[task'[g].n], rows')
        BY <1>2, <1>5, <1>6 DEF IInv, LoggedSoFar, Working
    <2> QED
        BY <2>1, <2>2 DEF LoggedSoFar
<1>12. ReadSoFar'
    BY <1>2, <1>4, <1>5, <1>6, <1>7 DEF IInv, ReadSoFar, Working
<1> QED
    BY <1>8, <1>9, <1>10, <1>11, <1>12 DEF IInv

\* Steps that end a request without an answer.
LEMMA EndIInv ==
    ASSUME IInv, NEW h \in Handler, Refuse(h) \/ ForwardFails(h) \/ WriteFails(h)
    PROVE  IInv'
<1> DEFINE n == task[h].n
<1>1. PICK end \in {"refused", "failed", "cut"} : EndAs(h, end)
    BY DEF Refuse, ForwardFails, WriteFails
<1> DEFINE e == [past[n] EXCEPT !.end = end]
<1>2. task[h] # Idle /\ task[h].pc \notin {"log", "deliver"}
    BY DEF Refuse, ForwardFails, WriteFails, Idle
<1>3. past[n] \in Entry
    BY <1>2, AtWork
<1>4. e \in Entry /\ e.end = end /\ e.got = past[n].got
    BY <1>3 DEF Entry, Ends
<1>5. /\ task' = [task EXCEPT ![h] = Idle]
      /\ past' = [past EXCEPT ![n] = e]
      /\ cached' = cached /\ rows' = rows /\ now' = now
    BY <1>1 DEF EndAs, Refuse, ForwardFails, WriteFails
<1> HIDE DEF e
<1> QED
    BY <1>2, <1>4, <1>5, HandlerStep

\* A step that goes on without touching the history, the log and the cache.
LEMMA GoOn ==
    ASSUME IInv, NEW h \in Handler, NEW t,
           task[h] # Idle, task[h].pc \notin {"log", "deliver"},
           task' = [task EXCEPT ![h] = t],
           t.n = task[h].n,
           t.pc \in {"forward", "stream", "log"},
           t.pc = "log" => t.end = "stream",
           UNCHANGED <<cached, rows, now, past>>
    PROVE  IInv'
<1> DEFINE e == past[task[h].n]
<1>1. e \in Entry /\ e.end = "none" /\ past' = [past EXCEPT ![task[h].n] = e]
    BY AtWork
<1>2. Got(past[task[h].n]) => Got(e)
    OBVIOUS
<1>3. t.pc \notin {"store", "deliver"} /\ (t.pc = "log" => t.end \notin {"hit", "whole"})
    OBVIOUS
<1> HIDE DEF e
<1> QED
    BY <1>1, <1>2, <1>3, HandlerStep

LEMMA GoOnIInv ==
    ASSUME IInv, NEW h \in Handler,
           \/ \E rank \in Ranks : Miss(h, rank)
           \/ StreamStarts(h)
           \/ \E usage \in Usages : CopyLine(h, usage)
           \/ \E broken \in BOOLEAN : StreamEnds(h, broken)
    PROVE  IInv'
<1>1. CASE \E rank \in Ranks : Miss(h, rank)
    <2>1. PICK rank \in Ranks : Miss(h, rank)
        BY <1>1
    <2>2. PICK trim \in Trim(task[h].body, rank) :
              task' = [task EXCEPT ![h] =
                  [pc |-> "forward", n |-> task[h].n, body |-> task[h].body,
                   trim |-> trim, rank |-> rank]]
        BY <2>1, Zenon DEF Miss
    <2> DEFINE t == [pc |-> "forward", n |-> task[h].n, body |-> task[h].body,
                     trim |-> trim, rank |-> rank]
    <2>3. task[h] # Idle /\ task[h].pc = "lookup" /\ UNCHANGED <<cached, rows, now, past>>
        BY <2>1 DEF Miss, Idle
    <2>4. t.n = task[h].n /\ t.pc = "forward" /\ task' = [task EXCEPT ![h] = t]
        BY <2>2
    <2> HIDE DEF t
    <2> QED
        BY <2>3, <2>4, GoOn
<1>2. CASE StreamStarts(h)
    <2> DEFINE t == [pc |-> "stream", n |-> task[h].n, trim |-> task[h].trim,
                     lines |-> 0, usage |-> NoUsage]
    <2>1. task[h] # Idle /\ task[h].pc = "forward" /\ UNCHANGED <<cached, rows, now, past>>
        BY <1>2 DEF StreamStarts, Idle
    <2>2. t.n = task[h].n /\ t.pc = "stream" /\ task' = [task EXCEPT ![h] = t]
        BY <1>2 DEF StreamStarts
    <2> HIDE DEF t
    <2> QED
        BY <2>1, <2>2, GoOn
<1>3. CASE \E usage \in Usages : CopyLine(h, usage)
    <2>1. PICK usage \in Usages : CopyLine(h, usage)
        BY <1>3
    <2> DEFINE t == [pc |-> "stream", n |-> task[h].n, trim |-> task[h].trim,
                     lines |-> task[h].lines + 1,
                     usage |-> LineUsage(task[h].usage, usage)]
    <2>2. task[h] # Idle /\ task[h].pc = "stream" /\ UNCHANGED <<cached, rows, now, past>>
        BY <2>1 DEF CopyLine, Idle
    <2>3. t.n = task[h].n /\ t.pc = "stream" /\ task' = [task EXCEPT ![h] = t]
        BY <2>1 DEF CopyLine
    <2> HIDE DEF t
    <2> QED
        BY <2>2, <2>3, GoOn
<1>4. CASE \E broken \in BOOLEAN : StreamEnds(h, broken)
    <2>1. PICK broken \in BOOLEAN : StreamEnds(h, broken)
        BY <1>4
    <2> DEFINE t == [pc |-> "log", n |-> task[h].n, end |-> "stream",
                     row |-> RowOf(task[h].usage, task[h].trim)]
    <2>2. task[h] # Idle /\ task[h].pc = "stream" /\ UNCHANGED <<cached, rows, now, past>>
        BY <2>1 DEF StreamEnds, Idle
    <2>3. /\ t.n = task[h].n /\ t.pc = "log" /\ t.end = "stream"
          /\ task' = [task EXCEPT ![h] = t]
        BY <2>1 DEF StreamEnds
    <2> HIDE DEF t
    <2> QED
        BY <2>2, <2>3, GoOn
<1> QED
    BY <1>1, <1>2, <1>3, <1>4

\* A hit: the answer was whole when it was stored.
LEMMA HitIInv ==
    ASSUME IInv, NEW h \in Handler, NEW entry \in cached, Hit(h, entry)
    PROVE  IInv'
<1> DEFINE n == task[h].n
           e == [past[n] EXCEPT !.got = past[entry.by].got]
           r == [hit |-> TRUE, input |-> EstimateTokens(task[h].body),
                 used |-> 0, output |-> 0, saved |-> 0]
           t == [pc |-> "log", n |-> n, end |-> "hit", row |-> r]
<1>1. task[h] # Idle /\ task[h].pc = "lookup" /\ rows' = rows /\ cached' = cached /\ now' = now
    BY DEF Hit, Idle
<1>2. past[n] \in Entry /\ past[n].end = "none"
    BY <1>1, AtWork
<1>3. past[entry.by] \in Entry /\ Got(past[entry.by])
    BY DEF IInv, ReadSoFar, Shape
<1>4. e \in Entry /\ e.end = "none" /\ Got(e)
    BY <1>2, <1>3 DEF Entry
<1>5. past' = [past EXCEPT ![n] = e]
    BY DEF Hit
<1>6. t.n = n /\ t.pc = "log" /\ t.end = "hit" /\ task' = [task EXCEPT ![h] = t]
    BY DEF Hit
<1> HIDE DEF e, t
<1> QED
    BY <1>1, <1>4, <1>5, <1>6, HandlerStep

\* An answer arrives and is stored.
LEMMA AnswerIInv ==
    ASSUME IInv, NEW h \in Handler,
           (\E usage \in Usages, got \in {"whole", "head"} : AnswerArrives(h, usage, got)) \/ StoreAnswer(h)
    PROVE  IInv'
<1> DEFINE n == task[h].n
<1>1. CASE \E usage \in Usages, got \in {"whole", "head"} : AnswerArrives(h, usage, got)
    <2>1. PICK usage \in Usages, got \in {"whole", "head"} : AnswerArrives(h, usage, got)
        BY <1>1
    <2> DEFINE e == [past[n] EXCEPT !.got = got]
               t == [pc |-> "store", n |-> n, body |-> task[h].body,
                     end |-> "whole", row |-> RowOf(usage, task[h].trim)]
    <2>2. task[h] # Idle /\ task[h].pc = "forward" /\ rows' = rows /\ cached' = cached /\ now' = now
        BY <2>1 DEF AnswerArrives, Idle
    <2>3. past[n] \in Entry /\ past[n].end = "none"
        BY <2>2, AtWork
    <2>4. e \in Entry /\ e.end = "none" /\ Got(e)
        BY <2>3 DEF Entry
    <2>5. past' = [past EXCEPT ![n] = e]
        BY <2>1 DEF AnswerArrives
    <2>6. t.n = n /\ t.pc = "store" /\ t.end = "whole" /\ task' = [task EXCEPT ![h] = t]
        BY <2>1 DEF AnswerArrives
    <2> HIDE DEF e, t
    <2> QED
        BY <2>2, <2>4, <2>5, <2>6, HandlerStep
<1>2. CASE StoreAnswer(h)
    <2> DEFINE e == past[n]
               t == [pc |-> "log", n |-> n, end |-> task[h].end, row |-> task[h].row]
    <2>1. task[h] # Idle /\ task[h].pc = "store" /\ rows' = rows /\ now' = now
        BY <1>2 DEF StoreAnswer, Idle
    <2>2. e \in Entry /\ e.end = "none" /\ past' = [past EXCEPT ![n] = e]
        BY <1>2, <2>1, AtWork DEF StoreAnswer
    <2>3. task[h].end = "whole" /\ Got(e)
        BY <2>1 DEF IInv, Working, ReadSoFar
    <2>4. t.n = n /\ t.pc = "log" /\ t.end = "whole" /\ task' = [task EXCEPT ![h] = t]
        BY <1>2, <2>3 DEF StoreAnswer
    <2>5. \A x \in cached' : x \in cached \/ (x.by = n /\ Got(e))
        BY <1>2, <2>3 DEF StoreAnswer
    <2> HIDE DEF e, t
    <2> QED
        BY <2>1, <2>2, <2>3, <2>4, <2>5, HandlerStep
<1> QED
    BY <1>1, <1>2

\* The row of an answer, or its loss.
LEMMA LogStep ==
    ASSUME IInv, NEW h \in Handler, NEW isLocked \in BOOLEAN,
           task[h].pc = "log", AfterLog(h), Logged(h, isLocked),
           UNCHANGED <<cached, now>>,
           \/ TakeRow(h)
           \/ UNCHANGED rows /\ (isLocked \/ past[task[h].n].gone)
    PROVE  IInv'
<1> DEFINE n == task[h].n
           end == EndAfterLog(h)
           e == [past[n] EXCEPT !.stamp = now, !.locked = isLocked, !.end = end]
           t == IF task[h].end = "whole" THEN [pc |-> "deliver", n |-> n] ELSE Idle
<1>1. task[h] # Idle
    BY DEF Idle
<1>2. /\ past[n] \in Entry /\ past[n].end = "none"
      /\ task[h].end \in {"hit", "whole", "stream"}
      /\ task[h].end \in {"hit", "whole"} => Got(past[n])
      /\ now \in 0 .. MaxTime
    BY <1>1, AtWork DEF IInv, Working, ReadSoFar, Shape
<1>3. end \in Ends
    BY <1>2 DEF Ends, EndAfterLog
<1>4. /\ e \in Entry /\ e.end = end /\ e.got = past[n].got
      /\ e.gone = past[n].gone /\ e.stamp = now /\ e.locked = isLocked
    <2> HIDE DEF end
    <2> QED
        BY <1>2, <1>3 DEF Entry
<1>5. past' = [past EXCEPT ![n] = e]
    BY DEF Logged
<1>6. task' = [task EXCEPT ![h] = t]
    BY DEF AfterLog
<1>7. /\ task[h].end = "whole" => t.n = n /\ t.pc = "deliver" /\ end = "none"
      /\ task[h].end # "whole" => t = Idle /\ end = task[h].end
    BY <1>2 DEF EndAfterLog
<1>8. CASE TakeRow(h) /\ ~ \E r \in rows : r.id = now
    <2> DEFINE new == [id |-> now, of |-> n, row |-> task[h].row]
    <2>1. rows' = rows \cup {new}
        BY <1>8 DEF TakeRow
    <2>2. new.id = now /\ new.of = n
        OBVIOUS
    <2> HIDE DEF new
    <2>3. /\ rows \subseteq rows'
          /\ \A r \in rows' \ rows :
                /\ task[h].pc = "log" /\ r.of = n
                /\ \A s \in rows : s.id # r.id
                /\ \A s \in rows' \ rows : s = r
        BY <1>8, <2>1, <2>2
    <2>4. Recorded(e, rows')
        <3> HIDE DEF e
        <3> QED
            BY <1>4, <2>1, <2>2 DEF Recorded
    <2> HIDE DEF e, t, end
    <2> QED
        BY <1>1, <1>2, <1>4, <1>5, <1>6, <1>7, <2>1, <2>2, <2>3, <2>4, HandlerStep
<1>9. CASE ~ (TakeRow(h) /\ ~ \E r \in rows : r.id = now)
    <2>1. rows' = rows
        BY <1>9 DEF TakeRow
    <2>2. (\E r \in rows : r.id = now) \/ isLocked \/ past[n].gone
        BY <1>9
    <2>3. Recorded(e, rows')
        <3> HIDE DEF e
        <3> QED
            BY <1>4, <2>1, <2>2 DEF Recorded
    <2> HIDE DEF e, t, end
    <2> QED
        BY <1>1, <1>2, <1>4, <1>5, <1>6, <1>7, <2>1, <2>3, HandlerStep
<1> QED
    BY <1>8, <1>9

LEMMA LogIInv ==
    ASSUME IInv, NEW h \in Handler, LogRow(h) \/ LogFails(h)
    PROVE  IInv'
<1>1. CASE LogRow(h)
    BY <1>1, LogStep DEF LogRow
<1>2. CASE LogFails(h)
    <2> DEFINE isLocked == ~ past[task[h].n].gone
    <2>1. isLocked \in BOOLEAN
        OBVIOUS
    <2>2. Logged(h, isLocked) /\ (isLocked \/ past[task[h].n].gone)
        BY <1>2 DEF LogFails
    <2>3. task[h].pc = "log" /\ AfterLog(h) /\ UNCHANGED <<cached, now>> /\ UNCHANGED rows
        BY <1>2 DEF LogFails
    <2> HIDE DEF isLocked
    <2> QED
        BY <2>1, <2>2, <2>3, LogStep
<1> QED
    BY <1>1, <1>2

LEMMA DeliverIInv ==
    ASSUME IInv, NEW h \in Handler, Deliver(h)
    PROVE  IInv'
<1> DEFINE n == task[h].n
           e == [past[n] EXCEPT !.end = "whole"]
<1>1. task[h] # Idle /\ task[h].pc = "deliver" /\ cached' = cached /\ now' = now /\ rows' = rows
    BY DEF Deliver, Idle
<1>2. past[n] \in Entry /\ Got(past[n]) /\ Recorded(past[n], rows)
    BY <1>1, AtWork DEF IInv, ReadSoFar, LoggedSoFar
<1>3. /\ e \in Entry /\ e.end = "whole" /\ e.got = past[n].got
      /\ e.gone = past[n].gone /\ e.locked = past[n].locked /\ e.stamp = past[n].stamp
    BY <1>2 DEF Entry, Ends
<1>4. past' = [past EXCEPT ![n] = e] /\ task' = [task EXCEPT ![h] = Idle]
    BY DEF Deliver, EndAs
<1> HIDE DEF e
<1>5. Recorded(e, rows')
    BY <1>1, <1>2, <1>3 DEF Recorded
<1> QED
    BY <1>1, <1>2, <1>3, <1>4, <1>5, HandlerStep

LEMMA ClientGoneIInv ==
    ASSUME IInv, NEW h \in Handler, ClientGone(h)
    PROVE  IInv'
<1> DEFINE n == task[h].n
           e == [past[n] EXCEPT !.gone = TRUE]
<1>1. task[h] # Idle /\ cached' = cached /\ now' = now /\ rows' = rows /\ task' = task
    BY DEF ClientGone
<1>2. past[n] \in Entry /\ past[n].end = "none"
    BY <1>1, AtWork
<1>3. e \in Entry /\ e.end = "none" /\ e.got = past[n].got /\ e.gone
    BY <1>2 DEF Entry
<1>4. past' = [past EXCEPT ![n] = e]
    BY DEF ClientGone
<1>5. task' = [task EXCEPT ![h] = task[h]]
    BY <1>1 DEF IInv, Shape
<1> DEFINE t == task[h]
<1>6. /\ t.n = n
      /\ t.pc = "log" => t.end \in {"hit", "whole", "stream"}
      /\ t.pc = "store" => t.end = "whole"
      /\ t.pc \in {"store", "deliver"} => Got(e)
      /\ t.pc = "log" /\ t.end \in {"hit", "whole"} => Got(e)
    BY <1>1, <1>3 DEF IInv, Working, ReadSoFar
<1> HIDE DEF e
<1>7. Recorded(e, rows')
    BY <1>3 DEF Recorded
<1> QED
    BY <1>1, <1>2, <1>3, <1>4, <1>5, <1>6, <1>7, HandlerStep

\* What the surroundings do.
LEMMA RestartIInv ==
    ASSUME IInv, Restart
    PROVE  IInv'
<1>1. past \in Seq(Entry)
    BY DEF IInv, Shape
<1>2. /\ past' \in Seq(Entry)
      /\ DOMAIN past' = DOMAIN past
      /\ \A n \in DOMAIN past :
            \/ past[n].end # "none" /\ past'[n] = past[n]
            \/ past'[n].end = "killed" /\ past'[n].got = past[n].got
    <2> DEFINE killed(n) == [past[n] EXCEPT !.end = "killed"]
    <2>1. ASSUME NEW n \in DOMAIN past
          PROVE  /\ past[n] \in Entry
                 /\ killed(n) \in Entry /\ killed(n).end = "killed"
                 /\ killed(n).got = past[n].got
        <3>1. past[n] \in Entry
            BY <1>1
        <3> QED
            BY <3>1 DEF Entry, Ends
    <2>2. past' = [n \in DOMAIN past |->
                      IF past[n].end = "none" THEN killed(n) ELSE past[n]]
        BY DEF Restart
    <2> HIDE DEF killed
    <2>3. past' \in [1 .. Len(past) -> Entry] /\ Len(past) \in Nat
        BY <1>1, <2>1, <2>2
    <2>4. past' \in Seq(Entry)
        BY <2>3, SeqDef
    <2> QED
        BY <2>1, <2>2, <2>4
<1>3. /\ \A h \in Handler : task'[h] = Idle
      /\ task' = [h \in Handler |-> task'[h]]
      /\ cached' = cached /\ rows' = rows /\ now' = now
    BY DEF Restart
<1>4. Shape' /\ Working'
    BY <1>2, <1>3 DEF IInv, Shape, Working
<1>5. RowsBelong'
    BY <1>2, <1>3 DEF IInv, RowsBelong
<1>6. LoggedSoFar'
    BY <1>2, <1>3 DEF IInv, LoggedSoFar
<1>7. ReadSoFar'
    BY <1>2, <1>3 DEF IInv, ReadSoFar
<1> QED
    BY <1>4, <1>5, <1>6, <1>7 DEF IInv

LEMMA SurroundingsIInv ==
    ASSUME IInv, Tick \/ (\E entry \in cached : Evict(entry)) \/ UNCHANGED vars
    PROVE  IInv'
<1>1. /\ task' = task /\ past' = past /\ rows' = rows
      /\ cached' \subseteq cached /\ now' \in 0 .. MaxTime
    BY ProxyAssumption DEF Tick, Evict, vars, IInv, Shape
<1>2. Shape' /\ Working'
    BY <1>1 DEF IInv, Shape, Working
<1>3. RowsBelong' /\ LoggedSoFar'
    BY <1>1 DEF IInv, RowsBelong, LoggedSoFar
<1>4. ReadSoFar'
    BY <1>1 DEF IInv, ReadSoFar
<1> QED
    BY <1>2, <1>3, <1>4 DEF IInv

-----------------------------------------------------------------------------
\* Every step keeps the invariant.
LEMMA NextIInv == IInv /\ [Next]_vars => IInv'
<1> SUFFICES ASSUME IInv, [Next]_vars PROVE IInv'
    OBVIOUS
<1>1. ASSUME NEW h \in Handler,
             \/ \E body \in Bodies : Receive(h, body)
             \/ Refuse(h)
             \/ \E entry \in cached : HitL1(h, entry)
             \/ \E entry \in cached : HitL2(h, entry)
             \/ \E rank \in Ranks : Miss(h, rank)
             \/ ForwardFails(h)
             \/ \E usage \in Usages, got \in {"whole", "head"} : AnswerArrives(h, usage, got)
             \/ StoreAnswer(h)
             \/ Deliver(h)
             \/ StreamStarts(h)
             \/ \E usage \in Usages : CopyLine(h, usage)
             \/ WriteFails(h)
             \/ \E broken \in BOOLEAN : StreamEnds(h, broken)
             \/ LogRow(h)
             \/ LogFails(h)
             \/ ClientGone(h)
      PROVE  IInv'
    <2>1. CASE \E body \in Bodies : Receive(h, body)
        BY <2>1, ReceiveIInv
    <2>2. CASE Refuse(h) \/ ForwardFails(h) \/ WriteFails(h)
        BY <2>2, EndIInv
    <2>3. CASE \E entry \in cached : HitL1(h, entry) \/ HitL2(h, entry)
        BY <2>3, HitIInv DEF HitL1, HitL2
    <2>4. CASE \/ \E rank \in Ranks : Miss(h, rank)
               \/ StreamStarts(h)
               \/ \E usage \in Usages : CopyLine(h, usage)
               \/ \E broken \in BOOLEAN : StreamEnds(h, broken)
        BY <2>4, GoOnIInv
    <2>5. CASE (\E usage \in Usages, got \in {"whole", "head"} : AnswerArrives(h, usage, got)) \/ StoreAnswer(h)
        BY <2>5, AnswerIInv
    <2>6. CASE LogRow(h) \/ LogFails(h)
        BY <2>6, LogIInv
    <2>7. CASE Deliver(h)
        BY <2>7, DeliverIInv
    <2>8. CASE ClientGone(h)
        BY <2>8, ClientGoneIInv
    <2> QED
        BY <1>1, <2>1, <2>2, <2>3, <2>4, <2>5, <2>6, <2>7, <2>8
<1> QED
    BY <1>1, RestartIInv, SurroundingsIInv DEF Next

\* The invariant of the specification.
THEOREM Invariant == Spec => []IInv
<1>1. Init => IInv
    BY InitIInv
<1>2. IInv /\ [Next]_vars => IInv'
    BY NextIInv
<1> QED
    BY <1>1, <1>2, PTL DEF Spec

\* For any number of handlers, requests, bodies and lines: an answered
\* request is in the log, unless client, lock or clock is in the way.
THEOREM LogIsComplete == Spec => []AnsweredRequestsAreLogged
<1>1. IInv => AnsweredRequestsAreLogged
    BY DEF IInv, LoggedSoFar, Recorded, AnsweredRequestsAreLogged
<1> QED
    BY <1>1, Invariant, PTL

\* No request is in the log twice, and none without an answer.
THEOREM LogIsSound == Spec => []OneRowPerAnswer
<1>1. IInv => OneRowPerAnswer
    BY DEF IInv, RowsBelong, OneRowPerAnswer
<1> QED
    BY <1>1, Invariant, PTL

\* Whatever is stored or served again was read from the upstream without an error,
\* whole or as the head of an answer above the limit; nothing that broke off.
THEOREM CachedWasAlwaysRead == Spec => []CachedAnswersWereRead
<1>1. IInv => CachedAnswersWereRead
    BY DEF IInv, ReadSoFar, CachedAnswersWereRead
<1> QED
    BY <1>1, Invariant, PTL

-----------------------------------------------------------------------------
(* What the trimmer computes.                                              *)

\* TokensOf is the end of a run that adds the tokens file by file.
LEMMA TokensRuns ==
    ASSUME NEW files \in Seq(File)
    PROVE  \E h \in [0 .. Len(files) -> Nat] :
              /\ h[0] = 0
              /\ \A k \in 1 .. Len(files) : h[k] = h[k - 1] + Tokens[files[k].content]
              /\ TokensOf(files) = h[Len(files)]
<1> DEFINE n == Len(files)
           tok == [x \in 1 .. n |-> Tokens[files[x].content]]
           step == [x \in 1 .. n |-> [v \in Nat |-> v + tok[x]]]
           Iter(i) == i = [s \in SUBSET (1 .. n) |->
                             IF s = {} THEN 0
                             ELSE i[s \ {Max(s)}] + Tokens[files[Max(s)].content]]
           it == CHOOSE i : Iter(i)
<1>1. n \in Nat /\ DOMAIN files = 1 .. n
    OBVIOUS
<1>2. tok \in [1 .. n -> Nat]
    <2>1. \A x \in 1 .. n : files[x] \in File
        BY <1>1
    <2> QED
        BY <2>1, TrimmerAssumption DEF File
<1>3. TokensOf(files) = it[1 .. n]
    BY <1>1 DEF TokensOf, FoldLeft, MapThenFoldSet
<1> HIDE DEF n, tok
<1>4. \A x \in 1 .. n : \A v \in Nat : step[x][v] \in Nat /\ step[x][v] = v + tok[x]
    BY <1>2
<1> HIDE DEF step
<1>5. Steps(step, 1 .. n, Nat)
    BY <1>4 DEF Steps
<1>6. PICK g \in [SUBSET (1 .. n) -> Nat] : IsFoldLeft(g, n, 0, step)
    BY <1>1, <1>5, FoldLeftExists
<1>7. \A s \in SUBSET (1 .. n) : s # {} => Max(s) \in 1 .. n
    BY <1>1, MaxExists
<1>8. Iter(g)
    <2>1. \A s \in SUBSET (1 .. n) : s # {} => g[s \ {Max(s)}] \in Nat
        BY <1>6
    <2> QED
        BY <1>4, <1>6, <1>7, <2>1 DEF tok, IsFoldLeft
<1>9. Iter(it)
    <2> HIDE DEF Iter
    <2> QED
        BY <1>8
<1> HIDE DEF it
<1>10. Unrolls(it, n, Nat, 0, step)
    BY <1>4, <1>7, <1>9 DEF Unrolls, tok
<1> HIDE DEF Iter
<1>11. PICK h \in [0 .. n -> Nat] : IsRun(h, n, 0, step) /\ h[n] = it[1 .. n]
    <2>1. RunsTo(it[1 .. n], n, Nat, 0, step)
        BY <1>1, <1>5, <1>10, FoldLeftRuns
    <2> QED
        BY <2>1 DEF RunsTo
<1>12. ASSUME NEW k \in 1 .. n PROVE h[k] = h[k - 1] + tok[k]
    <2>1. k - 1 \in 0 .. n /\ h[k - 1] \in Nat
        BY <1>1
    <2>2. h[k] = step[k][h[k - 1]]
        BY <1>11 DEF IsRun
    <2> QED
        BY <1>4, <2>1, <2>2
<1> QED
    BY <1>3, <1>11, <1>12 DEF IsRun, n, tok

\* The tokens of files add up; without files there are none.
LEMMA TokensAdd ==
    ASSUME NEW files \in Seq(File)
    PROVE  /\ TokensOf(files) \in Nat
           /\ files = <<>> => TokensOf(files) = 0
           /\ \A f \in File : /\ Append(files, f) \in Seq(File)
                              /\ Tokens[f.content] \in Nat
                              /\ TokensOf(Append(files, f)) = TokensOf(files) + Tokens[f.content]
<1> DEFINE n == Len(files)
<1>1. PICK h \in [0 .. n -> Nat] :
          /\ h[0] = 0
          /\ \A k \in 1 .. n : h[k] = h[k - 1] + Tokens[files[k].content]
          /\ TokensOf(files) = h[n]
    BY TokensRuns
<1>2. n \in Nat /\ TokensOf(files) \in Nat
    BY <1>1
<1>3. ASSUME NEW f \in File
      PROVE  /\ Append(files, f) \in Seq(File)
             /\ Tokens[f.content] \in Nat
             /\ TokensOf(Append(files, f)) = TokensOf(files) + Tokens[f.content]
    <2> DEFINE more == Append(files, f)
    <2>1. /\ more \in Seq(File) /\ Len(more) = n + 1 /\ more[n + 1] = f
          /\ \A k \in 1 .. n : more[k] = files[k]
        BY AppendProperties
    <2>2. Tokens[f.content] \in Nat
        BY TrimmerAssumption DEF File
    <2> HIDE DEF more
    <2>3. PICK g \in [0 .. n + 1 -> Nat] :
              /\ g[0] = 0
              /\ \A k \in 1 .. n + 1 : g[k] = g[k - 1] + Tokens[more[k].content]
              /\ TokensOf(more) = g[n + 1]
        BY <2>1, TokensRuns
    <2> DEFINE T == {k \in 0 .. n : g[k] = h[k]}
    <2>4. 0 \in T
        BY <1>1, <1>2, <2>3
    <2>5. ASSUME NEW k \in 0 .. n - 1, k \in T PROVE k + 1 \in T
        <3>1. k + 1 \in 1 .. n /\ k + 1 \in 1 .. n + 1 /\ (k + 1) - 1 = k /\ g[k] = h[k]
            BY <1>2, <2>5
        <3>2. g[k + 1] = g[k] + Tokens[more[k + 1].content]
            BY <2>3, <3>1
        <3>3. h[k + 1] = h[k] + Tokens[files[k + 1].content]
            BY <1>1, <3>1
        <3> QED
            BY <1>2, <2>1, <3>1, <3>2, <3>3
    <2> HIDE DEF T
    <2>6. \A k \in 0 .. n : k \in T
        BY <1>2, <2>4, <2>5, InductTo
    <2>7. g[n + 1] = g[n] + Tokens[f.content]
        BY <1>2, <2>1, <2>3
    <2> QED
        BY <1>1, <1>2, <2>1, <2>2, <2>3, <2>6, <2>7 DEF T, more
<1> QED
    BY <1>1, <1>2, <1>3

\* The estimate of a body is a number of tokens.
LEMMA EstimateType ==
    ASSUME NEW body \in Seq(Message)
    PROVE  EstimateTokens(body) \in Nat
<1> DEFINE n == Len(body)
           add(v, m) == v + TokensOf(m.blocks) + (IF m.text = NoText THEN 0 ELSE TextTokens)
           step == [x \in 1 .. n |-> [v \in Nat |-> add(v, body[x])]]
           Iter(i) == i = [s \in SUBSET (1 .. n) |->
                             IF s = {} THEN 0 ELSE add(i[s \ {Max(s)}], body[Max(s)])]
           it == CHOOSE i : Iter(i)
<1>1. n \in Nat /\ DOMAIN body = 1 .. n /\ \A x \in 1 .. n : body[x] \in Message
    OBVIOUS
<1>2. EstimateTokens(body) = it[1 .. n]
    BY <1>1 DEF EstimateTokens, FoldLeft, MapThenFoldSet
<1>3. ASSUME NEW v \in Nat, NEW m \in Message PROVE add(v, m) \in Nat
    <2>1. TokensOf(m.blocks) \in Nat
        BY TokensAdd DEF Message
    <2> QED
        BY <2>1, TrimmerAssumption
<1> HIDE DEF n, add
<1>4. \A x \in 1 .. n : \A v \in Nat : step[x][v] \in Nat /\ step[x][v] = add(v, body[x])
    BY <1>1, <1>3
<1> HIDE DEF step
<1>5. Steps(step, 1 .. n, Nat)
    BY <1>4 DEF Steps
<1>6. PICK g \in [SUBSET (1 .. n) -> Nat] : IsFoldLeft(g, n, 0, step)
    BY <1>1, <1>5, FoldLeftExists
<1>7. \A s \in SUBSET (1 .. n) : s # {} => Max(s) \in 1 .. n
    BY <1>1, MaxExists
<1>8. Iter(g)
    <2>1. \A s \in SUBSET (1 .. n) : s # {} => g[s \ {Max(s)}] \in Nat
        BY <1>6
    <2> QED
        BY <1>4, <1>6, <1>7, <2>1 DEF IsFoldLeft
<1>9. Iter(it)
    <2> HIDE DEF Iter
    <2> QED
        BY <1>8
<1> HIDE DEF it
<1>10. Unrolls(it, n, Nat, 0, step)
    BY <1>4, <1>7, <1>9 DEF Unrolls
<1> HIDE DEF Iter
<1>11. RunsTo(it[1 .. n], n, Nat, 0, step)
    BY <1>1, <1>5, <1>10, FoldLeftRuns
<1> QED
    BY <1>1, <1>2, <1>11 DEF RunsTo

\* Files are added to files; without any, nothing changes.
LEMMA AddFilesType ==
    ASSUME NEW files \in Seq(File), NEW new \in Seq(File)
    PROVE  /\ FoldLeft(AddFile, files, new) \in Seq(File)
           /\ new = <<>> => FoldLeft(AddFile, files, new) = files
<1> DEFINE V == Seq(File)
           n == Len(new)
           step == [x \in 1 .. n |-> [v \in V |-> AddFile(v, new[x])]]
           Iter(i) == i = [s \in SUBSET (1 .. n) |->
                             IF s = {} THEN files
                             ELSE AddFile(i[s \ {Max(s)}], new[Max(s)])]
           it == CHOOSE i : Iter(i)
<1>1. n \in Nat /\ DOMAIN new = 1 .. n /\ \A x \in 1 .. n : new[x] \in File
    OBVIOUS
<1>2. FoldLeft(AddFile, files, new) = it[1 .. n]
    BY <1>1 DEF FoldLeft, MapThenFoldSet
<1>3. \A v \in V : \A f \in File : AddFile(v, f) \in V
    BY DEF AddFile
<1>4. files \in V
    OBVIOUS
<1>5. new = <<>> => n = 0
    OBVIOUS
<1> HIDE DEF n, V
<1>6. \A x \in 1 .. n : \A v \in V : step[x][v] \in V /\ step[x][v] = AddFile(v, new[x])
    BY <1>1, <1>3
<1> HIDE DEF step
<1>7. Steps(step, 1 .. n, V)
    BY <1>6 DEF Steps
<1>8. PICK g \in [SUBSET (1 .. n) -> V] : IsFoldLeft(g, n, files, step)
    BY <1>1, <1>4, <1>7, FoldLeftExists
<1>9. \A s \in SUBSET (1 .. n) : s # {} => Max(s) \in 1 .. n
    BY <1>1, MaxExists
<1>10. Iter(g)
    <2>1. \A s \in SUBSET (1 .. n) : s # {} => g[s \ {Max(s)}] \in V
        BY <1>8
    <2> QED
        BY <1>6, <1>8, <1>9, <2>1 DEF IsFoldLeft
<1>11. Iter(it)
    <2> HIDE DEF Iter
    <2> QED
        BY <1>10
<1> HIDE DEF it
<1>12. Unrolls(it, n, V, files, step)
    BY <1>6, <1>9, <1>11 DEF Unrolls
<1> HIDE DEF Iter
<1>13. RunsTo(it[1 .. n], n, V, files, step)
    BY <1>1, <1>4, <1>7, <1>12, FoldLeftRuns
<1> QED
    BY <1>1, <1>2, <1>5, <1>13 DEF RunsTo, IsRun, V

\* The files of a conversation are files, and there are some only if a message
\* of the user has a block.
LEMMA FilesType ==
    ASSUME NEW body \in Seq(Message)
    PROVE  /\ Files(body) \in Seq(File)
           /\ Files(body) # <<>> => \E i \in UserMessages(body) : body[i].blocks # <<>>
<1> DEFINE V == Seq(File)
           n == Len(body)
           next(v, m) == IF m.role = "user" THEN FoldLeft(AddFile, v, ExtractCodeBlocks(m)) ELSE v
           step == [x \in 1 .. n |-> [v \in V |-> next(v, body[x])]]
           Iter(i) == i = [s \in SUBSET (1 .. n) |->
                             IF s = {} THEN <<>> ELSE next(i[s \ {Max(s)}], body[Max(s)])]
           it == CHOOSE i : Iter(i)
<1>1. n \in Nat /\ DOMAIN body = 1 .. n /\ \A x \in 1 .. n : body[x] \in Message
    OBVIOUS
<1>2. Files(body) = it[1 .. n]
    BY <1>1 DEF Files, FoldLeft, MapThenFoldSet
<1>3. ASSUME NEW m \in Message
      PROVE  /\ ExtractCodeBlocks(m) \in Seq(File)
             /\ m.blocks = <<>> => ExtractCodeBlocks(m) = <<>>
    <2>1. m.blocks \in Seq(File)
        BY DEF Message
    <2>2. \A i \in DOMAIN m.blocks : m.blocks[i] \in File /\ i - 1 \in Nat
        BY <2>1
    <2>3. \A i \in DOMAIN m.blocks : [m.blocks[i] EXCEPT !.path = <<"snippet", i - 1>>] \in File
        BY <2>2 DEF File
    <2>4. DOMAIN m.blocks = 1 .. Len(m.blocks) /\ Len(m.blocks) \in Nat
        BY <2>1
    <2> QED
        BY <2>2, <2>3, <2>4 DEF ExtractCodeBlocks
<1>4. \A v \in V : \A m \in Message : next(v, m) \in V /\ (m.blocks = <<>> => next(v, m) = v)
    BY <1>3, AddFilesType
<1>5. <<>> \in V
    OBVIOUS
<1> HIDE DEF n, V, next
<1>6. \A x \in 1 .. n : \A v \in V : step[x][v] \in V /\ step[x][v] = next(v, body[x])
    BY <1>1, <1>4
<1> HIDE DEF step
<1>7. Steps(step, 1 .. n, V)
    BY <1>6 DEF Steps
<1>8. PICK g \in [SUBSET (1 .. n) -> V] : IsFoldLeft(g, n, <<>>, step)
    BY <1>1, <1>5, <1>7, FoldLeftExists
<1>9. \A s \in SUBSET (1 .. n) : s # {} => Max(s) \in 1 .. n
    BY <1>1, MaxExists
<1>10. Iter(g)
    <2>1. \A s \in SUBSET (1 .. n) : s # {} => g[s \ {Max(s)}] \in V
        BY <1>8
    <2> QED
        BY <1>6, <1>8, <1>9, <2>1 DEF IsFoldLeft
<1>11. Iter(it)
    <2> HIDE DEF Iter
    <2> QED
        BY <1>10
<1> HIDE DEF it
<1>12. Unrolls(it, n, V, <<>>, step)
    BY <1>6, <1>9, <1>11 DEF Unrolls
<1> HIDE DEF Iter
<1>13. RunsTo(it[1 .. n], n, V, <<>>, step)
    BY <1>1, <1>5, <1>7, <1>12, FoldLeftRuns
<1>14. PICK h \in [0 .. n -> V] : IsRun(h, n, <<>>, step) /\ h[n] = it[1 .. n]
    BY <1>13 DEF RunsTo
<1>15. ASSUME \A i \in UserMessages(body) : body[i].blocks = <<>> PROVE h[n] = <<>>
    <2> DEFINE T == {k \in 0 .. n : h[k] = <<>>}
    <2>1. 0 \in T
        BY <1>1, <1>14 DEF IsRun
    <2>2. ASSUME NEW k \in 0 .. n - 1, k \in T PROVE k + 1 \in T
        <3>1. k + 1 \in 1 .. n /\ (k + 1) - 1 = k /\ h[k] = <<>>
            BY <1>1, <2>2
        <3>2. h[k + 1] = step[k + 1][<<>>]
            BY <1>14, <3>1 DEF IsRun
        <3>3. h[k + 1] = next(<<>>, body[k + 1])
            BY <1>5, <1>6, <3>1, <3>2
        <3>4. body[k + 1].role = "user" => body[k + 1].blocks = <<>>
            BY <1>1, <1>15, <3>1 DEF UserMessages
        <3>5. next(<<>>, body[k + 1]) = <<>>
            BY <1>1, <1>4, <1>5, <3>1, <3>4 DEF next
        <3> QED
            BY <3>1, <3>3, <3>5
    <2> HIDE DEF T
    <2>3. \A k \in 0 .. n : k \in T
        BY <1>1, <2>1, <2>2, InductTo
    <2> QED
        BY <1>1, <2>3 DEF T
<1> QED
    BY <1>1, <1>2, <1>14, <1>15 DEF V

\* One step of Select.
Keep(sel, f, rank) ==
    IF \/ rank[f.content] < MinScore
       \/ TokensOf(sel) + Tokens[f.content] > MaxContextTokens
    THEN sel ELSE Append(sel, f)

\* Select is the end of a run that keeps or passes over file by file.
LEMMA SelectRuns ==
    ASSUME NEW order \in Seq(File), NEW rank
    PROVE  \E h \in [0 .. Len(order) -> Seq(File)] :
              /\ h[0] = <<>>
              /\ \A k \in 1 .. Len(order) : h[k] = Keep(h[k - 1], order[k], rank)
              /\ Select(order, rank) = h[Len(order)]
<1> DEFINE V == Seq(File)
           n == Len(order)
           step == [x \in 1 .. n |-> [v \in V |-> Keep(v, order[x], rank)]]
           Iter(i) == i = [s \in SUBSET (1 .. n) |->
                             IF s = {} THEN <<>> ELSE Keep(i[s \ {Max(s)}], order[Max(s)], rank)]
           it == CHOOSE i : Iter(i)
<1>1. n \in Nat /\ DOMAIN order = 1 .. n /\ \A x \in 1 .. n : order[x] \in File
    OBVIOUS
<1>2. Select(order, rank) = it[1 .. n]
    BY <1>1 DEF Select, FoldLeft, MapThenFoldSet, Keep
<1>3. ASSUME NEW v \in V, NEW f \in File PROVE Keep(v, f, rank) \in V
    BY DEF Keep
<1>4. <<>> \in V
    OBVIOUS
<1> HIDE DEF n, V
<1>5. \A x \in 1 .. n : \A v \in V : step[x][v] \in V /\ step[x][v] = Keep(v, order[x], rank)
    BY <1>1, <1>3
<1> HIDE DEF step
<1>6. Steps(step, 1 .. n, V)
    BY <1>5 DEF Steps
<1>7. PICK g \in [SUBSET (1 .. n) -> V] : IsFoldLeft(g, n, <<>>, step)
    BY <1>1, <1>4, <1>6, FoldLeftExists
<1>8. \A s \in SUBSET (1 .. n) : s # {} => Max(s) \in 1 .. n
    BY <1>1, MaxExists
<1>9. Iter(g)
    <2>1. \A s \in SUBSET (1 .. n) : s # {} => g[s \ {Max(s)}] \in V
        BY <1>7
    <2> QED
        BY <1>5, <1>7, <1>8, <2>1 DEF IsFoldLeft
<1>10. Iter(it)
    <2> HIDE DEF Iter
    <2> QED
        BY <1>9
<1> HIDE DEF it
<1>11. Unrolls(it, n, V, <<>>, step)
    BY <1>5, <1>8, <1>10 DEF Unrolls
<1> HIDE DEF Iter
<1>12. RunsTo(it[1 .. n], n, V, <<>>, step)
    BY <1>1, <1>4, <1>6, <1>11, FoldLeftRuns
<1>13. PICK h \in [0 .. n -> V] : IsRun(h, n, <<>>, step) /\ h[n] = it[1 .. n]
    BY <1>12 DEF RunsTo
<1>14. ASSUME NEW k \in 1 .. n PROVE h[k] = Keep(h[k - 1], order[k], rank)
    <2>1. k - 1 \in 0 .. n /\ h[k - 1] \in V
        BY <1>1
    <2> QED
        BY <1>5, <1>13, <2>1 DEF IsRun
<1> QED
    BY <1>2, <1>13, <1>14 DEF IsRun, n, V

\* What is selected of some files fits the budget, and is all that matters and
\* fits.
Fills(sel, some, rank) ==
    /\ TokensOf(sel) <= MaxContextTokens
    /\ \A i \in DOMAIN sel : sel[i] \in some
    /\ \A f \in some :
        \/ \E i \in DOMAIN sel : sel[i] = f
        \/ rank[f.content] < MinScore
        \/ TokensOf(sel) + Tokens[f.content] > MaxContextTokens

LEMMA SelectFills ==
    ASSUME NEW order \in Seq(File), NEW rank \in [Content -> Nat]
    PROVE  /\ Select(order, rank) \in Seq(File)
           /\ Fills(Select(order, rank), {order[i] : i \in DOMAIN order}, rank)
<1> DEFINE n == Len(order)
           Seen(k) == {order[i] : i \in 1 .. k}
<1>1. PICK h \in [0 .. n -> Seq(File)] :
          /\ h[0] = <<>>
          /\ \A k \in 1 .. n : h[k] = Keep(h[k - 1], order[k], rank)
          /\ Select(order, rank) = h[n]
    BY SelectRuns
<1>2. n \in Nat /\ DOMAIN order = 1 .. n /\ \A x \in 1 .. n : order[x] \in File
    OBVIOUS
<1> HIDE DEF n
<1> DEFINE T == {k \in 0 .. n : Fills(h[k], Seen(k), rank)}
<1>3. 0 \in T
    <2>1. Seen(0) = {} /\ <<>> \in Seq(File) /\ DOMAIN <<>> = {}
        OBVIOUS
    <2>2. TokensOf(<<>>) = 0
        BY <2>1, TokensAdd
    <2>3. Fills(<<>>, {}, rank)
        BY <2>1, <2>2, TrimmerAssumption DEF Fills
    <2>4. 0 \in 0 .. n
        BY <1>2
    <2> HIDE DEF Seen
    <2> QED
        BY <1>1, <2>1, <2>3, <2>4
<1>4. ASSUME NEW k \in 0 .. n - 1, k \in T PROVE k + 1 \in T
    <2> DEFINE f == order[k + 1]
               sel == h[k]
               new == h[k + 1]
    <2>1. k + 1 \in 1 .. n /\ k + 1 \in 0 .. n /\ (k + 1) - 1 = k /\ k \in 0 .. n
        BY <1>2
    <2>2. f \in File /\ sel \in Seq(File) /\ new = Keep(sel, f, rank)
        BY <1>1, <1>2, <2>1
    <2>3. Seen(k + 1) = Seen(k) \cup {f} /\ \A x \in Seen(k) : x \in File
        BY <1>2, <2>1
    <2>4. Fills(sel, Seen(k), rank)
        BY <1>4
    <2>5. /\ TokensOf(sel) \in Nat /\ Tokens[f.content] \in Nat
          /\ TokensOf(Append(sel, f)) = TokensOf(sel) + Tokens[f.content]
        BY <2>2, TokensAdd
    <2>6. \A x \in File : Tokens[x.content] \in Nat
        BY TrimmerAssumption DEF File
    <2> HIDE DEF f, sel, new, Seen
    <2>7. Fills(new, Seen(k) \cup {f}, rank)
        <3>1. CASE rank[f.content] < MinScore \/ TokensOf(sel) + Tokens[f.content] > MaxContextTokens
            <4>1. new = sel
                BY <2>2, <3>1 DEF Keep
            <4> QED
                BY <2>4, <3>1, <4>1 DEF Fills
        <3>2. CASE ~ (rank[f.content] < MinScore \/ TokensOf(sel) + Tokens[f.content] > MaxContextTokens)
            <4>1. new = Append(sel, f)
                BY <2>2, <3>2 DEF Keep
            <4>2. /\ DOMAIN sel = 1 .. Len(sel) /\ Len(sel) \in Nat
                  /\ DOMAIN new = 1 .. Len(sel) + 1
                  /\ new[Len(sel) + 1] = f /\ \A i \in 1 .. Len(sel) : new[i] = sel[i]
                BY <2>2, <4>1
            <4>3. TokensOf(new) = TokensOf(sel) + Tokens[f.content]
                BY <2>5, <4>1
            <4>4. TokensOf(new) <= MaxContextTokens
                BY <2>5, <3>2, <4>3, TrimmerAssumption
            <4>5. \A i \in DOMAIN new : new[i] \in Seen(k) \cup {f}
                BY <2>4, <4>2 DEF Fills
            <4>6. ASSUME NEW x \in Seen(k) \cup {f}
                  PROVE  \/ \E i \in DOMAIN new : new[i] = x
                         \/ rank[x.content] < MinScore
                         \/ TokensOf(new) + Tokens[x.content] > MaxContextTokens
                <5>1. CASE x = f
                    BY <4>2, <5>1
                <5>2. CASE x \in Seen(k) /\ \E i \in DOMAIN sel : sel[i] = x
                    BY <4>2, <5>2
                <5>3. CASE x \in Seen(k) /\ rank[x.content] < MinScore
                    BY <5>3
                <5>4. CASE x \in Seen(k) /\ TokensOf(sel) + Tokens[x.content] > MaxContextTokens
                    BY <2>3, <2>5, <2>6, <4>3, <5>4, TrimmerAssumption
                <5> QED
                    BY <2>4, <5>1, <5>2, <5>3, <5>4 DEF Fills
            <4> QED
                BY <4>4, <4>5, <4>6 DEF Fills
        <3> QED
            BY <3>1, <3>2
    <2> QED
        BY <2>1, <2>3, <2>7 DEF new
<1>5. Seen(n) = {order[i] : i \in DOMAIN order}
    BY <1>2
<1> HIDE DEF T
<1>6. \A k \in 0 .. n : k \in T
    BY <1>2, <1>3, <1>4, InductTo
<1>7. n \in T
    BY <1>2, <1>6
<1> QED
    BY <1>1, <1>2, <1>5, <1>7 DEF T

\* An order of files has them all, and no others.
LEMMA OrdersType ==
    ASSUME NEW files \in Seq(File), NEW rank, NEW order \in Orders(files, rank)
    PROVE  /\ order \in Seq(File)
           /\ {order[i] : i \in DOMAIN order} = {files[i] : i \in DOMAIN files}
<1> DEFINE F == {files[i] : i \in DOMAIN files}
           c == Cardinality(F)
<1>1. IsFiniteSet(F) /\ c \in Nat
    <2>1. files \in Surjection(1 .. Len(files), F)
        BY DEF Surjection
    <2>2. IsFiniteSet(1 .. Len(files))
        BY FS_Interval
    <2> HIDE DEF F
    <2>3. IsFiniteSet(F)
        BY <2>1, <2>2, FS_Surjection
    <2> QED
        BY <2>3, FS_CardinalityType
<1>2. F \subseteq File
    OBVIOUS
<1>3. order \in [1 .. c -> F] /\ \A i, j \in 1 .. c : i # j => order[i] # order[j]
    BY DEF Orders, SetToSeqs
<1> HIDE DEF F, c
<1>4. order \in Injection(1 .. c, F)
    BY <1>3 DEF Injection, IsInjective
<1>5. Cardinality(1 .. c) = c
    BY <1>1, FS_Interval
<1>6. order \in Surjection(1 .. c, F)
    BY <1>1, <1>4, <1>5, FS_Injection DEF c
<1>7. {order[i] : i \in DOMAIN order} = F
    BY <1>3, <1>6 DEF Surjection
<1>8. order \in Seq(File)
    BY <1>1, <1>2, <1>3
<1> QED
    BY <1>7, <1>8 DEF F

\* The last of some places.
LEMMA LastExists ==
    ASSUME NEW n \in Nat, NEW S \in SUBSET (1 .. n), S # {}
    PROVE  /\ (CHOOSE i \in S : \A j \in S : j <= i) \in S
           /\ \A j \in S : j <= (CHOOSE i \in S : \A k \in S : k <= i)
<1>1. Max(S) \in S /\ \A c \in S : Max(S) >= c
    BY MaxExists
<1>2. \A j \in S : j <= Max(S)
    BY <1>1
<1> QED
    BY <1>1, <1>2, Zenon

\* A query is one of the texts.
LEMMA QueryType ==
    ASSUME NEW body \in Seq(Message)
    PROVE  Query(body) \in Texts \cup {NoText}
<1> DEFINE asked == {i \in UserMessages(body) : body[i].text # NoText}
           last == CHOOSE i \in asked : \A j \in asked : j <= i
<1>1. CASE asked = {}
    BY <1>1 DEF Query
<1>2. CASE asked # {}
    <2>1. Query(body) = body[last].text
        BY <1>2 DEF Query
    <2>2. asked \in SUBSET (1 .. Len(body)) /\ Len(body) \in Nat
        BY DEF UserMessages
    <2> HIDE DEF asked
    <2>3. last \in asked
        BY <1>2, <2>2, LastExists
    <2> HIDE DEF last
    <2>4. last \in 1 .. Len(body)
        BY <2>2, <2>3
    <2>5. body[last] \in Message
        BY <2>4
    <2>6. body[last].text \in Texts \cup {NoText}
        BY <2>5 DEF Message
    <2> QED
        BY <2>1, <2>6
<1> QED
    BY <1>1, <1>2

\* The messages that Rebuild writes, whichever of them is the last with code.
Rewritten(body, last, selected) ==
    [i \in DOMAIN body |->
        IF i = last
        THEN [body[i] EXCEPT !.text = Query(body), !.blocks = selected,
                             !.other = FALSE, !.fields = FALSE]
        ELSE [body[i] EXCEPT !.fields = FALSE]]

LEMMA RewrittenMessages ==
    ASSUME NEW body \in Seq(Message), NEW last, NEW selected \in Seq(File)
    PROVE  LET new == Rewritten(body, last, selected) IN
           /\ new \in Seq(Message) /\ DOMAIN new = DOMAIN body
           /\ \A i \in DOMAIN body : new[i].role = body[i].role
           /\ \A i \in DOMAIN body : i # last =>
                 new[i].text = body[i].text /\ new[i].blocks = body[i].blocks
           /\ last \in DOMAIN body =>
                 new[last].text = Query(body) /\ new[last].blocks = selected
<1> DEFINE new == Rewritten(body, last, selected)
           m(i) == IF i = last
                   THEN [body[i] EXCEPT !.text = Query(body), !.blocks = selected,
                                        !.other = FALSE, !.fields = FALSE]
                   ELSE [body[i] EXCEPT !.fields = FALSE]
<1>1. new = [i \in DOMAIN body |-> m(i)]
    BY DEF Rewritten
<1>2. ASSUME NEW i \in DOMAIN body
      PROVE  /\ m(i) \in Message /\ m(i).role = body[i].role
             /\ i # last => m(i).text = body[i].text /\ m(i).blocks = body[i].blocks
             /\ i = last => m(i).text = Query(body) /\ m(i).blocks = selected
    <2>1. body[i] \in Message /\ Query(body) \in Texts \cup {NoText}
        BY QueryType
    <2> QED
        BY <2>1 DEF Message
<1> HIDE DEF m, new
<1>3. DOMAIN new = DOMAIN body /\ \A i \in DOMAIN body : new[i] = m(i)
    BY <1>1
<1>4. new \in Seq(Message)
    <2>1. DOMAIN body = 1 .. Len(body) /\ Len(body) \in Nat
        OBVIOUS
    <2>2. new = [i \in 1 .. Len(body) |-> m(i)]
        BY <1>1, <2>1
    <2> QED
        BY <1>2, <2>1, <2>2
<1> QED
    BY <1>2, <1>3, <1>4 DEF new

\* Whichever message is rewritten to hold the query: the query stays.
LEMMA RewrittenKeepsQuery ==
    ASSUME NEW body \in Seq(Message), NEW last, NEW selected \in Seq(File),
           Query(body) # NoText
    PROVE  Query(Rewritten(body, last, selected)) = Query(body)
<1> DEFINE new == Rewritten(body, last, selected)
           asked == {i \in UserMessages(body) : body[i].text # NoText}
           asks == {i \in UserMessages(new) : new[i].text # NoText}
           a == CHOOSE i \in asked : \A j \in asked : j <= i
           b == CHOOSE i \in asks : \A j \in asks : j <= i
           q == Query(body)
<1>1. /\ new \in Seq(Message) /\ DOMAIN new = DOMAIN body
      /\ \A i \in DOMAIN body : new[i].role = body[i].role
      /\ \A i \in DOMAIN body : i # last => new[i].text = body[i].text
      /\ last \in DOMAIN body => new[last].text = q
    BY RewrittenMessages
<1>2. asked # {} /\ q = body[a].text
    BY DEF Query
<1>3. DOMAIN body = 1 .. Len(body) /\ Len(body) \in Nat
    OBVIOUS
<1>4. UserMessages(new) = UserMessages(body) /\ UserMessages(body) \subseteq 1 .. Len(body)
    <2> HIDE DEF new
    <2> QED
        BY <1>1, <1>3 DEF UserMessages
<1> HIDE DEF new, q
<1>5. asked \in SUBSET (1 .. Len(body)) /\ asks \in SUBSET (1 .. Len(body))
    BY <1>4
<1>6. asked \subseteq asks
    <2> SUFFICES ASSUME NEW i \in asked PROVE new[i].text # NoText
        BY <1>4
    <2>1. i \in DOMAIN body /\ body[i].text # NoText
        BY <1>3, <1>5
    <2>2. CASE i = last
        BY <1>1, <2>1, <2>2 DEF q
    <2>3. CASE i # last
        BY <1>1, <2>1, <2>3
    <2> QED
        BY <2>2, <2>3
<1>7. \A i \in asks : i \in asked \/ i = last
    BY <1>1, <1>3, <1>4, <1>5
<1>8. new # <<>> => asks # {}
    BY <1>2, <1>6
<1>9. Query(new) = new[b].text
    BY <1>2, <1>6 DEF Query
<1> HIDE DEF asked, asks
<1>10. a \in asked /\ \A j \in asked : j <= a
    BY <1>2, <1>3, <1>5, LastExists
<1>11. b \in asks /\ \A j \in asks : j <= b
    BY <1>2, <1>3, <1>5, <1>6, LastExists
<1> HIDE DEF a, b
<1>12. CASE b = last
    BY <1>1, <1>3, <1>5, <1>9, <1>11, <1>12 DEF q, new
<1>13. CASE b # last
    <2>1. b \in asked
        BY <1>7, <1>11, <1>13
    <2>2. a = b
        BY <1>3, <1>5, <1>6, <1>10, <1>11, <2>1
    <2>3. new[b].text = body[b].text
        BY <1>1, <1>3, <1>5, <1>11, <1>13
    <2> QED
        BY <1>2, <1>9, <2>2, <2>3 DEF q, new
<1> QED
    BY <1>12, <1>13

\* The result is the body with the files selected from an order.
TrimmedBy(trim, body, selected) ==
    /\ selected \in Seq(File)
    /\ Query(body) # NoText /\ Files(body) # <<>>
    /\ TokensOf(Files(body)) \in Nat /\ TokensOf(selected) \in Nat
    /\ TokensOf(Files(body)) >= TokensOf(selected)
    /\ trim = [body |-> Rewritten(body, LastCoded(body), selected),
               tokensIn |-> TokensOf(Files(body)),
               used |-> TokensOf(selected),
               saved |-> TokensOf(Files(body)) - TokensOf(selected)]

\* What Trim gives: the body as it was, or one with the files of an order.
LEMMA TrimIs ==
    ASSUME NEW body \in Seq(Message), NEW rank \in [Content -> Nat],
           NEW trim \in Trim(body, rank)
    PROVE  \/ \E tokens \in Nat : trim = Untouched(body, tokens)
           \/ \E order \in Orders(Files(body), rank) :
                 TrimmedBy(trim, body, Select(order, rank))
<1>1. Files(body) \in Seq(File) /\ EstimateTokens(body) \in Nat
    BY FilesType, EstimateType
<1>2. CASE Files(body) = <<>> \/ Query(body) = NoText
    <2>1. trim = Untouched(body, EstimateTokens(body))
        BY <1>2 DEF Trim
    <2> QED
        BY <1>1, <2>1
<1>3. CASE ~ (Files(body) = <<>> \/ Query(body) = NoText)
    <2>1. PICK order \in Orders(Files(body), rank) :
              trim = TrimTo(body, Files(body), Select(order, rank))
        BY <1>3 DEF Trim
    <2> DEFINE selected == Select(order, rank)
               total == TokensOf(Files(body))
               kept == TokensOf(selected)
    <2>2. order \in Seq(File)
        BY <1>1, OrdersType
    <2>3. selected \in Seq(File)
        BY <2>2, SelectFills
    <2>4. total \in Nat /\ kept \in Nat
        BY <1>1, <2>3, TokensAdd
    <2>5. CASE (total - kept) * 10 < total \/ total = 0
        <3>1. trim = Untouched(body, total)
            BY <2>1, <2>5 DEF TrimTo
        <3> QED
            BY <2>4, <3>1
    <2>6. CASE ~ ((total - kept) * 10 < total \/ total = 0)
        <3>1. trim = [body |-> Rebuild(body, selected), tokensIn |-> total,
                      used |-> total - (total - kept), saved |-> total - kept]
            BY <2>1, <2>6 DEF TrimTo
        <3>2. total - (total - kept) = kept /\ total >= kept
            BY <2>4, <2>6
        <3> QED
            BY <1>3, <2>3, <2>4, <3>1, <3>2 DEF Rebuild, Rewritten, TrimmedBy
    <2> QED
        BY <2>5, <2>6
<1> QED
    BY <1>2, <1>3

\* A TrimResult.
Result == [body : Seq(Message), tokensIn : Nat, used : Nat, saved : Nat]

LEMMA TrimType ==
    ASSUME NEW body \in Seq(Message), NEW rank \in [Content -> Nat],
           NEW trim \in Trim(body, rank)
    PROVE  trim \in Result
<1>1. ASSUME NEW tokens \in Nat, trim = Untouched(body, tokens) PROVE trim \in Result
    BY <1>1 DEF Untouched, Result
<1>2. ASSUME NEW selected, TrimmedBy(trim, body, selected) PROVE trim \in Result
    <2>1. Rewritten(body, LastCoded(body), selected) \in Seq(Message)
        BY <1>2, RewrittenMessages DEF TrimmedBy
    <2> QED
        BY <1>2, <2>1 DEF TrimmedBy, Result
<1> QED
    BY <1>1, <1>2, TrimIs

LEMMA TrimQuery ==
    ASSUME NEW body \in Seq(Message), NEW rank \in [Content -> Nat],
           NEW trim \in Trim(body, rank)
    PROVE  Query(trim.body) = Query(body)
<1>1. ASSUME NEW tokens \in Nat, trim = Untouched(body, tokens)
      PROVE  Query(trim.body) = Query(body)
    BY <1>1 DEF Untouched
<1>2. ASSUME NEW selected, TrimmedBy(trim, body, selected)
      PROVE  Query(trim.body) = Query(body)
    <2>1. trim.body = Rewritten(body, LastCoded(body), selected)
        BY <1>2 DEF TrimmedBy
    <2> QED
        BY <1>2, <2>1, RewrittenKeepsQuery DEF TrimmedBy
<1> QED
    BY <1>1, <1>2, TrimIs

\* A trimmed body has its files in the last message with code, and they fill the
\* budget; the other messages have the blocks they had.
LEMMA TrimFills ==
    ASSUME NEW body \in Seq(Message), NEW rank \in [Content -> Nat],
           NEW trim \in Trim(body, rank), trim.saved > 0
    PROVE  LET all == Files(body)
               kept == trim.body[LastCoded(body)].blocks
           IN  /\ TokensOf(kept) = trim.used
               /\ Fills(kept, {all[j] : j \in DOMAIN all}, rank)
               /\ DOMAIN trim.body = DOMAIN body
               /\ \A i \in DOMAIN body \ {LastCoded(body)} :
                     trim.body[i].blocks = body[i].blocks
<1>1. PICK order \in Orders(Files(body), rank) : TrimmedBy(trim, body, Select(order, rank))
    <2>1. ASSUME NEW tokens \in Nat, trim = Untouched(body, tokens) PROVE FALSE
        BY <2>1 DEF Untouched
    <2> QED
        BY <2>1, TrimIs
<1> DEFINE files == Files(body)
           selected == Select(order, rank)
           last == LastCoded(body)
           coded == {i \in UserMessages(body) : body[i].blocks # <<>>}
<1>2. /\ selected \in Seq(File) /\ files # <<>>
      /\ trim.body = Rewritten(body, last, selected) /\ trim.used = TokensOf(selected)
    BY <1>1 DEF TrimmedBy
<1>3. coded # {} /\ files \in Seq(File)
    BY <1>2, FilesType
<1>4. coded \in SUBSET (1 .. Len(body)) /\ Len(body) \in Nat /\ DOMAIN body = 1 .. Len(body)
    BY DEF UserMessages
<1>5. last = CHOOSE i \in coded : \A j \in coded : j <= i
    BY DEF LastCoded
<1> HIDE DEF coded, last, files
<1>6. last \in coded
    BY <1>3, <1>4, <1>5, LastExists
<1>7. /\ trim.body[last].blocks = selected
      /\ DOMAIN trim.body = DOMAIN body
      /\ \A i \in DOMAIN body \ {last} : trim.body[i].blocks = body[i].blocks
    <2>1. last \in DOMAIN body
        BY <1>4, <1>6
    <2> QED
        BY <1>2, <2>1, RewrittenMessages
<1>8. order \in Orders(files, rank)
    BY DEF files
<1>9. order \in Seq(File) /\ {order[i] : i \in DOMAIN order} = {files[i] : i \in DOMAIN files}
    BY <1>3, <1>8, OrdersType
<1>10. Fills(selected, {order[i] : i \in DOMAIN order}, rank)
    BY <1>9, SelectFills
<1> QED
    BY <1>2, <1>7, <1>9, <1>10 DEF files, last

-----------------------------------------------------------------------------
(* Types.                                                                  *)

\* What a handler holds at each place: a request, a result of the trimmer for
\* it, a row to log.
Holds(t) ==
    /\ t.pc \in {"lookup", "forward", "store", "stream", "log", "deliver"}
    /\ t.pc \in {"lookup", "forward", "store"} => t.body \in Bodies
    /\ t.pc = "forward" => t.rank \in Ranks /\ t.trim \in Trim(t.body, t.rank)
    /\ t.pc = "stream" =>
        /\ t.trim \in Result
        /\ t.usage \in [input : Nat, output : Nat]
        /\ t.lines \in 0 .. MaxLines
    /\ t.pc \in {"store", "log"} => t.row \in Row

\* The tables of the cache and the log, for a history of this length.
Tables(entries, table, known) ==
    /\ entries \subseteq [body : Bodies, by : known]
    /\ table \subseteq [id : 0 .. MaxTime, of : known, row : Row]
    /\ IsFiniteSet(table)

Typed ==
    /\ \A h \in Handler : task[h] # Idle => Holds(task[h])
    /\ Tables(cached, rows, DOMAIN past)

\* The rows that can be logged are rows.
LEMMA RowType ==
    ASSUME NEW usage \in [input : Nat, output : Nat], NEW trim \in Result
    PROVE  RowOf(usage, trim) \in Row
<1>1. /\ usage.input \in Nat /\ usage.output \in Nat
      /\ trim.used \in Nat /\ trim.saved \in Nat /\ trim.body \in Seq(Message)
    BY DEF Result
<1>2. InputTokens(usage, trim) \in Nat
    BY <1>1, EstimateType DEF InputTokens
<1>3. \A i, u, o, s \in Nat :
          [hit |-> FALSE, input |-> i, used |-> u, output |-> o, saved |-> s] \in Row
    BY Zenon DEF Row
<1> QED
    BY <1>1, <1>2, <1>3 DEF RowOf

LEMMA HitRowType ==
    ASSUME NEW body \in Seq(Message)
    PROVE  [hit |-> TRUE, input |-> EstimateTokens(body),
            used |-> 0, output |-> 0, saved |-> 0] \in Row
<1>1. EstimateTokens(body) \in Nat /\ 0 \in Nat
    BY EstimateType
<1> QED
    BY <1>1, Zenon DEF Row

\* A step of a handler that goes on as t keeps the types if what it holds,
\* and what the tables get, is typed.
LEMMA TypedStep ==
    ASSUME IInv, Typed, NEW h \in Handler, NEW t, t = Idle \/ Holds(t),
           task' = [task EXCEPT ![h] = t],
           Tables(cached', rows', DOMAIN past')
    PROVE  Typed'
<1>1. /\ task'[h] = t
      /\ \A g \in Handler : g # h => task'[g] = task[g]
    BY DEF IInv, Shape
<1> QED
    BY <1>1 DEF Typed

\* Tables that stay are typed for a longer history, too.
LEMMA TablesStay ==
    ASSUME NEW entries, NEW table, NEW known, NEW more, known \subseteq more,
           Tables(entries, table, known)
    PROVE  Tables(entries, table, more)
BY DEF Tables

\* Every step keeps the types.
LEMMA NextTyped == IInv /\ Typed /\ [Next]_vars => Typed'
<1> SUFFICES ASSUME IInv, Typed, [Next]_vars PROVE Typed'
    OBVIOUS
<1>1. ASSUME DOMAIN past \subseteq DOMAIN past', cached' = cached, rows' = rows
      PROVE  Tables(cached', rows', DOMAIN past')
    BY <1>1, TablesStay DEF Typed
<1>2. ASSUME NEW h \in Handler, task[h] # Idle PROVE Holds(task[h])
    BY <1>2 DEF Typed
<1>3. ASSUME NEW h \in Handler, NEW body \in Bodies, Receive(h, body) PROVE Typed'
    <2> DEFINE t == [pc |-> "lookup", n |-> Len(past) + 1, body |-> body]
    <2>1. past' = Append(past, New) /\ cached' = cached /\ rows' = rows
          /\ task' = [task EXCEPT ![h] = t]
        BY <1>3 DEF Receive
    <2>2. DOMAIN past \subseteq DOMAIN past'
        BY <2>1 DEF IInv, Shape
    <2>3. Holds(t)
        BY DEF Holds
    <2> HIDE DEF t
    <2> QED
        BY <1>1, <2>1, <2>2, <2>3, TypedStep
<1>4. ASSUME NEW h \in Handler, Refuse(h) \/ ForwardFails(h) \/ WriteFails(h) \/ Deliver(h)
      PROVE  Typed'
    <2>1. PICK end : EndAs(h, end) /\ cached' = cached /\ rows' = rows
        BY <1>4 DEF Refuse, ForwardFails, WriteFails, Deliver
    <2>2. DOMAIN past' = DOMAIN past /\ task' = [task EXCEPT ![h] = Idle]
        BY <2>1 DEF EndAs
    <2> QED
        BY <1>1, <2>1, <2>2, TypedStep
<1>5. ASSUME NEW h \in Handler, NEW entry \in cached, Hit(h, entry) PROVE Typed'
    <2> DEFINE r == [hit |-> TRUE, input |-> EstimateTokens(task[h].body),
                     used |-> 0, output |-> 0, saved |-> 0]
               t == [pc |-> "log", n |-> task[h].n, end |-> "hit", row |-> r]
    <2>1. /\ task[h].pc = "lookup" /\ task' = [task EXCEPT ![h] = t]
          /\ DOMAIN past' = DOMAIN past /\ cached' = cached /\ rows' = rows
        BY <1>5 DEF Hit
    <2>2. task[h].body \in Seq(Message)
        BY <1>2, <2>1, ProxyAssumption DEF Holds, Idle
    <2>3. r \in Row
        BY <2>2, HitRowType
    <2> HIDE DEF r
    <2>4. Holds(t)
        BY <2>3 DEF Holds
    <2> HIDE DEF t
    <2> QED
        BY <1>1, <2>1, <2>4, TypedStep
<1>6. ASSUME NEW h \in Handler, NEW rank \in Ranks, Miss(h, rank) PROVE Typed'
    <2>1. PICK trim \in Trim(task[h].body, rank) :
              task' = [task EXCEPT ![h] =
                  [pc |-> "forward", n |-> task[h].n, body |-> task[h].body,
                   trim |-> trim, rank |-> rank]]
        BY <1>6, Zenon DEF Miss
    <2> DEFINE t == [pc |-> "forward", n |-> task[h].n, body |-> task[h].body,
                     trim |-> trim, rank |-> rank]
    <2>2. /\ task[h].pc = "lookup" /\ task' = [task EXCEPT ![h] = t]
          /\ past' = past /\ cached' = cached /\ rows' = rows
        BY <1>6, <2>1 DEF Miss
    <2>3. task[h].body \in Bodies
        BY <1>2, <2>2 DEF Holds, Idle
    <2>4. Holds(t)
        BY <2>3 DEF Holds
    <2> HIDE DEF t
    <2> QED
        BY <1>1, <2>2, <2>4, TypedStep
<1>7. ASSUME NEW h \in Handler, task[h].pc = "forward"
      PROVE  /\ task[h].body \in Bodies /\ task[h].body \in Seq(Message)
             /\ task[h].rank \in [Content -> Nat]
             /\ task[h].trim \in Trim(task[h].body, task[h].rank)
             /\ task[h].trim \in Result
    <2>1. /\ task[h].body \in Bodies /\ task[h].rank \in Ranks
          /\ task[h].trim \in Trim(task[h].body, task[h].rank)
        BY <1>2, <1>7 DEF Holds, Idle
    <2>2. task[h].body \in Seq(Message) /\ task[h].rank \in [Content -> Nat]
        BY <2>1, ProxyAssumption
    <2> QED
        BY <2>1, <2>2, TrimType
<1>8. ASSUME NEW h \in Handler, NEW usage \in Usages, NEW got \in {"whole", "head"},
             AnswerArrives(h, usage, got)
      PROVE  Typed'
    <2> DEFINE r == RowOf(usage, task[h].trim)
               t == [pc |-> "store", n |-> task[h].n, body |-> task[h].body,
                     end |-> "whole", row |-> r]
    <2>1. /\ task[h].pc = "forward" /\ task' = [task EXCEPT ![h] = t]
          /\ DOMAIN past' = DOMAIN past /\ cached' = cached /\ rows' = rows
        BY <1>8 DEF AnswerArrives
    <2>2. r \in Row
        BY <1>7, <2>1, RowType, ProxyAssumption
    <2> HIDE DEF r
    <2>3. Holds(t)
        BY <1>7, <2>1, <2>2 DEF Holds
    <2> HIDE DEF t
    <2> QED
        BY <1>1, <2>1, <2>3, TypedStep
<1>9. ASSUME NEW h \in Handler, StoreAnswer(h) PROVE Typed'
    <2> DEFINE t == [pc |-> "log", n |-> task[h].n, end |-> task[h].end, row |-> task[h].row]
               e == [body |-> task[h].body, by |-> task[h].n]
    <2>1. /\ task[h].pc = "store" /\ task' = [task EXCEPT ![h] = t]
          /\ past' = past /\ rows' = rows
          /\ cached' \subseteq cached \cup {e}
        BY <1>9 DEF StoreAnswer
    <2>2. task[h].body \in Bodies /\ task[h].row \in Row
        BY <1>2, <2>1 DEF Holds, Idle
    <2>3. Holds(t)
        BY <2>2 DEF Holds
    <2>4. task[h].n \in DOMAIN past
        BY <2>1 DEF IInv, Working, Idle
    <2>5. Tables(cached', rows', DOMAIN past')
        BY <2>1, <2>2, <2>4 DEF Typed, Tables
    <2> HIDE DEF t
    <2> QED
        BY <2>1, <2>3, <2>5, TypedStep
<1>10. ASSUME NEW h \in Handler, StreamStarts(h) PROVE Typed'
    <2> DEFINE t == [pc |-> "stream", n |-> task[h].n, trim |-> task[h].trim,
                     lines |-> 0, usage |-> NoUsage]
    <2>1. /\ task[h].pc = "forward" /\ task' = [task EXCEPT ![h] = t]
          /\ past' = past /\ cached' = cached /\ rows' = rows
        BY <1>10 DEF StreamStarts
    <2>2. 0 \in 0 .. MaxLines /\ NoUsage \in [input : Nat, output : Nat]
        BY ProxyAssumption DEF NoUsage
    <2>3. Holds(t)
        BY <1>7, <2>1, <2>2 DEF Holds
    <2> HIDE DEF t
    <2> QED
        BY <1>1, <2>1, <2>3, TypedStep
<1>11. ASSUME NEW h \in Handler, task[h].pc = "stream"
       PROVE  /\ task[h].trim \in Result
              /\ task[h].usage \in [input : Nat, output : Nat]
              /\ task[h].lines \in 0 .. MaxLines
    BY <1>2, <1>11 DEF Holds, Idle
<1>12. ASSUME NEW h \in Handler, NEW usage \in Usages, CopyLine(h, usage) PROVE Typed'
    <2> DEFINE latest == LineUsage(task[h].usage, usage)
               t == [pc |-> "stream", n |-> task[h].n, trim |-> task[h].trim,
                     lines |-> task[h].lines + 1, usage |-> latest]
    <2>1. /\ task[h].pc = "stream" /\ task[h].lines < MaxLines
          /\ task' = [task EXCEPT ![h] = t]
          /\ past' = past /\ cached' = cached /\ rows' = rows
        BY <1>12 DEF CopyLine
    <2>2. latest \in [input : Nat, output : Nat]
        BY <1>11, <2>1, ProxyAssumption DEF LineUsage
    <2>3. task[h].lines + 1 \in 0 .. MaxLines
        BY <1>11, <2>1, ProxyAssumption
    <2> HIDE DEF latest
    <2>4. Holds(t)
        BY <1>11, <2>1, <2>2, <2>3 DEF Holds
    <2> HIDE DEF t
    <2> QED
        BY <1>1, <2>1, <2>4, TypedStep
<1>13. ASSUME NEW h \in Handler, NEW broken \in BOOLEAN, StreamEnds(h, broken) PROVE Typed'
    <2> DEFINE r == RowOf(task[h].usage, task[h].trim)
               t == [pc |-> "log", n |-> task[h].n, end |-> "stream", row |-> r]
    <2>1. /\ task[h].pc = "stream" /\ task' = [task EXCEPT ![h] = t]
          /\ past' = past /\ cached' = cached /\ rows' = rows
        BY <1>13 DEF StreamEnds
    <2>2. r \in Row
        BY <1>11, <2>1, RowType
    <2> HIDE DEF r
    <2>3. Holds(t)
        BY <2>2 DEF Holds
    <2> HIDE DEF t
    <2> QED
        BY <1>1, <2>1, <2>3, TypedStep
<1>14. ASSUME NEW h \in Handler, LogRow(h) \/ LogFails(h) PROVE Typed'
    <2> DEFINE t == IF task[h].end = "whole" THEN [pc |-> "deliver", n |-> task[h].n] ELSE Idle
               r == [id |-> now, of |-> task[h].n, row |-> task[h].row]
    <2>1. /\ task[h].pc = "log" /\ task' = [task EXCEPT ![h] = t]
          /\ DOMAIN past' = DOMAIN past /\ cached' = cached
          /\ rows' = rows \/ rows' = rows \cup {r}
        BY <1>14 DEF LogRow, LogFails, AfterLog, Logged, TakeRow
    <2>2. t = Idle \/ Holds(t)
        BY DEF Holds
    <2>3. /\ task[h].n \in DOMAIN past /\ now \in 0 .. MaxTime
          /\ task[h].row \in Row
        BY <1>2, <2>1 DEF IInv, Shape, Working, Holds, Idle
    <2>4. r \in [id : 0 .. MaxTime, of : DOMAIN past, row : Row]
        BY <2>3
    <2> HIDE DEF t, r
    <2>5. Tables(cached', rows', DOMAIN past')
        BY <2>1, <2>4, FS_AddElement DEF Typed, Tables
    <2> QED
        BY <2>1, <2>2, <2>5, TypedStep
<1>15. ASSUME NEW h \in Handler, ClientGone(h) PROVE Typed'
    <2>1. /\ DOMAIN past' = DOMAIN past /\ cached' = cached /\ rows' = rows
          /\ task' = task
        BY <1>15 DEF ClientGone
    <2> QED
        BY <1>1, <2>1 DEF Typed
<1>16. CASE Restart
    <2>1. /\ DOMAIN past' = DOMAIN past /\ cached' = cached /\ rows' = rows
          /\ \A h \in Handler : task'[h] = Idle
        BY <1>16 DEF Restart
    <2> QED
        BY <1>1, <2>1 DEF Typed
<1>17. CASE Tick \/ (\E entry \in cached : Evict(entry)) \/ UNCHANGED vars
    <2>1. task' = task /\ past' = past /\ rows' = rows /\ cached' \subseteq cached
        BY <1>17 DEF Tick, Evict, vars
    <2> QED
        BY <2>1 DEF Typed, Tables
<1>18. ASSUME NEW h \in Handler,
              \/ \E body \in Bodies : Receive(h, body)
              \/ Refuse(h)
              \/ \E entry \in cached : HitL1(h, entry)
              \/ \E entry \in cached : HitL2(h, entry)
              \/ \E rank \in Ranks : Miss(h, rank)
              \/ ForwardFails(h)
              \/ \E usage \in Usages, got \in {"whole", "head"} : AnswerArrives(h, usage, got)
              \/ StoreAnswer(h)
              \/ Deliver(h)
              \/ StreamStarts(h)
              \/ \E usage \in Usages : CopyLine(h, usage)
              \/ WriteFails(h)
              \/ \E broken \in BOOLEAN : StreamEnds(h, broken)
              \/ LogRow(h)
              \/ LogFails(h)
              \/ ClientGone(h)
       PROVE  Typed'
    BY <1>3, <1>4, <1>5, <1>6, <1>8, <1>9, <1>10, <1>12, <1>13, <1>14, <1>15, <1>18
       DEF HitL1, HitL2
<1> QED
    BY <1>16, <1>17, <1>18 DEF Next

\* The handlers hold what their places ask for, in every run.
LEMMA TypedInvariant == Spec => [](IInv /\ Typed)
<1>1. Init => Typed
    <2> SUFFICES ASSUME Init PROVE Typed
        OBVIOUS
    <2>1. cached = {} /\ rows = {} /\ \A h \in Handler : task[h] = Idle
        BY DEF Init
    <2> QED
        BY <2>1, FS_EmptySet DEF Typed, Tables
<1> QED
    BY <1>1, NextTyped, Invariant, PTL DEF Spec

\* Whatever the clients ask for and whenever a handler, the client or the
\* proxy stops, requests, rows and cache entries have their types.
THEOREM TypeCorrect == Spec => []TypeOK
<1>1. IInv /\ Typed => TypeOK
    <2> SUFFICES ASSUME IInv, Typed PROVE TypeOK
        OBVIOUS
    <2>1. ASSUME NEW h \in Handler, task[h] # Idle
          PROVE  /\ task[h].pc \in {"lookup", "forward", "store", "stream", "log", "deliver"}
                 /\ task[h].n \in DOMAIN past
                 /\ task[h].pc \in {"lookup", "forward", "store"} => task[h].body \in Bodies
                 /\ task[h].pc \in {"store", "log"} => task[h].row \in Row
                 /\ task[h].pc = "stream" => task[h].lines \in 0 .. MaxLines
        BY <2>1 DEF IInv, Working, Typed, Holds
    <2>2. /\ cached \subseteq [body : Bodies, by : DOMAIN past]
          /\ rows \subseteq [id : 0 .. MaxTime, of : DOMAIN past, row : Row]
          /\ now \in 0 .. MaxTime /\ past \in Seq(Entry)
        BY DEF IInv, Shape, Typed, Tables
    <2> QED
        BY <2>1, <2>2 DEF TypeOK, Entry
<1> QED
    BY <1>1, TypedInvariant, PTL

-----------------------------------------------------------------------------
(* What is sent to the upstream.                                           *)

\* A handler that asks the upstream has a result of Trim for its request.
LEMMA AtForward ==
    ASSUME Typed, NEW h \in Handler, task[h].pc = "forward"
    PROVE  /\ task[h].body \in Seq(Message)
           /\ task[h].rank \in [Content -> Nat]
           /\ task[h].trim \in Trim(task[h].body, task[h].rank)
           /\ task[h].trim \in Result
<1>1. /\ task[h].body \in Bodies /\ task[h].rank \in Ranks
      /\ task[h].trim \in Trim(task[h].body, task[h].rank)
    BY DEF Typed, Holds, Idle
<1>2. task[h].body \in Seq(Message) /\ task[h].rank \in [Content -> Nat]
    BY <1>1, ProxyAssumption
<1> QED
    BY <1>1, <1>2, TrimType

\* For any messages, files, ranks and budget: whichever order the files of one
\* rank come in, the query of the trimmed request is that of the original.
THEOREM TrimAlwaysKeepsTheQuery == Spec => []TrimKeepsTheQuery
<1>1. Typed => TrimKeepsTheQuery
    BY AtForward, TrimQuery DEF TrimKeepsTheQuery
<1> QED
    BY <1>1, TypedInvariant, PTL

\* For any of them, too: the files chosen for a trimmed request come from the
\* request, keep within the budget, and leave out only what ranks too low or does
\* not fit any more; the messages before the last one with code keep their blocks,
\* which the budget does not count.
THEOREM ChosenFilesAlwaysFillTheBudget == Spec => []ChosenFilesFillTheBudget
<1>1. Typed => ChosenFilesFillTheBudget
    <2> SUFFICES ASSUME Typed, NEW h \in Handler,
                        task[h].pc = "forward", task[h].trim.saved > 0
                 PROVE  LET body == task[h].body
                            trimmed == task[h].trim.body
                            all == Files(body)
                            kept == trimmed[LastCoded(body)].blocks
                        IN  /\ TokensOf(kept) <= MaxContextTokens
                            /\ TokensOf(kept) = task[h].trim.used
                            /\ \A i \in DOMAIN kept : \E j \in DOMAIN all : kept[i] = all[j]
                            /\ \A j \in DOMAIN all :
                                \/ \E i \in DOMAIN kept : kept[i] = all[j]
                                \/ task[h].rank[all[j].content] < MinScore
                                \/ TokensOf(kept) + Tokens[all[j].content] > MaxContextTokens
                            /\ DOMAIN trimmed = DOMAIN body
                            /\ \A i \in DOMAIN body \ {LastCoded(body)} :
                                  trimmed[i].blocks = body[i].blocks
        BY DEF ChosenFilesFillTheBudget
    <2> DEFINE all == Files(task[h].body)
               kept == task[h].trim.body[LastCoded(task[h].body)].blocks
    <2>1. /\ TokensOf(kept) = task[h].trim.used
          /\ Fills(kept, {all[j] : j \in DOMAIN all}, task[h].rank)
          /\ DOMAIN task[h].trim.body = DOMAIN task[h].body
          /\ \A i \in DOMAIN task[h].body \ {LastCoded(task[h].body)} :
                task[h].trim.body[i].blocks = task[h].body[i].blocks
        BY AtForward, TrimFills
    <2> HIDE DEF all, kept
    <2>2. /\ TokensOf(kept) <= MaxContextTokens
          /\ \A i \in DOMAIN kept : \E j \in DOMAIN all : kept[i] = all[j]
          /\ \A j \in DOMAIN all :
              \/ \E i \in DOMAIN kept : kept[i] = all[j]
              \/ task[h].rank[all[j].content] < MinScore
              \/ TokensOf(kept) + Tokens[all[j].content] > MaxContextTokens
        BY <2>1 DEF Fills
    <2> QED
        BY <2>1, <2>2 DEF all, kept
<1> QED
    BY <1>1, TypedInvariant, PTL

-----------------------------------------------------------------------------
(* The summary.                                                            *)

\* A sum over rows may take them in any order.
LEMMA SumOfInput ==
    ASSUME NEW S, IsFiniteSet(S), NEW f \in [S -> Nat], \A r \in S : f[r] = r.row.input
    PROVE  \E sum : IsSum(sum, S, f) /\ SumOf(S, LAMBDA r : r.row.input) = sum[S]
<1> DEFINE pick(s) == CHOOSE x \in s : TRUE
           Iter(i) == i = [s \in SUBSET S |->
                             IF s = {} THEN 0 ELSE i[s \ {pick(s)}] + pick(s).row.input]
           it == CHOOSE i : Iter(i)
<1>1. SumOf(S, LAMBDA r : r.row.input) = it[S]
    BY DEF SumOf, FoldSet, MapThenFoldSet
<1>2. PICK g \in [SUBSET S -> Nat] : SumUnrolls(g, S, f)
    BY SumExists
<1>3. \A s \in SUBSET S : s # {} => pick(s) \in S
    OBVIOUS
<1>4. \A s \in SUBSET S : g[s] = IF s = {} THEN 0 ELSE g[s \ {pick(s)}] + f[pick(s)]
    BY <1>2 DEF SumUnrolls
<1> HIDE DEF pick
<1>5. Iter(g)
    BY <1>2, <1>3, <1>4
<1>6. Iter(it)
    <2> HIDE DEF Iter
    <2> QED
        BY <1>5
<1> HIDE DEF it
<1>7. \A s \in SUBSET S : it[s] = IF s = {} THEN 0 ELSE it[s \ {pick(s)}] + f[pick(s)]
    BY <1>3, <1>6
<1>8. SumUnrolls(it, S, f)
    BY <1>7 DEF SumUnrolls, pick
<1>9. IsSum(it, S, f)
    BY <1>8, SumIsSum
<1> QED
    BY <1>1, <1>9

\* The same for what trimming took off.
LEMMA SumOfTrimmed ==
    ASSUME NEW S, IsFiniteSet(S), NEW f \in [S -> Nat],
           \A r \in S : f[r] = r.row.input - r.row.used
    PROVE  \E sum : IsSum(sum, S, f) /\ SumOf(S, LAMBDA r : r.row.input - r.row.used) = sum[S]
<1> DEFINE pick(s) == CHOOSE x \in s : TRUE
           Iter(i) == i = [s \in SUBSET S |->
                             IF s = {} THEN 0
                             ELSE i[s \ {pick(s)}] + (pick(s).row.input - pick(s).row.used)]
           it == CHOOSE i : Iter(i)
<1>1. SumOf(S, LAMBDA r : r.row.input - r.row.used) = it[S]
    BY DEF SumOf, FoldSet, MapThenFoldSet
<1>2. PICK g \in [SUBSET S -> Nat] : SumUnrolls(g, S, f)
    BY SumExists
<1>3. \A s \in SUBSET S : s # {} => pick(s) \in S
    OBVIOUS
<1>4. \A s \in SUBSET S : g[s] = IF s = {} THEN 0 ELSE g[s \ {pick(s)}] + f[pick(s)]
    BY <1>2 DEF SumUnrolls
<1> HIDE DEF pick
<1>5. Iter(g)
    BY <1>2, <1>3, <1>4
<1>6. Iter(it)
    <2> HIDE DEF Iter
    <2> QED
        BY <1>5
<1> HIDE DEF it
<1>7. \A s \in SUBSET S : it[s] = IF s = {} THEN 0 ELSE it[s \ {pick(s)}] + f[pick(s)]
    BY <1>3, <1>6
<1>8. SumUnrolls(it, S, f)
    BY <1>7 DEF SumUnrolls, pick
<1>9. IsSum(it, S, f)
    BY <1>8, SumIsSum
<1> QED
    BY <1>1, <1>9

\* For any rows and any period: no request counts as answered from the cache
\* and as trimmed, and no more tokens are saved than requests had.
THEOREM SummaryAlwaysAddsUp == Spec => []SummaryAddsUp
<1>1. Typed => SummaryAddsUp
    <2> SUFFICES ASSUME Typed, NEW since \in 0 .. MaxTime
                 PROVE  LET s == SummaryFrom(since) IN
                        /\ s.cacheHits + s.trimmedRequests <= s.totalRequests
                        /\ s.tokensSavedCache + s.tokensSavedTrim
                             <= SumOf({r \in rows : r.id >= since}, LAMBDA r : r.row.input)
        BY DEF SummaryAddsUp
    <2> DEFINE all == {r \in rows : r.id >= since}
               hits == {r \in all : r.row.hit}
               trimmed == {r \in all \ hits : r.row.input > r.row.used}
               input == [r \in all |-> r.row.input]
               hitInput == [r \in hits |-> r.row.input]
               less == [r \in trimmed |-> r.row.input - r.row.used]
    <2>1. /\ SummaryFrom(since).totalRequests = Cardinality(all)
          /\ SummaryFrom(since).cacheHits = Cardinality(hits)
          /\ SummaryFrom(since).trimmedRequests = Cardinality(trimmed)
          /\ SummaryFrom(since).tokensSavedCache = SumOf(hits, LAMBDA r : r.row.input)
          /\ SummaryFrom(since).tokensSavedTrim
               = SumOf(trimmed, LAMBDA r : r.row.input - r.row.used)
        BY DEF SummaryFrom
    <2>2. IsFiniteSet(all)
        BY FS_Subset DEF Typed, Tables
    <2>3. \A r \in all : r.row.input \in Nat /\ r.row.used \in Nat
        <3>1. \A r \in all : r.row \in Row
            BY DEF Typed, Tables
        <3> QED
            BY <3>1 DEF Row
    <2>4. hits \in SUBSET all /\ trimmed \in SUBSET all /\ hits \cap trimmed = {}
        OBVIOUS
    <2>5. IsFiniteSet(hits) /\ IsFiniteSet(trimmed)
        BY <2>2, <2>4, FS_Subset
    <2>6. \A r \in trimmed : r.row.input - r.row.used \in Nat /\ r.row.input - r.row.used <= r.row.input
        BY <2>3
    <2> HIDE DEF all, hits, trimmed
    <2>7. /\ input \in [all -> Nat] /\ hitInput \in [hits -> Nat] /\ less \in [trimmed -> Nat]
          /\ \A r \in hits : hitInput[r] <= input[r]
          /\ \A r \in trimmed : less[r] <= input[r]
        BY <2>3, <2>4, <2>6
    <2>8. /\ \A r \in all : input[r] = r.row.input
          /\ \A r \in hits : hitInput[r] = r.row.input
          /\ \A r \in trimmed : less[r] = r.row.input - r.row.used
        OBVIOUS
    <2> HIDE DEF input, hitInput, less
    <2>9. PICK whole : IsSum(whole, all, input)
                       /\ SumOf(all, LAMBDA r : r.row.input) = whole[all]
        BY <2>2, <2>7, <2>8, SumOfInput
    <2>10. PICK cache : IsSum(cache, hits, hitInput)
                        /\ SumOf(hits, LAMBDA r : r.row.input) = cache[hits]
        BY <2>5, <2>7, <2>8, SumOfInput
    <2>11. PICK cut : IsSum(cut, trimmed, less)
                      /\ SumOf(trimmed, LAMBDA r : r.row.input - r.row.used) = cut[trimmed]
        BY <2>5, <2>7, <2>8, SumOfTrimmed
    <2>12. cache[hits] + cut[trimmed] <= whole[all]
        BY <2>2, <2>4, <2>7, <2>9, <2>10, <2>11, SumOfParts
    <2>13. Cardinality(hits) + Cardinality(trimmed) <= Cardinality(all)
        BY <2>2, <2>4, PartsCount
    <2> QED
        BY <2>1, <2>9, <2>10, <2>11, <2>12, <2>13 DEF all
<1> QED
    BY <1>1, TypedInvariant, PTL

=============================================================================
