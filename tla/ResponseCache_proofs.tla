------------------------- MODULE ResponseCache_proofs -------------------------
(***************************************************************************)
(* Proofs about ResponseCache, for any handlers, bodies, distances and     *)
(* capacities.  The invariant follows one response from the upstream over  *)
(* the handler into L1 and out again (Carried, L1IsAuthentic), and counts  *)
(* the rows of L1 against the handlers that are about to evict.  For L2 it *)
(* follows the rows a search found to their fetch (Similar), unless L2 was *)
(* cleared in between.                                                     *)
(***************************************************************************)
EXTENDS ResponseCache, FiniteSetTheorems, TLAPS

\* What a handler carries at each stage: a row it is about to fetch, or the
\* response it is storing; a handler that deletes found something to delete.
CarriedBy(w) ==
    /\ w.pc = "fetch" => w.row \in Number
    /\ w.pc \in {"insert", "count", "delete"} =>
         /\ w.resp \in Response
         /\ w.resp.body = w.body
         /\ w.resp.at <= now
    /\ w.pc = "delete" => w.excess > 0

Carried == \A h \in Handler : CarriedBy(handler[h])

L1IsAuthentic ==
    \A b \in Body : l1[b] # None => /\ l1[b].resp.body = b
                                    /\ l1[b].resp.at <= l1[b].created

Stored == TypeOK /\ Carried /\ L1IsAuthentic /\ L1HitIsAuthentic

USE CacheAssumption

\* The invariant holds initially.
LEMMA InitStored == Init => Stored
<1> SUFFICES ASSUME Init PROVE Stored
  OBVIOUS
<1>1. TypeOK
  BY DEF Init, TypeOK
<1>2. Carried /\ L1IsAuthentic /\ L1HitIsAuthentic
  BY DEF Init, Carried, CarriedBy, L1IsAuthentic, L1HitIsAuthentic, Free
<1> QED
  BY <1>1, <1>2 DEF Stored

\* A handler that is at work has a typed task.
LEMMA AtWork ==
    ASSUME TypeOK, NEW h \in Handler, handler[h].pc # "idle"
    PROVE  handler[h] \in Working
  BY DEF TypeOK, Free

\* A handler moves on to w, which carries what it should.
LEMMA MoveOn ==
    ASSUME TypeOK, Carried, NEW h \in Handler, NEW w \in Working \cup {Free},
           handler' = [handler EXCEPT ![h] = w], CarriedBy(w), UNCHANGED now
    PROVE  handler' \in [Handler -> Working \cup {Free}] /\ Carried'
  BY DEF TypeOK, Carried, CarriedBy

\* A new request preserves the invariant, answered from L1 or not.
LEMMA RequestStored ==
    ASSUME Stored, NEW h \in Handler, NEW b \in Body, Request(h, b)
    PROVE  Stored'
<1> USE DEF Stored
<1>1. requests' = requests + 1 /\ requests' \in Number /\ requests' \in 0 .. MaxRequests
  BY DEF Request, TypeOK, Number
<1>2. UNCHANGED <<l1, l2, storing, evictor, leaked, cleared, restarts, now>>
  BY DEF Request
<1>3. CASE l1[b] # None /\ Fresh(l1[b].created)
  <2> DEFINE a == [body |-> b, level |-> "L1", resp |-> l1[b].resp,
                   stored |-> l1[b].created, at |-> now]
  <2>1. l1[b] \in Entry /\ now \in 0 .. MaxNow
    BY <1>3 DEF TypeOK
  <2>2. /\ UNCHANGED handler
        /\ answered' = [answered EXCEPT ![requests + 1] = a]
    BY <1>3 DEF Request, Answer
  <2>4. a \in [body : Body, level : {"L1", "L2"}, resp : Response,
               stored : 0 .. MaxNow, at : 0 .. MaxNow]
    BY <2>1 DEF Entry
  <2>5. TypeOK'
    BY <1>1, <1>2, <2>2, <2>4 DEF TypeOK
  <2>6. Carried'
    BY <1>2, <2>2 DEF Carried, CarriedBy
  <2>7. L1IsAuthentic'
    BY <1>2 DEF L1IsAuthentic
  <2>8. L1HitIsAuthentic'
    <3>1. a.resp.body = a.body /\ a.resp.at <= a.stored /\ a.at < a.stored + TTL
      BY <1>3, <2>1 DEF L1IsAuthentic, Fresh, Entry
    <3> HIDE DEF a
    <3> QED
      BY <1>1, <2>2, <3>1 DEF L1HitIsAuthentic, TypeOK
  <2> QED
    BY <2>5, <2>6, <2>7, <2>8
<1>4. CASE ~ (l1[b] # None /\ Fresh(l1[b].created))
  <2> DEFINE w == Begun(requests + 1, b)
  <2>1. /\ handler' = [handler EXCEPT ![h] = w] /\ UNCHANGED answered
    BY <1>4 DEF Request
  <2>2. w \in Working /\ w.pc \in {"knn", "forward"}
    <3>1. CASE L2Enabled
      BY <1>1, <3>1 DEF Working, Begun
    <3>2. CASE ~ L2Enabled
      BY <1>1, <3>2 DEF Working, Begun
    <3> QED
      BY <3>1, <3>2
  <2> HIDE DEF w
  <2>3. CarriedBy(w)
    BY <2>2 DEF CarriedBy
  <2>4. handler' \in [Handler -> Working \cup {Free}] /\ Carried'
    BY <1>2, <2>1, <2>2, <2>3, MoveOn
  <2>5. L1IsAuthentic' /\ L1HitIsAuthentic'
    BY <1>2, <2>1 DEF L1IsAuthentic, L1HitIsAuthentic
  <2>6. TypeOK'
    BY <1>1, <1>2, <2>1, <2>4 DEF TypeOK
  <2> QED
    BY <2>4, <2>5, <2>6
<1> QED
  BY <1>3, <1>4

\* A search of L2 only decides where the handler goes next.
LEMMA SearchStored ==
    ASSUME Stored, NEW h \in Handler, KnnSearch(h) \/ KnnFails(h)
    PROVE  Stored'
<1> USE DEF Stored
<1>1. /\ handler[h] \in Working /\ handler[h].pc = "knn"
      /\ UNCHANGED <<l1, l2, storing, answered, requests, evictor, leaked, cleared, restarts, now>>
  BY AtWork DEF KnnSearch, KnnFails
<1>2. PICK w \in Working : handler' = [handler EXCEPT ![h] = w] /\ CarriedBy(w)
  <2> DEFINE miss == [handler[h] EXCEPT !.pc = "forward"]
  <2>1. miss \in Working /\ CarriedBy(miss)
    BY <1>1 DEF Working, CarriedBy
  <2>2. CASE handler' = [handler EXCEPT ![h].pc = "forward"]
    BY <2>1, <2>2
  <2>3. CASE \E r \in Number : handler' = [handler EXCEPT ![h].pc = "fetch", ![h].row = r]
    <3>1. PICK r \in Number : handler' = [handler EXCEPT ![h].pc = "fetch", ![h].row = r]
      BY <2>3
    <3> DEFINE w == [handler[h] EXCEPT !.pc = "fetch", !.row = r]
    <3>2. handler' = [handler EXCEPT ![h] = w]
      BY <3>1
    <3>3. w \in Working /\ w.pc = "fetch" /\ w.row \in Number
      <4>1. r \in 0 .. MaxRequests
        BY DEF Number
      <4> QED
        BY <1>1, <4>1 DEF Working
    <3> HIDE DEF w
    <3>4. CarriedBy(w)
      BY <3>3 DEF CarriedBy
    <3> QED
      BY <3>2, <3>3, <3>4
  <2> QED
    BY <2>2, <2>3 DEF KnnSearch, KnnFails, Match, Rows
<1>3. handler' \in [Handler -> Working \cup {Free}] /\ Carried'
  BY <1>1, <1>2, MoveOn
<1>4. TypeOK'
  BY <1>1, <1>3 DEF TypeOK
<1> QED
  BY <1>1, <1>3, <1>4 DEF L1IsAuthentic, L1HitIsAuthentic

\* An answer from L2, or a miss because the row has gone.
LEMMA FetchStored ==
    ASSUME Stored, NEW h \in Handler, FetchRow(h)
    PROVE  Stored'
<1> USE DEF Stored
<1> DEFINE w == handler[h]
           row == l2[w.row]
<1>1. /\ w \in Working /\ w.row \in Number
      /\ UNCHANGED <<l1, l2, storing, requests, evictor, leaked, cleared, restarts, now>>
  BY AtWork DEF FetchRow, Carried, CarriedBy
<1>2. CASE row = None
  <2> DEFINE miss == [w EXCEPT !.pc = "forward"]
  <2>1. miss \in Working \cup {Free} /\ CarriedBy(miss)
    BY <1>1 DEF Working, CarriedBy
  <2>2. handler' = [handler EXCEPT ![h] = miss] /\ UNCHANGED answered
    BY <1>2 DEF FetchRow
  <2> HIDE DEF miss
  <2>3. handler' \in [Handler -> Working \cup {Free}] /\ Carried'
    BY <1>1, <2>1, <2>2, MoveOn
  <2> QED
    BY <1>1, <2>2, <2>3 DEF TypeOK, L1IsAuthentic, L1HitIsAuthentic
<1>3. CASE row # None
  <2> DEFINE a == [body |-> w.body, level |-> "L2", resp |-> row.resp,
                   stored |-> row.created, at |-> now]
  <2>1. row \in SemanticRow
    BY <1>1, <1>3 DEF TypeOK
  <2>2. a \in [body : Body, level : {"L1", "L2"}, resp : Response,
               stored : 0 .. MaxNow, at : 0 .. MaxNow] /\ a.level # "L1"
    BY <1>1, <2>1 DEF TypeOK, SemanticRow, Working
  <2>3. answered' = [answered EXCEPT ![w.n] = a] /\ handler' = [handler EXCEPT ![h] = Free]
    BY <1>3 DEF FetchRow, Answer
  <2>4. CarriedBy(Free)
    BY DEF CarriedBy, Free
  <2>5. handler' \in [Handler -> Working \cup {Free}] /\ Carried'
    BY <1>1, <2>3, <2>4, MoveOn
  <2> HIDE DEF a
  <2>6. TypeOK'
    BY <1>1, <2>2, <2>3, <2>5 DEF TypeOK
  <2>7. L1HitIsAuthentic'
    BY <1>1, <2>2, <2>3 DEF TypeOK, L1HitIsAuthentic, Working
  <2> QED
    BY <1>1, <2>5, <2>6, <2>7 DEF L1IsAuthentic
<1> QED
  BY <1>2, <1>3

\* The response of the upstream, or nothing to store.
LEMMA ForwardStored ==
    ASSUME Stored, NEW h \in Handler, Forward(h) \/ NothingToStore(h)
    PROVE  Stored'
<1> USE DEF Stored
<1>1. /\ handler[h] \in Working
      /\ UNCHANGED <<l1, l2, storing, answered, requests, evictor, leaked, cleared, restarts, now>>
  BY AtWork DEF Forward, NothingToStore
<1>2. PICK w \in Working \cup {Free} : handler' = [handler EXCEPT ![h] = w] /\ CarriedBy(w)
  <2>1. CASE Forward(h)
    <3> DEFINE r == [body |-> handler[h].body, at |-> now]
               w == [handler[h] EXCEPT !.pc = "insert", !.resp = r]
    <3>1. r \in Response /\ r.body = handler[h].body /\ r.at = now /\ now \in Nat
      BY <1>1 DEF Working, Response, TypeOK
    <3>2. handler' = [handler EXCEPT ![h] = w]
      BY <2>1 DEF Forward
    <3> HIDE DEF r
    <3>3. w \in Working /\ w.pc = "insert" /\ w.resp = r /\ w.body = handler[h].body
      BY <1>1, <3>1 DEF Working
    <3> HIDE DEF w
    <3>4. CarriedBy(w)
      BY <3>1, <3>3 DEF CarriedBy
    <3> QED
      BY <3>2, <3>3, <3>4
  <2>2. CASE NothingToStore(h)
    <3>1. CarriedBy(Free)
      BY DEF CarriedBy, Free
    <3> QED
      BY <2>2, <3>1 DEF NothingToStore
  <2> QED
    BY <2>1, <2>2
<1>3. handler' \in [Handler -> Working \cup {Free}] /\ Carried'
  BY <1>1, <1>2, MoveOn
<1> QED
  BY <1>1, <1>3 DEF TypeOK, L1IsAuthentic, L1HitIsAuthentic

\* The upsert into L1.
LEMMA InsertStored ==
    ASSUME Stored, NEW h \in Handler, InsertL1(h)
    PROVE  Stored'
<1> USE DEF Stored
<1> DEFINE e == [resp |-> handler[h].resp, created |-> now]
           w == [handler[h] EXCEPT !.pc = "count"]
<1>1. /\ handler[h] \in Working /\ handler[h].pc = "insert"
      /\ l1' = [l1 EXCEPT ![handler[h].body] = e] /\ handler' = [handler EXCEPT ![h] = w]
      /\ UNCHANGED <<l2, storing, answered, requests, evictor, leaked, cleared, restarts, now>>
  BY AtWork DEF InsertL1
<1>2. /\ handler[h].body \in Body /\ handler[h].resp \in Response
      /\ handler[h].resp.body = handler[h].body /\ handler[h].resp.at <= now
  BY <1>1 DEF Working, Carried, CarriedBy
<1>3. e \in Entry /\ e.resp.body = handler[h].body /\ e.resp.at <= e.created
  BY <1>2 DEF Entry, TypeOK
<1>4. /\ w \in Working /\ w.pc = "count" /\ w.resp = handler[h].resp
      /\ w.body = handler[h].body
  BY <1>1 DEF Working
<1> HIDE DEF e, w
<1>5. handler' \in [Handler -> Working \cup {Free}] /\ Carried'
  <2>1. CarriedBy(w)
    BY <1>2, <1>4 DEF CarriedBy
  <2> QED
    BY <1>1, <1>4, <2>1, MoveOn
<1>6. TypeOK'
  BY <1>1, <1>2, <1>3, <1>5 DEF TypeOK
<1>7. L1IsAuthentic'
  BY <1>1, <1>2, <1>3 DEF L1IsAuthentic, TypeOK
<1> QED
  BY <1>1, <1>5, <1>6, <1>7 DEF L1HitIsAuthentic

\* Deleting rows of L1 keeps what it says of the others.
LEMMA DeletingKeeps ==
    ASSUME Stored, NEW S \in SUBSET Body,
           l1' = [b \in Body |-> IF b \in S THEN None ELSE l1[b]]
    PROVE  l1' \in [Body -> Entry \cup {None}] /\ L1IsAuthentic'
  BY DEF Stored, TypeOK, L1IsAuthentic

\* The end of ExactCache.Set.
LEMMA ReturnStored ==
    ASSUME Stored, NEW h \in Handler, handler[h].pc \in {"insert", "count", "delete"},
           SetReturns(h), UNCHANGED now
    PROVE  /\ handler' \in [Handler -> Working \cup {Free}] /\ Carried'
           /\ storing' \in SUBSET [n : Number, row : SemanticRow]
<1> USE DEF Stored
<1>1. handler[h] \in Working /\ handler[h].resp \in Response
  BY AtWork DEF Carried, CarriedBy
<1>2. handler' = [handler EXCEPT ![h] = Free] /\ CarriedBy(Free)
  BY DEF SetReturns, CarriedBy, Free
<1>3. handler' \in [Handler -> Working \cup {Free}] /\ Carried'
  BY <1>2, MoveOn
<1>4. storing' \in SUBSET [n : Number, row : SemanticRow]
  <2> DEFINE x == [n |-> handler[h].n,
                   row |-> [body |-> handler[h].body, resp |-> handler[h].resp,
                            created |-> now]]
  <2>1. x \in [n : Number, row : SemanticRow]
    BY <1>1 DEF Working, SemanticRow, TypeOK
  <2>2. storing' \subseteq storing \cup {x}
    BY DEF SetReturns
  <2> QED
    BY <2>1, <2>2 DEF TypeOK
<1> QED
  BY <1>3, <1>4

\* LRUEvict in a handler, and the client that goes away.
LEMMA EvictStored ==
    ASSUME Stored, NEW h \in Handler, CountL1(h) \/ EvictL1(h) \/ Disconnect(h)
    PROVE  Stored'
<1> USE DEF Stored
<1>1. /\ handler[h] \in Working /\ handler[h].pc \in {"insert", "count", "delete"}
      /\ UNCHANGED <<l2, answered, requests, evictor, cleared, restarts, now>>
  BY AtWork DEF CountL1, EvictL1, Disconnect
<1>2. /\ l1' \in [Body -> Entry \cup {None}] /\ L1IsAuthentic' /\ leaked' \in Nat
  <2>1. CASE CountL1(h) \/ Disconnect(h)
    BY <2>1 DEF CountL1, Disconnect, TypeOK, L1IsAuthentic
  <2>2. CASE EvictL1(h)
    <3>1. PICK S \in SUBSET Body : l1' = [b \in Body |-> IF b \in S THEN None ELSE l1[b]]
      BY <2>2 DEF EvictL1, DeleteOldest, Entries
    <3> QED
      BY <2>2, <3>1, DeletingKeeps DEF EvictL1, TypeOK
  <2> QED
    BY <2>1, <2>2
<1>3. /\ handler' \in [Handler -> Working \cup {Free}] /\ Carried'
      /\ storing' \in SUBSET [n : Number, row : SemanticRow]
  <2>1. CASE SetReturns(h)
    BY <1>1, <2>1, ReturnStored
  <2>2. CASE /\ CountL1(h) /\ Excess > 0 /\ UNCHANGED storing
             /\ handler' = [handler EXCEPT ![h].pc = "delete", ![h].excess = Excess]
    <3> DEFINE w == [handler[h] EXCEPT !.pc = "delete", !.excess = Excess]
    <3>1. Excess \in Int
      <4>1. IsFiniteSet(Entries)
        BY FS_Subset DEF Entries
      <4> QED
        BY <4>1, FS_CardinalityType DEF Excess
    <3>2. /\ w \in Working /\ w.pc = "delete" /\ w.excess = Excess
          /\ w.resp = handler[h].resp /\ w.body = handler[h].body
      BY <1>1, <3>1 DEF Working
    <3>3. handler' = [handler EXCEPT ![h] = w]
      BY <2>2
    <3> HIDE DEF w
    <3>4. CarriedBy(w)
      BY <1>1, <2>2, <3>2 DEF Carried, CarriedBy
    <3>5. handler' \in [Handler -> Working \cup {Free}] /\ Carried'
      BY <1>1, <3>2, <3>3, <3>4, MoveOn
    <3> QED
      BY <2>2, <3>5 DEF TypeOK
  <2>3. CASE CountL1(h)
    <3>1. Excess <= 0 \/ Excess > 0
      BY FS_Subset, FS_CardinalityType DEF Entries, Excess
    <3> QED
      BY <2>1, <2>2, <2>3, <3>1 DEF CountL1
  <2> QED
    BY <2>1, <2>3 DEF EvictL1, Disconnect
<1>4. TypeOK'
  BY <1>1, <1>2, <1>3 DEF TypeOK
<1> QED
  BY <1>1, <1>2, <1>3, <1>4 DEF L1HitIsAuthentic

\* The goroutine that stores into L2.
LEMMA StoreStored ==
    ASSUME Stored, NEW s \in storing, StoreL2(s) \/ StoreL2Fails(s)
    PROVE  Stored'
<1> USE DEF Stored
<1>1. /\ s \in [n : Number, row : SemanticRow] /\ storing' = storing \ {s}
      /\ UNCHANGED <<l1, handler, answered, requests, evictor, leaked, cleared, restarts, now>>
  BY DEF StoreL2, StoreL2Fails, TypeOK
<1>2. l2' \in [Number -> SemanticRow \cup {None}]
  <2>1. [s.row EXCEPT !.created = now] \in SemanticRow
    BY <1>1 DEF SemanticRow, TypeOK
  <2> QED
    BY <2>1 DEF StoreL2, StoreL2Fails, TypeOK
<1> QED
  BY <1>1, <1>2 DEF TypeOK, Carried, CarriedBy, L1IsAuthentic, L1HitIsAuthentic

\* The hourly eviction, clearing, restarts and the clock.
LEMMA OtherStored ==
    ASSUME Stored, Evictor \/ ClearL1 \/ ClearL2 \/ Restart \/ Tick \/ UNCHANGED vars
    PROVE  Stored'
<1> USE DEF Stored
<1>1. ASSUME EvictExpired \/ EvictorDeletes \/ ClearL1 PROVE Stored'
  <2>1. PICK S \in SUBSET Body : l1' = [b \in Body |-> IF b \in S THEN None ELSE l1[b]]
    <3>1. CASE EvictExpired
      <4> DEFINE S == {b \in Body : l1[b] # None /\ ~ Fresh(l1[b].created)}
      <4>1. l1' = [b \in Body |-> IF b \in S THEN None ELSE l1[b]]
        BY <3>1 DEF EvictExpired
      <4> QED
        BY <4>1
    <3>2. CASE EvictorDeletes
      BY <3>2 DEF EvictorDeletes, DeleteOldest, Entries
    <3>3. CASE ClearL1
      <4>1. l1' = [b \in Body |-> IF b \in Body THEN None ELSE l1[b]]
        BY <3>3 DEF ClearL1
      <4> QED
        BY <4>1
    <3> QED
      BY <1>1, <3>1, <3>2, <3>3
  <2>2. l1' \in [Body -> Entry \cup {None}] /\ L1IsAuthentic'
    BY <2>1, DeletingKeeps
  <2>3. UNCHANGED <<l2, handler, storing, answered, requests, leaked, cleared, restarts, now>>
    BY <1>1 DEF EvictExpired, EvictorDeletes, ClearL1
  <2>4. evictor' \in [pc : {"idle", "count", "delete"}, excess : Int]
    BY <1>1 DEF EvictExpired, EvictorDeletes, ClearL1, TypeOK
  <2> QED
    BY <2>2, <2>3, <2>4 DEF TypeOK, Carried, CarriedBy, L1HitIsAuthentic
<1>2. ASSUME EvictorCounts PROVE Stored'
  <2>1. Excess \in Int
    BY FS_Subset, FS_CardinalityType DEF Entries, Excess
  <2>2. evictor' \in [pc : {"idle", "count", "delete"}, excess : Int]
    BY <1>2, <2>1 DEF EvictorCounts
  <2> QED
    BY <1>2, <2>2 DEF EvictorCounts, TypeOK, Carried, CarriedBy, L1IsAuthentic, L1HitIsAuthentic
<1>3. ASSUME ClearL2 PROVE Stored'
  <2>1. cleared' \in SUBSET Number
    <3>1. \A g \in Handler : handler[g].pc = "fetch" => handler[g].n \in Number
      BY AtWork DEF Working
    <3> QED
      BY <1>3, <3>1 DEF ClearL2, TypeOK
  <2> QED
    BY <1>3, <2>1 DEF ClearL2, TypeOK, Carried, CarriedBy, L1IsAuthentic, L1HitIsAuthentic
<1>4. ASSUME Restart PROVE Stored'
  <2>1. Cardinality(InEviction) \in Nat
    BY FS_Subset, FS_CardinalityType DEF InEviction
  <2>2. /\ handler' = [h \in Handler |-> Free] /\ storing' = {}
        /\ leaked' \in Nat /\ restarts' \in 0 .. MaxRestarts
        /\ evictor' \in [pc : {"idle", "count", "delete"}, excess : Int]
        /\ UNCHANGED <<l1, l2, answered, requests, cleared, now>>
    BY <1>4, <2>1 DEF Restart, TypeOK
  <2>3. TypeOK'
    BY <2>2 DEF TypeOK
  <2>4. Carried'
    BY <2>2 DEF Carried, CarriedBy, Free
  <2> QED
    BY <2>2, <2>3, <2>4 DEF L1IsAuthentic, L1HitIsAuthentic
<1>5. ASSUME Tick PROVE Stored'
  <2>1. /\ now \in 0 .. MaxNow /\ now < MaxNow /\ now' = now + 1
        /\ UNCHANGED <<l1, l2, handler, storing, answered, requests, evictor, leaked, cleared, restarts>>
    BY <1>5 DEF Tick, TypeOK
  <2>2. TypeOK'
    BY <2>1 DEF TypeOK
  <2>3. Carried'
    <3> SUFFICES ASSUME NEW h \in Handler PROVE CarriedBy(handler[h])'
      BY DEF Carried
    <3>1. CarriedBy(handler[h])
      BY DEF Carried
    <3> QED
      BY <2>1, <3>1 DEF CarriedBy, Response
  <2> QED
    BY <2>1, <2>2, <2>3 DEF L1IsAuthentic, L1HitIsAuthentic
<1>6. CASE UNCHANGED vars
  BY <1>6 DEF vars, TypeOK, Carried, CarriedBy, L1IsAuthentic, L1HitIsAuthentic
<1> QED
  BY <1>1, <1>2, <1>3, <1>4, <1>5, <1>6 DEF Evictor

\* Every statement of every actor preserves the invariant.
LEMMA NextStored == Stored /\ [Next]_vars => Stored'
  BY RequestStored, SearchStored, FetchStored, ForwardStored, InsertStored,
     EvictStored, StoreStored, OtherStored DEF Next, Handle

\* The invariant holds in every reachable state.
LEMMA AlwaysStored == Spec => []Stored
  BY InitStored, NextStored, PTL DEF Spec

\* The variables keep their types, whatever handlers, goroutines, the evictor
\* and other processes do.
THEOREM TypeCorrect == Spec => []TypeOK
  BY AlwaysStored, PTL DEF Stored

\* A hit in L1 is a response to the same body, stored less than TTL before, in
\* any interleaving of stores, evictions and clears.
THEOREM L1HitsAreAuthentic == Spec => []L1HitIsAuthentic
  BY AlwaysStored, PTL DEF Stored

-----------------------------------------------------------------------------
(* Capacity.                                                               *)

\* Rows and evicting handlers are finite in number.
LEMMA Counts ==
    /\ IsFiniteSet(Entries) /\ Cardinality(Entries) \in Nat
    /\ IsFiniteSet(InEviction) /\ Cardinality(InEviction) \in Nat
  BY FS_Subset, FS_CardinalityType DEF Entries, InEviction

\* The same in the next state.
LEMMA CountsNext ==
    /\ IsFiniteSet(Entries') /\ Cardinality(Entries') \in Nat
    /\ IsFiniteSet(InEviction') /\ Cardinality(InEviction') \in Nat
  BY FS_Subset, FS_CardinalityType DEF Entries, InEviction

\* Fewer rows and as many evicting handlers: the account still holds.
LEMMA FewerRows ==
    ASSUME CapacityIsAccountedFor, TypeOK, Entries' \subseteq Entries,
           InEviction' = InEviction, leaked' = leaked
    PROVE  CapacityIsAccountedFor'
<1>1. Cardinality(Entries') <= Cardinality(Entries)
  BY Counts, FS_Subset
<1> QED
  BY <1>1, Counts, CountsNext DEF CapacityIsAccountedFor, TypeOK

\* A handler that leaves the eviction.
LEMMA LeavesEviction ==
    ASSUME TypeOK, NEW h \in InEviction, SetReturns(h)
    PROVE  Cardinality(InEviction') = Cardinality(InEviction) - 1
<1>1. InEviction' = InEviction \ {h}
  BY DEF InEviction, SetReturns, TypeOK, Free
<1> QED
  BY <1>1, Counts, FS_RemoveElement

\* An insert adds at most one row, and its handler starts to evict.
LEMMA InsertAccounted ==
    ASSUME CapacityIsAccountedFor, TypeOK, NEW h \in Handler, InsertL1(h)
    PROVE  CapacityIsAccountedFor'
<1>1. Entries' \subseteq Entries \cup {handler[h].body}
  BY DEF InsertL1, Entries, TypeOK
<1>2. Cardinality(Entries') <= Cardinality(Entries) + 1
  <2>1. /\ IsFiniteSet(Entries \cup {handler[h].body})
        /\ Cardinality(Entries \cup {handler[h].body}) <= Cardinality(Entries) + 1
    <3>1. /\ IsFiniteSet(Entries \cup {handler[h].body})
          /\ Cardinality(Entries \cup {handler[h].body})
               = IF handler[h].body \in Entries THEN Cardinality(Entries)
                                              ELSE Cardinality(Entries) + 1
      BY Counts, FS_AddElement, ZenonT(30)
    <3> QED
      BY <3>1, Counts
  <2>2. Cardinality(Entries') <= Cardinality(Entries \cup {handler[h].body})
    BY <1>1, <2>1, FS_Subset
  <2>3. Cardinality(Entries \cup {handler[h].body}) \in Nat
    BY <2>1, FS_CardinalityType
  <2> QED
    BY <2>1, <2>2, <2>3, Counts, CountsNext
<1>3. InEviction' = InEviction \cup {h} /\ h \notin InEviction
  <2>1. handler[h] \in Working
    BY AtWork DEF InsertL1
  <2>2. /\ handler'[h].pc = "count"
        /\ \A g \in Handler \ {h} : handler'[g] = handler[g]
    BY <2>1 DEF InsertL1, TypeOK, Working
  <2> QED
    BY <2>2 DEF InEviction, InsertL1
<1>4. Cardinality(InEviction') = Cardinality(InEviction) + 1
  BY <1>3, Counts, FS_AddElement
<1>5. leaked' = leaked
  BY DEF InsertL1
<1> QED
  BY <1>2, <1>4, <1>5, Counts, CountsNext DEF CapacityIsAccountedFor, TypeOK

\* A delete of at least one row, or of all, makes up for its handler leaving.
LEMMA EvictAccounted ==
    ASSUME CapacityIsAccountedFor, Stored, NEW h \in Handler, EvictL1(h)
    PROVE  CapacityIsAccountedFor'
<1> USE DEF Stored
<1>1. /\ h \in InEviction /\ SetReturns(h) /\ leaked' = leaked
      /\ handler[h].excess > 0 /\ handler[h].excess \in Int
  BY AtWork DEF EvictL1, InEviction, Carried, CarriedBy, Working
<1>2. Cardinality(InEviction') = Cardinality(InEviction) - 1
  BY <1>1, LeavesEviction
<1>3. PICK S \in SUBSET Entries :
        /\ Oldest(S, handler[h].excess)
        /\ l1' = [b \in Body |-> IF b \in S THEN None ELSE l1[b]]
  BY DEF EvictL1, DeleteOldest
<1>4. Entries' = Entries \ S
  BY <1>3 DEF Entries
<1>5. Cardinality(Entries') = Cardinality(Entries) - Cardinality(S)
  <2>1. Entries \cap S = S
    OBVIOUS
  <2> QED
    BY <1>4, <2>1, Counts, FS_Difference
<1>6. Cardinality(S) = Cardinality(Entries) \/ Cardinality(S) >= 1
  BY <1>1, <1>3, Counts DEF Oldest
<1>7. Cardinality(S) \in Nat
  BY Counts, FS_Subset, FS_CardinalityType
<1>8. MaxEntries \in Nat /\ leaked \in Nat
  BY DEF TypeOK
<1> QED
  BY <1>1, <1>2, <1>5, <1>6, <1>7, <1>8, Counts, CountsNext DEF CapacityIsAccountedFor

\* The account of rows above the capacity holds for any number of handlers,
\* whatever they, the evictor and other processes do in between.
THEOREM CapacityIsAlwaysAccountedFor == Spec => []CapacityIsAccountedFor
<1>1. Init => CapacityIsAccountedFor
  <2> SUFFICES ASSUME Init PROVE CapacityIsAccountedFor
    OBVIOUS
  <2>1. Entries = {} /\ leaked = 0
    BY DEF Init, Entries
  <2>2. Cardinality(Entries) = 0
    BY <2>1, FS_EmptySet
  <2> QED
    BY <2>1, <2>2, Counts DEF CapacityIsAccountedFor
<1>2. Stored /\ CapacityIsAccountedFor /\ [Next]_vars => CapacityIsAccountedFor'
  <2> SUFFICES ASSUME Stored, CapacityIsAccountedFor, [Next]_vars
               PROVE  CapacityIsAccountedFor'
    OBVIOUS
  <2> USE DEF Stored
  <2>1. ASSUME NEW h \in Handler,
               \/ \E b \in Body : Request(h, b)
               \/ KnnSearch(h) \/ KnnFails(h) \/ FetchRow(h)
               \/ Forward(h) \/ NothingToStore(h)
        PROVE  CapacityIsAccountedFor'
    <3>1. Entries' \subseteq Entries
      BY <2>1 DEF Request, KnnSearch, KnnFails, FetchRow, Forward, NothingToStore,
         Entries, TypeOK
    <3>2. /\ handler[h].pc \notin {"count", "delete"}
          /\ handler'[h].pc \notin {"count", "delete"}
          /\ \A g \in Handler \ {h} : handler'[g] = handler[g]
      <4>1. CASE \E b \in Body : Request(h, b)
        BY <4>1 DEF Request, TypeOK, Free, Begun
      <4>2. CASE KnnSearch(h)
        BY <4>2, AtWork DEF KnnSearch, TypeOK, Working
      <4>3. CASE KnnFails(h)
        BY <4>3, AtWork DEF KnnFails, TypeOK, Working
      <4>4. CASE FetchRow(h)
        BY <4>4, AtWork DEF FetchRow, TypeOK, Working, Free
      <4>5. CASE Forward(h)
        BY <4>5, AtWork DEF Forward, TypeOK, Working
      <4>6. CASE NothingToStore(h)
        BY <4>6 DEF NothingToStore, TypeOK, Free
      <4> QED
        BY <2>1, <4>1, <4>2, <4>3, <4>4, <4>5, <4>6
    <3>3. InEviction' = InEviction
      BY <3>2 DEF InEviction
    <3>4. leaked' = leaked
      BY <2>1 DEF Request, KnnSearch, KnnFails, FetchRow, Forward, NothingToStore
    <3> QED
      BY <3>1, <3>3, <3>4, FewerRows
  <2>2. ASSUME NEW h \in Handler, CountL1(h) PROVE CapacityIsAccountedFor'
    <3>1. h \in InEviction /\ UNCHANGED <<l1, leaked>> /\ Entries' = Entries
      BY <2>2 DEF CountL1, InEviction, Entries
    <3>2. CASE Excess <= 0 /\ SetReturns(h)
      <4>1. Cardinality(InEviction') = Cardinality(InEviction) - 1
        BY <3>1, <3>2, LeavesEviction
      <4> QED
        BY <3>1, <3>2, <4>1, Counts, CountsNext DEF Excess, CapacityIsAccountedFor, TypeOK
    <3>3. CASE handler' = [handler EXCEPT ![h].pc = "delete", ![h].excess = Excess]
      <4>1. handler'[h].pc = "delete" /\ \A g \in Handler \ {h} : handler'[g] = handler[g]
        BY <2>2, <3>3, AtWork DEF CountL1, TypeOK, Working
      <4>2. InEviction' = InEviction
        BY <3>1, <4>1 DEF InEviction
      <4> QED
        BY <3>1, <4>2, FewerRows
    <3> QED
      BY <2>2, <3>2, <3>3 DEF CountL1
  <2>3. ASSUME NEW h \in Handler, Disconnect(h) PROVE CapacityIsAccountedFor'
    <3>1. Entries' = Entries /\ SetReturns(h)
      BY <2>3 DEF Disconnect, Entries
    <3>2. CASE handler[h].pc = "insert"
      <4>1. InEviction' = InEviction /\ leaked' = leaked
        BY <2>3, <3>1, <3>2 DEF Disconnect, SetReturns, InEviction, TypeOK, Free
      <4> QED
        BY <3>1, <4>1, FewerRows
    <3>3. CASE handler[h].pc # "insert"
      <4>1. h \in InEviction /\ leaked' = leaked + 1
        BY <2>3, <3>3 DEF Disconnect, InEviction
      <4>2. Cardinality(InEviction') = Cardinality(InEviction) - 1
        BY <3>1, <4>1, LeavesEviction
      <4> QED
        BY <3>1, <4>1, <4>2, Counts, CountsNext DEF CapacityIsAccountedFor, TypeOK
    <3> QED
      BY <3>2, <3>3
  <2>4. CASE Restart
    <3>1. InEviction' = {} /\ Entries' = Entries
          /\ leaked' = leaked + Cardinality(InEviction)
      BY <2>4 DEF Restart, InEviction, Entries, Free
    <3>2. Cardinality(InEviction') = 0
      BY <3>1, FS_EmptySet
    <3> QED
      BY <3>1, <3>2, Counts, CountsNext DEF CapacityIsAccountedFor, TypeOK
  <2>5. CASE \/ \E s \in storing : StoreL2(s) \/ StoreL2Fails(s)
             \/ Evictor \/ ClearL1 \/ ClearL2 \/ Tick \/ UNCHANGED vars
    <3>1. InEviction' = InEviction /\ leaked' = leaked
      BY <2>5 DEF StoreL2, StoreL2Fails, Evictor, EvictExpired, EvictorCounts,
         EvictorDeletes, ClearL1, ClearL2, Tick, vars, InEviction
    <3>2. Entries' \subseteq Entries
      BY <2>5 DEF StoreL2, StoreL2Fails, Evictor, EvictExpired, EvictorCounts,
         EvictorDeletes, DeleteOldest, ClearL1, ClearL2, Tick, vars, Entries, TypeOK
    <3> QED
      BY <3>1, <3>2, FewerRows
  <2> QED
    BY <2>1, <2>2, <2>3, <2>4, <2>5, InsertAccounted, EvictAccounted DEF Next, Handle
<1> QED
  BY <1>1, <1>2, AlwaysStored, PTL DEF Spec

-----------------------------------------------------------------------------
(* Semantic hits.                                                          *)

\* The rows of L2 and those on the way to it hold the response of their own
\* body.  A handler between its two statements holds a row that is there and
\* near enough, unless L2 was cleared in between: a rowid that is taken is
\* never given to another row.
RowsAreOwn ==
    /\ \A r \in Number : l2[r] # None => l2[r].resp.body = l2[r].body
    /\ \A s \in storing : s.row.resp.body = s.row.body
NearBy(w) ==
    w.pc = "fetch" /\ w.n \notin cleared =>
        /\ l2[w.row] # None
        /\ Distance[w.body][l2[w.row].body] <= Threshold
FoundIsNear == \A h \in Handler : NearBy(handler[h])
Similar == RowsAreOwn /\ FoundIsNear /\ L2HitIsSimilar

\* A handler that goes on to w leaves the others where they are.
LEMMA MoveNear ==
    ASSUME Stored, FoundIsNear, NEW h \in Handler, NEW w,
           handler' = [handler EXCEPT ![h] = w], NearBy(w), UNCHANGED <<l2, cleared>>
    PROVE  FoundIsNear'
<1>1. ASSUME NEW g \in Handler PROVE NearBy(handler'[g])
  BY <1>1 DEF Stored, TypeOK, FoundIsNear
<1> QED
  BY <1>1 DEF FoundIsNear, NearBy

\* A handler that is done puts its own response on the way to L2.
LEMMA ReturnSimilar ==
    ASSUME Stored, Similar, NEW h \in Handler, SetReturns(h),
           handler[h].pc \in {"insert", "count", "delete"}, UNCHANGED <<l2, cleared, answered>>
    PROVE  Similar'
<1>1. handler[h].resp.body = handler[h].body
  BY DEF Stored, Carried, CarriedBy
<1>2. RowsAreOwn'
  BY <1>1 DEF Similar, RowsAreOwn, SetReturns
<1>3. FoundIsNear'
  <2>1. NearBy(Free)
    BY DEF NearBy, Free
  <2> QED BY <2>1, MoveNear DEF Similar, SetReturns
<1> QED
  BY <1>2, <1>3 DEF Similar, L2HitIsSimilar

\* A handler that goes on to a stage other than the fetch, and nothing else of
\* L2.
LEMMA OtherSimilar ==
    ASSUME Stored, Similar, NEW h \in Handler, NEW w, handler' = [handler EXCEPT ![h] = w],
           w.pc # "fetch", UNCHANGED <<l2, cleared, storing, answered>>
    PROVE  Similar'
<1>1. FoundIsNear'
  BY MoveNear DEF Similar, NearBy
<1> QED
  BY <1>1 DEF Similar, RowsAreOwn, L2HitIsSimilar

\* The handlers keep Similar.
LEMMA HandleSimilar ==
    ASSUME Stored, Similar, NEW h \in Handler, Handle(h)
    PROVE  Similar'
<1>0. handler = [g \in Handler |-> handler[g]]
  BY DEF Stored, TypeOK
<1>1. ASSUME KnnSearch(h) PROVE Similar'
  <2>1. handler[h] \in Working
    BY <1>1, AtWork DEF KnnSearch, Stored
  <2>2. CASE handler' = [handler EXCEPT ![h].pc = "forward"]
    <3> DEFINE w == [handler[h] EXCEPT !.pc = "forward"]
    <3>1. w.pc # "fetch" /\ handler' = [handler EXCEPT ![h] = w]
      BY <1>0, <2>1, <2>2 DEF Working
    <3> HIDE DEF w
    <3> QED BY <1>1, <3>1, OtherSimilar DEF KnnSearch
  <2>3. ASSUME NEW r \in Rows, DistanceTo(handler[h].body, r) <= Threshold,
               handler' = [handler EXCEPT ![h].pc = "fetch", ![h].row = r]
        PROVE  Similar'
    <3> DEFINE w == [handler[h] EXCEPT !.pc = "fetch", !.row = r]
    <3>1. w.row = r /\ w.body = handler[h].body /\ handler' = [handler EXCEPT ![h] = w]
      BY <1>0, <2>1, <2>3 DEF Working
    <3>2. l2[r] # None /\ Distance[handler[h].body][l2[r].body] <= Threshold
      BY <2>3 DEF Rows, DistanceTo
    <3> HIDE DEF w
    <3>3. NearBy(w)
      BY <3>1, <3>2 DEF NearBy
    <3>4. UNCHANGED <<l2, cleared, storing, answered>>
      BY <1>1 DEF KnnSearch
    <3>5. FoundIsNear'
      BY <3>1, <3>3, <3>4, MoveNear DEF Similar
    <3> QED BY <3>4, <3>5 DEF Similar, RowsAreOwn, L2HitIsSimilar
  <2>4. \/ handler' = [handler EXCEPT ![h].pc = "forward"]
        \/ \E r \in Rows : /\ DistanceTo(handler[h].body, r) <= Threshold
                           /\ handler' = [handler EXCEPT ![h].pc = "fetch", ![h].row = r]
    BY <1>1 DEF KnnSearch, Match
  <2> QED BY <2>2, <2>3, <2>4
<1>2. ASSUME KnnFails(h) \/ Forward(h) \/ InsertL1(h) PROVE Similar'
  <2>1. handler[h] \in Working
    BY <1>2, AtWork DEF KnnFails, Forward, InsertL1, Stored
  <2>2. \E pc \in {"forward", "insert", "count"} : \E resp :
            handler' = [handler EXCEPT ![h] = [handler[h] EXCEPT !.pc = pc, !.resp = resp]]
    <3>1. handler[h] = [handler[h] EXCEPT !.resp = handler[h].resp]
      BY <2>1 DEF Working
    <3>2. CASE KnnFails(h)
      <4>1. handler' = [handler EXCEPT ![h] = [handler[h] EXCEPT !.pc = "forward",
                                                                 !.resp = handler[h].resp]]
        BY <1>0, <2>1, <3>2 DEF KnnFails, Working
      <4> QED BY <4>1
    <3>3. CASE Forward(h)
      <4>1. handler' = [handler EXCEPT ![h] =
                [handler[h] EXCEPT !.pc = "insert",
                                   !.resp = [body |-> handler[h].body, at |-> now]]]
        BY <1>0, <2>1, <3>3 DEF Forward, Working
      <4> QED BY <4>1
    <3>4. CASE InsertL1(h)
      <4>1. handler' = [handler EXCEPT ![h] = [handler[h] EXCEPT !.pc = "count",
                                                                 !.resp = handler[h].resp]]
        BY <1>0, <2>1, <3>4 DEF InsertL1, Working
      <4> QED BY <4>1
    <3> QED BY <1>2, <3>2, <3>3, <3>4
  <2>3. PICK pc \in {"forward", "insert", "count"} : \E resp :
            handler' = [handler EXCEPT ![h] = [handler[h] EXCEPT !.pc = pc, !.resp = resp]]
    BY <2>2
  <2>4. PICK resp :
            handler' = [handler EXCEPT ![h] = [handler[h] EXCEPT !.pc = pc, !.resp = resp]]
    BY <2>3
  <2> DEFINE w == [handler[h] EXCEPT !.pc = pc, !.resp = resp]
  <2>5. w.pc # "fetch"
    BY <2>1 DEF Working
  <2> HIDE DEF w
  <2> QED BY <1>2, <2>4, <2>5, OtherSimilar DEF KnnFails, Forward, InsertL1, w
<1>3. ASSUME FetchRow(h) PROVE Similar'
  <2> DEFINE row == l2[handler[h].row]
  <2>1. handler[h] \in Working /\ handler[h].row \in Number
    BY <1>3, AtWork DEF FetchRow, Stored, Carried, CarriedBy
  <2>2. CASE row = None
    <3> DEFINE w == [handler[h] EXCEPT !.pc = "forward"]
    <3>1. w.pc # "fetch" /\ handler' = [handler EXCEPT ![h] = w]
      BY <1>0, <1>3, <2>1, <2>2 DEF FetchRow, Working
    <3> HIDE DEF w
    <3> QED BY <1>3, <2>2, <3>1, OtherSimilar DEF FetchRow
  <2>3. CASE row # None
    <3>1. /\ Answer(handler[h].n, handler[h].body, "L2", row)
          /\ handler' = [handler EXCEPT ![h] = Free] /\ UNCHANGED <<l2, cleared, storing>>
      BY <1>3, <2>3 DEF FetchRow
    <3>2. FoundIsNear'
      <4>1. NearBy(Free)
        BY DEF NearBy, Free
      <4> QED BY <3>1, <4>1, MoveNear DEF Similar
    <3>3. handler[h].n \in Number /\ handler[h].n \notin cleared
            => Distance[handler[h].body][row.resp.body] <= Threshold
      BY <1>3, <2>1, <2>3 DEF FetchRow, Similar, FoundIsNear, NearBy, RowsAreOwn
    <3>4. L2HitIsSimilar'
      <4> SUFFICES ASSUME NEW n \in Number \ cleared, answered'[n] # None,
                          answered'[n].level = "L2"
                   PROVE  Distance[answered'[n].body][answered'[n].resp.body] <= Threshold
        BY <3>1 DEF L2HitIsSimilar
      <4>1. CASE n = handler[h].n
        <5>1. answered'[n].body = handler[h].body /\ answered'[n].resp = row.resp
          BY <3>1, <4>1 DEF Answer, Stored, TypeOK
        <5> QED BY <3>3, <4>1, <5>1
      <4>2. CASE n # handler[h].n
        <5>1. answered'[n] = answered[n]
          BY <3>1, <4>2 DEF Answer, Stored, TypeOK
        <5> QED BY <5>1 DEF Similar, L2HitIsSimilar
      <4> QED BY <4>1, <4>2
    <3> QED BY <3>1, <3>2, <3>4 DEF Similar, RowsAreOwn
  <2> QED BY <2>2, <2>3
<1>4. ASSUME NothingToStore(h) PROVE Similar'
  <2>1. Free.pc # "fetch"
    BY DEF Free
  <2> QED BY <1>4, <2>1, OtherSimilar DEF NothingToStore
<1>5. ASSUME CountL1(h) PROVE Similar'
  <2>1. handler[h] \in Working
    BY <1>5, AtWork DEF CountL1, Stored
  <2>2. CASE Excess <= 0
    BY <1>5, <2>2, ReturnSimilar DEF CountL1
  <2>3. CASE ~ (Excess <= 0)
    <3> DEFINE e == Excess
               w == [handler[h] EXCEPT !.pc = "delete", !.excess = e]
    <3> HIDE DEF e
    <3>1. w.pc # "fetch" /\ handler' = [handler EXCEPT ![h] = w]
      BY <1>0, <1>5, <2>1, <2>3 DEF CountL1, Working, e
    <3> HIDE DEF w
    <3> QED BY <1>5, <2>3, <3>1, OtherSimilar DEF CountL1
  <2> QED BY <2>2, <2>3
<1>6. ASSUME EvictL1(h) \/ Disconnect(h) PROVE Similar'
  BY <1>6, ReturnSimilar DEF EvictL1, Disconnect
<1> QED
  BY <1>1, <1>2, <1>3, <1>4, <1>5, <1>6 DEF Handle

\* A row stored in L2 is a new one.
LEMMA StoreSimilar ==
    ASSUME Stored, Similar, NEW s \in storing, StoreL2(s)
    PROVE  Similar'
<1>1. PICK r \in Number : NewRowid(r) /\ l2' = [l2 EXCEPT ![r] = [s.row EXCEPT !.created = now]]
  BY DEF StoreL2
<1> DEFINE row == [s.row EXCEPT !.created = now]
<1>2. /\ UNCHANGED <<handler, cleared, answered>> /\ storing' \subseteq storing
      /\ s.row \in SemanticRow
  BY DEF StoreL2, Stored, TypeOK
<1>3. row.resp = s.row.resp /\ row.body = s.row.body
  BY <1>2 DEF SemanticRow
<1>4. \A q \in Number : l2'[q] = IF q = r THEN row ELSE l2[q]
  BY <1>1 DEF Stored, TypeOK
<1> HIDE DEF row
<1>5. RowsAreOwn'
  BY <1>2, <1>3, <1>4 DEF Similar, RowsAreOwn
<1>6. l2[r] = None
  BY <1>1 DEF NewRowid, Rows
<1>7. FoundIsNear'
  <2> SUFFICES ASSUME NEW h \in Handler PROVE NearBy(handler[h])'
    BY <1>2 DEF FoundIsNear
  <2>1. handler[h].pc = "fetch" => handler[h].row \in Number
    BY DEF Stored, Carried, CarriedBy
  <2> QED BY <1>2, <1>4, <1>6, <2>1 DEF Similar, FoundIsNear, NearBy
<1> QED
  BY <1>2, <1>5, <1>7 DEF Similar, L2HitIsSimilar

\* Every step keeps Similar.
LEMMA NextSimilar == Stored /\ Similar /\ [Next]_vars => Similar'
<1> SUFFICES ASSUME Stored, Similar, [Next]_vars PROVE Similar'
  OBVIOUS
<1>1. ASSUME NEW h \in Handler, NEW b \in Body, Request(h, b) PROVE Similar'
  <2>1. UNCHANGED <<l2, storing, cleared>>
    BY <1>1 DEF Request
  <2>2. FoundIsNear'
    <3>1. NearBy(Begun(requests + 1, b))
      BY DEF NearBy, Begun
    <3>2. handler' = handler \/ handler' = [handler EXCEPT ![h] = Begun(requests + 1, b)]
      BY <1>1 DEF Request
    <3>3. CASE handler' = handler
      BY <2>1, <3>3 DEF Similar, FoundIsNear, NearBy
    <3>4. CASE handler' = [handler EXCEPT ![h] = Begun(requests + 1, b)]
      BY <2>1, <3>1, <3>4, MoveNear DEF Similar
    <3> QED BY <3>2, <3>3, <3>4
  <2>3. L2HitIsSimilar'
    <3> SUFFICES ASSUME NEW n \in Number \ cleared, answered'[n] # None,
                        answered'[n].level = "L2"
                 PROVE  answered'[n] = answered[n]
      BY <2>1 DEF Similar, L2HitIsSimilar
    <3>1. answered' = answered \/ Answer(requests + 1, b, "L1", l1[b])
      BY <1>1 DEF Request
    <3> QED BY <3>1 DEF Answer, Stored, TypeOK
  <2> QED BY <2>1, <2>2, <2>3 DEF Similar, RowsAreOwn
<1>2. ASSUME NEW s \in storing, StoreL2Fails(s) PROVE Similar'
  BY <1>2 DEF StoreL2Fails, Similar, RowsAreOwn, FoundIsNear, NearBy, L2HitIsSimilar
<1>3. ASSUME Evictor \/ ClearL1 \/ Tick \/ UNCHANGED vars PROVE Similar'
  <2>1. UNCHANGED <<l2, storing, cleared, answered, handler>>
    BY <1>3 DEF Evictor, EvictExpired, EvictorCounts, EvictorDeletes, ClearL1, Tick, vars
  <2> QED BY <2>1 DEF Similar, RowsAreOwn, FoundIsNear, NearBy, L2HitIsSimilar
<1>4. ASSUME ClearL2 PROVE Similar'
  <2>1. /\ l2' = [r \in Number |-> None] /\ cleared \subseteq cleared'
        /\ UNCHANGED <<storing, answered, handler>>
        /\ \A h \in Handler : handler[h].pc = "fetch" => handler[h].n \in cleared'
    BY <1>4 DEF ClearL2
  <2> QED BY <2>1 DEF Similar, RowsAreOwn, FoundIsNear, NearBy, L2HitIsSimilar
<1>5. ASSUME Restart PROVE Similar'
  <2>1. /\ handler' = [h \in Handler |-> Free] /\ storing' = {} /\ Free.pc # "fetch"
        /\ UNCHANGED <<l2, cleared, answered>>
    BY <1>5 DEF Restart, Free
  <2> QED BY <2>1 DEF Similar, RowsAreOwn, FoundIsNear, NearBy, L2HitIsSimilar
<1> QED
  BY <1>1, <1>2, <1>3, <1>4, <1>5, HandleSimilar, StoreSimilar DEF Next

\* A semantic hit is the response of a body within the threshold of the one
\* asked for, unless L2 was cleared between search and fetch
\* (semantic.go:63-124): for any handlers, bodies, distances and capacities.
THEOREM L2HitsAreSimilar == Spec => []L2HitIsSimilar
<1>1. Init => Similar
  BY DEF Init, Similar, RowsAreOwn, FoundIsNear, NearBy, L2HitIsSimilar, Free
<1>2. Similar => L2HitIsSimilar
  BY DEF Similar
<1> QED
  BY <1>1, <1>2, InitStored, NextStored, NextSimilar, PTL DEF Spec

=============================================================================
