---------------------------- MODULE ResponseCache ----------------------------
(***************************************************************************)
(* The two-level response cache of the Go proxy (go/internal/cache) and    *)
(* the request handler around it (go/internal/proxy/handler.go).  Handlers *)
(* run concurrently and share one SQLite file; every SQL statement is a    *)
(* step, so a lookup of L2 (nearest rows, then the row) and an eviction of *)
(* L1 (count, then delete) are two steps each.  The store into L2 is a     *)
(* goroutine that nobody waits for; the hourly eviction and the command    *)
(* "ctxlite cache clear" of another process interleave with all of it.     *)
(* hit_count is written but never read, and is left out; so are the host   *)
(* and the path of a request, which are not part of the key.               *)
(***************************************************************************)
EXTENDS Integers, FiniteSets

CONSTANTS Handler,      \* concurrent requests
          Body,         \* request bodies, up to the whitespace around them
          Distance,     \* Distance[b][c]: how far apart the embeddings are
          Threshold,    \* the largest distance of a semantic hit
          K,            \* rows the vector search returns, 5 in the code
          MaxEntries,   \* the capacity of L1
          TTL,          \* life of an entry
          L2Enabled,    \* an embedding provider is configured
          Clears,       \* whether somebody runs "ctxlite cache clear"
          MaxRequests,  \* bound: requests in a behaviour
          MaxRestarts,  \* bound: ends and restarts of the proxy
          MaxNow,       \* bound: the clock
          None

ASSUME CacheAssumption ==
    /\ Distance \in [Body -> [Body -> Nat]]
    /\ \A b \in Body : Distance[b][b] = 0
    /\ Threshold \in Nat /\ K \in Nat \ {0} /\ TTL \in Nat \ {0}
    /\ MaxEntries \in Nat \ {0}
    /\ MaxRequests \in Nat /\ MaxRestarts \in Nat /\ MaxNow \in Nat
    /\ L2Enabled \in BOOLEAN /\ Clears \in BOOLEAN
    /\ IsFiniteSet(Handler) /\ IsFiniteSet(Body)

VARIABLES
    l1,        \* l1[b]: the row of cache_exact with the hash of b, or None
    l2,        \* l2[r]: the row of cache_semantic_* with rowid r, or None
    handler,   \* handler[h]: where the request stands
    storing,   \* responses whose goroutine has not stored them in L2 yet
    answered,  \* answered[n]: what request n asked and which response it got
    requests,  \* requests so far; request n's own response is response n
    evictor,   \* the eviction goroutine between two statements
    leaked,    \* evictions that were cut off, by the client or by a restart
    cleared,   \* requests whose row of L2 was cleared away before its fetch
    restarts,  \* restarts of the proxy so far
    now

vars == <<l1, l2, handler, storing, answered, requests, evictor, leaked, cleared, restarts, now>>

Number == 1 .. MaxRequests
Response == [body : Body, at : 0 .. MaxNow]   \* where it came from
Entry == [resp : Response, created : 0 .. MaxNow]
SemanticRow == [body : Body, resp : Response, created : 0 .. MaxNow]
Working == [pc : {"knn", "fetch", "forward", "insert", "count", "delete"},
            n : Number, body : Body, row : 0 .. MaxRequests,
            excess : Int, resp : Response \cup {None}]
Begun(n, b) == [pc |-> IF L2Enabled THEN "knn" ELSE "forward",
                   n |-> n, body |-> b, row |-> 0, excess |-> 0, resp |-> None]
Free == [pc |-> "idle", n |-> 0, body |-> None, row |-> 0,
         excess |-> 0, resp |-> None]

TypeOK ==
    /\ l1 \in [Body -> Entry \cup {None}]
    /\ l2 \in [Number -> SemanticRow \cup {None}]
    /\ handler \in [Handler -> Working \cup {Free}]
    /\ storing \in SUBSET [n : Number, row : SemanticRow]
    /\ answered \in [Number -> [body : Body, level : {"L1", "L2"},
                                resp : Response, stored : 0 .. MaxNow,
                                at : 0 .. MaxNow] \cup {None}]
    /\ requests \in 0 .. MaxRequests
    /\ evictor \in [pc : {"idle", "count", "delete"}, excess : Int]
    /\ leaked \in Nat
    /\ cleared \in SUBSET Number
    /\ restarts \in 0 .. MaxRestarts
    /\ now \in 0 .. MaxNow

Init ==
    /\ l1 = [b \in Body |-> None]
    /\ l2 = [r \in Number |-> None]
    /\ handler = [h \in Handler |-> Free]
    /\ storing = {}
    /\ answered = [n \in Number |-> None]
    /\ requests = 0
    /\ evictor = [pc |-> "idle", excess |-> 0]
    /\ leaked = 0
    /\ cleared = {}
    /\ restarts = 0
    /\ now = 0

Entries == {b \in Body : l1[b] # None}
Rows == {r \in Number : l2[r] # None}
\* Mutant of Fresh: expires_at >= now.
FreshTooLong(created) == created + TTL >= now
Fresh(created) == created + TTL > now

\* The handler of request n writes the response of a row of the cache.
Answer(n, b, level, row) ==
    answered' = [answered EXCEPT ![n] =
                   [body |-> b, level |-> level, resp |-> row.resp,
                    stored |-> row.created, at |-> now]]

-----------------------------------------------------------------------------
(* Cache.Get.                                                              *)

\* The L1 lookup of a new request: only a row that has not expired is a hit.
Request(h, b) ==
    /\ handler[h] = Free
    /\ requests < MaxRequests
    /\ requests' = requests + 1
    /\ IF l1[b] # None /\ Fresh(l1[b].created)
       THEN /\ Answer(requests + 1, b, "L1", l1[b])
            /\ UNCHANGED handler
       ELSE /\ handler' = [handler EXCEPT ![h] = Begun(requests + 1, b)]
            /\ UNCHANGED answered
    /\ UNCHANGED <<l1, l2, storing, evictor, leaked, cleared, restarts, now>>

\* The K rows nearest to body b, expired ones included.
DistanceTo(b, r) == Distance[b][l2[r].body]
Nearest(b, N) ==
    /\ N \subseteq Rows
    /\ Cardinality(N) = IF Cardinality(Rows) < K THEN Cardinality(Rows) ELSE K
    /\ \A r \in N, q \in Rows \ N : DistanceTo(b, r) <= DistanceTo(b, q)

\* Mutant of Match: the best row is taken at any distance.
MatchAny(b, N, r) ==
    /\ r \in N /\ Fresh(l2[r].created)
    /\ \A q \in N : Fresh(l2[q].created) => DistanceTo(b, r) <= DistanceTo(b, q)

\* The best of them that has not expired, which must lie within the threshold.
Match(b, N, r) ==
    /\ r \in N /\ Fresh(l2[r].created)
    /\ \A q \in N : Fresh(l2[q].created) => DistanceTo(b, r) <= DistanceTo(b, q)
    /\ DistanceTo(b, r) <= Threshold

KnnSearch(h) ==
    /\ handler[h].pc = "knn"
    /\ \E N \in SUBSET Rows :
         /\ Nearest(handler[h].body, N)
         /\ \/ \E r \in N :
                 /\ Match(handler[h].body, N, r)
                 /\ handler' = [handler EXCEPT ![h].pc = "fetch", ![h].row = r]
            \/ /\ \A r \in N : ~ Match(handler[h].body, N, r)
               /\ handler' = [handler EXCEPT ![h].pc = "forward"]
    /\ UNCHANGED <<l1, l2, storing, answered, requests, evictor, leaked, cleared, restarts, now>>

\* The provider of embeddings, or a statement, fails: a miss.
KnnFails(h) ==
    /\ handler[h].pc = "knn"
    /\ handler' = [handler EXCEPT ![h].pc = "forward"]
    /\ UNCHANGED <<l1, l2, storing, answered, requests, evictor, leaked, cleared, restarts, now>>

\* SELECT entry WHERE rowid = r: a miss if the row has gone.
FetchRow(h) ==
    /\ handler[h].pc = "fetch"
    /\ LET row == l2[handler[h].row] IN
         IF row = None
         THEN /\ handler' = [handler EXCEPT ![h].pc = "forward"]
              /\ UNCHANGED answered
         ELSE /\ Answer(handler[h].n, handler[h].body, "L2", row)
              /\ handler' = [handler EXCEPT ![h] = Free]
    /\ UNCHANGED <<l1, l2, storing, requests, evictor, leaked, cleared, restarts, now>>

-----------------------------------------------------------------------------
(* The upstream and Cache.Set.                                             *)

\* A complete response, of any status, will be stored.
Forward(h) ==
    /\ handler[h].pc = "forward"
    /\ handler' = [handler EXCEPT
                     ![h].pc = "insert",
                     ![h].resp = [body |-> handler[h].body, at |-> now]]
    /\ UNCHANGED <<l1, l2, storing, answered, requests, evictor, leaked, cleared, restarts, now>>

\* The upstream fails, streams its response, or the client has gone away.
NothingToStore(h) ==
    /\ handler[h].pc = "forward"
    /\ handler' = [handler EXCEPT ![h] = Free]
    /\ UNCHANGED <<l1, l2, storing, answered, requests, evictor, leaked, cleared, restarts, now>>

\* The upsert of ExactCache.Set.
InsertL1(h) ==
    /\ handler[h].pc = "insert"
    /\ l1' = [l1 EXCEPT ![handler[h].body] =
                [resp |-> handler[h].resp, created |-> now]]
    /\ handler' = [handler EXCEPT ![h].pc = "count"]
    /\ UNCHANGED <<l2, storing, answered, requests, evictor, leaked, cleared, restarts, now>>

\* ExactCache.Set has returned, with or without an error: the goroutine for L2
\* is started and the handler is done.
SetReturns(h) ==
    /\ handler' = [handler EXCEPT ![h] = Free]
    /\ storing' = IF L2Enabled
                  THEN storing \cup
                         {[n |-> handler[h].n,
                           row |-> [body |-> handler[h].body, resp |-> handler[h].resp,
                                    created |-> now]]}
                  ELSE storing

\* Mutant of Excess: off by one.
ExcessButOne == Cardinality(Entries) - MaxEntries - 1

\* LRUEvict, first statement: SELECT COUNT(*).
Excess == Cardinality(Entries) - MaxEntries

CountL1(h) ==
    /\ handler[h].pc = "count"
    /\ IF Excess <= 0
       THEN SetReturns(h)
       ELSE /\ handler' = [handler EXCEPT ![h].pc = "delete", ![h].excess = Excess]
            /\ UNCHANGED storing
    /\ UNCHANGED <<l1, l2, answered, requests, evictor, leaked, cleared, restarts, now>>

\* LRUEvict, second statement: the excess rows with the smallest created_at,
\* or all rows if there are fewer by now.
Oldest(S, excess) ==
    /\ S \subseteq Entries
    /\ Cardinality(S) = IF Cardinality(Entries) < excess
                        THEN Cardinality(Entries) ELSE excess
    /\ \A b \in S, c \in Entries \ S : l1[b].created <= l1[c].created

DeleteOldest(excess) ==
    \E S \in SUBSET Entries :
        /\ Oldest(S, excess)
        /\ l1' = [b \in Body |-> IF b \in S THEN None ELSE l1[b]]

EvictL1(h) ==
    /\ handler[h].pc = "delete"
    /\ DeleteOldest(handler[h].excess)
    /\ SetReturns(h)
    /\ UNCHANGED <<l2, answered, requests, evictor, leaked, cleared, restarts, now>>

\* The next statement of ExactCache.Set fails: the client has gone away, which
\* cancels the context, or the database is locked.
Disconnect(h) ==
    /\ handler[h].pc \in {"insert", "count", "delete"}
    /\ leaked' = IF handler[h].pc = "insert" THEN leaked ELSE leaked + 1
    /\ SetReturns(h)
    /\ UNCHANGED <<l1, l2, answered, requests, evictor, cleared, restarts, now>>

\* The goroutine: SQLite gives a new row the largest rowid plus one, and the
\* row lives TTL from now.
NewRowid(r) == /\ r \notin Rows
               /\ \A q \in Rows : q < r
               /\ r = 1 \/ r - 1 \in Rows

StoreL2(s) ==
    /\ s \in storing
    /\ storing' = storing \ {s}
    /\ \E r \in Number :
         /\ NewRowid(r)
         /\ l2' = [l2 EXCEPT ![r] = [s.row EXCEPT !.created = now]]
    /\ UNCHANGED <<l1, handler, answered, requests, evictor, leaked, cleared, restarts, now>>

\* The embedding or the transaction fails, or the process exits first.
StoreL2Fails(s) ==
    /\ s \in storing
    /\ storing' = storing \ {s}
    /\ UNCHANGED <<l1, l2, handler, answered, requests, evictor, leaked, cleared, restarts, now>>

-----------------------------------------------------------------------------
(* Eviction and clearing.                                                  *)

\* The hourly tick: expired rows of L1, then LRUEvict.
EvictExpired ==
    /\ evictor.pc = "idle"
    /\ l1' = [b \in Body |-> IF l1[b] # None /\ ~ Fresh(l1[b].created)
                             THEN None ELSE l1[b]]
    /\ evictor' = [evictor EXCEPT !.pc = "count"]
    /\ UNCHANGED <<l2, handler, storing, answered, requests, leaked, cleared, restarts, now>>

\* Mutant of EvictorCounts: the tick only deletes what expired.
EvictorOnlyExpires ==
    /\ evictor.pc = "count"
    /\ evictor' = [pc |-> "idle", excess |-> 0]
    /\ UNCHANGED <<l1, l2, handler, storing, answered, requests, leaked, cleared, restarts, now>>

EvictorCounts ==
    /\ evictor.pc = "count"
    /\ evictor' = IF Excess <= 0 THEN [pc |-> "idle", excess |-> 0]
                  ELSE [pc |-> "delete", excess |-> Excess]
    /\ UNCHANGED <<l1, l2, handler, storing, answered, requests, leaked, cleared, restarts, now>>

EvictorDeletes ==
    /\ evictor.pc = "delete"
    /\ DeleteOldest(evictor.excess)
    /\ evictor' = [pc |-> "idle", excess |-> 0]
    /\ UNCHANGED <<l2, handler, storing, answered, requests, leaked, cleared, restarts, now>>

Evictor == EvictExpired \/ EvictorCounts \/ EvictorDeletes

ClearL1 ==
    /\ Clears
    /\ l1' = [b \in Body |-> None]
    /\ UNCHANGED <<l2, handler, storing, answered, requests, evictor, leaked, cleared, restarts, now>>

ClearL2 ==
    /\ Clears
    /\ l2' = [r \in Number |-> None]
    /\ cleared' = cleared \cup {handler[h].n : h \in {g \in Handler : handler[g].pc = "fetch"}}
    /\ UNCHANGED <<l1, handler, storing, answered, requests, evictor, leaked, restarts, now>>

\* The proxy ends (Stop cuts off what runs, the goroutines die with the
\* process) and is started again on the same database.
InEviction == {h \in Handler : handler[h].pc \in {"count", "delete"}}

Restart ==
    /\ restarts < MaxRestarts
    /\ restarts' = restarts + 1
    /\ leaked' = leaked + Cardinality(InEviction)
    /\ handler' = [h \in Handler |-> Free]
    /\ storing' = {}
    /\ evictor' = [pc |-> "idle", excess |-> 0]
    /\ UNCHANGED <<l1, l2, answered, requests, cleared, now>>

Tick ==
    /\ now < MaxNow
    /\ now' = now + 1
    /\ UNCHANGED <<l1, l2, handler, storing, answered, requests, evictor, leaked, cleared, restarts>>

-----------------------------------------------------------------------------

Handle(h) ==
    \/ KnnSearch(h) \/ KnnFails(h) \/ FetchRow(h)
    \/ Forward(h) \/ NothingToStore(h)
    \/ InsertL1(h) \/ CountL1(h) \/ EvictL1(h) \/ Disconnect(h)

Next ==
    \/ \E h \in Handler :
         \/ \E b \in Body : Request(h, b)
         \/ Handle(h)
    \/ \E s \in storing : StoreL2(s) \/ StoreL2Fails(s)
    \/ Evictor \/ ClearL1 \/ ClearL2 \/ Restart \/ Tick

Spec == Init /\ [][Next]_vars

\* Requests end by their timeouts and the ticker of the eviction keeps firing.
FairSpec ==
    /\ Spec
    /\ \A h \in Handler : WF_vars(Handle(h))
    /\ WF_vars(Evictor)

-----------------------------------------------------------------------------
(* Properties.                                                             *)

\* Rows of L1 above the capacity are all accounted for: each belongs to a
\* handler between its insert and its delete, or to one that was cut off in
\* between (exact.go:110, 125-143).  Any interleaving of handlers, evictor and
\* clears keeps to it.
CapacityIsAccountedFor ==
    Cardinality(Entries) <= MaxEntries + Cardinality(InEviction) + leaked

\* A response from L1 was obtained for the same body and stored less than TTL
\* before, whatever was evicted, cleared or stored again in between.
L1HitIsAuthentic ==
    \A n \in Number :
        answered[n] # None /\ answered[n].level = "L1" =>
            /\ answered[n].resp.body = answered[n].body
            /\ answered[n].resp.at <= answered[n].stored
            /\ answered[n].at < answered[n].stored + TTL

\* While the hourly eviction runs, rows above the capacity, left behind by
\* requests that were cut off, do not stay.
CapacityIsRestored ==
    Cardinality(Entries) > MaxEntries ~> Cardinality(Entries) <= MaxEntries

\* A response from L2 was obtained for a body within the threshold of the one
\* asked for, although the row is fetched in a second statement, unless L2 was
\* cleared between the two (semantic.go:63-124).
L2HitIsSimilar ==
    \A n \in Number \ cleared :
        answered[n] # None /\ answered[n].level = "L2" =>
            Distance[answered[n].body][answered[n].resp.body] <= Threshold

=============================================================================
