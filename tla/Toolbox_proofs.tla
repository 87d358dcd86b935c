---------------------------- MODULE Toolbox_proofs ----------------------------
(***************************************************************************)
(* Proofs about Toolbox, for any tasks, inputs, clients and bounds: of     *)
(* the lists that its tools make, of what each tool promises of its        *)
(* answer, of the parser of smart_read, of the calls, which keep what was  *)
(* promised until the host takes the answer, and of the reports, whatever  *)
(* is logged between their statements.                                     *)
(***************************************************************************)
EXTENDS Toolbox, FoldLemmas, TLAPS

-----------------------------------------------------------------------------
(* Lists: their items, their fronts, and two of them joined.               *)

LEMMA ItemsOf ==
    ASSUME NEW V, NEW s \in Seq(V)
    PROVE  Len(s) \in Nat /\ DOMAIN s = 1 .. Len(s) /\ \A i \in DOMAIN s : s[i] \in V
OBVIOUS

LEMMA FrontOf ==
    ASSUME NEW V, NEW s \in Seq(V), NEW m \in 0 .. Len(s)
    PROVE  /\ DOMAIN SubSeq(s, 1, m) = 1 .. m /\ Len(SubSeq(s, 1, m)) = m
           /\ SubSeq(s, 1, m) \in Seq(V)
           /\ \A k \in 1 .. m : SubSeq(s, 1, m)[k] = s[k]
OBVIOUS

LEMMA JoinedLists ==
    ASSUME NEW V, NEW s \in Seq(V), NEW t \in Seq(V)
    PROVE  s \o t \in Seq(V) /\ Len(s \o t) = Len(s) + Len(t) /\ Range(s \o t) = Range(s) \cup Range(t)
<1> DEFINE u == s \o t
<1>1. /\ Len(s) \in Nat /\ Len(t) \in Nat /\ DOMAIN s = 1 .. Len(s) /\ DOMAIN t = 1 .. Len(t)
      /\ u \in Seq(V) /\ Len(u) = Len(s) + Len(t) /\ DOMAIN u = 1 .. Len(s) + Len(t)
  OBVIOUS
<1>2. \A k \in 1 .. Len(s) : u[k] = s[k] /\ k \in DOMAIN u
  OBVIOUS
<1>3. \A k \in 1 .. Len(t) : u[Len(s) + k] = t[k] /\ Len(s) + k \in DOMAIN u
  OBVIOUS
<1>4. \A k \in DOMAIN u : (k \in 1 .. Len(s) /\ u[k] = s[k])
                          \/ (k - Len(s) \in 1 .. Len(t) /\ u[k] = t[k - Len(s)])
  OBVIOUS
<1> HIDE DEF u
<1>5. Range(s) \subseteq Range(u)
  BY <1>1, <1>2 DEF Range
<1>6. Range(t) \subseteq Range(u)
  BY <1>1, <1>3 DEF Range
<1>7. ASSUME NEW k \in DOMAIN u PROVE u[k] \in Range(s) \cup Range(t)
  <2>1. CASE k \in 1 .. Len(s) /\ u[k] = s[k]
    BY <1>1, <2>1 DEF Range
  <2>2. CASE k - Len(s) \in 1 .. Len(t) /\ u[k] = t[k - Len(s)]
    BY <1>1, <2>2 DEF Range
  <2> QED BY <1>4, <2>1, <2>2
<1>8. Range(u) = Range(s) \cup Range(t)
  BY <1>5, <1>6, <1>7 DEF Range
<1> QED BY <1>1, <1>8 DEF u

-----------------------------------------------------------------------------
(* Lists in an order.                                                      *)

\* below[x] are the elements of S up to x in a total order, and s has them in
\* that order.
IsOrder(S, below) ==
    /\ \A x \in S : below[x] \in SUBSET S /\ x \in below[x]
    /\ \A x, y \in S : below[x] \subseteq below[y] \/ below[y] \subseteq below[x]
    /\ \A x, y \in S : below[x] = below[y] => x = y
HasOrder(s, S, below) ==
    /\ Cardinality(S) \in Nat
    /\ s \in [1 .. Cardinality(S) -> S]
    /\ \A x \in S : \E k \in DOMAIN s : s[k] = x
    /\ \A k, m \in DOMAIN s : s[k] = s[m] => k = m
    /\ \A k, m \in DOMAIN s : k <= m => below[s[k]] \subseteq below[s[m]]

\* s has elements at places that say how many are below.
IsPlaced(s, S, below) ==
    /\ s = [k \in 1 .. Cardinality(S) |-> s[k]]
    /\ \A k \in 1 .. Cardinality(S) :
          (\E x \in S : Cardinality(below[x]) = k) => s[k] \in S /\ Cardinality(below[s[k]]) = k

LEMMA SortedHasOrder ==
    ASSUME NEW S, IsFiniteSet(S), NEW below, IsOrder(S, below), NEW s, IsPlaced(s, S, below)
    PROVE  HasOrder(s, S, below)
<1> DEFINE n == Cardinality(S)
           place == [x \in S |-> Cardinality(below[x])]
<1>1. n \in Nat
  BY FS_CardinalityType
<1>2. ASSUME NEW x \in S
      PROVE  IsFiniteSet(below[x]) /\ Cardinality(below[x]) \in 1 .. n
  <2>1. below[x] \in SUBSET S /\ x \in below[x]
    BY DEF IsOrder
  <2>2. IsFiniteSet(below[x]) /\ Cardinality(below[x]) <= n
    BY <2>1, FS_Subset
  <2>3. Cardinality(below[x]) \in Nat /\ Cardinality(below[x]) # 0
    BY <2>1, <2>2, FS_CardinalityType, FS_EmptySet
  <2> QED BY <1>1, <2>2, <2>3
<1>3. place \in [S -> 1 .. n]
  BY <1>2
<1>4. ASSUME NEW x \in S, NEW y \in S, Cardinality(below[x]) <= Cardinality(below[y])
      PROVE  below[x] \subseteq below[y]
  <2>1. CASE below[x] \subseteq below[y]
    BY <2>1
  <2>2. CASE below[y] \subseteq below[x]
    <3>1. Cardinality(below[y]) <= Cardinality(below[x])
      BY <1>2, <2>2, FS_Subset
    <3>2. Cardinality(below[x]) = Cardinality(below[y])
      BY <1>2, <1>4, <3>1
    <3> QED BY <1>2, <2>2, <3>2, FS_Subset
  <2> QED BY <2>1, <2>2 DEF IsOrder
<1>5. ASSUME NEW x \in S, NEW y \in S, Cardinality(below[x]) = Cardinality(below[y]) PROVE x = y
  <2>1. below[x] \subseteq below[y] /\ below[y] \subseteq below[x]
    BY <1>2, <1>4, <1>5
  <2>2. below[x] = below[y]
    BY <2>1
  <2> QED BY <2>2 DEF IsOrder
<1>6. place \in Injection(S, 1 .. n)
  BY <1>3, <1>5 DEF Injection, IsInjective
<1>7. IsFiniteSet(1 .. n) /\ Cardinality(1 .. n) = n
  BY <1>1, FS_Interval
<1>8. \A k \in 1 .. n : \E x \in S : Cardinality(below[x]) = k
  <2> HIDE DEF place
  <2>1. place \in Surjection(S, 1 .. n)
    BY <1>6, <1>7, FS_Injection
  <2>2. \A k \in 1 .. n : \E x \in S : place[x] = k
    BY <2>1 DEF Surjection
  <2> QED BY <2>2 DEF place
<1> HIDE DEF place
<1>9. s \in [1 .. n -> S] /\ \A k \in 1 .. n : Cardinality(below[s[k]]) = k
  BY <1>8 DEF IsPlaced
<1>10. \A x \in S : \E k \in 1 .. n : s[k] = x
  <2> SUFFICES ASSUME NEW x \in S PROVE \E k \in 1 .. n : s[k] = x
    OBVIOUS
  <2> DEFINE k == Cardinality(below[x])
  <2>1. k \in 1 .. n
    BY <1>2
  <2>2. s[k] \in S /\ Cardinality(below[s[k]]) = k
    BY <1>9, <2>1
  <2>3. s[k] = x
    BY <1>5, <2>2
  <2> QED BY <2>1, <2>3
<1>11. \A k, m \in 1 .. n : s[k] = s[m] => k = m
  BY <1>9
<1>12. ASSUME NEW k \in 1 .. n, NEW m \in 1 .. n, k <= m
       PROVE  below[s[k]] \subseteq below[s[m]]
  <2>1. s[k] \in S /\ s[m] \in S /\ Cardinality(below[s[k]]) <= Cardinality(below[s[m]])
    BY <1>9, <1>12
  <2> QED BY <1>4, <2>1
<1>13. DOMAIN s = 1 .. n
  BY <1>9
<1> QED
  BY <1>1, <1>9, <1>10, <1>11, <1>12, <1>13 DEF HasOrder

\* Places of a list in order.
IsInOrder(at, places) ==
    /\ at \in Seq(places)
    /\ Range(at) = places
    /\ Len(at) = Cardinality(places)
    /\ \A k, m \in DOMAIN at : k < m => at[k] < at[m]

LEMMA InOrderIs ==
    ASSUME NEW n \in Nat, NEW places \in SUBSET (1 .. n)
    PROVE  IsInOrder(InOrder(places), places)
<1> DEFINE below == [i \in places |-> {j \in places : j <= i}]
           at == InOrder(places)
<1>1. IsFiniteSet(places)
  <2>1. IsFiniteSet(1 .. n)
    BY FS_Interval
  <2> QED BY <2>1, FS_Subset
<1>2. \A i \in places : below[i] = {j \in places : j <= i} /\ i \in Nat
  OBVIOUS
<1>3. at = [k \in 1 .. Cardinality(places) |->
              CHOOSE i \in places : Cardinality({j \in places : j <= i}) = k]
  BY DEF InOrder, Sorted
<1> HIDE DEF below, at
<1>4. IsOrder(places, below)
  <2>1. \A i \in places : below[i] \in SUBSET places /\ i \in below[i]
    BY <1>2
  <2>2. ASSUME NEW i \in places, NEW j \in places, i <= j PROVE below[i] \subseteq below[j]
    <3>1. \A l \in places : l <= i => l <= j
      <4>1. places \subseteq Nat
        BY <1>2
      <4>2. i \in places /\ j \in places
        OBVIOUS
      <4> QED BY <2>2, <4>1, <4>2
    <3>2. below[i] = {l \in places : l <= i} /\ below[j] = {l \in places : l <= j}
      BY <1>2
    <3> QED BY <3>1, <3>2, Zenon
  <2>3. \A i, j \in places : i <= j \/ j <= i
    BY <1>2
  <2>4. ASSUME NEW i \in places, NEW j \in places, below[i] = below[j] PROVE i = j
    <3>1. i \in below[j] /\ j \in below[i]
      BY <2>1, <2>4
    <3>2. i <= j /\ j <= i
      BY <1>2, <3>1
    <3> QED BY <1>2, <3>2
  <2> QED BY <2>1, <2>2, <2>3, <2>4 DEF IsOrder
<1>5. IsPlaced(at, places, below)
  <2>1. at = [k \in 1 .. Cardinality(places) |-> at[k]]
    <3> DEFINE chosen(k) == CHOOSE i \in places : Cardinality({j \in places : j <= i}) = k
    <3>1. at = [k \in 1 .. Cardinality(places) |-> chosen(k)]
      BY <1>3
    <3> HIDE DEF chosen
    <3> QED BY <3>1
  <2>2. ASSUME NEW k \in 1 .. Cardinality(places), NEW i \in places, Cardinality(below[i]) = k
        PROVE  at[k] \in places /\ Cardinality(below[at[k]]) = k
    <3>1. at[k] = CHOOSE m \in places : Cardinality({j \in places : j <= m}) = k
      BY <1>3
    <3>2. Cardinality({j \in places : j <= i}) = k
      BY <1>2, <2>2
    <3>3. at[k] \in places /\ Cardinality({j \in places : j <= at[k]}) = k
      BY <3>1, <3>2, Zenon
    <3>4. below[at[k]] = {j \in places : j <= at[k]}
      BY <1>2, <3>3
    <3> QED BY <3>3, <3>4, Zenon
  <2> QED BY <2>1, <2>2 DEF IsPlaced
<1>6. HasOrder(at, places, below)
  BY <1>1, <1>4, <1>5, SortedHasOrder
<1>7. at \in [1 .. Cardinality(places) -> places] /\ Cardinality(places) \in Nat
  BY <1>6 DEF HasOrder
<1>8. at \in Seq(places) /\ Len(at) = Cardinality(places) /\ DOMAIN at = 1 .. Cardinality(places)
  BY <1>7
<1>9. Range(at) = places
  <2>1. \A i \in places : \E k \in DOMAIN at : at[k] = i
    BY <1>6 DEF HasOrder
  <2>2. \A k \in DOMAIN at : at[k] \in places
    BY <1>7
  <2> QED BY <2>1, <2>2 DEF Range
<1>10. ASSUME NEW k \in DOMAIN at, NEW m \in DOMAIN at, k < m PROVE at[k] < at[m]
  <2>1. at[k] \in places /\ at[m] \in places /\ k <= m /\ k # m
    BY <1>8, <1>10
  <2>2. below[at[k]] \subseteq below[at[m]] /\ at[k] # at[m]
    BY <1>6, <1>10, <2>1 DEF HasOrder
  <2>3. at[k] \in below[at[k]]
    BY <1>4, <2>1 DEF IsOrder
  <2>4. at[k] \in below[at[m]]
    BY <2>2, <2>3
  <2>5. at[k] <= at[m] /\ at[k] \in Nat /\ at[m] \in Nat
    BY <1>2, <2>1, <2>4
  <2> QED BY <2>2, <2>5
<1> QED
  BY <1>8, <1>9, <1>10 DEF IsInOrder, at

\* r has the items of s at some places, in their order.
AreItems(r, s, places) ==
    /\ Len(r) = Cardinality(places) /\ Len(r) \in Nat /\ DOMAIN r = 1 .. Len(r)
    /\ Range(r) = {s[i] : i \in places}
    /\ \A k, m \in DOMAIN r : k < m =>
          \E i, j \in places : i < j /\ r[k] = s[i] /\ r[m] = s[j]

LEMMA ItemsAtAre ==
    ASSUME NEW V, NEW s \in Seq(V), NEW places \in SUBSET DOMAIN s
    PROVE  ItemsAt(s, places) \in Seq(V) /\ AreItems(ItemsAt(s, places), s, places)
<1> DEFINE at == InOrder(places)
           r == ItemsAt(s, places)
<1>1. IsInOrder(at, places)
  <2>1. Len(s) \in Nat /\ DOMAIN s = 1 .. Len(s)
    OBVIOUS
  <2>2. places \in SUBSET (1 .. Len(s))
    BY <2>1
  <2> QED BY <2>1, <2>2, InOrderIs
<1>2. r = [k \in DOMAIN at |-> s[at[k]]]
  BY DEF ItemsAt
<1> HIDE DEF at, r
<1>3. at \in Seq(places) /\ Range(at) = places /\ Len(at) = Cardinality(places)
  BY <1>1 DEF IsInOrder
<1>4. Len(at) \in Nat /\ DOMAIN at = 1 .. Len(at) /\ \A k \in DOMAIN at : at[k] \in places
  BY <1>3
<1>5. r \in Seq(V) /\ Len(r) = Len(at) /\ DOMAIN r = DOMAIN at
  <2>1. \A k \in DOMAIN at : s[at[k]] \in V
    BY <1>4
  <2>2. r \in [1 .. Len(at) -> V]
    BY <1>2, <1>4, <2>1
  <2> QED BY <1>4, <2>2
<1>6. \A k \in DOMAIN r : r[k] = s[at[k]]
  BY <1>2, <1>5
<1>7. Range(r) = {s[i] : i \in places}
  <2>1. \A i \in places : \E k \in DOMAIN at : at[k] = i
    BY <1>3 DEF Range
  <2> QED BY <1>4, <1>5, <1>6, <2>1 DEF Range
<1>8. ASSUME NEW k \in DOMAIN r, NEW m \in DOMAIN r, k < m
      PROVE  \E i, j \in places : i < j /\ r[k] = s[i] /\ r[m] = s[j]
  <2>1. at[k] < at[m]
    BY <1>1, <1>5, <1>8 DEF IsInOrder
  <2> QED BY <1>4, <1>5, <1>6, <2>1
<1> QED
  BY <1>3, <1>4, <1>5, <1>7, <1>8 DEF AreItems, r

\* Those that are in S, in the order that they have in s.
KeepsOrder(r, s) ==
    \A k, m \in DOMAIN r : k < m => \E i, j \in DOMAIN s : i < j /\ r[k] = s[i] /\ r[m] = s[j]

LEMMA KeptAre ==
    ASSUME NEW V, NEW s \in Seq(V), NEW S
    PROVE  /\ Kept(s, S) \in Seq(V)
           /\ Range(Kept(s, S)) = Range(s) \cap S
           /\ KeepsOrder(Kept(s, S), s)
<1> DEFINE places == {i \in DOMAIN s : s[i] \in S}
<1>1. places \in SUBSET DOMAIN s
  OBVIOUS
<1>2. {s[i] : i \in places} = Range(s) \cap S
  BY DEF Range
<1>3. Kept(s, S) = ItemsAt(s, places)
  BY DEF Kept
<1> HIDE DEF places
<1>4. Kept(s, S) \in Seq(V) /\ AreItems(Kept(s, S), s, places)
  BY <1>1, <1>3, ItemsAtAre
<1> QED BY <1>1, <1>2, <1>4 DEF AreItems, KeepsOrder

\* Each value once.
LEMMA UniqueAre ==
    ASSUME NEW V, NEW s \in Seq(V)
    PROVE  Unique(s) \in Seq(V) /\ Range(Unique(s)) = Range(s) /\ IsInjective(Unique(s))
<1> DEFINE places == {i \in DOMAIN s : \A j \in 1 .. i - 1 : s[j] # s[i]}
           r == Unique(s)
<1>0. Len(s) \in Nat /\ DOMAIN s = 1 .. Len(s)
  OBVIOUS
<1>1. places \in SUBSET DOMAIN s
  OBVIOUS
<1>2. ASSUME NEW i \in DOMAIN s PROVE \E j \in places : s[j] = s[i]
  <2> DEFINE same == {j \in DOMAIN s : s[j] = s[i]}
  <2>1. same \in SUBSET (1 .. Len(s)) /\ same # {} /\ 1 \in Int /\ Len(s) \in Int
    BY <1>0
  <2> HIDE DEF same
  <2>2. Min(same) \in same /\ \A j \in same : Min(same) <= j
    BY <2>1, Bounded, MinIs
  <2> DEFINE m == Min(same)
  <2>3. m \in DOMAIN s /\ s[m] = s[i] /\ m \in Nat
    BY <1>0, <2>2 DEF same
  <2>4. \A j \in 1 .. m - 1 : s[j] # s[m]
    <3> SUFFICES ASSUME NEW j \in 1 .. m - 1, s[j] = s[m] PROVE FALSE
      OBVIOUS
    <3>1. j \in DOMAIN s /\ j < m
      BY <1>0, <2>3
    <3>2. j \in same
      BY <2>3, <3>1 DEF same
    <3> QED BY <2>2, <2>3, <3>1, <3>2
  <2> HIDE DEF m
  <2> QED BY <2>3, <2>4
<1>3. r = ItemsAt(s, places)
  BY DEF Unique
<1>4. {s[i] : i \in places} = Range(s)
  BY <1>1, <1>2 DEF Range
<1>5. ASSUME NEW i \in places, NEW j \in places, i < j PROVE s[i] # s[j]
  <2>1. i \in 1 .. j - 1
    BY <1>0, <1>5
  <2> QED BY <2>1
<1> HIDE DEF places, r
<1>6. r \in Seq(V) /\ AreItems(r, s, places)
  BY <1>1, <1>3, ItemsAtAre
<1>7. IsInjective(r)
  <2> SUFFICES ASSUME NEW k \in DOMAIN r, NEW m \in DOMAIN r, k # m PROVE r[k] # r[m]
    BY DEF IsInjective
  <2>1. k < m \/ m < k
    BY <1>6
  <2> QED BY <1>5, <1>6, <2>1 DEF AreItems
<1> QED
  BY <1>4, <1>6, <1>7 DEF AreItems, r

-----------------------------------------------------------------------------
(* Tokens.                                                                 *)

\* What has tokens: a sequence of items.
HasTokens(items) == Len(items) \in Nat /\ DOMAIN items = 1 .. Len(items)
                    /\ \A i \in DOMAIN items : items[i].tokens \in Nat

LEMMA TokensInAre ==
    ASSUME NEW items, HasTokens(items)
    PROVE  /\ IsFiniteSet(DOMAIN items)
           /\ TokensIn(items, {}) = 0
           /\ Sum(items) \in Nat
           /\ \A S \in SUBSET DOMAIN items :
                 /\ IsFiniteSet(S) /\ TokensIn(items, S) \in Nat
                 /\ \A x \in S : TokensIn(items, S) = TokensIn(items, S \ {x}) + items[x].tokens
<1> DEFINE f == [i \in DOMAIN items |-> items[i].tokens]
<1>1. IsFiniteSet(DOMAIN items)
  <2>1. IsFiniteSet(1 .. Len(items))
    BY FS_Interval DEF HasTokens
  <2> QED BY <2>1 DEF HasTokens
<1>2. \A x \in DOMAIN items : f[x] \in Nat /\ f[x] = items[x].tokens
  BY DEF HasTokens
<1>3. \A S : TokensIn(items, S) = SumFunctionOnSet(f, S)
  BY DEF TokensIn
<1>4. Sum(items) = SumFunctionOnSet(f, DOMAIN items)
  BY <1>3 DEF Sum
<1> HIDE DEF f
<1>5. /\ SumFunctionOnSet(f, {}) = 0
      /\ SumFunctionOnSet(f, DOMAIN items) \in Nat
      /\ \A A \in SUBSET DOMAIN items : SumFunctionOnSet(f, A) \in Nat
      /\ \A A \in SUBSET DOMAIN items : \A x \in A :
            SumFunctionOnSet(f, A) = SumFunctionOnSet(f, A \ {x}) + f[x]
  BY <1>1, <1>2, SumAdds
<1>6. \A S \in SUBSET DOMAIN items : IsFiniteSet(S)
  BY <1>1, FS_Subset
<1>7. ASSUME NEW S \in SUBSET DOMAIN items, NEW x \in S
      PROVE  TokensIn(items, S) = TokensIn(items, S \ {x}) + items[x].tokens
  <2>1. f[x] = items[x].tokens
    BY <1>2
  <2>2. SumFunctionOnSet(f, S) = SumFunctionOnSet(f, S \ {x}) + f[x]
    BY <1>5
  <2> QED BY <1>3, <2>1, <2>2
<1> QED
  BY <1>1, <1>3, <1>4, <1>5, <1>6, <1>7

\* The tokens at a list of places, with one more behind.
LEMMA TokensAtAre ==
    ASSUME NEW items, HasTokens(items), NEW places \in Seq(DOMAIN items)
    PROVE  TokensAt(items, places) \in Nat /\ (places = <<>> => TokensAt(items, places) = 0)
<1> DEFINE f == [k \in DOMAIN places |-> items[places[k]].tokens]
<1>1. Len(places) \in Nat /\ DOMAIN places = 1 .. Len(places) /\ DOMAIN f = DOMAIN places
  OBVIOUS
<1>2. IsFiniteSet(DOMAIN places)
  <2>1. IsFiniteSet(1 .. Len(places))
    BY <1>1, FS_Interval
  <2> QED BY <1>1, <2>1
<1>3. \A k \in DOMAIN places : f[k] \in Nat
  BY DEF HasTokens
<1>4. TokensAt(items, places) = SumFunctionOnSet(f, DOMAIN places)
  BY <1>1 DEF TokensAt, SumFunction
<1> HIDE DEF f
<1>5. SumFunctionOnSet(f, DOMAIN places) \in Nat /\ SumFunctionOnSet(f, {}) = 0
  BY <1>2, <1>3, SumAdds
<1>6. ASSUME places = <<>> PROVE DOMAIN places = {}
  BY <1>6
<1> QED
  BY <1>4, <1>5, <1>6

LEMMA TokensAtAppend ==
    ASSUME NEW items, HasTokens(items), NEW places \in Seq(DOMAIN items), NEW i \in DOMAIN items
    PROVE  TokensAt(items, Append(places, i)) = TokensAt(items, places) + items[i].tokens
<1> DEFINE more == Append(places, i)
           n == Len(places)
           f == [k \in DOMAIN places |-> items[places[k]].tokens]
           g == [k \in DOMAIN more |-> items[more[k]].tokens]
<1>1. n \in Nat /\ DOMAIN places = 1 .. n /\ DOMAIN more = 1 .. n + 1
  OBVIOUS
<1>2. more[n + 1] = i /\ \A k \in 1 .. n : more[k] = places[k] /\ places[k] \in DOMAIN items
  OBVIOUS
<1> HIDE DEF more
<1>3. \A k \in 1 .. n : f[k] \in Nat /\ g[k] = f[k]
  BY <1>1, <1>2 DEF HasTokens
<1>4. g[n + 1] = items[i].tokens /\ g[n + 1] \in Nat
  BY <1>1, <1>2 DEF HasTokens
<1>5. DOMAIN f = 1 .. n /\ DOMAIN g = 1 .. n + 1
  BY <1>1
<1>6. TokensAt(items, places) = SumFunctionOnSet(f, 1 .. n)
  BY <1>5 DEF TokensAt, SumFunction
<1>7. TokensAt(items, more) = SumFunctionOnSet(g, 1 .. n + 1)
  BY <1>5 DEF TokensAt, SumFunction
<1> HIDE DEF f, g
<1>8. IsFiniteSet(1 .. n) /\ IsFiniteSet(1 .. n + 1)
  BY <1>1, FS_Interval
<1>9. SumFunctionOnSet(f, 1 .. n) = SumFunctionOnSet(g, 1 .. n)
  <2>1. \A k \in 1 .. n : f[k] \in Nat /\ g[k] = f[k]
    BY <1>3
  <2> DEFINE S == 1 .. n
  <2> HIDE DEF S
  <2>2. SumFunctionOnSet(f, S) = SumFunctionOnSet(g, S)
    BY <1>8, <2>1, SumAgrees DEF S
  <2> QED BY <2>2 DEF S
<1>10. (1 .. n + 1) \ {n + 1} = 1 .. n /\ n + 1 \in 1 .. n + 1
  BY <1>1
<1>11. \A k \in 1 .. n + 1 : g[k] \in Nat
  BY <1>1, <1>3, <1>4
<1>12. SumFunctionOnSet(g, 1 .. n + 1) = SumFunctionOnSet(g, 1 .. n) + g[n + 1]
  <2> DEFINE S == 1 .. n + 1
  <2>1. \A k \in S : g[k] \in Nat
    BY <1>11
  <2>2. n + 1 \in S /\ S \ {n + 1} = 1 .. n /\ IsFiniteSet(S)
    BY <1>8, <1>10
  <2> HIDE DEF S
  <2>3. \A A \in SUBSET S : \A x \in A : SumFunctionOnSet(g, A) = SumFunctionOnSet(g, A \ {x}) + g[x]
    BY <2>1, <2>2, SumAdds
  <2>4. SumFunctionOnSet(g, S) = SumFunctionOnSet(g, S \ {n + 1}) + g[n + 1]
    BY <2>2, <2>3
  <2> QED BY <2>2, <2>4 DEF S
<1> QED
  BY <1>4, <1>6, <1>7, <1>9, <1>12 DEF more

-----------------------------------------------------------------------------
(* trim_context.                                                           *)

\* An order of the documents by falling score.
IsByScore(order, score) ==
    /\ order \in Seq(DOMAIN score)
    /\ Range(order) = DOMAIN score
    /\ \A k, m \in DOMAIN order : order[k] = order[m] => k = m
    /\ \A k, m \in DOMAIN order : k <= m => score[order[k]] >= score[order[m]]

LEMMA ByScoreIs ==
    ASSUME NEW n \in Nat, NEW score \in [1 .. n -> Int]
    PROVE  IsByScore(ByScore(score), score)
<1> DEFINE S == DOMAIN score
           Before(j, i) == score[j] > score[i] \/ (score[j] = score[i] /\ j <= i)
           below == [i \in S |-> {j \in S : Before(j, i)}]
           order == ByScore(score)
<1>1. S = 1 .. n /\ IsFiniteSet(S)
  <2>1. IsFiniteSet(1 .. n)
    BY FS_Interval
  <2> QED BY <2>1
<1>2. \A i \in S : below[i] = {j \in S : Before(j, i)} /\ i \in Nat /\ score[i] \in Int
  OBVIOUS
<1>3. order = [k \in 1 .. Cardinality(S) |->
                  CHOOSE i \in S : Cardinality({j \in S : Before(j, i)}) = k]
  BY DEF ByScore, Sorted
<1> HIDE DEF below, order
<1>4. IsOrder(S, below)
  <2>1. \A i \in S : below[i] \in SUBSET S /\ i \in below[i]
    BY <1>2
  <2>2. ASSUME NEW i \in S, NEW j \in S, Before(i, j) PROVE below[i] \subseteq below[j]
    BY <1>2, <2>2
  <2>3. ASSUME NEW i \in S, NEW j \in S PROVE Before(i, j) \/ Before(j, i)
    BY <1>2
  <2>4. ASSUME NEW i \in S, NEW j \in S, below[i] = below[j] PROVE i = j
    <3>1. i \in below[j] /\ j \in below[i]
      BY <2>1, <2>4
    <3>2. Before(i, j) /\ Before(j, i)
      BY <1>2, <3>1
    <3> QED BY <1>2, <3>2
  <2> HIDE DEF Before
  <2> QED BY <2>1, <2>2, <2>3, <2>4 DEF IsOrder
<1>5. IsPlaced(order, S, below)
  <2> HIDE DEF Before, S
  <2>1. order = [k \in 1 .. Cardinality(S) |-> order[k]]
    <3> DEFINE chosen(k) == CHOOSE i \in S : Cardinality({j \in S : Before(j, i)}) = k
    <3>1. order = [k \in 1 .. Cardinality(S) |-> chosen(k)]
      BY <1>3
    <3> HIDE DEF chosen
    <3> QED BY <3>1
  <2>2. ASSUME NEW k \in 1 .. Cardinality(S), NEW i \in S, Cardinality(below[i]) = k
        PROVE  order[k] \in S /\ Cardinality(below[order[k]]) = k
    <3>1. order[k] = CHOOSE m \in S : Cardinality({j \in S : Before(j, m)}) = k
      BY <1>3
    <3>2. Cardinality({j \in S : Before(j, i)}) = k
      BY <1>2, <2>2
    <3>3. order[k] \in S /\ Cardinality({j \in S : Before(j, order[k])}) = k
      BY <3>1, <3>2, Zenon
    <3>4. below[order[k]] = {j \in S : Before(j, order[k])}
      BY <1>2, <3>3
    <3> QED BY <3>3, <3>4, Zenon
  <2> QED BY <2>1, <2>2 DEF IsPlaced
<1>6. HasOrder(order, S, below)
  <2> HIDE DEF S, Before
  <2> QED BY <1>1, <1>4, <1>5, SortedHasOrder
<1>7. order \in [1 .. Cardinality(S) -> S] /\ Cardinality(S) \in Nat
  BY <1>6 DEF HasOrder
<1>8. order \in Seq(S) /\ \A k \in DOMAIN order : order[k] \in S
  <2> HIDE DEF S, Before
  <2> QED BY <1>7
<1>9. Range(order) = S
  <2>1. \A i \in S : \E k \in DOMAIN order : order[k] = i
    BY <1>6 DEF HasOrder
  <2> QED BY <1>8, <2>1 DEF Range
<1>10. ASSUME NEW k \in DOMAIN order, NEW m \in DOMAIN order, k <= m
       PROVE  score[order[k]] >= score[order[m]]
  <2>1. below[order[k]] \subseteq below[order[m]]
    BY <1>6, <1>10 DEF HasOrder
  <2>2. order[k] \in S /\ order[m] \in S
    BY <1>8
  <2>3. order[k] \in below[order[m]]
    BY <1>4, <2>1, <2>2 DEF IsOrder
  <2>4. Before(order[k], order[m])
    BY <1>2, <2>2, <2>3
  <2> QED BY <1>2, <2>2, <2>4
<1>11. \A k, m \in DOMAIN order : order[k] = order[m] => k = m
  BY <1>6 DEF HasOrder
<1> QED
  BY <1>8, <1>9, <1>10, <1>11 DEF IsByScore, order

\* A file with the language that a host gives it.
HostFile ==
    [path : STRING, terms : SUBSET Term, weight : Nat \ {0}, imports : Seq(STRING),
     language : {"typescript"} \cup STRING, tokens : Nat]

\* The scores are numbers.
LEMMA ScoresAre ==
    ASSUME NEW files, Len(files) \in Nat, DOMAIN files = 1 .. Len(files),
           \A i \in DOMAIN files : files[i].weight \in Nat, NEW query
    PROVE  Scores(files, query) \in [1 .. Len(files) -> {NaN} \cup Nat]
BY DEF Scores, NaN

\* What a file of a path imports is a list.
LEMMA ImportsAre ==
    ASSUME NEW files \in Seq(HostFile), NEW path
    PROVE  Imports(files, path) \in Seq(STRING)
<1> DEFINE of == {i \in DOMAIN files : /\ files[i].path = path
                                       /\ files[i].language = "typescript"
                                       /\ files[i].imports # <<>>}
<1>1. Len(files) \in Nat /\ DOMAIN files = 1 .. Len(files)
  OBVIOUS
<1>2. of \in SUBSET (1 .. Len(files)) /\ 1 \in Int /\ Len(files) \in Int
  BY <1>1
<1>3. Imports(files, path) = IF of = {} THEN <<>> ELSE files[Max(of)].imports
  BY DEF Imports
<1>4. \A i \in DOMAIN files : files[i].imports \in Seq(STRING)
  <2>1. \A i \in DOMAIN files : files[i] \in HostFile
    OBVIOUS
  <2> QED BY <2>1 DEF HostFile
<1> HIDE DEF of
<1>5. ASSUME of # {} PROVE Max(of) \in DOMAIN files
  <2>1. of \in SUBSET Int /\ IsFiniteSet(of)
    BY <1>2, Bounded
  <2>2. Max(of) \in of
    BY <1>5, <2>1, MaxIs
  <2> QED BY <1>1, <1>2, <2>2
<1>6. CASE of = {}
  <2>1. Imports(files, path) = <<>>
    BY <1>3, <1>6
  <2> QED BY <2>1
<1>7. CASE of # {}
  <2>1. Imports(files, path) = files[Max(of)].imports
    BY <1>3, <1>7
  <2> QED BY <1>4, <1>5, <1>7, <2>1
<1> QED BY <1>6, <1>7

LEMMA ImportBoostIs ==
    ASSUME NEW files \in Seq(HostFile), NEW P, IsFiniteSet(P), NEW score \in [P -> Int], NEW path
    PROVE  ImportBoost(files, score, path) \in Nat
<1> DEFINE times(p) == Cardinality({k \in DOMAIN Imports(files, p) : Imports(files, p)[k] = path})
           f == [p \in DOMAIN score |-> times(p) * ((3 * score[p]) \div 10)]
           S == {p \in DOMAIN score : score[p] > 0}
<1>1. ImportBoost(files, score, path) = SumFunctionOnSet(f, S)
  BY DEF ImportBoost
<1>2. IsFiniteSet(S)
  <2>1. S \in SUBSET P
    OBVIOUS
  <2> HIDE DEF S
  <2> QED BY <2>1, FS_Subset
<1>3. ASSUME NEW p \in S PROVE f[p] \in Nat
  <2>1. p \in P /\ score[p] \in Int /\ score[p] > 0 /\ f[p] = times(p) * ((3 * score[p]) \div 10)
    OBVIOUS
  <2>2. times(p) \in Nat
    <3> DEFINE imports == Imports(files, p)
               same == {k \in DOMAIN imports : imports[k] = path}
    <3>1. imports \in Seq(STRING)
      BY ImportsAre
    <3> HIDE DEF imports
    <3>2. same \in SUBSET (1 .. Len(imports)) /\ 1 \in Int /\ Len(imports) \in Int
      BY <3>1
    <3>3. times(p) = Cardinality(same)
      BY DEF imports
    <3> HIDE DEF same, times
    <3>4. IsFiniteSet(same)
      BY <3>2, Bounded
    <3> QED BY <3>3, <3>4, FS_CardinalityType
  <2> DEFINE n == (3 * score[p]) \div 10
  <2>3. n \in Nat
    BY <2>1
  <2> HIDE DEF n
  <2>4. \A a, b \in Nat : a * b \in Nat
    OBVIOUS
  <2> HIDE DEF times, f
  <2> QED BY <2>1, <2>2, <2>3, <2>4 DEF n
<1> HIDE DEF f, S
<1> QED BY <1>1, <1>2, <1>3, SumAdds

\* The scores by path, and with what imports add.
LEMMA PathScoresAre ==
    ASSUME NEW files \in Seq(HostFile), NEW score \in [DOMAIN files -> Int]
    PROVE  /\ IsFiniteSet({files[i].path : i \in DOMAIN files})
           /\ PathScores(files, score) \in [{files[i].path : i \in DOMAIN files} -> Int]
<1> DEFINE P == {files[i].path : i \in DOMAIN files}
           at(p) == {j \in DOMAIN files : files[j].path = p}
           of(p) == {score[i] : i \in at(p)}
<1>1. Len(files) \in Nat /\ DOMAIN files = 1 .. Len(files)
  OBVIOUS
<1>2. IsFiniteSet(DOMAIN files)
  <2>1. IsFiniteSet(1 .. Len(files))
    BY <1>1, FS_Interval
  <2> QED BY <1>1, <2>1
<1>3. IsFiniteSet(P)
  <2> DEFINE f == [i \in DOMAIN files |-> files[i].path]
  <2>1. f \in Surjection(DOMAIN files, P)
    BY DEF Surjection
  <2> HIDE DEF f, P
  <2> QED BY <1>2, <2>1, FS_Surjection
<1>4. PathScores(files, score) = [p \in P |-> Min(of(p))]
  BY DEF PathScores
<1>5. ASSUME NEW p \in P PROVE Min(of(p)) \in Int
  <2>1. of(p) \in SUBSET Int /\ of(p) # {}
    OBVIOUS
  <2>2. IsFiniteSet(of(p))
    <3> DEFINE f == [i \in at(p) |-> score[i]]
    <3>1. f \in Surjection(at(p), of(p))
      BY DEF Surjection
    <3>2. at(p) \subseteq DOMAIN files
      OBVIOUS
    <3> HIDE DEF f, at, of
    <3>3. IsFiniteSet(at(p))
      BY <1>2, <3>2, FS_Subset
    <3> QED BY <3>1, <3>3, FS_Surjection
  <2> HIDE DEF of
  <2>3. Min(of(p)) \in of(p)
    BY <2>1, <2>2, MinIs
  <2> QED BY <2>1, <2>3
<1> HIDE DEF of
<1>6. PathScores(files, score) \in [P -> Int]
  BY <1>4, <1>5
<1> QED BY <1>3, <1>6

LEMMA FinalScoresAre ==
    ASSUME NEW files \in Seq(HostFile), NEW query
    PROVE  FinalScores(files, query) \in [1 .. Len(files) -> Int]
<1> DEFINE P == {files[i].path : i \in DOMAIN files}
           score == Scores(files, query)
           path == PathScores(files, score)
<1>1. Len(files) \in Nat /\ DOMAIN files = 1 .. Len(files)
  OBVIOUS
<1>2. \A i \in DOMAIN files : files[i].weight \in Nat
  <2>1. \A i \in DOMAIN files : files[i] \in HostFile
    OBVIOUS
  <2> QED BY <2>1 DEF HostFile
<1>3. score \in [1 .. Len(files) -> {NaN} \cup Nat]
  <2> HIDE DEF score
  <2> QED BY <1>1, <1>2, ScoresAre DEF score
<1>4. score \in [DOMAIN files -> Int]
  BY <1>1, <1>3 DEF NaN
<1>5. \A i \in DOMAIN files : files[i].path \in P
  OBVIOUS
<1>6. FinalScores(files, query) =
         [i \in DOMAIN files |->
            IF path[files[i].path] = NaN THEN NaN
            ELSE path[files[i].path] + ImportBoost(files, path, files[i].path)]
  BY DEF FinalScores
<1> HIDE DEF score
<1>7. IsFiniteSet(P) /\ path \in [P -> Int]
  BY <1>4, PathScoresAre
<1> HIDE DEF P, path
<1>8. \A i \in DOMAIN files : ImportBoost(files, path, files[i].path) \in Nat
  BY <1>7, ImportBoostIs
<1> QED
  BY <1>1, <1>5, <1>6, <1>7, <1>8 DEF NaN

-----------------------------------------------------------------------------
(* The selection.                                                          *)

\* What the loop makes of the document i when some are chosen.
Choose(files, score, maxTokens, chosen, i) ==
    IF TooLow(score[i]) \/ TokensAt(files, chosen) + files[i].tokens > maxTokens
    THEN chosen ELSE Append(chosen, i)

\* The selection is the end of a run over the documents in their order.
LEMMA SelectionRuns ==
    ASSUME NEW files \in Seq(HostFile), NEW score \in [1 .. Len(files) -> Int], NEW maxTokens \in Nat,
           NEW order, order = ByScore(score), Len(order) \in Nat, order \in Seq(DOMAIN files)
    PROVE  \E h \in [0 .. Len(order) -> Seq(DOMAIN files)] :
              /\ h[0] = <<>>
              /\ \A k \in 1 .. Len(order) :
                    h[k] = Choose(files, score, maxTokens, h[k - 1], order[k])
              /\ Selection(files, score, maxTokens) = h[Len(order)]
<1> DEFINE n == Len(order)
           V == Seq(DOMAIN files)
           step == [x \in 1 .. n |-> [v \in V |-> Choose(files, score, maxTokens, v, order[x])]]
           Iter(i) == i = [s \in SUBSET (1 .. n) |->
                             IF s = {} THEN <<>>
                             ELSE Choose(files, score, maxTokens, i[s \ {Max(s)}], order[Max(s)])]
           it == CHOOSE i : Iter(i)
<1>1. n \in Nat /\ DOMAIN order = 1 .. n
  OBVIOUS
<1>2. Selection(files, score, maxTokens) = it[1 .. n]
  BY <1>1 DEF Selection, FoldLeft, MapThenFoldSet, Choose
<1>3. \A x \in 1 .. n : order[x] \in DOMAIN files
  OBVIOUS
<1> HIDE DEF n
<1>4. ASSUME NEW x \in 1 .. n, NEW v \in V
      PROVE  Choose(files, score, maxTokens, v, order[x]) \in V
  <2>1. v \in V /\ Append(v, order[x]) \in V
    BY <1>3
  <2> HIDE DEF V
  <2> QED BY <2>1 DEF Choose
<1>5. \A x \in 1 .. n : \A v \in V :
         step[x][v] \in V /\ step[x][v] = Choose(files, score, maxTokens, v, order[x])
  <2> HIDE DEF V
  <2> QED BY <1>4
<1>6. <<>> \in V
  OBVIOUS
<1> HIDE DEF step, V
<1>7. Steps(step, 1 .. n, V)
  BY <1>5 DEF Steps
<1>8. PICK g \in [SUBSET (1 .. n) -> V] : IsFoldLeft(g, n, <<>>, step)
  BY <1>1, <1>6, <1>7, FoldLeftExists
<1>9. \A s \in SUBSET (1 .. n) : s # {} => Max(s) \in 1 .. n
  BY <1>1, MaxExists
<1>10. Iter(g)
  <2>1. \A s \in SUBSET (1 .. n) : s # {} => g[s \ {Max(s)}] \in V
    BY <1>8
  <2> QED BY <1>5, <1>8, <1>9, <2>1 DEF IsFoldLeft
<1>11. Iter(it)
  <2> HIDE DEF Iter
  <2> QED BY <1>10
<1> HIDE DEF it
<1>12. Unrolls(it, n, V, <<>>, step)
  BY <1>5, <1>9, <1>11 DEF Unrolls
<1> HIDE DEF Iter
<1>13. PICK h \in [0 .. n -> V] : IsRun(h, n, <<>>, step) /\ h[n] = it[1 .. n]
  <2>1. RunsTo(it[1 .. n], n, V, <<>>, step)
    BY <1>1, <1>6, <1>7, <1>12, FoldLeftRuns
  <2> QED BY <2>1 DEF RunsTo
<1>14. ASSUME NEW k \in 1 .. n
       PROVE  h[k] = Choose(files, score, maxTokens, h[k - 1], order[k])
  <2>1. k - 1 \in 0 .. n /\ h[k - 1] \in V
    BY <1>1
  <2>2. h[k] = step[k][h[k - 1]]
    BY <1>13 DEF IsRun
  <2> QED BY <1>5, <2>1, <2>2
<1> QED
  BY <1>2, <1>13, <1>14 DEF IsRun, n, V

\* After k documents: what is chosen fits, and what was passed over was too
\* low or would not have fitted.
Fits(files, score, maxTokens, order, k, chosen) ==
    /\ chosen \in Seq(DOMAIN files)
    /\ TokensAt(files, chosen) \in Nat /\ TokensAt(files, chosen) <= maxTokens
    /\ \A m \in 1 .. k : \/ order[m] \in Range(chosen) \/ TooLow(score[order[m]])
                         \/ TokensAt(files, chosen) + files[order[m]].tokens > maxTokens

LEMMA FilesHaveTokens ==
    ASSUME NEW files \in Seq(HostFile)
    PROVE  HasTokens(files)
<1>1. \A i \in DOMAIN files : files[i] \in HostFile
  OBVIOUS
<1> QED BY <1>1 DEF HostFile, HasTokens

LEMMA ChooseFits ==
    ASSUME NEW files \in Seq(HostFile), NEW score, NEW maxTokens \in Nat,
           NEW order \in Seq(DOMAIN files), NEW k \in 1 .. Len(order), NEW chosen,
           Fits(files, score, maxTokens, order, k - 1, chosen)
    PROVE  Fits(files, score, maxTokens, order, k, Choose(files, score, maxTokens, chosen, order[k]))
<1> DEFINE i == order[k]
           T(c) == TokensAt(files, c)
           more == Append(chosen, i)
<1>1. i \in DOMAIN files /\ k \in Nat /\ Len(order) \in Nat
  OBVIOUS
<1>2. HasTokens(files) /\ files[i].tokens \in Nat
  BY <1>1, FilesHaveTokens DEF HasTokens
<1>3. chosen \in Seq(DOMAIN files) /\ T(chosen) \in Nat /\ T(chosen) <= maxTokens
  BY DEF Fits
<1>4. ASSUME NEW m \in 1 .. k - 1
      PROVE  /\ m \in 1 .. k /\ order[m] \in DOMAIN files
             /\ \/ order[m] \in Range(chosen) \/ TooLow(score[order[m]])
                \/ T(chosen) + files[order[m]].tokens > maxTokens
  BY <1>1 DEF Fits
<1>5. \A m \in 1 .. k : m \in 1 .. k - 1 \/ m = k
  BY <1>1
<1> HIDE DEF T
<1>6. CASE TooLow(score[i]) \/ T(chosen) + files[i].tokens > maxTokens
  <2>1. Choose(files, score, maxTokens, chosen, i) = chosen
    BY <1>6 DEF Choose, T
  <2>2. ASSUME NEW m \in 1 .. k
        PROVE  \/ order[m] \in Range(chosen) \/ TooLow(score[order[m]])
               \/ T(chosen) + files[order[m]].tokens > maxTokens
    BY <1>4, <1>5, <1>6
  <2> QED BY <1>3, <2>1, <2>2 DEF Fits, T
<1>7. CASE ~ TooLow(score[i]) /\ ~ (T(chosen) + files[i].tokens > maxTokens)
  <2>1. Choose(files, score, maxTokens, chosen, i) = more
    BY <1>7 DEF Choose, T
  <2>2. more \in Seq(DOMAIN files)
    BY <1>1, <1>3
  <2>3. T(more) = T(chosen) + files[i].tokens
    BY <1>1, <1>2, <1>3, TokensAtAppend DEF T
  <2>4. T(more) \in Nat /\ T(more) <= maxTokens /\ T(chosen) <= T(more)
    BY <1>2, <1>3, <1>7, <2>3
  <2>5. Range(chosen) \subseteq Range(more) /\ i \in Range(more)
    <3>1. /\ DOMAIN chosen = 1 .. Len(chosen) /\ Len(chosen) \in Nat
          /\ DOMAIN more = 1 .. Len(chosen) + 1 /\ more[Len(chosen) + 1] = i
          /\ \A x \in 1 .. Len(chosen) : more[x] = chosen[x]
      BY <1>3
    <3> HIDE DEF more, i
    <3>2. Range(chosen) \subseteq Range(more)
      BY <3>1 DEF Range
    <3>3. Len(chosen) + 1 \in DOMAIN more
      BY <3>1
    <3>4. i \in Range(more)
      BY <3>1, <3>3 DEF Range
    <3> QED BY <3>2, <3>4
  <2>6. ASSUME NEW m \in 1 .. k
        PROVE  \/ order[m] \in Range(more) \/ TooLow(score[order[m]])
               \/ T(more) + files[order[m]].tokens > maxTokens
    <3>1. CASE m \in 1 .. k - 1
      <4>1. files[order[m]].tokens \in Nat
        BY <1>2, <1>4, <3>1 DEF HasTokens
      <4> DEFINE t == files[order[m]].tokens
      <4>2. T(chosen) + t > maxTokens => T(more) + t > maxTokens
        <5> HIDE DEF more, t
        <5> QED BY <1>3, <2>4, <4>1 DEF t
      <4> HIDE DEF more
      <4> QED BY <1>4, <2>5, <3>1, <4>2
    <3>2. CASE m = k
      BY <2>5, <3>2
    <3> QED BY <1>5, <3>1, <3>2
  <2> HIDE DEF more
  <2> QED BY <2>1, <2>2, <2>4, <2>6 DEF Fits, T
<1> QED BY <1>6, <1>7

LEMMA SelectionFits ==
    ASSUME NEW files \in Seq(HostFile), NEW score \in [1 .. Len(files) -> Int], NEW maxTokens \in Nat,
           NEW some, some = Selection(files, score, maxTokens)
    PROVE  /\ some \in Seq(DOMAIN files)
           /\ TokensAt(files, some) \in Nat /\ TokensAt(files, some) <= maxTokens
           /\ \A i \in DOMAIN files \ Range(some) :
                 TooLow(score[i]) \/ TokensAt(files, some) + files[i].tokens > maxTokens
<1> DEFINE order == ByScore(score)
           n == Len(order)
<1>1. Len(files) \in Nat /\ DOMAIN files = 1 .. Len(files) /\ DOMAIN score = DOMAIN files
  OBVIOUS
<1>2. IsByScore(order, score)
  BY <1>1, ByScoreIs
<1> HIDE DEF order
<1>3. order \in Seq(DOMAIN files) /\ Range(order) = DOMAIN files
  BY <1>1, <1>2 DEF IsByScore
<1>4. n \in Nat /\ DOMAIN order = 1 .. n
  BY <1>3
<1>5. PICK h \in [0 .. n -> Seq(DOMAIN files)] :
         /\ h[0] = <<>>
         /\ \A k \in 1 .. n : h[k] = Choose(files, score, maxTokens, h[k - 1], order[k])
         /\ some = h[n]
  BY <1>3, <1>4, SelectionRuns DEF order
<1> DEFINE T == {k \in 0 .. n : Fits(files, score, maxTokens, order, k, h[k])}
<1>6. 0 \in T
  <2>1. 0 \in 0 .. n /\ <<>> \in Seq(DOMAIN files) /\ 1 .. 0 = {}
    BY <1>4
  <2>2. TokensAt(files, <<>>) = 0
    BY <2>1, FilesHaveTokens, TokensAtAre
  <2>3. Fits(files, score, maxTokens, order, 0, <<>>)
    BY <2>1, <2>2 DEF Fits
  <2> QED BY <1>5, <2>1, <2>3
<1>7. ASSUME NEW k \in 0 .. n - 1, k \in T PROVE k + 1 \in T
  <2>1. k + 1 \in 1 .. n /\ k + 1 \in 0 .. n /\ (k + 1) - 1 = k
    BY <1>4
  <2>2. Fits(files, score, maxTokens, order, (k + 1) - 1, h[k])
    BY <1>7, <2>1
  <2>3. h[k + 1] = Choose(files, score, maxTokens, h[k], order[k + 1])
    BY <1>5, <2>1
  <2>4. Fits(files, score, maxTokens, order, k + 1,
             Choose(files, score, maxTokens, h[k], order[k + 1]))
    BY <1>3, <2>1, <2>2, ChooseFits
  <2> QED BY <2>1, <2>3, <2>4
<1> HIDE DEF T, n
<1>8. \A k \in 0 .. n : k \in T
  BY <1>4, <1>6, <1>7, InductTo
<1>9. Fits(files, score, maxTokens, order, n, some)
  BY <1>4, <1>5, <1>8 DEF T
<1>10. \A i \in DOMAIN files : \E m \in 1 .. n : order[m] = i
  BY <1>3, <1>4 DEF Range
<1> QED
  BY <1>9, <1>10 DEF Fits

\* What trim_context promises: its budget, and what it leaves out.
TrimPromise(x, r) ==
    /\ TrimKeepsBudget(x, r)
    /\ \A i \in DOMAIN r.files \ Range(r.shown) :
          \/ TooLow(FinalScores(r.files, x.query)[i])
          \/ r.tokensOut + r.files[i].tokens > x.maxTokens

LEMMA TrimFilesPromises ==
    ASSUME NEW files \in Seq(HostFile), NEW x, x.maxTokens \in Nat,
           NEW r, r = TrimFiles(files, x.query, x.maxTokens)
    PROVE  TrimPromise(x, r) /\ r.tokensIn \in Nat /\ r.tokensOut \in Nat
<1> DEFINE places == AllOf(files)
           in == TokensAt(files, places)
           all == [files |-> files, shown |-> places, tokensIn |-> in, tokensOut |-> in]
           score == FinalScores(files, x.query)
           some == Selection(files, score, x.maxTokens)
           out == TokensAt(files, some)
           trimmed == [all EXCEPT !.shown = some, !.tokensOut = out]
<1>1. Len(files) \in Nat /\ DOMAIN files = 1 .. Len(files) /\ HasTokens(files)
  BY FilesHaveTokens
<1>2. places \in Seq(DOMAIN files) /\ Range(places) = DOMAIN files
  BY <1>1 DEF AllOf, Range
<1>3. in \in Nat /\ (places = <<>> => in = 0)
  BY <1>1, <1>2, TokensAtAre
<1>4. /\ some \in Seq(DOMAIN files)
      /\ out \in Nat /\ out <= x.maxTokens
      /\ \A i \in DOMAIN files \ Range(some) :
            TooLow(score[i]) \/ out + files[i].tokens > x.maxTokens
  <2>1. score \in [1 .. Len(files) -> Int]
    BY FinalScoresAre
  <2> HIDE DEF score
  <2> QED BY <2>1, SelectionFits
<1>5. r = IF files = <<>> \/ x.query = Blank THEN all
          ELSE IF 10 * (trimmed.tokensIn - trimmed.tokensOut) < trimmed.tokensIn \/ all.tokensIn = 0
          THEN all ELSE trimmed
  BY DEF TrimFiles
<1>6. files = <<>> => in = 0
  <2>1. files = <<>> => places = <<>>
    BY DEF AllOf
  <2> QED BY <1>3, <2>1
<1> HIDE DEF places, in, score, some, out
<1>7. /\ trimmed.files = files /\ trimmed.shown = some
      /\ trimmed.tokensIn = in /\ trimmed.tokensOut = out
  OBVIOUS
<1>8. ASSUME r = all, in = 0 \/ x.query = Blank \/ 10 * (in - out) < in
      PROVE  TrimPromise(x, r) /\ r.tokensIn \in Nat /\ r.tokensOut \in Nat
  <2>1. r.files = files /\ r.shown = places /\ r.tokensIn = in /\ r.tokensOut = in
    BY <1>8
  <2>2. in <= x.maxTokens \/ x.query = Blank \/ 9 * in < 10 * x.maxTokens
    BY <1>3, <1>4, <1>8
  <2>3. TrimKeepsBudget(x, r)
    BY <2>1, <2>2 DEF TrimKeepsBudget
  <2>4. DOMAIN r.files \ Range(r.shown) = {}
    BY <1>2, <2>1
  <2> QED BY <1>3, <2>1, <2>3, <2>4 DEF TrimPromise
<1>9. ASSUME r = trimmed
      PROVE  TrimPromise(x, r) /\ r.tokensIn \in Nat /\ r.tokensOut \in Nat
  <2>1. r.files = files /\ r.shown = some /\ r.tokensIn = in /\ r.tokensOut = out
    BY <1>7, <1>9
  <2>2. TrimKeepsBudget(x, r)
    BY <1>4, <2>1 DEF TrimKeepsBudget
  <2> QED BY <1>3, <1>4, <2>1, <2>2 DEF TrimPromise, score
<1>10. \/ r = all /\ (in = 0 \/ x.query = Blank \/ 10 * (in - out) < in)
       \/ r = trimmed
  <2>1. trimmed.tokensIn = in /\ trimmed.tokensOut = out /\ all.tokensIn = in
    BY <1>7
  <2> HIDE DEF all, trimmed
  <2> QED BY <1>5, <1>6, <2>1
<1> HIDE DEF all, trimmed
<1> QED BY <1>8, <1>9, <1>10

\* Whatever the host makes of the languages.
LEMMA TrimContextPromises ==
    ASSUME NEW host, NEW x, IsInput("trim_context", x),
           NEW r, r = TrimContext(host, x.files, x.ignored, x.query, x.maxTokens)
    PROVE  TrimPromise(x, r) /\ r.tokensIn \in Nat /\ r.tokensOut \in Nat
<1> DEFINE candidates == Kept(x.files, {f \in Range(x.files) : f.path \notin x.ignored})
           named == [i \in DOMAIN candidates |->
                        IF host = "opencode"
                        THEN [candidates[i] EXCEPT !.language = "typescript"]
                        ELSE candidates[i]]
<1>1. x.files \in Seq(File) /\ x.maxTokens \in Nat
  BY DEF IsInput
<1>2. candidates \in Seq(File)
  BY <1>1, KeptAre
<1>3. r = TrimFiles(named, x.query, x.maxTokens)
  BY DEF TrimContext
<1> HIDE DEF candidates
<1>4. ASSUME NEW f \in File
      PROVE  f \in HostFile /\ [f EXCEPT !.language = "typescript"] \in HostFile
  BY <1>4 DEF File, HostFile
<1>5. named \in Seq(HostFile)
  <2>1. Len(candidates) \in Nat /\ DOMAIN candidates = 1 .. Len(candidates)
        /\ \A i \in DOMAIN candidates : candidates[i] \in File
    BY <1>2
  <2>2. \A i \in DOMAIN candidates :
           (IF host = "opencode" THEN [candidates[i] EXCEPT !.language = "typescript"]
            ELSE candidates[i]) \in HostFile
    BY <1>4, <2>1
  <2>3. named \in [1 .. Len(candidates) -> HostFile]
    BY <2>1, <2>2
  <2> QED BY <2>1, <2>3
<1> HIDE DEF named
<1> QED BY <1>1, <1>3, <1>5, TrimFilesPromises

-----------------------------------------------------------------------------
(* log_summary.                                                            *)

\* What the loop makes of line i.
Keep(lines, k, i) ==
    IF k.frames /\ lines[i].kind \in {"stack", "at"}
    THEN [k EXCEPT !.places = Append(@, i)]
    ELSE IF IsError(lines[i]) \/ lines[i].kind = "warning" \/ IsFrame(lines, i + 1)
    THEN [places |-> Append(k.places, i),
          frames |-> IsError(lines[i]) /\ IsFrame(lines, i + 1)]
    ELSE [k EXCEPT !.frames = FALSE]

Keeping(n) == [places : Seq(1 .. n), frames : BOOLEAN]

LEMMA KeepsType ==
    ASSUME NEW n \in Nat, NEW lines, NEW k \in Keeping(n), NEW i \in 1 .. n
    PROVE  Keep(lines, k, i) \in Keeping(n)
<1>1. k.places \in Seq(1 .. n) /\ k.frames \in BOOLEAN
  BY DEF Keeping
<1>2. Append(k.places, i) \in Seq(1 .. n)
  BY <1>1
<1>3. [k EXCEPT !.places = Append(@, i)] \in Keeping(n)
  BY <1>2 DEF Keeping
<1>4. [k EXCEPT !.frames = FALSE] \in Keeping(n)
  BY DEF Keeping
<1>5. (IsError(lines[i]) /\ IsFrame(lines, i + 1)) \in BOOLEAN
  BY DEF IsError, IsFrame
<1>6. [places |-> Append(k.places, i),
       frames |-> IsError(lines[i]) /\ IsFrame(lines, i + 1)] \in Keeping(n)
  BY <1>2, <1>5, Zenon DEF Keeping
<1> QED
  BY <1>3, <1>4, <1>6, Zenon DEF Keep

\* The lines that are kept are those of the end of a run.
LEMMA KeptLinesRun ==
    ASSUME NEW lines, NEW n \in Nat, DOMAIN lines = 1 .. n
    PROVE  \E h \in [0 .. n -> Keeping(n)] :
              /\ h[0] = [places |-> <<>>, frames |-> FALSE]
              /\ \A i \in 1 .. n : h[i] = Keep(lines, h[i - 1], i)
              /\ KeptLines(lines) = h[n].places
<1> DEFINE V == Keeping(n)
           b == [places |-> <<>>, frames |-> FALSE]
           order == [i \in DOMAIN lines |-> i]
           step == [x \in 1 .. n |-> [v \in V |-> Keep(lines, v, order[x])]]
           Iter(i) == i = [s \in SUBSET (1 .. n) |->
                             IF s = {} THEN b ELSE Keep(lines, i[s \ {Max(s)}], order[Max(s)])]
           it == CHOOSE i : Iter(i)
<1>1. DOMAIN order = 1 .. n /\ \A i \in 1 .. n : order[i] = i
  OBVIOUS
<1>2. KeptLines(lines) = it[1 .. n].places
  <2> HIDE DEF order, b
  <2> QED BY <1>1 DEF KeptLines, FoldLeft, MapThenFoldSet, Keep, order, b
<1>3. \A x \in 1 .. n : \A v \in V :
         step[x][v] \in V /\ step[x][v] = Keep(lines, v, order[x])
  <2>1. \A x \in 1 .. n : \A v \in V : Keep(lines, v, order[x]) \in V
    BY <1>1, KeepsType
  <2> HIDE DEF V, order
  <2> QED BY <2>1
<1>4. b \in V
  BY DEF Keeping
<1> HIDE DEF step, V, order, b
<1>5. Steps(step, 1 .. n, V)
  BY <1>3 DEF Steps
<1>6. PICK g \in [SUBSET (1 .. n) -> V] : IsFoldLeft(g, n, b, step)
  BY <1>4, <1>5, FoldLeftExists
<1>7. \A s \in SUBSET (1 .. n) : s # {} => Max(s) \in 1 .. n
  BY MaxExists
<1>8. Iter(g)
  <2>1. \A s \in SUBSET (1 .. n) : s # {} => g[s \ {Max(s)}] \in V
    BY <1>6
  <2>2. ASSUME NEW s \in SUBSET (1 .. n)
        PROVE  g[s] = IF s = {} THEN b ELSE Keep(lines, g[s \ {Max(s)}], order[Max(s)])
    <3>1. CASE s = {}
      BY <1>6, <3>1 DEF IsFoldLeft
    <3>2. CASE s # {}
      <4>1. g[s] = step[Max(s)][g[s \ {Max(s)}]]
        BY <1>6, <3>2 DEF IsFoldLeft
      <4>2. step[Max(s)][g[s \ {Max(s)}]] = Keep(lines, g[s \ {Max(s)}], order[Max(s)])
        BY <1>3, <1>7, <2>1, <3>2
      <4> QED BY <3>2, <4>1, <4>2
    <3> QED BY <3>1, <3>2
  <2>3. g = [s \in SUBSET (1 .. n) |-> g[s]]
    OBVIOUS
  <2> QED BY <2>2, <2>3, Zenon
<1>9. Iter(it)
  <2> HIDE DEF Iter
  <2> QED BY <1>8
<1> HIDE DEF it
<1>10. Unrolls(it, n, V, b, step)
  <2>1. ASSUME NEW s \in SUBSET (1 .. n)
        PROVE  it[s] = IF s = {} THEN b ELSE Keep(lines, it[s \ {Max(s)}], order[Max(s)])
    BY <1>9, Zenon
  <2>2. it[{}] = b
    BY <2>1
  <2>3. ASSUME NEW s \in SUBSET (1 .. n), s # {}, it[s \ {Max(s)}] \in V
        PROVE  it[s] = step[Max(s)][it[s \ {Max(s)}]]
    <3>1. step[Max(s)][it[s \ {Max(s)}]] = Keep(lines, it[s \ {Max(s)}], order[Max(s)])
      BY <1>3, <1>7, <2>3
    <3> QED BY <2>1, <2>3, <3>1
  <2> QED BY <2>2, <2>3 DEF Unrolls
<1> HIDE DEF Iter
<1>11. PICK h \in [0 .. n -> V] : IsRun(h, n, b, step) /\ h[n] = it[1 .. n]
  <2>1. RunsTo(it[1 .. n], n, V, b, step)
    BY <1>4, <1>5, <1>10, FoldLeftRuns
  <2> QED BY <2>1 DEF RunsTo
<1>12. ASSUME NEW i \in 1 .. n PROVE h[i] = Keep(lines, h[i - 1], i)
  <2>1. i - 1 \in 0 .. n /\ h[i - 1] \in V
    OBVIOUS
  <2>2. h[i] = step[i][h[i - 1]]
    BY <1>11 DEF IsRun
  <2>3. h[i] = Keep(lines, h[i - 1], order[i])
    BY <1>3, <2>1, <2>2
  <2> QED BY <1>1, <2>3, Zenon
<1> QED
  BY <1>2, <1>11, <1>12 DEF IsRun, V, b

\* Frames that follow line i belong to an error.
FramesFollow(lines, i) ==
    \E e \in 1 .. i : /\ IsError(lines[e]) /\ IsFrame(lines, e + 1)
                      /\ \A j \in e + 1 .. i : lines[j].kind \in {"stack", "at"}

LEMMA InterestingIs ==
    ASSUME NEW lines, NEW n \in Nat, DOMAIN lines = 1 .. n, Len(lines) = n, NEW i \in 1 .. n
    PROVE  i \in Interesting(lines) <=>
              \/ IsError(lines[i]) \/ lines[i].kind = "warning" \/ IsFrame(lines, i + 1)
              \/ FramesFollow(lines, i - 1) /\ lines[i].kind \in {"stack", "at"}
<1> DEFINE Third == \E e \in 1 .. i - 1 : /\ IsError(lines[e])
                                          /\ lines[e + 1].kind = "stack"
                                          /\ \A j \in e + 1 .. i : lines[j].kind \in {"stack", "at"}
<1>1. i \in Interesting(lines) <=>
         \/ IsError(lines[i]) \/ lines[i].kind = "warning" \/ IsFrame(lines, i + 1) \/ Third
  BY DEF Interesting, IsError, IsFrame
<1>2. ASSUME Third PROVE FramesFollow(lines, i - 1) /\ lines[i].kind \in {"stack", "at"}
  <2>1. PICK e \in 1 .. i - 1 : /\ IsError(lines[e])
                                /\ lines[e + 1].kind = "stack"
                                /\ \A j \in e + 1 .. i : lines[j].kind \in {"stack", "at"}
    BY <1>2
  <2>2. e + 1 \in DOMAIN lines /\ i \in e + 1 .. i /\ \A j \in e + 1 .. i - 1 : j \in e + 1 .. i
    OBVIOUS
  <2> QED BY <2>1, <2>2 DEF FramesFollow, IsFrame
<1>3. ASSUME FramesFollow(lines, i - 1), lines[i].kind \in {"stack", "at"} PROVE Third
  <2>1. PICK e \in 1 .. i - 1 : /\ IsError(lines[e]) /\ IsFrame(lines, e + 1)
                                /\ \A j \in e + 1 .. i - 1 : lines[j].kind \in {"stack", "at"}
    BY <1>3 DEF FramesFollow
  <2>2. \A j \in e + 1 .. i : j \in e + 1 .. i - 1 \/ j = i
    OBVIOUS
  <2> QED BY <1>3, <2>1, <2>2 DEF IsFrame
<1> HIDE DEF Third
<1> QED BY <1>1, <1>2, <1>3

LEMMA FramesAre ==
    ASSUME NEW lines, NEW i \in Nat \ {0}
    PROVE  FramesFollow(lines, i) <=>
              \/ IsError(lines[i]) /\ IsFrame(lines, i + 1)
              \/ FramesFollow(lines, i - 1) /\ lines[i].kind \in {"stack", "at"}
<1>1. ASSUME FramesFollow(lines, i)
      PROVE  \/ IsError(lines[i]) /\ IsFrame(lines, i + 1)
             \/ FramesFollow(lines, i - 1) /\ lines[i].kind \in {"stack", "at"}
  <2>1. PICK e \in 1 .. i : /\ IsError(lines[e]) /\ IsFrame(lines, e + 1)
                            /\ \A j \in e + 1 .. i : lines[j].kind \in {"stack", "at"}
    BY <1>1 DEF FramesFollow
  <2>2. CASE e = i
    BY <2>1, <2>2
  <2>3. CASE e # i
    <3>1. e \in 1 .. i - 1 /\ i \in e + 1 .. i /\ \A j \in e + 1 .. i - 1 : j \in e + 1 .. i
      BY <2>3
    <3> QED BY <2>1, <3>1 DEF FramesFollow
  <2> QED BY <2>2, <2>3
<1>2. ASSUME IsError(lines[i]) /\ IsFrame(lines, i + 1) PROVE FramesFollow(lines, i)
  <2>1. i \in 1 .. i /\ i + 1 .. i = {}
    OBVIOUS
  <2> QED BY <1>2, <2>1 DEF FramesFollow
<1>3. ASSUME FramesFollow(lines, i - 1), lines[i].kind \in {"stack", "at"}
      PROVE  FramesFollow(lines, i)
  <2>1. PICK e \in 1 .. i - 1 : /\ IsError(lines[e]) /\ IsFrame(lines, e + 1)
                                /\ \A j \in e + 1 .. i - 1 : lines[j].kind \in {"stack", "at"}
    BY <1>3 DEF FramesFollow
  <2>2. e \in 1 .. i /\ \A j \in e + 1 .. i : j \in e + 1 .. i - 1 \/ j = i
    OBVIOUS
  <2> QED BY <1>3, <2>1, <2>2 DEF FramesFollow
<1> QED BY <1>1, <1>2, <1>3

\* What is kept up to line i, in its order.
Increasing(places) == \A k, m \in DOMAIN places : k < m => places[k] < places[m]
KeepsFirst(lines, i, places) ==
    Increasing(places) /\ Range(places) = Interesting(lines) \cap 1 .. i

LEMMA AppendPlace ==
    ASSUME NEW n \in Nat, NEW places \in Seq(1 .. n), NEW i \in 1 .. n, Increasing(places),
           Range(places) \subseteq 1 .. i - 1
    PROVE  Increasing(Append(places, i)) /\ Range(Append(places, i)) = Range(places) \cup {i}
<1> DEFINE more == Append(places, i)
           l == Len(places)
<1>1. /\ l \in Nat /\ DOMAIN places = 1 .. l /\ DOMAIN more = 1 .. l + 1
      /\ more[l + 1] = i /\ \A x \in 1 .. l : more[x] = places[x]
  OBVIOUS
<1> HIDE DEF more, l
<1>2. \A x \in 1 .. l : places[x] \in 1 .. i - 1
  BY <1>1 DEF Range
<1>3. Range(more) = Range(places) \cup {i}
  BY <1>1 DEF Range
<1>4. Increasing(more)
  <2> SUFFICES ASSUME NEW k \in 1 .. l + 1, NEW m \in 1 .. l + 1, k < m PROVE more[k] < more[m]
    BY <1>1 DEF Increasing
  <2>1. k \in 1 .. l /\ (m \in 1 .. l \/ m = l + 1)
    BY <1>1
  <2>2. more[k] = places[k] /\ places[k] \in 1 .. i - 1
    BY <1>1, <1>2, <2>1
  <2>3. CASE m \in 1 .. l
    <3>1. places[k] < places[m] /\ more[m] = places[m]
      BY <1>1, <2>1, <2>3 DEF Increasing
    <3> QED BY <2>2, <3>1
  <2>4. CASE m = l + 1
    BY <1>1, <2>2, <2>4
  <2> QED BY <2>1, <2>3, <2>4
<1> QED BY <1>3, <1>4 DEF more

LEMMA KeepStep ==
    ASSUME NEW lines, NEW n \in Nat, DOMAIN lines = 1 .. n, Len(lines) = n, NEW i \in 1 .. n,
           NEW k \in Keeping(n), KeepsFirst(lines, i - 1, k.places),
           k.frames <=> FramesFollow(lines, i - 1)
    PROVE  /\ KeepsFirst(lines, i, Keep(lines, k, i).places)
           /\ Keep(lines, k, i).frames <=> FramesFollow(lines, i)
<1> DEFINE more == Append(k.places, i)
<1>1. k.places \in Seq(1 .. n)
  BY DEF Keeping
<1>2. Range(k.places) \subseteq 1 .. i - 1 /\ Increasing(k.places)
  BY DEF KeepsFirst
<1>3. 1 .. i = (1 .. i - 1) \cup {i}
  OBVIOUS
<1>4. ASSUME i \in Interesting(lines) PROVE KeepsFirst(lines, i, more)
  <2>1. Increasing(more) /\ Range(more) = Range(k.places) \cup {i}
    BY <1>1, <1>2, AppendPlace
  <2> QED BY <1>3, <1>4, <2>1 DEF KeepsFirst
<1>5. ASSUME i \notin Interesting(lines) PROVE KeepsFirst(lines, i, k.places)
  BY <1>3, <1>5 DEF KeepsFirst
<1> DEFINE Frame == lines[i].kind \in {"stack", "at"}
           Shows == IsError(lines[i]) \/ lines[i].kind = "warning" \/ IsFrame(lines, i + 1)
           Starts == IsError(lines[i]) /\ IsFrame(lines, i + 1)
<1>6. i \in Interesting(lines) <=> Shows \/ (k.frames /\ Frame)
  BY InterestingIs
<1>7. FramesFollow(lines, i) <=> Starts \/ (k.frames /\ Frame)
  <2>1. i \in Nat \ {0}
    OBVIOUS
  <2> QED BY <2>1, FramesAre
<1>8. Starts => Shows
  OBVIOUS
<1>9. Keep(lines, k, i) = IF k.frames /\ Frame THEN [k EXCEPT !.places = more]
                          ELSE IF Shows THEN [places |-> more, frames |-> Starts]
                          ELSE [k EXCEPT !.frames = FALSE]
  BY DEF Keep
<1>10. /\ [k EXCEPT !.places = more].places = more
       /\ [k EXCEPT !.places = more].frames = k.frames
       /\ [k EXCEPT !.frames = FALSE].places = k.places
       /\ [k EXCEPT !.frames = FALSE].frames = FALSE
  <2> HIDE DEF more
  <2> QED BY DEF Keeping
<1>11. [places |-> more, frames |-> Starts].places = more
       /\ [places |-> more, frames |-> Starts].frames = Starts
  <2> HIDE DEF more, Starts
  <2> QED BY Zenon
<1> HIDE DEF more, Frame, Shows, Starts
<1>12. CASE k.frames /\ Frame
  <2>1. Keep(lines, k, i) = [k EXCEPT !.places = more]
    BY <1>9, <1>12, Zenon
  <2> QED BY <1>4, <1>6, <1>7, <1>10, <1>12, <2>1, Zenon
<1>13. CASE ~ (k.frames /\ Frame) /\ Shows
  <2>1. Keep(lines, k, i) = [places |-> more, frames |-> Starts]
    BY <1>9, <1>13, Zenon
  <2> QED BY <1>4, <1>6, <1>7, <1>11, <1>13, <2>1, Zenon
<1>14. CASE ~ (k.frames /\ Frame) /\ ~ Shows
  <2>1. Keep(lines, k, i) = [k EXCEPT !.frames = FALSE]
    BY <1>9, <1>14, Zenon
  <2> QED BY <1>5, <1>6, <1>7, <1>8, <1>10, <1>14, <2>1, Zenon
<1> QED BY <1>12, <1>13, <1>14

LEMMA KeptLinesAre ==
    ASSUME NEW lines, NEW n \in Nat, DOMAIN lines = 1 .. n, Len(lines) = n
    PROVE  /\ KeptLines(lines) \in Seq(1 .. n)
           /\ Increasing(KeptLines(lines)) /\ Range(KeptLines(lines)) = Interesting(lines)
<1>1. PICK h \in [0 .. n -> Keeping(n)] :
         /\ h[0] = [places |-> <<>>, frames |-> FALSE]
         /\ \A i \in 1 .. n : h[i] = Keep(lines, h[i - 1], i)
         /\ KeptLines(lines) = h[n].places
  BY KeptLinesRun
<1> DEFINE Good(i, k) == KeepsFirst(lines, i, k.places) /\ (k.frames <=> FramesFollow(lines, i))
           T == {i \in 0 .. n : Good(i, h[i])}
<1>2. 0 \in T
  <2> DEFINE b == [places |-> <<>>, frames |-> FALSE]
  <2>1. b.places = <<>> /\ b.frames = FALSE
    OBVIOUS
  <2>2. KeepsFirst(lines, 0, <<>>)
    BY DEF KeepsFirst, Increasing, Range
  <2>3. ~ FramesFollow(lines, 0)
    BY DEF FramesFollow
  <2>4. 0 \in 0 .. n
    OBVIOUS
  <2> HIDE DEF b
  <2>5. Good(0, b)
    BY <2>1, <2>2, <2>3, Zenon
  <2>6. h[0] = b
    BY <1>1 DEF b
  <2>7. Good(0, h[0])
    BY <2>5, <2>6, Zenon
  <2> HIDE DEF Good
  <2> QED BY <2>4, <2>7
<1>3. ASSUME NEW i \in 0 .. n - 1, i \in T PROVE i + 1 \in T
  <2>1. i + 1 \in 1 .. n /\ i + 1 \in 0 .. n /\ (i + 1) - 1 = i /\ h[i] \in Keeping(n)
    OBVIOUS
  <2>2. Good(i, h[i])
    BY <1>3
  <2>3. h[i + 1] = Keep(lines, h[i], i + 1)
    BY <1>1, <2>1
  <2>4. KeepsFirst(lines, (i + 1) - 1, h[i].places)
        /\ (h[i].frames <=> FramesFollow(lines, (i + 1) - 1))
    BY <2>1, <2>2, Zenon
  <2>5. Good(i + 1, Keep(lines, h[i], i + 1))
    <3> DEFINE k == h[i]
               j == i + 1
    <3>1. k \in Keeping(n) /\ j \in 1 .. n
      BY <2>1
    <3>2. KeepsFirst(lines, j - 1, k.places) /\ (k.frames <=> FramesFollow(lines, j - 1))
      BY <2>4
    <3> HIDE DEF k, j
    <3>3. Good(j, Keep(lines, k, j))
      BY <3>1, <3>2, KeepStep
    <3> QED BY <3>3 DEF k, j
  <2>6. Good(i + 1, h[i + 1])
    BY <2>3, <2>5, Zenon
  <2> HIDE DEF Good
  <2> QED BY <2>1, <2>6
<1> HIDE DEF T
<1>4. \A i \in 0 .. n : i \in T
  BY <1>2, <1>3, InductTo
<1>5. KeepsFirst(lines, n, h[n].places)
  BY <1>4 DEF T
<1>6. h[n].places \in Seq(1 .. n)
  BY DEF Keeping
<1>7. Interesting(lines) \cap 1 .. n = Interesting(lines)
  BY DEF Interesting
<1> QED
  BY <1>1, <1>5, <1>6, <1>7 DEF KeepsFirst

\* The first of them that fit.
LEMMA FittingIs ==
    ASSUME NEW lines, NEW n \in Nat, NEW places \in Seq(1 .. n), NEW budget,
           NEW shown, shown = Fitting(lines, places, budget)
    PROVE  /\ \E l \in 0 .. Len(places) : shown = SubSeq(places, 1, l)
           /\ shown = <<>> \/ Heading + TokensAt(lines, shown) <= budget
<1> DEFINE fits == {l \in 0 .. Len(places) :
                        Heading + TokensAt(lines, SubSeq(places, 1, l)) <= budget}
<1>1. Len(places) \in Nat /\ 0 \in Int /\ 0 \in 0 .. Len(places) /\ SubSeq(places, 1, 0) = <<>>
  OBVIOUS
<1>2. shown = IF fits = {} THEN <<>> ELSE SubSeq(places, 1, Max(fits))
  BY DEF Fitting
<1>3. fits \in SUBSET (0 .. Len(places))
  OBVIOUS
<1>4. \A l \in fits : Heading + TokensAt(lines, SubSeq(places, 1, l)) <= budget
  OBVIOUS
<1> HIDE DEF fits
<1>5. CASE fits = {}
  BY <1>1, <1>2, <1>5
<1>6. CASE fits # {}
  <2>1. fits \in SUBSET Int /\ IsFiniteSet(fits)
    <3>1. Len(places) \in Int
      BY <1>1
    <3> QED BY <1>1, <1>3, <3>1, Bounded
  <2>2. Max(fits) \in fits
    BY <1>6, <2>1, MaxIs
  <2> QED BY <1>2, <1>3, <1>4, <1>6, <2>2
<1> QED BY <1>5, <1>6

\* What log_summary promises: its budget, and the first of the interesting
\* lines without a gap.
LogPromise(x, r) ==
    /\ r.tokensOut <= x.budget \/ r.shown = <<>>
    /\ \A k \in 1 .. Len(r.shown) - 1 : r.shown[k] < r.shown[k + 1]
    /\ Range(r.shown) \subseteq Interesting(x.lines)
    /\ \A i \in Interesting(x.lines) \ Range(r.shown) : \A j \in Range(r.shown) : j < i

\* What is saved is a number.
LEMMA SavingIs ==
    ASSUME NEW a \in Int, NEW b \in Int
    PROVE  Saving(a, b) \in Int
<1> DEFINE d == a - b
<1>1. d \in Int /\ 0 \in Int
  OBVIOUS
<1>2. Saving(a, b) = Max({0, d})
  BY DEF Saving
<1> HIDE DEF d
<1> QED BY <1>1, <1>2, OfTwo

LEMMA SummarizeLogPromises ==
    ASSUME NEW x, IsInput("log_summary", x), NEW r, r = SummarizeLog(x.lines, x.budget)
    PROVE  LogPromise(x, r) /\ r.tokensIn \in Int /\ r.tokensSaved \in Int
<1> DEFINE lines == x.lines
           n == Len(lines)
           kept == KeptLines(lines)
           shown == Fitting(lines, kept, x.budget)
<1>1. n \in Nat /\ DOMAIN lines = 1 .. n
  BY DEF IsInput
<1>2. /\ r.shown = shown /\ r.tokensOut = Heading + TokensAt(lines, shown)
      /\ r.tokensIn = Sum(lines)
      /\ r.tokensSaved = Saving(Sum(lines), Heading + TokensAt(lines, shown))
  BY DEF SummarizeLog
<1>0. HasTokens(lines)
  <2>1. lines \in Seq(LogLine)
    BY DEF IsInput
  <2>2. \A i \in DOMAIN lines : lines[i] \in LogLine
    BY <2>1, ItemsOf
  <2> HIDE DEF lines
  <2> QED BY <1>1, <2>2 DEF HasTokens, LogLine, n
<1> HIDE DEF lines, n, kept, shown
<1>3. kept \in Seq(1 .. n) /\ Increasing(kept) /\ Range(kept) = Interesting(lines)
  BY <1>1, KeptLinesAre DEF kept, n
<1>4. /\ \E l \in 0 .. Len(kept) : shown = SubSeq(kept, 1, l)
      /\ shown = <<>> \/ Heading + TokensAt(lines, shown) <= x.budget
  BY <1>1, <1>3, FittingIs DEF shown
<1>5. PICK l \in 0 .. Len(kept) : shown = SubSeq(kept, 1, l)
  BY <1>4
<1>6. /\ DOMAIN kept = 1 .. Len(kept) /\ Len(kept) \in Nat
      /\ \A k \in DOMAIN kept : kept[k] \in 1 .. n
  BY <1>1, <1>3
<1>7. DOMAIN shown = 1 .. l /\ Len(shown) = l /\ \A k \in 1 .. l : shown[k] = kept[k]
  BY <1>5, <1>6
<1>8. Range(shown) = {kept[k] : k \in 1 .. l}
  BY <1>7 DEF Range
<1>9. \A k \in 1 .. Len(shown) - 1 : shown[k] < shown[k + 1]
  <2> SUFFICES ASSUME NEW k \in 1 .. l - 1 PROVE shown[k] < shown[k + 1]
    BY <1>7
  <2>1. k \in 1 .. l /\ k + 1 \in 1 .. l /\ k \in DOMAIN kept /\ k + 1 \in DOMAIN kept /\ k < k + 1
    BY <1>6
  <2>2. kept[k] < kept[k + 1]
    BY <1>3, <2>1 DEF Increasing
  <2> QED BY <1>7, <2>1, <2>2
<1>10. Range(shown) \subseteq Interesting(lines)
  <2>1. \A k \in 1 .. l : k \in DOMAIN kept
    BY <1>6
  <2>2. \A k \in DOMAIN kept : kept[k] \in Interesting(lines)
    BY <1>3 DEF Range
  <2> QED BY <1>8, <2>1, <2>2
<1>11. ASSUME NEW i \in Interesting(lines) \ Range(shown), NEW j \in Range(shown) PROVE j < i
  <2>1. PICK k \in DOMAIN kept : kept[k] = i
    BY <1>3 DEF Range
  <2>2. PICK m \in 1 .. l : kept[m] = j
    BY <1>8
  <2>3. k \notin 1 .. l
    BY <1>8, <2>1
  <2>4. m < k /\ m \in DOMAIN kept
    BY <1>6, <2>1, <2>2, <2>3
  <2> QED BY <1>3, <2>1, <2>2, <2>4 DEF Increasing
<1>12. Sum(lines) \in Int /\ Saving(Sum(lines), Heading + TokensAt(lines, shown)) \in Int
  <2>1. shown \in Seq(DOMAIN lines)
    <3>1. shown \in Seq(1 .. n)
      BY <1>3, <1>5, FrontOf
    <3> QED BY <1>1, <3>1
  <2>2. TokensAt(lines, shown) \in Nat
    BY <1>0, <2>1, TokensAtAre
  <2>3. Sum(lines) \in Nat
    BY <1>0, TokensInAre
  <2>4. Heading \in Nat
    BY ToolboxAssumption
  <2>5. Sum(lines) \in Int /\ Heading + TokensAt(lines, shown) \in Int
    BY <2>2, <2>3, <2>4
  <2> QED BY <2>5, SavingIs
<1>13. LogPromise(x, r)
  BY <1>2, <1>4, <1>9, <1>10, <1>11 DEF LogPromise, lines
<1> QED
  BY <1>2, <1>12, <1>13, Zenon

-----------------------------------------------------------------------------
(* diff_read.                                                              *)

LEMMA HunkRangeIs ==
    ASSUME NEW lines, Len(lines) \in Nat, NEW hunk \in DiffHunk, NEW context \in Nat
    PROVE  LET r == HunkRange(lines, hunk, context) IN
           /\ r[1] \in Int /\ r[2] \in Int
           /\ r[1] .. r[2] \subseteq 1 .. Len(lines)
           /\ (hunk.start .. hunk.start + hunk.count - 1) \cap (1 .. Len(lines)) \subseteq r[1] .. r[2]
<1> DEFINE first == Max({1, hunk.start - context})
           more == Max({hunk.count, 1})
           end == hunk.start + more - 1 + context
           last == Min({Len(lines), end})
<1>1. hunk.start \in Nat /\ hunk.count \in Nat
  BY DEF DiffHunk
<1>2. hunk.start - context \in Int /\ 1 \in Int /\ hunk.count \in Int /\ Len(lines) \in Int
  BY <1>1
<1>3. HunkRange(lines, hunk, context) = <<first, last>>
  BY DEF HunkRange
<1>4. first \in {1, hunk.start - context} /\ first >= 1 /\ first >= hunk.start - context
  BY <1>2, OfTwo
<1>5. more \in {hunk.count, 1} /\ more >= hunk.count
  BY <1>2, OfTwo
<1>6. more \in Int /\ end \in Int
  BY <1>1, <1>5
<1> HIDE DEF end
<1>7. last \in {Len(lines), end} /\ last <= Len(lines)
  BY <1>2, <1>6, OfTwo
<1> HIDE DEF first, more, last
<1>8. first \in Int /\ last \in Int
  BY <1>2, <1>4, <1>6, <1>7
<1>9. hunk.start + hunk.count - 1 <= end
  BY <1>1, <1>5, <1>6 DEF end
<1>10. ASSUME NEW i \in hunk.start .. hunk.start + hunk.count - 1, i \in 1 .. Len(lines)
       PROVE  i \in first .. last
  BY <1>1, <1>4, <1>6, <1>7, <1>8, <1>9, <1>10
<1>11. first .. last \subseteq 1 .. Len(lines)
  BY <1>4, <1>7, <1>8
<1> QED
  BY <1>3, <1>8, <1>10, <1>11

\* What diff_read promises: its budget behind the first block, and every hunk
\* before the cut as a whole.
DiffPromise(x, r) ==
    /\ r.included = 1 \/ r.tokensOut <= x.budget + Heading
    /\ \A k \in 1 .. r.included :
          (x.hunks[k].start .. x.hunks[k].start + x.hunks[k].count - 1) \cap DOMAIN x.lines
              \subseteq r.shown

LEMMA DiffReadPromises ==
    ASSUME NEW x, IsInput("diff_read", x), x.hunks # <<>>,
           NEW r, r = DiffRead(x.lines, x.hunks, x.context, x.budget)
    PROVE  DiffPromise(x, r) /\ r.tokensIn \in Int /\ r.tokensSaved \in Int
<1> DEFINE lines == x.lines
           hunks == x.hunks
           n == Len(hunks)
           block == [k \in DOMAIN hunks |-> BlockTokens(lines, hunks[k], x.context)]
           upTo(k) == Heading + SumFunctionOnSet(block, 1 .. k)
           ends == {k \in DOMAIN hunks : k = n \/ upTo(k + 1) > x.budget}
           included == Min(ends)
           shown == UNION {HunkRange(lines, hunks[k], x.context)[1] ..
                           HunkRange(lines, hunks[k], x.context)[2] : k \in 1 .. included}
<1>1. /\ lines \in Seq(FileLine) /\ hunks \in Seq(DiffHunk) /\ x.context \in Nat /\ x.budget \in Nat
      /\ hunks # <<>>
  BY DEF IsInput
<1>2. /\ n \in Nat \ {0} /\ DOMAIN hunks = 1 .. n /\ \A k \in DOMAIN hunks : hunks[k] \in DiffHunk
      /\ Len(lines) \in Nat /\ DOMAIN lines = 1 .. Len(lines)
  BY <1>1
<1>3. HasTokens(lines)
  <2>1. \A i \in DOMAIN lines : lines[i] \in FileLine
    BY <1>1
  <2> HIDE DEF lines
  <2> QED BY <1>2, <2>1 DEF HasTokens, FileLine
<1>4. Heading \in Nat
  BY ToolboxAssumption
<1>5. /\ r.included = included /\ r.shown = shown
      /\ r.tokensOut = upTo(included) + (IF included < n THEN Heading ELSE 0)
      /\ r.tokensIn = Sum(lines) /\ r.tokensSaved = Saving(Sum(lines), r.tokensOut)
  BY DEF DiffRead
<1> HIDE DEF lines, hunks, n
<1>6. ASSUME NEW k \in DOMAIN hunks PROVE block[k] \in Nat
  <2> DEFINE h == HunkRange(lines, hunks[k], x.context)
  <2>1. h[1] .. h[2] \subseteq 1 .. Len(lines)
    BY <1>1, <1>2, HunkRangeIs
  <2>2. TokensIn(lines, h[1] .. h[2]) \in Nat
    <3> HIDE DEF h
    <3> QED BY <1>2, <1>3, <2>1, TokensInAre
  <2>3. block[k] = Heading + TokensIn(lines, h[1] .. h[2])
    BY DEF BlockTokens
  <2> HIDE DEF h, block
  <2> QED BY <1>4, <2>2, <2>3
<1> HIDE DEF block
<1>7. ASSUME NEW k \in 1 .. n PROVE upTo(k) \in Int
  <2>1. k \in Int /\ 1 .. k \subseteq DOMAIN hunks /\ \A j \in 1 .. k : block[j] \in Nat
    BY <1>2, <1>6
  <2>2. IsFiniteSet(1 .. k)
    BY <2>1, FS_Interval
  <2> DEFINE S == 1 .. k
  <2>3. \A j \in S : block[j] \in Nat
    BY <2>1
  <2> HIDE DEF S
  <2>4. SumFunctionOnSet(block, S) \in Nat
    BY <2>2, <2>3, SumAdds DEF S
  <2> QED BY <1>4, <2>4 DEF S
<1> HIDE DEF upTo
<1>8. included \in ends /\ \A k \in ends : included <= k
  <2>1. ends \in SUBSET (1 .. n) /\ n \in ends /\ 1 \in Int /\ n \in Int
    BY <1>2
  <2> HIDE DEF ends
  <2>2. ends \in SUBSET Int /\ IsFiniteSet(ends) /\ ends # {}
    BY <2>1, Bounded
  <2> QED BY <2>2, MinIs
<1>9. included \in 1 .. n
  BY <1>2, <1>8
<1>10. ASSUME included # 1 PROVE r.tokensOut <= x.budget + Heading
  <2>1. included - 1 \in 1 .. n /\ included - 1 < included /\ (included - 1) + 1 = included
        /\ included - 1 # n
    BY <1>2, <1>9, <1>10
  <2>2. included - 1 \notin ends
    <3> HIDE DEF included, ends
    <3> QED BY <1>2, <1>8, <1>9, <2>1
  <2>3. ~ (upTo((included - 1) + 1) > x.budget)
    BY <1>2, <2>1, <2>2
  <2>4. ~ (upTo(included) > x.budget)
    BY <2>1, <2>3
  <2>5. upTo(included) \in Int
    BY <1>7, <1>9
  <2> HIDE DEF included
  <2>6. (IF included < n THEN Heading ELSE 0) \in 0 .. Heading
    BY <1>4
  <2> QED BY <1>1, <1>4, <1>5, <2>4, <2>5, <2>6
<1>12. r.tokensIn \in Int /\ r.tokensSaved \in Int
  <2>1. upTo(included) \in Int
    BY <1>7, <1>9
  <2>2. Sum(lines) \in Nat
    BY <1>3, TokensInAre
  <2> HIDE DEF included
  <2>3. Sum(lines) \in Int /\ r.tokensOut \in Int
    BY <1>4, <1>5, <2>1, <2>2
  <2>4. Saving(Sum(lines), r.tokensOut) \in Int
    BY <2>3, SavingIs
  <2> QED BY <1>5, <2>3, <2>4
<1> HIDE DEF included, ends
<1>11. ASSUME NEW k \in 1 .. included
       PROVE  (hunks[k].start .. hunks[k].start + hunks[k].count - 1) \cap DOMAIN lines \subseteq shown
  <2> DEFINE h == HunkRange(lines, hunks[k], x.context)
  <2>1. k \in DOMAIN hunks
    BY <1>2, <1>9
  <2>2. (hunks[k].start .. hunks[k].start + hunks[k].count - 1) \cap (1 .. Len(lines)) \subseteq h[1] .. h[2]
    BY <1>1, <1>2, <2>1, HunkRangeIs
  <2>3. h[1] .. h[2] \subseteq shown
    OBVIOUS
  <2> HIDE DEF h, shown
  <2> QED BY <1>2, <2>2, <2>3
<1> HIDE DEF shown
<1>13. DiffPromise(x, r)
  BY <1>5, <1>10, <1>11 DEF DiffPromise, lines, hunks
<1> QED BY <1>12, <1>13

-----------------------------------------------------------------------------
(* grep.                                                                   *)

\* The files with matches, each once.
LEMMA MatchFilesAre ==
    ASSUME NEW lines \in Seq(GrepLine)
    PROVE  /\ MatchFiles(lines) \in Seq(STRING)
           /\ Range(MatchFiles(lines)) = {lines[i].file : i \in DOMAIN lines} \ {NoFile}
<1> DEFINE files == [i \in DOMAIN lines |-> lines[i].file]
           kept == Kept(files, Range(files) \ {NoFile})
<1>1. files \in Seq(STRING)
  <2>1. Len(lines) \in Nat /\ DOMAIN lines = 1 .. Len(lines)
        /\ \A i \in DOMAIN lines : lines[i] \in GrepLine
    OBVIOUS
  <2>2. \A i \in DOMAIN lines : lines[i].file \in STRING
    BY <2>1 DEF GrepLine
  <2>3. files \in [1 .. Len(lines) -> STRING]
    BY <2>1, <2>2
  <2> QED BY <2>1, <2>3
<1>2. Range(files) = {lines[i].file : i \in DOMAIN lines}
  BY DEF Range
<1>3. MatchFiles(lines) = Unique(kept)
  BY DEF MatchFiles
<1> HIDE DEF files
<1>4. kept \in Seq(STRING) /\ Range(kept) = Range(files) \ {NoFile}
  BY <1>1, KeptAre
<1> HIDE DEF kept
<1> QED BY <1>2, <1>3, <1>4, UniqueAre

\* Some of the places of a file's matches, and how many are left.
LEMMA SomeOf ==
    ASSUME NEW n \in Nat, NEW places \in SUBSET (1 .. n), NEW l \in 0 .. Len(InOrder(places)),
           NEW some, some = SubSeq(InOrder(places), 1, l)
    PROVE  /\ Range(some) \subseteq places /\ Len(some) = l
           /\ Cardinality(Range(some)) + (Len(InOrder(places)) - Len(some)) = Cardinality(places)
<1> DEFINE all == InOrder(places)
<1>1. IsInOrder(all, places)
  BY InOrderIs
<1> HIDE DEF all
<1>2. all \in Seq(places) /\ Range(all) = places /\ Len(all) = Cardinality(places)
  BY <1>1 DEF IsInOrder
<1>3. Len(all) \in Nat /\ DOMAIN all = 1 .. Len(all) /\ \A k \in DOMAIN all : all[k] \in places
  BY <1>2
<1>4. some = SubSeq(all, 1, l) /\ l \in 0 .. Len(all)
  BY DEF all
<1>5. DOMAIN some = 1 .. l /\ Len(some) = l /\ \A k \in 1 .. l : some[k] = all[k] /\ k \in DOMAIN all
  BY <1>3, <1>4
<1>6. Range(some) \subseteq places
  BY <1>3, <1>5 DEF Range
<1>7. some \in Bijection(1 .. l, Range(some))
  <2>1. some \in [1 .. l -> Range(some)]
    <3>1. some = [k \in 1 .. l |-> some[k]]
      BY <1>4, <1>5
    <3>2. \A k \in 1 .. l : some[k] \in Range(some)
      BY <1>5 DEF Range
    <3> QED BY <3>1, <3>2
  <2>2. ASSUME NEW k \in 1 .. l, NEW m \in 1 .. l, k # m PROVE some[k] # some[m]
    <3>1. k < m \/ m < k
      BY <2>2
    <3>2. all[k] < all[m] \/ all[m] < all[k]
      BY <1>1, <1>5, <3>1 DEF IsInOrder
    <3>3. all[k] \in places /\ all[m] \in places /\ places \subseteq 1 .. n
      BY <1>3, <1>5
    <3>4. all[k] \in Nat /\ all[m] \in Nat
      <4>1. 1 .. n \subseteq Nat
        OBVIOUS
      <4> HIDE DEF all
      <4> QED BY <3>3, <4>1, Zenon
    <3>5. all[k] # all[m]
      BY <3>2, <3>4
    <3> QED BY <1>5, <3>5
  <2>3. \A i \in Range(some) : \E k \in 1 .. l : some[k] = i
    BY <1>5 DEF Range
  <2> QED BY <2>1, <2>2, <2>3 DEF Bijection, Injection, Surjection, IsInjective
<1>8. IsFiniteSet(1 .. l) /\ Cardinality(1 .. l) = l
  <2>1. l \in Nat
    BY <1>3, <1>4
  <2> QED BY <2>1, FS_Interval
<1>9. Cardinality(Range(some)) = l
  <2> DEFINE R == Range(some)
             S == 1 .. l
  <2> HIDE DEF R, S
  <2>1. some \in Bijection(S, R) /\ IsFiniteSet(S) /\ Cardinality(S) = l
    BY <1>7, <1>8 DEF R, S
  <2>2. Cardinality(R) = Cardinality(S)
    BY <2>1, FS_Bijection DEF ExistsBijection
  <2> QED BY <2>1, <2>2 DEF R
<1>10. l + (Len(all) - l) = Len(all)
  BY <1>3, <1>4
<1> QED
  BY <1>2, <1>5, <1>6, <1>9, <1>10 DEF all

\* What the grouping of grep output promises: it is shorter, and the matches
\* of every file are shown or counted.
GrepPromise(x, r) ==
    /\ r.compressed => r.tokensOut < r.tokensIn
    /\ \A f \in {x.lines[i].file : i \in DOMAIN x.lines} \ {NoFile} :
          LET all == {i \in DOMAIN x.lines : x.lines[i].file = f}
          IN  r.compressed =>
                \/ f \in DOMAIN r.hidden
                   /\ Cardinality(all \cap r.shown) + r.hidden[f] = Cardinality(all)
                \/ f \notin DOMAIN r.hidden /\ r.hiddenFiles > 0

LEMMA CompressPromises ==
    ASSUME NEW x, IsInput("grep", x), NEW r, r = CompressGrepOutput(x.lines, x.minTokens)
    PROVE  GrepPromise(x, r) /\ r.tokensIn \in Int /\ r.tokensOut \in Int
<1> DEFINE lines == x.lines
           n == Len(lines)
           files == MatchFiles(lines)
           m == Min({Len(files), MaxMatchFiles})
           few == SubSeq(files, 1, m)
           all(f) == {i \in DOMAIN lines : lines[i].file = f}
           l(f) == Min({Len(MatchesOf(lines, f)), MaxLines})
           some(f) == SubSeq(MatchesOf(lines, f), 1, l(f))
           hidden == [f \in Range(few) |-> Len(MatchesOf(lines, f)) - Len(some(f))]
           shown == UNION {Range(some(f)) : f \in Range(few)}
           more == {f \in Range(few) : hidden[f] > 0}
           out == TokensIn(lines, shown) + Heading * Cardinality(more)
                  + (IF Len(files) > Len(few) THEN Heading ELSE 0)
           same == [compressed |-> FALSE, shown |-> DOMAIN lines,
                    hidden |-> <<>>, hiddenFiles |-> 0,
                    tokensIn |-> Sum(lines), tokensOut |-> Sum(lines)]
           grouped == [same EXCEPT !.compressed = TRUE, !.shown = shown, !.hidden = hidden,
                                   !.hiddenFiles = Len(files) - Len(few), !.tokensOut = out]
           Whole == Sum(lines) < x.minTokens \/ files = <<>> \/ out >= Sum(lines)
<1>1. /\ lines \in Seq(GrepLine) /\ n \in Nat /\ DOMAIN lines = 1 .. n
  BY DEF IsInput
<1>2. HasTokens(lines)
  <2>1. \A i \in DOMAIN lines : lines[i] \in GrepLine
    BY <1>1
  <2> HIDE DEF lines
  <2> QED BY <1>1, <2>1 DEF HasTokens, GrepLine
<1>3. Heading \in Nat /\ MaxLines \in Nat /\ MaxMatchFiles \in Nat
  BY ToolboxAssumption
<1>4. r = IF Whole THEN same ELSE grouped
  BY DEF CompressGrepOutput
<1>5. \A f : MatchesOf(lines, f) = InOrder(all(f))
  BY DEF MatchesOf
<1>6. Range(files) = {lines[i].file : i \in DOMAIN lines} \ {NoFile} /\ files \in Seq(STRING)
  BY <1>1, MatchFilesAre
<1> HIDE DEF lines, n, files
<1>7. m \in 0 .. Len(files) /\ (m = Len(files) \/ m < Len(files)) /\ Len(files) \in Nat
  <2>1. Len(files) \in Nat /\ Len(files) \in Int /\ MaxMatchFiles \in Int
    BY <1>3, <1>6
  <2>2. m \in {Len(files), MaxMatchFiles} /\ m <= Len(files)
    BY <2>1, OfTwo
  <2> HIDE DEF m
  <2> QED BY <1>3, <2>1, <2>2
<1> HIDE DEF m
<1>8. /\ DOMAIN few = 1 .. m /\ Len(few) = m /\ \A k \in 1 .. m : few[k] = files[k]
      /\ DOMAIN files = 1 .. Len(files)
  BY <1>6, <1>7
<1>9. ASSUME NEW f
      PROVE  /\ Range(some(f)) \subseteq all(f)
             /\ Len(some(f)) \in Nat /\ Len(MatchesOf(lines, f)) \in Nat
             /\ Cardinality(Range(some(f))) + (Len(MatchesOf(lines, f)) - Len(some(f)))
                   = Cardinality(all(f))
  <2> DEFINE places == all(f)
             order == InOrder(places)
  <2>1. places \in SUBSET (1 .. n) /\ n \in Nat
    BY <1>1
  <2>2. MatchesOf(lines, f) = order
    BY <1>5
  <2> HIDE DEF all, places
  <2>3. IsInOrder(order, places)
    BY <2>1, InOrderIs
  <2>4. Len(order) \in Nat
    BY <2>3 DEF IsInOrder
  <2> HIDE DEF order
  <2>5. l(f) \in 0 .. Len(order)
    <3>1. Len(order) \in Int /\ MaxLines \in Int
      BY <1>3, <2>4
    <3>2. l(f) \in {Len(order), MaxLines} /\ l(f) <= Len(order)
      BY <2>2, <3>1, OfTwo
    <3> HIDE DEF l
    <3> QED BY <1>3, <2>4, <3>2
  <2> HIDE DEF l
  <2>6. some(f) = SubSeq(order, 1, l(f))
    BY <2>2
  <2> HIDE DEF some
  <2>7. /\ Range(some(f)) \subseteq places /\ Len(some(f)) = l(f)
        /\ Cardinality(Range(some(f))) + (Len(order) - Len(some(f))) = Cardinality(places)
    BY <2>1, <2>5, <2>6, SomeOf DEF order
  <2> QED BY <2>2, <2>4, <2>5, <2>7 DEF places
<1> HIDE DEF some, few, l
<1>10. shown \subseteq DOMAIN lines
  BY <1>9
<1>11. IsFiniteSet(more)
  <2>1. IsFiniteSet(Range(few))
    <3> DEFINE D == 1 .. m
               R == Range(few)
               g == [k \in D |-> few[k]]
    <3>1. IsFiniteSet(D)
      BY <1>7, FS_Interval
    <3>2. g \in Surjection(D, R)
      <4>1. \A k \in D : few[k] \in R
        BY <1>8 DEF Range
      <4>2. \A y \in R : \E k \in D : few[k] = y
        BY <1>8 DEF Range
      <4> HIDE DEF D, R
      <4> QED BY <4>1, <4>2 DEF Surjection
    <3> HIDE DEF D, R, g
    <3>3. IsFiniteSet(R)
      BY <3>1, <3>2, FS_Surjection
    <3> QED BY <3>3 DEF R
  <2>2. more \subseteq Range(few)
    OBVIOUS
  <2> HIDE DEF more
  <2> QED BY <2>1, <2>2, FS_Subset
<1>12. out \in Int /\ Sum(lines) \in Nat
  <2>1. TokensIn(lines, shown) \in Nat /\ Sum(lines) \in Nat
    <3> HIDE DEF shown
    <3> QED BY <1>2, <1>10, TokensInAre
  <2>2. Cardinality(more) \in Nat
    <3> HIDE DEF more
    <3> QED BY <1>11, FS_CardinalityType
  <2>3. \A a, b \in Nat : a * b \in Int
    OBVIOUS
  <2>4. Heading * Cardinality(more) \in Int
    <3> HIDE DEF more
    <3> QED BY <1>3, <2>2, <2>3
  <2> HIDE DEF shown, more
  <2> QED BY <1>3, <2>1, <2>4
<1>13. ASSUME NEW f \in {lines[i].file : i \in DOMAIN lines} \ {NoFile}, f \in Range(few)
       PROVE  /\ f \in DOMAIN hidden
              /\ Cardinality(all(f) \cap shown) + hidden[f] = Cardinality(all(f))
  <2>1. all(f) \cap shown = Range(some(f))
    <3>1. \A g : Range(some(g)) \subseteq all(g)
      BY <1>9
    <3>2. \A g : g # f => all(g) \cap all(f) = {}
      OBVIOUS
    <3>3. Range(some(f)) \subseteq shown
      BY <1>13
    <3> HIDE DEF all
    <3>4. \A i \in shown : \E g \in Range(few) : i \in Range(some(g))
      OBVIOUS
    <3>5. ASSUME NEW i \in shown, i \in all(f) PROVE i \in Range(some(f))
      <4>1. PICK g \in Range(few) : i \in Range(some(g))
        BY <3>4
      <4> QED BY <3>1, <3>2, <3>5, <4>1
    <3> HIDE DEF shown
    <3> QED BY <3>1, <3>3, <3>5
  <2>2. hidden[f] = Len(MatchesOf(lines, f)) - Len(some(f)) /\ f \in DOMAIN hidden
    BY <1>13
  <2> HIDE DEF all, hidden, shown
  <2> QED BY <1>9, <2>1, <2>2
<1>14. ASSUME NEW f \in {lines[i].file : i \in DOMAIN lines} \ {NoFile}, f \notin Range(few)
       PROVE  f \notin DOMAIN hidden /\ Len(files) - Len(few) > 0
  <2>1. f \notin DOMAIN hidden
    BY <1>14
  <2>2. m # Len(files)
    <3> SUFFICES ASSUME m = Len(files) PROVE f \in Range(few)
      BY <1>14
    <3>1. f \in Range(files)
      BY <1>6
    <3>2. PICK k \in 1 .. Len(files) : files[k] = f
      BY <1>8, <3>1 DEF Range
    <3> QED BY <1>8, <3>2 DEF Range
  <2> HIDE DEF hidden
  <2>3. Len(files) - Len(few) > 0
    <3>1. Len(few) = m
      BY <1>8
    <3>2. \A a \in Nat : \A b \in 0 .. a : b # a => a - b > 0
      OBVIOUS
    <3>3. Len(files) - m > 0
      BY <1>7, <2>2, <3>2
    <3> QED BY <3>1, <3>3
  <2> QED BY <2>1, <2>3
<1> HIDE DEF hidden, shown, out, all
<1>15. CASE Whole
  <2>1. r = same
    BY <1>4, <1>15
  <2>2. r.compressed = FALSE
    BY <2>1
  <2>3. GrepPromise(x, r)
    BY <2>2, Zenon DEF GrepPromise
  <2>4. r.tokensIn = Sum(lines) /\ r.tokensOut = Sum(lines)
    BY <2>1
  <2>5. Sum(lines) \in Int
    BY <1>12
  <2> QED BY <2>3, <2>4, <2>5, Zenon
<1>16. CASE ~ Whole
  <2>1. r = grouped /\ ~ (out >= Sum(lines))
    BY <1>4, <1>16
  <2>2. /\ r.shown = shown /\ r.hidden = hidden /\ r.hiddenFiles = Len(files) - Len(few)
        /\ r.tokensIn = Sum(lines) /\ r.tokensOut = out
    BY <2>1
  <2>3. r.tokensOut < r.tokensIn
    BY <1>12, <2>1, <2>2
  <2>4. ASSUME NEW f \in {lines[i].file : i \in DOMAIN lines} \ {NoFile}
        PROVE  \/ f \in DOMAIN r.hidden
                  /\ Cardinality(all(f) \cap r.shown) + r.hidden[f] = Cardinality(all(f))
               \/ f \notin DOMAIN r.hidden /\ r.hiddenFiles > 0
    BY <1>13, <1>14, <2>2, Zenon
  <2> HIDE DEF grouped, same
  <2>5. GrepPromise(x, r)
    BY <2>3, <2>4, Zenon DEF GrepPromise, all, lines
  <2>6. out \in Int /\ Sum(lines) \in Int
    BY <1>12
  <2> QED BY <2>2, <2>5, <2>6, Zenon
<1> HIDE DEF Whole
<1> QED BY <1>15, <1>16

-----------------------------------------------------------------------------
(* budget_planner.                                                         *)

\* Budgets of n steps add up and differ by at most one.
LEMMA BudgetsAddUp ==
    ASSUME NEW a \in Nat, NEW n \in Nat, n > 0, NEW b, b = AllocateStepBudgets(a, n)
    PROVE  /\ DOMAIN b = 1 .. n
           /\ SumFunction(b) = a
           /\ \A i, j \in 1 .. n : b[i] - b[j] <= 1
<1> DEFINE q == a \div n
           rem == a % n
           sum(k) == SumFunctionOnSet(b, 1 .. k)
           T == {k \in 0 .. n : sum(k) = k * q + (IF k <= rem THEN k ELSE rem)}
<1>1. q \in Nat /\ rem \in 0 .. n - 1 /\ n * q + rem = a
  <2>1. q \in Int /\ rem \in 0 .. n - 1
    OBVIOUS
  <2>2. a = (n * q) + rem
    OBVIOUS
  <2>3. q >= 0
    OBVIOUS
  <2> QED BY <2>1, <2>2, <2>3
<1>2. b = [i \in 1 .. n |-> q + (IF i <= rem THEN 1 ELSE 0)]
  BY DEF AllocateStepBudgets
<1> HIDE DEF q, rem
<1>3. \A i \in 1 .. n : b[i] = q + (IF i <= rem THEN 1 ELSE 0)
  BY <1>2
<1>4. \A i \in 1 .. n : b[i] \in Nat
  BY <1>1, <1>3
<1>5. IsFiniteSet(1 .. n)
  BY FS_Interval
<1>6. 0 \in T
  <2>1. 1 .. 0 = {}
    OBVIOUS
  <2>2. sum(0) = 0
    BY <1>4, <1>5, <2>1, SumAdds
  <2> HIDE DEF sum
  <2>3. 0 * q = 0
    BY <1>1
  <2> QED BY <1>1, <2>2, <2>3
<1>7. ASSUME NEW k \in 0 .. n - 1, k \in T PROVE k + 1 \in T
  <2> DEFINE A == 1 .. k + 1
  <2>1. A \in SUBSET (1 .. n) /\ k + 1 \in A /\ A \ {k + 1} = 1 .. k
    OBVIOUS
  <2> HIDE DEF A
  <2>2. SumFunctionOnSet(b, A) = SumFunctionOnSet(b, A \ {k + 1}) + b[k + 1]
    <3> DEFINE D == 1 .. n
               i == k + 1
    <3>1. IsFiniteSet(D) /\ (\A j \in D : b[j] \in Nat) /\ A \in SUBSET D /\ i \in A
      BY <1>4, <1>5, <2>1
    <3> HIDE DEF D, i
    <3>2. SumFunctionOnSet(b, A) = SumFunctionOnSet(b, A \ {i}) + b[i]
      BY <3>1, SumAdds
    <3> QED BY <3>2 DEF i
  <2>3. sum(k + 1) = sum(k) + b[k + 1]
    BY <2>1, <2>2 DEF A
  <2> HIDE DEF sum
  <2>4. (k + 1) * q = k * q + q /\ k * q \in Int
    BY <1>1
  <2>5. sum(k) = k * q + (IF k <= rem THEN k ELSE rem)
    BY <1>7
  <2>6. b[k + 1] = q + (IF k + 1 <= rem THEN 1 ELSE 0)
    BY <1>3
  <2> QED BY <1>1, <2>3, <2>4, <2>5, <2>6
<1>8. \A k \in 0 .. n : k \in T
  <2> HIDE DEF T
  <2> QED BY <1>6, <1>7, InductTo
<1>9. sum(n) = n * q + rem
  <2>1. n \in T
    BY <1>8
  <2> HIDE DEF sum
  <2> QED BY <1>1, <2>1
<1>10. SumFunction(b) = sum(n)
  BY <1>2 DEF SumFunction
<1>11. \A i, j \in 1 .. n : b[i] - b[j] <= 1
  BY <1>1, <1>3
<1> HIDE DEF sum
<1> QED
  BY <1>1, <1>2, <1>9, <1>10, <1>11

ToolNames == {"code_search", "trim_context", "diff_read", "smart_read", "log_summary", "get_stats",
              "budget_planner"}

\* A list of at most one tool.
IsMention(s, tool) == s \in Seq(ToolNames) /\ \/ Len(s) = 0 /\ Range(s) = {}
                                              \/ Len(s) = 1 /\ Range(s) = {tool}
LEMMA MentionsAre ==
    ASSUME NEW words, NEW class, NEW tool \in ToolNames
    PROVE  IsMention(<<tool>>, tool) /\ IsMention(<<>>, tool) /\ IsMention(Mentions(words, class, tool), tool)
<1>1. IsMention(<<>>, tool)
  BY DEF IsMention, Range
<1>2. IsMention(<<tool>>, tool)
  BY DEF IsMention, Range
<1> QED BY <1>1, <1>2 DEF Mentions

HasThree(S) == \E a, b, c \in S : a # b /\ b # c /\ a # c

LEMMA PlannedToolsAre ==
    ASSUME NEW words
    PROVE  PlannedTools(words) \in Seq(ToolNames) /\ HasThree(Range(PlannedTools(words)))
<1> DEFINE class == IF "search" \in words THEN "search" ELSE "multi"
           m1 == Mentions(words, class, "code_search")
           m2 == Mentions(words, "multi", "trim_context")
           m3 == IF "diff" \in words THEN <<"diff_read">> ELSE Mentions(words, "large read", "smart_read")
           m4 == Mentions(words, "log", "log_summary")
           last == <<"get_stats">>
           two == <<"budget_planner", "smart_read">>
           asked == m1 \o m2 \o m3 \o m4 \o last
<1>1. IsMention(m1, "code_search")
  BY MentionsAre DEF ToolNames
<1>2. IsMention(m2, "trim_context")
  BY MentionsAre DEF ToolNames
<1>3. IsMention(m3, "diff_read") \/ IsMention(m3, "smart_read")
  BY MentionsAre DEF ToolNames
<1>4. IsMention(m4, "log_summary")
  BY MentionsAre DEF ToolNames
<1>5. IsMention(last, "get_stats") /\ Len(last) = 1
  BY MentionsAre DEF ToolNames
<1>6. two \in Seq(ToolNames) /\ Range(two) = {"budget_planner", "smart_read"}
  BY DEF ToolNames, Range
<1>7. PlannedTools(words) = IF Len(asked) < 3 THEN two \o asked ELSE asked
  BY DEF PlannedTools
<1> HIDE DEF m1, m2, m3, m4, last, two
<1>8. /\ asked \in Seq(ToolNames)
      /\ Len(asked) = Len(m1) + Len(m2) + Len(m3) + Len(m4) + Len(last)
      /\ Range(asked) = Range(m1) \cup Range(m2) \cup Range(m3) \cup Range(m4) \cup Range(last)
  <2>1. /\ m1 \in Seq(ToolNames) /\ m2 \in Seq(ToolNames) /\ m3 \in Seq(ToolNames)
        /\ m4 \in Seq(ToolNames) /\ last \in Seq(ToolNames)
    BY <1>1, <1>2, <1>3, <1>4, <1>5 DEF IsMention
  <2> DEFINE a == m1 \o m2
             b == a \o m3
             c == b \o m4
  <2>2. a \in Seq(ToolNames) /\ Len(a) = Len(m1) + Len(m2) /\ Range(a) = Range(m1) \cup Range(m2)
    BY <2>1, JoinedLists
  <2> HIDE DEF a
  <2>3. b \in Seq(ToolNames) /\ Len(b) = Len(a) + Len(m3) /\ Range(b) = Range(a) \cup Range(m3)
    <3>1. a \in Seq(ToolNames) /\ m3 \in Seq(ToolNames)
      BY <2>1, <2>2
    <3> QED BY <3>1, JoinedLists
  <2> HIDE DEF b
  <2>4. c \in Seq(ToolNames) /\ Len(c) = Len(b) + Len(m4) /\ Range(c) = Range(b) \cup Range(m4)
    <3>1. b \in Seq(ToolNames) /\ m4 \in Seq(ToolNames)
      BY <2>1, <2>3
    <3> QED BY <3>1, JoinedLists
  <2> HIDE DEF c
  <2>5. asked = c \o last
    BY DEF a, b, c
  <2> HIDE DEF asked
  <2>6. asked \in Seq(ToolNames) /\ Len(asked) = Len(c) + Len(last) /\ Range(asked) = Range(c) \cup Range(last)
    BY <2>1, <2>4, <2>5, JoinedLists
  <2> QED BY <2>2, <2>3, <2>4, <2>6
<1> HIDE DEF asked
<1>9. CASE Len(asked) < 3
  <2>1. two \o asked \in Seq(ToolNames) /\ Range(two \o asked) = Range(two) \cup Range(asked)
    BY <1>6, <1>8, JoinedLists
  <2>2. "get_stats" \in Range(asked)
    BY <1>5, <1>8 DEF IsMention
  <2>3. {"budget_planner", "smart_read", "get_stats"} \subseteq Range(two \o asked)
    BY <1>6, <2>1, <2>2
  <2> QED BY <1>7, <1>9, <2>1, <2>3 DEF HasThree
<1>10. CASE ~ (Len(asked) < 3)
  <2> DEFINE R == Range(asked)
  <2>1. "get_stats" \in R
    BY <1>5, <1>8 DEF IsMention
  <2>2. /\ Len(m1) \in {0, 1} /\ (Len(m1) = 1 => "code_search" \in R)
        /\ Len(m2) \in {0, 1} /\ (Len(m2) = 1 => "trim_context" \in R)
        /\ Len(m3) \in {0, 1} /\ (Len(m3) = 1 => "diff_read" \in R \/ "smart_read" \in R)
        /\ Len(m4) \in {0, 1} /\ (Len(m4) = 1 => "log_summary" \in R)
    BY <1>1, <1>2, <1>3, <1>4, <1>8 DEF IsMention
  <2>3. Len(m1) + Len(m2) + Len(m3) + Len(m4) >= 2
    BY <1>5, <1>8, <1>10, <2>2
  <2> HIDE DEF R
  <2>4. \E a, b \in R \ {"get_stats"} : a # b
    <3>1. \/ {"code_search", "trim_context"} \subseteq R
          \/ {"code_search", "diff_read"} \subseteq R
          \/ {"code_search", "smart_read"} \subseteq R
          \/ {"code_search", "log_summary"} \subseteq R
          \/ {"trim_context", "diff_read"} \subseteq R
          \/ {"trim_context", "smart_read"} \subseteq R
          \/ {"trim_context", "log_summary"} \subseteq R
          \/ {"diff_read", "log_summary"} \subseteq R
          \/ {"smart_read", "log_summary"} \subseteq R
      <4>1. \/ Len(m1) = 1 /\ Len(m2) = 1
            \/ Len(m1) = 1 /\ Len(m3) = 1
            \/ Len(m1) = 1 /\ Len(m4) = 1
            \/ Len(m2) = 1 /\ Len(m3) = 1
            \/ Len(m2) = 1 /\ Len(m4) = 1
            \/ Len(m3) = 1 /\ Len(m4) = 1
        <5>1. \A a, b, c, d \in {0, 1} : a + b + c + d >= 2 =>
                \/ (a = 1 /\ b = 1) \/ (a = 1 /\ c = 1) \/ (a = 1 /\ d = 1)
                \/ (b = 1 /\ c = 1) \/ (b = 1 /\ d = 1) \/ (c = 1 /\ d = 1)
          OBVIOUS
        <5> QED BY <2>2, <2>3, <5>1
      <4> QED BY <2>2, <4>1, Zenon
    <3>2. ASSUME NEW a, NEW b, {a, b} \subseteq R, a # b, a # "get_stats", b # "get_stats"
          PROVE  \E c, d \in R \ {"get_stats"} : c # d
      BY <3>2
    <3> QED BY <3>1, <3>2
  <2>5. HasThree(R)
    BY <2>1, <2>4 DEF HasThree
  <2> QED BY <1>7, <1>8, <1>10, <2>5 DEF R
<1> QED BY <1>9, <1>10

\* What a plan promises: its budgets add up to the budget, evenly, over three
\* tools or more, all different.
PlanPromise(x, r) ==
    /\ SumFunction(r.budgets) = x.maxBudget
    /\ Len(r.tools) >= 3 /\ IsInjective(r.tools)
    /\ \A i, j \in DOMAIN r.budgets : r.budgets[i] - r.budgets[j] <= 1

LEMMA PlanBudgetPromises ==
    ASSUME NEW x, IsInput("budget_planner", x), NEW r, r = PlanBudget(x.words, x.maxBudget)
    PROVE  PlanPromise(x, r)
<1> DEFINE planned == PlannedTools(x.words)
           tools == Unique(planned)
           n == Len(tools)
           budgets == AllocateStepBudgets(x.maxBudget, n)
<1>1. x.maxBudget \in Nat
  BY DEF IsInput
<1>2. planned \in Seq(ToolNames) /\ HasThree(Range(planned))
  BY PlannedToolsAre
<1>3. r.tools = tools /\ r.budgets = budgets
  BY DEF PlanBudget
<1> HIDE DEF planned
<1>4. tools \in Seq(ToolNames) /\ Range(tools) = Range(planned) /\ IsInjective(tools)
  BY <1>2, UniqueAre
<1> HIDE DEF tools
<1>5. n \in Nat /\ DOMAIN tools = 1 .. n
  BY <1>4
<1>6. n >= 3
  <2>1. PICK a \in Range(tools), b \in Range(tools), c \in Range(tools) : a # b /\ b # c /\ a # c
    BY <1>2, <1>4 DEF HasThree
  <2>2. PICK i \in DOMAIN tools, j \in DOMAIN tools, k \in DOMAIN tools :
            tools[i] = a /\ tools[j] = b /\ tools[k] = c
    BY <2>1 DEF Range
  <2>3. i \in 1 .. n /\ j \in 1 .. n /\ k \in 1 .. n
    BY <1>5, <2>2
  <2>4. i # j /\ j # k /\ i # k
    BY <2>1, <2>2
  <2> QED BY <1>5, <2>3, <2>4
<1> HIDE DEF n
<1>7. /\ DOMAIN budgets = 1 .. n
      /\ SumFunction(budgets) = x.maxBudget
      /\ \A i, j \in 1 .. n : budgets[i] - budgets[j] <= 1
  BY <1>1, <1>5, <1>6, BudgetsAddUp
<1> HIDE DEF budgets
<1> QED
  BY <1>3, <1>4, <1>6, <1>7, Zenon DEF PlanPromise, n

-----------------------------------------------------------------------------
(* code_search.                                                            *)

\* The first line with most terms of the query.
LEMMA BestLineIs ==
    ASSUME NEW lines \in Seq([found : Nat, tokens : Nat]) \ {<<>>}
    PROVE  BestLine(lines) \in DOMAIN lines
<1> DEFINE D == DOMAIN lines
           n == Len(lines)
           all == {lines[i].found : i \in D}
           most == {i \in D : \A j \in D : lines[j].found <= lines[i].found}
           found == [i \in D |-> lines[i].found]
<1>1. D = 1 .. n /\ n \in Nat /\ n # 0 /\ IsFiniteSet(D)
  <2>1. D = 1 .. n /\ n \in Nat /\ n # 0
    OBVIOUS
  <2>2. IsFiniteSet(1 .. n)
    BY <2>1, FS_Interval
  <2> QED BY <2>1, <2>2
<1>2. \A i \in D : lines[i].found \in Nat
  <2>1. \A i \in D : lines[i] \in [found : Nat, tokens : Nat]
    BY ItemsOf
  <2> HIDE DEF D
  <2> QED BY <2>1
<1> HIDE DEF D, n
<1>3. IsFiniteSet(all)
  <2>1. found \in Surjection(D, all)
    BY DEF Surjection
  <2> HIDE DEF found, all
  <2> QED BY <1>1, <2>1, FS_Surjection
<1>4. all \in SUBSET Int /\ all # {}
  <2>1. 1 \in D
    BY <1>1
  <2> QED BY <1>2, <2>1
<1>5. Max(all) \in all /\ \A c \in all : Max(all) >= c
  <2> HIDE DEF all
  <2> QED BY <1>3, <1>4, MaxIs
<1>6. PICK i \in D : Max(all) = lines[i].found
  BY <1>5
<1>7. i \in most
  BY <1>2, <1>5, <1>6
<1>8. most \in SUBSET (1 .. n) /\ 1 \in Int /\ n \in Int
  BY <1>1
<1> HIDE DEF most
<1>9. most \in SUBSET Int /\ IsFiniteSet(most)
  BY <1>8, Bounded
<1>10. Min(most) \in most
  BY <1>7, <1>9, MinIs
<1>11. BestLine(lines) = Min(most)
  BY DEF BestLine, most, D
<1> QED BY <1>10, <1>11 DEF most, D

\* A snippet is within the budget.
LEMMA SnippetFits ==
    ASSUME NEW file, file.lines \in Seq([found : Nat, tokens : Nat]) \ {<<>>}, NEW budget \in Nat
    PROVE  /\ Snippet(file, budget).path = file.path
           /\ Snippet(file, budget).tokens \in Nat /\ Snippet(file, budget).tokens <= budget
<1> DEFINE lines == file.lines
           n == Len(lines)
           best == BestLine(lines)
           first == Max({1, best - HalfWindow})
           end == Min({n, best + HalfWindow})
           fits == {e \in first - 1 .. end : e = first - 1 \/ TokensIn(lines, first .. e) <= budget}
           last == SnippetEnd(lines, first, end, budget)
<1>1. n \in Nat /\ DOMAIN lines = 1 .. n /\ HasTokens(lines)
  <2>1. n \in Nat /\ DOMAIN lines = 1 .. n
    OBVIOUS
  <2>2. \A i \in DOMAIN lines : lines[i] \in [found : Nat, tokens : Nat]
    BY ItemsOf
  <2> HIDE DEF lines
  <2> QED BY <2>1, <2>2 DEF HasTokens
<1>2. best \in 1 .. n
  BY <1>1, BestLineIs
<1>3. HalfWindow \in Nat
  BY ToolboxAssumption
<1>4. Snippet(file, budget) = [path |-> file.path, line |-> best, first |-> first, last |-> last,
                               tokens |-> TokensIn(lines, first .. last)]
  BY DEF Snippet
<1>5. last = Max(fits)
  BY DEF SnippetEnd
<1> HIDE DEF best, lines, n, last
<1>6. 1 \in Int /\ best - HalfWindow \in Int /\ n \in Int /\ best + HalfWindow \in Int
  BY <1>1, <1>2, <1>3
<1>7. first \in {1, best - HalfWindow} /\ first >= 1
  BY <1>6, OfTwo
<1>8. end \in {n, best + HalfWindow} /\ end <= n
  BY <1>6, OfTwo
<1> HIDE DEF first, end
<1>9. first - 1 \in Int /\ first \in 1 .. best /\ end \in Int /\ first - 1 <= end
  BY <1>1, <1>2, <1>3, <1>7, <1>8
<1>10. fits \in SUBSET (first - 1 .. end) /\ first - 1 \in fits
  BY <1>9
<1>11. Max(fits) \in fits
  <2> HIDE DEF fits
  <2>1. fits \in SUBSET Int /\ IsFiniteSet(fits)
    BY <1>9, <1>10, Bounded
  <2> QED BY <1>10, <2>1, MaxIs
<1>13. TokensIn(lines, first .. last) \in Nat
  <2>1. last \in first - 1 .. end
    BY <1>5, <1>10, <1>11
  <2>2. first .. last \subseteq DOMAIN lines
    BY <1>1, <1>8, <1>9, <2>1
  <2> QED BY <1>1, <2>2, TokensInAre
<1>12. TokensIn(lines, first .. last) <= budget
  <2>1. CASE last = first - 1
    <3>1. first .. last = {}
      BY <1>9, <2>1
    <3>2. TokensIn(lines, {}) = 0
      BY <1>1, TokensInAre
    <3>3. TokensIn(lines, first .. last) = TokensIn(lines, {})
      BY <3>1, Zenon
    <3>4. 0 <= budget
      OBVIOUS
    <3> QED BY <3>2, <3>3, <3>4
  <2>2. CASE TokensIn(lines, first .. last) <= budget
    BY <2>2
  <2> QED BY <1>5, <1>11, <2>1, <2>2
<1> QED BY <1>4, <1>12, <1>13

\* What a search promises: it keeps its limits, and passes over a file with a
\* term of the query only for better ones.
SearchPromise(x, r) ==
    /\ Len(r.files) <= MaxFiles
    /\ Len(r.hits) <= x.maxResults
    /\ \A k \in DOMAIN r.hits : r.hits[k].tokens <= x.budget
    /\ LET shown == {r.hits[k].path : k \in DOMAIN r.hits} IN
       \A i \in DOMAIN r.files :
           r.files[i].terms \cap x.query # {} /\ r.files[i].path \notin shown =>
               /\ Len(r.hits) = x.maxResults
               /\ \A j \in DOMAIN r.files :
                     r.files[j].path \in shown => r.files[j].weight >= r.files[i].weight

\* The files that a walk may have read.
AreFound(x, files) ==
    /\ files \in Seq(DirectoryEntry)
    /\ Len(files) <= MaxFiles
    /\ Range(files) \subseteq EntriesOf(x.tree)

\* The order of the hits.
LEMMA BestFirst ==
    ASSUME NEW n \in Nat, NEW score \in [1 .. n -> Int], NEW found,
           found = Kept(ByScore(score), {i \in DOMAIN score : score[i] > 0})
    PROVE  /\ found \in Seq(1 .. n)
           /\ Range(found) = {i \in 1 .. n : score[i] > 0}
           /\ \A k, m \in DOMAIN found : k < m => score[found[k]] >= score[found[m]]
<1> DEFINE order == ByScore(score)
           S == {i \in DOMAIN score : score[i] > 0}
<1>1. IsByScore(order, score)
  BY ByScoreIs
<1>2. order \in Seq(1 .. n) /\ Range(order) = 1 .. n
  BY <1>1 DEF IsByScore
<1>3. S \subseteq 1 .. n /\ S = {i \in 1 .. n : score[i] > 0}
  OBVIOUS
<1> HIDE DEF order, S
<1>4. /\ found \in Seq(1 .. n) /\ Range(found) = Range(order) \cap S
      /\ KeepsOrder(found, order)
  <2>1. found = Kept(order, S)
    BY DEF order, S
  <2>2. order \in Seq(1 .. n)
    BY <1>2
  <2> HIDE DEF order
  <2>3. /\ Kept(order, S) \in Seq(1 .. n) /\ Range(Kept(order, S)) = Range(order) \cap S
        /\ KeepsOrder(Kept(order, S), order)
    BY <2>2, KeptAre
  <2> QED BY <2>1, <2>3, Zenon
<1>5. ASSUME NEW k \in DOMAIN found, NEW m \in DOMAIN found, k < m
      PROVE  score[found[k]] >= score[found[m]]
  <2>1. PICK i \in DOMAIN order, j \in DOMAIN order :
            i < j /\ found[k] = order[i] /\ found[m] = order[j]
    BY <1>4, <1>5 DEF KeepsOrder
  <2>2. i <= j
    BY <1>2, <2>1
  <2> QED BY <1>1, <2>1, <2>2 DEF IsByScore
<1> QED BY <1>2, <1>3, <1>4, <1>5

\* Scores of files whose weights are positive.
LEMMA ScoresOfFound ==
    ASSUME NEW files \in Seq(DirectoryEntry), NEW query \in SUBSET Term
    PROVE  /\ Scores(files, query) \in [1 .. Len(files) -> Int]
           /\ \A i \in DOMAIN files :
                 /\ Scores(files, query)[i] > 0 => Scores(files, query)[i] = files[i].weight
                 /\ files[i].terms \cap query # {} => Scores(files, query)[i] > 0
<1> DEFINE score == Scores(files, query)
<1>1. Len(files) \in Nat /\ DOMAIN files = 1 .. Len(files) /\ \A i \in DOMAIN files : files[i] \in DirectoryEntry
  BY ItemsOf
<1>2. \A i \in DOMAIN files : files[i].weight \in Nat \ {0}
  BY <1>1 DEF DirectoryEntry
<1>3. score \in [1 .. Len(files) -> {NaN} \cup Nat]
  BY <1>1, <1>2, ScoresAre
<1>4. NaN = -1
  BY DEF NaN
<1>5. \A i \in DOMAIN files :
        score[i] = IF query = {} THEN 0
                   ELSE IF \A j \in DOMAIN files : files[j].terms = {} THEN NaN
                   ELSE IF files[i].terms \cap query = {} THEN 0 ELSE files[i].weight
  BY DEF Scores
<1> HIDE DEF score
<1>6. score \in [1 .. Len(files) -> Int]
  BY <1>3, <1>4
<1>7. ASSUME NEW i \in DOMAIN files
      PROVE  /\ score[i] > 0 => score[i] = files[i].weight
             /\ files[i].terms \cap query # {} => score[i] > 0
  <2>1. score[i] \in {0, NaN, files[i].weight}
    BY <1>5
  <2>2. ASSUME files[i].terms \cap query # {} PROVE score[i] = files[i].weight
    BY <1>5, <2>2
  <2>3. files[i].weight \in Nat \ {0}
    BY <1>2
  <2>4. files[i].weight > 0
    BY <2>3
  <2> QED BY <1>4, <2>1, <2>2, <2>4
<1> QED BY <1>6, <1>7 DEF score

LEMMA SearchPromises ==
    ASSUME NEW x, IsInput("code_search", x), x.query # Blank, NEW files, AreFound(x, files), NEW h,
           h = SearchHits(files, x.query, x.maxResults, x.budget),
           NEW r, r.files = files, r.hits = h.hits
    PROVE  /\ SearchPromise(x, r)
           /\ Len(h.hits) \in Nat /\ Sum(h.hits) \in Nat /\ h.tokensSaved \in Int
<1> DEFINE n == Len(files)
           score == Scores(files, x.query)
           found == Kept(ByScore(score), {i \in DOMAIN score : score[i] > 0})
           m == Min({Len(found), x.maxResults})
           best == SubSeq(found, 1, m)
           shown == {r.hits[k].path : k \in DOMAIN r.hits}
<1>1. /\ x.query \in SUBSET Term /\ x.maxResults \in Nat /\ x.budget \in Nat
      /\ IsTree(x.tree)
  <2>1. x \in [tree : {x.tree}, query : QueryTerms, maxResults : Nat, budget : Nat] /\ IsTree(x.tree)
    BY DEF IsInput
  <2>2. x.query \in QueryTerms /\ x.maxResults \in Nat /\ x.budget \in Nat
    BY <2>1
  <2> QED BY <2>1, <2>2 DEF QueryTerms
<1>2. files \in Seq(DirectoryEntry) /\ n <= MaxFiles /\ Range(files) \subseteq EntriesOf(x.tree)
  BY DEF AreFound
<1>3. n \in Nat /\ DOMAIN files = 1 .. n /\ \A i \in DOMAIN files : files[i] \in DirectoryEntry
  BY <1>2, ItemsOf
<1>4. r.hits = [k \in DOMAIN best |-> Snippet(files[best[k]], x.budget)]
  BY DEF SearchHits
<1>5. /\ score \in [1 .. n -> Int]
      /\ \A i \in 1 .. n : /\ score[i] > 0 => score[i] = files[i].weight
                           /\ files[i].terms \cap x.query # {} => score[i] > 0
  BY <1>1, <1>2, <1>3, ScoresOfFound
<1> HIDE DEF score, n
<1>6. /\ found \in Seq(1 .. n)
      /\ Range(found) = {i \in 1 .. n : score[i] > 0}
      /\ \A k, l \in DOMAIN found : k < l => score[found[k]] >= score[found[l]]
  BY <1>3, <1>5, BestFirst
<1> HIDE DEF found
<1>7. Len(found) \in Nat /\ DOMAIN found = 1 .. Len(found) /\ \A k \in DOMAIN found : found[k] \in 1 .. n
  BY <1>6, ItemsOf
<1>8. m \in 0 .. Len(found) /\ m <= x.maxResults /\ m \in {Len(found), x.maxResults}
  <2>1. Len(found) \in Int /\ x.maxResults \in Int
    BY <1>1, <1>7
  <2>2. m \in {Len(found), x.maxResults} /\ m <= Len(found) /\ m <= x.maxResults
    BY <2>1, OfTwo
  <2> HIDE DEF m
  <2> QED BY <1>1, <1>7, <2>2
<1> HIDE DEF m
<1>9. DOMAIN best = 1 .. m /\ \A k \in 1 .. m : best[k] = found[k]
  <2>1. found \in Seq(1 .. n)
    BY <1>6
  <2> QED BY <1>8, <2>1, FrontOf
<1> HIDE DEF best
<1>10. DOMAIN r.hits = 1 .. m /\ Len(r.hits) = m
  BY <1>4, <1>8, <1>9
<1>11. ASSUME NEW k \in 1 .. m
       PROVE  /\ found[k] \in 1 .. n /\ k \in DOMAIN found
              /\ r.hits[k].path = files[found[k]].path
              /\ r.hits[k].tokens \in Nat /\ r.hits[k].tokens <= x.budget
  <2>1. k \in DOMAIN found /\ found[k] \in 1 .. n
    BY <1>7, <1>8
  <2>2. r.hits[k] = Snippet(files[found[k]], x.budget)
    BY <1>4, <1>9
  <2> DEFINE file == files[found[k]]
  <2>3. file \in DirectoryEntry
    BY <1>3, <2>1
  <2>4. file.lines \in Seq([found : Nat, tokens : Nat]) \ {<<>>}
    <3> HIDE DEF file
    <3> QED BY <2>3 DEF DirectoryEntry
  <2> HIDE DEF file
  <2>5. /\ Snippet(file, x.budget).path = file.path
        /\ Snippet(file, x.budget).tokens \in Nat /\ Snippet(file, x.budget).tokens <= x.budget
    BY <1>1, <2>4, SnippetFits
  <2> QED BY <2>1, <2>2, <2>5 DEF file
<1>12. ASSUME NEW i \in DOMAIN files, files[i].terms \cap x.query # {}, files[i].path \notin shown
       PROVE  /\ Len(r.hits) = x.maxResults
              /\ \A j \in DOMAIN files : files[j].path \in shown => files[j].weight >= files[i].weight
  <2>1. score[i] > 0 /\ score[i] = files[i].weight /\ i \in 1 .. n
    BY <1>3, <1>5, <1>12
  <2>2. PICK l \in DOMAIN found : found[l] = i
    BY <1>6, <2>1 DEF Range
  <2>3. ~ (l \in 1 .. m)
    BY <1>10, <1>11, <1>12, <2>2
  <2> DEFINE total == Len(found)
  <2>4. l \in 1 .. total /\ total \in Nat /\ m \in 0 .. total
    BY <1>7, <1>8, <2>2
  <2>5. m \in {total, x.maxResults}
    BY <1>8
  <2> HIDE DEF total
  <2>6. m < l
    BY <2>3, <2>4
  <2>7. m = x.maxResults
    BY <2>4, <2>5, <2>6
  <2>8. ASSUME NEW j \in DOMAIN files, files[j].path \in shown
        PROVE  files[j].weight >= files[i].weight
    <3>1. PICK k \in 1 .. m : r.hits[k].path = files[j].path
      BY <1>10, <2>8
    <3>2. k \in DOMAIN found /\ found[k] \in 1 .. n /\ files[found[k]].path = files[j].path
      BY <1>11, <3>1
    <3>3. files[found[k]] \in EntriesOf(x.tree) /\ files[j] \in EntriesOf(x.tree)
      BY <1>2, <1>3, <3>2 DEF Range
    <3>4. files[found[k]] = files[j]
      BY <1>1, <3>2, <3>3 DEF IsTree
    <3>5. k < l
      BY <2>4, <2>6
    <3>6. score[found[k]] >= score[i]
      BY <1>6, <2>2, <3>2, <3>5
    <3>7. score[found[k]] \in Int /\ score[i] \in Int
      BY <1>5, <2>1, <3>2
    <3>8. score[found[k]] > 0
      BY <2>1, <3>6, <3>7
    <3>9. score[found[k]] = files[found[k]].weight
      BY <1>5, <3>2, <3>8
    <3> QED BY <2>1, <3>4, <3>6, <3>9
  <2> QED BY <1>10, <2>7, <2>8
<1>13. \A k \in DOMAIN r.hits : r.hits[k].tokens <= x.budget
  BY <1>10, <1>11
<1>14. Len(h.hits) \in Nat /\ Sum(h.hits) \in Nat
  <2> DEFINE hits == r.hits
  <2>0. m \in Nat
    <3> DEFINE total == Len(found)
    <3>1. total \in Nat /\ m \in 0 .. total
      BY <1>7, <1>8
    <3> HIDE DEF total
    <3> QED BY <3>1
  <2>1. DOMAIN hits = 1 .. m /\ Len(hits) = m /\ m \in Nat
    BY <1>10, <2>0
  <2>2. \A k \in 1 .. m : hits[k].tokens \in Nat
    BY <1>11
  <2> HIDE DEF hits
  <2>3. HasTokens(hits)
    BY <2>1, <2>2 DEF HasTokens
  <2>4. Len(hits) \in Nat /\ Sum(hits) \in Nat
    BY <2>1, <2>3, TokensInAre
  <2> QED BY <2>4 DEF hits
<1>15. h.tokensSaved \in Int
  <2> DEFINE cost == TokensAt(files, best)
             d == cost - Sum(h.hits)
  <2>1. best \in Seq(DOMAIN files)
    <3>1. found \in Seq(1 .. n)
      BY <1>6
    <3>2. best \in Seq(1 .. n)
      BY <1>8, <3>1, FrontOf DEF best
    <3> QED BY <1>3, <3>2
  <2>2. HasTokens(files)
    BY <1>3 DEF HasTokens, DirectoryEntry, n
  <2>3. cost \in Nat
    BY <2>1, <2>2, TokensAtAre
  <2>4. h.tokensSaved = Max({0, d})
    BY DEF SearchHits, best, found, score, m
  <2> HIDE DEF cost
  <2>5. d \in Int /\ 0 \in Int
    BY <1>14, <2>3
  <2> HIDE DEF d
  <2> QED BY <2>4, <2>5, OfTwo
<1>16. SearchPromise(x, r)
  BY <1>2, <1>8, <1>10, <1>12, <1>13 DEF SearchPromise, n
<1> QED
  BY <1>14, <1>15, <1>16

-----------------------------------------------------------------------------
(* The walk of code_search.                                                *)

LEMMA WalkFinds ==
    ASSUME NEW x, IsTree(x.tree), NEW files, AreFound(x, files),
           NEW rest \in Seq(DOMAIN x.tree), NEW d \in DOMAIN x.tree, NEW gone,
           NEW w, w = WalkDirectory(files, rest, x.tree[d], gone)
    PROVE  AreFound(x, w.files) /\ w.queue \in Seq(DOMAIN x.tree)
<1> DEFINE entries == x.tree[d]
           seen == {e \in Range(entries) : ~ e.hidden /\ ~ e.ignored}
           readable == {e \in seen : ~ e.dir /\ e.code /\ ~ e.big /\ e.path \notin gone}
           below == {e \in seen : e.dir}
           more == Kept(entries, readable)
           read == files \o more
           dirs == Kept(entries, below)
           m == Min({Len(read), MaxFiles})
           paths == [k \in DOMAIN dirs |-> dirs[k].path]
<1>1. entries \in Seq(DirectoryEntry) /\ Range(entries) \subseteq EntriesOf(x.tree)
  <2>1. Range(entries) \subseteq EntriesOf(x.tree)
    BY DEF EntriesOf
  <2> QED BY <2>1 DEF IsTree
<1>2. below \subseteq Range(entries) /\ \A e \in below : e.dir
  OBVIOUS
<1>3. w = [files |-> SubSeq(read, 1, m), queue |-> rest \o paths]
  BY DEF WalkDirectory
<1> HIDE DEF entries, readable, below
<1>4. more \in Seq(DirectoryEntry) /\ Range(more) = Range(entries) \cap readable
  BY <1>1, KeptAre
<1>5. dirs \in Seq(DirectoryEntry) /\ Range(dirs) = Range(entries) \cap below
  BY <1>1, KeptAre
<1> HIDE DEF more, dirs
<1>6. AreFound(x, SubSeq(read, 1, m))
  <2>1. files \in Seq(DirectoryEntry) /\ Range(files) \subseteq EntriesOf(x.tree)
    BY DEF AreFound
  <2>2. read \in Seq(DirectoryEntry) /\ Range(read) = Range(files) \cup Range(more)
    BY <1>4, <2>1, JoinedLists
  <2> HIDE DEF read
  <2>3. Len(read) \in Nat /\ DOMAIN read = 1 .. Len(read)
    BY <2>2, ItemsOf
  <2>4. MaxFiles \in Nat
    BY ToolboxAssumption
  <2>5. m \in 0 .. Len(read) /\ m <= MaxFiles
    <3>1. Len(read) \in Int /\ MaxFiles \in Int
      BY <2>3, <2>4
    <3>2. m \in {Len(read), MaxFiles} /\ m <= Len(read) /\ m <= MaxFiles
      BY <3>1, OfTwo
    <3> HIDE DEF m
    <3> QED BY <2>3, <2>4, <3>2
  <2> HIDE DEF m
  <2> DEFINE front == SubSeq(read, 1, m)
  <2>6. /\ front \in Seq(DirectoryEntry) /\ Len(front) = m /\ DOMAIN front = 1 .. m
        /\ \A k \in 1 .. m : front[k] = read[k]
    BY <2>2, <2>5, FrontOf
  <2> HIDE DEF front
  <2>7. 1 .. m \subseteq DOMAIN read
    BY <2>3, <2>5
  <2>8. Range(front) \subseteq Range(read)
    BY <2>6, <2>7 DEF Range
  <2>9. AreFound(x, front)
    BY <1>1, <1>4, <2>1, <2>2, <2>5, <2>6, <2>8 DEF AreFound
  <2> QED BY <2>9 DEF front
<1>7. rest \o paths \in Seq(DOMAIN x.tree)
  <2>1. Len(dirs) \in Nat /\ DOMAIN dirs = 1 .. Len(dirs)
    BY <1>5, ItemsOf
  <2>2. ASSUME NEW k \in DOMAIN dirs PROVE dirs[k].path \in DOMAIN x.tree
    <3>1. dirs[k] \in Range(dirs)
      BY DEF Range
    <3>2. dirs[k] \in EntriesOf(x.tree) /\ dirs[k].dir
      BY <1>1, <1>2, <1>5, <3>1
    <3> QED BY <3>2 DEF IsTree
  <2>3. paths \in [1 .. Len(dirs) -> DOMAIN x.tree]
    BY <2>1, <2>2
  <2>4. paths \in Seq(DOMAIN x.tree)
    <3> HIDE DEF paths
    <3> QED BY <2>1, <2>3
  <2> HIDE DEF paths
  <2> QED BY <2>4
<1> HIDE DEF read, m, paths
<1> QED
  BY <1>3, <1>6, <1>7

-----------------------------------------------------------------------------
(* smart_read.                                                             *)

\* What an outline promises: all names but those that it leaves out without a
\* mark.
ShowsNames(n, names) == Range(n.names) \ Unmarked(n) \subseteq names
OutlinePromise(f, r) == r.kind = "symbols" => \A k \in DOMAIN f.nodes : ShowsNames(f.nodes[k], r.names)

LEMMA HeadAndTail ==
    ASSUME NEW S, NEW s \in Seq(S), s # <<>>
    PROVE  Head(s) \in S /\ Range(s) = {Head(s)} \cup Range(Tail(s))
<1>1. Len(s) \in Nat /\ Len(s) # 0 /\ DOMAIN s = 1 .. Len(s) /\ Head(s) = s[1]
  OBVIOUS
<1>2. /\ DOMAIN Tail(s) = 1 .. Len(s) - 1
      /\ \A k \in 1 .. Len(s) - 1 : Tail(s)[k] = s[k + 1]
  OBVIOUS
<1>3. ASSUME NEW k \in DOMAIN s PROVE s[k] \in {Head(s)} \cup Range(Tail(s))
  <2>1. CASE k = 1
    BY <1>1, <2>1
  <2>2. CASE k # 1
    <3>1. k - 1 \in DOMAIN Tail(s) /\ Tail(s)[k - 1] = s[k]
      BY <1>1, <1>2, <2>2
    <3> QED BY <3>1 DEF Range
  <2> QED BY <2>1, <2>2
<1>4. ASSUME NEW k \in DOMAIN Tail(s) PROVE Tail(s)[k] \in Range(s)
  <2>1. k + 1 \in DOMAIN s /\ Tail(s)[k] = s[k + 1]
    BY <1>1, <1>2
  <2> QED BY <2>1 DEF Range
<1>5. Head(s) \in Range(s) /\ Head(s) \in S
  BY <1>1 DEF Range
<1> QED BY <1>3, <1>4, <1>5 DEF Range

LEMMA BlankedShows ==
    ASSUME NEW n, n.names \in Seq(STRING), n.names # <<>>
    PROVE  /\ Head(n.names) \in Blanked(n).names
           /\ Len(n.names) = 1 => Blanked(n).names = Range(n.names)
<1>1. DOMAIN n.names = 1 .. Len(n.names) /\ Len(n.names) \in Nat /\ Len(n.names) # 0
  OBVIOUS
<1>2. Head(n.names) = n.names[1]
  OBVIOUS
<1>3. Head(n.names) \in Range(n.names)
  BY <1>1, <1>2 DEF Range
<1>4. Len(n.names) = 1 => Range(n.names) = {Head(n.names)}
  BY <1>1, <1>2 DEF Range
<1>5. Blanked(n).names = IF n.head = n.tokens THEN Range(n.names) ELSE {Head(n.names)}
  BY DEF Blanked, Text
<1> QED BY <1>3, <1>4, <1>5

LEMMA ClassShows ==
    ASSUME NEW n \in Declaration, n.type = "class"
    PROVE  Range(n.names) \subseteq SummarizeClass(n).names
<1> DEFINE piece(p) == IF p.type = "method" THEN Blanked(p) ELSE Text(p)
           pieces == [k \in DOMAIN n.parts |-> piece(n.parts[k])]
           all == UNION {pieces[k].names : k \in DOMAIN pieces}
<1>1. n \in SyntaxNode(Member)
      /\ Range(n.names) = {Head(n.names)} \cup UNION {Range(p.names) : p \in Range(n.parts)}
  BY DEF Declaration
<1>2. n.parts \in Seq(Member)
  BY <1>1 DEF SyntaxNode
<1>3. \A k \in DOMAIN n.parts : n.parts[k] \in Member
  BY <1>2, ItemsOf
<1>4. ASSUME NEW p \in Member PROVE Range(p.names) \subseteq piece(p).names
  <2>1. CASE p.type = "method"
    <3>1. p.names \in Seq(STRING) /\ Len(p.names) = 1
      BY <2>1 DEF Member, SyntaxNode
    <3>2. p.names # <<>>
      <4>1. Len(<<>>) = 0 /\ 0 # 1
        OBVIOUS
      <4> QED BY <3>1, <4>1, Zenon
    <3>3. Blanked(p).names = Range(p.names)
      BY <3>1, <3>2, BlankedShows
    <3> QED BY <2>1, <3>3
  <2>2. CASE p.type # "method"
    BY <2>2 DEF Text
  <2> QED BY <2>1, <2>2
<1>5. SummarizeClass(n).names = IF n.head = n.tokens THEN Range(n.names) ELSE {Head(n.names)} \cup all
  BY DEF SummarizeClass, Joined, Text
<1> HIDE DEF piece
<1>6. ASSUME NEW p \in Range(n.parts) PROVE Range(p.names) \subseteq all
  <2>1. PICK k \in DOMAIN n.parts : n.parts[k] = p
    BY DEF Range
  <2>2. k \in DOMAIN pieces /\ pieces[k] = piece(p)
    BY <2>1
  <2>3. p \in Member
    BY <1>3, <2>1
  <2> HIDE DEF pieces
  <2> QED BY <1>4, <2>2, <2>3
<1> HIDE DEF all
<1> QED BY <1>1, <1>5, <1>6

LEMMA DeclaredShows ==
    ASSUME NEW n \in Declaration \cup {m \in SyntaxNode(Declaration) : m.type = "export"}
    PROVE  Range(n.names) \ BehindFunction(n) \subseteq SummarizeDeclared(n).names
<1>1. CASE n.type \in {"function", "closure"}
  <2>1. n.names \in Seq(STRING)
    BY <1>1 DEF Declaration, SyntaxNode
  <2>2. SummarizeDeclared(n) = Blanked(n)
    BY <1>1 DEF SummarizeDeclared
  <2>3. n.type = "function" => Len(n.names) = 1
    BY <1>1 DEF Declaration
  <2>4. n.names # <<>>
    <3>1. n.type = "closure" => n.names # <<>>
      BY <1>1 DEF Declaration
    <3>2. Len(<<>>) = 0 /\ 0 # 1
      OBVIOUS
    <3> QED BY <1>1, <2>3, <3>1, <3>2, Zenon
  <2>5. CASE n.type = "function"
    BY <2>1, <2>2, <2>3, <2>4, <2>5, BlankedShows
  <2>6. CASE n.type = "closure"
    <3>1. Range(n.names) = {Head(n.names)} \cup Range(Tail(n.names))
      BY <2>1, <2>4, HeadAndTail
    <3>2. Head(n.names) \in Blanked(n).names
      BY <2>1, <2>4, BlankedShows
    <3> QED BY <2>2, <2>6, <3>1, <3>2 DEF BehindFunction
  <2> QED BY <1>1, <2>5, <2>6
<1>2. CASE n.type = "class"
  <2>1. n \in Declaration
    BY <1>2
  <2>2. SummarizeDeclared(n) = SummarizeClass(n)
    BY <1>2 DEF SummarizeDeclared
  <2> QED BY <1>2, <2>1, <2>2, ClassShows
<1>3. CASE n.type \notin {"function", "closure", "class"}
  <2>1. SummarizeDeclared(n) = Text(n)
    BY <1>3 DEF SummarizeDeclared
  <2> QED BY <1>3, <2>1 DEF Text
<1> QED BY <1>1, <1>2, <1>3

LEMMA NodeShows ==
    ASSUME NEW n \in TopLevelNode
    PROVE  ShowsNames(n, SummarizeTopLevelNode(n).names)
<1>1. CASE n.type = "export" /\ n.parts # <<>>
  <2> DEFINE first == Head(n.parts)
             rest == Tail(n.parts)
             pieces == <<SummarizeDeclared(first)>>
  <2>1. n.parts \in Seq(Declaration)
    BY <1>1 DEF TopLevelNode, Declaration, SyntaxNode
  <2>2. first \in Declaration /\ Range(n.parts) = {first} \cup Range(rest)
    BY <1>1, <2>1, HeadAndTail
  <2>3. Range(n.names) = UNION {Range(p.names) : p \in Range(n.parts)}
    BY <1>1 DEF TopLevelNode, Declaration
  <2>4. Unmarked(n) = BehindFunction(first) \cup UNION {Range(p.names) : p \in Range(rest)}
    BY <1>1 DEF Unmarked
  <2> HIDE DEF first, rest
  <2>5. SummarizeTopLevelNode(n).names = {} \cup UNION {pieces[k].names : k \in DOMAIN pieces}
    BY <1>1 DEF SummarizeTopLevelNode, Joined, first
  <2>6. SummarizeDeclared(first).names \subseteq SummarizeTopLevelNode(n).names
    BY <2>5
  <2>7. Range(first.names) \ BehindFunction(first) \subseteq SummarizeDeclared(first).names
    BY <2>2, DeclaredShows
  <2>8. ASSUME NEW x \in Range(n.names) \ Unmarked(n) PROVE x \in Range(first.names)
    <3>1. PICK p \in Range(n.parts) : x \in Range(p.names)
      BY <2>3, <2>8, Zenon
    <3>2. CASE p = first
      BY <3>1, <3>2
    <3>3. CASE p \in Range(rest)
      BY <2>4, <2>8, <3>1, <3>3, Zenon
    <3> QED BY <2>2, <3>2, <3>3
  <2>9. ASSUME NEW x \in Range(n.names) \ Unmarked(n) PROVE x \notin BehindFunction(first)
    BY <2>4, <2>9, Zenon
  <2> QED BY <2>6, <2>7, <2>8, <2>9 DEF ShowsNames
<1>2. CASE ~ (n.type = "export" /\ n.parts # <<>>)
  <2>1. SummarizeTopLevelNode(n) = SummarizeDeclared(n) /\ Unmarked(n) = BehindFunction(n)
    BY <1>2 DEF SummarizeTopLevelNode, Unmarked
  <2>2. n \in Declaration \cup {m \in SyntaxNode(Declaration) : m.type = "export"}
    BY DEF TopLevelNode
  <2>3. Range(n.names) \ BehindFunction(n) \subseteq SummarizeDeclared(n).names
    BY <2>2, DeclaredShows
  <2> QED BY <2>1, <2>3 DEF ShowsNames
<1> QED BY <1>1, <1>2

LEMMA OutlinePromises ==
    ASSUME NEW f, f.nodes \in Seq(TopLevelNode), NEW r, r.names = Outline(f.nodes).names
    PROVE  OutlinePromise(f, r)
<1> DEFINE pieces == [k \in DOMAIN f.nodes |-> SummarizeTopLevelNode(f.nodes[k])]
<1>1. r.names = UNION {pieces[k].names : k \in DOMAIN pieces}
  BY DEF Outline, Joined
<1>2. ASSUME NEW k \in DOMAIN f.nodes PROVE ShowsNames(f.nodes[k], r.names)
  <2> DEFINE n == f.nodes[k]
  <2>1. n \in TopLevelNode
    BY ItemsOf
  <2>2. pieces[k] = SummarizeTopLevelNode(n) /\ k \in DOMAIN pieces
    OBVIOUS
  <2> HIDE DEF n, pieces
  <2>3. ShowsNames(n, SummarizeTopLevelNode(n).names)
    BY <2>1, NodeShows
  <2>4. SummarizeTopLevelNode(n).names \subseteq r.names
    BY <1>1, <2>2
  <2>5. ShowsNames(n, r.names)
    BY <2>3, <2>4 DEF ShowsNames
  <2> QED BY <2>5 DEF n
<1> QED BY <1>2 DEF OutlinePromise

\* What the budget promises: files of up to 125 lines are cut to it, if it has
\* 58 tokens at least.
BudgetPromise(f, r) ==
    r.kind = "budgeted" /\ f.text.lines <= LineLimit /\ f.budget >= 58 => r.tokensOut <= f.budget

LEMMA DigitsAre ==
    ASSUME NEW n
    PROVE  Digits(n) \in 1 .. 10
<1> DEFINE D == {d \in 1 .. 9 : 10 ^ d <= n}
<1>1. IsFiniteSet(1 .. 9) /\ Cardinality(1 .. 9) = 9
  <2>1. 1 \in Int /\ 9 \in Int
    OBVIOUS
  <2>2. IsFiniteSet(1 .. 9) /\ Cardinality(1 .. 9) = IF 1 > 9 THEN 0 ELSE 9 - 1 + 1
    BY <2>1, FS_Interval, Zenon
  <2> QED BY <2>2
<1>2. D \in SUBSET (1 .. 9)
  OBVIOUS
<1>3. Digits(n) = 1 + Cardinality(D)
  BY DEF Digits
<1> HIDE DEF D
<1>4. Cardinality(D) \in Nat /\ Cardinality(D) <= 9
  BY <1>1, <1>2, FS_Subset, FS_CardinalityType
<1> QED BY <1>3, <1>4

LEMMA InLinesIs ==
    ASSUME NEW n \in Nat \ {0}, NEW w \in Nat
    PROVE  InLines(n, w) \in Nat
<1>1. n * (w + 1) = n * w + n /\ n * w \in Nat
  OBVIOUS
<1> QED BY <1>1 DEF InLines

LEMMA TextIs ==
    ASSUME NEW t \in AnyText
    PROVE  /\ Plain(t) \in Nat /\ Length(t) \in Nat /\ Plain(t) <= Length(t)
           /\ ByLines(t) \in Nat
<1>1. t.lines \in Nat \ {0} /\ t.width \in Nat /\ t.noise \in Nat
  BY DEF AnyText
<1>2. InLines(t.lines, t.width) \in Nat
  BY <1>1, InLinesIs
<1>3. Plain(t) \in Nat /\ Length(t) \in Nat /\ Plain(t) <= Length(t)
  BY <1>1, <1>2 DEF Length, Plain
<1>4. ByLines(t) \in Nat
  <2> DEFINE head == InLines(HeadLines, t.width)
             tail == InLines(TailLines, t.width)
             a == Digits(t.lines - HeadLines - TailLines)
             b == Digits(Tokens(Plain(t)) - Tokens(head + tail))
  <2>1. head \in Nat /\ tail \in Nat
    BY <1>1, InLinesIs DEF HeadLines, TailLines
  <2>2. a \in 1 .. 10 /\ b \in 1 .. 10
    BY DigitsAre
  <2>3. ByLines(t) = head + (44 + a + b) + tail + 4
    BY DEF ByLines, Shortened
  <2> HIDE DEF head, tail, a, b
  <2> QED BY <2>1, <2>2, <2>3
<1> QED BY <1>3, <1>4

LEMMA TokensAre ==
    ASSUME NEW n \in Nat
    PROVE  /\ Tokens(n) \in Nat /\ n <= 4 * Tokens(n) /\ 4 * Tokens(n) <= n + 3
           /\ \A b \in Nat : n <= 4 * b <=> Tokens(n) <= b
<1>1. /\ Tokens(n) \in Nat /\ n <= 4 * Tokens(n) /\ 4 * Tokens(n) <= n + 3
  BY DEF Tokens
<1> QED BY <1>1

\* A budget with room for a tail is kept by the cut.
LEMMA ByCharsIs ==
    ASSUME NEW t \in AnyText, NEW b \in Nat \ {0}
    PROVE  /\ ByChars(t, 4 * b) \in Nat
           /\ b >= 58 => ByChars(t, 4 * b) <= 4 * b
<1> DEFINE head == ((4 * b) * 65) \div 100
           tail == 4 * b - head - 80
           a == Digits(Plain(t) - head - tail)
           whole == Max({0, Plain(t) + tail})
           kept == IF tail > 0 THEN tail ELSE whole
<1>1. head \in Nat /\ 100 * head <= 260 * b /\ tail = 4 * b - head - 80 /\ tail \in Int
  OBVIOUS
<1>2. a \in 1 .. 10
  BY DigitsAre
<1>3. ByChars(t, 4 * b) = head + (28 + a) + kept + 4
  BY DEF ByChars, Shortened
<1>4. Plain(t) \in Nat
  BY TextIs
<1> HIDE DEF head, tail, a
<1>5. whole \in Nat
  <2> DEFINE rest == Plain(t) + tail
  <2>1. rest \in Int /\ 0 \in Int
    BY <1>1, <1>4
  <2> HIDE DEF rest
  <2>2. Max({0, rest}) \in {0, rest} /\ Max({0, rest}) >= 0
    BY <2>1, OfTwo
  <2> QED BY <2>1, <2>2 DEF rest
<1> HIDE DEF whole
<1>6. kept \in Nat /\ (tail > 0 => kept = tail)
  BY <1>1, <1>5
<1> HIDE DEF kept
<1>7. b >= 58 => tail > 0
  BY <1>1
<1> QED BY <1>1, <1>2, <1>3, <1>6, <1>7

LEMMA CutFits ==
    ASSUME NEW t \in AnyText, NEW b \in Nat \ {0}
    PROVE  /\ Tokens(CompressToolOutput(t, 1, 4 * b)) \in Nat
           /\ Tokens(Length(t)) \in Nat
           /\ t.lines <= LineLimit /\ b >= 58 => Tokens(CompressToolOutput(t, 1, 4 * b)) <= b
<1> DEFINE cut == Normalized(t, 4 * b)
           long == Length(t)
           out == CompressToolOutput(t, 1, 4 * b)
<1>1. Plain(t) \in Nat /\ long \in Nat /\ Plain(t) <= long /\ ByLines(t) \in Nat
  BY TextIs
<1>2. ByChars(t, 4 * b) \in Nat /\ (b >= 58 => ByChars(t, 4 * b) <= 4 * b)
  BY ByCharsIs
<1>3. /\ cut \in Nat
      /\ Plain(t) <= 4 * b => cut = Plain(t)
      /\ t.lines <= LineLimit /\ b >= 58 => cut <= 4 * b
  <2>1. t.lines \in Nat /\ LineLimit = 125
    BY DEF AnyText, LineLimit, HeadLines, TailLines
  <2> QED BY <1>1, <1>2, <2>1 DEF Normalized
<1>4. /\ out \in {long, cut}
      /\ out = long => Tokens(long) < 1 \/ Tokens(cut) >= Tokens(long) \/ cut = long
  BY DEF CompressToolOutput
<1> HIDE DEF cut, long, out
<1>5. /\ Tokens(cut) \in Nat /\ Tokens(long) \in Nat
      /\ (cut <= 4 * b <=> Tokens(cut) <= b)
  BY <1>1, <1>3, TokensAre
<1>6. /\ Tokens(out) \in Nat
      /\ t.lines <= LineLimit /\ b >= 58 => Tokens(out) <= b
  <2> HIDE DEF out
  <2>1. t.lines <= LineLimit /\ b >= 58 => Tokens(cut) <= b
    BY <1>3, <1>5
  <2>2. CASE out = cut
    BY <1>5, <2>1, <2>2
  <2>3. CASE out = long /\ out # cut
    <3>1. Tokens(long) < 1 \/ Tokens(cut) >= Tokens(long)
      BY <1>4, <2>3
    <3> QED BY <1>5, <2>1, <2>3, <3>1
  <2> QED BY <1>4, <2>2, <2>3
<1> QED BY <1>5, <1>6 DEF out, long

\* The tokens of an outline are a number.
LEMMA JoinedTokens ==
    ASSUME NEW tokens \in Nat, NEW names, NEW n \in Nat, NEW pieces, Len(pieces) = n,
           DOMAIN pieces = 1 .. n, \A k \in 1 .. n : pieces[k].tokens \in Nat
    PROVE  Joined(tokens, names, pieces).tokens \in Nat
<1>1. HasTokens(pieces)
  BY DEF HasTokens
<1>2. Sum(pieces) \in Nat
  BY <1>1, TokensInAre
<1> QED BY <1>2 DEF Joined

LEMMA BlankedTokens ==
    ASSUME NEW n, n.tokens \in Nat, n.head \in Nat
    PROVE  Blanked(n).tokens \in Nat /\ Text(n).tokens \in Nat
BY ToolboxAssumption DEF Blanked, Text

LEMMA DeclaredTokens ==
    ASSUME NEW Part, NEW n, n \in SyntaxNode(Part), n.type = "class" => Part = Member
    PROVE  SummarizeDeclared(n).tokens \in Nat
<1>1. n.tokens \in Nat /\ n.head \in Nat /\ n.parts \in Seq(Part)
  BY DEF SyntaxNode
<1>2. Blanked(n).tokens \in Nat /\ Text(n).tokens \in Nat
  BY <1>1, BlankedTokens
<1>3. CASE n.type = "class" /\ n.head # n.tokens
  <2> DEFINE piece(p) == IF p.type = "method" THEN Blanked(p) ELSE Text(p)
             pieces == [k \in DOMAIN n.parts |-> piece(n.parts[k])]
             m == Len(n.parts)
  <2>1. \A p \in Member : piece(p).tokens \in Nat
    <3>1. \A p \in Member : p.tokens \in Nat /\ p.head \in Nat
      BY DEF Member, SyntaxNode
    <3> QED BY <3>1, BlankedTokens
  <2>2. m \in Nat /\ DOMAIN n.parts = 1 .. m /\ \A k \in 1 .. m : n.parts[k] \in Member
    BY <1>1, <1>3
  <2>3. SummarizeDeclared(n) = Joined(n.head, {Head(n.names)}, pieces)
    BY <1>3, "class" \notin {"function", "closure"} DEF SummarizeDeclared, SummarizeClass
  <2> HIDE DEF piece, m
  <2>4. DOMAIN pieces = 1 .. m /\ \A k \in 1 .. m : pieces[k].tokens \in Nat
    BY <2>1, <2>2
  <2>5. Len(pieces) = m
    BY <2>2
  <2> HIDE DEF pieces
  <2>6. Joined(n.head, {Head(n.names)}, pieces).tokens \in Nat
    BY <1>1, <2>2, <2>4, <2>5, JoinedTokens
  <2> QED BY <2>3, <2>6
<1>4. CASE n.type = "class" /\ n.head = n.tokens
  BY <1>2, <1>4, "class" \notin {"function", "closure"} DEF SummarizeDeclared, SummarizeClass
<1>5. CASE n.type # "class"
  BY <1>2, <1>5 DEF SummarizeDeclared
<1> QED BY <1>3, <1>4, <1>5

LEMMA NodeTokens ==
    ASSUME NEW n \in TopLevelNode
    PROVE  SummarizeTopLevelNode(n).tokens \in Nat
<1>1. CASE n \in Declaration
  <2>1. n \in SyntaxNode(Member) /\ n.type # "export"
    BY <1>1 DEF Declaration
  <2>2. SummarizeTopLevelNode(n) = SummarizeDeclared(n)
    BY <2>1 DEF SummarizeTopLevelNode
  <2> QED BY <2>1, <2>2, DeclaredTokens
<1>2. CASE n \in SyntaxNode(Declaration) /\ n.type = "export"
  <2>1. n.parts \in Seq(Declaration) /\ n.head \in Nat
    BY <1>2 DEF SyntaxNode
  <2>2. CASE n.parts = <<>>
    <3>1. SummarizeTopLevelNode(n) = SummarizeDeclared(n)
      BY <2>2 DEF SummarizeTopLevelNode
    <3>2. n.type # "class"
      BY <1>2
    <3> QED BY <1>2, <3>1, <3>2, DeclaredTokens
  <2>3. CASE n.parts # <<>>
    <3> DEFINE first == Head(n.parts)
               pieces == <<SummarizeDeclared(first)>>
    <3>1. first \in SyntaxNode(Member)
      BY <2>1, <2>3 DEF Declaration
    <3>2. SummarizeTopLevelNode(n) = Joined(n.head, {}, pieces)
      BY <1>2, <2>3 DEF SummarizeTopLevelNode
    <3> HIDE DEF first
    <3>3. SummarizeDeclared(first).tokens \in Nat
      BY <3>1, DeclaredTokens
    <3>4. Len(pieces) = 1 /\ DOMAIN pieces = 1 .. 1 /\ \A k \in 1 .. 1 : pieces[k].tokens \in Nat
      BY <3>3
    <3> HIDE DEF pieces
    <3>5. Joined(n.head, {}, pieces).tokens \in Nat
      BY <2>1, <3>4, JoinedTokens
    <3> QED BY <3>2, <3>5
  <2> QED BY <2>2, <2>3
<1> QED BY <1>1, <1>2 DEF TopLevelNode

LEMMA OutlineTokens ==
    ASSUME NEW nodes \in Seq(TopLevelNode)
    PROVE  Outline(nodes).tokens \in Nat
<1> DEFINE pieces == [k \in DOMAIN nodes |-> SummarizeTopLevelNode(nodes[k])]
           m == Len(nodes)
<1>1. m \in Nat /\ DOMAIN nodes = 1 .. m /\ \A k \in 1 .. m : nodes[k] \in TopLevelNode
  OBVIOUS
<1>2. Outline(nodes) = Joined(0, {}, pieces)
  BY DEF Outline
<1> HIDE DEF m
<1>3. DOMAIN pieces = 1 .. m /\ \A k \in 1 .. m : pieces[k].tokens \in Nat
  BY <1>1, NodeTokens
<1>4. Len(pieces) = m
  BY <1>1
<1> HIDE DEF pieces
<1>5. Joined(0, {}, pieces).tokens \in Nat
  BY <1>1, <1>3, <1>4, JoinedTokens
<1> QED BY <1>2, <1>5

-----------------------------------------------------------------------------
(* The parser.                                                             *)

\* A call that waits: for the parser or its grammar, or in the walk of a search.
Waiting == {"init", "load", "parse", "walk"}
HasFields(value) ==
    value # NoCall =>
        /\ value.stage \in {"init", "load", "parse"} =>
              value \in [stage : {"init", "load", "parse"}, input : {value.input}]
        /\ value.stage = "walk" =>
              value \in [stage : {"walk"}, input : {value.input}, files : {value.files},
                         queue : {value.queue}]

\* What the state of the parser lets a call wait for.
IsServed(value, s) ==
    value # NoCall =>
        /\ value.stage = "init" => s.inits = 1
        /\ value.stage = "load" => s.init = "ready"
        /\ value.stage = "parse" => value.input.grammar \in s.languages

IsServer(s) ==
    /\ s \in [init : {"none", "loading", "ready", "rejected"}, inits : {0, 1},
              languages : {s.languages}]
    /\ s.init = "none" <=> s.inits = 0
    /\ s.languages # {} => s.init = "ready"

ParserInv ==
    /\ IsServer(server)
    /\ DOMAIN call = Client
    /\ \A c \in Client : HasFields(call[c]) /\ IsServed(call[c], server)

\* A server goes on from s to t: what a call waits for stays as good as it was.
GoesOn(s, t) ==
    /\ s.inits = 1 => t.inits = 1
    /\ s.init = "ready" => t.init = "ready"
    /\ s.languages \subseteq t.languages

\* One call changes, in a server that goes on.
LEMMA CallChanges ==
    ASSUME NEW c \in Client, NEW value, ParserInv, Becomes(c, value),
           IsServer(server'), GoesOn(server, server'),
           HasFields(value), IsServed(value, server')
    PROVE  ParserInv'
<1>1. DOMAIN call' = Client /\ call'[c] = value
  BY DEF Becomes, ParserInv
<1>2. ASSUME NEW d \in Client PROVE HasFields(call'[d]) /\ IsServed(call'[d], server')
  <2>1. CASE d = c
    BY <1>1, <2>1
  <2>2. CASE d # c
    <3>1. call'[d] = call[d]
      BY <2>2 DEF Becomes, ParserInv
    <3>2. HasFields(call[d]) /\ IsServed(call[d], server)
      BY DEF ParserInv
    <3> QED BY <3>1, <3>2 DEF IsServed, GoesOn
  <2> QED BY <2>1, <2>2
<1> QED BY <1>1, <1>2 DEF ParserInv

\* A server that does not change goes on.
LEMMA SameServer ==
    ASSUME ParserInv, UNCHANGED server
    PROVE  IsServer(server') /\ GoesOn(server, server')
BY DEF ParserInv, GoesOn

\* The same without a change of the server, for a value that does not wait.
LEMMA CallEnds ==
    ASSUME NEW c \in Client, NEW value, ParserInv, Becomes(c, value), UNCHANGED server,
           value = NoCall \/ value.stage \notin Waiting
    PROVE  ParserInv'
<1>1. IsServer(server') /\ GoesOn(server, server')
  BY DEF ParserInv, GoesOn
<1>2. HasFields(value) /\ IsServed(value, server')
  BY DEF HasFields, IsServed, Waiting
<1> QED BY <1>1, <1>2, CallChanges

\* An answer that is logged ends the waiting.
LEMMA AnswerEnds ==
    ASSUME NEW c \in Client, ParserInv, UNCHANGED server,
           NEW source, NEW input, NEW tokensIn, NEW tokensOut, NEW result,
           LogAndAnswer(c, source, input, tokensIn, tokensOut, result) \/ Fails(c, input)
    PROVE  ParserInv'
<1> DEFINE answer == Answer(input, result, Max({0, tokensIn - tokensOut}))
<1>1. answer.stage = "answered" /\ Failure(input).stage = "failed"
  BY DEF Answer, Failure
<1>2. Becomes(c, answer) \/ Becomes(c, Failure(input))
  BY DEF LogAndAnswer, Fails
<1> HIDE DEF answer
<1> QED BY <1>1, <1>2, CallEnds DEF Waiting

\* The initialisation begins, ends, and a grammar is loaded.
LEMMA InitBegins ==
    ASSUME IsServer(server), EnsureInit
    PROVE  IsServer(server') /\ GoesOn(server, server') /\ server'.inits = 1
<1>1. CASE server.init = "none"
  <2>1. /\ server.inits = 0 /\ server.languages = {}
        /\ server \in [init : {"none"}, inits : {0}, languages : {{}}]
    BY <1>1 DEF IsServer
  <2>2. server' \in [init : {"loading"}, inits : {1}, languages : {{}}]
    <3>1. server' = [server EXCEPT !.init = "loading", !.inits = @ + 1]
      BY <1>1, EnsureInit DEF EnsureInit
    <3>2. server.inits + 1 = 1
      BY <2>1
    <3>3. server' = [server EXCEPT !.init = "loading", !.inits = 1]
      BY <3>1, <3>2, Zenon
    <3> QED BY <2>1, <3>3
  <2> QED BY <2>1, <2>2, <1>1 DEF IsServer, GoesOn
<1>2. CASE server.init # "none"
  BY <1>2 DEF IsServer, GoesOn, EnsureInit
<1> QED BY <1>1, <1>2

LEMMA InitEnds ==
    ASSUME IsServer(server), server.init = "loading", NEW outcome \in {"ready", "rejected"},
           server' = [server EXCEPT !.init = outcome]
    PROVE  IsServer(server') /\ GoesOn(server, server')
BY DEF IsServer, GoesOn

LEMMA GrammarLoads ==
    ASSUME IsServer(server), server.init = "ready", NEW grammar,
           server' = [server EXCEPT !.languages = @ \cup {grammar}]
    PROVE  IsServer(server') /\ GoesOn(server, server') /\ grammar \in server'.languages
BY DEF IsServer, GoesOn

\* The steps of a smart read.
LEMMA SmartReadSteps ==
    ASSUME NEW c \in Client, ParserInv,
           SmartRead(c) \/ InitReturns(c) \/ LoadLanguage(c) \/ Parse(c)
    PROVE  ParserInv'
<1>1. IsServer(server)
  BY DEF ParserInv
<1>2. ASSUME NEW f \in task.inputs, Opens(c, "smart_read", f), f.grammar # NoGrammar,
             IF f.grammar \in server.languages
             THEN Becomes(c, [stage |-> "parse", input |-> f]) /\ UNCHANGED server
             ELSE Becomes(c, [stage |-> "init", input |-> f]) /\ EnsureInit
      PROVE  ParserInv'
  <2>1. CASE f.grammar \in server.languages
    <3> DEFINE value == [stage |-> "parse", input |-> f]
    <3>1. Becomes(c, value) /\ server' = server
      BY <1>2, <2>1
    <3>2. HasFields(value) /\ IsServed(value, server')
      BY <2>1, <3>1 DEF HasFields, IsServed
    <3>3. IsServer(server') /\ GoesOn(server, server')
      BY <1>1, <3>1 DEF GoesOn
    <3> HIDE DEF value
    <3> QED BY <3>1, <3>2, <3>3, CallChanges
  <2>2. CASE f.grammar \notin server.languages
    <3> DEFINE value == [stage |-> "init", input |-> f]
    <3>1. Becomes(c, value) /\ EnsureInit
      BY <1>2, <2>2
    <3>2. IsServer(server') /\ GoesOn(server, server') /\ server'.inits = 1
      BY <1>1, <3>1, InitBegins
    <3>3. HasFields(value) /\ IsServed(value, server')
      BY <3>2 DEF HasFields, IsServed
    <3> HIDE DEF value
    <3> QED BY <3>1, <3>2, <3>3, CallChanges
  <2> QED BY <2>1, <2>2
<1>3. CASE SmartRead(c)
  <2>1. PICK f \in task.inputs :
           /\ Opens(c, "smart_read", f)
           /\ \/ Fails(c, f) /\ UNCHANGED server
              \/ Budgeted(c, f) /\ UNCHANGED server
              \/ /\ f.grammar # NoGrammar
                 /\ IF f.grammar \in server.languages
                    THEN Becomes(c, [stage |-> "parse", input |-> f]) /\ UNCHANGED server
                    ELSE Becomes(c, [stage |-> "init", input |-> f]) /\ EnsureInit
    BY <1>3, Zenon DEF SmartRead
  <2>2. CASE Fails(c, f) /\ UNCHANGED server
    BY <2>2, AnswerEnds
  <2>3. CASE Budgeted(c, f) /\ UNCHANGED server
    BY <2>3, AnswerEnds DEF Budgeted
  <2> QED BY <1>2, <2>1, <2>2, <2>3
<1>4. CASE InitReturns(c)
  <2> DEFINE loading == [call[c] EXCEPT !.stage = "load"]
  <2>1. call[c] # NoCall /\ call[c].stage = "init" /\ UNCHANGED server
    BY <1>4 DEF InitReturns
  <2>2. \/ Becomes(c, loading) /\ server.init = "ready"
        \/ Becomes(c, Failure(call[c].input))
    BY <1>4 DEF InitReturns
  <2>3. CASE Becomes(c, Failure(call[c].input))
    BY <2>1, <2>3, CallEnds DEF Failure, Waiting
  <2>4. CASE Becomes(c, loading) /\ server.init = "ready"
    <3>1. call[c] \in [stage : {"init", "load", "parse"}, input : {call[c].input}]
      BY <2>1 DEF ParserInv, HasFields
    <3>2. loading = [stage |-> "load", input |-> call[c].input]
      BY <3>1
    <3>3. HasFields(loading) /\ IsServed(loading, server')
      BY <2>1, <2>4, <3>2 DEF HasFields, IsServed
    <3>4. IsServer(server') /\ GoesOn(server, server')
      BY <1>1, <2>1 DEF GoesOn
    <3> HIDE DEF loading
    <3> QED BY <2>4, <3>3, <3>4, CallChanges
  <2> QED BY <2>2, <2>3, <2>4
<1>5. CASE LoadLanguage(c)
  <2> DEFINE parsing == [call[c] EXCEPT !.stage = "parse"]
             grammar == call[c].input.grammar
  <2>1. call[c] # NoCall /\ call[c].stage = "load"
    BY <1>5 DEF LoadLanguage
  <2>2. \/ server' = [server EXCEPT !.languages = @ \cup {grammar}] /\ Becomes(c, parsing)
        \/ Becomes(c, Failure(call[c].input)) /\ UNCHANGED server
    BY <1>5 DEF LoadLanguage
  <2>3. CASE Becomes(c, Failure(call[c].input)) /\ UNCHANGED server
    BY <2>3, CallEnds DEF Failure, Waiting
  <2>4. CASE server' = [server EXCEPT !.languages = @ \cup {grammar}] /\ Becomes(c, parsing)
    <3>1. call[c] \in [stage : {"init", "load", "parse"}, input : {call[c].input}]
      BY <2>1 DEF ParserInv, HasFields
    <3>2. parsing = [stage |-> "parse", input |-> call[c].input]
      BY <3>1
    <3>3. server.init = "ready"
      BY <2>1 DEF ParserInv, IsServed
    <3>4. IsServer(server') /\ GoesOn(server, server') /\ grammar \in server'.languages
      BY <1>1, <2>4, <3>3, GrammarLoads
    <3>5. HasFields(parsing) /\ IsServed(parsing, server')
      BY <3>2, <3>4 DEF HasFields, IsServed
    <3> HIDE DEF parsing
    <3> QED BY <2>4, <3>4, <3>5, CallChanges
  <2> QED BY <2>2, <2>3, <2>4
<1>6. CASE Parse(c)
  <2>1. UNCHANGED server
    BY <1>6 DEF Parse
  <2>2. \E input, tokensIn, tokensOut, result :
           LogAndAnswer(c, "smart_read", input, tokensIn, tokensOut, result)
    BY <1>6, Zenon DEF Parse, Budgeted
  <2> QED BY <2>1, <2>2, AnswerEnds
<1> QED BY <1>3, <1>4, <1>5, <1>6

\* The steps of the other tools.
LEMMA ToolSteps ==
    ASSUME NEW c \in Client, ParserInv,
           \/ TrimTool(c) \/ LogSummary(c) \/ DiffTool(c) \/ GrepOutput(c) \/ PlanTool(c)
           \/ SearchTool(c) \/ WalkOn(c) \/ SearchEnds(c) \/ Take(c)
    PROVE  ParserInv'
<1>1. CASE TrimTool(c)
  BY <1>1, AnswerEnds DEF TrimTool
<1>2. CASE LogSummary(c)
  BY <1>2, AnswerEnds DEF LogSummary
<1>3. CASE DiffTool(c)
  BY <1>3, AnswerEnds DEF DiffTool
<1>4. CASE GrepOutput(c)
  BY <1>4, AnswerEnds DEF GrepOutput
<1>5. CASE PlanTool(c)
  BY <1>5, CallEnds DEF PlanTool, Answer, Waiting
<1>6. CASE SearchTool(c)
  <2> DEFINE walk(x) == [stage |-> "walk", input |-> x, files |-> <<>>, queue |-> <<"root">>]
  <2>1. PICK x \in task.inputs : Becomes(c, IF x.query = Blank THEN Failure(x) ELSE walk(x))
    BY <1>6 DEF SearchTool
  <2>2. UNCHANGED server
    BY <1>6 DEF SearchTool
  <2>3. CASE Becomes(c, Failure(x))
    BY <2>2, <2>3, CallEnds DEF Failure, Waiting
  <2>4. CASE Becomes(c, walk(x))
    <3>1. HasFields(walk(x)) /\ IsServed(walk(x), server')
      BY DEF HasFields, IsServed
    <3> HIDE DEF walk
    <3> QED BY <2>2, <2>4, <3>1, SameServer, CallChanges
  <2> QED BY <2>1, <2>3, <2>4
<1>7. CASE WalkOn(c)
  <2>1. call[c] # NoCall /\ call[c].stage = "walk" /\ UNCHANGED server
    BY <1>7 DEF WalkOn
  <2>2. PICK files, queue :
           \/ Becomes(c, [call[c] EXCEPT !.queue = queue])
           \/ Becomes(c, [call[c] EXCEPT !.files = files, !.queue = queue])
    BY <1>7, Zenon DEF WalkOn
  <2>3. call[c] \in [stage : {"walk"}, input : {call[c].input}, files : {call[c].files},
                     queue : {call[c].queue}]
    BY <2>1 DEF ParserInv, HasFields
  <2>4. PICK value : Becomes(c, value) /\ HasFields(value) /\ value.stage = "walk"
    <3>1. \A q : LET value == [call[c] EXCEPT !.queue = q]
                 IN  HasFields(value) /\ value.stage = "walk"
      BY <2>3 DEF HasFields
    <3>2. \A f, q : LET value == [call[c] EXCEPT !.files = f, !.queue = q]
                    IN  HasFields(value) /\ value.stage = "walk"
      BY <2>3 DEF HasFields
    <3> QED BY <2>2, <3>1, <3>2, Zenon
  <2>5. IsServed(value, server')
    BY <2>4 DEF IsServed
  <2> QED BY <2>1, <2>4, <2>5, SameServer, CallChanges
<1>8. CASE SearchEnds(c)
  BY <1>8, AnswerEnds DEF SearchEnds
<1>9. CASE Take(c)
  BY <1>9, CallEnds DEF Take
<1> QED BY <1>1, <1>2, <1>3, <1>4, <1>5, <1>6, <1>7, <1>8, <1>9

\* Every step keeps the invariant.
LEMMA NextParser == ParserInv /\ [Next]_vars => ParserInv'
<1> SUFFICES ASSUME ParserInv, [Next]_vars PROVE ParserInv'
  OBVIOUS
<1>1. CASE \E c \in Client : SmartRead(c) \/ InitReturns(c) \/ LoadLanguage(c) \/ Parse(c)
  BY <1>1, SmartReadSteps
<1>2. CASE \E c \in Client :
              \/ TrimTool(c) \/ LogSummary(c) \/ DiffTool(c) \/ GrepOutput(c) \/ PlanTool(c)
              \/ SearchTool(c) \/ WalkOn(c) \/ SearchEnds(c) \/ Take(c)
  BY <1>2, ToolSteps
<1>3. CASE InitSettles
  <2>1. PICK outcome \in {"ready", "rejected"} : server' = [server EXCEPT !.init = outcome]
    BY <1>3 DEF InitSettles
  <2>2. server.init = "loading" /\ UNCHANGED call
    BY <1>3 DEF InitSettles
  <2>3. IsServer(server') /\ GoesOn(server, server')
    BY <2>1, <2>2, InitEnds DEF ParserInv
  <2> QED BY <2>2, <2>3 DEF ParserInv, GoesOn, IsServed
<1>4. CASE Restart
  BY <1>4 DEF Restart, NewServer, ParserInv, IsServer, HasFields, IsServed
<1>5. CASE UNCHANGED toolVars
  BY <1>5 DEF toolVars, ParserInv
<1> QED
  BY <1>1, <1>2, <1>3, <1>4, <1>5 DEF Next, Reporting, vars, toolVars

\* However calls overlap, fail and are cut off by restarts, a process begins
\* the initialisation of the parser once, and no call goes on without it
\* (smart-read.ts 20-35).
THEOREM ParserAlwaysStartsOnce == Spec => []ParserStartsOnce
<1>1. Init => ParserInv
  BY DEF Init, NewServer, ParserInv, IsServer, HasFields, IsServed
<1>2. ParserInv => ParserStartsOnce
  BY DEF ParserInv, ParserStartsOnce, IsServer, IsServed
<1> QED
  BY <1>1, <1>2, NextParser, PTL DEF Spec

-----------------------------------------------------------------------------
(* The answers.                                                            *)

\* What a tool promises of the answer r to the input x.
Promised(tool, x, r) ==
    /\ tool = "trim_context" => TrimPromise(x, r)
    /\ tool = "log_summary" => LogPromise(x, r)
    /\ tool = "diff_read" => DiffPromise(x, r)
    /\ tool = "grep" => GrepPromise(x, r)
    /\ tool = "budget_planner" => PlanPromise(x, r)
    /\ tool = "code_search" => SearchPromise(x, r)
    /\ tool = "smart_read" => OutlinePromise(x, r) /\ BudgetPromise(x, r)

\* A call on its way to an answer that is as promised.
IsPromised(t, value) ==
    value # NoCall =>
        /\ value.stage \in {"init", "load", "parse"} => t.tool = "smart_read" /\ value.input \in t.inputs
        /\ value.stage = "walk" =>
              /\ t.tool = "code_search" /\ value.input \in t.inputs /\ value.input.query # Blank
              /\ AreFound(value.input, value.files)
              /\ value.queue \in Seq(DOMAIN value.input.tree)
        /\ value.stage = "answered" => Promised(t.tool, value.input, value.result)

AnswersInv == task \in Task /\ \A c \in Client : IsPromised(task, call[c])

LEMMA CallIsPromised ==
    ASSUME NEW c \in Client, NEW value, ParserInv, AnswersInv, Becomes(c, value), UNCHANGED task,
           IsPromised(task, value)
    PROVE  AnswersInv'
<1>1. ASSUME NEW d \in Client PROVE IsPromised(task, call'[d])
  <2>1. CASE d = c
    <3>1. call'[d] = value
      BY <2>1 DEF Becomes, ParserInv
    <3> QED BY <3>1
  <2>2. CASE d # c
    <3>1. call'[d] = call[d]
      BY <2>2 DEF Becomes, ParserInv
    <3> QED BY <3>1 DEF AnswersInv
  <2> QED BY <2>1, <2>2
<1> QED BY <1>1 DEF AnswersInv

LEMMA FailureIsPromised ==
    ASSUME NEW c \in Client, ParserInv, AnswersInv, UNCHANGED task, NEW input,
           Fails(c, input) \/ Becomes(c, Failure(input)) \/ Becomes(c, NoCall)
    PROVE  AnswersInv'
<1>1. IsPromised(task, Failure(input)) /\ IsPromised(task, NoCall)
  BY DEF IsPromised, Failure
<1>2. Becomes(c, Failure(input)) \/ Becomes(c, NoCall)
  BY DEF Fails
<1> QED BY <1>1, <1>2, CallIsPromised

LEMMA AnswerIsPromised ==
    ASSUME NEW c \in Client, ParserInv, AnswersInv, UNCHANGED task,
           NEW input, NEW result, NEW booked, Becomes(c, Answer(input, result, booked)),
           Promised(task.tool, input, result)
    PROVE  AnswersInv'
<1>1. IsPromised(task, Answer(input, result, booked))
  BY DEF IsPromised, Answer
<1> QED BY <1>1, CallIsPromised

LEMMA LoggedIsPromised ==
    ASSUME NEW c \in Client, ParserInv, AnswersInv, UNCHANGED task,
           NEW source, NEW input, NEW tokensIn, NEW tokensOut, NEW result,
           LogAndAnswer(c, source, input, tokensIn, tokensOut, result),
           Promised(task.tool, input, result)
    PROVE  AnswersInv'
<1>1. Becomes(c, Answer(input, result, Max({0, tokensIn - tokensOut})))
  BY DEF LogAndAnswer
<1> QED BY <1>1, AnswerIsPromised

\* Inputs are of their types.
LEMMA InputsAreTyped ==
    ASSUME AnswersInv, NEW x \in task.inputs
    PROVE  IsInput(task.tool, x)
BY ToolboxAssumption DEF AnswersInv

\* The tools that answer at once.
LEMMA OnceAnswered ==
    ASSUME NEW c \in Client, ParserInv, AnswersInv,
           TrimTool(c) \/ LogSummary(c) \/ DiffTool(c) \/ GrepOutput(c) \/ PlanTool(c)
    PROVE  AnswersInv'
<1>1. CASE TrimTool(c)
  <2>1. PICK x \in task.inputs :
            LET r == TrimContext(task.host, x.files, x.ignored, x.query, x.maxTokens) IN
            /\ Opens(c, "trim_context", x)
            /\ LogAndAnswer(c, "trim", x, r.tokensIn, r.tokensOut, r)
            /\ UNCHANGED <<task, server>>
    BY <1>1 DEF TrimTool
  <2> DEFINE r == TrimContext(task.host, x.files, x.ignored, x.query, x.maxTokens)
  <2>2. /\ Opens(c, "trim_context", x) /\ UNCHANGED task
        /\ LogAndAnswer(c, "trim", x, r.tokensIn, r.tokensOut, r)
    BY <2>1
  <2>3. task.tool = "trim_context" /\ IsInput("trim_context", x)
    BY <2>2, InputsAreTyped DEF Opens
  <2>4. TrimPromise(x, r)
    BY <2>3, TrimContextPromises
  <2> HIDE DEF r
  <2>5. Promised(task.tool, x, r)
    BY <2>3, <2>4 DEF Promised
  <2> QED BY <2>2, <2>5, LoggedIsPromised
<1>2. CASE LogSummary(c)
  <2>1. PICK x \in task.inputs :
            /\ Opens(c, "log_summary", x)
            /\ IF x.big THEN Fails(c, x)
               ELSE LET r == SummarizeLog(x.lines, x.budget)
                    IN  LogAndAnswer(c, "log_summary", x, r.tokensIn, r.tokensIn - r.tokensSaved, r)
            /\ UNCHANGED <<task, server>>
    BY <1>2 DEF LogSummary
  <2> DEFINE r == SummarizeLog(x.lines, x.budget)
  <2>2. /\ Opens(c, "log_summary", x) /\ UNCHANGED task
        /\ \/ Fails(c, x)
           \/ LogAndAnswer(c, "log_summary", x, r.tokensIn, r.tokensIn - r.tokensSaved, r)
    BY <2>1
  <2>3. task.tool = "log_summary" /\ IsInput("log_summary", x)
    BY <2>2, InputsAreTyped DEF Opens
  <2>4. LogPromise(x, r)
    BY <2>3, SummarizeLogPromises
  <2> HIDE DEF r
  <2>5. Promised(task.tool, x, r)
    BY <2>3, <2>4 DEF Promised
  <2> QED BY <2>2, <2>5, LoggedIsPromised, FailureIsPromised
<1>3. CASE DiffTool(c)
  <2>1. PICK x \in task.inputs :
            /\ Opens(c, "diff_read", x)
            /\ IF x.big \/ x.hunks = <<>> \/ x.lines = <<>> THEN Fails(c, x)
               ELSE LET r == DiffRead(x.lines, x.hunks, x.context, x.budget)
                    IN  LogAndAnswer(c, "diff_read", x, r.tokensIn, r.tokensIn - r.tokensSaved, r)
            /\ UNCHANGED <<task, server>>
    BY <1>3 DEF DiffTool
  <2> DEFINE r == DiffRead(x.lines, x.hunks, x.context, x.budget)
  <2>2. /\ Opens(c, "diff_read", x) /\ UNCHANGED task
        /\ \/ Fails(c, x)
           \/ /\ x.hunks # <<>>
              /\ LogAndAnswer(c, "diff_read", x, r.tokensIn, r.tokensIn - r.tokensSaved, r)
    BY <2>1
  <2>3. task.tool = "diff_read" /\ IsInput("diff_read", x)
    BY <2>2, InputsAreTyped DEF Opens
  <2>4. CASE Fails(c, x)
    BY <2>2, <2>4, FailureIsPromised
  <2>5. CASE ~ Fails(c, x)
    <3>1. DiffPromise(x, r)
      BY <2>2, <2>3, <2>5, DiffReadPromises
    <3> HIDE DEF r
    <3>2. Promised(task.tool, x, r)
      BY <2>3, <3>1 DEF Promised
    <3> QED BY <2>2, <2>5, <3>2, LoggedIsPromised
  <2> QED BY <2>4, <2>5
<1>4. CASE GrepOutput(c)
  <2>1. PICK x \in task.inputs :
            LET r == CompressGrepOutput(x.lines, x.minTokens) IN
            /\ Opens(c, "grep", x)
            /\ LogAndAnswer(c, "compress", x, r.tokensIn,
                            IF r.compressed THEN r.tokensOut ELSE x.general, r)
            /\ UNCHANGED <<task, server>>
    BY <1>4 DEF GrepOutput
  <2> DEFINE r == CompressGrepOutput(x.lines, x.minTokens)
             out == IF r.compressed THEN r.tokensOut ELSE x.general
  <2>2. /\ Opens(c, "grep", x) /\ UNCHANGED task
        /\ LogAndAnswer(c, "compress", x, r.tokensIn, out, r)
    BY <2>1
  <2>3. task.tool = "grep" /\ IsInput("grep", x)
    BY <2>2, InputsAreTyped DEF Opens
  <2>4. GrepPromise(x, r)
    BY <2>3, CompressPromises
  <2> HIDE DEF r, out
  <2>5. Promised(task.tool, x, r)
    BY <2>3, <2>4 DEF Promised
  <2> QED BY <2>2, <2>5, LoggedIsPromised
<1>5. CASE PlanTool(c)
  <2>1. PICK x \in task.inputs :
            /\ Opens(c, "budget_planner", x)
            /\ Becomes(c, Answer(x, PlanBudget(x.words, x.maxBudget), 0))
    BY <1>5 DEF PlanTool
  <2> DEFINE r == PlanBudget(x.words, x.maxBudget)
  <2>2. Opens(c, "budget_planner", x) /\ Becomes(c, Answer(x, r, 0)) /\ UNCHANGED task
    BY <1>5, <2>1 DEF PlanTool
  <2>3. task.tool = "budget_planner" /\ IsInput("budget_planner", x)
    BY <2>2, InputsAreTyped DEF Opens
  <2>4. PlanPromise(x, r)
    BY <2>3, PlanBudgetPromises
  <2> HIDE DEF r
  <2>5. Promised(task.tool, x, r)
    BY <2>3, <2>4 DEF Promised
  <2> QED BY <2>2, <2>5, AnswerIsPromised
<1> QED BY <1>1, <1>2, <1>3, <1>4, <1>5

\* The steps of a smart read.
LEMMA ReadIsAnswered ==
    ASSUME NEW c \in Client, ParserInv, AnswersInv,
           SmartRead(c) \/ InitReturns(c) \/ LoadLanguage(c) \/ Parse(c)
    PROVE  AnswersInv'
<1>1. ASSUME NEW f \in task.inputs, task.tool = "smart_read", UNCHANGED task, Budgeted(c, f)
      PROVE  AnswersInv'
  <2> DEFINE out == Tokens(CompressToolOutput(f.text, 1, 4 * f.budget))
             in == Tokens(Length(f.text))
             r == [kind |-> "budgeted", tokensOut |-> out]
  <2>1. LogAndAnswer(c, "smart_read", f, in, out, r)
    BY <1>1 DEF Budgeted
  <2>2. IsInput("smart_read", f)
    BY <1>1, InputsAreTyped
  <2>3. f.text \in AnyText /\ f.budget \in Nat \ {0}
    BY <2>2 DEF IsInput
  <2>4. f.text.lines <= LineLimit /\ f.budget >= 58 => out <= f.budget
    BY <2>3, CutFits
  <2>5. r.kind = "budgeted" /\ r.tokensOut = out
    OBVIOUS
  <2> HIDE DEF in, out, r
  <2>6. OutlinePromise(f, r) /\ BudgetPromise(f, r)
    BY <2>4, <2>5 DEF OutlinePromise, BudgetPromise
  <2>7. Promised(task.tool, f, r)
    BY <1>1, <2>6 DEF Promised
  <2> QED BY <1>1, <2>1, <2>7, LoggedIsPromised
<1>2. CASE SmartRead(c)
  <2>1. PICK f \in task.inputs :
           /\ Opens(c, "smart_read", f)
           /\ \/ Fails(c, f)
              \/ Budgeted(c, f)
              \/ Becomes(c, [stage |-> "parse", input |-> f])
              \/ Becomes(c, [stage |-> "init", input |-> f])
    BY <1>2, Zenon DEF SmartRead
  <2>2. task.tool = "smart_read" /\ UNCHANGED task
    BY <1>2, <2>1 DEF SmartRead, Opens
  <2>3. CASE Fails(c, f)
    BY <2>2, <2>3, FailureIsPromised
  <2>4. CASE Budgeted(c, f)
    BY <1>1, <2>2, <2>4
  <2>5. ASSUME NEW stage \in {"parse", "init"}, Becomes(c, [stage |-> stage, input |-> f])
        PROVE  AnswersInv'
    <3> DEFINE value == [stage |-> stage, input |-> f]
    <3>1. IsPromised(task, value)
      BY <2>2 DEF IsPromised
    <3> HIDE DEF value
    <3> QED BY <2>2, <2>5, <3>1, CallIsPromised DEF value
  <2> QED BY <2>1, <2>3, <2>4, <2>5
<1>3. ASSUME NEW stage \in {"load", "parse"}, call[c] # NoCall, call[c].stage \in {"init", "load"},
             UNCHANGED task, Becomes(c, [call[c] EXCEPT !.stage = stage])
      PROVE  AnswersInv'
  <2> DEFINE value == [call[c] EXCEPT !.stage = stage]
  <2>1. call[c] \in [stage : {"init", "load", "parse"}, input : {call[c].input}]
    BY <1>3 DEF ParserInv, HasFields
  <2>2. task.tool = "smart_read" /\ call[c].input \in task.inputs
    BY <1>3 DEF AnswersInv, IsPromised
  <2>3. value.stage = stage /\ value.input = call[c].input
    BY <2>1
  <2> HIDE DEF value
  <2>4. IsPromised(task, value)
    BY <2>2, <2>3 DEF IsPromised
  <2> QED BY <1>3, <2>4, CallIsPromised DEF value
<1>4. CASE InitReturns(c)
  <2>1. call[c] # NoCall /\ call[c].stage = "init" /\ UNCHANGED task
    BY <1>4 DEF InitReturns
  <2>2. \/ Becomes(c, [call[c] EXCEPT !.stage = "load"])
        \/ Becomes(c, Failure(call[c].input))
    BY <1>4 DEF InitReturns
  <2>3. CASE Becomes(c, Failure(call[c].input))
    BY <2>1, <2>3, FailureIsPromised
  <2>4. CASE Becomes(c, [call[c] EXCEPT !.stage = "load"])
    BY <1>3, <2>1, <2>4
  <2> QED BY <2>2, <2>3, <2>4
<1>5. CASE LoadLanguage(c)
  <2>1. call[c] # NoCall /\ call[c].stage = "load" /\ UNCHANGED task
    BY <1>5 DEF LoadLanguage
  <2>2. \/ Becomes(c, [call[c] EXCEPT !.stage = "parse"])
        \/ Becomes(c, Failure(call[c].input))
    BY <1>5 DEF LoadLanguage
  <2>3. CASE Becomes(c, Failure(call[c].input))
    BY <2>1, <2>3, FailureIsPromised
  <2>4. CASE Becomes(c, [call[c] EXCEPT !.stage = "parse"])
    BY <1>3, <2>1, <2>4
  <2> QED BY <2>2, <2>3, <2>4
<1>6. CASE Parse(c)
  <2> DEFINE f == call[c].input
             in == Tokens(Length(f.text))
             o == Outline(f.nodes)
             r == [kind |-> "symbols", names |-> o.names]
  <2>1. call[c] # NoCall /\ call[c].stage = "parse" /\ UNCHANGED task
    BY <1>6 DEF Parse
  <2>2. task.tool = "smart_read" /\ f \in task.inputs
    BY <2>1 DEF AnswersInv, IsPromised
  <2>3. \/ Budgeted(c, f)
        \/ f.nodes # NoTree /\ LogAndAnswer(c, "smart_read", f, in, o.tokens, r)
    BY <1>6, Zenon DEF Parse
  <2>4. CASE Budgeted(c, f)
    BY <1>1, <2>1, <2>2, <2>4
  <2>5. CASE f.nodes # NoTree /\ LogAndAnswer(c, "smart_read", f, in, o.tokens, r)
    <3>1. IsInput("smart_read", f)
      BY <2>2, InputsAreTyped
    <3>2. f.nodes \in Seq(TopLevelNode)
      <4> HIDE DEF f
      <4>1. f.nodes \in {NoTree} \cup Seq(TopLevelNode)
        BY <3>1 DEF IsInput
      <4> QED BY <2>5, <4>1
    <3>3. r.names = Outline(f.nodes).names
      OBVIOUS
    <3>6. BudgetPromise(f, r)
      BY DEF BudgetPromise
    <3> HIDE DEF r, o, f, in
    <3>4. OutlinePromise(f, r)
      BY <3>2, <3>3, OutlinePromises
    <3>5. Promised(task.tool, f, r)
      BY <2>2, <3>4, <3>6 DEF Promised
    <3> QED BY <2>1, <2>5, <3>5, LoggedIsPromised
  <2> QED BY <2>3, <2>4, <2>5
<1> QED BY <1>2, <1>4, <1>5, <1>6

\* The steps of a search.
LEMMA SearchIsAnswered ==
    ASSUME NEW c \in Client, ParserInv, AnswersInv, SearchTool(c) \/ WalkOn(c) \/ SearchEnds(c)
    PROVE  AnswersInv'
<1>1. CASE SearchTool(c)
  <2> DEFINE walk(x) == [stage |-> "walk", input |-> x, files |-> <<>>, queue |-> <<"root">>]
  <2>1. PICK x \in task.inputs :
            /\ Opens(c, "code_search", x)
            /\ Becomes(c, IF x.query = Blank THEN Failure(x) ELSE walk(x))
    BY <1>1 DEF SearchTool
  <2>2. task.tool = "code_search" /\ UNCHANGED task
    BY <1>1, <2>1 DEF SearchTool, Opens
  <2>3. CASE x.query = Blank
    BY <2>1, <2>2, <2>3, FailureIsPromised
  <2>4. CASE x.query # Blank
    <3>1. IsInput("code_search", x)
      BY <2>2, InputsAreTyped
    <3>2. IsTree(x.tree)
      BY <3>1 DEF IsInput
    <3>3. AreFound(x, <<>>)
      BY ToolboxAssumption DEF AreFound, Range
    <3>4. <<"root">> \in Seq(DOMAIN x.tree)
      <4> DEFINE D == DOMAIN x.tree
      <4>1. "root" \in D
        BY <3>2 DEF IsTree
      <4> HIDE DEF D
      <4>2. <<"root">> \in Seq(D)
        BY <4>1
      <4> QED BY <4>2 DEF D
    <3>5. IsPromised(task, walk(x))
      BY <2>2, <2>4, <3>3, <3>4 DEF IsPromised
    <3> HIDE DEF walk
    <3> QED BY <2>1, <2>2, <2>4, <3>5, CallIsPromised
  <2> QED BY <2>3, <2>4
<1>2. ASSUME call[c] # NoCall, call[c].stage = "walk"
      PROVE  /\ task.tool = "code_search" /\ call[c].input \in task.inputs /\ call[c].input.query # Blank
             /\ IsInput("code_search", call[c].input)
             /\ AreFound(call[c].input, call[c].files)
             /\ call[c].queue \in Seq(DOMAIN call[c].input.tree)
             /\ call[c] \in [stage : {"walk"}, input : {call[c].input}, files : {call[c].files},
                             queue : {call[c].queue}]
  <2>1. /\ task.tool = "code_search" /\ call[c].input \in task.inputs /\ call[c].input.query # Blank
        /\ AreFound(call[c].input, call[c].files)
        /\ call[c].queue \in Seq(DOMAIN call[c].input.tree)
    BY <1>2 DEF AnswersInv, IsPromised
  <2>2. call[c] \in [stage : {"walk"}, input : {call[c].input}, files : {call[c].files},
                     queue : {call[c].queue}]
    BY <1>2 DEF ParserInv, HasFields
  <2>3. IsInput("code_search", call[c].input)
    BY <2>1, InputsAreTyped
  <2> QED BY <2>1, <2>2, <2>3
<1>3. CASE WalkOn(c)
  <2> DEFINE x == call[c].input
             files == call[c].files
             queue == call[c].queue
             rest == Tail(queue)
             d == Head(queue)
             entries == x.tree[d]
  <2>1. call[c] # NoCall /\ call[c].stage = "walk" /\ UNCHANGED task /\ queue # <<>>
    BY <1>3 DEF WalkOn, Walking
  <2>2. /\ task.tool = "code_search" /\ x \in task.inputs /\ x.query # Blank
        /\ IsInput("code_search", x) /\ AreFound(x, files) /\ queue \in Seq(DOMAIN x.tree)
        /\ call[c] \in [stage : {"walk"}, input : {x}, files : {files}, queue : {queue}]
    BY <1>2, <2>1
  <2>3. \/ Becomes(c, [call[c] EXCEPT !.queue = rest])
        \/ \E gone : LET w == WalkDirectory(files, rest, entries, gone)
                     IN  Becomes(c, [call[c] EXCEPT !.files = w.files, !.queue = w.queue])
    BY <1>3, Zenon DEF WalkOn
  <2>4. rest \in Seq(DOMAIN x.tree) /\ d \in DOMAIN x.tree
    <3> HIDE DEF queue
    <3> QED BY <2>1, <2>2
  <2>5. IsTree(x.tree)
    BY <2>2 DEF IsInput
  <2> HIDE DEF x, files, queue, rest, d
  <2>6. ASSUME NEW value, value.stage = "walk", value.input = x, AreFound(x, value.files),
               value.queue \in Seq(DOMAIN x.tree), Becomes(c, value)
        PROVE  AnswersInv'
    <3>1. IsPromised(task, value)
      BY <2>2, <2>6 DEF IsPromised
    <3> QED BY <2>1, <2>6, <3>1, CallIsPromised
  <2>7. CASE Becomes(c, [call[c] EXCEPT !.queue = rest])
    <3> DEFINE value == [call[c] EXCEPT !.queue = rest]
    <3>1. value.stage = "walk" /\ value.input = x /\ value.files = files /\ value.queue = rest
      BY <2>2
    <3> HIDE DEF value
    <3>2. AreFound(x, value.files) /\ value.queue \in Seq(DOMAIN x.tree)
      BY <2>2, <2>4, <3>1
    <3>3. Becomes(c, value)
      BY <2>7 DEF value
    <3> QED BY <2>6, <3>1, <3>2, <3>3
  <2>8. ASSUME NEW gone, Becomes(c, [call[c] EXCEPT !.files = WalkDirectory(files, rest, entries, gone).files,
                                                    !.queue = WalkDirectory(files, rest, entries, gone).queue])
        PROVE  AnswersInv'
    <3> DEFINE w == WalkDirectory(files, rest, entries, gone)
               value == [call[c] EXCEPT !.files = w.files, !.queue = w.queue]
    <3>1. AreFound(x, w.files) /\ w.queue \in Seq(DOMAIN x.tree)
      BY <2>2, <2>4, <2>5, WalkFinds
    <3>2. Becomes(c, value)
      BY <2>8
    <3> HIDE DEF w
    <3>3. value.stage = "walk" /\ value.input = x /\ value.files = w.files /\ value.queue = w.queue
      BY <2>2
    <3> HIDE DEF value
    <3> QED BY <2>6, <3>1, <3>2, <3>3
  <2> QED BY <2>3, <2>7, <2>8
<1>4. CASE SearchEnds(c)
  <2> DEFINE x == call[c].input
             files == call[c].files
             h == SearchHits(files, x.query, x.maxResults, x.budget)
             out == Heading * (1 + Len(h.hits)) + Sum(h.hits)
             r == [hits |-> h.hits, files |-> files]
  <2>1. call[c] # NoCall /\ call[c].stage = "walk" /\ UNCHANGED task
    BY <1>4 DEF SearchEnds, Walked
  <2>2. LogAndAnswer(c, "code_search", x, out + h.tokensSaved, out, r)
    BY <1>4 DEF SearchEnds
  <2>3. task.tool = "code_search" /\ x.query # Blank /\ IsInput("code_search", x) /\ AreFound(x, files)
    BY <1>2, <2>1
  <2>4. r.files = files /\ r.hits = h.hits
    OBVIOUS
  <2> HIDE DEF x, files, out, r
  <2>5. SearchPromise(x, r)
    BY <2>3, <2>4, SearchPromises
  <2>6. Promised(task.tool, x, r)
    BY <2>3, <2>5 DEF Promised
  <2> HIDE DEF h
  <2> QED BY <2>1, <2>2, <2>6, LoggedIsPromised
<1> QED BY <1>1, <1>3, <1>4

\* Every step keeps what is promised.
LEMMA NextAnswers == ParserInv /\ AnswersInv /\ [Next]_vars => AnswersInv'
<1> SUFFICES ASSUME ParserInv, AnswersInv, [Next]_vars PROVE AnswersInv'
  OBVIOUS
<1>1. CASE \E c \in Client :
              TrimTool(c) \/ LogSummary(c) \/ DiffTool(c) \/ GrepOutput(c) \/ PlanTool(c)
  BY <1>1, OnceAnswered
<1>2. CASE \E c \in Client : SmartRead(c) \/ InitReturns(c) \/ LoadLanguage(c) \/ Parse(c)
  BY <1>2, ReadIsAnswered
<1>3. CASE \E c \in Client : SearchTool(c) \/ WalkOn(c) \/ SearchEnds(c)
  BY <1>3, SearchIsAnswered
<1>4. CASE \E c \in Client : Take(c)
  <2>1. PICK c \in Client : Take(c)
    BY <1>4
  <2>2. Becomes(c, NoCall) /\ UNCHANGED task
    BY <2>1 DEF Take
  <2> QED BY <2>2, FailureIsPromised
<1>5. CASE Restart
  BY <1>5 DEF Restart, AnswersInv, IsPromised
<1>6. CASE UNCHANGED <<task, call>>
  BY <1>6 DEF AnswersInv
<1> QED
  BY <1>1, <1>2, <1>3, <1>4, <1>5, <1>6 DEF Next, InitSettles, Reporting, vars, toolVars

LEMMA AnswersAlways == Spec => []AnswersInv
<1>1. Init => ParserInv /\ AnswersInv
  BY DEF Init, NewServer, ParserInv, IsServer, HasFields, IsServed, AnswersInv, IsPromised
<1> QED
  BY <1>1, NextParser, NextAnswers, PTL DEF Spec

\* What LimitsAreKept says of each tool's limits holds whatever the texts, files
\* and trees are: trim_context's budget (trimmer.ts), those of log_summary and of
\* diff_read behind its first block (log-summary.ts, diff-read.ts), code_search's
\* counts and budget (code-search.ts), smart_read's for files of up to 125 lines
\* (tool-output-compress.ts), and budgets add up (budget-planner.ts).
THEOREM LimitsAreAlwaysKept == Spec => []LimitsAreKept
<1>1. ASSUME AnswersInv, NEW c \in Client, call[c] # NoCall, call[c].stage = "answered"
      PROVE  Promised(task.tool, call[c].input, call[c].result)
  BY <1>1 DEF AnswersInv, IsPromised
<1>2. AnswersInv => LimitsAreKept
  BY <1>1 DEF LimitsAreKept, Answered, Promised, TrimPromise, LogPromise, DiffPromise,
              GrepPromise, PlanPromise, SearchPromise, BudgetPromise
<1> QED
  BY <1>2, AnswersAlways, PTL

\* And so does what AnswersKeepTheirPart says of what is kept and what is left
\* out, with a mark or without.
THEOREM AnswersAlwaysKeepTheirPart == Spec => []AnswersKeepTheirPart
<1>1. ASSUME AnswersInv, NEW c \in Client, call[c] # NoCall, call[c].stage = "answered"
      PROVE  Promised(task.tool, call[c].input, call[c].result)
  BY <1>1 DEF AnswersInv, IsPromised
<1>2. AnswersInv => AnswersKeepTheirPart
  BY <1>1 DEF AnswersKeepTheirPart, Answered, Promised, TrimPromise, LogPromise, DiffPromise,
              GrepPromise, SearchPromise, OutlinePromise, ShowsNames
<1> QED
  BY <1>2, AnswersAlways, PTL

-----------------------------------------------------------------------------
(* Summaries.                                                              *)

\* The table: what each row saved and a turn used is counted; a turn saves
\* nothing.
IsCounted(r) ==
    /\ r.saved \in Nat /\ r.used \in Nat /\ r.out \in Nat
    /\ r.host \in Hosts \cup {None}
    /\ r.source = "session" => r.saved = 0
RowsAreCounted == rows \in Seq(Range(rows)) /\ \A i \in DOMAIN rows : IsCounted(rows[i])

\* The rows that a saving in real time is made of.
RealTime(at) == {i \in at : /\ rows[i].source \notin {"session", "trim"}
                            /\ rows[i].source \in KnownSources \/ ~ rows[i].trimmed}

LEMMA RowsAreFinite ==
    ASSUME RowsAreCounted
    PROVE  /\ IsFiniteSet(DOMAIN rows)
           /\ \A at \in SUBSET DOMAIN rows : IsFiniteSet(at)
           /\ Len(rows) \in Nat /\ DOMAIN rows = 1 .. Len(rows)
<1>1. Len(rows) \in Nat /\ DOMAIN rows = 1 .. Len(rows)
  BY DEF RowsAreCounted
<1>2. IsFiniteSet(DOMAIN rows)
  BY <1>1, FS_Interval
<1> QED BY <1>1, <1>2, FS_Subset

\* What rows saved is a number, grows with the rows, and adds up.
LEMMA SavedGrows ==
    ASSUME RowsAreCounted, NEW A \in SUBSET DOMAIN rows, NEW B \in SUBSET DOMAIN rows
    PROVE  /\ Saved(A) \in Nat /\ Saved({}) = 0
           /\ B \subseteq A => Saved(B) <= Saved(A)
           /\ A \cap B = {} => Saved(A \cup B) = Saved(A) + Saved(B)
<1> DEFINE f == [i \in DOMAIN rows |-> rows[i].saved]
<1>1. \A i \in DOMAIN rows : f[i] \in Nat /\ f[i] <= f[i]
  BY DEF RowsAreCounted, IsCounted
<1>2. IsFiniteSet(A) /\ IsFiniteSet(B)
  BY RowsAreFinite
<1>3. \A at : Saved(at) = SumFunctionOnSet(f, at)
  BY DEF Saved
<1> HIDE DEF f
<1>4. \A i \in A : f[i] \in Nat
  BY <1>1
<1>5. SumFunctionOnSet(f, A) \in Nat /\ SumFunctionOnSet(f, {}) = 0
  BY <1>2, <1>4, SumAdds
<1>6. ASSUME B \subseteq A PROVE SumFunctionOnSet(f, B) <= SumFunctionOnSet(f, A)
  <2>1. B \in SUBSET A /\ \A i \in B : f[i] \in Nat /\ f[i] <= f[i]
    BY <1>1, <1>6
  <2> QED BY <1>2, <1>4, <2>1, SumAtMost
<1>7. ASSUME A \cap B = {}
      PROVE  SumFunctionOnSet(f, A \cup B) = SumFunctionOnSet(f, A) + SumFunctionOnSet(f, B)
  <2>1. \A i \in A \cup B : f[i] \in Nat
    BY <1>1
  <2> QED BY <1>2, <1>7, <2>1, SumOfBoth
<1> QED BY <1>3, <1>5, <1>6, <1>7

\* The tokens of turns are numbers.
LEMMA TrafficIs ==
    ASSUME RowsAreCounted, NEW A \in SUBSET DOMAIN rows
    PROVE  /\ SumFunctionOnSet([i \in DOMAIN rows |-> rows[i].used], A) \in Nat
           /\ SumFunctionOnSet([i \in DOMAIN rows |-> rows[i].out], A) \in Nat
<1> DEFINE f == [i \in DOMAIN rows |-> rows[i].used]
           g == [i \in DOMAIN rows |-> rows[i].out]
<1>1. IsFiniteSet(A)
  BY RowsAreFinite
<1>2. \A i \in A : f[i] \in Nat /\ g[i] \in Nat
  BY DEF RowsAreCounted, IsCounted
<1> HIDE DEF f, g
<1>3. SumFunctionOnSet(f, A) \in Nat
  BY <1>1, <1>2, SumAdds
<1>4. SumFunctionOnSet(g, A) \in Nat
  BY <1>1, <1>2, SumAdds
<1> QED BY <1>3, <1>4 DEF f, g

\* What a summary is made of.
NoTurns(at) == at \ Of(at, {"session"})
Turns(at) == Of(at, {"session"})
Concise(at) == Saved(Of(at, {"concise"}))
Trimmed(at, legacy) == Saved(Of(at, {"trim"})) + Saved(Legacy(legacy))
InputUsed(at) == SumFunctionOnSet([i \in DOMAIN rows |-> rows[i].used], Turns(at))
OutputUsed(at) == SumFunctionOnSet([i \in DOMAIN rows |-> rows[i].out], Turns(at))
Input(at, legacy) == Saved(NoTurns(at)) - Trimmed(at, legacy) - Concise(at)

IsSummary(s, T, L, S) ==
    /\ s.total = Cardinality(NoTurns(T))
    /\ s.saved = Saved(NoTurns(T))
    /\ s.turns = Cardinality(Turns(S))
    /\ s.by = [k \in DOMAIN Sources |-> IF Sources[k] = "trim" THEN Trimmed(T, L)
                                        ELSE Saved(Of(T, {Sources[k]}))]
    /\ s.realtime = Input(T, L) + Concise(T)
    /\ s.traffic = InputUsed(S) + OutputUsed(S)
    /\ s.before = Input(T, L) + InputUsed(S) + Concise(T) + OutputUsed(S)

LEMMA SummaryIs ==
    ASSUME NEW T, NEW L, NEW S, NEW s, s = Summary(T, L, S)
    PROVE  IsSummary(s, T, L, S)
<1>1. IsSummary(Summary(T, L, S), T, L, S)
  BY Zenon DEF Summary, NoTurns, Turns, Concise, Trimmed, InputUsed, OutputUsed, Input, IsSummary
<1> QED BY <1>1, Zenon

LEMMA RealTimeIs ==
    ASSUME RowsAreCounted, NEW T \in SUBSET DOMAIN rows
    PROVE  Saved(T \ Of(T, {"session"}))
              = Saved(RealTime(T)) + Saved(Of(T, {"trim"})) + Saved(Legacy(T))
<1> DEFINE R == RealTime(T)
           M == Of(T, {"trim"})
           L == Legacy(T)
<1>1. "trim" \in KnownSources /\ "session" \in KnownSources
  <2>1. 9 \in DOMAIN Sources /\ Sources[9] = "trim"
    BY DEF Sources
  <2>2. "trim" \in Range(Sources)
    BY <2>1, Zenon DEF Range
  <2> QED BY <2>2 DEF KnownSources
<1>2. T \ Of(T, {"session"}) = (R \cup M) \cup L
  BY <1>1 DEF Of, Legacy, RealTime
<1>3. R \cap M = {} /\ (R \cup M) \cap L = {}
  BY <1>1 DEF Of, Legacy, RealTime
<1>4. R \in SUBSET DOMAIN rows /\ M \in SUBSET DOMAIN rows /\ L \in SUBSET DOMAIN rows
  BY DEF Of, Legacy, RealTime
<1> HIDE DEF R, M, L
<1>5. R \cup M \in SUBSET DOMAIN rows
  BY <1>4
<1>6. Saved((R \cup M) \cup L) = Saved(R \cup M) + Saved(L)
  BY <1>3, <1>4, <1>5, SavedGrows
<1>7. Saved(R \cup M) = Saved(R) + Saved(M)
  BY <1>3, <1>4, SavedGrows
<1> QED BY <1>2, <1>6, <1>7 DEF R, M, L

\* The numbers of a summary, and that they grow with the rows seen.
IsCounts(s) ==
    /\ s.total \in Nat /\ s.saved \in Nat /\ s.turns \in Nat
    /\ DOMAIN s.by = DOMAIN Sources /\ \A k \in DOMAIN Sources : s.by[k] \in Nat
    /\ s.total = 0 => s.saved = 0
AtMost(s, t) ==
    /\ s.total <= t.total /\ s.saved <= t.saved /\ s.turns <= t.turns
    /\ \A k \in DOMAIN Sources : s.by[k] <= t.by[k]

LEMMA SummaryGrows ==
    ASSUME RowsAreCounted,
           NEW T \in SUBSET DOMAIN rows, NEW L \in SUBSET DOMAIN rows, NEW S \in SUBSET DOMAIN rows,
           NEW s, s = Summary(T, L, S),
           NEW A \in SUBSET DOMAIN rows, NEW B \in SUBSET DOMAIN rows, NEW C \in SUBSET DOMAIN rows,
           NEW t, t = Summary(A, B, C),
           T \subseteq A, L \subseteq B, S \subseteq C
    PROVE  IsCounts(s) /\ AtMost(s, t)
<1>0. IsSummary(s, T, L, S) /\ IsSummary(t, A, B, C)
  BY SummaryIs
<1>1. /\ s.total = Cardinality(NoTurns(T)) /\ s.saved = Saved(NoTurns(T))
      /\ s.turns = Cardinality(Turns(S))
      /\ t.total = Cardinality(NoTurns(A)) /\ t.saved = Saved(NoTurns(A))
      /\ t.turns = Cardinality(Turns(C))
  BY <1>0, Zenon DEF IsSummary
<1>2. /\ NoTurns(T) \in SUBSET DOMAIN rows /\ NoTurns(A) \in SUBSET DOMAIN rows /\ NoTurns(T) \subseteq NoTurns(A)
      /\ Turns(S) \in SUBSET DOMAIN rows /\ Turns(C) \in SUBSET DOMAIN rows /\ Turns(S) \subseteq Turns(C)
  BY DEF Of, NoTurns, Turns
<1>3. IsFiniteSet(NoTurns(T)) /\ IsFiniteSet(NoTurns(A)) /\ IsFiniteSet(Turns(S)) /\ IsFiniteSet(Turns(C))
  BY <1>2, RowsAreFinite
<1>4. /\ Cardinality(NoTurns(T)) \in Nat /\ Cardinality(NoTurns(T)) <= Cardinality(NoTurns(A))
      /\ Cardinality(NoTurns(T)) = 0 => NoTurns(T) = {}
  BY <1>2, <1>3, FS_Subset, FS_CardinalityType, FS_EmptySet
<1>5. Cardinality(Turns(S)) \in Nat /\ Cardinality(Turns(S)) <= Cardinality(Turns(C))
  BY <1>2, <1>3, FS_Subset, FS_CardinalityType
<1>6. Saved(NoTurns(T)) \in Nat /\ Saved({}) = 0 /\ Saved(NoTurns(T)) <= Saved(NoTurns(A))
  BY <1>2, SavedGrows
<1>7. \A name : /\ Of(T, {name}) \in SUBSET DOMAIN rows /\ Of(A, {name}) \in SUBSET DOMAIN rows
                /\ Of(T, {name}) \subseteq Of(A, {name})
  BY DEF Of
<1>8. ASSUME NEW name
      PROVE  Saved(Of(T, {name})) \in Nat /\ Saved(Of(A, {name})) \in Nat
             /\ Saved(Of(T, {name})) <= Saved(Of(A, {name}))
  BY <1>7, SavedGrows
<1>9. /\ Saved(Legacy(L)) \in Nat /\ Saved(Legacy(B)) \in Nat
      /\ Saved(Legacy(L)) <= Saved(Legacy(B))
  <2>1. /\ Legacy(L) \in SUBSET DOMAIN rows /\ Legacy(B) \in SUBSET DOMAIN rows
        /\ Legacy(L) \subseteq Legacy(B)
    BY DEF Legacy
  <2> QED BY <2>1, SavedGrows
<1>10. /\ s.by = [k \in DOMAIN Sources |-> IF Sources[k] = "trim" THEN Trimmed(T, L)
                                           ELSE Saved(Of(T, {Sources[k]}))]
       /\ t.by = [k \in DOMAIN Sources |-> IF Sources[k] = "trim" THEN Trimmed(A, B)
                                           ELSE Saved(Of(A, {Sources[k]}))]
  BY <1>0, Zenon DEF IsSummary
<1>11. ASSUME NEW k \in DOMAIN Sources PROVE s.by[k] \in Nat /\ s.by[k] <= t.by[k]
  <2>1. CASE Sources[k] = "trim"
    <3>1. s.by[k] = Trimmed(T, L) /\ t.by[k] = Trimmed(A, B)
      BY <1>10, <2>1
    <3>2. /\ Saved(Of(T, {"trim"})) \in Nat /\ Saved(Of(A, {"trim"})) \in Nat
          /\ Saved(Of(T, {"trim"})) <= Saved(Of(A, {"trim"}))
      BY <1>8
    <3>3. Trimmed(T, L) \in Nat /\ Trimmed(T, L) <= Trimmed(A, B)
      BY <1>9, <3>2 DEF Trimmed
    <3> QED BY <3>1, <3>3
  <2>2. CASE Sources[k] # "trim"
    <3>1. s.by[k] = Saved(Of(T, {Sources[k]})) /\ t.by[k] = Saved(Of(A, {Sources[k]}))
      BY <1>10, <2>2
    <3> QED BY <1>8, <3>1
  <2> QED BY <2>1, <2>2
<1>12. DOMAIN s.by = DOMAIN Sources
  BY <1>10
<1> QED BY <1>1, <1>4, <1>5, <1>6, <1>11, <1>12 DEF IsCounts, AtMost

\* The saving in real time is that of the rows behind it, and what it is
\* compared with is larger by the traffic.
LEMMA RealTimeSaved ==
    ASSUME RowsAreCounted, NEW T \in SUBSET DOMAIN rows, NEW L \in SUBSET DOMAIN rows,
           NEW S \in SUBSET DOMAIN rows, Legacy(T) = Legacy(L), NEW s, s = Summary(T, L, S)
    PROVE  s.realtime = Saved(RealTime(T)) /\ s.realtime \in Nat /\ s.realtime <= s.before
<1>1. /\ s.realtime = Input(T, L) + Concise(T)
      /\ s.before = Input(T, L) + InputUsed(S) + Concise(T) + OutputUsed(S)
  <2>1. IsSummary(s, T, L, S)
    BY SummaryIs
  <2> QED BY <2>1, Zenon DEF IsSummary
<1>2. /\ Turns(S) \in SUBSET DOMAIN rows /\ RealTime(T) \in SUBSET DOMAIN rows
      /\ Of(T, {"concise"}) \in SUBSET DOMAIN rows /\ Of(T, {"trim"}) \in SUBSET DOMAIN rows
      /\ Legacy(T) \in SUBSET DOMAIN rows
  BY DEF Of, RealTime, Legacy, Turns
<1>3. InputUsed(S) \in Nat /\ OutputUsed(S) \in Nat
  BY <1>2, TrafficIs DEF InputUsed, OutputUsed
<1>4. Concise(T) \in Nat /\ Saved(RealTime(T)) \in Nat /\ Saved(Of(T, {"trim"})) \in Nat
      /\ Saved(Legacy(T)) \in Nat
  BY <1>2, SavedGrows DEF Concise
<1>5. Saved(NoTurns(T)) = Saved(RealTime(T)) + Saved(Of(T, {"trim"})) + Saved(Legacy(T))
  BY RealTimeIs DEF NoTurns
<1>6. Trimmed(T, L) = Saved(Of(T, {"trim"})) + Saved(Legacy(T))
  BY DEF Trimmed
<1>7. Input(T, L) = Saved(RealTime(T)) - Concise(T)
  BY <1>4, <1>5, <1>6 DEF Input
<1> QED BY <1>1, <1>3, <1>4, <1>7

\* Quotients by one number compare as what is divided.
LEMMA Quotient ==
    ASSUME NEW m \in Nat \ {0}, NEW a \in Nat
    PROVE  /\ a \div m \in Nat
           /\ \A n \in Nat : a < n * m => a \div m < n
           /\ \A b \in Nat : a <= b => a \div m <= b \div m
<1> DEFINE q(x) == x \div m
<1>1. \A x \in Nat : q(x) \in Nat /\ x % m \in 0 .. m - 1 /\ x = m * q(x) + (x % m)
  OBVIOUS
<1>2. ASSUME NEW x \in Nat, NEW n \in Nat, x < n * m PROVE q(x) < n
  <2> DEFINE d == q(x) - n
  <2>1. q(x) \in Nat /\ m * q(x) <= x
    BY <1>1
  <2> HIDE DEF q
  <2>2. CASE q(x) >= n
    <3>1. d \in Nat /\ q(x) = n + d
      BY <2>1, <2>2
    <3>2. m * q(x) = n * m + m * d
      BY <3>1
    <3>3. m * d \in Nat
      BY <3>1
    <3> QED BY <1>2, <2>1, <3>2, <3>3
  <2> QED BY <2>1, <2>2
<1>3. ASSUME NEW b \in Nat, a <= b PROVE q(a) <= q(b)
  <2>1. q(b) \in Nat /\ b % m \in 0 .. m - 1 /\ b = m * q(b) + (b % m) /\ q(a) \in Nat
    BY <1>1
  <2>2. (q(b) + 1) * m = m * q(b) + m /\ q(b) + 1 \in Nat
    BY <2>1
  <2>3. a < (q(b) + 1) * m
    <3> HIDE DEF q
    <3> QED BY <1>3, <2>1, <2>2
  <2>4. q(a) < q(b) + 1
    BY <1>2, <2>2, <2>3
  <2> HIDE DEF q
  <2> QED BY <2>1, <2>4
<1> QED BY <1>1, <1>2, <1>3

\* Bars are no longer than twenty and compare as the savings do.
LEMMA BarsCompare ==
    ASSUME NEW s, DOMAIN s.by = DOMAIN Sources, \A k \in DOMAIN Sources : s.by[k] \in Nat,
           NEW j \in DOMAIN Sources, NEW k \in DOMAIN Sources
    PROVE  Bars(s)[k] <= 20 /\ (s.by[j] <= s.by[k] => Bars(s)[j] <= Bars(s)[k])
<1> DEFINE values == {1} \cup Range(s.by)
           most == Max(values)
           bar(i) == (2 * 20 * s.by[i] + most) \div (2 * most)
<1>1. Bars(s)[j] = bar(j) /\ Bars(s)[k] = bar(k)
  BY DEF Bars
<1>2. values \in SUBSET Nat /\ 1 \in values /\ \A i \in DOMAIN Sources : s.by[i] \in values
  BY DEF Range
<1>3. IsFiniteSet(values)
  <2>1. DOMAIN Sources = 1 .. 10
    BY DEF Sources
  <2>2. IsFiniteSet(DOMAIN Sources)
    <3>1. IsFiniteSet(1 .. 10)
      <4>1. 1 \in Int /\ 10 \in Int
        OBVIOUS
      <4> QED BY <4>1, FS_Interval
    <3> QED BY <2>1, <3>1
  <2>3. Range(s.by) = {s.by[i] : i \in DOMAIN Sources}
    BY DEF Range
  <2> DEFINE R == {s.by[i] : i \in DOMAIN Sources}
             f == [i \in DOMAIN Sources |-> s.by[i]]
  <2>4. f \in Surjection(DOMAIN Sources, R)
    BY DEF Surjection
  <2>5. IsFiniteSet(R)
    BY <2>2, <2>4, FS_Surjection
  <2>6. IsFiniteSet({1}) 
    BY FS_Singleton
  <2> HIDE DEF R
  <2> QED BY <2>3, <2>5, <2>6, FS_Union DEF R
<1> HIDE DEF values
<1>4. most \in Nat \ {0} /\ \A v \in values : v <= most
  <2>1. values \in SUBSET Int /\ values # {}
    BY <1>2
  <2>2. most \in values /\ \A v \in values : v <= most
    BY <1>3, <2>1, MaxIs
  <2> HIDE DEF most
  <2> QED BY <1>2, <2>2
<1> HIDE DEF most
<1>5. \A i \in DOMAIN Sources : s.by[i] \in 0 .. most
  BY <1>2, <1>4
<1>6. 2 * most \in Nat \ {0}
  BY <1>4
<1>7. bar(k) < 21
  <2>1. 2 * 20 * s.by[k] + most < 21 * (2 * most) /\ 2 * 20 * s.by[k] + most \in Nat
    BY <1>4, <1>5
  <2> QED BY <1>6, <2>1, Quotient
<1>8. ASSUME s.by[j] <= s.by[k] PROVE bar(j) <= bar(k)
  <2>1. /\ 2 * 20 * s.by[k] + most \in Nat /\ 2 * 20 * s.by[j] + most \in Nat
        /\ 2 * 20 * s.by[j] + most <= 2 * 20 * s.by[k] + most
    BY <1>4, <1>5, <1>8
  <2> QED BY <1>6, <2>1, Quotient
<1>9. bar(k) \in Nat
  <2>1. 2 * 20 * s.by[k] + most \in Nat
    BY <1>4, <1>5
  <2> QED BY <1>6, <2>1, Quotient
<1> HIDE DEF bar
<1>10. bar(k) <= 20
  BY <1>7, <1>9
<1> QED BY <1>1, <1>8, <1>10

-----------------------------------------------------------------------------
(* Reports.                                                                *)

\* A report has seen growing tables, none larger than the present one.
IsInTime(seen, n) ==
    /\ seen \in Seq(0 .. n)
    /\ \A i, j \in DOMAIN seen : i <= j => seen[i] <= seen[j]
ReportInv ==
    /\ RowsAreCounted
    /\ report # NoReport =>
          /\ report \in [surface : {report.surface}, filter : {report.filter},
                         bySession : {report.bySession}, compact : {report.compact},
                         seen : {report.seen}]
          /\ IsInTime(report.seen, Len(rows))

\* What later statements see contains what earlier ones saw.
LEMMA SeenGrows ==
    ASSUME RowsAreCounted, NEW n \in 0 .. Len(rows), NEW m \in 0 .. Len(rows), m <= n, NEW f
    PROVE  /\ Seen(n, f) \in SUBSET DOMAIN rows /\ Seen(m, f) \in SUBSET DOMAIN rows
           /\ Seen(m, f) \subseteq Seen(n, f)
<1>1. Len(rows) \in Nat /\ DOMAIN rows = 1 .. Len(rows)
  BY RowsAreFinite
<1>2. 1 .. n \subseteq DOMAIN rows /\ 1 .. m \subseteq 1 .. n
  BY <1>1
<1> QED BY <1>2 DEF Seen

\* What is not shown is nothing.
LEMMA NothingYet ==
    ASSUME NEW s, NEW surface, IsCounts(s)
    PROVE  Shown(s, surface).kind = "nothing yet" => s.saved = 0
<1>1. CASE s.total = 0 \/ (surface = "sidebar" /\ s.saved <= 0)
  <2>1. s.saved \in Nat /\ (s.total = 0 => s.saved = 0)
    BY DEF IsCounts
  <2>2. s.saved = 0
    BY <1>1, <2>1
  <2> QED BY <2>2, Zenon
<1>2. CASE ~ (s.total = 0 \/ (surface = "sidebar" /\ s.saved <= 0))
  <2>1. Shown(s, surface).kind = "report"
    BY <1>2, Zenon DEF Shown
  <2>2. "report" # "nothing yet"
    OBVIOUS
  <2> QED BY <2>1, <2>2, Zenon
<1> QED BY <1>1, <1>2

RealTimeBetween(first, s, last) ==
    /\ 0 <= s.realtime /\ s.realtime <= s.before
    /\ first.realtime <= s.realtime /\ s.realtime <= last.realtime

\* Three statements, one after the other.
LEMMA StatementsInOrder ==
    ASSUME RowsAreCounted, NEW A \in SUBSET DOMAIN rows, NEW B \in SUBSET DOMAIN rows,
           NEW C \in SUBSET DOMAIN rows, A \subseteq B, B \subseteq C,
           NEW first, first = Summary(A, A, A), NEW s, s = Summary(A, B, C),
           NEW last, last = Summary(C, C, C)
    PROVE  /\ AtMost(first, s) /\ AtMost(s, last) /\ IsCounts(s) /\ first.saved = s.saved
           /\ Legacy(A) = Legacy(B) => RealTimeBetween(first, s, last)
<1>1. A \subseteq A /\ C \subseteq C /\ A \subseteq C
  OBVIOUS
<1>2. AtMost(first, s)
  BY <1>1, SummaryGrows
<1>3. IsCounts(s) /\ AtMost(s, last)
  BY <1>1, SummaryGrows
<1>4. first.saved = s.saved
  <2>1. IsSummary(first, A, A, A) /\ IsSummary(s, A, B, C)
    BY SummaryIs
  <2> QED BY <2>1, Zenon DEF IsSummary
<1>5. ASSUME Legacy(A) = Legacy(B)
      PROVE  RealTimeBetween(first, s, last)
  <2>1. s.realtime = Saved(RealTime(A)) /\ s.realtime \in Nat /\ s.realtime <= s.before
    BY <1>5, RealTimeSaved
  <2>2. first.realtime = Saved(RealTime(A))
    BY RealTimeSaved
  <2>3. last.realtime = Saved(RealTime(C)) /\ last.realtime \in Nat
    BY RealTimeSaved
  <2>4. /\ RealTime(A) \in SUBSET DOMAIN rows /\ RealTime(C) \in SUBSET DOMAIN rows
        /\ RealTime(A) \subseteq RealTime(C)
    BY <1>1 DEF RealTime
  <2>5. Saved(RealTime(A)) <= Saved(RealTime(C))
    BY <2>4, SavedGrows
  <2> QED BY <2>1, <2>2, <2>3, <2>5 DEF RealTimeBetween
<1> QED BY <1>2, <1>3, <1>4, <1>5

LEMMA ReportsAreOfTheirTime == ReportInv => SummaryIsOfItsTime
<1> SUFFICES ASSUME ReportInv, Complete, ~ report.bySession PROVE SummaryIsOfItsTime
  BY DEF SummaryIsOfItsTime
<1> DEFINE f == report.filter
           A == Seen(report.seen[1], f)
           B == Seen(report.seen[2], f)
           C == Seen(report.seen[3], f)
           first == Summary(A, A, A)
           s == Summary(A, B, C)
           last == Summary(C, C, C)
<1>1. RowsAreCounted /\ report.seen \in Seq(0 .. Len(rows)) /\ Len(report.seen) = 3
  <2>1. report # NoReport /\ Len(report.seen) = Statements
    BY DEF Complete
  <2>2. Statements = 3
    BY DEF Statements
  <2> QED BY <2>1, <2>2 DEF ReportInv, IsInTime
<1>2. /\ report.seen[1] \in 0 .. Len(rows) /\ report.seen[2] \in 0 .. Len(rows)
      /\ report.seen[3] \in 0 .. Len(rows)
      /\ report.seen[1] <= report.seen[2] /\ report.seen[2] <= report.seen[3]
  <2>1. DOMAIN report.seen = 1 .. 3 /\ \A i \in 1 .. 3 : report.seen[i] \in 0 .. Len(rows)
    BY <1>1
  <2>2. \A i, j \in 1 .. 3 : i <= j => report.seen[i] <= report.seen[j]
    BY <2>1 DEF ReportInv, IsInTime, Complete
  <2> QED BY <2>1, <2>2
<1>3. A \in SUBSET DOMAIN rows /\ B \in SUBSET DOMAIN rows /\ A \subseteq B
  BY <1>1, <1>2, SeenGrows
<1>4. C \in SUBSET DOMAIN rows /\ B \subseteq C
  BY <1>1, <1>2, SeenGrows
<1>5. s = ReadSummary(1, f)
  <2>1. 1 + 1 = 2 /\ 1 + 2 = 3
    OBVIOUS
  <2> QED BY <2>1, Zenon DEF ReadSummary
<1> HIDE DEF A, B, C
<1>6. /\ AtMost(first, s) /\ AtMost(s, last) /\ IsCounts(s) /\ first.saved = s.saved
      /\ Legacy(A) = Legacy(B) => RealTimeBetween(first, s, last)
  BY <1>1, <1>3, <1>4, StatementsInOrder
<1> HIDE DEF first, s, last
<1>7. Shown(s, report.surface).kind = "nothing yet" => first.saved = 0
  BY <1>6, NothingYet
<1>8. \A j, k \in DOMAIN Sources :
          /\ Bars(s)[k] <= 20
          /\ s.by[j] <= s.by[k] => Bars(s)[j] <= Bars(s)[k]
  BY <1>6, BarsCompare DEF IsCounts
<1> QED
  BY <1>5, <1>6, <1>7, <1>8, Zenon
     DEF SummaryIsOfItsTime, AtMost, RealTimeBetween, first, last, A, B, C

\* A row is logged.
LEMMA RowLogged ==
    ASSUME ReportInv, NEW r, IsCounted(r), rows' = Append(rows, r), UNCHANGED report
    PROVE  ReportInv'
<1> DEFINE n == Len(rows)
           R == Range(rows)
           t == Append(rows, r)
<1>1. rows \in Seq(R) /\ n \in Nat /\ DOMAIN rows = 1 .. n
  BY RowsAreFinite DEF ReportInv, RowsAreCounted
<1>2. /\ t \in Seq(R \cup {r}) /\ Len(t) = n + 1 /\ DOMAIN t = 1 .. n + 1
      /\ t[n + 1] = r /\ \A i \in 1 .. n : t[i] = rows[i]
  <2> HIDE DEF R
  <2>1. rows \in Seq(R \cup {r})
    BY <1>1
  <2> QED BY <1>1, <2>1
<1>3. rows' = t
  OBVIOUS
<1> HIDE DEF t
<1>4. Range(t) = R \cup {r}
  <2>1. \A i \in 1 .. n + 1 : i \in 1 .. n \/ i = n + 1
    BY <1>1
  <2>2. 1 .. n \subseteq 1 .. n + 1 /\ n + 1 \in 1 .. n + 1
    BY <1>1
  <2> QED BY <1>1, <1>2, <2>1, <2>2 DEF Range
<1>5. \A i \in DOMAIN t : IsCounted(t[i])
  <2>1. \A i \in 1 .. n + 1 : i \in 1 .. n \/ i = n + 1
    BY <1>1
  <2>2. \A i \in 1 .. n : IsCounted(rows[i])
    BY <1>1 DEF ReportInv, RowsAreCounted
  <2> QED BY <1>2, <2>1, <2>2
<1>6. RowsAreCounted'
  <2>1. t \in Seq(Range(t)) /\ \A i \in DOMAIN t : IsCounted(t[i])
    BY <1>2, <1>4, <1>5
  <2> QED BY <1>3, <2>1 DEF RowsAreCounted, IsCounted
<1>7. IsInTime(report.seen, n) => IsInTime(report.seen, n + 1)
  <2>1. 0 .. n \subseteq 0 .. n + 1
    BY <1>1
  <2>2. Seq(0 .. n) \subseteq Seq(0 .. n + 1)
    BY <2>1
  <2> QED BY <2>2 DEF IsInTime
<1>8. Len(rows') = n + 1
  BY <1>2, <1>3
<1> QED BY <1>6, <1>7, <1>8 DEF ReportInv

LEMMA ReportStays ==
    ASSUME ReportInv, UNCHANGED <<rows, report>>
    PROVE  ReportInv'
<1>1. RowsAreCounted'
  BY DEF ReportInv, RowsAreCounted, IsCounted
<1> QED BY <1>1 DEF ReportInv

\* Reports begin, read on and end; other processes log.
LEMMA ReportingKeeps ==
    ASSUME ReportInv, Reporting
    PROVE  ReportInv'
<1>1. CASE OtherLogs
  <2>1. PICK r \in OtherRows : rows' = Append(rows, r) /\ UNCHANGED report
    BY <1>1 DEF OtherLogs
  <2>2. IsCounted(r)
    BY <2>1, ReportsAssumption DEF IsRow, IsCounted
  <2> QED BY <2>1, <2>2, RowLogged
<1>2. ASSUME NEW surface, NEW filter, NEW bySession, NEW compact,
             Begin(surface, filter, bySession, compact)
      PROVE  ReportInv'
  <2>1. RowsAreCounted' /\ UNCHANGED rows
    BY <1>2 DEF ReportInv, Begin, RowsAreCounted, IsCounted
  <2>2. report' = [surface |-> surface, filter |-> filter, bySession |-> bySession,
                   compact |-> compact, seen |-> <<>>]
    BY <1>2 DEF Begin
  <2>3. \A n : IsInTime(<<>>, n)
    BY DEF IsInTime
  <2> QED BY <2>1, <2>2, <2>3 DEF ReportInv
<1>3. CASE RunStats \/ \E c \in Client : GetStats(task.host, Session(c)) \/ Sidebar(Session(c))
  BY <1>2, <1>3 DEF RunStats, GetStats, Sidebar
<1>4. CASE Query
  <2> DEFINE n == Len(rows)
             seen == report.seen
             m == Len(seen)
             more == Append(seen, n)
  <2>1. RowsAreCounted' /\ UNCHANGED rows
    BY <1>4 DEF ReportInv, Query, RowsAreCounted, IsCounted
  <2>2. n \in Nat /\ n \in 0 .. n
    BY RowsAreFinite DEF ReportInv
  <2>3. /\ report \in [surface : {report.surface}, filter : {report.filter},
                       bySession : {report.bySession}, compact : {report.compact},
                       seen : {report.seen}]
        /\ IsInTime(seen, n) /\ report' = [report EXCEPT !.seen = more]
    BY <1>4 DEF Query, ReportInv
  <2>4. seen \in Seq(0 .. n) /\ \A i, j \in DOMAIN seen : i <= j => seen[i] <= seen[j]
    BY <2>3 DEF IsInTime
  <2> HIDE DEF n, seen
  <2>5. m \in Nat /\ DOMAIN seen = 1 .. m /\ \A i \in 1 .. m : seen[i] \in 0 .. n
    <3> DEFINE V == 0 .. n
    <3>1. seen \in Seq(V)
      BY <2>4
    <3> HIDE DEF V
    <3>2. m \in Nat /\ DOMAIN seen = 1 .. m /\ \A i \in 1 .. m : seen[i] \in V
      BY <3>1
    <3> QED BY <3>2 DEF V
  <2>6. /\ more \in Seq(0 .. n) /\ DOMAIN more = 1 .. m + 1 /\ more[m + 1] = n
        /\ \A i \in 1 .. m : more[i] = seen[i]
    BY <2>2, <2>4, <2>5
  <2> HIDE DEF more, m
  <2>7. ASSUME NEW i \in 1 .. m + 1, NEW j \in 1 .. m + 1, i <= j PROVE more[i] <= more[j]
    <3>1. CASE j \in 1 .. m
      BY <2>4, <2>5, <2>6, <2>7, <3>1
    <3>2. CASE j = m + 1
      <4>1. more[i] \in 0 .. n
        BY <2>2, <2>5, <2>6
      <4> QED BY <2>2, <2>6, <3>2, <4>1
    <3> QED BY <2>5, <3>1, <3>2
  <2>8. IsInTime(more, n)
    BY <2>6, <2>7 DEF IsInTime
  <2>9. /\ report' \in [surface : {report'.surface}, filter : {report'.filter},
                        bySession : {report'.bySession}, compact : {report'.compact},
                        seen : {report'.seen}]
        /\ report'.seen = more
    BY <2>3
  <2> QED BY <2>1, <2>8, <2>9 DEF ReportInv, n
<1>5. CASE EndReport
  BY <1>5, ReportStays DEF EndReport, ReportInv, RowsAreCounted, IsCounted
<1> QED BY <1>1, <1>3, <1>4, <1>5 DEF Reporting

\* What a tool saved is logged, if anything.
LEMMA LoggedIsCounted ==
    ASSUME ReportInv, AnswersInv, NEW c, NEW source, source # "session", NEW input,
           NEW tokensIn \in Int, NEW tokensOut \in Int, NEW result,
           LogAndAnswer(c, source, input, tokensIn, tokensOut, result)
    PROVE  ReportInv'
<1> DEFINE saved == tokensIn - tokensOut
           r == Row(source, saved, task.host, Session(c))
<1>1. task.host \in Hosts
  <2>1. task.host \in {"mcp", "opencode"}
    BY ToolboxAssumption DEF AnswersInv
  <2>2. "mcp" \in Hosts /\ "opencode" \in Hosts
    BY DEF Hosts, HostOrder, Range
  <2> QED BY <2>1, <2>2
<1>2. UNCHANGED report /\ ((rows' = Append(rows, r) /\ tokensIn > tokensOut) \/ UNCHANGED rows)
  BY DEF LogAndAnswer
<1>3. CASE UNCHANGED rows
  BY <1>2, <1>3, ReportStays
<1>4. CASE rows' = Append(rows, r) /\ tokensIn > tokensOut
  <2>1. saved \in Nat
    BY <1>4
  <2> HIDE DEF saved
  <2>2. IsCounted(r)
    BY <1>1, <2>1 DEF IsCounted, Row
  <2> HIDE DEF r
  <2> QED BY <1>2, <1>4, <2>2, RowLogged
<1> QED BY <1>2, <1>3, <1>4

\* The tools that log when they answer.
LEMMA AnswersAreCounted ==
    ASSUME ReportInv, AnswersInv, NEW c \in Client,
           TrimTool(c) \/ LogSummary(c) \/ DiffTool(c) \/ GrepOutput(c)
    PROVE  ReportInv'
<1>1. ASSUME NEW input, Fails(c, input) PROVE ReportInv'
  BY <1>1, ReportStays DEF Fails
<1>2. CASE TrimTool(c)
  <2>1. PICK x \in task.inputs :
            LET r == TrimContext(task.host, x.files, x.ignored, x.query, x.maxTokens) IN
            /\ Opens(c, "trim_context", x)
            /\ LogAndAnswer(c, "trim", x, r.tokensIn, r.tokensOut, r)
    BY <1>2 DEF TrimTool
  <2> DEFINE r == TrimContext(task.host, x.files, x.ignored, x.query, x.maxTokens)
  <2>2. Opens(c, "trim_context", x) /\ LogAndAnswer(c, "trim", x, r.tokensIn, r.tokensOut, r)
    BY <2>1
  <2>3. IsInput("trim_context", x)
    BY <2>2, InputsAreTyped DEF Opens
  <2>4. r.tokensIn \in Nat /\ r.tokensOut \in Nat
    BY <2>3, TrimContextPromises
  <2> HIDE DEF r
  <2>5. r.tokensIn \in Int /\ r.tokensOut \in Int
    BY <2>4
  <2> QED BY <2>2, <2>5, LoggedIsCounted
<1>3. CASE LogSummary(c)
  <2>1. PICK x \in task.inputs :
            /\ Opens(c, "log_summary", x)
            /\ IF x.big THEN Fails(c, x)
               ELSE LET r == SummarizeLog(x.lines, x.budget)
                    IN  LogAndAnswer(c, "log_summary", x, r.tokensIn, r.tokensIn - r.tokensSaved, r)
    BY <1>3 DEF LogSummary
  <2> DEFINE r == SummarizeLog(x.lines, x.budget)
             out == r.tokensIn - r.tokensSaved
  <2>2. /\ Opens(c, "log_summary", x)
        /\ Fails(c, x) \/ LogAndAnswer(c, "log_summary", x, r.tokensIn, out, r)
    BY <2>1
  <2>3. IsInput("log_summary", x)
    BY <2>2, InputsAreTyped DEF Opens
  <2>4. r.tokensIn \in Int /\ r.tokensSaved \in Int
    BY <2>3, SummarizeLogPromises
  <2> HIDE DEF r
  <2>5. out \in Int
    BY <2>4
  <2> HIDE DEF out
  <2> QED BY <1>1, <2>2, <2>4, <2>5, LoggedIsCounted
<1>4. CASE DiffTool(c)
  <2>1. PICK x \in task.inputs :
            /\ Opens(c, "diff_read", x)
            /\ IF x.big \/ x.hunks = <<>> \/ x.lines = <<>> THEN Fails(c, x)
               ELSE LET r == DiffRead(x.lines, x.hunks, x.context, x.budget)
                    IN  LogAndAnswer(c, "diff_read", x, r.tokensIn, r.tokensIn - r.tokensSaved, r)
    BY <1>4 DEF DiffTool
  <2> DEFINE r == DiffRead(x.lines, x.hunks, x.context, x.budget)
             out == r.tokensIn - r.tokensSaved
  <2>2. /\ Opens(c, "diff_read", x)
        /\ \/ Fails(c, x)
           \/ x.hunks # <<>> /\ LogAndAnswer(c, "diff_read", x, r.tokensIn, out, r)
    BY <2>1
  <2>3. IsInput("diff_read", x)
    BY <2>2, InputsAreTyped DEF Opens
  <2>4. CASE Fails(c, x)
    BY <1>1, <2>4
  <2>5. CASE x.hunks # <<>> /\ LogAndAnswer(c, "diff_read", x, r.tokensIn, out, r)
    <3>1. r.tokensIn \in Int /\ r.tokensSaved \in Int
      BY <2>3, <2>5, DiffReadPromises
    <3> HIDE DEF r
    <3>2. out \in Int
      BY <3>1
    <3> HIDE DEF out
    <3> QED BY <2>5, <3>1, <3>2, LoggedIsCounted
  <2> QED BY <2>2, <2>4, <2>5
<1>5. CASE GrepOutput(c)
  <2>1. PICK x \in task.inputs :
            LET r == CompressGrepOutput(x.lines, x.minTokens) IN
            /\ Opens(c, "grep", x)
            /\ LogAndAnswer(c, "compress", x, r.tokensIn,
                            IF r.compressed THEN r.tokensOut ELSE x.general, r)
    BY <1>5 DEF GrepOutput
  <2> DEFINE r == CompressGrepOutput(x.lines, x.minTokens)
             out == IF r.compressed THEN r.tokensOut ELSE x.general
  <2>2. Opens(c, "grep", x) /\ LogAndAnswer(c, "compress", x, r.tokensIn, out, r)
    BY <2>1
  <2>3. IsInput("grep", x)
    BY <2>2, InputsAreTyped DEF Opens
  <2>4. r.tokensIn \in Int /\ r.tokensOut \in Int
    BY <2>3, CompressPromises
  <2>5. x.general \in Int
    BY <2>3 DEF IsInput
  <2> HIDE DEF r
  <2>6. out \in Int
    BY <2>4, <2>5
  <2> HIDE DEF out
  <2> QED BY <2>2, <2>4, <2>6, LoggedIsCounted
<1> QED BY <1>2, <1>3, <1>4, <1>5

LEMMA ReadIsCounted ==
    ASSUME ReportInv, AnswersInv, NEW c \in Client, SmartRead(c) \/ Parse(c)
    PROVE  ReportInv'
<1>1. ASSUME NEW f, IsInput("smart_read", f), Budgeted(c, f) PROVE ReportInv'
  <2> DEFINE out == Tokens(CompressToolOutput(f.text, 1, 4 * f.budget))
             in == Tokens(Length(f.text))
             r == [kind |-> "budgeted", tokensOut |-> out]
  <2>1. LogAndAnswer(c, "smart_read", f, in, out, r)
    BY <1>1 DEF Budgeted
  <2>2. f.text \in AnyText /\ f.budget \in Nat \ {0}
    BY <1>1 DEF IsInput
  <2>3. in \in Nat /\ out \in Nat
    BY <2>2, CutFits
  <2> HIDE DEF in, out, r
  <2>4. in \in Int /\ out \in Int
    BY <2>3
  <2> QED BY <2>1, <2>4, LoggedIsCounted
<1>2. CASE SmartRead(c)
  <2>1. PICK f \in task.inputs :
           /\ Opens(c, "smart_read", f)
           /\ Fails(c, f) \/ Budgeted(c, f) \/ UNCHANGED <<rows, report>>
    BY <1>2, Zenon DEF SmartRead
  <2>2. IsInput("smart_read", f)
    BY <2>1, InputsAreTyped DEF Opens
  <2> QED BY <1>1, <2>1, <2>2, ReportStays DEF Fails
<1>3. CASE Parse(c)
  <2> DEFINE f == call[c].input
             in == Tokens(Length(f.text))
             o == Outline(f.nodes)
             r == [kind |-> "symbols", names |-> o.names]
  <2>1. f \in task.inputs /\ task.tool = "smart_read"
    BY <1>3 DEF Parse, AnswersInv, IsPromised
  <2>2. IsInput("smart_read", f)
    BY <2>1, InputsAreTyped
  <2>3. Budgeted(c, f) \/ (f.nodes # NoTree /\ LogAndAnswer(c, "smart_read", f, in, o.tokens, r))
    BY <1>3, Zenon DEF Parse
  <2>4. CASE Budgeted(c, f)
    BY <1>1, <2>2, <2>4
  <2>5. CASE f.nodes # NoTree /\ LogAndAnswer(c, "smart_read", f, in, o.tokens, r)
    <3>1. in \in Int /\ f.nodes \in Seq(TopLevelNode)
      <4> HIDE DEF f
      <4>1. f.nodes \in {NoTree} \cup Seq(TopLevelNode)
        BY <2>2 DEF IsInput
      <4>2. f.text \in AnyText /\ f.budget \in Nat \ {0}
        BY <2>2 DEF IsInput
      <4>3. in \in Nat
        BY <4>2, CutFits
      <4> QED BY <2>5, <4>1, <4>3
    <3>2. o.tokens \in Nat
      BY <3>1, OutlineTokens
    <3> HIDE DEF r, o, f, in
    <3>3. o.tokens \in Int
      BY <3>2
    <3> QED BY <2>5, <3>1, <3>3, LoggedIsCounted
  <2> QED BY <2>3, <2>4, <2>5
<1> QED BY <1>2, <1>3

LEMMA SearchIsCounted ==
    ASSUME ReportInv, AnswersInv, NEW c \in Client, SearchEnds(c)
    PROVE  ReportInv'
<1> DEFINE x == call[c].input
           files == call[c].files
           h == SearchHits(files, x.query, x.maxResults, x.budget)
           out == Heading * (1 + Len(h.hits)) + Sum(h.hits)
           in == out + h.tokensSaved
           r == [hits |-> h.hits, files |-> files]
<1>1. LogAndAnswer(c, "code_search", x, in, out, r)
  BY DEF SearchEnds
<1>2. /\ task.tool = "code_search" /\ x \in task.inputs /\ x.query # Blank
      /\ AreFound(x, files)
  BY DEF SearchEnds, Walked, AnswersInv, IsPromised
<1>3. IsInput("code_search", x)
  BY <1>2, InputsAreTyped
<1>4. r.files = files /\ r.hits = h.hits
  OBVIOUS
<1> HIDE DEF x, files, r
<1>5. Len(h.hits) \in Nat /\ Sum(h.hits) \in Nat /\ h.tokensSaved \in Int
  BY <1>2, <1>3, <1>4, SearchPromises
<1> HIDE DEF h
<1> DEFINE n == Len(h.hits)
           sum == Sum(h.hits)
<1>6. out \in Int /\ in \in Int
  <2>1. out = Heading * (1 + n) + sum /\ n \in Nat /\ sum \in Nat /\ Heading \in Nat
    BY <1>5, ToolboxAssumption
  <2> HIDE DEF n, sum, out
  <2>2. out \in Int
    <3>1. Heading * (1 + n) \in Int
      BY <2>1
    <3> QED BY <2>1, <3>1
  <2> QED BY <1>5, <2>2
<1> HIDE DEF out, in, n, sum
<1> QED BY <1>1, <1>6, LoggedIsCounted

\* Every step keeps the table counted and the report in its time.
LEMMA NextReports == AnswersInv /\ ReportInv /\ [Next]_vars => ReportInv'
<1> SUFFICES ASSUME AnswersInv, ReportInv, [Next]_vars PROVE ReportInv'
  OBVIOUS
<1>1. CASE \E c \in Client : TrimTool(c) \/ LogSummary(c) \/ DiffTool(c) \/ GrepOutput(c)
  BY <1>1, AnswersAreCounted
<1>2. CASE \E c \in Client : SmartRead(c) \/ Parse(c)
  BY <1>2, ReadIsCounted
<1>3. CASE \E c \in Client : SearchEnds(c)
  BY <1>3, SearchIsCounted
<1>4. CASE Reporting
  BY <1>4, ReportingKeeps
<1>5. CASE UNCHANGED <<rows, report>>
  BY <1>5, ReportStays
<1>6. ASSUME NEW c \in Client,
             PlanTool(c) \/ SearchTool(c) \/ InitReturns(c) \/ LoadLanguage(c) \/ WalkOn(c) \/ Take(c)
      PROVE  UNCHANGED <<rows, report>>
  BY <1>6, Zenon DEF PlanTool, SearchTool, InitReturns, LoadLanguage, WalkOn, Take
<1> QED
  BY <1>1, <1>2, <1>3, <1>4, <1>5, <1>6 DEF Next, InitSettles, Restart, vars

LEMMA ReportsAlways == Spec => []ReportInv
<1>1. Init => ParserInv /\ AnswersInv
  BY DEF Init, NewServer, ParserInv, IsServer, HasFields, IsServed, AnswersInv, IsPromised
<1>2. Init => ReportInv
  <2>1. SUFFICES ASSUME Init PROVE ReportInv
    OBVIOUS
  <2>2. rows = <<>> /\ report = NoReport
    BY <2>1 DEF Init, ReportsInit
  <2> QED BY <2>2 DEF ReportInv, RowsAreCounted
<1> QED
  BY <1>1, <1>2, NextParser, NextAnswers, NextReports, PTL DEF Spec

\* Whatever is logged between the statements of a summary, by this process or
\* another one of any version: what is shown lies between the summaries of
\* the first moment and of the last, the saving in real time is not negative
\* and no more than what it is compared with (but for a row of an older
\* ctxlite in between), nothing that was saved is hidden, and the bars compare
\* as the savings do (stats.ts 143-275, report.ts 119-160).
THEOREM SummariesAreOfTheirTime == Spec => []SummaryIsOfItsTime
BY ReportsAlways, ReportsAreOfTheirTime, PTL

-----------------------------------------------------------------------------
(* Sessions.                                                               *)

SessionOf(r) == <<r.host, r.session>>
RowsOf(at, s) == {i \in Named(at) : <<rows[i].host, rows[i].session>> = s}
PlaceOf(h) == CHOOSE i \in DOMAIN HostOrder : HostOrder[i] = h

LEMMA PlacesAre ==
    ASSUME NEW h \in Hosts
    PROVE  PlaceOf(h) \in 1 .. 4 /\ HostOrder[PlaceOf(h)] = h
<1>1. DOMAIN HostOrder = 1 .. 4
  BY DEF HostOrder
<1>2. \E i \in DOMAIN HostOrder : HostOrder[i] = h
  BY DEF Hosts, Range
<1>3. PlaceOf(h) \in DOMAIN HostOrder /\ HostOrder[PlaceOf(h)] = h
  BY <1>2, Zenon DEF PlaceOf
<1> QED BY <1>1, <1>3

\* The sessions seen: finitely many, each with rows, of the known hosts.
AreSessions(at, S) ==
    /\ IsFiniteSet(S)
    /\ \A s \in S : /\ s = <<s[1], s[2]>> /\ s[1] \in Hosts
                    /\ RowsOf(at, s) \in SUBSET DOMAIN rows /\ RowsOf(at, s) # {}
                    /\ Max(RowsOf(at, s)) \in RowsOf(at, s) /\ Max(RowsOf(at, s)) \in Nat

LEMMA SessionsAre ==
    ASSUME RowsAreCounted, NEW at \in SUBSET DOMAIN rows
    PROVE  AreSessions(at, SessionsOf(Named(at)))
<1> DEFINE N == Named(at)
           S == SessionsOf(N)
<1>1. N \in SUBSET DOMAIN rows /\ \A i \in N : rows[i].host \in Hosts
  BY DEF Named, RowsAreCounted, IsCounted
<1>2. S = {<<rows[i].host, rows[i].session>> : i \in N}
  BY DEF SessionsOf
<1>3. IsFiniteSet(S)
  <2> DEFINE f == [i \in N |-> <<rows[i].host, rows[i].session>>]
  <2>1. f \in Surjection(N, S)
    BY <1>2 DEF Surjection
  <2>2. IsFiniteSet(N)
    BY <1>1, RowsAreFinite
  <2> HIDE DEF f, N, S
  <2> QED BY <2>1, <2>2, FS_Surjection
<1>4. ASSUME NEW s \in S
      PROVE  /\ s = <<s[1], s[2]>> /\ s[1] \in Hosts
             /\ RowsOf(at, s) \in SUBSET DOMAIN rows /\ RowsOf(at, s) # {}
             /\ Max(RowsOf(at, s)) \in RowsOf(at, s) /\ Max(RowsOf(at, s)) \in Nat
  <2>1. PICK i \in N : s = <<rows[i].host, rows[i].session>>
    BY <1>2
  <2>2. s = <<s[1], s[2]>> /\ s[1] \in Hosts
    BY <1>1, <2>1
  <2>3. RowsOf(at, s) \in SUBSET DOMAIN rows /\ i \in RowsOf(at, s)
    BY <1>1, <2>1 DEF RowsOf
  <2>4. RowsOf(at, s) \in SUBSET Int /\ RowsOf(at, s) \in SUBSET Nat /\ IsFiniteSet(RowsOf(at, s))
    BY <2>3, RowsAreFinite
  <2>5. Max(RowsOf(at, s)) \in RowsOf(at, s)
    BY <2>3, <2>4, MaxIs
  <2> QED BY <2>2, <2>3, <2>4, <2>5
<1> QED BY <1>3, <1>4 DEF AreSessions

\* What a breakdown lists: every session once, the hosts in their order.
IsLine(r, at) ==
    /\ SessionOf(r) \in SessionsOf(Named(at)) /\ r.host \in Hosts
    /\ r.total = Cardinality(RowsOf(at, SessionOf(r)))
    /\ r.saved = Saved(RowsOf(at, SessionOf(r)))
IsBreakdown(e, at) ==
    /\ Len(e) \in Nat /\ DOMAIN e = 1 .. Len(e)
    /\ \A k \in DOMAIN e : IsLine(e[k], at)
    /\ \A s \in SessionsOf(Named(at)) : \E k \in DOMAIN e : s = SessionOf(e[k])
    /\ \A k, m \in DOMAIN e : SessionOf(e[k]) = SessionOf(e[m]) => k = m
    /\ \A k, m \in DOMAIN e : k <= m => PlaceOf(e[k].host) <= PlaceOf(e[m].host)

LEMMA SessionRowsAre ==
    ASSUME RowsAreCounted, NEW at \in SUBSET DOMAIN rows, NEW e, e = SessionRows(at)
    PROVE  IsBreakdown(e, at)
<1> DEFINE S == SessionsOf(Named(at))
           of(s) == RowsOf(at, s)
           Before(s, t) == \/ PlaceOf(s[1]) < PlaceOf(t[1])
                           \/ s[1] = t[1] /\ Max(of(s)) >= Max(of(t))
           below == [t \in S |-> {s \in S : Before(s, t)}]
           sessions == Sorted(S, Before)
           n == Cardinality(S)
<1>1. AreSessions(at, S)
  BY SessionsAre
<1>2. e = [k \in DOMAIN sessions |->
             [host |-> sessions[k][1], session |-> sessions[k][2],
              total |-> Cardinality(of(sessions[k])), saved |-> Saved(of(sessions[k]))]]
  BY Zenon DEF SessionRows, RowsOf, PlaceOf
<1>3. sessions = [k \in 1 .. Cardinality(S) |->
                     CHOOSE s \in S : Cardinality({y \in S : Before(y, s)}) = k]
  BY DEF Sorted
<1>4. \A t \in S : below[t] = {s \in S : Before(s, t)}
  OBVIOUS
<1>5. \A s \in S : /\ s[1] \in Hosts /\ PlaceOf(s[1]) \in 1 .. 4 /\ HostOrder[PlaceOf(s[1])] = s[1]
                   /\ Max(of(s)) \in Nat
  BY <1>1, PlacesAre DEF AreSessions
<1> HIDE DEF S, below, sessions
<1>6. IsOrder(S, below)
  <2>1. \A s \in S : below[s] \in SUBSET S /\ s \in below[s]
    BY <1>4, <1>5
  <2>2. ASSUME NEW s \in S, NEW t \in S, Before(s, t) PROVE below[s] \subseteq below[t]
    <3>1. ASSUME NEW u \in S, Before(u, s) PROVE Before(u, t)
      <4> DEFINE pu == PlaceOf(u[1])
                 ps == PlaceOf(s[1])
                 pt == PlaceOf(t[1])
                 mu == Max(of(u))
                 ms == Max(of(s))
                 mt == Max(of(t))
      <4>1. /\ pu \in Nat /\ ps \in Nat /\ pt \in Nat /\ mu \in Nat /\ ms \in Nat /\ mt \in Nat
            /\ u[1] = s[1] => pu = ps
            /\ s[1] = t[1] => ps = pt
        BY <1>5
      <4>2. pu < ps \/ (u[1] = s[1] /\ mu >= ms)
        BY <3>1
      <4>3. ps < pt \/ (s[1] = t[1] /\ ms >= mt)
        BY <2>2
      <4> HIDE DEF pu, ps, pt, mu, ms, mt
      <4>4. pu < pt \/ (u[1] = t[1] /\ mu >= mt)
        BY <4>1, <4>2, <4>3
      <4> QED BY <4>4 DEF pu, pt, mu, mt
    <3> HIDE DEF Before
    <3> QED BY <1>4, <3>1
  <2>3. ASSUME NEW s \in S, NEW t \in S PROVE Before(s, t) \/ Before(t, s)
    <3> DEFINE ps == PlaceOf(s[1])
               pt == PlaceOf(t[1])
               ms == Max(of(s))
               mt == Max(of(t))
    <3>1. ps \in Nat /\ pt \in Nat /\ ms \in Nat /\ mt \in Nat /\ (ps = pt => s[1] = t[1])
      BY <1>5
    <3> HIDE DEF ps, pt, ms, mt
    <3>2. \/ ps < pt \/ (s[1] = t[1] /\ ms >= mt)
          \/ pt < ps \/ (t[1] = s[1] /\ mt >= ms)
      BY <3>1
    <3> QED BY <3>2 DEF ps, pt, ms, mt
  <2>4. ASSUME NEW s \in S, NEW t \in S, below[s] = below[t] PROVE s = t
    <3>1. s \in below[t] /\ t \in below[s]
      BY <2>1, <2>4
    <3>2. Before(s, t) /\ Before(t, s)
      <4> HIDE DEF Before
      <4> QED BY <1>4, <3>1
    <3> DEFINE ps == PlaceOf(s[1])
               pt == PlaceOf(t[1])
               ms == Max(of(s))
               mt == Max(of(t))
    <3>3. ps \in Nat /\ pt \in Nat /\ ms \in Nat /\ mt \in Nat
      BY <1>5
    <3>4. ms = mt
      <4>1. ps < pt \/ (s[1] = t[1] /\ ms >= mt)
        BY <3>2
      <4>2. pt < ps \/ (t[1] = s[1] /\ mt >= ms)
        BY <3>2
      <4>3. s[1] = t[1] => ps = pt
        OBVIOUS
      <4> HIDE DEF ps, pt, ms, mt
      <4> QED BY <3>3, <4>1, <4>2, <4>3
    <3>5. ms \in RowsOf(at, s) /\ mt \in RowsOf(at, t)
      BY <1>1 DEF AreSessions
    <3> HIDE DEF ms, mt
    <3> QED BY <3>4, <3>5 DEF RowsOf
  <2> HIDE DEF Before
  <2> QED BY <2>1, <2>2, <2>3, <2>4 DEF IsOrder
<1>7. IsPlaced(sessions, S, below)
  <2> HIDE DEF Before
  <2>1. sessions = [k \in 1 .. Cardinality(S) |-> sessions[k]]
    <3> DEFINE chosen(k) == CHOOSE s \in S : Cardinality({y \in S : Before(y, s)}) = k
    <3>1. sessions = [k \in 1 .. Cardinality(S) |-> chosen(k)]
      BY <1>3
    <3> HIDE DEF chosen
    <3> QED BY <3>1
  <2>2. ASSUME NEW k \in 1 .. Cardinality(S), NEW s \in S, Cardinality(below[s]) = k
        PROVE  sessions[k] \in S /\ Cardinality(below[sessions[k]]) = k
    <3>1. sessions[k] = CHOOSE t \in S : Cardinality({y \in S : Before(y, t)}) = k
      BY <1>3
    <3>2. Cardinality({y \in S : Before(y, s)}) = k
      BY <1>4, <2>2
    <3>3. sessions[k] \in S /\ Cardinality({y \in S : Before(y, sessions[k])}) = k
      BY <3>1, <3>2, Zenon
    <3>4. below[sessions[k]] = {y \in S : Before(y, sessions[k])}
      BY <1>4, <3>3
    <3> QED BY <3>3, <3>4, Zenon
  <2> QED BY <2>1, <2>2 DEF IsPlaced
<1>8. HasOrder(sessions, S, below)
  <2>1. IsFiniteSet(S)
    BY <1>1 DEF AreSessions
  <2> QED BY <1>6, <1>7, <2>1, SortedHasOrder
<1>9. /\ n \in Nat /\ sessions \in [1 .. n -> S]
      /\ \A s \in S : \E k \in 1 .. n : sessions[k] = s
      /\ \A k, m \in 1 .. n : sessions[k] = sessions[m] => k = m
  BY <1>8 DEF HasOrder
<1>10. ASSUME NEW k \in 1 .. n, NEW m \in 1 .. n, k <= m
       PROVE  PlaceOf(sessions[k][1]) <= PlaceOf(sessions[m][1])
  <2>1. sessions[k] \in S /\ sessions[m] \in S
    BY <1>9
  <2>2. sessions[k] \in below[sessions[m]]
    BY <1>6, <1>8, <1>9, <1>10, <2>1 DEF HasOrder, IsOrder
  <2>3. Before(sessions[k], sessions[m])
    <3> HIDE DEF Before
    <3> QED BY <1>4, <2>1, <2>2
  <2> QED BY <1>5, <2>1, <2>3
<1> HIDE DEF Before, n
<1>11. DOMAIN e = 1 .. n /\ Len(e) = n
  BY <1>2, <1>9
<1>12. ASSUME NEW k \in 1 .. n
       PROVE  /\ SessionOf(e[k]) = sessions[k] /\ e[k].host = sessions[k][1]
              /\ IsLine(e[k], at)
  <2>1. e[k] = [host |-> sessions[k][1], session |-> sessions[k][2],
                total |-> Cardinality(of(sessions[k])), saved |-> Saved(of(sessions[k]))]
    BY <1>2, <1>9
  <2>2. sessions[k] \in S
    BY <1>9
  <2>3. sessions[k] = <<sessions[k][1], sessions[k][2]>> /\ sessions[k][1] \in Hosts
    BY <1>1, <2>2 DEF AreSessions
  <2>4. SessionOf(e[k]) = sessions[k] /\ e[k].host = sessions[k][1]
    BY <2>1, <2>3 DEF SessionOf
  <2>5. e[k].total = Cardinality(RowsOf(at, sessions[k])) /\ e[k].saved = Saved(RowsOf(at, sessions[k]))
    BY <2>1
  <2> QED BY <2>2, <2>3, <2>4, <2>5 DEF IsLine, S
<1> HIDE DEF of
<1>13. \A s \in S : \E k \in 1 .. n : s = SessionOf(e[k])
  BY <1>9, <1>12
<1>14. \A k, m \in 1 .. n : SessionOf(e[k]) = SessionOf(e[m]) => k = m
  BY <1>9, <1>12
<1>15. \A k, m \in 1 .. n : k <= m => PlaceOf(e[k].host) <= PlaceOf(e[m].host)
  BY <1>10, <1>12
<1> QED
  BY <1>9, <1>11, <1>12, <1>13, <1>14, <1>15 DEF IsBreakdown, S

\* A heading for each host: its lines follow each other.
LEMMA OneHeadingEach ==
    ASSUME NEW at, NEW e, IsBreakdown(e, at)
    PROVE  Cardinality(HostLines(e)) = Cardinality({r.host : r \in Range(e)})
<1> DEFINE n == Len(e)
           host == [k \in 1 .. n |-> e[k].host]
           lines == {k \in 1 .. n : k = 1 \/ host[k] # host[k - 1]}
           hosts == {host[k] : k \in 1 .. n}
           f == [k \in lines |-> host[k]]
<1>1. n \in Nat /\ DOMAIN e = 1 .. n
  BY DEF IsBreakdown
<1>2. HostLines(e) = lines
  <2>1. \A k \in 1 .. n : k = 1 \/ k - 1 \in 1 .. n
    BY <1>1
  <2> QED BY <1>1, <2>1 DEF HostLines
<1>3. {r.host : r \in Range(e)} = hosts
  BY <1>1 DEF Range
<1>4. \A k \in 1 .. n : PlaceOf(host[k]) \in Nat /\ HostOrder[PlaceOf(host[k])] = host[k]
  <2>1. \A k \in 1 .. n : host[k] \in Hosts
    BY <1>1 DEF IsBreakdown, IsLine
  <2> HIDE DEF host
  <2>2. \A k \in 1 .. n : PlaceOf(host[k]) \in 1 .. 4 /\ HostOrder[PlaceOf(host[k])] = host[k]
    BY <2>1, PlacesAre
  <2> QED BY <2>2
<1>5. \A k, m \in 1 .. n : k <= m => PlaceOf(host[k]) <= PlaceOf(host[m])
  BY <1>1 DEF IsBreakdown
<1> HIDE DEF n, host
<1>6. IsFiniteSet(lines)
  <2>1. 1 \in Int /\ n \in Int /\ lines \in SUBSET (1 .. n)
    BY <1>1
  <2> HIDE DEF lines
  <2> QED BY <2>1, Bounded
<1>7. ASSUME NEW h \in hosts PROVE \E k \in lines : host[k] = h
  <2> DEFINE K == {k \in 1 .. n : host[k] = h}
  <2>1. 1 \in Int /\ n \in Int /\ K \in SUBSET (1 .. n) /\ K # {}
    BY <1>1
  <2> HIDE DEF K
  <2>2. K \in SUBSET Int /\ IsFiniteSet(K)
    BY <2>1, Bounded
  <2>3. Min(K) \in K /\ \A k \in K : Min(K) <= k
    BY <2>1, <2>2, MinIs
  <2> DEFINE first == Min(K)
  <2>4. first \in K /\ \A k \in K : first <= k
    BY <2>3
  <2> HIDE DEF first
  <2>5. first \in 1 .. n /\ host[first] = h
    BY <2>4 DEF K
  <2>6. first # 1 => first - 1 \in 1 .. n /\ ~ (first <= first - 1)
    BY <1>1, <2>5
  <2>7. first # 1 => first - 1 \notin K
    BY <2>4, <2>6
  <2>8. first # 1 => host[first - 1] # h
    BY <2>6, <2>7 DEF K
  <2> QED BY <2>5, <2>8
<1>8. ASSUME NEW k \in lines, NEW m \in lines, host[k] = host[m], k < m PROVE FALSE
  <2>1. k \in 1 .. n /\ m \in 1 .. n /\ m - 1 \in 1 .. n /\ k <= m - 1 /\ m - 1 <= m /\ m # 1
    BY <1>1, <1>8
  <2>2. host[m] # host[m - 1]
    BY <2>1
  <2> DEFINE b == m - 1
  <2>3. b \in 1 .. n /\ k <= b /\ b <= m /\ host[m] # host[b]
    BY <2>1, <2>2
  <2> HIDE DEF b
  <2>4. PlaceOf(host[k]) <= PlaceOf(host[b]) /\ PlaceOf(host[b]) <= PlaceOf(host[m])
    BY <1>5, <2>1, <2>3
  <2>5. PlaceOf(host[b]) = PlaceOf(host[m])
    BY <1>4, <1>8, <2>1, <2>3, <2>4
  <2> QED BY <1>4, <2>1, <2>3, <2>5
<1>9. \A k, m \in lines : host[k] = host[m] => k = m
  <2>1. \A k, m \in lines : k < m \/ m < k \/ k = m
    BY <1>1
  <2> HIDE DEF lines
  <2> QED BY <1>8, <2>1
<1>10. f \in Surjection(lines, hosts) /\ f \in Injection(lines, hosts)
  <2>1. \A k \in lines : host[k] \in hosts
    OBVIOUS
  <2> HIDE DEF lines, hosts
  <2> QED BY <1>7, <1>9, <2>1 DEF Surjection, Injection, IsInjective
<1> HIDE DEF lines, hosts, f
<1>11. Cardinality(hosts) = Cardinality(lines)
  BY <1>6, <1>10, FS_Surjection
<1> QED BY <1>2, <1>3, <1>11

\* Turns save nothing.
LEMMA TurnsSaveNothing ==
    ASSUME RowsAreCounted, NEW at \in SUBSET DOMAIN rows, \A i \in at : rows[i].saved = 0
    PROVE  Saved(at) = 0
<1> DEFINE f == [i \in DOMAIN rows |-> rows[i].saved]
           T == {s \in SUBSET at : SumFunctionOnSet(f, s) = 0}
<1>1. IsFiniteSet(at) /\ \A i \in at : f[i] \in Nat /\ f[i] = 0
  BY RowsAreFinite
<1>2. Saved(at) = SumFunctionOnSet(f, at)
  BY DEF Saved
<1> HIDE DEF f
<1>3. /\ SumFunctionOnSet(f, {}) = 0
      /\ \A A \in SUBSET at : \A x \in A : SumFunctionOnSet(f, A) = SumFunctionOnSet(f, A \ {x}) + f[x]
  <2>1. \A i \in at : f[i] \in Nat
    BY <1>1
  <2> QED BY <1>1, <2>1, SumAdds
<1>4. {} \in T
  BY <1>3
<1>5. \A s \in SUBSET at : \A x \in at \ s : s \in T => s \cup {x} \in T
  <2> SUFFICES ASSUME NEW s \in SUBSET at, NEW x \in at \ s, s \in T PROVE s \cup {x} \in T
    OBVIOUS
  <2>1. s \cup {x} \in SUBSET at /\ x \in s \cup {x} /\ (s \cup {x}) \ {x} = s
    OBVIOUS
  <2>2. SumFunctionOnSet(f, s \cup {x}) = SumFunctionOnSet(f, s) + f[x]
    BY <1>3, <2>1
  <2> QED BY <1>1, <2>1, <2>2
<1> HIDE DEF T
<1>6. at \in T
  BY <1>1, <1>4, <1>5, SetInduct
<1> QED BY <1>2, <1>6 DEF T

\* The summary of a session has at least the rows that its line says.
LEMMA SummaryHasLine ==
    ASSUME RowsAreCounted, NEW R \in SUBSET DOMAIN rows,
           NEW A \in SUBSET DOMAIN rows, NEW B \in SUBSET DOMAIN rows, NEW C \in SUBSET DOMAIN rows,
           R \subseteq A, A \subseteq C, NEW s, s = Summary(A, B, C)
    PROVE  Saved(R) <= s.saved /\ Cardinality(R) <= s.total + s.turns
<1> DEFINE X == NoTurns(R)
           Y == Turns(R)
<1>1. IsSummary(s, A, B, C)
  BY SummaryIs
<1>2. s.total = Cardinality(NoTurns(A)) /\ s.saved = Saved(NoTurns(A)) /\ s.turns = Cardinality(Turns(C))
  BY <1>1, Zenon DEF IsSummary
<1>3. /\ X \in SUBSET DOMAIN rows /\ Y \in SUBSET DOMAIN rows /\ X \cup Y = R /\ X \cap Y = {}
      /\ NoTurns(A) \in SUBSET DOMAIN rows /\ Turns(C) \in SUBSET DOMAIN rows
      /\ X \subseteq NoTurns(A) /\ Y \subseteq Turns(C)
  BY DEF NoTurns, Turns, Of
<1>4. Saved(Y) = 0
  <2>1. \A i \in Y : rows[i].saved = 0
    BY DEF Turns, Of, RowsAreCounted, IsCounted
  <2> HIDE DEF X, Y
  <2> QED BY <1>3, <2>1, TurnsSaveNothing
<1> HIDE DEF X, Y
<1>5. Saved(R) = Saved(X) + Saved(Y) /\ Saved(X) \in Nat
  BY <1>3, SavedGrows
<1>6. Saved(X) <= Saved(NoTurns(A)) /\ Saved(NoTurns(A)) \in Nat
  BY <1>3, SavedGrows
<1>7. IsFiniteSet(X) /\ IsFiniteSet(Y) /\ IsFiniteSet(NoTurns(A)) /\ IsFiniteSet(Turns(C))
  BY <1>3, RowsAreFinite
<1>8. /\ Cardinality(X) \in Nat /\ Cardinality(NoTurns(A)) \in Nat /\ Cardinality(X) <= Cardinality(NoTurns(A))
      /\ Cardinality(Y) \in Nat /\ Cardinality(Turns(C)) \in Nat /\ Cardinality(Y) <= Cardinality(Turns(C))
  BY <1>3, <1>7, FS_Subset, FS_CardinalityType
<1>9. Cardinality(R) = Cardinality(X) + Cardinality(Y)
  <2>1. Cardinality(X \cup Y) = Cardinality(X) + Cardinality(Y) - Cardinality(X \cap Y)
    BY <1>7, FS_Union
  <2>2. Cardinality(X \cap Y) = 0
    BY <1>3, FS_EmptySet
  <2>3. X \cup Y = R
    BY <1>3
  <2>4. Cardinality(X \cup Y) = Cardinality(R)
    BY <2>3, Zenon
  <2>5. Cardinality(R) = Cardinality(X) + Cardinality(Y) - 0
    BY <2>1, <2>2, <2>4, Zenon
  <2> QED BY <1>8, <2>5
<1> QED BY <1>2, <1>4, <1>5, <1>6, <1>8, <1>9

\* The rows of a session at first are among those of its summary, read later
\* and over all times.
LEMMA LineIsSeen ==
    ASSUME RowsAreCounted, NEW n \in 0 .. Len(rows), NEW m \in 0 .. Len(rows), n <= m, NEW f,
           NEW r, IsLine(r, Seen(n, f)), r.session # None
    PROVE  RowsOf(Seen(n, f), SessionOf(r)) \subseteq Seen(m, Filter(r.host, r.session, FALSE))
<1> DEFINE R == RowsOf(Seen(n, f), SessionOf(r))
           g == Filter(r.host, r.session, FALSE)
<1>1. g.host = r.host /\ g.session = r.session /\ g.recent = FALSE
  BY DEF Filter
<1>2. ASSUME NEW i \in R
      PROVE  i \in 1 .. n /\ rows[i].host = r.host /\ rows[i].session = r.session
  BY DEF RowsOf, Named, Seen, SessionOf
<1>3. 1 .. n \subseteq 1 .. m
  BY RowsAreFinite
<1> HIDE DEF R, g
<1>4. ASSUME NEW i \in R PROVE i \in Seen(m, g)
  <2>1. i \in 1 .. m
    BY <1>2, <1>3
  <2> QED BY <1>1, <1>2, <2>1 DEF Seen
<1> QED BY <1>4 DEF R, g

LEMMA SessionsAreListed == ReportInv => SessionsAddUp
<1> SUFFICES ASSUME ReportInv, Complete, report.bySession PROVE SessionsAddUp
  BY DEF SessionsAddUp
<1> DEFINE f == report.filter
           first == report.seen[1]
           at == Seen(first, f)
           e == Listed
           n == Len(e)
<1>1. /\ RowsAreCounted /\ IsInTime(report.seen, Len(rows)) /\ report.seen # <<>>
      /\ Len(report.seen) = Statements
  BY DEF ReportInv, Complete
<1>2. /\ report.seen \in Seq(0 .. Len(rows))
      /\ \A i, j \in DOMAIN report.seen : i <= j => report.seen[i] <= report.seen[j]
  BY <1>1 DEF IsInTime
<1>3. /\ Len(report.seen) \in Nat /\ DOMAIN report.seen = 1 .. Len(report.seen)
      /\ \A i \in DOMAIN report.seen : report.seen[i] \in 0 .. Len(rows)
      /\ 1 \in DOMAIN report.seen
  <2> DEFINE V == 0 .. Len(rows)
             seen == report.seen
  <2>1. seen \in Seq(V) /\ seen # <<>>
    BY <1>1, <1>2
  <2> HIDE DEF V, seen
  <2>2. /\ Len(seen) \in Nat /\ DOMAIN seen = 1 .. Len(seen)
        /\ \A i \in DOMAIN seen : seen[i] \in V
        /\ 1 \in DOMAIN seen
    BY <2>1
  <2> QED BY <2>2 DEF V, seen
<1>4. first \in 0 .. Len(rows)
  BY <1>3
<1>5. at \in SUBSET DOMAIN rows
  <2>1. first <= first
    BY <1>4, RowsAreFinite, <1>1
  <2> HIDE DEF first, f
  <2> QED BY <1>1, <1>4, <2>1, SeenGrows
<1>6. e = SessionRows(at)
  BY DEF Listed
<1> HIDE DEF at, e
<1>7. IsBreakdown(e, at)
  BY <1>1, <1>5, <1>6, SessionRowsAre
<1>8. n \in Nat /\ DOMAIN e = 1 .. n
  BY <1>7 DEF IsBreakdown
<1>9. {<<r.host, r.session>> : r \in Range(e)} = {p \in SessionsOf(at) : None \notin {p[1], p[2]}}
  <2>1. {<<r.host, r.session>> : r \in Range(e)} = {SessionOf(e[k]) : k \in DOMAIN e}
    BY DEF Range, SessionOf
  <2>2. {SessionOf(e[k]) : k \in DOMAIN e} = SessionsOf(Named(at))
    BY <1>7 DEF IsBreakdown, IsLine
  <2>3. SessionsOf(Named(at)) = {p \in SessionsOf(at) : None \notin {p[1], p[2]}}
    BY DEF SessionsOf, Named
  <2> QED BY <2>1, <2>2, <2>3
<1>10. \A k, m \in DOMAIN e : k # m => <<e[k].host, e[k].session>> # <<e[m].host, e[m].session>>
  BY <1>7 DEF IsBreakdown, SessionOf
<1>11. Cardinality(HostLines(e)) = Cardinality({r.host : r \in Range(e)})
  BY <1>7, OneHeadingEach
<1>12. ASSUME ~ report.compact, NEW k \in DOMAIN e
       PROVE  LET s == ReadSummary(3 * k - 1, Filter(e[k].host, e[k].session, FALSE))
              IN  e[k].saved <= s.saved /\ e[k].total <= s.total + s.turns
  <2> DEFINE g == Filter(e[k].host, e[k].session, FALSE)
             j == 3 * k - 1
             a == report.seen[j]
             b == report.seen[j + 1]
             c == report.seen[j + 2]
             A == Seen(a, g)
             B == Seen(b, g)
             C == Seen(c, g)
             s == Summary(A, B, C)
             R == RowsOf(at, SessionOf(e[k]))
  <2>1. Len(report.seen) = 1 + 3 * n
    BY <1>1, <1>12 DEF Statements, e
  <2>2. /\ j \in 1 .. 1 + 3 * n /\ j + 1 \in 1 .. 1 + 3 * n /\ j + 2 \in 1 .. 1 + 3 * n
        /\ 1 <= j /\ j <= j + 1 /\ j + 1 <= j + 2
    BY <1>8, <1>12
  <2> HIDE DEF j
  <2>3. /\ a \in 0 .. Len(rows) /\ b \in 0 .. Len(rows) /\ c \in 0 .. Len(rows)
        /\ first <= a /\ a <= b /\ b <= c
    BY <1>2, <1>3, <2>1, <2>2
  <2>4. ReadSummary(j, g) = s
    BY Zenon DEF ReadSummary
  <2> HIDE DEF a, b, c, first
  <2> HIDE DEF g
  <2>5. A \in SUBSET DOMAIN rows /\ B \in SUBSET DOMAIN rows /\ A \subseteq B
    <3>1. a \in 0 .. Len(rows) /\ b \in 0 .. Len(rows) /\ a <= b
      BY <2>3
    <3> QED BY <1>1, <3>1, SeenGrows
  <2>6. C \in SUBSET DOMAIN rows /\ B \subseteq C
    <3>1. b \in 0 .. Len(rows) /\ c \in 0 .. Len(rows) /\ b <= c
      BY <2>3
    <3> QED BY <1>1, <3>1, SeenGrows
  <2>7. IsLine(e[k], at)
    BY <1>7, <1>12 DEF IsBreakdown
  <2>8. e[k].session # None
    <3>1. SessionOf(e[k]) \in SessionsOf(Named(at))
      BY <2>7 DEF IsLine
    <3> QED BY <3>1 DEF SessionsOf, Named, SessionOf
  <2>9. R \subseteq A
    <3> DEFINE r == e[k]
    <3>1. IsLine(r, Seen(first, f)) /\ r.session # None
      BY <2>7, <2>8 DEF at
    <3> HIDE DEF r, f
    <3>2. RowsOf(Seen(first, f), SessionOf(r)) \subseteq Seen(a, Filter(r.host, r.session, FALSE))
      BY <1>1, <1>4, <2>3, <3>1, LineIsSeen
    <3> QED BY <3>2 DEF r, at, g
  <2>10. R \in SUBSET DOMAIN rows
    BY <2>5, <2>9
  <2>11. e[k].saved = Saved(R) /\ e[k].total = Cardinality(R)
    BY <2>7 DEF IsLine
  <2> HIDE DEF A, B, C, R, g
  <2>12. A \subseteq C
    BY <2>5, <2>6
  <2>13. Saved(R) <= s.saved /\ Cardinality(R) <= s.total + s.turns
    BY <1>1, <2>5, <2>6, <2>9, <2>10, <2>12, SummaryHasLine
  <2> HIDE DEF s
  <2>14. e[k].saved <= s.saved /\ e[k].total <= s.total + s.turns
    BY <2>11, <2>13, Zenon
  <2> QED BY <2>4, <2>14, Zenon DEF j, g
<1>13. ~ report.compact => \A k \in DOMAIN Entries :
          /\ Entries[k].row.saved <= Entries[k].summary.saved
          /\ Entries[k].row.total <= Entries[k].summary.total + Entries[k].summary.turns
  <2> SUFFICES ASSUME ~ report.compact, NEW k \in DOMAIN Entries
               PROVE  /\ Entries[k].row.saved <= Entries[k].summary.saved
                      /\ Entries[k].row.total <= Entries[k].summary.total + Entries[k].summary.turns
    OBVIOUS
  <2>1. k \in DOMAIN e
    BY DEF Entries, e
  <2> DEFINE s == ReadSummary(3 * k - 1, Filter(e[k].host, e[k].session, FALSE))
  <2>2. Entries[k] = [row |-> e[k], summary |-> s]
    BY <2>1, Zenon DEF Entries, e
  <2>3. e[k].saved <= s.saved /\ e[k].total <= s.total + s.turns
    BY <1>12, <2>1, Zenon
  <2> HIDE DEF s
  <2>4. Entries[k].row = e[k] /\ Entries[k].summary = s
    BY <2>2
  <2> QED BY <2>3, <2>4, Zenon
<1> QED
  BY <1>9, <1>10, <1>11, <1>13, Zenon DEF SessionsAddUp, e, at

\* However rows are logged meanwhile: a breakdown lists every session of its
\* filter once, under one heading for each host, and the summary below a
\* session has at least what its line says (stats.ts 277-320, report.ts
\* 201-228).
THEOREM SessionsAlwaysAddUp == Spec => []SessionsAddUp
BY ReportsAlways, SessionsAreListed, PTL

=============================================================================
