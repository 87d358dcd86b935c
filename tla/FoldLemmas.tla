------------------------------ MODULE FoldLemmas ------------------------------
(***************************************************************************)
(* Lemmas about the folds of the community modules, which the models use   *)
(* for loops that gather a value, and about sums over finite sets.  A fold *)
(* is unrolled by what each of its steps does, given as a function: from   *)
(* the left it is a run h[0], h[1], ..., h[n], over a set it is a sum that *)
(* any element may be taken from.                                          *)
(***************************************************************************)
EXTENDS Integers, SequencesExt, FiniteSetTheorems, WellFoundedInduction, TLAPS

(* Induction, over sets that hold what is shown so far.                    *)

\* The order of Nat as a relation.
LEMMA LessIsRelated ==
    ASSUME NEW x \in Nat, NEW y \in Nat, x < y
    PROVE  <<x, y>> \in OpToRel(<, Nat)
<1> DEFINE ss == <<x, y>>
<1>1. ss \in Nat \X Nat
  OBVIOUS
<1>2. ss[1] = x /\ ss[2] = y
  OBVIOUS
<1>3. ss[1] < ss[2]
  BY <1>2
<1> HIDE DEF ss
<1>4. ss \in OpToRel(<, Nat)
  BY <1>1, <1>3, Zenon DEF OpToRel
<1> QED
  BY <1>4 DEF ss

\* A set of numbers that is closed under successors from 0 on has them all.
LEMMA Induct ==
    ASSUME NEW T \in SUBSET Nat, 0 \in T, \A n \in T : n + 1 \in T
    PROVE  T = Nat
<1> SUFFICES ASSUME Nat \ T # {} PROVE FALSE
  OBVIOUS
<1> DEFINE Less == OpToRel(<, Nat)
           Out == Nat \ T
<1>1. IsWellFoundedOn(Less, Nat)
  BY NatLessThanWellFounded
<1>2. Out \subseteq Nat /\ Out # {}
  OBVIOUS
<1> HIDE DEF Less, Out
<1>3. PICK least \in Out : \A n \in Out : ~ (<<n, least>> \in Less)
  BY <1>1, <1>2, WFMin
<1>4. least \in Nat /\ least \notin T
  BY DEF Out
<1>5. least # 0
  BY <1>4
<1>6. least - 1 \in Nat /\ least - 1 < least
  BY <1>4, <1>5
<1>7. <<least - 1, least>> \in Less
  BY <1>4, <1>6, LessIsRelated DEF Less
<1>8. least - 1 \in T
  BY <1>3, <1>6, <1>7 DEF Out
<1>9. (least - 1) + 1 = least
  BY <1>4
<1> QED
  BY <1>4, <1>8, <1>9

\* The same for the numbers up to n.
LEMMA InductTo ==
    ASSUME NEW n \in Nat, NEW T, 0 \in T, \A k \in 0 .. n - 1 : k \in T => k + 1 \in T
    PROVE  \A k \in 0 .. n : k \in T
<1> DEFINE W == {k \in Nat : k <= n => k \in T}
<1>1. W \in SUBSET Nat /\ 0 \in W
  OBVIOUS
<1>2. ASSUME NEW k \in W PROVE k + 1 \in W
  OBVIOUS
<1> HIDE DEF W
<1>3. W = Nat
  BY <1>1, <1>2, Induct
<1> QED BY <1>3 DEF W

\* The subsets of S with at most n elements.
Small(S, n) == {s \in SUBSET S : Cardinality(s) <= n}

LEMMA SmallSets ==
    ASSUME NEW S, IsFiniteSet(S)
    PROVE  /\ \A s \in SUBSET S : IsFiniteSet(s) /\ Cardinality(s) \in Nat
           /\ Small(S, 0) = {{}}
           /\ Small(S, Cardinality(S)) = SUBSET S /\ Cardinality(S) \in Nat
           /\ \A n \in Nat : Small(S, n) \subseteq Small(S, n + 1)
           /\ \A n \in Nat : \A s \in Small(S, n + 1) : \A x \in s : s \ {x} \in Small(S, n)
<1>1. \A s \in SUBSET S :
        IsFiniteSet(s) /\ Cardinality(s) \in Nat /\ Cardinality(s) <= Cardinality(S)
  BY FS_Subset, FS_CardinalityType
<1>2. Small(S, 0) = {{}}
  BY <1>1, FS_EmptySet DEF Small
<1>3. Small(S, Cardinality(S)) = SUBSET S /\ Cardinality(S) \in Nat
  BY <1>1 DEF Small
<1>4. ASSUME NEW n \in Nat PROVE Small(S, n) \subseteq Small(S, n + 1)
  BY <1>1 DEF Small
<1>5. ASSUME NEW n \in Nat, NEW s \in Small(S, n + 1), NEW x \in s
      PROVE  s \ {x} \in Small(S, n)
  <2>1. s \in SUBSET S /\ Cardinality(s) <= n + 1
    BY DEF Small
  <2>2. Cardinality(s \ {x}) = Cardinality(s) - 1
    BY <1>1, <2>1, FS_RemoveElement
  <2> QED BY <1>1, <2>1, <2>2 DEF Small
<1> QED
  BY <1>1, <1>2, <1>3, <1>4, <1>5

\* Induction over the elements of a finite set.
LEMMA SetInduct ==
    ASSUME NEW S, IsFiniteSet(S), NEW T, {} \in T,
           \A s \in SUBSET S : \A x \in S \ s : s \in T => s \cup {x} \in T
    PROVE  S \in T
<1> DEFINE W == {n \in Nat : Small(S, n) \subseteq T}
<1>1. 0 \in W
  <2>1. Small(S, 0) = {{}}
    BY SmallSets
  <2> QED BY <2>1
<1>2. ASSUME NEW n \in W PROVE n + 1 \in W
  <2> SUFFICES ASSUME NEW s \in Small(S, n + 1), s # {} PROVE s \in T
    OBVIOUS
  <2>1. PICK x \in s : TRUE
    OBVIOUS
  <2>2. s \in SUBSET S
    BY DEF Small
  <2>3. s \ {x} \in Small(S, n)
    BY SmallSets
  <2>4. s \ {x} \in T /\ s \ {x} \in SUBSET S /\ x \in S \ (s \ {x})
    BY <2>2, <2>3
  <2>5. s = (s \ {x}) \cup {x}
    OBVIOUS
  <2> DEFINE rest == s \ {x}
  <2> HIDE DEF rest
  <2>6. rest \cup {x} \in T
    BY <2>4 DEF rest
  <2> QED BY <2>5, <2>6 DEF rest
<1> HIDE DEF W
<1>3. W \in SUBSET Nat
  BY DEF W
<1>4. W = Nat
  BY <1>1, <1>2, <1>3, Induct
<1>5. Cardinality(S) \in W /\ Small(S, Cardinality(S)) = SUBSET S
  BY <1>4, SmallSets
<1> QED
  BY <1>5 DEF W

\* A finite nonempty set of numbers has a maximum and a minimum.
LEMMA MaxIs ==
    ASSUME NEW S \in SUBSET Int, IsFiniteSet(S), S # {}
    PROVE  Max(S) \in S /\ \A c \in S : Max(S) >= c
<1> DEFINE T == {s \in SUBSET S : s = {} \/ \E m \in s : \A c \in s : m >= c}
<1>1. {} \in T
  OBVIOUS
<1>2. ASSUME NEW s \in SUBSET S, NEW x \in S \ s, s \in T PROVE s \cup {x} \in T
  <2>1. CASE s = {}
    BY <2>1
  <2>2. CASE s # {}
    <3>1. PICK m \in s : \A c \in s : m >= c
      BY <1>2, <2>2
    <3>2. x \in Int /\ m \in Int /\ s \subseteq Int
      OBVIOUS
    <3>3. CASE x >= m
      <4>1. \A c \in s \cup {x} : x >= c
        BY <3>1, <3>2, <3>3
      <4> QED BY <4>1
    <3>4. CASE ~ (x >= m)
      <4>1. \A c \in s \cup {x} : m >= c
        BY <3>1, <3>2, <3>4
      <4> QED BY <4>1
    <3> QED BY <3>3, <3>4
  <2> QED BY <2>1, <2>2
<1> HIDE DEF T
<1>3. S \in T
  BY <1>1, <1>2, SetInduct
<1>4. \E m \in S : \A c \in S : m >= c
  BY <1>3 DEF T
<1> QED BY <1>4 DEF Max

LEMMA MinIs ==
    ASSUME NEW S \in SUBSET Int, IsFiniteSet(S), S # {}
    PROVE  Min(S) \in S /\ \A c \in S : Min(S) <= c
<1> DEFINE f == [x \in S |-> 0 - x]
           R == {0 - x : x \in S}
<1>1. f \in Surjection(S, R)
  BY DEF Surjection
<1>2. IsFiniteSet(R)
  <2> HIDE DEF f, R
  <2> QED BY <1>1, FS_Surjection
<1>3. R \in SUBSET Int /\ R # {}
  <2>1. \A x \in S : 0 - x \in Int
    OBVIOUS
  <2>2. R \in SUBSET Int
    BY <2>1
  <2> QED BY <2>2
<1>4. Max(R) \in R /\ \A c \in R : Max(R) >= c
  <2> HIDE DEF R
  <2> QED BY <1>2, <1>3, MaxIs
<1>5. PICK m \in S : Max(R) = 0 - m
  BY <1>4
<1>6. \A c \in S : m <= c
  <2> SUFFICES ASSUME NEW c \in S PROVE m <= c
    OBVIOUS
  <2>1. 0 - c \in R
    OBVIOUS
  <2>2. 0 - m >= 0 - c
    BY <1>4, <1>5, <2>1
  <2> QED BY <2>2
<1> QED BY <1>6 DEF Min

\* The same for sets of numbers within bounds.
LEMMA Bounded ==
    ASSUME NEW a \in Int, NEW b \in Int, NEW S \in SUBSET (a .. b)
    PROVE  S \in SUBSET Int /\ IsFiniteSet(S)
<1>1. IsFiniteSet(a .. b)
  BY FS_Interval
<1>2. IsFiniteSet(S)
  BY <1>1, FS_Subset
<1>3. a .. b \subseteq Int
  OBVIOUS
<1> QED BY <1>2, <1>3

\* And for two numbers.
LEMMA OfTwo ==
    ASSUME NEW a \in Int, NEW b \in Int
    PROVE  /\ Max({a, b}) \in {a, b} /\ Max({a, b}) >= a /\ Max({a, b}) >= b
           /\ Min({a, b}) \in {a, b} /\ Min({a, b}) <= a /\ Min({a, b}) <= b
<1> DEFINE S == {a, b}
<1>1. S \in SUBSET Int /\ S # {} /\ a \in S /\ b \in S
  OBVIOUS
<1>2. IsFiniteSet(S)
  <2>1. IsFiniteSet({a})
    BY FS_Singleton
  <2>2. IsFiniteSet({a} \cup {b})
    BY <2>1, FS_AddElement
  <2>3. S = {a} \cup {b}
    OBVIOUS
  <2> QED BY <2>2, <2>3
<1> HIDE DEF S
<1>3. Max(S) \in S /\ \A c \in S : Max(S) >= c
  BY <1>1, <1>2, MaxIs
<1>4. Min(S) \in S /\ \A c \in S : Min(S) <= c
  BY <1>1, <1>2, MinIs
<1> QED BY <1>1, <1>3, <1>4 DEF S

LEMMA MaxExists ==
    ASSUME NEW N \in Nat, NEW S \in SUBSET (1 .. N), S # {}
    PROVE  Max(S) \in S /\ \A c \in S : Max(S) >= c
<1>1. 1 \in Int /\ N \in Int
  OBVIOUS
<1>2. S \in SUBSET Int /\ IsFiniteSet(S)
  BY <1>1, Bounded
<1> QED BY <1>2, MaxIs

-----------------------------------------------------------------------------
(* Folds exist.                                                            *)

\* pick chooses an element of every nonempty subset of S.
Picks(pick, S) == \A s \in SUBSET S : s # {} => pick[s] \in s

\* step takes values of V to values of V, for every element of S.
Steps(step, S, V) == \A x \in S : \A v \in V : step[x][v] \in V

\* fold is what step gives over some subsets, from base.
IsFold(fold, subsets, base, pick, step) ==
    \A s \in subsets : fold[s] = IF s = {} THEN base ELSE step[pick[s]][fold[s \ {pick[s]}]]

LEMMA FoldExists ==
    ASSUME NEW S, IsFiniteSet(S), NEW V, NEW b \in V, NEW pick, Picks(pick, S),
           NEW step, Steps(step, S, V)
    PROVE  \E g \in [SUBSET S -> V] : IsFold(g, SUBSET S, b, pick, step)
<1> DEFINE T == {n \in Nat : \E g \in [Small(S, n) -> V] : IsFold(g, Small(S, n), b, pick, step)}
<1>1. 0 \in T
  <2> DEFINE g == [s \in Small(S, 0) |-> b]
  <2>1. g \in [Small(S, 0) -> V] /\ IsFold(g, Small(S, 0), b, pick, step)
    BY SmallSets DEF IsFold
  <2> QED BY <2>1
<1>2. ASSUME NEW n \in T PROVE n + 1 \in T
  <2>1. PICK g \in [Small(S, n) -> V] : IsFold(g, Small(S, n), b, pick, step)
    OBVIOUS
  <2> DEFINE val(s) == IF s = {} THEN b ELSE step[pick[s]][g[s \ {pick[s]}]]
             h == [s \in Small(S, n + 1) |-> val(s)]
  <2>2. ASSUME NEW s \in Small(S, n + 1), s # {}
        PROVE  s \ {pick[s]} \in Small(S, n) /\ pick[s] \in S
    BY <2>2, SmallSets DEF Small, Picks
  <2>3. \A s \in Small(S, n + 1) : val(s) \in V
    BY <2>2 DEF Steps
  <2>4. Small(S, n) \subseteq Small(S, n + 1)
    BY SmallSets
  <2>5. \A s \in Small(S, n) : val(s) = g[s]
    BY <2>1 DEF IsFold
  <2> HIDE DEF val
  <2>6. h \in [Small(S, n + 1) -> V]
    BY <2>3
  <2>7. \A s \in Small(S, n) : h[s] = g[s]
    BY <2>4, <2>5
  <2>8. \A s \in Small(S, n + 1) : h[s] = IF s = {} THEN b ELSE step[pick[s]][h[s \ {pick[s]}]]
    BY <2>2, <2>7 DEF val
  <2> HIDE DEF h
  <2>9. IsFold(h, Small(S, n + 1), b, pick, step)
    BY <2>8 DEF IsFold
  <2> QED BY <2>6, <2>9
<1>3. T = Nat
  <2> HIDE DEF T
  <2>1. T \in SUBSET Nat
    BY DEF T
  <2> QED BY <1>1, <1>2, <2>1, Induct
<1> DEFINE m == Cardinality(S)
<1>4. Small(S, m) = SUBSET S /\ m \in Nat
  BY SmallSets
<1> HIDE DEF m
<1>5. PICK g \in [Small(S, m) -> V] : IsFold(g, Small(S, m), b, pick, step)
  BY <1>3, <1>4
<1> QED
  BY <1>4, <1>5

-----------------------------------------------------------------------------
(* FoldLeft.                                                               *)

\* A fold over the places 1 to n, the last of them first.
IsFoldLeft(fold, n, base, step) ==
    \A s \in SUBSET (1 .. n) :
        fold[s] = IF s = {} THEN base ELSE step[Max(s)][fold[s \ {Max(s)}]]

LEMMA FoldLeftExists ==
    ASSUME NEW n \in Nat, NEW V, NEW b \in V, NEW step, Steps(step, 1 .. n, V)
    PROVE  \E g \in [SUBSET (1 .. n) -> V] : IsFoldLeft(g, n, b, step)
<1> DEFINE S == 1 .. n
           pick == [s \in SUBSET S |-> Max(s)]
<1>1. Picks(pick, S)
  BY MaxExists DEF Picks
<1>2. IsFiniteSet(S)
  BY FS_Interval
<1>3. \A s \in SUBSET S : pick[s] = Max(s)
  OBVIOUS
<1>4. Steps(step, S, V)
  OBVIOUS
<1> HIDE DEF S, pick
<1>5. PICK g \in [SUBSET S -> V] : IsFold(g, SUBSET S, b, pick, step)
  BY <1>1, <1>2, <1>4, FoldExists
<1>6. IsFoldLeft(g, n, b, step)
  BY <1>3, <1>5 DEF IsFoldLeft, IsFold, S
<1> QED
  BY <1>6 DEF S

\* What is left of such a fold below its last place is one again.
LEMMA Prefix ==
    ASSUME NEW k \in Nat, k # 0
    PROVE  1 .. k # {} /\ Max(1 .. k) = k /\ (1 .. k) \ {k} = 1 .. k - 1
<1> DEFINE s == 1 .. k
<1>1. s \in SUBSET (1 .. k) /\ s # {} /\ k \in s
  OBVIOUS
<1> HIDE DEF s
<1>2. Max(s) \in s /\ \A c \in s : Max(s) >= c
  BY <1>1, MaxExists
<1> QED
  BY <1>1, <1>2 DEF s

\* The function that FoldLeft chooses, as long as its values are in V.
Unrolls(fold, n, V, base, step) ==
    /\ fold[{}] = base
    /\ \A s \in SUBSET (1 .. n) : s # {} /\ fold[s \ {Max(s)}] \in V =>
          fold[s] = step[Max(s)][fold[s \ {Max(s)}]]

\* A run of step from base.
IsRun(h, n, base, step) ==
    h[0] = base /\ \A k \in 1 .. n : h[k] = step[k][h[k - 1]]

RunsTo(value, n, V, base, step) ==
    \E h \in [0 .. n -> V] : IsRun(h, n, base, step) /\ h[n] = value

LEMMA FoldLeftRuns ==
    ASSUME NEW n \in Nat, NEW V, NEW b \in V, NEW step, Steps(step, 1 .. n, V),
           NEW fold, Unrolls(fold, n, V, b, step)
    PROVE  RunsTo(fold[1 .. n], n, V, b, step)
<1> DEFINE h == [k \in 0 .. n |-> fold[1 .. k]]
           T == {k \in 0 .. n : h[k] \in V}
<1>1. h[0] = b /\ h[n] = fold[1 .. n]
  <2>1. 1 .. 0 = {}
    OBVIOUS
  <2> QED BY <2>1 DEF Unrolls
<1>2. ASSUME NEW k \in 1 .. n, h[k - 1] \in V PROVE h[k] = step[k][h[k - 1]]
  <2>1. k \in Nat /\ k # 0 /\ k - 1 \in 0 .. n /\ k \in 0 .. n
    OBVIOUS
  <2>2. 1 .. k # {} /\ Max(1 .. k) = k /\ (1 .. k) \ {k} = 1 .. k - 1
    <3> HIDE DEF h
    <3> QED BY <2>1, Prefix
  <2>3. 1 .. k \in SUBSET (1 .. n)
    OBVIOUS
  <2> QED BY <1>2, <2>1, <2>2, <2>3 DEF Unrolls
<1> HIDE DEF h
<1>3. \A k \in 0 .. n : k \in T
  <2>1. 0 \in T
    BY <1>1
  <2>2. ASSUME NEW k \in 0 .. n - 1, k \in T PROVE k + 1 \in T
    <3>1. k + 1 \in 1 .. n /\ (k + 1) - 1 = k
      OBVIOUS
    <3>2. h[k + 1] = step[k + 1][h[k]]
      BY <1>2, <2>2, <3>1
    <3> QED BY <2>2, <3>1, <3>2 DEF Steps
  <2> HIDE DEF T
  <2> QED BY <2>1, <2>2, InductTo
<1>4. h \in [0 .. n -> V]
  BY <1>3 DEF h
<1>5. \A k \in 1 .. n : h[k] = step[k][h[k - 1]]
  BY <1>2, <1>3
<1> QED
  BY <1>1, <1>4, <1>5 DEF IsRun, RunsTo

\* Runs of the same steps from the same base are the same.
LEMMA RunsAgree ==
    ASSUME NEW n \in Nat, NEW b, NEW step, NEW more, NEW g, NEW h,
           IsRun(g, n, b, step), IsRun(h, n, b, more),
           \A k \in 1 .. n : step[k] = more[k]
    PROVE  \A k \in 0 .. n : g[k] = h[k]
<1> DEFINE T == {k \in 0 .. n : g[k] = h[k]}
<1>1. 0 \in T
  BY DEF IsRun
<1>2. ASSUME NEW k \in 0 .. n - 1, k \in T PROVE k + 1 \in T
  <2>1. k + 1 \in 1 .. n /\ (k + 1) - 1 = k /\ g[k] = h[k]
    BY <1>2
  <2>2. g[k + 1] = step[k + 1][g[k]] /\ h[k + 1] = more[k + 1][h[k]]
    BY <2>1 DEF IsRun
  <2> QED BY <2>1, <2>2
<1> HIDE DEF T
<1>3. \A k \in 0 .. n : k \in T
  BY <1>1, <1>2, InductTo
<1> QED
  BY <1>3 DEF T

-----------------------------------------------------------------------------
(* Sums over finite sets.                                                  *)

\* The function that FoldSet chooses for a sum of f over S.
SumUnrolls(fold, S, f) ==
    /\ fold[{}] = 0
    /\ \A s \in SUBSET S : s # {} =>
          fold[s] = fold[s \ {CHOOSE x \in s : TRUE}] + f[CHOOSE x \in s : TRUE]

\* It exists.
LEMMA SumExists ==
    ASSUME NEW S, IsFiniteSet(S), NEW f \in [S -> Nat]
    PROVE  \E sum \in [SUBSET S -> Nat] : SumUnrolls(sum, S, f)
<1> DEFINE pick == [s \in SUBSET S |-> CHOOSE x \in s : TRUE]
           step == [x \in S |-> [v \in Nat |-> v + f[x]]]
<1>1. Picks(pick, S)
  BY DEF Picks
<1>2. \A x \in S : \A v \in Nat : step[x][v] = v + f[x] /\ step[x][v] \in Nat
  OBVIOUS
<1>3. \A s \in SUBSET S : pick[s] = CHOOSE x \in s : TRUE
  OBVIOUS
<1> HIDE DEF pick, step
<1>4. Steps(step, S, Nat)
  BY <1>2 DEF Steps
<1>5. PICK g \in [SUBSET S -> Nat] : IsFold(g, SUBSET S, 0, pick, step)
  BY <1>1, <1>4, FoldExists
<1>6. ASSUME NEW s \in SUBSET S, s # {}
      PROVE  g[s] = g[s \ {pick[s]}] + f[pick[s]]
  <2>1. pick[s] \in S /\ s \ {pick[s]} \in SUBSET S
    BY <1>1, <1>6 DEF Picks
  <2>2. g[s] = step[pick[s]][g[s \ {pick[s]}]]
    BY <1>5, <1>6 DEF IsFold
  <2> QED BY <1>2, <2>1, <2>2
<1>7. SumUnrolls(g, S, f)
  BY <1>3, <1>5, <1>6 DEF SumUnrolls, IsFold
<1> QED
  BY <1>7

\* A sum over the subsets of S.
IsSum(sum, S, f) ==
    /\ sum[{}] = 0
    /\ \A s \in SUBSET S : sum[s] \in Nat
    /\ \A s \in SUBSET S : \A x \in s : sum[s] = sum[s \ {x}] + f[x]

\* Any element can be taken from it, not just the one that is chosen.
LEMMA SumIsSum ==
    ASSUME NEW S, IsFiniteSet(S), NEW f \in [S -> Nat], NEW sum, SumUnrolls(sum, S, f)
    PROVE  IsSum(sum, S, f)
<1> DEFINE P(s) == sum[s] \in Nat /\ \A x \in s : sum[s] = sum[s \ {x}] + f[x]
           W == {n \in Nat : \A s \in Small(S, n) : P(s)}
<1>1. 0 \in W
  <2>1. Small(S, 0) = {{}}
    BY SmallSets
  <2>2. P({})
    BY DEF SumUnrolls
  <2> HIDE DEF P
  <2> QED BY <2>1, <2>2
<1>2. ASSUME NEW n \in W PROVE n + 1 \in W
  <2> SUFFICES ASSUME NEW s \in Small(S, n + 1), s # {} PROVE P(s)
    <3>1. P({})
      BY DEF SumUnrolls
    <3> HIDE DEF P
    <3> QED BY <3>1
  <2> DEFINE p == CHOOSE x \in s : TRUE
             rest == s \ {p}
  <2>1. s \in SUBSET S
    BY DEF Small
  <2>2. p \in s /\ p \in S
    BY <2>1
  <2>3. sum[s] = sum[rest] + f[p]
    BY <2>1 DEF SumUnrolls
  <2> HIDE DEF p
  <2>4. \A x \in s : s \ {x} \in Small(S, n)
    BY SmallSets
  <2>5. P(rest)
    BY <2>2, <2>4
  <2> HIDE DEF rest
  <2>6. sum[s] \in Nat
    BY <2>2, <2>3, <2>5
  <2>7. ASSUME NEW x \in s, x # p PROVE sum[s] = sum[s \ {x}] + f[x]
    <3> DEFINE other == s \ {x}
    <3>1. P(other)
      BY <2>4
    <3>2. x \in rest /\ p \in other /\ rest \ {x} = other \ {p}
      BY <2>2, <2>7 DEF rest
    <3>3. sum[rest] = sum[rest \ {x}] + f[x]
      BY <2>5, <3>2
    <3>4. sum[other] = sum[other \ {p}] + f[p]
      BY <3>1, <3>2
    <3>5. other \ {p} \in Small(S, n)
      <4>1. other \ {p} \in SUBSET S /\ other \in SUBSET S
        BY <2>1
      <4>2. Cardinality(other \ {p}) <= Cardinality(other)
        BY <4>1, SmallSets, FS_Subset
      <4>3. other \in Small(S, n) /\ Cardinality(other) \in Nat /\ Cardinality(other \ {p}) \in Nat
        BY <2>4, <4>1, SmallSets
      <4> HIDE DEF other
      <4> QED BY <4>1, <4>2, <4>3 DEF Small
    <3>6. sum[other \ {p}] \in Nat
      BY <3>5
    <3>7. x \in S
      BY <2>1
    <3>8. f[x] \in Nat /\ f[p] \in Nat
      BY <2>2, <3>7
    <3>9. sum[rest] = sum[other \ {p}] + f[x]
      BY <3>2, <3>3
    <3> HIDE DEF other
    <3>10. sum[s] = sum[other] + f[x]
      BY <2>3, <3>4, <3>6, <3>8, <3>9
    <3> QED BY <3>10 DEF other
  <2>8. ASSUME NEW x \in s PROVE sum[s] = sum[s \ {x}] + f[x]
    <3>1. CASE x = p
      BY <2>3, <3>1 DEF rest
    <3>2. CASE x # p
      BY <2>7, <3>2
    <3> QED BY <3>1, <3>2
  <2> QED BY <2>6, <2>8
<1> HIDE DEF W
<1>3. W \in SUBSET Nat
  BY DEF W
<1>4. W = Nat
  BY <1>1, <1>2, <1>3, Induct
<1>5. Cardinality(S) \in W /\ Small(S, Cardinality(S)) = SUBSET S
  BY <1>4, SmallSets
<1>6. \A s \in SUBSET S : P(s)
  BY <1>5 DEF W
<1> QED
  BY <1>6 DEF IsSum, SumUnrolls

\* One more element adds what it has, if it is of the set.
Grows(sum, A, f, s, x) ==
    /\ sum[A \cap s] \in Nat /\ sum[A \cap (s \cup {x})] \in Nat
    /\ x \in A => sum[A \cap (s \cup {x})] = sum[A \cap s] + f[x]
    /\ x \notin A => sum[A \cap (s \cup {x})] = sum[A \cap s]

LEMMA SumGrows ==
    ASSUME NEW A, NEW f, NEW sum, IsSum(sum, A, f), NEW s, NEW x, x \notin s
    PROVE  Grows(sum, A, f, s, x)
<1> DEFINE less == A \cap s
           more == A \cap (s \cup {x})
<1>1. less \in SUBSET A /\ more \in SUBSET A
  OBVIOUS
<1>2. x \in A => x \in more /\ more \ {x} = less
  OBVIOUS
<1>3. x \notin A => more = less
  OBVIOUS
<1> HIDE DEF less, more
<1>4. sum[less] \in Nat /\ sum[more] \in Nat
  BY <1>1 DEF IsSum
<1>5. x \in A => sum[more] = sum[less] + f[x]
  BY <1>1, <1>2 DEF IsSum
<1> QED
  BY <1>3, <1>4, <1>5 DEF less, more, Grows

\* Sums over disjoint parts of a set, of no more than the whole sums up.
LEMMA SumOfParts ==
    ASSUME NEW S, IsFiniteSet(S), NEW f \in [S -> Nat], NEW sum, IsSum(sum, S, f),
           NEW A \in SUBSET S, NEW fa \in [A -> Nat], NEW suma, IsSum(suma, A, fa),
           NEW B \in SUBSET S, NEW fb \in [B -> Nat], NEW sumb, IsSum(sumb, B, fb),
           A \cap B = {}, \A x \in A : fa[x] <= f[x], \A x \in B : fb[x] <= f[x]
    PROVE  suma[A] + sumb[B] <= sum[S]
<1> DEFINE T == {s \in SUBSET S : suma[A \cap s] + sumb[B \cap s] <= sum[s]}
<1>1. {} \in T
  <2>1. A \cap {} = {} /\ B \cap {} = {}
    OBVIOUS
  <2>2. suma[{}] = 0 /\ sumb[{}] = 0 /\ sum[{}] = 0
    BY DEF IsSum
  <2>3. suma[A \cap {}] + sumb[B \cap {}] <= sum[{}]
    BY <2>1, <2>2
  <2> QED BY <2>3
<1>2. ASSUME NEW s \in SUBSET S, NEW x \in S \ s, s \in T PROVE s \cup {x} \in T
  <2> DEFINE more == s \cup {x}
  <2>0. x \notin s
    OBVIOUS
  <2>1. more \in SUBSET S /\ x \in more /\ more \ {x} = s
    BY <1>2
  <2>2. sum[more] = sum[s] + f[x] /\ sum[s] \in Nat /\ f[x] \in Nat
    <3> HIDE DEF more
    <3>1. sum[more] = sum[more \ {x}] + f[x]
      BY <2>1 DEF IsSum
    <3>2. sum[s] \in Nat /\ f[x] \in Nat
      BY <1>2 DEF IsSum
    <3> QED BY <2>1, <3>1, <3>2
  <2>3. Grows(suma, A, fa, s, x)
    BY <2>0, SumGrows
  <2>4. Grows(sumb, B, fb, s, x)
    BY <2>0, SumGrows
  <2>5. suma[A \cap s] + sumb[B \cap s] <= sum[s]
    BY <1>2
  <2>6. ~ (x \in A /\ x \in B)
    OBVIOUS
  <2>7. suma[A \cap more] + sumb[B \cap more] <= sum[more]
    <3>1. x \in A => fa[x] \in Nat /\ fa[x] <= f[x]
      OBVIOUS
    <3>2. x \in B => fb[x] \in Nat /\ fb[x] <= f[x]
      OBVIOUS
    <3> QED BY <2>2, <2>3, <2>4, <2>5, <2>6, <3>1, <3>2 DEF Grows, more
  <2> QED BY <2>1, <2>7 DEF more
<1> HIDE DEF T
<1>3. S \in T
  BY <1>1, <1>2, SetInduct
<1>4. A \cap S = A /\ B \cap S = B
  OBVIOUS
<1> QED
  BY <1>3, <1>4 DEF T

\* Disjoint parts of a finite set have no more elements than it.
LEMMA PartsCount ==
    ASSUME NEW S, IsFiniteSet(S), NEW A \in SUBSET S, NEW B \in SUBSET S, A \cap B = {}
    PROVE  Cardinality(A) + Cardinality(B) <= Cardinality(S)
<1>1. IsFiniteSet(A) /\ IsFiniteSet(B)
  BY FS_Subset
<1>2. /\ Cardinality(A \cup B) = Cardinality(A) + Cardinality(B) - Cardinality(A \cap B)
      /\ Cardinality(A \cap B) = 0
  BY <1>1, FS_Union, FS_EmptySet
<1>3. A \cup B \subseteq S
    OBVIOUS
<1>4. Cardinality(A \cup B) <= Cardinality(S)
  BY <1>3, FS_Subset
<1>5. Cardinality(A) \in Nat /\ Cardinality(B) \in Nat
  BY <1>1, FS_CardinalityType
<1> QED
  BY <1>2, <1>4, <1>5

-----------------------------------------------------------------------------
(* SumFunctionOnSet.                                                       *)

\* It is a sum, the same one over all subsets of a set.
LEMMA SumsOnSubsets ==
    ASSUME NEW S, IsFiniteSet(S), NEW f, \A x \in S : f[x] \in Nat
    PROVE  \E sum : IsSum(sum, S, f) /\ \A A \in SUBSET S : SumFunctionOnSet(f, A) = sum[A]
<1>1. ASSUME NEW A \in SUBSET S
      PROVE  \E sum : IsSum(sum, A, f) /\ SumFunctionOnSet(f, A) = sum[A]
  <2> DEFINE pick(s) == CHOOSE x \in s : TRUE
             g == [x \in A |-> f[x]]
             Iter(i) == i = [s \in SUBSET A |->
                                IF s = {} THEN 0 ELSE f[pick(s)] + i[s \ {pick(s)}]]
             it == CHOOSE i : Iter(i)
  <2>1. SumFunctionOnSet(f, A) = it[A]
    BY DEF SumFunctionOnSet, FoldFunctionOnSet, MapThenFoldSet
  <2>2. IsFiniteSet(A) /\ g \in [A -> Nat] /\ \A x \in A : g[x] = f[x] /\ f[x] \in Nat
    BY FS_Subset
  <2> HIDE DEF g
  <2>3. PICK h \in [SUBSET A -> Nat] : SumUnrolls(h, A, g)
    BY <2>2, SumExists
  <2>4. \A s \in SUBSET A : s # {} => pick(s) \in A /\ pick(s) \in s
    OBVIOUS
  <2>5. \A s \in SUBSET A : h[s] = IF s = {} THEN 0 ELSE h[s \ {pick(s)}] + g[pick(s)]
    BY <2>3 DEF SumUnrolls
  <2> HIDE DEF pick
  <2>6. \A s \in SUBSET A : h[s] = IF s = {} THEN 0 ELSE f[pick(s)] + h[s \ {pick(s)}]
    <3> SUFFICES ASSUME NEW s \in SUBSET A, s # {}
                 PROVE  h[s] = f[pick(s)] + h[s \ {pick(s)}]
      BY <2>5
    <3>1. h[s] = h[s \ {pick(s)}] + g[pick(s)]
      BY <2>5
    <3>2. h[s \ {pick(s)}] \in Nat /\ g[pick(s)] \in Nat /\ g[pick(s)] = f[pick(s)]
      BY <2>2, <2>3, <2>4
    <3> QED BY <3>1, <3>2
  <2>7. Iter(h)
    BY <2>3, <2>6
  <2>8. Iter(it)
    <3> HIDE DEF Iter
    <3> QED BY <2>7
  <2> HIDE DEF it
  <2>9. \A s \in SUBSET A : it[s] = IF s = {} THEN 0 ELSE f[pick(s)] + it[s \ {pick(s)}]
    BY <2>8
  <2> DEFINE T == {s \in SUBSET A : it[s] = h[s]}
  <2>10. A \in T
    <3> DEFINE P(n) == \A s \in Small(A, n) : it[s] = h[s]
               N == {n \in Nat : P(n)}
    <3>1. 0 \in N
      <4>1. Small(A, 0) = {{}}
        BY <2>2, SmallSets
      <4> QED BY <2>6, <2>9, <4>1
    <3>2. ASSUME NEW n \in N PROVE n + 1 \in N
      <4>0. it[{}] = h[{}]
        BY <2>6, <2>9
      <4>1. ASSUME NEW s \in Small(A, n + 1), s # {} PROVE it[s] = h[s]
        <5>1. s \in SUBSET A
          BY DEF Small
        <5>2. s \ {pick(s)} \in Small(A, n)
          BY <2>2, <2>4, <4>1, <5>1, SmallSets
        <5>3. it[s \ {pick(s)}] = h[s \ {pick(s)}]
          BY <5>2
        <5> QED BY <2>6, <2>9, <4>1, <5>1, <5>3
      <4>2. P(n + 1)
        BY <4>0, <4>1
      <4>3. n + 1 \in Nat
        OBVIOUS
      <4> HIDE DEF P
      <4> QED BY <4>2, <4>3
    <3> HIDE DEF N
    <3>3. N \in SUBSET Nat
      BY DEF N
    <3>4. N = Nat
      BY <3>1, <3>2, <3>3, Induct
    <3>5. Cardinality(A) \in N /\ Small(A, Cardinality(A)) = SUBSET A
      BY <2>2, <3>4, SmallSets
    <3>6. it[A] = h[A]
      BY <3>5 DEF N
    <3> QED BY <3>6
  <2>11. IsSum(h, A, g)
    BY <2>2, <2>3, SumIsSum
  <2>12. IsSum(h, A, f)
    BY <2>2, <2>11 DEF IsSum
  <2> QED BY <2>1, <2>10, <2>12
<1>2. PICK sum : IsSum(sum, S, f)
  BY <1>1
<1>3. ASSUME NEW A \in SUBSET S PROVE SumFunctionOnSet(f, A) = sum[A]
  <2>1. PICK of : IsSum(of, A, f) /\ SumFunctionOnSet(f, A) = of[A]
    BY <1>1
  <2> DEFINE T == {s \in SUBSET A : of[s] = sum[s]}
  <2>2. {} \in T
    BY <1>2, <2>1 DEF IsSum
  <2>3. ASSUME NEW s \in SUBSET A, NEW x \in A \ s, s \in T PROVE s \cup {x} \in T
    <3>1. /\ s \cup {x} \in SUBSET A /\ s \cup {x} \in SUBSET S
          /\ x \in s \cup {x} /\ (s \cup {x}) \ {x} = s
      OBVIOUS
    <3>2. of[s \cup {x}] = of[s] + f[x] /\ sum[s \cup {x}] = sum[s] + f[x]
      BY <1>2, <2>1, <3>1 DEF IsSum
    <3>3. of[s] = sum[s]
      BY <2>3
    <3> QED BY <3>1, <3>2, <3>3
  <2> HIDE DEF T
  <2>4. IsFiniteSet(A)
    BY FS_Subset
  <2>5. A \in T
    BY <2>2, <2>3, <2>4, SetInduct
  <2> QED BY <2>1, <2>5 DEF T
<1> QED
  BY <1>2, <1>3

\* A sum takes nothing from the empty set and one value from each element.
LEMMA SumAdds ==
    ASSUME NEW S, IsFiniteSet(S), NEW f, \A x \in S : f[x] \in Nat
    PROVE  /\ SumFunctionOnSet(f, {}) = 0
           /\ SumFunctionOnSet(f, S) \in Nat
           /\ \A A \in SUBSET S : SumFunctionOnSet(f, A) \in Nat
           /\ \A A \in SUBSET S : \A x \in A :
                 SumFunctionOnSet(f, A) = SumFunctionOnSet(f, A \ {x}) + f[x]
<1>1. PICK sum : /\ IsSum(sum, S, f)
                 /\ \A A \in SUBSET S : SumFunctionOnSet(f, A) = sum[A]
  BY SumsOnSubsets
<1>2. SumFunctionOnSet(f, {}) = 0
  BY <1>1 DEF IsSum
<1>3. \A A \in SUBSET S : SumFunctionOnSet(f, A) \in Nat
  BY <1>1 DEF IsSum
<1>4. ASSUME NEW A \in SUBSET S, NEW x \in A
      PROVE  SumFunctionOnSet(f, A) = SumFunctionOnSet(f, A \ {x}) + f[x]
  <2>1. A \ {x} \in SUBSET S
    OBVIOUS
  <2>2. sum[A] = sum[A \ {x}] + f[x]
    BY <1>1 DEF IsSum
  <2> QED BY <1>1, <2>1, <2>2
<1> QED
  BY <1>2, <1>3, <1>4

\* The sum over a part, of no larger values, is no larger.
LEMMA SumAtMost ==
    ASSUME NEW S, IsFiniteSet(S), NEW A \in SUBSET S,
           NEW f, \A x \in A : f[x] \in Nat, NEW g, \A x \in S : g[x] \in Nat,
           \A x \in A : f[x] <= g[x]
    PROVE  SumFunctionOnSet(f, A) <= SumFunctionOnSet(g, S)
<1> DEFINE T == {s \in SUBSET S : SumFunctionOnSet(f, A \cap s) <= SumFunctionOnSet(g, s)}
<1>0. IsFiniteSet(A)
  BY FS_Subset
<1>1. {} \in T
  <2>1. A \cap {} = {} /\ SumFunctionOnSet(f, {}) = 0 /\ SumFunctionOnSet(g, {}) = 0
    BY <1>0, SumAdds
  <2> QED BY <2>1
<1>2. ASSUME NEW s \in SUBSET S, NEW x \in S \ s, s \in T PROVE s \cup {x} \in T
  <2> DEFINE more == s \cup {x}
             fs == SumFunctionOnSet(f, A \cap s)
             gs == SumFunctionOnSet(g, s)
  <2>1. more \in SUBSET S /\ x \in more /\ more \ {x} = s /\ A \cap s \in SUBSET A
    OBVIOUS
  <2>2. SumFunctionOnSet(g, more) = gs + g[x] /\ gs \in Nat /\ fs \in Nat
    <3> HIDE DEF more
    <3>1. SumFunctionOnSet(g, more) = SumFunctionOnSet(g, more \ {x}) + g[x]
      BY <2>1, SumAdds
    <3>2. gs \in Nat
      BY SumAdds
    <3>3. fs \in Nat
      BY <1>0, <2>1, SumAdds
    <3> QED BY <2>1, <3>1, <3>2, <3>3
  <2>3. fs <= gs /\ g[x] \in Nat
    BY <1>2
  <2>4. CASE x \in A
    <3>1. A \cap more \in SUBSET A /\ x \in A \cap more /\ (A \cap more) \ {x} = A \cap s
      BY <2>4
    <3>2. SumFunctionOnSet(f, A \cap more) = fs + f[x]
      BY <1>0, <3>1, SumAdds
    <3>3. f[x] \in Nat /\ f[x] <= g[x]
      BY <2>4
    <3> HIDE DEF fs, gs, more
    <3>4. fs + f[x] <= gs + g[x]
      BY <2>2, <2>3, <3>3
    <3> QED BY <2>1, <2>2, <3>2, <3>4 DEF more
  <2>5. CASE x \notin A
    <3>1. A \cap more = A \cap s
      BY <2>5
    <3>2. fs <= SumFunctionOnSet(g, more)
      <4> HIDE DEF fs, gs, more
      <4> QED BY <2>2, <2>3
    <3>3. SumFunctionOnSet(f, A \cap more) <= SumFunctionOnSet(g, more)
      BY <3>1, <3>2
    <3> QED BY <2>1, <3>3
  <2> QED BY <2>4, <2>5
<1> HIDE DEF T
<1>3. S \in T
  BY <1>1, <1>2, SetInduct
<1>4. A \cap S = A
  OBVIOUS
<1> QED
  BY <1>3, <1>4 DEF T

\* Sums of the same values are the same.
LEMMA SumAgrees ==
    ASSUME NEW S, IsFiniteSet(S), NEW f, NEW g,
           \A x \in S : f[x] \in Nat /\ g[x] = f[x]
    PROVE  SumFunctionOnSet(f, S) = SumFunctionOnSet(g, S)
<1>1. \A x \in S : f[x] <= g[x] /\ g[x] <= f[x] /\ g[x] \in Nat
  OBVIOUS
<1>2. SumFunctionOnSet(f, S) <= SumFunctionOnSet(g, S)
  BY <1>1, SumAtMost
<1>3. SumFunctionOnSet(g, S) <= SumFunctionOnSet(f, S)
  BY <1>1, SumAtMost
<1>4. SumFunctionOnSet(f, S) \in Nat /\ SumFunctionOnSet(g, S) \in Nat
  BY <1>1, SumAdds
<1> QED BY <1>2, <1>3, <1>4

\* The sum over disjoint sets is the sum of their sums.
LEMMA SumOfBoth ==
    ASSUME NEW A, IsFiniteSet(A), NEW B, IsFiniteSet(B), A \cap B = {},
           NEW f, \A x \in A \cup B : f[x] \in Nat
    PROVE  SumFunctionOnSet(f, A \cup B) = SumFunctionOnSet(f, A) + SumFunctionOnSet(f, B)
<1> DEFINE T == {s \in SUBSET A :
                    SumFunctionOnSet(f, s \cup B) = SumFunctionOnSet(f, s) + SumFunctionOnSet(f, B)}
<1>0. IsFiniteSet(A \cup B)
  BY FS_Union
<1>1. {} \in T
  <2>1. {} \cup B = B /\ B \in SUBSET (A \cup B)
    OBVIOUS
  <2>2. SumFunctionOnSet(f, {}) = 0 /\ SumFunctionOnSet(f, B) \in Nat
    BY <1>0, <2>1, SumAdds
  <2> QED BY <2>1, <2>2
<1>2. ASSUME NEW s \in SUBSET A, NEW x \in A \ s, s \in T PROVE s \cup {x} \in T
  <2>1. /\ s \cup {x} \in SUBSET (A \cup B) /\ x \in s \cup {x} /\ (s \cup {x}) \ {x} = s
        /\ (s \cup {x}) \cup B \in SUBSET (A \cup B)
        /\ x \in (s \cup {x}) \cup B /\ ((s \cup {x}) \cup B) \ {x} = s \cup B
        /\ s \in SUBSET (A \cup B) /\ B \in SUBSET (A \cup B)
    OBVIOUS
  <2>2. /\ SumFunctionOnSet(f, s \cup {x}) = SumFunctionOnSet(f, s) + f[x]
        /\ SumFunctionOnSet(f, (s \cup {x}) \cup B) = SumFunctionOnSet(f, s \cup B) + f[x]
        /\ SumFunctionOnSet(f, s) \in Nat /\ SumFunctionOnSet(f, B) \in Nat /\ f[x] \in Nat
    BY <1>0, <2>1, SumAdds
  <2>3. SumFunctionOnSet(f, s \cup B) = SumFunctionOnSet(f, s) + SumFunctionOnSet(f, B)
    BY <1>2
  <2>4. SumFunctionOnSet(f, (s \cup {x}) \cup B)
           = SumFunctionOnSet(f, s \cup {x}) + SumFunctionOnSet(f, B)
    BY <2>2, <2>3
  <2> QED BY <2>4
<1> HIDE DEF T
<1>3. A \in T
  BY <1>1, <1>2, SetInduct
<1> QED
  BY <1>3 DEF T

=============================================================================
