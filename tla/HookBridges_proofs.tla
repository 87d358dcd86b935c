-------------------------- MODULE HookBridges_proofs --------------------------
(***************************************************************************)
(* Proofs about HookBridges, for any commands, paths and ignore files.     *)
(*                                                                         *)
(* First the commands.  A command is cut at its operators, a segment that  *)
(* meets a rule gets the flag of the rule behind its last lexeme.  The     *)
(* command that is rebuilt so is scanned as it was: only line ends are     *)
(* taken away and only words are put in, before an operator or at the end, *)
(* which opens and closes no string (ScanStays, RewrittenIsRebuilt).  So   *)
(* it is cut into the same segments, each with its flag                    *)
(* (SegmentsOfRewritten): rewriting shows, keeps a rule from firing again, *)
(* and where a shell reads the command alike puts each flag where it       *)
(* belongs (FlagsOfRebuilt).                                               *)
(*                                                                         *)
(* Then the calls.  The rows are counted by stage: a bridge writes its row *)
(* in one step before it answers, so that the stage of the last call says  *)
(* which rows it has (RowsByStage), and the calls before it are over       *)
(* (OneAtATime).  A command that is run again carries the flags of every   *)
(* rule that fired for the commands it came from (Inherits).               *)
(***************************************************************************)
EXTENDS HookBridges, FoldLemmas, SequenceTheorems, TLAPS

-----------------------------------------------------------------------------
(* The parts of a command.                                                 *)

Increasing(e) == \A i, j \in DOMAIN e : i < j => e[i] < e[j]

\* The places of a command that end a part.
Places(c, kinds) == {i \in DOMAIN c : c[i].kind \in kinds}

\* e lists the places of S in order.
Lists(e, S) ==
    /\ e \in Seq(Nat) /\ Increasing(e)
    /\ \A i \in DOMAIN e : e[i] \in S
    /\ \A x \in S : \E i \in DOMAIN e : e[i] = x

\* There is one such list.
LEMMA ListsAgree ==
    ASSUME NEW S, NEW e, Lists(e, S), NEW f, Lists(f, S)
    PROVE  e = f
<1>1. ASSUME NEW g, Lists(g, S), NEW h, Lists(h, S), NEW k \in DOMAIN g,
             \A j \in 1 .. k - 1 : j \in DOMAIN h /\ g[j] = h[j]
      PROVE  k \in DOMAIN h /\ h[k] <= g[k]
    <2>1. /\ g \in Seq(Nat) /\ h \in Seq(Nat) /\ Increasing(g) /\ Increasing(h)
          /\ g[k] \in S
        BY <1>1 DEF Lists
    <2>2. PICK m \in DOMAIN h : h[m] = g[k]
        BY <1>1, <2>1 DEF Lists
    <2>3. m >= k
        <3> SUFFICES ASSUME m < k PROVE FALSE
            BY <2>1, <2>2
        <3>1. m \in 1 .. k - 1 /\ m \in DOMAIN g
            BY <2>1, <2>2
        <3>2. g[m] = g[k]
            BY <1>1, <2>2, <3>1
        <3>3. g[m] < g[k]
            BY <1>1, <2>1, <3>1 DEF Increasing
        <3> QED
            BY <2>1, <3>1, <3>2, <3>3
    <2>4. k \in DOMAIN h
        BY <2>1, <2>2, <2>3
    <2>5. h[k] <= h[m]
        BY <2>1, <2>2, <2>3, <2>4 DEF Increasing
    <2> QED
        BY <2>2, <2>4, <2>5
<1>2. e \in Seq(Nat) /\ f \in Seq(Nat)
    BY DEF Lists
<1> DEFINE T == {k \in 0 .. Len(e) : \A j \in 1 .. k : j \in DOMAIN f /\ e[j] = f[j]}
<1>3. \A k \in 0 .. Len(e) : k \in T
    <2>1. 0 \in T
        BY <1>2
    <2>2. ASSUME NEW k \in 0 .. Len(e) - 1, k \in T PROVE k + 1 \in T
        <3>1. k + 1 \in DOMAIN e /\ \A j \in 1 .. (k + 1) - 1 : j \in DOMAIN f /\ e[j] = f[j]
            BY <1>2, <2>2
        <3>2. k + 1 \in DOMAIN f /\ f[k + 1] <= e[k + 1]
            BY <1>1, <3>1
        <3>3. \A j \in 1 .. (k + 1) - 1 : j \in DOMAIN e /\ f[j] = e[j]
            BY <1>2, <3>1
        <3>4. e[k + 1] <= f[k + 1]
            BY <1>1, <3>2, <3>3
        <3>5. e[k + 1] = f[k + 1]
            BY <1>2, <3>1, <3>2, <3>4
        <3> QED
            BY <1>2, <2>2, <3>2, <3>5
    <2>3. Len(e) \in Nat
        BY <1>2
    <2> HIDE DEF T
    <2> QED
        BY <2>1, <2>2, <2>3, InductTo
<1>4. \A j \in 1 .. Len(e) : j \in DOMAIN f /\ e[j] = f[j]
    BY <1>2, <1>3
<1>5. Len(e) = Len(f)
    <2> SUFFICES ASSUME Len(e) < Len(f) PROVE FALSE
        BY <1>2, <1>4
    <2>1. Len(e) + 1 \in DOMAIN f
        BY <1>2
    <2>2. \A j \in 1 .. (Len(e) + 1) - 1 : j \in DOMAIN e /\ f[j] = e[j]
        BY <1>2, <1>4
    <2> QED
        BY <1>1, <1>2, <2>1, <2>2
<1> QED
    BY <1>2, <1>4, <1>5

\* A place behind all others is listed last.
LEMMA ListsMore ==
    ASSUME NEW e, NEW k \in Nat, NEW P \in SUBSET (1 .. k), Lists(e, P), NEW m \in Nat, k < m
    PROVE  Lists(Append(e, m), P \cup {m})
<1> DEFINE f == Append(e, m)
<1>1. e \in Seq(Nat) /\ f \in Seq(Nat)
    BY DEF Lists
<1>2. /\ DOMAIN e = 1 .. Len(e) /\ Len(e) \in Nat
      /\ DOMAIN f = DOMAIN e \cup {Len(e) + 1}
      /\ f[Len(e) + 1] = m /\ \A i \in DOMAIN e : f[i] = e[i]
    BY <1>1
<1> HIDE DEF f
<1>3. /\ Increasing(e) /\ \A i \in DOMAIN e : e[i] \in P
      /\ \A x \in P : \E i \in DOMAIN e : e[i] = x
    BY DEF Lists
<1>4. \A i \in DOMAIN e : e[i] < m /\ e[i] \in Nat
    <2>1. \A x \in 1 .. k : x < m /\ x \in Nat
        OBVIOUS
    <2> QED
        BY <1>3, <2>1
<1>5. Increasing(f)
    BY <1>2, <1>3, <1>4 DEF Increasing
<1>6. \A i \in DOMAIN f : f[i] \in P \cup {m}
    BY <1>2, <1>3
<1>7. \A x \in P \cup {m} : \E i \in DOMAIN f : f[i] = x
    BY <1>2, <1>3
<1>8. Lists(f, P \cup {m})
    BY <1>1, <1>5, <1>6, <1>7 DEF Lists
<1> QED
    BY <1>8 DEF f

\* h goes through the command and gathers the places.
Gathers(h, c, kinds) ==
    /\ h \in [0 .. Len(c) -> Seq(Nat)]
    /\ h[0] = <<>>
    /\ \A k \in 1 .. Len(c) :
        h[k] = IF c[k].kind \in kinds THEN Append(h[k - 1], k) ELSE h[k - 1]
    /\ Ends(c, kinds) = Append(h[Len(c)], Len(c) + 1)

EndsAreGathered(c, kinds) == \E h : Gathers(h, c, kinds)

LEMMA EndsGather ==
    ASSUME NEW W, NEW c \in Seq(W), NEW kinds
    PROVE  EndsAreGathered(c, kinds)
<1> DEFINE V == Seq(Nat)
           size == Len(c)
           next(v, i) == IF c[i].kind \in kinds THEN Append(v, i) ELSE v
           step == [x \in 1 .. size |-> [v \in V |-> next(v, x)]]
           Iter(i) == i = [s \in SUBSET (1 .. size) |->
                             IF s = {} THEN <<>>
                             ELSE next(i[s \ {Max(s)}], [j \in 1 .. size |-> j][Max(s)])]
           it == CHOOSE i : Iter(i)
<1>1. size \in Nat /\ DOMAIN c = 1 .. size
    OBVIOUS
<1>2. Ends(c, kinds) = Append(it[1 .. size], size + 1)
    BY <1>1 DEF Ends, FoldLeftDomain, FoldLeft, MapThenFoldSet
<1>3. <<>> \in V
    OBVIOUS
<1>4. \A x \in 1 .. size : \A v \in V : next(v, x) \in V
    OBVIOUS
<1> HIDE DEF size, V, next
<1>5. \A x \in 1 .. size : \A v \in V : step[x][v] \in V /\ step[x][v] = next(v, x)
    BY <1>4
<1> HIDE DEF step
<1>6. Steps(step, 1 .. size, V)
    BY <1>5 DEF Steps
<1>7. PICK g \in [SUBSET (1 .. size) -> V] : IsFoldLeft(g, size, <<>>, step)
    BY <1>1, <1>3, <1>6, FoldLeftExists
<1>8. \A s \in SUBSET (1 .. size) : s # {} => Max(s) \in 1 .. size
    BY <1>1, MaxExists
<1>9. Iter(g)
    <2>1. \A s \in SUBSET (1 .. size) : s # {} => g[s \ {Max(s)}] \in V
        BY <1>7
    <2> QED
        BY <1>5, <1>7, <1>8, <2>1 DEF IsFoldLeft
<1>10. Iter(it)
    <2> HIDE DEF Iter
    <2> QED
        BY <1>9
<1> HIDE DEF it
<1>11. Unrolls(it, size, V, <<>>, step)
    BY <1>5, <1>8, <1>10 DEF Unrolls
<1> HIDE DEF Iter
<1>12. RunsTo(it[1 .. size], size, V, <<>>, step)
    BY <1>1, <1>3, <1>6, <1>11, FoldLeftRuns
<1>13. PICK h \in [0 .. size -> V] : IsRun(h, size, <<>>, step) /\ h[size] = it[1 .. size]
    BY <1>12 DEF RunsTo
<1>14. \A k \in 1 .. size : h[k - 1] \in V /\ h[k] = next(h[k - 1], k)
    BY <1>1, <1>5, <1>13 DEF IsRun
<1>15. Gathers(h, c, kinds)
    BY <1>2, <1>13, <1>14 DEF Gathers, IsRun, size, V, next
<1> QED
    BY <1>15 DEF EndsAreGathered

\* The ends are the places, and the end of the command is one of them.
LEMMA EndsList ==
    ASSUME NEW W, NEW c \in Seq(W), NEW kinds
    PROVE  Lists(Ends(c, kinds), Places(c, kinds) \cup {Len(c) + 1})
<1>1. EndsAreGathered(c, kinds)
    BY EndsGather
<1>2. PICK h : Gathers(h, c, kinds)
    BY <1>1 DEF EndsAreGathered
<1> DEFINE size == Len(c)
           S(k) == {i \in Places(c, kinds) : i <= k}
           T == {k \in 0 .. size : Lists(h[k], S(k))}
<1>3. size \in Nat /\ DOMAIN c = 1 .. size
    OBVIOUS
<1>5. \A k \in 0 .. size : k \in T
    <2>1. 0 \in T
        <3>1. S(0) = {} /\ h[0] = <<>>
            BY <1>2, <1>3 DEF Places, Gathers
        <3>2. Lists(<<>>, {})
            BY DEF Lists, Increasing
        <3> HIDE DEF S
        <3>3. Lists(h[0], S(0))
            BY <3>1, <3>2, Zenon
        <3> QED
            BY <1>3, <3>3
    <2>2. ASSUME NEW k \in 0 .. size - 1, k \in T PROVE k + 1 \in T
        <3>1. /\ k + 1 \in 1 .. size /\ (k + 1) - 1 = k
              /\ k \in Nat /\ k + 1 \in Nat /\ k < k + 1
            BY <1>3
        <3>2. h[k + 1] = IF c[k + 1].kind \in kinds THEN Append(h[k], k + 1) ELSE h[k]
            BY <1>2, <3>1 DEF Gathers
        <3>3. S(k) \in SUBSET (1 .. k)
            BY <1>3, <3>1 DEF Places
        <3>4. Lists(h[k], S(k))
            BY <2>2
        <3>5. CASE c[k + 1].kind \in kinds
            <4>1. S(k + 1) = S(k) \cup {k + 1}
                BY <1>3, <3>1, <3>5 DEF Places
            <4> HIDE DEF S
            <4>2. Lists(Append(h[k], k + 1), S(k) \cup {k + 1})
                BY <3>1, <3>3, <3>4, ListsMore
            <4>3. Lists(h[k + 1], S(k + 1))
                BY <3>2, <3>5, <4>1, <4>2, Zenon
            <4> QED
                BY <1>3, <3>1, <4>3
        <3>6. CASE c[k + 1].kind \notin kinds
            <4>1. S(k + 1) = S(k)
                BY <1>3, <3>1, <3>6 DEF Places
            <4> HIDE DEF S
            <4> QED
                BY <3>1, <3>2, <3>4, <3>6, <4>1, <1>3
        <3> QED
            BY <3>5, <3>6
    <2> HIDE DEF T
    <2> QED
        BY <1>3, <2>1, <2>2, InductTo
<1>6. Lists(h[size], Places(c, kinds))
    <2>1. S(size) = Places(c, kinds)
        BY <1>3 DEF Places
    <2> HIDE DEF S
    <2> QED
        BY <1>3, <1>5, <2>1
<1>7. Places(c, kinds) \in SUBSET (1 .. size) /\ size + 1 \in Nat /\ size < size + 1
    BY <1>3 DEF Places
<1>8. Lists(Append(h[size], size + 1), Places(c, kinds) \cup {size + 1})
    <2> HIDE DEF size
    <2> QED
        BY <1>3, <1>6, <1>7, ListsMore
<1> QED
    BY <1>2, <1>8 DEF Gathers

-----------------------------------------------------------------------------
(* The rules.                                                              *)

\* The flag that a rule appends is a word that is taken for one, and it is one
\* of those that keep the rule off.
IsWord(word, flags) ==
    word.kind = "word" /\ word.flags = flags /\ word = [word EXCEPT !.kind = word.is]

Settles(rule) ==
    /\ rule.flag.kind = "word" /\ rule.flag = [rule.flag EXCEPT !.kind = rule.flag.is]
    /\ \E flag \in rule.flag.flags : flag \in rule.flags
    /\ rule.saves \in Nat

LEMMA OptionIsWord ==
    ASSUME NEW names, NEW flags
    PROVE  IsWord(Option(names, flags), flags)
<1>1. ASSUME NEW list PROVE IsWord(Lexeme("word", list, flags), flags)
    <2> DEFINE word == [is |-> "word", kind |-> "word", names |-> list, flags |-> flags]
    <2>1. word.kind = "word" /\ word.is = "word" /\ word.flags = flags
        OBVIOUS
    <2>2. word = [word EXCEPT !.kind = "word"]
        OBVIOUS
    <2>3. IsWord(word, flags)
        <3> HIDE DEF word
        <3> QED
            BY <2>1, <2>2 DEF IsWord
    <2> QED
        BY <2>3 DEF Lexeme
<1> QED
    BY <1>1 DEF Option

LEMMA QuietFlags ==
    /\ IsWord(QuietFlag["silent"], {"--silent", "-s"})
    /\ IsWord(QuietFlag["warn"], {"--loglevel"})
    /\ IsWord(QuietFlag["dots"], {"--reporter", "--reporter=dot"})
    /\ IsWord(QuietFlag["quiet"], {"--quiet", "-q"})
    /\ IsWord(QuietFlag["verbosity"], {"--verbosity", "-v"})
    /\ IsWord(QuietFlag["q"], {"-q"})
    /\ IsWord(QuietFlag["s"], {"-s"})
    /\ IsWord(QuietFlag["logLevel"], {"--logLevel"})
    /\ IsWord(QuietFlag["tail"], {"--tail"})
    /\ IsWord(QuietFlag["sS"], {"-s"})
BY OptionIsWord DEF QuietFlag

LEMMA SettledBy ==
    ASSUME NEW rule, NEW word, NEW flags, IsWord(word, flags), rule.flag = word,
           NEW flag \in flags, flag \in rule.flags, NEW saves \in Nat, rule.saves = saves
    PROVE  Settles(rule)
BY DEF Settles, IsWord

LEMMA RulesSettle == DOMAIN Rules = 1 .. 22 /\ \A r \in DOMAIN Rules : Settles(Rules[r])
<1>1. DOMAIN Rules = 1 .. 22
    BY DEF Rules
<1>2. /\ Settles(Rules[1])
      /\ Settles(Rules[4])
      /\ Settles(Rules[21])
    <2>1. Rules[1].flag = QuietFlag["silent"] /\ "--silent" \in Rules[1].flags /\ Rules[1].saves = 800
        BY DEF Rules, Rule
    <2>2. Rules[4].flag = QuietFlag["silent"] /\ "--silent" \in Rules[4].flags /\ Rules[4].saves = 800
        BY DEF Rules, Rule
    <2>3. Rules[21].flag = QuietFlag["silent"] /\ "--silent" \in Rules[21].flags /\ Rules[21].saves = 600
        BY DEF Rules, Rule
    <2>4. "--silent" \in {"--silent", "-s"}
        OBVIOUS
    <2> QED
        BY <2>1, <2>2, <2>3, <2>4, QuietFlags, SettledBy
<1>3. /\ Settles(Rules[2])
      /\ Settles(Rules[10])
    <2>1. Rules[2].flag = QuietFlag["warn"] /\ "--loglevel" \in Rules[2].flags /\ Rules[2].saves = 400
        BY DEF Rules, Rule
    <2>2. Rules[10].flag = QuietFlag["warn"] /\ "--loglevel" \in Rules[10].flags /\ Rules[10].saves = 300
        BY DEF Rules, Rule
    <2>3. "--loglevel" \in {"--loglevel"}
        OBVIOUS
    <2> QED
        BY <2>1, <2>2, <2>3, QuietFlags, SettledBy
<1>4. /\ Settles(Rules[3])
      /\ Settles(Rules[20])
    <2>1. Rules[3].flag = QuietFlag["dots"] /\ "--reporter=dot" \in Rules[3].flags /\ Rules[3].saves = 800
        BY DEF Rules, Rule
    <2>2. Rules[20].flag = QuietFlag["dots"] /\ "--reporter" \in Rules[20].flags /\ Rules[20].saves = 600
        BY DEF Rules, Rule
    <2>3. "--reporter=dot" \in {"--reporter", "--reporter=dot"}
        OBVIOUS
    <2> QED
        BY <2>1, <2>2, <2>3, QuietFlags, SettledBy
<1>5. /\ Settles(Rules[5])
      /\ Settles(Rules[6])
      /\ Settles(Rules[12])
      /\ Settles(Rules[13])
      /\ Settles(Rules[22])
    <2>1. Rules[5].flag = QuietFlag["quiet"] /\ "--quiet" \in Rules[5].flags /\ Rules[5].saves = 600
        BY DEF Rules, Rule
    <2>2. Rules[6].flag = QuietFlag["quiet"] /\ "--quiet" \in Rules[6].flags /\ Rules[6].saves = 400
        BY DEF Rules, Rule
    <2>3. Rules[12].flag = QuietFlag["quiet"] /\ "--quiet" \in Rules[12].flags /\ Rules[12].saves = 300
        BY DEF Rules, Rule
    <2>4. Rules[13].flag = QuietFlag["quiet"] /\ "--quiet" \in Rules[13].flags /\ Rules[13].saves = 300
        BY DEF Rules, Rule
    <2>5. Rules[22].flag = QuietFlag["quiet"] /\ "--quiet" \in Rules[22].flags /\ Rules[22].saves = 400
        BY DEF Rules, Rule
    <2>6. "--quiet" \in {"--quiet", "-q"}
        OBVIOUS
    <2> QED
        BY <2>1, <2>2, <2>3, <2>4, <2>5, <2>6, QuietFlags, SettledBy
<1>6. Settles(Rules[7])
    <2>1. Rules[7].flag = QuietFlag["verbosity"] /\ "-v" \in Rules[7].flags /\ Rules[7].saves = 500
        BY DEF Rules, Rule
    <2>2. "-v" \in {"--verbosity", "-v"}
        OBVIOUS
    <2> QED
        BY <2>1, <2>2, QuietFlags, SettledBy
<1>7. /\ Settles(Rules[8])
      /\ Settles(Rules[9])
      /\ Settles(Rules[11])
      /\ Settles(Rules[14])
      /\ Settles(Rules[15])
    <2>1. Rules[8].flag = QuietFlag["q"] /\ "-q" \in Rules[8].flags /\ Rules[8].saves = 500
        BY DEF Rules, Rule
    <2>2. Rules[9].flag = QuietFlag["q"] /\ "-q" \in Rules[9].flags /\ Rules[9].saves = 500
        BY DEF Rules, Rule
    <2>3. Rules[11].flag = QuietFlag["q"] /\ "-q" \in Rules[11].flags /\ Rules[11].saves = 300
        BY DEF Rules, Rule
    <2>4. Rules[14].flag = QuietFlag["q"] /\ "-q" \in Rules[14].flags /\ Rules[14].saves = 500
        BY DEF Rules, Rule
    <2>5. Rules[15].flag = QuietFlag["q"] /\ "-q" \in Rules[15].flags /\ Rules[15].saves = 500
        BY DEF Rules, Rule
    <2>6. "-q" \in {"-q"}
        OBVIOUS
    <2> QED
        BY <2>1, <2>2, <2>3, <2>4, <2>5, <2>6, QuietFlags, SettledBy
<1>8. Settles(Rules[16])
    <2>1. Rules[16].flag = QuietFlag["s"] /\ "-s" \in Rules[16].flags /\ Rules[16].saves = 300
        BY DEF Rules, Rule
    <2>2. "-s" \in {"-s"}
        OBVIOUS
    <2> QED
        BY <2>1, <2>2, QuietFlags, SettledBy
<1>9. Settles(Rules[17])
    <2>1. Rules[17].flag = QuietFlag["logLevel"] /\ "--logLevel" \in Rules[17].flags /\ Rules[17].saves = 400
        BY DEF Rules, Rule
    <2>2. "--logLevel" \in {"--logLevel"}
        OBVIOUS
    <2> QED
        BY <2>1, <2>2, QuietFlags, SettledBy
<1>10. Settles(Rules[18])
    <2>1. Rules[18].flag = QuietFlag["tail"] /\ "--tail" \in Rules[18].flags /\ Rules[18].saves = 700
        BY DEF Rules, Rule
    <2>2. "--tail" \in {"--tail"}
        OBVIOUS
    <2> QED
        BY <2>1, <2>2, QuietFlags, SettledBy
<1>11. Settles(Rules[19])
    <2>1. Rules[19].flag = QuietFlag["sS"] /\ "-s" \in Rules[19].flags /\ Rules[19].saves = 200
        BY DEF Rules, Rule
    <2>2. "-s" \in {"-s"}
        OBVIOUS
    <2> QED
        BY <2>1, <2>2, QuietFlags, SettledBy
<1> QED
    BY <1>1, <1>2, <1>3, <1>4, <1>5, <1>6, <1>7, <1>8, <1>9, <1>10, <1>11

\* Where the k-th part begins.
From(e, k) == IF k = 1 THEN 1 ELSE e[k - 1] + 1

\* parts are those of c that end at e.
Cuts(parts, e, c, kinds, W) ==
    /\ e \in Seq(Nat) /\ Len(e) \in Nat \ {0} /\ e[Len(e)] = Len(c) + 1
    /\ parts \in Seq(Seq(W)) /\ Len(parts) = Len(e)
    /\ \A k \in 1 .. Len(e) :
        /\ From(e, k) \in 1 .. e[k] /\ e[k] <= Len(c) + 1
        /\ Len(parts[k]) = e[k] - From(e, k)
        /\ \A i \in 1 .. Len(parts[k]) :
            /\ From(e, k) + i - 1 \in DOMAIN c
            /\ parts[k][i] = c[From(e, k) + i - 1]
            /\ parts[k][i].kind \notin kinds
        /\ k < Len(e) => e[k] \in DOMAIN c /\ c[e[k]] \in W /\ c[e[k]].kind \in kinds

LEMMA PartsCut ==
    ASSUME NEW W, NEW c \in Seq(W), NEW kinds
    PROVE  Cuts(Parts(c, kinds), Ends(c, kinds), c, kinds, W)
<1> DEFINE e == Ends(c, kinds)
           S == Places(c, kinds) \cup {Len(c) + 1}
           p == Parts(c, kinds)
<1>1. Len(c) \in Nat /\ DOMAIN c = 1 .. Len(c) /\ \A i \in 1 .. Len(c) : c[i] \in W
    OBVIOUS
<1>2. Lists(e, S)
    BY EndsList
<1>3. p = [k \in DOMAIN e |-> SubSeq(c, From(e, k), e[k] - 1)]
    BY DEF Parts, From
<1>4. S \subseteq 1 .. Len(c) + 1
    BY <1>1 DEF Places
<1>5. \A x \in S : x # Len(c) + 1 => x \in DOMAIN c /\ c[x].kind \in kinds
    BY DEF Places
<1>6. \A x \in DOMAIN c : c[x].kind \in kinds => x \in S
    BY DEF Places
<1>7. Len(c) + 1 \in S
    OBVIOUS
<1> HIDE DEF e, S, p
<1>8. /\ e \in Seq(Nat) /\ DOMAIN e = 1 .. Len(e) /\ Len(e) \in Nat
      /\ \A i, j \in DOMAIN e : i < j => e[i] < e[j]
      /\ \A i \in DOMAIN e : e[i] \in S /\ e[i] \in 1 .. Len(c) + 1
      /\ \A x \in S : \E i \in DOMAIN e : e[i] = x
    BY <1>2, <1>4 DEF Lists, Increasing
<1>9. Len(e) \in Nat \ {0} /\ e[Len(e)] = Len(c) + 1
    <2>1. PICK i \in DOMAIN e : e[i] = Len(c) + 1
        BY <1>7, <1>8
    <2>2. Len(e) \in DOMAIN e
        BY <1>8, <2>1
    <2>3. i = Len(e)
        <3> SUFFICES ASSUME i < Len(e) PROVE FALSE
            BY <1>8, <2>1
        <3>1. e[i] < e[Len(e)] /\ e[Len(e)] \in 1 .. Len(c) + 1
            BY <1>8, <2>1, <2>2
        <3> QED
            BY <1>1, <2>1, <3>1
    <2> QED
        BY <1>8, <2>1, <2>3
<1>10. ASSUME NEW k \in 1 .. Len(e)
       PROVE  /\ From(e, k) \in 1 .. e[k] /\ e[k] <= Len(c) + 1 /\ e[k] \in Nat
              /\ p[k] \in Seq(W)
              /\ Len(p[k]) = e[k] - From(e, k)
              /\ \A i \in 1 .. Len(p[k]) :
                  /\ From(e, k) + i - 1 \in DOMAIN c
                  /\ p[k][i] = c[From(e, k) + i - 1]
                  /\ p[k][i].kind \notin kinds
              /\ k < Len(e) => e[k] \in DOMAIN c /\ c[e[k]] \in W /\ c[e[k]].kind \in kinds
    <2>1. k \in DOMAIN e /\ e[k] \in S /\ e[k] \in 1 .. Len(c) + 1
        BY <1>8
    <2>2. From(e, k) \in 1 .. e[k]
        <3>1. CASE k = 1
            BY <1>1, <2>1, <3>1 DEF From
        <3>2. CASE k # 1
            <4>1. k - 1 \in DOMAIN e /\ k - 1 < k
                BY <1>8, <3>2
            <4>2. e[k - 1] < e[k] /\ e[k - 1] \in 1 .. Len(c) + 1
                BY <1>8, <2>1, <4>1
            <4> QED
                BY <1>1, <2>1, <3>2, <4>2 DEF From
        <3> QED
            BY <3>1, <3>2
    <2>3. p[k] = SubSeq(c, From(e, k), e[k] - 1)
        BY <1>3, <2>1
    <2> DEFINE f == From(e, k)
               t == e[k]
    <2>4. f \in 1 .. t /\ t \in 1 .. Len(c) + 1
        BY <2>1, <2>2
    <2>5. \A x \in f .. t - 1 : x \in DOMAIN c /\ c[x].kind \notin kinds
        <3> SUFFICES ASSUME NEW x \in f .. t - 1, x \notin DOMAIN c \/ c[x].kind \in kinds
                     PROVE  FALSE
            OBVIOUS
        <3>1. x \in DOMAIN c /\ x \in Nat
            BY <1>1, <2>4
        <3>2. PICK i \in DOMAIN e : e[i] = x
            BY <1>6, <1>8, <3>1
        <3>3. i < k
            <4> SUFFICES ASSUME k < i \/ k = i PROVE FALSE
                BY <1>8, <2>1
            <4>1. e[k] < e[i] \/ e[k] = e[i]
                BY <1>8, <2>1, <3>2
            <4> QED
                BY <1>1, <2>4, <3>2, <4>1
        <3>4. k # 1 /\ k - 1 \in DOMAIN e /\ (i < k - 1 \/ i = k - 1)
            BY <1>8, <1>10, <2>1, <3>2, <3>3
        <3>5. e[i] < e[k - 1] \/ e[i] = e[k - 1]
            BY <1>8, <3>2, <3>4
        <3>6. f = e[k - 1] + 1 /\ e[k - 1] \in Nat
            BY <1>8, <3>4 DEF From
        <3> QED
            BY <1>1, <2>4, <3>2, <3>5, <3>6
    <2> HIDE DEF f, t
    <2>6. p[k] = SubSeq(c, f, t - 1)
        BY <2>3 DEF f, t
    <2>7. p[k] \in Seq(W) /\ Len(p[k]) = t - f /\ \A i \in 1 .. t - f : p[k][i] = c[f + i - 1]
        BY <1>1, <2>4, <2>6
    <2>8. \A i \in 1 .. Len(p[k]) :
            /\ f + i - 1 \in DOMAIN c
            /\ p[k][i] = c[f + i - 1]
            /\ p[k][i].kind \notin kinds
        <3>1. \A i \in 1 .. t - f : f + i - 1 \in f .. t - 1
            BY <2>4
        <3> QED
            BY <2>5, <2>7, <3>1
    <2>9. t <= Len(c) + 1 /\ t \in Nat
        BY <1>1, <2>4
    <2>10. k < Len(e) => t \in DOMAIN c /\ c[t] \in W /\ c[t].kind \in kinds
        <3> SUFFICES ASSUME k < Len(e) PROVE t # Len(c) + 1
            BY <1>1, <1>5, <2>1 DEF t
        <3>1. e[k] < e[Len(e)]
            BY <1>8, <1>9, <1>10, <2>1
        <3> QED
            BY <1>1, <1>9, <2>9, <3>1 DEF t
    <2> QED
        BY <2>4, <2>7, <2>8, <2>9, <2>10 DEF f, t
<1>11. p \in Seq(Seq(W)) /\ Len(p) = Len(e)
    <2>1. p \in [1 .. Len(e) -> Seq(W)]
        BY <1>3, <1>8, <1>10
    <2> DEFINE V == Seq(W)
               size == Len(e)
    <2>2. size \in Nat
        BY <1>8
    <2> HIDE DEF V, size
    <2>3. p \in [1 .. size -> V]
        BY <2>1 DEF V, size
    <2>4. p \in Seq(V) /\ Len(p) = size
        BY <2>2, <2>3
    <2> QED
        BY <2>4 DEF V, size
<1>12. Cuts(p, e, c, kinds, W)
    BY <1>8, <1>9, <1>10, <1>11, Zenon DEF Cuts
<1> QED
    BY <1>12 DEF p, e

-----------------------------------------------------------------------------
(* What the rules do to a segment.                                         *)

\* q is the segment with the flag behind its last lexeme.
Flagged(q, segment, flag) ==
    \E last \in 0 .. Len(segment) :
        /\ Len(q) = last + 1 /\ q[last + 1] = flag
        /\ \A i \in 1 .. last : q[i] = segment[i]
        /\ \A i \in last + 1 .. Len(segment) : segment[i].kind = "line end"

LEMMA FlagIsAppended ==
    ASSUME NEW W, NEW segment \in Seq(W), NEW flag \in W
    PROVE  /\ AppendFlag(segment, flag) \in Seq(W)
           /\ Flagged(AppendFlag(segment, flag), segment, flag)
<1> DEFINE I == {i \in 1 .. Len(segment) : segment[i].kind # "line end"}
           last == IF I # {} THEN Max(I) ELSE 0
           q == AppendFlag(segment, flag)
<1>1. q = SubSeq(segment, 1, last) \o <<flag>>
    BY DEF AppendFlag, SelectLastInSeq
<1>2. Len(segment) \in Nat
    OBVIOUS
<1>7. I \in SUBSET (1 .. Len(segment))
    OBVIOUS
<1>3. I # {} => Max(I) \in I /\ \A i \in I : Max(I) >= i
    <2> HIDE DEF I
    <2> QED
        BY <1>2, <1>7, MaxExists
<1>4. last \in 0 .. Len(segment) /\ \A i \in last + 1 .. Len(segment) : i \notin I
    <2>1. (I = {} => last = 0) /\ (I # {} => last = Max(I))
        OBVIOUS
    <2> HIDE DEF I, last
    <2>2. CASE I = {}
        BY <1>2, <2>1, <2>2
    <2>3. CASE I # {}
        <3>1. last \in I /\ \A i \in I : last >= i
            BY <1>3, <2>1, <2>3
        <3>2. last \in 1 .. Len(segment) /\ \A i \in I : i \in 1 .. Len(segment)
            BY <1>7, <3>1
        <3>3. \A i \in last + 1 .. Len(segment) : i > last
            BY <1>2, <3>2
        <3> QED
            BY <1>2, <3>1, <3>2, <3>3
    <2> QED
        BY <2>2, <2>3
<1> HIDE DEF last
<1>5. ASSUME NEW i \in last + 1 .. Len(segment) PROVE segment[i].kind = "line end"
    <2> HIDE DEF I
    <2>1. i \in last + 1 .. Len(segment) /\ i \notin I
        BY <1>4, <1>5
    <2>2. i \in 1 .. Len(segment)
        BY <1>2, <1>4, <2>1
    <2> QED
        BY <2>1, <2>2 DEF I
<1> HIDE DEF q
<1> HIDE DEF I
<1>6. q \in Seq(W) /\ Len(q) = last + 1 /\ q[last + 1] = flag
      /\ \A i \in 1 .. last : q[i] = segment[i]
    BY <1>1, <1>2, <1>4
<1> QED
    BY <1>4, <1>5, <1>6 DEF Flagged, q

\* The first rule of several applies.
LEMMA FirstApplies ==
    ASSUME NEW segment, Applicable(segment) # {}
    PROVE  FirstRule(segment) \in DOMAIN Rules /\ Applies(FirstRule(segment), segment)
<1> DEFINE S == Applicable(segment)
<1>1. S \in SUBSET (1 .. 22) /\ \A r \in S : r \in DOMAIN Rules /\ Applies(r, segment)
    BY RulesSettle DEF Applicable
<1> HIDE DEF S
<1>2. Min(S) \in S
    <2>1. S \subseteq Nat /\ S # {}
        BY <1>1 DEF S
    <2>2. PICK least \in S : \A r \in S : ~ (<<r, least>> \in OpToRel(<, Nat))
        BY <2>1, NatLessThanWellFounded, WFMin
    <2>3. \A r \in S : ~ (r < least)
        BY <2>1, <2>2, LessIsRelated
    <2>4. \A r \in S : least <= r
        BY <2>1, <2>3
    <2> QED
        BY <2>4 DEF Min
<1> QED
    BY <1>1, <1>2 DEF FirstRule, S

\* The flags of the rules.
RuleFlags == {Rules[r].flag : r \in DOMAIN Rules}

\* A segment is left alone, or gets the flag of a rule that applies.
LEMMA SegmentQuietened ==
    ASSUME NEW W, RuleFlags \subseteq W, NEW segment \in Seq(W)
    PROVE  LET q == Quietened(segment)
               r == FirstRule(segment)
           IN  /\ q \in Seq(W)
               /\ Applicable(segment) = {} => q = segment
               /\ Applicable(segment) # {} =>
                    r \in DOMAIN Rules /\ Applies(r, segment) /\ Flagged(q, segment, Rules[r].flag)
<1>1. CASE Applicable(segment) = {}
    BY <1>1 DEF Quietened
<1>2. CASE Applicable(segment) # {}
    <2> DEFINE r == FirstRule(segment)
               flag == Rules[r].flag
    <2>1. r \in DOMAIN Rules /\ Applies(r, segment)
        BY <1>2, FirstApplies
    <2>2. flag \in W
        BY <2>1 DEF RuleFlags
    <2>3. Quietened(segment) = AppendFlag(segment, flag)
        BY <1>2 DEF Quietened
    <2> HIDE DEF r, flag
    <2>4. AppendFlag(segment, flag) \in Seq(W) /\ Flagged(AppendFlag(segment, flag), segment, flag)
        BY <2>2, FlagIsAppended
    <2> QED
        BY <1>2, <2>1, <2>3, <2>4 DEF r, flag
<1> QED
    BY <1>1, <1>2

-----------------------------------------------------------------------------
(* The scan.                                                               *)

\* x is a, then q, then b.
Chain(x, a, q, b) ==
    /\ Len(x) = Len(a) + Len(q) + Len(b)
    /\ \A i \in 1 .. Len(a) : x[i] = a[i]
    /\ \A i \in 1 .. Len(q) : x[Len(a) + i] = q[i]
    /\ \A i \in 1 .. Len(b) : x[Len(a) + Len(q) + i] = b[i]

LEMMA Chained ==
    ASSUME NEW W, NEW a \in Seq(W), NEW q \in Seq(W), NEW b \in Seq(W)
    PROVE  Chain((a \o q) \o b, a, q, b)
<1> DEFINE y == a \o q
           x == y \o b
<1>1. Len(a) \in Nat /\ Len(q) \in Nat /\ Len(b) \in Nat
    OBVIOUS
<1>2. /\ y \in Seq(W) /\ Len(y) = Len(a) + Len(q)
      /\ \A i \in 1 .. Len(a) : y[i] = a[i]
      /\ \A i \in 1 .. Len(q) : y[Len(a) + i] = q[i]
    BY <1>1
<1> HIDE DEF y
<1>7. y \in Seq(W)
    BY <1>2
<1>3. /\ Len(x) = Len(y) + Len(b)
      /\ \A i \in 1 .. Len(y) : x[i] = y[i]
      /\ \A i \in 1 .. Len(b) : x[Len(y) + i] = b[i]
    BY <1>1, <1>7
<1> HIDE DEF x
<1>4. \A i \in 1 .. Len(a) : i \in 1 .. Len(y)
    BY <1>1, <1>2
<1>5. \A i \in 1 .. Len(q) : Len(a) + i \in 1 .. Len(y)
    BY <1>1, <1>2
<1>6. Chain(x, a, q, b)
    BY <1>1, <1>2, <1>3, <1>4, <1>5 DEF Chain
<1> QED
    BY <1>6 DEF x, y

\* h goes through the command and gathers where a string is open.
OpensUp(h, c, mark) ==
    /\ h \in [0 .. Len(c) -> SUBSET (1 .. Len(c))]
    /\ h[0] = {}
    /\ \A k \in 1 .. Len(c) :
        h[k] = IF Opens(c, mark, h[k - 1], k) THEN h[k - 1] \cup {k} ELSE h[k - 1]
    /\ OpenBehind(c, mark) = h[Len(c)]

OpensAreGathered(c, mark) == \E h : OpensUp(h, c, mark)

LEMMA OpensGather ==
    ASSUME NEW W, NEW c \in Seq(W), NEW mark
    PROVE  OpensAreGathered(c, mark)
<1> DEFINE size == Len(c)
           V == SUBSET (1 .. size)
           next(v, i) == IF Opens(c, mark, v, i) THEN v \cup {i} ELSE v
           step == [x \in 1 .. size |-> [v \in V |-> next(v, x)]]
           Iter(i) == i = [s \in SUBSET (1 .. size) |->
                             IF s = {} THEN {}
                             ELSE next(i[s \ {Max(s)}], [j \in 1 .. size |-> j][Max(s)])]
           it == CHOOSE i : Iter(i)
<1>1. size \in Nat /\ DOMAIN c = 1 .. size
    OBVIOUS
<1>2. OpenBehind(c, mark) = it[1 .. size]
    BY <1>1 DEF OpenBehind, FoldLeftDomain, FoldLeft, MapThenFoldSet
<1>3. {} \in V
    OBVIOUS
<1>4. \A x \in 1 .. size : \A v \in V : next(v, x) \in V
    OBVIOUS
<1> HIDE DEF size, V, next
<1>5. \A x \in 1 .. size : \A v \in V : step[x][v] \in V /\ step[x][v] = next(v, x)
    BY <1>4
<1> HIDE DEF step
<1>6. Steps(step, 1 .. size, V)
    BY <1>5 DEF Steps
<1>7. PICK g \in [SUBSET (1 .. size) -> V] : IsFoldLeft(g, size, {}, step)
    BY <1>1, <1>3, <1>6, FoldLeftExists
<1>8. \A s \in SUBSET (1 .. size) : s # {} => Max(s) \in 1 .. size
    BY <1>1, MaxExists
<1>9. Iter(g)
    <2>1. \A s \in SUBSET (1 .. size) : s # {} => g[s \ {Max(s)}] \in V
        BY <1>7
    <2> QED
        BY <1>5, <1>7, <1>8, <2>1 DEF IsFoldLeft
<1>10. Iter(it)
    <2> HIDE DEF Iter
    <2> QED
        BY <1>9
<1> HIDE DEF it
<1>11. Unrolls(it, size, V, {}, step)
    <2>1. it = [s \in SUBSET (1 .. size) |->
                  IF s = {} THEN {} ELSE next(it[s \ {Max(s)}], [j \in 1 .. size |-> j][Max(s)])]
        BY <1>10
    <2> HIDE DEF Iter
    <2>2. it[{}] = {}
        BY <2>1
    <2>3. ASSUME NEW s \in SUBSET (1 .. size), s # {}, it[s \ {Max(s)}] \in V
          PROVE  it[s] = step[Max(s)][it[s \ {Max(s)}]]
        <3>1. Max(s) \in 1 .. size
            BY <1>8, <2>3
        <3>2. it[s] = next(it[s \ {Max(s)}], Max(s))
            BY <2>1, <2>3, <3>1
        <3> QED
            BY <1>5, <2>3, <3>1, <3>2
    <2> QED
        BY <2>2, <2>3 DEF Unrolls
<1> HIDE DEF Iter
<1>12. RunsTo(it[1 .. size], size, V, {}, step)
    BY <1>1, <1>3, <1>6, <1>11, FoldLeftRuns
<1>13. PICK h \in [0 .. size -> V] : IsRun(h, size, {}, step) /\ h[size] = it[1 .. size]
    BY <1>12 DEF RunsTo
<1>14. \A k \in 1 .. size : h[k - 1] \in V /\ h[k] = next(h[k - 1], k)
    BY <1>1, <1>5, <1>13 DEF IsRun
<1>15. OpensUp(h, c, mark)
    BY <1>2, <1>13, <1>14 DEF OpensUp, IsRun, size, V, next
<1> QED
    BY <1>15 DEF OpensAreGathered

\* S holds the places of c behind which a string is open.
IsOpen(S, c, mark) ==
    /\ S \subseteq 1 .. Len(c)
    /\ \A i \in 1 .. Len(c) : i \in S <=> Opens(c, mark, S, i)

LEMMA OpenIs ==
    ASSUME NEW W, NEW c \in Seq(W), NEW mark
    PROVE  IsOpen(OpenBehind(c, mark), c, mark)
<1>1. OpensAreGathered(c, mark)
    BY OpensGather
<1>2. PICK h : OpensUp(h, c, mark)
    BY <1>1 DEF OpensAreGathered
<1> DEFINE size == Len(c)
           Good(k) == /\ h[k] \subseteq 1 .. k
                      /\ \A i \in 1 .. k : i \in h[k] <=> Opens(c, mark, h[k], i)
           T == {k \in 0 .. size : Good(k)}
<1>3. size \in Nat
    OBVIOUS
<1>4. 0 \in T
    BY <1>2, <1>3 DEF OpensUp
<1>5. ASSUME NEW k \in 0 .. size - 1, k \in T PROVE k + 1 \in T
    <2>1. k + 1 \in 1 .. size /\ (k + 1) - 1 = k /\ k \in Nat /\ k + 1 \in 0 .. size
        BY <1>3
    <2>2. h[k + 1] = IF Opens(c, mark, h[k], k + 1) THEN h[k] \cup {k + 1} ELSE h[k]
        BY <1>2, <2>1 DEF OpensUp
    <2>3. Good(k)
        BY <1>5
    <2>4. h[k + 1] \subseteq 1 .. k + 1 /\ \A i \in 0 .. k : i \in h[k + 1] <=> i \in h[k]
        BY <2>1, <2>2, <2>3
    <2>5. \A i \in 1 .. k + 1 : Opens(c, mark, h[k + 1], i) <=> Opens(c, mark, h[k], i)
        <3>1. \A i \in 1 .. k + 1 : i - 1 \in 0 .. k
            BY <2>1
        <3> QED
            BY <2>4, <3>1 DEF Opens
    <2>6. k + 1 \in h[k + 1] <=> Opens(c, mark, h[k], k + 1)
        <3>1. k + 1 \notin h[k]
            BY <2>1, <2>3
        <3> QED
            BY <2>2, <3>1
    <2>7. \A i \in 1 .. k + 1 : i \in h[k + 1] <=> Opens(c, mark, h[k + 1], i)
        <3> SUFFICES ASSUME NEW i \in 1 .. k + 1
                     PROVE  i \in h[k + 1] <=> Opens(c, mark, h[k + 1], i)
            OBVIOUS
        <3>1. CASE i = k + 1
            BY <2>5, <2>6, <3>1
        <3>2. CASE i # k + 1
            <4>1. i \in 1 .. k /\ i \in 0 .. k
                BY <2>1, <3>2
            <4> QED
                BY <2>3, <2>4, <2>5, <4>1
        <3> QED
            BY <3>1, <3>2
    <2> QED
        BY <2>1, <2>4, <2>7
<1> HIDE DEF T
<1>6. \A k \in 0 .. size : k \in T
    BY <1>3, <1>4, <1>5, InductTo
<1>7. Good(size)
    BY <1>3, <1>6 DEF T
<1> QED
    BY <1>2, <1>7 DEF OpensUp, IsOpen

\* A place of a string that is closed.
InString(S, c, i) == {i - 1, i} \cap S # {} /\ \E j \in 1 .. Len(c) : i <= j /\ j \notin S

LEMMA BlankedAt ==
    ASSUME NEW W, NEW c \in Seq(W), NEW mark
    PROVE  /\ Len(Blanked(c, mark)) = Len(c) /\ DOMAIN Blanked(c, mark) = 1 .. Len(c)
           /\ \A i \in 1 .. Len(c) :
                Blanked(c, mark)[i] = IF InString(OpenBehind(c, mark), c, i)
                                      THEN [c[i] EXCEPT !.kind = "quoted"] ELSE c[i]
<1> DEFINE size == Len(c)
           new == Blanked(c, mark)
           S == OpenBehind(c, mark)
<1>1. size \in Nat /\ DOMAIN c = 1 .. size
    OBVIOUS
<1>2. new = [i \in 1 .. size |-> IF InString(S, c, i) THEN [c[i] EXCEPT !.kind = "quoted"] ELSE c[i]]
    BY <1>1 DEF Blanked, InString
<1> HIDE DEF new, S, size
<1>3. DOMAIN new = 1 .. size /\ new \in [1 .. size -> {new[i] : i \in 1 .. size}]
    BY <1>2
<1>4. Len(new) = size
    BY <1>1, <1>3
<1> QED
    BY <1>2, <1>3, <1>4 DEF new, S, size

\* No lexeme of s is of the kind.
Without(s, kind) == \A i \in 1 .. Len(s) : s[i].kind # kind

\* All are of it, and the first one is or is not.
AllOf(s, kind) == \A i \in 1 .. Len(s) : s[i].kind = kind
Begins(s, kind) == Len(s) > 0 => s[1].kind = kind
NotFirst(s, kind) == Len(s) > 0 => s[1].kind # kind

\* The state of the scan stays as it is over lexemes that are no marks.
LEMMA OpenStays ==
    ASSUME NEW W, NEW a \in Seq(W), NEW q \in Seq(W), NEW b \in Seq(W), NEW x, NEW mark,
           Chain(x, a, q, b), Without(q, mark), NEW S, IsOpen(S, x, mark)
    PROVE  \A k \in 0 .. Len(q) : Len(a) + k \in S <=> Len(a) \in S
<1> DEFINE la == Len(a)
           lq == Len(q)
           T == {k \in 0 .. lq : la + k \in S <=> la \in S}
<1>1. la \in Nat /\ lq \in Nat /\ Len(b) \in Nat
    OBVIOUS
<1>2. Len(x) = la + lq + Len(b) /\ \A i \in 1 .. lq : x[la + i].kind # mark
    BY DEF Chain, Without
<1> HIDE DEF la, lq
<1>3. 0 \in T
    BY <1>1
<1>4. ASSUME NEW k \in 0 .. lq - 1, k \in T PROVE k + 1 \in T
    <2>1. k + 1 \in 1 .. lq /\ la + (k + 1) \in 1 .. Len(x) /\ (la + (k + 1)) - 1 = la + k
        BY <1>1, <1>2
    <2>2. la + (k + 1) \in S <=> la + k \in S
        BY <1>2, <2>1 DEF IsOpen, Opens
    <2> QED
        BY <1>1, <1>4, <2>1, <2>2
<1> HIDE DEF T
<1>5. \A k \in 0 .. lq : k \in T
    BY <1>1, <1>3, <1>4, InductTo
<1> QED
    BY <1>5 DEF T, la, lq

LEMMA OpensAgree ==
    ASSUME NEW W, NEW a \in Seq(W), NEW u \in Seq(W), NEW v \in Seq(W), NEW b \in Seq(W),
           NEW x, NEW y, Chain(x, a, u, b), Chain(y, a, v, b),
           NEW mark, NEW S, IsOpen(S, x, mark), NEW T, IsOpen(T, y, mark)
    PROVE  \A k \in 0 .. Len(a) : k \in S <=> k \in T
<1> DEFINE la == Len(a)
           I == {k \in 0 .. la : k \in S <=> k \in T}
<1>1. la \in Nat /\ Len(u) \in Nat /\ Len(v) \in Nat /\ Len(b) \in Nat
    OBVIOUS
<1>2. /\ Len(x) = la + Len(u) + Len(b) /\ Len(y) = la + Len(v) + Len(b)
      /\ \A i \in 1 .. la : x[i] = a[i] /\ y[i] = a[i]
    BY DEF Chain
<1> HIDE DEF la
<1>3. 0 \in I
    <2>1. 0 \notin S /\ 0 \notin T
        BY DEF IsOpen
    <2> QED
        BY <1>1, <2>1
<1>4. ASSUME NEW k \in 0 .. la - 1, k \in I PROVE k + 1 \in I
    <2>1. k + 1 \in 1 .. la /\ k + 1 \in 1 .. Len(x) /\ k + 1 \in 1 .. Len(y) /\ (k + 1) - 1 = k
        BY <1>1, <1>2
    <2>2. k + 1 \in S <=> Opens(x, mark, S, k + 1)
        BY <2>1 DEF IsOpen
    <2>3. k + 1 \in T <=> Opens(y, mark, T, k + 1)
        BY <2>1 DEF IsOpen
    <2>4. x[k + 1] = y[k + 1] /\ (k + 1 > 1 => x[k] = y[k])
        <3>1. k + 1 > 1 => k \in 1 .. la
            BY <1>1
        <3> QED
            BY <1>2, <2>1, <3>1
    <2>5. Opens(x, mark, S, k + 1) <=> Opens(y, mark, T, k + 1)
        <3>1. k \in S <=> k \in T
            BY <1>4
        <3>2. Escaped(x, k + 1) <=> Escaped(y, k + 1)
            BY <2>1, <2>4 DEF Escaped
        <3> QED
            BY <2>1, <2>4, <3>1, <3>2 DEF Opens
    <2> QED
        BY <1>1, <2>1, <2>2, <2>3, <2>5
<1> HIDE DEF I
<1>5. \A k \in 0 .. la : k \in I
    BY <1>1, <1>3, <1>4, InductTo
<1> QED
    BY <1>5 DEF I, la

\* Behind them too, if the first one there is no mark that might be escaped.
LEMMA OpensAgreeBehind ==
    ASSUME NEW W, NEW a \in Seq(W), NEW u \in Seq(W), NEW v \in Seq(W), NEW b \in Seq(W),
           NEW x, NEW y, Chain(x, a, u, b), Chain(y, a, v, b),
           NEW mark, NEW S, IsOpen(S, x, mark), NEW T, IsOpen(T, y, mark),
           NotFirst(b, mark),
           Len(a) + Len(u) \in S <=> Len(a) + Len(v) \in T
    PROVE  \A k \in 0 .. Len(b) : Len(a) + Len(u) + k \in S <=> Len(a) + Len(v) + k \in T
<1> DEFINE l == Len(a) + Len(u)
           m == Len(a) + Len(v)
           lb == Len(b)
           I == {k \in 0 .. lb : l + k \in S <=> m + k \in T}
<1>1. l \in Nat /\ m \in Nat /\ lb \in Nat
    OBVIOUS
<1>2. /\ Len(x) = l + lb /\ Len(y) = m + lb
      /\ \A i \in 1 .. lb : x[l + i] = b[i] /\ y[m + i] = b[i]
    BY DEF Chain
<1>7. lb > 0 => b[1].kind # mark
    BY DEF NotFirst
<1>8. l \in S <=> m \in T
    OBVIOUS
<1> HIDE DEF l, m, lb
<1>3. 0 \in I
    BY <1>1, <1>8
<1>4. ASSUME NEW k \in 0 .. lb - 1, k \in I PROVE k + 1 \in I
    <2>1. /\ k + 1 \in 1 .. lb /\ l + (k + 1) \in 1 .. Len(x) /\ m + (k + 1) \in 1 .. Len(y)
          /\ (l + (k + 1)) - 1 = l + k /\ (m + (k + 1)) - 1 = m + k
        BY <1>1, <1>2
    <2>2. l + (k + 1) \in S <=> Opens(x, mark, S, l + (k + 1))
        BY <2>1 DEF IsOpen
    <2>3. m + (k + 1) \in T <=> Opens(y, mark, T, m + (k + 1))
        BY <2>1 DEF IsOpen
    <2>4. x[l + (k + 1)] = b[k + 1] /\ y[m + (k + 1)] = b[k + 1]
        BY <1>2, <2>1
    <2>5. l + k \in S <=> m + k \in T
        BY <1>4
    <2>6. CASE k = 0
        <3>1. b[k + 1].kind # mark
            BY <1>1, <1>7, <2>1, <2>6
        <3> QED
            BY <1>1, <2>1, <2>2, <2>3, <2>4, <2>5, <3>1 DEF Opens
    <2>7. CASE k # 0
        <3>1. k \in 1 .. lb /\ l + (k + 1) > 1 /\ m + (k + 1) > 1
            BY <1>1, <2>7
        <3>2. x[l + k] = b[k] /\ y[m + k] = b[k]
            BY <1>2, <3>1
        <3>3. Escaped(x, l + (k + 1)) <=> Escaped(y, m + (k + 1))
            BY <2>1, <3>1, <3>2 DEF Escaped
        <3> QED
            BY <1>1, <2>1, <2>2, <2>3, <2>4, <2>5, <3>3 DEF Opens
    <2> QED
        BY <2>6, <2>7
<1> HIDE DEF I
<1>5. \A k \in 0 .. lb : k \in I
    BY <1>1, <1>3, <1>4, InductTo
<1> QED
    BY <1>5 DEF I, l, m, lb

\* What is blanked stays so when other words take the place of words that are
\* not blanked, before an operator that is not or at the end.
LEMMA BlanksStay ==
    ASSUME NEW W, NEW a \in Seq(W), NEW u \in Seq(W), NEW v \in Seq(W), NEW b \in Seq(W),
           NEW x \in Seq(W), NEW y \in Seq(W), Chain(x, a, u, b), Chain(y, a, v, b),
           NEW mark, Without(u, mark), Without(v, mark), NotFirst(b, mark),
           NEW c, NEW d, Chain(Blanked(x, mark), c, u, d), Len(c) = Len(a), Len(d) = Len(b),
           Without(u, "quoted"), NotFirst(d, "quoted")
    PROVE  Chain(Blanked(y, mark), c, v, d)
<1> DEFINE S == OpenBehind(x, mark)
           T == OpenBehind(y, mark)
           la == Len(a)
           lu == Len(u)
           lv == Len(v)
           lb == Len(b)
           z == Blanked(x, mark)
           new == Blanked(y, mark)
<1>1. la \in Nat /\ lu \in Nat /\ lv \in Nat /\ lb \in Nat
    OBVIOUS
<1>2. IsOpen(S, x, mark) /\ IsOpen(T, y, mark)
    BY OpenIs
<1>3. /\ Len(z) = Len(x) /\ Len(new) = Len(y)
      /\ \A i \in 1 .. Len(x) :
            z[i] = IF InString(S, x, i) THEN [x[i] EXCEPT !.kind = "quoted"] ELSE x[i]
      /\ \A i \in 1 .. Len(y) :
            new[i] = IF InString(T, y, i) THEN [y[i] EXCEPT !.kind = "quoted"] ELSE y[i]
    BY BlankedAt
<1>4. /\ Len(x) = la + lu + lb /\ Len(y) = la + lv + lb
      /\ \A i \in 1 .. la : x[i] = a[i] /\ y[i] = a[i] /\ z[i] = c[i]
      /\ \A i \in 1 .. lu : x[la + i] = u[i] /\ z[la + i] = u[i]
      /\ \A i \in 1 .. lv : y[la + i] = v[i]
      /\ \A i \in 1 .. lb : x[la + lu + i] = b[i] /\ y[la + lv + i] = b[i] /\ z[la + lu + i] = d[i]
    BY DEF Chain
<1>5. Len(c) = la /\ Len(d) = lb /\ (lb > 0 => d[1].kind # "quoted")
      /\ \A i \in 1 .. lu : u[i].kind # "quoted"
    BY DEF Without, NotFirst
<1>6. \A k \in 0 .. la : k \in S <=> k \in T
    <2> HIDE DEF S, T
    <2> QED
        BY <1>2, OpensAgree
<1>7. \A k \in 0 .. lu : la + k \in S <=> la \in S
    <2> HIDE DEF S
    <2> QED
        BY <1>2, OpenStays
<1>8. \A k \in 0 .. lv : la + k \in T <=> la \in T
    <2> HIDE DEF T
    <2> QED
        BY <1>2, OpenStays
<1>9. \A k \in 0 .. lb : la + lu + k \in S <=> la + lv + k \in T
    <2>1. la + lu \in S <=> la + lv \in T
        <3>1. lu \in 0 .. lu /\ lv \in 0 .. lv /\ la \in 0 .. la
            BY <1>1
        <3> QED
            BY <1>6, <1>7, <1>8, <3>1
    <2> HIDE DEF S, T
    <2> QED
        BY <1>2, <2>1, OpensAgreeBehind
<1>10. \A i \in 1 .. Len(x) : z[i].kind # "quoted" => ~ InString(S, x, i)
    <2>1. \A w : ([w EXCEPT !.kind = "quoted"]).kind = "quoted"
        OBVIOUS
    <2> QED
        BY <1>3, <2>1
<1> HIDE DEF S, T, la, lu, lv, lb, z, new
\* No string is open between a and b, but for one that is not closed.
<1>11. ASSUME la \in S, NEW j \in 1 .. Len(x), la <= j PROVE j \in S
    <2> SUFFICES ASSUME j \notin S PROVE FALSE
        OBVIOUS
    <2>1. la < j /\ la + 1 \in 1 .. Len(x) /\ la + 1 <= j /\ (la + 1) - 1 = la
        BY <1>1, <1>4, <1>11
    <2>2. InString(S, x, la + 1)
        BY <1>11, <2>1 DEF InString
    <2>3. z[la + 1].kind # "quoted"
        <3>1. CASE lu > 0
            <4>1. 1 \in 1 .. lu
                BY <1>1, <3>1
            <4> QED
                BY <1>4, <1>5, <4>1
        <3>2. CASE lu = 0
            <4>1. lb > 0 /\ 1 \in 1 .. lb /\ la + lu + 1 = la + 1
                BY <1>1, <1>4, <2>1, <3>2
            <4> QED
                BY <1>4, <1>5, <4>1
        <3> QED
            BY <1>1, <3>1, <3>2
    <2> QED
        BY <1>10, <2>1, <2>2, <2>3
<1>12. ASSUME la \in T, NEW j \in 1 .. Len(y), la <= j PROVE j \in T
    <2>1. la \in S
        BY <1>1, <1>6, <1>12
    <2>2. CASE j <= la + lv
        <3>1. j - la \in 0 .. lv /\ la + (j - la) = j
            BY <1>1, <1>12, <2>2
        <3> QED
            BY <1>8, <1>12, <3>1
    <2>3. CASE j > la + lv
        <3> DEFINE k == j - (la + lv)
        <3>1. k \in 0 .. lb /\ la + lv + k = j /\ la + lu + k \in 1 .. Len(x) /\ la <= la + lu + k
            BY <1>1, <1>4, <2>3
        <3> QED
            BY <1>9, <1>11, <2>1, <3>1
    <2> QED
        BY <1>1, <1>4, <2>2, <2>3
<1>13. ASSUME NEW i \in 1 .. la PROVE InString(S, x, i) <=> InString(T, y, i)
    <2>1. i - 1 \in 0 .. la /\ i \in 0 .. la /\ la \in 0 .. la /\ i <= la /\ i \in Nat
          /\ la \in 1 .. Len(x) /\ la \in 1 .. Len(y)
        BY <1>1, <1>4, <1>13
    <2>2. {i - 1, i} \cap S # {} <=> {i - 1, i} \cap T # {}
        BY <1>6, <2>1
    <2>3. (\E j \in 1 .. Len(x) : i <= j /\ j \notin S) <=> \E j \in i .. la : j \notin S
        <3>1. ASSUME NEW j \in 1 .. Len(x), i <= j, j \notin S PROVE \E k \in i .. la : k \notin S
            <4>1. CASE j <= la
                BY <1>1, <2>1, <3>1, <4>1
            <4>2. CASE j > la
                <5>1. la \notin S /\ la \in i .. la
                    BY <1>1, <1>11, <2>1, <3>1, <4>2
                <5> QED
                    BY <5>1
            <4> QED
                BY <1>1, <1>4, <4>1, <4>2
        <3>2. \A j \in i .. la : j \in 1 .. Len(x) /\ i <= j
            BY <1>1, <1>4, <2>1
        <3> QED
            BY <3>1, <3>2
    <2>4. (\E j \in 1 .. Len(y) : i <= j /\ j \notin T) <=> \E j \in i .. la : j \notin T
        <3>1. ASSUME NEW j \in 1 .. Len(y), i <= j, j \notin T PROVE \E k \in i .. la : k \notin T
            <4>1. CASE j <= la
                BY <1>1, <2>1, <3>1, <4>1
            <4>2. CASE j > la
                <5>1. la \notin T /\ la \in i .. la
                    BY <1>1, <1>12, <2>1, <3>1, <4>2
                <5> QED
                    BY <5>1
            <4> QED
                BY <1>1, <1>4, <4>1, <4>2
        <3>2. \A j \in i .. la : j \in 1 .. Len(y) /\ i <= j
            BY <1>1, <1>4, <2>1
        <3> QED
            BY <3>1, <3>2
    <2>5. (\E j \in i .. la : j \notin S) <=> \E j \in i .. la : j \notin T
        <3>1. \A j \in i .. la : j \in 0 .. la
            BY <1>1, <2>1
        <3> QED
            BY <1>6, <3>1
    <2> QED
        BY <2>2, <2>3, <2>4, <2>5 DEF InString
<1>14. ASSUME NEW i \in 1 .. lv PROVE ~ InString(T, y, la + i)
    <2>1. /\ i \in 0 .. lv /\ i - 1 \in 0 .. lv /\ (la + i) - 1 = la + (i - 1) /\ la <= la + i
          /\ i \in Nat
        BY <1>1, <1>14
    <2>2. CASE la \notin T
        BY <1>8, <2>1, <2>2 DEF InString
    <2>3. CASE la \in T
        <3>1. \A j \in 1 .. Len(y) : la + i <= j => la <= j
            BY <1>1, <1>4, <2>1
        <3> QED
            BY <1>12, <2>3, <3>1 DEF InString
    <2> QED
        BY <2>2, <2>3
<1>15. ASSUME NEW i \in 1 .. lb
       PROVE  InString(S, x, la + lu + i) <=> InString(T, y, la + lv + i)
    <2>1. /\ i \in 0 .. lb /\ i - 1 \in 0 .. lb /\ i \in 1 .. lb
          /\ (la + lu + i) - 1 = la + lu + (i - 1)
          /\ (la + lv + i) - 1 = la + lv + (i - 1)
        <3>1. i \in 1 .. lb /\ i \in Int
            BY <1>15
        <3>2. i \in 0 .. lb /\ i - 1 \in 0 .. lb
            BY <1>1, <3>1
        <3>3. (la + lu + i) - 1 = la + lu + (i - 1)
            BY <1>1, <3>1
        <3>4. (la + lv + i) - 1 = la + lv + (i - 1)
            BY <1>1, <3>1
        <3> QED
            BY <3>1, <3>2, <3>3, <3>4
    <2>2. {(la + lu + i) - 1, la + lu + i} \cap S # {} <=> {(la + lv + i) - 1, la + lv + i} \cap T # {}
        BY <1>9, <2>1
    <2>3. (\E j \in 1 .. Len(x) : la + lu + i <= j /\ j \notin S)
              <=> \E k \in i .. lb : la + lu + k \notin S
        <3>3. Len(x) = la + lu + lb
            BY <1>4
        <3>1. \A k \in i .. lb : la + lu + k \in 1 .. Len(x) /\ la + lu + i <= la + lu + k
            BY <1>1, <2>1, <3>3
        <3>2. \A j \in 1 .. Len(x) : la + lu + i <= j =>
                j - (la + lu) \in i .. lb /\ la + lu + (j - (la + lu)) = j
            BY <1>1, <2>1, <3>3
        <3> QED
            BY <3>1, <3>2
    <2>4. (\E j \in 1 .. Len(y) : la + lv + i <= j /\ j \notin T)
              <=> \E k \in i .. lb : la + lv + k \notin T
        <3>3. Len(y) = la + lv + lb
            BY <1>4
        <3>1. \A k \in i .. lb : la + lv + k \in 1 .. Len(y) /\ la + lv + i <= la + lv + k
            BY <1>1, <2>1, <3>3
        <3>2. \A j \in 1 .. Len(y) : la + lv + i <= j =>
                j - (la + lv) \in i .. lb /\ la + lv + (j - (la + lv)) = j
            BY <1>1, <2>1, <3>3
        <3> QED
            BY <3>1, <3>2
    <2>5. \A k \in i .. lb : k \in 0 .. lb
        BY <1>1, <2>1
    <2> QED
        BY <1>9, <2>2, <2>3, <2>4, <2>5 DEF InString
<1>16. /\ \A i \in 1 .. la : i \in 1 .. Len(x) /\ i \in 1 .. Len(y)
       /\ \A i \in 1 .. lv : la + i \in 1 .. Len(y)
       /\ \A i \in 1 .. lb : la + lu + i \in 1 .. Len(x) /\ la + lv + i \in 1 .. Len(y)
    BY <1>1, <1>4
<1>17. ASSUME NEW i \in 1 .. la PROVE new[i] = c[i]
    <2>1. x[i] = y[i] /\ z[i] = c[i] /\ i \in 1 .. Len(x) /\ i \in 1 .. Len(y)
        BY <1>4, <1>16
    <2>2. InString(S, x, i) <=> InString(T, y, i)
        BY <1>13
    <2>3. z[i] = IF InString(S, x, i) THEN [x[i] EXCEPT !.kind = "quoted"] ELSE x[i]
        BY <1>3, <2>1
    <2>4. new[i] = IF InString(T, y, i) THEN [y[i] EXCEPT !.kind = "quoted"] ELSE y[i]
        BY <1>3, <2>1
    <2> QED
        BY <2>1, <2>2, <2>3, <2>4, Zenon
<1>18. \A i \in 1 .. lv : new[la + i] = v[i]
    BY <1>3, <1>4, <1>14, <1>16
<1>19. ASSUME NEW i \in 1 .. lb PROVE new[la + lv + i] = d[i]
    <2> DEFINE p == la + lu + i
               q == la + lv + i
    <2>1. x[p] = y[q] /\ z[p] = d[i] /\ p \in 1 .. Len(x) /\ q \in 1 .. Len(y)
        BY <1>4, <1>16
    <2>2. InString(S, x, p) <=> InString(T, y, q)
        BY <1>15
    <2> HIDE DEF p, q
    <2>3. z[p] = IF InString(S, x, p) THEN [x[p] EXCEPT !.kind = "quoted"] ELSE x[p]
        BY <1>3, <2>1
    <2>4. new[q] = IF InString(T, y, q) THEN [y[q] EXCEPT !.kind = "quoted"] ELSE y[q]
        BY <1>3, <2>1
    <2>5. new[q] = d[i]
        BY <2>1, <2>2, <2>3, <2>4, Zenon
    <2> QED
        BY <2>5 DEF q
<1>20. Len(new) = Len(c) + Len(v) + Len(d)
    BY <1>3, <1>4, <1>5 DEF lv
<1> QED
    BY <1>5, <1>17, <1>18, <1>19, <1>20 DEF Chain, lv, la, lb, new

\* What is before and behind some words of a sequence.
LEMMA CutAround ==
    ASSUME NEW V, NEW x \in Seq(V), NEW U, NEW q \in Seq(U), NEW la \in Nat, NEW lb \in Nat,
           Len(x) = la + Len(q) + lb, \A i \in 1 .. Len(q) : x[la + i] = q[i]
    PROVE  /\ SubSeq(x, 1, la) \in Seq(V) /\ SubSeq(x, la + Len(q) + 1, Len(x)) \in Seq(V)
           /\ Len(SubSeq(x, 1, la)) = la /\ Len(SubSeq(x, la + Len(q) + 1, Len(x))) = lb
           /\ Chain(x, SubSeq(x, 1, la), q, SubSeq(x, la + Len(q) + 1, Len(x)))
<1> DEFINE lq == Len(q)
           lx == Len(x)
           from == la + lq + 1
           a == SubSeq(x, 1, la)
           b == SubSeq(x, from, lx)
<1>1. lq \in Nat /\ lx \in Nat /\ lx = la + lq + lb /\ \A i \in 1 .. lq : x[la + i] = q[i]
    OBVIOUS
<1> HIDE DEF lq
<1>2. from \in Nat /\ from >= 1 /\ lx - from + 1 = lb /\ la <= lx
    BY <1>1
<1>3. x \in [1 .. lx -> V]
    OBVIOUS
<1> HIDE DEF lx, from
<1>4. a \in Seq(V) /\ Len(a) = la /\ \A i \in 1 .. la : a[i] = x[i]
    <2>1. a \in Seq(V) /\ Len(a) = la - 1 + 1 /\ \A i \in 1 .. la : a[i] = x[1 + i - 1]
        BY <1>1, <1>2, <1>3
    <2> HIDE DEF a
    <2>2. \A i \in 1 .. la : 1 + i - 1 = i
        OBVIOUS
    <2> QED
        BY <2>1, <2>2
<1>5. b \in Seq(V) /\ Len(b) = lb /\ \A i \in 1 .. lb : b[i] = x[from + i - 1]
    BY <1>1, <1>2, <1>3
<1> HIDE DEF a, b
<1>6. \A i \in 1 .. lb : from + i - 1 = la + lq + i
    BY <1>1 DEF from
<1>7. Chain(x, a, q, b)
    BY <1>1, <1>4, <1>5, <1>6 DEF Chain, lq, lx
<1> QED
    BY <1>4, <1>5, <1>7 DEF a, b, from, lx, lq

\* A sequence of some elements.
IsSeq(s) == s \in Seq({s[i] : i \in 1 .. Len(s)}) /\ Len(s) \in Nat

LEMMA RawAt ==
    ASSUME NEW W, NEW c \in Seq(W)
    PROVE  /\ Len(Raw(c)) = Len(c) /\ IsSeq(Raw(c))
           /\ \A i \in 1 .. Len(c) : Raw(c)[i] = [c[i] EXCEPT !.kind = c[i].is]
<1> DEFINE size == Len(c)
           new == Raw(c)
           V == {new[i] : i \in 1 .. size}
<1>1. size \in Nat /\ DOMAIN c = 1 .. size
    OBVIOUS
<1>2. new = [i \in 1 .. size |-> [c[i] EXCEPT !.kind = c[i].is]]
    BY <1>1 DEF Raw
<1> HIDE DEF new, size
<1>3. new \in [1 .. size -> V]
    BY <1>2
<1> HIDE DEF V
<1>4. new \in Seq(V) /\ Len(new) = size
    BY <1>1, <1>3
<1>5. IsSeq(new)
    BY <1>1, <1>4 DEF V, IsSeq
<1> QED
    BY <1>2, <1>4, <1>5 DEF size, new

LEMMA BlankedIsSeq ==
    ASSUME NEW W, NEW c \in Seq(W), NEW mark
    PROVE  IsSeq(Blanked(c, mark)) /\ Len(Blanked(c, mark)) = Len(c)
<1> DEFINE size == Len(c)
           new == Blanked(c, mark)
           V == {new[i] : i \in 1 .. size}
<1>1. size \in Nat /\ DOMAIN new = 1 .. size
    BY BlankedAt
<1>2. new = [i \in DOMAIN new |-> new[i]]
    BY DEF Blanked
<1> HIDE DEF new, size
<1>3. new \in [1 .. size -> V]
    BY <1>1, <1>2
<1> HIDE DEF V
<1>4. new \in Seq(V) /\ Len(new) = size
    BY <1>1, <1>3
<1>5. IsSeq(new)
    BY <1>1, <1>4 DEF V, IsSeq
<1> QED
    BY <1>4, <1>5 DEF size, new

\* Where the scan leaves a kind other than a blank, it leaves the lexeme.
LEMMA NotBlanked ==
    ASSUME NEW c, IsSeq(c), NEW mark
    PROVE  \A i \in 1 .. Len(c) :
                Blanked(c, mark)[i].kind # "quoted" => Blanked(c, mark)[i] = c[i]
<1> DEFINE W == {c[i] : i \in 1 .. Len(c)}
<1>5. c \in Seq(W)
    BY DEF IsSeq
<1> HIDE DEF W
<1> SUFFICES ASSUME NEW i \in 1 .. Len(c), Blanked(c, mark)[i].kind # "quoted"
             PROVE  Blanked(c, mark)[i] = c[i]
    OBVIOUS
<1>1. \A w : ([w EXCEPT !.kind = "quoted"]).kind = "quoted"
    OBVIOUS
<1>2. Blanked(c, mark)[i] = IF InString(OpenBehind(c, mark), c, i)
                            THEN [c[i] EXCEPT !.kind = "quoted"] ELSE c[i]
    BY <1>5, BlankedAt
<1>3. CASE InString(OpenBehind(c, mark), c, i)
    BY <1>1, <1>2, <1>3
<1>4. CASE ~ InString(OpenBehind(c, mark), c, i)
    BY <1>2, <1>4
<1> QED
    BY <1>3, <1>4

LEMMA LenIsNat ==
    ASSUME NEW W, NEW s \in Seq(W)
    PROVE  Len(s) \in Nat
OBVIOUS

LEMMA SeqOfMore ==
    ASSUME NEW V, NEW W, V \subseteq W, NEW s \in Seq(V)
    PROVE  s \in Seq(W)
<1>1. Len(s) \in Nat /\ s \in [1 .. Len(s) -> V]
    OBVIOUS
<1>2. \A k \in Nat : [1 .. k -> V] \subseteq [1 .. k -> W]
    OBVIOUS
<1>3. s \in [1 .. Len(s) -> W]
    BY <1>1, <1>2
<1> QED
    BY <1>1, <1>3

\* Two sequences that agree on their first la and on their last lb elements,
\* and have u and v between them.
Swapped(x, y, u, v, la, lb) ==
    /\ Len(x) = la + Len(u) + lb /\ Len(y) = la + Len(v) + lb
    /\ \A i \in 1 .. la : x[i] = y[i]
    /\ \A i \in 1 .. Len(u) : x[la + i] = u[i]
    /\ \A i \in 1 .. Len(v) : y[la + i] = v[i]
    /\ \A i \in 1 .. lb : x[la + Len(u) + i] = y[la + Len(v) + i]

\* The scan leaves u where it is, and an operator or the end behind it.
Kept(x, u, la, lb, mark) ==
    /\ \A i \in 1 .. Len(u) : Blanked(x, mark)[la + i] = u[i]
    /\ lb > 0 => /\ x[la + Len(u) + 1].kind # mark
                 /\ Blanked(x, mark)[la + Len(u) + 1].kind # "quoted"

LEMMA BlanksFollow ==
    ASSUME NEW W, NEW u \in Seq(W), NEW v \in Seq(W), NEW la \in Nat, NEW lb \in Nat,
           NEW x, IsSeq(x), NEW y, IsSeq(y), NEW mark,
           Swapped(x, y, u, v, la, lb), Kept(x, u, la, lb, mark),
           Without(u, mark), Without(v, mark), Without(u, "quoted")
    PROVE  Swapped(Blanked(x, mark), Blanked(y, mark), u, v, la, lb)
<1> DEFINE X == {x[i] : i \in 1 .. Len(x)}
           Y == {y[i] : i \in 1 .. Len(y)}
           z == Blanked(x, mark)
           Z == {z[i] : i \in 1 .. Len(z)}
           V == X \cup Y \cup Z \cup W
           lu == Len(u)
           lv == Len(v)
           a == SubSeq(x, 1, la)
           b == SubSeq(x, la + lu + 1, Len(x))
           c == SubSeq(z, 1, la)
           d == SubSeq(z, la + lu + 1, Len(z))
<1>1. x \in Seq(X) /\ y \in Seq(Y) /\ X \subseteq V /\ Y \subseteq V /\ W \subseteq V /\ Z \subseteq V
    BY DEF IsSeq
<1> HIDE DEF X, Y, V
<1>2. z \in Seq(Z) /\ Len(z) = Len(x)
    <2>1. IsSeq(z) /\ Len(z) = Len(x)
        BY <1>1, BlankedIsSeq, Zenon
    <2> HIDE DEF z
    <2> QED
        BY <2>1 DEF IsSeq
<1> HIDE DEF Z
<1>3. x \in Seq(V) /\ y \in Seq(V) /\ u \in Seq(V) /\ v \in Seq(V) /\ z \in Seq(V)
    BY <1>1, <1>2, SeqOfMore
<1>4. /\ \A i \in 1 .. la : x[i] = y[i]
      /\ \A i \in 1 .. lu : x[la + i] = u[i] /\ z[la + i] = u[i]
      /\ \A i \in 1 .. lv : y[la + i] = v[i]
      /\ \A i \in 1 .. lb : x[la + lu + i] = y[la + lv + i]
      /\ Len(x) = la + lu + lb /\ Len(y) = la + lv + lb
      /\ (lb > 0 => x[la + lu + 1].kind # mark /\ z[la + lu + 1].kind # "quoted")
    BY DEF Swapped, Kept
<1>5. lu \in Nat /\ lv \in Nat
    OBVIOUS
<1> HIDE DEF z
<1>6. /\ a \in Seq(V) /\ b \in Seq(V) /\ Len(a) = la /\ Len(b) = lb /\ Chain(x, a, u, b)
    <2>1. x \in Seq(V) /\ u \in Seq(V) /\ la \in Nat /\ lb \in Nat
        BY <1>3
    <2>2. Len(x) = la + Len(u) + lb /\ \A i \in 1 .. Len(u) : x[la + i] = u[i]
        BY <1>4
    <2>3. /\ SubSeq(x, 1, la) \in Seq(V) /\ SubSeq(x, la + Len(u) + 1, Len(x)) \in Seq(V)
          /\ Len(SubSeq(x, 1, la)) = la /\ Len(SubSeq(x, la + Len(u) + 1, Len(x))) = lb
          /\ Chain(x, SubSeq(x, 1, la), u, SubSeq(x, la + Len(u) + 1, Len(x)))
        BY <2>1, <2>2, CutAround, Zenon
    <2> QED
        BY <2>3, Zenon DEF lu, a, b
<1>7. /\ c \in Seq(V) /\ d \in Seq(V) /\ Len(c) = la /\ Len(d) = lb /\ Chain(z, c, u, d)
    <2>1. z \in Seq(V) /\ u \in Seq(V) /\ la \in Nat /\ lb \in Nat
        BY <1>3
    <2>2. Len(z) = la + Len(u) + lb /\ \A i \in 1 .. Len(u) : z[la + i] = u[i]
        BY <1>2, <1>4
    <2>3. /\ SubSeq(z, 1, la) \in Seq(V) /\ SubSeq(z, la + Len(u) + 1, Len(z)) \in Seq(V)
          /\ Len(SubSeq(z, 1, la)) = la /\ Len(SubSeq(z, la + Len(u) + 1, Len(z))) = lb
          /\ Chain(z, SubSeq(z, 1, la), u, SubSeq(z, la + Len(u) + 1, Len(z)))
        BY <2>1, <2>2, CutAround, Zenon
    <2> QED
        BY <2>3, Zenon DEF lu, c, d
<1> HIDE DEF a, b, c, d, lu, lv
<1>8. Chain(y, a, v, b)
    <2>1. \A i \in 1 .. la : a[i] = y[i]
        BY <1>4, <1>6 DEF Chain
    <2>2. \A i \in 1 .. lb : b[i] = y[la + lv + i]
        BY <1>4, <1>6 DEF Chain, lu
    <2> QED
        BY <1>4, <1>6, <2>1, <2>2 DEF Chain, lv
<1>9. NotFirst(b, mark) /\ NotFirst(d, "quoted")
    <2> SUFFICES ASSUME lb > 0 PROVE b[1].kind # mark /\ d[1].kind # "quoted"
        BY <1>6, <1>7 DEF NotFirst
    <2>1. 1 \in 1 .. lb
        OBVIOUS
    <2>2. x[la + lu + 1] = b[1] /\ z[la + lu + 1] = d[1]
        BY <1>6, <1>7, <2>1 DEF Chain, lu
    <2> QED
        BY <1>4, <2>2
<1>10. Chain(Blanked(x, mark), c, u, d) /\ Len(c) = Len(a) /\ Len(d) = Len(b)
    BY <1>6, <1>7 DEF z
<1>11. Chain(Blanked(y, mark), c, v, d)
    <2>1. /\ a \in Seq(V) /\ u \in Seq(V) /\ v \in Seq(V) /\ b \in Seq(V)
          /\ x \in Seq(V) /\ y \in Seq(V) /\ Chain(x, a, u, b) /\ Chain(y, a, v, b)
          /\ Without(u, mark) /\ Without(v, mark) /\ Without(u, "quoted")
        BY <1>3, <1>6, <1>8, Zenon
    <2> QED
        BY <2>1, <1>9, <1>10, BlanksStay
<1>12. ASSUME NEW i \in 1 .. la PROVE Blanked(y, mark)[i] = z[i]
    BY <1>7, <1>11 DEF Chain
<1>13. ASSUME NEW i \in 1 .. lv PROVE Blanked(y, mark)[la + i] = v[i]
    BY <1>7, <1>11 DEF Chain, lv
<1>14. ASSUME NEW i \in 1 .. lb PROVE Blanked(y, mark)[la + lv + i] = z[la + lu + i]
    BY <1>7, <1>11 DEF Chain, lv, lu
<1>15. Len(z) = la + lu + lb /\ Len(Blanked(y, mark)) = la + lv + lb
    BY <1>1, <1>2, <1>4, BlankedIsSeq
<1> QED
    BY <1>4, <1>12, <1>13, <1>14, <1>15 DEF Swapped, z, lv, lu

\* A command that is scanned stays so when a word takes the place of the line
\* ends before one of its operators, or at its end.
LineEnds(s) == AllOf(s, "line end")
IsScanned(s) == Scanned(s) = s
IsRaw(s) == Raw(s) = s

LEMMA ScanStays ==
    ASSUME NEW W, NEW a \in Seq(W), NEW u \in Seq(W), NEW v \in Seq(W), NEW b \in Seq(W),
           NEW x \in Seq(W), NEW y \in Seq(W), Chain(x, a, u, b), Chain(y, a, v, b),
           IsScanned(x), IsRaw(v),
           LineEnds(u), AllOf(v, "word"), Begins(b, "operator")
    PROVE  IsScanned(y)
<1> DEFINE la == Len(a)
           lu == Len(u)
           lv == Len(v)
           lb == Len(b)
           rx == Raw(x)
           ry == Raw(y)
           dx == Blanked(rx, "double")
           dy == Blanked(ry, "double")
<1>1. la \in Nat /\ lu \in Nat /\ lv \in Nat /\ lb \in Nat
    BY LenIsNat
<1>2. /\ Len(x) = la + lu + lb /\ Len(y) = la + lv + lb
      /\ \A i \in 1 .. la : x[i] = a[i] /\ y[i] = a[i]
      /\ \A i \in 1 .. lu : x[la + i] = u[i]
      /\ \A i \in 1 .. lv : y[la + i] = v[i]
      /\ \A i \in 1 .. lb : x[la + lu + i] = b[i] /\ y[la + lv + i] = b[i]
    BY DEF Chain
<1> HIDE DEF rx, ry, dx, dy
<1>3. /\ Len(rx) = Len(x) /\ IsSeq(rx)
      /\ Len(ry) = Len(y) /\ IsSeq(ry)
      /\ \A i \in 1 .. Len(x) : rx[i] = [x[i] EXCEPT !.kind = x[i].is]
      /\ \A i \in 1 .. Len(y) : ry[i] = [y[i] EXCEPT !.kind = y[i].is]
    <2>1. Len(rx) = Len(x) /\ IsSeq(rx) /\ \A i \in 1 .. Len(x) : rx[i] = [x[i] EXCEPT !.kind = x[i].is]
        BY RawAt DEF rx
    <2>2. Len(ry) = Len(y) /\ IsSeq(ry) /\ \A i \in 1 .. Len(y) : ry[i] = [y[i] EXCEPT !.kind = y[i].is]
        BY RawAt DEF ry
    <2> QED
        BY <2>1, <2>2, Zenon
<1>4. Len(dx) = Len(x) /\ IsSeq(dx) /\ Len(dy) = Len(y) /\ IsSeq(dy)
    <2> DEFINE V == {rx[i] : i \in 1 .. Len(rx)}
               U == {ry[i] : i \in 1 .. Len(ry)}
    <2>1. rx \in Seq(V) /\ ry \in Seq(U)
        BY <1>3 DEF IsSeq
    <2> HIDE DEF V, U
    <2> QED
        BY <1>3, <2>1, BlankedIsSeq DEF dx, dy
<1>5. Blanked(dx, "single") = x
    BY DEF Scanned, IsScanned, dx, rx
<1>6. ASSUME NEW i \in 1 .. Len(x), x[i].kind # "quoted" PROVE dx[i] = x[i] /\ rx[i] = x[i]
    <2>3. i \in 1 .. Len(dx)
        BY <1>4, <1>6
    <2>4. Blanked(dx, "single")[i].kind # "quoted"
        BY <1>5, <1>6
    <2>5. Blanked(dx, "single")[i] = dx[i]
        BY <1>4, <2>3, <2>4, NotBlanked
    <2>6. x[i] = dx[i]
        BY <1>5, <2>5
    <2>7. i \in 1 .. Len(rx)
        BY <1>3, <1>6
    <2>8. Blanked(rx, "double")[i].kind # "quoted"
        BY <1>6, <2>6 DEF dx
    <2>9. Blanked(rx, "double")[i] = rx[i]
        <3>1. IsSeq(rx)
            BY <1>3
        <3> QED
            BY <2>7, <2>8, <3>1, NotBlanked
    <2>10. dx[i] = rx[i]
        BY <2>9 DEF dx
    <2> QED
        BY <2>6, <2>10
<1>7. Without(u, "double") /\ Without(v, "double") /\ Without(u, "single") /\ Without(v, "single")
      /\ Without(u, "quoted")
    BY DEF Without, AllOf, LineEnds
<1>8. \A i \in 1 .. lu : u[i].kind # "quoted"
    BY DEF AllOf, LineEnds
<1>20. lb > 0 => b[1].kind = "operator"
    BY DEF Begins
<1> HIDE DEF la, lu, lv, lb
<1>9. /\ \A i \in 1 .. la : i \in 1 .. Len(x) /\ i \in 1 .. Len(y)
      /\ \A i \in 1 .. lu : la + i \in 1 .. Len(x)
      /\ \A i \in 1 .. lv : la + i \in 1 .. Len(y)
      /\ \A i \in 1 .. lb : la + lu + i \in 1 .. Len(x) /\ la + lv + i \in 1 .. Len(y)
    BY <1>1, <1>2
<1>10. \A i \in 1 .. lu : rx[la + i] = u[i] /\ dx[la + i] = u[i]
    BY <1>2, <1>6, <1>8, <1>9
<1>11. lb > 0 => /\ rx[la + lu + 1].kind # "double" /\ dx[la + lu + 1].kind # "quoted"
                 /\ dx[la + lu + 1].kind # "single" /\ x[la + lu + 1].kind # "quoted"
    <2> SUFFICES ASSUME lb > 0
                 PROVE  /\ rx[la + lu + 1].kind # "double" /\ dx[la + lu + 1].kind # "quoted"
                        /\ dx[la + lu + 1].kind # "single" /\ x[la + lu + 1].kind # "quoted"
        OBVIOUS
    <2>1. 1 \in 1 .. lb
        BY <1>1
    <2>2. x[la + lu + 1] = b[1] /\ b[1].kind = "operator" /\ la + lu + 1 \in 1 .. Len(x)
        BY <1>2, <1>9, <1>20, <2>1
    <2>3. x[la + lu + 1].kind # "quoted"
        BY <2>2
    <2>4. rx[la + lu + 1] = b[1] /\ dx[la + lu + 1] = b[1]
        BY <1>6, <2>2, <2>3
    <2> QED
        BY <2>2, <2>3, <2>4
\* The raw commands are alike around the lexemes that are replaced.
<1>12. ASSUME NEW i \in 1 .. la PROVE rx[i] = ry[i]
    <2>1. x[i] = y[i] /\ i \in 1 .. Len(x) /\ i \in 1 .. Len(y)
        BY <1>2, <1>9
    <2>2. rx[i] = [x[i] EXCEPT !.kind = x[i].is] /\ ry[i] = [y[i] EXCEPT !.kind = y[i].is]
        BY <1>3, <2>1
    <2> QED
        BY <2>1, <2>2, Zenon
<1>13. ASSUME NEW i \in 1 .. lb PROVE rx[la + lu + i] = ry[la + lv + i]
    <2>1. x[la + lu + i] = y[la + lv + i] /\ la + lu + i \in 1 .. Len(x) /\ la + lv + i \in 1 .. Len(y)
        BY <1>2, <1>9
    <2>2. /\ rx[la + lu + i] = [x[la + lu + i] EXCEPT !.kind = x[la + lu + i].is]
          /\ ry[la + lv + i] = [y[la + lv + i] EXCEPT !.kind = y[la + lv + i].is]
        BY <1>3, <2>1
    <2> QED
        BY <2>1, <2>2, Zenon
<1>14. ASSUME NEW i \in 1 .. lv PROVE ry[la + i] = v[i]
    <2>1. y[la + i] = v[i] /\ la + i \in 1 .. Len(y) /\ i \in 1 .. Len(v)
        BY <1>2, <1>9 DEF lv
    <2>2. ry[la + i] = [y[la + i] EXCEPT !.kind = y[la + i].is]
        BY <1>3, <2>1
    <2>3. Raw(v)[i] = [v[i] EXCEPT !.kind = v[i].is]
        BY <2>1, RawAt
    <2>4. [v[i] EXCEPT !.kind = v[i].is] = v[i]
        BY <2>3 DEF IsRaw
    <2> QED
        BY <2>1, <2>2, <2>4, Zenon
<1>15. /\ \A i \in 1 .. la : dy[i] = dx[i]
       /\ \A i \in 1 .. lv : dy[la + i] = v[i]
       /\ \A i \in 1 .. lb : dy[la + lv + i] = dx[la + lu + i]
    <2>1. Swapped(rx, ry, u, v, la, lb)
        BY <1>2, <1>3, <1>10, <1>12, <1>13, <1>14 DEF Swapped, lu, lv
    <2>2. Kept(rx, u, la, lb, "double")
        BY <1>10, <1>11 DEF Kept, dx, lu
    <2>3. Swapped(Blanked(rx, "double"), Blanked(ry, "double"), u, v, la, lb)
        <3>1. IsSeq(rx) /\ IsSeq(ry)
            BY <1>3
        <3> QED
            BY <1>1, <1>7, <2>1, <2>2, <3>1, BlanksFollow
    <2> QED
        BY <2>3 DEF Swapped, dx, dy, lu, lv
<1>16. /\ \A i \in 1 .. la : Scanned(y)[i] = x[i]
       /\ \A i \in 1 .. lv : Scanned(y)[la + i] = v[i]
       /\ \A i \in 1 .. lb : Scanned(y)[la + lv + i] = x[la + lu + i]
    <2>1. Swapped(dx, dy, u, v, la, lb)
        BY <1>2, <1>4, <1>10, <1>15 DEF Swapped, lu, lv
    <2>2. Kept(dx, u, la, lb, "single")
        BY <1>2, <1>5, <1>11 DEF Kept, lu
    <2>3. Swapped(Blanked(dx, "single"), Blanked(dy, "single"), u, v, la, lb)
        <3>1. IsSeq(dx) /\ IsSeq(dy)
            BY <1>4
        <3> QED
            BY <1>1, <1>7, <2>1, <2>2, <3>1, BlanksFollow
    <2>4. Scanned(y) = Blanked(dy, "single")
        BY DEF Scanned, dy, ry
    <2> QED
        BY <1>5, <2>3, <2>4 DEF Swapped, lu, lv
<1>17. \A i \in 1 .. Len(y) : Scanned(y)[i] = y[i]
    <2> SUFFICES ASSUME NEW i \in 1 .. Len(y) PROVE Scanned(y)[i] = y[i]
        OBVIOUS
    <2>1. CASE i <= la
        <3>1. i \in 1 .. la
            BY <1>1, <2>1
        <3> QED
            BY <1>2, <1>16, <3>1
    <2>2. CASE i > la /\ i <= la + lv
        <3>1. i - la \in 1 .. lv /\ la + (i - la) = i
            BY <1>1, <2>2
        <3> QED
            BY <1>2, <1>16, <3>1
    <2>3. CASE i > la + lv
        <3> DEFINE k == i - (la + lv)
        <3>1. k \in 1 .. lb /\ la + lv + k = i
            BY <1>1, <1>2, <2>3
        <3> HIDE DEF k
        <3>2. Scanned(y)[la + lv + k] = x[la + lu + k] /\ x[la + lu + k] = y[la + lv + k]
            BY <1>2, <1>16, <3>1
        <3> QED
            BY <3>1, <3>2
    <2> QED
        BY <1>1, <2>1, <2>2, <2>3
<1>18. Scanned(y) = [i \in 1 .. Len(y) |-> Scanned(y)[i]]
    <2> DEFINE U == {dy[j] : j \in 1 .. Len(dy)}
    <2>1. dy \in Seq(U)
        BY <1>4 DEF IsSeq
    <2> HIDE DEF U
    <2>2. Scanned(y) = Blanked(dy, "single")
        BY DEF Scanned, dy, ry
    <2>3. DOMAIN Blanked(dy, "single") = 1 .. Len(dy)
        BY <2>1, BlankedAt
    <2>4. Blanked(dy, "single") = [i \in DOMAIN Blanked(dy, "single") |-> Blanked(dy, "single")[i]]
        BY DEF Blanked
    <2> QED
        BY <1>4, <2>2, <2>3, <2>4
<1>19. y = [i \in 1 .. Len(y) |-> y[i]]
    OBVIOUS
<1> QED
    BY <1>17, <1>18, <1>19 DEF IsScanned

-----------------------------------------------------------------------------
(* The command as it is rebuilt.                                           *)

Ops == {"operator"}

\* What becomes of the k-th segment, and the operator behind it.
Quiet(c, k) == Quietened(Segments(c)[k])
OpBehind(c, k) ==
    LET e == Ends(c, Ops) IN IF k < Len(e) THEN <<c[e[k]]>> ELSE <<>>

\* h rebuilds the command c from its size segments.
Rebuilds(h, c, size, W) ==
    /\ h \in [0 .. size -> Seq(W)]
    /\ h[0] = <<>>
    /\ \A k \in 1 .. size : h[k] = (h[k - 1] \o Quiet(c, k)) \o OpBehind(c, k)
    /\ Rebuilt(c) = h[size]

IsRebuilt(c, size, W) == \E h : Rebuilds(h, c, size, W)

\* The pieces of the command are words of W.
LEMMA Pieces ==
    ASSUME NEW W, RuleFlags \subseteq W, NEW c \in Seq(W)
    PROVE  /\ Len(Ends(c, Ops)) \in Nat \ {0} /\ Ends(c, Ops) \in Seq(Nat)
           /\ Segments(c) \in Seq(Seq(W)) /\ Len(Segments(c)) = Len(Ends(c, Ops))
           /\ \A k \in 1 .. Len(Ends(c, Ops)) :
                Segments(c)[k] \in Seq(W) /\ Quiet(c, k) \in Seq(W) /\ OpBehind(c, k) \in Seq(W)
<1> DEFINE e == Ends(c, Ops)
           size == Len(e)
           s == Segments(c)
<1>1. Cuts(s, e, c, Ops, W)
    BY PartsCut DEF Segments, Ops
<1>2. /\ size \in Nat \ {0} /\ e \in Seq(Nat) /\ s \in Seq(Seq(W)) /\ Len(s) = size
      /\ \A k \in 1 .. size : k < size => c[e[k]] \in W
    <2> HIDE DEF e, s
    <2> QED
        BY <1>1 DEF Cuts
<1>3. \A k \in 1 .. size : OpBehind(c, k) \in Seq(W)
    BY <1>2 DEF OpBehind
<1> HIDE DEF e, size, s
<1>4. \A k \in 1 .. size : s[k] \in Seq(W)
    <2> DEFINE V == Seq(W)
    <2>1. s \in Seq(V)
        BY <1>2
    <2> HIDE DEF V
    <2>2. \A k \in 1 .. size : s[k] \in V
        BY <1>2, <2>1
    <2> QED
        BY <2>2 DEF V
<1>5. \A k \in 1 .. size : Quiet(c, k) \in Seq(W)
    <2> SUFFICES ASSUME NEW k \in 1 .. size PROVE Quietened(s[k]) \in Seq(W)
        BY DEF Quiet, s
    <2> QED
        BY <1>4, SegmentQuietened
<1> QED
    BY <1>2, <1>3, <1>4, <1>5 DEF e, size, s

LEMMA CommandIsRebuilt ==
    ASSUME NEW W, RuleFlags \subseteq W, NEW c \in Seq(W)
    PROVE  IsRebuilt(c, Len(Ends(c, Ops)), W)
<1> DEFINE V == Seq(W)
           e == Ends(c, Ops)
           size == Len(e)
           q == [k \in DOMAIN Segments(c) |-> Quietened(Segments(c)[k])]
           next(v, k) == (v \o q[k]) \o OpBehind(c, k)
           step == [x \in 1 .. size |-> [v \in V |-> next(v, x)]]
           Iter(i) == i = [s \in SUBSET (DOMAIN e) |->
                             IF s = {} THEN <<>>
                             ELSE next(i[s \ {Max(s)}], [j \in DOMAIN e |-> j][Max(s)])]
           it == CHOOSE i : Iter(i)
<1>1. size \in Nat /\ DOMAIN e = 1 .. size
    <2> HIDE DEF e
    <2>1. e \in Seq(Nat)
        BY Pieces DEF e
    <2> QED
        BY <2>1
<1>2. Rebuilt(c) = it[1 .. size]
    <2> HIDE DEF e, q
    <2>1. Rebuilt(c) = FoldLeftDomain(LAMBDA rebuilt, k :
            rebuilt \o q[k] \o (IF k < Len(e) THEN <<c[e[k]]>> ELSE <<>>), <<>>, e)
        BY Zenon DEF Rebuilt, Rejoined, Ops, e, q
    <2>2. Rebuilt(c) = FoldLeftDomain(next, <<>>, e)
        BY <2>1 DEF OpBehind, e
    <2> HIDE DEF size
    <2>3. FoldLeftDomain(next, <<>>, e) = it[DOMAIN e]
        BY DEF FoldLeftDomain, FoldLeft, MapThenFoldSet
    <2> QED
        BY <1>1, <2>2, <2>3
<1>16. \A k \in 1 .. size : q[k] = Quiet(c, k)
    <2> DEFINE S == Seq(W)
               s == Segments(c)
    <2>1. s \in Seq(S) /\ Len(s) = size
        BY Pieces
    <2> HIDE DEF S, s, size
    <2>2. DOMAIN s = 1 .. size
        BY <2>1
    <2> QED
        BY <2>2 DEF Quiet, s
<1> HIDE DEF q
<1>3. <<>> \in V
    OBVIOUS
<1>4. \A x \in 1 .. size : \A v \in V : next(v, x) \in V
    <2> SUFFICES ASSUME NEW x \in 1 .. size, NEW v \in V PROVE next(v, x) \in V
        OBVIOUS
    <2>1. q[x] \in V /\ OpBehind(c, x) \in V
        BY Pieces, <1>16
    <2>2. v \o q[x] \in V
        BY <2>1
    <2> QED
        BY <2>1, <2>2
<1> HIDE DEF size, V, next
<1>5. \A x \in 1 .. size : \A v \in V : step[x][v] \in V /\ step[x][v] = next(v, x)
    BY <1>4
<1> HIDE DEF step
<1>6. Steps(step, 1 .. size, V)
    BY <1>5 DEF Steps
<1>7. PICK g \in [SUBSET (1 .. size) -> V] : IsFoldLeft(g, size, <<>>, step)
    BY <1>1, <1>3, <1>6, FoldLeftExists
<1>8. \A s \in SUBSET (1 .. size) : s # {} => Max(s) \in 1 .. size
    BY <1>1, MaxExists
<1>9. Iter(g)
    <2>1. \A s \in SUBSET (1 .. size) : s # {} => g[s \ {Max(s)}] \in V
        BY <1>7
    <2> QED
        BY <1>1, <1>5, <1>7, <1>8, <2>1 DEF IsFoldLeft
<1>10. Iter(it)
    <2> HIDE DEF Iter
    <2> QED
        BY <1>9
<1> HIDE DEF it
<1>11. Unrolls(it, size, V, <<>>, step)
    BY <1>1, <1>5, <1>8, <1>10 DEF Unrolls
<1> HIDE DEF Iter
<1>12. RunsTo(it[1 .. size], size, V, <<>>, step)
    BY <1>1, <1>3, <1>6, <1>11, FoldLeftRuns
<1>13. PICK h \in [0 .. size -> V] : IsRun(h, size, <<>>, step) /\ h[size] = it[1 .. size]
    BY <1>12 DEF RunsTo
<1>14. \A k \in 1 .. size : h[k - 1] \in V /\ h[k] = next(h[k - 1], k)
    BY <1>1, <1>5, <1>13 DEF IsRun
<1>15. Rebuilds(h, c, size, W)
    BY <1>2, <1>13, <1>14, <1>16 DEF Rebuilds, IsRun, V, next
<1> QED
    BY <1>15 DEF IsRebuilt, size, e

\* A segment is some words and line ends, and in the place of these comes the
\* flag, if a rule applies.
Ending(s, q, a, u, v, W) ==
    /\ a \in Seq(W) /\ u \in Seq(W) /\ v \in Seq(W)
    /\ s = a \o u /\ q = a \o v
    /\ LineEnds(u) /\ AllOf(v, "word") /\ IsRaw(v)

EndsSo(s, q, W) == \E a, u, v : Ending(s, q, a, u, v, W)

LEMMA QuietEnds ==
    ASSUME NEW W, RuleFlags \subseteq W, NEW s \in Seq(W)
    PROVE  EndsSo(s, Quietened(s), W)
<1> DEFINE q == Quietened(s)
           r == FirstRule(s)
           flag == Rules[r].flag
<1>1. /\ q \in Seq(W)
      /\ Applicable(s) = {} => q = s
      /\ Applicable(s) # {} => r \in DOMAIN Rules /\ Flagged(q, s, flag)
    BY SegmentQuietened
<1>2. Applicable(s) # {} => /\ flag.kind = "word" /\ flag = [flag EXCEPT !.kind = flag.is]
                            /\ flag \in W
    BY <1>1, RulesSettle DEF Settles, RuleFlags
<1> HIDE DEF q, flag
<1>3. CASE Applicable(s) = {}
    <2>1. s = s \o <<>> /\ q = s \o <<>> /\ <<>> \in Seq(W)
        BY <1>1, <1>3
    <2>2. LineEnds(<<>>) /\ AllOf(<<>>, "word")
        BY DEF LineEnds, AllOf
    <2>3. IsRaw(<<>>)
        BY DEF IsRaw, Raw
    <2>4. Ending(s, q, s, <<>>, <<>>, W)
        BY <2>1, <2>2, <2>3, Zenon DEF Ending
    <2> QED
        BY <2>4, Zenon DEF EndsSo, q
<1>4. CASE Applicable(s) # {}
    <2> DEFINE len == Len(s)
    <2>1. PICK last \in 0 .. len :
            /\ Len(q) = last + 1 /\ q[last + 1] = flag
            /\ \A i \in 1 .. last : q[i] = s[i]
            /\ \A i \in last + 1 .. len : s[i].kind = "line end"
        BY <1>1, <1>4 DEF Flagged
    <2> DEFINE a == SubSeq(s, 1, last)
               u == SubSeq(s, last + 1, len)
               v == <<flag>>
    <2>2. len \in Nat /\ last \in 0 .. len
        OBVIOUS
    <2>3. s = a \o u
        <3>1. 1 \in 1 .. len + 1 /\ last \in 1 - 1 .. len /\ len \in last .. len
            BY <2>2
        <3>2. SubSeq(s, 1, last) \o SubSeq(s, last + 1, len) = SubSeq(s, 1, len)
            BY <3>1, ConcatAdjacentSubSeq
        <3>3. SubSeq(s, 1, len) = s
            BY SubSeqFull
        <3> QED
            BY <3>2, <3>3
    <2>4. a \in Seq(W) /\ Len(a) = last /\ \A i \in 1 .. last : a[i] = s[i]
        <3>1. \A i \in 1 .. last : s[i] \in W
            BY <2>2
        <3> HIDE DEF len
        <3> QED
            BY <2>2, <3>1
    <2>5. /\ u \in Seq(W) /\ Len(u) = len - last
          /\ \A i \in 1 .. Len(u) : last + i \in last + 1 .. len /\ u[i] = s[last + i]
        <3>1. \A i \in last + 1 .. len : s[i] \in W
            BY <2>2
        <3> HIDE DEF len
        <3>2. u \in Seq(W) /\ Len(u) = len - last
            BY <2>2, <3>1
        <3>3. \A i \in 1 .. len - last : last + i \in last + 1 .. len
            BY <2>2
        <3>4. \A i \in 1 .. len - last : u[i] = s[(last + 1) + i - 1]
            BY <2>2, <3>1
        <3>5. \A i \in 1 .. len - last : (last + 1) + i - 1 = last + i
            BY <2>2
        <3> QED
            BY <3>2, <3>3, <3>4, <3>5
    <2>6. v \in Seq(W) /\ Len(v) = 1 /\ v[1] = flag
        BY <1>2, <1>4
    <2> HIDE DEF a, u, v, len
    <2>7. LineEnds(u)
        <3>1. \A i \in 1 .. Len(u) : u[i].kind = "line end"
            BY <2>1, <2>5, Zenon
        <3> QED
            BY <3>1, Zenon DEF LineEnds, AllOf
    <2>8. AllOf(v, "word")
        BY <1>2, <1>4, <2>6 DEF AllOf
    <2>9. IsRaw(v)
        <3>1. DOMAIN v = 1 .. 1 /\ v[1] = [v[1] EXCEPT !.kind = v[1].is]
            BY <1>2, <1>4, <2>6
        <3>2. v = [i \in 1 .. 1 |-> v[1]]
            BY <2>6
        <3>3. Raw(v) = [i \in 1 .. 1 |-> [v[i] EXCEPT !.kind = v[i].is]]
            BY <3>1 DEF Raw
        <3>4. \A i \in 1 .. 1 : [v[i] EXCEPT !.kind = v[i].is] = v[1]
            <4>1. \A i \in 1 .. 1 : i = 1
                OBVIOUS
            <4> QED
                BY <3>1, <4>1, Zenon
        <3>5. Raw(v) = [i \in 1 .. 1 |-> v[1]]
            BY <3>3, <3>4
        <3> QED
            BY <3>2, <3>5 DEF IsRaw
    <2>10. q = a \o v
        <3> DEFINE x == a \o v
        <3>1. x \in Seq(W) /\ Len(x) = last + 1 /\ x[last + 1] = flag /\ \A i \in 1 .. last : x[i] = a[i]
            <4>1. a \in Seq(W) /\ v \in Seq(W) /\ Len(a) = last /\ Len(v) = 1 /\ v[1] = flag
                BY <2>4, <2>6
            <4>2. /\ x \in Seq(W) /\ Len(x) = Len(a) + Len(v)
                  /\ \A i \in 1 .. Len(a) : x[i] = a[i]
                  /\ \A i \in 1 .. Len(v) : x[Len(a) + i] = v[i]
                <5> DEFINE z == x \o <<>>
                <5>1. <<>> \in Seq(W) /\ Len(<<>>) = 0
                    OBVIOUS
                <5>2. Chain(z, a, v, <<>>)
                    BY <4>1, <5>1, Chained
                <5>3. x \in Seq(W)
                    BY <4>1
                <5>4. z = x
                    <6> HIDE DEF x
                    <6> QED
                        BY <5>3, ConcatEmptySeq
                <5> HIDE DEF x, z
                <5>5. Chain(x, a, v, <<>>)
                    BY <5>2, <5>4, Zenon
                <5>6. Len(a) \in Nat /\ Len(v) \in Nat
                    BY <4>1
                <5> QED
                    BY <5>1, <5>3, <5>5, <5>6 DEF Chain
            <4> HIDE DEF x
            <4>3. 1 \in 1 .. Len(v)
                BY <4>1
            <4> QED
                BY <4>1, <4>2, <4>3
        <3> HIDE DEF x
        <3>2. \A i \in 1 .. last + 1 : i \in 1 .. last \/ i = last + 1
            BY <2>2
        <3>3. \A i \in 1 .. Len(q) : q[i] = x[i]
            BY <2>1, <2>4, <3>1, <3>2
        <3>4. Len(q) = Len(x)
            BY <2>1, <3>1
        <3>5. q = x
            BY <1>1, <3>1, <3>3, <3>4, SeqEqual
        <3> QED
            BY <3>5 DEF x
    <2>11. Ending(s, q, a, u, v, W)
        BY <2>3, <2>4, <2>5, <2>6, <2>7, <2>8, <2>9, <2>10, Zenon DEF Ending
    <2> QED
        BY <2>11, Zenon DEF EndsSo, q
<1> QED
    BY <1>3, <1>4

\* Three parts one behind the other, whichever two are joined first.
Joins(x, y, z, W) ==
    /\ (x \o y) \o z = x \o (y \o z)
    /\ x \o y \in Seq(W) /\ y \o z \in Seq(W) /\ (x \o y) \o z \in Seq(W)

LEMMA AllJoin ==
    ASSUME NEW W, NEW x, NEW y, NEW z, x \in Seq(W), y \in Seq(W), z \in Seq(W)
    PROVE  Joins(x, y, z, W)
<1>1. (x \o y) \o z = x \o (y \o z)
    OBVIOUS
<1>2. x \o y \in Seq(W) /\ y \o z \in Seq(W)
    OBVIOUS
<1>3. (x \o y) \o z \in Seq(W)
    OBVIOUS
<1> QED
    BY <1>1, <1>2, <1>3, Zenon DEF Joins

\* What may change lies between the same parts.
Regroups(h, a, u, b, t, W) ==
    /\ h \o ((a \o u) \o (b \o t)) = ((h \o a) \o u) \o (b \o t)
    /\ ((h \o (a \o u)) \o b) \o t = ((h \o a) \o u) \o (b \o t)
    /\ b \o t \in Seq(W) /\ h \o a \in Seq(W)
    /\ ((h \o a) \o u) \o (b \o t) \in Seq(W)

LEMMA Regrouped ==
    ASSUME NEW W, NEW h, NEW a, NEW u, NEW b, NEW t,
           h \in Seq(W), a \in Seq(W), u \in Seq(W), b \in Seq(W), t \in Seq(W)
    PROVE  Regroups(h, a, u, b, t, W)
<1>1. Joins(h, a, u, W) /\ Joins(a, u, b, W)
    BY AllJoin, Zenon
<1>2. Joins(b, t, t, W)
    BY AllJoin, Zenon
<1>3. h \o a \in Seq(W) /\ a \o u \in Seq(W) /\ b \o t \in Seq(W)
    BY <1>1, <1>2, Zenon DEF Joins
<1>4. Joins(h, a \o u, b \o t, W)
    BY <1>3, AllJoin, Zenon
<1>5. h \o (a \o u) \in Seq(W)
    BY <1>4, Zenon DEF Joins
<1>6. Joins(h \o (a \o u), b, t, W)
    BY <1>5, AllJoin, Zenon
<1>7. (h \o a) \o u = h \o (a \o u)
    BY <1>1, Zenon DEF Joins
<1>8. (h \o (a \o u)) \o (b \o t) = h \o ((a \o u) \o (b \o t)) /\ (h \o (a \o u)) \o (b \o t) \in Seq(W)
    BY <1>4, Zenon DEF Joins
<1>9. ((h \o (a \o u)) \o b) \o t = (h \o (a \o u)) \o (b \o t)
    BY <1>6, Zenon DEF Joins
<1> QED
    BY <1>3, <1>7, <1>8, <1>9, Zenon DEF Regroups

\* What is behind the k-th segment and its operator.
Rest(c, k) ==
    SubSeq(c, IF k = 0 THEN 1 ELSE Ends(c, Ops)[k] + 1, Len(c))

LEMMA RestIsCut ==
    ASSUME NEW W, NEW c \in Seq(W), NEW k \in 1 .. Len(Ends(c, Ops))
    PROVE  /\ Rest(c, k - 1) \in Seq(W) /\ Rest(c, k) \in Seq(W)
           /\ Rest(c, k - 1) = Segments(c)[k] \o (OpBehind(c, k) \o Rest(c, k))
           /\ k = Len(Ends(c, Ops)) => Rest(c, k) = <<>>
           /\ k < Len(Ends(c, Ops)) =>
                Len(OpBehind(c, k)) = 1 /\ OpBehind(c, k)[1].kind = "operator"
<1> DEFINE e == Ends(c, Ops)
           s == Segments(c)
           size == Len(e)
           len == Len(c)
           from == From(e, k)
           to == e[k]
<1>1. Cuts(s, e, c, Ops, W)
    BY PartsCut DEF Segments, Ops
<1> HIDE DEF e
<1>2. /\ e \in Seq(Nat) /\ size \in Nat \ {0} /\ e[size] = len + 1
      /\ from \in 1 .. to /\ to <= len + 1
      /\ k < size => to \in DOMAIN c /\ c[to] \in W /\ c[to].kind \in Ops
    BY <1>1 DEF Cuts, e
<1>3. len \in Nat /\ DOMAIN c = 1 .. len /\ \A i \in 1 .. len : c[i] \in W
    OBVIOUS
<1>4. k \in 1 .. size
    BY DEF e
<1>5. k \in DOMAIN e /\ DOMAIN e = 1 .. size /\ to \in Nat
    BY <1>2, <1>4
<1>6. s[k] = SubSeq(c, from, to - 1)
    BY <1>5 DEF Segments, Parts, Ops, From, s, e
<1>7. Rest(c, k - 1) = SubSeq(c, from, len)
    <2>1. CASE k = 1
        BY <2>1 DEF Rest, From, e
    <2>2. CASE k # 1
        <3>1. k - 1 # 0
            BY <1>4, <2>2
        <3> QED
            BY <2>2, <3>1 DEF Rest, From, e
    <2> QED
        BY <2>1, <2>2
<1>8. Rest(c, k) = SubSeq(c, to + 1, len)
    <2>1. k # 0
        BY <1>4
    <2> QED
        BY <2>1 DEF Rest, e
<1>9. OpBehind(c, k) = IF k < size THEN <<c[to]>> ELSE <<>>
    BY DEF OpBehind, e
<1> HIDE DEF s, size, len, from, to
<1>10. from \in 1 .. len + 1 /\ from \in Nat /\ from <= to
    BY <1>2, <1>3, <1>5
<1>11. SubSeq(c, from, len) \in Seq(W) /\ SubSeq(c, to + 1, len) \in Seq(W)
       /\ SubSeq(c, to, len) \in Seq(W)
    <2>1. \A i \in from .. len : c[i] \in W
        BY <1>3, <1>10
    <2>2. \A i \in to + 1 .. len : c[i] \in W
        BY <1>3, <1>5, <1>10
    <2>3. \A i \in to .. len : c[i] \in W
        BY <1>3, <1>5, <1>10
    <2> QED
        BY <1>3, <1>5, <1>10, <2>1, <2>2, <2>3, SubSeqProperties
<1>12. SubSeq(c, from, to - 1) \o SubSeq(c, to, len) = SubSeq(c, from, len)
    <2>1. from \in 1 .. Len(c) + 1 /\ to - 1 \in from - 1 .. Len(c) /\ Len(c) \in to - 1 .. Len(c)
        BY <1>2, <1>3, <1>5, <1>10 DEF len
    <2>2. SubSeq(c, from, to - 1) \o SubSeq(c, (to - 1) + 1, Len(c)) = SubSeq(c, from, Len(c))
        BY <2>1, ConcatAdjacentSubSeq
    <2>3. (to - 1) + 1 = to
        BY <1>5
    <2> QED
        BY <2>2, <2>3 DEF len
<1>13. SubSeq(c, to, len) = OpBehind(c, k) \o Rest(c, k)
    <2>1. CASE k < size
        <3>1. to \in 1 .. Len(c) /\ Len(c) \in to .. Len(c)
            BY <1>2, <1>3, <2>1 DEF len
        <3>2. SubSeq(c, to, Len(c)) = <<c[to]>> \o SubSeq(c, to + 1, Len(c))
            BY <3>1, SubSeqRecursiveFirst
        <3> QED
            BY <1>8, <1>9, <2>1, <3>2 DEF len
    <2>2. CASE ~ (k < size)
        <3>1. k = size
            BY <1>2, <1>4, <2>2
        <3>2. to = len + 1
            BY <1>2, <3>1 DEF to
        <3>3. SubSeq(c, to, len) = <<>> /\ SubSeq(c, to + 1, len) = <<>>
            BY <1>3, <3>2, SubSeqEmpty
        <3>4. OpBehind(c, k) = <<>> /\ Rest(c, k) = <<>>
            BY <1>8, <1>9, <2>2, <3>3
        <3>5. <<>> \o <<>> = <<>>
            <4>1. <<>> \in Seq(W)
                OBVIOUS
            <4> QED
                BY <4>1, ConcatEmptySeq
        <3> QED
            BY <3>3, <3>4, <3>5
    <2> QED
        BY <2>1, <2>2
<1>14. k = size => Rest(c, k) = <<>>
    <2> SUFFICES ASSUME k = size PROVE Rest(c, k) = <<>>
        OBVIOUS
    <2>1. to = len + 1
        BY <1>2 DEF to
    <2>2. SubSeq(c, to + 1, len) = <<>>
        BY <1>3, <2>1, SubSeqEmpty
    <2> QED
        BY <1>8, <2>2
<1>15. k < size => Len(OpBehind(c, k)) = 1 /\ OpBehind(c, k)[1].kind = "operator"
    BY <1>2, <1>9 DEF Ops
<1>16. Rest(c, k - 1) = s[k] \o (OpBehind(c, k) \o Rest(c, k))
    BY <1>6, <1>7, <1>12, <1>13
<1> QED
    BY <1>7, <1>8, <1>11, <1>14, <1>15, <1>16 DEF s, size, e

\* A scanned command is one still when it is rebuilt: segment by segment, the
\* command that is rebuilt so far and goes on as it was is scanned.
LEMMA RebuiltIsScanned ==
    ASSUME NEW W, RuleFlags \subseteq W, NEW c \in Seq(W), IsScanned(c)
    PROVE  Rebuilt(c) \in Seq(W) /\ IsScanned(Rebuilt(c))
<1> DEFINE size == Len(Ends(c, Ops))
<1>1. size \in Nat \ {0}
      /\ \A k \in 1 .. size : Segments(c)[k] \in Seq(W) /\ OpBehind(c, k) \in Seq(W)
    BY Pieces
<1>2. IsRebuilt(c, size, W)
    BY CommandIsRebuilt
<1>3. PICK h : Rebuilds(h, c, size, W)
    BY <1>2 DEF IsRebuilt
<1>4. \A k \in 1 .. size :
        /\ Rest(c, k - 1) \in Seq(W) /\ Rest(c, k) \in Seq(W)
        /\ Rest(c, k - 1) = Segments(c)[k] \o (OpBehind(c, k) \o Rest(c, k))
        /\ k = size => Rest(c, k) = <<>>
        /\ k < size => Len(OpBehind(c, k)) = 1 /\ OpBehind(c, k)[1].kind = "operator"
    BY RestIsCut
<1> HIDE DEF size
<1> DEFINE H(k) == h[k]
           T == {k \in 0 .. size : IsScanned(H(k) \o Rest(c, k))}
<1>5. /\ H(0) = <<>> /\ Rebuilt(c) = H(size) /\ \A k \in 0 .. size : H(k) \in Seq(W)
      /\ \A k \in 1 .. size : H(k) = (H(k - 1) \o Quiet(c, k)) \o OpBehind(c, k)
    BY <1>3 DEF Rebuilds
<1> HIDE DEF H
<1>6. 0 \in T
    <2>1. Rest(c, 0) = c
        BY SubSeqFull DEF Rest
    <2>2. H(0) \o Rest(c, 0) = c
        BY <1>5, <2>1, ConcatEmptySeq
    <2>3. 0 \in 0 .. size
        BY <1>1
    <2> QED
        BY <2>2, <2>3
<1>7. ASSUME NEW k \in 0 .. size - 1, k \in T PROVE k + 1 \in T
    <2> DEFINE m == k + 1
    <2>1. m \in 1 .. size /\ m - 1 = k /\ m \in 0 .. size /\ k \in 0 .. size
        BY <1>1
    <2> HIDE DEF m
    <2> DEFINE s == Segments(c)[m]
               q == Quiet(c, m)
               b == OpBehind(c, m)
               t == Rest(c, m)
               g == H(k)
    <2>2. s \in Seq(W) /\ b \in Seq(W) /\ t \in Seq(W) /\ g \in Seq(W)
        BY <1>1, <1>4, <1>5, <2>1
    <2>3. EndsSo(s, q, W)
        <3>1. EndsSo(s, Quietened(s), W)
            <4> HIDE DEF s
            <4> QED
                BY <2>2, QuietEnds
        <3> QED
            BY <3>1 DEF Quiet
    <2>4. IsScanned(g \o Rest(c, k))
        BY <1>7
    <2>5. Rest(c, k) = s \o (b \o t)
        BY <1>4, <2>1
    <2>6. H(m) = (g \o q) \o b
        BY <1>5, <2>1
    <2>7. m = size => t = <<>>
        BY <1>4, <2>1
    <2>8. m < size => Len(b) = 1 /\ b[1].kind = "operator"
        BY <1>4, <2>1
    <2>9. m = size => b = <<>>
        BY DEF OpBehind, size
    <2>16. t = Rest(c, m)
        OBVIOUS
    <2> HIDE DEF s, q, b, t, g
    <2>10. PICK a, u, v : Ending(s, q, a, u, v, W)
        BY <2>3 DEF EndsSo
    <2>11. /\ a \in Seq(W) /\ u \in Seq(W) /\ v \in Seq(W)
           /\ s = a \o u /\ q = a \o v
           /\ LineEnds(u) /\ AllOf(v, "word") /\ IsRaw(v)
        BY <2>10, Zenon DEF Ending
    <2> DEFINE x == ((g \o a) \o u) \o (b \o t)
               y == ((g \o a) \o v) \o (b \o t)
    <2>12. /\ x = g \o Rest(c, k) /\ y = H(m) \o t
           /\ b \o t \in Seq(W) /\ g \o a \in Seq(W) /\ x \in Seq(W) /\ y \in Seq(W)
        <3>4. /\ g \in Seq(W) /\ a \in Seq(W) /\ u \in Seq(W) /\ v \in Seq(W)
              /\ b \in Seq(W) /\ t \in Seq(W)
            BY <2>2, <2>11
        <3>7. Regroups(g, a, u, b, t, W) /\ Regroups(g, a, v, b, t, W)
            BY <3>4, Regrouped, Zenon
        <3>5. /\ g \o ((a \o u) \o (b \o t)) = ((g \o a) \o u) \o (b \o t)
              /\ ((g \o a) \o u) \o (b \o t) \in Seq(W)
              /\ b \o t \in Seq(W) /\ g \o a \in Seq(W)
            BY <3>7, Zenon DEF Regroups
        <3>6. /\ ((g \o (a \o v)) \o b) \o t = ((g \o a) \o v) \o (b \o t)
              /\ ((g \o a) \o v) \o (b \o t) \in Seq(W)
            BY <3>7, Zenon DEF Regroups
        <3>1. g \o ((a \o u) \o (b \o t)) = x /\ x \in Seq(W)
            BY <3>5
        <3>2. ((g \o (a \o v)) \o b) \o t = y /\ y \in Seq(W)
            BY <3>6
        <3>3. b \o t \in Seq(W) /\ g \o a \in Seq(W)
            BY <3>5
        <3> HIDE DEF x, y
        <3> QED
            BY <2>5, <2>6, <2>11, <3>1, <3>2, <3>3, Zenon
    <2>13. Chain(x, g \o a, u, b \o t) /\ Chain(y, g \o a, v, b \o t)
        <3>1. g \o a \in Seq(W) /\ b \o t \in Seq(W) /\ u \in Seq(W) /\ v \in Seq(W)
            BY <2>11, <2>12
        <3> QED
            BY <3>1, Chained, Zenon
    <2>14. Begins(b \o t, "operator")
        <3>1. CASE m < size
            <4>1. (b \o t)[1] = b[1]
                <5>2. Len(b) = 1
                    BY <2>8, <3>1, Zenon
                <5>1. 1 \in 1 .. Len(b)
                    BY <5>2
                <5> QED
                    BY <2>2, <5>1
            <4> QED
                BY <2>8, <3>1, <4>1 DEF Begins
        <3>2. CASE m = size
            <4>1. b \o t = <<>>
                BY <2>7, <2>9, <3>2
            <4> QED
                BY <4>1 DEF Begins
        <3>3. m < size \/ m = size
            BY <1>1, <2>1
        <3> QED
            BY <3>1, <3>2, <3>3
    <2>15. IsScanned(y)
        <3> DEFINE ga == g \o a
                   bt == b \o t
        <3>1. /\ ga \in Seq(W) /\ bt \in Seq(W) /\ x \in Seq(W) /\ y \in Seq(W)
              /\ Chain(x, ga, u, bt) /\ Chain(y, ga, v, bt) /\ Begins(bt, "operator")
            BY <2>12, <2>13, <2>14
        <3>2. IsScanned(x)
            BY <2>4, <2>12, Zenon
        <3> HIDE DEF x, y, ga, bt
        <3> QED
            BY <2>11, <3>1, <3>2, ScanStays
    <2>17. IsScanned(H(m) \o Rest(c, m))
        BY <2>12, <2>15, <2>16, Zenon
    <2> QED
        BY <2>1, <2>17 DEF m
<1> HIDE DEF T
<1>8. size \in Nat /\ size \in 0 .. size
    BY <1>1
<1>9. \A k \in 0 .. size : k \in T
    BY <1>6, <1>7, <1>8, InductTo
<1>10. IsScanned(H(size) \o Rest(c, size))
    BY <1>8, <1>9 DEF T
<1>11. Rest(c, size) = <<>> /\ H(size) \in Seq(W)
    <2>1. size \in 1 .. size
        BY <1>1
    <2> QED
        BY <1>4, <1>5, <1>8, <2>1
<1>12. H(size) \o Rest(c, size) = H(size)
    BY <1>11, ConcatEmptySeq
<1>13. IsScanned(H(size))
    BY <1>10, <1>12, Zenon
<1> QED
    BY <1>5, <1>11, <1>13, Zenon

\* So a scanned command is rewritten as it is rebuilt.
LEMMA RewrittenIsRebuilt ==
    ASSUME NEW W, RuleFlags \subseteq W, NEW c \in Seq(W), IsScanned(c)
    PROVE  Rewritten(c) = Rebuilt(c) /\ Rewritten(c) \in Seq(W) /\ IsScanned(Rewritten(c))
BY RebuiltIsScanned DEF IsScanned, Rewritten

\* No rule puts an operator into a segment.
LEMMA NoOperator ==
    ASSUME NEW W, RuleFlags \subseteq W, NEW c \in Seq(W), NEW k \in 1 .. Len(Ends(c, Ops))
    PROVE  \A i \in 1 .. Len(Quiet(c, k)) : Quiet(c, k)[i].kind # "operator"
<1> DEFINE s == Segments(c)[k]
           q == Quietened(s)
           r == FirstRule(s)
           flag == Rules[r].flag
<1>1. s \in Seq(W) /\ Len(s) \in Nat
    BY Pieces
<1>2. \A i \in 1 .. Len(s) : s[i].kind # "operator"
    <2>1. Cuts(Segments(c), Ends(c, Ops), c, Ops, W)
        BY PartsCut DEF Segments, Ops
    <2> QED
        BY <2>1 DEF Cuts, Ops
<1>3. /\ Applicable(s) = {} => q = s
      /\ Applicable(s) # {} => r \in DOMAIN Rules /\ Flagged(q, s, flag)
    <2> HIDE DEF s
    <2> QED
        BY <1>1, SegmentQuietened
<1> HIDE DEF q, r, s
<1>4. \A i \in 1 .. Len(q) : q[i].kind # "operator"
    <2>1. CASE Applicable(s) = {}
        BY <1>2, <1>3, <2>1
    <2>2. CASE Applicable(s) # {}
        <3>1. flag.kind = "word"
            BY <1>3, <2>2, RulesSettle DEF Settles
        <3> HIDE DEF flag
        <3>2. PICK last \in 0 .. Len(s) :
                /\ Len(q) = last + 1 /\ q[last + 1] = flag
                /\ \A i \in 1 .. last : q[i] = s[i]
            BY <1>3, <2>2 DEF Flagged
        <3>3. \A i \in 1 .. Len(q) : i = last + 1 \/ (i \in 1 .. last /\ i \in 1 .. Len(s))
            BY <1>1, <3>2
        <3>4. "word" # "operator"
            OBVIOUS
        <3> QED
            BY <1>2, <3>1, <3>2, <3>3, <3>4
    <2> QED
        BY <2>1, <2>2
<1> QED
    BY <1>4 DEF Quiet, q, s

\* The command is cut as it was, and its segments are quietened.
Resegmented(c, new, W) ==
    /\ new \in Seq(W)
    /\ Len(Segments(new)) = Len(Segments(c))
    /\ \A k \in 1 .. Len(Segments(c)) : Segments(new)[k] = Quiet(c, k)

LEMMA SegmentsOfRewritten ==
    ASSUME NEW W, RuleFlags \subseteq W, NEW c \in Seq(W), IsScanned(c)
    PROVE  Resegmented(c, Rewritten(c), W)
<1> DEFINE e == Ends(c, Ops)
           size == Len(e)
           new == Rebuilt(c)
           q(k) == Quiet(c, k)
           b(k) == OpBehind(c, k)
<1>1. size \in Nat \ {0} /\ Len(Segments(c)) = size
      /\ \A k \in 1 .. size : q(k) \in Seq(W) /\ b(k) \in Seq(W)
    BY Pieces
<1>2. \A k \in 1 .. size : \A i \in 1 .. Len(q(k)) : q(k)[i].kind # "operator"
    BY NoOperator
<1>3. /\ \A k \in 1 .. size : k < size => Len(b(k)) = 1 /\ b(k)[1].kind = "operator"
      /\ Len(b(size)) = 0
    <2>1. Cuts(Segments(c), e, c, Ops, W)
        BY PartsCut DEF Segments, Ops
    <2>2. \A k \in 1 .. size : k < size => c[e[k]].kind = "operator"
        <3> HIDE DEF e
        <3> QED
            BY <2>1 DEF Cuts, Ops
    <2>3. size \in 1 .. size
        BY <1>1
    <2> QED
        BY <2>2, <2>3 DEF OpBehind
<1>4. IsRebuilt(c, size, W)
    BY CommandIsRebuilt
<1>5. PICK h : Rebuilds(h, c, size, W)
    BY <1>4 DEF IsRebuilt
<1>6. /\ h \in [0 .. size -> Seq(W)] /\ h[0] = <<>> /\ new = h[size]
      /\ \A k \in 1 .. size : h[k] = (h[k - 1] \o q(k)) \o b(k)
    BY <1>5 DEF Rebuilds
<1> DEFINE H(k) == h[k]
<1> HIDE DEF e, size, q, b, new
<1>22. /\ H(0) = <<>> /\ new = H(size) /\ \A k \in 0 .. size : H(k) \in Seq(W)
       /\ \A k \in 1 .. size : H(k) = (H(k - 1) \o q(k)) \o b(k)
    BY <1>6
<1> HIDE DEF H
<1>7. ASSUME NEW k \in 1 .. size PROVE Chain(H(k), H(k - 1), q(k), b(k))
    <2>1. H(k - 1) \in Seq(W) /\ q(k) \in Seq(W) /\ b(k) \in Seq(W)
        BY <1>1, <1>22, <1>7
    <2>2. Chain((H(k - 1) \o q(k)) \o b(k), H(k - 1), q(k), b(k))
        BY <2>1, Chained
    <2> QED
        BY <1>22, <2>2
<1>8. \A k \in 0 .. size : Len(H(k)) \in Nat /\ DOMAIN H(k) = 1 .. Len(H(k))
    BY <1>22
<1>9. \A k \in 1 .. size : Len(q(k)) \in Nat /\ k - 1 \in 0 .. size /\ k \in 0 .. size
    BY <1>1
<1> DEFINE P(k) == Places(H(k), Ops)
           g(k) == [j \in 1 .. k |-> Len(H(j))]
<1>10. ASSUME NEW k \in 1 .. size
       PROVE  /\ P(k - 1) \in SUBSET (1 .. Len(H(k - 1)))
              /\ k < size => /\ Len(H(k)) = Len(H(k - 1)) + Len(q(k)) + 1
                          /\ P(k) = P(k - 1) \cup {Len(H(k))}
              /\ k = size => /\ Len(H(k)) = Len(H(k - 1)) + Len(q(k))
                          /\ P(k) = P(k - 1)
    <2> DEFINE a == H(k - 1)
               x == H(k)
    <2>1. /\ Len(a) \in Nat /\ DOMAIN a = 1 .. Len(a) /\ Len(q(k)) \in Nat
          /\ Len(x) \in Nat /\ DOMAIN x = 1 .. Len(x)
        BY <1>8, <1>9
    <2>2. /\ k < size => Len(b(k)) = 1 /\ b(k)[1].kind = "operator"
          /\ k = size => Len(b(k)) = 0
        BY <1>3
    <2>3. Chain(x, a, q(k), b(k)) /\ \A i \in 1 .. Len(q(k)) : q(k)[i].kind # "operator"
        BY <1>2, <1>7
    <2> HIDE DEF a, x
    <2>4. /\ Len(x) = Len(a) + Len(q(k)) + Len(b(k))
          /\ \A i \in 1 .. Len(a) : x[i] = a[i]
          /\ \A i \in 1 .. Len(q(k)) : x[Len(a) + i].kind # "operator"
          /\ \A i \in 1 .. Len(b(k)) : x[Len(a) + Len(q(k)) + i] = b(k)[i]
        BY <2>3 DEF Chain
    <2>5. \A i \in Len(a) + 1 .. Len(a) + Len(q(k)) : x[i].kind # "operator"
        <3> SUFFICES ASSUME NEW i \in Len(a) + 1 .. Len(a) + Len(q(k))
                     PROVE  x[i].kind # "operator"
            OBVIOUS
        <3>1. i - Len(a) \in 1 .. Len(q(k)) /\ Len(a) + (i - Len(a)) = i
            BY <2>1
        <3> QED
            BY <2>4, <3>1
    <2>6. Places(a, Ops) \in SUBSET (1 .. Len(a))
        BY <2>1 DEF Places
    <2>7. CASE k < size
        <3>6. Len(b(k)) = 1 /\ b(k)[1].kind = "operator"
            BY <2>2, <2>7, Zenon
        <3>1. Len(x) = Len(a) + Len(q(k)) + 1 /\ x[Len(a) + Len(q(k)) + 1].kind = "operator"
            BY <2>1, <2>4, <3>6
        <3>2. Len(x) \in DOMAIN x /\ x[Len(x)].kind = "operator"
            BY <2>1, <3>1
        <3>3. \A i \in DOMAIN x : i \in DOMAIN a \/ i \in Len(a) + 1 .. Len(a) + Len(q(k)) \/ i = Len(x)
            BY <2>1, <3>1
        <3>4. \A i \in DOMAIN a : i \in DOMAIN x /\ x[i] = a[i]
            BY <1>1, <2>1, <2>4, <3>1
        <3>5. Places(x, Ops) = Places(a, Ops) \cup {Len(x)}
            BY <2>5, <3>2, <3>3, <3>4 DEF Places, Ops
        <3> QED
            BY <1>1, <2>6, <2>7, <3>1, <3>5 DEF x, a
    <2>8. CASE k = size
        <3>1. Len(x) = Len(a) + Len(q(k))
            BY <1>1, <2>1, <2>2, <2>4, <2>8
        <3>2. \A i \in DOMAIN x : i \in DOMAIN a \/ i \in Len(a) + 1 .. Len(a) + Len(q(k))
            BY <2>1, <3>1
        <3>3. \A i \in DOMAIN a : i \in DOMAIN x /\ x[i] = a[i]
            BY <1>1, <2>1, <2>4, <3>1
        <3>4. Places(x, Ops) = Places(a, Ops)
            BY <2>5, <3>2, <3>3 DEF Places, Ops
        <3> QED
            BY <1>1, <2>6, <2>8, <3>1, <3>4 DEF x, a
    <2> QED
        BY <1>1, <2>7, <2>8
<1>11. ASSUME NEW k \in 0 .. size
       PROVE  /\ g(k) \in Seq(Nat) /\ Len(g(k)) = k /\ DOMAIN g(k) = 1 .. k
              /\ \A j \in 1 .. k : g(k)[j] = Len(H(j))
    <2> DEFINE gk == [j \in 1 .. k |-> Len(H(j))]
    <2>1. gk \in [1 .. k -> Nat]
        <3>1. \A j \in 1 .. k : j \in 0 .. size
            BY <1>1, <1>11
        <3> QED
            BY <1>8, <3>1
    <2>2. k \in Nat /\ g(k) = gk
        BY <1>1, <1>11
    <2>3. \A j \in 1 .. k : gk[j] = Len(H(j))
        OBVIOUS
    <2> HIDE DEF gk, g
    <2> QED
        BY <2>1, <2>2, <2>3
<1>12. \A k \in 0 .. size - 1 : Lists(g(k), P(k))
    <2> DEFINE T == {k \in 0 .. size - 1 : Lists(g(k), P(k))}
    <2>1. 0 \in T
        <3>1. P(0) = {}
            BY <1>22 DEF Places
        <3>2. g(0) \in Seq(Nat) /\ DOMAIN g(0) = 1 .. 0
            BY <1>1, <1>11
        <3> HIDE DEF P, g
        <3>3. Lists(g(0), P(0))
            BY <3>1, <3>2 DEF Lists, Increasing
        <3> QED
            BY <1>1, <3>3
    <2>2. ASSUME NEW k \in 0 .. (size - 1) - 1, k \in T PROVE k + 1 \in T
        <3>1. /\ k + 1 \in 1 .. size /\ k + 1 < size /\ (k + 1) - 1 = k /\ k \in 0 .. size /\ k + 1 \in 0 .. size
              /\ k + 1 \in 0 .. size - 1
            BY <1>1
        <3>2. /\ P(k) \in SUBSET (1 .. Len(H(k)))
              /\ Len(H(k + 1)) = Len(H(k)) + Len(q(k + 1)) + 1
              /\ P(k + 1) = P(k) \cup {Len(H(k + 1))}
            <4> HIDE DEF P
            <4> QED
                BY <1>10, <3>1
        <3>3. /\ Len(H(k)) \in Nat /\ Len(H(k + 1)) \in Nat /\ Len(q(k + 1)) \in Nat
              /\ Len(H(k)) < Len(H(k + 1))
            BY <1>1, <1>8, <1>9, <3>1, <3>2
        <3>4. Lists(g(k), P(k))
            BY <2>2
        <3> HIDE DEF P
        <3>5. g(k + 1) = Append(g(k), Len(H(k + 1)))
            <4>1. /\ g(k) \in Seq(Nat) /\ Len(g(k)) = k /\ \A j \in 1 .. k : g(k)[j] = Len(H(j))
                  /\ g(k + 1) \in Seq(Nat) /\ Len(g(k + 1)) = k + 1
                  /\ \A j \in 1 .. k + 1 : g(k + 1)[j] = Len(H(j))
                BY <1>11, <3>1
            <4>2. k \in Nat
                BY <3>1
            <4> DEFINE y == Append(g(k), Len(H(k + 1)))
                       x == g(k + 1)
            <4> HIDE DEF g
            <4>3. y \in Seq(Nat) /\ Len(y) = k + 1 /\ \A j \in 1 .. k + 1 : y[j] = Len(H(j))
                BY <3>3, <4>1, <4>2
            <4>4. x \in Seq(Nat) /\ Len(x) = k + 1 /\ \A j \in 1 .. k + 1 : x[j] = Len(H(j))
                BY <4>1
            <4> HIDE DEF x, y
            <4>5. x = y
                BY <4>3, <4>4, SeqEqual
            <4> QED
                BY <4>5 DEF x, y
        <3> HIDE DEF g
        <3>6. Lists(Append(g(k), Len(H(k + 1))), P(k) \cup {Len(H(k + 1))})
            BY <3>2, <3>3, <3>4, ListsMore
        <3>7. Lists(g(k + 1), P(k + 1))
            BY <3>2, <3>5, <3>6, Zenon
        <3> QED
            BY <3>1, <3>7
    <2>3. size - 1 \in Nat
        BY <1>1
    <2> HIDE DEF T
    <2>4. \A k \in 0 .. size - 1 : k \in T
        BY <2>1, <2>2, <2>3, InductTo
    <2> QED
        BY <2>4 DEF T
<1>13. ASSUME NEW k \in 0 .. size
       PROVE  Len(H(k)) <= Len(new) /\ \A i \in 1 .. Len(H(k)) : new[i] = H(k)[i]
    <2> DEFINE Before(m) == \A j \in 0 .. m :
                   Len(H(j)) <= Len(H(m)) /\ \A i \in 1 .. Len(H(j)) : H(m)[i] = H(j)[i]
               T == {m \in 0 .. size : Before(m)}
    <2>1. 0 \in T
        BY <1>1, <1>8
    <2>2. ASSUME NEW m \in 0 .. size - 1, m \in T PROVE m + 1 \in T
        <3>1. m + 1 \in 1 .. size /\ (m + 1) - 1 = m /\ m \in 0 .. size /\ m + 1 \in 0 .. size
            BY <1>1
        <3>2. Chain(H(m + 1), H(m), q(m + 1), b(m + 1))
            BY <1>7, <3>1
        <3>3. /\ Len(H(m)) \in Nat /\ Len(H(m + 1)) \in Nat
              /\ Len(q(m + 1)) \in Nat /\ Len(b(m + 1)) \in Nat
            BY <1>1, <1>8, <1>9, <3>1
        <3>4. /\ Len(H(m)) <= Len(H(m + 1))
              /\ \A i \in 1 .. Len(H(m)) : H(m + 1)[i] = H(m)[i]
            BY <1>1, <3>2, <3>3 DEF Chain
        <3>5. Before(m)
            BY <2>2
        <3>6. ASSUME NEW j \in 0 .. m + 1
              PROVE  Len(H(j)) <= Len(H(m + 1)) /\ \A i \in 1 .. Len(H(j)) : H(m + 1)[i] = H(j)[i]
            <4>1. CASE j = m + 1
                BY <3>3, <4>1
            <4>2. CASE j \in 0 .. m
                <5>1. /\ Len(H(j)) <= Len(H(m)) /\ \A i \in 1 .. Len(H(j)) : H(m)[i] = H(j)[i]
                      /\ Len(H(j)) \in Nat
                    BY <1>8, <3>1, <3>5, <4>2
                <5>2. \A i \in 1 .. Len(H(j)) : i \in 1 .. Len(H(m))
                    BY <3>3, <5>1
                <5> QED
                    BY <3>3, <3>4, <5>1, <5>2
            <4> QED
                BY <3>1, <3>6, <4>1, <4>2
        <3>7. Before(m + 1)
            BY <3>6
        <3> HIDE DEF Before
        <3> QED
            BY <3>1, <3>7
    <2>3. size \in Nat
        BY <1>1
    <2> HIDE DEF T
    <2>4. \A m \in 0 .. size : m \in T
        BY <2>1, <2>2, <2>3, InductTo
    <2>5. Before(size)
        BY <1>1, <2>4 DEF T
    <2> QED
        BY <1>22, <1>13, <2>5
<1> DEFINE f == Append(g(size - 1), Len(new) + 1)
<1>14. new \in Seq(W) /\ Len(new) \in Nat
    BY <1>1, <1>22
<1>15. Ends(new, Ops) = f
    <2>1. size \in 1 .. size /\ size - 1 \in 0 .. size - 1
        BY <1>1
    <2>2. P(size) = P(size - 1) /\ P(size - 1) \in SUBSET (1 .. Len(H(size - 1)))
          /\ Len(H(size)) = Len(H(size - 1)) + Len(q(size))
        <3> HIDE DEF P
        <3> QED
            BY <1>10, <2>1
    <2>3. Lists(g(size - 1), P(size - 1))
        BY <1>12, <2>1
    <2>4. Len(H(size - 1)) \in Nat /\ Len(q(size)) \in Nat /\ Len(H(size - 1)) < Len(new) + 1
          /\ Len(new) + 1 \in Nat
        BY <1>1, <1>22, <1>8, <1>9, <1>14, <2>1, <2>2
    <2>5. Lists(f, P(size - 1) \cup {Len(new) + 1})
        <3> HIDE DEF P, g
        <3> QED
            BY <2>2, <2>3, <2>4, ListsMore
    <2>6. Lists(Ends(new, Ops), Places(new, Ops) \cup {Len(new) + 1})
        BY <1>14, EndsList
    <2>7. Places(new, Ops) = P(size - 1)
        BY <1>22, <2>2, Zenon
    <2>8. Lists(Ends(new, Ops), P(size - 1) \cup {Len(new) + 1})
        BY <2>6, <2>7, Zenon
    <2> HIDE DEF f, P
    <2> QED
        BY <2>5, <2>8, ListsAgree
<1>16. /\ f \in Seq(Nat) /\ Len(f) = size
       /\ \A k \in 1 .. size - 1 : f[k] = Len(H(k))
       /\ f[size] = Len(new) + 1
    <2>1. /\ g(size - 1) \in Seq(Nat) /\ Len(g(size - 1)) = size - 1
          /\ \A j \in 1 .. size - 1 : g(size - 1)[j] = Len(H(j))
        BY <1>1, <1>11
    <2> HIDE DEF g
    <2> QED
        BY <1>1, <1>14, <2>1
<1> HIDE DEF f, g, P
<1>17. ASSUME NEW k \in 1 .. size
       PROVE  /\ From(f, k) = Len(H(k - 1)) + 1
              /\ f[k] - 1 = Len(H(k - 1)) + Len(q(k))
    <2>1. From(f, k) = Len(H(k - 1)) + 1
        <3>1. CASE k = 1
            BY <1>22, <3>1 DEF From
        <3>2. CASE k # 1
            <4>1. k - 1 \in 1 .. size - 1
                BY <1>1, <1>17, <3>2
            <4> QED
                BY <1>16, <3>2, <4>1 DEF From
        <3> QED
            BY <3>1, <3>2
    <2>2. f[k] - 1 = Len(H(k - 1)) + Len(q(k))
        <3>1. Len(H(k - 1)) \in Nat /\ Len(q(k)) \in Nat
            BY <1>8, <1>9, <1>17
        <3>2. CASE k < size
            <4>1. k \in 1 .. size - 1
                BY <1>1, <1>17, <3>2
            <4> QED
                <5>1. f[k] = Len(H(k))
                    BY <1>16, <4>1
                <5>2. Len(H(k)) = Len(H(k - 1)) + Len(q(k)) + 1
                    BY <1>10, <1>17, <3>2
                <5> QED
                    BY <3>1, <5>1, <5>2
        <3>3. CASE k = size
            BY <1>1, <1>22, <1>10, <1>16, <1>17, <3>1, <3>3
        <3> QED
            BY <1>1, <1>1, <1>17, <3>2, <3>3
    <2> QED
        BY <2>1, <2>2
<1>18. /\ Segments(new) = [k \in 1 .. size |-> SubSeq(new, From(f, k), f[k] - 1)]
    <2>1. DOMAIN f = 1 .. size
        BY <1>1, <1>16
    <2> QED
        BY <1>15, <2>1 DEF Segments, Parts, Ops, From
<1>19. ASSUME NEW k \in 1 .. size PROVE Segments(new)[k] = q(k)
    <2> DEFINE a == H(k - 1)
               l == Len(a)
               x == q(k)
    <2>1. l \in Nat /\ x \in Seq(W) /\ Len(x) \in Nat
        BY <1>1, <1>8, <1>9, <1>19
    <2>2. Segments(new)[k] = SubSeq(new, l + 1, l + Len(x))
        BY <1>17, <1>18, <1>19
    <2>3. Len(H(k)) <= Len(new) /\ \A i \in 1 .. Len(H(k)) : new[i] = H(k)[i]
        BY <1>9, <1>13, <1>19
    <2>4. /\ Len(H(k)) = l + Len(x) + Len(b(k)) /\ Len(b(k)) \in Nat
          /\ \A i \in 1 .. Len(x) : H(k)[l + i] = x[i]
        BY <1>1, <1>1, <1>7, <1>19 DEF Chain
    <2> HIDE DEF a, l, x
    <2>5. \A i \in 1 .. Len(x) : l + i \in 1 .. Len(H(k))
        BY <2>1, <2>4
    <2>6. l + Len(x) <= Len(new) /\ \A i \in 1 .. Len(x) : new[l + i] = x[i]
        BY <1>1, <1>14, <2>1, <2>3, <2>4, <2>5
    <2>7. SubSeq(new, l + 1, l + Len(x)) = x
        <3> DEFINE y == SubSeq(new, l + 1, l + Len(x))
        <3>1. y \in Seq(W) /\ Len(y) = Len(x) /\ \A i \in 1 .. Len(x) : y[i] = new[l + i]
            BY <1>14, <2>1, <2>6
        <3> HIDE DEF y
        <3>2. y = x
            BY <2>1, <2>6, <3>1, SeqEqual
        <3> QED
            BY <3>2 DEF y
    <2> QED
        BY <2>2, <2>7 DEF x
<1>20. Len(Segments(new)) = size
    <2> DEFINE u == [k \in 1 .. size |-> SubSeq(new, From(f, k), f[k] - 1)]
    <2>1. u \in [1 .. size -> {u[k] : k \in 1 .. size}]
        OBVIOUS
    <2>2. Len(u) = size
        <3> HIDE DEF u
        <3> QED
            BY <1>1, <2>1
    <2> QED
        BY <1>18, <2>2
<1>21. \A k \in 1 .. size : Segments(new)[k] = Quiet(c, k)
    BY <1>19 DEF q
<1>23. Resegmented(c, Rebuilt(c), W)
    BY <1>1, <1>14, <1>20, <1>21 DEF Resegmented, new
<1>24. Rewritten(c) = Rebuilt(c)
    BY RewrittenIsRebuilt
<1> QED
    BY <1>23, <1>24, Zenon

\* The k-th segment of a command meets a rule.
Meets(c, k) == k \in 1 .. Len(Segments(c)) /\ Applicable(Segments(c)[k]) # {}

LEMMA FiredMeets ==
    ASSUME NEW W, RuleFlags \subseteq W, NEW c \in Seq(W)
    PROVE  /\ \A f \in Fired(c) : \E k : Meets(c, k) /\ f = <<k, FirstRule(Segments(c)[k])>>
           /\ IsFiniteSet(Fired(c))
<1> DEFINE s == Segments(c)
           hit == {k \in 1 .. Len(s) : Applicable(s[k]) # {}}
<1>1. DOMAIN s = 1 .. Len(s) /\ Len(s) \in Nat
    <2> DEFINE V == Seq(W)
    <2>1. s \in Seq(V)
        BY Pieces
    <2> HIDE DEF V, s
    <2> QED
        BY <2>1
<1>2. Fired(c) = {<<k, FirstRule(s[k])>> : k \in hit}
    BY <1>1 DEF Fired
<1>3. IsFiniteSet(hit)
    <2>1. IsFiniteSet(1 .. Len(s))
        <3> DEFINE len == Len(s)
        <3>1. len \in Int
            BY <1>1
        <3> HIDE DEF len
        <3>2. IsFiniteSet(1 .. len)
            BY <3>1, FS_Interval
        <3> QED
            BY <3>2 DEF len
    <2> DEFINE span == 1 .. Len(s)
    <2>2. hit \subseteq span
        OBVIOUS
    <2> HIDE DEF span, hit
    <2>3. IsFiniteSet(span)
        BY <2>1 DEF span
    <2> QED
        BY <2>2, <2>3, FS_Subset
<1>4. \A k \in hit : Meets(c, k)
    BY DEF Meets
<1> HIDE DEF s, hit
<1>5. IsFiniteSet(Fired(c))
    <2> DEFINE fire[k \in hit] == <<k, FirstRule(s[k])>>
               fired == Fired(c)
    <2>1. \A k \in hit : fire[k] = <<k, FirstRule(s[k])>>
        OBVIOUS
    <2>2. fire \in [hit -> fired]
        BY <1>2
    <2>3. \A f \in fired : \E k \in hit : fire[k] = f
        BY <1>2, <2>1
    <2> HIDE DEF fire, fired
    <2>4. fire \in Surjection(hit, fired)
        BY <2>2, <2>3 DEF Surjection
    <2>5. IsFiniteSet(fired)
        BY <1>3, <2>4, FS_Surjection
    <2> QED
        BY <2>5 DEF fired
<1>6. \A f \in Fired(c) : \E k : Meets(c, k) /\ f = <<k, FirstRule(Segments(c)[k])>>
    BY <1>2, <1>4 DEF s
<1> QED
    BY <1>5, <1>6

\* A segment that meets a rule gets its flag, and is not what it was.
LEMMA MetIsFlagged ==
    ASSUME NEW W, RuleFlags \subseteq W, NEW c \in Seq(W), NEW k, Meets(c, k)
    PROVE  LET s == Segments(c)[k]
               r == FirstRule(s)
           IN  /\ s \in Seq(W) /\ Quiet(c, k) \in Seq(W) /\ r \in DOMAIN Rules /\ Applies(r, s)
               /\ Flagged(Quiet(c, k), s, Rules[r].flag)
               /\ Quiet(c, k) # s
<1> DEFINE s == Segments(c)[k]
           r == FirstRule(s)
           flag == Rules[r].flag
           q == Quiet(c, k)
<1>1. s \in Seq(W) /\ Applicable(s) # {} /\ q = Quietened(s)
    <2>1. k \in 1 .. Len(Ends(c, Ops))
        BY Pieces DEF Meets
    <2> QED
        BY <2>1, Pieces DEF Meets, Quiet
<1>2. q \in Seq(W) /\ r \in DOMAIN Rules /\ Applies(r, s) /\ Flagged(q, s, flag)
    <2> HIDE DEF s, q
    <2> QED
        BY <1>1, SegmentQuietened
<1>3. flag.kind = "word"
    BY <1>2, RulesSettle DEF Settles
<1> HIDE DEF flag, s, q, r
<1>4. q # s
    <2> SUFFICES ASSUME q = s PROVE FALSE
        OBVIOUS
    <2>1. PICK last \in 0 .. Len(s) :
            /\ Len(s) = last + 1 /\ s[last + 1] = flag
            /\ \A i \in last + 1 .. Len(s) : s[i].kind = "line end"
        BY <1>2 DEF Flagged
    <2>2. last + 1 \in last + 1 .. Len(s)
        <3> DEFINE len == Len(s)
        <3>1. len \in Nat
            BY <1>1 DEF s
        <3> HIDE DEF len
        <3>2. last \in 0 .. len /\ len = last + 1
            BY <2>1 DEF len
        <3>3. last + 1 \in last + 1 .. len
            BY <3>1, <3>2
        <3> QED
            BY <3>3 DEF len
    <2>3. s[last + 1].kind = "line end"
        BY <2>1, <2>2
    <2>4. "word" # "line end"
        OBVIOUS
    <2> QED
        BY <1>3, <2>1, <2>3, <2>4
<1> QED
    BY <1>1, <1>2, <1>4 DEF flag, s, q, r

\* What is rewritten is not what it was.
LEMMA RewritingShows ==
    ASSUME NEW W, RuleFlags \subseteq W, NEW c \in Seq(W), IsScanned(c), Fired(c) # {}
    PROVE  Rewritten(c) # c
<1> SUFFICES ASSUME Rewritten(c) = c PROVE FALSE
    OBVIOUS
<1>1. PICK f \in Fired(c) : TRUE
    OBVIOUS
<1>2. PICK k : Meets(c, k)
    BY <1>1, FiredMeets
<1>3. Resegmented(c, Rewritten(c), W)
    BY SegmentsOfRewritten
<1>4. Segments(c)[k] = Quiet(c, k)
    BY <1>2, <1>3 DEF Resegmented, Meets
<1> QED
    BY <1>2, <1>4, MetIsFlagged

-----------------------------------------------------------------------------
(* A rule fires once.                                                      *)

\* The segment that the rule of f was for has the flag of the rule.
Carries(c, f) ==
    /\ f[1] \in 1 .. Len(Segments(c)) /\ f[2] \in DOMAIN Rules
    /\ \E i \in 1 .. Len(Segments(c)[f[1]]) : Segments(c)[f[1]][i] = Rules[f[2]].flag

LEMMA FiredIsCarried ==
    ASSUME NEW W, RuleFlags \subseteq W, NEW c \in Seq(W), IsScanned(c), NEW f \in Fired(c)
    PROVE  Carries(Rewritten(c), f)
<1>1. PICK k : Meets(c, k) /\ f = <<k, FirstRule(Segments(c)[k])>>
    BY FiredMeets
<1> DEFINE s == Segments(c)[k]
           r == FirstRule(s)
           flag == Rules[r].flag
           q == Quiet(c, k)
<1>2. f[1] = k /\ f[2] = r
    BY <1>1
<1>3. k \in 1 .. Len(Segments(c))
    BY <1>1 DEF Meets
<1>4. s \in Seq(W) /\ q \in Seq(W) /\ r \in DOMAIN Rules /\ Flagged(q, s, flag)
    BY <1>1, MetIsFlagged
<1>5. Resegmented(c, Rewritten(c), W)
    BY SegmentsOfRewritten
<1>6. k \in 1 .. Len(Segments(Rewritten(c))) /\ Segments(Rewritten(c))[k] = q
    BY <1>3, <1>5 DEF Resegmented
<1> HIDE DEF s, r, flag, q
<1>7. \E i \in 1 .. Len(q) : q[i] = flag
    <2>1. PICK last \in 0 .. Len(s) : Len(q) = last + 1 /\ q[last + 1] = flag
        BY <1>4 DEF Flagged
    <2>2. last + 1 \in 1 .. Len(q)
        BY <1>4, <2>1
    <2> QED
        BY <2>1, <2>2
<1>8. \E i \in 1 .. Len(q) : q[i] = Rules[f[2]].flag
    BY <1>2, <1>7 DEF flag
<1> QED
    BY <1>2, <1>4, <1>6, <1>8 DEF Carries

LEMMA CarriedStays ==
    ASSUME NEW W, RuleFlags \subseteq W, NEW c \in Seq(W), IsScanned(c), NEW f, Carries(c, f)
    PROVE  Carries(Rewritten(c), f)
<1> DEFINE k == f[1]
           s == Segments(c)[k]
           carried == Rules[f[2]].flag
           q == Quiet(c, k)
<1>1. k \in 1 .. Len(Segments(c)) /\ f[2] \in DOMAIN Rules
      /\ \E i \in 1 .. Len(s) : s[i] = carried
    BY DEF Carries
<1>2. s \in Seq(W)
    <2>1. k \in 1 .. Len(Ends(c, Ops))
        BY <1>1, Pieces
    <2> QED
        BY <2>1, Pieces
<1>3. Resegmented(c, Rewritten(c), W)
    BY SegmentsOfRewritten
<1>4. k \in 1 .. Len(Segments(Rewritten(c))) /\ Segments(Rewritten(c))[k] = q
    BY <1>1, <1>3 DEF Resegmented
<1>5. carried.kind = "word"
    BY <1>1, RulesSettle DEF Settles
<1>6. \/ q = s
      \/ \E flag : Flagged(q, s, flag)
    BY <1>2, SegmentQuietened DEF Quiet
<1> HIDE DEF k, s, carried, q
<1>7. \E i \in 1 .. Len(q) : q[i] = carried
    <2>1. PICK i \in 1 .. Len(s) : s[i] = carried
        BY <1>1
    <2>2. CASE q = s
        BY <2>1, <2>2
    <2>3. CASE \E flag : Flagged(q, s, flag)
        <3>1. PICK flag : Flagged(q, s, flag)
            BY <2>3
        <3>2. PICK last \in 0 .. Len(s) :
                /\ Len(q) = last + 1
                /\ \A j \in 1 .. last : q[j] = s[j]
                /\ \A j \in last + 1 .. Len(s) : s[j].kind = "line end"
            BY <3>1 DEF Flagged
        <3>3. "word" # "line end"
            OBVIOUS
        <3>4. i \notin last + 1 .. Len(s)
            BY <1>5, <2>1, <3>2, <3>3
        <3>5. i \in 1 .. last /\ i \in 1 .. Len(q)
            <4> DEFINE len == Len(s)
            <4>1. len \in Nat
                BY <1>2
            <4> HIDE DEF len
            <4>2. last \in 0 .. len /\ i \in 1 .. len /\ i \notin last + 1 .. len
                BY <2>1, <3>2, <3>4 DEF len
            <4>3. i \in 1 .. last /\ i \in 1 .. last + 1
                BY <4>1, <4>2
            <4> QED
                BY <3>2, <4>3
        <3> QED
            BY <2>1, <3>2, <3>5
    <2> QED
        BY <1>6, <2>2, <2>3
<1> QED
    BY <1>1, <1>4, <1>7 DEF Carries, k, carried

LEMMA CarriedIsQuiet ==
    ASSUME NEW W, RuleFlags \subseteq W, NEW c \in Seq(W), NEW f, Carries(c, f)
    PROVE  f \notin Fired(c)
<1> SUFFICES ASSUME f \in Fired(c) PROVE FALSE
    OBVIOUS
<1>1. PICK k : Meets(c, k) /\ f = <<k, FirstRule(Segments(c)[k])>>
    BY FiredMeets
<1> DEFINE s == Segments(c)[k]
           r == FirstRule(s)
<1>2. f[1] = k /\ f[2] = r
    BY <1>1
<1>3. s \in Seq(W) /\ r \in DOMAIN Rules /\ Applies(r, s)
    BY <1>1, MetIsFlagged
<1>4. ~ HasFlag(s, Rules[r].flags)
    BY <1>3 DEF Applies
<1>5. PICK i \in 1 .. Len(s) : s[i] = Rules[r].flag
    BY <1>2 DEF Carries
<1> HIDE DEF s, r
<1>6. PICK flag \in Rules[r].flag.flags : flag \in Rules[r].flags
    BY <1>3, RulesSettle DEF Settles
<1>7. i \in DOMAIN s
    BY <1>3
<1>8. flag \in s[i].flags \cap Rules[r].flags
    BY <1>5, <1>6
<1> QED
    BY <1>4, <1>7, <1>8 DEF HasFlag

-----------------------------------------------------------------------------
(* The flags of a command that a shell reads alike.                        *)

\* Its segments are the simple commands of the shell.
LEMMA SegmentsAreSimple ==
    ASSUME NEW W, NEW c \in Seq(W), ReadAlike(c)
    PROVE  Ends(c, Separators) = Ends(c, Ops) /\ Parts(c, Separators) = Segments(c)
<1>1. \A i \in DOMAIN c : c[i].kind \in Separators <=> c[i].kind \in Ops
    BY Zenon DEF ReadAlike, Separators, Ops
<1>2. Places(c, Separators) = Places(c, Ops)
    BY <1>1, Zenon DEF Places
<1> DEFINE S == Places(c, Ops) \cup {Len(c) + 1}
           e == Ends(c, Separators)
           f == Ends(c, Ops)
<1>3. Lists(e, S)
    <2>1. Lists(Ends(c, Separators), Places(c, Separators) \cup {Len(c) + 1})
        BY EndsList
    <2> QED
        BY <1>2, <2>1, Zenon
<1>4. Lists(f, S)
    BY EndsList
<1>5. e = f
    <2> HIDE DEF e, f, S
    <2> QED
        BY <1>3, <1>4, ListsAgree
<1>6. Parts(c, Separators) = Parts(c, Ops)
    BY <1>5, Zenon DEF Parts
<1> QED
    BY <1>5, <1>6, Zenon DEF Segments, Ops

\* All is in one line.
InOneLine(s) == \A i \in 1 .. Len(s) : s[i].kind # "line end"

\* A segment without line ends that meets a rule is followed by its flag.
LEMMA FlagFollows ==
    ASSUME NEW W, NEW s \in Seq(W), NEW flag \in W, NEW q \in Seq(W), Flagged(q, s, flag),
           InOneLine(s)
    PROVE  q = Append(s, flag)
<1> DEFINE x == Append(s, flag)
           len == Len(s)
<1>1. len \in Nat /\ x \in Seq(W) /\ Len(x) = len + 1 /\ x[len + 1] = flag
      /\ \A i \in 1 .. len : x[i] = s[i]
    OBVIOUS
<1>2. PICK last \in 0 .. len :
        /\ Len(q) = last + 1 /\ q[last + 1] = flag
        /\ \A i \in 1 .. last : q[i] = s[i]
        /\ \A i \in last + 1 .. len : s[i].kind = "line end"
    BY DEF Flagged
<1>3. \A i \in 1 .. len : s[i].kind # "line end"
    BY Zenon DEF InOneLine
<1> HIDE DEF len, x
<1>4. last = len
    <2>0. last \in 0 .. len
        OBVIOUS
    <2> SUFFICES ASSUME last < len PROVE FALSE
        BY <1>1, <2>0
    <2>1. last + 1 \in last + 1 .. len /\ last + 1 \in 1 .. len
        BY <1>1, <2>0
    <2> QED
        BY <1>2, <1>3, <2>1
<1>5. Len(q) = Len(x) /\ \A i \in 1 .. Len(q) : q[i] = x[i]
    <2>1. Len(q) = len + 1 /\ Len(x) = len + 1
        BY <1>1, <1>2, <1>4
    <2>2. q[len + 1] = x[len + 1]
        BY <1>1, <1>2, <1>4
    <2>3. \A i \in 1 .. len : q[i] = x[i]
        BY <1>1, <1>2, <1>4
    <2>4. 1 .. len + 1 = (1 .. len) \cup {len + 1}
        BY <1>1
    <2> QED
        BY <2>1, <2>2, <2>3, <2>4
<1>6. q = x
    BY <1>1, <1>5, SeqEqual
<1> QED
    BY <1>6 DEF x

\* Nothing in the k-th segment is a line end, and what may not be followed by
\* anything is not its last lexeme.
LEMMA SegmentIsOpen ==
    ASSUME NEW W, NEW c \in Seq(W), ReadAlike(c), NEW k \in 1 .. Len(Ends(c, Ops))
    PROVE  LET s == Segments(c)[k]
           IN  /\ InOneLine(s)
               /\ \A i \in 1 .. Len(s) : s[i].kind \in Closing => i < Len(s)
<1> DEFINE e == Ends(c, Ops)
           s == Segments(c)[k]
           from == From(e, k)
           to == e[k]
           len == Len(c)
           size == Len(e)
<1>1. Cuts(Segments(c), e, c, Ops, W)
    BY PartsCut DEF Segments, Ops
<1>2. /\ size \in Nat /\ len \in Nat /\ to \in Nat /\ from \in Nat /\ k \in 1 .. size
      /\ from <= to /\ 1 <= from /\ to <= len + 1 /\ (k = size => to = len + 1)
      /\ Len(s) = to - from /\ DOMAIN c = 1 .. len
      /\ k < size => c[to].kind \in Ops
    <2>1. DOMAIN c = 1 .. Len(c) /\ Len(c) \in Nat
        OBVIOUS
    <2>2. k \in 1 .. size
        OBVIOUS
    <2>3. /\ e \in Seq(Nat) /\ size \in Nat /\ e[size] = len + 1
          /\ from \in 1 .. to /\ to <= len + 1 /\ Len(s) = to - from
          /\ k < size => c[to].kind \in Ops
        <3> HIDE DEF e
        <3> QED
            BY <1>1, <2>2, Zenon DEF Cuts
    <2>4. to \in Nat
        <3> HIDE DEF e
        <3> QED
            BY <2>2, <2>3
    <2>5. k = size => to = len + 1
        <3> HIDE DEF e
        <3> QED
            BY <2>3, Zenon
    <2>6. from \in Nat /\ from <= to /\ 1 <= from
        <3> HIDE DEF from, to
        <3> QED
            BY <2>3, <2>4
    <2> QED
        BY <2>1, <2>2, <2>3, <2>4, <2>5, <2>6, Zenon DEF len
<1>3. \A i \in 1 .. Len(s) : from + i - 1 \in DOMAIN c /\ s[i] = c[from + i - 1]
    <2> HIDE DEF e
    <2>1. k \in 1 .. Len(e)
        BY DEF e
    <2> QED
        BY <1>1, <2>1 DEF Cuts
<1> HIDE DEF e, s, from, to, len, size
<1>4. \A i \in DOMAIN c :
        /\ c[i].kind \notin {"group", "line end", "heredoc", "comment"}
        /\ c[i].kind = "backslash" => i < Len(c) /\ c[i + 1].kind # "operator"
    BY Zenon DEF ReadAlike
<1>5. \A i \in 1 .. Len(s) : s[i].kind # "line end"
    BY <1>3, <1>4, Zenon
<1>6. ASSUME NEW i \in 1 .. Len(s), s[i].kind \in Closing
      PROVE  i < Len(s)
    <2>1. s[i].kind = "backslash"
        BY <1>3, <1>4, <1>6, Zenon DEF Closing
    <2> DEFINE p == from + i - 1
    <2>2. p \in DOMAIN c /\ c[p].kind = "backslash"
        BY <1>3, <1>6, <2>1, Zenon
    <2>3. p < Len(c) /\ c[p + 1].kind # "operator"
        BY <1>4, <2>2, Zenon
    <2>4. p < len /\ p = from + i - 1
        BY <2>3 DEF len
    <2> HIDE DEF p
    <2>5. i # Len(s)
        <3> SUFFICES ASSUME i = Len(s) PROVE FALSE
            OBVIOUS
        <3>1. p + 1 = to
            BY <1>2, <2>4
        <3>2. k < size
            <4> SUFFICES ASSUME ~ (k < size) PROVE FALSE
                OBVIOUS
            <4>1. k = size
                BY <1>2
            <4> QED
                BY <1>2, <2>4, <3>1, <4>1
        <3>3. c[p + 1].kind \in Ops
            BY <1>2, <3>1, <3>2
        <3> QED
            BY <2>3, <3>3, Zenon DEF Ops
    <2> DEFINE m == Len(s)
    <2>6. m \in Nat /\ i \in 1 .. m /\ i # m
        BY <1>2, <1>6, <2>5
    <2> HIDE DEF m
    <2>7. i < m
        BY <2>6
    <2> QED
        BY <2>7 DEF m
<1> QED
    BY <1>5, <1>6, Zenon DEF InOneLine, s

\* So what becomes of a segment is what fits it.
LEMMA QuietFits ==
    ASSUME NEW W, RuleFlags \subseteq W, NEW c \in Seq(W), ReadAlike(c),
           NEW k \in 1 .. Len(Ends(c, Ops))
    PROVE  Quiet(c, k) \in Fitting(Segments(c)[k])
<1> DEFINE s == Segments(c)[k]
           r == FirstRule(s)
           q == Quiet(c, k)
           Open == \A i \in DOMAIN s : s[i].kind \in Closing => i < Len(s)
<1>1. s \in Seq(W) /\ k \in 1 .. Len(Segments(c))
    BY Pieces
<1>2. CASE Applicable(s) = {}
    <2>1. q = s
        BY <1>2 DEF Quiet, Quietened
    <2> HIDE DEF q, s
    <2>2. q \in Fitting(s)
        BY <2>1, Zenon DEF Fitting
    <2> QED
        BY <2>2 DEF q, s
<1>3. CASE Applicable(s) # {}
    <2>1. Meets(c, k)
        BY <1>1, <1>3 DEF Meets
    <2>2. q \in Seq(W) /\ r \in DOMAIN Rules /\ Applies(r, s) /\ Flagged(q, s, Rules[r].flag)
        BY <2>1, MetIsFlagged
    <2>3. Rules[r].flag \in W
        BY <2>2 DEF RuleFlags
    <2>4. /\ InOneLine(s)
          /\ \A i \in 1 .. Len(s) : s[i].kind \in Closing => i < Len(s)
        BY SegmentIsOpen
    <2> HIDE DEF q, s, r
    <2>5. q = Append(s, Rules[r].flag)
        BY <1>1, <2>2, <2>3, <2>4, FlagFollows
    <2>6. DOMAIN s = 1 .. Len(s)
        BY <1>1
    <2>7. \A i \in DOMAIN s : s[i].kind \in Closing => i < Len(s)
        BY <2>4, <2>6, Zenon
    <2>8. \E tool \in Rules[r].tools : Names(Skeleton(s), tool)
        BY <2>2, Zenon DEF Applies
    <2>9. q \in Fitting(s)
        BY <2>2, <2>5, <2>7, <2>8, Zenon DEF Fitting
    <2> QED
        BY <2>9 DEF q, s
<1> QED
    BY <1>2, <1>3

LEMMA FlagsOfRebuilt ==
    ASSUME NEW W, RuleFlags \subseteq W, NEW c \in Seq(W), IsScanned(c), ReadAlike(c)
    PROVE  FlagsFit(c, Rewritten(c))
<1> DEFINE s == Segments(c)
           after == [k \in DOMAIN s |-> Quietened(s[k])]
           read == ShellRead(c)
           ends == Ends(read, Separators)
           parts == Parts(read, Separators)
<1>1. read = c
    BY Zenon DEF ReadAlike
<1>2. Ends(c, Separators) = Ends(c, Ops) /\ Parts(c, Separators) = s
    BY SegmentsAreSimple
<1>3. ends = Ends(c, Ops) /\ parts = s
    <2> HIDE DEF read, s
    <2> QED
        BY <1>1, <1>2, Zenon
<1>4. DOMAIN s = 1 .. Len(Ends(c, Ops))
    <2> DEFINE V == Seq(W)
    <2>1. s \in Seq(V) /\ Len(s) = Len(Ends(c, Ops))
        BY Pieces
    <2> HIDE DEF V, s
    <2> QED
        BY <2>1
<1>5. \A k \in DOMAIN s : after[k] \in Fitting(s[k])
    <2> SUFFICES ASSUME NEW k \in DOMAIN s PROVE after[k] \in Fitting(s[k])
        OBVIOUS
    <2>1. Quiet(c, k) \in Fitting(s[k])
        BY <1>4, QuietFits
    <2>2. after[k] = Quiet(c, k)
        BY DEF Quiet
    <2> HIDE DEF after
    <2> QED
        BY <2>1, <2>2, Zenon
<1>6. Rewritten(c) = Rejoined(c, Ends(c, Ops), after)
    <2>1. Rewritten(c) = Rebuilt(c)
        BY RewrittenIsRebuilt
    <2>2. Rebuilt(c) = Rejoined(c, Ends(c, Ops), after)
        BY DEF Rebuilt, Ops
    <2> QED
        BY <2>1, <2>2, Zenon
<1>7. after \in [DOMAIN s -> UNION {Fitting(s[k]) : k \in DOMAIN s}]
    <2>1. \A k \in DOMAIN s : after[k] \in UNION {Fitting(s[j]) : j \in DOMAIN s}
        <3> HIDE DEF after, s
        <3> QED
            BY <1>5, Zenon
    <2>2. after = [k \in DOMAIN s |-> after[k]]
        OBVIOUS
    <2> HIDE DEF after, s
    <2> QED
        BY <2>1, <2>2, Zenon
<1> HIDE DEF s, after, read, ends, parts
<1>8. \E new \in [DOMAIN parts -> UNION {Fitting(parts[k]) : k \in DOMAIN parts}] :
        /\ \A k \in DOMAIN parts : new[k] \in Fitting(parts[k])
        /\ Raw(Rewritten(c)) = Raw(Rejoined(read, ends, new))
    <2>1. /\ after \in [DOMAIN parts -> UNION {Fitting(parts[k]) : k \in DOMAIN parts}]
          /\ \A k \in DOMAIN parts : after[k] \in Fitting(parts[k])
        BY <1>3, <1>5, <1>7, Zenon
    <2>2. Raw(Rewritten(c)) = Raw(Rejoined(read, ends, after))
        BY <1>1, <1>3, <1>6, Zenon
    <2> QED
        BY <2>1, <2>2, Zenon
<1> QED
    BY <1>8, Zenon DEF FlagsFit, read, ends, parts

\* What the rules save is a number.
LEMMA SavedIsANumber ==
    ASSUME NEW W, RuleFlags \subseteq W, NEW c \in Seq(W)
    PROVE  SavedBy(c) \in Nat
<1> DEFINE S == Fired(c)
           f == [x \in S |-> Rules[x[2]].saves]
           pick(s) == CHOOSE x \in s : TRUE
           Iter(i) == i = [s \in SUBSET S |->
                             IF s = {} THEN 0
                             ELSE i[s \ {pick(s)}] + Rules[pick(s)[2]].saves]
           it == CHOOSE i : Iter(i)
<1>1. IsFiniteSet(S) /\ \A x \in S : \E k : Meets(c, k) /\ x = <<k, FirstRule(Segments(c)[k])>>
    BY FiredMeets
<1>2. \A x \in S : x[2] \in DOMAIN Rules
    <2> SUFFICES ASSUME NEW x \in S PROVE x[2] \in DOMAIN Rules
        OBVIOUS
    <2>1. PICK k : Meets(c, k) /\ x = <<k, FirstRule(Segments(c)[k])>>
        BY <1>1
    <2>2. FirstRule(Segments(c)[k]) \in DOMAIN Rules
        BY <2>1, MetIsFlagged
    <2> QED
        BY <2>1, <2>2
<1>3. f \in [S -> Nat] /\ \A x \in S : f[x] = Rules[x[2]].saves
    BY <1>2, RulesSettle DEF Settles
<1>4. SavedBy(c) = it[S]
    BY DEF SavedBy, FoldSet, MapThenFoldSet
<1> HIDE DEF f, S
<1>5. PICK g \in [SUBSET S -> Nat] : SumUnrolls(g, S, f)
    BY <1>1, <1>3, SumExists
<1>6. \A s \in SUBSET S : s # {} => pick(s) \in S
    OBVIOUS
<1>7. \A s \in SUBSET S : g[s] = IF s = {} THEN 0 ELSE g[s \ {pick(s)}] + f[pick(s)]
    BY <1>5 DEF SumUnrolls
<1> HIDE DEF pick
<1>8. Iter(g)
    BY <1>3, <1>5, <1>6, <1>7
<1>9. Iter(it)
    <2> HIDE DEF Iter
    <2> QED
        BY <1>8
<1> HIDE DEF it
<1>10. \A s \in SUBSET S : it[s] = IF s = {} THEN 0 ELSE it[s \ {pick(s)}] + f[pick(s)]
    BY <1>3, <1>6, <1>9
<1>11. SumUnrolls(it, S, f)
    BY <1>9, <1>10 DEF SumUnrolls, pick
<1>12. IsSum(it, S, f)
    BY <1>1, <1>3, <1>11, SumIsSum
<1>13. it[S] \in Nat
    BY <1>12 DEF IsSum
<1> QED
    BY <1>4, <1>13

-----------------------------------------------------------------------------
(* The calls and their rows.                                               *)

\* A call has all of its fields.
Fields == {"host", "tool", "arg", "of", "ran", "stage", "verdict", "saved", "compressed",
           "kept", "killed"}
Whole(c) == c = [f \in Fields |-> c[f]]

Shape ==
    /\ calls \in Seq({calls[m] : m \in DOMAIN calls})
    /\ \A m \in DOMAIN calls : Whole(calls[m])

OneAtATime == \A m \in DOMAIN calls : m # n => calls[m].stage = "over"

\* The stages at which a row of this source may be there.
After(source) ==
    IF source = "compress" THEN {"answer after", "over"}
    ELSE Stages \ {"before", "log before"}

RowsByStage ==
    \A row \in ledger :
        /\ row.call \in DOMAIN calls
        /\ row.source \in {"precall", "compress"}
        /\ calls[row.call].stage \in After(row.source)

IInv == Shape /\ OneAtATime /\ RowsByStage /\ RowsAreOfTheirCall /\ AnswersAreBooked

-----------------------------------------------------------------------------
(* What the two ways to change the sequence of calls do.                   *)

\* A new call is the last one, and the others are as they were.
LEMMA Appended ==
    ASSUME Shape, NEW c, Whole(c), calls' = Append(calls, c)
    PROVE  /\ Shape'
           /\ n' = n + 1 /\ n \in Nat
           /\ DOMAIN calls' = DOMAIN calls \cup {n + 1}
           /\ calls'[n + 1] = c
           /\ \A m \in DOMAIN calls : m # n + 1 /\ calls'[m] = calls[m]
<1> DEFINE S == {calls[m] : m \in DOMAIN calls} \cup {c}
<1>1. calls \in Seq(S)
    BY DEF Shape
<1>2. calls' \in Seq(S)
    BY <1>1
<1>3. /\ n' = n + 1 /\ n \in Nat
      /\ DOMAIN calls' = DOMAIN calls \cup {n + 1}
      /\ calls'[n + 1] = c
      /\ \A m \in DOMAIN calls : m # n + 1 /\ calls'[m] = calls[m]
    BY <1>1, <1>2 DEF n
<1>4. calls' \in Seq({calls'[m] : m \in DOMAIN calls'})
    BY <1>2
<1>5. \A m \in DOMAIN calls' : Whole(calls'[m])
    BY <1>3 DEF Shape
<1> QED
    BY <1>3, <1>4, <1>5 DEF Shape

\* The last call changes, and the others are as they were.
LEMMA Updated ==
    ASSUME Shape, calls # <<>>, NEW c, Whole(c), Becomes(c)
    PROVE  /\ Shape'
           /\ n' = n /\ n \in DOMAIN calls
           /\ DOMAIN calls' = DOMAIN calls
           /\ calls'[n] = c
           /\ \A m \in DOMAIN calls : m # n => calls'[m] = calls[m]
<1> DEFINE S == {calls[m] : m \in DOMAIN calls} \cup {c}
<1>1. calls \in Seq(S)
    BY DEF Shape
<1>2. n \in DOMAIN calls
    BY <1>1 DEF n
<1>3. calls' \in Seq(S)
    BY <1>1, <1>2 DEF Becomes
<1>4. /\ n' = n
      /\ DOMAIN calls' = DOMAIN calls
      /\ calls'[n] = c
      /\ \A m \in DOMAIN calls : m # n => calls'[m] = calls[m]
    BY <1>1, <1>2, <1>3 DEF Becomes, n
<1>5. calls' \in Seq({calls'[m] : m \in DOMAIN calls'})
    BY <1>3
<1>6. \A m \in DOMAIN calls' : Whole(calls'[m])
    BY <1>4 DEF Shape
<1> QED
    BY <1>2, <1>4, <1>5, <1>6 DEF Shape

LEMMA LastCall ==
    ASSUME Shape, calls # <<>>
    PROVE  n \in DOMAIN calls /\ Whole(calls[n])
<1>1. n \in DOMAIN calls
    BY DEF Shape, n
<1> QED
    BY <1>1 DEF Shape

\* A call that goes on to another stage is the same otherwise.
LEMMA Staged ==
    ASSUME NEW c, Whole(c), NEW next
    PROVE  LET k == [c EXCEPT !.stage = next]
           IN  /\ Whole(k) /\ k.stage = next
               /\ k.saved = c.saved /\ k.compressed = c.compressed
               /\ c.stage # "log before" /\ Owes(k) => Owes(c)
<1> DEFINE k == [c EXCEPT !.stage = next]
<1>1. /\ Whole(k) /\ k.stage = next
      /\ k.saved = c.saved /\ k.compressed = c.compressed
    BY DEF Whole, Fields
<1>2. k.verdict = c.verdict /\ k.kept = c.kept /\ k.killed = c.killed
    BY DEF Whole, Fields
<1>3. c.stage # "log before" /\ Owes(k) => Owes(c)
    BY <1>2, Zenon DEF Owes
<1> QED
    BY <1>1, <1>3

LEMMA StagedUnkept ==
    ASSUME NEW c, Whole(c), NEW next
    PROVE  LET k == [c EXCEPT !.stage = next, !.kept = FALSE]
           IN  /\ Whole(k) /\ k.stage = next
               /\ k.saved = c.saved /\ k.compressed = c.compressed /\ ~ Owes(k)
<1> DEFINE k == [c EXCEPT !.stage = next, !.kept = FALSE]
<1>1. /\ Whole(k) /\ k.stage = next
      /\ k.saved = c.saved /\ k.compressed = c.compressed
    BY DEF Whole, Fields
<1>2. k.kept = FALSE
    BY DEF Whole, Fields
<1>3. ~ Owes(k)
    BY <1>2, Zenon DEF Owes
<1> QED
    BY <1>1, <1>3

\* A step that writes no row keeps the invariant if it neither goes back
\* behind a row, nor changes what a row may hold, nor owes a new one.
LEMMA Advanced ==
    ASSUME IInv, calls # <<>>, NEW c, Whole(c), Becomes(c), UNCHANGED ledger,
           \A source \in {"precall", "compress"} :
               calls[n].stage \in After(source) => c.stage \in After(source),
           calls[n].stage \in After("precall") => c.saved = calls[n].saved,
           calls[n].stage \in After("compress") => c.compressed = calls[n].compressed,
           Owes(c) => Owes(calls[n])
    PROVE  IInv'
<1>1. /\ Shape' /\ n' = n /\ n \in DOMAIN calls
      /\ DOMAIN calls' = DOMAIN calls
      /\ calls'[n] = c
      /\ \A m \in DOMAIN calls : m # n => calls'[m] = calls[m]
    BY Updated DEF IInv
<1>2. OneAtATime'
    BY <1>1 DEF IInv, OneAtATime
<1>3. RowsByStage'
    BY <1>1 DEF IInv, RowsByStage
<1>4. RowsAreOfTheirCall'
    <2>1. ASSUME NEW row \in ledger
          PROVE  row.tokens = IF row.source = "compress" THEN calls'[row.call].compressed
                              ELSE calls'[row.call].saved
        BY <1>1 DEF IInv, RowsAreOfTheirCall, RowsByStage
    <2> QED
        BY <2>1 DEF IInv, RowsAreOfTheirCall
<1>5. AnswersAreBooked'
    <2>1. ASSUME NEW m \in DOMAIN calls, Owes(calls'[m])
          PROVE  Owes(calls[m])
        BY <1>1, <2>1
    <2> QED
        BY <1>1, <2>1 DEF IInv, AnswersAreBooked
<1> QED
    BY <1>1, <1>2, <1>3, <1>4, <1>5 DEF IInv

\* The step that writes a row, or has it dropped, keeps the invariant if the
\* call may have no row of that source before it and may have one after it.
LEMMA RowWritten ==
    ASSUME IInv, calls # <<>>, NEW source \in {"precall", "compress"}, NEW tokens, NEW next,
           Log(source, tokens, next),
           calls[n].stage \notin After(source),
           next \in After(source),
           \A other \in {"precall", "compress"} :
               calls[n].stage \in After(other) => next \in After(other),
           tokens = IF source = "compress" THEN calls[n].compressed ELSE calls[n].saved,
           next # "log before",
           source = "compress" => calls[n].stage # "log before"
    PROVE  IInv'
<1> DEFINE kept == [calls[n] EXCEPT !.stage = next]
           dropped == [calls[n] EXCEPT !.stage = next, !.kept = FALSE]
           row == [call |-> n, source |-> source, tokens |-> tokens]
<1>1. n \in DOMAIN calls /\ Whole(calls[n])
    BY LastCall DEF IInv
<1>2. CASE ledger' = ledger \cup {row} /\ Becomes(kept)
    <2>1. Whole(kept) /\ kept.stage = next /\ kept.saved = calls[n].saved
          /\ kept.compressed = calls[n].compressed
          /\ (calls[n].stage # "log before" /\ Owes(kept) => Owes(calls[n]))
        BY <1>1, Staged
    <2> HIDE DEF kept
    <2>2. /\ Shape' /\ n' = n /\ n \in DOMAIN calls
          /\ DOMAIN calls' = DOMAIN calls
          /\ calls'[n] = kept
          /\ \A m \in DOMAIN calls : m # n => calls'[m] = calls[m]
        BY <1>2, <2>1, Updated DEF IInv
    <2>3. OneAtATime'
        BY <2>2 DEF IInv, OneAtATime
    <2>4. RowsByStage'
        <3>1. /\ row.call \in DOMAIN calls' /\ row.source \in {"precall", "compress"}
              /\ calls'[row.call].stage \in After(row.source)
            BY <2>1, <2>2
        <3>2. ASSUME NEW r \in ledger
              PROVE  /\ r.call \in DOMAIN calls' /\ r.source \in {"precall", "compress"}
                     /\ calls'[r.call].stage \in After(r.source)
            BY <2>1, <2>2 DEF IInv, RowsByStage
        <3> QED
            BY <1>2, <3>1, <3>2 DEF RowsByStage
    <2>5. RowsAreOfTheirCall'
        <3>1. \A other \in ledger : ~ (other.call = n /\ other.source = source)
            BY DEF IInv, RowsByStage
        <3>2. row.call = n /\ row.source = source
            OBVIOUS
        <3> HIDE DEF row
        <3>5. \A r, other \in ledger' :
                other.call = r.call /\ other.source = r.source => other = r
            BY <1>2, <3>1, <3>2 DEF IInv, RowsAreOfTheirCall
        <3>3. \A r \in ledger :
                r.tokens = IF r.source = "compress" THEN calls'[r.call].compressed
                           ELSE calls'[r.call].saved
            BY <2>1, <2>2 DEF IInv, RowsAreOfTheirCall, RowsByStage
        <3>4. row.tokens = IF row.source = "compress" THEN calls'[row.call].compressed
                           ELSE calls'[row.call].saved
            BY <2>1, <2>2 DEF row
        <3> QED
            BY <1>2, <3>3, <3>4, <3>5 DEF RowsAreOfTheirCall
    <2>6. AnswersAreBooked'
        <3>1. ASSUME NEW m \in DOMAIN calls, m # n, Owes(calls'[m])
              PROVE  \E r \in ledger' : r.call = m /\ r.source = "precall"
            BY <1>2, <2>2, <3>1 DEF IInv, AnswersAreBooked
        <3>2. ASSUME Owes(calls'[n])
              PROVE  \E r \in ledger' : r.call = n /\ r.source = "precall"
            <4>1. CASE source = "precall"
                <5>1. row \in ledger' /\ row.call = n /\ row.source = "precall"
                    BY <1>2, <4>1
                <5> QED
                    BY <5>1
            <4>2. CASE source = "compress"
                <5>1. Owes(calls[n])
                    BY <2>1, <2>2, <3>2, <4>2
                <5> QED
                    BY <1>2, <2>2, <5>1 DEF IInv, AnswersAreBooked
            <4> QED
                BY <4>1, <4>2
        <3> QED
            BY <2>2, <3>1, <3>2 DEF AnswersAreBooked
    <2> QED
        BY <2>2, <2>3, <2>4, <2>5, <2>6 DEF IInv
<1>3. CASE Becomes(dropped) /\ UNCHANGED ledger
    <2>1. Whole(dropped) /\ dropped.stage = next /\ dropped.saved = calls[n].saved
          /\ dropped.compressed = calls[n].compressed /\ ~ Owes(dropped)
        BY <1>1, StagedUnkept
    <2> HIDE DEF dropped
    <2> QED
        BY <1>3, <2>1, Advanced
<1> QED
    BY <1>2, <1>3 DEF Log

-----------------------------------------------------------------------------
\* Which rows a stage allows.
LEMMA AfterOf ==
    /\ After("compress") = {"answer after", "over"}
    /\ After("precall") = {"answer before", "run", "after", "log after", "answer after", "over"}
    BY DEF After, Stages

\* A step to another stage, and nothing else.
LEMMA StageChanged ==
    ASSUME IInv, calls # <<>>, NEW next,
           Becomes([calls[n] EXCEPT !.stage = next]), UNCHANGED ledger,
           calls[n].stage # "log before",
           \A source \in {"precall", "compress"} :
               calls[n].stage \in After(source) => next \in After(source)
    PROVE  IInv'
<1> DEFINE k == [calls[n] EXCEPT !.stage = next]
<1>1. Whole(calls[n])
    BY LastCall DEF IInv
<1>2. /\ Whole(k) /\ k.stage = next
      /\ k.saved = calls[n].saved /\ k.compressed = calls[n].compressed
      /\ Owes(k) => Owes(calls[n])
    BY <1>1, Staged
<1> HIDE DEF k
<1> QED
    BY <1>2, Advanced DEF k

\* A bridge that is killed leaves no debt.
LEMMA Killed ==
    ASSUME IInv, calls # <<>>, NEW next,
           Becomes([calls[n] EXCEPT !.stage = next, !.killed = TRUE]), UNCHANGED ledger,
           \A source \in {"precall", "compress"} :
               calls[n].stage \in After(source) => next \in After(source)
    PROVE  IInv'
<1> DEFINE k == [calls[n] EXCEPT !.stage = next, !.killed = TRUE]
<1>1. Whole(calls[n])
    BY LastCall DEF IInv
<1>2. /\ Whole(k) /\ k.stage = next
      /\ k.saved = calls[n].saved /\ k.compressed = calls[n].compressed
    BY <1>1 DEF Whole, Fields
<1>3. k.killed = TRUE
    BY <1>1 DEF Whole, Fields
<1>4. ~ Owes(k)
    BY <1>3, Zenon DEF Owes
<1> HIDE DEF k
<1> QED
    BY <1>2, <1>4, Advanced DEF k

\* A verdict is given before any row is.
LEMMA VerdictGiven ==
    ASSUME IInv, calls # <<>>, NEW verdict, NEW saved, calls[n].stage = "before",
           Becomes([calls[n] EXCEPT !.stage = "log before", !.verdict = verdict,
                                    !.saved = saved]),
           UNCHANGED ledger
    PROVE  IInv'
<1> DEFINE k == [calls[n] EXCEPT !.stage = "log before", !.verdict = verdict,
                                 !.saved = saved]
<1>1. Whole(calls[n])
    BY LastCall DEF IInv
<1>2. Whole(k) /\ k.stage = "log before"
    BY <1>1 DEF Whole, Fields
<1>3. ~ Owes(k)
    BY <1>2, Zenon DEF Owes
<1> HIDE DEF k
<1> QED
    BY <1>2, <1>3, Advanced, AfterOf DEF k

-----------------------------------------------------------------------------
\* Init establishes the invariant.
LEMMA InitIInv == Init => IInv
    BY DEF Init, IInv, Shape, OneAtATime, RowsByStage, RowsAreOfTheirCall, AnswersAreBooked

\* A new call owes nothing and has no row.
LEMMA StartIInv ==
    ASSUME IInv, NEW host, NEW tool, NEW arg, NEW of, Start(host, tool, arg, of)
    PROVE  IInv'
<1> DEFINE c == NewCall(host, tool, arg, of)
<1>1. Whole(c) /\ c.stage = "before" /\ c.verdict = "pass"
    BY DEF Whole, Fields, NewCall
<1>2. calls' = Append(calls, c) /\ UNCHANGED ledger
    BY DEF Start
<1> HIDE DEF c
<1>3. /\ Shape' /\ n' = n + 1 /\ n \in Nat
      /\ DOMAIN calls' = DOMAIN calls \cup {n + 1}
      /\ calls'[n + 1] = c
      /\ \A m \in DOMAIN calls : m # n + 1 /\ calls'[m] = calls[m]
    BY <1>1, <1>2, Appended DEF IInv
<1>4. \A m \in DOMAIN calls : calls[m].stage = "over"
    BY DEF Start, Idle, At, IInv, OneAtATime
<1>5. OneAtATime'
    BY <1>3, <1>4 DEF OneAtATime
<1>6. RowsByStage'
    BY <1>2, <1>3 DEF IInv, RowsByStage
<1>7. RowsAreOfTheirCall'
    BY <1>2, <1>3 DEF IInv, RowsAreOfTheirCall, RowsByStage
<1>8. AnswersAreBooked'
    <2>1. ~ Owes(c)
        BY <1>1, Zenon DEF Owes
    <2> QED
        BY <1>2, <1>3, <2>1 DEF IInv, AnswersAreBooked
<1> QED
    BY <1>3, <1>5, <1>6, <1>7, <1>8 DEF IInv

\* Each step keeps the invariant: the bridges by the two lemmas above, all else
\* leaves calls and rows alone.
LEMMA StepIInv == IInv /\ [Next]_vars => IInv'
<1> SUFFICES ASSUME IInv, [Next]_vars PROVE IInv'
    OBVIOUS
<1>1. CASE \E host \in Host :
            \/ \E command \in Commands : Start(host, "bash", command, n + 1)
            \/ \E tool \in ReadingTools, path \in Paths : Start(host, tool, path, n + 1)
    BY <1>1, StartIInv
<1>2. CASE StartAgain
    BY <1>2, StartIInv DEF StartAgain
<1>3. CASE BeforePass
    BY <1>3, StageChanged, AfterOf DEF BeforePass, At
<1>4. CASE BeforeModify
    BY <1>4, VerdictGiven DEF BeforeModify, At
<1>5. CASE BeforeBlock
    BY <1>5, VerdictGiven DEF BeforeBlock, At
<1>6. CASE LogBefore
    BY <1>6, RowWritten, AfterOf DEF LogBefore, At
<1>7. CASE AnswerBefore
    <2>1. calls # <<>> /\ calls[n].stage = "answer before"
        BY <1>7 DEF AnswerBefore, At
    <2>2. CASE calls[n].verdict = "block"
        BY <1>7, <2>1, <2>2, StageChanged, AfterOf DEF AnswerBefore
    <2>3. CASE calls[n].verdict # "block"
        <3> DEFINE k == [calls[n] EXCEPT !.stage = "run", !.ran = Rewritten(@)]
        <3>1. Whole(calls[n])
            BY <2>1, LastCall DEF IInv
        <3>2. /\ Whole(k) /\ k.stage = "run"
              /\ k.saved = calls[n].saved /\ k.compressed = calls[n].compressed
            BY <3>1 DEF Whole, Fields
        <3>3. k.verdict = calls[n].verdict /\ k.kept = calls[n].kept /\ k.killed = calls[n].killed
            BY <3>1 DEF Whole, Fields
        <3>4. Owes(k) => Owes(calls[n])
            BY <2>1, <3>3 DEF Owes
        <3>5. Becomes(k) /\ UNCHANGED ledger
            BY <1>7, <2>3 DEF AnswerBefore
        <3> HIDE DEF k
        <3> QED
            BY <2>1, <3>2, <3>4, <3>5, Advanced, AfterOf
    <2> QED
        BY <2>2, <2>3
<1>8. CASE NoAnswerBefore
    BY <1>8, Killed, AfterOf DEF NoAnswerBefore, At
<1>9. CASE ToolEnds
    BY <1>9, StageChanged, AfterOf DEF ToolEnds, At
<1>10. CASE AfterPass
    BY <1>10, StageChanged, AfterOf DEF AfterPass, At
<1>11. CASE \E saved \in Savings : AfterCompress(saved)
    <2>1. PICK saved \in Savings : AfterCompress(saved)
        BY <1>11
    <2> DEFINE k == [calls[n] EXCEPT !.stage = "log after", !.compressed = saved]
    <2>2. calls # <<>> /\ calls[n].stage = "after" /\ Becomes(k) /\ UNCHANGED ledger
        BY <2>1 DEF AfterCompress, At
    <2>3. Whole(calls[n])
        BY <2>2, LastCall DEF IInv
    <2>4. Whole(k) /\ k.stage = "log after" /\ k.saved = calls[n].saved
        BY <2>3 DEF Whole, Fields
    <2>5. k.verdict = calls[n].verdict /\ k.kept = calls[n].kept /\ k.killed = calls[n].killed
        BY <2>3 DEF Whole, Fields
    <2>6. Owes(k) => Owes(calls[n])
        BY <2>2, <2>5 DEF Owes
    <2> HIDE DEF k
    <2> QED
        BY <2>2, <2>4, <2>6, Advanced, AfterOf
<1>12. CASE LogAfter
    BY <1>12, RowWritten, AfterOf DEF LogAfter, At
<1>13. CASE AnswerAfter
    BY <1>13, StageChanged, AfterOf DEF AnswerAfter, At
<1>14. CASE NoAnswerAfter
    BY <1>14, Killed, AfterOf DEF NoAnswerAfter, At
<1>15. CASE (\E patterns \in IgnoreFiles : EditIgnoreFile(patterns)) \/ UNCHANGED vars
    <2>1. UNCHANGED <<calls, ledger>>
        BY <1>15 DEF EditIgnoreFile, vars
    <2>2. n' = n
        BY <2>1 DEF n
    <2> QED
        BY <2>1, <2>2 DEF IInv, Shape, OneAtATime, RowsByStage, RowsAreOfTheirCall,
                          AnswersAreBooked
<1> QED
    BY <1>1, <1>2, <1>3, <1>4, <1>5, <1>6, <1>7, <1>8, <1>9, <1>10, <1>11, <1>12, <1>13,
       <1>14, <1>15 DEF Next

\* For any commands, paths and ignore files: what a bridge denied or changed is
\* on the books, unless the store dropped the row or a bridge was killed
\* (hook.ts:78-118, cursor-hook.ts:48-79).
THEOREM AnswersAreAlwaysBooked == Spec => []AnswersAreBooked
<1>1. IInv => AnswersAreBooked
    BY DEF IInv
<1> QED
    BY InitIInv, StepIInv, <1>1, PTL DEF Spec

\* Likewise: a bridge writes at most one row for a call, with the tokens that it
\* saved (hook.ts:139-149).
THEOREM RowsAreAlwaysOfTheirCall == Spec => []RowsAreOfTheirCall
<1>1. IInv => RowsAreOfTheirCall
    BY DEF IInv
<1> QED
    BY InitIInv, StepIInv, <1>1, PTL DEF Spec

-----------------------------------------------------------------------------
(* The types, and what was done to the commands.                           *)

\* The types of the m-th call.
Typed(c, m) ==
    /\ c.host \in Host
    /\ c.tool \in ReadingTools \cup {"bash"}
    /\ c.of \in 1 .. m
    /\ c.stage \in Stages
    /\ c.verdict \in Verdicts
    /\ c.saved \in Nat /\ c.compressed \in Savings \cup {0}
    /\ c.kept \in BOOLEAN /\ c.killed \in BOOLEAN
    /\ c.compressed # 0 => c.host = "claude-code"

\* The types, and that only Claude Code calls a bridge after a call.
TypeInv ==
    /\ Shape
    /\ \A m \in DOMAIN calls : Typed(calls[m], m)
    /\ \A m \in DOMAIN calls :
        calls[m].stage \in {"after", "log after", "answer after"} => calls[m].host = "claude-code"
    /\ ledger \subseteq [call : DOMAIN calls, source : {"precall", "compress"}, tokens : Nat]
    /\ ignore \in IgnoreFiles

\* The call in progress gets values of the same types, and a row at most.
LEMMA TypedUpdate ==
    ASSUME TypeInv, calls # <<>>, NEW c, Whole(c), Becomes(c), Typed(c, n),
           c.stage \in {"after", "log after", "answer after"} => c.host = "claude-code",
           ledger' \subseteq
               ledger \cup [call : {n}, source : {"precall", "compress"}, tokens : Nat],
           ignore' = ignore
    PROVE  TypeInv'
<1>1. /\ Shape' /\ n' = n /\ n \in DOMAIN calls
      /\ DOMAIN calls' = DOMAIN calls
      /\ calls'[n] = c
      /\ \A m \in DOMAIN calls : m # n => calls'[m] = calls[m]
    BY Updated DEF TypeInv
<1>2. ASSUME NEW m \in DOMAIN calls
      PROVE  /\ Typed(calls'[m], m)
             /\ calls'[m].stage \in {"after", "log after", "answer after"}
                    => calls'[m].host = "claude-code"
    <2>1. CASE m = n
        BY <1>1, <2>1
    <2>2. CASE m # n
        BY <1>1, <2>2 DEF TypeInv
    <2> QED
        BY <2>1, <2>2
<1>3. [call : {n}, source : {"precall", "compress"}, tokens : Nat]
        \subseteq [call : DOMAIN calls, source : {"precall", "compress"}, tokens : Nat]
    BY <1>1
<1>4. ledger' \subseteq [call : DOMAIN calls, source : {"precall", "compress"}, tokens : Nat]
    BY <1>3 DEF TypeInv
<1> QED
    BY <1>1, <1>2, <1>4 DEF TypeInv

\* What a step of a bridge may make of a call c, at its next stage.
Successor(c, k, stage) ==
    \/ k = [c EXCEPT !.stage = stage]
    \/ k = [c EXCEPT !.stage = stage, !.kept = FALSE]
    \/ k = [c EXCEPT !.stage = stage, !.killed = TRUE]
    \/ \E ran : k = [c EXCEPT !.stage = stage, !.ran = ran]
    \/ \E verdict \in Verdicts, saved \in Nat :
           k = [c EXCEPT !.stage = stage, !.verdict = verdict, !.saved = saved]
    \/ c.host = "claude-code" /\ \E saved \in Savings :
           k = [c EXCEPT !.stage = stage, !.compressed = saved]

\* Such a call is of the types, if the first one is.
LEMMA TypedSuccessor ==
    ASSUME NEW c, Whole(c), NEW m, Typed(c, m), NEW stage \in Stages, NEW k,
           Successor(c, k, stage)
    PROVE  Whole(k) /\ Typed(k, m) /\ k.stage = stage /\ k.host = c.host
<1>1. Whole(k) /\ k.stage = stage /\ k.host = c.host /\ k.tool = c.tool /\ k.of = c.of
    BY DEF Successor, Whole, Fields
<1>2. k.verdict \in Verdicts
    BY DEF Successor, Whole, Fields, Typed
<1>3. k.saved \in Nat
    BY DEF Successor, Whole, Fields, Typed
<1>4. k.compressed \in Savings \cup {0} /\ (k.compressed # 0 => c.host = "claude-code")
    BY DEF Successor, Whole, Fields, Typed
<1>5. (k.kept = c.kept \/ k.kept = FALSE) /\ (k.killed = c.killed \/ k.killed = TRUE)
    BY DEF Successor, Whole, Fields
<1>6. c.kept \in BOOLEAN /\ c.killed \in BOOLEAN
    BY Zenon DEF Typed
<1>7. k.kept \in BOOLEAN /\ k.killed \in BOOLEAN
    BY <1>5, <1>6
<1>8. k.host \in Host /\ k.tool \in ReadingTools \cup {"bash"} /\ k.of \in 1 .. m
    BY <1>1, Zenon DEF Typed
<1>9. Typed(k, m)
    BY <1>1, <1>2, <1>3, <1>4, <1>7, <1>8, Zenon DEF Typed
<1> QED
    BY <1>1, <1>9

\* A new call is of the types.
LEMMA StartTyped ==
    ASSUME TypeInv, NEW host \in Host, NEW tool \in ReadingTools \cup {"bash"}, NEW arg,
           NEW of \in 1 .. n + 1, Start(host, tool, arg, of)
    PROVE  TypeInv'
<1> DEFINE c == NewCall(host, tool, arg, of)
<1>1. /\ Whole(c) /\ c.stage = "before" /\ c.host = host /\ c.tool = tool /\ c.of = of
      /\ c.verdict = "pass" /\ c.saved = 0 /\ c.compressed = 0
    BY DEF Whole, Fields, NewCall
<1>2. c.kept = TRUE /\ c.killed = FALSE
    BY DEF NewCall
<1>3. calls' = Append(calls, c) /\ UNCHANGED <<ledger, ignore>>
    BY DEF Start
<1> HIDE DEF c
<1>4. /\ Shape' /\ n' = n + 1 /\ n \in Nat
      /\ DOMAIN calls' = DOMAIN calls \cup {n + 1}
      /\ calls'[n + 1] = c
      /\ \A m \in DOMAIN calls : m # n + 1 /\ calls'[m] = calls[m]
    BY <1>1, <1>3, Appended DEF TypeInv
<1>5. c.kept \in BOOLEAN /\ c.killed \in BOOLEAN
    BY <1>2
<1>6. "before" \in Stages /\ "pass" \in Verdicts /\ 0 \in Nat /\ 0 \in Savings \cup {0}
    BY DEF Stages, Verdicts
<1>7. Typed(c, n + 1)
    BY <1>1, <1>5, <1>6, Zenon DEF Typed
<1>8. ASSUME NEW m \in DOMAIN calls'
      PROVE  /\ Typed(calls'[m], m)
             /\ calls'[m].stage \in {"after", "log after", "answer after"}
                    => calls'[m].host = "claude-code"
    BY <1>1, <1>4, <1>7 DEF TypeInv
<1>9. [call : DOMAIN calls, source : {"precall", "compress"}, tokens : Nat]
        \subseteq [call : DOMAIN calls', source : {"precall", "compress"}, tokens : Nat]
    BY <1>4
<1> QED
    BY <1>3, <1>4, <1>8, <1>9 DEF TypeInv

\* A row of a hook is of the types.
LEMMA LogTyped ==
    ASSUME TypeInv, calls # <<>>, NEW source \in {"precall", "compress"}, NEW tokens \in Nat,
           NEW next \in Stages, Log(source, tokens, next), ignore' = ignore,
           next \in {"after", "log after", "answer after"} => calls[n].host = "claude-code"
    PROVE  TypeInv'
<1> DEFINE c == calls[n]
           row == [call |-> n, source |-> source, tokens |-> tokens]
<1>1. n \in DOMAIN calls /\ Whole(c) /\ Typed(c, n)
    BY LastCall DEF TypeInv
<1>2. PICK k : Successor(c, k, next) /\ Becomes(k) /\ ledger' \subseteq ledger \cup {row}
    <2>1. \/ Becomes([c EXCEPT !.stage = next]) /\ ledger' = ledger \cup {row}
          \/ Becomes([c EXCEPT !.stage = next, !.kept = FALSE]) /\ ledger' = ledger
        BY DEF Log
    <2> HIDE DEF c, row
    <2> QED BY <2>1 DEF Successor
<1>3. row \in [call : {n}, source : {"precall", "compress"}, tokens : Nat]
    OBVIOUS
<1> HIDE DEF c, row
<1>4. Whole(k) /\ Typed(k, n) /\ k.stage = next /\ k.host = c.host
    BY <1>1, <1>2, TypedSuccessor
<1> QED
    BY <1>2, <1>3, <1>4, TypedUpdate DEF c

\* The lexemes of the commands as they come and go.
Words == Lexemes \cup RuleFlags
IsCommand(c) == c \in Seq(Words) /\ IsScanned(c)

LEMMA RewrittenIsCommand ==
    ASSUME NEW c, IsCommand(c)
    PROVE  IsCommand(Rewritten(c))
<1>1. RuleFlags \subseteq Words /\ c \in Seq(Words) /\ IsScanned(c)
    BY DEF Words, IsCommand
<1> QED
    BY <1>1, RewrittenIsRebuilt DEF IsCommand

\* Before the answer of the first bridge.
Early == {"before", "log before", "answer before"}

\* What the verdict says was done, once the answer is there.
Done(c) ==
    \/ c.killed \/ c.stage \in Early \/ c.verdict = "pass"
    \/ c.verdict = "block" /\ c.stage = "over"
    \/ c.verdict = "modify" /\ c.ran # c.arg

Sound(c) ==
    /\ c.tool = "bash" => IsCommand(c.arg) /\ c.ran \in {c.arg, Rewritten(c.arg)}
    /\ c.stage \in Early => c.ran = c.arg
    /\ c.stage = "before" => c.verdict = "pass"
    /\ c.stage \in {"log before", "answer before"} => c.verdict # "pass"
    /\ c.verdict = "modify" => c.tool = "bash" /\ Fired(c.arg) # {}
    /\ Done(c)

\* A command that is run again has the flag of every rule that fired for the
\* commands it came from.
Inherits ==
    \A l, m \in DOMAIN calls : l < m /\ calls[l].of = calls[m].of =>
        /\ calls[m].tool = "bash"
        /\ calls[l].tool = "bash" /\ calls[l].ran # calls[l].arg =>
             \A f \in Fired(calls[l].arg) : Carries(calls[m].arg, f)

SoundInv ==
    /\ \A m \in DOMAIN calls : Sound(calls[m])
    /\ Inherits
    /\ \A row \in ledger : row.source = "precall" => calls[row.call].verdict # "pass"

\* Every step keeps the types.
LEMMA StepTyped == TypeInv /\ SoundInv /\ [Next]_vars => TypeInv'
<1> SUFFICES ASSUME TypeInv, SoundInv, [Next]_vars PROVE TypeInv'
    OBVIOUS
<1> DEFINE c == calls[n]
           Stays == UNCHANGED <<ledger, ignore>>
<1>1. ASSUME calls # <<>>
      PROVE  n \in DOMAIN calls /\ Whole(c) /\ Typed(c, n) /\ c.host \in Host
             /\ (c.stage \in {"after", "log after", "answer after"} => c.host = "claude-code")
    BY <1>1, LastCall DEF TypeInv, Typed
<1> HIDE DEF c
<1>2. n \in Nat
    <2> DEFINE S == {calls[m] : m \in DOMAIN calls}
    <2>1. calls \in Seq(S)
        BY DEF TypeInv, Shape
    <2> HIDE DEF S
    <2> QED BY <2>1 DEF n
<1>3. CASE \E host \in Host :
            \/ \E command \in Commands : Start(host, "bash", command, n + 1)
            \/ \E tool \in ReadingTools, path \in Paths : Start(host, tool, path, n + 1)
    BY <1>2, <1>3, StartTyped
<1>4. CASE StartAgain
    <2>1. calls # <<>> /\ Start(c.host, "bash", c.ran, c.of)
        BY <1>4 DEF StartAgain, c
    <2>2. c.host \in Host /\ c.of \in 1 .. n
        BY <1>1, <2>1 DEF Typed
    <2>3. c.of \in 1 .. n + 1
        BY <1>2, <2>2
    <2> QED BY <2>1, <2>2, <2>3, StartTyped
<1>5. ASSUME calls # <<>>, NEW stage \in Stages, NEW k, Successor(c, k, stage),
             stage \in {"after", "log after", "answer after"} => c.host = "claude-code",
             Becomes(k), Stays
      PROVE  TypeInv'
    <2>1. Whole(k) /\ Typed(k, n) /\ k.stage = stage /\ k.host = c.host
        BY <1>1, <1>5, TypedSuccessor
    <2> QED BY <1>5, <2>1, TypedUpdate
<1>6. CASE BeforePass
    BY <1>5, <1>6 DEF BeforePass, At, Stages, Successor, c
<1>7. CASE BeforeModify
    <2>1. calls # <<>> /\ c.tool = "bash"
        BY <1>7 DEF BeforeModify, At, Modifies, c
    <2>2. c.arg \in Seq(Words)
        BY <1>1, <2>1 DEF SoundInv, Sound, IsCommand, c
    <2>3. SavedBy(c.arg) \in Nat
        <3>1. RuleFlags \subseteq Words
            BY DEF Words
        <3> QED
            BY <2>2, <3>1, SavedIsANumber
    <2>4. "modify" \in Verdicts
        BY DEF Verdicts
    <2> QED BY <1>5, <1>7, <2>3, <2>4 DEF BeforeModify, At, Stages, Successor, c
<1>8. CASE BeforeBlock
    <2>1. LowSignalSaving \in Nat /\ "block" \in Verdicts
        BY DEF LowSignalSaving, Verdicts
    <2> QED BY <1>5, <1>8, <2>1 DEF BeforeBlock, At, Stages, Successor, c
<1>9. CASE LogBefore
    <2>1. calls # <<>> /\ Log("precall", c.saved, "answer before") /\ ignore' = ignore
        BY <1>9 DEF LogBefore, At, c
    <2>2. c.saved \in Nat
        BY <1>1, <2>1 DEF Typed
    <2> QED BY <2>1, <2>2, LogTyped DEF Stages
<1>10. CASE AnswerBefore
    BY <1>5, <1>10 DEF AnswerBefore, At, Stages, Successor, c
<1>11. CASE NoAnswerBefore
    BY <1>5, <1>11 DEF NoAnswerBefore, At, Stages, Successor, c
<1>12. CASE ToolEnds
    <2>1. calls # <<>> /\ (c.host # "cursor" => c.host = "claude-code")
        BY <1>1, <1>12 DEF ToolEnds, At, Host
    <2> QED BY <1>5, <1>12, <2>1 DEF ToolEnds, Stages, Successor, c
<1>13. CASE AfterPass
    BY <1>5, <1>13 DEF AfterPass, At, Stages, Successor, c
<1>14. CASE \E saved \in Savings : AfterCompress(saved)
    <2>1. calls # <<>> /\ c.stage = "after"
        BY <1>14 DEF AfterCompress, At, c
    <2>2. c.host = "claude-code"
        BY <1>1, <2>1
    <2> QED BY <1>5, <1>14, <2>1, <2>2 DEF AfterCompress, Stages, Successor, c
<1>15. CASE LogAfter
    <2>1. calls # <<>> /\ Log("compress", c.compressed, "answer after") /\ ignore' = ignore
          /\ c.stage = "log after"
        BY <1>15 DEF LogAfter, At, c
    <2>2. Typed(c, n)
        BY <1>1, <2>1
    <2>3. c.compressed \in Savings \cup {0}
        BY <2>2, Zenon DEF Typed
    <2>4. c.compressed \in Nat
        <3>1. \A saved \in Savings \cup {0} : saved \in Nat
            BY BridgesAssumption
        <3> QED BY <2>3, <3>1
    <2>5. c.host = "claude-code"
        BY <1>1, <2>1
    <2> QED BY <2>1, <2>4, <2>5, LogTyped DEF Stages, c
<1>16. CASE AnswerAfter
    BY <1>5, <1>16 DEF AnswerAfter, At, Stages, Successor, c
<1>17. CASE NoAnswerAfter
    BY <1>5, <1>17 DEF NoAnswerAfter, At, Stages, Successor, c
<1>18. CASE (\E patterns \in IgnoreFiles : EditIgnoreFile(patterns)) \/ UNCHANGED vars
    <2>1. UNCHANGED <<calls, ledger>> /\ ignore' \in IgnoreFiles
        BY <1>18 DEF EditIgnoreFile, vars, TypeInv
    <2> QED BY <2>1 DEF TypeInv, Shape
<1> QED
    BY <1>3, <1>4, <1>6, <1>7, <1>8, <1>9, <1>10, <1>11, <1>12, <1>13, <1>14, <1>15, <1>16,
       <1>17, <1>18 DEF Next

\* The call in progress goes on with the same command.
LEMMA SoundUpdate ==
    ASSUME TypeInv, SoundInv, calls # <<>>, NEW k, Whole(k), Becomes(k), Sound(k),
           k.tool = calls[n].tool, k.arg = calls[n].arg, k.of = calls[n].of,
           calls[n].verdict # "pass" => k.verdict # "pass",
           \A row \in ledger' : row \in ledger \/ (row.call = n /\ (row.source = "precall" => k.verdict # "pass"))
    PROVE  SoundInv'
<1>1. /\ Shape' /\ n' = n /\ n \in DOMAIN calls
      /\ DOMAIN calls' = DOMAIN calls
      /\ calls'[n] = k
      /\ \A m \in DOMAIN calls : m # n => calls'[m] = calls[m]
    BY Updated DEF TypeInv
<1>2. \A m \in DOMAIN calls' : Sound(calls'[m])
    BY <1>1 DEF SoundInv
<1>3. Inherits'
    <2> SUFFICES ASSUME NEW l \in DOMAIN calls, NEW m \in DOMAIN calls, l < m,
                        calls'[l].of = calls'[m].of
                 PROVE  /\ calls'[m].tool = "bash"
                        /\ calls'[l].tool = "bash" /\ calls'[l].ran # calls'[l].arg =>
                             \A f \in Fired(calls'[l].arg) : Carries(calls'[m].arg, f)
        BY <1>1 DEF Inherits
    <2>1. DOMAIN calls = 1 .. n /\ n \in Nat
        <3> DEFINE S == {calls[x] : x \in DOMAIN calls}
        <3>1. calls \in Seq(S)
            BY DEF TypeInv, Shape
        <3> HIDE DEF S
        <3> QED
            BY <3>1 DEF n
    <2>2. l # n
        BY <2>1
    <2>3. calls'[l] = calls[l]
        BY <1>1, <2>2
    <2>4. calls'[m].of = calls[m].of /\ calls'[m].tool = calls[m].tool /\ calls'[m].arg = calls[m].arg
        BY <1>1
    <2> HIDE DEF n
    <2> QED
        BY <2>3, <2>4, Zenon DEF SoundInv, Inherits
<1>4. \A row \in ledger' : row.source = "precall" => calls'[row.call].verdict # "pass"
    <2> SUFFICES ASSUME NEW row \in ledger', row.source = "precall"
                 PROVE  calls'[row.call].verdict # "pass"
        OBVIOUS
    <2>1. CASE row.call = n
        <3>1. row \in ledger => calls[n].verdict # "pass"
            BY <2>1 DEF SoundInv
        <3> QED
            BY <1>1, <2>1, <3>1
    <2>2. CASE row.call # n
        <3>1. row \in ledger
            BY <2>2
        <3>2. row.call \in DOMAIN calls
            BY <3>1 DEF TypeInv
        <3> QED
            BY <1>1, <2>2, <3>1, <3>2 DEF SoundInv
    <2> QED
        BY <2>1, <2>2
<1> QED
    BY <1>2, <1>3, <1>4 DEF SoundInv

\* A new call that is a first one, or has what the last one ran with.
LEMMA SoundStart ==
    ASSUME TypeInv, SoundInv, NEW host, NEW tool, NEW arg, NEW of, Start(host, tool, arg, of),
           tool = "bash" => IsCommand(arg),
           \/ of = n + 1
           \/ /\ calls # <<>> /\ calls[n].tool = "bash" /\ tool = "bash"
              /\ arg = calls[n].ran /\ of = calls[n].of
    PROVE  SoundInv'
<1> DEFINE c == NewCall(host, tool, arg, of)
<1>1. /\ Whole(c) /\ c.stage = "before" /\ c.verdict = "pass" /\ c.tool = tool /\ c.arg = arg
      /\ c.ran = arg /\ c.of = of
    BY DEF Whole, Fields, NewCall
<1>2. calls' = Append(calls, c) /\ UNCHANGED ledger
    BY DEF Start
<1> HIDE DEF c
<1>3. /\ Shape' /\ n' = n + 1 /\ n \in Nat
      /\ DOMAIN calls' = DOMAIN calls \cup {n + 1}
      /\ calls'[n + 1] = c
      /\ \A m \in DOMAIN calls : m # n + 1 /\ calls'[m] = calls[m]
    BY <1>1, <1>2, Appended DEF TypeInv
<1>4. Sound(c)
    <2>1. Done(c)
        BY <1>1, Zenon DEF Done
    <2>2. "before" # "log before" /\ "before" # "answer before" /\ "pass" # "modify"
        OBVIOUS
    <2> QED
        BY <1>1, <2>1, <2>2, Zenon DEF Sound
<1>5. \A m \in DOMAIN calls' : Sound(calls'[m])
    BY <1>3, <1>4 DEF SoundInv
<1>6. DOMAIN calls = 1 .. n
    <2> DEFINE S == {calls[x] : x \in DOMAIN calls}
    <2>1. calls \in Seq(S)
        BY DEF TypeInv, Shape
    <2> HIDE DEF S
    <2> QED
        BY <2>1 DEF n
<1>7. Inherits'
    <2> SUFFICES ASSUME NEW l \in DOMAIN calls', NEW m \in DOMAIN calls', l < m,
                        calls'[l].of = calls'[m].of
                 PROVE  /\ calls'[m].tool = "bash"
                        /\ calls'[l].tool = "bash" /\ calls'[l].ran # calls'[l].arg =>
                             \A f \in Fired(calls'[l].arg) : Carries(calls'[m].arg, f)
        BY DEF Inherits
    <2>1. l \in DOMAIN calls /\ calls'[l] = calls[l] /\ l \in 1 .. n
        BY <1>3, <1>6
    <2>2. CASE m \in DOMAIN calls
        <3>1. calls'[m] = calls[m]
            BY <1>3, <2>2
        <3> HIDE DEF n
        <3> QED
            BY <2>1, <2>2, <3>1, Zenon DEF SoundInv, Inherits
    <2>3. CASE m = n + 1
        <3>1. calls'[m] = c
            BY <1>3, <2>3
        <3>2. calls[l].of = of
            BY <1>1, <2>1, <3>1
        <3>3. of # n + 1
            <4>1. calls[l].of \in 1 .. l
                BY <2>1 DEF TypeInv, Typed
            <4> QED
                BY <1>3, <2>1, <3>2, <4>1
        <3>4. calls[n].tool = "bash" /\ tool = "bash" /\ arg = calls[n].ran /\ of = calls[n].of
            BY <3>3
        <3>5. n \in DOMAIN calls /\ Sound(calls[n])
            BY <1>3, <1>6, <2>1 DEF SoundInv
        <3>6. IsCommand(calls[n].arg) /\ calls[n].ran \in {calls[n].arg, Rewritten(calls[n].arg)}
            BY <3>4, <3>5, Zenon DEF Sound
        <3>7. ASSUME calls[l].tool = "bash", calls[l].ran # calls[l].arg, NEW f \in Fired(calls[l].arg)
              PROVE  Carries(arg, f)
            <4>0. RuleFlags \subseteq Words /\ calls[n].arg \in Seq(Words) /\ IsScanned(calls[n].arg)
                BY <3>6 DEF Words, IsCommand
            <4>1. CASE l = n
                <5>1. arg = Rewritten(calls[n].arg) /\ f \in Fired(calls[n].arg)
                    BY <3>4, <3>6, <3>7, <4>1
                <5> QED
                    BY <3>6, <4>0, <5>1, FiredIsCarried
            <4>2. CASE l # n
                <5>1. l < n
                    BY <1>3, <2>1, <4>2
                <5>2. Carries(calls[n].arg, f)
                    BY <2>1, <3>2, <3>4, <3>5, <3>7, <5>1 DEF SoundInv, Inherits
                <5>3. Carries(Rewritten(calls[n].arg), f)
                    BY <3>6, <4>0, <5>2, CarriedStays
                <5> QED
                    BY <3>4, <3>6, <5>2, <5>3
            <4> QED
                BY <4>1, <4>2
        <3> QED
            BY <1>1, <2>1, <3>1, <3>4, <3>7
    <2> QED
        BY <1>3, <2>2, <2>3
<1>8. \A row \in ledger' : row.source = "precall" => calls'[row.call].verdict # "pass"
    BY <1>2, <1>3 DEF SoundInv, TypeInv
<1> QED
    BY <1>5, <1>7, <1>8 DEF SoundInv

\* The same command, with the same verdict: the call is still before its
\* answer, was let pass, or has its answer behind it, or its bridge is killed.
Follows(c, k) ==
    /\ Whole(k)
    /\ k.tool = c.tool /\ k.arg = c.arg /\ k.ran = c.ran /\ k.of = c.of
    /\ k.verdict = c.verdict /\ k.killed \in {c.killed, TRUE}

LEMMA SoundFollows ==
    ASSUME NEW c, Sound(c), NEW k, Follows(c, k), k.stage # "before",
           k.stage \in Early => c.stage \in Early /\ c.verdict # "pass",
           \/ k.stage \in Early \/ c.verdict = "pass" \/ k.killed
           \/ c.stage \notin Early /\ c.stage # "over"
    PROVE  Sound(k)
<1>1. Done(k)
    <2>1. CASE k.stage \in Early \/ c.verdict = "pass" \/ k.killed
        BY <2>1, Zenon DEF Done, Follows
    <2>2. CASE c.stage \notin Early /\ c.stage # "over"
        <3>1. c.killed => k.killed
            BY Zenon DEF Follows
        <3> QED
            BY <2>2, <3>1, Zenon DEF Done, Sound, Follows
    <2> QED
        BY <2>1, <2>2
<1>2. k.stage \in Early => k.ran = k.arg
    BY Zenon DEF Sound, Follows
<1>3. k.stage \in {"log before", "answer before"} => k.verdict # "pass"
    BY DEF Early, Follows
<1> QED
    BY <1>1, <1>2, <1>3, Zenon DEF Sound, Follows

LEMMA StepSound == TypeInv /\ SoundInv /\ [Next]_vars => SoundInv'
<1> SUFFICES ASSUME TypeInv, SoundInv, [Next]_vars PROVE SoundInv'
    OBVIOUS
<1> DEFINE c == calls[n]
<1>1. ASSUME calls # <<>>
      PROVE  n \in DOMAIN calls /\ Whole(c) /\ Typed(c, n) /\ Sound(c)
    BY <1>1, LastCall DEF TypeInv, SoundInv
<1>2. \A command \in Commands : IsCommand(command)
    <2>1. Commands \subseteq Seq(Words)
        BY BridgesAssumption DEF Words
    <2>2. \A command \in Commands : IsScanned(command)
        BY BridgesAssumption, Zenon DEF IsScanned
    <2> QED
        BY <2>1, <2>2 DEF IsCommand
<1>3. CASE \E host \in Host :
            \/ \E command \in Commands : Start(host, "bash", command, n + 1)
            \/ \E tool \in ReadingTools, path \in Paths : Start(host, tool, path, n + 1)
    <2>1. "bash" \notin ReadingTools
        BY DEF ReadingTools
    <2> QED
        BY <1>2, <1>3, <2>1, SoundStart
<1>4. CASE StartAgain
    <2>1. calls # <<>> /\ c.tool = "bash" /\ Start(c.host, "bash", c.ran, c.of)
        BY <1>4 DEF StartAgain
    <2>2. IsCommand(c.arg) /\ c.ran \in {c.arg, Rewritten(c.arg)}
        BY <1>1, <2>1, Zenon DEF Sound
    <2>3. IsCommand(Rewritten(c.arg))
        <3> HIDE DEF c
        <3> QED
            BY <2>2, RewrittenIsCommand
    <2>4. IsCommand(c.ran)
        BY <2>2, <2>3
    <2> QED
        BY <2>1, <2>4, SoundStart
\* Steps after the answer, steps towards it, and the end of a bridge.
<1>5. ASSUME calls # <<>>, NEW k, Follows(c, k), k.stage # "before",
             k.stage \in Early => c.stage \in Early /\ c.verdict # "pass",
             \/ k.stage \in Early \/ c.verdict = "pass" \/ k.killed
             \/ c.stage \notin Early /\ c.stage # "over",
             Becomes(k),
             \A row \in ledger' : row \in ledger \/ (row.call = n /\ (row.source = "precall" => c.verdict # "pass"))
      PROVE  SoundInv'
    <2>1. Sound(k)
        BY <1>1, <1>5, SoundFollows
    <2>2. Whole(k) /\ k.tool = c.tool /\ k.arg = c.arg /\ k.of = c.of /\ k.verdict = c.verdict
        BY <1>5 DEF Follows
    <2> QED
        BY <1>5, <2>1, <2>2, SoundUpdate
<1>6. ASSUME NEW stage, calls # <<>>
      PROVE  /\ Follows(c, [c EXCEPT !.stage = stage]) /\ [c EXCEPT !.stage = stage].stage = stage
             /\ Follows(c, [c EXCEPT !.stage = stage, !.kept = FALSE])
             /\ [c EXCEPT !.stage = stage, !.kept = FALSE].stage = stage
             /\ Follows(c, [c EXCEPT !.stage = stage, !.killed = TRUE])
             /\ [c EXCEPT !.stage = stage, !.killed = TRUE].stage = stage
             /\ [c EXCEPT !.stage = stage, !.killed = TRUE].killed
             /\ \A saved : /\ Follows(c, [c EXCEPT !.stage = stage, !.compressed = saved])
                           /\ [c EXCEPT !.stage = stage, !.compressed = saved].stage = stage
    <2>1. Whole(c)
        BY <1>1, <1>6
    <2> HIDE DEF c
    <2> QED
        BY <2>1 DEF Follows, Whole, Fields
<1>7. CASE BeforePass
    <2>1. calls # <<>> /\ c.stage = "before" /\ Becomes([c EXCEPT !.stage = "run"]) /\ ledger' = ledger
        BY <1>7 DEF BeforePass, At
    <2>2. c.verdict = "pass"
        BY <1>1, <2>1, Zenon DEF Sound
    <2> HIDE DEF c
    <2> QED
        BY <1>5, <1>6, <2>1, <2>2 DEF Early
<1>8. ASSUME NEW verdict \in {"modify", "block"}, NEW saved, calls # <<>>, c.stage = "before",
             verdict = "modify" => c.tool = "bash" /\ Fired(c.arg) # {},
             Becomes([c EXCEPT !.stage = "log before", !.verdict = verdict, !.saved = saved]),
             ledger' = ledger
      PROVE  SoundInv'
    <2> DEFINE k == [c EXCEPT !.stage = "log before", !.verdict = verdict, !.saved = saved]
    <2>1. Whole(c) /\ Sound(c)
        BY <1>1, <1>8
    <2>2. /\ Whole(k) /\ k.stage = "log before" /\ k.verdict = verdict /\ k.tool = c.tool
          /\ k.arg = c.arg /\ k.ran = c.ran /\ k.of = c.of
        <3> HIDE DEF c
        <3> QED
            BY <2>1 DEF Whole, Fields
    <2> HIDE DEF c, k
    <2>3. "log before" \in Early /\ c.stage \in Early /\ verdict # "pass"
        BY <1>8 DEF Early
    <2>4. Done(k)
        BY <2>2, <2>3, Zenon DEF Done
    <2>5. Sound(k)
        <3>1. k.tool = "bash" => IsCommand(k.arg) /\ k.ran \in {k.arg, Rewritten(k.arg)}
            BY <2>1, <2>2, Zenon DEF Sound
        <3>2. k.ran = k.arg
            BY <2>1, <2>2, <2>3, Zenon DEF Sound
        <3>3. k.stage # "before" /\ k.verdict # "pass"
            BY <2>2, <2>3
        <3>4. k.verdict = "modify" => k.tool = "bash" /\ Fired(k.arg) # {}
            BY <1>8, <2>2
        <3> QED
            BY <2>4, <3>1, <3>2, <3>3, <3>4, Zenon DEF Sound
    <2>6. Becomes(k)
        BY <1>8 DEF k
    <2>7. k.verdict # "pass"
        BY <2>2, <2>3
    <2> QED
        BY <1>8, <2>2, <2>5, <2>6, <2>7, SoundUpdate DEF c
<1>9. CASE BeforeModify
    BY <1>8, <1>9 DEF BeforeModify, At, Modifies
<1>10. CASE BeforeBlock
    BY <1>8, <1>10 DEF BeforeBlock, At
<1>11. ASSUME calls # <<>>, NEW source, NEW tokens, NEW next, Log(source, tokens, next),
              next # "before",
              next \in Early => c.stage \in Early /\ c.verdict # "pass",
              next \in Early \/ (c.stage \notin Early /\ c.stage # "over"),
              source = "precall" => c.verdict # "pass"
       PROVE  SoundInv'
    <2> DEFINE row == [call |-> n, source |-> source, tokens |-> tokens]
               kept == [c EXCEPT !.stage = next]
               dropped == [c EXCEPT !.stage = next, !.kept = FALSE]
    <2>1. row.call = n /\ row.source = source
        OBVIOUS
    <2>2. /\ Follows(c, kept) /\ kept.stage = next
          /\ Follows(c, dropped) /\ dropped.stage = next
        BY <1>6, <1>11
    <2>3. \/ Becomes(kept) /\ ledger' = ledger \cup {row}
          \/ Becomes(dropped) /\ ledger' = ledger
        BY <1>11 DEF Log
    <2>4. \A other \in ledger' : other \in ledger \/
              (other.call = n /\ (other.source = "precall" => c.verdict # "pass"))
        <3> HIDE DEF row, c
        <3> QED
            BY <1>11, <2>1, <2>3
    <2> HIDE DEF row, c, kept, dropped
    <2> QED
        BY <1>5, <1>11, <2>2, <2>3, <2>4
<1>12. CASE LogBefore
    <2>1. calls # <<>> /\ c.stage = "log before" /\ Log("precall", c.saved, "answer before")
        BY <1>12 DEF LogBefore, At
    <2>2. c.verdict # "pass"
        BY <1>1, <2>1, Zenon DEF Sound
    <2> HIDE DEF c
    <2> QED
        BY <1>11, <2>1, <2>2 DEF Early
<1>13. CASE AnswerBefore
    <2>1. calls # <<>> /\ c.stage = "answer before" /\ ledger' = ledger
          /\ Becomes(IF c.verdict = "block" THEN [c EXCEPT !.stage = "over"]
                     ELSE [c EXCEPT !.stage = "run", !.ran = Rewritten(@)])
        BY <1>13 DEF AnswerBefore, At
    <2>2. Whole(c) /\ Typed(c, n) /\ Sound(c)
        BY <1>1, <2>1
    <2>3. c.verdict # "pass" /\ c.ran = c.arg /\ c.verdict \in Verdicts
        <3>1. c.stage \in Early /\ c.stage \in {"log before", "answer before"}
            BY <2>1 DEF Early
        <3> QED
            BY <2>2, <3>1, Zenon DEF Sound, Typed
    <2>4. CASE c.verdict = "block"
        <3> DEFINE k == [c EXCEPT !.stage = "over"]
        <3>1. Whole(k) /\ k.stage = "over" /\ k.verdict = "block" /\ k.tool = c.tool
              /\ k.arg = c.arg /\ k.ran = c.ran /\ k.of = c.of
            <4> HIDE DEF c
            <4> QED
                BY <2>2, <2>4 DEF Whole, Fields
        <3>2. Becomes(k)
            BY <2>1, <2>4
        <3> HIDE DEF c, k
        <3>3. Done(k)
            BY <3>1, Zenon DEF Done
        <3>4. k.stage \notin Early /\ k.stage # "before" /\ k.verdict # "modify"
              /\ k.stage \notin {"log before", "answer before"} /\ k.verdict # "pass"
            BY <3>1 DEF Early
        <3>5. Sound(k)
            BY <2>2, <3>1, <3>3, <3>4, Zenon DEF Sound
        <3> QED
            BY <2>1, <3>1, <3>2, <3>4, <3>5, SoundUpdate DEF c
    <2>5. CASE c.verdict # "block"
        <3> DEFINE k == [c EXCEPT !.stage = "run", !.ran = Rewritten(@)]
        <3>1. Whole(k) /\ k.stage = "run" /\ k.verdict = c.verdict /\ k.tool = c.tool
              /\ k.arg = c.arg /\ k.ran = Rewritten(c.ran) /\ k.of = c.of
            <4> HIDE DEF c
            <4> QED
                BY <2>2 DEF Whole, Fields
        <3>2. Becomes(k)
            BY <2>1, <2>5
        <3> HIDE DEF c, k
        <3>3. c.verdict = "modify"
            BY <2>3, <2>5 DEF Verdicts
        <3>4. c.tool = "bash" /\ Fired(c.arg) # {} /\ IsCommand(c.arg)
            BY <2>2, <3>3, Zenon DEF Sound
        <3>5. Rewritten(c.arg) # c.arg
            <4>1. RuleFlags \subseteq Words /\ c.arg \in Seq(Words) /\ IsScanned(c.arg)
                BY <3>4 DEF Words, IsCommand
            <4> QED
                BY <3>4, <4>1, RewritingShows
        <3>6. k.ran = Rewritten(k.arg) /\ k.ran # k.arg
            BY <2>3, <3>1, <3>5
        <3>7. Done(k)
            BY <3>1, <3>3, <3>6, Zenon DEF Done
        <3>8. k.stage \notin Early /\ k.stage # "before" /\ k.verdict # "pass"
              /\ k.stage \notin {"log before", "answer before"}
            BY <3>1, <3>3 DEF Early
        <3>9. k.ran \in {k.arg, Rewritten(k.arg)} /\ IsCommand(k.arg)
            BY <3>1, <3>4, <3>6
        <3>10. Sound(k)
            BY <3>1, <3>4, <3>7, <3>8, <3>9, Zenon DEF Sound
        <3> QED
            BY <2>1, <3>1, <3>2, <3>8, <3>10, SoundUpdate DEF c
    <2> QED
        BY <2>4, <2>5
<1>14. CASE NoAnswerBefore
    <2> DEFINE k == [c EXCEPT !.stage = "run", !.killed = TRUE]
    <2>1. calls # <<>> /\ Becomes(k) /\ ledger' = ledger
        BY <1>14 DEF NoAnswerBefore, At
    <2>2. Follows(c, k) /\ k.stage = "run" /\ k.killed
        BY <1>6, <2>1
    <2>3. k.stage # "before" /\ k.stage \notin Early
        BY <2>2 DEF Early
    <2> HIDE DEF c, k
    <2> QED
        BY <1>5, <2>1, <2>2, <2>3, Zenon
<1>15. CASE ToolEnds
    <2> DEFINE next == IF c.host = "cursor" THEN "over" ELSE "after"
               k == [c EXCEPT !.stage = next]
    <2>1. calls # <<>> /\ c.stage = "run" /\ Becomes(k) /\ ledger' = ledger
        BY <1>15 DEF ToolEnds, At
    <2>2. next \in {"over", "after"}
        OBVIOUS
    <2> HIDE DEF next
    <2>3. Follows(c, k) /\ k.stage = next
        BY <1>6, <2>1
    <2> HIDE DEF c, k
    <2> QED
        BY <1>5, <2>1, <2>2, <2>3 DEF Early
<1>16. ASSUME NEW from \in {"after", "answer after"}, At(from), NEW next \in {"over", "log after"},
              NEW k, Follows(c, k), k.stage = next, Becomes(k), ledger' = ledger
       PROVE  SoundInv'
    <2>1. calls # <<>> /\ c.stage = from
        BY <1>16 DEF At
    <2> HIDE DEF c
    <2> QED
        BY <1>5, <1>16, <2>1 DEF Early
<1>17. CASE AfterPass
    <2>1. At("after") /\ calls # <<>> /\ Becomes([c EXCEPT !.stage = "over"]) /\ ledger' = ledger
        BY <1>17 DEF AfterPass, At
    <2> HIDE DEF c
    <2> QED
        BY <1>6, <1>16, <2>1
<1>18. CASE \E saved \in Savings : AfterCompress(saved)
    <2>1. PICK saved \in Savings : AfterCompress(saved)
        BY <1>18
    <2>2. At("after") /\ calls # <<>> /\ ledger' = ledger
          /\ Becomes([c EXCEPT !.stage = "log after", !.compressed = saved])
        BY <2>1 DEF AfterCompress, At
    <2> HIDE DEF c
    <2> QED
        BY <1>6, <1>16, <2>2
<1>19. CASE LogAfter
    <2>1. calls # <<>> /\ c.stage = "log after" /\ Log("compress", c.compressed, "answer after")
        BY <1>19 DEF LogAfter, At
    <2> HIDE DEF c
    <2> QED
        BY <1>11, <2>1 DEF Early
<1>20. CASE AnswerAfter
    <2>1. At("answer after") /\ calls # <<>> /\ Becomes([c EXCEPT !.stage = "over"]) /\ ledger' = ledger
        BY <1>20 DEF AnswerAfter, At
    <2> HIDE DEF c
    <2> QED
        BY <1>6, <1>16, <2>1
<1>21. CASE NoAnswerAfter
    <2> DEFINE k == [c EXCEPT !.stage = "over", !.killed = TRUE]
    <2>1. calls # <<>> /\ Becomes(k) /\ ledger' = ledger
        BY <1>21 DEF NoAnswerAfter, At
    <2>2. Follows(c, k) /\ k.stage = "over" /\ k.killed
        BY <1>6, <2>1
    <2>3. k.stage # "before" /\ k.stage \notin Early
        BY <2>2 DEF Early
    <2> HIDE DEF c, k
    <2> QED
        BY <1>5, <2>1, <2>2, <2>3, Zenon
<1>22. CASE (\E patterns \in IgnoreFiles : EditIgnoreFile(patterns)) \/ UNCHANGED vars
    <2>1. UNCHANGED <<calls, ledger>>
        BY <1>22 DEF EditIgnoreFile, vars
    <2> QED
        BY <2>1 DEF SoundInv, Inherits
<1> QED
    BY <1>3, <1>4, <1>7, <1>9, <1>10, <1>12, <1>13, <1>14, <1>15, <1>17, <1>18, <1>19, <1>20,
       <1>21, <1>22 DEF Next

-----------------------------------------------------------------------------
(* What holds for any commands, paths and ignore files.                    *)

FullInv == IInv /\ TypeInv /\ SoundInv

LEMMA FullInvariant == Spec => []FullInv
<1>1. Init => FullInv
    BY InitIInv DEF Init, FullInv, TypeInv, SoundInv, Inherits, Shape
<1>2. FullInv /\ [Next]_vars => FullInv'
    BY StepIInv, StepTyped, StepSound DEF FullInv
<1> QED
    BY <1>1, <1>2, PTL DEF Spec

\* The types, and that only a bridge of Claude Code shortens an output
\* (cursor-hook.ts has no hook after a call).
THEOREM TypeCorrect == Spec => []TypeOK
<1>1. FullInv => TypeOK
    BY DEF FullInv, TypeInv, TypeOK, Typed
<1> QED
    BY FullInvariant, <1>1, PTL

\* A rule fires once for a command that is run again as it came out
\* (hasFlag, tool-precall.ts:40-42): the segment it was for carries its flag,
\* which is one of those that keep the rule off, and rewriting takes no flag
\* away.
THEOREM RulesAlwaysFireOnce == Spec => []RulesFireOnce
<1>1. FullInv => RulesFireOnce
    <2> SUFFICES ASSUME FullInv, NEW l \in DOMAIN calls, NEW m \in DOMAIN calls, l < m,
                        calls[l].of = calls[m].of, calls[l].tool = "bash",
                        calls[l].ran # calls[l].arg,
                        NEW f \in Fired(calls[l].arg), f \in Fired(calls[m].arg)
                 PROVE  FALSE
        BY DEF RulesFireOnce
    <2>1. calls[m].tool = "bash" /\ Carries(calls[m].arg, f)
        BY DEF FullInv, SoundInv, Inherits
    <2>2. calls[m].arg \in Seq(Words)
        BY <2>1 DEF FullInv, SoundInv, Sound, IsCommand
    <2>3. RuleFlags \subseteq Words
        BY DEF Words
    <2> QED
        BY <2>1, <2>2, <2>3, CarriedIsQuiet
<1> QED
    BY FullInvariant, <1>1, PTL

\* In a command of one line that the scanner reads as a shell does, each flag
\* lands on the simple command that names its tool outside of quotes, and all
\* else stays as it was (tool-precall.ts:74-127, 244-275).
THEOREM FlagsAlwaysStayWithTheirTool == Spec => []FlagsStayWithTheirTool
<1>1. FullInv => FlagsStayWithTheirTool
    <2> DEFINE c == calls[n]
    <2> SUFFICES ASSUME FullInv, At("run"), c.tool = "bash", ReadAlike(c.arg), c.ran # c.arg
                 PROVE  FlagsFit(c.arg, c.ran)
        BY DEF FlagsStayWithTheirTool
    <2>1. Sound(c)
        BY LastCall DEF At, FullInv, SoundInv, TypeInv
    <2> HIDE DEF c
    <2>2. IsCommand(c.arg) /\ c.ran = Rewritten(c.arg)
        BY <2>1, Zenon DEF Sound
    <2>3. RuleFlags \subseteq Words /\ c.arg \in Seq(Words) /\ IsScanned(c.arg)
        BY <2>2 DEF Words, IsCommand
    <2>4. FlagsFit(c.arg, Rewritten(c.arg))
        BY <2>3, FlagsOfRebuilt
    <2> QED
        BY <2>2, <2>4, Zenon
<1> QED
    BY FullInvariant, <1>1, PTL

\* A saving is booked once for each hook, with its own tokens, and for what was
\* done, but for a bridge that is killed between the row and the answer
\* (hook.ts:78-118, cursor-hook.ts:48-79).
THEOREM RowsAreAlwaysEarned == Spec => []RowsAreEarned
<1>1. FullInv => RowsAreTrue
    <2> SUFFICES ASSUME FullInv, NEW row \in ledger, row.source = "precall"
                 PROVE  LET call == calls[row.call] IN
                        \/ call.killed \/ call.stage = "answer before"
                        \/ call.verdict = "block" /\ call.stage = "over"
                        \/ call.verdict = "modify" /\ call.ran # call.arg
        BY DEF RowsAreTrue
    <2> DEFINE c == calls[row.call]
    <2>1. row.call \in DOMAIN calls /\ c.stage \in After("precall")
        BY DEF FullInv, IInv, RowsByStage
    <2>2. Done(c) /\ c.verdict # "pass"
        BY <2>1 DEF FullInv, SoundInv, Sound
    <2>3. c.stage \in Early => c.stage = "answer before"
        BY <2>1, AfterOf DEF Early
    <2> QED
        BY <2>2, <2>3, Zenon DEF Done
<1>2. FullInv => RowsAreEarned
    BY <1>1 DEF FullInv, IInv, RowsAreEarned
<1> QED
    BY FullInvariant, <1>2, PTL

=============================================================================
