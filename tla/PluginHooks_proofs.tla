-------------------------- MODULE PluginHooks_proofs --------------------------
(***************************************************************************)
(* Proofs about PluginHooks, for any sessions, calls, paths and estimates. *)
(* The invariant says what the two maps of precall-state.ts know:          *)
(*   - engaged holds exactly the paths that earlier calls of this process  *)
(*     engaged (EngagedIsKnown);                                           *)
(*   - a pending saving belongs to a rewritten call, and is there as long  *)
(*     as that call runs (PendingIsKnown);                                 *)
(*   - a row of the database belongs to a call that is over (RowsAreKnown).*)
(* Rows and calls then match because one id has one call (OneCallPerId).   *)
(* And about ContextPrune, for any keys and outputs: the history holds the *)
(* host's own parts, so what is sent leads on (PlaceholdersAlwaysLeadOn);  *)
(* prune and cap change parts place by place and lengthen none, so a       *)
(* request is shorter by what changed, which its rows book                 *)
(* (BookedIsAlwaysSaved).                                                  *)
(***************************************************************************)
EXTENDS PluginHooks, ContextPrune, FoldLemmas, TLAPS

EngagedIsKnown ==
    \A s \in Session, p \in Path : p \in engaged[s] <=> EngagedBefore(s, p)

NewIsUnknown ==
    \A c \in Call : stage[c] = "new" => c \notin current /\ pending[c] = 0

PendingIsKnown ==
    \A c \in Call :
        /\ req[c].verdict = "modify" => req[c].tool = "bash" /\ req[c].saved > 0
        /\ pending[c] # 0 => /\ req[c].verdict = "modify"
                             /\ req[c].saved = pending[c]
        /\ stage[c] = "running" /\ req[c].verdict = "modify" => pending[c] # 0

OneCallPerId ==
    UniqueCallIds =>
        \A c, d \in Call :
            IdOf(c) = IdOf(d) /\ stage[c] # "new" /\ stage[d] # "new" => c = d

RowsAreKnown ==
    \A id \in CallId : PrecallRowIsEarned(id) /\ BlockRowIsEarned(id)

Maps == TypeOK /\ NewIsUnknown /\ EngagedIsKnown
Inv == Maps /\ PendingIsKnown /\ OneCallPerId /\ RowsAreKnown /\ RewritesAreLogged

\* What Log leaves alone, and what it writes.
Written(s, ids, tok) ==
    \A r \in RowId :
      \/ ledger'[r] = ledger[r]
      \/ /\ r \in ids /\ tok[r] > 0 /\ ledger[r] = NoRow
         /\ ledger'[r] = [session |-> s, tok |-> tok[r]]

WrittenOrLost(s, ids, tok) ==
    \A r \in ids :
      tok[r] > 0 /\ ledger[r] = NoRow =>
        \/ ledger'[r] = [session |-> s, tok |-> tok[r]]
        \/ r \in dropped'

\* Logging keeps the types, loses no row and writes only its own.
LEMMA LogType ==
    ASSUME NEW s \in Session, NEW ids \in SUBSET RowId,
           NEW tok \in [ids -> Estimate \cup {0}],
           ledger \in [RowId -> Row \cup {NoRow}], dropped \in SUBSET RowId,
           Log(s, ids, tok)
    PROVE  /\ ledger' \in [RowId -> Row \cup {NoRow}]
           /\ dropped' \in SUBSET RowId
           /\ dropped \subseteq dropped'
           /\ Written(s, ids, tok)
           /\ WrittenOrLost(s, ids, tok)
<1> USE HooksAssumption
<1>1. PICK lost \in SUBSET {r \in ids : tok[r] > 0} :
        /\ ledger' = [r \in RowId |->
                        IF r \in ids \ lost /\ tok[r] > 0 /\ ledger[r] = NoRow
                        THEN [session |-> s, tok |-> tok[r]]
                        ELSE ledger[r]]
        /\ dropped' = dropped \cup lost
  BY DEF Log
<1>2. \A r \in ids : tok[r] > 0 => [session |-> s, tok |-> tok[r]] \in Row
  BY DEF Row
<1>3. ledger' \in [RowId -> Row \cup {NoRow}]
  BY <1>1, <1>2
<1>4. Written(s, ids, tok)
  BY <1>1 DEF Written
<1>5. WrittenOrLost(s, ids, tok)
  BY <1>1 DEF WrittenOrLost
<1> QED
  BY <1>1, <1>3, <1>4, <1>5

\* The invariant holds initially.
LEMMA InitInv == Init => Inv
<1> SUFFICES ASSUME Init PROVE Inv
  OBVIOUS
<1> USE HooksAssumption DEF Init
<1>1. TypeOK
  BY DEF TypeOK, Stage, Request, NoRequest, NoRow
<1>2. NewIsUnknown /\ EngagedIsKnown
  BY DEF NewIsUnknown, EngagedIsKnown, EngagedBefore
<1>3. PendingIsKnown /\ OneCallPerId /\ RewritesAreLogged
  BY DEF PendingIsKnown, OneCallPerId, RewritesAreLogged, NoRequest
<1>4. RowsAreKnown
  BY DEF RowsAreKnown, PrecallRowIsEarned, BlockRowIsEarned, RowId
<1> QED
  BY <1>1, <1>2, <1>3, <1>4 DEF Inv, Maps

\* A call c begins: what Begin and the new stage say of it and of the others.
Begins(c, st) ==
    /\ stage[c] = "new" /\ stage'[c] = st
    /\ req'[c] \in Request
    /\ \A d \in Call \ {c} : /\ req'[d] = req[d] /\ stage'[d] = stage[d]
                             /\ pending'[d] = pending[d]
    /\ UniqueCallIds => \A d \in Call : IdOf(d) = IdOf(c) => stage[d] = "new"
    /\ current' = current \cup {c}
    /\ engaged' = [engaged EXCEPT ![SessionOf(c)] =
                     IF req'[c].tool \in EngagingTools /\ req'[c].path # None
                     THEN @ \cup {req'[c].path} ELSE @]

\* What Begin decides about the call it starts.
LEMMA BeginBegins ==
    ASSUME TypeOK, NEW c \in Call, NEW tool \in Tool, NEW path \in Path \cup {None},
           NEW verdict \in {"pass", "modify", "block"},
           NEW saved \in Estimate \cup {0}, NEW st \in Stage,
           Begin(c, tool, path, verdict, saved), stage' = [stage EXCEPT ![c] = st],
           \A d \in Call \ {c} : pending'[d] = pending[d]
    PROVE  /\ Begins(c, st)
           /\ stage' \in [Call -> Stage]
           /\ req' \in [Call -> Request \cup {NoRequest}]
  BY DEF TypeOK, Begin, Begins, Request

\* The start of a call preserves the first half of the invariant.
LEMMA BeginMaps ==
    ASSUME Maps, NEW c \in Call, Begins(c, stage'[c]),
           stage'[c] \in Stage \ {"new"},
           stage' \in [Call -> Stage], req' \in [Call -> Request \cup {NoRequest}],
           pending' \in [Call -> Estimate \cup {0}],
           ledger' \in [RowId -> Row \cup {NoRow}], dropped' \in SUBSET RowId
    PROVE  Maps'
<1> USE HooksAssumption DEF Maps, TypeOK, Begins
<1>1. SessionOf(c) \in Session /\ req'[c].path \in Path \cup {None}
  BY DEF Call, SessionOf, Request
<1>2. TypeOK'
  <2>1. engaged' \in [Session -> SUBSET Path]
    BY <1>1
  <2> QED
    BY <2>1
<1>3. NewIsUnknown'
  <2>1. \A d \in Call : stage'[d] = "new" => d # c /\ stage[d] = "new"
    OBVIOUS
  <2> QED
    BY <2>1 DEF NewIsUnknown
<1>4. EngagedIsKnown'
  <2> SUFFICES ASSUME NEW s \in Session, NEW p \in Path
               PROVE  p \in engaged'[s] <=> EngagedBefore(s, p)'
    BY DEF EngagedIsKnown
  <2>1. p \in engaged[s] <=> EngagedBefore(s, p)
    BY DEF EngagedIsKnown
  <2>2. c \notin current
    BY DEF NewIsUnknown
  <2>3. EngagedBefore(s, p)' <=> \/ EngagedBefore(s, p)
                                 \/ /\ SessionOf(c) = s
                                    /\ req'[c].tool \in EngagingTools
                                    /\ req'[c].path = p
    BY <2>2 DEF EngagedBefore
  <2>4. p \in engaged'[s] <=> \/ p \in engaged[s]
                              \/ /\ SessionOf(c) = s
                                 /\ req'[c].tool \in EngagingTools
                                 /\ req'[c].path = p
    BY <1>1
  <2> QED
    BY <2>1, <2>3, <2>4
<1> QED
  BY <1>2, <1>3, <1>4

\* The rest of the invariant, when a call c begins in one of the three ways.
LEMMA BeginRest ==
    ASSUME Inv, Maps', NEW c \in Call, Begins(c, stage'[c]),
           stage'[c] = IF req'[c].verdict = "block" THEN "blocked" ELSE "running",
           req'[c].verdict = "modify" => req'[c].tool = "bash" /\ req'[c].saved > 0,
           pending'[c] = IF req'[c].verdict = "modify" THEN req'[c].saved ELSE 0,
           dropped \subseteq dropped',
           \A r \in RowId :
             \/ ledger'[r] = ledger[r]
             \/ /\ req'[c].verdict = "block" /\ r = <<"precall-block", IdOf(c)>>
                /\ ledger'[r] = [session |-> SessionOf(c), tok |-> req'[c].saved]
    PROVE  Inv'
<1> USE HooksAssumption DEF Inv, Begins
<1>1. PendingIsKnown'
  BY DEF PendingIsKnown, Maps, TypeOK
<1>2. OneCallPerId'
  BY DEF OneCallPerId
<1>3. RowsAreKnown'
  <2> SUFFICES ASSUME NEW id \in CallId
               PROVE  PrecallRowIsEarned(id)' /\ BlockRowIsEarned(id)'
    BY DEF RowsAreKnown
  <2>0. /\ <<"precall", id>> \in RowId /\ <<"precall-block", id>> \in RowId
        /\ PrecallRowIsEarned(id) /\ BlockRowIsEarned(id)
    BY DEF RowId, RowsAreKnown
  <2>1. ledger'[<<"precall", id>>] = ledger[<<"precall", id>>]
    BY <2>0
  <2>2. PrecallRowIsEarned(id)'
    BY <2>0, <2>1 DEF PrecallRowIsEarned
  <2>3. CASE ledger'[<<"precall-block", id>>] = ledger[<<"precall-block", id>>]
    BY <2>0, <2>2, <2>3 DEF BlockRowIsEarned
  <2>4. CASE /\ req'[c].verdict = "block" /\ id = IdOf(c)
             /\ ledger'[<<"precall-block", id>>]
                  = [session |-> SessionOf(c), tok |-> req'[c].saved]
    BY <2>2, <2>4 DEF BlockRowIsEarned
  <2> QED
    BY <2>0, <2>2, <2>3, <2>4
<1>4. RewritesAreLogged'
  <2> SUFFICES ASSUME UniqueCallIds, NEW d \in Call,
                      req'[d].verdict = "modify", stage'[d] = "done"
               PROVE  \/ ledger'[<<"precall", IdOf(d)>>]
                           = [session |-> SessionOf(d), tok |-> req'[d].saved]
                      \/ <<"precall", IdOf(d)>> \in dropped'
    BY DEF RewritesAreLogged
  <2>1. d # c /\ req'[d] = req[d] /\ stage'[d] = stage[d]
    OBVIOUS
  <2>2. <<"precall", IdOf(d)>> \in RowId
    BY DEF RowId, IdOf, Call
  <2>3. ledger'[<<"precall", IdOf(d)>>] = ledger[<<"precall", IdOf(d)>>]
    BY <2>2
  <2> QED
    BY <2>1, <2>3 DEF RewritesAreLogged
<1> QED
  BY <1>1, <1>2, <1>3, <1>4

\* A call that passes logs nothing.
LEMMA BeforePassInv ==
    ASSUME Inv, NEW c \in Call, NEW tool \in Tool, NEW path \in Path \cup {None},
           BeforePass(c, tool, path)
    PROVE  Inv'
<1>1. TypeOK /\ Maps /\ "pass" \in {"pass", "modify", "block"} /\ 0 \in Estimate \cup {0}
      /\ "running" \in Stage \ {"new"} /\ "running" \in Stage
  BY DEF Inv, Maps, Stage
<1>2. /\ Begins(c, "running") /\ UNCHANGED <<pending, ledger, dropped>>
      /\ req'[c] = [tool |-> tool, path |-> path, verdict |-> "pass", saved |-> 0]
      /\ stage' \in [Call -> Stage] /\ req' \in [Call -> Request \cup {NoRequest}]
  <2>1. /\ Begin(c, tool, path, "pass", 0) /\ stage' = [stage EXCEPT ![c] = "running"]
        /\ UNCHANGED <<pending, ledger, dropped>>
    BY DEF BeforePass
  <2>2. \A d \in Call \ {c} : pending'[d] = pending[d]
    BY <2>1
  <2>3. Begins(c, "running")
    BY <1>1, <2>1, <2>2, BeginBegins
  <2>4. req'[c] = [tool |-> tool, path |-> path, verdict |-> "pass", saved |-> 0]
    BY <1>1, <2>1 DEF Begin, TypeOK
  <2>5. stage' \in [Call -> Stage] /\ req' \in [Call -> Request \cup {NoRequest}]
    BY <1>1, <2>1, <2>2, BeginBegins
  <2> QED
    BY <2>1, <2>3, <2>4, <2>5
<1>3. Begins(c, stage'[c]) /\ stage'[c] = "running" /\ stage[c] = "new"
  BY <1>2 DEF Begins
<1>4. Maps'
  BY <1>1, <1>2, <1>3, BeginMaps DEF TypeOK
<1>5. pending'[c] = 0
  BY <1>1, <1>2, <1>3 DEF Maps, NewIsUnknown
<1> QED
  BY <1>2, <1>3, <1>4, <1>5, BeginRest

\* A rewrite only notes its saving.
LEMMA BeforeModifyInv ==
    ASSUME Inv, NEW c \in Call, NEW tool \in Tool, NEW saved \in Estimate,
           BeforeModify(c, tool, saved)
    PROVE  Inv'
<1>1. TypeOK /\ Maps /\ "modify" \in {"pass", "modify", "block"}
      /\ saved \in Estimate \cup {0} /\ None \in Path \cup {None}
      /\ "running" \in Stage \ {"new"} /\ "running" \in Stage
  BY DEF Inv, Maps, Stage
<1>2. /\ pending'[c] = saved /\ pending' \in [Call -> Estimate \cup {0}]
      /\ \A d \in Call \ {c} : pending'[d] = pending[d]
  BY <1>1 DEF BeforeModify, TypeOK
<1>3. /\ Begins(c, "running") /\ UNCHANGED <<ledger, dropped>>
      /\ tool = "bash" /\ saved > 0
      /\ req'[c] = [tool |-> tool, path |-> None, verdict |-> "modify", saved |-> saved]
      /\ stage' \in [Call -> Stage] /\ req' \in [Call -> Request \cup {NoRequest}]
  <2>1. /\ Begin(c, tool, None, "modify", saved) /\ stage' = [stage EXCEPT ![c] = "running"]
        /\ tool = "bash" /\ saved > 0 /\ UNCHANGED <<ledger, dropped>>
    BY DEF BeforeModify
  <2>2. Begins(c, "running")
    BY <1>1, <1>2, <2>1, BeginBegins
  <2>3. req'[c] = [tool |-> tool, path |-> None, verdict |-> "modify", saved |-> saved]
    BY <1>1, <2>1 DEF Begin, TypeOK
  <2>4. stage' \in [Call -> Stage] /\ req' \in [Call -> Request \cup {NoRequest}]
    BY <1>1, <1>2, <2>1, BeginBegins
  <2> QED
    BY <2>1, <2>2, <2>3, <2>4
<1>4. Begins(c, stage'[c]) /\ stage'[c] = "running"
  BY <1>3 DEF Begins
<1>5. Maps'
  BY <1>1, <1>2, <1>3, <1>4, BeginMaps DEF TypeOK
<1> QED
  BY <1>2, <1>3, <1>4, <1>5, BeginRest

\* A block logs its row for the call that it ends.
LEMMA BeforeBlockInv ==
    ASSUME Inv, NEW c \in Call, NEW tool \in Tool, NEW path \in Path \cup {None},
           NEW saved \in Estimate \cup {0}, BeforeBlock(c, tool, path, saved)
    PROVE  Inv'
<1> DEFINE r == <<"precall-block", IdOf(c)>>
           tok == [x \in {r} |-> saved]
<1>1. TypeOK /\ Maps /\ "block" \in {"pass", "modify", "block"}
      /\ "blocked" \in Stage \ {"new"} /\ "blocked" \in Stage
  BY DEF Inv, Maps, Stage
<1>2. /\ Begins(c, "blocked") /\ UNCHANGED pending
      /\ req'[c] = [tool |-> tool, path |-> path, verdict |-> "block", saved |-> saved]
      /\ stage' \in [Call -> Stage] /\ req' \in [Call -> Request \cup {NoRequest}]
      /\ Log(SessionOf(c), {r}, tok)
  <2>1. /\ Begin(c, tool, path, "block", saved) /\ stage' = [stage EXCEPT ![c] = "blocked"]
        /\ Log(SessionOf(c), {r}, tok) /\ UNCHANGED pending
    BY DEF BeforeBlock
  <2>2. \A d \in Call \ {c} : pending'[d] = pending[d]
    BY <2>1
  <2>3. Begins(c, "blocked")
    BY <1>1, <2>1, <2>2, BeginBegins
  <2>4. req'[c] = [tool |-> tool, path |-> path, verdict |-> "block", saved |-> saved]
    BY <1>1, <2>1 DEF Begin, TypeOK
  <2>5. stage' \in [Call -> Stage] /\ req' \in [Call -> Request \cup {NoRequest}]
    BY <1>1, <2>1, <2>2, BeginBegins
  <2> QED
    BY <2>1, <2>3, <2>4, <2>5
<1>3. /\ {r} \in SUBSET RowId /\ tok \in [{r} -> Estimate \cup {0}]
      /\ SessionOf(c) \in Session /\ tok[r] = saved
  BY DEF RowId, Call, IdOf, SessionOf
<1>4. /\ ledger' \in [RowId -> Row \cup {NoRow}]
      /\ dropped' \in SUBSET RowId /\ dropped \subseteq dropped'
      /\ \A x \in RowId :
           \/ ledger'[x] = ledger[x]
           \/ x = r /\ ledger'[x] = [session |-> SessionOf(c), tok |-> saved]
  <2>1. /\ ledger \in [RowId -> Row \cup {NoRow}] /\ dropped \in SUBSET RowId
    BY <1>1 DEF TypeOK
  <2>2. /\ ledger' \in [RowId -> Row \cup {NoRow}]
        /\ dropped' \in SUBSET RowId /\ dropped \subseteq dropped'
    BY <1>2, <1>3, <2>1, LogType
  <2>3. \A x \in RowId :
           \/ ledger'[x] = ledger[x]
           \/ /\ x \in {r} /\ tok[x] > 0 /\ ledger[x] = NoRow
              /\ ledger'[x] = [session |-> SessionOf(c), tok |-> tok[x]]
    <3> HIDE DEF r, tok
    <3>1. Written(SessionOf(c), {r}, tok)
      BY <1>2, <1>3, <2>1, LogType
    <3> QED
      BY <3>1 DEF Written
  <2> QED
    BY <1>3, <2>2, <2>3
<1>5. Begins(c, stage'[c]) /\ stage'[c] = "blocked" /\ stage[c] = "new"
  BY <1>2 DEF Begins
<1>6. Maps'
  BY <1>1, <1>2, <1>4, <1>5, BeginMaps DEF TypeOK
<1>7. pending'[c] = 0
  BY <1>1, <1>2, <1>5 DEF Maps, NewIsUnknown
<1> QED
  BY <1>2, <1>4, <1>5, <1>6, <1>7, BeginRest

-----------------------------------------------------------------------------
(* The end of a call.                                                      *)

\* The first half of the invariant does not care how a call ends.
LEMMA EndMaps ==
    ASSUME Maps, NEW c \in Call, NEW st \in Stage \ {"new"},
           stage[c] # "new", stage' = [stage EXCEPT ![c] = st],
           pending' \in [Call -> Estimate \cup {0}],
           \A d \in Call \ {c} : pending'[d] = pending[d],
           ledger' \in [RowId -> Row \cup {NoRow}], dropped' \in SUBSET RowId,
           UNCHANGED <<req, engaged, current>>
    PROVE  Maps'
<1> USE DEF Maps
<1>1. TypeOK'
  BY DEF TypeOK
<1>2. NewIsUnknown'
  BY DEF NewIsUnknown, TypeOK
<1>3. EngagedIsKnown'
  BY DEF EngagedIsKnown, EngagedBefore
<1> QED
  BY <1>1, <1>2, <1>3

\* The after hook logs the pending saving of its own call.
LEMMA AfterOutputInv ==
    ASSUME Inv, NEW c \in Call, NEW saved \in Estimate \cup {0}, AfterOutput(c, saved)
    PROVE  Inv'
<1> DEFINE pre == <<"precall", IdOf(c)>>
           cmp == <<"compress", IdOf(c)>>
           ids == {pre, cmp}
           tok == [r \in ids |-> IF r = pre THEN pending[c] ELSE saved]
<1>1. /\ stage[c] = "running" /\ stage' = [stage EXCEPT ![c] = "done"]
      /\ pending' = [pending EXCEPT ![c] = 0]
      /\ Log(SessionOf(c), ids, tok)
      /\ UNCHANGED <<req, engaged, current>>
  BY DEF AfterOutput
<1>2. Maps /\ TypeOK /\ pending[c] \in Estimate \cup {0}
      /\ "done" \in Stage \ {"new"} /\ SessionOf(c) \in Session /\ IdOf(c) \in CallId
  BY DEF Inv, Maps, TypeOK, Stage, Call, SessionOf, IdOf
<1>3. ids \in SUBSET RowId /\ tok \in [ids -> Estimate \cup {0}]
  BY <1>2 DEF RowId
<1>4. ledger \in [RowId -> Row \cup {NoRow}] /\ dropped \in SUBSET RowId
  BY <1>2 DEF TypeOK
<1>4a. pre \in RowId /\ tok[pre] = pending[c]
  BY <1>3
<1> HIDE DEF tok, ids, pre, cmp
<1>5. /\ ledger' \in [RowId -> Row \cup {NoRow}]
      /\ dropped' \in SUBSET RowId /\ dropped \subseteq dropped'
  BY <1>1, <1>2, <1>3, <1>4, LogType
<1>6. \A x \in RowId :
           \/ ledger'[x] = ledger[x]
           \/ /\ x \in ids /\ tok[x] > 0 /\ ledger[x] = NoRow
              /\ ledger'[x] = [session |-> SessionOf(c), tok |-> tok[x]]
  <2>1. Written(SessionOf(c), ids, tok)
    BY <1>1, <1>2, <1>3, <1>4, LogType
  <2> QED
    BY <2>1 DEF Written
<1>7. \A x \in ids :
           tok[x] > 0 /\ ledger[x] = NoRow =>
             \/ ledger'[x] = [session |-> SessionOf(c), tok |-> tok[x]]
             \/ x \in dropped'
  <2>1. WrittenOrLost(SessionOf(c), ids, tok)
    BY <1>1, <1>2, <1>3, <1>4, LogType
  <2> QED
    BY <2>1 DEF WrittenOrLost
<1>9. Maps'
  <2>1. pending' \in [Call -> Estimate \cup {0}]
        /\ \A d \in Call \ {c} : pending'[d] = pending[d]
    BY <1>1, <1>2 DEF TypeOK
  <2> QED
    BY <1>1, <1>2, <1>5, <2>1, EndMaps
<1>10. stage'[c] = "done" /\ \A d \in Call \ {c} : stage'[d] = stage[d]
  BY <1>1, <1>2 DEF TypeOK
<1>11. PendingIsKnown'
  BY <1>1, <1>2, <1>10 DEF Inv, PendingIsKnown, TypeOK
<1>12. OneCallPerId'
  BY <1>1, <1>10 DEF Inv, OneCallPerId
<1>13. RowsAreKnown'
  <2> SUFFICES ASSUME NEW id \in CallId
               PROVE  PrecallRowIsEarned(id)' /\ BlockRowIsEarned(id)'
    BY DEF RowsAreKnown
  <2>1. /\ <<"precall", id>> \in RowId /\ <<"precall-block", id>> \in RowId
        /\ PrecallRowIsEarned(id) /\ BlockRowIsEarned(id)
    BY DEF RowId, Inv, RowsAreKnown
  <2>2. ledger'[<<"precall-block", id>>] = ledger[<<"precall-block", id>>]
    BY <1>6, <2>1 DEF ids, pre, cmp
  <2>3. BlockRowIsEarned(id)'
    BY <1>1, <1>10, <2>1, <2>2 DEF BlockRowIsEarned
  <2>4. CASE ledger'[<<"precall", id>>] = ledger[<<"precall", id>>]
    BY <1>1, <1>10, <2>1, <2>3, <2>4 DEF PrecallRowIsEarned
  <2>5. CASE ledger'[<<"precall", id>>] # ledger[<<"precall", id>>]
    <3>0. /\ <<"precall", id>> \in ids /\ tok[<<"precall", id>>] > 0
          /\ ledger'[<<"precall", id>>]
               = [session |-> SessionOf(c), tok |-> tok[<<"precall", id>>]]
      BY <1>6, <2>1, <2>5
    <3>1. /\ id = IdOf(c) /\ pending[c] # 0
          /\ ledger'[<<"precall", id>>] = [session |-> SessionOf(c), tok |-> pending[c]]
      <4>1. <<"precall", id>> = pre /\ id = IdOf(c)
        BY <3>0 DEF ids, pre, cmp
      <4> QED
        BY <3>0, <4>1, <1>4a
    <3>2. req[c].verdict = "modify" /\ req[c].saved = pending[c]
      BY <3>1 DEF Inv, PendingIsKnown
    <3>3. PrecallRowIsEarned(id)'
      BY <1>1, <1>10, <3>1, <3>2 DEF PrecallRowIsEarned
    <3> QED
      BY <2>3, <3>3
  <2> QED
    BY <2>4, <2>5
<1>14. RewritesAreLogged'
  <2> SUFFICES ASSUME UniqueCallIds, NEW d \in Call,
                      req[d].verdict = "modify", stage'[d] = "done"
               PROVE  \/ ledger'[<<"precall", IdOf(d)>>]
                           = [session |-> SessionOf(d), tok |-> req[d].saved]
                      \/ <<"precall", IdOf(d)>> \in dropped'
    BY <1>1 DEF RewritesAreLogged
  <2>1. CASE d = c
    <3>1. pending[c] # 0 /\ req[c].saved = pending[c] /\ tok[pre] > 0
      BY <1>1, <1>2, <1>4a, <2>1, HooksAssumption DEF Inv, PendingIsKnown
    <3>2. ledger[pre] = NoRow
      <4>1. PrecallRowIsEarned(IdOf(c))
        BY <1>2 DEF Inv, RowsAreKnown
      <4> SUFFICES ASSUME NEW e \in Call, IdOf(e) = IdOf(c), stage[e] = "done"
                   PROVE  FALSE
        BY <4>1 DEF PrecallRowIsEarned, pre
      <4>2. e = c
        BY <1>1 DEF Inv, OneCallPerId
      <4> QED
        BY <1>1, <4>2
    <3> QED
      BY <1>7, <1>4a, <2>1, <3>1, <3>2 DEF ids, pre
  <2>2. CASE d # c
    <3>1. stage[d] = "done" /\ IdOf(d) # IdOf(c) /\ IdOf(d) \in CallId
      BY <1>1, <1>10, <2>2 DEF Inv, OneCallPerId, IdOf, Call
    <3>2. <<"precall", IdOf(d)>> \in RowId /\ <<"precall", IdOf(d)>> \notin ids
      BY <3>1 DEF RowId, ids, pre, cmp
    <3>3. ledger'[<<"precall", IdOf(d)>>] = ledger[<<"precall", IdOf(d)>>]
      BY <1>6, <3>2
    <3> QED
      BY <1>5, <3>1, <3>3 DEF Inv, RewritesAreLogged
  <2> QED
    BY <2>1, <2>2
<1> QED
  BY <1>9, <1>11, <1>12, <1>13, <1>14 DEF Inv

\* A call that ends without any row.
LEMMA SilentEndInv ==
    ASSUME Inv, NEW c \in Call, NEW st \in {"done", "empty", "failed"},
           stage[c] = "running", stage' = [stage EXCEPT ![c] = st],
           st = "done" => req[c].tool \in SkippedAfter,
           UNCHANGED <<req, pending, engaged, current, ledger, dropped>>
    PROVE  Inv'
<1>1. /\ TypeOK /\ Maps /\ st \in Stage \ {"new"} /\ stage'[c] = st
      /\ \A d \in Call \ {c} : stage'[d] = stage[d]
  BY DEF Inv, Maps, TypeOK, Stage
<1>2. Maps'
  <2>1. /\ pending' \in [Call -> Estimate \cup {0}]
        /\ ledger' \in [RowId -> Row \cup {NoRow}] /\ dropped' \in SUBSET RowId
    BY <1>1 DEF TypeOK
  <2> QED
    BY <1>1, <2>1, EndMaps
<1>3. PendingIsKnown' /\ OneCallPerId'
  BY <1>1 DEF Inv, PendingIsKnown, OneCallPerId
<1>4. RowsAreKnown'
  <2>1. \A d \in Call : stage[d] \in {"done", "blocked"} => stage'[d] = stage[d]
    BY <1>1
  <2> SUFFICES ASSUME NEW id \in CallId
               PROVE  PrecallRowIsEarned(id)' /\ BlockRowIsEarned(id)'
    BY DEF RowsAreKnown
  <2>2. PrecallRowIsEarned(id) /\ BlockRowIsEarned(id)
    BY DEF Inv, RowsAreKnown
  <2>3. PrecallRowIsEarned(id)'
    BY <2>1, <2>2 DEF PrecallRowIsEarned
  <2>4. BlockRowIsEarned(id)'
    BY <2>1, <2>2 DEF BlockRowIsEarned
  <2> QED
    BY <2>3, <2>4
<1>5. RewritesAreLogged'
  BY <1>1 DEF Inv, RewritesAreLogged, PendingIsKnown, SkippedAfter
<1> QED
  BY <1>2, <1>3, <1>4, <1>5 DEF Inv

\* A restart drops what was pending and touches no row.
LEMMA RestartInv == Inv /\ Restart => Inv'
<1> SUFFICES ASSUME Inv, Restart PROVE Inv'
  OBVIOUS
<1> USE DEF Restart
<1>1. TypeOK'
  BY DEF Inv, Maps, TypeOK, Stage
<1>2. NewIsUnknown' /\ EngagedIsKnown'
  BY DEF NewIsUnknown, EngagedIsKnown, EngagedBefore
<1>3. PendingIsKnown'
  BY DEF Inv, PendingIsKnown, Maps, TypeOK, Stage
<1>4. OneCallPerId' /\ RewritesAreLogged'
  BY DEF Inv, OneCallPerId, RewritesAreLogged, Maps, TypeOK, Stage
<1>5. RowsAreKnown'
  BY DEF Inv, RowsAreKnown, PrecallRowIsEarned, BlockRowIsEarned
<1> QED
  BY <1>1, <1>2, <1>3, <1>4, <1>5 DEF Inv, Maps

\* A stuttering step.
LEMMA StutterInv == Inv /\ UNCHANGED vars => Inv'
  BY DEF Inv, Maps, TypeOK, NewIsUnknown, EngagedIsKnown, EngagedBefore,
     PendingIsKnown, OneCallPerId, RowsAreKnown, PrecallRowIsEarned,
     BlockRowIsEarned, RewritesAreLogged, vars

\* Every hook, end of a call and restart preserves the invariant.
LEMMA NextInv == Inv /\ [Next]_vars => Inv'
<1> SUFFICES ASSUME Inv, [Next]_vars PROVE Inv'
  OBVIOUS
<1>1. ASSUME NEW c \in Call, AfterNothing(c) PROVE Inv'
  <2> DEFINE st == IF req[c].tool \in SkippedAfter THEN "done" ELSE "empty"
  <2>1. /\ stage[c] = "running" /\ stage' = [stage EXCEPT ![c] = st]
        /\ st \in {"done", "empty", "failed"}
        /\ st = "done" => req[c].tool \in SkippedAfter
        /\ UNCHANGED <<req, pending, engaged, current, ledger, dropped>>
    BY <1>1 DEF AfterNothing
  <2> HIDE DEF st
  <2> QED
    BY <2>1, SilentEndInv
<1>2. ASSUME NEW c \in Call, ToolFails(c) PROVE Inv'
  <2>1. /\ stage[c] = "running" /\ stage' = [stage EXCEPT ![c] = "failed"]
        /\ UNCHANGED <<req, pending, engaged, current, ledger, dropped>>
    BY <1>2 DEF ToolFails
  <2> QED
    BY <2>1, SilentEndInv
<1> QED
  BY <1>1, <1>2, BeforePassInv, BeforeBlockInv, BeforeModifyInv, AfterOutputInv,
     RestartInv, StutterInv DEF Next

\* The inductive invariant.
LEMMA Invariant == Spec => []Inv
  BY InitInv, NextInv, PTL DEF Spec

-----------------------------------------------------------------------------
(* The theorems.                                                           *)

\* The variables keep their types, whatever the hooks and the host do.
THEOREM TypeCorrect == Spec => []TypeOK
  BY Invariant, PTL DEF Inv, Maps

\* Every saving of the before hook on the books belongs to the one call that
\* earned it, in any order in which parallel calls start, end, fail or are
\* cut off by a restart.
THEOREM SavingsAreAlwaysEarned == Spec => []SavingsAreEarned
<1>1. Inv => SavingsAreEarned
  <2> SUFFICES ASSUME Inv, UniqueCallIds, NEW id \in CallId
               PROVE  \/ ledger[<<"precall", id>>] = NoRow
                      \/ ledger[<<"precall-block", id>>] = NoRow
    BY DEF SavingsAreEarned, Inv, RowsAreKnown
  <2> SUFFICES ASSUME ledger[<<"precall", id>>] # NoRow,
                      ledger[<<"precall-block", id>>] # NoRow
               PROVE  FALSE
    OBVIOUS
  <2>1. PICK c \in Call : IdOf(c) = id /\ req[c].verdict = "modify" /\ stage[c] = "done"
    BY DEF Inv, RowsAreKnown, PrecallRowIsEarned
  <2>2. PICK d \in Call : IdOf(d) = id /\ req[d].verdict = "block" /\ stage[d] = "blocked"
    BY DEF Inv, RowsAreKnown, BlockRowIsEarned
  <2> QED
    BY <2>1, <2>2 DEF Inv, OneCallPerId
<1> QED
  BY <1>1, Invariant, PTL

\* A rewritten call that produced output has its saving on the books, unless
\* the store dropped the row.
THEOREM RewritesAreAlwaysLogged == Spec => []RewritesAreLogged
  BY Invariant, PTL DEF Inv

\* A large file is read in full exactly if the session engaged it before:
\* neither repetition nor other sessions wear the block down.
THEOREM LargeReadsAlwaysNeedEngagement == Spec => LargeReadsNeedEngagement
<1>1. Inv /\ [Next]_vars =>
        [\A c \in Call :
          /\ stage[c] = "new" /\ stage'[c] # "new"
          /\ req'[c].tool = "read"
          /\ req'[c].path \in LargePath \ LowSignalPath
          => (req'[c].verdict = "block"
                <=> ~ EngagedBefore(SessionOf(c), req'[c].path))]_vars
  <2> SUFFICES ASSUME Inv, Next, NEW c \in Call,
                      stage[c] = "new", stage'[c] # "new", req'[c].tool = "read",
                      req'[c].path \in LargePath \ LowSignalPath
               PROVE  req'[c].verdict = "block"
                        <=> ~ EngagedBefore(SessionOf(c), req'[c].path)
    OBVIOUS
  <2> DEFINE p == req'[c].path
  <2>1. /\ p \in Path /\ SessionOf(c) \in Session /\ p # None
        /\ p \in engaged[SessionOf(c)] <=> EngagedBefore(SessionOf(c), p)
    BY HooksAssumption DEF Inv, Maps, EngagedIsKnown, Call, SessionOf
  <2>2. \A tool, path : tool = "read" /\ path = p
          => (Blocked(tool, path, SessionOf(c)) <=> p \notin engaged[SessionOf(c)])
    BY DEF Blocked, LowSignal, TooLarge
  <2>3. ASSUME NEW tool \in Tool, NEW path \in Path \cup {None}, BeforePass(c, tool, path)
        PROVE  req'[c].verdict = "block" <=> ~ EngagedBefore(SessionOf(c), p)
    <3>1. req'[c] = [tool |-> tool, path |-> path, verdict |-> "pass", saved |-> 0]
      BY <2>3 DEF BeforePass, Begin, Inv, Maps, TypeOK
    <3>2. tool = "read" /\ path = p /\ ~ Blocked(tool, path, SessionOf(c))
      BY <2>3, <3>1 DEF BeforePass, SkippedBefore
    <3> QED
      BY <2>1, <2>2, <3>1, <3>2
  <2>4. ASSUME NEW tool \in Tool, NEW path \in Path \cup {None},
               NEW saved \in Estimate \cup {0}, BeforeBlock(c, tool, path, saved)
        PROVE  req'[c].verdict = "block" <=> ~ EngagedBefore(SessionOf(c), p)
    <3>1. req'[c] = [tool |-> tool, path |-> path, verdict |-> "block", saved |-> saved]
      BY <2>4 DEF BeforeBlock, Begin, Inv, Maps, TypeOK
    <3>2. tool = "read" /\ path = p /\ Blocked(tool, path, SessionOf(c))
      BY <2>4, <3>1 DEF BeforeBlock
    <3> QED
      BY <2>1, <2>2, <3>1, <3>2
  <2>5. ASSUME NEW tool \in Tool, NEW saved \in Estimate, BeforeModify(c, tool, saved)
        PROVE  FALSE
    <3>1. req'[c] = [tool |-> tool, path |-> None, verdict |-> "modify", saved |-> saved]
      BY <2>5 DEF BeforeModify, Begin, Inv, Maps, TypeOK
    <3> QED
      BY <2>5, <3>1 DEF BeforeModify
  <2>6. ASSUME NEW d \in Call, d # c,
               \/ \E tool \in Tool, path \in Path \cup {None} :
                    \/ BeforePass(d, tool, path)
                    \/ \E saved \in Estimate \cup {0} : BeforeBlock(d, tool, path, saved)
               \/ \E tool \in Tool, saved \in Estimate : BeforeModify(d, tool, saved)
               \/ \E saved \in Estimate \cup {0} : AfterOutput(d, saved)
               \/ AfterNothing(d) \/ ToolFails(d)
        PROVE  FALSE
    BY <2>6 DEF BeforePass, BeforeBlock, BeforeModify, AfterOutput, AfterNothing,
       ToolFails, Inv, Maps, TypeOK
  <2>7. ASSUME \/ \E saved \in Estimate \cup {0} : AfterOutput(c, saved)
               \/ AfterNothing(c) \/ ToolFails(c) \/ Restart
        PROVE  FALSE
    BY <2>7 DEF AfterOutput, AfterNothing, ToolFails, Restart
  <2> QED
    BY <2>3, <2>4, <2>5, <2>6, <2>7 DEF Next
<1> QED
  BY <1>1, Invariant, PTL DEF Spec, LargeReadsNeedEngagement

-----------------------------------------------------------------------------
(* ContextPrune.                                                           *)

\* A nonempty set of call numbers has a latest one.
LEMMA LatestExists ==
    ASSUME NEW S \in SUBSET CallNumber, S # {}
    PROVE  Max(S) \in S /\ \A c \in S : Max(S) >= c
BY ContextAssumption, MaxExists DEF CallNumber

-----------------------------------------------------------------------------
(* The history.                                                            *)

\* A call as the host keeps it.
HostPart ==
    {p \in [call : CallNumber, key : Key, status : {Running, Completed}, text : AnyText,
            length : Nat, see : {NoCall}] :
        p.status = Completed => p.length = Length(p.text)}

\* The history is the host's own: no placeholder is in it.
HistoryIsWhole == history \in [Session -> Seq(Seq(HostPart))]

\* A length is a number.
LEMMA InLinesType ==
    ASSUME NEW n \in Nat \ {0}, NEW w \in Nat
    PROVE  InLines(n, w) \in Nat
<1>1. n * (w + 1) = n * w + n /\ n * w \in Nat
  OBVIOUS
<1> QED BY <1>1 DEF InLines

LEMMA LengthType ==
    ASSUME NEW t \in AnyText
    PROVE  Length(t) \in Nat /\ Plain(t) \in Nat
<1>1. t.lines \in Nat \ {0} /\ t.width \in Nat /\ t.noise \in Nat
  BY DEF AnyText
<1>2. InLines(t.lines, t.width) \in Nat
  BY <1>1, InLinesType
<1> QED
  BY <1>1, <1>2 DEF Length, Plain

\* The parts of a history are parts of the host.
LEMMA PartsType ==
    ASSUME NEW messages \in Seq(Seq(HostPart))
    PROVE  /\ Parts(messages) \subseteq HostPart
           /\ \A p \in Parts(messages) : \E i \in DOMAIN messages :
                 \E j \in DOMAIN messages[i] : p = messages[i][j]
           /\ \A i \in DOMAIN messages : \A j \in DOMAIN messages[i] :
                 messages[i][j] \in Parts(messages)
BY DEF Parts, ToSet

\* Every step leaves the history whole.
LEMMA NextHistory == HistoryIsWhole /\ [PruneNext]_pruneVars => HistoryIsWhole'
<1> SUFFICES ASSUME HistoryIsWhole, [PruneNext]_pruneVars PROVE HistoryIsWhole'
  OBVIOUS
<1> USE DEF HistoryIsWhole
<1>1. ASSUME NEW s \in Session, NewMessage(s) PROVE HistoryIsWhole'
  <2>1. Append(history[s], <<>>) \in Seq(Seq(HostPart))
    OBVIOUS
  <2> QED BY <1>1, <2>1 DEF NewMessage
<1>2. ASSUME NEW s \in Session, NEW k \in Key, CallTool(s, k) PROVE HistoryIsWhole'
  <2> DEFINE n == Cardinality(CallsOf(s)) + 1
             last == Len(history[s])
             new == [call |-> n, key |-> k, status |-> Running, text |-> NoText,
                     length |-> 0, see |-> NoCall]
  <2>1. CallsOf(s) \subseteq CallNumber
    <3>1. Parts(history[s]) \subseteq HostPart
      BY PartsType
    <3> QED BY <3>1 DEF CallsOf, HostPart
  <2>2. Cardinality(CallsOf(s)) \in Nat
    <3>1. IsFiniteSet(CallNumber)
      BY ContextAssumption, FS_Interval DEF CallNumber
    <3>2. IsFiniteSet(CallsOf(s))
      BY <2>1, <3>1, FS_Subset
    <3> QED BY <3>2, FS_CardinalityType
  <2>3. n \in CallNumber
    BY <2>2, <1>2, ContextAssumption DEF CallTool, CallNumber
  <2>4. new \in HostPart
    BY <2>3 DEF HostPart, NoText, AnyText, Running, Completed
  <2>5. last \in DOMAIN history[s] /\ history[s] \in Seq(Seq(HostPart))
    BY <1>2 DEF CallTool
  <2>6. Append(history[s][last], new) \in Seq(HostPart)
    BY <2>4, <2>5
  <2>7. [history[s] EXCEPT ![last] = Append(@, new)] \in Seq(Seq(HostPart))
    BY <2>5, <2>6
  <2>8. history' = [history EXCEPT ![s][last] = Append(@, new)]
    BY <1>2, Zenon DEF CallTool
  <2> HIDE DEF new, last
  <2> QED BY <2>7, <2>8
<1>3. ASSUME NEW s \in Session, NEW i \in DOMAIN history[s], NEW j \in DOMAIN history[s][i],
             NEW t \in Text, CallCompletes(s, i, j, t)
      PROVE  HistoryIsWhole'
  <2> DEFINE old == history[s][i][j]
             new == [old EXCEPT !.status = Completed, !.text = t, !.length = Length(t)]
  <2>1. t \in AnyText
    BY ContextAssumption
  <2>2. old \in HostPart /\ history[s] \in Seq(Seq(HostPart)) /\ history[s][i] \in Seq(HostPart)
    OBVIOUS
  <2>3. new \in HostPart
    BY <2>1, <2>2, LengthType DEF HostPart
  <2>4. [history[s][i] EXCEPT ![j] = new] \in Seq(HostPart)
    BY <2>2, <2>3
  <2>5. [history[s] EXCEPT ![i] = [@ EXCEPT ![j] = new]] \in Seq(Seq(HostPart))
    BY <2>2, <2>4
  <2>6. history' = [history EXCEPT ![s][i][j] = new]
    BY <1>3, Zenon DEF CallCompletes
  <2> HIDE DEF new
  <2> QED BY <2>5, <2>6
<1>4. ASSUME NEW s \in Session, NEW kept \in SUBSET Source, Transform(s, kept)
      PROVE  HistoryIsWhole'
  BY <1>4 DEF Transform
<1>5. ASSUME Tick PROVE HistoryIsWhole'
  BY <1>5 DEF Tick
<1>6. ASSUME UNCHANGED pruneVars PROVE HistoryIsWhole'
  BY <1>6 DEF pruneVars
<1> QED
  BY <1>1, <1>2, <1>3, <1>4, <1>5, <1>6 DEF PruneNext

-----------------------------------------------------------------------------
(* What a request is made of.                                              *)

\* The placeholders of some messages lead on.
LeadsOn(messages) ==
    \A p \in Parts(messages) :
        p.see # NoCall => \E q \in Parts(messages) :
            /\ q.call = p.see /\ q.call > p.call
            /\ q.key = p.key /\ q.status = Completed
            /\ q.see = NoCall
            /\ q.length \in {Length(q.text), Compressed(q.text)}

\* Two parts that differ in nothing but that the output of the first may be cut.
Alike(p, q) ==
    /\ p.call = q.call /\ p.key = q.key /\ p.status = q.status /\ p.see = q.see
    /\ p.text = q.text /\ p.length \in {q.length, Compressed(q.text)}

\* The prune makes a part a placeholder or leaves it alone.
Pruned(messages, p) == IF Prunable(messages, p) THEN Placeholder(messages, p) ELSE p

\* What a placeholder looks like.
LEMMA PlaceholderFields ==
    ASSUME NEW messages \in Seq(Seq(HostPart)), NEW p \in HostPart
    PROVE  /\ Pruned(messages, p).call = p.call
           /\ Pruned(messages, p).key = p.key
           /\ Pruned(messages, p).status = p.status
           /\ Prunable(messages, p) => Pruned(messages, p).see = LatestCall(messages, p.key)
           /\ ~ Prunable(messages, p) => Pruned(messages, p).see = NoCall
           /\ Pruned(messages, p).text = p.text
           /\ ~ Prunable(messages, p) => Pruned(messages, p).length = p.length
           /\ DOMAIN Pruned(messages, p) = DOMAIN p
BY DEF Pruned, Placeholder, HostPart

\* A part that is prunable has a later one that is not, of the same key.
LEMMA LaterCall ==
    ASSUME NEW messages \in Seq(Seq(HostPart)), NEW p \in Parts(messages), Prunable(messages, p)
    PROVE  \E q \in Parts(messages) :
              /\ q.call = LatestCall(messages, p.key) /\ q.call > p.call
              /\ q.key = p.key /\ q.status = Completed
              /\ ~ Prunable(messages, q)
<1> DEFINE Same == {q \in Parts(messages) : q.status = Completed /\ q.key = p.key}
           Calls == {q.call : q \in Same}
<1>1. p \in HostPart /\ Same \subseteq HostPart
  BY PartsType
<1>2. p \in Same
  BY DEF Prunable
<1>3. Calls \in SUBSET CallNumber /\ p.call \in Calls
  BY <1>1, <1>2 DEF HostPart
<1>4. LatestCall(messages, p.key) = Max(Calls)
  BY DEF LatestCall
<1>5. Max(Calls) \in Calls /\ Max(Calls) >= p.call
  BY <1>3, LatestExists
<1>6. PICK q \in Same : q.call = Max(Calls)
  BY <1>5
<1>7. q.call > p.call
  <2>1. p.call # Max(Calls)
    BY <1>4 DEF Prunable
  <2>2. p.call \in Int /\ q.call \in Int
    BY <1>1, ContextAssumption DEF HostPart, CallNumber
  <2> QED BY <1>5, <1>6, <2>1, <2>2
<1>8. ~ Prunable(messages, q)
  BY <1>4, <1>6 DEF Prunable
<1> QED
  BY <1>4, <1>6, <1>7, <1>8

\* The cap changes nothing but outputs.
LEMMA CappedIsAlike ==
    ASSUME NEW p, [p EXCEPT !.length = Compressed(p.text)].call = p.call,
           [p EXCEPT !.length = Compressed(p.text)].key = p.key,
           [p EXCEPT !.length = Compressed(p.text)].status = p.status,
           [p EXCEPT !.length = Compressed(p.text)].see = p.see,
           [p EXCEPT !.length = Compressed(p.text)].text = p.text,
           [p EXCEPT !.length = Compressed(p.text)].length = Compressed(p.text)
    PROVE  Alike(Capped(p), p)
BY DEF Alike, Capped

\* What is sent has, at each place, the part of the history as the prune and
\* the cap leave it.
LEMMA SentParts ==
    ASSUME NEW messages \in Seq(Seq(HostPart))
    PROVE  LET sentNow == CapStaleToolOutputs(PruneMessageContext(messages)) IN
           /\ \A r \in Parts(sentNow) : \E p \in Parts(messages) : Alike(r, Pruned(messages, p))
           /\ \A p \in Parts(messages) : \E r \in Parts(sentNow) : Alike(r, Pruned(messages, p))
<1> DEFINE pruned == PruneMessageContext(messages)
           sentNow == CapStaleToolOutputs(pruned)
<1>1. /\ DOMAIN pruned = DOMAIN messages
      /\ \A i \in DOMAIN messages :
            /\ DOMAIN pruned[i] = DOMAIN messages[i]
            /\ \A j \in DOMAIN messages[i] : pruned[i][j] = Pruned(messages, messages[i][j])
  BY DEF PruneMessageContext, EachPart, Pruned
<1>2. /\ DOMAIN sentNow = DOMAIN pruned
      /\ \A i \in DOMAIN pruned :
            /\ DOMAIN sentNow[i] = DOMAIN pruned[i]
            /\ \A j \in DOMAIN pruned[i] : sentNow[i][j] \in {pruned[i][j], Capped(pruned[i][j])}
  BY DEF CapStaleToolOutputs
<1>3. ASSUME NEW i \in DOMAIN messages, NEW j \in DOMAIN messages[i]
      PROVE  Alike(sentNow[i][j], Pruned(messages, messages[i][j]))
  <2> DEFINE p == messages[i][j]
             r == Pruned(messages, p)
  <2>1. p \in HostPart
    BY PartsType
  <2>2. r \in [call : CallNumber, key : Key, status : {Running, Completed}, text : AnyText,
               length : {r.length}, see : {r.see}]
    BY <2>1 DEF Pruned, Placeholder, HostPart
  <2>3. Alike(Capped(r), r)
    BY <2>2, CappedIsAlike
  <2>4. sentNow[i][j] \in {r, Capped(r)}
    BY <1>1, <1>2
  <2> QED BY <2>3, <2>4 DEF Alike
<1>4. ASSUME NEW r \in Parts(sentNow)
      PROVE  \E p \in Parts(messages) : Alike(r, Pruned(messages, p))
  <2>1. PICK i \in DOMAIN messages : \E j \in DOMAIN messages[i] : r = sentNow[i][j]
    BY <1>1, <1>2 DEF Parts, ToSet
  <2>2. PICK j \in DOMAIN messages[i] : r = sentNow[i][j]
    BY <2>1
  <2> QED BY <2>2, <1>3, PartsType
<1>5. ASSUME NEW p \in Parts(messages)
      PROVE  \E r \in Parts(sentNow) : Alike(r, Pruned(messages, p))
  <2>1. PICK i \in DOMAIN messages : \E j \in DOMAIN messages[i] : p = messages[i][j]
    BY PartsType
  <2>2. PICK j \in DOMAIN messages[i] : p = messages[i][j]
    BY <2>1
  <2>3. sentNow[i][j] \in Parts(sentNow)
    BY <1>1, <1>2 DEF Parts, ToSet
  <2> QED BY <2>2, <2>3, <1>3
<1> QED
  BY <1>4, <1>5

\* A request's placeholders lead on.
LEMMA TransformedLeadsOn ==
    ASSUME NEW messages \in Seq(Seq(HostPart))
    PROVE  LeadsOn(CapStaleToolOutputs(PruneMessageContext(messages)))
<1> DEFINE sentNow == CapStaleToolOutputs(PruneMessageContext(messages))
<1> HIDE DEF sentNow
<1>1. ASSUME NEW r \in Parts(sentNow), r.see # NoCall
      PROVE  \E q \in Parts(sentNow) :
                /\ q.call = r.see /\ q.call > r.call
                /\ q.key = r.key /\ q.status = Completed
                /\ q.see = NoCall
                /\ q.length \in {Length(q.text), Compressed(q.text)}
  <2>1. PICK p \in Parts(messages) : Alike(r, Pruned(messages, p))
    BY SentParts DEF sentNow
  <2>2. p \in HostPart
    BY PartsType
  <2>3. /\ Prunable(messages, p) /\ r.see = LatestCall(messages, p.key)
        /\ r.call = p.call /\ r.key = p.key
    BY <1>1, <2>1, <2>2, PlaceholderFields DEF Alike
  <2>4. PICK later \in Parts(messages) :
              /\ later.call = LatestCall(messages, p.key) /\ later.call > p.call
              /\ later.key = p.key /\ later.status = Completed
              /\ ~ Prunable(messages, later)
    BY <2>3, LaterCall
  <2>5. later \in HostPart
    BY PartsType
  <2>6. PICK q \in Parts(sentNow) : Alike(q, Pruned(messages, later))
    BY SentParts DEF sentNow
  <2>7. q.call = later.call /\ q.key = later.key /\ q.status = later.status /\ q.see = NoCall
    BY <2>4, <2>5, <2>6, PlaceholderFields DEF Alike
  <2>8. q.length \in {Length(q.text), Compressed(q.text)}
    <3>1. later.length = Length(later.text)
      BY <2>4, <2>5 DEF HostPart
    <3> QED BY <2>4, <2>5, <2>6, <3>1, PlaceholderFields DEF Alike
  <2> QED BY <2>3, <2>4, <2>6, <2>7, <2>8
<1> QED
  BY <1>1 DEF LeadsOn, sentNow

-----------------------------------------------------------------------------
(* Placeholders lead on.                                                   *)

SentLeadsOn == DOMAIN sent = Session /\ \A s \in Session : LeadsOn(sent[s])

\* Every step leaves what was sent leading on.
LEMMA NextSent == HistoryIsWhole /\ SentLeadsOn /\ [PruneNext]_pruneVars => SentLeadsOn'
<1> SUFFICES ASSUME HistoryIsWhole, SentLeadsOn, [PruneNext]_pruneVars PROVE SentLeadsOn'
  OBVIOUS
<1>1. ASSUME NEW s \in Session, NEW kept \in SUBSET Source, Transform(s, kept)
      PROVE  SentLeadsOn'
  <2>1. history[s] \in Seq(Seq(HostPart))
    BY DEF HistoryIsWhole
  <2>2. LeadsOn(CapStaleToolOutputs(PruneMessageContext(history[s])))
    BY <2>1, TransformedLeadsOn
  <2>3. sent' = [sent EXCEPT ![s] = CapStaleToolOutputs(PruneMessageContext(history[s]))]
    BY <1>1 DEF Transform
  <2>4. DOMAIN sent' = Session /\ \A t \in Session : LeadsOn(sent'[t])
    BY <2>2, <2>3 DEF SentLeadsOn
  <2> QED BY <2>4 DEF SentLeadsOn, LeadsOn, Parts, ToSet
<1>2. ASSUME sent' = sent PROVE SentLeadsOn'
  BY <1>2 DEF SentLeadsOn, LeadsOn, Parts, ToSet
<1> QED
  BY <1>1, <1>2 DEF PruneNext, NewMessage, CallTool, CallCompletes, Tick, pruneVars

\* Whatever the model reads as a placeholder names a later call of the same
\* tool and arguments in the same request, with its own output: whole, which may
\* be nothing, or cut by the cap (context-prune.ts:50-95, 126-150).
THEOREM PlaceholdersAlwaysLeadOn == PruneSpec => []PlaceholdersLeadOn
<1>1. PruneInit => HistoryIsWhole
  BY DEF PruneInit, HistoryIsWhole
<1>2. PruneInit => SentLeadsOn
  BY DEF PruneInit, SentLeadsOn, LeadsOn, Parts, ToSet
<1>3. SentLeadsOn => PlaceholdersLeadOn
  BY DEF SentLeadsOn, LeadsOn, PlaceholdersLeadOn
<1> QED
  BY <1>1, <1>2, <1>3, NextHistory, NextSent, PTL DEF PruneSpec

-----------------------------------------------------------------------------
(* What a request is shorter by.                                           *)

\* The name of a tool and the id of a call are so short that a placeholder is
\* no longer than the shortest output that it stands for, of 48 tokens.
ShortNames == \A k \in Key : NameLength[k] + IdLength <= 123

\* A count has one to ten digits.
LEMMA DigitsType ==
    ASSUME NEW n
    PROVE  Digits(n) \in 1 .. 10
<1> DEFINE D == {d \in 1 .. 9 : 10 ^ d <= n}
<1>1. IsFiniteSet(1 .. 9) /\ Cardinality(1 .. 9) = 9
  <2>1. 1 \in Int /\ 9 \in Int
    OBVIOUS
  <2>2. IsFiniteSet(1 .. 9) /\ Cardinality(1 .. 9) = IF 1 > 9 THEN 0 ELSE 9 - 1 + 1
    BY <2>1, FS_Interval, Zenon
  <2> QED BY <2>2
<1>2. D \in SUBSET (1 .. 9)
  OBVIOUS
<1>3. Digits(n) = 1 + Cardinality(D)
  BY DEF Digits
<1> HIDE DEF D
<1>4. Cardinality(D) \in Nat /\ Cardinality(D) <= 9
  BY <1>1, <1>2, FS_Subset, FS_CardinalityType
<1> QED BY <1>3, <1>4

\* Tokens grow with the length.
LEMMA TokensType ==
    ASSUME NEW n \in Nat
    PROVE  Tokens(n) \in Nat /\ \A m \in Nat : n <= m => Tokens(n) <= Tokens(m)
BY DEF Tokens

\* The cap does not lengthen an output.
LEMMA CompressedIsShorter ==
    ASSUME NEW t \in AnyText
    PROVE  Compressed(t) \in Nat /\ Tokens(Compressed(t)) <= Tokens(Length(t))
<1>1. Length(t) \in Nat /\ Plain(t) \in Nat
  BY LengthType
<1>2. Normalized(t, 2048) \in Nat
  <2>1. ByLines(t) \in Nat
    <3> DEFINE head == InLines(HeadLines, t.width)
               tail == InLines(TailLines, t.width)
               a == Digits(t.lines - HeadLines - TailLines)
               b == Digits(Tokens(Plain(t)) - Tokens(head + tail))
    <3>1. head \in Nat /\ tail \in Nat
      BY InLinesType DEF AnyText, HeadLines, TailLines
    <3>2. a \in 1 .. 10 /\ b \in 1 .. 10
      BY DigitsType
    <3>3. ByLines(t) = head + (44 + a + b) + tail + 4
      BY DEF ByLines, Shortened
    <3> HIDE DEF head, tail, a, b
    <3> QED BY <3>1, <3>2, <3>3
  <2>2. ByChars(t, 2048) \in Nat
    <3> DEFINE head == (2048 * 65) \div 100
               tail == 2048 - head - 80
               a == Digits(Plain(t) - head - tail)
    <3>1. head = 1331 /\ tail = 637
      OBVIOUS
    <3>2. a \in 1 .. 10
      BY DigitsType
    <3>3. ByChars(t, 2048) = head + (28 + a) + tail + 4
      BY <3>1 DEF ByChars, Shortened
    <3> HIDE DEF head, tail, a
    <3> QED BY <3>1, <3>2, <3>3
  <2> QED BY <1>1, <2>1, <2>2 DEF Normalized
<1>3. Tokens(Length(t)) \in Nat /\ Tokens(Normalized(t, 2048)) \in Nat
  BY <1>1, <1>2, TokensType
<1>4. Compressed(t) = CompressToolOutput(t, 96, 2048)
  BY DEF Compressed, MinTokens, MaxTokens
<1> QED BY <1>1, <1>2, <1>3, <1>4 DEF CompressToolOutput

\* Neither does the prune.
LEMMA PrunedIsShorter ==
    ASSUME ShortNames, NEW messages, NEW p \in HostPart
    PROVE  /\ Pruned(messages, p).length \in Nat
           /\ Tokens(Pruned(messages, p).length) <= Tokens(p.length)
<1>1. p.length \in Nat /\ p.key \in Key
  BY DEF HostPart
<1>2. CASE Prunable(messages, p)
  <2> DEFINE n == PlaceholderLength(p.key, Tokens(p.length))
             d == Digits(Tokens(p.length))
  <2>1. d \in 1 .. 10
    BY DigitsType
  <2>2. n = 56 + NameLength[p.key] + d + IdLength
    BY DEF PlaceholderLength
  <2>3. NameLength[p.key] \in Nat /\ IdLength \in Nat /\ NameLength[p.key] + IdLength <= 123
    BY <1>1, ContextAssumption DEF ShortNames
  <2>4. Pruned(messages, p).length = n
    BY <1>2 DEF Pruned, Placeholder, HostPart
  <2> HIDE DEF n, d
  <2>5. n \in Nat /\ n <= 189
    BY <2>1, <2>2, <2>3
  <2>6. Tokens(n) <= 48
    BY <2>5 DEF Tokens
  <2>7. Tokens(p.length) >= 48 /\ Tokens(p.length) \in Nat /\ Tokens(n) \in Nat
    BY <1>1, <1>2, <2>5, TokensType DEF Prunable, MinPruned
  <2> QED BY <2>4, <2>5, <2>6, <2>7
<1>3. CASE ~ Prunable(messages, p)
  <2>1. Pruned(messages, p) = p /\ Tokens(p.length) \in Nat
    BY <1>1, <1>3, TokensType DEF Pruned
  <2> QED BY <1>1, <2>1
<1> QED BY <1>2, <1>3

\* A part that is no longer than another, in tokens.
Shorter(q, p) == p.length \in Nat /\ q.length \in Nat /\ Tokens(q.length) <= Tokens(p.length)

\* Neither lengthens it.
LEMMA CappedIsShorter ==
    ASSUME ShortNames, NEW messages \in Seq(Seq(HostPart)), NEW p \in Parts(messages),
           NEW q, q = Pruned(messages, p)
    PROVE  Shorter(q, p) /\ Shorter(Capped(q), q) /\ Shorter(q, q)
<1>0. p \in HostPart
  BY PartsType
<1>1. p.length \in Nat /\ p.text \in AnyText
  BY <1>0 DEF HostPart
<1>2. q.length \in Nat /\ Tokens(q.length) <= Tokens(p.length)
  BY <1>0, PrunedIsShorter
<1>3. Tokens(q.length) \in Nat
  BY <1>2, TokensType
<1>4. CASE Prunable(messages, p)
  <2>1. q.see # NoCall
    <3>1. q.see = LatestCall(messages, p.key)
      BY <1>0, <1>4, PlaceholderFields
    <3>2. PICK later \in Parts(messages) : later.call = LatestCall(messages, p.key)
      BY <1>4, LaterCall
    <3>3. later.call \in CallNumber
      BY <3>2, PartsType DEF HostPart
    <3> QED BY <3>1, <3>2, <3>3, ContextAssumption DEF CallNumber, NoCall
  <2>2. Capped(q) = q
    BY <2>1 DEF Capped
  <2> QED BY <1>1, <1>2, <1>3, <2>2 DEF Shorter
<1>5. CASE ~ Prunable(messages, p)
  <2>1. q = p
    BY <1>5 DEF Pruned
  <2>2. CASE Capped(q) = q
    BY <1>1, <1>2, <1>3, <2>2 DEF Shorter
  <2>3. CASE Capped(q) # q
    <3>1. q.status = Completed /\ Capped(q) = [q EXCEPT !.length = Compressed(q.text)]
      BY <2>3 DEF Capped
    <3>2. Capped(q).length = Compressed(p.text) /\ q.length = Length(p.text)
      BY <1>0, <2>1, <3>1 DEF HostPart
    <3>3. Compressed(p.text) \in Nat /\ Tokens(Compressed(p.text)) <= Tokens(Length(p.text))
      BY <1>1, CompressedIsShorter
    <3> QED BY <1>1, <1>2, <1>3, <3>2, <3>3 DEF Shorter
  <2> QED BY <2>2, <2>3
<1> QED BY <1>4, <1>5

-----------------------------------------------------------------------------
(* Differences in tokens.                                                  *)

\* There are finitely many parts.
LEMMA PlacesAreFinite ==
    ASSUME NEW messages \in Seq(Seq(HostPart))
    PROVE  IsFiniteSet(Places(messages))
<1> DEFINE D == DOMAIN messages
           of == [i \in D |-> {<<i, j>> : j \in DOMAIN messages[i]}]
           S == {of[i] : i \in D}
<1>1. D = 1 .. Len(messages) /\ Len(messages) \in Nat
  OBVIOUS
<1>2. IsFiniteSet(D)
  BY <1>1, FS_Interval
<1>3. ASSUME NEW i \in D PROVE IsFiniteSet(of[i])
  <2> DEFINE E == DOMAIN messages[i]
             T == {<<i, j>> : j \in E}
             f == [j \in E |-> <<i, j>>]
  <2>1. messages[i] \in Seq(HostPart)
    OBVIOUS
  <2>2. E = 1 .. Len(messages[i]) /\ Len(messages[i]) \in Nat
    BY <2>1
  <2>3. IsFiniteSet(E)
    BY <2>2, FS_Interval
  <2>4. of[i] = T
    OBVIOUS
  <2> HIDE DEF E
  <2>5. f \in Surjection(E, T)
    BY DEF Surjection
  <2> HIDE DEF f, T
  <2>6. IsFiniteSet(T)
    BY <2>3, <2>5, FS_Surjection
  <2> QED BY <2>4, <2>6
<1>4. Places(messages) = UNION S
  BY DEF Places
<1> HIDE DEF D, of
<1> DEFINE g == [i \in D |-> of[i]]
<1>5. g \in Surjection(D, S)
  BY DEF Surjection
<1>6. \A T \in S : IsFiniteSet(T)
  BY <1>3
<1> HIDE DEF S, g
<1>7. IsFiniteSet(S)
  BY <1>2, <1>5, FS_Surjection
<1> QED BY <1>4, <1>6, <1>7, FS_UNION

\* Two lists of messages differ in tokens by what the changed parts do.
Difference(before, after) ==
    TokensOf(before, Changed(before, after)) - TokensOf(after, Changed(before, after))

\* They differ by nothing else.
LEMMA DifferenceIs ==
    ASSUME NEW before, NEW after, Places(before) = Places(after), IsFiniteSet(Places(before)),
           \A ij \in Places(before) : Shorter(after[ij[1]][ij[2]], before[ij[1]][ij[2]])
    PROVE  /\ Difference(before, after) \in Nat
           /\ TokensOf(before, Changed(before, after)) \in Nat
           /\ TokensOf(after, Changed(before, after)) \in Nat
           /\ Size(before) \in Nat /\ Size(after) \in Nat
           /\ Size(before) - Size(after) = Difference(before, after)
<1> DEFINE P == Places(before)
           A == Changed(before, after)
           B == P \ A
           f == [ij \in P |-> Tokens(before[ij[1]][ij[2]].length)]
           g == [ij \in P |-> Tokens(after[ij[1]][ij[2]].length)]
<1>1. \A at : TokensOf(before, at) = SumFunctionOnSet(f, at) /\ TokensOf(after, at) = SumFunctionOnSet(g, at)
  BY DEF TokensOf
<1>2. A \in SUBSET P /\ \A ij \in B : before[ij[1]][ij[2]] = after[ij[1]][ij[2]]
  BY DEF Changed
<1>3. \A ij \in P : f[ij] \in Nat /\ g[ij] \in Nat /\ g[ij] <= f[ij]
  BY TokensType DEF Shorter
<1>4. \A ij \in B : g[ij] = f[ij]
  BY <1>2
<1>5. Size(before) = SumFunctionOnSet(f, P) /\ Size(after) = SumFunctionOnSet(g, P)
  BY <1>1 DEF Size
<1>6. IsFiniteSet(P) /\ A \cup B = P /\ A \cap B = {}
  BY <1>2
<1>7. /\ TokensOf(before, A) = SumFunctionOnSet(f, A) /\ TokensOf(after, A) = SumFunctionOnSet(g, A)
      /\ Difference(before, after) = SumFunctionOnSet(f, A) - SumFunctionOnSet(g, A)
  BY <1>1 DEF Difference
<1> HIDE DEF P, A, f, g
<1>8. IsFiniteSet(A) /\ IsFiniteSet(B)
  BY <1>2, <1>6, FS_Subset
<1> HIDE DEF B
<1>9. \A ij \in A \cup B : f[ij] \in Nat /\ g[ij] \in Nat
  BY <1>3, <1>6
<1>10. SumFunctionOnSet(f, A \cup B) = SumFunctionOnSet(f, A) + SumFunctionOnSet(f, B)
  <2>1. \A ij \in A \cup B : f[ij] \in Nat
    BY <1>9
  <2> QED BY <1>6, <1>8, <2>1, SumOfBoth
<1>11. SumFunctionOnSet(g, A \cup B) = SumFunctionOnSet(g, A) + SumFunctionOnSet(g, B)
  <2>1. \A ij \in A \cup B : g[ij] \in Nat
    BY <1>9
  <2> QED BY <1>6, <1>8, <2>1, SumOfBoth
<1>12. SumFunctionOnSet(f, B) = SumFunctionOnSet(g, B)
  <2>1. \A ij \in B : f[ij] \in Nat /\ g[ij] = f[ij]
    BY <1>4, <1>9
  <2> QED BY <1>8, <2>1, SumAgrees
<1>13. SumFunctionOnSet(f, A) \in Nat /\ SumFunctionOnSet(f, B) \in Nat
  <2>1. (\A ij \in A : f[ij] \in Nat) /\ (\A ij \in B : f[ij] \in Nat)
    BY <1>9
  <2> QED BY <1>8, <2>1, SumAdds
<1>14. SumFunctionOnSet(g, A) \in Nat
  <2>1. \A ij \in A : g[ij] \in Nat
    BY <1>9
  <2> QED BY <1>8, <2>1, SumAdds
<1>15. SumFunctionOnSet(g, A) <= SumFunctionOnSet(f, A)
  <2>1. A \in SUBSET A /\ (\A ij \in A : g[ij] \in Nat) /\ (\A ij \in A : f[ij] \in Nat)
        /\ \A ij \in A : g[ij] <= f[ij]
    BY <1>2, <1>3
  <2> QED BY <1>8, <2>1, SumAtMost
<1>16. /\ SumFunctionOnSet(f, P) = SumFunctionOnSet(f, A) + SumFunctionOnSet(f, B)
       /\ SumFunctionOnSet(g, P) = SumFunctionOnSet(g, A) + SumFunctionOnSet(g, B)
  BY <1>6, <1>10, <1>11, Zenon
<1> DEFINE fa == SumFunctionOnSet(f, A)
           fb == SumFunctionOnSet(f, B)
           ga == SumFunctionOnSet(g, A)
           gb == SumFunctionOnSet(g, B)
<1>17. /\ Size(before) = fa + fb /\ Size(after) = ga + gb /\ Difference(before, after) = fa - ga
       /\ TokensOf(before, A) = fa /\ TokensOf(after, A) = ga
  BY <1>5, <1>7, <1>16, Zenon
<1>18. fa \in Nat /\ fb \in Nat /\ ga \in Nat /\ ga <= fa /\ fb = gb
  BY <1>12, <1>13, <1>14, <1>15, Zenon
<1> HIDE DEF fa, fb, ga, gb
<1> QED BY <1>17, <1>18 DEF A

-----------------------------------------------------------------------------
(* What is booked.                                                         *)

\* What a row books.
Earns(r) == r.tokensIn - r.tokensOut

\* Rows that are apart book what they book together.
LEMMA BookedAdds ==
    ASSUME NEW X, NEW Y, IsFiniteSet(X), IsFiniteSet(Y), X \cap Y = {},
           \A r \in X \cup Y : Earns(r) \in Nat
    PROVE  Booked(X \cup Y) = Booked(X) + Booked(Y) /\ Booked(X) \in Nat /\ Booked(Y) \in Nat
<1> DEFINE h == [r \in X \cup Y |-> Earns(r)]
           f == [r \in X |-> Earns(r)]
           g == [r \in Y |-> Earns(r)]
<1>1. /\ Booked(X \cup Y) = SumFunctionOnSet(h, X \cup Y)
      /\ Booked(X) = SumFunctionOnSet(f, X) /\ Booked(Y) = SumFunctionOnSet(g, Y)
  BY DEF Booked, SumFunction, Earns
<1>2. \A r \in X \cup Y : h[r] \in Nat
  OBVIOUS
<1>3. (\A r \in X : f[r] \in Nat /\ h[r] = f[r]) /\ (\A r \in Y : g[r] \in Nat /\ h[r] = g[r])
  OBVIOUS
<1> HIDE DEF f, g, h
<1>4. SumFunctionOnSet(h, X \cup Y) = SumFunctionOnSet(h, X) + SumFunctionOnSet(h, Y)
  BY <1>2, SumOfBoth
<1>5. SumFunctionOnSet(f, X) = SumFunctionOnSet(h, X)
  BY <1>3, SumAgrees
<1>6. SumFunctionOnSet(g, Y) = SumFunctionOnSet(h, Y)
  BY <1>3, SumAgrees
<1>7. SumFunctionOnSet(f, X) \in Nat
  BY <1>3, SumAdds
<1>8. SumFunctionOnSet(g, Y) \in Nat
  BY <1>3, SumAdds
<1> QED BY <1>1, <1>4, <1>5, <1>6, <1>7, <1>8

\* One row, and none.
LEMMA BookedOne ==
    ASSUME NEW r, Earns(r) \in Nat
    PROVE  Booked({r}) = Earns(r) /\ Booked({}) = 0
<1> DEFINE f == [x \in {r} |-> Earns(x)]
           g == [x \in {} |-> Earns(x)]
<1>1. Booked({r}) = SumFunctionOnSet(f, {r}) /\ Booked({}) = SumFunctionOnSet(g, {})
  BY DEF Booked, SumFunction, Earns
<1>2. IsFiniteSet({r}) /\ IsFiniteSet({})
  BY FS_Singleton, FS_EmptySet
<1>3. (\A x \in {r} : f[x] \in Nat) /\ f[r] = Earns(r) /\ {r} \ {r} = {} /\ r \in {r} /\ {r} \in SUBSET {r}
  OBVIOUS
<1>4. \A x \in {} : g[x] \in Nat
  OBVIOUS
<1> HIDE DEF f, g
<1>5. SumFunctionOnSet(g, {}) = 0
  BY <1>2, <1>4, SumAdds
<1>6. SumFunctionOnSet(f, {}) = 0 /\ SumFunctionOnSet(f, {r}) = SumFunctionOnSet(f, {r} \ {r}) + f[r]
  BY <1>2, <1>3, SumAdds
<1>7. SumFunctionOnSet(f, {r}) = 0 + f[r]
  BY <1>3, <1>6, Zenon
<1> QED BY <1>1, <1>3, <1>5, <1>7

\* One list of messages is no longer than another.
Saves(before, after) ==
    /\ Difference(before, after) \in Nat
    /\ TokensOf(before, Changed(before, after)) \in Nat
    /\ TokensOf(after, Changed(before, after)) \in Nat

\* A request is shorter than the history by what the prune and the cap change.
LEMMA RequestIsShorter ==
    ASSUME ShortNames, NEW messages \in Seq(Seq(HostPart)),
           NEW pruned, pruned = PruneMessageContext(messages),
           NEW capped, capped = CapStaleToolOutputs(pruned)
    PROVE  /\ Saves(messages, pruned) /\ Saves(pruned, capped)
           /\ Size(messages) - Size(capped)
                = Difference(messages, pruned) + Difference(pruned, capped)
<1>1. /\ DOMAIN pruned = DOMAIN messages
      /\ \A i \in DOMAIN messages :
            /\ DOMAIN pruned[i] = DOMAIN messages[i]
            /\ \A j \in DOMAIN messages[i] : pruned[i][j] = Pruned(messages, messages[i][j])
  BY DEF PruneMessageContext, EachPart, Pruned
<1>2. /\ DOMAIN capped = DOMAIN pruned
      /\ \A i \in DOMAIN pruned :
            /\ DOMAIN capped[i] = DOMAIN pruned[i]
            /\ \A j \in DOMAIN pruned[i] : capped[i][j] \in {pruned[i][j], Capped(pruned[i][j])}
  BY DEF CapStaleToolOutputs
<1>3. ASSUME NEW i \in DOMAIN messages, NEW j \in DOMAIN messages[i]
      PROVE  Shorter(pruned[i][j], messages[i][j]) /\ Shorter(capped[i][j], pruned[i][j])
  <2>1. messages[i][j] \in Parts(messages)
    BY PartsType
  <2>2. pruned[i][j] = Pruned(messages, messages[i][j])
    BY <1>1
  <2>3. /\ Shorter(pruned[i][j], messages[i][j]) /\ Shorter(Capped(pruned[i][j]), pruned[i][j])
        /\ Shorter(pruned[i][j], pruned[i][j])
    BY <2>1, <2>2, CappedIsShorter
  <2>4. capped[i][j] \in {pruned[i][j], Capped(pruned[i][j])}
    BY <1>1, <1>2
  <2> QED BY <2>3, <2>4
<1>4. Places(pruned) = Places(messages) /\ Places(capped) = Places(pruned)
  BY <1>1, <1>2 DEF Places
<1>5. \A ij \in Places(messages) :
         ij[1] \in DOMAIN messages /\ ij[2] \in DOMAIN messages[ij[1]]
  BY DEF Places
<1>6. IsFiniteSet(Places(messages)) /\ IsFiniteSet(Places(pruned))
  BY <1>4, PlacesAreFinite
<1>7. \A ij \in Places(messages) : Shorter(pruned[ij[1]][ij[2]], messages[ij[1]][ij[2]])
  BY <1>3, <1>5
<1>8. \A ij \in Places(pruned) : Shorter(capped[ij[1]][ij[2]], pruned[ij[1]][ij[2]])
  BY <1>3, <1>4, <1>5
<1>9. /\ Saves(messages, pruned) /\ Difference(messages, pruned) \in Nat
      /\ Size(messages) \in Nat /\ Size(pruned) \in Nat
      /\ Size(messages) - Size(pruned) = Difference(messages, pruned)
  BY <1>4, <1>6, <1>7, DifferenceIs DEF Saves
<1>10. /\ Saves(pruned, capped) /\ Difference(pruned, capped) \in Nat
       /\ Size(pruned) \in Nat /\ Size(capped) \in Nat
       /\ Size(pruned) - Size(capped) = Difference(pruned, capped)
  BY <1>4, <1>6, <1>8, DifferenceIs DEF Saves
<1> QED BY <1>9, <1>10

\* Rows of a source, now, of which all together would book a difference.
RowsOf(X, all, source, difference) ==
    /\ IsFiniteSet(X)
    /\ \A r \in X : r.source = source /\ r.at = clock /\ Earns(r) \in Nat
    /\ Booked(X) \in Nat /\ Booked(X) <= difference
    /\ X = all => Booked(X) = difference

\* What the row of one of the two books, as far as the store keeps it.
LEMMA RowEarns ==
    ASSUME NEW source, NEW s, NEW before, NEW after,
           Saves(before, after),
           NEW X \in SUBSET NewRow(source, s, before, after)
    PROVE  RowsOf(X, NewRow(source, s, before, after), source, Difference(before, after))
<1> DEFINE at == Changed(before, after)
           in == TokensOf(before, at)
           out == TokensOf(after, at)
           row == [source |-> source, at |-> clock, count |-> Cardinality(at), session |-> s,
                   tokensIn |-> in, tokensOut |-> out]
           N == NewRow(source, s, before, after)
           D == Difference(before, after)
<1>1. D = in - out /\ in \in Nat /\ out \in Nat /\ D \in Nat
  BY DEF Saves, Difference
<1>2. N = IF in > out THEN {row} ELSE {}
  BY Zenon DEF NewRow
<1>3. row.source = source /\ row.at = clock /\ Earns(row) = D
  BY <1>1 DEF Earns
<1>4. X \in SUBSET N
  OBVIOUS
<1> HIDE DEF row, N, in, out, D
<1>5. Booked({row}) = D /\ Booked({}) = 0
  BY <1>1, <1>3, BookedOne
<1>6. X = {} \/ (X = {row} /\ in > out)
  BY <1>2, <1>4
<1>7. CASE X = {}
  <2>1. N = {} => D = 0
    BY <1>1, <1>2
  <2>2. Booked(X) = 0 /\ IsFiniteSet(X)
    BY <1>5, <1>7, FS_EmptySet, Zenon
  <2> QED BY <1>1, <1>7, <2>1, <2>2 DEF N, D, RowsOf
<1>8. CASE X = {row}
  <2>1. Booked(X) = D /\ IsFiniteSet(X)
    BY <1>5, <1>8, FS_Singleton, Zenon
  <2>2. \A r \in X : r.source = source /\ r.at = clock /\ Earns(r) \in Nat
    BY <1>1, <1>3, <1>8
  <2> QED BY <1>1, <2>1, <2>2 DEF N, D, RowsOf
<1> QED BY <1>6, <1>7, <1>8

\* What a request books, whatever the store keeps of it.
BooksWhatItSaves(s, kept) ==
    LET new == {r \in rows' : r \notin rows}
        saving == Size(history[s]) - Size(sent'[s])
        clash == \E q \in rows : q.at = clock
    IN  /\ Booked(new) <= saving
        /\ kept = Source /\ ~ clash => Booked(new) = saving

\* A request books no more than it saves, and all of it unless a row is lost.
LEMMA TransformBooks ==
    ASSUME ShortNames, HistoryIsWhole, SentLeadsOn, NEW s \in Session, NEW kept \in SUBSET Source,
           Transform(s, kept)
    PROVE  BooksWhatItSaves(s, kept)
<1> DEFINE messages == history[s]
           pruned == PruneMessageContext(messages)
           capped == CapStaleToolOutputs(pruned)
           N1 == NewRow("prune", s, messages, pruned)
           N2 == NewRow("compact", s, pruned, capped)
           new == {r \in rows' : r \notin rows}
           X == {r \in N1 : r \in new}
           Y == {r \in N2 : r \in new}
           D1 == Difference(messages, pruned)
           D2 == Difference(pruned, capped)
<1>1. /\ sent' = [sent EXCEPT ![s] = capped]
      /\ rows' = Logged({r \in N1 \cup N2 : r.source \in kept})
  BY Zenon DEF Transform
<1>2. messages \in Seq(Seq(HostPart)) /\ sent'[s] = capped
  BY <1>1 DEF HistoryIsWhole, SentLeadsOn
<1> HIDE DEF messages
<1>3. /\ Saves(messages, pruned) /\ Saves(pruned, capped)
      /\ Size(messages) - Size(capped) = D1 + D2
  BY <1>2, RequestIsShorter
<1> HIDE DEF pruned, capped
<1>4. new \subseteq N1 \cup N2
  BY <1>1 DEF Logged
<1>5. new = X \cup Y
  BY <1>4
<1>6. X \in SUBSET N1 /\ Y \in SUBSET N2 /\ N1 \in SUBSET N1 /\ N2 \in SUBSET N2
  OBVIOUS
<1> HIDE DEF X, Y, D1, D2
<1>7. /\ IsFiniteSet(X) /\ \A r \in X : r.source = "prune" /\ r.at = clock /\ Earns(r) \in Nat
      /\ Booked(X) \in Nat /\ Booked(X) <= D1
      /\ X = N1 => Booked(X) = D1
  <2>1. RowsOf(X, N1, "prune", D1)
    BY <1>3, <1>6, RowEarns, Zenon DEF D1
  <2> HIDE DEF N1
  <2> QED BY <2>1 DEF RowsOf
<1>8. /\ IsFiniteSet(Y) /\ \A r \in Y : r.source = "compact" /\ r.at = clock /\ Earns(r) \in Nat
      /\ Booked(Y) \in Nat /\ Booked(Y) <= D2
      /\ Y = N2 => Booked(Y) = D2
  <2>1. RowsOf(Y, N2, "compact", D2)
    BY <1>3, <1>6, RowEarns, Zenon DEF D2
  <2> HIDE DEF N2
  <2> QED BY <2>1 DEF RowsOf
<1>9. D1 \in Nat /\ D2 \in Nat
  BY <1>3 DEF Saves, D1, D2
<1>10. X \cap Y = {}
  <2> SUFFICES ASSUME NEW r \in X, r \in Y PROVE FALSE
    OBVIOUS
  <2>1. r.source = "prune" /\ r.source = "compact"
    BY <1>7, <1>8
  <2> QED BY <2>1
<1>11. Booked(X \cup Y) = Booked(X) + Booked(Y)
  <2>1. \A r \in X \cup Y : Earns(r) \in Nat
    BY <1>7, <1>8
  <2> QED BY <1>7, <1>8, <1>10, <2>1, BookedAdds
<1>12. Booked(new) = Booked(X) + Booked(Y)
  BY <1>5, <1>11, Zenon
<1>13. ASSUME kept = Source, ~ \E q \in rows : q.at = clock PROVE X = N1 /\ Y = N2
  <2>1. /\ \A r \in N1 : r.source = "prune" /\ r.at = clock
        /\ \A r \in N2 : r.source = "compact" /\ r.at = clock
    <3>1. RowsOf(N1, N1, "prune", D1) /\ RowsOf(N2, N2, "compact", D2)
      BY <1>3, <1>6, RowEarns, Zenon DEF D1, D2
    <3> HIDE DEF N1, N2
    <3> QED BY <3>1 DEF RowsOf
  <2>2. ASSUME NEW r \in N1 \cup N2 PROVE r \in new
    <3>1. r.source \in kept /\ r.at = clock
      BY <1>13, <2>1 DEF Source
    <3>2. r \notin rows /\ ~ \E q \in rows : SameId(r, q)
      BY <1>13, <3>1 DEF SameId
    <3> QED BY <1>1, <3>1, <3>2 DEF Logged
  <2> QED BY <2>2 DEF X, Y
<1>14. Booked(new) <= D1 + D2
  BY <1>7, <1>8, <1>9, <1>12
<1>15. kept = Source /\ ~ (\E q \in rows : q.at = clock) => Booked(new) = D1 + D2
  BY <1>7, <1>8, <1>12, <1>13
<1> QED BY <1>2, <1>3, <1>14, <1>15 DEF BooksWhatItSaves, messages

\* What a request books is what it is shorter by (messages-transform-hook.ts
\* 21-51), where no name and id of a call make a placeholder longer than the
\* shortest output it stands for.
THEOREM BookedIsAlwaysSaved == ASSUME ShortNames PROVE PruneSpec => BookedIsSaved
<1> DEFINE Right == \A s \in Session :
             /\ rows \subseteq rows'
             /\ \A kept \in SUBSET Source :
                  UNCHANGED <<history, clock>> /\ Transform(s, kept) =>
                  LET new == {r \in rows' : r \notin rows}
                      saving == Size(history[s]) - Size(sent'[s])
                      clash == \E q \in rows : q.at = clock
                  IN  /\ Booked(new) <= saving
                      /\ kept = Source /\ ~ clash => Booked(new) = saving
<1>1. PruneInit => HistoryIsWhole
  BY DEF PruneInit, HistoryIsWhole
<1>2. PruneInit => SentLeadsOn
  BY DEF PruneInit, SentLeadsOn, LeadsOn, Parts, ToSet
<1>3. HistoryIsWhole /\ SentLeadsOn /\ [PruneNext]_pruneVars => [Right]_pruneVars
  <2> SUFFICES ASSUME HistoryIsWhole, SentLeadsOn, [PruneNext]_pruneVars PROVE Right
    OBVIOUS
  <2>1. rows \subseteq rows'
    BY DEF PruneNext, NewMessage, CallTool, CallCompletes, Transform, Logged, Tick, pruneVars
  <2>2. ASSUME NEW s \in Session, NEW kept \in SUBSET Source, Transform(s, kept)
        PROVE  BooksWhatItSaves(s, kept)
    BY <2>2, TransformBooks
  <2> QED BY <2>1, <2>2, Zenon DEF BooksWhatItSaves
<1>4. BookedIsSaved <=> [][Right]_pruneVars
  BY DEF BookedIsSaved
<1> HIDE DEF Right
<1> QED
  BY <1>1, <1>2, <1>3, <1>4, NextHistory, NextSent, PTL DEF PruneSpec

-----------------------------------------------------------------------------
(* Types of ContextPrune.                                                  *)

\* What the prune and the cap make of a part is a part.
LEMMA PrunedIsPart ==
    ASSUME NEW messages \in Seq(Seq(HostPart)), NEW p \in Parts(messages)
    PROVE  p \in Part /\ Pruned(messages, p) \in Part /\ Capped(Pruned(messages, p)) \in Part
<1> DEFINE q == Pruned(messages, p)
<1>1. p \in HostPart /\ p \in Part
  BY PartsType DEF HostPart, Part
<1>2. q \in Part
  <2>1. CASE Prunable(messages, p)
    <3>1. LatestCall(messages, p.key) \in CallNumber
      <4>1. PICK r \in Parts(messages) : r.call = LatestCall(messages, p.key)
        BY <2>1, LaterCall
      <4>2. r \in HostPart
        BY PartsType
      <4> QED BY <4>1, <4>2 DEF HostPart
    <3>2. PlaceholderLength(p.key, Tokens(p.length)) \in Nat
      <4> DEFINE d == Digits(Tokens(p.length))
                 name == NameLength[p.key]
      <4>1. d \in 1 .. 10
        BY DigitsType
      <4>2. name \in Nat /\ IdLength \in Nat
        BY <1>1, ContextAssumption DEF HostPart
      <4>3. PlaceholderLength(p.key, Tokens(p.length)) = 56 + name + d + IdLength
        BY DEF PlaceholderLength
      <4> HIDE DEF d, name
      <4> QED BY <4>1, <4>2, <4>3
    <3> QED BY <1>1, <2>1, <3>1, <3>2 DEF Pruned, Placeholder, HostPart, Part
  <2>2. CASE ~ Prunable(messages, p)
    BY <1>1, <2>2 DEF Pruned
  <2> QED BY <2>1, <2>2
<1> HIDE DEF q
<1>3. Capped(q) \in Part
  <2>1. q.text \in AnyText
    BY <1>2 DEF Part
  <2>2. Compressed(q.text) \in Nat
    BY <2>1, CompressedIsShorter
  <2>3. [q EXCEPT !.length = Compressed(q.text)] \in Part
    BY <1>2, <2>2 DEF Part
  <2> QED BY <1>2, <2>3 DEF Capped
<1> QED BY <1>1, <1>2, <1>3 DEF q

\* A conversation, of any length.
OfParts(messages) ==
    /\ DOMAIN messages = 1 .. Len(messages) /\ Len(messages) \in Nat
    /\ \A i \in DOMAIN messages : \A j \in DOMAIN messages[i] : messages[i][j] \in Part

\* The prune and the cap make conversations with the same places.
LEMMA TransformedParts ==
    ASSUME NEW messages \in Seq(Seq(HostPart)),
           NEW pruned, pruned = PruneMessageContext(messages),
           NEW capped, capped = CapStaleToolOutputs(pruned)
    PROVE  /\ OfParts(messages) /\ OfParts(pruned) /\ OfParts(capped)
           /\ Len(capped) = Len(messages)
           /\ Places(pruned) = Places(messages) /\ Places(capped) = Places(messages)
<1>1. /\ DOMAIN pruned = DOMAIN messages
      /\ \A i \in DOMAIN messages :
            /\ DOMAIN pruned[i] = DOMAIN messages[i]
            /\ \A j \in DOMAIN messages[i] : pruned[i][j] = Pruned(messages, messages[i][j])
  BY DEF PruneMessageContext, EachPart, Pruned
<1>2. /\ DOMAIN capped = DOMAIN pruned
      /\ \A i \in DOMAIN pruned :
            /\ DOMAIN capped[i] = DOMAIN pruned[i]
            /\ \A j \in DOMAIN pruned[i] : capped[i][j] \in {pruned[i][j], Capped(pruned[i][j])}
  BY DEF CapStaleToolOutputs
<1>3. DOMAIN messages = 1 .. Len(messages) /\ Len(messages) \in Nat
  OBVIOUS
<1>4. Len(pruned) = Len(messages) /\ Len(capped) = Len(messages)
  <2>1. pruned = [i \in DOMAIN messages |-> pruned[i]]
    BY DEF PruneMessageContext, EachPart
  <2>2. capped = [i \in DOMAIN pruned |-> capped[i]]
    BY DEF CapStaleToolOutputs
  <2> QED BY <1>1, <1>2, <1>3, <2>1, <2>2
<1>5. ASSUME NEW i \in DOMAIN messages, NEW j \in DOMAIN messages[i]
      PROVE  messages[i][j] \in Part /\ pruned[i][j] \in Part /\ capped[i][j] \in Part
  <2>1. messages[i][j] \in Parts(messages)
    BY PartsType
  <2>2. /\ messages[i][j] \in Part /\ Pruned(messages, messages[i][j]) \in Part
        /\ Capped(Pruned(messages, messages[i][j])) \in Part
    BY <2>1, PrunedIsPart
  <2>3. /\ pruned[i][j] = Pruned(messages, messages[i][j])
        /\ capped[i][j] \in {pruned[i][j], Capped(pruned[i][j])}
    BY <1>1, <1>2
  <2> QED BY <2>2, <2>3
<1> QED BY <1>1, <1>2, <1>3, <1>4, <1>5 DEF OfParts, Places

\* The tokens of finitely many parts are a number, and none without parts.
LEMMA TokensOfType ==
    ASSUME NEW messages, OfParts(messages), NEW at \in SUBSET Places(messages), IsFiniteSet(at)
    PROVE  TokensOf(messages, at) \in Nat /\ (at = {} => TokensOf(messages, at) = 0)
<1> DEFINE f == [ij \in Places(messages) |-> Tokens(messages[ij[1]][ij[2]].length)]
<1>1. TokensOf(messages, at) = SumFunctionOnSet(f, at)
  BY DEF TokensOf
<1>2. ASSUME NEW ij \in Places(messages) PROVE f[ij] \in Nat
  <2>1. messages[ij[1]][ij[2]] \in Part
    BY DEF Places, OfParts
  <2>2. messages[ij[1]][ij[2]].length \in Nat
    BY <2>1 DEF Part
  <2> QED BY <2>2, TokensType
<1> HIDE DEF f
<1>3. \A ij \in at : f[ij] \in Nat
  BY <1>2
<1>4. SumFunctionOnSet(f, at) \in Nat /\ SumFunctionOnSet(f, {}) = 0
  BY <1>3, SumAdds
<1> QED BY <1>1, <1>4

\* A row is one.
LEMMA NewRowType ==
    ASSUME NEW source \in Source, NEW s \in Session, clock \in 0 .. MaxTime,
           NEW before, NEW after, OfParts(before), OfParts(after),
           Places(before) = Places(after), IsFiniteSet(Places(before))
    PROVE  NewRow(source, s, before, after) \subseteq PruneRow
<1> DEFINE at == Changed(before, after)
           in == TokensOf(before, at)
           out == TokensOf(after, at)
           row == [source |-> source, at |-> clock, count |-> Cardinality(at), session |-> s,
                   tokensIn |-> in, tokensOut |-> out]
<1>1. at \in SUBSET Places(before) /\ at \in SUBSET Places(after) /\ IsFiniteSet(at)
  <2>1. at \in SUBSET Places(before)
    BY DEF Changed
  <2> QED BY <2>1, FS_Subset
<1>2. NewRow(source, s, before, after) = IF in > out THEN {row} ELSE {}
  BY Zenon DEF NewRow
<1> HIDE DEF at
<1>3. in \in Nat /\ (at = {} => in = 0) /\ out \in Nat
  BY <1>1, TokensOfType
<1>4. Cardinality(at) \in Nat /\ (Cardinality(at) = 0 => at = {})
  BY <1>1, FS_CardinalityType, FS_EmptySet
<1> HIDE DEF in, out
<1>5. in > out => Cardinality(at) \in Nat \ {0}
  BY <1>3, <1>4
<1>6. in > out => row \in PruneRow
  BY <1>3, <1>5 DEF PruneRow
<1> HIDE DEF row
<1> QED BY <1>2, <1>6

\* Every step keeps the types.
LEMMA NextPruneTyped ==
    HistoryIsWhole /\ PruneTypeOK /\ [PruneNext]_pruneVars => PruneTypeOK'
<1> SUFFICES ASSUME HistoryIsWhole, PruneTypeOK, [PruneNext]_pruneVars PROVE PruneTypeOK'
  OBVIOUS
<1>0. HistoryIsWhole'
  BY NextHistory
<1>1. ASSUME NEW s \in Session, \A t \in Session : Len(history'[t]) <= MaxMessages
      PROVE  IsConversation(history'[s])
  <2>1. history'[s] \in Seq(Seq(HostPart))
    BY <1>0 DEF HistoryIsWhole
  <2>2. OfParts(history'[s])
    BY <2>1, TransformedParts
  <2> QED BY <1>1, <2>2 DEF OfParts, IsConversation
<1>2. \A s \in Session : Len(history[s]) <= MaxMessages
  BY DEF PruneTypeOK, IsConversation
<1>3. \A t \in Session : Len(history'[t]) <= MaxMessages
  <2>1. \A t \in Session : history[t] \in Seq(Seq(HostPart))
    BY DEF HistoryIsWhole
  <2>2. ASSUME NEW s \in Session, NewMessage(s) PROVE \A t \in Session : Len(history'[t]) <= MaxMessages
    <3>1. Len(Append(history[s], <<>>)) = Len(history[s]) + 1 /\ Len(history[s]) < MaxMessages
      BY <2>1, <2>2 DEF NewMessage
    <3>2. history' = [history EXCEPT ![s] = Append(history[s], <<>>)]
      BY <2>2 DEF NewMessage
    <3>3. DOMAIN history = Session /\ Len(history[s]) \in Nat /\ MaxMessages \in Nat
      BY <2>1, ContextAssumption DEF HistoryIsWhole
    <3> QED BY <1>2, <3>1, <3>2, <3>3
  <2>3. ASSUME NEW s \in Session, NEW i, NEW m, history' = [history EXCEPT ![s] = [@ EXCEPT ![i] = m]]
        PROVE  \A t \in Session : Len(history'[t]) <= MaxMessages
    <3>1. [history[s] EXCEPT ![i] = m] = [j \in DOMAIN history[s] |-> IF j = i THEN m ELSE history[s][j]]
      BY <2>1
    <3>2. Len([history[s] EXCEPT ![i] = m]) = Len(history[s])
      BY <2>1, <3>1
    <3>3. DOMAIN history = Session
      BY DEF HistoryIsWhole
    <3> QED BY <1>2, <2>3, <3>2, <3>3
  <2>4. ASSUME NEW s \in Session, NEW k \in Key, CallTool(s, k)
        PROVE  \A t \in Session : Len(history'[t]) <= MaxMessages
    <3>1. \E i, m : history' = [history EXCEPT ![s] = [@ EXCEPT ![i] = m]]
      BY <2>4, Zenon DEF CallTool
    <3> QED BY <2>3, <3>1
  <2>5. ASSUME NEW s \in Session, NEW i \in DOMAIN history[s], NEW j \in DOMAIN history[s][i],
               NEW x \in Text, CallCompletes(s, i, j, x)
        PROVE  \A t \in Session : Len(history'[t]) <= MaxMessages
    <3>1. \E k, m : history' = [history EXCEPT ![s] = [@ EXCEPT ![k] = m]]
      BY <2>5, Zenon DEF CallCompletes
    <3> QED BY <2>3, <3>1
  <2>6. CASE UNCHANGED history
    BY <1>2, <2>6
  <2>7. ASSUME NEW s \in Session, NEW kept \in SUBSET Source, Transform(s, kept)
        PROVE  UNCHANGED history
    BY <2>7, Zenon DEF Transform
  <2>8. Tick \/ UNCHANGED pruneVars => UNCHANGED history
    BY DEF Tick, pruneVars
  <2> QED
    BY <2>2, <2>4, <2>5, <2>6, <2>7, <2>8 DEF PruneNext
<1>4. DOMAIN history' = Session /\ \A s \in Session : IsConversation(history'[s])
  BY <1>0, <1>1, <1>3 DEF HistoryIsWhole
<1>5. clock' \in 0 .. MaxTime
  <2>1. clock \in 0 .. MaxTime /\ MaxTime \in Nat
    BY ContextAssumption DEF PruneTypeOK
  <2>2. CASE UNCHANGED clock
    BY <2>1, <2>2
  <2>3. CASE Tick
    BY <2>1, <2>3 DEF Tick
  <2>4. ASSUME NEW s \in Session, NEW k \in Key, CallTool(s, k) PROVE UNCHANGED clock
    BY <2>4, Zenon DEF CallTool
  <2>5. ASSUME NEW s \in Session, NEW i \in DOMAIN history[s], NEW j \in DOMAIN history[s][i],
               NEW x \in Text, CallCompletes(s, i, j, x)
        PROVE  UNCHANGED clock
    BY <2>5, Zenon DEF CallCompletes
  <2>6. ASSUME NEW s \in Session, NewMessage(s) PROVE UNCHANGED clock
    BY <2>6, Zenon DEF NewMessage
  <2>7. ASSUME NEW s \in Session, NEW kept \in SUBSET Source, Transform(s, kept)
        PROVE  UNCHANGED clock
    BY <2>7, Zenon DEF Transform
  <2>8. UNCHANGED pruneVars => UNCHANGED clock
    BY DEF pruneVars
  <2> QED
    BY <2>2, <2>3, <2>4, <2>5, <2>6, <2>7, <2>8 DEF PruneNext
<1>6. ASSUME NEW s \in Session, NEW kept \in SUBSET Source, Transform(s, kept)
      PROVE  /\ DOMAIN sent' = Session /\ \A t \in Session : IsConversation(sent'[t])
             /\ rows' \subseteq PruneRow
  <2> DEFINE messages == history[s]
             pruned == PruneMessageContext(messages)
             capped == CapStaleToolOutputs(pruned)
             N1 == NewRow("prune", s, messages, pruned)
             N2 == NewRow("compact", s, pruned, capped)
  <2>1. /\ sent' = [sent EXCEPT ![s] = capped]
        /\ rows' = Logged({r \in N1 \cup N2 : r.source \in kept})
    BY <1>6, Zenon DEF Transform
  <2>2. messages \in Seq(Seq(HostPart)) /\ Len(messages) <= MaxMessages
    BY <1>2 DEF HistoryIsWhole
  <2> HIDE DEF messages
  <2>3. /\ OfParts(messages) /\ OfParts(pruned) /\ OfParts(capped)
        /\ Len(capped) = Len(messages)
        /\ Places(pruned) = Places(messages) /\ Places(capped) = Places(messages)
    BY <2>2, TransformedParts
  <2>4. IsFiniteSet(Places(messages))
    BY <2>2, PlacesAreFinite
  <2> HIDE DEF pruned, capped
  <2>5. IsConversation(capped)
    BY <2>2, <2>3 DEF OfParts, IsConversation
  <2>6. clock \in 0 .. MaxTime /\ rows \subseteq PruneRow /\ DOMAIN sent = Session
        /\ \A t \in Session : IsConversation(sent[t])
    BY DEF PruneTypeOK
  <2>7. N1 \subseteq PruneRow
    <3>1. "prune" \in Source
      BY DEF Source
    <3> QED BY <2>3, <2>4, <2>6, <3>1, NewRowType
  <2>8. N2 \subseteq PruneRow
    <3>1. "compact" \in Source /\ IsFiniteSet(Places(pruned)) /\ Places(pruned) = Places(capped)
      BY <2>3, <2>4 DEF Source
    <3> QED BY <2>3, <2>6, <3>1, NewRowType
  <2> HIDE DEF N1, N2
  <2>9. rows' \subseteq PruneRow
    BY <2>1, <2>6, <2>7, <2>8 DEF Logged
  <2>10. DOMAIN sent' = Session /\ \A t \in Session : sent'[t] = IF t = s THEN capped ELSE sent[t]
    BY <2>1, <2>6
  <2>11. ASSUME NEW t \in Session PROVE IsConversation(sent'[t])
    BY <2>5, <2>6, <2>10
  <2> QED BY <2>9, <2>10, <2>11
<1>7. /\ DOMAIN sent' = Session /\ \A t \in Session : IsConversation(sent'[t])
      /\ rows' \subseteq PruneRow
  <2>1. CASE UNCHANGED <<sent, rows>>
    BY <2>1 DEF PruneTypeOK
  <2>2. ASSUME NEW s \in Session, NEW k \in Key, CallTool(s, k) PROVE UNCHANGED <<sent, rows>>
    BY <2>2, Zenon DEF CallTool
  <2>3. ASSUME NEW s \in Session, NEW i \in DOMAIN history[s], NEW j \in DOMAIN history[s][i],
               NEW x \in Text, CallCompletes(s, i, j, x)
        PROVE  UNCHANGED <<sent, rows>>
    BY <2>3, Zenon DEF CallCompletes
  <2>4. ASSUME NEW s \in Session, NewMessage(s) PROVE UNCHANGED <<sent, rows>>
    BY <2>4, Zenon DEF NewMessage
  <2>5. Tick \/ UNCHANGED pruneVars => UNCHANGED <<sent, rows>>
    BY DEF Tick, pruneVars
  <2> QED
    BY <1>6, <2>1, <2>2, <2>3, <2>4, <2>5 DEF PruneNext
<1> QED
  BY <1>4, <1>5, <1>7 DEF PruneTypeOK

\* What the host, the requests and the store hold is always of its type.
THEOREM PruneTypeCorrect == PruneSpec => []PruneTypeOK
<1>1. PruneInit => HistoryIsWhole
  BY DEF PruneInit, HistoryIsWhole
<1>2. PruneInit => PruneTypeOK
  BY ContextAssumption DEF PruneInit, PruneTypeOK, IsConversation
<1> QED
  BY <1>1, <1>2, NextHistory, NextPruneTyped, PTL DEF PruneSpec

=============================================================================
