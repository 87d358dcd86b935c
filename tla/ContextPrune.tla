------------------------------ MODULE ContextPrune ------------------------------
(***************************************************************************)
(* What the OpenCode plugin does to a conversation before each request     *)
(* (packages/opencode/src/messages-transform-hook.ts): repeated tool calls *)
(* are replaced by a pointer to the latest one (context-prune.ts), large   *)
(* outputs in older messages are cut (tool-output-compress.ts), and what   *)
(* was saved is logged.  The host hands the hook a copy of its history, so *)
(* every request starts from the whole outputs again.                      *)
(***************************************************************************)
EXTENDS OpenCode, ToolOutput, Sequences, SequencesExt

CONSTANTS Key,           \* a tool and its arguments (toolKey)
          NameLength,    \* NameLength[k]: characters of the tool's name
          IdLength,      \* characters of a call id
          Text,          \* the outputs that tools produce
          MaxMessages,   \* bound: messages of a session
          MaxCalls,      \* bound: tool calls of a session
          MaxTime        \* bound: milliseconds that pass

ASSUME ContextAssumption ==
    /\ NameLength \in [Key -> Nat]
    /\ Text \subseteq AnyText
    /\ IdLength \in Nat /\ MaxMessages \in Nat /\ MaxCalls \in Nat /\ MaxTime \in Nat

CallNumber == 1 .. MaxCalls
NoCall == 0

-----------------------------------------------------------------------------
(* The transformation of one request.                                      *)

\* The length of an output that the cap shortens.
MinTokens == 96
MaxTokens == 512
Compressed(t) == CompressToolOutput(t, MinTokens, MaxTokens * 4)

\* A duplicate below this size is left.
MinPruned == 48
PlaceholderLength(k, tokens) == 56 + NameLength[k] + Digits(tokens) + IdLength

\* A part: a tool call, its output (of this length by now), and the call that
\* it points to if it is a placeholder.
Running == "running"
Completed == "completed"
Part == [call : CallNumber, key : Key, status : {Running, Completed}, text : AnyText,
         length : Nat, see : CallNumber \cup {NoCall}]
NoText == [lines |-> 1, width |-> 0, noise |-> 0]

Parts(messages) == UNION {ToSet(messages[i]) : i \in DOMAIN messages}
Places(messages) == UNION {{<<i, j>> : j \in DOMAIN messages[i]} : i \in DOMAIN messages}
\* The tokens of the parts at some places, and of all.
TokensOf(messages, at) ==
    SumFunctionOnSet([ij \in Places(messages) |-> Tokens(messages[ij[1]][ij[2]].length)], at)
Size(messages) == TokensOf(messages, Places(messages))
EachPart(messages, Op(_)) ==
    [i \in DOMAIN messages |-> [j \in DOMAIN messages[i] |-> Op(messages[i][j])]]

\* Mutant of LatestCall: the first call with this key.
FirstCall(messages, k) ==
    Min({p.call : p \in {q \in Parts(messages) : q.status = Completed /\ q.key = k}})
\* Calls are numbered in the order of the conversation.
LatestCall(messages, k) ==
    Max({p.call : p \in {q \in Parts(messages) : q.status = Completed /\ q.key = k}})

Prunable(messages, p) ==
    /\ p.status = Completed
    /\ p.length > 0
    /\ p.call # LatestCall(messages, p.key)
    /\ Tokens(p.length) >= MinPruned

Placeholder(messages, p) ==
    [p EXCEPT !.length = PlaceholderLength(p.key, Tokens(p.length)),
              !.see = LatestCall(messages, p.key)]

PruneMessageContext(messages) ==
    EachPart(messages, LAMBDA p : IF Prunable(messages, p) THEN Placeholder(messages, p) ELSE p)

\* The length of an output after the cap, which spares the last message.
Capped(p) ==
    IF p.status = Completed /\ p.see = NoCall /\ Tokens(p.length) > MaxTokens
    THEN [p EXCEPT !.length = Compressed(p.text)] ELSE p
CapStaleToolOutputs(messages) ==
    [i \in DOMAIN messages |->
       IF i = Len(messages) THEN messages[i]
       ELSE [j \in DOMAIN messages[i] |-> Capped(messages[i][j])]]

\* The row for what one of the two has changed: its tokens before and after,
\* over the parts that changed.
Changed(before, after) ==
    {ij \in Places(before) : before[ij[1]][ij[2]] # after[ij[1]][ij[2]]}
Source == {"prune", "compact"}

-----------------------------------------------------------------------------
VARIABLES
    history,   \* history[s]: the conversation as the host keeps it
    sent,      \* sent[s]: the messages of the last request
    rows,      \* what the store has of these sources
    clock      \* Date.now()

pruneVars == <<history, sent, rows, clock>>

PruneRow == [source : Source, at : 0 .. MaxTime, count : Nat \ {0}, session : Session,
        tokensIn : Nat, tokensOut : Nat]

IsConversation(messages) ==
    /\ DOMAIN messages = 1 .. Len(messages) /\ Len(messages) <= MaxMessages
    /\ \A i \in DOMAIN messages : \A j \in DOMAIN messages[i] : messages[i][j] \in Part

PruneTypeOK ==
    /\ DOMAIN history = Session /\ DOMAIN sent = Session
    /\ \A s \in Session : IsConversation(history[s]) /\ IsConversation(sent[s])
    /\ rows \subseteq PruneRow
    /\ clock \in 0 .. MaxTime

PruneInit ==
    /\ history = [s \in Session |-> <<>>]
    /\ sent = [s \in Session |-> <<>>]
    /\ rows = {}
    /\ clock = 0

CallsOf(s) == {p.call : p \in Parts(history[s])}

NewMessage(s) ==
    /\ Len(history[s]) < MaxMessages
    /\ history' = [history EXCEPT ![s] = Append(@, <<>>)]
    /\ UNCHANGED <<sent, rows, clock>>

\* The model calls a tool in its latest message.
CallTool(s, k) ==
    LET n == Cardinality(CallsOf(s)) + 1
        last == Len(history[s])
    IN
    /\ last > 0 /\ n <= MaxCalls
    /\ history' = [history EXCEPT ![s][last] = Append(@,
          [call |-> n, key |-> k, status |-> Running, text |-> NoText, length |-> 0, see |-> NoCall])]
    /\ UNCHANGED <<sent, rows, clock>>

CallCompletes(s, i, j, t) ==
    /\ history[s][i][j].status = Running
    /\ history' = [history EXCEPT ![s][i][j] =
          [@ EXCEPT !.status = Completed, !.text = t, !.length = Length(t)]]
    /\ UNCHANGED <<sent, rows, clock>>

\* One row per source, if there is anything to log; the id of a row is its
\* source, the time and the number of parts.
NewRow(source, s, before, after) ==
    LET at == Changed(before, after) IN
    IF TokensOf(before, at) > TokensOf(after, at)
    THEN {[source |-> source, at |-> clock, count |-> Cardinality(at), session |-> s,
           tokensIn |-> TokensOf(before, at), tokensOut |-> TokensOf(after, at)]}
    ELSE {}
SameId(r, q) == r.source = q.source /\ r.at = q.at /\ r.count = q.count

\* INSERT OR IGNORE
Logged(new) == rows \cup {r \in new : ~ \E q \in rows : SameId(r, q)}

\* Mutant of Transform: the cap counts from the messages before the prune.
TransformCountsTwice(s, kept) ==
    LET messages == history[s]
        pruned == PruneMessageContext(messages)
        capped == CapStaleToolOutputs(pruned)
    IN
    /\ messages # <<>>
    /\ sent' = [sent EXCEPT ![s] = capped]
    /\ rows' = Logged({r \in NewRow("prune", s, messages, pruned)
                             \cup NewRow("compact", s, messages, capped) : r.source \in kept})
    /\ UNCHANGED <<history, clock>>
\* The hook: prune, log, cap, log.  The store may drop a row.
Transform(s, kept) ==
    LET messages == history[s]
        pruned == PruneMessageContext(messages)
        capped == CapStaleToolOutputs(pruned)
    IN
    /\ messages # <<>>
    /\ sent' = [sent EXCEPT ![s] = capped]
    /\ rows' = Logged({r \in NewRow("prune", s, messages, pruned)
                             \cup NewRow("compact", s, pruned, capped) : r.source \in kept})
    /\ UNCHANGED <<history, clock>>

Tick ==
    /\ clock < MaxTime
    /\ clock' = clock + 1
    /\ UNCHANGED <<history, sent, rows>>

PruneNext ==
    \/ \E s \in Session :
         \/ NewMessage(s)
         \/ \E k \in Key : CallTool(s, k)
         \/ \E i \in DOMAIN history[s] : \E j \in DOMAIN history[s][i] : \E t \in Text :
               CallCompletes(s, i, j, t)
         \/ \E kept \in SUBSET Source : Transform(s, kept)
    \/ Tick

PruneSpec == PruneInit /\ [][PruneNext]_pruneVars

-----------------------------------------------------------------------------
(* Properties.                                                             *)

\* A placeholder leads on: the call it names is in the same request, after it,
\* a completed call of the same tool and arguments, and is no placeholder itself.
\* Its output is all that is left of the two: whole, cut by the second pass, or
\* empty, for the latest call of a key may have printed nothing (context-prune
\* .ts:50-95 with 126-150; the code keeps the latest of equal calls, where
\* docs/architecture.md:46 has an earlier one stay).
PlaceholdersLeadOn ==
    \A s \in Session : \A p \in Parts(sent[s]) :
        p.see # NoCall => \E q \in Parts(sent[s]) :
            /\ q.call = p.see /\ q.call > p.call
            /\ q.key = p.key /\ q.status = Completed
            /\ q.see = NoCall
            /\ q.length \in {Length(q.text), Compressed(q.text)}

Booked(R) == SumFunction([r \in R |-> r.tokensIn - r.tokensOut])

\* What a request books is what it is shorter by, whatever prune and cap make
\* of the same outputs; it books less only when the store drops a row or has
\* one of the same millisecond, and rows that are there stay (messages-transform-hook
\* .ts:21-51, with the INSERT OR IGNORE of stats.ts).
BookedIsSaved ==
    [][\A s \in Session :
         /\ rows \subseteq rows'
         /\ \A kept \in SUBSET Source :
              UNCHANGED <<history, clock>> /\ Transform(s, kept) =>
              LET new == {r \in rows' : r \notin rows}
                  saving == Size(history[s]) - Size(sent'[s])
                  clash == \E q \in rows : q.at = clock
              IN  /\ Booked(new) <= saving
                  /\ kept = Source /\ ~ clash => Booked(new) = saving]_pruneVars

=============================================================================
