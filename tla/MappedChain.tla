---------------------------- MODULE MappedChain ----------------------------
(***************************************************************************)
(* One session chain and the mapped sequence a request presents of it.     *)
(* Facts are committed by the loop of the session, by callers and by the    *)
(* settlement pump; a commit enters the chain in one lock section and the   *)
(* mapped sequence in a later one.  A boundary in the sequence parts what a *)
(* request presents as ended from what the transcript of the flying segment *)
(* carries.  Any commit that is observed may judge the sequence over its    *)
(* volume, file the judgment and execute it: closed turns lose their        *)
(* process detail, old turns become one summary.  The products are facts of *)
(* the chain, and a restart places them again instead of folding anew.      *)
(***************************************************************************)
EXTENDS Naturals, FiniteSets, Sequences, SequencesExt

CONSTANTS
    Inputs,      \* external inputs callers commit
    Past,        \* inputs a closed turn of the chain answered before this process
    Notices,     \* notice materials the settlement pump commits
    KeepRecent,  \* turns the age rule keeps whole
    Threshold,   \* entries the sequence may hold before a fold is due
    MaxCalls,    \* tool rounds of all segments together
    MaxCrashes,  \* stops of the process
    NoFact

Loop == "loop"

ASSUME MappedChainAssumption ==
    /\ Past \subseteq Inputs /\ IsFiniteSet(Past)
    /\ Loop \notin Inputs \cup Notices
    /\ KeepRecent \in Nat \ {0}
    /\ Threshold \in Nat
    /\ MaxCalls \in Nat
    /\ MaxCrashes \in Nat

VARIABLES
    facts,      \* the chain: every fact in the order it landed
    products,   \* the compress products of the chain, in the order they were filed
    entries,    \* the mapped sequence
    boundary,   \* the entry the ended material ends at, or NoFact
    rangeOpen,  \* whether the chain carries a range that has not closed
    judgments,  \* the filed judgments of this process, oldest first
    commit,     \* per committer: how far its commit and its observation are
    loop,       \* the consumer: its step, what it read and the segment it flies
    crashes

chainVars == <<facts, products, entries, boundary, rangeOpen, judgments, commit,
               loop, crashes>>
fold == <<products, judgments>>
chain == <<entries, boundary, rangeOpen>>

Committers == {Loop} \cup Inputs \cup Notices

---------------------------------------------------------------------------
(* Facts and products.                                                      *)

Fact(type, id, inputs) == [type |-> type, id |-> id, inputs |-> inputs]

External(i) == Fact("external_input", i, {})
Feedback(n) == Fact("feedback", n, {})

startsRange(f) == f.type \in {"external_input", "feedback"}

isProcessDetail(e) == e.type = "thinking_plan"

\* A product carries the text it was folded into, by the facts the text reads of.  The
\* line of a summary reads on in a later one; that of a folded segment names the fold
\* and no longer its detail.
historySummaryLine(e) ==
    IF e.type = "history_summary" THEN e.content
    ELSE IF e.type = "segment_fold" THEN {} ELSE {e}

historySummaryOf(covered) ==
    [type |-> "history_summary", covered |-> covered,
     content |-> UNION {historySummaryLine(e) : e \in ToSet(covered)}]

foldProcessDetail(covered) ==
    [type |-> "segment_fold", covered |-> covered, content |-> ToSet(covered)]

lastAnswerIndex(s) ==
    SelectLastInSeq(s, LAMBDA f : f.type = "agent_output")

---------------------------------------------------------------------------
(* The age rule.                                                            *)

drivingInputsOf(s) ==
    UNION {s[k].inputs : k \in {j \in DOMAIN s : s[j].type = "agent_output"}}

isSegmentInput(e, driving) ==
    \/ e.type = "external_input"
    \/ e.type = "feedback" /\ e \in driving

\* The entries of a sequence that are in a set, in their order.
Only(s, S) ==
    LET kept[k \in 0 .. Len(s)] ==
            IF k = 0 THEN << >>
            ELSE IF s[k] \in S THEN Append(kept[k - 1], s[k]) ELSE kept[k - 1]
    IN kept[Len(s)]

\* The inputs an output leaves unnamed roll into the next run.
closeByConsumption(closed, run, output, driving) ==
    LET carried == {e \in ToSet(run) : /\ output.inputs # {}
                                       /\ isSegmentInput(e, driving)
                                       /\ e \notin output.inputs}
    IN [closed |-> Append(closed, Only(run, ToSet(run) \ carried)),
        run |-> Only(run, carried)]

splitSegments(s) ==
    LET driving == drivingInputsOf(s)
        Cut(acc, e) ==
            IF e.type = "agent_output"
            THEN closeByConsumption(acc.closed, Append(acc.run, e), e, driving)
            ELSE [acc EXCEPT !.run = Append(@, e)]
        cut[k \in 0 .. Len(s)] ==
            IF k = 0 THEN [closed |-> << >>, run |-> << >>] ELSE Cut(cut[k - 1], s[k])
    IN cut[Len(s)]

\* A closed turn ages with every turn behind it, the one in progress included.
planFold(s) ==
    LET cut == splitSegments(s)
        turns == DOMAIN cut.closed
        runs == Len(cut.closed) + (IF cut.run = << >> THEN 0 ELSE 1)
        Detail(k) == Only(cut.closed[k], {e \in ToSet(cut.closed[k]) : isProcessDetail(e)})
        places == [k \in turns |-> k]
        recent == {k \in turns : runs - k < KeepRecent}
        new == Only(places, {k \in recent : Detail(k) # << >>})
        old == Only(places, turns \ recent)
        middle == FlattenSeq([k \in DOMAIN old |-> cut.closed[old[k]]])
    IN IF Len(s) <= Threshold THEN << >>
       ELSE [k \in DOMAIN new |-> foldProcessDetail(Detail(new[k]))]
            \o (IF middle = << >> THEN << >> ELSE <<historySummaryOf(middle)>>)

\* Mutant: what stands between two covered entries goes with them.
applyFoldProductByRange(s, product) ==
    LET covered == ToSet(product.covered)
        first == SelectInSeq(s, LAMBDA e : e \in covered)
        last == SelectLastInSeq(s, LAMBDA e : e \in covered)
    IN IF Contains(s, product) \/ first = 0 THEN s
       ELSE SubSeq(s, 1, first - 1) \o <<product>> \o SubSeq(s, last + 1, Len(s))

\* Each covered entry leaves by identity; a summary lands ahead of everything.
applyFoldProduct(s, product) ==
    LET covered == ToSet(product.covered)
        first == SelectInSeq(s, LAMBDA e : e \in covered)
        Rest(t) == Only(t, ToSet(t) \ covered)
    IN IF Contains(s, product) THEN s
       ELSE IF product.type = "history_summary" THEN <<product>> \o Rest(s)
       ELSE IF first = 0 THEN s
       ELSE SubSeq(s, 1, first - 1) \o <<product>> \o Rest(SubSeq(s, first, Len(s)))

\* Mutant: only the product filed last is placed.
RestoreLastProduct(s, placed) ==
    IF placed = << >> THEN s ELSE applyFoldProduct(s, Last(placed))

RestoreProducts(s, placed) ==
    LET after[k \in 0 .. Len(placed)] ==
            IF k = 0 THEN s ELSE applyFoldProduct(after[k - 1], placed[k])
    IN after[Len(placed)]

---------------------------------------------------------------------------
(* The boundary of the ended material.                                      *)

endedPrefix ==
    LET at == SelectInSeq(entries, LAMBDA e : e = boundary) IN
    IF boundary = NoFact \/ at = 0 THEN Len(entries)
    ELSE IF boundary.type = "agent_output" THEN at ELSE at - 1

SessionPresented == ToSet(SubSeq(entries, 1, endedPrefix))

---------------------------------------------------------------------------
Idle == [pc |-> "idle", fact |-> NoFact, batch |-> << >>]
NoSegment == [consumed |-> {}, transcript |-> {}]
NoRequest == [prefix |-> {}, transcript |-> {}]
AtRest(read) ==
    [pc |-> "rest", read |-> read, seg |-> NoSegment, position |-> 0,
     request |-> NoRequest, calls |-> 0]

\* The chain the first process opens on: the past turns, none of them folded.
PastFacts ==
    LET turns == SetToSeq(Past) IN
    [k \in 1 .. 2 * Len(turns) |->
        LET input == External(turns[(k + 1) \div 2]) IN
        IF k % 2 = 1 THEN input ELSE Fact("agent_output", NoFact, {input})]

ChainInit ==
    /\ facts = PastFacts
    /\ products = << >>
    /\ entries = facts
    /\ boundary = NoFact
    /\ rangeOpen = FALSE
    /\ judgments = << >>
    /\ commit = [c \in Committers |-> Idle]
    /\ loop = AtRest({External(i) : i \in Past})
    /\ crashes = 0

\* The fact is on the disk and in the live chain; the sequence follows.
Land(c, f) ==
    /\ facts' = Append(facts, f)
    /\ commit' = [commit EXCEPT ![c] = [pc |-> "landed", fact |-> f, batch |-> << >>]]

\* Observing a fact that is already mapped: what a pull does for what it takes.
Observes(c) == commit' = [commit EXCEPT ![c].pc = "mapped"]

Done(c) == commit' = [commit EXCEPT ![c] = Idle]

---------------------------------------------------------------------------
(* The commit, its mapping and its observation.                             *)

InputLands(i) ==
    /\ commit[i].pc = "idle"
    /\ ~ Contains(facts, External(i))
    /\ Land(i, External(i))
    /\ UNCHANGED <<fold, chain, loop, crashes>>

NoticeLands(n) ==
    /\ commit[n].pc = "idle"
    /\ ~ Contains(facts, Feedback(n))
    /\ Land(n, Feedback(n))
    /\ UNCHANGED <<fold, chain, loop, crashes>>

\* An invocation leaves the observation of its input to the pull.
recordMapped(c) ==
    LET f == commit[c].fact IN
    /\ commit[c].pc = "landed"
    /\ entries' = Append(entries, f)
    /\ IF f.type = "agent_output"
       THEN boundary' = f /\ rangeOpen' = FALSE
       ELSE IF startsRange(f) /\ ~ rangeOpen
       THEN boundary' = f /\ rangeOpen' = TRUE
       ELSE UNCHANGED <<boundary, rangeOpen>>
    /\ IF c \in Inputs THEN Done(c) ELSE Observes(c)
    /\ UNCHANGED <<facts, fold, loop, crashes>>

ObserveCommit(c) ==
    LET planned == planFold(entries)
        fresh == Only(planned, ToSet(planned) \ ToSet(judgments))
    IN /\ commit[c].pc = "mapped"
       /\ judgments' = judgments \o fresh
       /\ IF planned = << >> THEN Done(c)
          ELSE commit' = [commit EXCEPT ![c].pc = "judged"]
       /\ UNCHANGED <<facts, products, chain, loop, crashes>>

\* Only judgments that the sequence, planned again, still names are executed.
Execute(c) ==
    LET named == planFold(entries)
        batch == Only(judgments, ToSet(named) \ ToSet(products))
    IN /\ commit[c].pc = "judged"
       /\ IF batch = << >> THEN Done(c)
          ELSE commit' = [commit EXCEPT ![c].pc = "planned", ![c].batch = batch]
       /\ UNCHANGED <<facts, fold, chain, loop, crashes>>

FileCompressProduct(c) ==
    LET product == Head(commit[c].batch) IN
    /\ commit[c].pc = "planned"
    /\ products' = IF Contains(products, product) THEN products
                   ELSE Append(products, product)
    /\ commit' = [commit EXCEPT ![c].pc = "filed"]
    /\ UNCHANGED <<facts, judgments, chain, loop, crashes>>

ApplyProducts(c) ==
    LET rest == Tail(commit[c].batch) IN
    /\ commit[c].pc = "filed"
    /\ entries' = applyFoldProduct(entries, Head(commit[c].batch))
    /\ IF rest = << >> THEN Done(c)
       ELSE commit' = [commit EXCEPT ![c].pc = "planned", ![c].batch = rest]
    /\ UNCHANGED <<facts, fold, boundary, rangeOpen, loop, crashes>>

---------------------------------------------------------------------------
(* The consumer.                                                            *)

Driving == {f \in ToSet(facts) : startsRange(f) /\ f \notin loop.read}

\* Mutant: what stands before the last answer is not carried, presented or not.
PulledPastAnswer(step) ==
    loop' = [loop EXCEPT !.pc = step,
                         !.read = @ \cup Driving,
                         !.seg.consumed = @ \cup Driving,
                         !.seg.transcript = @ \cup
                             (Driving \ ToSet(SubSeq(facts, 1, lastAnswerIndex(facts))))]

\* What drives is consumed; what the prefix does not present is carried too.
Pulled(step) ==
    loop' = [loop EXCEPT !.pc = step,
                         !.read = @ \cup Driving,
                         !.seg.consumed = @ \cup Driving,
                         !.seg.transcript = @ \cup (Driving \ SessionPresented)]

openSegment ==
    /\ loop.pc = "rest" /\ commit[Loop].pc = "idle"
    /\ Driving # {}
    /\ Pulled("open")
    /\ Observes(Loop)
    /\ UNCHANGED <<facts, fold, chain, crashes>>

pullDriving ==
    /\ loop.pc = "open" /\ commit[Loop].pc = "idle"
    /\ Pulled("pulled")
    /\ IF Driving = {} THEN UNCHANGED commit ELSE Observes(Loop)
    /\ UNCHANGED <<facts, fold, chain, crashes>>

\* The boundary is read as a position here and used as one below.
requestBoundary ==
    /\ loop.pc = "pulled" /\ commit[Loop].pc = "idle"
    /\ loop' = [loop EXCEPT !.pc = "fixed", !.position = endedPrefix]
    /\ UNCHANGED <<facts, fold, chain, commit, crashes>>

AssembleBudgetPrefix ==
    LET upto == IF loop.position < Len(entries) THEN loop.position ELSE Len(entries) IN
    /\ loop.pc = "fixed"
    /\ loop' = [loop EXCEPT !.pc = "asked", !.position = 0,
                            !.request = [prefix |-> ToSet(SubSeq(entries, 1, upto)),
                                         transcript |-> loop.seg.transcript]]
    /\ UNCHANGED <<facts, fold, chain, commit, crashes>>

commitCalls ==
    LET f == Fact("thinking_plan", loop.calls, {}) IN
    /\ loop.pc = "asked"
    /\ loop.calls < MaxCalls
    /\ Land(Loop, f)
    /\ loop' = [loop EXCEPT !.pc = "open", !.request = NoRequest, !.calls = @ + 1,
                            !.seg.transcript = @ \cup {f}]
    /\ UNCHANGED <<fold, chain, crashes>>

\* A decision that answers no call closes the segment on its output.
closeSegment ==
    /\ loop.pc = "asked"
    /\ Land(Loop, Fact("agent_output", NoFact, loop.seg.consumed))
    /\ loop' = [AtRest(loop.read) EXCEPT !.calls = loop.calls]
    /\ UNCHANGED <<fold, chain, crashes>>

\* A decision that failed commits no output: what it read stays behind the boundary.
closeFailed ==
    /\ loop.pc = "asked"
    /\ loop' = [AtRest(loop.read) EXCEPT !.calls = loop.calls]
    /\ UNCHANGED <<facts, fold, chain, commit, crashes>>

---------------------------------------------------------------------------
(* A stop at any step, and the process that follows.                        *)

Restart ==
    LET before == SubSeq(facts, 1, lastAnswerIndex(facts)) IN
    /\ crashes < MaxCrashes
    /\ crashes' = crashes + 1
    /\ entries' = RestoreProducts(facts, products)
    /\ boundary' = NoFact
    /\ rangeOpen' = FALSE
    /\ judgments' = << >>
    /\ commit' = [c \in Committers |-> Idle]
    /\ loop' = [AtRest({f \in ToSet(before) : startsRange(f)}) EXCEPT !.calls = loop.calls]
    /\ UNCHANGED <<facts, products>>

---------------------------------------------------------------------------
ChainNext ==
    \/ \E i \in Inputs : InputLands(i)
    \/ \E n \in Notices : NoticeLands(n)
    \/ \E c \in Committers :
          recordMapped(c) \/ ObserveCommit(c) \/ Execute(c)
          \/ FileCompressProduct(c) \/ ApplyProducts(c)
    \/ openSegment \/ pullDriving \/ requestBoundary \/ AssembleBudgetPrefix
    \/ commitCalls \/ closeSegment \/ closeFailed
    \/ Restart

ChainSpec == ChainInit /\ [][ChainNext]_chainVars

---------------------------------------------------------------------------
(* Properties.                                                              *)

\* What an entry tells: itself, or what the text of a product reads of.
Tells(e) == IF e.type \in {"history_summary", "segment_fold"} THEN e.content ELSE {e}

Mapped == ToSet(facts) \ {commit[c].fact : c \in {d \in Committers : commit[d].pc = "landed"}}
Told(f) == {k \in DOMAIN entries : f \in Tells(entries[k])}

\* Every input, notice and answer that was mapped is told by some entry, whatever
\* passes fold beside each other and wherever the process stops: a product is filed
\* before what it covers leaves the sequence (assembly/compress_consumer.go Execute).
NoTurnLost ==
    \A f \in Mapped : f.type # "thinking_plan" => Told(f) # {}

\* The request that is assembled carries every input its segment consumes, in the
\* ended prefix or in the transcript: no commit, close or fold between the pull and the
\* assembly drops it from both (assembly/request.go SessionPresented).  The one way to
\* lose it is two passes that told a fact twice: the summary they add moves the sequence
\* under the position the request holds.
InputIsRead ==
    [][AssembleBudgetPrefix /\ (\A f \in Mapped : Cardinality(Told(f)) < 2) =>
          \A f \in loop.seg.consumed :
              f.type = "external_input" => f \in loop'.request.prefix \cup loop'.request.transcript]_chainVars

\* A restart unfolds nothing: what a product of the chain covers does not come back as
\* an entry of its own (assembly/run.go seedReplay).
Folded == Mapped \ ToSet(entries)
FoldSurvives == [][Restart => Folded \subseteq Folded']_chainVars
=============================================================================
