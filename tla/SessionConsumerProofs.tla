----------------------- MODULE SessionConsumerProofs -----------------------
(***************************************************************************)
(* What the consumer loop keeps of its inputs, for every finite set of     *)
(* invocations, any number of rounds, failures and processes.              *)
(***************************************************************************)
EXTENDS SessionConsumer, FiniteSetTheorems, SequenceTheorems, WellFoundedInduction, TLAPS

Facts == [kind : {"input", "output"}, of : SUBSET Inputs]

\* Where the loop is inside a pass, and where a segment may fly.
Driven  == {"pass", "driving", "deciding", "committing", "settling"}
Passing == Driven \union {"drawn", "leaving", "confirmed"}
Mounted == Passing \union {"mounted", "parked", "entering", "left", "ended"}

\* Invocations whose pass may stand on the queue.
Queued == {i \in Inputs : caller[i] \notin {"idle", "admitted", "landed"}}

\* The types of what the loop and the invocations share.
LoopTypes ==
    /\ chain \in Seq(Facts)
    /\ caller \in [Inputs -> Standing \union Over]
    /\ passes \in Nat /\ (loop = "none" => passes = 0)
    /\ flying \subseteq Inputs /\ drawn \subseteq Inputs /\ read \subseteq Inputs
    /\ cursor \in 0..Len(chain)
    /\ verdict \in {"none", "answered", "failed"}
    /\ loop = "settling" => verdict # "none"
    /\ answers \in [Inputs -> {"none", "answered", "failed", "cut"}]

\* The variables of the loop agree on what it is doing, and a close that
\* stopped it goes on.
LoopShape ==
    /\ loop \in Mounted \union {"none"}
    /\ loop \in Passing => busy
    /\ writer => loop \in Driven \union {"drawn", "leaving"}
    /\ drawn # {} => loop = "drawn"
    /\ flying # {} => loop \in Driven \/ (stopped /\ loop \in {"leaving", "confirmed", "left"})
    /\ stopped => closer \in {"joining", "joined", "closed"}
    /\ closer # "open" => closed

\* A pass stands for an invocation that was landed, or for the mount.
PassesCounted == passes <= Cardinality(Queued) + 1

Names(at, i) == chain[at].kind = "output" /\ i \in chain[at].of
Unread(i) == {at \in DOMAIN chain : chain[at] = Input(i) /\ at > cursor}

\* Every input stands on the chain once and before the outputs that name it.
ChainOrdered ==
    /\ \A i \in Inputs : caller[i] \in {"idle", "admitted"} =>
          \A at \in DOMAIN chain : i \notin chain[at].of
    /\ \A i \in Inputs : \A p, q \in DOMAIN chain :
          chain[p] = Input(i) /\ chain[q] = Input(i) => p = q
    /\ \A i \in Inputs : \A p \in DOMAIN chain : Names(p, i) =>
          \E at \in DOMAIN chain : at < p /\ chain[at] = Input(i)

\* What a pull may still take has no answer, and neither has what a segment
\* holds until its own output commits.
TakenOnce ==
    /\ loop # "none" => \A i \in Inputs : Unread(i) # {} => ~Answered(i)
    /\ \A i \in flying \union drawn :
          /\ Unread(i) = {} /\ \E at \in DOMAIN chain : chain[at] = Input(i)
          /\ loop # "settling" => ~Answered(i)

\* OneAnswer, with the outputs themselves instead of their number.
OneOutput ==
    \A i \in Inputs : \A p, q \in DOMAIN chain : Names(p, i) /\ Names(q, i) => p = q

ConsumerInv == LoopTypes /\ LoopShape /\ PassesCounted /\ ChainOrdered /\ TakenOnce /\ OneOutput

-----------------------------------------------------------------------------
(* The variables of the loop.                                              *)

LEMMA LastAnswer ==
    ASSUME LoopTypes
    PROVE  /\ lastAnswerIndex \in 0..Len(chain)
           /\ \A at \in DOMAIN chain : chain[at].kind = "output" => at <= lastAnswerIndex
  <1> DEFINE outs == {0} \union {at \in DOMAIN chain : chain[at].kind = "output"}
             over == {n \in Nat : \A at \in outs : at <= n}
             below == {p \in Nat \X Nat : p[1] < p[2]}
  <1>1. outs \subseteq 0..Len(chain) /\ Len(chain) \in Nat /\ 0 \in outs
    BY LenProperties DEF LoopTypes
  <1>2. IsWellFoundedOn(below, Nat)
    BY NatLessThanWellFounded, Zenon DEF OpToRel
  <1>3. Len(chain) \in over
    BY <1>1
  <1>4. PICK n \in over : \A m \in over : <<m, n>> \notin below
    <2> HIDE DEF below
    <2> QED
      BY <1>2, <1>3, WFMin
  <1>5. ASSUME NEW m \in over PROVE n <= m
    <2>1. m \in Nat /\ n \in Nat
      OBVIOUS
    <2>2. m < n => <<m, n>> \in below
      BY <2>1
    <2> HIDE DEF below, over
    <2>3. ~(m < n)
      BY <1>4, <2>2
    <2> QED
      BY <2>1, <2>3
  <1> HIDE DEF outs
  <1>6. n \in outs
    <2>1. CASE n = 0
      BY <1>1, <2>1
    <2>2. CASE n # 0 /\ n \notin outs
      <3>1. n - 1 \in Nat /\ n \in Nat
        BY <2>2
      <3>2. \A at \in outs : at \in Nat /\ at <= n /\ at # n
        BY <1>1, <2>2
      <3>3. n - 1 \in over
        BY <3>1, <3>2
      <3> QED
        BY <1>5, <3>1, <3>3
    <2> QED
      BY <2>1, <2>2
  <1>7. Max(outs) \in outs /\ \A at \in outs : Max(outs) >= at
    <2>1. \A at \in outs : n >= at
      BY <1>1
    <2> QED
      BY <1>6, <2>1 DEF Max
  <1> QED
    BY <1>1, <1>7 DEF lastAnswerIndex, outs

LEMMA LoopInitial == Init => LoopTypes /\ LoopShape
  <1>1. Init => LoopTypes
    BY EmptySeq DEF Init, LoopTypes, Standing
  <1>2. Init => LoopShape
    BY DEF Init, LoopShape, Passing, Driven, Mounted
  <1> QED
    BY <1>1, <1>2

\* An appended fact leaves the ones before it where they are.
LEMMA Appended ==
    ASSUME NEW f \in Facts, chain \in Seq(Facts), chain' = Append(chain, f)
    PROVE  /\ chain' \in Seq(Facts) /\ Len(chain) \in Nat
           /\ Len(chain') = Len(chain) + 1
           /\ DOMAIN chain = 1..Len(chain) /\ DOMAIN chain' = 1..(Len(chain) + 1)
           /\ \A at \in DOMAIN chain : chain'[at] = chain[at]
           /\ chain'[Len(chain) + 1] = f
  BY AppendProperties, LenProperties

LEMMA CallerTypes ==
    ASSUME LoopTypes, NEW i \in Inputs, Invoke(i) \/ Caller(i)
    PROVE  LoopTypes'
  <1> USE DEF Outside, segment, book, close, bounds, Go
  <1>1. CASE Invoke(i)
    BY <1>1 DEF Invoke, LoopTypes, Standing, Over
  <1>2. CASE Lands(i)
    <2>1. Input(i) \in Facts
      BY DEF Input, Facts
    <2>2. /\ chain' \in Seq(Facts) /\ Len(chain') \in Nat
          /\ Len(chain') >= Len(chain)
      BY <1>2, <2>1, Appended, LenProperties DEF Lands, LoopTypes
    <2> QED
      BY <1>2, <2>2 DEF Lands, LoopTypes, Standing, Over
  <1>3. CASE Ensure(i)
    <2>1. lastAnswerIndex \in 0..Len(chain)
      BY LastAnswer
    <2>2. caller' \in [Inputs -> Standing \union Over]
      BY <1>3 DEF Ensure, LoopTypes, Standing, Over
    <2>3. cursor' \in 0..Len(chain) /\ passes' \in Nat /\ (loop' = "none" => passes' = 0)
          /\ (loop' = "settling" => loop = "settling")
      BY <1>3, <2>1 DEF Ensure, LoopTypes
    <2> QED
      BY <1>3, <2>2, <2>3 DEF Ensure, LoopTypes
  <1>4. CASE Signals(i) \/ GivesBack(i)
    BY <1>4 DEF Signals, GivesBack, takePass, LoopTypes, Standing, Over
  <1>5. CASE WaitAnswer(i)
    <2>1. answers[i] # "none" => answers[i] \in Over
      BY DEF LoopTypes, Over
    <2>2. caller' \in [Inputs -> Standing \union Over]
      BY <1>5, <2>1 DEF WaitAnswer, LoopTypes, Over
    <2> QED
      BY <1>5, <2>2 DEF WaitAnswer, LoopTypes
  <1> QED
    BY <1>1, <1>2, <1>3, <1>4, <1>5 DEF Caller

LEMMA CallerShape ==
    ASSUME LoopShape, NEW i \in Inputs, Invoke(i) \/ Caller(i)
    PROVE  LoopShape'
  BY DEF LoopShape, Invoke, Caller, Lands, Ensure, Signals, GivesBack, WaitAnswer, Outside,
         segment, close, Driven, Passing, Mounted

LEMMA TurnTypes ==
    ASSUME LoopTypes, LoopShape, Loop
    PROVE  LoopTypes'
  <1> USE DEF Inside, At, segment, book, close, takePass
  <1>1. CASE Boots \/ Takes \/ BeginsPass \/ Continues \/ Confirms \/ Leaves
    BY <1>1 DEF Boots, Takes, BeginsPass, Continues, Confirms, Leaves, LoopTypes
  <1>2. CASE OpensSegment \/ DecidesAgain \/ DecidesLast \/ ClosesFailed
    BY <1>2 DEF OpensSegment, DecidesAgain, DecidesLast, ClosesFailed, LoopTypes
  <1>3. CASE Pulls \/ Drives
    <2>1. Driving \subseteq Inputs /\ read' \subseteq Inputs /\ cursor' \in 0..Len(chain)
      <3>1. Len(chain) \in Nat
        BY LenProperties DEF LoopTypes
      <3>2. seeded \subseteq Inputs
        <4>1. lastAnswerIndex \in 0..Len(chain)
          BY LastAnswer
        <4>2. \A at \in 1..(lastAnswerIndex - 1) : chain[at] \in Facts
          BY <3>1, <4>1, ElementOfSeq DEF LoopTypes
        <4> QED
          BY <4>2 DEF seeded, Facts
      <3> QED
        BY <1>3, <3>1, <3>2 DEF Pulls, Drives, pullDriving, Driving, LoopTypes
    <2> QED
      BY <1>3, <2>1 DEF Pulls, Drives, pullDriving, LoopTypes
  <1>4. CASE CommitsOutput
    <2>1. Output(flying) \in Facts
      BY DEF Output, Facts, LoopTypes
    <2>2. /\ chain' \in Seq(Facts) /\ Len(chain') \in Nat
          /\ Len(chain') >= Len(chain)
      BY <1>4, <2>1, Appended, LenProperties DEF CommitsOutput, LoopTypes
    <2> QED
      BY <1>4, <2>2 DEF CommitsOutput, LoopTypes
  <1>5. CASE Settles
    BY <1>5 DEF Settles, settle, LoopTypes
  <1>6. CASE Ends
    BY <1>6 DEF Ends, settle, LoopTypes
  <1> QED
    BY <1>1, <1>2, <1>3, <1>4, <1>5, <1>6 DEF Loop

LEMMA TurnShape ==
    ASSUME LoopShape, Loop
    PROVE  LoopShape'
  <1> USE DEF Inside, At, segment, close, Driven, Passing, Mounted, LoopShape
  <1>1. CASE Boots \/ Takes \/ BeginsPass \/ Continues \/ Confirms \/ Leaves
    BY <1>1 DEF Boots, Takes, BeginsPass, Continues, Confirms, Leaves
  <1>2. CASE OpensSegment \/ DecidesAgain \/ DecidesLast \/ ClosesFailed
    BY <1>2 DEF OpensSegment, DecidesAgain, DecidesLast, ClosesFailed
  <1>3. CASE Pulls \/ Drives
    BY <1>3 DEF Pulls, Drives
  <1>4. CASE CommitsOutput \/ Settles \/ Ends
    BY <1>4 DEF CommitsOutput, Settles, Ends, settle
  <1> QED
    BY <1>1, <1>2, <1>3, <1>4 DEF Loop

LEMMA CloseKeepsLoop ==
    ASSUME LoopTypes, LoopShape, Quiesce \/ Close
    PROVE  LoopTypes' /\ LoopShape'
  <1> USE DEF Quiesce, Close, ReadsInputs, ReadsWriters, Judges, Awaits, Expires, Stops, Joins,
              JudgesRun, Beside, Moves, segment, book, bounds
  <1>1. LoopTypes'
    BY DEF LoopTypes
  <1>2. LoopShape'
    BY DEF LoopShape
  <1> QED
    BY <1>1, <1>2

LEMMA RestartKeepsLoop ==
    ASSUME LoopTypes, Restart
    PROVE  LoopTypes' /\ LoopShape'
  <1>1. LoopTypes'
    BY LenProperties DEF Restart, Boot, LoopTypes, Standing, Over
  <1>2. LoopShape'
    BY DEF Restart, Boot, LoopShape, Passing, Driven, Mounted
  <1> QED
    BY <1>1, <1>2

LEMMA LoopStep == LoopTypes /\ LoopShape /\ [Next]_vars => LoopTypes' /\ LoopShape'
  <1>1. CASE UNCHANGED vars
    BY <1>1 DEF vars, segment, book, close, bounds, LoopTypes, LoopShape
  <1> QED
    BY <1>1, CallerTypes, CallerShape, TurnTypes, TurnShape, CloseKeepsLoop, RestartKeepsLoop
       DEF Next

-----------------------------------------------------------------------------
(* The queue.                                                              *)

LEMMA QueuedGrows ==
    ASSUME PassesCounted, Queued \subseteq Queued', passes \in Nat, passes' \in Nat,
           passes' <= passes
    PROVE  PassesCounted'
  <1>1. IsFiniteSet(Queued')
    BY InputsAssumption, FS_Subset DEF Queued
  <1>2. /\ Cardinality(Queued) \in Nat /\ Cardinality(Queued') \in Nat
        /\ Cardinality(Queued) <= Cardinality(Queued')
    BY <1>1, FS_Subset, FS_CardinalityType
  <1> QED
    BY <1>2 DEF PassesCounted

LEMMA MountCounted ==
    ASSUME LoopTypes, PassesCounted, NEW i \in Inputs, Ensure(i), caller'[i] = "queued"
    PROVE  PassesCounted'
  <1>1. i \notin Queued /\ Queued' = Queued \union {i}
    BY DEF Ensure, Go, Queued, LoopTypes, Standing, Over
  <1>2. IsFiniteSet(Queued)
    BY InputsAssumption, FS_Subset DEF Queued
  <1>3. Cardinality(Queued') = Cardinality(Queued) + 1 /\ Cardinality(Queued) \in Nat
    BY <1>1, <1>2, FS_AddElement, FS_CardinalityType
  <1>4. \/ passes' = 2 /\ passes = 0
        \/ passes' = passes + 1
    BY DEF Ensure, Go, LoopTypes
  <1> QED
    BY <1>3, <1>4 DEF PassesCounted, LoopTypes

LEMMA PassesStep == LoopTypes /\ PassesCounted /\ [Next]_vars => PassesCounted'
  <1> SUFFICES ASSUME LoopTypes, PassesCounted, [Next]_vars
               PROVE  PassesCounted'
    OBVIOUS
  <1>0. passes \in Nat
    BY DEF LoopTypes
  <1>1. ASSUME NEW i \in Inputs, Invoke(i) \/ Caller(i) PROVE PassesCounted'
    <2>1. CASE Ensure(i) /\ caller'[i] = "queued"
      BY <2>1, MountCounted
    <2>2. CASE ~(Ensure(i) /\ caller'[i] = "queued")
      <3>1. Queued \subseteq Queued'
        BY <1>1, <2>2 DEF Invoke, Caller, Lands, Ensure, Signals, GivesBack, WaitAnswer, Go, Queued,
                     LoopTypes, Standing, Over
      <3>2. passes' \in Nat /\ passes' <= passes
        BY <1>0, <1>1, <2>2 DEF Invoke, Caller, Lands, Ensure, Signals, GivesBack, WaitAnswer, Go,
                     takePass, LoopTypes
      <3> QED
        BY <1>0, <3>1, <3>2, QueuedGrows
    <2> QED
      BY <2>1, <2>2
  <1>2. CASE Loop
    <2>1. caller' = caller
      BY <1>2 DEF Loop, Boots, Takes, BeginsPass, Pulls, Continues, OpensSegment, Drives,
             DecidesAgain, DecidesLast, ClosesFailed, CommitsOutput, Settles, Confirms, Leaves,
             Ends, Inside
    <2>2. passes' \in Nat /\ passes' <= passes
      BY <1>0, <1>2 DEF Loop, Boots, Takes, BeginsPass, Pulls, Continues, OpensSegment, Drives,
             DecidesAgain, DecidesLast, ClosesFailed, CommitsOutput, Settles, Confirms, Leaves,
             Ends, takePass
    <2> QED
      BY <1>0, <2>1, <2>2, QueuedGrows DEF Queued
  <1>3. CASE Quiesce \/ Close \/ UNCHANGED vars
    <2>1. caller' = caller /\ passes' = passes
      BY <1>3 DEF Quiesce, Close, ReadsInputs, ReadsWriters, Judges, Awaits, Expires, Stops,
             Joins, JudgesRun, Beside, vars
    <2> QED
      BY <1>0, <2>1, QueuedGrows DEF Queued
  <1>4. CASE Restart
    <2>1. passes' = 0
      BY <1>4 DEF Restart, Boot
    <2>2. Cardinality(Queued') \in Nat
      BY InputsAssumption, FS_Subset, FS_CardinalityType DEF Queued
    <2> QED
      BY <2>1, <2>2 DEF PassesCounted
  <1> QED
    BY <1>1, <1>2, <1>3, <1>4 DEF Next

-----------------------------------------------------------------------------
(* The chain and what the segments took of it.                             *)

\* An invocation that has not landed has no fact yet.
Ahead(i) == caller[i] \in {"idle", "admitted"}

LEMMA ChainStays ==
    ASSUME ChainOrdered, OneOutput, chain' = chain,
           \A i \in Inputs : Ahead(i)' => Ahead(i)
    PROVE  ChainOrdered' /\ OneOutput'
  BY DEF ChainOrdered, OneOutput, Names, Input, Ahead

LEMMA TakenStays ==
    ASSUME TakenOnce, chain' = chain, cursor' = cursor,
           loop' # "none" => loop # "none",
           flying' \union drawn' \subseteq flying \union drawn,
           loop' # "settling" => loop # "settling" \/ flying' \union drawn' = {}
    PROVE  TakenOnce'
  BY DEF TakenOnce, Unread, Answered, Input

\* A pull takes what has no answer and leaves nothing before its cursor.
LEMMA PullTakes ==
    ASSUME LoopTypes, LoopShape, TakenOnce, Pulls \/ Drives
    PROVE  TakenOnce'
  <1>1. /\ chain' = chain /\ cursor' = Len(chain) /\ loop' # "none" /\ loop # "none"
        /\ loop # "settling"
        /\ flying' \union drawn' \subseteq flying \union drawn \union Driving
    BY DEF Pulls, Drives, pullDriving, Inside, At
  <1>2. Len(chain) \in Nat /\ DOMAIN chain = 1..Len(chain) /\ cursor \in 0..Len(chain)
    BY LenProperties DEF LoopTypes
  <1>3. \A i \in Inputs : Unread(i)' = {}
    BY <1>1, <1>2 DEF Unread
  <1>4. ASSUME NEW i \in Driving
        PROVE  /\ i \in Inputs /\ ~Answered(i)
               /\ \E at \in DOMAIN chain : chain[at] = Input(i)
    <2>1. PICK at \in (cursor + 1)..Len(chain) : chain[at] = Input(i)
      BY DEF Driving
    <2>2. i \in Inputs /\ at \in Unread(i)
      BY <1>2, <2>1 DEF Driving, Unread
    <2> QED
      BY <1>1, <1>2, <2>1, <2>2 DEF TakenOnce
  <1>5. \A i : Answered(i)' <=> Answered(i)
    BY <1>1 DEF Answered
  <1>6. flying' \union drawn' \subseteq Inputs
    BY <1>1, <1>4 DEF LoopTypes
  <1>7. \A i \in flying' \union drawn' :
           ~Answered(i)' /\ \E at \in DOMAIN chain' : chain'[at] = Input(i)
    BY <1>1, <1>4, <1>5 DEF TakenOnce
  <1> QED
    BY <1>3, <1>6, <1>7 DEF TakenOnce, Input

\* A mount starts behind the last answer, where no fact is answered yet.
LEMMA MountTakes ==
    ASSUME LoopTypes, LoopShape, ChainOrdered, TakenOnce, NEW j \in Inputs, Ensure(j)
    PROVE  TakenOnce'
  <1>1. CASE loop = "none" /\ cursor' = lastAnswerIndex
    <2>1. flying' \union drawn' = {} /\ chain' = chain
      BY <1>1 DEF Ensure, Outside, segment, LoopShape, Driven
    <2>2. ASSUME NEW i \in Inputs, NEW at \in Unread(i)', Answered(i)' PROVE FALSE
      <3>1. at \in DOMAIN chain /\ chain[at] = Input(i) /\ at > lastAnswerIndex
        BY <1>1, <2>1, <2>2 DEF Unread, Input
      <3>2. PICK p \in DOMAIN chain : Names(p, i)
        BY <2>1, <2>2 DEF Answered, Names
      <3>3. PICK q \in DOMAIN chain : q < p /\ chain[q] = Input(i)
        BY <3>2 DEF ChainOrdered
      <3>4. q = at
        BY <3>1, <3>3 DEF ChainOrdered
      <3>5. p <= lastAnswerIndex /\ lastAnswerIndex \in Nat
        BY <3>2, LastAnswer DEF Names
      <3>6. p \in Nat /\ at \in Nat
        BY LenProperties, <3>1 DEF LoopTypes
      <3> QED
        BY <3>1, <3>3, <3>4, <3>5, <3>6
    <2> QED
      BY <2>1, <2>2 DEF TakenOnce
  <1>2. CASE cursor' = cursor /\ (loop' # "none" => loop # "none")
    <2>1. /\ chain' = chain /\ flying' = flying /\ drawn' = drawn
          /\ loop' # "settling" => loop # "settling" \/ flying' \union drawn' = {}
      BY <1>2 DEF Ensure, Outside, segment, Go
    <2> QED
      BY <1>2, <2>1, TakenStays
  <1> QED
    BY <1>1, <1>2 DEF Ensure, Go

LEMMA SameInput == \A i, j : Input(i) = Input(j) => i = j
  <1> SUFFICES ASSUME NEW i, NEW j, Input(i) = Input(j)
               PROVE  i = j
    OBVIOUS
  <1>1. Input(i).of = {i} /\ Input(j).of = {j}
    BY DEF Input
  <1> QED
    BY <1>1

\* The fact of an invocation is named by no output and read by no segment.
LEMMA LandingAppends ==
    ASSUME LoopTypes, ChainOrdered, TakenOnce, OneOutput,
           NEW j \in Inputs, Ahead(j), chain' = Append(chain, Input(j)),
           caller' = [caller EXCEPT ![j] = "landed"],
           UNCHANGED <<loop, cursor, flying, drawn>>
    PROVE  ChainOrdered' /\ TakenOnce' /\ OneOutput'
  <1>0a. PICK last \in Nat : last = Len(chain) + 1
    BY LenProperties DEF LoopTypes
  <1>1. /\ Len(chain) \in Nat /\ DOMAIN chain = 1..Len(chain) /\ DOMAIN chain' = 1..last
        /\ \A at \in DOMAIN chain : chain'[at] = chain[at]
        /\ chain'[last] = Input(j)
    <2>1. Input(j) \in Facts
      BY DEF Input, Facts
    <2> QED
      BY <1>0a, <2>1, Appended DEF LoopTypes
  <1>2. \A at \in DOMAIN chain' : at \in DOMAIN chain \/ at = last
    BY <1>1, <1>0a
  <1>3. \A at \in DOMAIN chain : at \in DOMAIN chain' /\ at \in Nat /\ at < last
    BY <1>1, <1>0a
  <1>4. \A i : Names(last, i)' <=> FALSE
    BY <1>1 DEF Names, Input
  <1>5. \A at \in DOMAIN chain : \A i : Names(at, i)' <=> Names(at, i)
    BY <1>1 DEF Names
  <1>6. \A at \in DOMAIN chain : j \notin chain[at].of
    BY DEF ChainOrdered, Ahead
  <1>7. \A i \in Inputs : chain'[last] = Input(i) => i = j
    BY <1>1, SameInput
  <1>8. \A at \in DOMAIN chain : chain[at] # Input(j)
    BY <1>6 DEF Input
  <1>9. \A i : Answered(i)' <=> Answered(i)
    BY <1>2, <1>3, <1>4, <1>5 DEF Answered, Names
  <1>10. ChainOrdered'
    <2>1. ASSUME NEW i \in Inputs, Ahead(i)', NEW at \in DOMAIN chain' PROVE i \notin chain'[at].of
      <3>1. i # j /\ Ahead(i)
        BY <2>1 DEF Ahead, LoopTypes
      <3> QED
        BY <1>1, <1>2, <3>1 DEF ChainOrdered, Ahead, Input
    <2>2. ASSUME NEW i \in Inputs, NEW p \in DOMAIN chain', NEW q \in DOMAIN chain',
                 chain'[p] = Input(i), chain'[q] = Input(i)
          PROVE  p = q
      BY <1>1, <1>2, <1>7, <1>8, <2>2 DEF ChainOrdered
    <2>3. ASSUME NEW i \in Inputs, NEW p \in DOMAIN chain', Names(p, i)'
          PROVE  \E at \in DOMAIN chain' : at < p /\ chain'[at] = Input(i)
      <3>1. p \in DOMAIN chain /\ Names(p, i)
        BY <1>2, <1>4, <1>5, <2>3
      <3>2. PICK at \in DOMAIN chain : at < p /\ chain[at] = Input(i)
        BY <3>1 DEF ChainOrdered
      <3> QED
        BY <1>1, <1>3, <3>2
    <2> QED
      BY <2>1, <2>2, <2>3 DEF ChainOrdered, Ahead, Input
  <1>11. OneOutput'
    BY <1>2, <1>4, <1>5 DEF OneOutput
  <1>12. ASSUME NEW i \in Inputs, NEW at \in Unread(i)' PROVE i = j \/ at \in Unread(i)
    BY <1>1, <1>2, <1>7, <1>12 DEF Unread, Input
  <1>13. ~Answered(j)
    BY <1>6 DEF Answered
  <1>14. \A i \in flying \union drawn : i # j
    BY <1>8 DEF TakenOnce
  <1>15. TakenOnce'
    <2>1. ASSUME loop' # "none", NEW i \in Inputs, Unread(i)' # {} PROVE ~Answered(i)'
      BY <1>9, <1>12, <1>13, <2>1 DEF TakenOnce
    <2>2. ASSUME NEW i \in flying' \union drawn'
          PROVE  /\ Unread(i)' = {} /\ \E at \in DOMAIN chain' : chain'[at] = Input(i)
                 /\ loop' # "settling" => ~Answered(i)'
      <3>1. i \in Inputs /\ i \in flying \union drawn /\ i # j
        BY <1>14 DEF LoopTypes
      <3>2. Unread(i)' = {}
        BY <1>12, <3>1 DEF TakenOnce
      <3> QED
        BY <1>1, <1>3, <1>9, <3>1, <3>2 DEF TakenOnce
    <2> QED
      BY <2>1, <2>2 DEF TakenOnce, Input
  <1> QED
    BY <1>10, <1>11, <1>15

\* An output names what its segment holds, which no output names yet and no
\* later pull takes.
LEMMA OutputAppends ==
    ASSUME LoopTypes, LoopShape, ChainOrdered, TakenOnce, OneOutput, CommitsOutput
    PROVE  ChainOrdered' /\ TakenOnce' /\ OneOutput'
  <1>0a. PICK last \in Nat : last = Len(chain) + 1
    BY LenProperties DEF LoopTypes
  <1>0. /\ caller' = caller /\ cursor' = cursor /\ flying' = flying /\ drawn' = drawn
        /\ loop = "committing" /\ loop' = "settling" /\ drawn = {}
    BY DEF CommitsOutput, Inside, At, book, LoopShape
  <1>1. /\ Len(chain) \in Nat /\ DOMAIN chain = 1..Len(chain) /\ DOMAIN chain' = 1..last
        /\ \A at \in DOMAIN chain : chain'[at] = chain[at]
        /\ chain'[last] = Output(flying)
    <2>1. Output(flying) \in Facts
      BY DEF Output, Facts, LoopTypes
    <2> QED
      BY <1>0a, <2>1, Appended DEF CommitsOutput, LoopTypes
  <1>2. \A at \in DOMAIN chain' : at \in DOMAIN chain \/ at = last
    BY <1>1, <1>0a
  <1>3. \A at \in DOMAIN chain : at \in DOMAIN chain' /\ at \in Nat /\ at < last
    BY <1>1, <1>0a
  <1>4. \A i : Names(last, i)' <=> i \in flying
    BY <1>1 DEF Names, Output
  <1>5. \A at \in DOMAIN chain : \A i : Names(at, i)' <=> Names(at, i)
    BY <1>1 DEF Names
  <1>6. \A i : chain'[last] # Input(i)
    BY <1>1 DEF Input, Output
  <1>7. ASSUME NEW i \in flying
        PROVE  /\ i \in Inputs /\ ~Answered(i) /\ Unread(i) = {}
               /\ \E at \in DOMAIN chain : chain[at] = Input(i)
    BY <1>0 DEF TakenOnce, LoopTypes
  <1>8. ChainOrdered'
    <2>1. ASSUME NEW i \in Inputs, Ahead(i)', NEW at \in DOMAIN chain' PROVE i \notin chain'[at].of
      <3>1. Ahead(i)
        BY <1>0, <2>1 DEF Ahead
      <3>2. i \notin flying
        BY <1>7, <3>1 DEF ChainOrdered, Ahead, Input
      <3> QED
        BY <1>1, <1>2, <3>1, <3>2 DEF ChainOrdered, Ahead, Output
    <2>2. ASSUME NEW i \in Inputs, NEW p \in DOMAIN chain', NEW q \in DOMAIN chain',
                 chain'[p] = Input(i), chain'[q] = Input(i)
          PROVE  p = q
      BY <1>1, <1>2, <1>6, <2>2 DEF ChainOrdered
    <2>3. ASSUME NEW i \in Inputs, NEW p \in DOMAIN chain', Names(p, i)'
          PROVE  \E at \in DOMAIN chain' : at < p /\ chain'[at] = Input(i)
      <3>1. CASE p = last
        BY <1>1, <1>3, <1>4, <1>7, <2>3, <3>1
      <3>2. CASE p # last
        <4>1. p \in DOMAIN chain /\ Names(p, i)
          BY <1>2, <1>5, <2>3, <3>2
        <4>2. PICK at \in DOMAIN chain : at < p /\ chain[at] = Input(i)
          BY <4>1 DEF ChainOrdered
        <4> QED
          BY <1>1, <1>3, <4>2
      <3> QED
        BY <3>1, <3>2
    <2> QED
      BY <2>1, <2>2, <2>3 DEF ChainOrdered, Ahead, Input
  <1>9. OneOutput'
    <2>1. \A i \in flying : \A at \in DOMAIN chain : ~Names(at, i)
      BY <1>7 DEF Answered, Names
    <2> QED
      BY <1>2, <1>4, <1>5, <2>1 DEF OneOutput
  <1>10. \A i : Unread(i)' = Unread(i)
    BY <1>0, <1>1, <1>2, <1>3, <1>6 DEF Unread, Input
  <1>11. ASSUME NEW i \in Inputs, Unread(i)' # {} PROVE ~Answered(i)'
    <2>1. ~Answered(i) /\ i \notin flying
      BY <1>0, <1>7, <1>10, <1>11 DEF TakenOnce
    <2> QED
      BY <1>1, <1>2, <1>4, <2>1 DEF Answered, Names
  <1>12. TakenOnce'
    <2>1. \A i \in flying' \union drawn' :
             Unread(i)' = {} /\ \E at \in DOMAIN chain' : chain'[at] = Input(i)
      BY <1>0, <1>1, <1>3, <1>7, <1>10
    <2> QED
      BY <1>0, <1>11, <2>1 DEF TakenOnce, Input
  <1> QED
    BY <1>8, <1>9, <1>12

LEMMA AnswersStep ==
    ConsumerInv /\ [Next]_vars => ChainOrdered' /\ TakenOnce' /\ OneOutput'
  <1> SUFFICES ASSUME ConsumerInv, [Next]_vars
               PROVE  ChainOrdered' /\ TakenOnce' /\ OneOutput'
    OBVIOUS
  <1> USE DEF ConsumerInv
  <1>1. ASSUME NEW j \in Inputs, Invoke(j) \/ Signals(j) \/ GivesBack(j) \/ WaitAnswer(j)
        PROVE  ChainOrdered' /\ TakenOnce' /\ OneOutput'
    <2>1. \A i \in Inputs : Ahead(i)' => Ahead(i)
      BY <1>1 DEF Invoke, Signals, GivesBack, WaitAnswer, Go, Ahead, LoopTypes
    <2>2. /\ chain' = chain /\ cursor' = cursor /\ loop' = loop
          /\ flying' = flying /\ drawn' = drawn
      BY <1>1 DEF Invoke, Signals, GivesBack, WaitAnswer, Outside, book, segment
    <2> QED
      BY <2>1, <2>2, ChainStays, TakenStays
  <1>2. ASSUME NEW j \in Inputs, Lands(j)
        PROVE  ChainOrdered' /\ TakenOnce' /\ OneOutput'
    <2>1. /\ Ahead(j) /\ UNCHANGED <<loop, cursor, flying, drawn>>
      BY <1>2 DEF Lands, Go, Ahead, Outside, book, segment
    <2>2. CASE chain' = Append(chain, Input(j)) /\ caller' = [caller EXCEPT ![j] = "landed"]
      BY <2>1, <2>2, LandingAppends
    <2>3. CASE chain' = chain
      <3>1. \A i \in Inputs : Ahead(i)' => Ahead(i)
        BY <1>2 DEF Lands, Go, Ahead, LoopTypes
      <3> QED
        BY <2>1, <2>3, <3>1, ChainStays, TakenStays
    <2> QED
      BY <1>2, <2>2, <2>3 DEF Lands, Go
  <1>3. ASSUME NEW j \in Inputs, Ensure(j)
        PROVE  ChainOrdered' /\ TakenOnce' /\ OneOutput'
    <2>1. chain' = chain /\ \A i \in Inputs : Ahead(i)' => Ahead(i)
      BY <1>3 DEF Ensure, Go, Ahead, LoopTypes
    <2> QED
      BY <1>3, <2>1, ChainStays, MountTakes
  <1>4. CASE CommitsOutput
    BY <1>4, OutputAppends
  <1>5. CASE Pulls \/ Drives
    <2>1. chain' = chain /\ caller' = caller
      BY <1>5 DEF Pulls, Drives, Inside
    <2> QED
      BY <1>5, <2>1, ChainStays, PullTakes DEF Ahead
  <1>6. CASE \/ Boots \/ Takes \/ BeginsPass \/ Continues \/ OpensSegment \/ DecidesAgain
             \/ DecidesLast \/ ClosesFailed \/ Settles \/ Confirms \/ Leaves \/ Ends
    <2>1. chain' = chain /\ caller' = caller /\ cursor' = cursor
      BY <1>6 DEF Boots, Takes, BeginsPass, Continues, OpensSegment, DecidesAgain, DecidesLast,
             ClosesFailed, Settles, Confirms, Leaves, Ends, settle, Inside, book
    <2>2. /\ loop # "none" /\ flying' \union drawn' \subseteq flying \union drawn
          /\ loop' # "settling" => loop # "settling" \/ flying' \union drawn' = {}
      BY <1>6 DEF Boots, Takes, BeginsPass, Continues, OpensSegment, DecidesAgain, DecidesLast,
             ClosesFailed, Settles, Confirms, Leaves, Ends, settle, At, segment, LoopShape
    <2> QED
      BY <2>1, <2>2, ChainStays, TakenStays DEF Ahead
  <1>7. CASE Quiesce \/ Close \/ UNCHANGED vars
    <2>1. /\ chain' = chain /\ caller' = caller /\ cursor' = cursor /\ loop' = loop
          /\ flying' = flying /\ drawn' = drawn
      BY <1>7 DEF Quiesce, Close, ReadsInputs, ReadsWriters, Judges, Awaits, Expires, Stops,
             Joins, JudgesRun, Beside, segment, book, vars
    <2> QED
      BY <2>1, ChainStays, TakenStays DEF Ahead
  <1>8. CASE Restart
    <2>1. /\ chain' = chain /\ loop' = "none" /\ flying' = {} /\ drawn' = {}
          /\ \A i \in Inputs : Ahead(i)' => Ahead(i)
      BY <1>8 DEF Restart, Boot, Ahead
    <2> QED
      BY <2>1, ChainStays DEF TakenOnce
  <1> QED
    BY <1>1, <1>2, <1>3, <1>4, <1>5, <1>6, <1>7, <1>8 DEF Next, Caller, Loop

-----------------------------------------------------------------------------
(* The theorems.                                                           *)

LEMMA ConsumerInitial == Init => ConsumerInv
  <1> SUFFICES ASSUME Init PROVE ConsumerInv
    OBVIOUS
  <1>1. DOMAIN chain = {} /\ flying = {} /\ drawn = {} /\ loop = "none" /\ passes = 0
    BY DEF Init
  <1>2. Cardinality(Queued) \in Nat
    BY InputsAssumption, FS_Subset, FS_CardinalityType DEF Queued
  <1> QED
    BY <1>1, <1>2, LoopInitial
       DEF ConsumerInv, PassesCounted, ChainOrdered, TakenOnce, OneOutput

LEMMA ConsumerStep == ConsumerInv /\ [Next]_vars => ConsumerInv'
  BY LoopStep, PassesStep, AnswersStep DEF ConsumerInv

LEMMA ConsumerInductive == Spec => []ConsumerInv
  BY ConsumerInitial, ConsumerStep, PTL DEF Spec

\* The types of the consumer, the invocations and the close: among them that
\* the passes on the queue never outgrow the invocations (consumer.go Wake).
THEOREM TypeCorrect == Spec => []TypeOK
  <1>1. ConsumerInv => TypeOK
    <2> SUFFICES ASSUME ConsumerInv PROVE TypeOK
      OBVIOUS
    <2>1. \A at \in DOMAIN chain :
             chain[at].kind \in {"input", "output"} /\ chain[at].of \subseteq Inputs
      <3>1. \A at \in DOMAIN chain : chain[at] \in Facts
        BY LenProperties, ElementOfSeq DEF ConsumerInv, LoopTypes
      <3> QED
        BY <3>1 DEF Facts
    <2>2. passes \in 0..(Cardinality(Inputs) + 1)
      <3>1. /\ Cardinality(Queued) \in Nat /\ Cardinality(Inputs) \in Nat
            /\ Cardinality(Queued) <= Cardinality(Inputs)
        BY InputsAssumption, FS_Subset, FS_CardinalityType DEF Queued
      <3> QED
        BY <3>1 DEF ConsumerInv, LoopTypes, PassesCounted
    <2>3. /\ drawn # {} => flying = {}
          /\ writer => busy
          /\ flying # {} => busy \/ stopped
          /\ stopped => closed
      BY DEF ConsumerInv, LoopShape, Driven, Passing
    <2> QED
      BY <2>1, <2>2, <2>3 DEF TypeOK, ConsumerInv, LoopTypes
  <1> QED
    BY <1>1, ConsumerInductive, PTL

\* No input is answered by two segments, whatever ended between them: the
\* process, its commit or the wait (consumer.go pullDriving).
THEOREM OneAnswerCorrect == Spec => []OneAnswer
  <1>1. ConsumerInv => OneAnswer
    <2> SUFFICES ASSUME ConsumerInv, NEW i \in Inputs
                 PROVE  Cardinality({at \in DOMAIN chain :
                            chain[at].kind = "output" /\ i \in chain[at].of}) <= 1
      BY DEF OneAnswer
    <2> DEFINE outs == {at \in DOMAIN chain : chain[at].kind = "output" /\ i \in chain[at].of}
    <2>1. outs = {} \/ \E p : outs = {p}
      BY DEF ConsumerInv, OneOutput, Names
    <2>2. Cardinality(outs) = 0 \/ Cardinality(outs) = 1
      BY <2>1, FS_EmptySet, FS_Singleton
    <2> QED
      BY <2>2
  <1> QED
    BY <1>1, ConsumerInductive, PTL

\* The quiesce never answers a run at rest over a segment that flies or a
\* writer that has not confirmed, though it reads them one after the other
\* (host.go Quiesce).
THEOREM NoRestCorrect == Spec => NoRestInFlight
  <1>1. ConsumerInv /\ [Next]_vars =>
           (closer = "loops" /\ report' = "quiesced" /\ closer' = "judged" => flying = {} /\ ~writer)
    <2> SUFFICES ASSUME ConsumerInv, [Next]_vars,
                        closer = "loops", report' = "quiesced", closer' = "judged"
                 PROVE  flying = {} /\ ~writer
      OBVIOUS
    <2>1. Judges
      BY DEF Next, Invoke, Caller, Lands, Ensure, Signals, GivesBack, WaitAnswer, Outside, Loop,
             Boots, Takes, BeginsPass, Pulls, Continues, OpensSegment, Drives, DecidesAgain,
             DecidesLast, ClosesFailed, CommitsOutput, Settles, Confirms, Leaves, Ends, Inside,
             Quiesce, Close, ReadsInputs, ReadsWriters, Awaits, Expires, Stops, Joins, JudgesRun,
             Moves, close, vars, Restart, Boot
    <2>2. LoopsRest
      BY <2>1 DEF Judges
    <2> QED
      BY <2>2 DEF LoopsRest, Resting, ConsumerInv, LoopShape, Driven, Passing
  <1> QED
    BY <1>1, ConsumerInductive, PTL DEF Spec, NoRestInFlight
=============================================================================
