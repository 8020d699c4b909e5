-------------------------- MODULE SessionConsumer --------------------------
(***************************************************************************)
(* The resident loop that answers the inputs of one session address        *)
(* (runtime/agent/consumer.go, loop.go), the invocations that commit those *)
(* inputs and wait (assembly/host.go Invoke), and the close that judges    *)
(* the run at rest before it stops the loop (host.go Quiesce, Close, with  *)
(* the close of the run in invoke.go).                                     *)
(*                                                                         *)
(* The chain is durable.  The loop, its book and the waits end with the    *)
(* process; a later one mounts the address at its next invocation.  Calls, *)
(* notices and delegations keep accounts of their own (TaskRegistry,       *)
(* NoticeSettlement, Delegation): here a decision is a round, refused      *)
(* calls included, and rest is judged on inputs, writers and the loop.     *)
(***************************************************************************)
EXTENDS Integers, Sequences, FiniteSetsExt

CONSTANTS
    Inputs,        \* invocations: each commits one input
    MaxRounds,     \* decisions of a segment before its closing round
    MaxFails,      \* bound: decisions or commits that fail
    MaxProcesses   \* bound: processes over the chain

ASSUME InputsAssumption == IsFiniteSet(Inputs)

ASSUME BoundsAssumption ==
    MaxRounds \in Nat /\ MaxFails \in Nat /\ MaxProcesses \in Nat \ {0}

VARIABLES
    chain,      \* facts of the session, in commit order
    caller,     \* where each invocation stands
    loop,       \* where the goroutine of Consumer.run stands
    token,      \* Consumer.wake holds a signal
    passes,     \* Consumer.pendingPass
    busy,       \* Consumer.busy
    writer,     \* the pass is registered in the writer ledger
    drawn,      \* the driving facts of a pull, before its segment opens
    flying,     \* segment.consumed of the flying segment, {} for none
    rounds,     \* segment.rounds
    verdict,    \* how the flying segment closed, before it is settled
    read,       \* Consumer.read
    cursor,     \* Consumer.cursor, as a position of the chain
    answers,    \* Consumer.answers
    stopped,    \* Consumers.stopped, and the context of its loops has ended
    closed,     \* Host.closed
    closer,     \* where Host.Close stands
    rests,      \* what its current evaluation has read so far
    spent,      \* its timer fired
    pulse,      \* Run.progress holds a signal
    report,     \* Host.closeReport
    fails, process

segment == <<drawn, flying, rounds, verdict>>
book    == <<read, cursor, answers>>
close   == <<closed, closer, rests, spent, report>>
bounds  == <<fails, process>>
vars == <<chain, caller, loop, token, passes, busy, writer, segment, book, stopped,
          close, pulse, bounds>>

Input(i) == [kind |-> "input", of |-> {i}]
Output(ks) == [kind |-> "output", of |-> ks]
Landed == UNION {chain[at].of : at \in {k \in DOMAIN chain : chain[k].kind = "input"}}

\* outputFactOf: some output names the input.
Answered(i) == \E at \in DOMAIN chain : chain[at].kind = "output" /\ i \in chain[at].of

\* lastAnswerIndex, 0 beside no answer.
lastAnswerIndex == Max({0} \union {at \in DOMAIN chain : chain[at].kind = "output"})

\* PendingInputs: what stands past the last answer.
PendingInputs == UNION {chain[at].of : at \in (lastAnswerIndex + 1)..Len(chain)}

\* What a process holds before anything mounts.
Boot(c) ==
    /\ loop' = "none" /\ token' = FALSE /\ passes' = 0 /\ busy' = FALSE /\ writer' = FALSE
    /\ drawn' = {} /\ flying' = {} /\ rounds' = 0 /\ verdict' = "none"
    /\ read' = {} /\ cursor' = 0 /\ answers' = [i \in Inputs |-> "none"]
    /\ stopped' = FALSE
    /\ closed' = FALSE /\ closer' = "open" /\ rests' = FALSE /\ spent' = FALSE
    /\ report' = "none" /\ pulse' = FALSE /\ caller' = c

Init ==
    /\ chain = <<>> /\ caller = [i \in Inputs |-> "idle"]
    /\ loop = "none" /\ token = FALSE /\ passes = 0 /\ busy = FALSE /\ writer = FALSE
    /\ drawn = {} /\ flying = {} /\ rounds = 0 /\ verdict = "none"
    /\ read = {} /\ cursor = 0 /\ answers = [i \in Inputs |-> "none"]
    /\ stopped = FALSE
    /\ closed = FALSE /\ closer = "open" /\ rests = FALSE /\ spent = FALSE
    /\ report = "none" /\ pulse = FALSE
    /\ fails = 0 /\ process = 1

\* takePass never takes the count below zero.
takePass == passes' = IF passes > 0 THEN passes - 1 ELSE 0

\* Rest read off the queue alone.
RestingOnQueue == passes = 0 /\ ~token

\* Consumer.Resting; Consumers.Resting leaves out a loop that ended.
Resting == ~busy /\ flying = {} /\ passes = 0 /\ ~token
LoopsRest == loop \in {"none", "ended"} \/ Resting

\* A decision, a commit: each may fail, and does once the context ended.
Fails == \/ fails < MaxFails /\ fails' = fails + 1
         \/ stopped /\ UNCHANGED fails

-----------------------------------------------------------------------------
(* An invocation: Host.Invoke and invokeConsumed.                          *)

Go(i, from, to) == caller[i] = from /\ caller' = [caller EXCEPT ![i] = to]
Outside == UNCHANGED <<busy, writer, segment, stopped, close, pulse, process>>

\* The closed flag is read once, before the input is committed.
Invoke(i) ==
    /\ Go(i, "idle", IF closed THEN "refused" ELSE "admitted")
    /\ Outside /\ UNCHANGED <<chain, loop, token, passes, book, fails>>

\* commitOnly: the fact is visible to every reader of the session, or refused.
Lands(i) ==
    /\ \/ /\ Go(i, "admitted", "landed")
          /\ chain' = Append(chain, Input(i)) /\ UNCHANGED fails
       \/ /\ Go(i, "admitted", "failed")
          /\ fails < MaxFails /\ fails' = fails + 1 /\ UNCHANGED chain
    /\ Outside /\ UNCHANGED <<loop, token, passes, book>>

\* Consumers.Ensure: none beside a stopped set, and a fresh instance queues its boot
\* pass.  Wake queues a pass before its signal is sent.
Ensure(i) ==
    /\ \/ /\ stopped /\ Go(i, "landed", "refused")
          /\ UNCHANGED <<loop, passes, cursor>>
       \/ /\ ~stopped /\ Go(i, "landed", "queued")
          /\ IF loop = "none"
             THEN loop' = "mounted" /\ passes' = 2 /\ cursor' = lastAnswerIndex
             ELSE passes' = passes + 1 /\ UNCHANGED <<loop, cursor>>
    /\ Outside /\ UNCHANGED <<chain, token, read, answers, fails>>

\* The signal is sent, or merged with one that waits: a merged one gives its pass back.
Signals(i) ==
    /\ Go(i, "queued", IF token THEN "merged" ELSE "waiting")
    /\ token' = TRUE
    /\ Outside /\ UNCHANGED <<chain, loop, passes, book, fails>>

GivesBack(i) ==
    /\ Go(i, "merged", "waiting")
    /\ takePass
    /\ Outside /\ UNCHANGED <<chain, loop, token, book, fails>>

\* WaitAnswer: the index, then the output that names the input, then the end of the
\* loop.  A caller whose context ends leaves nothing behind but its wait: left out.
WaitAnswer(i) ==
    /\ \/ answers[i] # "none" /\ Go(i, "waiting", answers[i])
       \/ answers[i] = "none" /\ Answered(i) /\ Go(i, "waiting", "answered")
       \/ answers[i] = "none" /\ ~Answered(i) /\ loop = "ended" /\ Go(i, "waiting", "cut")
    /\ Outside /\ UNCHANGED <<chain, loop, token, passes, book, fails>>

Caller(i) == Lands(i) \/ Ensure(i) \/ Signals(i) \/ GivesBack(i) \/ WaitAnswer(i)

-----------------------------------------------------------------------------
(* The loop: Consumer.run, consume and driveSegment.                       *)

At(from, to) == loop = from /\ loop' = to
Inside == UNCHANGED <<caller, stopped, close, process>>

\* A chain that holds facts is read before the first wait.
Boots ==
    /\ At("mounted", IF ~stopped /\ chain # <<>> THEN "entering" ELSE "parked")
    /\ takePass
    /\ Inside /\ UNCHANGED <<chain, token, busy, writer, segment, book, pulse, fails>>

\* A buffered wake outranks the end of the context and the mark of the set; consume
\* takes its pass off the book before the loop reads as busy.
Takes ==
    /\ At("parked", "entering") /\ token
    /\ token' = FALSE
    /\ takePass
    /\ Inside /\ UNCHANGED <<chain, busy, writer, segment, book, pulse, fails>>

BeginsPass ==
    /\ At("entering", "pass")
    /\ busy' = TRUE
    /\ Inside /\ UNCHANGED <<chain, token, passes, writer, segment, book, pulse, fails>>

\* seedAnsweredLocked, at the first pull of a mount (each mount has an input to read):
\* what stands before the last answer was carried by it.
seeded == IF read = {} THEN UNION {chain[at].of : at \in 1..(lastAnswerIndex - 1)} ELSE {}

\* The pull of a mount that reads the chain from its head.
DrivingFromHead == Landed \ read

\* pullDriving: the inputs past the cursor that no pull took.
Driving ==
    {i \in Inputs \ (read \union seeded) :
        \E at \in (cursor + 1)..Len(chain) : chain[at] = Input(i)}
pullDriving ==
    /\ read' = read \union seeded \union Driving
    /\ cursor' = Len(chain)
    /\ UNCHANGED answers

\* A pull that drives nothing returns the loop to its wait.
Pulls ==
    /\ loop = "pass" /\ ~stopped /\ flying = {}
    /\ loop' = IF Driving = {} THEN "leaving" ELSE "drawn"
    /\ drawn' = Driving
    /\ pullDriving
    /\ Inside /\ UNCHANGED <<chain, token, passes, busy, writer, flying, rounds, verdict, pulse, fails>>

Continues ==
    /\ At("pass", IF stopped THEN "leaving" ELSE "driving")
    /\ stopped \/ flying # {}
    /\ Inside /\ UNCHANGED <<chain, token, passes, busy, writer, segment, book, pulse, fails>>

\* The production is registered before the segment of a pull opens.
OpensSegment ==
    /\ At("drawn", "driving")
    /\ writer' = TRUE
    /\ flying' = drawn /\ drawn' = {} /\ rounds' = 0
    /\ Inside /\ UNCHANGED <<chain, token, passes, busy, verdict, book, pulse, fails>>

\* driveSegment pulls again, so the decision reads what landed since.
Drives ==
    /\ At("driving", "deciding")
    /\ flying' = flying \union Driving
    /\ pullDriving
    /\ Inside /\ UNCHANGED <<chain, token, passes, busy, writer, drawn, rounds, verdict, pulse, fails>>

\* A round of refused calls decides again; the closing round ends the segment.
DecidesAgain ==
    /\ At("deciding", "pass")
    /\ rounds < MaxRounds /\ rounds' = rounds + 1
    /\ Inside /\ UNCHANGED <<chain, token, passes, busy, writer, drawn, flying, verdict, book, pulse, fails>>

DecidesLast ==
    /\ At("deciding", "committing")
    /\ Inside /\ UNCHANGED <<chain, token, passes, busy, writer, segment, book, pulse, fails>>

\* A decision or an output commit that fails closes the segment beside its cause.
ClosesFailed ==
    /\ loop \in {"deciding", "committing"} /\ loop' = "settling"
    /\ Fails
    /\ verdict' = "failed"
    /\ Inside /\ UNCHANGED <<chain, token, passes, busy, writer, drawn, flying, rounds, book, pulse>>

\* commitOutput records the inputs the segment consumed.
CommitsOutput ==
    /\ At("committing", "settling")
    /\ chain' = Append(chain, Output(flying))
    /\ verdict' = "answered"
    /\ Inside /\ UNCHANGED <<token, passes, busy, writer, drawn, flying, rounds, book, pulse, fails>>

\* settleSegment, through indexAnswerLocked.
settle(outcome) ==
    /\ answers' = [i \in Inputs |-> IF i \in flying THEN outcome ELSE answers[i]]
    /\ flying' = {} /\ verdict' = "none" /\ rounds' = 0
    /\ UNCHANGED <<drawn, read, cursor>>

Settles ==
    /\ At("settling", "pass")
    /\ settle(verdict) /\ pulse' = TRUE
    /\ Inside /\ UNCHANGED <<chain, token, passes, busy, writer, fails>>

\* The confirmation is never called.
ConfirmsNothing ==
    /\ At("leaving", "confirmed")
    /\ Inside /\ UNCHANGED <<chain, token, passes, busy, writer, segment, book, pulse, fails>>

\* The pass returns: its production is confirmed first, then the loop is not busy.
Confirms ==
    /\ At("leaving", "confirmed")
    /\ writer' = FALSE
    /\ Inside /\ UNCHANGED <<chain, token, passes, busy, segment, book, pulse, fails>>

\* A pass that drops the wakes that arrived beside it.
LeavesDrained ==
    /\ At("confirmed", IF stopped THEN "left" ELSE "parked")
    /\ busy' = FALSE /\ token' = FALSE /\ passes' = 0
    /\ pulse' = (pulse \/ ~stopped)
    /\ Inside /\ UNCHANGED <<chain, writer, segment, book, fails>>

Leaves ==
    /\ At("confirmed", IF stopped THEN "left" ELSE "parked")
    /\ busy' = FALSE
    /\ pulse' = (pulse \/ ~stopped)
    /\ Inside /\ UNCHANGED <<chain, token, passes, writer, segment, book, fails>>

\* abandonSegment and drainWake: a stopped loop answers its waits and drops its wakes.
Ends ==
    /\ \/ loop = "left"
       \/ loop = "parked" /\ ~token /\ stopped
    /\ loop' = "ended" /\ passes' = 0 /\ token' = FALSE
    /\ settle("cut") /\ pulse' = (pulse \/ flying # {})
    /\ Inside /\ UNCHANGED <<chain, busy, writer, fails>>

Loop ==
    \/ Boots \/ Takes \/ BeginsPass \/ Pulls \/ Continues
    \/ OpensSegment \/ Drives \/ DecidesAgain \/ DecidesLast \/ ClosesFailed
    \/ CommitsOutput \/ Settles \/ Confirms \/ Leaves \/ Ends

-----------------------------------------------------------------------------
(* The close: Host.Quiesce, then the stops, then the close of the run.     *)

Beside == UNCHANGED <<chain, caller, loop, token, passes, busy, writer, segment, book, bounds>>
Moves(from, to) == closer = from /\ closer' = to

Quiesce ==
    /\ Moves("open", "reading") /\ closed' = TRUE
    /\ Beside /\ UNCHANGED <<stopped, rests, spent, pulse, report>>

\* Run.Unsettled, the writer ledger, the loops: each is read after the other.
ReadsInputs ==
    /\ Moves("reading", "writers") /\ rests' = (PendingInputs = {})
    /\ Beside /\ UNCHANGED <<stopped, closed, spent, pulse, report>>

ReadsWriters ==
    /\ Moves("writers", "loops") /\ rests' = (rests /\ ~writer)
    /\ Beside /\ UNCHANGED <<stopped, closed, spent, pulse, report>>

Judges ==
    /\ closer = "loops"
    /\ LET rest == rests /\ LoopsRest IN
       /\ closer' = IF rest \/ spent THEN "judged" ELSE "awaiting"
       /\ report' = CASE rest -> "quiesced" [] ~rest /\ spent -> "cut" [] OTHER -> "none"
    /\ rests' = FALSE
    /\ Beside /\ UNCHANGED <<stopped, closed, spent, pulse>>

Awaits ==
    /\ Moves("awaiting", "reading") /\ pulse /\ pulse' = FALSE
    /\ Beside /\ UNCHANGED <<stopped, closed, rests, spent, report>>

Expires ==
    /\ Moves("awaiting", "reading") /\ spent' = TRUE
    /\ Beside /\ UNCHANGED <<stopped, closed, rests, pulse, report>>

\* Consumers.Stop: no instance mounts, the loops it holds are cancelled, and each is
\* joined.
Stops ==
    /\ Moves("judged", "joining")
    /\ stopped' = TRUE
    /\ Beside /\ UNCHANGED <<closed, rests, spent, pulse, report>>

Joins ==
    /\ Moves("joining", "joined") /\ loop \in {"none", "ended"}
    /\ Beside /\ UNCHANGED <<stopped, closed, rests, spent, pulse, report>>

\* Run.Close judges again, at rest or at the end of its budget; the worse report stands.
JudgesRun ==
    /\ Moves("joined", "closed")
    /\ report' = IF PendingInputs = {} /\ ~writer THEN report ELSE "cut"
    /\ Beside /\ UNCHANGED <<stopped, closed, rests, spent, pulse>>

Close ==
    \/ ReadsInputs \/ ReadsWriters \/ Judges \/ Awaits \/ Expires
    \/ Stops \/ Joins \/ JudgesRun

-----------------------------------------------------------------------------
\* A stop or a crash: the next process holds the chain alone.
Restart ==
    /\ process < MaxProcesses /\ process' = process + 1
    /\ Boot([i \in Inputs |-> IF caller[i] = "idle" THEN "idle" ELSE "gone"])
    /\ UNCHANGED <<chain, fails>>

Next ==
    \/ \E i \in Inputs : Invoke(i) \/ Caller(i)
    \/ Loop
    \/ Quiesce
    \/ Close
    \/ Restart

\* The goroutines of the loop and of the invocations run; nothing is asked of a close.
Fairness == WF_vars(Loop) /\ \A i \in Inputs : WF_vars(Caller(i))
Spec == Init /\ [][Next]_vars /\ Fairness

-----------------------------------------------------------------------------
Standing == {"idle", "refused", "admitted", "landed", "queued", "merged", "waiting"}
Over == {"answered", "failed", "cut", "refused", "gone"}

TypeOK ==
    /\ \A at \in DOMAIN chain : chain[at].kind \in {"input", "output"} /\ chain[at].of \subseteq Inputs
    /\ caller \in [Inputs -> Standing \union Over]
    /\ passes \in 0..(Cardinality(Inputs) + 1)
    /\ drawn \subseteq Inputs /\ flying \subseteq Inputs /\ read \subseteq Inputs
    /\ drawn # {} => flying = {}
    /\ writer => busy
    /\ flying # {} => busy \/ stopped
    /\ cursor \in 0..Len(chain)
    /\ answers \in [Inputs -> {"none", "answered", "failed", "cut"}]
    /\ stopped => closed

\* No input is answered by two segments, whatever ended between them: the
\* process, its commit or the wait (pullDriving and seedAnsweredLocked).
OneAnswer ==
    \A i \in Inputs :
        Cardinality({at \in DOMAIN chain : chain[at].kind = "output" /\ i \in chain[at].of}) <= 1

\* The quiesce never answers a run at rest over a segment that flies or a
\* writer that has not confirmed, though it reads them one after the other.
NoRestInFlight ==
    [][closer = "loops" /\ report' = "quiesced" /\ closer' = "judged" => flying = {} /\ ~writer]_vars

\* An admitted invocation returns: no wake is lost between the commit of the
\* input and the wait, and the end of the loop answers the wait that is left.
InvokeReturns == \A i \in Inputs : caller[i] = "admitted" ~> caller[i] \in Over

\* invoke.go:427-431: "an input this process accepted and never drove is owed a
\* drive rather than lost beside a cursor kept in memory".
NeverDrivenIsOwed ==
    closer = "closed" => \A i \in Landed : Answered(i) \/ i \in PendingInputs
=============================================================================
