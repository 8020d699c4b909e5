-------------------------- MODULE NoticeSettlement --------------------------
(***************************************************************************)
(* How a delegated task's terminal notice becomes one follow-up turn and   *)
(* one receipt, at the entry address of a host:                            *)
(*   - the pump (assembly/settle_turn.go) claims the notice's seat in the  *)
(*     mailbox, marks the attempt and fires the turn;                      *)
(*   - the resident consumer (runtime/agent/consumer.go) pulls the notice's*)
(*     material from the session chain into a segment and closes it on an  *)
(*     output fact;                                                        *)
(*   - the host settles the notice (assembly/host.go, settleTerminal) from *)
(*     whichever face gets there first: the delivery of the segment, or the*)
(*     pump that waited for its answer.                                    *)
(* The chain, the attempts, the receipts and the delivery obligations are  *)
(* durable; the rest ends with the process.                                *)
(***************************************************************************)
EXTENDS Integers, Sequences, FiniteSets, FiniteSetsExt

CONSTANTS
    Notices,    \* terminal notices of delegated tasks
    Inputs,     \* user inputs of the same address
    Nil,
    MaxBoots,   \* bound: processes
    MaxUpsets   \* bound: refused writes and turns that end without a result

ASSUME NilAssumption == Nil \notin Notices
ASSUME BoundAssumption == MaxBoots \in Nat \ {0} /\ MaxUpsets \in Nat

VARIABLES
    chain,       \* the session chain: inputs and output facts
    accepted,    \* notices AcceptNotice took
    landed,      \* notices whose delivery fact is committed
    attempt,     \* settle attempt account
    receipts,    \* consumption receipts
    registered,  \* outputs whose body has a delivery record
    sent,        \* outputs whose record says sent
    phase,       \* "up", "closing" (closed), "cut" (consumers cancelled),
                 \* "stopping" (pump cancelled), "down"
    delivering,  \* notices whose delivery fact this process has yet to commit
    seat,        \* the mailbox entry of each notice
    wake,        \* SettleDriver.wakeCh
    pump,        \* the pump goroutine
    drives,      \* drives of this process; names the barrier of the latest
    account,     \* Host.noticeAccounts, as the barrier number, 0 for none
    taken,       \* barriers whose settlement marker is set
    settling,    \* settleTerminal in progress, by face
    con,         \* the Consumer of the address
    answers,     \* Consumer.answers
    flight,      \* the flying segment and the goroutine closing it
    boot,        \* number of this process
    upsets,      \* what went wrong so far
    drove        \* history: segments of this process that consumed a key

durable == <<chain, accepted, landed, attempt, receipts, registered, sent>>
mailbox == <<delivering, seat, wake>>
host    == <<account, taken, settling>>
turns   == <<con, answers, flight, drove>>
vars == <<durable, mailbox, phase, pump, drives, host, turns, boot, upsets>>

-----------------------------------------------------------------------------
(* The chain.                                                              *)

Material(n) == <<"notice", n>>
Observation(inv) == <<"failure", inv>>
UserInput(u) == <<"input", u>>

\* The terminals a turn may end on, and the ones an attempt is landed with.
Terminals == {"completed", "failed", "cancelled", "partial"}
Landed == {"completed", "failed", "cancelled"}

IsOutput(fact) == fact.end \in Terminals
InputFact(key) == [key |-> key, ins |-> {}, inv |-> 0, end |-> "none", boot |-> 0]
OutputFact(f) ==
    [key |-> <<"output", f.inv>>, ins |-> f.ins, inv |-> f.inv, end |-> f.end,
     boot |-> boot]

InputKeys == {chain[p].key : p \in {q \in DOMAIN chain : ~IsOutput(chain[q])}}
Outputs == {p \in DOMAIN chain : IsOutput(chain[p])}
OutputsOver(key) == {p \in Outputs : key \in chain[p].ins}
LastOutput == IF Outputs = {} THEN 0 ELSE Max(Outputs)

\* startsRange: the observation of a failure drives only under its name.
StartsRange(key) == key[1] # "failure"

\* A fact commits once under its key.
Committed(key) == IF key \in InputKeys THEN chain ELSE Append(chain, InputFact(key))

\* generatedBodiesOf: a segment's number starts over in every process, and the
\* outputs of an earlier segment of that number are read as its own.
BodiesOf(inv) ==
    {p \in Outputs : /\ chain[p].end = "completed"
                     /\ chain[p].inv = inv \/ Observation(inv) \in chain[p].ins}
HandoffBodies(n) == {p \in OutputsOver(Material(n)) : chain[p].end = "completed"}

-----------------------------------------------------------------------------
(* The state of one process.                                               *)

Faces == {"pump", "segment"}
NoDrive == [pc |-> "idle", n |-> Nil, tried |-> {}, owed |-> {}]
NoSettling == [pc |-> "idle", n |-> Nil, bar |-> 0, inv |-> 0, end |-> "none",
               ok |-> FALSE]
NoFlight == [pc |-> "none", ins |-> {}, inv |-> 0, end |-> "none", err |-> FALSE,
             left |-> {}]
NoAnswer == [inv |-> 0, end |-> "none", err |-> FALSE]
NoConsumer == [mounted |-> FALSE, wake |-> FALSE, seeded |-> FALSE, read |-> {},
               taken |-> {}, named |-> {}, segs |-> 0]

\* Mutant of FreshSeats: a marked attempt is taken for a turn that still runs.
SeatsUntried ==
    [n \in Notices |-> IF n \in accepted \ receipts /\ attempt[n] # "inflight"
                       THEN "pending" ELSE "absent"]

\* RestoreOwed: every notice no receipt answers is seated again.
FreshSeats ==
    [n \in Notices |-> IF n \in accepted \ receipts THEN "pending" ELSE "absent"]

Init ==
    /\ chain = <<>>
    /\ accepted = {} /\ landed = {} /\ receipts = {}
    /\ attempt = [n \in Notices |-> "none"]
    /\ registered = {} /\ sent = {}
    /\ phase = "up"
    /\ delivering = {} /\ wake = FALSE
    /\ seat = [n \in Notices |-> "absent"]
    /\ pump = NoDrive /\ drives = 0
    /\ account = [n \in Notices |-> 0] /\ taken = {}
    /\ settling = [f \in Faces |-> NoSettling]
    /\ con = NoConsumer /\ flight = NoFlight
    /\ answers = [n \in Notices |-> NoAnswer]
    /\ drove = [n \in Notices |-> 0]
    /\ boot = 1 /\ upsets = 0

\* Open: producers and the consumer work. Closed: Host.closed is set.
Open == phase \in {"up", "closing"}
Closed == phase \in {"closing", "cut", "stopping"}

\* The context a face settles under is cancelled; a write under it is refused.
Cut(f) == IF f = "segment" THEN phase = "cut" ELSE phase = "stopping"

Upset == upsets < MaxUpsets /\ upsets' = upsets + 1
Calm == UNCHANGED upsets
\* A write under the context of face f that the storage does not take.
RefusedUnder(f) == IF Cut(f) THEN Calm ELSE Upset

-----------------------------------------------------------------------------
(* Notices and inputs arrive.                                              *)

\* Run.deliver, the first half: the mailbox books the notice.
Accept(n) ==
    /\ Open /\ n \notin accepted
    /\ accepted' = accepted \cup {n}
    /\ delivering' = delivering \cup {n}
    /\ seat' = [seat EXCEPT ![n] = "pending"]
    /\ UNCHANGED <<chain, landed, attempt, receipts, registered, sent, wake, phase,
                   pump, drives, host, turns, boot, upsets>>

\* The second half: the delivery fact commits and ObserveCommit wakes the pump.
\* A delivery a stopped process left is offered again by the close alone.
Land(n) ==
    /\ Open /\ n \in accepted \ landed
    /\ n \in delivering \/ phase = "closing"
    /\ landed' = landed \cup {n}
    /\ delivering' = delivering \ {n}
    /\ wake' = TRUE
    /\ UNCHANGED <<chain, accepted, attempt, receipts, registered, sent, seat, phase,
                   pump, drives, host, turns, boot, upsets>>

\* Host.Invoke: refused once the host is closed.
Invoke(u) ==
    /\ phase = "up" /\ UserInput(u) \notin InputKeys
    /\ chain' = Committed(UserInput(u))
    /\ con' = [con EXCEPT !.mounted = TRUE, !.wake = TRUE]
    /\ UNCHANGED <<accepted, landed, attempt, receipts, registered, sent, mailbox,
                   phase, pump, drives, host, answers, flight, drove, boot, upsets>>

-----------------------------------------------------------------------------
(* The pump.                                                               *)

PumpAt(pc) == pump.pc = pc
PumpTo(pc) == pump' = [pump EXCEPT !.pc = pc]

PumpWakes ==
    /\ PumpAt("idle") /\ wake /\ phase \notin {"stopping", "down"}
    /\ wake' = FALSE
    /\ pump' = [NoDrive EXCEPT !.pc = "drain"]
    /\ UNCHANGED <<durable, delivering, seat, phase, drives, host, turns, boot, upsets>>

\* drain: an entry pending and not tried since the wake is claimed.
Offered == {n \in Notices \ pump.tried : seat[n] = "pending"}

PumpClaims(n) ==
    /\ PumpAt("drain") /\ phase # "stopping"
    /\ n \in Offered
    /\ seat' = [seat EXCEPT ![n] = "claimed"]
    /\ pump' = [NoDrive EXCEPT !.pc = "seat", !.n = n, !.tried = pump.tried \cup {n}]
    /\ UNCHANGED <<durable, delivering, wake, phase, drives, host, turns, boot, upsets>>

PumpRests ==
    /\ PumpAt("drain")
    /\ Offered = {} \/ phase = "stopping"
    /\ pump' = NoDrive
    /\ UNCHANGED <<durable, mailbox, phase, drives, host, turns, boot, upsets>>

\* releaseSeat: back to the pending pool, unless it is consumed; the account the
\* drive registered goes with the drive.
GiveUp ==
    /\ seat' = [seat EXCEPT ![pump.n] = IF @ = "claimed" THEN "pending" ELSE @]
    /\ account' = [account EXCEPT ![pump.n] = 0]
    /\ PumpTo("drain")
    /\ UNCHANGED <<delivering, wake>>

\* driveSeat reads the delivery fact and the attempt of the entry it claimed.
PumpReads ==
    /\ PumpAt("seat")
    /\ \/ /\ pump.n \notin landed
          /\ GiveUp
       \/ /\ pump.n \in landed /\ attempt[pump.n] \in Landed
          /\ PumpTo("handoff") /\ UNCHANGED <<mailbox, account>>
       \/ /\ pump.n \in landed /\ attempt[pump.n] \notin Landed
          /\ PumpTo("mark") /\ UNCHANGED <<mailbox, account>>
    /\ UNCHANGED <<durable, phase, drives, taken, settling, turns, boot, upsets>>

\* The in-flight marker lands before any turn is driven.
PumpMarks ==
    /\ PumpAt("mark")
    /\ attempt' = [attempt EXCEPT ![pump.n] = "inflight"]
    /\ PumpTo("fire")
    /\ UNCHANGED <<chain, accepted, landed, receipts, registered, sent, mailbox, phase,
                   drives, host, turns, boot, upsets>>

PumpMarkRefused ==
    /\ PumpAt("mark") /\ Upset
    /\ GiveUp
    /\ UNCHANGED <<durable, phase, drives, taken, settling, turns, boot>>

\* fireNoticeTurn: the account is held under the key of the material, the address
\* has its consumer, and the material commits.
PumpCommits ==
    /\ PumpAt("fire") /\ phase # "stopping"
    /\ drives' = drives + 1
    /\ account' = [account EXCEPT ![pump.n] = drives + 1]
    /\ con' = IF con.mounted \/ ~Open THEN con
              ELSE [con EXCEPT !.mounted = TRUE, !.wake = chain # <<>>]
    /\ chain' = Committed(Material(pump.n))
    /\ PumpTo("drive")
    /\ UNCHANGED <<accepted, landed, attempt, receipts, registered, sent, mailbox, phase,
                   taken, settling, answers, flight, drove, boot, upsets>>

PumpCommitRefused ==
    /\ PumpAt("fire") /\ RefusedUnder("pump")
    /\ GiveUp
    /\ UNCHANGED <<durable, phase, drives, taken, settling, turns, boot>>

\* The declared scope does not reach the session: the attempt stays marked.
PumpScopeRefused ==
    /\ PumpAt("fire") /\ Upset
    /\ GiveUp
    /\ UNCHANGED <<durable, phase, drives, taken, settling, turns, boot>>

\* Mutant of Named: a fact this process already pulled is named again.
NamedAgain(key) == con.named \cup {key}

\* Drive: a fact a segment of this process took is not named again.
Named(key) == IF key \in con.taken THEN con.named ELSE con.named \cup {key}

PumpNames ==
    /\ PumpAt("drive")
    /\ \/ /\ Open
          /\ con' = [con EXCEPT !.named = Named(Material(pump.n)), !.wake = TRUE]
          /\ PumpTo("wait")
          /\ UNCHANGED <<mailbox, account>>
       \/ /\ ~Open          \* no consumer mounts on a set that stopped
          /\ GiveUp
          /\ UNCHANGED con
    /\ UNCHANGED <<durable, phase, drives, taken, settling, answers, flight, drove, boot,
                   upsets>>

\* WaitAnswer: the answer this process indexed, then the newest output fact that
\* names the key among its inputs.
AnswerOf(n) ==
    LET over == OutputsOver(Material(n))
        newest == chain[Max(over)]
    IN  IF answers[n] # NoAnswer THEN answers[n]
        ELSE IF over = {} THEN NoAnswer
        ELSE [inv |-> newest.inv, end |-> newest.end, err |-> FALSE]

\* settleTerminal: the close's own cancellation settles nothing.
CancelledByClose(end) == Closed /\ end = "cancelled"

\* Mutant of MarkerTaken: claimSettlement always answers that it took the marker.
MarkerNeverTaken(bar) == FALSE

MarkerTaken(bar) == bar \in taken

\* settleTerminal past its early returns: face f holds the marker.
Begin(f, n, bar, inv, end) ==
    /\ taken' = taken \cup {bar}
    /\ settling' = [settling EXCEPT ![f] =
           [pc |-> "attempt", n |-> n, bar |-> bar, inv |-> inv, end |-> end,
            ok |-> FALSE]]

\* The pump reads the answer it waited for and settles beside it, unless the
\* delivery of the segment holds the settlement already.
PumpAnswered ==
    /\ PumpAt("wait") /\ AnswerOf(pump.n) # NoAnswer
    /\ LET a == AnswerOf(pump.n) IN
       \/ /\ a.err \/ CancelledByClose(a.end)
          /\ GiveUp
          /\ UNCHANGED <<taken, settling>>
       \/ /\ ~a.err /\ ~CancelledByClose(a.end) /\ MarkerTaken(drives)
          /\ account' = [account EXCEPT ![pump.n] = 0]
          /\ PumpTo("consume")
          /\ UNCHANGED <<mailbox, taken, settling>>
       \/ /\ ~a.err /\ ~CancelledByClose(a.end) /\ ~MarkerTaken(drives)
          /\ Begin("pump", pump.n, drives, a.inv, a.end)
          /\ PumpTo("settle")
          /\ UNCHANGED <<mailbox, account>>
    /\ UNCHANGED <<durable, phase, drives, turns, boot, upsets>>

\* The consumer is gone, or the driver is stopped.
PumpLeft ==
    /\ PumpAt("wait")
    /\ \/ phase = "cut" /\ flight = NoFlight /\ AnswerOf(pump.n) = NoAnswer
       \/ phase = "stopping"
    /\ GiveUp
    /\ UNCHANGED <<durable, phase, drives, taken, settling, turns, boot, upsets>>

PumpSettled ==
    /\ PumpAt("settle") /\ settling["pump"].pc = "done"
    /\ settling' = [settling EXCEPT !["pump"] = NoSettling]
    /\ IF settling["pump"].ok
       THEN /\ account' = [account EXCEPT ![pump.n] = 0]
            /\ PumpTo("consume") /\ UNCHANGED mailbox
       ELSE GiveUp
    /\ UNCHANGED <<durable, phase, drives, taken, turns, boot, upsets>>

\* Mutant of PumpHandsOff: the bodies are sent before they are registered.
PumpSendsUnregistered ==
    /\ PumpAt("handoff")
    /\ pump' = [pump EXCEPT !.pc = "send", !.owed = HandoffBodies(pump.n) \ sent]
    /\ UNCHANGED <<durable, mailbox, phase, drives, host, turns, boot, upsets>>

\* handoffSettledBodies: the bodies of a turn that landed are registered before
\* the entry closes, and the ones no send discharged are sent.
PumpHandsOff ==
    /\ PumpAt("handoff")
    /\ registered' = registered \cup HandoffBodies(pump.n)
    /\ pump' = [pump EXCEPT !.pc = "send", !.owed = HandoffBodies(pump.n) \ sent]
    /\ UNCHANGED <<chain, accepted, landed, attempt, receipts, sent, mailbox, phase,
                   drives, host, turns, boot, upsets>>

PumpHandoffRefused ==
    /\ PumpAt("handoff") /\ Upset
    /\ HandoffBodies(pump.n) \ registered # {}
    /\ GiveUp
    /\ UNCHANGED <<durable, phase, drives, taken, settling, turns, boot>>

PumpSends ==
    /\ PumpAt("send")
    /\ sent' = sent \cup pump.owed
    /\ PumpTo("consume")
    /\ UNCHANGED <<chain, accepted, landed, attempt, receipts, registered, mailbox, phase,
                   drives, host, turns, boot, upsets>>

\* Consume: the receipt, then the seat; a seat nobody claims is left alone.
Consumes(n) ==
    IF seat[n] = "claimed"
    THEN /\ receipts' = receipts \cup {n}
         /\ seat' = [seat EXCEPT ![n] = "consumed"]
    ELSE UNCHANGED <<receipts, seat>>

PumpConsumes ==
    /\ PumpAt("consume")
    /\ Consumes(pump.n)
    /\ PumpTo("drain")
    /\ UNCHANGED <<chain, accepted, landed, attempt, registered, sent, delivering, wake,
                   phase, drives, host, turns, boot, upsets>>

\* A receipt that was refused is warned of: the seat stays claimed.
PumpConsumeRefused ==
    /\ PumpAt("consume") /\ seat[pump.n] = "claimed" /\ Upset
    /\ PumpTo("drain")
    /\ UNCHANGED <<durable, mailbox, phase, drives, host, turns, boot>>

-----------------------------------------------------------------------------
(* settleTerminal past the marker, run by either face.                     *)

FaceAt(f, pc) == settling[f].pc = pc
FaceTo(f, pc) == settling' = [settling EXCEPT ![f].pc = pc]

\* The step behind the attempt, by the terminal of the turn.
AfterAttempt(end) ==
    CASE end = "completed" -> "body"
      [] end = "failed"    -> "observe"
      [] end = "cancelled" -> "receipt"

\* A settlement that stops before its receipt hands the marker back.
Reopened(f) ==
    /\ settling' = [settling EXCEPT ![f].pc = "done"]
    /\ taken' = taken \ {settling[f].bar}

FaceRecords(f) ==
    /\ FaceAt(f, "attempt")
    /\ \/ Calm /\ attempt' = [attempt EXCEPT ![settling[f].n] = settling[f].end]
       \/ Upset /\ UNCHANGED attempt      \* warned of only
    /\ IF settling[f].end \in Landed
       THEN FaceTo(f, AfterAttempt(settling[f].end)) /\ UNCHANGED taken
       ELSE Reopened(f)
    /\ UNCHANGED <<chain, accepted, landed, receipts, registered, sent, mailbox, phase,
                   pump, drives, account, turns, boot>>

FaceRegisters(f) ==
    /\ FaceAt(f, "body") /\ ~Cut(f)
    /\ registered' = registered \cup BodiesOf(settling[f].inv)
    /\ FaceTo(f, "receipt")
    /\ UNCHANGED <<chain, accepted, landed, attempt, receipts, sent, mailbox, phase,
                   pump, drives, account, taken, turns, boot, upsets>>

FaceRegisterRefused(f) ==
    /\ FaceAt(f, "body") /\ RefusedUnder(f)
    /\ Reopened(f)
    /\ UNCHANGED <<durable, mailbox, phase, pump, drives, account, turns, boot>>

\* noteFailureObservation: the fact under the failed segment's number, and its
\* name to the consumer. A commit that is refused is warned of only.
FaceObserves(f) ==
    /\ FaceAt(f, "observe")
    /\ LET key == Observation(settling[f].inv) IN
       \/ /\ key \in InputKeys \/ ~Cut(f)
          /\ chain' = Committed(key)
          /\ con' = IF Open THEN [con EXCEPT !.mounted = TRUE, !.wake = TRUE,
                                             !.named = Named(key)]
                    ELSE con
          /\ Calm
       \/ /\ key \notin InputKeys /\ RefusedUnder(f)
          /\ UNCHANGED <<chain, con>>
    /\ FaceTo(f, "receipt")
    /\ UNCHANGED <<accepted, landed, attempt, receipts, registered, sent, mailbox, phase,
                   pump, drives, account, taken, answers, flight, drove, boot>>

FaceCloses(f) ==
    /\ FaceAt(f, "receipt")
    /\ \/ Calm /\ Consumes(settling[f].n)
       \/ Upset /\ seat[settling[f].n] = "claimed" /\ UNCHANGED <<receipts, seat>>
    /\ settling' = [settling EXCEPT ![f].pc = "done", ![f].ok = TRUE]
    /\ UNCHANGED <<chain, accepted, landed, attempt, registered, sent, delivering, wake,
                   phase, pump, drives, account, taken, turns, boot>>

-----------------------------------------------------------------------------
(* The consumer.                                                           *)

\* seedAnsweredLocked: the first pull of a process takes every driving fact that
\* stands before the last output as read.
SeedAnswered ==
    IF con.seeded THEN con.read
    ELSE con.read \cup {chain[p].key : p \in {q \in 1 .. (LastOutput - 1) :
                            ~IsOutput(chain[q]) /\ StartsRange(chain[q].key)}}

\* pullDriving: what starts a range and is unread, and what is named.
Pulled ==
    {key \in InputKeys : \/ key \in con.named
                         \/ StartsRange(key) /\ key \notin SeedAnswered}

\* The pull consumes the names it takes.
AfterPull ==
    [con EXCEPT !.seeded = TRUE,
                !.read = SeedAnswered \cup Pulled,
                !.taken = @ \cup Pulled,
                !.named = @ \ Pulled]

CountDrove ==
    drove' = [n \in Notices |-> drove[n] + (IF Material(n) \in Pulled THEN 1 ELSE 0)]

Consuming == con.mounted /\ Open

SegmentOpens ==
    /\ Consuming /\ con.wake /\ flight = NoFlight /\ Pulled # {}
    /\ con' = [AfterPull EXCEPT !.segs = @ + 1]
    /\ flight' = [NoFlight EXCEPT !.pc = "open", !.ins = Pulled, !.inv = con.segs + 1]
    /\ CountDrove
    /\ UNCHANGED <<durable, mailbox, phase, pump, drives, host, answers, boot, upsets>>

\* A pass that drives nothing returns to its wait.
ConsumerParks ==
    /\ Consuming /\ con.wake /\ flight = NoFlight /\ Pulled = {}
    /\ con' = [con EXCEPT !.wake = FALSE, !.seeded = chain # <<>>, !.read = SeedAnswered]
    /\ UNCHANGED <<durable, mailbox, phase, pump, drives, host, answers, flight, drove,
                   boot, upsets>>

\* driveSegment pulls again before each of its decisions.
SegmentPulls ==
    /\ Consuming /\ flight.pc = "open" /\ Pulled # {}
    /\ con' = AfterPull
    /\ flight' = [flight EXCEPT !.ins = @ \cup Pulled]
    /\ CountDrove
    /\ UNCHANGED <<durable, mailbox, phase, pump, drives, host, answers, boot, upsets>>

\* The closing decision: a result, one that carries nothing whole, or the
\* cancellation of the stop.
SegmentDecides ==
    /\ flight.pc = "open" /\ phase \in {"up", "closing", "cut"}
    /\ \E end \in Terminals :
        /\ CASE end = "partial"   -> Upset
             [] end = "cancelled" -> phase = "cut" /\ Calm
             [] OTHER             -> Calm
        /\ flight' = [flight EXCEPT !.pc = "output", !.end = end]
    /\ UNCHANGED <<durable, mailbox, phase, pump, drives, host, con, answers, drove, boot>>

\* closeSegment: the output fact names the keys the segment consumed.
SegmentCommits ==
    /\ flight.pc = "output"
    /\ chain' = Append(chain, OutputFact(flight))
    /\ flight' = [flight EXCEPT !.pc = "take"]
    /\ UNCHANGED <<accepted, landed, attempt, receipts, registered, sent, mailbox, phase,
                   pump, drives, host, con, answers, drove, boot, upsets>>

\* A decision that failed, or an output fact the ledger refused: no fact, and the
\* turn is failed.
SegmentFails ==
    /\ flight.pc \in {"open", "output"} /\ Upset
    /\ flight' = [flight EXCEPT !.pc = "take", !.end = "failed", !.err = TRUE]
    /\ UNCHANGED <<durable, mailbox, phase, pump, drives, host, con, answers, drove, boot>>

\* takeNoticeAccounts: the accounts held under the keys consumed are taken.
SegmentTakes ==
    /\ flight.pc = "take"
    /\ LET held == {n \in Notices : Material(n) \in flight.ins /\ account[n] # 0} IN
       /\ flight' = [flight EXCEPT !.pc = "faces",
                         !.left = {[n |-> n, bar |-> account[n]] : n \in held}]
       /\ account' = [n \in Notices |-> IF n \in held THEN 0 ELSE account[n]]
    /\ UNCHANGED <<durable, mailbox, phase, pump, drives, taken, settling, con, answers,
                   drove, boot, upsets>>

\* settleConsumedNotices: each account is settled, or left to the face that holds it.
SegmentSettles ==
    /\ flight.pc = "faces" /\ FaceAt("segment", "idle")
    /\ \E x \in flight.left :
       \/ /\ CancelledByClose(flight.end) \/ MarkerTaken(x.bar)
          /\ flight' = [flight EXCEPT !.left = @ \ {x}]
          /\ UNCHANGED <<taken, settling>>
       \/ /\ ~CancelledByClose(flight.end) /\ ~MarkerTaken(x.bar)
          /\ Begin("segment", x.n, x.bar, flight.inv, flight.end)
          /\ UNCHANGED flight
    /\ UNCHANGED <<durable, mailbox, phase, pump, drives, account, con, answers, drove,
                   boot, upsets>>

SegmentSettled ==
    /\ FaceAt("segment", "done")
    /\ flight' = [flight EXCEPT !.left = {x \in @ : x.n # settling["segment"].n}]
    /\ settling' = [settling EXCEPT !["segment"] = NoSettling]
    /\ UNCHANGED <<durable, mailbox, phase, pump, drives, account, taken, con, answers,
                   drove, boot, upsets>>

\* deliverFresh: the bodies are registered before they are sent; a registration
\* that is refused does not hold them back.
SegmentRegisters ==
    /\ flight.pc = "faces" /\ flight.left = {} /\ FaceAt("segment", "idle")
    /\ \/ ~Cut("segment") /\ Calm /\ registered' = registered \cup BodiesOf(flight.inv)
       \/ BodiesOf(flight.inv) # {} /\ RefusedUnder("segment") /\ UNCHANGED registered
       \/ Cut("segment") /\ BodiesOf(flight.inv) = {} /\ Calm /\ UNCHANGED registered
    /\ flight' = [flight EXCEPT !.pc = "send"]
    /\ UNCHANGED <<chain, accepted, landed, attempt, receipts, sent, mailbox, phase, pump,
                   drives, host, con, answers, drove, boot>>

\* The answer the waiters read once the delivery returned.
Indexed(end, err) ==
    answers' = [n \in Notices |-> IF Material(n) \in flight.ins
                                  THEN [inv |-> flight.inv, end |-> end, err |-> err]
                                  ELSE answers[n]]

\* The send leaves its receipt, except under a cancelled context; then the
\* answer is indexed and the address is free.
SegmentSends ==
    /\ flight.pc = "send"
    /\ IF Cut("segment") THEN UNCHANGED <<registered, sent>>
       ELSE /\ registered' = registered \cup BodiesOf(flight.inv)
            /\ sent' = sent \cup BodiesOf(flight.inv)
    /\ Indexed(flight.end, flight.err)
    /\ flight' = NoFlight
    /\ UNCHANGED <<chain, accepted, landed, attempt, receipts, mailbox, phase, pump,
                   drives, host, con, drove, boot, upsets>>

\* abandonSegment: the stop answers what it left flying and commits nothing.
SegmentAbandoned ==
    /\ phase = "cut" /\ flight.pc = "open"
    /\ Indexed("cancelled", TRUE)
    /\ flight' = NoFlight
    /\ UNCHANGED <<durable, mailbox, phase, pump, drives, host, con, drove, boot, upsets>>

-----------------------------------------------------------------------------
(* Close, crash and restart.                                               *)

\* Quiesce: input is refused and the pump reads the account once more.
CloseBegins ==
    /\ phase = "up" /\ boot < MaxBoots
    /\ phase' = "closing" /\ wake' = TRUE
    /\ UNCHANGED <<durable, delivering, seat, pump, drives, host, turns, boot, upsets>>

\* The quiesce ended, settled or cut: the consumers are cancelled and joined.
ConsumersStop ==
    /\ phase = "closing"
    /\ phase' = "cut"
    /\ UNCHANGED <<durable, mailbox, pump, drives, host, turns, boot, upsets>>

PumpStops ==
    /\ phase = "cut" /\ flight = NoFlight
    /\ phase' = "stopping"
    /\ UNCHANGED <<durable, mailbox, pump, drives, host, turns, boot, upsets>>

LoseProcess ==
    /\ phase' = "down"
    /\ delivering' = {} /\ wake' = FALSE
    /\ seat' = [n \in Notices |-> "absent"]
    /\ pump' = NoDrive /\ drives' = 0
    /\ account' = [n \in Notices |-> 0] /\ taken' = {}
    /\ settling' = [f \in Faces |-> NoSettling]
    /\ con' = NoConsumer /\ flight' = NoFlight
    /\ answers' = [n \in Notices |-> NoAnswer]
    /\ drove' = [n \in Notices |-> 0]
    /\ UNCHANGED <<durable, boot, upsets>>

Halts == phase = "stopping" /\ pump = NoDrive /\ LoseProcess

Crash == phase # "down" /\ boot < MaxBoots /\ LoseProcess

\* restorePendingDeliveries: the bodies whose record no send discharged.
OwedAtBoot == registered \ sent

\* Boot: owed bodies are sent, the owed notices are seated and the pump is woken.
Restart ==
    /\ phase = "down"
    /\ phase' = "up" /\ boot' = boot + 1
    /\ sent' = sent \cup OwedAtBoot
    /\ seat' = FreshSeats
    /\ wake' = (accepted # receipts)
    /\ UNCHANGED <<chain, accepted, landed, attempt, receipts, registered, delivering,
                   pump, drives, host, turns, upsets>>

-----------------------------------------------------------------------------

PumpNext ==
    \/ PumpWakes \/ PumpRests \/ PumpReads \/ PumpMarks \/ PumpMarkRefused
    \/ PumpCommits \/ PumpCommitRefused \/ PumpScopeRefused
    \/ PumpNames \/ PumpAnswered \/ PumpLeft
    \/ PumpSettled \/ PumpHandsOff \/ PumpHandoffRefused \/ PumpSends
    \/ PumpConsumes \/ PumpConsumeRefused
    \/ \E n \in Notices : PumpClaims(n)

FaceNext(f) ==
    FaceRecords(f) \/ FaceRegisters(f) \/ FaceRegisterRefused(f) \/ FaceObserves(f)
    \/ FaceCloses(f)

SegmentNext ==
    \/ SegmentOpens \/ ConsumerParks \/ SegmentPulls \/ SegmentDecides \/ SegmentCommits
    \/ SegmentFails \/ SegmentTakes \/ SegmentSettles \/ SegmentSettled
    \/ SegmentRegisters \/ SegmentSends \/ SegmentAbandoned

StopNext == ConsumersStop \/ PumpStops \/ Halts \/ Restart

Next ==
    \/ \E n \in Notices : Accept(n) \/ Land(n)
    \/ \E u \in Inputs : Invoke(u)
    \/ PumpNext
    \/ \E f \in Faces : FaceNext(f)
    \/ SegmentNext
    \/ CloseBegins \/ StopNext \/ Crash

\* The goroutines run, a decision returns (every model call has a timeout), a close
\* that began ends, and a host that is down is started again. Nothing makes a
\* notice, an input, a close or a crash happen.
Fairness ==
    /\ WF_vars(PumpNext)
    /\ \A f \in Faces : WF_vars(FaceNext(f))
    /\ WF_vars(SegmentNext)
    /\ WF_vars(StopNext)

Spec == Init /\ [][Next]_vars /\ Fairness

-----------------------------------------------------------------------------
(* Properties.                                                             *)

\* Every variable keeps its type.
TypeOK ==
    /\ accepted \subseteq Notices /\ landed \subseteq accepted
    /\ receipts \subseteq accepted
    /\ attempt \in [Notices -> Terminals \cup {"none", "inflight"}]
    /\ registered \subseteq Outputs /\ sent \subseteq registered
    /\ phase \in {"up", "closing", "cut", "stopping", "down"}
    /\ delivering \subseteq accepted \ landed
    /\ seat \in [Notices -> {"absent", "pending", "claimed", "consumed"}]
    /\ pump.pc \in {"idle", "drain", "seat", "mark", "fire", "drive", "wait", "settle",
                    "handoff", "send", "consume"}
    /\ pump.n \in Notices \cup {Nil} /\ pump.tried \subseteq Notices
    /\ pump.owed \subseteq registered
    /\ account \in [Notices -> 0 .. drives] /\ taken \subseteq 1 .. drives
    /\ \A f \in Faces : /\ settling[f].n \in Notices \cup {Nil}
                        /\ settling[f].bar \in 0 .. drives
    /\ con.taken \subseteq con.read /\ con.named \subseteq InputKeys
    /\ flight.ins \subseteq InputKeys /\ flight.inv \in 0 .. con.segs
    /\ boot \in 1 .. MaxBoots /\ upsets \in 0 .. MaxUpsets

\* One notice drives one segment of a process, however often its seat is handed
\* back and fired again.
OneTurnPerProcess == \A n \in Notices : drove[n] <= 1

\* The two faces of one drive never settle it at the same time.
OneFaceSettles ==
    ~ \E bar \in 1 .. drives : \A f \in Faces :
        settling[f].bar = bar /\ settling[f].pc \notin {"idle", "done"}

\* A notice whose delivery fact landed is receipted in the end, over closes and
\* crashes, as long as no write is refused and no turn ends without a result.
NoticeSettled ==
    \A n \in Notices : n \in landed ~> n \in receipts \/ upsets > 0

=============================================================================
