---------------------------- MODULE HostDelivery ----------------------------
(***************************************************************************)
(* The delivery ledger of the host (assembly/host_delivery.go).  The bodies*)
(* one turn generated become delivery records, leave through the review and*)
(* the channel, and wait in the review table when the one holds them or the*)
(* other refuses them; callers approve or refuse what waits.  Four faces   *)
(* deliver: the live one behind the closed segment, the hand-off of the    *)
(* settle driver, the boot, and an approval.  A turn that answers a notice *)
(* is settled as well, which registers its bodies and sends none.  They    *)
(* share the records and the table and no lock spans their steps.          *)
(***************************************************************************)
EXTENDS Integers, FiniteSets, FiniteSetsExt

CONSTANTS
    Bodies,      \* the assistant bodies of the turn
    Failures,    \* failure notices: bodies no generation registered
    Callers,     \* callers of ApproveDelivery and RefuseDelivery
    Nil,
    MaxFaults,   \* bound: calls of the tier that fail
    MaxStops     \* bound: stops of the process

ASSUME BodiesAssumption ==
    /\ IsFiniteSet(Bodies) /\ IsFiniteSet(Failures)
    /\ Bodies \intersect Failures = {} /\ Nil \notin Bodies \union Failures
ASSUME IdsAssumption == Bodies \intersect Nat = {} /\ Nil \notin Nat
ASSUME BoundsAssumption == MaxFaults \in Nat /\ MaxStops \in Nat

VARIABLES
    memory,      \* the delivery records a read answers
    disk,        \* the ones a new process reads
    pending,     \* Host.pendingDeliveries: the body under each identity
    heldSeq,     \* Host.heldSeq
    actors,      \* what each face and each caller is doing
    sender,      \* Host.sender is configured
    noticed,     \* the turn answers a notice, and completed
    answered,    \* the live face has run, or was lost with its process
    seat,        \* the mailbox entry of the notice
    landed,      \* its attempt carries the terminal of the turn
    atEntry,     \* the address of the turn is the entry in effect
    reported,    \* the failure notices delivered so far
    stranded,    \* history: bodies left owed behind the live face of their process
    phase, faults, stops,
    accepted,    \* history: bodies the channel accepted
    registered,  \* history: bodies whose registration was confirmed
    refusals,    \* history: identities a caller asked to refuse
    decisions    \* history: decisions answered no error, and whether anything ran beside

store == <<memory, disk>>
table == <<pending, heldSeq>>
turn  == <<sender, noticed, answered, seat, landed, atEntry, reported, stranded>>
past  == <<accepted, registered, refusals, decisions>>
vars  == <<store, table, actors, turn, phase, faults, stops, past>>

LocalIds == 1..Cardinality(Failures)
Ids == Bodies \union LocalIds
Faces == {"live", "handoff", "boot"}
Registrars == {"live", "handoff", "settle"}
ASSUME CallersAssumption == Callers \intersect (Faces \union Registrars) = {}
Actors == Faces \union Registrars \union Callers

NoRecord == [status |-> "none", body |-> Nil]
Record(body, status) == [status |-> status, body |-> body]
Resting == [pc |-> "idle", todo |-> {}, owed |-> {}, id |-> Nil, body |-> Nil,
            status |-> "none", staged |-> FALSE, alone |-> FALSE]

NoRecords == [id \in Ids |-> NoRecord]
NoPending == [id \in Ids |-> Nil]

\* The process serves one turn that answered, or turns that fail.  A user turn is
\* refused without a sender; the turn of a notice is not.
Init ==
    /\ memory = NoRecords /\ disk = NoRecords
    /\ pending = NoPending /\ heldSeq = 0
    /\ actors = [a \in Actors |-> Resting]
    /\ \/ noticed \in BOOLEAN /\ answered = FALSE /\ reported = Failures
       \/ noticed = FALSE /\ answered = TRUE /\ reported = {}
    /\ sender \in BOOLEAN /\ (noticed \/ sender)
    /\ seat = (IF noticed THEN "driven" ELSE "consumed") /\ landed = FALSE
    /\ atEntry = TRUE /\ stranded = {}
    /\ phase = "up" /\ faults = 0 /\ stops = 0
    /\ accepted = {}
    /\ registered = {} /\ refusals = {} /\ decisions = {}

At(a, pc) == actors[a].pc = pc
Go(a, pc) == actors' = [actors EXCEPT ![a].pc = pc]
Rest(a) == actors' = [actors EXCEPT ![a] = Resting]
Running == phase \in {"up", "closing"}

-----------------------------------------------------------------------------
(* Writes.  A batch the tier refused may stay in its memory, and reach the *)
(* disk with the barrier that failed or with a later one.                  *)

With(id, record) == [memory EXCEPT ![id] = record]

Stored(id, record) ==
    /\ memory' = With(id, record) /\ disk' = memory'
    /\ UNCHANGED faults

NotStored(id, record) ==
    /\ faults < MaxFaults /\ faults' = faults + 1
    /\ memory' \in {memory, With(id, record)}
    /\ disk' \in {disk, memory'}

-----------------------------------------------------------------------------
(* recordDeliveryOwed.                                                     *)

Owed == {b \in Bodies : memory[b].status = "owed"}

\* deliverClosedSegment behind the settle, and deliverFresh: an answer is turned away
\* without a sender, and beside the entry unless a user turn is in flight at its address.
\* What leaves beside the entry registers nothing.
LiveBegins ==
    /\ Running /\ ~answered /\ At("live", "idle")
    /\ answered' = TRUE
    /\ \/ /\ sender
          /\ actors' = [actors EXCEPT !["live"] =
                [Resting EXCEPT !.pc = IF atEntry THEN "enter" ELSE "deliver", !.todo = Bodies]]
          /\ UNCHANGED stranded
       \/ /\ ~sender \/ (noticed /\ ~atEntry)
          /\ stranded' = stranded \union Owed
          /\ UNCHANGED actors
    /\ UNCHANGED <<store, table, sender, noticed, seat, landed, atEntry, reported, phase, faults,
                   stops, past>>

\* settleTerminal past its marker, by the delivery face of the segment or by the pump
\* that waits for its answer.
SettleBegins ==
    /\ Running /\ noticed /\ seat = "driven"
    /\ At("settle", "idle") /\ At("boot", "idle")
    /\ actors' = [actors EXCEPT !["settle"] = [Resting EXCEPT !.pc = "attempt", !.todo = Bodies]]
    /\ UNCHANGED <<store, table, turn, phase, faults, stops, past>>

\* An attempt that was not recorded is warned of.
AttemptRecorded ==
    /\ At("settle", "attempt")
    /\ \/ landed' = TRUE /\ UNCHANGED faults
       \/ faults < MaxFaults /\ faults' = faults + 1 /\ landed' \in {landed, TRUE}
    /\ Go("settle", "enter")
    /\ UNCHANGED <<store, table, sender, noticed, answered, seat, atEntry, reported, stranded,
                   phase, stops, past>>

\* A receipt that was refused is warned of; the driver writes it again.
SettleConsumes ==
    /\ At("settle", "consume")
    /\ \/ seat' = "consumed" /\ UNCHANGED faults
       \/ faults < MaxFaults /\ faults' = faults + 1 /\ seat' = "ended"
    /\ Rest("settle")
    /\ UNCHANGED <<store, table, sender, noticed, answered, landed, atEntry, reported, stranded,
                   phase, stops, past>>

\* The driver's own receipt: one that is refused leaves the seat claimed.
DriverConsumes ==
    /\ Running /\ seat = "ended"
    /\ \/ seat' = "consumed" /\ UNCHANGED faults
       \/ faults < MaxFaults /\ faults' = faults + 1 /\ seat' = "shut"
    /\ UNCHANGED <<store, table, actors, sender, noticed, answered, landed, atEntry, reported,
                   stranded, phase, stops, past>>

\* driveSeat: a seat whose attempt did not land fires its turn, which reads the answer
\* the chain holds; one whose attempt landed has its bodies handed off.
Redrive ==
    /\ Running /\ At("boot", "idle")
    /\ seat = "pending" /\ ~landed
    /\ seat' = "driven"
    /\ UNCHANGED <<store, table, actors, sender, noticed, answered, landed, atEntry, reported,
                   stranded, phase, faults, stops, past>>

HandoffBegins ==
    /\ Running /\ At("boot", "idle") /\ At("handoff", "idle")
    /\ seat = "pending" /\ landed
    /\ seat' = "handed"
    /\ actors' = [actors EXCEPT !["handoff"] = [Resting EXCEPT !.pc = "enter", !.todo = Bodies]]
    /\ UNCHANGED <<store, table, sender, noticed, answered, landed, atEntry, reported, stranded,
                   phase, faults, stops, past>>

\* A face returns; what follows the hand-off is the driver's receipt.
Leaves(a) ==
    /\ Rest(a)
    /\ seat' = IF a = "handoff" THEN "ended" ELSE seat

\* A settlement is done with its bodies.
Settled(a) == actors' = [actors EXCEPT ![a] = [Resting EXCEPT !.pc = "consume", !.todo = {}]]

\* The entry is read again here: beside it nothing is registered or sent.
Enter(a) ==
    /\ At(a, "enter")
    /\ \/ atEntry /\ Go(a, "read") /\ UNCHANGED <<seat, stranded>>
       \/ ~atEntry /\ a = "settle" /\ Settled(a) /\ UNCHANGED <<seat, stranded>>
       \/ /\ ~atEntry /\ a # "settle" /\ Leaves(a)
          /\ stranded' = stranded \union Owed
    /\ UNCHANGED <<store, table, sender, noticed, answered, landed, atEntry, reported, phase,
                   faults, stops, past>>

ReadRecord(a) ==
    /\ At(a, "read")
    /\ \E b \in actors[a].todo :
          IF memory[b] = NoRecord
          THEN actors' = [actors EXCEPT ![a].pc = "put", ![a].id = b]
          ELSE actors' = [actors EXCEPT ![a].todo = @ \ {b},
                  ![a].owed = @ \union IF memory[b].status = "owed" THEN {b} ELSE {}]
    /\ UNCHANGED <<store, table, turn, phase, faults, stops, past>>

\* The live face of the process has nothing more to do with a body.
PastLive(b) ==
    answered /\ b \notin actors["live"].todo \union actors["live"].owed \union {actors["live"].id}

PutOwed(a) ==
    /\ At(a, "put")
    /\ LET b == actors[a].id IN
          /\ memory' = With(b, Record(b, "owed"))
          /\ actors' = [actors EXCEPT ![a].pc = "read", ![a].staged = TRUE,
                           ![a].todo = @ \ {b}, ![a].owed = @ \union {b}]
          /\ stranded' = stranded \union (IF a = "settle" /\ PastLive(b) THEN {b} ELSE {})
    /\ UNCHANGED <<disk, table, sender, noticed, answered, seat, landed, atEntry, reported, phase,
                   faults, stops, past>>

\* The barrier is taken by a batch that staged a record.
SyncOwed(a) ==
    /\ At(a, "read") /\ actors[a].todo = {}
    /\ disk' = IF actors[a].staged THEN memory ELSE disk
    /\ registered' = registered \union (IF actors[a].staged THEN actors[a].owed ELSE {})
    /\ \/ a = "settle" /\ Settled(a)
       \/ /\ a # "settle"
          /\ actors' = [actors EXCEPT ![a] =
                [Resting EXCEPT !.pc = "deliver", !.todo = actors[a].owed]]
    /\ UNCHANGED <<memory, table, turn, phase, faults, stops, accepted, refusals, decisions>>

\* A refused read, write or barrier: the live face sends every body; the hand-off hands
\* its seat back; a settlement hands its marker back, to the other face or with the seat.
RegistrationFails(a) ==
    /\ \/ At(a, "put")
       \/ At(a, "read") /\ (actors[a].todo # {} \/ actors[a].staged)
    /\ faults < MaxFaults /\ faults' = faults + 1
    /\ LET b == actors[a].id
       IN  memory' \in {memory} \union (IF At(a, "put") THEN {With(b, Record(b, "owed"))} ELSE {})
    /\ disk' \in {disk, memory'}
    /\ actors' = [actors EXCEPT ![a] =
          IF a = "live" THEN [Resting EXCEPT !.pc = "deliver", !.todo = Bodies] ELSE Resting]
    /\ seat' \in IF a = "live" THEN {seat}
                 ELSE IF a = "handoff" THEN {"pending"} ELSE {seat, "pending"}
    /\ UNCHANGED <<table, sender, noticed, answered, landed, atEntry, reported, stranded, phase,
                   stops, past>>

Register(a) == Enter(a) \/ ReadRecord(a) \/ PutOwed(a) \/ SyncOwed(a) \/ RegistrationFails(a)

-----------------------------------------------------------------------------
(* deliverObligation.                                                      *)

\* The identity a parked body takes: its own, or the next local one.
ParkedId(b) == IF b \in Bodies THEN b ELSE heldSeq + 1

\* holdDelivery publishes the table entry, and the record comes behind it.  A closed
\* host parks nothing.
Parks(a, b, status) ==
    IF phase = "closing"
    THEN /\ actors' = [actors EXCEPT ![a].todo = @ \ {b}]
         /\ UNCHANGED table
    ELSE /\ pending' = [pending EXCEPT ![ParkedId(b)] = b]
         /\ heldSeq' = IF b \in Bodies THEN heldSeq ELSE heldSeq + 1
         /\ actors' = [actors EXCEPT ![a].pc = "record", ![a].todo = @ \ {b},
                          ![a].id = ParkedId(b), ![a].body = b, ![a].status = status]

\* Outcomes of the review and of the channel.
HoldBody(a) ==
    /\ At(a, "deliver") /\ sender
    /\ \E b \in actors[a].todo : Parks(a, b, "held")
    /\ UNCHANGED <<store, turn, phase, faults, stops, past>>

ChannelRefuses(a) ==
    /\ At(a, "deliver") /\ sender
    /\ \E b \in actors[a].todo : Parks(a, b, "retry")
    /\ UNCHANGED <<store, turn, phase, faults, stops, past>>

SendBody(a) ==
    /\ At(a, "deliver") /\ sender
    /\ \E b \in actors[a].todo :
          /\ accepted' = accepted \union {b}
          /\ IF b \in Bodies
             THEN actors' = [actors EXCEPT ![a].pc = "record", ![a].todo = @ \ {b},
                                ![a].id = b, ![a].body = b, ![a].status = "sent"]
             ELSE actors' = [actors EXCEPT ![a].todo = @ \ {b}]
    /\ UNCHANGED <<store, table, turn, phase, faults, stops, registered, refusals, decisions>>

\* Without a sender nothing is sent, parked or retired.
NoSender(a) ==
    /\ At(a, "deliver") /\ ~sender
    /\ \E b \in actors[a].todo : actors' = [actors EXCEPT ![a].todo = @ \ {b}]
    /\ UNCHANGED <<store, table, turn, phase, faults, stops, past>>

\* recordDeliveryState of a face: a record that is not stored is a note of its answer.
RecordState(a) ==
    /\ a \in Faces /\ At(a, "record")
    /\ LET record == Record(actors[a].body, actors[a].status) IN
          \/ Stored(actors[a].id, record)
          \/ NotStored(actors[a].id, record)
    /\ actors' = [actors EXCEPT ![a] = [Resting EXCEPT !.pc = "deliver", !.todo = actors[a].todo]]
    /\ UNCHANGED <<table, turn, phase, stops, past>>

Delivered(a) ==
    /\ At(a, "deliver") /\ actors[a].todo = {}
    /\ Leaves(a)
    /\ UNCHANGED <<store, table, sender, noticed, answered, landed, atEntry, reported, stranded,
                   phase, faults, stops, past>>

Deliver(a) ==
    \/ HoldBody(a) \/ ChannelRefuses(a) \/ SendBody(a) \/ NoSender(a)
    \/ RecordState(a) \/ Delivered(a)

\* A failed turn delivers its cause: deliverOne.
FailureBegins(f) ==
    /\ Running /\ sender /\ At("live", "idle") /\ At("boot", "idle")
    /\ f \notin reported /\ reported' = reported \union {f}
    /\ actors' = [actors EXCEPT !["live"] = [Resting EXCEPT !.pc = "deliver", !.todo = {f}]]
    /\ UNCHANGED <<store, table, sender, noticed, answered, seat, landed, atEntry, stranded, phase,
                   faults, stops, past>>

-----------------------------------------------------------------------------
(* Decisions.                                                              *)

\* Nobody else has the body of id in hand, and its hold is recorded.  The live face has
\* every body of the turn in hand until its registration returned: a refused one sends
\* them all, whatever became of them meanwhile.
Alone(id) ==
    /\ memory[id].status \in {"held", "retry"}
    /\ \A a \in Actors : actors[a].id # id /\ id \notin actors[a].todo \union actors[a].owed
    /\ answered /\ actors["live"].pc \notin {"enter", "read", "put"}

\* Mutant: the decision leaves its hold in the table.
TakeKeeping(c, id, pc) ==
    /\ phase = "up" /\ At("boot", "idle") /\ At(c, "idle")
    /\ pending[id] # Nil
    /\ actors' = [actors EXCEPT ![c] = [Resting EXCEPT !.pc = pc, !.id = id,
                     !.body = pending[id], !.alone = Alone(id)]]
    /\ UNCHANGED pending

Take(c, id, pc) ==
    /\ phase = "up" /\ At("boot", "idle") /\ At(c, "idle")
    /\ pending[id] # Nil
    /\ pending' = [pending EXCEPT ![id] = Nil]
    /\ actors' = [actors EXCEPT ![c] = [Resting EXCEPT !.pc = pc, !.id = id,
                     !.body = pending[id], !.alone = Alone(id)]]

ApproveDelivery(c, id) ==
    /\ Take(c, id, "send")
    /\ UNCHANGED <<store, heldSeq, turn, phase, faults, stops, past>>

RefuseDelivery(c, id) ==
    /\ Take(c, id, "refuse")
    /\ refusals' = refusals \union {id}
    /\ UNCHANGED <<store, heldSeq, turn, phase, faults, stops, accepted, registered, decisions>>

\* restoreHeldDelivery: the table first, then the record; nothing beside a closed host.
Restores(c, status) ==
    IF phase = "closing"
    THEN Rest(c) /\ UNCHANGED pending
    ELSE /\ pending' = [pending EXCEPT ![actors[c].id] = actors[c].body]
         /\ actors' = [actors EXCEPT ![c].pc = "restore", ![c].status = status]

ApprovedSent(c) ==
    /\ At(c, "send") /\ sender
    /\ accepted' = accepted \union {actors[c].body}
    /\ Go(c, "receipt")
    /\ UNCHANGED <<store, table, turn, phase, faults, stops, registered, refusals, decisions>>

\* The channel refuses it, or no sender is configured.
ApprovedRefused(c) ==
    /\ At(c, "send")
    /\ Restores(c, "retry")
    /\ UNCHANGED <<store, heldSeq, turn, phase, faults, stops, past>>

Decided(c, verdict) ==
    decisions' = decisions \union
        {[id |-> actors[c].id, verdict |-> verdict, alone |-> actors[c].alone]}

ApprovalRecorded(c) ==
    /\ At(c, "receipt")
    /\ Stored(actors[c].id, Record(actors[c].body, "sent"))
    /\ Rest(c) /\ Decided(c, "sent")
    /\ UNCHANGED <<table, turn, phase, stops, accepted, registered, refusals>>

RefusalRecorded(c) ==
    /\ At(c, "refuse")
    /\ Stored(actors[c].id, Record(actors[c].body, "refused"))
    /\ Go(c, "audit")
    /\ UNCHANGED <<table, turn, phase, stops, past>>

\* A receipt, or a refusal, the tier did not take.
DecisionNotRecorded(c) ==
    /\ At(c, "receipt") \/ At(c, "refuse")
    /\ NotStored(actors[c].id,
          Record(actors[c].body, IF At(c, "receipt") THEN "sent" ELSE "refused"))
    /\ Restores(c, "held")
    /\ UNCHANGED <<heldSeq, turn, phase, stops, past>>

AuditCommitted(c) ==
    /\ At(c, "audit")
    /\ Rest(c) /\ Decided(c, "refused")
    /\ UNCHANGED <<store, table, turn, phase, faults, stops, accepted, registered, refusals>>

AuditRefused(c) ==
    /\ At(c, "audit")
    /\ faults < MaxFaults /\ faults' = faults + 1
    /\ Restores(c, "held")
    /\ UNCHANGED <<store, heldSeq, turn, phase, stops, past>>

RestoreRecorded(c) ==
    /\ At(c, "restore")
    /\ LET record == Record(actors[c].body, actors[c].status) IN
          \/ Stored(actors[c].id, record)
          \/ NotStored(actors[c].id, record)
    /\ Rest(c)
    /\ UNCHANGED <<table, turn, phase, stops, past>>

Decide(c) ==
    \/ \E id \in Ids : ApproveDelivery(c, id) \/ RefuseDelivery(c, id)
    \/ ApprovedSent(c) \/ ApprovedRefused(c) \/ ApprovalRecorded(c)
    \/ RefusalRecorded(c) \/ DecisionNotRecorded(c)
    \/ AuditCommitted(c) \/ AuditRefused(c) \/ RestoreRecorded(c)

-----------------------------------------------------------------------------
(* The process.                                                            *)

\* A reload moves the entry away from the address.
EntryMoves ==
    /\ phase = "up" /\ atEntry
    /\ atEntry' = FALSE
    /\ UNCHANGED <<store, table, actors, sender, noticed, answered, seat, landed, reported, stranded,
                   phase, faults, stops, past>>

Quiesce ==
    /\ phase = "up"
    /\ phase' = "closing"
    /\ UNCHANGED <<store, table, actors, turn, faults, stops, past>>

\* A crash at any step, or the end of a close.
Stop ==
    /\ Running /\ stops < MaxStops
    /\ stops' = stops + 1
    /\ phase' = "down"
    /\ actors' = [a \in Actors |-> Resting]
    /\ pending' = NoPending /\ heldSeq' = 0
    /\ answered' = TRUE
    /\ seat' = IF seat = "consumed" THEN seat ELSE "pending"
    /\ UNCHANGED <<store, sender, noticed, landed, atEntry, reported, stranded, faults, past>>

Waits(id) == disk[id].status \in {"held", "retry"}
\* Mutant: the boot restores the holds alone.
NothingOwedAtBoot == {}
OwedAtBoot == {id \in Bodies : disk[id].status = "owed"}

\* Mutants: the sequence starts over; it skips one identity.
RestoredFromZero == 0
RestoredPast == 1 + Max({0} \union {id \in LocalIds : disk[id] # NoRecord})

\* restorePendingDeliveries: the table and the sequence behind its identities, then the
\* owed bodies one by one, sent at the entry and retired elsewhere.  The new process may
\* be configured with a sender or without.
RestoredSeq == Max({0} \union {id \in LocalIds : disk[id] # NoRecord})

Restart ==
    /\ phase = "down"
    /\ phase' = "up"
    /\ memory' = disk
    /\ pending' = [id \in Ids |-> IF Waits(id) THEN disk[id].body ELSE Nil]
    /\ heldSeq' = RestoredSeq
    /\ actors' = [actors EXCEPT !["boot"] =
          [Resting EXCEPT !.pc = IF atEntry THEN "deliver" ELSE "retire", !.todo = OwedAtBoot]]
    /\ sender' \in BOOLEAN /\ stranded' = {}
    /\ UNCHANGED <<disk, noticed, answered, seat, landed, atEntry, reported, faults, stops, past>>

\* retireHeadlessDelivery: one the tier refuses stays owed.
RetireHeadless ==
    /\ At("boot", "retire")
    /\ IF actors["boot"].todo = {}
       THEN Rest("boot") /\ UNCHANGED <<store, faults>>
       ELSE \E b \in actors["boot"].todo :
              /\ \/ Stored(b, Record(b, "headless"))
                 \/ NotStored(b, Record(b, "headless"))
              /\ actors' = [actors EXCEPT !["boot"].todo = @ \ {b}]
    /\ UNCHANGED <<table, turn, phase, stops, past>>

-----------------------------------------------------------------------------
Settling == SettleBegins \/ AttemptRecorded \/ SettleConsumes

Next ==
    \/ LiveBegins \/ \E f \in Failures : FailureBegins(f)
    \/ Settling \/ HandoffBegins \/ DriverConsumes \/ Redrive
    \/ \E a \in Registrars : Register(a)
    \/ \E a \in Faces : Deliver(a)
    \/ \E c \in Callers : Decide(c)
    \/ RetireHeadless
    \/ EntryMoves \/ Quiesce \/ Stop \/ Restart

\* A face that was called runs on, the driver drives what it has not consumed, and the
\* live face runs behind the segment that closed.
Fairness ==
    /\ WF_vars(LiveBegins) /\ WF_vars(Settling)
    /\ WF_vars(HandoffBegins) /\ WF_vars(DriverConsumes) /\ WF_vars(Redrive)
    /\ \A a \in Registrars : WF_vars(Register(a))
    /\ \A a \in Faces : WF_vars(Deliver(a))
    /\ WF_vars(RetireHeadless) /\ WF_vars(Restart)

Spec == Init /\ [][Next]_vars /\ Fairness

-----------------------------------------------------------------------------
Status == {"none", "owed", "held", "retry", "sent", "refused", "headless"}
Body == Bodies \union Failures

\* Every variable has its type.
TypeOK ==
    /\ memory \in [Ids -> [status : Status, body : Body \union {Nil}]]
    /\ disk \in [Ids -> [status : Status, body : Body \union {Nil}]]
    /\ pending \in [Ids -> Body \union {Nil}]
    /\ heldSeq \in 0..Cardinality(Failures)
    /\ actors \in [Actors ->
          [pc : {"idle", "attempt", "enter", "read", "put", "deliver", "record", "retire", "send", "consume",
                 "receipt", "refuse", "audit", "restore"},
           todo : SUBSET Body, owed : SUBSET Bodies, id : Ids \union {Nil},
           body : Body \union {Nil}, status : Status, staged : BOOLEAN, alone : BOOLEAN]]
    /\ {sender, noticed, answered, landed, atEntry} \subseteq BOOLEAN
    /\ seat \in {"pending", "driven", "handed", "ended", "consumed", "shut"}
    /\ reported \subseteq Failures /\ stranded \subseteq Bodies
    /\ phase \in {"up", "closing", "down"}
    /\ faults \in 0..MaxFaults /\ stops \in 0..MaxStops
    /\ accepted \subseteq Body
    /\ registered \subseteq Bodies /\ refusals \subseteq Ids
    /\ decisions \subseteq [id : Ids, verdict : {"sent", "refused"}, alone : BOOLEAN]

\* The account tells what became of a body, at every crash point: a record reads sent
\* only over an accepted send and refused only over a caller's refusal, a registered
\* body neither sent nor given up is one a new process meets, and a local identity
\* names one body (host_delivery.go recordDeliveryState, restorePendingDeliveries).
AccountTellsTheBody ==
    /\ \A id \in Ids : \A record \in {memory[id], disk[id]} :
          /\ record.status = "sent" => record.body \in accepted
          /\ record.status = "refused" => id \in refusals
    /\ \A b \in registered :
          disk[b].status \in {"owed", "held", "retry"}
             \/ b \in accepted \/ b \in refusals \/ ~atEntry
    /\ \A id \in Ids :
          pending[id] # Nil /\ memory[id] # NoRecord => pending[id] = memory[id].body

\* A decision that was answered without an error, over a hold that was recorded and in
\* nobody else's hands, is the last word: the body waits nowhere and the disk keeps the
\* decision through every later hand-off, close, crash and boot.
CleanDecisionStands ==
    \A d \in decisions :
        d.alone => pending[d.id] = Nil /\ disk[d.id].status = d.verdict

\* A body whose obligation stands owed is on its way: while a process with a sender is up
\* and the tier answers, some face sends, parks or retires it, after a restart as well
\* (host_delivery.go:497).  Left to the next boot are the bodies the live face of their
\* process is behind already: it was turned away, or the settlement registered them late
\* (host.go:1098).
OwedLeaves ==
    \A b \in Bodies :
        (phase = "up" /\ sender /\ memory[b].status = "owed")
            ~> (memory[b].status # "owed" \/ phase # "up" \/ faults > 0 \/ b \in stranded)

=============================================================================
