------------------------- MODULE HostDeliveryProofs -------------------------
(***************************************************************************)
(* What the delivery account tells of a body and when a decision stands,   *)
(* for every set of bodies, of failure notices and of callers, any number  *)
(* of refused calls of the tier and of stops.                              *)
(***************************************************************************)
EXTENDS HostDelivery, FiniteSetTheorems, WellFoundedInduction, TLAPS

Registering == {"attempt", "enter", "read", "put"}
Deciding == {"send", "receipt", "refuse", "audit"}

\* Where each actor may stand, and what it holds there.
ActorShape(a) ==
    /\ a \in {"live", "handoff"} =>
          actors[a].pc \in {"idle", "enter", "read", "put", "deliver", "record"}
    /\ a = "settle" => actors[a].pc \in {"idle", "consume"} \union Registering
    /\ a = "boot" => actors[a].pc \in {"idle", "deliver", "record", "retire"}
    /\ a \in Callers => actors[a].pc \in {"idle", "restore"} \union Deciding
    /\ At(a, "idle") => actors[a] = Resting
    /\ At(a, "put") => actors[a].id \in actors[a].todo
    /\ actors[a].pc \in Registering => actors[a].body = Nil
    /\ actors[a].pc \in {"record", "restore"} \union Deciding =>
          actors[a].id \in Ids /\ actors[a].body \in Body
    /\ actors[a].pc \in {"record", "restore"} => actors[a].status \in {"held", "retry", "sent"}
    /\ a # "live" \/ actors[a].pc \in Registering => actors[a].todo \subseteq Bodies
Shape ==
    /\ \A a \in Actors : ActorShape(a)
    /\ phase = "down" => pending = NoPending /\ \A a \in Actors : At(a, "idle")

\* The bodies that stand under an identity: in the table, in its record, with an actor.
Held(id) == {actors[a].body : a \in {x \in Actors : actors[x].id = id}}
Names(id) == ({pending[id], memory[id].body, disk[id].body} \union Held(id)) \ {Nil}

\* An identity names one body, and a local one above the sequence names none.
NamesInv ==
    /\ \A id \in Ids : \A record \in {memory[id], disk[id]} :
          record # NoRecord => record.status # "none" /\ record.body # Nil
    /\ \A id \in Ids : \A x, y \in Names(id) : x = y
    /\ \A b \in Bodies : Names(b) \subseteq {b}
    /\ \A id \in LocalIds : phase # "down" /\ id > heldSeq => Names(id) = {}

\* Every local identity stands for a failure that was reported and left the live face.
Parked == Cardinality(reported \ actors["live"].todo)
CountInv ==
    /\ actors["live"].todo \subseteq Bodies \union reported
    /\ heldSeq <= Parked
    /\ \A id \in LocalIds : disk[id] # NoRecord => id <= Parked

\* What a record tells happened, what an actor is about to record did, and a
\* registered body keeps its record.
ActorAccount(a) ==
    /\ At(a, "record") /\ actors[a].status = "sent" => actors[a].body \in accepted
    /\ At(a, "restore") => actors[a].status # "sent"
    /\ At(a, "receipt") => actors[a].body \in accepted
    /\ actors[a].pc \in {"refuse", "audit"} => actors[a].id \in refusals
    /\ At(a, "retire") => ~atEntry
    /\ \A b \in actors[a].owed : memory[b].status # "none"
RecordAccount ==
    \A id \in Ids : \A record \in {memory[id], disk[id]} :
       /\ record.status = "sent" => record.body \in accepted
       /\ record.status = "refused" => id \in refusals
       /\ record.status = "headless" => ~atEntry
AccountInv ==
    /\ RecordAccount
    /\ \A a \in Actors : ActorAccount(a)
    /\ \A b \in Bodies : disk[b].status # "none" => memory[b].status # "none"
    /\ \A b \in registered : disk[b].status # "none"

\* An actor has a body in hand: under its identity, as one it will deliver.
InHand(a, id) ==
    \/ actors[a].id = id
    \/ id \in actors[a].owed
    \/ actors[a].pc \notin Registering /\ id \in Bodies /\ id \in actors[a].todo

\* Nobody but the actors of X will put the body back: it waits nowhere, nobody has it
\* in hand, its record tells a registration to leave it and no live face may ignore that.
Apart(id, X) ==
    /\ id \in Ids /\ pending[id] = Nil
    /\ memory[id].status \notin {"none", "owed"}
    /\ answered /\ actors["live"].pc \notin Registering
    /\ \A a \in Actors \ X : ~InHand(a, id)

\* A clean decision under way is apart; one that was answered is on the disk as well.
CleanInv ==
    /\ \A c \in Callers : actors[c].alone /\ actors[c].pc \in Deciding =>
          /\ Apart(actors[c].id, {c})
          /\ At(c, "audit") => /\ memory[actors[c].id].status = "refused"
                               /\ disk[actors[c].id].status = "refused"
    /\ \A d \in decisions : d.alone =>
          Apart(d.id, {}) /\ memory[d.id].status = d.verdict /\ disk[d.id].status = d.verdict

DeliveryInv == TypeOK /\ Shape /\ NamesInv /\ CountInv /\ AccountInv /\ CleanInv

-----------------------------------------------------------------------------
Steps == {"idle", "attempt", "enter", "read", "put", "deliver", "record", "retire", "send",
          "consume", "receipt", "refuse", "audit", "restore"}
ActorType ==
    [pc : Steps, todo : SUBSET Body, owed : SUBSET Bodies, id : Ids \union {Nil},
     body : Body \union {Nil}, status : Status, staged : BOOLEAN, alone : BOOLEAN]
RecordType == [status : Status, body : Body \union {Nil}]

LEMMA Basics ==
    /\ Cardinality(Failures) \in Nat /\ IsFiniteSet(Failures)
    /\ Bodies \subseteq Body /\ Bodies \subseteq Ids /\ Nil \notin Body /\ Nil \notin Ids
    /\ Bodies \intersect LocalIds = {} /\ LocalIds \subseteq Ids
    /\ \A b \in Body : b \notin Bodies => b \in Failures
    /\ Faces \subseteq Actors /\ Registrars \subseteq Actors /\ Callers \subseteq Actors
    /\ {"live", "handoff", "boot"} \subseteq Faces /\ "live" \in Registrars
    /\ {"handoff", "settle"} \subseteq Registrars
    /\ "live" \in Actors /\ "handoff" \in Actors /\ "boot" \in Actors /\ "settle" \in Actors
    /\ Resting \in ActorType /\ NoRecord \in RecordType
  <1>1. Cardinality(Failures) \in Nat /\ IsFiniteSet(Failures)
    BY BodiesAssumption, FS_CardinalityType
  <1>2. LocalIds \subseteq Nat
    BY <1>1 DEF LocalIds
  <1> QED
    BY <1>1, <1>2, BodiesAssumption, IdsAssumption
    DEF Body, Ids, Actors, Faces, Registrars, Resting, NoRecord, ActorType, Steps, RecordType, Status

LEMMA DeliveryInitial == Init => DeliveryInv
  <1> SUFFICES ASSUME Init PROVE DeliveryInv
    OBVIOUS
  <1> USE Basics
  <1>1. /\ memory = [id \in Ids |-> NoRecord] /\ disk = [id \in Ids |-> NoRecord]
        /\ pending = [id \in Ids |-> Nil]
        /\ actors = [a \in Actors |-> Resting]
    BY DEF Init, NoRecords, NoPending
  <1>0. /\ heldSeq = 0 /\ faults = 0 /\ stops = 0 /\ phase = "up" /\ accepted = {}
        /\ registered = {} /\ refusals = {} /\ decisions = {}
        /\ {sender, noticed, answered, landed, atEntry} \subseteq BOOLEAN
        /\ seat \in {"driven", "consumed"} /\ stranded = {}
        /\ reported = Failures \/ reported = {}
    BY DEF Init
  <1>2. TypeOK
    <2>1. /\ memory \in [Ids -> RecordType] /\ disk \in [Ids -> RecordType]
          /\ pending \in [Ids -> Body \union {Nil}] /\ actors \in [Actors -> ActorType]
      BY <1>1
    <2>2. heldSeq \in 0..Cardinality(Failures) /\ faults \in 0..MaxFaults /\ stops \in 0..MaxStops
      BY <1>0, BoundsAssumption
    <2> QED
      BY <1>0, <2>1, <2>2 DEF TypeOK, ActorType, Steps, RecordType
  <1>3. Shape
    BY <1>1 DEF Init, Shape, ActorShape, At, Resting, Registering, Deciding
  <1>4. \A id \in Ids : Names(id) = {}
    BY <1>1 DEF Names, Held, Resting, NoRecord
  <1>5. NamesInv
    BY <1>1, <1>4 DEF NamesInv
  <1>6. CountInv
    <2>1. IsFiniteSet(reported) /\ actors["live"].todo = {} /\ heldSeq = 0
      BY <1>0, <1>1, FS_EmptySet DEF Resting
    <2>2. Parked \in Nat
      BY <2>1, FS_CardinalityType, FS_Difference DEF Parked
    <2> QED
      BY <1>1, <2>1, <2>2 DEF CountInv
  <1>7. AccountInv /\ CleanInv
    BY <1>1 DEF Init, AccountInv, RecordAccount, ActorAccount, CleanInv, At, Resting, NoRecord, Deciding
  <1> QED
    BY <1>2, <1>3, <1>5, <1>6, <1>7 DEF DeliveryInv

-----------------------------------------------------------------------------
(* The identity a parked body takes.                                       *)

LEMMA ParkedFacts ==
    ASSUME TypeOK, CountInv
    PROVE  /\ IsFiniteSet(reported \ actors["live"].todo) /\ Parked \in Nat
           /\ Parked <= Cardinality(Failures) /\ heldSeq \in Nat
  <1>1. reported \ actors["live"].todo \subseteq Failures /\ IsFiniteSet(Failures)
    BY Basics DEF TypeOK
  <1> QED
    BY <1>1, Basics, FS_Subset, FS_CardinalityType DEF Parked, TypeOK

LEMMA ParksAFailure ==
    ASSUME TypeOK, CountInv, NEW f \in actors["live"].todo, f \notin Bodies
    PROVE  /\ f \in Failures /\ heldSeq + 1 \in LocalIds
           /\ Cardinality(reported \ (actors["live"].todo \ {f})) = Parked + 1
  <1> DEFINE before == reported \ actors["live"].todo
             after == reported \ (actors["live"].todo \ {f})
  <1>1. f \in reported /\ f \in Failures
    BY Basics DEF CountInv, TypeOK
  <1>2. after = before \union {f} /\ f \notin before /\ after \subseteq Failures
    BY <1>1 DEF TypeOK
  <1>3. IsFiniteSet(before) /\ heldSeq \in Nat /\ Parked \in Nat /\ Parked = Cardinality(before)
    BY ParkedFacts DEF Parked
  <1> HIDE DEF before, after
  <1>4. Cardinality(after) = Parked + 1
    BY <1>2, <1>3, FS_AddElement
  <1>5. Cardinality(after) <= Cardinality(Failures)
    BY <1>2, Basics, FS_Subset
  <1>6. heldSeq + 1 <= Cardinality(Failures) /\ heldSeq + 1 >= 1 /\ heldSeq + 1 \in Nat
    BY <1>3, <1>4, <1>5, Basics DEF CountInv
  <1>7. heldSeq + 1 \in LocalIds
    BY <1>6, Basics DEF LocalIds
  <1> QED
    BY <1>1, <1>4, <1>7 DEF after

LEMMA ParkedIdFacts ==
    ASSUME TypeOK, Shape, CountInv, NEW a \in Faces, NEW b \in actors[a].todo
    PROVE  /\ b \in Body /\ ParkedId(b) \in Ids
           /\ b \in Bodies => ParkedId(b) = b
           /\ b \notin Bodies =>
                 a = "live" /\ ParkedId(b) = heldSeq + 1 /\ heldSeq + 1 \in LocalIds
  <1>1. a \in Actors /\ b \in Body
    BY Basics DEF TypeOK, Faces
  <1>2. b \notin Bodies => a = "live"
    BY <1>1 DEF Shape, ActorShape
  <1> QED
    BY <1>1, <1>2, ParksAFailure, Basics DEF ParkedId

-----------------------------------------------------------------------------
(* The steps.                                                              *)

\* The live face delivers what the turn answered, or is turned away.
LiveDelivers ==
    /\ LiveBegins
    /\ actors' = [actors EXCEPT !["live"] =
          [Resting EXCEPT !.pc = IF atEntry THEN "enter" ELSE "deliver", !.todo = Bodies]]
LiveTurnedAway == LiveBegins /\ UNCHANGED actors

FaceBegins == \/ LiveDelivers \/ HandoffBegins \/ SettleBegins
              \/ \E f \in Failures : FailureBegins(f)
SettleStep == AttemptRecorded \/ SettleConsumes
FaceStep ==
    \/ \E a \in Registrars :
          Enter(a) \/ ReadRecord(a) \/ PutOwed(a) \/ SyncOwed(a) \/ RegistrationFails(a)
    \/ \E a \in Faces :
          HoldBody(a) \/ ChannelRefuses(a) \/ SendBody(a) \/ NoSender(a) \/ RecordState(a) \/ Delivered(a)
CallerStep ==
    \E c \in Callers :
       \/ \E id \in Ids : ApproveDelivery(c, id) \/ RefuseDelivery(c, id)
       \/ ApprovedSent(c) \/ ApprovedRefused(c) \/ ApprovalRecorded(c)
       \/ RefusalRecorded(c) \/ DecisionNotRecorded(c)
       \/ AuditCommitted(c) \/ AuditRefused(c) \/ RestoreRecorded(c)
QuietStep == LiveTurnedAway \/ DriverConsumes \/ Redrive \/ EntryMoves \/ Quiesce
RunningStep == FaceBegins \/ FaceStep \/ SettleStep \/ CallerStep \/ RetireHeadless \/ QuietStep

LEMMA EveryStep == Next => RunningStep \/ Stop \/ Restart
  <1>1. LiveBegins => LiveDelivers \/ LiveTurnedAway
    BY DEF LiveBegins, LiveDelivers, LiveTurnedAway
  <1> QED
    BY <1>1
    DEF Next, RunningStep, FaceBegins, FaceStep, SettleStep, CallerStep, QuietStep, Settling,
        Register, Deliver, Decide

LEMMA QuietFacts ==
    ASSUME QuietStep
    PROVE  /\ UNCHANGED <<memory, disk, pending, heldSeq, actors, reported, stops>>
           /\ UNCHANGED <<accepted, registered, refusals, decisions>>
           /\ (answered => answered') /\ (atEntry' => atEntry)
           /\ phase # "down" /\ phase' # "down"
  <1>1. CASE LiveTurnedAway
    BY <1>1 DEF LiveTurnedAway, LiveBegins, Running, store, table, past
  <1>2. CASE DriverConsumes \/ Redrive
    BY <1>2 DEF DriverConsumes, Redrive, Running, store, table, past
  <1>3. CASE EntryMoves \/ Quiesce
    BY <1>3 DEF EntryMoves, Quiesce, store, table, turn, past
  <1> QED
    BY <1>1, <1>2, <1>3 DEF QuietStep

StoreTypes == memory \in [Ids -> RecordType] /\ disk \in [Ids -> RecordType]
ActorTypes == actors \in [Actors -> ActorType]
TurnTypes == /\ {sender, noticed, answered, landed, atEntry} \subseteq BOOLEAN
             /\ seat \in {"pending", "driven", "handed", "ended", "consumed", "shut"}
             /\ reported \subseteq Failures /\ stranded \subseteq Bodies
ProcessTypes == /\ phase \in {"up", "closing", "down"}
                /\ faults \in 0..MaxFaults /\ stops \in 0..MaxStops
PastTypes == /\ accepted \subseteq Body /\ registered \subseteq Bodies /\ refusals \subseteq Ids
             /\ decisions \subseteq [id : Ids, verdict : {"sent", "refused"}, alone : BOOLEAN]

LEMMA TypeParts ==
    TypeOK <=> /\ StoreTypes /\ ActorTypes /\ TurnTypes /\ ProcessTypes /\ PastTypes
               /\ pending \in [Ids -> Body \union {Nil}] /\ heldSeq \in 0..Cardinality(Failures)
  BY DEF TypeOK, StoreTypes, ActorTypes, TurnTypes, ProcessTypes, PastTypes, ActorType, Steps, RecordType

LEMMA FreshActor ==
    ASSUME NEW pc \in Steps, NEW todo \in SUBSET Body
    PROVE  [Resting EXCEPT !.pc = pc, !.todo = todo] \in ActorType
  BY Basics DEF ActorType

LEMMA TakingActor ==
    ASSUME NEW pc \in Steps, NEW id \in Ids \union {Nil}, NEW body \in Body \union {Nil},
           NEW alone \in BOOLEAN
    PROVE  [Resting EXCEPT !.pc = pc, !.id = id, !.body = body, !.alone = alone] \in ActorType
  BY Basics DEF ActorType

LEMMA UpdatedActor ==
    ASSUME NEW r \in ActorType, NEW pc \in Steps, NEW todo \in SUBSET Body, NEW status \in Status
    PROVE  /\ [r EXCEPT !.pc = pc] \in ActorType
           /\ [r EXCEPT !.pc = pc, !.status = status] \in ActorType
           /\ [r EXCEPT !.todo = todo] \in ActorType
  BY DEF ActorType

-----------------------------------------------------------------------------
(* What an actor becomes, field by field.                                  *)

Only(a) == ActorTypes' /\ \A x \in Actors : x # a => actors'[x] = actors[x]

Fresh(a, pc, todo) ==
    /\ actors'[a].pc = pc /\ actors'[a].todo = todo /\ actors'[a].owed = {}
    /\ actors'[a].id = Nil /\ actors'[a].body = Nil /\ actors'[a].alone = FALSE

Rests(a) == actors'[a] = Resting /\ Fresh(a, "idle", {})

Keeps(a) == /\ actors'[a].owed = actors[a].owed /\ actors'[a].alone = actors[a].alone
Goes(a, pc) ==
    /\ actors'[a].pc = pc /\ actors'[a].todo = actors[a].todo /\ actors'[a].id = actors[a].id
    /\ actors'[a].body = actors[a].body /\ actors'[a].status = actors[a].status /\ Keeps(a)
Drops(a, b) ==
    /\ actors'[a].pc = actors[a].pc /\ actors'[a].todo = actors[a].todo \ {b}
    /\ actors'[a].id = actors[a].id /\ actors'[a].body = actors[a].body
    /\ actors'[a].status = actors[a].status /\ Keeps(a)
Records(a, b, id, status) ==
    /\ actors'[a].pc = "record" /\ actors'[a].todo = actors[a].todo \ {b}
    /\ actors'[a].id = id /\ actors'[a].body = b /\ actors'[a].status = status /\ Keeps(a)
Takes(c, id, pc) ==
    /\ actors'[c].pc = pc /\ actors'[c].todo = {} /\ actors'[c].owed = {}
    /\ actors'[c].id = id /\ actors'[c].body = pending[id] /\ actors'[c].alone = Alone(id)

LEMMA RestingFields ==
    /\ Resting \in ActorType
    /\ Resting.pc = "idle" /\ Resting.todo = {} /\ Resting.owed = {} /\ Resting.id = Nil
    /\ Resting.body = Nil /\ Resting.status = "none" /\ Resting.alone = FALSE
  BY Basics DEF Resting

LEMMA Becomes ==
    ASSUME ActorTypes, NEW a \in Actors, NEW new \in ActorType, actors' = [actors EXCEPT ![a] = new]
    PROVE  Only(a) /\ actors'[a] = new
  BY DEF ActorTypes, Only

LEMMA BecomesRested ==
    ASSUME ActorTypes, NEW a \in Actors, actors' = [actors EXCEPT ![a] = Resting]
    PROVE  Only(a) /\ Rests(a)
  BY Becomes, RestingFields DEF Rests, Fresh

LEMMA BecomesFresh ==
    ASSUME ActorTypes, NEW a \in Actors, NEW pc \in Steps, NEW todo \in SUBSET Body,
           actors' = [actors EXCEPT ![a] = [Resting EXCEPT !.pc = pc, !.todo = todo]]
    PROVE  Only(a) /\ Fresh(a, pc, todo)
  <1>1. Only(a) /\ actors'[a] = [Resting EXCEPT !.pc = pc, !.todo = todo]
    BY FreshActor, Becomes
  <1>2. actors'[a].pc = pc /\ actors'[a].todo = todo
    BY <1>1, Basics DEF ActorType
  <1>3. actors'[a].owed = Resting.owed /\ actors'[a].id = Resting.id
    BY <1>1, Basics, ZenonT(60) DEF ActorType
  <1>4. actors'[a].body = Resting.body /\ actors'[a].alone = Resting.alone
    BY <1>1, Basics, ZenonT(60) DEF ActorType
  <1> QED
    BY <1>1, <1>2, <1>3, <1>4, RestingFields DEF Fresh

LEMMA BecomesGone ==
    ASSUME ActorTypes, NEW a \in Actors, NEW pc \in Steps, actors' = [actors EXCEPT ![a].pc = pc]
    PROVE  Only(a) /\ Goes(a, pc)
  <1>1. actors[a] \in ActorType
    BY DEF ActorTypes
  <1>2. [actors[a] EXCEPT !.pc = pc] \in ActorType
    BY <1>1 DEF ActorType
  <1>3. Only(a) /\ actors'[a] = [actors[a] EXCEPT !.pc = pc]
    BY <1>2, Becomes
  <1> QED
    BY <1>1, <1>3 DEF Goes, Keeps, ActorType

LEMMA BecomesDropping ==
    ASSUME ActorTypes, NEW a \in Actors, NEW b, actors' = [actors EXCEPT ![a].todo = @ \ {b}]
    PROVE  Only(a) /\ Drops(a, b)
  <1>1. actors[a] \in ActorType /\ actors[a].todo \ {b} \in SUBSET Body
    BY DEF ActorTypes, ActorType
  <1>2. [actors[a] EXCEPT !.todo = actors[a].todo \ {b}] \in ActorType
    BY <1>1 DEF ActorType
  <1>3. Only(a) /\ actors'[a] = [actors[a] EXCEPT !.todo = actors[a].todo \ {b}]
    BY <1>2, Becomes
  <1> QED
    BY <1>1, <1>3 DEF Drops, Keeps, ActorType

LEMMA BecomesRecording ==
    ASSUME ActorTypes, NEW a \in Actors, NEW b \in Body, NEW id \in Ids, NEW status \in Status,
           actors' = [actors EXCEPT ![a].pc = "record", ![a].todo = @ \ {b}, ![a].id = id,
                         ![a].body = b, ![a].status = status]
    PROVE  Only(a) /\ Records(a, b, id, status)
  <1>1. actors[a] \in ActorType /\ actors[a].todo \ {b} \in SUBSET Body /\ "record" \in Steps
    BY DEF ActorTypes, ActorType, Steps
  <1>2. ActorTypes'
    BY <1>1 DEF ActorTypes, ActorType
  <1>3. actors'[a].pc = "record" /\ actors'[a].todo = actors[a].todo \ {b}
    BY DEF ActorTypes, ActorType
  <1>4. actors'[a].id = id /\ actors'[a].body = b
    BY DEF ActorTypes, ActorType
  <1>5. actors'[a].status = status
    BY DEF ActorTypes, ActorType
  <1>6. actors'[a].owed = actors[a].owed /\ actors'[a].alone = actors[a].alone
    BY DEF ActorTypes, ActorType
  <1>7. \A x \in Actors : x # a => actors'[x] = actors[x]
    BY DEF ActorTypes
  <1> QED
    BY <1>2, <1>3, <1>4, <1>5, <1>6, <1>7 DEF Only, Records, Keeps

LEMMA BecomesRestoring ==
    ASSUME ActorTypes, NEW c \in Actors, NEW status \in Status,
           actors' = [actors EXCEPT ![c].pc = "restore", ![c].status = status]
    PROVE  /\ Only(c) /\ actors'[c].pc = "restore" /\ actors'[c].status = status
           /\ actors'[c].todo = actors[c].todo /\ actors'[c].id = actors[c].id
           /\ actors'[c].body = actors[c].body /\ Keeps(c)
  <1>1. actors[c] \in ActorType /\ "restore" \in Steps
    BY DEF ActorTypes, Steps
  <1>2. ActorTypes'
    BY <1>1 DEF ActorTypes, ActorType
  <1>3. actors'[c].pc = "restore" /\ actors'[c].status = status
    BY DEF ActorTypes, ActorType
  <1>4. actors'[c].id = actors[c].id /\ actors'[c].body = actors[c].body
    BY DEF ActorTypes, ActorType
  <1>5. actors'[c].todo = actors[c].todo /\ Keeps(c)
    BY DEF ActorTypes, ActorType, Keeps
  <1>6. \A x \in Actors : x # c => actors'[x] = actors[x]
    BY DEF ActorTypes
  <1> QED
    BY <1>2, <1>3, <1>4, <1>5, <1>6 DEF Only

-----------------------------------------------------------------------------
(* What each step makes of the actor that takes it.                        *)

LEMMA MovesBegin ==
    ASSUME TypeOK
    PROVE  /\ LiveDelivers =>
                 Only("live") /\ \E pc \in {"enter", "deliver"} : Fresh("live", pc, Bodies)
           /\ HandoffBegins => Only("handoff") /\ Fresh("handoff", "enter", Bodies)
           /\ SettleBegins => Only("settle") /\ Fresh("settle", "attempt", Bodies)
           /\ \A f \in Failures : FailureBegins(f) => Only("live") /\ Fresh("live", "deliver", {f})
  <1> USE Basics
  <1>0. ActorTypes /\ "attempt" \in Steps /\ "enter" \in Steps /\ "deliver" \in Steps
    BY TypeParts DEF Steps
  <1>1. ASSUME LiveDelivers
        PROVE  Only("live") /\ \E pc \in {"enter", "deliver"} : Fresh("live", pc, Bodies)
    <2>1. PICK pc \in {"enter", "deliver"} :
             actors' = [actors EXCEPT !["live"] = [Resting EXCEPT !.pc = pc, !.todo = Bodies]]
      BY <1>1 DEF LiveDelivers
    <2> QED
      BY <1>0, <2>1, BecomesFresh
  <1>2. ASSUME HandoffBegins PROVE Only("handoff") /\ Fresh("handoff", "enter", Bodies)
    BY <1>0, <1>2, BecomesFresh DEF HandoffBegins
  <1>4. ASSUME SettleBegins PROVE Only("settle") /\ Fresh("settle", "attempt", Bodies)
    BY <1>0, <1>4, BecomesFresh DEF SettleBegins
  <1>3. ASSUME NEW f \in Failures, FailureBegins(f)
        PROVE  Only("live") /\ Fresh("live", "deliver", {f})
    <2>1. {f} \in SUBSET Body
      BY DEF Body
    <2> QED
      BY <1>0, <1>3, <2>1, BecomesFresh DEF FailureBegins
  <1> QED
    BY <1>1, <1>2, <1>3, <1>4

LEMMA MovesSettling ==
    ASSUME TypeOK
    PROVE  /\ AttemptRecorded => Only("settle") /\ Goes("settle", "enter")
           /\ SettleConsumes => Only("settle") /\ Rests("settle")
  <1>1. ActorTypes /\ "enter" \in Steps /\ "settle" \in Actors
    BY Basics, TypeParts DEF Steps
  <1> QED
    BY <1>1, BecomesGone, BecomesRested DEF AttemptRecorded, SettleConsumes, Go, Rest

\* A registration reads one record, or stages one.
Reads(a, b) ==
    /\ actors'[a].pc = "read" /\ actors'[a].todo = actors[a].todo \ {b}
    /\ actors'[a].owed = actors[a].owed \union (IF memory[b].status = "owed" THEN {b} ELSE {})
    /\ actors'[a].id = actors[a].id /\ actors'[a].body = actors[a].body
    /\ actors'[a].alone = actors[a].alone
Chooses(a, b) ==
    /\ actors'[a].pc = "put" /\ actors'[a].todo = actors[a].todo /\ actors'[a].id = b
    /\ actors'[a].body = actors[a].body /\ Keeps(a)
Stages(a, b) ==
    /\ actors'[a].pc = "read" /\ actors'[a].todo = actors[a].todo \ {b}
    /\ actors'[a].owed = actors[a].owed \union {b} /\ actors'[a].id = actors[a].id
    /\ actors'[a].body = actors[a].body /\ actors'[a].alone = actors[a].alone

LEMMA MovesReading ==
    ASSUME TypeOK, Shape, NEW a \in Registrars, ReadRecord(a)
    PROVE  \E b \in actors[a].todo :
              /\ b \in Bodies /\ Only(a)
              /\ \/ memory[b] = NoRecord /\ Chooses(a, b)
                 \/ memory[b] # NoRecord /\ Reads(a, b)
  <1>0. ActorTypes /\ a \in Actors /\ "put" \in Steps /\ actors[a] \in ActorType
    BY TypeParts DEF Steps, Actors, ActorTypes
  <1>1. PICK b \in actors[a].todo :
          IF memory[b] = NoRecord
          THEN actors' = [actors EXCEPT ![a].pc = "put", ![a].id = b]
          ELSE actors' = [actors EXCEPT ![a].todo = @ \ {b},
                  ![a].owed = @ \union IF memory[b].status = "owed" THEN {b} ELSE {}]
    BY DEF ReadRecord
  <1>2. b \in Bodies /\ b \in Ids
    BY <1>0, Basics DEF ReadRecord, Shape, ActorShape, At, Registering
  <1>3. CASE memory[b] = NoRecord
    <2>1. actors' = [actors EXCEPT ![a].pc = "put", ![a].id = b]
      BY <1>1, <1>3
    <2>2. ActorTypes'
      BY <1>0, <1>2, <2>1 DEF ActorTypes, ActorType
    <2>3. \A x \in Actors : x # a => actors'[x] = actors[x]
      BY <1>0, <2>1 DEF ActorTypes
    <2>4. actors'[a].pc = "put" /\ actors'[a].id = b /\ actors'[a].todo = actors[a].todo
      BY <1>0, <2>1 DEF ActorTypes, ActorType
    <2>5. actors'[a].body = actors[a].body /\ Keeps(a)
      BY <1>0, <2>1 DEF ActorTypes, ActorType, Keeps
    <2> QED
      BY <1>2, <1>3, <2>2, <2>3, <2>4, <2>5 DEF Chooses, Only
  <1>4. CASE memory[b] # NoRecord
    <2> DEFINE more == IF memory[b].status = "owed" THEN {b} ELSE {}
    <2>1. actors' = [actors EXCEPT ![a].todo = @ \ {b}, ![a].owed = @ \union more]
      BY <1>1, <1>4
    <2>2. more \subseteq Bodies
      BY <1>2
    <2> HIDE DEF more
    <2>3. ActorTypes'
      BY <1>0, <1>2, <2>1, <2>2 DEF ActorTypes, ActorType
    <2>4. \A x \in Actors : x # a => actors'[x] = actors[x]
      BY <1>0, <2>1 DEF ActorTypes
    <2>5. actors'[a].pc = actors[a].pc /\ actors'[a].todo = actors[a].todo \ {b}
      BY <1>0, <2>1 DEF ActorTypes, ActorType
    <2>6. actors'[a].owed = actors[a].owed \union more /\ actors'[a].id = actors[a].id
      BY <1>0, <2>1 DEF ActorTypes, ActorType
    <2>7. actors'[a].body = actors[a].body /\ actors'[a].alone = actors[a].alone
      BY <1>0, <2>1 DEF ActorTypes, ActorType
    <2>8. actors[a].pc = "read"
      BY DEF ReadRecord, At
    <2> QED
      BY <1>2, <1>4, <2>3, <2>4, <2>5, <2>6, <2>7, <2>8 DEF Reads, Only, more
  <1> QED
    BY <1>3, <1>4

LEMMA MovesStaging ==
    ASSUME TypeOK, Shape, NEW a \in Registrars, PutOwed(a)
    PROVE  Only(a) /\ Stages(a, actors[a].id) /\ actors[a].id \in Bodies
  <1> DEFINE b == actors[a].id
  <1>0. ActorTypes /\ a \in Actors /\ "read" \in Steps /\ actors[a] \in ActorType
    BY TypeParts DEF Steps, Actors, ActorTypes
  <1>1. b \in Bodies
    BY <1>0 DEF PutOwed, Shape, ActorShape, At, Registering
  <1>2. actors' = [actors EXCEPT ![a].pc = "read", ![a].staged = TRUE,
                      ![a].todo = @ \ {b}, ![a].owed = @ \union {b}]
    BY DEF PutOwed
  <1> HIDE DEF b
  <1>3. ActorTypes'
    BY <1>0, <1>1, <1>2, ZenonT(60) DEF ActorTypes, ActorType
  <1>4. \A x \in Actors : x # a => actors'[x] = actors[x]
    BY <1>0, <1>2 DEF ActorTypes
  <1>5. actors'[a].pc = "read" /\ actors'[a].todo = actors[a].todo \ {b}
    BY <1>0, <1>2 DEF ActorTypes, ActorType
  <1>6. actors'[a].owed = actors[a].owed \union {b} /\ actors'[a].id = actors[a].id
    BY <1>0, <1>2 DEF ActorTypes, ActorType
  <1>7. actors'[a].body = actors[a].body /\ actors'[a].alone = actors[a].alone
    BY <1>0, <1>2 DEF ActorTypes, ActorType
  <1> QED
    BY <1>1, <1>3, <1>4, <1>5, <1>6, <1>7 DEF Stages, Only, b

LEMMA MovesRegistering ==
    ASSUME TypeOK, Shape, NEW a \in Registrars
    PROVE  /\ Enter(a) =>
                 Only(a) /\ \/ Goes(a, "read")
                            \/ a = "settle" /\ Fresh(a, "consume", {})
                            \/ Rests(a)
           /\ SyncOwed(a) =>
                 Only(a) /\ \/ a = "settle" /\ Fresh(a, "consume", {})
                            \/ a # "settle" /\ Fresh(a, "deliver", actors[a].owed)
           /\ RegistrationFails(a) =>
                 Only(a) /\ (IF a = "live" THEN Fresh(a, "deliver", Bodies) ELSE Rests(a))
  <1>0. /\ ActorTypes /\ a \in Actors /\ actors[a] \in ActorType
        /\ "read" \in Steps /\ "deliver" \in Steps /\ "consume" \in Steps
    BY TypeParts DEF Steps, Actors, ActorTypes
  <1>4. ASSUME Settled(a) PROVE Only(a) /\ Fresh(a, "consume", {})
    BY <1>0, <1>4, BecomesFresh DEF Settled
  <1>1. ASSUME Enter(a)
        PROVE  Only(a) /\ (Goes(a, "read") \/ (a = "settle" /\ Fresh(a, "consume", {})) \/ Rests(a))
    <2>1. \/ actors' = [actors EXCEPT ![a].pc = "read"]
          \/ a = "settle" /\ Settled(a)
          \/ actors' = [actors EXCEPT ![a] = Resting]
      BY <1>1 DEF Enter, Leaves, Rest, Go
    <2> QED
      BY <1>0, <1>4, <2>1, BecomesGone, BecomesRested
  <1>2. ASSUME SyncOwed(a)
        PROVE  Only(a) /\ \/ a = "settle" /\ Fresh(a, "consume", {})
                          \/ a # "settle" /\ Fresh(a, "deliver", actors[a].owed)
    <2>1. actors[a].owed \in SUBSET Body
      BY <1>0, Basics DEF ActorType
    <2> QED
      BY <1>0, <1>2, <1>4, <2>1, BecomesFresh DEF SyncOwed
  <1>3. ASSUME RegistrationFails(a)
        PROVE  Only(a) /\ (IF a = "live" THEN Fresh(a, "deliver", Bodies) ELSE Rests(a))
    <2>1. CASE a = "live"
      <3>1. actors' = [actors EXCEPT ![a] = [Resting EXCEPT !.pc = "deliver", !.todo = Bodies]]
        BY <1>3, <2>1 DEF RegistrationFails
      <3> QED
        BY <1>0, <2>1, <3>1, Basics, BecomesFresh
    <2>2. CASE a # "live"
      <3>1. actors' = [actors EXCEPT ![a] = Resting]
        BY <1>3, <2>2 DEF RegistrationFails
      <3> QED
        BY <1>0, <2>2, <3>1, BecomesRested
    <2> QED
      BY <2>1, <2>2
  <1> QED
    BY <1>1, <1>2, <1>3

ParkedBy(a, b, status) ==
    \/ phase = "closing" /\ Drops(a, b) /\ pending' = pending /\ heldSeq' = heldSeq
    \/ /\ phase # "closing" /\ Records(a, b, ParkedId(b), status)
       /\ pending' = [pending EXCEPT ![ParkedId(b)] = b]
       /\ heldSeq' = IF b \in Bodies THEN heldSeq ELSE heldSeq + 1

LEMMA MovesParking ==
    ASSUME TypeOK, Shape, CountInv, NEW a \in Faces, HoldBody(a) \/ ChannelRefuses(a)
    PROVE  Only(a) /\ \E b \in actors[a].todo, status \in {"held", "retry"} : ParkedBy(a, b, status)
  <1>0. ActorTypes /\ a \in Actors /\ {"held", "retry"} \subseteq Status
    BY TypeParts DEF Actors, Status
  <1>1. PICK b \in actors[a].todo, status \in {"held", "retry"} : Parks(a, b, status)
    BY DEF HoldBody, ChannelRefuses
  <1>2. b \in Body /\ ParkedId(b) \in Ids
    BY ParkedIdFacts
  <1>3. CASE phase = "closing"
    <2>1. actors' = [actors EXCEPT ![a].todo = @ \ {b}] /\ UNCHANGED table
      BY <1>1, <1>3 DEF Parks
    <2> QED
      BY <1>0, <1>3, <2>1, BecomesDropping DEF ParkedBy, table
  <1>4. CASE phase # "closing"
    <2> DEFINE id == ParkedId(b)
    <2>1. /\ actors' = [actors EXCEPT ![a].pc = "record", ![a].todo = @ \ {b}, ![a].id = id,
                           ![a].body = b, ![a].status = status]
          /\ pending' = [pending EXCEPT ![id] = b]
          /\ heldSeq' = IF b \in Bodies THEN heldSeq ELSE heldSeq + 1
      BY <1>1, <1>4 DEF Parks
    <2>2. id \in Ids /\ status \in Status
      BY <1>0, <1>2
    <2> HIDE DEF id
    <2>3. Only(a) /\ Records(a, b, id, status)
      BY <1>0, <1>2, <2>1, <2>2, BecomesRecording
    <2> QED
      BY <1>4, <2>1, <2>3 DEF ParkedBy, id
  <1> QED
    BY <1>3, <1>4

LEMMA MovesSending ==
    ASSUME TypeOK, NEW a \in Faces, SendBody(a)
    PROVE  Only(a) /\ \E b \in actors[a].todo :
              /\ b \in Body /\ accepted' = accepted \union {b}
              /\ \/ b \in Bodies /\ Records(a, b, b, "sent")
                 \/ b \notin Bodies /\ Drops(a, b)
  <1>0. ActorTypes /\ a \in Actors /\ "sent" \in Status
    BY TypeParts DEF Actors, Status
  <1>1. PICK b \in actors[a].todo :
          /\ accepted' = accepted \union {b}
          /\ IF b \in Bodies
             THEN actors' = [actors EXCEPT ![a].pc = "record", ![a].todo = @ \ {b},
                                ![a].id = b, ![a].body = b, ![a].status = "sent"]
             ELSE actors' = [actors EXCEPT ![a].todo = @ \ {b}]
    BY DEF SendBody
  <1>2. b \in Body
    BY <1>0 DEF ActorTypes, ActorType
  <1>3. CASE b \in Bodies
    <2>1. b \in Ids
      BY <1>3, Basics
    <2>2. actors' = [actors EXCEPT ![a].pc = "record", ![a].todo = @ \ {b},
                                ![a].id = b, ![a].body = b, ![a].status = "sent"]
      BY <1>1, <1>3
    <2> QED
      BY <1>0, <1>1, <1>2, <1>3, <2>1, <2>2, BecomesRecording
  <1>4. CASE b \notin Bodies
    <2>1. actors' = [actors EXCEPT ![a].todo = @ \ {b}]
      BY <1>1, <1>4
    <2> QED
      BY <1>0, <1>1, <1>2, <1>4, <2>1, BecomesDropping
  <1> QED
    BY <1>3, <1>4

LEMMA MovesDelivering ==
    ASSUME TypeOK, NEW a \in Faces
    PROVE  /\ NoSender(a) => Only(a) /\ \E b \in actors[a].todo : Drops(a, b)
           /\ RecordState(a) => Only(a) /\ Fresh(a, "deliver", actors[a].todo)
           /\ Delivered(a) => Only(a) /\ Rests(a)
  <1>0. ActorTypes /\ a \in Actors /\ "deliver" \in Steps /\ actors[a].todo \in SUBSET Body
    BY TypeParts DEF Actors, Steps, ActorTypes, ActorType
  <1>1. ASSUME NoSender(a) PROVE Only(a) /\ \E b \in actors[a].todo : Drops(a, b)
    <2>1. PICK b \in actors[a].todo : actors' = [actors EXCEPT ![a].todo = @ \ {b}]
      BY <1>1 DEF NoSender
    <2> QED
      BY <1>0, <2>1, BecomesDropping
  <1> QED
    BY <1>0, <1>1, BecomesFresh, BecomesRested DEF RecordState, Delivered, Leaves, Rest

-----------------------------------------------------------------------------
Restored(c, status) ==
    \/ phase = "closing" /\ Rests(c) /\ pending' = pending
    \/ /\ phase # "closing" /\ actors'[c].pc = "restore" /\ actors'[c].status = status
       /\ actors'[c].todo = actors[c].todo /\ actors'[c].id = actors[c].id
       /\ actors'[c].body = actors[c].body /\ Keeps(c)
       /\ pending' = [pending EXCEPT ![actors[c].id] = actors[c].body]

LEMMA MovesTaking ==
    ASSUME TypeOK, NEW c \in Callers, NEW id \in Ids, NEW pc \in Steps, Take(c, id, pc)
    PROVE  Only(c) /\ Takes(c, id, pc)
  <1> DEFINE alone == Alone(id)
             body == pending[id]
  <1>1. alone \in BOOLEAN /\ body \in Body \union {Nil} /\ ActorTypes /\ c \in Actors
    BY TypeParts, Basics DEF Alone
  <1>2. actors' = [actors EXCEPT ![c] = [Resting EXCEPT !.pc = pc, !.id = id,
                         !.body = body, !.alone = alone]]
    BY DEF Take
  <1>3. Takes(c, id, pc) <=>
            /\ actors'[c].pc = pc /\ actors'[c].todo = {} /\ actors'[c].owed = {}
            /\ actors'[c].id = id /\ actors'[c].body = body /\ actors'[c].alone = alone
    BY DEF Takes
  <1> HIDE DEF alone, body
  <1>4. Resting \in ActorType
    BY Basics
  <1>5. [Resting EXCEPT !.pc = pc, !.id = id, !.body = body, !.alone = alone] \in ActorType
    BY <1>1, <1>4 DEF ActorType
  <1>6. /\ Only(c)
        /\ actors'[c] = [Resting EXCEPT !.pc = pc, !.id = id, !.body = body, !.alone = alone]
    BY <1>1, <1>2, <1>5, Becomes
  <1>7. actors'[c].pc = pc /\ actors'[c].id = id
    BY ONLY <1>4, <1>6 DEF ActorType
  <1>8. actors'[c].body = body /\ actors'[c].alone = alone
    BY ONLY <1>4, <1>6 DEF ActorType
  <1>9. actors'[c].todo = Resting.todo
    BY ONLY <1>4, <1>6 DEF ActorType
  <1>10. actors'[c].owed = Resting.owed
    BY ONLY <1>4, <1>6 DEF ActorType
  <1> QED
    BY <1>3, <1>6, <1>7, <1>8, <1>9, <1>10, RestingFields

LEMMA MovesRestoring ==
    ASSUME TypeOK, NEW c \in Callers, NEW status \in {"held", "retry"}, Restores(c, status)
    PROVE  Only(c) /\ Restored(c, status)
  <1>0. ActorTypes /\ c \in Actors /\ status \in Status
    BY TypeParts, Basics DEF Status
  <1>1. CASE phase = "closing"
    BY <1>0, <1>1, BecomesRested DEF Restores, Restored, Rest
  <1>2. CASE phase # "closing"
    <2>1. /\ actors' = [actors EXCEPT ![c].pc = "restore", ![c].status = status]
          /\ pending' = [pending EXCEPT ![actors[c].id] = actors[c].body]
      BY <1>2 DEF Restores
    <2> QED
      BY <1>0, <1>2, <2>1, BecomesRestoring DEF Restored
  <1> QED
    BY <1>1, <1>2

LEMMA MovesDeciding ==
    ASSUME TypeOK, NEW c \in Callers
    PROVE  /\ \A id \in Ids : ApproveDelivery(c, id) => Only(c) /\ Takes(c, id, "send")
           /\ \A id \in Ids : RefuseDelivery(c, id) => Only(c) /\ Takes(c, id, "refuse")
           /\ ApprovedSent(c) => Only(c) /\ Goes(c, "receipt")
           /\ RefusalRecorded(c) => Only(c) /\ Goes(c, "audit")
           /\ ApprovedRefused(c) => Only(c) /\ Restored(c, "retry")
           /\ DecisionNotRecorded(c) \/ AuditRefused(c) => Only(c) /\ Restored(c, "held")
           /\ ApprovalRecorded(c) \/ AuditCommitted(c) \/ RestoreRecorded(c) => Only(c) /\ Rests(c)
  <1>0. ActorTypes /\ c \in Actors /\ {"send", "refuse", "receipt", "audit"} \subseteq Steps
    BY TypeParts, Basics DEF Steps
  <1>1. \A id \in Ids : /\ ApproveDelivery(c, id) => Only(c) /\ Takes(c, id, "send")
                        /\ RefuseDelivery(c, id) => Only(c) /\ Takes(c, id, "refuse")
    BY <1>0, MovesTaking DEF ApproveDelivery, RefuseDelivery
  <1>2. /\ ApprovedSent(c) => Only(c) /\ Goes(c, "receipt")
        /\ RefusalRecorded(c) => Only(c) /\ Goes(c, "audit")
    BY <1>0, BecomesGone DEF ApprovedSent, RefusalRecorded, Go
  <1>3. /\ ApprovedRefused(c) => Only(c) /\ Restored(c, "retry")
        /\ DecisionNotRecorded(c) \/ AuditRefused(c) => Only(c) /\ Restored(c, "held")
    BY MovesRestoring DEF ApprovedRefused, DecisionNotRecorded, AuditRefused
  <1>4. ApprovalRecorded(c) \/ AuditCommitted(c) \/ RestoreRecorded(c) => Only(c) /\ Rests(c)
    BY <1>0, BecomesRested DEF ApprovalRecorded, AuditCommitted, RestoreRecorded, Rest
  <1> QED
    BY <1>1, <1>2, <1>3, <1>4

LEMMA MovesOfProcess ==
    ASSUME TypeOK
    PROVE  /\ RetireHeadless => Only("boot") /\ (\/ Rests("boot")
                                  \/ \E b \in actors["boot"].todo : Drops("boot", b))
           /\ Stop => ActorTypes' /\ \A a \in Actors : Rests(a)
           /\ Restart => Only("boot") /\ Fresh("boot", IF atEntry THEN "deliver" ELSE "retire", OwedAtBoot)
  <1>0. ActorTypes /\ "boot" \in Actors /\ {"deliver", "retire"} \subseteq Steps
    BY TypeParts, Basics DEF Steps
  <1>1. ASSUME RetireHeadless
        PROVE  Only("boot") /\ (Rests("boot") \/ \E b \in actors["boot"].todo : Drops("boot", b))
    <2>1. CASE actors["boot"].todo = {}
      BY <1>0, <1>1, <2>1, BecomesRested DEF RetireHeadless, Rest
    <2>2. CASE actors["boot"].todo # {}
      <3>1. PICK b \in actors["boot"].todo : actors' = [actors EXCEPT !["boot"].todo = @ \ {b}]
        BY <1>1, <2>2 DEF RetireHeadless
      <3> QED
        BY <1>0, <3>1, BecomesDropping
    <2> QED
      BY <2>1, <2>2
  <1>2. ASSUME Stop PROVE ActorTypes' /\ \A a \in Actors : Rests(a)
    BY <1>2, RestingFields DEF Stop, Rests, Fresh, ActorTypes
  <1>3. ASSUME Restart
        PROVE  Only("boot") /\ Fresh("boot", IF atEntry THEN "deliver" ELSE "retire", OwedAtBoot)
    <2> DEFINE pc == IF atEntry THEN "deliver" ELSE "retire"
    <2>1. actors' = [actors EXCEPT !["boot"] = [Resting EXCEPT !.pc = pc, !.todo = OwedAtBoot]]
      BY <1>3 DEF Restart
    <2>2. pc \in Steps /\ OwedAtBoot \in SUBSET Body
      BY <1>0, Basics DEF OwedAtBoot
    <2> HIDE DEF pc
    <2>3. Only("boot") /\ Fresh("boot", pc, OwedAtBoot)
      BY <1>0, <2>1, <2>2, BecomesFresh
    <2> QED
      BY <2>3 DEF pc
  <1> QED
    BY <1>1, <1>2, <1>3

-----------------------------------------------------------------------------
(* What a step writes: the store.                                          *)

\* The record an actor may leave under an identity.
Owns(a, id, record) ==
    \/ At(a, "put") /\ id = actors[a].id /\ id \in Bodies /\ record = Record(id, "owed")
    \/ At(a, "retire") /\ id \in Bodies /\ id \in actors[a].todo /\ record = Record(id, "headless")
    \/ /\ id = actors[a].id
       /\ \/ actors[a].pc \in {"record", "restore"} /\ record = Record(actors[a].body, actors[a].status)
          \/ At(a, "receipt") /\ record = Record(actors[a].body, "sent")
          \/ At(a, "refuse") /\ record = Record(actors[a].body, "refused")

StoreStep ==
    /\ StoreTypes'
    /\ \A id \in Ids :
          /\ \/ memory'[id] = memory[id]
             \/ \E a \in Actors : Owns(a, id, memory'[id]) /\ actors'[a] # actors[a]
          /\ disk'[id] = disk[id] \/ disk'[id] = memory'[id]

LEMMA Written ==
    ASSUME StoreTypes, NEW a \in Actors, NEW id \in Ids, NEW record \in RecordType,
           Owns(a, id, record), actors'[a] # actors[a],
           memory' \in {memory, With(id, record)}, disk' \in {disk, memory'}
    PROVE  StoreStep
  <1>1. memory' \in [Ids -> RecordType] /\ disk' \in [Ids -> RecordType]
    BY DEF StoreTypes, With
  <1>2. \A j \in Ids : memory'[j] = memory[j] \/ (j = id /\ memory'[j] = record)
    BY DEF StoreTypes, With
  <1>3. \A j \in Ids : disk'[j] = disk[j] \/ disk'[j] = memory'[j]
    OBVIOUS
  <1> QED
    BY <1>1, <1>2, <1>3 DEF StoreStep, StoreTypes

LEMMA Unwritten ==
    ASSUME StoreTypes, memory' = memory, disk' \in {disk, memory}
    PROVE  StoreStep
  BY DEF StoreStep, StoreTypes

LEMMA RecordTypes ==
    ASSUME NEW body \in Body, NEW status \in Status
    PROVE  Record(body, status) \in RecordType
  BY DEF Record, RecordType

LEMMA RunningStore ==
    ASSUME TypeOK, Shape, RunningStep
    PROVE  StoreStep
  <1> USE Basics
  <1>0. /\ StoreTypes /\ ActorTypes /\ Faces \subseteq Actors /\ Registrars \subseteq Actors
        /\ \A a \in Actors : actors[a] \in ActorType
        /\ {"owed", "sent", "refused", "headless"} \subseteq Status
    BY TypeParts DEF ActorTypes, Status
  <1>1. CASE FaceBegins \/ SettleStep \/ QuietStep
    <2>1. memory' = memory /\ disk' = disk
      BY <1>1, QuietFacts
      DEF FaceBegins, SettleStep, LiveDelivers, LiveBegins, HandoffBegins, SettleBegins,
          FailureBegins, AttemptRecorded, SettleConsumes, store
    <2> QED
      BY <1>0, <2>1, Unwritten
  <1>2. ASSUME NEW a \in Registrars, Enter(a) \/ ReadRecord(a) \/ SyncOwed(a)
        PROVE  StoreStep
    BY <1>0, <1>2, Unwritten DEF Enter, ReadRecord, SyncOwed, store
  <1>3. ASSUME NEW a \in Registrars, PutOwed(a) \/ RegistrationFails(a)
        PROVE  StoreStep
    <2>1. CASE At(a, "put")
      <3> DEFINE b == actors[a].id
      <3>1. b \in Bodies /\ b \in Body /\ b \in Ids
        BY <1>0, <2>1 DEF Shape, ActorShape, Registering, At
      <3>2. Record(b, "owed") \in RecordType /\ Owns(a, b, Record(b, "owed"))
        BY <1>0, <2>1, <3>1, RecordTypes DEF Owns
      <3>3. memory' \in {memory, With(b, Record(b, "owed"))} /\ disk' \in {disk, memory'}
        BY <1>3, <2>1 DEF PutOwed, RegistrationFails
      <3>4. actors'[a] # actors[a]
        BY <1>3, <2>1, MovesStaging, MovesRegistering DEF At, Stages, Fresh, Rests
      <3> QED
        BY <1>0, <3>1, <3>2, <3>3, <3>4, Written
    <2>2. CASE ~At(a, "put")
      BY <1>0, <1>3, <2>2, Unwritten DEF PutOwed, RegistrationFails
    <2> QED
      BY <2>1, <2>2
  <1>4. ASSUME NEW a \in Faces, HoldBody(a) \/ ChannelRefuses(a) \/ SendBody(a) \/ NoSender(a) \/ Delivered(a)
        PROVE  StoreStep
    BY <1>0, <1>4, Unwritten DEF HoldBody, ChannelRefuses, SendBody, NoSender, Delivered, store
  <1>5. ASSUME NEW a \in Actors, NEW body \in Body, NEW status \in Status,
               Owns(a, actors[a].id, Record(body, status)), actors[a].id \in Ids,
               actors'[a] # actors[a],
               \/ Stored(actors[a].id, Record(body, status))
               \/ NotStored(actors[a].id, Record(body, status))
        PROVE  StoreStep
    <2>1. /\ memory' \in {memory, With(actors[a].id, Record(body, status))}
          /\ disk' \in {disk, memory'}
      BY <1>5 DEF Stored, NotStored
    <2> QED
      BY <1>0, <1>5, <2>1, Written, RecordTypes
  <1>6. \A a \in Actors : actors[a].pc \in {"record", "restore", "receipt", "refuse"} =>
           actors[a].id \in Ids /\ actors[a].body \in Body /\ actors[a].status \in Status
    BY <1>0 DEF Shape, ActorShape, Deciding, ActorType
  <1>7. ASSUME NEW a \in Faces, RecordState(a) PROVE StoreStep
    <2>1. Owns(a, actors[a].id, Record(actors[a].body, actors[a].status)) /\ At(a, "record")
      BY <1>7 DEF RecordState, Owns, At
    <2>2. actors'[a] # actors[a]
      BY <1>7, <2>1, MovesDelivering DEF Fresh, At
    <2> QED
      BY <1>0, <1>5, <1>6, <1>7, <2>1, <2>2 DEF RecordState, At
  <1>8. ASSUME NEW c \in Callers,
               \/ \E id \in Ids : ApproveDelivery(c, id) \/ RefuseDelivery(c, id)
               \/ ApprovedSent(c) \/ ApprovedRefused(c) \/ AuditCommitted(c) \/ AuditRefused(c)
        PROVE  StoreStep
    BY <1>0, <1>8, Unwritten
    DEF ApproveDelivery, RefuseDelivery, ApprovedSent, ApprovedRefused, AuditCommitted,
        AuditRefused, store
  <1>9. ASSUME NEW c \in Callers, At(c, "receipt") \/ At(c, "refuse"), actors'[c] # actors[c],
               LET record == Record(actors[c].body, IF At(c, "receipt") THEN "sent" ELSE "refused")
               IN  Stored(actors[c].id, record) \/ NotStored(actors[c].id, record)
        PROVE  StoreStep
    <2> DEFINE status == IF At(c, "receipt") THEN "sent" ELSE "refused"
    <2>1. Owns(c, actors[c].id, Record(actors[c].body, status)) /\ status \in Status
      BY <1>0, <1>9 DEF Owns, At
    <2> QED
      BY <1>0, <1>5, <1>6, <1>9, <2>1 DEF At
  <1>10. ASSUME NEW c \in Callers, ApprovalRecorded(c) \/ RefusalRecorded(c) \/ DecisionNotRecorded(c)
         PROVE  StoreStep
    <2>1. actors'[c] # actors[c]
      BY <1>10, MovesDeciding
      DEF ApprovalRecorded, RefusalRecorded, DecisionNotRecorded, At, Rests, Fresh, Goes, Restored
    <2> QED
      BY <1>9, <1>10, <2>1 DEF ApprovalRecorded, RefusalRecorded, DecisionNotRecorded, At
  <1>11. ASSUME NEW c \in Callers, RestoreRecorded(c) PROVE StoreStep
    <2>1. Owns(c, actors[c].id, Record(actors[c].body, actors[c].status)) /\ At(c, "restore")
      BY <1>11 DEF RestoreRecorded, Owns, At
    <2>2. actors'[c] # actors[c]
      BY <1>11, <2>1, MovesDeciding DEF Rests, Fresh, At
    <2> QED
      BY <1>0, <1>5, <1>6, <1>11, <2>1, <2>2 DEF RestoreRecorded, At
  <1>12. CASE RetireHeadless
    <2>1. CASE actors["boot"].todo = {}
      BY <1>0, <1>12, <2>1, Unwritten DEF RetireHeadless, store
    <2>2. CASE actors["boot"].todo # {}
      <3>1. PICK b \in actors["boot"].todo :
               /\ Stored(b, Record(b, "headless")) \/ NotStored(b, Record(b, "headless"))
               /\ actors' = [actors EXCEPT !["boot"].todo = @ \ {b}]
        BY <1>12, <2>2 DEF RetireHeadless
      <3>5. actors'["boot"] # actors["boot"]
        <4>1. Drops("boot", b)
          BY <1>0, <3>1, BecomesDropping
        <4>2. actors'["boot"].todo = actors["boot"].todo \ {b} /\ b \in actors["boot"].todo
          BY <4>1 DEF Drops
        <4> QED
          BY <4>2
      <3>2. b \in Bodies /\ b \in Body /\ b \in Ids
        BY <1>0 DEF Shape, ActorShape
      <3>3. Owns("boot", b, Record(b, "headless")) /\ Record(b, "headless") \in RecordType
        BY <1>0, <1>12, <3>2, RecordTypes DEF RetireHeadless, Owns
      <3>4. memory' \in {memory, With(b, Record(b, "headless"))} /\ disk' \in {disk, memory'}
        BY <3>1 DEF Stored, NotStored
      <3> QED
        BY <1>0, <3>2, <3>3, <3>4, <3>5, Written
    <2> QED
      BY <2>1, <2>2
  <1> QED
    BY <1>1, <1>2, <1>3, <1>4, <1>7, <1>8, <1>10, <1>11, <1>12
    DEF RunningStep, FaceStep, CallerStep

-----------------------------------------------------------------------------
(* What a step writes: the table, the turn, the process and the history.   *)

\* The body an actor may park under an identity.
Puts(a, id, body) ==
    \/ /\ a \in Faces /\ At(a, "deliver") /\ body \in actors[a].todo /\ id = ParkedId(body)
       /\ actors'[a].body = body
       /\ body \notin Bodies => heldSeq' = heldSeq + 1
    \/ /\ actors[a].pc \in Deciding /\ id = actors[a].id /\ body = actors[a].body
       /\ actors'[a] # actors[a]

\* The live face gives a failure its identity.
ParksFailure == \E f \in actors["live"].todo \ Bodies, status \in {"held", "retry"} :
                   /\ Only("live") /\ Records("live", f, heldSeq + 1, status)
                   /\ At("live", "deliver") /\ heldSeq' = heldSeq + 1

TableStep ==
    /\ pending' \in [Ids -> Body \union {Nil}]
    /\ \A id \in Ids : pending'[id] \in {pending[id], Nil}
                          \/ \E a \in Actors : Puts(a, id, pending'[id])
    /\ heldSeq' = heldSeq \/ ParksFailure

LEMMA RunningTable ==
    ASSUME TypeOK, Shape, CountInv, RunningStep
    PROVE  TableStep
  <1> USE Basics
  <1>0. pending \in [Ids -> Body \union {Nil}] /\ ActorTypes /\ Faces \subseteq Actors
    BY TypeParts
  <1>1. ASSUME pending' = pending, heldSeq' = heldSeq PROVE TableStep
    BY <1>0, <1>1 DEF TableStep
  <1>2. CASE FaceBegins \/ SettleStep \/ QuietStep \/ RetireHeadless
    BY <1>1, <1>2, QuietFacts
    DEF FaceBegins, SettleStep, RetireHeadless, LiveDelivers, LiveBegins, HandoffBegins,
        SettleBegins, FailureBegins, AttemptRecorded, SettleConsumes, table
  <1>3. ASSUME NEW a \in Actors,
               \/ Enter(a) \/ ReadRecord(a) \/ PutOwed(a) \/ SyncOwed(a) \/ RegistrationFails(a)
               \/ SendBody(a) \/ NoSender(a) \/ RecordState(a) \/ Delivered(a)
        PROVE  TableStep
    BY <1>1, <1>3
    DEF Enter, ReadRecord, PutOwed, SyncOwed, RegistrationFails, SendBody, NoSender, RecordState,
        Delivered, table
  <1>4. ASSUME NEW a \in Faces, HoldBody(a) \/ ChannelRefuses(a) PROVE TableStep
    <2>1. PICK b \in actors[a].todo, status \in {"held", "retry"} : Only(a) /\ ParkedBy(a, b, status)
      BY <1>4, MovesParking
    <2>2. CASE phase = "closing"
      BY <1>1, <2>1, <2>2 DEF ParkedBy
    <2>3. CASE phase # "closing"
      <3>1. /\ b \in Body /\ ParkedId(b) \in Ids
            /\ b \notin Bodies => a = "live" /\ ParkedId(b) = heldSeq + 1
        BY ParkedIdFacts
      <3>2. At(a, "deliver")
        BY <1>4 DEF HoldBody, ChannelRefuses
      <3>3. pending' = [pending EXCEPT ![ParkedId(b)] = b] /\ Records(a, b, ParkedId(b), status)
        BY <2>1, <2>3 DEF ParkedBy
      <3>4. Puts(a, ParkedId(b), b)
        BY <2>1, <2>3, <3>2, <3>3 DEF Puts, Records, ParkedBy
      <3>5. heldSeq' = heldSeq \/ ParksFailure
        BY <2>1, <2>3, <3>1, <3>2, <3>3 DEF ParkedBy, ParksFailure
      <3> QED
        BY <1>0, <3>1, <3>3, <3>4, <3>5 DEF TableStep
    <2> QED
      BY <2>2, <2>3
  <1>5. ASSUME NEW c \in Callers, NEW id \in Ids, ApproveDelivery(c, id) \/ RefuseDelivery(c, id)
        PROVE  TableStep
    <2>1. pending' = [pending EXCEPT ![id] = Nil] /\ heldSeq' = heldSeq
      BY <1>5 DEF ApproveDelivery, RefuseDelivery, Take
    <2> QED
      BY <1>0, <2>1 DEF TableStep
  <1>6. ASSUME NEW c \in Callers,
               \/ ApprovedSent(c) \/ ApprovalRecorded(c) \/ RefusalRecorded(c)
               \/ AuditCommitted(c) \/ RestoreRecorded(c)
        PROVE  TableStep
    BY <1>1, <1>6
    DEF ApprovedSent, ApprovalRecorded, RefusalRecorded, AuditCommitted, RestoreRecorded, table
  <1>7. ASSUME NEW c \in Callers, ApprovedRefused(c) \/ DecisionNotRecorded(c) \/ AuditRefused(c)
        PROVE  TableStep
    <2>1. actors[c].pc \in Deciding /\ heldSeq' = heldSeq
      BY <1>7 DEF ApprovedRefused, DecisionNotRecorded, AuditRefused, At, Deciding
    <2>2. \E status \in {"held", "retry"} : Restored(c, status)
      BY <1>7, MovesDeciding
    <2>3. actors[c].id \in Ids /\ actors[c].body \in Body /\ c \in Actors
      BY <2>1 DEF Shape, ActorShape
    <2>4. pending' = pending \/ pending' = [pending EXCEPT ![actors[c].id] = actors[c].body]
      BY <2>2 DEF Restored
    <2>5. Puts(c, actors[c].id, actors[c].body)
      <3>1. actors'[c] # actors[c]
        BY <2>1, <2>2 DEF Restored, Rests, Fresh, Deciding
      <3> QED
        BY <2>1, <3>1 DEF Puts
    <2> QED
      BY <1>0, <2>1, <2>3, <2>4, <2>5 DEF TableStep
  <1> QED
    BY <1>0, <1>2, <1>3, <1>4, <1>5, <1>6, <1>7 DEF RunningStep, FaceStep, CallerStep

LEMMA RunningTurn ==
    ASSUME TypeOK, Shape, RunningStep
    PROVE  TurnTypes' /\ ProcessTypes'
  <1>1. TurnTypes /\ ProcessTypes
    BY TypeParts
  <1>6. CASE LiveDelivers \/ LiveTurnedAway
    <2>1. /\ answered' = TRUE /\ stranded' \subseteq stranded \union Bodies
          /\ UNCHANGED <<sender, noticed, seat, landed, atEntry, reported, phase, faults, stops>>
      BY <1>6 DEF LiveDelivers, LiveTurnedAway, LiveBegins, Owed
    <2> QED
      BY <1>1, <2>1 DEF TurnTypes, ProcessTypes
  <1>7. CASE HandoffBegins \/ SettleBegins \/ Redrive \/ EntryMoves \/ Quiesce
    BY <1>1, <1>7
    DEF HandoffBegins, SettleBegins, Redrive, EntryMoves, Quiesce, TurnTypes, ProcessTypes, turn
  <1>8. CASE AttemptRecorded \/ SettleConsumes \/ DriverConsumes
    <2>1. /\ landed' \in {landed, TRUE} /\ seat' \in {seat, "ended", "consumed", "shut"}
          /\ UNCHANGED <<sender, noticed, answered, atEntry, reported, stranded, phase, stops>>
      BY <1>8 DEF AttemptRecorded, SettleConsumes, DriverConsumes
    <2>2. faults' = faults \/ (faults < MaxFaults /\ faults' = faults + 1)
      BY <1>8 DEF AttemptRecorded, SettleConsumes, DriverConsumes
    <2>3. TurnTypes'
      BY <1>1, <2>1 DEF TurnTypes
    <2> QED
      BY <1>1, <2>1, <2>2, <2>3, BoundsAssumption DEF ProcessTypes
  <1>9. ASSUME NEW f \in Failures, FailureBegins(f) PROVE TurnTypes' /\ ProcessTypes'
    BY <1>1, <1>9 DEF FailureBegins, TurnTypes, ProcessTypes
  <1>2. CASE FaceBegins \/ SettleStep \/ QuietStep
    BY <1>2, <1>6, <1>7, <1>8, <1>9 DEF FaceBegins, SettleStep, QuietStep
  <1>3. ASSUME NEW a \in Actors,
               \/ Enter(a) \/ ReadRecord(a) \/ PutOwed(a) \/ SyncOwed(a) \/ RegistrationFails(a)
               \/ HoldBody(a) \/ ChannelRefuses(a) \/ SendBody(a) \/ NoSender(a) \/ RecordState(a) \/ Delivered(a)
        PROVE  TurnTypes' /\ ProcessTypes'
    <2>1. CASE Enter(a) \/ Delivered(a)
      <3>1. /\ seat' \in {seat, "ended"} /\ stranded' \subseteq stranded \union Bodies
            /\ UNCHANGED <<sender, noticed, answered, landed, atEntry, reported, phase, faults,
                           stops>>
        BY <2>1 DEF Enter, Delivered, Leaves, Owed
      <3> QED
        BY <1>1, <3>1 DEF TurnTypes, ProcessTypes
    <2>2. CASE \/ ReadRecord(a) \/ SyncOwed(a) \/ HoldBody(a) \/ ChannelRefuses(a)
               \/ SendBody(a) \/ NoSender(a)
      BY <1>1, <2>2
      DEF ReadRecord, SyncOwed, HoldBody, ChannelRefuses, SendBody, NoSender,
          TurnTypes, ProcessTypes, turn
    <2>4. CASE PutOwed(a)
      <3>1. actors[a].id \in Bodies
        BY <2>4, Basics DEF PutOwed, Shape, ActorShape, At, Registering
      <3>2. /\ stranded' \subseteq stranded \union Bodies
            /\ UNCHANGED <<sender, noticed, answered, seat, landed, atEntry, reported, phase,
                           faults, stops>>
        BY <2>4, <3>1 DEF PutOwed
      <3> QED
        BY <1>1, <3>2 DEF TurnTypes, ProcessTypes
    <2>3. CASE RegistrationFails(a) \/ RecordState(a)
      BY <1>1, <2>3, BoundsAssumption
      DEF RegistrationFails, RecordState, Stored, NotStored, TurnTypes, ProcessTypes, turn
    <2> QED
      BY <1>3, <2>1, <2>2, <2>3, <2>4
  <1>4. ASSUME NEW c \in Callers,
               \/ \E id \in Ids : ApproveDelivery(c, id) \/ RefuseDelivery(c, id)
               \/ ApprovedSent(c) \/ ApprovedRefused(c) \/ ApprovalRecorded(c)
               \/ RefusalRecorded(c) \/ DecisionNotRecorded(c)
               \/ AuditCommitted(c) \/ AuditRefused(c) \/ RestoreRecorded(c)
        PROVE  TurnTypes' /\ ProcessTypes'
    BY <1>1, <1>4, BoundsAssumption
    DEF ApproveDelivery, RefuseDelivery, ApprovedSent, ApprovedRefused, ApprovalRecorded,
        RefusalRecorded, DecisionNotRecorded, AuditCommitted, AuditRefused, RestoreRecorded,
        Stored, NotStored, TurnTypes, ProcessTypes, turn
  <1>5. CASE RetireHeadless
    BY <1>1, <1>5, BoundsAssumption
    DEF RetireHeadless, Stored, NotStored, TurnTypes, ProcessTypes, turn
  <1> QED
    BY <1>2, <1>3, <1>4, <1>5, Basics DEF RunningStep, FaceStep, CallerStep

\* A decision is filed by the caller that took it.
Files(c) == \/ ApprovalRecorded(c) /\ Decided(c, "sent") /\ At(c, "receipt")
            \/ AuditCommitted(c) /\ Decided(c, "refused") /\ At(c, "audit")

LEMMA RunningPast ==
    ASSUME TypeOK, Shape, RunningStep
    PROVE  /\ PastTypes' /\ accepted \subseteq accepted' /\ refusals \subseteq refusals'
           /\ registered' = registered \/ \E a \in Registrars : SyncOwed(a)
           /\ decisions' = decisions \/ \E c \in Callers : Files(c)
  <1> USE Basics
  <1>1. PastTypes /\ ActorTypes /\ \A a \in Actors : actors[a] \in ActorType
    BY TypeParts DEF ActorTypes
  <1>2. CASE FaceBegins \/ SettleStep \/ QuietStep \/ RetireHeadless
    <2>1. UNCHANGED <<accepted, registered, refusals, decisions>>
      BY <1>2, QuietFacts
      DEF FaceBegins, SettleStep, RetireHeadless, LiveDelivers, LiveBegins, HandoffBegins,
          SettleBegins, FailureBegins, AttemptRecorded, SettleConsumes, past
    <2> QED
      BY <1>1, <2>1 DEF PastTypes
  <1>3. ASSUME NEW a \in Actors,
               \/ Enter(a) \/ ReadRecord(a) \/ PutOwed(a) \/ RegistrationFails(a)
               \/ HoldBody(a) \/ ChannelRefuses(a) \/ NoSender(a) \/ RecordState(a) \/ Delivered(a)
        PROVE  PastTypes' /\ UNCHANGED past
    BY <1>1, <1>3
    DEF Enter, ReadRecord, PutOwed, RegistrationFails, HoldBody, ChannelRefuses, NoSender,
        RecordState, Delivered, PastTypes, past
  <1>4. ASSUME NEW a \in Registrars, SyncOwed(a)
        PROVE  PastTypes' /\ UNCHANGED <<accepted, refusals, decisions>>
    <2>1. a \in Actors /\ actors[a].owed \subseteq Bodies
      BY <1>1, Basics DEF ActorType
    <2> QED
      BY <1>1, <1>4, <2>1 DEF SyncOwed, PastTypes
  <1>5. ASSUME NEW a \in Faces, SendBody(a)
        PROVE  /\ PastTypes' /\ accepted \subseteq accepted'
               /\ UNCHANGED <<registered, refusals, decisions>>
    BY <1>1, <1>5, MovesSending DEF SendBody, PastTypes
  <1>6. ASSUME NEW c \in Callers,
               \/ \E id \in Ids : ApproveDelivery(c, id)
               \/ ApprovedRefused(c) \/ RefusalRecorded(c) \/ DecisionNotRecorded(c)
               \/ AuditRefused(c) \/ RestoreRecorded(c)
        PROVE  PastTypes' /\ UNCHANGED past
    BY <1>1, <1>6
    DEF ApproveDelivery, ApprovedRefused, RefusalRecorded, DecisionNotRecorded, AuditRefused,
        RestoreRecorded, PastTypes, past
  <1>7. ASSUME NEW c \in Callers, NEW id \in Ids, RefuseDelivery(c, id)
        PROVE  /\ PastTypes' /\ refusals \subseteq refusals'
               /\ UNCHANGED <<accepted, registered, decisions>>
    BY <1>1, <1>7 DEF RefuseDelivery, PastTypes
  <1>8. ASSUME NEW c \in Callers, ApprovedSent(c)
        PROVE  /\ PastTypes' /\ accepted \subseteq accepted'
               /\ UNCHANGED <<registered, refusals, decisions>>
    <2>1. actors[c].body \in Body
      BY <1>8 DEF ApprovedSent, At, Shape, ActorShape, Deciding
    <2> QED
      BY <1>1, <1>8, <2>1 DEF ApprovedSent, PastTypes
  <1>9. ASSUME NEW c \in Callers, ApprovalRecorded(c) \/ AuditCommitted(c)
        PROVE  /\ PastTypes' /\ Files(c) /\ UNCHANGED <<accepted, registered, refusals>>
    <2>1. actors[c].id \in Ids /\ actors[c].alone \in BOOLEAN
      BY <1>1, <1>9 DEF ApprovalRecorded, AuditCommitted, At, Shape, ActorShape, Deciding, ActorType
    <2>2. Files(c) /\ UNCHANGED <<accepted, registered, refusals>>
      BY <1>9 DEF ApprovalRecorded, AuditCommitted, Files
    <2>3. \E verdict \in {"sent", "refused"} : Decided(c, verdict)
      BY <2>2 DEF Files
    <2> QED
      BY <1>1, <2>1, <2>2, <2>3 DEF PastTypes, Decided
  <1> QED
    BY <1>2, <1>3, <1>4, <1>5, <1>6, <1>7, <1>8, <1>9
    DEF RunningStep, FaceStep, CallerStep, past

-----------------------------------------------------------------------------
(* Where the actors stand.                                                 *)

LEMMA RunningUp ==
    ASSUME TypeOK, Shape, RunningStep
    PROVE  phase # "down" /\ phase' # "down"
  <1> USE Basics
  <1>1. Faces \subseteq Actors /\ Registrars \subseteq Actors
    OBVIOUS
  <1>2. ASSUME NEW a \in Actors, ~At(a, "idle") PROVE phase # "down"
    BY <1>2 DEF Shape
  <1>3. CASE FaceBegins \/ QuietStep
    BY <1>3, QuietFacts
    DEF FaceBegins, LiveDelivers, LiveBegins, HandoffBegins, SettleBegins, FailureBegins, Running
  <1>7. CASE SettleStep
    <2>1. phase' = phase /\ ~At("settle", "idle")
      BY <1>7 DEF SettleStep, AttemptRecorded, SettleConsumes, At
    <2> QED
      BY <1>2, <2>1
  <1>4. CASE FaceStep
    <2>1. phase' = phase
      BY <1>4
      DEF FaceStep, Enter, ReadRecord, PutOwed, SyncOwed, RegistrationFails, HoldBody,
          ChannelRefuses, SendBody, NoSender, RecordState, Delivered
    <2>2. \E a \in Actors : ~At(a, "idle")
      BY <1>1, <1>4
      DEF FaceStep, Enter, ReadRecord, PutOwed, SyncOwed, RegistrationFails, HoldBody,
          ChannelRefuses, SendBody, NoSender, RecordState, Delivered, At
    <2> QED
      BY <1>1, <1>2, <2>1, <2>2
  <1>5. CASE CallerStep
    <2>1. PICK c \in Callers :
             \/ \E id \in Ids : ApproveDelivery(c, id) \/ RefuseDelivery(c, id)
             \/ ApprovedSent(c) \/ ApprovedRefused(c) \/ ApprovalRecorded(c)
             \/ RefusalRecorded(c) \/ DecisionNotRecorded(c)
             \/ AuditCommitted(c) \/ AuditRefused(c) \/ RestoreRecorded(c)
      BY <1>5 DEF CallerStep
    <2>2. phase' = phase
      BY <2>1
      DEF ApproveDelivery, RefuseDelivery, ApprovedSent, ApprovedRefused, ApprovalRecorded,
          RefusalRecorded, DecisionNotRecorded, AuditCommitted, AuditRefused, RestoreRecorded
    <2>3. phase = "up" \/ ~At(c, "idle")
      BY <2>1
      DEF ApproveDelivery, RefuseDelivery, Take, ApprovedSent, ApprovedRefused, ApprovalRecorded,
          RefusalRecorded, DecisionNotRecorded, AuditCommitted, AuditRefused, RestoreRecorded, At
    <2> QED
      BY <1>2, <2>2, <2>3
  <1>6. CASE RetireHeadless
    BY <1>2, <1>6 DEF RetireHeadless, At
  <1> QED
    BY <1>3, <1>4, <1>5, <1>6, <1>7 DEF RunningStep

LEMMA ShapeMoved ==
    ASSUME Shape, NEW a \in Actors, Only(a), ActorShape(a)', phase' # "down"
    PROVE  Shape'
  <1>1. ASSUME NEW x \in Actors PROVE ActorShape(x)'
    <2>1. CASE x = a
      BY <2>1
    <2>2. CASE x # a
      <3>1. actors'[x] = actors[x] /\ ActorShape(x)
        BY <2>2 DEF Only, Shape
      <3> QED
        BY <3>1 DEF ActorShape, At
    <2> QED
      BY <2>1, <2>2
  <1> QED
    BY <1>1 DEF Shape

LEMMA RestedShape ==
    ASSUME NEW a \in Actors, Rests(a)
    PROVE  ActorShape(a)'
  BY Basics DEF Rests, Fresh, ActorShape, At, Registering, Deciding

LEMMA ShapeKept ==
    ASSUME TypeOK, Shape, CountInv, RunningStep
    PROVE  Shape'
  <1> USE Basics, RunningUp
  <1>0. /\ ActorTypes /\ Registrars \subseteq Actors /\ Faces \subseteq Actors
        /\ Callers \subseteq Actors /\ \A a \in Actors : ActorShape(a) /\ actors[a] \in ActorType
    BY Basics, TypeParts DEF Shape, ActorTypes
  <1>1. CASE QuietStep
    <2>1. actors' = actors
      BY <1>1, QuietFacts
    <2> QED
      BY <2>1 DEF Shape, ActorShape, At
  <1>2. CASE FaceBegins
    <2> DEFINE Starts(a, pc, todo) ==
                  /\ todo = Bodies \/ (a = "live" /\ pc = "deliver")
                  /\ IF a = "settle" THEN pc = "attempt" ELSE pc \in {"enter", "deliver"}
    <2>1. PICK a \in Registrars \ {"boot"} :
             Only(a) /\ \E pc, todo : Fresh(a, pc, todo) /\ Starts(a, pc, todo)
      BY <1>2, MovesBegin DEF FaceBegins, Registrars
    <2>2. PICK pc, todo : Fresh(a, pc, todo) /\ Starts(a, pc, todo)
      BY <2>1
    <2>3. ActorShape(a)'
      BY <2>2, CallersAssumption DEF Fresh, ActorShape, At, Registering, Deciding
    <2> QED
      BY <1>0, <2>1, <2>3, ShapeMoved
  <1>9. CASE SettleStep
    <2>1. Only("settle") /\ (Rests("settle") \/ (Goes("settle", "enter") /\ At("settle", "attempt")))
      BY <1>9, MovesSettling DEF SettleStep, AttemptRecorded
    <2>2. CASE Rests("settle")
      BY <2>1, <2>2, RestedShape, ShapeMoved
    <2>3. CASE Goes("settle", "enter") /\ At("settle", "attempt")
      <3>1. ActorShape("settle")'
        BY <1>0, <2>3, CallersAssumption DEF Goes, ActorShape, At, Registering, Deciding
      <3> QED
        BY <2>1, <3>1, ShapeMoved
    <2> QED
      BY <2>1, <2>2, <2>3
  <1>3. ASSUME NEW a \in Registrars, Enter(a) \/ SyncOwed(a) \/ RegistrationFails(a)
        PROVE  Shape'
    <2>1. /\ Only(a) /\ a \in Actors /\ a \notin Callers /\ a # "boot"
          /\ actors[a].owed \subseteq Bodies
      BY <1>0, <1>3, MovesRegistering, CallersAssumption DEF ActorType, Registrars
    <2>2. \/ Goes(a, "read") /\ actors[a].pc = "enter"
          \/ Rests(a)
          \/ a = "settle" /\ Fresh(a, "consume", {})
          \/ a # "settle" /\ \E todo \in SUBSET Bodies : Fresh(a, "deliver", todo)
      BY <1>3, <2>1, MovesRegistering DEF Enter, At
    <2>3. CASE Goes(a, "read") /\ actors[a].pc = "enter"
      <3>1. ActorShape(a)'
        BY <1>0, <2>1, <2>3 DEF Goes, ActorShape, At, Registering, Deciding
      <3> QED
        BY <2>1, <3>1, ShapeMoved
    <2>4. CASE Rests(a)
      BY <2>1, <2>4, RestedShape, ShapeMoved
    <2>5. CASE \/ a = "settle" /\ Fresh(a, "consume", {})
               \/ a # "settle" /\ \E todo \in SUBSET Bodies : Fresh(a, "deliver", todo)
      <3>1. ActorShape(a)'
        BY <2>1, <2>5 DEF Fresh, ActorShape, At, Registering, Deciding
      <3> QED
        BY <2>1, <3>1, ShapeMoved
    <2> QED
      BY <2>2, <2>3, <2>4, <2>5
  <1>4. ASSUME NEW a \in Registrars, ReadRecord(a) \/ PutOwed(a) PROVE Shape'
    <2>1. /\ a \in Actors /\ a \notin Callers /\ a # "boot"
          /\ actors[a].pc \in {"read", "put"}
      BY <1>0, <1>4, CallersAssumption DEF Registrars, ReadRecord, PutOwed, At
    <2>2. Only(a) /\ \E b \in Bodies :
             \/ Chooses(a, b) /\ b \in actors[a].todo
             \/ Reads(a, b) \/ Stages(a, b)
      BY <1>4, MovesReading, MovesStaging
    <2>3. ActorShape(a)'
      BY <1>0, <2>1, <2>2 DEF Chooses, Reads, Stages, Keeps, ActorShape, At, Registering, Deciding
    <2> QED
      BY <2>1, <2>2, <2>3, ShapeMoved
  <1>5. ASSUME NEW a \in Faces, HoldBody(a) \/ ChannelRefuses(a) \/ SendBody(a) \/ NoSender(a)
        PROVE  Shape'
    <2>1. a \in Actors /\ a \notin Callers /\ actors[a].pc = "deliver" /\ a # "settle"
      BY <1>0, <1>5, CallersAssumption DEF HoldBody, ChannelRefuses, SendBody, NoSender, At, Faces
    <2>2. Only(a) /\ \E b \in actors[a].todo :
             \/ Drops(a, b)
             \/ \E id \in Ids, status \in {"held", "retry", "sent"} :
                   b \in Body /\ Records(a, b, id, status)
      BY <1>5, MovesParking, MovesSending, MovesDelivering, ParkedIdFacts DEF ParkedBy
    <2>3. ActorShape(a)'
      BY <1>0, <2>1, <2>2
      DEF Drops, Records, Keeps, ActorShape, At, Registering, Deciding, Faces
    <2> QED
      BY <2>1, <2>2, <2>3, ShapeMoved
  <1>6. ASSUME NEW a \in Faces, RecordState(a) \/ Delivered(a) PROVE Shape'
    <2>1. a \in Actors /\ a \notin Callers /\ a # "settle"
      BY <1>0, CallersAssumption DEF Faces
    <2>2. CASE Delivered(a)
      BY <2>1, <2>2, MovesDelivering, RestedShape, ShapeMoved
    <2>3. CASE RecordState(a)
      <3>1. Only(a) /\ Fresh(a, "deliver", actors[a].todo)
        BY <2>3, MovesDelivering
      <3>2. ActorShape(a)'
        BY <1>0, <2>1, <3>1 DEF Fresh, ActorShape, At, Registering, Deciding, Faces
      <3> QED
        BY <2>1, <3>1, <3>2, ShapeMoved
    <2> QED
      BY <1>6, <2>2, <2>3
  <1>7. CASE CallerStep
    <2>1. PICK c \in Callers :
             \/ \E id \in Ids : ApproveDelivery(c, id) \/ RefuseDelivery(c, id)
             \/ ApprovedSent(c) \/ ApprovedRefused(c) \/ ApprovalRecorded(c)
             \/ RefusalRecorded(c) \/ DecisionNotRecorded(c)
             \/ AuditCommitted(c) \/ AuditRefused(c) \/ RestoreRecorded(c)
      BY <1>7 DEF CallerStep
    <2>2. c \in Actors /\ c \notin Faces /\ c \notin Registrars
      BY CallersAssumption
    <2>3. ASSUME NEW id \in Ids, ApproveDelivery(c, id) \/ RefuseDelivery(c, id) PROVE Shape'
      <3>1. Only(c) /\ \E pc \in {"send", "refuse"} : Takes(c, id, pc)
        BY <2>3, MovesDeciding
      <3>2. pending[id] \in Body
        BY <2>3, TypeParts DEF ApproveDelivery, RefuseDelivery, Take
      <3>3. ActorShape(c)'
        BY <2>2, <3>1, <3>2
        DEF Takes, ActorShape, At, Registering, Deciding, Faces, Registrars
      <3> QED
        BY <2>2, <3>1, <3>3, ShapeMoved
    <2>4. ASSUME ApprovedSent(c) \/ RefusalRecorded(c) PROVE Shape'
      <3>1. Only(c) /\ \E pc \in {"receipt", "audit"} : Goes(c, pc)
        BY <2>4, MovesDeciding
      <3>2. actors[c].pc \in Deciding
        BY <2>4 DEF ApprovedSent, RefusalRecorded, At, Deciding
      <3>3. ActorShape(c)'
        BY <1>0, <2>2, <3>1, <3>2
        DEF Goes, Keeps, ActorShape, At, Registering, Deciding, Faces, Registrars
      <3> QED
        BY <2>2, <3>1, <3>3, ShapeMoved
    <2>5. ASSUME ApprovedRefused(c) \/ DecisionNotRecorded(c) \/ AuditRefused(c) PROVE Shape'
      <3>1. Only(c) /\ \E status \in {"held", "retry"} : Restored(c, status)
        BY <2>5, MovesDeciding
      <3>2. actors[c].pc \in Deciding
        BY <2>5 DEF ApprovedRefused, DecisionNotRecorded, AuditRefused, At, Deciding
      <3>3. CASE Rests(c)
        BY <2>2, <3>1, <3>3, RestedShape, ShapeMoved
      <3>4. CASE ~Rests(c)
        <4>1. ActorShape(c)'
          BY <1>0, <2>2, <3>1, <3>2, <3>4
          DEF Restored, Keeps, ActorShape, At, Registering, Deciding, Faces, Registrars
        <4> QED
          BY <2>2, <3>1, <4>1, ShapeMoved
      <3> QED
        BY <3>3, <3>4
    <2>6. ASSUME ApprovalRecorded(c) \/ AuditCommitted(c) \/ RestoreRecorded(c) PROVE Shape'
      BY <2>2, <2>6, MovesDeciding, RestedShape, ShapeMoved
    <2> QED
      BY <2>1, <2>3, <2>4, <2>5, <2>6
  <1>8. CASE RetireHeadless
    <2>1. /\ Only("boot") /\ actors["boot"].pc = "retire" /\ "boot" \in Actors
          /\ "boot" \notin Callers
          /\ Rests("boot") \/ \E b \in actors["boot"].todo : Drops("boot", b)
      BY <1>8, MovesOfProcess, CallersAssumption DEF RetireHeadless, At, Faces
    <2>2. CASE Rests("boot")
      BY <2>1, <2>2, RestedShape, ShapeMoved
    <2>3. CASE \E b \in actors["boot"].todo : Drops("boot", b)
      <3>1. ActorShape("boot")'
        BY <1>0, <2>1, <2>3 DEF Drops, Keeps, ActorShape, At, Registering, Deciding
      <3> QED
        BY <2>1, <3>1, ShapeMoved
    <2> QED
      BY <2>1, <2>2, <2>3
  <1> QED
    BY <1>1, <1>2, <1>3, <1>4, <1>5, <1>6, <1>7, <1>8, <1>9 DEF RunningStep, FaceStep

-----------------------------------------------------------------------------
(* The local identities are counted by the failures that were reported.    *)

LEMMA LocalBelow ==
    ASSUME NamesInv, TypeOK, phase # "down", NEW id \in LocalIds, Names(id) # {}
    PROVE  id <= heldSeq
  <1>1. id \in Nat /\ heldSeq \in Nat
    BY Basics DEF LocalIds, TypeOK
  <1> QED
    BY <1>1 DEF NamesInv

LEMMA LiveTodo ==
    ASSUME TypeOK, Shape, CountInv, RunningStep
    PROVE  /\ reported \subseteq reported'
           /\ actors'["live"].todo \subseteq
                 actors["live"].todo \union Bodies \union (reported' \ reported)
  <1> DEFINE Grows == /\ reported \subseteq reported'
                      /\ actors'["live"].todo \subseteq
                            actors["live"].todo \union Bodies \union (reported' \ reported)
  <1> USE Basics
  <1>0. ActorTypes /\ Registrars \subseteq Actors /\ Faces \subseteq Actors
    BY Basics, TypeParts
  <1>1. CASE QuietStep
    BY <1>1, QuietFacts
  <1>2. CASE LiveDelivers \/ HandoffBegins \/ SettleBegins \/ SettleStep
    <2>1. reported' = reported
      BY <1>2
      DEF LiveDelivers, LiveBegins, HandoffBegins, SettleBegins, SettleStep, AttemptRecorded,
          SettleConsumes, turn
    <2>2. CASE LiveDelivers
      BY <2>1, <2>2, MovesBegin DEF Fresh
    <2>3. CASE HandoffBegins \/ SettleBegins \/ SettleStep
      <3>1. actors'["live"] = actors["live"]
        BY <2>3, MovesBegin, MovesSettling DEF Only, SettleStep
      <3> QED
        BY <2>1, <3>1
    <2> QED
      BY <1>2, <2>2, <2>3
  <1>3. ASSUME NEW f \in Failures, FailureBegins(f) PROVE Grows
    <2>1. reported' = reported \union {f} /\ f \notin reported
      BY <1>3 DEF FailureBegins
    <2>2. Fresh("live", "deliver", {f})
      BY <1>3, MovesBegin
    <2>3. actors'["live"].todo = {f}
      BY <2>2 DEF Fresh
    <2> QED
      BY <2>1, <2>3
  <1>4. ASSUME NEW a \in Actors, Only(a), reported' = reported,
               a # "live" \/ actors'[a].todo \subseteq actors[a].todo \union Bodies
        PROVE  Grows
    <2>1. CASE a = "live"
      BY <1>4, <2>1
    <2>2. CASE a # "live"
      <3>1. actors'["live"] = actors["live"]
        BY <1>4, <2>2 DEF Only
      <3> QED
        BY <1>4, <3>1
    <2> QED
      BY <2>1, <2>2
  <1>5. ASSUME NEW a \in Registrars,
               Enter(a) \/ ReadRecord(a) \/ PutOwed(a) \/ SyncOwed(a) \/ RegistrationFails(a)
        PROVE  Grows
    <2>1. reported' = reported
      <3>1. CASE Enter(a) \/ ReadRecord(a) \/ PutOwed(a)
        BY <3>1 DEF Enter, ReadRecord, PutOwed, turn, Leaves
      <3>2. CASE SyncOwed(a) \/ RegistrationFails(a)
        BY <3>2 DEF SyncOwed, RegistrationFails, turn
      <3> QED
        BY <1>5, <3>1, <3>2
    <2>2. CASE Enter(a)
      BY <1>0, <1>4, <2>1, <2>2, MovesRegistering DEF Goes, Rests, Fresh
    <2>3. CASE SyncOwed(a)
      <3>1. actors[a].owed \subseteq Bodies
        BY <1>0 DEF ActorTypes, ActorType
      <3> QED
        BY <1>0, <1>4, <2>1, <2>3, <3>1, MovesRegistering DEF Fresh
    <2>4. CASE RegistrationFails(a)
      BY <1>0, <1>4, <2>1, <2>4, MovesRegistering DEF Rests, Fresh
    <2>5. CASE ReadRecord(a)
      BY <1>0, <1>4, <2>1, <2>5, MovesReading DEF Chooses, Reads
    <2>6. CASE PutOwed(a)
      BY <1>0, <1>4, <2>1, <2>6, MovesStaging DEF Stages
    <2> QED
      BY <1>5, <2>2, <2>3, <2>4, <2>5, <2>6
  <1>6. ASSUME NEW a \in Faces,
               HoldBody(a) \/ ChannelRefuses(a) \/ SendBody(a) \/ NoSender(a) \/ RecordState(a) \/ Delivered(a)
        PROVE  Grows
    <2>1. reported' = reported
      BY <1>6 DEF HoldBody, ChannelRefuses, SendBody, NoSender, RecordState, Delivered, turn
    <2>2. CASE HoldBody(a) \/ ChannelRefuses(a)
      BY <1>0, <1>4, <2>1, <2>2, MovesParking DEF ParkedBy, Drops, Records
    <2>3. CASE SendBody(a)
      BY <1>0, <1>4, <2>1, <2>3, MovesSending DEF Drops, Records
    <2>4. CASE NoSender(a) \/ RecordState(a) \/ Delivered(a)
      BY <1>0, <1>4, <2>1, <2>4, MovesDelivering DEF Rests, Fresh, Drops
    <2> QED
      BY <1>6, <2>2, <2>3, <2>4
  <1>7. CASE CallerStep
    <2>1. PICK c \in Callers :
             \/ \E id \in Ids : ApproveDelivery(c, id) \/ RefuseDelivery(c, id)
             \/ ApprovedSent(c) \/ ApprovedRefused(c) \/ ApprovalRecorded(c)
             \/ RefusalRecorded(c) \/ DecisionNotRecorded(c)
             \/ AuditCommitted(c) \/ AuditRefused(c) \/ RestoreRecorded(c)
      BY <1>7 DEF CallerStep
    <2>2. reported' = reported
      BY <2>1
      DEF ApproveDelivery, RefuseDelivery, ApprovedSent, ApprovedRefused, ApprovalRecorded,
          RefusalRecorded, DecisionNotRecorded, AuditCommitted, AuditRefused, RestoreRecorded, turn
    <2>3. Only(c) /\ c # "live"
      BY <2>1, MovesDeciding, CallersAssumption
    <2> QED
      BY <1>0, <1>4, <2>2, <2>3
  <1>8. CASE RetireHeadless
    BY <1>0, <1>4, <1>8, MovesOfProcess DEF RetireHeadless, turn
  <1> QED
    BY <1>1, <1>2, <1>3, <1>5, <1>6, <1>7, <1>8 DEF RunningStep, FaceBegins, FaceStep

LEMMA CountKept ==
    ASSUME TypeOK, Shape, NamesInv, CountInv, RunningStep
    PROVE  CountInv' /\ heldSeq' \in 0..Cardinality(Failures)
  <1> DEFINE before == reported \ actors["live"].todo
             after == reported' \ actors'["live"].todo
  <1>1. /\ reported \subseteq reported' /\ before \subseteq after
        /\ actors'["live"].todo \subseteq Bodies \union reported'
    BY LiveTodo, BodiesAssumption DEF CountInv, TypeOK
  <1>2. after \subseteq Failures /\ reported' \subseteq Failures
    BY RunningTurn DEF TurnTypes
  <1>3. IsFiniteSet(before) /\ IsFiniteSet(after) /\ Cardinality(after) <= Cardinality(Failures)
    BY <1>1, <1>2, Basics, FS_Subset
  <1>4. Cardinality(before) <= Cardinality(after)
    BY <1>1, <1>3, FS_Subset
  <1>5. Parked = Cardinality(before) /\ Parked' = Cardinality(after)
    BY DEF Parked
  <1>6. Cardinality(before) \in Nat /\ Cardinality(after) \in Nat
    BY <1>3, FS_CardinalityType
  <1> HIDE DEF before, after
  <1>7. Parked \in Nat /\ Parked' \in Nat /\ Parked <= Parked' /\ Parked' <= Cardinality(Failures)
    BY <1>3, <1>4, <1>5, <1>6
  <1>8. heldSeq \in Nat /\ heldSeq <= Parked
    BY ParkedFacts DEF CountInv
  <1>9. heldSeq' \in Nat /\ heldSeq' <= Parked'
    <2>1. CASE heldSeq' = heldSeq
      BY <1>7, <1>8, <2>1
    <2>2. CASE ParksFailure
      <3>1. PICK f \in actors["live"].todo \ Bodies, status \in {"held", "retry"} :
               Records("live", f, heldSeq + 1, status) /\ heldSeq' = heldSeq + 1
        BY <2>2 DEF ParksFailure
      <3>2. Cardinality(reported \ (actors["live"].todo \ {f})) = Parked + 1
        BY <3>1, ParksAFailure
      <3>3. reported \ (actors["live"].todo \ {f}) \subseteq after
        BY <1>1, <3>1 DEF after, Records
      <3>4. Parked + 1 <= Parked'
        BY <1>3, <1>5, <3>2, <3>3, FS_Subset
      <3> QED
        BY <1>7, <1>8, <3>1, <3>4
    <2> QED
      BY <2>1, <2>2, RunningTable DEF TableStep
  <1>10. ASSUME NEW id \in LocalIds, disk'[id] # NoRecord PROVE id <= Parked'
    <2>0. id \in Ids /\ id \in Nat /\ id \notin Bodies
      BY Basics DEF LocalIds
    <2>1. CASE disk'[id] = disk[id]
      BY <1>7, <1>10, <2>0, <2>1 DEF CountInv
    <2>2. CASE disk'[id] = memory'[id]
      <3>1. Names(id) # {}
        <4>1. CASE memory'[id] = memory[id]
          BY <1>10, <2>0, <2>2, <4>1 DEF NamesInv, Names
        <4>2. ASSUME NEW a \in Actors, Owns(a, id, memory'[id]) PROVE Names(id) # {}
          <5>1. actors[a].id = id /\ actors[a].pc \in {"record", "restore"} \union Deciding
            BY <2>0, <4>2 DEF Owns, At, Deciding
          <5>2. actors[a].body \in Held(id) /\ actors[a].body # Nil
            BY <5>1, Basics DEF Held, Shape, ActorShape
          <5> QED
            BY <5>2 DEF Names
        <4> QED
          BY <2>0, <4>1, <4>2, RunningStore DEF StoreStep
      <3>2. id <= heldSeq
        BY <3>1, LocalBelow, RunningUp
      <3> QED
        BY <1>7, <1>8, <2>0, <3>2
    <2> QED
      BY <2>0, <2>1, <2>2, RunningStore DEF StoreStep
  <1>11. CountInv'
    BY <1>1, <1>9, <1>10 DEF CountInv
  <1> QED
    BY <1>7, <1>9, <1>11, Basics

LEMMA ActorsKept ==
    ASSUME TypeOK, Shape, CountInv, RunningStep
    PROVE  ActorTypes'
  <1>1. CASE QuietStep
    BY <1>1, TypeParts, QuietFacts DEF ActorTypes
  <1>2. CASE FaceBegins \/ SettleStep
    BY <1>2, MovesBegin, MovesSettling DEF FaceBegins, SettleStep, Only
  <1>3. CASE FaceStep
    BY <1>3, MovesRegistering, MovesReading, MovesStaging, MovesParking, MovesSending,
       MovesDelivering
    DEF FaceStep, Only
  <1>4. CASE CallerStep
    BY <1>4, MovesDeciding DEF CallerStep, Only
  <1>5. CASE RetireHeadless
    BY <1>5, MovesOfProcess DEF Only
  <1> QED
    BY <1>1, <1>2, <1>3, <1>4, <1>5 DEF RunningStep

LEMMA TypesKept ==
    ASSUME TypeOK, Shape, NamesInv, CountInv, RunningStep
    PROVE  TypeOK'
  <1>1. /\ StoreTypes' /\ ActorTypes' /\ TurnTypes' /\ ProcessTypes' /\ PastTypes'
        /\ pending' \in [Ids -> Body \union {Nil}] /\ heldSeq' \in 0..Cardinality(Failures)
    BY RunningStore, RunningTable, RunningTurn, RunningPast, CountKept, ActorsKept
    DEF StoreStep, TableStep
  <1> QED
    BY <1>1
    DEF TypeOK, StoreTypes, ActorTypes, TurnTypes, ProcessTypes, PastTypes, ActorType, Steps, RecordType

-----------------------------------------------------------------------------
(* An identity names one body.                                             *)

\* The body an actor has under an identity is one that stood there, or its own.
HeldStep(y) ==
    \/ actors'[y].body = Nil \/ actors'[y].id = Nil
    \/ actors'[y].id = actors[y].id /\ actors'[y].body = actors[y].body
    \/ actors'[y].id \in Bodies /\ actors'[y].body = actors'[y].id
    \/ actors'[y].id \in Ids /\ actors'[y].body = pending[actors'[y].id]
    \/ y = "live" /\ ParksFailure /\ actors'[y].id = heldSeq + 1

LEMMA HeldMoved ==
    ASSUME NEW a \in Actors, Only(a), HeldStep(a)
    PROVE  \A y \in Actors : HeldStep(y)
  <1> SUFFICES ASSUME NEW y \in Actors PROVE HeldStep(y)
    OBVIOUS
  <1>1. CASE y = a
    BY <1>1
  <1>2. CASE y # a
    BY <1>2 DEF Only, HeldStep
  <1> QED
    BY <1>1, <1>2

LEMMA RunningHeld ==
    ASSUME TypeOK, Shape, CountInv, RunningStep
    PROVE  \A y \in Actors : HeldStep(y)
  <1> USE Basics
  <1>0. /\ ActorTypes /\ Registrars \subseteq Actors /\ Faces \subseteq Actors
        /\ \A a \in Actors : ActorShape(a)
    BY Basics, TypeParts DEF Shape
  <1>1. CASE QuietStep
    <2>1. actors' = actors
      BY <1>1, QuietFacts
    <2> QED
      BY <2>1 DEF HeldStep
  <1>2. CASE FaceBegins \/ SettleStep
    BY <1>0, <1>2, MovesBegin, MovesSettling, HeldMoved
    DEF FaceBegins, SettleStep, Fresh, Goes, Rests, HeldStep
  <1>3. ASSUME NEW a \in Registrars,
               Enter(a) \/ SyncOwed(a) \/ RegistrationFails(a) \/ ReadRecord(a) \/ PutOwed(a)
        PROVE  \A y \in Actors : HeldStep(y)
    <2>1. CASE Enter(a) \/ SyncOwed(a) \/ RegistrationFails(a)
      BY <1>0, <2>1, MovesRegistering, HeldMoved DEF Fresh, Rests, Goes, HeldStep
    <2>2. CASE ReadRecord(a)
      <3>1. actors[a].body = Nil
        BY <1>0, <2>2 DEF ReadRecord, At, ActorShape, Registering
      <3> QED
        BY <1>0, <2>2, <3>1, MovesReading, HeldMoved DEF Chooses, Reads, HeldStep
    <2>3. CASE PutOwed(a)
      BY <1>0, <2>3, MovesStaging, HeldMoved DEF Stages, HeldStep
    <2> QED
      BY <1>3, <2>1, <2>2, <2>3
  <1>4. ASSUME NEW a \in Faces,
               HoldBody(a) \/ ChannelRefuses(a) \/ SendBody(a) \/ NoSender(a) \/ RecordState(a) \/ Delivered(a)
        PROVE  \A y \in Actors : HeldStep(y)
    <2>1. CASE HoldBody(a) \/ ChannelRefuses(a)
      <3>1. PICK b \in actors[a].todo, status \in {"held", "retry"} :
               Only(a) /\ ParkedBy(a, b, status)
        BY <2>1, MovesParking
      <3>2. At(a, "deliver")
        BY <2>1 DEF HoldBody, ChannelRefuses
      <3>3. CASE phase = "closing"
        BY <1>0, <3>1, <3>3, HeldMoved DEF ParkedBy, Drops, HeldStep
      <3>4. CASE phase # "closing" /\ b \in Bodies
        BY <1>0, <3>1, <3>4, HeldMoved DEF ParkedBy, Records, ParkedId, HeldStep
      <3>5. CASE phase # "closing" /\ b \notin Bodies
        <4>1. a = "live" /\ ParkedId(b) = heldSeq + 1
          BY <3>5, ParkedIdFacts
        <4>2. Records("live", b, heldSeq + 1, status) /\ heldSeq' = heldSeq + 1
          BY <3>1, <3>5, <4>1 DEF ParkedBy
        <4>3. ParksFailure
          BY <3>1, <3>2, <3>5, <4>1, <4>2 DEF ParksFailure
        <4> QED
          BY <1>0, <3>1, <4>1, <4>2, <4>3, HeldMoved DEF Records, HeldStep
      <3> QED
        BY <3>3, <3>4, <3>5
    <2>2. CASE SendBody(a)
      BY <1>0, <2>2, MovesSending, HeldMoved DEF Drops, Records, HeldStep
    <2>3. CASE NoSender(a) \/ RecordState(a) \/ Delivered(a)
      BY <1>0, <2>3, MovesDelivering, HeldMoved DEF Fresh, Rests, Drops, HeldStep
    <2> QED
      BY <1>4, <2>1, <2>2, <2>3
  <1>5. CASE CallerStep
    <2>1. PICK c \in Callers :
             \/ \E id \in Ids : ApproveDelivery(c, id) \/ RefuseDelivery(c, id)
             \/ ApprovedSent(c) \/ ApprovedRefused(c) \/ ApprovalRecorded(c)
             \/ RefusalRecorded(c) \/ DecisionNotRecorded(c)
             \/ AuditCommitted(c) \/ AuditRefused(c) \/ RestoreRecorded(c)
      BY <1>5 DEF CallerStep
    <2>2. Only(c) /\ \/ \E id \in Ids, pc \in {"send", "refuse"} : Takes(c, id, pc)
                     \/ \E pc \in {"receipt", "audit"} : Goes(c, pc)
                     \/ \E status \in {"held", "retry"} : Restored(c, status)
                     \/ Rests(c)
      BY <2>1, MovesDeciding
    <2>3. HeldStep(c)
      BY <2>2 DEF Takes, Goes, Restored, Rests, Fresh, HeldStep
    <2> QED
      BY <2>2, <2>3, HeldMoved
  <1>6. CASE RetireHeadless
    BY <1>0, <1>6, MovesOfProcess, HeldMoved DEF Rests, Fresh, Drops, HeldStep
  <1> QED
    BY <1>1, <1>2, <1>3, <1>4, <1>5, <1>6 DEF RunningStep, FaceStep

LEMMA NamesStep ==
    ASSUME TypeOK, Shape, NamesInv, CountInv, RunningStep, NEW id \in Ids, NEW x \in Names(id)'
    PROVE  \/ x \in Names(id)
           \/ id \in Bodies /\ x = id
           \/ ParksFailure /\ id = heldSeq + 1 /\ x = actors'["live"].body
  <1> USE Basics
  <1>1. ASSUME NEW a \in Actors, actors[a].id = id, actors[a].body = x PROVE x \in Names(id)
    BY <1>1 DEF Names, Held
  <1>2. ASSUME NEW a \in Actors, NEW record, Owns(a, id, record), record.body = x
        PROVE  x \in Names(id) \/ (id \in Bodies /\ x = id)
    BY <1>1, <1>2 DEF Owns, Record
  <1>3. CASE x = pending'[id]
    <2>1. CASE x = pending[id]
      BY <2>1 DEF Names
    <2>2. ASSUME NEW a \in Actors, Puts(a, id, x)
          PROVE  \/ x \in Names(id)
                 \/ id \in Bodies /\ x = id
                 \/ ParksFailure /\ id = heldSeq + 1 /\ x = actors'["live"].body
      <3>1. CASE actors[a].id = id /\ actors[a].body = x
        BY <1>1, <3>1
      <3>2. CASE /\ a \in Faces /\ x \in actors[a].todo /\ id = ParkedId(x)
                 /\ actors'[a].body = x /\ (x \notin Bodies => heldSeq' = heldSeq + 1)
        <4>1. x \in Bodies => id = x
          BY <3>2, ParkedIdFacts
        <4>2. ASSUME x \notin Bodies
              PROVE  ParksFailure /\ id = heldSeq + 1 /\ x = actors'["live"].body
          <5>1. a = "live" /\ id = heldSeq + 1
            BY <3>2, <4>2, ParkedIdFacts
          <5>2. heldSeq' # heldSeq
            BY <3>2, <4>2 DEF TypeOK
          <5>3. ParksFailure
            BY <5>2, RunningTable DEF TableStep
          <5> QED
            BY <3>2, <5>1, <5>3
        <4> QED
          BY <4>1, <4>2
      <3> QED
        BY <2>2, <3>1, <3>2 DEF Puts
    <2>3. x # Nil
      BY DEF Names
    <2> QED
      BY <1>3, <2>1, <2>2, <2>3, RunningTable DEF TableStep
  <1>4. CASE x = memory'[id].body
    <2>1. CASE memory'[id] = memory[id]
      BY <1>4, <2>1 DEF Names
    <2> QED
      BY <1>2, <1>4, <2>1, RunningStore DEF StoreStep
  <1>5. CASE x = disk'[id].body
    <2>1. CASE disk'[id] = disk[id]
      BY <1>5, <2>1 DEF Names
    <2>2. CASE disk'[id] = memory'[id]
      BY <1>4, <1>5, <2>2
    <2> QED
      BY <2>1, <2>2, RunningStore DEF StoreStep
  <1>6. CASE x \in Held(id)'
    <2>1. PICK y \in Actors : actors'[y].id = id /\ actors'[y].body = x
      BY <1>6 DEF Held
    <2>2. HeldStep(y) /\ x # Nil /\ id # Nil
      BY RunningHeld DEF Names
    <2>3. CASE x = pending[id]
      BY <2>2, <2>3 DEF Names
    <2> QED
      BY <1>1, <2>1, <2>2, <2>3 DEF HeldStep
  <1> QED
    BY <1>3, <1>4, <1>5, <1>6 DEF Names

LEMMA NamesKept ==
    ASSUME TypeOK, Shape, NamesInv, CountInv, RunningStep
    PROVE  NamesInv'
  <1> USE Basics
  <1>0. heldSeq \in Nat /\ phase # "down" /\ TableStep /\ StoreStep
    BY ParkedFacts, RunningUp, RunningTable, RunningStore
  <1>1. ASSUME NEW id \in Ids, NEW record \in {memory'[id], disk'[id]}, record # NoRecord
        PROVE  record.status # "none" /\ record.body # Nil
    <2>1. ASSUME NEW a \in Actors, Owns(a, id, record)
          PROVE  record.status # "none" /\ record.body # Nil
      <3>1. ActorShape(a)
        BY DEF Shape
      <3> QED
        BY <2>1, <3>1 DEF Owns, Record, ActorShape, At, Deciding
    <2>2. record \in {memory[id], disk[id]} \/ \E a \in Actors : Owns(a, id, record)
      BY <1>0 DEF StoreStep
    <2> QED
      BY <1>1, <2>1, <2>2 DEF NamesInv
  <1>2. ASSUME ParksFailure
        PROVE  heldSeq' = heldSeq + 1 /\ heldSeq + 1 \in LocalIds /\ Names(heldSeq + 1) = {}
    <2>1. PICK f \in actors["live"].todo \ Bodies : heldSeq' = heldSeq + 1
      BY <1>2 DEF ParksFailure
    <2>2. heldSeq + 1 \in LocalIds
      BY <2>1, ParksAFailure
    <2> QED
      BY <1>0, <2>1, <2>2 DEF NamesInv
  <1>3. ASSUME NEW id \in Ids, NEW x \in Names(id)', NEW y \in Names(id)' PROVE x = y
    <2>1. CASE id \in Bodies
      <3>1. id \notin LocalIds /\ Names(id) \subseteq {id}
        BY <2>1 DEF NamesInv
      <3> QED
        BY <1>2, <3>1, NamesStep
    <2>2. CASE id \notin Bodies
      BY <1>2, <2>2, NamesStep DEF NamesInv
    <2> QED
      BY <2>1, <2>2
  <1>4. ASSUME NEW b \in Bodies PROVE (Names(b) \subseteq {b})'
    <2>1. b \notin LocalIds /\ b \in Ids /\ Names(b) \subseteq {b}
      BY DEF NamesInv
    <2>2. ASSUME NEW x \in Names(b)' PROVE x = b
      BY <1>2, <2>1, NamesStep
    <2> QED
      BY <2>2
  <1>5. ASSUME NEW id \in LocalIds, id > heldSeq', NEW x \in Names(id)' PROVE FALSE
    <2>1. id \in Ids /\ id \notin Bodies /\ id \in Nat
      BY DEF LocalIds
    <2>2. id > heldSeq /\ ~(ParksFailure /\ id = heldSeq + 1)
      <3>1. CASE ParksFailure
        BY <1>0, <1>2, <1>5, <2>1, <3>1
      <3>2. CASE ~ParksFailure
        <4>1. heldSeq' = heldSeq
          BY <1>0, <3>2 DEF TableStep
        <4> QED
          BY <1>5, <3>2, <4>1
      <3> QED
        BY <3>1, <3>2
    <2> QED
      BY <1>0, <2>1, <2>2, NamesStep DEF NamesInv
  <1> QED
    BY <1>1, <1>3, <1>4, <1>5 DEF NamesInv

-----------------------------------------------------------------------------
(* What the records tell.                                                  *)

LEMMA EntryStays ==
    ASSUME RunningStep
    PROVE  atEntry' => atEntry
  <1>1. CASE QuietStep
    BY <1>1, QuietFacts
  <1>2. CASE FaceBegins \/ SettleStep \/ RetireHeadless
    BY <1>2
    DEF FaceBegins, SettleStep, LiveDelivers, LiveBegins, HandoffBegins, SettleBegins,
        FailureBegins, AttemptRecorded, SettleConsumes, RetireHeadless, turn
  <1>3. CASE FaceStep
    BY <1>3
    DEF FaceStep, Enter, ReadRecord, PutOwed, SyncOwed, RegistrationFails, HoldBody,
        ChannelRefuses, SendBody, NoSender, RecordState, Delivered, turn
  <1>4. CASE CallerStep
    BY <1>4
    DEF CallerStep, ApproveDelivery, RefuseDelivery, ApprovedSent, ApprovedRefused,
        ApprovalRecorded, RefusalRecorded, DecisionNotRecorded, AuditCommitted, AuditRefused,
        RestoreRecorded, turn
  <1> QED
    BY <1>1, <1>2, <1>3, <1>4 DEF RunningStep

\* A record that was there stays, whatever it comes to tell.
LEMMA RecordsStay ==
    ASSUME TypeOK, Shape, RunningStep, NEW id \in Ids, memory[id].status # "none"
    PROVE  memory'[id].status # "none"
  <1>1. ASSUME NEW a \in Actors, NEW record, Owns(a, id, record) PROVE record.status # "none"
    <2>1. ActorShape(a)
      BY DEF Shape
    <2> QED
      BY <1>1, <2>1 DEF Owns, Record, ActorShape, At, Deciding
  <1> QED
    BY <1>1, RunningStore DEF StoreStep

LEMMA RecordsKept ==
    ASSUME TypeOK, Shape, AccountInv, RunningStep
    PROVE  RecordAccount'
  <1>1. StoreStep /\ accepted \subseteq accepted' /\ refusals \subseteq refusals'
        /\ (atEntry' => atEntry)
    BY RunningStore, RunningPast, EntryStays
  <1>2. ASSUME NEW id \in Ids, NEW record \in {memory'[id], disk'[id]}
        PROVE  /\ record.status = "sent" => record.body \in accepted'
               /\ record.status = "refused" => id \in refusals'
               /\ record.status = "headless" => ~atEntry'
    <2>1. ASSUME NEW a \in Actors, Owns(a, id, record)
          PROVE  /\ record.status = "sent" => record.body \in accepted
                 /\ record.status = "refused" => id \in refusals
                 /\ record.status = "headless" => ~atEntry
      <3>1. ActorShape(a) /\ ActorAccount(a)
        BY DEF Shape, AccountInv
      <3> QED
        BY <2>1, <3>1 DEF Owns, Record, ActorShape, ActorAccount, At, Deciding
    <2>2. record \in {memory[id], disk[id]} \/ \E a \in Actors : Owns(a, id, record)
      BY <1>1 DEF StoreStep
    <2> QED
      BY <1>1, <2>1, <2>2 DEF AccountInv, RecordAccount
  <1> QED
    BY <1>2 DEF RecordAccount

\* Another actor's step leaves what an actor is about to record.
LEMMA AccountOfOthers ==
    ASSUME TypeOK, Shape, AccountInv, RunningStep, NEW a \in Actors, actors'[a] = actors[a]
    PROVE  ActorAccount(a)'
  <1>1. /\ accepted \subseteq accepted' /\ refusals \subseteq refusals' /\ (atEntry' => atEntry)
        /\ ActorAccount(a)
    BY RunningPast, EntryStays DEF AccountInv
  <1>2. actors[a].owed \subseteq Ids
    BY Basics, TypeParts DEF ActorTypes, ActorType
  <1> QED
    BY <1>1, <1>2, RecordsStay DEF ActorAccount, At

LEMMA AccountMoved ==
    ASSUME TypeOK, Shape, AccountInv, RunningStep, NEW a \in Actors, Only(a), ActorAccount(a)'
    PROVE  \A x \in Actors : ActorAccount(x)'
  <1> SUFFICES ASSUME NEW x \in Actors PROVE ActorAccount(x)'
    OBVIOUS
  <1> QED
    BY AccountOfOthers DEF Only

LEMMA ActorAccountKept ==
    ASSUME TypeOK, Shape, NamesInv, CountInv, AccountInv, RunningStep
    PROVE  \A x \in Actors : ActorAccount(x)'
  <1> USE Basics
  <1>0. /\ ActorTypes /\ Registrars \subseteq Actors /\ Faces \subseteq Actors
        /\ \A a \in Actors : ActorShape(a) /\ ActorAccount(a) /\ actors[a] \in ActorType
        /\ accepted \subseteq accepted' /\ refusals \subseteq refusals' /\ (atEntry' => atEntry)
    BY Basics, TypeParts, RunningPast, EntryStays DEF Shape, AccountInv, ActorTypes
  <1>1. CASE QuietStep
    <2>1. actors' = actors
      BY <1>1, QuietFacts
    <2> QED
      BY <2>1, AccountOfOthers
  <1>2. ASSUME NEW a \in Actors, NEW pc \in {"idle", "attempt", "enter", "deliver", "consume"}, NEW todo,
               Fresh(a, pc, todo)
        PROVE  ActorAccount(a)'
    BY <1>2 DEF Fresh, ActorAccount, At
  <1>3. CASE FaceBegins
    BY <1>0, <1>2, <1>3, MovesBegin, AccountMoved DEF FaceBegins
  <1>11. CASE SettleStep
    <2>1. Only("settle") /\ (Rests("settle") \/ Goes("settle", "enter"))
      BY <1>11, MovesSettling DEF SettleStep
    <2>2. CASE Rests("settle")
      BY <1>2, <2>1, <2>2, AccountMoved DEF Rests
    <2>3. CASE Goes("settle", "enter")
      <3>1. ActorAccount("settle") /\ actors["settle"].owed \subseteq Ids
        BY <1>0 DEF ActorType
      <3>2. ActorAccount("settle")'
        BY <1>0, <2>3, <3>1, RecordsStay DEF Goes, Keeps, ActorAccount, At
      <3> QED
        BY <2>1, <3>2, AccountMoved
    <2> QED
      BY <2>1, <2>2, <2>3
  <1>4. ASSUME NEW a \in Registrars, Enter(a) \/ SyncOwed(a) \/ RegistrationFails(a)
        PROVE  \A x \in Actors : ActorAccount(x)'
    <2>1. Only(a) /\ \/ Goes(a, "read")
                     \/ \E pc \in {"idle", "consume", "deliver"}, todo \in SUBSET Body : Fresh(a, pc, todo)
      <3>1. actors[a].owed \subseteq Body
        BY <1>0 DEF ActorType
      <3> QED
        BY <1>4, <3>1, MovesRegistering DEF Rests
    <2>2. CASE Goes(a, "read")
      <3>1. actors[a].owed \subseteq Ids
        BY <1>0 DEF ActorType
      <3>2. ActorAccount(a)'
        BY <1>0, <2>2, <3>1, RecordsStay DEF Goes, Keeps, ActorAccount, At
      <3> QED
        BY <1>0, <2>1, <3>2, AccountMoved
    <2> QED
      BY <1>0, <1>2, <2>1, <2>2, AccountMoved
  <1>5. ASSUME NEW a \in Registrars, ReadRecord(a) PROVE \A x \in Actors : ActorAccount(x)'
    <2>1. memory' = memory /\ actors[a].owed \subseteq Ids
      BY <1>0, <1>5 DEF ReadRecord, store, ActorType
    <2>2. PICK b \in Bodies : Only(a) /\ \/ Chooses(a, b)
                                         \/ memory[b] # NoRecord /\ Reads(a, b)
      BY <1>5, MovesReading
    <2>3. ActorAccount(a)'
      BY <1>0, <2>1, <2>2 DEF Chooses, Reads, Keeps, ActorAccount, At, NamesInv
    <2> QED
      BY <1>0, <2>2, <2>3, AccountMoved
  <1>6. ASSUME NEW a \in Registrars, PutOwed(a) PROVE \A x \in Actors : ActorAccount(x)'
    <2> DEFINE b == actors[a].id
    <2>1. Only(a) /\ Stages(a, b) /\ b \in Bodies /\ actors[a].owed \subseteq Ids
      BY <1>0, <1>6, MovesStaging DEF ActorType
    <2>2. memory'[b].status = "owed"
      BY <1>6, <2>1, TypeParts DEF PutOwed, With, Record, StoreTypes
    <2>3. ActorAccount(a)'
      BY <1>0, <2>1, <2>2, RecordsStay DEF Stages, ActorAccount, At
    <2> QED
      BY <1>0, <2>1, <2>3, AccountMoved
  <1>7. ASSUME NEW a \in Faces, HoldBody(a) \/ ChannelRefuses(a) \/ SendBody(a) \/ NoSender(a)
        PROVE  \A x \in Actors : ActorAccount(x)'
    <2>1. At(a, "deliver") /\ actors[a].owed \subseteq Ids
      BY <1>0, <1>7 DEF HoldBody, ChannelRefuses, SendBody, NoSender, ActorType
    <2>2. Only(a) /\ \E b \in actors[a].todo :
             \/ Drops(a, b)
             \/ \E id, status : /\ Records(a, b, id, status)
                                /\ status \in {"held", "retry"} \/ b \in accepted'
      BY <1>7, MovesParking, MovesSending, MovesDelivering DEF ParkedBy
    <2>3. ActorAccount(a)'
      BY <1>0, <2>1, <2>2, RecordsStay DEF Drops, Records, Keeps, ActorAccount, At
    <2> QED
      BY <1>0, <2>2, <2>3, AccountMoved
  <1>8. ASSUME NEW a \in Faces, RecordState(a) \/ Delivered(a)
        PROVE  \A x \in Actors : ActorAccount(x)'
    BY <1>0, <1>2, <1>8, MovesDelivering, AccountMoved DEF Rests
  <1>9. CASE CallerStep
    <2>1. PICK c \in Callers :
             \/ \E id \in Ids : ApproveDelivery(c, id) \/ RefuseDelivery(c, id)
             \/ ApprovedSent(c) \/ ApprovedRefused(c) \/ ApprovalRecorded(c)
             \/ RefusalRecorded(c) \/ DecisionNotRecorded(c)
             \/ AuditCommitted(c) \/ AuditRefused(c) \/ RestoreRecorded(c)
      BY <1>9 DEF CallerStep
    <2>2. actors[c].owed \subseteq Ids /\ ActorAccount(c) /\ c \in Actors
      BY <1>0 DEF ActorType
    <2>3. ASSUME NEW id \in Ids, ApproveDelivery(c, id) \/ RefuseDelivery(c, id)
          PROVE  ActorAccount(c)'
      <3>1. \/ Takes(c, id, "send")
            \/ Takes(c, id, "refuse") /\ id \in refusals'
        BY <2>3, MovesDeciding DEF RefuseDelivery
      <3> QED
        BY <3>1 DEF Takes, ActorAccount, At
    <2>4. ASSUME ApprovedSent(c) PROVE ActorAccount(c)'
      <3>1. Goes(c, "receipt") /\ actors[c].body \in accepted'
        BY <2>4, MovesDeciding DEF ApprovedSent
      <3> QED
        BY <2>2, <3>1, RecordsStay DEF Goes, Keeps, ActorAccount, At
    <2>5. ASSUME RefusalRecorded(c) PROVE ActorAccount(c)'
      <3>1. Goes(c, "audit") /\ At(c, "refuse")
        BY <2>5, MovesDeciding DEF RefusalRecorded
      <3> QED
        BY <1>0, <2>2, <3>1, RecordsStay DEF Goes, Keeps, ActorAccount, At
    <2>6. ASSUME ApprovedRefused(c) \/ DecisionNotRecorded(c) \/ AuditRefused(c)
          PROVE  ActorAccount(c)'
      <3>1. PICK status \in {"held", "retry"} : Restored(c, status)
        BY <2>6, MovesDeciding
      <3>2. CASE Rests(c)
        BY <1>2, <2>2, <3>2 DEF Rests
      <3> QED
        BY <2>2, <3>1, <3>2, RecordsStay DEF Restored, Keeps, ActorAccount, At
    <2>7. ASSUME ApprovalRecorded(c) \/ AuditCommitted(c) \/ RestoreRecorded(c)
          PROVE  ActorAccount(c)'
      BY <1>2, <2>2, <2>7, MovesDeciding DEF Rests
    <2>8. Only(c) /\ ActorAccount(c)'
      BY <2>1, <2>3, <2>4, <2>5, <2>6, <2>7, MovesDeciding
    <2> QED
      BY <2>2, <2>8, AccountMoved
  <1>10. CASE RetireHeadless
    <2>1. Only("boot") /\ (Rests("boot") \/ \E b : Drops("boot", b))
      BY <1>10, MovesOfProcess
    <2>2. CASE Rests("boot")
      BY <1>2, <2>1, <2>2, AccountMoved DEF Rests
    <2>3. CASE \E b : Drops("boot", b)
      <3>1. ActorAccount("boot") /\ actors["boot"].owed \subseteq Ids /\ At("boot", "retire")
        BY <1>0, <1>10 DEF ActorType, RetireHeadless
      <3>2. ActorAccount("boot")'
        BY <1>0, <2>3, <3>1, RecordsStay DEF Drops, Keeps, ActorAccount, At
      <3> QED
        BY <2>1, <3>2, AccountMoved
    <2> QED
      BY <2>1, <2>2, <2>3
  <1> QED
    BY <1>1, <1>3, <1>4, <1>5, <1>6, <1>7, <1>8, <1>9, <1>10, <1>11 DEF RunningStep, FaceStep

LEMMA AccountKept ==
    ASSUME TypeOK, Shape, NamesInv, CountInv, AccountInv, RunningStep
    PROVE  AccountInv'
  <1> USE Basics
  <1>1. \A b \in Bodies : disk'[b].status # "none" => memory'[b].status # "none"
    BY RunningStore, RecordsStay DEF StoreStep, AccountInv
  <1>2. ASSUME NEW b \in Bodies, disk[b].status # "none" PROVE disk'[b].status # "none"
    BY <1>2, RunningStore, RecordsStay DEF StoreStep, AccountInv
  <1>3. ASSUME NEW b \in registered' PROVE disk'[b].status # "none"
    <2>1. b \in Bodies
      BY RunningPast DEF PastTypes
    <2>2. CASE b \in registered
      BY <1>2, <2>1, <2>2 DEF AccountInv
    <2>3. ASSUME NEW a \in Registrars, SyncOwed(a), b \notin registered
          PROVE  disk'[b].status # "none"
      <3>1. b \in actors[a].owed /\ disk' = memory /\ a \in Actors
        BY <2>3 DEF SyncOwed
      <3> QED
        BY <3>1 DEF AccountInv, ActorAccount
    <2> QED
      BY <2>2, <2>3, RunningPast
  <1> QED
    BY <1>1, <1>3, RecordsKept, ActorAccountKept DEF AccountInv

-----------------------------------------------------------------------------
(* Who takes a body in hand.                                               *)

\* An actor takes in hand what waits in the table, what a registration reads or
\* stages, and, the live face, what its registration meant to.
HandStep(a, id) ==
    InHand(a, id)' =>
       \/ InHand(a, id)
       \/ pending[id] # Nil
       \/ memory[id].status \in {"none", "owed"}
       \/ ~answered
       \/ actors["live"].pc \in Registering

LEMMA HandMoved ==
    ASSUME NEW a \in Actors, NEW id, Only(a), HandStep(a, id)
    PROVE  \A y \in Actors : HandStep(y, id)
  <1> SUFFICES ASSUME NEW y \in Actors, y # a PROVE HandStep(y, id)
    OBVIOUS
  <1>1. actors'[y] = actors[y]
    BY DEF Only
  <1> QED
    BY <1>1 DEF HandStep, InHand

LEMMA RestedHand ==
    ASSUME NEW a \in Actors, Rests(a), NEW id \in Ids
    PROVE  ~InHand(a, id)'
  BY Basics DEF Rests, Fresh, InHand

LEMMA RunningHand ==
    ASSUME TypeOK, Shape, NamesInv, CountInv, RunningStep, NEW id \in Ids
    PROVE  \A y \in Actors : HandStep(y, id)
  <1> USE Basics
  <1>0. /\ ActorTypes /\ Registrars \subseteq Actors /\ Faces \subseteq Actors
        /\ id # Nil /\ phase # "down"
    BY Basics, TypeParts, RunningUp
  <1>1. CASE QuietStep
    <2>1. actors' = actors
      BY <1>1, QuietFacts
    <2> QED
      BY <2>1 DEF HandStep, InHand
  <1>2. CASE FaceBegins
    <2>1. CASE LiveDelivers
      <3>1. ~answered /\ Only("live")
        BY <2>1, MovesBegin DEF LiveDelivers, LiveBegins
      <3> QED
        BY <3>1, HandMoved DEF HandStep
    <2>2. CASE HandoffBegins \/ SettleBegins
      BY <1>0, <2>2, MovesBegin, HandMoved DEF Fresh, HandStep, InHand, Registering
    <2>3. ASSUME NEW f \in Failures, FailureBegins(f) PROVE \A y \in Actors : HandStep(y, id)
      BY <1>0, <2>3, MovesBegin, HandMoved, BodiesAssumption DEF Fresh, HandStep, InHand
    <2> QED
      BY <1>2, <2>1, <2>2, <2>3 DEF FaceBegins
  <1>7. CASE SettleStep
    <2>1. CASE SettleConsumes
      BY <2>1, MovesSettling, RestedHand, HandMoved DEF HandStep
    <2>2. CASE AttemptRecorded
      <3>1. Only("settle") /\ Goes("settle", "enter") /\ At("settle", "attempt")
        BY <2>2, MovesSettling DEF AttemptRecorded
      <3>2. HandStep("settle", id)
        BY <3>1 DEF Goes, Keeps, HandStep, InHand, At, Registering
      <3> QED
        BY <3>1, <3>2, HandMoved
    <2> QED
      BY <1>7, <2>1, <2>2 DEF SettleStep
  <1>3. ASSUME NEW a \in Registrars,
               Enter(a) \/ SyncOwed(a) \/ RegistrationFails(a) \/ ReadRecord(a) \/ PutOwed(a)
        PROVE  \A y \in Actors : HandStep(y, id)
    <2>1. CASE Enter(a)
      <3>1. Only(a) /\ At(a, "enter")
        BY <2>1, MovesRegistering DEF Enter
      <3>2. CASE Goes(a, "read")
        <4>1. HandStep(a, id)
          BY <3>1, <3>2 DEF Goes, Keeps, At, HandStep, InHand, Registering
        <4> QED
          BY <1>0, <3>1, <4>1, HandMoved
      <3>3. CASE Fresh(a, "consume", {}) \/ Rests(a)
        <4>1. HandStep(a, id)
          BY <1>0, <3>3 DEF Fresh, Rests, HandStep, InHand
        <4> QED
          BY <1>0, <3>1, <4>1, HandMoved
      <3> QED
        BY <2>1, <3>2, <3>3, MovesRegistering
    <2>2. CASE SyncOwed(a)
      BY <1>0, <2>2, MovesRegistering, HandMoved DEF Fresh, HandStep, InHand
    <2>3. CASE RegistrationFails(a)
      <3>1. CASE a = "live"
        <4>1. actors["live"].pc \in Registering /\ Only("live")
          BY <2>3, <3>1, MovesRegistering DEF RegistrationFails, At, Registering
        <4> QED
          BY <4>1, HandMoved DEF HandStep
      <3>2. CASE a # "live"
        BY <1>0, <2>3, <3>2, MovesRegistering, RestedHand, HandMoved DEF HandStep
      <3> QED
        BY <3>1, <3>2
    <2>4. CASE ReadRecord(a)
      <3>1. PICK b \in Bodies :
               Only(a) /\ \/ memory[b] = NoRecord /\ Chooses(a, b)
                          \/ memory[b] # NoRecord /\ Reads(a, b)
        BY <2>4, MovesReading
      <3>2. CASE memory[b] = NoRecord /\ Chooses(a, b)
        <4>1. memory[b].status = "none"
          BY <3>2 DEF NoRecord
        <4>2. HandStep(a, id)
          BY <3>2, <4>1 DEF Chooses, Keeps, HandStep, InHand, Registering
        <4> QED
          BY <1>0, <3>1, <4>2, HandMoved
      <3>3. CASE Reads(a, b)
        <4>1. HandStep(a, id)
          BY <3>3 DEF Reads, HandStep, InHand, Registering
        <4> QED
          BY <1>0, <3>1, <4>1, HandMoved
      <3> QED
        BY <3>1, <3>2, <3>3
    <2>5. CASE PutOwed(a)
      BY <1>0, <2>5, MovesStaging, HandMoved DEF Stages, HandStep, InHand, Registering
    <2> QED
      BY <1>3, <2>1, <2>2, <2>3, <2>4, <2>5
  <1>4. ASSUME NEW a \in Faces,
               HoldBody(a) \/ ChannelRefuses(a) \/ SendBody(a) \/ NoSender(a) \/ RecordState(a) \/ Delivered(a)
        PROVE  \A y \in Actors : HandStep(y, id)
    <2>0. actors[a].pc \in {"deliver", "record"}
      BY <1>4 DEF HoldBody, ChannelRefuses, SendBody, NoSender, RecordState, Delivered, At
    <2>1. CASE HoldBody(a) \/ ChannelRefuses(a)
      <3>1. PICK b \in actors[a].todo, status \in {"held", "retry"} :
               Only(a) /\ ParkedBy(a, b, status)
        BY <2>1, MovesParking
      <3>2. CASE phase = "closing"
        BY <1>0, <2>0, <3>1, <3>2, HandMoved
        DEF ParkedBy, Drops, Keeps, HandStep, InHand, Registering
      <3>3. CASE phase # "closing"
        <4>1. Records(a, b, ParkedId(b), status)
          BY <3>1, <3>3 DEF ParkedBy
        <4>2. CASE b \in Bodies
          <5>1. HandStep(a, id)
            BY <2>0, <4>1, <4>2 DEF Records, Keeps, ParkedId, HandStep, InHand, Registering
          <5> QED
            BY <1>0, <3>1, <5>1, HandMoved
        <4>3. CASE b \notin Bodies
          <5>1. ParkedId(b) = heldSeq + 1 /\ heldSeq + 1 \in LocalIds /\ heldSeq \in Nat
            BY <4>3, ParkedIdFacts, ParkedFacts
          <5>2. Names(heldSeq + 1) = {} /\ heldSeq + 1 \in Ids
            BY <1>0, <5>1 DEF NamesInv
          <5>3. memory[heldSeq + 1].status = "none"
            BY <5>2 DEF Names, NamesInv, NoRecord
          <5>4. HandStep(a, id)
            BY <2>0, <4>1, <5>1, <5>3 DEF Records, Keeps, HandStep, InHand, Registering
          <5> QED
            BY <1>0, <3>1, <5>4, HandMoved
        <4> QED
          BY <4>2, <4>3
      <3> QED
        BY <3>2, <3>3
    <2>2. CASE SendBody(a)
      BY <1>0, <2>0, <2>2, MovesSending, HandMoved
      DEF Drops, Records, Keeps, HandStep, InHand, Registering
    <2>3. CASE RecordState(a) \/ Delivered(a)
      BY <1>0, <2>0, <2>3, MovesDelivering, HandMoved, ZenonT(60)
      DEF Fresh, Rests, HandStep, InHand, Registering
    <2>4. CASE NoSender(a)
      BY <1>0, <2>0, <2>4, MovesDelivering, HandMoved
      DEF Drops, Keeps, HandStep, InHand, Registering
    <2> QED
      BY <1>4, <2>1, <2>2, <2>3, <2>4
  <1>5. CASE CallerStep
    <2>1. PICK c \in Callers :
             \/ \E j \in Ids : ApproveDelivery(c, j) \/ RefuseDelivery(c, j)
             \/ ApprovedSent(c) \/ ApprovedRefused(c) \/ ApprovalRecorded(c)
             \/ RefusalRecorded(c) \/ DecisionNotRecorded(c)
             \/ AuditCommitted(c) \/ AuditRefused(c) \/ RestoreRecorded(c)
      BY <1>5 DEF CallerStep
    <2>2. ASSUME NEW j \in Ids, ApproveDelivery(c, j) \/ RefuseDelivery(c, j)
          PROVE  \A y \in Actors : HandStep(y, id)
      <3>1. pending[j] # Nil
        BY <2>2 DEF ApproveDelivery, RefuseDelivery, Take
      <3>2. Only(c) /\ \E pc \in {"send", "refuse"} : Takes(c, j, pc)
        BY <2>2, MovesDeciding
      <3>3. HandStep(c, id)
        BY <3>1, <3>2 DEF Takes, HandStep, InHand
      <3> QED
        BY <3>2, <3>3, HandMoved
    <2>3. ASSUME \/ ApprovedSent(c) \/ ApprovedRefused(c) \/ ApprovalRecorded(c)
                 \/ RefusalRecorded(c) \/ DecisionNotRecorded(c)
                 \/ AuditCommitted(c) \/ AuditRefused(c) \/ RestoreRecorded(c)
          PROVE  \A y \in Actors : HandStep(y, id)
      <3>1. Only(c) /\ \/ \E pc \in {"receipt", "audit"} : Goes(c, pc)
                       \/ \E status \in {"held", "retry"} : Restored(c, status)
                       \/ Rests(c)
        BY <2>3, MovesDeciding
      <3>2. actors[c].pc \in {"restore"} \union Deciding
        BY <2>3
        DEF ApprovedSent, ApprovedRefused, ApprovalRecorded, RefusalRecorded, DecisionNotRecorded,
            AuditCommitted, AuditRefused, RestoreRecorded, At, Deciding
      <3>3. HandStep(c, id)
        BY <3>1, <3>2
        DEF Goes, Restored, Rests, Fresh, Keeps, HandStep, InHand, Registering, Deciding
      <3> QED
        BY <3>1, <3>3, HandMoved
    <2> QED
      BY <2>1, <2>2, <2>3
  <1>6. CASE RetireHeadless
    <2>1. actors["boot"].pc = "retire"
      BY <1>6 DEF RetireHeadless, At
    <2> QED
      BY <1>0, <1>6, <2>1, MovesOfProcess, HandMoved
      DEF Rests, Fresh, Drops, Keeps, HandStep, InHand, Registering
  <1> QED
    BY <1>1, <1>2, <1>3, <1>4, <1>5, <1>6, <1>7 DEF RunningStep, FaceStep

\* A live face that is past its registration stays past it.
LEMMA LiveStays ==
    ASSUME TypeOK, Shape, CountInv, RunningStep, answered, actors["live"].pc \notin Registering
    PROVE  answered' /\ actors'["live"].pc \notin Registering
  <1> USE Basics
  <1>0. ActorTypes /\ Registrars \subseteq Actors /\ Faces \subseteq Actors
    BY Basics, TypeParts
  <1>1. CASE FaceBegins \/ SettleStep \/ QuietStep
    <2>1. CASE QuietStep
      BY <2>1, QuietFacts
    <2>2. CASE HandoffBegins \/ SettleBegins \/ SettleStep
      BY <2>2, MovesBegin, MovesSettling
      DEF HandoffBegins, SettleBegins, SettleStep, AttemptRecorded, SettleConsumes, Only, turn
    <2>3. ASSUME NEW f \in Failures, FailureBegins(f)
          PROVE  answered' /\ actors'["live"].pc \notin Registering
      BY <2>3, MovesBegin DEF FailureBegins, Fresh, Registering
    <2>4. ~LiveDelivers
      BY DEF LiveDelivers, LiveBegins
    <2> QED
      BY <1>1, <2>1, <2>2, <2>3, <2>4 DEF FaceBegins
  <1>2. ASSUME NEW a \in Registrars,
               Enter(a) \/ SyncOwed(a) \/ RegistrationFails(a) \/ ReadRecord(a) \/ PutOwed(a)
        PROVE  answered' /\ actors'["live"].pc \notin Registering
    <2>1. answered' = answered
      BY <1>2 DEF Enter, SyncOwed, RegistrationFails, ReadRecord, PutOwed, turn
    <2>2. actors[a].pc \in Registering
      BY <1>2 DEF Enter, SyncOwed, RegistrationFails, ReadRecord, PutOwed, At, Registering
    <2>3. Only(a) /\ a # "live"
      BY <1>2, <2>2, MovesRegistering, MovesReading, MovesStaging
    <2> QED
      BY <1>0, <2>1, <2>3 DEF Only
  <1>3. ASSUME NEW a \in Faces,
               HoldBody(a) \/ ChannelRefuses(a) \/ SendBody(a) \/ NoSender(a) \/ RecordState(a) \/ Delivered(a)
        PROVE  answered' /\ actors'["live"].pc \notin Registering
    <2>1. answered' = answered
      BY <1>3 DEF HoldBody, ChannelRefuses, SendBody, NoSender, RecordState, Delivered, turn
    <2>2. actors[a].pc \in {"deliver", "record"}
      BY <1>3 DEF HoldBody, ChannelRefuses, SendBody, NoSender, RecordState, Delivered, At
    <2>3. Only(a) /\ actors'[a].pc \notin Registering
      <3>1. CASE HoldBody(a) \/ ChannelRefuses(a)
        BY <2>2, <3>1, MovesParking DEF ParkedBy, Drops, Records, Registering
      <3>2. CASE SendBody(a)
        BY <2>2, <3>2, MovesSending DEF Drops, Records, Registering
      <3>3. CASE NoSender(a) \/ RecordState(a) \/ Delivered(a)
        BY <2>2, <3>3, MovesDelivering DEF Fresh, Rests, Drops, Registering
      <3> QED
        BY <1>3, <3>1, <3>2, <3>3
    <2> QED
      BY <1>0, <2>1, <2>3 DEF Only
  <1>4. CASE CallerStep
    <2>1. answered' = answered
      BY <1>4
      DEF CallerStep, ApproveDelivery, RefuseDelivery, ApprovedSent, ApprovedRefused,
          ApprovalRecorded, RefusalRecorded, DecisionNotRecorded, AuditCommitted, AuditRefused,
          RestoreRecorded, turn
    <2>2. \E c \in Callers : Only(c)
      BY <1>4, MovesDeciding DEF CallerStep
    <2> QED
      BY <1>0, <2>1, <2>2, Basics, CallersAssumption DEF Only
  <1>5. CASE RetireHeadless
    BY <1>0, <1>5, MovesOfProcess DEF RetireHeadless, Only, turn
  <1> QED
    BY <1>1, <1>2, <1>3, <1>4, <1>5 DEF RunningStep, FaceStep

\* What is apart stays apart while the actors it is apart for stand still, and its
\* record is left alone.
LEMMA ApartKept ==
    ASSUME TypeOK, Shape, NamesInv, CountInv, RunningStep, NEW X \in SUBSET Callers,
           NEW id, Apart(id, X), \A x \in X : actors'[x] = actors[x]
    PROVE  /\ Apart(id, X)' /\ memory'[id] = memory[id]
           /\ disk'[id] \in {disk[id], memory[id]}
  <1> USE Basics
  <1>0. /\ id \in Ids /\ pending[id] = Nil /\ memory[id].status \notin {"none", "owed"}
        /\ answered /\ actors["live"].pc \notin Registering
        /\ \A a \in Actors \ X : ~InHand(a, id)
    BY DEF Apart
  <1>1. memory'[id] = memory[id] /\ disk'[id] \in {disk[id], memory[id]}
    <2>1. ASSUME NEW a \in Actors, NEW record, Owns(a, id, record), actors'[a] # actors[a]
          PROVE  FALSE
      <3>1. InHand(a, id)
        BY <2>1 DEF Owns, InHand, At, Registering
      <3> QED
        BY <1>0, <2>1, <3>1
    <2> QED
      BY <1>0, <2>1, RunningStore DEF StoreStep
  <1>2. pending'[id] = Nil
    <2>1. ASSUME NEW a \in Actors, Puts(a, id, pending'[id]) PROVE FALSE
      <3>1. CASE actors[a].pc \in Deciding /\ id = actors[a].id /\ actors'[a] # actors[a]
        BY <1>0, <3>1 DEF InHand
      <3>2. ASSUME a \in Faces, At(a, "deliver"), NEW body \in actors[a].todo, id = ParkedId(body)
            PROVE  FALSE
        <4>1. CASE body \in Bodies
          <5>1. InHand(a, id) /\ a \notin X
            BY <3>2, <4>1, CallersAssumption DEF ParkedId, InHand, At, Registering
          <5> QED
            BY <1>0, <5>1
        <4>2. CASE body \notin Bodies
          <5>1. id = heldSeq + 1 /\ id \in LocalIds /\ heldSeq \in Nat
            BY <3>2, <4>2, ParkedIdFacts, ParkedFacts
          <5>2. Names(id) = {}
            BY <5>1, RunningUp DEF NamesInv
          <5>3. memory[id].status = "none"
            BY <1>0, <5>2 DEF Names, NamesInv, NoRecord
          <5> QED
            BY <1>0, <5>3
        <4> QED
          BY <4>1, <4>2
      <3> QED
        BY <2>1, <3>1, <3>2 DEF Puts
    <2> QED
      BY <1>0, <2>1, RunningTable DEF TableStep
  <1>3. \A a \in Actors \ X : ~InHand(a, id)'
    BY <1>0, RunningHand DEF HandStep
  <1> QED
    BY <1>0, <1>1, <1>2, <1>3, LiveStays DEF Apart

-----------------------------------------------------------------------------
(* Clean decisions.                                                        *)

CallerActs(c) ==
    \/ \E id \in Ids : ApproveDelivery(c, id) \/ RefuseDelivery(c, id)
    \/ ApprovedSent(c) \/ ApprovedRefused(c) \/ ApprovalRecorded(c)
    \/ RefusalRecorded(c) \/ DecisionNotRecorded(c)
    \/ AuditCommitted(c) \/ AuditRefused(c) \/ RestoreRecorded(c)

LEMMA CallersMove ==
    ASSUME TypeOK, Shape, CountInv, RunningStep, NEW c \in Callers, actors'[c] # actors[c]
    PROVE  CallerActs(c)
  <1>0. /\ c \in Actors /\ c \notin Faces \union Registrars
        /\ {"live", "handoff", "boot", "settle"} \subseteq Faces \union Registrars
    BY Basics, CallersAssumption
  <1>1. CASE QuietStep
    BY <1>1, QuietFacts
  <1>2. ASSUME NEW a \in Faces \union Registrars, Only(a) PROVE FALSE
    BY <1>0, <1>2 DEF Only
  <1>3. CASE FaceBegins \/ SettleStep \/ RetireHeadless
    BY <1>0, <1>2, <1>3, MovesBegin, MovesSettling, MovesOfProcess DEF FaceBegins, SettleStep
  <1>4. CASE FaceStep
    BY <1>0, <1>2, <1>4, MovesRegistering, MovesReading, MovesStaging, MovesParking,
       MovesSending, MovesDelivering
    DEF FaceStep
  <1>5. CASE CallerStep
    <2>1. PICK d \in Callers : CallerActs(d)
      BY <1>5 DEF CallerStep, CallerActs
    <2>2. Only(d)
      BY <2>1, MovesDeciding DEF CallerActs
    <2> QED
      BY <1>0, <2>1, <2>2 DEF Only
  <1> QED
    BY <1>1, <1>3, <1>4, <1>5 DEF RunningStep

\* The caller of a clean decision leaves it apart.
LEMMA ApartMoved ==
    ASSUME NEW c \in Callers, NEW id, Only(c), Apart(id, {c}), pending'[id] = Nil,
           memory'[id].status \notin {"none", "owed"}, answered' = answered
    PROVE  Apart(id, {c})' /\ (~InHand(c, id)' => Apart(id, {})')
  <1>1. actors'["live"] = actors["live"]
    BY Basics, CallersAssumption DEF Only
  <1>2. ASSUME NEW a \in Actors \ {c} PROVE ~InHand(a, id)'
    <2>1. actors'[a] = actors[a] /\ ~InHand(a, id)
      BY DEF Only, Apart
    <2> QED
      BY <2>1 DEF InHand
  <1> QED
    BY <1>1, <1>2 DEF Apart

\* The decision of a caller, primed or not.
Decides(c) ==
    actors[c].alone /\ actors[c].pc \in Deciding =>
       /\ Apart(actors[c].id, {c})
       /\ At(c, "audit") => /\ memory[actors[c].id].status = "refused"
                            /\ disk[actors[c].id].status = "refused"

LEMMA DecidesKept ==
    ASSUME TypeOK, Shape, NamesInv, CountInv, CleanInv, RunningStep, NEW c \in Callers
    PROVE  Decides(c)'
  <1> USE Basics
  <1>0. Decides(c) /\ c \in Actors /\ StoreTypes /\ ActorShape(c)
    BY TypeParts DEF CleanInv, Decides, Shape
  <1>1. CASE actors'[c] = actors[c]
    <2> SUFFICES ASSUME actors[c].alone, actors[c].pc \in Deciding
                 PROVE  Decides(c)'
      BY <1>1 DEF Decides
    <2>1. Apart(actors[c].id, {c})
      BY <1>0 DEF Decides
    <2>2. /\ Apart(actors[c].id, {c})' /\ memory'[actors[c].id] = memory[actors[c].id]
          /\ disk'[actors[c].id] \in {disk[actors[c].id], memory[actors[c].id]}
      <3>1. PICK id : id = actors[c].id
        OBVIOUS
      <3>2. Apart(id, {c})' /\ memory'[id] = memory[id] /\ disk'[id] \in {disk[id], memory[id]}
        BY <1>1, <2>1, <3>1, ApartKept
      <3>3. id = actors'[c].id
        BY <1>1, <3>1
      <3> QED
        BY <3>1, <3>2, <3>3
    <2> QED
      BY <1>0, <1>1, <2>2 DEF Decides, At
  <1>2. CASE actors'[c] # actors[c]
    <2>0. CallerActs(c)
      BY <1>2, CallersMove
    <2>1. ASSUME NEW id \in Ids, ApproveDelivery(c, id) \/ RefuseDelivery(c, id)
          PROVE  Decides(c)'
      <3>1. \E pc \in {"send", "refuse"} : Take(c, id, pc)
        BY <2>1 DEF ApproveDelivery, RefuseDelivery
      <3>2. Only(c) /\ \E pc \in {"send", "refuse"} : Takes(c, id, pc)
        BY <2>1, MovesDeciding
      <3>3. memory' = memory /\ answered' = answered /\ pending'[id] = Nil
        BY <2>1, <3>1, TypeParts DEF ApproveDelivery, RefuseDelivery, Take, store, turn
      <3>4. ASSUME Alone(id) PROVE Apart(id, {c})'
        <4>1. actors'["live"] = actors["live"] /\ actors["live"].pc \notin Registering /\ answered
          <5>1. actors'["live"] = actors["live"]
            BY <3>2, CallersAssumption DEF Only
          <5>2. actors["live"].pc # "attempt"
            BY DEF Shape, ActorShape
          <5> QED
            BY <3>4, <5>1, <5>2 DEF Alone, Registering
        <4>2. ASSUME NEW a \in Actors \ {c} PROVE ~InHand(a, id)'
          <5>1. actors'[a] = actors[a]
            BY <3>2 DEF Only
          <5>2. actors[a].id # id /\ id \notin actors[a].todo \union actors[a].owed
            BY <3>4 DEF Alone
          <5> QED
            BY <5>1, <5>2 DEF InHand
        <4>3. memory'[id].status \notin {"none", "owed"}
          BY <3>3, <3>4 DEF Alone
        <4> QED
          BY <3>3, <4>1, <4>2, <4>3 DEF Apart
      <3>5. actors'[c].id = id /\ actors'[c].alone = Alone(id) /\ actors'[c].pc \in {"send", "refuse"}
        BY <3>2 DEF Takes
      <3> QED
        BY <3>4, <3>5 DEF Decides, At
    <2>2. ASSUME ApprovedSent(c) PROVE Decides(c)'
      <3>1. Only(c) /\ Goes(c, "receipt") /\ At(c, "send")
        BY <2>2, MovesDeciding DEF ApprovedSent
      <3>2. UNCHANGED <<memory, pending, answered>>
        BY <2>2 DEF ApprovedSent, store, table, turn
      <3>3. PICK id : id = actors[c].id
        OBVIOUS
      <3>4. ASSUME actors[c].alone PROVE Apart(id, {c})'
        <4>1. Apart(id, {c})
          BY <1>0, <3>1, <3>3, <3>4 DEF Decides, At, Deciding
        <4> QED
          BY <3>1, <3>2, <4>1, ApartMoved DEF Apart
      <3>5. actors'[c].id = id /\ actors'[c].alone = actors[c].alone /\ actors'[c].pc = "receipt"
        BY <3>1, <3>3 DEF Goes, Keeps
      <3> QED
        BY <3>4, <3>5 DEF Decides, At
    <2>3. ASSUME RefusalRecorded(c) PROVE Decides(c)'
      <3>1. Only(c) /\ Goes(c, "audit") /\ At(c, "refuse")
        BY <2>3, MovesDeciding DEF RefusalRecorded
      <3>2. UNCHANGED <<pending, answered>>
        BY <2>3 DEF RefusalRecorded, table, turn
      <3>3. PICK id : id = actors[c].id
        OBVIOUS
      <3>4. memory'[id].status = "refused" /\ disk'[id].status = "refused"
        <4>1. id \in Ids
          BY <1>0, <3>1, <3>3 DEF ActorShape, At, Deciding
        <4> QED
          BY <1>0, <2>3, <3>3, <4>1 DEF RefusalRecorded, Stored, With, Record, StoreTypes
      <3>5. ASSUME actors[c].alone PROVE Apart(id, {c})'
        <4>1. Apart(id, {c})
          BY <1>0, <3>1, <3>3, <3>5 DEF Decides, At, Deciding
        <4>2. pending'[id] = Nil
          BY <3>2, <4>1 DEF Apart
        <4> QED
          BY <3>1, <3>2, <3>4, <4>1, <4>2, ApartMoved
      <3>6. actors'[c].id = id /\ actors'[c].alone = actors[c].alone
        BY <3>1, <3>3 DEF Goes, Keeps
      <3> QED
        BY <3>4, <3>5, <3>6 DEF Decides, At
    <2>4. ASSUME \/ ApprovedRefused(c) \/ DecisionNotRecorded(c) \/ AuditRefused(c)
                 \/ ApprovalRecorded(c) \/ AuditCommitted(c) \/ RestoreRecorded(c)
          PROVE  Decides(c)'
      <3>1. actors'[c].pc \in {"idle", "restore"}
        BY <2>4, MovesDeciding DEF Restored, Rests, Fresh
      <3> QED
        BY <3>1 DEF Decides, Deciding
    <2> QED
      BY <2>0, <2>1, <2>2, <2>3, <2>4 DEF CallerActs
  <1> QED
    BY <1>1, <1>2

\* An answered clean decision.
Stands(d) ==
    d.alone => Apart(d.id, {}) /\ memory[d.id].status = d.verdict /\ disk[d.id].status = d.verdict

LEMMA FiledStands ==
    ASSUME TypeOK, Shape, NamesInv, CountInv, CleanInv, NEW c \in Callers, Files(c),
           actors[c].alone, NEW verdict \in {"sent", "refused"},
           verdict = IF At(c, "receipt") THEN "sent" ELSE "refused",
           NEW id, id = actors[c].id
    PROVE  Apart(id, {})' /\ memory'[id].status = verdict /\ disk'[id].status = verdict
  <1> USE Basics
  <1>0. Decides(c) /\ c \in Actors /\ StoreTypes /\ ActorShape(c) /\ actors[c].pc \in Deciding
    BY TypeParts DEF CleanInv, Decides, Shape, Files, At, Deciding
  <1>2. id \in Ids /\ Apart(id, {c}) /\ pending[id] = Nil
    BY <1>0 DEF Decides, ActorShape, Apart
  <1>3. Only(c) /\ Rests(c)
    BY MovesDeciding DEF Files
  <1>4. ~InHand(c, id)'
    BY <1>0, <1>2, <1>3, RestedHand
  <1>5. UNCHANGED <<pending, answered>>
    BY DEF Files, ApprovalRecorded, AuditCommitted, table, turn
  <1>6. memory'[id].status = verdict /\ disk'[id].status = verdict
    <2>1. CASE ApprovalRecorded(c)
      BY <1>0, <1>2, <2>1
      DEF ApprovalRecorded, Stored, With, Record, StoreTypes
    <2>2. CASE AuditCommitted(c)
      <3>1. UNCHANGED <<memory, disk>> /\ At(c, "audit") /\ verdict = "refused"
        BY <2>2 DEF AuditCommitted, store, At
      <3> QED
        BY <1>0, <3>1 DEF Decides
    <2> QED
      BY <2>1, <2>2 DEF Files
  <1>7. Apart(id, {})'
    BY <1>2, <1>3, <1>4, <1>5, <1>6, ApartMoved
  <1> QED
    BY <1>6, <1>7

LEMMA CleanKept ==
    ASSUME TypeOK, Shape, NamesInv, CountInv, CleanInv, RunningStep
    PROVE  CleanInv'
  <1>1. \A c \in Callers : Decides(c)'
    BY DecidesKept
  <1>2. ASSUME NEW d \in decisions', d.alone
        PROVE  /\ Apart(d.id, {})' /\ memory'[d.id].status = d.verdict
               /\ disk'[d.id].status = d.verdict
    <2>1. CASE d \in decisions
      <3>1. Apart(d.id, {}) /\ memory[d.id].status = d.verdict /\ disk[d.id].status = d.verdict
        BY <1>2, <2>1 DEF CleanInv
      <3>2. PICK id : id = d.id
        OBVIOUS
      <3>3. Apart(id, {})' /\ memory'[id] = memory[id] /\ disk'[id] \in {disk[id], memory[id]}
        BY <3>1, <3>2, ApartKept
      <3> QED
        BY <3>1, <3>2, <3>3
    <2>2. CASE d \notin decisions
      <3>1. PICK c \in Callers : Files(c)
        BY <1>2, <2>2, RunningPast
      <3> DEFINE verdict == IF At(c, "receipt") THEN "sent" ELSE "refused"
      <3>2. decisions' = decisions \union
               {[id |-> actors[c].id, verdict |-> verdict, alone |-> actors[c].alone]}
        BY <3>1 DEF Files, Decided, At
      <3>3. d = [id |-> actors[c].id, verdict |-> verdict, alone |-> actors[c].alone]
        BY <1>2, <2>2, <3>2
      <3>4. d.id = actors[c].id /\ d.verdict = verdict /\ actors[c].alone
        BY <1>2, <3>3
      <3>5. verdict \in {"sent", "refused"}
        OBVIOUS
      <3>6. PICK id : id = actors[c].id
        OBVIOUS
      <3>7. Apart(id, {})' /\ memory'[id].status = verdict /\ disk'[id].status = verdict
        BY <3>1, <3>4, <3>5, <3>6, FiledStands
      <3> QED
        BY <3>4, <3>6, <3>7
    <2> QED
      BY <2>1, <2>2
  <1> QED
    BY <1>1, <1>2 DEF CleanInv, Decides

LEMMA RunningKept ==
    ASSUME DeliveryInv, RunningStep
    PROVE  DeliveryInv'
  BY TypesKept, ShapeKept, NamesKept, CountKept, AccountKept, CleanKept DEF DeliveryInv

-----------------------------------------------------------------------------
(* The process stops and starts.                                           *)

LEMMA StopKept ==
    ASSUME DeliveryInv, Stop
    PROVE  DeliveryInv'
  <1> USE Basics DEF DeliveryInv
  <1>0. /\ ActorTypes' /\ (\A a \in Actors : Rests(a)) /\ UNCHANGED <<memory, disk>>
        /\ UNCHANGED <<sender, noticed, landed, atEntry, reported, stranded, faults>>
        /\ seat' \in {seat, "pending"}
        /\ UNCHANGED <<accepted, registered, refusals, decisions>>
        /\ pending' = [id \in Ids |-> Nil] /\ heldSeq' = 0 /\ phase' = "down" /\ answered' = TRUE
        /\ stops' = stops + 1 /\ stops < MaxStops
    BY MovesOfProcess DEF Stop, store, past, NoPending
  <1>1. TypeOK'
    <2>1. /\ StoreTypes /\ TurnTypes /\ ProcessTypes /\ PastTypes
      BY TypeParts
    <2>2. StoreTypes' /\ TurnTypes' /\ PastTypes'
      BY <1>0, <2>1 DEF StoreTypes, TurnTypes, PastTypes
    <2>3. ProcessTypes'
      BY <1>0, <2>1, BoundsAssumption DEF ProcessTypes
    <2>4. pending' \in [Ids -> Body \union {Nil}] /\ heldSeq' \in 0..Cardinality(Failures)
      BY <1>0
    <2>5. ActorTypes'
      BY <1>0
    <2> QED
      BY <2>2, <2>3, <2>4, <2>5
      DEF TypeOK, StoreTypes, ActorTypes, TurnTypes, ProcessTypes, PastTypes, ActorType, Steps, RecordType
  <1>2. Shape'
    <2>1. \A a \in Actors : ActorShape(a)'
      BY <1>0, RestedShape
    <2>2. pending' = NoPending /\ \A a \in Actors : actors'[a].pc = "idle"
      BY <1>0 DEF NoPending, Rests, Fresh
    <2> QED
      BY <2>1, <2>2 DEF Shape, At
  <1>3. NamesInv'
    <2>1. ASSUME NEW id \in Ids PROVE Names(id)' \subseteq Names(id)
      <3>1. Held(id)' \subseteq {Nil}
        BY <1>0 DEF Held, Rests, Fresh
      <3> QED
        BY <1>0, <3>1 DEF Names
    <2>2. \A id \in Ids : \A record \in {memory'[id], disk'[id]} :
             record # NoRecord => record.status # "none" /\ record.body # Nil
      BY <1>0 DEF NamesInv
    <2>3. \A id \in Ids : \A x, y \in Names(id)' : x = y
      BY <2>1 DEF NamesInv
    <2>4. \A b \in Bodies : Names(b)' \subseteq {b}
      BY <2>1 DEF NamesInv
    <2> QED
      BY <1>0, <2>2, <2>3, <2>4 DEF NamesInv
  <1>4. CountInv'
    <2>1. actors'["live"].todo = {} /\ IsFiniteSet(reported)
      BY <1>0, FS_Subset DEF Rests, Fresh, TypeOK
    <2>2. Parked' = Cardinality(reported)
      BY <1>0, <2>1 DEF Parked
    <2>3. Parked' \in Nat /\ Parked <= Parked' /\ Parked \in Nat
      BY <2>1, <2>2, ParkedFacts, FS_Subset, FS_CardinalityType DEF Parked
    <2>4. ASSUME NEW id \in LocalIds, disk'[id] # NoRecord PROVE id <= Parked'
      <3>1. id \in Nat /\ id <= Parked
        BY <1>0, <2>4 DEF CountInv, LocalIds
      <3> QED
        BY <2>3, <3>1
    <2> QED
      BY <1>0, <2>1, <2>3, <2>4 DEF CountInv
  <1>5. AccountInv'
    <2>1. \A a \in Actors : ActorAccount(a)'
      BY <1>0 DEF Rests, Fresh, ActorAccount, At
    <2>2. RecordAccount'
      BY <1>0 DEF AccountInv, RecordAccount
    <2> QED
      BY <1>0, <2>1, <2>2 DEF AccountInv
  <1>6. CleanInv'
    <2>1. \A c \in Callers : actors'[c].pc \notin Deciding
      BY <1>0 DEF Rests, Fresh, Deciding
    <2>2. ASSUME NEW id, Apart(id, {}) PROVE Apart(id, {})'
      <3>1. id \in Ids /\ \A a \in Actors : ~InHand(a, id)'
        BY <1>0, <2>2, RestedHand DEF Apart
      <3>2. actors'["live"].pc \notin Registering
        BY <1>0 DEF Rests, Fresh, Registering
      <3> QED
        BY <1>0, <2>2, <3>1, <3>2 DEF Apart
    <2>3. ASSUME NEW d \in decisions', d.alone
          PROVE  /\ Apart(d.id, {})' /\ memory'[d.id].status = d.verdict
                 /\ disk'[d.id].status = d.verdict
      <3>1. PICK id : id = d.id
        OBVIOUS
      <3>2. Apart(id, {}) /\ memory[id].status = d.verdict /\ disk[id].status = d.verdict
        BY <1>0, <2>3, <3>1 DEF CleanInv
      <3>3. Apart(id, {})'
        BY <2>2, <3>2
      <3> QED
        BY <1>0, <3>1, <3>2, <3>3
    <2> QED
      BY <2>1, <2>3 DEF CleanInv
  <1> QED
    BY <1>1, <1>2, <1>3, <1>4, <1>5, <1>6

\* The sequence a new process restores is zero or a recorded identity, and the last.
LEMMA SequenceRestored ==
    ASSUME TypeOK
    PROVE  /\ RestoredSeq \in {0} \union {id \in LocalIds : disk[id] # NoRecord}
           /\ \A id \in LocalIds : disk[id] # NoRecord => id <= RestoredSeq
  <1> DEFINE seqs == {0} \union {id \in LocalIds : disk[id] # NoRecord}
             last == Cardinality(Failures)
             over == {n \in Nat : \A s \in seqs : s <= n}
             below == {p \in Nat \X Nat : p[1] < p[2]}
  <1>1. seqs \subseteq 0..last /\ last \in Nat /\ 0 \in seqs
    BY Basics DEF LocalIds
  <1>2. IsWellFoundedOn(below, Nat)
    BY NatLessThanWellFounded, Zenon DEF OpToRel
  <1>3. last \in over
    BY <1>1
  <1>4. PICK n \in over : \A m \in over : <<m, n>> \notin below
    <2> HIDE DEF below
    <2> QED
      BY <1>2, <1>3, WFMin
  <1>5. ASSUME NEW m \in over PROVE n <= m
    <2>1. m \in Nat /\ n \in Nat
      OBVIOUS
    <2>2. m < n => <<m, n>> \in below
      BY <2>1
    <2> HIDE DEF below, over
    <2>3. ~(m < n)
      BY <1>4, <2>2
    <2> QED
      BY <2>1, <2>3
  <1> HIDE DEF seqs
  <1>6. n \in seqs
    <2>1. CASE n = 0
      BY <1>1, <2>1
    <2>2. CASE n # 0 /\ n \notin seqs
      <3>1. n - 1 \in Nat /\ n \in Nat
        BY <2>2
      <3>2. \A s \in seqs : s \in Nat /\ s <= n /\ s # n
        BY <1>1, <2>2
      <3>3. n - 1 \in over
        BY <3>1, <3>2
      <3> QED
        BY <1>5, <3>1, <3>3
    <2> QED
      BY <2>1, <2>2
  <1>7. Max(seqs) \in seqs /\ \A s \in seqs : Max(seqs) >= s
    <2>1. \A s \in seqs : n >= s
      BY <1>1
    <2> QED
      BY <1>6, <2>1 DEF Max
  <1>8. RestoredSeq = Max(seqs)
    BY DEF RestoredSeq, seqs
  <1>9. \A s \in seqs : s <= Max(seqs)
    BY <1>1, <1>7
  <1> QED
    BY <1>7, <1>8, <1>9 DEF seqs

LEMMA RestartKept ==
    ASSUME DeliveryInv, Restart
    PROVE  DeliveryInv'
  <1> USE Basics DEF DeliveryInv
  <1>0. /\ Only("boot") /\ Fresh("boot", IF atEntry THEN "deliver" ELSE "retire", OwedAtBoot)
        /\ \A a \in Actors : actors[a] = Resting
        /\ \A a \in Actors : a # "boot" => actors'[a] = Resting
        /\ StoreTypes /\ OwedAtBoot \subseteq Bodies
    BY MovesOfProcess, TypeParts DEF Restart, Only, Shape, ActorShape, At, OwedAtBoot
  <1>1. /\ memory' = disk /\ disk' = disk /\ phase' = "up" /\ heldSeq' = RestoredSeq
        /\ pending' = [id \in Ids |-> IF Waits(id) THEN disk[id].body ELSE Nil]
        /\ UNCHANGED <<noticed, answered, seat, landed, atEntry, reported, faults, stops>>
        /\ sender' \in BOOLEAN /\ stranded' = {}
        /\ UNCHANGED <<accepted, registered, refusals, decisions>>
    BY DEF Restart, turn, past
  <1>2. /\ RestoredSeq = 0 \/ (RestoredSeq \in LocalIds /\ disk[RestoredSeq] # NoRecord)
        /\ \A id \in LocalIds : disk[id] # NoRecord => id <= RestoredSeq
    BY SequenceRestored
  <1>3. RestoredSeq \in 0..Cardinality(Failures) /\ RestoredSeq <= Parked
    <2>1. Parked \in Nat
      BY ParkedFacts
    <2> QED
      BY <1>2, <2>1 DEF LocalIds, CountInv
  <1>4. \A id \in Ids : pending'[id] = IF Waits(id) THEN disk[id].body ELSE Nil
    BY <1>1
  <1>5. TypeOK'
    <2>1. TurnTypes /\ ProcessTypes /\ PastTypes
      BY TypeParts
    <2>2. StoreTypes' /\ TurnTypes' /\ PastTypes' /\ ProcessTypes'
      BY <1>0, <1>1, <2>1 DEF StoreTypes, TurnTypes, PastTypes, ProcessTypes
    <2>3. pending' \in [Ids -> Body \union {Nil}]
      BY <1>0, <1>1 DEF StoreTypes, RecordType
    <2>4. ActorTypes' /\ heldSeq' \in 0..Cardinality(Failures)
      BY <1>0, <1>1, <1>3 DEF Only
    <2> QED
      BY <2>2, <2>3, <2>4
      DEF TypeOK, StoreTypes, ActorTypes, TurnTypes, ProcessTypes, PastTypes, ActorType, Steps, RecordType
  <1>6. Shape'
    <2>1. \A a \in Actors : a # "boot" => ActorShape(a)'
      BY <1>0, RestingFields DEF ActorShape, At, Registering, Deciding
    <2>2. ActorShape("boot")'
      BY <1>0, CallersAssumption DEF Fresh, ActorShape, At, Registering, Deciding
    <2> QED
      BY <1>1, <2>1, <2>2 DEF Shape
  <1>7. NamesInv'
    <2>1. ASSUME NEW id \in Ids PROVE Names(id)' \subseteq {disk[id].body} \ {Nil}
      <3>1. Held(id)' = {}
        BY <1>0, RestingFields DEF Held, Fresh
      <3> QED
        BY <1>1, <1>4, <3>1 DEF Names
    <2>2. \A id \in Ids : Names(id)' \subseteq Names(id)
      BY <2>1 DEF Names
    <2>3. \A id \in Ids : \A record \in {memory'[id], disk'[id]} :
             record # NoRecord => record.status # "none" /\ record.body # Nil
      BY <1>1 DEF NamesInv
    <2>4. \A id \in Ids : \A x, y \in Names(id)' : x = y
      BY <2>2 DEF NamesInv
    <2>5. \A b \in Bodies : Names(b)' \subseteq {b}
      BY <2>2 DEF NamesInv
    <2>6. ASSUME NEW id \in LocalIds, id > heldSeq' PROVE Names(id)' = {}
      <3>1. disk[id] = NoRecord
        BY <1>1, <1>2, <1>3, <2>6 DEF LocalIds
      <3> QED
        BY <2>1, <3>1 DEF NoRecord
    <2> QED
      BY <2>3, <2>4, <2>5, <2>6 DEF NamesInv
  <1>8. CountInv'
    <2>1. actors'["live"] = actors["live"]
      BY <1>0
    <2>2. Parked' = Parked
      BY <1>1, <2>1 DEF Parked
    <2> QED
      BY <1>1, <1>3, <2>1, <2>2 DEF CountInv
  <1>9. AccountInv'
    <2>1. \A a \in Actors : a # "boot" => ActorAccount(a)'
      BY <1>0, RestingFields DEF ActorAccount, At
    <2>2. ActorAccount("boot")'
      BY <1>0, <1>1 DEF Fresh, ActorAccount, At
    <2>3. RecordAccount'
      BY <1>1 DEF AccountInv, RecordAccount
    <2> QED
      BY <1>1, <2>1, <2>2, <2>3 DEF AccountInv
  <1>10. CleanInv'
    <2>1. \A c \in Callers : actors'[c].pc \notin Deciding
      BY <1>0, CallersAssumption, RestingFields DEF Deciding
    <2>2. ASSUME NEW d \in decisions', d.alone
          PROVE  /\ Apart(d.id, {})' /\ memory'[d.id].status = d.verdict
                 /\ disk'[d.id].status = d.verdict
      <3>1. PICK id : id = d.id
        OBVIOUS
      <3>2. Apart(id, {}) /\ disk[id].status = d.verdict /\ d.verdict \in {"sent", "refused"}
        BY <1>1, <2>2, <3>1 DEF CleanInv, TypeOK
      <3>3. id \in Ids /\ id # Nil /\ answered /\ pending'[id] = Nil /\ id \notin OwedAtBoot
        BY <1>4, <3>2 DEF Apart, Waits, OwedAtBoot
      <3>4. ASSUME NEW a \in Actors PROVE ~InHand(a, id)'
        BY <1>0, <3>3, RestingFields DEF InHand, Fresh
      <3>5. actors'["live"].pc \notin Registering
        BY <1>0, RestingFields DEF Registering
      <3>6. Apart(id, {})'
        BY <1>1, <3>2, <3>3, <3>4, <3>5 DEF Apart
      <3> QED
        BY <1>1, <3>1, <3>2, <3>6
    <2> QED
      BY <2>1, <2>2 DEF CleanInv
  <1> QED
    BY <1>5, <1>6, <1>7, <1>8, <1>9, <1>10

LEMMA StutterKept ==
    ASSUME DeliveryInv, UNCHANGED vars
    PROVE  DeliveryInv'
  <1> USE DEF DeliveryInv
  <1>0. UNCHANGED <<memory, disk, pending, heldSeq, actors, sender, noticed, answered, seat, landed,
                    atEntry, reported, stranded, phase, faults, stops, accepted, registered, refusals, decisions>>
    BY DEF vars, store, table, turn, past
  <1>1. TypeOK'
    BY <1>0 DEF TypeOK
  <1>2. Shape'
    BY <1>0 DEF Shape, ActorShape, At
  <1>3. NamesInv'
    BY <1>0 DEF NamesInv, Names, Held
  <1>4. CountInv'
    BY <1>0 DEF CountInv, Parked
  <1>5. AccountInv'
    BY <1>0 DEF AccountInv, RecordAccount, ActorAccount, At
  <1>6. CleanInv'
    BY <1>0 DEF CleanInv, Apart, InHand, At
  <1> QED
    BY <1>1, <1>2, <1>3, <1>4, <1>5, <1>6

\* The invariant: shapes, names, counts and accounts of records, table and actors hold
\* through every step of the faces and callers, a crash at any of them, and a boot.
THEOREM DeliveryCorrect == Spec => []DeliveryInv
  <1>1. ASSUME DeliveryInv, [Next]_vars PROVE DeliveryInv'
    BY <1>1, EveryStep, RunningKept, StopKept, RestartKept, StutterKept
  <1> QED
    BY <1>1, DeliveryInitial, PTL DEF Spec

\* Every variable has its type; in particular the sequence of the host never passes the
\* failures that were reported, so every identity it gives is one (Host.heldSeq).
THEOREM TypeCorrect == Spec => []TypeOK
  BY DeliveryCorrect, PTL DEF DeliveryInv

LEMMA AccountTells ==
    ASSUME DeliveryInv
    PROVE  AccountTellsTheBody
  <1> USE Basics DEF DeliveryInv
  <1>1. \A id \in Ids : \A record \in {memory[id], disk[id]} :
           /\ record.status = "sent" => record.body \in accepted
           /\ record.status = "refused" => id \in refusals
    BY DEF AccountInv, RecordAccount
  <1>2. ASSUME NEW b \in registered
        PROVE  \/ disk[b].status \in {"owed", "held", "retry"}
               \/ b \in accepted \/ b \in refusals \/ ~atEntry
    <2>1. b \in Bodies /\ b \in Ids /\ disk[b].status # "none"
      BY DEF TypeOK, AccountInv
    <2>2. disk[b] # NoRecord
      BY <2>1 DEF NoRecord
    <2>3. disk[b].body # Nil
      BY <2>1, <2>2 DEF NamesInv
    <2>4. disk[b].body = b
      BY <2>1, <2>3 DEF NamesInv, Names
    <2>5. disk[b].status \in Status
      BY <2>1 DEF TypeOK
    <2> QED
      BY <2>1, <2>4, <2>5 DEF AccountInv, RecordAccount, Status
  <1>3. ASSUME NEW id \in Ids, pending[id] # Nil, memory[id] # NoRecord
        PROVE  pending[id] = memory[id].body
    BY <1>3 DEF NamesInv, Names
  <1> QED
    BY <1>1, <1>2, <1>3 DEF AccountTellsTheBody

\* The records tell what became of a body at every crash point, for any number of bodies,
\* failures, callers, refused calls and stops (recordDeliveryState, restorePendingDeliveries).
THEOREM AccountCorrect == Spec => []AccountTellsTheBody
  BY DeliveryCorrect, AccountTells, PTL

LEMMA DecisionStands ==
    ASSUME DeliveryInv
    PROVE  CleanDecisionStands
  BY DEF DeliveryInv, CleanInv, Apart, CleanDecisionStands

\* A decision answered without an error over a recorded hold nobody else has in hand is
\* the last word about its body (ApproveDelivery, RefuseDelivery).
THEOREM DecisionCorrect == Spec => []CleanDecisionStands
  BY DeliveryCorrect, DecisionStands, PTL
=============================================================================
