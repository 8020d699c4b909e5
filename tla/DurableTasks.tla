---------------------------- MODULE DurableTasks ----------------------------
(***************************************************************************)
(* The task registry over its durable carrier, across crashes and restarts:*)
(*   - the key-value view of the localfile tier, whose memory answers reads*)
(*     and whose shards reach the disk one by one (memory/ledger);         *)
(*   - DurableCommit, which stores facts, admission material and receipts  *)
(*     through it and keeps tables of what it confirmed (runtime/state);   *)
(*   - the registry, which moves a task only behind a committed fact, and  *)
(*     Restore, which folds the stored chains back (runtime/task).         *)
(*                                                                         *)
(* A write ends in one of four ways: confirmed; refused because the flush  *)
(* stopped at a shard; uncertain because the second barrier did not return *)
(* after the first wrote everything; or with the process gone right after  *)
(* it reached the disk.                                                    *)
(***************************************************************************)
EXTENDS TaskRecord, Sequences

CONSTANTS
    Tasks,        \* the identities mintTaskID may draw
    Faults,       \* the write outcomes the storage may answer beside success
    MaxRound,     \* bound: rounds of one task
    MaxRevision,  \* bound: facts of one task
    MaxCrashes    \* bound: crashes of the process

ASSUME TaskAssumption == Nil \notin Tasks
ASSUME FaultAssumption == Faults \subseteq {"failed", "uncertain"}
ASSUME BoundAssumption ==
    MaxRound \in Nat /\ MaxRevision \in Nat /\ MaxCrashes \in Nat

VARIABLES
    mem,        \* localFileKV.shards: what the view answers
    disk,       \* the shard snapshots a new process reads
    chain,      \* DurableCommit.facts and mutations, by task
    receipts,   \* DurableCommit.consumed and rejected
    held,       \* the registry
    task,
    parked,     \* holds of this process's HoldBooks
    accepted,   \* the notices the mailbox of this process took
    process,    \* "up", "down", or "refused" by an assembly that did not open
    crashes,
    promised    \* history: facts answered committed

vars == <<mem, disk, chain, receipts, held, task, parked, accepted, process,
          crashes, promised>>

-----------------------------------------------------------------------------
(* The key-value view.                                                     *)

\* The shards of the carrier's keys, in the order a barrier flushes them.
Shards == <<"consume", "fact", "reject", "spec">>

Views == [fact    : SUBSET [task : Tasks, fact : Facts],
          spec    : SUBSET Tasks,
          consume : SUBSET (Tasks \X Notices),
          reject  : SUBSET (Tasks \X Notices)]

EmptyView == [fact |-> {}, spec |-> {}, consume |-> {}, reject |-> {}]

\* The snapshots after a barrier that stopped at shard number i: the shards
\* before it were renamed in, it and the ones after keep what was stored.
StoppedAt(view, stored, i) ==
    [s \in DOMAIN view |->
        IF \E j \in 1 .. (i - 1) : Shards[j] = s THEN view[s] ELSE stored[s]]

\* Put of a fact: the key is the task and the mutation, so a repeat replaces.
WithFact(view, t, f) ==
    [view EXCEPT !.fact =
        {x \in @ : x.task # t \/ x.fact.mut # f.mut} \cup {[task |-> t, fact |-> f]}]

\* kvCommit: the batch is in memory, and every dirty shard reached the disk.
FlushAll(view) == mem' = view /\ disk' = view

\* kvCommit: the batch is in memory, and the flush stopped at a dirty shard.
FlushStops(view, stored) ==
    /\ "failed" \in Faults
    /\ \E i \in DOMAIN Shards :
          /\ view[Shards[i]] # stored[Shards[i]]
          /\ mem' = view
          /\ disk' = StoppedAt(view, stored, i)

-----------------------------------------------------------------------------
(* The fold of a stored chain.                                             *)

Stored(view, t) == {x.fact : x \in {y \in view.fact : y.task = t}}

Confirmed(view) == view.consume \cup view.reject

\* unowedLocked: the link of a fact leaves out the notices a receipt answers.
Unowed(t, f, answered) ==
    [f EXCEPT !.outbox = {e \in @ : <<t, e.notice>> \notin answered}]

\* The chain follows: no two links expect one revision and none is missing.
Follows(facts) ==
    LET revs == {f.rev : f \in facts}
    IN  /\ Cardinality(revs) = Cardinality(facts)
        /\ \A r \in revs : r = 0 \/ (r - 1) \in revs

Larger(a, b) == IF a >= b THEN a ELSE b

\* Mutant of ReplayedRound: the round is read from the notices alone.
RoundOfNotices(round, f) ==
    IF \E e \in f.outbox : e.notice.round > round
    THEN CHOOSE n \in {e.notice.round : e \in f.outbox} :
            \A e \in f.outbox : n >= e.notice.round
    ELSE round

\* replayedRound, then the rounds of the notices the link still carries.
ReplayedRound(round, f) ==
    LET opened  == IF f.mut.op \in {"reactivate", "resume"} THEN round + 1 ELSE round
        encoded == IF f.mut.op \in {"settle", "rollback"}
                   THEN Larger(opened, f.mut.n) ELSE opened
    IN  IF \E e \in f.outbox : e.notice.round > encoded
        THEN CHOOSE n \in {e.notice.round : e \in f.outbox} :
                \A e \in f.outbox : n >= e.notice.round
        ELSE encoded

\* foldLocked on one link.
FoldLink(r, f) ==
    LET moved   == [r EXCEPT !.status = f.to, !.revision = f.rev + 1,
                             !.muts = @ \cup {f}]
        routed  == IF f.mut.op = "handoff" THEN HandedOff(moved, f.mut.at) ELSE moved
        rounded == [routed EXCEPT !.round = ReplayedRound(@, f),
                                  !.owed  = @ \cup
                      {[env |-> e, rev |-> f.rev, kind |-> "awaiting"] : e \in f.outbox}]
    IN  IF IsTerminal(f.to) THEN CloseTools(rounded) ELSE rounded

\* Restore of one chain that follows.
Replay(links) ==
    LET fold[n \in 0 .. Cardinality(links)] ==
            IF n = 0 THEN OpenTool(Blank)
            ELSE FoldLink(fold[n - 1], CHOOSE f \in links : f.rev = n - 1)
    IN  fold[Cardinality(links)]

\* The record a process started over this view would hold of the task.
Restored(view, t) ==
    Replay({Unowed(t, f, Confirmed(view)) : f \in Stored(view, t)})

Restorable(view) == {t \in view.spec : Stored(view, t) # {}}

\* The notices the facts of the tables carry.
Noticed ==
    UNION {{<<t, e.notice>> : e \in UNION {f.outbox : f \in chain[t]}} : t \in Tasks}

\* Mutants of CarrierOwes: an acceptance ends the obligation, or a receipt does
\* not.
OwesUntilAccepted == Noticed \ (receipts \cup accepted)

OwesForever == Noticed

\* OwedNotices: what the carrier's tables say is still owed.
CarrierOwes == Noticed \ receipts

-----------------------------------------------------------------------------
TypeOK ==
    /\ mem \in Views /\ disk \in Views
    /\ chain \in [Tasks -> SUBSET Facts]
    /\ receipts \subseteq (Tasks \X Notices)
    /\ held \subseteq Tasks /\ parked \subseteq Tasks
    /\ task \in [Tasks -> Records]
    /\ accepted \subseteq (Tasks \X Notices)
    /\ process \in {"up", "down", "refused"}
    /\ crashes \in 0 .. MaxCrashes
    /\ promised \subseteq [task : Tasks, fact : Facts]

Init ==
    /\ mem = EmptyView /\ disk = EmptyView
    /\ chain = [t \in Tasks |-> {}]
    /\ receipts = {}
    /\ held = {} /\ parked = {}
    /\ task = [t \in Tasks |-> Blank]
    /\ accepted = {}
    /\ process = "up" /\ crashes = 0
    /\ promised = {}

\* What a crash takes: everything but the snapshots.
LoseProcess ==
    /\ crashes < MaxCrashes /\ crashes' = crashes + 1
    /\ process' = "down"
    /\ mem' = EmptyView
    /\ chain' = [t \in Tasks |-> {}] /\ receipts' = {}
    /\ held' = {} /\ parked' = {} /\ accepted' = {}
    /\ task' = [t \in Tasks |-> Blank]

registry == <<held, task, parked>>
\* A write whose caller was told no success: the flush stopped, or the barrier
\* after a complete flush did not return.
Unconfirmed(view, stored) ==
    \/ FlushStops(view, stored)
    \/ "uncertain" \in Faults /\ FlushAll(view)

\* The process is gone before the write answered, with some of it on the disk.
CutShort(view, stored) ==
    /\ \E i \in 1 .. Len(Shards) + 1 : disk' = StoppedAt(view, stored, i)
    /\ LoseProcess
    /\ UNCHANGED promised

-----------------------------------------------------------------------------
(* Commit of one fact, and the registry record it makes visible.           *)

Pair(t, f) == [task |-> t, fact |-> f]

CarrierRevision(t) == Cardinality(chain[t])

\* Put and Sync returned: tables, registry and caller all see the fact.
CommitConfirmed(view, t, f, record) ==
    /\ FlushAll(view)
    /\ chain' = [chain EXCEPT ![t] = @ \cup {f}]
    /\ task' = [task EXCEPT ![t] = record]
    /\ held' = held \cup {t}
    /\ promised' = promised \cup {Pair(t, f)}
    /\ UNCHANGED <<receipts, parked, accepted, process, crashes>>

\* Put answered an error: CommitNotCommitted.
CommitDisowned(view, stored, t, f) ==
    /\ FlushStops(view, stored)
    /\ UNCHANGED <<chain, receipts, accepted, process, crashes, promised>>
    /\ UNCHANGED registry

\* Put returned and Sync did not: CommitUncertain.
CommitUncertain(view) ==
    /\ "uncertain" \in Faults
    /\ FlushAll(view)
    /\ UNCHANGED <<chain, receipts, accepted, process, crashes>>
    /\ UNCHANGED registry /\ UNCHANGED promised

\* Commit of f on a view whose shards the disk holds as stored.  A mutation the
\* tables know is never stored again, and the revision must match.
CommitOver(before, stored, t, f, record) ==
    LET view == WithFact(before, t, f)
    IN  /\ process = "up"
        /\ f.rev < MaxRevision
        /\ f.rev = CarrierRevision(t)
        /\ \A g \in chain[t] : g.mut # f.mut
        /\ \/ CommitConfirmed(view, t, f, record)
           \/ CommitDisowned(view, stored, t, f)
           \/ CommitUncertain(view)
           \/ CutShort(view, stored)

\* Advance, Reactivate, RollbackReactivation and Handoff of a held task.
Commit(t, f, record) == t \in held /\ CommitOver(mem, disk, t, f, record)

\* Mutant of AdmitFact: the record leaves the status at its zero value.
AdmitFactUnset == Fact(Mutation("admit", 0, Nil), 0, "unknown", {})

AdmitFact == Fact(Mutation("admit", 0, Nil), 0, "accepted", {})

Declared(t) == [mem EXCEPT !.spec = @ \cup {t}]

\* An identity is drawn once, whatever became of the admission it was drawn for.
Fresh(t) == t \notin mem.spec

\* Register whose admission material was not confirmed.
DeclareFails(t) ==
    /\ process = "up" /\ Fresh(t)
    /\ \/ /\ Unconfirmed(Declared(t), disk)
          /\ UNCHANGED <<chain, receipts, accepted, process, crashes>>
          /\ UNCHANGED registry /\ UNCHANGED promised
       \/ CutShort(Declared(t), disk)

\* Register: the material went through its own barrier before the first fact.
Register(t) ==
    /\ Fresh(t)
    /\ CommitOver(Declared(t), Declared(t), t, AdmitFact,
                  OpenTool(Applied(Blank, AdmitFact)))

\* Advance to a terminal with the notification of the round.
Settle(t, kind) ==
    LET r == task[t]
        f == Fact(Mutation("settle", r.round, Nil), r.revision, kind,
                  {Envelope(Notice(r.round, kind), RouteOf(r))})
    IN  ~Knows(r, f) /\ MayAdvance(r, kind) /\ Commit(t, f, Advanced(r, f))

\* wrapper.hold: the hold is in the book before the wait is committed.
Hold(t) ==
    /\ process = "up" /\ t \in held
    /\ parked' = parked \cup {t} /\ t \notin parked
    /\ UNCHANGED <<mem, disk, chain, receipts, held, task, accepted, process,
                   crashes>>
    /\ UNCHANGED promised

Park(t) ==
    LET r == task[t]
        f == Fact(Mutation("await", 0, Nil), r.revision, "awaiting_approval", {})
    IN  /\ t \in parked
        /\ ~Knows(r, f) /\ MayAdvance(r, "awaiting_approval")
        /\ Commit(t, f, Advanced(r, f))

\* cutApprovalWaits: a close cancels the wait no hold of this process carries.
CutApproval(t) ==
    LET r == task[t]
        f == Fact(Mutation("cut", 0, Nil), r.revision, "cancelled", {})
    IN  /\ t \notin parked /\ r.status = "awaiting_approval"
        /\ ~Knows(r, f) /\ Commit(t, f, Advanced(r, f))

Reactivate(t) ==
    LET r == task[t]
        f == Fact(Mutation("reactivate", CountOf(r, "reactivate") + 1, Nil),
                  r.revision, "running", {})
    IN  /\ r.status = "settled" /\ r.round < MaxRound
        /\ Commit(t, f, Reentered(r, f))

Rollback(t) ==
    LET r == task[t]
        f == Fact(Mutation("rollback", r.round, Nil), r.revision, "settled", {})
    IN  r.status = "running" /\ Commit(t, f, CloseTools(Applied(r, f)))

Handoff(t, target) ==
    LET r == task[t]
        f == Fact(Mutation("handoff", CountOf(r, "handoff") + 1, target),
                  r.revision, r.status, {})
    IN  r.handoff # target /\ Commit(t, f, HandedOff(Applied(r, f), target))

-----------------------------------------------------------------------------
(* Delivery and consumption.                                               *)

\* AcceptNotice of a notice the carrier owes: a drain's RestoreOwed or the
\* producer of the notice offers it, and the mailbox takes it once.
Mail(x) ==
    /\ process = "up"
    /\ x \in CarrierOwes \ accepted
    /\ accepted' = accepted \cup {x}
    /\ UNCHANGED <<mem, disk, chain, receipts, process, crashes>>
    /\ UNCHANGED registry /\ UNCHANGED promised

Answered(t, o) == [task EXCEPT ![t].owed = @ \ {o}]

\* Flush of one notification its target accepts.
FlushAccepted(t, o) ==
    /\ accepted' = accepted \cup {<<t, o.env.notice>>}
    /\ task' = Answered(t, o)
    /\ UNCHANGED <<mem, disk, chain, receipts, held, parked, process, crashes>>
    /\ UNCHANGED promised

\* A receipt or a refusal is stored like a fact; the carrier and the caller
\* move only behind a confirmed write.
StoreAnswer(view, x, moved) ==
    \/ /\ FlushAll(view)
       /\ receipts' = receipts \cup {x}
       /\ task' = moved
       /\ UNCHANGED <<chain, held, parked, accepted, process, crashes>>
       /\ UNCHANGED promised
    \/ /\ Unconfirmed(view, disk)
       /\ UNCHANGED <<chain, receipts, accepted, process, crashes>>
       /\ UNCHANGED registry /\ UNCHANGED promised
    \/ CutShort(view, disk)

\* Flush of one notification its target refuses: the refusal is stored.
FlushRefused(t, o) ==
    LET x == <<t, o.env.notice>>
    IN  /\ x \notin accepted
        /\ StoreAnswer([mem EXCEPT !.reject = @ \cup {x}], x, Answered(t, o))

Flush(t) ==
    /\ process = "up" /\ t \in held
    /\ \E o \in task[t].owed : FlushAccepted(t, o) \/ FlushRefused(t, o)

\* Consume of a seat whose turn is over.
Consume(x) ==
    /\ process = "up"
    /\ x \in accepted \ receipts
    /\ StoreAnswer([mem EXCEPT !.consume = @ \cup {x}], x, task)

-----------------------------------------------------------------------------
(* The tier and the process.                                               *)

\* Another writer of the same tier runs its barrier, which flushes every shard
\* still dirty.
OtherCommit ==
    /\ process = "up" /\ mem # disk
    /\ FlushAll(mem) \/ FlushStops(mem, disk)
    /\ UNCHANGED <<chain, receipts, accepted, process, crashes>>
    /\ UNCHANGED registry /\ UNCHANGED promised

Crash ==
    /\ process = "up"
    /\ LoseProcess
    /\ UNCHANGED disk /\ UNCHANGED promised

Folds(view) == \A t \in Tasks : Follows(Stored(view, t))

\* openLocalFileKV, NewDurableCommit and restoreChains over the snapshots: one
\* chain that does not follow stops the assembly.
Restart ==
    /\ process = "down"
    /\ mem' = disk
    /\ chain' = [t \in Tasks |-> Stored(disk, t)]
    /\ receipts' = Confirmed(disk)
    /\ process' = IF Folds(disk) THEN "up" ELSE "refused"
    /\ held' = IF Folds(disk) THEN Restorable(disk) ELSE {}
    /\ task' = [t \in Tasks |->
                  IF Folds(disk) /\ t \in Restorable(disk)
                  THEN Restored(disk, t) ELSE Blank]
    /\ UNCHANGED <<disk, parked, accepted, crashes>> /\ UNCHANGED promised

-----------------------------------------------------------------------------
TaskNext(t) ==
    \/ DeclareFails(t) \/ Register(t) \/ Hold(t) \/ Park(t) \/ CutApproval(t)
    \/ \E kind \in {"settled", "failed"} : Settle(t, kind)
    \/ Reactivate(t) \/ Rollback(t)
    \/ \E target \in Targets : Handoff(t, target)
    \/ Flush(t)

Next ==
    \/ \E t \in Tasks : TaskNext(t)
    \/ \E x \in CarrierOwes : Mail(x)
    \/ \E x \in accepted : Consume(x)
    \/ OtherCommit \/ Crash \/ Restart

Spec == Init /\ [][Next]_vars

-----------------------------------------------------------------------------
(* Properties.                                                             *)

\* Each notice of a committed fact is owed until the disk holds its receipt or
\* its refusal: the carrier of the running process offers it or the mailbox
\* holds its seat, and the registry never keeps an obligation whose notice the
\* account of a restart would not know (durable.go:208-213, memory.go:418-427).
NoticeOwedOrAnswered ==
    process = "up" =>
        /\ \A x \in promised : \A e \in x.fact.outbox :
              \/ <<x.task, e.notice>> \in CarrierOwes
              \/ <<x.task, e.notice>> \in Confirmed(disk)
        /\ \A t \in held : \A o \in task[t].owed : \E f \in chain[t] :
              o.env \in f.outbox /\ o.rev = f.rev

\* A notice whose consumption receipt is on the disk never enters a mailbox
\* again, whatever the registry still owed when the process stopped
\* (durable-delivery.md:21, durable.go:705-731).
ConsumedNotReplayed ==
    [][\A x \in accepted' \ accepted : x \notin disk.consume]_vars

\* No crash leaves a disk the assembly refuses to open over, and what a restart
\* would fold of it is the task the registry holds: its status, its revision, the
\* round its next notice names and the routing it freezes, with every obligation
\* still open (restore.go:189-264).
RestartAgrees ==
    /\ process # "refused"
    /\ process = "up" => \A t \in held :
        LET r == task[t]
            s == Restored(disk, t)
        IN  /\ r.status = s.status /\ r.revision = s.revision
            /\ r.round = s.round /\ r.handoff = s.handoff
            /\ {o \in r.owed : <<t, o.env.notice>> \notin receipts} \subseteq s.owed

=============================================================================
