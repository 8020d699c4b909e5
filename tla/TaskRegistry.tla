---------------------------- MODULE TaskRegistry ----------------------------
(***************************************************************************)
(* The task registry and manager of one process (runtime/task), with the   *)
(* clients that call them: registration wrappers that run a native tool    *)
(* beside its admission, delegated rounds that report their terminal, hosts*)
(* that cancel, hand off, re-enter and flush.                              *)
(*                                                                         *)
(* Every operation of the registry holds its lock from the first read to   *)
(* the last write, so it is one action.  What interleaves is the clients:  *)
(* wrapper.execute takes the lock four times, and the reads of the first   *)
(* two are used after others may have moved the task.                      *)
(*                                                                         *)
(* The commit carrier is abstract here: it stores the fact or it does not. *)
(* A fact it does not store leaves the registry as it was, so its failure  *)
(* is an action only where the caller gives something up for it.           *)
(***************************************************************************)
EXTENDS TaskRecord

CONSTANTS
    Tasks,        \* the identities mintTaskID may draw
    Keys,         \* dedup keys of call admissions
    Limit,        \* WithConcurrencyLimit
    MaxRound,     \* bound: rounds of one task
    MaxRevision   \* bound: facts of one task

ASSUME TaskAssumption == Nil \notin Tasks
ASSUME BoundAssumption == Limit \in Nat /\ MaxRound \in Nat /\ MaxRevision \in Nat

VARIABLES
    held,       \* the tasks the registry holds a record of
    task,       \* their records
    minted,     \* every identity ever drawn
    admission,  \* MemoryAdmission: the task a dedup key resolves to
    delegated,  \* the tasks admitted for a delegated agent
    exec,       \* wrapper.execute of each task: where it is and what it read
    serving,    \* rounds of each task some client still has to report
    opened,     \* the round Reactivate answered and nothing serves yet, or 0
    closed,     \* the routings whose target instance was closed
    answered    \* history: the notifications their target accepted or refused

vars == <<held, task, minted, admission, delegated, exec, serving, opened,
          closed, answered>>

\* The clients' own state.
clients == <<delegated, exec, serving, opened>>

ExecSteps == {"idle", "called", "recorded", "frozen", "settled", "mailed",
              "done", "lost"}

Execs == [pc : ExecSteps, round : Nat, kind : TerminalKinds,
          target : Targets \cup {Nil}]

IdleExec == [pc |-> "idle", round |-> 0, kind |-> "settled", target |-> Nil]

TypeOK ==
    /\ held \subseteq minted
    /\ minted \subseteq Tasks
    /\ task \in [Tasks -> Records]
    /\ admission \in [Keys -> Tasks \cup {Nil}]
    /\ delegated \subseteq Tasks
    /\ exec \in [Tasks -> Execs]
    /\ serving \in [Tasks -> SUBSET Nat]
    /\ opened \in [Tasks -> Nat]
    /\ closed \subseteq Targets
    /\ answered \subseteq (Tasks \X Notices)

Init ==
    /\ held = {}
    /\ task = [t \in Tasks |-> Blank]
    /\ minted = {}
    /\ admission = [k \in Keys |-> Nil]
    /\ delegated = {}
    /\ exec = [t \in Tasks |-> IdleExec]
    /\ serving = [t \in Tasks |-> {}]
    /\ opened = [t \in Tasks |-> 0]
    /\ closed = {}
    /\ answered = {}

-----------------------------------------------------------------------------
(* Admission and the terminal sweep.                                       *)

\* pruneTerminalLocked: the terminal records the TTL has passed for, whatever
\* they still owe.
Expired == {t \in held : IsTerminal(task[t].status) /\ task[t].old}

\* MemoryAdmission.forget of every task dropped.
AdmissionWithout(dropped) ==
    [k \in Keys |-> IF admission[k] \in dropped THEN Nil ELSE admission[k]]

TasksWithout(dropped) ==
    [t \in Tasks |-> IF t \in dropped THEN Blank ELSE task[t]]

Active(tasks) == {t \in tasks : ~IsTerminal(task[t].status)}

\* Mutant of AdmitFact: the record leaves the status at its zero value.
AdmitFactUnset == Fact(Mutation("admit", 0, Nil), 0, "unknown", {})

AdmitFact == Fact(Mutation("admit", 0, Nil), 0, "accepted", {})

\* Register of a fresh call.  run is a wrapped tool the receipt starts, hold a
\* call the approver parks, delegate a delegated agent whose first round the
\* caller serves.
Register(t, k, use) ==
    /\ t \notin minted
    /\ AdmissionWithout(Expired)[k] = Nil
    /\ Cardinality(Active(held \ Expired)) < Limit
    /\ held' = (held \ Expired) \cup {t}
    /\ task' = [TasksWithout(Expired) EXCEPT
                   ![t] = OpenTool(Applied(Blank, AdmitFact))]
    /\ admission' = [AdmissionWithout(Expired) EXCEPT ![k] = t]
    /\ minted' = minted \cup {t}
    /\ exec' = [exec EXCEPT ![t].pc = IF use = "run" THEN "called" ELSE "idle"]
    /\ delegated' = IF use = "delegate" THEN delegated \cup {t} ELSE delegated
    /\ serving' = [serving EXCEPT ![t] = IF use = "delegate" THEN {1} ELSE {}]
    /\ UNCHANGED <<opened, closed, answered>>

\* PruneTerminal, and the sweep of a Register that then answers a dedup, the
\* concurrency limit or a commit that was not stored.
PruneTerminal ==
    /\ Expired # {}
    /\ held' = held \ Expired
    /\ task' = TasksWithout(Expired)
    /\ admission' = AdmissionWithout(Expired)
    /\ UNCHANGED <<minted, closed, answered>> /\ UNCHANGED clients

\* The terminal TTL passes over a task that has not moved meanwhile.
Age(t) ==
    /\ t \in held
    /\ IsTerminal(task[t].status)
    /\ task' = [task EXCEPT ![t].old = TRUE]
    /\ UNCHANGED <<held, minted, admission, closed, answered>>
    /\ UNCHANGED clients

-----------------------------------------------------------------------------
(* The state machine.                                                      *)

\* One operation stored its fact: the record of t is replaced.
Move(t, record) ==
    /\ t \in held
    /\ task[t].revision < MaxRevision
    /\ task' = [task EXCEPT ![t] = record]
    /\ UNCHANGED <<held, minted, admission, closed, answered>>

\* Advance of a mutation the task does not store yet.
Advance(t, mut, to, outbox) ==
    LET f == Fact(mut, task[t].revision, to, outbox)
    IN  /\ ~Knows(task[t], f)
        /\ MayAdvance(task[t], to)
        /\ Move(t, Advanced(task[t], f))

\* Advance of a mutation the task stores with the same content: committed,
\* with nothing moved.
AdvanceRepeats(t, mut, to, outbox) ==
    /\ t \in held
    /\ Repeats(task[t], Fact(mut, task[t].revision, to, outbox))
    /\ UNCHANGED <<held, task, minted, admission, closed, answered>>

\* Advance answering anything but committed.
AdvanceRefused(t, mut, to, outbox) ==
    /\ \/ t \notin held
       \/ LET f == Fact(mut, task[t].revision, to, outbox)
          IN  IF Knows(task[t], f) THEN ~Repeats(task[t], f) ELSE TRUE
    /\ UNCHANGED <<held, task, minted, admission, closed, answered>>

\* A caller of the registry port reports the execution under way.
StartRunning(t) ==
    /\ Advance(t, Mutation("run", 0, Nil), "running", {})
    /\ UNCHANGED clients

\* wrapper.hold: the call, fresh or repeated, parks its task.
Park(t) ==
    /\ t \notin delegated
    /\ Advance(t, Mutation("await", 0, Nil), "awaiting_approval", {})
    /\ UNCHANGED clients

\* Resume: only a round in the running status and a cancelled task refuse it.
Resume(t, input) ==
    LET f == Fact(Mutation("resume", 0, input), task[t].revision, "running", {})
    IN  /\ ~Knows(task[t], f)
        /\ task[t].status \notin {"running", "cancelled"}
        /\ task[t].round < MaxRound
        /\ Move(t, Reentered(task[t], f))
        /\ serving' = [serving EXCEPT ![t] = @ \cup {task[t].round + 1}]
        /\ UNCHANGED <<delegated, exec, opened>>

\* Mutant of ReactivationSeq: every re-entry takes the first number.
ReactivationOnce(r) == 1

\* The number Reactivate gives the fact of the re-entry it commits.
ReactivationSeq(r) == CountOf(r, "reactivate") + 1

Reactivate(t) ==
    LET f == Fact(Mutation("reactivate", ReactivationSeq(task[t]), Nil),
                  task[t].revision, "running", {})
    IN  /\ t \in delegated
        /\ task[t].status = "settled"
        /\ task[t].round < MaxRound
        /\ Move(t, Reentered(task[t], f))
        /\ opened' = [opened EXCEPT ![t] = task[t].round + 1]
        /\ UNCHANGED <<delegated, exec, serving>>

\* Serve: the continuation takes the round the re-entry opened.
Serve(t) ==
    /\ opened[t] # 0
    /\ serving' = [serving EXCEPT ![t] = @ \cup {opened[t]}]
    /\ opened' = [opened EXCEPT ![t] = 0]
    /\ UNCHANGED <<held, task, minted, admission, delegated, exec, closed, answered>>

\* Mutants of RolledBack: the tool obligation of the round stays open, or the
\* round is handed back with the status.
RolledBackOwing(r) ==
    Applied(r, Fact(Mutation("rollback", r.round, Nil), r.revision, "settled", {}))

RolledBack(r) ==
    CloseTools(Applied(r, Fact(Mutation("rollback", r.round, Nil), r.revision,
                               "settled", {})))

\* unwindReentry of a round nothing serves: RollbackReactivation.
Rollback(t) ==
    /\ opened[t] # 0
    /\ task[t].status = "running"
    /\ task[t].round = opened[t]
    /\ Move(t, RolledBack(task[t]))
    /\ opened' = [opened EXCEPT ![t] = 0]
    /\ UNCHANGED <<delegated, exec, serving>>

\* The rollback was refused or not stored: the round is abandoned all the
\* same, and the task stays where it is.
RollbackFails(t) ==
    /\ opened[t] # 0
    /\ opened' = [opened EXCEPT ![t] = 0]
    /\ UNCHANGED <<held, task, minted, admission, delegated, exec, serving,
                   closed, answered>>

-----------------------------------------------------------------------------
(* Cancellation.                                                           *)

RequestCancel(t) ==
    /\ t \in held
    /\ ~IsTerminal(task[t].status)
    /\ task' = [task EXCEPT ![t].cancel = TRUE]
    /\ UNCHANGED <<held, minted, admission, closed, answered>>
    /\ UNCHANGED clients

Stopped(r) ==
    CloseTools(Applied(r,
        Fact(Mutation("stop", 0, Nil), r.revision, "cancelled",
             {Envelope(Notice(r.round, "cancelled"), RouteOf(r))})))

\* RecordStop of a confirmed stop.  It reads the request and not the status.
RecordStop(t) ==
    /\ task[t].cancel
    /\ ~\E f \in task[t].muts : f.mut.op = "stop"
    /\ Move(t, Stopped(task[t]))
    /\ UNCHANGED clients

-----------------------------------------------------------------------------
(* Routing and delivery.                                                   *)

Handoff(t, target) ==
    LET r == task[t]
        f == Fact(Mutation("handoff", CountOf(r, "handoff") + 1, target),
                  r.revision, r.status, {})
    IN  /\ r.handoff # target
        /\ Move(t, HandedOff(Applied(r, f), target))
        /\ UNCHANGED clients

CloseInstance(target) ==
    /\ closed' = closed \cup {target}
    /\ UNCHANGED <<held, task, minted, admission, answered>>
    /\ UNCHANGED clients

\* What a flush may offer: a closed instance retains its own.
Offered(t) == {o \in task[t].owed : o.env.target \notin closed}

\* The obligations that stay after the targets accepted some of them and
\* refused others.
Unanswered(r, accepted, refused) == r.owed \ (accepted \cup refused)

\* Flush: each offered notification is accepted, refused or left unanswered.
Flush(t) ==
    /\ t \in held
    /\ \E accepted, refused \in SUBSET Offered(t) :
          /\ accepted \cap refused = {}
          /\ task' = [task EXCEPT ![t].owed = Unanswered(task[t], accepted, refused)]
          /\ answered' = answered \cup
                {<<t, o.env.notice>> : o \in accepted \cup refused}
    /\ UNCHANGED <<held, minted, admission, closed>>
    /\ UNCHANGED clients

-----------------------------------------------------------------------------
(* The clients that report a terminal.                                     *)

\* wrapper.execute, from the call of the tool to the acceptance of the notice.
Execute(t, from, to) ==
    /\ exec[t].pc = from
    /\ exec' = [exec EXCEPT ![t].pc = to]
    /\ UNCHANGED <<delegated, serving, opened>>

SettleFact(round) == Mutation("settle", round, Nil)

ExecOutbox(t) ==
    {Envelope(Notice(exec[t].round, exec[t].kind), exec[t].target)}

\* The tool returned, its result is recorded, and the round is read.
ToolReturns(t, kind) ==
    /\ exec[t].pc = "called"
    /\ exec' = [exec EXCEPT ![t] =
          [pc |-> "recorded", kind |-> kind, target |-> Nil,
           round |-> IF t \in held THEN task[t].round ELSE 0]]
    /\ UNCHANGED <<held, task, minted, admission, delegated, serving, opened,
                   closed, answered>>

\* envelopeOf, in a lock of its own.
FreezeEnvelope(t) ==
    /\ exec[t].pc = "recorded"
    /\ exec' = [exec EXCEPT
          ![t].pc = IF t \in held THEN "frozen" ELSE "lost",
          ![t].target = IF t \in held THEN RouteOf(task[t]) ELSE Nil]
    /\ UNCHANGED <<held, task, minted, admission, delegated, serving, opened,
                   closed, answered>>

SettleRun(t) ==
    /\ Execute(t, "frozen", "settled")
    /\ \/ Advance(t, SettleFact(exec[t].round), exec[t].kind, ExecOutbox(t))
       \/ AdvanceRepeats(t, SettleFact(exec[t].round), exec[t].kind, ExecOutbox(t))

\* The settle was refused or not stored: execute returns, and nothing tries
\* it again.
SettleRunLost(t) ==
    /\ Execute(t, "frozen", "lost")
    /\ AdvanceRefused(t, SettleFact(exec[t].round), exec[t].kind, ExecOutbox(t))

\* The notice enters the mailbox of its target, beside no registry lock.
MailNotice(t) ==
    /\ Execute(t, "settled", "mailed")
    /\ answered' = answered \cup {<<t, Notice(exec[t].round, exec[t].kind)>>}
    /\ UNCHANGED <<held, task, minted, admission, closed>>

MailFails(t) ==
    /\ Execute(t, "settled", "lost")
    /\ UNCHANGED <<held, task, minted, admission, closed, answered>>

\* acceptDelivery: only an obligation no handoff reclassified is cleared.
AcceptDelivery(t) ==
    LET notice == Notice(exec[t].round, exec[t].kind)
        cleared == {o \in task[t].owed : o.env.notice = notice /\ o.kind = "awaiting"}
    IN  /\ Execute(t, "mailed", "done")
        /\ task' = [task EXCEPT ![t].owed = Unanswered(task[t], cleared, {})]
        /\ UNCHANGED <<held, minted, admission, closed, answered>>

\* Delegator.complete: the round of the delegation entry and its issuer, both
\* frozen at the admission.  A refused report leaves the round to report.
Report(t, round, kind) ==
    LET outbox == {Envelope(Notice(round, kind), Home)}
    IN  /\ round \in serving[t]
        /\ \/ Advance(t, SettleFact(round), kind, outbox)
           \/ AdvanceRepeats(t, SettleFact(round), kind, outbox)
        /\ serving' = [serving EXCEPT ![t] = @ \ {round}]
        /\ UNCHANGED <<delegated, exec, opened>>

-----------------------------------------------------------------------------
TaskNext(t) ==
    \/ \E k \in Keys, use \in {"run", "hold", "delegate"} : Register(t, k, use)
    \/ Age(t) \/ StartRunning(t) \/ Park(t)
    \/ \E input \in Inputs : Resume(t, input)
    \/ Reactivate(t) \/ Serve(t) \/ Rollback(t) \/ RollbackFails(t)
    \/ RequestCancel(t) \/ RecordStop(t)
    \/ \E target \in Targets : Handoff(t, target)
    \/ Flush(t)
    \/ \E kind \in {"settled", "failed"} : ToolReturns(t, kind)
    \/ FreezeEnvelope(t) \/ SettleRun(t) \/ SettleRunLost(t)
    \/ MailNotice(t) \/ MailFails(t) \/ AcceptDelivery(t)
    \/ \E round \in serving[t], kind \in TerminalKinds : Report(t, round, kind)

Next ==
    \/ PruneTerminal
    \/ \E target \in Targets : CloseInstance(target)
    \/ \E t \in Tasks : TaskNext(t)

Spec == Init /\ [][Next]_vars

-----------------------------------------------------------------------------
(* Properties.                                                             *)

\* A task owes a tool exactly while it holds no terminal fact, whichever way
\* the terminal came (a settle, a stop, a rollback) and however many rounds
\* were re-entered: the obligation reported for a task stays owed until an
\* outcome is settled, and then no longer (registry.go:112-114, lifecycle.go:307,
\* cancel.go:107, reactivate.go:161).
ToolOwedWhileInFlight ==
    \A t \in held : IsTerminal(task[t].status) <=> task[t].tools = 0

\* Every notification a task ever committed is still owed under the routing it
\* froze, or its target answered it: no retry, handoff, close, re-entry or
\* lost acceptance makes one disappear while the record is held
\* (manager.go:136-148, handoff.go:45-48).
NoNoticeLost ==
    \A t \in held : \A f \in task[t].muts : \A e \in f.outbox :
        OwedFor(task[t], e, f.rev) # {} \/ <<t, e.notice>> \in answered

\* The mutations of a task form one chain: a fact at every revision below the
\* task's own, none written over another, the last one holding the status.
\* RecoveryMaterial hands this map out as the chain a restore folds
\* (handoff.go:169-215), and the fold refuses a gap.
FactsFormChain ==
    \A t \in held :
        LET r == task[t]
        IN  /\ {f.rev : f \in r.muts} = 0 .. (r.revision - 1)
            /\ \E f \in r.muts : f.rev = r.revision - 1 /\ f.to = r.status

\* A terminal outcome gives way only to a declared re-entry or to the stop of
\* a cancellation requested before it; a cancelled task never moves again.  No
\* late report, parked call or handoff revives a task (lifecycle.go:23-25).
TerminalStands ==
    [][\A t \in held \cap held' :
          IsTerminal(task[t].status) /\ task'[t].status # task[t].status =>
              /\ task[t].status # "cancelled"
              /\ \E f \in task'[t].muts \ task[t].muts :
                    f.mut.op \in {"resume", "reactivate", "stop"}
              /\ task'[t].status = "running" /\ task[t].status = "failed" =>
                    \E f \in task'[t].muts \ task[t].muts : f.mut.op = "resume"
      ]_vars

=============================================================================
