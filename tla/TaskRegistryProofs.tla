------------------------- MODULE TaskRegistryProofs -------------------------
(***************************************************************************)
(* Theorems about TaskRegistry, for every set of tasks, keys, routings and *)
(* inputs and every bound: the fact chain of a record, the terminal        *)
(* outcome of a task, and the notices it owes.                             *)
(***************************************************************************)
EXTENDS TaskRegistry, FiniteSetTheorems, TLAPS

-----------------------------------------------------------------------------
(* What the operators of TaskRecord return.                                *)

LEMMA MutationType ==
    ASSUME NEW op \in MutationOps, NEW n \in Nat,
           NEW at \in Targets \cup Inputs \cup {Nil}
    PROVE  Mutation(op, n, at) \in Mutations
  BY DEF Mutation, Mutations

LEMMA FactType ==
    ASSUME NEW mut \in Mutations, NEW rev \in Nat, NEW to \in Statuses,
           NEW outbox \in SUBSET Envelopes
    PROVE  Fact(mut, rev, to, outbox) \in Facts
  BY DEF Fact, Facts

LEMMA EnvelopeType ==
    ASSUME NEW round \in Nat, NEW kind \in TerminalKinds, NEW target \in Targets
    PROVE  {Envelope(Notice(round, kind), target)} \in SUBSET Envelopes
  BY DEF Envelope, Notice, Envelopes, Notices

LEMMA RouteType ==
    ASSUME NEW r \in Records
    PROVE  RouteOf(r) \in Targets
  BY RoutingAssumption DEF RouteOf, Records

LEMMA BlankType == Blank \in Records
  BY DEF Blank, Records, Statuses

LEMMA AppliedType ==
    ASSUME NEW r \in Records, NEW f \in Facts
    PROVE  /\ Applied(r, f) \in Records
           /\ Applied(r, f).status = f.to
           /\ Applied(r, f).revision = f.rev + 1
           /\ Applied(r, f).round = r.round
           /\ Applied(r, f).tools = r.tools
           /\ Applied(r, f).handoff = r.handoff
           /\ Applied(r, f).cancel = r.cancel
           /\ Applied(r, f).muts = {g \in r.muts : g.mut # f.mut} \cup {f}
           /\ Applied(r, f).owed = r.owed \cup
                {[env |-> e, rev |-> f.rev, kind |-> "awaiting"] : e \in f.outbox}
  <1>1. {[env |-> e, rev |-> f.rev, kind |-> "awaiting"] : e \in f.outbox}
            \in SUBSET Obligations
    BY DEF Facts, Obligations
  <1>2. {g \in r.muts : g.mut # f.mut} \cup {f} \in SUBSET Facts
    BY DEF Records
  <1>3. /\ r.owed \in SUBSET Obligations
        /\ f.to \in Statuses /\ f.rev + 1 \in Nat
    BY DEF Records, Facts
  <1> QED
    BY <1>1, <1>2, <1>3 DEF Applied, Records

LEMMA ToolType ==
    ASSUME NEW r \in Records
    PROVE  /\ OpenTool(r) \in Records /\ OpenTool(r).tools = r.tools + 1
           /\ OpenTool(r) = [r EXCEPT !.tools = OpenTool(r).tools]
           /\ CloseTools(r) \in Records /\ CloseTools(r).tools = 0
           /\ CloseTools(r) = [r EXCEPT !.tools = CloseTools(r).tools]
  BY DEF OpenTool, CloseTools, Records

\* A record whose set of facts is finite, which is what CountOf counts.
Kept(r) == r \in Records /\ IsFiniteSet(r.muts)

LEMMA BlankKept == Kept(Blank)
  BY BlankType, FS_EmptySet DEF Kept, Blank

LEMMA AppliedKept ==
    ASSUME NEW r, Kept(r), NEW f \in Facts
    PROVE  Kept(Applied(r, f))
  <1>1. IsFiniteSet({g \in r.muts : g.mut # f.mut})
    BY FS_Subset DEF Kept
  <1>2. IsFiniteSet({g \in r.muts : g.mut # f.mut} \cup {f})
    BY <1>1, FS_AddElement
  <1> QED
    BY <1>2, AppliedType DEF Kept

LEMMA ToolKept ==
    ASSUME NEW r, Kept(r)
    PROVE  Kept(OpenTool(r)) /\ Kept(CloseTools(r))
  <1>1. OpenTool(r).muts = r.muts /\ CloseTools(r).muts = r.muts
    BY DEF OpenTool, CloseTools, Kept, Records
  <1> QED
    BY <1>1, ToolType DEF Kept

LEMMA AdvancedKept ==
    ASSUME NEW r, Kept(r), NEW f \in Facts
    PROVE  Kept(Advanced(r, f))
  BY AppliedKept, ToolKept DEF Advanced

LEMMA ReenteredKept ==
    ASSUME NEW r, Kept(r), NEW f \in Facts
    PROVE  Kept(Reentered(r, f))
  <1> DEFINE s == [Applied(r, f) EXCEPT !.round = r.round + 1]
  <1>1. Kept(Applied(r, f))
    BY AppliedKept
  <1>2. Kept(s)
    BY <1>1 DEF Kept, Records
  <1> QED
    BY <1>2, ToolKept DEF Reentered

LEMMA HandedOffKept ==
    ASSUME NEW r, Kept(r), NEW target \in Targets
    PROVE  Kept(HandedOff(r, target))
  <1>1. {[o EXCEPT !.kind = "handed_off"] : o \in r.owed} \in SUBSET Obligations
    BY DEF Kept, Records, Obligations
  <1> QED
    BY <1>1 DEF HandedOff, Kept, Records

LEMMA CountType ==
    ASSUME NEW r, Kept(r), NEW op
    PROVE  CountOf(r, op) \in Nat
  <1>1. IsFiniteSet({f \in r.muts : f.mut.op = op})
    BY FS_Subset DEF Kept
  <1> QED
    BY <1>1, FS_CardinalityType DEF CountOf

LEMMA AdmitFactType == AdmitFact \in Facts
  <1>1. Mutation("admit", 0, Nil) \in Mutations
    BY MutationType DEF MutationOps
  <1> QED
    BY <1>1, FactType DEF AdmitFact, Statuses

\* The notice a record freezes on its own round and routing.
LEMMA OwnOutboxType ==
    ASSUME NEW r \in Records, NEW kind \in TerminalKinds
    PROVE  {Envelope(Notice(r.round, kind), RouteOf(r))} \in SUBSET Envelopes
  <1>1. r.round \in Nat
    BY DEF Records
  <1> QED
    BY <1>1, RouteType, EnvelopeType

LEMMA RolledBackKept ==
    ASSUME NEW r, Kept(r)
    PROVE  Kept(RolledBack(r))
  <1>1. r.round \in Nat /\ r.revision \in Nat
    BY DEF Kept, Records
  <1>2. Mutation("rollback", r.round, Nil) \in Mutations
    BY <1>1, MutationType DEF MutationOps
  <1>3. Fact(Mutation("rollback", r.round, Nil), r.revision, "settled", {}) \in Facts
    BY <1>1, <1>2, FactType DEF Statuses
  <1> QED
    BY <1>3, AppliedKept, ToolKept DEF RolledBack

LEMMA StoppedKept ==
    ASSUME NEW r, Kept(r)
    PROVE  Kept(Stopped(r))
  <1>1. r \in Records /\ r.revision \in Nat
    BY DEF Kept, Records
  <1>2. Mutation("stop", 0, Nil) \in Mutations
    BY MutationType DEF MutationOps
  <1>3. {Envelope(Notice(r.round, "cancelled"), RouteOf(r))} \in SUBSET Envelopes
    BY <1>1, OwnOutboxType DEF TerminalKinds
  <1>4. Fact(Mutation("stop", 0, Nil), r.revision, "cancelled",
             {Envelope(Notice(r.round, "cancelled"), RouteOf(r))}) \in Facts
    BY <1>1, <1>2, <1>3, FactType DEF Statuses
  <1> QED
    BY <1>4, AppliedKept, ToolKept DEF Stopped

-----------------------------------------------------------------------------
(* Type correctness.                                                       *)

\* TypeOK is not inductive: a re-entry counts the facts it stores, so they must
\* be finitely many, and a settle offers the routing its envelope froze.  It
\* splits in the registry's own state and the clients'.
RegistryInv ==
    /\ held \subseteq minted
    /\ minted \subseteq Tasks
    /\ task \in [Tasks -> Records]
    /\ \A t \in Tasks : Kept(task[t])
    /\ admission \in [Keys -> Tasks \cup {Nil}]
    /\ closed \subseteq Targets
    /\ answered \subseteq (Tasks \X Notices)

ClientInv ==
    /\ delegated \subseteq Tasks
    /\ exec \in [Tasks -> Execs]
    /\ \A t \in Tasks : exec[t].pc = "frozen" => exec[t].target \in Targets
    /\ serving \in [Tasks -> SUBSET Nat]
    /\ opened \in [Tasks -> Nat]

TypeInv == RegistryInv /\ ClientInv

LEMMA TypeInvImpliesTypeOK == TypeInv => TypeOK
  BY DEF TypeInv, RegistryInv, ClientInv, TypeOK

LEMMA TypeInit == Init => TypeInv
  <1> SUFFICES ASSUME Init PROVE TypeInv
    OBVIOUS
  <1>1. RegistryInv
    BY BlankKept, BlankType DEF Init, RegistryInv
  <1>2. IdleExec \in Execs
    BY DEF IdleExec, Execs, ExecSteps, TerminalKinds
  <1>3. ClientInv
    BY <1>2 DEF Init, ClientInv, IdleExec
  <1> QED
    BY <1>1, <1>3 DEF TypeInv

LEMMA MoveType ==
    ASSUME RegistryInv, NEW t \in Tasks, NEW record, Kept(record), Move(t, record)
    PROVE  RegistryInv'
  BY DEF RegistryInv, Move, Kept

LEMMA AdvanceType ==
    ASSUME RegistryInv, NEW t \in Tasks, NEW mut \in Mutations,
           NEW to \in Statuses, NEW outbox \in SUBSET Envelopes,
           Advance(t, mut, to, outbox)
    PROVE  RegistryInv'
  <1> DEFINE f == Fact(mut, task[t].revision, to, outbox)
  <1>1. Kept(task[t]) /\ task[t].revision \in Nat
    BY DEF RegistryInv, Kept, Records
  <1>2. f \in Facts
    BY <1>1, FactType
  <1>3. Kept(Advanced(task[t], f))
    BY <1>1, <1>2, AdvancedKept
  <1>4. Move(t, Advanced(task[t], f))
    BY DEF Advance
  <1> QED
    BY <1>3, <1>4, MoveType

LEMMA UnmovedType ==
    ASSUME RegistryInv,
           UNCHANGED <<held, task, minted, admission, closed, answered>>
    PROVE  RegistryInv'
  BY DEF RegistryInv, Kept

LEMMA UnchangedClients ==
    ASSUME ClientInv, UNCHANGED clients
    PROVE  ClientInv'
  BY DEF ClientInv, clients

LEMMA SettleMutationType ==
    ASSUME NEW round \in Nat
    PROVE  SettleFact(round) \in Mutations
  BY MutationType DEF SettleFact, MutationOps

\* A call of wrapper.execute that only moves its own place.
LEMMA ExecuteType ==
    ASSUME ClientInv, NEW t \in Tasks, NEW from, NEW to \in ExecSteps,
           to # "frozen", Execute(t, from, to)
    PROVE  ClientInv'
  BY DEF ClientInv, Execute, Execs

\* What wrapper.execute offers once it froze the envelope.
LEMMA ExecOutboxType ==
    ASSUME ClientInv, NEW t \in Tasks, exec[t].pc = "frozen"
    PROVE  /\ exec[t].round \in Nat /\ exec[t].kind \in TerminalKinds
           /\ exec[t].kind \in Statuses
           /\ ExecOutbox(t) \in SUBSET Envelopes
  <1>1. exec[t] \in Execs /\ exec[t].target \in Targets
    BY DEF ClientInv
  <1>2. exec[t].round \in Nat /\ exec[t].kind \in TerminalKinds
    BY <1>1 DEF Execs
  <1> QED
    BY <1>1, <1>2, EnvelopeType DEF ExecOutbox, TerminalKinds, Statuses

LEMMA RegisterType ==
    ASSUME TypeInv, NEW t \in Tasks, NEW k \in Keys,
           NEW use \in {"run", "hold", "delegate"}, Register(t, k, use)
    PROVE  TypeInv'
  <1> DEFINE r == OpenTool(Applied(Blank, AdmitFact))
  <1>1. Kept(r)
    BY BlankKept, AdmitFactType, AppliedKept, ToolKept
  <1>2. TasksWithout(Expired) \in [Tasks -> Records]
        /\ \A u \in Tasks : Kept(TasksWithout(Expired)[u])
    BY BlankKept, BlankType DEF TasksWithout, TypeInv, RegistryInv
  <1>3. AdmissionWithout(Expired) \in [Keys -> Tasks \cup {Nil}]
    BY DEF AdmissionWithout, TypeInv, RegistryInv
  <1>4. RegistryInv'
    <2>1. task' \in [Tasks -> Records] /\ \A u \in Tasks : Kept(task'[u])
      BY <1>1, <1>2 DEF Register, Kept
    <2>2. admission' \in [Keys -> Tasks \cup {Nil}]
      BY <1>3 DEF Register
    <2>3. held' \subseteq minted' /\ minted' \subseteq Tasks
      BY DEF Register, TypeInv, RegistryInv
    <2>4. closed' = closed /\ answered' = answered
      BY DEF Register
    <2> QED
      BY <2>1, <2>2, <2>3, <2>4 DEF TypeInv, RegistryInv
  <1>5. ClientInv'
    <2>1. exec' \in [Tasks -> Execs]
      BY DEF Register, TypeInv, ClientInv, Execs, ExecSteps
    <2>2. \A u \in Tasks : exec'[u].pc = "frozen" => exec'[u].target \in Targets
      BY DEF Register, TypeInv, ClientInv, Execs
    <2>3. delegated' \subseteq Tasks /\ serving' \in [Tasks -> SUBSET Nat]
      BY DEF Register, TypeInv, ClientInv
    <2> QED
      BY <2>1, <2>2, <2>3 DEF Register, TypeInv, ClientInv
  <1> QED
    BY <1>4, <1>5 DEF TypeInv

LEMMA SweepType ==
    ASSUME TypeInv, PruneTerminal
    PROVE  TypeInv'
  <1>1. task' \in [Tasks -> Records] /\ \A u \in Tasks : Kept(task'[u])
    BY BlankKept, BlankType DEF PruneTerminal, TasksWithout, TypeInv, RegistryInv
  <1>2. admission' \in [Keys -> Tasks \cup {Nil}]
    BY DEF PruneTerminal, AdmissionWithout, TypeInv, RegistryInv
  <1>3. RegistryInv'
    BY <1>1, <1>2 DEF PruneTerminal, TypeInv, RegistryInv
  <1>4. ClientInv'
    BY UnchangedClients DEF PruneTerminal, TypeInv
  <1> QED
    BY <1>3, <1>4 DEF TypeInv

\* The operations that touch one field of a record.
LEMMA FieldType ==
    ASSUME TypeInv, NEW t \in Tasks,
           Age(t) \/ RequestCancel(t) \/ Flush(t) \/ AcceptDelivery(t)
    PROVE  TypeInv'
  <1> DEFINE Owing(owed) == [task[t] EXCEPT !.owed = owed]
  <1>0. /\ Kept(task[t]) /\ task[t] \in Records /\ IsFiniteSet(task[t].muts)
        /\ task \in [Tasks -> Records] /\ task[t].owed \subseteq Obligations
    BY DEF TypeInv, RegistryInv, Kept, Records
  <1>1. CASE Age(t)
    <2>1. Kept([task[t] EXCEPT !.old = TRUE])
      BY <1>0 DEF Kept, Records
    <2>2. RegistryInv'
      BY <1>1, <2>1 DEF Age, TypeInv, RegistryInv, Kept
    <2> QED
      BY <1>1, <2>2, UnchangedClients DEF Age, TypeInv
  <1>2. CASE RequestCancel(t)
    <2>1. Kept([task[t] EXCEPT !.cancel = TRUE])
      BY <1>0 DEF Kept, Records
    <2>2. RegistryInv'
      BY <1>2, <2>1 DEF RequestCancel, TypeInv, RegistryInv, Kept
    <2> QED
      BY <1>2, <2>2, UnchangedClients DEF RequestCancel, TypeInv
  <1>3. ASSUME NEW owed \in SUBSET Obligations
        PROVE  Kept(Owing(owed))
    BY <1>0 DEF Kept, Records
  <1>4. CASE Flush(t)
    <2>1. PICK accepted \in SUBSET Offered(t), refused \in SUBSET Offered(t) :
            /\ task' = [task EXCEPT ![t].owed = Unanswered(task[t], accepted, refused)]
            /\ answered' = answered \cup
                  {<<t, o.env.notice>> : o \in accepted \cup refused}
      BY <1>4 DEF Flush
    <2>2. Unanswered(task[t], accepted, refused) \in SUBSET Obligations
      BY <1>0 DEF Unanswered
    <2>3. Kept(Owing(Unanswered(task[t], accepted, refused)))
      BY <1>3, <2>2
    <2>4. \A o \in accepted \cup refused : o \in Obligations
      BY <1>0 DEF Offered
    <2>5. answered' \subseteq (Tasks \X Notices)
      BY <2>1, <2>4 DEF TypeInv, RegistryInv, Obligations, Envelopes
    <2>6. task' \in [Tasks -> Records] /\ \A u \in Tasks : Kept(task'[u])
      BY <1>0, <2>1, <2>3 DEF Kept, TypeInv, RegistryInv
    <2>7. RegistryInv'
      BY <1>4, <2>5, <2>6 DEF Flush, TypeInv, RegistryInv
    <2> QED
      BY <1>4, <2>7, UnchangedClients DEF Flush, TypeInv
  <1>5. CASE AcceptDelivery(t)
    <2> DEFINE cleared == {o \in task[t].owed :
                  /\ o.env.notice = Notice(exec[t].round, exec[t].kind)
                  /\ o.kind = "awaiting"}
    <2>1. Kept(Owing(Unanswered(task[t], cleared, {})))
      BY <1>0, <1>3 DEF Unanswered
    <2>2. task' = [task EXCEPT ![t].owed = Unanswered(task[t], cleared, {})]
      BY <1>5 DEF AcceptDelivery
    <2>3. task' \in [Tasks -> Records] /\ \A u \in Tasks : Kept(task'[u])
      BY <1>0, <2>1, <2>2 DEF Kept, TypeInv, RegistryInv
    <2>4. RegistryInv'
      BY <1>5, <2>3 DEF AcceptDelivery, TypeInv, RegistryInv
    <2>5. Execute(t, "mailed", "done")
      BY <1>5 DEF AcceptDelivery
    <2>6. ClientInv'
      BY <2>5, ExecuteType DEF TypeInv, ExecSteps
    <2> QED
      BY <2>4, <2>6 DEF TypeInv
  <1> QED
    BY <1>1, <1>2, <1>4, <1>5

\* Resume, Reactivate, Rollback, RecordStop and Handoff replace the record.
LEMMA ReplacedType ==
    ASSUME TypeInv, NEW t \in Tasks,
           \/ \E input \in Inputs : Resume(t, input)
           \/ Reactivate(t) \/ Rollback(t) \/ RecordStop(t)
           \/ \E target \in Targets : Handoff(t, target)
    PROVE  TypeInv'
  <1> DEFINE r == task[t]
  <1>0. /\ Kept(r) /\ r \in Records /\ r.revision \in Nat /\ r.round \in Nat
        /\ r.status \in Statuses /\ RegistryInv /\ ClientInv
    BY DEF TypeInv, RegistryInv, Kept, Records
  <1>1. ASSUME NEW input \in Inputs, Resume(t, input) PROVE TypeInv'
    <2> DEFINE f == Fact(Mutation("resume", 0, input), r.revision, "running", {})
    <2>1. Mutation("resume", 0, input) \in Mutations
      BY MutationType DEF MutationOps
    <2>2. f \in Facts
      BY <1>0, <2>1, FactType DEF Statuses
    <2>3. Kept(Reentered(r, f)) /\ Move(t, Reentered(r, f))
      BY <1>0, <1>1, <2>2, ReenteredKept DEF Resume
    <2>4. RegistryInv'
      BY <1>0, <2>3, MoveType
    <2>5. ClientInv'
      BY <1>0, <1>1 DEF Resume, ClientInv
    <2> QED
      BY <2>4, <2>5 DEF TypeInv
  <1>2. CASE Reactivate(t)
    <2> DEFINE f == Fact(Mutation("reactivate", ReactivationSeq(r), Nil),
                         r.revision, "running", {})
    <2>1. ReactivationSeq(r) \in Nat
      BY <1>0, CountType DEF ReactivationSeq
    <2>2. Mutation("reactivate", ReactivationSeq(r), Nil) \in Mutations
      BY <2>1, MutationType DEF MutationOps
    <2>3. f \in Facts
      BY <1>0, <2>2, FactType DEF Statuses
    <2>4. Kept(Reentered(r, f)) /\ Move(t, Reentered(r, f))
      BY <1>0, <1>2, <2>3, ReenteredKept DEF Reactivate
    <2>5. RegistryInv'
      BY <1>0, <2>4, MoveType
    <2>6. ClientInv'
      BY <1>0, <1>2 DEF Reactivate, ClientInv
    <2> QED
      BY <2>5, <2>6 DEF TypeInv
  <1>3. CASE Rollback(t)
    <2>1. Kept(RolledBack(r)) /\ Move(t, RolledBack(r))
      BY <1>0, <1>3, RolledBackKept DEF Rollback
    <2>2. RegistryInv'
      BY <1>0, <2>1, MoveType
    <2>3. ClientInv'
      BY <1>0, <1>3 DEF Rollback, ClientInv
    <2> QED
      BY <2>2, <2>3 DEF TypeInv
  <1>4. CASE RecordStop(t)
    <2>1. Kept(Stopped(r)) /\ Move(t, Stopped(r))
      BY <1>0, <1>4, StoppedKept DEF RecordStop
    <2>2. RegistryInv'
      BY <1>0, <2>1, MoveType
    <2>3. ClientInv'
      BY <1>0, <1>4, UnchangedClients DEF RecordStop
    <2> QED
      BY <2>2, <2>3 DEF TypeInv
  <1>5. ASSUME NEW target \in Targets, Handoff(t, target) PROVE TypeInv'
    <2> DEFINE n == CountOf(r, "handoff") + 1
               f == Fact(Mutation("handoff", n, target), r.revision, r.status, {})
    <2>1. n \in Nat
      BY <1>0, CountType
    <2>2. Mutation("handoff", n, target) \in Mutations
      BY <2>1, MutationType DEF MutationOps
    <2>3. f \in Facts
      BY <1>0, <2>2, FactType
    <2>4. Kept(HandedOff(Applied(r, f), target))
      BY <1>0, <2>3, AppliedKept, HandedOffKept
    <2>5. Move(t, HandedOff(Applied(r, f), target))
      BY <1>5 DEF Handoff
    <2>6. RegistryInv'
      BY <1>0, <2>4, <2>5, MoveType
    <2>7. ClientInv'
      BY <1>0, <1>5, UnchangedClients DEF Handoff
    <2> QED
      BY <2>6, <2>7 DEF TypeInv
  <1> QED
    BY <1>1, <1>2, <1>3, <1>4, <1>5

\* The operations that submit through Advance.
LEMMA AdvancedType ==
    ASSUME TypeInv, NEW t \in Tasks,
           \/ StartRunning(t) \/ Park(t) \/ SettleRun(t)
           \/ \E round \in serving[t], kind \in TerminalKinds : Report(t, round, kind)
    PROVE  TypeInv'
  <1>0. RegistryInv /\ ClientInv
    BY DEF TypeInv
  <1>1. CASE StartRunning(t)
    <2>1. Mutation("run", 0, Nil) \in Mutations
      BY MutationType DEF MutationOps
    <2>2. Advance(t, Mutation("run", 0, Nil), "running", {})
      BY <1>1 DEF StartRunning
    <2>3. RegistryInv'
      BY <1>0, <2>1, <2>2, AdvanceType DEF Statuses
    <2> QED
      BY <1>0, <1>1, <2>3, UnchangedClients DEF StartRunning, TypeInv
  <1>2. CASE Park(t)
    <2>1. Mutation("await", 0, Nil) \in Mutations
      BY MutationType DEF MutationOps
    <2>2. Advance(t, Mutation("await", 0, Nil), "awaiting_approval", {})
      BY <1>2 DEF Park
    <2>3. RegistryInv'
      BY <1>0, <2>1, <2>2, AdvanceType DEF Statuses
    <2> QED
      BY <1>0, <1>2, <2>3, UnchangedClients DEF Park, TypeInv
  <1>3. CASE SettleRun(t)
    <2>1. exec[t].pc = "frozen" /\ Execute(t, "frozen", "settled")
      BY <1>3 DEF SettleRun, Execute
    <2>2. /\ exec[t].kind \in Statuses /\ ExecOutbox(t) \in SUBSET Envelopes
          /\ SettleFact(exec[t].round) \in Mutations
      BY <1>0, <2>1, ExecOutboxType, SettleMutationType
    <2>3. ASSUME Advance(t, SettleFact(exec[t].round), exec[t].kind, ExecOutbox(t))
          PROVE  RegistryInv'
      BY <1>0, <2>2, <2>3, AdvanceType
    <2>4. ASSUME AdvanceRepeats(t, SettleFact(exec[t].round), exec[t].kind,
                                ExecOutbox(t))
          PROVE  RegistryInv'
      BY <1>0, <2>4, UnmovedType DEF AdvanceRepeats
    <2>5. ClientInv'
      BY <1>0, <2>1, ExecuteType DEF ExecSteps
    <2> QED
      BY <1>3, <2>3, <2>4, <2>5 DEF SettleRun, TypeInv
  <1>4. ASSUME NEW round \in serving[t], NEW kind \in TerminalKinds,
               Report(t, round, kind)
        PROVE  TypeInv'
    <2> DEFINE outbox == {Envelope(Notice(round, kind), Home)}
    <2>1. round \in Nat
      BY <1>0 DEF ClientInv
    <2>2. /\ outbox \in SUBSET Envelopes /\ kind \in Statuses
          /\ SettleFact(round) \in Mutations
      BY <2>1, EnvelopeType, SettleMutationType, RoutingAssumption
         DEF TerminalKinds, Statuses
    <2>3. ASSUME Advance(t, SettleFact(round), kind, outbox)
          PROVE  RegistryInv'
      BY <1>0, <2>2, <2>3, AdvanceType
    <2>4. ASSUME AdvanceRepeats(t, SettleFact(round), kind, outbox)
          PROVE  RegistryInv'
      BY <1>0, <2>4, UnmovedType DEF AdvanceRepeats
    <2>5. ClientInv'
      BY <1>0, <1>4 DEF Report, ClientInv
    <2> QED
      BY <1>4, <2>3, <2>4, <2>5 DEF Report, TypeInv
  <1> QED
    BY <1>1, <1>2, <1>3, <1>4

\* The steps of the clients beside the registry.
LEMMA ClientType ==
    ASSUME TypeInv, NEW t \in Tasks,
           \/ Serve(t) \/ RollbackFails(t) \/ FreezeEnvelope(t) \/ SettleRunLost(t)
           \/ MailNotice(t) \/ MailFails(t)
           \/ \E kind \in {"settled", "failed"} : ToolReturns(t, kind)
    PROVE  TypeInv'
  <1>0. /\ RegistryInv /\ ClientInv /\ task[t] \in Records /\ exec[t] \in Execs
    BY DEF TypeInv, RegistryInv, ClientInv
  <1>1. CASE Serve(t)
    <2>1. UNCHANGED <<held, task, minted, admission, closed, answered>>
      BY <1>1 DEF Serve
    <2>2. RegistryInv'
      BY <1>0, <2>1, UnmovedType
    <2>3. ClientInv'
      BY <1>0, <1>1 DEF Serve, ClientInv
    <2> QED
      BY <2>2, <2>3 DEF TypeInv
  <1>2. CASE RollbackFails(t)
    <2>1. UNCHANGED <<held, task, minted, admission, closed, answered>>
      BY <1>2 DEF RollbackFails
    <2>2. RegistryInv'
      BY <1>0, <2>1, UnmovedType
    <2>3. ClientInv'
      BY <1>0, <1>2 DEF RollbackFails, ClientInv
    <2> QED
      BY <2>2, <2>3 DEF TypeInv
  <1>3. CASE FreezeEnvelope(t)
    <2>1. RouteOf(task[t]) \in Targets
      BY <1>0, RouteType
    <2>2. ClientInv'
      BY <1>0, <1>3, <2>1 DEF FreezeEnvelope, ClientInv, Execs, ExecSteps
    <2>3. RegistryInv'
      BY <1>0, <1>3, UnmovedType DEF FreezeEnvelope
    <2> QED
      BY <2>2, <2>3 DEF TypeInv
  <1>4. CASE SettleRunLost(t)
    <2>1. ClientInv'
      BY <1>0, <1>4, ExecuteType DEF SettleRunLost, ExecSteps
    <2>2. RegistryInv'
      BY <1>0, <1>4, UnmovedType DEF SettleRunLost, AdvanceRefused
    <2> QED
      BY <2>1, <2>2 DEF TypeInv
  <1>5. CASE MailNotice(t)
    <2>1. ClientInv'
      BY <1>0, <1>5, ExecuteType DEF MailNotice, ExecSteps
    <2>2. <<t, Notice(exec[t].round, exec[t].kind)>> \in Tasks \X Notices
      BY <1>0 DEF Execs, Notice, Notices
    <2>3. RegistryInv'
      BY <1>0, <1>5, <2>2 DEF MailNotice, RegistryInv, Kept
    <2> QED
      BY <2>1, <2>3 DEF TypeInv
  <1>6. CASE MailFails(t)
    <2>1. ClientInv'
      BY <1>0, <1>6, ExecuteType DEF MailFails, ExecSteps
    <2>2. RegistryInv'
      BY <1>0, <1>6, UnmovedType DEF MailFails
    <2> QED
      BY <2>1, <2>2 DEF TypeInv
  <1>7. ASSUME NEW kind \in {"settled", "failed"}, ToolReturns(t, kind)
        PROVE  TypeInv'
    <2>1. task[t].round \in Nat
      BY <1>0 DEF Records
    <2>2. ClientInv'
      BY <1>0, <1>7, <2>1 DEF ToolReturns, ClientInv, Execs, ExecSteps, TerminalKinds
    <2>3. RegistryInv'
      BY <1>0, <1>7, UnmovedType DEF ToolReturns
    <2> QED
      BY <2>2, <2>3 DEF TypeInv
  <1> QED
    BY <1>1, <1>2, <1>3, <1>4, <1>5, <1>6, <1>7

LEMMA TypeStep == TypeInv /\ [Next]_vars => TypeInv'
  <1> SUFFICES ASSUME TypeInv, [Next]_vars PROVE TypeInv'
    OBVIOUS
  <1>1. CASE PruneTerminal
    BY <1>1, SweepType
  <1>2. ASSUME NEW target \in Targets, CloseInstance(target) PROVE TypeInv'
    <2>1. ClientInv'
      BY <1>2, UnchangedClients DEF CloseInstance, TypeInv
    <2>2. RegistryInv'
      BY <1>2 DEF CloseInstance, TypeInv, RegistryInv, Kept
    <2> QED
      BY <2>1, <2>2 DEF TypeInv
  <1>3. ASSUME NEW t \in Tasks, TaskNext(t) PROVE TypeInv'
    <2>1. CASE \E k \in Keys, use \in {"run", "hold", "delegate"} : Register(t, k, use)
      BY <2>1, RegisterType
    <2>2. CASE Age(t) \/ RequestCancel(t) \/ Flush(t) \/ AcceptDelivery(t)
      BY <2>2, FieldType
    <2>3. CASE \/ \E input \in Inputs : Resume(t, input)
               \/ Reactivate(t) \/ Rollback(t) \/ RecordStop(t)
               \/ \E target \in Targets : Handoff(t, target)
      BY <2>3, ReplacedType
    <2>4. CASE \/ StartRunning(t) \/ Park(t) \/ SettleRun(t)
               \/ \E round \in serving[t], kind \in TerminalKinds :
                     Report(t, round, kind)
      BY <2>4, AdvancedType
    <2>5. CASE \/ Serve(t) \/ RollbackFails(t) \/ FreezeEnvelope(t)
               \/ SettleRunLost(t) \/ MailNotice(t) \/ MailFails(t)
               \/ \E kind \in {"settled", "failed"} : ToolReturns(t, kind)
      BY <2>5, ClientType
    <2> QED
      BY <1>3, <2>1, <2>2, <2>3, <2>4, <2>5 DEF TaskNext
  <1>4. CASE UNCHANGED vars
    BY <1>4 DEF vars, TypeInv, RegistryInv, ClientInv, Kept
  <1> QED
    BY <1>1, <1>2, <1>3, <1>4 DEF Next

\* Every record, place of an execution and account of the registry keeps its
\* type, whatever the tasks, routings and bounds: in particular a task keeps
\* finitely many facts, and a settle offers a routing that exists.
THEOREM TypeCorrect == Spec => []TypeOK
  <1>1. Spec => []TypeInv
    BY TypeInit, TypeStep, PTL DEF Spec
  <1> QED
    BY <1>1, TypeInvImpliesTypeOK, PTL

-----------------------------------------------------------------------------
(* What one step does to the record of one task.  Each invariant of a record*)
(* is then a fact about these seven moves, whoever made them.              *)

Admitted == OpenTool(Applied(Blank, AdmitFact))

\* Nothing but the deliveries, the request and the age of the record moved.
Rested(r, s) ==
    /\ s.status = r.status /\ s.revision = r.revision /\ s.round = r.round
    /\ s.muts = r.muts /\ s.tools = r.tools /\ s.handoff = r.handoff

AdvancedTo(r, s) == \E f \in Facts :
    /\ f.rev = r.revision /\ f.mut.op \in {"run", "await", "settle"}
    /\ ~Knows(r, f) /\ MayAdvance(r, f.to)
    /\ s = Advanced(r, f)

ResumedTo(r, s) == \E input \in Inputs :
    LET f == Fact(Mutation("resume", 0, input), r.revision, "running", {})
    IN  /\ ~Knows(r, f) /\ r.status # "running" /\ r.status # "cancelled"
        /\ s = Reentered(r, f)

ReactivatedTo(r, s) ==
    LET f == Fact(Mutation("reactivate", ReactivationSeq(r), Nil),
                  r.revision, "running", {})
    IN  r.status = "settled" /\ s = Reentered(r, f)

RolledBackTo(r, s) == r.status = "running" /\ s = RolledBack(r)

StoppedTo(r, s) == (~\E f \in r.muts : f.mut.op = "stop") /\ s = Stopped(r)

HandedOffTo(r, s) == \E target \in Targets :
    LET f == Fact(Mutation("handoff", CountOf(r, "handoff") + 1, target),
                  r.revision, r.status, {})
    IN  s = HandedOff(Applied(r, f), target)

Moved(r, s) ==
    \/ AdvancedTo(r, s) \/ ResumedTo(r, s) \/ ReactivatedTo(r, s)
    \/ RolledBackTo(r, s) \/ StoppedTo(r, s) \/ HandedOffTo(r, s)

LEMMA RestedRefl == ASSUME NEW r PROVE Rested(r, r)
  BY DEF Rested

\* A registry that replaced one record, or none.
LEMMA MoveMoves ==
    ASSUME TypeInv, NEW u \in Tasks, NEW record, Move(u, record),
           Moved(task[u], record), NEW t \in held'
    PROVE  t \in held /\ (task'[t] = task[t] \/ Moved(task[t], task'[t]))
  <1>1. t \in held /\ t \in Tasks /\ task \in [Tasks -> Records]
    BY DEF Move, TypeInv, RegistryInv
  <1>2. task' = [task EXCEPT ![u] = record]
    BY DEF Move
  <1>3. CASE t = u
    BY <1>1, <1>2, <1>3
  <1>4. CASE t # u
    BY <1>1, <1>2, <1>4
  <1> QED
    BY <1>3, <1>4

LEMMA AdvanceMoves ==
    ASSUME TypeInv, NEW u \in Tasks, NEW mut \in Mutations,
           mut.op \in {"run", "await", "settle"}, NEW to \in Statuses,
           NEW outbox \in SUBSET Envelopes, Advance(u, mut, to, outbox),
           NEW t \in held'
    PROVE  t \in held /\ (task'[t] = task[t] \/ Moved(task[t], task'[t]))
  <1> DEFINE f == Fact(mut, task[u].revision, to, outbox)
  <1>1. task[u].revision \in Nat
    BY DEF TypeInv, RegistryInv, Records
  <1>2. f \in Facts /\ f.rev = task[u].revision /\ f.mut = mut /\ f.to = to
    BY <1>1, FactType DEF Fact
  <1>3. /\ Move(u, Advanced(task[u], f))
        /\ ~Knows(task[u], f) /\ MayAdvance(task[u], to)
    BY DEF Advance
  <1>4. Moved(task[u], Advanced(task[u], f))
    BY <1>2, <1>3 DEF Moved, AdvancedTo
  <1> QED
    BY <1>3, <1>4, MoveMoves

LEMMA UnmovedMoves ==
    ASSUME held' = held, task' = task, NEW t \in held'
    PROVE  t \in held /\ task'[t] = task[t]
  OBVIOUS

LEMMA ReplacedMoves ==
    ASSUME TypeInv, NEW u \in Tasks, NEW t \in held',
           \/ \E input \in Inputs : Resume(u, input)
           \/ Reactivate(u) \/ Rollback(u) \/ RecordStop(u)
           \/ \E target \in Targets : Handoff(u, target)
    PROVE  t \in held /\ (task'[t] = task[t] \/ Moved(task[t], task'[t]))
  <1> DEFINE r == task[u]
             goal == t \in held /\ (task'[t] = task[t] \/ Moved(task[t], task'[t]))
  <1>1. ASSUME NEW input \in Inputs, Resume(u, input) PROVE goal
    <2> DEFINE f == Fact(Mutation("resume", 0, input), r.revision, "running", {})
    <2>1. /\ Move(u, Reentered(r, f)) /\ ~Knows(r, f)
          /\ r.status # "running" /\ r.status # "cancelled"
      BY <1>1 DEF Resume
    <2>2. ResumedTo(r, Reentered(r, f))
      BY <2>1 DEF ResumedTo
    <2> QED
      BY <2>1, <2>2, MoveMoves DEF Moved
  <1>2. CASE Reactivate(u)
    <2> DEFINE f == Fact(Mutation("reactivate", ReactivationSeq(r), Nil),
                         r.revision, "running", {})
    <2>1. Move(u, Reentered(r, f)) /\ r.status = "settled"
      BY <1>2 DEF Reactivate
    <2>2. ReactivatedTo(r, Reentered(r, f))
      BY <2>1 DEF ReactivatedTo
    <2> QED
      BY <2>1, <2>2, MoveMoves DEF Moved
  <1>3. CASE Rollback(u)
    <2>1. Move(u, RolledBack(r)) /\ RolledBackTo(r, RolledBack(r))
      BY <1>3 DEF Rollback, RolledBackTo
    <2> QED
      BY <2>1, MoveMoves DEF Moved
  <1>4. CASE RecordStop(u)
    <2>1. Move(u, Stopped(r)) /\ StoppedTo(r, Stopped(r))
      BY <1>4 DEF RecordStop, StoppedTo
    <2> QED
      BY <2>1, MoveMoves DEF Moved
  <1>5. ASSUME NEW target \in Targets, Handoff(u, target) PROVE goal
    <2> DEFINE f == Fact(Mutation("handoff", CountOf(r, "handoff") + 1, target),
                         r.revision, r.status, {})
    <2>1. Move(u, HandedOff(Applied(r, f), target))
      BY <1>5 DEF Handoff
    <2>2. HandedOffTo(r, HandedOff(Applied(r, f), target))
      BY DEF HandedOffTo
    <2> QED
      BY <2>1, <2>2, MoveMoves DEF Moved
  <1> QED
    BY <1>1, <1>2, <1>3, <1>4, <1>5

LEMMA SubmittedMoves ==
    ASSUME TypeInv, NEW u \in Tasks, NEW t \in held',
           \/ StartRunning(u) \/ Park(u) \/ SettleRun(u)
           \/ \E round \in serving[u], kind \in TerminalKinds : Report(u, round, kind)
    PROVE  t \in held /\ (task'[t] = task[t] \/ Moved(task[t], task'[t]))
  <1> DEFINE goal == t \in held /\ (task'[t] = task[t] \/ Moved(task[t], task'[t]))
  <1>1. CASE StartRunning(u)
    <2>1. Mutation("run", 0, Nil) \in Mutations /\ Mutation("run", 0, Nil).op = "run"
      BY MutationType DEF MutationOps, Mutation
    <2>2. Advance(u, Mutation("run", 0, Nil), "running", {})
      BY <1>1 DEF StartRunning
    <2> QED
      BY <2>1, <2>2, AdvanceMoves DEF Statuses
  <1>2. CASE Park(u)
    <2>1. /\ Mutation("await", 0, Nil) \in Mutations
          /\ Mutation("await", 0, Nil).op = "await"
      BY MutationType DEF MutationOps, Mutation
    <2>2. Advance(u, Mutation("await", 0, Nil), "awaiting_approval", {})
      BY <1>2 DEF Park
    <2> QED
      BY <2>1, <2>2, AdvanceMoves DEF Statuses
  <1>3. CASE SettleRun(u)
    <2>1. exec[u].pc = "frozen"
      BY <1>3 DEF SettleRun, Execute
    <2>2. /\ exec[u].kind \in Statuses /\ ExecOutbox(u) \in SUBSET Envelopes
          /\ SettleFact(exec[u].round) \in Mutations
          /\ SettleFact(exec[u].round).op = "settle"
      BY <2>1, ExecOutboxType, SettleMutationType DEF TypeInv, SettleFact, Mutation
    <2>3. ASSUME Advance(u, SettleFact(exec[u].round), exec[u].kind, ExecOutbox(u))
          PROVE  goal
      BY <2>2, <2>3, AdvanceMoves
    <2>4. ASSUME AdvanceRepeats(u, SettleFact(exec[u].round), exec[u].kind,
                                ExecOutbox(u))
          PROVE  goal
      BY <2>4, UnmovedMoves DEF AdvanceRepeats
    <2> QED
      BY <1>3, <2>3, <2>4 DEF SettleRun
  <1>4. ASSUME NEW round \in serving[u], NEW kind \in TerminalKinds,
               Report(u, round, kind)
        PROVE  goal
    <2> DEFINE outbox == {Envelope(Notice(round, kind), Home)}
    <2>1. round \in Nat
      BY DEF TypeInv, ClientInv
    <2>2. /\ outbox \in SUBSET Envelopes /\ kind \in Statuses
          /\ SettleFact(round) \in Mutations /\ SettleFact(round).op = "settle"
      BY <2>1, EnvelopeType, SettleMutationType, RoutingAssumption
         DEF TerminalKinds, Statuses, SettleFact, Mutation
    <2>3. ASSUME Advance(u, SettleFact(round), kind, outbox) PROVE goal
      BY <2>2, <2>3, AdvanceMoves
    <2>4. ASSUME AdvanceRepeats(u, SettleFact(round), kind, outbox) PROVE goal
      BY <2>4, UnmovedMoves DEF AdvanceRepeats
    <2> QED
      BY <1>4, <2>3, <2>4 DEF Report
  <1> QED
    BY <1>1, <1>2, <1>3, <1>4

LEMMA FieldMoves ==
    ASSUME TypeInv, NEW u \in Tasks, NEW t \in held',
           Age(u) \/ RequestCancel(u) \/ Flush(u) \/ AcceptDelivery(u)
    PROVE  t \in held /\ Rested(task[t], task'[t])
  <1>1. /\ task \in [Tasks -> Records] /\ held' = held /\ t \in Tasks
        /\ task[t] \in Records /\ task[u] \in Records
    BY DEF TypeInv, RegistryInv, Age, RequestCancel, Flush, AcceptDelivery
  <1>2. CASE Age(u)
    BY <1>1, <1>2 DEF Age, Rested, Records
  <1>3. CASE RequestCancel(u)
    BY <1>1, <1>3 DEF RequestCancel, Rested, Records
  <1>4. CASE Flush(u)
    <2>1. PICK owed : task' = [task EXCEPT ![u].owed = owed]
      BY <1>4 DEF Flush
    <2> QED
      BY <1>1, <2>1 DEF Rested, Records
  <1>5. CASE AcceptDelivery(u)
    <2>1. PICK owed : task' = [task EXCEPT ![u].owed = owed]
      BY <1>5 DEF AcceptDelivery
    <2> QED
      BY <1>1, <2>1 DEF Rested, Records
  <1> QED
    BY <1>2, <1>3, <1>4, <1>5

LEMMA RegisterMoves ==
    ASSUME TypeInv, NEW u \in Tasks, NEW k \in Keys, NEW use, Register(u, k, use),
           NEW t \in held'
    PROVE  \/ t \notin held /\ task'[t] = Admitted
           \/ t \in held /\ task'[t] = task[t]
  <1>1. /\ u \notin held /\ t \in (held \ Expired) \cup {u}
        /\ task' = [TasksWithout(Expired) EXCEPT ![u] = Admitted]
        /\ held \subseteq Tasks
    BY DEF Register, Admitted, TypeInv, RegistryInv
  <1>2. CASE t = u
    BY <1>1, <1>2 DEF TasksWithout
  <1>3. CASE t # u
    <2>1. t \in held /\ t \notin Expired /\ t \in Tasks
      BY <1>1, <1>3
    <2>2. task'[t] = task[t]
      BY <1>1, <1>3, <2>1 DEF TasksWithout
    <2> QED
      BY <2>1, <2>2
  <1> QED
    BY <1>2, <1>3

\* The operations that touch one field of a record.
Touches(u) == Age(u) \/ RequestCancel(u) \/ Flush(u) \/ AcceptDelivery(u)

LEMMA RecordChange ==
    ASSUME TypeInv, [Next]_vars, NEW t \in held'
    PROVE  \/ t \notin held /\ task'[t] = Admitted
           \/ t \in held /\ task'[t] = task[t]
           \/ t \in held /\ Moved(task[t], task'[t])
           \/ t \in held /\ \E u \in Tasks : Touches(u)
  <1> DEFINE goal == \/ t \notin held /\ task'[t] = Admitted
                     \/ t \in held /\ task'[t] = task[t]
                     \/ t \in held /\ Moved(task[t], task'[t])
                     \/ t \in held /\ \E u \in Tasks : Touches(u)
  <1>1. CASE PruneTerminal
    <2>1. t \in held /\ t \notin Expired /\ t \in Tasks
      BY <1>1 DEF PruneTerminal, TypeInv, RegistryInv
    <2>2. task'[t] = task[t]
      BY <1>1, <2>1 DEF PruneTerminal, TasksWithout
    <2> QED
      BY <2>1, <2>2
  <1>2. ASSUME NEW target \in Targets, CloseInstance(target) PROVE goal
    BY <1>2, UnmovedMoves DEF CloseInstance
  <1>3. ASSUME NEW u \in Tasks, TaskNext(u) PROVE goal
    <2>1. CASE \E k \in Keys, use \in {"run", "hold", "delegate"} : Register(u, k, use)
      BY <2>1, RegisterMoves
    <2>2. CASE Age(u) \/ RequestCancel(u) \/ Flush(u) \/ AcceptDelivery(u)
      BY <2>2, FieldMoves DEF Touches
    <2>3. CASE \/ \E input \in Inputs : Resume(u, input)
               \/ Reactivate(u) \/ Rollback(u) \/ RecordStop(u)
               \/ \E target \in Targets : Handoff(u, target)
      BY <2>3, ReplacedMoves
    <2>4. CASE \/ StartRunning(u) \/ Park(u) \/ SettleRun(u)
               \/ \E round \in serving[u], kind \in TerminalKinds :
                     Report(u, round, kind)
      BY <2>4, SubmittedMoves
    <2>5. CASE \/ Serve(u) \/ RollbackFails(u) \/ FreezeEnvelope(u)
               \/ SettleRunLost(u) \/ MailNotice(u) \/ MailFails(u)
               \/ \E kind \in {"settled", "failed"} : ToolReturns(u, kind)
      <3>1. held' = held /\ task' = task
        BY <2>5 DEF Serve, RollbackFails, FreezeEnvelope, SettleRunLost,
                    AdvanceRefused, MailNotice, MailFails, ToolReturns
      <3> QED
        BY <3>1, UnmovedMoves
    <2> QED
      BY <1>3, <2>1, <2>2, <2>3, <2>4, <2>5 DEF TaskNext
  <1>4. CASE UNCHANGED vars
    BY <1>4, UnmovedMoves DEF vars
  <1> QED
    BY <1>1, <1>2, <1>3, <1>4 DEF Next

LEMMA RecordStep ==
    ASSUME TypeInv, [Next]_vars, NEW t \in held'
    PROVE  \/ t \notin held /\ task'[t] = Admitted
           \/ t \in held /\ Rested(task[t], task'[t])
           \/ t \in held /\ Moved(task[t], task'[t])
  BY RecordChange, FieldMoves, RestedRefl DEF Touches

\* The fact a move stored, and the fields of the record that follow from it.
Moves(r, f, s) ==
    \/ /\ f.mut.op \in {"run", "await", "settle"}
       /\ ~Knows(r, f) /\ MayAdvance(r, f.to)
       /\ s.round = r.round
       /\ s.tools = IF IsTerminal(f.to) THEN 0 ELSE r.tools
    \/ /\ f.mut.op = "resume" /\ f.to = "running"
       /\ ~Knows(r, f) /\ r.status # "running" /\ r.status # "cancelled"
       /\ s.round = r.round + 1 /\ s.tools = r.tools + 1
    \/ /\ f.mut.op = "reactivate" /\ f.mut.n = ReactivationSeq(r)
       /\ f.to = "running" /\ r.status = "settled"
       /\ s.round = r.round + 1 /\ s.tools = r.tools + 1
    \/ /\ f.mut.op = "rollback" /\ f.mut.n = r.round
       /\ f.to = "settled" /\ r.status = "running"
       /\ s.round = r.round /\ s.tools = 0
    \/ /\ f.mut.op = "stop" /\ f.to = "cancelled"
       /\ ~\E g \in r.muts : g.mut.op = "stop"
       /\ s.round = r.round /\ s.tools = 0
    \/ /\ f.mut.op = "handoff" /\ f.mut.n = CountOf(r, "handoff") + 1
       /\ f.to = r.status
       /\ s.round = r.round /\ s.tools = r.tools

Stores(r, f, s) ==
    /\ f.rev = r.revision
    /\ s.status = f.to /\ s.revision = r.revision + 1
    /\ s.muts = {g \in r.muts : g.mut # f.mut} \cup {f}

LEMMA ReenteredFields ==
    ASSUME NEW r, Kept(r), NEW f \in Facts
    PROVE  LET s == Reentered(r, f)
               a == Applied(r, f)
           IN  /\ s.status = a.status /\ s.revision = a.revision /\ s.muts = a.muts
               /\ s.round = r.round + 1 /\ s.tools = r.tools + 1
  <1>1. Applied(r, f) \in Records /\ Applied(r, f).tools = r.tools
    BY AppliedType DEF Kept
  <1> QED
    BY <1>1 DEF Reentered, OpenTool, Records

LEMMA ClosedFields ==
    ASSUME NEW r \in Records
    PROVE  LET s == CloseTools(r)
           IN  /\ s.status = r.status /\ s.revision = r.revision
               /\ s.muts = r.muts /\ s.round = r.round /\ s.tools = 0
               /\ s.handoff = r.handoff /\ s.owed = r.owed
  BY DEF CloseTools, Records

LEMMA HandedOffFields ==
    ASSUME NEW r \in Records, NEW target
    PROVE  LET s == HandedOff(r, target)
           IN  /\ s.status = r.status /\ s.revision = r.revision
               /\ s.muts = r.muts /\ s.round = r.round /\ s.tools = r.tools
               /\ s.owed = {[o EXCEPT !.kind = "handed_off"] : o \in r.owed}
  BY DEF HandedOff, Records

LEMMA MovedStores ==
    ASSUME NEW r, Kept(r), NEW s, Moved(r, s)
    PROVE  \E f \in Facts : Stores(r, f, s) /\ Moves(r, f, s)
  <1>0. r \in Records /\ r.round \in Nat /\ r.revision \in Nat /\ r.status \in Statuses
    BY DEF Kept, Records
  <1>1. CASE AdvancedTo(r, s)
    <2>1. PICK f \in Facts :
            /\ f.rev = r.revision /\ f.mut.op \in {"run", "await", "settle"}
            /\ ~Knows(r, f) /\ MayAdvance(r, f.to)
            /\ s = Advanced(r, f)
      BY <1>1 DEF AdvancedTo
    <2>2. Stores(r, f, Applied(r, f)) /\ Applied(r, f) \in Records
          /\ Applied(r, f).round = r.round /\ Applied(r, f).tools = r.tools
      BY <1>0, <2>1, AppliedType DEF Stores
    <2>3. Stores(r, f, s) /\ s.round = r.round
          /\ s.tools = IF IsTerminal(f.to) THEN 0 ELSE r.tools
      BY <2>1, <2>2, ClosedFields DEF Advanced, Stores
    <2> QED
      BY <2>1, <2>3 DEF Moves
  <1>2. CASE ResumedTo(r, s)
    <2>1. PICK input \in Inputs :
            LET f == Fact(Mutation("resume", 0, input), r.revision, "running", {})
            IN  /\ ~Knows(r, f) /\ r.status # "running" /\ r.status # "cancelled"
                /\ s = Reentered(r, f)
      BY <1>2 DEF ResumedTo
    <2> DEFINE f == Fact(Mutation("resume", 0, input), r.revision, "running", {})
    <2>2. Mutation("resume", 0, input) \in Mutations
      BY MutationType DEF MutationOps
    <2>3. f \in Facts /\ f.rev = r.revision /\ f.to = "running" /\ f.mut.op = "resume"
      BY <1>0, <2>2, FactType DEF Statuses, Fact, Mutation
    <2>4. Stores(r, f, s) /\ s.round = r.round + 1 /\ s.tools = r.tools + 1
      BY <1>0, <2>1, <2>3, AppliedType, ReenteredFields DEF Stores
    <2> QED
      BY <2>1, <2>3, <2>4 DEF Moves
  <1>3. CASE ReactivatedTo(r, s)
    <2> DEFINE f == Fact(Mutation("reactivate", ReactivationSeq(r), Nil),
                         r.revision, "running", {})
    <2>1. r.status = "settled" /\ s = Reentered(r, f)
      BY <1>3 DEF ReactivatedTo
    <2>2. ReactivationSeq(r) \in Nat
      BY CountType DEF ReactivationSeq
    <2>3. Mutation("reactivate", ReactivationSeq(r), Nil) \in Mutations
      BY <2>2, MutationType DEF MutationOps
    <2>4. f \in Facts /\ f.rev = r.revision /\ f.to = "running"
          /\ f.mut.op = "reactivate" /\ f.mut.n = ReactivationSeq(r)
      BY <1>0, <2>3, FactType DEF Statuses, Fact, Mutation
    <2>5. Stores(r, f, s) /\ s.round = r.round + 1 /\ s.tools = r.tools + 1
      BY <1>0, <2>1, <2>4, AppliedType, ReenteredFields DEF Stores
    <2> QED
      BY <2>1, <2>4, <2>5 DEF Moves
  <1>4. CASE RolledBackTo(r, s)
    <2> DEFINE f == Fact(Mutation("rollback", r.round, Nil), r.revision, "settled", {})
    <2>1. r.status = "running" /\ s = CloseTools(Applied(r, f))
      BY <1>4 DEF RolledBackTo, RolledBack
    <2>2. Mutation("rollback", r.round, Nil) \in Mutations
      BY <1>0, MutationType DEF MutationOps
    <2>3. f \in Facts /\ f.rev = r.revision /\ f.to = "settled"
          /\ f.mut.op = "rollback" /\ f.mut.n = r.round
      BY <1>0, <2>2, FactType DEF Statuses, Fact, Mutation
    <2>4. Stores(r, f, s) /\ s.round = r.round /\ s.tools = 0
      BY <1>0, <2>1, <2>3, AppliedType, ClosedFields DEF Stores
    <2> QED
      BY <2>1, <2>3, <2>4 DEF Moves
  <1>5. CASE StoppedTo(r, s)
    <2> DEFINE outbox == {Envelope(Notice(r.round, "cancelled"), RouteOf(r))}
               f == Fact(Mutation("stop", 0, Nil), r.revision, "cancelled", outbox)
    <2>1. (~\E g \in r.muts : g.mut.op = "stop") /\ s = CloseTools(Applied(r, f))
      BY <1>5 DEF StoppedTo, Stopped
    <2>2. Mutation("stop", 0, Nil) \in Mutations /\ outbox \in SUBSET Envelopes
      BY <1>0, MutationType, OwnOutboxType DEF MutationOps, TerminalKinds
    <2>3. f \in Facts /\ f.rev = r.revision /\ f.to = "cancelled" /\ f.mut.op = "stop"
      BY <1>0, <2>2, FactType DEF Statuses, Fact, Mutation
    <2> HIDE DEF f
    <2>4. Stores(r, f, s) /\ s.round = r.round /\ s.tools = 0
      BY <1>0, <2>1, <2>3, AppliedType, ClosedFields DEF Stores
    <2> QED
      BY <2>1, <2>3, <2>4 DEF Moves
  <1>6. CASE HandedOffTo(r, s)
    <2> DEFINE n == CountOf(r, "handoff") + 1
    <2>1. PICK target \in Targets :
            s = HandedOff(Applied(r, Fact(Mutation("handoff", n, target),
                                          r.revision, r.status, {})), target)
      BY <1>6 DEF HandedOffTo
    <2> DEFINE f == Fact(Mutation("handoff", n, target), r.revision, r.status, {})
    <2>2. n \in Nat
      BY CountType
    <2>3. Mutation("handoff", n, target) \in Mutations
      BY <2>2, MutationType DEF MutationOps
    <2>4. f \in Facts /\ f.rev = r.revision /\ f.to = r.status
          /\ f.mut.op = "handoff" /\ f.mut.n = n
      BY <1>0, <2>3, FactType DEF Fact, Mutation
    <2>5. Stores(r, f, s) /\ s.round = r.round /\ s.tools = r.tools
      BY <1>0, <2>1, <2>4, AppliedType, HandedOffFields DEF Stores
    <2> QED
      BY <2>4, <2>5 DEF Moves
  <1> QED
    BY <1>1, <1>2, <1>3, <1>4, <1>5, <1>6 DEF Moved

-----------------------------------------------------------------------------
(* The tool obligation.                                                    *)

ToolOwed(r) == IsTerminal(r.status) <=> r.tools = 0

LEMMA AdmittedOwesTool == ToolOwed(Admitted)
  <1>1. /\ Applied(Blank, AdmitFact) \in Records
        /\ Applied(Blank, AdmitFact).status = "accepted"
        /\ Applied(Blank, AdmitFact).tools = 0
    BY AdmitFactType, BlankType, AppliedType DEF AdmitFact, Fact, Blank
  <1> QED
    BY <1>1 DEF Admitted, OpenTool, Records, ToolOwed, IsTerminal, TerminalKinds

LEMMA MovedOwesTool ==
    ASSUME NEW r, Kept(r), ToolOwed(r), NEW s, Moved(r, s)
    PROVE  ToolOwed(s)
  <1>1. PICK f \in Facts : Stores(r, f, s) /\ Moves(r, f, s)
    BY MovedStores
  <1>2. r.tools \in Nat
    BY DEF Kept, Records
  <1> QED
    BY <1>1, <1>2 DEF Stores, Moves, MayAdvance, ToolOwed, IsTerminal, TerminalKinds

ToolInv == TypeInv /\ \A t \in held : ToolOwed(task[t])

\* A task owes a tool exactly while it holds no terminal fact, after any number
\* of re-entries, rollbacks and stops: neither a settle that closes every open
\* tool at once nor a re-entry that opens one more lets the two drift apart.
THEOREM ToolOwedCorrect == Spec => []ToolOwedWhileInFlight
  <1>1. Init => ToolInv
    BY TypeInit DEF Init, ToolInv
  <1>2. ToolInv /\ [Next]_vars => ToolInv'
    <2> SUFFICES ASSUME ToolInv, [Next]_vars PROVE ToolInv'
      OBVIOUS
    <2>1. TypeInv'
      BY TypeStep DEF ToolInv
    <2>2. ASSUME NEW t \in held' PROVE ToolOwed(task'[t])
      <3>1. CASE t \notin held /\ task'[t] = Admitted
        BY <3>1, AdmittedOwesTool
      <3>2. CASE t \in held /\ Rested(task[t], task'[t])
        BY <3>2 DEF ToolInv, ToolOwed, Rested
      <3>3. CASE t \in held /\ Moved(task[t], task'[t])
        <4>1. Kept(task[t]) /\ ToolOwed(task[t])
          BY <3>3 DEF ToolInv, TypeInv, RegistryInv
        <4> QED
          BY <3>3, <4>1, MovedOwesTool
      <3> QED
        BY <3>1, <3>2, <3>3, RecordStep DEF ToolInv
    <2> QED
      BY <2>1, <2>2 DEF ToolInv, ToolOwed
  <1>3. ToolInv => ToolOwedWhileInFlight
    BY DEF ToolInv, ToolOwed, ToolOwedWhileInFlight
  <1> QED
    BY <1>1, <1>2, <1>3, PTL DEF Spec

-----------------------------------------------------------------------------
(* The chain of facts.                                                     *)

\* FactsFormChain holds of the next record only if the fact it stores writes
\* over none, so the invariant also says why each mutation is new: re-entries
\* and handoffs are numbered by what is stored of them, and a round that was
\* rolled back is a round at rest until the next one opens.
Chained(r) ==
    /\ {f.rev : f \in r.muts} = 0 .. (r.revision - 1)
    /\ \E f \in r.muts : f.rev = r.revision - 1 /\ f.to = r.status

Numbered(r) == \A f \in r.muts :
    f.mut.op \in {"reactivate", "handoff"} => f.mut.n <= CountOf(r, f.mut.op)

UnwoundAtRest(r) == \A f \in r.muts : f.mut.op = "rollback" =>
    f.mut.n <= r.round /\ (f.mut.n = r.round => IsTerminal(r.status))

ChainOf(r) == Chained(r) /\ Numbered(r) /\ UnwoundAtRest(r)

LEMMA AdmittedChain == ChainOf(Admitted)
  <1>0. AdmitFact.rev = 0 /\ AdmitFact.to = "accepted" /\ Blank.muts = {}
    BY DEF AdmitFact, Fact, Blank
  <1>1. /\ Applied(Blank, AdmitFact) \in Records
        /\ Applied(Blank, AdmitFact).status = "accepted"
        /\ Applied(Blank, AdmitFact).revision = 1
        /\ Applied(Blank, AdmitFact).muts = {AdmitFact}
    BY <1>0, AdmitFactType, BlankType, AppliedType
  <1>2. /\ Admitted.status = "accepted" /\ Admitted.revision = 1
        /\ Admitted.muts = {AdmitFact}
    BY <1>1 DEF Admitted, OpenTool, Records
  <1>3. AdmitFact.rev = 0 /\ AdmitFact.to = "accepted" /\ AdmitFact.mut.op = "admit"
    BY DEF AdmitFact, Fact, Mutation
  <1>4. {f.rev : f \in Admitted.muts} = {0}
    BY <1>2, <1>3
  <1>5. Chained(Admitted)
    BY <1>2, <1>3, <1>4 DEF Chained
  <1> QED
    BY <1>2, <1>3, <1>5 DEF ChainOf, Numbered, UnwoundAtRest

\* No move stores a fact under the identity of an earlier one.
LEMMA MovedFresh ==
    ASSUME NEW r, Kept(r), ChainOf(r), NEW s, NEW f \in Facts,
           Stores(r, f, s), Moves(r, f, s)
    PROVE  /\ \A g \in r.muts : g.mut # f.mut
           /\ s.muts = r.muts \cup {f}
  <1>1. SUFFICES ASSUME NEW g \in r.muts, g.mut = f.mut PROVE FALSE
    BY DEF Stores
  <1>2. g.mut.op = f.mut.op /\ g.mut.n = f.mut.n
    BY <1>1
  <1>3. CountOf(r, "reactivate") \in Nat /\ CountOf(r, "handoff") \in Nat
    BY CountType
  <1>4. CASE f.mut.op \in {"run", "await", "settle", "resume"}
    BY <1>1, <1>4 DEF Moves, Knows
  <1>5. CASE f.mut.op = "reactivate"
    BY <1>2, <1>3, <1>5 DEF Moves, ReactivationSeq, ChainOf, Numbered
  <1>6. CASE f.mut.op = "handoff"
    BY <1>2, <1>3, <1>6 DEF Moves, ChainOf, Numbered
  <1>7. CASE f.mut.op = "rollback"
    BY <1>2, <1>7 DEF Moves, ChainOf, UnwoundAtRest, IsTerminal, TerminalKinds
  <1>8. CASE f.mut.op = "stop"
    BY <1>2, <1>8 DEF Moves
  <1> QED
    BY <1>4, <1>5, <1>6, <1>7, <1>8 DEF Moves

\* A fresh fact adds one to the count of its own kind.
LEMMA CountStep ==
    ASSUME NEW r, Kept(r), NEW s, NEW f, f \notin r.muts,
           s.muts = r.muts \cup {f}, NEW op
    PROVE  CountOf(s, op) = CountOf(r, op) + (IF f.mut.op = op THEN 1 ELSE 0)
  <1> DEFINE S == {g \in r.muts : g.mut.op = op}
             T == {g \in s.muts : g.mut.op = op}
  <1>1. IsFiniteSet(S) /\ Cardinality(S) \in Nat
    BY FS_Subset, FS_CardinalityType DEF Kept
  <1>2. CASE f.mut.op = op
    <2>1. T = S \cup {f} /\ f \notin S
      BY <1>2
    <2>2. Cardinality(T) = Cardinality(S) + 1
      BY <1>1, <2>1, FS_AddElement
    <2> QED
      BY <1>2, <2>2 DEF CountOf
  <1>3. CASE f.mut.op # op
    <2>1. T = S
      BY <1>3
    <2>2. CountOf(s, op) = Cardinality(S) /\ CountOf(r, op) = Cardinality(S)
      BY <2>1 DEF CountOf
    <2> QED
      BY <1>1, <1>3, <2>2
  <1> QED
    BY <1>2, <1>3

LEMMA MovedChain ==
    ASSUME NEW r, Kept(r), ChainOf(r), NEW s, Moved(r, s)
    PROVE  ChainOf(s)
  <1>1. PICK f \in Facts : Stores(r, f, s) /\ Moves(r, f, s)
    BY MovedStores
  <1>2. (\A g \in r.muts : g.mut # f.mut) /\ s.muts = r.muts \cup {f} /\ f \notin r.muts
    BY <1>1, MovedFresh
  <1>3. r.revision \in Nat /\ r.round \in Nat /\ r.muts \subseteq Facts
    BY DEF Kept, Records
  <1>4. Chained(s)
    <2>1. {g.rev : g \in s.muts} = {g.rev : g \in r.muts} \cup {r.revision}
      BY <1>1, <1>2 DEF Stores
    <2>2. {g.rev : g \in r.muts} = 0 .. (r.revision - 1)
      BY DEF ChainOf, Chained
    <2>3. 0 .. (s.revision - 1) = 0 .. (r.revision - 1) \cup {r.revision}
      BY <1>1, <1>3 DEF Stores
    <2>4. f \in s.muts /\ f.rev = s.revision - 1 /\ f.to = s.status
      BY <1>1, <1>2, <1>3 DEF Stores
    <2> QED
      BY <2>1, <2>2, <2>3, <2>4 DEF Chained
  <1>5. Numbered(s)
    <2>1. ASSUME NEW g \in s.muts, g.mut.op \in {"reactivate", "handoff"}
          PROVE  g.mut.n <= CountOf(s, g.mut.op)
      <3>1. CountOf(r, g.mut.op) \in Nat
        BY CountType
      <3>2. CountOf(s, g.mut.op) =
              CountOf(r, g.mut.op) + (IF f.mut.op = g.mut.op THEN 1 ELSE 0)
        <4>1. /\ Kept(r) /\ f \in Facts /\ f \notin r.muts
              /\ s.muts = r.muts \cup {f}
          BY <1>2
        <4> QED
          BY ONLY <4>1, CountStep
      <3>3. CASE g = f
        <4>1. f.mut.n = CountOf(r, f.mut.op) + 1
          BY <1>1, <2>1, <3>3 DEF Moves, ReactivationSeq
        <4> QED
          BY <3>1, <3>2, <3>3, <4>1
      <3>4. CASE g # f
        <4>1. g \in r.muts /\ g.mut.n \in Nat
          BY <1>2, <1>3, <3>4 DEF Facts, Mutations
        <4>2. g.mut.n <= CountOf(r, g.mut.op)
          BY <2>1, <4>1 DEF ChainOf, Numbered
        <4> QED
          BY <3>1, <3>2, <4>1, <4>2
      <3> QED
        BY <3>3, <3>4
    <2> QED
      BY <2>1 DEF Numbered
  <1>6. UnwoundAtRest(s)
    <2>1. ASSUME NEW g \in s.muts, g.mut.op = "rollback"
          PROVE  g.mut.n <= s.round /\ (g.mut.n = s.round => IsTerminal(s.status))
      <3>1. CASE g = f
        BY <1>1, <1>3, <2>1, <3>1 DEF Moves, Stores, IsTerminal, TerminalKinds
      <3>2. CASE g # f
        <4>1. g \in r.muts /\ g.mut.n \in Nat
          BY <1>2, <1>3, <3>2 DEF Facts, Mutations
        <4>2. g.mut.n <= r.round /\ (g.mut.n = r.round => IsTerminal(r.status))
          BY <2>1, <4>1 DEF ChainOf, UnwoundAtRest
        <4> QED
          BY <1>1, <1>3, <4>1, <4>2
             DEF Moves, Stores, MayAdvance, IsTerminal, TerminalKinds
      <3> QED
        BY <3>1, <3>2
    <2> QED
      BY <2>1 DEF UnwoundAtRest
  <1> QED
    BY <1>4, <1>5, <1>6 DEF ChainOf

LEMMA RestedChain ==
    ASSUME NEW r, NEW s, ChainOf(r), Rested(r, s)
    PROVE  ChainOf(s)
  BY DEF ChainOf, Chained, Numbered, UnwoundAtRest, Rested, CountOf

ChainInv == TypeInv /\ \A t \in held : ChainOf(task[t])

LEMMA ChainInductive ==
    /\ Init => ChainInv
    /\ ChainInv /\ [Next]_vars => ChainInv'
  <1>1. Init => ChainInv
    BY TypeInit DEF Init, ChainInv
  <1>2. ASSUME ChainInv, [Next]_vars PROVE ChainInv'
    <2>1. TypeInv'
      BY <1>2, TypeStep DEF ChainInv
    <2>2. ASSUME NEW t \in held' PROVE ChainOf(task'[t])
      <3>1. CASE t \notin held /\ task'[t] = Admitted
        BY <3>1, AdmittedChain
      <3>2. CASE t \in held /\ Rested(task[t], task'[t])
        BY <1>2, <3>2, RestedChain DEF ChainInv
      <3>3. CASE t \in held /\ Moved(task[t], task'[t])
        <4>1. Kept(task[t]) /\ ChainOf(task[t])
          BY <1>2, <3>3 DEF ChainInv, TypeInv, RegistryInv
        <4> QED
          BY <3>3, <4>1, MovedChain
      <3> QED
        BY <1>2, <3>1, <3>2, <3>3, RecordStep DEF ChainInv
    <2>3. \A t \in held' : ChainOf(task'[t])
      BY <2>2
    <2>4. (\A t \in held : ChainOf(task[t]))'
      BY <2>3 DEF ChainOf, Chained, Numbered, UnwoundAtRest, CountOf, IsTerminal
    <2> QED
      BY <2>1, <2>4 DEF ChainInv
  <1> QED
    BY <1>1, <1>2

\* The facts of every held task form one chain without a gap or an overwritten
\* link, however its re-entries, rollbacks and handoffs are interleaved: what
\* RecoveryMaterial hands out folds.
THEOREM ChainCorrect == Spec => []FactsFormChain
  <1>1. ChainInv => FactsFormChain
    BY DEF ChainInv, ChainOf, Chained, FactsFormChain
  <1> QED
    BY <1>1, ChainInductive, PTL DEF Spec

-----------------------------------------------------------------------------
(* The terminal outcome.                                                   *)

\* What may follow a terminal outcome of r, in the record s behind it.
Stands(r, s) ==
    IsTerminal(r.status) /\ s.status # r.status =>
        /\ r.status # "cancelled"
        /\ \E f \in s.muts \ r.muts : f.mut.op \in {"resume", "reactivate", "stop"}
        /\ s.status = "running" /\ r.status = "failed" =>
              \E f \in s.muts \ r.muts : f.mut.op = "resume"

LEMMA MovedStands ==
    ASSUME NEW r, Kept(r), ChainOf(r), NEW s, Moved(r, s)
    PROVE  Stands(r, s)
  <1>1. PICK f \in Facts : Stores(r, f, s) /\ Moves(r, f, s)
    BY MovedStores
  <1>2. f \in s.muts \ r.muts /\ s.status = f.to
    BY <1>1, MovedFresh DEF Stores
  <1>3. CASE f.mut.op \in {"run", "await", "settle"}
    BY <1>1, <1>3 DEF Moves, MayAdvance, Stands
  <1>4. CASE f.mut.op \in {"resume", "reactivate"}
    BY <1>1, <1>2, <1>4 DEF Moves, Stands, IsTerminal, TerminalKinds
  <1>5. CASE f.mut.op \in {"rollback", "handoff"}
    BY <1>1, <1>2, <1>5 DEF Moves, Stands, IsTerminal, TerminalKinds
  <1>6. CASE f.mut.op = "stop"
    BY <1>1, <1>2, <1>6 DEF Moves, Stands
  <1> QED
    BY <1>1, <1>3, <1>4, <1>5, <1>6 DEF Moves

\* A terminal outcome gives way only to a declared re-entry or to a stop that was
\* requested before, and a cancelled task never moves: no late report, parked call,
\* rollback or handoff revives a task (lifecycle.go:23-25).
THEOREM TerminalCorrect == Spec => TerminalStands
  <1> DEFINE Standing == \A t \in held \cap held' : Stands(task[t], task'[t])
  <1>1. ChainInv /\ [Next]_vars => Standing
    <2> SUFFICES ASSUME ChainInv, [Next]_vars, NEW t \in held \cap held'
                 PROVE  Stands(task[t], task'[t])
      OBVIOUS
    <2>1. Kept(task[t]) /\ ChainOf(task[t])
      BY DEF ChainInv, TypeInv, RegistryInv
    <2>2. Rested(task[t], task'[t]) \/ Moved(task[t], task'[t])
      BY RecordStep DEF ChainInv
    <2> QED
      BY <2>1, <2>2, MovedStands DEF Stands, Rested
  <1>2. Standing =>
           \A t \in held \cap held' :
              IsTerminal(task[t].status) /\ task'[t].status # task[t].status =>
                 /\ task[t].status # "cancelled"
                 /\ \E f \in task'[t].muts \ task[t].muts :
                       f.mut.op \in {"resume", "reactivate", "stop"}
                 /\ task'[t].status = "running" /\ task[t].status = "failed" =>
                       \E f \in task'[t].muts \ task[t].muts : f.mut.op = "resume"
    BY DEF Stands
  <1> QED
    BY <1>1, <1>2, ChainInductive, PTL DEF Spec, TerminalStands

-----------------------------------------------------------------------------
(* The notices.                                                            *)

\* One notification under one routing, owed by the record for the same fact.
Owes(r, e, rev) == \E o \in r.owed : o.env = e /\ o.rev = rev

\* A move keeps what is owed and owes what the fact it stores commits.
Carries(r, s) ==
    /\ \A o \in r.owed : Owes(s, o.env, o.rev)
    /\ \A g \in s.muts : g \in r.muts \/ \A e \in g.outbox : Owes(s, e, g.rev)

LEMMA AppliedCarries ==
    ASSUME NEW r \in Records, NEW f \in Facts
    PROVE  Carries(r, Applied(r, f))
  <1> DEFINE awaiting == {[env |-> e, rev |-> f.rev, kind |-> "awaiting"] : e \in f.outbox}
  <1>1. /\ Applied(r, f).owed = r.owed \cup awaiting
        /\ Applied(r, f).muts = {g \in r.muts : g.mut # f.mut} \cup {f}
    BY AppliedType
  <1>2. ASSUME NEW e \in f.outbox
        PROVE  \E o \in awaiting : o.env = e /\ o.rev = f.rev
    <2> DEFINE o == [env |-> e, rev |-> f.rev, kind |-> "awaiting"]
    <2>1. o \in awaiting /\ o.env = e /\ o.rev = f.rev
      OBVIOUS
    <2> HIDE DEF o
    <2> QED
      BY <2>1
  <1> HIDE DEF awaiting
  <1> QED
    BY <1>1, <1>2 DEF Carries, Owes

\* Counting the tool or opening a round moves neither the notices nor the facts.
LEMMA SameNotices ==
    ASSUME NEW r, NEW a, NEW s, Carries(r, a), s.owed = a.owed, s.muts = a.muts
    PROVE  Carries(r, s)
  BY DEF Carries, Owes

LEMMA HandedOffCarries ==
    ASSUME NEW r, NEW a \in Records, NEW target, Carries(r, a)
    PROVE  Carries(r, HandedOff(a, target))
  <1> DEFINE s == HandedOff(a, target)
  <1>1. /\ s.owed = {[o EXCEPT !.kind = "handed_off"] : o \in a.owed}
        /\ s.muts = a.muts
    BY HandedOffFields
  <1>2. \A o \in a.owed : [o EXCEPT !.kind = "handed_off"].env = o.env
                          /\ [o EXCEPT !.kind = "handed_off"].rev = o.rev
    BY DEF Records, Obligations
  <1> HIDE DEF s
  <1>3. \A e, rev : Owes(a, e, rev) => Owes(s, e, rev)
    BY <1>1, <1>2 DEF Owes
  <1> QED
    BY <1>1, <1>3 DEF Carries, s

LEMMA ReenteredCarries ==
    ASSUME NEW r \in Records, NEW f \in Facts
    PROVE  Carries(r, Reentered(r, f))
  <1>1. Applied(r, f) \in Records
    BY AppliedType
  <1>2. /\ Reentered(r, f).owed = Applied(r, f).owed
        /\ Reentered(r, f).muts = Applied(r, f).muts
    BY <1>1 DEF Reentered, OpenTool, Records
  <1> QED
    BY <1>2, AppliedCarries, SameNotices

LEMMA ClosedCarries ==
    ASSUME NEW r \in Records, NEW f \in Facts
    PROVE  Carries(r, CloseTools(Applied(r, f)))
  <1>1. Applied(r, f) \in Records
    BY AppliedType
  <1> QED
    BY <1>1, ClosedFields, AppliedCarries, SameNotices

LEMMA MovedCarries ==
    ASSUME NEW r, Kept(r), NEW s, Moved(r, s)
    PROVE  Carries(r, s)
  <1>0. r \in Records /\ r.round \in Nat /\ r.revision \in Nat /\ r.status \in Statuses
    BY DEF Kept, Records
  <1>1. CASE AdvancedTo(r, s)
    BY <1>0, <1>1, AppliedCarries, ClosedCarries DEF AdvancedTo, Advanced
  <1>2. CASE ResumedTo(r, s)
    <2>1. PICK input \in Inputs :
            s = Reentered(r, Fact(Mutation("resume", 0, input), r.revision, "running", {}))
      BY <1>2 DEF ResumedTo
    <2>2. Mutation("resume", 0, input) \in Mutations
      BY MutationType DEF MutationOps
    <2> QED
      BY <1>0, <2>1, <2>2, FactType, ReenteredCarries DEF Statuses
  <1>3. CASE ReactivatedTo(r, s)
    <2>1. ReactivationSeq(r) \in Nat
      BY CountType DEF ReactivationSeq
    <2>2. Mutation("reactivate", ReactivationSeq(r), Nil) \in Mutations
      BY <2>1, MutationType DEF MutationOps
    <2> QED
      BY <1>0, <1>3, <2>2, FactType, ReenteredCarries DEF Statuses, ReactivatedTo
  <1>4. CASE RolledBackTo(r, s)
    <2>1. Mutation("rollback", r.round, Nil) \in Mutations
      BY <1>0, MutationType DEF MutationOps
    <2> QED
      BY <1>0, <1>4, <2>1, FactType, ClosedCarries DEF Statuses, RolledBackTo, RolledBack
  <1>5. CASE StoppedTo(r, s)
    <2> DEFINE outbox == {Envelope(Notice(r.round, "cancelled"), RouteOf(r))}
    <2>1. Mutation("stop", 0, Nil) \in Mutations /\ outbox \in SUBSET Envelopes
      BY <1>0, MutationType, OwnOutboxType DEF MutationOps, TerminalKinds
    <2>2. Fact(Mutation("stop", 0, Nil), r.revision, "cancelled", outbox) \in Facts
      BY <1>0, <2>1, FactType DEF Statuses
    <2> QED
      BY <1>0, <1>5, <2>2, ClosedCarries DEF StoppedTo, Stopped
  <1>6. CASE HandedOffTo(r, s)
    <2> DEFINE n == CountOf(r, "handoff") + 1
    <2>1. PICK target \in Targets :
            s = HandedOff(Applied(r, Fact(Mutation("handoff", n, target),
                                          r.revision, r.status, {})), target)
      BY <1>6 DEF HandedOffTo
    <2> DEFINE f == Fact(Mutation("handoff", n, target), r.revision, r.status, {})
    <2>2. n \in Nat
      BY CountType
    <2>3. Mutation("handoff", n, target) \in Mutations
      BY <2>2, MutationType DEF MutationOps
    <2>4. f \in Facts
      BY <1>0, <2>3, FactType
    <2>5. Applied(r, f) \in Records /\ Carries(r, Applied(r, f))
      BY <1>0, <2>4, AppliedType, AppliedCarries
    <2> QED
      BY <2>1, <2>5, HandedOffCarries
  <1> QED
    BY <1>1, <1>2, <1>3, <1>4, <1>5, <1>6 DEF Moved

\* The notices one target answered stay answered, and the only notice an
\* acceptance clears is one its mailbox took.
Mailed == \A t \in Tasks : exec[t].pc = "mailed" =>
    <<t, Notice(exec[t].round, exec[t].kind)>> \in answered

LEMMA AnsweredGrows ==
    ASSUME [Next]_vars
    PROVE  answered \subseteq answered'
  <1>1. CASE PruneTerminal
    BY <1>1 DEF PruneTerminal
  <1>2. ASSUME NEW target \in Targets, CloseInstance(target)
        PROVE  answered \subseteq answered'
    BY <1>2 DEF CloseInstance
  <1>3. ASSUME NEW t \in Tasks, TaskNext(t)
        PROVE  answered \subseteq answered'
    BY <1>3 DEF TaskNext, Register, Age, StartRunning, Park, Resume, Reactivate,
                Serve, Rollback, RollbackFails, RequestCancel, RecordStop, Handoff,
                Flush, ToolReturns, FreezeEnvelope, SettleRun, SettleRunLost,
                MailNotice, MailFails, AcceptDelivery, Report, Advance,
                AdvanceRepeats, AdvanceRefused, Move
  <1> QED
    BY <1>1, <1>2, <1>3 DEF Next, vars

\* An execution reaches "mailed" only over the mailbox.
LEMMA ExecMails ==
    ASSUME TypeInv, [Next]_vars, NEW t \in Tasks, exec'[t].pc = "mailed"
    PROVE  \/ exec'[t] = exec[t]
           \/ <<t, Notice(exec'[t].round, exec'[t].kind)>> \in answered'
  <1> DEFINE goal == \/ exec'[t] = exec[t]
                     \/ <<t, Notice(exec'[t].round, exec'[t].kind)>> \in answered'
  <1>0. exec \in [Tasks -> Execs]
    BY DEF TypeInv, ClientInv
  <1>1. CASE PruneTerminal
    BY <1>1 DEF PruneTerminal, clients
  <1>2. ASSUME NEW target \in Targets, CloseInstance(target) PROVE goal
    BY <1>2 DEF CloseInstance, clients
  <1>3. ASSUME NEW u \in Tasks, TaskNext(u) PROVE goal
    <2>1. CASE \E k \in Keys, use \in {"run", "hold", "delegate"} : Register(u, k, use)
      <3>1. PICK use : exec' = [exec EXCEPT ![u].pc =
                                   IF use = "run" THEN "called" ELSE "idle"]
        BY <2>1 DEF Register
      <3> QED
        BY <1>0, <3>1 DEF Execs
    <2>2. CASE MailNotice(u)
      <3>1. /\ exec' = [exec EXCEPT ![u].pc = "mailed"]
            /\ answered' = answered \cup {<<u, Notice(exec[u].round, exec[u].kind)>>}
        BY <2>2 DEF MailNotice, Execute
      <3>2. exec'[u].round = exec[u].round /\ exec'[u].kind = exec[u].kind
        BY <1>0, <3>1 DEF Execs
      <3> QED
        BY <1>0, <3>1, <3>2
    <2>3. CASE \/ FreezeEnvelope(u) \/ SettleRun(u) \/ SettleRunLost(u)
               \/ MailFails(u) \/ AcceptDelivery(u)
               \/ \E kind \in {"settled", "failed"} : ToolReturns(u, kind)
      <3>1. CASE FreezeEnvelope(u)
        BY <1>0, <3>1 DEF FreezeEnvelope, Execs
      <3>2. CASE \E kind \in {"settled", "failed"} : ToolReturns(u, kind)
        BY <1>0, <3>2 DEF ToolReturns, Execs
      <3>3. PICK pc \in {"settled", "lost", "done"} :
                   ~FreezeEnvelope(u) /\ ~(\E kind \in {"settled", "failed"} :
                                              ToolReturns(u, kind))
                   => exec' = [exec EXCEPT ![u].pc = pc]
        BY <2>3 DEF SettleRun, SettleRunLost, MailFails, AcceptDelivery, Execute
      <3> QED
        BY <1>0, <3>1, <3>2, <3>3 DEF Execs
    <2>4. CASE exec' = exec
      BY <2>4
    <2> QED
      BY <1>3, <2>1, <2>2, <2>3, <2>4
         DEF TaskNext, Age, StartRunning, Park, Resume, Reactivate, Serve,
             Rollback, RollbackFails, RequestCancel, RecordStop, Handoff, Flush,
             Report, clients
  <1>4. CASE UNCHANGED vars
    BY <1>4 DEF vars
  <1> QED
    BY <1>1, <1>2, <1>3, <1>4 DEF Next

LEMMA MailedStep ==
    ASSUME TypeInv, Mailed, [Next]_vars
    PROVE  Mailed'
  <1>1. ASSUME NEW t \in Tasks, exec'[t].pc = "mailed"
        PROVE  <<t, Notice(exec'[t].round, exec'[t].kind)>> \in answered'
    BY <1>1, ExecMails, AnsweredGrows DEF Mailed
  <1> QED
    BY <1>1 DEF Mailed, Notice

\* What the record of t owed is still owed, or answered.
StillOwed(t) == \A o \in task[t].owed :
    Owes(task'[t], o.env, o.rev) \/ <<t, o.env.notice>> \in answered'

LEMMA SameStillOwed ==
    ASSUME NEW t, task'[t].owed = task[t].owed
    PROVE  StillOwed(t)
  BY DEF StillOwed, Owes

\* A flush drops what the targets answered, an acceptance what the mailbox took;
\* a request and the age of a record drop nothing.
LEMMA TouchStillOwed ==
    ASSUME TypeInv, Mailed, NEW u \in Tasks, Touches(u), NEW t \in held
    PROVE  StillOwed(t)
  <1>0. /\ task \in [Tasks -> Records] /\ t \in Tasks
        /\ task[t] \in Records /\ task[u] \in Records
    BY DEF TypeInv, RegistryInv
  <1>1. CASE t # u \/ Age(u) \/ RequestCancel(u)
    <2>1. task'[t].owed = task[t].owed
      BY <1>0, <1>1 DEF Touches, Age, RequestCancel, Flush, AcceptDelivery, Records
    <2> QED
      BY <2>1, SameStillOwed
  <1>2. CASE t = u /\ Flush(u)
    <2>1. PICK accepted \in SUBSET Offered(u), refused \in SUBSET Offered(u) :
            /\ task' = [task EXCEPT ![u].owed = Unanswered(task[u], accepted, refused)]
            /\ answered' = answered \cup
                  {<<u, o.env.notice>> : o \in accepted \cup refused}
      BY <1>2 DEF Flush
    <2>2. task'[t].owed = task[t].owed \ (accepted \cup refused)
      BY <1>0, <1>2, <2>1 DEF Unanswered, Records
    <2> QED
      BY <1>2, <2>1, <2>2 DEF StillOwed, Owes
  <1>3. CASE t = u /\ AcceptDelivery(u)
    <2> DEFINE notice == Notice(exec[u].round, exec[u].kind)
               cleared == {o \in task[u].owed :
                              o.env.notice = notice /\ o.kind = "awaiting"}
    <2>1. /\ exec[u].pc = "mailed" /\ answered' = answered
          /\ task' = [task EXCEPT ![u].owed = Unanswered(task[u], cleared, {})]
      BY <1>3 DEF AcceptDelivery, Execute
    <2>2. task'[t].owed = task[t].owed \ cleared
      BY <1>0, <1>3, <2>1 DEF Unanswered, Records
    <2>3. <<u, notice>> \in answered'
      BY <2>1 DEF Mailed
    <2> QED
      BY <1>3, <2>2, <2>3 DEF StillOwed, Owes
  <1> QED
    BY <1>1, <1>2, <1>3 DEF Touches

\* Every notice a fact of the record of t committed is owed or answered.
Accounted(t) == \A f \in task[t].muts : \A e \in f.outbox :
    Owes(task[t], e, f.rev) \/ <<t, e.notice>> \in answered

NoticeInv == TypeInv /\ Mailed /\ \A t \in held : Accounted(t)

LEMMA StillAccounted ==
    ASSUME NEW t, Accounted(t), StillOwed(t), answered \subseteq answered',
           task'[t].muts = task[t].muts
    PROVE  Accounted(t)'
  BY DEF Accounted, StillOwed, Owes

LEMMA MovedAccounted ==
    ASSUME NEW t, Accounted(t), Carries(task[t], task'[t]),
           answered \subseteq answered'
    PROVE  Accounted(t)'
  BY DEF Accounted, Carries, Owes

LEMMA AdmittedAccounted ==
    ASSUME NEW t, task'[t] = Admitted
    PROVE  Accounted(t)'
  <1>1. Blank.muts = {} /\ AdmitFact.outbox = {}
    BY DEF Blank, AdmitFact, Fact
  <1>2. Admitted.muts = {AdmitFact}
    <2>1. /\ Applied(Blank, AdmitFact) \in Records
          /\ Applied(Blank, AdmitFact).muts = {AdmitFact}
      BY <1>1, AdmitFactType, BlankType, AppliedType
    <2> QED
      BY <2>1 DEF Admitted, OpenTool, Records
  <1> QED
    BY <1>1, <1>2 DEF Accounted

\* Every notification a task committed is still owed under the routing it froze,
\* or its target answered it, while the registry holds the task: no flush, late
\* acceptance, handoff, re-entry or stop makes one disappear
\* (manager.go:136-148, handoff.go:45-48).
THEOREM NoticesCorrect == Spec => []NoNoticeLost
  <1>1. Init => NoticeInv
    BY TypeInit DEF Init, NoticeInv, Mailed, IdleExec
  <1>2. NoticeInv /\ [Next]_vars => NoticeInv'
    <2> SUFFICES ASSUME NoticeInv, [Next]_vars PROVE NoticeInv'
      OBVIOUS
    <2>1. TypeInv' /\ Mailed' /\ answered \subseteq answered'
      BY TypeStep, MailedStep, AnsweredGrows DEF NoticeInv
    <2>2. ASSUME NEW t \in held' PROVE Accounted(t)'
      <3>1. CASE t \notin held /\ task'[t] = Admitted
        BY <3>1, AdmittedAccounted
      <3>2. CASE t \in held /\ task'[t] = task[t]
        BY <2>1, <3>2, SameStillOwed, StillAccounted DEF NoticeInv
      <3>3. CASE t \in held /\ Moved(task[t], task'[t])
        <4>1. Kept(task[t]) /\ Accounted(t)
          BY <3>3 DEF NoticeInv, TypeInv, RegistryInv
        <4> QED
          BY <2>1, <3>3, <4>1, MovedCarries, MovedAccounted
      <3>4. CASE t \in held /\ \E u \in Tasks : Touches(u)
        <4>1. PICK u \in Tasks : Touches(u)
          BY <3>4
        <4>2. Rested(task[t], task'[t])
          BY <4>1, FieldMoves DEF Touches, NoticeInv
        <4>3. StillOwed(t)
          BY <3>4, <4>1, TouchStillOwed DEF NoticeInv
        <4> QED
          BY <2>1, <3>4, <4>2, <4>3, StillAccounted DEF NoticeInv, Rested
      <3> QED
        BY <3>1, <3>2, <3>3, <3>4, RecordChange DEF NoticeInv
    <2> QED
      BY <2>1, <2>2 DEF NoticeInv
  <1>3. NoticeInv => NoNoticeLost
    BY DEF NoticeInv, Accounted, Owes, NoNoticeLost, OwedFor
  <1> QED
    BY <1>1, <1>2, <1>3, PTL DEF Spec
=============================================================================
