----------------------------- MODULE TaskRecord -----------------------------
(***************************************************************************)
(* One task of the runtime: the record the in-memory registry keeps of it, *)
(* the commit facts that move it and what applying one fact does to the    *)
(* record (runtime/task: lifecycle.go, reactivate.go, cancel.go,           *)
(* handoff.go, commit.go).  The operators are pure; TaskRegistry runs them *)
(* under the registry lock and DurableTasks folds them back from a stored chain. *)
(*                                                                         *)
(* A delivery routing is one value: the target address beside the target   *)
(* instance.  A notice is named by its round and its kind: every producer  *)
(* in the code numbers it 0, and the task is the record's own.             *)
(***************************************************************************)
EXTENDS Naturals, FiniteSets

CONSTANTS
    Home,      \* the routing of the declaration the task was admitted under
    Targets,   \* every routing a notification can freeze
    Inputs,    \* the event identities a resume declaration can carry
    Nil        \* no routing, no input, no task

ASSUME RoutingAssumption == Home \in Targets /\ Nil \notin Targets

-----------------------------------------------------------------------------
(* Statuses, notices, mutations and facts.                                 *)

Statuses == {"accepted", "running", "awaiting_approval",
             "settled", "failed", "cancelled"}

\* isTerminal
TerminalKinds == {"settled", "failed", "cancelled"}

IsTerminal(status) == status \in TerminalKinds

Notices == [round : Nat, kind : TerminalKinds]

Envelopes == [notice : Notices, target : Targets]

MutationOps == {"admit", "run", "await", "cut", "settle", "stop",
                "resume", "reactivate", "rollback", "handoff"}

\* A mutation identity: what it does, the number it encodes (a round, a
\* reactivation or a handoff slot) and the value it carries.
Mutations == [op : MutationOps, n : Nat, at : Targets \cup Inputs \cup {Nil}]

Mutation(op, n, at) == [op |-> op, n |-> n, at |-> at]

\* CommitRecord
Facts == [mut : Mutations, rev : Nat, to : Statuses, outbox : SUBSET Envelopes]

Fact(mut, rev, to, outbox) ==
    [mut |-> mut, rev |-> rev, to |-> to, outbox |-> outbox]

\* A delivery obligation: the envelope, the revision of the fact that opened
\* it, and whether a handoff reclassified it.
Obligations == [env : Envelopes, rev : Nat, kind : {"awaiting", "handed_off"}]

\* memoryTask.  tools counts the awaiting-tool obligations; old says that the
\* terminal TTL has passed since the last committed fact.
Records ==
    [status   : Statuses,
     revision : Nat,
     round    : Nat,
     muts     : SUBSET Facts,
     tools    : Nat,
     owed     : SUBSET Obligations,
     cancel   : BOOLEAN,
     handoff  : Targets \cup {Nil},
     old      : BOOLEAN]

\* The record of a task just declared, before its first fact.
Blank ==
    [status |-> "accepted", revision |-> 0, round |-> 1, muts |-> {},
     tools |-> 0, owed |-> {}, cancel |-> FALSE, handoff |-> Nil, old |-> FALSE]

-----------------------------------------------------------------------------
(* What one committed fact does to a record.                               *)

\* The routing a notification of the task freezes when it is created.
RouteOf(r) == IF r.handoff = Nil THEN Home ELSE r.handoff

\* applyCommitLocked on a fact the carrier stored: a map keyed by mutation, so
\* a repeated mutation identity would overwrite the fact it names.
Applied(r, f) ==
    [r EXCEPT !.status   = f.to,
              !.revision = f.rev + 1,
              !.muts     = {g \in r.muts : g.mut # f.mut} \cup {f},
              !.owed     = r.owed \cup
                  {[env |-> e, rev |-> f.rev, kind |-> "awaiting"] : e \in f.outbox},
              !.old      = FALSE]

OpenTool(r) == [r EXCEPT !.tools = r.tools + 1]

\* closeExecutionObligation drops every awaiting-tool obligation at once.
CloseTools(r) == [r EXCEPT !.tools = 0]

\* repeatOf: the mutation is stored already, and stored with this content.
Knows(r, f) == \E g \in r.muts : g.mut = f.mut

Repeats(r, f) == \E g \in r.muts :
    g.mut = f.mut /\ g.to = f.to /\ g.outbox = f.outbox

EntersApprovalWait(from) == from \in {"accepted", "running"}

LeavesApprovalWait(to) == to = "running" \/ IsTerminal(to)

\* Mutant of MayAdvance: the terminal refusal is missing.
MayAdvanceAnywhere(r, to) ==
    /\ to # "accepted"
    /\ to = "awaiting_approval" => EntersApprovalWait(r.status)
    /\ r.status = "awaiting_approval" => LeavesApprovalWait(to)

\* The refusals of Advance on a mutation the task does not store.
MayAdvance(r, to) ==
    /\ to # "accepted"
    /\ ~IsTerminal(r.status)
    /\ to = "awaiting_approval" => EntersApprovalWait(r.status)
    /\ r.status = "awaiting_approval" => LeavesApprovalWait(to)

Advanced(r, f) ==
    IF IsTerminal(f.to) THEN CloseTools(Applied(r, f)) ELSE Applied(r, f)

\* A resume or a reactivation opens the next round and its tool obligation.
Reentered(r, f) ==
    OpenTool([Applied(r, f) EXCEPT !.round = r.round + 1])

\* reactivationSeq and the slot of a handoff: mutations of that kind stored.
CountOf(r, op) == Cardinality({f \in r.muts : f.mut.op = op})

\* Mutant of HandedOff: an open delivery follows the task to its new target.
HandedOffRerouted(r, target) ==
    [r EXCEPT !.handoff = target,
              !.owed    = {[o EXCEPT !.kind = "handed_off", !.env.target = target] :
                              o \in r.owed}]

\* applyHandoff: future notifications freeze the new routing, and an open
\* delivery is only reclassified.
HandedOff(r, target) ==
    [r EXCEPT !.handoff = target,
              !.owed    = {[o EXCEPT !.kind = "handed_off"] : o \in r.owed}]

Envelope(notice, target) == [notice |-> notice, target |-> target]

Notice(round, kind) == [round |-> round, kind |-> kind]

\* The obligations of a record still owed for one notification, whatever their
\* kind.
OwedFor(r, e, rev) == {o \in r.owed : o.env = e /\ o.rev = rev}
=============================================================================
