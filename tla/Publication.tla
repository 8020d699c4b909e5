---------------------------- MODULE Publication ----------------------------
(***************************************************************************)
(* The publication of agent bindings (runtime/state: publish.go,           *)
(* binding.go, retire.go, lease.go, baseline.go), with the construction of *)
(* a candidate by the assembly (assembly/run.go, prepare.go).              *)
(*                                                                         *)
(* A candidate reads the baseline, is constructed beside the requests that *)
(* run, and enters the publication under Publisher.mu.  The lock of the    *)
(* holder (Bindings.mu) is a different one: requests borrow and release    *)
(* between the steps of a publication.                                     *)
(***************************************************************************)
EXTENDS Integers, Sequences, FiniteSets

CONSTANTS
    Turns,        \* requests of the loop: they borrow through the Publisher
    Pins,         \* delegated calls: they borrow from the Bindings themselves
    Docs,         \* declarations, told apart by their fingerprint
    Nil,
    MaxAttempts   \* bound: candidates

ASSUME UsersAssumption ==
    Turns \intersect Pins = {} /\ IsFiniteSet(Turns) /\ IsFiniteSet(Pins)
ASSUME AttemptsAssumption == MaxAttempts \in Nat \ {0}
ASSUME NilAssumption == Nil \notin Docs

VARIABLES
    attempts,     \* the candidates so far
    publishing,   \* the candidate that holds Publisher.mu, 0 for none
    effective,    \* Publisher.effective and current
    source,       \* Publisher.source, sourceGen, sourceOK
    records,      \* publication records committed
    pending,      \* retirement.pending: generations whose resources are tracked
    owner,        \* the candidate each generation holds; its length is Bindings.generation
    released,     \* generations the holder released
    handles,      \* the handle of each user
    lent,         \* generations some reference names
    files,        \* Run.fixers: the candidate whose file source requests read
    pinned        \* history: generations a Pin or a derived borrow has held

account == <<attempts, publishing, effective, source, records, pending>>
holder  == <<owner, released, handles, lent, pinned>>
vars == <<account, holder, files>>

Users == Turns \union Pins
generation == Len(owner)
Attempts == DOMAIN attempts
None == [gen |-> 0, doc |-> Nil]

\* Handles on g that are not released.
borrows(g) == Cardinality({u \in Users : handles[u].gen = g})

\* Leases.ReleaseAll frees what it has not freed before.
Freed(cs) ==
    [c \in Attempts |->
        IF c \in cs /\ attempts[c].res = "held"
        THEN [attempts[c] EXCEPT !.res = "freed"] ELSE attempts[c]]

\* retirement.sweep: the candidates of every tracked generation that is released.
retired == pending \intersect released
sweep == Freed({owner[g] : g \in retired})

Init ==
    /\ attempts = <<>> /\ publishing = 0
    /\ effective = None /\ source = None
    /\ records = <<>> /\ pending = {}
    /\ owner = <<>> /\ released = {}
    /\ handles = [u \in Users |-> [gen |-> 0, draining |-> FALSE]]
    /\ lent = {} /\ files = 0 /\ pinned = {}

-----------------------------------------------------------------------------
(* Candidates.                                                             *)

\* Baseline waits for Publisher.mu.  A rollback carries what RollbackConfig answered.
ReadBaseline(doc, back) ==
    /\ Len(attempts) < MaxAttempts
    /\ publishing = 0
    /\ back => source.gen # 0 /\ doc = source.doc
    /\ attempts' = Append(attempts,
          [pc |-> "constructing", doc |-> doc, base |-> effective, back |-> back,
           res |-> "none"])
    /\ UNCHANGED <<publishing, effective, source, records, pending, holder, files>>

\* prepare: the file source is installed for the agent while the candidate is built.
Construct(c) ==
    /\ attempts[c].pc = "constructing"
    /\ attempts' = [attempts EXCEPT ![c].pc = "built", ![c].res = "held"]
    /\ files' = c
    /\ UNCHANGED <<publishing, effective, source, records, pending, holder>>

\* abandon: the failure may come before or after the file source.
ConstructFails(c) ==
    /\ attempts[c].pc = "constructing"
    /\ attempts' = [attempts EXCEPT ![c].pc = "refused", ![c].res = "freed"]
    /\ files' \in {files, c}
    /\ UNCHANGED <<publishing, effective, source, records, pending, holder>>

-----------------------------------------------------------------------------
(* Publish and Rollback.                                                   *)

\* Mutant of recheckBaseline: a candidate is never stale.
recheckNothing(c) == c \in Attempts

recheckBaseline(c) == attempts[c].base = effective
sourceMatches(c) == attempts[c].back => source.gen # 0 /\ attempts[c].doc = source.doc
carriesEffective(c) ==
    ~attempts[c].back /\ effective.gen # 0 /\ attempts[c].doc = effective.doc

Enters(c) == attempts[c].pc = "built" /\ publishing = 0

\* refuse and releaseCandidate.
Leave(c, pc) ==
    /\ attempts' = [Freed({c}) EXCEPT ![c].pc = pc]
    /\ UNCHANGED <<publishing, effective, source, records, pending, holder, files>>

Refuse(c) ==
    /\ Enters(c)
    /\ ~sourceMatches(c) \/ ~recheckBaseline(c)
    /\ Leave(c, "refused")

PublishUnchanged(c) ==
    /\ Enters(c)
    /\ sourceMatches(c) /\ recheckBaseline(c) /\ carriesEffective(c)
    /\ Leave(c, "unchanged")

\* The governance refuses, or the record cannot be committed.
EvaluateRefuses(c) ==
    /\ Enters(c)
    /\ sourceMatches(c) /\ recheckBaseline(c) /\ ~carriesEffective(c)
    /\ Leave(c, "refused")

NewRecord(c) ==
    [gen |-> generation + 1, doc |-> attempts[c].doc,
     from |-> IF attempts[c].back THEN source.gen ELSE 0]

commitRecord(c) ==
    /\ Enters(c)
    /\ sourceMatches(c) /\ recheckBaseline(c) /\ ~carriesEffective(c)
    /\ publishing' = c
    /\ attempts' = [attempts EXCEPT ![c].pc = "recorded"]
    /\ records' = Append(records, NewRecord(c))
    /\ UNCHANGED <<effective, source, pending, holder, files>>

\* Mutant of superseded: the handles on the generation are not looked at.
replaced == {generation} \ {0}

\* Bindings.Hold: a superseded generation nobody holds is released at once.
superseded == {g \in {generation} \ {0} : borrows(g) = 0}

Hold(c) ==
    /\ attempts[c].pc = "recorded"
    /\ released' = released \union superseded
    /\ owner' = Append(owner, c)
    /\ attempts' = [attempts EXCEPT ![c].pc = "serving"]
    /\ UNCHANGED <<publishing, effective, source, records, pending, handles, lent,
                   pinned, files>>

\* retirement.track.
track == pending \union {generation}

\* The switch of publishLocked.
Switch(c) ==
    /\ attempts[c].pc = "serving"
    /\ source' = IF ~attempts[c].back /\ effective.gen # 0 THEN effective ELSE source
    /\ effective' = [gen |-> generation, doc |-> attempts[c].doc]
    /\ pending' = track
    /\ attempts' = [attempts EXCEPT ![c].pc = "switched"]
    /\ UNCHANGED <<publishing, records, holder, files>>

PublishEnds(c) ==
    /\ attempts[c].pc = "switched"
    /\ attempts' = [sweep EXCEPT ![c].pc = "applied"]
    /\ pending' = pending \ retired
    /\ publishing' = 0
    /\ UNCHANGED <<effective, source, records, holder, files>>

-----------------------------------------------------------------------------
(* Requests.                                                               *)

Take(u, g) ==
    /\ handles[u].gen = 0 /\ ~handles[u].draining
    /\ handles' = [handles EXCEPT ![u].gen = g]
    /\ lent' = lent \union {g}
    /\ UNCHANGED <<account, owner, released, files>>

Borrow(u) ==
    /\ generation # 0
    /\ Take(u, generation)
    /\ pinned' = IF u \in Pins THEN pinned \union {generation} ELSE pinned

\* A reference outlives the handle it was read from.
BorrowDerived(u) ==
    \E g \in lent \ released : Take(u, g) /\ pinned' = pinned \union {g}

LastHandle(g) == g # generation /\ borrows(g) = 1

\* releaseFunc; a handle the Publisher lent drains the retirement next.
Release(u) ==
    /\ handles[u].gen # 0
    /\ LET g == handles[u].gen IN
          released' = IF LastHandle(g) THEN released \union {g} ELSE released
    /\ handles' = [handles EXCEPT ![u] = [gen |-> 0, draining |-> u \in Turns]]
    /\ UNCHANGED <<account, owner, lent, pinned, files>>

\* Mutant of Drain: the release of a request sweeps nothing.
DrainNothing(u) ==
    /\ handles[u].draining
    /\ handles' = [handles EXCEPT ![u].draining = FALSE]
    /\ UNCHANGED <<account, owner, released, lent, pinned, files>>

\* drainable: the sweep behind the release.
Drain(u) ==
    /\ handles[u].draining
    /\ handles' = [handles EXCEPT ![u].draining = FALSE]
    /\ attempts' = sweep
    /\ pending' = pending \ retired
    /\ UNCHANGED <<publishing, effective, source, records, owner, released, lent,
                   pinned, files>>

-----------------------------------------------------------------------------
Publishes(c) ==
    \/ Construct(c) \/ ConstructFails(c)
    \/ Refuse(c) \/ PublishUnchanged(c) \/ EvaluateRefuses(c)
    \/ commitRecord(c) \/ Hold(c) \/ Switch(c) \/ PublishEnds(c)

Next ==
    \/ \E doc \in Docs, back \in BOOLEAN : ReadBaseline(doc, back)
    \/ \E c \in Attempts : Publishes(c)
    \/ \E u \in Users : Borrow(u) \/ BorrowDerived(u) \/ Release(u) \/ Drain(u)

\* A construction and a publication run to their end; a request ends its use of
\* the binding when its work has ended, and sweeps in the same call.
Fairness ==
    /\ \A c \in 1..MaxAttempts : WF_vars(c \in Attempts /\ Publishes(c))
    /\ \A u \in Users : WF_vars(Release(u)) /\ WF_vars(Drain(u))

Spec == Init /\ [][Next]_vars /\ Fairness

-----------------------------------------------------------------------------

\* A generation replaces the very one its candidate was compiled against: no
\* publication is overwritten by a candidate that was read before it (baseline.go).
NoLostPublication ==
    \A g \in 1..generation :
        attempts[owner[g]].base =
            IF g = 1 THEN None ELSE [gen |-> g - 1, doc |-> records[g - 1].doc]

\* The generation life the users of the bindings are promised.
Life == INSTANCE GenerationLife WITH
    serving <- generation,
    holds <- [u \in Users |-> handles[u].gen],
    freed <- {g \in 1..generation : attempts[owner[g]].res = "freed"}

\* A publication is a generation life: whatever interleaves, generations serve in
\* order, and a user never holds, nor is handed, what is freed.
IsGenerationLife == Life!Spec

\* A superseded generation that no delegated call held is freed by the last request
\* that holds it, with no later publication: its release drains the ledger
\* (retire.go:19).
DrainsOnItsOwn ==
    \A g \in 1..MaxAttempts :
        (g < effective.gen) ~>
            (\/ g \in pinned
             \/ (g \in 1..generation /\ attempts[owner[g]].res = "freed"))

=============================================================================
