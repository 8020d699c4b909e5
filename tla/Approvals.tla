------------------------------ MODULE Approvals ------------------------------
(***************************************************************************)
(* The approval channel: the book of requests (runtime/task/approval), the *)
(* gate that holds a critical call (features/evolution/governance) and the *)
(* fuse that parks a batch of calls (runtime/agent/fuse.go).  A request is *)
(* a question on an in-memory chain and a file an approver outside may     *)
(* answer; the gate and the fuse read the book by tool and arguments, the  *)
(* pair, and never by the identity of their request.  The name of the      *)
(* approver is left out.                                                   *)
(***************************************************************************)
EXTENDS Integers, FiniteSets, FiniteSetsExt

CONSTANTS
    Gates,        \* callers the gate judges
    Batches,      \* dispatches the fuse parks
    None,
    MaxRequests,  \* bound: identities minted
    MaxFaults,    \* bound: request files that could not be written
    MaxStops      \* bound: restarts of the process

ASSUME AskersAssumption == Gates \intersect Batches = {}
ASSUME BoundsAssumption == {MaxRequests, MaxFaults, MaxStops} \subseteq Nat /\ None \notin Nat

VARIABLES
    pairOf,     \* the pair of each identity minted
    minted,     \* identities minted so far: a later one was created later
    evidence,   \* the request each identity resolves to
    questions,  \* the requests the chain holds a question of
    answers,    \* the ruling the chain holds of each
    files,      \* the ruling the file of each request states
    expired,    \* the requests whose validity ran out
    askers,     \* what each asker is doing
    outside,    \* the request an approver outside has read and not answered
    faults, stops,
    granted,    \* history: the requests some approver approved
    unwritten   \* history: requests whose ruling did not reach their file

book    == <<evidence, questions, answers>>
ids     == <<pairOf, minted>>
past    == <<granted, unwritten>>
bookVars == <<ids, book, files, expired, askers, outside, faults, stops, past>>

Askers == Gates \union Batches
Ids == 1..MaxRequests
Rulings == {"approved", "denied"}
Resting == [pc |-> "idle", request |-> None]

\* The gate asks for one call and its arguments, the batches for the calls of one
\* response sent again.
Pairs == {"call", "batch"}
Wants(a) == IF a \in Gates THEN "call" ELSE "batch"

BookInit ==
    /\ pairOf = [i \in Ids |-> None] /\ minted = 0
    /\ evidence = [i \in Ids |-> None] /\ questions = {}
    /\ answers = [i \in Ids |-> "none"] /\ files = [i \in Ids |-> "none"]
    /\ expired = {} /\ outside = None
    /\ askers = [a \in Askers |-> Resting]
    /\ faults = 0 /\ stops = 0
    /\ granted = {} /\ unwritten = {}

At(a, pc) == askers[a].pc = pc
Go(a, pc) == askers' = [askers EXCEPT ![a].pc = pc]

-----------------------------------------------------------------------------
(* Reading the book.                                                       *)

\* The requests of one pair, under whatever identities the book names them.
Held(pair) == {i \in Ids : pairOf[i] = pair /\ \E j \in Ids : evidence[j] = i}

present(i) == i \in questions /\ answers[i] = "none"

effectiveStatus(i) ==
    IF i \in expired THEN "expired" ELSE IF answers[i] = "none" THEN "pending" ELSE answers[i]

\* Mutant: A question filed beside the one that stands.
NothingStands(pair) == {i \in Held(pair) : FALSE}

\* standingLocked.
Standing(pair) == {i \in Held(pair) : i \notin expired /\ present(i)}

\* Pending: what the waiting face shows an approver.
Pending(pair) == {i \in Held(pair) : effectiveStatus(i) = "pending" /\ present(i)}

\* lookupFacts: an approved request wins, and the newest one is read otherwise.
Approved(pair) == {i \in Held(pair) : effectiveStatus(i) = "approved"}
Newest(pair) == Max(Held(pair))

-----------------------------------------------------------------------------
(* Writing it.                                                             *)

WriteFile(i, status) ==
    \/ files' = [files EXCEPT ![i] = status] /\ UNCHANGED faults
    \/ faults < MaxFaults /\ faults' = faults + 1 /\ UNCHANGED files

\* Request under a new identity is answered with i: the standing question, or its own.
Request(pair, i) ==
    LET new == minted + 1
    IN  /\ minted < MaxRequests /\ minted' = new
        /\ pairOf' = [pairOf EXCEPT ![new] = pair]
        /\ evidence' = [evidence EXCEPT ![new] = i]
        /\ \/ i \in Standing(pair)
              /\ UNCHANGED <<questions, files, faults>>
           \/ Standing(pair) = {} /\ i = new
              /\ questions' = questions \union {new}
              /\ WriteFile(new, "pending")

Grants(i, ruling) ==
    granted' = IF ruling = "approved" THEN granted \union {i} ELSE granted

\* Decide: the answer is looked up under the identity it was called with and filed under
\* the request; an identity that holds no answer and an answer of another content is an
\* error that moves nothing.
Decide(id, ruling) ==
    LET i == evidence[id] IN
    /\ i # None /\ answers[id] = "none" /\ i \notin expired
    /\ Grants(i, ruling)
    /\ IF answers[i] \in {"none", ruling}
       THEN /\ answers' = [answers EXCEPT ![i] = ruling]
            /\ WriteFile(i, ruling)
            /\ unwritten' = IF files' = files /\ files[i] # ruling
                            THEN unwritten \union {i} ELSE unwritten
       ELSE UNCHANGED <<answers, files, faults, unwritten>>
    /\ UNCHANGED <<ids, evidence, questions, expired, askers, outside, stops>>

Settled(i) == files[i] \in Rulings

\* Mutant: A rescan that counts a ruling as landed only beside a question of its own.
RebuiltUnasked(resolved, asked, given) ==
    LET read == {i \in Ids : files[i] # "none" /\ i \notin expired}
        lands == {i \in read : Settled(i) /\ i \notin asked}
    IN  /\ evidence' = [i \in Ids |-> IF i \in read THEN i ELSE resolved[i]]
        /\ questions' = asked \union read
        /\ answers' = [i \in Ids |-> IF i \in lands THEN files[i] ELSE given[i]]
        /\ files' = [i \in Ids |-> IF i \notin read THEN "none" ELSE files[i]]

\* Mutant: A rescan that files the waiting status as a ruling.
RebuiltPending(resolved, asked, given) ==
    LET read == {i \in Ids : files[i] # "none" /\ i \notin expired} IN
    /\ evidence' = [i \in Ids |-> IF i \in read THEN i ELSE resolved[i]]
    /\ questions' = asked \union read
    /\ answers' = [i \in Ids |-> IF i \in read THEN files[i] ELSE given[i]]
    /\ files' = [i \in Ids |-> IF i \in read THEN files[i] ELSE "none"]

\* rebuild, over a chain that holds the questions asked and the answers given.  A file
\* past its validity is removed, and so is one whose ruling lands on a question asked.
Rebuilt(resolved, asked, given) ==
    LET read == {i \in Ids : files[i] # "none" /\ i \notin expired}
        lands == {i \in read : Settled(i) /\ (i \notin asked \/ given[i] = "none")}
    IN  /\ evidence' = [i \in Ids |-> IF i \in read THEN i ELSE resolved[i]]
        /\ questions' = asked \union read
        /\ answers' = [i \in Ids |-> IF i \in lands THEN files[i] ELSE given[i]]
        /\ files' = [i \in Ids |-> IF i \notin read \/ i \in lands \intersect asked
                                   THEN "none" ELSE files[i]]

-----------------------------------------------------------------------------
(* The gate and the fuse.  Lookup reads, rescans when its window has       *)
(* elapsed, and reads again; the book is unlocked in between.              *)

\* Mutant: The pair a batch registered read as the newest pair registered.
ReadsNewest(a) == IF a \in Gates THEN Wants(a) ELSE pairOf[minted]

\* The pair Lookup is called with: a batch asks under the request it was answered.
Reads(a) == IF a \in Gates THEN Wants(a) ELSE pairOf[askers[a].request]

Looking(a) == askers[a].pc \in {"look", "relook"} \/ (a \in Gates /\ At(a, "idle"))
Quiet == UNCHANGED <<ids, book, files, expired, outside, faults, stops, past>>

\* riskCritical and awaitBatch: what Lookup reads as approved runs.
LooksApproved(a) ==
    /\ Looking(a) /\ Approved(Reads(a)) # {}
    /\ askers' = [askers EXCEPT ![a] = Resting]
    /\ Quiet

LooksUnapproved(a) ==
    /\ Looking(a) /\ ~At(a, "relook") /\ Approved(Reads(a)) = {}
    /\ Go(a, "rescan") /\ Quiet

RescanNotDue(a) ==
    /\ At(a, "rescan")
    /\ Go(a, "relook") /\ Quiet

Rescans(a) ==
    /\ At(a, "rescan")
    /\ Rebuilt(evidence, questions, answers)
    /\ Go(a, "relook")
    /\ UNCHANGED <<ids, expired, outside, faults, stops, past>>

\* A call no request names registers one; every other is held or refused as it stands.
GateRules(g) ==
    /\ At(g, "relook") /\ Approved(Wants(g)) = {}
    /\ Go(g, IF Held(Wants(g)) = {} THEN "ask" ELSE "idle")
    /\ Quiet

GateAsks(g) ==
    /\ At(g, "ask")
    /\ \E i \in Ids : Request(Wants(g), i)
    /\ askers' = [askers EXCEPT ![g] = Resting]
    /\ UNCHANGED <<answers, expired, outside, stops, past>>

\* awaitBatch.
BatchParks(b) ==
    /\ At(b, "idle")
    /\ \E i \in Ids :
           /\ Request(Wants(b), i)
           /\ askers' = [askers EXCEPT ![b] = [pc |-> "look", request |-> i]]
    /\ UNCHANGED <<answers, expired, outside, stops, past>>

\* The deadline is the validity of the request the batch registered.
BatchPolls(b) ==
    /\ At(b, "relook") /\ Approved(Reads(b)) = {}
    /\ LET status == IF Held(Reads(b)) = {} THEN "none" ELSE effectiveStatus(Newest(Reads(b)))
       IN  askers' = [askers EXCEPT ![b] =
               IF status \in {"denied", "expired"} \/ askers[b].request \in expired
               THEN Resting ELSE [@ EXCEPT !.pc = "look"]]
    /\ Quiet

BatchCancelled(b) ==
    /\ At(b, "look")
    /\ askers' = [askers EXCEPT ![b] = Resting]
    /\ Quiet

Looks(a) == LooksApproved(a) \/ LooksUnapproved(a) \/ RescanNotDue(a)

-----------------------------------------------------------------------------
(* The approver outside, the clock and the process.                        *)

\* An approver reads a file that waits, and answers it by a rename over whatever the
\* file holds by then.
OutsideReads(i) ==
    /\ outside = None /\ files[i] = "pending" /\ i \notin expired
    /\ outside' = i
    /\ UNCHANGED <<ids, book, files, expired, askers, faults, stops, past>>

OutsideRules(ruling) ==
    /\ outside # None
    /\ outside' = None
    /\ IF outside \in expired
       THEN UNCHANGED <<files, granted>>
       ELSE /\ files' = [files EXCEPT ![outside] = ruling]
            /\ Grants(outside, ruling)
    /\ UNCHANGED <<ids, book, expired, askers, faults, stops, unwritten>>

\* Every request has the validity of the book: the oldest runs out first.
Expire ==
    /\ \E i \in 1..minted : i \notin expired
    /\ expired' = expired \union {Min({i \in 1..minted : i \notin expired})}
    /\ UNCHANGED <<ids, book, files, askers, outside, faults, stops, past>>

\* NewApprovalManager over the directory of the process that stopped.
BookRestart ==
    /\ stops < MaxStops /\ stops' = stops + 1
    /\ Rebuilt([i \in Ids |-> None], {}, [i \in Ids |-> "none"])
    /\ askers' = [a \in Askers |-> Resting]
    /\ UNCHANGED <<ids, expired, outside, faults, past>>

BookNext ==
    \/ \E g \in Gates : GateRules(g) \/ GateAsks(g)
    \/ \E b \in Batches : BatchParks(b) \/ BatchPolls(b) \/ BatchCancelled(b)
    \/ \E a \in Askers : Looks(a) \/ Rescans(a)
    \/ \E i \in Ids : OutsideReads(i) \/ \E ruling \in Rulings : Decide(i, ruling)
    \/ \E ruling \in Rulings : OutsideRules(ruling)
    \/ Expire \/ BookRestart

\* A parked batch keeps polling, and its polls outlast the window between two rescans.
Fairness ==
    \A b \in Batches :
        /\ WF_bookVars(Looks(b)) /\ WF_bookVars(BatchPolls(b))
        /\ SF_bookVars(Rescans(b))

BookSpec == BookInit /\ [][BookNext]_bookVars /\ Fairness

-----------------------------------------------------------------------------
\* Every variable has its type.
BookTypeOK ==
    /\ pairOf \in [Ids -> Pairs \union {None}] /\ minted \in 0..MaxRequests
    /\ evidence \in [Ids -> Ids \union {None}] /\ questions \subseteq Ids
    /\ answers \in [Ids -> Rulings \union {"none"}]
    /\ files \in [Ids -> Rulings \union {"none", "pending"}]
    /\ expired \subseteq Ids /\ outside \in Ids \union {None}
    /\ askers \in [Askers -> [pc : {"idle", "look", "rescan", "relook", "ask"},
                              request : Ids \union {None}]]
    /\ faults \in 0..MaxFaults /\ stops \in 0..MaxStops
    /\ granted \subseteq Ids /\ unwritten \subseteq Ids

\* What runs was approved for its own arguments: an asker never reads an approval no
\* approver stated, nor one of another pair, whatever was registered beside its request,
\* written to a file, overwritten there or restored (policy.go riskCritical, fuse.go
\* awaitBatch).
NothingRunsUnapproved ==
    \A a \in Askers : Looking(a) =>
        \A i \in Approved(Reads(a)) : i \in granted /\ pairOf[i] = Wants(a)

\* One held pair is one question, however many callers hold it and however often the
\* process starts over (approval_store.go Request), as long as every ruling reached
\* its file.
OneQuestionPerPair ==
    unwritten = {} =>
        \A pair \in Pairs : Cardinality(Pending(pair)) <= 1

\* A batch whose request is ruled on the chain or in its file stops waiting, unless a
\* newer request of its pair is read in its place (fuse.go awaitBatch polls by pair).
Waiting(b) == askers[b].pc \in {"look", "rescan", "relook"}
Ruled(i) == answers[i] # "none" \/ Settled(i)
RuledBatchEnds ==
    \A b \in Batches :
        (Waiting(b) /\ Ruled(askers[b].request))
            ~> (~Waiting(b) \/ \E j \in Held(Reads(b)) : j > askers[b].request)
=============================================================================
