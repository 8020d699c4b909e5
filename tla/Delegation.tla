----------------------------- MODULE Delegation -----------------------------
(***************************************************************************)
(* Delegated tasks and their re-entry.  Three accounts hold a delegated    *)
(* task: the task registry its status and round, the delegation ledger     *)
(* (runtime/agent/delegate.go) the round it settles as and the booking a   *)
(* close waits on, the continuation table (tool/subagent/continuation.go)  *)
(* the one slot its rounds run in.  An admission, a re-entry               *)
(* (assembly/host_tools.go), the round itself and the close move the three *)
(* one after the other, and none holds a lock across two of them.          *)
(***************************************************************************)
EXTENDS Integers, FiniteSets, Sequences, Functions

CONSTANTS
    Tasks, Callers,
    Bodies,      \* what a re-entry hands over
    Nil,
    MaxRounds,   \* bound: rounds of one task
    MaxFaults,   \* bound: commits the carrier does not store
    MaxStops     \* bound: stops of the process

ASSUME BoundsAssumption ==
    MaxRounds \in Nat \ {0} /\ {MaxFaults, MaxStops} \subseteq Nat /\ Nil \notin Callers

\* What is delegated, and who asks for it, is finite at any time: the bookings are counted.
ASSUME FiniteAssumption == IsFiniteSet(Tasks) /\ IsFiniteSet(Callers)

VARIABLES
    registry,  \* the status, the round and the notices owed of each task
    entries,   \* Delegator.entries
    open,      \* Delegator.open
    served,    \* continuations.served: the slot and the bodies owed
    flights,   \* the rounds that run
    callers,   \* what each admission and each re-entry is doing
    closer,    \* the settling walk of the close
    facts,     \* the inputs the chain of each site holds
    faults, stops,
    stuck      \* history: tasks a refused commit or a stop left in flight

accounts == <<registry, entries, open, served>>
bounds   == <<faults, stops>>
vars     == <<accounts, flights, callers, closer, facts, bounds, stuck>>

Rounds   == 1..MaxRounds
Terminal == {"settled", "failed"}
Unknown  == "unknown"
NoEntry  == [held |-> FALSE, status |-> Unknown, round |-> 0, pending |-> Unknown,
             booked |-> FALSE, reopened |-> Unknown]
NoSlot   == [held |-> FALSE, running |-> FALSE, owed |-> <<>>]
NoFlight == [pc |-> "none", input |-> <<>>, caller |-> Nil, at |-> 0,
             outcome |-> Unknown, done |-> FALSE]
Idle     == [pc |-> "idle", task |-> Nil, body |-> Nil, round |-> 0, read |-> Unknown]

Init ==
    /\ registry = [t \in Tasks |-> [status |-> Unknown, round |-> 0, owed |-> {}]]
    /\ entries = [t \in Tasks |-> NoEntry] /\ open = 0
    /\ served = [t \in Tasks |-> NoSlot]
    /\ flights = [t \in Tasks |-> [r \in Rounds |-> NoFlight]]
    /\ callers = [c \in Callers |-> Idle]
    /\ closer = [pc |-> "off", task |-> Nil]
    /\ facts = [t \in Tasks |-> {}]
    /\ faults = 0 /\ stops = 0 /\ stuck = {}

At(c, pc) == callers[c].pc = pc
Go(c, pc) == callers' = [callers EXCEPT ![c].pc = pc]
Returns(c) == callers' = [callers EXCEPT ![c] = Idle]
Flies(t, r, pc) == flights[t][r].pc = pc
Turns(t, r, pc) == flights' = [flights EXCEPT ![t][r].pc = pc]

InFlight(t) == registry[t].status = "running"
\* Obligations.Count: the round that runs, and each notice no target accepted.
Obligations(t) == Cardinality(registry[t].owed) + (IF InFlight(t) THEN 1 ELSE 0)
isTerminal(t) == entries[t].status \in Terminal

\* A commit stores, or the carrier refuses it and the task moves nowhere.
Stored == UNCHANGED faults
Refused == faults < MaxFaults /\ faults' = faults + 1 /\ UNCHANGED registry

withdrawn == IF open > 0 THEN open - 1 ELSE 0

-----------------------------------------------------------------------------
(* Delegate: an admission, booked before it is asked for.                  *)

Delegate(c, t) ==
    /\ At(c, "idle")
    /\ open' = open + 1
    /\ callers' = [callers EXCEPT ![c] = [Idle EXCEPT !.pc = "admit", !.task = t]]
    /\ UNCHANGED <<registry, entries, served, flights, closer, facts, bounds, stuck>>

\* closeGate.Admit: refused once the close began; a call the registry holds is a repeat.
Admit(c) ==
    LET t == callers[c].task IN
    /\ At(c, "admit")
    /\ \/ /\ closer.pc = "off" /\ registry[t].status = Unknown
          /\ registry' = [registry EXCEPT ![t].status = "running", ![t].round = 1]
          /\ Go(c, "fresh")
       \/ /\ closer.pc # "off" \/ registry[t].status # Unknown
          /\ Go(c, "withdraw") /\ UNCHANGED registry
    /\ UNCHANGED <<entries, open, served, flights, closer, facts, bounds, stuck>>

Withdraws(c) ==
    /\ At(c, "withdraw")
    /\ open' = withdrawn
    /\ Returns(c)
    /\ UNCHANGED <<registry, entries, served, flights, closer, facts, bounds, stuck>>

\* The entry of a fresh admission, and the goroutine that serves its first round: its
\* input is the request of the call, and no body beside it.
Enters(c) ==
    LET t == callers[c].task IN
    /\ At(c, "fresh")
    /\ entries' = [entries EXCEPT ![t] = [NoEntry EXCEPT !.held = TRUE, !.status = "running",
                                                          !.round = 1, !.booked = TRUE]]
    /\ flights' = [flights EXCEPT ![t][1].pc = "register"]
    /\ Returns(c)
    /\ UNCHANGED <<registry, open, served, closer, facts, bounds, stuck>>

-----------------------------------------------------------------------------
(* ReenterTask: every read first, the slot claimed, the round opened last. *)

Untouched == UNCHANGED <<accounts, flights, closer, facts, bounds, stuck>>

\* Reentrant: only a settled task is re-entered.  Bound: each that runs may open a round.
Reentering(t) == {c \in Callers : callers[c].task = t}
Reenters(c, t, body) ==
    /\ At(c, "idle") /\ registry[t].status = "settled"
    /\ registry[t].round + Cardinality(Reentering(t)) < MaxRounds
    /\ callers' = [callers EXCEPT ![c] = [Idle EXCEPT !.pc = "ledger", !.task = t, !.body = body]]
    /\ Untouched

\* CanReopenRound; an entry this process does not hold is rebuilt from the registry.
Consults(c) ==
    LET t == callers[c].task IN
    /\ At(c, "ledger")
    /\ IF ~entries[t].held
       THEN callers' = [callers EXCEPT ![c].pc = "restore", ![c].read = registry[t].status]
       ELSE IF isTerminal(t) THEN Go(c, "seed") ELSE Returns(c)
    /\ Untouched

RestoreEntry(c) ==
    LET t == callers[c].task IN
    /\ At(c, "restore")
    /\ entries' = IF entries[t].held THEN entries
                  ELSE [entries EXCEPT ![t] = [NoEntry EXCEPT !.held = TRUE, !.status = callers[c].read]]
    /\ Go(c, "ledger")
    /\ UNCHANGED <<registry, open, served, flights, closer, facts, bounds, stuck>>

\* rebuildContinuation: the chain holds the declaration of a delegated input.
Seed(c) ==
    LET t == callers[c].task IN
    /\ At(c, "seed")
    /\ served' = IF served[t].held \/ facts[t] = {} THEN served
                 ELSE [served EXCEPT ![t] = [NoSlot EXCEPT !.held = TRUE]]
    /\ IF served'[t].held THEN Go(c, "claim") ELSE Returns(c)
    /\ UNCHANGED <<registry, entries, open, flights, closer, facts, bounds, stuck>>

\* Mutant: A claim that takes a slot whose round still runs.
ClaimBusy(c) ==
    LET t == callers[c].task IN
    /\ At(c, "claim")
    /\ served' = [served EXCEPT ![t].running = TRUE] /\ Go(c, "reactivate")
    /\ UNCHANGED <<registry, entries, open, flights, closer, facts, bounds, stuck>>

Claim(c) ==
    LET t == callers[c].task IN
    /\ At(c, "claim")
    /\ IF served[t].running
       THEN Returns(c) /\ UNCHANGED served
       ELSE served' = [served EXCEPT ![t].running = TRUE] /\ Go(c, "reactivate")
    /\ UNCHANGED <<registry, entries, open, flights, closer, facts, bounds, stuck>>

Reactivate(c) ==
    LET t == callers[c].task
        round == registry[t].round + 1
    IN  /\ At(c, "reactivate")
        /\ \/ /\ registry[t].status = "settled" /\ Stored
              /\ registry' = [registry EXCEPT ![t].status = "running", ![t].round = round]
              /\ callers' = [callers EXCEPT ![c].pc = "reopen", ![c].round = round]
           \/ Refused /\ Go(c, "giveback")
           \/ registry[t].status # "settled" /\ Go(c, "giveback") /\ Stored /\ UNCHANGED registry
        /\ UNCHANGED <<entries, open, served, flights, closer, facts, stops, stuck>>

\* Mutant: The slot of a round already opened is given back, and the round is not.
GivesSlotBack(c) ==
    /\ At(c, "giveback")
    /\ served' = [served EXCEPT ![callers[c].task].running = FALSE]
    /\ Returns(c)
    /\ UNCHANGED <<registry, entries, open, flights, closer, facts, bounds, stuck>>

\* continuations.Abandon; a round already opened is put back after it.
GivesBack(c) ==
    /\ At(c, "giveback")
    /\ served' = [served EXCEPT ![callers[c].task].running = FALSE]
    /\ IF callers[c].round = 0 THEN Returns(c) ELSE Go(c, "unwind")
    /\ UNCHANGED <<registry, entries, open, flights, closer, facts, bounds, stuck>>

\* Refused when the round before it has settled since, and not landed.
ReopenRound(c) ==
    LET t == callers[c].task
        e == entries[t]
    IN  /\ At(c, "reopen")
        /\ \/ /\ isTerminal(t)
              /\ entries' = [entries EXCEPT ![t] =
                     [e EXCEPT !.status = "running", !.round = callers[c].round,
                               !.pending = Unknown, !.booked = TRUE, !.reopened = e.status]]
              /\ open' = IF e.booked THEN open ELSE open + 1
              /\ Go(c, "serve")
           \/ ~isTerminal(t) /\ Go(c, "giveback") /\ UNCHANGED <<entries, open>>
        /\ UNCHANGED <<registry, served, flights, closer, facts, bounds, stuck>>

\* Serve: the bodies owed go ahead of the body handed over.
Serve(c) ==
    LET t == callers[c].task IN
    /\ At(c, "serve")
    /\ served' = [served EXCEPT ![t].owed = <<>>]
    /\ flights' = [flights EXCEPT ![t][callers[c].round] =
                     [NoFlight EXCEPT !.pc = "start", !.caller = c,
                                      !.input = Append(served[t].owed, callers[c].body)]]
    /\ Go(c, "wait")
    /\ UNCHANGED <<registry, entries, open, closer, facts, bounds, stuck>>

\* unwindReentry: RollbackReactivation, then AbandonRound whatever it answered.
RollbackReactivation(c) ==
    LET t == callers[c].task IN
    /\ At(c, "unwind") /\ InFlight(t) /\ registry[t].round = callers[c].round
    /\ \/ registry' = [registry EXCEPT ![t].status = "settled"] /\ Stored /\ UNCHANGED stuck
       \/ Refused /\ stuck' = stuck \union {t}
    /\ Go(c, "abandon")
    /\ UNCHANGED <<entries, open, served, flights, closer, facts, stops>>

\* Mutant: An abandoned round counted open for good.
AbandonKeepsBooking(c) ==
    LET t == callers[c].task IN
    /\ At(c, "abandon")
    /\ entries' = [entries EXCEPT ![t].status = entries[t].reopened, ![t].booked = FALSE]
    /\ Returns(c)
    /\ UNCHANGED <<registry, open, served, flights, closer, facts, bounds, stuck>>

AbandonRound(c) ==
    LET t == callers[c].task
        e == entries[t]
        held == e.round = callers[c].round /\ ~isTerminal(t)
    IN  /\ At(c, "abandon")
        /\ entries' = IF ~held THEN entries
                      ELSE [entries EXCEPT ![t] = [e EXCEPT !.status = e.reopened,
                                                  !.pending = Unknown, !.booked = FALSE]]
        /\ open' = IF held /\ e.booked THEN withdrawn ELSE open
        /\ Returns(c)
        /\ UNCHANGED <<registry, served, flights, closer, facts, bounds, stuck>>

-----------------------------------------------------------------------------
(* One round, and how it settles.                                          *)

\* register: the first round opens the slot of its task.
Registers(t, r) ==
    /\ Flies(t, r, "register")
    /\ served' = [served EXCEPT ![t] = [NoSlot EXCEPT !.held = TRUE, !.running = TRUE]]
    /\ Turns(t, r, "start")
    /\ UNCHANGED <<registry, entries, open, callers, closer, facts, bounds, stuck>>

\* The input commits at the site, under an identity its text alone decides: the caller
\* that handed a body over hears ok.
Lands(t, r) ==
    LET f == flights[t][r] IN
    /\ Flies(t, r, "start")
    /\ facts' = [facts EXCEPT ![t] = @ \union {f.input}]
    /\ IF f.caller = Nil THEN UNCHANGED callers ELSE Returns(f.caller)
    /\ Turns(t, r, "fly")
    /\ UNCHANGED <<accounts, closer, bounds, stuck>>

\* No binding, no resident instance or a commit refused: a first round settles as failed,
\* a re-entered one leaves its input owed and has its caller put the round back.
Misses(t, r) ==
    LET f == flights[t][r] IN
    /\ Flies(t, r, "start")
    /\ IF f.caller = Nil
       THEN /\ flights' = [flights EXCEPT ![t][r] = [f EXCEPT !.pc = "complete", !.outcome = "failed"]]
            /\ UNCHANGED callers
       ELSE Turns(t, r, "end") /\ Go(f.caller, "unwind")
    /\ UNCHANGED <<accounts, closer, facts, bounds, stuck>>

Answers(t, r, outcome) ==
    /\ Flies(t, r, "fly")
    /\ flights' = [flights EXCEPT ![t][r].pc = "complete", ![t][r].outcome = outcome]
    /\ UNCHANGED <<accounts, callers, closer, facts, bounds, stuck>>

\* complete: the entry is read, the registry moved, the entry pended; unlocked in between.
Completes(t, r) ==
    LET e == entries[t] IN
    /\ Flies(t, r, "complete")
    /\ flights' = [flights EXCEPT ![t][r] =
           IF e.pending # Unknown \/ isTerminal(t) THEN [@ EXCEPT !.pc = "end"]
           ELSE [@ EXCEPT !.pc = "advance", !.at = e.round]]
    /\ UNCHANGED <<accounts, callers, closer, facts, bounds, stuck>>

Advance(t, r) ==
    LET f == flights[t][r] IN
    /\ Flies(t, r, "advance") /\ InFlight(t)
    /\ \/ /\ registry' = [registry EXCEPT ![t].status = f.outcome, ![t].owed = @ \union {f.at}]
          /\ Turns(t, r, "pend") /\ Stored /\ UNCHANGED stuck
       \/ Refused /\ Turns(t, r, "end") /\ stuck' = stuck \union {t}
    /\ UNCHANGED <<entries, open, served, callers, closer, facts, stops>>

pendLocked(t, status) ==
    IF entries[t].pending = Unknown /\ ~isTerminal(t)
    THEN [entries EXCEPT ![t].pending = status] ELSE entries

Pends(t, r) ==
    /\ Flies(t, r, "pend")
    /\ entries' = pendLocked(t, flights[t][r].outcome)
    /\ Turns(t, r, "flush")
    /\ UNCHANGED <<registry, open, served, callers, closer, facts, bounds, stuck>>

\* Flush: a target accepts a notice, or the notice stays owed.
Offered(t) == \E kept \in SUBSET registry[t].owed : registry' = [registry EXCEPT ![t].owed = kept]

Flushes(t, r) ==
    /\ Flies(t, r, "flush")
    /\ Offered(t)
    /\ Turns(t, r, "land")
    /\ UNCHANGED <<entries, open, served, callers, closer, facts, bounds, stuck>>

\* Mutant: Only a settled outcome lands.
MayLandSettled(t) == entries[t].pending = "settled" /\ Obligations(t) = 0

\* land: whether a terminal waits and the obligations are cleared, then the landing.
MayLand(t) == entries[t].pending # Unknown /\ Obligations(t) = 0

\* Mutant: A terminal recorded without the second look at what waits.
LandUnchecked(t) ==
    /\ entries' = [entries EXCEPT ![t].status = entries[t].pending, ![t].pending = Unknown,
                                  ![t].booked = FALSE]
    /\ open' = IF entries[t].booked THEN withdrawn ELSE open

Land(t) ==
    LET e == entries[t]
        waits == e.pending # Unknown
    IN  /\ entries' = IF ~waits THEN entries
                      ELSE [entries EXCEPT ![t] = [e EXCEPT !.status = e.pending,
                                                  !.pending = Unknown, !.booked = FALSE]]
        /\ open' = IF waits /\ e.booked THEN withdrawn ELSE open

ReadsObligations(t, r) ==
    /\ Flies(t, r, "land")
    /\ flights' = [flights EXCEPT ![t][r].pc = IF MayLand(t) THEN "landing" ELSE "end",
                                  ![t][r].done = TRUE]
    /\ UNCHANGED <<accounts, callers, closer, facts, bounds, stuck>>

LandsTerminal(t, r) ==
    /\ Flies(t, r, "landing")
    /\ Land(t)
    /\ Turns(t, r, "end")
    /\ UNCHANGED <<registry, served, callers, closer, facts, bounds, stuck>>

\* The slot is given back; a re-entered round that settled nothing leaves its input owed.
Ends(t, r) ==
    LET f == flights[t][r] IN
    /\ Flies(t, r, "end")
    /\ served' = [served EXCEPT ![t].running = FALSE,
                                ![t].owed = IF f.done \/ f.caller = Nil THEN @ ELSE f.input]
    /\ flights' = [flights EXCEPT ![t][r] = NoFlight]
    /\ UNCHANGED <<registry, entries, open, callers, closer, facts, bounds, stuck>>

Flight(t, r) ==
    \/ Registers(t, r) \/ Lands(t, r) \/ Misses(t, r)
    \/ \E outcome \in Terminal : Answers(t, r, outcome)
    \/ Completes(t, r) \/ Advance(t, r) \/ Pends(t, r) \/ Flushes(t, r)
    \/ ReadsObligations(t, r) \/ LandsTerminal(t, r) \/ Ends(t, r)

-----------------------------------------------------------------------------
(* The close, and a stop of the process.                                   *)

Closes ==
    /\ closer.pc = "off"
    /\ closer' = [closer EXCEPT !.pc = "offer"]
    /\ UNCHANGED <<accounts, flights, callers, facts, bounds, stuck>>

\* offerOwed: Flush and Reconcile, one task after the other.
OffersOwed(t) ==
    /\ closer.pc = "offer" /\ registry[t].status # Unknown
    /\ Offered(t)
    /\ closer' = [pc |-> "land", task |-> t]
    /\ UNCHANGED <<entries, open, served, flights, callers, facts, bounds, stuck>>

Reconciles ==
    /\ closer.pc = "land"
    /\ closer' = [closer EXCEPT !.pc = IF MayLand(closer.task) THEN "landing" ELSE "offer"]
    /\ UNCHANGED <<accounts, flights, callers, facts, bounds, stuck>>

ReconcileLands ==
    /\ closer.pc = "landing"
    /\ Land(closer.task)
    /\ closer' = [closer EXCEPT !.pc = "offer"]
    /\ UNCHANGED <<registry, served, flights, callers, facts, bounds, stuck>>

\* Everything but the registry and the chains leaves with the process.
Stop ==
    /\ stops < MaxStops /\ stops' = stops + 1
    /\ entries' = [t \in Tasks |-> NoEntry] /\ open' = 0
    /\ served' = [t \in Tasks |-> NoSlot]
    /\ flights' = [t \in Tasks |-> [r \in Rounds |-> NoFlight]]
    /\ callers' = [c \in Callers |-> Idle]
    /\ closer' = [pc |-> "off", task |-> Nil]
    /\ stuck' = stuck \union {t \in Tasks : InFlight(t)}
    /\ UNCHANGED <<registry, facts, faults>>

Caller(c) ==
    \/ Admit(c) \/ Withdraws(c) \/ Enters(c)
    \/ Consults(c) \/ RestoreEntry(c) \/ Seed(c) \/ Claim(c) \/ Reactivate(c) \/ GivesBack(c)
    \/ ReopenRound(c) \/ Serve(c) \/ RollbackReactivation(c) \/ AbandonRound(c)

Next ==
    \/ \E c \in Callers :
          \/ \E t \in Tasks : Delegate(c, t) \/ \E body \in Bodies : Reenters(c, t, body)
          \/ Caller(c)
    \/ \E t \in Tasks, r \in Rounds : Flight(t, r)
    \/ Closes \/ Reconciles \/ ReconcileLands
    \/ \E t \in Tasks : OffersOwed(t)
    \/ Stop

\* A call and a round run on until they end, and the walk of a close meets every task again
\* and again.
Fairness ==
    /\ \A c \in Callers : WF_vars(Caller(c))
    /\ \A t \in Tasks, r \in Rounds : WF_vars(Flight(t, r))
    /\ WF_vars(Reconciles) /\ WF_vars(ReconcileLands)
    /\ \A t \in Tasks : SF_vars(OffersOwed(t))

Spec == Init /\ [][Next]_vars /\ Fairness

-----------------------------------------------------------------------------
(* Properties.                                                             *)

\* Every variable has its type.
TypeOK ==
    /\ \A t \in Tasks :
          /\ registry[t].status \in Terminal \union {Unknown, "running"}
          /\ registry[t].round \in 0..MaxRounds /\ registry[t].owed \subseteq Rounds
          /\ entries[t].status \in (IF entries[t].held THEN Terminal \union {"running"} ELSE {Unknown})
          /\ entries[t].pending \in Terminal \union {Unknown}
          /\ entries[t].round \in 0..MaxRounds
          /\ served[t].owed \in Seq(Bodies)
          /\ \A input \in facts[t] : input \in Seq(Bodies)
          /\ \A r \in Rounds : flights[t][r].input \in Seq(Bodies)
    /\ open \in Nat /\ closer.task \in Tasks \union {Nil}
    /\ faults \in 0..MaxFaults /\ stops \in 0..MaxStops
    /\ stuck \subseteq Tasks

\* The count a close waits on (landingOwed) is the bookings that stand and the admissions
\* still under way: it never lets a close rest beside a terminal that has not landed, nor
\* holds one beside nothing (delegate.go Pending).
OpenIsBooked ==
    /\ open = Cardinality({t \in Tasks : entries[t].booked})
              + Cardinality({c \in Callers : callers[c].pc \in {"admit", "withdraw", "fresh"}})
    /\ \A t \in Tasks : entries[t].pending # Unknown => entries[t].booked

\* One round of a task runs at a time, and until it settles the registry and the ledger
\* both hold that round: a round never settles as another (tool/subagent/continuation.go
\* Claim, delegate.go ReopenRound).
Unsettled(t, r) ==
    flights[t][r].pc \in {"register", "start", "fly", "complete", "advance"}
OneRoundServes ==
    \A t \in Tasks :
        /\ Cardinality({r \in Rounds : ~Flies(t, r, "none")}) <= 1
        /\ \A r \in Rounds : Unsettled(t, r) =>
              InFlight(t) /\ registry[t].round = r /\ entries[t].round = r /\ ~isTerminal(t)

\* A task stands in flight only while something serves its round, or a commit that would
\* have ended it was refused (assembly/host_tools.go unwindReentry, roundEndedBeside).
Serves(c, t) ==
    callers[c].task = t /\ callers[c].pc \in {"fresh", "reopen", "giveback", "serve", "wait", "unwind"}
InFlightIsServed ==
    \A t \in Tasks : InFlight(t) /\ t \notin stuck =>
        \/ \E r \in Rounds : Unsettled(t, r)
        \/ \E c \in Callers : Serves(c, t)

\* A close lands the terminal of every round whose notices cleared (assembly/invoke.go
\* offerOwed), unless a later round of the task could not be put back.
Withheld(t) == closer.pc # "off" /\ entries[t].pending # Unknown /\ registry[t].owed = {}
CloseLands == \A t \in Tasks : Withheld(t) ~> (entries[t].pending = Unknown \/ t \in stuck)
=============================================================================
