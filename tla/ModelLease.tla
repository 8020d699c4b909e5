----------------------------- MODULE ModelLease -----------------------------
(***************************************************************************)
(* The replacement lease of one model reference (features/rl:              *)
(* replacement.go, lease_model.go, lease_observer.go).  A request reads the*)
(* version in effect, takes a stream lease on it and streams; a            *)
(* replacement rebuilds, publishes, installs and then closes the retired   *)
(* versions no stream is on.                                               *)
(***************************************************************************)
EXTENDS Integers, Sequences, FiniteSets

CONSTANTS
    Versions,    \* model versions a document may name
    Streams,     \* model requests
    Unserved

ASSUME StreamsAssumption == IsFiniteSet(Streams)
ASSUME UnservedAssumption == Unserved \notin Versions

VARIABLES
    held,        \* the versions ever leased, in the order they were installed
    sweeping,    \* a replacement installed and has yet to sweep
    streams      \* the request of each stream

lease == <<held, sweeping, streams>>

current == Len(held)
CurrentVersion == held[current].version
NewVersion(v) == [version |-> v, inFlight |-> 0, closed |-> 0]
Waiting == [pc |-> "none", at |-> 0]

LeaseInit(v) ==
    /\ held = <<NewVersion(v)>>
    /\ sweeping = FALSE
    /\ streams = [s \in Streams |-> Waiting]

-----------------------------------------------------------------------------
\* LeaseModel.GenerateContent: Current, then enter in a lock section of its own.
StreamBegins(s) ==
    /\ streams[s].pc = "none"
    /\ streams' = [streams EXCEPT ![s] = [pc |-> "begun", at |-> current]]
    /\ UNCHANGED <<held, sweeping>>

\* Mutant of enter: the version is entered whether or not a sweep closed it.
enterAny(s) ==
    /\ streams[s].pc = "begun"
    /\ streams' = [streams EXCEPT ![s].pc = "open"]
    /\ held' = [held EXCEPT ![streams[s].at].inFlight = @ + 1]
    /\ UNCHANGED sweeping

enter(s) ==
    /\ streams[s].pc = "begun"
    /\ IF held[streams[s].at].closed > 0
       THEN streams' = [streams EXCEPT ![s].pc = "refused"] /\ UNCHANGED held
       ELSE /\ streams' = [streams EXCEPT ![s].pc = "open"]
            /\ held' = [held EXCEPT ![streams[s].at].inFlight = @ + 1]
    /\ UNCHANGED sweeping

\* The lease is dropped, and the last one on a retired version closes it.
leave(i) ==
    /\ LET last == held[i].inFlight = 1 /\ i # current /\ held[i].closed = 0
       IN  held' = [held EXCEPT ![i].inFlight = @ - 1,
                                ![i].closed = @ + (IF last THEN 1 ELSE 0)]
    /\ UNCHANGED sweeping

\* The stream failed to establish or is read to its end; a caller of GenerateContent
\* that stops reading leaves the handle to drain it before it leaves.
StreamEnds(s) ==
    /\ streams[s].pc = "open"
    /\ leave(streams[s].at)
    /\ streams' = [streams EXCEPT ![s] = Waiting]

\* A caller of GenerateContentIter stops early over a model that does not iterate
\* itself: a goroutine drains the producer and the deferred leave waits for none of it.
StopsEarly(s) ==
    /\ streams[s].pc = "open"
    /\ leave(streams[s].at)
    /\ streams' = [streams EXCEPT ![s].pc = "draining"]

DrainEnds(s) ==
    /\ streams[s].pc = "draining"
    /\ streams' = [streams EXCEPT ![s] = Waiting]
    /\ UNCHANGED <<held, sweeping>>

\* The caller reads the refusal and may ask again.
RefusalRead(s) ==
    /\ streams[s].pc = "refused"
    /\ streams' = [streams EXCEPT ![s] = Waiting]
    /\ UNCHANGED <<held, sweeping>>

\* Replace: the rebuild and the publication before it touch no stream.
Install(v) ==
    /\ ~sweeping
    /\ v # CurrentVersion
    /\ held' = Append(held, NewVersion(v))
    /\ sweeping' = TRUE
    /\ UNCHANGED streams

\* Mutant of Retiring: a version the last leave closed is closed again.
RetiringAgain(i) == i # current /\ held[i].inFlight = 0

Retiring(i) == i # current /\ held[i].inFlight = 0 /\ held[i].closed = 0

SweepVersions ==
    /\ sweeping
    /\ held' = [i \in DOMAIN held |->
          IF Retiring(i) THEN [held[i] EXCEPT !.closed = @ + 1] ELSE held[i]]
    /\ sweeping' = FALSE
    /\ UNCHANGED streams

StreamSteps ==
    \E s \in Streams :
        \/ StreamBegins(s) \/ enter(s) \/ RefusalRead(s)
        \/ StreamEnds(s) \/ StopsEarly(s) \/ DrainEnds(s)

-----------------------------------------------------------------------------
LeaseTypeOK ==
    /\ held \in Seq([version : Versions, inFlight : 0..Cardinality(Streams), closed : 0..1])
    /\ sweeping \in BOOLEAN
    /\ streams \in [Streams -> [pc : {"none", "begun", "open", "refused", "draining"},
                            at : 0..Len(held)]]

\* A version counts the leases on it, one for each stream its caller still reads; the
\* version in effect is never closed, none is closed under a lease, and a retired one is
\* closed once, by whichever of the sweep and the last leave comes second
\* (replacement.go leave, sweep).  A producer that runs on after its caller stopped
\* early holds no lease (StopsEarly): the code may close its model under it.
ModelOutlivesItsLeases ==
    \A i \in DOMAIN held :
        /\ held[i].inFlight = Cardinality({s \in Streams : streams[s] = [pc |-> "open", at |-> i]})
        /\ held[i].closed > 0 => i # current /\ held[i].inFlight = 0
        /\ i # current /\ held[i].inFlight = 0 /\ ~sweeping => held[i].closed = 1

=============================================================================
