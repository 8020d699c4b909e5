-------------------------- MODULE HostReloadProofs --------------------------
(***************************************************************************)
(* What a call and a stream may rely on while the host reloads and closes  *)
(* beside them, for every finite set of calls and of streams, every set of *)
(* documents and versions and any number of reloads.                       *)
(***************************************************************************)
EXTENDS HostReload, FiniteSetTheorems, SequenceTheorems, WellFoundedInduction, TLAPS

\* One user more or less in a finite set of them.
LEMMA CountMore ==
    ASSUME NEW S, IsFiniteSet(S), NEW x, x \notin S, NEW T, T = S \cup {x}
    PROVE  /\ Cardinality(S) \in Nat
           /\ Cardinality(T) = Cardinality(S) + 1
  BY FS_AddElement, FS_CardinalityType

LEMMA CountLess ==
    ASSUME NEW S, IsFiniteSet(S), NEW x \in S, NEW T, T = S \ {x}
    PROVE  /\ Cardinality(S) \in Nat /\ Cardinality(S) >= 1
           /\ Cardinality(T) \in Nat
           /\ Cardinality(T) = Cardinality(S) - 1
  <1>1. IsFiniteSet(T) /\ Cardinality(T) = Cardinality(S) - 1
    BY FS_RemoveElement
  <1>2. Cardinality(T) \in Nat /\ Cardinality(S) \in Nat
    BY <1>1, FS_CardinalityType
  <1> QED
    BY <1>1, <1>2

-----------------------------------------------------------------------------
(* The model lease.                                                        *)

Leases == [version : Versions, inFlight : Nat, closed : Nat]
StreamPlaces == {"none", "begun", "open", "refused", "draining"}

OnStream(i) == {s \in Streams : streams[s] = [pc |-> "open", at |-> i]}

\* ModelOutlivesItsLeases, with the requests on a version named.
StreamsCounted ==
    \A i \in DOMAIN held :
        /\ held[i].inFlight = Cardinality(OnStream(i))
        /\ held[i].closed > 0 => i # Len(held) /\ held[i].inFlight = 0
        /\ i # Len(held) /\ held[i].inFlight = 0 /\ ~sweeping => held[i].closed = 1

\* The property says nothing of a request between Current and enter: that
\* it holds a version that exists.
LeaseInv ==
    /\ held \in Seq(Leases)
    /\ Len(held) > 0
    /\ streams \in [Streams -> [pc : StreamPlaces, at : Nat]]
    /\ \A s \in Streams : streams[s].pc \in {"begun", "open"} => streams[s].at \in DOMAIN held
    /\ \A i \in DOMAIN held : held[i].closed <= 1
    /\ sweeping \in BOOLEAN
    /\ StreamsCounted

LEMMA OnStreamFinite ==
    ASSUME NEW i
    PROVE  IsFiniteSet(OnStream(i)) /\ Cardinality(OnStream(i)) \in Nat
  BY StreamsAssumption, FS_Subset, FS_CardinalityType DEF OnStream

LEMMA LeaseCounts == LeaseInv => ModelOutlivesItsLeases
  BY DEF LeaseInv, StreamsCounted, ModelOutlivesItsLeases, OnStream, current

LEMMA LeaseInitial ==
    ASSUME NEW v \in Versions, LeaseInit(v)
    PROVE  LeaseInv
  <1>1. held = <<NewVersion(v)>> /\ NewVersion(v) \in Leases
    BY DEF LeaseInit, NewVersion, Leases
  <1>2. held \in Seq(Leases) /\ Len(held) = 1 /\ held[1] = NewVersion(v) /\ DOMAIN held = {1}
    BY <1>1
  <1>3. streams = [s \in Streams |-> Waiting] /\ sweeping = FALSE
    BY DEF LeaseInit
  <1>4. OnStream(1) = {}
    BY <1>3 DEF OnStream, Waiting
  <1>5. StreamsCounted
    <2>1. Cardinality(OnStream(1)) = 0
      BY <1>4, FS_EmptySet
    <2>2. held[1].inFlight = 0 /\ held[1].closed = 0
      BY <1>2 DEF NewVersion
    <2> QED
      BY <1>2, <2>1, <2>2 DEF StreamsCounted
  <1>6. held[1].closed = 0
    BY <1>2 DEF NewVersion
  <1>7. streams \in [Streams -> [pc : StreamPlaces, at : Nat]]
        /\ \A s \in Streams : streams[s].pc = "none"
    BY <1>3 DEF Waiting, StreamPlaces
  <1>8. sweeping \in BOOLEAN
    BY <1>3
  <1>9. \A i \in DOMAIN held : held[i].closed <= 1
    BY <1>2, <1>6
  <1>10. held \in Seq(Leases) /\ Len(held) > 0
    BY <1>2
  <1> QED
    BY <1>5, <1>7, <1>8, <1>9, <1>10 DEF LeaseInv

\* A request that is on no version before and after it moves changes no count.
LEMMA OffStream ==
    ASSUME LeaseInv, NEW s \in Streams, NEW pc \in {"none", "begun", "refused"},
           NEW at \in Nat, pc = "begun" => at \in DOMAIN held, streams[s].pc # "open",
           streams' = [streams EXCEPT ![s] = [pc |-> pc, at |-> at]],
           held' = held, sweeping' = sweeping
    PROVE  LeaseInv'
  <1>1. streams \in [Streams -> [pc : StreamPlaces, at : Nat]]
    BY DEF LeaseInv
  <1>2. streams' \in [Streams -> [pc : StreamPlaces, at : Nat]]
    BY <1>1 DEF StreamPlaces
  <1>3. \A z \in Streams : streams'[z].pc \in {"begun", "open"} => streams'[z].at \in DOMAIN held
    BY <1>1 DEF LeaseInv
  <1>4. ASSUME NEW i PROVE OnStream(i)' = OnStream(i)
    BY <1>1 DEF OnStream
  <1>5. StreamsCounted'
    BY <1>4 DEF LeaseInv, StreamsCounted
  <1> QED
    BY <1>2, <1>3, <1>5 DEF LeaseInv

LEMMA EnterOpens ==
    ASSUME LeaseInv, NEW s \in Streams, enter(s), streams'[s].pc = "open"
    PROVE  LeaseInv'
  <1> DEFINE i == streams[s].at
             entered == [held[i] EXCEPT !.inFlight = @ + 1]
  <1>0. StreamsCounted
    BY DEF LeaseInv
  <1>1. /\ streams \in [Streams -> [pc : StreamPlaces, at : Nat]]
        /\ held \in Seq(Leases) /\ i \in DOMAIN held /\ DOMAIN held = 1 .. Len(held)
        /\ held[i] \in Leases
    BY DEF LeaseInv, enter
  <1>2. /\ streams[s].pc = "begun" /\ held[i].closed = 0 /\ sweeping' = sweeping
        /\ streams' = [streams EXCEPT ![s].pc = "open"]
        /\ held' = [held EXCEPT ![i] = entered]
    BY <1>1 DEF enter, Leases
  <1>3. /\ entered \in Leases /\ entered.inFlight = held[i].inFlight + 1 /\ entered.closed = 0
    <2>1. held[i] \in Leases /\ held[i].closed = 0
      BY <1>1, <1>2
    <2> QED
      BY <2>1 DEF Leases
  <1> HIDE DEF entered
  <1>4. /\ held' \in Seq(Leases) /\ Len(held') = Len(held) /\ DOMAIN held' = DOMAIN held
        /\ \A j \in DOMAIN held : held'[j] = IF j = i THEN entered ELSE held[j]
    BY <1>1, <1>2, <1>3, ExceptSeq
  <1>5. /\ streams' \in [Streams -> [pc : StreamPlaces, at : Nat]]
        /\ \A z \in Streams : streams'[z].pc \in {"begun", "open"} => streams'[z].at \in DOMAIN held
    BY <1>1, <1>2 DEF LeaseInv, StreamPlaces
  <1>6. \A j : OnStream(j)' = IF j = i THEN OnStream(i) \cup {s} ELSE OnStream(j)
    BY <1>1, <1>2 DEF OnStream
  <1>7. s \notin OnStream(i)
    BY <1>2 DEF OnStream
  <1>8. Cardinality(OnStream(i) \cup {s}) = Cardinality(OnStream(i)) + 1
    BY <1>7, OnStreamFinite, CountMore
  <1>9. StreamsCounted'
    <2> SUFFICES ASSUME NEW j \in DOMAIN held
                 PROVE  /\ held'[j].inFlight = Cardinality(OnStream(j)')
                        /\ held'[j].closed > 0 => j # Len(held) /\ held'[j].inFlight = 0
                        /\ j # Len(held) /\ held'[j].inFlight = 0 /\ ~sweeping
                              => held'[j].closed = 1
      BY <1>2, <1>4 DEF StreamsCounted
    <2>1. CASE j = i
      <3>1. entered.inFlight = Cardinality(OnStream(i)) + 1
        BY <1>0, <1>1, <1>3 DEF StreamsCounted
      <3>2. Cardinality(OnStream(i)) \in Nat /\ entered.closed = 0
        BY <1>3, OnStreamFinite
      <3>3. held'[j] = entered /\ OnStream(j)' = OnStream(i) \cup {s}
        BY <1>4, <1>6, <2>1
      <3> QED
        BY <1>8, <3>1, <3>2, <3>3
    <2>2. CASE j # i
      BY <1>4, <1>0, <1>6, <2>2 DEF StreamsCounted
    <2> QED
      BY <2>1, <2>2
  <1>10. \A j \in DOMAIN held' : held'[j].closed <= 1
    BY <1>3, <1>4 DEF LeaseInv
  <1>11. Len(held') > 0 /\ sweeping' \in BOOLEAN
    BY <1>2, <1>4 DEF LeaseInv
  <1> QED
    BY <1>4, <1>5, <1>9, <1>10, <1>11 DEF LeaseInv

LEMMA LeftType ==
    ASSUME NEW r \in Leases, r.inFlight >= 1, r.closed = 0, NEW closing \in Nat
    PROVE  LET left == [r EXCEPT !.inFlight = @ - 1, !.closed = @ + closing]
           IN  left \in Leases /\ left.inFlight = r.inFlight - 1 /\ left.closed = closing
  <1>1. r.inFlight - 1 \in Nat /\ r.closed + closing = closing
    BY DEF Leases
  <1> QED
    BY <1>1 DEF Leases

LEMMA LeaveStep ==
    ASSUME LeaseInv, NEW s \in Streams, streams[s].pc = "open", leave(streams[s].at),
           NEW r \in [pc : {"none", "draining"}, at : Nat],
           streams' = [streams EXCEPT ![s] = r]
    PROVE  LeaseInv'
  <1> DEFINE i == streams[s].at
             closing == IF held[i].inFlight = 1 /\ i # current /\ held[i].closed = 0
                        THEN 1 ELSE 0
             left == [held[i] EXCEPT !.inFlight = @ - 1, !.closed = @ + closing]
  <1>0. StreamsCounted
    BY DEF LeaseInv
  <1>1. /\ streams \in [Streams -> [pc : StreamPlaces, at : Nat]]
        /\ held \in Seq(Leases) /\ i \in DOMAIN held /\ DOMAIN held = 1 .. Len(held)
        /\ held[i] \in Leases /\ streams[s].pc = "open" /\ held[i].closed <= 1
        /\ r.pc \notin {"begun", "open"} /\ r \in [pc : StreamPlaces, at : Nat]
    BY DEF LeaseInv, StreamPlaces
  <1>2. /\ sweeping' = sweeping /\ streams' = [streams EXCEPT ![s] = r]
        /\ held' = [held EXCEPT ![i] = left]
    BY <1>1 DEF leave, Leases
  <1>3. s \in OnStream(i)
    BY <1>1 DEF OnStream
  <1>4. /\ Cardinality(OnStream(i) \ {s}) = Cardinality(OnStream(i)) - 1
        /\ Cardinality(OnStream(i)) \in Nat /\ Cardinality(OnStream(i)) >= 1
    BY <1>3, OnStreamFinite, CountLess
  <1>5. held[i].inFlight = Cardinality(OnStream(i)) /\ held[i].closed = 0
    BY <1>0, <1>1, <1>4 DEF StreamsCounted, Leases
  <1>6. /\ left \in Leases /\ left.inFlight = held[i].inFlight - 1
        /\ left.closed = IF held[i].inFlight = 1 /\ i # Len(held) THEN 1 ELSE 0
    <2>1. held[i] \in Leases /\ held[i].inFlight >= 1 /\ held[i].closed = 0
      BY <1>1, <1>4, <1>5
    <2>2. closing = IF held[i].inFlight = 1 /\ i # Len(held) THEN 1 ELSE 0
      BY <2>1 DEF current
    <2>3. closing \in Nat
      BY <2>2
    <2> HIDE DEF closing
    <2>4. left \in Leases /\ left.inFlight = held[i].inFlight - 1 /\ left.closed = closing
      BY <2>1, <2>3, LeftType
    <2> QED
      BY <2>2, <2>4
  <1> HIDE DEF left
  <1>7. /\ held' \in Seq(Leases) /\ Len(held') = Len(held) /\ DOMAIN held' = DOMAIN held
        /\ \A j \in DOMAIN held : held'[j] = IF j = i THEN left ELSE held[j]
    BY <1>1, <1>2, <1>6, ExceptSeq
  <1>8. /\ streams' \in [Streams -> [pc : StreamPlaces, at : Nat]]
        /\ \A z \in Streams : streams'[z].pc \in {"begun", "open"} => streams'[z].at \in DOMAIN held
    BY <1>1, <1>2 DEF LeaseInv
  <1>9. \A j : OnStream(j)' = IF j = i THEN OnStream(i) \ {s} ELSE OnStream(j)
    BY <1>1, <1>2 DEF OnStream
  <1>10. StreamsCounted'
    <2> SUFFICES ASSUME NEW j \in DOMAIN held
                 PROVE  /\ held'[j].inFlight = Cardinality(OnStream(j)')
                        /\ held'[j].closed > 0 => j # Len(held) /\ held'[j].inFlight = 0
                        /\ j # Len(held) /\ held'[j].inFlight = 0 /\ ~sweeping
                              => held'[j].closed = 1
      BY <1>2, <1>7 DEF StreamsCounted
    <2>1. CASE j = i
      <3>1. /\ left.inFlight = Cardinality(OnStream(i)) - 1
            /\ left.closed = IF Cardinality(OnStream(i)) = 1 /\ i # Len(held) THEN 1 ELSE 0
        BY <1>5, <1>6
      <3>2. held'[j] = left /\ OnStream(j)' = OnStream(i) \ {s}
        BY <1>7, <1>9, <2>1
      <3> QED
        BY <1>4, <2>1, <3>1, <3>2
    <2>2. CASE j # i
      BY <1>7, <1>0, <1>9, <2>2 DEF StreamsCounted
    <2> QED
      BY <2>1, <2>2
  <1>11. \A j \in DOMAIN held' : held'[j].closed <= 1
    BY <1>6, <1>7 DEF LeaseInv
  <1>12. Len(held') > 0 /\ sweeping' \in BOOLEAN
    BY <1>2, <1>7 DEF LeaseInv
  <1> QED
    BY <1>7, <1>8, <1>10, <1>11, <1>12 DEF LeaseInv
\* The replacement leases the new version before it sweeps, so what it retires is
\* excused from closing until then.
LEMMA InstallStep ==
    ASSUME LeaseInv, NEW v \in Versions, Install(v)
    PROVE  LeaseInv'
  <1> DEFINE n == Len(held) + 1
             fresh == NewVersion(v)
  <1>0. StreamsCounted /\ held \in Seq(Leases) /\ Len(held) \in Nat
        /\ DOMAIN held = 1 .. Len(held)
    BY DEF LeaseInv
  <1>1. streams' = streams /\ ~sweeping /\ sweeping' = TRUE /\ held' = Append(held, fresh)
    BY DEF Install
  <1>2. fresh \in Leases /\ fresh.inFlight = 0 /\ fresh.closed = 0
    BY DEF NewVersion, Leases
  <1> HIDE DEF fresh
  <1>3. /\ held' \in Seq(Leases) /\ Len(held') = n /\ DOMAIN held' = 1 .. n
        /\ \A j \in DOMAIN held : held'[j] = held[j]
        /\ held'[n] = fresh
    BY <1>0, <1>1, <1>2, AppendProperties
  <1>4. OnStream(n) = {}
    BY <1>0 DEF LeaseInv, OnStream
  <1>5. \A j : OnStream(j)' = OnStream(j)
    BY <1>1 DEF OnStream
  <1>6. StreamsCounted'
    <2> SUFFICES ASSUME NEW j \in 1 .. n
                 PROVE  /\ held'[j].inFlight = Cardinality(OnStream(j)')
                        /\ held'[j].closed > 0 => j # n /\ held'[j].inFlight = 0
      BY <1>1, <1>3 DEF StreamsCounted
    <2>1. CASE j = n
      <3>1. held'[j].inFlight = 0 /\ held'[j].closed = 0
        BY <1>2, <1>3, <2>1
      <3>2. OnStream(j)' = {}
        BY <1>4, <1>5, <2>1
      <3>3. Cardinality(OnStream(j)') = 0
        BY <3>2, FS_EmptySet
      <3> QED
        BY <3>1, <3>3
    <2>2. CASE j # n
      <3>1. j \in DOMAIN held
        BY <1>0, <2>2
      <3> QED
        BY <1>0, <1>3, <1>5, <2>2, <3>1 DEF StreamsCounted
    <2> QED
      BY <2>1, <2>2
  <1>7. /\ streams' \in [Streams -> [pc : StreamPlaces, at : Nat]]
        /\ \A s \in Streams : streams'[s].pc \in {"begun", "open"} => streams'[s].at \in DOMAIN held'
    BY <1>0, <1>1, <1>3 DEF LeaseInv
  <1>8. \A j \in DOMAIN held' : held'[j].closed <= 1
    <2>1. ASSUME NEW j \in 1 .. n PROVE held'[j].closed <= 1
      BY <1>0, <1>2, <1>3 DEF LeaseInv
    <2> QED
      BY <1>3, <2>1
  <1>9. Len(held') > 0 /\ sweeping' \in BOOLEAN
    BY <1>0, <1>1, <1>3
  <1> QED
    BY <1>3, <1>6, <1>7, <1>8, <1>9 DEF LeaseInv

LEMMA SweepStep ==
    ASSUME LeaseInv, SweepVersions
    PROVE  LeaseInv'
  <1> DEFINE swept(j) == IF Retiring(j) THEN [held[j] EXCEPT !.closed = @ + 1] ELSE held[j]
  <1>0. StreamsCounted /\ held \in Seq(Leases) /\ Len(held) \in Nat
        /\ DOMAIN held = 1 .. Len(held) /\ \A j \in DOMAIN held : held[j] \in Leases
    BY DEF LeaseInv
  <1>1. /\ streams' = streams /\ sweeping' = FALSE
        /\ held' = [j \in 1 .. Len(held) |-> swept(j)]
    BY <1>0 DEF SweepVersions
  <1>2. ASSUME NEW j \in DOMAIN held
        PROVE  /\ swept(j) \in Leases /\ swept(j).inFlight = held[j].inFlight
               /\ swept(j).closed = IF Retiring(j) THEN 1 ELSE held[j].closed
    <2>1. held[j] \in Leases /\ (Retiring(j) => held[j].closed = 0)
      BY <1>0 DEF Retiring
    <2> QED
      BY <2>1 DEF Leases
  <1> HIDE DEF swept
  <1>3. /\ held' \in Seq(Leases) /\ Len(held') = Len(held) /\ DOMAIN held' = DOMAIN held
        /\ \A j \in DOMAIN held : held'[j] = swept(j)
    BY <1>0, <1>1, <1>2
  <1>4. \A j : OnStream(j)' = OnStream(j)
    BY <1>1 DEF OnStream
  <1>5. StreamsCounted'
    <2> SUFFICES ASSUME NEW j \in DOMAIN held
                 PROVE  /\ held'[j].inFlight = Cardinality(OnStream(j)')
                        /\ held'[j].closed > 0 => j # Len(held) /\ held'[j].inFlight = 0
                        /\ j # Len(held) /\ held'[j].inFlight = 0 => held'[j].closed = 1
      BY <1>1, <1>3 DEF StreamsCounted
    <2>1. /\ held'[j].inFlight = held[j].inFlight
          /\ held'[j].closed = IF Retiring(j) THEN 1 ELSE held[j].closed
      BY <1>2, <1>3
    <2>2. held[j].closed \in Nat /\ held[j].closed <= 1
      BY <1>0 DEF LeaseInv, Leases
    <2>3. Retiring(j) <=> j # Len(held) /\ held[j].inFlight = 0 /\ held[j].closed = 0
      BY DEF Retiring, current
    <2> QED
      BY <1>0, <1>4, <2>1, <2>2, <2>3 DEF StreamsCounted
  <1>6. \A j \in DOMAIN held' : held'[j].closed <= 1
    BY <1>2, <1>3 DEF LeaseInv
  <1>7. Len(held') > 0 /\ sweeping' \in BOOLEAN
    BY <1>1, <1>3 DEF LeaseInv
  <1> QED
    BY <1>1, <1>3, <1>5, <1>6, <1>7 DEF LeaseInv

\* What one stream may do.
StreamActs(s) ==
    \/ StreamBegins(s) \/ enter(s) \/ RefusalRead(s)
    \/ StreamEnds(s) \/ StopsEarly(s) \/ DrainEnds(s)

LEMMA StreamStep ==
    ASSUME LeaseInv, StreamSteps
    PROVE  LeaseInv'
  <1>0. PICK s \in Streams : StreamActs(s)
    BY DEF StreamSteps, StreamActs
  <1>1. /\ streams \in [Streams -> [pc : StreamPlaces, at : Nat]]
        /\ Len(held) \in DOMAIN held /\ Len(held) \in Nat
    BY DEF LeaseInv
  <1>2. CASE StreamBegins(s)
    <2>1. /\ streams' = [streams EXCEPT ![s] = [pc |-> "begun", at |-> Len(held)]]
          /\ held' = held /\ sweeping' = sweeping /\ streams[s].pc # "open"
      BY <1>2 DEF StreamBegins, current
    <2> QED
      BY <1>1, <2>1, OffStream
  <1>3. CASE enter(s)
    <2>1. CASE held[streams[s].at].closed > 0
      <3>1. /\ streams' = [streams EXCEPT ![s] = [pc |-> "refused", at |-> streams[s].at]]
            /\ held' = held /\ sweeping' = sweeping /\ streams[s].pc # "open"
            /\ streams[s].at \in Nat
        BY <1>1, <1>3, <2>1 DEF enter
      <3> QED
        BY <3>1, OffStream
    <2>2. CASE ~(held[streams[s].at].closed > 0)
      <3>1. streams'[s].pc = "open"
        BY <1>1, <1>3, <2>2 DEF enter
      <3> QED
        BY <1>3, <3>1, EnterOpens
    <2> QED
      BY <2>1, <2>2
  <1>4. CASE StreamEnds(s)
    BY <1>4, LeaveStep DEF StreamEnds, Waiting
  <1>6. CASE StopsEarly(s)
    <2>1. /\ streams[s].at \in Nat
          /\ [streams[s] EXCEPT !.pc = "draining"] = [pc |-> "draining", at |-> streams[s].at]
      BY <1>1
    <2>2. streams' = [streams EXCEPT ![s] = [pc |-> "draining", at |-> streams[s].at]]
      BY <1>6, <2>1 DEF StopsEarly
    <2> QED
      BY <1>6, <2>1, <2>2, LeaveStep DEF StopsEarly
  <1>7. CASE DrainEnds(s)
    <2>1. /\ streams' = [streams EXCEPT ![s] = [pc |-> "none", at |-> 0]]
          /\ held' = held /\ sweeping' = sweeping /\ streams[s].pc # "open"
      BY <1>7 DEF DrainEnds, Waiting
    <2> QED
      BY <2>1, OffStream
  <1>5. CASE RefusalRead(s)
    <2>1. /\ streams' = [streams EXCEPT ![s] = [pc |-> "none", at |-> 0]]
          /\ held' = held /\ sweeping' = sweeping /\ streams[s].pc # "open"
      BY <1>5 DEF RefusalRead, Waiting
    <2> QED
      BY <2>1, OffStream
  <1> QED
    BY <1>0, <1>2, <1>3, <1>4, <1>5, <1>6, <1>7 DEF StreamActs

LEMMA SameLease ==
    ASSUME LeaseInv, UNCHANGED lease
    PROVE  LeaseInv'
  BY DEF LeaseInv, StreamsCounted, OnStream, lease

-----------------------------------------------------------------------------
(* The MCP servers.                                                        *)

Binds == [pc : {"idle", "binding", "failed", "bound"}, next : Declared]

Entries == [decl : Decls \union {Absent}, refs : Nat, unlisted : BOOLEAN, closed : Nat]

OnEntry(e) == {k \in Calls : calls[k] = e}

\* ConnectionOutlivesItsCalls, with the calls on an entry named.
CallsCounted ==
    \A e \in DOMAIN sets :
        /\ sets[e].refs = Cardinality(OnEntry(e))
        /\ sets[e].closed = IF sets[e].unlisted /\ sets[e].refs = 0 THEN 1 ELSE 0

\* A name lists an entry of its own that no removal reached: what a call is handed
\* is open.
Listing ==
    /\ \A n \in Names : listed[n] # 0 => listed[n] \in DOMAIN sets /\ ~sets[listed[n]].unlisted
    /\ \A m, n \in Names : listed[m] = listed[n] /\ listed[m] # 0 => m = n

ServerInv ==
    /\ sets \in Seq(Entries)
    /\ listed \in [Names -> Nat]
    /\ calls \in [Calls -> Nat]
    /\ bind \in Binds
    /\ \A k \in Calls : calls[k] # 0 => calls[k] \in DOMAIN sets
    /\ Listing
    /\ CallsCounted

LEMMA OnEntryFinite ==
    ASSUME NEW e
    PROVE  IsFiniteSet(OnEntry(e)) /\ Cardinality(OnEntry(e)) \in Nat
  BY CallsAssumption, FS_Subset, FS_CardinalityType DEF OnEntry

LEMMA CallCounts == ServerInv => ConnectionOutlivesItsCalls
  BY DEF ServerInv, CallsCounted, ConnectionOutlivesItsCalls, OnEntry

LEMMA ServersInitial ==
    ASSUME ServersInit
    PROVE  ServerInv
  <1>1. sets \in Seq(Entries) /\ DOMAIN sets = {}
    BY DEF ServersInit
  <1>2. listed \in [Names -> Nat] /\ \A n \in Names : listed[n] = 0
    BY DEF ServersInit
  <1>3. calls \in [Calls -> Nat] /\ \A k \in Calls : calls[k] = 0
    BY DEF ServersInit
  <1>4. bind \in Binds
    <2>1. NoServers \in Declared
      BY DEF NoServers, Declared
    <2> QED
      BY <2>1 DEF ServersInit, Idle, Binds
  <1> QED
    BY <1>1, <1>2, <1>3, <1>4 DEF ServerInv, Listing, CallsCounted

\* The entries, the listing and the calls stay as they were.
LEMMA SameServers ==
    ASSUME ServerInv, UNCHANGED <<sets, listed, calls>>,
           bind' \in Binds
    PROVE  ServerInv'
  BY DEF ServerInv, Listing, CallsCounted, OnEntry

LEMMA BorrowType ==
    ASSUME NEW x \in Entries
    PROVE  LET y == [x EXCEPT !.refs = @ + 1]
           IN  /\ y \in Entries /\ y.refs = x.refs + 1
               /\ y.unlisted = x.unlisted /\ y.closed = x.closed
  BY DEF Entries

LEMMA EndType ==
    ASSUME NEW x \in Entries, x.refs >= 1, NEW closing \in Nat
    PROVE  LET y == [x EXCEPT !.refs = @ - 1, !.closed = @ + closing]
           IN  /\ y \in Entries /\ y.refs = x.refs - 1
               /\ y.unlisted = x.unlisted /\ y.closed = x.closed + closing
  <1>1. x.refs - 1 \in Nat /\ x.closed + closing \in Nat
    BY DEF Entries
  <1> QED
    BY <1>1 DEF Entries

LEMMA UnlistType ==
    ASSUME NEW x \in Entries, NEW closing \in Nat
    PROVE  LET y == [x EXCEPT !.unlisted = TRUE, !.closed = @ + closing]
           IN  /\ y \in Entries /\ y.refs = x.refs
               /\ y.unlisted = TRUE /\ y.closed = x.closed + closing
  <1>1. x.closed + closing \in Nat
    BY DEF Entries
  <1> QED
    BY <1>1 DEF Entries

LEMMA CallBorrowsStep ==
    ASSUME ServerInv, NEW k \in Calls, NEW n \in Names, CallBorrows(k, n)
    PROVE  ServerInv'
  <1> DEFINE e == listed[n]
             lent == [sets[e] EXCEPT !.refs = @ + 1]
  <1>0. /\ sets \in Seq(Entries) /\ DOMAIN sets = 1 .. Len(sets) /\ e \in DOMAIN sets
        /\ sets[e] \in Entries /\ ~sets[e].unlisted /\ CallsCounted
        /\ calls \in [Calls -> Nat] /\ listed \in [Names -> Nat]
    BY DEF ServerInv, Listing, CallBorrows
  <1>1. /\ calls[k] = 0 /\ calls' = [calls EXCEPT ![k] = e]
        /\ listed' = listed /\ bind' = bind
        /\ sets' = [sets EXCEPT ![e] = lent]
    BY <1>0 DEF CallBorrows, Entries
  <1>2. /\ lent \in Entries /\ lent.refs = sets[e].refs + 1
        /\ lent.unlisted = sets[e].unlisted /\ lent.closed = sets[e].closed
    BY <1>0, BorrowType
  <1> HIDE DEF lent
  <1>3. /\ sets' \in Seq(Entries) /\ Len(sets') = Len(sets) /\ DOMAIN sets' = DOMAIN sets
        /\ \A d \in DOMAIN sets : sets'[d] = IF d = e THEN lent ELSE sets[d]
    BY <1>0, <1>1, <1>2, ExceptSeq
  <1>4. /\ calls' \in [Calls -> Nat]
        /\ \A j \in Calls : calls'[j] # 0 => calls'[j] \in DOMAIN sets
    BY <1>0, <1>1 DEF ServerInv
  <1>5. e # 0 /\ k \notin OnEntry(e)
    BY <1>0, <1>1 DEF OnEntry
  <1>6. \A d \in DOMAIN sets :
           OnEntry(d)' = IF d = e THEN OnEntry(e) \cup {k} ELSE OnEntry(d)
    BY <1>0, <1>1 DEF OnEntry
  <1>7. Cardinality(OnEntry(e) \cup {k}) = Cardinality(OnEntry(e)) + 1
    BY <1>5, OnEntryFinite, CountMore
  <1>8. Listing'
    BY <1>0, <1>1, <1>2, <1>3 DEF ServerInv, Listing
  <1>9. CallsCounted'
    <2> SUFFICES ASSUME NEW d \in DOMAIN sets
                 PROVE  /\ sets'[d].refs = Cardinality(OnEntry(d)')
                        /\ sets'[d].closed =
                              IF sets'[d].unlisted /\ sets'[d].refs = 0 THEN 1 ELSE 0
      BY <1>3 DEF CallsCounted
    <2>1. CASE d = e
      <3>1. lent.refs = Cardinality(OnEntry(e)) + 1 /\ lent.closed = 0 /\ ~lent.unlisted
        BY <1>0, <1>2 DEF CallsCounted
      <3> QED
        BY <1>3, <1>6, <1>7, <2>1, <3>1
    <2>2. CASE d # e
      BY <1>0, <1>3, <1>6, <2>2 DEF CallsCounted
    <2> QED
      BY <2>1, <2>2
  <1>10. listed' \in [Names -> Nat] /\ bind' \in Binds
    BY <1>0, <1>1 DEF ServerInv
  <1> QED
    BY <1>3, <1>4, <1>8, <1>9, <1>10 DEF ServerInv

LEMMA CallEndsStep ==
    ASSUME ServerInv, NEW k \in Calls, CallEnds(k)
    PROVE  ServerInv'
  <1> DEFINE e == calls[k]
             closing == IF sets[e].unlisted /\ sets[e].refs = 1 /\ sets[e].closed = 0
                        THEN 1 ELSE 0
             left == [sets[e] EXCEPT !.refs = @ - 1, !.closed = @ + closing]
  <1>0. /\ sets \in Seq(Entries) /\ DOMAIN sets = 1 .. Len(sets) /\ e \in DOMAIN sets
        /\ sets[e] \in Entries /\ CallsCounted
        /\ calls \in [Calls -> Nat] /\ listed \in [Names -> Nat]
    BY DEF ServerInv, CallEnds
  <1>1. /\ calls' = [calls EXCEPT ![k] = 0]
        /\ listed' = listed /\ bind' = bind
        /\ sets' = [sets EXCEPT ![e] = left]
    BY <1>0 DEF CallEnds, Entries
  <1>2. k \in OnEntry(e)
    BY DEF OnEntry
  <1>3. /\ Cardinality(OnEntry(e) \ {k}) = Cardinality(OnEntry(e)) - 1
        /\ Cardinality(OnEntry(e)) \in Nat /\ Cardinality(OnEntry(e)) >= 1
    BY <1>2, OnEntryFinite, CountLess
  <1>4. sets[e].refs = Cardinality(OnEntry(e)) /\ sets[e].closed = 0
    BY <1>0, <1>3 DEF CallsCounted
  <1>5. /\ left \in Entries /\ left.refs = Cardinality(OnEntry(e)) - 1
        /\ left.unlisted = sets[e].unlisted
        /\ left.closed = IF left.unlisted /\ left.refs = 0 THEN 1 ELSE 0
    <2>1. closing \in Nat /\ closing = IF sets[e].unlisted /\ sets[e].refs = 1 THEN 1 ELSE 0
      BY <1>4
    <2>2. sets[e] \in Entries /\ sets[e].refs >= 1
      BY <1>0, <1>3, <1>4
    <2> HIDE DEF closing
    <2>3. /\ left \in Entries /\ left.refs = sets[e].refs - 1
          /\ left.unlisted = sets[e].unlisted /\ left.closed = sets[e].closed + closing
      BY <2>1, <2>2, EndType
    <2> HIDE DEF left
    <2> QED
      BY <1>3, <1>4, <2>1, <2>3
  <1> HIDE DEF left
  <1>6. /\ sets' \in Seq(Entries) /\ Len(sets') = Len(sets) /\ DOMAIN sets' = DOMAIN sets
        /\ \A d \in DOMAIN sets : sets'[d] = IF d = e THEN left ELSE sets[d]
    BY <1>0, <1>1, <1>5, ExceptSeq
  <1>7. /\ calls' \in [Calls -> Nat]
        /\ \A j \in Calls : calls'[j] # 0 => calls'[j] \in DOMAIN sets
    BY <1>0, <1>1 DEF ServerInv
  <1>8. \A d \in DOMAIN sets :
           OnEntry(d)' = IF d = e THEN OnEntry(e) \ {k} ELSE OnEntry(d)
    BY <1>0, <1>1 DEF OnEntry
  <1>9. Listing'
    BY <1>0, <1>1, <1>5, <1>6 DEF ServerInv, Listing
  <1>10. CallsCounted'
    <2> SUFFICES ASSUME NEW d \in DOMAIN sets
                 PROVE  /\ sets'[d].refs = Cardinality(OnEntry(d)')
                        /\ sets'[d].closed =
                              IF sets'[d].unlisted /\ sets'[d].refs = 0 THEN 1 ELSE 0
      BY <1>6 DEF CallsCounted
    <2>1. CASE d = e
      BY <1>3, <1>5, <1>6, <1>8, <2>1
    <2>2. CASE d # e
      BY <1>0, <1>6, <1>8, <2>2 DEF CallsCounted
    <2> QED
      BY <2>1, <2>2
  <1>11. listed' \in [Names -> Nat] /\ bind' \in Binds
    BY <1>0, <1>1 DEF ServerInv
  <1> QED
    BY <1>6, <1>7, <1>9, <1>10, <1>11 DEF ServerInv

\* Remove takes the entry of one name out of the listing.
LEMMA RemoveStep ==
    ASSUME ServerInv, NEW n \in Names, listed[n] # 0, calls' = calls, bind' \in Binds,
           sets' = [sets EXCEPT ![listed[n]] = Unlisted(listed[n])],
           listed' = [listed EXCEPT ![n] = 0]
    PROVE  ServerInv'
  <1> DEFINE e == listed[n]
             closing == IF sets[e].refs = 0 THEN 1 ELSE 0
             gone == [sets[e] EXCEPT !.unlisted = TRUE, !.closed = @ + closing]
  <1>0. /\ sets \in Seq(Entries) /\ DOMAIN sets = 1 .. Len(sets) /\ e \in DOMAIN sets
        /\ sets[e] \in Entries /\ ~sets[e].unlisted /\ CallsCounted
        /\ listed \in [Names -> Nat]
    BY DEF ServerInv, Listing
  <1>1. sets' = [sets EXCEPT ![e] = gone]
    BY DEF Unlisted
  <1>2. /\ gone \in Entries /\ gone.refs = Cardinality(OnEntry(e)) /\ gone.unlisted
        /\ gone.closed = IF gone.unlisted /\ gone.refs = 0 THEN 1 ELSE 0
    <2>1. sets[e].refs = Cardinality(OnEntry(e)) /\ sets[e].closed = 0
      BY <1>0 DEF CallsCounted
    <2>2. closing \in Nat
      OBVIOUS
    <2> HIDE DEF closing
    <2>3. /\ gone \in Entries /\ gone.refs = sets[e].refs
          /\ gone.unlisted = TRUE /\ gone.closed = sets[e].closed + closing
      BY <1>0, <2>2, UnlistType
    <2> HIDE DEF gone
    <2> QED
      BY <2>1, <2>3 DEF closing
  <1> HIDE DEF gone
  <1>3. /\ sets' \in Seq(Entries) /\ Len(sets') = Len(sets) /\ DOMAIN sets' = DOMAIN sets
        /\ \A d \in DOMAIN sets : sets'[d] = IF d = e THEN gone ELSE sets[d]
    BY <1>0, <1>1, <1>2, ExceptSeq
  <1>4. \A d : OnEntry(d)' = OnEntry(d)
    BY DEF OnEntry
  <1>5. CallsCounted'
    BY <1>0, <1>2, <1>3, <1>4 DEF CallsCounted
  <1>6. Listing'
    BY <1>0, <1>3 DEF ServerInv, Listing
  <1>7. listed' \in [Names -> Nat] /\ calls' \in [Calls -> Nat]
        /\ \A k \in Calls : calls'[k] # 0 => calls'[k] \in DOMAIN sets'
    BY <1>0, <1>3 DEF ServerInv
  <1> QED
    BY <1>3, <1>5, <1>6, <1>7 DEF ServerInv

\* Add lists an entry no call is on.
LEMMA AddStep ==
    ASSUME ServerInv, NEW n \in Names, listed[n] = 0, calls' = calls, bind' \in Binds,
           NEW decl \in Decls \union {Absent},
           sets' = Append(sets, [decl |-> decl, refs |-> 0,
                                 unlisted |-> FALSE, closed |-> 0]),
           listed' = [listed EXCEPT ![n] = Len(sets) + 1]
    PROVE  ServerInv'
  <1> DEFINE fresh == [decl |-> decl, refs |-> 0, unlisted |-> FALSE, closed |-> 0]
             e == Len(sets) + 1
  <1>0. /\ sets \in Seq(Entries) /\ DOMAIN sets = 1 .. Len(sets) /\ Len(sets) \in Nat
        /\ CallsCounted /\ Listing /\ listed \in [Names -> Nat]
        /\ \A k \in Calls : calls[k] # e
    BY DEF ServerInv
  <1>1. fresh \in Entries /\ fresh.refs = 0 /\ fresh.closed = 0 /\ ~fresh.unlisted
    BY DEF Entries
  <1> HIDE DEF fresh
  <1>2. /\ sets' \in Seq(Entries) /\ DOMAIN sets' = 1 .. e
        /\ \A d \in DOMAIN sets : sets'[d] = sets[d]
        /\ sets'[e] = fresh
    BY <1>0, <1>1, AppendProperties DEF fresh
  <1>3. OnEntry(e) = {} /\ \A d : OnEntry(d)' = OnEntry(d)
    BY <1>0 DEF OnEntry
  <1>4. CallsCounted'
    <2> SUFFICES ASSUME NEW d \in 1 .. e
                 PROVE  /\ sets'[d].refs = Cardinality(OnEntry(d)')
                        /\ sets'[d].closed =
                              IF sets'[d].unlisted /\ sets'[d].refs = 0 THEN 1 ELSE 0
      BY <1>2 DEF CallsCounted
    <2>1. CASE d = e
      <3>1. OnEntry(d)' = {}
        BY <1>3, <2>1
      <3>2. Cardinality(OnEntry(d)') = 0
        BY <3>1, FS_EmptySet
      <3> QED
        BY <1>1, <1>2, <2>1, <3>2
    <2>2. CASE d # e
      <3>1. d \in DOMAIN sets
        BY <1>0, <2>2
      <3> QED
        BY <1>0, <1>2, <1>3, <3>1 DEF CallsCounted
    <2> QED
      BY <2>1, <2>2
  <1>5. /\ listed' \in [Names -> Nat]
        /\ \A m \in Names : listed'[m] = IF m = n THEN e ELSE listed[m]
    BY <1>0
  <1>6. \A m \in Names : listed[m] # 0 => listed[m] \in DOMAIN sets /\ listed[m] # e
    BY <1>0 DEF Listing
  <1>7. Listing'
    <2>1. ASSUME NEW m \in Names, listed'[m] # 0
          PROVE  listed'[m] \in DOMAIN sets' /\ ~sets'[listed'[m]].unlisted
      BY <1>0, <1>1, <1>2, <1>5, <1>6, <2>1 DEF Listing
    <2>2. ASSUME NEW l \in Names, NEW m \in Names, listed'[l] = listed'[m], listed'[l] # 0
          PROVE  l = m
      BY <1>0, <1>5, <1>6, <2>2 DEF Listing
    <2> QED
      BY <2>1, <2>2 DEF Listing
  <1>8. calls' \in [Calls -> Nat]
        /\ \A k \in Calls : calls'[k] # 0 => calls'[k] \in DOMAIN sets'
    BY <1>0, <1>2 DEF ServerInv
  <1> QED
    BY <1>2, <1>4, <1>5, <1>7, <1>8 DEF ServerInv

LEMMA CloseServersStep ==
    ASSUME ServerInv, CloseServers
    PROVE  ServerInv'
  <1> DEFINE out(d) == IF sets[d].unlisted THEN sets[d] ELSE Unlisted(d)
  <1>0. /\ sets \in Seq(Entries) /\ DOMAIN sets = 1 .. Len(sets)
        /\ \A d \in DOMAIN sets : sets[d] \in Entries
        /\ CallsCounted
    BY DEF ServerInv
  <1>1. /\ sets' = [d \in 1 .. Len(sets) |-> out(d)] /\ calls' = calls /\ bind' = bind
        /\ listed' = [n \in Names |-> 0]
    BY <1>0 DEF CloseServers
  <1>2. ASSUME NEW d \in DOMAIN sets
        PROVE  /\ out(d) \in Entries /\ out(d).refs = Cardinality(OnEntry(d))
               /\ out(d).closed = IF out(d).unlisted /\ out(d).refs = 0 THEN 1 ELSE 0
    <2> DEFINE closing == IF sets[d].refs = 0 THEN 1 ELSE 0
               gone == [sets[d] EXCEPT !.unlisted = TRUE, !.closed = @ + closing]
    <2>1. /\ sets[d] \in Entries /\ sets[d].refs = Cardinality(OnEntry(d))
          /\ sets[d].closed = IF sets[d].unlisted /\ sets[d].refs = 0 THEN 1 ELSE 0
      BY <1>0 DEF CallsCounted
    <2>2. CASE sets[d].unlisted
      BY <2>1, <2>2
    <2>3. CASE ~sets[d].unlisted
      <3>1. out(d) = gone
        BY <2>3 DEF Unlisted
      <3>2. closing \in Nat
        OBVIOUS
      <3> HIDE DEF closing
      <3>3. /\ gone \in Entries /\ gone.refs = sets[d].refs
            /\ gone.unlisted = TRUE /\ gone.closed = sets[d].closed + closing
        BY <2>1, <3>2, UnlistType
      <3> HIDE DEF gone
      <3>4. gone.closed = IF gone.unlisted /\ gone.refs = 0 THEN 1 ELSE 0
        BY <2>1, <2>3, <3>3 DEF closing
      <3> HIDE DEF out
      <3> QED
        BY <2>1, <3>1, <3>3, <3>4
    <2> QED
      BY <2>2, <2>3
  <1> HIDE DEF out
  <1>3. /\ sets' \in Seq(Entries) /\ DOMAIN sets' = DOMAIN sets
        /\ \A d \in DOMAIN sets : sets'[d] = out(d)
    BY <1>0, <1>1, <1>2
  <1>4. \A d : OnEntry(d)' = OnEntry(d)
    BY <1>1 DEF OnEntry
  <1>5. CallsCounted'
    BY <1>2, <1>3, <1>4 DEF CallsCounted
  <1>6. listed' \in [Names -> Nat] /\ \A n \in Names : listed'[n] = 0
    BY <1>1
  <1>7. Listing'
    BY <1>6 DEF Listing
  <1>8. calls' \in [Calls -> Nat] /\ bind' \in Binds
        /\ \A k \in Calls : calls'[k] # 0 => calls'[k] \in DOMAIN sets'
    BY <1>1, <1>3 DEF ServerInv
  <1> QED
    BY <1>3, <1>5, <1>6, <1>7, <1>8 DEF ServerInv

\* The first name of Moved is one of them.
LEMMA FirstMoved ==
    ASSUME Moved # {}
    PROVE  Min(Moved) \in Moved
  <1> DEFINE below == {p \in Nat \X Nat : p[1] < p[2]}
  <1>1. Moved \subseteq Nat
    BY NamesAssumption DEF Moved
  <1>2. IsWellFoundedOn(below, Nat)
    BY NatLessThanWellFounded, Zenon DEF OpToRel
  <1>3. PICK n \in Moved : \A m \in Moved : <<m, n>> \notin below
    <2> HIDE DEF below
    <2> QED
      BY <1>1, <1>2, WFMin
  <1>4. ASSUME NEW m \in Moved PROVE n =< m
    <2>1. m \in Nat /\ n \in Nat
      BY <1>1
    <2>2. m < n => <<m, n>> \in below
      BY <2>1
    <2> HIDE DEF below
    <2>3. ~(m < n)
      BY <1>3, <2>2
    <2> QED
      BY <2>1, <2>3
  <1> QED
    BY <1>4 DEF Min

LEMMA BindStep ==
    ASSUME ServerInv, Bind
    PROVE  ServerInv'
  <1>0. bind \in Binds /\ [bind EXCEPT !.pc = "failed"] \in Binds
        /\ [bind EXCEPT !.pc = "bound"] \in Binds
    BY DEF ServerInv, Binds
  <1>1. CASE BindEnds
    BY <1>0, <1>1, SameServers DEF BindEnds
  <1>2. CASE BindAdds
    <2> DEFINE n == Min(Moved)
    <2>1. n \in Moved /\ n \in Names
      BY <1>2, FirstMoved DEF BindAdds, Moved
    <2>2. CASE shut \/ listed[n] # 0
      BY <1>0, <1>2, <2>2, SameServers DEF BindAdds, BindFails
    <2>3. CASE ~(shut \/ listed[n] # 0)
      <3>1. bind.next[n] \in Decls \union {Absent}
        BY <1>0, <2>1 DEF Binds, Declared
      <3>2. /\ sets' = Append(sets, [decl |-> bind.next[n], refs |-> 0,
                                     unlisted |-> FALSE, closed |-> 0])
            /\ listed' = [listed EXCEPT ![n] = Len(sets) + 1]
            /\ bind' = bind /\ calls' = calls /\ listed[n] = 0
        BY <1>2, <2>3 DEF BindAdds
      <3> QED
        BY <1>0, <2>1, <3>1, <3>2, AddStep
    <2> QED
      BY <2>2, <2>3
  <1>3. CASE BindRemoves
    <2>1. PICK n \in Names : Remove(n)
      BY <1>3, FirstMoved DEF BindRemoves, Undeclared, Moved
    <2>2. bind' \in Binds /\ calls' = calls
      BY <1>0, <2>1 DEF Remove, BindFails
    <2>3. CASE listed[n] = 0
      BY <2>1, <2>2, <2>3, SameServers DEF Remove
    <2>4. CASE listed[n] # 0
      <3>1. /\ sets' = [sets EXCEPT ![listed[n]] = Unlisted(listed[n])]
            /\ listed' = [listed EXCEPT ![n] = 0]
        BY <2>1, <2>4 DEF Remove
      <3> QED
        BY <2>2, <2>4, <3>1, RemoveStep
    <2> QED
      BY <2>3, <2>4
  <1> QED
    BY <1>1, <1>2, <1>3 DEF Bind

-----------------------------------------------------------------------------
(* The reload beside them.                                                 *)

\* What the reload read is a document, and so is what it compares with.
ReloadInv ==
    /\ doc \in Docs
    /\ reload \in [pc : {"idle", "judged", "applied", "kept", "binding", "filing",
                         "modelling", "closing"},
                   next : Docs, from : Docs, to : Versions \union {Unserved}]

HostInv == LeaseInv /\ ServerInv /\ ReloadInv

LEMMA DocTypes ==
    ASSUME NEW d \in Docs
    PROVE  d.servers \in Declared /\ d.version \in Versions
  BY DocsAssumption

LEMMA HostInitial == Init => HostInv
  <1> SUFFICES ASSUME Init PROVE HostInv
    OBVIOUS
  <1>1. LeaseInv
    BY LeaseInitial, DocTypes, DocsAssumption DEF Init
  <1>2. ServerInv
    BY ServersInitial DEF Init
  <1>3. ReloadInv
    BY DocsAssumption DEF Init, ReloadInv, Resting
  <1> QED
    BY <1>1, <1>2, <1>3 DEF HostInv

LEMMA SameReload ==
    ASSUME ReloadInv, UNCHANGED <<doc, reload>>
    PROVE  ReloadInv'
  BY DEF ReloadInv

\* A reload that ends or moves on keeps what it read.
LEMMA PlaceType ==
    ASSUME ReloadInv,
           NEW pc \in {"idle", "judged", "applied", "kept", "binding", "filing",
                       "modelling", "closing"},
           reload' = [reload EXCEPT !.pc = pc], doc' \in {doc, reload.next}
    PROVE  ReloadInv'
  BY DEF ReloadInv

LEMMA ReloadStep ==
    ASSUME HostInv, Reload
    PROVE  HostInv'
  <1>0. LeaseInv /\ ServerInv /\ ReloadInv
        /\ reload.next \in Docs /\ reload.to \in Versions \union {Unserved}
    BY DEF HostInv, ReloadInv
  <1>1. Idle \in Binds
    BY DEF Idle, NoServers, Declared, Binds
  <1>2. LeaseInv'
    <2>1. CASE ReloadModels
      <3>1. UNCHANGED lease \/ (reload.to # Unserved /\ Install(reload.to))
        BY <2>1 DEF ReloadModels
      <3> QED
        BY <1>0, <3>1, SameLease, InstallStep
    <2>2. CASE ReloadSweeps
      BY <1>0, <2>2, SweepStep DEF ReloadSweeps
    <2>3. CASE UNCHANGED lease
      BY <1>0, <2>3, SameLease
    <2> QED
      BY <2>1, <2>2, <2>3
         DEF Reload, PublishRefuses, PublishApplies, PublishKeeps, ReloadBinds,
             ReloadBindStep, ReloadBindFails, ReloadInstalls, ReloadFiles, ReloadAnswers
  <1>3. ServerInv'
    <2>1. CASE ReloadBinds
      <3>1. [pc |-> "binding", next |-> reload.next.servers] \in Binds
        BY <1>0, DocTypes DEF Binds
      <3> QED
        BY <1>0, <2>1, <3>1, SameServers DEF ReloadBinds, BindBegins
    <2>2. CASE ReloadBindStep
      BY <1>0, <2>2, BindStep DEF ReloadBindStep
    <2>3. CASE ReloadBindFails \/ ReloadInstalls
      BY <1>0, <1>1, <2>3, SameServers DEF ReloadBindFails, ReloadInstalls, BindDone
    <2>4. CASE UNCHANGED servers
      BY <1>0, <2>4, SameServers DEF servers, ServerInv
    <2> QED
      BY <2>1, <2>2, <2>3, <2>4
         DEF Reload, PublishRefuses, PublishApplies, PublishKeeps,
             ReloadFiles, ReloadModels, ReloadSweeps, ReloadAnswers
  <1>4. ReloadInv'
    <2>1. CASE UNCHANGED <<doc, reload>>
      BY <1>0, <2>1, SameReload
    <2>2. CASE doc' = doc /\ reload' # reload
      <3>1. PICK pc \in {"idle", "judged", "applied", "kept", "binding", "filing",
                         "modelling", "closing"} : reload' = [reload EXCEPT !.pc = pc]
        BY <2>2 DEF Reload, PublishRefuses, PublishApplies, PublishKeeps, ReloadBinds,
                    ReloadBindStep, ReloadBindFails, ReloadInstalls, ReloadFiles,
                    ReloadModels, ReloadSweeps, ReloadAnswers, Answer, host
      <3> QED
        BY <1>0, <2>2, <3>1, PlaceType
    <2>3. CASE ReloadInstalls
      <3>1. /\ doc' \in {doc, reload.next}
            /\ \E pc \in {"idle", "filing", "modelling"} :
                  reload' = [reload EXCEPT !.pc = pc]
        BY <2>3 DEF ReloadInstalls, Answer
      <3> QED
        BY <1>0, <3>1, PlaceType
    <2> QED
      BY <2>1, <2>2, <2>3
         DEF Reload, PublishRefuses, PublishApplies, PublishKeeps, ReloadBinds,
             ReloadBindStep, ReloadBindFails, ReloadFiles, ReloadModels,
             ReloadSweeps, ReloadAnswers, host
  <1> QED
    BY <1>2, <1>3, <1>4 DEF HostInv

LEMMA HostStep == HostInv /\ [Next]_vars => HostInv'
  <1> SUFFICES ASSUME HostInv, [Next]_vars PROVE HostInv'
    OBVIOUS
  <1>0. LeaseInv /\ ServerInv /\ ReloadInv /\ bind \in Binds
    BY DEF HostInv, ServerInv
  <1>1. ASSUME NEW next \in Docs, ReloadBegins(next) PROVE HostInv'
    <2>1. LeaseInv' /\ ServerInv'
      BY <1>0, <1>1, SameLease, SameServers DEF ReloadBegins, servers
    <2>2. next.version \in Versions
      BY DocTypes
    <2>3. ReloadInv'
      BY <1>0, <1>1, <2>2 DEF ReloadBegins, ReloadInv
    <2> QED
      BY <2>1, <2>3 DEF HostInv
  <1>2. CASE Reload
    BY <1>2, ReloadStep
  <1>3. CASE HostCloses \/ UNCHANGED vars
    <2>1. UNCHANGED lease /\ UNCHANGED servers /\ UNCHANGED <<doc, reload>>
      BY <1>3 DEF HostCloses, vars, host
    <2> QED
      BY <1>0, <2>1, SameLease, SameServers, SameReload DEF HostInv, servers
  <1>4. CASE HostClosesServers
    BY <1>0, <1>4, CloseServersStep, SameLease, SameReload
       DEF HostClosesServers, HostInv, host
  <1>5. CASE Calling
    <2>1. ServerInv'
      BY <1>0, <1>5, CallEndsStep, CallBorrowsStep DEF Calling
    <2> QED
      BY <1>0, <1>5, <2>1, SameLease, SameReload DEF Calling, HostInv, host
  <1>6. CASE Streaming
    <2>1. LeaseInv' /\ UNCHANGED servers /\ UNCHANGED <<doc, reload>>
      BY <1>0, <1>6, StreamStep DEF Streaming, host
    <2> QED
      BY <1>0, <2>1, SameServers, SameReload DEF HostInv, servers
  <1> QED
    BY <1>1, <1>2, <1>3, <1>4, <1>5, <1>6 DEF Next

\* A call keeps the connection it was handed, and a connection nobody is on any more
\* is closed once, while reloads redeclare its server, refuse half way or meet the
\* close of the host (registry.go Remove, Borrow, Close).
THEOREM CallsKeepConnection == Spec => []ConnectionOutlivesItsCalls
  <1>1. HostInv => ConnectionOutlivesItsCalls
    BY CallCounts DEF HostInv
  <1> QED
    BY <1>1, HostInitial, HostStep, PTL DEF Spec

\* A version counts exactly the leases on it, the version in effect is never closed,
\* none is closed under a lease, and a retired one is closed once, by the later of the
\* sweep and its last leave (replacement.go leave, sweep).  What keeps a producer its
\* model is the lease, which a caller that stops early gives back before the producer
\* ends (StopsEarly): of a draining stream this says nothing.
THEOREM LeasesKeepModel == Spec => []ModelOutlivesItsLeases
  <1>1. HostInv => ModelOutlivesItsLeases
    BY LeaseCounts DEF HostInv
  <1> QED
    BY <1>1, HostInitial, HostStep, PTL DEF Spec

-----------------------------------------------------------------------------
(* What a reload leaves behind it.                                         *)

Places == {"idle", "judged", "applied", "kept", "binding", "filing", "modelling", "closing"}
Published == {"applied", "kept", "filing", "modelling", "closing"}
Installed == {"filing", "modelling", "closing"}
Answered == reload.pc = "idle" /\ answer = "ok"

\* The bounds and the types the calls and streams do not depend on.
ServerBounds ==
    /\ shut \in BOOLEAN
    /\ \A e \in DOMAIN sets : sets[e].decl # Absent
    /\ refusals \in Seq(Names) /\ Len(refusals) <= MaxRefusals

StreamBounds == \A s \in Streams : streams[s].at <= Len(held)

HostBounds ==
    /\ up \in BOOLEAN /\ stumbled \in BOOLEAN
    /\ answer \in {"none", "ok", "error"}
    /\ reloads \in 0..MaxReloads
    /\ published \in Seq(Docs) /\ Len(published) >= 1
    /\ Len(published) <= IF reload.pc = "judged" THEN reloads ELSE reloads + 1
    /\ facts \subseteq [gen : 1..(MaxReloads + 1), from : Docs, to : Docs]

\* What the registry lists is what the binder applied, unless a close came between.
ListedApplied ==
    /\ applied \in Declared
    /\ ~shut /\ refusals = <<>> =>
          \A n \in Names : IF listed[n] = 0 THEN applied[n] = Absent
                           ELSE sets[listed[n]].decl = applied[n]

\* The binder works for the reload, and is done when it walked every name.
BindFollows ==
    /\ bind.pc # "idle" =>
          reload.pc \in {"applied", "kept", "binding"} /\ bind.next = reload.next.servers
    /\ bind.pc = "bound" => applied = bind.next

\* How far each account is at each place of the reload.
AccountsFollow ==
    /\ models = doc
    /\ reload.pc # "idle" => answer = "none"
    /\ reload.pc \in Published => Effective = reload.next
    /\ reload.pc \in Installed => doc = reload.next
    /\ Answered => Effective = doc
    /\ reload.pc \in Installed \/ Answered => applied = doc.servers

\* The model the reload means to install, and the one it leaves.
ModelFollows ==
    /\ sweeping => reload.pc = "closing"
    /\ reload.pc \in {"judged", "applied", "kept", "filing", "modelling"} =>
          reload.to = IF reload.next.version = CurrentVersion THEN Unserved
                      ELSE reload.next.version
    /\ (reload.pc = "closing" \/ Answered) /\ ~stumbled => CurrentVersion = doc.version

FollowInv ==
    /\ ServerBounds /\ StreamBounds /\ HostBounds
    /\ ListedApplied /\ BindFollows /\ AccountsFollow /\ ModelFollows

\* The listed entries keep their declarations while calls come and go.
LEMMA CallingKeeps ==
    ASSUME ServerInv, Calling
    PROVE  /\ UNCHANGED <<listed, shut, applied, bind, refusals>>
           /\ DOMAIN sets' = DOMAIN sets
           /\ \A e \in DOMAIN sets : sets'[e].decl = sets[e].decl
  <1>1. PICK k \in Calls : CallEnds(k) \/ \E n \in Names : CallBorrows(k, n)
    BY DEF Calling
  <1>2. sets \in Seq(Entries) /\ \A e \in DOMAIN sets : sets[e] \in Entries
    BY DEF ServerInv
  <1>3. CASE CallEnds(k)
    BY <1>2, <1>3 DEF CallEnds, Entries
  <1>4. ASSUME NEW n \in Names, CallBorrows(k, n)
        PROVE  /\ UNCHANGED <<listed, shut, applied, bind, refusals>>
               /\ DOMAIN sets' = DOMAIN sets
               /\ \A e \in DOMAIN sets : sets'[e].decl = sets[e].decl
    BY <1>2, <1>4 DEF CallBorrows, Entries
  <1> QED
    BY <1>1, <1>3, <1>4

\* A removal takes the name out of the listing and of what is applied together, or
\* leaves a refusal behind.
LEMMA RemoveFollows ==
    ASSUME ServerInv, ListedApplied, NEW n \in Names, Remove(n)
    PROVE  /\ ListedApplied' /\ shut' = shut /\ DOMAIN sets' = DOMAIN sets
           /\ \A e \in DOMAIN sets : sets'[e].decl = sets[e].decl
           /\ refusals' = refusals \/ CloseRefused(n)
  <1>0. /\ sets \in Seq(Entries) /\ \A e \in DOMAIN sets : sets[e] \in Entries
        /\ listed \in [Names -> Nat] /\ Listing
        /\ applied \in Declared
        /\ [applied EXCEPT ![n] = Absent] \in Declared
    BY DEF ServerInv, ListedApplied, Declared
  <1>1. CASE listed[n] = 0
    <2>1. /\ UNCHANGED <<sets, listed, shut, refusals>>
          /\ applied' \in {applied, [applied EXCEPT ![n] = Absent]}
          /\ applied[n] # Absent
      BY <1>1 DEF Remove
    <2>2. shut \/ refusals # <<>>
      BY <1>1, <2>1 DEF ListedApplied
    <2> QED
      BY <1>0, <2>1, <2>2 DEF ListedApplied
  <1>2. CASE listed[n] # 0
    <2>1. /\ listed[n] \in DOMAIN sets
          /\ sets' = [sets EXCEPT ![listed[n]] = Unlisted(listed[n])]
          /\ listed' = [listed EXCEPT ![n] = 0] /\ shut' = shut
      BY <1>0, <1>2 DEF Remove, Listing
    <2>2. /\ DOMAIN sets' = DOMAIN sets
          /\ \A e \in DOMAIN sets : sets'[e].decl = sets[e].decl
      BY <1>0, <2>1 DEF Unlisted, Entries
    <2>3. CASE applied' = [applied EXCEPT ![n] = Absent] /\ refusals' = refusals
      <3>1. ASSUME NEW m \in Names, ~shut, refusals = <<>>
            PROVE  IF listed'[m] = 0 THEN applied'[m] = Absent
                   ELSE sets'[listed'[m]].decl = applied'[m]
        <4>1. CASE m = n
          BY <1>0, <2>1, <2>3, <4>1 DEF Declared
        <4>2. CASE m # n
          <5>1. /\ listed'[m] = listed[m] /\ applied'[m] = applied[m]
                /\ listed[m] # 0 => listed[m] \in DOMAIN sets
            BY <1>0, <2>1, <2>3, <4>2 DEF Declared, Listing
          <5> QED
            BY <2>2, <3>1, <5>1 DEF ListedApplied
        <4> QED
          BY <4>1, <4>2
      <3> QED
        BY <1>0, <2>1, <2>2, <2>3, <3>1 DEF ListedApplied
    <2>4. CASE CloseRefused(n) /\ applied' = applied
      <3>1. refusals' # <<>>
        BY <2>4, AppendProperties DEF CloseRefused
      <3> QED
        BY <1>0, <2>1, <2>2, <2>4, <3>1 DEF ListedApplied
    <2> QED
      BY <1>2, <2>3, <2>4 DEF Remove
  <1> QED
    BY <1>1, <1>2

\* An addition lists and applies a name together.
LEMMA AddFollows ==
    ASSUME ServerInv, ListedApplied, BindAdds
    PROVE  /\ ListedApplied' /\ UNCHANGED <<shut, refusals>>
           /\ \/ sets' = sets
              \/ \E d \in Decls : sets' = Append(sets, [decl |-> d, refs |-> 0,
                                                        unlisted |-> FALSE, closed |-> 0])
  <1> DEFINE n == Min(Moved)
  <1>0. /\ sets \in Seq(Entries) /\ DOMAIN sets = 1 .. Len(sets) /\ Len(sets) \in Nat
        /\ listed \in [Names -> Nat] /\ Listing /\ applied \in Declared
        /\ bind.next \in Declared
    BY DEF ServerInv, ListedApplied, Binds
  <1>1. n \in Moved /\ n \in Names
    BY FirstMoved DEF BindAdds, Moved
  <1> HIDE DEF n
  <1>2. bind.next[n] \in Decls
    BY <1>0, <1>1 DEF Moved, Declared
  <1>3. /\ UNCHANGED <<shut, refusals>>
        /\ \/ UNCHANGED <<sets, listed, applied>>
           \/ /\ sets' = Append(sets, [decl |-> bind.next[n], refs |-> 0,
                                       unlisted |-> FALSE, closed |-> 0])
              /\ listed' = [listed EXCEPT ![n] = Len(sets) + 1]
              /\ applied' = [applied EXCEPT ![n] = bind.next[n]]
    BY DEF BindAdds, n
  <1>4. CASE UNCHANGED <<sets, listed, applied>>
    BY <1>3, <1>4 DEF ListedApplied
  <1>5. CASE /\ sets' = Append(sets, [decl |-> bind.next[n], refs |-> 0,
                                      unlisted |-> FALSE, closed |-> 0])
             /\ listed' = [listed EXCEPT ![n] = Len(sets) + 1]
             /\ applied' = [applied EXCEPT ![n] = bind.next[n]]
    <2> DEFINE fresh == [decl |-> bind.next[n], refs |-> 0, unlisted |-> FALSE, closed |-> 0]
    <2>0. fresh \in Entries /\ fresh.decl = bind.next[n]
      BY <1>2 DEF Entries
    <2> HIDE DEF fresh
    <2>1. /\ \A d \in DOMAIN sets : sets'[d] = sets[d]
          /\ sets'[Len(sets) + 1] = fresh
      BY <1>0, <1>5, <2>0, AppendProperties DEF fresh
    <2>2. applied' \in Declared
      BY <1>0, <1>2, <1>5 DEF Declared
    <2>3. ASSUME NEW m \in Names, ~shut, refusals = <<>>
          PROVE  IF listed'[m] = 0 THEN applied'[m] = Absent
                 ELSE sets'[listed'[m]].decl = applied'[m]
      <3>1. CASE m = n
        <4>1. listed'[m] = Len(sets) + 1 /\ applied'[m] = bind.next[n]
          BY <1>0, <1>5, <3>1 DEF Declared
        <4> QED
          BY <1>0, <2>0, <2>1, <4>1
      <3>2. CASE m # n
        <4>1. /\ listed'[m] = listed[m] /\ applied'[m] = applied[m]
              /\ listed[m] # 0 => listed[m] \in DOMAIN sets
          BY <1>0, <1>5, <3>2 DEF Declared, Listing
        <4> QED
          BY <2>1, <2>3, <4>1 DEF ListedApplied
      <3> QED
        BY <3>1, <3>2
    <2> QED
      BY <1>2, <1>3, <1>5, <2>2, <2>3 DEF ListedApplied
  <1> QED
    BY <1>3, <1>4, <1>5

LEMMA ListedFollows ==
    ASSUME ServerInv, ListedApplied, [Next]_vars
    PROVE  ListedApplied'
  <1>1. CASE UNCHANGED <<sets, listed, shut, applied, refusals>>
    BY <1>1 DEF ListedApplied
  <1>2. CASE Calling
    <2>1. \A n \in Names : listed[n] # 0 => listed[n] \in DOMAIN sets
      BY DEF ServerInv, Listing
    <2> QED
      BY <1>2, <2>1, CallingKeeps DEF ListedApplied
  <1>3. CASE HostClosesServers
    BY <1>3 DEF HostClosesServers, CloseServers, ListedApplied
  <1>4. CASE ReloadBindStep
    <2>1. CASE BindEnds
      BY <1>1, <2>1 DEF BindEnds
    <2>2. CASE BindAdds
      BY <2>2, AddFollows
    <2>3. CASE BindRemoves
      <3>1. PICK n \in Names : Remove(n)
        BY <2>3, FirstMoved DEF BindRemoves, Undeclared, Moved
      <3> QED
        BY <3>1, RemoveFollows
    <2> QED
      BY <1>4, <2>1, <2>2, <2>3 DEF ReloadBindStep, Bind
  <1>5. [Next]_vars => \/ UNCHANGED <<sets, listed, shut, applied, refusals>>
                       \/ Calling \/ HostClosesServers \/ ReloadBindStep
    BY DEF Next, vars, Reload, ReloadBegins, PublishRefuses, PublishApplies, PublishKeeps,
           ReloadBinds, BindBegins, ReloadBindFails, ReloadInstalls, BindDone, ReloadFiles,
           ReloadModels, ReloadSweeps, ReloadAnswers, HostCloses, Streaming, servers
  <1> QED
    BY <1>1, <1>2, <1>3, <1>4, <1>5

\* What a step of the binder does to itself and to what is applied.
LEMMA BinderMoves ==
    ASSUME ServerInv, ListedApplied, ReloadBindStep
    PROVE  /\ bind.pc = "binding" /\ bind'.next = bind.next
           /\ bind'.pc \in {"binding", "failed", "bound"}
           /\ bind'.pc = "bound" => applied' = bind.next
           /\ UNCHANGED <<lease, up, doc, models, published, facts, reload, answer, reloads>>
           /\ stumbled => stumbled'
           /\ stumbled' \in BOOLEAN
  <1>s. (stumbled => stumbled') /\ stumbled' \in BOOLEAN
    BY DEF ReloadBindStep
  <1>u. UNCHANGED <<lease, up, doc, models, published, facts, reload, answer, reloads>>
    BY DEF ReloadBindStep
  <1>0. bind \in Binds /\ bind.pc = "binding" /\ applied \in Declared /\ bind.next \in Declared
    BY DEF ServerInv, Binds, ListedApplied, ReloadBindStep, Bind, BindRemoves, BindAdds,
           BindEnds, Binding
  <1>1. CASE bind' \in {bind, [bind EXCEPT !.pc = "failed"]}
    <2>1. bind' = bind \/ bind' = [bind EXCEPT !.pc = "failed"]
      BY <1>1
    <2>2. bind' = bind => bind'.pc = "binding" /\ bind'.next = bind.next
      BY <1>0
    <2>3. bind' = [bind EXCEPT !.pc = "failed"] => bind'.pc = "failed" /\ bind'.next = bind.next
      BY <1>0 DEF Binds
    <2> QED
      BY <1>0, <1>s, <1>u, <2>1, <2>2, <2>3
  <1>2. CASE BindEnds
    <2>1. \A n \in Names : applied[n] = bind.next[n]
      BY <1>0, <1>2 DEF BindEnds, Undeclared, Moved
    <2>2. applied = bind.next
      BY <1>0, <2>1 DEF Declared
    <2>3. bind'.pc = "bound" /\ bind'.next = bind.next /\ applied' = bind.next
      BY <1>0, <1>2, <2>2 DEF Binds, BindEnds
    <2> QED
      BY <1>0, <1>s, <1>u, <2>3
  <1>3. CASE BindAdds
    BY <1>1, <1>3 DEF BindAdds, BindFails
  <1>4. CASE BindRemoves
    <2>1. PICK n \in Names : Remove(n)
      BY <1>4, FirstMoved DEF BindRemoves, Undeclared, Moved
    <2> QED
      BY <1>1, <2>1 DEF Remove, BindFails
  <1> QED
    BY <1>2, <1>3, <1>4 DEF ReloadBindStep, Bind

\* The version in effect changes with an installation only.
LEMMA VersionStays ==
    ASSUME LeaseInv, StreamSteps \/ SweepVersions
    PROVE  /\ CurrentVersion' = CurrentVersion /\ Len(held') = Len(held)
           /\ sweeping' => sweeping
           /\ StreamSteps => sweeping' = sweeping
  <1>0. /\ held \in Seq(Leases) /\ DOMAIN held = 1 .. Len(held) /\ Len(held) \in DOMAIN held
        /\ \A i \in DOMAIN held : held[i] \in Leases
    BY DEF LeaseInv
  <1>1. ASSUME Len(held') = Len(held), \A i \in DOMAIN held : held'[i].version = held[i].version
        PROVE  CurrentVersion' = CurrentVersion
    BY <1>0, <1>1 DEF CurrentVersion, current
  <1>2. CASE SweepVersions
    <2>1. Len(held') = Len(held) /\ \A i \in DOMAIN held : held'[i].version = held[i].version
      BY <1>0, <1>2 DEF SweepVersions, Leases
    <2>2. sweeping /\ sweeping' = FALSE
      BY <1>2 DEF SweepVersions
    <2>3. StreamSteps => sweeping' = sweeping
      BY DEF StreamSteps, StreamBegins, enter, leave, RefusalRead, StreamEnds, StopsEarly,
             DrainEnds
    <2> QED
      BY <1>1, <2>1, <2>2, <2>3
  <1>3. ASSUME NEW s \in Streams, StreamActs(s)
        PROVE  /\ Len(held') = Len(held) /\ sweeping' = sweeping
               /\ \A i \in DOMAIN held : held'[i].version = held[i].version
    <2>1. CASE held' = held /\ sweeping' = sweeping
      BY <2>1
    <2>2. ASSUME NEW i \in DOMAIN held, NEW x, held' = [held EXCEPT ![i] = x],
                 x.version = held[i].version
          PROVE  Len(held') = Len(held) /\ \A j \in DOMAIN held : held'[j].version = held[j].version
      BY <1>0, <2>2
    <2>3. streams[s].pc \in {"begun", "open"} => streams[s].at \in DOMAIN held
      BY DEF LeaseInv
    <2>4. CASE enter(s) /\ held' # held
      <3> DEFINE i == streams[s].at
                 x == [held[i] EXCEPT !.inFlight = @ + 1]
      <3>1. i \in DOMAIN held /\ held[i] \in Leases /\ sweeping' = sweeping
        BY <1>0, <2>3, <2>4 DEF enter
      <3>2. held' = [held EXCEPT ![i] = x]
        BY <2>4, <3>1 DEF enter, Leases
      <3>3. x.version = held[i].version
        BY <3>1 DEF Leases
      <3> HIDE DEF x
      <3> QED
        BY <2>2, <3>1, <3>2, <3>3
    <2>5. CASE StreamEnds(s) \/ StopsEarly(s)
      <3> DEFINE i == streams[s].at
                 last == held[i].inFlight = 1 /\ i # current /\ held[i].closed = 0
                 x == [held[i] EXCEPT !.inFlight = @ - 1, !.closed = @ + (IF last THEN 1 ELSE 0)]
      <3>1. i \in DOMAIN held /\ held[i] \in Leases /\ sweeping' = sweeping
        BY <1>0, <2>3, <2>5 DEF leave, StreamEnds, StopsEarly
      <3>2. held' = [held EXCEPT ![i] = x]
        BY <2>5, <3>1 DEF leave, Leases, StreamEnds, StopsEarly
      <3>3. x.version = held[i].version
        BY <3>1 DEF Leases
      <3> HIDE DEF x
      <3> QED
        BY <2>2, <3>1, <3>2, <3>3
    <2> QED
      BY <1>3, <2>1, <2>4, <2>5 DEF StreamActs, StreamBegins, RefusalRead, enter, DrainEnds
  <1>4. CASE StreamSteps
    BY <1>1, <1>3, <1>4 DEF StreamSteps, StreamActs
  <1> QED
    BY <1>2, <1>4

\* Steps beside the reload move none of its accounts.
Beside == HostCloses \/ HostClosesServers \/ Calling \/ Streaming \/ UNCHANGED vars

LEMMA BesideKeeps ==
    ASSUME HostInv, Beside
    PROVE  /\ UNCHANGED <<doc, models, published, facts, reload, answer, reloads, stumbled>>
           /\ UNCHANGED <<applied, bind, refusals, sweeping>>
           /\ CurrentVersion' = CurrentVersion /\ Len(held') = Len(held)
  <1>1. CASE HostCloses \/ UNCHANGED vars
    BY <1>1 DEF HostCloses, vars, host, servers, lease, CurrentVersion, current
  <1>2. CASE HostClosesServers
    BY <1>2 DEF HostClosesServers, CloseServers, host, lease, CurrentVersion, current
  <1>3. CASE Calling
    <2>1. UNCHANGED <<applied, bind, refusals>>
      BY <1>3, CallingKeeps DEF HostInv
    <2> QED
      BY <1>3, <2>1 DEF Calling, host, lease, CurrentVersion, current
  <1>4. CASE Streaming
    BY <1>4, VersionStays DEF Streaming, HostInv, host, servers
  <1> QED
    BY <1>1, <1>2, <1>3, <1>4 DEF Beside

LEMMA EffectiveKept ==
    ASSUME published' = published
    PROVE  Effective' = Effective
  BY DEF Effective, generation

LEMMA VersionKept ==
    ASSUME held' = held
    PROVE  CurrentVersion' = CurrentVersion
  BY DEF CurrentVersion, current

-----------------------------------------------------------------------------
(* Each part of it, step by step.                                          *)

LEMMA FollowInitial == Init => FollowInv
  <1> SUFFICES ASSUME Init PROVE FollowInv
    OBVIOUS
  <1>1. /\ published = <<Boot>> /\ Boot \in Docs /\ doc = Boot /\ models = Boot
        /\ reload.pc = "binding" /\ reload.next = Boot /\ answer = "none"
        /\ reloads = 0 /\ facts = {} /\ up = TRUE /\ stumbled = FALSE
    BY DocsAssumption DEF Init, Resting
  <1>2. published \in Seq(Docs) /\ Len(published) = 1
    BY <1>1
  <1>3. /\ sets = <<>> /\ listed = [n \in Names |-> 0] /\ shut = FALSE
        /\ applied = NoServers /\ bind = Idle /\ refusals = <<>>
    BY DEF Init, ServersInit
  <1>4. sweeping = FALSE /\ \A s \in Streams : streams[s].at = 0
    BY DEF Init, LeaseInit, Waiting
  <1>5. Len(held) = 1
    BY DEF Init, LeaseInit
  <1>6. DOMAIN sets = {} /\ refusals \in Seq(Names) /\ Len(refusals) = 0
    BY <1>3
  <1>7. ServerBounds /\ StreamBounds /\ HostBounds
    <2>1. ServerBounds
      <3>1. shut \in BOOLEAN /\ (\A e \in DOMAIN sets : sets[e].decl # Absent)
        BY <1>3, <1>6
      <3>2. refusals \in Seq(Names) /\ Len(refusals) <= MaxRefusals
        BY <1>6, RefusalsAssumption
      <3> QED
        BY <3>1, <3>2 DEF ServerBounds
    <2>2. StreamBounds
      BY <1>4, <1>5 DEF StreamBounds
    <2>3. HostBounds
      <3>1. up \in BOOLEAN /\ stumbled \in BOOLEAN /\ answer \in {"none", "ok", "error"}
        BY <1>1
      <3>2. reloads \in 0..MaxReloads /\ Len(published) >= 1 /\ Len(published) <= reloads + 1
        BY <1>1, <1>2, ReloadsAssumption
      <3>3. facts \subseteq [gen : 1..(MaxReloads + 1), from : Docs, to : Docs]
        BY <1>1
      <3>4. reload.pc # "judged" /\ published \in Seq(Docs)
        BY <1>1, <1>2
      <3> QED
        BY <3>1, <3>2, <3>3, <3>4 DEF HostBounds
    <2> QED
      BY <2>1, <2>2, <2>3
  <1>8. ListedApplied
    BY <1>3 DEF ListedApplied, NoServers, Declared
  <1>9. BindFollows
    BY <1>3 DEF BindFollows, Idle
  <1>10. AccountsFollow
    BY <1>1 DEF AccountsFollow, Published, Installed, Answered
  <1>11. ModelFollows
    BY <1>1, <1>4 DEF ModelFollows, Answered
  <1> QED
    BY <1>7, <1>8, <1>9, <1>10, <1>11 DEF FollowInv

LEMMA BindKeeps ==
    ASSUME HostInv, FollowInv, [Next]_vars
    PROVE  BindFollows'
  <1>0. /\ ServerInv /\ ListedApplied /\ BindFollows
        /\ reload.pc \in Places /\ DOMAIN reload = {"pc", "next", "from", "to"}
    BY DEF HostInv, FollowInv, ReloadInv, Places
  <1>1. CASE UNCHANGED <<bind, applied>> /\ (bind.pc # "idle" => reload' = reload)
    BY <1>0, <1>1 DEF BindFollows
  <1>2. CASE Beside
    BY <1>1, <1>2, BesideKeeps
  <1>3. CASE ReloadBindStep
    BY <1>0, <1>3, BinderMoves DEF BindFollows
  <1>4. CASE ReloadBinds
    BY <1>4 DEF ReloadBinds, BindBegins, BindFollows, host
  <1>5. CASE ReloadBindFails \/ ReloadInstalls
    BY <1>5 DEF ReloadBindFails, ReloadInstalls, BindDone, Idle, BindFollows
  <1>6. CASE \/ PublishRefuses \/ PublishApplies \/ PublishKeeps \/ ReloadFiles \/ ReloadModels
             \/ ReloadSweeps \/ ReloadAnswers \/ \E next \in Docs : ReloadBegins(next)
    <2>1. UNCHANGED <<bind, applied>>
      BY <1>6 DEF PublishRefuses, PublishApplies, PublishKeeps, ReloadFiles, ReloadModels,
                  ReloadSweeps, ReloadAnswers, ReloadBegins, servers
    <2>2. bind.pc # "idle" => reload' = reload
      BY <1>0, <1>6 DEF PublishRefuses, PublishApplies, PublishKeeps, ReloadFiles,
                        ReloadModels, ReloadSweeps, ReloadAnswers, ReloadBegins, host,
                        BindFollows
    <2> QED
      BY <1>1, <2>1, <2>2
  <1> QED
    BY <1>2, <1>3, <1>4, <1>5, <1>6 DEF Next, Reload, Beside

LEMMA AccountsKeep ==
    ASSUME HostInv, FollowInv, [Next]_vars
    PROVE  AccountsFollow'
  <1> USE DEF Published, Installed
  <1>0. /\ ServerInv /\ ListedApplied /\ BindFollows /\ AccountsFollow
        /\ reload.pc \in Places /\ reload.next \in Docs
        /\ \A pc : [reload EXCEPT !.pc = pc].pc = pc /\ [reload EXCEPT !.pc = pc].next = reload.next
        /\ published \in Seq(Docs)
    BY DEF HostInv, FollowInv, ReloadInv, Places, HostBounds
  <1>1. CASE Beside
    BY <1>0, <1>1, BesideKeeps, EffectiveKept DEF AccountsFollow, Answered
  <1>2. ASSUME NEW next \in Docs, ReloadBegins(next)
        PROVE  AccountsFollow'
    <2>1. models' = models /\ doc' = doc /\ reload.pc = "idle"
      BY <1>2 DEF ReloadBegins
    <2>2. \/ reload'.pc = "judged" /\ answer' = "none"
          \/ reload' = reload /\ answer' = "error"
      <3>1. CASE answer' = "error" /\ UNCHANGED reload
        BY <3>1
      <3>2. CASE answer' = "none" /\ reload'.pc = "judged"
        BY <3>2
      <3> QED
        BY <1>2, <3>1, <3>2 DEF ReloadBegins
    <2> QED
      BY <1>0, <2>1, <2>2 DEF AccountsFollow, Answered
  <1>3. CASE PublishRefuses \/ ReloadBindFails
    <2>1. models' = models /\ doc' = doc /\ reload'.pc = "idle" /\ answer' = "error"
      BY <1>0, <1>3 DEF PublishRefuses, ReloadBindFails, Answer
    <2> QED
      BY <1>0, <2>1 DEF AccountsFollow, Answered
  <1>4. CASE PublishApplies
    <2>1. published' = Append(published, reload.next)
      BY <1>4 DEF PublishApplies
    <2>2. Effective' = reload.next
      BY <1>0, <2>1, AppendProperties DEF Effective, generation
    <2>3. /\ models' = models /\ doc' = doc
          /\ reload'.next = reload.next
          /\ \/ reload'.pc = "applied" /\ answer' = answer
             \/ reload'.pc = "idle" /\ answer' = "error"
          /\ reload.pc = "judged"
      BY <1>0, <1>4 DEF PublishApplies, Answer
    <2> QED
      BY <1>0, <2>2, <2>3 DEF AccountsFollow, Answered
  <1>5. CASE PublishKeeps
    <2>1. /\ models' = models /\ doc' = doc /\ published' = published /\ answer' = answer
          /\ reload'.pc = "kept" /\ reload'.next = reload.next /\ reload.pc = "judged"
          /\ reload.next = Effective
      BY <1>0, <1>5 DEF PublishKeeps
    <2> QED
      BY <1>0, <2>1, EffectiveKept DEF AccountsFollow, Answered
  <1>6. CASE ReloadBinds \/ ReloadSweeps
    <2>1. /\ models' = models /\ doc' = doc /\ published' = published /\ answer' = answer
          /\ reload' = reload /\ applied' = applied
      BY <1>6 DEF ReloadBinds, BindBegins, ReloadSweeps, host, servers
    <2> QED
      BY <1>0, <2>1, EffectiveKept DEF AccountsFollow, Answered
  <1>7. CASE ReloadBindStep
    <2>1. reload.pc \in {"applied", "kept", "binding"}
      BY <1>0, <1>7, BinderMoves DEF BindFollows
    <2>2. UNCHANGED <<doc, models, published, reload, answer>>
      BY <1>7 DEF ReloadBindStep
    <2> QED
      BY <1>0, <2>1, <2>2, EffectiveKept DEF AccountsFollow, Answered
  <1>8. CASE ReloadInstalls
    <2>1. /\ reload.pc \in {"applied", "kept", "binding"} /\ applied = reload.next.servers
          /\ published' = published /\ applied' = applied
      BY <1>0, <1>8 DEF ReloadInstalls, BindDone, BindFollows
    <2>2. CASE reload.pc = "binding"
      <3>1. models' = models /\ doc' = doc /\ reload'.pc = "idle" /\ answer' = "none"
        BY <1>0, <1>8, <2>2 DEF ReloadInstalls, Answer
      <3> QED
        BY <1>0, <3>1 DEF AccountsFollow, Answered
    <2>3. CASE reload.pc # "binding"
      <3>1. /\ models' = reload.next /\ doc' = reload.next /\ answer' = answer
            /\ reload'.pc \in {"filing", "modelling"} /\ reload'.next = reload.next
        BY <1>0, <1>8, <2>3 DEF ReloadInstalls
      <3> QED
        BY <1>0, <2>1, <2>3, <3>1, EffectiveKept DEF AccountsFollow, Answered
    <2> QED
      BY <2>2, <2>3
  <1>9. CASE ReloadFiles \/ ReloadModels
    <2>1. /\ models' = models /\ doc' = doc /\ published' = published /\ answer' = answer
          /\ applied' = applied /\ reload'.next = reload.next
          /\ reload.pc \in {"filing", "modelling"} /\ reload'.pc \in {"modelling", "closing"}
      BY <1>0, <1>9 DEF ReloadFiles, ReloadModels, servers
    <2> QED
      BY <1>0, <2>1, EffectiveKept DEF AccountsFollow, Answered
  <1>10. CASE ReloadAnswers
    <2>1. /\ models' = models /\ doc' = doc /\ published' = published
          /\ applied' = applied /\ reload.pc = "closing" /\ reload'.pc = "idle"
      BY <1>0, <1>10 DEF ReloadAnswers, Answer, servers
    <2> QED
      BY <1>0, <2>1, EffectiveKept DEF AccountsFollow, Answered
  <1> QED
    BY <1>1, <1>2, <1>3, <1>4, <1>5, <1>6, <1>7, <1>8, <1>9, <1>10 DEF Next, Reload, Beside

LEMMA ModelKeeps ==
    ASSUME HostInv, FollowInv, [Next]_vars
    PROVE  ModelFollows'
  <1>0. /\ LeaseInv /\ ServerInv /\ ListedApplied /\ BindFollows /\ AccountsFollow /\ ModelFollows
        /\ reload.pc \in Places /\ reload.next \in Docs /\ reload.next.version \in Versions
        /\ sweeping \in BOOLEAN /\ stumbled \in BOOLEAN
        /\ \A pc : /\ [reload EXCEPT !.pc = pc].pc = pc
                   /\ [reload EXCEPT !.pc = pc].next = reload.next
                   /\ [reload EXCEPT !.pc = pc].to = reload.to
    BY DocTypes DEF HostInv, FollowInv, ReloadInv, Places, HostBounds, LeaseInv
  <1>1. CASE Beside
    BY <1>0, <1>1, BesideKeeps DEF ModelFollows, Answered
  <1>2. ASSUME NEW next \in Docs, ReloadBegins(next)
        PROVE  ModelFollows'
    <2>1. /\ reload.pc = "idle" /\ sweeping' = sweeping /\ CurrentVersion' = CurrentVersion
          /\ \/ /\ reload'.pc = "judged" /\ reload'.next = next
                /\ reload'.to = IF next.version = CurrentVersion THEN Unserved
                                ELSE next.version
             \/ reload' = reload /\ answer' = "error"
      BY <1>2, VersionKept DEF ReloadBegins, lease
    <2> QED
      BY <1>0, <2>1 DEF ModelFollows, Answered
  <1>3. CASE PublishRefuses \/ PublishApplies \/ PublishKeeps \/ ReloadBinds \/ ReloadBindFails
    <2>1. /\ UNCHANGED <<held, sweeping>>
          /\ reload.pc \in {"judged", "applied", "kept", "binding"} \/ bind.pc # "idle"
          /\ \/ reload' = reload
             \/ reload'.pc = "idle" /\ answer' = "error"
             \/ reload'.pc \in {"applied", "kept"} /\ reload.pc = "judged"
                   /\ reload'.next = reload.next /\ reload'.to = reload.to
      <3>1. CASE PublishRefuses \/ ReloadBindFails
        BY <1>0, <3>1 DEF PublishRefuses, ReloadBindFails, Answer, lease
      <3>2. CASE PublishApplies
        <4>1. reload' = [reload EXCEPT !.pc = "applied"] \/ Answer("error")
          BY <3>2 DEF PublishApplies
        <4>2. UNCHANGED <<held, sweeping>> /\ reload.pc = "judged"
          BY <3>2 DEF PublishApplies, lease
        <4>3. CASE Answer("error")
          BY <1>0, <4>2, <4>3 DEF Answer
        <4>4. CASE reload' = [reload EXCEPT !.pc = "applied"]
          BY <1>0, <4>2, <4>4
        <4> QED
          BY <4>1, <4>3, <4>4
      <3>3. CASE PublishKeeps
        BY <1>0, <3>3 DEF PublishKeeps, lease
      <3>4. CASE ReloadBinds
        BY <1>0, <3>4 DEF ReloadBinds, lease, host
      <3> QED
        BY <1>3, <3>1, <3>2, <3>3, <3>4
    <2>2. CurrentVersion' = CurrentVersion
      BY <2>1, VersionKept
    <2>3. reload.pc \in {"judged", "applied", "kept", "binding"}
      BY <1>0, <2>1 DEF BindFollows
    <2> QED
      BY <1>0, <2>1, <2>2, <2>3 DEF ModelFollows, Answered
  <1>4. CASE ReloadBindStep
    <2>1. /\ reload.pc \in {"applied", "kept", "binding"} /\ UNCHANGED <<held, sweeping, reload>>
      BY <1>0, <1>4, BinderMoves DEF BindFollows, lease
    <2> QED
      BY <1>0, <2>1, VersionKept DEF ModelFollows, Answered
  <1>5. CASE ReloadInstalls
    <2>1. /\ reload.pc \in {"applied", "kept", "binding"} /\ UNCHANGED <<held, sweeping>>
          /\ \/ reload'.pc = "idle" /\ answer' = "none"
             \/ /\ reload.pc \in {"applied", "kept"} /\ reload'.pc \in {"filing", "modelling"}
                /\ reload'.next = reload.next /\ reload'.to = reload.to
      <3>1. reload.pc \in {"applied", "kept", "binding"} /\ UNCHANGED <<held, sweeping>>
        BY <1>0, <1>5 DEF ReloadInstalls, BindFollows, lease
      <3>2. CASE reload.pc = "binding"
        BY <1>0, <1>5, <3>1, <3>2 DEF ReloadInstalls, Answer
      <3>3. CASE reload.pc # "binding"
        <4>1. \/ reload' = [reload EXCEPT !.pc = "filing"]
              \/ reload' = [reload EXCEPT !.pc = "modelling"]
          BY <1>5, <3>3 DEF ReloadInstalls
        <4>2. reload'.pc \in {"filing", "modelling"}
          BY <1>0, <4>1
        <4>3. reload'.next = reload.next /\ reload'.to = reload.to
          BY <1>0, <4>1
        <4> QED
          BY <3>1, <3>3, <4>2, <4>3
      <3> QED
        BY <3>2, <3>3
    <2> QED
      BY <1>0, <2>1, VersionKept DEF ModelFollows, Answered
  <1>6. CASE ReloadFiles
    <2>1. /\ reload.pc = "filing" /\ UNCHANGED <<held, sweeping>> /\ reload'.pc = "modelling"
          /\ reload'.next = reload.next /\ reload'.to = reload.to
      BY <1>0, <1>6 DEF ReloadFiles, lease
    <2> QED
      BY <1>0, <2>1, VersionKept DEF ModelFollows, Answered
  <1>7. CASE ReloadModels
    <2>1. reload.pc = "modelling" /\ reload'.pc = "closing" /\ doc' = doc /\ doc = reload.next
      BY <1>0, <1>7 DEF ReloadModels, AccountsFollow, Installed
    <2>2. CASE reload.to = Unserved /\ UNCHANGED <<lease, stumbled>>
      <3>1. CurrentVersion' = CurrentVersion
        BY <2>2, VersionKept DEF lease
      <3>2. CurrentVersion = reload.next.version
        BY <1>0, <2>1, <2>2, UnservedAssumption DEF ModelFollows
      <3> QED
        BY <2>1, <3>1, <3>2 DEF ModelFollows, Answered
    <2>3. CASE reload.to # Unserved /\ Install(reload.to) /\ UNCHANGED stumbled
      <3>1. held \in Seq(Leases) /\ held' = Append(held, NewVersion(reload.to))
        BY <1>0, <2>3 DEF Install, LeaseInv
      <3>2. CurrentVersion' = NewVersion(reload.to).version
        <4>1. /\ NewVersion(reload.to) \in Leases
          BY <1>0, <2>3, <2>1 DEF ModelFollows, NewVersion, Leases
        <4> QED
          BY <3>1, <4>1, AppendProperties DEF CurrentVersion, current
      <3>3. CurrentVersion' = reload.next.version
        BY <1>0, <2>1, <2>3, <3>2 DEF ModelFollows, NewVersion
      <3> QED
        BY <2>1, <3>3 DEF ModelFollows, Answered
    <2>4. CASE stumbled' = TRUE
      BY <2>1, <2>4 DEF ModelFollows, Answered
    <2> QED
      BY <1>7, <2>2, <2>3, <2>4 DEF ReloadModels
  <1>8. CASE ReloadSweeps
    <2>1. /\ UNCHANGED <<reload, stumbled, answer, doc>> /\ CurrentVersion' = CurrentVersion
          /\ (sweeping' => sweeping)
      BY <1>0, <1>8, VersionStays DEF ReloadSweeps, host
    <2> QED
      BY <1>0, <2>1 DEF ModelFollows, Answered
  <1>9. CASE ReloadAnswers
    <2>1. /\ reload.pc = "closing" /\ ~sweeping /\ UNCHANGED <<held, sweeping, stumbled, doc>>
          /\ reload'.pc = "idle"
      BY <1>0, <1>9 DEF ReloadAnswers, Answer, lease
    <2> QED
      BY <1>0, <2>1, VersionKept DEF ModelFollows, Answered
  <1> QED
    BY <1>1, <1>2, <1>3, <1>4, <1>5, <1>6, <1>7, <1>8, <1>9 DEF Next, Reload, Beside

LEMMA ServersKeep ==
    ASSUME HostInv, FollowInv, [Next]_vars
    PROVE  ServerBounds'
  <1>0. /\ ServerInv /\ ListedApplied /\ ServerBounds
        /\ sets \in Seq(Entries) /\ DOMAIN sets = 1 .. Len(sets) /\ Len(sets) \in Nat
        /\ \A e \in DOMAIN sets : sets[e] \in Entries
    BY DEF HostInv, FollowInv, ServerInv
  <1>1. CASE UNCHANGED <<sets, shut, refusals>>
    BY <1>0, <1>1 DEF ServerBounds
  <1>2. CASE Calling
    BY <1>0, <1>2, CallingKeeps DEF ServerBounds
  <1>3. CASE HostClosesServers
    <2>1. shut' = TRUE /\ refusals' = refusals /\ DOMAIN sets' = DOMAIN sets
      BY <1>3 DEF HostClosesServers, CloseServers
    <2>2. \A e \in DOMAIN sets : sets'[e].decl = sets[e].decl
      BY <1>0, <1>3 DEF HostClosesServers, CloseServers, Unlisted, Entries
    <2> QED
      BY <1>0, <2>1, <2>2 DEF ServerBounds
  <1>4. CASE BindEnds
    BY <1>1, <1>4 DEF BindEnds
  <1>5. CASE BindAdds
    <2>1. shut' = shut /\ refusals' = refusals
      BY <1>0, <1>5, AddFollows
    <2>2. ASSUME NEW d \in Decls,
                 sets' = Append(sets, [decl |-> d, refs |-> 0, unlisted |-> FALSE, closed |-> 0])
          PROVE  \A e \in DOMAIN sets' : sets'[e].decl # Absent
      <3>1. [decl |-> d, refs |-> 0, unlisted |-> FALSE, closed |-> 0] \in Entries
        BY DEF Entries
      <3>2. /\ DOMAIN sets' = 1 .. (Len(sets) + 1)
            /\ \A e \in DOMAIN sets : sets'[e] = sets[e]
            /\ sets'[Len(sets) + 1].decl = d
        BY <1>0, <2>2, <3>1, AppendProperties
      <3>3. d # Absent
        BY AbsentAssumption
      <3> QED
        BY <1>0, <3>2, <3>3 DEF ServerBounds
    <2> QED
      BY <1>0, <1>1, <1>5, <2>1, <2>2, AddFollows DEF ServerBounds
  <1>6. CASE BindRemoves
    <2>1. PICK n \in Names : Remove(n)
      BY <1>6, FirstMoved DEF BindRemoves, Undeclared, Moved
    <2>2. refusals' \in Seq(Names) /\ Len(refusals') <= MaxRefusals
      <3>1. refusals' = refusals \/ CloseRefused(n)
        BY <1>0, <2>1, RemoveFollows
      <3> QED
        BY <1>0, <3>1, AppendProperties, RefusalsAssumption DEF CloseRefused, ServerBounds
    <2> QED
      BY <1>0, <2>1, <2>2, RemoveFollows DEF ServerBounds
  <1>7. \/ UNCHANGED <<sets, shut, refusals>> \/ Calling \/ HostClosesServers
        \/ BindEnds \/ BindAdds \/ BindRemoves
    BY DEF Next, vars, Reload, ReloadBegins, PublishRefuses, PublishApplies, PublishKeeps,
           ReloadBinds, BindBegins, ReloadBindStep, Bind, ReloadBindFails, ReloadInstalls,
           BindDone, ReloadFiles, ReloadModels, ReloadSweeps, ReloadAnswers, HostCloses,
           Streaming, servers
  <1> QED
    BY <1>1, <1>2, <1>3, <1>4, <1>5, <1>6, <1>7

LEMMA StreamsKeep ==
    ASSUME HostInv, FollowInv, [Next]_vars
    PROVE  StreamBounds'
  <1>0. /\ LeaseInv /\ StreamBounds /\ held \in Seq(Leases) /\ Len(held) \in Nat
        /\ streams \in [Streams -> [pc : StreamPlaces, at : Nat]]
    BY DEF HostInv, FollowInv, LeaseInv
  <1>1. CASE UNCHANGED <<held, streams>>
    BY <1>0, <1>1 DEF StreamBounds
  <1>2. CASE Streaming
    <2>1. Len(held') = Len(held)
      BY <1>0, <1>2, VersionStays DEF Streaming
    <2>2. PICK s \in Streams : StreamActs(s)
      BY <1>2 DEF Streaming, StreamSteps, StreamActs
    <2>3. \A z \in Streams : streams'[z].at \in {streams[z].at, 0, Len(held)}
      <3>1. CASE StreamBegins(s) \/ RefusalRead(s) \/ DrainEnds(s)
        <4>1. PICK at \in {0, Len(held)} : \E pc :
                 streams' = [streams EXCEPT ![s] = [pc |-> pc, at |-> at]]
          BY <3>1 DEF StreamBegins, RefusalRead, DrainEnds, Waiting, current
        <4>2. PICK pc : streams' = [streams EXCEPT ![s] = [pc |-> pc, at |-> at]]
          BY <4>1
        <4>3. \A z \in Streams : streams'[z].at \in {streams[z].at, at}
          BY <1>0, <4>2
        <4> QED
          BY <4>3
      <3>2. CASE StreamEnds(s)
        BY <1>0, <3>2 DEF StreamEnds, Waiting
      <3>3. CASE enter(s) \/ StopsEarly(s)
        <4>1. PICK pc : streams' = [streams EXCEPT ![s].pc = pc]
          BY <3>3 DEF enter, StopsEarly
        <4>2. \A z \in Streams : streams'[z].at = streams[z].at
          BY <1>0, <4>1
        <4> QED
          BY <4>2
      <3> QED
        BY <2>2, <3>1, <3>2, <3>3 DEF StreamActs
    <2> QED
      BY <1>0, <2>1, <2>3 DEF StreamBounds
  <1>3. CASE ReloadSweeps
    <2>1. Len(held') = Len(held) /\ streams' = streams
      BY <1>0, <1>3, VersionStays DEF ReloadSweeps, SweepVersions
    <2> QED
      BY <1>0, <2>1 DEF StreamBounds
  <1>4. ASSUME Install(reload.to)
        PROVE  StreamBounds'
    <2>1. streams' = streams /\ Len(held') = Len(held) + 1
      BY <1>0, <1>4 DEF Install
    <2> QED
      BY <1>0, <2>1 DEF StreamBounds
  <1>5. UNCHANGED <<held, streams>> \/ Streaming \/ ReloadSweeps \/ Install(reload.to)
    BY DEF Next, vars, Reload, ReloadBegins, PublishRefuses, PublishApplies, PublishKeeps,
           ReloadBinds, ReloadBindStep, ReloadBindFails, ReloadInstalls, ReloadFiles,
           ReloadModels, ReloadAnswers, HostCloses, HostClosesServers, Calling, lease
  <1> QED
    BY <1>1, <1>2, <1>3, <1>4, <1>5

LEMMA HostKeeps ==
    ASSUME HostInv, FollowInv, [Next]_vars
    PROVE  HostBounds'
  <1>0. /\ ServerInv /\ ListedApplied /\ BindFollows /\ HostBounds
        /\ reload.pc \in Places /\ reload.next \in Docs /\ reload.from \in Docs
        /\ \A pc : [reload EXCEPT !.pc = pc].pc = pc
        /\ published \in Seq(Docs) /\ Len(published) \in Nat /\ reloads \in Nat
        /\ MaxReloads \in Nat
    BY ReloadsAssumption DEF HostInv, FollowInv, ReloadInv, Places, HostBounds
  <1>1. ASSUME /\ up' \in BOOLEAN /\ stumbled' \in BOOLEAN
               /\ answer' \in {"none", "ok", "error"}
               /\ reloads' = reloads /\ published' = published /\ facts' = facts
               /\ reload'.pc # "judged" \/ reload.pc = "judged"
        PROVE  HostBounds'
    BY <1>0, <1>1 DEF HostBounds
  <1>2. CASE Beside
    <2>1. up' \in BOOLEAN
      BY <1>0, <1>2 DEF Beside, HostCloses, HostClosesServers, Calling, Streaming, vars, host,
                        HostBounds
    <2> QED
      BY <1>0, <1>1, <1>2, <2>1, BesideKeeps DEF HostBounds
  <1>3. ASSUME NEW next \in Docs, ReloadBegins(next)
        PROVE  HostBounds'
    <2>1. /\ up' = up /\ published' = published /\ facts' = facts /\ stumbled' = FALSE
          /\ reload.pc = "idle" /\ reloads < MaxReloads /\ reloads' = reloads + 1
          /\ answer' \in {"none", "error"}
      BY <1>3 DEF ReloadBegins
    <2>2. Len(published) <= reloads + 1 /\ reloads' \in 0..MaxReloads
      BY <1>0, <2>1 DEF HostBounds
    <2>3. /\ Len(published') <= reloads' /\ Len(published') <= reloads' + 1
          /\ Len(published') >= 1 /\ published' \in Seq(Docs)
      BY <1>0, <2>1, <2>2 DEF HostBounds
    <2>4. up' \in BOOLEAN /\ stumbled' \in BOOLEAN /\ answer' \in {"none", "ok", "error"}
          /\ facts' \subseteq [gen : 1..(MaxReloads + 1), from : Docs, to : Docs]
      BY <2>1 DEF HostBounds, FollowInv
    <2> QED
      BY <2>2, <2>3, <2>4 DEF HostBounds
  <1>4. CASE PublishApplies
    <2>1. /\ published' = Append(published, reload.next) /\ reload.pc = "judged"
          /\ UNCHANGED <<up, stumbled, reloads, facts>>
          /\ reload'.pc # "judged" /\ answer' \in {answer, "error"}
      BY <1>0, <1>4 DEF PublishApplies, Answer
    <2>2. published' \in Seq(Docs) /\ Len(published') = Len(published) + 1
      BY <1>0, <2>1, AppendProperties
    <2> QED
      BY <1>0, <2>1, <2>2 DEF HostBounds
  <1>5. CASE ReloadBindStep
    <2>1. /\ stumbled' \in BOOLEAN
          /\ UNCHANGED <<up, published, facts, reload, answer, reloads>>
      BY <1>0, <1>5, BinderMoves
    <2> QED
      BY <1>0, <1>1, <2>1 DEF HostBounds
  <1>6. CASE ReloadFiles
    <2>1. /\ UNCHANGED <<up, published, answer, reloads>>
          /\ reload.pc = "filing" /\ reload'.pc = "modelling"
          /\ stumbled' = stumbled \/ stumbled' = TRUE
          /\ \/ facts' = facts
             \/ facts' = facts \union {[gen |-> generation, from |-> reload.from,
                                        to |-> reload.next]}
      BY <1>0, <1>6 DEF ReloadFiles
    <2>2. generation \in 1..(MaxReloads + 1)
      BY <1>0, <2>1 DEF HostBounds, generation
    <2>3. [gen |-> generation, from |-> reload.from, to |-> reload.next] \in
             [gen : 1..(MaxReloads + 1), from : Docs, to : Docs]
      BY <1>0, <2>2
    <2>4. facts' \subseteq [gen : 1..(MaxReloads + 1), from : Docs, to : Docs]
      BY <1>0, <2>1, <2>3 DEF HostBounds
    <2> QED
      BY <1>0, <2>1, <2>4 DEF HostBounds
  <1>7. CASE \/ PublishRefuses \/ PublishKeeps \/ ReloadBinds \/ ReloadBindFails
             \/ ReloadInstalls \/ ReloadModels \/ ReloadSweeps \/ ReloadAnswers
    <2>1. /\ UNCHANGED <<up, published, facts, reloads>>
          /\ answer' \in {answer, "none", "ok", "error"}
          /\ stumbled' = stumbled \/ stumbled' = TRUE
      BY <1>0, <1>7 DEF PublishRefuses, PublishKeeps, ReloadBinds, BindBegins, ReloadBindFails,
                        ReloadInstalls, ReloadModels, ReloadSweeps, ReloadAnswers, Answer, host
    <2>2. reload'.pc # "judged" \/ reload' = reload
      BY <1>0, <1>7 DEF PublishRefuses, PublishKeeps, ReloadBinds, BindBegins, ReloadBindFails,
                        ReloadInstalls, ReloadModels, ReloadSweeps, ReloadAnswers, Answer, host
    <2> QED
      BY <1>0, <1>1, <2>1, <2>2 DEF HostBounds
  <1> QED
    BY <1>2, <1>3, <1>4, <1>5, <1>6, <1>7 DEF Next, Reload, Beside

LEMMA FollowStep == HostInv /\ FollowInv /\ [Next]_vars => FollowInv'
  <1> SUFFICES ASSUME HostInv, FollowInv, [Next]_vars PROVE FollowInv'
    OBVIOUS
  <1>1. ListedApplied'
    BY ListedFollows DEF HostInv, FollowInv
  <1> QED
    BY <1>1, ServersKeep, StreamsKeep, HostKeeps, BindKeeps, AccountsKeep, ModelKeeps
       DEF FollowInv

-----------------------------------------------------------------------------
(* The theorems.                                                           *)

LEMMA ServersTyped == HostInv /\ FollowInv => ServersTypeOK
  <1> SUFFICES ASSUME HostInv, FollowInv PROVE ServersTypeOK
    OBVIOUS
  <1> DEFINE Typed == [decl : Decls, refs : 0..Cardinality(Calls), unlisted : BOOLEAN,
                       closed : 0..1]
  <1>0. /\ sets \in Seq(Entries) /\ Len(sets) \in Nat /\ DOMAIN sets = 1 .. Len(sets)
        /\ CallsCounted /\ Listing /\ ServerBounds /\ applied \in Declared
        /\ listed \in [Names -> Nat] /\ calls \in [Calls -> Nat] /\ bind \in Binds
        /\ \A k \in Calls : calls[k] # 0 => calls[k] \in DOMAIN sets
    BY DEF HostInv, FollowInv, ServerInv, ListedApplied
  <1>1. ASSUME NEW e \in DOMAIN sets PROVE sets[e] \in Typed
    <2>1. sets[e] \in Entries /\ sets[e].decl # Absent
      BY <1>0 DEF ServerBounds
    <2>2. sets[e].refs = Cardinality(OnEntry(e)) /\ sets[e].closed \in 0..1
      BY <1>0 DEF CallsCounted
    <2>3. Cardinality(OnEntry(e)) <= Cardinality(Calls) /\ Cardinality(Calls) \in Nat
          /\ Cardinality(OnEntry(e)) \in Nat
      BY CallsAssumption, FS_Subset, FS_CardinalityType, OnEntryFinite DEF OnEntry
    <2>4. sets[e].refs \in 0..Cardinality(Calls)
      BY <2>2, <2>3
    <2> QED
      BY <2>1, <2>2, <2>4 DEF Entries
  <1>2. sets \in Seq(Typed)
    <2> HIDE DEF Typed
    <2> QED
      BY <1>0, <1>1
  <1>3. \A n \in Names : listed[n] \in 0..Len(sets)
    BY <1>0 DEF Listing
  <1>4. \A k \in Calls : calls[k] \in 0..Len(sets)
    BY <1>0
  <1>5. listed \in [Names -> 0..Len(sets)] /\ calls \in [Calls -> 0..Len(sets)]
    BY <1>0, <1>3, <1>4
  <1> QED
    BY <1>0, <1>2, <1>5 DEF ServersTypeOK, ServerBounds, Binds

LEMMA LeaseTyped == HostInv /\ FollowInv => LeaseTypeOK
  <1> SUFFICES ASSUME HostInv, FollowInv PROVE LeaseTypeOK
    OBVIOUS
  <1> DEFINE Typed == [version : Versions, inFlight : 0..Cardinality(Streams), closed : 0..1]
  <1>0. /\ held \in Seq(Leases) /\ Len(held) \in Nat /\ DOMAIN held = 1 .. Len(held)
        /\ streams \in [Streams -> [pc : StreamPlaces, at : Nat]]
        /\ \A i \in DOMAIN held : held[i].closed <= 1
        /\ sweeping \in BOOLEAN /\ StreamsCounted /\ StreamBounds
    BY DEF HostInv, FollowInv, LeaseInv
  <1>1. ASSUME NEW i \in DOMAIN held PROVE held[i] \in Typed
    <2>1. held[i] \in Leases /\ held[i].closed <= 1
      BY <1>0
    <2>2. held[i].inFlight = Cardinality(OnStream(i))
      BY <1>0 DEF StreamsCounted
    <2>3. Cardinality(OnStream(i)) <= Cardinality(Streams) /\ Cardinality(Streams) \in Nat
          /\ Cardinality(OnStream(i)) \in Nat
      BY StreamsAssumption, FS_Subset, FS_CardinalityType, OnStreamFinite DEF OnStream
    <2>4. held[i].inFlight \in 0..Cardinality(Streams)
      BY <2>2, <2>3
    <2>5. held[i].closed \in 0..1
      BY <2>1 DEF Leases
    <2> QED
      BY <2>1, <2>4, <2>5 DEF Leases
  <1>2. held \in Seq(Typed)
    <2> HIDE DEF Typed
    <2> QED
      BY <1>0, <1>1
  <1>3. \A s \in Streams : streams[s] \in [pc : StreamPlaces, at : 0..Len(held)]
    BY <1>0 DEF StreamBounds
  <1>4. streams \in [Streams -> [pc : StreamPlaces, at : 0..Len(held)]]
    BY <1>0, <1>3
  <1> QED
    BY <1>0, <1>2, <1>4 DEF LeaseTypeOK, StreamPlaces

LEMMA FollowsHolds == FollowInv => AnswerFollowsDocument
  <1> SUFFICES ASSUME FollowInv, Answered PROVE
        /\ doc = Effective /\ models = doc
        /\ ~stumbled => CurrentVersion = doc.version
        /\ ~shut /\ refusals = <<>> =>
              \A n \in Names :
                  IF listed[n] = 0 THEN doc.servers[n] = Absent
                  ELSE sets[listed[n]].decl = doc.servers[n]
    BY DEF AnswerFollowsDocument, Answered
  <1>1. doc = Effective /\ models = doc /\ applied = doc.servers
    BY DEF FollowInv, AccountsFollow
  <1>2. ~stumbled => CurrentVersion = doc.version
    BY DEF FollowInv, ModelFollows
  <1>3. ~shut /\ refusals = <<>> =>
           \A n \in Names : IF listed[n] = 0 THEN applied[n] = Absent
                            ELSE sets[listed[n]].decl = applied[n]
    BY DEF FollowInv, ListedApplied
  <1> QED
    BY <1>1, <1>2, <1>3

LEMMA Follows == Spec => [](HostInv /\ FollowInv)
  BY HostInitial, HostStep, FollowInitial, FollowStep, PTL DEF Spec

\* Every variable of the host, the servers and the lease keeps its type and stays
\* within its bounds through any number of reloads (assembly/host_reload.go).
THEOREM TypeCorrect == Spec => []TypeOK
  <1>1. HostInv /\ FollowInv => TypeOK
    BY ServersTyped, LeaseTyped DEF HostInv, FollowInv, ReloadInv, HostBounds, AccountsFollow,
                                    TypeOK
  <1> QED
    BY <1>1, Follows, PTL

\* Where the last reload answered "ok", the document of the host and of its model
\* builder is the one of the generation in effect, the model in effect is its version
\* unless a step of that reload stumbled, and the listed servers are its servers while
\* they are not shut and no tool set ever refused to close, whatever earlier reloads
\* left half done (host_reload.go Reload, bind.go Bind).  Of a reload that answers an
\* error it says nothing: one that applied may answer its retirement's.
THEOREM AnswerCorrect == Spec => []AnswerFollowsDocument
  BY FollowsHolds, Follows, PTL
=============================================================================
