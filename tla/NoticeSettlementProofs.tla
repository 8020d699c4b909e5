----------------------- MODULE NoticeSettlementProofs -----------------------
(***************************************************************************)
(* Theorems about NoticeSettlement, for every set of notices and inputs    *)
(* and every bound.                                                        *)
(***************************************************************************)
EXTENDS NoticeSettlement, SequenceTheorems, WellFoundedInduction, TLAPS

-----------------------------------------------------------------------------
(* One settlement of a drive at a time.                                    *)

Settles(f) == settling[f].pc \notin {"idle", "done"}

\* A face that settles holds the marker of its barrier, and it alone does.
MarkerInv ==
    /\ DOMAIN settling = Faces
    /\ \A f \in Faces :
         settling[f] = [pc |-> settling[f].pc, n |-> settling[f].n,
                        bar |-> settling[f].bar, inv |-> settling[f].inv,
                        end |-> settling[f].end, ok |-> settling[f].ok]
    /\ \A f \in Faces : Settles(f) => settling[f].bar \in taken
    /\ \A f, g \in Faces :
         Settles(f) /\ Settles(g) /\ settling[f].bar = settling[g].bar => f = g

LEMMA MarkerInit == Init => MarkerInv
  BY DEF Init, MarkerInv, Settles, NoSettling, Faces

\* The face that begins takes a marker nobody holds.
LEMMA MarkerBegin ==
    ASSUME MarkerInv, NEW f \in Faces, NEW n, NEW bar, NEW inv, NEW end,
           ~MarkerTaken(bar), Begin(f, n, bar, inv, end)
    PROVE  MarkerInv'
  <1> DEFINE r == [pc |-> "attempt", n |-> n, bar |-> bar, inv |-> inv, end |-> end,
                   ok |-> FALSE]
  <1>1. /\ settling' = [settling EXCEPT ![f] = r]
        /\ taken' = taken \cup {bar} /\ bar \notin taken
    BY DEF Begin, MarkerTaken
  <1>2. r.pc = "attempt" /\ r.n = n /\ r.bar = bar /\ r.inv = inv /\ r.end = end /\ r.ok = FALSE
    OBVIOUS
  <1>3. r = [pc |-> r.pc, n |-> r.n, bar |-> r.bar, inv |-> r.inv, end |-> r.end, ok |-> r.ok]
    BY <1>2
  <1> HIDE DEF r
  <1> QED
    BY <1>1, <1>2, <1>3 DEF MarkerInv, Settles

\* A face that moves on and keeps its barrier disturbs nothing.
LEMMA MarkerKept ==
    ASSUME MarkerInv, NEW f \in Faces, Settles(f), NEW pc, FaceTo(f, pc),
           UNCHANGED taken
    PROVE  MarkerInv'
  BY DEF MarkerInv, Settles, FaceTo

\* The marker goes back only with the settlement that held it.
LEMMA MarkerReopened ==
    ASSUME MarkerInv, NEW f \in Faces, Settles(f), Reopened(f)
    PROVE  MarkerInv'
  BY DEF MarkerInv, Settles, Reopened

LEMMA MarkerStep == MarkerInv /\ [Next]_vars => MarkerInv'
  <1> SUFFICES ASSUME MarkerInv, [Next]_vars PROVE MarkerInv'
    OBVIOUS
  <1>u. ASSUME UNCHANGED <<taken, settling>> PROVE MarkerInv'
    BY <1>u DEF MarkerInv, Settles
  <1>1. ASSUME NEW n \in Notices, Accept(n) \/ Land(n) \/ PumpClaims(n) PROVE MarkerInv'
    BY <1>1, <1>u DEF Accept, Land, PumpClaims, host
  <1>2. ASSUME NEW u \in Inputs, Invoke(u) PROVE MarkerInv'
    BY <1>2, <1>u DEF Invoke, host
  <1>3. CASE PumpAnswered
    <2> "pump" \in Faces
      BY DEF Faces
    <2> QED
      BY <1>3, <1>u, MarkerBegin DEF PumpAnswered
  <1>4. CASE PumpSettled
    BY <1>4 DEF PumpSettled, MarkerInv, Settles, NoSettling, FaceAt, Faces
  <1>5. CASE \/ PumpWakes \/ PumpRests \/ PumpReads \/ PumpMarks \/ PumpMarkRefused
             \/ PumpCommits \/ PumpCommitRefused \/ PumpScopeRefused \/ PumpNames
    BY <1>5, <1>u DEF PumpWakes, PumpRests, PumpReads, PumpMarks, PumpMarkRefused,
         PumpCommits, PumpCommitRefused, PumpScopeRefused, PumpNames, host
  <1>6. CASE \/ PumpLeft \/ PumpHandsOff \/ PumpHandoffRefused \/ PumpSends
             \/ PumpConsumes \/ PumpConsumeRefused
    BY <1>6, <1>u DEF PumpLeft, PumpHandsOff, PumpHandoffRefused, PumpSends,
         PumpConsumes, PumpConsumeRefused, host
  <1>7. ASSUME NEW f \in Faces, FaceNext(f) PROVE MarkerInv'
    <2>1. CASE FaceRecords(f)
      BY <1>7, <2>1, MarkerKept, MarkerReopened DEF FaceRecords, FaceAt, Settles
    <2>2. CASE FaceRegisters(f)
      BY <1>7, <2>2, MarkerKept DEF FaceRegisters, FaceAt, Settles
    <2>3. CASE FaceRegisterRefused(f)
      BY <1>7, <2>3, MarkerReopened DEF FaceRegisterRefused, FaceAt, Settles
    <2>4. CASE FaceObserves(f)
      BY <1>7, <2>4, MarkerKept DEF FaceObserves, FaceAt, Settles
    <2>5. CASE FaceCloses(f)
      <3> DEFINE ok == TRUE
                 s == [settling EXCEPT ![f].pc = "done"]
                 r == [s[f] EXCEPT !.ok = ok]
      <3>1. settling' = [s EXCEPT ![f] = r] /\ UNCHANGED taken
        BY <1>7, <2>5 DEF FaceCloses
      <3>2. /\ DOMAIN s = Faces
            /\ \A g \in Faces : g # f => s[g] = settling[g]
            /\ s[f] = [pc |-> "done", n |-> settling[f].n, bar |-> settling[f].bar,
                      inv |-> settling[f].inv, end |-> settling[f].end,
                      ok |-> settling[f].ok]
        BY <1>7 DEF MarkerInv
      <3> HIDE DEF ok, s
      <3>3. r = [pc |-> "done", n |-> settling[f].n, bar |-> settling[f].bar,
                 inv |-> settling[f].inv, end |-> settling[f].end, ok |-> ok]
        BY <3>2
      <3> HIDE DEF r
      <3>4. r = [pc |-> r.pc, n |-> r.n, bar |-> r.bar, inv |-> r.inv, end |-> r.end,
                 ok |-> r.ok] /\ r.pc = "done"
        BY <3>3
      <3> QED
        BY <1>7, <3>1, <3>2, <3>4 DEF MarkerInv, Settles
    <2> QED
      BY <1>7, <2>1, <2>2, <2>3, <2>4, <2>5 DEF FaceNext
  <1>8. CASE SegmentSettles
    <2> "segment" \in Faces
      BY DEF Faces
    <2> QED
      BY <1>8, <1>u, MarkerBegin DEF SegmentSettles
  <1>9. CASE SegmentSettled
    BY <1>9 DEF SegmentSettled, MarkerInv, Settles, NoSettling, FaceAt, Faces
  <1>10. CASE \/ SegmentOpens \/ ConsumerParks \/ SegmentPulls \/ SegmentDecides
              \/ SegmentCommits \/ SegmentFails \/ SegmentTakes
    BY <1>10, <1>u DEF SegmentOpens, ConsumerParks, SegmentPulls, SegmentDecides,
         SegmentCommits, SegmentFails, SegmentTakes, host
  <1>11. CASE SegmentRegisters \/ SegmentSends \/ SegmentAbandoned
    BY <1>11, <1>u DEF SegmentRegisters, SegmentSends, SegmentAbandoned, host
  <1>12. CASE CloseBegins \/ ConsumersStop \/ PumpStops \/ Restart
    BY <1>12, <1>u DEF CloseBegins, ConsumersStop, PumpStops, Restart, host
  <1>13. CASE Halts \/ Crash
    BY <1>13 DEF Halts, Crash, LoseProcess, MarkerInv, Settles, NoSettling, Faces
  <1>14. CASE UNCHANGED vars
    BY <1>14, <1>u DEF vars, host
  <1> QED
    BY <1>1, <1>2, <1>3, <1>4, <1>5, <1>6, <1>7, <1>8, <1>9, <1>10, <1>11, <1>12,
       <1>13, <1>14 DEF Next, PumpNext, SegmentNext, StopNext

\* The pump and the segment never settle one drive at the same time: the marker
\* of a barrier is taken once and goes back only with its settlement
\* (host.go, claimSettlement and releaseSettlement).
THEOREM OneFace == Spec => []OneFaceSettles
  <1>1. MarkerInv => OneFaceSettles
    BY DEF MarkerInv, OneFaceSettles, Settles, Faces
  <1> QED
    BY <1>1, MarkerInit, MarkerStep, PTL DEF Spec

-----------------------------------------------------------------------------
(* One segment of a process for one notice.                                *)

ConShape(c) ==
    c = [mounted |-> c.mounted, wake |-> c.wake, seeded |-> c.seeded, read |-> c.read,
         taken |-> c.taken, named |-> c.named, segs |-> c.segs]

\* What a segment took is read and never named again, and counted once.
TakenInv ==
    /\ ConShape(con)
    /\ con.taken \subseteq con.read
    /\ con.named \cap con.taken = {}
    /\ \A n \in Notices : drove[n] = IF Material(n) \in con.taken THEN 1 ELSE 0

LEMMA TakenInit == Init => TakenInv
  BY DEF Init, TakenInv, ConShape, NoConsumer

LEMMA TakenLost == LoseProcess => TakenInv'
  BY DEF LoseProcess, TakenInv, ConShape, NoConsumer

\* Mounting, waking, marking as read and naming what no segment took.
LEMMA TakenKept ==
    ASSUME TakenInv, UNCHANGED drove, ConShape(con'), con'.taken = con.taken,
           con.read \subseteq con'.read, con'.named \cap con.taken = {}
    PROVE  TakenInv'
  BY DEF TakenInv

\* A pull takes nothing a segment of this process took before.
LEMMA PulledFresh == TakenInv => Pulled \cap con.taken = {}
  <1>1. con.read \subseteq SeedAnswered
    BY DEF SeedAnswered
  <1> QED
    BY <1>1 DEF TakenInv, Pulled

LEMMA TakenPull ==
    ASSUME TakenInv, CountDrove, ConShape(con'),
           con'.read = SeedAnswered \cup Pulled,
           con'.taken = con.taken \cup Pulled,
           con'.named = con.named \ Pulled
    PROVE  TakenInv'
  <1>1. con'.taken \subseteq con'.read
    BY DEF TakenInv, SeedAnswered
  <1>2. con'.named \cap con'.taken = {}
    BY DEF TakenInv
  <1>3. ASSUME NEW n \in Notices
        PROVE  drove'[n] = IF Material(n) \in con'.taken THEN 1 ELSE 0
    <2>1. drove'[n] = drove[n] + (IF Material(n) \in Pulled THEN 1 ELSE 0)
      BY DEF CountDrove
    <2> QED
      BY <2>1, PulledFresh DEF TakenInv
  <1> QED
    BY <1>1, <1>2, <1>3 DEF TakenInv

LEMMA TakenStep == TakenInv /\ [Next]_vars => TakenInv'
  <1> SUFFICES ASSUME TakenInv, [Next]_vars PROVE TakenInv'
    OBVIOUS
  <1>u. ASSUME UNCHANGED <<con, drove>> PROVE TakenInv'
    BY <1>u DEF TakenInv
  <1>1. ASSUME NEW n \in Notices, Accept(n) \/ Land(n) \/ PumpClaims(n) PROVE TakenInv'
    BY <1>1, <1>u DEF Accept, Land, PumpClaims, turns
  <1>2. ASSUME NEW u \in Inputs, Invoke(u) PROVE TakenInv'
    <2>1. con' = [con EXCEPT !.mounted = TRUE, !.wake = TRUE] /\ UNCHANGED drove
      BY <1>2 DEF Invoke
    <2> QED
      BY <2>1, TakenKept DEF TakenInv, ConShape
  <1>3. CASE PumpCommits
    <2>1. UNCHANGED drove
      BY <1>3 DEF PumpCommits
    <2>2. \/ con' = con
          \/ con' = [con EXCEPT !.mounted = TRUE, !.wake = chain # <<>>]
      BY <1>3 DEF PumpCommits
    <2> QED
      BY <2>1, <2>2, TakenKept DEF TakenInv, ConShape
  <1>4. CASE PumpNames
    <2> DEFINE key == Material(pump.n)
    <2>1. UNCHANGED drove
      BY <1>4 DEF PumpNames
    <2>2. \/ con' = con
          \/ con' = [con EXCEPT !.named = Named(key), !.wake = TRUE]
      BY <1>4 DEF PumpNames
    <2> HIDE DEF key
    <2> QED
      BY <2>1, <2>2, TakenKept DEF TakenInv, ConShape, Named
  <1>5. CASE \/ PumpWakes \/ PumpRests \/ PumpReads \/ PumpMarks \/ PumpMarkRefused
             \/ PumpCommitRefused \/ PumpScopeRefused \/ PumpAnswered
    BY <1>5, <1>u DEF PumpWakes, PumpRests, PumpReads, PumpMarks, PumpMarkRefused,
         PumpCommitRefused, PumpScopeRefused, PumpAnswered, turns
  <1>6. CASE \/ PumpLeft \/ PumpSettled \/ PumpHandsOff \/ PumpHandoffRefused
             \/ PumpSends \/ PumpConsumes \/ PumpConsumeRefused
    BY <1>6, <1>u DEF PumpLeft, PumpSettled, PumpHandsOff, PumpHandoffRefused,
         PumpSends, PumpConsumes, PumpConsumeRefused, turns
  <1>7. ASSUME NEW f \in Faces, FaceNext(f) PROVE TakenInv'
    <2>1. CASE FaceObserves(f)
      <3> DEFINE key == Observation(settling[f].inv)
      <3>1. UNCHANGED drove
        BY <2>1 DEF FaceObserves
      <3>2. \/ con' = con
            \/ con' = [con EXCEPT !.mounted = TRUE, !.wake = TRUE, !.named = Named(key)]
        BY <2>1 DEF FaceObserves
      <3> HIDE DEF key
      <3> QED
        BY <3>1, <3>2, TakenKept DEF TakenInv, ConShape, Named
    <2>2. CASE \/ FaceRecords(f) \/ FaceRegisters(f) \/ FaceRegisterRefused(f)
               \/ FaceCloses(f)
      BY <2>2, <1>u DEF FaceRecords, FaceRegisters, FaceRegisterRefused, FaceCloses, turns
    <2> QED
      BY <1>7, <2>1, <2>2 DEF FaceNext
  <1>8. CASE SegmentOpens
    <2>1. con' = [AfterPull EXCEPT !.segs = @ + 1] /\ CountDrove
      BY <1>8 DEF SegmentOpens
    <2> QED
      BY <2>1, TakenPull DEF TakenInv, ConShape, AfterPull
  <1>9. CASE SegmentPulls
    <2>1. con' = AfterPull /\ CountDrove
      BY <1>9 DEF SegmentPulls
    <2> QED
      BY <2>1, TakenPull DEF TakenInv, ConShape, AfterPull
  <1>10. CASE ConsumerParks
    <2>1. /\ con' = [con EXCEPT !.wake = FALSE, !.seeded = chain # <<>>,
                               !.read = SeedAnswered]
          /\ UNCHANGED drove
      BY <1>10 DEF ConsumerParks, turns
    <2>2. con.read \subseteq SeedAnswered
      BY DEF SeedAnswered
    <2> QED
      BY <2>1, <2>2, TakenKept DEF TakenInv, ConShape
  <1>11. CASE \/ SegmentDecides \/ SegmentCommits \/ SegmentFails \/ SegmentTakes
              \/ SegmentSettles \/ SegmentSettled
    BY <1>11, <1>u DEF SegmentDecides, SegmentCommits, SegmentFails, SegmentTakes,
         SegmentSettles, SegmentSettled, turns
  <1>12. CASE SegmentRegisters \/ SegmentSends \/ SegmentAbandoned
    BY <1>12, <1>u DEF SegmentRegisters, SegmentSends, SegmentAbandoned, turns
  <1>13. CASE CloseBegins \/ ConsumersStop \/ PumpStops \/ Restart
    BY <1>13, <1>u DEF CloseBegins, ConsumersStop, PumpStops, Restart, turns
  <1>14. CASE Halts \/ Crash
    BY <1>14, TakenLost DEF Halts, Crash
  <1>15. CASE UNCHANGED vars
    BY <1>15, <1>u DEF vars, turns
  <1> QED
    BY <1>1, <1>2, <1>3, <1>4, <1>5, <1>6, <1>7, <1>8, <1>9, <1>10, <1>11, <1>12,
       <1>13, <1>14, <1>15 DEF Next, PumpNext, SegmentNext, StopNext

\* However often the pump fires one seat, one segment of a process consumes the
\* notice: a pulled fact is not pulled again, by itself or by its name
\* (consumer.go, pullDriving and Drive).
THEOREM OneTurn == Spec => []OneTurnPerProcess
  <1>1. TakenInv => OneTurnPerProcess
    BY DEF TakenInv, OneTurnPerProcess
  <1> QED
    BY <1>1, TakenInit, TakenStep, PTL DEF Spec

-----------------------------------------------------------------------------
(* The types, and what they rest on.                                       *)

Ends == Terminals \cup {"none"}
PumpPlaces == {"idle", "drain", "seat", "mark", "fire", "drive", "wait", "settle",
               "handoff", "send", "consume"}

\* Positions of the chain are given out for good, a body that is sent was registered,
\* and what the pump owes is.
BodiesInv ==
    /\ \E facts : chain \in Seq(facts)
    /\ registered \subseteq Outputs /\ sent \subseteq registered
    /\ pump.owed \subseteq registered

\* A notice lands and is receipted after it was accepted; a seat is an accepted one's.
NoticesInv ==
    /\ accepted \subseteq Notices /\ landed \subseteq accepted /\ receipts \subseteq accepted
    /\ delivering \subseteq accepted \ landed
    /\ seat \in [Notices -> {"absent", "pending", "claimed", "consumed"}]
    /\ \A n \in Notices : seat[n] # "absent" => n \in accepted

\* A host that closes has a process left to restart in.
PhaseInv ==
    /\ phase \in {"up", "closing", "cut", "stopping", "down"}
    /\ boot \in 1 .. MaxBoots /\ upsets \in 0 .. MaxUpsets
    /\ phase # "up" => boot < MaxBoots

\* The pump drives a notice, and names it after it committed its material.
PumpInv ==
    /\ pump = [pc |-> pump.pc, n |-> pump.n, tried |-> pump.tried, owed |-> pump.owed]
    /\ pump.pc \in PumpPlaces
    /\ pump.n \in Notices \cup {Nil} /\ pump.tried \subseteq Notices
    /\ pump.pc \notin {"idle", "drain"} => pump.n \in Notices
    /\ pump.pc \in {"drive", "wait"} => drives > 0
    /\ pump.pc = "drive" => Material(pump.n) \in InputKeys

\* A barrier is the number of a drive of this process.
BarriersInv ==
    /\ drives \in Nat
    /\ account \in [Notices -> 0 .. drives] /\ taken \subseteq 1 .. drives
    /\ \A f \in Faces : /\ settling[f].n \in Notices \cup {Nil}
                        /\ settling[f].pc # "idle" => settling[f].n \in Notices
                        /\ settling[f].bar \in 0 .. drives
    /\ \A x \in flight.left : x.n \in Notices /\ x.bar \in 1 .. drives

\* A turn ends on a terminal, wherever its end is kept.
EndsInv ==
    /\ attempt \in [Notices -> Ends \cup {"inflight"}]
    /\ flight.end \in Ends
    /\ \A n \in Notices : answers[n].end \in Ends
    /\ \A f \in Faces : settling[f].end \in Ends

\* What a segment holds, and what is named to the next, stands on the chain.
SegmentInv ==
    /\ flight = [pc |-> flight.pc, ins |-> flight.ins, inv |-> flight.inv, end |-> flight.end,
                 err |-> flight.err, left |-> flight.left]
    /\ con.segs \in Nat /\ con.named \subseteq InputKeys
    /\ flight.ins \subseteq InputKeys /\ flight.inv \in 0 .. con.segs

\* With the markers and the segments above, inductive.
SettlementInv ==
    /\ BodiesInv /\ NoticesInv /\ PhaseInv /\ PumpInv /\ BarriersInv /\ EndsInv /\ SegmentInv

\* The largest element of a bounded set of numbers.
LEMMA MaxOf ==
    ASSUME NEW b \in Nat, NEW S \in SUBSET (1 .. b), S # {}
    PROVE  Max(S) \in S
  <1> DEFINE over == {n \in Nat : \A at \in S : at <= n}
             below == {p \in Nat \X Nat : p[1] < p[2]}
  <1>1. IsWellFoundedOn(below, Nat)
    BY NatLessThanWellFounded, Zenon DEF OpToRel
  <1>2. b \in over
    OBVIOUS
  <1>3. PICK n \in over : \A m \in over : <<m, n>> \notin below
    <2> HIDE DEF below
    <2> QED
      BY <1>1, <1>2, WFMin
  <1>4. ASSUME NEW m \in over PROVE n <= m
    <2>1. m \in Nat /\ n \in Nat
      OBVIOUS
    <2>2. m < n => <<m, n>> \in below
      BY <2>1
    <2> HIDE DEF below, over
    <2>3. ~(m < n)
      BY <1>3, <2>2
    <2> QED
      BY <2>1, <2>3
  <1>5. n \in S
    <2>1. CASE n = 0
      <3>1. PICK at \in S : TRUE
        OBVIOUS
      <3>2. at \in Nat /\ at >= 1 /\ at <= n
        BY <3>1
      <3> QED
        BY <2>1, <3>2
    <2>2. CASE n # 0 /\ n \notin S
      <3>1. n - 1 \in Nat /\ n \in Nat
        BY <2>2
      <3>2. \A at \in S : at \in Nat /\ at <= n /\ at # n
        BY <2>2
      <3>3. n - 1 \in over
        BY <3>1, <3>2
      <3> QED
        BY <1>4, <3>1, <3>3
    <2> QED
      BY <2>1, <2>2
  <1>6. \A at \in S : n >= at
    OBVIOUS
  <1> QED
    BY <1>5, <1>6 DEF Max

\* A position of the chain keeps its fact.
LEMMA ChainAppends ==
    ASSUME NEW S, chain \in Seq(S), NEW fact, chain' = Append(chain, fact)
    PROVE  /\ chain' \in Seq(S \cup {fact})
           /\ DOMAIN chain \subseteq DOMAIN chain'
           /\ \A p \in DOMAIN chain : chain'[p] = chain[p]
           /\ \E p \in DOMAIN chain' : chain'[p] = fact
  <1> DEFINE T == S \cup {fact}
  <1>1. chain \in Seq(T) /\ fact \in T
    OBVIOUS
  <1> HIDE DEF T
  <1>2. /\ Append(chain, fact) \in Seq(T)
        /\ Len(Append(chain, fact)) = Len(chain) + 1
        /\ \A i \in 1 .. Len(chain) : Append(chain, fact)[i] = chain[i]
        /\ Append(chain, fact)[Len(chain) + 1] = fact
    BY <1>1, AppendProperties
  <1>3. /\ Len(chain) \in Nat /\ DOMAIN chain = 1 .. Len(chain)
        /\ DOMAIN chain' = 1 .. (Len(chain) + 1)
    BY <1>1, <1>2, LenProperties
  <1>4. Len(chain) + 1 \in DOMAIN chain' /\ DOMAIN chain \subseteq DOMAIN chain'
    BY <1>3
  <1> QED
    BY <1>2, <1>3, <1>4 DEF T

Extended == chain' = chain \/ \E fact : chain' = Append(chain, fact)

LEMMA ChainExtended ==
    ASSUME BodiesInv, Extended
    PROVE  /\ \E facts : chain' \in Seq(facts)
           /\ Outputs \subseteq Outputs' /\ InputKeys \subseteq InputKeys'
  <1>1. PICK S : chain \in Seq(S)
    BY DEF BodiesInv
  <1>2. CASE chain' = chain
    BY <1>1, <1>2 DEF Outputs, InputKeys
  <1>3. ASSUME NEW fact, chain' = Append(chain, fact)
        PROVE  /\ \E facts : chain' \in Seq(facts)
               /\ Outputs \subseteq Outputs' /\ InputKeys \subseteq InputKeys'
    <2>1. /\ chain' \in Seq(S \cup {fact})
          /\ DOMAIN chain \subseteq DOMAIN chain'
          /\ \A p \in DOMAIN chain : chain'[p] = chain[p]
      BY <1>1, <1>3, ChainAppends
    <2>2. Outputs \subseteq Outputs'
      BY <2>1 DEF Outputs, IsOutput
    <2>3. InputKeys \subseteq InputKeys'
      BY <2>1 DEF InputKeys, IsOutput
    <2> QED
      BY <2>1, <2>2, <2>3
  <1> QED
    BY <1>2, <1>3 DEF Extended

\* What is committed stands on the chain under its key.
LEMMA CommitStands ==
    ASSUME BodiesInv, NEW key, chain' = Committed(key)
    PROVE  Extended /\ key \in InputKeys'
  <1>1. PICK S : chain \in Seq(S)
    BY DEF BodiesInv
  <1>2. CASE key \in InputKeys
    BY <1>2 DEF Committed, Extended, InputKeys
  <1>3. CASE key \notin InputKeys
    <2> DEFINE fact == InputFact(key)
    <2>1. fact.key = key /\ fact.end \notin Terminals
      BY DEF InputFact, Terminals
    <2> HIDE DEF fact
    <2>2. chain' = Append(chain, fact)
      BY <1>3 DEF Committed, fact
    <2>3. PICK p \in DOMAIN chain' : chain'[p] = fact
      BY <1>1, <2>2, ChainAppends
    <2>4. key \in InputKeys'
      BY <2>1, <2>3 DEF InputKeys, IsOutput
    <2> QED
      BY <2>2, <2>4 DEF Extended
  <1> QED
    BY <1>2, <1>3

\* Every step keeps the chain or extends it.
LEMMA ChainStep == BodiesInv /\ [Next]_vars => Extended
  <1> SUFFICES ASSUME BodiesInv, [Next]_vars PROVE Extended
    OBVIOUS
  <1>u. ASSUME UNCHANGED chain PROVE Extended
    BY <1>u DEF Extended
  <1>1. ASSUME NEW n \in Notices, Accept(n) \/ Land(n) \/ PumpClaims(n) PROVE Extended
    BY <1>1, <1>u DEF Accept, Land, PumpClaims, durable
  <1>2. ASSUME NEW u \in Inputs, Invoke(u) PROVE Extended
    BY <1>2, CommitStands DEF Invoke
  <1>3. CASE PumpCommits
    BY <1>3, CommitStands DEF PumpCommits
  <1>4. CASE \/ PumpWakes \/ PumpRests \/ PumpReads \/ PumpMarks \/ PumpMarkRefused
             \/ PumpCommitRefused \/ PumpScopeRefused \/ PumpNames \/ PumpAnswered
    BY <1>4, <1>u DEF PumpWakes, PumpRests, PumpReads, PumpMarks, PumpMarkRefused,
         PumpCommitRefused, PumpScopeRefused, PumpNames, PumpAnswered, durable
  <1>5. CASE \/ PumpLeft \/ PumpSettled \/ PumpHandsOff \/ PumpHandoffRefused
             \/ PumpSends \/ PumpConsumes \/ PumpConsumeRefused
    BY <1>5, <1>u DEF PumpLeft, PumpSettled, PumpHandsOff, PumpHandoffRefused,
         PumpSends, PumpConsumes, PumpConsumeRefused, durable
  <1>6. ASSUME NEW f \in Faces, FaceNext(f) PROVE Extended
    <2>1. CASE FaceObserves(f)
      BY <2>1, <1>u, CommitStands DEF FaceObserves
    <2>2. CASE \/ FaceRecords(f) \/ FaceRegisters(f) \/ FaceRegisterRefused(f)
               \/ FaceCloses(f)
      BY <2>2, <1>u DEF FaceRecords, FaceRegisters, FaceRegisterRefused, FaceCloses,
           durable
    <2> QED
      BY <1>6, <2>1, <2>2 DEF FaceNext
  <1>7. CASE SegmentCommits
    BY <1>7 DEF SegmentCommits, Extended
  <1>8. CASE \/ SegmentOpens \/ ConsumerParks \/ SegmentPulls \/ SegmentDecides
             \/ SegmentFails \/ SegmentTakes \/ SegmentSettles \/ SegmentSettled
    BY <1>8, <1>u DEF SegmentOpens, ConsumerParks, SegmentPulls, SegmentDecides,
         SegmentFails, SegmentTakes, SegmentSettles, SegmentSettled, durable
  <1>9. CASE SegmentRegisters \/ SegmentSends \/ SegmentAbandoned
    BY <1>9, <1>u DEF SegmentRegisters, SegmentSends, SegmentAbandoned, durable
  <1>10. CASE CloseBegins \/ StopNext \/ Crash
    BY <1>10, <1>u DEF CloseBegins, StopNext, ConsumersStop, PumpStops, Restart, Halts,
         Crash, LoseProcess, durable
  <1>11. CASE UNCHANGED vars
    BY <1>11, <1>u DEF vars, durable
  <1> QED
    BY <1>1, <1>2, <1>3, <1>4, <1>5, <1>6, <1>7, <1>8, <1>9, <1>10, <1>11
       DEF Next, PumpNext, SegmentNext

\* An answer ends on a terminal or on none.
LEMMA AnswerEnds ==
    ASSUME BodiesInv, EndsInv, NEW n \in Notices
    PROVE  AnswerOf(n).end \in Ends
  <1> DEFINE over == OutputsOver(Material(n))
             newest == chain[Max(over)]
             read == [inv |-> newest.inv, end |-> newest.end, err |-> FALSE]
  <1>1. PICK S : chain \in Seq(S)
    BY DEF BodiesInv
  <1>2. CASE answers[n] # NoAnswer
    BY <1>2 DEF AnswerOf, EndsInv
  <1>3. CASE answers[n] = NoAnswer /\ over = {}
    BY <1>3 DEF AnswerOf, NoAnswer, Ends
  <1>4. CASE answers[n] = NoAnswer /\ over # {}
    <2>1. over \subseteq 1 .. Len(chain) /\ Len(chain) \in Nat
      BY <1>1, LenProperties DEF OutputsOver, Outputs
    <2>2. over \subseteq Outputs
      BY DEF OutputsOver
    <2>3. AnswerOf(n) = read
      BY <1>4 DEF AnswerOf
    <2> HIDE DEF over
    <2>4. Max(over) \in Outputs
      BY <1>4, <2>1, <2>2, MaxOf
    <2>5. newest.end \in Terminals
      BY <2>4 DEF Outputs, IsOutput
    <2>6. read.end = newest.end
      OBVIOUS
    <2> QED
      BY <2>3, <2>5, <2>6 DEF Ends
  <1> QED
    BY <1>2, <1>3, <1>4

\* The pump at its next step.
LEMMA PumpMoves ==
    ASSUME PumpInv, NEW pc, PumpTo(pc)
    PROVE  /\ pump' = [pc |-> pc, n |-> pump.n, tried |-> pump.tried, owed |-> pump.owed]
           /\ pump'.pc = pc /\ pump'.n = pump.n /\ pump'.tried = pump.tried
           /\ pump'.owed = pump.owed
  <1>1. pump' = [pc |-> pc, n |-> pump.n, tried |-> pump.tried, owed |-> pump.owed]
    BY DEF PumpInv, PumpTo
  <1> QED
    BY <1>1

LEMMA PumpStands ==
    ASSUME PumpInv, BodiesInv, Extended, pump' = pump, drives' >= drives, drives \in Nat,
           drives' \in Nat
    PROVE  PumpInv'
  BY ChainExtended DEF PumpInv, Material

\* A step of the pump to a place that asks for no material.
LEMMA PumpGoes ==
    ASSUME PumpInv, NEW pc \in PumpPlaces \ {"drive"}, PumpTo(pc),
           pc = "wait" => drives' > 0, pc # "drain" => pump.n \in Notices
    PROVE  PumpInv'
  BY PumpMoves DEF PumpInv

LEMMA PumpStep ==
    BodiesInv /\ PumpInv /\ BarriersInv /\ [Next]_vars => PumpInv'
  <1> SUFFICES ASSUME BodiesInv, PumpInv, BarriersInv, [Next]_vars PROVE PumpInv'
    OBVIOUS
  <1>e. Extended
    BY ChainStep
  <1>u. ASSUME UNCHANGED <<pump, drives>> PROVE PumpInv'
    <2>1. drives \in Nat /\ drives' \in Nat /\ drives' >= drives
      BY <1>u DEF BarriersInv
    <2> QED
      BY <1>u, <1>e, <2>1, PumpStands
  <1>0. ASSUME pump' = NoDrive PROVE PumpInv'
    BY <1>0 DEF PumpInv, NoDrive, PumpPlaces
  <1>g. ASSUME NEW pc \in PumpPlaces \ {"drive", "wait"}, PumpTo(pc), pump.n \in Notices
        PROVE  PumpInv'
    BY <1>g, PumpGoes
  <1>n. \A pc \in PumpPlaces \ {"idle", "drain"} : PumpAt(pc) => pump.n \in Notices
    BY DEF PumpInv, PumpAt
  <1>p. /\ {"drain", "handoff", "mark", "fire", "consume", "settle", "send"}
             \subseteq PumpPlaces \ {"drive", "wait"}
        /\ {"seat", "mark", "fire", "drive", "wait", "settle", "handoff", "send", "consume"}
             \subseteq PumpPlaces \ {"idle", "drain"}
    BY DEF PumpPlaces
  <1>1. ASSUME NEW n \in Notices, Accept(n) \/ Land(n) PROVE PumpInv'
    BY <1>1, <1>u DEF Accept, Land
  <1>2. ASSUME NEW u \in Inputs, Invoke(u) PROVE PumpInv'
    BY <1>2, <1>u DEF Invoke
  <1>3. CASE PumpWakes
    BY <1>3 DEF PumpWakes, NoDrive, PumpInv, PumpPlaces
  <1>4. ASSUME NEW n \in Notices, PumpClaims(n) PROVE PumpInv'
    <2>1. pump' = [pc |-> "seat", n |-> n, tried |-> pump.tried \cup {n}, owed |-> {}]
      BY <1>4 DEF PumpClaims, NoDrive
    <2> QED
      BY <2>1 DEF PumpInv, PumpPlaces
  <1>5. CASE PumpRests
    BY <1>5, <1>0 DEF PumpRests
  <1>6. CASE PumpReads
    BY <1>6, <1>g, <1>n, <1>p DEF PumpReads, GiveUp
  <1>7. CASE PumpMarks \/ PumpMarkRefused \/ PumpCommitRefused \/ PumpScopeRefused
    BY <1>7, <1>g, <1>n, <1>p DEF PumpMarks, PumpMarkRefused, PumpCommitRefused, PumpScopeRefused, GiveUp
  <1>8. CASE PumpCommits
    <2>1. /\ PumpTo("drive") /\ drives' = drives + 1 /\ pump.n \in Notices
          /\ chain' = Committed(Material(pump.n))
      BY <1>8, <1>n, <1>p DEF PumpCommits
    <2>2. Material(pump.n) \in InputKeys'
      BY <2>1, CommitStands
    <2>3. drives' > 0
      BY <2>1 DEF BarriersInv
    <2>4. /\ pump' = [pc |-> "drive", n |-> pump.n, tried |-> pump.tried, owed |-> pump.owed]
          /\ pump'.pc = "drive" /\ pump'.n = pump.n /\ pump'.tried = pump.tried
          /\ pump'.owed = pump.owed
      BY <2>1, PumpMoves
    <2>5. Material(pump.n)' \in InputKeys'
      BY <2>2, <2>4 DEF Material
    <2>6. "drive" \in PumpPlaces
      BY DEF PumpPlaces
    <2> QED
      BY <2>1, <2>3, <2>4, <2>5, <2>6 DEF PumpInv
  <1>9. CASE PumpNames
    <2>1. CASE PumpTo("wait")
      <3>1. drives' > 0
        BY <1>9 DEF PumpNames, PumpInv, PumpAt
      <3>2. "wait" \in PumpPlaces \ {"drive"}
        BY DEF PumpPlaces
      <3> QED
        BY <1>9, <2>1, <3>1, <3>2, <1>n, <1>p, PumpGoes DEF PumpNames
    <2>2. CASE GiveUp
      BY <1>9, <2>2, <1>g, <1>n, <1>p DEF PumpNames, GiveUp
    <2> QED
      BY <1>9, <2>1, <2>2 DEF PumpNames
  <1>10. CASE PumpAnswered
    <2>1. PumpTo("drain") \/ PumpTo("consume") \/ PumpTo("settle")
      BY <1>10 DEF PumpAnswered, GiveUp
    <2> QED
      BY <1>10, <2>1, <1>g, <1>n, <1>p DEF PumpAnswered
  <1>11. CASE PumpLeft \/ PumpHandoffRefused
    BY <1>11, <1>g, <1>n, <1>p DEF PumpLeft, PumpHandoffRefused, GiveUp
  <1>12. CASE PumpSettled
    BY <1>12, <1>g, <1>n, <1>p DEF PumpSettled, GiveUp
  <1>13. CASE PumpHandsOff
    <2> DEFINE owed == HandoffBodies(pump.n) \ sent
    <2>1. pump' = [pump EXCEPT !.pc = "send", !.owed = owed]
      BY <1>13 DEF PumpHandsOff
    <2> HIDE DEF owed
    <2>2. pump' = [pc |-> "send", n |-> pump.n, tried |-> pump.tried, owed |-> owed]
      BY <2>1 DEF PumpInv
    <2>3. pump.n \in Notices
      BY <1>13, <1>n, <1>p DEF PumpHandsOff
    <2> QED
      BY <2>2, <2>3 DEF PumpInv, PumpPlaces
  <1>14. CASE PumpSends \/ PumpConsumes \/ PumpConsumeRefused
    BY <1>14, <1>g, <1>n, <1>p DEF PumpSends, PumpConsumes, PumpConsumeRefused
  <1>15. ASSUME NEW f \in Faces, FaceNext(f) PROVE PumpInv'
    BY <1>15, <1>u DEF FaceNext, FaceRecords, FaceRegisters, FaceRegisterRefused,
         FaceObserves, FaceCloses
  <1>16. CASE SegmentNext
    BY <1>16, <1>u DEF SegmentNext, SegmentOpens, ConsumerParks, SegmentPulls,
         SegmentDecides, SegmentCommits, SegmentFails, SegmentTakes, SegmentSettles,
         SegmentSettled, SegmentRegisters, SegmentSends, SegmentAbandoned
  <1>17. CASE CloseBegins \/ ConsumersStop \/ PumpStops \/ Restart
    BY <1>17, <1>u DEF CloseBegins, ConsumersStop, PumpStops, Restart
  <1>18. CASE Halts \/ Crash
    BY <1>18, <1>0 DEF Halts, Crash, LoseProcess
  <1>19. CASE UNCHANGED vars
    BY <1>19, <1>u DEF vars
  <1> QED
    BY <1>1, <1>2, <1>3, <1>4, <1>5, <1>6, <1>7, <1>8, <1>9, <1>10, <1>11, <1>12,
       <1>13, <1>14, <1>15, <1>16, <1>17, <1>18, <1>19 DEF Next, PumpNext, StopNext

\* The bodies registered and sent, and what the pump owes.
LEMMA BodiesStep == BodiesInv /\ PumpInv /\ [Next]_vars => BodiesInv'
  <1> SUFFICES ASSUME BodiesInv, PumpInv, [Next]_vars PROVE BodiesInv'
    OBVIOUS
  <1>c. /\ \E facts : chain' \in Seq(facts)
        /\ Outputs \subseteq Outputs'
    BY ChainStep, ChainExtended
  <1>b. \A inv : BodiesOf(inv) \subseteq Outputs
    BY DEF BodiesOf
  <1>h. \A n : HandoffBodies(n) \subseteq Outputs
    BY DEF HandoffBodies, OutputsOver
  <1>g. ASSUME registered \subseteq registered', registered' \subseteq Outputs,
               sent' \subseteq registered', pump'.owed \subseteq registered'
        PROVE  BodiesInv'
    BY <1>c, <1>g DEF BodiesInv
  <1>u. ASSUME UNCHANGED <<registered, sent>>, pump'.owed \subseteq pump.owed
        PROVE  BodiesInv'
    BY <1>u, <1>g DEF BodiesInv
  <1>t. ASSUME NEW pc, PumpTo(pc) PROVE pump'.owed = pump.owed
    BY <1>t, PumpMoves
  <1>0. ASSUME pump' = NoDrive PROVE pump'.owed = {}
    BY <1>0 DEF NoDrive
  <1>1. ASSUME NEW n \in Notices, Accept(n) \/ Land(n) PROVE BodiesInv'
    BY <1>1, <1>u DEF Accept, Land
  <1>2. ASSUME NEW u \in Inputs, Invoke(u) PROVE BodiesInv'
    BY <1>2, <1>u DEF Invoke
  <1>3. CASE PumpWakes
    <2>1. pump' = [NoDrive EXCEPT !.pc = "drain"]
      BY <1>3 DEF PumpWakes
    <2>2. pump'.owed = {}
      BY <2>1 DEF NoDrive
    <2> QED
      BY <1>3, <1>u, <2>2 DEF PumpWakes, durable
  <1>4. ASSUME NEW n \in Notices, PumpClaims(n) PROVE BodiesInv'
    <2>1. pump' = [pc |-> "seat", n |-> n, tried |-> pump.tried \cup {n}, owed |-> {}]
      BY <1>4 DEF PumpClaims, NoDrive
    <2>2. pump'.owed = {}
      BY <2>1
    <2> QED
      BY <1>4, <1>u, <2>2 DEF PumpClaims, durable
  <1>5. CASE PumpRests
    BY <1>5, <1>u, <1>0 DEF PumpRests, durable
  <1>6. CASE PumpReads \/ PumpMarks \/ PumpMarkRefused \/ PumpCommitRefused \/ PumpScopeRefused
    BY <1>6, <1>u, <1>t DEF PumpReads, PumpMarks, PumpMarkRefused, PumpCommitRefused, PumpScopeRefused,
         GiveUp, durable
  <1>7. CASE PumpCommits \/ PumpNames
    BY <1>7, <1>u, <1>t DEF PumpCommits, PumpNames, GiveUp, durable
  <1>8. CASE PumpAnswered \/ PumpLeft \/ PumpSettled \/ PumpHandoffRefused
    BY <1>8, <1>u, <1>t DEF PumpAnswered, PumpLeft, PumpSettled, PumpHandoffRefused,
         GiveUp, durable
  <1>9. CASE PumpHandsOff
    <2> DEFINE owed == HandoffBodies(pump.n) \ sent
    <2>1. pump' = [pump EXCEPT !.pc = "send", !.owed = owed]
      BY <1>9 DEF PumpHandsOff
    <2> HIDE DEF owed
    <2>2. pump' = [pc |-> "send", n |-> pump.n, tried |-> pump.tried, owed |-> owed]
      BY <2>1 DEF PumpInv
    <2>3. pump'.owed = HandoffBodies(pump.n) \ sent
      BY <2>2 DEF owed
    <2>4. registered' = registered \cup HandoffBodies(pump.n) /\ UNCHANGED sent
      BY <1>9 DEF PumpHandsOff
    <2> QED
      BY <1>g, <1>h, <2>3, <2>4 DEF BodiesInv
  <1>10. CASE PumpSends
    <2>1. PumpTo("consume") /\ sent' = sent \cup pump.owed /\ UNCHANGED registered
      BY <1>10 DEF PumpSends
    <2>2. pump'.owed = pump.owed
      BY <2>1, <1>t
    <2> QED
      BY <1>g, <2>1, <2>2 DEF BodiesInv
  <1>11. CASE PumpConsumes \/ PumpConsumeRefused
    BY <1>11, <1>u, <1>t DEF PumpConsumes, PumpConsumeRefused, durable
  <1>12. ASSUME NEW f \in Faces, FaceNext(f) PROVE BodiesInv'
    <2>1. CASE FaceRegisters(f)
      BY <2>1, <1>g, <1>b DEF FaceRegisters, BodiesInv
    <2>2. CASE FaceRecords(f) \/ FaceRegisterRefused(f) \/ FaceObserves(f) \/ FaceCloses(f)
      BY <2>2, <1>u DEF FaceRecords, FaceRegisterRefused, FaceObserves, FaceCloses, durable
    <2> QED
      BY <1>12, <2>1, <2>2 DEF FaceNext
  <1>13. CASE SegmentRegisters
    <2>1. registered' = registered \/ registered' = registered \cup BodiesOf(flight.inv)
      BY <1>13 DEF SegmentRegisters
    <2>2. UNCHANGED <<sent, pump>>
      BY <1>13 DEF SegmentRegisters
    <2> QED
      BY <1>g, <1>b, <2>1, <2>2 DEF BodiesInv
  <1>14. CASE SegmentSends
    <2>1. \/ UNCHANGED <<registered, sent>>
          \/ /\ registered' = registered \cup BodiesOf(flight.inv)
             /\ sent' = sent \cup BodiesOf(flight.inv)
      BY <1>14 DEF SegmentSends
    <2>2. UNCHANGED pump
      BY <1>14 DEF SegmentSends
    <2> QED
      BY <1>g, <1>b, <2>1, <2>2 DEF BodiesInv
  <1>15. CASE \/ SegmentOpens \/ ConsumerParks \/ SegmentPulls \/ SegmentDecides
              \/ SegmentCommits \/ SegmentFails \/ SegmentTakes
    BY <1>15, <1>u DEF SegmentOpens, ConsumerParks, SegmentPulls, SegmentDecides,
         SegmentCommits, SegmentFails, SegmentTakes, durable
  <1>16. CASE SegmentSettles \/ SegmentSettled \/ SegmentAbandoned
    BY <1>16, <1>u DEF SegmentSettles, SegmentSettled, SegmentAbandoned, durable
  <1>17. CASE CloseBegins \/ ConsumersStop \/ PumpStops
    BY <1>17, <1>u DEF CloseBegins, ConsumersStop, PumpStops, durable
  <1>18. CASE Restart
    BY <1>18, <1>g DEF Restart, OwedAtBoot, BodiesInv
  <1>19. CASE Halts \/ Crash
    BY <1>19, <1>u, <1>0 DEF Halts, Crash, LoseProcess, durable
  <1>20. CASE UNCHANGED vars
    BY <1>20, <1>u DEF vars, durable
  <1> QED
    BY <1>1, <1>2, <1>3, <1>4, <1>5, <1>6, <1>7, <1>8, <1>9, <1>10, <1>11, <1>12,
       <1>13, <1>14, <1>15, <1>16, <1>17, <1>18, <1>19, <1>20
       DEF Next, PumpNext, SegmentNext, StopNext

\* A consumed seat and the receipt it leaves.
LEMMA NoticeConsumed ==
    ASSUME NoticesInv, NEW n \in Notices, Consumes(n),
           UNCHANGED <<accepted, landed, delivering>>
    PROVE  NoticesInv'
  BY DEF NoticesInv, Consumes

LEMMA NoticesStep == NoticesInv /\ PumpInv /\ BarriersInv /\ [Next]_vars => NoticesInv'
  <1> SUFFICES ASSUME NoticesInv, PumpInv, BarriersInv, [Next]_vars PROVE NoticesInv'
    OBVIOUS
  <1>u. ASSUME UNCHANGED <<accepted, landed, receipts, delivering, seat>>
        PROVE  NoticesInv'
    BY <1>u DEF NoticesInv
  <1>g. ASSUME GiveUp, UNCHANGED durable PROVE NoticesInv'
    BY <1>g DEF GiveUp, durable, NoticesInv
  <1>n. PumpAt("consume") => pump.n \in Notices
    BY DEF PumpInv, PumpAt
  <1>1. ASSUME NEW n \in Notices, Accept(n) PROVE NoticesInv'
    BY <1>1 DEF Accept, NoticesInv
  <1>2. ASSUME NEW n \in Notices, Land(n) PROVE NoticesInv'
    BY <1>2 DEF Land, NoticesInv
  <1>3. ASSUME NEW u \in Inputs, Invoke(u) PROVE NoticesInv'
    BY <1>3, <1>u DEF Invoke, mailbox
  <1>4. ASSUME NEW n \in Notices, PumpClaims(n) PROVE NoticesInv'
    BY <1>4 DEF PumpClaims, Offered, NoticesInv, durable
  <1>5. CASE PumpWakes \/ PumpRests \/ PumpMarks \/ PumpCommits \/ PumpHandsOff \/ PumpSends
    BY <1>5, <1>u DEF PumpWakes, PumpRests, PumpMarks, PumpCommits, PumpHandsOff,
         PumpSends, durable, mailbox
  <1>6. CASE PumpReads \/ PumpMarkRefused \/ PumpCommitRefused \/ PumpScopeRefused
    BY <1>6, <1>u, <1>g DEF PumpReads, PumpMarkRefused, PumpCommitRefused, PumpScopeRefused, durable, mailbox
  <1>7. CASE PumpNames \/ PumpAnswered
    BY <1>7, <1>u, <1>g DEF PumpNames, PumpAnswered, durable, mailbox
  <1>8. CASE PumpLeft \/ PumpSettled \/ PumpHandoffRefused
    BY <1>8, <1>u, <1>g DEF PumpLeft, PumpSettled, PumpHandoffRefused, durable, mailbox
  <1>9. CASE PumpConsumes
    BY <1>9, <1>n, NoticeConsumed DEF PumpConsumes
  <1>10. CASE PumpConsumeRefused
    BY <1>10, <1>u DEF PumpConsumeRefused, durable, mailbox
  <1>11. ASSUME NEW f \in Faces, FaceNext(f) PROVE NoticesInv'
    <2>1. CASE FaceRecords(f) \/ FaceRegisters(f)
      BY <2>1, <1>u DEF FaceRecords, FaceRegisters, mailbox
    <2>2. CASE FaceRegisterRefused(f) \/ FaceObserves(f)
      BY <2>2, <1>u DEF FaceRegisterRefused, FaceObserves, mailbox, durable
    <2>3. CASE FaceCloses(f)
      <3>1. settling[f].n \in Notices
        BY <1>11, <2>3 DEF FaceCloses, FaceAt, BarriersInv
      <3>2. Consumes(settling[f].n) \/ UNCHANGED <<receipts, seat>>
        BY <2>3 DEF FaceCloses
      <3>3. UNCHANGED <<accepted, landed, delivering>>
        BY <2>3 DEF FaceCloses
      <3> QED
        BY <3>1, <3>2, <3>3, <1>u, NoticeConsumed
    <2> QED
      BY <1>11, <2>1, <2>2, <2>3 DEF FaceNext
  <1>12. CASE SegmentNext
    BY <1>12, <1>u DEF SegmentNext, SegmentOpens, ConsumerParks, SegmentPulls,
         SegmentDecides, SegmentCommits, SegmentFails, SegmentTakes, SegmentSettles,
         SegmentSettled, SegmentRegisters, SegmentSends, SegmentAbandoned, durable, mailbox
  <1>13. CASE CloseBegins \/ ConsumersStop \/ PumpStops
    BY <1>13, <1>u DEF CloseBegins, ConsumersStop, PumpStops, durable, mailbox
  <1>14. CASE Restart
    BY <1>14 DEF Restart, FreshSeats, NoticesInv
  <1>15. CASE Halts \/ Crash
    BY <1>15 DEF Halts, Crash, LoseProcess, NoticesInv, durable
  <1>16. CASE UNCHANGED vars
    BY <1>16, <1>u DEF vars, durable, mailbox
  <1> QED
    BY <1>1, <1>2, <1>3, <1>4, <1>5, <1>6, <1>7, <1>8, <1>9, <1>10, <1>11, <1>12,
       <1>13, <1>14, <1>15, <1>16 DEF Next, PumpNext, StopNext

\* What goes wrong is counted, and a stop begins only where a restart is left.
LEMMA UpsetBound ==
    ASSUME upsets \in 0 .. MaxUpsets, Calm \/ Upset
    PROVE  upsets' \in 0 .. MaxUpsets
  BY BoundAssumption DEF Calm, Upset

LEMMA PhaseStep == PhaseInv /\ [Next]_vars => PhaseInv'
  <1> SUFFICES ASSUME PhaseInv, [Next]_vars PROVE PhaseInv'
    OBVIOUS
  <1>a. ASSUME UNCHANGED <<phase, boot>>, Calm \/ Upset PROVE PhaseInv'
    BY <1>a, UpsetBound DEF PhaseInv
  <1>r. \A f : RefusedUnder(f) => Calm \/ Upset
    BY DEF RefusedUnder
  <1>1. ASSUME NEW n \in Notices, Accept(n) \/ Land(n) \/ PumpClaims(n) PROVE PhaseInv'
    BY <1>1, <1>a DEF Accept, Land, PumpClaims, Calm
  <1>2. ASSUME NEW u \in Inputs, Invoke(u) PROVE PhaseInv'
    BY <1>2, <1>a DEF Invoke, Calm
  <1>3. CASE \/ PumpWakes \/ PumpRests \/ PumpReads \/ PumpMarks \/ PumpMarkRefused
             \/ PumpCommits \/ PumpCommitRefused \/ PumpScopeRefused \/ PumpNames
    BY <1>3, <1>a, <1>r DEF PumpWakes, PumpRests, PumpReads, PumpMarks, PumpMarkRefused,
         PumpCommits, PumpCommitRefused, PumpScopeRefused, PumpNames, Calm
  <1>4. CASE \/ PumpAnswered \/ PumpLeft \/ PumpSettled \/ PumpHandsOff
             \/ PumpHandoffRefused \/ PumpSends \/ PumpConsumes \/ PumpConsumeRefused
    BY <1>4, <1>a DEF PumpAnswered, PumpLeft, PumpSettled, PumpHandsOff,
         PumpHandoffRefused, PumpSends, PumpConsumes, PumpConsumeRefused, Calm
  <1>5. ASSUME NEW f \in Faces, FaceNext(f) PROVE PhaseInv'
    BY <1>5, <1>a, <1>r DEF FaceNext, FaceRecords, FaceRegisters, FaceRegisterRefused,
         FaceObserves, FaceCloses, Calm
  <1>6. CASE SegmentDecides \/ SegmentFails \/ SegmentRegisters
    BY <1>6, <1>a, <1>r DEF SegmentDecides, SegmentFails, SegmentRegisters
  <1>7. CASE \/ SegmentOpens \/ ConsumerParks \/ SegmentPulls \/ SegmentCommits
             \/ SegmentTakes \/ SegmentSettles \/ SegmentSettled \/ SegmentSends
             \/ SegmentAbandoned
    BY <1>7, <1>a DEF SegmentOpens, ConsumerParks, SegmentPulls, SegmentCommits,
         SegmentTakes, SegmentSettles, SegmentSettled, SegmentSends, SegmentAbandoned, Calm
  <1>8. CASE CloseBegins \/ ConsumersStop \/ PumpStops
    BY <1>8 DEF CloseBegins, ConsumersStop, PumpStops, PhaseInv
  <1>9. CASE Halts \/ Crash
    BY <1>9 DEF Halts, Crash, LoseProcess, PhaseInv
  <1>10. CASE Restart
    BY <1>10, BoundAssumption DEF Restart, PhaseInv
  <1>11. CASE UNCHANGED vars
    BY <1>11, <1>a DEF vars, Calm
  <1> QED
    BY <1>1, <1>2, <1>3, <1>4, <1>5, <1>6, <1>7, <1>8, <1>9, <1>10, <1>11
       DEF Next, PumpNext, SegmentNext, StopNext

\* What a face holds of the settlement it runs.
LEMMA FaceMoves ==
    ASSUME MarkerInv, NEW f \in Faces, NEW pc,
           FaceTo(f, pc) \/ settling' = [settling EXCEPT ![f].pc = pc, ![f].ok = TRUE]
    PROVE  /\ DOMAIN settling' = Faces
           /\ \A g \in Faces : /\ settling'[g].n = settling[g].n
                               /\ settling'[g].bar = settling[g].bar
                               /\ settling'[g].end = settling[g].end
           /\ \A g \in Faces \ {f} : settling'[g] = settling[g]
  <1>1. CASE FaceTo(f, pc)
    BY <1>1 DEF MarkerInv, FaceTo
  <1>2. CASE settling' = [settling EXCEPT ![f].pc = pc, ![f].ok = TRUE]
    <2> DEFINE ok == TRUE
               s == [settling EXCEPT ![f].pc = pc]
               r == [s[f] EXCEPT !.ok = ok]
    <2>1. settling' = [s EXCEPT ![f] = r]
      BY <1>2
    <2>2. /\ DOMAIN s = Faces
          /\ \A g \in Faces : g # f => s[g] = settling[g]
          /\ s[f] = [pc |-> pc, n |-> settling[f].n, bar |-> settling[f].bar,
                    inv |-> settling[f].inv, end |-> settling[f].end, ok |-> settling[f].ok]
      BY DEF MarkerInv
    <2> HIDE DEF ok, s
    <2>3. r = [pc |-> pc, n |-> settling[f].n, bar |-> settling[f].bar,
               inv |-> settling[f].inv, end |-> settling[f].end, ok |-> ok]
      BY <2>2
    <2> HIDE DEF r
    <2>4. r.n = settling[f].n /\ r.bar = settling[f].bar /\ r.end = settling[f].end
      BY <2>3
    <2> QED
      BY <2>1, <2>2, <2>4
  <1> QED
    BY <1>1, <1>2

LEMMA FaceBegins ==
    ASSUME MarkerInv, NEW f \in Faces, NEW n, NEW bar, NEW inv, NEW end,
           Begin(f, n, bar, inv, end)
    PROVE  /\ settling'[f].n = n /\ settling'[f].bar = bar /\ settling'[f].end = end
           /\ \A g \in Faces \ {f} : settling'[g] = settling[g]
  BY DEF MarkerInv, Begin

\* A face that moves on takes its notice, its barrier and its end along.
LEMMA BarriersMove ==
    ASSUME MarkerInv, BarriersInv, NEW f \in Faces, settling[f].pc # "idle", NEW pc,
           FaceTo(f, pc) \/ settling' = [settling EXCEPT ![f].pc = pc, ![f].ok = TRUE],
           UNCHANGED <<drives, account, flight>>, taken' \subseteq taken
    PROVE  BarriersInv'
  <1>1. ASSUME NEW g \in Faces
        PROVE  /\ settling'[g].n \in Notices \cup {Nil}
               /\ settling'[g].pc # "idle" => settling'[g].n \in Notices
               /\ settling'[g].bar \in 0 .. drives
    BY FaceMoves DEF BarriersInv
  <1> QED
    BY <1>1 DEF BarriersInv

LEMMA BarriersBegin ==
    ASSUME MarkerInv, BarriersInv, NEW f \in Faces, NEW n \in Notices,
           NEW bar \in 1 .. drives, NEW inv, NEW end, Begin(f, n, bar, inv, end),
           UNCHANGED <<drives, account, flight>>
    PROVE  BarriersInv'
  <1>1. ASSUME NEW g \in Faces
        PROVE  /\ settling'[g].n \in Notices \cup {Nil}
               /\ settling'[g].pc # "idle" => settling'[g].n \in Notices
               /\ settling'[g].bar \in 0 .. drives
    BY FaceBegins DEF BarriersInv
  <1>2. taken' \subseteq 1 .. drives
    BY DEF Begin, BarriersInv
  <1> QED
    BY <1>1, <1>2 DEF BarriersInv

LEMMA AccountDropped ==
    ASSUME BarriersInv, account' = [account EXCEPT ![pump.n] = 0]
    PROVE  account' \in [Notices -> 0 .. drives]
  <1> DEFINE S == 0 .. drives
  <1>1. 0 \in S /\ account \in [Notices -> S]
    BY DEF BarriersInv
  <1> HIDE DEF S
  <1>2. account' \in [Notices -> S]
    BY <1>1
  <1> QED
    BY <1>2 DEF S

LEMMA BarriersStep ==
    MarkerInv /\ PumpInv /\ SegmentInv /\ BarriersInv /\ [Next]_vars => BarriersInv'
  <1> SUFFICES ASSUME MarkerInv, PumpInv, SegmentInv, BarriersInv, [Next]_vars
               PROVE  BarriersInv'
    OBVIOUS
  <1>f. ASSUME UNCHANGED <<drives, taken, settling>>, account' \in [Notices -> 0 .. drives],
               \A x \in flight'.left : x \in flight.left
        PROVE  BarriersInv'
    BY <1>f DEF BarriersInv
  <1>u. ASSUME UNCHANGED <<drives, account, taken, settling>>, flight'.left \subseteq flight.left
        PROVE  BarriersInv'
    BY <1>u DEF BarriersInv
  <1>g. ASSUME GiveUp, UNCHANGED <<drives, taken, settling, flight>>
        PROVE  BarriersInv'
    <2>1. account' \in [Notices -> 0 .. drives]
      BY <1>g, AccountDropped DEF GiveUp
    <2> QED
      BY <1>f, <1>g, <2>1
  <1>0. ASSUME flight' = NoFlight PROVE flight'.left = {}
    BY <1>0 DEF NoFlight
  <1>n. pump.pc \notin {"idle", "drain"} => pump.n \in Notices
    BY DEF PumpInv
  <1>1. ASSUME NEW n \in Notices, Accept(n) \/ Land(n) \/ PumpClaims(n) PROVE BarriersInv'
    BY <1>1, <1>u DEF Accept, Land, PumpClaims, host, turns
  <1>2. ASSUME NEW u \in Inputs, Invoke(u) PROVE BarriersInv'
    BY <1>2, <1>u DEF Invoke, host
  <1>3. CASE PumpWakes \/ PumpRests \/ PumpMarks \/ PumpHandsOff \/ PumpSends
    BY <1>3, <1>u DEF PumpWakes, PumpRests, PumpMarks, PumpHandsOff, PumpSends, host, turns
  <1>4. CASE PumpConsumes \/ PumpConsumeRefused
    BY <1>4, <1>u DEF PumpConsumes, PumpConsumeRefused, host, turns
  <1>5. CASE PumpReads \/ PumpMarkRefused \/ PumpCommitRefused \/ PumpScopeRefused
    BY <1>5, <1>u, <1>g DEF PumpReads, PumpMarkRefused, PumpCommitRefused, PumpScopeRefused, host, turns
  <1>6. CASE PumpNames \/ PumpLeft \/ PumpHandoffRefused
    BY <1>6, <1>u, <1>g DEF PumpNames, PumpLeft, PumpHandoffRefused, host, turns
  <1>7. CASE PumpCommits
    <2>1. /\ drives' = drives + 1 /\ account' = [account EXCEPT ![pump.n] = drives + 1]
          /\ UNCHANGED <<taken, settling, flight>>
      BY <1>7 DEF PumpCommits
    <2>2. drives \in Nat /\ drives' \in Nat /\ drives + 1 \in 0 .. drives'
          /\ 0 .. drives \subseteq 0 .. drives' /\ 1 .. drives \subseteq 1 .. drives'
      BY <2>1 DEF BarriersInv
    <2>3. account' \in [Notices -> 0 .. drives']
      BY <2>1, <2>2 DEF BarriersInv
    <2> QED
      BY <2>1, <2>2, <2>3 DEF BarriersInv
  <1>8. CASE PumpAnswered
    <2>1. UNCHANGED <<drives, flight>>
      BY <1>8 DEF PumpAnswered, turns
    <2>2. pump.n \in Notices /\ drives \in 1 .. drives
      BY <1>8, <1>n DEF PumpAnswered, PumpAt, PumpInv, BarriersInv
    <2>3. CASE GiveUp /\ UNCHANGED <<taken, settling>>
      BY <2>1, <2>3, <1>g
    <2>4. CASE account' = [account EXCEPT ![pump.n] = 0] /\ UNCHANGED <<taken, settling>>
      <3>1. account' \in [Notices -> 0 .. drives]
        BY <2>4, AccountDropped
      <3> QED
        BY <2>1, <2>4, <3>1, <1>f
    <2>5. CASE /\ \E inv, end : Begin("pump", pump.n, drives, inv, end)
               /\ UNCHANGED account
      <3> "pump" \in Faces
        BY DEF Faces
      <3> QED
        BY <2>1, <2>2, <2>5, BarriersBegin
    <2> QED
      BY <1>8, <2>3, <2>4, <2>5 DEF PumpAnswered
  <1>9. CASE PumpSettled
    <2>1. /\ settling' = [settling EXCEPT !["pump"] = NoSettling]
          /\ UNCHANGED <<drives, taken, flight>>
          /\ GiveUp \/ account' = [account EXCEPT ![pump.n] = 0]
      BY <1>9 DEF PumpSettled, turns
    <2>2. account' \in [Notices -> 0 .. drives]
      BY <2>1, AccountDropped DEF GiveUp
    <2>3. ASSUME NEW g \in Faces
          PROVE  /\ settling'[g].n \in Notices \cup {Nil}
                 /\ settling'[g].pc # "idle" => settling'[g].n \in Notices
                 /\ settling'[g].bar \in 0 .. drives
      BY <2>1 DEF BarriersInv, MarkerInv, NoSettling, Faces
    <2> QED
      BY <2>1, <2>2, <2>3 DEF BarriersInv
  <1>10. ASSUME NEW f \in Faces, FaceNext(f) PROVE BarriersInv'
    <2>1. UNCHANGED <<drives, account, flight>> /\ taken' \subseteq taken
          /\ settling[f].pc # "idle"
      BY <1>10 DEF FaceNext, FaceRecords, FaceRegisters, FaceRegisterRefused, FaceObserves,
         FaceCloses, Reopened, FaceAt, turns
    <2>2. \E pc : FaceTo(f, pc) \/ settling' = [settling EXCEPT ![f].pc = pc, ![f].ok = TRUE]
      BY <1>10 DEF FaceNext, FaceRecords, FaceRegisters, FaceRegisterRefused, FaceObserves,
         FaceCloses, Reopened, FaceTo
    <2> QED
      BY <1>10, <2>1, <2>2, BarriersMove
  <1>11. CASE SegmentOpens
    <2>1. flight' = [pc |-> "open", ins |-> Pulled, inv |-> con.segs + 1, end |-> "none",
                     err |-> FALSE, left |-> {}]
      BY <1>11 DEF SegmentOpens, NoFlight
    <2>2. flight'.left = {}
      BY <2>1
    <2> QED
      BY <1>11, <2>2, <1>u DEF SegmentOpens, host
  <1>12. CASE SegmentPulls
    <2>1. flight' = [flight EXCEPT !.ins = flight.ins \cup Pulled]
      BY <1>12 DEF SegmentPulls
    <2>2. flight'.left = flight.left
      BY <2>1 DEF SegmentInv
    <2> QED
      BY <1>12, <2>2, <1>u DEF SegmentPulls, host
  <1>13. CASE SegmentDecides \/ SegmentCommits \/ SegmentFails \/ SegmentRegisters
    <2>1. flight'.left = flight.left
      BY <1>13 DEF SegmentDecides, SegmentCommits, SegmentFails, SegmentRegisters, SegmentInv
    <2> QED
      BY <1>13, <2>1, <1>u DEF SegmentDecides, SegmentCommits, SegmentFails,
         SegmentRegisters, host
  <1>14. CASE SegmentTakes
    <2>1. PICK held \in SUBSET Notices :
            /\ \A n \in held : account[n] # 0
            /\ flight' = [flight EXCEPT !.pc = "faces",
                               !.left = {[n |-> n, bar |-> account[n]] : n \in held}]
            /\ account' = [n \in Notices |-> IF n \in held THEN 0 ELSE account[n]]
      BY <1>14 DEF SegmentTakes
    <2> DEFINE left == {[n |-> n, bar |-> account[n]] : n \in held}
    <2>2. \A x \in left : x.n \in Notices /\ x.bar \in 1 .. drives
      BY <2>1 DEF BarriersInv
    <2> HIDE DEF left
    <2>3. flight' = [flight EXCEPT !.pc = "faces", !.left = left]
      BY <2>1 DEF left
    <2>4. flight'.left = left
      BY <2>3 DEF SegmentInv
    <2>5. account' \in [Notices -> 0 .. drives]
      BY <2>1 DEF BarriersInv
    <2>6. UNCHANGED <<drives, taken, settling>>
      BY <1>14 DEF SegmentTakes
    <2> QED
      BY <2>2, <2>4, <2>5, <2>6 DEF BarriersInv
  <1>15. CASE SegmentSettles
    <2>1. PICK x \in flight.left :
            \/ /\ flight' = [flight EXCEPT !.left = flight.left \ {x}]
               /\ UNCHANGED <<taken, settling>>
            \/ /\ Begin("segment", x.n, x.bar, flight.inv, flight.end)
               /\ UNCHANGED flight
      BY <1>15 DEF SegmentSettles
    <2>2. UNCHANGED <<drives, account>>
      BY <1>15 DEF SegmentSettles
    <2>3. CASE flight' = [flight EXCEPT !.left = flight.left \ {x}]
               /\ UNCHANGED <<taken, settling>>
      <3>1. flight'.left \subseteq flight.left
        BY <2>3 DEF SegmentInv
      <3> QED
        BY <2>2, <2>3, <3>1, <1>u
    <2>4. CASE Begin("segment", x.n, x.bar, flight.inv, flight.end) /\ UNCHANGED flight
      <3>1. "segment" \in Faces /\ x.n \in Notices /\ x.bar \in 1 .. drives
        BY DEF Faces, BarriersInv
      <3> QED
        BY <2>2, <2>4, <3>1, BarriersBegin
    <2> QED
      BY <2>1, <2>3, <2>4
  <1>16. CASE SegmentSettled
    <2> DEFINE left == {x \in flight.left : x.n # settling["segment"].n}
    <2>1. /\ flight' = [flight EXCEPT !.left = left]
          /\ settling' = [settling EXCEPT !["segment"] = NoSettling]
          /\ UNCHANGED <<drives, account, taken>>
      BY <1>16 DEF SegmentSettled
    <2>2. flight'.left \subseteq flight.left
      BY <2>1 DEF SegmentInv
    <2>3. ASSUME NEW g \in Faces
          PROVE  /\ settling'[g].n \in Notices \cup {Nil}
                 /\ settling'[g].pc # "idle" => settling'[g].n \in Notices
                 /\ settling'[g].bar \in 0 .. drives
      BY <2>1 DEF BarriersInv, MarkerInv, NoSettling, Faces
    <2> QED
      BY <2>1, <2>2, <2>3 DEF BarriersInv
  <1>17. CASE ConsumerParks \/ SegmentSends \/ SegmentAbandoned
    BY <1>17, <1>u, <1>0 DEF ConsumerParks, SegmentSends, SegmentAbandoned, host
  <1>18. CASE CloseBegins \/ ConsumersStop \/ PumpStops \/ Restart
    BY <1>18, <1>u DEF CloseBegins, ConsumersStop, PumpStops, Restart, host, turns
  <1>19. CASE Halts \/ Crash
    BY <1>19 DEF Halts, Crash, LoseProcess, BarriersInv, NoSettling, NoFlight, Faces
  <1>20. CASE UNCHANGED vars
    BY <1>20, <1>u DEF vars, host, turns
  <1> QED
    BY <1>1, <1>2, <1>3, <1>4, <1>5, <1>6, <1>7, <1>8, <1>9, <1>10, <1>11, <1>12,
       <1>13, <1>14, <1>15, <1>16, <1>17, <1>18, <1>19, <1>20
       DEF Next, PumpNext, SegmentNext, StopNext

LEMMA EndsStep ==
    MarkerInv /\ BodiesInv /\ PumpInv /\ SegmentInv /\ EndsInv /\ [Next]_vars => EndsInv'
  <1> SUFFICES ASSUME MarkerInv, BodiesInv, PumpInv, SegmentInv, EndsInv, [Next]_vars
               PROVE  EndsInv'
    OBVIOUS
  <1>u. ASSUME UNCHANGED <<attempt, answers>>, flight'.end \in Ends,
               \A f \in Faces : settling'[f].end \in Ends
        PROVE  EndsInv'
    BY <1>u DEF EndsInv
  <1>s. ASSUME UNCHANGED <<attempt, answers, settling, flight>> PROVE EndsInv'
    BY <1>s, <1>u DEF EndsInv
  <1>0. NoSettling.end \in Ends /\ NoFlight.end \in Ends /\ NoAnswer.end \in Ends
    BY DEF NoSettling, NoFlight, NoAnswer, Ends
  <1>1. ASSUME NEW n \in Notices, Accept(n) \/ Land(n) \/ PumpClaims(n) PROVE EndsInv'
    BY <1>1, <1>s DEF Accept, Land, PumpClaims, host, turns, durable
  <1>2. ASSUME NEW u \in Inputs, Invoke(u) PROVE EndsInv'
    BY <1>2, <1>s DEF Invoke, host
  <1>3. CASE PumpMarks
    <2>1. /\ attempt' = [attempt EXCEPT ![pump.n] = "inflight"]
          /\ UNCHANGED <<answers, settling, flight>>
      BY <1>3 DEF PumpMarks, host, turns
    <2> QED
      BY <2>1 DEF EndsInv
  <1>4. CASE \/ PumpWakes \/ PumpRests \/ PumpReads \/ PumpMarkRefused \/ PumpCommits
             \/ PumpCommitRefused \/ PumpScopeRefused \/ PumpNames \/ PumpLeft
    BY <1>4, <1>s DEF PumpWakes, PumpRests, PumpReads, PumpMarkRefused, PumpCommits,
         PumpCommitRefused, PumpScopeRefused, PumpNames, PumpLeft, host, turns, durable
  <1>5. CASE PumpHandsOff \/ PumpHandoffRefused \/ PumpSends \/ PumpConsumes \/ PumpConsumeRefused
    BY <1>5, <1>s DEF PumpHandsOff, PumpHandoffRefused, PumpSends, PumpConsumes,
         PumpConsumeRefused, host, turns, durable
  <1>6. CASE PumpAnswered
    <2>1. UNCHANGED <<attempt, answers, flight>>
      BY <1>6 DEF PumpAnswered, turns, durable
    <2>2. pump.n \in Notices
      BY <1>6 DEF PumpAnswered, PumpAt, PumpInv
    <2>3. CASE UNCHANGED settling
      BY <2>1, <2>3, <1>s
    <2>4. CASE \E inv : Begin("pump", pump.n, drives, inv, AnswerOf(pump.n).end)
      <3>1. "pump" \in Faces
        BY DEF Faces
      <3>2. AnswerOf(pump.n).end \in Ends
        BY <2>2, AnswerEnds
      <3>3. \A f \in Faces : settling'[f].end \in Ends
        BY <2>4, <3>1, <3>2, FaceBegins DEF EndsInv
      <3> QED
        BY <2>1, <3>3, <1>u DEF EndsInv
    <2> QED
      BY <1>6, <2>3, <2>4 DEF PumpAnswered
  <1>7. CASE PumpSettled
    <2>1. /\ settling' = [settling EXCEPT !["pump"] = NoSettling]
          /\ UNCHANGED <<attempt, answers, flight>>
      BY <1>7 DEF PumpSettled, turns, durable
    <2>2. \A f \in Faces : settling'[f].end \in Ends
      BY <2>1, <1>0 DEF EndsInv, MarkerInv
    <2> QED
      BY <2>1, <2>2, <1>u DEF EndsInv
  <1>8. ASSUME NEW f \in Faces, FaceNext(f) PROVE EndsInv'
    <2>1. UNCHANGED <<answers, flight>>
      BY <1>8 DEF FaceNext, FaceRecords, FaceRegisters, FaceRegisterRefused, FaceObserves,
         FaceCloses, turns
    <2>2. \E pc : FaceTo(f, pc) \/ settling' = [settling EXCEPT ![f].pc = pc, ![f].ok = TRUE]
      BY <1>8 DEF FaceNext, FaceRecords, FaceRegisters, FaceRegisterRefused, FaceObserves,
         FaceCloses, Reopened, FaceTo
    <2>3. \A g \in Faces : settling'[g].end \in Ends
      BY <1>8, <2>2, FaceMoves DEF EndsInv
    <2>4. \/ UNCHANGED attempt
          \/ attempt' = [attempt EXCEPT ![settling[f].n] = settling[f].end]
      BY <1>8 DEF FaceNext, FaceRecords, FaceRegisters, FaceRegisterRefused, FaceObserves,
         FaceCloses, durable
    <2>5. attempt' \in [Notices -> Ends \cup {"inflight"}]
      BY <1>8, <2>4 DEF EndsInv
    <2> QED
      BY <2>1, <2>3, <2>5 DEF EndsInv
  <1>9. CASE SegmentOpens
    <2>1. flight' = [pc |-> "open", ins |-> Pulled, inv |-> con.segs + 1, end |-> "none",
                     err |-> FALSE, left |-> {}]
      BY <1>9 DEF SegmentOpens, NoFlight
    <2>2. flight'.end = "none"
      BY <2>1
    <2> QED
      BY <1>9, <2>2, <1>u DEF SegmentOpens, host, durable, EndsInv, Ends
  <1>10. CASE SegmentPulls \/ SegmentCommits \/ SegmentTakes \/ SegmentRegisters
    <2>1. flight'.end = flight.end
      BY <1>10 DEF SegmentPulls, SegmentCommits, SegmentTakes, SegmentRegisters, SegmentInv
    <2> QED
      BY <1>10, <2>1, <1>u DEF SegmentPulls, SegmentCommits, SegmentTakes,
         SegmentRegisters, host, durable, EndsInv
  <1>11. CASE SegmentDecides
    <2>1. PICK end \in Terminals : flight' = [flight EXCEPT !.pc = "output", !.end = end]
      BY <1>11 DEF SegmentDecides
    <2>2. flight'.end = end
      BY <2>1 DEF SegmentInv
    <2> QED
      BY <1>11, <2>2, <1>u DEF SegmentDecides, host, durable, EndsInv, Ends
  <1>12. CASE SegmentFails
    <2>1. flight'.end = "failed"
      BY <1>12 DEF SegmentFails, SegmentInv
    <2> QED
      BY <1>12, <2>1, <1>u DEF SegmentFails, host, durable, EndsInv, Ends, Terminals
  <1>13. CASE SegmentSettles
    <2>1. PICK x \in flight.left :
            \/ /\ flight' = [flight EXCEPT !.left = flight.left \ {x}]
               /\ UNCHANGED <<taken, settling>>
            \/ /\ Begin("segment", x.n, x.bar, flight.inv, flight.end)
               /\ UNCHANGED flight
      BY <1>13 DEF SegmentSettles
    <2>2. UNCHANGED <<attempt, answers>>
      BY <1>13 DEF SegmentSettles, durable
    <2>3. flight'.end = flight.end
      BY <2>1 DEF SegmentInv
    <2>4. "segment" \in Faces
      BY DEF Faces
    <2>5. \A f \in Faces : settling'[f].end \in Ends
      BY <2>1, <2>4, FaceBegins DEF EndsInv
    <2> QED
      BY <2>2, <2>3, <2>5, <1>u DEF EndsInv
  <1>14. CASE SegmentSettled
    <2> DEFINE left == {x \in flight.left : x.n # settling["segment"].n}
    <2>1. /\ flight' = [flight EXCEPT !.left = left]
          /\ settling' = [settling EXCEPT !["segment"] = NoSettling]
          /\ UNCHANGED <<attempt, answers>>
      BY <1>14 DEF SegmentSettled, durable
    <2>2. flight'.end = flight.end
      BY <2>1 DEF SegmentInv
    <2>3. \A f \in Faces : settling'[f].end \in Ends
      BY <2>1, <1>0 DEF EndsInv, MarkerInv
    <2> QED
      BY <2>1, <2>2, <2>3, <1>u DEF EndsInv
  <1>15. CASE SegmentSends \/ SegmentAbandoned
    <2>1. flight' = NoFlight /\ UNCHANGED <<attempt, settling>>
      BY <1>15 DEF SegmentSends, SegmentAbandoned, host, durable
    <2>2. \E end, err : Indexed(end, err) /\ end \in Ends
      BY <1>15 DEF SegmentSends, SegmentAbandoned, EndsInv, Ends, Terminals
    <2>3. \A n \in Notices : answers'[n].end \in Ends
      BY <2>2 DEF Indexed, EndsInv
    <2> QED
      BY <2>1, <2>3, <1>0 DEF EndsInv
  <1>16. CASE ConsumerParks
    BY <1>16, <1>s DEF ConsumerParks, host, durable
  <1>17. CASE CloseBegins \/ ConsumersStop \/ PumpStops \/ Restart
    BY <1>17, <1>s DEF CloseBegins, ConsumersStop, PumpStops, Restart, host, turns, durable
  <1>18. CASE Halts \/ Crash
    <2>1. /\ attempt' = attempt /\ flight' = NoFlight
          /\ settling' = [f \in Faces |-> NoSettling]
          /\ answers' = [n \in Notices |-> NoAnswer]
      BY <1>18 DEF Halts, Crash, LoseProcess, durable
    <2> QED
      BY <2>1, <1>0 DEF EndsInv
  <1>19. CASE UNCHANGED vars
    BY <1>19, <1>s DEF vars, host, turns, durable
  <1> QED
    BY <1>1, <1>2, <1>3, <1>4, <1>5, <1>6, <1>7, <1>8, <1>9, <1>10, <1>11, <1>12,
       <1>13, <1>14, <1>15, <1>16, <1>17, <1>18, <1>19
       DEF Next, PumpNext, SegmentNext, StopNext

\* The consumer after a step that keeps its segments.
LEMMA SegmentKeeps ==
    ASSUME BodiesInv, SegmentInv, Extended, UNCHANGED flight, con'.segs = con.segs,
           con'.named \subseteq InputKeys'
    PROVE  SegmentInv'
  <1>1. InputKeys \subseteq InputKeys'
    BY ChainExtended
  <1> QED
    BY <1>1 DEF SegmentInv

\* A name is given to what stands on the chain.
LEMMA NamedStands ==
    ASSUME BodiesInv, SegmentInv, Extended, NEW key \in InputKeys'
    PROVE  Named(key) \subseteq InputKeys'
  <1>1. InputKeys \subseteq InputKeys'
    BY ChainExtended
  <1> QED
    BY <1>1 DEF SegmentInv, Named

LEMMA SegmentStep ==
    TakenInv /\ BodiesInv /\ PumpInv /\ SegmentInv /\ [Next]_vars => SegmentInv'
  <1> SUFFICES ASSUME TakenInv, BodiesInv, PumpInv, SegmentInv, [Next]_vars
               PROVE  SegmentInv'
    OBVIOUS
  <1>e. Extended /\ InputKeys \subseteq InputKeys'
    BY ChainStep, ChainExtended
  <1>u. ASSUME UNCHANGED <<con, flight>> PROVE SegmentInv'
    BY <1>u, <1>e, SegmentKeeps DEF SegmentInv
  <1>f. ASSUME UNCHANGED con, flight'.ins = flight.ins, flight'.inv = flight.inv,
               flight' = [pc |-> flight'.pc, ins |-> flight'.ins, inv |-> flight'.inv,
                          end |-> flight'.end, err |-> flight'.err, left |-> flight'.left]
        PROVE  SegmentInv'
    BY <1>f, <1>e DEF SegmentInv
  <1>0. ASSUME UNCHANGED con, flight' = NoFlight PROVE SegmentInv'
    BY <1>0, <1>e DEF SegmentInv, NoFlight
  <1>c. con = [mounted |-> con.mounted, wake |-> con.wake, seeded |-> con.seeded,
               read |-> con.read, taken |-> con.taken, named |-> con.named,
               segs |-> con.segs]
    BY DEF TakenInv, ConShape
  <1>a. AfterPull = [mounted |-> con.mounted, wake |-> con.wake, seeded |-> TRUE,
                     read |-> SeedAnswered \cup Pulled, taken |-> con.taken \cup Pulled,
                     named |-> con.named \ Pulled, segs |-> con.segs]
    <2>1. AfterPull = [con EXCEPT !.seeded = TRUE, !.read = SeedAnswered \cup Pulled,
                                  !.taken = con.taken \cup Pulled,
                                  !.named = con.named \ Pulled]
      BY <1>c, Zenon DEF AfterPull
    <2> QED
      BY <1>c, <2>1
  <1>p. Pulled \subseteq InputKeys
    BY DEF Pulled
  <1>1. ASSUME NEW n \in Notices, Accept(n) \/ Land(n) \/ PumpClaims(n) PROVE SegmentInv'
    BY <1>1, <1>u DEF Accept, Land, PumpClaims, turns
  <1>2. ASSUME NEW u \in Inputs, Invoke(u) PROVE SegmentInv'
    <2>1. con' = [con EXCEPT !.mounted = TRUE, !.wake = TRUE] /\ UNCHANGED flight
      BY <1>2 DEF Invoke
    <2>2. con'.segs = con.segs /\ con'.named = con.named
      BY <1>c, <2>1
    <2> QED
      BY <1>e, <2>1, <2>2, SegmentKeeps DEF SegmentInv
  <1>3. CASE PumpCommits
    <2>1. /\ \/ con' = con
             \/ con' = [con EXCEPT !.mounted = TRUE, !.wake = chain # <<>>]
          /\ UNCHANGED flight
      BY <1>3 DEF PumpCommits
    <2>2. con'.segs = con.segs /\ con'.named = con.named
      BY <1>c, <2>1
    <2> QED
      BY <1>e, <2>1, <2>2, SegmentKeeps DEF SegmentInv
  <1>4. CASE PumpNames
    <2> DEFINE named == Named(Material(pump.n))
    <2>1. Material(pump.n) \in InputKeys'
      BY <1>4, <1>e DEF PumpNames, PumpAt, PumpInv
    <2>2. named \subseteq InputKeys'
      BY <1>e, <2>1, NamedStands
    <2> HIDE DEF named
    <2>3. /\ \/ con' = con
             \/ con' = [con EXCEPT !.named = named, !.wake = TRUE]
          /\ UNCHANGED flight
      BY <1>4 DEF PumpNames, named
    <2>4. con'.segs = con.segs /\ (con'.named = con.named \/ con'.named = named)
      BY <1>c, <2>3
    <2> QED
      BY <1>e, <2>2, <2>3, <2>4, SegmentKeeps DEF SegmentInv
  <1>5. CASE \/ PumpWakes \/ PumpRests \/ PumpReads \/ PumpMarks \/ PumpMarkRefused
             \/ PumpCommitRefused \/ PumpScopeRefused \/ PumpAnswered
    BY <1>5, <1>u DEF PumpWakes, PumpRests, PumpReads, PumpMarks, PumpMarkRefused,
         PumpCommitRefused, PumpScopeRefused, PumpAnswered, turns
  <1>6. CASE \/ PumpLeft \/ PumpSettled \/ PumpHandsOff \/ PumpHandoffRefused
             \/ PumpSends \/ PumpConsumes \/ PumpConsumeRefused
    BY <1>6, <1>u DEF PumpLeft, PumpSettled, PumpHandsOff, PumpHandoffRefused,
         PumpSends, PumpConsumes, PumpConsumeRefused, turns
  <1>7. ASSUME NEW f \in Faces, FaceNext(f) PROVE SegmentInv'
    <2>1. CASE FaceObserves(f)
      <3> DEFINE key == Observation(settling[f].inv)
                 named == Named(key)
      <3>1. \/ UNCHANGED con
            \/ /\ chain' = Committed(key)
               /\ \/ UNCHANGED con
                  \/ con' = [con EXCEPT !.mounted = TRUE, !.wake = TRUE, !.named = named]
        BY <2>1 DEF FaceObserves
      <3>2. UNCHANGED flight
        BY <2>1 DEF FaceObserves
      <3>3. CASE UNCHANGED con
        BY <3>2, <3>3, <1>u
      <3>4. CASE /\ chain' = Committed(key)
                 /\ con' = [con EXCEPT !.mounted = TRUE, !.wake = TRUE, !.named = named]
        <4>1. key \in InputKeys'
          BY <3>4, CommitStands
        <4>2. named \subseteq InputKeys'
          BY <1>e, <4>1, NamedStands
        <4> HIDE DEF named, key
        <4>3. con'.segs = con.segs /\ con'.named = named
          BY <1>c, <3>4
        <4> QED
          BY <1>e, <3>2, <4>2, <4>3, SegmentKeeps
      <3> QED
        BY <3>1, <3>3, <3>4
    <2>2. CASE \/ FaceRecords(f) \/ FaceRegisters(f) \/ FaceRegisterRefused(f)
               \/ FaceCloses(f)
      BY <2>2, <1>u DEF FaceRecords, FaceRegisters, FaceRegisterRefused, FaceCloses, turns
    <2> QED
      BY <1>7, <2>1, <2>2 DEF FaceNext
  <1>8. CASE SegmentOpens
    <2>1. con' = [AfterPull EXCEPT !.segs = AfterPull.segs + 1]
      BY <1>8 DEF SegmentOpens
    <2>3. con'.segs = con.segs + 1 /\ con'.named = con.named \ Pulled
      BY <2>1, <1>a
    <2>4. flight' = [pc |-> "open", ins |-> Pulled, inv |-> con.segs + 1, end |-> "none",
                     err |-> FALSE, left |-> {}]
      BY <1>8 DEF SegmentOpens, NoFlight
    <2>5. con.segs \in Nat /\ con.segs + 1 \in 0 .. con.segs + 1
      BY DEF SegmentInv
    <2> QED
      BY <2>3, <2>4, <2>5, <1>e, <1>p DEF SegmentInv
  <1>9. CASE SegmentPulls
    <2>1. con' = AfterPull
      BY <1>9 DEF SegmentPulls
    <2>2. con'.segs = con.segs /\ con'.named = con.named \ Pulled
      BY <2>1, <1>a
    <2>3. flight' = [flight EXCEPT !.ins = flight.ins \cup Pulled]
      BY <1>9 DEF SegmentPulls
    <2>4. flight' = [pc |-> flight.pc, ins |-> flight.ins \cup Pulled, inv |-> flight.inv,
                     end |-> flight.end, err |-> flight.err, left |-> flight.left]
      BY <2>3 DEF SegmentInv
    <2> QED
      BY <2>2, <2>4, <1>e, <1>p DEF SegmentInv
  <1>10. CASE ConsumerParks
    <2>1. /\ con' = [con EXCEPT !.wake = FALSE, !.seeded = chain # <<>>,
                               !.read = SeedAnswered]
          /\ UNCHANGED flight
      BY <1>10 DEF ConsumerParks
    <2>2. con'.segs = con.segs /\ con'.named = con.named
      BY <1>c, <2>1
    <2> QED
      BY <1>e, <2>1, <2>2, SegmentKeeps DEF SegmentInv
  <1>11. CASE SegmentDecides \/ SegmentCommits \/ SegmentFails \/ SegmentRegisters
    <2>1. UNCHANGED con
      BY <1>11 DEF SegmentDecides, SegmentCommits, SegmentFails, SegmentRegisters
    <2>2. \E pc, end, err :
            flight' = [pc |-> pc, ins |-> flight.ins, inv |-> flight.inv, end |-> end,
                       err |-> err, left |-> flight.left]
      BY <1>11 DEF SegmentDecides, SegmentCommits, SegmentFails, SegmentRegisters,
         SegmentInv
    <2> QED
      BY <1>f, <2>1, <2>2
  <1>12. CASE SegmentTakes \/ SegmentSettles \/ SegmentSettled
    <2>1. UNCHANGED con
      BY <1>12 DEF SegmentTakes, SegmentSettles, SegmentSettled
    <2>2. \E pc, left :
            flight' = [pc |-> pc, ins |-> flight.ins, inv |-> flight.inv,
                       end |-> flight.end, err |-> flight.err, left |-> left]
      BY <1>12 DEF SegmentTakes, SegmentSettles, SegmentSettled, SegmentInv
    <2> QED
      BY <1>f, <2>1, <2>2
  <1>13. CASE SegmentSends \/ SegmentAbandoned
    BY <1>13, <1>0 DEF SegmentSends, SegmentAbandoned
  <1>14. CASE CloseBegins \/ ConsumersStop \/ PumpStops \/ Restart
    BY <1>14, <1>u DEF CloseBegins, ConsumersStop, PumpStops, Restart, turns
  <1>15. CASE Halts \/ Crash
    <2>1. con' = NoConsumer /\ flight' = NoFlight
      BY <1>15 DEF Halts, Crash, LoseProcess
    <2> QED
      BY <2>1 DEF SegmentInv, NoConsumer, NoFlight
  <1>16. CASE UNCHANGED vars
    BY <1>16, <1>u DEF vars, turns
  <1> QED
    BY <1>1, <1>2, <1>3, <1>4, <1>5, <1>6, <1>7, <1>8, <1>9, <1>10, <1>11, <1>12,
       <1>13, <1>14, <1>15, <1>16 DEF Next, PumpNext, SegmentNext, StopNext

LEMMA SettlementInit == Init => SettlementInv
  <1> SUFFICES ASSUME Init PROVE SettlementInv
    OBVIOUS
  <1>1. BodiesInv
    <2>1. chain = <<>> /\ chain \in Seq({})
      BY EmptySeq DEF Init
    <2>2. registered = {} /\ sent = {} /\ pump.owed = {}
      BY DEF Init, NoDrive
    <2> QED
      BY <2>1, <2>2 DEF BodiesInv
  <1>2. NoticesInv
    BY DEF Init, NoticesInv
  <1>3. PhaseInv
    BY BoundAssumption DEF Init, PhaseInv
  <1>4. PumpInv
    BY DEF Init, PumpInv, NoDrive, PumpPlaces
  <1>5. BarriersInv
    BY DEF Init, BarriersInv, NoSettling, NoFlight, Faces
  <1>6. EndsInv
    BY DEF Init, EndsInv, Ends, NoSettling, NoFlight, NoAnswer
  <1>7. SegmentInv
    BY DEF Init, SegmentInv, NoConsumer, NoFlight
  <1> QED
    BY <1>1, <1>2, <1>3, <1>4, <1>5, <1>6, <1>7 DEF SettlementInv

LEMMA SettlementStep ==
    MarkerInv /\ TakenInv /\ SettlementInv /\ [Next]_vars => SettlementInv'
  BY BodiesStep, NoticesStep, PhaseStep, PumpStep, BarriersStep, EndsStep, SegmentStep
     DEF SettlementInv

LEMMA SettlementTyped == TakenInv /\ SettlementInv => TypeOK
  BY DEF TakenInv, SettlementInv, BodiesInv, NoticesInv, PhaseInv, PumpInv, BarriersInv,
     EndsInv, SegmentInv, TypeOK, PumpPlaces, Ends

\* Every variable keeps its type, over closes, crashes and restarts: a body that is
\* sent was registered and stands on the chain, an account is the number of a drive of
\* this process, and what is named to the consumer was committed (settle_turn.go,
\* host.go and consumer.go).
THEOREM TypeCorrect == Spec => []TypeOK
  BY MarkerInit, MarkerStep, TakenInit, TakenStep, SettlementInit, SettlementStep,
     SettlementTyped, PTL DEF Spec
=============================================================================
