-------------------------- MODULE DelegationProofs --------------------------
(***************************************************************************)
(* Theorems about Delegation, for every finite set of tasks and callers,   *)
(* every set of bodies and every bound: the count of the bookings, the one *)
(* round that runs and settles as itself, and who serves a task in flight. *)
(***************************************************************************)
EXTENDS Delegation, FiniteSetTheorems, TLAPS

-----------------------------------------------------------------------------
(* The invariant.                                                          *)

Statuses  == Terminal \union {Unknown, "running"}
Admitting == {"admit", "withdraw", "fresh"}
\* A re-entry that has not opened its round, and one that has.
Asking    == {"ledger", "restore", "seed", "claim", "reactivate"}
Opened    == {"reopen", "serve", "wait", "unwind", "abandon"}
Entering  == Asking \union Opened \union {"giveback"}
FlightPcs == {"none", "register", "start", "fly", "complete", "advance", "pend", "flush",
              "land", "landing", "end"}

Tasked    == [status : Statuses, round : 0..MaxRounds, owed : SUBSET Rounds]
Entry     == [held : BOOLEAN, status : Statuses, round : 0..MaxRounds,
              pending : Terminal \union {Unknown}, booked : BOOLEAN,
              reopened : Terminal \union {Unknown}]
Slot      == [held : BOOLEAN, running : BOOLEAN, owed : Seq(Bodies)]
Round     == [pc : FlightPcs, input : Seq(Bodies), caller : Callers \union {Nil},
              at : 0..MaxRounds, outcome : Terminal \union {Unknown}, done : BOOLEAN]
Call      == [pc : Entering \union Admitting \union {"idle"}, task : Tasks \union {Nil},
              body : Bodies \union {Nil}, round : 0..MaxRounds, read : Statuses]

Types ==
    /\ registry \in [Tasks -> Tasked]
    /\ entries \in [Tasks -> Entry]
    /\ open \in Nat
    /\ served \in [Tasks -> Slot]
    /\ flights \in [Tasks -> [Rounds -> Round]]
    /\ callers \in [Callers -> Call]
    /\ \A c \in Callers : ~At(c, "idle") => callers[c].task \in Tasks
    /\ closer \in [pc : {"off", "offer", "land", "landing"}, task : Tasks \union {Nil}]
    /\ closer.pc \in {"land", "landing"} => closer.task \in Tasks
    /\ facts \in [Tasks -> SUBSET Seq(Bodies)]
    /\ faults \in 0..MaxFaults /\ stops \in 0..MaxStops
    /\ stuck \subseteq Tasks

\* What a re-entry holds at each point: the round it opened is one the registry reached,
\* and its entry is held from the first consultation on.
CallFits(c, t) ==
    callers[c].task = t /\ callers[c].pc \in Entering =>
        /\ callers[c].body \in Bodies
        /\ registry[t].status # Unknown
        /\ callers[c].pc \in Asking => callers[c].round = 0
        /\ callers[c].pc \in Opened \/ (At(c, "giveback") /\ callers[c].round # 0) =>
              2 <= callers[c].round /\ callers[c].round <= registry[t].round
        /\ At(c, "restore") => callers[c].read = "settled"
        /\ ~entries[t].held => callers[c].pc \in {"ledger", "restore"}
        /\ ~entries[t].held /\ At(c, "ledger") => registry[t].status = "settled"
CallsOf(t) == \A c \in Callers : CallFits(c, t)

\* The first round of a task has it alone until it is registered.
Admits(c, t) == At(c, "fresh") /\ callers[c].task = t
FirstOf(t) ==
    /\ (\E c \in Callers : Admits(c, t)) =>
          entries[t] = NoEntry /\ \A r \in Rounds : Flies(t, r, "none")
    /\ (\E c \in Callers : Admits(c, t)) \/ (\E r \in Rounds : Flies(t, r, "register")) =>
          \A d \in Callers : callers[d].task = t => callers[d].pc \notin Entering
    /\ \A r \in Rounds : flights[t][r].pc \in {"none", "register"} => flights[t][r].caller = Nil
    /\ registry[t].status = Unknown =>
          registry[t].round = 0 /\ entries[t] = NoEntry /\ \A r \in Rounds : Flies(t, r, "none")
    /\ registry[t].status # Unknown => registry[t].round # 0

\* The slot of a task is one claim's or one round's.
Claims(c, t) == callers[c].task = t /\ callers[c].pc \in {"reactivate", "reopen", "serve", "giveback"}
SlotOf(t) ==
    /\ \A c, d \in Callers : Claims(c, t) /\ Claims(d, t) => c = d
    /\ \A c \in Callers : Claims(c, t) =>
          served[t].running /\ \A r \in Rounds : Flies(t, r, "none")
    /\ \A r, s \in Rounds : ~Flies(t, r, "none") /\ ~Flies(t, s, "none") => r = s
    /\ \A r \in Rounds : flights[t][r].pc \notin {"none", "register"} => served[t].running
    /\ served[t].running => served[t].held
    /\ \A c \in Callers : At(c, "claim") /\ callers[c].task = t => served[t].held

\* Whoever opened the round in flight has it until a flight takes it over.
Tends(c, t) ==
    /\ callers[c].task = t
    /\ callers[c].pc \in {"fresh", "reopen", "serve", "unwind"} \/ (At(c, "giveback") /\ callers[c].round # 0)
Waits(c, t, r) == At(c, "wait") /\ callers[c].task = t /\ callers[c].round = r
TendsOf(t) ==
    /\ \A c, d \in Callers : Tends(c, t) /\ Tends(d, t) => c = d
    /\ \A c \in Callers : Tends(c, t) =>
          /\ InFlight(t)
          /\ registry[t].round = IF At(c, "fresh") THEN 1 ELSE callers[c].round
          /\ \A r \in Rounds : ~Unsettled(t, r)
    /\ \A r \in Rounds : Unsettled(t, r) => InFlight(t) /\ registry[t].round = r
    /\ \A c \in Callers :
          At(c, "abandon") /\ callers[c].task = t /\ callers[c].round = registry[t].round =>
             (\A d \in Callers : ~Tends(d, t)) /\ (\A r \in Rounds : ~Unsettled(t, r))
    /\ \A r \in Rounds : Flies(t, r, "start") =>
          flights[t][r].caller = Nil \/ Waits(flights[t][r].caller, t, r)

\* The ledger holds the round that runs, and books whatever is not terminal.
Holds(t, r) == entries[t].round = r /\ entries[t].status = "running" /\ entries[t].pending = Unknown
LedgerOf(t) ==
    /\ entries[t].held <=> entries[t].status # Unknown
    /\ entries[t].pending # Unknown => entries[t].booked
    /\ entries[t].booked => entries[t].held
    /\ entries[t].status = "running" =>
          entries[t].booked /\ (entries[t].round = 1 \/ entries[t].reopened \in Terminal)
    /\ \A r \in Rounds : ~Flies(t, r, "none") => entries[t].held
    /\ \A r \in Rounds : Unsettled(t, r) => Holds(t, r)
    /\ \A c \in Callers : At(c, "serve") /\ callers[c].task = t => Holds(t, callers[c].round)
    /\ \A r \in Rounds : flights[t][r].pc \in {"complete", "advance", "pend"} =>
          flights[t][r].outcome \in Terminal
    /\ \A r \in Rounds : Flies(t, r, "advance") => flights[t][r].at = r

ServedOf(t) ==
    InFlight(t) /\ t \notin stuck =>
        (\E c \in Callers : Tends(c, t)) \/ (\E r \in Rounds : Unsettled(t, r))

OfTask(t) == CallsOf(t) /\ FirstOf(t) /\ SlotOf(t) /\ TendsOf(t) /\ LedgerOf(t) /\ ServedOf(t)

\* Every re-entry that asks may open one more round.
Askers(t) == {c \in Callers : callers[c].task = t /\ callers[c].pc \in Asking}
RoundsLeft == \A t \in Tasks : registry[t].round + Cardinality(Askers(t)) <= MaxRounds

\* The bookings that stand, and the admissions under way.
Booked    == {t \in Tasks : entries[t].booked}
Admitters == {c \in Callers : callers[c].pc \in Admitting}
Counted   == open = Cardinality(Booked) + Cardinality(Admitters)

EachTask == \A t \in Tasks : OfTask(t)

DelegationInv == Types /\ EachTask /\ RoundsLeft /\ Counted

-----------------------------------------------------------------------------
(* What a step leaves alone.                                               *)

Engaged(d, u) == callers[d].task = u /\ callers[d].pc \in Entering \union {"fresh"}
\* A task no part of which a step moves, though a call of another task may move.
Still(u) ==
    /\ registry'[u].status = registry[u].status /\ registry'[u].round = registry[u].round
    /\ entries'[u] = entries[u]
    /\ served'[u] = served[u]
    /\ flights'[u] = flights[u]
    /\ u \in stuck => u \in stuck'
    /\ \A d \in Callers : callers'[d] = callers[d] \/ (~Engaged(d, u) /\ ~Engaged(d, u)')

LEMMA StillKept ==
    ASSUME Types, NEW u \in Tasks, OfTask(u), Still(u)
    PROVE  OfTask(u)'
  <1>1. \A d \in Callers : Engaged(d, u) \/ Engaged(d, u)' => callers'[d] = callers[d]
    BY DEF Still
  <1>2. \A d \in Callers : (callers'[d].task = u /\ callers'[d].pc \in Entering) =>
            callers'[d] = callers[d]
    BY <1>1 DEF Engaged, At, Entering, Asking, Opened
  <1>3. \A d \in Callers : /\ Admits(d, u)' <=> Admits(d, u)
                           /\ Claims(d, u)' <=> Claims(d, u)
                           /\ Tends(d, u)' <=> Tends(d, u)
    BY <1>1 DEF Engaged, At, Entering, Asking, Opened, Admits, Claims, Tends
  <1>4. \A d \in Callers : \A r \in Rounds : Waits(d, u, r)' <=> Waits(d, u, r)
    BY <1>1 DEF Engaged, At, Entering, Opened, Waits
  <1>5. \A r \in Rounds : Unsettled(u, r)' <=> Unsettled(u, r)
    BY DEF Still, Unsettled
  <1>6. CallsOf(u)'
    BY <1>2 DEF OfTask, CallsOf, CallFits, Still, At
  <1>7. FirstOf(u)'
    BY <1>2, <1>3 DEF OfTask, FirstOf, Still, Flies
  <1>8. SlotOf(u)'
    BY <1>1, <1>3 DEF OfTask, SlotOf, Still, Flies, At, Engaged, Entering, Asking
  <1>9. TendsOf(u)'
    <2>1. \A d \in Callers : Tends(d, u)' => callers'[d] = callers[d]
      BY <1>1 DEF Tends, Engaged, At, Entering, Opened
    <2>2. \A d \in Callers : At(d, "abandon")' /\ callers'[d].task = u => callers'[d] = callers[d]
      BY <1>1 DEF Engaged, At, Entering, Opened
    <2>3. ASSUME NEW r \in Rounds, Flies(u, r, "start")', flights'[u][r].caller # Nil
          PROVE  Waits(flights[u][r].caller, u, r)'
      <3>1. PICK c : c = flights[u][r].caller
        OBVIOUS
      <3>2. flights'[u][r].caller = c /\ Flies(u, r, "start")
        BY <2>3, <3>1 DEF Still, Flies
      <3>3. c \in Callers /\ Waits(c, u, r)
        BY <2>3, <3>1, <3>2 DEF OfTask, TendsOf, Types, Round
      <3> QED
        BY <3>2, <3>3, <1>4
    <2>4. \A c \in Callers : Tends(c, u)' =>
             /\ InFlight(u)'
             /\ registry'[u].round = IF At(c, "fresh")' THEN 1 ELSE callers'[c].round
      BY <1>3, <2>1 DEF OfTask, TendsOf, Still, InFlight, At
    <2>5. \A c \in Callers : At(c, "abandon")' /\ callers'[c].task = u /\ callers'[c].round = registry'[u].round =>
             (\A d \in Callers : ~Tends(d, u)) /\ (\A r \in Rounds : ~Unsettled(u, r))
      BY <2>2 DEF OfTask, TendsOf, Still, At
    <2>6. \A r \in Rounds : Unsettled(u, r)' => InFlight(u)' /\ registry'[u].round = r
      BY <1>5 DEF OfTask, TendsOf, Still, InFlight
    <2>7. /\ \A c, d \in Callers : Tends(c, u) /\ Tends(d, u) => c = d
          /\ \A c \in Callers : Tends(c, u) => \A r \in Rounds : ~Unsettled(u, r)
      BY DEF OfTask, TendsOf
    <2> QED
      BY <1>3, <1>5, <2>3, <2>4, <2>5, <2>6, <2>7 DEF TendsOf
  <1>10. LedgerOf(u)'
    <2>1. \A d \in Callers : At(d, "serve")' /\ callers'[d].task = u => callers'[d] = callers[d]
      BY <1>1 DEF Engaged, At, Entering, Opened
    <2> QED
      BY <1>5, <2>1 DEF OfTask, LedgerOf, Still, Holds, Flies, At
  <1>11. ServedOf(u)'
    BY <1>3, <1>5 DEF OfTask, ServedOf, Still, InFlight
  <1> QED
    BY <1>6, <1>7, <1>8, <1>9, <1>10, <1>11 DEF OfTask

\* A step at one task.
AtTask(t) ==
    /\ \A u \in Tasks : u # t =>
          /\ registry'[u] = registry[u] /\ entries'[u] = entries[u] /\ served'[u] = served[u]
          /\ flights'[u] = flights[u]
    /\ stuck \subseteq stuck'
    /\ \A d \in Callers :
          callers'[d] = callers[d]
             \/ \A u \in Tasks : u # t => ~Engaged(d, u) /\ ~Engaged(d, u)'

LEMMA AtTaskKept ==
    ASSUME Types, EachTask, NEW t \in Tasks, AtTask(t), OfTask(t)'
    PROVE  EachTask'
  <1>1. ASSUME NEW u \in Tasks, u # t PROVE OfTask(u)'
    <2>1. Still(u)
      BY <1>1 DEF AtTask, Still
    <2> QED
      BY <2>1, StillKept DEF EachTask
  <1> QED
    BY <1>1 DEF EachTask

LEMMA AllStill ==
    ASSUME Types, EachTask, \A u \in Tasks : Still(u)
    PROVE  EachTask'
  BY StillKept DEF EachTask

-----------------------------------------------------------------------------
(* What a call and a flight become.                                        *)

Only(c) == \A d \in Callers : d # c => callers'[d] = callers[d]
CallPcs == Entering \union Admitting \union {"idle"}

\* The call goes on, and nothing else of it changes.
Goes(c, pc) ==
    /\ Only(c)
    /\ callers'[c].pc = pc /\ callers'[c].task = callers[c].task /\ callers'[c].body = callers[c].body
    /\ callers'[c].round = callers[c].round /\ callers'[c].read = callers[c].read

Calling ==
    /\ callers \in [Callers -> Call]
    /\ \A c \in Callers : ~At(c, "idle") => callers[c].task \in Tasks

LEMMA GoGoes ==
    ASSUME Types, NEW c \in Callers, NEW pc \in CallPcs, Go(c, pc), ~At(c, "idle")
    PROVE  Goes(c, pc) /\ Calling'
  <1>1. callers \in [Callers -> Call] /\ callers[c].task \in Tasks
    BY DEF Types
  <1>2. Goes(c, pc)
    BY <1>1 DEF Go, Goes, Only, Call
  <1>3. callers' \in [Callers -> Call]
    BY <1>1 DEF Go, Call, CallPcs
  <1>4. \A d \in Callers : ~At(d, "idle")' => callers'[d].task \in Tasks
    BY <1>1, <1>2 DEF Goes, Only, At, Types
  <1> QED
    BY <1>2, <1>3, <1>4 DEF Calling

LEMMA IdleCall == Idle \in Call /\ Idle.pc = "idle"
  BY BoundsAssumption DEF Idle, Call, Entering, Statuses

LEMMA ReturnsLeaves ==
    ASSUME Types, NEW c \in Callers, Returns(c)
    PROVE  Only(c) /\ callers'[c] = Idle /\ Calling'
  <1>1. callers \in [Callers -> Call] /\ (\A d \in Callers : ~At(d, "idle") => callers[d].task \in Tasks)
    BY DEF Types
  <1>2. Only(c) /\ callers'[c] = Idle
    BY <1>1 DEF Returns, Only
  <1>3. callers' \in [Callers -> Call]
    BY <1>1, IdleCall DEF Returns
  <1> QED
    BY <1>1, <1>2, <1>3, IdleCall DEF Calling, At, Only

\* A flight goes on, alone.
Alone(t, r) ==
    /\ \A u \in Tasks : u # t => flights'[u] = flights[u]
    /\ \A s \in Rounds : s # r => flights'[t][s] = flights[t][s]
Turned(t, r, pc) ==
    /\ Alone(t, r)
    /\ flights'[t][r].pc = pc /\ flights'[t][r].input = flights[t][r].input
    /\ flights'[t][r].caller = flights[t][r].caller /\ flights'[t][r].at = flights[t][r].at
    /\ flights'[t][r].outcome = flights[t][r].outcome /\ flights'[t][r].done = flights[t][r].done

Flying == flights \in [Tasks -> [Rounds -> Round]]

LEMMA TurnsTurned ==
    ASSUME Types, NEW t \in Tasks, NEW r \in Rounds, NEW pc \in FlightPcs, Turns(t, r, pc)
    PROVE  Turned(t, r, pc) /\ Flying'
  <1>1. Flying /\ flights[t] \in [Rounds -> Round] /\ flights[t][r] \in Round
    BY DEF Types, Flying
  <1> DEFINE new == [flights[t][r] EXCEPT !.pc = pc]
  <1>2. new \in Round /\ new.pc = pc /\ new.input = flights[t][r].input
        /\ new.caller = flights[t][r].caller /\ new.at = flights[t][r].at
        /\ new.outcome = flights[t][r].outcome /\ new.done = flights[t][r].done
    BY <1>1 DEF Round
  <1>3. flights' = [flights EXCEPT ![t] = [flights[t] EXCEPT ![r] = new]]
    BY <1>1 DEF Turns, Flying
  <1> HIDE DEF new
  <1>4. flights'[t][r] = new /\ Alone(t, r) /\ Flying'
    BY <1>1, <1>2, <1>3 DEF Flying, Alone
  <1> QED
    BY <1>2, <1>4 DEF Turned

-----------------------------------------------------------------------------
(* The admission.                                                          *)

LEMMA OpenedNat == ASSUME Types PROVE withdrawn \in Nat /\ open + 1 \in Nat
  BY DEF Types, withdrawn

LEMMA DelegateKeeps ==
    ASSUME Types, EachTask, NEW c \in Callers, NEW t \in Tasks, Delegate(c, t)
    PROVE  Types' /\ EachTask'
  <1>1. [Idle EXCEPT !.pc = "admit", !.task = t] \in Call
    BY IdleCall DEF Call, Admitting
  <1>2. Only(c) /\ callers' \in [Callers -> Call] /\ callers'[c].pc = "admit" /\ callers'[c].task = t
    BY <1>1, IdleCall DEF Delegate, Only, Types, Call
  <1>3. Types'
    BY <1>2, OpenedNat DEF Types, Delegate, bounds, At, Only
  <1>4. ASSUME NEW u \in Tasks PROVE Still(u)
    BY <1>2 DEF Delegate, Still, Engaged, Entering, Asking, Opened, At, Only, bounds
  <1> QED
    BY <1>3, <1>4, AllStill

LEMMA WithdrawsKeeps ==
    ASSUME Types, EachTask, NEW c \in Callers, Withdraws(c)
    PROVE  Types' /\ EachTask'
  <1>1. Only(c) /\ callers'[c] = Idle /\ Calling'
    BY ReturnsLeaves DEF Withdraws
  <1>2. Types'
    BY <1>1, OpenedNat DEF Types, Calling, Withdraws, bounds, At
  <1>3. ASSUME NEW u \in Tasks PROVE Still(u)
    BY <1>1, IdleCall DEF Withdraws, Still, Engaged, Entering, Asking, Opened, At, Only, bounds
  <1> QED
    BY <1>2, <1>3, AllStill

LEMMA AdmitKeeps ==
    ASSUME Types, EachTask, NEW c \in Callers, NEW t \in Tasks, callers[c].task = t, Admit(c)
    PROVE  Types' /\ EachTask'
  <1>0. t \in Tasks /\ At(c, "admit")
    BY DEF Admit
  <1>1. CASE Go(c, "withdraw") /\ UNCHANGED registry
    <2>1. Goes(c, "withdraw") /\ Calling'
      BY <1>0, <1>1, GoGoes DEF At, CallPcs, Admitting
    <2>2. Types'
      BY <1>1, <2>1 DEF Types, Calling, Admit, bounds, At
    <2>3. ASSUME NEW u \in Tasks PROVE Still(u)
      BY <1>0, <1>1, <2>1 DEF Admit, Still, Engaged, Entering, Asking, Opened, At, Goes, Only, bounds
    <2> QED
      BY <2>2, <2>3, AllStill
  <1>2. CASE /\ registry[t].status = Unknown
             /\ registry' = [registry EXCEPT ![t].status = "running", ![t].round = 1]
             /\ Go(c, "fresh")
    <2>1. Goes(c, "fresh") /\ Calling'
      BY <1>0, <1>2, GoGoes DEF At, CallPcs, Admitting
    <2> DEFINE x == [registry[t] EXCEPT !.status = "running", !.round = 1]
    <2>2. x \in Tasked /\ x.status = "running" /\ x.round = 1
      <3>1. registry[t] \in Tasked
        BY DEF Types
      <3>2. 1 \in 0..MaxRounds
        BY BoundsAssumption
      <3> QED
        BY <3>1, <3>2 DEF Tasked, Statuses
    <2>3. registry' = [registry EXCEPT ![t] = x]
      BY <1>0, <1>2 DEF Types
    <2> HIDE DEF x
    <2>4. /\ registry' \in [Tasks -> Tasked] /\ registry'[t] = x
          /\ \A u \in Tasks : u # t => registry'[u] = registry[u]
      BY <1>0, <2>2, <2>3 DEF Types
    <2>5. UNCHANGED <<entries, open, served, flights, closer, facts, faults, stops, stuck>>
      BY DEF Admit, bounds
    <2>6. Types'
      BY <2>1, <2>4, <2>5 DEF Types, Calling, At
    <2>7. AtTask(t)
      BY <1>0, <2>1, <2>4, <2>5 DEF AtTask, Engaged, Goes, Only
    <2>8. /\ entries[t] = NoEntry /\ (\A r \in Rounds : Flies(t, r, "none"))
          /\ \A d \in Callers : callers[d].task = t => callers[d].pc \notin Entering
      BY <1>0, <1>2 DEF EachTask, OfTask, FirstOf, CallsOf, CallFits
    <2>9. /\ \A d \in Callers : callers'[d].task = t => callers'[d].pc \notin Entering
          /\ \A d \in Callers : callers'[d].task = t /\ callers'[d].pc \in Entering \union {"fresh"} => d = c
      <3>1. ASSUME NEW d \in Callers, d # c, callers[d].task = t PROVE callers[d].pc # "fresh"
        BY <1>0, <1>2, <3>1 DEF EachTask, OfTask, TendsOf, Tends, InFlight, Unknown
      <3>2. callers'[c].pc = "fresh" /\ "fresh" \notin Entering
        BY <2>1 DEF Goes, Entering, Asking, Opened
      <3> QED
        BY <2>1, <2>8, <3>1, <3>2 DEF Goes, Only
    <2>10. CallsOf(t)'
      BY <2>9 DEF CallsOf, CallFits
    <2>11. FirstOf(t)'
      BY <1>0, <2>2, <2>4, <2>5, <2>8, <2>9 DEF FirstOf, Flies, EachTask, OfTask, Unknown
    <2>12. SlotOf(t)'
      BY <1>0, <2>5, <2>8, <2>9 DEF SlotOf, EachTask, OfTask, Flies, Claims, At, Entering, Asking, Opened
    <2>13. TendsOf(t)'
      BY <1>0, <2>1, <2>2, <2>4, <2>5, <2>8, <2>9
      DEF TendsOf, Tends, Waits, InFlight, Flies, Unsettled, At, Entering, Opened, Goes
    <2>14. LedgerOf(t)'
      BY <1>0, <2>5, <2>8, <2>9 DEF LedgerOf, EachTask, OfTask, Flies, Unsettled, Holds, At, Entering, Opened
    <2>15. ServedOf(t)'
      BY <1>0, <2>1 DEF ServedOf, Tends, Goes, At
    <2> QED
      BY <1>0, <2>6, <2>7, <2>10, <2>11, <2>12, <2>13, <2>14, <2>15, AtTaskKept DEF OfTask
  <1> QED
    BY <1>1, <1>2 DEF Admit

LEMMA EntersKeeps ==
    ASSUME Types, EachTask, NEW c \in Callers, NEW t \in Tasks, callers[c].task = t, Enters(c)
    PROVE  Types' /\ EachTask'
  <1> DEFINE e == [NoEntry EXCEPT !.held = TRUE, !.status = "running", !.round = 1, !.booked = TRUE]
  <1>1. 1 \in Rounds /\ 1 \in 0..MaxRounds /\ 0 \in 0..MaxRounds
    BY BoundsAssumption DEF Rounds
  <1>2. /\ e \in Entry /\ e.held /\ e.status = "running" /\ e.round = 1 /\ e.booked
        /\ e.pending = Unknown
    BY <1>1 DEF NoEntry, Entry, Statuses
  <1>3. entries' = [entries EXCEPT ![t] = e] /\ Turns(t, 1, "register")
    BY DEF Enters, Turns
  <1> HIDE DEF e
  <1>4. /\ entries' \in [Tasks -> Entry] /\ entries'[t] = e
        /\ \A u \in Tasks : u # t => entries'[u] = entries[u]
    BY <1>2, <1>3 DEF Types
  <1>5. Turned(t, 1, "register") /\ Flying'
    BY <1>1, <1>3, TurnsTurned DEF FlightPcs
  <1>6. Only(c) /\ callers'[c] = Idle /\ Calling'
    BY ReturnsLeaves DEF Enters
  <1>7. UNCHANGED <<registry, open, served, closer, facts, faults, stops, stuck>> /\ At(c, "fresh")
    BY DEF Enters, bounds
  <1>8. Types'
    BY <1>4, <1>5, <1>6, <1>7 DEF Types, Calling, Flying, At
  <1>9. AtTask(t)
    BY <1>4, <1>5, <1>6, <1>7, IdleCall
    DEF AtTask, Engaged, Only, Turned, Alone, Entering, Asking, Opened
  <1>10. /\ entries[t] = NoEntry /\ (\A r \in Rounds : Flies(t, r, "none"))
         /\ \A d \in Callers : callers[d].task = t => callers[d].pc \notin Entering
    BY <1>7 DEF EachTask, OfTask, FirstOf, Admits
  <1>11. \A d \in Callers : Tends(d, t) => d = c
    <2>1. Tends(c, t)
      BY <1>7 DEF Tends, At
    <2> QED
      BY <2>1 DEF EachTask, OfTask, TendsOf
  <1>12. InFlight(t) /\ registry[t].round = 1 /\ registry[t].status # Unknown
    <2>1. Tends(c, t)
      BY <1>7 DEF Tends, At
    <2>2. InFlight(t) /\ registry[t].round = 1
      BY <1>7, <2>1 DEF EachTask, OfTask, TendsOf
    <2> QED
      BY <2>2 DEF InFlight, Unknown
  <1>13. \A d \in Callers : callers'[d].task = t =>
            callers'[d].pc \notin Entering /\ callers'[d].pc # "fresh"
    <2>1. ASSUME NEW d \in Callers, d # c, callers[d].task = t PROVE callers[d].pc # "fresh"
      BY <1>11, <2>1 DEF Tends
    <2>2. callers'[c].pc \notin Entering /\ callers'[c].pc # "fresh"
      BY <1>6, IdleCall DEF Entering, Asking, Opened
    <2> QED
      BY <1>6, <1>10, <2>1, <2>2 DEF Only
  <1>14. \A r \in Rounds : ~Flies(t, r, "none")' => r = 1 /\ flights'[t][r].pc = "register"
    BY <1>5, <1>10 DEF Turned, Alone, Flies
  <1>15. CallsOf(t)'
    BY <1>13 DEF CallsOf, CallFits
  <1>16. FirstOf(t)'
    <2>1. \A r \in Rounds : flights'[t][r].caller = Nil
      BY <1>5, <1>10 DEF EachTask, OfTask, FirstOf, Flies, Turned, Alone
    <2> QED
      BY <1>7, <1>12, <1>13, <2>1 DEF FirstOf, Admits, At
  <1>17. SlotOf(t)'
    BY <1>7, <1>13, <1>14 DEF SlotOf, EachTask, OfTask, Claims, Flies, At, Entering, Asking, Opened
  <1>18. \A d \in Callers : ~Tends(d, t)' /\ ~(At(d, "abandon") /\ callers[d].task = t)'
    BY <1>13 DEF Tends, At, Entering, Opened
  <1>19. TendsOf(t)'
    BY <1>7, <1>12, <1>14, <1>18 DEF TendsOf, InFlight, Unsettled, Flies
  <1>20. LedgerOf(t)'
    BY <1>2, <1>4, <1>13, <1>14 DEF LedgerOf, Holds, Unsettled, Flies, At, Entering, Opened, Unknown
  <1>21. ServedOf(t)'
    BY <1>1, <1>5 DEF ServedOf, Unsettled, Turned
  <1> QED
    BY <1>8, <1>9, <1>15, <1>16, <1>17, <1>19, <1>20, <1>21, AtTaskKept DEF OfTask

-----------------------------------------------------------------------------
(* When each part of the invariant survives a step at its task.            *)

LEMMA CallsFrame ==
    ASSUME Types, Types', NEW t \in Tasks, CallsOf(t),
           registry[t].status # Unknown => registry'[t].status # Unknown,
           registry[t].round <= registry'[t].round,
           entries[t].held => entries'[t].held,
           ~entries'[t].held => registry'[t].status = registry[t].status,
           \A d \in Callers : callers'[d] = callers[d] \/ CallFits(d, t)'
    PROVE  CallsOf(t)'
  <1>1. registry[t].round \in Nat /\ registry'[t].round \in Nat
    BY DEF Types, Tasked
  <1>2. \A d \in Callers : callers[d].round \in Nat
    BY DEF Types, Call
  <1>3. ASSUME NEW d \in Callers, callers'[d] = callers[d] PROVE CallFits(d, t)'
    BY <1>1, <1>2, <1>3 DEF CallsOf, CallFits, At
  <1> QED
    BY <1>3 DEF CallsOf, CallFits

LEMMA FirstFrame ==
    ASSUME NEW t \in Tasks, FirstOf(t),
           registry'[t].status # Unknown, registry'[t].round # 0,
           \A d \in Callers : ~Admits(d, t)',
           \A r \in Rounds : Flies(t, r, "register")' => Flies(t, r, "register"),
           (\E r \in Rounds : Flies(t, r, "register")') =>
              \A d \in Callers : callers'[d] = callers[d] \/ callers'[d].pc = "idle",
           \A r \in Rounds : flights'[t][r].pc \in {"none", "register"} => flights'[t][r].caller = Nil
    PROVE  FirstOf(t)'
  <1>1. ASSUME NEW r \in Rounds, Flies(t, r, "register")', NEW d \in Callers, callers'[d].task = t
        PROVE  callers'[d].pc \notin Entering
    BY <1>1 DEF FirstOf, Flies, Entering, Asking, Opened
  <1> QED
    BY <1>1 DEF FirstOf

LEMMA SlotFrame ==
    ASSUME NEW t \in Tasks, SlotOf(t),
           \A d \in Callers : Claims(d, t)' => Claims(d, t),
           \A r \in Rounds : Flies(t, r, "none") => Flies(t, r, "none")',
           \A r \in Rounds : flights'[t][r].pc \notin {"none", "register"} =>
                                flights[t][r].pc \notin {"none", "register"},
           served'[t].running = served[t].running, served[t].held => served'[t].held,
           \A d \in Callers : At(d, "claim")' /\ callers'[d].task = t =>
              (At(d, "claim") /\ callers[d].task = t) \/ served'[t].held
    PROVE  SlotOf(t)'
  BY DEF SlotOf, Flies

LEMMA TendsFrame ==
    ASSUME NEW t \in Tasks, TendsOf(t),
           registry'[t].status = registry[t].status, registry'[t].round = registry[t].round,
           \A d \in Callers : Tends(d, t)' =>
              /\ Tends(d, t) /\ callers'[d].round = callers[d].round
              /\ At(d, "fresh")' <=> At(d, "fresh"),
           \A r \in Rounds : Unsettled(t, r)' => Unsettled(t, r),
           \A d \in Callers : At(d, "abandon")' /\ callers'[d].task = t =>
              At(d, "abandon") /\ callers[d].task = t /\ callers'[d].round = callers[d].round,
           \A r \in Rounds : Flies(t, r, "start")' =>
              flights'[t][r].caller = Nil \/ Waits(flights[t][r].caller, t, r)'
    PROVE  TendsOf(t)'
  <1>1. \A r \in Rounds : Flies(t, r, "start")' =>
           flights'[t][r].caller = Nil \/ Waits(flights[t][r].caller, t, r)'
    OBVIOUS
  <1> QED
    BY DEF TendsOf, InFlight

LEMMA LedgerFrame ==
    ASSUME NEW t \in Tasks, LedgerOf(t), entries'[t] = entries[t],
           \A r \in Rounds : Flies(t, r, "none") => Flies(t, r, "none")',
           \A r \in Rounds : Unsettled(t, r)' => Unsettled(t, r),
           \A d \in Callers : At(d, "serve")' /\ callers'[d].task = t =>
              At(d, "serve") /\ callers[d].task = t /\ callers'[d].round = callers[d].round,
           \A r \in Rounds : flights'[t][r].pc \in {"complete", "advance", "pend"} =>
              flights'[t][r].outcome \in Terminal,
           \A r \in Rounds : Flies(t, r, "advance")' => flights'[t][r].at = r
    PROVE  LedgerOf(t)'
  BY DEF LedgerOf, Holds, Flies

LEMMA ServedFrame ==
    ASSUME NEW t \in Tasks, ServedOf(t),
           registry'[t].status = registry[t].status, stuck \subseteq stuck',
           \A d \in Callers : Tends(d, t) => Tends(d, t)',
           \A r \in Rounds : Unsettled(t, r) => Unsettled(t, r)'
    PROVE  ServedOf(t)'
  BY DEF ServedOf, InFlight

-----------------------------------------------------------------------------
(* A re-entry before it opens its round.                                   *)

LEMMA EnteringBegun ==
    ASSUME NEW t \in Tasks, OfTask(t), NEW c \in Callers, callers[c].task = t,
           callers[c].pc \in Entering
    PROVE  /\ registry[t].status # Unknown
           /\ \A d \in Callers : ~Admits(d, t)
           /\ \A r \in Rounds : ~Flies(t, r, "register")
  BY DEF OfTask, CallsOf, CallFits, FirstOf

LEMMA FlyingBegun ==
    ASSUME NEW t \in Tasks, OfTask(t), NEW r \in Rounds, ~Flies(t, r, "none")
    PROVE  registry[t].status # Unknown /\ \A d \in Callers : ~Admits(d, t)
  BY DEF OfTask, FirstOf

\* A call at t that only asks, before and after.
Asks(c, t) ==
    /\ Only(c)
    /\ callers[c].pc \in {"idle", "ledger", "restore", "seed", "claim"}
    /\ ~At(c, "idle") => callers[c].task = t
    /\ callers'[c].pc \in {"idle", "ledger", "restore", "seed", "claim"}
    /\ callers'[c].pc # "idle" => callers'[c].task = t

LEMMA AsksSame ==
    ASSUME NEW c \in Callers, NEW t \in Tasks, Asks(c, t)
    PROVE  \A d \in Callers :
              /\ Claims(d, t)' <=> Claims(d, t)
              /\ Tends(d, t)' <=> Tends(d, t)
              /\ Admits(d, t)' <=> Admits(d, t)
              /\ \A r \in Rounds : Waits(d, t, r)' <=> Waits(d, t, r)
              /\ Tends(d, t) => callers'[d] = callers[d]
              /\ At(d, "abandon")' => callers'[d] = callers[d]
              /\ At(d, "serve")' => callers'[d] = callers[d]
              /\ callers'[d] # callers[d] => \A u \in Tasks : u # t => ~Engaged(d, u) /\ ~Engaged(d, u)'
  BY DEF Asks, Only, Claims, Tends, Admits, Waits, At, Engaged, Entering, Asking, Opened

\* A call asks on: nothing of the task moves but the bodies its slot owes.
LEMMA AsksKeeps ==
    ASSUME Types, Types', EachTask, NEW c \in Callers, NEW t \in Tasks, Asks(c, t),
           UNCHANGED <<registry, entries, flights, stuck>>,
           \A u \in Tasks : u # t => served'[u] = served[u],
           served'[t].running = served[t].running, served[t].held => served'[t].held,
           callers'[c].pc = "claim" => served'[t].held,
           CallFits(c, t)',
           callers'[c].pc = "idle" \/ callers[c].pc # "idle" \/ registry[t].status = "settled"
    PROVE  EachTask'
  <1>1. OfTask(t)
    BY DEF EachTask
  <1>2. AtTask(t)
    BY AsksSame DEF AtTask
  <1>3. CallsOf(t)'
    <2>1. registry[t].round <= registry'[t].round
      BY DEF Types, Tasked
    <2>2. \A d \in Callers : callers'[d] = callers[d] \/ CallFits(d, t)'
      BY DEF Asks, Only
    <2> QED
      BY <1>1, <2>1, <2>2, CallsFrame DEF OfTask
  <1>4. FirstOf(t)'
    <2>1. CASE callers'[c].pc = "idle"
      BY <1>1, <2>1, AsksSame DEF OfTask, FirstOf, Asks, Only, Flies, Entering, Asking, Opened
    <2>2. CASE callers'[c].pc # "idle"
      <3>1. /\ registry[t].status # Unknown
            /\ \A d \in Callers : ~Admits(d, t)
            /\ \A r \in Rounds : ~Flies(t, r, "register")
        <4>1. CASE callers[c].pc # "idle"
          BY <1>1, <4>1, EnteringBegun DEF Asks, Entering, Asking, At
        <4>2. CASE registry[t].status = "settled"
          <5>1. ~InFlight(t) /\ "settled" # Unknown
            BY <4>2 DEF InFlight, Unknown
          <5>2. \A d \in Callers : ~Tends(d, t)
            BY <1>1, <5>1 DEF OfTask, TendsOf
          <5>3. \A r \in Rounds : ~Unsettled(t, r)
            BY <1>1, <5>1 DEF OfTask, TendsOf
          <5> QED
            BY <4>2, <5>1, <5>2, <5>3 DEF Tends, Admits, Unsettled, Flies, At
        <4> QED
          BY <2>2, <4>1, <4>2
      <3> QED
        BY <1>1, <3>1, AsksSame DEF OfTask, FirstOf, Flies
    <2> QED
      BY <2>1, <2>2
  <1>5. SlotOf(t)'
    BY <1>1, AsksSame, SlotFrame DEF OfTask, Flies, At, Asks, Only
  <1>6. TendsOf(t)'
    BY <1>1, AsksSame DEF OfTask, TendsOf, InFlight, Unsettled, Flies, At, Types, Round
  <1>7. LedgerOf(t)'
    BY <1>1, AsksSame DEF OfTask, LedgerOf, Holds, Unsettled, Flies, At
  <1>8. ServedOf(t)'
    BY <1>1, AsksSame DEF OfTask, ServedOf, InFlight, Unsettled
  <1> QED
    BY <1>2, <1>3, <1>4, <1>5, <1>6, <1>7, <1>8, AtTaskKept DEF OfTask

LEMMA ReentersKeeps ==
    ASSUME Types, EachTask, NEW c \in Callers, NEW t \in Tasks, NEW body \in Bodies,
           Reenters(c, t, body)
    PROVE  Types' /\ EachTask'
  <1>1. [Idle EXCEPT !.pc = "ledger", !.task = t, !.body = body] \in Call
    BY IdleCall DEF Call, Entering, Asking
  <1>2. /\ Only(c) /\ callers' \in [Callers -> Call] /\ callers'[c].pc = "ledger"
        /\ callers'[c].task = t /\ callers'[c].body = body /\ callers'[c].round = 0
    BY <1>1 DEF Reenters, Only, Types, Idle
  <1>3. UNCHANGED <<registry, entries, open, served, flights, closer, facts, faults, stops, stuck>>
    BY DEF Reenters, Untouched, accounts, bounds
  <1>4. Types'
    BY <1>2, <1>3 DEF Types, At, Only
  <1>5. Asks(c, t) /\ registry[t].status = "settled"
    BY <1>2 DEF Asks, Reenters, At
  <1>6. CallFits(c, t)'
    BY <1>2, <1>3, <1>5 DEF CallFits, At, Entering, Asking, Opened, Unknown
  <1> QED
    BY <1>2, <1>3, <1>4, <1>5, <1>6, AsksKeeps

LEMMA ConsultsKeeps ==
    ASSUME Types, EachTask, NEW c \in Callers, NEW t \in Tasks, callers[c].task = t, Consults(c)
    PROVE  Types' /\ EachTask'
  <1>0. At(c, "ledger") /\ CallFits(c, t) /\ OfTask(t) /\ registry[t].status \in Statuses
    BY DEF Consults, EachTask, OfTask, CallsOf, Types, Tasked
  <1>1. UNCHANGED <<registry, entries, open, served, flights, closer, facts, faults, stops, stuck>>
    BY DEF Consults, Untouched, accounts, bounds
  <1>2. CASE Returns(c)
    <2>1. Only(c) /\ callers'[c] = Idle /\ Calling'
      BY <1>2, ReturnsLeaves
    <2>2. Types'
      BY <1>1, <2>1 DEF Types, Calling, At
    <2>3. Asks(c, t) /\ CallFits(c, t)'
      BY <1>0, <2>1, IdleCall DEF Asks, CallFits, At, Entering, Asking, Opened
    <2> QED
      BY <1>0, <1>1, <2>1, <2>2, <2>3, IdleCall, AsksKeeps DEF At
  <1>3. CASE entries[t].held /\ Go(c, "seed")
    <2>1. Goes(c, "seed") /\ Calling'
      BY <1>0, <1>3, GoGoes DEF At, CallPcs, Entering, Asking
    <2>2. Types'
      BY <1>1, <2>1 DEF Types, Calling, At
    <2>3. Asks(c, t) /\ CallFits(c, t)'
      BY <1>0, <1>1, <1>3, <2>1 DEF Goes, Asks, CallFits, At, Entering, Asking, Opened
    <2> QED
      BY <1>0, <1>1, <2>1, <2>2, <2>3, AsksKeeps DEF At, Goes
  <1>4. CASE ~entries[t].held /\ callers' = [callers EXCEPT ![c].pc = "restore", ![c].read = registry[t].status]
    <2>1. callers[c] \in Call /\ callers \in [Callers -> Call]
      BY DEF Types
    <2>2. /\ Only(c) /\ callers' \in [Callers -> Call]
          /\ callers'[c].pc = "restore" /\ callers'[c].task = t /\ callers'[c].read = registry[t].status
          /\ callers'[c].body = callers[c].body /\ callers'[c].round = callers[c].round
      BY <1>0, <1>4, <2>1 DEF Only, Call, Entering, Asking
    <2>3. Types'
      BY <1>0, <1>1, <2>2 DEF Types, At, Only
    <2>4. Asks(c, t) /\ CallFits(c, t)'
      BY <1>0, <1>1, <1>4, <2>2 DEF Asks, CallFits, At, Entering, Asking, Opened
    <2> QED
      BY <1>0, <1>1, <2>2, <2>3, <2>4, AsksKeeps DEF At
  <1> QED
    BY <1>0, <1>2, <1>3, <1>4 DEF Consults

LEMMA SeedKeeps ==
    ASSUME Types, EachTask, NEW c \in Callers, NEW t \in Tasks, callers[c].task = t, Seed(c)
    PROVE  Types' /\ EachTask'
  <1>0. At(c, "seed") /\ CallFits(c, t) /\ OfTask(t)
    BY DEF Seed, EachTask, OfTask, CallsOf
  <1>1. UNCHANGED <<registry, entries, open, flights, closer, facts, faults, stops, stuck>>
    BY DEF Seed, bounds
  <1> DEFINE slot == [NoSlot EXCEPT !.held = TRUE]
  <1>2. slot \in Slot /\ slot.held /\ ~slot.running
    <2>1. <<>> \in Seq(Bodies)
      OBVIOUS
    <2> QED
      BY <2>1 DEF NoSlot, Slot
  <1>3. served' = served \/ (~served[t].held /\ served' = [served EXCEPT ![t] = slot])
    BY DEF Seed
  <1> HIDE DEF slot
  <1>4. /\ served' \in [Tasks -> Slot] /\ \A u \in Tasks : u # t => served'[u] = served[u]
        /\ served'[t].running = served[t].running /\ (served[t].held => served'[t].held)
    <2>1. served[t].running => served[t].held
      BY <1>0 DEF OfTask, SlotOf
    <2>2. CASE served' = served
      BY <2>2 DEF Types
    <2>3. CASE ~served[t].held /\ served' = [served EXCEPT ![t] = slot]
      <3>1. served' \in [Tasks -> Slot] /\ served'[t] = slot /\ \A u \in Tasks : u # t => served'[u] = served[u]
        BY <1>2, <2>3 DEF Types
      <3>2. served[t].running \in BOOLEAN /\ slot.running \in BOOLEAN
        BY <1>2 DEF Types, Slot
      <3> QED
        BY <1>2, <2>1, <2>3, <3>1, <3>2
    <2> QED
      BY <1>3, <2>2, <2>3
  <1>5. CASE Returns(c)
    <2>1. Only(c) /\ callers'[c] = Idle /\ Calling'
      BY <1>5, ReturnsLeaves
    <2>2. Types'
      BY <1>1, <1>4, <2>1 DEF Types, Calling, At
    <2>3. Asks(c, t) /\ CallFits(c, t)'
      BY <1>0, <2>1, IdleCall DEF Asks, CallFits, At, Entering, Asking, Opened
    <2> QED
      BY <1>0, <1>1, <1>4, <2>1, <2>2, <2>3, IdleCall, AsksKeeps DEF At
  <1>6. CASE served'[t].held /\ Go(c, "claim")
    <2>1. Goes(c, "claim") /\ Calling'
      BY <1>0, <1>6, GoGoes DEF At, CallPcs, Entering, Asking
    <2>2. Types'
      BY <1>1, <1>4, <2>1 DEF Types, Calling, At
    <2>3. Asks(c, t) /\ CallFits(c, t)'
      BY <1>0, <1>1, <2>1 DEF Goes, Asks, CallFits, At, Entering, Asking, Opened
    <2> QED
      BY <1>0, <1>1, <1>4, <1>6, <2>2, <2>3, AsksKeeps DEF At
  <1> QED
    BY <1>5, <1>6 DEF Seed

LEMMA RestoreKeeps ==
    ASSUME Types, EachTask, NEW c \in Callers, NEW t \in Tasks, callers[c].task = t, RestoreEntry(c)
    PROVE  Types' /\ EachTask'
  <1>0. At(c, "restore") /\ CallFits(c, t) /\ OfTask(t) /\ callers[c].read = "settled"
    BY DEF RestoreEntry, EachTask, OfTask, CallsOf, CallFits, Entering, Asking, At
  <1>1. UNCHANGED <<registry, open, served, flights, closer, facts, faults, stops, stuck>>
    BY DEF RestoreEntry, bounds
  <1>2. Goes(c, "ledger") /\ Calling'
    BY <1>0, GoGoes DEF RestoreEntry, At, CallPcs, Entering, Asking
  <1>3. Asks(c, t)
    BY <1>0, <1>2 DEF Goes, Asks, At
  <1>4. CASE entries' = entries
    <2>1. Types'
      BY <1>1, <1>2, <1>4 DEF Types, Calling, At
    <2>2. CASE entries[t].held
      <3>1. CallFits(c, t)'
        BY <1>0, <1>1, <1>2, <1>4, <2>2 DEF Goes, CallFits, At, Entering, Asking, Opened
      <3> QED
        BY <1>0, <1>1, <1>2, <1>3, <1>4, <2>1, <3>1, AsksKeeps DEF At, Goes
    <2>3. CASE ~entries[t].held
      BY <1>0, <1>4, <2>3, ZenonT(60) DEF RestoreEntry, Types, Entry, NoEntry
    <2> QED
      BY <2>1, <2>2, <2>3
  <1> DEFINE e == [NoEntry EXCEPT !.held = TRUE, !.status = callers[c].read]
  <1>5. CASE ~entries[t].held /\ entries' = [entries EXCEPT ![t] = e]
    <2>1. /\ e \in Entry /\ e.held /\ e.status = "settled" /\ e.pending = Unknown
      <3>1. 0 \in 0..MaxRounds
        BY BoundsAssumption
      <3> QED
        BY <1>0, <3>1 DEF NoEntry, Entry, Statuses, Terminal
    <2> HIDE DEF e
    <2>2. /\ entries' \in [Tasks -> Entry] /\ entries'[t] = e
          /\ \A u \in Tasks : u # t => entries'[u] = entries[u]
      BY <1>5, <2>1 DEF Types
    <2>3. Types'
      BY <1>1, <1>2, <2>2 DEF Types, Calling, At
    <2>4. AtTask(t)
      BY <1>1, <1>3, <2>2, AsksSame DEF AtTask
    <2>5. /\ registry[t].status # Unknown /\ (\A d \in Callers : ~Admits(d, t))
          /\ \A r \in Rounds : ~Flies(t, r, "register")
      BY <1>0, EnteringBegun DEF Entering, Asking, At
    <2>6. \A r \in Rounds : Flies(t, r, "none")
      BY <1>0, <1>5 DEF OfTask, LedgerOf
    <2>7. CallsOf(t)'
      <3>1. CallFits(c, t)'
        BY <1>0, <1>1, <1>2, <2>1, <2>2 DEF Goes, CallFits, At, Entering, Asking, Opened
      <3>2. registry[t].round <= registry'[t].round
        BY <1>1 DEF Types, Tasked
      <3>3. \A d \in Callers : callers'[d] = callers[d] \/ CallFits(d, t)'
        BY <1>2, <3>1 DEF Goes, Only
      <3> QED
        BY <1>0, <1>1, <2>1, <2>2, <2>3, <3>2, <3>3, CallsFrame DEF OfTask
    <2>8. FirstOf(t)'
      BY <1>0, <1>1, <1>3, <2>5, AsksSame DEF OfTask, FirstOf, Flies
    <2>9. SlotOf(t)'
      BY <1>0, <1>1, <1>2, <1>3, AsksSame, SlotFrame DEF OfTask, Flies, Goes, At, Only
    <2>10. TendsOf(t)'
      BY <1>0, <1>1, <1>3, <2>6, AsksSame DEF OfTask, TendsOf, InFlight, Unsettled, Flies, At
    <2>11. LedgerOf(t)'
      <3>1. \A d \in Callers : ~(At(d, "serve")' /\ callers'[d].task = t)
        BY <1>0, <1>3, <1>5, AsksSame DEF OfTask, CallsOf, CallFits, At, Entering, Opened
      <3> QED
        BY <1>1, <2>1, <2>2, <2>6, <3>1 DEF LedgerOf, Unsettled, Flies, Unknown
    <2>12. ServedOf(t)'
      BY <1>0, <1>1, <1>3, AsksSame DEF OfTask, ServedOf, InFlight, Unsettled
    <2> QED
      BY <2>3, <2>4, <2>7, <2>8, <2>9, <2>10, <2>11, <2>12, AtTaskKept DEF OfTask
  <1> QED
    BY <1>4, <1>5 DEF RestoreEntry

LEMMA ClaimKeeps ==
    ASSUME Types, EachTask, NEW c \in Callers, NEW t \in Tasks, callers[c].task = t, Claim(c)
    PROVE  Types' /\ EachTask'
  <1>0. At(c, "claim") /\ CallFits(c, t) /\ OfTask(t) /\ callers[c].round = 0
    BY DEF Claim, EachTask, OfTask, CallsOf, CallFits, Entering, Asking, At
  <1>1. UNCHANGED <<registry, entries, open, flights, closer, facts, faults, stops, stuck>>
    BY DEF Claim, bounds
  <1>2. CASE Returns(c) /\ UNCHANGED served
    <2>1. Only(c) /\ callers'[c] = Idle /\ Calling'
      BY <1>2, ReturnsLeaves
    <2>2. Types'
      BY <1>1, <1>2, <2>1 DEF Types, Calling, At
    <2>3. Asks(c, t) /\ CallFits(c, t)'
      BY <1>0, <2>1, IdleCall DEF Asks, CallFits, At, Entering, Asking, Opened
    <2> QED
      BY <1>0, <1>1, <1>2, <2>1, <2>2, <2>3, IdleCall, AsksKeeps DEF At
  <1>3. CASE /\ ~served[t].running /\ served' = [served EXCEPT ![t].running = TRUE]
             /\ Go(c, "reactivate")
    <2> DEFINE slot == [served[t] EXCEPT !.running = TRUE]
    <2>1. slot \in Slot /\ slot.running /\ slot.held = served[t].held
      BY ZenonT(60) DEF Types, Slot
    <2>2. served' = [served EXCEPT ![t] = slot]
      BY <1>3
    <2> HIDE DEF slot
    <2>3. /\ served' \in [Tasks -> Slot] /\ served'[t] = slot
          /\ \A u \in Tasks : u # t => served'[u] = served[u]
      BY <2>1, <2>2 DEF Types
    <2>4. Goes(c, "reactivate") /\ Calling'
      BY <1>0, <1>3, GoGoes DEF At, CallPcs, Entering, Asking
    <2>5. Types'
      BY <1>1, <2>3, <2>4 DEF Types, Calling, At
    <2>6. AtTask(t)
      BY <1>1, <2>3, <2>4 DEF AtTask, Engaged, Goes, Only
    <2>7. /\ registry[t].status # Unknown /\ (\A d \in Callers : ~Admits(d, t))
          /\ \A r \in Rounds : ~Flies(t, r, "register")
      BY <1>0, EnteringBegun DEF Entering, Asking, At
    <2>8. \A d \in Callers : /\ Tends(d, t)' <=> Tends(d, t)
                             /\ Admits(d, t)' <=> Admits(d, t)
                             /\ \A r \in Rounds : Waits(d, t, r)' <=> Waits(d, t, r)
                             /\ Tends(d, t) => callers'[d] = callers[d]
                             /\ At(d, "abandon")' => callers'[d] = callers[d]
                             /\ At(d, "serve")' => callers'[d] = callers[d]
                             /\ At(d, "claim")' => callers'[d] = callers[d]
                             /\ Claims(d, t)' <=> Claims(d, t) \/ d = c
      BY <1>0, <2>4 DEF Goes, Only, Claims, Tends, Admits, Waits, At
    <2>9. \A r \in Rounds : Flies(t, r, "none")
      BY <1>0, <1>3, <2>7 DEF OfTask, SlotOf, Flies
    <2>10. \A d \in Callers : ~Claims(d, t)
      BY <1>0, <1>3 DEF OfTask, SlotOf
    <2>11. CallsOf(t)'
      <3>1. CallFits(c, t)'
        BY <1>0, <1>1, <2>4 DEF Goes, CallFits, At, Entering, Asking, Opened
      <3>2. registry[t].round <= registry'[t].round
        BY <1>1 DEF Types, Tasked
      <3>3. \A d \in Callers : callers'[d] = callers[d] \/ CallFits(d, t)'
        BY <2>4, <3>1 DEF Goes, Only
      <3> QED
        BY <1>0, <1>1, <2>5, <3>2, <3>3, CallsFrame DEF OfTask
    <2>12. FirstOf(t)'
      BY <1>0, <1>1, <2>7, <2>8 DEF OfTask, FirstOf, Flies
    <2>13. SlotOf(t)'
      BY <1>0, <1>1, <2>1, <2>3, <2>8, <2>9, <2>10 DEF OfTask, SlotOf, Flies, At
    <2>14. TendsOf(t)'
      BY <1>0, <1>1, <2>8, <2>9 DEF OfTask, TendsOf, InFlight, Unsettled, Flies, At
    <2>15. LedgerOf(t)'
      BY <1>0, <1>1, <2>8, <2>9 DEF OfTask, LedgerOf, Holds, Unsettled, Flies, At
    <2>16. ServedOf(t)'
      BY <1>0, <1>1, <2>8 DEF OfTask, ServedOf, InFlight, Unsettled
    <2> QED
      BY <2>5, <2>6, <2>11, <2>12, <2>13, <2>14, <2>15, <2>16, AtTaskKept DEF OfTask
  <1> QED
    BY <1>2, <1>3 DEF Claim

\* A claim that is given up keeps its slot, and a round it opened, until it gives them back.
LEMMA GivesUpKeeps ==
    ASSUME Types, Types', EachTask, NEW c \in Callers, NEW t \in Tasks, callers[c].task = t,
           callers[c].pc \in {"reactivate", "reopen"}, Goes(c, "giveback"),
           UNCHANGED <<registry, entries, served, flights, stuck>>
    PROVE  EachTask'
  <1>0. CallFits(c, t) /\ OfTask(t) /\ callers[c].pc \in Entering
    BY DEF EachTask, OfTask, CallsOf, Entering, Asking, Opened
  <1>1. AtTask(t)
    BY DEF AtTask, Engaged, Goes, Only
  <1>2. /\ registry[t].status # Unknown /\ (\A d \in Callers : ~Admits(d, t))
        /\ \A r \in Rounds : ~Flies(t, r, "register")
    BY <1>0, EnteringBegun
  <1>3. callers[c].pc = "reactivate" => callers[c].round = 0
    BY <1>0 DEF CallFits, Entering, Asking
  <1>4. callers[c].pc = "reopen" => 2 <= callers[c].round
    BY <1>0 DEF CallFits, Entering, Opened
  <1>5. callers[c].pc = "reopen" => callers[c].round # 0
    BY <1>4
  <1>6. \A d \in Callers : /\ Tends(d, t)' <=> Tends(d, t)
                           /\ Admits(d, t)' <=> Admits(d, t)
                           /\ Claims(d, t)' <=> Claims(d, t)
                           /\ \A r \in Rounds : Waits(d, t, r)' <=> Waits(d, t, r)
                           /\ callers'[d].round = callers[d].round
                           /\ At(d, "fresh")' <=> At(d, "fresh")
                           /\ At(d, "abandon")' => callers'[d] = callers[d]
                           /\ At(d, "serve")' => callers'[d] = callers[d]
                           /\ At(d, "claim")' => callers'[d] = callers[d]
    BY <1>3, <1>5 DEF Goes, Only, Claims, Tends, Admits, Waits, At
  <1>7. CallsOf(t)'
    <2>1. CallFits(c, t)'
      BY <1>0, <1>3 DEF Goes, CallFits, At, Entering, Asking, Opened
    <2>2. registry[t].round <= registry'[t].round
      BY DEF Types, Tasked
    <2>3. \A d \in Callers : callers'[d] = callers[d] \/ CallFits(d, t)'
      BY <2>1 DEF Goes, Only
    <2> QED
      BY <1>0, <2>2, <2>3, CallsFrame DEF OfTask
  <1>8. FirstOf(t)'
    BY <1>0, <1>2, <1>6 DEF OfTask, FirstOf, Flies
  <1>9. SlotOf(t)'
    BY <1>0, <1>6 DEF OfTask, SlotOf, Flies, At
  <1>10. TendsOf(t)'
    BY <1>0, <1>6 DEF OfTask, TendsOf, InFlight, Unsettled, Flies, At, Types, Round
  <1>11. LedgerOf(t)'
    BY <1>0, <1>6 DEF OfTask, LedgerOf, Holds, Unsettled, Flies, At
  <1>12. ServedOf(t)'
    BY <1>0, <1>6 DEF OfTask, ServedOf, InFlight, Unsettled
  <1> QED
    BY <1>1, <1>7, <1>8, <1>9, <1>10, <1>11, <1>12, AtTaskKept DEF OfTask

\* A call that asks leaves a round for itself.
LEMMA AskerHasRound ==
    ASSUME Types, RoundsLeft, NEW c \in Callers, NEW t \in Tasks, callers[c].task = t,
           callers[c].pc \in Asking
    PROVE  registry[t].round + 1 \in 1..MaxRounds
  <1>1. IsFiniteSet(Askers(t)) /\ c \in Askers(t)
    BY FiniteAssumption, FS_Subset DEF Askers
  <1>2. Cardinality(Askers(t)) \in Nat /\ Cardinality(Askers(t)) # 0
    BY <1>1, FS_CardinalityType, FS_EmptySet
  <1>3. registry[t].round \in Nat /\ MaxRounds \in Nat
    BY BoundsAssumption DEF Types, Tasked
  <1> QED
    BY <1>2, <1>3 DEF RoundsLeft

LEMMA ReactivateKeeps ==
    ASSUME Types, EachTask, RoundsLeft, NEW c \in Callers, NEW t \in Tasks, callers[c].task = t,
           Reactivate(c)
    PROVE  Types' /\ EachTask'
  <1>0. At(c, "reactivate") /\ CallFits(c, t) /\ OfTask(t) /\ callers[c].round = 0
        /\ callers[c].pc \in Entering /\ callers[c].pc \in Asking
    BY DEF Reactivate, EachTask, OfTask, CallsOf, CallFits, Entering, Asking, At
  <1>1. UNCHANGED <<entries, open, served, flights, closer, facts, stops, stuck>>
    BY DEF Reactivate
  <1>2. CASE Go(c, "giveback") /\ UNCHANGED registry /\ (Stored \/ Refused)
    <2>1. Goes(c, "giveback") /\ Calling'
      BY <1>0, <1>2, GoGoes DEF At, CallPcs, Entering
    <2>2. faults' \in 0..MaxFaults
      BY <1>2, BoundsAssumption DEF Stored, Refused, Types
    <2>3. Types'
      BY <1>1, <1>2, <2>1, <2>2 DEF Types, Calling, At
    <2> QED
      BY <1>0, <1>1, <1>2, <2>1, <2>3, GivesUpKeeps DEF At
  <1>3. ASSUME registry[t].status = "settled", Stored, NEW round, round = registry[t].round + 1,
               registry' = [registry EXCEPT ![t].status = "running", ![t].round = round],
               callers' = [callers EXCEPT ![c].pc = "reopen", ![c].round = round]
        PROVE  Types' /\ EachTask'
    <2>1. round \in 1..MaxRounds /\ registry[t].round \in Nat /\ MaxRounds \in Nat /\ round # 0
      <3>1. registry[t].round + 1 \in 1..MaxRounds
        BY <1>0, AskerHasRound
      <3> QED
        BY <1>3, <3>1, BoundsAssumption DEF Types, Tasked
    <2>2. registry \in [Tasks -> Tasked] /\ registry[t] \in Tasked
      BY DEF Types
    <2> DEFINE x == [registry[t] EXCEPT !.status = "running", !.round = round]
    <2>3. x \in Tasked /\ x.status = "running" /\ x.round = round
      <3>1. round \in 0..MaxRounds
        BY <2>1
      <3> QED
        BY <2>2, <3>1 DEF Tasked, Statuses
    <2>4. registry' = [registry EXCEPT ![t] = x]
      BY <1>3
    <2> HIDE DEF x
    <2>5. /\ registry' \in [Tasks -> Tasked] /\ registry'[t] = x
          /\ \A u \in Tasks : u # t => registry'[u] = registry[u]
      BY <2>2, <2>3, <2>4
    <2>6. callers[c] \in Call /\ callers \in [Callers -> Call]
      BY DEF Types
    <2> DEFINE y == [callers[c] EXCEPT !.pc = "reopen", !.round = round]
    <2>7. /\ y \in Call /\ y.pc = "reopen" /\ y.round = round /\ y.task = t
          /\ y.body = callers[c].body /\ y.read = callers[c].read
      <3>1. round \in 0..MaxRounds
        BY <2>1
      <3> QED
        BY <2>6, <3>1 DEF Call, Entering, Opened
    <2>8. callers' = [callers EXCEPT ![c] = y]
      BY <1>3
    <2> HIDE DEF y
    <2>9. callers' \in [Callers -> Call] /\ callers'[c] = y /\ Only(c)
      BY <2>6, <2>7, <2>8 DEF Only
    <2>10. Types'
      BY <1>1, <1>3, <2>5, <2>7, <2>9 DEF Types, At, Only, Stored
    <2>11. AtTask(t)
      BY <1>1, <2>5, <2>7, <2>9 DEF AtTask, Engaged, Only
    <2>12. /\ registry[t].status # Unknown /\ (\A d \in Callers : ~Admits(d, t))
           /\ \A r \in Rounds : ~Flies(t, r, "register")
      BY <1>0, EnteringBegun
    <2>13. Claims(c, t) /\ ~InFlight(t)
      BY <1>0, <1>3 DEF Claims, At, InFlight
    <2>14. \A r \in Rounds : Flies(t, r, "none") /\ ~Unsettled(t, r)
      BY <1>0, <2>13 DEF OfTask, SlotOf, Flies, Unsettled
    <2>15. \A d \in Callers : ~Tends(d, t)
      BY <1>0, <2>13 DEF OfTask, TendsOf
    <2>16. \A d \in Callers : /\ Tends(d, t)' <=> d = c
                              /\ ~Admits(d, t)'
                              /\ Claims(d, t)' <=> Claims(d, t)
                              /\ At(d, "abandon")' => callers'[d] = callers[d]
                              /\ At(d, "serve")' => callers'[d] = callers[d]
                              /\ At(d, "claim")' => callers'[d] = callers[d]
      BY <1>0, <2>7, <2>9, <2>12, <2>15 DEF Only, Claims, Tends, Admits, At
    <2>17. entries[t].held
      BY <1>0 DEF CallFits, At
    <2>18. CallsOf(t)'
      <3>1. CallFits(c, t)'
        <4>1. 2 <= round
          <5>1. registry[t].round # 0
            BY <1>0, <1>3 DEF OfTask, FirstOf, Unknown
          <5> QED
            BY <1>3, <2>1, <5>1
        <4> QED
          BY <1>0, <1>1, <2>1, <2>3, <2>5, <2>7, <2>9, <2>17, <4>1 DEF CallFits, At, Entering, Asking, Opened, Unknown
      <3>2. registry[t].round <= registry'[t].round
        BY <1>3, <2>1, <2>3, <2>5
      <3>3. \A d \in Callers : callers'[d] = callers[d] \/ CallFits(d, t)'
        BY <2>9, <3>1 DEF Only
      <3> QED
        BY <1>0, <1>1, <2>3, <2>5, <2>10, <2>17, <3>2, <3>3, CallsFrame DEF OfTask, Unknown
    <2>19. FirstOf(t)'
      BY <1>0, <1>1, <2>1, <2>3, <2>5, <2>12, <2>16 DEF OfTask, FirstOf, Flies, Unknown
    <2>20. SlotOf(t)'
      BY <1>0, <1>1, <2>16 DEF OfTask, SlotOf, Flies, At
    <2>21. TendsOf(t)'
      <3>1. \A d \in Callers : At(d, "abandon") /\ callers[d].task = t => callers[d].round <= registry[t].round
        BY <1>0 DEF OfTask, CallsOf, CallFits, At, Entering, Opened
      <3>2. \A d \in Callers : callers[d].round \in Nat
        BY <2>6 DEF Call
      <3>3. \A d \in Callers : (At(d, "abandon") /\ callers[d].task = t)' => callers'[d].round # registry'[t].round
        <4>1. SUFFICES ASSUME NEW d \in Callers, At(d, "abandon")', callers'[d].task = t
                       PROVE  callers'[d].round # registry'[t].round
          OBVIOUS
        <4>2. callers'[d] = callers[d] /\ registry'[t].round = registry[t].round + 1
          BY <1>3, <2>3, <2>5, <2>16, <4>1
        <4>3. callers[d].round <= registry[t].round
          BY <3>1, <4>1, <4>2 DEF At
        <4> QED
          BY <2>1, <3>2, <4>2, <4>3
      <3>4. InFlight(t)' /\ registry'[t].round = callers'[c].round /\ ~At(c, "fresh")'
        BY <2>3, <2>5, <2>7, <2>9 DEF InFlight, At
      <3> QED
        <4>1. \A r \in Rounds : ~Unsettled(t, r)' /\ ~Flies(t, r, "start")'
          BY <1>1, <2>14 DEF Unsettled, Flies
        <4>2. \A d \in Callers : Tends(d, t)' => d = c
          BY <2>16
        <4> HIDE DEF Tends, Unsettled, Flies
        <4> QED
          BY <3>3, <3>4, <4>1, <4>2 DEF TendsOf, At
    <2>22. LedgerOf(t)'
      BY <1>0, <1>1, <2>16 DEF OfTask, LedgerOf, Holds, Unsettled, Flies, At
    <2>23. ServedOf(t)'
      BY <2>16 DEF ServedOf
    <2> QED
      BY <2>10, <2>11, <2>18, <2>19, <2>20, <2>21, <2>22, <2>23, AtTaskKept DEF OfTask
  <1> QED
    BY <1>2, <1>3 DEF Reactivate, Refused

-----------------------------------------------------------------------------
(* A re-entry that opened its round, or gives it back.                     *)

\* The last step of a call at t that stays Entering: nobody admits there.
LEMMA Begun ==
    ASSUME EachTask, NEW c \in Callers, NEW t \in Tasks, callers[c].task = t,
           callers[c].pc \in Entering
    PROVE  /\ OfTask(t) /\ CallFits(c, t) /\ registry[t].status # Unknown
           /\ \A d \in Callers : ~Admits(d, t)
           /\ \A r \in Rounds : ~Flies(t, r, "register")
  <1>1. OfTask(t) /\ CallFits(c, t)
    BY DEF EachTask, OfTask, CallsOf
  <1> QED
    BY <1>1, EnteringBegun

LEMMA GivesBackKeeps ==
    ASSUME Types, EachTask, NEW c \in Callers, NEW t \in Tasks, callers[c].task = t, GivesBack(c)
    PROVE  Types' /\ EachTask'
  <1>0. At(c, "giveback") /\ callers[c].pc \in Entering
    BY DEF GivesBack, Entering, At
  <1>1. UNCHANGED <<registry, entries, open, flights, closer, facts, faults, stops, stuck>>
    BY DEF GivesBack, bounds
  <1>2. /\ OfTask(t) /\ CallFits(c, t) /\ registry[t].status # Unknown
        /\ \A d \in Callers : ~Admits(d, t)
        /\ \A r \in Rounds : ~Flies(t, r, "register")
    BY <1>0, Begun
  <1> DEFINE slot == [served[t] EXCEPT !.running = FALSE]
  <1>3. slot \in Slot /\ ~slot.running /\ slot.held = served[t].held
    BY ZenonT(60) DEF Types, Slot
  <1>4. served' = [served EXCEPT ![t] = slot]
    BY DEF GivesBack
  <1> HIDE DEF slot
  <1>5. /\ served' \in [Tasks -> Slot] /\ served'[t] = slot
        /\ \A u \in Tasks : u # t => served'[u] = served[u]
    BY <1>3, <1>4 DEF Types
  <1>6. /\ Only(c) /\ Calling'
        /\ \/ callers[c].round = 0 /\ callers'[c].pc = "idle"
           \/ callers[c].round # 0 /\ Goes(c, "unwind")
    <2>1. CASE callers[c].round = 0
      BY <2>1, ReturnsLeaves, IdleCall DEF GivesBack
    <2>2. CASE callers[c].round # 0
      BY <1>0, <2>2, GoGoes DEF GivesBack, At, CallPcs, Entering, Opened, Goes
    <2> QED
      BY <2>1, <2>2
  <1>7. Types'
    BY <1>1, <1>5, <1>6 DEF Types, Calling, At
  <1>8. AtTask(t)
    BY <1>1, <1>5, <1>6 DEF AtTask, Engaged, Goes, Only, Entering, Asking, Opened
  <1>9. \A d \in Callers : /\ Tends(d, t)' <=> Tends(d, t)
                           /\ Admits(d, t)' <=> Admits(d, t)
                           /\ Claims(d, t)' <=> Claims(d, t) /\ d # c
                           /\ \A r \in Rounds : Waits(d, t, r)' <=> Waits(d, t, r)
                           /\ Tends(d, t) => callers'[d].round = callers[d].round
                           /\ At(d, "fresh")' <=> At(d, "fresh")
                           /\ At(d, "abandon")' => callers'[d] = callers[d]
                           /\ At(d, "serve")' => callers'[d] = callers[d]
                           /\ At(d, "claim")' => callers'[d] = callers[d]
    BY <1>0, <1>6 DEF Goes, Only, Claims, Tends, Admits, Waits, At
  <1>10. Claims(c, t) /\ \A d \in Callers : Claims(d, t) => d = c
    BY <1>0, <1>2 DEF OfTask, SlotOf, Claims, At
  <1>11. \A r \in Rounds : Flies(t, r, "none")
    BY <1>2, <1>10 DEF OfTask, SlotOf
  <1>12. CallsOf(t)'
    <2>1. CallFits(c, t)'
      BY <1>0, <1>1, <1>2, <1>6 DEF Goes, CallFits, At, Entering, Asking, Opened
    <2>2. registry[t].round <= registry'[t].round
      BY <1>1 DEF Types, Tasked
    <2>3. \A d \in Callers : callers'[d] = callers[d] \/ CallFits(d, t)'
      BY <1>6, <2>1 DEF Only
    <2> QED
      BY <1>1, <1>2, <1>7, <2>2, <2>3, CallsFrame DEF OfTask
  <1>13. FirstOf(t)'
    BY <1>1, <1>2, <1>9 DEF OfTask, FirstOf, Flies
  <1>14. SlotOf(t)'
    BY <1>1, <1>2, <1>3, <1>5, <1>9, <1>10, <1>11 DEF OfTask, SlotOf, Flies, At
  <1>15. TendsOf(t)'
    BY <1>1, <1>2, <1>9, <1>11 DEF OfTask, TendsOf, InFlight, Unsettled, Flies, At
  <1>16. LedgerOf(t)'
    BY <1>1, <1>2, <1>9 DEF OfTask, LedgerOf, Holds, Unsettled, Flies, At
  <1>17. ServedOf(t)'
    BY <1>1, <1>2, <1>9 DEF OfTask, ServedOf, InFlight, Unsettled
  <1> QED
    BY <1>7, <1>8, <1>12, <1>13, <1>14, <1>15, <1>16, <1>17, AtTaskKept DEF OfTask

LEMMA ReopenKeeps ==
    ASSUME Types, EachTask, NEW c \in Callers, NEW t \in Tasks, callers[c].task = t, ReopenRound(c)
    PROVE  Types' /\ EachTask'
  <1>0. At(c, "reopen") /\ callers[c].pc \in Entering
    BY DEF ReopenRound, Entering, Opened, At
  <1>1. UNCHANGED <<registry, served, flights, closer, facts, faults, stops, stuck>>
    BY DEF ReopenRound, bounds
  <1>2. /\ OfTask(t) /\ CallFits(c, t) /\ registry[t].status # Unknown
        /\ \A d \in Callers : ~Admits(d, t)
        /\ \A r \in Rounds : ~Flies(t, r, "register")
    BY <1>0, Begun
  <1>3. CASE Go(c, "giveback") /\ UNCHANGED <<entries, open>>
    <2>1. Goes(c, "giveback") /\ Calling'
      BY <1>0, <1>3, GoGoes DEF At, CallPcs, Entering
    <2>2. Types'
      BY <1>1, <1>3, <2>1 DEF Types, Calling, At
    <2> QED
      BY <1>0, <1>1, <1>3, <2>1, <2>2, GivesUpKeeps DEF At
  <1> DEFINE e == entries[t]
             x == [e EXCEPT !.status = "running", !.round = callers[c].round,
                            !.pending = Unknown, !.booked = TRUE, !.reopened = e.status]
  <1>4. CASE /\ isTerminal(t) /\ entries' = [entries EXCEPT ![t] = x]
             /\ open' = IF e.booked THEN open ELSE open + 1
             /\ Go(c, "serve")
    <2>1. e \in Entry /\ callers[c].round \in 0..MaxRounds /\ e.status \in Terminal /\ e.held
      BY <1>0, <1>2, <1>4 DEF Types, Call, isTerminal, CallFits, At
    <2>2. /\ x \in Entry /\ x.status = "running" /\ x.round = callers[c].round /\ x.pending = Unknown
          /\ x.booked /\ x.reopened \in Terminal /\ x.held
      BY <2>1 DEF Entry, Statuses
    <2>3. entries' = [entries EXCEPT ![t] = x]
      BY <1>4
    <2>4. open' \in Nat
      BY <1>4, OpenedNat DEF Types
    <2> HIDE DEF x
    <2>5. /\ entries' \in [Tasks -> Entry] /\ entries'[t] = x
          /\ \A u \in Tasks : u # t => entries'[u] = entries[u]
      BY <2>2, <2>3 DEF Types
    <2>6. Goes(c, "serve") /\ Calling'
      BY <1>0, <1>4, GoGoes DEF At, CallPcs, Entering, Opened
    <2>7. Types'
      BY <1>1, <2>4, <2>5, <2>6 DEF Types, Calling, At
    <2>8. AtTask(t)
      BY <1>1, <2>5, <2>6 DEF AtTask, Engaged, Goes, Only
    <2>9. \A d \in Callers : /\ Tends(d, t)' <=> Tends(d, t)
                             /\ Admits(d, t)' <=> Admits(d, t)
                             /\ Claims(d, t)' <=> Claims(d, t)
                             /\ \A r \in Rounds : Waits(d, t, r)' <=> Waits(d, t, r)
                             /\ callers'[d].round = callers[d].round
                             /\ At(d, "fresh")' <=> At(d, "fresh")
                             /\ At(d, "abandon")' => callers'[d] = callers[d]
                             /\ At(d, "serve")' <=> At(d, "serve") \/ d = c
                             /\ callers'[d].task = callers[d].task
                             /\ At(d, "claim")' => callers'[d] = callers[d]
      BY <1>0, <2>6 DEF Goes, Only, Claims, Tends, Admits, Waits, At
    <2>10. Claims(c, t) /\ (\A d \in Callers : Claims(d, t) => d = c) /\ \A r \in Rounds : Flies(t, r, "none")
      BY <1>0, <1>2 DEF OfTask, SlotOf, Claims, At
    <2>11. CallsOf(t)'
      <3>1. CallFits(c, t)'
        BY <1>0, <1>1, <1>2, <2>2, <2>5, <2>6 DEF Goes, CallFits, At, Entering, Asking, Opened
      <3>2. registry[t].round <= registry'[t].round
        BY <1>1 DEF Types, Tasked
      <3>3. \A d \in Callers : callers'[d] = callers[d] \/ CallFits(d, t)'
        BY <2>6, <3>1 DEF Goes, Only
      <3> QED
        BY <1>1, <1>2, <2>2, <2>5, <2>7, <3>2, <3>3, CallsFrame DEF OfTask
    <2>12. FirstOf(t)'
      BY <1>1, <1>2, <2>9 DEF OfTask, FirstOf, Flies
    <2>13. SlotOf(t)'
      BY <1>1, <1>2, <2>9 DEF OfTask, SlotOf, Flies, At
    <2>14. TendsOf(t)'
      BY <1>1, <1>2, <2>9, <2>10 DEF OfTask, TendsOf, InFlight, Unsettled, Flies, At
    <2>15. LedgerOf(t)'
      <3>1. \A d \in Callers : At(d, "serve")' /\ callers'[d].task = t => d = c
        BY <2>9, <2>10 DEF Claims, At
      <3>2. \A r \in Rounds : Flies(t, r, "none")'
        BY <1>1, <2>10 DEF Flies
      <3>3. x.status # Unknown
        BY <2>2 DEF Unknown
      <3> QED
        BY <2>2, <2>5, <2>9, <3>1, <3>2, <3>3 DEF LedgerOf, Holds, Unsettled, Flies
    <2>16. ServedOf(t)'
      BY <1>1, <1>2, <2>9 DEF OfTask, ServedOf, InFlight, Unsettled
    <2> QED
      BY <2>7, <2>8, <2>11, <2>12, <2>13, <2>14, <2>15, <2>16, AtTaskKept DEF OfTask
  <1> QED
    BY <1>3, <1>4 DEF ReopenRound

LEMMA ServeKeeps ==
    ASSUME Types, EachTask, NEW c \in Callers, NEW t \in Tasks, callers[c].task = t, Serve(c)
    PROVE  Types' /\ EachTask'
  <1>0. At(c, "serve") /\ callers[c].pc \in Entering /\ callers[c].pc \in Opened
    BY DEF Serve, Entering, Opened, At
  <1>1. UNCHANGED <<registry, entries, open, closer, facts, faults, stops, stuck>>
    BY DEF Serve, bounds
  <1>2. /\ OfTask(t) /\ CallFits(c, t) /\ registry[t].status # Unknown
        /\ \A d \in Callers : ~Admits(d, t)
        /\ \A r \in Rounds : ~Flies(t, r, "register")
    BY <1>0, Begun
  <1>3. PICK round : round = callers[c].round
    OBVIOUS
  <1>4. round \in Rounds /\ round \in Nat
    <2>1. 2 <= round /\ round \in 0..MaxRounds /\ MaxRounds \in Nat
      BY <1>0, <1>2, <1>3, BoundsAssumption DEF CallFits, Types, Call
    <2> QED
      BY <2>1 DEF Rounds
  <1> DEFINE slot == [served[t] EXCEPT !.owed = <<>>]
             f == [NoFlight EXCEPT !.pc = "start", !.caller = c,
                                   !.input = Append(served[t].owed, callers[c].body)]
  <1>5. slot \in Slot /\ slot.running = served[t].running /\ slot.held = served[t].held
    <2>1. <<>> \in Seq(Bodies) /\ served[t] \in Slot
      BY DEF Types
    <2> QED
      BY <2>1 DEF Slot
  <1>6. served' = [served EXCEPT ![t] = slot] /\ flights' = [flights EXCEPT ![t] = [flights[t] EXCEPT ![round] = f]]
    BY <1>3 DEF Serve, Types
  <1>7. f \in Round /\ f.pc = "start" /\ f.caller = c
    <2>1. Append(served[t].owed, callers[c].body) \in Seq(Bodies)
      BY <1>0, <1>2 DEF Types, Slot, CallFits
    <2>2. 0 \in 0..MaxRounds
      BY BoundsAssumption
    <2> QED
      BY <2>1, <2>2 DEF Round, NoFlight, FlightPcs
  <1> HIDE DEF slot, f
  <1>8. /\ served' \in [Tasks -> Slot] /\ served'[t] = slot
        /\ \A u \in Tasks : u # t => served'[u] = served[u]
    BY <1>5, <1>6 DEF Types
  <1>9. Flying' /\ Alone(t, round) /\ flights'[t][round] = f
    <2>1. Flying /\ flights[t] \in [Rounds -> Round]
      BY DEF Types, Flying
    <2> QED
      BY <1>4, <1>6, <1>7, <2>1 DEF Flying, Alone
  <1>10. Goes(c, "wait") /\ Calling'
    BY <1>0, GoGoes DEF Serve, At, CallPcs, Entering, Opened
  <1>11. Types'
    BY <1>1, <1>8, <1>9, <1>10 DEF Types, Calling, Flying, At
  <1>12. AtTask(t)
    BY <1>1, <1>8, <1>9, <1>10 DEF AtTask, Engaged, Goes, Only, Alone
  <1>13. Claims(c, t) /\ Tends(c, t)
    BY <1>0 DEF Claims, Tends, At
  <1>14. /\ \A d \in Callers : Claims(d, t) => d = c
         /\ \A d \in Callers : Tends(d, t) => d = c
         /\ \A r \in Rounds : Flies(t, r, "none")
         /\ served[t].running /\ InFlight(t) /\ registry[t].round = round /\ Holds(t, round)
    BY <1>0, <1>2, <1>3, <1>13 DEF OfTask, SlotOf, TendsOf, LedgerOf, At
  <1>15. \A d \in Callers : /\ ~Tends(d, t)' /\ ~Admits(d, t)' /\ ~Claims(d, t)'
                            /\ At(d, "abandon")' => callers'[d] = callers[d]
                            /\ At(d, "serve")' => callers'[d] = callers[d] /\ d # c
                            /\ At(d, "claim")' => callers'[d] = callers[d]
    BY <1>0, <1>2, <1>10, <1>14 DEF Goes, Only, Claims, Tends, Admits, At
  <1>16. \A r \in Rounds : /\ ~Flies(t, r, "none")' => r = round
                           /\ flights'[t][r].pc \in {"none", "start"}
                           /\ Flies(t, r, "none")' => flights'[t][r].caller = Nil
    BY <1>2, <1>7, <1>9, <1>14 DEF Flies, Alone, OfTask, FirstOf
  <1>17. CallsOf(t)'
    <2>1. CallFits(c, t)'
      BY <1>0, <1>1, <1>2, <1>10 DEF Goes, CallFits, At, Entering, Asking, Opened
    <2>2. registry[t].round <= registry'[t].round
      BY <1>1 DEF Types, Tasked
    <2>3. \A d \in Callers : callers'[d] = callers[d] \/ CallFits(d, t)'
      BY <1>10, <2>1 DEF Goes, Only
    <2> QED
      BY <1>1, <1>2, <1>11, <2>2, <2>3, CallsFrame DEF OfTask
  <1>18. FirstOf(t)'
    BY <1>1, <1>2, <1>15, <1>16 DEF OfTask, FirstOf, Flies
  <1>19. SlotOf(t)'
    BY <1>2, <1>5, <1>8, <1>14, <1>15, <1>16 DEF OfTask, SlotOf, At
  <1>20. TendsOf(t)'
    <2>1. Waits(c, t, round)'
      BY <1>3, <1>10 DEF Waits, Goes, At
    <2>2. \A r \in Rounds : Flies(t, r, "start")' => Waits(flights[t][r].caller, t, r)'
      <3>1. SUFFICES ASSUME NEW r \in Rounds, Flies(t, r, "start")'
                     PROVE  Waits(flights[t][r].caller, t, r)'
        OBVIOUS
      <3>2. r = round
        BY <1>16, <3>1 DEF Flies
      <3>3. flights'[t][r].caller = c
        BY <1>7, <1>9, <3>2
      <3> QED
        BY <2>1, <3>2, <3>3
    <2>3. \A d \in Callers : (At(d, "abandon") /\ callers[d].task = t)' => callers'[d].round # registry'[t].round
      BY <1>1, <1>2, <1>13, <1>15 DEF OfTask, TendsOf, At
    <2>4. \A r \in Rounds : Unsettled(t, r)' => r = round
      BY <1>16 DEF Unsettled, Flies
    <2> QED
      BY <1>1, <1>14, <1>15, <2>2, <2>3, <2>4 DEF TendsOf, InFlight
  <1>21. LedgerOf(t)'
    <2>1. \A r \in Rounds : Unsettled(t, r)' => r = round
      BY <1>16 DEF Unsettled, Flies
    <2>2. \A d \in Callers : ~(At(d, "serve")' /\ callers'[d].task = t)
      BY <1>14, <1>15 DEF Claims, At
    <2>3. entries[t].held
      BY <1>0, <1>2 DEF CallFits, At
    <2>4. \A r \in Rounds : ~Flies(t, r, "advance")' /\ flights'[t][r].pc \notin {"complete", "advance", "pend"}
      BY <1>16 DEF Flies
    <2> QED
      BY <1>1, <1>2, <1>14, <2>1, <2>2, <2>3, <2>4 DEF OfTask, LedgerOf, Holds
  <1>22. ServedOf(t)'
    BY <1>4, <1>7, <1>9 DEF ServedOf, Unsettled
  <1> QED
    BY <1>11, <1>12, <1>17, <1>18, <1>19, <1>20, <1>21, <1>22, AtTaskKept DEF OfTask

LEMMA RollbackKeeps ==
    ASSUME Types, EachTask, NEW c \in Callers, NEW t \in Tasks, callers[c].task = t,
           RollbackReactivation(c)
    PROVE  Types' /\ EachTask'
  <1>0. At(c, "unwind") /\ callers[c].pc \in Entering /\ callers[c].pc \in Opened
    BY DEF RollbackReactivation, Entering, Opened, At
  <1>1. UNCHANGED <<entries, open, served, flights, closer, facts, stops>>
    BY DEF RollbackReactivation
  <1>2. /\ OfTask(t) /\ CallFits(c, t) /\ registry[t].status # Unknown
        /\ \A d \in Callers : ~Admits(d, t)
        /\ \A r \in Rounds : ~Flies(t, r, "register")
    BY <1>0, Begun
  <1>3. Goes(c, "abandon") /\ Calling'
    BY <1>0, GoGoes DEF RollbackReactivation, At, CallPcs, Entering, Opened
  <1>4. /\ registry' \in [Tasks -> Tasked] /\ registry'[t].round = registry[t].round
        /\ registry'[t].status \in {"settled", "running"} /\ faults' \in 0..MaxFaults
        /\ stuck \subseteq stuck' /\ stuck' \subseteq Tasks
        /\ \A u \in Tasks : u # t => registry'[u] = registry[u]
        /\ registry'[t].status = "settled" \/ t \in stuck'
    <2> DEFINE x == [registry[t] EXCEPT !.status = "settled"]
    <2>1. registry \in [Tasks -> Tasked] /\ registry[t] \in Tasked /\ faults \in 0..MaxFaults /\ stuck \subseteq Tasks
      BY DEF Types
    <2>2. x \in Tasked /\ x.status = "settled" /\ x.round = registry[t].round
      BY <2>1 DEF Tasked, Statuses, Terminal
    <2>3. CASE registry' = [registry EXCEPT ![t].status = "settled"] /\ Stored /\ UNCHANGED stuck
      <3>1. registry' = [registry EXCEPT ![t] = x]
        BY <2>3
      <3> HIDE DEF x
      <3> QED
        BY <2>1, <2>2, <2>3, <3>1 DEF Stored
    <2>4. CASE Refused /\ stuck' = stuck \union {t}
      <3>1. registry[t].status = "running"
        BY DEF RollbackReactivation, InFlight
      <3> QED
        BY <2>1, <2>4, <3>1, BoundsAssumption DEF Refused
    <2> QED
      BY <2>3, <2>4 DEF RollbackReactivation
  <1>5. Types'
    BY <1>1, <1>3, <1>4 DEF Types, Calling, At
  <1>6. AtTask(t)
    BY <1>1, <1>3, <1>4 DEF AtTask, Engaged, Goes, Only
  <1>7. Tends(c, t)
    BY <1>0 DEF Tends, At
  <1>8. /\ \A d \in Callers : Tends(d, t) => d = c
        /\ \A r \in Rounds : ~Unsettled(t, r)
    BY <1>2, <1>7 DEF OfTask, TendsOf
  <1>9. \A d \in Callers : /\ ~Tends(d, t)' /\ ~Admits(d, t)'
                           /\ Claims(d, t)' <=> Claims(d, t)
                           /\ At(d, "serve")' => callers'[d] = callers[d]
                           /\ At(d, "claim")' => callers'[d] = callers[d]
    BY <1>0, <1>2, <1>3, <1>8 DEF Goes, Only, Claims, Tends, Admits, At
  <1>10. entries[t].held
    BY <1>0, <1>2 DEF CallFits, At
  <1>11. CallsOf(t)'
    <2>1. CallFits(c, t)'
      BY <1>0, <1>1, <1>2, <1>3, <1>4, <1>10 DEF Goes, CallFits, At, Entering, Asking, Opened, Unknown
    <2>2. registry[t].round <= registry'[t].round
      BY <1>4 DEF Types, Tasked
    <2>3. \A d \in Callers : callers'[d] = callers[d] \/ CallFits(d, t)'
      BY <1>3, <2>1 DEF Goes, Only
    <2> QED
      BY <1>1, <1>2, <1>4, <1>5, <1>10, <2>2, <2>3, CallsFrame DEF OfTask, Unknown
  <1>12. FirstOf(t)'
    BY <1>1, <1>2, <1>4, <1>9 DEF OfTask, FirstOf, Flies, Unknown
  <1>13. SlotOf(t)'
    BY <1>1, <1>2, <1>9 DEF OfTask, SlotOf, Flies, At
  <1>14. TendsOf(t)'
    BY <1>1, <1>8, <1>9 DEF TendsOf, Unsettled, Flies
  <1>15. LedgerOf(t)'
    BY <1>1, <1>2, <1>9 DEF OfTask, LedgerOf, Holds, Unsettled, Flies, At
  <1>16. ServedOf(t)'
    BY <1>4 DEF ServedOf, InFlight
  <1> QED
    BY <1>5, <1>6, <1>11, <1>12, <1>13, <1>14, <1>15, <1>16, AtTaskKept DEF OfTask

LEMMA AbandonKeeps ==
    ASSUME Types, EachTask, NEW c \in Callers, NEW t \in Tasks, callers[c].task = t, AbandonRound(c)
    PROVE  Types' /\ EachTask'
  <1>0. At(c, "abandon") /\ callers[c].pc \in Entering /\ callers[c].pc \in Opened
    BY DEF AbandonRound, Entering, Opened, At
  <1>1. UNCHANGED <<registry, served, flights, closer, facts, faults, stops, stuck>>
    BY DEF AbandonRound, bounds
  <1>2. /\ OfTask(t) /\ CallFits(c, t) /\ registry[t].status # Unknown
        /\ \A d \in Callers : ~Admits(d, t)
        /\ \A r \in Rounds : ~Flies(t, r, "register")
    BY <1>0, Begun
  <1>3. Only(c) /\ callers'[c] = Idle /\ Calling'
    BY ReturnsLeaves DEF AbandonRound
  <1>4. open' \in Nat
    BY OpenedNat DEF AbandonRound, Types
  <1>5. \A d \in Callers : /\ Tends(d, t)' <=> Tends(d, t)
                           /\ Admits(d, t)' <=> Admits(d, t)
                           /\ Claims(d, t)' <=> Claims(d, t)
                           /\ \A r \in Rounds : Waits(d, t, r)' <=> Waits(d, t, r)
                           /\ Tends(d, t) => callers'[d] = callers[d]
                           /\ At(d, "abandon")' => callers'[d] = callers[d]
                           /\ At(d, "serve")' => callers'[d] = callers[d]
                           /\ At(d, "claim")' => callers'[d] = callers[d]
    BY <1>0, <1>3, IdleCall DEF Only, Claims, Tends, Admits, Waits, At
  <1> DEFINE e == entries[t]
             x == [e EXCEPT !.status = e.reopened, !.pending = Unknown, !.booked = FALSE]
  <1>6. /\ entries' \in [Tasks -> Entry] /\ \A u \in Tasks : u # t => entries'[u] = entries[u]
        /\ entries'[t].held /\ entries[t].held
        /\ \/ entries'[t] = entries[t]
           \/ /\ entries[t].round = callers[c].round /\ entries[t].status \notin Terminal
              /\ entries'[t].status \in Terminal /\ entries'[t].pending = Unknown
    <2>1. entries \in [Tasks -> Entry] /\ e \in Entry /\ e.held /\ 2 <= callers[c].round
      BY <1>0, <1>2 DEF Types, CallFits, At
    <2>2. CASE entries' = entries
      BY <2>1, <2>2
    <2>3. CASE /\ e.round = callers[c].round /\ ~isTerminal(t)
               /\ entries' = [entries EXCEPT ![t] = x]
      <3>1. e.status \in Statuses /\ e.status # Unknown
        BY <1>2, <2>1 DEF Entry, OfTask, LedgerOf
      <3>2. e.status = "running"
        BY <2>3, <3>1 DEF Statuses, isTerminal
      <3>3. e.round # 1
        BY <2>1, <2>3
      <3>4. e.reopened \in Terminal
        BY <1>2, <3>2, <3>3 DEF OfTask, LedgerOf
      <3>5. x \in Entry /\ x.status = e.reopened /\ x.pending = Unknown /\ x.held
        BY <2>1, <3>4 DEF Entry, Statuses
      <3> HIDE DEF x
      <3>6. entries'[t] = x /\ entries' \in [Tasks -> Entry] /\ \A u \in Tasks : u # t => entries'[u] = entries[u]
        BY <2>1, <2>3, <3>5
      <3> QED
        BY <2>1, <2>3, <3>4, <3>5, <3>6 DEF isTerminal
    <2> QED
      BY <2>2, <2>3 DEF AbandonRound
  <1>7. Types'
    BY <1>1, <1>3, <1>4, <1>6 DEF Types, Calling, At
  <1>8. AtTask(t)
    BY <1>1, <1>3, <1>6, IdleCall DEF AtTask, Engaged, Only, Entering, Asking, Opened
  <1>9. CallsOf(t)'
    <2>1. CallFits(c, t)'
      BY <1>3, IdleCall DEF CallFits, Entering, Asking, Opened
    <2>2. registry[t].round <= registry'[t].round
      BY <1>1 DEF Types, Tasked
    <2>3. \A d \in Callers : callers'[d] = callers[d] \/ CallFits(d, t)'
      BY <1>3, <2>1 DEF Only
    <2> QED
      BY <1>1, <1>2, <1>6, <1>7, <2>2, <2>3, CallsFrame DEF OfTask
  <1>10. FirstOf(t)'
    BY <1>1, <1>2, <1>5 DEF OfTask, FirstOf, Flies
  <1>11. SlotOf(t)'
    BY <1>1, <1>2, <1>5 DEF OfTask, SlotOf, Flies, At
  <1>12. TendsOf(t)'
    BY <1>1, <1>2, <1>5, <1>7 DEF OfTask, TendsOf, InFlight, Unsettled, Flies, At, Types, Round
  <1>13. LedgerOf(t)'
    <2>1. CASE entries'[t] = entries[t]
      BY <1>1, <1>2, <1>5, <2>1 DEF OfTask, LedgerOf, Holds, Unsettled, Flies, At
    <2>2. CASE /\ entries[t].round = callers[c].round /\ entries[t].status \notin Terminal
               /\ entries'[t].status \in Terminal /\ entries'[t].pending = Unknown
      <3>1. \A r \in Rounds : ~Unsettled(t, r)
        BY <1>0, <1>2, <2>2 DEF OfTask, TendsOf, LedgerOf, Holds
      <3>2. \A d \in Callers : ~(At(d, "serve") /\ callers[d].task = t)
        <4>1. ASSUME NEW d \in Callers, At(d, "serve"), callers[d].task = t PROVE FALSE
          <5>1. Tends(d, t) /\ ~At(d, "fresh") /\ Holds(t, callers[d].round)
            BY <1>2, <4>1 DEF Tends, At, OfTask, LedgerOf
          <5>2. registry[t].round = callers[d].round /\ entries[t].round = callers[d].round
            BY <1>2, <5>1 DEF OfTask, TendsOf, Holds
          <5> QED
            BY <1>0, <1>2, <2>2, <5>1, <5>2 DEF OfTask, TendsOf
        <4> QED
          BY <4>1
      <3>3. entries'[t].status # Unknown /\ entries'[t].status # "running"
        BY <2>2 DEF Terminal, Unknown
      <3> QED
        BY <1>1, <1>2, <1>5, <1>6, <2>2, <3>1, <3>2, <3>3 DEF OfTask, LedgerOf, Unsettled, Flies, At
    <2> QED
      BY <1>6, <2>1, <2>2
  <1>14. ServedOf(t)'
    BY <1>1, <1>2, <1>5 DEF OfTask, ServedOf, InFlight, Unsettled
  <1> QED
    BY <1>7, <1>8, <1>9, <1>10, <1>11, <1>12, <1>13, <1>14, AtTaskKept DEF OfTask

-----------------------------------------------------------------------------
(* The round that runs.                                                    *)

\* An entry moves at t, and stays one the ledger accounts for.
EntrySettles(t) ==
    /\ \A u \in Tasks : u # t => entries'[u] = entries[u]
    /\ entries[t] = NoEntry => entries'[t] = NoEntry
    /\ entries'[t].held = entries[t].held
    /\ entries'[t].held <=> entries'[t].status # Unknown
    /\ entries'[t].pending # Unknown => entries'[t].booked
    /\ entries'[t].booked => entries'[t].held
    /\ entries'[t].status = "running" =>
          entries'[t].booked /\ (entries'[t].round = 1 \/ entries'[t].reopened \in Terminal)
Serving(t) == (\E d \in Callers : At(d, "serve") /\ callers[d].task = t) \/ \E s \in Rounds : Unsettled(t, s)

LEMMA EntrySame ==
    ASSUME NEW t \in Tasks, LedgerOf(t), entries' = entries
    PROVE  EntrySettles(t) /\ \A s : Holds(t, s) => Holds(t, s)'
  BY DEF EntrySettles, LedgerOf, Holds

LEMMA CallsSame ==
    ASSUME Types, Types', NEW t \in Tasks, OfTask(t), callers' = callers,
           registry'[t].status = registry[t].status \/ (entries[t].held /\ registry'[t].status # Unknown),
           registry'[t].round = registry[t].round, entries'[t].held = entries[t].held
    PROVE  CallsOf(t)'
  <1>1. registry[t].round <= registry'[t].round
    BY DEF Types, Tasked
  <1>2. (registry[t].status # Unknown => registry'[t].status # Unknown)
        /\ (~entries'[t].held => registry'[t].status = registry[t].status)
    OBVIOUS
  <1> QED
    BY <1>1, <1>2, CallsFrame DEF OfTask

\* A round goes on past its registration: it settles neither sooner nor later than its flight.
LEMMA FlightKeeps ==
    ASSUME Types, Types', EachTask, NEW t \in Tasks, NEW r \in Rounds, Alone(t, r),
           UNCHANGED <<served, callers, stuck>>,
           \A u \in Tasks : u # t => registry'[u] = registry[u],
           registry'[t].status = registry[t].status, registry'[t].round = registry[t].round,
           flights[t][r].pc \notin {"none", "register"},
           flights'[t][r].pc \notin {"none", "register", "start"},
           Unsettled(t, r)' <=> Unsettled(t, r),
           flights'[t][r].pc \in {"complete", "advance", "pend"} => flights'[t][r].outcome \in Terminal,
           Flies(t, r, "advance")' => flights'[t][r].at = r,
           EntrySettles(t), ~Serving(t) \/ \A s : Holds(t, s) => Holds(t, s)'
    PROVE  EachTask'
  <1>1. OfTask(t)
    BY DEF EachTask
  <1>2. AtTask(t)
    BY DEF AtTask, Alone, EntrySettles
  <1>3. registry[t].status # Unknown /\ \A d \in Callers : ~Admits(d, t)
    BY <1>1, FlyingBegun DEF Flies
  <1>4. \A d \in Callers : /\ Tends(d, t)' <=> Tends(d, t)
                           /\ Admits(d, t)' <=> Admits(d, t)
                           /\ Claims(d, t)' <=> Claims(d, t)
                           /\ \A s \in Rounds : Waits(d, t, s)' <=> Waits(d, t, s)
    BY DEF Tends, Admits, Claims, Waits, At
  <1>5. \A s \in Rounds : /\ Unsettled(t, s)' <=> Unsettled(t, s)
                          /\ Flies(t, s, "none")' <=> Flies(t, s, "none")
                          /\ Flies(t, s, "register")' <=> Flies(t, s, "register")
                          /\ Flies(t, s, "start")' => flights'[t][s] = flights[t][s] /\ Flies(t, s, "start")
                          /\ s # r => flights'[t][s] = flights[t][s]
    BY DEF Alone, Unsettled, Flies
  <1>6. CallsOf(t)'
    BY <1>1, CallsSame DEF EntrySettles
  <1>7. FirstOf(t)'
    BY <1>1, <1>3, <1>4, <1>5 DEF OfTask, FirstOf, Flies
  <1>8. SlotOf(t)'
    BY <1>1, <1>4, <1>5 DEF OfTask, SlotOf, Flies, At
  <1>9. TendsOf(t)'
    <2>1. \A s \in Rounds : Flies(t, s, "start")' =>
             flights'[t][s].caller = Nil \/ Waits(flights[t][s].caller, t, s)'
      BY <1>1, <1>4, <1>5 DEF OfTask, TendsOf, Types, Round
    <2> QED
      BY <1>1, <1>4, <1>5, <2>1, TendsFrame DEF OfTask, At
  <1>10. LedgerOf(t)'
    <2>1. \A s \in Rounds : Unsettled(t, s)' => Holds(t, s)'
      BY <1>1, <1>5 DEF OfTask, LedgerOf, Serving
    <2>2. \A d \in Callers : (At(d, "serve") /\ callers[d].task = t)' => Holds(t, callers[d].round)'
      BY <1>1 DEF OfTask, LedgerOf, Serving, At, Holds
    <2>3. \A s \in Rounds : ~Flies(t, s, "none")' => entries'[t].held
      BY <1>1, <1>5 DEF OfTask, LedgerOf, EntrySettles
    <2>4. \A s \in Rounds : /\ flights'[t][s].pc \in {"complete", "advance", "pend"} => flights'[t][s].outcome \in Terminal
                            /\ Flies(t, s, "advance")' => flights'[t][s].at = s
      BY <1>1, <1>5 DEF OfTask, LedgerOf, Flies
    <2> QED
      BY <2>1, <2>2, <2>3, <2>4 DEF LedgerOf, EntrySettles
  <1>11. ServedOf(t)'
    BY <1>1, <1>4, <1>5 DEF OfTask, ServedOf, InFlight
  <1> QED
    BY <1>2, <1>6, <1>7, <1>8, <1>9, <1>10, <1>11, AtTaskKept DEF OfTask

LEMMA FlightType ==
    ASSUME Types, NEW t \in Tasks, NEW r \in Rounds
    PROVE  flights[t] \in [Rounds -> Round] /\ flights[t][r] \in Round /\ flights \in [Tasks -> [Rounds -> Round]]
  BY DEF Types

LEMMA FlightBecomes ==
    ASSUME Types, NEW t \in Tasks, NEW r \in Rounds, NEW f \in Round,
           flights' = [flights EXCEPT ![t][r] = f]
    PROVE  Flying' /\ Alone(t, r) /\ flights'[t][r] = f
  BY FlightType DEF Flying, Alone

LEMMA AnswersKeeps ==
    ASSUME Types, EachTask, NEW t \in Tasks, NEW r \in Rounds, NEW outcome \in Terminal,
           Answers(t, r, outcome)
    PROVE  Types' /\ EachTask'
  <1>0. UNCHANGED <<registry, entries, open, served, callers, closer, facts, faults, stops, stuck>> /\ Flies(t, r, "fly")
    BY DEF Answers, accounts, bounds
  <1> DEFINE f == [flights[t][r] EXCEPT !.pc = "complete", !.outcome = outcome]
  <1>1. f \in Round /\ f.pc = "complete" /\ f.outcome = outcome
    BY FlightType, ZenonT(60) DEF Round, FlightPcs
  <1>2. flights' = [flights EXCEPT ![t][r] = f]
    BY DEF Answers
  <1> HIDE DEF f
  <1>3. Flying' /\ Alone(t, r) /\ flights'[t][r] = f
    BY <1>1, <1>2, FlightBecomes
  <1>4. Types'
    BY <1>0, <1>3 DEF Types, Flying, At
  <1>5. EntrySettles(t) /\ \A s : Holds(t, s) => Holds(t, s)'
    BY <1>0, EntrySame DEF EachTask, OfTask
  <1> QED
    BY <1>0, <1>1, <1>3, <1>4, <1>5, FlightKeeps DEF Unsettled, Flies

LEMMA CompletesKeeps ==
    ASSUME Types, EachTask, NEW t \in Tasks, NEW r \in Rounds, Completes(t, r)
    PROVE  Types' /\ EachTask'
  <1>0. UNCHANGED <<registry, entries, open, served, callers, closer, facts, faults, stops, stuck>> /\ Flies(t, r, "complete")
    BY DEF Completes, accounts, bounds
  <1>1. Holds(t, r) /\ flights[t][r].outcome \in Terminal
    BY <1>0 DEF EachTask, OfTask, LedgerOf, Unsettled, Flies
  <1> DEFINE f == [flights[t][r] EXCEPT !.pc = "advance", !.at = r]
  <1>2. f \in Round /\ f.pc = "advance" /\ f.at = r /\ f.outcome \in Terminal
    <2>1. r \in 0..MaxRounds
      BY <1>1 DEF Types, Entry, Holds
    <2> QED
      BY <1>1, <2>1, FlightType, ZenonT(60) DEF Round, FlightPcs
  <1>3. flights' = [flights EXCEPT ![t][r] = f]
    <2>1. ~(entries[t].pending # Unknown \/ isTerminal(t)) /\ entries[t].round = r
      BY <1>1 DEF Holds, isTerminal, Terminal
    <2> QED
      BY <2>1 DEF Completes
  <1> HIDE DEF f
  <1>4. Flying' /\ Alone(t, r) /\ flights'[t][r] = f
    BY <1>2, <1>3, FlightType DEF Flying, Alone
  <1>5. Types'
    BY <1>0, <1>4 DEF Types, Flying, At
  <1>6. EntrySettles(t) /\ \A s : Holds(t, s) => Holds(t, s)'
    BY <1>0, EntrySame DEF EachTask, OfTask
  <1> QED
    BY <1>0, <1>2, <1>4, <1>5, <1>6, FlightKeeps DEF Unsettled, Flies

LEMMA OfferedMoves ==
    ASSUME Types, NEW t \in Tasks, Offered(t)
    PROVE  /\ registry' \in [Tasks -> Tasked]
           /\ \A u \in Tasks : u # t => registry'[u] = registry[u]
           /\ registry'[t].status = registry[t].status /\ registry'[t].round = registry[t].round
  <1>1. PICK kept \in SUBSET registry[t].owed : registry' = [registry EXCEPT ![t].owed = kept]
    BY DEF Offered
  <1>2. registry \in [Tasks -> Tasked] /\ registry[t] \in Tasked
    BY DEF Types
  <1> DEFINE x == [registry[t] EXCEPT !.owed = kept]
  <1>3. x \in Tasked /\ x.status = registry[t].status /\ x.round = registry[t].round
    <2>1. kept \in SUBSET Rounds
      BY <1>2 DEF Tasked
    <2> QED
      BY <1>2, <2>1 DEF Tasked
  <1>4. registry' = [registry EXCEPT ![t] = x]
    BY <1>1
  <1> HIDE DEF x
  <1> QED
    BY <1>2, <1>3, <1>4

LEMMA FlushesKeeps ==
    ASSUME Types, EachTask, NEW t \in Tasks, NEW r \in Rounds, Flushes(t, r)
    PROVE  Types' /\ EachTask'
  <1>0. UNCHANGED <<entries, open, served, callers, closer, facts, faults, stops, stuck>> /\ Flies(t, r, "flush")
    BY DEF Flushes, bounds
  <1>1. Turned(t, r, "land") /\ Flying'
    BY TurnsTurned DEF Flushes, FlightPcs
  <1>2. /\ registry' \in [Tasks -> Tasked]
        /\ \A u \in Tasks : u # t => registry'[u] = registry[u]
        /\ registry'[t].status = registry[t].status /\ registry'[t].round = registry[t].round
    BY OfferedMoves DEF Flushes
  <1>3. Types'
    BY <1>0, <1>1, <1>2 DEF Types, Flying, At
  <1>4. EntrySettles(t) /\ \A s : Holds(t, s) => Holds(t, s)'
    BY <1>0, EntrySame DEF EachTask, OfTask
  <1> QED
    BY <1>0, <1>1, <1>2, <1>3, <1>4, FlightKeeps DEF Unsettled, Flies, Turned

LEMMA ReadsObligationsKeeps ==
    ASSUME Types, EachTask, NEW t \in Tasks, NEW r \in Rounds, ReadsObligations(t, r)
    PROVE  Types' /\ EachTask'
  <1>0. UNCHANGED <<registry, entries, open, served, callers, closer, facts, faults, stops, stuck>> /\ Flies(t, r, "land")
    BY DEF ReadsObligations, accounts, bounds
  <1> DEFINE pc == IF MayLand(t) THEN "landing" ELSE "end"
             f == [flights[t][r] EXCEPT !.pc = pc, !.done = TRUE]
  <1>1. f \in Round /\ f.pc \in {"landing", "end"}
    <2>1. pc \in {"landing", "end"}
      OBVIOUS
    <2> HIDE DEF pc
    <2> QED
      BY <2>1, FlightType, ZenonT(60) DEF Round, FlightPcs
  <1>2. flights' = [flights EXCEPT ![t][r] = f]
    BY DEF ReadsObligations
  <1> HIDE DEF f
  <1>3. Flying' /\ Alone(t, r) /\ flights'[t][r] = f
    BY <1>1, <1>2, FlightType DEF Flying, Alone
  <1>4. Types'
    BY <1>0, <1>3 DEF Types, Flying, At
  <1>5. EntrySettles(t) /\ \A s : Holds(t, s) => Holds(t, s)'
    BY <1>0, EntrySame DEF EachTask, OfTask
  <1> QED
    BY <1>0, <1>1, <1>3, <1>4, <1>5, FlightKeeps DEF Unsettled, Flies

LEMMA PendsKeeps ==
    ASSUME Types, EachTask, NEW t \in Tasks, NEW r \in Rounds, Pends(t, r)
    PROVE  Types' /\ EachTask'
  <1>0. UNCHANGED <<registry, open, served, callers, closer, facts, faults, stops, stuck>> /\ Flies(t, r, "pend")
    BY DEF Pends, bounds
  <1>1. Turned(t, r, "flush") /\ Flying'
    BY TurnsTurned DEF Pends, FlightPcs
  <1>2. OfTask(t) /\ flights[t][r].outcome \in Terminal /\ entries[t].held /\ ~Flies(t, r, "none")
    BY <1>0 DEF EachTask, OfTask, LedgerOf, Flies
  <1>3. entries' \in [Tasks -> Entry] /\ EntrySettles(t)
    <2>1. CASE entries' = entries
      BY <1>2, <2>1, EntrySame DEF OfTask, Types
    <2> DEFINE x == [entries[t] EXCEPT !.pending = flights[t][r].outcome]
    <2>2. CASE ~isTerminal(t) /\ entries' = [entries EXCEPT ![t] = x]
      <3>1. entries[t] \in Entry /\ entries[t].status = "running"
        BY <1>2, <2>2 DEF Types, Entry, Statuses, isTerminal, OfTask, LedgerOf
      <3>2. /\ x \in Entry /\ x.held = entries[t].held /\ x.status = "running" /\ x.booked = entries[t].booked
            /\ x.round = entries[t].round /\ x.reopened = entries[t].reopened
        BY <1>2, <3>1 DEF Entry
      <3> HIDE DEF x
      <3>3. /\ entries' \in [Tasks -> Entry] /\ entries'[t] = x
            /\ \A u \in Tasks : u # t => entries'[u] = entries[u]
        BY <2>2, <3>2 DEF Types
      <3>4. "running" # Unknown /\ entries[t] # NoEntry
        BY <3>1 DEF Unknown, NoEntry
      <3> QED
        BY <1>2, <3>1, <3>2, <3>3, <3>4 DEF EntrySettles, OfTask, LedgerOf
    <2> QED
      BY <2>1, <2>2 DEF Pends, pendLocked
  <1>4. Types'
    BY <1>0, <1>1, <1>3 DEF Types, Flying, At
  <1>5. ~Serving(t)
    <2>1. \A d \in Callers : ~Claims(d, t)
      BY <1>2 DEF OfTask, SlotOf
    <2>2. \A s \in Rounds : Unsettled(t, s) => s = r
      BY <1>2 DEF OfTask, SlotOf, Unsettled, Flies
    <2>3. ~Unsettled(t, r)
      BY <1>0 DEF Unsettled, Flies
    <2> QED
      BY <2>1, <2>2, <2>3 DEF Serving, Claims, At
  <1> QED
    BY <1>0, <1>1, <1>2, <1>3, <1>4, <1>5, FlightKeeps DEF Unsettled, Flies, Turned

LEMMA LandMoves ==
    ASSUME Types, NEW t \in Tasks, OfTask(t), Land(t)
    PROVE  /\ entries' \in [Tasks -> Entry] /\ open' \in Nat
           /\ EntrySettles(t) /\ \A s : Holds(t, s) => Holds(t, s)'
  <1>1. open' \in Nat
    BY OpenedNat DEF Land, Types
  <1>2. CASE entries[t].pending = Unknown
    <2>1. entries' = entries
      BY <1>2 DEF Land
    <2> QED
      BY <1>1, <2>1, EntrySame DEF OfTask, Types
  <1> DEFINE e == entries[t]
             x == [e EXCEPT !.status = e.pending, !.pending = Unknown, !.booked = FALSE]
  <1>3. CASE entries[t].pending # Unknown
    <2>1. e \in Entry /\ e.pending \in Terminal
      BY <1>3 DEF Types, Entry
    <2>2. x \in Entry /\ x.held = e.held /\ x.status = e.pending /\ x.pending = Unknown
      BY <2>1 DEF Entry, Statuses
    <2>3. entries' = [entries EXCEPT ![t] = x]
      BY <1>3 DEF Land
    <2> HIDE DEF x
    <2>4. /\ entries' \in [Tasks -> Entry] /\ entries'[t] = x
          /\ \A u \in Tasks : u # t => entries'[u] = entries[u]
      BY <2>2, <2>3 DEF Types
    <2>5. e.held /\ e # NoEntry
      BY <1>3 DEF OfTask, LedgerOf, NoEntry
    <2>6. x.status # Unknown /\ x.status # "running"
      BY <2>1, <2>2 DEF Terminal, Unknown
    <2>7. ~x.booked
      BY <2>1 DEF Entry, x
    <2>8. EntrySettles(t)
      BY <2>2, <2>4, <2>5, <2>6, <2>7 DEF EntrySettles
    <2>9. \A s : ~Holds(t, s)
      BY <1>3 DEF Holds
    <2> QED
      BY <1>1, <2>4, <2>8, <2>9
  <1> QED
    BY <1>2, <1>3

LEMMA LandsTerminalKeeps ==
    ASSUME Types, EachTask, NEW t \in Tasks, NEW r \in Rounds, LandsTerminal(t, r)
    PROVE  Types' /\ EachTask'
  <1>0. UNCHANGED <<registry, served, callers, closer, facts, faults, stops, stuck>> /\ Flies(t, r, "landing")
    BY DEF LandsTerminal, bounds
  <1>1. Turned(t, r, "end") /\ Flying'
    BY TurnsTurned DEF LandsTerminal, FlightPcs
  <1>2. /\ entries' \in [Tasks -> Entry] /\ open' \in Nat
        /\ EntrySettles(t) /\ \A s : Holds(t, s) => Holds(t, s)'
    BY LandMoves DEF LandsTerminal, EachTask
  <1>3. Types'
    BY <1>0, <1>1, <1>2 DEF Types, Flying, At
  <1> QED
    BY <1>0, <1>1, <1>2, <1>3, FlightKeeps DEF Unsettled, Flies, Turned

\* What a flight at t says of the calls there.
LEMMA FlightThere ==
    ASSUME EachTask, NEW t \in Tasks, NEW r \in Rounds, ~Flies(t, r, "none")
    PROVE  /\ OfTask(t) /\ registry[t].status # Unknown /\ registry[t].round # 0 /\ entries[t].held
           /\ \A d \in Callers : ~Admits(d, t) /\ ~Claims(d, t)
           /\ \A d \in Callers : ~(At(d, "serve") /\ callers[d].task = t)
           /\ \A s \in Rounds : s # r => Flies(t, s, "none")
  <1>1. OfTask(t)
    BY DEF EachTask
  <1>2. registry[t].status # Unknown /\ \A d \in Callers : ~Admits(d, t)
    BY <1>1, FlyingBegun
  <1>3. \A d \in Callers : ~Claims(d, t)
    BY <1>1 DEF OfTask, SlotOf
  <1>4. \A s \in Rounds : s # r => Flies(t, s, "none")
    BY <1>1 DEF OfTask, SlotOf
  <1>5. entries[t].held /\ registry[t].round # 0
    BY <1>1, <1>2 DEF OfTask, LedgerOf, FirstOf
  <1> QED
    BY <1>1, <1>2, <1>3, <1>4, <1>5 DEF Claims, At

LEMMA RegistersKeeps ==
    ASSUME Types, EachTask, NEW t \in Tasks, NEW r \in Rounds, Registers(t, r)
    PROVE  Types' /\ EachTask'
  <1>0. UNCHANGED <<registry, entries, open, callers, closer, facts, faults, stops, stuck>> /\ Flies(t, r, "register")
    BY DEF Registers, bounds
  <1>1. Turned(t, r, "start") /\ Flying'
    BY TurnsTurned DEF Registers, FlightPcs
  <1> DEFINE slot == [NoSlot EXCEPT !.held = TRUE, !.running = TRUE]
  <1>2. slot \in Slot /\ slot.held /\ slot.running
    <2>1. <<>> \in Seq(Bodies)
      OBVIOUS
    <2> QED
      BY <2>1 DEF NoSlot, Slot
  <1>3. served' = [served EXCEPT ![t] = slot]
    BY DEF Registers
  <1> HIDE DEF slot
  <1>4. /\ served' \in [Tasks -> Slot] /\ served'[t] = slot
        /\ \A u \in Tasks : u # t => served'[u] = served[u]
    BY <1>2, <1>3 DEF Types
  <1>5. Types'
    BY <1>0, <1>1, <1>4 DEF Types, Flying, At
  <1>6. AtTask(t)
    BY <1>0, <1>1, <1>4 DEF AtTask, Turned, Alone
  <1>7. /\ OfTask(t) /\ registry[t].status # Unknown /\ registry[t].round # 0 /\ entries[t].held
        /\ \A d \in Callers : ~Admits(d, t) /\ ~Claims(d, t)
        /\ \A d \in Callers : ~(At(d, "serve") /\ callers[d].task = t)
        /\ \A s \in Rounds : s # r => Flies(t, s, "none")
    BY <1>0, FlightThere DEF Flies
  <1>8. flights[t][r].caller = Nil
    BY <1>0, <1>7 DEF OfTask, FirstOf, Flies
  <1>9. \A s \in Rounds : /\ s # r => flights'[t][s] = flights[t][s]
                          /\ Flies(t, s, "none")' <=> Flies(t, s, "none")
                          /\ Unsettled(t, s)' <=> Unsettled(t, s)
                          /\ ~Flies(t, s, "register")'
                          /\ Flies(t, s, "start")' => s = r
    BY <1>0, <1>1, <1>7 DEF Turned, Alone, Flies, Unsettled
  <1>10. \A d \in Callers : /\ Tends(d, t)' <=> Tends(d, t)
                            /\ ~Admits(d, t)' /\ ~Claims(d, t)'
    BY <1>0, <1>7 DEF Tends, Admits, Claims, At
  <1>11. CallsOf(t)'
    BY <1>0, <1>5, <1>7, CallsSame
  <1>12. FirstOf(t)'
    BY <1>0, <1>1, <1>7, <1>8, <1>9, <1>10 DEF OfTask, FirstOf, Flies, Turned
  <1>13. SlotOf(t)'
    BY <1>0, <1>2, <1>4, <1>7, <1>9, <1>10 DEF OfTask, SlotOf, Flies, At
  <1>14. TendsOf(t)'
    BY <1>0, <1>1, <1>7, <1>8, <1>9, <1>10, TendsFrame DEF OfTask, At, Turned
  <1>15. LedgerOf(t)'
    BY <1>0, <1>1, <1>7, <1>9, LedgerFrame DEF OfTask, LedgerOf, At, Turned, Flies
  <1>16. ServedOf(t)'
    BY <1>0, <1>7, <1>9, <1>10, ServedFrame DEF OfTask
  <1> QED
    BY <1>5, <1>6, <1>11, <1>12, <1>13, <1>14, <1>15, <1>16, AtTaskKept DEF OfTask

LEMMA EndsKeeps ==
    ASSUME Types, EachTask, NEW t \in Tasks, NEW r \in Rounds, Ends(t, r)
    PROVE  Types' /\ EachTask'
  <1>0. UNCHANGED <<registry, entries, open, callers, closer, facts, faults, stops, stuck>> /\ Flies(t, r, "end")
    BY DEF Ends, bounds
  <1>1. NoFlight \in Round /\ NoFlight.pc = "none" /\ NoFlight.caller = Nil
    <2>1. <<>> \in Seq(Bodies) /\ 0 \in 0..MaxRounds
      BY BoundsAssumption
    <2> QED
      BY <2>1 DEF NoFlight, Round, FlightPcs
  <1>2. flights' = [flights EXCEPT ![t][r] = NoFlight]
    BY DEF Ends
  <1>3. Flying' /\ Alone(t, r) /\ flights'[t][r] = NoFlight
    BY <1>1, <1>2, FlightType DEF Flying, Alone
  <1> DEFINE kept == IF flights[t][r].done \/ flights[t][r].caller = Nil THEN served[t].owed ELSE flights[t][r].input
             slot == [served[t] EXCEPT !.running = FALSE, !.owed = kept]
  <1>4. slot \in Slot /\ slot.held = served[t].held /\ ~slot.running
    <2>1. served[t] \in Slot /\ kept \in Seq(Bodies)
      BY FlightType DEF Types, Slot, Round
    <2> HIDE DEF kept
    <2> QED
      BY <2>1 DEF Slot
  <1>5. served' = [served EXCEPT ![t] = slot]
    BY DEF Ends
  <1> HIDE DEF slot
  <1>6. /\ served' \in [Tasks -> Slot] /\ served'[t] = slot
        /\ \A u \in Tasks : u # t => served'[u] = served[u]
    BY <1>4, <1>5 DEF Types
  <1>7. Types'
    BY <1>0, <1>3, <1>6 DEF Types, Flying, At
  <1>8. AtTask(t)
    BY <1>0, <1>3, <1>6 DEF AtTask, Alone
  <1>9. /\ OfTask(t) /\ registry[t].status # Unknown /\ registry[t].round # 0 /\ entries[t].held
        /\ \A d \in Callers : ~Admits(d, t) /\ ~Claims(d, t)
        /\ \A d \in Callers : ~(At(d, "serve") /\ callers[d].task = t)
        /\ \A s \in Rounds : s # r => Flies(t, s, "none")
    BY <1>0, FlightThere DEF Flies
  <1>10. \A s \in Rounds : Flies(t, s, "none")' /\ flights'[t][s].caller = Nil
    BY <1>1, <1>3, <1>9 DEF Alone, Flies, OfTask, FirstOf
  <1>11. \A s \in Rounds : ~Unsettled(t, s) /\ ~Unsettled(t, s)'
    BY <1>0, <1>9, <1>10 DEF Unsettled, Flies
  <1>12. \A d \in Callers : /\ Tends(d, t)' <=> Tends(d, t)
                            /\ ~Admits(d, t)' /\ ~Claims(d, t)'
    BY <1>0, <1>9 DEF Tends, Admits, Claims, At
  <1>13. CallsOf(t)'
    BY <1>0, <1>7, <1>9, CallsSame
  <1>14. FirstOf(t)'
    BY <1>0, <1>9, <1>10, <1>12 DEF FirstOf, Flies
  <1>15. SlotOf(t)'
    BY <1>0, <1>4, <1>6, <1>9, <1>10, <1>12 DEF OfTask, SlotOf, Flies, At
  <1>16. TendsOf(t)'
    BY <1>0, <1>9, <1>10, <1>11, <1>12, TendsFrame DEF OfTask, At, Flies
  <1>17. LedgerOf(t)'
    BY <1>0, <1>9, <1>10, <1>11, LedgerFrame DEF OfTask, At, Flies
  <1>18. ServedOf(t)'
    BY <1>0, <1>9, <1>11, <1>12, ServedFrame DEF OfTask
  <1> QED
    BY <1>7, <1>8, <1>13, <1>14, <1>15, <1>16, <1>17, <1>18, AtTaskKept DEF OfTask

LEMMA AdvanceKeeps ==
    ASSUME Types, EachTask, NEW t \in Tasks, NEW r \in Rounds, Advance(t, r)
    PROVE  Types' /\ EachTask'
  <1>0. /\ UNCHANGED <<entries, open, served, callers, closer, facts, stops>>
        /\ Flies(t, r, "advance") /\ InFlight(t)
    BY DEF Advance
  <1>1. /\ OfTask(t) /\ registry[t].status # Unknown /\ registry[t].round # 0 /\ entries[t].held
        /\ \A d \in Callers : ~Admits(d, t) /\ ~Claims(d, t)
        /\ \A d \in Callers : ~(At(d, "serve") /\ callers[d].task = t)
        /\ \A s \in Rounds : s # r => Flies(t, s, "none")
    BY <1>0, FlightThere DEF Flies
  <1>2. flights[t][r].outcome \in Terminal /\ flights[t][r].at = r
    BY <1>0, <1>1 DEF OfTask, LedgerOf, Flies
  <1>3. PICK pc \in {"pend", "end"} : Turns(t, r, pc)
    BY DEF Advance
  <1>4. Turned(t, r, pc) /\ Flying'
    BY <1>3, TurnsTurned DEF FlightPcs
  <1>5. /\ registry' \in [Tasks -> Tasked] /\ registry'[t].round = registry[t].round
        /\ registry'[t].status \in Terminal \union {"running"} /\ faults' \in 0..MaxFaults
        /\ stuck \subseteq stuck' /\ stuck' \subseteq Tasks
        /\ \A u \in Tasks : u # t => registry'[u] = registry[u]
        /\ registry'[t].status \in Terminal \/ t \in stuck'
    <2> DEFINE f == flights[t][r]
               x == [registry[t] EXCEPT !.status = f.outcome, !.owed = @ \union {f.at}]
    <2>1. registry \in [Tasks -> Tasked] /\ registry[t] \in Tasked /\ faults \in 0..MaxFaults /\ stuck \subseteq Tasks
      BY DEF Types
    <2>2. CASE /\ registry' = [registry EXCEPT ![t].status = f.outcome, ![t].owed = @ \union {f.at}]
               /\ Stored /\ UNCHANGED stuck
      <3>1. x \in Tasked /\ x.status = f.outcome /\ x.round = registry[t].round
        <4>1. registry[t].owed \union {f.at} \in SUBSET Rounds /\ f.outcome \in Statuses
          BY <1>2, <2>1 DEF Tasked, Statuses
        <4> HIDE DEF f
        <4> QED
          BY <2>1, <4>1 DEF Tasked
      <3>2. registry' = [registry EXCEPT ![t] = x]
        BY <2>2
      <3> HIDE DEF x
      <3> QED
        BY <1>2, <2>1, <2>2, <3>1, <3>2 DEF Stored
    <2>3. CASE Refused /\ stuck' = stuck \union {t}
      BY <1>0, <2>1, <2>3, BoundsAssumption DEF Refused, InFlight
    <2> QED
      BY <2>2, <2>3 DEF Advance
  <1>6. Types'
    BY <1>0, <1>4, <1>5 DEF Types, Flying, At
  <1>7. AtTask(t)
    BY <1>0, <1>4, <1>5 DEF AtTask, Turned, Alone
  <1>8. \A s \in Rounds : /\ ~Unsettled(t, s)'
                          /\ Flies(t, s, "none")' <=> Flies(t, s, "none")
                          /\ ~Flies(t, s, "register")' /\ ~Flies(t, s, "start")' /\ ~Flies(t, s, "advance")'
                          /\ flights'[t][s].caller = flights[t][s].caller
                          /\ flights'[t][s].outcome = flights[t][s].outcome
                          /\ flights'[t][s].pc \notin {"none", "register"} <=> s = r
    BY <1>0, <1>1, <1>4 DEF Turned, Alone, Flies, Unsettled
  <1>9. \A d \in Callers : ~Tends(d, t) /\ ~Tends(d, t)' /\ ~Admits(d, t)' /\ ~Claims(d, t)'
    <2>1. Unsettled(t, r)
      BY <1>0 DEF Unsettled, Flies
    <2> QED
      BY <1>0, <1>1, <2>1 DEF Tends, Admits, Claims, At, OfTask, TendsOf
  <1>10. registry'[t].status # Unknown
    BY <1>5 DEF Terminal, Unknown
  <1>11. CallsOf(t)'
    BY <1>0, <1>1, <1>5, <1>6, <1>10, CallsSame
  <1>12. FirstOf(t)'
    BY <1>0, <1>1, <1>5, <1>8, <1>9, <1>10 DEF OfTask, FirstOf, Flies
  <1>13. SlotOf(t)'
    BY <1>0, <1>1, <1>8, <1>9 DEF OfTask, SlotOf, Flies, At
  <1>14. TendsOf(t)'
    BY <1>8, <1>9 DEF TendsOf
  <1>15. LedgerOf(t)'
    <2>1. \A s \in Rounds : flights'[t][s].pc \in {"complete", "advance", "pend"} => flights'[t][s].outcome \in Terminal
      BY <1>2, <1>8 DEF Flies
    <2> QED
      BY <1>0, <1>1, <1>8, <2>1, LedgerFrame DEF OfTask, At
  <1>16. ServedOf(t)'
    BY <1>5 DEF ServedOf, InFlight, Terminal
  <1> QED
    BY <1>6, <1>7, <1>11, <1>12, <1>13, <1>14, <1>15, <1>16, AtTaskKept DEF OfTask

\* Only the caller that waits for a round moves when it starts.
Parted(t, r) ==
    \A d \in Callers : callers'[d] = callers[d]
                          \/ (callers'[d].pc = "idle" /\ Waits(d, t, r))

LEMMA LandsKeeps ==
    ASSUME Types, EachTask, NEW t \in Tasks, NEW r \in Rounds, Lands(t, r)
    PROVE  Types' /\ EachTask'
  <1>0. UNCHANGED <<registry, entries, open, served, closer, faults, stops, stuck>> /\ Flies(t, r, "start")
    BY DEF Lands, accounts, bounds
  <1>1. Turned(t, r, "fly") /\ Flying'
    BY TurnsTurned DEF Lands, FlightPcs
  <1>2. /\ OfTask(t) /\ registry[t].status # Unknown /\ registry[t].round # 0 /\ entries[t].held
        /\ \A d \in Callers : ~Admits(d, t) /\ ~Claims(d, t)
        /\ \A d \in Callers : ~(At(d, "serve") /\ callers[d].task = t)
        /\ \A s \in Rounds : s # r => Flies(t, s, "none")
    BY <1>0, FlightThere DEF Flies
  <1>3. Parted(t, r) /\ Calling'
    <2>1. PICK c : c = flights[t][r].caller
      OBVIOUS
    <2>2. CASE c = Nil
      BY <2>1, <2>2 DEF Lands, Parted, Types, Calling, At
    <2>3. CASE c # Nil
      <3>1. c \in Callers /\ Waits(c, t, r)
        BY <1>0, <1>2, <2>1, <2>3, FlightType DEF Round, OfTask, TendsOf
      <3>2. Returns(c)
        BY <2>1, <2>3 DEF Lands
      <3> QED
        BY <3>1, <3>2, ReturnsLeaves, IdleCall DEF Parted, Only
    <2> QED
      BY <2>2, <2>3
  <1>4. facts' \in [Tasks -> SUBSET Seq(Bodies)]
    <2>1. facts \in [Tasks -> SUBSET Seq(Bodies)] /\ flights[t][r].input \in Seq(Bodies)
      BY FlightType DEF Types, Round
    <2> QED
      BY <2>1 DEF Lands
  <1>5. Types'
    BY <1>0, <1>1, <1>3, <1>4 DEF Types, Calling, Flying, At
  <1>6. AtTask(t)
    BY <1>0, <1>1, <1>3 DEF AtTask, Engaged, Parted, Waits, Turned, Alone, Entering, Asking, Opened
  <1>7. \A s \in Rounds : /\ Unsettled(t, s)' <=> Unsettled(t, s)
                          /\ Flies(t, s, "none")' <=> Flies(t, s, "none")
                          /\ ~Flies(t, s, "register")' /\ ~Flies(t, s, "start")' /\ ~Flies(t, s, "advance")'
                          /\ flights'[t][s].caller = flights[t][s].caller
                          /\ flights'[t][s].pc \in {"none", "fly"}
                          /\ Flies(t, s, "none")' <=> s # r
    BY <1>0, <1>1, <1>2 DEF Turned, Alone, Flies, Unsettled
  <1>8. \A d \in Callers : /\ Tends(d, t)' <=> Tends(d, t)
                           /\ Tends(d, t) => callers'[d] = callers[d]
                           /\ ~Admits(d, t)' /\ ~Claims(d, t)'
                           /\ At(d, "abandon")' => callers'[d] = callers[d]
                           /\ At(d, "serve")' => callers'[d] = callers[d]
                           /\ At(d, "claim")' => callers'[d] = callers[d]
    BY <1>2, <1>3 DEF Parted, Waits, Tends, Admits, Claims, At
  <1>9. CallsOf(t)'
    <2>1. registry[t].round <= registry'[t].round
      BY <1>0 DEF Types, Tasked
    <2>2. \A d \in Callers : callers'[d] = callers[d] \/ CallFits(d, t)'
      BY <1>3 DEF Parted, CallFits, Entering, Asking, Opened
    <2> QED
      BY <1>0, <1>2, <1>5, <2>1, <2>2, CallsFrame DEF OfTask
  <1>10. FirstOf(t)'
    BY <1>0, <1>2, <1>7, <1>8 DEF OfTask, FirstOf, Flies
  <1>11. SlotOf(t)'
    BY <1>0, <1>2, <1>7, <1>8 DEF OfTask, SlotOf, Flies, At
  <1>12. TendsOf(t)'
    BY <1>0, <1>2, <1>7, <1>8, TendsFrame DEF OfTask, At
  <1>13. LedgerOf(t)'
    <2>1. \A s \in Rounds : flights'[t][s].pc \notin {"complete", "advance", "pend"}
      BY <1>7
    <2> QED
      BY <1>0, <1>2, <1>7, <1>8, <2>1, LedgerFrame DEF OfTask, At
  <1>14. ServedOf(t)'
    BY <1>0, <1>2, <1>7, <1>8, ServedFrame DEF OfTask
  <1> QED
    BY <1>5, <1>6, <1>9, <1>10, <1>11, <1>12, <1>13, <1>14, AtTaskKept DEF OfTask

LEMMA MissesFirst ==
    ASSUME Types, EachTask, NEW t \in Tasks, NEW r \in Rounds, Misses(t, r), flights[t][r].caller = Nil
    PROVE  Types' /\ EachTask'
  <1>0. UNCHANGED <<registry, entries, open, served, callers, closer, facts, faults, stops, stuck>> /\ Flies(t, r, "start")
    BY DEF Misses, accounts, bounds
  <1> DEFINE f == [flights[t][r] EXCEPT !.pc = "complete", !.outcome = "failed"]
  <1>1. f \in Round /\ f.pc = "complete" /\ f.outcome = "failed" /\ f.outcome \in Terminal
    BY FlightType, ZenonT(60) DEF Round, FlightPcs, Terminal
  <1>2. flights' = [flights EXCEPT ![t][r] = f]
    BY DEF Misses
  <1> HIDE DEF f
  <1>3. Flying' /\ Alone(t, r) /\ flights'[t][r] = f
    BY <1>1, <1>2, FlightType DEF Flying, Alone
  <1>4. Types'
    BY <1>0, <1>3 DEF Types, Flying, At
  <1>5. EntrySettles(t) /\ \A s : Holds(t, s) => Holds(t, s)'
    BY <1>0, EntrySame DEF EachTask, OfTask
  <1> QED
    BY <1>0, <1>1, <1>3, <1>4, <1>5, FlightKeeps DEF Unsettled, Flies

\* The round of a re-entry that misses passes from its flight to the call that opened it.
LEMMA MissesReentered ==
    ASSUME Types, EachTask, NEW t \in Tasks, NEW r \in Rounds, Misses(t, r), flights[t][r].caller # Nil
    PROVE  Types' /\ EachTask'
  <1>0. UNCHANGED <<registry, entries, open, served, closer, facts, faults, stops, stuck>> /\ Flies(t, r, "start")
    BY DEF Misses, accounts, bounds
  <1>1. Turned(t, r, "end") /\ Flying'
    BY TurnsTurned DEF Misses, FlightPcs
  <1>2. /\ OfTask(t) /\ registry[t].status # Unknown /\ registry[t].round # 0 /\ entries[t].held
        /\ \A d \in Callers : ~Admits(d, t) /\ ~Claims(d, t)
        /\ \A d \in Callers : ~(At(d, "serve") /\ callers[d].task = t)
        /\ \A s \in Rounds : s # r => Flies(t, s, "none")
    BY <1>0, FlightThere DEF Flies
  <1>3. PICK c \in Callers : c = flights[t][r].caller
    BY FlightType DEF Round
  <1>4. At(c, "wait") /\ callers[c].task = t /\ callers[c].round = r
    BY <1>0, <1>2, <1>3 DEF OfTask, TendsOf, Waits
  <1>5. Goes(c, "unwind") /\ Calling'
    BY <1>3, <1>4, GoGoes DEF Misses, At, CallPcs, Entering, Opened
  <1>6. Types'
    BY <1>0, <1>1, <1>5 DEF Types, Calling, Flying, At
  <1>7. AtTask(t)
    BY <1>0, <1>1, <1>4, <1>5 DEF AtTask, Engaged, Goes, Only, Turned, Alone
  <1>8. \A s \in Rounds : /\ ~Unsettled(t, s)'
                          /\ Flies(t, s, "none")' <=> Flies(t, s, "none")
                          /\ ~Flies(t, s, "register")' /\ ~Flies(t, s, "start")' /\ ~Flies(t, s, "advance")'
                          /\ flights'[t][s].caller = flights[t][s].caller
                          /\ flights'[t][s].pc \in {"none", "end"}
                          /\ Flies(t, s, "none")' <=> s # r
    BY <1>0, <1>1, <1>2 DEF Turned, Alone, Flies, Unsettled
  <1>9. Unsettled(t, r) /\ InFlight(t) /\ registry[t].round = r /\ \A d \in Callers : ~Tends(d, t)
    <2>1. Unsettled(t, r)
      BY <1>0 DEF Unsettled, Flies
    <2> QED
      BY <1>2, <2>1 DEF OfTask, TendsOf
  <1>10. \A d \in Callers : /\ Tends(d, t)' <=> d = c
                            /\ ~Admits(d, t)' /\ ~Claims(d, t)'
                            /\ At(d, "abandon")' => callers'[d] = callers[d]
                            /\ At(d, "serve")' => callers'[d] = callers[d]
                            /\ At(d, "claim")' => callers'[d] = callers[d]
    BY <1>2, <1>4, <1>5, <1>9 DEF Goes, Only, Tends, Admits, Claims, At
  <1>11. CallsOf(t)'
    <2>1. registry[t].round <= registry'[t].round
      BY <1>0 DEF Types, Tasked
    <2>2. CallFits(c, t)
      BY <1>2 DEF OfTask, CallsOf
    <2>3. CallFits(c, t)'
      BY <1>0, <1>2, <1>4, <1>5, <2>2 DEF CallFits, Goes, At, Entering, Asking, Opened
    <2>4. \A d \in Callers : callers'[d] = callers[d] \/ CallFits(d, t)'
      BY <1>5, <2>3 DEF Goes, Only
    <2> QED
      BY <1>0, <1>2, <1>6, <2>1, <2>4, CallsFrame DEF OfTask
  <1>12. FirstOf(t)'
    BY <1>0, <1>2, <1>8, <1>10 DEF OfTask, FirstOf, Flies
  <1>13. SlotOf(t)'
    BY <1>0, <1>2, <1>8, <1>10 DEF OfTask, SlotOf, Flies, At
  <1>14. TendsOf(t)'
    <2>1. \A d \in Callers : (At(d, "abandon") /\ callers[d].task = t)' => callers'[d].round # registry'[t].round
      BY <1>0, <1>2, <1>9, <1>10 DEF OfTask, TendsOf, At
    <2>2. InFlight(t)' /\ registry'[t].round = callers'[c].round /\ ~At(c, "fresh")'
      BY <1>0, <1>4, <1>5, <1>9 DEF InFlight, Goes, At
    <2> HIDE DEF Tends, Unsettled, Flies
    <2> QED
      BY <1>8, <1>10, <2>1, <2>2 DEF TendsOf, At
  <1>15. LedgerOf(t)'
    <2>1. \A s \in Rounds : flights'[t][s].pc \notin {"complete", "advance", "pend"}
      BY <1>8
    <2> QED
      BY <1>0, <1>2, <1>8, <1>10, <2>1, LedgerFrame DEF OfTask, At
  <1>16. ServedOf(t)'
    BY <1>10 DEF ServedOf
  <1> QED
    BY <1>6, <1>7, <1>11, <1>12, <1>13, <1>14, <1>15, <1>16, AtTaskKept DEF OfTask

LEMMA MissesKeeps ==
    ASSUME Types, EachTask, NEW t \in Tasks, NEW r \in Rounds, Misses(t, r)
    PROVE  Types' /\ EachTask'
  BY MissesFirst, MissesReentered

-----------------------------------------------------------------------------
(* The close, and a stop of the process.                                   *)

LEMMA ClosesKeeps ==
    ASSUME Types, EachTask, Closes
    PROVE  Types' /\ EachTask'
  <1>0. UNCHANGED <<registry, entries, open, served, flights, callers, facts, faults, stops, stuck>>
    BY DEF Closes, accounts, bounds
  <1>1. Types'
    BY <1>0 DEF Types, Closes, At
  <1> QED
    BY <1>0, <1>1, AllStill DEF Still

LEMMA ReconcilesKeeps ==
    ASSUME Types, EachTask, Reconciles
    PROVE  Types' /\ EachTask'
  <1>0. UNCHANGED <<registry, entries, open, served, flights, callers, facts, faults, stops, stuck>>
    BY DEF Reconciles, accounts, bounds
  <1>1. PICK pc \in {"offer", "landing"} : closer' = [closer EXCEPT !.pc = pc]
    BY DEF Reconciles
  <1>2. /\ closer' \in [pc : {"off", "offer", "land", "landing"}, task : Tasks \union {Nil}]
        /\ closer'.pc \in {"land", "landing"} => closer'.task \in Tasks
    BY <1>1 DEF Types, Reconciles
  <1>3. Types'
    BY <1>0, <1>2 DEF Types, At
  <1> QED
    BY <1>0, <1>3, AllStill DEF Still

LEMMA OffersOwedKeeps ==
    ASSUME Types, EachTask, NEW t \in Tasks, OffersOwed(t)
    PROVE  Types' /\ EachTask'
  <1>0. UNCHANGED <<entries, open, served, flights, callers, facts, faults, stops, stuck>>
    BY DEF OffersOwed, bounds
  <1>1. /\ registry' \in [Tasks -> Tasked]
        /\ \A u \in Tasks : u # t => registry'[u] = registry[u]
        /\ registry'[t].status = registry[t].status /\ registry'[t].round = registry[t].round
    BY OfferedMoves DEF OffersOwed
  <1>2. closer' = [pc |-> "land", task |-> t]
    BY DEF OffersOwed
  <1>3. Types'
    BY <1>0, <1>1, <1>2 DEF Types, At
  <1> QED
    BY <1>0, <1>1, <1>3, AllStill DEF Still

\* A landing of the close: the entry settles, and no call and no flight moves.
LEMMA EntryLands ==
    ASSUME Types, Types', EachTask, NEW t \in Tasks,
           UNCHANGED <<registry, served, flights, callers, stuck>>,
           EntrySettles(t), \A s : Holds(t, s) => Holds(t, s)'
    PROVE  EachTask'
  <1>1. OfTask(t)
    BY DEF EachTask
  <1>2. AtTask(t)
    BY DEF AtTask, EntrySettles
  <1>3. CallsOf(t)'
    <2>1. registry[t].round <= registry'[t].round
      BY DEF Types, Tasked
    <2> QED
      BY <1>1, <2>1, CallsFrame DEF OfTask, EntrySettles
  <1>4. FirstOf(t)'
    BY <1>1 DEF OfTask, FirstOf, Flies, EntrySettles, Admits, At
  <1>5. SlotOf(t)'
    BY <1>1 DEF OfTask, SlotOf, Flies, Claims, At
  <1>6. TendsOf(t)'
    BY <1>1 DEF OfTask, TendsOf, Tends, Unsettled, InFlight, Waits, Flies, At
  <1>7. LedgerOf(t)'
    <2>1. \A s \in Rounds : Unsettled(t, s)' => Holds(t, s)'
      BY <1>1 DEF OfTask, LedgerOf, Unsettled
    <2>2. \A d \in Callers : (At(d, "serve") /\ callers[d].task = t)' => Holds(t, callers[d].round)'
      BY <1>1 DEF OfTask, LedgerOf, At, Holds
    <2>3. \A s \in Rounds : ~Flies(t, s, "none")' => entries'[t].held
      BY <1>1 DEF OfTask, LedgerOf, EntrySettles, Flies
    <2> QED
      BY <1>1, <2>1, <2>2, <2>3 DEF OfTask, LedgerOf, EntrySettles, Flies
  <1>8. ServedOf(t)'
    BY <1>1 DEF OfTask, ServedOf, InFlight, Tends, Unsettled, At
  <1> QED
    BY <1>2, <1>3, <1>4, <1>5, <1>6, <1>7, <1>8, AtTaskKept DEF OfTask

LEMMA ReconcileLandsKeeps ==
    ASSUME Types, EachTask, ReconcileLands
    PROVE  Types' /\ EachTask'
  <1>0. UNCHANGED <<registry, served, flights, callers, facts, faults, stops, stuck>>
    BY DEF ReconcileLands, bounds
  <1>1. PICK t \in Tasks : t = closer.task /\ Land(t)
    BY DEF ReconcileLands, Types
  <1>2. /\ entries' \in [Tasks -> Entry] /\ open' \in Nat
        /\ EntrySettles(t) /\ \A s : Holds(t, s) => Holds(t, s)'
    BY <1>1, LandMoves DEF EachTask
  <1>3. /\ closer' \in [pc : {"off", "offer", "land", "landing"}, task : Tasks \union {Nil}]
        /\ closer'.pc \in {"land", "landing"} => closer'.task \in Tasks
    BY DEF Types, ReconcileLands
  <1>4. Types'
    BY <1>0, <1>2, <1>3 DEF Types, At
  <1> QED
    BY <1>0, <1>2, <1>4, EntryLands

LEMMA NothingTyped ==
    /\ NoEntry \in Entry /\ NoSlot \in Slot /\ NoFlight \in Round
    /\ ~NoSlot.running /\ ~NoSlot.held /\ NoFlight.pc = "none" /\ NoFlight.caller = Nil
  <1>1. <<>> \in Seq(Bodies) /\ 0 \in 0..MaxRounds
    BY BoundsAssumption
  <1>2. NoEntry \in Entry
    BY <1>1 DEF NoEntry, Entry, Statuses
  <1>3. NoSlot \in Slot /\ ~NoSlot.running /\ ~NoSlot.held
    BY <1>1 DEF NoSlot, Slot
  <1>4. NoFlight \in Round /\ NoFlight.pc = "none" /\ NoFlight.caller = Nil
    BY <1>1 DEF NoFlight, Round, FlightPcs
  <1> QED
    BY <1>2, <1>3, <1>4

\* A process with nothing of a task in memory.
Bare(t) ==
    /\ entries[t] = NoEntry /\ served[t] = NoSlot
    /\ \A r \in Rounds : flights[t][r] = NoFlight
    /\ \A c \in Callers : callers[c] = Idle

BareFits ==
    \A t \in Tasks :
        Bare(t) /\ (InFlight(t) => t \in stuck)
                /\ (registry[t].status = Unknown <=> registry[t].round = 0) => OfTask(t)

LEMMA BareFit == BareFits
  <1> SUFFICES ASSUME NEW t \in Tasks, Bare(t), InFlight(t) => t \in stuck,
                      registry[t].status = Unknown <=> registry[t].round = 0
               PROVE  OfTask(t)
    BY DEF BareFits
  <1>1. \A c \in Callers : /\ At(c, "idle") /\ callers[c].pc \notin Entering \union Admitting
                           /\ ~Admits(c, t) /\ ~Claims(c, t) /\ ~Tends(c, t)
    BY IdleCall DEF Bare, At, Entering, Asking, Opened, Admitting, Admits, Claims, Tends
  <1>2. \A r \in Rounds : Flies(t, r, "none") /\ ~Unsettled(t, r) /\ flights[t][r].caller = Nil
    BY NothingTyped DEF Bare, Flies, Unsettled
  <1>3. CallsOf(t)
    BY <1>1 DEF CallsOf, CallFits
  <1>4. FirstOf(t)
    BY <1>1, <1>2 DEF FirstOf, Bare, Flies
  <1>5. SlotOf(t)
    BY <1>1, <1>2, NothingTyped DEF SlotOf, Bare, Flies, At
  <1>6. TendsOf(t)
    BY <1>1, <1>2 DEF TendsOf, At, Flies
  <1>7. LedgerOf(t)
    BY <1>1, <1>2 DEF LedgerOf, Bare, NoEntry, Unknown, At, Flies
  <1>8. ServedOf(t)
    BY DEF ServedOf
  <1> QED
    BY <1>3, <1>4, <1>5, <1>6, <1>7, <1>8 DEF OfTask

LEMMA BareFitNext == BareFits'
  BY BareFit, PTL

LEMMA StopKeeps ==
    ASSUME Types, EachTask, Stop
    PROVE  Types' /\ EachTask'
  <1>0. UNCHANGED <<registry, facts, faults>>
    BY DEF Stop
  <1>1. \A t \in Tasks : Bare(t)'
    BY DEF Stop, Bare
  <1>2. /\ entries' \in [Tasks -> Entry] /\ served' \in [Tasks -> Slot]
        /\ flights' \in [Tasks -> [Rounds -> Round]]
    BY NothingTyped DEF Stop
  <1>3. callers' \in [Callers -> Call] /\ \A c \in Callers : callers'[c].pc = "idle"
    BY IdleCall DEF Stop
  <1>4. /\ closer' = [pc |-> "off", task |-> Nil] /\ open' = 0
        /\ stops' \in 0..MaxStops /\ stuck' \subseteq Tasks
    BY BoundsAssumption DEF Stop, Types
  <1>5. Types'
    BY <1>0, <1>2, <1>3, <1>4 DEF Types, At
  <1>6. ASSUME NEW t \in Tasks PROVE OfTask(t)'
    <2>1. (InFlight(t) => t \in stuck)'
      BY <1>0 DEF Stop, InFlight
    <2>2. registry'[t].status = Unknown <=> registry'[t].round = 0
      BY <1>0 DEF EachTask, OfTask, FirstOf
    <2> QED
      BY <1>1, <2>1, <2>2, BareFitNext DEF BareFits
  <1> QED
    BY <1>5, <1>6 DEF EachTask

-----------------------------------------------------------------------------
(* The rounds left, and the bookings counted.                              *)

\* A call of a re-entry goes on, or returns.
CallOn(c) ==
    /\ Only(c)
    /\ callers[c].pc \in Entering /\ callers'[c].pc \in Entering \union {"idle"}
    /\ callers'[c].pc \in Asking => callers[c].pc \in Asking
    /\ callers'[c].pc # "idle" => callers'[c].task = callers[c].task

Reentry(c) ==
    \/ Consults(c) \/ RestoreEntry(c) \/ Seed(c) \/ Claim(c) \/ Reactivate(c) \/ GivesBack(c)
    \/ ReopenRound(c) \/ Serve(c) \/ RollbackReactivation(c) \/ AbandonRound(c)

LEMMA ReentryOn ==
    ASSUME Types, NEW c \in Callers, Reentry(c)
    PROVE  CallOn(c)
  <1>1. \A pc \in CallPcs : Go(c, pc) /\ ~At(c, "idle") => Goes(c, pc)
    BY GoGoes
  <1>2. Returns(c) => Only(c) /\ callers'[c].pc = "idle"
    BY ReturnsLeaves, IdleCall
  <1>3. \A pc \in CallPcs : Goes(c, pc) =>
            Only(c) /\ callers'[c].pc = pc /\ callers'[c].task = callers[c].task
    BY DEF Goes
  <1> USE DEF CallOn, CallPcs, Entering, Asking, Opened, At
  <1>4. CASE Consults(c)
    <2>1. CASE callers' = [callers EXCEPT ![c].pc = "restore", ![c].read = registry[callers[c].task].status]
      BY <1>4, <2>1 DEF Consults, Types, Only, Call
    <2> QED
      BY <1>1, <1>2, <1>3, <1>4, <2>1 DEF Consults
  <1>5. CASE RestoreEntry(c)
    BY <1>1, <1>3, <1>5 DEF RestoreEntry
  <1>6. CASE Seed(c)
    BY <1>1, <1>2, <1>3, <1>6 DEF Seed
  <1>7. CASE Claim(c)
    BY <1>1, <1>2, <1>3, <1>7 DEF Claim
  <1>8. CASE Reactivate(c)
    <2>1. ASSUME NEW round, callers' = [callers EXCEPT ![c].pc = "reopen", ![c].round = round]
          PROVE  CallOn(c)
      BY <1>8, <2>1 DEF Reactivate, Types, Only, Call
    <2> QED
      BY <1>1, <1>3, <1>8, <2>1 DEF Reactivate
  <1>9. CASE GivesBack(c)
    BY <1>1, <1>2, <1>3, <1>9 DEF GivesBack
  <1>10. CASE ReopenRound(c)
    BY <1>1, <1>3, <1>10 DEF ReopenRound
  <1>11. CASE Serve(c)
    BY <1>1, <1>3, <1>11 DEF Serve
  <1>12. CASE RollbackReactivation(c)
    BY <1>1, <1>3, <1>12 DEF RollbackReactivation
  <1>13. CASE AbandonRound(c)
    BY <1>2, <1>13 DEF AbandonRound
  <1> QED
    BY <1>4, <1>5, <1>6, <1>7, <1>8, <1>9, <1>10, <1>11, <1>12, <1>13 DEF Reentry

NoNewAsker ==
    \A d \in Callers : callers'[d].pc \in Asking =>
        callers[d].pc \in Asking /\ callers'[d].task = callers[d].task
SameRounds == \A t \in Tasks : registry'[t].round = registry[t].round

LEMMA AskersCounted ==
    ASSUME NEW t \in Tasks
    PROVE  IsFiniteSet(Askers(t)) /\ Cardinality(Askers(t)) \in Nat
  BY FiniteAssumption, FS_Subset, FS_CardinalityType DEF Askers

LEMMA FewerAskers ==
    ASSUME NoNewAsker, NEW t \in Tasks
    PROVE  /\ Askers(t)' \subseteq Askers(t)
           /\ Cardinality(Askers(t)') \in Nat /\ Cardinality(Askers(t)') <= Cardinality(Askers(t))
  <1>1. Askers(t)' \subseteq Askers(t)
    BY DEF NoNewAsker, Askers
  <1> QED
    BY <1>1, AskersCounted, FS_Subset, FS_CardinalityType

LEMMA RoundsStay ==
    ASSUME Types, RoundsLeft, NoNewAsker, SameRounds
    PROVE  RoundsLeft'
  <1>1. ASSUME NEW t \in Tasks
        PROVE  registry'[t].round + Cardinality(Askers(t)') <= MaxRounds
    <2>1. registry[t].round \in Nat /\ registry'[t].round = registry[t].round /\ MaxRounds \in Nat
      BY BoundsAssumption DEF Types, Tasked, SameRounds
    <2>2. registry[t].round + Cardinality(Askers(t)) <= MaxRounds
      BY DEF RoundsLeft
    <2> QED
      BY <2>1, <2>2, FewerAskers, AskersCounted
  <1> QED
    BY <1>1 DEF RoundsLeft

\* Nothing of the count moves.
QuietCount ==
    /\ open' = open
    /\ \A t \in Tasks : entries'[t].booked <=> entries[t].booked
    /\ \A d \in Callers : callers'[d].pc \in Admitting <=> callers[d].pc \in Admitting

LEMMA CountStays ==
    ASSUME Counted, QuietCount
    PROVE  Counted'
  <1>1. Booked' = Booked
    BY DEF Booked, QuietCount
  <1>2. Admitters' = Admitters
    BY DEF Admitters, QuietCount
  <1> QED
    BY <1>1, <1>2 DEF Counted, QuietCount

LEMMA FiniteCounts ==
    /\ IsFiniteSet(Booked) /\ Cardinality(Booked) \in Nat
    /\ IsFiniteSet(Admitters) /\ Cardinality(Admitters) \in Nat
  BY FiniteAssumption, FS_Subset, FS_CardinalityType DEF Booked, Admitters

\* A booking of t that is cleared, or was not there.
Unbooks(t) ==
    /\ \A u \in Tasks : u # t => (entries'[u].booked <=> entries[u].booked)
    /\ \/ (entries'[t].booked <=> entries[t].booked) /\ open' = open
       \/ ~entries'[t].booked /\ open' = IF entries[t].booked THEN withdrawn ELSE open

LEMMA UnbooksCounts ==
    ASSUME Types, Counted, NEW t \in Tasks, Unbooks(t),
           \A d \in Callers : callers'[d].pc \in Admitting <=> callers[d].pc \in Admitting
    PROVE  Counted'
  <1>1. Admitters' = Admitters
    BY DEF Admitters
  <1>2. CASE (entries'[t].booked <=> entries[t].booked) /\ open' = open
    BY <1>2, CountStays DEF QuietCount, Unbooks
  <1>3. CASE ~entries'[t].booked /\ entries[t].booked /\ open' = withdrawn
    <2>1. Booked' = Booked \ {t} /\ t \in Booked
      BY <1>3 DEF Booked, Unbooks
    <2>2. Cardinality(Booked') = Cardinality(Booked) - 1 /\ Cardinality(Booked) # 0
      BY <2>1, FiniteCounts, FS_RemoveElement, FS_EmptySet
    <2> QED
      BY <1>1, <1>3, <2>2, FiniteCounts DEF Counted, withdrawn
  <1> QED
    BY <1>2, <1>3 DEF Unbooks

ReentryAt(c, t) == Reentry(c) /\ callers[c].task = t

\* A step of a re-entry that opens no round leaves the rounds left.
LEMMA ReentryRounds ==
    ASSUME Types, RoundsLeft, NEW c \in Callers, NEW t \in Tasks, ReentryAt(c, t)
    PROVE  RoundsLeft'
  <1>1. CallOn(c)
    BY ReentryOn DEF ReentryAt
  <1>2. NoNewAsker
    BY <1>1 DEF CallOn, Only, NoNewAsker, Entering, Asking
  <1>3. CASE SameRounds
    BY <1>2, <1>3, RoundsStay
  <1>4. CASE ~SameRounds
    <2>1. registry \in [Tasks -> Tasked]
      BY DEF Types
    <2>2. /\ At(c, "reactivate")
          /\ registry' = [registry EXCEPT ![t].status = "running", ![t].round = registry[t].round + 1]
          /\ callers' = [callers EXCEPT ![c].pc = "reopen", ![c].round = registry[t].round + 1]
      <3>1. CASE Reactivate(c)
        BY <1>4, <2>1, <3>1 DEF Reactivate, Refused, SameRounds, ReentryAt
      <3>2. CASE RollbackReactivation(c)
        BY <1>4, <2>1, <3>2 DEF RollbackReactivation, Refused, SameRounds, Tasked
      <3>3. CASE UNCHANGED registry
        BY <1>4, <3>3 DEF SameRounds
      <3> QED
        BY <3>1, <3>2, <3>3 DEF ReentryAt, Reentry, Consults, RestoreEntry, Seed, Claim, GivesBack, ReopenRound,
                                Serve, AbandonRound, Untouched, accounts
    <2>3. /\ \A u \in Tasks : u # t => registry'[u].round = registry[u].round
          /\ registry'[t].round = registry[t].round + 1
      BY <2>1, <2>2 DEF Tasked
    <2>4. callers'[c].pc = "reopen" /\ Only(c)
      BY <1>1, <2>2 DEF Types, Call, CallOn
    <2>5. ASSUME NEW u \in Tasks
          PROVE  registry'[u].round + Cardinality(Askers(u)') <= MaxRounds
      <3>1. registry[u].round \in Nat /\ MaxRounds \in Nat
            /\ registry[u].round + Cardinality(Askers(u)) <= MaxRounds
        BY BoundsAssumption DEF Types, Tasked, RoundsLeft
      <3>2. CASE u # t
        BY <1>2, <2>3, <3>1, <3>2, FewerAskers, AskersCounted
      <3>3. CASE u = t
        <4>1. Askers(u)' \subseteq Askers(u) \ {c}
          BY <1>2, <2>4, FewerAskers DEF Askers, Asking
        <4>2. c \in Askers(u)
          BY <2>2, <3>3 DEF Askers, Asking, At, ReentryAt
        <4>3. /\ IsFiniteSet(Askers(u) \ {c})
              /\ Cardinality(Askers(u) \ {c}) = Cardinality(Askers(u)) - 1
          BY <4>2, AskersCounted, FS_RemoveElement
        <4>4. /\ Cardinality(Askers(u)') \in Nat
              /\ Cardinality(Askers(u)') <= Cardinality(Askers(u)) - 1
          BY <4>1, <4>3, FS_Subset, FS_CardinalityType
        <4> QED
          BY <2>3, <3>1, <3>3, <4>4, AskersCounted
      <3> QED
        BY <3>2, <3>3
    <2> QED
      BY <2>5 DEF RoundsLeft
  <1> QED
    BY <1>3, <1>4

LEMMA ReentersRounds ==
    ASSUME Types, RoundsLeft, NEW c \in Callers, NEW t \in Tasks, NEW body \in Bodies,
           Reenters(c, t, body)
    PROVE  RoundsLeft'
  <1>1. At(c, "idle") /\ registry' = registry
        /\ registry[t].round + Cardinality(Reentering(t)) < MaxRounds
    BY DEF Reenters, Untouched, accounts
  <1>2. Only(c) /\ callers'[c].pc = "ledger" /\ callers'[c].task = t
    BY IdleCall DEF Reenters, Types, Only, Call
  <1>3. ASSUME NEW u \in Tasks
        PROVE  registry'[u].round + Cardinality(Askers(u)') <= MaxRounds
    <2>1. registry[u].round \in Nat /\ registry'[u].round = registry[u].round /\ MaxRounds \in Nat
          /\ registry[u].round + Cardinality(Askers(u)) <= MaxRounds
      BY <1>1, BoundsAssumption DEF Types, Tasked, RoundsLeft
    <2>2. CASE u # t
      <3>1. Askers(u)' \subseteq Askers(u)
        BY <1>2, <2>2 DEF Askers, Only
      <3>2. Cardinality(Askers(u)') \in Nat /\ Cardinality(Askers(u)') <= Cardinality(Askers(u))
        BY <3>1, AskersCounted, FS_Subset, FS_CardinalityType
      <3> QED
        BY <2>1, <3>2, AskersCounted
    <2>3. CASE u = t
      <3>1. /\ IsFiniteSet(Reentering(t)) /\ Askers(t) \subseteq Reentering(t)
            /\ Cardinality(Reentering(t)) \in Nat
        BY FiniteAssumption, FS_Subset, FS_CardinalityType DEF Reentering, Askers
      <3>2. Cardinality(Askers(t)) <= Cardinality(Reentering(t))
        BY <3>1, FS_Subset
      <3>3. Askers(t)' = Askers(t) \union {c} /\ c \notin Askers(t)
        BY <1>1, <1>2 DEF Askers, Only, Asking, At
      <3>4. Cardinality(Askers(t)') = Cardinality(Askers(t)) + 1
        BY <3>3, AskersCounted, FS_AddElement
      <3> QED
        BY <1>1, <2>1, <2>3, <3>1, <3>2, <3>4, AskersCounted
    <2> QED
      BY <2>2, <2>3
  <1> QED
    BY <1>3 DEF RoundsLeft

LEMMA AdmitRounds ==
    ASSUME Types, EachTask, RoundsLeft, NEW c \in Callers, NEW t \in Tasks, callers[c].task = t, Admit(c)
    PROVE  RoundsLeft'
  <1>1. PICK pc \in {"fresh", "withdraw"} : Go(c, pc)
    BY DEF Admit
  <1>2. Goes(c, pc)
    BY <1>1, GoGoes DEF Admit, At, CallPcs, Admitting
  <1>3. NoNewAsker
    BY <1>2 DEF NoNewAsker, Goes, Only, Asking
  <1>4. CASE registry' = registry
    BY <1>3, <1>4, RoundsStay DEF SameRounds
  <1>5. CASE /\ registry[t].status = Unknown
             /\ registry' = [registry EXCEPT ![t].status = "running", ![t].round = 1]
    <2>1. registry'[t].round = 1 /\ \A u \in Tasks : u # t => registry'[u].round = registry[u].round
      BY <1>5 DEF Types, Tasked
    <2>2. ASSUME NEW u \in Tasks
          PROVE  registry'[u].round + Cardinality(Askers(u)') <= MaxRounds
      <3>1. registry[u].round \in Nat /\ MaxRounds \in Nat \ {0}
            /\ registry[u].round + Cardinality(Askers(u)) <= MaxRounds
        BY BoundsAssumption DEF Types, Tasked, RoundsLeft
      <3>2. CASE u # t
        BY <1>3, <2>1, <3>1, <3>2, FewerAskers, AskersCounted
      <3>3. CASE u = t
        <4>1. \A d \in Callers : callers[d].task = t => callers[d].pc \notin Entering
          BY <1>5 DEF EachTask, OfTask, CallsOf, CallFits
        <4>2. Askers(t) = {}
          BY <4>1 DEF Askers, Entering
        <4>3. Askers(t)' = {}
          BY <1>3, <4>2, FewerAskers
        <4>4. Cardinality(Askers(t)') = 0
          BY <4>3, FS_EmptySet
        <4> QED
          BY <2>1, <3>1, <3>3, <4>4
      <3> QED
        BY <3>2, <3>3
    <2> QED
      BY <2>2 DEF RoundsLeft
  <1> QED
    BY <1>4, <1>5 DEF Admit

\* Every other step of a call, and every step of a flight or the close, opens none.
LEMMA OtherRounds ==
    ASSUME Types, RoundsLeft,
           \/ \E c \in Callers : Withdraws(c) \/ Enters(c) \/ \E t \in Tasks : Delegate(c, t)
           \/ \E t \in Tasks, r \in Rounds : Flight(t, r)
           \/ Closes \/ Reconciles \/ ReconcileLands
           \/ \E t \in Tasks : OffersOwed(t)
           \/ Stop
           \/ UNCHANGED vars
    PROVE  RoundsLeft'
  <1>1. ASSUME NEW c \in Callers, Withdraws(c) \/ Enters(c) \/ \E t \in Tasks : Delegate(c, t)
        PROVE  NoNewAsker /\ SameRounds
    <2>1. SameRounds
      BY <1>1 DEF Withdraws, Enters, Delegate, SameRounds
    <2>2. Only(c) /\ callers'[c].pc \notin Asking
      <3>1. CASE Returns(c)
        BY <3>1, ReturnsLeaves, IdleCall DEF Asking
      <3>2. ASSUME NEW t \in Tasks, Delegate(c, t)
            PROVE  Only(c) /\ callers'[c].pc \notin Asking
        BY <3>2, IdleCall DEF Delegate, Types, Only, Asking, Call
      <3> QED
        BY <1>1, <3>1, <3>2 DEF Withdraws, Enters
    <2> QED
      BY <2>1, <2>2 DEF NoNewAsker, Only
  <1>2. ASSUME NEW t \in Tasks, NEW r \in Rounds, Flight(t, r)
        PROVE  NoNewAsker /\ SameRounds
    <2>1. SameRounds
      <3>1. CASE Advance(t, r)
        <4>1. registry \in [Tasks -> Tasked] /\ registry[t] \in Tasked
          BY DEF Types
        <4>2. ASSUME NEW status, NEW owed,
                     registry' = [registry EXCEPT ![t].status = status, ![t].owed = owed]
              PROVE  SameRounds
          BY <4>1, <4>2 DEF SameRounds, Tasked
        <4> QED
          BY <3>1, <4>2 DEF Advance, Refused, SameRounds
      <3>2. CASE Flushes(t, r)
        BY <3>2, OfferedMoves DEF Flushes, SameRounds
      <3>3. CASE UNCHANGED registry
        BY <3>3 DEF SameRounds
      <3> QED
        BY <1>2, <3>1, <3>2, <3>3 DEF Flight, Registers, Lands, Misses, Answers, Completes, Pends,
                                      ReadsObligations, LandsTerminal, Ends, accounts
    <2>2. NoNewAsker
      <3>1. CASE UNCHANGED callers
        BY <3>1 DEF NoNewAsker
      <3>2. ASSUME Lands(t, r) \/ Misses(t, r), ~UNCHANGED callers
            PROVE  NoNewAsker
        <4>1. PICK c \in Callers : c = flights[t][r].caller
          BY <3>2, FlightType DEF Lands, Misses, Round
        <4>2. Returns(c) \/ Go(c, "unwind")
          BY <3>2, <4>1 DEF Lands, Misses
        <4>3. Only(c) /\ callers'[c].pc \notin Asking
          BY <4>2, ReturnsLeaves, IdleCall DEF Go, Types, Call, Only, Asking
        <4> QED
          BY <4>3 DEF NoNewAsker, Only
      <3> QED
        BY <1>2, <3>1, <3>2 DEF Flight, Registers, Answers, Completes, Advance, Pends, Flushes,
                                ReadsObligations, LandsTerminal, Ends
    <2> QED
      BY <2>1, <2>2
  <1>3. ASSUME Stop PROVE NoNewAsker /\ SameRounds
    BY <1>3, IdleCall DEF Stop, NoNewAsker, SameRounds, Asking
  <1>4. ASSUME NEW t \in Tasks, OffersOwed(t) PROVE NoNewAsker /\ SameRounds
    BY <1>4, OfferedMoves DEF OffersOwed, NoNewAsker, SameRounds
  <1>5. ASSUME Closes \/ Reconciles \/ ReconcileLands \/ UNCHANGED vars PROVE NoNewAsker /\ SameRounds
    BY <1>5 DEF Closes, Reconciles, ReconcileLands, vars, accounts, NoNewAsker, SameRounds
  <1> QED
    BY <1>1, <1>2, <1>3, <1>4, <1>5, RoundsStay

LEMMA DelegateCounts ==
    ASSUME Types, Counted, NEW c \in Callers, NEW t \in Tasks, Delegate(c, t)
    PROVE  Counted'
  <1>1. Only(c) /\ callers'[c].pc = "admit" /\ callers[c].pc = "idle"
    BY IdleCall DEF Delegate, Only, Types, Call, At
  <1>2. Admitters' = Admitters \union {c} /\ c \notin Admitters
    BY <1>1 DEF Only, Admitters, Admitting
  <1>3. Cardinality(Admitters') = Cardinality(Admitters) + 1
    BY <1>2, FiniteCounts, FS_AddElement
  <1>4. Booked' = Booked /\ open' = open + 1
    BY DEF Delegate, Booked
  <1> QED
    BY <1>3, <1>4, FiniteCounts DEF Counted

\* An admission that ends, whichever way.
LEMMA AdmitterLeaves ==
    ASSUME Types, NEW c \in Callers, callers[c].pc \in Admitting, Returns(c)
    PROVE  /\ Cardinality(Admitters') = Cardinality(Admitters) - 1
           /\ Cardinality(Admitters) # 0
  <1>1. Admitters' = Admitters \ {c} /\ c \in Admitters
    BY ReturnsLeaves, IdleCall DEF Only, Admitters, Admitting
  <1> QED
    BY <1>1, FiniteCounts, FS_RemoveElement, FS_EmptySet

LEMMA WithdrawsCounts ==
    ASSUME Types, Counted, NEW c \in Callers, Withdraws(c)
    PROVE  Counted'
  <1>1. /\ Cardinality(Admitters') = Cardinality(Admitters) - 1
        /\ Cardinality(Admitters) # 0
    BY AdmitterLeaves DEF Withdraws, At, Admitting
  <1>2. Booked' = Booked /\ open' = withdrawn
    BY DEF Withdraws, Booked
  <1> QED
    BY <1>1, <1>2, FiniteCounts DEF Counted, withdrawn

\* The booking of the admission is the booking of the entry from then on.
LEMMA EntersCounts ==
    ASSUME Types, EachTask, Counted, NEW c \in Callers, NEW t \in Tasks, callers[c].task = t, Enters(c)
    PROVE  Counted'
  <1>1. At(c, "fresh") /\ open' = open
    BY DEF Enters
  <1>2. /\ Cardinality(Admitters') = Cardinality(Admitters) - 1
        /\ Cardinality(Admitters) # 0
    BY <1>1, AdmitterLeaves DEF Enters, At, Admitting
  <1>3. ~entries[t].booked
    BY <1>1 DEF EachTask, OfTask, FirstOf, Admits, NoEntry
  <1> DEFINE e == [NoEntry EXCEPT !.held = TRUE, !.status = "running", !.round = 1, !.booked = TRUE]
  <1>4. entries' = [entries EXCEPT ![t] = e] /\ e.booked = TRUE
    BY DEF Enters, NoEntry
  <1> HIDE DEF e
  <1>5. entries'[t].booked /\ \A u \in Tasks : u # t => entries'[u] = entries[u]
    BY <1>4 DEF Types
  <1>6. Booked' = Booked \union {t} /\ t \notin Booked
    BY <1>3, <1>5 DEF Booked
  <1>7. Cardinality(Booked') = Cardinality(Booked) + 1
    BY <1>6, FiniteCounts, FS_AddElement
  <1> QED
    BY <1>1, <1>2, <1>7, FiniteCounts DEF Counted

LEMMA ReopenCounts ==
    ASSUME Types, Counted, NEW c \in Callers, NEW t \in Tasks, callers[c].task = t, ReopenRound(c)
    PROVE  Counted'
  <1>1. \A d \in Callers : callers'[d].pc \in Admitting <=> callers[d].pc \in Admitting
    BY ReentryOn DEF Reentry, CallOn, Only, Entering, Asking, Opened, Admitting
  <1>2. CASE UNCHANGED <<entries, open>>
    BY <1>1, <1>2, CountStays DEF QuietCount
  <1> DEFINE e == entries[t]
             x == [e EXCEPT !.status = "running", !.round = callers[c].round,
                            !.pending = Unknown, !.booked = TRUE, !.reopened = e.status]
  <1>3. CASE entries' = [entries EXCEPT ![t] = x] /\ open' = IF e.booked THEN open ELSE open + 1
    <2>1. x.booked = TRUE
      BY DEF Types, Entry
    <2> HIDE DEF x
    <2>2. entries'[t].booked /\ \A u \in Tasks : u # t => entries'[u] = entries[u]
      BY <1>3, <2>1 DEF Types
    <2>3. CASE e.booked
      BY <1>1, <1>3, <2>2, <2>3, CountStays DEF QuietCount
    <2>4. CASE ~e.booked
      <3>1. Booked' = Booked \union {t} /\ t \notin Booked
        BY <2>2, <2>4 DEF Booked
      <3>2. Cardinality(Booked') = Cardinality(Booked) + 1
        BY <3>1, FiniteCounts, FS_AddElement
      <3>3. Admitters' = Admitters
        BY <1>1 DEF Admitters
      <3> QED
        BY <1>3, <2>4, <3>2, <3>3, FiniteCounts DEF Counted
    <2> QED
      BY <2>3, <2>4
  <1> QED
    BY <1>2, <1>3 DEF ReopenRound

LEMMA AbandonCounts ==
    ASSUME Types, Counted, NEW c \in Callers, NEW t \in Tasks, callers[c].task = t, AbandonRound(c)
    PROVE  Counted'
  <1>1. \A d \in Callers : callers'[d].pc \in Admitting <=> callers[d].pc \in Admitting
    BY ReentryOn DEF Reentry, CallOn, Only, Entering, Asking, Opened, Admitting
  <1> DEFINE e == entries[t]
             x == [e EXCEPT !.status = e.reopened, !.pending = Unknown, !.booked = FALSE]
  <1>2. CASE UNCHANGED <<entries, open>>
    BY <1>1, <1>2, CountStays DEF QuietCount
  <1>3. CASE entries' = [entries EXCEPT ![t] = x] /\ open' = IF e.booked THEN withdrawn ELSE open
    <2>1. x.booked = FALSE
      BY DEF Types, Entry
    <2> HIDE DEF x
    <2>2. Unbooks(t)
      BY <1>3, <2>1 DEF Unbooks, Types
    <2> QED
      BY <1>1, <2>2, UnbooksCounts
  <1> QED
    BY <1>2, <1>3 DEF AbandonRound

LEMMA LandCounts ==
    ASSUME Types, Counted, NEW t \in Tasks, Land(t), callers' = callers
    PROVE  Counted'
  <1> DEFINE e == entries[t]
             x == [e EXCEPT !.status = e.pending, !.pending = Unknown, !.booked = FALSE]
  <1>1. CASE UNCHANGED <<entries, open>>
    BY <1>1, CountStays DEF QuietCount
  <1>2. CASE entries' = [entries EXCEPT ![t] = x] /\ open' = IF e.booked THEN withdrawn ELSE open
    <2>1. x.booked = FALSE
      BY DEF Types, Entry
    <2> HIDE DEF x
    <2>2. Unbooks(t)
      BY <1>2, <2>1 DEF Unbooks, Types
    <2> QED
      BY <2>2, UnbooksCounts
  <1> QED
    BY <1>1, <1>2 DEF Land

LEMMA StopCounts ==
    ASSUME Stop
    PROVE  Counted'
  <1>1. Booked' = {}
    BY DEF Stop, Booked, NoEntry
  <1>2. Admitters' = {}
    BY IdleCall DEF Stop, Admitters, Admitting
  <1>3. open' = 0
    BY DEF Stop
  <1> QED
    BY <1>1, <1>2, <1>3, FS_EmptySet DEF Counted

\* The steps of a call that move no booking.
LEMMA ReentryCounts ==
    ASSUME Types, EachTask, Counted, NEW c \in Callers, NEW t \in Tasks, ReentryAt(c, t)
    PROVE  Counted'
  <1>1. \A d \in Callers : callers'[d].pc \in Admitting <=> callers[d].pc \in Admitting
    BY ReentryOn DEF ReentryAt, CallOn, Only, Entering, Asking, Opened, Admitting
  <1>2. CASE ReopenRound(c)
    BY <1>2, ReopenCounts DEF ReentryAt
  <1>3. CASE AbandonRound(c)
    BY <1>3, AbandonCounts DEF ReentryAt
  <1>4. CASE RestoreEntry(c)
    <2> DEFINE e == [NoEntry EXCEPT !.held = TRUE, !.status = callers[c].read]
    <2>1. CASE entries' = entries
      BY <1>1, <1>4, <2>1, CountStays DEF RestoreEntry, QuietCount
    <2>2. CASE ~entries[t].held /\ entries' = [entries EXCEPT ![t] = e]
      <3>1. ~entries[t].booked
        BY <2>2 DEF EachTask, OfTask, LedgerOf
      <3>2. e.booked = FALSE
        BY DEF NoEntry
      <3> HIDE DEF e
      <3>3. \A u \in Tasks : entries'[u].booked <=> entries[u].booked
        BY <2>2, <3>1, <3>2 DEF Types
      <3> QED
        BY <1>1, <1>4, <3>3, CountStays DEF RestoreEntry, QuietCount
    <2> QED
      BY <1>4, <2>1, <2>2 DEF RestoreEntry, ReentryAt
  <1>5. CASE UNCHANGED <<entries, open>>
    BY <1>1, <1>5, CountStays DEF QuietCount
  <1> QED
    BY <1>2, <1>3, <1>4, <1>5 DEF ReentryAt, Reentry, Consults, Seed, Claim, Reactivate, GivesBack,
                                  Serve, RollbackReactivation, Untouched, accounts

LEMMA AdmitCounts ==
    ASSUME Types, Counted, NEW c \in Callers, Admit(c)
    PROVE  Counted'
  <1>1. PICK pc \in {"fresh", "withdraw"} : Go(c, pc)
    BY DEF Admit
  <1>2. Goes(c, pc)
    BY <1>1, GoGoes DEF Admit, At, CallPcs, Admitting
  <1> QED
    BY <1>2, CountStays DEF QuietCount, Admit, At, Goes, Only, Admitting

LEMMA ReentersCounts ==
    ASSUME Types, Counted, NEW c \in Callers, NEW t \in Tasks, NEW body \in Bodies,
           Reenters(c, t, body)
    PROVE  Counted'
  <1>1. Only(c) /\ callers'[c].pc = "ledger" /\ At(c, "idle")
    BY IdleCall DEF Reenters, Types, Only, Call
  <1> QED
    BY <1>1, CountStays DEF QuietCount, Reenters, Untouched, accounts, Only, Admitting, At

LEMMA FlightCounts ==
    ASSUME Types, EachTask, Counted, NEW t \in Tasks, NEW r \in Rounds, Flight(t, r)
    PROVE  Counted'
  <1>1. CASE LandsTerminal(t, r)
    BY <1>1, LandCounts DEF LandsTerminal
  <1>2. CASE Pends(t, r)
    <2>1. \A u \in Tasks : entries'[u].booked <=> entries[u].booked
      BY <1>2 DEF Pends, pendLocked, Types, Entry
    <2> QED
      BY <1>2, <2>1, CountStays DEF Pends, QuietCount
  <1>3. CASE Lands(t, r) \/ Misses(t, r)
    <2>1. CASE UNCHANGED callers
      BY <1>3, <2>1, CountStays DEF QuietCount, Lands, Misses, accounts
    <2>2. CASE flights[t][r].caller # Nil
      <3>1. PICK c \in Callers : c = flights[t][r].caller
        BY <2>2, FlightType DEF Round
      <3>2. At(c, "wait")
        BY <1>3, <2>2, <3>1 DEF EachTask, OfTask, TendsOf, Waits, Lands, Misses
      <3>3. Only(c) /\ callers'[c].pc \in {"idle", "unwind"}
        <4>1. Returns(c) \/ Go(c, "unwind")
          BY <1>3, <2>2, <3>1 DEF Lands, Misses
        <4> QED
          BY <4>1, ReturnsLeaves, IdleCall DEF Go, Types, Call, Only
      <3> QED
        BY <1>3, <3>2, <3>3, CountStays DEF QuietCount, Lands, Misses, accounts, Only, At, Admitting
    <2> QED
      BY <1>3, <2>1, <2>2 DEF Lands, Misses
  <1>4. CASE UNCHANGED <<entries, open, callers>>
    BY <1>4, CountStays DEF QuietCount
  <1> QED
    BY <1>1, <1>2, <1>3, <1>4 DEF Flight, Registers, Answers, Completes, Advance, Flushes,
                                  ReadsObligations, Ends, accounts

-----------------------------------------------------------------------------
(* The invariant holds.                                                    *)

LEMMA InvInit == Init => DelegationInv
  <1> SUFFICES ASSUME Init PROVE DelegationInv
    OBVIOUS
  <1>1. \A t \in Tasks : registry[t].status = Unknown /\ registry[t].round = 0 /\ Bare(t)
    BY DEF Init, Bare
  <1>2. Types
    <2>1. registry \in [Tasks -> Tasked]
      <3>1. 0 \in 0..MaxRounds
        BY BoundsAssumption
      <3> QED
        BY <3>1 DEF Init, Tasked, Statuses
    <2>2. entries \in [Tasks -> Entry] /\ served \in [Tasks -> Slot] /\ flights \in [Tasks -> [Rounds -> Round]]
      BY NothingTyped DEF Init
    <2>3. callers \in [Callers -> Call] /\ \A c \in Callers : At(c, "idle")
      BY IdleCall DEF Init, At
    <2>4. open \in Nat /\ faults \in 0..MaxFaults /\ stops \in 0..MaxStops /\ stuck \subseteq Tasks
          /\ closer = [pc |-> "off", task |-> Nil] /\ facts \in [Tasks -> SUBSET Seq(Bodies)]
      BY BoundsAssumption DEF Init
    <2> QED
      BY <2>1, <2>2, <2>3, <2>4 DEF Types
  <1>3. EachTask
    BY <1>1, BareFit DEF BareFits, EachTask, InFlight, Unknown
  <1>4. RoundsLeft
    <2>1. \A t \in Tasks : Askers(t) = {}
      BY IdleCall DEF Init, Askers, Asking
    <2>2. \A t \in Tasks : registry[t].round = 0 /\ Cardinality(Askers(t)) = 0
      BY <1>1, <2>1, FS_EmptySet
    <2>3. MaxRounds \in Nat /\ 0 + 0 <= MaxRounds
      BY BoundsAssumption
    <2> QED
      BY <2>2, <2>3 DEF RoundsLeft
  <1>5. Counted
    <2>1. Booked = {} /\ Admitters = {} /\ open = 0
      BY IdleCall DEF Init, Booked, Admitters, Admitting, NoEntry
    <2> QED
      BY <2>1, FS_EmptySet DEF Counted
  <1> QED
    BY <1>2, <1>3, <1>4, <1>5 DEF DelegationInv

LEMMA CallerInv ==
    ASSUME DelegationInv, NEW c \in Callers, Caller(c)
    PROVE  DelegationInv'
  <1>1. ~At(c, "idle")
    BY DEF Caller, Admit, Withdraws, Enters, Consults, RestoreEntry, Seed, Claim, Reactivate, GivesBack,
           ReopenRound, Serve, RollbackReactivation, AbandonRound, At
  <1>2. PICK t \in Tasks : callers[c].task = t
    BY <1>1 DEF DelegationInv, Types
  <1>3. Types /\ EachTask /\ RoundsLeft /\ Counted
    BY DEF DelegationInv
  <1>4. CASE Admit(c)
    BY <1>2, <1>3, <1>4, AdmitKeeps, AdmitRounds, AdmitCounts DEF DelegationInv
  <1>5. CASE Withdraws(c)
    <2>1. RoundsLeft'
      BY <1>3, <1>5, OtherRounds
    <2> QED
      BY <1>3, <1>5, <2>1, WithdrawsKeeps, WithdrawsCounts DEF DelegationInv
  <1>6. CASE Enters(c)
    <2>1. RoundsLeft'
      BY <1>3, <1>6, OtherRounds
    <2> QED
      BY <1>2, <1>3, <1>6, <2>1, EntersKeeps, EntersCounts DEF DelegationInv
  <1>7. CASE Reentry(c)
    <2>1. RoundsLeft' /\ Counted'
      BY <1>2, <1>3, <1>7, ReentryRounds, ReentryCounts DEF ReentryAt
    <2>2. Types' /\ EachTask'
      BY <1>2, <1>3, <1>7, ConsultsKeeps, RestoreKeeps, SeedKeeps, ClaimKeeps, ReactivateKeeps,
         GivesBackKeeps, ReopenKeeps, ServeKeeps, RollbackKeeps, AbandonKeeps DEF Reentry
    <2> QED
      BY <2>1, <2>2 DEF DelegationInv
  <1> QED
    BY <1>4, <1>5, <1>6, <1>7 DEF Caller, Reentry

LEMMA FlightInv ==
    ASSUME DelegationInv, NEW t \in Tasks, NEW r \in Rounds, Flight(t, r)
    PROVE  DelegationInv'
  <1>1. Types /\ EachTask /\ RoundsLeft /\ Counted
    BY DEF DelegationInv
  <1>2. RoundsLeft' /\ Counted'
    BY <1>1, OtherRounds, FlightCounts
  <1>3. Types' /\ EachTask'
    BY <1>1, RegistersKeeps, LandsKeeps, MissesKeeps, AnswersKeeps, CompletesKeeps, AdvanceKeeps,
       PendsKeeps, FlushesKeeps, ReadsObligationsKeeps, LandsTerminalKeeps, EndsKeeps DEF Flight
  <1> QED
    BY <1>2, <1>3 DEF DelegationInv

LEMMA StutterInv ==
    ASSUME DelegationInv, UNCHANGED vars
    PROVE  DelegationInv'
  <1>0. UNCHANGED <<registry, entries, open, served, flights, callers, closer, facts, faults, stops, stuck>>
    BY DEF vars, accounts, bounds
  <1>1. Types /\ EachTask /\ RoundsLeft /\ Counted
    BY DEF DelegationInv
  <1>2. Types' /\ RoundsLeft' /\ Counted'
    <2>1. Types'
      BY <1>0, <1>1 DEF Types, At
    <2>2. RoundsLeft' /\ Counted'
      BY <1>0, <1>1, OtherRounds, CountStays DEF QuietCount
    <2> QED
      BY <2>1, <2>2
  <1>3. EachTask'
    BY <1>0, <1>1, AllStill DEF Still
  <1> QED
    BY <1>2, <1>3 DEF DelegationInv

LEMMA InvStep == DelegationInv /\ [Next]_vars => DelegationInv'
  <1> SUFFICES ASSUME DelegationInv, [Next]_vars
               PROVE  DelegationInv'
    OBVIOUS
  <1>1. Types /\ EachTask /\ RoundsLeft /\ Counted
    BY DEF DelegationInv
  <1>2. ASSUME NEW c \in Callers, NEW t \in Tasks, Delegate(c, t) PROVE DelegationInv'
    <2>1. RoundsLeft'
      BY <1>1, <1>2, OtherRounds
    <2> QED
      BY <1>1, <1>2, <2>1, DelegateKeeps, DelegateCounts DEF DelegationInv
  <1>3. ASSUME NEW c \in Callers, NEW t \in Tasks, NEW body \in Bodies, Reenters(c, t, body)
        PROVE  DelegationInv'
    BY <1>1, <1>3, ReentersKeeps, ReentersRounds, ReentersCounts DEF DelegationInv
  <1>4. ASSUME NEW t \in Tasks, OffersOwed(t) PROVE DelegationInv'
    <2>1. RoundsLeft' /\ Counted'
      BY <1>1, <1>4, OtherRounds, CountStays DEF OffersOwed, QuietCount
    <2> QED
      BY <1>1, <1>4, <2>1, OffersOwedKeeps DEF DelegationInv
  <1>5. CASE Closes \/ Reconciles
    <2>1. RoundsLeft' /\ Counted'
      BY <1>1, <1>5, OtherRounds, CountStays DEF Closes, Reconciles, QuietCount, accounts
    <2> QED
      BY <1>1, <1>5, <2>1, ClosesKeeps, ReconcilesKeeps DEF DelegationInv
  <1>6. CASE ReconcileLands
    <2>1. RoundsLeft'
      BY <1>1, <1>6, OtherRounds
    <2>2. Counted'
      BY <1>1, <1>6, LandCounts DEF ReconcileLands, Types
    <2> QED
      BY <1>1, <1>6, <2>1, <2>2, ReconcileLandsKeeps DEF DelegationInv
  <1>7. CASE Stop
    <2>1. RoundsLeft'
      BY <1>1, <1>7, OtherRounds
    <2> QED
      BY <1>1, <1>7, <2>1, StopKeeps, StopCounts DEF DelegationInv
  <1> QED
    BY <1>2, <1>3, <1>4, <1>5, <1>6, <1>7, CallerInv, FlightInv, StutterInv DEF Next

\* The accounts of a delegated task agree through every admission, re-entry, round, close
\* and stop (assembly/host_tools.go, runtime/agent/delegate.go, tool/subagent/continuation.go).
THEOREM DelegationCorrect == Spec => []DelegationInv
  BY InvInit, InvStep, PTL DEF Spec

-----------------------------------------------------------------------------
(* What the invariant says.                                                *)

LEMMA InvTypeOK == DelegationInv => TypeOK
  <1> SUFFICES ASSUME DelegationInv PROVE TypeOK
    OBVIOUS
  <1>1. Types /\ EachTask
    BY DEF DelegationInv
  <1>2. ASSUME NEW t \in Tasks
        PROVE  /\ registry[t].status \in Terminal \union {Unknown, "running"}
               /\ registry[t].round \in 0..MaxRounds /\ registry[t].owed \subseteq Rounds
               /\ entries[t].status \in (IF entries[t].held THEN Terminal \union {"running"} ELSE {Unknown})
               /\ entries[t].pending \in Terminal \union {Unknown}
               /\ entries[t].round \in 0..MaxRounds
               /\ served[t].owed \in Seq(Bodies)
               /\ \A input \in facts[t] : input \in Seq(Bodies)
               /\ \A r \in Rounds : flights[t][r].input \in Seq(Bodies)
    <2>1. registry[t] \in Tasked /\ entries[t] \in Entry /\ served[t] \in Slot
          /\ facts[t] \in SUBSET Seq(Bodies)
      BY <1>1 DEF Types
    <2>2. entries[t].held <=> entries[t].status # Unknown
      BY <1>1 DEF EachTask, OfTask, LedgerOf
    <2>3. \A r \in Rounds : flights[t][r].input \in Seq(Bodies)
      BY <1>1, FlightType DEF Round
    <2> QED
      BY <2>1, <2>2, <2>3 DEF Tasked, Entry, Slot, Statuses
  <1> QED
    BY <1>1, <1>2 DEF TypeOK, Types

\* Every variable has its type, for every set of tasks, callers and bodies.
THEOREM TypeCorrect == Spec => []TypeOK
  BY DelegationCorrect, InvTypeOK, PTL

\* The count a close waits on is the bookings that stand and the admissions under way: no
\* interleaving of an admission, a re-entry, a landing and an abandon counts one twice or
\* loses one (delegate.go Pending).
THEOREM OpenCorrect == Spec => []OpenIsBooked
  <1>1. DelegationInv => OpenIsBooked
    BY DEF DelegationInv, Counted, Booked, Admitters, Admitting, OpenIsBooked, EachTask, OfTask, LedgerOf
  <1> QED
    BY <1>1, DelegationCorrect, PTL

LEMMA InvOneRound == DelegationInv => OneRoundServes
  <1> SUFFICES ASSUME DelegationInv, NEW t \in Tasks
               PROVE  /\ Cardinality({r \in Rounds : ~Flies(t, r, "none")}) <= 1
                      /\ \A r \in Rounds : Unsettled(t, r) =>
                            InFlight(t) /\ registry[t].round = r /\ entries[t].round = r /\ ~isTerminal(t)
    BY DEF OneRoundServes
  <1>1. SlotOf(t) /\ TendsOf(t) /\ LedgerOf(t)
    BY DEF DelegationInv, EachTask, OfTask
  <1>2. Cardinality({r \in Rounds : ~Flies(t, r, "none")}) <= 1
    <2>1. CASE \A r \in Rounds : Flies(t, r, "none")
      <3>1. {r \in Rounds : ~Flies(t, r, "none")} = {}
        BY <2>1
      <3> QED
        BY <3>1, FS_EmptySet
    <2>2. CASE \E r \in Rounds : ~Flies(t, r, "none")
      <3>1. PICK r \in Rounds : ~Flies(t, r, "none")
        BY <2>2
      <3>2. {s \in Rounds : ~Flies(t, s, "none")} = {r}
        BY <1>1, <3>1 DEF SlotOf
      <3>3. Cardinality({r}) = 1
        BY FS_Singleton
      <3> QED
        BY <3>2, <3>3
    <2> QED
      BY <2>1, <2>2
  <1>3. \A r \in Rounds : Unsettled(t, r) =>
           InFlight(t) /\ registry[t].round = r /\ entries[t].round = r /\ ~isTerminal(t)
    BY <1>1 DEF TendsOf, LedgerOf, Holds, isTerminal, Terminal
  <1> QED
    BY <1>2, <1>3

\* One round of a task runs at a time and settles as itself, whatever re-entries and landings
\* pass each other (continuation.go Claim, delegate.go ReopenRound).
THEOREM OneRoundCorrect == Spec => []OneRoundServes
  BY DelegationCorrect, InvOneRound, PTL

\* A task stands in flight only while somebody serves its round, or a refused commit or a
\* stop left it there (assembly/host_tools.go unwindReentry, roundEndedBeside).
THEOREM ServedCorrect == Spec => []InFlightIsServed
  <1>1. DelegationInv => InFlightIsServed
    BY DEF DelegationInv, EachTask, OfTask, ServedOf, InFlightIsServed, Serves, Tends, At
  <1> QED
    BY <1>1, DelegationCorrect, PTL

=============================================================================
