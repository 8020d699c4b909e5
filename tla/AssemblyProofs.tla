--------------------------- MODULE AssemblyProofs ---------------------------
(***************************************************************************)
(* Theorems about what a run assembles.  Publication: for every set of     *)
(* users and documents and every number of candidates, it implements       *)
(* GenerationLife and loses no publication.  MappedChain: for every number *)
(* of inputs, notices, rounds, folds and stops, no turn that was mapped is *)
(* lost, a request carries what its segment consumes, and a restart        *)
(* unfolds nothing.                                                        *)
(***************************************************************************)
EXTENDS Publication, MappedChain, FiniteSetTheorems, WellFoundedInduction, TLAPS

(***************************************************************************)
(* Publication.                                                            *)
(***************************************************************************)

-----------------------------------------------------------------------------
(* What the holder relies on.                                              *)

Building == {"constructing", "built", "refused", "unchanged"}
Owning == {"serving", "switched", "applied"}
Attempt == [pc : Building \union Owning \union {"recorded"}, doc : Docs,
            base : [gen : Nat, doc : Docs \union {Nil}], back : BOOLEAN,
            res : {"none", "held", "freed"}]

\* A candidate that may still serve holds what it was built with.
Ready == {"built", "recorded"}
ReadyHolds == \A c \in Attempts : attempts[c].pc \in Ready => attempts[c].res = "held"

\* Each generation is one candidate that serves or served; what is freed is released.
Owned ==
    /\ owner \in Seq(Nat)
    /\ \A g \in 1..generation :
          /\ owner[g] \in Attempts
          /\ attempts[owner[g]].pc \in Owning
          /\ attempts[owner[g]].res = "freed" => g \in released
    /\ \A g, h \in 1..generation : owner[g] = owner[h] => g = h

\* A handle, and a reference, is on a generation that was served; nothing that was
\* released is in service or in anybody's hands.
Lent ==
    /\ handles \in [Users -> [gen : Nat, draining : BOOLEAN]]
    /\ \A u \in Users : handles[u].gen \in 0..generation /\ handles[u].gen \notin released
    /\ released \subseteq 1..generation /\ generation \notin released
    /\ lent \subseteq 1..generation

Declared == {effective, source} \subseteq [gen : Nat, doc : Docs \union {Nil}]

LifeInv ==
    /\ attempts \in Seq(Attempt)
    /\ Declared /\ ReadyHolds /\ Owned /\ Lent

FreedGens == {g \in 1..generation : attempts[owner[g]].res = "freed"}
Holds == [u \in Users |-> handles[u].gen]

LEMMA LifeInit == Init => LifeInv
  BY DEF Init, LifeInv, Declared, ReadyHolds, Owned, Lent, Attempts, generation, None, Users

\* The users are finite, so what nobody holds is counted zero.
LEMMA BorrowsCount ==
    ASSUME NEW g
    PROVE  /\ borrows(g) = 0 => \A u \in Users : handles[u].gen # g
           /\ borrows(g) = 1 => \A u, v \in Users :
                 handles[u].gen = g /\ handles[v].gen = g => u = v
  <1> DEFINE S == {u \in Users : handles[u].gen = g}
  <1>1. IsFiniteSet(Users)
    BY UsersAssumption, FS_Union DEF Users
  <1>2. IsFiniteSet(S)
    BY <1>1, FS_Subset
  <1>3. borrows(g) = Cardinality(S)
    BY DEF borrows
  <1>4. borrows(g) = 0 => S = {}
    BY <1>2, <1>3, FS_EmptySet
  <1>5. borrows(g) = 1 => \E x : S = {x}
    BY <1>2, <1>3, FS_Singleton
  <1> QED
    BY <1>4, <1>5

-----------------------------------------------------------------------------
(* Steps of a candidate that no generation holds.                          *)

\* A step that leaves the holder alone, the candidates where they are held, and
\* frees nothing of them.
LEMMA Inert ==
    ASSUME LifeInv, attempts' \in Seq(Attempt), Len(attempts') >= Len(attempts),
           Declared', UNCHANGED <<owner, released, handles, lent>>, ReadyHolds',
           \A g \in 1..generation :
              /\ attempts'[owner[g]].pc \in Owning
              /\ attempts'[owner[g]].res = attempts[owner[g]].res
    PROVE  LifeInv' /\ UNCHANGED <<generation, Holds, FreedGens>>
  <1>1. generation' = generation /\ Holds' = Holds
    BY DEF generation, Holds
  <1>2. Attempts \subseteq Attempts'
    BY DEF Attempts, LifeInv
  <1>3. Owned'
    BY <1>1, <1>2 DEF LifeInv, Owned, generation
  <1>4. Lent'
    BY <1>1 DEF LifeInv, Lent
  <1>5. FreedGens' = FreedGens
    BY <1>1 DEF FreedGens
  <1> QED
    BY <1>1, <1>3, <1>4, <1>5 DEF LifeInv

\* A candidate whose step, and whose resources, move; its other fields stay.
Moved(a, pc, res) == [a EXCEPT !.pc = pc, !.res = res]
Kept(a, b) == b.doc = a.doc /\ b.base = a.base /\ b.back = a.back
Pcs == Building \union Owning \union {"recorded"}
Res == {"none", "held", "freed"}

LEMMA MovedType ==
    ASSUME NEW a \in Attempt, NEW pc \in Pcs, NEW res \in Res
    PROVE  /\ Moved(a, pc, res) \in Attempt
           /\ Moved(a, pc, res).pc = pc /\ Moved(a, pc, res).res = res
           /\ Kept(a, Moved(a, pc, res))
  BY DEF Attempt, Moved, Kept, Pcs, Res

LEMMA PcMoved ==
    ASSUME NEW a \in Attempt, NEW pc \in Pcs
    PROVE  [a EXCEPT !.pc = pc] = Moved(a, pc, a.res)
  BY DEF Attempt, Moved, Pcs

LEMMA ResMoved ==
    ASSUME NEW a \in Attempt, NEW res \in Res
    PROVE  [a EXCEPT !.res = res] = Moved(a, a.pc, res)
  BY DEF Attempt, Moved, Res

LEMMA MovedOnce ==
    ASSUME NEW a \in Attempt, NEW pc \in Pcs, NEW res \in Res, NEW m, m = Moved(a, a.pc, res)
    PROVE  [m EXCEPT !.pc = pc] = Moved(a, pc, res)
  BY DEF Attempt, Moved, Res, Pcs

LEMMA EachAttempt == ASSUME LifeInv, NEW c \in Attempts PROVE attempts[c] \in Attempt
  BY DEF LifeInv, Attempts

\* Candidate c is now b, and the others are what they were.
Becomes(c, b) == attempts' = [d \in Attempts |-> IF d = c THEN b ELSE attempts[d]]

LEMMA BecomesType ==
    ASSUME LifeInv, NEW c \in Attempts, NEW b \in Attempt, Becomes(c, b)
    PROVE  /\ attempts' \in Seq(Attempt) /\ Len(attempts') = Len(attempts)
           /\ Attempts' = Attempts
           /\ \A d \in Attempts \ {c} : attempts'[d] = attempts[d]
           /\ attempts'[c] = b
  BY DEF LifeInv, Attempts, Becomes

\* What an assignment to a candidate makes of it.
PcMoves(c, pc) == attempts' = [attempts EXCEPT ![c].pc = pc]
BothMove(c, pc, res) == attempts' = [attempts EXCEPT ![c].pc = pc, ![c].res = res]

LEMMA PcBecomes ==
    ASSUME LifeInv, NEW c \in Attempts, NEW pc \in Pcs, PcMoves(c, pc)
    PROVE  LET b == Moved(attempts[c], pc, attempts[c].res) IN
           /\ b \in Attempt /\ Becomes(c, b) /\ Kept(attempts[c], b)
           /\ b.pc = pc /\ b.res = attempts[c].res
  <1> DEFINE a == attempts[c]
  <1>1. a \in Attempt /\ a.res \in Res
    BY EachAttempt DEF Attempt, Res
  <1>2. [a EXCEPT !.pc = pc] = Moved(a, pc, a.res)
    BY <1>1, PcMoved
  <1>3. attempts' = [attempts EXCEPT ![c] = Moved(a, pc, a.res)]
    BY <1>2 DEF PcMoves
  <1>4. Becomes(c, Moved(a, pc, a.res))
    BY <1>3 DEF Becomes, LifeInv, Attempts
  <1> QED
    BY <1>1, <1>4, MovedType

LEMMA BothBecomes ==
    ASSUME LifeInv, NEW c \in Attempts, NEW pc \in Pcs, NEW res \in Res, BothMove(c, pc, res)
    PROVE  LET b == Moved(attempts[c], pc, res) IN
           /\ b \in Attempt /\ Becomes(c, b) /\ Kept(attempts[c], b)
           /\ b.pc = pc /\ b.res = res
  <1>1. attempts' = [attempts EXCEPT ![c] = Moved(attempts[c], pc, res)]
    BY DEF BothMove, Moved
  <1>2. Becomes(c, Moved(attempts[c], pc, res))
    BY <1>1 DEF Becomes, LifeInv, Attempts
  <1> QED
    BY <1>2, EachAttempt, MovedType

\* One candidate moves on, and no generation holds it or both steps are those of one
\* that serves.
LEMMA MoveInert ==
    ASSUME LifeInv, NEW c \in Attempts, NEW b \in Attempt, Becomes(c, b),
           b.pc \in Ready => b.res = "held",
           \/ attempts[c].pc \in Building \union {"recorded"} /\ b.pc \notin Owning
           \/ attempts[c].pc \in Owning /\ b.pc \in Owning /\ b.res = attempts[c].res,
           Declared', UNCHANGED <<owner, released, handles, lent>>
    PROVE  LifeInv' /\ UNCHANGED <<generation, Holds, FreedGens>>
  <1>1. /\ attempts' \in Seq(Attempt) /\ Len(attempts') = Len(attempts)
        /\ Attempts' = Attempts
        /\ \A d \in Attempts \ {c} : attempts'[d] = attempts[d]
        /\ attempts'[c] = b
    BY BecomesType
  <1>2. ReadyHolds'
    BY <1>1 DEF LifeInv, ReadyHolds
  <1>3. \A g \in 1..generation :
           /\ attempts'[owner[g]].pc \in Owning
           /\ attempts'[owner[g]].res = attempts[owner[g]].res
    BY <1>1 DEF LifeInv, Owned, Building, Owning
  <1>4. Len(attempts') >= Len(attempts)
    BY <1>1 DEF LifeInv
  <1> QED
    BY <1>1, <1>2, <1>3, <1>4, Inert

\* A candidate that is freed before any generation holds it.
FreedRes(c) == IF attempts[c].res = "held" THEN "freed" ELSE attempts[c].res

LEMMA FreedOne ==
    ASSUME LifeInv, NEW cs, NEW d \in Attempts
    PROVE  Freed(cs)[d] = IF d \in cs THEN Moved(attempts[d], attempts[d].pc, FreedRes(d))
                          ELSE attempts[d]
  <1>1. attempts[d] \in Attempt /\ attempts[d].res \in Res /\ attempts[d].pc \in Pcs
    BY EachAttempt DEF Attempt, Res, Pcs
  <1>2. attempts[d] = Moved(attempts[d], attempts[d].pc, attempts[d].res)
    BY <1>1 DEF Attempt, Moved
  <1>3. CASE d \in cs /\ attempts[d].res = "held"
    BY <1>1, <1>3, ResMoved DEF Freed, FreedRes, Res
  <1>4. CASE ~(d \in cs /\ attempts[d].res = "held")
    BY <1>2, <1>4 DEF Freed, FreedRes
  <1> QED
    BY <1>3, <1>4

LEMMA LeaveBecomes ==
    ASSUME LifeInv, NEW c \in Attempts, NEW pc \in Pcs, Leave(c, pc)
    PROVE  LET b == Moved(attempts[c], pc, FreedRes(c)) IN
           /\ b \in Attempt /\ Becomes(c, b) /\ Kept(attempts[c], b) /\ b.pc = pc
  <1> DEFINE b == Moved(attempts[c], pc, FreedRes(c))
  <1>1. attempts[c] \in Attempt /\ FreedRes(c) \in Res /\ attempts[c].pc \in Pcs /\ pc \in Pcs
    BY EachAttempt DEF Attempt, Res, FreedRes, Pcs
  <1>2. b \in Attempt /\ b.pc = pc /\ Kept(attempts[c], b)
    BY <1>1, MovedType
  <1>3. [Freed({c})[c] EXCEPT !.pc = pc] = b
    <2>1. Freed({c})[c] = Moved(attempts[c], attempts[c].pc, FreedRes(c))
      BY FreedOne
    <2> QED
      BY <1>1, <2>1, MovedOnce
  <1>4. attempts' = [Freed({c}) EXCEPT ![c] = [@ EXCEPT !.pc = pc]]
    BY DEF Leave
  <1> HIDE DEF b
  <1>5. attempts' = [Freed({c}) EXCEPT ![c] = b]
    BY <1>3, <1>4 DEF Freed, Attempts
  <1>6. \A d \in Attempts \ {c} : Freed({c})[d] = attempts[d]
    BY FreedOne
  <1>7. Becomes(c, b)
    BY <1>5, <1>6 DEF Freed, Attempts, Becomes
  <1> QED
    BY <1>2, <1>7 DEF b

LEMMA LeaveInert ==
    ASSUME LifeInv, NEW c \in Attempts, NEW pc \in Building \ Ready,
           attempts[c].pc \in Building, Leave(c, pc)
    PROVE  LifeInv' /\ UNCHANGED <<generation, Holds, FreedGens>>
  <1>1. pc \in Pcs /\ Declared' /\ UNCHANGED <<owner, released, handles, lent>>
    BY DEF Pcs, Leave, holder, LifeInv, Declared
  <1>2. PICK b \in Attempt : Becomes(c, b) /\ b.pc = pc
    BY <1>1, LeaveBecomes
  <1> QED
    BY <1>1, <1>2, MoveInert DEF Building, Ready, Owning

-----------------------------------------------------------------------------
(* The steps that matter to the life of a generation.                      *)

\* A sweep frees generations that are released, which nobody holds.
Swept == {owner[g] : g \in retired}

LEMMA SweepFrees ==
    ASSUME LifeInv, attempts' \in Seq(Attempt), Len(attempts') = Len(attempts),
           \A d \in Attempts :
              /\ attempts'[d].res = IF d \in Swept THEN FreedRes(d) ELSE attempts[d].res
              /\ attempts'[d].pc = attempts[d].pc
                    \/ (attempts'[d].pc \in Owning /\ attempts[d].pc \in Owning),
           handles' \in [Users -> [gen : Nat, draining : BOOLEAN]],
           \A u \in Users : handles'[u].gen = handles[u].gen,
           Declared', UNCHANGED <<owner, released, lent>>
    PROVE  LifeInv' /\ Life!Free
  <1>1. /\ generation' = generation /\ generation \in Nat
        /\ Holds' = Holds /\ Attempts' = Attempts
    BY DEF generation, Holds, Attempts, LifeInv, Owned
  <1> HIDE DEF generation
  <1>a. \A g \in retired : g \in released /\ g \in 1..generation
    BY <1>1 DEF LifeInv, Lent, retired
  <1>2. \A g \in 1..generation : owner[g] \in Attempts /\ (owner[g] \in Swept => g \in released)
    BY <1>a DEF LifeInv, Owned, Swept
  <1>3. ReadyHolds'
    <2> SUFFICES ASSUME NEW d \in Attempts, attempts'[d].pc \in Ready
                 PROVE  attempts'[d].res = "held"
      BY <1>1 DEF ReadyHolds
    <2>1. attempts[d].pc \in Ready /\ attempts[d].pc \notin Owning
      BY DEF Ready, Owning
    <2>2. d \notin Swept
      BY <2>1, <1>a DEF LifeInv, Owned, Swept
    <2> QED
      BY <2>1, <2>2 DEF LifeInv, ReadyHolds
  <1>4. Owned'
    <2>1. \A g \in 1..generation : attempts'[owner[g]].pc \in Owning
      BY <1>2 DEF LifeInv, Owned
    <2>2. \A g \in 1..generation : attempts'[owner[g]].res = "freed" => g \in released
      BY <1>2 DEF LifeInv, Owned
    <2> QED
      BY <1>1, <2>1, <2>2 DEF LifeInv, Owned
  <1>5. Lent'
    BY <1>1 DEF LifeInv, Lent
  <1>6. Life!Free
    <2> DEFINE gone == FreedGens' \ FreedGens
    <2>1. FreedGens' = {g \in 1..generation : attempts'[owner[g]].res = "freed"}
      BY <1>1 DEF FreedGens
    <2>2. FreedGens \subseteq FreedGens'
      BY <1>2, <2>1 DEF FreedGens, FreedRes
    <2>3. \A g \in gone : g \in released
      BY <1>2, <2>1 DEF FreedGens
    <2>4. gone \subseteq (1..(generation - 1)) \ FreedGens
      <3>1. \A g \in 1..generation : g # generation => g \in 1..(generation - 1)
        BY <1>1
      <3>2. \A g \in gone : g \in 1..generation /\ g # generation /\ g \notin FreedGens
        BY <2>1, <2>3 DEF LifeInv, Lent
      <3> QED
        BY <3>1, <3>2
    <2>5. \A u \in Users : Holds[u] \notin gone
      BY <2>3 DEF LifeInv, Lent, Holds
    <2>6. FreedGens' = FreedGens \union gone
      BY <2>2
    <2> HIDE DEF gone
    <2> QED
      BY <1>1, <2>4, <2>5, <2>6 DEF Life!Free, Holds, FreedGens
  <1> QED
    BY <1>1, <1>3, <1>4, <1>5, <1>6 DEF LifeInv

\* The candidate that takes over is not freed, and the generation it replaces is
\* released only when nobody holds it.
LEMMA HoldServes ==
    ASSUME LifeInv, NEW c \in Attempts, Hold(c)
    PROVE  LifeInv' /\ Life!Serve
  <1>1. /\ attempts[c].pc = "recorded" /\ attempts[c].res = "held"
        /\ "serving" \in Pcs /\ generation \in Nat
    BY DEF Pcs, Owning, Hold, LifeInv, ReadyHolds, Ready, Owned, generation
  <1>2. PICK b \in Attempt : Becomes(c, b) /\ b.pc = "serving" /\ b.res = "held"
    <2>1. PcMoves(c, "serving")
      BY DEF Hold, PcMoves
    <2> QED
      BY <1>1, <2>1, PcBecomes
  <1>7. /\ attempts' \in Seq(Attempt) /\ Len(attempts') = Len(attempts)
        /\ Attempts' = Attempts
        /\ \A d \in Attempts \ {c} : attempts'[d] = attempts[d]
        /\ attempts'[c] = b
    BY <1>2, BecomesType
  <1>8. /\ owner' = Append(owner, c) /\ owner' \in Seq(Nat)
        /\ generation' = generation + 1 /\ owner'[generation + 1] = c
        /\ \A g \in 1..generation : owner'[g] = owner[g] /\ owner[g] # c
    <2>1. owner' = Append(owner, c)
      BY DEF Hold
    <2>2. c \in Nat /\ owner \in Seq(Nat)
      BY DEF LifeInv, Attempts, Owned
    <2>3. \A g \in 1..generation : owner[g] # c
      BY <1>1 DEF LifeInv, Owned, Owning
    <2> QED
      BY <2>1, <2>2, <2>3 DEF generation
  <1>a. \A g \in 1..generation' : g \in 1..generation \/ g = generation + 1
    BY <1>1, <1>8
  <1>b. 1..generation \subseteq 1..generation' /\ generation' - 1 = generation
    BY <1>1, <1>8
  <1>c. /\ \A g \in 1..generation : attempts'[owner'[g]] = attempts[owner[g]]
        /\ attempts'[owner'[generation + 1]] = b
    BY <1>7, <1>8 DEF LifeInv, Owned
  <1>9. ReadyHolds'
    BY <1>2, <1>7 DEF LifeInv, ReadyHolds
  <1>10. Owned'
    <2>1. \A g \in 1..generation' : owner'[g] \in Attempts
      BY <1>a, <1>8 DEF LifeInv, Owned
    <2>2. \A g \in 1..generation' : attempts'[owner'[g]].pc \in Owning
      BY <1>a, <1>2, <1>c DEF LifeInv, Owned, Owning
    <2>3. \A g \in 1..generation' : attempts'[owner'[g]].res = "freed" => g \in released'
      <3>1. released \subseteq released'
        BY DEF Hold
      <3> QED
        BY <1>a, <1>2, <1>c, <3>1 DEF LifeInv, Owned
    <2>4. \A g, h \in 1..generation' : owner'[g] = owner'[h] => g = h
      <3>1. \A g, h \in 1..generation : owner'[g] = owner'[h] => g = h
        BY <1>8 DEF LifeInv, Owned
      <3>2. \A g \in 1..generation : owner'[g] # owner'[generation + 1]
        BY <1>8
      <3> QED
        BY <1>a, <3>1, <3>2
    <2> QED
      BY <1>7, <1>8, <2>1, <2>2, <2>3, <2>4 DEF Owned
  <1>11. Lent'
    <2>1. \A g \in superseded : g \in 1..generation /\ \A u \in Users : handles[u].gen # g
      BY <1>1, BorrowsCount DEF superseded
    <2>2. released' = released \union superseded /\ handles' = handles /\ lent' = lent
      BY DEF Hold
    <2>3. generation \in 1..generation' \/ generation = 0
      BY <1>1, <1>8
    <2>4. generation' \notin 1..generation /\ 0..generation \subseteq 0..generation'
      BY <1>1, <1>8
    <2>5. \A u \in Users : handles[u].gen \notin superseded
      BY <2>1
    <2> QED
      BY <1>b, <2>1, <2>2, <2>4, <2>5 DEF LifeInv, Lent
  <1>12. Life!Serve
    <2>1. Holds' = Holds
      BY DEF Hold, Holds
    <2>2. FreedGens' = FreedGens
      BY <1>a, <1>b, <1>c, <1>2 DEF FreedGens
    <2> QED
      BY <1>8, <2>1, <2>2 DEF Life!Serve, Holds, FreedGens
  <1> QED
    BY <1>7, <1>9, <1>10, <1>11, <1>12 DEF LifeInv, Declared, Hold

\* The steps of one candidate up to its publication, and the switch.
LEMMA CandidateInert ==
    ASSUME LifeInv, NEW c \in Attempts,
           \/ Construct(c) \/ ConstructFails(c) \/ commitRecord(c) \/ Switch(c)
    PROVE  LifeInv' /\ UNCHANGED <<generation, Holds, FreedGens>>
  <1>1. /\ "built" \in Pcs /\ "refused" \in Pcs /\ "recorded" \in Pcs /\ "switched" \in Pcs
        /\ "held" \in Res /\ "freed" \in Res
    BY DEF Pcs, Building, Owning, Res
  <1>2. CASE Construct(c)
    <2>1. BothMove(c, "built", "held")
      BY <1>2 DEF Construct, BothMove
    <2>2. PICK b \in Attempt : Becomes(c, b) /\ b.pc = "built" /\ b.res = "held"
      BY <1>1, <2>1, BothBecomes
    <2> QED
      BY <1>2, <2>2, MoveInert
         DEF Construct, holder, LifeInv, Declared, Building, Owning
  <1>3. CASE ConstructFails(c)
    <2>1. BothMove(c, "refused", "freed")
      BY <1>3 DEF ConstructFails, BothMove
    <2>2. PICK b \in Attempt : Becomes(c, b) /\ b.pc = "refused"
      BY <1>1, <2>1, BothBecomes
    <2> QED
      BY <1>3, <2>2, MoveInert
         DEF ConstructFails, holder, LifeInv, Declared, Building, Owning, Ready
  <1>4. CASE commitRecord(c)
    <2>1. PICK b \in Attempt : Becomes(c, b) /\ b.pc = "recorded" /\ b.res = attempts[c].res
      <3>1. PcMoves(c, "recorded")
        BY <1>4 DEF commitRecord, PcMoves
      <3> QED
        BY <1>1, <3>1, PcBecomes
    <2>2. attempts[c].pc = "built" /\ attempts[c].res = "held"
      BY <1>4 DEF commitRecord, Enters, LifeInv, ReadyHolds, Ready
    <2> QED
      BY <1>4, <2>1, <2>2, MoveInert
         DEF commitRecord, holder, LifeInv, Declared, Building, Owning
  <1>5. CASE Switch(c)
    <2>1. PICK b \in Attempt : Becomes(c, b) /\ b.pc = "switched" /\ b.res = attempts[c].res
      <3>1. PcMoves(c, "switched")
        BY <1>5 DEF Switch, PcMoves
      <3> QED
        BY <1>1, <3>1, PcBecomes
    <2>2. Declared'
      <3>1. generation \in Nat /\ attempts[c].doc \in Docs
        BY EachAttempt DEF LifeInv, Owned, generation, Attempt
      <3> QED
        BY <1>5, <3>1 DEF Switch, LifeInv, Declared
    <2> QED
      BY <1>5, <2>1, <2>2, MoveInert DEF Switch, holder, Owning, Ready
  <1> QED
    BY <1>2, <1>3, <1>4, <1>5

\* A new candidate is held by no generation.
LEMMA BaselineInert ==
    ASSUME LifeInv, NEW doc \in Docs, NEW back \in BOOLEAN, ReadBaseline(doc, back)
    PROVE  LifeInv' /\ UNCHANGED <<generation, Holds, FreedGens>>
  <1> DEFINE n == [pc |-> "constructing", doc |-> doc, base |-> effective, back |-> back,
                   res |-> "none"]
  <1>1. n \in Attempt /\ n.pc = "constructing"
    BY DEF Attempt, Building, LifeInv, Declared
  <1>2. attempts' = Append(attempts, n)
    BY DEF ReadBaseline
  <1> HIDE DEF n
  <1>3. /\ attempts' \in Seq(Attempt) /\ Len(attempts') >= Len(attempts)
        /\ \A c \in Attempts : attempts'[c] = attempts[c]
        /\ \A c \in Attempts' : c \in Attempts \/ attempts'[c] = n
    BY <1>1, <1>2 DEF LifeInv, Attempts
  <1>4. ReadyHolds'
    BY <1>1, <1>3 DEF LifeInv, ReadyHolds, Ready
  <1> QED
    BY <1>3, <1>4, Inert DEF ReadBaseline, holder, LifeInv, Declared, Owned

\* What both sweeps do to the candidates.
LEMMA SweepIsFreed ==
    ASSUME LifeInv
    PROVE  /\ sweep \in Seq(Attempt) /\ Len(sweep) = Len(attempts)
           /\ \A d \in Attempts :
                 /\ sweep[d].res = IF d \in Swept THEN FreedRes(d) ELSE attempts[d].res
                 /\ sweep[d].pc = attempts[d].pc
  <1>1. \A d \in Attempts :
           /\ attempts[d] \in Attempt /\ attempts[d].pc \in Pcs /\ FreedRes(d) \in Res
           /\ sweep[d] = IF d \in Swept THEN Moved(attempts[d], attempts[d].pc, FreedRes(d))
                          ELSE attempts[d]
    BY EachAttempt, FreedOne DEF Attempt, Pcs, Res, FreedRes, sweep, Swept
  <1>2. \A d \in Attempts :
           LET b == Moved(attempts[d], attempts[d].pc, FreedRes(d)) IN
           b \in Attempt /\ b.pc = attempts[d].pc /\ b.res = FreedRes(d)
    BY <1>1, MovedType
  <1>3. \A d \in Attempts : sweep[d] \in Attempt
    BY <1>1, <1>2
  <1>4. DOMAIN sweep = 1..Len(attempts) /\ sweep = [d \in Attempts |-> sweep[d]]
    BY DEF sweep, Freed, Attempts, LifeInv
  <1>5. sweep \in Seq(Attempt) /\ Len(sweep) = Len(attempts)
    <2> DEFINE w == sweep
    <2>1. /\ w = [d \in Attempts |-> w[d]] /\ DOMAIN w = 1..Len(attempts)
          /\ \A d \in Attempts : w[d] \in Attempt
          /\ Attempts = 1..Len(attempts) /\ Len(attempts) \in Nat
      BY <1>3, <1>4 DEF LifeInv, Attempts
    <2> HIDE DEF w
    <2>2. w \in Seq(Attempt) /\ Len(w) = Len(attempts)
      BY <2>1
    <2> QED
      BY <2>2 DEF w
  <1> QED
    BY <1>1, <1>2, <1>5

LEMMA DrainFrees ==
    ASSUME LifeInv, NEW u \in Users, Drain(u)
    PROVE  LifeInv' /\ Life!Free
  <1>1. attempts' = sweep /\ UNCHANGED <<effective, source, owner, released, lent>>
    BY DEF Drain
  <1>2. /\ handles' \in [Users -> [gen : Nat, draining : BOOLEAN]]
        /\ \A v \in Users : handles'[v].gen = handles[v].gen
    BY DEF Drain, LifeInv, Lent
  <1> QED
    BY <1>1, <1>2, SweepIsFreed, SweepFrees DEF LifeInv, Declared

LEMMA PublishEndsFrees ==
    ASSUME LifeInv, NEW c \in Attempts, PublishEnds(c)
    PROVE  LifeInv' /\ Life!Free
  <1> DEFINE b == Moved(sweep[c], "applied", sweep[c].res)
  <1>1. /\ UNCHANGED <<effective, source, owner, released, lent, handles>>
        /\ attempts[c].pc = "switched"
        /\ attempts' = [sweep EXCEPT ![c] = [@ EXCEPT !.pc = "applied"]]
    BY DEF PublishEnds, holder
  <1>2. sweep \in Seq(Attempt) /\ sweep[c] \in Attempt /\ c \in DOMAIN sweep
        /\ sweep[c].res \in Res /\ "applied" \in Pcs
    <2>1. sweep \in Seq(Attempt) /\ c \in DOMAIN sweep
      BY SweepIsFreed DEF LifeInv, Attempts
    <2>2. sweep[c] \in Attempt
      BY <2>1
    <2> QED
      BY <2>1, <2>2 DEF Attempt, Res, Pcs, Owning
  <1>3. b \in Attempt /\ b.pc = "applied" /\ b.res = sweep[c].res
    BY <1>2, MovedType
  <1>4. [sweep[c] EXCEPT !.pc = "applied"] = b
    BY <1>2, PcMoved
  <1>5. attempts' = [sweep EXCEPT ![c] = b]
    BY <1>1, <1>4
  <1> HIDE DEF b
  <1>6. /\ attempts' \in Seq(Attempt) /\ Len(attempts') = Len(sweep)
        /\ attempts'[c] = b
        /\ \A d \in Attempts \ {c} : attempts'[d] = sweep[d]
    BY <1>2, <1>3, <1>5, SweepIsFreed DEF LifeInv, Attempts
  <1>7. \A d \in Attempts :
           /\ attempts'[d].res = IF d \in Swept THEN FreedRes(d) ELSE attempts[d].res
           /\ attempts'[d].pc = attempts[d].pc
                 \/ (attempts'[d].pc \in Owning /\ attempts[d].pc \in Owning)
    BY <1>1, <1>3, <1>6, SweepIsFreed DEF Owning
  <1> QED
    BY <1>1, <1>6, <1>7, SweepIsFreed, SweepFrees DEF LifeInv, Declared, Lent

\* A user takes a generation that is not released.
LEMMA TakeLends ==
    ASSUME LifeInv, NEW u \in Users, NEW g \in 1..generation, g \notin released, Take(u, g)
    PROVE  LifeInv' /\ Life!Take(u)
  <1>1. /\ UNCHANGED <<attempts, effective, source, owner, released>>
        /\ handles' = [handles EXCEPT ![u].gen = g] /\ handles[u].gen = 0
        /\ lent' = lent \union {g}
    BY DEF Take, account
  <1>2. generation' = generation /\ generation \in Nat /\ Attempts' = Attempts
        /\ FreedGens' = FreedGens
    BY <1>1 DEF generation, Attempts, FreedGens, LifeInv, Owned
  <1>3. /\ handles' \in [Users -> [gen : Nat, draining : BOOLEAN]]
        /\ handles'[u].gen = g /\ \A v \in Users \ {u} : handles'[v].gen = handles[v].gen
    BY <1>1, <1>2 DEF LifeInv, Lent
  <1>4. LifeInv'
    BY <1>1, <1>2, <1>3 DEF LifeInv, Declared, ReadyHolds, Owned, Lent
  <1>5. g \in (1..generation) \ FreedGens
    BY DEF LifeInv, Owned, FreedGens
  <1>6. Holds' = [Holds EXCEPT ![u] = g] /\ Holds[u] = 0
    BY <1>1, <1>3 DEF Holds
  <1> QED
    BY <1>2, <1>4, <1>5, <1>6 DEF Life!Take, Holds, FreedGens

LEMMA BorrowLends ==
    ASSUME LifeInv, NEW u \in Users, Borrow(u) \/ BorrowDerived(u)
    PROVE  LifeInv' /\ Life!Take(u)
  <1>1. CASE Borrow(u)
    <2>1. generation \in 1..generation /\ generation \notin released
      BY <1>1 DEF Borrow, LifeInv, Owned, Lent, generation
    <2> QED
      BY <1>1, <2>1, TakeLends DEF Borrow
  <1>2. CASE BorrowDerived(u)
    <2>1. PICK g \in lent \ released : Take(u, g)
      BY <1>2 DEF BorrowDerived
    <2>2. g \in 1..generation
      BY DEF LifeInv, Lent
    <2> QED
      BY <2>1, <2>2, TakeLends
  <1> QED
    BY <1>1, <1>2

\* The generation a release gives up for good is nobody's by then.
LEMMA ReleaseGivesBack ==
    ASSUME LifeInv, NEW u \in Users, Release(u)
    PROVE  LifeInv' /\ Life!GiveBack(u)
  <1> DEFINE g == handles[u].gen
  <1>1. /\ UNCHANGED <<attempts, effective, source, owner, lent>>
        /\ handles' = [handles EXCEPT ![u] = [gen |-> 0, draining |-> u \in Turns]]
        /\ g # 0
        /\ released' = IF LastHandle(g) THEN released \union {g} ELSE released
    BY DEF Release, account
  <1>2. generation' = generation /\ generation \in Nat /\ Attempts' = Attempts
        /\ FreedGens' = FreedGens
    BY <1>1 DEF generation, Attempts, FreedGens, LifeInv, Owned
  <1>3. /\ handles' \in [Users -> [gen : Nat, draining : BOOLEAN]]
        /\ handles'[u].gen = 0 /\ \A v \in Users \ {u} : handles'[v].gen = handles[v].gen
    <2>1. [gen |-> 0, draining |-> u \in Turns] \in [gen : Nat, draining : BOOLEAN]
      OBVIOUS
    <2>2. [gen |-> 0, draining |-> u \in Turns].gen = 0
      OBVIOUS
    <2> DEFINE h == [gen |-> 0, draining |-> u \in Turns]
    <2> HIDE DEF h
    <2>3. handles' = [handles EXCEPT ![u] = h] /\ h \in [gen : Nat, draining : BOOLEAN] /\ h.gen = 0
      BY <1>1, <2>1, <2>2 DEF h
    <2> QED
      BY <2>3 DEF LifeInv, Lent
  <1>4. g \in 1..generation /\ g \notin released
    BY <1>1, <1>2 DEF LifeInv, Lent
  <1>5. LastHandle(g) => g # generation /\ \A v \in Users \ {u} : handles[v].gen # g
    BY BorrowsCount DEF LastHandle
  <1>6. Lent'
    <2>1. \A v \in Users : handles'[v].gen \in 0..generation' /\ handles'[v].gen \notin released'
      <3>1. 0 \notin released' /\ 0 \in 0..generation
        BY <1>1, <1>2 DEF LifeInv, Lent
      <3>2. \A v \in Users \ {u} : handles[v].gen \notin released'
        BY <1>1, <1>5 DEF LifeInv, Lent
      <3> QED
        BY <1>2, <1>3, <3>1, <3>2 DEF LifeInv, Lent
    <2>2. released' \subseteq 1..generation' /\ generation' \notin released'
      BY <1>1, <1>2, <1>4, <1>5 DEF LifeInv, Lent
    <2> QED
      BY <1>1, <1>2, <1>3, <2>1, <2>2 DEF LifeInv, Lent
  <1>7. LifeInv'
    BY <1>1, <1>2, <1>6 DEF LifeInv, Declared, ReadyHolds, Owned
  <1>8. Holds' = [Holds EXCEPT ![u] = 0] /\ Holds[u] # 0
    BY <1>1, <1>3 DEF Holds
  <1> QED
    BY <1>2, <1>7, <1>8 DEF Life!GiveBack, Holds, FreedGens

-----------------------------------------------------------------------------
(* The publication implements the life of its generations.                 *)

LEMMA LifeStep ==
    ASSUME LifeInv, [Next]_vars
    PROVE  LifeInv' /\ [Life!Next]_(Life!life)
  <1> USE DEF Life!Next
  <1>a. UNCHANGED <<generation, Holds, FreedGens>> => UNCHANGED Life!life
    BY DEF Life!life, Holds, FreedGens
  <1>1. ASSUME NEW doc \in Docs, NEW back \in BOOLEAN, ReadBaseline(doc, back)
        PROVE  LifeInv' /\ [Life!Next]_(Life!life)
    BY <1>1, <1>a, BaselineInert
  <1>2. ASSUME NEW c \in Attempts, Publishes(c)
        PROVE  LifeInv' /\ [Life!Next]_(Life!life)
    <2>1. CASE Construct(c) \/ ConstructFails(c) \/ commitRecord(c) \/ Switch(c)
      BY <2>1, <1>a, CandidateInert
    <2>2. CASE Refuse(c) \/ PublishUnchanged(c) \/ EvaluateRefuses(c)
      <3>1. PICK pc \in Building \ Ready : attempts[c].pc \in Building /\ Leave(c, pc)
        BY <2>2 DEF Refuse, PublishUnchanged, EvaluateRefuses, Enters, Building, Ready
      <3> QED
        BY <3>1, <1>a, LeaveInert
    <2>3. CASE Hold(c)
      BY <2>3, HoldServes
    <2>4. CASE PublishEnds(c)
      BY <2>4, PublishEndsFrees
    <2> QED
      BY <1>2, <2>1, <2>2, <2>3, <2>4 DEF Publishes
  <1>3. ASSUME NEW u \in Users, Borrow(u) \/ BorrowDerived(u) \/ Release(u) \/ Drain(u)
        PROVE  LifeInv' /\ [Life!Next]_(Life!life)
    BY <1>3, BorrowLends, ReleaseGivesBack, DrainFrees
  <1>4. CASE UNCHANGED vars
    BY <1>4, <1>a DEF vars, account, holder, LifeInv, Declared, ReadyHolds, Owned, Lent,
       Attempts, generation, Holds, FreedGens
  <1> QED
    BY <1>1, <1>2, <1>3, <1>4 DEF Next

\* Whatever interleaves, the bindings live the life their users are promised: a
\* generation is handed out in order, and never freed under a user nor lent when freed
\* (publish.go, binding.go, retire.go).
THEOREM ImplementsLife == Spec => IsGenerationLife
  <1>1. Init => Life!Init
    BY DEF Init, Life!Init, generation, Users
  <1>2. LifeInv /\ [Next]_vars => LifeInv' /\ [Life!Next]_(Life!life)
    BY LifeStep
  <1> QED
    BY <1>1, <1>2, LifeInit, PTL DEF Spec, IsGenerationLife, Life!Spec

-----------------------------------------------------------------------------
(* What the lock of the publisher protects.                                *)

Record == [gen : Nat, doc : Docs, from : Nat]

\* A candidate between its record and the end of its publication.
Mid == {"recorded", "serving", "switched"}
Phase(pc) == publishing # 0 /\ attempts[publishing].pc = pc

\* What was effective when generation n was.
Effective(n) == IF n = 0 THEN None ELSE [gen |-> n, doc |-> records[n].doc]

\* The candidate past its record is the one that holds the lock.
OneMid ==
    /\ publishing \in {0} \union Attempts
    /\ \A c \in Attempts : attempts[c].pc \in Mid <=> c = publishing

\* There is a record for each generation, and one ahead of the holder.
Recorded ==
    /\ records \in Seq(Record)
    /\ Len(records) = IF Phase("recorded") THEN generation + 1 ELSE generation

\* What is effective follows the holder, one behind until the switch.
Follows ==
    /\ Phase("serving") => generation # 0
    /\ effective = Effective(IF Phase("serving") THEN generation - 1 ELSE generation)

\* The candidate under way was compiled against what is effective, and is recorded.
Carried ==
    /\ Phase("recorded") =>
          /\ attempts[publishing].base = effective
          /\ records[generation + 1].doc = attempts[publishing].doc
    /\ Phase("serving") => records[generation].doc = attempts[publishing].doc

RecordsInv == OneMid /\ Recorded /\ Follows /\ Carried /\ NoLostPublication

LEMMA RecordsInit == Init => RecordsInv
  BY DEF Init, RecordsInv, OneMid, Recorded, Follows, Carried, NoLostPublication,
         Attempts, generation, Phase, Effective

\* Outside the lock nothing of it moves.
Beside(c) ==
    /\ attempts'[c].doc = attempts[c].doc /\ attempts'[c].base = attempts[c].base
    /\ (attempts[c].pc \in Mid \/ attempts'[c].pc \in Mid) => attempts'[c].pc = attempts[c].pc

LEMMA BesideTheLock ==
    ASSUME LifeInv, LifeInv', RecordsInv, UNCHANGED <<owner, records, publishing, effective>>,
           Attempts \subseteq Attempts',
           \A c \in Attempts : Beside(c),
           \A c \in Attempts' \ Attempts : attempts'[c].pc \notin Mid
    PROVE  RecordsInv'
  <1>1. generation' = generation /\ generation \in Nat
    BY DEF generation, LifeInv, Owned
  <1>2. 0 \notin Attempts'
    BY DEF Attempts, LifeInv
  <1> HIDE DEF generation
  <1>3. OneMid'
    BY <1>2 DEF RecordsInv, OneMid, Beside
  <1>4. \A pc \in Mid : Phase(pc)' <=> Phase(pc)
    BY DEF RecordsInv, OneMid, Beside, Phase
  <1>5. \A n : Effective(n)' = Effective(n)
    BY DEF Effective
  <1>6. publishing # 0 =>
           /\ attempts'[publishing].doc = attempts[publishing].doc
           /\ attempts'[publishing].base = attempts[publishing].base
    BY DEF RecordsInv, OneMid, Beside
  <1>7. "recorded" \in Mid /\ "serving" \in Mid
    BY DEF Mid
  <1>8. Recorded'
    BY <1>1, <1>4, <1>7 DEF RecordsInv, Recorded
  <1>9. Follows'
    BY <1>1, <1>4, <1>5, <1>7 DEF RecordsInv, Follows
  <1>10. Carried'
    BY <1>1, <1>4, <1>6, <1>7 DEF RecordsInv, Carried, Phase
  <1>11. NoLostPublication'
    <2>1. \A g \in 1..generation : attempts'[owner[g]].base = attempts[owner[g]].base
      BY DEF LifeInv, Owned, Beside
    <2> QED
      BY <1>1, <2>1 DEF RecordsInv, NoLostPublication
  <1> QED
    BY <1>3, <1>8, <1>9, <1>10, <1>11 DEF RecordsInv

-----------------------------------------------------------------------------
(* Steps beside the lock.                                                  *)

LEMMA BaselineBeside ==
    ASSUME LifeInv, LifeInv', RecordsInv, NEW doc \in Docs, NEW back \in BOOLEAN,
           ReadBaseline(doc, back)
    PROVE  RecordsInv'
  <1> DEFINE n == [pc |-> "constructing", doc |-> doc, base |-> effective, back |-> back,
                   res |-> "none"]
  <1>1. n \in Attempt /\ n.pc \notin Mid
    BY DEF Attempt, Building, LifeInv, Declared, Mid
  <1>2. attempts' = Append(attempts, n)
    BY DEF ReadBaseline
  <1> HIDE DEF n
  <1>3. /\ Attempts \subseteq Attempts'
        /\ \A c \in Attempts : attempts'[c] = attempts[c]
        /\ \A c \in Attempts' \ Attempts : attempts'[c] = n
    BY <1>1, <1>2 DEF LifeInv, Attempts
  <1>4. \A c \in Attempts : Beside(c)
    BY <1>3 DEF Beside
  <1> QED
    BY <1>1, <1>3, <1>4, BesideTheLock DEF ReadBaseline, holder

\* One candidate moves, and is outside the lock before and after.
LEMMA MoveBeside ==
    ASSUME LifeInv, LifeInv', RecordsInv, NEW c \in Attempts, NEW b \in Attempt,
           Becomes(c, b), Kept(attempts[c], b), attempts[c].pc \notin Mid, b.pc \notin Mid,
           UNCHANGED <<owner, records, publishing, effective>>
    PROVE  RecordsInv'
  <1>1. /\ Attempts' = Attempts
        /\ \A d \in Attempts \ {c} : attempts'[d] = attempts[d]
        /\ attempts'[c] = b
    BY BecomesType
  <1>2. \A d \in Attempts : Beside(d)
    BY <1>1 DEF Beside, Kept
  <1> QED
    BY <1>1, <1>2, BesideTheLock

LEMMA ConstructionBeside ==
    ASSUME LifeInv, LifeInv', RecordsInv, NEW c \in Attempts,
           Construct(c) \/ ConstructFails(c)
    PROVE  RecordsInv'
  <1>1. PICK pc \in {"built", "refused"}, res \in {"held", "freed"} : BothMove(c, pc, res)
    BY DEF Construct, ConstructFails, BothMove
  <1>2. pc \in Pcs /\ res \in Res
    BY DEF Pcs, Building, Res
  <1>3. PICK b \in Attempt : Becomes(c, b) /\ Kept(attempts[c], b) /\ b.pc = pc
    BY <1>1, <1>2, BothBecomes
  <1>4. attempts[c].pc \notin Mid /\ b.pc \notin Mid
    BY <1>3 DEF Construct, ConstructFails, Mid
  <1> QED
    BY <1>3, <1>4, MoveBeside DEF Construct, ConstructFails, holder

LEMMA LeaveBeside ==
    ASSUME LifeInv, LifeInv', RecordsInv, NEW c \in Attempts,
           Refuse(c) \/ PublishUnchanged(c) \/ EvaluateRefuses(c)
    PROVE  RecordsInv'
  <1>1. PICK pc \in {"refused", "unchanged"} : Leave(c, pc)
    BY DEF Refuse, PublishUnchanged, EvaluateRefuses
  <1>2. pc \in Pcs /\ pc \notin Mid /\ attempts[c].pc \notin Mid
    BY DEF Pcs, Building, Mid, Refuse, PublishUnchanged, EvaluateRefuses, Enters
  <1>3. PICK b \in Attempt : Becomes(c, b) /\ Kept(attempts[c], b) /\ b.pc = pc
    BY <1>1, <1>2, LeaveBecomes
  <1> QED
    BY <1>1, <1>2, <1>3, MoveBeside DEF Leave, holder

\* A sweep frees resources: nothing else of a candidate moves.
LEMMA SweepKeeps ==
    ASSUME LifeInv
    PROVE  \A d \in Attempts : sweep[d].pc = attempts[d].pc /\ Kept(attempts[d], sweep[d])
  <1> SUFFICES ASSUME NEW d \in Attempts
               PROVE  sweep[d].pc = attempts[d].pc /\ Kept(attempts[d], sweep[d])
    OBVIOUS
  <1>1. attempts[d] \in Attempt /\ attempts[d].pc \in Pcs /\ FreedRes(d) \in Res
    BY EachAttempt DEF Attempt, Pcs, Res, FreedRes
  <1>2. \/ sweep[d] = Moved(attempts[d], attempts[d].pc, FreedRes(d))
        \/ sweep[d] = attempts[d]
    BY FreedOne DEF sweep
  <1> QED
    BY <1>1, <1>2, MovedType DEF Kept

LEMMA RequestBeside ==
    ASSUME LifeInv, LifeInv', RecordsInv, NEW u \in Users,
           Borrow(u) \/ BorrowDerived(u) \/ Release(u) \/ Drain(u)
    PROVE  RecordsInv'
  <1>1. /\ UNCHANGED <<owner, records, publishing, effective>>
        /\ attempts' = attempts \/ attempts' = sweep
    BY DEF Borrow, BorrowDerived, Take, Release, Drain, account
  <1>2. Attempts' = Attempts
    BY <1>1, SweepIsFreed DEF Attempts, LifeInv
  <1>3. \A d \in Attempts : Beside(d)
    BY <1>1, SweepKeeps DEF Beside, Kept
  <1> QED
    BY <1>1, <1>2, <1>3, BesideTheLock

-----------------------------------------------------------------------------
(* Steps under the lock.                                                   *)

\* What the candidate that moves leaves of the others, and of itself.
OnlyMoves(c, pc) ==
    /\ Attempts' = Attempts
    /\ attempts'[c].pc = pc
    /\ \A d \in Attempts : Kept(attempts[d], attempts'[d])
    /\ \A d \in Attempts \ {c} : attempts'[d].pc = attempts[d].pc

LEMMA PcMovesOnly ==
    ASSUME LifeInv, NEW c \in Attempts, NEW pc \in Pcs, PcMoves(c, pc)
    PROVE  OnlyMoves(c, pc)
  <1>1. PICK b \in Attempt : Becomes(c, b) /\ Kept(attempts[c], b) /\ b.pc = pc
    BY PcBecomes
  <1>2. /\ Attempts' = Attempts
        /\ \A d \in Attempts \ {c} : attempts'[d] = attempts[d]
        /\ attempts'[c] = b
    BY <1>1, BecomesType
  <1> QED
    BY <1>1, <1>2 DEF OnlyMoves, Kept

\* The candidate that moves holds the lock, and keeps what it was compiled against.
LEMMA OneMidMoves ==
    ASSUME RecordsInv, LifeInv, NEW c \in Attempts, NEW pc, OnlyMoves(c, pc),
           publishing \in {0, c}, publishing' = IF pc \in Mid THEN c ELSE 0
    PROVE  OneMid' /\ \A d \in Attempts : attempts'[d].base = attempts[d].base
  <1>1. 0 \notin Attempts
    BY DEF Attempts, LifeInv
  <1>2. \A d \in Attempts \ {c} : attempts[d].pc \notin Mid
    BY <1>1 DEF RecordsInv, OneMid
  <1> QED
    BY <1>1, <1>2 DEF OnlyMoves, OneMid, Kept

LEMMA RecordKeepsChain ==
    ASSUME LifeInv, LifeInv', RecordsInv, NEW c \in Attempts, commitRecord(c)
    PROVE  RecordsInv'
  <1>1. /\ publishing = 0 /\ publishing' = c /\ attempts[c].base = effective
        /\ UNCHANGED <<owner, effective>>
        /\ records' = Append(records, NewRecord(c))
    BY DEF commitRecord, Enters, recheckBaseline, holder
  <1>2. "recorded" \in Pcs /\ PcMoves(c, "recorded")
    BY DEF Pcs, commitRecord, PcMoves
  <1>3. OnlyMoves(c, "recorded")
    BY <1>2, PcMovesOnly
  <1>4. generation' = generation /\ generation \in Nat
    BY <1>1 DEF generation, LifeInv, Owned
  <1> HIDE DEF generation
  <1>5. ~Phase("recorded") /\ ~Phase("serving")
    BY <1>1 DEF Phase
  <1>6. Phase("recorded")' /\ ~Phase("serving")' /\ c # 0
    BY <1>1, <1>3 DEF Phase, OnlyMoves, Attempts, LifeInv
  <1>7. OneMid' /\ \A d \in Attempts : attempts'[d].base = attempts[d].base
    BY <1>1, <1>3, OneMidMoves DEF Mid
  <1>8. NewRecord(c) \in Record /\ NewRecord(c).doc = attempts[c].doc
    BY <1>4, EachAttempt DEF NewRecord, Record, Attempt, LifeInv, Declared
  <1>9. /\ records' \in Seq(Record) /\ Len(records') = generation + 1
        /\ records'[generation + 1] = NewRecord(c)
        /\ \A g \in 1..generation : records'[g] = records[g]
    BY <1>1, <1>4, <1>5, <1>8 DEF RecordsInv, Recorded
  <1>10. Effective(generation)' = Effective(generation)
    BY <1>4, <1>9 DEF Effective
  <1>11. Follows'
    BY <1>1, <1>4, <1>5, <1>6, <1>10 DEF RecordsInv, Follows
  <1>12. Carried'
    BY <1>1, <1>3, <1>4, <1>6, <1>8, <1>9 DEF Carried, OnlyMoves, Kept
  <1>13. NoLostPublication'
    <2> SUFFICES ASSUME NEW g \in 1..generation
                 PROVE  attempts'[owner[g]].base =
                          IF g = 1 THEN None ELSE [gen |-> g - 1, doc |-> records'[g - 1].doc]
      BY <1>1, <1>4 DEF NoLostPublication
    <2>1. g # 1 => g - 1 \in 1..generation
      BY <1>4
    <2>2. attempts'[owner[g]].base = attempts[owner[g]].base
      BY <1>7 DEF LifeInv, Owned
    <2> QED
      BY <1>9, <2>1, <2>2 DEF RecordsInv, NoLostPublication
  <1> QED
    BY <1>4, <1>6, <1>7, <1>9, <1>11, <1>12, <1>13 DEF RecordsInv, Recorded

\* The generation that begins replaces the one that was effective.
LEMMA HoldKeepsChain ==
    ASSUME LifeInv, LifeInv', RecordsInv, NEW c \in Attempts, Hold(c)
    PROVE  RecordsInv'
  <1>1. /\ UNCHANGED <<records, publishing, effective>>
        /\ owner' = Append(owner, c) /\ attempts[c].pc = "recorded"
    BY DEF Hold
  <1>2. "serving" \in Pcs /\ PcMoves(c, "serving")
    BY DEF Pcs, Owning, Hold, PcMoves
  <1>3. OnlyMoves(c, "serving")
    BY <1>2, PcMovesOnly
  <1>4. publishing = c /\ c # 0 /\ c \in Nat
    BY <1>1 DEF RecordsInv, OneMid, Mid, Attempts, LifeInv
  <1>5. /\ generation' = generation + 1 /\ generation \in Nat
        /\ owner'[generation + 1] = c /\ \A g \in 1..generation : owner'[g] = owner[g]
    BY <1>1, <1>4 DEF generation, LifeInv, Owned
  <1> HIDE DEF generation
  <1>6. Phase("recorded") /\ ~Phase("serving") /\ Phase("serving")' /\ ~Phase("recorded")'
    BY <1>1, <1>3, <1>4 DEF Phase, OnlyMoves
  <1>7. OneMid' /\ \A d \in Attempts : attempts'[d].base = attempts[d].base
    BY <1>1, <1>3, <1>4, OneMidMoves DEF Mid
  <1>8. Recorded'
    BY <1>1, <1>5, <1>6 DEF RecordsInv, Recorded
  <1>9. effective = Effective(generation)
    BY <1>6 DEF RecordsInv, Follows
  <1>10. Follows'
    BY <1>1, <1>5, <1>6, <1>9 DEF Follows, Effective
  <1>11. Carried'
    BY <1>1, <1>3, <1>4, <1>5, <1>6 DEF RecordsInv, Carried, OnlyMoves, Kept
  <1>12. NoLostPublication'
    <2>1. \A g \in 1..generation' : g \in 1..generation \/ g = generation + 1
      BY <1>5
    <2>2. \A g \in 1..generation :
             attempts'[owner'[g]].base =
                IF g = 1 THEN None ELSE [gen |-> g - 1, doc |-> records'[g - 1].doc]
      <3>1. \A g \in 1..generation : attempts'[owner'[g]].base = attempts[owner[g]].base
        BY <1>5, <1>7 DEF LifeInv, Owned
      <3> QED
        BY <1>1, <3>1 DEF RecordsInv, NoLostPublication
    <2>3. attempts'[c].base = IF generation + 1 = 1 THEN None
                              ELSE [gen |-> generation, doc |-> records'[generation].doc]
      BY <1>1, <1>4, <1>5, <1>6, <1>7, <1>9 DEF RecordsInv, Carried, Effective
    <2> DEFINE Replaced(g) ==
                  attempts'[owner'[g]].base =
                     IF g = 1 THEN None ELSE [gen |-> g - 1, doc |-> records'[g - 1].doc]
    <2>4. Replaced(generation + 1)
      BY <1>5, <2>3
    <2>5. \A g \in 1..generation : Replaced(g)
      BY <2>2
    <2> HIDE DEF Replaced
    <2>6. \A g \in 1..generation' : Replaced(g)
      BY <2>1, <2>4, <2>5
    <2> QED
      BY <2>6 DEF NoLostPublication, Replaced
  <1> QED
    BY <1>7, <1>8, <1>10, <1>11, <1>12 DEF RecordsInv

\* What the steps behind the holder keep of the chain.
LEMMA KeepsChain ==
    ASSUME LifeInv, RecordsInv, UNCHANGED <<owner, records>>,
           \A d \in Attempts : attempts'[d].base = attempts[d].base
    PROVE  NoLostPublication'
  <1>1. generation' = generation
    BY DEF generation
  <1>2. \A g \in 1..generation : attempts'[owner[g]].base = attempts[owner[g]].base
    BY DEF LifeInv, Owned
  <1> QED
    BY <1>1, <1>2 DEF RecordsInv, NoLostPublication

LEMMA SwitchKeepsChain ==
    ASSUME LifeInv, LifeInv', RecordsInv, NEW c \in Attempts, Switch(c)
    PROVE  RecordsInv'
  <1>1. /\ UNCHANGED <<records, publishing, owner>> /\ attempts[c].pc = "serving"
        /\ effective' = [gen |-> generation, doc |-> attempts[c].doc]
    BY DEF Switch, holder
  <1>2. "switched" \in Pcs /\ PcMoves(c, "switched")
    BY DEF Pcs, Owning, Switch, PcMoves
  <1>3. OnlyMoves(c, "switched")
    BY <1>2, PcMovesOnly
  <1>4. publishing = c /\ c # 0
    BY <1>1 DEF RecordsInv, OneMid, Mid, Attempts, LifeInv
  <1>5. generation' = generation
    BY <1>1 DEF generation
  <1> HIDE DEF generation
  <1>6. ~Phase("recorded") /\ Phase("serving") /\ ~Phase("serving")' /\ ~Phase("recorded")'
    BY <1>1, <1>3, <1>4 DEF Phase, OnlyMoves
  <1>7. OneMid' /\ \A d \in Attempts : attempts'[d].base = attempts[d].base
    BY <1>1, <1>3, <1>4, OneMidMoves DEF Mid
  <1>8. Recorded' /\ Carried'
    BY <1>1, <1>5, <1>6 DEF RecordsInv, Recorded, Carried
  <1>9. Follows'
    BY <1>1, <1>4, <1>5, <1>6 DEF RecordsInv, Follows, Carried, Effective
  <1>10. NoLostPublication'
    BY <1>1, <1>7, KeepsChain
  <1> QED
    BY <1>7, <1>8, <1>9, <1>10 DEF RecordsInv

LEMMA EndKeepsChain ==
    ASSUME LifeInv, LifeInv', RecordsInv, NEW c \in Attempts, PublishEnds(c)
    PROVE  RecordsInv'
  <1>1. /\ UNCHANGED <<records, effective, owner>> /\ publishing' = 0
        /\ attempts[c].pc = "switched"
        /\ attempts' = [sweep EXCEPT ![c] = [@ EXCEPT !.pc = "applied"]]
    BY DEF PublishEnds, holder
  <1>2. OnlyMoves(c, "applied")
    <2>1. sweep \in Seq(Attempt) /\ Len(sweep) = Len(attempts)
      BY SweepIsFreed
    <2>2. sweep[c] \in Attempt /\ "applied" \in Pcs
      BY <2>1 DEF Attempts, LifeInv, Pcs, Owning
    <2> DEFINE b == Moved(sweep[c], "applied", sweep[c].res)
    <2>3. b \in Attempt /\ b.pc = "applied" /\ Kept(sweep[c], b)
      BY <2>2, MovedType, SMTT(60) DEF Attempt, Res
    <2>4. [sweep[c] EXCEPT !.pc = "applied"] = b
      BY <2>2, PcMoved
    <2> HIDE DEF b
    <2>5. attempts' = [sweep EXCEPT ![c] = b]
      BY <1>1, <2>4
    <2>6. /\ Attempts' = Attempts /\ attempts'[c] = b
          /\ \A d \in Attempts \ {c} : attempts'[d] = sweep[d]
      BY <2>1, <2>3, <2>5 DEF Attempts, LifeInv
    <2> QED
      BY <2>3, <2>6, SweepKeeps DEF OnlyMoves, Kept
  <1>3. publishing = c /\ c # 0
    BY <1>1 DEF RecordsInv, OneMid, Mid, Attempts, LifeInv
  <1>4. generation' = generation
    BY <1>1 DEF generation
  <1> HIDE DEF generation
  <1>5. \A pc \in {"recorded", "serving"} : ~Phase(pc) /\ ~Phase(pc)'
    BY <1>1, <1>3 DEF Phase
  <1>6. OneMid' /\ \A d \in Attempts : attempts'[d].base = attempts[d].base
    BY <1>1, <1>2, <1>3, OneMidMoves DEF Mid
  <1>7. Recorded' /\ Carried' /\ Follows'
    BY <1>1, <1>4, <1>5 DEF RecordsInv, Recorded, Carried, Follows, Effective
  <1>8. NoLostPublication'
    BY <1>1, <1>6, KeepsChain
  <1> QED
    BY <1>6, <1>7, <1>8 DEF RecordsInv

-----------------------------------------------------------------------------
LEMMA RecordsStep ==
    ASSUME LifeInv, LifeInv', RecordsInv, [Next]_vars
    PROVE  RecordsInv'
  <1>1. ASSUME NEW doc \in Docs, NEW back \in BOOLEAN, ReadBaseline(doc, back)
        PROVE  RecordsInv'
    BY <1>1, BaselineBeside
  <1>2. ASSUME NEW c \in Attempts, Publishes(c)
        PROVE  RecordsInv'
    BY <1>2, ConstructionBeside, LeaveBeside, RecordKeepsChain, HoldKeepsChain,
       SwitchKeepsChain, EndKeepsChain DEF Publishes
  <1>3. ASSUME NEW u \in Users, Borrow(u) \/ BorrowDerived(u) \/ Release(u) \/ Drain(u)
        PROVE  RecordsInv'
    BY <1>3, RequestBeside
  <1>4. CASE UNCHANGED vars
    BY <1>4 DEF vars, account, holder, RecordsInv, OneMid, Recorded, Follows, Carried,
       NoLostPublication, Attempts, generation, Phase, Effective
  <1> QED
    BY <1>1, <1>2, <1>3, <1>4 DEF Next

\* A generation replaces the very one its candidate was compiled against: the baseline
\* is read before the construction and compared again under the lock, and the record,
\* the holder and what is effective move one behind the other (baseline.go, publish.go).
THEOREM NoPublicationLost == Spec => []NoLostPublication
  <1>1. LifeInv /\ [Next]_vars => LifeInv'
    BY LifeStep
  <1>2. LifeInv /\ LifeInv' /\ RecordsInv /\ [Next]_vars => RecordsInv'
    BY RecordsStep
  <1>3. RecordsInv => NoLostPublication
    BY DEF RecordsInv
  <1> QED
    BY <1>1, <1>2, <1>3, LifeInit, RecordsInit, PTL DEF Spec

(***************************************************************************)
(* The mapped sequence of a session chain.                                 *)
(***************************************************************************)

-----------------------------------------------------------------------------
(* Sequences.                                                              *)

\* Induction over the naturals, on the set of the numbers a fact holds of.
LEMMA EveryNat ==
    ASSUME NEW S, 0 \in S, \A n \in Nat : n \in S => n + 1 \in S
    PROVE  Nat \subseteq S
  <1> DEFINE without == Nat \ S
             below == {p \in Nat \X Nat : p[1] < p[2]}
  <1> SUFFICES ASSUME without # {} PROVE FALSE
    OBVIOUS
  <1>1. IsWellFoundedOn(below, Nat)
    BY NatLessThanWellFounded, Zenon DEF OpToRel
  <1>2. PICK n \in without : \A m \in without : <<m, n>> \notin below
    <2> HIDE DEF below
    <2> QED
      BY <1>1, WFMin
  <1>3. n \in Nat /\ n # 0 /\ n \notin S
    OBVIOUS
  <1>4. n - 1 \in Nat /\ n - 1 < n /\ (n - 1) + 1 = n
    BY <1>3
  <1>5. <<n - 1, n>> \in below
    BY <1>3, <1>4
  <1> HIDE DEF below
  <1>6. n - 1 \in S
    BY <1>2, <1>4, <1>5
  <1> QED
    BY <1>3, <1>4, <1>6

\* A function defined by what it was one place before.
FoldsTo(g, n, A, base, step) ==
    /\ g \in [0 .. n -> A] /\ g[0] = base
    /\ \A k \in 1 .. n : g[k] = step[<<k, g[k - 1]>>]

LEMMA FoldExists ==
    ASSUME NEW n \in Nat, NEW A, NEW base \in A, NEW step \in [(1 .. n) \X A -> A]
    PROVE  \E g : FoldsTo(g, n, A, base, step)
  <1> DEFINE Fits(g, m) ==
                 /\ g \in [0 .. m -> A] /\ g[0] = base
                 /\ \A k \in 1 .. m : g[k] = step[<<k, g[k - 1]>>]
             S == {m \in Nat : m <= n => \E g : Fits(g, m)}
  <1>1. 0 \in S
    <2> DEFINE g == [k \in 0 .. 0 |-> base]
    <2>1. Fits(g, 0)
      OBVIOUS
    <2> QED
      BY <2>1
  <1>2. ASSUME NEW m \in Nat, m \in S PROVE m + 1 \in S
    <2> SUFFICES ASSUME m + 1 <= n PROVE \E g : Fits(g, m + 1)
      OBVIOUS
    <2>1. PICK g : Fits(g, m)
      BY <1>2
    <2> DEFINE h == [k \in 0 .. (m + 1) |-> IF k = m + 1 THEN step[<<m + 1, g[m]>>] ELSE g[k]]
    <2>2. m + 1 \in 1 .. n /\ m \in 0 .. m /\ g[m] \in A
      BY <2>1
    <2>3. step[<<m + 1, g[m]>>] \in A
      BY <2>2
    <2>4. h \in [0 .. (m + 1) -> A] /\ h[0] = base
      BY <2>1, <2>3
    <2>5. \A k \in 1 .. (m + 1) : h[k] = step[<<k, h[k - 1]>>]
      <3> TAKE k \in 1 .. (m + 1)
      <3>1. CASE k = m + 1
        <4>1. h[k] = step[<<m + 1, g[m]>>] /\ h[k - 1] = g[m]
          BY <3>1
        <4> QED
          BY <3>1, <4>1
      <3>2. CASE k # m + 1
        <4>1. k \in 1 .. m /\ k - 1 \in 0 .. m /\ k - 1 # m + 1
          BY <3>2
        <4>2. h[k] = g[k] /\ h[k - 1] = g[k - 1]
          BY <4>1
        <4> QED
          BY <2>1, <4>1, <4>2
      <3> QED
        BY <3>1, <3>2
    <2> QED
      BY <2>4, <2>5
  <1>3. n \in S
    <2>1. Nat \subseteq S
      <3> HIDE DEF S
      <3> QED
        BY <1>1, <1>2, EveryNat
    <2> QED
      BY <2>1
  <1>4. PICK g : Fits(g, n)
    BY <1>3
  <1> QED
    BY <1>4 DEF FoldsTo

\* h says where each entry of r stood in s: r is the first n entries of s without
\* those that are not in S, in their order.
KeepsTo(r, s, n, S, h) ==
    /\ h \in [1 .. Len(r) -> 1 .. n]
    /\ \A i \in 1 .. Len(r) : r[i] = s[h[i]] /\ r[i] \in S
    /\ \A i, j \in 1 .. Len(r) : i < j => h[i] < h[j]
    /\ \A k \in 1 .. n : s[k] \in S => \E i \in 1 .. Len(r) : h[i] = k

\* What Only has kept of s at each place.
KeptOf(g, X, s, S) ==
    /\ g \in [0 .. Len(s) -> Seq(X)] /\ g[0] = << >>
    /\ \A k \in 1 .. Len(s) :
          g[k] = IF s[k] \in S THEN Append(g[k - 1], s[k]) ELSE g[k - 1]
    /\ Only(s, S) = g[Len(s)]

LEMMA OnlyRun ==
    ASSUME NEW X, NEW s \in Seq(X), NEW S
    PROVE  \E g : KeptOf(g, X, s, S)
  <1> DEFINE n == Len(s)
             A == Seq(X)
             base == << >>
             Longer(k, a) == IF s[k] \in S THEN Append(a, s[k]) ELSE a
             step == [x \in (1 .. n) \X A |-> Longer(x[1], x[2])]
             IsKept(g) == g = [k \in 0 .. n |-> IF k = 0 THEN base ELSE Longer(k, g[k - 1])]
             kept == CHOOSE g : IsKept(g)
  <1>1. n \in Nat /\ base \in A /\ \A k \in 1 .. n : s[k] \in X
    OBVIOUS
  <1>2. \A k \in 1 .. n, a \in A : Longer(k, a) \in A
    BY <1>1
  <1>3. Only(s, S) = kept[n]
    BY DEF Only
  <1> HIDE DEF n, A, base, Longer
  <1>4. step \in [(1 .. n) \X A -> A] /\ \A k \in 1 .. n, a \in A : step[<<k, a>>] = Longer(k, a)
    BY <1>2
  <1> HIDE DEF step
  <1>5. PICK g : FoldsTo(g, n, A, base, step)
    BY <1>1, <1>4, FoldExists, Zenon
  <1>6. g \in [0 .. n -> A] /\ g[0] = base /\ \A k \in 1 .. n : g[k] = step[<<k, g[k - 1]>>]
    BY <1>5 DEF FoldsTo
  <1>7. \A k \in 0 .. n : g[k] = IF k = 0 THEN base ELSE Longer(k, g[k - 1])
    <2> TAKE k \in 0 .. n
    <2>1. CASE k = 0
      BY <1>6, <2>1
    <2>2. CASE k # 0
      <3>1. k \in 1 .. n /\ k - 1 \in 0 .. n
        BY <1>1, <2>2
      <3> QED
        BY <1>4, <1>6, <2>2, <3>1
    <2> QED
      BY <2>1, <2>2
  <1>8. IsKept(g)
    BY <1>6, <1>7
  <1>9. IsKept(kept)
    <2> HIDE DEF IsKept
    <2> QED
      BY <1>8
  <1> HIDE DEF kept
  <1>10. \A k \in 0 .. n : kept[k] = IF k = 0 THEN base ELSE Longer(k, kept[k - 1])
    BY <1>9
  <1>11. \A k \in 1 .. n : k \in 0 .. n /\ k # 0 /\ k - 1 \in 0 .. n /\ k - 1 \in Nat
    BY <1>1
  <1>12. kept[0] = base /\ \A k \in 1 .. n : kept[k] = Longer(k, kept[k - 1])
    BY <1>1, <1>10, <1>11
  <1>13. \A k \in 0 .. n : kept[k] \in A
    <2> DEFINE T == {k \in Nat : k <= n => kept[k] \in A}
    <2>1. 0 \in T
      BY <1>1, <1>12
    <2>2. ASSUME NEW k \in Nat, k \in T PROVE k + 1 \in T
      <3> SUFFICES ASSUME k + 1 <= n PROVE kept[k + 1] \in A
        OBVIOUS
      <3>1. k + 1 \in 1 .. n /\ (k + 1) - 1 = k /\ kept[k] \in A
        BY <1>1, <2>2
      <3> QED
        BY <1>2, <1>12, <3>1
    <2>3. Nat \subseteq T
      <3> HIDE DEF T
      <3> QED
        BY <2>1, <2>2, EveryNat
    <2> QED
      BY <1>1, <2>3
  <1>14. kept \in [0 .. n -> A]
    BY <1>9, <1>13
  <1> QED
    BY <1>3, <1>12, <1>14 DEF KeptOf, n, A, base, Longer

LEMMA OnlyKeeps ==
    ASSUME NEW X, NEW s \in Seq(X), NEW S
    PROVE  Only(s, S) \in Seq(X) /\ \E h : KeepsTo(Only(s, S), s, Len(s), S, h)
  <1> DEFINE n == Len(s)
  <1>1. PICK g : KeptOf(g, X, s, S)
    BY OnlyRun, Zenon
  <1>2. n \in Nat /\ \A k \in 1 .. n : s[k] \in X
    OBVIOUS
  <1>3. /\ g \in [0 .. n -> Seq(X)] /\ g[0] = << >>
        /\ \A k \in 1 .. n : g[k] = IF s[k] \in S THEN Append(g[k - 1], s[k]) ELSE g[k - 1]
        /\ Only(s, S) = g[n]
    BY <1>1 DEF KeptOf
  <1> HIDE DEF n
  <1> DEFINE T == {k \in Nat : k <= n => \E h : KeepsTo(g[k], s, k, S, h)}
  <1>4. 0 \in T
    <2> DEFINE h == [i \in 1 .. 0 |-> i]
    <2>1. g[0] = << >>
      BY <1>3
    <2>2. KeepsTo(g[0], s, 0, S, h)
      BY <2>1 DEF KeepsTo
    <2> QED
      BY <2>2
  <1>5. ASSUME NEW k \in Nat, k \in T PROVE k + 1 \in T
    <2> SUFFICES ASSUME k + 1 <= n PROVE \E h : KeepsTo(g[k + 1], s, k + 1, S, h)
      OBVIOUS
    <2>1. k + 1 \in 1 .. n /\ (k + 1) - 1 = k /\ k \in 0 .. n /\ s[k + 1] \in X
      BY <1>2
    <2>2. g[k] \in Seq(X) /\ Len(g[k]) \in Nat
      BY <1>3, <2>1
    <2>3. g[k + 1] = IF s[k + 1] \in S THEN Append(g[k], s[k + 1]) ELSE g[k]
      BY <1>3, <2>1
    <2>4. PICK h : KeepsTo(g[k], s, k, S, h)
      BY <1>5, <2>1, <1>2
    <2>5. CASE s[k + 1] \notin S
      <3>1. g[k + 1] = g[k] /\ h \in [1 .. Len(g[k]) -> 1 .. (k + 1)]
        BY <2>3, <2>4, <2>5 DEF KeepsTo
      <3>2. \A j \in 1 .. (k + 1) : s[j] \in S => j \in 1 .. k
        BY <2>5
      <3>3. KeepsTo(g[k + 1], s, k + 1, S, h)
        BY <2>4, <3>1, <3>2 DEF KeepsTo
      <3> QED
        BY <3>3
    <2>6. CASE s[k + 1] \in S
      <3> DEFINE m == Len(g[k])
                 t == [i \in 1 .. (m + 1) |-> IF i = m + 1 THEN k + 1 ELSE h[i]]
      <3>1. /\ g[k + 1] = Append(g[k], s[k + 1]) /\ Len(g[k + 1]) = m + 1
            /\ g[k + 1][m + 1] = s[k + 1] /\ \A i \in 1 .. m : g[k + 1][i] = g[k][i]
        BY <2>1, <2>2, <2>3, <2>6
      <3> HIDE DEF m
      <3>2. m \in Nat /\ Len(g[k]) = m
        BY <2>2 DEF m
      <3>3. /\ \A i \in 1 .. m : h[i] \in 1 .. k /\ g[k][i] = s[h[i]] /\ g[k][i] \in S
            /\ \A i, j \in 1 .. m : i < j => h[i] < h[j]
            /\ \A j \in 1 .. k : s[j] \in S => \E i \in 1 .. m : h[i] = j
        BY <2>4, <3>2 DEF KeepsTo
      <3>4. /\ \A i \in 1 .. m : i \in 1 .. (m + 1) /\ i # m + 1 /\ t[i] = h[i]
            /\ t[m + 1] = k + 1
        BY <3>2
      <3>5. \A i \in 1 .. (m + 1) : i = m + 1 \/ i \in 1 .. m
        BY <3>2
      <3> HIDE DEF t
      <3>6. t \in [1 .. (m + 1) -> 1 .. (k + 1)]
        <4>1. \A i \in 1 .. (m + 1) : t[i] \in 1 .. (k + 1)
          BY <3>3, <3>4, <3>5
        <4> QED
          BY <4>1 DEF t
      <3>7. \A i \in 1 .. (m + 1) : g[k + 1][i] = s[t[i]] /\ g[k + 1][i] \in S
        BY <3>1, <3>3, <3>4, <3>5, <2>6
      <3>8. \A i, j \in 1 .. (m + 1) : i < j => t[i] < t[j]
        <4> SUFFICES ASSUME NEW i \in 1 .. (m + 1), NEW j \in 1 .. (m + 1), i < j
                     PROVE  t[i] < t[j]
          OBVIOUS
        <4>1. i \in 1 .. m
          BY <3>2
        <4>2. CASE j = m + 1
          BY <3>3, <3>4, <4>1, <4>2
        <4>3. CASE j \in 1 .. m
          BY <3>3, <3>4, <4>1, <4>3
        <4> QED
          BY <3>5, <4>2, <4>3
      <3>9. \A j \in 1 .. (k + 1) : s[j] \in S => \E i \in 1 .. (m + 1) : t[i] = j
        <4> SUFFICES ASSUME NEW j \in 1 .. (k + 1), s[j] \in S
                     PROVE  \E i \in 1 .. (m + 1) : t[i] = j
          OBVIOUS
        <4>1. CASE j = k + 1
          BY <3>2, <3>4, <4>1
        <4>2. CASE j # k + 1
          <5>1. j \in 1 .. k
            BY <4>2
          <5>2. PICK i \in 1 .. m : h[i] = j
            BY <3>3, <5>1
          <5> QED
            BY <3>4, <5>2
        <4> QED
          BY <4>1, <4>2
      <3>10. KeepsTo(g[k + 1], s, k + 1, S, t)
        BY <3>1, <3>6, <3>7, <3>8, <3>9 DEF KeepsTo
      <3> QED
        BY <3>10
    <2> QED
      BY <2>5, <2>6
  <1>6. Nat \subseteq T
    <2> HIDE DEF T
    <2> QED
      BY <1>4, <1>5, EveryNat
  <1> QED
    BY <1>3, <1>2, <1>6 DEF n

LEMMA OnlySet ==
    ASSUME NEW X, NEW s \in Seq(X), NEW S
    PROVE  Only(s, S) \in Seq(X) /\ ToSet(Only(s, S)) = ToSet(s) \cap S
  <1> DEFINE r == Only(s, S)
  <1>1. PICK h : KeepsTo(r, s, Len(s), S, h)
    BY OnlyKeeps
  <1>2. r \in Seq(X)
    BY OnlyKeeps
  <1>3. DOMAIN r = 1 .. Len(r) /\ DOMAIN s = 1 .. Len(s)
    BY <1>2
  <1> HIDE DEF r
  <1>4. ToSet(r) \subseteq ToSet(s) \cap S
    BY <1>1, <1>3 DEF KeepsTo, ToSet
  <1>5. ASSUME NEW k \in 1 .. Len(s), s[k] \in S PROVE s[k] \in ToSet(r)
    BY <1>1, <1>3, <1>5 DEF KeepsTo, ToSet
  <1> QED
    BY <1>2, <1>3, <1>4, <1>5 DEF ToSet, r

-----------------------------------------------------------------------------
(* What the sequence relies on.                                            *)

IsFact(e) == e.type \in {"external_input", "feedback", "thinking_plan", "agent_output"}

\* A product tells what its covered entries told, process detail aside.
WellMade(p) ==
    \/ p = historySummaryOf(p.covered)
    \/ p = foldProcessDetail(p.covered) /\ \A e \in ToSet(p.covered) : e.type = "thinking_plan"

Lists(s) == s \in Seq(ToSet(s))
FactsIn(s) == Lists(s) /\ \A f \in ToSet(s) : IsFact(f)
ProductsIn(s) == Lists(s) /\ \A p \in ToSet(s) : WellMade(p)
EntriesIn(s) == Lists(s) /\ \A e \in ToSet(s) : IsFact(e) \/ WellMade(e)

Filed == \A i, j \in 1 .. Len(products) : products[i] = products[j] => i = j

\* A commit names the fact it landed, and the products it has still to place.
CommitsOf(c) ==
    /\ commit[c].pc = "landed" => IsFact(commit[c].fact)
    /\ ProductsIn(commit[c].batch)
    /\ commit[c].pc \in {"planned", "filed"} => commit[c].batch # << >>
    /\ commit[c].pc = "filed" => Head(commit[c].batch) \in ToSet(products)

Commits ==
    /\ commit = [c \in Committers |-> [pc |-> commit[c].pc, fact |-> commit[c].fact,
                                       batch |-> commit[c].batch]]
    /\ \A c \in Committers : CommitsOf(c)

\* What is mapped and no entry any more is covered by a product of the chain.
CoveredIsFiled ==
    \A f \in Mapped : f \notin ToSet(entries) => \E p \in ToSet(products) : f \in ToSet(p.covered)

Mapping ==
    /\ FactsIn(facts) /\ ProductsIn(products) /\ ProductsIn(judgments) /\ EntriesIn(entries)
    /\ Filed /\ Commits /\ NoTurnLost /\ CoveredIsFiled

\* The consumer decides only on what its last commit has mapped and judged.
Deciding ==
    /\ loop = [pc |-> loop.pc, read |-> loop.read, seg |-> loop.seg,
               position |-> loop.position, request |-> loop.request, calls |-> loop.calls]
    /\ loop.seg = [consumed |-> loop.seg.consumed, transcript |-> loop.seg.transcript]
    /\ loop.pc \in {"fixed", "asked"} => commit[Loop].pc = "idle"

MappingInv == Mapping /\ Deciding

-----------------------------------------------------------------------------
(* Lists and folds.                                                        *)

LEMMA ListOf ==
    ASSUME NEW X, NEW s \in Seq(X)
    PROVE  /\ Lists(s) /\ ToSet(s) \subseteq X /\ Len(s) \in Nat /\ DOMAIN s = 1 .. Len(s)
           /\ \A x : x \in ToSet(s) <=> \E i \in 1 .. Len(s) : s[i] = x
           /\ \A x : Contains(s, x) <=> x \in ToSet(s)
  <1>1. Len(s) \in Nat /\ DOMAIN s = 1 .. Len(s)
    OBVIOUS
  <1>2. \A x : x \in ToSet(s) <=> \E i \in 1 .. Len(s) : s[i] = x
    BY <1>1 DEF ToSet
  <1>3. ToSet(s) \subseteq X
    BY <1>2
  <1>4. \A i \in 1 .. Len(s) : s[i] \in ToSet(s)
    BY <1>2
  <1>5. s \in [1 .. Len(s) -> ToSet(s)]
    <2>1. s = [i \in 1 .. Len(s) |-> s[i]]
      OBVIOUS
    <2> QED
      BY <1>4, <2>1
  <1>6. s \in Seq(ToSet(s))
    BY <1>1, <1>5
  <1> QED
    BY <1>1, <1>2, <1>3, <1>6 DEF Lists, Contains

LEMMA AppendSet ==
    ASSUME NEW s, Lists(s), NEW e
    PROVE  Lists(Append(s, e)) /\ ToSet(Append(s, e)) = ToSet(s) \cup {e}
  <1> DEFINE X == ToSet(s) \cup {e}
             t == Append(s, e)
  <1>1. s \in Seq(X) /\ Len(s) \in Nat
    BY DEF Lists
  <1>2. t \in Seq(X) /\ Len(t) = Len(s) + 1 /\ t[Len(s) + 1] = e
        /\ \A i \in 1 .. Len(s) : t[i] = s[i]
    BY <1>1
  <1>3. Lists(t) /\ \A x : x \in ToSet(t) <=> \E i \in 1 .. Len(t) : t[i] = x
    BY <1>2, ListOf
  <1>4. \A x : x \in ToSet(s) <=> \E i \in 1 .. Len(s) : s[i] = x
    BY <1>1, ListOf
  <1> HIDE DEF t
  <1>5. \A i \in 1 .. Len(t) : i = Len(s) + 1 \/ i \in 1 .. Len(s)
    BY <1>1, <1>2
  <1>6. \A i \in 1 .. Len(s) : i \in 1 .. Len(t)
    BY <1>1, <1>2
  <1>7. Len(s) + 1 \in 1 .. Len(t)
    BY <1>1, <1>2
  <1>8. ToSet(t) = ToSet(s) \cup {e}
    BY <1>2, <1>3, <1>4, <1>5, <1>6, <1>7
  <1> QED
    BY <1>3, <1>8 DEF t

LEMMA JoinSet ==
    ASSUME NEW s, NEW t, Lists(s), Lists(t)
    PROVE  Lists(s \o t) /\ ToSet(s \o t) = ToSet(s) \cup ToSet(t)
  <1> DEFINE X == ToSet(s) \cup ToSet(t)
             r == s \o t
  <1>1. s \in Seq(X) /\ t \in Seq(X) /\ Len(s) \in Nat /\ Len(t) \in Nat
    BY DEF Lists
  <1>2. /\ r \in Seq(X) /\ Len(r) = Len(s) + Len(t)
        /\ \A i \in 1 .. Len(r) : r[i] = IF i <= Len(s) THEN s[i] ELSE t[i - Len(s)]
    BY <1>1
  <1>3. /\ Lists(r) /\ \A x : x \in ToSet(r) <=> \E i \in 1 .. Len(r) : r[i] = x
        /\ \A x : x \in ToSet(s) <=> \E i \in 1 .. Len(s) : s[i] = x
        /\ \A x : x \in ToSet(t) <=> \E i \in 1 .. Len(t) : t[i] = x
    BY <1>1, <1>2, ListOf
  <1> HIDE DEF r
  <1>4. ToSet(r) \subseteq ToSet(s) \cup ToSet(t)
    <2> SUFFICES ASSUME NEW i \in 1 .. Len(r) PROVE r[i] \in ToSet(s) \cup ToSet(t)
      BY <1>3
    <2>1. CASE i <= Len(s)
      BY <1>1, <1>2, <1>3, <2>1
    <2>2. CASE ~ i <= Len(s)
      <3>1. i - Len(s) \in 1 .. Len(t) /\ r[i] = t[i - Len(s)]
        BY <1>1, <1>2, <2>2
      <3> QED
        BY <1>3, <3>1
    <2> QED
      BY <2>1, <2>2
  <1>5. ToSet(s) \subseteq ToSet(r)
    <2> SUFFICES ASSUME NEW i \in 1 .. Len(s) PROVE s[i] \in ToSet(r)
      BY <1>3
    <2>1. i \in 1 .. Len(r) /\ r[i] = s[i]
      BY <1>1, <1>2
    <2> QED
      BY <1>3, <2>1
  <1>6. ToSet(t) \subseteq ToSet(r)
    <2> SUFFICES ASSUME NEW i \in 1 .. Len(t) PROVE t[i] \in ToSet(r)
      BY <1>3
    <2>1. Len(s) + i \in 1 .. Len(r) /\ ~ Len(s) + i <= Len(s) /\ (Len(s) + i) - Len(s) = i
      BY <1>1, <1>2
    <2>2. r[Len(s) + i] = t[i]
      BY <1>2, <2>1
    <2> QED
      BY <1>3, <2>1, <2>2
  <1> QED
    BY <1>3, <1>4, <1>5, <1>6 DEF r

LEMMA OneSet ==
    ASSUME NEW e
    PROVE  Lists(<<e>>) /\ ToSet(<<e>>) = {e}
  <1> DEFINE t == <<e>>
             X == {e}
  <1>1. t \in Seq(X) /\ Len(t) = 1 /\ t[1] = e
    OBVIOUS
  <1>2. Lists(t) /\ \A x : x \in ToSet(t) <=> \E i \in 1 .. Len(t) : t[i] = x
    <2> HIDE DEF t, X
    <2>1. t \in Seq(X)
      BY <1>1
    <2> QED
      BY <2>1, ListOf
  <1> HIDE DEF t, X
  <1>3. \A i \in 1 .. Len(t) : t[i] = e
    BY <1>1
  <1>4. 1 \in 1 .. Len(t)
    BY <1>1
  <1> QED
    BY <1>1, <1>2, <1>3, <1>4 DEF t

LEMMA NoneSet == Lists(<< >>) /\ ToSet(<< >>) = {}
  <1> DEFINE t == << >>
             X == {}
  <1>1. t \in Seq(X) /\ Len(t) = 0
    OBVIOUS
  <1> HIDE DEF t
  <1>2. t \in Seq(X)
    BY <1>1
  <1>3. Lists(t) /\ ToSet(t) \subseteq X
    <2> HIDE DEF X
    <2> QED
      BY <1>2, ListOf
  <1> QED
    BY <1>3 DEF t

LEMMA HeadAndTail ==
    ASSUME NEW s, Lists(s), s # << >>
    PROVE  /\ Head(s) \in ToSet(s) /\ Head(s) = s[1] /\ 1 \in 1 .. Len(s)
           /\ Lists(Tail(s)) /\ ToSet(Tail(s)) \subseteq ToSet(s)
  <1>1. s \in Seq(ToSet(s)) /\ Len(s) \in Nat /\ Len(s) # 0
    BY DEF Lists
  <1>2. Tail(s) \in Seq(ToSet(s)) /\ Head(s) = s[1] /\ 1 \in 1 .. Len(s)
    BY <1>1
  <1> QED
    BY <1>1, <1>2, ListOf

LEMMA LeastPlace ==
    ASSUME NEW n \in Nat, NEW I, I \subseteq 1 .. n, I # {}
    PROVE  Min(I) \in I /\ \A i \in I : Min(I) <= i
  <1> DEFINE below == {p \in Nat \X Nat : p[1] < p[2]}
  <1>1. IsWellFoundedOn(below, Nat)
    BY NatLessThanWellFounded, Zenon DEF OpToRel
  <1>2. PICK m \in I : \A i \in I : <<i, m>> \notin below
    <2> HIDE DEF below
    <2>1. I \subseteq Nat
      OBVIOUS
    <2> QED
      BY <1>1, <2>1, WFMin
  <1>3. \A i \in I : m <= i
    <2> SUFFICES ASSUME NEW i \in I PROVE m <= i
      OBVIOUS
    <2>1. i \in Nat /\ m \in Nat
      OBVIOUS
    <2>2. ~ i < m
      BY <1>2, <2>1
    <2> QED
      BY <2>1, <2>2
  <1> QED
    BY <1>3 DEF Min

\* The first place of a list that holds an entry of a set.
LEMMA FirstPlace ==
    ASSUME NEW s, Lists(s), NEW S
    PROVE  LET at == SelectInSeq(s, LAMBDA e : e \in S) IN
           /\ at = 0 => ToSet(s) \cap S = {}
           /\ at # 0 => at \in 1 .. Len(s) /\ \A i \in 1 .. Len(s) : i < at => s[i] \notin S
  <1> DEFINE I == {i \in 1 .. Len(s) : s[i] \in S}
  <1>1. Len(s) \in Nat /\ \A x : x \in ToSet(s) <=> \E i \in 1 .. Len(s) : s[i] = x
    BY ListOf DEF Lists
  <1>2. SelectInSeq(s, LAMBDA e : e \in S) = IF I # {} THEN Min(I) ELSE 0
    BY DEF SelectInSeq
  <1>3. I # {} => Min(I) \in I /\ \A i \in I : Min(I) <= i
    <2> HIDE DEF I
    <2>1. I \subseteq 1 .. Len(s)
      BY DEF I
    <2> QED
      BY <1>1, <2>1, LeastPlace
  <1>4. CASE I = {}
    <2>1. ToSet(s) \cap S = {}
      BY <1>1, <1>4
    <2> QED
      BY <1>2, <1>4, <2>1
  <1>5. CASE I # {}
    <2>1. Min(I) \in 1 .. Len(s) /\ Min(I) # 0 /\ Min(I) \in Nat
      BY <1>1, <1>3, <1>5
    <2>2. \A i \in 1 .. Len(s) : i < Min(I) => s[i] \notin S
      <3> SUFFICES ASSUME NEW i \in 1 .. Len(s), i < Min(I), s[i] \in S PROVE FALSE
        OBVIOUS
      <3>1. i \in I
        OBVIOUS
      <3>2. Min(I) <= i /\ i \in Nat
        BY <1>1, <1>3, <1>5, <3>1
      <3> QED
        BY <2>1, <3>2
    <2> QED
      BY <1>2, <1>5, <2>1, <2>2
  <1> QED
    BY <1>4, <1>5

-----------------------------------------------------------------------------
(* Placing a product.                                                      *)

LEMMA KeptSet ==
    ASSUME NEW s, Lists(s), NEW S
    PROVE  Lists(Only(s, S)) /\ ToSet(Only(s, S)) = ToSet(s) \cap S
  <1>1. s \in Seq(ToSet(s))
    BY DEF Lists
  <1> QED
    BY <1>1, OnlySet, ListOf

\* A list is what stands before a place and what stands from there.
LEMMA CutSet ==
    ASSUME NEW s, Lists(s), NEW m \in 1 .. Len(s)
    PROVE  LET before == SubSeq(s, 1, m - 1)
               after == SubSeq(s, m, Len(s)) IN
           /\ Lists(before) /\ Lists(after)
           /\ ToSet(s) = ToSet(before) \cup ToSet(after)
           /\ \A x \in ToSet(before) : \E i \in 1 .. Len(s) : i < m /\ s[i] = x
  <1> DEFINE X == ToSet(s)
             n == Len(s)
             before == SubSeq(s, 1, m - 1)
             after == SubSeq(s, m, n)
  <1>1. s \in Seq(X) /\ n \in Nat /\ m \in Nat /\ m - 1 \in Nat /\ m - 1 <= n
    BY DEF Lists
  <1>2. /\ before \in Seq(X) /\ Len(before) = m - 1
        /\ \A i \in 1 .. m - 1 : before[i] = s[i]
    BY <1>1
  <1>3. /\ after \in Seq(X) /\ Len(after) = n - m + 1
        /\ \A i \in 1 .. (n - m + 1) : after[i] = s[m + i - 1]
    BY <1>1
  <1>4. /\ Lists(before) /\ Lists(after)
        /\ \A x : x \in ToSet(before) <=> \E i \in 1 .. Len(before) : before[i] = x
        /\ \A x : x \in ToSet(after) <=> \E i \in 1 .. Len(after) : after[i] = x
        /\ \A x : x \in X <=> \E i \in 1 .. n : s[i] = x
    <2> HIDE DEF before, after, n
    <2>1. Lists(before) /\ \A x : x \in ToSet(before) <=> \E i \in 1 .. Len(before) : before[i] = x
      BY <1>2, ListOf
    <2>2. Lists(after) /\ \A x : x \in ToSet(after) <=> \E i \in 1 .. Len(after) : after[i] = x
      BY <1>3, ListOf
    <2>3. \A x : x \in X <=> \E i \in 1 .. n : s[i] = x
      BY <1>1, ListOf DEF n
    <2> QED
      BY <2>1, <2>2, <2>3
  <1> HIDE DEF before, after, n, X
  <1>5. ASSUME NEW x \in ToSet(before) PROVE \E i \in 1 .. n : i < m /\ s[i] = x
    <2>1. PICK i \in 1 .. Len(before) : before[i] = x
      BY <1>4
    <2>2. i \in 1 .. m - 1 /\ i \in 1 .. n /\ i < m
      BY <1>1, <1>2
    <2> QED
      BY <1>2, <2>1, <2>2
  <1>6. ASSUME NEW x \in ToSet(after) PROVE x \in X
    <2>1. PICK i \in 1 .. Len(after) : after[i] = x
      BY <1>4
    <2>2. i \in 1 .. (n - m + 1) /\ m + i - 1 \in 1 .. n
      BY <1>1, <1>3
    <2> QED
      BY <1>3, <1>4, <2>1, <2>2
  <1>7. ASSUME NEW i \in 1 .. n PROVE s[i] \in ToSet(before) \cup ToSet(after)
    <2>1. CASE i < m
      <3>1. i \in 1 .. m - 1
        BY <1>1, <2>1
      <3> QED
        BY <1>2, <1>4, <3>1
    <2>2. CASE ~ i < m
      <3>1. i - m + 1 \in 1 .. (n - m + 1) /\ m + (i - m + 1) - 1 = i
        BY <1>1, <2>2
      <3>2. after[i - m + 1] = s[i]
        BY <1>3, <3>1
      <3> QED
        BY <1>3, <1>4, <3>1, <3>2
    <2> QED
      BY <2>1, <2>2
  <1>8. X = ToSet(before) \cup ToSet(after)
    BY <1>4, <1>5, <1>6, <1>7
  <1> QED
    BY <1>4, <1>5, <1>8 DEF X, n, before, after

\* A product is placed once, and what it covers leaves: unless it is placed already, or
\* folds a turn of which nothing is left.
LEMMA Applied ==
    ASSUME NEW s, Lists(s), NEW p
    PROVE  LET r == applyFoldProduct(s, p)
               covered == ToSet(p.covered) IN
           /\ Lists(r)
           /\ \/ r = s /\ p \in ToSet(s)
              \/ r = s /\ p.type # "history_summary" /\ ToSet(s) \cap covered = {}
              \/ ToSet(r) = {p} \cup (ToSet(s) \ covered)
  <1> DEFINE covered == ToSet(p.covered)
             first == SelectInSeq(s, LAMBDA e : e \in covered)
             Rest(t) == Only(t, ToSet(t) \ covered)
             before == SubSeq(s, 1, first - 1)
             after == SubSeq(s, first, Len(s))
             r == applyFoldProduct(s, p)
  <1>1. r = IF Contains(s, p) THEN s
            ELSE IF p.type = "history_summary" THEN <<p>> \o Rest(s)
            ELSE IF first = 0 THEN s ELSE before \o <<p>> \o Rest(after)
    BY DEF applyFoldProduct
  <1>2. Contains(s, p) <=> p \in ToSet(s)
    BY ListOf DEF Lists
  <1>3. /\ first = 0 => ToSet(s) \cap covered = {}
        /\ first # 0 => first \in 1 .. Len(s) /\ \A i \in 1 .. Len(s) : i < first => s[i] \notin covered
    BY FirstPlace
  <1>4. ASSUME NEW t, Lists(t) PROVE Lists(Rest(t)) /\ ToSet(Rest(t)) = ToSet(t) \ covered
    <2> HIDE DEF covered
    <2> QED
      BY <1>4, KeptSet
  <1>5. Lists(<<p>>) /\ ToSet(<<p>>) = {p}
    BY OneSet
  <1> HIDE DEF r, covered, first, Rest
  <1>6. CASE p \in ToSet(s)
    BY <1>1, <1>2, <1>6 DEF r, covered
  <1>7. CASE p \notin ToSet(s) /\ p.type = "history_summary"
    <2>1. r = <<p>> \o Rest(s)
      BY <1>1, <1>2, <1>7
    <2>2. Lists(r) /\ ToSet(r) = {p} \cup (ToSet(s) \ covered)
      BY <1>4, <1>5, <2>1, JoinSet
    <2> QED
      BY <2>2 DEF r, covered
  <1>8. CASE p \notin ToSet(s) /\ p.type # "history_summary" /\ first = 0
    BY <1>1, <1>2, <1>3, <1>8 DEF r, covered
  <1>9. CASE p \notin ToSet(s) /\ p.type # "history_summary" /\ first # 0
    <2>1. r = before \o <<p>> \o Rest(after)
      BY <1>1, <1>2, <1>9
    <2>2. /\ Lists(before) /\ Lists(after)
          /\ ToSet(s) = ToSet(before) \cup ToSet(after)
          /\ \A x \in ToSet(before) : \E i \in 1 .. Len(s) : i < first /\ s[i] = x
      BY <1>3, <1>9, CutSet
    <2> HIDE DEF before, after
    <2>3. ToSet(before) \cap covered = {}
      BY <1>3, <1>9, <2>2
    <2>4. Lists(before \o <<p>>) /\ ToSet(before \o <<p>>) = ToSet(before) \cup {p}
      BY <1>5, <2>2, JoinSet
    <2>5. Lists(r) /\ ToSet(r) = (ToSet(before) \cup {p}) \cup (ToSet(after) \ covered)
      BY <1>4, <2>1, <2>2, <2>4, JoinSet
    <2>6. ToSet(r) = {p} \cup (ToSet(s) \ covered)
      BY <2>2, <2>3, <2>5
    <2> QED
      BY <2>5, <2>6 DEF r, covered
  <1> QED
    BY <1>6, <1>7, <1>8, <1>9

\* A well made product tells what it took, process detail aside.
LEMMA ToldBefore ==
    ASSUME NEW p, WellMade(p), NEW e \in ToSet(p.covered), IsFact(e) \/ WellMade(e),
           NEW f \in Tells(e), f.type # "thinking_plan"
    PROVE  p.type = "history_summary" /\ f \in Tells(p)
  <1>1. CASE p = foldProcessDetail(p.covered) /\ \A x \in ToSet(p.covered) : x.type = "thinking_plan"
    <2>1. e.type = "thinking_plan"
      BY <1>1
    <2>2. Tells(e) = {e}
      BY <2>1 DEF Tells
    <2> QED
      BY <2>1, <2>2
  <1>2. CASE p = historySummaryOf(p.covered)
    <2>1. p.type = "history_summary" /\ p.content = UNION {historySummaryLine(x) : x \in ToSet(p.covered)}
      BY <1>2 DEF historySummaryOf
    <2>2. f \in historySummaryLine(e)
      <3>1. CASE e.type = "segment_fold"
        <4>1. ~ IsFact(e) /\ e.type # "history_summary" /\ Tells(e) = e.content
          BY <3>1 DEF IsFact, Tells
        <4>2. e = foldProcessDetail(e.covered) /\ \A x \in ToSet(e.covered) : x.type = "thinking_plan"
          <5>1. CASE e = historySummaryOf(e.covered)
            BY <4>1, <5>1 DEF historySummaryOf
          <5> QED
            BY <4>1, <5>1 DEF WellMade
        <4>3. e.content = ToSet(e.covered)
          BY <4>2 DEF foldProcessDetail
        <4> QED
          BY <4>1, <4>2, <4>3
      <3>2. CASE e.type # "segment_fold"
        BY <3>2 DEF Tells, historySummaryLine
      <3> QED
        BY <3>1, <3>2
    <2> QED
      BY <2>1, <2>2 DEF Tells
  <1> QED
    BY <1>1, <1>2 DEF WellMade

\* Placing a product loses no turn.
LEMMA AppliedTells ==
    ASSUME NEW s, EntriesIn(s), NEW p, WellMade(p)
    PROVE  LET r == applyFoldProduct(s, p) IN
           /\ EntriesIn(r)
           /\ \A f : f.type # "thinking_plan" /\ (\E e \in ToSet(s) : f \in Tells(e))
                     => \E e \in ToSet(r) : f \in Tells(e)
  <1> DEFINE r == applyFoldProduct(s, p)
             covered == ToSet(p.covered)
  <1>1. /\ Lists(r)
        /\ \/ r = s
           \/ ToSet(r) = {p} \cup (ToSet(s) \ covered)
    BY Applied DEF EntriesIn
  <1> HIDE DEF r, covered
  <1>2. EntriesIn(r)
    BY <1>1 DEF EntriesIn
  <1>3. ASSUME NEW f, f.type # "thinking_plan", NEW e \in ToSet(s), f \in Tells(e)
        PROVE  \E x \in ToSet(r) : f \in Tells(x)
    <2>1. CASE r = s
      BY <1>3, <2>1
    <2>2. CASE ToSet(r) = {p} \cup (ToSet(s) \ covered) /\ e \notin covered
      BY <1>3, <2>2
    <2>3. CASE ToSet(r) = {p} \cup (ToSet(s) \ covered) /\ e \in covered
      <3>1. f \in Tells(p)
        BY <1>3, <2>3, ToldBefore DEF EntriesIn, covered
      <3> QED
        BY <2>3, <3>1
    <2> QED
      BY <1>1, <2>1, <2>2, <2>3
  <1> QED
    BY <1>2, <1>3 DEF r

-----------------------------------------------------------------------------
(* Where a product lands, and what moves.                                  *)

\* h says where each entry of r stood in s: nothing overtakes.  A summary stands ahead of
\* everything, a fold of process detail where the first it covers stood.
Shifted(r, s, p, h) ==
    /\ h \in [1 .. Len(r) -> 0 .. Len(s)]
    /\ \A i, j \in 1 .. Len(r) : i < j => h[i] < h[j]
    /\ \A k \in 1 .. Len(s) : s[k] \notin ToSet(p.covered) =>
          \E i \in 1 .. Len(r) : h[i] = k /\ r[i] = s[k]
    /\ \A i \in 1 .. Len(r) :
          \/ h[i] \in 1 .. Len(s) /\ r[i] = s[h[i]]
          \/ r[i] = p /\ p.type = "history_summary" /\ i = 1
          \/ /\ r[i] = p /\ p.type # "history_summary"
             /\ h[i] \in 1 .. Len(s) /\ s[h[i]] \in ToSet(p.covered)
    /\ p.type = "history_summary" => 1 \in 1 .. Len(r) /\ r[1] = p

LEMMA SummaryMoves ==
    ASSUME NEW s, Lists(s), NEW p, p.type = "history_summary"
    PROVE  \E h : Shifted(<<p>> \o Only(s, ToSet(s) \ ToSet(p.covered)), s, p, h)
  <1> DEFINE S == ToSet(s) \ ToSet(p.covered)
             X == ToSet(s)
             n == Len(s)
             t == Only(s, S)
             m == Len(t)
             r == <<p>> \o t
  <1>1. s \in Seq(X) /\ n \in Nat /\ \A k \in 1 .. n : s[k] \in X
    <2>1. s \in Seq(X)
      BY DEF Lists
    <2> QED
      BY <2>1
  <1>2. t \in Seq(X) /\ \E g : KeepsTo(t, s, n, S, g)
    <2> HIDE DEF S, X
    <2> QED
      BY <1>1, OnlyKeeps
  <1>3. PICK g : KeepsTo(t, s, n, S, g)
    BY <1>2
  <1> HIDE DEF t, n
  <1>4. m \in Nat /\ \A i \in 1 .. m : t[i] \in X
    BY <1>2
  <1>5. /\ Len(r) = m + 1 /\ r[1] = p
        /\ \A i \in 1 .. m : r[i + 1] = t[i]
    <2> HIDE DEF X
    <2>1. t \in Seq(X \cup {p}) /\ <<p>> \in Seq(X \cup {p}) /\ Len(<<p>>) = 1 /\ <<p>>[1] = p
      BY <1>2
    <2>2. Len(r) = 1 + m /\ \A i \in 1 .. (1 + m) : r[i] = IF i <= 1 THEN <<p>>[i] ELSE t[i - 1]
      BY <2>1
    <2> HIDE DEF r
    <2>3. Len(r) = m + 1 /\ r[1] = p
      BY <1>4, <2>1, <2>2
    <2>4. \A i \in 1 .. m : i + 1 \in 1 .. (1 + m) /\ ~ (i + 1 <= 1) /\ (i + 1) - 1 = i
      BY <1>4
    <2> QED
      BY <2>2, <2>3, <2>4
  <1> HIDE DEF r, m
  <1>6. /\ \A i \in 1 .. m : g[i] \in 1 .. n /\ t[i] = s[g[i]]
        /\ \A i, j \in 1 .. m : i < j => g[i] < g[j]
        /\ \A k \in 1 .. n : s[k] \in S => \E i \in 1 .. m : g[i] = k
    BY <1>3 DEF KeepsTo, m
  <1> DEFINE h == [i \in 1 .. (m + 1) |-> IF i = 1 THEN 0 ELSE g[i - 1]]
  <1>7. /\ h[1] = 0 /\ 1 \in 1 .. (m + 1)
        /\ \A i \in 1 .. m : i + 1 \in 1 .. (m + 1) /\ h[i + 1] = g[i]
        /\ \A i \in 1 .. (m + 1) : i = 1 \/ (i - 1 \in 1 .. m /\ (i - 1) + 1 = i /\ h[i] = g[i - 1])
    BY <1>4
  <1>8. h \in [1 .. (m + 1) -> 0 .. n]
    <2>1. \A i \in 1 .. (m + 1) : h[i] \in 0 .. n
      <3> SUFFICES ASSUME NEW i \in 1 .. (m + 1) PROVE h[i] \in 0 .. n
        OBVIOUS
      <3> HIDE DEF h
      <3>1. CASE i = 1
        BY <1>1, <1>7, <3>1
      <3>2. CASE i # 1
        <4>1. g[i - 1] \in 1 .. n /\ h[i] = g[i - 1]
          BY <1>6, <1>7, <3>2
        <4> QED
          BY <1>1, <4>1
      <3> QED
        BY <3>1, <3>2
    <2> QED
      BY <2>1
  <1> HIDE DEF h
  <1>9. ASSUME NEW i \in 1 .. (m + 1), NEW j \in 1 .. (m + 1), i < j PROVE h[i] < h[j]
    <2>1. j # 1 /\ j - 1 \in 1 .. m /\ h[j] = g[j - 1] /\ g[j - 1] \in 1 .. n
      BY <1>4, <1>6, <1>7, <1>9
    <2>2. CASE i = 1
      BY <1>1, <1>7, <2>1, <2>2
    <2>3. CASE i # 1
      <3>1. i - 1 \in 1 .. m /\ h[i] = g[i - 1]
        BY <1>7, <2>3
      <3>2. i - 1 < j - 1
        BY <1>4, <1>9
      <3> QED
        BY <1>6, <2>1, <3>1, <3>2
    <2> QED
      BY <2>2, <2>3
  <1>10. ASSUME NEW k \in 1 .. n, s[k] \notin ToSet(p.covered)
         PROVE  \E i \in 1 .. (m + 1) : h[i] = k /\ r[i] = s[k]
    <2>1. s[k] \in S
      BY <1>1, <1>10
    <2>2. PICK i \in 1 .. m : g[i] = k
      BY <1>6, <2>1
    <2> QED
      BY <1>5, <1>6, <1>7, <2>2
  <1>11. ASSUME NEW i \in 1 .. (m + 1), i # 1
         PROVE  h[i] \in 1 .. n /\ r[i] = s[h[i]]
    <2>1. i - 1 \in 1 .. m /\ (i - 1) + 1 = i /\ h[i] = g[i - 1]
      BY <1>7, <1>11
    <2> QED
      BY <1>5, <1>6, <2>1
  <1>12. Shifted(r, s, p, h)
    <2>1. /\ h \in [1 .. Len(r) -> 0 .. Len(s)]
          /\ \A i, j \in 1 .. Len(r) : i < j => h[i] < h[j]
          /\ 1 \in 1 .. Len(r) /\ r[1] = p
      BY <1>5, <1>7, <1>8, <1>9 DEF n
    <2>2. \A k \in 1 .. Len(s) : s[k] \notin ToSet(p.covered) =>
             \E i \in 1 .. Len(r) : h[i] = k /\ r[i] = s[k]
      BY <1>5, <1>10 DEF n
    <2>3. \A i \in 1 .. Len(r) : (h[i] \in 1 .. Len(s) /\ r[i] = s[h[i]]) \/ (r[i] = p /\ i = 1)
      BY <1>5, <1>11 DEF n
    <2> QED
      BY <2>1, <2>2, <2>3 DEF Shifted
  <1> QED
    BY <1>12 DEF r, t

LEMMA DetailMoves ==
    ASSUME NEW s, Lists(s), NEW p, p.type # "history_summary",
           NEW at \in 1 .. Len(s), s[at] \in ToSet(p.covered),
           \A i \in 1 .. Len(s) : i < at => s[i] \notin ToSet(p.covered)
    PROVE  LET after == SubSeq(s, at, Len(s)) IN
           \E h : Shifted((SubSeq(s, 1, at - 1) \o <<p>>)
                        \o Only(after, ToSet(after) \ ToSet(p.covered)), s, p, h)
  <1> DEFINE X == ToSet(s)
             n == Len(s)
             before == SubSeq(s, 1, at - 1)
             after == SubSeq(s, at, n)
             S == ToSet(after) \ ToSet(p.covered)
             t == Only(after, S)
             m == Len(t)
             head == before \o <<p>>
             r == head \o t
  <1>1. s \in Seq(X) /\ n \in Nat /\ at \in Nat /\ at \in 1 .. n /\ 1 <= at /\ at <= n
    <2>1. s \in Seq(X)
      BY DEF Lists
    <2> QED
      BY <2>1
  <1>2. /\ before \in Seq(X) /\ Len(before) = at - 1
        /\ \A i \in 1 .. at - 1 : before[i] = s[i]
    BY <1>1
  <1>3. /\ after \in Seq(X) /\ Len(after) = n - at + 1
        /\ \A i \in 1 .. (n - at + 1) : after[i] = s[at + i - 1]
    BY <1>1
  <1> HIDE DEF before, after, X, n
  <1>4. t \in Seq(X) /\ \E g : KeepsTo(t, after, Len(after), S, g)
    <2> HIDE DEF S
    <2> QED
      BY <1>3, OnlyKeeps
  <1>5. PICK g : KeepsTo(t, after, Len(after), S, g)
    BY <1>4
  <1> HIDE DEF t
  <1>6. m \in Nat
    BY <1>4
  <1> DEFINE Y == X \cup {p}
  <1>7. /\ head \in Seq(Y) /\ Len(head) = at /\ head[at] = p
        /\ \A i \in 1 .. at - 1 : head[i] = s[i]
    <2>1. before \in Seq(Y) /\ <<p>> \in Seq(Y) /\ Len(<<p>>) = 1 /\ <<p>>[1] = p
      BY <1>2
    <2>2. /\ head \in Seq(Y) /\ Len(head) = (at - 1) + 1
          /\ \A i \in 1 .. ((at - 1) + 1) : head[i] = IF i <= at - 1 THEN before[i] ELSE <<p>>[i - (at - 1)]
      <3> HIDE DEF Y
      <3> QED
        BY <1>2, <2>1
    <2> HIDE DEF head
    <2>3. (at - 1) + 1 = at /\ at \in 1 .. at /\ ~ (at <= at - 1) /\ at - (at - 1) = 1
      BY <1>1
    <2>4. \A i \in 1 .. at - 1 : i \in 1 .. at /\ i <= at - 1
      BY <1>1
    <2> QED
      BY <1>2, <2>1, <2>2, <2>3, <2>4
  <1>8. /\ Len(r) = at + m
        /\ \A i \in 1 .. at : r[i] = head[i]
        /\ \A i \in 1 .. m : r[at + i] = t[i]
    <2>1. t \in Seq(Y)
      BY <1>4
    <2> HIDE DEF Y, head
    <2>2. Len(r) = at + m /\ \A i \in 1 .. (at + m) : r[i] = IF i <= at THEN head[i] ELSE t[i - at]
      BY <1>7, <2>1
    <2> HIDE DEF r, m
    <2>3. \A i \in 1 .. at : i \in 1 .. (at + m) /\ i <= at
      BY <1>1, <1>6
    <2>4. \A i \in 1 .. m : at + i \in 1 .. (at + m) /\ ~ (at + i <= at) /\ (at + i) - at = i
      BY <1>1, <1>6
    <2> QED
      BY <2>2, <2>3, <2>4
  <1> HIDE DEF r, m, head
  <1>9. /\ \A i \in 1 .. m : g[i] \in 1 .. Len(after) /\ t[i] = after[g[i]] /\ t[i] \in S
        /\ \A i, j \in 1 .. m : i < j => g[i] < g[j]
        /\ \A k \in 1 .. Len(after) : after[k] \in S => \E i \in 1 .. m : g[i] = k
    BY <1>5 DEF KeepsTo, m
  <1>10. after[1] = s[at]
    BY <1>1, <1>3
  <1>11. \A i \in 1 .. m : /\ at - 1 + g[i] \in 1 .. n /\ at < at - 1 + g[i] /\ g[i] \in Nat
                           /\ t[i] = s[at - 1 + g[i]]
    <2> SUFFICES ASSUME NEW i \in 1 .. m
                 PROVE  /\ at - 1 + g[i] \in 1 .. n /\ at < at - 1 + g[i] /\ g[i] \in Nat
                        /\ t[i] = s[at - 1 + g[i]]
      OBVIOUS
    <2>1. g[i] \in 1 .. (n - at + 1) /\ t[i] = after[g[i]] /\ t[i] \notin ToSet(p.covered)
      BY <1>3, <1>9
    <2>2. g[i] # 1
      BY <1>10, <2>1
    <2> DEFINE q == g[i]
    <2>3. q \in 1 .. (n - at + 1) /\ q # 1 /\ t[i] = after[q]
      BY <2>1, <2>2
    <2> HIDE DEF q
    <2>4. t[i] = s[at + q - 1]
      BY <1>3, <2>3
    <2>5. at + q - 1 = at - 1 + q /\ at - 1 + q \in 1 .. n /\ at < at - 1 + q /\ q \in Nat
      BY <1>1, <2>3
    <2> QED
      BY <2>4, <2>5 DEF q
  <1> DEFINE h == [i \in 1 .. (at + m) |-> IF i <= at THEN i ELSE at - 1 + g[i - at]]
  <1>12. /\ \A i \in 1 .. at : i \in 1 .. (at + m) /\ h[i] = i
         /\ \A i \in 1 .. m : at + i \in 1 .. (at + m) /\ h[at + i] = at - 1 + g[i]
         /\ \A i \in 1 .. (at + m) : i \in 1 .. at \/ (i - at \in 1 .. m /\ at + (i - at) = i)
    <2>1. \A i \in 1 .. at : i \in 1 .. (at + m) /\ i <= at
      BY <1>1, <1>6
    <2>2. \A i \in 1 .. m : at + i \in 1 .. (at + m) /\ ~ (at + i <= at) /\ (at + i) - at = i
      BY <1>1, <1>6
    <2>3. \A i \in 1 .. (at + m) : i \in 1 .. at \/ (i - at \in 1 .. m /\ at + (i - at) = i)
      BY <1>1, <1>6
    <2> QED
      BY <2>1, <2>2, <2>3
  <1>13. h \in [1 .. (at + m) -> 0 .. n]
    <2>1. \A i \in 1 .. (at + m) : h[i] \in 0 .. n
      <3> SUFFICES ASSUME NEW i \in 1 .. (at + m) PROVE h[i] \in 0 .. n
        OBVIOUS
      <3> HIDE DEF h
      <3>1. CASE i \in 1 .. at
        BY <1>1, <1>12, <3>1
      <3>2. CASE i - at \in 1 .. m /\ at + (i - at) = i
        <4>1. h[i] = at - 1 + g[i - at] /\ at - 1 + g[i - at] \in 1 .. n
          BY <1>11, <1>12, <3>2
        <4> QED
          BY <1>1, <4>1
      <3> QED
        BY <1>12, <3>1, <3>2
    <2> QED
      BY <2>1
  <1> HIDE DEF h
  <1>14. ASSUME NEW i \in 1 .. (at + m), NEW j \in 1 .. (at + m), i < j PROVE h[i] < h[j]
    <2>1. CASE j \in 1 .. at
      <3>1. i \in 1 .. at
        BY <1>1, <1>6, <1>14, <2>1
      <3> QED
        BY <1>12, <1>14, <2>1, <3>1
    <2>2. CASE j - at \in 1 .. m /\ at + (j - at) = j
      <3>1. h[j] = at - 1 + g[j - at] /\ at < at - 1 + g[j - at] /\ g[j - at] \in Nat
        BY <1>11, <1>12, <2>2
      <3>2. CASE i \in 1 .. at
        <4>1. h[i] = i /\ i <= at
          BY <1>1, <1>12, <3>2
        <4> QED
          BY <1>1, <3>1, <3>2, <4>1
      <3>3. CASE i - at \in 1 .. m /\ at + (i - at) = i
        <4>1. h[i] = at - 1 + g[i - at] /\ g[i - at] \in Nat
          BY <1>11, <1>12, <3>3
        <4>2. i - at < j - at
          BY <1>1, <1>6, <1>14
        <4>3. g[i - at] < g[j - at]
          BY <1>9, <2>2, <3>3, <4>2
        <4> QED
          BY <1>1, <3>1, <4>1, <4>3
      <3> QED
        BY <1>12, <3>2, <3>3
    <2> QED
      BY <1>12, <2>1, <2>2
  <1>15. ASSUME NEW k \in 1 .. n, s[k] \notin ToSet(p.covered)
         PROVE  \E i \in 1 .. (at + m) : h[i] = k /\ r[i] = s[k]
    <2>1. k # at
      BY <1>15
    <2>2. CASE k < at
      <3>1. k \in 1 .. at /\ k \in 1 .. at - 1
        BY <1>1, <2>2
      <3> QED
        BY <1>7, <1>8, <1>12, <3>1
    <2>3. CASE ~ k < at
      <3> DEFINE q == k - at + 1
      <3>1. q \in 1 .. (n - at + 1) /\ at + q - 1 = k /\ q \in Nat
        BY <1>1, <2>3
      <3>2. after[q] = s[k]
        BY <1>3, <3>1
      <3> HIDE DEF q
      <3>3. after[q] \in ToSet(after)
        BY <1>3, <3>1, ListOf
      <3>4. PICK i \in 1 .. m : g[i] = q
        BY <1>3, <1>9, <1>15, <3>1, <3>2, <3>3
      <3>5. at - 1 + g[i] = k
        BY <1>1, <3>1, <3>4
      <3>6. r[at + i] = t[i] /\ t[i] = s[at - 1 + g[i]]
        BY <1>8, <1>11, <3>4
      <3>7. at + i \in 1 .. (at + m) /\ h[at + i] = at - 1 + g[i]
        BY <1>12, <3>4
      <3> QED
        BY <3>5, <3>6, <3>7
    <2> QED
      BY <2>2, <2>3
  <1>16. ASSUME NEW i \in 1 .. (at + m)
         PROVE  \/ h[i] \in 1 .. n /\ r[i] = s[h[i]]
                \/ r[i] = p /\ h[i] = at
    <2>1. CASE i \in 1 .. at
      <3>1. h[i] = i /\ r[i] = head[i]
        BY <1>8, <1>12, <2>1
      <3>2. CASE i = at
        BY <1>7, <3>1, <3>2
      <3>3. CASE i # at
        <4>1. i \in 1 .. at - 1 /\ i \in 1 .. n
          BY <1>1, <2>1, <3>3
        <4> QED
          BY <1>7, <3>1, <4>1
      <3> QED
        BY <3>2, <3>3
    <2>2. CASE i - at \in 1 .. m /\ at + (i - at) = i
      <3>1. h[i] = at - 1 + g[i - at] /\ r[i] = t[i - at]
        BY <1>8, <1>12, <2>2
      <3> QED
        BY <1>11, <2>2, <3>1
    <2> QED
      BY <1>12, <2>1, <2>2
  <1>17. Shifted(r, s, p, h)
    <2>1. /\ h \in [1 .. Len(r) -> 0 .. Len(s)]
          /\ \A i, j \in 1 .. Len(r) : i < j => h[i] < h[j]
      BY <1>8, <1>13, <1>14 DEF n
    <2>2. \A k \in 1 .. Len(s) : s[k] \notin ToSet(p.covered) =>
             \E i \in 1 .. Len(r) : h[i] = k /\ r[i] = s[k]
      BY <1>8, <1>15 DEF n
    <2>3. \A i \in 1 .. Len(r) : \/ h[i] \in 1 .. Len(s) /\ r[i] = s[h[i]]
                                 \/ r[i] = p /\ h[i] = at
      BY <1>8, <1>16 DEF n
    <2> QED
      BY <2>1, <2>2, <2>3 DEF Shifted
  <1> QED
    BY <1>17 DEF r, t, head, before, after, n

\* Placing a product leaves the sequence as it is, or moves it.
LEMMA AppliedAt ==
    ASSUME NEW s, Lists(s), NEW p
    PROVE  LET r == applyFoldProduct(s, p) IN
           r = s \/ (p \notin ToSet(s) /\ \E h : Shifted(r, s, p, h))
  <1> DEFINE covered == ToSet(p.covered)
             first == SelectInSeq(s, LAMBDA e : e \in covered)
             after == SubSeq(s, first, Len(s))
             r == applyFoldProduct(s, p)
  <1>1. r = IF Contains(s, p) THEN s
            ELSE IF p.type = "history_summary" THEN <<p>> \o Only(s, ToSet(s) \ covered)
            ELSE IF first = 0 THEN s
            ELSE SubSeq(s, 1, first - 1) \o <<p>> \o Only(after, ToSet(after) \ covered)
    BY DEF applyFoldProduct
  <1>2. Contains(s, p) <=> p \in ToSet(s)
    BY ListOf DEF Lists
  <1>3. first # 0 => /\ first \in 1 .. Len(s)
                     /\ \A i \in 1 .. Len(s) : i < first => s[i] \notin covered
    BY FirstPlace
  <1>4. first # 0 => s[first] \in covered
    <2> DEFINE I == {i \in 1 .. Len(s) : s[i] \in covered}
    <2>1. first = IF I # {} THEN Min(I) ELSE 0
      BY DEF SelectInSeq
    <2>2. Len(s) \in Nat
      BY ListOf DEF Lists
    <2>3. I # {} => Min(I) \in I
      <3> HIDE DEF I
      <3>1. I \subseteq 1 .. Len(s)
        BY DEF I
      <3> QED
        BY <2>2, <3>1, LeastPlace
    <2> QED
      BY <2>1, <2>3
  <1> HIDE DEF r, first, after
  <1>5. CASE p \in ToSet(s)
    <2>1. r = s
      BY <1>1, <1>2, <1>5
    <2> QED
      BY <2>1 DEF r
  <1>6. CASE p \notin ToSet(s) /\ p.type = "history_summary"
    BY <1>1, <1>2, <1>6, SummaryMoves DEF r
  <1>7. CASE p \notin ToSet(s) /\ p.type # "history_summary" /\ first = 0
    <2>1. r = s
      BY <1>1, <1>2, <1>7
    <2> QED
      BY <2>1 DEF r
  <1>8. CASE p \notin ToSet(s) /\ p.type # "history_summary" /\ first # 0
    <2>1. r = (SubSeq(s, 1, first - 1) \o <<p>>) \o Only(after, ToSet(after) \ covered)
      BY <1>1, <1>2, <1>8
    <2>2. \E h : Shifted((SubSeq(s, 1, first - 1) \o <<p>>)
                       \o Only(after, ToSet(after) \ covered), s, p, h)
      BY <1>3, <1>4, <1>8, DetailMoves DEF after
    <2> QED
      BY <1>8, <2>1, <2>2 DEF r
  <1> QED
    BY <1>5, <1>6, <1>7, <1>8

-----------------------------------------------------------------------------
(* Planning.                                                               *)

\* A closed turn holds the answer that closed it, and no input that answer left open.
TurnsOf(X) ==
    {t \in Seq(X) :
        /\ \E o \in ToSet(t) : o.type = "agent_output"
        /\ \A e \in ToSet(t) : e.type = "external_input" =>
              \E o \in X : o.type = "agent_output" /\ (o.inputs = {} \/ e \in o.inputs)}

LEMMA Split ==
    ASSUME NEW X, NEW s \in Seq(X)
    PROVE  splitSegments(s) \in [closed : Seq(TurnsOf(X)), run : Seq(X)]
  <1> DEFINE n == Len(s)
             A == [closed : Seq(TurnsOf(X)), run : Seq(X)]
             base == [closed |-> << >>, run |-> << >>]
             driving == drivingInputsOf(s)
             Longer(k, a) == IF s[k].type = "agent_output"
                             THEN closeByConsumption(a.closed, Append(a.run, s[k]), s[k], driving)
                             ELSE [a EXCEPT !.run = Append(@, s[k])]
             step == [x \in (1 .. n) \X A |-> Longer(x[1], x[2])]
             IsCut(g) == g = [k \in 0 .. n |-> IF k = 0 THEN base ELSE Longer(k, g[k - 1])]
             cut == CHOOSE g : IsCut(g)
  <1>1. n \in Nat /\ base \in A /\ \A k \in 1 .. n : s[k] \in X
    OBVIOUS
  <1>2. \A k \in 1 .. n, a \in A : Longer(k, a) \in A
    <2> SUFFICES ASSUME NEW k \in 1 .. n, NEW a \in A PROVE Longer(k, a) \in A
      OBVIOUS
    <2>1. a.closed \in Seq(TurnsOf(X)) /\ a.run \in Seq(X) /\ Append(a.run, s[k]) \in Seq(X)
      BY <1>1
    <2>2. CASE s[k].type = "agent_output"
      <3> DEFINE run == Append(a.run, s[k])
                 carried == {e \in ToSet(run) : /\ s[k].inputs # {}
                                                /\ isSegmentInput(e, driving)
                                                /\ e \notin s[k].inputs}
      <3>1. Longer(k, a) = [closed |-> Append(a.closed, Only(run, ToSet(run) \ carried)),
                            run |-> Only(run, carried)]
        BY <2>2 DEF closeByConsumption
      <3> HIDE DEF carried, run
      <3>2. run \in Seq(X)
        BY <2>1 DEF run
      <3> DEFINE t == Only(run, ToSet(run) \ carried)
      <3>3. t \in Seq(X) /\ ToSet(t) = ToSet(run) \ carried /\ Only(run, carried) \in Seq(X)
        BY <3>2, OnlySet
      <3> HIDE DEF t
      <3>4. ToSet(run) \subseteq X /\ s[k] \in ToSet(run)
        <4>1. run[Len(a.run) + 1] = s[k] /\ Len(a.run) + 1 \in 1 .. Len(run)
          BY <2>1 DEF run
        <4> QED
          BY <3>2, <4>1, ListOf
      <3>5. s[k] \in ToSet(t)
        <4>1. s[k] \notin carried
          BY <2>2 DEF carried, isSegmentInput
        <4> QED
          BY <3>3, <3>4, <4>1
      <3>6. ASSUME NEW e \in ToSet(t), e.type = "external_input"
            PROVE  s[k].inputs = {} \/ e \in s[k].inputs
        <4>1. e \in ToSet(run) /\ e \notin carried
          BY <3>3
        <4> QED
          BY <3>6, <4>1 DEF carried, isSegmentInput
      <3>7. t \in TurnsOf(X)
        BY <1>1, <2>2, <3>3, <3>5, <3>6 DEF TurnsOf
      <3>8. Append(a.closed, t) \in Seq(TurnsOf(X))
        BY <2>1, <3>7
      <3>9. Longer(k, a) = [closed |-> Append(a.closed, t), run |-> Only(run, carried)]
        BY <3>1 DEF t
      <3> HIDE DEF Longer
      <3> QED
        BY <3>3, <3>8, <3>9
    <2>3. CASE s[k].type # "agent_output"
      BY <2>1, <2>3
    <2> QED
      BY <2>2, <2>3
  <1>3. splitSegments(s) = cut[n]
    BY DEF splitSegments
  <1> HIDE DEF n, A, base, Longer
  <1>4. step \in [(1 .. n) \X A -> A] /\ \A k \in 1 .. n, a \in A : step[<<k, a>>] = Longer(k, a)
    BY <1>2
  <1> HIDE DEF step
  <1>5. PICK g : FoldsTo(g, n, A, base, step)
    BY <1>1, <1>4, FoldExists, Zenon
  <1>6. g \in [0 .. n -> A] /\ g[0] = base /\ \A k \in 1 .. n : g[k] = step[<<k, g[k - 1]>>]
    BY <1>5 DEF FoldsTo
  <1>7. \A k \in 0 .. n : g[k] = IF k = 0 THEN base ELSE Longer(k, g[k - 1])
    <2> TAKE k \in 0 .. n
    <2>1. CASE k = 0
      BY <1>6, <2>1
    <2>2. CASE k # 0
      <3>1. k \in 1 .. n /\ k - 1 \in 0 .. n
        BY <1>1, <2>2
      <3> QED
        BY <1>4, <1>6, <2>2, <3>1
    <2> QED
      BY <2>1, <2>2
  <1>8. IsCut(g)
    BY <1>6, <1>7
  <1>9. IsCut(cut)
    <2> HIDE DEF IsCut
    <2> QED
      BY <1>8
  <1> HIDE DEF cut
  <1>10. \A k \in 0 .. n : cut[k] = IF k = 0 THEN base ELSE Longer(k, cut[k - 1])
    BY <1>9
  <1>11. cut[0] = base /\ \A k \in 1 .. n : cut[k] = Longer(k, cut[k - 1])
    <2>1. \A k \in 1 .. n : k \in 0 .. n /\ k # 0
      BY <1>1
    <2> QED
      BY <1>1, <1>10, <2>1
  <1> DEFINE T == {k \in Nat : k <= n => cut[k] \in A}
  <1>12. 0 \in T
    BY <1>1, <1>11
  <1>13. ASSUME NEW k \in Nat, k \in T PROVE k + 1 \in T
    <2> SUFFICES ASSUME k + 1 <= n PROVE cut[k + 1] \in A
      OBVIOUS
    <2>1. k + 1 \in 1 .. n /\ (k + 1) - 1 = k /\ cut[k] \in A
      BY <1>1, <1>13
    <2> QED
      BY <1>2, <1>11, <2>1
  <1>14. Nat \subseteq T
    <2> HIDE DEF T
    <2> QED
      BY <1>12, <1>13, EveryNat
  <1>15. cut[n] \in A
    BY <1>1, <1>14
  <1> QED
    BY <1>3, <1>15 DEF A

\* What a list of lists holds, joined.
LEMMA FlatSet ==
    ASSUME NEW X, NEW ss \in Seq(Seq(X))
    PROVE  \A x : x \in ToSet(FlattenSeq(ss)) <=> \E i \in 1 .. Len(ss) : x \in ToSet(ss[i])
  <1> DEFINE n == Len(ss)
             A == Seq(X)
             base == << >>
             Longer(k, a) == IF k = 1 THEN ss[k] ELSE a \o ss[k]
             step == [x \in (1 .. n) \X A |-> Longer(x[1], x[2])]
             IsFlat(g) == g = [k \in 1 .. n |-> IF k = 1 THEN ss[k] ELSE g[k - 1] \o ss[k]]
             flat == CHOOSE g : IsFlat(g)
  <1>1. n \in Nat /\ base \in A /\ \A k \in 1 .. n : ss[k] \in A
    OBVIOUS
  <1>2. FlattenSeq(ss) = IF n = 0 THEN ss ELSE flat[n]
    BY DEF FlattenSeq
  <1>3. n = 0 => ss = << >>
    OBVIOUS
  <1>4. \A k \in 1 .. n, a \in A : Longer(k, a) \in A
    <2> SUFFICES ASSUME NEW k \in 1 .. n, NEW a \in A PROVE Longer(k, a) \in A
      OBVIOUS
    <2>1. ss[k] \in Seq(X) /\ a \o ss[k] \in Seq(X)
      BY <1>1
    <2> QED
      BY <2>1
  <1> HIDE DEF n, A, base
  <1>5. step \in [(1 .. n) \X A -> A] /\ \A k \in 1 .. n, a \in A : step[<<k, a>>] = Longer(k, a)
    <2> HIDE DEF Longer
    <2> QED
      BY <1>4
  <1> HIDE DEF step
  <1>6. PICK g : FoldsTo(g, n, A, base, step)
    BY <1>1, <1>5, FoldExists, Zenon
  <1>7. g \in [0 .. n -> A] /\ g[0] = base /\ \A k \in 1 .. n : g[k] = step[<<k, g[k - 1]>>]
    BY <1>6 DEF FoldsTo
  <1> DEFINE f == [k \in 1 .. n |-> g[k]]
  <1>8. IsFlat(f)
    <2>1. \A k \in 1 .. n : f[k] = IF k = 1 THEN ss[k] ELSE f[k - 1] \o ss[k]
      <3> TAKE k \in 1 .. n
      <3>1. k - 1 \in 0 .. n /\ f[k] = Longer(k, g[k - 1])
        <4> HIDE DEF Longer
        <4>1. k - 1 \in 0 .. n
          BY <1>1
        <4>2. g[k - 1] \in A
          BY <1>7, <4>1
        <4> QED
          BY <1>5, <1>7, <4>1, <4>2
      <3>2. CASE k = 1
        BY <3>1, <3>2
      <3>3. CASE k # 1
        <4>1. k - 1 \in 1 .. n
          BY <1>1, <3>3
        <4>2. f[k - 1] = g[k - 1]
          BY <4>1
        <4> QED
          BY <3>1, <3>3, <4>2
      <3> QED
        BY <3>2, <3>3
    <2> QED
      BY <2>1
  <1>9. IsFlat(flat)
    <2> HIDE DEF IsFlat, f
    <2> QED
      BY <1>8
  <1> HIDE DEF flat
  <1>10. \A k \in 1 .. n : flat[k] = IF k = 1 THEN ss[k] ELSE flat[k - 1] \o ss[k]
    BY <1>9
  <1> DEFINE Joined(k) == /\ Lists(flat[k])
                          /\ \A x : x \in ToSet(flat[k]) <=> \E i \in 1 .. k : x \in ToSet(ss[i])
             T == {k \in Nat : k + 1 <= n => Joined(k + 1)}
  <1>11. 0 \in T
    <2> SUFFICES ASSUME 1 <= n PROVE Joined(1)
      OBVIOUS
    <2>1. 1 \in 1 .. n
      BY <1>1
    <2>2. flat[1] = ss[1]
      BY <1>10, <2>1
    <2>3. ss[1] \in Seq(X)
      BY <1>1, <2>1 DEF A
    <2>4. Lists(flat[1])
      BY <2>2, <2>3, ListOf
    <2>5. \A i \in 1 .. 1 : i = 1
      OBVIOUS
    <2> QED
      BY <2>2, <2>4, <2>5
  <1>12. ASSUME NEW k \in Nat, k \in T PROVE k + 1 \in T
    <2> SUFFICES ASSUME (k + 1) + 1 <= n PROVE Joined((k + 1) + 1)
      OBVIOUS
    <2> DEFINE m == k + 1
    <2>1. /\ m + 1 \in 1 .. n /\ (m + 1) - 1 = m /\ m + 1 # 1 /\ Joined(m)
          /\ \A i \in 1 .. (m + 1) : i \in 1 .. m \/ i = m + 1
          /\ \A i \in 1 .. m : i \in 1 .. (m + 1)
          /\ m + 1 \in 1 .. (m + 1)
      BY <1>1, <1>12
    <2> HIDE DEF m
    <2>2. flat[m + 1] = flat[m] \o ss[m + 1]
      BY <1>10, <2>1
    <2>3. ss[m + 1] \in Seq(X)
      BY <1>1, <2>1 DEF A
    <2>4. Lists(ss[m + 1])
      BY <2>3, ListOf
    <2>5. Lists(flat[m + 1]) /\ ToSet(flat[m + 1]) = ToSet(flat[m]) \cup ToSet(ss[m + 1])
      BY <2>1, <2>2, <2>4, JoinSet
    <2>6. Joined(m + 1)
      BY <2>1, <2>5
    <2> QED
      BY <2>6 DEF m
  <1>13. Nat \subseteq T
    <2> HIDE DEF T
    <2> QED
      BY <1>11, <1>12, EveryNat
  <1>14. CASE n = 0
    <2>1. ToSet(FlattenSeq(ss)) = {}
      BY <1>2, <1>3, <1>14, NoneSet
    <2>2. 1 .. n = {}
      BY <1>14
    <2> QED
      BY <2>1, <2>2 DEF n
  <1>15. CASE n # 0
    <2>1. n - 1 \in Nat /\ (n - 1) + 1 = n
      BY <1>1, <1>15
    <2>2. Joined(n)
      <3> HIDE DEF Joined
      <3> QED
        BY <1>1, <1>13, <2>1
    <2> QED
      BY <1>2, <1>15, <2>2 DEF n
  <1> QED
    BY <1>14, <1>15

\* A planned product covers entries: what closed turns hold, an answer among them when
\* it is a summary, and of the inputs only those an answer closed.
PlannedFrom(p, s) ==
    /\ ToSet(p.covered) \subseteq ToSet(s)
    /\ \A e \in ToSet(p.covered) : e.type = "external_input" =>
          \E o \in ToSet(s) : o.type = "agent_output" /\ (o.inputs = {} \/ e \in o.inputs)
    /\ p.type = "history_summary" => \E o \in ToSet(p.covered) : o.type = "agent_output"

\* Every product planned is well made: a fold of a turn's process detail, or a summary.
LEMMA Planned ==
    ASSUME NEW s, Lists(s)
    PROVE  ProductsIn(planFold(s)) /\ \A p \in ToSet(planFold(s)) : PlannedFrom(p, s)
  <1> DEFINE X == ToSet(s)
             cut == splitSegments(s)
             turns == DOMAIN cut.closed
             runs == Len(cut.closed) + (IF cut.run = << >> THEN 0 ELSE 1)
             Detail(k) == Only(cut.closed[k], {e \in ToSet(cut.closed[k]) : isProcessDetail(e)})
             places == [k \in turns |-> k]
             recent == {k \in turns : runs - k < KeepRecent}
             new == Only(places, {k \in recent : Detail(k) # << >>})
             old == Only(places, turns \ recent)
             middle == FlattenSeq([k \in DOMAIN old |-> cut.closed[old[k]]])
             folds == [k \in DOMAIN new |-> foldProcessDetail(Detail(new[k]))]
             summary == IF middle = << >> THEN << >> ELSE <<historySummaryOf(middle)>>
  <1>1. planFold(s) = IF Len(s) <= Threshold THEN << >> ELSE folds \o summary
    BY DEF planFold
  <1>2. cut.closed \in Seq(TurnsOf(X)) /\ turns = 1 .. Len(cut.closed) /\ Len(cut.closed) \in Nat
    <2> HIDE DEF X, cut
    <2>1. cut \in [closed : Seq(TurnsOf(X)), run : Seq(X)]
      BY Split DEF Lists, X, cut
    <2> QED
      BY <2>1
  <1>3. \A k \in turns : cut.closed[k] \in TurnsOf(X)
    <2> HIDE DEF cut, X
    <2> QED
      BY <1>2
  <1> HIDE DEF cut, X, middle, old, recent
  <1>4. places \in Seq(turns)
    BY <1>2
  <1> HIDE DEF turns, places
  <1>5. new \in Seq(turns)
    <2> DEFINE S == {k \in recent : Detail(k) # << >>}
    <2> HIDE DEF S, Detail
    <2>1. Only(places, S) \in Seq(turns)
      BY <1>4, OnlySet
    <2> QED
      BY <2>1 DEF S
  <1> HIDE DEF new
  <1>6. DOMAIN new = 1 .. Len(new) /\ Len(new) \in Nat /\ \A k \in 1 .. Len(new) : new[k] \in turns
    BY <1>5
  <1>7. \A k \in turns : \A e \in ToSet(Detail(k)) : e.type = "thinking_plan" /\ e \in X
    <2> SUFFICES ASSUME NEW k \in turns, NEW e \in ToSet(Detail(k))
                 PROVE  e.type = "thinking_plan" /\ e \in X
      OBVIOUS
    <2> DEFINE t == cut.closed[k]
               D == {x \in ToSet(t) : isProcessDetail(x)}
    <2>1. t \in Seq(X)
      BY <1>3 DEF TurnsOf
    <2> HIDE DEF t
    <2>2. ToSet(Only(t, D)) = ToSet(t) \cap D
      <3> HIDE DEF D
      <3> QED
        BY <2>1, OnlySet
    <2>3. e \in D /\ e \in ToSet(t)
      BY <2>2 DEF t
    <2>4. ToSet(t) \subseteq X
      BY <2>1, ListOf
    <2> QED
      BY <2>3, <2>4 DEF isProcessDetail
  <1> HIDE DEF Detail
  <1> DEFINE W == {foldProcessDetail(Detail(k)) : k \in turns}
  <1>8. \A p \in W : WellMade(p) /\ PlannedFrom(p, s)
    <2> SUFFICES ASSUME NEW k \in turns, NEW p, p = foldProcessDetail(Detail(k))
                 PROVE  WellMade(p) /\ PlannedFrom(p, s)
      OBVIOUS
    <2>1. p.covered = Detail(k) /\ p.type = "segment_fold"
      BY DEF foldProcessDetail
    <2> QED
      BY <1>7, <2>1 DEF WellMade, PlannedFrom, X
  <1>9. folds \in Seq(W)
    <2>1. \A k \in DOMAIN new : foldProcessDetail(Detail(new[k])) \in W
      BY <1>6
    <2> HIDE DEF W
    <2> QED
      BY <1>6, <2>1
  <1> HIDE DEF folds, W
  <1>10. Lists(folds) /\ \A p \in ToSet(folds) : WellMade(p) /\ PlannedFrom(p, s)
    BY <1>8, <1>9, ListOf
  <1>11. middle # << >> =>
            /\ ToSet(middle) \subseteq X /\ \E o \in ToSet(middle) : o.type = "agent_output"
            /\ \A e \in ToSet(middle) : e.type = "external_input" =>
                  \E o \in X : o.type = "agent_output" /\ (o.inputs = {} \/ e \in o.inputs)
    <2> SUFFICES ASSUME middle # << >>
                 PROVE  /\ ToSet(middle) \subseteq X
                        /\ \E o \in ToSet(middle) : o.type = "agent_output"
                        /\ \A e \in ToSet(middle) : e.type = "external_input" =>
                              \E o \in X : o.type = "agent_output" /\ (o.inputs = {} \/ e \in o.inputs)
      OBVIOUS
    <2> DEFINE ss == [k \in DOMAIN old |-> cut.closed[old[k]]]
    <2>1. old \in Seq(turns)
      BY <1>4, OnlySet DEF old
    <2>2. DOMAIN old = 1 .. Len(old) /\ Len(old) \in Nat /\ \A k \in 1 .. Len(old) : old[k] \in turns
      BY <2>1
    <2>3. ss \in [1 .. Len(old) -> TurnsOf(X)] /\ \A k \in 1 .. Len(old) : ss[k] = cut.closed[old[k]]
      BY <1>3, <2>2
    <2> HIDE DEF ss
    <2>4. ss \in Seq(TurnsOf(X)) /\ Len(ss) = Len(old)
      BY <2>2, <2>3
    <2>5. \A i \in 1 .. Len(ss) : ss[i] \in TurnsOf(X) /\ ss[i] \in Seq(X)
      <3>1. \A i \in 1 .. Len(ss) : ss[i] \in TurnsOf(X)
        BY <2>4
      <3>2. TurnsOf(X) \subseteq Seq(X)
        BY DEF TurnsOf
      <3> QED
        BY <3>1, <3>2
    <2>6. ss \in Seq(Seq(X)) /\ middle = FlattenSeq(ss)
      <3>1. TurnsOf(X) \subseteq Seq(X)
        BY DEF TurnsOf
      <3>2. ss \in Seq(Seq(X))
        BY <2>4, <3>1
      <3> QED
        BY <3>2 DEF middle, ss
    <2>7. \A x : x \in ToSet(middle) <=> \E i \in 1 .. Len(ss) : x \in ToSet(ss[i])
      BY <2>6, FlatSet
    <2>8. Len(ss) # 0
      <3> SUFFICES ASSUME Len(ss) = 0 PROVE FALSE
        OBVIOUS
      <3>1. ss = << >>
        BY <2>4
      <3>2. middle = << >>
        BY <2>6, <3>1 DEF FlattenSeq
      <3> QED
        BY <3>2
    <2>9. 1 \in 1 .. Len(ss)
      BY <2>2, <2>4, <2>8
    <2>10. \A i \in 1 .. Len(ss) : ToSet(ss[i]) \subseteq X
      BY <2>5, ListOf
    <2>11. /\ \E o \in ToSet(ss[1]) : o.type = "agent_output"
           /\ \A i \in 1 .. Len(ss) : \A e \in ToSet(ss[i]) : e.type = "external_input" =>
                  \E o \in X : o.type = "agent_output" /\ (o.inputs = {} \/ e \in o.inputs)
      BY <2>5, <2>9 DEF TurnsOf
    <2> QED
      BY <2>7, <2>9, <2>10, <2>11
  <1>12. Lists(summary) /\ \A p \in ToSet(summary) : WellMade(p) /\ PlannedFrom(p, s)
    <2>1. CASE middle = << >>
      BY <2>1, NoneSet
    <2>2. CASE middle # << >>
      <3> DEFINE p == historySummaryOf(middle)
      <3>1. p.covered = middle
        BY DEF historySummaryOf
      <3>2. WellMade(p) /\ PlannedFrom(p, s)
        BY <1>11, <2>2, <3>1 DEF WellMade, PlannedFrom, X
      <3> HIDE DEF p
      <3>3. Lists(<<p>>) /\ ToSet(<<p>>) = {p}
        BY OneSet
      <3>4. summary = <<p>>
        BY <2>2 DEF p
      <3> QED
        BY <3>2, <3>3, <3>4
    <2> QED
      BY <2>1, <2>2
  <1> HIDE DEF summary
  <1> DEFINE all == folds \o summary
  <1>13. Lists(all) /\ ToSet(all) = ToSet(folds) \cup ToSet(summary)
    BY <1>10, <1>12, JoinSet
  <1> HIDE DEF all
  <1>14. ProductsIn(all) /\ \A p \in ToSet(all) : PlannedFrom(p, s)
    BY <1>10, <1>12, <1>13 DEF ProductsIn
  <1>15. ProductsIn(<< >>) /\ ToSet(<< >>) = {}
    BY NoneSet DEF ProductsIn
  <1>16. planFold(s) = << >> \/ planFold(s) = all
    BY <1>1 DEF all
  <1> QED
    BY <1>14, <1>15, <1>16

-----------------------------------------------------------------------------
(* Placing the products again.                                             *)

\* The chain with its first k products placed.
PlacedTo(t, k) ==
    /\ EntriesIn(t)
    /\ ToSet(t) \subseteq ToSet(facts) \cup {products[i] : i \in 1 .. k}
    /\ \A f \in ToSet(facts) : f.type # "thinking_plan" => \E e \in ToSet(t) : f \in Tells(e)
    /\ \A f \in ToSet(facts) : \A i \in 1 .. k : f \in ToSet(products[i].covered) => f \notin ToSet(t)
    /\ \A f \in ToSet(facts) : f \notin ToSet(t) =>
          \E i \in 1 .. k : f \in ToSet(products[i].covered)

LEMMA FactNoProduct ==
    ASSUME NEW f, IsFact(f), NEW p, WellMade(p)
    PROVE  f # p
  <1>1. p.type \in {"history_summary", "segment_fold"}
    BY DEF WellMade, historySummaryOf, foldProcessDetail
  <1> QED
    BY <1>1 DEF IsFact

LEMMA PlaceOne ==
    ASSUME FactsIn(facts), ProductsIn(products), Filed,
           NEW k \in Nat, k + 1 \in 1 .. Len(products), NEW t, PlacedTo(t, k)
    PROVE  PlacedTo(applyFoldProduct(t, products[k + 1]), k + 1)
  <1> DEFINE p == products[k + 1]
             r == applyFoldProduct(t, p)
             covered == ToSet(p.covered)
             F == ToSet(facts)
  <1>1. /\ Len(products) \in Nat /\ \A i \in 1 .. Len(products) : products[i] \in ToSet(products)
        /\ \A i \in 1 .. k : i \in 1 .. Len(products) /\ i # k + 1
        /\ 1 .. (k + 1) = (1 .. k) \cup {k + 1}
    <2>1. Len(products) \in Nat /\ \A i \in 1 .. Len(products) : products[i] \in ToSet(products)
      BY ListOf DEF ProductsIn, Lists
    <2>2. 1 .. (k + 1) = (1 .. k) \cup {k + 1}
      OBVIOUS
    <2> QED
      BY <2>1, <2>2
  <1>2. WellMade(p)
    BY <1>1 DEF ProductsIn
  <1>3. \A f \in F : IsFact(f) /\ f # p
    BY <1>2, FactNoProduct DEF FactsIn
  <1>4. p \notin ToSet(t)
    <2>1. \A i \in 1 .. k : products[i] # p
      BY <1>1 DEF Filed
    <2> QED
      BY <1>3, <2>1 DEF PlacedTo
  <1>5. /\ EntriesIn(r)
        /\ \A f : f.type # "thinking_plan" /\ (\E e \in ToSet(t) : f \in Tells(e))
                  => \E e \in ToSet(r) : f \in Tells(e)
    BY <1>2, AppliedTells DEF PlacedTo
  <1> HIDE DEF p
  <1>6. \/ r = t /\ ToSet(t) \cap covered = {}
        \/ ToSet(r) = {p} \cup (ToSet(t) \ covered)
    BY <1>4, Applied DEF PlacedTo, EntriesIn
  <1> HIDE DEF r, covered
  <1>7. ToSet(r) \subseteq F \cup {products[i] : i \in 1 .. (k + 1)}
    <2>1. ToSet(t) \subseteq F \cup {products[i] : i \in 1 .. (k + 1)}
      BY <1>1 DEF PlacedTo
    <2>2. p \in {products[i] : i \in 1 .. (k + 1)}
      BY <1>1 DEF p
    <2> QED
      BY <1>6, <2>1, <2>2
  <1>8. \A f \in F : f.type # "thinking_plan" => \E e \in ToSet(r) : f \in Tells(e)
    BY <1>5 DEF PlacedTo
  <1>9. ASSUME NEW f \in F, NEW i \in 1 .. (k + 1), f \in ToSet(products[i].covered)
        PROVE  f \notin ToSet(r)
    <2>1. CASE i \in 1 .. k
      BY <1>3, <1>6, <1>9, <2>1 DEF PlacedTo
    <2>2. CASE i = k + 1
      BY <1>3, <1>6, <1>9, <2>2 DEF p, covered
    <2> QED
      BY <1>1, <2>1, <2>2
  <1>10. ASSUME NEW f \in F, f \notin ToSet(r)
         PROVE  \E i \in 1 .. (k + 1) : f \in ToSet(products[i].covered)
    <2>1. CASE f \in ToSet(t)
      <3>1. f \in covered
        BY <1>6, <1>10, <2>1
      <3> QED
        BY <1>1, <3>1 DEF p, covered
    <2>2. CASE f \notin ToSet(t)
      BY <1>1, <2>2 DEF PlacedTo
    <2> QED
      BY <2>1, <2>2
  <1> QED
    BY <1>5, <1>7, <1>8, <1>9, <1>10 DEF PlacedTo, r, p

LEMMA Replaced ==
    ASSUME FactsIn(facts), ProductsIn(products), Filed
    PROVE  PlacedTo(RestoreProducts(facts, products), Len(products))
  <1> DEFINE n == Len(products)
             A == Seq(ToSet(facts) \cup ToSet(products))
             IsPlaced(g) == g = [k \in 0 .. n |-> IF k = 0 THEN facts
                                                  ELSE applyFoldProduct(g[k - 1], products[k])]
             after == CHOOSE g : IsPlaced(g)
             step == [x \in (1 .. n) \X A |-> applyFoldProduct(x[2], products[x[1]])]
  <1>1. /\ n \in Nat /\ facts \in A
        /\ \A k \in 1 .. n : products[k] \in ToSet(products)
    <2>1. n \in Nat /\ \A k \in 1 .. n : products[k] \in ToSet(products)
      BY ListOf DEF ProductsIn, Lists
    <2>2. facts \in A
      BY DEF FactsIn, Lists
    <2> QED
      BY <2>1, <2>2
  <1>2. \A k \in 1 .. n, a \in A : applyFoldProduct(a, products[k]) \in A
    <2> SUFFICES ASSUME NEW k \in 1 .. n, NEW a \in A PROVE applyFoldProduct(a, products[k]) \in A
      OBVIOUS
    <2> DEFINE p == products[k]
               r == applyFoldProduct(a, p)
    <2>1. Lists(a) /\ ToSet(a) \subseteq ToSet(facts) \cup ToSet(products)
      BY ListOf
    <2>2. p \in ToSet(products)
      BY <1>1
    <2> HIDE DEF p
    <2>3. Lists(r) /\ ToSet(r) \subseteq {p} \cup ToSet(a)
      BY <2>1, Applied
    <2> HIDE DEF r
    <2>4. r \in Seq(ToSet(r)) /\ ToSet(r) \subseteq ToSet(facts) \cup ToSet(products)
      BY <2>1, <2>2, <2>3 DEF Lists
    <2>5. r \in A
      BY <2>4
    <2> QED
      BY <2>5 DEF r, p
  <1>3. RestoreProducts(facts, products) = after[n]
    BY DEF RestoreProducts
  <1> HIDE DEF n, A
  <1>4. /\ step \in [(1 .. n) \X A -> A]
        /\ \A k \in 1 .. n, a \in A : step[<<k, a>>] = applyFoldProduct(a, products[k])
    BY <1>2
  <1> HIDE DEF step
  <1>5. PICK g : FoldsTo(g, n, A, facts, step)
    BY <1>1, <1>4, FoldExists, Zenon
  <1>6. g \in [0 .. n -> A] /\ g[0] = facts /\ \A k \in 1 .. n : g[k] = step[<<k, g[k - 1]>>]
    BY <1>5 DEF FoldsTo
  <1>7. \A k \in 0 .. n : g[k] = IF k = 0 THEN facts ELSE applyFoldProduct(g[k - 1], products[k])
    <2> TAKE k \in 0 .. n
    <2>1. CASE k = 0
      BY <1>6, <2>1
    <2>2. CASE k # 0
      <3>1. k \in 1 .. n /\ k - 1 \in 0 .. n
        BY <1>1, <2>2
      <3> QED
        BY <1>4, <1>6, <2>2, <3>1
    <2> QED
      BY <2>1, <2>2
  <1>8. IsPlaced(g)
    BY <1>6, <1>7
  <1>9. IsPlaced(after)
    <2> HIDE DEF IsPlaced
    <2> QED
      BY <1>8
  <1> HIDE DEF after
  <1>10. \A k \in 0 .. n : after[k] = IF k = 0 THEN facts ELSE applyFoldProduct(after[k - 1], products[k])
    BY <1>9
  <1>11. after[0] = facts /\ \A k \in 1 .. n : after[k] = applyFoldProduct(after[k - 1], products[k])
    <2>1. \A k \in 1 .. n : k \in 0 .. n /\ k # 0
      BY <1>1
    <2> QED
      BY <1>1, <1>10, <2>1
  <1> DEFINE T == {k \in Nat : k <= n => PlacedTo(after[k], k)}
  <1>12. 0 \in T
    <2>1. \A f \in ToSet(facts) : f.type # "thinking_plan" => f \in Tells(f)
      <3> SUFFICES ASSUME NEW f \in ToSet(facts) PROVE f \in Tells(f)
        OBVIOUS
      <3>1. f.type \notin {"history_summary", "segment_fold"}
        BY DEF FactsIn, IsFact
      <3> QED
        BY <3>1 DEF Tells
    <2>2. EntriesIn(facts)
      BY DEF FactsIn, EntriesIn
    <2>3. 1 .. 0 = {}
      OBVIOUS
    <2>4. PlacedTo(facts, 0)
      BY <2>1, <2>2, <2>3 DEF PlacedTo
    <2> QED
      BY <1>11, <2>4
  <1>13. ASSUME NEW k \in Nat, k \in T PROVE k + 1 \in T
    <2> SUFFICES ASSUME k + 1 <= n PROVE PlacedTo(after[k + 1], k + 1)
      OBVIOUS
    <2>1. k + 1 \in 1 .. n /\ (k + 1) - 1 = k /\ PlacedTo(after[k], k)
      BY <1>1, <1>13
    <2>2. after[k + 1] = applyFoldProduct(after[k], products[k + 1])
      BY <1>11, <2>1
    <2> QED
      BY <2>1, <2>2, PlaceOne DEF n
  <1>14. Nat \subseteq T
    <2> HIDE DEF T
    <2> QED
      BY <1>12, <1>13, EveryNat
  <1>15. PlacedTo(after[n], n)
    BY <1>1, <1>14
  <1> QED
    BY <1>3, <1>15 DEF n

-----------------------------------------------------------------------------
(* The steps.                                                              *)

\* The commit of c goes on with products of S, and has landed nothing more.
Moves(c, S) ==
    /\ \A d \in Committers \ {c} : commit'[d] = commit[d]
    /\ commit'[c].pc # "landed"
    /\ ToSet(commit'[c].batch) \subseteq S

LEMMA LoopCommits == Loop \in Committers
  BY DEF Committers

\* A fact is told when some entry tells it.
LEMMA ToldBy ==
    ASSUME EntriesIn(entries), NEW f
    PROVE  Told(f) # {} <=> \E e \in ToSet(entries) : f \in Tells(e)
  BY DEF Told, ToSet

LEMMA NoProducts == ProductsIn(<< >>)
  BY NoneSet DEF ProductsIn

\* A commit moves on, and the others stay where they are.
LEMMA CommitBecomes ==
    ASSUME Commits, NEW c \in Committers, NEW r,
           r = [pc |-> r.pc, fact |-> r.fact, batch |-> r.batch],
           commit' = [commit EXCEPT ![c] = r],
           ToSet(products) \subseteq ToSet(products'),
           r.pc = "landed" => IsFact(r.fact),
           ProductsIn(r.batch),
           r.pc \in {"planned", "filed"} => r.batch # << >>,
           r.pc = "filed" => Head(r.batch) \in ToSet(products')
    PROVE  Commits' /\ commit'[c] = r /\ \A d \in Committers \ {c} : commit'[d] = commit[d]
  <1>1. commit'[c] = r /\ \A d \in Committers \ {c} : commit'[d] = commit[d]
    BY DEF Commits
  <1>2. commit' = [d \in Committers |-> commit'[d]]
    BY DEF Commits
  <1>3. \A d \in Committers : commit'[d] = [pc |-> commit'[d].pc, fact |-> commit'[d].fact,
                                            batch |-> commit'[d].batch]
    <2> TAKE d \in Committers
    <2>1. CASE d = c
      BY <1>1, <2>1
    <2>2. CASE d # c
      BY <1>1, <2>2 DEF Commits
    <2> QED
      BY <2>1, <2>2
  <1>4. commit' = [d \in Committers |-> [pc |-> commit'[d].pc, fact |-> commit'[d].fact,
                                         batch |-> commit'[d].batch]]
    BY <1>2, <1>3
  <1>5. \A d \in Committers : CommitsOf(d)'
    <2> SUFFICES ASSUME NEW d \in Committers PROVE CommitsOf(d)'
      OBVIOUS
    <2>1. CASE d = c
      BY <1>1, <2>1 DEF CommitsOf
    <2>2. CASE d # c
      <3>1. CommitsOf(d) /\ commit'[d] = commit[d]
        BY <1>1, <2>2 DEF Commits
      <3> QED
        BY <3>1 DEF CommitsOf
    <2> QED
      BY <2>1, <2>2
  <1> QED
    BY <1>1, <1>4, <1>5 DEF Commits

LEMMA MappedSame ==
    ASSUME NEW c \in Committers, commit[c].pc # "landed", commit'[c].pc # "landed",
           \A d \in Committers \ {c} : commit'[d] = commit[d], facts' = facts
    PROVE  Mapped' = Mapped
  <1>1. \A d \in Committers : commit'[d].pc = "landed" <=> commit[d].pc = "landed"
    OBVIOUS
  <1>2. \A d \in Committers : commit[d].pc = "landed" => commit'[d].fact = commit[d].fact
    OBVIOUS
  <1> QED
    BY <1>1, <1>2 DEF Mapped

\* Nothing leaves the sequence and nothing more is mapped.
LEMMA Quiet ==
    ASSUME NoTurnLost, CoveredIsFiled, Mapped' \subseteq Mapped, entries' = entries,
           ToSet(products) \subseteq ToSet(products')
    PROVE  NoTurnLost' /\ CoveredIsFiled'
  <1>1. NoTurnLost'
    BY DEF NoTurnLost, Told
  <1>2. CoveredIsFiled'
    BY DEF CoveredIsFiled
  <1> QED
    BY <1>1, <1>2

\* A step of a commit whose fact is mapped: neither the chain nor the sequence moves.
LEMMA Judges ==
    ASSUME Mapping, NEW c \in Committers, commit[c].pc # "landed", NEW r,
           r = [pc |-> r.pc, fact |-> r.fact, batch |-> r.batch],
           commit' = [commit EXCEPT ![c] = r], r.pc # "landed",
           UNCHANGED <<facts, entries>>, ProductsIn(judgments)',
           ProductsIn(products)', Filed', ToSet(products) \subseteq ToSet(products'),
           ProductsIn(r.batch),
           r.pc \in {"planned", "filed"} => r.batch # << >>,
           r.pc = "filed" => Head(r.batch) \in ToSet(products')
    PROVE  /\ Mapping' /\ Mapped' = Mapped
           /\ commit'[c] = r /\ \A d \in Committers \ {c} : commit'[d] = commit[d]
  <1>1. Commits' /\ commit'[c] = r /\ \A d \in Committers \ {c} : commit'[d] = commit[d]
    BY CommitBecomes DEF Mapping
  <1>2. Mapped' = Mapped
    BY <1>1, MappedSame
  <1>3. NoTurnLost' /\ CoveredIsFiled'
    BY <1>2, Quiet DEF Mapping
  <1>4. FactsIn(facts') /\ EntriesIn(entries')
    BY DEF Mapping
  <1> QED
    BY <1>1, <1>2, <1>3, <1>4 DEF Mapping

\* A landed fact is not mapped yet.
LEMMA Lands ==
    ASSUME Mapping, NEW c \in Committers, commit[c].pc # "landed", NEW f, IsFact(f), Land(c, f),
           UNCHANGED <<fold, chain>>
    PROVE  /\ Mapping' /\ Mapped' \subseteq Mapped
           /\ f \notin ToSet(facts) => Mapped' = Mapped
           /\ \A d \in Committers \ {c} : commit'[d] = commit[d]
           /\ commit'[c] = [pc |-> "landed", fact |-> f, batch |-> << >>]
           /\ FactsIn(facts)' /\ ToSet(facts') = ToSet(facts) \cup {f}
  <1> DEFINE r == [pc |-> "landed", fact |-> f, batch |-> << >>]
  <1>1. commit' = [commit EXCEPT ![c] = r] /\ facts' = Append(facts, f)
    BY DEF Land
  <1>2. UNCHANGED <<products, judgments, entries>>
    BY DEF fold, chain
  <1>3. Commits' /\ commit'[c] = r /\ \A d \in Committers \ {c} : commit'[d] = commit[d]
    <2>1. /\ r = [pc |-> r.pc, fact |-> r.fact, batch |-> r.batch]
          /\ r.pc = "landed" /\ r.fact = f /\ r.batch = << >>
      OBVIOUS
    <2> HIDE DEF r
    <2> QED
      BY <1>1, <1>2, <2>1, CommitBecomes, NoProducts DEF Mapping
  <1>4. FactsIn(facts)' /\ ToSet(facts') = ToSet(facts) \cup {f}
    BY <1>1, AppendSet DEF Mapping, FactsIn
  <1>5. Mapped' \subseteq Mapped
    <2> SUFFICES ASSUME NEW g \in Mapped' PROVE g \in Mapped
      OBVIOUS
    <2>1. g \in ToSet(facts') /\ \A d \in Committers : commit'[d].pc = "landed" => g # commit'[d].fact
      BY DEF Mapped
    <2>2. g # f
      BY <1>3, <2>1
    <2>3. \A d \in Committers : commit[d].pc = "landed" => g # commit[d].fact
      BY <1>3, <2>1
    <2> QED
      BY <1>4, <2>1, <2>2, <2>3 DEF Mapped
  <1>6. ASSUME f \notin ToSet(facts), NEW g \in Mapped PROVE g \in Mapped'
    <2>1. g \in ToSet(facts) /\ \A d \in Committers : commit[d].pc = "landed" => g # commit[d].fact
      BY DEF Mapped
    <2>2. \A d \in Committers : commit'[d].pc = "landed" => g # commit'[d].fact
      BY <1>3, <1>6, <2>1
    <2> QED
      BY <1>4, <2>1, <2>2 DEF Mapped
  <1>7. NoTurnLost' /\ CoveredIsFiled'
    BY <1>2, <1>5, Quiet DEF Mapping
  <1>8. ProductsIn(products)' /\ ProductsIn(judgments)' /\ EntriesIn(entries)' /\ Filed'
    BY <1>2 DEF Mapping, Filed
  <1> QED
    BY <1>3, <1>4, <1>5, <1>7, <1>8, <1>6 DEF Mapping

LEMMA RecordMaps ==
    ASSUME MappingInv, NEW c \in Committers, recordMapped(c)
    PROVE  /\ Mapping' /\ Moves(c, ToSet(commit[c].batch))
           /\ Mapped \subseteq Mapped' /\ Mapped' \subseteq Mapped \cup {commit[c].fact}
           /\ IsFact(commit[c].fact)
           /\ ToSet(entries') = ToSet(entries) \cup {commit[c].fact}
  <1> DEFINE f == commit[c].fact
             r == IF c \in Inputs THEN Idle ELSE [commit[c] EXCEPT !.pc = "mapped"]
  <1>1. /\ commit[c].pc = "landed" /\ entries' = Append(entries, f)
        /\ UNCHANGED <<facts, products, judgments>>
    BY DEF recordMapped, fold
  <1>2. commit' = [commit EXCEPT ![c] = r]
    BY DEF recordMapped, Done, Observes, Commits, MappingInv, Mapping
  <1>3. Commits /\ CommitsOf(c)
    BY DEF MappingInv, Mapping, Commits
  <1>4. /\ r = [pc |-> r.pc, fact |-> r.fact, batch |-> r.batch]
        /\ r.pc \in {"idle", "mapped"} /\ ProductsIn(r.batch)
        /\ ToSet(r.batch) \subseteq ToSet(commit[c].batch)
    <2>1. commit[c] = [pc |-> commit[c].pc, fact |-> commit[c].fact, batch |-> commit[c].batch]
      BY <1>3 DEF Commits
    <2>2. CASE c \in Inputs
      BY <2>2, NoProducts, NoneSet DEF Idle
    <2>3. CASE c \notin Inputs
      <3>1. r = [pc |-> "mapped", fact |-> commit[c].fact, batch |-> commit[c].batch]
        BY <2>1, <2>3
      <3> HIDE DEF r
      <3> QED
        BY <1>3, <3>1 DEF CommitsOf
    <2> QED
      BY <2>2, <2>3
  <1> HIDE DEF r
  <1>5. Commits' /\ commit'[c] = r /\ \A d \in Committers \ {c} : commit'[d] = commit[d]
    BY <1>1, <1>2, <1>3, <1>4, CommitBecomes
  <1>6. IsFact(f)
    BY <1>1, <1>3 DEF CommitsOf
  <1>7. EntriesIn(entries)' /\ ToSet(entries') = ToSet(entries) \cup {f}
    BY <1>1, <1>6, AppendSet DEF MappingInv, Mapping, EntriesIn
  <1>8. Mapped' \subseteq Mapped \cup {f}
    <2> SUFFICES ASSUME NEW g \in Mapped', g # f PROVE g \in Mapped
      OBVIOUS
    <2>1. g \in ToSet(facts) /\ \A d \in Committers : commit'[d].pc = "landed" => g # commit'[d].fact
      BY <1>1 DEF Mapped
    <2>2. \A d \in Committers : commit[d].pc = "landed" => g # commit[d].fact
      BY <1>5, <2>1
    <2> QED
      BY <2>1, <2>2 DEF Mapped
  <1>9. Mapped \subseteq Mapped'
    <2> SUFFICES ASSUME NEW g \in Mapped PROVE g \in Mapped'
      OBVIOUS
    <2>1. g \in ToSet(facts) /\ \A d \in Committers : commit[d].pc = "landed" => g # commit[d].fact
      BY DEF Mapped
    <2>2. \A d \in Committers : commit'[d].pc = "landed" => g # commit'[d].fact
      BY <1>4, <1>5, <2>1
    <2> QED
      BY <1>1, <2>1, <2>2 DEF Mapped
  <1>10. NoTurnLost'
    <2> SUFFICES ASSUME NEW g \in Mapped', g.type # "thinking_plan" PROVE Told(g)' # {}
      BY DEF NoTurnLost
    <2>1. \E e \in ToSet(entries') : g \in Tells(e)
      <3>1. CASE g = f
        <4>1. f \in Tells(f)
          <5>1. f.type \notin {"history_summary", "segment_fold"}
            BY <1>6 DEF IsFact
          <5> QED
            BY <5>1 DEF Tells
        <4> QED
          BY <1>7, <3>1, <4>1
      <3>2. CASE g # f
        <4>1. Told(g) # {}
          BY <1>8, <3>2 DEF MappingInv, Mapping, NoTurnLost
        <4>2. \E e \in ToSet(entries) : g \in Tells(e)
          BY <4>1, ToldBy DEF MappingInv, Mapping
        <4> QED
          BY <1>7, <4>2
      <3> QED
        BY <3>1, <3>2
    <2> QED
      BY <2>1 DEF Told, ToSet
  <1>11. CoveredIsFiled'
    BY <1>1, <1>7, <1>8 DEF MappingInv, Mapping, CoveredIsFiled
  <1>12. FactsIn(facts)' /\ ProductsIn(products)' /\ ProductsIn(judgments)' /\ Filed'
    BY <1>1 DEF MappingInv, Mapping, Filed
  <1> QED
    BY <1>4, <1>5, <1>6, <1>7, <1>8, <1>10, <1>11, <1>12, <1>9 DEF Mapping, Moves

LEMMA OnlyProducts ==
    ASSUME NEW s, ProductsIn(s), NEW S
    PROVE  ProductsIn(Only(s, S)) /\ ToSet(Only(s, S)) \subseteq ToSet(s)
  BY KeptSet DEF ProductsIn

LEMMA ObserveJudges ==
    ASSUME MappingInv, NEW c \in Committers, ObserveCommit(c)
    PROVE  /\ Mapping' /\ Mapped' = Mapped /\ Moves(c, ToSet(commit[c].batch))
           /\ ToSet(judgments') \subseteq ToSet(judgments) \cup ToSet(planFold(entries))
  <1> DEFINE planned == planFold(entries)
             fresh == Only(planned, ToSet(planned) \ ToSet(judgments))
             r == IF planned = << >> THEN Idle ELSE [commit[c] EXCEPT !.pc = "judged"]
  <1>1. /\ commit[c].pc = "mapped" /\ judgments' = judgments \o fresh
        /\ UNCHANGED <<facts, products, entries>>
    BY DEF ObserveCommit, chain
  <1>2. commit' = [commit EXCEPT ![c] = r]
    BY DEF ObserveCommit, Done, Commits, MappingInv, Mapping
  <1>3. /\ r = [pc |-> r.pc, fact |-> r.fact, batch |-> r.batch]
        /\ r.pc \in {"idle", "judged"} /\ ProductsIn(r.batch)
        /\ ToSet(r.batch) \subseteq ToSet(commit[c].batch)
    <2>1. /\ commit[c] = [pc |-> commit[c].pc, fact |-> commit[c].fact, batch |-> commit[c].batch]
          /\ CommitsOf(c)
      BY DEF MappingInv, Mapping, Commits
    <2>2. CASE planned = << >>
      BY <2>2, NoProducts, NoneSet DEF Idle
    <2>3. CASE planned # << >>
      <3>1. r = [pc |-> "judged", fact |-> commit[c].fact, batch |-> commit[c].batch]
        BY <2>1, <2>3
      <3> HIDE DEF r
      <3> QED
        BY <2>1, <3>1 DEF CommitsOf
    <2> QED
      BY <2>2, <2>3
  <1> HIDE DEF r
  <1>4. /\ ProductsIn(judgments)'
        /\ ToSet(judgments') \subseteq ToSet(judgments) \cup ToSet(planned)
    <2>1. ProductsIn(planned)
      BY Planned DEF MappingInv, Mapping, EntriesIn
    <2> HIDE DEF planned
    <2>2. ProductsIn(fresh) /\ ToSet(fresh) \subseteq ToSet(planned)
      BY <2>1, OnlyProducts
    <2> HIDE DEF fresh
    <2> QED
      BY <1>1, <2>2, JoinSet DEF MappingInv, Mapping, ProductsIn
  <1>5. ProductsIn(products)' /\ Filed'
    BY <1>1 DEF MappingInv, Mapping, Filed
  <1> QED
    <2>1. /\ Mapping' /\ Mapped' = Mapped /\ commit'[c] = r
          /\ \A d \in Committers \ {c} : commit'[d] = commit[d]
      BY <1>1, <1>2, <1>3, <1>4, <1>5, Judges DEF MappingInv
    <2> QED
      BY <1>3, <1>4, <2>1 DEF Moves

LEMMA ExecuteTakes ==
    ASSUME MappingInv, NEW c \in Committers, Execute(c)
    PROVE  Mapping' /\ Mapped' = Mapped /\ Moves(c, ToSet(judgments))
  <1> DEFINE batch == Only(judgments, ToSet(planFold(entries)) \ ToSet(products))
             r == IF batch = << >> THEN Idle
                  ELSE [commit[c] EXCEPT !.pc = "planned", !.batch = batch]
  <1>1. /\ commit[c].pc = "judged" /\ UNCHANGED <<facts, products, judgments, entries>>
    BY DEF Execute, chain, fold
  <1>2. commit' = [commit EXCEPT ![c] = r]
    BY DEF Execute, Done, Commits, MappingInv, Mapping
  <1>3. ProductsIn(batch) /\ ToSet(batch) \subseteq ToSet(judgments)
    BY OnlyProducts DEF MappingInv, Mapping
  <1> HIDE DEF batch
  <1>4. /\ r = [pc |-> r.pc, fact |-> r.fact, batch |-> r.batch]
        /\ r.pc \in {"idle", "planned"} /\ ProductsIn(r.batch)
        /\ r.pc = "planned" => r.batch # << >>
        /\ ToSet(r.batch) \subseteq ToSet(judgments)
    <2>1. /\ commit[c] = [pc |-> commit[c].pc, fact |-> commit[c].fact, batch |-> commit[c].batch]
      BY DEF MappingInv, Mapping, Commits
    <2>2. CASE batch = << >>
      BY <2>2, NoProducts, NoneSet DEF Idle
    <2>3. CASE batch # << >>
      <3>1. r = [pc |-> "planned", fact |-> commit[c].fact, batch |-> batch]
        BY <2>1, <2>3
      <3> HIDE DEF r
      <3> QED
        BY <1>3, <2>3, <3>1
    <2> QED
      BY <2>2, <2>3
  <1> HIDE DEF r
  <1>5. ProductsIn(products)' /\ ProductsIn(judgments)' /\ Filed'
    BY <1>1 DEF MappingInv, Mapping, Filed
  <1> QED
    <2>1. /\ Mapping' /\ Mapped' = Mapped /\ commit'[c] = r
          /\ \A d \in Committers \ {c} : commit'[d] = commit[d]
      BY <1>1, <1>2, <1>4, <1>5, Judges DEF MappingInv
    <2> QED
      BY <1>4, <2>1 DEF Moves

LEMMA FileKeeps ==
    ASSUME MappingInv, NEW c \in Committers, FileCompressProduct(c)
    PROVE  /\ Mapping' /\ Mapped' = Mapped /\ Moves(c, ToSet(commit[c].batch))
           /\ ToSet(products') \subseteq ToSet(products) \cup ToSet(commit[c].batch)
  <1> DEFINE p == Head(commit[c].batch)
             r == [commit[c] EXCEPT !.pc = "filed"]
  <1>1. /\ commit[c].pc = "planned" /\ UNCHANGED <<facts, judgments, entries>>
        /\ products' = IF Contains(products, p) THEN products ELSE Append(products, p)
    BY DEF FileCompressProduct, chain
  <1>2. commit' = [commit EXCEPT ![c] = r]
    BY DEF FileCompressProduct, Commits, MappingInv, Mapping
  <1>3. /\ commit[c] = [pc |-> commit[c].pc, fact |-> commit[c].fact, batch |-> commit[c].batch]
        /\ CommitsOf(c)
    BY DEF MappingInv, Mapping, Commits
  <1>4. ProductsIn(commit[c].batch) /\ commit[c].batch # << >>
    BY <1>1, <1>3 DEF CommitsOf
  <1>5. WellMade(p) /\ p \in ToSet(commit[c].batch)
    BY <1>4, HeadAndTail DEF ProductsIn
  <1>6. r = [pc |-> "filed", fact |-> commit[c].fact, batch |-> commit[c].batch]
    BY <1>3
  <1>7. /\ Lists(products) /\ products \in Seq(ToSet(products)) /\ Len(products) \in Nat
        /\ Contains(products, p) <=> p \in ToSet(products)
        /\ \A x : x \in ToSet(products) <=> \E i \in 1 .. Len(products) : products[i] = x
    <2>1. Lists(products) /\ products \in Seq(ToSet(products))
      BY DEF MappingInv, Mapping, ProductsIn, Lists
    <2> QED
      BY <2>1, ListOf
  <1> HIDE DEF p, r
  <1>8. /\ ProductsIn(products)' /\ Filed'
        /\ p \in ToSet(products') /\ ToSet(products) \subseteq ToSet(products')
        /\ ToSet(products') \subseteq ToSet(products) \cup {p}
    <2>1. CASE p \in ToSet(products)
      <3>1. products' = products
        BY <1>1, <1>7, <2>1
      <3> QED
        BY <2>1, <3>1 DEF MappingInv, Mapping, Filed
    <2>2. CASE p \notin ToSet(products)
      <3>1. products' = Append(products, p)
        BY <1>1, <1>7, <2>2
      <3>2. Lists(products') /\ ToSet(products') = ToSet(products) \cup {p}
        BY <1>7, <3>1, AppendSet
      <3>3. ProductsIn(products)'
        BY <1>5, <3>2 DEF MappingInv, Mapping, ProductsIn
      <3>4. /\ Len(products') = Len(products) + 1 /\ products'[Len(products) + 1] = p
            /\ \A i \in 1 .. Len(products) : products'[i] = products[i] /\ products[i] # p
        BY <1>7, <2>2, <3>1
      <3>5. \A i \in 1 .. Len(products') : i = Len(products) + 1 \/ i \in 1 .. Len(products)
        BY <1>7, <3>4
      <3>6. Filed'
        BY <3>4, <3>5 DEF MappingInv, Mapping, Filed
      <3> QED
        BY <3>2, <3>3, <3>6
    <2> QED
      BY <2>1, <2>2
  <1>9. /\ r = [pc |-> r.pc, fact |-> r.fact, batch |-> r.batch]
        /\ r.pc = "filed" /\ r.batch = commit[c].batch
    BY <1>6
  <1>10. Head(r.batch) \in ToSet(products')
    BY <1>8, <1>9 DEF p
  <1>11. ProductsIn(judgments)'
    BY <1>1 DEF MappingInv, Mapping
  <1> QED
    <2>1. /\ Mapping' /\ Mapped' = Mapped /\ commit'[c] = r
          /\ \A d \in Committers \ {c} : commit'[d] = commit[d]
      BY <1>1, <1>2, <1>4, <1>8, <1>9, <1>10, <1>11, Judges DEF MappingInv
    <2> QED
      BY <1>5, <1>8, <1>9, <2>1 DEF Moves

LEMMA ApplyPlaces ==
    ASSUME MappingInv, NEW c \in Committers, ApplyProducts(c)
    PROVE  /\ Mapping' /\ Mapped' = Mapped /\ Moves(c, ToSet(commit[c].batch))
           /\ Head(commit[c].batch) \in ToSet(products)
  <1> DEFINE p == Head(commit[c].batch)
             rest == Tail(commit[c].batch)
             covered == ToSet(p.covered)
             r == IF rest = << >> THEN Idle
                  ELSE [commit[c] EXCEPT !.pc = "planned", !.batch = rest]
  <1>1. /\ commit[c].pc = "filed" /\ UNCHANGED <<facts, products, judgments>>
        /\ entries' = applyFoldProduct(entries, p)
    BY DEF ApplyProducts, fold
  <1>2. commit' = [commit EXCEPT ![c] = r]
    BY DEF ApplyProducts, Done, Commits, MappingInv, Mapping
  <1>3. /\ commit[c] = [pc |-> commit[c].pc, fact |-> commit[c].fact, batch |-> commit[c].batch]
        /\ CommitsOf(c)
    BY DEF MappingInv, Mapping, Commits
  <1>4. ProductsIn(commit[c].batch) /\ commit[c].batch # << >> /\ p \in ToSet(products)
    BY <1>1, <1>3 DEF CommitsOf
  <1>5. WellMade(p) /\ ProductsIn(rest) /\ ToSet(rest) \subseteq ToSet(commit[c].batch)
    BY <1>4, HeadAndTail DEF ProductsIn
  <1> HIDE DEF rest
  <1>6. /\ r = [pc |-> r.pc, fact |-> r.fact, batch |-> r.batch]
        /\ r.pc \in {"idle", "planned"} /\ ProductsIn(r.batch)
        /\ r.pc = "planned" => r.batch # << >>
        /\ ToSet(r.batch) \subseteq ToSet(commit[c].batch)
    <2>2. CASE rest = << >>
      BY <2>2, NoProducts, NoneSet DEF Idle
    <2>3. CASE rest # << >>
      <3>1. r = [pc |-> "planned", fact |-> commit[c].fact, batch |-> rest]
        BY <1>3, <2>3
      <3> HIDE DEF r
      <3> QED
        BY <1>5, <2>3, <3>1
    <2> QED
      BY <2>2, <2>3
  <1> HIDE DEF r
  <1>7. Commits' /\ commit'[c] = r /\ \A d \in Committers \ {c} : commit'[d] = commit[d]
    BY <1>1, <1>2, <1>6, CommitBecomes DEF MappingInv, Mapping
  <1>8. Mapped' = Mapped
    BY <1>1, <1>6, <1>7, MappedSame
  <1>9. /\ EntriesIn(entries)'
        /\ \A f : f.type # "thinking_plan" /\ (\E e \in ToSet(entries) : f \in Tells(e))
                  => \E e \in ToSet(entries') : f \in Tells(e)
    BY <1>1, <1>5, AppliedTells DEF MappingInv, Mapping
  <1>10. ToSet(entries) \ covered \subseteq ToSet(entries')
    BY <1>1, Applied DEF MappingInv, Mapping, EntriesIn
  <1> HIDE DEF covered
  <1>11. NoTurnLost'
    <2> SUFFICES ASSUME NEW g \in Mapped', g.type # "thinking_plan" PROVE Told(g)' # {}
      BY DEF NoTurnLost
    <2>1. Told(g) # {}
      BY <1>8 DEF MappingInv, Mapping, NoTurnLost
    <2>2. \E e \in ToSet(entries) : g \in Tells(e)
      BY <2>1, ToldBy DEF MappingInv, Mapping
    <2>3. \E e \in ToSet(entries') : g \in Tells(e)
      BY <1>9, <2>2
    <2> QED
      BY <2>3 DEF Told, ToSet
  <1>12. CoveredIsFiled'
    BY <1>1, <1>4, <1>8, <1>10 DEF MappingInv, Mapping, CoveredIsFiled, covered
  <1>13. FactsIn(facts)' /\ ProductsIn(products)' /\ ProductsIn(judgments)' /\ Filed'
    BY <1>1 DEF MappingInv, Mapping, Filed
  <1> QED
    BY <1>4, <1>6, <1>7, <1>8, <1>9, <1>11, <1>12, <1>13 DEF Mapping, Moves

\* A commit that is observed moves the consumer's commit only when it is not idle.
LEMMA CommitStep ==
    ASSUME MappingInv, NEW c \in Committers,
           recordMapped(c) \/ ObserveCommit(c) \/ Execute(c)
           \/ FileCompressProduct(c) \/ ApplyProducts(c)
    PROVE  MappingInv'
  <1>1. Mapping' /\ \A d \in Committers \ {c} : commit'[d] = commit[d]
    BY RecordMaps, ObserveJudges, ExecuteTakes, FileKeeps, ApplyPlaces DEF Moves
  <1>2. commit[c].pc # "idle" /\ loop' = loop
    BY DEF recordMapped, ObserveCommit, Execute, FileCompressProduct, ApplyProducts
  <1>3. Deciding'
    <2>1. loop.pc \in {"fixed", "asked"} => Loop # c
      BY <1>2 DEF MappingInv, Deciding
    <2>2. loop.pc \in {"fixed", "asked"} => commit'[Loop] = commit[Loop]
      BY <1>1, <2>1, LoopCommits
    <2> QED
      BY <1>2, <2>2 DEF MappingInv, Deciding
  <1> QED
    BY <1>1, <1>3 DEF MappingInv

LEMMA LandStep ==
    ASSUME MappingInv, NEW c \in Committers \ {Loop}, commit[c].pc = "idle", NEW f, IsFact(f),
           Land(c, f), UNCHANGED <<fold, chain, loop, crashes>>
    PROVE  MappingInv'
  <1>1. Mapping' /\ commit'[Loop] = commit[Loop] /\ loop' = loop
    BY Lands, LoopCommits DEF MappingInv
  <1> QED
    BY <1>1 DEF MappingInv, Deciding

\* What the consumer pulls is mapped by others: its own commit has nothing landed.
LEMMA PullObserves ==
    ASSUME MappingInv, commit[Loop].pc = "idle", Observes(Loop),
           UNCHANGED <<facts, fold, chain, crashes>>
    PROVE  Mapping'
  <1> DEFINE r == [commit[Loop] EXCEPT !.pc = "mapped"]
  <1>1. commit' = [commit EXCEPT ![Loop] = r]
    BY LoopCommits DEF Observes, MappingInv, Mapping, Commits
  <1>2. UNCHANGED <<facts, products, judgments, entries>>
    BY DEF fold, chain
  <1>3. /\ commit[Loop] = [pc |-> commit[Loop].pc, fact |-> commit[Loop].fact,
                           batch |-> commit[Loop].batch]
        /\ CommitsOf(Loop)
    BY LoopCommits DEF MappingInv, Mapping, Commits
  <1>4. r = [pc |-> "mapped", fact |-> commit[Loop].fact, batch |-> commit[Loop].batch]
    BY <1>3
  <1> HIDE DEF r
  <1>5. /\ r = [pc |-> r.pc, fact |-> r.fact, batch |-> r.batch]
        /\ r.pc = "mapped" /\ ProductsIn(r.batch)
    BY <1>3, <1>4 DEF CommitsOf
  <1>6. ProductsIn(products)' /\ ProductsIn(judgments)' /\ Filed'
    BY <1>2 DEF MappingInv, Mapping, Filed
  <1> QED
    BY <1>1, <1>2, <1>5, <1>6, LoopCommits, Judges DEF MappingInv

LEMMA MappingStays ==
    ASSUME Mapping, UNCHANGED <<facts, fold, chain, commit>>
    PROVE  Mapping'
  <1>1. UNCHANGED <<facts, products, judgments, entries, commit>>
    BY DEF fold, chain
  <1>2. Commits'
    <2>1. \A c \in Committers : CommitsOf(c)'
      <3> SUFFICES ASSUME NEW c \in Committers PROVE CommitsOf(c)'
        OBVIOUS
      <3>1. CommitsOf(c)
        BY DEF Mapping, Commits
      <3> QED
        BY <1>1, <3>1 DEF CommitsOf
    <2> QED
      BY <1>1, <2>1 DEF Mapping, Commits
  <1>3. NoTurnLost' /\ CoveredIsFiled'
    <2>1. Mapped' = Mapped
      BY <1>1 DEF Mapped
    <2> QED
      BY <1>1, <2>1, Quiet DEF Mapping
  <1> QED
    BY <1>1, <1>2, <1>3 DEF Mapping, Filed

LEMMA PullsInto ==
    ASSUME Deciding, NEW step, Pulled(step)
    PROVE  /\ loop' = [pc |-> loop'.pc, read |-> loop'.read, seg |-> loop'.seg,
                       position |-> loop'.position, request |-> loop'.request, calls |-> loop'.calls]
           /\ loop'.seg = [consumed |-> loop'.seg.consumed, transcript |-> loop'.seg.transcript]
           /\ loop'.pc = step /\ loop'.read = loop.read \cup Driving
           /\ loop'.seg.consumed = loop.seg.consumed \cup Driving
           /\ loop'.seg.transcript = loop.seg.transcript \cup (Driving \ SessionPresented)
  <1> DEFINE presented == SessionPresented
             driving == Driving
  <1>1. PICK a, b, c, t, d, e, g :
           loop = [pc |-> a, read |-> b, seg |-> [consumed |-> c, transcript |-> t],
                   position |-> d, request |-> e, calls |-> g]
    BY DEF Deciding
  <1>2. loop' = [loop EXCEPT !.pc = step, !.read = @ \cup driving,
                             !.seg.consumed = @ \cup driving,
                             !.seg.transcript = @ \cup (driving \ presented)]
    BY DEF Pulled
  <1> HIDE DEF presented, driving
  <1>3. loop' = [pc |-> step, read |-> b \cup driving,
                 seg |-> [consumed |-> c \cup driving, transcript |-> t \cup (driving \ presented)],
                 position |-> d, request |-> e, calls |-> g]
    BY <1>1, <1>2
  <1> QED
    BY <1>1, <1>3 DEF presented, driving

LEMMA PullStep ==
    ASSUME MappingInv, openSegment \/ pullDriving
    PROVE  MappingInv'
  <1>1. /\ commit[Loop].pc = "idle" /\ UNCHANGED <<facts, fold, chain, crashes>>
        /\ Observes(Loop) \/ UNCHANGED commit
        /\ Pulled("open") \/ Pulled("pulled")
    BY DEF openSegment, pullDriving
  <1>2. Mapping'
    BY <1>1, PullObserves, MappingStays DEF MappingInv
  <1>3. /\ loop' = [pc |-> loop'.pc, read |-> loop'.read, seg |-> loop'.seg,
                    position |-> loop'.position, request |-> loop'.request, calls |-> loop'.calls]
        /\ loop'.seg = [consumed |-> loop'.seg.consumed, transcript |-> loop'.seg.transcript]
        /\ loop'.pc \in {"open", "pulled"}
    BY <1>1, PullsInto DEF MappingInv
  <1> QED
    BY <1>2, <1>3 DEF MappingInv, Deciding

LEMMA RequestStep ==
    ASSUME MappingInv, requestBoundary \/ AssembleBudgetPrefix
    PROVE  MappingInv'
  <1>1. /\ commit[Loop].pc = "idle" /\ UNCHANGED <<facts, fold, chain, commit, crashes>>
    BY DEF requestBoundary, AssembleBudgetPrefix, MappingInv, Deciding
  <1>2. Mapping'
    BY <1>1, MappingStays DEF MappingInv
  <1>3. /\ loop' = [pc |-> loop'.pc, read |-> loop'.read, seg |-> loop'.seg,
                    position |-> loop'.position, request |-> loop'.request, calls |-> loop'.calls]
        /\ loop'.seg = [consumed |-> loop'.seg.consumed, transcript |-> loop'.seg.transcript]
    BY DEF requestBoundary, AssembleBudgetPrefix, MappingInv, Deciding
  <1> QED
    BY <1>1, <1>2, <1>3 DEF MappingInv, Deciding

LEMMA CloseStep ==
    ASSUME MappingInv, commitCalls \/ closeSegment \/ closeFailed
    PROVE  MappingInv'
  <1>1. loop.pc = "asked" /\ commit[Loop].pc = "idle"
    BY DEF commitCalls, closeSegment, closeFailed, MappingInv, Deciding
  <1>2. Mapping'
    <2>1. CASE commitCalls
      <3> DEFINE f == Fact("thinking_plan", loop.calls, {})
      <3>1. IsFact(f)
        BY DEF Fact, IsFact
      <3>2. Land(Loop, f) /\ UNCHANGED <<fold, chain>>
        BY <2>1 DEF commitCalls
      <3> HIDE DEF f
      <3> QED
        BY <1>1, <3>1, <3>2, Lands, LoopCommits DEF MappingInv
    <2>2. CASE closeSegment
      <3> DEFINE f == Fact("agent_output", NoFact, loop.seg.consumed)
      <3>1. IsFact(f)
        BY DEF Fact, IsFact
      <3>2. Land(Loop, f) /\ UNCHANGED <<fold, chain>>
        BY <2>2 DEF closeSegment
      <3> HIDE DEF f
      <3> QED
        BY <1>1, <3>1, <3>2, Lands, LoopCommits DEF MappingInv
    <2>3. CASE closeFailed
      BY <2>3, MappingStays DEF MappingInv, closeFailed
    <2> QED
      BY <2>1, <2>2, <2>3
  <1>3. /\ loop' = [pc |-> loop'.pc, read |-> loop'.read, seg |-> loop'.seg,
                    position |-> loop'.position, request |-> loop'.request, calls |-> loop'.calls]
        /\ loop'.seg = [consumed |-> loop'.seg.consumed, transcript |-> loop'.seg.transcript]
        /\ loop'.pc \in {"open", "rest"}
    BY DEF commitCalls, closeSegment, closeFailed, AtRest, NoSegment, MappingInv, Deciding
  <1> QED
    BY <1>2, <1>3 DEF MappingInv, Deciding

LEMMA RestartPlaces ==
    ASSUME MappingInv, Restart
    PROVE  /\ MappingInv' /\ Mapped' = ToSet(facts)
           /\ PlacedTo(entries', Len(products)) /\ ProductsIn(products)
  <1>1. UNCHANGED <<facts, products>> /\ judgments' = << >> /\ entries' = RestoreProducts(facts, products)
    BY DEF Restart
  <1>2. PlacedTo(entries', Len(products))
    BY <1>1, Replaced DEF MappingInv, Mapping
  <1>3. commit' = [c \in Committers |-> Idle]
    BY DEF Restart
  <1>4. Commits'
    <2>1. \A c \in Committers : commit'[c] = Idle
      BY <1>3
    <2>2. \A c \in Committers : CommitsOf(c)'
      BY <2>1, NoProducts DEF CommitsOf, Idle
    <2>3. commit' = [c \in Committers |-> [pc |-> commit'[c].pc, fact |-> commit'[c].fact,
                                           batch |-> commit'[c].batch]]
      BY <1>3 DEF Idle
    <2> QED
      BY <2>2, <2>3 DEF Commits
  <1>5. Mapped' = ToSet(facts)
    <2>1. \A c \in Committers : commit'[c].pc # "landed"
      BY <1>3 DEF Idle
    <2> QED
      BY <1>1, <2>1 DEF Mapped
  <1>6. NoTurnLost'
    <2> SUFFICES ASSUME NEW g \in Mapped', g.type # "thinking_plan" PROVE Told(g)' # {}
      BY DEF NoTurnLost
    <2>1. \E e \in ToSet(entries') : g \in Tells(e)
      BY <1>2, <1>5 DEF PlacedTo
    <2> QED
      BY <2>1 DEF Told, ToSet
  <1>7. CoveredIsFiled'
    <2> SUFFICES ASSUME NEW f \in Mapped', f \notin ToSet(entries')
                 PROVE  \E p \in ToSet(products') : f \in ToSet(p.covered)
      BY DEF CoveredIsFiled
    <2>1. PICK i \in 1 .. Len(products) : f \in ToSet(products[i].covered)
      BY <1>2, <1>5 DEF PlacedTo
    <2>2. products[i] \in ToSet(products)
      BY ListOf DEF MappingInv, Mapping, ProductsIn, Lists
    <2> QED
      BY <1>1, <2>1, <2>2
  <1>8. /\ FactsIn(facts)' /\ ProductsIn(products)' /\ ProductsIn(judgments)' /\ Filed'
        /\ EntriesIn(entries)'
    BY <1>1, <1>2, NoProducts DEF MappingInv, Mapping, Filed, PlacedTo
  <1>9. Deciding'
    BY DEF Restart, AtRest, NoSegment, Deciding
  <1> QED
    BY <1>2, <1>4, <1>5, <1>6, <1>7, <1>8, <1>9 DEF MappingInv, Mapping

\* The chain the first process opens on: each past input, and the answer to it.
PastTurn(turns, k) ==
    LET input == External(turns[(k + 1) \div 2]) IN
    IF k % 2 = 1 THEN input ELSE Fact("agent_output", NoFact, {input})

LEMMA PastTurns ==
    \E n \in Nat : \E turns \in [1 .. n -> Past] :
       PastFacts = [k \in 1 .. 2 * n |-> PastTurn(turns, k)]
  <1> DEFINE turns == SetToSeq(Past)
             n == Cardinality(Past)
  <1>1. n \in Nat /\ ExistsBijection(1 .. n, Past)
    BY MappedChainAssumption, FS_CardinalityType
  <1>2. \E f \in [1 .. n -> Past] : IsInjective(f)
    BY <1>1 DEF ExistsBijection, Bijection, Injection, IsInjective
  <1>3. turns \in [1 .. n -> Past]
    BY <1>2 DEF SetToSeq
  <1>4. Len(turns) = n
    BY <1>1, <1>3
  <1>5. PastFacts = [k \in 1 .. 2 * n |-> PastTurn(turns, k)]
    BY <1>4 DEF PastFacts, PastTurn
  <1> HIDE DEF n, turns
  <1> QED
    BY <1>1, <1>3, <1>5

LEMMA PastIsChained == FactsIn(PastFacts)
  <1>0. PICK n \in Nat : \E turns \in [1 .. n -> Past] :
           PastFacts = [k \in 1 .. 2 * n |-> PastTurn(turns, k)]
    BY PastTurns
  <1>1. PICK turns \in [1 .. n -> Past] : PastFacts = [k \in 1 .. 2 * n |-> PastTurn(turns, k)]
    BY <1>0
  <1>2. \A k : IsFact(PastTurn(turns, k))
    BY DEF IsFact, Fact, External, PastTurn
  <1> DEFINE X == {PastTurn(turns, k) : k \in 1 .. 2 * n}
             m == 2 * n
  <1>3. m \in Nat /\ PastFacts \in [1 .. m -> X]
    BY <1>1
  <1>4. \A f \in X : IsFact(f)
    BY <1>2
  <1> HIDE DEF m, X
  <1>5. PastFacts \in Seq(X)
    BY <1>3
  <1> QED
    BY <1>4, <1>5, ListOf DEF FactsIn

LEMMA MappingInit == ChainInit => MappingInv
  <1> SUFFICES ASSUME ChainInit PROVE MappingInv
    OBVIOUS
  <1>1. FactsIn(facts) /\ entries = facts /\ products = << >> /\ judgments = << >>
    BY PastIsChained DEF ChainInit
  <1>2. EntriesIn(entries)
    BY <1>1 DEF FactsIn, EntriesIn
  <1>3. Commits
    <2>1. commit = [c \in Committers |-> Idle]
      BY DEF ChainInit
    <2>2. \A c \in Committers : commit[c] = Idle
      BY <2>1
    <2>3. \A c \in Committers : CommitsOf(c)
      BY <2>2, NoProducts DEF CommitsOf, Idle
    <2>4. commit = [c \in Committers |-> [pc |-> commit[c].pc, fact |-> commit[c].fact,
                                          batch |-> commit[c].batch]]
      BY <2>1 DEF Idle
    <2> QED
      BY <2>3, <2>4 DEF Commits
  <1>4. Mapped \subseteq ToSet(entries)
    BY <1>1 DEF Mapped
  <1>5. NoTurnLost
    <2> SUFFICES ASSUME NEW f \in Mapped PROVE Told(f) # {}
      BY DEF NoTurnLost
    <2>1. f \in ToSet(entries) /\ f \in Tells(f)
      <3>1. f.type \notin {"history_summary", "segment_fold"}
        BY <1>1, <1>4 DEF FactsIn, IsFact
      <3> QED
        BY <1>4, <3>1 DEF Tells
    <2> QED
      BY <2>1 DEF Told, ToSet
  <1>6. CoveredIsFiled
    BY <1>4 DEF CoveredIsFiled
  <1>7. ProductsIn(products) /\ ProductsIn(judgments) /\ Filed
    <2>1. Filed
      BY <1>1 DEF Filed
    <2> QED
      BY <1>1, <2>1, NoProducts
  <1>8. Deciding
    BY DEF ChainInit, AtRest, NoSegment, Deciding
  <1> QED
    BY <1>1, <1>2, <1>3, <1>5, <1>6, <1>7, <1>8 DEF MappingInv, Mapping

LEMMA MappingStep == MappingInv /\ [ChainNext]_chainVars => MappingInv'
  <1> SUFFICES ASSUME MappingInv, [ChainNext]_chainVars PROVE MappingInv'
    OBVIOUS
  <1>1. ASSUME NEW i \in Inputs, InputLands(i) PROVE MappingInv'
    <2>1. IsFact(External(i))
      BY DEF External, Fact, IsFact
    <2>2. i \in Committers \ {Loop}
      BY MappedChainAssumption DEF Committers
    <2> QED
      BY <1>1, <2>1, <2>2, LandStep DEF InputLands
  <1>2. ASSUME NEW n \in Notices, NoticeLands(n) PROVE MappingInv'
    <2>1. IsFact(Feedback(n))
      BY DEF Feedback, Fact, IsFact
    <2>2. n \in Committers \ {Loop}
      BY MappedChainAssumption DEF Committers
    <2> QED
      BY <1>2, <2>1, <2>2, LandStep DEF NoticeLands
  <1>3. CASE Restart
    BY <1>3, RestartPlaces
  <1>4. CASE UNCHANGED chainVars
    <2>1. Mapping'
      BY <1>4, MappingStays DEF MappingInv, chainVars, fold, chain
    <2>2. loop' = loop /\ commit' = commit
      BY <1>4 DEF chainVars
    <2> QED
      BY <2>1, <2>2 DEF MappingInv, Deciding
  <1> QED
    BY <1>1, <1>2, <1>3, <1>4, CommitStep, PullStep, RequestStep, CloseStep DEF ChainNext

-----------------------------------------------------------------------------
(* What a request relies on.                                               *)

Outputs == {o \in ToSet(facts) : o.type = "agent_output"}
Named == UNION {o.inputs : o \in Outputs}

\* An output answers inputs that stood before it, and what the segment in flight
\* consumes no output has answered.
Naming ==
    /\ \A o \in Outputs : o.inputs # {}
    /\ Named \subseteq loop.read
    /\ \A f \in Named : startsRange(f) /\ \E i, k \in 1 .. Len(facts) :
          i <= k /\ facts[i] = f /\ facts[k].type = "agent_output"
    /\ loop.seg.consumed \subseteq {f \in ToSet(facts) : startsRange(f)} \cap loop.read
    /\ loop.seg.consumed \cap Named = {}
    /\ loop.pc = "rest" <=> loop.seg.consumed = {}

\* Who lands what.
Landing ==
    \A c \in Committers : commit[c].pc = "landed" =>
        /\ commit[c].fact \in ToSet(facts)
        /\ IF c = Loop THEN commit[c].fact.type \in {"thinking_plan", "agent_output"}
           ELSE commit[c].fact \in {External(c), Feedback(c)}

\* What is or may become an entry tells what is mapped, a summary tells some answer,
\* and no product covers an input that no output has answered.
Telling(e) ==
    /\ \A x \in Tells(e) : x.type # "thinking_plan" => x \in Mapped
    /\ e.type = "history_summary" => \E o \in Tells(e) : o.type = "agent_output"
    /\ ~ IsFact(e) => \A x \in ToSet(e.covered) : x.type = "external_input" => x \in Named
Sources == ToSet(entries) \cup ToSet(products) \cup ToSet(judgments)
           \cup UNION {ToSet(commit[c].batch) : c \in Committers}
TellingAll == \A e \in Sources : Telling(e)

\* The places of the ended prefix.
Ended(s, b, j) ==
    /\ j \in 1 .. Len(s)
    /\ b = NoFact \/ \A i \in 1 .. Len(s) :
          s[i] = b => IF b.type = "agent_output" THEN j <= i ELSE j < i

\* The ended prefix tells every answer, and an input the segment does not carry.
EndedTells ==
    /\ boundary = NoFact \/ IsFact(boundary)
    /\ \A o \in Mapped : o.type = "agent_output" =>
          \E j \in 1 .. Len(entries) : Ended(entries, boundary, j) /\ o \in Tells(entries[j])
    /\ \A f \in loop.seg.consumed \ loop.seg.transcript : f.type = "external_input" =>
          \E j \in 1 .. Len(entries) : Ended(entries, boundary, j) /\ entries[j] = f

\* While the request holds its position: the entries up to an input it presents are of
\* no more than position sources, W of what turns told and d of process detail.
Detail(e) == e.type \in {"thinking_plan", "segment_fold"}
DetailTo(j) == {k \in 1 .. j : Detail(entries[k])}
Reaches(f, W, d, j) ==
    /\ IsFiniteSet(W) /\ d \in Nat /\ Cardinality(W) + d <= loop.position
    /\ \A w \in W : \A x \in w : x \in Mapped /\ x.type # "thinking_plan"
    /\ \A w \in W : \E e \in ToSet(entries) : w \subseteq Tells(e)
    /\ \A o \in Mapped : o.type = "agent_output" => o \in UNION W
    /\ j \in 1 .. Len(entries) /\ entries[j] = f
    /\ Cardinality(DetailTo(j)) <= d
    /\ \A k \in 1 .. j : Detail(entries[k]) \/ Tells(entries[k]) \cap UNION W # {}
Reaching ==
    loop.pc = "fixed" =>
        /\ loop.position \in Nat
        /\ \A f \in loop.seg.consumed \ loop.seg.transcript : f.type = "external_input" =>
              \E W, d, j : Reaches(f, W, d, j)

Reading == Naming /\ Landing /\ TellingAll /\ EndedTells /\ Reaching

-----------------------------------------------------------------------------
(* The ended prefix, and the last answer of the chain.                     *)

LEMMA EndedIs ==
    ASSUME EntriesIn(entries)
    PROVE  /\ endedPrefix \in 0 .. Len(entries) /\ Len(entries) \in Nat
           /\ \A j \in 1 .. Len(entries) : j <= endedPrefix <=> Ended(entries, boundary, j)
  <1> DEFINE n == Len(entries)
             I == {i \in 1 .. n : entries[i] = boundary}
             at == SelectInSeq(entries, LAMBDA e : e = boundary)
  <1>1. n \in Nat
    BY ListOf DEF EntriesIn, Lists
  <1>2. at = IF I # {} THEN Min(I) ELSE 0
    BY DEF SelectInSeq
  <1>3. I # {} => Min(I) \in I /\ \A i \in I : Min(I) <= i
    <2> HIDE DEF I
    <2>1. I \subseteq 1 .. n
      BY DEF I
    <2> QED
      BY <1>1, <2>1, LeastPlace
  <1>4. endedPrefix = IF boundary = NoFact \/ at = 0 THEN n
                      ELSE IF boundary.type = "agent_output" THEN at ELSE at - 1
    BY DEF endedPrefix
  <1> HIDE DEF at, n
  <1>5. CASE boundary = NoFact
    BY <1>1, <1>4, <1>5 DEF Ended, n
  <1>6. CASE boundary # NoFact /\ I = {}
    <2>1. endedPrefix = n
      BY <1>2, <1>4, <1>6
    <2> QED
      BY <1>1, <1>6, <2>1 DEF Ended, n
  <1>7. CASE boundary # NoFact /\ I # {}
    <2> DEFINE m == Min(I)
    <2>1. /\ m \in 1 .. n /\ entries[m] = boundary
          /\ \A i \in 1 .. n : entries[i] = boundary => m <= i
      BY <1>3, <1>7
    <2>2. at = m /\ at # 0
      BY <1>1, <1>2, <1>7, <2>1
    <2> HIDE DEF m, I
    <2>3. endedPrefix = IF boundary.type = "agent_output" THEN m ELSE m - 1
      BY <1>4, <1>7, <2>2
    <2>4. CASE boundary.type = "agent_output"
      <3>1. ASSUME NEW j \in 1 .. n PROVE j <= m <=> Ended(entries, boundary, j)
        <4>1. Ended(entries, boundary, j) <=> \A i \in 1 .. n : entries[i] = boundary => j <= i
          BY <1>7, <2>4 DEF Ended, n
        <4>2. ASSUME j <= m, NEW i \in 1 .. n, entries[i] = boundary PROVE j <= i
          BY <1>1, <2>1, <4>2
        <4> QED
          BY <2>1, <4>1, <4>2
      <3> QED
        BY <1>1, <2>1, <2>3, <2>4, <3>1 DEF n
    <2>5. CASE boundary.type # "agent_output"
      <3>1. ASSUME NEW j \in 1 .. n PROVE j <= m - 1 <=> Ended(entries, boundary, j)
        <4>1. Ended(entries, boundary, j) <=> \A i \in 1 .. n : entries[i] = boundary => j < i
          BY <1>7, <2>5 DEF Ended, n
        <4>2. ASSUME j <= m - 1, NEW i \in 1 .. n, entries[i] = boundary PROVE j < i
          BY <1>1, <2>1, <4>2
        <4>3. j < m => j <= m - 1
          BY <1>1, <2>1
        <4> QED
          BY <2>1, <4>1, <4>2, <4>3
      <3> QED
        BY <1>1, <2>1, <2>3, <2>5, <3>1 DEF n
    <2> QED
      BY <2>4, <2>5
  <1> QED
    BY <1>5, <1>6, <1>7

\* What stands before some answer of the chain stands before the last one.
LEMMA LastAnswer ==
    ASSUME FactsIn(facts), NEW i \in 1 .. Len(facts), NEW k \in 1 .. Len(facts), i <= k,
           facts[k].type = "agent_output"
    PROVE  facts[i] \in ToSet(SubSeq(facts, 1, lastAnswerIndex(facts)))
  <1> DEFINE n == Len(facts)
             I == {j \in 1 .. n : facts[j].type = "agent_output"}
             J == {n - j + 1 : j \in I}
             m == n - Min(J) + 1
  <1>1. n \in Nat /\ facts \in Seq(ToSet(facts))
    BY ListOf DEF FactsIn, Lists
  <1>2. lastAnswerIndex(facts) = IF I # {} THEN Max(I) ELSE 0
    BY DEF lastAnswerIndex, SelectLastInSeq
  <1>3. k \in I /\ I \subseteq 1 .. n
    OBVIOUS
  <1> HIDE DEF I, n
  <1>4. J \subseteq 1 .. n /\ J # {}
    BY <1>1, <1>3
  <1>5. \A j \in I : n - j + 1 \in J
    OBVIOUS
  <1>6. \A q \in J : n - q + 1 \in I
    BY <1>1, <1>3
  <1> HIDE DEF J
  <1>7. Min(J) \in J /\ \A q \in J : Min(J) <= q
    BY <1>1, <1>4, LeastPlace
  <1>8. m \in I /\ m \in 1 .. n
    BY <1>3, <1>6, <1>7
  <1>9. \A j \in I : j <= m
    <2> SUFFICES ASSUME NEW j \in I PROVE j <= m
      OBVIOUS
    <2> DEFINE q == Min(J)
    <2>1. q <= n - j + 1 /\ q \in 1 .. n /\ j \in 1 .. n
      BY <1>3, <1>4, <1>5, <1>7
    <2> HIDE DEF q
    <2>2. j <= n - q + 1
      BY <1>1, <2>1
    <2> QED
      BY <2>2 DEF q
  <1> HIDE DEF m
  <1>10. Max(I) \in I /\ \A j \in I : Max(I) >= j
    <2>1. \A j \in I : m >= j
      BY <1>1, <1>3, <1>8, <1>9
    <2> QED
      BY <1>8, <2>1 DEF Max
  <1> DEFINE last == lastAnswerIndex(facts)
  <1>11. last = Max(I)
    BY <1>2, <1>3
  <1>12. last \in 1 .. n /\ last >= k
    BY <1>3, <1>10, <1>11
  <1> HIDE DEF last
  <1> DEFINE before == SubSeq(facts, 1, last)
  <1>13. /\ before \in Seq(ToSet(facts)) /\ Len(before) = last /\ i \in 1 .. last
         /\ \A j \in 1 .. last : before[j] = facts[j]
    <2>1. i \in 1 .. last
      BY <1>1, <1>12 DEF n
    <2>2. last <= Len(facts) /\ last \in Nat
      BY <1>1, <1>12 DEF n
    <2> QED
      BY <1>1, <2>1, <2>2
  <1> HIDE DEF before
  <1>14. before[i] \in ToSet(before) /\ before[i] = facts[i]
    <2> DEFINE X == ToSet(facts)
    <2> HIDE DEF X
    <2>1. before \in Seq(X) /\ i \in 1 .. Len(before)
      BY <1>13 DEF X
    <2> QED
      BY <1>13, <2>1, ListOf
  <1> QED
    BY <1>14 DEF before, last

-----------------------------------------------------------------------------
(* What answers name.                                                      *)

LEMMA NamingStays ==
    ASSUME Naming, facts' = facts, Named \subseteq loop'.read,
           loop'.seg.consumed \subseteq {f \in ToSet(facts) : startsRange(f)} \cap loop'.read,
           loop'.seg.consumed \cap Named = {},
           loop'.pc = "rest" <=> loop'.seg.consumed = {}
    PROVE  Naming' /\ Named' = Named
  <1>1. Outputs' = Outputs /\ Named' = Named
    BY DEF Named, Outputs
  <1> QED
    BY <1>1 DEF Naming

\* The chain with one fact more.
LEMMA Longer ==
    ASSUME FactsIn(facts), NEW f, facts' = Append(facts, f)
    PROVE  /\ Len(facts) \in Nat /\ Len(facts') = Len(facts) + 1
           /\ \A i \in 1 .. Len(facts) : i \in 1 .. Len(facts') /\ facts'[i] = facts[i]
           /\ Len(facts') \in 1 .. Len(facts') /\ facts'[Len(facts')] = f
           /\ \A i \in 1 .. Len(facts) : i <= Len(facts')
           /\ \A x \in ToSet(facts) : \E i \in 1 .. Len(facts) : facts[i] = x
  <1>1. facts \in Seq(ToSet(facts)) /\ Len(facts) \in Nat
    BY ListOf DEF FactsIn, Lists
  <1>2. facts \in Seq(ToSet(facts) \cup {f})
    BY <1>1
  <1>3. /\ Len(facts') = Len(facts) + 1 /\ facts'[Len(facts) + 1] = f
        /\ \A i \in 1 .. Len(facts) : facts'[i] = facts[i]
    BY <1>1, <1>2
  <1>4. \A i \in 1 .. Len(facts) : i \in 1 .. Len(facts') /\ i <= Len(facts')
    BY <1>1, <1>3
  <1>5. Len(facts') \in 1 .. Len(facts')
    BY <1>1, <1>3
  <1>6. \A x \in ToSet(facts) : \E i \in 1 .. Len(facts) : facts[i] = x
    BY <1>1, ListOf
  <1> QED
    BY <1>1, <1>3, <1>4, <1>5, <1>6

LEMMA NamingLands ==
    ASSUME Naming, FactsIn(facts), NEW f, facts' = Append(facts, f),
           ToSet(facts') = ToSet(facts) \cup {f}, f.type # "agent_output",
           loop'.read = loop.read, loop'.seg.consumed = loop.seg.consumed,
           loop'.pc = "rest" <=> loop.pc = "rest"
    PROVE  Naming' /\ Named' = Named
  <1>1. Outputs' = Outputs
    BY DEF Outputs
  <1>2. Named' = Named
    BY <1>1 DEF Named
  <1>3. ASSUME NEW g \in Named
        PROVE  startsRange(g) /\ \E i, k \in 1 .. Len(facts') :
                  i <= k /\ facts'[i] = g /\ facts'[k].type = "agent_output"
    <2>1. startsRange(g)
      BY DEF Naming
    <2>2. PICK i, k \in 1 .. Len(facts) : i <= k /\ facts[i] = g /\ facts[k].type = "agent_output"
      BY DEF Naming
    <2>3. facts'[i] = facts[i] /\ facts'[k] = facts[k] /\ i \in 1 .. Len(facts') /\ k \in 1 .. Len(facts')
      BY Longer
    <2> QED
      BY <2>1, <2>2, <2>3
  <1> QED
    BY <1>1, <1>2, <1>3 DEF Naming

\* An output that lands is new, and answers what its segment consumed.
LEMMA NamingCloses ==
    ASSUME Naming, FactsIn(facts), NEW f, f.type = "agent_output", f.inputs = loop.seg.consumed,
           facts' = Append(facts, f), ToSet(facts') = ToSet(facts) \cup {f}, loop.pc # "rest",
           loop'.read = loop.read, loop'.seg.consumed = {}, loop'.pc = "rest"
    PROVE  Naming' /\ Named \subseteq Named' /\ f \notin ToSet(facts)
  <1>1. Outputs' = Outputs \cup {f}
    BY DEF Outputs
  <1>2. Named' = Named \cup loop.seg.consumed
    BY <1>1 DEF Named
  <1>3. f \notin ToSet(facts)
    <2> SUFFICES ASSUME f \in ToSet(facts) PROVE FALSE
      OBVIOUS
    <2>1. loop.seg.consumed \subseteq Named
      BY DEF Named, Outputs
    <2> QED
      BY <2>1 DEF Naming
  <1>4. ASSUME NEW g \in Named'
        PROVE  startsRange(g) /\ \E i, k \in 1 .. Len(facts') :
                  i <= k /\ facts'[i] = g /\ facts'[k].type = "agent_output"
    <2>1. CASE g \in Named
      <3>1. startsRange(g)
        BY <2>1 DEF Naming
      <3>2. PICK i, k \in 1 .. Len(facts) : i <= k /\ facts[i] = g /\ facts[k].type = "agent_output"
        BY <2>1 DEF Naming
      <3>3. facts'[i] = facts[i] /\ facts'[k] = facts[k] /\ i \in 1 .. Len(facts') /\ k \in 1 .. Len(facts')
        BY Longer
      <3> QED
        BY <3>1, <3>2, <3>3
    <2>2. CASE g \in loop.seg.consumed
      <3>1. startsRange(g) /\ g \in ToSet(facts)
        BY <2>2 DEF Naming
      <3>2. PICK i \in 1 .. Len(facts) : facts[i] = g
        BY <3>1, Longer
      <3>3. /\ i \in 1 .. Len(facts') /\ facts'[i] = g /\ i <= Len(facts')
            /\ Len(facts') \in 1 .. Len(facts') /\ facts'[Len(facts')] = f
        BY <3>2, Longer
      <3> QED
        BY <3>1, <3>3
    <2> QED
      BY <1>2, <2>1, <2>2
  <1>5. \A o \in Outputs' : o.inputs # {}
    BY <1>1 DEF Naming
  <1>6. Named' \subseteq loop'.read
    BY <1>2 DEF Naming
  <1> QED
    BY <1>2, <1>3, <1>4, <1>5, <1>6 DEF Naming

-----------------------------------------------------------------------------
(* What entries and products tell.                                         *)

\* What was mapped stays mapped, process detail aside.
MappedKept == \A x \in Mapped : x.type # "thinking_plan" => x \in Mapped'

LEMMA TellingStays ==
    ASSUME NEW e, Telling(e), MappedKept, Named \subseteq Named'
    PROVE  Telling(e)'
  BY DEF Telling, MappedKept

LEMMA TellingMoves ==
    ASSUME TellingAll, MappedKept, Named \subseteq Named',
           \A e \in Sources' : e \in Sources \/ Telling(e)'
    PROVE  TellingAll'
  <1> SUFFICES ASSUME NEW e \in Sources' PROVE Telling(e)'
    BY DEF TellingAll
  <1>1. CASE e \in Sources
    BY <1>1, TellingStays DEF TellingAll
  <1> QED
    BY <1>1

LEMMA FactTells ==
    ASSUME NEW f, IsFact(f)
    PROVE  Tells(f) = {f} /\ f.type # "history_summary"
  BY DEF IsFact, Tells

LEMMA PlannedTells ==
    ASSUME EntriesIn(entries), FactsIn(facts), Naming, \A e \in ToSet(entries) : Telling(e),
           NEW p \in ToSet(planFold(entries))
    PROVE  Telling(p)
  <1>1. WellMade(p) /\ PlannedFrom(p, entries)
    BY Planned DEF EntriesIn, ProductsIn
  <1>2. ASSUME NEW x \in ToSet(p.covered), x.type = "external_input"
        PROVE  x \in Named
    <2>1. PICK o \in ToSet(entries) : o.type = "agent_output" /\ (o.inputs = {} \/ x \in o.inputs)
      BY <1>1, <1>2 DEF PlannedFrom
    <2>2. Tells(o) = {o} /\ Telling(o)
      BY <2>1 DEF Tells
    <2>3. o \in Mapped
      BY <2>1, <2>2 DEF Telling
    <2>4. o \in Outputs
      BY <2>1, <2>3 DEF Mapped, Outputs
    <2> QED
      BY <2>1, <2>4 DEF Naming, Named
  <1>3. CASE p = foldProcessDetail(p.covered) /\ \A e \in ToSet(p.covered) : e.type = "thinking_plan"
    <2>1. p.type = "segment_fold" /\ Tells(p) = ToSet(p.covered)
      <3>1. p.type = "segment_fold" /\ p.content = ToSet(p.covered)
        BY <1>3 DEF foldProcessDetail
      <3> QED
        BY <3>1 DEF Tells
    <2> QED
      BY <1>2, <1>3, <2>1 DEF Telling
  <1>4. CASE p = historySummaryOf(p.covered)
    <2>1. /\ p.type = "history_summary"
          /\ Tells(p) = UNION {historySummaryLine(e) : e \in ToSet(p.covered)}
      <3>1. /\ p.type = "history_summary"
            /\ p.content = UNION {historySummaryLine(e) : e \in ToSet(p.covered)}
        BY <1>4 DEF historySummaryOf
      <3> QED
        BY <3>1 DEF Tells
    <2>2. ASSUME NEW x \in Tells(p), x.type # "thinking_plan" PROVE x \in Mapped
      <3>1. PICK e \in ToSet(p.covered) : x \in historySummaryLine(e)
        BY <2>1
      <3>2. x \in Tells(e)
        BY <3>1 DEF historySummaryLine, Tells
      <3>3. Telling(e)
        BY <1>1 DEF PlannedFrom
      <3> QED
        BY <2>2, <3>2, <3>3 DEF Telling
    <2>3. \E o \in Tells(p) : o.type = "agent_output"
      <3>1. PICK o \in ToSet(p.covered) : o.type = "agent_output"
        BY <1>1, <2>1 DEF PlannedFrom
      <3>2. historySummaryLine(o) = {o}
        BY <3>1 DEF historySummaryLine
      <3> QED
        BY <2>1, <3>1, <3>2
    <2> QED
      BY <1>2, <2>2, <2>3 DEF Telling
  <1> QED
    BY <1>1, <1>3, <1>4 DEF WellMade

-----------------------------------------------------------------------------
(* What stays of what a request relies on.                                 *)

LEMMA LandingStays ==
    ASSUME Landing, NEW c \in Committers, commit'[c].pc # "landed",
           \A d \in Committers \ {c} : commit'[d] = commit[d], facts' = facts
    PROVE  Landing'
  <1> SUFFICES ASSUME NEW d \in Committers, commit'[d].pc = "landed"
               PROVE  /\ commit'[d].fact \in ToSet(facts')
                      /\ IF d = Loop THEN commit'[d].fact.type \in {"thinking_plan", "agent_output"}
                         ELSE commit'[d].fact \in {External(d), Feedback(d)}
    BY DEF Landing
  <1>1. commit'[d] = commit[d]
    OBVIOUS
  <1> QED
    BY <1>1 DEF Landing

LEMMA LandingLands ==
    ASSUME Landing, NEW c \in Committers, NEW f, commit'[c].fact = f,
           \A d \in Committers \ {c} : commit'[d] = commit[d],
           ToSet(facts') = ToSet(facts) \cup {f},
           IF c = Loop THEN f.type \in {"thinking_plan", "agent_output"}
           ELSE f \in {External(c), Feedback(c)}
    PROVE  Landing'
  <1> SUFFICES ASSUME NEW d \in Committers, commit'[d].pc = "landed"
               PROVE  /\ commit'[d].fact \in ToSet(facts')
                      /\ IF d = Loop THEN commit'[d].fact.type \in {"thinking_plan", "agent_output"}
                         ELSE commit'[d].fact \in {External(d), Feedback(d)}
    BY DEF Landing
  <1>1. CASE d = c
    BY <1>1
  <1>2. CASE d # c
    <2>1. commit'[d] = commit[d]
      BY <1>2
    <2> QED
      BY <2>1 DEF Landing
  <1> QED
    BY <1>1, <1>2

\* No two committers land the same fact.
LEMMA LandsAlone ==
    ASSUME Landing, NEW c \in Committers, commit[c].pc = "landed",
           NEW d \in Committers \ {c}, commit[d].pc = "landed"
    PROVE  commit[d].fact # commit[c].fact
  <1>1. \A e \in Committers : e # Loop /\ commit[e].pc = "landed" =>
           /\ commit[e].fact.type \in {"external_input", "feedback"} /\ commit[e].fact.id = e
    BY DEF Landing, External, Feedback, Fact
  <1>2. commit[Loop].pc = "landed" => commit[Loop].fact.type \in {"thinking_plan", "agent_output"}
    BY LoopCommits DEF Landing
  <1> QED
    BY <1>1, <1>2

LEMMA SourcesMove ==
    ASSUME NEW c \in Committers, \A d \in Committers \ {c} : commit'[d] = commit[d], NEW S,
           Sources \subseteq S, ToSet(commit'[c].batch) \subseteq S,
           ToSet(entries') \subseteq S, ToSet(products') \subseteq S, ToSet(judgments') \subseteq S
    PROVE  Sources' \subseteq S
  <1>1. \A d \in Committers : ToSet(commit'[d].batch) \subseteq S
    <2> SUFFICES ASSUME NEW d \in Committers PROVE ToSet(commit'[d].batch) \subseteq S
      OBVIOUS
    <2>1. CASE d = c
      BY <2>1
    <2>2. CASE d # c
      <3>1. commit'[d] = commit[d] /\ ToSet(commit[d].batch) \subseteq Sources
        BY <2>2 DEF Sources
      <3> QED
        BY <3>1
    <2> QED
      BY <2>1, <2>2
  <1> QED
    BY <1>1 DEF Sources

\* What stands where it stood is told where it was.
LEMMA ReachesOn ==
    ASSUME NEW f, NEW W, NEW d, NEW j, Reaches(f, W, d, j),
           Len(entries) \in Nat, Len(entries') \in Nat, Len(entries) <= Len(entries'),
           \A k \in 1 .. Len(entries) : entries'[k] = entries[k],
           ToSet(entries) \subseteq ToSet(entries'), MappedKept,
           \A o \in Mapped' : o.type = "agent_output" => o \in Mapped,
           loop'.position = loop.position
    PROVE  Reaches(f, W, d, j)'
  <1>1. j \in 1 .. Len(entries) /\ j \in 1 .. Len(entries')
    BY DEF Reaches
  <1>2. \A k \in 1 .. j : k \in 1 .. Len(entries) /\ entries'[k] = entries[k]
    BY <1>1
  <1>3. DetailTo(j)' = DetailTo(j)
    BY <1>2 DEF DetailTo
  <1>4. /\ entries'[j] = f
        /\ \A k \in 1 .. j : Detail(entries'[k]) \/ Tells(entries'[k]) \cap UNION W # {}
    BY <1>1, <1>2 DEF Reaches
  <1>5. /\ \A w \in W : \A x \in w : x \in Mapped' /\ x.type # "thinking_plan"
        /\ \A w \in W : \E e \in ToSet(entries') : w \subseteq Tells(e)
        /\ \A o \in Mapped' : o.type = "agent_output" => o \in UNION W
    BY DEF Reaches, MappedKept
  <1>6. IsFiniteSet(W) /\ d \in Nat /\ Cardinality(W) + d <= loop'.position /\ Cardinality(DetailTo(j)') <= d
    BY <1>3 DEF Reaches
  <1> QED
    BY <1>1, <1>4, <1>5, <1>6 DEF Reaches

LEMMA Unmoved ==
    ASSUME EndedTells, Reaching, EntriesIn(entries), UNCHANGED <<entries, boundary, loop>>,
           Mapped' = Mapped
    PROVE  EndedTells' /\ Reaching'
  <1>1. EndedTells'
    BY DEF EndedTells
  <1>2. Len(entries) \in Nat /\ Len(entries) <= Len(entries)
    BY ListOf DEF EntriesIn, Lists
  <1>3. Reaching'
    <2> SUFFICES ASSUME loop.pc = "fixed"
                 PROVE  /\ loop.position \in Nat
                        /\ \A f \in loop.seg.consumed \ loop.seg.transcript :
                              f.type = "external_input" => \E W, d, j : Reaches(f, W, d, j)'
      BY DEF Reaching
    <2>1. ASSUME NEW f \in loop.seg.consumed \ loop.seg.transcript, f.type = "external_input"
          PROVE  \E W, d, j : Reaches(f, W, d, j)'
      <3>1. PICK W, d, j : Reaches(f, W, d, j)
        BY <2>1 DEF Reaching
      <3>2. Reaches(f, W, d, j)'
        BY <1>2, <3>1, ReachesOn DEF MappedKept
      <3> QED
        BY <3>2
    <2> QED
      BY <2>1 DEF Reaching
  <1> QED
    BY <1>1, <1>3

-----------------------------------------------------------------------------
(* The steps of a commit that is mapped.                                   *)

LEMMA JudgeReads ==
    ASSUME MappingInv, Reading, NEW c \in Committers,
           ObserveCommit(c) \/ Execute(c) \/ FileCompressProduct(c)
    PROVE  Reading'
  <1> DEFINE S == Sources \cup ToSet(planFold(entries))
  <1>1. /\ Mapped' = Mapped /\ UNCHANGED <<facts, entries, boundary, loop>>
        /\ Moves(c, S) /\ ToSet(products') \subseteq S /\ ToSet(judgments') \subseteq S
    <2>1. CASE ObserveCommit(c)
      BY <2>1, ObserveJudges DEF ObserveCommit, chain, Moves, Sources
    <2>2. CASE Execute(c)
      BY <2>2, ExecuteTakes DEF Execute, chain, fold, Moves, Sources
    <2>3. CASE FileCompressProduct(c)
      BY <2>3, FileKeeps DEF FileCompressProduct, chain, Moves, Sources
    <2> QED
      BY <2>1, <2>2, <2>3
  <1>2. Naming' /\ Named' = Named
    BY <1>1, NamingStays DEF Reading, Naming
  <1>3. Landing'
    BY <1>1, LandingStays DEF Reading, Moves
  <1>4. TellingAll'
    <2>1. \A p \in ToSet(planFold(entries)) : Telling(p)
      BY PlannedTells DEF MappingInv, Mapping, Reading, TellingAll, Sources
    <2>2. \A e \in S : Telling(e)'
      BY <1>1, <1>2, <2>1, TellingStays DEF MappedKept, Reading, TellingAll
    <2>3. Sources' \subseteq S
      <3>1. Sources \subseteq S /\ ToSet(entries') \subseteq S
        BY <1>1 DEF Sources
      <3> HIDE DEF S
      <3> QED
        BY <1>1, <3>1, SourcesMove DEF Moves
    <2> QED
      BY <2>2, <2>3 DEF TellingAll
  <1>5. EndedTells' /\ Reaching'
    BY <1>1, Unmoved DEF MappingInv, Mapping, Reading
  <1> QED
    BY <1>2, <1>3, <1>4, <1>5 DEF Reading

-----------------------------------------------------------------------------
(* A fact that lands, and one that is mapped.                              *)

LEMMA LandReads ==
    ASSUME MappingInv, Reading, NEW c \in Committers \ {Loop}, commit[c].pc = "idle",
           NEW f \in {External(c), Feedback(c)}, ~ Contains(facts, f),
           Land(c, f), UNCHANGED <<fold, chain, loop, crashes>>
    PROVE  Reading'
  <1>1. /\ IsFact(f) /\ f.type # "agent_output" /\ facts' = Append(facts, f)
        /\ UNCHANGED <<products, judgments, entries, boundary, loop>>
    BY DEF External, Feedback, Fact, IsFact, Land, fold, chain
  <1>2. f \notin ToSet(facts)
    BY ListOf DEF MappingInv, Mapping, FactsIn, Lists
  <1>3. /\ Mapped' = Mapped /\ \A d \in Committers \ {c} : commit'[d] = commit[d]
        /\ commit'[c] = [pc |-> "landed", fact |-> f, batch |-> << >>]
        /\ ToSet(facts') = ToSet(facts) \cup {f}
    <2>1. c \in Committers /\ commit[c].pc # "landed" /\ Mapping
      BY DEF MappingInv
    <2> QED
      BY <1>1, <1>2, <2>1, Lands
  <1>4. Naming' /\ Named' = Named
    BY <1>1, <1>3, NamingLands DEF MappingInv, Mapping, Reading
  <1>5. Landing'
    <2>1. commit'[c].fact = f
      BY <1>3
    <2> QED
      BY <1>3, <2>1, LandingLands DEF Reading
  <1>6. TellingAll'
    <2>1. ToSet(commit'[c].batch) \subseteq Sources
      BY <1>3, NoneSet
    <2>2. Sources' \subseteq Sources
      BY <1>1, <1>3, <2>1, SourcesMove DEF Sources
    <2> QED
      BY <1>3, <1>4, <2>2, TellingMoves DEF MappedKept, Reading
  <1>7. EndedTells' /\ Reaching'
    BY <1>1, <1>3, Unmoved DEF MappingInv, Mapping, Reading
  <1> QED
    BY <1>4, <1>5, <1>6, <1>7 DEF Reading

\* The sequence with one entry more.
LEMMA OneMore ==
    ASSUME NEW s, Lists(s), NEW e
    PROVE  /\ Len(s) \in Nat /\ Len(Append(s, e)) = Len(s) + 1
           /\ \A k \in 1 .. Len(s) : k \in 1 .. (Len(s) + 1) /\ Append(s, e)[k] = s[k]
           /\ Append(s, e)[Len(s) + 1] = e /\ Len(s) + 1 \in 1 .. (Len(s) + 1)
           /\ \A k \in 1 .. (Len(s) + 1) : k \in 1 .. Len(s) \/ k = Len(s) + 1
  <1>1. s \in Seq(ToSet(s)) /\ Len(s) \in Nat
    BY ListOf DEF Lists
  <1>2. s \in Seq(ToSet(s) \cup {e})
    BY <1>1
  <1>3. /\ Len(Append(s, e)) = Len(s) + 1 /\ Append(s, e)[Len(s) + 1] = e
        /\ \A k \in 1 .. Len(s) : Append(s, e)[k] = s[k]
    BY <1>1, <1>2
  <1>4. /\ \A k \in 1 .. Len(s) : k \in 1 .. (Len(s) + 1)
        /\ Len(s) + 1 \in 1 .. (Len(s) + 1)
        /\ \A k \in 1 .. (Len(s) + 1) : k \in 1 .. Len(s) \/ k = Len(s) + 1
    BY <1>1
  <1> QED
    BY <1>1, <1>3, <1>4

\* What ended stays ended when a fact that was no entry is appended, whether it moves
\* the boundary or not.
LEMMA EndedAppends ==
    ASSUME NEW s, Lists(s), NEW f, f \notin ToSet(s), NEW b, NEW j, Ended(s, b, j)
    PROVE  Ended(Append(s, f), b, j) /\ Ended(Append(s, f), f, j)
  <1> DEFINE n == Len(s)
             t == Append(s, f)
  <1>1. /\ n \in Nat /\ Len(t) = n + 1 /\ \A k \in 1 .. n : k \in 1 .. (n + 1) /\ t[k] = s[k]
        /\ \A k \in 1 .. (n + 1) : k \in 1 .. n \/ k = n + 1
    BY OneMore
  <1>2. \A k \in 1 .. n : s[k] # f
    BY ListOf DEF Lists
  <1>3. j \in 1 .. n
    BY DEF Ended
  <1> HIDE DEF n, t
  <1>4. j \in 1 .. Len(t) /\ j < n + 1 /\ j <= n + 1
    BY <1>1, <1>3
  <1>5. ASSUME NEW i \in 1 .. Len(t), t[i] = f PROVE j < i /\ j <= i
    <2>1. i = n + 1
      BY <1>1, <1>2, <1>5
    <2> QED
      BY <1>4, <2>1
  <1>6. ASSUME b # NoFact, NEW i \in 1 .. Len(t), t[i] = b
        PROVE  IF b.type = "agent_output" THEN j <= i ELSE j < i
    <2>1. CASE i \in 1 .. n
      <3>1. s[i] = b
        BY <1>1, <1>6, <2>1
      <3> QED
        BY <1>6, <2>1, <3>1 DEF Ended, n
    <2>2. CASE i = n + 1
      BY <1>4, <2>2
    <2> QED
      BY <1>1, <1>6, <2>1, <2>2
  <1> QED
    BY <1>4, <1>5, <1>6 DEF Ended, t

LEMMA RecordReads ==
    ASSUME MappingInv, Reading, NEW c \in Committers, recordMapped(c)
    PROVE  Reading'
  <1>0. PICK f : f = commit[c].fact
    OBVIOUS
  <1> DEFINE n == Len(entries)
  <1>1. /\ commit[c].pc = "landed" /\ entries' = Append(entries, f)
        /\ UNCHANGED <<facts, products, judgments, loop>>
        /\ boundary' = boundary \/ (boundary' = f /\ (f.type = "agent_output" \/ startsRange(f)))
        /\ f.type = "agent_output" => boundary' = f
    BY <1>0 DEF recordMapped, fold
  <1>2. /\ Moves(c, ToSet(commit[c].batch)) /\ IsFact(f)
        /\ Mapped \subseteq Mapped' /\ Mapped' \subseteq Mapped \cup {f}
        /\ ToSet(entries') = ToSet(entries) \cup {f}
    BY <1>0, RecordMaps
  <1>3. f \in ToSet(facts) /\ f \notin Mapped
    BY <1>0, <1>1 DEF Reading, Landing, Mapped
  <1>4. f \in Mapped'
    <2>1. \A d \in Committers : commit'[d].pc = "landed" => commit'[d].fact # f
      <3> SUFFICES ASSUME NEW d \in Committers, commit'[d].pc = "landed"
                   PROVE  commit'[d].fact # f
        OBVIOUS
      <3>1. d \in Committers \ {c} /\ commit'[d] = commit[d]
        BY <1>2 DEF Moves
      <3> QED
        BY <1>0, <1>1, <3>1, LandsAlone DEF Reading
    <2> QED
      BY <1>1, <1>3, <2>1 DEF Mapped
  <1>5. Telling(f)'
    BY <1>2, <1>4, FactTells DEF Telling
  <1>6. MappedKept
    BY <1>2 DEF MappedKept
  <1>7. Naming' /\ Named' = Named
    BY <1>1, NamingStays DEF Reading, Naming
  <1>8. Landing'
    BY <1>1, <1>2, LandingStays DEF Reading, Moves
  <1>9. TellingAll'
    <2> DEFINE S == Sources \cup {f}
    <2>1. /\ Sources \subseteq S /\ ToSet(entries') \subseteq S /\ ToSet(products') \subseteq S
          /\ ToSet(judgments') \subseteq S /\ ToSet(commit[c].batch) \subseteq S
      BY <1>1, <1>2 DEF Sources
    <2> HIDE DEF S
    <2>2. Sources' \subseteq S
      BY <1>2, <2>1, SourcesMove DEF Moves
    <2> QED
      BY <1>5, <1>6, <1>7, <2>2, TellingMoves DEF Reading, S
  <1>10. f.type # "thinking_plan" => f \notin ToSet(entries)
    <2> SUFFICES ASSUME f.type # "thinking_plan", f \in ToSet(entries) PROVE FALSE
      OBVIOUS
    <2>1. Telling(f) /\ Tells(f) = {f}
      BY <1>2, FactTells DEF Reading, TellingAll, Sources
    <2> QED
      BY <1>3, <2>1 DEF Telling
  <1>11. Lists(entries)
    BY DEF MappingInv, Mapping, EntriesIn
  <1>12. /\ n \in Nat /\ Len(entries') = n + 1 /\ n + 1 \in 1 .. Len(entries') /\ entries'[n + 1] = f
         /\ \A k \in 1 .. n : k \in 1 .. Len(entries') /\ entries'[k] = entries[k]
         /\ \A k \in 1 .. (n + 1) : k \in 1 .. n \/ k = n + 1
    BY <1>1, <1>11, OneMore
  <1>13. ASSUME NEW j \in 1 .. n, Ended(entries, boundary, j)
         PROVE  Ended(entries', boundary', j)
    <2>1. CASE f.type # "thinking_plan"
      BY <1>1, <1>10, <1>11, <1>13, <2>1, EndedAppends
    <2>2. CASE f.type = "thinking_plan"
      <3>1. boundary' = boundary
        BY <1>1, <2>2 DEF startsRange
      <3>2. ASSUME boundary # NoFact, NEW i \in 1 .. Len(entries'), entries'[i] = boundary
            PROVE  IF boundary.type = "agent_output" THEN j <= i ELSE j < i
        <4>1. CASE i \in 1 .. n
          <5>1. entries[i] = boundary
            BY <1>12, <3>2, <4>1
          <5> QED
            BY <1>13, <3>2, <4>1, <5>1 DEF Ended
        <4>2. CASE i = n + 1
          <5>1. j <= n + 1 /\ j < n + 1
            BY <1>12
          <5> QED
            BY <4>2, <5>1
        <4> QED
          BY <1>12, <3>2, <4>1, <4>2
      <3> QED
        BY <1>12, <3>1, <3>2 DEF Ended
    <2> QED
      BY <2>1, <2>2
  <1> HIDE DEF n
  <1>14. EndedTells'
    <2>1. boundary' = NoFact \/ IsFact(boundary')
      BY <1>1, <1>2 DEF Reading, EndedTells
    <2>2. ASSUME NEW o \in Mapped', o.type = "agent_output"
          PROVE  \E j \in 1 .. Len(entries') : Ended(entries', boundary', j) /\ o \in Tells(entries'[j])
      <3>1. CASE o \in Mapped
        <4>1. PICK j \in 1 .. n : Ended(entries, boundary, j) /\ o \in Tells(entries[j])
          BY <2>2, <3>1 DEF Reading, EndedTells, n
        <4> QED
          BY <1>12, <1>13, <4>1
      <3>2. CASE o = f
        <4>1. boundary' = f
          BY <1>1, <2>2, <3>2
        <4>2. ASSUME NEW i \in 1 .. Len(entries'), entries'[i] = f PROVE n + 1 <= i
          <5>1. i = n + 1
            <6>1. ASSUME i \in 1 .. n PROVE FALSE
              <7>1. entries[i] = f
                BY <1>12, <4>2, <6>1
              <7>2. entries[i] \in ToSet(entries)
                BY <1>11, <6>1, ListOf DEF Lists, n
              <7> QED
                BY <1>10, <2>2, <3>2, <7>1, <7>2
            <6> QED
              BY <1>12, <6>1
          <5> QED
            BY <1>12, <5>1
        <4>3. Ended(entries', boundary', n + 1)
          BY <1>12, <2>2, <3>2, <4>1, <4>2 DEF Ended
        <4>4. o \in Tells(entries'[n + 1])
          BY <1>2, <1>12, <3>2, FactTells
        <4> QED
          BY <1>12, <4>3, <4>4
      <3> QED
        BY <1>2, <3>1, <3>2
    <2>3. ASSUME NEW g \in loop.seg.consumed \ loop.seg.transcript, g.type = "external_input"
          PROVE  \E j \in 1 .. Len(entries') : Ended(entries', boundary', j) /\ entries'[j] = g
      <3>1. PICK j \in 1 .. n : Ended(entries, boundary, j) /\ entries[j] = g
        BY <2>3 DEF Reading, EndedTells, n
      <3> QED
        BY <1>12, <1>13, <3>1
    <2> QED
      BY <1>1, <2>1, <2>2, <2>3 DEF EndedTells
  <1>15. Reaching'
    <2> SUFFICES ASSUME loop.pc = "fixed"
                 PROVE  /\ loop.position \in Nat
                        /\ \A g \in loop.seg.consumed \ loop.seg.transcript :
                              g.type = "external_input" => \E W, d, j : Reaches(g, W, d, j)'
      BY <1>1 DEF Reaching
    <2>1. f.type # "agent_output"
      <3>1. c # Loop
        BY <1>1 DEF MappingInv, Deciding
      <3> QED
        BY <1>0, <1>1, <3>1 DEF Reading, Landing, External, Feedback, Fact
    <2>2. \A o \in Mapped' : o.type = "agent_output" => o \in Mapped
      BY <1>2, <2>1
    <2>3. n <= Len(entries') /\ Len(entries') \in Nat
      BY <1>12
    <2>4. ASSUME NEW g \in loop.seg.consumed \ loop.seg.transcript, g.type = "external_input"
          PROVE  \E W, d, j : Reaches(g, W, d, j)'
      <3>1. PICK W, d, j : Reaches(g, W, d, j)
        BY <2>4 DEF Reading, Reaching
      <3>2. Reaches(g, W, d, j)'
        BY <1>1, <1>2, <1>6, <1>12, <2>2, <2>3, <3>1, ReachesOn DEF n
      <3> QED
        BY <3>2
    <2> QED
      BY <2>4 DEF Reading, Reaching
  <1> QED
    BY <1>7, <1>8, <1>9, <1>14, <1>15 DEF Reading

-----------------------------------------------------------------------------
(* Placing a product under a request that holds its position.              *)

LEMMA ProductType ==
    ASSUME NEW p, WellMade(p)
    PROVE  /\ ~ IsFact(p) /\ p.type \in {"history_summary", "segment_fold"}
           /\ p.type # "history_summary" => \A e \in ToSet(p.covered) : e.type = "thinking_plan"
           /\ Detail(p) <=> p.type # "history_summary"
  <1>1. CASE p = historySummaryOf(p.covered)
    <2>1. p.type = "history_summary"
      BY <1>1 DEF historySummaryOf
    <2> QED
      BY <2>1 DEF IsFact, Detail
  <1>2. CASE p = foldProcessDetail(p.covered) /\ \A e \in ToSet(p.covered) : e.type = "thinking_plan"
    <2>1. p.type = "segment_fold"
      BY <1>2 DEF foldProcessDetail
    <2> QED
      BY <1>2, <2>1 DEF IsFact, Detail
  <1> QED
    BY <1>1, <1>2 DEF WellMade

\* Entries keep their order, and no entry is before one it stood behind.
LEMMA InOrder ==
    ASSUME NEW s, Lists(s), NEW r, Lists(r), NEW p, NEW h, Shifted(r, s, p, h),
           NEW i \in 1 .. Len(r), NEW k \in 1 .. Len(r)
    PROVE  (h[k] <= h[i] <=> k <= i) /\ h[k] \in Nat /\ i \in Nat /\ k \in Nat
  <1>1. /\ Len(s) \in Nat /\ Len(r) \in Nat
        /\ h \in [1 .. Len(r) -> 0 .. Len(s)]
        /\ \A a, b \in 1 .. Len(r) : a < b => h[a] < h[b]
    BY ListOf DEF Lists, Shifted
  <1>2. h[i] \in Nat /\ h[k] \in Nat /\ i \in Nat /\ k \in Nat
    BY <1>1
  <1>3. (i < k => h[i] < h[k]) /\ (k < i => h[k] < h[i])
    BY <1>1
  <1>4. i = k \/ i < k \/ k < i
    BY <1>2
  <1> QED
    BY <1>2, <1>3, <1>4

\* What ended stays ended: a product is never the boundary.
LEMMA EndedFollows ==
    ASSUME NEW s, Lists(s), NEW r, Lists(r), NEW p, NEW h, Shifted(r, s, p, h),
           NEW b, b # p, NEW j, Ended(s, b, j), NEW i \in 1 .. Len(r), h[i] = j
    PROVE  Ended(r, b, i)
  <1>1. j \in 1 .. Len(s) /\ Len(s) \in Nat
    BY ListOf DEF Ended, Lists
  <1>2. ASSUME b # NoFact, NEW k \in 1 .. Len(r), r[k] = b
        PROVE  IF b.type = "agent_output" THEN i <= k ELSE i < k
    <2>1. h[k] \in 1 .. Len(s) /\ s[h[k]] = b
      BY <1>2 DEF Shifted
    <2>2. IF b.type = "agent_output" THEN j <= h[k] ELSE j < h[k]
      BY <1>2, <2>1 DEF Ended
    <2>3. /\ h[k] <= h[i] <=> k <= i
          /\ h[i] <= h[k] <=> i <= k
          /\ i \in Nat /\ k \in Nat
      BY InOrder
    <2>4. h[k] \in Nat
      BY <1>1, <2>1
    <2> QED
      BY <1>1, <2>2, <2>3, <2>4
  <1> QED
    BY <1>2 DEF Ended

\* A summary stands ahead of every boundary.
LEMMA EndedAhead ==
    ASSUME NEW r, Lists(r), 1 \in 1 .. Len(r), NEW b, b # r[1]
    PROVE  Ended(r, b, 1)
  <1>1. Len(r) \in Nat
    BY ListOf DEF Lists
  <1>2. ASSUME NEW k \in 1 .. Len(r), r[k] = b PROVE 1 <= k /\ 1 < k
    <2>1. k # 1
      BY <1>2
    <2> QED
      BY <1>1, <2>1
  <1> QED
    BY <1>2 DEF Ended

\* Up to an entry that stays, no more process detail stands than stood.
LEMMA DetailFollows ==
    ASSUME NEW s, Lists(s), NEW r, Lists(r), NEW p, WellMade(p), NEW h, Shifted(r, s, p, h),
           NEW i \in 1 .. Len(r), NEW j \in 1 .. Len(s), h[i] = j
    PROVE  /\ Cardinality({k \in 1 .. i : Detail(r[k])}) \in Nat
           /\ Cardinality({k \in 1 .. j : Detail(s[k])}) \in Nat
           /\ Cardinality({k \in 1 .. i : Detail(r[k])}) <= Cardinality({k \in 1 .. j : Detail(s[k])})
  <1> DEFINE A == {k \in 1 .. i : Detail(r[k])}
             B == {k \in 1 .. j : Detail(s[k])}
             g == [k \in A |-> h[k]]
  <1>1. Len(s) \in Nat /\ Len(r) \in Nat /\ i \in Nat /\ j \in Nat
    <2>1. Len(s) \in Nat /\ Len(r) \in Nat
      BY ListOf DEF Lists
    <2> QED
      BY <2>1
  <1>2. IsFiniteSet(1 .. j)
    BY <1>1, FS_Interval
  <1>3. IsFiniteSet(B)
    <2>1. B \in SUBSET (1 .. j)
      OBVIOUS
    <2> HIDE DEF B
    <2> QED
      BY <1>2, <2>1, FS_Subset
  <1>4. ASSUME NEW k \in A PROVE k \in 1 .. Len(r) /\ h[k] \in B
    <2>1. k \in 1 .. Len(r) /\ k <= i /\ Detail(r[k])
      BY <1>1
    <2>2. h[k] <= j
      BY <2>1, InOrder
    <2>3. h[k] \in 1 .. Len(s) /\ Detail(s[h[k]])
      <3>1. CASE h[k] \in 1 .. Len(s) /\ r[k] = s[h[k]]
        BY <2>1, <3>1
      <3>2. CASE r[k] = p /\ p.type = "history_summary"
        BY <2>1, <3>2, ProductType
      <3>3. CASE /\ r[k] = p /\ p.type # "history_summary"
                 /\ h[k] \in 1 .. Len(s) /\ s[h[k]] \in ToSet(p.covered)
        <4>1. s[h[k]].type = "thinking_plan"
          BY <3>3, ProductType
        <4> QED
          BY <3>3, <4>1 DEF Detail
      <3> QED
        BY <2>1, <3>1, <3>2, <3>3 DEF Shifted
    <2>4. h[k] \in 1 .. j
      BY <1>1, <2>2, <2>3
    <2> QED
      BY <2>1, <2>3, <2>4
  <1>5. ASSUME NEW a \in A, NEW b \in A, h[a] = h[b] PROVE a = b
    <2>1. a \in 1 .. Len(r) /\ b \in 1 .. Len(r)
      BY <1>4
    <2>2. (h[a] <= h[b] <=> a <= b) /\ (h[b] <= h[a] <=> b <= a) /\ h[a] \in Nat /\ a \in Nat /\ b \in Nat
      BY <2>1, InOrder
    <2> QED
      BY <1>5, <2>2
  <1>6. g \in Injection(A, B)
    <2> HIDE DEF A, B
    <2>1. g \in [A -> B]
      BY <1>4
    <2>2. \A a, b \in A : g[a] = g[b] => a = b
      BY <1>5
    <2> QED
      BY <2>1, <2>2 DEF Injection, IsInjective
  <1> HIDE DEF A, B, g
  <1>7. IsFiniteSet(A) /\ Cardinality(A) <= Cardinality(B)
    BY <1>3, <1>6, FS_Injection
  <1>8. Cardinality(A) \in Nat /\ Cardinality(B) \in Nat
    BY <1>3, <1>7, FS_CardinalityType
  <1> QED
    BY <1>7, <1>8 DEF A, B

LEMMA ReachesFollow ==
    ASSUME NEW f, NEW W, NEW d, NEW j, Reaches(f, W, d, j), EntriesIn(entries), Lists(entries'),
           NEW p, WellMade(p), Telling(p), f \notin ToSet(p.covered),
           NEW h, Shifted(entries', entries, p, h), Mapped' = Mapped, loop' = loop
    PROVE  \E i : Reaches(f, W, d, i)'
  <1>1. /\ \A x : x \in ToSet(entries) <=> \E k \in 1 .. Len(entries) : entries[k] = x
        /\ \A k \in 1 .. Len(entries') : entries'[k] \in ToSet(entries')
        /\ Lists(entries)
    BY ListOf DEF EntriesIn, Lists
  <1>2. j \in 1 .. Len(entries) /\ entries[j] = f
    BY DEF Reaches
  <1>3. PICK i \in 1 .. Len(entries') : h[i] = j /\ entries'[i] = f
    BY <1>2 DEF Shifted
  <1>4. Cardinality(DetailTo(i)') <= d
    <2>1. /\ Cardinality(DetailTo(i)') \in Nat /\ Cardinality(DetailTo(j)) \in Nat
          /\ Cardinality(DetailTo(i)') <= Cardinality(DetailTo(j))
      BY <1>1, <1>2, <1>3, DetailFollows DEF DetailTo
    <2>2. Cardinality(DetailTo(j)) <= d /\ d \in Nat
      BY DEF Reaches
    <2> QED
      BY <2>1, <2>2
  <1>5. ASSUME NEW k \in 1 .. i PROVE Detail(entries'[k]) \/ Tells(entries'[k]) \cap UNION W # {}
    <2>1. k \in 1 .. Len(entries') /\ k <= i
      <3>1. Len(entries') \in Nat
        BY ListOf DEF Lists
      <3> QED
        BY <3>1
    <2>2. CASE h[k] \in 1 .. Len(entries) /\ entries'[k] = entries[h[k]]
      <3>1. h[k] <= j
        BY <1>1, <1>3, <2>1, InOrder
      <3>2. h[k] \in 1 .. j
        <4>1. Len(entries) \in Nat
          BY ListOf DEF EntriesIn, Lists
        <4> QED
          BY <1>2, <2>2, <3>1, <4>1
      <3> QED
        BY <2>2, <3>2 DEF Reaches
    <2>3. CASE entries'[k] = p /\ p.type = "history_summary"
      <3>1. PICK o \in Tells(p) : o.type = "agent_output"
        BY <2>3 DEF Telling
      <3>2. o \in Mapped
        BY <3>1 DEF Telling
      <3>3. o \in UNION W
        BY <3>1, <3>2 DEF Reaches
      <3> QED
        BY <2>3, <3>1, <3>3
    <2>4. CASE entries'[k] = p /\ p.type # "history_summary"
      BY <2>4, ProductType
    <2> QED
      BY <2>1, <2>2, <2>3, <2>4 DEF Shifted
  <1>6. ASSUME NEW w \in W PROVE \E e \in ToSet(entries') : w \subseteq Tells(e)
    <2>1. PICK e \in ToSet(entries) : w \subseteq Tells(e)
      BY DEF Reaches
    <2>2. CASE w = {}
      BY <1>1, <1>3, <2>2
    <2>3. CASE w # {} /\ e \in ToSet(p.covered)
      <3>1. ASSUME NEW x \in w PROVE p.type = "history_summary" /\ x \in Tells(p)
        <4>1. x.type # "thinking_plan" /\ x \in Tells(e)
          BY <2>1 DEF Reaches
        <4>2. IsFact(e) \/ WellMade(e)
          BY <2>1 DEF EntriesIn
        <4> QED
          BY <2>3, <4>1, <4>2, ToldBefore
      <3>2. p.type = "history_summary" /\ w \subseteq Tells(p)
        BY <2>3, <3>1
      <3>3. p \in ToSet(entries')
        BY <1>1, <3>2 DEF Shifted
      <3> QED
        BY <3>2, <3>3
    <2>4. CASE e \notin ToSet(p.covered)
      <3>1. PICK k \in 1 .. Len(entries) : entries[k] = e
        BY <1>1, <2>1
      <3>2. PICK q \in 1 .. Len(entries') : entries'[q] = entries[k]
        BY <2>4, <3>1 DEF Shifted
      <3> QED
        BY <1>1, <2>1, <3>1, <3>2
    <2> QED
      BY <2>2, <2>3, <2>4
  <1>7. /\ IsFiniteSet(W) /\ d \in Nat /\ Cardinality(W) + d <= loop'.position
        /\ \A w \in W : \A x \in w : x \in Mapped' /\ x.type # "thinking_plan"
        /\ \A o \in Mapped' : o.type = "agent_output" => o \in UNION W
    BY DEF Reaches
  <1>8. Reaches(f, W, d, i)'
    BY <1>3, <1>4, <1>5, <1>6, <1>7 DEF Reaches
  <1> QED
    BY <1>8

LEMMA ApplyReads ==
    ASSUME MappingInv, Reading, NEW c \in Committers, ApplyProducts(c)
    PROVE  Reading'
  <1>0. PICK p : p = Head(commit[c].batch)
    OBVIOUS
  <1>1. /\ UNCHANGED <<facts, products, judgments, boundary, loop>>
        /\ entries' = applyFoldProduct(entries, p)
    BY <1>0 DEF ApplyProducts, fold
  <1>2. /\ Mapped' = Mapped /\ Moves(c, ToSet(commit[c].batch)) /\ p \in ToSet(products)
        /\ Lists(entries') /\ EntriesIn(entries) /\ Lists(entries)
    BY <1>0, ApplyPlaces DEF MappingInv, Mapping, EntriesIn
  <1>3. WellMade(p) /\ Telling(p)
    BY <1>2 DEF MappingInv, Mapping, ProductsIn, Reading, TellingAll, Sources
  <1>4. Naming' /\ Named' = Named
    BY <1>1, NamingStays DEF Reading, Naming
  <1>5. Landing'
    BY <1>1, <1>2, LandingStays DEF Reading, Moves
  <1>6. TellingAll'
    <2>1. ToSet(entries') \subseteq Sources
      BY <1>1, <1>2, Applied DEF Sources
    <2>2. ToSet(commit[c].batch) \subseteq Sources
      BY DEF Sources
    <2>3. Sources' \subseteq Sources
      BY <1>1, <1>2, <2>1, <2>2, SourcesMove DEF Moves, Sources
    <2> QED
      BY <1>2, <1>4, <2>3, TellingMoves DEF MappedKept, Reading
  <1>7. EndedTells' /\ Reaching'
    <2>1. CASE entries' = entries
      BY <1>1, <1>2, <2>1, Unmoved DEF Reading
    <2>2. CASE entries' # entries
      <3>1. PICK h : Shifted(entries', entries, p, h)
        BY <1>1, <1>2, <2>2, AppliedAt
      <3>2. boundary # p \/ boundary = NoFact
        BY <1>3, FactNoProduct DEF Reading, EndedTells
      <3>3. ASSUME NEW g \in loop.seg.consumed, g.type = "external_input"
            PROVE  g \notin ToSet(p.covered)
        BY <1>3, <3>3, ProductType DEF Telling, Reading, Naming
      <3>4. \A j : Ended(entries, boundary, j) =>
               \A i \in 1 .. Len(entries') : h[i] = j => Ended(entries', boundary, i)
        <4>1. CASE boundary # p
          BY <1>2, <3>1, <4>1, EndedFollows
        <4>2. CASE boundary = NoFact
          BY <4>2 DEF Ended
        <4> QED
          BY <3>2, <4>1, <4>2
      <3>5. ASSUME NEW o \in Mapped', o.type = "agent_output"
            PROVE  \E i \in 1 .. Len(entries') : Ended(entries', boundary, i) /\ o \in Tells(entries'[i])
        <4>1. PICK j \in 1 .. Len(entries) : Ended(entries, boundary, j) /\ o \in Tells(entries[j])
          BY <1>2, <3>5 DEF Reading, EndedTells
        <4>2. CASE entries[j] \notin ToSet(p.covered)
          <5>1. PICK i \in 1 .. Len(entries') : h[i] = j /\ entries'[i] = entries[j]
            BY <3>1, <4>2 DEF Shifted
          <5> QED
            BY <3>4, <4>1, <5>1
        <4>3. CASE entries[j] \in ToSet(p.covered)
          <5>1. IsFact(entries[j]) \/ WellMade(entries[j])
            BY <1>2, ListOf DEF EntriesIn, Lists
          <5>2. p.type = "history_summary" /\ o \in Tells(p)
            BY <1>3, <3>5, <4>1, <4>3, <5>1, ToldBefore
          <5>3. 1 \in 1 .. Len(entries') /\ entries'[1] = p
            BY <3>1, <5>2 DEF Shifted
          <5>4. Ended(entries', boundary, 1)
            <6>1. CASE boundary # p
              BY <1>2, <5>3, <6>1, EndedAhead
            <6>2. CASE boundary = NoFact
              BY <5>3, <6>2 DEF Ended
            <6> QED
              BY <3>2, <6>1, <6>2
          <5> QED
            BY <5>2, <5>3, <5>4
        <4> QED
          BY <4>2, <4>3
      <3>6. ASSUME NEW g \in loop.seg.consumed \ loop.seg.transcript, g.type = "external_input"
            PROVE  \E i \in 1 .. Len(entries') : Ended(entries', boundary, i) /\ entries'[i] = g
        <4>1. PICK j \in 1 .. Len(entries) : Ended(entries, boundary, j) /\ entries[j] = g
          BY <3>6 DEF Reading, EndedTells
        <4>2. PICK i \in 1 .. Len(entries') : h[i] = j /\ entries'[i] = entries[j]
          BY <3>1, <3>3, <3>6, <4>1 DEF Shifted
        <4> QED
          BY <3>4, <4>1, <4>2
      <3>7. EndedTells'
        <4>1. boundary = NoFact \/ IsFact(boundary)
          BY DEF Reading, EndedTells
        <4> QED
          BY <1>1, <3>5, <3>6, <4>1 DEF EndedTells
      <3>8. Reaching'
        <4> SUFFICES ASSUME loop.pc = "fixed"
                     PROVE  /\ loop.position \in Nat
                            /\ \A g \in loop.seg.consumed \ loop.seg.transcript :
                                  g.type = "external_input" => \E W, d, i : Reaches(g, W, d, i)'
          BY <1>1 DEF Reaching
        <4>1. ASSUME NEW g \in loop.seg.consumed \ loop.seg.transcript, g.type = "external_input"
              PROVE  \E W, d, i : Reaches(g, W, d, i)'
          <5>1. PICK W, d, j : Reaches(g, W, d, j)
            BY <4>1 DEF Reading, Reaching
          <5>2. g \notin ToSet(p.covered)
            BY <3>3, <4>1
          <5>3. \E i : Reaches(g, W, d, i)'
            BY <1>1, <1>2, <1>3, <3>1, <5>1, <5>2, ReachesFollow
          <5> QED
            BY <5>3
        <4> QED
          BY <4>1 DEF Reading, Reaching
      <3> QED
        BY <3>7, <3>8
    <2> QED
      BY <2>1, <2>2
  <1> QED
    BY <1>4, <1>5, <1>6, <1>7 DEF Reading

-----------------------------------------------------------------------------
(* The consumer.                                                           *)

LEMMA PrefixSet ==
    ASSUME NEW s, Lists(s), NEW m \in 0 .. Len(s)
    PROVE  \A x : x \in ToSet(SubSeq(s, 1, m)) <=> \E k \in 1 .. m : s[k] = x
  <1>1. s \in Seq(ToSet(s)) /\ Len(s) \in Nat
    BY ListOf DEF Lists
  <1> DEFINE t == SubSeq(s, 1, m)
  <1>2. t \in Seq(ToSet(s)) /\ Len(t) = m /\ \A k \in 1 .. m : t[k] = s[k]
    BY <1>1
  <1> HIDE DEF t
  <1>3. \A x : x \in ToSet(t) <=> \E k \in 1 .. Len(t) : t[k] = x
    BY <1>2, ListOf
  <1> QED
    BY <1>2, <1>3 DEF t

\* What drives and the prefix presents is no part of the transcript: it stands ended.
LEMMA PullReads ==
    ASSUME MappingInv, Reading, openSegment \/ pullDriving
    PROVE  Reading'
  <1>1. /\ commit[Loop].pc = "idle" /\ UNCHANGED <<facts, products, judgments, entries, boundary>>
        /\ Observes(Loop) \/ UNCHANGED commit
        /\ loop'.pc \in {"open", "pulled"} /\ loop'.read = loop.read \cup Driving
        /\ loop'.seg.consumed = loop.seg.consumed \cup Driving
        /\ loop'.seg.transcript = loop.seg.transcript \cup (Driving \ SessionPresented)
    <2>1. /\ commit[Loop].pc = "idle" /\ UNCHANGED <<facts, products, judgments, entries, boundary>>
          /\ Observes(Loop) \/ UNCHANGED commit
          /\ Pulled("open") \/ Pulled("pulled")
      BY DEF openSegment, pullDriving, fold, chain
    <2> QED
      BY <2>1, PullsInto DEF MappingInv
  <1>2. Driving \subseteq ToSet(facts) /\ Driving \cap loop.read = {} /\ \A f \in Driving : startsRange(f)
    BY DEF Driving
  <1>3. loop'.seg.consumed # {}
    <2>1. CASE openSegment
      BY <1>1, <2>1 DEF openSegment
    <2>2. CASE pullDriving
      BY <1>1, <2>2 DEF pullDriving, Reading, Naming
    <2> QED
      BY <2>1, <2>2
  <1>4. Naming' /\ Named' = Named
    <2>1. Named \subseteq loop.read /\ loop.seg.consumed \cap Named = {}
          /\ loop.seg.consumed \subseteq {f \in ToSet(facts) : startsRange(f)} \cap loop.read
      BY DEF Reading, Naming
    <2>2. loop'.pc # "rest"
      BY <1>1
    <2> QED
      BY <1>1, <1>2, <1>3, <2>1, <2>2, NamingStays DEF Reading
  <1>5. /\ commit'[Loop].pc # "landed" /\ commit'[Loop].batch = commit[Loop].batch
        /\ \A d \in Committers \ {Loop} : commit'[d] = commit[d]
    <2>1. /\ commit = [d \in Committers |-> commit[d]]
          /\ commit[Loop] = [pc |-> commit[Loop].pc, fact |-> commit[Loop].fact,
                             batch |-> commit[Loop].batch]
      BY LoopCommits DEF MappingInv, Mapping, Commits
    <2>2. CASE Observes(Loop)
      <3>1. commit'[Loop] = [commit[Loop] EXCEPT !.pc = "mapped"]
            /\ \A d \in Committers \ {Loop} : commit'[d] = commit[d]
        BY <2>1, <2>2, LoopCommits DEF Observes
      <3> QED
        BY <2>1, <3>1
    <2> QED
      BY <1>1, <2>2
  <1>6. Mapped' = Mapped
    BY <1>1, <1>5, MappedSame, LoopCommits
  <1>7. Landing'
    BY <1>1, <1>5, LandingStays, LoopCommits DEF Reading
  <1>8. TellingAll'
    <2>1. ToSet(commit'[Loop].batch) \subseteq Sources
      BY <1>5, LoopCommits DEF Sources
    <2>2. Sources' \subseteq Sources
      BY <1>1, <1>5, <2>1, SourcesMove, LoopCommits DEF Sources
    <2> QED
      BY <1>4, <1>6, <2>2, TellingMoves DEF MappedKept, Reading
  <1>9. EndedTells'
    <2>1. ASSUME NEW g \in loop'.seg.consumed \ loop'.seg.transcript, g.type = "external_input"
          PROVE  \E j \in 1 .. Len(entries) : Ended(entries, boundary, j) /\ entries[j] = g
      <3>1. CASE g \in loop.seg.consumed \ loop.seg.transcript
        BY <2>1, <3>1 DEF Reading, EndedTells
      <3>2. CASE g \in SessionPresented
        <4>1. /\ endedPrefix \in 0 .. Len(entries) /\ Len(entries) \in Nat
              /\ \A j \in 1 .. Len(entries) : j <= endedPrefix <=> Ended(entries, boundary, j)
          BY EndedIs DEF MappingInv, Mapping
        <4>2. PICK k \in 1 .. endedPrefix : entries[k] = g
          BY <3>2, <4>1, PrefixSet DEF SessionPresented, MappingInv, Mapping, EntriesIn
        <4>3. k \in 1 .. Len(entries) /\ k <= endedPrefix
          BY <4>1
        <4> QED
          BY <4>1, <4>2, <4>3
      <3> QED
        BY <1>1, <2>1, <3>1, <3>2
    <2> QED
      BY <1>1, <1>6, <2>1 DEF Reading, EndedTells
  <1>10. Reaching'
    <2>1. loop'.pc # "fixed"
      BY <1>1
    <2> QED
      BY <2>1 DEF Reaching
  <1> QED
    BY <1>4, <1>7, <1>8, <1>9, <1>10 DEF Reading

\* What stays when only the consumer moves on.
LEMMA OnlyLoopMoves ==
    ASSUME Reading, UNCHANGED <<facts, fold, chain, commit>>,
           loop'.read = loop.read, loop'.seg.consumed \subseteq loop.seg.consumed,
           loop'.seg.consumed \ loop'.seg.transcript \subseteq loop.seg.consumed \ loop.seg.transcript,
           loop'.pc = "rest" <=> loop'.seg.consumed = {}
    PROVE  Naming' /\ Landing' /\ TellingAll' /\ EndedTells' /\ Mapped' = Mapped
  <1>1. UNCHANGED <<facts, products, judgments, entries, boundary, commit>>
    BY DEF fold, chain
  <1>2. Mapped' = Mapped /\ Sources' = Sources
    BY <1>1 DEF Mapped, Sources
  <1>3. Naming' /\ Named' = Named
    BY <1>1, NamingStays DEF Reading, Naming
  <1>4. Landing'
    BY <1>1 DEF Reading, Landing
  <1>5. TellingAll'
    BY <1>2, <1>3, TellingMoves DEF MappedKept, Reading
  <1>6. EndedTells'
    BY <1>1, <1>2 DEF Reading, EndedTells
  <1> QED
    BY <1>2, <1>3, <1>4, <1>5, <1>6

LEMMA AsksReads ==
    ASSUME MappingInv, Reading, AssembleBudgetPrefix \/ closeFailed
    PROVE  Reading'
  <1>1. loop = [pc |-> loop.pc, read |-> loop.read, seg |-> loop.seg,
                position |-> loop.position, request |-> loop.request, calls |-> loop.calls]
    BY DEF MappingInv, Deciding
  <1>2. /\ UNCHANGED <<facts, fold, chain, commit>> /\ loop'.read = loop.read
        /\ loop'.seg.consumed \subseteq loop.seg.consumed
        /\ loop'.seg.consumed \ loop'.seg.transcript \subseteq loop.seg.consumed \ loop.seg.transcript
        /\ loop'.pc = "rest" <=> loop'.seg.consumed = {}
        /\ loop'.pc # "fixed"
    <2>1. CASE AssembleBudgetPrefix
      <3>1. loop.pc = "fixed" /\ loop'.pc = "asked" /\ loop'.read = loop.read /\ loop'.seg = loop.seg
        BY <1>1, <2>1 DEF AssembleBudgetPrefix
      <3>2. loop.seg.consumed # {}
        BY <3>1 DEF Reading, Naming
      <3> QED
        BY <2>1, <3>1, <3>2 DEF AssembleBudgetPrefix
    <2>2. CASE closeFailed
      <3>1. loop'.pc = "rest" /\ loop'.read = loop.read /\ loop'.seg = NoSegment
        BY <2>2 DEF closeFailed, AtRest
      <3> QED
        BY <2>2, <3>1 DEF closeFailed, NoSegment
    <2> QED
      BY <2>1, <2>2
  <1>3. Reaching'
    BY <1>2 DEF Reaching
  <1> QED
    BY <1>2, <1>3, OnlyLoopMoves DEF Reading

LEMMA CallsRead ==
    ASSUME MappingInv, Reading, commitCalls \/ closeSegment
    PROVE  Reading'
  <1>0. PICK f : IF commitCalls THEN f = Fact("thinking_plan", loop.calls, {})
                 ELSE f = Fact("agent_output", NoFact, loop.seg.consumed)
    OBVIOUS
  <1>1. loop = [pc |-> loop.pc, read |-> loop.read, seg |-> loop.seg,
                position |-> loop.position, request |-> loop.request, calls |-> loop.calls]
    BY DEF MappingInv, Deciding
  <1>2. /\ loop.pc = "asked" /\ commit[Loop].pc = "idle" /\ Land(Loop, f) /\ facts' = Append(facts, f)
        /\ UNCHANGED <<fold, chain>> /\ UNCHANGED <<products, judgments, entries, boundary>>
        /\ IsFact(f) /\ f.type \in {"thinking_plan", "agent_output"}
        /\ loop'.read = loop.read /\ loop'.pc # "fixed"
    <2>1. loop.pc = "asked" /\ commit[Loop].pc = "idle" /\ UNCHANGED <<fold, chain>>
      BY DEF commitCalls, closeSegment, MappingInv, Deciding
    <2>2. Land(Loop, f) /\ IsFact(f) /\ f.type \in {"thinking_plan", "agent_output"}
      <3>1. CASE commitCalls
        <4>1. f = Fact("thinking_plan", loop.calls, {}) /\ Land(Loop, Fact("thinking_plan", loop.calls, {}))
          BY <1>0, <3>1 DEF commitCalls
        <4>2. f.type = "thinking_plan"
          BY <4>1 DEF Fact
        <4> QED
          BY <4>1, <4>2 DEF IsFact
      <3>2. CASE ~ commitCalls
        <4>1. f = Fact("agent_output", NoFact, loop.seg.consumed)
              /\ Land(Loop, Fact("agent_output", NoFact, loop.seg.consumed))
          BY <1>0, <3>2 DEF closeSegment
        <4>2. f.type = "agent_output"
          BY <4>1 DEF Fact
        <4> QED
          BY <4>1, <4>2 DEF IsFact
      <3> QED
        BY <3>1, <3>2
    <2>3. loop'.read = loop.read /\ loop'.pc # "fixed"
      BY <1>1 DEF commitCalls, closeSegment, AtRest
    <2> QED
      BY <2>1, <2>2, <2>3 DEF Land, fold, chain
  <1>3. /\ commit'[Loop] = [pc |-> "landed", fact |-> f, batch |-> << >>]
        /\ \A d \in Committers \ {Loop} : commit'[d] = commit[d]
        /\ Mapped' \subseteq Mapped /\ ToSet(facts') = ToSet(facts) \cup {f}
        /\ f \notin ToSet(facts) => Mapped' = Mapped
    <2>1. commit[Loop].pc # "landed" /\ Mapping
      BY <1>2 DEF MappingInv
    <2> QED
      BY <1>2, <2>1, LoopCommits, Lands
  <1>4. /\ Naming' /\ Named \subseteq Named' /\ MappedKept
        /\ loop'.seg.consumed \ loop'.seg.transcript \subseteq loop.seg.consumed \ loop.seg.transcript
    <2>1. CASE commitCalls
      <3>1. f.type = "thinking_plan"
        BY <1>0, <2>1 DEF Fact
      <3>2. /\ loop'.pc = "open" /\ loop'.seg.consumed = loop.seg.consumed
            /\ loop.seg.transcript \subseteq loop'.seg.transcript
        <4>1. loop'.pc = "open" /\ loop'.seg = [loop.seg EXCEPT !.transcript =
                  @ \cup {Fact("thinking_plan", loop.calls, {})}]
          BY <1>1, <2>1 DEF commitCalls
        <4> QED
          BY <4>1
      <3>3. Naming' /\ Named' = Named
        BY <1>2, <1>3, <3>1, <3>2, NamingLands DEF MappingInv, Mapping, Reading
      <3>4. MappedKept
        <4> SUFFICES ASSUME NEW x \in Mapped, x.type # "thinking_plan" PROVE x \in Mapped'
          BY DEF MappedKept
        <4>1. x \in ToSet(facts) /\ \A d \in Committers : commit[d].pc = "landed" => x # commit[d].fact
          BY DEF Mapped
        <4>2. \A d \in Committers : commit'[d].pc = "landed" => x # commit'[d].fact
          BY <1>3, <3>1, <4>1
        <4> QED
          BY <1>3, <4>1, <4>2 DEF Mapped
      <3> QED
        BY <3>2, <3>3, <3>4
    <2>2. CASE ~ commitCalls
      <3>1. f.type = "agent_output" /\ f.inputs = loop.seg.consumed
        BY <1>0, <2>2 DEF Fact
      <3>2. loop'.pc = "rest" /\ loop'.seg.consumed = {}
        BY <2>2 DEF closeSegment, AtRest, NoSegment
      <3>3. Naming' /\ Named \subseteq Named' /\ f \notin ToSet(facts)
        BY <1>2, <1>3, <3>1, <3>2, NamingCloses DEF MappingInv, Mapping, Reading
      <3> QED
        BY <1>3, <3>2, <3>3 DEF MappedKept
    <2> QED
      BY <2>1, <2>2
  <1>5. Landing'
    <2>1. commit'[Loop].fact = f
      BY <1>3
    <2> QED
      BY <1>2, <1>3, <2>1, LandingLands, LoopCommits DEF Reading
  <1>6. TellingAll'
    <2>1. ToSet(commit'[Loop].batch) \subseteq Sources
      BY <1>3, NoneSet
    <2>2. Sources' \subseteq Sources
      BY <1>2, <1>3, <2>1, SourcesMove, LoopCommits DEF Sources
    <2> QED
      BY <1>4, <2>2, TellingMoves DEF Reading
  <1>7. EndedTells'
    BY <1>2, <1>3, <1>4 DEF Reading, EndedTells
  <1>8. Reaching'
    BY <1>2 DEF Reaching
  <1> QED
    BY <1>4, <1>5, <1>6, <1>7, <1>8 DEF Reading

-----------------------------------------------------------------------------
(* The position of the request.                                            *)

TurnsTo(m) == (1 .. m) \ DetailTo(m)
TurnsOfEntry(e) == {x \in Tells(e) : x.type # "thinking_plan"}

LEMMA DetailParts ==
    ASSUME NEW m \in Nat
    PROVE  /\ IsFiniteSet(DetailTo(m)) /\ IsFiniteSet(TurnsTo(m))
           /\ Cardinality(DetailTo(m)) \in Nat /\ Cardinality(TurnsTo(m)) \in Nat
           /\ Cardinality(TurnsTo(m)) + Cardinality(DetailTo(m)) = m
           /\ \A k : k \in TurnsTo(m) <=> k \in 1 .. m /\ ~ Detail(entries[k])
  <1> DEFINE A == 1 .. m
             D == DetailTo(m)
  <1>1. IsFiniteSet(A) /\ Cardinality(A) = m
    BY FS_Interval
  <1>2. D \subseteq A
    BY DEF DetailTo
  <1>3. \A k : k \in TurnsTo(m) <=> k \in 1 .. m /\ ~ Detail(entries[k])
    BY DEF TurnsTo, DetailTo
  <1>4. TurnsTo(m) = A \ D
    BY DEF TurnsTo
  <1> HIDE DEF A, D
  <1>5. D \in SUBSET A /\ A \cap D = D
    BY <1>2
  <1>6. IsFiniteSet(D)
    BY <1>1, <1>5, FS_Subset
  <1>7. IsFiniteSet(A \ D) /\ Cardinality(A \ D) = Cardinality(A) - Cardinality(A \cap D)
    BY <1>1, FS_Difference
  <1>8. Cardinality(D) \in Nat /\ Cardinality(A \ D) \in Nat
    BY <1>6, <1>7, FS_CardinalityType
  <1>9. Cardinality(A \ D) + Cardinality(D) = m
    BY <1>1, <1>5, <1>7, <1>8
  <1> QED
    BY <1>3, <1>4, <1>6, <1>7, <1>8, <1>9 DEF D

\* Beyond process detail an entry tells a turn; a fold of process detail tells none.
LEMMA TurnEntry ==
    ASSUME NEW e, IsFact(e) \/ WellMade(e), Telling(e)
    PROVE  /\ ~ Detail(e) => TurnsOfEntry(e) # {}
           /\ Detail(e) => TurnsOfEntry(e) = {}
           /\ \A x \in TurnsOfEntry(e) : x \in Mapped /\ x.type # "thinking_plan"
  <1>1. \A x \in TurnsOfEntry(e) : x \in Mapped /\ x.type # "thinking_plan"
    BY DEF TurnsOfEntry, Telling
  <1>2. CASE IsFact(e)
    BY <1>1, <1>2, FactTells DEF Detail, TurnsOfEntry, IsFact
  <1>3. CASE e = historySummaryOf(e.covered)
    <2>1. e.type = "history_summary"
      BY <1>3 DEF historySummaryOf
    <2>2. PICK o \in Tells(e) : o.type = "agent_output"
      BY <2>1 DEF Telling
    <2> QED
      BY <1>1, <2>1, <2>2 DEF Detail, TurnsOfEntry
  <1>4. CASE e = foldProcessDetail(e.covered) /\ \A x \in ToSet(e.covered) : x.type = "thinking_plan"
    <2>1. e.type = "segment_fold" /\ e.content = ToSet(e.covered)
      BY <1>4 DEF foldProcessDetail
    <2>2. Tells(e) = ToSet(e.covered)
      BY <2>1 DEF Tells
    <2> QED
      BY <1>1, <1>4, <2>1, <2>2 DEF Detail, TurnsOfEntry
  <1> QED
    BY <1>2, <1>3, <1>4 DEF WellMade

LEMMA BoundaryReads ==
    ASSUME MappingInv, Reading, requestBoundary
    PROVE  Reading'
  <1> DEFINE n == Len(entries)
             m == endedPrefix
             d == Cardinality(DetailTo(m))
             W == {TurnsOfEntry(entries[k]) : k \in TurnsTo(m)}
  <1>1. loop = [pc |-> loop.pc, read |-> loop.read, seg |-> loop.seg,
                position |-> loop.position, request |-> loop.request, calls |-> loop.calls]
    BY DEF MappingInv, Deciding
  <1>2. /\ loop.pc = "pulled" /\ UNCHANGED <<facts, fold, chain, commit, entries, boundary>>
        /\ loop'.pc = "fixed" /\ loop'.read = loop.read /\ loop'.seg = loop.seg /\ loop'.position = m
    BY <1>1 DEF requestBoundary, chain
  <1>3. loop.seg.consumed # {}
    BY <1>2 DEF Reading, Naming
  <1>4. Naming' /\ Landing' /\ TellingAll' /\ EndedTells' /\ Mapped' = Mapped
    BY <1>2, <1>3, OnlyLoopMoves
  <1>5. /\ m \in 0 .. n /\ n \in Nat /\ m \in Nat
        /\ \A j \in 1 .. n : j <= m <=> Ended(entries, boundary, j)
    BY EndedIs DEF MappingInv, Mapping
  <1>6. \A k \in 1 .. m : /\ k \in 1 .. n /\ entries[k] \in ToSet(entries) /\ Telling(entries[k])
                          /\ IsFact(entries[k]) \/ WellMade(entries[k])
    <2>1. \A k \in 1 .. m : k \in 1 .. n
      BY <1>5
    <2>2. \A k \in 1 .. n : entries[k] \in ToSet(entries)
      BY ListOf DEF MappingInv, Mapping, EntriesIn, Lists
    <2> QED
      BY <2>1, <2>2 DEF MappingInv, Mapping, EntriesIn, Reading, TellingAll, Sources
  <1>7. /\ IsFiniteSet(TurnsTo(m)) /\ d \in Nat /\ Cardinality(TurnsTo(m)) \in Nat
        /\ Cardinality(TurnsTo(m)) + d = m
        /\ \A k : k \in TurnsTo(m) <=> k \in 1 .. m /\ ~ Detail(entries[k])
    BY <1>5, DetailParts
  <1>8. IsFiniteSet(W) /\ Cardinality(W) <= Cardinality(TurnsTo(m)) /\ Cardinality(W) \in Nat
    <2> DEFINE S == TurnsTo(m)
               g == [k \in S |-> TurnsOfEntry(entries[k])]
    <2>1. g \in [S -> W] /\ \A w \in W : \E k \in S : g[k] = w
      OBVIOUS
    <2>2. IsFiniteSet(S)
      BY <1>7
    <2> HIDE DEF W, S, g
    <2>3. g \in Surjection(S, W)
      BY <2>1 DEF Surjection
    <2>4. IsFiniteSet(W) /\ Cardinality(W) <= Cardinality(S)
      BY <2>2, <2>3, FS_Surjection
    <2> QED
      BY <2>4, FS_CardinalityType DEF S
  <1>9. ASSUME NEW w \in W
        PROVE  /\ \A x \in w : x \in Mapped /\ x.type # "thinking_plan"
               /\ \E e \in ToSet(entries) : w \subseteq Tells(e)
    <2>1. PICK k \in TurnsTo(m) : w = TurnsOfEntry(entries[k])
      OBVIOUS
    <2>2. k \in 1 .. m
      BY <1>7
    <2> QED
      BY <1>6, <2>1, <2>2, TurnEntry DEF TurnsOfEntry
  <1>10. ASSUME NEW k \in 1 .. m, ~ Detail(entries[k])
         PROVE  TurnsOfEntry(entries[k]) \in W /\ Tells(entries[k]) \cap UNION W # {}
    <2>1. k \in TurnsTo(m)
      BY <1>7, <1>10
    <2>2. TurnsOfEntry(entries[k]) \in W
      BY <2>1
    <2>3. TurnsOfEntry(entries[k]) # {} /\ TurnsOfEntry(entries[k]) \subseteq Tells(entries[k])
      BY <1>6, <1>10, TurnEntry DEF TurnsOfEntry
    <2> HIDE DEF W
    <2> QED
      BY <2>2, <2>3
  <1>11. ASSUME NEW o \in Mapped, o.type = "agent_output" PROVE o \in UNION W
    <2>1. PICK j \in 1 .. n : Ended(entries, boundary, j) /\ o \in Tells(entries[j])
      BY <1>11 DEF Reading, EndedTells
    <2>2. j \in 1 .. m
      BY <1>5, <2>1
    <2>3. o \in TurnsOfEntry(entries[j])
      BY <1>11, <2>1 DEF TurnsOfEntry
    <2>4. ~ Detail(entries[j])
      BY <1>6, <2>2, <2>3, TurnEntry
    <2>5. TurnsOfEntry(entries[j]) \in W
      BY <1>10, <2>2, <2>4
    <2> HIDE DEF W
    <2> QED
      BY <2>3, <2>5
  <1> HIDE DEF W, d
  <1>12. ASSUME NEW f \in loop.seg.consumed \ loop.seg.transcript, f.type = "external_input"
         PROVE  \E U, e, j : Reaches(f, U, e, j)'
    <2>1. PICK j \in 1 .. n : Ended(entries, boundary, j) /\ entries[j] = f
      BY <1>12 DEF Reading, EndedTells
    <2>2. j \in Nat /\ j <= m /\ \A k \in 1 .. j : k \in 1 .. m
      BY <1>5, <2>1
    <2>3. Cardinality(DetailTo(j)) <= d
      <3>1. DetailTo(j) \in SUBSET DetailTo(m)
        BY <2>2 DEF DetailTo
      <3> QED
        BY <1>5, <3>1, DetailParts, FS_Subset DEF d
    <2>4. \A k \in 1 .. j : Detail(entries[k]) \/ Tells(entries[k]) \cap UNION W # {}
      BY <1>10, <2>2
    <2>5. Cardinality(W) + d <= m
      BY <1>7, <1>8
    <2>6. PICK U, e : U = W /\ e = d
      OBVIOUS
    <2>7. Reaches(f, U, e, j)'
      <3>1. /\ IsFiniteSet(U) /\ e \in Nat /\ Cardinality(U) + e <= loop'.position
            /\ DetailTo(j)' = DetailTo(j)
        BY <1>2, <1>7, <1>8, <2>5, <2>6 DEF DetailTo
      <3> QED
        BY <1>2, <1>4, <1>9, <1>11, <2>1, <2>3, <2>4, <2>6, <3>1 DEF Reaches, n
    <2> QED
      BY <2>7
  <1>13. Reaching'
    BY <1>2, <1>5, <1>12 DEF Reaching
  <1> QED
    BY <1>4, <1>13 DEF Reading

-----------------------------------------------------------------------------
(* The process that follows, and the first one.                            *)

LEMMA RestartReads ==
    ASSUME MappingInv, Reading, Restart
    PROVE  Reading'
  <1>1. /\ UNCHANGED <<facts, products>> /\ boundary' = NoFact /\ judgments' = << >>
        /\ commit' = [c \in Committers |-> Idle]
        /\ loop'.pc = "rest" /\ loop'.seg = NoSegment
        /\ loop'.read = {f \in ToSet(SubSeq(facts, 1, lastAnswerIndex(facts))) : startsRange(f)}
    BY DEF Restart, AtRest
  <1>2. /\ Mapped' = ToSet(facts) /\ MappingInv' /\ PlacedTo(entries', Len(products))
        /\ ProductsIn(products)
    BY RestartPlaces
  <1>3. Outputs' = Outputs /\ Named' = Named
    BY <1>1 DEF Outputs, Named
  <1>4. Naming'
    <2>1. ASSUME NEW f \in Named PROVE f \in loop'.read
      <3>1. startsRange(f)
        BY DEF Reading, Naming
      <3>2. PICK i, k \in 1 .. Len(facts) : i <= k /\ facts[i] = f /\ facts[k].type = "agent_output"
        BY DEF Reading, Naming
      <3>3. f \in ToSet(SubSeq(facts, 1, lastAnswerIndex(facts)))
        BY <3>2, LastAnswer DEF MappingInv, Mapping
      <3> QED
        BY <1>1, <3>1, <3>3
    <2> QED
      BY <1>1, <1>3, <2>1 DEF Reading, Naming, NoSegment
  <1>5. \A c \in Committers : commit'[c].pc = "idle" /\ commit'[c].batch = << >>
    BY <1>1 DEF Idle
  <1>6. Landing'
    BY <1>5 DEF Landing
  <1>7. TellingAll'
    <2>1. MappedKept
      BY <1>2 DEF MappedKept, Mapped
    <2>2. ASSUME NEW f \in ToSet(facts) PROVE Telling(f)'
      <3>1. IsFact(f)
        BY DEF MappingInv, Mapping, FactsIn
      <3> QED
        BY <1>2, <3>1, FactTells DEF Telling
    <2>3. ToSet(entries') \subseteq ToSet(facts) \cup ToSet(products)
      <3>1. \A i \in 1 .. Len(products) : products[i] \in ToSet(products)
        BY <1>2, ListOf DEF ProductsIn, Lists
      <3> QED
        BY <1>2, <3>1 DEF PlacedTo
    <2>4. \A c \in Committers : ToSet(commit'[c].batch) = {}
      BY <1>5, NoneSet
    <2>5. Sources' \subseteq ToSet(facts) \cup Sources
      BY <1>1, <2>3, <2>4, NoneSet DEF Sources
    <2> QED
      BY <1>3, <2>1, <2>2, <2>5, TellingMoves DEF Reading
  <1>8. EndedTells'
    <2>1. ASSUME NEW o \in Mapped', o.type = "agent_output"
          PROVE  \E j \in 1 .. Len(entries') : Ended(entries', boundary', j) /\ o \in Tells(entries'[j])
      <3>1. PICK e \in ToSet(entries') : o \in Tells(e)
        BY <1>2, <2>1 DEF PlacedTo
      <3>2. PICK j \in 1 .. Len(entries') : entries'[j] = e
        BY <1>2, <3>1, ListOf DEF PlacedTo, EntriesIn, Lists
      <3> QED
        BY <1>1, <3>1, <3>2 DEF Ended
    <2> QED
      BY <1>1, <2>1 DEF EndedTells, NoSegment
  <1>9. Reaching'
    BY <1>1 DEF Reaching
  <1> QED
    BY <1>4, <1>6, <1>7, <1>8, <1>9 DEF Reading

LEMMA PastIsAnswered ==
    ASSUME facts = PastFacts
    PROVE  /\ \A o \in Outputs : o.inputs # {}
           /\ \A f \in Named : /\ startsRange(f) /\ \E i \in Past : f = External(i)
                               /\ \E i, k \in 1 .. Len(facts) :
                                     i <= k /\ facts[i] = f /\ facts[k].type = "agent_output"
  <1>0. PICK n \in Nat : \E turns \in [1 .. n -> Past] :
           PastFacts = [k \in 1 .. 2 * n |-> PastTurn(turns, k)]
    BY PastTurns
  <1>1. PICK turns \in [1 .. n -> Past] : PastFacts = [k \in 1 .. 2 * n |-> PastTurn(turns, k)]
    BY <1>0
  <1>2. /\ Len(facts) = 2 * n /\ DOMAIN facts = 1 .. 2 * n
        /\ \A k \in 1 .. 2 * n : facts[k] = PastTurn(turns, k)
    <2> DEFINE m == 2 * n
    <2>1. m \in Nat
      OBVIOUS
    <2>2. facts = [k \in 1 .. m |-> PastTurn(turns, k)]
      BY <1>1
    <2> HIDE DEF m
    <2>3. Len(facts) = m /\ DOMAIN facts = 1 .. m /\ \A k \in 1 .. m : facts[k] = PastTurn(turns, k)
      BY <2>1, <2>2
    <2> QED
      BY <2>3 DEF m
  <1>3. ASSUME NEW o \in Outputs
        PROVE  \E k \in 1 .. 2 * n, q \in 1 .. n :
                  /\ facts[k] = o /\ o.inputs = {External(turns[q])} /\ k - 1 \in 1 .. 2 * n
                  /\ facts[k - 1] = External(turns[q]) /\ k - 1 <= k
    <2>1. PICK k \in 1 .. 2 * n : facts[k] = o /\ o.type = "agent_output"
      BY <1>2 DEF Outputs, ToSet
    <2>2. k % 2 # 1 /\ o = Fact("agent_output", NoFact, {External(turns[(k + 1) \div 2])})
      BY <1>2, <2>1 DEF PastTurn, External, Fact
    <2> DEFINE q == (k + 1) \div 2
    <2>3. k - 1 \in 1 .. 2 * n /\ (k - 1) % 2 = 1 /\ ((k - 1) + 1) \div 2 = q /\ q \in 1 .. n /\ k - 1 <= k
      BY <2>2
    <2>4. o.inputs = {External(turns[q])}
      BY <2>2 DEF Fact
    <2>5. facts[k - 1] = External(turns[q])
      BY <1>2, <2>3 DEF PastTurn
    <2> HIDE DEF q
    <2> QED
      BY <2>1, <2>3, <2>4, <2>5
  <1>4. ASSUME NEW f \in Named
        PROVE  /\ startsRange(f) /\ \E i \in Past : f = External(i)
               /\ \E i, k \in 1 .. Len(facts) :
                     i <= k /\ facts[i] = f /\ facts[k].type = "agent_output"
    <2>1. PICK o \in Outputs : f \in o.inputs
      BY DEF Named
    <2>2. PICK k \in 1 .. 2 * n, q \in 1 .. n :
             /\ facts[k] = o /\ o.inputs = {External(turns[q])} /\ k - 1 \in 1 .. 2 * n
             /\ facts[k - 1] = External(turns[q]) /\ k - 1 <= k
      BY <1>3
    <2>3. f = External(turns[q]) /\ turns[q] \in Past
      BY <2>1, <2>2
    <2>4. startsRange(f)
      BY <2>3 DEF startsRange, External, Fact
    <2>5. facts[k].type = "agent_output"
      BY <2>2 DEF Outputs
    <2> QED
      BY <1>2, <2>2, <2>3, <2>4, <2>5
  <1>5. \A o \in Outputs : o.inputs # {}
    BY <1>3
  <1> QED
    BY <1>4, <1>5

LEMMA ReadingInit == ChainInit => Reading
  <1> SUFFICES ASSUME ChainInit PROVE Reading
    OBVIOUS
  <1>1. /\ facts = PastFacts /\ FactsIn(facts) /\ entries = facts /\ products = << >>
        /\ judgments = << >> /\ boundary = NoFact
        /\ \A c \in Committers : commit[c] = Idle
        /\ loop.pc = "rest" /\ loop.seg = NoSegment /\ loop.read = {External(i) : i \in Past}
    BY PastIsChained DEF ChainInit, AtRest
  <1>2. Naming
    BY <1>1, PastIsAnswered DEF Naming, NoSegment
  <1>3. Mapped = ToSet(facts) /\ Landing
    <2>1. \A c \in Committers : commit[c].pc # "landed"
      BY <1>1 DEF Idle
    <2> QED
      BY <2>1 DEF Mapped, Landing
  <1>4. TellingAll
    <2>1. Sources = ToSet(facts)
      <3>1. \A c \in Committers : commit[c].batch = << >>
        BY <1>1 DEF Idle
      <3> QED
        BY <1>1, <3>1, NoneSet DEF Sources
    <2>2. ASSUME NEW f \in ToSet(facts) PROVE Telling(f)
      <3>1. IsFact(f)
        BY <1>1 DEF FactsIn
      <3> QED
        BY <1>3, <3>1, FactTells DEF Telling
    <2> QED
      BY <2>1, <2>2 DEF TellingAll
  <1>5. EndedTells
    <2>1. ASSUME NEW o \in Mapped
          PROVE  \E j \in 1 .. Len(entries) : Ended(entries, boundary, j) /\ o \in Tells(entries[j])
      <3>1. PICK j \in 1 .. Len(entries) : entries[j] = o
        BY <1>1, <1>3, ListOf DEF FactsIn, Lists
      <3>2. IsFact(o)
        BY <1>1, <1>3 DEF FactsIn
      <3> QED
        BY <1>1, <3>1, <3>2, FactTells DEF Ended
    <2> QED
      BY <1>1, <2>1 DEF EndedTells, NoSegment
  <1>6. Reaching
    BY <1>1 DEF Reaching
  <1> QED
    BY <1>2, <1>3, <1>4, <1>5, <1>6 DEF Reading

LEMMA ReadingStep == MappingInv /\ Reading /\ [ChainNext]_chainVars => Reading'
  <1> SUFFICES ASSUME MappingInv, Reading, [ChainNext]_chainVars PROVE Reading'
    OBVIOUS
  <1>1. ASSUME NEW i \in Inputs, InputLands(i) PROVE Reading'
    <2>1. i \in Committers \ {Loop}
      BY MappedChainAssumption DEF Committers
    <2> QED
      BY <1>1, <2>1, LandReads DEF InputLands
  <1>2. ASSUME NEW n \in Notices, NoticeLands(n) PROVE Reading'
    <2>1. n \in Committers \ {Loop}
      BY MappedChainAssumption DEF Committers
    <2> QED
      BY <1>2, <2>1, LandReads DEF NoticeLands
  <1>3. CASE UNCHANGED chainVars
    <2>1. UNCHANGED <<facts, fold, chain, commit, loop, entries, boundary>>
      BY <1>3 DEF chainVars, fold, chain
    <2>2. loop'.pc = "rest" <=> loop'.seg.consumed = {}
      BY <2>1 DEF Reading, Naming
    <2>3. Naming' /\ Landing' /\ TellingAll' /\ EndedTells' /\ Mapped' = Mapped
      BY <2>1, <2>2, OnlyLoopMoves
    <2>4. Reaching'
      BY <2>1, <2>3, Unmoved DEF MappingInv, Mapping, Reading
    <2> QED
      BY <2>3, <2>4 DEF Reading
  <1> QED
    BY <1>1, <1>2, <1>3, RecordReads, JudgeReads, ApplyReads, PullReads, BoundaryReads,
       AsksReads, CallsRead, RestartReads DEF ChainNext

\* No mapped input, notice or answer is lost, for any number of committers folding
\* beside each other and any number of stops (assembly/compress_consumer.go Execute).
THEOREM TurnsAreKept == ChainSpec => []NoTurnLost
  <1>1. MappingInv => NoTurnLost
    BY DEF MappingInv, Mapping
  <1> QED
    BY <1>1, MappingInit, MappingStep, PTL DEF ChainSpec

\* A restart unfolds nothing, for any products of any number of passes before it
\* (assembly/run.go seedReplay).
THEOREM FoldsAreKept == ChainSpec => FoldSurvives
  <1>1. MappingInv /\ [ChainNext]_chainVars => [Restart => Folded \subseteq Folded']_chainVars
    <2> SUFFICES ASSUME MappingInv, Restart, NEW f \in Folded PROVE f \in Folded'
      OBVIOUS
    <2>1. f \in Mapped /\ f \notin ToSet(entries)
      BY DEF Folded
    <2>2. f \in ToSet(facts) /\ f \in Mapped'
      BY <2>1, RestartPlaces DEF Mapped
    <2>3. PICK p \in ToSet(products) : f \in ToSet(p.covered)
      BY <2>1 DEF MappingInv, Mapping, CoveredIsFiled
    <2>4. PICK i \in 1 .. Len(products) : products[i] = p
      BY <2>3, ListOf DEF MappingInv, Mapping, ProductsIn, Lists
    <2>5. f \notin ToSet(entries')
      BY <2>2, <2>3, <2>4, RestartPlaces DEF PlacedTo
    <2> QED
      BY <2>2, <2>5 DEF Folded
  <1> QED
    BY <1>1, MappingInit, MappingStep, PTL DEF ChainSpec, FoldSurvives

\* What is told once is told by entries that turns tell apart, one for each.
LEMMA WithinPosition ==
    ASSUME EntriesIn(entries), NEW f, NEW W, NEW d, NEW j, Reaches(f, W, d, j), loop.position \in Nat,
           \A x \in Mapped : Cardinality(Told(x)) < 2
    PROVE  j <= loop.position
  <1> DEFINE S == TurnsTo(j)
             Of(k) == {w \in W : Tells(entries[k]) \cap w # {}}
             g == [k \in S |-> CHOOSE w \in W : w \in Of(k)]
  <1>1. j \in 1 .. Len(entries) /\ Len(entries) \in Nat /\ j \in Nat /\ DOMAIN entries = 1 .. Len(entries)
    <2>1. Len(entries) \in Nat /\ DOMAIN entries = 1 .. Len(entries)
      BY ListOf DEF EntriesIn, Lists
    <2> QED
      BY <2>1 DEF Reaches
  <1>2. /\ IsFiniteSet(S) /\ Cardinality(S) \in Nat /\ Cardinality(DetailTo(j)) \in Nat
        /\ Cardinality(S) + Cardinality(DetailTo(j)) = j
        /\ \A k : k \in S <=> k \in 1 .. j /\ ~ Detail(entries[k])
    BY <1>1, DetailParts
  <1>3. ASSUME NEW k \in S PROVE g[k] \in W /\ Tells(entries[k]) \cap g[k] # {} /\ k \in 1 .. Len(entries)
    <2>1. k \in 1 .. j /\ Tells(entries[k]) \cap UNION W # {}
      BY <1>2 DEF Reaches
    <2>2. \E w \in W : w \in Of(k)
      BY <2>1
    <2>3. g[k] \in W /\ g[k] \in Of(k)
      BY <2>2
    <2> QED
      BY <1>1, <2>1, <2>3
  <1>4. ASSUME NEW x \in Mapped, NEW a \in Told(x), NEW b \in Told(x) PROVE a = b
    <2>1. Told(x) \in SUBSET (1 .. Len(entries))
      BY <1>1 DEF Told
    <2>2. IsFiniteSet(Told(x)) /\ Cardinality(Told(x)) \in Nat
      <3>1. IsFiniteSet(1 .. Len(entries))
        BY <1>1, FS_Interval
      <3>2. IsFiniteSet(Told(x))
        BY <2>1, <3>1, FS_Subset
      <3> QED
        BY <3>2, FS_CardinalityType
    <2>3. Cardinality(Told(x)) < 2 /\ Cardinality(Told(x)) # 0
      BY <1>4, <2>2, FS_EmptySet
    <2>4. Cardinality(Told(x)) = 1
      BY <2>2, <2>3
    <2> QED
      BY <1>4, <2>2, <2>4, FS_Singleton
  <1>5. ASSUME NEW w \in W, NEW a \in 1 .. Len(entries), NEW b \in 1 .. Len(entries),
               Tells(entries[a]) \cap w # {}, Tells(entries[b]) \cap w # {}
        PROVE  a = b
    <2>1. PICK e \in ToSet(entries) : w \subseteq Tells(e)
      BY DEF Reaches
    <2>2. PICK k \in 1 .. Len(entries) : entries[k] = e
      BY <2>1, ListOf DEF EntriesIn, Lists
    <2>3. PICK x \in w : x \in Tells(entries[a])
      BY <1>5
    <2>4. PICK y \in w : y \in Tells(entries[b])
      BY <1>5
    <2>5. x \in Mapped /\ y \in Mapped
      BY DEF Reaches
    <2>6. a \in Told(x) /\ k \in Told(x) /\ b \in Told(y) /\ k \in Told(y)
      BY <1>1, <2>1, <2>2, <2>3, <2>4 DEF Told
    <2>7. a = k
      BY <1>4, <2>5, <2>6
    <2>8. b = k
      BY <1>4, <2>5, <2>6
    <2> QED
      BY <2>7, <2>8
  <1> HIDE DEF S, g
  <1>6. g \in Injection(S, W)
    <2>1. g \in [S -> W]
      BY <1>3 DEF g
    <2>2. ASSUME NEW a \in S, NEW b \in S, g[a] = g[b] PROVE a = b
      <3>1. g[a] \in W /\ Tells(entries[a]) \cap g[a] # {} /\ Tells(entries[b]) \cap g[a] # {}
        BY <1>3, <2>2
      <3> QED
        BY <1>3, <1>5, <3>1
    <2> QED
      BY <2>1, <2>2 DEF Injection, IsInjective
  <1>7. IsFiniteSet(W) /\ d \in Nat /\ Cardinality(W) + d <= loop.position /\ Cardinality(DetailTo(j)) <= d
    BY DEF Reaches
  <1>8. Cardinality(S) <= Cardinality(W) /\ Cardinality(W) \in Nat
    BY <1>6, <1>7, FS_Injection, FS_CardinalityType
  <1> QED
    BY <1>1, <1>2, <1>7, <1>8

\* A request carries every input its segment consumes, for any number of commits and
\* folds between the pull and the assembly (assembly/request.go SessionPresented).
THEOREM InputsAreRead == ChainSpec => InputIsRead
  <1>1. ASSUME MappingInv, Reading, AssembleBudgetPrefix, \A f \in Mapped : Cardinality(Told(f)) < 2,
               NEW f \in loop.seg.consumed, f.type = "external_input"
        PROVE  f \in loop'.request.prefix \cup loop'.request.transcript
    <2> DEFINE upto == IF loop.position < Len(entries) THEN loop.position ELSE Len(entries)
    <2>1. loop.pc = "fixed" /\ loop'.request = [prefix |-> ToSet(SubSeq(entries, 1, upto)),
                                                transcript |-> loop.seg.transcript]
      BY <1>1 DEF AssembleBudgetPrefix, MappingInv, Deciding
    <2>2. CASE f \in loop.seg.transcript
      BY <2>1, <2>2
    <2>3. CASE f \notin loop.seg.transcript
      <3>1. PICK W, d, j : Reaches(f, W, d, j)
        BY <1>1, <2>1, <2>3 DEF Reading, Reaching
      <3>2. EntriesIn(entries) /\ Lists(entries) /\ loop.position \in Nat
        BY <1>1, <2>1 DEF MappingInv, Mapping, EntriesIn, Reading, Reaching
      <3>3. j <= loop.position
        BY <1>1, <3>1, <3>2, WithinPosition
      <3>4. j \in 1 .. Len(entries) /\ entries[j] = f /\ Len(entries) \in Nat
        BY <3>1, <3>2, ListOf DEF Reaches, Lists
      <3>5. upto \in 0 .. Len(entries) /\ j \in 1 .. upto
        BY <3>2, <3>3, <3>4
      <3> HIDE DEF upto
      <3>6. f \in ToSet(SubSeq(entries, 1, upto))
        BY <3>2, <3>4, <3>5, PrefixSet
      <3> QED
        BY <2>1, <3>6
    <2> QED
      BY <2>2, <2>3
  <1>2. MappingInv /\ Reading /\ [ChainNext]_chainVars =>
           [AssembleBudgetPrefix /\ (\A f \in Mapped : Cardinality(Told(f)) < 2) =>
              \A f \in loop.seg.consumed :
                 f.type = "external_input" => f \in loop'.request.prefix \cup loop'.request.transcript]_chainVars
    BY <1>1
  <1>3. ChainInit => MappingInv /\ Reading
    BY MappingInit, ReadingInit
  <1>4. MappingInv /\ Reading /\ [ChainNext]_chainVars => (MappingInv /\ Reading)'
    BY MappingStep, ReadingStep
  <1> QED
    BY <1>2, <1>3, <1>4, PTL DEF ChainSpec, InputIsRead
=============================================================================
