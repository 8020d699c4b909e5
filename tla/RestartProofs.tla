--------------------------- MODULE RestartProofs ----------------------------
(***************************************************************************)
(* What a stopped process keeps.  First the approval book: what it lets    *)
(* run and what it asks an approver, for every set of gates and batches,   *)
(* any number of requests, of files that could not be written and of       *)
(* restarts.  Then the task chains: what the carrier owes and answers, and *)
(* what a restart folds them into, for every set of tasks, of storage      *)
(* faults and of crashes.  The two share no state.                         *)
(***************************************************************************)
EXTENDS DurableTasks, Approvals, FiniteSetTheorems, WellFoundedInduction, TLAPS

-----------------------------------------------------------------------------
(* Approvals: the invariant.                                               *)

Types ==
    /\ pairOf \in [Ids -> Pairs \union {None}] /\ minted \in 0..MaxRequests
    /\ evidence \in [Ids -> Ids \union {None}] /\ questions \subseteq Ids
    /\ answers \in [Ids -> Rulings \union {"none"}]
    /\ files \in [Ids -> Rulings \union {"none", "pending"}]
    /\ expired \subseteq Ids /\ outside \in Ids \union {None}
    /\ askers \in [Askers -> [pc : {"idle", "look", "rescan", "relook", "ask"},
                              request : Ids \union {None}]]
    /\ granted \subseteq Ids /\ unwritten \subseteq Ids

\* Nothing is known of an identity that was not minted.
Known == 1..minted
MintedInv ==
    /\ \A i \in Ids : evidence[i] # None => i \in Known /\ evidence[i] \in Known
    /\ questions \subseteq Known
    /\ \A i \in Ids : answers[i] # "none" \/ files[i] # "none" => i \in Known
    /\ outside # None => outside \in Known

\* A ruling is one an approver stated, and a batch that waits asks for its own pair.
RuledInv ==
    /\ \A i \in Ids : "approved" \in {answers[i], files[i]} => i \in granted
    /\ \A b \in Batches : askers[b].pc # "idle" =>
          askers[b].request \in Known /\ pairOf[askers[b].request] = "batch"

\* A request that waits: on the chain, under an identity the book resolves to
\* it, or in its file.
Resolved(i) == \E j \in Ids : evidence[j] = i
Waits(i) == /\ i \notin expired
            /\ \/ i \in questions /\ answers[i] = "none" /\ Resolved(i)
               \/ files[i] = "pending"

\* As long as every ruling reached its file: a file that waits is a question of
\* the chain under its own identity, and one request of a pair waits.
OneWaits ==
    /\ \A i \in Ids : files[i] = "pending" => i \in questions /\ evidence[i] = i
    /\ unwritten = {} =>
          /\ \A i \in Ids : files[i] = "pending" => answers[i] = "none"
          /\ \A i, j \in Ids : Waits(i) /\ Waits(j) /\ pairOf[i] = pairOf[j] => i = j

BookInv == Types /\ MintedInv /\ RuledInv /\ OneWaits

LEMMA IdFacts ==
    /\ Ids \subseteq Nat \ {0} /\ None \notin Ids
    /\ \A n \in 0..MaxRequests : 1..n \subseteq Ids
  BY BoundsAssumption DEF Ids

LEMMA BookInitial == BookInit => BookInv
  <1> SUFFICES ASSUME BookInit PROVE BookInv
    OBVIOUS
  <1>1. Types
    BY BoundsAssumption DEF BookInit, Types, Resting
  <1>2. MintedInv /\ RuledInv /\ OneWaits
    BY DEF BookInit, MintedInv, RuledInv, OneWaits, Waits, Resolved, Resting, Askers
  <1> QED
    BY <1>1, <1>2 DEF BookInv

-----------------------------------------------------------------------------
(* A rescan, or the scan of a boot over an empty chain.                    *)

\* The chain a scan starts from: the one of the process, or none.
Chain(resolved, asked, given) ==
    \/ resolved = evidence /\ asked = questions /\ given = answers
    \/ resolved = [i \in Ids |-> None] /\ asked = {} /\ given = [i \in Ids |-> "none"]

LEMMA RebuiltTypes ==
    ASSUME Types, NEW resolved, NEW asked, NEW given, Chain(resolved, asked, given),
           Rebuilt(resolved, asked, given)
    PROVE  /\ evidence' \in [Ids -> Ids \union {None}] /\ questions' \subseteq Ids
           /\ answers' \in [Ids -> Rulings \union {"none"}]
           /\ files' \in [Ids -> Rulings \union {"none", "pending"}]
  <1>1. /\ resolved \in [Ids -> Ids \union {None}] /\ asked \subseteq Ids
        /\ given \in [Ids -> Rulings \union {"none"}]
    BY DEF Types, Chain
  <1> QED
    BY <1>1 DEF Rebuilt, Types, Settled

\* What each scan makes of one request.
LEMMA RebuiltReads ==
    ASSUME Types, NEW resolved, NEW asked, NEW given, Chain(resolved, asked, given),
           Rebuilt(resolved, asked, given), NEW i \in Ids
    PROVE  LET read == files[i] # "none" /\ i \notin expired
               lands == read /\ files[i] \in Rulings /\ (i \notin asked \/ given[i] = "none")
           IN  /\ evidence'[i] = IF read THEN i ELSE resolved[i]
               /\ i \in questions' <=> i \in asked \/ read
               /\ answers'[i] = IF lands THEN files[i] ELSE given[i]
               /\ files'[i] = IF ~read \/ (lands /\ i \in asked) THEN "none" ELSE files[i]
               /\ resolved[i] \in {evidence[i], None} /\ (i \in asked => i \in questions)
               /\ given[i] \in {answers[i], "none"} /\ (i \in asked => given[i] = answers[i])
  <1>1. /\ resolved[i] \in {evidence[i], None} /\ (i \in asked => i \in questions)
        /\ given[i] \in {answers[i], "none"} /\ (i \in asked => given[i] = answers[i])
    BY DEF Chain
  <1> QED
    BY <1>1 DEF Rebuilt, Settled

LEMMA RebuiltBook ==
    ASSUME BookInv, NEW resolved, NEW asked, NEW given, Chain(resolved, asked, given),
           Rebuilt(resolved, asked, given),
           UNCHANGED <<ids, expired, outside, past>>,
           \A b \in Batches : askers'[b] = askers[b] \/ askers'[b].pc = "idle"
                                \/ (/\ askers'[b] = [askers[b] EXCEPT !.pc = "relook"]
                                    /\ askers[b].pc # "idle")
    PROVE  MintedInv' /\ RuledInv' /\ OneWaits'
  <1> USE DEF BookInv, ids, past
  <1>1. Types
    OBVIOUS
  <1>2. \A i \in Ids :
           LET read == files[i] # "none" /\ i \notin expired
               lands == read /\ files[i] \in Rulings /\ (i \notin asked \/ given[i] = "none")
           IN  /\ evidence'[i] = IF read THEN i ELSE resolved[i]
               /\ i \in questions' <=> i \in asked \/ read
               /\ answers'[i] = IF lands THEN files[i] ELSE given[i]
               /\ files'[i] = IF ~read \/ (lands /\ i \in asked) THEN "none" ELSE files[i]
               /\ resolved[i] \in {evidence[i], None} /\ (i \in asked => i \in questions)
               /\ given[i] \in {answers[i], "none"} /\ (i \in asked => given[i] = answers[i])
    BY <1>1, RebuiltReads
  <1>3. questions' \subseteq Ids
    BY <1>1, RebuiltTypes
  <1>4. MintedInv'
    BY <1>2, <1>3 DEF MintedInv, Known
  <1>5. RuledInv'
    <2>1. ASSUME NEW b \in Batches, askers'[b].pc # "idle"
          PROVE  askers'[b].request = askers[b].request /\ askers[b].pc # "idle"
      <3>1. askers[b] \in [pc : {"idle", "look", "rescan", "relook", "ask"},
                           request : Ids \union {None}]
        BY DEF Types, Askers
      <3> QED
        BY <2>1, <3>1
    <2>2. \A i \in Ids : "approved" \in {answers'[i], files'[i]} => i \in granted'
      BY <1>2 DEF RuledInv
    <2> QED
      BY <2>1, <2>2 DEF RuledInv, Known
  <1>6. \A i \in Ids : files'[i] = "pending" =>
           /\ files[i] = "pending" /\ i \notin expired /\ i \in questions' /\ evidence'[i] = i
    BY <1>2
  <1>7. \A i \in Ids : Waits(i)' => Waits(i)
    <2> SUFFICES ASSUME NEW i \in Ids, Waits(i)' PROVE Waits(i)
      OBVIOUS
    <2>1. CASE files'[i] = "pending"
      BY <1>6, <2>1 DEF Waits
    <2>2. CASE files'[i] # "pending"
      <3>1. i \in questions' /\ answers'[i] = "none" /\ i \notin expired
        BY <2>2 DEF Waits
      <3>2. PICK j \in Ids : evidence'[j] = i
        BY <2>2 DEF Waits, Resolved
      <3>3. CASE files[i] # "none"
        BY <1>2, <3>1, <3>3, <1>1 DEF Types, Rulings, Waits
      <3>4. CASE files[i] = "none"
        <4>1. i \in questions /\ answers[i] = "none"
          BY <1>2, <3>1, <3>4
        <4>2. evidence[j] = i
          BY <1>2, <3>2, <3>4, IdFacts
        <4> QED
          BY <3>1, <4>1, <4>2 DEF Waits, Resolved
      <3> QED
        BY <3>3, <3>4
    <2> QED
      BY <2>1, <2>2
  <1>8. OneWaits'
    <2>1. ASSUME unwritten' = {}, NEW i \in Ids, files'[i] = "pending"
          PROVE  answers'[i] = "none"
      <3>1. files[i] = "pending" /\ answers[i] = "none"
        BY <1>6, <2>1 DEF OneWaits
      <3> QED
        BY <1>2, <3>1 DEF Rulings
    <2>2. ASSUME unwritten' = {}, NEW i \in Ids, NEW j \in Ids, Waits(i)', Waits(j)',
                 pairOf'[i] = pairOf'[j]
          PROVE  i = j
      BY <1>7, <2>2 DEF OneWaits
    <2> QED
      BY <1>6, <2>1, <2>2 DEF OneWaits
  <1> QED
    BY <1>4, <1>5, <1>8

-----------------------------------------------------------------------------
(* A request under a new identity.                                         *)

LEMMA RequestTypes ==
    ASSUME Types, NEW pair \in Pairs, NEW i \in Ids, Request(pair, i), UNCHANGED answers
    PROVE  /\ minted' \in 0..MaxRequests /\ pairOf' \in [Ids -> Pairs \union {None}]
           /\ evidence' \in [Ids -> Ids \union {None}] /\ questions' \subseteq Ids
           /\ files' \in [Ids -> Rulings \union {"none", "pending"}]
           /\ minted + 1 \in Ids
  <1>1. minted + 1 \in Ids /\ minted' \in 0..MaxRequests
    BY BoundsAssumption DEF Request, Types, Ids
  <1> QED
    BY <1>1 DEF Request, WriteFile, Types

LEMMA RequestBook ==
    ASSUME BookInv, NEW pair \in Pairs, NEW i \in Ids, Request(pair, i),
           UNCHANGED <<answers, expired, outside, past>>
    PROVE  /\ MintedInv' /\ OneWaits'
           /\ \A j \in Ids : "approved" \in {answers'[j], files'[j]} => j \in granted'
           /\ i \in Known' /\ pairOf'[i] = pair
           /\ \A j \in Known : j \in Known' /\ pairOf'[j] = pairOf[j]
  <1> USE DEF BookInv, past
  <1>1. Types
    OBVIOUS
  <1>2. PICK new \in Ids : new = minted + 1
    BY <1>1, RequestTypes
  <1>3. /\ pairOf' = [pairOf EXCEPT ![new] = pair] /\ evidence' = [evidence EXCEPT ![new] = i]
        /\ minted' = new /\ minted < MaxRequests
    BY <1>2 DEF Request
  <1>4. Known' = Known \union {new} /\ new \notin Known /\ Known \subseteq Ids
    BY <1>1, <1>2, <1>3, BoundsAssumption DEF Known, Types, Ids
  <1>5. /\ evidence[new] = None /\ answers[new] = "none" /\ files[new] = "none"
        /\ new \notin questions
    BY <1>4, IdFacts DEF MintedInv
  <1>6. \/ i \in Standing(pair) /\ UNCHANGED <<questions, files>>
        \/ /\ Standing(pair) = {} /\ i = new /\ questions' = questions \union {new}
           /\ files' = files \/ files' = [files EXCEPT ![new] = "pending"]
    BY <1>2 DEF Request, WriteFile
  <1>7. ASSUME NEW j \in Standing(pair)
        PROVE  /\ j \in Known /\ j \in Ids /\ pairOf[j] = pair /\ j \notin expired
               /\ j \in questions /\ answers[j] = "none" /\ Resolved(j)
    BY IdFacts DEF Standing, Held, present, MintedInv, Resolved
  <1>8. /\ i \in Known' /\ pairOf'[i] = pair
        /\ \A j \in Known : j \in Known' /\ pairOf'[j] = pairOf[j]
    BY <1>1, <1>3, <1>4, <1>6, <1>7 DEF Types
  <1>9. \A j \in Ids : /\ files'[j] = "approved" <=> files[j] = "approved"
                       /\ files'[j] # "none" => files[j] # "none" \/ j = new
                       /\ files'[j] = "pending" => files[j] = "pending" \/ (j = new /\ i = new)
    BY <1>1, <1>5, <1>6 DEF Types
  <1>10. MintedInv'
    <2>1. \A j \in Ids : evidence'[j] # None => j \in Known' /\ evidence'[j] \in Known'
      BY <1>1, <1>3, <1>4, <1>8 DEF MintedInv, Types
    <2>2. questions' \subseteq Known'
      BY <1>4, <1>6 DEF MintedInv
    <2> QED
      BY <1>4, <1>9, <2>1, <2>2 DEF MintedInv
  <1>11. \A j \in Ids : "approved" \in {answers'[j], files'[j]} => j \in granted'
    BY <1>9 DEF RuledInv
  <1>12. \A j \in Ids : files'[j] = "pending" => j \in questions' /\ evidence'[j] = j
    BY <1>1, <1>3, <1>5, <1>6, <1>9 DEF OneWaits, Types
  <1>13. ASSUME NEW j \in Ids, Waits(j)'
         PROVE  Waits(j) \/ (j = new /\ i = new /\ Standing(pair) = {})
    <2>1. CASE j = new /\ i # new
      BY <1>5, <1>6, <1>9, <1>13, <2>1 DEF Waits
    <2>2. CASE j = new /\ i = new
      <3>1. new \notin Standing(pair)
        BY <1>4, <1>7
      <3> QED
        BY <1>6, <2>2, <3>1
    <2>3. CASE j # new /\ files'[j] = "pending"
      BY <1>9, <1>13, <2>3 DEF Waits
    <2>4. CASE j # new /\ files'[j] # "pending"
      <3>1. j \in questions /\ answers[j] = "none" /\ j \notin expired
        BY <1>6, <1>13, <2>4 DEF Waits
      <3>2. PICK k \in Ids : evidence'[k] = j
        BY <1>13, <2>4 DEF Waits, Resolved
      <3>3. Resolved(j)
        <4>1. CASE k = new
          BY <1>1, <1>3, <1>6, <1>7, <2>4, <3>2, <4>1 DEF Types
        <4>2. CASE k # new
          BY <1>1, <1>3, <3>2, <4>2 DEF Types, Resolved
        <4> QED
          BY <4>1, <4>2
      <3> QED
        BY <3>1, <3>3 DEF Waits
    <2> QED
      BY <2>1, <2>2, <2>3, <2>4
  <1>14. ASSUME unwritten = {}, Standing(pair) = {}, NEW j \in Ids, Waits(j), pairOf[j] = pair
         PROVE  FALSE
    <2>1. j \notin expired /\ j \in questions /\ answers[j] = "none" /\ Resolved(j)
      BY <1>14 DEF Waits, OneWaits, Resolved
    <2>2. j \in Standing(pair)
      BY <1>14, <2>1 DEF Standing, Held, present, Resolved
    <2> QED
      BY <1>14, <2>2
  <1>15. \A j \in Ids : j # new => pairOf'[j] = pairOf[j]
    BY <1>1, <1>3 DEF Types
  <1>16. ASSUME unwritten' = {}, NEW j \in Ids, NEW k \in Ids, Waits(j)', Waits(k)',
                pairOf'[j] = pairOf'[k]
         PROVE  j = k
    <2>1. ASSUME NEW n \in Ids, Waits(n)', n # new PROVE Waits(n) /\ pairOf'[n] = pairOf[n]
      BY <1>13, <1>15, <2>1
    <2>2. ASSUME NEW n \in Ids, Waits(n)', n # new, pairOf'[n] = pairOf'[new], Waits(new)'
          PROVE  FALSE
      <3>1. ~Waits(new)
        BY <1>5 DEF Waits
      <3>2. Standing(pair) = {} /\ pairOf'[new] = pair
        BY <1>1, <1>3, <1>13, <2>2, <3>1 DEF Types
      <3> QED
        BY <1>14, <1>16, <2>1, <2>2, <3>2
    <2> QED
      BY <1>16, <2>1, <2>2 DEF OneWaits
  <1>17. OneWaits'
    <2>1. ASSUME unwritten' = {}, NEW j \in Ids, files'[j] = "pending" PROVE answers'[j] = "none"
      BY <1>5, <1>9, <2>1 DEF OneWaits
    <2> QED
      BY <1>12, <1>16, <2>1 DEF OneWaits
  <1> QED
    BY <1>8, <1>10, <1>11, <1>17

-----------------------------------------------------------------------------
(* A decision of a caller, and one of the approver outside.                *)

LEMMA DecideBook ==
    ASSUME BookInv, NEW id \in Ids, NEW ruling \in Rulings, Decide(id, ruling)
    PROVE  BookInv'
  <1> USE DEF BookInv, ids
  <1>1. PICK i \in Ids : i = evidence[id] /\ i \in Known
    BY DEF Decide, Types, MintedInv
  <1>2. /\ UNCHANGED <<pairOf, minted, evidence, questions, expired, askers, outside>>
        /\ granted' = IF ruling = "approved" THEN granted \union {i} ELSE granted
    BY <1>1 DEF Decide, Grants
  <1>3. CASE answers[i] \in {"none", ruling}
    <2>1. /\ answers' = [answers EXCEPT ![i] = ruling]
          /\ files' = files \/ files' = [files EXCEPT ![i] = ruling]
          /\ unwritten' = IF files' = files /\ files[i] # ruling
                          THEN unwritten \union {i} ELSE unwritten
      BY <1>1, <1>3 DEF Decide, WriteFile
    <2>2. Types'
      BY <1>1, <1>2, <2>1 DEF Types
    <2>3. /\ \A j \in Ids : j # i => answers'[j] = answers[j] /\ files'[j] = files[j]
          /\ answers'[i] = ruling /\ files'[i] \in {files[i], ruling}
          /\ unwritten' = {} => unwritten = {} /\ files'[i] = ruling
      BY <1>1, <2>1 DEF Types
    <2>4. MintedInv'
      BY <1>1, <1>2, <2>3 DEF MintedInv, Known
    <2>5. RuledInv'
      BY <1>1, <1>2, <2>3 DEF RuledInv, Known
    <2>6. \A j \in Ids : files'[j] = "pending" => files[j] = "pending"
      BY <2>3 DEF Rulings
    <2>7. \A j \in Ids : Waits(j)' => Waits(j)
      BY <1>2, <2>3, <2>6 DEF Waits, Resolved, Rulings
    <2>8. OneWaits'
      BY <1>2, <2>3, <2>6, <2>7 DEF OneWaits, Rulings
    <2> QED
      BY <2>2, <2>4, <2>5, <2>8
  <1>4. CASE answers[i] \notin {"none", ruling}
    <2>1. UNCHANGED <<answers, files, unwritten>>
      BY <1>1, <1>4 DEF Decide
    <2>2. Types'
      BY <1>2, <2>1 DEF Types
    <2>3. MintedInv' /\ RuledInv' /\ OneWaits'
      BY <1>2, <2>1 DEF MintedInv, RuledInv, OneWaits, Waits, Resolved, Known
    <2> QED
      BY <2>2, <2>3
  <1> QED
    BY <1>3, <1>4

LEMMA OutsideBook ==
    ASSUME BookInv, NEW ruling \in Rulings, OutsideRules(ruling)
    PROVE  BookInv'
  <1> USE DEF BookInv, ids, book
  <1>1. PICK i \in Ids : i = outside /\ i \in Known
    BY DEF OutsideRules, Types, MintedInv
  <1>2. /\ UNCHANGED <<pairOf, minted, evidence, questions, answers, expired, askers, unwritten>>
        /\ outside' = None
    BY DEF OutsideRules
  <1>3. \/ files' = files /\ granted' = granted
        \/ /\ files' = [files EXCEPT ![i] = ruling]
           /\ granted' = IF ruling = "approved" THEN granted \union {i} ELSE granted
    BY <1>1 DEF OutsideRules, Grants
  <1>4. Types'
    BY <1>1, <1>2, <1>3 DEF Types
  <1>5. \A j \in Ids : files'[j] = files[j] \/ (j = i /\ files'[j] = ruling)
    BY <1>3 DEF Types
  <1>6. MintedInv'
    BY <1>1, <1>2, <1>5 DEF MintedInv, Known
  <1>7. RuledInv'
    BY <1>1, <1>2, <1>3, <1>5 DEF RuledInv, Known
  <1>8. \A j \in Ids : files'[j] = "pending" => files[j] = "pending"
    BY <1>5 DEF Rulings
  <1>9. OneWaits'
    BY <1>2, <1>8 DEF OneWaits, Waits, Resolved
  <1> QED
    BY <1>4, <1>6, <1>7, <1>9

-----------------------------------------------------------------------------
(* The askers.                                                             *)

\* What an asker does alone moves nothing of the book.
LEMMA AskerBook ==
    ASSUME BookInv, UNCHANGED <<ids, book, files, expired, past>>,
           outside' \in Ids \union {None}, outside' # None => outside' \in Known,
           askers' \in [Askers -> [pc : {"idle", "look", "rescan", "relook", "ask"},
                                   request : Ids \union {None}]],
           \A b \in Batches : askers'[b].pc # "idle" =>
               askers[b].pc # "idle" /\ askers'[b].request = askers[b].request
    PROVE  BookInv'
  <1> USE DEF BookInv, ids, book, past
  <1>1. Types'
    BY DEF Types
  <1>2. MintedInv' /\ RuledInv' /\ OneWaits'
    BY DEF MintedInv, RuledInv, OneWaits, Waits, Resolved, Known
  <1> QED
    BY <1>1, <1>2

LEMMA GoTypes ==
    ASSUME Types, NEW a \in Askers, NEW pc \in {"idle", "look", "rescan", "relook", "ask"},
           askers' = [askers EXCEPT ![a].pc = pc] \/ askers' = [askers EXCEPT ![a] = Resting]
    PROVE  /\ askers' \in [Askers -> [pc : {"idle", "look", "rescan", "relook", "ask"},
                                      request : Ids \union {None}]]
           /\ \A b \in Askers : b # a => askers'[b] = askers[b]
           /\ askers'[a] = Resting \/ askers'[a] = [askers[a] EXCEPT !.pc = pc]
           /\ askers'[a].pc # "idle" => askers'[a].request = askers[a].request
  BY DEF Types, Resting

\* A step of one asker that looks, polls or gives up.
LEMMA LookBook ==
    ASSUME BookInv, NEW a \in Askers, Quiet,
           NEW pc \in {"idle", "look", "rescan", "relook", "ask"},
           askers' = [askers EXCEPT ![a].pc = pc] \/ askers' = [askers EXCEPT ![a] = Resting],
           a \in Batches => askers[a].pc # "idle"
    PROVE  BookInv'
  <1>1. Types /\ Batches \subseteq Askers
    BY DEF BookInv, Askers
  <1>2. /\ UNCHANGED <<ids, book, files, expired, past>> /\ outside' = outside
        /\ outside \in Ids \union {None} /\ (outside # None => outside \in Known)
    BY DEF Quiet, BookInv, Types, MintedInv
  <1>3. /\ askers' \in [Askers -> [pc : {"idle", "look", "rescan", "relook", "ask"},
                                   request : Ids \union {None}]]
        /\ \A b \in Batches : askers'[b].pc # "idle" =>
               askers[b].pc # "idle" /\ askers'[b].request = askers[b].request
    BY <1>1, GoTypes
  <1> QED
    BY <1>2, <1>3, AskerBook

LEMMA GateBook ==
    ASSUME BookInv, NEW g \in Gates, GateRules(g) \/ GateAsks(g)
    PROVE  BookInv'
  <1>0. g \in Askers /\ g \notin Batches
    BY AskersAssumption DEF Askers
  <1>1. CASE GateRules(g)
    BY <1>0, <1>1, LookBook DEF GateRules, Go
  <1>2. CASE GateAsks(g)
    <2>1. PICK i \in Ids : Request("call", i)
      BY <1>2 DEF GateAsks, Wants
    <2>2. /\ UNCHANGED <<answers, expired, outside, past>>
          /\ askers' = [askers EXCEPT ![g] = Resting] /\ Types
      BY <1>2 DEF GateAsks, BookInv
    <2>3. askers' \in [Askers -> [pc : {"idle", "look", "rescan", "relook", "ask"},
                                  request : Ids \union {None}]]
          /\ \A b \in Batches : askers'[b] = askers[b]
      BY <1>0, <2>2, GoTypes DEF Askers
    <2>4. Types'
      BY <2>1, <2>2, <2>3, RequestTypes DEF Types, Pairs, past
    <2>5. /\ MintedInv' /\ OneWaits'
          /\ \A j \in Ids : "approved" \in {answers'[j], files'[j]} => j \in granted'
          /\ \A j \in Known : j \in Known' /\ pairOf'[j] = pairOf[j]
      BY <2>1, <2>2, RequestBook DEF Pairs
    <2>6. RuledInv'
      BY <2>3, <2>5 DEF BookInv, RuledInv
    <2> QED
      BY <2>4, <2>5, <2>6 DEF BookInv
  <1> QED
    BY <1>1, <1>2

LEMMA BatchBook ==
    ASSUME BookInv, NEW b \in Batches, BatchParks(b) \/ BatchPolls(b) \/ BatchCancelled(b)
    PROVE  BookInv'
  <1>0. b \in Askers /\ b \notin Gates
    BY AskersAssumption DEF Askers
  <1>1. CASE BatchPolls(b) \/ BatchCancelled(b)
    <2>1. askers[b].pc # "idle" /\ Quiet
      BY <1>1 DEF BatchPolls, BatchCancelled, At
    <2>2. \/ askers' = [askers EXCEPT ![b].pc = "look"]
          \/ askers' = [askers EXCEPT ![b] = Resting]
      BY <1>1 DEF BatchPolls, BatchCancelled
    <2> QED
      BY <1>0, <2>1, <2>2, LookBook
  <1>2. CASE BatchParks(b)
    <2>1. PICK i \in Ids : /\ Request("batch", i)
                           /\ askers' = [askers EXCEPT ![b] = [pc |-> "look", request |-> i]]
      BY <1>0, <1>2 DEF BatchParks, Wants
    <2>2. UNCHANGED <<answers, expired, outside, past>> /\ Types
      BY <1>2 DEF BatchParks, BookInv
    <2>3. /\ askers' \in [Askers -> [pc : {"idle", "look", "rescan", "relook", "ask"},
                                     request : Ids \union {None}]]
          /\ askers'[b].request = i
          /\ \A c \in Batches : c # b => askers'[c] = askers[c]
      BY <1>0, <2>1, <2>2 DEF Types, Askers
    <2>4. Types'
      BY <2>1, <2>2, <2>3, RequestTypes DEF Types, Pairs, past
    <2>5. /\ MintedInv' /\ OneWaits'
          /\ \A j \in Ids : "approved" \in {answers'[j], files'[j]} => j \in granted'
          /\ i \in Known' /\ pairOf'[i] = "batch"
          /\ \A j \in Known : j \in Known' /\ pairOf'[j] = pairOf[j]
      BY <2>1, <2>2, RequestBook DEF Pairs
    <2>6. RuledInv'
      BY <2>3, <2>5 DEF BookInv, RuledInv
    <2> QED
      BY <2>4, <2>5, <2>6 DEF BookInv
  <1> QED
    BY <1>1, <1>2

LEMMA LooksBook ==
    ASSUME BookInv, NEW a \in Askers, Looks(a)
    PROVE  BookInv'
  <1>1. /\ a \in Batches => askers[a].pc # "idle"
        /\ Quiet
        /\ \/ askers' = [askers EXCEPT ![a] = Resting]
           \/ askers' = [askers EXCEPT ![a].pc = "rescan"]
           \/ askers' = [askers EXCEPT ![a].pc = "relook"]
    BY AskersAssumption
       DEF Looks, LooksApproved, LooksUnapproved, RescanNotDue, Looking, At, Go
  <1> QED
    BY <1>1, LookBook

LEMMA RescanBook ==
    ASSUME BookInv, NEW a \in Askers, Rescans(a)
    PROVE  BookInv'
  <1>1. /\ Rebuilt(evidence, questions, answers) /\ Chain(evidence, questions, answers)
        /\ askers[a].pc = "rescan" /\ askers' = [askers EXCEPT ![a].pc = "relook"]
        /\ UNCHANGED <<ids, expired, outside, past>> /\ Types
    BY DEF Rescans, Chain, At, Go, BookInv
  <1>2. /\ askers' \in [Askers -> [pc : {"idle", "look", "rescan", "relook", "ask"},
                                   request : Ids \union {None}]]
        /\ \A b \in Batches : askers'[b] = askers[b] \/ askers'[b].pc = "idle"
              \/ (askers'[b] = [askers[b] EXCEPT !.pc = "relook"] /\ askers[b].pc # "idle")
    <2>1. /\ askers' \in [Askers -> [pc : {"idle", "look", "rescan", "relook", "ask"},
                                     request : Ids \union {None}]]
          /\ \A b \in Askers : b # a => askers'[b] = askers[b]
      BY <1>1, GoTypes
    <2>2. askers'[a] = [askers[a] EXCEPT !.pc = "relook"] /\ askers[a].pc # "idle"
      BY <1>1 DEF Types
    <2>3. ASSUME NEW b \in Batches
          PROVE  \/ askers'[b] = askers[b] \/ askers'[b].pc = "idle"
                 \/ (askers'[b] = [askers[b] EXCEPT !.pc = "relook"] /\ askers[b].pc # "idle")
      <3>1. b \in Askers
        BY DEF Askers
      <3> QED
        BY <2>1, <2>2, <3>1, Zenon
    <2> QED
      BY <2>1, <2>3, Zenon
  <1>3. Types'
    BY <1>1, <1>2, RebuiltTypes DEF Types, ids, past
  <1>4. MintedInv' /\ RuledInv' /\ OneWaits'
    BY <1>1, <1>2, RebuiltBook
  <1> QED
    BY <1>3, <1>4 DEF BookInv

LEMMA RestartBook ==
    ASSUME BookInv, BookRestart
    PROVE  BookInv'
  <1> DEFINE nobody == [i \in Ids |-> None]
             silent == [i \in Ids |-> "none"]
  <1>1. /\ Rebuilt(nobody, {}, silent) /\ Chain(nobody, {}, silent)
        /\ askers' = [a \in Askers |-> Resting]
        /\ UNCHANGED <<ids, expired, outside, past>> /\ Types
    BY DEF BookRestart, Chain, BookInv
  <1> HIDE DEF nobody, silent
  <1>2. /\ askers' \in [Askers -> [pc : {"idle", "look", "rescan", "relook", "ask"},
                                   request : Ids \union {None}]]
        /\ \A b \in Batches : askers'[b] = askers[b] \/ askers'[b].pc = "idle"
              \/ (askers'[b] = [askers[b] EXCEPT !.pc = "relook"] /\ askers[b].pc # "idle")
    <2>1. Resting.pc = "idle" /\ Resting \in [pc : {"idle", "look", "rescan", "relook", "ask"},
                                             request : Ids \union {None}]
      BY DEF Resting
    <2>2. /\ askers' \in [Askers -> [pc : {"idle", "look", "rescan", "relook", "ask"},
                                     request : Ids \union {None}]]
          /\ \A b \in Batches : askers'[b].pc = "idle"
      BY <1>1, <2>1 DEF Askers
    <2> QED
      BY <2>2, Zenon
  <1>3. Types'
    BY <1>1, <1>2, RebuiltTypes DEF Types, ids, past
  <1>4. MintedInv' /\ RuledInv' /\ OneWaits'
    BY <1>1, <1>2, RebuiltBook
  <1> QED
    BY <1>3, <1>4 DEF BookInv

-----------------------------------------------------------------------------
(* The clock, and the step as a whole.                                     *)

\* The request that runs out first is one that was minted.
LEMMA OldestMinted ==
    ASSUME NEW S \in SUBSET Nat, S # {}
    PROVE  Min(S) \in S
  <1> DEFINE below == {p \in Nat \X Nat : p[1] < p[2]}
  <1>1. IsWellFoundedOn(below, Nat)
    BY NatLessThanWellFounded, Zenon DEF OpToRel
  <1>2. PICK n \in S : \A m \in S : <<m, n>> \notin below
    <2> HIDE DEF below
    <2> QED
      BY <1>1, WFMin
  <1>3. ASSUME NEW m \in S PROVE n =< m
    <2>1. m \in Nat /\ n \in Nat
      OBVIOUS
    <2>2. m < n => <<m, n>> \in below
      BY <2>1
    <2> HIDE DEF below
    <2> QED
      BY <1>2, <2>1, <2>2
  <1> QED
    BY <1>3 DEF Min

LEMMA ExpireBook ==
    ASSUME BookInv, Expire
    PROVE  BookInv'
  <1> USE DEF BookInv, ids, book, past
  <1>1. Types /\ Known \subseteq Ids /\ Known \subseteq Nat
    BY BoundsAssumption DEF Types, Known, Ids
  <1>2. PICK i \in Known : expired' = expired \union {i}
    <2> DEFINE S == {i \in Known : i \notin expired}
    <2>1. S # {} /\ S \subseteq Nat /\ expired' = expired \union {Min(S)}
      BY <1>1 DEF Expire, Known
    <2>2. Min(S) \in S
      BY <2>1, OldestMinted
    <2> QED
      BY <2>1, <2>2
  <1>3. UNCHANGED <<pairOf, minted, evidence, questions, answers, files, askers, outside, granted,
                    unwritten>>
    BY DEF Expire
  <1>4. Types'
    BY <1>1, <1>2, <1>3 DEF Types
  <1>5. MintedInv' /\ RuledInv'
    BY <1>3 DEF MintedInv, RuledInv, Known
  <1>6. \A j \in Ids : Waits(j)' => Waits(j)
    BY <1>2, <1>3 DEF Waits, Resolved
  <1>7. OneWaits'
    BY <1>3, <1>6 DEF OneWaits
  <1> QED
    BY <1>4, <1>5, <1>7

LEMMA BookStep == BookInv /\ [BookNext]_bookVars => BookInv'
  <1> SUFFICES ASSUME BookInv, [BookNext]_bookVars PROVE BookInv'
    OBVIOUS
  <1>1. CASE UNCHANGED bookVars
    BY <1>1 DEF bookVars, ids, book, past, BookInv, Types, MintedInv, RuledInv, OneWaits, Waits,
                Resolved, Known
  <1>2. ASSUME NEW i \in Ids, OutsideReads(i) PROVE BookInv'
    <2>1. /\ UNCHANGED <<ids, book, files, expired, past>> /\ outside' = i /\ askers' = askers
          /\ files[i] # "none" /\ i \in Known /\ i # None
      BY <1>2, IdFacts DEF OutsideReads, BookInv, MintedInv
    <2>2. outside' \in Ids \union {None} /\ outside' \in Known
      BY <2>1
    <2>3. askers' \in [Askers -> [pc : {"idle", "look", "rescan", "relook", "ask"},
                                  request : Ids \union {None}]]
      BY <2>1 DEF BookInv, Types
    <2> QED
      BY <2>1, <2>2, <2>3, AskerBook
  <1> QED
    BY <1>1, <1>2, GateBook, BatchBook, LooksBook, RescanBook, DecideBook, OutsideBook,
       ExpireBook, RestartBook DEF BookNext

LEMMA BookInductive == BookSpec => []BookInv
  BY BookInitial, BookStep, PTL DEF BookSpec

-----------------------------------------------------------------------------
(* The theorems.                                                           *)

\* What runs was approved for its own arguments: an asker never reads an
\* approval no approver stated, nor one of another pair (policy.go
\* riskCritical, fuse.go awaitBatch).
THEOREM ApprovedCorrect == BookSpec => []NothingRunsUnapproved
  <1>1. BookInv => NothingRunsUnapproved
    <2> SUFFICES ASSUME BookInv, NEW a \in Askers, Looking(a), NEW i \in Approved(Reads(a))
                 PROVE  i \in granted /\ pairOf[i] = Wants(a)
      BY DEF NothingRunsUnapproved
    <2>1. i \in Ids /\ pairOf[i] = Reads(a) /\ effectiveStatus(i) = "approved"
      BY DEF Approved, Held
    <2>2. answers[i] = "approved"
      BY <2>1 DEF effectiveStatus
    <2>3. Reads(a) = Wants(a)
      BY AskersAssumption DEF Looking, At, Reads, Wants, Askers, BookInv, RuledInv
    <2> QED
      BY <2>1, <2>2, <2>3 DEF BookInv, RuledInv
  <1> QED
    BY <1>1, BookInductive, PTL

\* One held pair is one question, however many callers hold it and however
\* often the process starts over, as long as every ruling reached its file
\* (approval_store.go Request).
THEOREM OneQuestionCorrect == BookSpec => []OneQuestionPerPair
  <1>1. BookInv => OneQuestionPerPair
    <2> SUFFICES ASSUME BookInv, unwritten = {}, NEW pair \in Pairs
                 PROVE  Cardinality(Pending(pair)) <= 1
      BY DEF OneQuestionPerPair
    <2>1. ASSUME NEW i \in Pending(pair) PROVE i \in Ids /\ Waits(i) /\ pairOf[i] = pair
      BY DEF Pending, Held, effectiveStatus, present, Waits, Resolved
    <2>2. \A i, j \in Pending(pair) : i = j
      BY <2>1 DEF BookInv, OneWaits
    <2>3. Pending(pair) = {} \/ \E i : Pending(pair) = {i}
      BY <2>2
    <2>4. Cardinality(Pending(pair)) = 0 \/ Cardinality(Pending(pair)) = 1
      BY <2>3, FS_EmptySet, FS_Singleton
    <2> QED
      BY <2>4
  <1> QED
    BY <1>1, BookInductive, PTL

\* The types of the book, of those who ask and of the bounds.
THEOREM TypeCorrect == BookSpec => []BookTypeOK
  <1> DEFINE Bounded == faults \in 0..MaxFaults /\ stops \in 0..MaxStops
  <1>1. BookInit => Bounded
    BY BoundsAssumption DEF BookInit
  <1>2. Bounded /\ [BookNext]_bookVars => Bounded'
    <2> SUFFICES ASSUME Bounded, [BookNext]_bookVars PROVE Bounded'
      OBVIOUS
    <2>1. /\ faults' = faults \/ (faults < MaxFaults /\ faults' = faults + 1)
          /\ stops' = stops \/ (stops < MaxStops /\ stops' = stops + 1)
      BY DEF BookNext, bookVars, GateRules, GateAsks, BatchParks, BatchPolls, BatchCancelled, Looks,
             LooksApproved, LooksUnapproved, RescanNotDue, Rescans, OutsideReads, Decide,
             OutsideRules, Expire, BookRestart, Quiet, Request, WriteFile
    <2> QED
      BY <2>1, BoundsAssumption
  <1>3. BookInv /\ Bounded => BookTypeOK
    BY DEF BookInv, Types, BookTypeOK
  <1> QED
    BY <1>1, <1>2, <1>3, BookInductive, PTL DEF BookSpec

-----------------------------------------------------------------------------
(* Task chains: the invariant.                                             *)

\* A fact the registry commits: only a settle carries a notice, the one its
\* mutation names, and a handoff names a routing.
SoundFacts ==
    {f \in Facts :
        /\ \A e \in f.outbox : f.mut = Mutation("settle", e.notice.round, Nil)
        /\ f.mut.op = "handoff" => f.mut.at \in Targets}

SoundView(view) ==
    /\ view \in Views
    /\ IsFiniteSet(view.fact)
    /\ \A x \in view.fact : x.fact \in SoundFacts

\* A fact of these names the notice.
Names(facts, notice) == \E f \in facts : \E e \in f.outbox : e.notice = notice

\* What holds whatever becomes of the process.
StorageInv ==
    /\ SoundView(mem) /\ SoundView(disk)
    /\ promised \subseteq disk.fact
    /\ \A x \in disk.consume : Names(Stored(disk, x[1]), x[2])
    /\ crashes \in 0 .. MaxCrashes
    /\ process \in {"up", "down", "refused"}
    /\ receipts \subseteq (Tasks \X Notices) /\ accepted \subseteq (Tasks \X Notices)
    /\ held \subseteq Tasks /\ parked \subseteq Tasks
    /\ chain \in [Tasks -> SUBSET Facts]
    /\ task \in [Tasks -> Records]
    /\ \A t \in Tasks : IsFiniteSet(task[t].muts)
    /\ process = "down" => accepted = {} /\ parked = {}

\* A view over what the disk stores, as the tables of the process know them:
\* both hold every fact and every receipt of the tables, and an answer is never
\* on the disk alone.
Covers(view, stored) ==
    /\ SoundView(view) /\ SoundView(stored)
    /\ \A t \in Tasks : chain[t] \subseteq Stored(view, t) \cap Stored(stored, t)
    /\ stored.consume \subseteq view.consume /\ stored.reject \subseteq view.reject
    /\ receipts \subseteq Confirmed(stored)

OwedFromChain ==
    \A t \in held : \A o \in task[t].owed : \E f \in chain[t] :
        o.env \in f.outbox /\ o.rev = f.rev

\* A notice with a stored receipt waits in the mailbox, or was answered before
\* this process started and the registry owes it no more.
ConsumedInv ==
    \A x \in mem.consume :
        \/ x \in accepted
        \/ /\ x \in receipts
           /\ x[1] \in held => \A o \in task[x[1]].owed : o.env.notice # x[2]

RunningInv ==
    /\ Covers(mem, disk)
    /\ \A x \in promised : x.fact \in chain[x.task]
    /\ \A x \in accepted \cup mem.consume : Names(chain[x[1]], x[2])
    /\ OwedFromChain
    /\ ConsumedInv

FaultInv == StorageInv /\ (process = "up" => RunningInv)

-----------------------------------------------------------------------------
(* Folding a chain.                                                        *)

\* Induction over the naturals, on the set of the numbers a fact holds of.
LEMMA EveryNat ==
    ASSUME NEW S, 0 \in S, \A n \in Nat : n \in S => n + 1 \in S
    PROVE  Nat \subseteq S
  <1> DEFINE without == Nat \ S
             below == {p \in Nat \X Nat : p[1] < p[2]}
  <1> SUFFICES ASSUME without # {} PROVE FALSE
    OBVIOUS
  <1>1. IsWellFoundedOn(below, Nat)
    BY NatLessThanWellFounded, Zenon DEF OpToRel
  <1>2. PICK n \in without : \A m \in without : <<m, n>> \notin below
    <2> HIDE DEF below
    <2> QED
      BY <1>1, WFMin
  <1>3. n \in Nat /\ n # 0 /\ n \notin S
    OBVIOUS
  <1>4. n - 1 \in Nat /\ n - 1 < n /\ (n - 1) + 1 = n
    BY <1>3
  <1>5. <<n - 1, n>> \in below
    BY <1>3, <1>4
  <1> HIDE DEF below
  <1>6. n - 1 \in S
    BY <1>2, <1>4, <1>5
  <1> QED
    BY <1>3, <1>4, <1>6

\* The fold is a function of how many links it took.
LinkAt(links, n) == CHOOSE f \in links : f.rev = n

IsFold(g, links, k) ==
    g = [n \in 0 .. k |-> IF n = 0 THEN OpenTool(Blank)
                          ELSE FoldLink(g[n - 1], LinkAt(links, n - 1))]

LEMMA FoldExists ==
    ASSUME NEW links
    PROVE  \A k \in Nat : \E g : IsFold(g, links, k)
  <1> DEFINE S == {k \in Nat : \E g : IsFold(g, links, k)}
  <1>1. 0 \in S
    <2> DEFINE g == [n \in 0 .. 0 |-> OpenTool(Blank)]
    <2>1. g = [n \in 0 .. 0 |-> IF n = 0 THEN OpenTool(Blank)
                                ELSE FoldLink(g[n - 1], LinkAt(links, n - 1))]
      OBVIOUS
    <2> QED
      BY <2>1 DEF IsFold
  <1>2. ASSUME NEW k \in Nat, k \in S PROVE k + 1 \in S
    <2>1. PICK g : IsFold(g, links, k)
      BY <1>2
    <2> DEFINE last == FoldLink(g[k], LinkAt(links, k))
               h == [n \in 0 .. (k + 1) |-> IF n = k + 1 THEN last ELSE g[n]]
               step == [n \in 0 .. (k + 1) |->
                          IF n = 0 THEN OpenTool(Blank)
                          ELSE FoldLink(h[n - 1], LinkAt(links, n - 1))]
    <2>2. \A n \in 0 .. k : g[n] = IF n = 0 THEN OpenTool(Blank)
                                   ELSE FoldLink(g[n - 1], LinkAt(links, n - 1))
      BY <2>1 DEF IsFold
    <2>3. ASSUME NEW n \in 0 .. (k + 1) PROVE h[n] = step[n]
      <3>1. CASE n = k + 1
        <4>1. n # 0 /\ n - 1 = k /\ n - 1 # k + 1 /\ n - 1 \in 0 .. (k + 1)
          BY <3>1
        <4>2. h[n - 1] = g[k]
          BY <4>1
        <4>3. h[n] = last
          BY <3>1
        <4>4. step[n] = FoldLink(h[n - 1], LinkAt(links, n - 1))
          BY <4>1
        <4> QED
          BY <4>1, <4>2, <4>3, <4>4
      <3>2. CASE n # k + 1
        <4>1. n \in 0 .. k
          BY <3>2
        <4>2. h[n] = g[n]
          BY <3>2
        <4>3. CASE n = 0
          BY <2>2, <4>1, <4>2, <4>3
        <4>4. CASE n # 0
          <5>1. n - 1 # k + 1 /\ n - 1 \in 0 .. (k + 1)
            BY <4>1, <4>4
          <5>2. h[n - 1] = g[n - 1]
            BY <5>1
          <5>3. step[n] = FoldLink(h[n - 1], LinkAt(links, n - 1))
            BY <4>4
          <5> QED
            BY <2>2, <4>1, <4>2, <4>4, <5>2, <5>3
        <4> QED
          BY <4>3, <4>4
      <3> QED
        BY <3>1, <3>2
    <2>4. h = step
      <3> HIDE DEF last
      <3> QED
        BY <2>3
    <2>5. IsFold(h, links, k + 1)
      BY <2>4 DEF IsFold
    <2> QED
      BY <2>5
  <1>3. Nat \subseteq S
    <2> HIDE DEF S
    <2> QED
      BY <1>1, <1>2, EveryNat
  <1> QED
    BY <1>3

LEMMA ReplayIsFold ==
    ASSUME NEW links, Cardinality(links) \in Nat
    PROVE  \E g : IsFold(g, links, Cardinality(links)) /\ Replay(links) = g[Cardinality(links)]
  <1> DEFINE k == Cardinality(links)
             g == CHOOSE g : IsFold(g, links, k)
  <1>1. IsFold(g, links, k)
    BY FoldExists
  <1>2. Replay(links) = g[k]
    BY DEF Replay, IsFold, LinkAt
  <1> QED
    BY <1>1, <1>2

-----------------------------------------------------------------------------
(* A chain that follows.                                                   *)

RevsOf(facts) == {f.rev : f \in facts}

\* The revisions of a chain that follows are the numbers below its length, and
\* each is the revision of one fact.
LEMMA ImageOfFinite ==
    ASSUME NEW S, IsFiniteSet(S), NEW f
    PROVE  LET T == {f[x] : x \in S}
           IN  /\ IsFiniteSet(T) /\ Cardinality(T) \in Nat
               /\ Cardinality(T) <= Cardinality(S)
               /\ Cardinality(T) = Cardinality(S) =>
                    \A x, y \in S : f[x] = f[y] => x = y
  <1> DEFINE T == {f[x] : x \in S}
             g == [x \in S |-> f[x]]
  <1>1. g \in Surjection(S, T)
    BY DEF Surjection
  <1>2. /\ IsFiniteSet(T) /\ Cardinality(T) <= Cardinality(S)
        /\ Cardinality(T) = Cardinality(S) <=> g \in Injection(S, T)
    BY <1>1, FS_Surjection
  <1>3. g \in Injection(S, T) => \A x, y \in S : f[x] = f[y] => x = y
    BY DEF Injection, IsInjective
  <1>4. Cardinality(T) \in Nat
    BY <1>2, FS_CardinalityType
  <1> QED
    BY <1>2, <1>3, <1>4

LEMMA BelowRevision ==
    ASSUME NEW revs \in SUBSET Nat, \A r \in revs : r = 0 \/ (r - 1) \in revs,
           NEW n \in revs
    PROVE  0 .. n \subseteq revs
  <1> DEFINE S == {d \in Nat : d <= n => n - d \in revs}
  <1>1. 0 \in S
    OBVIOUS
  <1>2. ASSUME NEW d \in Nat, d \in S PROVE d + 1 \in S
    <2>1. CASE d + 1 <= n
      <3>1. d <= n /\ n - d \in Nat /\ n - d # 0
        BY <2>1
      <3>2. n - d \in revs
        BY <1>2, <3>1
      <3>3. (n - d) - 1 \in revs
        BY <3>1, <3>2
      <3>4. (n - d) - 1 = n - (d + 1)
        OBVIOUS
      <3> QED
        BY <3>3, <3>4
    <2> QED
      BY <2>1
  <1>3. Nat \subseteq S
    <2> HIDE DEF S
    <2> QED
      BY <1>1, <1>2, EveryNat
  <1> SUFFICES ASSUME NEW m \in 0 .. n PROVE m \in revs
    OBVIOUS
  <1>4. n \in Nat /\ m \in Nat /\ n - m \in Nat /\ n - m <= n /\ n - (n - m) = m
    OBVIOUS
  <1>5. n - m \in S
    BY <1>3, <1>4
  <1> QED
    BY <1>4, <1>5

LEMMA FollowsIsInterval ==
    ASSUME NEW facts \in SUBSET Facts, IsFiniteSet(facts), Follows(facts)
    PROVE  /\ Cardinality(facts) \in Nat
           /\ RevsOf(facts) = 0 .. (Cardinality(facts) - 1)
           /\ \A f, g \in facts : f.rev = g.rev => f = g
  <1> DEFINE revs == RevsOf(facts)
             k == Cardinality(facts)
             revOf == [f \in facts |-> f.rev]
  <1>1. revs = {revOf[f] : f \in facts}
    BY DEF RevsOf
  <1>2. Cardinality(revs) = k /\ \A r \in revs : r = 0 \/ (r - 1) \in revs
    BY DEF Follows, RevsOf
  <1>3. /\ IsFiniteSet(revs) /\ k \in Nat
        /\ \A f, g \in facts : revOf[f] = revOf[g] => f = g
    <2> HIDE DEF revOf, revs
    <2> QED
      BY <1>1, <1>2, ImageOfFinite
  <1>4. revs \in SUBSET Nat
    BY DEF RevsOf, Facts
  <1>5. ASSUME NEW n \in revs PROVE n \in 0 .. (k - 1)
    <2>1. n \in Nat /\ 0 .. n \subseteq revs
      BY <1>2, <1>4, BelowRevision
    <2>2. Cardinality(0 .. n) = n + 1
      BY <2>1, FS_Interval
    <2>3. Cardinality(0 .. n) <= k
      BY <1>2, <1>3, <2>1, FS_Subset
    <2> QED
      BY <1>3, <2>1, <2>2, <2>3
  <1>6. Cardinality(0 .. (k - 1)) = k /\ IsFiniteSet(0 .. (k - 1))
    <2>1. k - 1 \in Int
      BY <1>3
    <2>2. /\ IsFiniteSet(0 .. (k - 1))
          /\ Cardinality(0 .. (k - 1)) = IF 0 > k - 1 THEN 0 ELSE (k - 1) - 0 + 1
      BY <2>1, FS_Interval
    <2> QED
      BY <1>3, <2>2
  <1>7. revs = 0 .. (k - 1)
    <2>1. revs \subseteq 0 .. (k - 1)
      BY <1>5
    <2> HIDE DEF revs, k
    <2> QED
      BY <1>2, <1>6, <2>1, FS_Subset
  <1>8. \A f, g \in facts : f.rev = g.rev => f = g
    BY <1>3
  <1> QED
    BY <1>3, <1>7, <1>8

\* The links of a chain, as the fold takes them.
LinksOf(t, facts, answered) == {Unowed(t, f, answered) : f \in facts}

LEMMA UnowedLink ==
    ASSUME NEW t, NEW f \in Facts, NEW answered
    PROVE  /\ Unowed(t, f, answered) \in Facts
           /\ Unowed(t, f, answered).mut = f.mut
           /\ Unowed(t, f, answered).rev = f.rev
           /\ Unowed(t, f, answered).to = f.to
           /\ \A e : e \in Unowed(t, f, answered).outbox <=>
                e \in f.outbox /\ <<t, e.notice>> \notin answered
  BY DEF Unowed, Facts

\* A chain numbered from zero, one fact to a revision.
Numbered(facts) ==
    /\ facts \in SUBSET Facts /\ IsFiniteSet(facts)
    /\ \A n \in 0 .. (Cardinality(facts) - 1) : \E f \in facts : f.rev = n
    /\ \A f \in facts : f.rev \in 0 .. (Cardinality(facts) - 1)
    /\ \A f, g \in facts : f.rev = g.rev => f = g

LEMMA FollowsIsNumbered ==
    ASSUME NEW facts \in SUBSET Facts, IsFiniteSet(facts)
    PROVE  Follows(facts) <=> Numbered(facts)
  <1>1. ASSUME Follows(facts) PROVE Numbered(facts)
    <2>1. /\ RevsOf(facts) = 0 .. (Cardinality(facts) - 1)
          /\ \A f, g \in facts : f.rev = g.rev => f = g
      BY <1>1, FollowsIsInterval
    <2> QED
      BY <2>1 DEF Numbered, RevsOf
  <1>2. ASSUME Numbered(facts) PROVE Follows(facts)
    <2> DEFINE k == Cardinality(facts)
    <2>1. k \in Nat
      BY FS_CardinalityType
    <2>2. RevsOf(facts) = 0 .. (k - 1)
      BY <1>2 DEF Numbered, RevsOf
    <2>3. Cardinality(0 .. (k - 1)) = k
      <3> DEFINE top == k - 1
      <3>1. top \in Int /\ 0 \in Int /\ k = top + 1 /\ (0 > top => top = -1)
        BY <2>1
      <3> HIDE DEF k, top
      <3>2. Cardinality(0 .. top) = IF 0 > top THEN 0 ELSE top - 0 + 1
        BY <3>1, FS_Interval, Zenon
      <3>3. Cardinality(0 .. top) = k
        BY <3>1, <3>2
      <3> QED
        BY <3>3 DEF top
    <2>4. \A r \in 0 .. (k - 1) : r = 0 \/ (r - 1) \in 0 .. (k - 1)
      BY <2>1
    <2> QED
      BY <2>2, <2>3, <2>4 DEF Follows, RevsOf
  <1> QED
    BY <1>1, <1>2

LEMMA LinkOfNumber ==
    ASSUME NEW t, NEW answered, NEW facts, Numbered(facts)
    PROVE  /\ Cardinality(facts) \in Nat
           /\ Cardinality(LinksOf(t, facts, answered)) = Cardinality(facts)
           /\ \A f \in facts :
                LinkAt(LinksOf(t, facts, answered), f.rev) = Unowed(t, f, answered)
  <1> DEFINE links == LinksOf(t, facts, answered)
             linkOf == [f \in facts |-> Unowed(t, f, answered)]
             revOf == [l \in links |-> l.rev]
             k == Cardinality(facts)
  <1>1. k \in Nat
    BY FS_CardinalityType DEF Numbered
  <1>2. links = {linkOf[f] : f \in facts}
    BY DEF LinksOf
  <1>3. IsFiniteSet(links) /\ Cardinality(links) \in Nat /\ Cardinality(links) <= k
    <2> HIDE DEF linkOf, links
    <2> QED
      BY <1>2, ImageOfFinite DEF Numbered
  <1>4. ASSUME NEW f \in facts PROVE Unowed(t, f, answered).rev = f.rev
    <2>1. f \in Facts
      BY DEF Numbered
    <2> QED
      BY <2>1 DEF Unowed, Facts
  <1>5. {revOf[l] : l \in links} = 0 .. (k - 1)
    <2>1. \A l \in links : \E f \in facts : l = Unowed(t, f, answered) /\ l.rev = f.rev
      BY <1>4 DEF LinksOf
    <2>2. \A f \in facts : \E l \in links : l.rev = f.rev
      BY <1>4 DEF LinksOf
    <2>3. \A l \in links : revOf[l] = l.rev
      OBVIOUS
    <2> HIDE DEF links, revOf
    <2>4. \A l \in links : revOf[l] \in 0 .. (k - 1)
      BY <2>1, <2>3 DEF Numbered
    <2>5. \A n \in 0 .. (k - 1) : \E l \in links : revOf[l] = n
      BY <2>2, <2>3 DEF Numbered
    <2> QED
      BY <2>4, <2>5
  <1>6. Cardinality(0 .. (k - 1)) = k
    <2>1. Cardinality(0 .. (k - 1)) = IF 0 > k - 1 THEN 0 ELSE (k - 1) - 0 + 1
      BY <1>1, FS_Interval
    <2> QED
      BY <1>1, <2>1
  <1>7. k <= Cardinality(links)
    <2> HIDE DEF revOf, links, k
    <2> QED
      BY <1>3, <1>5, <1>6, ImageOfFinite
  <1>8. Cardinality(links) = k
    BY <1>1, <1>3, <1>7
  <1>9. ASSUME NEW f \in facts
        PROVE  LinkAt(links, f.rev) = Unowed(t, f, answered)
    <2>1. Unowed(t, f, answered) \in links
      BY DEF LinksOf
    <2>2. LinkAt(links, f.rev) \in links /\ LinkAt(links, f.rev).rev = f.rev
      BY <1>4, <2>1 DEF LinkAt
    <2>3. PICK g \in facts : LinkAt(links, f.rev) = Unowed(t, g, answered)
      BY <2>2 DEF LinksOf
    <2>4. g.rev = f.rev
      BY <1>4, <2>2, <2>3
    <2>5. g = f
      BY <2>4 DEF Numbered
    <2> QED
      BY <2>3, <2>5
  <1> QED
    BY <1>1, <1>8, <1>9

\* What the fold of a chain is: it takes the facts in the order of their
\* revisions, each without the notices a receipt answers.
IsRun(g, t, facts, answered) ==
    /\ g[0] = OpenTool(Blank)
    /\ \A f \in facts : g[f.rev + 1] = FoldLink(g[f.rev], Unowed(t, f, answered))

LEMMA ReplayIsRun ==
    ASSUME NEW t, NEW answered, NEW facts, Numbered(facts)
    PROVE  \E g : /\ IsRun(g, t, facts, answered)
                  /\ Replay(LinksOf(t, facts, answered)) = g[Cardinality(facts)]
  <1> DEFINE links == LinksOf(t, facts, answered)
             k == Cardinality(facts)
  <1>1. k \in Nat /\ Cardinality(links) = k
    BY LinkOfNumber
  <1>2. PICK g : IsFold(g, links, k) /\ Replay(links) = g[k]
    BY <1>1, ReplayIsFold
  <1>3. \A n \in 0 .. k : g[n] = IF n = 0 THEN OpenTool(Blank)
                                 ELSE FoldLink(g[n - 1], LinkAt(links, n - 1))
    BY <1>2 DEF IsFold
  <1>4. g[0] = OpenTool(Blank)
    BY <1>1, <1>3
  <1>5. ASSUME NEW f \in facts
        PROVE  g[f.rev + 1] = FoldLink(g[f.rev], Unowed(t, f, answered))
    <2>1. f.rev \in 0 .. (k - 1)
      BY DEF Numbered
    <2>2. f.rev + 1 \in 0 .. k /\ f.rev + 1 # 0 /\ (f.rev + 1) - 1 = f.rev
      BY <1>1, <2>1
    <2>3. g[f.rev + 1] = FoldLink(g[f.rev], LinkAt(links, f.rev))
      BY <1>3, <2>2
    <2> QED
      BY <2>3, LinkOfNumber
  <1> QED
    BY <1>2, <1>4, <1>5 DEF IsRun

-----------------------------------------------------------------------------
(* What one link does, and what a whole run keeps.                         *)

\* What holds of the first record and is kept by every link holds at the end.
LEMMA RunInduction ==
    ASSUME NEW facts, Numbered(facts), NEW P, 0 \in P,
           \A f \in facts : f.rev \in P => f.rev + 1 \in P
    PROVE  Cardinality(facts) \in P
  <1> DEFINE k == Cardinality(facts)
             S == {n \in Nat : n <= k => n \in P}
  <1>1. k \in Nat
    BY FS_CardinalityType DEF Numbered
  <1>2. 0 \in S
    OBVIOUS
  <1>3. ASSUME NEW n \in Nat, n \in S PROVE n + 1 \in S
    <2>1. CASE n + 1 <= k
      <3>1. n \in 0 .. (k - 1) /\ n <= k
        BY <1>1, <2>1
      <3>2. PICK f \in facts : f.rev = n
        BY <3>1 DEF Numbered
      <3>3. n \in P
        BY <1>3, <3>1
      <3> QED
        BY <3>2, <3>3
    <2> QED
      BY <2>1
  <1>4. Nat \subseteq S
    <2> HIDE DEF S
    <2> QED
      BY <1>2, <1>3, EveryNat
  <1> QED
    BY <1>1, <1>4


-----------------------------------------------------------------------------
(* One link.                                                               *)

LEMMA SoundFact ==
    ASSUME NEW f \in SoundFacts
    PROVE  /\ f \in Facts /\ f.mut \in Mutations /\ f.mut.op \in MutationOps
           /\ f.mut.n \in Nat /\ f.rev \in Nat /\ f.to \in Statuses
           /\ f.outbox \in SUBSET Envelopes
           /\ \A e \in f.outbox : f.mut = Mutation("settle", e.notice.round, Nil)
           /\ f.mut.op = "handoff" => f.mut.at \in Targets
  BY DEF SoundFacts, Facts, Mutations

LEMMA UnowedSound ==
    ASSUME NEW t, NEW f \in SoundFacts, NEW answered
    PROVE  Unowed(t, f, answered) \in SoundFacts
  <1> DEFINE l == Unowed(t, f, answered)
  <1>1. f \in Facts
    BY SoundFact
  <1>2. /\ l \in Facts /\ l.mut = f.mut
        /\ \A e : e \in l.outbox <=> e \in f.outbox /\ <<t, e.notice>> \notin answered
    BY <1>1, UnowedLink
  <1>3. \A e \in l.outbox : l.mut = Mutation("settle", e.notice.round, Nil)
    BY <1>2, SoundFact
  <1>4. l.mut.op = "handoff" => l.mut.at \in Targets
    BY <1>2, SoundFact
  <1> QED
    BY <1>2, <1>3, <1>4 DEF SoundFacts

\* The round a fact encodes: the notices of a sound fact never raise it.
EncodedRound(round, mut) ==
    IF mut.op \in {"reactivate", "resume"} THEN round + 1
    ELSE IF mut.op \in {"settle", "rollback"} THEN Larger(round, mut.n) ELSE round

LEMMA RoundReplayed ==
    ASSUME NEW round \in Nat, NEW f \in SoundFacts
    PROVE  /\ ReplayedRound(round, f) = EncodedRound(round, f.mut)
           /\ EncodedRound(round, f.mut) \in Nat
  <1> DEFINE opened  == IF f.mut.op \in {"reactivate", "resume"} THEN round + 1 ELSE round
             encoded == IF f.mut.op \in {"settle", "rollback"}
                        THEN Larger(opened, f.mut.n) ELSE opened
  <1>1. f.mut.n \in Nat
    BY SoundFact
  <1>2. encoded = EncodedRound(round, f.mut) /\ encoded \in Nat
    BY <1>1 DEF EncodedRound, Larger
  <1>3. ASSUME NEW e \in f.outbox PROVE ~(e.notice.round > encoded)
    <2>1. f.mut = Mutation("settle", e.notice.round, Nil)
      BY SoundFact
    <2>2. f.mut.op = "settle" /\ f.mut.n = e.notice.round
      BY <2>1 DEF Mutation
    <2>3. encoded = Larger(round, f.mut.n)
      BY <2>2
    <2>4. encoded >= f.mut.n
      BY <1>1, <2>3 DEF Larger
    <2> HIDE DEF encoded
    <2> QED
      BY <1>1, <1>2, <2>2, <2>4
  <1>4. ReplayedRound(round, f) = encoded
    BY <1>3 DEF ReplayedRound
  <1> QED
    BY <1>2, <1>4

OpenedBy(f) == {[env |-> e, rev |-> f.rev, kind |-> "awaiting"] : e \in f.outbox}

Reclassified(owed) == {[o EXCEPT !.kind = "handed_off"] : o \in owed}

\* What a fact makes of a record, whoever applies it: the registry on a commit
\* or the fold of a restart.
LinkedTo(r, f, s) ==
    /\ s \in Records /\ IsFiniteSet(s.muts)
    /\ s.status = f.to /\ s.revision = f.rev + 1
    /\ s.round = EncodedRound(r.round, f.mut)
    /\ s.handoff = IF f.mut.op = "handoff" THEN f.mut.at ELSE r.handoff
    /\ s.owed = (IF f.mut.op = "handoff" THEN Reclassified(r.owed) ELSE r.owed)
                    \cup OpenedBy(f)

LEMMA LinkStep ==
    ASSUME NEW r \in Records, IsFiniteSet(r.muts), NEW f \in SoundFacts
    PROVE  LinkedTo(r, f, FoldLink(r, f))
  <1> DEFINE moved   == [r EXCEPT !.status = f.to, !.revision = f.rev + 1,
                                  !.muts = r.muts \cup {f}]
             routed  == IF f.mut.op = "handoff" THEN HandedOff(moved, f.mut.at) ELSE moved
             rounded == [routed EXCEPT !.round = ReplayedRound(routed.round, f),
                                       !.owed  = routed.owed \cup OpenedBy(f)]
  <1>0. /\ f \in Facts /\ f.rev + 1 \in Nat /\ f.to \in Statuses
        /\ f.mut.op = "handoff" => f.mut.at \in Targets
        /\ f.outbox \in SUBSET Envelopes /\ f.rev \in Nat
    BY SoundFact
  <1>1. IsFiniteSet(r.muts \cup {f}) /\ r.muts \cup {f} \in SUBSET Facts
    BY <1>0, FS_AddElement DEF Records
  <1>2. /\ moved \in Records /\ moved.muts = r.muts \cup {f}
        /\ moved.status = f.to /\ moved.revision = f.rev + 1
        /\ moved.round = r.round /\ moved.handoff = r.handoff /\ moved.owed = r.owed
    BY <1>0, <1>1 DEF Records
  <1>3. Reclassified(r.owed) \in SUBSET Obligations
    BY DEF Reclassified, Records, Obligations
  <1>4. /\ routed \in Records /\ routed.muts = moved.muts
        /\ routed.status = f.to /\ routed.revision = f.rev + 1
        /\ routed.round = r.round
        /\ routed.handoff = IF f.mut.op = "handoff" THEN f.mut.at ELSE r.handoff
        /\ routed.owed = IF f.mut.op = "handoff" THEN Reclassified(r.owed) ELSE r.owed
    <2> HIDE DEF moved
    <2>1. CASE f.mut.op = "handoff"
      <3>1. HandedOff(moved, f.mut.at) =
              [moved EXCEPT !.handoff = f.mut.at, !.owed = Reclassified(r.owed)]
        BY <1>2 DEF HandedOff, Reclassified
      <3> QED
        BY <1>0, <1>2, <1>3, <2>1, <3>1 DEF Records
    <2>2. CASE f.mut.op # "handoff"
      BY <1>2, <2>2
    <2> QED
      BY <2>1, <2>2
  <1>5. r.round \in Nat
    BY DEF Records
  <1>6. /\ ReplayedRound(routed.round, f) = EncodedRound(r.round, f.mut)
        /\ EncodedRound(r.round, f.mut) \in Nat
    BY <1>4, <1>5, RoundReplayed
  <1>7. OpenedBy(f) \in SUBSET Obligations
    BY <1>0 DEF OpenedBy, Obligations
  <1>8. /\ rounded \in Records /\ rounded.muts = r.muts \cup {f}
        /\ rounded.status = f.to /\ rounded.revision = f.rev + 1
        /\ rounded.round = EncodedRound(r.round, f.mut)
        /\ rounded.handoff = routed.handoff
        /\ rounded.owed = routed.owed \cup OpenedBy(f)
    <2> HIDE DEF routed
    <2>1. routed.owed \cup OpenedBy(f) \in SUBSET Obligations
      BY <1>4, <1>7 DEF Records
    <2> QED
      BY <1>2, <1>4, <1>6, <2>1 DEF Records
  <1>9. FoldLink(r, f) = IF IsTerminal(f.to) THEN CloseTools(rounded) ELSE rounded
    BY DEF FoldLink, OpenedBy
  <1> HIDE DEF moved, routed, rounded
  <1>10. /\ CloseTools(rounded) \in Records
         /\ CloseTools(rounded).muts = rounded.muts
         /\ CloseTools(rounded).status = rounded.status
         /\ CloseTools(rounded).revision = rounded.revision
         /\ CloseTools(rounded).round = rounded.round
         /\ CloseTools(rounded).handoff = rounded.handoff
         /\ CloseTools(rounded).owed = rounded.owed
    BY <1>8 DEF CloseTools, Records
  <1>11. CASE IsTerminal(f.to)
    BY <1>1, <1>4, <1>8, <1>9, <1>10, <1>11 DEF LinkedTo
  <1>12. CASE ~IsTerminal(f.to)
    BY <1>1, <1>4, <1>8, <1>9, <1>12 DEF LinkedTo
  <1> QED
    BY <1>11, <1>12

LEMMA BlankRecord ==
    /\ Blank \in Records /\ OpenTool(Blank) \in Records
    /\ OpenTool(Blank).muts = {} /\ IsFiniteSet({})
    /\ OpenTool(Blank).status = "accepted" /\ OpenTool(Blank).revision = 0
    /\ OpenTool(Blank).round = 1 /\ OpenTool(Blank).handoff = Nil
    /\ OpenTool(Blank).owed = {} /\ Blank.owed = {} /\ Blank.muts = {}
  <1>1. Blank \in Records
    BY DEF Blank, Records, Statuses
  <1>2. OpenTool(Blank) = [Blank EXCEPT !.tools = 1]
    BY DEF OpenTool, Blank
  <1>3. OpenTool(Blank) \in Records
    BY <1>1, <1>2 DEF Records
  <1>4. /\ OpenTool(Blank).muts = {}
        /\ OpenTool(Blank).status = "accepted" /\ OpenTool(Blank).revision = 0
        /\ OpenTool(Blank).round = 1 /\ OpenTool(Blank).handoff = Nil
        /\ OpenTool(Blank).owed = {} /\ Blank.owed = {} /\ Blank.muts = {}
    BY <1>2 DEF Blank
  <1> QED
    BY <1>1, <1>3, <1>4, FS_EmptySet

\* A process started over a chain that follows holds a record of the right type,
\* and owes notices of the chain no receipt answers.
LEMMA ReplayOwes ==
    ASSUME NEW t, NEW answered, NEW facts \in SUBSET SoundFacts, Numbered(facts)
    PROVE  LET r == Replay(LinksOf(t, facts, answered))
           IN  /\ r \in Records /\ IsFiniteSet(r.muts)
               /\ \A o \in r.owed :
                    /\ <<t, o.env.notice>> \notin answered
                    /\ \E f \in facts : o.env \in f.outbox /\ o.rev = f.rev
  <1> DEFINE k == Cardinality(facts)
             Owes(o) == /\ <<t, o.env.notice>> \notin answered
                        /\ \E f \in facts : o.env \in f.outbox /\ o.rev = f.rev
  <1>1. PICK g : IsRun(g, t, facts, answered) /\ Replay(LinksOf(t, facts, answered)) = g[k]
    BY ReplayIsRun
  <1> DEFINE P == {n \in Nat : /\ g[n] \in Records /\ IsFiniteSet(g[n].muts)
                               /\ \A o \in g[n].owed : Owes(o)}
  <1>2. 0 \in P
    <2>1. g[0] = OpenTool(Blank)
      BY <1>1 DEF IsRun
    <2> QED
      BY <2>1, BlankRecord
  <1>3. ASSUME NEW f \in facts, f.rev \in P PROVE f.rev + 1 \in P
    <2> DEFINE r == g[f.rev]
               l == Unowed(t, f, answered)
               s == g[f.rev + 1]
    <2>1. s = FoldLink(r, l)
      BY <1>1 DEF IsRun
    <2>2. r \in Records /\ IsFiniteSet(r.muts) /\ \A o \in r.owed : Owes(o)
      BY <1>3
    <2>3. l \in SoundFacts
      BY UnowedSound
    <2> HIDE DEF r, s, l
    <2>4. /\ s \in Records /\ IsFiniteSet(s.muts)
          /\ s.owed = (IF l.mut.op = "handoff" THEN Reclassified(r.owed) ELSE r.owed)
                         \cup OpenedBy(l)
      BY <2>1, <2>2, <2>3, LinkStep DEF LinkedTo
    <2>5. ASSUME NEW o \in s.owed PROVE Owes(o)
      <3>1. CASE o \in r.owed
        BY <2>2, <3>1
      <3>2. CASE o \in Reclassified(r.owed)
        <4>1. PICK p \in r.owed : o = [p EXCEPT !.kind = "handed_off"]
          BY <3>2 DEF Reclassified
        <4>2. p \in Obligations
          BY <2>2 DEF Records
        <4>3. o.env = p.env /\ o.rev = p.rev
          BY <4>1, <4>2 DEF Obligations
        <4> QED
          BY <2>2, <4>3
      <3>3. CASE o \in OpenedBy(l)
        <4>1. PICK e \in l.outbox : o = [env |-> e, rev |-> l.rev, kind |-> "awaiting"]
          BY <3>3 DEF OpenedBy
        <4>2. /\ l.rev = f.rev
              /\ \A d : d \in l.outbox <=> d \in f.outbox /\ <<t, d.notice>> \notin answered
          BY SoundFact, UnowedLink DEF l
        <4>3. o.env = e /\ o.rev = f.rev
          BY <4>1, <4>2
        <4>4. e \in f.outbox /\ <<t, e.notice>> \notin answered
          BY <4>1, <4>2
        <4> QED
          BY <4>3, <4>4
      <3> QED
        BY <2>4, <3>1, <3>2, <3>3
    <2>6. f.rev + 1 \in Nat
      BY <1>3
    <2> QED
      BY <2>4, <2>5, <2>6 DEF s
  <1>4. k \in P
    <2> HIDE DEF P
    <2> QED
      BY <1>2, <1>3, RunInduction
  <1> QED
    BY <1>1, <1>4

-----------------------------------------------------------------------------
(* What the registry makes of a record is what the fold makes of it.       *)

LEMMA OpenedByType ==
    ASSUME NEW f \in Facts
    PROVE  OpenedBy(f) \in SUBSET Obligations
  BY DEF OpenedBy, Facts, Obligations

LEMMA AppliedRecord ==
    ASSUME NEW r \in Records, IsFiniteSet(r.muts), NEW f \in Facts
    PROVE  LET s == Applied(r, f)
           IN  /\ s \in Records /\ IsFiniteSet(s.muts)
               /\ s.status = f.to /\ s.revision = f.rev + 1
               /\ s.round = r.round /\ s.handoff = r.handoff
               /\ s.owed = r.owed \cup OpenedBy(f)
  <1> DEFINE known == {g \in r.muts : g.mut # f.mut}
  <1>1. IsFiniteSet(known \cup {f})
    <2>1. IsFiniteSet(known)
      BY FS_Subset
    <2> QED
      BY <2>1, FS_AddElement
  <1>2. known \cup {f} \in SUBSET Facts
    BY DEF Records
  <1>3. r.owed \cup OpenedBy(f) \in SUBSET Obligations
    BY OpenedByType DEF Records
  <1>4. f.to \in Statuses /\ f.rev + 1 \in Nat
    BY DEF Facts
  <1>5. Applied(r, f) = [r EXCEPT !.status = f.to, !.revision = f.rev + 1,
                                  !.muts = known \cup {f},
                                  !.owed = r.owed \cup OpenedBy(f), !.old = FALSE]
    BY DEF Applied, OpenedBy
  <1> HIDE DEF known
  <1> QED
    BY <1>1, <1>2, <1>3, <1>4, <1>5 DEF Records

\* Two records that differ in their tool obligations alone.
SameTask(s, r) ==
    /\ s \in Records /\ s.muts = r.muts /\ s.status = r.status
    /\ s.revision = r.revision /\ s.round = r.round
    /\ s.handoff = r.handoff /\ s.owed = r.owed

LEMMA ToolsRecord ==
    ASSUME NEW r \in Records
    PROVE  SameTask(OpenTool(r), r) /\ SameTask(CloseTools(r), r)
  BY DEF OpenTool, CloseTools, SameTask, Records

\* A fact that opens no round and routes nothing, on a record of its own round.
LEMMA AppliedLinked ==
    ASSUME NEW r \in Records, IsFiniteSet(r.muts), NEW f \in SoundFacts,
           f.mut.op # "handoff", EncodedRound(r.round, f.mut) = r.round
    PROVE  /\ LinkedTo(r, f, Applied(r, f))
           /\ LinkedTo(r, f, CloseTools(Applied(r, f)))
           /\ LinkedTo(r, f, OpenTool(Applied(r, f)))
           /\ LinkedTo(r, f, Advanced(r, f))
  <1> DEFINE s == Applied(r, f)
  <1>1. f \in Facts
    BY SoundFact
  <1>2. /\ s \in Records /\ IsFiniteSet(s.muts)
        /\ s.status = f.to /\ s.revision = f.rev + 1
        /\ s.round = r.round /\ s.handoff = r.handoff
        /\ s.owed = r.owed \cup OpenedBy(f)
    BY <1>1, AppliedRecord
  <1> HIDE DEF s
  <1>3. LinkedTo(r, f, s)
    BY <1>2 DEF LinkedTo
  <1>4. SameTask(OpenTool(s), s) /\ SameTask(CloseTools(s), s)
    BY <1>2, ToolsRecord
  <1>5. LinkedTo(r, f, CloseTools(s)) /\ LinkedTo(r, f, OpenTool(s))
    BY <1>3, <1>4 DEF LinkedTo, SameTask
  <1>6. Advanced(r, f) = IF IsTerminal(f.to) THEN CloseTools(s) ELSE s
    BY DEF Advanced, s
  <1> QED
    BY <1>3, <1>5, <1>6 DEF s

LEMMA MutationFields ==
    ASSUME NEW op \in MutationOps, NEW n \in Nat, NEW at \in Targets \cup {Nil}
    PROVE  /\ Mutation(op, n, at) \in Mutations /\ Mutation(op, n, at).op = op
           /\ Mutation(op, n, at).n = n /\ Mutation(op, n, at).at = at
  BY DEF Mutation, Mutations

\* A fact without a notice.
LEMMA QuietFact ==
    ASSUME NEW op \in MutationOps, NEW n \in Nat, NEW at \in Targets \cup {Nil},
           NEW rev \in Nat, NEW to \in Statuses, op = "handoff" => at \in Targets
    PROVE  LET f == Fact(Mutation(op, n, at), rev, to, {})
           IN  /\ f \in SoundFacts /\ f.mut = Mutation(op, n, at) /\ f.rev = rev
               /\ f.to = to /\ f.outbox = {} /\ OpenedBy(f) = {}
  <1> DEFINE m == Mutation(op, n, at)
             f == Fact(m, rev, to, {})
  <1>1. m \in Mutations /\ m.op = op /\ m.at = at
    BY MutationFields
  <1> HIDE DEF m
  <1>2. f \in Facts /\ f.mut = m /\ f.rev = rev /\ f.to = to /\ f.outbox = {}
    BY <1>1 DEF Fact, Facts
  <1>3. OpenedBy(f) = {}
    BY <1>2 DEF OpenedBy
  <1> QED
    BY <1>1, <1>2, <1>3 DEF SoundFacts, m

LEMMA SettleFactSound ==
    ASSUME NEW r \in Records, NEW kind \in {"settled", "failed"}
    PROVE  LET f == Fact(Mutation("settle", r.round, Nil), r.revision, kind,
                         {Envelope(Notice(r.round, kind), RouteOf(r))})
           IN  /\ f \in SoundFacts /\ f.mut = Mutation("settle", r.round, Nil)
               /\ f.rev = r.revision /\ f.to = kind
               /\ f.outbox = {Envelope(Notice(r.round, kind), RouteOf(r))}
  <1> DEFINE m == Mutation("settle", r.round, Nil)
             e == Envelope(Notice(r.round, kind), RouteOf(r))
             f == Fact(m, r.revision, kind, {e})
  <1>1. r.round \in Nat /\ r.revision \in Nat /\ r.handoff \in Targets \cup {Nil}
    BY DEF Records
  <1>2. m \in Mutations /\ m.op = "settle"
    BY <1>1, MutationFields DEF MutationOps
  <1>3. RouteOf(r) \in Targets
    BY <1>1, RoutingAssumption DEF RouteOf
  <1>4. e \in Envelopes /\ e.notice.round = r.round
    BY <1>1, <1>3 DEF Envelope, Notice, Envelopes, Notices, TerminalKinds
  <1> HIDE DEF m, e
  <1>5. /\ f \in Facts /\ f.mut = m /\ f.rev = r.revision /\ f.to = kind
        /\ f.outbox = {e}
    BY <1>1, <1>2, <1>4 DEF Fact, Facts, Statuses
  <1>6. \A d \in f.outbox : f.mut = Mutation("settle", d.notice.round, Nil)
    BY <1>4, <1>5 DEF m
  <1> QED
    BY <1>2, <1>5, <1>6 DEF SoundFacts, m, e

\* Every operation of a held task commits a sound fact at the revision of its
\* record, and makes of the record what the fold of a restart would.
Linked(t, f, s) ==
    f.rev = task[t].revision /\ LinkedTo(task[t], f, s) /\ Commit(t, f, s)

TaskCommit(t) ==
    \/ \E kind \in {"settled", "failed"} : Settle(t, kind)
    \/ Park(t) \/ CutApproval(t) \/ Reactivate(t) \/ Rollback(t)
    \/ \E target \in Targets : Handoff(t, target)

LEMMA TaskCommitLinked ==
    ASSUME NEW t \in Tasks, task[t] \in Records, IsFiniteSet(task[t].muts),
           TaskCommit(t)
    PROVE  \E f \in SoundFacts : \E s : Linked(t, f, s)
  <1> DEFINE r == task[t]
  <1>0. /\ r \in Records /\ IsFiniteSet(r.muts) /\ r.round \in Nat
        /\ r.revision \in Nat /\ r.status \in Statuses
    BY DEF Records
  <1>1. ASSUME NEW kind \in {"settled", "failed"}, Settle(t, kind)
        PROVE  \E f \in SoundFacts : \E s : Linked(t, f, s)
    <2> DEFINE f == Fact(Mutation("settle", r.round, Nil), r.revision, kind,
                         {Envelope(Notice(r.round, kind), RouteOf(r))})
    <2>1. f \in SoundFacts /\ f.mut = Mutation("settle", r.round, Nil) /\ f.rev = r.revision
      BY <1>0, SettleFactSound
    <2>2. Commit(t, f, Advanced(r, f))
      BY <1>1 DEF Settle
    <2> HIDE DEF f
    <2>3. f.mut.op = "settle" /\ f.mut.n = r.round
      BY <2>1 DEF Mutation
    <2>4. EncodedRound(r.round, f.mut) = r.round
      BY <2>3 DEF EncodedRound, Larger
    <2>5. LinkedTo(r, f, Advanced(r, f))
      BY <1>0, <2>1, <2>3, <2>4, AppliedLinked
    <2> QED
      BY <2>1, <2>2, <2>5 DEF Linked
  <1>2. ASSUME NEW op \in {"await", "cut", "rollback"},
               NEW n \in Nat, NEW to \in Statuses, op = "rollback" => n = r.round
        PROVE  LET f == Fact(Mutation(op, n, Nil), r.revision, to, {})
               IN  /\ f \in SoundFacts /\ f.rev = r.revision
                   /\ LinkedTo(r, f, Advanced(r, f))
                   /\ LinkedTo(r, f, CloseTools(Applied(r, f)))
    <2> DEFINE f == Fact(Mutation(op, n, Nil), r.revision, to, {})
    <2>1. f \in SoundFacts /\ f.mut = Mutation(op, n, Nil) /\ f.rev = r.revision
      BY <1>0, QuietFact DEF MutationOps
    <2> HIDE DEF f
    <2>2. f.mut.op = op /\ f.mut.n = n
      BY <2>1 DEF Mutation
    <2>3. EncodedRound(r.round, f.mut) = r.round
      BY <1>2, <2>2 DEF EncodedRound, Larger
    <2> QED
      BY <1>0, <2>1, <2>2, <2>3, AppliedLinked DEF f
  <1>3. CASE Park(t)
    <2> DEFINE f == Fact(Mutation("await", 0, Nil), r.revision, "awaiting_approval", {})
    <2>1. Commit(t, f, Advanced(r, f))
      BY <1>3 DEF Park
    <2>2. f \in SoundFacts /\ f.rev = r.revision /\ LinkedTo(r, f, Advanced(r, f))
      BY <1>2 DEF Statuses
    <2> QED
      BY <2>1, <2>2 DEF Linked
  <1>4. CASE CutApproval(t)
    <2> DEFINE f == Fact(Mutation("cut", 0, Nil), r.revision, "cancelled", {})
    <2>1. Commit(t, f, Advanced(r, f))
      BY <1>4 DEF CutApproval
    <2>2. f \in SoundFacts /\ f.rev = r.revision /\ LinkedTo(r, f, Advanced(r, f))
      BY <1>2 DEF Statuses
    <2> QED
      BY <2>1, <2>2 DEF Linked
  <1>5. CASE Rollback(t)
    <2> DEFINE f == Fact(Mutation("rollback", r.round, Nil), r.revision, "settled", {})
    <2>1. Commit(t, f, CloseTools(Applied(r, f)))
      BY <1>5 DEF Rollback
    <2>2. f \in SoundFacts /\ f.rev = r.revision /\ LinkedTo(r, f, CloseTools(Applied(r, f)))
      BY <1>0, <1>2 DEF Statuses
    <2> QED
      BY <2>1, <2>2 DEF Linked
  <1>6. ASSUME NEW op PROVE CountOf(r, op) + 1 \in Nat
    <2>1. IsFiniteSet({f \in r.muts : f.mut.op = op})
      BY <1>0, FS_Subset
    <2>2. CountOf(r, op) \in Nat
      BY <2>1, FS_CardinalityType DEF CountOf
    <2> QED
      BY <2>2
  <1>7. CASE Reactivate(t)
    <2> DEFINE n == CountOf(r, "reactivate") + 1
               f == Fact(Mutation("reactivate", n, Nil), r.revision, "running", {})
               a == Applied(r, f)
               s == [a EXCEPT !.round = r.round + 1]
    <2>1. Commit(t, f, Reentered(r, f))
      BY <1>7 DEF Reactivate
    <2>2. n \in Nat
      BY <1>6
    <2> HIDE DEF n
    <2>3. /\ f \in SoundFacts /\ f.mut = Mutation("reactivate", n, Nil)
          /\ f.rev = r.revision /\ f \in Facts
      <3>1. "reactivate" \in MutationOps /\ "running" \in Statuses
        BY DEF MutationOps, Statuses
      <3>2. /\ f \in SoundFacts /\ f.mut = Mutation("reactivate", n, Nil)
            /\ f.rev = r.revision
        BY <1>0, <2>2, <3>1, QuietFact
      <3> QED
        BY <3>2, SoundFact
    <2> HIDE DEF f
    <2>4. f.mut.op = "reactivate"
      BY <2>3 DEF Mutation
    <2>5. EncodedRound(r.round, f.mut) = r.round + 1
      BY <2>4 DEF EncodedRound
    <2>6. /\ a \in Records /\ IsFiniteSet(a.muts)
          /\ a.status = f.to /\ a.revision = f.rev + 1
          /\ a.handoff = r.handoff /\ a.owed = r.owed \cup OpenedBy(f)
      BY <1>0, <2>3, AppliedRecord
    <2> HIDE DEF a
    <2>7. LinkedTo(r, f, s)
      BY <1>0, <2>4, <2>5, <2>6 DEF LinkedTo, Records
    <2>8. s \in Records
      BY <2>7 DEF LinkedTo
    <2>9. SameTask(OpenTool(s), s)
      BY <2>8, ToolsRecord
    <2> HIDE DEF s
    <2>10. LinkedTo(r, f, OpenTool(s))
      BY <2>7, <2>9 DEF LinkedTo, SameTask
    <2>11. Reentered(r, f) = OpenTool(s)
      BY DEF Reentered, s, a
    <2> QED
      BY <2>1, <2>3, <2>10, <2>11 DEF Linked
  <1>8. ASSUME NEW target \in Targets, Handoff(t, target)
        PROVE  \E f \in SoundFacts : \E s : Linked(t, f, s)
    <2> DEFINE n == CountOf(r, "handoff") + 1
               f == Fact(Mutation("handoff", n, target), r.revision, r.status, {})
               a == Applied(r, f)
               s == HandedOff(a, target)
    <2>1. Commit(t, f, s)
      BY <1>8 DEF Handoff
    <2>2. n \in Nat
      BY <1>6
    <2> HIDE DEF n
    <2>3. /\ f \in SoundFacts /\ f.mut = Mutation("handoff", n, target)
          /\ f.rev = r.revision /\ f \in Facts /\ OpenedBy(f) = {}
      <3>1. "handoff" \in MutationOps
        BY DEF MutationOps
      <3>2. /\ f \in SoundFacts /\ f.mut = Mutation("handoff", n, target)
            /\ f.rev = r.revision /\ OpenedBy(f) = {}
        BY <1>0, <2>2, <3>1, QuietFact
      <3> QED
        BY <3>2, SoundFact
    <2> HIDE DEF f
    <2>4. f.mut.op = "handoff" /\ f.mut.at = target
      BY <2>3 DEF Mutation
    <2>5. EncodedRound(r.round, f.mut) = r.round
      BY <2>4 DEF EncodedRound
    <2>6. /\ a \in Records /\ IsFiniteSet(a.muts)
          /\ a.status = f.to /\ a.revision = f.rev + 1
          /\ a.round = r.round /\ a.owed = r.owed
      <3>1. /\ a \in Records /\ IsFiniteSet(a.muts)
            /\ a.status = f.to /\ a.revision = f.rev + 1
            /\ a.round = r.round /\ a.owed = r.owed \cup OpenedBy(f)
        BY <1>0, <2>3, AppliedRecord
      <3> HIDE DEF a
      <3> QED
        BY <2>3, <3>1
    <2> HIDE DEF a
    <2>7. Reclassified(r.owed) \in SUBSET Obligations
      BY <1>0 DEF Reclassified, Records, Obligations
    <2>8. s = [a EXCEPT !.handoff = target, !.owed = Reclassified(r.owed)]
      BY <2>6 DEF HandedOff, Reclassified
    <2> HIDE DEF s
    <2>9. LinkedTo(r, f, s)
      BY <2>3, <2>4, <2>5, <2>6, <2>7, <2>8 DEF LinkedTo, Records
    <2> QED
      BY <2>1, <2>3, <2>9 DEF Linked
  <1> QED
    BY <1>1, <1>3, <1>4, <1>5, <1>7, <1>8 DEF TaskCommit

-----------------------------------------------------------------------------
(* Writes.                                                                 *)

LEMMA ViewFields ==
    ASSUME NEW view \in Views
    PROVE  /\ DOMAIN view = {"fact", "spec", "consume", "reject"}
           /\ view.fact \in SUBSET [task : Tasks, fact : Facts]
           /\ view.spec \in SUBSET Tasks
           /\ view.consume \in SUBSET (Tasks \X Notices)
           /\ view.reject \in SUBSET (Tasks \X Notices)
  BY DEF Views

\* A barrier that stopped left each shard as it was or as it was to be.
LEMMA StoppedView ==
    ASSUME NEW view \in Views, NEW stored \in Views, NEW i
    PROVE  LET d == StoppedAt(view, stored, i)
           IN  /\ d \in Views
               /\ d.fact = view.fact \/ d.fact = stored.fact
               /\ d.spec = view.spec \/ d.spec = stored.spec
               /\ d.consume = view.consume \/ d.consume = stored.consume
               /\ d.reject = view.reject \/ d.reject = stored.reject
  <1> DEFINE d == StoppedAt(view, stored, i)
             In(s) == \E j \in 1 .. (i - 1) : Shards[j] = s
  <1>1. d = [s \in {"fact", "spec", "consume", "reject"} |->
                IF In(s) THEN view[s] ELSE stored[s]]
    BY ViewFields DEF StoppedAt
  <1> HIDE DEF In, d
  <1>2. /\ d.fact = IF In("fact") THEN view.fact ELSE stored.fact
        /\ d.spec = IF In("spec") THEN view.spec ELSE stored.spec
        /\ d.consume = IF In("consume") THEN view.consume ELSE stored.consume
        /\ d.reject = IF In("reject") THEN view.reject ELSE stored.reject
    BY <1>1
  <1>3. d = [fact |-> d.fact, spec |-> d.spec, consume |-> d.consume, reject |-> d.reject]
    BY <1>1
  <1>4. /\ d.fact \in SUBSET [task : Tasks, fact : Facts]
        /\ d.spec \in SUBSET Tasks
        /\ d.consume \in SUBSET (Tasks \X Notices)
        /\ d.reject \in SUBSET (Tasks \X Notices)
    BY <1>2, ViewFields
  <1>5. d \in Views
    BY <1>3, <1>4 DEF Views
  <1> QED
    BY <1>2, <1>5 DEF d

LEMMA StoppedCovers ==
    ASSUME NEW view, NEW stored, Covers(view, stored), NEW i
    PROVE  Covers(view, StoppedAt(view, stored, i))
  <1> DEFINE d == StoppedAt(view, stored, i)
  <1>1. view \in Views /\ stored \in Views
    BY DEF Covers, SoundView
  <1>2. /\ d \in Views
        /\ d.fact = view.fact \/ d.fact = stored.fact
        /\ d.consume = view.consume \/ d.consume = stored.consume
        /\ d.reject = view.reject \/ d.reject = stored.reject
    BY <1>1, StoppedView
  <1> HIDE DEF d
  <1>3. SoundView(d)
    BY <1>2 DEF Covers, SoundView
  <1>4. \A t \in Tasks : Stored(d, t) = Stored(view, t) \/ Stored(d, t) = Stored(stored, t)
    BY <1>2 DEF Stored
  <1>5. \A t \in Tasks : chain[t] \subseteq Stored(view, t) \cap Stored(d, t)
    BY <1>4 DEF Covers
  <1>6. /\ d.consume \subseteq view.consume /\ d.reject \subseteq view.reject
        /\ stored.consume \subseteq d.consume /\ stored.reject \subseteq d.reject
    BY <1>2 DEF Covers
  <1>7. receipts \subseteq Confirmed(d)
    BY <1>6 DEF Covers, Confirmed
  <1> QED
    BY <1>3, <1>5, <1>6, <1>7 DEF Covers, d

LEMMA FlushedCovers ==
    ASSUME NEW view, NEW stored, Covers(view, stored)
    PROVE  Covers(view, view)
  BY DEF Covers, Confirmed

\* An answer stored beside what the view holds.
LEMMA AnswerCovers ==
    ASSUME NEW view, NEW stored, Covers(view, stored), NEW x \in Tasks \X Notices
    PROVE  /\ Covers([view EXCEPT !.reject = view.reject \cup {x}], stored)
           /\ Covers([view EXCEPT !.consume = view.consume \cup {x}], stored)
  <1> DEFINE a == [view EXCEPT !.reject = view.reject \cup {x}]
             b == [view EXCEPT !.consume = view.consume \cup {x}]
  <1>1. view \in Views
    BY DEF Covers, SoundView
  <1>2. /\ a \in Views /\ a.fact = view.fact /\ a.consume = view.consume
        /\ a.reject = view.reject \cup {x}
    BY <1>1 DEF Views
  <1>3. /\ b \in Views /\ b.fact = view.fact /\ b.reject = view.reject
        /\ b.consume = view.consume \cup {x}
    BY <1>1 DEF Views
  <1> HIDE DEF a, b
  <1>4. SoundView(a) /\ SoundView(b)
    BY <1>2, <1>3 DEF Covers, SoundView
  <1>5. \A t \in Tasks : Stored(a, t) = Stored(view, t) /\ Stored(b, t) = Stored(view, t)
    BY <1>2, <1>3 DEF Stored
  <1>6. Covers(a, stored)
    BY <1>2, <1>4, <1>5 DEF Covers
  <1>7. Covers(b, stored)
    BY <1>3, <1>4, <1>5 DEF Covers
  <1> QED
    BY <1>6, <1>7 DEF a, b

\* A fact stored under a mutation the tables do not know displaces none of theirs.
LEMMA FactView ==
    ASSUME NEW view, SoundView(view), NEW t \in Tasks, NEW f \in SoundFacts
    PROVE  LET w == WithFact(view, t, f)
           IN  /\ SoundView(w) /\ w.spec = view.spec
               /\ w.consume = view.consume /\ w.reject = view.reject
               /\ w.fact = {x \in view.fact : x.task # t \/ x.fact.mut # f.mut}
                               \cup {[task |-> t, fact |-> f]}
  <1> DEFINE kept == {x \in view.fact : x.task # t \/ x.fact.mut # f.mut}
             w == [view EXCEPT !.fact = kept \cup {[task |-> t, fact |-> f]}]
  <1>1. w = WithFact(view, t, f)
    BY DEF WithFact, SoundView, Views
  <1>2. f \in Facts
    BY SoundFact
  <1>3. kept \cup {[task |-> t, fact |-> f]} \in SUBSET [task : Tasks, fact : Facts]
    BY <1>2 DEF SoundView, Views
  <1>4. IsFiniteSet(kept \cup {[task |-> t, fact |-> f]})
    <2>1. IsFiniteSet(kept)
      BY FS_Subset DEF SoundView
    <2> HIDE DEF kept
    <2> QED
      BY <2>1, FS_AddElement
  <1>5. \A x \in kept \cup {[task |-> t, fact |-> f]} : x.fact \in SoundFacts
    BY DEF SoundView
  <1>6. /\ w \in Views /\ w.spec = view.spec /\ w.consume = view.consume
        /\ w.reject = view.reject /\ w.fact = kept \cup {[task |-> t, fact |-> f]}
    <2> HIDE DEF kept
    <2> QED
      BY <1>3 DEF SoundView, Views
  <1> HIDE DEF w
  <1>7. SoundView(w)
    BY <1>4, <1>5, <1>6 DEF SoundView
  <1> QED
    BY <1>1, <1>6, <1>7

LEMMA StoredFact ==
    ASSUME NEW view, NEW t, NEW f
    PROVE  f \in Stored(view, t) <=> \E x \in view.fact : x.task = t /\ x.fact = f
  BY DEF Stored

LEMMA FactCovers ==
    ASSUME NEW view, NEW stored, Covers(view, stored), NEW t \in Tasks,
           NEW f \in SoundFacts, \A g \in chain[t] : g.mut # f.mut
    PROVE  /\ Covers(WithFact(view, t, f), stored)
           /\ f \in Stored(WithFact(view, t, f), t)
           /\ WithFact(view, t, f).consume = view.consume
  <1> DEFINE w == WithFact(view, t, f)
  <1>1. SoundView(view)
    BY DEF Covers
  <1>2. /\ SoundView(w) /\ w.consume = view.consume /\ w.reject = view.reject
        /\ w.fact = {x \in view.fact : x.task # t \/ x.fact.mut # f.mut}
                        \cup {[task |-> t, fact |-> f]}
    BY <1>1, FactView
  <1> HIDE DEF w
  <1>3. ASSUME NEW u \in Tasks, NEW g \in chain[u] PROVE g \in Stored(w, u)
    <2>1. g \in Stored(view, u)
      BY DEF Covers
    <2>2. PICK x \in view.fact : x.task = u /\ x.fact = g
      BY <2>1, StoredFact
    <2>3. x.task # t \/ x.fact.mut # f.mut
      BY <2>2
    <2>4. x \in w.fact
      BY <1>2, <2>3
    <2> QED
      BY <2>2, <2>4, StoredFact
  <1>4. f \in Stored(w, t)
    <2>1. [task |-> t, fact |-> f] \in w.fact
      BY <1>2
    <2> QED
      BY <2>1, StoredFact
  <1>5. Covers(w, stored)
    BY <1>2, <1>3 DEF Covers
  <1> QED
    BY <1>2, <1>4, <1>5 DEF w

-----------------------------------------------------------------------------
(* What a step keeps.                                                      *)

LEMMA EmptySound == SoundView(EmptyView)
  BY FS_EmptySet DEF SoundView, EmptyView, Views

LEMMA PromisedPair ==
    ASSUME NEW x \in [task : Tasks, fact : Facts], NEW view, view \in Views,
           x.fact \in Stored(view, x.task)
    PROVE  x \in view.fact
  <1>1. PICK y \in view.fact : y.task = x.task /\ y.fact = x.fact
    BY StoredFact
  <1>2. y \in [task : Tasks, fact : Facts]
    BY DEF Views
  <1> QED
    BY <1>1, <1>2

LEMMA NamesGrow ==
    ASSUME NEW facts, NEW more, facts \subseteq more, NEW notice, Names(facts, notice)
    PROVE  Names(more, notice)
  BY DEF Names

\* The tables and the registry stand, whatever became of the write.
LEMMA UnsureStep ==
    ASSUME FaultInv, process = "up", Covers(mem', disk'),
           mem'.consume \subseteq mem.consume \cup accepted,
           UNCHANGED <<chain, receipts, accepted, process, crashes, promised>>,
           UNCHANGED registry
    PROVE  FaultInv'
  <1>0. /\ StorageInv /\ RunningInv
        /\ chain' = chain /\ receipts' = receipts /\ accepted' = accepted
        /\ process' = "up" /\ crashes' = crashes /\ promised' = promised
        /\ held' = held /\ task' = task /\ parked' = parked
    BY DEF FaultInv, registry
  <1>1. Covers(mem, disk)'
    BY <1>0 DEF Covers
  <1>2. \A x \in accepted \cup mem'.consume : Names(chain[x[1]], x[2])
    BY <1>0 DEF RunningInv
  <1>3. \A x \in mem'.consume :
            \/ x \in accepted
            \/ /\ x \in receipts
               /\ x[1] \in held => \A o \in task[x[1]].owed : o.env.notice # x[2]
    BY <1>0 DEF RunningInv, ConsumedInv
  <1>4. RunningInv'
    <2>1. ConsumedInv'
      BY <1>0, <1>3 DEF ConsumedInv
    <2>2. OwedFromChain'
      BY <1>0 DEF RunningInv, OwedFromChain
    <2>3. \A x \in promised' : x.fact \in chain'[x.task]
      BY <1>0 DEF RunningInv
    <2>4. \A x \in accepted' \cup mem'.consume : Names(chain'[x[1]], x[2])
      BY <1>0, <1>2
    <2> QED
      BY <1>1, <2>1, <2>2, <2>3, <2>4 DEF RunningInv
  <1>5. promised \subseteq disk'.fact
    <2>1. SUFFICES ASSUME NEW x \in promised PROVE x \in disk'.fact
      OBVIOUS
    <2>2. x \in [task : Tasks, fact : Facts]
      BY <1>0 DEF StorageInv, SoundView, Views
    <2>3. x.fact \in chain[x.task] /\ x.task \in Tasks
      BY <1>0, <2>2 DEF RunningInv
    <2>4. x.fact \in Stored(disk', x.task) /\ disk' \in Views
      BY <2>3 DEF Covers, SoundView
    <2> QED
      BY <2>2, <2>4, PromisedPair
  <1>6. \A x \in disk'.consume : Names(Stored(disk', x[1]), x[2])
    <2>1. SUFFICES ASSUME NEW x \in disk'.consume
                   PROVE  Names(Stored(disk', x[1]), x[2])
      OBVIOUS
    <2>2. x \in mem'.consume /\ x[1] \in Tasks
      BY DEF Covers, SoundView, Views
    <2>3. chain[x[1]] \subseteq Stored(disk', x[1])
      BY <2>2 DEF Covers
    <2> QED
      BY <1>2, <2>2, <2>3, NamesGrow
  <1>7. StorageInv'
    <2>1. SoundView(mem') /\ SoundView(disk')
      BY DEF Covers
    <2>2. /\ crashes' \in 0 .. MaxCrashes /\ process' \in {"up", "down", "refused"}
          /\ receipts' \subseteq (Tasks \X Notices) /\ accepted' \subseteq (Tasks \X Notices)
          /\ held' \subseteq Tasks /\ parked' \subseteq Tasks
          /\ chain' \in [Tasks -> SUBSET Facts]
          /\ task' \in [Tasks -> Records]
          /\ \A t \in Tasks : IsFiniteSet(task'[t].muts)
          /\ process' # "down"
      BY <1>0 DEF StorageInv
    <2> QED
      BY <1>0, <1>5, <1>6, <2>1, <2>2 DEF StorageInv, SoundView
  <1> QED
    BY <1>4, <1>7 DEF FaultInv

\* The process is gone, over what the write left on the disk.
LEMMA LostStep ==
    ASSUME FaultInv, process = "up", NEW view, Covers(view, disk'),
           view.consume \subseteq mem.consume \cup accepted,
           LoseProcess, promised' = promised
    PROVE  FaultInv'
  <1>0. StorageInv /\ RunningInv
    BY DEF FaultInv
  <1>1. promised \subseteq disk'.fact
    <2>1. SUFFICES ASSUME NEW x \in promised PROVE x \in disk'.fact
      OBVIOUS
    <2>2. x \in [task : Tasks, fact : Facts]
      BY <1>0 DEF StorageInv, SoundView, Views
    <2>3. x.fact \in chain[x.task] /\ x.task \in Tasks
      BY <1>0, <2>2 DEF RunningInv
    <2>4. x.fact \in Stored(disk', x.task) /\ disk' \in Views
      BY <2>3 DEF Covers, SoundView
    <2> QED
      BY <2>2, <2>4, PromisedPair
  <1>2. \A x \in disk'.consume : Names(Stored(disk', x[1]), x[2])
    <2>1. SUFFICES ASSUME NEW x \in disk'.consume
                   PROVE  Names(Stored(disk', x[1]), x[2])
      OBVIOUS
    <2>2. x \in view.consume /\ x[1] \in Tasks
      BY DEF Covers, SoundView, Views
    <2>3. chain[x[1]] \subseteq Stored(disk', x[1])
      BY <2>2 DEF Covers
    <2>4. Names(chain[x[1]], x[2])
      BY <1>0, <2>2 DEF RunningInv
    <2> QED
      BY <2>3, <2>4, NamesGrow
  <1>3. SoundView(mem') /\ SoundView(disk')
    BY EmptySound DEF Covers, LoseProcess
  <1>4. /\ process' = "down" /\ receipts' = {} /\ accepted' = {} /\ held' = {} /\ parked' = {}
        /\ chain' = [t \in Tasks |-> {}]
        /\ task' = [t \in Tasks |-> Blank]
    BY DEF LoseProcess
  <1>5. crashes' \in 0 .. MaxCrashes
    BY <1>0, BoundAssumption DEF StorageInv, LoseProcess
  <1>6. task' \in [Tasks -> Records] /\ \A t \in Tasks : IsFiniteSet(task'[t].muts)
    BY <1>4, BlankRecord
  <1>7. StorageInv'
    <2>1. promised' \subseteq disk'.fact
      BY <1>1
    <2> QED
      BY <1>2, <1>3, <1>4, <1>5, <1>6, <2>1 DEF StorageInv, SoundView
  <1> QED
    BY <1>4, <1>7 DEF FaultInv

LEMMA UnconfirmedStep ==
    ASSUME FaultInv, process = "up", NEW view, NEW stored, Covers(view, stored),
           view.consume \subseteq mem.consume \cup accepted,
           Unconfirmed(view, stored),
           UNCHANGED <<chain, receipts, accepted, process, crashes, promised>>,
           UNCHANGED registry
    PROVE  FaultInv'
  <1>1. ASSUME FlushStops(view, stored) PROVE mem' = view /\ Covers(view, disk')
    BY <1>1, StoppedCovers DEF FlushStops
  <1>2. ASSUME FlushAll(view) PROVE mem' = view /\ Covers(view, disk')
    BY <1>2, FlushedCovers DEF FlushAll
  <1>3. mem' = view /\ Covers(view, disk')
    BY <1>1, <1>2 DEF Unconfirmed
  <1> QED
    BY <1>3, UnsureStep

LEMMA CutShortStep ==
    ASSUME FaultInv, process = "up", NEW view, NEW stored, Covers(view, stored),
           view.consume \subseteq mem.consume \cup accepted,
           CutShort(view, stored)
    PROVE  FaultInv'
  <1>1. Covers(view, disk') /\ LoseProcess /\ promised' = promised
    BY StoppedCovers DEF CutShort
  <1> QED
    BY <1>1, LostStep

\* A fact every party sees.
LEMMA ConfirmStep ==
    ASSUME FaultInv, process = "up", NEW before, NEW stored, Covers(before, stored),
           before.consume = mem.consume, NEW t \in Tasks, NEW f \in SoundFacts,
           \A g \in chain[t] : g.mut # f.mut,
           NEW r, r.owed # {} => t \in held /\ r = task[t],
           NEW record, LinkedTo(r, f, record),
           CommitConfirmed(WithFact(before, t, f), t, f, record)
    PROVE  FaultInv'
  <1> DEFINE w == WithFact(before, t, f)
  <1>0. /\ StorageInv /\ RunningInv
        /\ mem' = w /\ disk' = w
        /\ chain' = [chain EXCEPT ![t] = chain[t] \cup {f}]
        /\ task' = [task EXCEPT ![t] = record]
        /\ held' = held \cup {t} /\ promised' = promised \cup {Pair(t, f)}
        /\ receipts' = receipts /\ parked' = parked /\ accepted' = accepted
        /\ process' = "up" /\ crashes' = crashes
    BY DEF FaultInv, CommitConfirmed, FlushAll
  <1>1. /\ Covers(w, w) /\ f \in Stored(w, t) /\ w.consume = mem.consume
        /\ SoundView(w) /\ w \in Views
    <2>1. Covers(w, stored) /\ f \in Stored(w, t) /\ w.consume = mem.consume
      BY FactCovers
    <2> HIDE DEF w
    <2>2. Covers(w, w)
      BY <2>1, FlushedCovers
    <2> QED
      BY <2>1, <2>2 DEF Covers, SoundView
  <1>2. /\ chain \in [Tasks -> SUBSET Facts] /\ task \in [Tasks -> Records]
        /\ chain' \in [Tasks -> SUBSET Facts]
        /\ chain'[t] = chain[t] \cup {f}
        /\ \A u \in Tasks : u # t => chain'[u] = chain[u]
        /\ \A u \in Tasks : chain[u] \subseteq chain'[u]
    BY <1>0, SoundFact DEF StorageInv
  <1>3. /\ task' \in [Tasks -> Records] /\ task'[t] = record
        /\ \A u \in Tasks : u # t => task'[u] = task[u]
        /\ \A u \in Tasks : IsFiniteSet(task'[u].muts)
    <2>1. record \in Records /\ IsFiniteSet(record.muts)
      BY DEF LinkedTo
    <2>2. task' \in [Tasks -> Records] /\ task'[t] = record
          /\ \A u \in Tasks : u # t => task'[u] = task[u]
      BY <1>0, <1>2, <2>1
    <2>3. \A u \in Tasks : IsFiniteSet(task[u].muts)
      BY <1>0 DEF StorageInv
    <2> QED
      BY <2>1, <2>2, <2>3
  <1> HIDE DEF w
  <1>4. Covers(mem, disk)'
    <2>1. \A u \in Tasks : chain'[u] \subseteq Stored(w, u)
      <3>1. SUFFICES ASSUME NEW u \in Tasks, NEW g \in chain'[u] PROVE g \in Stored(w, u)
        OBVIOUS
      <3>2. g \in chain[u] \/ (u = t /\ g = f)
        BY <1>2
      <3> QED
        BY <1>1, <3>2 DEF Covers
    <2>2. receipts' \subseteq Confirmed(w)
      BY <1>0, <1>1 DEF Covers
    <2> QED
      BY <1>0, <1>1, <2>1, <2>2 DEF Covers, Stored, Confirmed, SoundView
  <1>5. \A o \in record.owed :
            \/ t \in held /\ \E p \in task[t].owed : o.env = p.env /\ o.rev = p.rev
            \/ o.env \in f.outbox /\ o.rev = f.rev
    <2>1. SUFFICES ASSUME NEW o \in record.owed
                   PROVE  \/ t \in held /\ \E p \in task[t].owed : o.env = p.env /\ o.rev = p.rev
                          \/ o.env \in f.outbox /\ o.rev = f.rev
      OBVIOUS
    <2>2. o \in r.owed \/ o \in Reclassified(r.owed) \/ o \in OpenedBy(f)
      BY DEF LinkedTo
    <2>3. CASE o \in r.owed
      BY <2>3
    <2>4. CASE o \in Reclassified(r.owed)
      <3>1. PICK p \in r.owed : o = [p EXCEPT !.kind = "handed_off"]
        BY <2>4 DEF Reclassified
      <3>2. t \in held /\ r = task[t]
        BY <3>1
      <3>3. p \in Obligations
        BY <1>2, <3>1, <3>2 DEF Records
      <3> QED
        BY <3>1, <3>2, <3>3 DEF Obligations
    <2>5. CASE o \in OpenedBy(f)
      BY <2>5 DEF OpenedBy
    <2> QED
      BY <2>2, <2>3, <2>4, <2>5
  <1>6. OwedFromChain'
    <2>1. SUFFICES ASSUME NEW u \in held', NEW o \in task'[u].owed
                   PROVE  \E g \in chain'[u] : o.env \in g.outbox /\ o.rev = g.rev
      BY DEF OwedFromChain
    <2>2. u \in Tasks
      BY <1>0 DEF StorageInv
    <2>3. ASSUME NEW p \in task[u].owed, u \in held
          PROVE  \E g \in chain'[u] : p.env \in g.outbox /\ p.rev = g.rev
      BY <1>0, <1>2, <2>2, <2>3 DEF RunningInv, OwedFromChain
    <2>4. CASE u # t
      <3>1. u \in held /\ task'[u] = task[u]
        BY <1>0, <1>3, <2>2, <2>4
      <3> QED
        BY <2>3, <3>1
    <2>5. CASE u = t
      <3>1. o \in record.owed
        BY <1>3, <2>5
      <3>2. CASE t \in held /\ \E p \in task[t].owed : o.env = p.env /\ o.rev = p.rev
        BY <2>3, <2>5, <3>2
      <3>3. CASE o.env \in f.outbox /\ o.rev = f.rev
        BY <1>2, <2>5, <3>3
      <3> QED
        BY <1>5, <3>1, <3>2, <3>3
    <2> QED
      BY <2>4, <2>5
  <1>7. \A x \in accepted' \cup mem'.consume : Names(chain'[x[1]], x[2])
    <2>1. SUFFICES ASSUME NEW x \in accepted \cup mem.consume
                   PROVE  Names(chain'[x[1]], x[2])
      BY <1>0, <1>1
    <2>2. x[1] \in Tasks
      BY <1>0 DEF StorageInv, SoundView, Views
    <2>3. Names(chain[x[1]], x[2])
      BY <1>0 DEF RunningInv
    <2> QED
      BY <1>2, <2>2, <2>3, NamesGrow
  <1>8. ConsumedInv'
    <2>1. SUFFICES ASSUME NEW x \in mem.consume, x \notin accepted
                   PROVE  /\ x \in receipts
                          /\ x[1] \in held' => \A o \in task'[x[1]].owed : o.env.notice # x[2]
      BY <1>0, <1>1 DEF ConsumedInv
    <2>2. /\ x \in receipts /\ x[1] \in Tasks
          /\ x[1] \in held => \A o \in task[x[1]].owed : o.env.notice # x[2]
      BY <1>0, <2>1 DEF RunningInv, ConsumedInv, StorageInv, SoundView, Views
    <2>3. CASE x[1] # t
      <3>1. x[1] \in held' => x[1] \in held
        BY <1>0, <2>3
      <3> QED
        BY <1>3, <2>2, <2>3, <3>1
    <2>4. CASE x[1] = t
      <3>1. ASSUME NEW o \in record.owed, o.env.notice = x[2] PROVE FALSE
        <4>1. CASE t \in held /\ \E p \in task[t].owed : o.env = p.env /\ o.rev = p.rev
          BY <2>2, <2>4, <3>1, <4>1
        <4>2. CASE o.env \in f.outbox
          <5>1. Names(chain[t], x[2])
            BY <1>0, <2>4 DEF RunningInv
          <5>2. PICK g \in chain[t] : \E e \in g.outbox : e.notice = x[2]
            BY <5>1 DEF Names
          <5>3. g \in SoundFacts
            <6>1. g \in Stored(before, t)
              BY <5>2 DEF Covers
            <6> QED
              BY <6>1, StoredFact DEF Covers, SoundView
          <5>4. g.mut = Mutation("settle", x[2].round, Nil)
            BY <5>2, <5>3, SoundFact
          <5>5. f.mut = Mutation("settle", x[2].round, Nil)
            BY <3>1, <4>2, SoundFact
          <5> QED
            BY <5>2, <5>4, <5>5
        <4> QED
          BY <1>5, <3>1, <4>1, <4>2
      <3> QED
        BY <1>3, <2>2, <2>4, <3>1
    <2> QED
      BY <2>3, <2>4
  <1>9. \A x \in promised' : x.fact \in chain'[x.task]
    <2>1. SUFFICES ASSUME NEW x \in promised' PROVE x.fact \in chain'[x.task]
      OBVIOUS
    <2>2. CASE x \in promised
      <3>1. x.task \in Tasks
        BY <1>0, <2>2 DEF StorageInv, SoundView, Views
      <3> QED
        BY <1>0, <1>2, <2>2, <3>1 DEF RunningInv
    <2>3. CASE x = Pair(t, f)
      BY <1>2, <2>3 DEF Pair
    <2> QED
      BY <1>0, <2>2, <2>3
  <1>10. RunningInv'
    BY <1>4, <1>6, <1>7, <1>8, <1>9 DEF RunningInv
  <1>11. promised' \subseteq disk'.fact
    <2>1. SUFFICES ASSUME NEW x \in promised' PROVE x \in disk'.fact
      OBVIOUS
    <2>2. x \in [task : Tasks, fact : Facts]
      BY <1>0, SoundFact DEF StorageInv, SoundView, Views, Pair
    <2>3. x.fact \in Stored(w, x.task)
      BY <1>0, <1>4, <1>9, <2>2 DEF Covers
    <2> QED
      BY <1>0, <1>1, <2>2, <2>3, PromisedPair
  <1>12. \A x \in disk'.consume : Names(Stored(disk', x[1]), x[2])
    <2>1. SUFFICES ASSUME NEW x \in mem.consume PROVE Names(Stored(w, x[1]), x[2])
      BY <1>0, <1>1
    <2>2. x[1] \in Tasks
      BY <1>0 DEF StorageInv, SoundView, Views
    <2>3. Names(chain'[x[1]], x[2])
      BY <1>0, <1>1, <1>7
    <2>4. chain'[x[1]] \subseteq Stored(w, x[1])
      BY <1>0, <1>4, <2>2 DEF Covers
    <2> QED
      BY <2>3, <2>4, NamesGrow
  <1>13. StorageInv'
    <2>1. SoundView(mem') /\ SoundView(disk')
      BY <1>0, <1>1
    <2>2. held' \subseteq Tasks
      BY <1>0 DEF StorageInv
    <2>3. /\ crashes' \in 0 .. MaxCrashes /\ process' = "up"
          /\ receipts' \subseteq (Tasks \X Notices) /\ accepted' \subseteq (Tasks \X Notices)
          /\ parked' \subseteq Tasks
      BY <1>0 DEF StorageInv
    <2> QED
      BY <1>2, <1>3, <1>11, <1>12, <2>1, <2>2, <2>3 DEF StorageInv, SoundView
  <1> QED
    BY <1>10, <1>13 DEF FaultInv

LEMMA CommitOverStep ==
    ASSUME FaultInv, process = "up", NEW before, NEW stored, Covers(before, stored),
           before.consume = mem.consume, NEW t \in Tasks, NEW f \in SoundFacts,
           NEW r, r.owed # {} => t \in held /\ r = task[t],
           NEW record, LinkedTo(r, f, record),
           CommitOver(before, stored, t, f, record)
    PROVE  FaultInv'
  <1> DEFINE w == WithFact(before, t, f)
  <1>1. \A g \in chain[t] : g.mut # f.mut
    BY DEF CommitOver
  <1>2. Covers(w, stored) /\ w.consume = mem.consume
    BY <1>1, FactCovers
  <1>3. \/ CommitConfirmed(w, t, f, record)
        \/ CommitDisowned(w, stored, t, f)
        \/ CommitUncertain(w)
        \/ CutShort(w, stored)
    BY DEF CommitOver
  <1>4. CASE CommitConfirmed(w, t, f, record)
    BY <1>1, <1>4, ConfirmStep
  <1> HIDE DEF w
  <1>5. CASE CommitDisowned(w, stored, t, f)
    BY <1>2, <1>5, UnconfirmedStep DEF CommitDisowned, Unconfirmed
  <1>6. CASE CommitUncertain(w)
    BY <1>2, <1>6, UnconfirmedStep DEF CommitUncertain, Unconfirmed
  <1>7. CASE CutShort(w, stored)
    BY <1>2, <1>7, CutShortStep
  <1> QED
    BY <1>3, <1>4, <1>5, <1>6, <1>7

LEMMA TaskCommitStep ==
    ASSUME FaultInv, NEW t \in Tasks, TaskCommit(t)
    PROVE  FaultInv'
  <1>1. task[t] \in Records /\ IsFiniteSet(task[t].muts)
    BY DEF FaultInv, StorageInv
  <1>0. PICK f \in SoundFacts : \E s : Linked(t, f, s)
    BY <1>1, TaskCommitLinked
  <1>2. PICK s : Linked(t, f, s)
    BY <1>0
  <1>3. t \in held /\ CommitOver(mem, disk, t, f, s) /\ LinkedTo(task[t], f, s)
    BY <1>2 DEF Linked, Commit
  <1>4. process = "up"
    BY <1>3 DEF CommitOver
  <1>5. Covers(mem, disk)
    BY <1>4 DEF FaultInv, RunningInv
  <1> QED
    BY <1>3, <1>4, <1>5, CommitOverStep

LEMMA DeclaredCovers ==
    ASSUME FaultInv, process = "up", NEW t \in Tasks
    PROVE  /\ Covers(Declared(t), disk) /\ Covers(Declared(t), Declared(t))
           /\ Declared(t).consume = mem.consume /\ Declared(t).fact = mem.fact
  <1> DEFINE d == [mem EXCEPT !.spec = mem.spec \cup {t}]
  <1>1. Covers(mem, disk) /\ mem \in Views
    BY DEF FaultInv, RunningInv, Covers, SoundView
  <1>2. d = Declared(t)
    BY <1>1 DEF Declared, Views
  <1>3. /\ d \in Views /\ d.fact = mem.fact /\ d.consume = mem.consume
        /\ d.reject = mem.reject
    BY <1>1 DEF Views
  <1> HIDE DEF d
  <1>4. SoundView(d)
    BY <1>1, <1>3 DEF Covers, SoundView
  <1>5. \A u \in Tasks : Stored(d, u) = Stored(mem, u)
    BY <1>3 DEF Stored
  <1>6. Covers(d, disk)
    BY <1>1, <1>3, <1>4, <1>5 DEF Covers
  <1>7. Covers(d, d)
    BY <1>6, FlushedCovers
  <1> QED
    BY <1>2, <1>3, <1>6, <1>7

LEMMA AdmitFactSound ==
    /\ AdmitFact \in SoundFacts /\ AdmitFact.mut.op = "admit" /\ AdmitFact.rev = 0
    /\ AdmitFact.outbox = {} /\ AdmitFact.mut = Mutation("admit", 0, Nil)
  <1>1. "admit" \in MutationOps /\ "accepted" \in Statuses
    BY DEF MutationOps, Statuses
  <1>2. /\ AdmitFact \in SoundFacts /\ AdmitFact.mut = Mutation("admit", 0, Nil)
        /\ AdmitFact.rev = 0 /\ AdmitFact.outbox = {}
    BY <1>1, QuietFact DEF AdmitFact
  <1> QED
    BY <1>2 DEF Mutation

\* The record of an admission is what the fold makes of its only fact.
LEMMA AdmittedLinked ==
    LinkedTo(OpenTool(Blank), AdmitFact, OpenTool(Applied(Blank, AdmitFact)))
  <1> DEFINE r == OpenTool(Blank)
             f == AdmitFact
             s == OpenTool(Applied(Blank, f))
  <1>1. /\ f \in SoundFacts /\ f.mut.op = "admit"
    BY AdmitFactSound
  <1>2. Blank \in Records /\ IsFiniteSet(Blank.muts)
    BY BlankRecord
  <1>3. EncodedRound(Blank.round, f.mut) = Blank.round
    BY <1>1 DEF EncodedRound
  <1>4. LinkedTo(Blank, f, s)
    BY <1>1, <1>2, <1>3, AppliedLinked
  <1>5. r.round = Blank.round /\ r.handoff = Blank.handoff /\ r.owed = Blank.owed
    BY BlankRecord DEF Blank
  <1> HIDE DEF r, f, s
  <1>6. LinkedTo(r, f, s)
    BY <1>4, <1>5 DEF LinkedTo
  <1> QED
    BY <1>6 DEF r, f, s

LEMMA RegisterStep ==
    ASSUME FaultInv, NEW t \in Tasks, Register(t)
    PROVE  FaultInv'
  <1> DEFINE s == OpenTool(Applied(Blank, AdmitFact))
  <1>1. CommitOver(Declared(t), Declared(t), t, AdmitFact, s)
    BY DEF Register
  <1>2. process = "up"
    BY <1>1 DEF CommitOver
  <1>3. Covers(Declared(t), Declared(t)) /\ Declared(t).consume = mem.consume
    BY <1>2, DeclaredCovers
  <1>4. /\ AdmitFact \in SoundFacts /\ LinkedTo(OpenTool(Blank), AdmitFact, s)
        /\ OpenTool(Blank).owed = {}
    BY AdmitFactSound, AdmittedLinked, BlankRecord
  <1> HIDE DEF s
  <1> QED
    BY <1>1, <1>2, <1>3, <1>4, CommitOverStep

LEMMA DeclareFailsStep ==
    ASSUME FaultInv, NEW t \in Tasks, DeclareFails(t)
    PROVE  FaultInv'
  <1>1. process = "up"
    BY DEF DeclareFails
  <1>2. Covers(Declared(t), disk) /\ Declared(t).consume = mem.consume
    BY <1>1, DeclaredCovers
  <1>3. CASE CutShort(Declared(t), disk)
    BY <1>1, <1>2, <1>3, CutShortStep
  <1>4. CASE ~CutShort(Declared(t), disk)
    <2>1. /\ Unconfirmed(Declared(t), disk)
          /\ UNCHANGED <<chain, receipts, accepted, process, crashes, promised>>
          /\ UNCHANGED registry
      BY <1>4 DEF DeclareFails
    <2> QED
      BY <1>1, <1>2, <2>1, UnconfirmedStep
  <1> QED
    BY <1>3, <1>4

\* A step of the running process that writes nothing: the mailbox takes owed
\* notices, or the registry ends obligations.
LEMMA UnwrittenStep ==
    ASSUME FaultInv, process = "up",
           UNCHANGED <<mem, disk, chain, receipts, held, process, crashes, promised>>,
           parked' \subseteq Tasks, accepted \subseteq accepted',
           accepted' \subseteq Tasks \X Notices,
           \A x \in accepted' : Names(chain[x[1]], x[2]),
           task' \in [Tasks -> Records],
           \A t \in Tasks : task'[t].muts = task[t].muts /\ task'[t].owed \subseteq task[t].owed
    PROVE  FaultInv'
  <1>0. StorageInv /\ RunningInv /\ process' = "up"
    BY DEF FaultInv
  <1>1. StorageInv'
    BY <1>0 DEF StorageInv, SoundView, Stored
  <1>2. Covers(mem, disk)'
    BY <1>0 DEF RunningInv, Covers
  <1>3. OwedFromChain'
    BY <1>0 DEF RunningInv, OwedFromChain, StorageInv
  <1>4. ConsumedInv'
    BY <1>0 DEF RunningInv, ConsumedInv, StorageInv
  <1>5. /\ \A x \in promised' : x.fact \in chain'[x.task]
        /\ \A x \in accepted' \cup mem'.consume : Names(chain'[x[1]], x[2])
    BY <1>0 DEF RunningInv
  <1> QED
    BY <1>0, <1>1, <1>2, <1>3, <1>4, <1>5 DEF FaultInv, RunningInv

LEMMA HoldStep ==
    ASSUME FaultInv, NEW t \in Tasks, Hold(t)
    PROVE  FaultInv'
  <1>1. process = "up" /\ StorageInv /\ RunningInv
    BY DEF Hold, FaultInv
  <1>2. /\ UNCHANGED <<mem, disk, chain, receipts, held, process, crashes, promised>>
        /\ task' = task /\ accepted' = accepted /\ parked' \subseteq Tasks
    BY <1>1 DEF Hold, StorageInv
  <1> QED
    BY <1>1, <1>2, UnwrittenStep DEF StorageInv, RunningInv

LEMMA MailStep ==
    ASSUME FaultInv, NEW x \in CarrierOwes, Mail(x)
    PROVE  FaultInv'
  <1>1. process = "up" /\ StorageInv /\ RunningInv
    BY DEF Mail, FaultInv
  <1>2. PICK t \in Tasks : \E f \in chain[t] : \E e \in f.outbox : x = <<t, e.notice>>
    BY DEF CarrierOwes, Noticed
  <1>3. PICK f \in chain[t] : \E e \in f.outbox : x = <<t, e.notice>>
    BY <1>2
  <1>4. x \in Tasks \X Notices /\ Names(chain[x[1]], x[2])
    <2>1. f \in Facts
      BY <1>1 DEF StorageInv
    <2> QED
      BY <1>3, <2>1 DEF Facts, Envelopes, Names
  <1>5. /\ UNCHANGED <<mem, disk, chain, receipts, held, process, crashes, promised>>
        /\ task' = task /\ accepted' = accepted \cup {x} /\ parked' = parked
    BY DEF Mail, registry
  <1>6. /\ accepted' \subseteq Tasks \X Notices
        /\ \A y \in accepted' : Names(chain[y[1]], y[2])
    BY <1>1, <1>4, <1>5 DEF StorageInv, RunningInv
  <1>7. parked' \subseteq Tasks /\ task' \in [Tasks -> Records]
    BY <1>1, <1>5 DEF StorageInv
  <1> QED
    BY <1>1, <1>5, <1>6, <1>7, UnwrittenStep

\* An obligation that ends.
LEMMA AnsweredRecord ==
    ASSUME FaultInv, NEW t \in Tasks, NEW o
    PROVE  /\ Answered(t, o) \in [Tasks -> Records]
           /\ Answered(t, o)[t] = [task[t] EXCEPT !.owed = task[t].owed \ {o}]
           /\ \A u \in Tasks : u # t => Answered(t, o)[u] = task[u]
           /\ \A u \in Tasks : /\ Answered(t, o)[u].muts = task[u].muts
                               /\ Answered(t, o)[u].owed \subseteq task[u].owed
  <1>1. task \in [Tasks -> Records]
    BY DEF FaultInv, StorageInv
  <1> DEFINE s == [task[t] EXCEPT !.owed = task[t].owed \ {o}]
  <1>2. Answered(t, o) = [task EXCEPT ![t] = s]
    BY <1>1 DEF Answered
  <1>3. s \in Records /\ s.muts = task[t].muts /\ s.owed = task[t].owed \ {o}
    BY <1>1 DEF Records
  <1>4. /\ Answered(t, o) \in [Tasks -> Records] /\ Answered(t, o)[t] = s
        /\ \A u \in Tasks : u # t => Answered(t, o)[u] = task[u]
    <2> HIDE DEF s
    <2> QED
      BY <1>1, <1>2, <1>3
  <1>5. \A u \in Tasks : /\ Answered(t, o)[u].muts = task[u].muts
                         /\ Answered(t, o)[u].owed \subseteq task[u].owed
    <2> HIDE DEF s
    <2>1. ASSUME NEW u \in Tasks
          PROVE  /\ Answered(t, o)[u].muts = task[u].muts
                 /\ Answered(t, o)[u].owed \subseteq task[u].owed
      <3>1. CASE u = t
        BY <1>3, <1>4, <3>1
      <3>2. CASE u # t
        BY <1>4, <3>2
      <3> QED
        BY <3>1, <3>2
    <2> QED
      BY <2>1
  <1> QED
    BY <1>4, <1>5

\* The notice of an obligation is one of the chain.
LEMMA ObligationNamed ==
    ASSUME FaultInv, process = "up", NEW t \in held, NEW o \in task[t].owed
    PROVE  /\ t \in Tasks /\ <<t, o.env.notice>> \in Tasks \X Notices
           /\ Names(chain[t], o.env.notice)
  <1>1. StorageInv /\ RunningInv /\ t \in Tasks
    BY DEF FaultInv, StorageInv
  <1>2. o \in Obligations
    BY <1>1 DEF StorageInv, Records
  <1>3. Names(chain[t], o.env.notice)
    BY <1>1 DEF RunningInv, OwedFromChain, Names
  <1> QED
    BY <1>1, <1>2, <1>3 DEF Obligations, Envelopes

\* An answer stored behind a confirmed write: the notice is of the chain, and it
\* is in the mailbox or refused.
LEMMA StoreAnswerStep ==
    ASSUME FaultInv, process = "up", NEW x \in Tasks \X Notices, NEW view,
           Covers(view, disk), view.consume \subseteq mem.consume \cup accepted,
           x \in Confirmed(view), NEW moved, moved \in [Tasks -> Records],
           \A t \in Tasks : moved[t].muts = task[t].muts /\ moved[t].owed \subseteq task[t].owed,
           StoreAnswer(view, x, moved)
    PROVE  FaultInv'
  <1>0. StorageInv /\ RunningInv
    BY DEF FaultInv
  <1>1. CASE CutShort(view, disk)
    BY <1>1, CutShortStep
  <1>2. CASE /\ Unconfirmed(view, disk)
             /\ UNCHANGED <<chain, receipts, accepted, process, crashes>>
             /\ UNCHANGED registry /\ UNCHANGED promised
    BY <1>2, UnconfirmedStep
  <1>3. CASE /\ FlushAll(view)
             /\ receipts' = receipts \cup {x}
             /\ task' = moved
             /\ UNCHANGED <<chain, held, parked, accepted, process, crashes>>
             /\ UNCHANGED promised
    <2>0. /\ mem' = view /\ disk' = view /\ receipts' = receipts \cup {x} /\ task' = moved
          /\ chain' = chain /\ held' = held /\ parked' = parked /\ accepted' = accepted
          /\ process' = "up" /\ crashes' = crashes /\ promised' = promised
      BY <1>3 DEF FlushAll
    <2>1. Covers(view, view)
      BY FlushedCovers
    <2>2. Covers(mem, disk)'
      BY <2>0, <2>1 DEF Covers
    <2>3. \A y \in accepted \cup view.consume : Names(chain[y[1]], y[2])
      BY <1>0 DEF RunningInv
    <2>4. OwedFromChain'
      <3>1. SUFFICES ASSUME NEW t \in held, NEW o \in moved[t].owed
                     PROVE  \E f \in chain[t] : o.env \in f.outbox /\ o.rev = f.rev
        BY <2>0 DEF OwedFromChain
      <3>2. t \in Tasks /\ o \in task[t].owed
        BY <1>0 DEF StorageInv
      <3> QED
        BY <1>0, <3>2 DEF RunningInv, OwedFromChain
    <2>5. ConsumedInv'
      <3>1. SUFFICES ASSUME NEW y \in view.consume, y \notin accepted
                     PROVE  /\ y \in receipts
                            /\ y[1] \in held => \A o \in moved[y[1]].owed : o.env.notice # y[2]
        BY <2>0 DEF ConsumedInv
      <3>2. y \in mem.consume /\ y[1] \in Tasks
        BY <1>0, <3>1 DEF StorageInv, SoundView, Views
      <3>3. /\ y \in receipts
            /\ y[1] \in held => \A o \in task[y[1]].owed : o.env.notice # y[2]
        BY <1>0, <3>1, <3>2 DEF RunningInv, ConsumedInv
      <3> QED
        BY <3>2, <3>3
    <2>6. RunningInv'
      <3>1. \A y \in promised' : y.fact \in chain'[y.task]
        BY <1>0, <2>0 DEF RunningInv
      <3>2. \A y \in accepted' \cup mem'.consume : Names(chain'[y[1]], y[2])
        BY <2>0, <2>3
      <3> QED
        BY <2>2, <2>4, <2>5, <3>1, <3>2 DEF RunningInv
    <2>7. promised \subseteq view.fact
      <3>1. SUFFICES ASSUME NEW y \in promised PROVE y \in view.fact
        OBVIOUS
      <3>2. y \in [task : Tasks, fact : Facts]
        BY <1>0 DEF StorageInv, SoundView, Views
      <3>3. y.fact \in Stored(view, y.task) /\ view \in Views
        BY <1>0, <3>2 DEF RunningInv, Covers, SoundView
      <3> QED
        BY <3>2, <3>3, PromisedPair
    <2>8. \A y \in view.consume : Names(Stored(view, y[1]), y[2])
      <3>1. SUFFICES ASSUME NEW y \in view.consume PROVE Names(Stored(view, y[1]), y[2])
        OBVIOUS
      <3>2. y[1] \in Tasks
        BY DEF Covers, SoundView, Views
      <3>3. chain[y[1]] \subseteq Stored(view, y[1])
        BY <3>2 DEF Covers
      <3> QED
        BY <2>3, <3>3, NamesGrow
    <2>9. StorageInv'
      <3>1. SoundView(view)
        BY DEF Covers
      <3>2. /\ receipts' \subseteq (Tasks \X Notices) /\ accepted' \subseteq (Tasks \X Notices)
            /\ held' \subseteq Tasks /\ parked' \subseteq Tasks
            /\ chain' \in [Tasks -> SUBSET Facts] /\ crashes' \in 0 .. MaxCrashes
        BY <1>0, <2>0 DEF StorageInv
      <3>3. task' \in [Tasks -> Records] /\ \A t \in Tasks : IsFiniteSet(task'[t].muts)
        BY <1>0, <2>0 DEF StorageInv
      <3> QED
        BY <2>0, <2>7, <2>8, <3>1, <3>2, <3>3 DEF StorageInv, SoundView
    <2> QED
      BY <2>6, <2>9 DEF FaultInv
  <1> QED
    BY <1>1, <1>2, <1>3 DEF StoreAnswer

LEMMA FlushStep ==
    ASSUME FaultInv, NEW t \in Tasks, Flush(t)
    PROVE  FaultInv'
  <1>0. process = "up" /\ t \in held /\ StorageInv /\ RunningInv
    BY DEF Flush, FaultInv
  <1>1. PICK o \in task[t].owed : FlushAccepted(t, o) \/ FlushRefused(t, o)
    BY DEF Flush
  <1> DEFINE x == <<t, o.env.notice>>
  <1>2. x \in Tasks \X Notices /\ Names(chain[t], o.env.notice)
    BY <1>0, ObligationNamed
  <1>3. /\ Answered(t, o) \in [Tasks -> Records]
        /\ \A u \in Tasks : /\ Answered(t, o)[u].muts = task[u].muts
                            /\ Answered(t, o)[u].owed \subseteq task[u].owed
    BY AnsweredRecord
  <1>4. CASE FlushAccepted(t, o)
    <2>1. /\ UNCHANGED <<mem, disk, chain, receipts, held, process, crashes, promised>>
          /\ task' = Answered(t, o) /\ accepted' = accepted \cup {x} /\ parked' = parked
      BY <1>4 DEF FlushAccepted
    <2>2. /\ accepted' \subseteq Tasks \X Notices
          /\ \A y \in accepted' : Names(chain[y[1]], y[2])
      BY <1>0, <1>2, <2>1 DEF StorageInv, RunningInv
    <2>3. parked' \subseteq Tasks
      BY <1>0, <2>1 DEF StorageInv
    <2> QED
      BY <1>0, <1>3, <2>1, <2>2, <2>3, UnwrittenStep
  <1>5. CASE FlushRefused(t, o)
    <2> DEFINE view == [mem EXCEPT !.reject = mem.reject \cup {x}]
    <2>1. mem \in Views /\ Covers(mem, disk)
      BY <1>0 DEF RunningInv, Covers, SoundView
    <2>2. /\ view = [mem EXCEPT !.reject = @ \cup {x}]
          /\ view.consume = mem.consume /\ x \in Confirmed(view)
      BY <2>1 DEF Views, Confirmed
    <2>3. Covers(view, disk)
      BY <1>2, <2>1, AnswerCovers
    <2>4. StoreAnswer(view, x, Answered(t, o))
      BY <1>5, <2>2 DEF FlushRefused
    <2> HIDE DEF view, x
    <2> QED
      BY <1>0, <1>2, <1>3, <2>2, <2>3, <2>4, StoreAnswerStep
  <1> QED
    BY <1>1, <1>4, <1>5

LEMMA ConsumeStep ==
    ASSUME FaultInv, NEW x \in accepted, Consume(x)
    PROVE  FaultInv'
  <1>0. process = "up" /\ StorageInv /\ RunningInv
    BY DEF Consume, FaultInv
  <1> DEFINE view == [mem EXCEPT !.consume = mem.consume \cup {x}]
  <1>1. mem \in Views /\ Covers(mem, disk) /\ x \in Tasks \X Notices
    BY <1>0 DEF RunningInv, Covers, SoundView, StorageInv
  <1>2. /\ view = [mem EXCEPT !.consume = @ \cup {x}]
        /\ view.consume = mem.consume \cup {x} /\ x \in Confirmed(view)
    BY <1>1 DEF Views, Confirmed
  <1>3. Covers(view, disk)
    BY <1>1, AnswerCovers
  <1>4. StoreAnswer(view, x, task)
    BY <1>2 DEF Consume
  <1>5. task \in [Tasks -> Records]
    BY <1>0 DEF StorageInv
  <1> HIDE DEF view
  <1> QED
    BY <1>0, <1>1, <1>2, <1>3, <1>4, <1>5, StoreAnswerStep

LEMMA OtherCommitStep ==
    ASSUME FaultInv, OtherCommit
    PROVE  FaultInv'
  <1>1. process = "up" /\ Covers(mem, disk)
    BY DEF OtherCommit, FaultInv, RunningInv
  <1>2. /\ UNCHANGED <<chain, receipts, accepted, process, crashes, promised>>
        /\ UNCHANGED registry
    BY DEF OtherCommit
  <1>3. CASE FlushAll(mem)
    <2>1. mem' = mem /\ Covers(mem, disk')
      BY <1>1, <1>3, FlushedCovers DEF FlushAll
    <2> QED
      BY <1>1, <1>2, <2>1, UnsureStep
  <1>4. CASE FlushStops(mem, disk)
    <2>1. mem' = mem /\ Covers(mem, disk')
      BY <1>1, <1>4, StoppedCovers DEF FlushStops
    <2> QED
      BY <1>1, <1>2, <2>1, UnsureStep
  <1> QED
    BY <1>3, <1>4 DEF OtherCommit

LEMMA CrashStep ==
    ASSUME FaultInv, Crash
    PROVE  FaultInv'
  <1>1. /\ process = "up" /\ LoseProcess /\ disk' = disk /\ promised' = promised
        /\ Covers(mem, disk)
    BY DEF Crash, FaultInv, RunningInv
  <1>2. Covers(mem, disk')
    BY <1>1
  <1> QED
    BY <1>1, <1>2, LostStep

LEMMA StoredSound ==
    ASSUME NEW view, SoundView(view), NEW t
    PROVE  Stored(view, t) \in SUBSET SoundFacts /\ IsFiniteSet(Stored(view, t))
  <1> DEFINE own == {y \in view.fact : y.task = t}
             factOf == [x \in own |-> x.fact]
  <1>1. Stored(view, t) = {factOf[x] : x \in own}
    BY DEF Stored
  <1>2. IsFiniteSet(own)
    BY FS_Subset DEF SoundView
  <1>3. IsFiniteSet({factOf[x] : x \in own})
    <2> HIDE DEF own, factOf
    <2> QED
      BY <1>2, ImageOfFinite
  <1>4. Stored(view, t) \in SUBSET SoundFacts
    BY DEF Stored, SoundView
  <1> QED
    BY <1>1, <1>3, <1>4

\* What a process started over a disk that follows holds and owes.
LEMMA RestoredOwes ==
    ASSUME NEW view, SoundView(view), NEW t, Follows(Stored(view, t))
    PROVE  LET r == Restored(view, t)
           IN  /\ r \in Records /\ IsFiniteSet(r.muts)
               /\ \A o \in r.owed :
                    /\ <<t, o.env.notice>> \notin Confirmed(view)
                    /\ \E f \in Stored(view, t) : o.env \in f.outbox /\ o.rev = f.rev
  <1> DEFINE facts == Stored(view, t)
  <1>1. facts \in SUBSET SoundFacts /\ IsFiniteSet(facts) /\ facts \in SUBSET Facts
    BY StoredSound, SoundFact
  <1>2. Numbered(facts)
    BY <1>1, FollowsIsNumbered
  <1>3. Restored(view, t) = Replay(LinksOf(t, facts, Confirmed(view)))
    BY DEF Restored, LinksOf
  <1> HIDE DEF facts
  <1>4. LET r == Replay(LinksOf(t, facts, Confirmed(view)))
        IN  /\ r \in Records /\ IsFiniteSet(r.muts)
            /\ \A o \in r.owed :
                 /\ <<t, o.env.notice>> \notin Confirmed(view)
                 /\ \E f \in facts : o.env \in f.outbox /\ o.rev = f.rev
    BY <1>1, <1>2, ReplayOwes
  <1> QED
    BY <1>3, <1>4 DEF facts

LEMMA RestartStep ==
    ASSUME FaultInv, Restart
    PROVE  FaultInv'
  <1>0. /\ StorageInv /\ SoundView(disk) /\ disk \in Views
        /\ accepted = {} /\ accepted' = {} /\ parked' = {}
        /\ mem' = disk /\ disk' = disk /\ crashes' = crashes /\ promised' = promised
        /\ chain' = [t \in Tasks |-> Stored(disk, t)]
        /\ receipts' = Confirmed(disk)
    BY DEF Restart, FaultInv, StorageInv, SoundView
  <1>1. chain' \in [Tasks -> SUBSET Facts]
    BY <1>0, StoredSound, SoundFact
  <1>2. ASSUME NEW t \in held'
        PROVE  /\ t \in Tasks /\ Folds(disk) /\ task'[t] = Restored(disk, t)
    BY <1>0 DEF Restart, Restorable, Views
  <1>3. /\ task' \in [Tasks -> Records]
        /\ \A t \in Tasks : IsFiniteSet(task'[t].muts)
    <2>1. ASSUME NEW t \in Tasks
          PROVE  task'[t] \in Records /\ IsFiniteSet(task'[t].muts)
      <3>1. task'[t] = Blank \/ (Folds(disk) /\ task'[t] = Restored(disk, t))
        BY DEF Restart
      <3>2. CASE task'[t] = Blank
        BY <3>2, BlankRecord
      <3>3. CASE Folds(disk) /\ task'[t] = Restored(disk, t)
        BY <1>0, <3>3, RestoredOwes DEF Folds
      <3> QED
        BY <3>1, <3>2, <3>3
    <2>2. DOMAIN task' = Tasks /\ task' = [t \in Tasks |-> task'[t]]
      BY DEF Restart
    <2> QED
      BY <2>1, <2>2
  <1>4. StorageInv'
    <2>1. receipts' \subseteq Tasks \X Notices
      BY <1>0 DEF Confirmed, Views
    <2>2. held' \subseteq Tasks
      BY <1>2
    <2>3. process' \in {"up", "refused"} /\ crashes' \in 0 .. MaxCrashes
      BY <1>0 DEF Restart, StorageInv
    <2>4. promised' \subseteq disk'.fact /\ SoundView(mem') /\ SoundView(disk')
      BY <1>0 DEF StorageInv
    <2>5. \A x \in disk'.consume : Names(Stored(disk', x[1]), x[2])
      BY <1>0 DEF StorageInv
    <2> QED
      BY <1>0, <1>1, <1>3, <2>1, <2>2, <2>3, <2>4, <2>5 DEF StorageInv, SoundView
  <1>5. Covers(mem, disk)'
    <2>1. \A t \in Tasks : chain'[t] \subseteq Stored(disk, t)
      BY <1>0
    <2>2. receipts' \subseteq Confirmed(disk)
      BY <1>0
    <2> QED
      BY <1>0, <2>1, <2>2 DEF Covers, Stored, Confirmed, SoundView
  <1>6. \A x \in promised' : x.fact \in chain'[x.task]
    <2>1. SUFFICES ASSUME NEW x \in promised PROVE x.fact \in chain'[x.task]
      BY <1>0
    <2>2. x \in disk.fact /\ x.task \in Tasks
      BY <1>0 DEF StorageInv, Views
    <2>3. x.fact \in Stored(disk, x.task)
      BY <2>2, StoredFact
    <2> QED
      BY <1>0, <2>2, <2>3
  <1>7. \A x \in accepted' \cup mem'.consume : Names(chain'[x[1]], x[2])
    <2>1. SUFFICES ASSUME NEW x \in disk.consume PROVE Names(chain'[x[1]], x[2])
      BY <1>0
    <2>2. x[1] \in Tasks /\ Names(Stored(disk, x[1]), x[2])
      BY <1>0 DEF StorageInv, Views
    <2> QED
      BY <1>0, <2>2
  <1>8. ASSUME NEW t \in held', NEW o \in task'[t].owed
        PROVE  /\ <<t, o.env.notice>> \notin Confirmed(disk)
               /\ \E f \in chain'[t] : o.env \in f.outbox /\ o.rev = f.rev
    <2>1. t \in Tasks /\ Follows(Stored(disk, t)) /\ task'[t] = Restored(disk, t)
      BY <1>2 DEF Folds
    <2>2. chain'[t] = Stored(disk, t)
      BY <1>0, <2>1
    <2> QED
      BY <1>0, <1>8, <2>1, <2>2, RestoredOwes
  <1>9. OwedFromChain'
    BY <1>8 DEF OwedFromChain
  <1>10. ConsumedInv'
    <2>1. SUFFICES ASSUME NEW x \in disk.consume
                   PROVE  /\ x \in receipts'
                          /\ x[1] \in held' => \A o \in task'[x[1]].owed : o.env.notice # x[2]
      BY <1>0 DEF ConsumedInv
    <2>2. x = <<x[1], x[2]>> /\ x \in Confirmed(disk)
      BY <1>0 DEF Views, Confirmed
    <2> QED
      BY <1>0, <1>8, <2>2
  <1> QED
    BY <1>4, <1>5, <1>6, <1>7, <1>9, <1>10 DEF FaultInv, RunningInv

-----------------------------------------------------------------------------
(* The theorems, under every set of storage faults.                        *)

LEMMA FaultInit == Init => FaultInv
  <1> SUFFICES ASSUME Init PROVE FaultInv
    OBVIOUS
  <1>1. SoundView(mem) /\ SoundView(disk)
    BY EmptySound DEF Init
  <1>2. /\ disk.consume = {} /\ mem.consume = {} /\ disk.reject = {}
        /\ disk.fact = {} /\ mem.fact = {}
    BY DEF Init, EmptyView
  <1>3. task \in [Tasks -> Records] /\ \A t \in Tasks : IsFiniteSet(task[t].muts)
    BY BlankRecord DEF Init
  <1>4. crashes \in 0 .. MaxCrashes
    BY BoundAssumption DEF Init
  <1>5. StorageInv
    BY <1>1, <1>2, <1>3, <1>4 DEF Init, StorageInv
  <1>6. Covers(mem, disk)
    BY <1>1, <1>2 DEF Init, Covers
  <1>7. RunningInv
    BY <1>2, <1>6 DEF Init, RunningInv, OwedFromChain, ConsumedInv
  <1> QED
    BY <1>5, <1>7 DEF FaultInv

LEMMA FaultNext == FaultInv /\ [Next]_vars => FaultInv'
  <1> SUFFICES ASSUME FaultInv, [Next]_vars PROVE FaultInv'
    OBVIOUS
  <1>1. ASSUME NEW t \in Tasks, TaskNext(t) PROVE FaultInv'
    <2>1. CASE DeclareFails(t)
      BY <2>1, DeclareFailsStep
    <2>2. CASE Register(t)
      BY <2>2, RegisterStep
    <2>3. CASE Hold(t)
      BY <2>3, HoldStep
    <2>4. CASE TaskCommit(t)
      BY <2>4, TaskCommitStep
    <2>5. CASE Flush(t)
      BY <2>5, FlushStep
    <2> QED
      BY <1>1, <2>1, <2>2, <2>3, <2>4, <2>5 DEF TaskNext, TaskCommit
  <1>2. ASSUME NEW x \in CarrierOwes, Mail(x) PROVE FaultInv'
    BY <1>2, MailStep
  <1>3. ASSUME NEW x \in accepted, Consume(x) PROVE FaultInv'
    BY <1>3, ConsumeStep
  <1>4. CASE OtherCommit \/ Crash \/ Restart
    BY <1>4, OtherCommitStep, CrashStep, RestartStep
  <1>5. CASE UNCHANGED vars
    <2>1. StorageInv => StorageInv'
      BY <1>5 DEF vars, StorageInv, SoundView, Stored
    <2>2. RunningInv => RunningInv'
      BY <1>5 DEF vars, RunningInv, SoundView, Covers, OwedFromChain, ConsumedInv, Stored, Confirmed
    <2> QED
      BY <1>5, <2>1, <2>2 DEF vars, FaultInv
  <1> QED
    BY <1>1, <1>2, <1>3, <1>4, <1>5 DEF Next

LEMMA CarrierOwesNotice ==
    /\ \A x \in CarrierOwes : x \notin receipts
    /\ \A t \in Tasks : \A f \in chain[t] : \A e \in f.outbox :
          <<t, e.notice>> \notin receipts => <<t, e.notice>> \in CarrierOwes
  <1>1. \A x \in CarrierOwes : x \notin receipts
    BY DEF CarrierOwes
  <1>2. ASSUME NEW t \in Tasks, NEW f \in chain[t], NEW e \in f.outbox,
               <<t, e.notice>> \notin receipts
        PROVE  <<t, e.notice>> \in CarrierOwes
    <2>1. e \in UNION {g.outbox : g \in chain[t]}
      OBVIOUS
    <2> QED
      BY <1>2, <2>1 DEF CarrierOwes, Noticed
  <1> QED
    BY <1>1, <1>2

\* Whatever of the writes fails and whenever the process stops, the invariant
\* the properties follow from holds.
THEOREM Storage == Spec => []FaultInv
  BY FaultInit, FaultNext, PTL DEF Spec

\* Every variable has its type: what a restart folds back of a chain is a record.
THEOREM TasksTyped == Spec => []TypeOK
  <1>1. FaultInv => TypeOK
    BY DEF FaultInv, StorageInv, SoundView, TypeOK, Views
  <1> QED
    BY <1>1, Storage, PTL

\* A notice of a committed fact is offered, in the mailbox or answered on the
\* disk, and the registry owes none the tables do not know.
THEOREM NoticesKept == Spec => []NoticeOwedOrAnswered
  <1>1. FaultInv => NoticeOwedOrAnswered
    <2> SUFFICES ASSUME FaultInv, process = "up" PROVE NoticeOwedOrAnswered
      BY DEF NoticeOwedOrAnswered
    <2>1. StorageInv /\ RunningInv
      BY DEF FaultInv
    <2>2. ASSUME NEW x \in promised, NEW e \in x.fact.outbox
          PROVE  \/ <<x.task, e.notice>> \in CarrierOwes
                 \/ <<x.task, e.notice>> \in Confirmed(disk)
      <3>1. x.task \in Tasks /\ x.fact \in chain[x.task]
        BY <2>1 DEF RunningInv, StorageInv, SoundView, Views
      <3>2. CASE <<x.task, e.notice>> \in receipts
        BY <2>1, <3>2 DEF RunningInv, Covers
      <3>3. CASE <<x.task, e.notice>> \notin receipts
        BY <3>1, <3>3, CarrierOwesNotice
      <3> QED
        BY <3>2, <3>3
    <2> QED
      BY <2>1, <2>2 DEF NoticeOwedOrAnswered, RunningInv, OwedFromChain
  <1> QED
    BY <1>1, Storage, PTL

\* Only a mailing and an accepted flush fill the mailbox.
LEMMA MailboxStep ==
    ASSUME [Next]_vars, NEW x \in accepted' \ accepted
    PROVE  \/ x \in CarrierOwes /\ process = "up"
           \/ \E t \in held : \E o \in task[t].owed : x = <<t, o.env.notice>> /\ process = "up"
  <1>0. ASSUME NEW view, NEW stored, CutShort(view, stored) PROVE FALSE
    BY <1>0 DEF CutShort, LoseProcess
  <1>c. ASSUME NEW before, NEW stored, NEW t, NEW f, NEW record,
               CommitOver(before, stored, t, f, record)
        PROVE  FALSE
    BY <1>0, <1>c DEF CommitOver, CommitConfirmed, CommitDisowned, CommitUncertain
  <1>s. ASSUME NEW view, NEW y, NEW moved, StoreAnswer(view, y, moved)
        PROVE  FALSE
    BY <1>0, <1>s DEF StoreAnswer
  <1>1. ASSUME NEW t \in Tasks, TaskNext(t)
        PROVE  \E u \in held : \E o \in task[u].owed :
                  x = <<u, o.env.notice>> /\ process = "up"
    <2>1. CASE DeclareFails(t)
      BY <1>0, <2>1 DEF DeclareFails
    <2>2. CASE Register(t)
      BY <1>c, <2>2 DEF Register
    <2>3. CASE Hold(t)
      BY <2>3 DEF Hold
    <2>4. CASE TaskCommit(t)
      <3>1. \E f, s : CommitOver(mem, disk, t, f, s)
        BY <2>4, Zenon DEF TaskCommit, Settle, Park, CutApproval, Reactivate, Rollback,
                           Handoff, Commit
      <3> QED
        BY <1>c, <3>1
    <2>5. CASE Flush(t)
      <3>1. PICK o \in task[t].owed : FlushAccepted(t, o) \/ FlushRefused(t, o)
        BY <2>5 DEF Flush
      <3>2. CASE FlushAccepted(t, o)
        BY <2>5, <3>2 DEF FlushAccepted, Flush
      <3>3. CASE FlushRefused(t, o)
        BY <1>s, <3>3 DEF FlushRefused
      <3> QED
        BY <3>1, <3>2, <3>3
    <2> QED
      BY <1>1, <2>1, <2>2, <2>3, <2>4, <2>5 DEF TaskNext, TaskCommit
  <1>2. ASSUME NEW y \in CarrierOwes, Mail(y)
        PROVE  x \in CarrierOwes /\ process = "up"
    BY <1>2 DEF Mail
  <1>3. ASSUME NEW y \in accepted, Consume(y) PROVE FALSE
    BY <1>s, <1>3 DEF Consume
  <1>4. CASE OtherCommit \/ Crash \/ Restart
    BY <1>4 DEF OtherCommit, Crash, LoseProcess, Restart
  <1>5. CASE UNCHANGED vars
    BY <1>5 DEF vars
  <1> QED
    BY <1>1, <1>2, <1>3, <1>4, <1>5 DEF Next

\* No step puts a notice in the mailbox whose consumption receipt the disk holds
\* (durable-delivery.md:21).
THEOREM ConsumedStays == Spec => ConsumedNotReplayed
  <1> DEFINE Unconsumed == \A x \in accepted' \ accepted : x \notin disk.consume
  <1>1. FaultInv /\ [Next]_vars => Unconsumed
    <2> SUFFICES ASSUME FaultInv, [Next]_vars,
                        NEW x \in accepted' \ accepted, x \in disk.consume
                 PROVE  FALSE
      OBVIOUS
    <2>1. process = "up"
      BY MailboxStep
    <2>2. x \in mem.consume
      BY <2>1 DEF FaultInv, RunningInv, Covers
    <2>3. /\ x \in receipts
          /\ x[1] \in held => \A o \in task[x[1]].owed : o.env.notice # x[2]
      BY <2>1, <2>2 DEF FaultInv, RunningInv, ConsumedInv
    <2>4. CASE x \in CarrierOwes
      BY <2>3, <2>4, CarrierOwesNotice
    <2>5. CASE \E t \in held : \E o \in task[t].owed : x = <<t, o.env.notice>>
      BY <2>3, <2>5
    <2> QED
      BY <2>4, <2>5, MailboxStep
  <1> QED
    BY <1>1, Storage, PTL DEF Spec, ConsumedNotReplayed

-----------------------------------------------------------------------------
(* Storage that answers.                                                   *)

\* What a running task and the task a restart would fold agree on: an obligation
\* no receipt answers is owed by both.
Agrees(t, r, s, answered) ==
    /\ r.status = s.status /\ r.revision = s.revision
    /\ r.round = s.round /\ r.handoff = s.handoff
    /\ \A o \in r.owed : <<t, o.env.notice>> \notin answered => o \in s.owed

\* The disk never holds a chain that does not follow, and as long as the process
\* runs, the view, the disk, the tables and the registry tell one story.
CrashInv ==
    /\ process # "refused"
    /\ \A t \in Tasks : Numbered(Stored(disk, t))
    /\ process = "up" =>
        /\ mem = disk /\ receipts = Confirmed(disk)
        /\ \A t \in Tasks : chain[t] = Stored(disk, t)
        /\ \A t \in held : Agrees(t, task[t], Restored(disk, t), receipts)

LEMMA NumberedGrows ==
    ASSUME NEW facts, Numbered(facts), NEW f \in Facts, f.rev = Cardinality(facts)
    PROVE  /\ Numbered(facts \cup {f})
           /\ Cardinality(facts) \in Nat
           /\ Cardinality(facts \cup {f}) = Cardinality(facts) + 1
  <1> DEFINE k == Cardinality(facts)
  <1>1. k \in Nat
    BY FS_CardinalityType DEF Numbered
  <1>2. f \notin facts
    <2>1. \A g \in facts : g.rev \in 0 .. (k - 1)
      BY DEF Numbered
    <2>2. k \notin 0 .. (k - 1)
      BY <1>1
    <2> QED
      BY <2>1, <2>2
  <1>3. IsFiniteSet(facts \cup {f}) /\ Cardinality(facts \cup {f}) = k + 1
    BY <1>2, FS_AddElement DEF Numbered
  <1>4. (k + 1) - 1 = k
    BY <1>1
  <1>5. ASSUME NEW n \in 0 .. k PROVE \E g \in facts \cup {f} : g.rev = n
    <2>1. CASE n = k
      BY <2>1
    <2>2. CASE n # k
      <3>1. n \in 0 .. (k - 1)
        BY <1>1, <2>2
      <3> QED
        BY <3>1 DEF Numbered
    <2> QED
      BY <2>1, <2>2
  <1>6. ASSUME NEW g \in facts \cup {f} PROVE g.rev \in 0 .. k
    <2>1. CASE g \in facts
      <3>1. g.rev \in 0 .. (k - 1)
        BY <2>1 DEF Numbered
      <3> QED
        BY <1>1, <3>1
    <2>2. CASE g = f
      BY <1>1, <2>2
    <2> QED
      BY <2>1, <2>2
  <1>7. ASSUME NEW g \in facts \cup {f}, NEW h \in facts \cup {f}, g.rev = h.rev
        PROVE  g = h
    <2>1. \A e \in facts : e.rev # k
      <3>1. k \notin 0 .. (k - 1)
        BY <1>1
      <3> QED
        BY <3>1 DEF Numbered
    <2> QED
      BY <1>7, <2>1 DEF Numbered
  <1>8. facts \cup {f} \in SUBSET Facts
    BY DEF Numbered
  <1> QED
    BY <1>1, <1>3, <1>4, <1>5, <1>6, <1>7, <1>8 DEF Numbered

\* The fold of a longer chain is the fold of the chain and one more link.
LEMMA ReplayAppend ==
    ASSUME NEW t, NEW answered, NEW facts, Numbered(facts), NEW f \in Facts,
           f.rev = Cardinality(facts)
    PROVE  Replay(LinksOf(t, facts \cup {f}, answered)) =
               FoldLink(Replay(LinksOf(t, facts, answered)), Unowed(t, f, answered))
  <1> DEFINE k == Cardinality(facts)
             more == facts \cup {f}
  <1>1. Numbered(more) /\ k \in Nat /\ Cardinality(more) = k + 1
    BY NumberedGrows
  <1>2. PICK g : IsRun(g, t, facts, answered) /\ Replay(LinksOf(t, facts, answered)) = g[k]
    BY ReplayIsRun
  <1>3. PICK h : IsRun(h, t, more, answered) /\ Replay(LinksOf(t, more, answered)) = h[k + 1]
    <2> HIDE DEF more
    <2> QED
      BY <1>1, ReplayIsRun
  <1> DEFINE P == {n \in Nat : h[n] = g[n]}
  <1>4. 0 \in P
    BY <1>2, <1>3 DEF IsRun
  <1>5. ASSUME NEW e \in facts, e.rev \in P PROVE e.rev + 1 \in P
    <2>1. /\ h[e.rev + 1] = FoldLink(h[e.rev], Unowed(t, e, answered))
          /\ g[e.rev + 1] = FoldLink(g[e.rev], Unowed(t, e, answered))
      BY <1>2, <1>3 DEF IsRun
    <2> QED
      BY <1>5, <2>1
  <1>6. k \in P
    <2> HIDE DEF P
    <2> QED
      BY <1>4, <1>5, RunInduction
  <1>7. h[k + 1] = FoldLink(h[k], Unowed(t, f, answered))
    BY <1>3 DEF IsRun
  <1> QED
    BY <1>2, <1>3, <1>6, <1>7

\* The same link moves two records that agree to records that agree.
LEMMA AgreesLinked ==
    ASSUME NEW t, NEW answered, NEW r \in Records, NEW s \in Records,
           NEW f \in SoundFacts, NEW l \in SoundFacts,
           NEW more, l.mut = f.mut, l.rev = f.rev, l.to = f.to,
           \A e \in f.outbox : <<t, e.notice>> \notin answered => e \in l.outbox,
           Agrees(t, r, s, answered), LinkedTo(r, f, more),
           NEW last, LinkedTo(s, l, last)
    PROVE  Agrees(t, more, last, answered)
  <1>1. /\ more.status = last.status /\ more.revision = last.revision
        /\ more.round = last.round /\ more.handoff = last.handoff
    BY DEF Agrees, LinkedTo
  <1>2. ASSUME NEW o \in more.owed, <<t, o.env.notice>> \notin answered
        PROVE  o \in last.owed
    <2>1. CASE o \in OpenedBy(f)
      <3>1. PICK e \in f.outbox : o = [env |-> e, rev |-> f.rev, kind |-> "awaiting"]
        BY <2>1 DEF OpenedBy
      <3>2. o.env = e
        BY <3>1
      <3>3. e \in l.outbox
        BY <1>2, <3>2
      <3>4. o \in OpenedBy(l)
        BY <3>1, <3>3 DEF OpenedBy
      <3> QED
        BY <3>4 DEF LinkedTo
    <2>2. CASE f.mut.op # "handoff" /\ o \in r.owed
      BY <1>2, <2>2 DEF Agrees, LinkedTo
    <2>3. CASE f.mut.op = "handoff" /\ o \in Reclassified(r.owed)
      <3>1. PICK p \in r.owed : o = [p EXCEPT !.kind = "handed_off"]
        BY <2>3 DEF Reclassified
      <3>2. p \in Obligations
        BY DEF Records
      <3>3. o.env = p.env
        BY <3>1, <3>2 DEF Obligations
      <3>4. p \in s.owed
        BY <1>2, <3>3 DEF Agrees
      <3>5. o \in Reclassified(s.owed)
        BY <3>1, <3>4 DEF Reclassified
      <3> QED
        BY <2>3, <3>5 DEF LinkedTo
    <2> QED
      BY <2>1, <2>2, <2>3 DEF LinkedTo
  <1> QED
    BY <1>1, <1>2 DEF Agrees

LEMMA UnowedFields ==
    ASSUME NEW t, NEW answered, NEW f \in SoundFacts
    PROVE  LET l == Unowed(t, f, answered)
           IN  /\ l \in SoundFacts /\ l.mut = f.mut /\ l.rev = f.rev /\ l.to = f.to
               /\ \A e : e \in l.outbox <=> e \in f.outbox /\ <<t, e.notice>> \notin answered
  BY SoundFact, UnowedSound, UnowedLink

\* A receipt takes obligations from the fold and nothing else.
LEMMA ReplayStripped ==
    ASSUME NEW t, NEW some, NEW all, some \subseteq all,
           NEW facts \in SUBSET SoundFacts, Numbered(facts)
    PROVE  Agrees(t, Replay(LinksOf(t, facts, some)), Replay(LinksOf(t, facts, all)), all)
  <1> DEFINE k == Cardinality(facts)
  <1>1. PICK g : IsRun(g, t, facts, some) /\ Replay(LinksOf(t, facts, some)) = g[k]
    BY ReplayIsRun
  <1>2. PICK h : IsRun(h, t, facts, all) /\ Replay(LinksOf(t, facts, all)) = h[k]
    BY ReplayIsRun
  <1> DEFINE P == {n \in Nat : /\ g[n] \in Records /\ IsFiniteSet(g[n].muts)
                               /\ h[n] \in Records /\ IsFiniteSet(h[n].muts)
                               /\ Agrees(t, g[n], h[n], all)}
  <1>3. 0 \in P
    <2>1. g[0] = OpenTool(Blank) /\ h[0] = OpenTool(Blank)
      BY <1>1, <1>2 DEF IsRun
    <2> QED
      BY <2>1, BlankRecord DEF Agrees
  <1>4. ASSUME NEW f \in facts, f.rev \in P PROVE f.rev + 1 \in P
    <2> DEFINE r == g[f.rev]
               s == h[f.rev]
               a == Unowed(t, f, some)
               b == Unowed(t, f, all)
    <2>1. g[f.rev + 1] = FoldLink(r, a) /\ h[f.rev + 1] = FoldLink(s, b)
      BY <1>1, <1>2 DEF IsRun
    <2>2. /\ r \in Records /\ IsFiniteSet(r.muts)
          /\ s \in Records /\ IsFiniteSet(s.muts) /\ Agrees(t, r, s, all)
      BY <1>4
    <2>3. /\ a \in SoundFacts /\ a.mut = f.mut /\ a.rev = f.rev /\ a.to = f.to
          /\ \A e : e \in a.outbox <=> e \in f.outbox /\ <<t, e.notice>> \notin some
      BY UnowedFields
    <2>4. /\ b \in SoundFacts /\ b.mut = f.mut /\ b.rev = f.rev /\ b.to = f.to
          /\ \A e : e \in b.outbox <=> e \in f.outbox /\ <<t, e.notice>> \notin all
      BY UnowedFields
    <2> HIDE DEF r, s, a, b
    <2>5. LinkedTo(r, a, FoldLink(r, a)) /\ LinkedTo(s, b, FoldLink(s, b))
      BY <2>2, <2>3, <2>4, LinkStep
    <2>6. \A e \in a.outbox : <<t, e.notice>> \notin all => e \in b.outbox
      BY <2>3, <2>4
    <2>7. Agrees(t, FoldLink(r, a), FoldLink(s, b), all)
      BY <2>2, <2>3, <2>4, <2>5, <2>6, AgreesLinked
    <2>8. f.rev + 1 \in Nat
      BY <1>4
    <2> QED
      BY <2>1, <2>5, <2>7, <2>8 DEF LinkedTo
  <1>5. k \in P
    <2> HIDE DEF P
    <2> QED
      BY <1>3, <1>4, RunInduction
  <1> QED
    BY <1>1, <1>2, <1>5

LEMMA AgreesOn ==
    ASSUME NEW t, NEW r, NEW s, NEW u, NEW some, NEW all, some \subseteq all,
           Agrees(t, r, s, some), Agrees(t, s, u, all)
    PROVE  Agrees(t, r, u, all)
  BY DEF Agrees

\* The chain of a task in a view, and the record of a restart over it.
LEMMA RestoredReplay ==
    ASSUME NEW view, NEW t
    PROVE  Restored(view, t) = Replay(LinksOf(t, Stored(view, t), Confirmed(view)))
  BY DEF Restored, LinksOf

\* A view whose facts are those of another, behind more answers.
LEMMA RestoredAnswered ==
    ASSUME NEW view, SoundView(view), NEW more, more.fact = view.fact,
           Confirmed(view) \subseteq Confirmed(more),
           NEW t, Numbered(Stored(view, t))
    PROVE  /\ Stored(more, t) = Stored(view, t)
           /\ Agrees(t, Restored(view, t), Restored(more, t), Confirmed(more))
  <1> DEFINE facts == Stored(view, t)
  <1>1. Stored(more, t) = facts
    BY DEF Stored
  <1>2. facts \in SUBSET SoundFacts
    BY StoredSound
  <1>3. /\ Restored(view, t) = Replay(LinksOf(t, facts, Confirmed(view)))
        /\ Restored(more, t) = Replay(LinksOf(t, facts, Confirmed(more)))
    BY <1>1, RestoredReplay
  <1> HIDE DEF facts
  <1>4. Agrees(t, Replay(LinksOf(t, facts, Confirmed(view))),
                  Replay(LinksOf(t, facts, Confirmed(more))), Confirmed(more))
    BY <1>2, ReplayStripped DEF facts
  <1> QED
    BY <1>1, <1>3, <1>4 DEF facts

\* A process that stops over facts that were or were to be stored.
LEMMA NumberedLost ==
    ASSUME CrashInv, NEW view \in Views, NEW stored \in Views, CutShort(view, stored),
           \A t \in Tasks : Numbered(Stored(view, t)) /\ Numbered(Stored(stored, t))
    PROVE  CrashInv'
  <1>1. PICK i \in 1 .. Len(Shards) + 1 : disk' = StoppedAt(view, stored, i)
    BY DEF CutShort
  <1>2. disk'.fact = view.fact \/ disk'.fact = stored.fact
    BY <1>1, StoppedView
  <1>3. ASSUME NEW t \in Tasks PROVE Numbered(Stored(disk', t))
    <2>1. Stored(disk', t) = Stored(view, t) \/ Stored(disk', t) = Stored(stored, t)
      BY <1>2 DEF Stored
    <2> QED
      BY <2>1
  <1>4. process' = "down"
    BY DEF CutShort, LoseProcess
  <1> QED
    BY <1>3, <1>4 DEF CrashInv

LEMMA NeverUnconfirmed ==
    ASSUME Faults = {}, NEW view, NEW stored
    PROVE  ~Unconfirmed(view, stored) /\ ~FlushStops(view, stored)
  BY DEF Unconfirmed, FlushStops

LEMMA CommittedFacts ==
    ASSUME NEW view, SoundView(view), NEW t \in Tasks, NEW f \in SoundFacts,
           \A g \in Stored(view, t) : g.mut # f.mut
    PROVE  /\ Stored(WithFact(view, t, f), t) = Stored(view, t) \cup {f}
           /\ \A u \in Tasks : u # t =>
                Stored(WithFact(view, t, f), u) = Stored(view, u)
           /\ Confirmed(WithFact(view, t, f)) = Confirmed(view)
  <1> DEFINE w == WithFact(view, t, f)
             kept == {x \in view.fact : x.task # t \/ x.fact.mut # f.mut}
  <1>1. /\ w.consume = view.consume /\ w.reject = view.reject
        /\ w.fact = kept \cup {[task |-> t, fact |-> f]}
    BY FactView
  <1>2. \A x \in view.fact : x.task = t => x.fact.mut # f.mut
    BY StoredFact
  <1>3. kept = view.fact
    BY <1>2
  <1> HIDE DEF w, kept
  <1>4. ASSUME NEW u, NEW g
        PROVE  g \in Stored(w, u) <=> g \in Stored(view, u) \/ (u = t /\ g = f)
    <2>1. g \in Stored(w, u) <=> \E x \in w.fact : x.task = u /\ x.fact = g
      BY StoredFact
    <2>2. g \in Stored(view, u) <=> \E x \in view.fact : x.task = u /\ x.fact = g
      BY StoredFact
    <2>3. /\ [task |-> t, fact |-> f].task = t /\ [task |-> t, fact |-> f].fact = f
          /\ w.fact = view.fact \cup {[task |-> t, fact |-> f]}
      BY <1>1, <1>3
    <2> QED
      BY <2>1, <2>2, <2>3
  <1>5. Stored(w, t) = Stored(view, t) \cup {f}
    <2>1. \A g : g \in Stored(w, t) <=> g \in Stored(view, t) \cup {f}
      BY <1>4
    <2> QED
      BY <2>1
  <1>6. ASSUME NEW u \in Tasks, u # t PROVE Stored(w, u) = Stored(view, u)
    <2>1. \A g : g \in Stored(w, u) <=> g \in Stored(view, u)
      BY <1>4, <1>6
    <2> QED
      BY <2>1
  <1>7. Confirmed(w) = Confirmed(view)
    BY <1>1 DEF Confirmed
  <1> QED
    BY <1>5, <1>6, <1>7 DEF w

\* A commit over storage that answers: every party sees the fact, or the process
\* is gone.
LEMMA CommitOverAgrees ==
    ASSUME Faults = {}, FaultInv, CrashInv, process = "up",
           NEW before, NEW stored, Covers(before, stored),
           before.fact = disk.fact, stored.fact = disk.fact,
           Confirmed(before) = Confirmed(disk),
           NEW t \in Tasks, NEW f \in SoundFacts,
           NEW r \in Records, NEW record, LinkedTo(r, f, record),
           Agrees(t, r, Restored(disk, t), receipts),
           CommitOver(before, stored, t, f, record)
    PROVE  CrashInv'
  <1> DEFINE w == WithFact(before, t, f)
             facts == Stored(disk, t)
             answered == Confirmed(disk)
  <1>0. /\ mem = disk /\ receipts = answered /\ chain[t] = facts
        /\ \A u \in Tasks : chain[u] = Stored(disk, u)
        /\ \A u \in Tasks : Numbered(Stored(disk, u))
        /\ \A u \in held : Agrees(u, task[u], Restored(disk, u), receipts)
        /\ SoundView(disk) /\ StorageInv
    BY DEF CrashInv, FaultInv, StorageInv
  <1>1. \A u \in Tasks : Stored(before, u) = Stored(disk, u) /\ Stored(stored, u) = Stored(disk, u)
    BY DEF Stored
  <1>2. (\A g \in chain[t] : g.mut # f.mut) /\ f.rev = Cardinality(chain[t])
    BY DEF CommitOver, CarrierRevision
  <1>3. /\ SoundView(before) /\ SoundView(stored) /\ before \in Views /\ stored \in Views
        /\ w \in Views
    <2>1. SoundView(before) /\ SoundView(stored)
      BY DEF Covers
    <2>2. SoundView(w)
      BY <2>1, FactView
    <2> QED
      BY <2>1, <2>2 DEF SoundView
  <1>4. /\ Stored(w, t) = facts \cup {f}
        /\ \A u \in Tasks : u # t => Stored(w, u) = Stored(disk, u)
        /\ Confirmed(w) = answered
    <2>1. \A g \in Stored(before, t) : g.mut # f.mut
      BY <1>0, <1>1, <1>2
    <2> QED
      BY <1>1, <1>3, <2>1, CommittedFacts
  <1> HIDE DEF w
  <1>5. f \in Facts /\ Numbered(facts) /\ f.rev = Cardinality(facts)
    BY <1>0, <1>2, SoundFact
  <1>6. Numbered(facts \cup {f})
    BY <1>5, NumberedGrows
  <1>7. \A u \in Tasks : Numbered(Stored(w, u)) /\ Numbered(Stored(stored, u))
    BY <1>0, <1>1, <1>4, <1>6
  <1>8. CASE CutShort(w, stored)
    BY <1>3, <1>7, <1>8, NumberedLost
  <1>9. CASE CommitConfirmed(w, t, f, record)
    <2>0. /\ mem' = w /\ disk' = w /\ receipts' = receipts /\ process' = "up"
          /\ chain' = [chain EXCEPT ![t] = chain[t] \cup {f}]
          /\ task' = [task EXCEPT ![t] = record] /\ held' = held \cup {t}
      BY <1>9 DEF CommitConfirmed, FlushAll
    <2>1. /\ chain \in [Tasks -> SUBSET Facts] /\ task \in [Tasks -> Records]
          /\ held \subseteq Tasks
      BY <1>0 DEF StorageInv
    <2>2. \A u \in Tasks : chain'[u] = Stored(w, u)
      BY <1>0, <1>4, <2>0, <2>1
    <2>3. Agrees(t, record, Restored(w, t), receipts)
      <3> DEFINE l == Unowed(t, f, answered)
                 s == Restored(disk, t)
      <3>1. s = Replay(LinksOf(t, facts, answered))
        BY RestoredReplay
      <3>2. Restored(w, t) = Replay(LinksOf(t, facts \cup {f}, answered))
        BY <1>4, RestoredReplay
      <3>3. Restored(w, t) = FoldLink(s, l)
        <4> HIDE DEF facts, answered
        <4> QED
          BY <1>5, <3>1, <3>2, ReplayAppend
      <3>4. s \in Records /\ IsFiniteSet(s.muts)
        <4>1. facts \in SUBSET Facts /\ IsFiniteSet(facts)
          BY <1>5 DEF Numbered
        <4>2. Follows(facts)
          BY <1>5, <4>1, FollowsIsNumbered
        <4> QED
          BY <1>0, <4>2, RestoredOwes
      <3>5. /\ l \in SoundFacts /\ l.mut = f.mut /\ l.rev = f.rev /\ l.to = f.to
            /\ \A e : e \in l.outbox <=> e \in f.outbox /\ <<t, e.notice>> \notin answered
        BY UnowedFields
      <3> HIDE DEF l, s, answered, facts
      <3>6. LinkedTo(s, l, FoldLink(s, l))
        BY <3>4, <3>5, LinkStep
      <3>7. \A e \in f.outbox : <<t, e.notice>> \notin receipts => e \in l.outbox
        BY <1>0, <3>5
      <3>8. Agrees(t, r, s, receipts)
        BY DEF s
      <3> QED
        BY <3>3, <3>4, <3>5, <3>6, <3>7, <3>8, AgreesLinked
    <2>4. ASSUME NEW u \in held' PROVE Agrees(u, task'[u], Restored(w, u), receipts)
      <3>1. CASE u = t
        <4>1. task'[t] = record
          BY <2>0, <2>1
        <4> QED
          BY <2>3, <3>1, <4>1
      <3>2. CASE u # t
        <4>1. u \in held /\ u \in Tasks /\ task'[u] = task[u]
          BY <2>0, <2>1, <3>2
        <4>2. Stored(w, u) = Stored(disk, u) /\ Confirmed(w) = Confirmed(disk)
          BY <1>4, <3>2, <4>1
        <4>3. Restored(w, u) = Restored(disk, u)
          BY <4>2, RestoredReplay
        <4> QED
          BY <1>0, <4>1, <4>3
      <3> QED
        BY <3>1, <3>2
    <2>5. receipts = Confirmed(w)
      BY <1>0, <1>4
    <2>6. \A u \in Tasks : Numbered(Stored(w, u))
      BY <1>7
    <2> QED
      BY <2>0, <2>2, <2>4, <2>5, <2>6 DEF CrashInv
  <1>10. CommitConfirmed(w, t, f, record) \/ CutShort(w, stored)
    <2>1. /\ ~CommitDisowned(w, stored, t, f)
          /\ ~CommitUncertain(w)
      BY NeverUnconfirmed DEF CommitDisowned, CommitUncertain
    <2> QED
      BY <2>1 DEF CommitOver, w
  <1> QED
    BY <1>8, <1>9, <1>10

LEMMA TaskCommitAgrees ==
    ASSUME Faults = {}, FaultInv, CrashInv, NEW t \in Tasks, TaskCommit(t)
    PROVE  CrashInv'
  <1>1. task[t] \in Records /\ IsFiniteSet(task[t].muts)
    BY DEF FaultInv, StorageInv
  <1>0. PICK f \in SoundFacts : \E s : Linked(t, f, s)
    BY <1>1, TaskCommitLinked
  <1>2. PICK s : Linked(t, f, s)
    BY <1>0
  <1>3. t \in held /\ CommitOver(mem, disk, t, f, s) /\ LinkedTo(task[t], f, s)
    BY <1>2 DEF Linked, Commit
  <1>4. process = "up"
    BY <1>3 DEF CommitOver
  <1>5. Covers(mem, disk)
    BY <1>4 DEF FaultInv, RunningInv
  <1>6. mem = disk /\ Agrees(t, task[t], Restored(disk, t), receipts)
    BY <1>3, <1>4 DEF CrashInv
  <1>7. mem.fact = disk.fact /\ Confirmed(mem) = Confirmed(disk)
    BY <1>6
  <1> QED
    BY <1>1, <1>3, <1>4, <1>5, <1>6, <1>7, CommitOverAgrees

LEMMA RegisterAgrees ==
    ASSUME Faults = {}, FaultInv, CrashInv, NEW t \in Tasks, Register(t)
    PROVE  CrashInv'
  <1> DEFINE s == OpenTool(Applied(Blank, AdmitFact))
             d == Declared(t)
             r == OpenTool(Blank)
  <1>1. CommitOver(d, d, t, AdmitFact, s)
    BY DEF Register
  <1>2. process = "up" /\ AdmitFact.rev = Cardinality(chain[t])
    BY <1>1 DEF CommitOver, CarrierRevision
  <1>3. mem = disk /\ chain[t] = Stored(disk, t) /\ Numbered(Stored(disk, t))
    BY <1>2 DEF CrashInv
  <1>4. Covers(d, d) /\ d.consume = mem.consume /\ d.fact = mem.fact
    BY <1>2, DeclaredCovers
  <1>5. Confirmed(d) = Confirmed(disk)
    <2>1. d.reject = mem.reject
      BY DEF Declared, FaultInv, StorageInv, SoundView, Views
    <2> QED
      BY <1>3, <1>4, <2>1 DEF Confirmed
  <1>6. AdmitFact \in SoundFacts /\ LinkedTo(r, AdmitFact, s) /\ AdmitFact.rev = 0
    BY AdmitFactSound, AdmittedLinked
  <1>7. Stored(disk, t) = {}
    BY <1>2, <1>3, <1>6, FS_EmptySet DEF Numbered
  <1>8. Restored(disk, t) = r
    <2>1. LinksOf(t, {}, Confirmed(disk)) = {}
      BY DEF LinksOf
    <2>2. Restored(disk, t) = Replay({})
      BY <1>7, <2>1, RestoredReplay
    <2>3. Numbered({})
      BY <1>3, <1>7
    <2>4. PICK g : /\ IsRun(g, t, {}, Confirmed(disk))
                   /\ Replay(LinksOf(t, {}, Confirmed(disk))) = g[Cardinality({})]
      BY <2>3, ReplayIsRun
    <2>5. g[0] = r /\ Replay({}) = g[0]
      BY <2>1, <2>4, FS_EmptySet DEF IsRun
    <2> QED
      BY <2>2, <2>5
  <1>9. r \in Records /\ Agrees(t, r, Restored(disk, t), receipts)
    BY <1>8, BlankRecord DEF Agrees
  <1> HIDE DEF s, d, r
  <1> QED
    BY <1>1, <1>2, <1>3, <1>4, <1>5, <1>6, <1>9, CommitOverAgrees

LEMMA DeclareFailsAgrees ==
    ASSUME Faults = {}, FaultInv, CrashInv, NEW t \in Tasks, DeclareFails(t)
    PROVE  CrashInv'
  <1> DEFINE d == Declared(t)
  <1>1. process = "up" /\ CutShort(d, disk)
    BY NeverUnconfirmed DEF DeclareFails
  <1>2. Covers(d, disk) /\ d.fact = mem.fact
    BY <1>1, DeclaredCovers
  <1>3. d \in Views /\ disk \in Views /\ d.fact = disk.fact
    BY <1>1, <1>2 DEF Covers, SoundView, CrashInv
  <1> HIDE DEF d
  <1>4. \A u \in Tasks : Stored(d, u) = Stored(disk, u)
    BY <1>3 DEF Stored
  <1>5. \A u \in Tasks : Numbered(Stored(d, u)) /\ Numbered(Stored(disk, u))
    BY <1>4 DEF CrashInv
  <1> QED
    BY <1>1, <1>3, <1>5, NumberedLost

\* A step that writes nothing and ends at most obligations.
LEMMA UnwrittenAgrees ==
    ASSUME FaultInv, CrashInv, process = "up",
           UNCHANGED <<mem, disk, chain, receipts, held, process>>,
           \A t \in Tasks : Agrees(t, task'[t], task[t], receipts)
    PROVE  CrashInv'
  <1>1. /\ \A t \in Tasks : chain[t] = Stored(disk, t)
        /\ \A t \in Tasks : Numbered(Stored(disk, t))
        /\ \A t \in held : Agrees(t, task[t], Restored(disk, t), receipts)
        /\ held \subseteq Tasks /\ mem = disk /\ receipts = Confirmed(disk)
    BY DEF CrashInv, FaultInv, StorageInv
  <1>2. \A t \in held : Agrees(t, task'[t], Restored(disk, t), receipts)
    BY <1>1, AgreesOn
  <1>3. /\ mem' = mem /\ disk' = disk /\ chain' = chain /\ receipts' = receipts
        /\ held' = held /\ process' = "up"
    OBVIOUS
  <1> QED
    BY <1>1, <1>2, <1>3 DEF CrashInv

LEMMA AnsweredAgrees ==
    ASSUME FaultInv, NEW t \in Tasks, NEW o, NEW answered
    PROVE  \A u \in Tasks : Agrees(u, Answered(t, o)[u], task[u], answered)
  <1> DEFINE s == [task[t] EXCEPT !.owed = task[t].owed \ {o}]
  <1>1. task \in [Tasks -> Records]
    BY DEF FaultInv, StorageInv
  <1>2. Agrees(t, s, task[t], answered)
    BY <1>1 DEF Agrees, Records
  <1>3. Answered(t, o) = [task EXCEPT ![t] = s]
    BY <1>1 DEF Answered
  <1> HIDE DEF s
  <1>4. ASSUME NEW u \in Tasks PROVE Agrees(u, Answered(t, o)[u], task[u], answered)
    <2>1. CASE u = t
      BY <1>1, <1>2, <1>3, <2>1
    <2>2. CASE u # t
      <3>1. Answered(t, o)[u] = task[u]
        BY <1>1, <1>3, <2>2
      <3> QED
        BY <3>1 DEF Agrees
    <2> QED
      BY <2>1, <2>2
  <1> QED
    BY <1>4

\* A stored answer strips its notice from the fold.
LEMMA StoreAnswerAgrees ==
    ASSUME Faults = {}, FaultInv, CrashInv, process = "up", NEW x, NEW view \in Views,
           view.fact = mem.fact, Confirmed(view) = Confirmed(mem) \cup {x},
           NEW moved, \A t \in Tasks : Agrees(t, moved[t], task[t], receipts),
           StoreAnswer(view, x, moved)
    PROVE  CrashInv'
  <1>1. /\ \A t \in Tasks : chain[t] = Stored(disk, t)
        /\ \A t \in Tasks : Numbered(Stored(disk, t))
        /\ \A t \in held : Agrees(t, task[t], Restored(disk, t), receipts)
        /\ held \subseteq Tasks /\ mem = disk /\ receipts = Confirmed(disk)
        /\ SoundView(disk) /\ disk \in Views
    BY DEF CrashInv, FaultInv, StorageInv, SoundView
  <1>2. ASSUME NEW t \in Tasks
        PROVE  /\ Stored(view, t) = Stored(disk, t)
               /\ Agrees(t, Restored(disk, t), Restored(view, t), Confirmed(view))
    BY <1>1, RestoredAnswered
  <1>3. CASE CutShort(view, disk)
    <2>1. \A t \in Tasks : Numbered(Stored(view, t)) /\ Numbered(Stored(disk, t))
      BY <1>1, <1>2
    <2> QED
      BY <1>1, <1>3, <2>1, NumberedLost
  <1>4. CASE /\ FlushAll(view)
             /\ receipts' = receipts \cup {x}
             /\ task' = moved
             /\ UNCHANGED <<chain, held, parked, accepted, process, crashes>>
    <2>1. /\ mem' = view /\ disk' = view /\ receipts' = Confirmed(view) /\ task' = moved
          /\ chain' = chain /\ held' = held /\ process' = "up"
      BY <1>1, <1>4 DEF FlushAll
    <2>2. ASSUME NEW t \in held PROVE Agrees(t, moved[t], Restored(view, t), Confirmed(view))
      <3>1. t \in Tasks
        BY <1>1
      <3>2. Agrees(t, moved[t], Restored(disk, t), receipts)
        BY <1>1, <3>1, AgreesOn
      <3>3. receipts \subseteq Confirmed(view)
        BY <1>1
      <3> QED
        BY <1>2, <3>1, <3>2, <3>3, AgreesOn
    <2>3. \A t \in Tasks : chain[t] = Stored(view, t) /\ Numbered(Stored(view, t))
      BY <1>1, <1>2
    <2> QED
      BY <2>1, <2>2, <2>3 DEF CrashInv
  <1>5. ~Unconfirmed(view, disk)
    BY NeverUnconfirmed
  <1> QED
    BY <1>3, <1>4, <1>5 DEF StoreAnswer

LEMMA FlushAgrees ==
    ASSUME Faults = {}, FaultInv, CrashInv, NEW t \in Tasks, Flush(t)
    PROVE  CrashInv'
  <1>0. process = "up"
    BY DEF Flush
  <1>1. PICK o \in task[t].owed : FlushAccepted(t, o) \/ FlushRefused(t, o)
    BY DEF Flush
  <1>2. \A u \in Tasks : Agrees(u, Answered(t, o)[u], task[u], receipts)
    BY AnsweredAgrees
  <1>3. CASE FlushAccepted(t, o)
    <2>1. /\ UNCHANGED <<mem, disk, chain, receipts, held, process>>
          /\ task' = Answered(t, o)
      BY <1>3 DEF FlushAccepted
    <2> QED
      BY <1>0, <1>2, <2>1, UnwrittenAgrees
  <1>4. CASE FlushRefused(t, o)
    <2> DEFINE x == <<t, o.env.notice>>
               view == [mem EXCEPT !.reject = mem.reject \cup {x}]
    <2>1. mem \in Views /\ x \in Tasks \X Notices
      <3>1. o \in Obligations
        BY DEF FaultInv, StorageInv, Records
      <3> QED
        BY <3>1 DEF FaultInv, StorageInv, SoundView, Obligations, Envelopes
    <2>2. /\ view = [mem EXCEPT !.reject = @ \cup {x}]
          /\ view.fact = mem.fact /\ view.consume = mem.consume
          /\ view.reject = mem.reject \cup {x} /\ view \in Views
      BY <2>1 DEF Views
    <2>3. StoreAnswer(view, x, Answered(t, o))
      BY <1>4, <2>2 DEF FlushRefused
    <2> HIDE DEF view, x
    <2>4. Confirmed(view) = Confirmed(mem) \cup {x}
      BY <2>2 DEF Confirmed
    <2> QED
      BY <1>0, <1>2, <2>2, <2>3, <2>4, StoreAnswerAgrees
  <1> QED
    BY <1>1, <1>3, <1>4

LEMMA ConsumeAgrees ==
    ASSUME Faults = {}, FaultInv, CrashInv, NEW x \in accepted, Consume(x)
    PROVE  CrashInv'
  <1> DEFINE view == [mem EXCEPT !.consume = mem.consume \cup {x}]
  <1>1. process = "up" /\ mem \in Views /\ x \in Tasks \X Notices
    BY DEF Consume, FaultInv, StorageInv, SoundView
  <1>2. /\ view = [mem EXCEPT !.consume = @ \cup {x}]
        /\ view.fact = mem.fact /\ view.reject = mem.reject
        /\ view.consume = mem.consume \cup {x} /\ view \in Views
    BY <1>1 DEF Views
  <1>3. StoreAnswer(view, x, task)
    BY <1>2 DEF Consume
  <1> HIDE DEF view
  <1>4. Confirmed(view) = Confirmed(mem) \cup {x}
    BY <1>2 DEF Confirmed
  <1>5. \A t \in Tasks : Agrees(t, task[t], task[t], receipts)
    BY DEF Agrees
  <1> QED
    BY <1>1, <1>2, <1>3, <1>4, <1>5, StoreAnswerAgrees

LEMMA RestartOpens ==
    ASSUME FaultInv, CrashInv, Restart
    PROVE  CrashInv'
  <1>1. /\ SoundView(disk) /\ disk \in Views
        /\ mem' = disk /\ disk' = disk /\ receipts' = Confirmed(disk)
        /\ chain' = [t \in Tasks |-> Stored(disk, t)]
        /\ \A t \in Tasks : Numbered(Stored(disk, t))
    BY DEF Restart, FaultInv, StorageInv, SoundView, CrashInv
  <1>2. Folds(disk)
    BY <1>1, FollowsIsNumbered DEF Folds, Numbered
  <1>3. process' = "up" /\ held' = Restorable(disk)
    BY <1>2 DEF Restart
  <1>4. ASSUME NEW t \in held' PROVE Agrees(t, task'[t], Restored(disk, t), receipts')
    <2>1. t \in Restorable(disk) /\ t \in Tasks
      BY <1>1, <1>3 DEF Restorable, Views
    <2>2. task'[t] = Restored(disk, t)
      BY <1>2, <2>1 DEF Restart
    <2> QED
      BY <2>2 DEF Agrees
  <1> QED
    BY <1>1, <1>3, <1>4 DEF CrashInv

LEMMA CrashInit == Init => CrashInv
  <1> SUFFICES ASSUME Init PROVE CrashInv
    OBVIOUS
  <1>1. /\ mem = disk /\ receipts = {} /\ held = {} /\ process = "up"
        /\ disk.consume = {} /\ disk.reject = {} /\ disk.fact = {}
        /\ chain = [t \in Tasks |-> {}]
    BY DEF Init, EmptyView
  <1>2. \A t \in Tasks : Stored(disk, t) = {}
    BY <1>1 DEF Stored
  <1>3. Numbered({})
    <2>1. Cardinality({}) = 0 /\ IsFiniteSet({})
      BY FS_EmptySet
    <2> QED
      BY <2>1 DEF Numbered
  <1> QED
    BY <1>1, <1>2, <1>3 DEF CrashInv, Confirmed

LEMMA CrashNext ==
    ASSUME Faults = {}
    PROVE  FaultInv /\ CrashInv /\ [Next]_vars => CrashInv'
  <1> SUFFICES ASSUME FaultInv, CrashInv, [Next]_vars PROVE CrashInv'
    OBVIOUS
  <1>0. \A t \in Tasks : Agrees(t, task[t], task[t], receipts)
    BY DEF Agrees
  <1>1. ASSUME NEW t \in Tasks, TaskNext(t) PROVE CrashInv'
    <2>1. CASE DeclareFails(t)
      BY <2>1, DeclareFailsAgrees
    <2>2. CASE Register(t)
      BY <2>2, RegisterAgrees
    <2>3. CASE Hold(t)
      BY <1>0, <2>3, UnwrittenAgrees DEF Hold
    <2>4. CASE TaskCommit(t)
      BY <2>4, TaskCommitAgrees
    <2>5. CASE Flush(t)
      BY <2>5, FlushAgrees
    <2> QED
      BY <1>1, <2>1, <2>2, <2>3, <2>4, <2>5 DEF TaskNext, TaskCommit
  <1>2. ASSUME NEW x \in CarrierOwes, Mail(x) PROVE CrashInv'
    BY <1>0, <1>2, UnwrittenAgrees DEF Mail, registry
  <1>3. ASSUME NEW x \in accepted, Consume(x) PROVE CrashInv'
    BY <1>3, ConsumeAgrees
  <1>4. CASE OtherCommit
    BY <1>4 DEF OtherCommit, CrashInv
  <1>5. CASE Crash
    BY <1>5 DEF Crash, LoseProcess, CrashInv
  <1>6. CASE Restart
    BY <1>6, RestartOpens
  <1>7. CASE UNCHANGED vars
    BY <1>7 DEF vars, CrashInv
  <1> QED
    BY <1>1, <1>2, <1>3, <1>4, <1>5, <1>6, <1>7 DEF Next

\* Over storage that answers, whenever the process stops, the assembly opens
\* again, and what it would fold of the disk is the task the registry holds
\* (restore.go:189-264).
THEOREM RestartCorrect ==
    ASSUME Faults = {}
    PROVE  Spec => []RestartAgrees
  <1>1. CrashInv => RestartAgrees
    BY DEF CrashInv, Agrees, RestartAgrees
  <1>2. FaultInv /\ CrashInv /\ [Next]_vars => CrashInv'
    BY CrashNext
  <1> QED
    BY <1>1, <1>2, CrashInit, Storage, PTL DEF Spec
=============================================================================
