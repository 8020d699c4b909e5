--------------------------- MODULE GenerationLife ---------------------------
(***************************************************************************)
(* What the publication of agent bindings promises to those who use them   *)
(* (runtime/state: publish.go, binding.go, retire.go): generations are     *)
(* numbered one after the other and the latest one serves; a request holds *)
(* one generation for its whole life; what a generation was built with is  *)
(* freed once, and only when a newer one serves and nobody holds it.       *)
(***************************************************************************)
EXTENDS Naturals

CONSTANT Users    \* requests and delegated calls

VARIABLES
    serving,      \* number of the generation in service, 0 before the first
    holds,        \* the generation each user holds, 0 for none
    freed         \* generations whose resources are freed

life == <<serving, holds, freed>>

Init == serving = 0 /\ holds = [u \in Users |-> 0] /\ freed = {}

Serve == serving' = serving + 1 /\ UNCHANGED <<holds, freed>>

Take(u) ==
    /\ holds[u] = 0
    /\ \E g \in (1..serving) \ freed : holds' = [holds EXCEPT ![u] = g]
    /\ UNCHANGED <<serving, freed>>

GiveBack(u) ==
    /\ holds[u] # 0
    /\ holds' = [holds EXCEPT ![u] = 0]
    /\ UNCHANGED <<serving, freed>>

Free ==
    /\ \E gone \in SUBSET ((1..(serving - 1)) \ freed) :
          /\ \A u \in Users : holds[u] \notin gone
          /\ freed' = freed \union gone
    /\ UNCHANGED <<serving, holds>>

Next == Serve \/ Free \/ \E u \in Users : Take(u) \/ GiveBack(u)

Spec == Init /\ [][Next]_life
=============================================================================
