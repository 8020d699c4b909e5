----------------------------- MODULE McpServers -----------------------------
(***************************************************************************)
(* The live registry of MCP servers and the binder that brings it onto one *)
(* declared generation (tool/mcp/registry.go, bind.go).  A call borrows the*)
(* tool set of a server for its duration; a server that is removed closes  *)
(* its tool set at once, or when the last call on it ends.                 *)
(***************************************************************************)
EXTENDS Integers, Sequences, FiniteSets, FiniteSetsExt

CONSTANTS
    Names,       \* server names, numbers in name order
    Decls,       \* declarations a server may have
    Calls,       \* callers of mcp_call
    Absent,
    MaxRefusals  \* bound: closes of a tool set that answer an error

ASSUME NamesAssumption == Names \subseteq Nat /\ IsFiniteSet(Names)
ASSUME CallsAssumption == IsFiniteSet(Calls)
ASSUME AbsentAssumption == Absent \notin Decls
ASSUME RefusalsAssumption == MaxRefusals \in Nat

VARIABLES
    sets,        \* the registry entries ever made
    listed,      \* ServerRegistry.entries: the entry of each name, 0 for none
    shut,        \* ServerRegistry.closed
    applied,     \* Binder.applied
    bind,        \* the Bind under way
    calls,       \* the entry each call runs on, 0 for none
    refusals     \* names whose tool set refused to close, in order

servers == <<sets, listed, shut, applied, bind, calls, refusals>>

Declared == [Names -> Decls \union {Absent}]
NoServers == [n \in Names |-> Absent]
Idle == [pc |-> "idle", next |-> NoServers]

ServersInit ==
    /\ sets = <<>> /\ listed = [n \in Names |-> 0] /\ shut = FALSE
    /\ applied = NoServers /\ bind = Idle
    /\ calls = [k \in Calls |-> 0] /\ refusals = <<>>

\* Mutant of Unlisted: a removal closes the tool set under its calls.
UnlistedAtOnce(e) == [sets[e] EXCEPT !.unlisted = TRUE, !.closed = @ + 1]

\* An entry without calls closes with its removal; with calls, its last call closes it.
Unlisted(e) ==
    [sets[e] EXCEPT !.unlisted = TRUE, !.closed = @ + (IF sets[e].refs = 0 THEN 1 ELSE 0)]

CloseRefused(n) == Len(refusals) < MaxRefusals /\ refusals' = Append(refusals, n)

-----------------------------------------------------------------------------
(* Bind: one Remove or one Add at a time, calls go on in between.           *)

BindBegins(next) ==
    /\ bind' = [pc |-> "binding", next |-> next]
    /\ UNCHANGED <<sets, listed, shut, applied, calls, refusals>>

Undeclared == {n \in Names : applied[n] # Absent /\ bind.next[n] = Absent}

\* Mutant of Moved: a redeclared server is taken for the one that is applied.
MovedNew == {n \in Names : bind.next[n] # Absent /\ applied[n] = Absent}

Moved == {n \in Names : bind.next[n] # Absent /\ applied[n] # bind.next[n]}
Binding == bind.pc = "binding"

BindFails == bind' = [bind EXCEPT !.pc = "failed"]

\* ServerRegistry.Remove, called for a name the binder applied; ErrServerUnknown is
\* passed over for an undeclared server only, and the loops stop at any other error.
Remove(n) ==
    /\ applied[n] # Absent
    /\ IF listed[n] = 0
       THEN /\ IF n \in Undeclared
               THEN applied' = [applied EXCEPT ![n] = Absent] /\ UNCHANGED bind
               ELSE BindFails /\ UNCHANGED applied
            /\ UNCHANGED <<sets, listed, refusals>>
       ELSE /\ sets' = [sets EXCEPT ![listed[n]] = Unlisted(listed[n])]
            /\ listed' = [listed EXCEPT ![n] = 0]
            /\ \/ /\ applied' = [applied EXCEPT ![n] = Absent]
                  /\ UNCHANGED <<bind, refusals>>
               \/ /\ sets[listed[n]].refs = 0
                  /\ CloseRefused(n) /\ BindFails
                  /\ UNCHANGED applied
    /\ UNCHANGED <<shut, calls>>

BindRemoves ==
    /\ Binding
    /\ \/ \E n \in Undeclared : Remove(n)
       \/ /\ Undeclared = {} /\ Moved # {}
          /\ Remove(Min(Moved))

BindAdds ==
    /\ Binding
    /\ Undeclared = {} /\ Moved # {}
    /\ LET n == Min(Moved) IN
          /\ applied[n] = Absent
          /\ IF shut \/ listed[n] # 0
             THEN BindFails /\ UNCHANGED <<sets, listed, applied>>
             ELSE /\ sets' = Append(sets, [decl |-> bind.next[n], refs |-> 0,
                                           unlisted |-> FALSE, closed |-> 0])
                  /\ listed' = [listed EXCEPT ![n] = Len(sets) + 1]
                  /\ applied' = [applied EXCEPT ![n] = bind.next[n]]
                  /\ UNCHANGED bind
    /\ UNCHANGED <<shut, calls, refusals>>

BindEnds ==
    /\ Binding
    /\ Undeclared = {} /\ Moved = {}
    /\ bind' = [bind EXCEPT !.pc = "bound"]
    /\ UNCHANGED <<sets, listed, shut, applied, calls, refusals>>

Bind == BindRemoves \/ BindAdds \/ BindEnds

-----------------------------------------------------------------------------
CallBorrows(k, n) ==
    /\ calls[k] = 0 /\ listed[n] # 0
    /\ calls' = [calls EXCEPT ![k] = listed[n]]
    /\ sets' = [sets EXCEPT ![listed[n]].refs = @ + 1]
    /\ UNCHANGED <<listed, shut, applied, bind, refusals>>

CallEnds(k) ==
    /\ calls[k] # 0
    /\ LET e == calls[k]
           last == sets[e].unlisted /\ sets[e].refs = 1 /\ sets[e].closed = 0
       IN  sets' = [sets EXCEPT ![e].refs = @ - 1,
                                ![e].closed = @ + (IF last THEN 1 ELSE 0)]
    /\ calls' = [calls EXCEPT ![k] = 0]
    /\ UNCHANGED <<listed, shut, applied, bind, refusals>>

\* CloseMCPServers.
CloseServers ==
    /\ ~shut
    /\ shut' = TRUE
    /\ sets' = [e \in DOMAIN sets |-> IF sets[e].unlisted THEN sets[e] ELSE Unlisted(e)]
    /\ listed' = [n \in Names |-> 0]
    /\ UNCHANGED <<applied, bind, calls, refusals>>

-----------------------------------------------------------------------------
ServersTypeOK ==
    /\ sets \in Seq([decl : Decls, refs : 0..Cardinality(Calls), unlisted : BOOLEAN,
                     closed : 0..1])
    /\ listed \in [Names -> 0..Len(sets)]
    /\ shut \in BOOLEAN
    /\ applied \in Declared
    /\ bind \in [pc : {"idle", "binding", "failed", "bound"}, next : Declared]
    /\ calls \in [Calls -> 0..Len(sets)]
    /\ refusals \in Seq(Names) /\ Len(refusals) <= MaxRefusals

\* A call keeps the connection it was handed until it ends, however often its server
\* is redeclared, dropped or shut down meanwhile, and a connection nobody is on any
\* more is closed, once: none is closed under a call and none is left open
\* (registry.go Remove, Borrow, Close).
ConnectionOutlivesItsCalls ==
    \A e \in DOMAIN sets :
        /\ sets[e].refs = Cardinality({k \in Calls : calls[k] = e})
        /\ sets[e].closed = IF sets[e].unlisted /\ sets[e].refs = 0 THEN 1 ELSE 0

=============================================================================
