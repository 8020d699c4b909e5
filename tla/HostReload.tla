----------------------------- MODULE HostReload -----------------------------
(***************************************************************************)
(* A reload of the host (assembly/host_reload.go) as the order it moves    *)
(* four accounts in: the generation in effect (Run.Publish), the MCP       *)
(* servers (McpServers), the document of the host and of its model builder,*)
(* and the model lease (ModelLease), with the facts it files about the     *)
(* move.  Reload is serialised by reloadMu; calls and streams go on beside *)
(* it, and the host may close under it.  The publication itself is the     *)
(* subject of Publication; here it refuses, changes nothing or applies,    *)
(* and one that applied may still answer an error of its retirement.       *)
(***************************************************************************)
EXTENDS McpServers, ModelLease

CONSTANTS
    Docs,        \* documents of the configuration source: [servers, version, rest]
    Boot,        \* the one the host booted from
    MaxReloads   \* bound: reloads

ASSUME DocsAssumption ==
    /\ Docs \subseteq [servers : Declared, version : Versions, rest : Nat]
    /\ Boot \in Docs
ASSUME ReloadsAssumption == MaxReloads \in Nat

VARIABLES
    up,          \* ~Host.closed
    doc,         \* Host.doc
    models,      \* the document hostModelBuilder reads
    published,   \* history: the declaration of each generation
    facts,       \* config change facts: generation, and the move they describe
    reload,      \* the reload under way
    answer,      \* what the last reload answered
    reloads,
    stumbled     \* history: a fact, a rebuild or a close failed in the last reload

host == <<up, doc, models, published, facts, reload, answer, reloads, stumbled>>
vars == <<servers, lease, host>>

generation == Len(published)
Effective == published[generation]
Resting == [pc |-> "idle", next |-> Boot, from |-> Boot, to |-> Unserved]

\* configChangesOf leaves the model reference to its own dimension.
ConfigMoves(from, to) == from.servers # to.servers \/ from.rest # to.rest

Init ==
    /\ ServersInit /\ LeaseInit(Boot.version)
    /\ up = TRUE /\ doc = Boot /\ models = Boot
    /\ published = <<Boot>> /\ facts = {}
    /\ reload = [Resting EXCEPT !.pc = "binding"]
    /\ answer = "none" /\ reloads = 0 /\ stumbled = FALSE

-----------------------------------------------------------------------------
\* The document is read and judged before the publication: against Host.doc, and the
\* model against the version the lease holds.  restartRequiredChanges may refuse it.
ReloadBegins(next) ==
    /\ reload.pc = "idle" /\ up
    /\ reloads < MaxReloads /\ reloads' = reloads + 1
    /\ stumbled' = FALSE
    /\ \/ /\ reload' = [pc |-> "judged", next |-> next, from |-> doc,
                        to |-> IF next.version = CurrentVersion THEN Unserved
                               ELSE next.version]
          /\ answer' = "none"
       \/ answer' = "error" /\ UNCHANGED reload
    /\ UNCHANGED <<servers, lease, up, doc, models, published, facts>>

Answer(how) == reload' = [reload EXCEPT !.pc = "idle"] /\ answer' = how

PublishRefuses ==
    /\ reload.pc = "judged"
    /\ Answer("error")
    /\ UNCHANGED <<servers, lease, up, doc, models, published, facts, reloads, stumbled>>

\* The retirement may fail beside a publication that took effect.
PublishApplies ==
    /\ reload.pc = "judged"
    /\ reload.next # Effective
    /\ published' = Append(published, reload.next)
    /\ \/ reload' = [reload EXCEPT !.pc = "applied"] /\ UNCHANGED answer
       \/ Answer("error")
    /\ UNCHANGED <<servers, lease, up, doc, models, facts, reloads, stumbled>>

PublishKeeps ==
    /\ reload.pc = "judged"
    /\ reload.next = Effective
    /\ reload' = [reload EXCEPT !.pc = "kept"]
    /\ UNCHANGED <<servers, lease, up, doc, models, published, facts, answer, reloads,
                   stumbled>>

\* bindMCPServers runs for a publication that changed nothing as well.
ReloadBinds ==
    /\ reload.pc \in {"applied", "kept", "binding"} /\ bind.pc = "idle"
    /\ BindBegins(reload.next.servers)
    /\ UNCHANGED <<lease, host>>

ReloadBindStep ==
    /\ Bind
    /\ stumbled' = (stumbled \/ refusals' # refusals)
    /\ UNCHANGED <<lease, up, doc, models, published, facts, reload, answer, reloads>>

BindDone == bind' = Idle /\ UNCHANGED <<sets, listed, shut, applied, calls, refusals>>

ReloadBindFails ==
    /\ bind.pc = "failed"
    /\ BindDone
    /\ Answer("error")
    /\ UNCHANGED <<lease, up, doc, models, published, facts, reloads, stumbled>>

\* The assembly's own publication ends with the binding; a reload installs what it read.
ReloadInstalls ==
    /\ bind.pc = "bound"
    /\ BindDone
    /\ IF reload.pc = "binding"
       THEN Answer("none") /\ UNCHANGED <<doc, models>>
       ELSE /\ doc' = reload.next /\ models' = reload.next
            /\ reload' = [reload EXCEPT !.pc = IF @ = "applied" THEN "filing" ELSE "modelling"]
            /\ UNCHANGED answer
    /\ UNCHANGED <<lease, up, published, facts, reloads, stumbled>>

\* The configuration facts of a published reload; one that is not filed fails the answer.
ReloadFiles ==
    /\ reload.pc = "filing"
    /\ reload' = [reload EXCEPT !.pc = "modelling"]
    /\ LET moves == ConfigMoves(reload.from, reload.next) IN
          \/ /\ facts' = IF moves
                         THEN facts \union {[gen |-> generation, from |-> reload.from,
                                             to |-> reload.next]}
                         ELSE facts
             /\ UNCHANGED stumbled
          \/ moves /\ stumbled' = TRUE /\ UNCHANGED facts
    /\ UNCHANGED <<servers, lease, up, doc, models, published, answer, reloads>>

\* The model fact: its After pass hands it to the LeaseObserver, which answers nothing.
\* The rebuild may fail, as the commit may.
ReloadModels ==
    /\ reload.pc = "modelling"
    /\ \/ reload.to = Unserved /\ UNCHANGED <<lease, stumbled>>
       \/ /\ reload.to # Unserved
          /\ Install(reload.to) /\ UNCHANGED stumbled
       \/ reload.to # Unserved /\ stumbled' = TRUE /\ UNCHANGED lease
    /\ reload' = [reload EXCEPT !.pc = "closing"]
    /\ UNCHANGED <<servers, up, doc, models, published, facts, answer, reloads>>

ReloadSweeps ==
    /\ SweepVersions
    /\ UNCHANGED <<servers, host>>

\* A commit that failed is an error; a rebuild that failed is not.
ReloadAnswers ==
    /\ reload.pc = "closing" /\ ~sweeping
    /\ \/ Answer("ok")
       \/ stumbled /\ Answer("error")
    /\ UNCHANGED <<servers, lease, up, doc, models, published, facts, reloads, stumbled>>

Reload ==
    \/ PublishRefuses \/ PublishApplies \/ PublishKeeps
    \/ ReloadBinds \/ ReloadBindStep \/ ReloadBindFails \/ ReloadInstalls
    \/ ReloadFiles \/ ReloadModels \/ ReloadSweeps \/ ReloadAnswers

-----------------------------------------------------------------------------
\* Close waits for no reload; it closes the servers when the run is closed.
HostCloses ==
    /\ up /\ up' = FALSE
    /\ UNCHANGED <<servers, lease, doc, models, published, facts, reload, answer, reloads,
                   stumbled>>

HostClosesServers == ~up /\ CloseServers /\ UNCHANGED <<lease, host>>

Calling ==
    /\ \E k \in Calls : CallEnds(k) \/ \E n \in Names : CallBorrows(k, n)
    /\ UNCHANGED <<lease, host>>

Streaming == StreamSteps /\ UNCHANGED <<servers, host>>

Next ==
    \/ \E next \in Docs : ReloadBegins(next)
    \/ Reload \/ HostCloses \/ HostClosesServers \/ Calling \/ Streaming

Spec == Init /\ [][Next]_vars

-----------------------------------------------------------------------------
\* Every variable has its type.
TypeOK ==
    /\ ServersTypeOK /\ LeaseTypeOK
    /\ up \in BOOLEAN /\ doc \in Docs /\ models \in Docs
    /\ published \in Seq(Docs)
    /\ facts \subseteq [gen : 1..(MaxReloads + 1), from : Docs, to : Docs]
    /\ reload \in [pc : {"idle", "judged", "applied", "kept", "binding", "filing",
                         "modelling", "closing"},
                   next : Docs, from : Docs, to : Versions \union {Unserved}]
    /\ answer \in {"none", "ok", "error"}
    /\ reloads \in 0..MaxReloads /\ stumbled \in BOOLEAN

\* A reload that answers no error leaves every account on one document: the host, the
\* builder, the generation in effect, the servers a call can borrow unless a tool set
\* refused to close, and the model unless a step it reports elsewhere failed.
AnswerFollowsDocument ==
    answer = "ok" /\ reload.pc = "idle" =>
        /\ doc = Effective /\ models = doc
        /\ ~stumbled => CurrentVersion = doc.version
        /\ ~shut /\ refusals = <<>> =>
              \A n \in Names :
                  IF listed[n] = 0 THEN doc.servers[n] = Absent
                  ELSE sets[listed[n]].decl = doc.servers[n]

=============================================================================
