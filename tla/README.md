# Verification of the tagent runtime

This directory models the part of tagent that decides whether work is lost,
done twice, left waiting or freed under its user: the accounts a host keeps between
an input and the answer that leaves it, and the moves that replace what serves them.
The specifications are plain TLA+, checked with TLC on small instances and, for eight of
them (task registry, delegated rounds, settlement of notices, consumer loop, approvals,
delivery, publication, reload), proved with TLAPS for every instance. Line numbers refer
to the sources at the commit modelled.

## 1. The system and its components

tagent runs agents as residents. A session's consumer loop pulls facts and drives
model turns; a turn calls tools; a tool call that outlives its turn is a *task*; a
task that ends owes a *notice* to the address that waits for it; a notice wakes the
resident, which answers, and the answer's body is owed to a channel. Every arrow of
that sentence is a handover between two accounts, and the code's promise is that at
each one either the old account still owes or the new one already does. Beside it
the host replaces what serves: a reload publishes a new generation of bindings,
rebinds the tool servers and exchanges the model while requests hold the old ones.

| component | state it keeps | operations | hard parts | what makes it correct |
|---|---|---|---|---|
| task registry and manager (`runtime/task` lifecycle, reactivate, cancel, manager, handoff, admission) | one `memoryTask` per task: status, revision, round, stored mutations, obligations, routing; dedup table; closed instances | Register, Advance, Resume, Reactivate, RollbackReactivation, RequestCancel, RecordStop, Handoff, CloseInstance, Flush, PruneTerminal | clients act on what they read in an earlier lock section; mutation identities are built from counts | one gapless chain per task; terminal outcomes stand; a notice is owed until answered; a tool is owed exactly in flight |
| native tool wrapper (`runtime/task/wrapper.go`) | none of its own: a goroutine per admitted call | hold, execute, acceptDelivery | four lock sections, a lost settle is never retried | its late settle never revives or overwrites |
| delegated rounds (`runtime/agent/delegate.go`, `tool/subagent/continuation.go`, `assembly/host_tools.go`) | delegation entries and bookings, the slot of a task's rounds | Delegate, complete, ReenterTask, unwind, landOwed | three accounts moved one after the other, two callers of one round, an unwind that fails | one round runs and settles as itself; a task in flight is served; a close lands what waits |
| durable commit carrier (`runtime/state/durable.go`) | tables of facts, receipts, refusals, attempts | Commit, Declare, recordConsumption, recordRejection, recordAttempt, load | a barrier that stops half way, one that does not answer, a crash inside it | what receipts do not answer is owed, what they answer is not offered again |
| localfile tier (`memory/ledger/localfile.go`) | key-value shards in memory, dirty marks, one snapshot file per shard | kvRead, kvCommit | shards are renamed in one by one; a failed batch stays dirty | a new process reads what was confirmed |
| restore (`runtime/task/restore.go`, `assembly/run.go`) | none | Restore | consumed notices are stripped from the links it folds | the fold is the task the stopped process held |
| notice mailbox (`runtime/state/mailbox.go`, `memory.go`) | seats: accepted, claimed, consumed; attempts | AcceptNotice, Claim, Release, Reclaim, Consume, RestoreOwed | duplicates, receipts that fail after the turn ran | a notice is consumed once and only after its turn |
| approvals (`runtime/task/hold.go`, `approval/`, the gate in `features/evolution/governance/policy.go`, the fuse in `runtime/agent/fuse.go`) | requests on a chain and in files, rulings, parked batches | Request, Decide, Lookup, rescan, riskCritical, awaitBatch | the book is read by tool and arguments; files are overwritten by an approver outside | nothing runs on another's approval; one question per pair; a ruled batch ends |
| settlement pump and host settlement (`assembly/settle_turn.go`, `host.go`, `tools.go`) | settlement markers, notice accounts, wake channel | drain, driveSeat, fireNoticeTurn, settleTerminal | two faces settle one notice; a stop between fact, attempt and receipt | one turn per notice and process; one face settles; a landed notice is receipted |
| host delivery (`assembly/host_delivery.go`, `facts.go`) | delivery records: owed, held, retry, sent, refused, headless; the review table | deliverFresh, ApproveDelivery, RefuseDelivery, handoffSettledBodies, restorePendingDeliveries | four faces and the settlement over one record without a common lock; sent but not recorded as sent | the account tells what became of the body; a decision stands; an owed body leaves |
| consumer loop (`runtime/agent/consumer.go`, `loop.go`, `assembly/invoke.go`) | wake token and pass book, read set, cursor, flying segment, answers | Drive, Wake, pull, driveSegment, closeSegment, WaitAnswer, Abandon, Stop | a wake that merges with one being taken; a chain reread by the next process | an input is answered once; an invocation returns |
| unsettled-work account (`runtime/task/unsettled.go`, `assembly/host.go` Quiesce) | write sequences | ReadUnsettled, Quiesce | accounts read one after another | a close never judges a run at rest over a flying segment |
| mapped sequence and compression (`memory/replay`, `assembly/request.go`, `compress_consumer.go`, `facts.go`) | the mapped sequence, its boundary, filed judgments, products | recordMapped, Plan, Execute, FileCompressProduct, ApplyProducts, SessionPresented, seedReplay | two passes fold one sequence; positions read early and used late | no turn is lost, an input is read, a fold survives a restart |
| agent bindings and publication (`runtime/state` publish, binding, retire, lease, baseline) | generations, handles, records, retirement ledger | Baseline, Publish, Rollback, Borrow, Release, sweep | two locks, a candidate older than what it replaces, the last release | a publication loses none before it; nothing is freed under its holder |
| reload of the host (`assembly/host_reload.go`) | the document of the host and of its model builder, change facts | Reload | six accounts moved in order, each may fail | an answer without an error means one document everywhere |
| MCP servers (`tool/mcp`) | entries with borrow counts, applied declarations | Bind, Add, Remove, Borrow, Close | a server removed or redeclared under its calls | a connection lives as long as its calls, and no longer |
| model lease (`features/rl` replacement, lease_model) | versions with streams in flight | GenerateContent, enter, leave, Replace, sweep | a version read in one lock section and entered in another; a caller that stops before its producer | a model lives as long as its leases, and no longer |
| event ledger and segment store (`memory/ledger`) | segments, references, retention marks | Append, seal, expire | seal racing an append | not modelled, see section 6 |
| evolution, meditation, telemetry (`features`) | watermarks, budgets, exports | observe, reflect, charge, write | tallies read by a prompt | not modelled, see section 6 |
| native tools, configuration (`api`), command line (`cli`), gates (`scripts`), examples | processes, files, documents | I/O | out of scope | out of scope |

How they interact: a turn calls the wrapper, which registers the task through
the registry, which commits through the carrier, which writes through the tier.
A settle commits the terminal fact *with* the notice in its outbox; the notice
is mailed by the wrapper, by a flush, or offered again by a drain that asks the
carrier what is still owed. The mailbox refuses what the receipts answer. The
pump claims a seat, fires the turn and writes the receipt; the bodies of the turn
become delivery records, which the review or the channel may hold until a caller
decides. A call that the gate or the fuse holds waits on the approval book. A turn
borrows the generation in effect and its model from the lease; a reload replaces both
beside it. A restart opens the shards, loads the carrier's tables, folds the chains
into a new registry, seeds the mapped sequence and lets the drain, the pump and the
boot face of delivery offer what their accounts still owe.

## 2. Modules

| module | models | about |
|---|---|---|
| `TaskRecord` | the record of one task and what each fact does to it | pure operators, no state |
| `TaskRegistry` | registry, manager, dedup table, wrapper goroutines, delegated rounds, re-entry clients | one process, abstract carrier |
| `DurableTasks` | tier, carrier, registry, restore, mailbox | crashes, restarts, failed and uncertain writes |
| `NoticeSettlement` | settlement pump, mailbox seats, consumer loop, host settlement, delivery obligations | closes, crashes, restarts, refused writes, failed turns |
| `SessionConsumer` | the resident loop of one address, the invocations that wait on it, the quiesce and the close | lost wakes, torn reads, failed commits, restarts |
| `MappedChain` | commits in two lock sections, the mapped sequence, the age rule, judgments and products, the request of a segment | concurrent passes, late facts, restarts |
| `Delegation` | registry status, delegation ledger and slot of the rounds of a delegated task | two re-entries, refused commits, a close, a stop |
| `Approvals` | the approval book, the gate, the fuse and the files of an approver outside | rescans, expiry, failed writes, restarts |
| `HostDelivery` | delivery records, review table, four faces, the settlement that registers beside them, the callers | failed writes, reload of the entry, close, stops |
| `GenerationLife` | what users of the bindings are promised | the abstract specification |
| `Publication` | candidates, publisher, bindings, retirement, handles | implements `GenerationLife` |
| `McpServers`, `ModelLease` | MCP registry and binder; replacement lease of a model | components of `HostReload` |
| `HostReload` | the reload as the order it moves publication, servers, documents and lease in | failures of every step, calls, streams and a close beside it |
| `TaskRegistryProofs`, `DelegationProofs`, `NoticeSettlementProofs`, `SessionConsumerProofs`, `HostDeliveryProofs`, `HostReloadProofs` | proofs, each about the module of its name | see section 5 |
| `AssemblyProofs` | proofs about `Publication` and `MappedChain` | see section 5 |
| `RestartProofs` | proofs about `DurableTasks` and `Approvals` | see section 5 |
| `MC*` | instances for TLC | model values and the documents of `HostReload` |

### TaskRecord
A record is `memoryTask` with its obligations split in two: `tools` counts the
awaiting-tool entries (`closeExecutionObligation` drops them all at once) and
`owed` is the set of delivery obligations. `muts` is the map of stored facts,
and storing a fact replaces the one of the same mutation identity, as the map
does. A mutation identity is what it says (`settle` and its round, `reactivate`
and its number, ...) and never the string. Target address, instance and source
of a routing are one value.

### TaskRegistry
One action is one lock section. `Register`, `Resume`, `Reactivate`,
`Rollback`, `RecordStop`, `Handoff`, `Flush`, `PruneTerminal` hold the registry
lock from first read to last write. `wrapper.execute` does not: `ToolReturns`
reads the round, `FreezeEnvelope` the routing, `SettleRun`/`SettleRunLost`
commits what was frozen, `MailNotice`/`MailFails` hands the notice to the
mailbox and `AcceptDelivery` clears the obligation. `Report` is
`Delegator.complete`, whose envelope names the issuer frozen at the admission.
`Serve`, `Rollback` and `RollbackFails` are what the send tool does with the
round a re-entry opened. The carrier either stores a fact or does not; a failed
commit leaves the registry as it was, so it only appears where the caller gives
something up (`SettleRunLost`, `RollbackFails`). Time is one bit: `Age` says the
TTL passed over a terminal task.

### DurableTasks
`mem` is what the key-value view answers, `disk` what a new process would read,
split by the shard the keys fall in, since a barrier renames shards one by one.
Every write has four outcomes: confirmed; stopped at a dirty shard (the shards
before it are on the disk, the batch stays in memory); complete but unanswered
(`CommitUncertain`); cut by a crash with any prefix of the shards on the disk.
`Restart` is the open of the tier, the load of the tables and the fold of the
chains, in that order, and refuses to come up when a chain does not follow.
`OtherCommit` is any other writer of the same tier, whose barrier flushes what
failed batches left dirty. A flush under the registry lock and the drain of the
pump both put notices in the mailbox; `Consume` writes the receipt.

### NoticeSettlement
It begins where `DurableTasks` ends: a terminal notice is accepted by a mailbox
over stored receipts. It ends with the receipt and the body handed to the
channel. Four goroutines meet, each an account of its own.

* The *pump* (`pump.pc`) is `drain` and `driveSeat`: wake, claim, read the
  fact and the attempt, mark, `fireNoticeTurn` (hold the account, commit the
  material, name it, wait for the answer, settle), consume. `GiveUp` is
  `releaseSeat` with the deferred drop of the held account.
* The *consumer* (`con`, `flight`) pulls driving facts into the one flying
  segment, decides, commits the output fact, and runs its delivery face before
  it indexes the answer. `con.read`, `con.taken`, `con.named` are the maps of those
  names. The model call is the time between `SegmentOpens`/`SegmentPulls` and
  `SegmentDecides`; the commit is a later step, so everything may land between.
* `settling[f]` is `settleTerminal` past its marker, run by the delivery face of
  the segment or by the pump; each write in it is a step. A barrier is the number
  of its drive, and `taken` holds the markers that are set.
* The *close* goes through `phase`: input refused (`closing`), consumers cancelled
  (`cut`), pump cancelled (`stopping`). A write under a cancelled context is refused,
  attempt and receipt are written without cancellation, as in the code.

A segment's number starts over in every process. `Observation` and `BodiesOf`
keep that: the failure observation of `#c1` is one fact over all processes, and
the bodies of `#c1` are those of every process.

A wait that is already under way looks at the chain again when a segment
settles; one that is only beginning looks at once. `PumpAnswered` may happen
whenever an answer is readable, which is the beginning wait delayed by the
scheduler.

### SessionConsumer
One address, from the input an invocation commits to the answer it returns. `caller`
walks `Invoke`: admission under the closed flag, the commit of the input, `Ensure`
with the queued pass, the pulse, the wait. `loop` walks `Consumer.run`: the token
and the pass book are two variables because `Drive` merges into a waiting wake by
giving its pass back, and the token is taken before the pass is. A pull seeds what the
chain answered, moves the cursor and draws the driving facts; the flying segment may
pull again between two decisions; it closes on an output fact, which indexes the
answer, or fails. The close reads its criterion in pieces, as `Quiesce` does, ends the
loops and joins them. The chain is durable; the next process mounts at its next
invocation. Merged are pairs of steps nothing of the model can come between: `Ensure`
with the queued pass, the receive with `takePass`, `beginWriter` with the opening,
`setBusy` with the pulse, the stop mark with the cancel. The end of a caller's own
context is left out.

### MappedChain
A commit is two lock sections: `InputLands` (or `NoticeLands`, or a step of the loop)
puts a fact on the chain, `recordMapped` on the mapped sequence. The observation of the
commit follows: `ObserveCommit` plans a fold where the volume asks for one, `Execute`
takes the oldest filed judgment, `FileCompressProduct` stores the products and
`ApplyProducts` puts them in the place of what they cover. Any committer may run that
pass, so two run at once. The loop opens a segment, pulls, reads the boundary of what
is ended (`requestBoundary`) and assembles its prefix later (`AssembleBudgetPrefix`).
`Restart` seeds the sequence from chain and products (`seedReplay`). A product is made
with its text, by the facts the text reads of: a summary carries the lines of what it
covers, and an earlier summary's line is its own text. What runs over a sequence (the cut
into turns, the placing of products) is a recursive function over its length. Left out: the
window of 2048 facts, the byte budget of a presentation (tickets and cards), call
results apart from their calls, a second observation within one pull. Judgments are
memory, so a stop drops them; products are facts.

### Delegation
Each account is a function of the task. A caller is `Delegate` or `ReenterTask` step by
step, with every read in its own step: booking, admission, registry lookup, slot
claim, reopening of the registry round, reopening of the ledger entry, handing over
or giving back. A flight is a round: register, start, fly, report, advance, land. The
closer is the settling walk of a close. The registry is `TaskRegistry` cut to status,
round and owed notices.

### Approvals
A request is an identity in the book, a question and an answer on the in-memory chain,
and a file. `evidence` is what an identity resolves to: a second `Request` for a held
pair answers under the first one's identity. The gate and the fuse read by pair
(`Reads`), as the code does. A rescan reads a file, rules, withdraws; the approver
outside reads a file and overwrites it in a later step. A restart keeps the files and
rebuilds the book.

### HostDelivery
`memory` is what a read of the delivery record answers, `disk` what a new process reads.
A face takes the bodies of its work one after another: register, read the record,
record the state, send, record the receipt, with the review and the refusing channel
as branches. Callers approve and refuse what waits. `atEntry` turns when a reload takes
the address of the turn away, which retires a body as headless. The turn of a notice is
also settled: `settleTerminal` records the attempt, registers the bodies, writes the
receipt of the seat and sends nothing (`SettleBegins`, `AttemptRecorded`, `Register`,
`SettleConsumes`). `seat` is that mailbox entry: only one whose attempt landed is handed
off, and the driver's own receipt can be refused (`DriverConsumes`). `sender` says whether
the process was configured with one; without it a face leaves every body as it stands
(`NoSender`).

### Publication and GenerationLife
`Publisher.mu` is `publishing`; the holder's lock is a different one, so requests act
between `commitRecord`, `Hold`, `Switch` and `PublishEnds`. A candidate carries the
baseline it read and is compared again when it enters. `owner` maps a generation to its
candidate; its length is the generation that serves. The refinement maps `serving` to
that length, `holds` to the generations of the handles, and `freed` to the generations
whose candidate's resources are freed; `IsGenerationLife` is `GenerationLife`'s
specification under that mapping.

### McpServers, ModelLease and HostReload
`McpServers` is the registry with its borrow counts and the binder's walk from one
declaration to the next, one `Remove` or `Add` a step, with closes that may refuse.
`ModelLease` is the list of versions with their leases. A stream gives its lease back when
it ends (`StreamEnds`), or under a producer that still runs when a caller of the iterator
stops early (`StopsEarly`, `draining`). `HostReload` extends
both and orders a reload: judge, publish, bind, install the document, file the change
facts, file the model fact (whose observer replaces the lease), answer. The publication
itself is one step here with the outcomes `Publication` gives it.

## 3. What the runs check

| run | instance | states | shows |
|---|---|---|---|
| `registry_deep` | 1 task, 2 routings, 1 input, 3 rounds, 6 facts | 1.2 million | `ToolOwedWhileInFlight`, `NoNoticeLost`, `FactsFormChain`, `TerminalStands` |
| `durable_faults` | 1 task, failed and uncertain writes, 1 crash, 4 facts | 311 thousand | `NoticeOwedOrAnswered`, `ConsumedNotReplayed` |
| `durable_crash` | 1 task, 2 routings, 2 crashes, 2 rounds, 6 facts | 414 thousand | `RestartAgrees` |
| `notice_settlement` | 1 notice, 1 input, 2 processes, 1 refused write or failed turn | 423 thousand | `OneTurnPerProcess`, `OneFaceSettles`, `NoticeSettled` |
| `session_consumer` | 2 invocations, 2 processes, 1 failure, segments of up to 2 decisions | 334 thousand | `OneAnswer`, `NoRestInFlight`, `InvokeReturns` |
| `mapped_chain` | 1 past turn, 1 input, 1 notice, 2 tool rounds, 1 stop | 477 thousand | `NoTurnLost`, `InputIsRead`, `FoldSurvives` |
| `delegation` | 1 task, 2 callers, 1 body, 3 rounds, 1 refused commit, 1 stop | 114 thousand | `OpenIsBooked`, `OneRoundServes`, `InFlightIsServed`, `CloseLands`, no deadlock |
| `approvals` | 1 gate, 1 batch, 2 requests, 1 failed write, 2 restarts | 283 thousand | `NothingRunsUnapproved`, `OneQuestionPerPair`, `RuledBatchEnds` |
| `host_delivery` | 1 body or 2 failure notices, 1 caller, 1 failed write, 2 stops | 1.3 million | `AccountTellsTheBody`, `CleanDecisionStands`, `OwedLeaves` |
| `publication` | 3 candidates, 2 documents, 2 requests, 1 delegated call | 161 thousand | `NoLostPublication`, `IsGenerationLife`, `DrainsOnItsOwn` |
| `host_reload` | 3 documents, 3 reloads, 1 refused close, 1 call, 2 streams | 2.3 million | `ConnectionOutlivesItsCalls`, `ModelOutlivesItsLeases`, `AnswerFollowsDocument` |
| `never_driven_is_owed` | 2 invocations, 1 process, no failure | violated | what `invoke.go` says of its account, see section 4 |

Each passing run but `durable_crash`, `publication` and `mapped_chain` also checks its
module's `TypeOK`.

Why the bounds are enough.

* Tasks meet only in the dedup table, the concurrency limit and the sweep, so one task
  carries the depth. Three rounds and six facts hold every pair of neighbouring
  operations the properties speak of: admit, settle, re-enter, unwind, re-enter
  again, settle, the shortest history in which a reactivation number or a round could be
  handed out twice.
* Four facts with faults hold a disowned fact, the fact committed in its place and two
  after it. Two crashes hold a restart of a restart, where a fold of what was itself
  folded could drift.
* One notice and one input hold every meeting of the pump, the segment and the two
  faces: notices share only the pump, which drives them one after another. Two processes
  hold a close or a crash at every step and what the next process makes of it.
* Two invocations hold a wake that merges and one that finds the token taken, an
  input that lands in a flying segment's decision and one that is pulled into it. A
  second process reads what the first left.
* `mapped_chain` keeps one recent turn where the code keeps two, and folds over three
  entries, so that a past turn, the turn of the input and that of the notice reach
  segment folds and history summaries within eight facts.
* Two callers and three rounds hold two re-entries that both read a settled task while
  the round of one ends before the other claims, and a round after it.
* Two requests hold one of the gate and one of the fuse over their pairs, or an expired
  request and the one after it; two restarts hold a book rebuilt from a rebuilt book.
* One body is enough for a delivery record that its three faces and a caller share; two
  failure notices are enough for the counter that names them; two stops let a boot be
  stopped again. Two bodies of one turn beside all of that are too many states for a run,
  so what they share (the count, the files of one tier) is left to the proof, which holds
  for any number. `MaxFaults` counts the calls of the tier that fail.
* Three candidates hold a stale one between two that apply, and a generation that is
  superseded while superseded ones are held. Two requests and a delegated call hold
  two handles on one generation and a reference that outlives its handle.
* Three documents move servers and model apart and together; three reloads hold a
  failed one between two others; two streams sit on two versions while a third installs.

The bounds (`MaxRound`, `MaxRevision`, `MaxCrashes`, `MaxBoots`, `MaxUpsets`,
`MaxRounds`, `MaxFails`, `MaxProcesses`, `MaxCalls`, `MaxFaults`, `MaxStops`, `MaxRequests`,
`MaxAttempts`, `MaxRefusals`, `MaxReloads`) stand in guards only. Deadlock checking is
off where the environment may stop calling and a bound leaves no step; `delegation` has
it on, since its callers may always come again or its stop may always happen.

Fairness is stated by the modules with liveness, and each conjunct is a goroutine that
runs or a call that returns. Nothing makes an input, a notice, a request, a ruling, a
reload, a close or a crash happen.

* `NoticeSettlement`: weak, for the pump, the consumer and each settlement; a decision
  ends, because every model call runs under a timeout; a close that began goes
  through its steps, because the quiesce has a deadline; a host that is down starts
  again. `NoticeSettled` needs all of it: a landed notice is receipted, through closes
  and crashes, as long as no write was refused and no turn ended without a result
  (`upsets = 0`). With a refused receipt it does not hold within a process: the seat stays
  claimed until a restart.
* `SessionConsumer`: weak, for the loop and each invocation.
* `Delegation`: weak, for each caller, each round and the steps of the closing walk;
  strong for its visit of each task, since `Reconcile` walks every task again on each
  tick while tasks come and go under it.
* `Approvals`: weak, for a batch's lookups and polls; strong for its rescans, whose guard
  toggles with the rescan window and which every poll past the window runs.
* `HostDelivery`: weak, for the faces of a turn that answered, the settlement, the
  driver's receipt, the seat it drives again, the retirement of a headless body and the
  restart. Callers owe nothing. `OwedLeaves` speaks of a process with a sender, while the
  tier answers; `stranded` holds the bodies section 4 says nobody but the next boot sends.
* `Publication`: weak, for each candidate's construction and publication, and for a
  request's release and the drain behind it.

`RestartAgrees` is run over storage that answers (`Faults = {}`). With faults it fails
for the reason section 4 gives: a fact the registry was told is not stored comes
back. `DrainsOnItsOwn` excepts a generation a delegated call held: its handle is not
one the publisher lent, so its release drains nothing and the next publication or
request release sweeps it. `InputIsRead` speaks of the step that assembles a request: from
a sequence in which no fact is told twice, the request carries what its segment consumes.
Section 4 says how two passes come to tell one twice.

## 4. Where the code and its documents disagree

One disagreement is a standing run.

`never_driven_is_owed`: `invoke.go:427` says an
input this process accepted and never drove is owed a drive. The boundary of what is
owed is the position of the last output and not the inputs it consumed
(`consumer.go:829`, `1525`). The run finds the shortest history: two inputs are
admitted before the close, the quiesce judges rest before they land, the first's
segment decides while the second lands, the output commits behind both, and the stop
ends the loop before its next pull. The report stays "quiesced"; the second input is
neither answered nor pending, and the seeding of the next process reads it as answered.

The others were met while modelling. Each was seen as a counterexample of TLC or read in
the code at the lines given; they are kept as a list, since a run asks one question and
the questions above are the ones that guard the code from day to day.

Tasks and their storage:

| said, or to be expected | the code |
|---|---|
| `lifecycle.go:24`: a terminal task keeps that one fact | `RecordStop` (`cancel.go:87`) reads the request and not the status: a stop confirmed after the settle commits `cancelled` over `settled` and owes a second notice. `TerminalStands` is the part that holds |
| `handoff.go:45`: retained notices are never dropped | the sweep (`lifecycle.go:472`) deletes the record whatever it owes |
| `commit.go:72`: known not to have been stored | the failed batch stays in the view's memory (`localfile.go:160`) and the next barrier stores it, over whatever took its revision |
| `registry.go:112`: owed until an outcome is explicitly settled | the fold (`restore.go:227`) opens the tool obligation of the admission only: a re-entered round restored in flight owes none |
| segment store: a cancelled commit changes nothing | `kvCommit` checks the context first, so an unstage under a cancelled one is refused and staged entries stay in the view, to be published at the next barrier |

Notices, inputs and answers:

| said, or to be expected | the code |
|---|---|
| `consumer.go:844`: the input behind the last output was carried by the segment that closed there | an input that lands during the closing decision stands before the output and in no segment; the seeding (`consumer.go:852`) marks it as read |
| `host.go:1045`: the next boot resumes the turn a close cancelled | the cancelled output fact is committed, and the wait of the next boot (`host.go:1253`) reads it before the resumed turn ran |
| `host.go:1050`: no receipt closes an entry whose body no account carries | a taken marker reads as settled (`host.go:1078`): the pump writes the receipt while the other face has not registered the body |
| `consumer.go:378`: a loop that took the token and has not entered the pass is never read as resting | `takePass` and `setBusy` are two lock sections (`consumer.go:448`), and a merged wake gives its pass back without a pulse; `InvokeReturns` and `NoRestInFlight` are the parts that hold |
| the order of a chain is its commit order | a restart reads events by partition, window and number, and stamps are taken before the commit (`invoke.go:431`, `run.go:1523`) |

The mapped sequence:

| said, or to be expected | the code |
|---|---|
| `request.go` `rangeOpen`: input beside the open segment never moves the ended boundary; `endedPrefix`: none of the range in flight is presented twice | an input that lands in a closing decision leaves `rangeOpen` false behind the output while the next segment flies over it; the input after that moves the boundary past the flying segment's calls, which are presented in the prefix and in the transcript (13 steps) |
| `compress_consumer.go`: a judgment whose material does not stand is not executed | two passes execute judgments over overlapping material; the second summary moves the sequence under a request's position, and an input is cut out of prefix and transcript (35 steps). `InputIsRead` excepts it |
| recorded by identity, never by position | `endedPrefix` answers a position and the prefix is assembled later |
| `age_plan.go:6`: the plan and the fold are one rule | `FoldByAge`, which only tests call, orders what it folds otherwise than `Plan` with `Apply` |
| `AttachReplay`: the age fold measures against the default window | with no token limit the threshold is zero bytes |

Bindings, reload, servers and models:

| said, or to be expected | the code |
|---|---|
| `prepare.go:62`: bindings in service are candidates for nothing and left untouched | the file source of the agent is installed while the candidate is built, and stays when it is refused (`tools.go:245`) |
| `bind.go:52`: the binder remembers the generation it applied | a tool set that refuses to close leaves the server unlisted and remembered as applied; later bindings do not bring it back |
| `host_reload.go:178`: a move is filed as facts | a publication that applied and answered an error of its retirement ends the reload before the facts and the document |
| `replacement.go:480`: a version retired while a stream is open is not closed until the stream ends; `504`: nothing is released under a producer that may be live | a caller of `GenerateContentIter` that stops early, over a model that does not iterate itself, leaves a goroutine draining the producer (594-599) while the deferred `leave` (562-567) gives the lease back at once. The replacement that retired the version may then close it under the live producer. `StopsEarly` is that step, `draining` the producer it leaves; TLC finds the close within a few steps of `host_reload`. `ModelOutlivesItsLeases` is the part that holds: a model outlives its leases |
| `lease_model.go:45`: a call borrows the version in effect when it begins | the version is read, and entered later: a sweep in between closes it and the call is refused |

Delivery, approvals and delegation:

| said, or to be expected | the code |
|---|---|
| `host_delivery.go:229`: a refused hold is consumed | the hold is in the table before its record (`469`): a refusal in between is overwritten by the late record and the next boot offers the body again. `CleanDecisionStands` is the part that holds |
| `host_delivery.go:58`: only an owed body is sent | a refused registration at the live face (44-90) sends every body of the turn, one that was decided meanwhile as well. `CleanDecisionStands` speaks of the bodies in nobody else's hands |
| `settle_turn.go:512`: no entry is closed beside a body nothing carries; `host.go:1053` registers it before the receipt | the settlement registers a body and writes the receipt (`host.go:1098`, `1107`) before the live face reads the address (`933`). When a reload moves the entry in between, or between that read and the registration, the body is owed, the seat is consumed and nobody sends it before the next boot. `OwedLeaves` is the part that holds |
| the face that delivers also registers | the pump settles from the answer on the chain while the live face is past the body or was lost with its process: the record it puts stands owed, over a body that may have been sent, until the next boot. `OwedLeaves` excepts it (`stranded`) |
| a registered body is sent, parked or retired | without a sender `deliverFresh` (57) returns, and `deliverObligation` (622) answers a refusal `handoffSettledBodies` does not park: the body stays owed until a boot with a sender, or one away from its address |
| an ended turn closes its entry | a receipt the driver is refused (`settle_turn.go:546`, `590`) leaves the seat claimed: no later drain offers it, a restart does |
| `settle_turn.go:511`: one notification starts one turn however many processes read it | a stop between the output fact and the terminal of the attempt (`host.go:1085`) makes the next process drive a second turn; `OneTurnPerProcess` is the part that holds |
| a body is sent once | a send that was not recorded is repeated by the boot, and a read of the record beside another face's send repeats it too; a refusal whose audit fails is not audited again |
| `fuse.go:13`: a denied batch runs nothing | the batch reads its pair: a newer approved request of the same calls runs it |
| `policy.go`: an expired question may be asked again | an expired request of the pair still names it, and `riskCritical` registers no new one |
| `approval/attention_store.go:5`: what landed is read back | a ruling by an alias is refused as a conflict after `req.Status` and `DecidedBy` were written in memory |
| `consumer.go:1970`: a terminal whose obligations cleared is landed | the landing reads the obligations unlocked; a re-entry that reopens and settles in between lets the older terminal land for the newer one |
| a re-entry that cannot be served is put back | two re-entries pass `CanReopenRound`; the loser's rollback, when refused, leaves the task in flight for good, as does a settle that is refused |
| the same words again are a new request | a body equal to an earlier one of the round commits no new fact, and its wait reads the earlier answer (`loop.go`, about 1330) |

## 5. What is proved

The theorems hold for every value of the constants; the runs show the same properties
on small instances first.

`TaskRegistryProofs`, for every set of tasks, keys, routings and inputs and every bound:

* `TypeCorrect`: `Spec => []TypeOK`. The inductive form `TypeInv` adds that
  held records store finitely many facts (so that counting them is a number) and
  that a wrapper past its freeze names a real routing.
* `ToolOwedCorrect`: `Spec => []ToolOwedWhileInFlight`. The invariant `ToolOwed`
  also covers records not held (they are `Blank` and owe nothing), because
  `Register` builds on them.
* `ChainCorrect`: `Spec => []FactsFormChain`. The property is not inductive: a
  commit could overwrite a stored fact of the same identity. `ChainInv` adds
  why it cannot. `Numbered`: the stored reactivations are numbered from 1 to
  their count and handoff slots likewise, so the next number is free.
  `UnwoundAtRest`: the rollback of a round is stored only when that round is no
  longer open, so its identity is free while the round is. The rest of the
  mutations are free because the operation refuses a repeat or, for the
  approval, resume and settle facts, by the guard `Knows`.

* `TerminalCorrect`: `Spec => TerminalStands`, from `ChainInv`. `RecordStep` says that a
  step leaves the status and the facts of a held record or makes one of its moves; what
  each move may do to a terminal status follows from its guard, and that the fact behind
  it is new from the chain, where the revision it takes is free.
* `NoticesCorrect`: `Spec => []NoNoticeLost`, from `TypeInv`. The invariant `NoticeInv`
  adds `Mailed`: the notice a wrapper mailed is among those its target answered, and its
  acceptance clears only that one. Each rewriting of a record is shown to carry what it owes
  (`MovedCarries`: apply, handoff, close, re-entry and its rollback), so the only step
  that drops an obligation is the clearing, and there the answer is already known.

The argument has one lemma per action, and the lemmas about finite sets of facts
(adding a link to a chain, counting after an insertion) are stated once.

`DelegationProofs`, for every finite set of tasks and callers, every set of bodies and
any number of rounds, refused commits and stops:

* `OpenCorrect`: `Spec => []OpenIsBooked`; `OneRoundCorrect`: `Spec => []OneRoundServes`;
  `ServedCorrect`: `Spec => []InFlightIsServed`; `TypeCorrect`: `Spec => []TypeOK`; all
  four from `DelegationInv`. None of the three is inductive: registry, ledger and slot
  are moved one after the other, so the invariant says for each task how they may stand
  while somebody is between two of them. `CallsOf`: what a re-entry holds at each of its
  places. `FirstOf`: the first round of a task is alone with it until it is registered. `SlotOf`:
  the slot is one claim's or one round's. `TendsOf`: who opened the round in flight has it
  until a flight takes it over. `LedgerOf`: the ledger holds the round that runs, and books
  what is not terminal. `ServedOf`: a registry in flight has a flight, a caller that opened
  it, or an unwind that was refused. `RoundsLeft` (each caller that may still open a round has one left under
  the bound) and `Counted` (the bookings are as many as the entries that hold one)
  relate the tasks to each other; the callers must be finite for the first, the tasks
  for the second. A step moves one task and one caller: the lemmas `AtTaskKept` and
  `StillKept` carry what is said of every other, and each action has a lemma for its own.

`NoticeSettlementProofs`, for every set of notices and inputs, any number of
processes and any number of refused writes:

* `OneFace`: `Spec => []OneFaceSettles`. The invariant `MarkerInv` adds what the
  property leaves out, the marker: a face that settles holds the marker of its
  barrier and no other settling face has that barrier. A face begins only where
  the marker is free and hands back only its own.
* `OneTurn`: `Spec => []OneTurnPerProcess`. `TakenInv` says why a second pull finds
  nothing: what a segment took is read, is not named, and was counted once. Read
  facts start no range, and `Drive` does not name a taken one.

* `TypeCorrect`: `Spec => []TypeOK`, from the two above and `SettlementInv`. Three of the
  types are not types alone. `BodiesInv`: every step keeps the chain or extends it, so what
  was registered keeps its position, and what is sent was registered. `PumpInv`: the pump
  commits the material before it names it, and what is named stands on the chain
  (`SegmentInv`). `EndsInv`: an answer read from the newest output ends on a terminal,
  which needs that a set of positions has a largest one (`MaxOf`, by the well-foundedness
  of the naturals). An account and a marker are numbers of drives of this process
  (`BarriersInv`), and a notice with a seat was accepted (`NoticesInv`).

None of the three needs fairness.

`SessionConsumerProofs`, for every finite set of inputs and any number of processes and
failures:

* `OneAnswerCorrect`: `Spec => []OneAnswer`; `NoRestCorrect`: `Spec => []NoRestInFlight`;
  `TypeCorrect`: `Spec => []TypeOK`. The invariant is `ConsumerInv`. `LoopShape` ties the
  place of the loop to its flag, its token and its segment, which is the account the
  quiesce reads; `PassesCounted` bounds the passes in the book by the queued token and
  the pass that is being taken. `ChainOrdered` says that an input is on the chain once
  and before every output that names it. `TakenOnce` and `OneOutput`: what a pull may
  still take has no answer, and a fact a segment took is read. The cursor of the next process
  is seeded from the chain, and that an input behind it is not pulled again is the step
  where both are needed.

`RestartProofs` has the two components whose state outlives the process in files. They
share no state; the specification of the book is named `BookSpec` so that both can be
extended. About `Approvals`, for every set of pairs, approvers and identities:

* `ApprovedCorrect`: `BookSpec => []NothingRunsUnapproved`; `OneQuestionCorrect`:
  `BookSpec => []OneQuestionPerPair`; `TypeCorrect`: `BookSpec => []BookTypeOK`. The
  invariant is `BookInv`. `MintedInv`: nothing is known anywhere (book, chain, files, a rescan under
  way) of an identity that was not minted. `RuledInv`: a ruling on the chain or in a file is
  one an approver stated, and a batch that waits asks for its own pair. `OneWaits`: of the
  requests of one pair at most one waits, as long as every ruling reached its file.

About `DurableTasks`, for every set of tasks, notices, routings and shards and any number
of crashes, of links and of answers:

* `NoticesKept`: `Spec => []NoticeOwedOrAnswered`; `ConsumedStays`:
  `Spec => ConsumedNotReplayed`; `TasksTyped`: `Spec => []TypeOK`; under every set of
  storage faults, from `FaultInv` (`Storage`). `StorageInv` is what holds whatever becomes
  of the process. `RunningInv` adds, while it runs, `Covers`: the view in memory and the
  disk both hold every fact of the tables, and the view every answer of the disk. An uncertain write
  leaves the disk with more than the tables know and a refused one leaves the view with
  more, so neither is equal to the tables; `Covers` is what a barrier cut short between
  two shards keeps.
* `RestartCorrect`: `Spec => []RestartAgrees`, over storage that answers (`Faults = {}`, the
  instance of the run `durable_crash`): with a refused write the view is ahead of the
  registry, and the property is not true. `CrashInv` says that the
  stored chain of each task is numbered from zero without a gap, that the view, the disk
  and the tables of a running process are one, and that what a restart would fold of the
  disk is the record in memory (`Agrees`).

The fold of a chain is a recursive function whose domain is the numbers of its links. That
it exists is `FoldExists`: `EveryNat` is the induction over a set of numbers, from the
least element of a set, so no operator parameter is instantiated. `FollowsIsNumbered`
turns the test of the restore, which compares sets, into a numbering; `RunInduction` says
that what holds of the blank record and is kept by a link holds of every run. Three facts
about the fold carry the proof. `TaskCommitLinked`: what each operation of the registry
makes of a record is what the fold makes of it with the fact that operation commits.
`ReplayAppend`: the fold of a chain with one more fact is one more link. `ReplayStripped`: a
chain whose answered notices are dropped before the fold (`Unowed`) folds into the same
status, revision, round and routing, and owes what was not answered.

`HostDeliveryProofs`, for every finite set of inputs and bodies and any number of
failed calls and stops:

* `DecisionCorrect`: `Spec => []CleanDecisionStands`; `AccountCorrect`:
  `Spec => []AccountTellsTheBody`; `TypeCorrect`: `Spec => []TypeOK`. The invariant is
  `DeliveryInv`. `Shape` says what a face has done of its work by its place in it;
  `NamesInv` and `CountInv` that two faces work on one body only through its record, and
  that the counter is past the failure notices it named. `AccountInv` relates the record in
  memory and on the disk to what became of the body, including the record somebody is about
  to write, since four faces and the settlement write it without a common lock. `CleanInv` says of a body
  with a decision, and in nobody else's hands, that what is still to be written agrees
  with the decision.

`AssemblyProofs` has the two components a run is assembled of. They share no state; the
specification of the sequence is named `ChainSpec`. About `Publication`, for every finite
set of requests and delegated calls, every set of documents and any number of candidates:

* `ImplementsLife`: `Spec => IsGenerationLife`, the refinement. `LifeInv` carries what
  the abstract life takes for granted: each generation has a candidate of its own, past
  its record (`Owned`); what is freed is released; what is released is neither in
  service nor in anybody's hands (`Lent`); a candidate that may still serve holds its
  resources (`ReadyHolds`), so the generation it becomes is not freed. Most steps move a
  candidate no generation holds and are shown to leave the life alone by one lemma
  (`Inert`). `Hold` serves, `Borrow` takes, `Release` gives back, and the two sweeps
  free: what they free is released, so it is below the serving generation and in
  nobody's hands. The count of handles is used twice, as zero (`superseded`) and as one
  (`LastHandle`); that is where the users must be finite.
* `NoPublicationLost`: `Spec => []NoLostPublication`. A publication moves three accounts
  one behind the other. `ChainInv` says how far apart they may be: one record ahead of
  the holder while a candidate is recorded, what is effective one behind the holder while
  it serves and is not switched, all equal otherwise; exactly the candidate that holds
  the lock is between its record and its end; and until it serves, its baseline is what
  is effective. The comparison under the lock is what makes `Hold` extend the chain.

About `MappedChain`, for every set of inputs and notices, every finite set of past turns,
every volume the rule folds over and any number of tool rounds and stops:

* `TurnsAreKept`: `ChainSpec => []NoTurnLost`; `FoldsAreKept`: `ChainSpec => FoldSurvives`.
  The property alone is not inductive: a product filed long ago may be placed by any
  committer, or by a restart. `Mapping` says that every product, filed, judged or in a
  batch, is well made (`WellMade`: its text tells what it covers, or it covers process
  detail only), so placing it drops no turn (`applyFoldProduct` takes by identity). It says
  as well that what is mapped and no entry any more is covered by a filed product
  (`CoveredIsFiled`), which is what a restart places again, and that a pass files the head
  of its batch before it places it (`CommitsOf`).
* `InputsAreRead`: `ChainSpec => InputIsRead`. A request fixes a position and reads its
  prefix later, with folds in between, so the invariant `Reading` has to count. `Naming` and
  `TellingAll`: an output answers inputs that stood before it, and no product covers an
  input without an answer, so a consumed input stays an entry of its own. `EndedTells`: when
  the position is read, the ended prefix tells every answer and each consumed input the
  transcript does not carry. `Reaching`: while the position is held, the entries up to such
  an input come from no more than `position` sources, a set `W` of what turns told and a
  number `d` of process detail. A segment fold stands for detail that stood there; a
  summary lands ahead of everything, but it tells some answer, and every answer is told by
  `W` already. Told once, no two entries share a source; so the input stands at or before
  the position, and the prefix holds it. Told twice, two entries may share one, and the
  divergence of section 4 is that case.

`HostReloadProofs`, for every set of documents and names, every finite set of calls and
of streams, and any number of reloads:

* `LeasesKeepModel`: `Spec => []ModelOutlivesItsLeases`. `LeaseInv` adds the types the
  counting needs and that a stream between reading the version in effect and entering it
  names a version that exists; it may be a retired one, and then the entry is refused. A
  draining producer holds no lease, and the theorem says nothing of its model.
* `CallsKeepConnection`: `Spec => []ConnectionOutlivesItsCalls`. `ServerInv` adds
  `Listing`: a listed name points at an entry of its own that no removal has reached, so
  a call that borrows never lands on a closed connection, and no entry is removed twice.
* `AnswerCorrect`: `Spec => []AnswerFollowsDocument`, of a reload that answers "ok" and of
  no other, and `TypeCorrect`:
  `Spec => []TypeOK`, from `FollowInv`. A reload walks the names and moves one account at a
  time, so the property holds at its end only. `BindFollows`: the binder works for the
  reload under way and is done when it walked every name. `ListedApplied`: what the registry
  lists is what the binder applied, unless the registry was shut or a close was refused.
  `AccountsFollow`: how far the generation, the document, the builder and the binder are at
  each place of the reload. `ModelFollows`: which model it means to install; the version in
  effect changes with an installation and with nothing else (`VersionStays`).
* `ReloadInv` types the document the four are driven by. The binder moves
  the servers that changed one at a time, the least first; that there is a least one is
  `FirstMoved`, by the well-foundedness of the naturals.

The assumptions are those of the modules, and TLC evaluates each in a run: `Nil` and the
like are none of the values they stand beside, the home routing is a routing, the bounds
are naturals, callers are none of the faces that deliver or register, users of a generation of both
kinds are disjoint; calls, streams, requests, inputs, bodies, delegated tasks and their
callers are finite, as goroutines and committed facts are.

Every invariant and every safety property of a step that a passing run checks is a theorem.
Only model-checked is the liveness: `NoticeSettled`, `InvokeReturns`, `CloseLands`,
`RuledBatchEnds`, `OwedLeaves` and `DrainsOnItsOwn`. The prover reaches neither fairness
nor `ENABLED`.

## 6. What is not modelled

* Model calls, prompts, tools, channels: external I/O. A tool returns a
  terminal kind; a target accepts, refuses or does not answer.
* The event ledger and its segment store: append, seal, expiry and retention. In
  production `ledger.Lifecycle` and `Retention` are not wired, so segments never leave;
  what remains is one commit over the tier that `DurableTasks` models, and the
  divergence of section 4 is where it bites.
* Progress notices and the logical status: progress facts move no status and
  open no obligation the properties speak of.
* The notice sequencer and `IssueNotice`: no production code calls them; every
  producer numbers its notice 0.
* `Resume` in `DurableTasks`: nothing in production calls it. In `TaskRegistry`
  it is modelled, since the port offers it.
* In `NoticeSettlement`: the books of awaited and consumed tasks
  (`AwaitTaskState`, paired results, released rounds), notices a sink or a running
  call answers, reloads (a dispatch the declared scope refuses is modelled as one refusal,
  whatever the document says later), channels that refuse or hold a body, and the wakes a
  quiesce repeats while it waits. A restart is one step. A batch of delivery
  records is registered whole or not at all.
* In `SessionConsumer`: the explicit drive, delegated batches, the answer window with
  its eviction, the migration of an instance to a new binding. Its restart keeps the
  commit order of the chain.
* In `HostDelivery`: the rendering of a body, the resolution of its target, the
  windows of the review list, and the settlement of a turn that failed, which registers
  nothing. In `Approvals`: the channels a question goes out by, and
  the counting of calls and tokens that trips the fuse.
* In `HostReload`: the record account of the lease, its restore from history and its
  close. In `Publication`: the session store, the migration of an older state
  directory, the occupancy lock and the authority check.
* Meditation, posterior judgement, goals and budgets: tallies a prompt reads. Its
  driver sets no `retained` on a tick that is pending or deferred. Capture and
  exports: files opened for appending, `<root>/trajectories` again at each boot.
* Queries, text ranking, embedding: reads of stored events that move no state.
* Configuration decoding, the command line, the gates under `scripts` and the sample
  hosts under `examples`.

## 7. Plan

Modelling, in order: the books of awaited and consumed tasks in `NoticeSettlement` with
two notices whose restore fails half way; an abstract mailbox (owed, answered,
receipted) that `DurableTasks` and `NoticeSettlement` both implement; the re-reads of
the unsettled-work fence under a moving commit sequence; the segment store's staged
entries over the tier of `DurableTasks`.

Theorems next: an abstract task (a status, its notices, what is answered) that
`TaskRegistry` and the registry of `Delegation` both implement.
