# A TLA+ development of the Huly MCP server

The repository is a TypeScript (Effect) server that gives MCP clients access to
Huly. It can run as one process on stdio, as an HTTP server, or *resident*: many
short-lived adapters share a long-lived generation, which they find, start and
retire through a private directory. Most of what is hard to test is there: several
processes, leases, deadlines, crashes, cleanups that fail. This development starts
with it and works outwards.

Paths below are relative to the repository; `PROJECT.json` puts `src/` before them.

1. [The system](#1-the-system)
2. [The modules](#2-the-modules)
3. [The runs](#3-the-runs)
4. [The proofs](#4-the-proofs)
5. [What is not modelled, and what is assumed](#5-what-is-not-modelled-and-what-is-assumed)
6. [The plan](#6-the-plan)

## 1. The system

### Components

| component | where | state it keeps | operations |
|---|---|---|---|
| attachment owner | `src/resident/attachment-owner.ts` | the tickets of the requests of one adapter, its native session, one drain fiber | withWork, adopt, close |
| admissions | `src/resident/admissions.ts`, `admission*-state.ts`, `admissions-state.ts` | attempts and members of a generation with their leases, a permit, the lifetime | admit, find, renew, release, fence, drain, awaitIdleAndFence, status |
| selection and managed launch | `managed-selection.ts`, `selection-claim.ts`, `managed-process.ts`, `child-authorization.ts`, `publication-state.ts`, `generation-registry.ts`, `namespace-inventory.ts`, `attachment-file.ts` | `selection.claim`, the descriptors `<generation>.json`, the records `generations/<generation>.json`; in the processes, who may release the claim | acquire, transfer, adopt, release; read and select; launch; publish; retire |
| generation server | `manual-backend.ts`, `admission-http.ts`, `private-http.ts`, `compatibility-authority.ts`, `status-http.ts` | one of each of the above and the TLS server | run, admit over HTTP, status, idle retirement |
| adapter side | `adapter-attachment.ts`, `manual-adapter.ts`, `response-stream.ts`, `managed-adapter-main.ts` | one admission, requests in flight | heartbeat, bridge, cancel, abandon, release |
| operator stop, status | `operator-stop.ts`, `native-control.ts`, `status-client.ts` | nothing of its own | inspect, fence, stop |
| native session, stdio bridge | `native-server.ts`, `native-session.ts`, `native/stdio` | a protocol session over a pipe | start, route, close |
| Huly clients | `src/runtime/huly-clients.ts`, `shared-resource.ts`, `http-client-leases.ts` | a cache of connections and of acquisitions under way | resolve, evict, close |
| MCP requests | `src/mcp/request-admission.ts`, `request-client-lifecycle.ts`, `http-request-context.ts`, `stdio-shutdown.ts` | the count of active requests, the lease of each, the state of the shutdown | enter, release, quiesce, close, shut down |
| issue movement | `src/huly/issue-transfer-*`, `movement-transaction-transport.ts`, `src/huly/operations/issue-movement*`, `issue-transfer*` | progress of one call; the truth is in Huly | plan, allocate, commit, verify |
| calendar meeting and other sagas | `src/huly/operations/calendar-meeting-*`, `employee-lifecycle*`, `external-publication*` | progress of one call; the truth is in Huly | write, read back, take back |
| profiles, credentials | `src/profiles` | a profile file, entries of the system's credential store | replace, publish, clean up |
| dispatch, schemas, configuration, telemetry, CLI | `src/mcp/tools`, `src/domain`, `src/config`, `src/telemetry`, `packages/huly-cli` | none that an order of steps could harm | |

`PROJECT.json` lists them with what is and is not modelled of each.

### How they interact

An adapter takes the claim, reads the namespace, and asks every visible generation
for admission (*selection* calls *admissions* over HTTP). If one admits it, the
adapter gives the claim back and sends its requests there. If none fits, it spawns
a child, hands the claim over to it in the Start message, and waits for its ready
frame. The child becomes a *generation*: it starts its server, links its
descriptor, records itself, gives the claim back and serves. Each admission makes
an *attachment owner*, which the admissions close when the lease lapses, when the
adapter releases it, and when the generation drains; requests run under the owner
and use a *Huly client*. A generation that has been idle long enough fences its
admissions, drains, unlinks its descriptor, closes its clients, takes the claim
once more and retires its record.

### What is hard

* **Several closers.** Release, watch fiber, late admission, drain and a second
  drain close one attachment at once; each may time out or be interrupted.
* **Checks far from their use.** Capacity, token, lease, room in the registry and
  the fencing of the generation are read several suspensions, or a process,
  before they are relied on.
* **Ownership that changes hands by message.** Once Start has been sent the
  launcher may not know whether the child has the claim.
* **Failure as state.** A cleanup that could not be confirmed must go on blocking
  replacement; a crash must not look like an orderly end.
* **Time.** Leases lapse during a renewal, closes outlive their timeout, retirement
  gives up while a launcher holds the claim, a graceful shutdown races a forced one.
* **A server without transactions across reads.** A moved tree is read one level at a time,
  while others move, edit and create; the one batch at the end has to find out.
* **Answers that do not come.** A batch, a number allocation or a request of the host may
  have taken effect although its answer was lost; it must be neither repeated nor denied.

### What makes each component correct

* *Attachment owner*: a successful drain leaves nothing retained or running and lets nothing
  start; a failed cleanup stays visible; the native session outlives the requests that speak
  through it; every close is answered.
* *Admissions*: no more attachments than capacity, no two with one token; an attachment is
  forgotten only after its owner drained; a successful drain leaves nothing; a live lease is
  served until something retires it and a lapsed one never comes back; idle retirement
  strands nobody; status tells the truth; no admission or drain hangs for ever.
* *Selection*: the claim has one owner at a time; two generations of one configuration never
  overlap; a generation whose resources are unaccounted for leaves evidence that blocks
  replacement; a launcher kills only a child that never owned anything; a claim is given
  back unless its owner was lost; every launcher gets an answer.
* *Adapter side*: a reply reaches the host once and as the reply of its own request; the
  host cannot use a session the bridge has not noted; an unknown outcome ends the bridge
  with an error; a clean end leaves nothing queued, running or admitted; the adapter
  outlives neither its host nor its lease.
* *MCP requests and Huly clients*: nobody uses a client that was closed; none is left open,
  whatever order leases, users and evictions come in; there is one shared connection at a
  time; a shutdown that says nothing has left nothing; whatever hangs is given up on.
* *Stdio shutdown*: calls get the time the reason of the shutdown allows; the allowances fit
  the deadlines, so that the process is forced to end only by what ignores its interruption;
  it ends.
* *Issue movement*: the issues stay a forest of whole trees, and the data derived from it
  exact, whatever moves run at once; a batch is sent once; what a call reports of the batch,
  of the numbers it drew and of what it saw is true.
* *Calendar sagas*: a call that fails leaves behind nothing its error does not name; one
  that succeeds has done all of it; the record of an event's owner changes last and is
  restored first.

`PROJECT.json` lists the hazards behind these, each at its line, with the property
that would catch it or the reason why none does yet.

## 2. The modules

| module | what it is |
|---|---|
| `OwnerContract` | what admissions rely on of an owner: an abstract specification |
| `AttachmentOwner` | `makeAttachmentOwner`; implements `OwnerContract` |
| `ResidentAdmissions` | `makeResidentAdmissions`, over owners that behave as `OwnerContract` says |
| `SelectionOwnership` | who may own the claim and to whom it may go: an abstract specification |
| `ResidentSelection` | the processes around one private directory; implements `SelectionOwnership` |
| `AdapterBridge` | an adapter between its host and the backend, from admission to release |
| `RequestAdmission` | the count of tool calls inside; instantiated by the next two |
| `RequestClients` | requests, their clients, the shared resolver, and the shutdown of the HTTP server |
| `StdioShutdown` | what ends the stdio server, and how |
| `IssueForest` | what a workspace looks like to a caller of `move_issue`: an abstract specification |
| `IssueMovement` | concurrent calls of `move_issue` and the server they talk to; implements `IssueForest` |
| `MeetingSaga` | a call that gives an event or a schedule a room, and takes it back when it fails |
| `*MC` | definitions a configuration needs: symmetry, the pairs told apart, and for `move_issue` two kinds of start in one run |
| `*_proofs` | theorems about the module they are named after |

Throughout, an action is the code between two points where its fiber can be
suspended, or one operation on the file system or one message with what its process
does up to the next. Definitions under a comment that begins `Mutation` are not used by
the specification: each is a plausible bug in place of the definition that follows, and
the property it is paired with in `PROJECT.json` fails with it.

### AttachmentOwner

`work` and `blocked` are the Set of tickets and their status, `cancelled` and `done`
their Deferreds, `sessions` the Map, `closing`, `drain`, `retained` and `awaited` the
drain fiber and its snapshot. `Acquire`/`Reject` are `acquire`, `LeaveUse` the end of the
race of `use` against the cancel signal, `FinishOk`/`FinishBlocked` `finish` with the
cleanup's outcome, `Close`, `Snapshot`, `AwaitNext`, `AwaitOk`/`AwaitFailed` and
`ReleaseSessions` the drain. `Withdraw` is the environment: the `eligible` effect the
admissions pass in turns false and stays so.

### ResidentAdmissions

`entries` holds the attempts and members with their tags, `permit` is the semaphore,
`pc` where each call of `admit` stands (`Begin`, `CheckCapacity`, `PrepareOwner`,
`PublishOwner`, `FinishAdmit`, and `Leave` on every way out), `watch` the watch fibers,
`joined` the calls of `closeOwned` that wait for an owner, `drainPc` and `drainTodo` each drain,
`idle` `awaitIdleAndFence`, `access` one lookup with the handle it returned, and `now` the
clock. `owner` and `work` are the owners, with the requests of an attachment folded
into one: "running" while any is retained, "stuck" once a cleanup has failed; the property
`OwnersKeepContract` says that they are used as `OwnerContract` allows. A close
may time out whenever it has not returned, and so may the drain around it: both have the
allowance `policy.closeAllowanceMillis`, and nothing is assumed of how long an owner takes.

### ResidentSelection

`claim`, `records` and `files` are the directory: the inode of `selection.claim`, the
records and the descriptors. `cap` says who may release the claim and which inode it was told of;
it is `makeClaim`'s `state` and `transferProof`, in the launcher, in a Start message on its
way, in the generation. A generation is named by the launcher it comes from. `launcher`
and `gen` are the control points of the processes, `pub` the publication fiber, which runs
beside the server and may outlast its run, and `outcome` what `Fence` is told. `lost` is a
history variable: some holder of the claim could no longer give it back.

`Refuse`, `LaunchFails`, `LaunchAbandoned`, `RunStops` and the like stand for everything
that can end a step early (a deadline, an interruption, a refusal, an I/O failure), so
they are enabled throughout. Reading the namespace is one step: only the unlinking of
descriptors happens without the claim, and a read that meets it half way is a refusal.
Whether a configuration is compatible is equality of `conf`; `Apart` holds the pairs told apart by
the record alone (another version) without asking the generation. A crash of a process loses
its capabilities and leaves the directory as it is; a crash of a generation with a server
leaves it `crashed`: what it owned is unaccounted for.

### AdapterBridge

`adapter` is where `runAttached` and, inside it, `runAdapterBridge` stand: `running` until
the input ends, `clearing` while the fibers of requests are removed, `flushing` until the
writer has ended, then the release. `fiber` is the FiberMap, in which an interrupted fiber
stays until it has ended, `phase` the `ResponsePhase` of `response-stream.ts`, `offering`
the line a fiber is putting into `output`, and `protocol` with `init` the session state.
`Read`, `Cancelled` and `Removed` are the reader, `Accepted`, `Progress`, `Advance`, `Reply`
and `ResponseEnds` the stream of one response, `Offer` and `Write` the two ends of the
queue. The lease is the backend's: `LeaseLost` may happen at any time, and the heartbeat may
fail although it did not.

### RequestClients

A bundle of clients is its `scope`: that of a request with credentials of its own is named
by the request (`own`), a shared one by the acquisition that built it. `lease` and `source`
are `leasePromise` of `request-client-lifecycle.ts`, `shared`, `owned`, `resolver` and
`closing` the state of `huly-clients.ts` with `settled` the acquisitions whose result was
delivered, `exit` how a build ended. `call` and `of` are the tool calls with the request
that carried each. A call's fiber is the protocol's, not its request's: it may start, or go
on, after its request was answered or given up. `server` goes through `release` of the HTTP
transport: drain with its allowance, telemetry, clients, listener, and then the finalizer of
the process's scope, which closes the clients again. `reported` says that a timeout or
failure was logged.

### StdioShutdown

`lifecycle` is the fiber of `awaitStdioLifecycleEvent`, `main` that of `runStdioTransport`,
which on any reason races the graceful shutdown against the forced one; `state` and `reason`
are `StdioShutdownState`, `resource` the three that `execute` closes at once, each with the
allowance of three seconds. `time` is the clock of the shutdown in seconds. A resource is
`stuck` when its close ignores its interruption, `overdue` when it also is out of time,
`late` when it gave up at its timeout.

### IssueMovement

For each call, `pc` and `pass` are where it stands and in which inspection (prepare,
reinspect, presend, verify); `sel` what it was asked, `hier` the two project inventories it
has read, `tree`, `frontier` and `broken` the walk down from the root; `plan` what the first
inspection prepared, `exec` and `facts` `progress.execution` and
`progress.verificationFacts`, from which the evidence and the outcome are made, `tries` the
passes of verification, `after` the outcome to report once a last observation is over. The
server is `issue`, one row each, `sequence`, one number per project, and a request and a
reply per call in `net` and `reply`. `drawn`, `landed`, `rewritten` and `discrepancy` are
history: the numbers drawn for a call, how often its batch was applied, the rows whose
ancestry some batch wrote, a problem seen and not refuted.

Every read is a step of its own. The batch carries the conditions the code sends with it, on
the `modifiedOn` of every row it read, and on the children of each row where the code asks
for that. `RefuseBatch`, `AdmitBatch` and `ApplyBatch` are the server: checked and applied
in one step when it is `Isolated`, else in two with others between. `RefreshInformation` is
its trigger that adds to the `childInfo` of ancestors.

### MeetingSaga

`task` is what is asked: an event or a schedule, new or not, with other fields and a
description or without. What a call does is `todo`, a sequence of requests and reads:
`UpdateSteps` and `CreateSteps` are the forward parts (`executeForward`,
`createEventForward`, `createScheduleForward`), `RestoreSteps` and `RemoveSteps` what
`recover`, `restoreSchedule` and `cleanupCreatedEvents` do in their place once a request or
read fails or the call is interrupted. `attempted` is `execution`, which records a request
before it is sent. `reading` counts the polls of `readStableEventSiblings`; a read that is
quiet adds steps for the siblings it found (`SiblingsRead`, `MeetingsRead`, `CreatedFound`).
`residuals` and `outcome` are what the call returns. `here`, `room`, `base`, `text` and
`uploaded` are the server's records, a field being old, new or absent. `net` is the set of
requests on their way. Each is an HTTP request of its own, and nothing orders them: the server
applies or refuses any of them at any time, also when the call no longer waits for it
(`Interrupted`, `AnswerLost`) and when the call is over. `strayed` and `overtaken` are history:
siblings came or went since the last poll, of which no read can tell; and the requests that
were still on their way when the request that takes them back was applied, of which the call
cannot tell either.

## 3. The runs

| run | instance | what it checks |
|---|---|---|
| `owner` | 3 requests, room for 2, `FairSpec` | `DrainedIsQuiet`, `SessionOutlivesWork`, `ImplementsContract`, `CloseIsAnswered` |
| `admissions` | 2 attempts, 2 tokens, capacity 1, 2 drains, leases of 2 ticks, clock to 2 | `CapacityBound`, `NobodyIsStranded`, `ForgottenIsDrained`, `DrainedIsQuiet`, `StatusIsTruthful`, `StaleIsFinal`, `OwnersKeepContract` |
| `admissions_liveness` | 2 attempts, 1 token, capacity 1, clock to 1, `FairSpec` | `CallsReturn`, `LapsedIsClosed` |
| `selection_race` | 2 managed launchers and 1 foreground, 2 configurations, room for 1 record, 2 inodes | `RoomAtPublish`, `EvidenceKept`, `KilledNeverOwned`, `OrphanNeedsCause`, `ImplementsOwnership` |
| `selection_liveness` | 1 managed, 1 foreground, 3 configurations of which 2 are told apart unasked, `FairSpec` | `NoOverlap`, `NobodyWaitsForEver` |
| `adapter_bridge` | 2 requests, 2 ids, 2 at a time, a queue of 1 line, `FairSpec` | `RepliesAreOwned`, `SessionComesFirst`, `OutcomeIsKnown`, `NothingWaits` |
| `request_clients` | 2 requests, 2 calls, 2 acquisitions, `FairSpec` | `UsedIsOpen`, `NothingLeaks`, `OneSharedClient`, `SilentMeansClean`, `NothingHangs` |
| `stdio_shutdown` | 2 calls, clock to 35, `FairSpec` | `CallsGetTheirTime`, `ForcedIsStuck`, `ServerEnds` |
| `moves_racing` | 2 calls, 3 issues of one project, 2 projects, no faults; and, in the same run, 1 call, 2 issues and 1 yet to be created, both projects hold issues, 1 edit, stale ancestries, at most 2 tasks | `DerivedDataExact`, `ImplementsForest` |
| `moves_failing` | 2 calls, 2 issues, 2 projects, every fault, 2 passes of verification, a server that isolates nothing; and the same with 1 call, an edit and an issue yet to be created | `TypeOK`, `ReportIsTrue`, `NumbersAccounted` |
| `meeting_saga` | 2 siblings and 1 that comes and goes, the code's 5 polls of which 3 agree, every kind of call | `OutcomeIsTrue`, `OwnerChangesLast` |
| `meeting_saga_late` | the same instance | `RecoveredMeansCompensated`, which is violated |

All of them but the last hold; that one records a finding (below). Deadlock is not checked: every one of these systems may come to rest, with
its requests over, its generation drained, its launchers gone or its server ended. A run that
checks liveness checks safety on the same graph where one instance serves both.

**Why the bounds are enough.** Three requests against a limit of two reach the limit, refuse
one, and let a drain await one ticket while another fails. Two admissions are the fewest
that compete for a permit, a place or a token. A lease of two ticks with a clock to two
lapses unless it is renewed in time; two drains, a release, a watch and a late admission
meet on one owner. With one place, two attachments are not owned at once: that drains close
several is left to the theorems, which hold for every capacity; `StatusIsTruthful` is
checked of one attachment at a time. The owners of two attachments share nothing. A third
admission would add another member to what is already closed in any order. Three launchers
let one generation retire while a second launcher selects and a third waits; two inodes,
used again, let a released claim come back under its old number; with room for one record
and two configurations the room check bites. Three configurations cover the same, an
incompatible and a visibly different one.

Two requests of a host can have one id, or one after the other; a queue of one line is full with
the first, so that fibers wait for room in each order. The limit of requests at once is
not reached by their number, but what it does, ending the bridge, is what a duplicate id does.
Two requests for clients with two acquisitions are the fewest in which one is evicted
after another took its place; a call each lets one use what the other's request gave up. Two calls
on stdio are one that ends in time and one that does not; the clock runs to the
longer deadline.

Three issues are the fewest in which two moves, each legal when planned, close a cycle or
split a tree over two projects, and the fewest with a tree of more than one level.
`moves_racing` starts from every forest of them. Its second instance, which `IssueForestMC`
puts beside the first and tells from it by the call there is, has what the first leaves out:
edits, a new child, rows whose cached ancestry is wrong, and trees of three that reach
`MaxTasks`. Faults need no third issue: a call fails by itself, and in `moves_failing` the
other one is there to draw numbers and to move what the first will verify; beside an edit
and a new child one call is enough. Two passes of verification let a complete one follow an
incomplete one and the other way round.

Two siblings are the fewest with an owner and another; one more is found, missed or lost by
a poll. The polls are as many as the code's.

**Symmetry** is used for attempts, tokens, drains, launchers of a kind, configurations,
inodes, calls of `move_issue` and issues, where no action tells them apart (which issues
exist is part of the initial states), and never with a liveness property. Where names are taken one after the other
(acquisitions), the next unused one is taken, which loses nothing.

**Fairness.** Weak fairness is given to what the runtime does by itself: fibers that can go
on do, timers fire, what was interrupted ends. For the owner that includes the assumption
that `use`, raced against its cancel signal, ends once cancelled, and that its cleanup ends,
which the code bounds with its own allowances. For the selection it is the startup budget of
launcher and child, `PREPARED_CHILD_MILLIS`, the bounded cleanup and the bounded retirement.
Nothing is assumed of the other side: no adapter has to release, no message has to arrive,
no child has to become prepared or to die when killed, no claim has to be obtained, and
nothing has to fail. `CallsReturn` holds although an admission that closes a late owner
keeps the permit, because that close has a timeout and so has a drain. Strong fairness is
used twice: for the permit of the admissions and for `Offer` of the bridge, because a
semaphore and a queue of Effect serve their waiters in order. In the bridge the host need
not read, answer or go: a write it does not take ends when the bridge ends. In
`RequestClients` and `StdioShutdown` no call, connection, finalizer, host or resource has to
end; the timeouts do. No liveness is stated of the moves: a server that does not answer is
met by the deadline, which is an action of the model, and nothing in the code retries. Nor
is one stated of the sagas, whose steps are finitely many.

**Finding.** `meeting_saga_late` refutes a message of the program. When a call that failed
or was interrupted names no residual, its error says that "every attempted mutation was
compensated" (`errors-calendar-meetings.ts:147`), and the test of an interruption expects
`Recovered` (`calendar-meeting-composition.test.ts:951`). But a call interrupted while a
request is on its way takes it back at once: `withClient` (`client-operations.ts:65`) neither
waits for the request nor aborts it, each is an HTTP request of its own
(`client-connection.ts:257`), and descriptions even go to another endpoint
(`client-connection.ts:207`). TLC finds in eight states that the server applies the change of a
room after the restoration of that room, and the error names nothing. The same can happen
when the connection of a request fails before its answer. `OutcomeIsTrue`
and `OwnerChangesLast` say what is true in every order: one request of a call at most can be
overtaken like that, and what it did is all that may be left unnamed.

Some other behaviours are worth knowing. A generation removes its descriptor long before its
record, and a launcher that reads in between is refused (`namespace-inventory.ts:135`).
A retirement that finds the claim busy for five seconds leaves its record behind, which
blocks the directory for every configuration (`managed-selection.ts:279`). Both are
the conservative choices of `docs/adr/0003-adopt-mcporter-resident-lifecycle.md`. So is that a
launcher killed with the claim blocks the directory for good; `docs/resident-mcp-spec.md`
promises otherwise, and calls itself superseded.

## 4. The proofs

TLAPS proves the following for every value of the constants that meets the assumptions
(finite sets, a positive capacity or limit, the distinguished values outside their sets; for
the moves, that the numbers issues have at the start, for which their names stand, are none
of those a sequence gives).

| theorem | says |
|---|---|
| `AttachmentOwner_proofs!DrainSound` | `Spec => [](DrainedIsQuiet /\ FailedKeepsEvidence)` |
| `AttachmentOwner_proofs!SessionSafe` | `Spec => SessionOutlivesWork` |
| `AttachmentOwner_proofs!Implements` | `Spec => ImplementsContract` |
| `ResidentAdmissions_proofs!Room` | `Spec => [](CapacityBound /\ UniqueKeys)` |
| `ResidentAdmissions_proofs!Evidence` | `Spec => []ForgottenIsDrained` |
| `ResidentAdmissions_proofs!DrainSound` | `Spec => []DrainedIsQuiet` |
| `ResidentAdmissions_proofs!NobodyStranded` | `Spec => []NobodyIsStranded` |
| `ResidentAdmissions_proofs!StatusTrue` | `Spec => []StatusIsTruthful` |
| `ResidentAdmissions_proofs!StaleStays` | `Spec => StaleIsFinal` |
| `ResidentAdmissions_proofs!ContractKept` | `Spec => OwnersKeepContract` |
| `ResidentSelection_proofs!ExclusiveOwner` | `Spec => []OneOwner` |
| `ResidentSelection_proofs!Implements` | `Spec => ImplementsOwnership` |
| `ResidentSelection_proofs!Converges` | `Spec => []NoOverlap` |
| `ResidentSelection_proofs!LeavesEvidence` | `Spec => []EvidenceKept` |
| `ResidentSelection_proofs!KillsNoOwner` | `Spec => []KilledNeverOwned` |
| `ResidentSelection_proofs!StrandedOnlyByLoss` | `Spec => []OrphanNeedsCause` |
| `ResidentSelection_proofs!AlwaysRoom` | `Spec => []RoomAtPublish` |
| `IssueMovement_proofs!MovesImplementForest` | `Isolated => (Spec => ImplementsForest)` |
| `IssueMovement_proofs!MovesKeepForest` | `Isolated => (Spec => []StaysForest)` |
| `IssueMovement_proofs!MovesKeepDerivedData` | `Isolated => (Spec => []DerivedDataExact)` |
| `IssueMovement_proofs!Typed` | `Spec => []TypeOK` |
| `IssueMovement_proofs!ReportsAreTrue` | `Spec => []ReportIsTrue` |
| `IssueMovement_proofs!EveryNumberAccounted` | `Spec => []NumbersAccounted` |
| `RequestClients_proofs!ClientsStayOpen` | `Spec => []UsedIsOpen` |
| `RequestClients_proofs!AllClosed` | `Spec => []NothingLeaks` |
| `RequestClients_proofs!OneConnection` | `Spec => []OneSharedClient` |
| `RequestClients_proofs!SilenceIsClean` | `Spec => []SilentMeansClean` |
| `StdioShutdown_proofs!CallsHaveTime` | `Spec => []CallsGetTheirTime` |
| `StdioShutdown_proofs!ForcedByWire` | `Spec => []ForcedIsStuck` |
| `StdioShutdown_proofs!FirstReason` | `Spec => FirstReasonKept` |
| `AdapterBridge_proofs!OneOwner` | `Spec => []RepliesAreOwned` |
| `AdapterBridge_proofs!SessionFirst` | `Spec => []SessionComesFirst` |
| `AdapterBridge_proofs!KnownOutcome` | `Spec => []OutcomeIsKnown` |
| `MeetingSaga_proofs!FailuresAreNamed` | `Spec => []OutcomeIsTrue` |
| `MeetingSaga_proofs!OwnerLast` | `Spec => []OwnerChangesLast` |

Each of these modules but `MeetingSaga_proofs`, where it is the first part of the invariant,
also proves `Typed`, `Spec => []TypeOK`. Except for the moves, whose type invariant says what
record each control point may rely on, the type invariants are not repeated in the runs. Nor
are properties another one implies: `OneOwner` follows from `ImplementsOwnership`, whose
mapping sends two holders to no abstract owner, and `UniqueKeys`, `StaysForest` and
`FirstReasonKept` are theorems only.

**AttachmentOwner.** `DrainedIsQuiet` is not inductive: that the drain has ended says
nothing of the tickets unless one knows that a ticket still in `work` was in its snapshot
and is either awaited or yet to be, and that its Deferred tells how its cleanup went. The
inductive invariant relates `work`, `done`, `pc`, `retained` and `awaited` in that way
(`TicketInv`, `DrainInv`), and says that `closing` implies not `accepting`, so that nothing
enters after the snapshot.

**ResidentAdmissions.** `IInv` is `TypeOK` with three parts. `AttemptInv` ties an entry's
tag to the control point of its admission, and that to the permit: only its holder is
between the check and the publication, which is why the check still holds at `PublishOwner`
although it was made several suspensions earlier. `RoomInv` bounds the owned entries and
keeps the digests apart, the one being acquired included. `DrainInv` says what a drain that
has seen no pending attempt may rely on: `accepting` is false, no attempt is pending, and
every member is one it has still to close or whose close it has joined.

The other four need to know what a lease is worth, which `LeaseInv` says: while a lease is
active or pending its owner is open and nothing has been asked of it, a retiring one has the
retirement under way, and a retired one is never taken up again. Most steps touch at most one
owner, and at most to retire it; `QuietKeeps` settles those at once. `IdleInv` adds that a
generation fenced for idleness has no member and no pending attempt and gets none.
`ContractKept` is the refinement of `OwnerContract` seen from its user: whatever the
admissions do, each owner only makes the steps the contract allows, the lost ones included.

**ResidentSelection, the claim.** The argument does not need the control points. Every
action does one of seven things to the claim and its capabilities (`NextIsClaimStep`):
acquire it, hand it to Start, hand it to the child, release it, lose it, make and lose it,
or leave it alone. Each of these preserves `IInv`, that there is at most one capability and
it names the inode that is there, and is a step of `SelectionOwnership` or a stutter.

**ResidentSelection, the generations.** `NoOverlap` relates processes that never meet, so
its invariant `SafeInv` follows a decision from the launcher that makes it to the record
that makes it known. `LauncherInv`, `GenerationInv` and `RecordInv` say who has the claim at
each stage: the launcher until Start, the child from its adoption until its record is
linked; that a kill comes before Start; and that a record is there from its link until its
run has ended clean. `SeenInv` says that what the holder read is still so and that what it
passed over differs from it; `ChoiceInv`, that between the decision and the record there is
room in the registry and no record of that configuration; `CrashInv`, that a generation that
crashed with no record stranded the claim and is the only one. A step of one launcher leaves
the parts about the others alone (`OthersSame`), and the records change only at the hands of
the claim's owner (`RecordsMove`), at which time nobody else reads or has decided
(`NobodyElse`): exclusive ownership, proved first, is what makes a decision taken in one
process valid in another. The proof uses of `Apart` only that no configuration is told apart
from itself. Before it was proved, the invariant was checked by TLC on the instances of
`SelectionRace` and `SelectionLive`.

**IssueMovement.** A batch is planned from reads that are spread over time; nothing makes
any two of them agree. The proof shows that the conditions of the batch make them agree at
the one moment that counts. `CallOk` carries what a call knows about its own data: each row
the walk found hangs from one it had found before, up to the root (`HangTogether`, kept by
`LevelHangs`); and when the last inspection is clean, the plan fits together, with the
parent outside its tasks and in the destination (`Fits`, from `CleanFits`). That is a
relation between the fields of the request and stays true of it on its way. When the server
then finds the conditions to hold, every row the plan names is attached as the plan has it
(`TaskRow`, `AncestorRow`) and no issue outside the tasks hangs from one of them, so that
the tasks *are* the tree under the root now (`TasksAreTheTree`) and the batch is a `Move` of
`IssueForest` (`BatchIsMove`). Every other step leaves the forest alone or creates a child.
`MovesKeepForest` then shows of the abstract specification alone that a whole move keeps it
a forest. The hypothesis `Isolated` is needed: without it two batches are both checked
before either is applied.

`MovesKeepDerivedData`, under the same hypothesis, is about what rows cache of other rows. A
batch writes ancestries computed from ancestors read earlier, of whose rows its conditions
check the place and the time of change but not the number, and it removes moved issues only
from the aggregates of rows it has read. `XInv` adds to the forest and the types what makes
that enough. A row somebody holds is never newer than the issue and, when it is as new, has
its number (`Current`, kept because every step of the server is `Onward`). The rows of a plan
hold every ancestor of each of them and list what is below each (`Trusted`, from the
inspection: `CleanIsTrusted`). So when the conditions hold, the planned rows are the rows as
the batch leaves them (`BatchRows`); a task gets its true ancestry, and an issue outside the
tree keeps its own, as nothing above it is a task (`BatchAncestry`, from `AncestryAgrees`: two
sets of rows that agree on a set holding its own parents give one ancestry). Whoever has a
task below it now was read, and listed it (`TasksBelowAreListed`), so the batch takes it out
or it is still below (`BatchAggregates`). That a root is not below itself is the one place
where the forest invariant is needed.

What a call *reports*, and the numbers it draws, are proved without that hypothesis, so they
hold on a server that interleaves batches, loses answers and changes issues meanwhile.
`TInv` gives each record a call holds the type the next control point takes it for
(`CallTyped`), including that a plan's rows are linked to issues that exist; a step of one
call leaves the records of the others alone (`OthersTyped`). `Reports` then says what the
evidence of a call means at each control point: which batch was sent, whether its answer
came, whether the first reads after it agreed, and hence which of `completed`, `no-op`,
`incomplete` and `indeterminate` may still be the outcome. `NInv` accounts for numbers: every
number the server gave for a call is in its evidence, except at most that of the request
whose answer it never had (`Accounted`). That no two issues of a project have one number
cannot be said of the rows alone, because a number is claimed long before it is written:
`Claims` collects the rows, what each call has read, planned and been given, and what is on
its way; `Unique` and `Bounded` say that each claimed number is of one issue and below the
sequence it came from. `NextNumber` is the one step that adds a claim; all others only copy
claims or drop them.

**RequestClients.** `BuildInv` relates a bundle's scope to how its build ended, `CallInv`
and `LeaseInv` a call to its request and that to its lease, so that a call that uses a
client has its request, or the resolver, still holding the bundle; `ResolverInv` says that
every acquisition with something open is owned, and after the close being closed; `CountInv`
that the admission counts exactly the calls inside (with lemmas about the cardinality of
`Admitted`), which is what makes a drain complete; `ServerInv` what each stage of the
shutdown has behind it as long as nothing was reported.

**StdioShutdown.** The argument is arithmetic on the clock. `ClockInv` bounds the time at
each stage by the allowance before it, so that the deadline, which exceeds their sum, finds
only what ignored its interruption; `AdmissionInv` is again the count of the calls inside.

**AdapterBridge.** `ReplyInv` says that of a reply there is one copy: with its fiber, in the
queue, or with the host, in agreement with the phase of the response; `OfferQueues` and
`WriteDequeues` are what the two ends of the queue do to positions in it. `IdInv` keeps the
ids of fibers under way apart, `SessionInv` places the initialize between them, and `EndInv`
says what is over at each stage of the end.

**MeetingSaga.** Both properties are about the end of a call or of its recovery, and what
makes them true is spread over all the steps before it. `SagaInv` pairs every request a call
may send forward with the one that undoes it (`TakenBack`). `Untouched` says that what was never
sent needs no undoing; `UndoInv`, that in the recovery each undoing is still ahead, or sent
and not confirmed, or named, or has nothing to undo with nothing on its way that would change
that (`Calm`), or was applied with the request it undoes still on its way (`Overtaken`); so
when no step is left, what is not named is as it was, but for what was overtaken. The last
case is why an answer to an undoing proves less than it seems to: `HandleKeeps` gets from it
`Calm` or `Overtaken`, and no more. `LineInv` bounds what can be on its way: on the way
forward only the request the call waits for, so that one at most is given up with its answer
outstanding, and `LateInv` keeps it at one through the recovery. `DoneInv` is the mirror of
`UndoInv` on the way forward, `ReadInv` and
`SiblingInv` say what a poll is still worth once siblings have come or gone. For the owner's
record, `OrderInv` says that the steps ahead keep their turn (lemmas about orders of steps:
`InOrderJoined`, `InOrderTail`, `TwoParts`), and `OwnerInv` that until the owner's record is
back for certain, or named, or its change was overtaken, its siblings are in the new room with
nothing on its way that takes them out of it.
Before it was proved, the invariant was checked by TLC on the instance of `meeting_saga`.

**Only model-checked.** Liveness is out of the prover's reach, and so are `CallsReturn`,
`NothingHangs` and the other properties of that kind; every safety invariant and every
action property a passing run checks is stated by a theorem, those of the moves that need
`Isolated` under that hypothesis.

## 5. What is not modelled, and what is assumed

**Inside the modelled parts.**

* *Resident side*: telemetry and observations; the closing of a generation's Effect scope
  after its last drain, which interrupts watch fibers that have nothing left to do; the
  contents of descriptors, records and frames, and their validation (a refusal may come
  anywhere); the temporary directories of a publication; the identity of files other than
  the claim. In the admissions, one lookup at a time is followed to its use. In the
  selection, what a generation does during its run is reduced to whether its cleanup was
  confirmed.
* *Adapter*: the hand-over of an admission to the native socket (`transfer`), the proof of
  compatibility an admission may carry, the input a managed adapter buffers while it
  selects, and headers. A message of the host meets the reader when it reads; the writer has
  one line in hand; `FiberMap.remove` and `clear` wait for the fiber. A response that fails
  while the bridge is clearing up is silent, as it is in the code.
* *Requests and clients*: observations, the binding of the port and the policies that refuse
  a request before it has a context; the status query; what a connection does in its layer.
  It is assumed that a fiber is not interrupted between the end of its build and the end of
  the `uninterruptibleMask` around it, and that closing the transport's scope waits for the
  fibers of handlers (Effect's scope is external). `confirmed` against `best-effort` only
  changes what is logged.
* *Stdio*: `eof` is `stdin-eof` and `stdin-close`, `signal` is `sigint` and `sigterm`. Time
  passes in seconds, when nothing can run. `process.exit` does not return. One executor runs
  the shutdown. A call read right before the end of the input may still be refused. Only the
  close of the wire's scope can ignore its interruption; the other two are bounded by
  `timeoutOption`.
* *Moves*: the records a task owns (comments, attachments) and its attributes (status,
  component, milestone, rank) are carried along and checked like the rows and fold into
  them; the reads of `lastRank` and of each task in the verification fold into the failures
  of their phase. The check for duplicate numbers in `planTransferTreeWrites` cannot fire
  with what the allocation gives it. `modifiedOn` is taken to change with every write, as it
  does unless two writes fall into one millisecond.
* *Calendar sagas*: how the room, the target and the siblings of the plan are found, and who
  may write them; the diagnostics in the error. It is assumed that during a call nobody else
  changes the records it writes (the recovery puts back what was read before it, whoever
  wrote since) or removes the target. Nothing is assumed of the order of requests. That a sibling came or went after the last poll of a call is beyond its knowledge, and
  `OutcomeIsTrue` does not ask for it.

**The Huly server** is external. That it checks and applies a batch in one step is the
hypothesis `Isolated` of the theorems and of the runs about the forest;
`docs/issue-movement-spec.md:107` says that "SDK `apply` and `scope` do not alone prove
global isolation or ACID semantics", and without it the forest may break. What a call
*reports* is checked without it (`moves_failing`). The triggers that keep `childInfo` are
modelled from what the code leaves for them to do.

**Parts not begun** (the components in `PROJECT.json`).

* *Operator stop and status.* A stop reads a record, submits at most one request and keeps
  no state; it adds to `ResidentSelection` one more cause of `RunStops`. What it concludes
  from what it reads back needs the composition of a generation's end with the fence of its
  admissions (section 6).
* *Native sessions and the Rust bridge.* The owner's side, the release of a session after
  its last request, is in `AttachmentOwner`; the session itself is a pipe to another
  program.
* *Huly connection and storage.* The sharing of a connection among clients of one
  configuration (`shared-resource.ts`) repeats what `RequestClients` has of the resolver;
  the connection is the SDK's.
* *Other sagas over Huly.* The employee lifecycle, the merging of persons and external
  publication write and verify in several steps like the calendar sagas; they are next in
  the plan.
* *Profiles and credentials.* A file replaced by rename and entries of the system's
  credential store, by one command at a time.
* *The tool registry, the schemas, the operations that are one read or one write,
  configuration, telemetry and the CLI* keep no state that an order of steps could harm, and
  are left to the repository's tests. They are most of the repository's lines.

The repository's own Quint models (`quint-specs`) cover the launch, the owner and the response
ownership. They are not used here: every definition is read off the code.

## 6. The plan

1. **Done.** `AttachmentOwner` with `OwnerContract`; `ResidentAdmissions` over the contract;
   `ResidentSelection` with `SelectionOwnership`; `AdapterBridge`; `RequestAdmission`,
   `RequestClients` and `StdioShutdown`; `IssueMovement` with `IssueForest`; `MeetingSaga`.
2. **Composition.** `ResidentGeneration`: admissions over detailed owners with the life of a
   generation (`manual-backend.ts`), in which a drain's success is what `outcome` in
   `ResidentSelection` stands for, and admission answers what `Admits` assumes; then
   `OperatorStop` over it, and the heartbeat of `AdapterBridge` against the leases of
   `ResidentAdmissions`.
3. **Huly.** The employee and publication sagas. The profile file and credential
   publication; the connection shared by clients.
4. **Proofs.** With the composition of step 2, that a generation's successful drain is quiet
   in the detailed owners too.
