# RMMWay in TLA+

TLA+ models of RMMWay (a remote monitoring and management system: Go server, Go
agent, React frontend), concentrated on what depends on the order in which things
happen. Every module is translated from the Go code in `server/` and `agent/`;
`PROJECT.json` maps each definition to the lines it stands for and lists the
components, runs, mutants, hazards, findings and theorems.

    tlc -workers 2 -config MCStream.cfg MCStreamRegistry      # a run
    tlapm StreamRegistryProofs.tla                            # proofs

## 1. The system and its parts

An agent enrols once with a bootstrap token and receives a device id, a client
certificate and a JWT. It keeps one bidirectional gRPC stream open: heartbeats,
metrics, logs, OS events, session frames and command results go up;
acknowledgements, commands and session controls come down. The server keeps
devices, runs, alerts, tickets and the rest in Postgres (some parts only in
memory), publishes events on a bus (NATS JetStream, or an in-process one), and
runs background loops: offline sweeper, baseline engine, self-healing passes, flow
sweep and sampler, webhook sweep, search index.

| Component | State it keeps | Operations | Hard part | What makes it correct | Module |
|---|---|---|---|---|---|
| Stream registry, presence (`ingest.go`, `pg.go`) | `streamW`, a channel and two goroutines per stream, `devices.online` | Stream, Push, SendSessionControl, Touch, SweepOffline | a reconnect while the old stream ends; sends on a channel being closed; crash | one usable stream per device, every other one cut off and ending; presence converges | `StreamRegistry` |
| Dispatcher, capability tokens, gate (`ingest/store.go`, `caps`, `uplink.go`) | ids, pending, results; tokens; a reader per session | Dispatch, DispatchWith, RecordResult, Check, handleCommand | sessions replaced while a command runs; expiry in the queue; a command that holds its reader | runs at most once, only under its own token; an accepted command is answered, unless its reader is held for ever | `CommandDispatch` |
| The agent's command handlers (`uplink.go`, `exec`, `files`) | temp files, processes, the reader they run in | scripts, file pull and push | one reader for all; streams that drop under it; daemons that keep pipes open | SUCCEEDED is true; the reader comes back | `AgentActions` |
| Flow engine (`flow`) | `flow_runs`, bus events, cooldown | handleTrigger, handleStep, handleCommand, Sweep | redelivery, racing handlers, crash between statements, recycled ids | hops follow the graph, one notification, own results only, runs end | `FlowEngine` |
| Flow graphs (`flow/graph.go`, `domain_flows.go`) | `flows` rows | Validate, create, edit, enable, delete | edits under a run | only DAGs reachable from the trigger; nothing executed twice | `FlowGraph` |
| Self-healing (`heal`) | `heal_runs` | RunOnce: detect, verify, remediate, confirm, escalate | overlapping passes, crash between dispatch and record | stages in order, one remediation, cooldown, runs end | `HealEngine` |
| Enrolment, CA, rotation (`ingest.Enroll`, `ca`, `agent/enroll`, `rotate`) | tokens and grace in memory, root, identity file | Enroll, ReissueRoot, RefreshLeaf, setJWT, Save | lost replies; root re-issued under an enrolment; two writers of one file, saves that fail | identities verify and the file is current; enrolment ends | `DeviceIdentity` |
| Self-update (`update`, `releases`) | releases directory, executable, staging file | publish, Run, install | release rewritten under a pass; two passes; manifests without a checksum | only whole builds of ours, never older | `SelfUpdate` |
| Remote sessions (`session.go`, `sessionrelay`, `domain_session.go`) | active session, viewers, live loop | start, stop, OnFrame, subscribe | overlapping start and stop, full channels, a handler left over from a broken stream | frames in order; a stop ends the capture | `RemoteSession` |
| Log shipping, OS events (`logship`, `osevent`, `store/logs.go`) | offset, queue, state files, ring | readNew, flush, writeState, poll, Write | offset against queue and crash; duplicates | `LogDelivery`; newest events shown | `LogShip` |
| Alerts (`baseline`, `store/alerts.go`) | inbox, clean streak | pass, Reconcile, Ack, Resolve | overlapping and failing passes | resolved only after clean passes | `Alerts` |
| Journal, webhooks, event stream (`webhook`, `domain_events.go`) | journal, cursor, subscribers | handleBus, Sweep, Replay, handleEventStream | replay under a delivery, catch-up against live events, panic | nothing skipped, no gap, an endpoint catches up | `WebhookDelivery` |
| Setup, settings, mail (`setup`, `smtp`, `domain_settings.go`) | setup rows, root, issuer, relay | Complete, settings, test message | three steps that fail separately; two wizards | root, organisation and administrator belong together | `FirstRun` |
| Users, TOTP (`store/users.go`, `httpapi.go`) | users row, sessions, limiter | login, patch, enrol, confirm | a secret replaced while its code is checked | verified means proven | `Accounts` |
| Tickets, clients (`tickets.go`, `clients.go`) | rows | CRUD, assign, transition, escalation tickets | counts taken after the list was read | count and list agree | `Desk` |
| Notification channels, policies, windows (`notify`, `maintenance`) | maps in memory, rows | CRUD, test | field-by-field updates, of which the store's copies under a lock the others do not take | no answered update is lost | `Notices` |
| Reports, export (`reports`, `export`) | `report_runs`, bundle | generate, export, Verify | clients that leave, tables that change | a run's status is true; a bundle verifies | `ReportRuns`, `DataExport` |
| Search index (`meili.go`) | pending, due, the index and its tasks | Touch, Sync, FullSync, ensureIndex | a write, or another synchronisation, between the steps of one | nothing queued means nothing behind | `SearchIndex` |
| Metrics store, HTTP plumbing, collectors, frontend | rows | queries, rendering | none of their own | - | not modelled |

How they meet: the dispatcher pushes through the registry's current stream; flow,
self-healing and operators are the dispatcher's clients and see it as ids and
results; the wizard re-issues the root that enrolment signs with; alerts, runs and
tickets publish events that the journal stores; an escalated healing run becomes a
ticket; whoever changes a device queues it for the index. Two components are in one
module where their steps interleave on shared state (`DeviceIdentity`,
`RemoteSession`, `LogShip`, `WebhookDelivery`, `FirstRun`, `Desk`). Elsewhere one
module takes the other's guarantee as its environment: `CommandDispatch` a registry
with at most one current session per device (`StreamRegistry`), `FlowEngine` and
`HealEngine` a dispatcher whose ids start over with the process, `AgentActions` a
gate that has let the command through.

## 2. Modules

An action is a handler's, goroutine's or loop's steps between two points where
somebody else can act: a lock released, a statement committed, a message handed
over. What a handler does under one lock or in one transaction is one action. A
`pc`-like variable (`work`, `pass`, `call`, `sweep`, `reader`, ...) holds what the
code holds in locals between two steps. Operators whose comment begins with
"Mutant of" are broken versions of a mapped definition and are used by nothing
else; `PROJECT.json` pairs each with the property it breaks.

**StreamRegistry.** A connection slot has a handler, a pump, a downlink channel, a
context and a peer. `Register` is the critical section of `Service.Stream`; the four
`Ack*` actions are its select, including Go's free choice when a closed channel and
a done context are both ready; `Defer` and `EmitOffline` are the deferred function
before and after the unlock; `Touch`, `GoesStale`, `SweepOffline`, `PublishSwept`
are presence. A panic or a crash is `Stop`: memory is lost, rows and bus remain.

**CommandDispatch.** `dispatch` is `Begin`, `Mint` or `DispatchWith`,
`PushSucceeds`/`PushFails`, `Undo`. `DispatchWith` stands for everything that may
reach the gate: missing, foreign and expired tokens. A session has two ends that
fail separately and a reader that outlives it while it executes. A command may hold its
reader for as long as it likes (`Hold`, `LetGo`): `exec.go` waits for the output pipe
without a bound, and a pushed file for chunks that only this reader could take.

**CommandService** says what all of this promises to whoever dispatches, without
queues, sessions and readers: a command is asked for, authorised, told to have been
sent or not, runs at most once on the device it was asked for under an authorisation
that has not run out, and what is recorded of it is first that it started or was
refused, then its end. The refinement mapping (`Service` in `CommandDispatch`) takes
`started` as what ran, `outcome` as what was told, `results` as the recorded answer,
and a command as authorised when it carries the token minted for it.

**AgentActions.** What runs inside that reader: each handler step by step, with the
frames it sends on the stream it belongs to. `Onward` lists per kind of command the steps from which a handler
goes on whatever anybody else does.

**FlowEngine.** One flow on one (device, source) series. A worker is one handler
invocation; every statement that commits is a step, so that a crash (`Restart`), a
failing call (`HandlerError`) or another worker can come between any two. `bus` is a
set: an event stays until a handler that took it acknowledges it. `AdvanceTo`,
`FailRun` and `Dispatched` are the conditional UPDATEs. Conditions on samples are
choices, timeouts a flag that time sets.

**FlowGraph.** `Validate` with the depth-first search with three colours as the code
has it (`VisitAll`, one step of a recursive function on the targets left and the
colours of the nodes), next to `WellFormed`, a definition that does not search: a
numbering that ascends along the edges, and no closed set that leaves a node out.
Which graphs are submitted is a parameter (`Graphs`, `Revisions`). Then the stored row under
edits, the trigger, and the walk of a run by the graph of the moment.

**HealEngine.** One playbook on one series. A pass works through both stages of
`RunOnce` with the row and the clock it loaded; `Transition` is the conditional
UPDATE. `overlapped` remembers that a pass was started while another was under way.

**DeviceIdentity.** A leaf is its serial and the generation of the root that signed
it. Token, grace entry, registration and leaf of `Enroll` are separate steps on two
channels (HTTP and gRPC), next to the wizard's re-issue, the cached server
certificate, and on the agent the identity in memory, its file and the two writers.
A save encodes the identity, opens and empties the one temporary file, writes it and
renames it, and may fail at each step (`SaveFails`), which the agent logs and goes on.
Both writers may have the temporary file open when one of them renames or removes it
(`Elsewhere`), so the file may be torn (`TornId`); `overlap` and `failed` remember that
the last saves overlapped, or that the last one failed.

**SelfUpdate.** A build is a version and a key; the publisher replaces binary,
signature and manifest one by one; a pass downloads the three at three moments.
A manifest may be published without a checksum, which the agent then does not check:
`bare` says that the executable came with such a one.

**RemoteSession.** HTTP handlers, registry, viewers' channels, streams, driver and
capture loop. Each stream has a number, a queue and a handler; that of a superseded
stream may go on while the next one's is at work. `OnFrame` is the part under the
registry's lock, and `Notify` offers the frame to one viewer at a time after it. The
driver handles controls in the stream's one reader, so open and close are atomic and
wait for the command the reader executes (`busy`), which need not end; the loop runs
beside it and outlives the stream.

**LogShip and LogDelivery.** File positions count half lines, so a reader may stop
inside one. The shipper reads, queues up to a cap, flushes to Loki and the uplink,
requeues on failure and saves the read offset; the server keeps a ring and a table.
`LogDelivery` says the same without files and batches: while the agent runs, a
logged line leaves the debt only by being accepted by both sinks or dropped over
the cap; a crash may forgive lines. The refinement mapping (`Promise`) takes as owed
what is in memory or will be read whole from the file at the offset the next
shipper starts with, as accepted what both sinks took over and is not owed again.

**Alerts, WebhookDelivery, FirstRun, Accounts, Desk, Notices, ReportRuns,
DataExport, SearchIndex** have the handlers named in the table, one row, series,
endpoint or user name each, and several requests at once. In `Notices` the store's
`UpdatePolicy` is the loop of `LoadField` and `StoreField` over the stored policy, and
`undone` has the fields someone else set between the two. In `SearchIndex` a
synchronisation looks at the index (`EnsureIndex`), posts one task after the other
(`PostTask`) and waits for each; Meilisearch, external, does the tasks in order
(`DoTask`), as `meili.go` relies on. In `ReportRuns` every statement may fail by itself,
and what ends a run is not looked at (`unwritten`). In `WebhookDelivery` the
catch-up query may fail, and the viewer then goes live without it.

**MC modules.** `MCDevice`, `MCInbox`, `MCParts` and `MCRecords` check several
modules that share no variable: each behaviour chooses a part at the start
(`focus`) and moves only that one, so parts add up instead of multiplying.
`MCCommandDispatch` and `MCHealEngine` likewise choose between two kinds of
behaviour (`mode`), each with the dimension the other lacks.

## 3. Runs

| Run | Instance | Properties |
|---|---|---|
| `stream` | 1 device, 2 connections, channel and window 1, crashes | `CurrentIsOpen`, `EvictedIsCutOff`; `CutOffStreamEnds`, `AbandonedGoesOffline` |
| `stream_no_panic` | without commands | `NoPanic` is violated |
| `command` | 1 device and 2 commands, or 2 devices and 1; 2 sessions, script and reboot, a reader that may be held | `OnlyAuthorisedRuns`; `ServesCommands` (refinement), `AcceptedIsAnswered` |
| `flow_safety` | trigger, script, notify; 2 handlers, 2 ids, 1 failing call | `OwnResult`, `NotifiedOnce` |
| `flow_live` | with check and branch; 1 handler, 1 restart, deletion | `LeftTriggerEnds` |
| `heal` | 2 runs; one pass at a time with a failing call, or 2 passes that overlap; 1 restart | `SerialPassesAreSafe`; `EveryRunEnds` |
| `logship` | 3 lines, batches of 1, queue of 2, ring of 2, 2 OS events, 1 fault | `RecentIsNewest`, `UnsentStaysFresh`; `KeepsPromise` (refinement), `OwedIsSettled` |
| `session` | 2 sessions, 1 viewer, frames numbered to 2, viewer's channel 2, other capacities 1, 1 broken stream and so 2 handlers; either viewers or overlapping requests (`focus`) | `FramesInOrder`; `AckedStopEndsCapture`, `CaptureIsStoppable` |
| `device` | identity: 1 wizard, 2 leaves, 1 renewal, 1 crash, 1 fault, which may be a failing save; updates: 3 versions, 2 publications, with and without a checksum, 2 updaters | `OrphanOnlyByRace`, `FileIsCurrent`, `ExecutableIsSound`; `EnrolmentEnds`, `UpdateLands` |
| `inbox` | alerts: 2 passes, 2 ids, streak of 2; journal: 3 events, 2 attempts, channel and catch-up 1 | `NoneSkipped`, `StreamHasNoGap`, `CleanBeforeResolved`; `EndpointCatchesUp` |
| `parts` | accounts, desk, agent actions (5 pairs of commands), graphs, export, reports, one at a time | `VerifiedIsProven`, `CountMatchesList`, `SucceededIsTrue`, `StuckOnlyWhenHeld`, `ValidateIsExact`, `NeverTwice`, `BundleVerifies`, `StatusIsTrue` |
| `records` | setup (2 requests), notices (3 requests), index (2 devices, 3 syncers, 3 writes, 1 failure, an index that is missing, foreign or ours), one at a time | `SetupIsWhole`, `NoUpdateIsLost`, `IndexIsCurrent` |

### Bounds and why they are enough

- *Actors.* Two connections are the registered one and the one that ends; slots are
  reused, so chains of reconnects happen. Two handlers, passes, logins, wizards or
  updaters make every race of two; a third would race with a row that a conditional
  update has already settled. `records` has three requests because an update can be
  overtaken by another that a third one overtakes.
- *Capacities* of 1 or 2 make the full channel, the full queue, the cap and the ring
  reachable within a few steps; larger ones only delay them. The values of the code
  (16, 200, 4096) are named next to the constants.
- *Numbers.* Two devices and two commands are what a token of the wrong device or
  command and a queue with a predecessor need. Three lines are one accepted, one in a
  batch and one unread. Graphs of up to three nodes have every kind of cycle, repeated
  and missing id, dead branch, and target outside the graph. Three versions allow a
  release to be replaced by a newer and by an older one. Frames numbered to 2, and a
  viewer's channel of 2, let two frames of one session wait and two streams' handlers
  overtake each other. Whether the index deletes documents of others takes two
  synchronisations that saw it as it was, which two devices and three syncers allow.
- *Faults.* One restart separates two processes, which is what recycled ids and lost
  memory need; one failing call may hit any statement. `MaxFault`, `MaxError`,
  `MaxRestart`, `MaxDrop`, `MaxFail`, `MaxDown`, `MaxFailure` count them; `MaxEdit`,
  `MaxWrite`, `MaxPub`, `MaxStart`, `MaxSeq`, `MaxTime`, `MaxNote`, `MaxSchedule`,
  `MaxSecret`, `MaxJwt`, `MaxLeaf`, `MaxCmd` bound what may be repeated without end.
- The theorems of section 5 have none of these bounds.

Runs without deadlock checking are those whose counters end: nothing is left to do
when every bound is used up. Symmetry is used in invariants-only runs and one action
property that names no worker.

### Fairness

Handlers, goroutines and loops that have a step to make make it (weak fairness), as
the Go scheduler guarantees; tickers fire again; a supervisor restarts server and
agent. `select` chooses at random among ready cases, so a receive loop whose context
is done returns although heartbeats keep arriving (strong fairness of `RecvEnds`).
JetStream redelivers and the sweep is a ticker, so a step event that is published
again and again is handled (strong fairness of `Deliver` for step events and of the
sweep of a run). Deadlines pass. An execution on the agent ends by its timeout unless something
holds its reader, which nothing need end (`Hold`, `busy`): `AcceptedIsAnswered` excepts a
session whose reader stays held for ever, and `AckedStopEndsCapture` has as premise that the reader
comes back.
Nothing is assumed of operators, triggers, links, or of an agent answering:
`LeftTriggerEnds` and `EveryRunEnds` hold with one that never does. `UpdateLands` and
`EnrolmentEnds` need the server up in the end and faults to end, which the bounds on
faults say.

## 4. What the runs show about the code

Most of what the code's comments promise holds. Where it does not, either a run finds
the counterexample or the property names the exception that TLC needs; dropping the
exception gives the counterexample. `PROJECT.json` "findings" quotes both sides.

1. *Panic on reconnect* (`ingest.go:546`): the channel of a superseded stream is closed
   while its handler may be queueing an ack on it (`stream_no_panic`).
2. *Foreign result after a restart* (`flow/store.go:376`): runs are found by command id
   alone, ids start at cmd-1 in each process. With `MaxRestart = 1` `OwnResult` fails.
3. *A run stuck on its trigger* (`flow/engine.go:310`): a crash between the insert and the
   first hop leaves a run the sweep cannot move and that blocks its series.
4. *Double remediation* (`heal/engine.go:301`): the dispatch precedes the update that
   records it; a restart or an overlapping pass dispatches again.
5. *Not at-least-once* (`logship.go:583`): what is in flight on a broken stream, refused
   by the server's store, or queued behind the saved offset at a crash is lost.
6. *Chunked push* (`uplink.go:80`): waits in the only goroutine that could deliver chunks.
   So does a script whose output pipe a process holds (`exec.go:180`), and a stop of a
   session that is queued behind either does not reach the driver.
7. *Validate panics on a schedule* (`graph.go:260`).
8. *CSV reports may be cut* (`reports/store.go:222`): rows are closed while read. *Reports
   may stay running* (`domain_reports.go:255`): the UPDATE that ends a run may fail, by
   itself or with the client's context, and its result is ignored.
9. *Two wizards* (`setup/store.go:169`) both complete.
10. *Heartbeats do not reach the index* (`meili.go:368`).
11. *A deleted index takes posted documents with it* (`meili.go:89`): two synchronisations
    that both saw another primary key; the second deletes what the first has posted.
12. *An answered update of a policy may be undone* (`store/notify.go:171`): the store reads
    and writes each field again under a lock that the handlers' edits do not take.
13. *Frames of a closed session name it again* (`sessionrelay.go:113`), although the comment of
    `Close` says they are dropped. It is what makes a capture that outlived its session
    stoppable (`CaptureIsStoppable`).
14. *A saved identity may be torn or stale* (`enroll/store.go:146`): both writers use one
    temporary name, and `setJWT` saves outside the lock the rotator saves under. A save
    that fails also leaves a stale file, which the code logs and accepts.
15. *A downgrade without a checksum* (`update.go:137`): `verify.go:44` skips the checksum
    when the manifest has none, as `manifest.go:15` allows; the version is then vouched for by
    nothing, and an older build of ours may be installed as a newer one.
16. *Inventory and patch commands cannot be sent* (`domain_commands.go:204`): the API
    builds them and the agent has handlers for them, but they have no capability, so the
    API answers 400 and the dispatcher and the gate would refuse them too.
17. *A failing catch-up query* (`domain_events.go:145`) leaves a viewer with the live events
    only, and nothing tells it.

Seen while translating, without a property of their own:

- An offline event may follow the online event of the stream that took over
  (`ingest.go:573`, emitted after the unlock). A failing `Mint` leaves its command in
  `pending` (`ingest/store.go:101`); "oldest first" sorts ids as strings
  (`store.go:147`); a RECEIVED report removes a command from the pending list.
- A token may be attached to a stream by a reader that outlives its session
  (`uplink.go:332`); `PushLogs` and `PushSessionFrame` call `Send` of one stream from two
  goroutines (`uplink.go:93`); an agent that is down longer than its leaf's lifetime
  cannot renew it.
- Flow cooldown and insert are two statements (`flow/engine.go:185`); deletion and a
  failing load of a flow both fail its runs. Self-healing takes recycled ids for its
  own and drops an escalation whose notification fails (`heal/engine.go:337`, `415`);
  the ticket of an escalation is created with a nil context (`wire_tickets.go:36`).
- Channels and policies are lost at a restart; their create handlers go on after a 400;
  the email test is a stub (`wire_notify.go:24`); no code routes an alert to a channel.
- `BeginPull` has no caller.
- Patch, license and uptime reports query tables that do not exist; schedules are never
  executed. `patchUser` commits the role before it refuses the password.
- A webhook viewer that leaves can panic the server (`webhook/service.go:283`); a replay
  may be run over by a delivery in flight (`service.go:329`). Silence of a series
  resolves its alert although `store/alerts.go:340` says it never does.
- Setup answers 500 where its documentation says 400 (`httpapi/setup.go:102`).
  `Transition` never stamps a first response.

## 5. Proofs

Eight modules prove facts for every value of the constants, under the `ASSUME`s of
the component's module. Most of these say that bounds are naturals, capacities
positive and `None` not a value; three say more. The graph of a flow is finite
and acyclic, which `AcceptedGraphRuns` proves of every graph that `Validate` accepts. Administrators' names are
ordered and every nonempty set of them has a first (`FirstRunAssumption`), as in any
table. The settings a wizard sends have the fields of an SMTP configuration. TLC
evaluates the assumptions in the runs.

| Module | Theorems | What carries them |
|---|---|---|
| `StreamRegistryProofs` | `TypeCorrect`, `RegisteredChannelOpen`, `EvictedStreamCutOff`, `EndedStreamClosed` | The three invariants hold only together: `Defer` closes a channel only when it finds itself registered, a replaced handler may end without closing because its channel is closed, and a slot is reused only when it is registered nowhere. `LiveHasDevice` gives `streamW[dev[c]]` a meaning. |
| `CommandDispatchProofs` | `TypeCorrect`, `OnlyAuthorised`, `StartedAtMostOnce`, `ImplementsCommandService` | The gate compares the token with the session's device; that this is the command's device rests on the registry (`RegisteredIsOwn`, `UnownedIsEmpty`). A token stays what it was because a command has one caller (`CallerOwns`), and it is queued once (`QueuedOnce`) and was sent if it ran (`RanWasSent`). A reader that is held is at an execution like any other: whether it is let go plays no part. For the refinement see below. |
| `FlowProofs`, engine | `TypeCorrect`, `NotifiesOnce`, `HopsAreEdges`, `AdvancesOnOwnResult` | Every hop is conditional on the node it leaves and the graph has a rank, so a run that left a node never returns (`LeftForGood`); the handler that won the hop is alone in notifying (`NotesSound`). `AdvancesOnOwnResult` assumes `MaxRestart = 0`: a handler holds a result of a command its run sent from the node, or its run has left that node (`HandOwn`). |
| `FlowProofs`, graphs | `ValidateExact`, `AcceptedGraphRuns`, `ValidatesExactly`, `WalksOnce` (`FlowGraph`) | See below. |
| `HealEngineProofs` | `TypeCorrect`, `EscalatesOnce`, `StagesFollowPlaybook`, `SerialIsSafe` | Every update is conditional on the state the pass has read (`PassesInformed`), so one pass wins the step to `escalated` (`NotifiedByOne`). While passes have not overlapped there is one (`OnePass`), by the unique index one active run (`OneActive`), and what the pass has read of it still holds when it acts (`Serially`): the row is where the pass found it, it has been acted for only between dispatch and record, and a cooldown found over is over at the dispatch. |
| `RemoteSessionProofs` | `TypeCorrect`, `OneReachableLoop`, `ShownInOrder` | A frame precedes another of its session that was captured later and came over the same or a later stream (`Precedes`). Numbers fall in that sense from the loop over a stream, its handler's unmade deliveries and a viewer's channel to the screen (`AheadFor`, `AllOrdered`), because a handler delivers one frame at a time and only frames of its own stream (`Routed`). A second loop that counted from zero would break it; an open is queued at most once for a session without frames (`OpensOnce`, `Untouched`). |
| `LogShipProofs` | `TypeCorrect`, `ImplementsLogDelivery`, `RingShowsNewest`, `UnsentIsNeverOld` | See below. |
| `DeviceProofs` | `OrphansOnlyByRace`, `FileStaysCurrent` (`DeviceIdentity`); `ExecutableSound` (`SelfUpdate`); `SuccessIsTrue`, `ReaderGoesOn` (`AgentActions`) | *Identity:* until a device is known nobody holds an identity that a new root could orphan, and whoever registers behind a wizard's check is noticed (`AnchorOK`); every save that has encoded the identity carries the token in use, because a token is set only while the rotator is not encoding (`Encoding`), so the temporary file has it or is torn from its opening on (`HasToken`); a save that runs alone finds the temporary file its own and leaves the leaf in use too (`FileOK`). *Update:* while passes have not overlapped, one pass is busy and what it has verified is what it stages and installs (`PassSound`); only the checksum ties the binary to the version in the manifest, so without one the version is not claimed (`bare`). *Commands:* a command waits at one place or has one reader (`HandlingOK`), so a success that was told, or is on its way, is final (`Settled`); on one stream the report precedes the success (`OrderOK`); a command is at a step of its kind, only a chunked push waits, and what a killed script leaves behind is at most a daemon (`KindOK`). |
| `RecordsProofs`, access and setup | `AccountsTypeCorrect`, `VerifiedProven` (`Accounts`); `SetupStaysWhole` (`FirstRun`) | The stamp is set after the check, on whatever row is there: rows are not deleted in between (`CheckedHasRow`) and a new secret clears the stamp (`StampHasSecret`). A lone wizard finds the root it has re-issued (`WizardAlone`, `RootIsOwn`), the issuer lags only before the refresh (`IssuerFollows`), and what is marked done is whole (`DoneIsWhole`). |
| `RecordsProofs`, journal and alerts | `WebhookTypeCorrect`, `NothingSkipped`, `StreamIsWhole` (`WebhookDelivery`); `ResolvesWhenClean` (`Alerts`) | The sweep's knowledge of the row is exact or marked stale (`SweepSound`). For the stream, an event the viewer waits for is queued, lost, in the handler's hand, or in the future (`NothingForgotten`); a catch-up that failed makes the journal's events lost. The streak never exceeds the clean passes there were (`StreakIsClean`), and a lone pass that goes to resolve has completed it itself (`PlannedIsClean`). |
| `RecordsProofs`, rows and copies | `UpdatesAreKept` (`Notices`), `IndexFollowsRows` (`SearchIndex`), `StatusStaysTrue` (`ReportRuns`), `ExportVerifies` (`DataExport`), `CountsAgree` (`Desk`) | A field an update has come past is set by it or by another update, and by nobody who was not asked to (`Passed`, `Author`); what `UpdatePolicy` holds of a field is what the field has, unless it was set since (`HoldsOK`), so writing it back changes nothing that is not in `undone`. One synchronisation carries a device, and a device that will not be listed again has its row in hand, queued or in the index (`CarriedOnce`, `Fresh`), through every step of looking after the index (`HoldStep`); one whose document was deleted with the index is behind, so what is not behind and not on its way was never in it. A run that is over was ended, or its UPDATE failed. A manifest tells exactly the files written so far (`WrittenSoFar`), so a bundle that was cut or spoilt does not verify (`CopyIsTold`). |

**Commands.** `ImplementsCommandService` maps each step: `Begin` is `Ask`, stamping a
token is `Authorise` or nothing, push, undo and a failing mint are `Tell`, a gate that
lets a command through is `Run`, a result that arrives is `Acknowledge`, `Refuse` or
`Complete`, and the rest stutters. That `RecordResult` overwrites whatever it finds,
and yet a late acknowledgement never hides a final result, is the hard part
(`AnswerInv`): nothing is known or under way of a command that nobody has taken off a
queue (`UntakenIsSilent`); of one that was taken, the start precedes the end on one
and the same session, whatever sessions come after (`FramesOrdered`), because only the
reader that started it reports its end and that reader keeps its stream
(`RunningIsKnown`). A frame that is lost with its session leaves the answer open but
never wrong (`FramesTrue`). The token is stamped once and before the push
(`StampedOnce`), so what was authorised stays so.

**Flow graphs.** The search of `Validate` is a recursive function on a finite set of
calls, and a function so written means something only when one satisfies its
equation. `SearchIsDefined` proves that one does, and `SearchUnfolds` its equation:
every nested call has a smaller `Size` (nodes not grey, then targets left). By the same
measure each call that finds no cycle leaves a black set that is closed under edges,
numbered along them, and inside every closed set that contains its targets
(`Finished`); and where a numbering keeps the grey nodes below the targets, none is
found (`Clear`). So `ValidateExact` holds for graphs of any size: accepted, except
that a schedule panics, is exactly what is acyclic and reachable from the entry. These
inductions are over natural numbers by the least counterexample (`LeastNat`), the
library's induction theorems being out of reach. `WalksOnce` then needs only that the
nodes visited under one version of the graph lie below the present one (`WalksUp`).

**Log shipping.** `ShipInv` says that the shipper keeps its lines in the order of the
file, the batch before the queue and both before the read offset. So a line is in
one place only, and a queue over its cap holds as many owed lines as its length says:
that is what `Overflow` of `LogDelivery` needs. `ImplementsLogDelivery` then maps each
step: writing is `Log`, a batch both sinks took is `Accept`, capping is `Overflow`, a
crash or an orderly stop is `End`, a start is `Restart`, and the rest stutters.
`RingShowsNewest` rests on a fact about the ring alone, that the newest of what was
newest and what arrives is the newest of all, whatever order batches come in.
`UnsentIsNeverOld` has an assumption of its own, `OsLogIsOrdered`: the operating
system logs events in the order of their time stamps. `Tail.poll` relies on this when
it remembers one time stamp to tell old events from new (`NoneOlder`); when the clock
is set back, later events count as old. The run's time stamps satisfy it, with two
events in one second.

The theorems that state a run's property are listed with it in `PROJECT.json`. The
proofs of the temporal theorems have one shape: `Init => Inv`, `Inv /\ [Next]_vars =>
Inv'` with one lemma per group of actions, `Inv =>` the property, and PTL. Lemmas
about the parts a handler is made of (`Goto`, `Return`, `FailThenNotify`, queueing)
are stated once and cited by the actions that use them.

Several properties have a premise in the form of a history variable (`raced`,
`overlap`, `failed`, `clash`, `bare`, `overlapped`, `behind`, `undone`, `unwritten`, `missed`, `excused`): it records the one event after
which the code does not keep its promise, and the module declares which event that
is. The theorems keep these premises; each mutant breaks its property while the
premise holds.

Only model-checked:

- everything under fairness: `CutOffStreamEnds`, `AbandonedGoesOffline`,
  `AcceptedIsAnswered`, `LeftTriggerEnds`, `EveryRunEnds`, `OwedIsSettled`,
  `AckedStopEndsCapture`, `CaptureIsStoppable`, `EnrolmentEnds`, `UpdateLands`,
  `EndpointCatchesUp`; the prover does not handle fairness of actions;
- the half of `StuckOnlyWhenHeld` that uses ENABLED: that a reader at one of the steps
  of `Onward` has an action. That a reader is at such a step unless a push waits for
  chunks or a process holds its output is `ReaderGoesOn`.

No module that is proved about has a RECURSIVE operator.

## 6. Not modelled

- Content and arithmetic: frames, scripts, samples, statistics of the baseline,
  layout of reports, cryptography beyond who signed what, the SMTP dialogue.
- The metrics store and read-only queries; HTTP routing and rendering; collectors,
  hardware inventory, screen capture and event-log readers, which are inputs; the
  frontend; generated code; the end-to-end harnesses.
- Windows backends other than the executable that cannot be replaced while it runs.
- Inventory and patch commands, which no caller can send (section 4).
- What a data race does to a value of several words: a field of a policy that is read
  while it is written is read old or new, never torn.
- More than one flow, playbook, series, endpoint or user name at a time: they meet
  only in loops over rows that are independent of each other.
- The notification router, which no code calls, and schedules of flows and reports,
  which no code triggers.
