# TLA+ specifications of trakrai

trakrai runs a set of services on an edge device (Go and Python processes beside
the cameras) and a cloud side (web application, live gateway, workflow scheduler).
On the device every service talks to one hub, **cloud-comm**, over a Unix socket;
cloud-comm talks to the cloud over MQTT and to local browsers over WebSockets.
These modules model the parts of the device that carry its protocols and its
durable work, and the web side: the gateway, the browser's end of it, the pages of
a device, the workflow editor, scheduler and executor, access control and the
administration pages. TLC checks them on small instances; TLAPS proves the central
claims about the device's services, the gateway and the pages of a device for every
instance.

## 1. The system

```
 cloud ──MQTT── cloud-comm ──Unix socket── live-feed, video-recorder, cloud-transfer,
 browser ─WS──  (IPC server, MQTT client,   ptz-control, roi-config, runtime-manager,
                 edge WebSocket server)     audio-manager, workflow-engine, ai-inference

 browser ── live-gateway ──MQTT── cloud-comm        (live-transport, viewer, panels)
 browser ── web application ── Postgres, OpenFGA    (access control, pages, tables)
                    └── workflow scheduler (Redis), workflow executor (Inngest)
```

| component | state | operations | what is hard | what makes it correct |
|---|---|---|---|---|
| **cloud-transfer** (`device/internal/cloudtransfer`) | a SQLite table of transfers; worker goroutines | enqueue; expire; claim the next due row; move the data; write the verdict; repair on start | several workers, restart at any point, retries against a deadline, a statement that fails | one owner per transfer; nothing lost or stuck; `completed` means delivered; deadlines honoured |
| **IPC client** (`device/internal/ipc/client.go`) | the connection and its generation, the ready channel, the table of pending requests | request with retry, read loop, reconnect loop, Close | callers, read loops, reconnect loops and Close share everything; timeouts against late answers | one loop; no double close; no waiter forgotten; every call returns |
| **IPC server** (`device/internal/ipc/server.go`) | registry of services, table of statuses | register, report, publish, notify, unregister | a handler outlives the connection it serves; registration is visible before it is answered | the registry points to live handlers; a service that is gone shows as gone, one that is there does not; no command vanishes |
| **MQTT client** (`device/internal/cloudcomm/mqtt.go`) | the current paho client and its generation, the ready channel | publish with retry, reconnect loop, connection-lost handler, health monitor, Disconnect | the loss of a connection is noticed by three parties at different times | one loop; no client left connected behind the service's back; it reconnects; every publication returns |
| edge WebSocket server (`cloudcomm/edge_ws.go`) and publisher (`publisher.go`, `service.go`) | clients, owners of requests and sessions, rate windows | dispatch, broadcast to the owner or to all, removal of a client | a client leaves while its request is under way | answers reach the owner only; a client that leaves takes its live sessions along |
| response router (`ipc/requester.go`) | waiters by request id | request, dispatch | lost, late or foreign answers | a waiter gets its own answer, and does not wait for ever |
| live-feed (`device/internal/livefeed`) | table of WebRTC sessions, disconnect timers, frame pumps | start, stop, update, answer, ICE, connection callbacks | start and stop run concurrently; timers and callbacks of replaced sessions | a stopped session is gone; a session nobody watches ends |
| video-recorder (`device/internal/videorecorder`) | ring of frames over segment files, job table, job queue | collect, prune, capture, record, upload and wait | files removed while they are read; a worker waits for the upload | a clip holds the frames asked for; workers come back |
| audio-manager (`device/python/audio_manager`) | SQLite table of jobs, bounded queue | play, deduplicate, requeue on start | restart, queue full, deduplication window | every accepted job is played or reported |
| Python service runtime (`device/python/trakrai_service_runtime`) | pending requests, reader thread | request, read, close | reader thread ends while a request is registered | every request returns |
| runtime-manager, roi-config, ptz-control, workflow-engine | configuration files, systemd units, graphs | update, reconcile, save, evaluate | one step of several fails | a failed update leaves a usable configuration |
| **live-gateway** (`web/apps/live-gateway`) | clients, subscription counts, owners of requests and sessions, rate windows | connect, subscribe, route, rate-limit, clean up | handlers installed after two awaits; SUBSCRIBE and UNSUBSCRIBE answered late or not at all | a client that is gone leaves nothing behind; no window is exceeded |
| **live-transport client** (`core/trakrai-live-transport`) | socket, reconnect timer, bounded queue, pending requests, what is shown of the device | send, answer, time out, switch device or URL, reconnect | sockets close out of order, effects re-run | every request settles; one socket; the right device is shown |
| **service contracts** (same package, generated) | calls waiting for an answer | call, recognise, hear events | answers in any order; errors told by their name | a call ends with its own answer |
| **live viewer, WebRTC, camera wall** | session, request ids, peer connections; layout, page, selection | start, stop, update, offer, connection changes; page, select | awaits inside an offer; late answers; cameras vanish under a page | the one open peer is the current session's; the wall shows the selection |
| **PTZ, runtime-manager, audio, transfer and ROI pages** | cached answers, drafts, pending commands | press, release, save, enqueue, draw, refresh | answers late, lost, in another order; a camera or service switched meanwhile | the page comes to agree with the device |
| **workflow scheduler** (`web/apps/trakrai-workflow-scheduler`) | BullMQ schedulers, jobs | reconcile, announce, fire, retry, shut down | passes overlap; a request times out after it took effect | a quiet pass leaves exactly the stored triggers |
| **workflow executor** (`trakrai-workflow-inngest`) | results, waits, events of one run | wait, decide, execute, emit | nodes in parallel, modes all and any, failures | a node runs only on satisfied dependencies |
| **workflow editor, validator, blocks, cron builder** | chart, callback queue, trigger rows, projection, form | edit, lay out, validate, collapse, scope, save a template | callbacks behind the edits; network waits with the editor live | what is stored is what was drawn |
| **runs tab, manual trigger** | selected run, overlay, caches; trigger list, dialog | poll, select, leave; pick, type, confirm | lists and traces change under the dialog and the overlay | one run shown; the run started is the one confirmed |
| **access control and its views** (`core/trakrai-backend`) | Postgres rows, OpenFGA tuples | create, move, delete, install, grant; list, count | no transaction over both stores; handlers overlap and fail | tuples mirror rows; pages agree with each other and the checks |
| **bootstrap scripts, OpenFGA state** | rows, tuples, catalog; store and model of a process | seed, clear, install; find or create | deaths between steps; processes start together | scripts converge; only this release's model is served |
| **storage sessions, package catalogue** (`package-artifacts.ts`, `lib/storage`) | objects of one shared bucket, the promise of the bucket check | sign an upload or a download, list releases | requests share a check that may fail; processes create the bucket at once; paths come as text | owners do not share objects; a failure does not stick; the newest release comes first |
| **data tables, administration pages** | filters, URL, debounce; rows, dialogs, calls | filter, page; edit, grant, impersonate | one timer for all filters; refreshes remount cells | what is shown is what was asked and saved |
| rtsp-feeder, ai-inference, Go contracts, remaining web UI, devtool | — | I/O, numerics, presentation, build | — | not protocol state |

`PROJECT.json` lists every component with its files and status, and the hazards:
the places in the code where an order nobody tested can hurt, with the properties
that would show it.

## 2. Plan

Modelled, in this order, because everything else on the device hangs on it:

1. `CloudTransfer` — the durable queue; `CloudTransferProofs`.
2. `IpcClient` — the client end of the socket; `IpcClientProofs`.
3. `IpcServer` — the server end, with the client's reading of the stream;
   `IpcServerProofs`.
4. `MqttService` — the way to the broker; `MqttServiceProofs`.

5. `TransferQueue` — what cloud-transfer promises, as an abstract queue;
   `CloudTransfer!ImplementsQueue` says that the table and its workers implement it.
6. The web side, one module per component (section 3), composed in `MCWebLive` and
   `MCWebPlatform`; `DevicePagesProofs` for the pages of a device, `LivePagesProofs` for the
   gateway, its rate limit and the live pages, `AdministrationProofs` for access control,
   bootstrap, tables, pages and storage, `PlatformProofs` for the other parts of the platform
   and the whole.

To come, on the device: `VideoRecorder` with the response router, composed with
`TransferQueue`; `LiveFeed` (sessions, start and stop in any order, disconnect timers)
and `EdgeServer` (ownership of requests and sessions); `AudioManager` (job table,
bounded queue, restart, deduplication); the Python IPC client; `RuntimeManager`; the
composition of `IpcClient` and `IpcServer` with the contents of statuses.

## 3. The modules

### CloudTransfer

| state | code |
|---|---|
| `rows` | the `transfers` table: `state`, `attempts`, `deadlineAt`, `nextAttemptAt`, `lastError`, creation time (`store.go`) |
| `worker` | the locals of `workerLoop` and `processTransfer`: where it is, the instant it read, the transfer it holds, the verdict to write |
| `proc` | how far `Run` has come: `down`, `reset`, `expire`, `up` |
| `delivered` | transfers whose data has really been moved (the world, not the program) |
| `now`, `crashes`, `faults` | the clock and the bounded adversaries |

Every SQL statement is one step, which is what SQLite gives; everything between two
statements may interleave with the other workers. `Start`, `RunReset` and
`RunExpire` are `Run`; `Wake`, `ExpirePass`/`ExpireFails`,
`AcquireDueTransfer`/`NothingDue`/`AcquireFails`, `CheckDeadline`,
`MoveSucceeds`/`MoveFails` and `WriteVerdict`/`WriteFails` are one turn of a worker;
`Enqueue` is a request; `Crash` takes every goroutine and leaves the table.

Instants are ticks. The store compares them as RFC3339Nano text, which drops
trailing zeros, so that a whole second sorts *after* its own fractions; `TextRank`
and `TextLeq` are that order. (The fraction is one digit here; with nine digits the
error is the same in kind and far rarer.) The clock does not run backwards.

`TransferQueue` is the promise without tables, clocks or restarts: a transfer is
accepted once, is in one worker's hands at a time, may come back open, and is settled
for good. Under the mapping of `StatusOf` a transfer that a worker holds is open
whatever its row says: an expiry pass may already have failed the row, and the worker's
verdict will replace that. A row left running by a failed statement or a crash is open
with nobody holding it.

Abstracted: paths, object keys, presigned requests and HTTP become the outcome of a
move (delivered or not, temporary error or permanent one); `get`, `list`, `stats` and
status reports change nothing.

### IpcClient

`conn`/`ready` are the connection and its ready channel, `reconnecting`/`loop` the
flag and the goroutines, `pending`/`chan` the table of pending requests and their
channels, `pc`/`on`/`attempt` the callers and the read loops, `wire`/`answers`/`served`
the server as the client sees it. Each critical section of `stateMu`, `pendingMu` and
`reconnectMu` is one step, so `markDisconnected` is three (`Detach`, `FailPending`,
`Ensure`) and `Close` is three. A caller's attempt is `WaitForConnection`, `Register`,
`WriteLine`, then `Receive`, `TimeOut` or `SeeClosed`. The id of a request is its
caller and attempt: ids are taken as distinct, where the code reads the clock.

### IpcServer

`handler`, `services` and `statuses` are the server; `side`, `inbox` and `outbox` the
sockets and the client's end. A client has one connection at a time, but the handler
of an abandoned one goes on: it reads what is buffered, answers into the void, and
unregisters at the end. `ReadRegistered(c, m)` takes `m` frames off the stream:
`registerService` reads through a `bufio.Reader` that it drops. `Lookup` and
`WriteNote` are the two halves of `sendNotification`. The server itself does not die,
and the sockets have no capacity.

### MqttService

`client`/`ready`/`closed` are the fields of `MQTTService`, `loop`/`fresh` the reconnect
loop and the client it has just connected, `live` the clients for which `IsConnected`
holds. A broken connection leaves `live` at once; its connection-lost handler runs
`markDisconnected` (`Detach`, `CloseOld`, `Ensure`) some time later — paho first waits
for its own workers. `WaitForClient`, `Woken`, `TimeOut`, `TryPublish` and `Retry` are
`PublishEnvelope`. `waitForClient` reads the client and tests `IsConnected` in one step.
The paho library is modelled by what this code uses of it.

### The web modules

The browser, Node and React run one callback at a time; a step of these modules is a
callback, a handler between two awaits, or an effect with its cleanup. What the code
awaits — sockets, fetches, MQTT, Redis, Postgres, OpenFGA, timers — answers in any
order the transport allows, late, with an error, or never. React's rules are kept: an
effect re-runs when a dependency changes, its cleanup first, and state set in a
callback is seen from the next render on.

| module | models | state | left out |
|---|---|---|---|
| `LiveGateway` | `ws-handler.ts`, `mqtt-client.ts` | `clients`, `subscriptionRefs`, `requestOwners`, `sessionOwners`, `limiters`; the broker's side in `wire`/`subscribed` | token contents, packet filtering |
| `GatewayRateLimit` | the two sliding windows | instants, limits | |
| `LiveTransport` | `live-client.ts`, `live-transport-provider.tsx` | sockets, timers, queue, `pendingRequests`, `promise`, `view` | discovery, logging |
| `ServiceContracts` | generated contracts, `service-contract-runtime.ts`, typed hook | `calls`, answers under way | types of fields |
| `LiveViewer` | `use-live-viewer.ts`, `webrtc-provider.tsx` | request, session and peer references, peers | SDP, ICE |
| `LiveLayout` | `live-layout-utils.ts`, `device-live-page.tsx` | layout, page start, selection, enabled cameras | |
| `PtzController` | `use-ptz-controller.ts` | button held, active direction, commands on their way, cameras moving | positions, zoom ranges |
| `RuntimeManagerPanel` | `use-runtime-manager.ts`, the panel's editor | definition cache, draft, mutation, what is installed | binary upload, logs |
| `DevicePanels` | audio-manager and cloud-transfer panels | query cache, cards, jobs of the device | layout of the cards |
| `RoiConfigurator`, `RoiCanvas` | `device-roi-page.tsx`, `use-roi-config.ts`; `roi-video-editor.tsx` | document, saves and refreshes under way; frame, pointer, draft box | colours, preset names |
| `CronScheduler` | the scheduler application and the cron trigger's announcements | stored and scheduled triggers, passes, a job | BullMQ beyond its use |
| `CronBuilder` | `cron-builder.tsx` | the form, the stored expression | wording |
| `WorkflowRun` | `workflowAutomation.ts` | phase of each node, results, completions, events | what a node computes |
| `WorkflowGraph`, `WorkflowEditor` | the validator; the editor's state and the trigger callbacks | chart, callback queue, trigger rows | other field editors |
| `WorkflowBlocks` | `block-utils.ts`, `blocks-context.tsx`, the block tabs | raw chart, blocks, scope, uploads | the second coordinate |
| `WorkflowRuns` | the runs tab and the canvas overlay | selection, caches, overlay, the engine's runs | the generated GraphQL types |
| `ManualTrigger` | the run button and its API | trigger list, dialog, request, runs started | schema details |
| `AccessControl`, `AccessViews` | `lib/authz`, the access-control, devices and workspace routers | rows, tuples, handlers under way; the listings as operators over them | search, ordering, paging |
| `LocalBootstrap` | the bootstrap and seed scripts | rows, tuples, catalog, script position | passwords |
| `AuthzState` | `openfga-state.ts` | stores, models, promises of each process | |
| `PackageStorage` | `package-artifacts.ts`, `s3-compatible-provider.ts`, `deviceProcedure`, `factory.ts` | objects, bucket, `ensureBucketExistsPromise` of each process, requests, signed requests | the provider's unused operations, contents of objects |
| `DataTable` | `use-data-table.ts` and the filter controls | filters, URL, pending update, page | sorting, column visibility |
| `ManagementPages` | the access-control pages, `mutation-modal.tsx`, `dynamic-form.tsx` | rows, dialogs, calls, refreshes | user search |

`MCWebLive` and `MCWebPlatform` compose them. These components share no variable: what
one sends another over the network is in each module its environment's choice. A
behaviour of the composition therefore exercises one component (`part` says which), with
the others at rest, and the run explores the union of their behaviours; exploring the
product would multiply states without adding an order of events that a property could
tell apart. `AccessViews` reads the state of `AccessControl`, and `WorkflowEditor` uses
`WorkflowGraph`, directly.

Several modules carry a history variable that marks a race the code does not close
(`races`, `strayed`, `raced`, `disturbed`, `crossed`, `reframed`, `mpStray`, `dtDropped`, `unseen`,
`failed`, `shared`). The properties hold outside those marks; each mark is set only by
the steps its comment names, and section 6 lists what happens inside it.

## 4. The runs

| run | module | bounds | shows |
|---|---|---|---|
| `ct_queue` | CloudTransfer | 2 transfers, 2 workers, two and a half seconds of half-second ticks, 1 crash or 1 failed statement | `ImplementsQueue` (the refinement of `TransferQueue`), `NoDoubleClaim`, `NotEarly`, `StrandedOnlyByFaults`, `CompletedIsDelivered`, `SettledIsFinal` |
| `ct_liveness` | CloudTransfer | 1 transfer, 2 workers, a timeout of three ticks or none, 1 crash, 1 failed statement, fair | `DeadlineSettles`, `DueIsTaken` |
| `ipc_shared` | IpcClient | 2 callers, 3 connections, 1 drop | `OneReconnectLoop`, `NoPanic`, `FailsOwnConnection`, `WaiterIsReachable` |
| `ipc_calls` | IpcClient | 1 caller with 1 or 2 attempts, 4 connections, fair | `ServedPerAttempt`, `CallsReturn`, `LoopConnects` |
| `ipc_lost_reconnect` | IpcClient | no caller, 2 connections | **violated**: `Reconnects` |
| `ipcs_registry` | IpcServer | 2 services, 3 connections, 1 notification, fair | `RegistryIsLive`, `GoneIsReported`, `OnlyOwnEntryDropped`, `AbsenceShows`, `ReaderGetsItsNotes` |
| `ipcs_status` | IpcServer | 1 service, 2 connections | **violated**: `DisconnectedMeansGone` |
| `ipcs_swallow` | IpcServer | 1 service, 2 connections | **violated**: `NoNoteSwallowed` |
| `mqtt_client` | MqttService | 1 publisher, 5 clients, 2 drops, fair | `OneReconnectLoop`, `NoClientLeft`, `OnlyOwnClientDropped`, `SentPerAttempt`, `PublicationsReturn`, `Reconnects` |
| `mqtt_replace` | MqttService | 1 publisher, 2 clients, 1 drop | **violated**: `ReplacesClient` |
| `web_live` | MCWebLive | see below | `GatewayServesItsClients`, `LivePagesKeepTrack`, `DevicePagesShowTheDevice` |
| `web_platform` | MCWebPlatform | see below | `WorkflowIsKeptAsDrawn`, `RunIsWhatTheChartSays`, `AccessFollowsTheRows`, `PagesShowWhatWasAsked`, `AnswersAreExact` |

One run of each component also checks its `TypeOK`; `WebLiveTypeOK` and
`WebPlatformTypeOK` are those of the web modules. Each of the eight composite properties
is a conjunction with one named invariant per component, stated and explained in the
component's module, and has one mutant for each of them.

**Why the bounds are enough.** Every property of the transfer queue speaks of one row
and at most two workers, or of one row and its restarts; a second transfer is there so
that the order of claims matters, and two and a half seconds hold a deadline, a retry that fits
before it and one that does not. In `IpcClient` three connections let a caller, a read
loop and a reconnect loop each stand on a different one; in `IpcServer` three
connections let a service abandon one, use the next and share the server with another
service. In `MqttService` five clients are one for the start, one for each drop and one
for each unacknowledged attempt, so that the bound never keeps a loop from connecting,
which `Reconnects` depends on; the second party that notices a loss is the monitor or a
handler, so one publisher is enough.

On the web side the bounds are on turns of the user or the device, not on the answers in
flight. The gateway has three sockets of two tabs on one device, so that a tab
reconnects while another watches; the rate window is two ticks with limits up to four.
The transport client may use three sockets over two clients, with a queue of two.
Two or three requests (viewer, contracts, PTZ, ROI, panels) are
what it takes for an answer to be late. The workflow runs use three charts of up to four nodes
with both modes, events and timeouts; the editor two triggers and two tasks with two edits, blocks
three nodes and a copy of two, the scheduler two triggers, two overlapping passes and
two attempts. Access control has two factories, a department, a device, a user, a sysadmin and two
handlers at once, which is enough for a move to overlap a move or a deletion; the
bootstrap two scripts over objects made by hand, so that one may die and the next repair.
The storage has three requests at a time of two processes, of which two are made, over an
empty bucket or one that holds more than a page (two) of objects.
Tables have one column of each kind and three turns; of the administration pages the users,
devices and apps pages are run, with two rows and two calls at once (what the factories and
departments pages offer, the devices page offers too).
None of the runs checks deadlock: each system may
rest when the bounded inputs are used up.

**Fairness.** Each goroutine that can take its next step does (weak fairness per
worker, caller, loop, handler): the waits all have timers, `busy_timeout` is finite, and
the Go scheduler is fair. The clock runs and the supervisor restarts the process. What
the environment does (requests, crashes, failures, lost connections, Close) is never
fair. In `IpcClient` a dial tried again and again succeeds in the end, since the server
is a local process that is restarted. `MqttService` assumes nothing of the broker:
`PublicationsReturn` holds without one, and `Reconnects` states the assumption itself
(`BrokerAccepts`). Its `TimeOut` is strongly fair because `select` picks at random among
ready channels; with weak fairness TLC shows `waitForClient` spinning for ever on the
closed ready channel of a lost client.
The web runs check safety only: most of what a page waits for is another machine's, and
the code promises no more than a timer, which `RequestsAccounted` states as a safety
property (a request is open exactly while its timer is armed).

### What the violated runs show

* `ipc_lost_reconnect`: a connection lost between the start of its read loop and the
  reset of `reconnecting` finds the flag set, starts no loop, and nothing starts one
  later. `MqttService` has the same window and closes it with its health monitor.
* `ipcs_status`: `unregister` compares the registry entry before it deletes it but not
  before it writes the status, so the late end of an old connection marks a connected
  service as stopped.
* `ipcs_swallow`: a service is in the registry before its registration is answered, and
  the client takes the first line for the answer and drops what was buffered behind it;
  a command routed at that moment is lost without an error.
* `mqtt_replace`: `activateClient` closes the ready channel before it deals with a client
  that is still in place, whose channel is already closed: the process panics.

## 5. What is proved

`CloudTransferProofs` proves, for every set of transfers and workers, every resolution
of the clock, every pair of backoffs and any number of crashes and failures:

| theorem | says |
|---|---|
| `Invariance` | the inductive invariant `IInv` |
| `TypeCorrect` | `[]TypeOK` |
| `MutualExclusion` | `[](NoDoubleClaim /\ OnlyExpiryTakesBack)` |
| `Delivery` | `[]CompletedIsDelivered` |
| `TextOrderBound` | text comparison errs by less than a second, for expiry and for claims |
| `Settled` | `SettledIsFinal` |
| `Refinement` | `ImplementsQueue`: the service implements `TransferQueue` |
| `StrandedBound` | `[]StrandedOnlyByFaults`, for finite sets of transfers and workers |

Assumptions: a second has at least one tick; `0 < InitialBackoffSec <= MaxBackoffSec`,
as `LoadConfig` forces; timeouts are positive, as `parseTimeoutWindow` forces; the null
values are not values.

`IInv` is `TypeOK` with `DownIsIdle` (no worker exists before the start-up repairs are
done), `WorkerShape` (where a worker stands determines what it holds and what it will
write), `RowShape` (a waiting row has a time to wait for; `expired` is the error of
failed rows whose deadline is less than a second away at most), and the three safety
invariants. None of these is inductive alone. `NoDoubleClaim` needs that a row in a
worker's hands is `running` or expired, which is `OnlyExpiryTakesBack`; that in turn
needs `NoDoubleClaim` when another worker writes its verdict, and `DownIsIdle` when the
start-up reset turns running rows back into queued ones. `CompletedIsDelivered` needs
`WorkerShape`: the verdict `completed` is reached only through `MoveSucceeds`. The two
bounds rest on `TextLeqBound`, which needs that a shift by a whole second keeps the
fraction (`ShiftMod`). `StepInv` has a lemma per group of actions; `ExpireFacts` and
`ResetFacts` say what the two passes over the table do to one row. `StrandedBound`
adds a counting argument: no step but a failed statement adds a row to the stranded
ones (`StrandedShrinks`).

`Refinement` maps a row and the workers' hands to the status of a transfer
(`StatusOf`). `QueueStep` goes through the actions: enqueueing, claiming and moving the
data are `Accept`, `Take` and `Arrive`, a verdict written is `GiveBack`
(`GiveBackSimulates`), an expiry pass is `GiveUp` of every waiting row it fails
(`ExpireSimulates`), a crash is `Die`, and everything between two statements is a stutter
(`Stutter`, `StutterRows`). It uses `IInv` before and after the step: without
`NoDoubleClaim` a claim might give a transfer a second holder.

`MqttServiceProofs` proves, for every set of publishers, any room for reconnect loops
and any number of clients and lost connections:

| theorem | says |
|---|---|
| `Invariance`, `TypeCorrect` | `[]IInv`, `[]TypeOK` |
| `OneLoop` | `[]OneReconnectLoop` |
| `NoneLeft` | `[]NoClientLeft` |
| `SentBound` | `[]SentPerAttempt` |
| `OwnClient` | `OnlyOwnClientDropped` |

Its `IInv` adds to `TypeOK`, `OneReconnectLoop` and `NoClientLeft`: `FreshShape` (a loop
about to activate a client has one, without which activation could leave the service
with none), `HandlerShape` (the connection-lost handler of a client works on that client
and does not run while it is connected, without which a client that breaks could
overwrite the one step that was about to disconnect another) and `SentShape` (an attempt
that has not published yet has not sent yet, which is what makes `SentPerAttempt`
inductive). `OneReconnectLoop` is inductive by itself: `EnsureKeepsOne` says that whoever
asks for a loop leaves one or none behind. Assumed is only that publishers are not
numbers, since clients are. The module says nothing of `ReplacesClient`, which fails.

`IpcServerProofs` proves, for any services, connections and notifications:

| theorem | says |
|---|---|
| `Invariance`, `TypeCorrect` | `[]IInv`, `[]TypeOK` |
| `LiveRegistry` | `[]RegistryIsLive` |
| `GoneShows` | `[]GoneIsReported` |
| `OwnEntry` | `OnlyOwnEntryDropped` |

Its `IInv` adds to `TypeOK`, `RegistryIsLive` and `GoneIsReported` only `ConnShape`: a
connection has a handler, and belongs to a service, exactly when it has been dialled.
Without it a fresh dial could change the owner of a connection the registry already
points to, or add a service's first handler to those that have ended. `OwnEntry` follows
because the entry that `unregister` drops is its own, and its stream has ended. Assumed
is that `Nobody` is no service and `None` no connection. `DisconnectedMeansGone` is not
among the theorems: it fails.

`IpcClientProofs` proves, for every set of callers and any numbers of connections and
drops:

| theorem | says |
|---|---|
| `Invariance`, `TypeCorrect` | `[]IInv`, `[]TypeOK` |
| `SingleLoop` | `[]OneReconnectLoop` |
| `Panicless` | `[]NoPanic` |
| `FailsNoLaterConnection` | `[]FailsOwnConnection` |
| `NoWaiterMissed` | `[]WaiterIsReachable` |
| `AtMostOncePerAttempt` | `[]ServedPerAttempt` |

Its `IInv` adds to `TypeOK`, `OneReconnectLoop` and `NoPanic`: `ConnShape` (`readyCh` is
closed exactly while there is a connection, and a loop connects only while there is none:
hence activation never closes it twice), `DropShape` (until `Close`, one goroutine at a
time stands between detaching a connection and asking for a loop, and nobody connects
meanwhile: this is what makes `FailsOwnConnection` hold), `OnShape`, `PendShape` (an entry
of the pending table is its caller's present attempt with an empty channel, so that one
party at most gets to write or close it), and `WireShape` with `ServeShape` (the frames of
a caller that are on the wire or carried out are at most its attempts). Assumed: callers
are not numbers, since connections are; a call makes one or two attempts, as the code's
two callers of `request` do.

`LivePagesProofs` proves `GatewayServes == Spec => []GatewayServesItsClients` of the web
composition, for any sockets, devices, requests, settings, window and clock. Of the
gateway: `SocketShape` (which of a socket's tables may be filled at which stage of its
set-up), `RouteShape` (owner tables and the clients' own sets agree, and an id only one
socket has used is in that socket's hands) and `CountShape` (a failed SUBSCRIBE only ever
loses references) make `CountsItsClients` inductive; the counting steps rest on the
cardinality of the set of a device's clients, for which the sockets are assumed finite. Of
the rate limit: `GlInv` says that the timestamps kept are the accepted ones but for a
prefix older than the window, in order; that the number accepted in any interval of a
window's length is bounded follows because the messages counted by the interval that ends
now are among those kept. The three exceptions of the property are the code's and are marked
in it: `failed` devices, sockets whose set-up their close overtook, and requests whose owner
is gone or `shared`. Assumed: the defaults are positive, times are naturals.

`DevicePagesProofs` proves
`DevicePagesKeepToTheDevice == Spec => []DevicePagesShowTheDevice`, page by page:

* runtime manager, `RmInv`: a change carried out and not yet told is one of the service
  observed (`MutationShape`); an answer under way says what is installed unless such a
  change overtook it, whose success asks again (`AnswerShape`); a cached definition that is
  not marked is the installed one until a change of it is done (`DataShape`), except where
  an answer to a first load was overtaken (`unseen`): a first load is not asked again;
* audio and transfer panels, `DpInv`: the property itself is inductive once the refresh
  key stands as soon as a job was acknowledged;
* ROI configurator, `RoiInv`: as long as no refresh and save overlapped (`raced`), the
  stored document, the one shown, a save under way and an awaited answer each cover every
  edit reported as saved, at that edit or a later one, unless its deletion was asked for
  (`SaveShape`, `GetShape`);
* ROI canvas, `RcvInv`: a drag that started in the frame, not reframed since, draws a box
  in the frame. `Letterbox` and `FrameFits` are the integer arithmetic of the fitted frame;
* PTZ panel, `PtzInv`: a start on its way has a stop behind it or its camera is at hand and
  the page holds the button or knows of the move (`StartShape`); a camera that moves has a
  stop on its way, or it is at hand and the page knows of the move or, with the button
  held, is about to hear of it (`DriveShape`). `NoCameraRunsOn` alone is not inductive: it
  does not say which answers are still to come. `Rerender` shows once for all handlers that
  a render keeps both, given what the handler did to the commands; that the stop is behind
  the last start takes the greatest index, which `LeastFacts` gives (the naturals are
  well-founded). A failed stop leaves its camera moving: the page's catch forgets the
  direction, and the cleanup this causes sends one more stop, so the shapes survive unless
  that one fails too.

Assumed: what a status reports are cameras of the device; the initial ROI documents are
well formed; a canvas's container has a height and an aspect is positive; there is a
service version "removed" and a filter. All hold of the values the code starts with, and
TLC evaluates them in `web_live`.

`LivePagesProofs` also proves `LivePagesAccountForAll == Spec => []LivePagesKeepTrack` and, with
the invariants of the other proof modules, `WebLiveTypes == Spec => []WebLiveTypeOK`:

* live transport, `LtInv`: a client's current socket is one of its own, its handlers are in
  place exactly while it is the mounted provider's client, and it has no more reconnect timers
  armed than sockets closed (`ClientShape`); of a client whose effect ran once, a socket that
  lives is the current one with no timer armed, and it means to be connected only as the
  provider's client (`OnceShape`: this is `OneSocketPerClient` with what its next close event
  will find); "connected" is shown while the client in use can send (`ShownShape`); table,
  timers and promises of the requests agree, and the frame of a waiting request is out,
  queued or displaced (`RequestShape`). None is inductive alone: the close event of an old
  socket arrives after a new one was opened, and the queue is flushed only by the socket
  `ClientShape` names;
* live viewer, `LvInv`: on the way from the device are acknowledgements of what was asked
  and offers of sessions that were started, the acknowledgement first while the start waits
  for it (`WireShape`); unless two uses of the page raced (`races`), the refs belong to the
  ask under way (`RefShape`) and a session held has its peer or the answer it is fetching
  for it (`PeerShape`), which makes `ViewerFollowsPeer` inductive;
* camera wall, `LlInv`: the enabled cameras are a list without repetition. The property is
  then a fact about the derived values alone: `ClampFacts`, `VisibleFacts`, `PageOfCamera` and
  `SafePage` say where a page starts and what it shows, `ReorderFacts` that bringing the
  selected camera to the front loses none, `WholePages` and `NextPage` are the arithmetic of
  page numbers, `ListedExists` that the cameras of a status can be listed in order;
* service contracts, `ScInv`: a packet under way for a call is of the service called,
  carries what its type says, and as a response has a type the method expects (`AnswersFor`);
  a settled call was settled by a packet of its own (`CallSound`). What the contracts say is
  proved of the tables row by row (`PayloadsFit`, `ContractsFit`): every payload carries the
  request's id, exactly the error types carry an error, a method has one answer, and an
  event on the response subtopic carries what the answer carries (`ExpectedFacts`).

Assumed: the bounds are naturals and a queue holds at least one frame; calls are finitely
many; an ask is none of the words that stand for no ask; cameras are positive numbers,
finitely many, and every layout has room for a camera; request ids are positive.

`PlatformProofs` proves of the other composition, for any values of its constants (the
lemmas about access control, bootstrap, OpenFGA state, tables, pages and storage are in
`AdministrationProofs`, which it extends):

| theorem | says |
|---|---|
| `PlatformPartsInvariance` | the inductive invariant of each part, in every state in which that part is at work |
| `WebPlatformTypes` | `[]WebPlatformTypeOK` |
| `RunsAreWhatTheirChartsSay` | `[]RunIsWhatTheChartSays` |
| `WorkflowsAreKeptAsDrawn` | `[]WorkflowIsKeptAsDrawn` |
| `AccessFollowsRows` | `[]AccessFollowsTheRows` |
| `PagesShowWhatTheyWereAsked` | `[]PagesShowWhatWasAsked` |

Each part has three lemmas: its initial states satisfy its invariant (`..InitFits`), its
steps keep it (`..StepFits`), and its type invariant and its property follow
(`..InvEnough`). The invariants, and why the properties need them:

* executor, `WfInv`: stage, outcome and result of a node move together (`EndsAgree`);
  whom a node has heard of has completed unless a wait of it timed out (`HeardAreDone`); mode `any`
  holds a source while it looks at events (`ChoiceFits`); whom it has heard of it has
  queued, chosen or turned down (`RejectionsFit`), which is what justifies a skip once
  nobody is left; what started had its dependencies satisfied (`StartsFit`). What was
  satisfied or turned down stays so, because a result is written once;
* manual trigger, `MtInv`: the request under way carries what was confirmed, from the list
  of that moment; runs, `RsInv`: an answer kept is of its run at some earlier time, and a
  run only grows (`EngineFits`, `DetailsFit`, `TipsFit`), so an old answer shows no end that
  did not happen (`StatusTells`);
* scheduler, `CsInv`: the runs of a job are at most its attempts (`JobFits`); a pass that
  nobody disturbed still has ahead of it everything that Redis holds differently
  (`CleanFits`), so at its end nothing differs; while Redis is right, so are the lists of
  the passes under way (`SettledFits`);
* schedule builder, `CbInv`: what the builder wrote is a text that its own parser and printer
  give back (`Kept`), shown type by type; the form is a form (`IsForm`);
* editor, `EdInv`: the snapshots queued for callbacks form a chain that ends in the present
  chart (`ChainFits`), and the callbacks left of the batch under way lead from the rows to
  where that batch ends (`TodoFits`);
* blocks, `WbInv`: an edge that crosses a block has its ports there (`PortsFit`), also in the
  snapshot that saving will write back and in a template (`SnapshotFits`, `TemplateFits`).
  The projection then resolves to the edges it stands for by a case on which ends are in
  blocks;
* pages, `MpInv`: what is shown is the server's, or a refresh or refetch is on its way, or a
  call whose success will ask for one is (`RowsFit`, `GrantsFit`, `AppsFit`), or a call joined
  a first load already read, which marks the query (`mpStray`); tables,
  `DtInv`: a column whose filter the query string does not show has an update due
  (`DueFits`, `FollowsFit`), and a page number was chosen under the filters it stands beside
  (`PagedFits`);
* bootstrap, `LbInv`: foreign keys (`HierarchyFits`), tuples only about rows (`TuplesFit`), and
  for every position of the script what its deletions and insertions have already achieved
  (`ClearingFits`, `SeedingFits`, `CatalogFits`, `InstallationsFit`, `SysadminFits`,
  `ScriptFits`): a death may come at any of them;
* OpenFGA state, `FgaInv`: `BootFits` (who builds, builds on a store that is there with this
  release's model) and `RequestFits`;
* access control, `AcInv`: a department's or device's parent tuple always has its child
  tuple, through every overlap, since both are written and deleted in one call (`PairsFit`);
  an object that nobody overlaps has one request (`SoleFits`), and what that request has
  read is still what is stored (`SeenFits`); an installation the bootstrap made has its
  parent tuple alone (`bare`); tuples equal rows but for the part that the
  request under way has still to write (`RowsMirrored`, `InstallsMirrored`); a lone grant
  leaves one relation (`OneRelation`);
* storage, `PsInv`: a request that got past the check has a bucket (`BucketFits`); one that
  waits has a check under way, one that failed has a fault since it began (`AskFits`).

Assumed (`WfAssumption` and its like, all evaluated by TLC in `web_platform`): the charts
are charts over the nodes, and a node is not an event key; ids of different tables and of blocks and
nodes differ, null values are not values; nodes, rows and trigger sets are finite; bounds
are naturals and a job has an attempt; joining a text twice is joining it once, as
`join` and `split` are.

The attempts corrected the models where they were wrong:

* `RunsWhatItsChartAllows` once promised satisfied dependencies also in mode `all` after a
  completion timed out; the code goes on there. A third chart in `web_platform` shows it.
* `WorkflowBlocks` let a copy reuse an id that a dangling edge or a snapshot still names.
  `crypto.randomUUID` does not (`FreeClones`, `FreeBlock`).
* With three requests, two grants that overlap leave two relations, and a later update of
  the row, alone, cleared the mark that `TuplesMirrorRows` excused them by: the second half
  of the property now speaks of objects on which requests never crossed (`crossed`). A
  grant writes only what it did not see, an update of no row repairs nothing, a sysadmin
  is not asked for a relation, and removing an assignment needs no row.

Only model-checked: every liveness property (fairness is out of the prover's reach), and
`AnswersAreExact`: what the validator's walk, the listings, the keys and the sorted
catalogue compute is defined by folds over sequences and choices, and that a fold computes
what its reference says is induction over data. A lost connection of the PTZ panel leaves the requests to time out in any
order, since their order no longer counts (`PtzController!Disconnects`).

## 6. What the web models show of the code

None of these is forbidden by a property of a run; each is a behaviour the module
contains, and most were met as counterexamples to a stronger first version of a property.
Paths are below `src/web`, `BE` is `packages/core/trakrai-backend/src`, `WP`
`packages/trakrai-apps/trakrai-workflow-plugins/src`.

**Gateway and live pages**

* A socket that closes while its SUBSCRIBE is awaited ends unseen: `clients` and the
  count keep it (`apps/live-gateway/src/ws-handler.ts:695`). `docs/README.md:183` says
  that packets are forwarded to their owner; one whose owner has gone is sent to every
  client of the device, as is a session's before an answer has bound it. A
  gateway refuses a `set-device` for another device than the session was opened for
  (`ws-handler.ts:749`, `device/internal/cloudcomm/edge_ws.go:509`), which `LiveTransport`
  does not follow.
* `onclose` clears `this.ws` whichever socket closed (`live-client.ts:98`), and `connect`
  called twice leaves two reconnect timers (`:189`). Requests made in the commit that
  switches the device are rejected with the old ones (`live-transport-provider.tsx:438`).
  A typed request does not end on `service-unavailable`, which cloud-comm answers for a
  service that is not connected (`device/internal/cloudcomm/service.go:107`, `edge_ws.go:554`):
  its contract does not know the type (`use-typed-device-service.ts:173`), so the call waits
  for its timer.
* Nothing is checked again after the `await fetch` of an offer: a stop in between leaves a
  peer nobody refers to (`webrtc-provider.tsx:260`). A late failure of an older start-live
  closes the current session (`use-live-viewer.ts:385`); a layout update before the offer
  relabels the request the offer is expected for (`:415`); an idle viewer accepts any
  offer.
* The PTZ panel says "Hold a direction to drive the selected camera. Release to stop.":
  the cleanup of the effect stops a camera whose button is still held, when what the
  effect depends on changes (`PtzController!HoldKeepsDriving`, refuted likewise). A camera
  deselected before its start-move was answered is not stopped. A failed `stop-move` is
  reported as an error while the camera moves on (`device/internal/ptzcontrol/service.go:286`);
  the hook forgets the direction and tries once more through its cleanup
  (`use-ptz-controller.ts:331`), and if that fails too nothing is left but the time limit.
* A definition saved while its first load is under way is shown as it was before: the
  invalidation joins the load instead of repeating it (TanStack Query v5). The same holds
  for a grant made while the access dialog is loading
  (`access-control-scope-manager-modal.tsx:146`).
* The job list refetches without end once its refresh key is not 0
  (`audio-manager-job-browser.tsx:68`); text typed while a job is submitted is cleared
  with the form; an enqueue that timed out and is repeated queues two jobs.
* A failed `update-live-layout` is never answered (`device/internal/livefeed/service.go:159`),
  and an undecodable payload is answered without its request id (`roiconfig/service.go:92`,
  `ptzcontrol/service.go:163`): the page waits for its timer.
* A new ROI box overwrites the first one while none is selected (`device-roi-page.tsx:124`);
  a save made before the document was loaded replaces it (`:113`); a refresh and a save
  that overlap revert the page or the device (`use-roi-config.ts:59, 100`). A frame
  resized during a drag mixes two scales (`roi-video-editor.tsx:119`).

**Workflows**

* A reconcile pass that read its lists before an announcement removes the scheduler just
  made, until the next pass (`reconciler.ts:17`). A request that timed out after the run
  had started is retried and starts another (`queue.ts:59`).
* A node waits for an event only after its source has completed: an event sent before is
  missed (`workflowAutomation.ts:689`). Two nodes that wait for one event share its
  result, and the timeout of one overwrites it (`:342`). In mode `any` sources are awaited
  one after the other (`:618`). A completion event that cannot be sent turns a node that
  ran into a failed one (`:724`).
* `onLayout` writes back the snapshot it was started with (`use-fluxery-editor-state.ts:261`);
  a callback that throws drops the rest of its batch (`node-mutation-utils.ts:113`); a
  reconfigured source may leave an edge its types forbid.
* Creating a block writes back the nodes and edges of the click after an upload
  (`WP/blocks/sidebar-blocks-tab.tsx:84`); deleting a node inside a scope leaves its
  boundary edges (`block-utils.ts:566`); a scope that was emptied has no exit button.
* Opening the cron builder rewrites hand-typed ranges and steps
  (`WP/cron-builder/cron-builder.tsx:376, 483`); a yearly schedule reopens as custom.
* The runs router turns an empty trace result into `{}`, so that the poll for `''` never
  repeats and a workflow fetched too early is not shown (`sidebar-runs-tab.tsx:111`,
  `runs-router.ts:90`); completion spans are found by substring, which confuses node ids
  contained in one another (`inngest-graphql/helpers.ts:89`); the overlay stays when the
  tab is left.
* A trigger list that fails to load looks empty, and the run button then starts
  `manual:default` (`workflow-run-button.tsx:94, 168`); a payload typed while the only
  trigger is taken by default goes to whichever trigger is the only one later (`:105`).

**Access control and administration**

* Two moves of one object that overlap leave it two parents in OpenFGA
  (`BE/lib/authz/mutations.ts:155`), two grants for one user two relations (`:229`); a
  failure between the row and the tuples stays until the next update
  (`routers/access-control/router.ts:302`), and repeating `setInstallationState` does not
  rewrite the tuple (`:254`). The bootstrap writes an installation's parent tuple only
  (`scripts/lib/local-db-bootstrap.ts:346`), and nothing adds the child tuple later: a user
  with a relation on such an installation alone cannot navigate to its device
  (`BE/lib/authz/model.ts:134`). Creating a catalog entry and a device at once installs twice
  and fails on the unique index (`:94`).
* The departments count filters by `factory.id` without the join and throws
  (`queries.ts:126, 594`), so `AccessViews` lists departments without that filter;
  `getScopedAssignments` returns nothing when one of its id lists is empty
  (`assignments.ts:70`); the sidebar counts other devices' apps with the selected
  device's ids (`workspace/router.ts:656`).
* A seeding that dies between two deletions leaves a tuple until the next one
  (`scripts/seed-demo-data.ts:356`); two processes that start without a store each create
  one (`openfga-state.ts:128`).
* The catalogue asks the storage for 500 objects and sorts by version afterwards: storages
  list keys as text, where 1.10.0 precedes 1.9.0, so that beyond 500 objects releases are
  missing whatever their version (`BE/server/routers/package-artifacts.ts:253`). A key whose
  file name is empty, a folder marker, would fail the schema of the whole answer (`:24`);
  the keys of the model have names. A bucket
  that may not be seen (403) is created (`lib/storage/s3-compatible-provider.ts:284`). The
  row of a device is read before the bucket is awaited: a device deactivated meanwhile
  still gets its signed request (`BE/server/trpc.ts:166`).
* A filter cleared and another changed within the debounce time leaves the first in the
  URL (`use-data-table.ts:193`); text with spaces comes back with commas (`:198`).
* A refresh remounts the cells of a table and closes a dialog open in one
  (`access-control-devices-page.tsx:180`); saves send whole rows and overwrite concurrent
  edits; a failed impersonation still redirects (`access-control-users-page.tsx:110`).

## 7. What is not modelled

Clocks that jump; request ids that collide (`UnixNano`); the capacity of sockets and
of the notification channel, except that a blocked reader looks like an answer that does
not come; the contents of statuses, so that a replayed status overtaking a newer one is
not seen by any property; the death of cloud-comm as seen by `IpcServer`; TLS, topics and
payloads. A write on an IPC socket (`client.go:270`) has no deadline, and is
taken to end. The signal and the poll timer that wake a transfer worker are not state; they
justify the fairness of its claim. Enabling a component reads and inserts in one step, and
deleting a device's tuples of one installation likewise. In `IpcServer` nothing orders the
`register-service` of a connection its client has given up before that of the next one:
handled late it replaces the newer entry, and its own end then deletes it, so that a
connected service is no longer registered (`ipc/server.go:149`); the model contains that
behaviour, and no property forbids it. On the web side: `stop-live` on
`pagehide`, the validator's checks for repeated ids and unknown types, rendering,
styling, routing, authentication by better-auth beyond its use on the users page, logging,
the generated GraphQL types, and the UI primitives that keep no state of the program.

The device's components listed as planned in section 2 are not modelled yet, and
`PROJECT.json` gives the reason for the ones that will not be. What is hard in them, for
whoever continues:

* `cloudcomm/service.go:40`: with edge disabled a nil `*EdgeWebSocketServer` is passed as
  an interface, which then is not nil; `edge_ws.go:601, 676`: a client leaves between its
  start-live and the answer that would bind the session to it, or is removed by a failed
  broadcast while its reader still registers requests.
* `livefeed/service.go:140`, `webrtc.go:666`: start-live runs in a goroutine of its own and
  stop-live at once; a disconnect timer outlives the session it was armed for.
* `ipc/requester.go:68`, `videorecorder/service.go:580`: a lost answer blocks the caller,
  and with every worker so blocked every recording is refused; `buffer.go:183`: frames are
  chosen under the lock and read after it, while their files may be removed.
* `audio_manager/src/service.py:89, 301`, `store.py:44, 145`: the bounded queue at
  start-up, a crash between playing and marking, a deduplication window that renews
  itself, an error after `mark_completed`.
* `trakrai_service_runtime/src/ipc.py:152`: a request registered after the reader thread
  has ended waits for its timeout; `ipc/client.go:445`: a replayed status may overtake a
  newer one; `ipc/server.go:299`: a service that does not read blocks its writers;
  `cloudcomm/mqtt.go:272, 372`: Disconnect racing activation, and the spin behind a lost
  client (`PublicationsReturn` shows that it ends).

## 8. Running

```
tlc -workers 2 -config ct_queue.cfg MCCloudTransfer
tlapm CloudTransferProofs.tla
```

`PROJECT.json` names, for every run, the module, the configuration and the properties;
for every definition, the lines of the repository it models; and for every property, a
mutant of the model that TLC must reject. The mutants stand in the modules, each before
the definition it distorts.
