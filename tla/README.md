# A TLA+ model of the Eufy event gateway

The gateway (`src/eufy_event_gateway`) is a Node.js service between Eufy cameras and Home Assistant. It logs in to the
vendor's cloud, receives push events, keeps the state of every camera, and opens one media connection per camera on demand
for live viewers, still images, clips and diagnostics. This directory models its concurrent core in TLA+, checks it with
TLC and proves its main safety properties with TLAPS.

Paths below are relative to `src/eufy_event_gateway/src/` unless they start with `custom_components/`, `test/` (beside that directory) or `CHANGELOG.md` (the repository's).

## 1. Inventory

Everything runs on one Node.js event loop, so a stretch of code between two `await`s is atomic. What interleaves is promise
settlements, timers, stream and socket events, and HTTP calls; the operating system adds crashes.

| Component (source) | State | Operations | Interacts with |
| --- | --- | --- | --- |
| **LiveStreamManager** (`stream/live-stream-manager.ts`) | one session per camera: `state`, `start`, `stop`, `owned`, `source`, viewers, leases, recordings, `privateTrial`, snapshot process, stop and quiet timers | `addClient`, `captureSnapshot`, `withLiveSource`, `withActiveViewer`, `captureStartupSnapshot`, `recordClip`, `attachSource`, `markStopped`, `close` | calls the provider's `startStream`/`stopStream`; called by the server and by `streamStarted`/`streamStopped`; writes images to SnapshotStore |
| **EufyProvider, streams** (`provider/eufy-provider.ts` 2374-2866, 4079-4095) | `#streamStarts` (one ticket per camera), `#ppcsStreams` (one entry per camera), pending `#finalizeStream` continuations | `startStream`, `#startStreamOnce`, `stopStream`, `#finalizeStream` | creates and closes FirstPartyPpcsSession; calls `streamStarted`/`streamStopped` |
| **FirstPartyPpcsSession** (`stream/first-party-ppcs.ts`) | sockets, reassembly, maximum-duration timer, closing promise | `start`, `close`, `waitUntilClosed`, controls | camera; its output stream is the manager's source |
| **Composition root** (`main.ts`) | — | wires provider callbacks, manager, store, server; shutdown order | everything |
| **SnapshotStore** (`storage/snapshot-store.ts`) | image files and index files of two shelves, records in memory, write queue | `initialize`, `write`, `writeEvent`, `read`, `readEvent` | manager and push events write; server reads |
| VideoParameterSetCache (`stream/live-stream-manager.ts` 292-539) | last VPS/SPS/PPS of a stream | observe and prepend headers | manager |
| StartupSnapshotWarmup (`startup-snapshot-warmup.ts`) | queue, attempts, cooldown timer | enqueue, start, stop | `captureStartupSnapshot` |
| RecordingCache (`storage/recording-cache.ts`) | finished clips with age and size | put, get, clear | server |
| **GatewayState** (`domain/gateway-state.ts`) | device states, detection clear timers, the identities that may name a detection | `recordMotion`, `recordPerson`, `recordDetection`, `recordDoorbell`, `enrichPersonName`, `enrichDoorbellName`, `registerCamera` | provider, server |
| **PushClient**, McsParser (`mega/android-push/`) | socket, login, heartbeat, reply and reconnect timers, received identities | `connect`, frames, timers, `close` | Firebase; calls back MegaPushReceiver |
| **MegaPushReceiver** (`mega/push.ts`) | attempt and retry timer, registration flags, stored identity and received identities, save queue | `start`, attempts, retries, connect/disconnect/message callbacks, `close` | owns a PushClient; registers with MegaClient; reports to the provider; `mega-push.json` |
| **PushEventDeduplicator** (`provider/push-event-deduplicator.ts`) | recently seen events, and whether their picture was seen | `observe` | provider |
| **EufyProvider, events** (`provider/eufy-provider.ts` 5602-6049) | `#pictureOwners` (the visit of each camera), `#pushSnapshotQueues` (a promise chain per camera) | `#handlePush`, `#queuePushSnapshot`, `#recoverPushPicture`, `#retirePictureOwners` | called by MegaPushReceiver; downloads from the cloud or the HomeBase; calls GatewayState and `events.snapshot` |
| MegaClient (`mega/client.ts`, `mega/session-store.ts`) | cloud session | login, challenge, signed requests | vendor cloud |
| EufyProvider, startup and inventory (4337-4470) | generation counters, device tables | startup, refresh, shutdown | cloud, push, streams |
| **EufyProvider, HomeBase queue** (`provider/eufy-provider.ts` 4097-4120, 5780-5957) | `#stationOperations` (a promise chain per HomeBase) | `refreshStation`, siren, volumes and guard mode through `#queueStationOperation`; `#stopStationMedia` | opens a HomeBasePpcsSession (`stream/homebase-ppcs.ts`) on the station's one peer; stops the streams of its cameras; `startStream` waits for it |
| Camera control deadlines (`provider/camera-control-deadline.ts`) | timer and abort signal | run with deadline | controls |
| Owned startup recovery, NVR, doorbell and general RTC (`stream/`, `provider/`) | exclusive trials, second media routes | start, stop, trial | provider |
| E30 lock (`provider/e30-lock-*.ts`) | MQTT session, pending commands | connect, command, state | vendor MQTT |
| GatewayServer (`server.ts`), diagnostics, simulated provider | open responses | HTTP routes, SSE | manager, store, state |
| Home Assistant integration (`custom_components/eufy_event_gateway/`) | coordinator data, control queue, image cache | polling, SSE, controls | server |

### What is hard here, and what makes each part correct

* **A camera session** has viewers and six kinds of borrowers that join and leave one source while starts and stops are in flight. A
  start may be retired under its waiters; a stop may take seconds, and whatever arrives meanwhile must wait behind it; an
  idle timer stops the source; a private trial must stay alone even when it is aborted before its start has settled. Correct
  means: waiters are always answered, no start is current during a stop, the idle timer never stops a used source, every
  started source has an owner, private video is not retained.
* **The provider** runs a chain of awaits for each start (reservations, keys, the close of a previous session, the
  connection) while `stopStream` may cancel it at any point and another start may take its place. Correct means: at most one
  live PPCS session per camera, always the registered one; a cancelled start holds nothing; everything settles.
* **Together** they communicate by calls one way and by events the other way, with half a second between the end of a source
  and the report of its stop. Correct means: no live source without an owner, and no report that hits a newer viewer.
* **The store** replaces several files per write, one after the other, with crashes and failures between. Correct means: no
  older image than its metadata, a live still survives event images, revisions stay unique, the queue never stops.
* **Push delivery** has four timers around one socket, connections that die without a word, attempts that are started from three
  places, and messages that the server repeats until a login has named them, across restarts too. Correct means: always
  exactly one way to recover, one attempt at a time and none lost, a true report, no remembered event handed on twice, never a
  second Firebase identity.
* **Events** arrive several times, in any order, some with a name, some with a picture, while the camera is rebound, the
  inventory is loaded and the provider restarts; pictures take half a minute and come from two places. Correct means: pulses
  once per event, a name only with the event that carried it, the picture of the current visit and never that of a replaced one.
* **The operations of a HomeBase** are links of a promise chain, and each opens a control session on the same local peer that the
  station's cameras stream through. A read must stay away from a start that has no session yet, a write must first stop media that may
  be connecting or being replaced, a start must wait for the chain, and the END of one session must be sent before the next is opened.
  Correct means: never both on the peer, every operation settles whatever became of its predecessor, and every start too.
* **Startup**: generations that retire older continuations. Modelled as far as events depend on it (`Restart`, `LoadInventory`,
  `Register`); overlapping startups are not, see the plan.

`PROJECT.json` lists every hazard at its line with the properties that cover it.

## 2. Modules

| Module | Models | Corresponds to |
| --- | --- | --- |
| `LiveStreamManager` | one camera session under an arbitrary provider | a variable for each field of `Session`; an action for each stretch of code without an await |
| `EufyStreams` | starts and stops of one camera in the provider | `#streamStarts`, `#ppcsStreams`, `cancelled`; `job` is the await at which a ticket's chain stands |
| `StationLock` | what serializing a HomeBase promises | abstract: one peer, operations and media; no chain, no ticket |
| `HomeBaseOperations` | the camera's streams together with the operations of its HomeBase | `EXTENDS EufyStreams`; `stage` is the await of the oldest operation in `#stationOperations` |
| `LiveStreamSystem` | `LiveStreamManager` and `EufyStreams` composed | joint actions for calls and callbacks; the provider's freedom in `LiveStreamManager` is replaced by `EufyStreams` |
| `SnapshotStore` | durable images, with crashes | disk (`files`, `index`), memory (`records`), the write queue, `initialize` |
| `PushClient` | the Firebase connection under any network and server | the fields of the class; an action for each socket event, frame and timer |
| `PushReceiver` | the receiver around its client, with crashes | `EXTENDS PushClient`; `step` is the await at which `#runAttempt` stands; `disk` is `mega-push.json` |
| `EventFeed` | what the gateway promises about one camera's notifications | abstract: no queue, no timer, no delivery identity |
| `PushEvents` | those notifications from the delivery to the gateway state | `PushEventDeduplicator`, `#handlePush`, the picture queue, `GatewayState`; a handler is one action, an await ends an action |
| `MCLiveStreamManager`, `MCLiveStreamSystem`, `MCPushEvents` | symmetry, kinds of tasks and the events of a doorbell for TLC | |
| `LiveStreamManagerProofs`, `EufyStreamsProofs`, `HomeBaseProofs`, `LiveStreamSystemProofs`, `LiveStreamOwnershipProofs`, `SnapshotStoreProofs`, `PushProofs`, `PushEventsProofs` | theorems | |

### LiveStreamManager

Viewers are HTTP responses given to `addClient`; tasks are calls that borrow the source: `captureSnapshot` ("capture"),
`withLiveSource` ("operation"), `captureStartupSnapshot` ("startup"), `withActiveViewer` ("control"), and `recordClip` in its
public ("clip") and private ("trial") form. Both have a `phase`, the await at which their call stands: a startup capture or a trial that stops the
source itself is "retiring" until that stop has settled, and returns only then (`#stopNowIfUnused`). `EnsureStarted`,
`RetireStart`, `StopOwnedSource`, `ScheduleStopIfUnused`, `CleanupSource` and `Detach` are operators, as they are private
methods in the code, and the actions are built from them. `inflight` holds starts the provider still has to settle; a retired
one (`session.start` dropped, its waiters rejected) stays in `inflight` although the session has forgotten it. Snapshot
processes are `extractors`, named by the source they decode: they survive it.

The media data is reduced to what control depends on: that a source delivered data (`SourceData`), that an image reached the
store (`ImageStored`). Not modelled: which bytes go to which client, audio, the H.265 viewer transcoder, statistics. Whether a
clip's audio consumer exists is not tracked, so the guard of audio forwarding never limits a step. An observer that
retires a start from inside `attachSource` synchronously is not modelled.

### EufyStreams

A call of `startStream` either creates the camera's ticket or joins it; the ticket then passes `queued`, `keys`,
`replacing`, `ciphers` and `connecting`. After each await the code tests `current()`: the ticket is still registered and not
cancelled. `TicketFails` is every throw on the way. A session lives through `opening`, `open`, `closing` (END is being sent)
and `closed`; with `PeerMayEnd` it may also close by itself. Its output's end event runs `#finalizeStream`, which waits for
the closing and then calls `streamStopped`. Not modelled: NVR and doorbell routes, preparation, the repeated start of the
T8170 on lookup timeouts and of the T8113-Z on a silent peer, a camera that leaves the inventory while it is open.

### HomeBaseOperations and StationLock

The chain in `#stationOperations` is a number: what kind an operation is matters only when its body runs, so `operations` counts those
that have not settled and `stage` says what the oldest awaits. There `OperationRefused`, `BeginRead` and `BeginWrite` are the branches of
`#queueStationOperation` in its order: refused for want of an identity or during a recording retrieval, a read answered from the cache
when `ActiveMedia` holds, a read that opens its session, a write that first calls `stopStream` of the camera. That call is a second one
beside the `stopStream` of `EufyStreams` (the server's); `interrupted` is the session it waits for. `ReadKeysUnreserved` is the wait of a
start for the chain, which ends by the deadline (`TicketFails`) when operations keep coming. The control session itself is open or closing,
and an operation ends in the same way whether its commands succeed, fail or time out; what it reads is left out.

Names of calls and sessions are identities only: `NewCall` and `NewSession` take any that is free, with `CHOOSE`, which keeps the
instance small. For the same reason the end event of a session that was never reported is left out of `ended`: nobody listens to it.

`StationLock` says only that the peer has one user at a time and that operations settle as long as there are any. `media` is mapped to
the provider's entry, as in the code: a start that fails is forgotten at once, although its END may still be on its way (see the notes of section 5).

Not modelled: several cameras of one HomeBase, which `#stopStationMedia` stops side by side; the motion controls, with a reservation of their own;
recording retrieval, except that it refuses an operation; stations other than the T8010 and T8030, where `#stationHasActiveMedia` does not look
at pending starts; the state that a read brings.

### LiveStreamSystem

`EXTENDS LiveStreamManager` and instantiates `EufyStreams` as `P`. The calls of the session become calls of the provider in
the same step (`ProviderCalled`); `streamStarted` attaches the source, the output's end event reaches `SourceEnded`,
`streamStopped` runs `MarkStopped`. Private trials are left out (`PublicTasksOnly`), and so is a rejected `stopStream`, which
only the routes left out of `EufyStreams` produce.

### SnapshotStore

A write call joins the queue; its steps are the rename of the image, the record in memory, the rename of the index, and for
an event image the same again on the still shelf unless the still is live. `FailWrite` is any failed file operation, `Crash`
loses memory and queue between any two steps, and `Load`, `Repair`, `Migrate` are `initialize`. Images are numbered in call
order, which is all that the properties tell apart; a header repair replaces an image by the same number under a new
revision. `Read` takes the record at once; the file may be read at any time until the reader's next call. The initial states
are an empty directory and one left by an earlier version: an event image as still, with or without an event index, with or
without its old header.

### PushClient and PushReceiver

`socket` is `this.socket`; `net` says what became of every socket, `silent` which of them receive nothing any more, not even
their end. `closing` is also true while there is no client. `received` is the list of persistent identities, oldest first, of
which `Window` (100 in the code) are kept. On the other side, `held` are the messages that the server still keeps: it may
deliver them any number of times, until a login names them, and it forgets them when the client comes with another identity.

The receiver's callbacks run inside the client's events, so `ClientConnects`, `ClientCloses` and `ClientReceives` change
both in one step; `ClientAlone` is what the receiver does not hear of. The three flags that the code derives its reports from
(`registered`, `connected`, `disconnected`) and `failed`, `reregister` are variables as in the code, and `published` is what the
provider was told last. A queued save writes the state it finds when its turn comes, so one pending save (`saving`) beside the
running one (`draft`) stands for all. `close` returns when both are done, and only then does the provider start another
receiver; a crash may come at any time. `handed` and `repeated` are history variables for `HandedOnOnce`.

Not modelled: the parsing of frames (frames in one chunk of data are separate events; frames after a `destroy` in the same chunk
are not), back-off times and the count of login failures, which decide how long a wait is and what is logged, exceptions
thrown by `connect` itself, messages without a persistent identity or without an event, and a disk that loses a renamed file.

### PushEvents and EventFeed

An event is a name with constant attributes: whether it has an identity (`eventId`), a recording, when it was triggered, what
it stands for. A delivery adds what varies between repetitions: a picture and a label,
which is none, a generic one ("Stranger") or a recognized name: any label makes a style-3 button event a detection, and only a name is recorded.
`recent` and `pictureSeen` are the
deduplicator's two facts about an identity, which `Expire` forgets together. `owner` is the visit whose picture the camera shows,
`jobs` the promise chain of its picture downloads: the job of a visit that was replaced is "retired" (its controller is
aborted), and a job queued while no visit existed is checked against the lifetime only, as in the code. `stage` is the await of
the head job. `late` are downloads that a `Restart` left behind. `Headlines` gives the possible values of `lastDetection`;
it is a set because whether motion replaces a person depends on ten seconds of clock. A name stands for the event whose delivery
carried it, so that a name on the wrong event is visible; `camera` in a detection is a history of the binding it was recorded for.

`EventFeed` knows only what was announced, the visit, the picture, the headline and the pulses. An announcement may do all;
a repetition may add the missing name of its own event's headline and no more; a picture is shown for the visit of the present binding or for an
event that no visit claimed. `ImplementsEventFeed` says that every behaviour of `PushEvents` is one of it.

Not modelled: parsing of payloads, the 60-second window and the ten seconds as clocks, sensor and lock events, the E21 branch, the cap of
256 visits over all cameras, picture histories, and which bytes a picture has.

## 3. Runs

| Run | Instance | Shows |
| --- | --- | --- |
| `manager` | 1 viewer, 2 tasks of every kind, 2 starts, 1 source | the session's safety under any provider |
| `manager_fair` | 1 viewer, 1 task, 2 starts, 1 source | every borrower returns, isolation ends, the stop gate opens |
| `streams` | `HomeBaseOperations`: 2 calls, 2 PPCS sessions that may end by themselves, 2 operations | the provider's safety under interruptions; every start, stop and operation settles; the station's peer is never shared |
| `system` | 2 viewers, 1 task, 2 starts, 2 sessions that end only when closed | no orphan source; no report hits a newer viewer |
| `system_peer_ends` | 1 viewer, 1 task, 2 starts, 2 sessions that may end | the attached source is the provider's current session; who waits at the gate, for a final stop or for a start waits for provider work under way |
| `snapshots` | 1 camera, 1 reader, 4 writes | order, revisions, durable live stills, the queue |
| `push` | 2 sockets, 2 messages, 1 identity, window of 1, 1 retry | one way to recover, attempts, reports, delivery, identity; outages end and registration resumes |
| `events` | a doorbell with 3 events, 2 bindings, 3 deliveries, 2 lifetimes, 1 move | names and pulses; repetitions; the abstract feed; the picture queue drains |
| `late_stop_report`, `stale_image`, `torn_replacement`, `late_registration` | small | the findings of section 5 |

**Bounds.** Calls and sources are names that are used once, so their number bounds how often a behaviour may start the camera.
Two starts are the case that matters: one retired, cancelled or superseded, and its successor; a third meets the same
predecessor state as the second. One viewer beside two tasks gives every pair of users of different kinds, and two tasks of the
same kind. One source suffices in `manager`, since `source` is compared only with itself there and the names of a
cleared source are distinguished again in the composition, which has two. In `streams` two operations are one
whose body runs and one that follows it or is queued in the meantime; as soon as one has settled another may come, so that the chain never needs to run dry. Four writes allow two of each kind with a failed one between.
In `push` two sockets are the current one and one that was replaced or closed before, which is all that handlers compare; a name is
free again after its close event. With a window of one the second message pushes out the first; with one retry an attempt
fails both with and without a retry left. In `events` the three events are a recorded visit with a person, a later recorded press, and a style-3 button event without
identity and evidence, which its label makes a press, a motion or a person: every pair of older and newer, identified and not, recorded and not. Three deliveries are an event, another that
replaces it, and the late repetition of the first; a second lifetime and one move put a restart and a rebinding anywhere between.
The bindings are alike, so the run starts with the first or none.
The theorems of section 4 remove the bounds for most of the safety properties. Symmetry is used only where no liveness
property is checked. TLC's deadlock check is on in every run but `events`, where the bounds on deliveries, lifetimes and moves
let a behaviour come to rest.

**Fairness.** Weak fairness on continuations (the event loop runs a settled promise's reaction), on timers (Node fires
them), on the provider's settlement of starts and stops (the code bounds every wait by a timer: connection and key-read
timeouts, the 500 ms END wait), on the snapshot timeout and the end of recordings, and on the
callbacks of `withLiveSource` and `withActiveViewer`, whose controls carry deadlines. An operation of a HomeBase goes on: its lookup ends after 10 s, each command after 10 s
(`stream/homebase-ppcs.ts:51`, `:238`), its END after 500 ms; a start that waits for the chain gives up after 90 s
(`provider/camera-control-deadline.ts:41`). Nothing makes operations stop coming. Nothing makes
a viewer leave, a peer end or a crash happen or not happen. In `SnapshotStore`, a file operation ends, one way or the other. In
`PushReceiver`, timers fire, a destroyed socket reports its close, and a login wait (20 s) or a request to Eufy (30 s,
`mega/client.ts`) ends; nothing makes a connection succeed, a server answer or a silent socket speak again. In `PushEvents` the picture queue
moves on: a download ends after 30 s (`mega/client.ts:835`) or by its abort, a recovery by the deadlines of its session. Nothing
makes a delivery, a name or a picture come.

## 4. Proofs

TLAPS proves the following for all values of the constants, under `ConstantsAssumption` (users, starts and sources have
different names), `NamesAssumption`, `OperationsAssumption`, `PublicTasksOnly`, `BoundAssumption`, `ClientAssumption` (a window of at least one
message) and `ReceiverAssumption`.

* **LiveStreamManager.** `TypeCorrect`. `UsersCorrect` proves `UserInv`: a task holds its lease from its call until it returns or awaits its own final stop, a served viewer
  is in `clients`, and a client's close event is still to come. `StopTimerOnlyWhenUnused` needs it: a handler arms or spares the timer by looking at
  `clients` and `leases` alone, while the property also speaks of the awaits at which viewers and tasks stand. The timer's own part, that it is armed only while
  both are empty, is `TimerInv`. `WaitersCorrect` rests on `StartInv`: the
  only pending promise is that of the current start and the provider still has it, and who is starting awaits something;
  `NoOrphanWaiter` alone is not inductive because it says nothing of a pending start that nobody awaits, which the next
  caller may join; that nobody waits at the gate or for a final stop without a stop is a part of `UserInv`. `StopCorrect`, `OwnershipCorrect` and `IsolationCorrect` share `IsolationInv`, since ownership, stop gate and private
  isolation hold each other up: a stop may run beside a start only during isolation. `PrivateVideoCorrect` needs that a private
  source is suppressed from its attachment. `FreshImagesOtherwise`: if the process of a cleared source stored nothing (`OwnImagesOnly`, a condition
  on steps), `NoImageBeforeSource` would hold. Its `FrameInv` says that a call that awaits the current start has no image while
  the source is still to come; a source goes only together with its start, so nothing else needs a generation.
* **EufyStreams.** `ConnectInv` says that a live session is the entry, that a cancelled ticket holds none, that past the wait for
  the previous session the current ticket meets no live one, and that no two tickets connect the same session. From it
  `EntryCorrect`, `OnePeerCorrect`, `CancelCorrect`. `WaitsCorrect` is the safety that `EveryStartSettles` and `EveryStopReturns` rest on
  (`NoLostWait`): an unanswered call has joined a ticket at work, and a ticket that replaces a session, a finalization or `stopStream` waits for a
  session that was closed. Its `WaitInv` adds that the first caller of a ticket at work still waits, and that the current ticket is at work.
  That nothing waits for ever then, with fair steps, is what the run shows.
* **HomeBaseOperations.** `StationExclusive`: `HSpec => Lock!SafeSpec`, the safety part of `ImplementsStationLock`. It needs `StationInv`: from
  its turn on an operation meets no current start past the wait for the station, the session it stops stays the entry until it is
  forgotten, and from then until the end of the operation there is no entry. The first part is what the test of `ActiveMedia` for
  tickets is for: without it a read could open its session beside a start in its key reads. A start of the streams is one of `EufyStreams`
  (`StreamIsProvider`), so only the operations' own steps are new to `ConnectInv`; `InterruptedStreamsCorrect` concludes that types,
  `LivePeerIsEntry` and `CancelledStartHoldsNothing` hold under interruptions too. `StationWaitsCorrect` carries `NoLostWait` over: an operation closes
  sessions under the starts and stops that wait for them, and when it waits for a session itself, it waits for one it has closed.
* **LiveStreamSystem.** `SessionImplemented`: `SysSpec => Spec`. `ProviderImplemented`: `SysSpec => P!PSpec`. Every step of the
  composition is a step or a stutter of each part, so all theorems above hold of the system. The invariant is `Link`: the
  starts in flight in the session are the unsettled calls of the provider. `AttachedCorrect` adds to it that a source without a
  pending end event is the provider's entry. `NoOrphanCorrect` (module `LiveStreamOwnershipProofs`) holds when sessions end only if closed
  (`~PeerMayEnd`): its invariant `OwnerInv` follows a source from the connection over `attachSource` to the end event and the report
  of its stop, and says at each point who answers for it: a user, a stop, the idle timer, or the end that is still to come. With sessions
  that end by themselves the report of one may reach the viewer of the next, which is the first finding of section 5. Under the same
  condition `NewViewersSpared` proves `StopReportSparesNewViewers`: `OwnerInv` says that an entry whose session is over has a stop pending, and
  `GateInv` that a pending stop has no viewers, because it finds none when it begins and the gate keeps later ones out. The second part of `GateInv` is about a
  viewer whose wait at the gate is over: it registers without another look at `session.stop`, which is right only because whoever else runs first finds a viewer, or no owned source to stop.
  `UsersServed` proves `NoLostUser`, with or without `PeerMayEnd`, from the theorems about the parts and one fact about both, `StopLink`: the session has a stop
  pending exactly while the provider's `stopStream` runs. So the composition never refuses the session a call. `PartsSafe` names the
  invariants of both parts that hold of the system.
* **SnapshotStore.** `OrderInv` (records and index behind the files, files behind the queue), `LiveInv` (what the index calls
  live is live in memory and on disk; a still about to be written by an event is not live in memory), `ShelfInv` (an event
  still has an event record on disk before its own record can exist, so a migration never copies a live image), `RevisionInv`
  (returned revisions behind the index, index behind the records, equal revisions meaning equal images). From them
  `ReadersCorrect`, `LiveStillCorrect`, `EventShelfCorrect`, `RevisionsCorrect`. `TornOnlyByCrash`: if no crash came while the index on disk
  is behind its images, `ReplacementIsAtomic` would hold, however many writes fail and whatever a crash at another point leaves. Its `UntornInv` lets a
  record differ from its image only between the rename and the record of the write at work.
* **PushClient and PushReceiver.** `ClientImplemented`: `RSpec => ClientSpec`, every step of the receiver is one of its client or
  leaves it alone. `ClientInv` adds to `OneRecoveryPath` only that a closed client has no socket. The others need more than they
  say: `AttemptInv` (an attempt belongs to a running receiver with retries left, and receiver and client are attached together),
  `ReportInv` (who has given up an attempt has failed, which is what a later login reports), `IdentityInv` (until an identity is
  known nothing is saved or stored), `DeliveryInv` (client and receiver remember the same list, and all that was handed
  on is in it; this is where `RememberLemma` about the window is used). `Inductive` proves them together, because each leans on
  another; from it `RecoveryCorrect`, `AttemptCorrect`, `ReportCorrect`, `IdentityCorrect`, `DeliveryCorrect`. `ReadyUnlessLate`: if registrations
  were accepted only while the client is logged in, `ReadyByRegistration` would hold, since then who is registered is connected (`OnlineInv`).
* **PushEvents** (under `EventAssumption`). `EventFeedImplemented`: `Spec => ImplementsEventFeed`, with one lemma per action. It rests on `JobsInv`: a job called
  "current" belongs to the event that owns the picture. `NamesBelong` and `RepetitionsOnlyName` rest on `SourceInv`: the identities that
  may name a detection (`personOwner`, `doorbellOwner`) are those of the last detection of their kind, recorded for a camera that
  `registerCamera` has not replaced by another since; `NameBelongsToEvent` alone does not survive a late name. `TypeCorrect`, `MotionIsPulses` are inductive.

Four of these theorems are the complements of the findings of section 5, under a condition on the environment: the run shows the one
step that breaks the property, the theorem that no other step does. `NewViewersSpared` excludes sessions that end by themselves, `FreshImagesOtherwise` images
from a cleared source, `TornOnlyByCrash` a crash behind the index, `ReadyUnlessLate` a registration accepted during an outage.
The last three state it as a conjunct `[][...]_vars` beside the specification, so the properties are not claimed of the code as it is.

Only model-checked: all liveness (`EveryTaskReturns`, `IsolationEnds`, `GateOpens`, `EveryStartSettles`, `EveryStopReturns`,
`EveryWriteSettles`, `OutageEnds`, `RegistrationResumes`, `PictureQueueDrains`, `OperationsSettle` in `ImplementsStationLock`), which is out of the prover's reach.
Every safety property of a passing run is also a theorem.

## 5. Where the code and its documentation disagree

* **A late stop report closes a new viewer** (`late_stop_report`). `addClient` promises that "a retiring source finishes before
  registration, so its stop notification cannot close this new request" (`live-stream-manager.ts:600`). A PPCS session that ends by
  itself opens no stop gate, and its report comes up to 500 ms after its end: a viewer that arrives between loses its
  connection and its start. For stops that the manager asks for, the promise holds (`system`, `NewViewersSpared`).
* **A stale image answers a new capture** (`stale_image`). The snapshot process of a cleared source is still running; its
  image answers a capture that has begun afterwards ("capture one fresh JPEG", `live-stream-manager.ts:702`). Nothing else can (`FreshImagesOtherwise`).
* **An image is replaced without its revision** (`torn_replacement`). "Atomically replace a camera image and advance its
  revision number" (`snapshot-store.ts:86`) does not hold across a crash between the two renames: the new image is then served
  under the old revision, time and source, and a new live still whose old record says "event" is replaced by the next event. Failed writes and
  crashes at other points do no such harm (`TornOnlyByCrash`).
* **Ready without a repeated registration** (`late_registration`). "An established transport reconnect repeats token registration
  before the receiver becomes ready again" (`mega/push.ts:109`). When the connection is lost while the registration is on its
  way and the registration is then accepted, the next login reports "connected" at once: `#reregisterAfterReconnect` is set only if
  `#registered` was true before. A test (`test/push-receiver-state.test.ts:145`) expects this. It is the only way (`ReadyUnlessLate`).

Also noted, without a run:

* The header of `live-stream-manager.ts` says that the module enforces the maximum stream lifetime, which only the provider
  does, through the session's maximum duration.
* The deduplicator is "still accepting a thumbnail that arrives on a later delivery of the same event" (`push-event-deduplicator.ts:5`). A
  press of the button (event type 3103) that comes without its picture does not take the visit (`eufy-provider.ts:5661`); when the picture follows with a later
  identity, `#queuePushSnapshot` refuses it if another visit owns the camera, and `pictureSeen` is already set: the picture is lost for
  good. `PushEvents` has this behaviour; `EventFeed` promises no picture to such an event.
* A picture that was queued while the camera had no visit is published even if a visit has come since (`eufy-provider.ts:6012` checks the
  lifetime only for it). `EventFeed` admits it as `unclaimed`.
* `CHANGELOG.md:212` says that background reads "cannot open a competing session during live-view setup". While the start is
  pending that holds (`ImplementsStationLock`). A start that fails or is cancelled while it connects closes its session and forgets it
  without waiting for the END (`eufy-provider.ts:2820-2822`; only the T8113-Z waits), so an operation may open its session in the half second
  in which that END is still being sent. `#finalizeStream` avoids this for sessions that were reported ("keep the retiring source discoverable", 4087).
* A notification that arrives between the replacement of `#devices` (4384) and `registerCamera` (4416) is marked as seen and raises nothing,
  because the state does not know the camera yet; its repetitions are then taken for repetitions.

## 6. Plan

Done, in this order: `LiveStreamManager`, `EufyStreams`, `LiveStreamSystem` and their proofs; `SnapshotStore` and its proofs;
`PushClient`, `PushReceiver` and their proofs; `EventFeed`, `PushEvents` and the proof that the second implements the first; the joint
invariants of session and provider (`AttachedCorrect`, `NoOrphanCorrect`); `StationLock`, `HomeBaseOperations` and their proofs; who waits for whom
(`UsersCorrect`, `WaitsCorrect`, `StationWaitsCorrect`, `UsersServed`) and the gate before a stop (`NewViewersSpared`); the complements of
the other findings (`FreshImagesOtherwise`, `TornOnlyByCrash`, `ReadyUnlessLate`).

Left, most important first:

1. **Overlapping startups** (`eufy-provider.ts` 4337-4510): two generations and their receivers on one `mega-push.json`. `PushReceiver`
   has one receiver at a time, `PushEvents` has the generations; what is missing is their composition.
2. **The HomeBase with several cameras and its motion controls** (`#homeBaseMotionOperations`, `#panControlOperations`): a third user of the station's
   peer, with a queue per station and a total deadline. `StationLock` is the specification it would have to implement as well.
3. **Owned startup recovery** of the T8113-Z and the T8170's repeated lookups, as further steps of `Connect` in `EufyStreams`.
4. **StartupSnapshotWarmup** and **RecordingCache**: at most three attempts, cooldown, one capture at a time; limits by count, bytes
   and age. Both are small and well tested; they matter less than the above.
5. **NVR, doorbell and general RTC**: exclusive trials and a second media route, with signalling that deserves a module of its own.
6. **The Home Assistant integration**: the camera control queue and the image cache.

## 7. Not modelled

* **Media bytes**: the PPCS wire format, reassembly, the MPEG-TS muxer and frame pacer, H.264 and H.265 headers. They transform bytes
  in the order of one stream and are large (`first-party-ppcs.ts` has more than 4,000 lines). The reordering of datagrams and the
  buffering limits would be the parts worth a model.
* **Device tables and parsing**: the generated catalogue, capabilities, parameter decoding and payload normalisation, a large part of
  `eufy-provider.ts` and of `provider/devices/`. They are functions from one message to one value, with unit tests for each device.
* **Cloud login and signing** (`mega/client.ts`): request and response against a service outside this repository.
* **The E30 lock**: a separate MQTT device, not connected with cameras; its command correlation is a candidate.
* **GatewayServer**: HTTP and SSE routing; its calls are the viewers and tasks of `LiveStreamManager`.
* **Diagnostics, the simulated provider, the Home Assistant integration, documentation and site.**

For these reasons the share of all source lines that a definition stands for stays small. The modules follow the parts of the code in which
several actors meet: session, provider, HomeBase, store, push connection and events. `PROJECT.json` names every component with its reason.
