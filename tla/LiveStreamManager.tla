-------------------------- MODULE LiveStreamManager --------------------------
(***************************************************************************)
(* One camera session of the gateway's LiveStreamManager                   *)
(* (eufy_event_gateway/src/stream/live-stream-manager.ts).  Sessions of    *)
(* different cameras share no state but `closed`, so one is enough.        *)
(*                                                                         *)
(* A viewer is one HTTP response given to addClient; a task is one call of *)
(* captureSnapshot, withLiveSource, captureStartupSnapshot,                *)
(* withActiveViewer or recordClip.  Each action is one stretch of code     *)
(* that runs without an await, so the interleavings are those of promise   *)
(* settlements, timers, stream events and calls from the server.           *)
(*                                                                         *)
(* The provider is left arbitrary here: it may attach a source, report a   *)
(* stop or settle a call at any time.  LiveStreamSystem composes the       *)
(* session with the provider's own start and stop code.                    *)
(***************************************************************************)
EXTENDS FiniteSets

CONSTANTS
  Viewers,   \* HTTP responses that ask for live video
  Tasks,     \* calls that borrow the source
  Kinds,     \* what the tasks do, a subset of AllKinds
  Calls,     \* identities of controller.startStream calls
  Sources,   \* identities of provider video streams
  None

AllKinds == {"capture", "operation", "startup", "control", "clip", "trial"}
CaptureKinds == {"capture", "operation", "startup"}
RecordingKinds == {"clip", "trial"}
Users == Viewers \cup Tasks

ASSUME ConstantsAssumption ==
  /\ Viewers \cap Tasks = {}
  /\ Kinds \subseteq AllKinds
  /\ None \notin Calls \cup Sources
  /\ "expired" \notin Sources

VARIABLES
  closed,      \* LiveStreamManager.#closed
  state,       \* session.state
  start,       \* session.start: the current start, or None
  promise,     \* what each start promised its waiters
  inflight,    \* provider starts that have not settled, retired ones included
  stop,        \* session.stop is set: one controller.stopStream is unsettled
  lateStop,    \* retireLate's own controller.stopStream is unsettled
  owned,       \* session.owned
  source,      \* session.source; a cleared source's events are void
  suppress,    \* session.suppressSnapshots
  quiet,       \* session.sourceQuietTimer is armed
  ffmpeg,      \* source that feeds session.ffmpeg, or None
  extractors,  \* sources with a snapshot process or write still running
  private,     \* session.privateTrial
  abandoned,   \* an aborted private clip left its start pending
  stopTimer,   \* session.stopTimer is armed
  clients,     \* session.clients
  leases,      \* tasks counted by session.leases
  recordings,  \* session.recordings, named by their tasks
  kind,        \* what each task is doing
  phase,       \* where each viewer's or task's call stands
  awaiting,    \* start each user's call awaits, or None
  frame        \* outcome of each task's wait for a live image

consumerVars == <<leases, recordings, kind, awaiting, frame>>
providerVars == <<inflight, stop, lateStop>>
trialVars == <<private, abandoned>>
mediaVars == <<source, suppress, quiet, ffmpeg>>
startVars == <<state, start, promise, owned>>
vars == <<closed, startVars, providerVars, mediaVars, extractors, trialVars,
          stopTimer, clients, phase, consumerVars>>

States == {"idle", "starting", "streaming", "stopping", "error"}
Phases == {"out", "gate", "admitted", "starting", "open", "closing",
           "waiting", "busy", "settled", "retiring"}

\* Every session field, call and timer holds a value of its kind.
TypeOK ==
  /\ closed \in BOOLEAN /\ stop \in BOOLEAN /\ lateStop \in BOOLEAN
  /\ owned \in BOOLEAN /\ stopTimer \in BOOLEAN /\ quiet \in BOOLEAN
  /\ suppress \in BOOLEAN /\ private \in BOOLEAN /\ abandoned \in BOOLEAN
  /\ state \in States
  /\ start \in Calls \cup {None}
  /\ promise \in [Calls -> {"pending", "resolved", "rejected"}]
  /\ inflight \subseteq Calls
  /\ source \in Sources \cup {None} /\ ffmpeg \in Sources \cup {None}
  /\ extractors \subseteq Sources
  /\ clients \subseteq Viewers
  /\ leases \subseteq Tasks
  /\ recordings \subseteq Tasks
  /\ kind \in [Tasks -> AllKinds]
  /\ phase \in [Users -> Phases]
  /\ awaiting \in [Users -> Calls \cup {None}]
  /\ frame \in [Tasks -> Sources \cup {None, "expired"}]

Init ==
  /\ closed = FALSE /\ state = "idle" /\ start = None /\ owned = FALSE
  /\ promise = [c \in Calls |-> "rejected"]
  /\ inflight = {} /\ stop = FALSE /\ lateStop = FALSE
  /\ source = None /\ suppress = FALSE /\ quiet = FALSE /\ ffmpeg = None
  /\ extractors = {} /\ private = FALSE /\ abandoned = FALSE
  /\ stopTimer = FALSE
  /\ clients = {} /\ leases = {} /\ recordings = {}
  /\ kind = [t \in Tasks |-> "capture"]
  /\ phase = [u \in Users |-> "out"]
  /\ awaiting = [u \in Users |-> None]
  /\ frame = [t \in Tasks |-> None]

-----------------------------------------------------------------------------
(* Parts of the handlers *)

\* A bug of Shareable: a private trial admits others.
ShareableDuringTrial == ~(suppress /\ source # None)

\* #assertShareable passes.
Shareable == ~private /\ ~(suppress /\ source # None)

\* hasActiveViewer.
HasActiveViewer ==
  ~private /\ state = "streaming" /\ source # None /\ clients # {}

\* Nobody uses the source.
Unused == clients = {} /\ leases = {}

\* A bug of RetireStart: the start is dropped, its waiters are not refused.
RetireStartSilently(isPrivate) ==
  IF isPrivate \/ start = None
  THEN UNCHANGED <<start, promise>>
  ELSE start' = None /\ promise' = promise

\* #retireStart: waiters of the current start are refused, unless a private
\* trial keeps its isolation until the provider settles.
RetireStart(isPrivate) ==
  IF isPrivate \/ start = None
  THEN UNCHANGED <<start, promise>>
  ELSE start' = None /\ promise' = [promise EXCEPT ![start] = "rejected"]

\* #cleanupSource.  Raising the generation and removing the listeners is what
\* makes a cleared source's events void.
CleanupSource ==
  /\ source' = None /\ suppress' = FALSE /\ quiet' = FALSE /\ ffmpeg' = None

\* end() every client; each response still has its close event to come.
EndClients ==
  phase' = [u \in Users |-> IF u \in clients THEN "closing" ELSE phase[u]]

\* Shared body of markStopped and #sourceEnded.
Detach(newState) ==
  /\ stopTimer' = FALSE
  /\ RetireStart(private)
  /\ recordings' = {}
  /\ CleanupSource
  /\ state' = newState
  /\ owned' = FALSE
  /\ EndClients
  /\ clients' = {}

\* A bug of StopOwnedSource: the start survives.
StopKeepsStart(isPrivate) ==
  IF stop THEN UNCHANGED <<stop, state, start, promise>>
  ELSE stop' = TRUE /\ state' = "stopping" /\ UNCHANGED <<start, promise>>

\* #stopOwnedSource up to its await; a pending stop is shared.
StopOwnedSource(isPrivate) ==
  IF stop THEN UNCHANGED <<stop, state, start, promise>>
  ELSE stop' = TRUE /\ state' = "stopping" /\ RetireStart(isPrivate)

\* #scheduleStopIfUnused, given the clients and leases that remain.
ScheduleStopIfUnused(remaining, held) ==
  stopTimer' = (stopTimer \/ (~closed /\ remaining = {} /\ held = {} /\ owned))

\* A call identity that nothing refers to may name the next start.
FreeCall(c) == c \notin inflight /\ c # start /\ \A u \in Users : awaiting[u] # c

\* #ensureStarted throws.
StartRefused == closed \/ stop \/ (state = "error" /\ owned)

\* A bug of EnsureStarted: ownership is not taken with the start.
EnsureStartedUnowned(c) ==
  /\ ~StartRefused
  /\ \/ /\ start # None /\ c = start
        /\ UNCHANGED <<startVars, inflight>>
     \/ /\ start = None /\ c = None /\ state \notin {"idle", "error"}
        /\ UNCHANGED <<startVars, inflight>>
     \/ /\ start = None /\ c \in Calls /\ state \in {"idle", "error"}
        /\ FreeCall(c)
        /\ start' = c /\ state' = "starting" /\ owned' = owned
        /\ promise' = [promise EXCEPT ![c] = "pending"]
        /\ inflight' = inflight \cup {c}

\* #ensureStarted otherwise; c is the start to await, None if one is running.
EnsureStarted(c) ==
  /\ ~StartRefused
  /\ \/ /\ start # None /\ c = start
        /\ UNCHANGED <<startVars, inflight>>
     \/ /\ start = None /\ c = None /\ state \notin {"idle", "error"}
        /\ UNCHANGED <<startVars, inflight>>
     \/ /\ start = None /\ c \in Calls /\ state \in {"idle", "error"}
        /\ FreeCall(c)
        /\ start' = c /\ state' = "starting" /\ owned' = TRUE
        /\ promise' = [promise EXCEPT ![c] = "pending"]
        /\ inflight' = inflight \cup {c}

\* The call of user u waits for a start, or goes on with phase `started`.
JoinStart(u, started, refused) ==
  \/ /\ StartRefused
     /\ phase' = [phase EXCEPT ![u] = refused]
     /\ UNCHANGED <<startVars, inflight, awaiting>>
  \/ \E c \in Calls \cup {None} :
       /\ EnsureStarted(c)
       /\ phase' = [phase EXCEPT ![u] = IF c = None THEN started ELSE "starting"]
       /\ awaiting' = [awaiting EXCEPT ![u] = c]

-----------------------------------------------------------------------------
(* Viewers: addClient and #removeClient *)

\* A bug of Register: a new viewer leaves the idle timer armed.
RegisterKeepsTimer(v) ==
  /\ stopTimer' = stopTimer
  /\ clients' = clients \cup {v}
  /\ JoinStart(v, "open", "closing")
  /\ UNCHANGED <<closed, stop, lateStop, mediaVars, extractors, trialVars,
                 leases, recordings, kind, frame>>

\* #addClient from #cancelStop to its await of the source start.  A refused
\* start destroys the response.
Register(v) ==
  /\ stopTimer' = FALSE
  /\ clients' = clients \cup {v}
  /\ JoinStart(v, "open", "closing")
  /\ UNCHANGED <<closed, stop, lateStop, mediaVars, extractors, trialVars,
                 leases, recordings, kind, frame>>

\* A bug of AddClient: no gate.
AddClientUngated(v) == phase[v] = "out" /\ Shareable /\ Register(v)

\* addClient: a viewer waits at the gate while a stop is pending.
AddClient(v) ==
  /\ phase[v] = "out"
  /\ Shareable
  /\ \/ ~stop /\ Register(v)
     \/ /\ stop
        /\ phase' = [phase EXCEPT ![v] = "gate"]
        /\ UNCHANGED <<closed, startVars, providerVars, mediaVars, extractors,
                       trialVars, stopTimer, clients, consumerVars>>

\* #addClient after #waitForStop: the conditions checked again are `closed`
\* and #assertShareable, not session.stop.  addTransportClient waits once for
\* itself, and its #addClient waits again at a stop that began meanwhile.
AdmitClient(v) ==
  /\ phase[v] = "admitted"
  /\ \/ ~closed /\ Shareable /\ Register(v)
     \/ /\ \/ (closed \/ ~Shareable) /\ phase' = [phase EXCEPT ![v] = "out"]
           \/ ~closed /\ Shareable /\ stop /\ phase' = [phase EXCEPT ![v] = "gate"]
        /\ UNCHANGED <<closed, startVars, providerVars, mediaVars, extractors,
                       trialVars, stopTimer, clients, consumerVars>>

\* The await of #ensureStarted ends; a rejection destroys the response.
ClientStarted(v) ==
  /\ phase[v] = "starting"
  /\ promise[awaiting[v]] # "pending"
  /\ phase' = [phase EXCEPT
                 ![v] = IF promise[awaiting[v]] = "resolved" THEN "open" ELSE "closing"]
  /\ awaiting' = [awaiting EXCEPT ![v] = None]
  /\ UNCHANGED <<closed, startVars, providerVars, mediaVars, extractors,
                 trialVars, stopTimer, clients, leases, recordings, kind, frame>>

\* The response's close event: #removeClient, also for a response that was
\* ended by the session and is no longer one of its clients.
ClientCloses(v) ==
  /\ phase[v] \in {"starting", "open", "closing"}
  /\ clients' = clients \ {v}
  /\ phase' = [phase EXCEPT ![v] = "out"]
  /\ awaiting' = [awaiting EXCEPT ![v] = None]
  /\ ScheduleStopIfUnused(clients \ {v}, leases)
  /\ UNCHANGED <<closed, startVars, providerVars, mediaVars, extractors,
                 trialVars, leases, recordings, kind, frame>>

\* A response is closed while it waits at the gate: nothing was registered.
GateAbandoned(v) ==
  /\ phase[v] \in {"gate", "admitted"}
  /\ phase' = [phase EXCEPT ![v] = "out"]
  /\ UNCHANGED <<closed, startVars, providerVars, mediaVars, extractors,
                 trialVars, stopTimer, clients, consumerVars>>

-----------------------------------------------------------------------------
(* Tasks: calls that hold a lease *)

\* captureSnapshot, withLiveSource and captureStartupSnapshot up to the await
\* of the start.  withLiveSource's second lease, taken by the capture inside
\* it, is released while the first is still held and so frees nothing.
BeginCapture(t) ==
  /\ kind'[t] \in CaptureKinds
  /\ ~closed /\ Shareable
  /\ recordings' = recordings
  /\ private' = private
  /\ JoinStart(t, "waiting", "settled")

\* recordClip up to the await of the start.  A private trial needs an idle,
\* unused session.
BeginClip(t) ==
  /\ kind'[t] \in RecordingKinds
  /\ Shareable
  /\ \/ kind'[t] = "clip" /\ private' = private
     \/ /\ kind'[t] = "trial"
        /\ source = None /\ ~owned /\ state \in {"idle", "error"}
        /\ clients = {} /\ recordings = {} /\ leases = {}
        /\ private' = TRUE
  /\ recordings' = recordings \cup {t}
  /\ JoinStart(t, "waiting", "settled")

\* withActiveViewer borrows a source that is already viewed.
BeginControl(t) ==
  /\ kind'[t] = "control"
  /\ ~closed /\ HasActiveViewer /\ Shareable
  /\ phase' = [phase EXCEPT ![t] = "busy"]
  /\ UNCHANGED <<recordings, private, startVars, inflight, awaiting>>

BeginTask(t) ==
  /\ phase[t] = "out"
  /\ \E k \in Kinds : kind' = [kind EXCEPT ![t] = k]
  /\ stopTimer' = FALSE
  /\ leases' = leases \cup {t}
  /\ BeginCapture(t) \/ BeginClip(t) \/ BeginControl(t)
  /\ UNCHANGED <<closed, stop, lateStop, mediaVars, extractors, abandoned,
                 clients, frame>>

\* A task's await of the start ends.
TaskStarted(t) ==
  /\ phase[t] = "starting"
  /\ promise[awaiting[t]] # "pending"
  /\ phase' = [phase EXCEPT
                 ![t] = IF promise[awaiting[t]] = "resolved" THEN "waiting" ELSE "settled"]
  /\ awaiting' = [awaiting EXCEPT ![t] = None]
  /\ UNCHANGED <<closed, startVars, providerVars, mediaVars, extractors,
                 trialVars, stopTimer, clients, leases, recordings, kind, frame>>

\* A capture has its image or its timeout; only withLiveSource goes on, with
\* the operation it was given.
CaptureAnswered(t) ==
  /\ phase[t] = "waiting" /\ kind[t] \in CaptureKinds
  /\ frame[t] # None
  /\ phase' = [phase EXCEPT
                 ![t] = IF kind[t] = "operation" /\ frame[t] \in Sources
                        THEN "busy" ELSE "settled"]
  /\ UNCHANGED <<closed, startVars, providerVars, mediaVars, extractors,
                 trialVars, stopTimer, clients, consumerVars>>

\* The recording was settled: a video to remux, or an error.
RecordingAnswered(t) ==
  /\ phase[t] = "waiting" /\ kind[t] \in RecordingKinds
  /\ t \notin recordings
  /\ \E p \in {"busy", "settled"} : phase' = [phase EXCEPT ![t] = p]
  /\ UNCHANGED <<closed, startVars, providerVars, mediaVars, extractors,
                 trialVars, stopTimer, clients, consumerVars>>

\* The operation or the remux is over.
OperationEnds(t) ==
  /\ phase[t] = "busy"
  /\ phase' = [phase EXCEPT ![t] = "settled"]
  /\ UNCHANGED <<closed, startVars, providerVars, mediaVars, extractors,
                 trialVars, stopTimer, clients, consumerVars>>

\* The abort signal of a private trial.
AbortTrial(t) ==
  /\ kind[t] = "trial" /\ phase[t] \in {"starting", "waiting", "busy"}
  /\ phase' = [phase EXCEPT ![t] = "settled"]
  /\ recordings' = recordings \ {t}
  /\ UNCHANGED <<closed, startVars, providerVars, mediaVars, extractors,
                 trialVars, stopTimer, clients, leases, kind, awaiting, frame>>

\* The start that task t awaits has not settled.
StartUnsettled(t) == awaiting[t] # None /\ promise[awaiting[t]] = "pending"

\* #stopNowIfUnused stops the source, or joins the stop that is pending.
StopsNow(t) ==
  kind[t] \in {"startup", "trial"} /\ clients = {} /\ leases \ {t} = {} /\ owned

\* The finally block.  A trial leaves an unsettled start to its late handler;
\* trials and startup captures stop an unused source at once and return when
\* the stop has settled.
ReleaseTask(t) ==
  /\ phase[t] = "settled"
  /\ phase' = [phase EXCEPT ![t] = IF StopsNow(t) THEN "retiring" ELSE "out"]
  /\ leases' = leases \ {t}
  /\ recordings' = recordings \ {t}
  /\ awaiting' = [awaiting EXCEPT ![t] = None]
  /\ frame' = [frame EXCEPT ![t] = None]
  /\ IF kind[t] = "trial"
     THEN abandoned' = (abandoned \/ StartUnsettled(t)) /\ private' = StartUnsettled(t)
     ELSE UNCHANGED trialVars
  /\ IF StopsNow(t)
     THEN stopTimer' = FALSE /\ StopOwnedSource(private')
     ELSE /\ UNCHANGED <<stop, state, start, promise>>
          /\ IF kind[t] \in {"startup", "trial"} THEN stopTimer' = stopTimer
             ELSE ScheduleStopIfUnused(clients, leases \ {t})
  /\ UNCHANGED <<closed, owned, inflight, lateStop, mediaVars, extractors,
                 clients, kind>>

-----------------------------------------------------------------------------
(* Snapshots and recordings *)

\* A bug of SourceData: the process is counted before it has been made.
SourceDataCounts ==
  /\ source # None
  /\ quiet' = TRUE
  /\ \/ UNCHANGED <<ffmpeg, extractors>>
     \/ /\ ~suppress /\ ffmpeg = None
        /\ extractors' = extractors \cup {ffmpeg}
        /\ ffmpeg' = source
  /\ UNCHANGED <<closed, startVars, providerVars, source, suppress, trialVars,
                 stopTimer, clients, phase, consumerVars>>

\* Source bytes: they rearm the quiet timer and, once decodable, feed a new
\* snapshot process unless snapshots are suppressed.
SourceData ==
  /\ source # None
  /\ quiet' = TRUE
  /\ \/ UNCHANGED <<ffmpeg, extractors>>
     \/ /\ ~suppress /\ ffmpeg = None
        /\ ffmpeg' = source
        /\ extractors' = extractors \cup {source}
  /\ UNCHANGED <<closed, startVars, providerVars, source, suppress, trialVars,
                 stopTimer, clients, phase, consumerVars>>

\* Tasks whose #waitForSnapshot listener is still registered.
Listening ==
  {t \in Tasks : /\ kind[t] \in CaptureKinds
                 /\ phase[t] \in {"starting", "waiting"}
                 /\ frame[t] = None}

\* A JPEG of source s has been stored and its event published.  The write may
\* finish after s was cleared: nothing ties it to a generation.
ImageStored(s) ==
  /\ s \in extractors
  /\ frame' = [t \in Tasks |-> IF t \in Listening THEN s ELSE frame[t]]
  /\ UNCHANGED <<closed, startVars, providerVars, mediaVars, extractors,
                 trialVars, stopTimer, clients, phase, leases, recordings,
                 kind, awaiting>>

\* A dropped snapshot process is gone and its last write is done.
ExtractorExits(s) ==
  /\ s \in extractors /\ s # ffmpeg
  /\ extractors' = extractors \ {s}
  /\ UNCHANGED <<closed, startVars, providerVars, mediaVars, trialVars,
                 stopTimer, clients, phase, consumerVars>>

\* The timer of #waitForSnapshot.
SnapshotTimeout(t) ==
  /\ t \in Listening
  /\ frame' = [frame EXCEPT ![t] = "expired"]
  /\ UNCHANGED <<closed, startVars, providerVars, mediaVars, extractors,
                 trialVars, stopTimer, clients, phase, leases, recordings,
                 kind, awaiting>>

\* #settleRecording: its start or duration timer, its byte limit, or an audio
\* error.
SettleRecording(t) ==
  /\ t \in recordings
  /\ recordings' = recordings \ {t}
  /\ UNCHANGED <<closed, startVars, providerVars, mediaVars, extractors,
                 trialVars, stopTimer, clients, phase, leases, kind, awaiting,
                 frame>>

-----------------------------------------------------------------------------
(* Retirement: the idle timer, the quiet timer, shutdown *)

\* The idle grace is over; the callback does not look at the users again.
StopTimerFires ==
  /\ stopTimer
  /\ stopTimer' = FALSE
  /\ StopOwnedSource(private)
  /\ UNCHANGED <<closed, owned, inflight, lateStop, mediaVars, extractors,
                 trialVars, clients, phase, consumerVars>>

\* Bytes stopped arriving.  An owned source fails its consumers behind a stop
\* gate and stays owned until the stop is confirmed.
QuietTimerFires ==
  /\ quiet /\ ~closed
  /\ IF Unused
     THEN /\ quiet' = FALSE
          /\ UNCHANGED <<stop, startVars, source, suppress, ffmpeg,
                         stopTimer, clients, recordings, phase>>
     ELSE IF ~owned THEN Detach("error") /\ stop' = stop
     ELSE IF stop
     THEN /\ quiet' = FALSE
          /\ UNCHANGED <<stop, startVars, source, suppress, ffmpeg,
                         stopTimer, clients, recordings, phase>>
     ELSE /\ stopTimer' = FALSE
          /\ RetireStart(private)
          /\ recordings' = {}
          /\ CleanupSource
          /\ EndClients /\ clients' = {}
          /\ stop' = TRUE /\ state' = "stopping" /\ owned' = TRUE
  /\ UNCHANGED <<closed, inflight, lateStop, extractors, trialVars, leases,
                 kind, awaiting, frame>>

\* close().  Ended clients stay members until their close events.
Close ==
  /\ ~closed /\ closed' = TRUE
  /\ stopTimer' = FALSE
  /\ RetireStart(private)
  /\ CleanupSource
  /\ recordings' = {}
  /\ EndClients
  /\ frame' = [t \in Tasks |-> IF t \in Listening THEN "expired" ELSE frame[t]]
  /\ IF owned /\ ~stop
     THEN stop' = TRUE /\ state' = "stopping"
     ELSE UNCHANGED <<stop, state>>
  /\ UNCHANGED <<owned, inflight, lateStop, extractors, trialVars, clients,
                 leases, kind, awaiting>>

-----------------------------------------------------------------------------
(* What the provider reports *)

\* A bug of AttachSource: the images of a private trial are kept.
AttachSourceUnsuppressed(s) ==
  /\ s # source /\ s \notin extractors
  /\ source' = s
  /\ suppress' = FALSE
  /\ quiet' = FALSE /\ ffmpeg' = None
  /\ state' = "streaming"
  /\ UNCHANGED <<closed, start, promise, owned, providerVars, extractors,
                 trialVars, stopTimer, clients, phase, consumerVars>>

\* attachSource, with a stream s that is not in use.
AttachSource(s) ==
  /\ s # source /\ s \notin extractors
  /\ source' = s
  /\ suppress' = private
  /\ quiet' = FALSE /\ ffmpeg' = None
  /\ state' = "streaming"
  /\ UNCHANGED <<closed, start, promise, owned, providerVars, extractors,
                 trialVars, stopTimer, clients, phase, consumerVars>>

\* markStopped.
MarkStopped ==
  /\ Detach("idle")
  /\ UNCHANGED <<closed, providerVars, extractors, trialVars, leases, kind,
                 awaiting, frame>>

\* #sourceEnded from the end, close or error event of the attached source.
SourceEnded(s, failed) ==
  /\ s = source /\ state # "idle"
  /\ Detach(IF failed THEN "error" ELSE "idle")
  /\ UNCHANGED <<closed, providerVars, extractors, trialVars, leases, kind,
                 awaiting, frame>>

\* controller.startStream settles.  A retired start changes nothing; the start
\* of an abandoned trial goes to its late handler.
StartSucceeds(c) ==
  /\ c \in inflight /\ inflight' = inflight \ {c}
  /\ IF start = c
     THEN /\ start' = None
          /\ promise' = [promise EXCEPT ![c] = "resolved"]
          /\ lateStop' = (lateStop \/ abandoned)
     ELSE UNCHANGED <<start, promise, lateStop>>
  /\ UNCHANGED <<closed, state, owned, stop, mediaVars, extractors, trialVars,
                 stopTimer, clients, phase, consumerVars>>

StartFails(c) ==
  /\ c \in inflight /\ inflight' = inflight \ {c}
  /\ IF start = c
     THEN /\ start' = None
          /\ promise' = [promise EXCEPT ![c] = "rejected"]
          /\ recordings' = {}
          /\ CleanupSource
          /\ owned' = FALSE
          /\ IF abandoned
             THEN /\ state' = "idle" /\ stopTimer' = FALSE
                  /\ EndClients /\ clients' = {}
                  /\ abandoned' = FALSE /\ private' = FALSE
             ELSE /\ state' = "error"
                  /\ UNCHANGED <<stopTimer, phase, clients, trialVars>>
     ELSE UNCHANGED <<startVars, recordings, mediaVars, stopTimer, phase,
                      clients, trialVars>>
  /\ UNCHANGED <<closed, stop, lateStop, extractors, leases, kind, awaiting,
                 frame>>

\* A bug of StopSettles: a failed stop leaves its waiters at the gate.
StopSettlesForWinners(stopped) ==
  /\ stop /\ stop' = FALSE
  /\ IF ~stopped THEN state' = "error" /\ UNCHANGED <<owned, mediaVars>>
     ELSE IF state = "stopping"
     THEN CleanupSource /\ state' = "idle" /\ owned' = FALSE
     ELSE UNCHANGED <<state, owned, mediaVars>>
  /\ phase' = [u \in Users |->
                 IF phase[u] = "gate" /\ stopped THEN "admitted"
                 ELSE IF phase[u] = "retiring" THEN "out" ELSE phase[u]]
  /\ UNCHANGED <<closed, start, promise, inflight, lateStop, extractors,
                 trialVars, stopTimer, clients, consumerVars>>

\* The stop of #stopOwnedSource settles and the gate opens, or turns its
\* waiters away after a failure; the tasks that await it return either way.
StopSettles(stopped) ==
  /\ stop /\ stop' = FALSE
  /\ IF ~stopped THEN state' = "error" /\ UNCHANGED <<owned, mediaVars>>
     ELSE IF state = "stopping"
     THEN CleanupSource /\ state' = "idle" /\ owned' = FALSE
     ELSE UNCHANGED <<state, owned, mediaVars>>
  /\ phase' = [u \in Users |->
                 IF phase[u] \notin {"gate", "retiring"} THEN phase[u]
                 ELSE IF phase[u] = "gate" /\ stopped THEN "admitted" ELSE "out"]
  /\ UNCHANGED <<closed, start, promise, inflight, lateStop, extractors,
                 trialVars, stopTimer, clients, consumerVars>>

\* A bug of LateStopSettles: isolation is not lifted.
LateStopStaysPrivate ==
  /\ lateStop /\ lateStop' = FALSE
  /\ Detach("idle")
  /\ UNCHANGED <<closed, inflight, stop, extractors, trialVars, leases, kind,
                 awaiting, frame>>

\* The stop of retireLate settles, either way: isolation ends.
LateStopSettles ==
  /\ lateStop /\ lateStop' = FALSE
  /\ Detach("idle")
  /\ private' = FALSE /\ abandoned' = FALSE
  /\ UNCHANGED <<closed, inflight, stop, extractors, leases, kind, awaiting,
                 frame>>

-----------------------------------------------------------------------------
\* Promise continuations of the session: the event loop runs them before any
\* timer, stream event or server call.
Continuation ==
  \/ \E v \in Viewers : AdmitClient(v) \/ ClientStarted(v)
  \/ \E t \in Tasks :
       TaskStarted(t) \/ CaptureAnswered(t) \/ RecordingAnswered(t) \/ ReleaseTask(t)

ContinuationPending ==
  \E u \in Users :
    \/ phase[u] \in {"admitted", "settled"}
    \/ phase[u] = "starting" /\ promise[awaiting[u]] # "pending"
    \/ /\ phase[u] = "waiting"
       /\ IF kind[u] \in CaptureKinds THEN frame[u] # None ELSE u \notin recordings

\* Requests and disconnections, media, timers, shutdown.
SessionEvent ==
  \/ \E v \in Viewers : AddClient(v) \/ ClientCloses(v) \/ GateAbandoned(v)
  \/ \E t \in Tasks :
       \/ BeginTask(t) \/ OperationEnds(t) \/ AbortTrial(t)
       \/ SnapshotTimeout(t) \/ SettleRecording(t)
  \/ SourceData
  \/ \E s \in Sources : ImageStored(s) \/ ExtractorExits(s)
  \/ StopTimerFires \/ QuietTimerFires \/ Close

\* Steps any provider may cause.
ProviderStep ==
  \/ \E s \in Sources : AttachSource(s)
  \/ \E s \in Sources, failed \in BOOLEAN : SourceEnded(s, failed)
  \/ MarkStopped
  \/ \E c \in Calls : StartSucceeds(c) \/ StartFails(c)
  \/ \E stopped \in BOOLEAN : StopSettles(stopped)
  \/ LateStopSettles

\* Here continuations may be delayed at will, which allows more than the event
\* loop does.
Next == Continuation \/ SessionEvent \/ ProviderStep

Spec == Init /\ [][Next]_vars

\* Continuations run, every armed timer fires, an ended response closes, the
\* callback of withLiveSource or withActiveViewer returns, and the provider
\* settles what it was asked: its key reads, connection and END sends are all
\* bounded by timers.  Nothing obliges a viewer to leave or a source to send.
Fairness ==
  /\ \A v \in Viewers :
       /\ WF_vars(AdmitClient(v)) /\ WF_vars(ClientStarted(v))
       /\ WF_vars(phase[v] = "closing" /\ ClientCloses(v))
  /\ \A t \in Tasks :
       /\ WF_vars(TaskStarted(t)) /\ WF_vars(CaptureAnswered(t))
       /\ WF_vars(RecordingAnswered(t)) /\ WF_vars(OperationEnds(t))
       /\ WF_vars(ReleaseTask(t))
       /\ WF_vars(SnapshotTimeout(t)) /\ WF_vars(SettleRecording(t))
  /\ \A c \in Calls : WF_vars(StartSucceeds(c) \/ StartFails(c))
  /\ WF_vars(\E stopped \in BOOLEAN : StopSettles(stopped))
  /\ WF_vars(LateStopSettles)
  /\ WF_vars(StopTimerFires)

FairSpec == Spec /\ Fairness

-----------------------------------------------------------------------------
(* Properties that hold whatever the provider does *)

\* The idle timer never stops a source in use: every way to become a viewer or
\* to take a lease cancels it (#cancelStop), its callback trusts that without
\* looking again, and whoever is served counts as a user.
StopTimerOnlyWhenUnused ==
  stopTimer => /\ Unused
               /\ \A v \in Viewers : phase[v] \notin {"starting", "open"}
               /\ \A t \in Tasks : phase[t] \in {"out", "retiring"}

\* While a stop is pending no start is current, so the stop cannot hit a source
\* acquired after it began; an isolated private trial is the exception
\* (#stopOwnedSource, #ensureStarted, #retireStart).
StopExcludesStart == stop /\ ~private => start = None

\* Whoever awaits a start awaits the current one, which the provider still has
\* to settle, or one already settled or retired: no waiter is left behind when
\* a session retires its start.  Whoever waits behind a stop, a viewer at the
\* gate or a task that retires its source, waits for one that is pending
\* (#retireStart, #ensureStarted, #waitForStop, #stopNowIfUnused).
NoOrphanWaiter ==
  \A u \in Users :
    /\ phase[u] \in {"gate", "retiring"} => stop
    /\ phase[u] = "starting" => awaiting[u] # None
    /\ awaiting[u] # None /\ promise[awaiting[u]] = "pending"
         => awaiting[u] = start /\ start \in inflight

\* The session owns the provider resource behind every pending start, so close
\* and the idle timer can retire it (#ensureStarted, markStopped).
PendingStartIsOwned == start # None /\ ~private => owned

\* A private trial is alone: no viewer, no other lease; and its isolation has
\* an end in sight, the trial itself, its unsettled start or its late stop
\* (recordClip, #assertShareable, retireLate).
PrivateIsolation ==
  private => /\ clients = {}
             /\ \A t \in leases : kind[t] = "trial"
             /\ leases # {} \/ (abandoned /\ (start # None \/ lateStop))

\* A capture that waits for its start while no source is attached has no image
\* yet: what it returns was taken after it was asked for ("Capture one fresh
\* JPEG through the shared source", captureSnapshot).
NoImageBeforeSource ==
  \A t \in Tasks :
    /\ phase[t] = "starting" /\ promise[awaiting[t]] = "pending"
    /\ source = None
    => frame[t] \notin Sources

\* A call that borrows the source always gives its lease back and returns, also
\* one that awaits a final stop, whatever ends, fails, stops or is retired under
\* it (captureSnapshot, withLiveSource, withActiveViewer,
\* captureStartupSnapshot, recordClip).
EveryTaskReturns ==
  \A t \in Tasks :
    (phase[t] # "out" \/ t \in leases) ~> (phase[t] = "out" /\ t \notin leases)

\* The isolation of a private trial ends, even when the trial was aborted
\* before its start settled (recordClip, retireLate).
IsolationEnds == private ~> ~private

\* A viewer that waits behind a stop is admitted or turned away
\* (#waitForStop, #stopOwnedSource).
GateOpens == \A v \in Viewers : phase[v] = "gate" ~> phase[v] # "gate"

\* Video of a private trial never feeds the snapshot process (attachSource).
PrivateVideoNotRetained ==
  /\ private /\ source # None => suppress
  /\ suppress => ffmpeg = None
=============================================================================
