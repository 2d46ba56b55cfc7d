----------------------- MODULE LiveStreamOwnershipProofs -----------------------
(***************************************************************************)
(* No live source is left without an owner: as long as PPCS sessions end   *)
(* only when they are closed, whatever is open while nobody uses the       *)
(* camera is about to be stopped.  The proof follows a source from the     *)
(* session's start through the provider's ticket and PPCS session to the   *)
(* stop.  Under the same condition the report of that stop, which may come *)
(* much later, finds no viewer to close.                                   *)
(***************************************************************************)
EXTENDS LiveStreamSystemProofs

USE DEF mediaVars, startVars, providerVars, trialVars, consumerVars

-----------------------------------------------------------------------------
(* The invariant *)

\* stopStream has not cancelled the ticket that the next startStream would share.
TicketCurrent == ticket # None /\ ticket \notin cancelled

Public == ~private /\ ~abandoned /\ \A t \in Tasks : kind[t] # "trial"

\* An owned session that nobody uses is about to be stopped, and owns whatever
\* it has attached or begun.
SessionOwned ==
  /\ owned /\ Unused => stopTimer \/ stop
  /\ stop => state = "stopping" \/ ~owned
  /\ source # None => state \in {"streaming", "stopping"}
  /\ state = "stopping" => stop
  /\ state = "idle" => ~owned
  /\ start # None => owned

\* The session waits for exactly the ticket that the provider still works on.
StartIsTicket ==
  /\ stop => ~TicketCurrent
  /\ TicketCurrent <=> (start # None /\ outcome[start] = "pending")
  /\ TicketCurrent => joined[start] = ticket /\ source = None

NoLive == \A s \in Sources : peer[s] \notin PP!Live

\* A PPCS session belongs to the current ticket until it is open, then to the
\* session; one that is over is the entry only until stopStream has seen it.
PeersAreOwned ==
  /\ stop => NoLive
  /\ \A s \in Sources :
       peer[s] = "open" => owned /\ ~TicketCurrent /\ source \in {None, s}
  /\ \A s \in Sources :
       peer[s] = "opening"
         => TicketCurrent /\ job[ticket] = "connecting" /\ session[ticket] = s
  /\ start # None /\ outcome[start] = "rejected"
       => \A s \in Sources : peer[s] # "open"
  /\ entry # None /\ peer[entry] \notin PP!Live
       => stopPc = "draining" /\ stopTarget = entry
  /\ stopPc # "none" => stop
  /\ stopPc = "draining" => stopTarget # None

EndedIsOver == \A s \in ended : peer[s] \notin PP!Live

OwnerInv ==
  /\ EndedIsOver
  /\ ~closed => Public /\ SessionOwned /\ StartIsTicket /\ PeersAreOwned

\* What the parts of the system are known to keep.
PartsInv == Link /\ TypeOK /\ IsolationInv /\ PP!PTypeOK /\ PP!ConnectInv

-----------------------------------------------------------------------------
(* Steps of the session *)

\* The three ways a session step can concern the provider.
Rests == UNCHANGED <<start, stop, owned, inflight>> /\ source' \in {source, None}
Begins(c) ==
  /\ start = None /\ ~stop /\ ~owned /\ source = None
  /\ start' = c /\ stop' = stop /\ owned' /\ source' = None
  /\ inflight' = inflight \cup {c}
Stops == ~stop /\ stop' /\ start' = None /\ source' \in {source, None} /\ inflight' = inflight

SessionMoves == Rests \/ Stops \/ \E c \in Calls \ inflight : Begins(c)

\* #ensureStarted begins a start only for a session that owns nothing.
LEMMA EnsureMoves ==
  ASSUME SessionOwned, NEW c \in Calls \cup {None}, EnsureStarted(c), source' = source,
         stop' = stop
  PROVE  /\ SessionMoves
         /\ stop' => state' = "stopping" \/ ~owned'
         /\ source' # None => state' \in {"streaming", "stopping"}
         /\ state' = "stopping" => stop'
         /\ state' = "idle" => ~owned'
         /\ start' # None => owned'
<1>1. CASE UNCHANGED <<startVars, inflight>>
  BY <1>1 DEF SessionOwned, SessionMoves, Rests
<1>2. CASE start = None /\ c \in Calls /\ state \in {"idle", "error"} /\ FreeCall(c)
           /\ start' = c /\ state' = "starting" /\ owned' = TRUE
           /\ inflight' = inflight \cup {c} /\ ~StartRefused
  <2>1. Begins(c) /\ c \in Calls \ inflight
    BY <1>2 DEF SessionOwned, Begins, FreeCall, StartRefused
  <2>2. QED BY <1>2, <2>1 DEF SessionMoves, Begins
<1>3. QED BY <1>1, <1>2 DEF EnsureStarted

\* A call that joins a start keeps the session owned (#ensureStarted).
LEMMA JoinMoves ==
  ASSUME SessionOwned, NEW u, NEW started, NEW refused, JoinStart(u, started, refused),
         source' = source, stop' = stop, clients' # {} \/ leases' # {}
  PROVE  SessionMoves /\ SessionOwned'
<1>1. CASE UNCHANGED <<startVars, inflight>>
  BY <1>1 DEF SessionOwned, SessionMoves, Rests, Unused
<1>2. ASSUME NEW c \in Calls \cup {None}, EnsureStarted(c)
      PROVE  SessionMoves /\ SessionOwned'
  <2>1. ~Unused'
    BY DEF Unused
  <2>2. QED BY <1>2, <2>1, EnsureMoves DEF SessionOwned
<1>3. QED BY <1>1, <1>2 DEF JoinStart

\* #stopOwnedSource either begins the one stop or finds it under way.
LEMMA StopMoves ==
  ASSUME SessionOwned, StopOwnedSource(FALSE), source' = source, owned' = owned,
         inflight' = inflight, StopExcludesStart, ~private
  PROVE  SessionMoves /\ SessionOwned'
<1>1. CASE stop
  BY <1>1 DEF StopOwnedSource, SessionOwned, SessionMoves, Rests
<1>2. CASE ~stop
  BY <1>2 DEF StopOwnedSource, RetireStart, SessionOwned, SessionMoves, Stops
<1>3. QED BY <1>1, <1>2

\* Handlers that leave the session's ownership alone.
LEMMA SessionKept ==
  ASSUME Public, SessionOwned,
         UNCHANGED <<startVars, stop, inflight, source, trialVars>>,
         kind' = kind,
         \/ clients' # {} \/ leases' # {} \/ stopTimer' \/ ~owned
         \/ (Unused' => Unused) /\ stopTimer' = stopTimer
  PROVE  Public' /\ SessionMoves /\ SessionOwned'
BY DEF Public, SessionOwned, SessionMoves, Rests, Unused

\* The idle timer is armed when the last user leaves (#scheduleStopIfUnused).
LEMMA LeaveKept ==
  ASSUME Public, SessionOwned, ~closed,
         UNCHANGED <<startVars, stop, inflight, source, trialVars>>, kind' = kind,
         ScheduleStopIfUnused(clients', leases')
  PROVE  Public' /\ SessionMoves /\ SessionOwned'
BY DEF Public, SessionOwned, SessionMoves, Rests, Unused, ScheduleStopIfUnused

\* A viewer that comes cancels the idle timer and joins a start (#addClient).
LEMMA RegisterMoves ==
  ASSUME Public, SessionOwned, NEW v \in Viewers, Register(v)
  PROVE  Public' /\ SessionMoves /\ SessionOwned'
<1>1. Public' /\ clients' # {} /\ source' = source /\ stop' = stop
  BY DEF Register, Public
<1>2. QED BY <1>1, JoinMoves DEF Register

\* The steps of viewers: addClient and #removeClient.
LEMMA ViewerMoves ==
  ASSUME Public, SessionOwned, ~closed, NEW v \in Viewers,
         \/ AdmitClient(v) \/ ClientStarted(v) \/ AddClient(v)
         \/ ClientCloses(v) \/ GateAbandoned(v)
  PROVE  Public' /\ SessionMoves /\ SessionOwned'
<1>1. CASE Register(v)
  BY <1>1, RegisterMoves
<1>2. CASE ClientStarted(v) \/ GateAbandoned(v)
  BY <1>2, SessionKept DEF ClientStarted, GateAbandoned, Unused
<1>3. CASE ClientCloses(v)
  <2>1. ScheduleStopIfUnused(clients', leases')
    BY <1>3 DEF ClientCloses
  <2>2. QED BY <1>3, <2>1, LeaveKept DEF ClientCloses
<1>4. CASE AddClient(v) /\ ~Register(v)
  BY <1>4, SessionKept DEF AddClient, Unused
<1>5. CASE AdmitClient(v) /\ ~Register(v)
  BY <1>5, SessionKept DEF AdmitClient, Unused
<1>6. QED BY <1>1, <1>2, <1>3, <1>4, <1>5

\* Public tasks stay public: no private trial begins.
LEMMA BeginPublic ==
  ASSUME TypeOK, Public, NEW t \in Tasks, BeginTask(t)
  PROVE  Public'
<1>1. PICK k \in Kinds : kind' = [kind EXCEPT ![t] = k]
  BY DEF BeginTask
<1>2. \A x \in Tasks : kind'[x] # "trial"
  BY <1>1, PublicTasksOnly DEF Public, TypeOK
<1>3. private' = private /\ abandoned' = abandoned
  BY <1>2 DEF BeginTask, BeginCapture, BeginClip, BeginControl
<1>4. QED BY <1>2, <1>3 DEF Public

\* A task that begins takes its lease before it joins a start (withLiveSource).
LEMMA BeginMoves ==
  ASSUME TypeOK, Public, SessionOwned, NEW t \in Tasks, BeginTask(t)
  PROVE  Public' /\ SessionMoves /\ SessionOwned'
<1>1. leases' # {} /\ source' = source /\ stop' = stop
  BY DEF BeginTask
<1>2. CASE BeginCapture(t) \/ BeginClip(t)
  BY <1>1, <1>2, BeginPublic, JoinMoves DEF BeginCapture, BeginClip
<1>3. CASE BeginControl(t)
  BY <1>1, <1>3, BeginPublic
  DEF BeginControl, SessionOwned, SessionMoves, Rests, Unused
<1>4. QED BY <1>2, <1>3 DEF BeginTask

\* The finally block of a task: the last one arms the timer or stops at once.
LEMMA ReleaseMoves ==
  ASSUME Public, SessionOwned, IsolationInv, ~closed, NEW t \in Tasks, ReleaseTask(t)
  PROVE  Public' /\ SessionMoves /\ SessionOwned'
<1>1. kind[t] # "trial" /\ Public' /\ UNCHANGED <<owned, inflight, source, clients>>
      /\ leases' = leases \ {t}
  BY DEF ReleaseTask, Public
<1>2. CASE kind[t] # "startup"
  <2>1. ScheduleStopIfUnused(clients', leases') /\ UNCHANGED <<stop, state, start>>
    BY <1>1, <1>2 DEF ReleaseTask, StopsNow
  <2>2. QED
    BY <1>1, <2>1
    DEF SessionOwned, SessionMoves, Rests, Unused, ScheduleStopIfUnused
<1>3. CASE kind[t] = "startup" /\ clients = {} /\ leases \ {t} = {} /\ owned
  <2>1. StopOwnedSource(FALSE) /\ StopExcludesStart
    BY <1>1, <1>3
    DEF ReleaseTask, StopsNow, Public, IsolationInv, StopOwnedSource, RetireStart
  <2>2. QED BY <1>1, <2>1, StopMoves DEF Public
<1>4. CASE kind[t] = "startup" /\ ~(clients = {} /\ leases \ {t} = {} /\ owned)
  <2>1. UNCHANGED <<stopTimer, stop, state, start>>
    BY <1>1, <1>4 DEF ReleaseTask, StopsNow
  <2>2. QED BY <1>1, <1>4, <2>1 DEF SessionOwned, SessionMoves, Rests, Unused
<1>5. QED BY <1>2, <1>3, <1>4

\* The other steps of tasks.
LEMMA TaskMoves ==
  ASSUME Public, SessionOwned, NEW t \in Tasks,
         \/ TaskStarted(t) \/ CaptureAnswered(t) \/ RecordingAnswered(t)
         \/ OperationEnds(t) \/ AbortTrial(t) \/ SnapshotTimeout(t)
         \/ SettleRecording(t)
  PROVE  Public' /\ SessionMoves /\ SessionOwned'
BY SessionKept
DEF TaskStarted, CaptureAnswered, RecordingAnswered, OperationEnds, AbortTrial,
    SnapshotTimeout, SettleRecording, Unused

\* Bytes and images of the source.
LEMMA MediaMoves ==
  ASSUME Public, SessionOwned, NEW s, ImageStored(s) \/ ExtractorExits(s) \/ SourceData
  PROVE  Public' /\ SessionMoves /\ SessionOwned'
BY SessionKept DEF ImageStored, ExtractorExits, SourceData, Unused

\* The timers: the idle timer stops an unused source, the quiet timer a silent one.
LEMMA TimerMoves ==
  ASSUME TypeOK, Public, SessionOwned, IsolationInv, StopTimerFires \/ QuietTimerFires
  PROVE  Public' /\ SessionMoves /\ SessionOwned'
<1>1. CASE StopTimerFires
  <2>1. /\ StopOwnedSource(FALSE) /\ StopExcludesStart /\ Public'
        /\ UNCHANGED <<owned, inflight, source>>
    BY <1>1 DEF StopTimerFires, Public, IsolationInv, StopOwnedSource, RetireStart
  <2>2. QED BY <2>1, StopMoves DEF Public
<1>2. CASE QuietTimerFires /\ ~owned /\ ~Unused
  <2>1. start' = start /\ owned' = owned /\ UNCHANGED <<stop, inflight, private>>
    BY <1>2
    DEF QuietTimerFires, Detach, RetireStart, SessionOwned, Public, TypeOK
  <2>2. QED
    BY <1>2, <2>1
    DEF QuietTimerFires, Detach, CleanupSource, Public, SessionOwned, SessionMoves,
        Rests
<1>3. CASE QuietTimerFires /\ (Unused \/ (owned /\ stop))
  BY <1>3, SessionKept DEF QuietTimerFires, Unused
<1>4. CASE QuietTimerFires /\ owned /\ ~stop /\ ~Unused
  BY <1>4
  DEF QuietTimerFires, CleanupSource, RetireStart, Public, SessionOwned,
      SessionMoves, Stops
<1>5. QED BY <1>1, <1>2, <1>3, <1>4

\* A closed gateway stays closed.
LEMMA ClosedForGood ==
  ASSUME ~closed', Continuation \/ SessionEvent
  PROVE  ~closed
BY DEF Continuation, SessionEvent, AdmitClient, Register, ClientStarted, AddClient,
  ClientCloses, GateAbandoned, TaskStarted, CaptureAnswered, RecordingAnswered,
  ReleaseTask, BeginTask, OperationEnds, AbortTrial, SnapshotTimeout,
  SettleRecording, SourceData, ImageStored, ExtractorExits, StopTimerFires,
  QuietTimerFires, Close

\* Every step of an open session rests, begins a start it then owns, or stops.
LEMMA SessionStep ==
  ASSUME TypeOK, IsolationInv, Public, SessionOwned, ~closed, ~closed',
         Continuation \/ SessionEvent
  PROVE  Public' /\ SessionMoves /\ SessionOwned'
<1>1. ~Close
  BY DEF Close
<1>2. QED
  BY <1>1, ViewerMoves, BeginMoves, ReleaseMoves, TaskMoves, MediaMoves, TimerMoves
  DEF Continuation, SessionEvent

-----------------------------------------------------------------------------
(* Steps of the session and what they ask of the provider *)

\* A session that rests leaves the provider alone or just waits.
LEMMA RestKept ==
  ASSUME StartIsTicket, PeersAreOwned, Rests, UNCHANGED streamVars
  PROVE  StartIsTicket' /\ PeersAreOwned'
BY DEF StartIsTicket, PeersAreOwned, Rests, streamVars, TicketCurrent, NoLive

\* When a start begins nothing is live, and it gets a ticket of its own
\* (#ensureStarted, startStream).
LEMMA BeginKept ==
  ASSUME PartsInv, SessionOwned, StartIsTicket, PeersAreOwned,
         NEW c \in Calls \ inflight, Begins(c), P!StartStream(c)
  PROVE  StartIsTicket' /\ PeersAreOwned'
<1>1. ~TicketCurrent
  BY DEF StartIsTicket, Begins
<1>2. NoLive
  <2>1. \A s \in Sources : peer[s] # "open" /\ peer[s] # "opening"
    BY <1>1 DEF PeersAreOwned, Begins
  <2>2. QED BY <2>1 DEF NoLive, PP!Live
<1>3. /\ ticket' = c /\ c \notin cancelled' /\ joined' = [joined EXCEPT ![c] = c]
      /\ outcome' = [outcome EXCEPT ![c] = "pending"]
      /\ UNCHANGED <<entry, peer, stopPc, stopTarget>>
  BY <1>1 DEF P!StartStream, TicketCurrent, P!stopVars
<1>4. outcome'[c] = "pending" /\ joined'[c] = c /\ c # None
  BY <1>3, ProviderNames DEF PartsInv, PP!PTypeOK
<1>5. TicketCurrent' /\ start' = c /\ source' = None /\ ~stop' /\ ~stop
  BY <1>3, <1>4 DEF TicketCurrent, Begins
<1>6. StartIsTicket'
  BY <1>3, <1>4, <1>5 DEF StartIsTicket
<1>7. PeersAreOwned'
  BY <1>2, <1>3, <1>4, <1>5 DEF PeersAreOwned, NoLive, PP!Live
<1>8. QED BY <1>6, <1>7

\* A stop cancels the ticket and closes whatever is live (stopStream).
LEMMA StopKept ==
  ASSUME PartsInv, StartIsTicket, PeersAreOwned, Stops, P!StopStream
  PROVE  StartIsTicket' /\ PeersAreOwned'
<1>1. /\ ticket' = ticket /\ entry' = entry /\ stopTarget' = entry
      /\ cancelled' = IF ticket = None THEN cancelled ELSE cancelled \cup {ticket}
      /\ stopPc' = IF entry = None THEN "done" ELSE "draining"
  BY DEF P!StopStream
<1>2. NoLive'
  <2>1. PP!ClosePeer(entry) /\ PP!LivePeerIsEntry
    BY DEF P!StopStream, P!ClosePeer, PP!ClosePeer, P!Live, PP!Live, PartsInv,
      PP!ConnectInv
  <2>2. None \notin Calls \cup Sources
    BY ProviderNames
  <2>3. QED BY <2>1, <2>2, PP!CloseEntry DEF PartsInv, NoLive
<1>3. ~TicketCurrent' /\ start' = None /\ stop'
  BY <1>1 DEF TicketCurrent, Stops
<1>4. StartIsTicket'
  BY <1>3 DEF StartIsTicket
<1>5. PeersAreOwned'
  BY <1>1, <1>2, <1>3 DEF PeersAreOwned, NoLive, PP!Live
<1>6. QED BY <1>4, <1>5

\* Closing a session ends nothing that stays live (ClosePeer).
LEMMA ClosedIsOver ==
  ASSUME EndedIsOver, PP!PTypeOK, NEW s \in Sources \cup {None}, P!ClosePeer(s)
  PROVE  EndedIsOver'
BY DEF EndedIsOver, PP!PTypeOK, P!ClosePeer, P!Live, PP!Live

\* A session step keeps the ownership, and asks of the provider what it means.
LEMMA SessionOwner ==
  ASSUME PartsInv, OwnerInv, SessionActs
  PROVE  OwnerInv'
<1>1. EndedIsOver'
  <2>1. CASE UNCHANGED streamVars \/ \E c \in Calls : P!StartStream(c)
    BY <2>1 DEF streamVars, P!StartStream, OwnerInv, EndedIsOver
  <2>2. CASE P!StopStream
    BY <2>2, ClosedIsOver DEF P!StopStream, PartsInv, PP!PTypeOK, OwnerInv
  <2>3. inflight' \ inflight # {} => \E c \in Calls : P!StartStream(c)
    BY SessionBegins DEF SessionActs, ProviderCalled
  <2>4. QED BY <2>1, <2>2, <2>3 DEF SessionActs, ProviderCalled
<1>2. ASSUME ~closed'
      PROVE  Public' /\ SessionOwned' /\ StartIsTicket' /\ PeersAreOwned'
  <2>1. ~closed
    BY <1>2, ClosedForGood DEF SessionActs
  <2>2. SessionOwned /\ StartIsTicket /\ PeersAreOwned
    BY <2>1 DEF OwnerInv
  <2>3. Public' /\ SessionMoves /\ SessionOwned'
    BY <1>2, <2>1, SessionStep DEF OwnerInv, PartsInv, SessionActs
  <2>4. CASE Rests
    <3>1. UNCHANGED streamVars
      BY <2>4 DEF Rests, SessionActs, ProviderCalled
    <3>2. QED BY <2>2, <2>3, <2>4, <3>1, RestKept
  <2>5. CASE Stops
    <3>1. P!StopStream
      BY <2>5 DEF Stops, SessionActs, ProviderCalled
    <3>2. QED BY <2>2, <2>3, <2>5, <3>1, StopKept
  <2>6. ASSUME NEW c \in Calls \ inflight, Begins(c)
        PROVE  StartIsTicket' /\ PeersAreOwned'
    <3>1. inflight' \ inflight = {c}
      BY <2>6 DEF Begins
    <3>2. P!StartStream(c)
      BY <3>1 DEF SessionActs, ProviderCalled
    <3>3. QED BY <2>2, <2>6, <3>2, BeginKept
  <2>7. QED BY <2>3, <2>4, <2>5, <2>6 DEF SessionMoves
<1>3. QED BY <1>1, <1>2 DEF OwnerInv

-----------------------------------------------------------------------------
(* Steps of the provider *)

\* The ticket the session waits for settles with it; another one concerns nobody.
LEMMA SettleOwner ==
  ASSUME PartsInv, StartIsTicket, NEW c \in Calls, NEW r \in {"resolved", "rejected"},
         P!SettleTicket(c, r), UNCHANGED <<start, stop>>, TicketCurrent' => source' = source
  PROVE  /\ StartIsTicket'
         /\ TicketCurrent' =>
              /\ TicketCurrent /\ ticket' = ticket /\ ticket # c
              /\ job'[ticket] = job[ticket] /\ session'[ticket] = session[ticket]
         /\ start # None /\ outcome'[start] = "rejected"
              => outcome[start] = "rejected" \/ (TicketCurrent /\ ticket = c /\ r = "rejected")
<1>1. /\ start \in Calls \cup {None} /\ ticket \in Calls \cup {None} /\ c # None
      /\ outcome' = [d \in Calls |-> IF joined[d] = c /\ outcome[d] = "pending" THEN r
                                     ELSE outcome[d]]
      /\ ticket' = IF ticket = c THEN None ELSE ticket
      /\ cancelled' = cancelled \ {c} /\ joined' = joined
      /\ job \in [Calls -> PP!Jobs] /\ job' = [job EXCEPT ![c] = "none"]
      /\ session \in [Calls -> Sources \cup {None}] /\ session' = [session EXCEPT ![c] = None]
  BY ProviderNames DEF P!SettleTicket, PartsInv, PP!PTypeOK, TypeOK
<1>2. CASE ticket = c
  BY <1>1, <1>2 DEF TicketCurrent, StartIsTicket
<1>3. CASE ticket # c
  BY <1>1, <1>3 DEF TicketCurrent, StartIsTicket
<1>4. QED BY <1>2, <1>3

\* A current ticket that is not connecting has nothing live beside it.
LEMMA NothingLive ==
  ASSUME PeersAreOwned, TicketCurrent, job[ticket] # "connecting"
  PROVE  NoLive
BY DEF PeersAreOwned, NoLive, PP!Live

\* The steps of a start that the session does not see (#startStreamOnce).
LEMMA TicketOwner ==
  ASSUME PartsInv, StartIsTicket, PeersAreOwned, UNCHANGED vars, NEW c \in Calls,
         \/ P!TicketFails(c) \/ P!ReadKeys(c) \/ P!ReplacePrevious(c)
         \/ P!ReadCipher(c) \/ P!ConnectFails(c)
         \/ \E s \in Sources : P!Connect(c, s)
  PROVE  StartIsTicket' /\ PeersAreOwned'
<1>1. UNCHANGED <<start, stop, source, owned>>
  BY DEF vars
<1>2. /\ ticket \in Calls \cup {None} /\ c # None
      /\ job \in [Calls -> PP!Jobs] /\ session \in [Calls -> Sources \cup {None}]
      /\ peer \in [Sources -> PP!Live \cup {"closing", "closed"}]
      /\ entry \in Sources \cup {None}
  BY ProviderNames DEF PartsInv, PP!PTypeOK
<1>3. CASE P!TicketFails(c)
  <2>1. /\ P!SettleTicket(c, "rejected") /\ job[c] # "connecting"
        /\ UNCHANGED <<entry, peer, stopPc, stopTarget>>
    BY <1>3 DEF P!TicketFails, P!stopVars
  <2>2. StartIsTicket'
    BY <1>1, <2>1, SettleOwner
  <2>3. \A s \in Sources :
          peer'[s] = "opening"
            => TicketCurrent' /\ job'[ticket'] = "connecting" /\ session'[ticket'] = s
    <3>1. SUFFICES ASSUME NEW s \in Sources, peer[s] = "opening"
                   PROVE  TicketCurrent' /\ job'[ticket'] = "connecting" /\ session'[ticket'] = s
      BY <2>1
    <3>2. TicketCurrent /\ job[ticket] = "connecting" /\ session[ticket] = s
      BY <3>1 DEF PeersAreOwned
    <3>3. ticket # c
      BY <2>1, <3>2
    <3>4. QED BY <1>2, <2>1, <3>2, <3>3 DEF P!SettleTicket, TicketCurrent
  <2>4. TicketCurrent' => TicketCurrent
    BY <1>1, <2>1, SettleOwner
  <2>5. start # None /\ outcome'[start] = "rejected"
          => outcome[start] = "rejected" \/ TicketCurrent
    BY <1>1, <2>1, SettleOwner
  <2>6. PeersAreOwned'
    BY <1>1, <2>1, <2>3, <2>4, <2>5 DEF PeersAreOwned, NoLive
  <2>7. QED BY <2>2, <2>6
<1>4. CASE P!ReadKeys(c) \/ P!ReadCipher(c)
  <2>1. /\ TicketCurrent /\ ticket = c /\ job[c] # "connecting"
        /\ UNCHANGED <<ticket, cancelled, joined, outcome, entry, peer, stopPc, stopTarget>>
    BY <1>2, <1>4
    DEF P!ReadKeys, P!ReadCipher, P!Advance, P!Current, P!stopVars, TicketCurrent
  <2>2. NoLive
    BY <2>1, NothingLive
  <2>3. QED
    BY <1>1, <2>1, <2>2
    DEF StartIsTicket, PeersAreOwned, TicketCurrent, NoLive, PP!Live
<1>5. CASE P!ReplacePrevious(c)
  <2>1. /\ TicketCurrent /\ ticket = c /\ job[c] # "connecting" /\ P!ClosePeer(entry)
        /\ UNCHANGED <<ticket, cancelled, joined, outcome, entry, stopPc, stopTarget>>
    BY <1>2, <1>5
    DEF P!ReplacePrevious, P!Advance, P!Current, P!stopVars, TicketCurrent
  <2>2. NoLive
    BY <2>1, NothingLive
  <2>3. peer' = peer
    BY <1>2, <2>1, <2>2 DEF P!ClosePeer, NoLive, P!Live, PP!Live
  <2>4. QED
    BY <1>1, <2>1, <2>2, <2>3
    DEF StartIsTicket, PeersAreOwned, TicketCurrent, NoLive, PP!Live
<1>6. ASSUME NEW s \in Sources, P!Connect(c, s)
      PROVE  StartIsTicket' /\ PeersAreOwned'
  <2>1. /\ TicketCurrent /\ ticket = c /\ job[c] # "connecting"
        /\ UNCHANGED <<ticket, cancelled, joined, outcome, stopPc, stopTarget>>
        /\ job' = [job EXCEPT ![c] = "connecting"]
        /\ session' = [session EXCEPT ![c] = s] /\ entry' = s
        /\ peer' = [peer EXCEPT ![s] = "opening"]
    BY <1>2, <1>6 DEF P!Connect, P!Advance, P!Current, P!stopVars, TicketCurrent
  <2>2. NoLive /\ ~stop
    BY <2>1, NothingLive DEF StartIsTicket
  <2>3. StartIsTicket'
    BY <1>1, <2>1 DEF StartIsTicket, TicketCurrent
  <2>4. /\ job'[ticket'] = "connecting" /\ session'[ticket'] = s /\ TicketCurrent'
        /\ \A x \in Sources : peer'[x] = IF x = s THEN "opening" ELSE peer[x]
    BY <1>2, <2>1 DEF TicketCurrent
  <2>5. PeersAreOwned'
    BY <1>1, <2>1, <2>2, <2>4 DEF PeersAreOwned, NoLive, PP!Live
  <2>6. QED BY <2>3, <2>5
<1>7. CASE P!ConnectFails(c)
  <2>1. /\ P!SettleTicket(c, "rejected") /\ P!ClosePeer(session[c])
        /\ session[c] \in Sources /\ UNCHANGED <<stopPc, stopTarget>>
        /\ entry' = IF entry = session[c] THEN None ELSE entry
    BY <1>2, <1>7 DEF P!ConnectFails, P!stopVars, PartsInv, Link
  <2>2. \A x \in Sources :
          /\ peer'[x] \in PP!Live => peer'[x] = peer[x] /\ x # session[c]
          /\ x # session[c] => peer'[x] = peer[x]
    BY <1>2, <2>1, ProviderNames DEF P!ClosePeer, P!Live, PP!Live
  <2>3. StartIsTicket'
    BY <1>1, <2>1, SettleOwner
  <2>4. ASSUME NEW s \in Sources, peer'[s] = "opening"
        PROVE  TicketCurrent' /\ job'[ticket'] = "connecting" /\ session'[ticket'] = s
    <3>1. peer[s] = "opening" /\ s # session[c]
      BY <2>2, <2>4 DEF PP!Live
    <3>2. TicketCurrent /\ job[ticket] = "connecting" /\ session[ticket] = s
      BY <3>1 DEF PeersAreOwned
    <3>3. ticket # c
      BY <3>1, <3>2
    <3>4. QED BY <1>2, <2>1, <3>2, <3>3 DEF P!SettleTicket, TicketCurrent
  <2>5. TicketCurrent' => TicketCurrent
    BY <1>1, <2>1, SettleOwner
  <2>6. start # None /\ outcome'[start] = "rejected"
          => outcome[start] = "rejected" \/ TicketCurrent
    BY <1>1, <2>1, SettleOwner
  <2>7. \A x \in Sources : peer'[x] = "open" => peer[x] = "open"
    BY <2>2 DEF PP!Live
  <2>8. (stop => NoLive)'
    BY <1>1, <2>2 DEF PeersAreOwned, NoLive
  <2>9. (entry # None /\ peer[entry] \notin PP!Live
           => stopPc = "draining" /\ stopTarget = entry)'
    BY <1>2, <2>1, <2>2 DEF PeersAreOwned
  <2>10. PeersAreOwned'
    BY <1>1, <2>1, <2>4, <2>5, <2>6, <2>7, <2>8, <2>9 DEF PeersAreOwned
  <2>11. QED BY <2>3, <2>10
<1>8. QED BY <1>3, <1>4, <1>5, <1>6, <1>7

\* Sessions end only when they are closed: their END concerns nobody live.
LEMMA PeerOwner ==
  ASSUME PartsInv, StartIsTicket, PeersAreOwned, UNCHANGED vars, ~PeerMayEnd,
         NEW s \in Sources, P!PeerEnds(s) \/ P!PeerDrained(s)
  PROVE  StartIsTicket' /\ PeersAreOwned'
<1>1. UNCHANGED <<start, stop, source, owned>>
  BY DEF vars
<1>2. peer \in [Sources -> PP!Live \cup {"closing", "closed"}]
  BY DEF PartsInv, PP!PTypeOK
<1>3. /\ peer[s] = "closing" /\ peer' = [peer EXCEPT ![s] = "closed"]
      /\ UNCHANGED <<ticket, cancelled, job, session, joined, outcome, entry, stopPc,
                     stopTarget>>
  BY DEF P!PeerEnds, P!PeerDrained, P!ticketVars, P!stopVars
<1>4. \A x \in Sources : /\ peer'[x] \in PP!Live => peer'[x] = peer[x]
                         /\ peer[x] \in PP!Live => peer'[x] = peer[x]
  BY <1>2, <1>3 DEF PP!Live
<1>5. StartIsTicket'
  BY <1>1, <1>3 DEF StartIsTicket, TicketCurrent
<1>6. TicketCurrent' = TicketCurrent /\ (NoLive => NoLive')
  BY <1>3, <1>4 DEF TicketCurrent, NoLive
<1>7. \A x \in Sources : /\ peer'[x] = "open" => peer[x] = "open"
                         /\ peer'[x] = "opening" => peer[x] = "opening"
  BY <1>4 DEF PP!Live
<1>8. entry # None => (peer'[entry] \in PP!Live <=> peer[entry] \in PP!Live)
  <2>1. entry \in Sources \cup {None}
    BY DEF PartsInv, PP!PTypeOK
  <2>2. QED BY <2>1, <1>4
<1>9. PeersAreOwned'
  BY <1>1, <1>3, <1>6, <1>7, <1>8 DEF PeersAreOwned
<1>10. QED BY <1>5, <1>9

\* The provider's own steps leave the session alone.
LEMMA ProviderOwner ==
  ASSUME PartsInv, OwnerInv, ProviderActs, ~PeerMayEnd
  PROVE  OwnerInv'
<1>1. EndedIsOver'
  <2>1. ASSUME NEW c \in Calls,
               \/ P!TicketFails(c) \/ P!ReadKeys(c) \/ P!ReadCipher(c)
        PROVE  EndedIsOver'
    BY <2>1 DEF P!TicketFails, P!ReadKeys, P!ReadCipher, OwnerInv, EndedIsOver
  <2>2. ASSUME NEW c \in Calls, P!ReplacePrevious(c) \/ P!ConnectFails(c)
        PROVE  EndedIsOver'
    <3>1. entry \in Sources \cup {None} /\ session[c] \in Sources \cup {None}
      BY DEF PartsInv, PP!PTypeOK
    <3>2. QED
      BY <2>2, <3>1, ClosedIsOver
      DEF P!ReplacePrevious, P!ConnectFails, OwnerInv, PartsInv
  <2>3. ASSUME NEW c \in Calls, NEW s \in Sources, P!Connect(c, s)
        PROVE  EndedIsOver'
    BY <2>3 DEF P!Connect, P!FreePeer, OwnerInv, EndedIsOver, PartsInv, PP!PTypeOK
  <2>4. ASSUME NEW s \in Sources, P!PeerEnds(s) \/ P!PeerDrained(s)
        PROVE  EndedIsOver'
    BY <2>4
    DEF P!PeerEnds, P!PeerDrained, OwnerInv, EndedIsOver, PartsInv, PP!PTypeOK, PP!Live
  <2>5. QED BY <2>1, <2>2, <2>3, <2>4 DEF ProviderActs
<1>2. ASSUME ~closed'
      PROVE  Public' /\ SessionOwned' /\ StartIsTicket' /\ PeersAreOwned'
  <2>1. ~closed /\ UNCHANGED vars
    BY <1>2 DEF ProviderActs, vars
  <2>2. Public /\ SessionOwned /\ StartIsTicket /\ PeersAreOwned
    BY <2>1 DEF OwnerInv
  <2>3. Public' /\ SessionOwned'
    BY <2>1, <2>2 DEF vars, Public, SessionOwned, Unused
  <2>4. QED BY <2>1, <2>2, <2>3, TicketOwner, PeerOwner DEF ProviderActs
<1>3. QED BY <1>1, <1>2 DEF OwnerInv

-----------------------------------------------------------------------------
(* Reports of the provider *)

\* streamStarted: the session attaches what its current ticket has opened.
LEMMA StartedOwner ==
  ASSUME PartsInv, OwnerInv, NEW c \in Calls, StreamStarted(c)
  PROVE  OwnerInv'
<1> DEFINE s == session[c]
<1>1. /\ s \in Sources /\ s # None /\ peer[s] = "opening"
      /\ job[c] = "connecting" /\ c \notin cancelled /\ ticket = c /\ c # None
      /\ peer' = [peer EXCEPT ![s] = "open"] /\ P!SettleTicket(c, "resolved")
      /\ UNCHANGED <<entry, ended, stopPc, stopTarget>> /\ source' = s
      /\ state' = "streaming"
      /\ UNCHANGED <<closed, start, promise, owned, stop, private, abandoned, kind,
                     clients, leases, stopTimer>>
  BY ProviderNames
  DEF StreamStarted, P!Connected, P!Current, P!stopVars, AttachSource, PartsInv, Link
<1>2. peer \in [Sources -> PP!Live \cup {"closing", "closed"}]
  BY DEF PartsInv, PP!PTypeOK
<1>3. EndedIsOver'
  BY <1>1, <1>2 DEF OwnerInv, EndedIsOver, PP!Live
<1>4. ASSUME ~closed'
      PROVE  Public' /\ SessionOwned' /\ StartIsTicket' /\ PeersAreOwned'
  <2>1. Public /\ SessionOwned /\ StartIsTicket /\ PeersAreOwned
    BY <1>1, <1>4 DEF OwnerInv
  <2>2. TicketCurrent /\ ~stop /\ start # None /\ owned /\ outcome[start] = "pending"
        /\ joined[start] = c
    BY <1>1, <2>1 DEF TicketCurrent, StartIsTicket, SessionOwned
  <2>3. Public' /\ SessionOwned'
    BY <1>1, <2>1, <2>2 DEF Public, SessionOwned, Unused
  <2>4. ticket' = None /\ start \in Calls /\ outcome'[start] = "resolved"
    <3>1. start \in Calls
      BY <2>2 DEF PartsInv, TypeOK
    <3>2. QED BY <1>1, <2>2, <3>1 DEF P!SettleTicket
  <2>5. StartIsTicket'
    BY <1>1, <2>2, <2>4 DEF StartIsTicket, TicketCurrent
  <2>6. \A x \in Sources : peer'[x] \in PP!Live => x = s /\ peer'[x] = "open"
    BY <1>1, <1>2, <2>1, <2>2 DEF PeersAreOwned, PP!Live
  <2>7. entry = s
    BY <1>1 DEF PartsInv, PP!ConnectInv, PP!LivePeerIsEntry, PP!Live
  <2>8. peer'[entry'] = "open"
    BY <1>1, <1>2, <2>7
  <2>9. PeersAreOwned'
    BY <1>1, <2>1, <2>2, <2>4, <2>6, <2>8 DEF PeersAreOwned, TicketCurrent, PP!Live
  <2>10. QED BY <2>3, <2>5, <2>9
<1>5. QED BY <1>3, <1>4 DEF OwnerInv

\* A session that detaches with nothing live owns nothing any more (markStopped,
\* #sourceEnded).
LEMMA DetachOwner ==
  ASSUME Public, SessionOwned, StartIsTicket, PeersAreOwned, ~TicketCurrent, NoLive,
         NEW new \in {"idle", "error"}, Detach(new), UNCHANGED <<stop, trialVars, kind>>,
         UNCHANGED <<ticket, cancelled, peer>>,
         entry' # None => entry' = entry /\ stopPc' = "draining" /\ stopTarget' = entry,
         stopPc' # "none" => stop, stopPc' = "draining" => stopTarget' # None
  PROVE  Public' /\ SessionOwned' /\ StartIsTicket' /\ PeersAreOwned'
<1>1. ~owned' /\ source' = None /\ start' = None /\ state' = new
  BY DEF Detach, CleanupSource, RetireStart, Public
<1>2. Public' /\ SessionOwned'
  BY <1>1 DEF Public, SessionOwned
<1>3. ~TicketCurrent' /\ NoLive'
  BY DEF TicketCurrent, NoLive
<1>4. QED BY <1>1, <1>2, <1>3 DEF StartIsTicket, PeersAreOwned, NoLive, PP!Live

\* The end of an attached output finds nothing live (#sourceEnded).
LEMMA EndedOwner ==
  ASSUME PartsInv, OwnerInv, NEW s \in Sources, OutputEnded(s)
  PROVE  OwnerInv'
<1>1. /\ s \in ended /\ ended' = ended \ {s} /\ peer[s] \notin PP!Live /\ s # None
      /\ UNCHANGED <<ticket, cancelled, job, session, joined, outcome, entry, peer,
                     stopPc, stopTarget>>
  BY ProviderNames
  DEF OutputEnded, P!OutputEnds, P!ticketVars, P!stopVars, OwnerInv, EndedIsOver
<1>2. EndedIsOver'
  BY <1>1 DEF OwnerInv, EndedIsOver
<1>3. ASSUME ~closed', s # source
      PROVE  Public' /\ SessionOwned' /\ StartIsTicket' /\ PeersAreOwned'
  BY <1>1, <1>3
  DEF OutputEnded, OwnerInv, vars, Public, SessionOwned, Unused, StartIsTicket,
      PeersAreOwned, TicketCurrent, NoLive
<1>4. ASSUME ~closed', s = source
      PROVE  Public' /\ SessionOwned' /\ StartIsTicket' /\ PeersAreOwned'
  <2>1. /\ Detach("idle") /\ UNCHANGED <<closed, stop, trialVars, kind>>
    BY <1>4 DEF OutputEnded, SourceEnded
  <2>2. Public /\ SessionOwned /\ StartIsTicket /\ PeersAreOwned
    BY <1>4, <2>1 DEF OwnerInv
  <2>3. ~TicketCurrent
    BY <1>1, <1>4, <2>2 DEF StartIsTicket
  <2>4. NoLive
    BY <1>1, <1>4, <2>2, <2>3 DEF PeersAreOwned, NoLive, PP!Live
  <2>5. entry # None => stopPc = "draining" /\ stopTarget = entry
    <3>1. entry \in Sources \cup {None}
      BY DEF PartsInv, PP!PTypeOK
    <3>2. QED BY <2>2, <2>4, <3>1 DEF PeersAreOwned, NoLive
  <2>6. stopPc # "none" => stop /\ (stopPc = "draining" => stopTarget # None)
    BY <2>2 DEF PeersAreOwned
  <2>7. QED BY <1>1, <2>1, <2>2, <2>3, <2>4, <2>5, <2>6, DetachOwner
<1>5. QED BY <1>2, <1>3, <1>4 DEF OwnerInv

\* The report that a source has stopped, from #finalizeStream or stopStream: it
\* comes while the stop is pending, after everything was closed.
LEMMA StoppedOwner ==
  ASSUME PartsInv, OwnerInv, StopDrained \/ \E s \in Sources : StreamStopped(s)
  PROVE  OwnerInv'
<1>1. PICK s \in Sources \cup {None} :
        /\ s # None \/ (stopPc = "draining" /\ s = stopTarget)
        /\ IF entry = s THEN MarkStopped ELSE UNCHANGED vars
        /\ entry' = IF entry = s THEN None ELSE entry
        /\ peer[s] = "closed"
        /\ UNCHANGED <<ticket, cancelled, job, session, joined, outcome, peer, ended,
                       stopTarget>>
        /\ \/ stopPc' = stopPc
           \/ stopPc = "draining" /\ stopPc' = "done" /\ s = stopTarget
  BY ProviderNames
  DEF StopDrained, StreamStopped, P!StopDrained, P!Finalize, P!ticketVars,
      P!stopVars, PartsInv, PP!PTypeOK
<1>2. EndedIsOver'
  BY <1>1 DEF OwnerInv, EndedIsOver
<1>3. ASSUME ~closed'
      PROVE  Public' /\ SessionOwned' /\ StartIsTicket' /\ PeersAreOwned'
  <2>1. UNCHANGED <<closed, stop, trialVars, kind>>
    BY <1>1 DEF MarkStopped, vars
  <2>2. Public /\ SessionOwned /\ StartIsTicket /\ PeersAreOwned
    BY <1>3, <2>1 DEF OwnerInv
  <2>3. s # None /\ (stopPc' # "none" => stop)
        /\ (stopPc' = "draining" => stopTarget # None)
    BY <1>1, <2>2 DEF PeersAreOwned
  <2>4. CASE entry # s
    <3>1. entry # None /\ peer[entry] \notin PP!Live
            => stopPc' = "draining" /\ stopTarget = entry
      BY <1>1, <2>2, <2>4 DEF PeersAreOwned
    <3>2. QED
      BY <1>1, <2>2, <2>3, <2>4, <3>1
      DEF vars, Public, SessionOwned, Unused, StartIsTicket, PeersAreOwned,
          TicketCurrent, NoLive
  <2>5. CASE entry = s
    <3>1. stop
      BY <1>1, <2>2, <2>3, <2>5 DEF PeersAreOwned, PP!Live
    <3>2. ~TicketCurrent /\ NoLive
      BY <2>2, <3>1 DEF PeersAreOwned, StartIsTicket
    <3>3. Detach("idle")
      BY <1>1, <2>5 DEF MarkStopped
    <3>4. QED BY <1>1, <2>1, <2>2, <2>3, <2>5, <3>2, <3>3, DetachOwner
  <2>6. QED BY <2>4, <2>5
<1>4. QED BY <1>2, <1>3 DEF OwnerInv

\* The stop settles after its report: nothing is live, owned or pending
\* (#stopOwnedSource).
LEMMA ResolvedOwner ==
  ASSUME PartsInv, OwnerInv, StopResolved
  PROVE  OwnerInv'
<1>1. /\ stop /\ ~stop' /\ stopPc = "done" /\ stopPc' = "none"
      /\ IF state = "stopping" THEN source' = None /\ state' = "idle" /\ owned' = FALSE
         ELSE UNCHANGED <<state, owned, source>>
      /\ UNCHANGED <<closed, start, trialVars, kind, stopTimer, clients, leases>>
      /\ UNCHANGED <<ticket, cancelled, job, session, joined, outcome, entry, peer, ended>>
  BY DEF StopResolved, P!StopResolves, StopSettles, CleanupSource, P!ticketVars
<1>2. EndedIsOver'
  BY <1>1 DEF OwnerInv, EndedIsOver
<1>3. ASSUME ~closed'
      PROVE  Public' /\ SessionOwned' /\ StartIsTicket' /\ PeersAreOwned'
  <2>1. Public /\ SessionOwned /\ StartIsTicket /\ PeersAreOwned
    BY <1>1, <1>3 DEF OwnerInv
  <2>2. start = None /\ ~TicketCurrent /\ NoLive /\ ~owned'
        /\ (source' # None => state' \in {"streaming", "stopping"})
        /\ state' # "stopping"
    BY <1>1, <2>1
    DEF PartsInv, IsolationInv, StopExcludesStart, Public, SessionOwned,
        StartIsTicket, PeersAreOwned
  <2>3. Public' /\ SessionOwned'
    BY <1>1, <2>1, <2>2 DEF Public, SessionOwned
  <2>4. entry \in Sources \cup {None} /\ (entry # None => peer[entry] \in PP!Live)
    BY <1>1, <2>1 DEF PeersAreOwned, PartsInv, PP!PTypeOK
  <2>5. entry = None
    BY <2>2, <2>4 DEF NoLive
  <2>6. QED
    BY <1>1, <2>2, <2>3, <2>5
    DEF StartIsTicket, PeersAreOwned, TicketCurrent, NoLive, PP!Live
<1>4. QED BY <1>2, <1>3 DEF OwnerInv

\* startStream settles: the session's start is over with it, and a failed one
\* leaves nothing open (#ensureStarted).
LEMMA SettledOwner ==
  ASSUME PartsInv, OwnerInv, NEW c \in Calls, CallSettled(c)
  PROVE  OwnerInv'
<1>1. /\ c # None /\ outcome[c] \in {"resolved", "rejected"}
      /\ outcome \in [Calls -> {"none", "pending", "resolved", "rejected"}]
      /\ outcome' = [outcome EXCEPT ![c] = "none"]
      /\ joined \in [Calls -> Calls \cup {None}] /\ joined' = [joined EXCEPT ![c] = None]
      /\ start \in Calls \cup {None}
      /\ UNCHANGED <<ticket, cancelled, job, session, entry, peer, ended, stopPc,
                     stopTarget>>
      /\ UNCHANGED <<closed, stop, kind>>
  BY ProviderNames
  DEF CallSettled, P!CallSettles, P!stopVars, StartSucceeds, StartFails, PartsInv,
      PP!PTypeOK, TypeOK
<1>2. EndedIsOver'
  BY <1>1 DEF OwnerInv, EndedIsOver
<1>3. ASSUME ~closed'
      PROVE  Public' /\ SessionOwned' /\ StartIsTicket' /\ PeersAreOwned'
  <2>1. Public /\ SessionOwned /\ StartIsTicket /\ PeersAreOwned
    BY <1>1, <1>3 DEF OwnerInv
  <2>2. CASE start # c
    <3>1. UNCHANGED <<start, state, owned, source, trialVars, stopTimer, clients, leases>>
      BY <2>2 DEF CallSettled, StartSucceeds, StartFails
    <3>2. start # None => outcome'[start] = outcome[start] /\ joined'[start] = joined[start]
      BY <1>1, <2>2
    <3>3. QED
      BY <1>1, <2>1, <3>1, <3>2
      DEF Public, SessionOwned, Unused, StartIsTicket, PeersAreOwned, TicketCurrent,
          NoLive
  <2>3. CASE start = c
    <3>1. ~TicketCurrent /\ start' = None
      BY <1>1, <2>1, <2>3 DEF StartIsTicket, CallSettled, StartSucceeds, StartFails
    <3>2. StartIsTicket'
      BY <1>1, <3>1 DEF StartIsTicket, TicketCurrent
    <3>3. CASE P!CallSettles(c, "resolved") /\ StartSucceeds(c)
      <4>1. UNCHANGED <<state, owned, source, trialVars, stopTimer, clients, leases>>
        BY <3>3 DEF StartSucceeds
      <4>2. QED
        BY <1>1, <2>1, <3>1, <3>2, <4>1
        DEF Public, SessionOwned, Unused, PeersAreOwned, TicketCurrent, NoLive
    <3>4. CASE P!CallSettles(c, "rejected") /\ StartFails(c)
      <4>1. ~stop
        BY <1>1, <2>1, <2>3
        DEF Public, PartsInv, IsolationInv, StopExcludesStart
      <4>2. /\ source' = None /\ ~owned' /\ state' = "error" /\ trialVars' = trialVars
        BY <2>1, <2>3, <3>4 DEF StartFails, CleanupSource, Public
      <4>3. \A x \in Sources : peer[x] # "open"
        BY <1>1, <2>1, <2>3, <3>4 DEF PeersAreOwned, P!CallSettles
      <4>4. Public' /\ SessionOwned'
        BY <1>1, <2>1, <3>1, <4>1, <4>2 DEF Public, SessionOwned
      <4>5. PeersAreOwned'
        BY <1>1, <2>1, <3>1, <4>1, <4>3 DEF PeersAreOwned, TicketCurrent
      <4>6. QED BY <3>2, <4>4, <4>5
    <3>5. QED BY <3>3, <3>4 DEF CallSettled
  <2>4. QED BY <2>2, <2>3
<1>4. QED BY <1>2, <1>3 DEF OwnerInv

-----------------------------------------------------------------------------
\* As long as sessions end only when they are closed, the ownership of whatever
\* is live is kept in every state.
LEMMA OwnerCorrect ==
  ASSUME ~PeerMayEnd
  PROVE  SysSpec => [](PartsInv /\ OwnerInv)
<1>1. SysInit => OwnerInv
  BY PublicTasksOnly
  DEF SysInit, Init, P!PInit, OwnerInv, EndedIsOver, Public, SessionOwned,
      StartIsTicket, PeersAreOwned, TicketCurrent, NoLive, PP!Live
<1>2. ASSUME PartsInv, OwnerInv, [SysNext]_sysVars
      PROVE  OwnerInv'
  <2>1. CASE UNCHANGED sysVars
    BY <1>2, <2>1
    DEF sysVars, streamVars, vars, OwnerInv, EndedIsOver, Public, SessionOwned, Unused,
        StartIsTicket, PeersAreOwned, TicketCurrent, NoLive
  <2>2. QED
    BY <1>2, <2>1, SessionOwner, ProviderOwner, StartedOwner, EndedOwner,
       StoppedOwner, ResolvedOwner, SettledOwner
    DEF SysNext
<1>3. SysSpec => [](TypeOK /\ IsolationInv)
  BY SessionImplemented, TypeCorrect, IsolationInvCorrect, PTL
<1>4. Link /\ TypeOK /\ IsolationInv /\ PP!PTypeOK /\ PP!ConnectInv <=> PartsInv
  BY DEF PartsInv
<1>5. QED BY <1>1, <1>2, <1>3, <1>4, LinkCorrect, ProviderSafe, PTL DEF SysSpec

\* As long as sessions end only when they are closed, no live source of an open
\* gateway is left without a user, a stop or the idle timer.
THEOREM NoOrphanCorrect ==
  ASSUME ~PeerMayEnd
  PROVE  SysSpec => []NoOrphanSource
<1>1. OwnerInv => NoOrphanSource
  BY DEF OwnerInv, SessionOwned, PeersAreOwned, NoOrphanSource
<1>2. QED BY <1>1, OwnerCorrect, PTL

-----------------------------------------------------------------------------
(* The gate before a stop *)

\* A stop finds no viewers and keeps new ones out; whoever it has let go on
\* finds no stop, and a source only with a viewer.
GateInv ==
  /\ stop => clients = {}
  /\ (\E v \in Viewers : phase[v] = "admitted") => ~stop /\ (owned => clients # {})

\* Handlers that begin no stop and let nobody pass the gate.
LEMMA GateKept ==
  ASSUME GateInv, stop' => stop, clients' \subseteq clients,
         \A v \in Viewers : phase'[v] = "admitted" => phase[v] = "admitted",
         \/ owned' => owned /\ clients' = clients
         \/ \A v \in Viewers : phase[v] # "admitted"
  PROVE  GateInv'
BY DEF GateInv

\* A handler that moves one call moves nobody else past the gate.
LEMMA OnePhase ==
  ASSUME TypeOK, NEW u \in Users, NEW p \in Phases \ {"admitted"},
         phase' = [phase EXCEPT ![u] = p]
  PROVE  \A v \in Viewers : phase'[v] = "admitted" => phase[v] = "admitted" /\ v # u
BY DEF TypeOK, Users

\* A user that joins a start passes the gate (JoinStart).
LEMMA JoinPhase ==
  ASSUME TypeOK, NEW u \in Users, NEW p \in Phases \ {"admitted"},
         NEW q \in Phases \ {"admitted"}, JoinStart(u, p, q)
  PROVE  \A v \in Viewers : phase'[v] = "admitted" => phase[v] = "admitted" /\ v # u
<1>1. PICK r \in {p, q, "starting"} : phase' = [phase EXCEPT ![u] = r]
  BY DEF JoinStart
<1>2. QED BY <1>1, OnePhase DEF Phases

\* A viewer that comes to an open gate, or passes it, finds no stop (#addClient).
LEMMA GateRegister ==
  ASSUME TypeOK, GateInv, NEW v \in Viewers, ~stop, Register(v)
  PROVE  GateInv'
<1>1. stop' = stop /\ v \in clients'
  BY DEF Register
<1>2. QED BY <1>1 DEF GateInv

\* The steps of viewers, of which only the continuation of the gate may follow
\* another one (addClient, #removeClient).
LEMMA GateViewer ==
  ASSUME TypeOK, GateInv, NEW v \in Viewers,
         \/ AdmitClient(v) \/ ClientStarted(v)
         \/ /\ \A w \in Viewers : phase[w] # "admitted"
            /\ AddClient(v) \/ ClientCloses(v) \/ GateAbandoned(v)
  PROVE  GateInv'
<1>1. CASE Register(v) /\ (AddClient(v) \/ AdmitClient(v))
  <2>1. ~stop
    <3>1. CASE AddClient(v)
      BY <1>1, <3>1 DEF AddClient, Register, JoinStart, EnsureStarted, TypeOK, Users,
        GateInv
    <3>2. CASE AdmitClient(v)
      BY <3>2 DEF AdmitClient, GateInv
    <3>3. QED BY <1>1, <3>1, <3>2
  <2>2. QED BY <1>1, <2>1, GateRegister
<1>2. ASSUME NEW p \in Phases \ {"admitted"}, phase' = [phase EXCEPT ![v] = p],
             UNCHANGED <<stop, owned, clients>>
      PROVE  GateInv'
  BY <1>2, OnePhase, GateKept DEF Users
<1>3. CASE (AddClient(v) \/ AdmitClient(v)) /\ ~Register(v)
  BY <1>2, <1>3 DEF AddClient, AdmitClient, Phases
<1>4. CASE ClientStarted(v) \/ GateAbandoned(v)
  BY <1>2, <1>4 DEF ClientStarted, GateAbandoned, Phases
<1>5. CASE ClientCloses(v) /\ \A w \in Viewers : phase[w] # "admitted"
  <2>1. /\ stop' = stop /\ clients' \subseteq clients
        /\ phase' = [phase EXCEPT ![v] = "out"]
    BY <1>5 DEF ClientCloses
  <2>2. \A w \in Viewers : phase'[w] = "admitted" => phase[w] = "admitted"
    BY <2>1, OnePhase DEF Phases, Users
  <2>3. QED BY <1>5, <2>1, <2>2, GateKept
<1>6. QED BY <1>1, <1>3, <1>4, <1>5

\* The steps of tasks: the last one to leave a source stops it only if no viewer
\* is on its way to it (recordClip, captureStartupSnapshot).
LEMMA GateTask ==
  ASSUME TypeOK, GateInv, ~private, NEW t \in Tasks,
         \/ TaskStarted(t) \/ CaptureAnswered(t) \/ RecordingAnswered(t)
         \/ ReleaseTask(t) \/ OperationEnds(t) \/ AbortTrial(t)
         \/ SnapshotTimeout(t) \/ SettleRecording(t)
         \/ BeginTask(t) /\ \A w \in Viewers : phase[w] # "admitted"
  PROVE  GateInv'
<1>1. t \in Users /\ \A v \in Viewers : v # t
  BY ConstantsAssumption DEF Users
<1>2. ASSUME NEW p \in Phases \ {"admitted"}, phase' = [phase EXCEPT ![t] = p],
             UNCHANGED <<stop, owned, clients>>
      PROVE  GateInv'
  BY <1>1, <1>2, OnePhase, GateKept
<1>3. CASE TaskStarted(t) \/ CaptureAnswered(t) \/ RecordingAnswered(t)
           \/ OperationEnds(t) \/ AbortTrial(t)
  BY <1>2, <1>3
  DEF TaskStarted, CaptureAnswered, RecordingAnswered, OperationEnds, AbortTrial,
      Phases
<1>4. CASE SnapshotTimeout(t) \/ SettleRecording(t)
  BY <1>4, GateKept DEF SnapshotTimeout, SettleRecording
<1>5. CASE ReleaseTask(t)
  <2>1. PICK p \in {"out", "retiring"} : phase' = [phase EXCEPT ![t] = p]
    BY <1>5 DEF ReleaseTask
  <2> p \in Phases \ {"admitted"}
    BY DEF Phases
  <2>2. /\ UNCHANGED <<owned, clients>>
        /\ stop' # stop => clients = {} /\ owned
    BY <1>5 DEF ReleaseTask, StopsNow, StopOwnedSource
  <2>3. CASE stop' = stop
    BY <1>2, <2>1, <2>2, <2>3
  <2>4. CASE stop' # stop
    <3>1. \A v \in Viewers : phase[v] # "admitted"
      BY <2>2, <2>4 DEF GateInv
    <3>2. \A v \in Viewers : phase'[v] = phase[v]
      BY <1>1, <2>1, OnePhase
    <3>3. \A v \in Viewers : phase'[v] # "admitted"
      BY <3>1, <3>2
    <3>4. QED BY <2>2, <2>4, <3>3 DEF GateInv
  <2>5. QED BY <2>3, <2>4
<1>6. CASE BeginTask(t) /\ \A w \in Viewers : phase[w] # "admitted"
  <2>1. UNCHANGED <<stop, clients>>
    BY <1>6 DEF BeginTask
  <2>2. \A v \in Viewers : phase'[v] = "admitted" => phase[v] = "admitted"
    <3>1. CASE BeginCapture(t) \/ BeginClip(t)
      BY <1>1, <3>1, JoinPhase DEF BeginCapture, BeginClip, Phases
    <3>2. CASE BeginControl(t)
      BY <1>1, <3>2, OnePhase DEF BeginControl, Phases
    <3>3. QED BY <1>6, <3>1, <3>2 DEF BeginTask
  <2>3. QED BY <1>6, <2>1, <2>2, GateKept
<1>7. QED BY <1>3, <1>4, <1>5, <1>6

\* Ended clients are no longer at the gate (EndClients).
LEMMA EndedPhase ==
  ASSUME TypeOK, EndClients
  PROVE  \A v \in Viewers : phase'[v] = "admitted" => phase[v] = "admitted"
BY DEF TypeOK, EndClients, Users

\* Media and timers, none of which fires between two continuations: a stop they
\* begin finds no viewer or ends them all.
LEMMA GateTimer ==
  ASSUME TypeOK, GateInv, StopTimerOnlyWhenUnused,
         \A w \in Viewers : phase[w] # "admitted",
         \/ SourceData \/ StopTimerFires \/ QuietTimerFires
         \/ \E s \in Sources : ImageStored(s) \/ ExtractorExits(s)
  PROVE  GateInv'
<1>1. CASE SourceData \/ \E s \in Sources : ImageStored(s) \/ ExtractorExits(s)
  BY <1>1, GateKept DEF SourceData, ImageStored, ExtractorExits
<1>2. CASE StopTimerFires
  <2>1. clients' = {} /\ phase' = phase
    BY <1>2 DEF StopTimerFires, StopTimerOnlyWhenUnused, Unused
  <2>2. QED BY <2>1 DEF GateInv
<1>3. CASE QuietTimerFires
  <2>1. \/ clients' = {} /\ EndClients
        \/ UNCHANGED <<stop, clients, phase>>
    BY <1>3 DEF QuietTimerFires, Detach
  <2>2. \A v \in Viewers : phase'[v] # "admitted"
    BY <2>1, EndedPhase
  <2>3. QED BY <2>1, <2>2 DEF GateInv
<1>4. QED BY <1>1, <1>2, <1>3

\* A session step of an open gateway keeps the gate.
LEMMA GateSession ==
  ASSUME TypeOK, GateInv, StopTimerOnlyWhenUnused, Public, ~closed',
         Continuation \/ (Idle /\ SessionEvent)
  PROVE  GateInv'
<1>1. CASE Continuation
  BY <1>1, GateViewer, GateTask DEF Continuation, Public
<1>2. CASE Idle /\ SessionEvent
  <2>1. \A w \in Viewers : phase[w] # "admitted"
    BY <1>2 DEF Idle, ContinuationPending, Users
  <2>2. ~Close
    BY DEF Close
  <2>3. QED
    BY <1>2, <2>1, <2>2, GateViewer, GateTask, GateTimer DEF SessionEvent, Public
<1>3. QED BY <1>1, <1>2

\* A source that detaches takes its viewers and its owner with it (markStopped,
\* #sourceEnded).
LEMMA GateDetach ==
  ASSUME TypeOK, GateInv, NEW new, Detach(new), stop' = stop
  PROVE  GateInv'
<1>1. clients' = {} /\ ~owned'
  BY DEF Detach
<1>2. \A v \in Viewers : phase'[v] = "admitted" => phase[v] = "admitted"
  BY EndedPhase DEF Detach
<1>3. QED BY <1>1, <1>2 DEF GateInv

\* The stop that opens the gate leaves nothing owned (#stopOwnedSource).
LEMMA GateOpened ==
  ASSUME SessionOwned, GateInv, StopSettles(TRUE)
  PROVE  GateInv'
<1>1. ~stop' /\ ~owned'
  BY DEF StopSettles, SessionOwned
<1>2. QED BY <1>1 DEF GateInv

\* Every step of an open gateway keeps the gate.
LEMMA GateStep ==
  ASSUME PartsInv, OwnerInv, StopTimerOnlyWhenUnused, ~closed => GateInv,
         [SysNext]_sysVars
  PROVE  ~closed' => GateInv'
<1> SUFFICES ASSUME ~closed' PROVE GateInv'
  OBVIOUS
<1>1. TypeOK
  BY DEF PartsInv
<1>2. CASE SessionActs
  <2>1. ~closed
    BY <1>2, ClosedForGood DEF SessionActs
  <2>2. QED BY <1>1, <1>2, <2>1, GateSession DEF SessionActs, OwnerInv
<1>3. CASE UNCHANGED <<closed, stop, owned, clients, phase>>
  BY <1>3, GateKept
<1>4. CASE ProviderActs \/ UNCHANGED sysVars
  BY <1>3, <1>4 DEF ProviderActs, sysVars, vars
<1>5. ASSUME NEW c \in Calls, StreamStarted(c) PROVE GateInv'
  BY <1>3, <1>5 DEF StreamStarted, AttachSource
<1>6. ASSUME NEW c \in Calls, CallSettled(c) PROVE GateInv'
  <2>1. closed' = closed /\ stop' = stop /\ ~abandoned
    BY <1>6 DEF CallSettled, StartSucceeds, StartFails, OwnerInv, Public
  <2>2. /\ UNCHANGED <<clients, phase>> /\ (owned' => owned)
    BY <1>6, <2>1 DEF CallSettled, StartSucceeds, StartFails
  <2>3. QED BY <2>1, <2>2, GateKept
<1>7. CASE MarkStopped \/ UNCHANGED vars
  BY <1>1, <1>3, <1>7, GateDetach DEF MarkStopped, vars
<1>8. ASSUME NEW s \in Sources, OutputEnded(s) PROVE GateInv'
  <2>1. CASE s = source
    BY <1>1, <1>8, <2>1, GateDetach DEF OutputEnded, SourceEnded
  <2>2. CASE s # source
    BY <1>7, <1>8, <2>2 DEF OutputEnded
  <2>3. QED BY <2>1, <2>2
<1>9. ASSUME StopDrained \/ \E s \in Sources : StreamStopped(s) PROVE GateInv'
  BY <1>7, <1>9 DEF StopDrained, StreamStopped
<1>10. CASE StopResolved
  <2>1. ~closed
    BY <1>10 DEF StopResolved, StopSettles
  <2>2. QED BY <1>10, <2>1, GateOpened DEF StopResolved, OwnerInv
<1>11. QED BY <1>2, <1>4, <1>5, <1>6, <1>8, <1>9, <1>10 DEF SysNext

\* The entry goes when its own start fails, which the session does not see, or
\* with the report that it has stopped, behind a stop that has no viewers.
LEMMA ReportSpares ==
  ASSUME PartsInv, OwnerInv, ~closed => GateInv, [SysNext]_sysVars,
         ~closed, entry # None, entry' = None
  PROVE  clients' = clients
<1>1. entry \in Sources
  BY DEF PartsInv, PP!PTypeOK
<1>2. CASE SessionActs
  BY <1>2, SessionBegins
  DEF SessionActs, ProviderCalled, P!StartStream, P!StopStream, streamVars
<1>3. CASE ProviderActs \/ UNCHANGED sysVars
  BY <1>3 DEF ProviderActs, sysVars, vars
<1>4. ASSUME NEW c \in Calls, StreamStarted(c) \/ CallSettled(c)
      PROVE  clients' = clients
  BY <1>4 DEF StreamStarted, P!Connected, CallSettled, P!CallSettles
<1>5. ASSUME NEW s \in Sources, OutputEnded(s) PROVE clients' = clients
  BY <1>5 DEF OutputEnded, P!OutputEnds
<1>6. ASSUME StopDrained \/ \E s \in Sources : StreamStopped(s)
      PROVE  clients' = clients
  <2>1. /\ clients' \in {clients, {}} /\ peer[entry] = "closed"
    BY <1>1, <1>6
    DEF StopDrained, StreamStopped, P!StopDrained, P!Finalize, MarkStopped, Detach, vars
  <2>2. stop
    BY <1>1, <2>1 DEF OwnerInv, PeersAreOwned, PP!Live
  <2>3. QED BY <2>1, <2>2 DEF GateInv
<1>7. CASE StopResolved
  BY <1>7 DEF StopResolved, P!StopResolves
<1>8. QED BY <1>2, <1>3, <1>4, <1>5, <1>6, <1>7 DEF SysNext

\* As long as sessions end only when they are closed, the report that a retired
\* source has stopped closes no viewer (addClient, markStopped).
THEOREM NewViewersSpared ==
  ASSUME ~PeerMayEnd
  PROVE  SysSpec => StopReportSparesNewViewers
<1>1. SysInit => (~closed => GateInv)
  BY DEF SysInit, Init, GateInv, Users
<1>2. SysSpec => []StopTimerOnlyWhenUnused
  BY SessionImplemented, StopTimerCorrect, PTL
<1>3. SysSpec => [](~closed => GateInv)
  BY <1>1, <1>2, GateStep, OwnerCorrect, PTL DEF SysSpec
<1>4. PartsInv /\ OwnerInv /\ (~closed => GateInv) /\ [SysNext]_sysVars
        => [~closed /\ entry # None /\ entry' = None /\ entry # source
              => clients' = clients]_sysVars
  BY ReportSpares
<1>5. QED
  BY <1>3, <1>4, OwnerCorrect, PTL DEF SysSpec, StopReportSparesNewViewers
===============================================================================
