------------------------ MODULE LiveStreamSystemProofs ------------------------
(***************************************************************************)
(* LiveStreamSystem implements both of its parts, for every set of         *)
(* viewers, tasks, calls and sources: the session in it behaves as         *)
(* LiveStreamManager allows with an arbitrary provider, and it calls the   *)
(* provider only as EufyStreams allows.  What is proved of either part     *)
(* therefore holds in the composition.  Of the two together: the attached  *)
(* source is the provider's current session, or its end event is due.      *)
(***************************************************************************)
EXTENDS LiveStreamSystem, LiveStreamManagerProofs

USE DEF streamVars, providerVars, startVars

-----------------------------------------------------------------------------
\* The unsettled calls of the session are those the provider has not answered,
\* and a connecting ticket has a session.
Link ==
  /\ inflight = {c \in Calls : outcome[c] # "none"}
  /\ outcome \in [Calls -> {"none", "pending", "resolved", "rejected"}]
  /\ job \in [Calls -> P!Jobs]
  /\ session \in [Calls -> Sources \cup {None}]
  /\ entry \in Sources \cup {None}
  /\ \A c \in Calls : job[c] = "connecting" => session[c] \in Sources

\* Settling a ticket answers pending calls only.
LEMMA SettleLink ==
  ASSUME Link, NEW c \in Calls, NEW r \in {"resolved", "rejected"},
         P!SettleTicket(c, r), inflight' = inflight,
         entry' \in Sources \cup {None}
  PROVE  Link'
<1>1. /\ outcome' \in [Calls -> {"none", "pending", "resolved", "rejected"}]
      /\ \A d \in Calls : outcome'[d] # "none" <=> outcome[d] # "none"
  BY DEF Link, P!SettleTicket
<1>2. /\ job' \in [Calls -> P!Jobs] /\ session' \in [Calls -> Sources \cup {None}]
      /\ \A d \in Calls : job'[d] = "connecting" => session'[d] \in Sources
  BY DEF Link, P!SettleTicket, P!Jobs
<1>3. QED BY <1>1, <1>2 DEF Link

\* A ticket moves on without answering anybody.
LEMMA AdvanceLink ==
  ASSUME Link, NEW c \in Calls, NEW j \in P!Jobs, P!Advance(c, j),
         inflight' = inflight, entry' \in Sources \cup {None},
         session' \in [Calls -> Sources \cup {None}],
         \A d \in Calls \ {c} : session'[d] = session[d],
         j = "connecting" => session'[c] \in Sources
  PROVE  Link'
BY DEF Link, P!Advance

\* The steps of a start answer only calls the session still waits for
\* (#startStreamOnce).
LEMMA TicketLink ==
  ASSUME Link, NEW c \in Calls, inflight' = inflight,
         \/ P!TicketFails(c) \/ P!ReadKeys(c) \/ P!ReplacePrevious(c)
         \/ P!ReadCipher(c) \/ P!Connected(c) \/ P!ConnectFails(c)
         \/ \E s \in Sources : P!Connect(c, s)
  PROVE  Link'
<1> USE DEF P!stopVars
<1>1. entry \in Sources \cup {None} /\ session \in [Calls -> Sources \cup {None}]
  BY DEF Link
<1>2. CASE P!TicketFails(c)
  BY <1>1, <1>2, SettleLink DEF P!TicketFails
<1>3. CASE P!ReadKeys(c)
  BY <1>1, <1>3, AdvanceLink DEF P!ReadKeys, P!Jobs
<1>4. CASE P!ReplacePrevious(c)
  <2>1. /\ session' \in [Calls -> Sources \cup {None}]
        /\ \A d \in Calls \ {c} : session'[d] = session[d]
    BY <1>1, <1>4 DEF P!ReplacePrevious
  <2>2. PICK j \in {"ciphers", "replacing"} : P!Advance(c, j)
    BY <1>4 DEF P!ReplacePrevious
  <2>3. QED BY <1>1, <1>4, <2>1, <2>2, AdvanceLink DEF P!ReplacePrevious, P!Jobs
<1>5. CASE P!ReadCipher(c)
  BY <1>1, <1>5, AdvanceLink DEF P!ReadCipher, P!Jobs
<1>6. CASE P!Connected(c)
  BY <1>1, <1>6, SettleLink DEF P!Connected
<1>7. CASE P!ConnectFails(c)
  BY <1>1, <1>7, SettleLink DEF P!ConnectFails
<1>8. ASSUME NEW s \in Sources, P!Connect(c, s) PROVE Link'
  <2>1. /\ session' \in [Calls -> Sources \cup {None}] /\ session'[c] = s
        /\ \A d \in Calls \ {c} : session'[d] = session[d]
    BY <1>1, <1>8 DEF P!Connect
  <2>2. entry' = s /\ P!Advance(c, "connecting") /\ "connecting" \in P!Jobs
    BY <1>8 DEF P!Connect, P!Jobs
  <2>3. QED BY <2>1, <2>2, AdvanceLink
<1>9. QED BY <1>2, <1>3, <1>4, <1>5, <1>6, <1>7, <1>8

\* Steps that answer nobody and move no ticket.
LEMMA LinkKept ==
  ASSUME Link, UNCHANGED <<inflight, outcome, job, session>>,
         entry' \in {entry, None}
  PROVE  Link'
BY DEF Link
-----------------------------------------------------------------------------
(* The session's calls of the provider *)

\* #ensureStarted begins at most one provider start, under a free name.
LEMMA EnsureStartedBegins ==
  ASSUME NEW c, EnsureStarted(c)
  PROVE  \/ inflight' = inflight
         \/ \E d \in Calls \ inflight : inflight' = inflight \cup {d}
BY DEF EnsureStarted, FreeCall

\* A user that joins a start begins at most one (#ensureStarted).
LEMMA JoinBegins ==
  ASSUME NEW u, NEW started, NEW refused, JoinStart(u, started, refused)
  PROVE  \/ inflight' = inflight
         \/ \E d \in Calls \ inflight : inflight' = inflight \cup {d}
BY EnsureStartedBegins DEF JoinStart

\* A session step begins at most one provider start, under a free name.
LEMMA SessionBegins ==
  ASSUME Continuation \/ SessionEvent
  PROVE  \/ inflight' = inflight
         \/ \E d \in Calls \ inflight : inflight' = inflight \cup {d}
<1> DEFINE Begins == \/ inflight' = inflight
                     \/ \E d \in Calls \ inflight : inflight' = inflight \cup {d}
<1>1. ASSUME NEW v \in Viewers,
             \/ AdmitClient(v) \/ ClientStarted(v) \/ AddClient(v)
             \/ ClientCloses(v) \/ GateAbandoned(v)
      PROVE  Begins
  BY <1>1, JoinBegins
  DEF AdmitClient, ClientStarted, AddClient, Register, ClientCloses, GateAbandoned
<1>2. ASSUME NEW t \in Tasks,
             \/ TaskStarted(t) \/ CaptureAnswered(t) \/ RecordingAnswered(t)
             \/ ReleaseTask(t) \/ BeginTask(t) \/ OperationEnds(t)
             \/ AbortTrial(t) \/ SnapshotTimeout(t) \/ SettleRecording(t)
      PROVE  Begins
  BY <1>2, JoinBegins
  DEF TaskStarted, CaptureAnswered, RecordingAnswered, ReleaseTask, BeginTask,
      BeginCapture, BeginClip, BeginControl, OperationEnds, AbortTrial,
      SnapshotTimeout, SettleRecording
<1>3. ASSUME NEW s \in Sources, ImageStored(s) \/ ExtractorExits(s) PROVE Begins
  BY <1>3 DEF ImageStored, ExtractorExits
<1>4. CASE SourceData \/ StopTimerFires \/ QuietTimerFires \/ Close
  BY <1>4 DEF SourceData, StopTimerFires, QuietTimerFires, Close
<1>5. QED BY <1>1, <1>2, <1>3, <1>4 DEF Continuation, SessionEvent

\* What the session asks, the provider can be asked.
LEMMA SessionActsLink ==
  ASSUME Link, SessionActs
  PROVE  Link' /\ [P!PNext]_streamVars
<1>1. CASE inflight' = inflight
  <2>1. P!StopStream \/ UNCHANGED streamVars
    BY <1>1 DEF SessionActs, ProviderCalled
  <2>2. [P!PNext]_streamVars
    BY <2>1 DEF P!PNext
  <2>3. Link'
    BY <1>1, <2>1, LinkKept DEF P!StopStream
  <2>4. QED BY <2>2, <2>3
<1>2. ASSUME NEW d \in Calls \ inflight, inflight' = inflight \cup {d}
      PROVE  Link' /\ [P!PNext]_streamVars
  <2>1. inflight' \ inflight = {d}
    BY <1>2
  <2>2. P!StartStream(d)
    BY <2>1 DEF SessionActs, ProviderCalled
  <2>3. d \in Calls /\ outcome[d] = "none"
    BY <1>2 DEF Link
  <2>4. [P!PNext]_streamVars
    BY <2>2, <2>3 DEF P!PNext
  <2>5. /\ outcome' = [outcome EXCEPT ![d] = "pending"]
        /\ entry' = entry
        /\ \/ UNCHANGED <<job, session>>
           \/ /\ job' = [job EXCEPT ![d] = "queued"]
              /\ session' = [session EXCEPT ![d] = None]
    BY <2>2 DEF P!StartStream
  <2>6. Link'
    BY <1>2, <2>5 DEF Link, P!Jobs
  <2>7. QED BY <2>4, <2>6
<1>3. QED BY <1>1, <1>2, SessionBegins DEF SessionActs

-----------------------------------------------------------------------------
\* Every step of the composition keeps the link, is a step of the session, and
\* is a step of the provider.
LEMMA SystemStep ==
  ASSUME Link, [SysNext]_sysVars
  PROVE  Link' /\ [Next]_vars /\ [P!PNext]_streamVars
<1>1. CASE SessionActs
  BY <1>1, SessionActsLink DEF SessionActs, Next
<1>2. CASE ProviderActs
  <2>1. ASSUME NEW c \in Calls,
               \/ P!TicketFails(c) \/ P!ReadKeys(c) \/ P!ReplacePrevious(c)
               \/ P!ReadCipher(c) \/ P!ConnectFails(c)
               \/ \E s \in Sources : P!Connect(c, s),
               UNCHANGED vars
        PROVE  Link' /\ P!PNext
    BY <2>1, TicketLink DEF P!PNext, vars
  <2>2. ASSUME NEW s \in Sources, P!PeerEnds(s) \/ P!PeerDrained(s), UNCHANGED vars
        PROVE  Link' /\ P!PNext
    BY <2>2, LinkKept
    DEF P!PNext, P!PeerEnds, P!PeerDrained, P!ticketVars, vars
  <2>3. QED BY <1>2, <2>1, <2>2 DEF ProviderActs
<1>3. ASSUME NEW c \in Calls, StreamStarted(c)
      PROVE  Link' /\ Next /\ P!PNext
  <2>1. session[c] \in Sources
    BY <1>3 DEF StreamStarted, P!Connected, Link
  <2>2. Link'
    BY <1>3, TicketLink DEF StreamStarted, AttachSource
  <2>3. QED BY <1>3, <2>1, <2>2 DEF StreamStarted, Next, ProviderStep, P!PNext
<1>4. ASSUME NEW c \in Calls, CallSettled(c)
      PROVE  Link' /\ Next /\ P!PNext
  <2>1. Next /\ P!PNext
    BY <1>4 DEF CallSettled, Next, ProviderStep, P!PNext
  <2>2. /\ outcome' = [outcome EXCEPT ![c] = "none"] /\ inflight' = inflight \ {c}
        /\ UNCHANGED <<job, session, entry>>
    BY <1>4 DEF CallSettled, P!CallSettles, StartSucceeds, StartFails
  <2>3. QED BY <2>1, <2>2 DEF Link
<1>5. ASSUME NEW s \in Sources, OutputEnded(s)
      PROVE  Link' /\ [Next]_vars /\ P!PNext
  <2>1. P!PNext /\ UNCHANGED <<outcome, job, session, entry>>
    BY <1>5 DEF OutputEnded, P!OutputEnds, P!ticketVars, P!PNext
  <2>2. [Next]_vars /\ inflight' = inflight
    BY <1>5 DEF OutputEnded, SourceEnded, Next, ProviderStep, vars
  <2>3. QED BY <2>1, <2>2, LinkKept
<1>6. MarkStopped \/ UNCHANGED vars => [Next]_vars /\ inflight' = inflight
  BY DEF MarkStopped, Next, ProviderStep, vars
<1>7. ASSUME NEW s \in Sources, StreamStopped(s)
      PROVE  Link' /\ [Next]_vars /\ P!PNext
  BY <1>6, <1>7, LinkKept DEF StreamStopped, P!Finalize, P!ticketVars, P!PNext
<1>8. CASE StopDrained
  BY <1>6, <1>8, LinkKept DEF StopDrained, P!StopDrained, P!ticketVars, P!PNext
<1>9. CASE StopResolved
  BY <1>9, LinkKept
  DEF StopResolved, P!StopResolves, P!ticketVars, P!PNext, StopSettles, Next,
      ProviderStep
<1>10. CASE UNCHANGED sysVars
  BY <1>10, LinkKept DEF sysVars, vars
<1>11. QED
  BY <1>1, <1>2, <1>3, <1>4, <1>5, <1>7, <1>8, <1>9, <1>10 DEF SysNext

\* Hence session and provider agree on the unsettled calls in every state.
LEMMA LinkCorrect == SysSpec => []Link
<1>1. SysInit => Link
  BY DEF SysInit, Init, P!PInit, Link, P!Jobs
<1>2. QED BY <1>1, SystemStep, PTL DEF SysSpec

\* In the composition the session still behaves as LiveStreamManager allows, so
\* its theorems hold here too.
THEOREM SessionImplemented == SysSpec => Spec
<1>1. SysInit => Init
  BY DEF SysInit
<1>2. Link /\ [SysNext]_sysVars => [Next]_vars
  BY SystemStep
<1>3. QED BY <1>1, <1>2, LinkCorrect, PTL DEF SysSpec, Spec

\* The session starts and stops streams only in ways that EufyStreams foresees:
\* no call is made again before it was answered.
THEOREM ProviderImplemented == SysSpec => P!PSpec
<1>1. SysInit => P!PInit
  BY DEF SysInit
<1>2. Link /\ [SysNext]_sysVars => [P!PNext]_(P!pvars)
  BY SystemStep DEF P!pvars
<1>3. QED BY <1>1, <1>2, LinkCorrect, PTL DEF SysSpec, P!PSpec

-----------------------------------------------------------------------------
(* The attached source *)

\* EufyStreamsProofs about the same variables.
PP == INSTANCE EufyStreamsProofs

LEMMA ProviderNames == None \notin Calls \cup Sources
BY ConstantsAssumption

\* Both instances of EufyStreams speak of the same steps.
LEMMA SameProvider == (P!PInit <=> PP!PInit) /\ ([P!PNext]_streamVars <=> [PP!PNext]_(PP!pvars))
<1>1. P!PInit <=> PP!PInit
  BY DEF P!PInit, PP!PInit
<1>2. P!PNext <=> PP!PNext
  BY DEF PP!PNext, P!PNext, PP!StartStream, P!StartStream, P!stopVars, PP!stopVars,
    PP!TicketFails, P!TicketFails, PP!SettleTicket, P!SettleTicket, PP!Current,
    P!Current, PP!ReadKeys, P!ReadKeys, PP!Advance, P!Advance,
    PP!ReplacePrevious, P!ReplacePrevious, PP!ClosePeer, P!ClosePeer, PP!Live,
    P!Live, PP!ReadCipher, P!ReadCipher, PP!Connected, P!Connected,
    PP!ConnectFails, P!ConnectFails, PP!Connect, P!Connect, PP!FreePeer,
    P!FreePeer, PP!CallSettles, P!CallSettles, PP!PeerEnds, P!PeerEnds,
    PP!PeerDrained, P!PeerDrained, PP!Finalize, P!Finalize, PP!OutputEnds,
    P!OutputEnds, PP!StopStream, P!StopStream, PP!StopDrained, P!StopDrained,
    PP!StopResolves, P!StopResolves, PP!ticketVars, P!ticketVars
<1>3. QED BY <1>1, <1>2 DEF PP!pvars

\* Hence what is proved of the provider holds in the composition.
LEMMA ProviderSafe == SysSpec => [](PP!PTypeOK /\ PP!ConnectInv)
<1>1. SysInit => PP!PInit
  BY SameProvider DEF SysInit
<1>2. Link /\ [SysNext]_sysVars => [PP!PNext]_(PP!pvars)
  BY SystemStep, SameProvider
<1>3. SysSpec => PP!PSpec
  BY <1>1, <1>2, LinkCorrect, PTL DEF SysSpec, PP!PSpec
<1>4. None \notin Calls \cup Sources
  BY ProviderNames
<1>5. PP!PSpec => []PP!ConnectInv
  BY PP!ConnectCorrect, <1>4, PTL
<1>6. PP!PSpec => []PP!PTypeOK
  BY PP!ProviderTypeCorrect, <1>4, PTL
<1>7. QED BY <1>3, <1>5, <1>6, PTL

\* A session step changes its source only by dropping it.
LEMMA SourceKept ==
  ASSUME Continuation \/ SessionEvent
  PROVE  source' \in {source, None}
<1> USE DEF mediaVars
<1>1. ASSUME NEW v \in Viewers,
             \/ AdmitClient(v) \/ ClientStarted(v) \/ AddClient(v)
             \/ ClientCloses(v) \/ GateAbandoned(v)
      PROVE  source' = source
  BY <1>1
  DEF AdmitClient, ClientStarted, AddClient, Register, ClientCloses,
      GateAbandoned
<1>2. ASSUME NEW t \in Tasks,
             \/ TaskStarted(t) \/ CaptureAnswered(t) \/ RecordingAnswered(t)
             \/ ReleaseTask(t) \/ BeginTask(t) \/ OperationEnds(t)
             \/ AbortTrial(t) \/ SnapshotTimeout(t) \/ SettleRecording(t)
      PROVE  source' \in {source, None}
  BY <1>2
  DEF TaskStarted, CaptureAnswered, RecordingAnswered, ReleaseTask, BeginTask,
      BeginCapture, BeginClip, BeginControl, OperationEnds, AbortTrial,
      SnapshotTimeout, SettleRecording
<1>3. ASSUME NEW s \in Sources, ImageStored(s) \/ ExtractorExits(s)
      PROVE  source' = source
  BY <1>3 DEF ImageStored, ExtractorExits
<1>4. CASE SourceData \/ StopTimerFires \/ QuietTimerFires \/ Close
  BY <1>4
  DEF SourceData, StopTimerFires, QuietTimerFires, Close, CleanupSource, Detach
<1>5. QED BY <1>1, <1>2, <1>3, <1>4 DEF Continuation, SessionEvent

\* Steps that attach nothing and lose no open source: a session that is closed
\* has its end event to come (ClosePeer).
LEMMA AttachedKept ==
  ASSUME AttachedSourceIsCurrent, source' \in {source, None}, ended \subseteq ended',
         \/ source = None
         \/ entry # source \/ peer[source] # "open"
         \/ source \in ended'
         \/ (entry' = source /\ peer'[source] = "open")
  PROVE  AttachedSourceIsCurrent'
BY DEF AttachedSourceIsCurrent

\* Closing a session leaves every other one open (ClosePeer).
LEMMA CloseAttached ==
  ASSUME PP!PTypeOK, AttachedSourceIsCurrent, source' \in {source, None},
         NEW s \in Sources \cup {None}, P!ClosePeer(s),
         entry' = entry \/ entry = s
  PROVE  AttachedSourceIsCurrent'
<1>1. ended \subseteq ended'
  BY DEF P!ClosePeer
<1>2. CASE source # None /\ entry = source /\ peer[source] = "open"
  <2>1. source \in Sources /\ peer \in [Sources -> {"opening", "open", "closing", "closed"}]
    BY <1>2 DEF PP!PTypeOK, PP!Live
  <2>2. source = s => source \in ended'
    BY <1>2 DEF P!ClosePeer, P!Live
  <2>3. source # s => peer'[source] = "open"
    BY <1>2, <2>1 DEF P!ClosePeer
  <2>4. QED BY <1>1, <1>2, <2>2, <2>3, AttachedKept
<1>3. QED BY <1>1, <1>2, AttachedKept

\* What a session step or a call of stopStream or startStream does to the source.
LEMMA SessionAttached ==
  ASSUME PP!PTypeOK, AttachedSourceIsCurrent, SessionActs
  PROVE  AttachedSourceIsCurrent'
<1>1. source' \in {source, None}
  BY SourceKept DEF SessionActs
<1>2. CASE UNCHANGED streamVars
  BY <1>1, <1>2, AttachedKept
<1>3. ASSUME NEW c, P!StartStream(c) PROVE AttachedSourceIsCurrent'
  BY <1>1, <1>3, AttachedKept DEF P!StartStream
<1>4. CASE P!StopStream
  <2>1. entry \in Sources \cup {None} /\ P!ClosePeer(entry) /\ entry' = entry
    BY <1>4 DEF P!StopStream, PP!PTypeOK
  <2>2. QED BY <1>1, <2>1, CloseAttached
<1>5. QED BY <1>2, <1>3, <1>4 DEF SessionActs, ProviderCalled

\* Steps of a start that the session does not see: a new entry comes when no
\* session is live (#startStreamOnce).
LEMMA TicketAttached ==
  ASSUME PP!PTypeOK, PP!ConnectInv, AttachedSourceIsCurrent, source' = source,
         NEW c \in Calls,
         \/ P!TicketFails(c) \/ P!ReadKeys(c) \/ P!ReplacePrevious(c)
         \/ P!ReadCipher(c) \/ P!ConnectFails(c)
         \/ \E s \in Sources : s # source /\ P!Connect(c, s)
  PROVE  AttachedSourceIsCurrent'
<1>1. CASE P!TicketFails(c) \/ P!ReadKeys(c) \/ P!ReadCipher(c)
  BY <1>1, AttachedKept DEF P!TicketFails, P!ReadKeys, P!ReadCipher
<1>2. CASE P!ReplacePrevious(c)
  <2>1. entry \in Sources \cup {None} /\ P!ClosePeer(entry) /\ entry' = entry
    BY <1>2 DEF P!ReplacePrevious, PP!PTypeOK
  <2>2. QED BY <2>1, CloseAttached
<1>3. CASE P!ConnectFails(c)
  <2>1. /\ session[c] \in Sources \cup {None} /\ P!ClosePeer(session[c])
        /\ entry' = IF entry = session[c] THEN None ELSE entry
    BY <1>3 DEF P!ConnectFails, PP!PTypeOK
  <2>2. QED BY <2>1, CloseAttached
<1>4. ASSUME NEW s \in Sources, s # source, P!Connect(c, s)
      PROVE  AttachedSourceIsCurrent'
  <2>1. \A x \in Sources : peer[x] # "open"
    BY <1>4 DEF P!Connect, PP!ConnectInv, P!Current, PP!Current, PP!Live
  <2>2. ended' = ended /\ entry \in Sources \cup {None}
    BY <1>4 DEF P!Connect, PP!PTypeOK
  <2>3. QED BY <2>1, <2>2, AttachedKept
<1>5. QED BY <1>1, <1>2, <1>3, <1>4

\* The end of a session, its END and the reports of both reach the source
\* before the entry is gone (#sourceEnded, #finalizeStream).
LEMMA PeerAttached ==
  ASSUME PP!PTypeOK, PP!ConnectInv, AttachedSourceIsCurrent, NEW s \in Sources,
         \/ ((P!PeerEnds(s) \/ P!PeerDrained(s)) /\ UNCHANGED vars)
         \/ OutputEnded(s) \/ StreamStopped(s) \/ StopDrained
  PROVE  AttachedSourceIsCurrent'
<1> USE DEF mediaVars, vars
<1>1. CASE P!PeerEnds(s) /\ UNCHANGED vars
  <2>1. P!ClosePeer(s) /\ entry' = entry
    BY <1>1 DEF P!PeerEnds
  <2>2. QED BY <1>1, <2>1, CloseAttached
<1>2. CASE P!PeerDrained(s) /\ UNCHANGED vars
  <2>1. source # None /\ peer[source] = "open" => peer'[source] = "open"
    BY <1>2 DEF P!PeerDrained, PP!PTypeOK
  <2>2. QED BY <1>2, <2>1, AttachedKept DEF P!PeerDrained
<1>3. CASE OutputEnded(s) /\ s = source
  BY <1>3 DEF OutputEnded, SourceEnded, Detach, CleanupSource, AttachedSourceIsCurrent
<1>4. CASE OutputEnded(s) /\ s # source
  BY <1>4 DEF OutputEnded, P!OutputEnds, AttachedSourceIsCurrent
<1>5. CASE StreamStopped(s)
  BY <1>5, AttachedKept
  DEF StreamStopped, P!Finalize, MarkStopped, Detach, CleanupSource,
      AttachedSourceIsCurrent
<1>6. CASE StopDrained
  BY <1>6, AttachedKept
  DEF StopDrained, P!StopDrained, MarkStopped, Detach, CleanupSource,
      AttachedSourceIsCurrent
<1>7. QED BY <1>1, <1>2, <1>3, <1>4, <1>5, <1>6

\* The attached source is the camera's current PPCS session, or its end event is
\* still to come, also when sessions end by themselves.
THEOREM AttachedCorrect == SysSpec => []AttachedSourceIsCurrent
<1>1. SysInit => AttachedSourceIsCurrent
  BY DEF SysInit, Init, AttachedSourceIsCurrent
<1>2. ASSUME Link, PP!PTypeOK, PP!ConnectInv, AttachedSourceIsCurrent,
             [SysNext]_sysVars
      PROVE  AttachedSourceIsCurrent'
  <2>1. CASE SessionActs
    BY <1>2, <2>1, SessionAttached
  <2>2. CASE ProviderActs
    BY <1>2, <2>2, TicketAttached, PeerAttached DEF ProviderActs, vars, mediaVars
  <2>3. ASSUME NEW c \in Calls, StreamStarted(c) PROVE AttachedSourceIsCurrent'
    <3>1. /\ session[c] \in Sources /\ peer[session[c]] = "opening"
          /\ peer' = [peer EXCEPT ![session[c]] = "open"] /\ entry' = entry
          /\ source' = session[c]
      BY <1>2, <2>3 DEF StreamStarted, P!Connected, AttachSource, Link
    <3>2. entry = session[c]
      BY <1>2, <3>1 DEF PP!ConnectInv, PP!LivePeerIsEntry, PP!Live
    <3>3. QED BY <1>2, <3>1, <3>2 DEF AttachedSourceIsCurrent, PP!PTypeOK
  <2>4. ASSUME NEW c \in Calls, CallSettled(c) PROVE AttachedSourceIsCurrent'
    <3>1. source' \in {source, None} /\ UNCHANGED <<entry, peer, ended>>
      BY <2>4
      DEF CallSettled, P!CallSettles, StartSucceeds, StartFails, CleanupSource,
          mediaVars
    <3>2. QED BY <1>2, <3>1, AttachedKept
  <2>5. CASE StopResolved
    <3>1. source' \in {source, None} /\ UNCHANGED <<entry, peer, ended>>
      BY <2>5 DEF StopResolved, P!StopResolves, StopSettles, CleanupSource, mediaVars
    <3>2. QED BY <1>2, <3>1, AttachedKept
  <2>6. CASE UNCHANGED sysVars
    BY <1>2, <2>6 DEF sysVars, vars, mediaVars, AttachedSourceIsCurrent
  <2>7. ASSUME NEW s \in Sources, OutputEnded(s) \/ StreamStopped(s)
        PROVE  AttachedSourceIsCurrent'
    BY <1>2, <2>7, PeerAttached
  <2>8. CASE StopDrained
    <3>1. stopTarget = None \/ stopTarget \in Sources
      BY <1>2 DEF PP!PTypeOK
    <3>2. QED
      BY <1>2, <2>8, AttachedKept
      DEF StopDrained, P!StopDrained, MarkStopped, Detach, CleanupSource,
          AttachedSourceIsCurrent, mediaVars, vars
  <2>9. QED BY <1>2, <2>1, <2>2, <2>3, <2>4, <2>5, <2>6, <2>7, <2>8 DEF SysNext
<1>3. QED BY <1>1, <1>2, LinkCorrect, ProviderSafe, PTL DEF SysSpec

-----------------------------------------------------------------------------
(* Who waits for whom *)

\* The session's stop is the provider's stopStream, so a session step that stops
\* finds stopStream free: the composition refuses the session nothing.
StopLink == stop <=> stopPc # "none"

\* Session steps end no stop.
LEMMA StopOnlyBegins ==
  ASSUME Continuation \/ SessionEvent
  PROVE  /\ stop => stop'
         /\ ~stop /\ stop' => inflight' = inflight
<1>1. ASSUME NEW v \in Viewers,
             \/ AdmitClient(v) \/ ClientStarted(v) \/ AddClient(v)
             \/ ClientCloses(v) \/ GateAbandoned(v)
      PROVE  stop' = stop
  BY <1>1
  DEF AdmitClient, ClientStarted, AddClient, Register, ClientCloses, GateAbandoned
<1>2. ASSUME NEW t \in Tasks,
             \/ TaskStarted(t) \/ CaptureAnswered(t) \/ RecordingAnswered(t)
             \/ BeginTask(t) \/ OperationEnds(t) \/ AbortTrial(t)
             \/ SnapshotTimeout(t) \/ SettleRecording(t)
      PROVE  stop' = stop
  BY <1>2
  DEF TaskStarted, CaptureAnswered, RecordingAnswered, BeginTask, OperationEnds,
      AbortTrial, SnapshotTimeout, SettleRecording
<1>3. ASSUME NEW t \in Tasks, ReleaseTask(t)
      PROVE  (stop => stop') /\ inflight' = inflight
  BY <1>3 DEF ReleaseTask, StopOwnedSource
<1>4. ASSUME NEW s \in Sources, ImageStored(s) \/ ExtractorExits(s)
      PROVE  stop' = stop
  BY <1>4 DEF ImageStored, ExtractorExits
<1>5. CASE SourceData \/ StopTimerFires \/ QuietTimerFires \/ Close
  BY <1>5 DEF SourceData, StopTimerFires, StopOwnedSource, QuietTimerFires, Close
<1>6. QED BY <1>1, <1>2, <1>3, <1>4, <1>5 DEF Continuation, SessionEvent

\* Nothing but the answer of stopStream ends the session's stop.
LEMMA StopLinkStep ==
  ASSUME StopLink, [SysNext]_sysVars
  PROVE  StopLink'
<1> USE DEF StopLink
<1>1. CASE SessionActs
  <2>1. stop => stop'
    BY <1>1, StopOnlyBegins DEF SessionActs
  <2>2. ~stop /\ stop' => stopPc' # "none"
    <3> SUFFICES ASSUME ~stop, stop' PROVE stopPc' # "none"
      OBVIOUS
    <3>1. inflight' = inflight
      BY <1>1, StopOnlyBegins DEF SessionActs
    <3>2. P!StopStream
      BY <1>1, <3>1 DEF SessionActs, ProviderCalled
    <3>3. QED BY <3>2 DEF P!StopStream
  <2>3. (stop <=> stop') => stopPc' = stopPc
    BY <1>1 DEF SessionActs, ProviderCalled, P!StartStream, P!stopVars
  <2>4. QED BY <2>1, <2>2, <2>3
<1>2. CASE UNCHANGED <<stop, stopPc>>
  BY <1>2
<1>3. CASE ProviderActs
  <2>1. ASSUME NEW c \in Calls,
               \/ P!TicketFails(c) \/ P!ReadKeys(c) \/ P!ReplacePrevious(c)
               \/ P!ReadCipher(c) \/ P!ConnectFails(c)
               \/ \E s \in Sources : P!Connect(c, s)
        PROVE  stopPc' = stopPc
    BY <2>1
    DEF P!TicketFails, P!ReadKeys, P!ReplacePrevious, P!ReadCipher,
        P!ConnectFails, P!Connect, P!Advance, P!stopVars
  <2>2. ASSUME NEW s \in Sources, P!PeerEnds(s) \/ P!PeerDrained(s)
        PROVE  stopPc' = stopPc
    BY <2>2 DEF P!PeerEnds, P!PeerDrained, P!stopVars
  <2>3. QED BY <1>2, <1>3, <2>1, <2>2 DEF ProviderActs, vars
<1>4. ASSUME NEW c \in Calls, StreamStarted(c) \/ CallSettled(c)
      PROVE  UNCHANGED <<stop, stopPc>>
  BY <1>4
  DEF StreamStarted, P!Connected, AttachSource, CallSettled, P!CallSettles,
      StartSucceeds, StartFails, P!stopVars
<1>5. MarkStopped \/ UNCHANGED vars => stop' = stop
  BY DEF MarkStopped, vars
<1>6. ASSUME NEW s \in Sources, OutputEnded(s) \/ StreamStopped(s)
      PROVE  UNCHANGED <<stop, stopPc>>
  BY <1>5, <1>6
  DEF OutputEnded, StreamStopped, SourceEnded, P!OutputEnds, P!Finalize, P!stopVars
<1>7. CASE StopDrained
  BY <1>5, <1>7 DEF StopDrained, P!StopDrained
<1>8. CASE StopResolved
  BY <1>8 DEF StopResolved, P!StopResolves, StopSettles
<1>9. CASE UNCHANGED sysVars
  BY <1>2, <1>9 DEF sysVars, vars
<1>10. QED
  BY <1>1, <1>2, <1>3, <1>4, <1>6, <1>7, <1>8, <1>9 DEF SysNext

\* In the composition whoever waits on the camera, at the gate or for a start,
\* waits for provider work that is under way.
THEOREM UsersServed == SysSpec => []NoLostUser
<1>1. SysInit => StopLink
  BY DEF SysInit, Init, P!PInit, StopLink
<1>2. SysSpec => []StopLink
  BY <1>1, StopLinkStep, PTL DEF SysSpec
<1>3. SysSpec => [](TypeOK /\ NoOrphanWaiter)
  BY SessionImplemented, TypeCorrect, WaitersCorrect, PTL
<1>4. SysSpec => []PP!NoLostWait
  <2>1. SysInit => PP!PInit
    BY SameProvider DEF SysInit
  <2>2. Link /\ [SysNext]_sysVars => [PP!PNext]_(PP!pvars)
    BY SystemStep, SameProvider
  <2>3. PP!PSpec => []PP!NoLostWait
    BY PP!WaitsCorrect, ProviderNames, PTL
  <2>4. QED BY <2>1, <2>2, <2>3, LinkCorrect, PTL DEF SysSpec, PP!PSpec
<1>5. TypeOK /\ NoOrphanWaiter /\ Link /\ StopLink /\ PP!NoLostWait => NoLostUser
  <2> SUFFICES ASSUME TypeOK, NoOrphanWaiter, Link, StopLink, PP!NoLostWait
               PROVE  NoLostUser
    OBVIOUS
  <2>1. P!NoLostWait
    BY DEF PP!NoLostWait, P!NoLostWait, PP!Live, P!Live
  <2>2. \A u \in Users : phase[u] \in {"gate", "retiring"} => stopPc # "none"
    BY DEF NoOrphanWaiter, StopLink
  <2>3. ASSUME NEW u \in Users, awaiting[u] # None, promise[awaiting[u]] = "pending"
        PROVE  /\ outcome[awaiting[u]] # "none"
               /\ outcome[awaiting[u]] = "pending" => job[joined[awaiting[u]]] # "none"
    <3>1. awaiting[u] \in Calls /\ awaiting[u] \in inflight
      BY <2>3 DEF TypeOK, NoOrphanWaiter
    <3>2. QED BY <3>1 DEF Link, PP!NoLostWait
  <2>4. QED BY <2>1, <2>2, <2>3 DEF NoLostUser, StopLink
<1>6. QED BY <1>2, <1>3, <1>4, <1>5, LinkCorrect, PTL

\* The composition keeps what either part promises: users are counted, the idle
\* timer, starts, stops and waiters are in order, a live session can be found and
\* a cancelled start holds none.
THEOREM PartsSafe ==
  SysSpec => [](/\ TypeOK /\ UserInv /\ StopTimerOnlyWhenUnused
                /\ StopExcludesStart /\ NoOrphanWaiter /\ PendingStartIsOwned
                /\ P!PTypeOK /\ P!LivePeerIsEntry /\ P!CancelledStartHoldsNothing)
<1>1. Spec => [](/\ TypeOK /\ UserInv /\ StopTimerOnlyWhenUnused
                 /\ StopExcludesStart /\ NoOrphanWaiter /\ PendingStartIsOwned)
  BY TypeCorrect, UsersCorrect, StopTimerCorrect, StopCorrect, WaitersCorrect,
     OwnershipCorrect, PTL
<1>2. PP!PTypeOK /\ PP!ConnectInv
        => P!PTypeOK /\ P!LivePeerIsEntry /\ P!CancelledStartHoldsNothing
  BY DEF PP!PTypeOK, P!PTypeOK, PP!ConnectInv, PP!LivePeerIsEntry, P!LivePeerIsEntry,
    PP!CancelledStartHoldsNothing, P!CancelledStartHoldsNothing, PP!Live, P!Live,
    PP!Jobs, P!Jobs
<1>3. QED BY <1>1, <1>2, SessionImplemented, ProviderSafe, PTL
=============================================================================
