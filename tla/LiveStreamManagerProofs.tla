----------------------- MODULE LiveStreamManagerProofs -----------------------
(***************************************************************************)
(* Safety of LiveStreamManager, for every set of viewers, tasks, provider  *)
(* calls and sources.                                                      *)
(***************************************************************************)
EXTENDS LiveStreamManager, TLAPS

USE DEF consumerVars, providerVars, trialVars, mediaVars, startVars

-----------------------------------------------------------------------------
(* Types *)

\* One user's phase moves to another phase.
LEMMA PhaseTypes ==
  ASSUME TypeOK, NEW u \in Users, NEW p \in Phases, phase' = [phase EXCEPT ![u] = p]
  PROVE  phase' \in [Users -> Phases]
BY DEF TypeOK

\* One user's call stops waiting for a start.
LEMMA AwaitingTypes ==
  ASSUME TypeOK, NEW u \in Users, awaiting' = [awaiting EXCEPT ![u] = None]
  PROVE  awaiting' \in [Users -> Calls \cup {None}]
BY DEF TypeOK

\* A step that moves the phases and leaves the other fields alone.
LEMMA PhaseOnlyTypes ==
  ASSUME TypeOK, phase' \in [Users -> Phases],
         UNCHANGED <<closed, startVars, providerVars, mediaVars, extractors,
                     trialVars, stopTimer, clients, consumerVars>>
  PROVE  TypeOK'
BY DEF TypeOK

\* A step that moves the phases, one await and the sets of users.
LEMMA UserStepTypes ==
  ASSUME TypeOK, phase' \in [Users -> Phases],
         awaiting' \in [Users -> Calls \cup {None}],
         stopTimer' \in BOOLEAN, clients' \subseteq Viewers,
         recordings' \subseteq Tasks,
         UNCHANGED <<closed, startVars, providerVars, mediaVars, extractors,
                     trialVars, leases, kind, frame>>
  PROVE  TypeOK'
BY DEF TypeOK

\* The users' calls that join a start keep every field in its type.
LEMMA JoinStartTypes ==
  ASSUME TypeOK, NEW u \in Users, NEW started \in Phases, NEW refused \in Phases,
         JoinStart(u, started, refused)
  PROVE  /\ state' \in States /\ start' \in Calls \cup {None}
         /\ promise' \in [Calls -> {"pending", "resolved", "rejected"}]
         /\ owned' \in BOOLEAN /\ inflight' \subseteq Calls
         /\ phase' \in [Users -> Phases]
         /\ awaiting' \in [Users -> Calls \cup {None}]
<1>1. CASE StartRefused /\ phase' = [phase EXCEPT ![u] = refused]
           /\ UNCHANGED <<startVars, inflight, awaiting>>
  BY <1>1 DEF TypeOK
<1>2. ASSUME NEW c \in Calls \cup {None}, EnsureStarted(c),
             phase' = [phase EXCEPT ![u] = IF c = None THEN started ELSE "starting"],
             awaiting' = [awaiting EXCEPT ![u] = c]
      PROVE  /\ state' \in States /\ start' \in Calls \cup {None}
             /\ promise' \in [Calls -> {"pending", "resolved", "rejected"}]
             /\ owned' \in BOOLEAN /\ inflight' \subseteq Calls
             /\ phase' \in [Users -> Phases]
             /\ awaiting' \in [Users -> Calls \cup {None}]
  <2>1. phase' \in [Users -> Phases] /\ awaiting' \in [Users -> Calls \cup {None}]
    BY <1>2 DEF TypeOK, Phases
  <2>2. state' \in States /\ owned' \in BOOLEAN
    BY <1>2 DEF TypeOK, EnsureStarted, States
  <2>3. promise' \in [Calls -> {"pending", "resolved", "rejected"}]
    BY <1>2 DEF TypeOK, EnsureStarted
  <2>4. start' \in Calls \cup {None} /\ inflight' \subseteq Calls
    BY <1>2 DEF TypeOK, EnsureStarted
  <2>5. QED BY <2>1, <2>2, <2>3, <2>4
<1>3. QED BY <1>1, <1>2 DEF JoinStart

\* A new session (#session) is well typed.
LEMMA InitTypes == Init => TypeOK
<1> SUFFICES ASSUME Init PROVE TypeOK
  OBVIOUS
<1>1. /\ promise \in [Calls -> {"pending", "resolved", "rejected"}]
      /\ kind \in [Tasks -> AllKinds]
      /\ frame \in [Tasks -> Sources \cup {None, "expired"}]
  BY ConstantsAssumption DEF Init, AllKinds
<1>2. phase \in [Users -> Phases] /\ awaiting \in [Users -> Calls \cup {None}]
  BY DEF Init, Phases
<1>3. QED BY <1>1, <1>2 DEF Init, TypeOK, States

\* What the shared parts of the handlers leave behind.
LEMMA DetachTypes ==
  ASSUME TypeOK, NEW s \in States, Detach(s)
  PROVE  /\ stopTimer' \in BOOLEAN /\ recordings' \subseteq Tasks
         /\ start' \in Calls \cup {None}
         /\ promise' \in [Calls -> {"pending", "resolved", "rejected"}]
         /\ source' = None /\ suppress' = FALSE /\ quiet' = FALSE /\ ffmpeg' = None
         /\ state' \in States /\ owned' \in BOOLEAN
         /\ phase' \in [Users -> Phases] /\ clients' \subseteq Viewers
<1>1. phase' \in [Users -> Phases]
  BY DEF Detach, EndClients, TypeOK, Phases
<1>2. start' \in Calls \cup {None}
      /\ promise' \in [Calls -> {"pending", "resolved", "rejected"}]
  BY DEF Detach, RetireStart, TypeOK
<1>3. QED BY <1>1, <1>2 DEF Detach, CleanupSource

\* #stopOwnedSource keeps the fields it writes in their types.
LEMMA StopOwnedSourceTypes ==
  ASSUME TypeOK, NEW p, StopOwnedSource(p)
  PROVE  /\ stop' \in BOOLEAN /\ state' \in States
         /\ start' \in Calls \cup {None}
         /\ promise' \in [Calls -> {"pending", "resolved", "rejected"}]
BY DEF StopOwnedSource, RetireStart, TypeOK, States

\* Registering a viewer (#addClient) keeps every field in its type.
LEMMA RegisterTypes ==
  ASSUME TypeOK, NEW v \in Viewers, Register(v)
  PROVE  TypeOK'
<1>1. v \in Users
  BY DEF Users
<1>2. JoinStart(v, "open", "closing") /\ "open" \in Phases /\ "closing" \in Phases
  BY DEF Register, Phases
<1>3. QED
  BY <1>1, <1>2, JoinStartTypes DEF Register, TypeOK

-----------------------------------------------------------------------------
\* So does every promise continuation of the session.
LEMMA ContinuationTypes == TypeOK /\ Continuation => TypeOK'
<1> SUFFICES ASSUME TypeOK, Continuation PROVE TypeOK'
  OBVIOUS
<1>1. ASSUME NEW v \in Viewers, AdmitClient(v) PROVE TypeOK'
  <2>1. CASE Register(v)
    BY <2>1, RegisterTypes
  <2>2. CASE ~Register(v)
    <3>1. v \in Users /\ "out" \in Phases /\ "gate" \in Phases
      BY DEF Users, Phases
    <3>2. phase' \in [Users -> Phases]
      BY <1>1, <2>2, <3>1, PhaseTypes DEF AdmitClient
    <3>3. QED BY <1>1, <2>2, <3>2, PhaseOnlyTypes DEF AdmitClient
  <2>3. QED BY <2>1, <2>2
<1>2. ASSUME NEW v \in Viewers, ClientStarted(v) PROVE TypeOK'
  <2>1. v \in Users /\ "open" \in Phases /\ "closing" \in Phases
    BY DEF Users, Phases
  <2>2. phase' \in [Users -> Phases]
    BY <1>2, <2>1, PhaseTypes DEF ClientStarted
  <2>3. awaiting' \in [Users -> Calls \cup {None}]
    BY <1>2, <2>1, AwaitingTypes DEF ClientStarted
  <2>4. stopTimer' \in BOOLEAN /\ clients' \subseteq Viewers /\ recordings' \subseteq Tasks
    BY <1>2 DEF ClientStarted, TypeOK
  <2>5. QED BY <1>2, <2>2, <2>3, <2>4, UserStepTypes DEF ClientStarted
<1>3. ASSUME NEW t \in Tasks, TaskStarted(t) PROVE TypeOK'
  <2>1. t \in Users /\ "waiting" \in Phases /\ "settled" \in Phases
    BY DEF Users, Phases
  <2>2. phase' \in [Users -> Phases]
    BY <1>3, <2>1, PhaseTypes DEF TaskStarted
  <2>3. awaiting' \in [Users -> Calls \cup {None}]
    BY <1>3, <2>1, AwaitingTypes DEF TaskStarted
  <2>4. stopTimer' \in BOOLEAN /\ clients' \subseteq Viewers /\ recordings' \subseteq Tasks
    BY <1>3 DEF TaskStarted, TypeOK
  <2>5. QED BY <1>3, <2>2, <2>3, <2>4, UserStepTypes DEF TaskStarted
<1>4. ASSUME NEW t \in Tasks, CaptureAnswered(t) PROVE TypeOK'
  <2>1. t \in Users /\ "busy" \in Phases /\ "settled" \in Phases
    BY DEF Users, Phases
  <2>2. phase' \in [Users -> Phases]
    BY <1>4, <2>1, PhaseTypes DEF CaptureAnswered
  <2>3. QED BY <1>4, <2>2, PhaseOnlyTypes DEF CaptureAnswered
<1>5. ASSUME NEW t \in Tasks, RecordingAnswered(t) PROVE TypeOK'
  <2>1. PICK p \in {"busy", "settled"} : phase' = [phase EXCEPT ![t] = p]
    BY <1>5 DEF RecordingAnswered
  <2>2. t \in Users /\ "busy" \in Phases /\ "settled" \in Phases
    BY DEF Users, Phases
  <2>3. phase' \in [Users -> Phases]
    BY <2>1, <2>2, PhaseTypes
  <2>4. QED BY <1>5, <2>3, PhaseOnlyTypes DEF RecordingAnswered
<1>6. ASSUME NEW t \in Tasks, ReleaseTask(t) PROVE TypeOK'
  <2>1. private' \in BOOLEAN /\ abandoned' \in BOOLEAN
    BY <1>6 DEF ReleaseTask, TypeOK, StartUnsettled
  <2>2. /\ stopTimer' \in BOOLEAN /\ stop' \in BOOLEAN /\ state' \in States
        /\ start' \in Calls \cup {None}
        /\ promise' \in [Calls -> {"pending", "resolved", "rejected"}]
    BY <1>6, StopOwnedSourceTypes DEF ReleaseTask, TypeOK, ScheduleStopIfUnused
  <2>3. /\ phase' \in [Users -> Phases]
        /\ awaiting' \in [Users -> Calls \cup {None}]
        /\ frame' \in [Tasks -> Sources \cup {None, "expired"}]
        /\ leases' \subseteq Tasks /\ recordings' \subseteq Tasks
    BY <1>6 DEF ReleaseTask, TypeOK, Phases
  <2>4. QED BY <1>6, <2>1, <2>2, <2>3 DEF ReleaseTask, TypeOK
<1>7. QED BY <1>1, <1>2, <1>3, <1>4, <1>5, <1>6 DEF Continuation

\* Server calls that borrow the source, and what may end them (captureSnapshot,
\* recordClip and their kin), keep every field in its type.
LEMMA TaskEventTypes ==
  ASSUME TypeOK, NEW t \in Tasks,
         \/ BeginTask(t) \/ OperationEnds(t) \/ AbortTrial(t)
         \/ SnapshotTimeout(t) \/ SettleRecording(t)
  PROVE  TypeOK'
<1>1. CASE BeginTask(t)
  <2>1. /\ kind' \in [Tasks -> AllKinds] /\ leases' \subseteq Tasks
    BY <1>1, ConstantsAssumption DEF BeginTask, TypeOK
  <2>2. t \in Users /\ "waiting" \in Phases /\ "settled" \in Phases
    BY DEF Users, Phases
  <2>3. CASE BeginCapture(t)
    BY <1>1, <2>1, <2>2, <2>3, JoinStartTypes DEF BeginTask, BeginCapture, TypeOK
  <2>4. CASE BeginClip(t)
    BY <1>1, <2>1, <2>2, <2>4, JoinStartTypes DEF BeginTask, BeginClip, TypeOK
  <2>5. CASE BeginControl(t)
    BY <1>1, <2>1, <2>2, <2>5 DEF BeginTask, BeginControl, TypeOK, Phases
  <2>6. QED BY <1>1, <2>3, <2>4, <2>5 DEF BeginTask
<1>2. CASE OperationEnds(t)
  <2>1. t \in Users /\ "settled" \in Phases
    BY DEF Users, Phases
  <2>2. phase' \in [Users -> Phases]
    BY <1>2, <2>1, PhaseTypes DEF OperationEnds
  <2>3. QED BY <1>2, <2>2, PhaseOnlyTypes DEF OperationEnds
<1>3. CASE AbortTrial(t)
  <2>1. t \in Users /\ "settled" \in Phases
    BY DEF Users, Phases
  <2>2. phase' \in [Users -> Phases]
    BY <1>3, <2>1, PhaseTypes DEF AbortTrial
  <2>3. /\ awaiting' \in [Users -> Calls \cup {None}]
        /\ stopTimer' \in BOOLEAN /\ clients' \subseteq Viewers /\ recordings' \subseteq Tasks
    BY <1>3 DEF AbortTrial, TypeOK
  <2>4. QED BY <1>3, <2>2, <2>3, UserStepTypes DEF AbortTrial
<1>4. CASE SnapshotTimeout(t)
  BY <1>4 DEF SnapshotTimeout, TypeOK
<1>5. CASE SettleRecording(t)
  BY <1>5 DEF SettleRecording, TypeOK
<1>6. QED BY <1>1, <1>2, <1>3, <1>4, <1>5

\* So does every request, media event and timer.
LEMMA SessionEventTypes == TypeOK /\ SessionEvent => TypeOK'
<1> SUFFICES ASSUME TypeOK, SessionEvent PROVE TypeOK'
  OBVIOUS
<1>1. ASSUME NEW v \in Viewers, AddClient(v) PROVE TypeOK'
  <2>1. CASE Register(v)
    BY <2>1, RegisterTypes
  <2>2. CASE ~Register(v)
    <3>1. v \in Users /\ "gate" \in Phases
      BY DEF Users, Phases
    <3>2. phase' \in [Users -> Phases]
      BY <1>1, <2>2, <3>1, PhaseTypes DEF AddClient
    <3>3. QED BY <1>1, <2>2, <3>2, PhaseOnlyTypes DEF AddClient
  <2>3. QED BY <2>1, <2>2
<1>2. ASSUME NEW v \in Viewers, ClientCloses(v) PROVE TypeOK'
  <2>1. v \in Users /\ "out" \in Phases
    BY DEF Users, Phases
  <2>2. phase' \in [Users -> Phases]
    BY <1>2, <2>1, PhaseTypes DEF ClientCloses
  <2>3. awaiting' \in [Users -> Calls \cup {None}]
    BY <1>2, <2>1, AwaitingTypes DEF ClientCloses
  <2>4. stopTimer' \in BOOLEAN
    BY <1>2 DEF ClientCloses, ScheduleStopIfUnused, TypeOK
  <2>5. clients' \subseteq Viewers /\ recordings' \subseteq Tasks
    BY <1>2 DEF ClientCloses, TypeOK
  <2>6. QED BY <1>2, <2>2, <2>3, <2>4, <2>5, UserStepTypes DEF ClientCloses
<1>3. ASSUME NEW v \in Viewers, GateAbandoned(v) PROVE TypeOK'
  <2>1. v \in Users /\ "out" \in Phases
    BY DEF Users, Phases
  <2>2. phase' \in [Users -> Phases]
    BY <1>3, <2>1, PhaseTypes DEF GateAbandoned
  <2>3. QED BY <1>3, <2>2, PhaseOnlyTypes DEF GateAbandoned
<1>4. CASE SourceData
  BY <1>4 DEF SourceData, TypeOK
<1>5. ASSUME NEW s \in Sources, ImageStored(s) PROVE TypeOK'
  BY <1>5 DEF ImageStored, TypeOK
<1>6. ASSUME NEW s \in Sources, ExtractorExits(s) PROVE TypeOK'
  BY <1>6 DEF ExtractorExits, TypeOK
<1>7. CASE StopTimerFires
  BY <1>7, StopOwnedSourceTypes DEF StopTimerFires, TypeOK
<1>8. CASE QuietTimerFires
  <2>1. CASE Detach("error") /\ stop' = stop
    BY <1>8, <2>1, DetachTypes DEF QuietTimerFires, TypeOK, States
  <2>2. CASE quiet' = FALSE /\ UNCHANGED <<stop, startVars, source, suppress,
                ffmpeg, stopTimer, clients, recordings, phase>>
    BY <1>8, <2>2 DEF QuietTimerFires, TypeOK
  <2>3. CASE /\ stopTimer' = FALSE /\ RetireStart(private) /\ recordings' = {}
             /\ CleanupSource /\ EndClients /\ clients' = {}
             /\ stop' = TRUE /\ state' = "stopping" /\ owned' = TRUE
    <3>1. start' \in Calls \cup {None}
          /\ promise' \in [Calls -> {"pending", "resolved", "rejected"}]
      BY <2>3 DEF RetireStart, TypeOK
    <3>2. phase' \in [Users -> Phases]
      BY <2>3 DEF EndClients, TypeOK, Phases
    <3>3. QED
      BY <1>8, <2>3, <3>1, <3>2
      DEF QuietTimerFires, CleanupSource, TypeOK, States
  <2>4. QED BY <1>8, <2>1, <2>2, <2>3 DEF QuietTimerFires
<1>9. CASE Close
  <2>1. start' \in Calls \cup {None}
        /\ promise' \in [Calls -> {"pending", "resolved", "rejected"}]
    BY <1>9 DEF Close, RetireStart, TypeOK
  <2>2. phase' \in [Users -> Phases]
    BY <1>9 DEF Close, EndClients, TypeOK, Phases
  <2>3. frame' \in [Tasks -> Sources \cup {None, "expired"}]
    BY <1>9 DEF Close, TypeOK
  <2>4. stop' \in BOOLEAN /\ state' \in States
    BY <1>9 DEF Close, TypeOK, States
  <2>5. QED
    BY <1>9, <2>1, <2>2, <2>3, <2>4 DEF Close, CleanupSource, TypeOK
<1>10. QED
  BY <1>1, <1>2, <1>3, <1>4, <1>5, <1>6, <1>7, <1>8, <1>9, TaskEventTypes
  DEF SessionEvent

\* So does whatever the provider reports or settles.
LEMMA ProviderStepTypes == TypeOK /\ ProviderStep => TypeOK'
<1> SUFFICES ASSUME TypeOK, ProviderStep PROVE TypeOK'
  OBVIOUS
<1> "idle" \in States /\ "error" \in States
  BY DEF States
<1>1. ASSUME NEW s \in Sources, AttachSource(s) PROVE TypeOK'
  <2>1. suppress' \in BOOLEAN
    BY <1>1 DEF AttachSource, TypeOK
  <2>2. QED BY <1>1, <2>1 DEF AttachSource, TypeOK, States
<1>2. ASSUME NEW s \in Sources, NEW failed \in BOOLEAN, SourceEnded(s, failed)
      PROVE  TypeOK'
  BY <1>2, DetachTypes DEF SourceEnded, TypeOK
<1>3. CASE MarkStopped
  BY <1>3, DetachTypes DEF MarkStopped, TypeOK
<1>4. ASSUME NEW c \in Calls, StartSucceeds(c) PROVE TypeOK'
  <2>1. promise' \in [Calls -> {"pending", "resolved", "rejected"}]
    BY <1>4 DEF StartSucceeds, TypeOK
  <2>2. start' \in Calls \cup {None} /\ inflight' \subseteq Calls /\ lateStop' \in BOOLEAN
    BY <1>4 DEF StartSucceeds, TypeOK
  <2>3. QED BY <1>4, <2>1, <2>2 DEF StartSucceeds, TypeOK
<1>5. ASSUME NEW c \in Calls, StartFails(c) PROVE TypeOK'
  <2>1. phase' \in [Users -> Phases]
    BY <1>5 DEF StartFails, EndClients, TypeOK, Phases
  <2>2. /\ start' \in Calls \cup {None} /\ inflight' \subseteq Calls
        /\ promise' \in [Calls -> {"pending", "resolved", "rejected"}]
    BY <1>5 DEF StartFails, TypeOK
  <2>3. /\ state' \in States /\ owned' \in BOOLEAN /\ stopTimer' \in BOOLEAN
        /\ private' \in BOOLEAN /\ abandoned' \in BOOLEAN
        /\ clients' \subseteq Viewers /\ recordings' \subseteq Tasks
    BY <1>5 DEF StartFails, TypeOK, States
  <2>4. /\ source' \in Sources \cup {None} /\ ffmpeg' \in Sources \cup {None}
        /\ suppress' \in BOOLEAN /\ quiet' \in BOOLEAN
    BY <1>5 DEF StartFails, CleanupSource, TypeOK
  <2>5. /\ UNCHANGED <<closed, stop, lateStop, extractors, leases, kind, awaiting,
                        frame>>
    BY <1>5 DEF StartFails
  <2>6. QED BY <2>1, <2>2, <2>3, <2>4, <2>5 DEF TypeOK
<1>6. ASSUME NEW stopped \in BOOLEAN, StopSettles(stopped) PROVE TypeOK'
  <2>1. phase' \in [Users -> Phases]
    BY <1>6 DEF StopSettles, TypeOK, Phases
  <2>2. /\ source' \in Sources \cup {None} /\ ffmpeg' \in Sources \cup {None}
        /\ suppress' \in BOOLEAN /\ quiet' \in BOOLEAN
    BY <1>6 DEF StopSettles, CleanupSource, TypeOK
  <2>3. state' \in States /\ owned' \in BOOLEAN /\ stop' \in BOOLEAN
    BY <1>6 DEF StopSettles, TypeOK, States
  <2>4. QED BY <1>6, <2>1, <2>2, <2>3 DEF StopSettles, TypeOK
<1>7. CASE LateStopSettles
  BY <1>7, DetachTypes DEF LateStopSettles, TypeOK
<1>8. QED BY <1>1, <1>2, <1>3, <1>4, <1>5, <1>6, <1>7 DEF ProviderStep

\* Every session field, call and timer keeps its type, whatever the provider
\* does (all handlers of live-stream-manager.ts).
THEOREM TypeCorrect == Spec => []TypeOK
<1>1. TypeOK /\ [Next]_vars => TypeOK'
  <2>1. TypeOK /\ UNCHANGED vars => TypeOK'
    BY DEF vars, TypeOK
  <2>2. QED
    BY <2>1, ContinuationTypes, SessionEventTypes, ProviderStepTypes DEF Next
<1>2. QED BY InitTypes, <1>1, PTL DEF Spec

-----------------------------------------------------------------------------
(* Users: who counts as one *)

\* Where a call has no lease: it has returned, or awaits the final stop only.
Released == {"out", "retiring"}

\* A task holds its lease from its call to its return or its wait for a final
\* stop, a viewer that is served is a client, and a client has its close event to
\* come.  Whoever waits behind a stop waits for one that is pending.
UserInv ==
  /\ \A t \in Tasks : t \in leases <=> phase[t] \notin Released
  /\ recordings \subseteq leases
  /\ \A v \in Viewers : phase[v] \in {"starting", "open"} => v \in clients
  /\ \A v \in clients : phase[v] \in {"starting", "open", "closing"}
  /\ \A u \in Users : phase[u] = "gate" => u \in Viewers /\ stop
  /\ \A u \in Users : phase[u] = "retiring" => stop

\* Steps that move no call.
LEMMA UsersKept ==
  ASSUME UserInv, UNCHANGED <<phase, clients, leases>>, recordings' \subseteq recordings,
         stop => stop'
  PROVE  UserInv'
BY DEF UserInv

\* A viewer's call moves.
LEMMA ViewerCounted ==
  ASSUME TypeOK, UserInv, NEW v \in Viewers, NEW p \in Phases \ {"retiring"},
         phase' = [phase EXCEPT ![v] = p], UNCHANGED <<leases, recordings>>,
         p = "gate" => stop, stop => stop',
         clients' \ {v} = clients \ {v},
         p \in {"starting", "open"} => v \in clients',
         v \in clients' => p \in {"starting", "open", "closing"}
  PROVE  UserInv'
<1>1. v \in Users /\ v \notin Tasks
  BY ConstantsAssumption DEF Users
<1>2. /\ \A u \in Users : phase'[u] = IF u = v THEN p ELSE phase[u]
      /\ clients \subseteq Users /\ Tasks \subseteq Users /\ Viewers \subseteq Users
  BY <1>1 DEF TypeOK, Users
<1>3. \A w : w \in clients' => w = v \/ w \in clients
  OBVIOUS
<1>4. \A w : w \in clients => w = v \/ w \in clients'
  OBVIOUS
<1>5. (\A t \in Tasks : t \in leases <=> phase[t] \notin Released)'
  BY <1>1, <1>2 DEF UserInv
<1>6. (\A w \in Viewers : phase[w] \in {"starting", "open"} => w \in clients)'
  BY <1>2, <1>4 DEF UserInv
<1>7. (\A w \in clients : phase[w] \in {"starting", "open", "closing"})'
  BY <1>1, <1>2, <1>3 DEF UserInv
<1>8. QED BY <1>2, <1>5, <1>6, <1>7 DEF UserInv

\* A task's call moves.
LEMMA TaskCounted ==
  ASSUME TypeOK, UserInv, NEW t \in Tasks, NEW p \in Phases \ {"gate"},
         phase' = [phase EXCEPT ![t] = p], clients' = clients, stop => stop',
         p = "retiring" => stop',
         leases' = IF p \in Released THEN leases \ {t} ELSE leases \cup {t},
         recordings' \subseteq IF p \in Released THEN recordings \ {t}
                               ELSE recordings \cup {t}
  PROVE  UserInv'
<1>1. t \in Users /\ t \notin Viewers
  BY ConstantsAssumption DEF Users
<1>2. /\ \A u \in Users : phase'[u] = IF u = t THEN p ELSE phase[u]
      /\ clients \subseteq Viewers /\ Tasks \subseteq Users /\ Viewers \subseteq Users
  BY <1>1 DEF TypeOK, Users
<1>3. (\A x \in Tasks : x \in leases <=> phase[x] \notin Released)'
  BY <1>2 DEF UserInv
<1>4. recordings' \subseteq leases'
  BY DEF UserInv
<1>5. (\A w \in Viewers : phase[w] \in {"starting", "open"} => w \in clients)'
  BY <1>1, <1>2 DEF UserInv
<1>6. (\A w \in clients : phase[w] \in {"starting", "open", "closing"})'
  BY <1>1, <1>2 DEF UserInv
<1>7. QED BY <1>2, <1>3, <1>4, <1>5, <1>6 DEF UserInv

\* Clients that are ended have their close event to come (EndClients).
LEMMA EndedCounted ==
  ASSUME TypeOK, UserInv, EndClients, clients' \in {clients, {}}, leases' = leases,
         recordings' = {}, stop => stop'
  PROVE  UserInv'
<1>1. /\ \A u \in Users : phase'[u] = IF u \in clients THEN "closing" ELSE phase[u]
      /\ clients \subseteq Users /\ Tasks \subseteq Users /\ Viewers \subseteq Users
      /\ \A t \in Tasks : t \notin clients
  BY ConstantsAssumption DEF TypeOK, EndClients, Users
<1>2. (\A t \in Tasks : t \in leases <=> phase[t] \notin Released)'
  BY <1>1 DEF UserInv
<1>3. (\A v \in Viewers : phase[v] \in {"starting", "open"} => v \in clients)'
  BY <1>1 DEF UserInv
<1>4. (\A v \in clients : phase[v] \in {"starting", "open", "closing"})'
  BY <1>1
<1>5. QED BY <1>1, <1>2, <1>3, <1>4 DEF UserInv

\* A user that joins a start is served, or refused (JoinStart).
LEMMA JoinPhases ==
  ASSUME NEW u, NEW started, NEW refused, JoinStart(u, started, refused)
  PROVE  \E p \in {"starting", started, refused} : phase' = [phase EXCEPT ![u] = p]
BY DEF JoinStart

\* A viewer that registers is a client (#addClient).
LEMMA RegisterCounted ==
  ASSUME TypeOK, UserInv, NEW v \in Viewers, Register(v)
  PROVE  UserInv'
<1>1. PICK p \in {"starting", "open", "closing"} : phase' = [phase EXCEPT ![v] = p]
  BY JoinPhases DEF Register
<1>2. p \in Phases /\ p \notin {"gate", "retiring"}
  BY DEF Phases
<1>3. QED BY <1>1, <1>2, ViewerCounted DEF Register

\* Promise continuations keep the users counted.
LEMMA ContinuationUsers == TypeOK /\ UserInv /\ Continuation => UserInv'
<1> SUFFICES ASSUME TypeOK, UserInv, Continuation PROVE UserInv'
  OBVIOUS
<1>1. ASSUME NEW v \in Viewers, AdmitClient(v) PROVE UserInv'
  <2>1. CASE Register(v)
    BY <2>1, RegisterCounted
  <2>2. CASE ~Register(v)
    <3>1. v \notin clients
      BY <1>1 DEF AdmitClient, UserInv
    <3>2. {"out", "gate"} \subseteq Phases \ {"retiring"}
      BY DEF Phases
    <3>3. QED BY <1>1, <2>2, <3>1, <3>2, ViewerCounted DEF AdmitClient
  <2>3. QED BY <2>1, <2>2
<1>2. ASSUME NEW v \in Viewers, ClientStarted(v) PROVE UserInv'
  <2>1. PICK p \in {"open", "closing"} : phase' = [phase EXCEPT ![v] = p]
    BY <1>2 DEF ClientStarted
  <2>2. v \in clients /\ p \in Phases \ {"retiring"}
    BY <1>2 DEF ClientStarted, UserInv, Phases
  <2>3. QED BY <1>2, <2>1, <2>2, ViewerCounted DEF ClientStarted
<1>3. ASSUME NEW t \in Tasks, TaskStarted(t) \/ CaptureAnswered(t) \/ RecordingAnswered(t)
      PROVE  UserInv'
  <2>1. PICK p \in {"waiting", "busy", "settled"} : phase' = [phase EXCEPT ![t] = p]
    BY <1>3 DEF TaskStarted, CaptureAnswered, RecordingAnswered
  <2>2. UNCHANGED <<clients, leases, recordings, stop>> /\ phase[t] \notin Released
    BY <1>3 DEF TaskStarted, CaptureAnswered, RecordingAnswered, Released
  <2>3. t \in leases /\ p \in Phases \ ({"gate"} \cup Released)
    BY <2>2 DEF UserInv, Phases, Released
  <2>4. leases' = leases \cup {t} /\ recordings' \subseteq recordings \cup {t}
    BY <2>2, <2>3
  <2>5. QED BY <2>1, <2>2, <2>3, <2>4, TaskCounted DEF Released
<1>4. ASSUME NEW t \in Tasks, ReleaseTask(t) PROVE UserInv'
  <2>1. (stop => stop') /\ (StopsNow(t) => stop')
    BY <1>4 DEF ReleaseTask, StopOwnedSource
  <2>2. \E p \in {"out", "retiring"} :
          phase' = [phase EXCEPT ![t] = p] /\ (p = "retiring" => stop')
    BY <1>4, <2>1 DEF ReleaseTask
  <2>3. /\ clients' = clients /\ leases' = leases \ {t}
        /\ recordings' = recordings \ {t}
    BY <1>4 DEF ReleaseTask
  <2>4. QED BY <2>1, <2>2, <2>3, TaskCounted DEF Released, Phases
<1>5. QED BY <1>1, <1>2, <1>3, <1>4 DEF Continuation

\* So do requests, media events and timers.
LEMMA SessionEventUsers == TypeOK /\ UserInv /\ SessionEvent => UserInv'
<1> SUFFICES ASSUME TypeOK, UserInv, SessionEvent PROVE UserInv'
  OBVIOUS
<1> {"out", "gate"} \subseteq Phases \ {"retiring"}
  BY DEF Phases
<1>1. ASSUME NEW v \in Viewers, AddClient(v) PROVE UserInv'
  <2>1. CASE Register(v)
    BY <2>1, RegisterCounted
  <2>2. CASE ~Register(v)
    <3>1. v \notin clients
      BY <1>1 DEF AddClient, UserInv
    <3>2. QED BY <1>1, <2>2, <3>1, ViewerCounted DEF AddClient
  <2>3. QED BY <2>1, <2>2
<1>2. ASSUME NEW v \in Viewers, ClientCloses(v) \/ GateAbandoned(v) PROVE UserInv'
  <2>1. /\ UNCHANGED <<leases, recordings, stop>> /\ phase' = [phase EXCEPT ![v] = "out"]
        /\ clients' \ {v} = clients \ {v} /\ v \notin clients'
    BY <1>2 DEF ClientCloses, GateAbandoned, UserInv
  <2>2. QED BY <2>1, ViewerCounted
<1>3. ASSUME NEW t \in Tasks, BeginTask(t) PROVE UserInv'
  <2>1. PICK p \in {"starting", "waiting", "settled", "busy"} :
          phase' = [phase EXCEPT ![t] = p]
    BY <1>3, JoinPhases DEF BeginTask, BeginCapture, BeginClip, BeginControl
  <2>2. /\ UNCHANGED <<clients, stop>> /\ leases' = leases \cup {t}
        /\ recordings' \subseteq recordings \cup {t}
    BY <1>3 DEF BeginTask, BeginCapture, BeginClip, BeginControl
  <2>3. p \in Phases \ ({"gate"} \cup Released)
    BY DEF Phases, Released
  <2>4. QED BY <2>1, <2>2, <2>3, TaskCounted DEF Released
<1>4. ASSUME NEW t \in Tasks, OperationEnds(t) \/ AbortTrial(t) PROVE UserInv'
  <2>1. /\ phase' = [phase EXCEPT ![t] = "settled"] /\ UNCHANGED <<clients, stop, leases>>
        /\ recordings' \subseteq recordings /\ phase[t] \notin Released
    BY <1>4 DEF OperationEnds, AbortTrial, Released
  <2>2. leases' = leases \cup {t} /\ recordings' \subseteq recordings \cup {t}
    BY <2>1 DEF UserInv
  <2>3. QED BY <2>1, <2>2, TaskCounted DEF Phases, Released
<1>5. ASSUME NEW t \in Tasks, SnapshotTimeout(t) \/ SettleRecording(t) PROVE UserInv'
  BY <1>5, UsersKept DEF SnapshotTimeout, SettleRecording
<1>6. ASSUME NEW s \in Sources, ImageStored(s) \/ ExtractorExits(s) PROVE UserInv'
  BY <1>6, UsersKept DEF ImageStored, ExtractorExits
<1>7. CASE SourceData
  BY <1>7, UsersKept DEF SourceData
<1>8. CASE StopTimerFires
  BY <1>8, UsersKept DEF StopTimerFires, StopOwnedSource
<1>9. CASE QuietTimerFires
  <2>1. \/ UNCHANGED <<phase, clients, leases, recordings, stop>>
        \/ /\ EndClients /\ clients' = {} /\ leases' = leases /\ recordings' = {}
           /\ stop => stop'
    BY <1>9 DEF QuietTimerFires, Detach
  <2>2. QED BY <2>1, UsersKept, EndedCounted
<1>10. CASE Close
  <2>1. stop => stop'
    BY <1>10 DEF Close
  <2>2. QED BY <1>10, <2>1, EndedCounted DEF Close
<1>11. QED
  BY <1>1, <1>2, <1>3, <1>4, <1>5, <1>6, <1>7, <1>8, <1>9, <1>10 DEF SessionEvent

\* So does whatever the provider reports or settles.
LEMMA ProviderStepUsers == TypeOK /\ UserInv /\ ProviderStep => UserInv'
<1> SUFFICES ASSUME TypeOK, UserInv, ProviderStep PROVE UserInv'
  OBVIOUS
<1>1. ASSUME NEW s \in Sources, AttachSource(s) PROVE UserInv'
  BY <1>1, UsersKept DEF AttachSource
<1>2. CASE \/ MarkStopped \/ LateStopSettles
           \/ \E s \in Sources, failed \in BOOLEAN : SourceEnded(s, failed)
  BY <1>2, EndedCounted DEF MarkStopped, LateStopSettles, SourceEnded, Detach
<1>3. ASSUME NEW c \in Calls, StartSucceeds(c) \/ StartFails(c) PROVE UserInv'
  <2>1. \/ UNCHANGED <<phase, clients, leases, stop>> /\ recordings' \subseteq recordings
        \/ /\ EndClients /\ clients' = {} /\ leases' = leases /\ recordings' = {}
           /\ stop' = stop
    BY <1>3 DEF StartSucceeds, StartFails
  <2>2. QED BY <2>1, UsersKept, EndedCounted
<1>4. ASSUME NEW stopped \in BOOLEAN, StopSettles(stopped) PROVE UserInv'
  <2>1. /\ \A u \in Users :
             phase'[u] = IF phase[u] \notin {"gate", "retiring"} THEN phase[u]
                         ELSE IF phase[u] = "gate" /\ stopped THEN "admitted" ELSE "out"
        /\ UNCHANGED <<clients, leases, recordings>>
    BY <1>4 DEF StopSettles
  <2>2. \A t \in Tasks : phase[t] # "gate"
    BY ConstantsAssumption DEF UserInv, Users
  <2>3. clients \subseteq Users /\ Tasks \subseteq Users /\ Viewers \subseteq Users
    BY DEF TypeOK, Users
  <2>4. QED BY <2>1, <2>2, <2>3 DEF UserInv, Released
<1>5. QED BY <1>1, <1>2, <1>3, <1>4 DEF ProviderStep

\* UserInv is inductive, so users are counted in every state: no lease outlives
\* its call, and nobody is served without counting (captureSnapshot and its kin,
\* #addClient, #removeClient).
THEOREM UsersCorrect == Spec => []UserInv
<1>1. Init => UserInv
  BY DEF Init, UserInv, Users, Released
<1>2. TypeOK /\ UserInv /\ [Next]_vars => UserInv'
  <2>1. UserInv /\ UNCHANGED vars => UserInv'
    BY UsersKept DEF vars
  <2>2. QED
    BY <2>1, ContinuationUsers, SessionEventUsers, ProviderStepUsers DEF Next
<1>3. QED BY <1>1, <1>2, TypeCorrect, PTL DEF Spec

-----------------------------------------------------------------------------
(* The idle timer *)

\* The idle timer is armed only while nobody is counted.
TimerInv == stopTimer => Unused

\* No step leaves the idle timer armed on a session in use (#cancelStop).
LEMMA StopTimerStep ==
  TimerInv /\ [Next]_vars => TimerInv'
<1> SUFFICES ASSUME TimerInv, [Next]_vars
             PROVE  TimerInv'
  OBVIOUS
<1> USE DEF TimerInv, Unused
<1>1. CASE Continuation
  <2>1. ASSUME NEW v \in Viewers, AdmitClient(v) \/ ClientStarted(v)
        PROVE  TimerInv'
    BY <2>1 DEF AdmitClient, ClientStarted, Register
  <2>2. ASSUME NEW t \in Tasks, ReleaseTask(t) PROVE TimerInv'
    BY <2>2 DEF ReleaseTask, ScheduleStopIfUnused
  <2>3. ASSUME NEW t \in Tasks,
               TaskStarted(t) \/ CaptureAnswered(t) \/ RecordingAnswered(t)
        PROVE  TimerInv'
    BY <2>3 DEF TaskStarted, CaptureAnswered, RecordingAnswered
  <2>4. QED BY <1>1, <2>1, <2>2, <2>3 DEF Continuation
<1>2. CASE SessionEvent
  <2>1. ASSUME NEW v \in Viewers, AddClient(v) \/ ClientCloses(v) \/ GateAbandoned(v)
        PROVE  TimerInv'
    BY <2>1 DEF AddClient, Register, ClientCloses, GateAbandoned, ScheduleStopIfUnused
  <2>2. ASSUME NEW t \in Tasks,
               \/ BeginTask(t) \/ OperationEnds(t) \/ AbortTrial(t)
               \/ SnapshotTimeout(t) \/ SettleRecording(t)
        PROVE  TimerInv'
    BY <2>2 DEF BeginTask, OperationEnds, AbortTrial, SnapshotTimeout, SettleRecording
  <2>3. ASSUME NEW s \in Sources, ImageStored(s) \/ ExtractorExits(s)
        PROVE  TimerInv'
    BY <2>3 DEF ImageStored, ExtractorExits
  <2>4. CASE SourceData \/ StopTimerFires \/ Close
    BY <2>4 DEF SourceData, StopTimerFires, Close
  <2>5. CASE QuietTimerFires
    BY <2>5 DEF QuietTimerFires, Detach
  <2>6. QED BY <1>2, <2>1, <2>2, <2>3, <2>4, <2>5 DEF SessionEvent
<1>3. CASE ProviderStep
  <2>1. ASSUME NEW s \in Sources, NEW failed \in BOOLEAN, SourceEnded(s, failed)
        PROVE  TimerInv'
    BY <2>1 DEF SourceEnded, Detach
  <2>2. CASE MarkStopped \/ LateStopSettles
    BY <2>2 DEF MarkStopped, LateStopSettles, Detach
  <2>3. ASSUME NEW c \in Calls, StartSucceeds(c) \/ StartFails(c)
        PROVE  TimerInv'
    BY <2>3 DEF StartSucceeds, StartFails
  <2>4. ASSUME NEW stopped \in BOOLEAN, StopSettles(stopped)
        PROVE  TimerInv'
    BY <2>4 DEF StopSettles
  <2>5. ASSUME NEW s \in Sources, AttachSource(s) PROVE TimerInv'
    BY <2>5 DEF AttachSource
  <2>6. QED BY <1>3, <2>1, <2>2, <2>3, <2>4, <2>5 DEF ProviderStep
<1>4. CASE UNCHANGED vars
  BY <1>4 DEF vars
<1>5. QED BY <1>1, <1>2, <1>3, <1>4 DEF Next

\* The idle timer never stops a source in use (#cancelStop, #removeClient,
\* #scheduleStopIfUnused and the finally blocks of the leases).
THEOREM StopTimerCorrect == Spec => []StopTimerOnlyWhenUnused
<1>1. Init => TimerInv
  BY DEF Init, TimerInv
<1>2. TimerInv /\ UserInv => StopTimerOnlyWhenUnused
  BY DEF TimerInv, UserInv, Unused, StopTimerOnlyWhenUnused, Released
<1>3. QED BY <1>1, <1>2, StopTimerStep, UsersCorrect, PTL DEF Spec

-----------------------------------------------------------------------------
(* Starts: what a promise is pending for *)

\* Only the current start has waiters to answer, and the provider still has to
\* settle it.
PendingIsStart ==
  /\ \A c \in Calls : promise[c] = "pending" <=> c = start
  /\ start # None => start \in inflight

\* A call counts as starting only while it awaits some start.
StartingAwaits == \A u \in Users : phase[u] = "starting" => awaiting[u] # None

StartInv == PendingIsStart /\ StartingAwaits

\* The parts of the handlers that touch starts.
LEMMA RetireStartPending ==
  ASSUME TypeOK, PendingIsStart, NEW p, RetireStart(p), inflight' = inflight
  PROVE  PendingIsStart'
BY ConstantsAssumption DEF RetireStart, PendingIsStart, TypeOK

\* #stopOwnedSource leaves the current start alone or retires it.
LEMMA StopOwnedSourcePending ==
  ASSUME TypeOK, PendingIsStart, NEW p, StopOwnedSource(p), inflight' = inflight
  PROVE  PendingIsStart'
BY RetireStartPending DEF StopOwnedSource, PendingIsStart

\* A user that joins a start (#ensureStarted) awaits the current one.
LEMMA JoinStartInv ==
  ASSUME TypeOK, StartInv, NEW u \in Users, NEW started, NEW refused,
         started # "starting", refused # "starting",
         JoinStart(u, started, refused)
  PROVE  StartInv'
<1> USE ConstantsAssumption DEF StartInv
<1>1. CASE /\ phase' = [phase EXCEPT ![u] = refused]
           /\ UNCHANGED <<startVars, inflight, awaiting>>
  BY <1>1 DEF PendingIsStart, StartingAwaits, TypeOK
<1>2. ASSUME NEW c \in Calls \cup {None}, EnsureStarted(c),
             phase' = [phase EXCEPT ![u] = IF c = None THEN started ELSE "starting"],
             awaiting' = [awaiting EXCEPT ![u] = c]
      PROVE  StartInv'
  <2>1. PendingIsStart'
    BY <1>2 DEF EnsureStarted, PendingIsStart, TypeOK
  <2>2. StartingAwaits'
    BY <1>2 DEF StartingAwaits, TypeOK
  <2>3. QED BY <2>1, <2>2
<1>3. QED BY <1>1, <1>2 DEF JoinStart

\* A new viewer (#addClient) awaits the current start.
LEMMA RegisterStart ==
  ASSUME TypeOK, StartInv, NEW v \in Viewers, Register(v)
  PROVE  StartInv'
BY JoinStartInv DEF Register, Users

\* Steps that leave every start as it is.
LEMMA StartsKept ==
  ASSUME TypeOK, StartInv,
         UNCHANGED <<start, promise, inflight, awaiting>>,
         \A u \in Users : phase'[u] = "starting" => phase[u] = "starting"
  PROVE  StartInv'
BY DEF StartInv, PendingIsStart, StartingAwaits

\* Steps by which a source or a start is given up.
LEMMA DetachStart ==
  ASSUME TypeOK, StartInv, NEW s, Detach(s), inflight' = inflight,
         awaiting' = awaiting
  PROVE  StartInv'
<1>1. PendingIsStart'
  BY RetireStartPending DEF Detach, StartInv
<1>2. StartingAwaits'
  BY DEF Detach, EndClients, StartInv, StartingAwaits
<1>3. QED BY <1>1, <1>2 DEF StartInv

\* Promise continuations leave no waiter behind.
LEMMA ContinuationStart == TypeOK /\ StartInv /\ Continuation => StartInv'
<1> SUFFICES ASSUME TypeOK, StartInv, Continuation PROVE StartInv'
  OBVIOUS
<1>1. ASSUME NEW v \in Viewers, AdmitClient(v) PROVE StartInv'
  <2>1. CASE Register(v)
    BY <2>1, RegisterStart
  <2>2. CASE ~Register(v)
    BY <1>1, <2>2, StartsKept DEF AdmitClient, TypeOK
  <2>3. QED BY <2>1, <2>2
<1>2. ASSUME NEW u \in Users,
             \/ u \in Viewers /\ ClientStarted(u)
             \/ u \in Tasks /\ TaskStarted(u)
      PROVE  StartInv'
  BY <1>2 DEF ClientStarted, TaskStarted, StartInv, PendingIsStart, StartingAwaits,
              TypeOK
<1>3. ASSUME NEW t \in Tasks, CaptureAnswered(t) \/ RecordingAnswered(t)
      PROVE  StartInv'
  BY <1>3, StartsKept DEF CaptureAnswered, RecordingAnswered, TypeOK
<1>4. ASSUME NEW t \in Tasks, ReleaseTask(t) PROVE StartInv'
  <2>1. PendingIsStart'
    BY <1>4, StopOwnedSourcePending DEF ReleaseTask, StartInv, PendingIsStart
  <2>2. StartingAwaits'
    BY <1>4 DEF ReleaseTask, StartInv, StartingAwaits, TypeOK
  <2>3. QED BY <2>1, <2>2 DEF StartInv
<1>5. QED BY <1>1, <1>2, <1>3, <1>4 DEF Continuation, Users

\* Nor does any request, media event or timer, also when it retires the start.
LEMMA SessionEventStart == TypeOK /\ StartInv /\ SessionEvent => StartInv'
<1> SUFFICES ASSUME TypeOK, StartInv, SessionEvent PROVE StartInv'
  OBVIOUS
<1>1. ASSUME NEW v \in Viewers, AddClient(v) PROVE StartInv'
  <2>1. CASE Register(v)
    BY <2>1, RegisterStart
  <2>2. CASE ~Register(v)
    BY <1>1, <2>2, StartsKept DEF AddClient, TypeOK
  <2>3. QED BY <2>1, <2>2
<1>2. ASSUME NEW v \in Viewers, ClientCloses(v) PROVE StartInv'
  BY <1>2 DEF ClientCloses, StartInv, PendingIsStart, StartingAwaits, TypeOK
<1>3. ASSUME NEW v \in Viewers, GateAbandoned(v) PROVE StartInv'
  BY <1>3, StartsKept DEF GateAbandoned, TypeOK
<1>4. ASSUME NEW t \in Tasks, BeginTask(t) PROVE StartInv'
  <2>1. CASE BeginCapture(t) \/ BeginClip(t)
    BY <2>1, JoinStartInv DEF BeginCapture, BeginClip, Users
  <2>2. CASE BeginControl(t)
    BY <2>2, StartsKept DEF BeginControl, TypeOK
  <2>3. QED BY <1>4, <2>1, <2>2 DEF BeginTask
<1>5. ASSUME NEW t \in Tasks,
             \/ OperationEnds(t) \/ AbortTrial(t)
             \/ SnapshotTimeout(t) \/ SettleRecording(t)
      PROVE  StartInv'
  BY <1>5, StartsKept
  DEF OperationEnds, AbortTrial, SnapshotTimeout, SettleRecording, TypeOK
<1>6. ASSUME NEW s \in Sources, ImageStored(s) \/ ExtractorExits(s)
      PROVE  StartInv'
  BY <1>6, StartsKept DEF ImageStored, ExtractorExits
<1>7. CASE SourceData
  BY <1>7, StartsKept DEF SourceData
<1>8. CASE StopTimerFires
  BY <1>8, StopOwnedSourcePending DEF StopTimerFires, StartInv, StartingAwaits
<1>9. CASE QuietTimerFires
  <2>1. CASE Detach("error")
    BY <1>9, <2>1, DetachStart DEF QuietTimerFires
  <2>2. CASE UNCHANGED <<startVars, phase>>
    BY <1>9, <2>2, StartsKept DEF QuietTimerFires
  <2>3. CASE RetireStart(private) /\ EndClients
    <3>1. PendingIsStart'
      BY <1>9, <2>3, RetireStartPending DEF QuietTimerFires, StartInv
    <3>2. StartingAwaits'
      BY <1>9, <2>3 DEF QuietTimerFires, EndClients, StartInv, StartingAwaits
    <3>3. QED BY <3>1, <3>2 DEF StartInv
  <2>4. QED BY <1>9, <2>1, <2>2, <2>3 DEF QuietTimerFires
<1>10. CASE Close
  <2>1. PendingIsStart'
    BY <1>10, RetireStartPending DEF Close, StartInv
  <2>2. StartingAwaits'
    BY <1>10 DEF Close, EndClients, StartInv, StartingAwaits
  <2>3. QED BY <2>1, <2>2 DEF StartInv
<1>11. QED
  BY <1>1, <1>2, <1>3, <1>4, <1>5, <1>6, <1>7, <1>8, <1>9, <1>10 DEF SessionEvent

\* Nor does anything the provider reports or settles.
LEMMA ProviderStepStart == TypeOK /\ StartInv /\ ProviderStep => StartInv'
<1> SUFFICES ASSUME TypeOK, StartInv, ProviderStep PROVE StartInv'
  OBVIOUS
<1>1. ASSUME NEW s \in Sources, AttachSource(s) PROVE StartInv'
  BY <1>1, StartsKept DEF AttachSource
<1>2. ASSUME NEW s \in Sources, NEW failed \in BOOLEAN, SourceEnded(s, failed)
      PROVE  StartInv'
  BY <1>2, DetachStart DEF SourceEnded
<1>3. CASE MarkStopped \/ LateStopSettles
  BY <1>3, DetachStart DEF MarkStopped, LateStopSettles
<1>4. ASSUME NEW c \in Calls, StartSucceeds(c) PROVE StartInv'
  BY <1>4, ConstantsAssumption
  DEF StartSucceeds, StartInv, PendingIsStart, StartingAwaits, TypeOK
<1>5. ASSUME NEW c \in Calls, StartFails(c) PROVE StartInv'
  <2>1. PendingIsStart'
    BY <1>5, ConstantsAssumption DEF StartFails, StartInv, PendingIsStart, TypeOK
  <2>2. StartingAwaits'
    BY <1>5 DEF StartFails, EndClients, StartInv, StartingAwaits
  <2>3. QED BY <2>1, <2>2 DEF StartInv
<1>6. ASSUME NEW stopped \in BOOLEAN, StopSettles(stopped) PROVE StartInv'
  BY <1>6, StartsKept DEF StopSettles
<1>7. QED BY <1>1, <1>2, <1>3, <1>4, <1>5, <1>6 DEF ProviderStep

\* StartInv is inductive.
LEMMA StartStep == TypeOK /\ StartInv /\ [Next]_vars => StartInv'
<1>1. TypeOK /\ StartInv /\ UNCHANGED vars => StartInv'
  BY StartsKept DEF vars
<1>2. QED
  BY <1>1, ContinuationStart, SessionEventStart, ProviderStepStart DEF Next

\* Hence waiters are known in every state (#ensureStarted, #retireStart).
LEMMA StartInvCorrect == Spec => []StartInv
<1>1. Init => StartInv
  BY ConstantsAssumption DEF Init, StartInv, PendingIsStart, StartingAwaits
<1>2. QED BY <1>1, StartStep, TypeCorrect, PTL DEF Spec

\* No call is left waiting for a start or a stop that nobody will settle
\* (#ensureStarted, #retireStart, #waitForStop).
THEOREM WaitersCorrect == Spec => []NoOrphanWaiter
<1>1. TypeOK /\ StartInv /\ UserInv => NoOrphanWaiter
  BY DEF TypeOK, StartInv, PendingIsStart, StartingAwaits, UserInv, NoOrphanWaiter
<1>2. QED BY <1>1, TypeCorrect, StartInvCorrect, UsersCorrect, PTL

-----------------------------------------------------------------------------
(* Isolation: who may be around while a trial is private *)

\* A task holds its lease until it is released; a trial that holds one is private
\* and alone, and awaits whatever start is current; an abandoned trial has left
\* its start or its late stop behind.
IsolationInv ==
  /\ PendingStartIsOwned
  /\ StopExcludesStart
  /\ PrivateIsolation
  /\ \A t \in Tasks : phase[t] \notin Released => t \in leases
  /\ \A t \in leases : kind[t] = "trial" => private /\ leases = {t}
  /\ abandoned => private /\ leases = {}
  /\ lateStop => abandoned /\ start = None
  /\ private /\ start # None => \A t \in leases : awaiting[t] = start

\* Steps that leave starts, stops, leases and isolation as they are.
LEMMA IsolationKept ==
  ASSUME IsolationInv,
         UNCHANGED <<start, owned, stop, private, abandoned, lateStop, leases, kind>>,
         clients' \subseteq clients,
         \A t \in Tasks : phase'[t] \notin Released => phase[t] \notin Released,
         \A t \in leases : start # None /\ awaiting[t] = start => awaiting'[t] = start
  PROVE  IsolationInv'
<1> USE DEF IsolationInv
<1>1. PendingStartIsOwned' /\ StopExcludesStart'
  BY DEF PendingStartIsOwned, StopExcludesStart
<1>2. PrivateIsolation'
  BY DEF PrivateIsolation
<1>3. QED BY <1>1, <1>2

\* Steps that retire the start, whether or not they begin a stop or give up
\* ownership.
LEMMA IsolationRetire ==
  ASSUME IsolationInv, RetireStart(private),
         UNCHANGED <<private, abandoned, lateStop, leases, kind, awaiting>>,
         clients' \subseteq clients,
         \A t \in Tasks : phase'[t] \notin Released => phase[t] \notin Released
  PROVE  IsolationInv'
<1> USE DEF IsolationInv, RetireStart
<1>1. PendingStartIsOwned' /\ StopExcludesStart'
  BY DEF PendingStartIsOwned, StopExcludesStart
<1>2. PrivateIsolation'
  BY DEF PrivateIsolation
<1>3. QED BY <1>1, <1>2

\* markStopped and #sourceEnded keep isolation, stops and ownership in order.
LEMMA IsolationDetach ==
  ASSUME TypeOK, IsolationInv, NEW s, Detach(s),
         UNCHANGED <<private, abandoned, lateStop, leases, kind, awaiting>>
  PROVE  IsolationInv'
<1>1. \A t \in Tasks : phase'[t] \notin Released => phase[t] \notin Released
  BY ConstantsAssumption DEF Detach, EndClients, TypeOK, Users, Released
<1>2. QED BY <1>1, IsolationRetire DEF Detach

\* Shared users join a start only while nothing is private and no stop pends.
LEMMA SharedJoin ==
  ASSUME IsolationInv, ~private, ~private', stop' = stop,
         NEW u, NEW started, NEW refused, JoinStart(u, started, refused)
  PROVE  PendingStartIsOwned' /\ StopExcludesStart'
BY DEF IsolationInv, JoinStart, EnsureStarted, StartRefused,
       PendingStartIsOwned, StopExcludesStart

\* A viewer registers only on a shared session whose gate is open (#addClient).
LEMMA RegisterIsolation ==
  ASSUME TypeOK, IsolationInv, ~private, NEW v \in Viewers, Register(v)
  PROVE  IsolationInv'
<1>1. PendingStartIsOwned' /\ StopExcludesStart'
  BY SharedJoin DEF Register
<1>2. \A t \in Tasks : phase'[t] = phase[t]
  BY ConstantsAssumption DEF Register, JoinStart, TypeOK, Users
<1>3. QED
  BY <1>1, <1>2 DEF Register, IsolationInv, PrivateIsolation

-----------------------------------------------------------------------------
\* The finally blocks hand isolation to the late handler or lift it
\* (recordClip, #stopNowIfUnused).
LEMMA ReleaseIsolation ==
  ASSUME TypeOK, StartInv, IsolationInv, NEW t \in Tasks, ReleaseTask(t)
  PROVE  IsolationInv'
<1> USE DEF IsolationInv
<1>1. t \in leases
  BY DEF ReleaseTask, Released
<1>2. /\ leases' = leases \ {t}
      /\ \A x \in Tasks : phase'[x] \notin Released => x \in leases'
  BY DEF ReleaseTask, TypeOK, Users, Released
<1>3. ~abandoned /\ ~lateStop
  BY <1>1
<1>4. CASE kind[t] = "trial"
  <2>1. private /\ leases = {t} /\ leases' = {} /\ clients = {}
    BY <1>1, <1>2, <1>4 DEF PrivateIsolation
  <2>2. CASE StartUnsettled(t)
    <3>1. start # None
      BY <2>2 DEF StartUnsettled, StartInv, PendingIsStart, TypeOK, Users
    <3>2. private' /\ abandoned' /\ start' = start
      BY <1>4, <2>2 DEF ReleaseTask, StopOwnedSource, RetireStart
    <3>3. QED
      BY <1>2, <1>3, <2>1, <3>1, <3>2
      DEF ReleaseTask, PrivateIsolation, PendingStartIsOwned, StopExcludesStart
  <2>3. CASE ~StartUnsettled(t)
    <3>1. start = None
      BY <1>1, <2>1, <2>3 DEF StartUnsettled, StartInv, PendingIsStart, TypeOK
    <3>2. ~private' /\ ~abandoned' /\ start' = None
      BY <1>3, <1>4, <2>3, <3>1 DEF ReleaseTask, StopOwnedSource, RetireStart
    <3>3. QED
      BY <1>2, <1>3, <2>1, <3>2
      DEF ReleaseTask, PrivateIsolation, PendingStartIsOwned, StopExcludesStart
  <2>4. QED BY <2>2, <2>3
<1>5. CASE kind[t] # "trial"
  <2>1. ~private /\ ~private' /\ abandoned' = abandoned
    BY <1>1, <1>5 DEF ReleaseTask, PrivateIsolation
  <2>2. PendingStartIsOwned' /\ StopExcludesStart'
    BY <1>5, <2>1
    DEF ReleaseTask, StopOwnedSource, RetireStart, PendingStartIsOwned,
        StopExcludesStart
  <2>3. QED
    BY <1>2, <1>3, <2>1, <2>2 DEF ReleaseTask, PrivateIsolation
<1>6. QED BY <1>4, <1>5

\* A task begins alone if it is private, on a shared session if not
\* (recordClip, #assertShareable).
LEMMA BeginIsolation ==
  ASSUME TypeOK, StartInv, IsolationInv, NEW t \in Tasks, BeginTask(t)
  PROVE  IsolationInv'
<1> USE DEF IsolationInv
<1>1. ~private /\ ~abandoned /\ ~lateStop
  BY DEF BeginTask, BeginCapture, BeginClip, BeginControl, Shareable
<1>2. PICK k \in Kinds : kind' = [kind EXCEPT ![t] = k]
  BY DEF BeginTask
<1>3. /\ kind'[t] = k /\ \A x \in leases \ {t} : kind'[x] # "trial"
      /\ leases' = leases \cup {t}
  BY <1>1, <1>2 DEF BeginTask, TypeOK
<1>4. \A x \in Tasks : phase'[x] \notin Released => x \in leases'
  BY <1>3 DEF BeginTask, BeginCapture, BeginClip, BeginControl, JoinStart, TypeOK, Released,
              Users
<1>5. CASE k # "trial"
  <2>1. ~private'
    BY <1>1, <1>3, <1>5 DEF BeginTask, BeginCapture, BeginClip, BeginControl
  <2>2. PendingStartIsOwned' /\ StopExcludesStart'
    <3>1. CASE BeginCapture(t) \/ BeginClip(t)
      BY <1>1, <2>1, <3>1, SharedJoin DEF BeginTask, BeginCapture, BeginClip
    <3>2. CASE BeginControl(t)
      BY <3>2, <1>1 DEF BeginTask, BeginControl, PendingStartIsOwned, StopExcludesStart
    <3>3. QED BY <3>1, <3>2 DEF BeginTask
  <2>3. QED
    BY <1>1, <1>3, <1>4, <1>5, <2>1, <2>2 DEF BeginTask, PrivateIsolation
<1>6. CASE k = "trial"
  <2>1. BeginClip(t) /\ kind'[t] = "trial"
    BY <1>3, <1>6 DEF BeginTask, BeginCapture, BeginControl, CaptureKinds
  <2>2. /\ private' /\ clients = {} /\ leases = {} /\ start = None
        /\ state \in {"idle", "error"}
    BY <1>1, <2>1 DEF BeginClip, PendingStartIsOwned
  <2>3. start' # None => awaiting'[t] = start'
    BY <2>1, <2>2 DEF BeginClip, JoinStart, EnsureStarted, TypeOK, Users
  <2>4. clients' = clients /\ leases' = {t} /\ abandoned' = abandoned
        /\ lateStop' = lateStop
    BY <1>3, <2>2 DEF BeginTask
  <2>5. QED
    BY <1>1, <1>4, <2>1, <2>2, <2>3, <2>4
    DEF PrivateIsolation, PendingStartIsOwned, StopExcludesStart
<1>7. QED BY <1>5, <1>6

\* Promise continuations keep isolation, stops and ownership in order.
LEMMA ContinuationIsolation ==
  TypeOK /\ StartInv /\ IsolationInv /\ Continuation => IsolationInv'
<1> SUFFICES ASSUME TypeOK, StartInv, IsolationInv, Continuation PROVE IsolationInv'
  OBVIOUS
<1>1. ASSUME NEW v \in Viewers, AdmitClient(v) PROVE IsolationInv'
  <2>1. CASE Register(v) /\ Shareable
    BY <2>1, RegisterIsolation DEF Shareable
  <2>2. CASE \E p \in {"out", "gate"} :
               /\ phase' = [phase EXCEPT ![v] = p]
               /\ UNCHANGED <<closed, startVars, providerVars, mediaVars, extractors,
                              trialVars, stopTimer, clients, consumerVars>>
    <3>1. \A t \in Tasks : phase'[t] = phase[t]
      BY <2>2, ConstantsAssumption DEF TypeOK, Users
    <3>2. QED BY <2>2, <3>1, IsolationKept
  <2>3. QED BY <1>1, <2>1, <2>2 DEF AdmitClient
<1>2. ASSUME NEW v \in Viewers, ClientStarted(v) PROVE IsolationInv'
  <2>1. \A t \in Tasks : phase'[t] = phase[t] /\ awaiting'[t] = awaiting[t]
    BY <1>2, ConstantsAssumption DEF ClientStarted, TypeOK, Users
  <2>2. leases \subseteq Tasks
    BY DEF TypeOK
  <2>3. QED BY <1>2, <2>1, <2>2, IsolationKept DEF ClientStarted
<1>3. ASSUME NEW t \in Tasks, TaskStarted(t) PROVE IsolationInv'
  <2>1. \A x \in Tasks : phase'[x] \notin Released => phase[x] \notin Released
    BY <1>3 DEF TaskStarted, TypeOK, Released
  <2>2. \A x \in leases : start # None /\ awaiting[x] = start => awaiting'[x] = start
    BY <1>3 DEF TaskStarted, StartInv, PendingIsStart, TypeOK, Users
  <2>3. QED BY <1>3, <2>1, <2>2, IsolationKept DEF TaskStarted
<1>4. ASSUME NEW t \in Tasks, CaptureAnswered(t) \/ RecordingAnswered(t)
      PROVE  IsolationInv'
  <2>1. \A x \in Tasks : phase'[x] \notin Released => phase[x] \notin Released
    BY <1>4 DEF CaptureAnswered, RecordingAnswered, TypeOK, Users, Released
  <2>2. QED BY <1>4, <2>1, IsolationKept DEF CaptureAnswered, RecordingAnswered
<1>5. ASSUME NEW t \in Tasks, ReleaseTask(t) PROVE IsolationInv'
  BY <1>5, ReleaseIsolation
<1>6. QED BY <1>1, <1>2, <1>3, <1>4, <1>5 DEF Continuation

\* So do requests, media events and timers.
LEMMA SessionEventIsolation ==
  TypeOK /\ StartInv /\ IsolationInv /\ SessionEvent => IsolationInv'
<1> SUFFICES ASSUME TypeOK, StartInv, IsolationInv, SessionEvent PROVE IsolationInv'
  OBVIOUS
<1>1. ASSUME NEW v \in Viewers, AddClient(v) PROVE IsolationInv'
  <2>1. CASE Register(v)
    BY <1>1, <2>1, RegisterIsolation DEF AddClient, Shareable
  <2>2. CASE ~Register(v)
    <3>1. \A t \in Tasks : phase'[t] = phase[t]
      BY <1>1, <2>2, ConstantsAssumption DEF AddClient, TypeOK, Users
    <3>2. QED BY <1>1, <2>2, <3>1, IsolationKept DEF AddClient
  <2>3. QED BY <2>1, <2>2
<1>2. ASSUME NEW v \in Viewers, ClientCloses(v) \/ GateAbandoned(v) PROVE IsolationInv'
  <2>1. \A t \in Tasks : phase'[t] = phase[t] /\ awaiting'[t] = awaiting[t]
    BY <1>2, ConstantsAssumption DEF ClientCloses, GateAbandoned, TypeOK, Users
  <2>2. leases \subseteq Tasks
    BY DEF TypeOK
  <2>3. QED BY <1>2, <2>1, <2>2, IsolationKept DEF ClientCloses, GateAbandoned
<1>3. ASSUME NEW t \in Tasks, BeginTask(t) PROVE IsolationInv'
  BY <1>3, BeginIsolation
<1>4. ASSUME NEW t \in Tasks,
             \/ OperationEnds(t) \/ AbortTrial(t)
             \/ SnapshotTimeout(t) \/ SettleRecording(t)
      PROVE  IsolationInv'
  <2>1. \A x \in Tasks : phase'[x] \notin Released => phase[x] \notin Released
    BY <1>4 DEF OperationEnds, AbortTrial, SnapshotTimeout, SettleRecording, TypeOK, Released,
                Users
  <2>2. QED
    BY <1>4, <2>1, IsolationKept
    DEF OperationEnds, AbortTrial, SnapshotTimeout, SettleRecording
<1>5. ASSUME NEW s \in Sources, ImageStored(s) \/ ExtractorExits(s)
      PROVE  IsolationInv'
  BY <1>5, IsolationKept DEF ImageStored, ExtractorExits
<1>6. CASE SourceData
  BY <1>6, IsolationKept DEF SourceData
<1>7. CASE StopTimerFires
  <2>1. CASE stop
    BY <1>7, <2>1, IsolationKept DEF StopTimerFires, StopOwnedSource
  <2>2. CASE ~stop
    BY <1>7, <2>2, IsolationRetire DEF StopTimerFires, StopOwnedSource
  <2>3. QED BY <2>1, <2>2
<1>8. ASSUME EndClients PROVE \A t \in Tasks : phase'[t] \notin Released => phase[t] \notin Released
  BY <1>8, ConstantsAssumption DEF EndClients, TypeOK, Users, Released
<1>9. CASE QuietTimerFires
  <2>1. CASE Detach("error")
    BY <1>9, <2>1, IsolationDetach DEF QuietTimerFires
  <2>2. CASE UNCHANGED <<stop, startVars, clients, phase>>
    BY <1>9, <2>2, IsolationKept DEF QuietTimerFires
  <2>3. CASE RetireStart(private) /\ EndClients /\ clients' = {}
    BY <1>8, <1>9, <2>3, IsolationRetire DEF QuietTimerFires
  <2>4. QED BY <1>9, <2>1, <2>2, <2>3 DEF QuietTimerFires
<1>10. CASE Close
  BY <1>8, <1>10, IsolationRetire DEF Close
<1>11. QED
  BY <1>1, <1>2, <1>3, <1>4, <1>5, <1>6, <1>7, <1>9, <1>10 DEF SessionEvent

\* So does what the provider reports or settles (retireLate among it).
LEMMA ProviderStepIsolation ==
  TypeOK /\ StartInv /\ IsolationInv /\ ProviderStep => IsolationInv'
<1> SUFFICES ASSUME TypeOK, StartInv, IsolationInv, ProviderStep PROVE IsolationInv'
  OBVIOUS
<1> USE DEF IsolationInv
<1>1. ASSUME NEW s \in Sources, AttachSource(s) PROVE IsolationInv'
  BY <1>1, IsolationKept DEF AttachSource
<1>2. ASSUME NEW s \in Sources, NEW failed \in BOOLEAN, SourceEnded(s, failed)
      PROVE  IsolationInv'
  BY <1>2, IsolationDetach DEF SourceEnded
<1>3. CASE MarkStopped
  BY <1>3, IsolationDetach DEF MarkStopped
<1>4. ASSUME NEW c \in Calls, StartSucceeds(c) PROVE IsolationInv'
  BY <1>4
  DEF StartSucceeds, PrivateIsolation, PendingStartIsOwned, StopExcludesStart
<1>5. ASSUME NEW c \in Calls, StartFails(c) PROVE IsolationInv'
  <2>1. CASE start # c
    BY <1>5, <2>1, IsolationKept DEF StartFails
  <2>2. CASE start = c
    <3>1. start' = None /\ start # None
      BY <1>5, <2>2, ConstantsAssumption DEF StartFails
    <3>2. \A t \in Tasks : phase'[t] \notin Released => phase[t] \notin Released
      BY <1>5, <2>2, ConstantsAssumption DEF StartFails, EndClients, TypeOK, Users, Released
    <3>3. CASE abandoned
      BY <1>5, <2>2, <3>1, <3>2, <3>3
      DEF StartFails, PrivateIsolation, PendingStartIsOwned, StopExcludesStart
    <3>4. CASE ~abandoned
      BY <1>5, <2>2, <3>1, <3>2, <3>4
      DEF StartFails, PrivateIsolation, PendingStartIsOwned, StopExcludesStart
    <3>5. QED BY <3>3, <3>4
  <2>3. QED BY <2>1, <2>2
<1>6. ASSUME NEW stopped \in BOOLEAN, StopSettles(stopped) PROVE IsolationInv'
  <2>1. \A t \in Tasks : phase'[t] \notin Released => phase[t] \notin Released
    BY <1>6 DEF StopSettles, TypeOK, Users, Released
  <2>2. PendingStartIsOwned' /\ StopExcludesStart'
    BY <1>6 DEF StopSettles, PendingStartIsOwned, StopExcludesStart
  <2>3. QED BY <1>6, <2>1, <2>2 DEF StopSettles, PrivateIsolation
<1>7. CASE LateStopSettles
  <2>1. /\ start = None /\ start' = None /\ leases' = {} /\ ~private'
        /\ ~abandoned' /\ ~lateStop'
    BY <1>7 DEF LateStopSettles, Detach, RetireStart
  <2>2. \A t \in Tasks : phase'[t] \notin Released => phase[t] \notin Released
    BY <1>7, ConstantsAssumption DEF LateStopSettles, Detach, EndClients, TypeOK, Users, Released
  <2>3. QED
    BY <1>7, <2>1, <2>2
    DEF LateStopSettles, PrivateIsolation, PendingStartIsOwned, StopExcludesStart
<1>8. QED BY <1>1, <1>2, <1>3, <1>4, <1>5, <1>6, <1>7 DEF ProviderStep

\* Hence isolation, stops and ownership are in order in every state.
LEMMA IsolationInvCorrect == Spec => []IsolationInv
<1>1. Init => IsolationInv
  BY DEF Init, IsolationInv, PrivateIsolation, PendingStartIsOwned, StopExcludesStart,
         Users, Released
<1>2. TypeOK /\ StartInv /\ IsolationInv /\ [Next]_vars => IsolationInv'
  <2>1. IsolationInv /\ UNCHANGED vars => IsolationInv'
    BY IsolationKept DEF vars
  <2>2. QED
    BY <2>1, ContinuationIsolation, SessionEventIsolation, ProviderStepIsolation
    DEF Next
<1>3. QED BY <1>1, <1>2, TypeCorrect, StartInvCorrect, PTL DEF Spec

\* While a stop is pending no start is current (#stopOwnedSource,
\* #ensureStarted).
THEOREM StopCorrect == Spec => []StopExcludesStart
<1>1. IsolationInv => StopExcludesStart
  BY DEF IsolationInv
<1>2. QED BY <1>1, IsolationInvCorrect, PTL

\* Every pending start is owned (#ensureStarted, markStopped, #sourceEnded).
THEOREM OwnershipCorrect == Spec => []PendingStartIsOwned
<1>1. IsolationInv => PendingStartIsOwned
  BY DEF IsolationInv
<1>2. QED BY <1>1, IsolationInvCorrect, PTL

\* A private trial is alone and its isolation has an end in sight (recordClip,
\* #assertShareable, retireLate).
THEOREM IsolationCorrect == Spec => []PrivateIsolation
<1>1. IsolationInv => PrivateIsolation
  BY DEF IsolationInv
<1>2. QED BY <1>1, IsolationInvCorrect, PTL

-----------------------------------------------------------------------------
(* The video of a private trial *)

\* Steps that leave the source and its snapshot process alone.
LEMMA VideoKept ==
  ASSUME PrivateVideoNotRetained, UNCHANGED <<source, suppress, ffmpeg>>,
         private' => private \/ source = None
  PROVE  PrivateVideoNotRetained'
BY DEF PrivateVideoNotRetained

\* #cleanupSource leaves nothing to suppress.
LEMMA VideoCleaned ==
  ASSUME CleanupSource
  PROVE  PrivateVideoNotRetained'
BY DEF CleanupSource, PrivateVideoNotRetained

\* No step feeds private video to the snapshot process (attachSource).
LEMMA VideoStep ==
  ASSUME TypeOK, IsolationInv, PrivateVideoNotRetained, [Next]_vars
  PROVE  PrivateVideoNotRetained'
<1>1. CASE Continuation
  <2>1. ASSUME NEW v \in Viewers, AdmitClient(v) \/ ClientStarted(v)
        PROVE  PrivateVideoNotRetained'
    BY <2>1, VideoKept DEF AdmitClient, ClientStarted, Register
  <2>2. ASSUME NEW t \in Tasks,
               TaskStarted(t) \/ CaptureAnswered(t) \/ RecordingAnswered(t)
        PROVE  PrivateVideoNotRetained'
    BY <2>2, VideoKept DEF TaskStarted, CaptureAnswered, RecordingAnswered
  <2>3. ASSUME NEW t \in Tasks, ReleaseTask(t) PROVE PrivateVideoNotRetained'
    <3>1. private' => private
      BY <2>3 DEF ReleaseTask, IsolationInv, Released
    <3>2. QED BY <2>3, <3>1, VideoKept DEF ReleaseTask
  <2>4. QED BY <1>1, <2>1, <2>2, <2>3 DEF Continuation
<1>2. CASE SessionEvent
  <2>1. ASSUME NEW v \in Viewers, AddClient(v) \/ ClientCloses(v) \/ GateAbandoned(v)
        PROVE  PrivateVideoNotRetained'
    BY <2>1, VideoKept DEF AddClient, Register, ClientCloses, GateAbandoned
  <2>2. ASSUME NEW t \in Tasks, BeginTask(t) PROVE PrivateVideoNotRetained'
    BY <2>2, VideoKept DEF BeginTask, BeginCapture, BeginClip, BeginControl
  <2>3. ASSUME NEW t \in Tasks,
               \/ OperationEnds(t) \/ AbortTrial(t)
               \/ SnapshotTimeout(t) \/ SettleRecording(t)
        PROVE  PrivateVideoNotRetained'
    BY <2>3, VideoKept DEF OperationEnds, AbortTrial, SnapshotTimeout, SettleRecording
  <2>4. CASE SourceData
    BY <2>4 DEF SourceData, PrivateVideoNotRetained
  <2>5. ASSUME NEW s \in Sources, ImageStored(s) \/ ExtractorExits(s)
        PROVE  PrivateVideoNotRetained'
    BY <2>5, VideoKept DEF ImageStored, ExtractorExits
  <2>6. CASE StopTimerFires
    BY <2>6, VideoKept DEF StopTimerFires
  <2>7. CASE QuietTimerFires
    BY <2>7, VideoKept, VideoCleaned DEF QuietTimerFires, Detach
  <2>8. CASE Close
    BY <2>8, VideoCleaned DEF Close
  <2>9. QED
    BY <1>2, <2>1, <2>2, <2>3, <2>4, <2>5, <2>6, <2>7, <2>8 DEF SessionEvent
<1>3. CASE ProviderStep
  <2>1. ASSUME NEW s \in Sources, AttachSource(s) PROVE PrivateVideoNotRetained'
    BY <2>1 DEF AttachSource, PrivateVideoNotRetained
  <2>2. ASSUME NEW s \in Sources, NEW failed \in BOOLEAN, SourceEnded(s, failed)
        PROVE  PrivateVideoNotRetained'
    BY <2>2, VideoCleaned DEF SourceEnded, Detach
  <2>3. CASE MarkStopped \/ LateStopSettles
    BY <2>3, VideoCleaned DEF MarkStopped, LateStopSettles, Detach
  <2>4. ASSUME NEW c \in Calls, StartSucceeds(c) PROVE PrivateVideoNotRetained'
    BY <2>4, VideoKept DEF StartSucceeds
  <2>5. ASSUME NEW c \in Calls, StartFails(c) PROVE PrivateVideoNotRetained'
    BY <2>5, VideoKept, VideoCleaned DEF StartFails
  <2>6. ASSUME NEW stopped \in BOOLEAN, StopSettles(stopped)
        PROVE  PrivateVideoNotRetained'
    BY <2>6, VideoKept, VideoCleaned DEF StopSettles
  <2>7. QED BY <1>3, <2>1, <2>2, <2>3, <2>4, <2>5, <2>6 DEF ProviderStep
<1>4. CASE UNCHANGED vars
  BY <1>4, VideoKept DEF vars
<1>5. QED BY <1>1, <1>2, <1>3, <1>4 DEF Next

\* Video of a private trial never feeds the snapshot process (attachSource,
\* recordClip).
THEOREM PrivateVideoCorrect == Spec => []PrivateVideoNotRetained
<1>1. Init => PrivateVideoNotRetained
  BY DEF Init, PrivateVideoNotRetained
<1>2. QED
  BY <1>1, VideoStep, TypeCorrect, IsolationInvCorrect, PTL DEF Spec

-----------------------------------------------------------------------------
(* Which source a capture's image comes from *)

\* A snapshot process stores nothing once its source is cleared.
OwnImagesOnly == \A s \in Sources : ImageStored(s) => s = source

\* Only captures that hold a lease have an outcome, and one that awaits the
\* current start before its source is attached has no image.
FrameInv ==
  /\ \A t \in Tasks : frame[t] # None => t \in leases /\ kind[t] \in CaptureKinds
  /\ source = None /\ start # None =>
       \A t \in Tasks : phase[t] = "starting" /\ awaiting[t] = start
                          => frame[t] \notin Sources

\* A private session has no captures.
LEMMA FrameRule ==
  ASSUME IsolationInv',
         \A t \in Tasks : frame'[t] # None => t \in leases' /\ kind'[t] \in CaptureKinds,
         source' = None /\ start' # None /\ ~private' =>
           \A t \in Tasks : phase'[t] = "starting" /\ awaiting'[t] = start'
                              => frame'[t] \notin Sources
  PROVE  FrameInv'
<1>1. CASE private'
  <2>1. \A t \in leases' : kind'[t] = "trial"
    BY <1>1 DEF IsolationInv, PrivateIsolation
  <2>2. \A t \in Tasks : frame'[t] = None
    BY <2>1 DEF CaptureKinds
  <2>3. QED BY <2>2, ConstantsAssumption DEF FrameInv
<1>2. QED BY <1>1 DEF FrameInv

\* Steps that attach no call to a start: the source stays, or the start goes too.
LEMMA FramesKept ==
  ASSUME FrameInv, IsolationInv', UNCHANGED <<leases, kind, frame>>,
         start' \in {start, None},
         source' = None /\ source # None => start' = None \/ private',
         \A t \in Tasks : phase'[t] = "starting"
                            => phase[t] = "starting" /\ awaiting'[t] = awaiting[t]
  PROVE  FrameInv'
BY FrameRule DEF FrameInv

\* #endClients moves no task's call.
LEMMA EndedTasks ==
  ASSUME TypeOK, EndClients
  PROVE  \A t \in Tasks : phase'[t] = phase[t]
BY ConstantsAssumption DEF TypeOK, EndClients, Users

\* markStopped and #sourceEnded retire the start with its source.
LEMMA DetachFrames ==
  ASSUME TypeOK, FrameInv, IsolationInv', NEW st, Detach(st),
         UNCHANGED <<leases, kind, awaiting, frame>>,
         start = None \/ private' = private
  PROVE  FrameInv'
<1>1. start' = None \/ (start' = start /\ private')
  BY DEF Detach, RetireStart
<1>2. \A t \in Tasks : phase'[t] = phase[t]
  BY EndedTasks DEF Detach
<1>3. QED BY <1>1, <1>2, FramesKept

\* A call that joins a start brings no image (#ensureStarted).
LEMMA JoinFrames ==
  ASSUME TypeOK, FrameInv, IsolationInv', NEW u \in Users,
         NEW started, NEW refused, started # "starting", refused # "starting",
         JoinStart(u, started, refused), source' = source, frame' = frame,
         u \in Tasks => frame[u] = None,
         \A t \in Tasks : frame'[t] # None => t \in leases' /\ kind'[t] \in CaptureKinds
  PROVE  FrameInv'
<1> Tasks \subseteq Users
  BY DEF Users
<1>1. CASE StartRefused /\ phase' = [phase EXCEPT ![u] = refused]
           /\ UNCHANGED <<startVars, inflight, awaiting>>
  <2>1. \A t \in Tasks : phase'[t] = "starting" => phase[t] = "starting"
    BY <1>1 DEF TypeOK
  <2>2. QED BY <1>1, <2>1, FrameRule DEF FrameInv
<1>2. ASSUME NEW c \in Calls \cup {None}, EnsureStarted(c),
             phase' = [phase EXCEPT ![u] = IF c = None THEN started ELSE "starting"],
             awaiting' = [awaiting EXCEPT ![u] = c]
      PROVE  FrameInv'
  <2>1. \A t \in Tasks : t # u => phase'[t] = phase[t] /\ awaiting'[t] = awaiting[t]
    BY <1>2 DEF TypeOK
  <2>2. u \in Tasks => frame'[u] \notin Sources
    BY ConstantsAssumption
  <2>3. CASE start' = start
    BY <2>1, <2>2, <2>3, FrameRule DEF FrameInv
  <2>4. CASE c \in Calls /\ start' = c /\ FreeCall(c)
    BY <2>1, <2>2, <2>4, FrameRule DEF FreeCall
  <2>5. QED BY <1>2, <2>3, <2>4 DEF EnsureStarted
<1>3. QED BY <1>1, <1>2 DEF JoinStart

\* A viewer that registers has no outcome of its own.
LEMMA RegisterFrames ==
  ASSUME TypeOK, FrameInv, IsolationInv', NEW v \in Viewers, Register(v)
  PROVE  FrameInv'
<1>1. v \in Users /\ v \notin Tasks
  BY ConstantsAssumption DEF Users
<1>2. JoinStart(v, "open", "closing") /\ UNCHANGED <<source, frame, leases, kind>>
  BY DEF Register
<1>3. QED BY <1>1, <1>2, JoinFrames DEF FrameInv

\* Promise continuations.
LEMMA ContinuationFrames ==
  ASSUME TypeOK, FrameInv, IsolationInv', Continuation
  PROVE  FrameInv'
<1>0. Viewers \cap Tasks = {} /\ Viewers \subseteq Users /\ Tasks \subseteq Users
  BY ConstantsAssumption DEF Users
<1>1. ASSUME NEW v \in Viewers, AdmitClient(v) \/ ClientStarted(v) PROVE FrameInv'
  <2>1. CASE Register(v)
    BY <2>1, RegisterFrames
  <2>2. CASE ~Register(v)
    <3>1. UNCHANGED <<leases, kind, frame, start, source>>
      BY <1>1, <2>2 DEF AdmitClient, ClientStarted
    <3>2. \A t \in Tasks : phase'[t] = phase[t] /\ awaiting'[t] = awaiting[t]
      BY <1>0, <1>1, <2>2 DEF AdmitClient, ClientStarted, TypeOK
    <3>3. QED BY <3>1, <3>2, FramesKept
  <2>3. QED BY <2>1, <2>2
<1>2. ASSUME NEW t \in Tasks, TaskStarted(t) \/ CaptureAnswered(t) \/ RecordingAnswered(t)
      PROVE  FrameInv'
  <2>1. UNCHANGED <<leases, kind, frame, start, source>>
    BY <1>2 DEF TaskStarted, CaptureAnswered, RecordingAnswered
  <2>2. \A r \in Tasks : phase'[r] = "starting"
                           => phase[r] = "starting" /\ awaiting'[r] = awaiting[r]
    BY <1>0, <1>2 DEF TaskStarted, CaptureAnswered, RecordingAnswered, TypeOK
  <2>3. QED BY <2>1, <2>2, FramesKept
<1>3. ASSUME NEW t \in Tasks, ReleaseTask(t) PROVE FrameInv'
  <2>1. /\ UNCHANGED <<kind, source>> /\ leases' = leases \ {t} /\ start' \in {start, None}
        /\ frame' = [frame EXCEPT ![t] = None]
    BY <1>3 DEF ReleaseTask, StopOwnedSource, RetireStart
  <2>2. \A r \in Tasks : /\ r # t => frame'[r] = frame[r]
                         /\ phase'[r] = "starting"
                              => phase[r] = "starting" /\ awaiting'[r] = awaiting[r]
    BY <1>0, <1>3, <2>1 DEF ReleaseTask, TypeOK
  <2>3. frame'[t] = None
    BY <2>1 DEF TypeOK
  <2>4. QED BY <2>1, <2>2, <2>3, FrameRule, ConstantsAssumption DEF FrameInv
<1>4. QED BY <1>1, <1>2, <1>3 DEF Continuation

\* Requests, media and timers; an image is stored of the attached source.
LEMMA SessionEventFrames ==
  ASSUME TypeOK, UserInv, FrameInv, IsolationInv', SessionEvent, OwnImagesOnly
  PROVE  FrameInv'
<1>0. Viewers \cap Tasks = {} /\ Viewers \subseteq Users /\ Tasks \subseteq Users
  BY ConstantsAssumption DEF Users
<1>1. ASSUME NEW v \in Viewers, AddClient(v) \/ ClientCloses(v) \/ GateAbandoned(v)
      PROVE  FrameInv'
  <2>1. CASE Register(v)
    BY <2>1, RegisterFrames
  <2>2. CASE ~Register(v)
    <3>1. UNCHANGED <<leases, kind, frame, start, source>>
      BY <1>1, <2>2 DEF AddClient, ClientCloses, GateAbandoned
    <3>2. \A t \in Tasks : phase'[t] = phase[t] /\ awaiting'[t] = awaiting[t]
      BY <1>0, <1>1, <2>2 DEF AddClient, ClientCloses, GateAbandoned, TypeOK
    <3>3. QED BY <3>1, <3>2, FramesKept
  <2>3. QED BY <2>1, <2>2
<1>2. ASSUME NEW t \in Tasks, BeginTask(t) PROVE FrameInv'
  <2>1. /\ phase[t] = "out" /\ leases' = leases \cup {t}
        /\ UNCHANGED <<frame, source>>
        /\ \A r \in Tasks : r # t => kind'[r] = kind[r]
    BY <1>2 DEF BeginTask, TypeOK
  <2>2. frame[t] = None
    BY <2>1 DEF UserInv, Released, FrameInv
  <2>3. \A r \in Tasks : frame'[r] # None => r \in leases' /\ kind'[r] \in CaptureKinds
    BY <2>1, <2>2 DEF FrameInv
  <2>4. CASE JoinStart(t, "waiting", "settled")
    BY <1>0, <2>1, <2>2, <2>3, <2>4, JoinFrames
  <2>5. CASE phase' = [phase EXCEPT ![t] = "busy"] /\ UNCHANGED <<startVars, awaiting>>
    <3>1. \A r \in Tasks : phase'[r] = "starting" => phase[r] = "starting"
      BY <1>0, <2>5 DEF TypeOK
    <3>2. QED BY <2>1, <2>3, <2>5, <3>1, FrameRule DEF FrameInv
  <2>6. QED BY <1>2, <2>4, <2>5 DEF BeginTask, BeginCapture, BeginClip, BeginControl
<1>3. ASSUME NEW t \in Tasks, OperationEnds(t) \/ AbortTrial(t) \/ SettleRecording(t)
      PROVE  FrameInv'
  <2>1. UNCHANGED <<leases, kind, frame, start, source, awaiting>>
    BY <1>3 DEF OperationEnds, AbortTrial, SettleRecording
  <2>2. \A r \in Tasks : phase'[r] = "starting" => phase[r] = "starting"
    BY <1>0, <1>3 DEF OperationEnds, AbortTrial, SettleRecording, TypeOK
  <2>3. QED BY <2>1, <2>2, FramesKept
<1>4. \A t \in Listening : t \in leases /\ kind[t] \in CaptureKinds
  BY DEF Listening, UserInv, Released
<1>5. ASSUME NEW t \in Tasks, SnapshotTimeout(t) PROVE FrameInv'
  <2>1. /\ UNCHANGED <<leases, kind, phase, start, source, awaiting>>
        /\ \A r \in Tasks : frame'[r] = IF r = t THEN "expired" ELSE frame[r]
        /\ t \in Listening
    BY <1>5 DEF SnapshotTimeout, TypeOK
  <2>2. QED BY <1>4, <2>1, FrameRule, ConstantsAssumption DEF FrameInv
<1>6. ASSUME NEW s \in Sources, ImageStored(s) PROVE FrameInv'
  <2>1. source' \in Sources
    BY <1>6 DEF OwnImagesOnly, ImageStored
  <2>2. \A t \in Tasks : frame'[t] # None => t \in leases' /\ kind'[t] \in CaptureKinds
    BY <1>4, <1>6 DEF ImageStored, FrameInv
  <2>3. QED BY <2>1, <2>2, FrameRule, ConstantsAssumption
<1>7. ASSUME NEW s \in Sources, ExtractorExits(s) PROVE FrameInv'
  BY <1>7, FramesKept DEF ExtractorExits
<1>8. CASE SourceData \/ StopTimerFires
  <2>1. UNCHANGED <<leases, kind, frame, phase, source, awaiting>>
        /\ start' \in {start, None}
    BY <1>8 DEF SourceData, StopTimerFires, StopOwnedSource, RetireStart
  <2>2. QED BY <2>1, FramesKept
<1>9. CASE QuietTimerFires
  <2>1. UNCHANGED <<leases, kind, frame, awaiting, private>>
    BY <1>9 DEF QuietTimerFires
  <2>2. \/ UNCHANGED <<start, source, phase>>
        \/ \E st : Detach(st)
        \/ RetireStart(private) /\ EndClients
    BY <1>9 DEF QuietTimerFires
  <2>3. \/ UNCHANGED <<start, source, phase>>
        \/ RetireStart(private) /\ EndClients
    BY <2>2 DEF Detach
  <2>4. CASE RetireStart(private) /\ EndClients
    BY <2>1, <2>4, EndedTasks, FramesKept DEF RetireStart
  <2>5. QED BY <2>1, <2>3, <2>4, FramesKept
<1>10. CASE Close
  <2>1. /\ UNCHANGED <<leases, kind, awaiting, private>>
        /\ start' = None \/ private'
        /\ \A t \in Tasks : frame'[t] = IF t \in Listening THEN "expired" ELSE frame[t]
    BY <1>10 DEF Close, RetireStart
  <2>2. \A t \in Tasks : frame'[t] # None => t \in leases' /\ kind'[t] \in CaptureKinds
    BY <1>4, <2>1 DEF FrameInv
  <2>3. QED BY <2>1, <2>2, FrameRule
<1>11. QED
  BY <1>1, <1>2, <1>3, <1>5, <1>6, <1>7, <1>8, <1>9, <1>10 DEF SessionEvent

\* Provider reports: whatever clears the source has no current start beside it.
LEMMA ProviderStepFrames ==
  ASSUME TypeOK, UserInv, FrameInv, IsolationInv, IsolationInv', ProviderStep
  PROVE  FrameInv'
<1>1. ASSUME NEW s \in Sources, AttachSource(s) PROVE FrameInv'
  <2>1. source' # None /\ UNCHANGED <<leases, kind, frame, phase, start, awaiting>>
    BY <1>1, ConstantsAssumption DEF AttachSource
  <2>2. QED BY <2>1, FramesKept
<1>2. CASE MarkStopped \/ \E s \in Sources, failed \in BOOLEAN : SourceEnded(s, failed)
  BY <1>2, DetachFrames DEF MarkStopped, SourceEnded
<1>3. CASE LateStopSettles
  <2>1. start = None
    BY <1>3 DEF LateStopSettles, IsolationInv
  <2>2. QED BY <1>3, <2>1, DetachFrames DEF LateStopSettles
<1>4. ASSUME NEW c \in Calls, StartSucceeds(c) PROVE FrameInv'
  <2>1. UNCHANGED <<leases, kind, frame, phase, source, awaiting>>
        /\ start' \in {start, None}
    BY <1>4 DEF StartSucceeds
  <2>2. QED BY <2>1, FramesKept
<1>5. ASSUME NEW c \in Calls, StartFails(c) PROVE FrameInv'
  <2>1. /\ UNCHANGED <<leases, kind, frame, awaiting>>
        /\ start' = None \/ UNCHANGED <<start, source>>
        /\ EndClients \/ phase' = phase
    BY <1>5 DEF StartFails
  <2>2. \A t \in Tasks : phase'[t] = phase[t]
    BY <2>1, EndedTasks
  <2>3. QED BY <2>1, <2>2, FramesKept
<1>6. ASSUME NEW stopped \in BOOLEAN, StopSettles(stopped) PROVE FrameInv'
  <2>1. start = None \/ private'
    BY <1>6 DEF StopSettles, IsolationInv, StopExcludesStart
  <2>2. UNCHANGED <<leases, kind, frame, start, awaiting>>
    BY <1>6 DEF StopSettles
  <2>3. \A t \in Tasks : phase'[t] = "starting" => phase[t] = "starting"
    BY <1>6 DEF StopSettles, Users
  <2>4. QED BY <2>1, <2>2, <2>3, FramesKept
<1>7. QED BY <1>1, <1>2, <1>3, <1>4, <1>5, <1>6 DEF ProviderStep

\* A capture that waits for a source to come is answered by no earlier one, except
\* through the snapshot process of a cleared source: nothing else needs to be tied
\* to a generation (captureSnapshot, #waitForSnapshot).
THEOREM FreshImagesOtherwise ==
  Spec /\ [][OwnImagesOnly]_vars => []NoImageBeforeSource
<1>1. Init => FrameInv
  BY DEF Init, FrameInv
<1>2. TypeOK /\ UserInv /\ IsolationInv /\ IsolationInv' /\ FrameInv
        /\ [Next]_vars /\ [OwnImagesOnly]_vars => FrameInv'
  <2> SUFFICES ASSUME TypeOK, UserInv, IsolationInv, IsolationInv', FrameInv,
                      [Next]_vars, [OwnImagesOnly]_vars
               PROVE  FrameInv'
    OBVIOUS
  <2>1. CASE UNCHANGED vars
    BY <2>1, FramesKept DEF vars
  <2>2. CASE Next /\ OwnImagesOnly
    BY <2>2, ContinuationFrames, SessionEventFrames, ProviderStepFrames DEF Next
  <2>3. QED BY <2>1, <2>2
<1>3. TypeOK /\ StartInv /\ FrameInv => NoImageBeforeSource
  <2> SUFFICES ASSUME TypeOK, StartInv, FrameInv, NEW t \in Tasks,
                      phase[t] = "starting", promise[awaiting[t]] = "pending",
                      source = None
               PROVE  frame[t] \notin Sources
    BY DEF NoImageBeforeSource
  <2>1. awaiting[t] \in Calls
    BY DEF TypeOK, StartInv, StartingAwaits, Users
  <2>2. awaiting[t] = start /\ start # None
    BY <2>1, ConstantsAssumption DEF StartInv, PendingIsStart
  <2>3. QED BY <2>2 DEF FrameInv
<1>4. QED
  BY <1>1, <1>2, <1>3, TypeCorrect, UsersCorrect, IsolationInvCorrect,
     StartInvCorrect, PTL DEF Spec
=============================================================================
