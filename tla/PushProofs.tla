----------------------------- MODULE PushProofs -----------------------------
(***************************************************************************)
(* Safety of PushClient and PushReceiver for every set of sockets,         *)
(* messages and identities, every window and every number of retries.      *)
(***************************************************************************)
EXTENDS PushReceiver, TLAPS

\* Nothing is watched when there is no client.
ClientInv == OneRecoveryPath /\ (closing => socket = None)

\* What an attempt may rely on: it belongs to a running receiver, has retries
\* left, and whoever has given up has said so.
AttemptInv ==
  /\ OneAttempt
  /\ step # "none" \/ retryTimer => failures <= Retries
  /\ step # "none" => Running
  /\ ~Running => ~registered /\ ~reregister /\ ~connected /\ ~attached
  /\ phase = "down" => failures = 0 /\ ~failed /\ ~disconnected /\ ~loaded
  /\ attached <=> ~closing

\* Whoever has given up an attempt has failed, and no disconnected receiver
\* counts as connected.
ReportInv ==
  /\ ReportedState
  /\ disconnected => ~connected
  /\ Running /\ step = "none" /\ ~registered /\ ~reregister => failed

\* Before an identity is known, nothing is saved and nothing is stored.
IdentityInv ==
  /\ step = "load" => ~loaded
  /\ step = "credentials" => loaded /\ state.creds = None
  /\ phase # "closing" /\ (~loaded \/ state.creds = None) => draft = None /\ ~saving
  /\ Running /\ loaded /\ state.creds = None => disk.creds = None
  /\ attached => loaded /\ state.creds # None

\* The client and the receiver remember the same, and all that was handed on.
DeliveryInv ==
  /\ attached => received = state.ids
  /\ Running /\ loaded => handed \subseteq Range(state.ids)
  /\ ~repeated

Inv ==
  /\ RTypeOK /\ ClientInv /\ AttemptInv
  /\ ReportInv /\ IdentityInv /\ DeliveryInv

-----------------------------------------------------------------------------
\* Remember forgets at most the oldest identity, and only when the window is
\* full (handleDataMessage and #recordPersistentId).
LEMMA RememberLemma ==
  ASSUME NEW ids \in Lists, NEW m \in Messages
  PROVE  /\ Remember(ids, m) \in Lists
         /\ m \in Range(Remember(ids, m))
         /\ \A x \in Range(ids) :
              x \in Range(Remember(ids, m)) \/ (Len(ids) = Window /\ x = Head(ids))
<1> DEFINE kept == IF Len(ids) < Window THEN ids ELSE Tail(ids)
<1>1. kept \in Seq(Messages) /\ Len(kept) < Window
  BY ClientAssumption DEF Lists
<1>2. /\ Append(kept, m) \in Seq(Messages)
      /\ Len(Append(kept, m)) = Len(kept) + 1
      /\ DOMAIN Append(kept, m) = 1..(Len(kept) + 1)
      /\ Append(kept, m)[Len(kept) + 1] = m
      /\ \A i \in 1..Len(kept) : Append(kept, m)[i] = kept[i]
  BY <1>1
<1>3. Remember(ids, m) = Append(kept, m)
  BY DEF Remember
<1>4. Remember(ids, m) \in Lists /\ m \in Range(Remember(ids, m))
  BY <1>1, <1>2, <1>3, ClientAssumption DEF Lists, Range
<1>5. ASSUME NEW x \in Range(ids)
      PROVE  x \in Range(Remember(ids, m)) \/ (Len(ids) = Window /\ x = Head(ids))
  <2>1. PICK i \in 1..Len(ids) : ids[i] = x
    BY DEF Range, Lists
  <2>2. CASE Len(ids) < Window
    BY <2>1, <2>2, <1>2, <1>3 DEF Range, Lists
  <2>3. CASE ~(Len(ids) < Window)
    <3>1. Len(ids) = Window /\ kept = Tail(ids) /\ Len(ids) > 0
      BY <2>3, ClientAssumption DEF Lists
    <3>2. CASE i = 1
      BY <2>1, <3>1, <3>2 DEF Lists
    <3>3. CASE i # 1
      <4>1. i - 1 \in 1..Len(kept) /\ kept[i - 1] = x
        BY <2>1, <3>1, <3>3 DEF Lists
      <4>2. i - 1 \in DOMAIN Remember(ids, m) /\ Remember(ids, m)[i - 1] = x
        BY <4>1, <1>2, <1>3, <1>1
      <4> QED BY <4>2 DEF Range
    <3> QED BY <3>2, <3>3
  <2> QED BY <2>2, <2>3
<1> QED BY <1>4, <1>5

\* A blank list is one that may be remembered (loadState, a new client).
LEMMA EmptyLemma ==
  /\ <<>> \in Lists
  /\ Range(<<>>) = {}
<1>1. <<>> \in Seq(Messages) /\ Len(<<>>) = 0
  OBVIOUS
<1>2. <<>> \in Lists
  BY <1>1, ClientAssumption DEF Lists
<1>3. Range(<<>>) = {}
  BY DEF Range
<1> QED BY <1>2, <1>3

-----------------------------------------------------------------------------
\* Every step of the receiver is a step of its client, or leaves it alone.
LEMMA ClientSteps ==
  ASSUME RTypeOK, [RNext]_rvars
  PROVE  [ClientNext]_clientVars
<1>1. CASE Load
  BY <1>1 DEF RTypeOK, Load, Attach, Stored, ClientNext
<1>2. ASSUME NEW i \in Identities, GotCredentials(i) PROVE ClientNext
  <2>1. state'.ids \in Lists
    BY <1>2 DEF RTypeOK, GotCredentials, Stored
  <2> QED BY <1>2, <2>1 DEF GotCredentials, Attach, ClientNext
<1>3. CASE ClientConnects \/ ClientAlone
  BY <1>3 DEF ClientConnects, ClientAlone, ClientNext
<1>4. ASSUME NEW s \in Sockets, ClientCloses(s) PROVE ClientNext
  BY <1>4 DEF ClientCloses, ClientNext
<1>5. ASSUME NEW m \in Messages, ClientReceives(m) PROVE ClientNext
  BY <1>5 DEF ClientReceives, ClientNext
<1>6. CASE CloseReceiver
  BY <1>6 DEF CloseReceiver, ClientNext
<1>7. CASE Crash
  BY <1>7 DEF Crash, ClientNext
<1>8. CASE Start \/ StepFails \/ Registered \/ RetryTimerFires \/ BeginSave \/ EndSave
            \/ CloseReturns \/ UNCHANGED rvars
  BY <1>8 DEF Start, StepFails, Registered, RetryTimerFires, BeginSave, EndSave,
     CloseReturns, rvars
<1> QED BY <1>1, <1>2, <1>3, <1>4, <1>5, <1>6, <1>7, <1>8 DEF RNext

\* The client's steps keep the types of its variables.
LEMMA ClientTypeStep ==
  ASSUME ClientTypeOK, [ClientNext]_clientVars
  PROVE  ClientTypeOK' /\ sent \subseteq sent'
<1> USE DEF ClientTypeOK, netVars, timerVars, serverVars, NetStates, Destroyed, Live
<1>1. ASSUME NEW s \in Sockets, NEW ids \in Lists, NEW known \in BOOLEAN,
             Open(ids, s, known)
      PROVE  ClientTypeOK' /\ sent \subseteq sent'
  BY <1>1 DEF Open, Connect, StopHeartbeat
<1>2. ASSUME NEW s \in Sockets,
             ReconnectTimerFires(s) \/ SocketClosed(s) \/ FallSilent(s)
      PROVE  ClientTypeOK' /\ sent \subseteq sent'
  BY <1>2 DEF ReconnectTimerFires, SocketClosed, FallSilent, Connect, OnClose,
     StopHeartbeat
<1>3. ASSUME NEW m \in Messages, DataMessage(m) PROVE ClientTypeOK' /\ sent \subseteq sent'
  BY <1>3, RememberLemma DEF DataMessage
<1>4. ASSUME NEW m \in Messages, Send(m) PROVE ClientTypeOK' /\ sent \subseteq sent'
  BY <1>4 DEF Send
<1>5. CASE SecureConnect \/ LoginAccepted \/ FatalFrame \/ KeepAliveFrame
            \/ LoginTimerFires \/ HeartbeatFires \/ ReplyTimerFires
  BY <1>5 DEF SecureConnect, LoginAccepted, FatalFrame, KeepAliveFrame,
     LoginTimerFires, HeartbeatFires, ReplyTimerFires
<1>6. CASE Close
  BY <1>6 DEF Close, StopHeartbeat
<1>7. CASE ClientCrash
  <2>1. received' \in Lists
    BY <1>7, EmptyLemma DEF ClientCrash
  <2> QED BY <1>7, <2>1 DEF ClientCrash, StopHeartbeat
<1>8. CASE UNCHANGED clientVars
  BY <1>8 DEF clientVars
<1> QED BY <1>1, <1>2, <1>3, <1>4, <1>5, <1>6, <1>7, <1>8 DEF ClientNext

\* Every event, frame and timer of the client keeps exactly one way of
\* recovery (connect, onClose, scheduleReconnect, close).
LEMMA ClientInvStep ==
  ASSUME ClientTypeOK, ClientInv, [ClientNext]_clientVars
  PROVE  ClientInv'
<1> USE ClientAssumption DEF ClientTypeOK, ClientInv, OneRecoveryPath, Watched, Live,
        netVars, timerVars, NetStates, Destroyed
<1>1. ASSUME NEW s \in Sockets, NEW ids \in Lists, NEW known \in BOOLEAN,
             Open(ids, s, known)
      PROVE  ClientInv'
  BY <1>1 DEF Open, Connect, StopHeartbeat
<1>2. ASSUME NEW s \in Sockets, ReconnectTimerFires(s) PROVE ClientInv'
  BY <1>2 DEF ReconnectTimerFires, Connect
<1>3. ASSUME NEW s \in Sockets, SocketClosed(s) PROVE ClientInv'
  BY <1>3 DEF SocketClosed, OnClose, StopHeartbeat
<1>4. ASSUME NEW s \in Sockets, FallSilent(s) PROVE ClientInv'
  BY <1>4 DEF FallSilent
<1>5. ASSUME NEW m \in Messages, DataMessage(m) \/ Send(m) PROVE ClientInv'
  BY <1>5 DEF DataMessage, Send, Receiving
<1>6. CASE SecureConnect \/ LoginAccepted \/ FatalFrame \/ KeepAliveFrame
  BY <1>6 DEF SecureConnect, LoginAccepted, FatalFrame, KeepAliveFrame, Receiving
<1>7. CASE LoginTimerFires
  BY <1>7 DEF LoginTimerFires
<1>8. CASE HeartbeatFires \/ ReplyTimerFires
  BY <1>8 DEF HeartbeatFires, ReplyTimerFires
<1>9. CASE Close
  BY <1>9 DEF Close, StopHeartbeat
<1>10. CASE ClientCrash
  BY <1>10 DEF ClientCrash, StopHeartbeat
<1>11. CASE UNCHANGED clientVars
  BY <1>11 DEF clientVars
<1> QED BY <1>1, <1>2, <1>3, <1>4, <1>5, <1>6, <1>7, <1>8, <1>9, <1>10, <1>11
        DEF ClientNext

-----------------------------------------------------------------------------
\* The receiver's steps keep the types of its variables.
LEMMA TypeStep ==
  ASSUME RTypeOK, AttemptInv, [RNext]_rvars
  PROVE  RTypeOK'
<1>1. ClientTypeOK' /\ sent \subseteq sent'
  BY ClientSteps, ClientTypeStep DEF RTypeOK
<1> USE <1>1, ReceiverAssumption
    DEF RTypeOK, AttemptInv, Steps, flagVars, attemptVars, diskVars,
        historyVars
<1>2. CASE Start
  BY <1>2 DEF Start
<1>3. CASE Load
  <2>1. attached' \in BOOLEAN
    BY <1>3 DEF Load, Attach
  <2>2. step' \in Steps
    BY <1>3 DEF Load, Attach
  <2>3. state' \in Stored /\ loaded' \in BOOLEAN /\ handed' \subseteq Messages
    BY <1>3 DEF Load
  <2>4. /\ UNCHANGED <<phase, flagVars, failures, retryTimer, published, diskVars,
                        old, repeated>>
    BY <1>3 DEF Load
  <2> HIDE DEF AttemptInv, Steps
  <2> QED BY <2>1, <2>2, <2>3, <2>4
<1>4. ASSUME NEW i \in Identities, GotCredentials(i) PROVE RTypeOK'
  <2>1. [state EXCEPT !.creds = i] \in Stored
    BY <1>4 DEF Stored
  <2>2. attached' \in BOOLEAN /\ step' \in Steps
    BY <1>4 DEF GotCredentials, Attach
  <2>3. state' \in Stored /\ saving' \in BOOLEAN
    BY <1>4, <2>1 DEF GotCredentials
  <2>4. UNCHANGED <<phase, flagVars, failures, retryTimer, loaded, published,
                    draft, disk, historyVars>>
    BY <1>4 DEF GotCredentials
  <2> HIDE DEF AttemptInv, Steps
  <2> QED BY <2>2, <2>3, <2>4
<1>5. CASE StepFails
  <2>1. failures' \in 0..(Retries + 1)
    BY <1>5 DEF StepFails, AttemptFails
  <2>2. step' \in Steps /\ retryTimer' \in BOOLEAN
    BY <1>5 DEF StepFails, AttemptFails
  <2> QED BY <1>5, <2>1, <2>2 DEF StepFails, AttemptFails
<1>6. CASE Registered
  BY <1>6 DEF Registered
<1>7. CASE RetryTimerFires
  <2>1. retryTimer' \in BOOLEAN /\ step' \in Steps
    BY <1>7 DEF RetryTimerFires
  <2> QED BY <1>7, <2>1 DEF RetryTimerFires
<1>8. CASE ClientConnects
  <2>1. failures' \in 0..(Retries + 1)
    BY <1>8 DEF ClientConnects, OnConnect
  <2>2. step' \in Steps /\ retryTimer' \in BOOLEAN
    BY <1>8 DEF ClientConnects, OnConnect
  <2>3. registered' \in BOOLEAN /\ reregister' \in BOOLEAN /\ connected' \in BOOLEAN
        /\ disconnected' \in BOOLEAN /\ failed' \in BOOLEAN
    BY <1>8 DEF ClientConnects, OnConnect
  <2>4. published' \in {"starting", "connected", "degraded", "disconnected", "stopped"}
    BY <1>8 DEF ClientConnects, OnConnect
  <2>5. UNCHANGED <<phase, loaded, attached, state, diskVars, historyVars>>
    BY <1>8 DEF ClientConnects, OnConnect
  <2> HIDE DEF AttemptInv, Steps
  <2> QED BY <2>1, <2>2, <2>3, <2>4, <2>5
<1>9. CASE ClientAlone
  BY <1>9 DEF ClientAlone, receiverVars
<1>10. ASSUME NEW s \in Sockets, ClientCloses(s) PROVE RTypeOK'
  <2>1. CASE OnDisconnect
    <3>1. /\ reregister' \in BOOLEAN /\ registered' \in BOOLEAN
          /\ connected' \in BOOLEAN /\ disconnected' \in BOOLEAN
          /\ published' \in {"starting", "connected", "degraded", "disconnected", "stopped"}
      BY <2>1 DEF OnDisconnect
    <3>2. UNCHANGED <<phase, failed, attemptVars, state, diskVars, historyVars>>
      BY <2>1 DEF OnDisconnect
    <3> HIDE DEF AttemptInv, Steps
    <3> QED BY <3>1, <3>2 DEF attemptVars
  <2>2. CASE UNCHANGED receiverVars
    BY <2>2 DEF receiverVars
  <2> QED BY <1>10, <2>1, <2>2 DEF ClientCloses
<1>11. ASSUME NEW m \in Messages, ClientReceives(m) PROVE RTypeOK'
  <2>1. CASE Duplicate(m)
    BY <1>11, <2>1 DEF ClientReceives, receiverVars
  <2>2. CASE ~Duplicate(m)
    <3>1. [state EXCEPT !.ids = Remember(@, m)] \in Stored
      BY RememberLemma DEF Stored
    <3>2. /\ state' \in Stored /\ saving' \in BOOLEAN
          /\ handed' \subseteq Messages /\ repeated' \in BOOLEAN
      BY <1>11, <2>2, <3>1
         DEF ClientReceives, OnMessage, RecordPersistentId, Suppressed
    <3> QED BY <1>11, <2>2, <3>2
            DEF ClientReceives, OnMessage
  <2> QED BY <2>1, <2>2
<1>12. CASE BeginSave
  <2>1. saving' \in BOOLEAN
    BY <1>12 DEF BeginSave
  <2> QED BY <1>12, <2>1 DEF BeginSave
<1>13. CASE EndSave
  BY <1>13 DEF EndSave
<1>14. CASE CloseReceiver
  BY <1>14 DEF CloseReceiver
<1>15. CASE CloseReturns \/ Crash
  <2>1. Blank \in Stored
    BY EmptyLemma DEF Blank, Stored
  <2>2. Gone
    BY <1>15 DEF CloseReturns, Crash
  <2>3. failures' \in 0..(Retries + 1)
    BY <2>2 DEF Gone
  <2>4. /\ state' \in Stored
        /\ retryTimer' \in BOOLEAN /\ loaded' \in BOOLEAN /\ attached' \in BOOLEAN
        /\ registered' \in BOOLEAN /\ reregister' \in BOOLEAN /\ connected' \in BOOLEAN
        /\ disconnected' \in BOOLEAN /\ failed' \in BOOLEAN
    BY <2>1, <2>2 DEF Gone
  <2>5. CASE CloseReturns
    BY <2>5, <2>2, <2>4, <2>3 DEF CloseReturns, Gone
  <2>6. CASE Crash
    BY <2>6, <2>2, <2>4, <2>3 DEF Crash, Gone
  <2> QED BY <1>15, <2>5, <2>6
<1>16. CASE UNCHANGED rvars
  BY <1>16 DEF rvars
<1> QED BY <1>2, <1>3, <1>4, <1>5, <1>6, <1>7, <1>8, <1>9, <1>10, <1>11, <1>12, <1>13,
           <1>14, <1>15, <1>16 DEF RNext

-----------------------------------------------------------------------------
\* No step loses an attempt or starts a second one (#runAttempt, the retry
\* timer, the connect and disconnect callbacks, close).
LEMMA AttemptStep ==
  ASSUME RTypeOK, ClientInv, AttemptInv, [RNext]_rvars
  PROVE  AttemptInv'
<1> USE ReceiverAssumption DEF AttemptInv, OneAttempt, Running, flagVars, attemptVars
<1>1. CASE Start
  BY <1>1 DEF Start, clientVars
<1>2. CASE Load
  BY <1>2 DEF Load, Attach, Open, Connect, clientVars
<1>3. ASSUME NEW i \in Identities, GotCredentials(i) PROVE AttemptInv'
  BY <1>3 DEF GotCredentials, Attach, Open, Connect
<1>4. CASE StepFails
  <2>1. /\ step # "none" /\ step' = "none" /\ phase' = phase
        /\ retryTimer' = (failures' <= Retries)
        /\ UNCHANGED <<registered, reregister, connected, disconnected, loaded, attached,
                       closing>>
    BY <1>4 DEF StepFails, AttemptFails, clientVars
  <2>2. ~(failures' <= Retries) => failures' > Retries
    BY <1>4 DEF StepFails, AttemptFails, RTypeOK
  <2> QED BY <2>1, <2>2
<1>5. CASE Registered
  BY <1>5 DEF Registered, clientVars
<1>6. CASE RetryTimerFires
  BY <1>6 DEF RetryTimerFires, clientVars
<1>7. CASE ClientConnects
  <2>1. phase = "running" /\ closing' = closing
    BY <1>7 DEF ClientConnects, LoginAccepted, Receiving, ClientInv
  <2> QED BY <1>7, <2>1 DEF ClientConnects, OnConnect
<1>8. CASE ClientAlone
  <2>1. closing' = closing
    BY <1>8 DEF ClientAlone, SecureConnect, FatalFrame, KeepAliveFrame, LoginTimerFires,
       HeartbeatFires, ReplyTimerFires, ReconnectTimerFires, FallSilent, Send, Connect,
       RTypeOK, ClientTypeOK
  <2> QED BY <1>8, <2>1 DEF ClientAlone, receiverVars
<1>9. ASSUME NEW s \in Sockets, ClientCloses(s) PROVE AttemptInv'
  <2>1. closing' = closing
    BY <1>9 DEF ClientCloses, SocketClosed
  <2>2. CASE s = socket /\ ~closing
    BY <1>9, <2>1, <2>2 DEF ClientCloses, OnDisconnect
  <2>3. CASE ~(s = socket /\ ~closing)
    BY <1>9, <2>1, <2>3 DEF ClientCloses, receiverVars
  <2> QED BY <2>2, <2>3
<1>10. ASSUME NEW m \in Messages, ClientReceives(m) PROVE AttemptInv'
  <2>1. closing' = closing
    BY <1>10 DEF ClientReceives, DataMessage
  <2> QED BY <1>10, <2>1 DEF ClientReceives, OnMessage, receiverVars
<1>11. CASE BeginSave \/ EndSave
  BY <1>11 DEF BeginSave, EndSave, clientVars
<1>12. CASE CloseReceiver
  BY <1>12 DEF CloseReceiver, Close, clientVars
<1>13. CASE CloseReturns
  BY <1>13 DEF CloseReturns, Gone, clientVars
<1>14. CASE Crash
  BY <1>14 DEF Crash, Gone, ClientCrash
<1>15. CASE UNCHANGED rvars
  BY <1>15 DEF rvars, clientVars
<1> QED BY <1>1, <1>2, <1>3, <1>4, <1>5, <1>6, <1>7, <1>8, <1>9, <1>10, <1>11, <1>12,
           <1>13, <1>14, <1>15 DEF RNext

-----------------------------------------------------------------------------
\* Every change of a flag is followed by the report it calls for (#publish in
\* the attempt and in the callbacks).
LEMMA ReportStep ==
  ASSUME RTypeOK, ClientInv, AttemptInv, ReportInv, [RNext]_rvars
  PROVE  ReportInv'
<1> USE DEF ReportInv, ReportedState, Running, flagVars, attemptVars
<1>1. CASE Start
  BY <1>1 DEF Start, AttemptInv
<1>2. CASE Load
  BY <1>2 DEF Load, Attach
<1>3. ASSUME NEW i \in Identities, GotCredentials(i) PROVE ReportInv'
  BY <1>3 DEF GotCredentials, Attach
<1>4. CASE StepFails
  BY <1>4 DEF StepFails, AttemptFails, AttemptInv, OneAttempt
<1>5. CASE Registered
  BY <1>5 DEF Registered
<1>6. CASE RetryTimerFires
  BY <1>6 DEF RetryTimerFires
<1>7. CASE ClientConnects
  BY <1>7 DEF ClientConnects, OnConnect, AttemptInv, OneAttempt
<1>8. CASE ClientAlone
  BY <1>8 DEF ClientAlone, receiverVars
<1>9. ASSUME NEW s \in Sockets, ClientCloses(s) PROVE ReportInv'
  BY <1>9 DEF ClientCloses, OnDisconnect, receiverVars
<1>10. ASSUME NEW m \in Messages, ClientReceives(m) PROVE ReportInv'
  BY <1>10 DEF ClientReceives, OnMessage, receiverVars
<1>11. CASE BeginSave \/ EndSave
  BY <1>11 DEF BeginSave, EndSave
<1>12. CASE CloseReceiver
  BY <1>12 DEF CloseReceiver
<1>13. CASE CloseReturns \/ Crash
  BY <1>13 DEF CloseReturns, Crash, Gone
<1>14. CASE UNCHANGED rvars
  BY <1>14 DEF rvars
<1> QED BY <1>1, <1>2, <1>3, <1>4, <1>5, <1>6, <1>7, <1>8, <1>9, <1>10, <1>11, <1>12,
           <1>13, <1>14 DEF RNext

\* What is stored never falls behind what the running attempt believes
\* (loadState, start, #recordPersistentId, #persistState).
LEMMA IdentityStep ==
  ASSUME RTypeOK, ClientInv, AttemptInv, IdentityInv, [RNext]_rvars
  PROVE  IdentityInv'
<1> USE ReceiverAssumption DEF IdentityInv, Running, attemptVars, diskVars
<1>1. CASE Start
  BY <1>1 DEF Start, AttemptInv
<1>2. CASE Load
  BY <1>2 DEF Load, Attach, AttemptInv, Running
<1>3. ASSUME NEW i \in Identities, GotCredentials(i) PROVE IdentityInv'
  <2>1. state'.creds = i /\ i # None
    BY <1>3 DEF GotCredentials, RTypeOK, Stored
  <2> QED BY <1>3, <2>1 DEF GotCredentials, Attach
<1>4. CASE StepFails
  BY <1>4 DEF StepFails, AttemptFails
<1>5. CASE Registered
  BY <1>5 DEF Registered
<1>6. CASE RetryTimerFires
  BY <1>6 DEF RetryTimerFires
<1>7. CASE ClientConnects
  BY <1>7 DEF ClientConnects, OnConnect
<1>8. CASE ClientAlone
  BY <1>8 DEF ClientAlone, receiverVars
<1>9. ASSUME NEW s \in Sockets, ClientCloses(s) PROVE IdentityInv'
  BY <1>9 DEF ClientCloses, OnDisconnect, receiverVars
<1>10. ASSUME NEW m \in Messages, ClientReceives(m) PROVE IdentityInv'
  <2>1. attached
    BY <1>10 DEF ClientReceives, DataMessage, Receiving, ClientInv, AttemptInv
  <2>2. state'.creds = state.creds /\ UNCHANGED <<phase, attemptVars, draft, disk>>
    BY <1>10 DEF ClientReceives, OnMessage, RecordPersistentId, receiverVars, RTypeOK,
       Stored
  <2> QED BY <2>1, <2>2
<1>11. CASE BeginSave
  BY <1>11 DEF BeginSave
<1>12. CASE EndSave
  BY <1>12 DEF EndSave
<1>13. CASE CloseReceiver
  BY <1>13 DEF CloseReceiver
<1>14. CASE CloseReturns
  BY <1>14 DEF CloseReturns, Gone
<1>15. CASE Crash
  BY <1>15 DEF Crash, Gone
<1>16. CASE UNCHANGED rvars
  BY <1>16 DEF rvars
<1> QED BY <1>1, <1>2, <1>3, <1>4, <1>5, <1>6, <1>7, <1>8, <1>9, <1>10, <1>11, <1>12,
           <1>13, <1>14, <1>15, <1>16 DEF RNext

-----------------------------------------------------------------------------
\* A message that is handed on is remembered in the same step, so a message
\* that is not remembered was not handed on (handleDataMessage, the message
\* callback, #recordPersistentId, setPersistentIds).
LEMMA DeliveryStep ==
  ASSUME RTypeOK, ClientInv, AttemptInv, IdentityInv, DeliveryInv, [RNext]_rvars
  PROVE  DeliveryInv'
<1> USE DEF DeliveryInv, Running, attemptVars, historyVars
<1>1. CASE Start
  BY <1>1 DEF Start, clientVars, IdentityInv, AttemptInv
<1>2. CASE Load
  BY <1>2 DEF Load, Attach, Open, AttemptInv, IdentityInv, clientVars
<1>3. ASSUME NEW i \in Identities, GotCredentials(i) PROVE DeliveryInv'
  <2>1. state'.ids = state.ids
    BY <1>3 DEF GotCredentials, RTypeOK, Stored
  <2> QED BY <1>3, <2>1 DEF GotCredentials, Attach, Open
<1>4. CASE StepFails \/ Registered \/ RetryTimerFires
  BY <1>4 DEF StepFails, AttemptFails, Registered, RetryTimerFires, clientVars
<1>5. CASE ClientConnects
  BY <1>5 DEF ClientConnects, LoginAccepted, OnConnect
<1>6. CASE ClientAlone
  <2>1. received' = received
    BY <1>6 DEF ClientAlone, SecureConnect, FatalFrame, KeepAliveFrame, LoginTimerFires,
       HeartbeatFires, ReplyTimerFires, ReconnectTimerFires, FallSilent, Send
  <2> QED BY <1>6, <2>1 DEF ClientAlone, receiverVars
<1>7. ASSUME NEW s \in Sockets, ClientCloses(s) PROVE DeliveryInv'
  BY <1>7 DEF ClientCloses, SocketClosed, OnDisconnect, receiverVars
<1>8. ASSUME NEW m \in Messages, ClientReceives(m) PROVE DeliveryInv'
  <2>1. /\ attached /\ Running /\ loaded
        /\ received = state.ids /\ handed \subseteq Range(state.ids)
    BY <1>8 DEF ClientReceives, DataMessage, Receiving, ClientInv, AttemptInv, IdentityInv
  <2>2. CASE Duplicate(m)
    BY <1>8, <2>1, <2>2 DEF ClientReceives, DataMessage, receiverVars
  <2>3. CASE ~Duplicate(m)
    <3> DEFINE pushedOut == IF Len(state.ids) = Window THEN {Head(state.ids)} ELSE {}
    <3>1. m \notin Range(state.ids)
      BY <2>1, <2>3 DEF Duplicate
    <3>2. /\ received' = Remember(state.ids, m)
          /\ state' = [state EXCEPT !.ids = Remember(@, m)]
          /\ handed' \subseteq (handed \ pushedOut) \cup {m}
          /\ UNCHANGED <<attached, loaded, phase>>
          /\ repeated' =
               (repeated \/ (IF Suppressed(m) THEN {} ELSE {m}) \cap handed # {})
      BY <1>8, <2>1, <2>3, <3>1
         DEF ClientReceives, DataMessage, OnMessage, RecordPersistentId
    <3>3. state'.ids = Remember(state.ids, m)
      BY <3>2 DEF RTypeOK, Stored
    <3>4. handed' \subseteq Range(state'.ids)
      BY <2>1, <3>2, <3>3, RememberLemma DEF RTypeOK, Stored
    <3>5. ~repeated'
      BY <2>1, <3>1, <3>2
    <3> QED BY <3>2, <3>3, <3>4, <3>5
  <2> QED BY <2>2, <2>3
<1>9. CASE BeginSave \/ EndSave
  BY <1>9 DEF BeginSave, EndSave, clientVars
<1>10. CASE CloseReceiver
  BY <1>10 DEF CloseReceiver
<1>11. CASE CloseReturns \/ Crash
  BY <1>11 DEF CloseReturns, Crash, Gone
<1>12. CASE UNCHANGED rvars
  BY <1>12 DEF rvars, clientVars
<1> QED BY <1>1, <1>2, <1>3, <1>4, <1>5, <1>6, <1>7, <1>8, <1>9, <1>10, <1>11, <1>12
        DEF RNext

-----------------------------------------------------------------------------
\* The strengthened invariant of connection, attempt, report, identity and
\* delivery.
THEOREM Inductive == RSpec => []Inv
<1>1. RInit => Inv
  <2> SUFFICES ASSUME RInit PROVE Inv
    OBVIOUS
  <2>1. ClientTypeOK /\ ClientInv
    BY EmptyLemma, ClientAssumption
       DEF RInit, ClientInit, ClientTypeOK, NetStates, ClientInv, OneRecoveryPath, Live
  <2>2. Blank \in Stored
    BY EmptyLemma DEF Blank, Stored
  <2>3. RTypeOK
    <3>1. failures \in 0..(Retries + 1)
      BY ReceiverAssumption DEF RInit
    <3>2. old \subseteq sent /\ handed \subseteq Messages
      BY DEF RInit
    <3>3. /\ state \in Stored /\ disk \in Stored /\ draft \in Stored \cup {None}
          /\ phase \in {"down", "running", "closing"} /\ step \in Steps
          /\ published \in {"starting", "connected", "degraded", "disconnected", "stopped"}
      BY <2>2 DEF RInit, Steps
    <3>4. /\ retryTimer \in BOOLEAN /\ loaded \in BOOLEAN /\ attached \in BOOLEAN
          /\ registered \in BOOLEAN /\ reregister \in BOOLEAN /\ connected \in BOOLEAN
          /\ disconnected \in BOOLEAN /\ failed \in BOOLEAN /\ saving \in BOOLEAN
          /\ repeated \in BOOLEAN
      BY DEF RInit
    <3> QED BY <2>1, <3>1, <3>2, <3>3, <3>4 DEF RTypeOK
  <2>4. AttemptInv
    BY ReceiverAssumption DEF RInit, ClientInit, AttemptInv, OneAttempt, Running
  <2>5. ReportInv /\ IdentityInv /\ DeliveryInv
    BY DEF RInit, ReportInv, ReportedState, IdentityInv, DeliveryInv, Running
  <2> QED BY <2>1, <2>3, <2>4, <2>5 DEF Inv
<1>2. Inv /\ [RNext]_rvars => Inv'
  <2> SUFFICES ASSUME Inv, [RNext]_rvars PROVE Inv'
    OBVIOUS
  <2>1. RTypeOK'
    BY TypeStep DEF Inv
  <2>2. ClientInv'
    BY ClientSteps, ClientInvStep DEF Inv, RTypeOK
  <2>3. AttemptInv' /\ ReportInv' /\ IdentityInv' /\ DeliveryInv'
    BY AttemptStep, ReportStep, IdentityStep, DeliveryStep DEF Inv
  <2> QED BY <2>1, <2>2, <2>3 DEF Inv
<1> QED BY <1>1, <1>2, PTL DEF RSpec

\* Every variable of receiver and client keeps its type.
THEOREM PushTypesCorrect == RSpec => []RTypeOK
<1>1. Inv => RTypeOK
  BY DEF Inv
<1> QED BY <1>1, Inductive, PTL

\* The receiver uses its client as the client alone allows: every behaviour of
\* the two is one of PushClient.
THEOREM ClientImplemented == RSpec => ClientSpec
<1>1. RInit => ClientInit
  BY DEF RInit
<1>2. RTypeOK /\ [RNext]_rvars => [ClientNext]_clientVars
  BY ClientSteps
<1> QED BY <1>1, <1>2, PushTypesCorrect, PTL DEF RSpec, ClientSpec

\* An open client always has exactly one way to go on (connect, onClose,
\* scheduleReconnect, close).
THEOREM RecoveryCorrect == RSpec => []OneRecoveryPath
<1>1. Inv => OneRecoveryPath
  BY DEF Inv, ClientInv
<1> QED BY <1>1, Inductive, PTL

\* One attempt at a time, and none is lost (#runAttempt and its callers).
THEOREM AttemptCorrect == RSpec => []OneAttempt
<1>1. Inv => OneAttempt
  BY DEF Inv, AttemptInv
<1> QED BY <1>1, Inductive, PTL

\* The provider is told what is so (#publish).
THEOREM ReportCorrect == RSpec => []ReportedState
<1>1. Inv => ReportedState
  BY DEF Inv, ReportInv
<1> QED BY <1>1, Inductive, PTL

\* A second Firebase identity is never asked for while one is stored or about
\* to be (start, loadState).
THEOREM IdentityCorrect == RSpec => []NoSecondIdentity
<1>1. Inv => NoSecondIdentity
  BY DEF Inv, IdentityInv, AttemptInv, NoSecondIdentity, Running
<1> QED BY <1>1, Inductive, PTL

\* No event is handed on twice while its identity is remembered
\* (handleDataMessage, #recordPersistentId, #persistState).
THEOREM DeliveryCorrect == RSpec => []HandedOnOnce
<1>1. Inv => HandedOnOnce
  BY DEF Inv, DeliveryInv, HandedOnOnce
<1> QED BY <1>1, Inductive, PTL

-----------------------------------------------------------------------------
\* Registrations are accepted only while the receiver is logged in.
RegisteredOnline == Registered => connected

\* Then whoever is registered is connected.
OnlineInv == registered => Running /\ connected

\* Only the registration itself makes a receiver registered, and an outage or the
\* end undoes it.
LEMMA OnlineStep ==
  ASSUME AttemptInv, OnlineInv, [RNext]_rvars, [RegisteredOnline]_rvars
  PROVE  OnlineInv'
<1> USE DEF OnlineInv, Running, flagVars, attemptVars
<1>1. CASE Start \/ Load \/ StepFails \/ RetryTimerFires
  BY <1>1 DEF Start, Load, StepFails, AttemptFails, RetryTimerFires
<1>2. ASSUME NEW i \in Identities, GotCredentials(i) PROVE OnlineInv'
  BY <1>2 DEF GotCredentials
<1>3. CASE Registered
  <2>1. registered' = TRUE /\ UNCHANGED <<phase, connected>> /\ Running
    BY <1>3 DEF Registered, AttemptInv
  <2>2. CASE RegisteredOnline
    BY <1>3, <2>1, <2>2 DEF RegisteredOnline
  <2>3. CASE UNCHANGED rvars
    BY <2>3 DEF rvars
  <2>4. QED BY <2>2, <2>3
<1>4. CASE ClientConnects
  BY <1>4 DEF ClientConnects, OnConnect
<1>5. CASE ClientAlone
  BY <1>5 DEF ClientAlone, receiverVars
<1>6. ASSUME NEW s \in Sockets, ClientCloses(s) PROVE OnlineInv'
  BY <1>6 DEF ClientCloses, OnDisconnect, receiverVars
<1>7. ASSUME NEW m \in Messages, ClientReceives(m) PROVE OnlineInv'
  BY <1>7 DEF ClientReceives, OnMessage, receiverVars
<1>8. CASE BeginSave \/ EndSave \/ CloseReceiver
  BY <1>8 DEF BeginSave, EndSave, CloseReceiver
<1>9. CASE CloseReturns \/ Crash
  BY <1>9 DEF CloseReturns, Crash, Gone
<1>10. CASE UNCHANGED rvars
  BY <1>10 DEF rvars
<1> QED BY <1>1, <1>2, <1>3, <1>4, <1>5, <1>6, <1>7, <1>8, <1>9, <1>10 DEF RNext

\* A login reports a receiver ready only if it was ready before.
LEMMA ReadyStep ==
  ASSUME ReportInv, OnlineInv, [RNext]_rvars
  PROVE  [published # "connected" /\ published' = "connected" => step = "register"]_rvars
<1> SUFFICES ASSUME RNext, published # "connected", published' = "connected"
             PROVE  step = "register"
  OBVIOUS
<1>1. CASE Registered
  BY <1>1 DEF Registered
<1>2. CASE ClientConnects
  <2>1. registered
    BY <1>2 DEF ClientConnects, OnConnect
  <2>2. QED BY <2>1 DEF OnlineInv, ReportInv, ReportedState
<1>3. CASE Start \/ Load \/ StepFails \/ RetryTimerFires
  BY <1>3 DEF Start, Load, StepFails, AttemptFails, RetryTimerFires
<1>4. ASSUME NEW i \in Identities, GotCredentials(i) PROVE FALSE
  BY <1>4 DEF GotCredentials
<1>5. CASE ClientAlone
  BY <1>5 DEF ClientAlone, receiverVars
<1>6. ASSUME NEW s \in Sockets, ClientCloses(s) PROVE FALSE
  BY <1>6 DEF ClientCloses, OnDisconnect, receiverVars
<1>7. ASSUME NEW m \in Messages, ClientReceives(m) PROVE FALSE
  BY <1>7 DEF ClientReceives, OnMessage, receiverVars
<1>8. CASE BeginSave \/ EndSave \/ CloseReceiver \/ CloseReturns \/ Crash
  BY <1>8 DEF BeginSave, EndSave, CloseReceiver, CloseReturns, Crash, Gone
<1> QED BY <1>1, <1>2, <1>3, <1>4, <1>5, <1>6, <1>7, <1>8 DEF RNext

\* A receiver becomes ready only by a registration, unless Eufy has accepted a
\* registration during an outage: no other order of logins, outages, retries and
\* restarts skips it (#runAttempt, the connect and disconnect callbacks).
THEOREM ReadyUnlessLate ==
  RSpec /\ [][RegisteredOnline]_rvars => ReadyByRegistration
<1>1. RInit => OnlineInv
  BY DEF RInit, OnlineInv
<1>2. Inv /\ OnlineInv /\ [RNext]_rvars /\ [RegisteredOnline]_rvars => OnlineInv'
  BY OnlineStep DEF Inv
<1>3. Inv /\ OnlineInv /\ [RNext]_rvars
        => [published # "connected" /\ published' = "connected" => step = "register"]_rvars
  BY ReadyStep DEF Inv
<1> QED BY <1>1, <1>2, <1>3, Inductive, PTL DEF RSpec, ReadyByRegistration

=============================================================================
