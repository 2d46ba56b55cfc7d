---------------------------- MODULE HomeBaseProofs ----------------------------
(***************************************************************************)
(* Safety of HomeBaseOperations for every number of calls, sessions and    *)
(* operations: the station's peer is never shared between an operation and *)
(* the media of the camera, and what EufyStreams promises of the camera's  *)
(* sessions still holds when operations interrupt them.                    *)
(***************************************************************************)
EXTENDS HomeBaseOperations, EufyStreamsProofs

USE DEF controlVars, ticketVars, stopVars, Live

-----------------------------------------------------------------------------
(* Invariants *)

\* From its turn on an operation meets no start past the wait for the station.
\* The session it stops stays the entry until it is forgotten, and from then on
\* there is none.
StationInv ==
  /\ stage # "previous" =>
       \A c \in Calls :
         Current(c) => job[c] \notin {"keys", "replacing", "ciphers", "connecting"}
  /\ stage = "stopping" => interrupted \in Sources /\ entry \in {interrupted, None}
  /\ stage \in {"stopped", "open", "closing"} => entry = None

HInv == HTypeOK /\ ConnectInv /\ StationInv

\* The steps of the streams are steps of EufyStreams.
LEMMA StreamIsProvider == StreamNext => PNext
BY DEF StreamNext, PNext, StartNew, StartStep, ReadKeysUnreserved, ConnectNew,
       SessionStep, StopStep

\* A start comes to hold a session, or to be past its wait, only while the
\* station has no operation, and only a start brings a new entry.
LEMMA StreamStation ==
  ASSUME HTypeOK, StationInv, StreamNext, UNCHANGED controlVars,
         stage # "previous"
  PROVE  /\ entry' \in {entry, None}
         /\ \A c \in Calls : Current(c)' =>
              job'[c] \notin {"keys", "replacing", "ciphers", "connecting"}
<1> DEFINE Waits(c) ==
      Current(c) => job[c] \notin {"keys", "replacing", "ciphers", "connecting"}
<1>1. operations > 0 /\ \A c \in Calls : Waits(c)
  BY DEF HTypeOK, StationInv
<1> USE DEF HTypeOK, PTypeOK
<1>2. ASSUME NEW c \in Calls, StartNew(c)
      PROVE  entry' = entry /\ \A d \in Calls : Waits(d)'
  <2>1. CASE ticket # None /\ ticket \notin cancelled
    BY <1>1, <1>2, <2>1 DEF StartNew, StartStream, Current
  <2>2. CASE ~(ticket # None /\ ticket \notin cancelled)
    <3>1. ticket' = c /\ job' = [job EXCEPT ![c] = "queued"] /\ entry' = entry
      BY <1>2, <2>2 DEF StartNew, StartStream
    <3>2. QED BY <3>1 DEF Current
  <2>3. QED BY <2>1, <2>2
<1>3. ASSUME NEW c \in Calls, TicketFails(c) \/ ConnectFails(c)
      PROVE  entry' \in {entry, None} /\ \A d \in Calls : Waits(d)'
  <2>1. /\ job' = [job EXCEPT ![c] = "none"] /\ cancelled' = cancelled \ {c}
        /\ ticket' = IF ticket = c THEN None ELSE ticket
        /\ entry' \in {entry, None}
    BY <1>3 DEF TicketFails, ConnectFails, SettleTicket
  <2>2. QED BY <1>1, <2>1, NamesAssumption DEF Current
<1>4. ASSUME NEW c \in Calls,
             \/ ReadKeysUnreserved(c) \/ ReplacePrevious(c) \/ ReadCipher(c)
             \/ Connected(c) \/ \E s \in Sources : ConnectNew(c, s)
      PROVE  FALSE
  BY <1>1, <1>4
  DEF ReadKeysUnreserved, ReplacePrevious, ReadCipher, Connected, ConnectNew, Connect
<1>5. ASSUME NEW c \in Calls, NEW r \in {"resolved", "rejected"}, CallSettles(c, r)
      PROVE  entry' = entry /\ \A d \in Calls : Waits(d)'
  BY <1>1, <1>5 DEF CallSettles, Current
<1>6. ASSUME NEW s \in Sources, PeerEnds(s) \/ SessionStep(s)
      PROVE  entry' \in {entry, None} /\ \A d \in Calls : Waits(d)'
  BY <1>1, <1>6 DEF PeerEnds, SessionStep, PeerDrained, Finalize, OutputEnds, Current
<1>7. CASE StopStream \/ StopStep
  BY <1>1, <1>7 DEF StopStream, StopStep, StopDrained, StopResolves, Current
<1>8. QED
  BY <1>2, <1>3, <1>4, <1>5, <1>6, <1>7 DEF StreamNext, StartStep

-----------------------------------------------------------------------------
(* The operations *)

\* The steps of an operation keep the types (#queueStationOperation).
LEMMA ChainTypes ==
  ASSUME HTypeOK, ChainStep \/ QueueOperation
  PROVE  HTypeOK'
<1> USE DEF HTypeOK, Stages, Turn, Settles
<1>1. CASE QueueOperation \/ OperationRefused \/ BeginRead
  BY <1>1, OperationsAssumption
  DEF QueueOperation, OperationRefused, BeginRead, pvars, PTypeOK
<1>2. CASE BeginWrite
  <2>1. entry \in Sources \cup {None} /\ ClosePeer(entry)
    BY <1>2 DEF BeginWrite, PTypeOK
  <2>2. peer' \in [Sources -> Live \cup {"closing", "closed"}] /\ ended' \subseteq Sources
    BY <2>1, ClosePeerTypes
  <2>3. PTypeOK'
    BY <1>2, <2>2 DEF BeginWrite, PTypeOK
  <2>4. QED BY <1>2, <2>1, <2>3 DEF BeginWrite
<1>3. CASE MediaStopped
  BY <1>3 DEF MediaStopped, PTypeOK
<1>4. CASE WriteOpens \/ OperationEnds
  BY <1>4 DEF WriteOpens, OperationEnds, pvars, PTypeOK
<1>5. CASE ControlClosed
  BY <1>5, OperationsAssumption DEF ControlClosed, pvars, PTypeOK
<1>6. QED BY <1>1, <1>2, <1>3, <1>4, <1>5 DEF ChainStep

\* An operation that stops media leaves the sessions as findable as stopStream
\* does.
LEMMA ChainConnect ==
  ASSUME HTypeOK, ConnectInv, ChainStep \/ QueueOperation
  PROVE  ConnectInv'
<1> USE DEF HTypeOK
<1>1. CASE BeginWrite
  <2>1. \A s \in Sources : peer'[s] \notin Live
    BY <1>1, CloseEntry DEF BeginWrite, ConnectInv
  <2>2. \A d \in Calls : job[d] = "connecting" => session[d] \in Sources
    BY DEF ConnectInv, PTypeOK
  <2>3. cancelled \subseteq cancelled' /\ \A d \in cancelled' : d \in Calls
    BY <1>1 DEF BeginWrite, PTypeOK
  <2>4. QED
    BY <1>1, <2>1, <2>2, <2>3, ConnectKept DEF BeginWrite
<1>2. CASE MediaStopped
  <2>1. \A x \in Sources : peer[x] \in Live => entry' = entry
    BY <1>2 DEF MediaStopped, ConnectInv, LivePeerIsEntry
  <2>2. QED BY <1>2, <2>1, ConnectKept DEF MediaStopped
<1>3. CASE UNCHANGED pvars
  BY <1>3, ConnectKept DEF pvars
<1>4. QED
  BY <1>1, <1>2, <1>3
  DEF ChainStep, QueueOperation, OperationRefused, BeginRead, WriteOpens,
      OperationEnds, ControlClosed

\* An operation opens its session when nobody has the station: a read looks, and
\* a write cancels the start and waits for the session (#stationHasActiveMedia,
\* #stopStationMedia).
LEMMA ChainStation ==
  ASSUME HTypeOK, StationInv, ChainStep \/ QueueOperation
  PROVE  StationInv'
<1> USE DEF HTypeOK, PTypeOK, StationInv, Current
<1>1. CASE QueueOperation
  BY <1>1 DEF QueueOperation, pvars
<1>2. CASE OperationRefused
  BY <1>2 DEF OperationRefused, Settles, pvars
<1>3. CASE BeginRead
  <2>1. CASE ActiveMedia
    BY <1>3, <2>1 DEF BeginRead, Settles, pvars
  <2>2. CASE ~ActiveMedia
    BY <1>3, <2>2, NamesAssumption DEF BeginRead, ActiveMedia, pvars
  <2>3. QED BY <2>1, <2>2
<1>4. CASE BeginWrite
  BY <1>4, NamesAssumption DEF BeginWrite
<1>5. CASE MediaStopped
  BY <1>5 DEF MediaStopped
<1>6. CASE WriteOpens \/ OperationEnds
  BY <1>6 DEF WriteOpens, OperationEnds, pvars
<1>7. CASE ControlClosed
  BY <1>7 DEF ControlClosed, Settles, pvars
<1>8. QED BY <1>1, <1>2, <1>3, <1>4, <1>5, <1>6, <1>7 DEF ChainStep

\* HInv is inductive.
LEMMA StationStep == HInv /\ [HNext]_hvars => HInv'
<1> SUFFICES ASSUME HInv, [HNext]_hvars PROVE HInv'
  OBVIOUS
<1> USE DEF HInv
<1>1. CASE StreamNext /\ UNCHANGED controlVars
  <2>1. [PNext]_pvars
    BY <1>1, StreamIsProvider
  <2>2. PTypeOK /\ PTypeOK' /\ ConnectInv'
    BY <2>1, TypeStep, ConnectStep DEF HTypeOK
  <2>3. HTypeOK'
    BY <1>1, <2>2 DEF HTypeOK
  <2>4. CASE stage = "previous"
    BY <1>1, <2>2, <2>3, <2>4 DEF StationInv
  <2>5. CASE stage # "previous"
    BY <1>1, <2>2, <2>3, <2>5, StreamStation DEF StationInv
  <2>6. QED BY <2>2, <2>3, <2>4, <2>5
<1>2. CASE ChainStep \/ QueueOperation
  BY <1>2, ChainTypes, ChainConnect, ChainStation
<1>3. CASE UNCHANGED hvars
  <2>1. ConnectInv'
    BY <1>3, ConnectKept DEF hvars, pvars, HTypeOK
  <2>2. QED
    BY <1>3, <2>1 DEF hvars, pvars, HTypeOK, PTypeOK, StationInv, Current
<1>4. QED BY <1>1, <1>2, <1>3 DEF HNext

\* Hence it holds in every state.
LEMMA StationCorrect == HSpec => []HInv
<1>1. HInit => HInv
  BY OperationsAssumption
  DEF HInit, PInit, HInv, HTypeOK, PTypeOK, Jobs, Stages, ConnectInv,
      LivePeerIsEntry, CancelledStartHoldsNothing, StationInv
<1>2. QED BY <1>1, StationStep, PTL DEF HSpec

-----------------------------------------------------------------------------
(* Theorems *)

\* With operations that interrupt them, tickets and sessions keep their types, a
\* live session is the camera's entry, and a cancelled start holds none.
THEOREM InterruptedStreamsCorrect ==
  HSpec => [](PTypeOK /\ LivePeerIsEntry /\ CancelledStartHoldsNothing)
<1>1. HInv => PTypeOK /\ LivePeerIsEntry /\ CancelledStartHoldsNothing
  BY DEF HInv, HTypeOK, ConnectInv
<1>2. QED BY <1>1, StationCorrect, PTL

-----------------------------------------------------------------------------
(* What an operation waits for *)

\* A session is reopened by a start only, and not under a name that the operation
\* still holds.
LEMMA StreamStaysOver ==
  ASSUME PTypeOK, StreamNext, NEW s \in Sources, peer[s] \notin Live, s = interrupted
  PROVE  peer'[s] \notin Live
<1> USE DEF PTypeOK
<1>1. ASSUME NEW c \in Calls, TicketFails(c) \/ ReadKeysUnreserved(c) \/ ReadCipher(c)
      PROVE  peer' = peer
  BY <1>1 DEF TicketFails, ReadKeysUnreserved, ReadKeys, ReadCipher
<1>2. ASSUME NEW c \in Calls, Connected(c) PROVE peer'[s] \notin Live
  BY <1>2 DEF Connected
<1>3. ASSUME NEW c \in Calls, ReplacePrevious(c) \/ ConnectFails(c)
      PROVE  peer'[s] \notin Live
  BY <1>3, CloseStaysOver DEF ReplacePrevious, ConnectFails, StayOver
<1>4. ASSUME NEW c \in Calls, NEW x \in Sources, ConnectNew(c, x)
      PROVE  peer'[s] \notin Live
  BY <1>4 DEF ConnectNew, Connect
<1>5. ASSUME NEW c \in Calls,
             \/ StartNew(c)
             \/ \E result \in {"resolved", "rejected"} : CallSettles(c, result)
      PROVE  peer' = peer
  BY <1>5 DEF StartNew, StartStream, CallSettles
<1>6. ASSUME NEW x \in Sources, PeerEnds(x) \/ SessionStep(x) PROVE peer'[s] \notin Live
  BY <1>6, CloseStaysOver
  DEF PeerEnds, SessionStep, PeerDrained, Finalize, OutputEnds, StayOver
<1>7. CASE StopStream \/ StopStep
  BY <1>7, CloseStaysOver DEF StopStream, StopStep, StopDrained, StopResolves, StayOver
<1>8. QED
  BY <1>1, <1>2, <1>3, <1>4, <1>5, <1>6, <1>7 DEF StreamNext, StartStep

\* Starts and stops still wait only for what is under way, and so does an operation
\* for the session it has closed (#stopStationMedia).
NoLostStationWait ==
  /\ NoLostWait
  /\ stage = "stopping" => interrupted # None /\ peer[interrupted] \notin Live

StationWaitInv == WaitInv /\ NoLostStationWait

\* Steps of the streams open nothing under a waiting operation.
LEMMA StreamWaits ==
  ASSUME HInv, StationWaitInv, StreamNext, UNCHANGED controlVars
  PROVE  StationWaitInv'
<1>1. WaitInv'
  BY StreamIsProvider, WaitStep DEF HInv, HTypeOK, StationWaitInv
<1>2. stage' = "stopping" => interrupted' # None /\ peer'[interrupted'] \notin Live
  BY StreamStaysOver DEF HInv, HTypeOK, StationInv, StationWaitInv, NoLostStationWait
<1>3. QED BY <1>1, <1>2 DEF StationWaitInv, WaitInv, NoLostStationWait

\* A write closes the session whose end it awaits (#stopStationMedia).
LEMMA ChainWaits ==
  ASSUME HInv, StationWaitInv, ChainStep \/ QueueOperation
  PROVE  StationWaitInv'
<1> USE DEF HInv, HTypeOK, StationWaitInv
<1>1. CASE BeginWrite
  <2>1. entry \in Sources \cup {None} /\ ClosePeer(entry)
    BY <1>1 DEF BeginWrite, PTypeOK
  <2>2. StayOver /\ (entry # None => peer'[entry] \notin Live)
    BY <2>1, CloseStaysOver
  <2>3. WaitInv'
    BY <1>1, <2>2
    DEF BeginWrite, WaitInv, NoLostWait, TicketsAtWork, StayOver, PTypeOK
  <2>4. stage' = "stopping" => interrupted' # None /\ peer'[interrupted'] \notin Live
    BY <1>1, <2>2 DEF BeginWrite
  <2>5. QED BY <2>3, <2>4 DEF WaitInv, NoLostStationWait
<1>2. CASE MediaStopped
  BY <1>2, WaitsKept DEF MediaStopped, StayOver, WaitInv, NoLostStationWait
<1>3. CASE UNCHANGED pvars /\ (stage' = stage \/ stage' # "stopping")
           /\ interrupted' = interrupted
  BY <1>3, WaitsKept DEF pvars, StayOver, WaitInv, NoLostStationWait
<1>4. QED
  BY <1>1, <1>2, <1>3
  DEF ChainStep, QueueOperation, OperationRefused, BeginRead, Settles, WriteOpens,
      OperationEnds, ControlClosed

\* With operations that interrupt the media, nobody waits for what nobody does.
THEOREM StationWaitsCorrect == HSpec => []NoLostStationWait
<1>1. HInit => StationWaitInv
  BY WaitInit DEF HInit, StationWaitInv, WaitInv, NoLostStationWait
<1>2. HInv /\ StationWaitInv /\ [HNext]_hvars => StationWaitInv'
  <2>1. ASSUME HInv, StationWaitInv, UNCHANGED hvars PROVE StationWaitInv'
    BY <2>1, WaitsKept
    DEF hvars, pvars, StayOver, HInv, HTypeOK, StationWaitInv, WaitInv,
        NoLostStationWait
  <2>2. QED BY <2>1, StreamWaits, ChainWaits DEF HNext
<1>3. StationWaitInv => NoLostStationWait
  BY DEF StationWaitInv
<1>4. QED BY <1>1, <1>2, <1>3, StationCorrect, PTL DEF HSpec

-----------------------------------------------------------------------------
(* The station's peer *)

\* Steps of a stream are steps of media, or none that StationLock sees.
LEMMA StreamRefines ==
  ASSUME HInv, StreamNext, UNCHANGED controlVars
  PROVE  Lock!MediaStarts \/ Lock!MediaEnds \/ UNCHANGED Lock!lockVars
<1>1. CASE entry' = None
  BY <1>1 DEF Lock!MediaEnds
<1>2. CASE entry' # None /\ entry # None
  BY <1>2 DEF Lock!lockVars
<1>3. CASE entry' # None /\ entry = None
  <2>1. stage = "previous"
    BY <1>3, StreamStation DEF HInv
  <2>2. QED BY <1>3, <2>1 DEF Lock!MediaStarts
<1>4. QED BY <1>1, <1>2, <1>3

\* Steps of an operation are its own, or the end of the media it stops.
LEMMA ChainRefines ==
  ASSUME HInv, ChainStep \/ QueueOperation
  PROVE  Lock!Next \/ UNCHANGED Lock!lockVars
<1> USE DEF HInv, HTypeOK, StationInv, Stages, Lock!Next
<1>1. CASE QueueOperation
  BY <1>1 DEF QueueOperation, pvars, Lock!Request
<1>2. CASE OperationRefused
  BY <1>2 DEF OperationRefused, Turn, Settles, pvars, Lock!Settle
<1>3. CASE BeginRead
  <2>1. CASE ActiveMedia
    BY <1>3, <2>1 DEF BeginRead, Turn, Settles, pvars, Lock!Settle
  <2>2. CASE ~ActiveMedia
    BY <1>3, <2>2 DEF BeginRead, Turn, ActiveMedia, pvars, Lock!Take
  <2>3. QED BY <2>1, <2>2
<1>4. CASE BeginWrite
  BY <1>4 DEF BeginWrite, Turn, Lock!lockVars
<1>5. CASE MediaStopped
  BY <1>5 DEF MediaStopped, Lock!MediaEnds
<1>6. CASE WriteOpens
  BY <1>6 DEF WriteOpens, pvars, Lock!Take
<1>7. CASE OperationEnds
  BY <1>7 DEF OperationEnds, pvars, Lock!lockVars
<1>8. CASE ControlClosed
  BY <1>8 DEF ControlClosed, Settles, pvars, Lock!Settle
<1>9. QED
  BY <1>1, <1>2, <1>3, <1>4, <1>5, <1>6, <1>7, <1>8 DEF ChainStep

\* Operations and media never share the station's peer (the safety part of
\* ImplementsStationLock).
THEOREM StationExclusive == HSpec => Lock!SafeSpec
<1>1. HInit => Lock!Init
  BY DEF HInit, PInit, Lock!Init
<1>2. HInv /\ [HNext]_hvars => [Lock!Next]_Lock!lockVars
  <2>1. ASSUME HInv, StreamNext, UNCHANGED controlVars
        PROVE  [Lock!Next]_Lock!lockVars
    BY <2>1, StreamRefines DEF Lock!Next
  <2>2. ASSUME HInv, ChainStep \/ QueueOperation
        PROVE  [Lock!Next]_Lock!lockVars
    BY <2>2, ChainRefines
  <2>3. CASE UNCHANGED hvars
    BY <2>3 DEF hvars, pvars, Lock!lockVars
  <2>4. QED BY <2>1, <2>2, <2>3 DEF HNext
<1>3. QED BY <1>1, <1>2, StationCorrect, PTL DEF HSpec, Lock!SafeSpec
=============================================================================
