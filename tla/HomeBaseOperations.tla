--------------------------- MODULE HomeBaseOperations ---------------------------
(***************************************************************************)
(* The streams of one camera behind a classic HomeBase (T8010, T8030) and  *)
(* the operations of that HomeBase: #queueStationOperation, its reads      *)
(* (refreshStation) and its interrupting writes (siren, volumes, guard     *)
(* mode), and how they and startStream stay out of each other's way on the *)
(* station's one local peer.                                               *)
(*                                                                         *)
(* An operation is a link of the promise chain in #stationOperations; its  *)
(* HomeBasePpcsSession is reduced to being open, from connect on, and      *)
(* closing.  The station's motion controls and recording retrievals are    *)
(* not modelled beyond refusing an operation.                              *)
(***************************************************************************)
EXTENDS EufyStreams

CONSTANT MaxOperations   \* bound: operations that have not settled

ASSUME OperationsAssumption == MaxOperations \in Nat

VARIABLES
  operations,   \* #stationOperations: links of the chain that have not settled
  stage,        \* what the oldest of them awaits
  interrupted   \* the session whose end it awaits in its stopStream

controlVars == <<operations, stage, interrupted>>
hvars == <<pvars, controlVars>>

\* Its predecessor; the end of the media session; the promises around that
\* end; connect and the commands; waitUntilClosed of its own session.
Stages == {"previous", "stopping", "stopped", "open", "closing"}

HTypeOK ==
  /\ PTypeOK
  /\ operations \in 0..MaxOperations
  /\ stage \in Stages
  /\ operations = 0 => stage = "previous"
  /\ interrupted \in Sources \cup {None}

HInit ==
  /\ PInit
  /\ operations = 0 /\ stage = "previous" /\ interrupted = None

--------------------------------------------------------------------------------
(* The operations of the HomeBase.                                           *)

\* A bug of ActiveMedia: a start that has not opened its session is overlooked.
OpenedMedia == entry # None

\* #stationHasActiveMedia: an entry, or a ticket that is not cancelled.
ActiveMedia == entry # None \/ (ticket # None /\ ticket \notin cancelled)

\* #queueStationOperation: the operation follows whatever is in the map.
QueueOperation ==
  /\ operations < MaxOperations
  /\ operations' = operations + 1
  /\ UNCHANGED <<pvars, stage, interrupted>>

\* The body of the oldest operation runs; of what kind it is matters from here.
Turn == operations > 0 /\ stage = "previous"

\* It settles; the body of the next one runs, or the map entry is deleted.
Settles == operations' = operations - 1 /\ stage' = "previous"

\* The station lost its identity, a recording is retrieved from it, or a motion
\* control holds it: an error, or for a read the cached state.
OperationRefused ==
  /\ Turn
  /\ Settles
  /\ UNCHANGED <<pvars, interrupted>>

\* A read returns the cached state while a camera streams or starts.
BeginRead ==
  /\ Turn
  /\ IF ActiveMedia THEN Settles
     ELSE stage' = "open" /\ UNCHANGED operations
  /\ UNCHANGED <<pvars, interrupted>>

\* A write has interruptMedia set and calls stopStream of the camera: the pending
\* start is cancelled and the session closed.
BeginWrite ==
  /\ Turn
  /\ cancelled' = IF ticket = None THEN cancelled ELSE cancelled \cup {ticket}
  /\ interrupted' = entry
  /\ stage' = IF entry = None THEN "stopped" ELSE "stopping"
  /\ ClosePeer(entry)
  /\ UNCHANGED <<operations, ticket, job, session, joined, outcome, entry,
                 finalizing, stopVars>>

\* That session has sent its END, and #finalizeStream has forgotten it.
MediaStopped ==
  /\ stage = "stopping" /\ peer[interrupted] = "closed"
  /\ stage' = "stopped"
  /\ entry' = IF entry = interrupted THEN None ELSE entry
  /\ interrupted' = None
  /\ UNCHANGED <<operations, ticketVars, peer, ended, finalizing, stopVars>>

\* stopStream has returned: the operation opens its session.
WriteOpens ==
  /\ stage = "stopped"
  /\ stage' = "open"
  /\ UNCHANGED <<pvars, operations, interrupted>>

\* The commands are answered, or one of them failed or timed out.
OperationEnds ==
  /\ stage = "open"
  /\ stage' = "closing"
  /\ UNCHANGED <<pvars, operations, interrupted>>

\* waitUntilClosed: the END is sent or half a second has passed.
ControlClosed ==
  /\ stage = "closing"
  /\ Settles
  /\ UNCHANGED <<pvars, interrupted>>

--------------------------------------------------------------------------------
(* The camera's streams.                                                     *)

\* A queued ticket waits until the station has no operation, or its deadline.
ReadKeysUnreserved(c) == operations = 0 /\ ReadKeys(c)

\* Names of calls and sessions are identities only: a new one takes any that
\* nothing refers to.
NewCall == CHOOSE c \in Calls : outcome[c] = "none"
NewSession == CHOOSE s \in Sources : FreePeer(s) /\ s # interrupted

StartNew(c) == outcome[c] = "none" /\ c = NewCall /\ StartStream(c)
ConnectNew(c, s) ==
  FreePeer(s) /\ s # interrupted /\ s = NewSession /\ Connect(c, s)

\* What the event loop and the timers do for a start and its callers, for a
\* session, and for stopStream.
StartStep(c) ==
  \/ TicketFails(c) \/ ReadKeysUnreserved(c) \/ ReplacePrevious(c)
  \/ ReadCipher(c) \/ Connected(c) \/ ConnectFails(c)
  \/ \E s \in Sources : ConnectNew(c, s)
  \/ \E result \in {"resolved", "rejected"} : CallSettles(c, result)

SessionStep(s) ==
  PeerDrained(s) \/ Finalize(s) \/ \E heard \in BOOLEAN : OutputEnds(s, heard)

StopStep == StopDrained \/ StopResolves

StreamNext ==
  \/ \E c \in Calls : StartNew(c) \/ StartStep(c)
  \/ \E s \in Sources : PeerEnds(s) \/ SessionStep(s)
  \/ StopStream \/ StopStep

ChainStep ==
  \/ OperationRefused \/ BeginRead \/ BeginWrite
  \/ MediaStopped \/ WriteOpens \/ OperationEnds \/ ControlClosed

HNext ==
  \/ StreamNext /\ UNCHANGED controlVars
  \/ QueueOperation
  \/ ChainStep

HSpec == HInit /\ [][HNext]_hvars

\* Every wait of a start is bounded by a timer (its wait for the station by the
\* deadline of TicketFails), and so is every wait of an operation: connecting,
\* each command, and the END of either kind of session.
HFairSpec ==
  /\ HSpec
  /\ \A c \in Calls : WF_pvars(StartStep(c))
  /\ \A s \in Sources : WF_pvars(SessionStep(s))
  /\ WF_pvars(StopStep)
  /\ WF_hvars(ChainStep)

--------------------------------------------------------------------------------
Lock == INSTANCE StationLock WITH
  waiting <- operations,
  control <- stage \in {"open", "closing"},
  media <- entry # None

\* #queueStationOperation and startStream never share the station's peer: an
\* operation opens its session beside no start that was pending or connecting
\* when its turn came, and beside no session that it or stopStream has stopped
\* and whose END is not sent; a start opens none beside an operation.  (A start
\* that fails is forgotten before its END is sent, so it is no media here.)
\* Every operation settles, whatever became of those before it.
ImplementsStationLock == Lock!Spec
================================================================================
