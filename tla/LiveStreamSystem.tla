--------------------------- MODULE LiveStreamSystem --------------------------
(***************************************************************************)
(* LiveStreamManager with the provider it runs on: the session's calls of  *)
(* controller.startStream and stopStream reach EufyStreams in the same     *)
(* step, and the provider's streamStarted and streamStopped reports        *)
(* (main.ts) are the session's attachSource and markStopped.  Private      *)
(* trials use other provider routes and are left to LiveStreamManager.     *)
(***************************************************************************)
EXTENDS LiveStreamManager

CONSTANT PeerMayEnd

ASSUME PublicTasksOnly == "trial" \notin Kinds

VARIABLES
  ticket, cancelled, job, session, joined, outcome, entry, peer, ended,
  finalizing, stopPc, stopTarget

P == INSTANCE EufyStreams

streamVars == <<ticket, cancelled, job, session, joined, outcome, entry, peer,
                ended, finalizing, stopPc, stopTarget>>
sysVars == <<vars, streamVars>>

SysInit == Init /\ P!PInit

\* What a session step asks of the provider, in the same synchronous stretch.
\* A new source name must be unused by the snapshot processes as well.
ProviderCalled ==
  LET begun == inflight' \ inflight
  IN  IF begun # {} THEN \E c \in begun : P!StartStream(c)
      ELSE IF stop' /\ ~stop THEN P!StopStream
      ELSE UNCHANGED streamVars

\* Promise continuations of the provider that an event has made ready.
ProviderContinuationPending ==
  \/ \E s \in finalizing : peer[s] = "closed"
  \/ stopPc = "done" \/ (stopPc = "draining" /\ peer[stopTarget] = "closed")
  \/ \E c \in Calls : outcome[c] \in {"resolved", "rejected"}

\* The event loop takes its next event.
Idle == ~ContinuationPending /\ ~ProviderContinuationPending

SessionActs ==
  /\ Continuation \/ (Idle /\ SessionEvent)
  /\ ProviderCalled

\* A provider step the session does not see.
ProviderActs ==
  /\ \/ \E c \in Calls :
          \/ P!TicketFails(c) \/ P!ReadKeys(c) \/ P!ReplacePrevious(c)
          \/ P!ReadCipher(c) \/ P!ConnectFails(c)
          \/ \E s \in Sources :
               s # source /\ s \notin extractors /\ P!Connect(c, s)
     \/ \E s \in Sources : Idle /\ (P!PeerEnds(s) \/ P!PeerDrained(s))
  /\ UNCHANGED vars

\* streamStarted: the session attaches the output before the ticket resolves.
StreamStarted(c) == P!Connected(c) /\ AttachSource(session[c])

\* The output ends: #sourceEnded if its listeners are still attached.
OutputEnded(s) ==
  IF s = source THEN SourceEnded(s, FALSE) /\ P!OutputEnds(s, TRUE)
  ELSE P!OutputEnds(s, FALSE) /\ UNCHANGED vars

\* The continuation of #finalizeStream: streamStopped if s is still the entry.
StreamStopped(s) ==
  /\ P!Finalize(s)
  /\ IF entry = s THEN MarkStopped ELSE UNCHANGED vars

\* stopStream finalizes its own session, then resolves.
StopDrained ==
  /\ P!StopDrained
  /\ IF entry = stopTarget THEN MarkStopped ELSE UNCHANGED vars

StopResolved == P!StopResolves /\ StopSettles(TRUE)

CallSettled(c) ==
  \/ P!CallSettles(c, "resolved") /\ StartSucceeds(c)
  \/ P!CallSettles(c, "rejected") /\ StartFails(c)

SysNext ==
  \/ SessionActs
  \/ ProviderActs
  \/ \E c \in Calls : StreamStarted(c) \/ CallSettled(c)
  \/ \E s \in Sources : OutputEnded(s) \/ StreamStopped(s)
  \/ StopDrained
  \/ StopResolved

SysSpec == SysInit /\ [][SysNext]_sysVars

-----------------------------------------------------------------------------
\* No live session of an open gateway is left without a user, a stop or the
\* idle timer: the source is always retired by somebody (addClient, #ensureStarted,
\* #scheduleStopIfUnused against #startStreamOnce and #finalizeStream).
NoOrphanSource ==
  ~closed /\ (\E s \in Sources : peer[s] = "open") /\ Unused
     => stopTimer \/ stop

\* The report that a retired source has stopped closes no viewer: those of the
\* source are gone by then, and later ones wait behind the stop ("A retiring
\* source finishes before registration, so its stop notification cannot close
\* this new request", addClient).
StopReportSparesNewViewers ==
  [][~closed /\ entry # None /\ entry' = None /\ entry # source
       => clients' = clients]_sysVars

\* The session never shows video of a PPCS session the provider has lost track
\* of, and never stays attached to one that is over: the camera's entry is the
\* attached source, or the source's end event is still to come (attachSource,
\* #startStreamOnce, #finalizeStream).
AttachedSourceIsCurrent ==
  source # None => (entry = source /\ peer[source] = "open") \/ source \in ended

\* Whoever waits on the camera waits for provider work that is under way, also
\* when its source ends by itself and a late report has retired its start: the
\* gate or a final stop for a stopStream that runs, a start for an answer or for
\* a ticket at work, each of them only for sessions that were closed
\* (#waitForStop, #stopNowIfUnused, #ensureStarted against startStream,
\* #startStreamOnce and stopStream).
NoLostUser ==
  /\ stop <=> stopPc # "none"
  /\ \A u \in Users : phase[u] \in {"gate", "retiring"} => stopPc # "none"
  /\ \A c \in {awaiting[u] : u \in Users} :
       c # None /\ promise[c] = "pending" =>
         outcome[c] # "none" /\ (outcome[c] = "pending" => job[joined[c]] # "none")
  /\ P!NoLostWait
=============================================================================
