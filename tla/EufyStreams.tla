----------------------------- MODULE EufyStreams -----------------------------
(***************************************************************************)
(* How EufyProvider starts and stops one camera's PPCS video stream        *)
(* (eufy_event_gateway/src/provider/eufy-provider.ts): the start tickets   *)
(* of startStream, the key reads and the connection of #startStreamOnce,   *)
(* stopStream, and #finalizeStream.  A FirstPartyPpcsSession is reduced to *)
(* its life: opening, open, closing until its END has been sent, closed.   *)
(*                                                                         *)
(* Waits for other reservations of the camera or its HomeBase only delay a *)
(* queued ticket or fail it, and so does every key read.  The NVR and      *)
(* doorbell routes are not modelled here, nor are the two camera models    *)
(* whose start is repeated: the T8170's lookup timeouts and the T8113-Z's  *)
(* silent peer.                                                            *)
(***************************************************************************)
EXTENDS Naturals, FiniteSets

CONSTANTS
  Calls,       \* calls of startStream; a ticket bears the name of its first call
  Sources,     \* FirstPartyPpcsSession instances
  None,
  PeerMayEnd   \* may a session end by itself (maximum duration, peer, error)?

ASSUME NamesAssumption == None \notin Calls \cup Sources

VARIABLES
  ticket,      \* #streamStarts entry of the camera, or None
  cancelled,   \* unsettled tickets whose `cancelled` flag is set
  job,         \* where each ticket's promise chain stands
  session,     \* session each ticket waits to see closed, then the one it opened
  joined,      \* ticket whose promise each call returned
  outcome,     \* settlement of each call
  entry,       \* #ppcsStreams entry of the camera, or None
  peer,        \* life of each session
  ended,       \* reported sessions whose output has an end event to emit
  finalizing,  \* sessions with a #finalizeStream continuation waiting
  stopPc,      \* where stopStream stands
  stopTarget   \* the session it closes

pvars == <<ticket, cancelled, job, session, joined, outcome, entry, peer,
           ended, finalizing, stopPc, stopTarget>>
ticketVars == <<ticket, cancelled, job, session, joined, outcome>>
stopVars == <<stopPc, stopTarget>>

Jobs == {"none", "queued", "keys", "replacing", "ciphers", "connecting"}
Live == {"opening", "open"}

PTypeOK ==
  /\ ticket \in Calls \cup {None}
  /\ cancelled \subseteq Calls
  /\ job \in [Calls -> Jobs]
  /\ session \in [Calls -> Sources \cup {None}]
  /\ joined \in [Calls -> Calls \cup {None}]
  /\ outcome \in [Calls -> {"none", "pending", "resolved", "rejected"}]
  /\ entry \in Sources \cup {None}
  /\ peer \in [Sources -> Live \cup {"closing", "closed"}]
  /\ ended \subseteq Sources
  /\ finalizing \subseteq Sources
  /\ stopPc \in {"none", "draining", "done"}
  /\ stopTarget \in Sources \cup {None}

PInit ==
  /\ ticket = None /\ cancelled = {}
  /\ job = [c \in Calls |-> "none"]
  /\ session = [c \in Calls |-> None]
  /\ joined = [c \in Calls |-> None]
  /\ outcome = [c \in Calls |-> "none"]
  /\ entry = None
  /\ peer = [s \in Sources |-> "closed"]
  /\ ended = {} /\ finalizing = {}
  /\ stopPc = "none" /\ stopTarget = None

-----------------------------------------------------------------------------
\* FirstPartyPpcsSession.close: idempotent, ends the output at once.  Nothing
\* listens to the output of a session that was not reported yet.
ClosePeer(s) ==
  IF s # None /\ peer[s] \in Live
  THEN /\ peer' = [peer EXCEPT ![s] = "closing"]
       /\ ended' = IF peer[s] = "open" THEN ended \cup {s} ELSE ended
  ELSE UNCHANGED <<peer, ended>>

\* The `current` check of a ticket.
Current(c) == c \notin cancelled /\ ticket = c

\* startStream: share the pending ticket unless it was cancelled.
StartStream(c) ==
  /\ outcome' = [outcome EXCEPT ![c] = "pending"]
  /\ IF ticket # None /\ ticket \notin cancelled
     THEN /\ joined' = [joined EXCEPT ![c] = ticket]
          /\ UNCHANGED <<ticket, cancelled, job, session>>
     ELSE /\ joined' = [joined EXCEPT ![c] = c]
          /\ ticket' = c
          /\ cancelled' = cancelled \ {c}
          /\ job' = [job EXCEPT ![c] = "queued"]
          /\ session' = [session EXCEPT ![c] = None]
  /\ UNCHANGED <<entry, peer, ended, finalizing, stopVars>>

\* A bug of SettleTicket: only the first caller is answered.
SettleOwnTicket(c, result) ==
  /\ job' = [job EXCEPT ![c] = "none"]
  /\ session' = [session EXCEPT ![c] = None]
  /\ outcome' = [outcome EXCEPT ![c] = result]
  /\ ticket' = IF ticket = c THEN None ELSE ticket
  /\ cancelled' = cancelled \ {c}
  /\ UNCHANGED joined

\* The ticket's promise settles, for every call that returned it, and nobody
\* reads its flag again.
SettleTicket(c, result) ==
  /\ job' = [job EXCEPT ![c] = "none"]
  /\ session' = [session EXCEPT ![c] = None]
  /\ outcome' = [d \in Calls |->
                   IF joined[d] = c /\ outcome[d] = "pending" THEN result
                   ELSE outcome[d]]
  /\ ticket' = IF ticket = c THEN None ELSE ticket
  /\ cancelled' = cancelled \ {c}
  /\ UNCHANGED joined

\* A resumed ticket that is no longer current, or whose await failed, throws.
TicketFails(c) ==
  /\ job[c] \in {"queued", "keys", "ciphers"}
     \/ (job[c] = "replacing" /\ peer[session[c]] = "closed" /\ ~Current(c))
  /\ SettleTicket(c, "rejected")
  /\ UNCHANGED <<entry, peer, ended, finalizing, stopVars>>

Advance(c, next) ==
  /\ job' = [job EXCEPT ![c] = next]
  /\ UNCHANGED <<ticket, cancelled, joined, outcome, stopVars, finalizing>>

\* The reservations are free: read the DSK key.
ReadKeys(c) ==
  /\ job[c] = "queued" /\ Current(c)
  /\ Advance(c, "keys")
  /\ UNCHANGED <<session, entry, peer, ended>>

\* The key is there: close a previous session and wait for its END.
ReplacePrevious(c) ==
  /\ job[c] = "keys" /\ Current(c)
  /\ Advance(c, IF entry = None THEN "ciphers" ELSE "replacing")
  /\ session' = [session EXCEPT ![c] = entry]
  /\ ClosePeer(entry)
  /\ entry' = entry

\* The previous session is closed: read the cipher key.
ReadCipher(c) ==
  /\ job[c] = "replacing" /\ Current(c)
  /\ peer[session[c]] = "closed"
  /\ Advance(c, "ciphers")
  /\ UNCHANGED <<session, entry, peer, ended>>

\* No variable refers to session s any more, so its name may be used again.
FreePeer(s) ==
  /\ peer[s] = "closed" /\ s \notin ended \cup finalizing
  /\ s \notin {entry, stopTarget} /\ \A c \in Calls : session[c] # s

\* Open a session; it becomes the camera's entry before it has connected.
Connect(c, s) ==
  /\ job[c] = "ciphers" /\ Current(c)
  /\ FreePeer(s)
  /\ Advance(c, "connecting")
  /\ session' = [session EXCEPT ![c] = s]
  /\ entry' = s
  /\ peer' = [peer EXCEPT ![s] = "opening"]
  /\ ended' = ended

\* start() resolved for a current ticket: the source is reported, then the
\* ticket resolves.
Connected(c) ==
  /\ job[c] = "connecting" /\ Current(c)
  /\ peer[session[c]] = "opening"
  /\ peer' = [peer EXCEPT ![session[c]] = "open"]
  /\ SettleTicket(c, "resolved")
  /\ UNCHANGED <<entry, ended, finalizing, stopVars>>

\* A bug of ConnectFails: the session is forgotten without being closed.
ConnectForgotten(c) ==
  /\ job[c] = "connecting"
  /\ entry' = IF entry = session[c] THEN None ELSE entry
  /\ SettleTicket(c, "rejected")
  /\ UNCHANGED <<peer, ended, finalizing, stopVars>>

\* start() rejected, or the ticket is no longer current: close the session and
\* forget it without waiting for its END.
ConnectFails(c) ==
  /\ job[c] = "connecting"
  /\ ClosePeer(session[c])
  /\ entry' = IF entry = session[c] THEN None ELSE entry
  /\ SettleTicket(c, "rejected")
  /\ UNCHANGED <<finalizing, stopVars>>

-----------------------------------------------------------------------------
\* An open session ends by itself.
PeerEnds(s) ==
  /\ PeerMayEnd
  /\ peer[s] = "open"
  /\ ClosePeer(s)
  /\ UNCHANGED <<ticketVars, entry, finalizing, stopVars>>

\* The END send completes, or its half second is over.
PeerDrained(s) ==
  /\ peer[s] = "closing"
  /\ peer' = [peer EXCEPT ![s] = "closed"]
  /\ UNCHANGED <<ticketVars, entry, ended, finalizing, stopVars>>

\* A bug of OutputEnds: it finalizes what the entry holds, though it may hold
\* nothing any more.
OutputEndsEntry(s, heard) ==
  /\ s \in ended /\ ended' = ended \ {s}
  /\ finalizing' = IF heard THEN finalizing \cup {entry} ELSE finalizing
  /\ UNCHANGED <<ticketVars, entry, peer, stopVars>>

\* The output's end event: heard by #finalizeStream if the listeners of the
\* attached source are still there.
OutputEnds(s, heard) ==
  /\ s \in ended /\ ended' = ended \ {s}
  /\ finalizing' = IF heard /\ entry = s THEN finalizing \cup {s} ELSE finalizing
  /\ UNCHANGED <<ticketVars, entry, peer, stopVars>>

\* A bug of Finalize: it forgets whatever session is the entry by now.
FinalizeAny(s) ==
  /\ s \in finalizing /\ peer[s] = "closed"
  /\ finalizing' = finalizing \ {s}
  /\ entry' = None
  /\ UNCHANGED <<ticketVars, peer, ended, stopVars>>

\* The continuation of #finalizeStream: it reports the stop if s is still the
\* camera's entry.
Finalize(s) ==
  /\ s \in finalizing /\ peer[s] = "closed"
  /\ finalizing' = finalizing \ {s}
  /\ entry' = IF entry = s THEN None ELSE entry
  /\ UNCHANGED <<ticketVars, peer, ended, stopVars>>

-----------------------------------------------------------------------------
\* Bugs of StopStream: a connecting session is not closed, or the pending ticket
\* is not cancelled.
StopOpenOnly ==
  /\ stopPc = "none"
  /\ cancelled' = IF ticket = None THEN cancelled ELSE cancelled \cup {ticket}
  /\ stopTarget' = entry
  /\ stopPc' = IF entry = None THEN "done" ELSE "draining"
  /\ IF entry # None /\ peer[entry] = "open" THEN ClosePeer(entry)
     ELSE UNCHANGED <<peer, ended>>
  /\ UNCHANGED <<ticket, job, session, joined, outcome, entry, finalizing>>

StopKeepsTicket ==
  /\ stopPc = "none"
  /\ stopTarget' = entry
  /\ stopPc' = IF entry = None THEN "done" ELSE "draining"
  /\ ClosePeer(entry)
  /\ UNCHANGED <<ticketVars, entry, finalizing>>

\* stopStream up to its await.
StopStream ==
  /\ stopPc = "none"
  /\ cancelled' = IF ticket = None THEN cancelled ELSE cancelled \cup {ticket}
  /\ stopTarget' = entry
  /\ stopPc' = IF entry = None THEN "done" ELSE "draining"
  /\ ClosePeer(entry)
  /\ UNCHANGED <<ticket, job, session, joined, outcome, entry, finalizing>>

\* A bug of StopDrained: it waits for a session that is no longer the entry.
StopDrainedEntry ==
  /\ stopPc = "draining" /\ peer[stopTarget] = "closed" /\ entry = stopTarget
  /\ stopPc' = "done" /\ entry' = None
  /\ UNCHANGED <<ticketVars, peer, ended, finalizing, stopTarget>>

\* Its session is closed: #finalizeStream reports the stop before stopStream
\* resolves.
StopDrained ==
  /\ stopPc = "draining" /\ peer[stopTarget] = "closed"
  /\ stopPc' = "done"
  /\ entry' = IF entry = stopTarget THEN None ELSE entry
  /\ UNCHANGED <<ticketVars, peer, ended, finalizing, stopTarget>>

\* stopStream resolves.
StopResolves ==
  /\ stopPc = "done"
  /\ stopPc' = "none" /\ stopTarget' = None
  /\ UNCHANGED <<ticketVars, entry, peer, ended, finalizing>>

\* A settled call is seen by its caller.
CallSettles(c, result) ==
  /\ outcome[c] = result /\ result \in {"resolved", "rejected"}
  /\ outcome' = [outcome EXCEPT ![c] = "none"]
  /\ joined' = [joined EXCEPT ![c] = None]
  /\ UNCHANGED <<ticket, cancelled, job, session, entry, peer, ended,
                 finalizing, stopVars>>

-----------------------------------------------------------------------------
(* The provider with a caller that starts and stops at any time *)

PNext ==
  \/ \E c \in Calls : outcome[c] = "none" /\ StartStream(c)
  \/ \E c \in Calls :
       \/ TicketFails(c) \/ ReadKeys(c) \/ ReplacePrevious(c) \/ ReadCipher(c)
       \/ Connected(c) \/ ConnectFails(c)
       \/ \E s \in Sources : Connect(c, s)
       \/ \E result \in {"resolved", "rejected"} : CallSettles(c, result)
  \/ \E s \in Sources :
       \/ PeerEnds(s) \/ PeerDrained(s) \/ Finalize(s)
       \/ \E heard \in BOOLEAN : OutputEnds(s, heard)
  \/ StopStream \/ StopDrained \/ StopResolves

PSpec == PInit /\ [][PNext]_pvars

\* Key reads, the connection and the END send are bounded by timers, promise
\* continuations run, and an ended output emits its end event.
PFairness ==
  /\ \A c \in Calls :
       /\ WF_pvars(\/ TicketFails(c) \/ ReadKeys(c) \/ ReplacePrevious(c)
                  \/ ReadCipher(c) \/ Connected(c) \/ ConnectFails(c)
                  \/ \E s \in Sources : Connect(c, s))
       /\ WF_pvars(\E result \in {"resolved", "rejected"} : CallSettles(c, result))
  /\ \A s \in Sources :
       /\ WF_pvars(PeerDrained(s)) /\ WF_pvars(Finalize(s))
       /\ WF_pvars(\E heard \in BOOLEAN : OutputEnds(s, heard))
  /\ WF_pvars(StopDrained) /\ WF_pvars(StopResolves)

PFairSpec == PSpec /\ PFairness

\* At most one session of the camera is connecting or connected, whatever
\* order starts, stops and failures arrive in (#startStreamOnce).
OneLivePeer == Cardinality({s \in Sources : peer[s] \in Live}) <= 1

\* A live session can be found and closed: it is the camera's entry.
LivePeerIsEntry == \A s \in Sources : peer[s] \in Live => entry = s

\* A start that stopStream cancelled never holds a live session again, wherever
\* the cancellation met it.
CancelledStartHoldsNothing ==
  \A c \in cancelled : job[c] = "connecting" => peer[session[c]] \notin Live

\* Nobody waits for what nobody does: an unsettled call has joined a ticket that
\* is at work, and a ticket or a stopStream that awaits the end of a session
\* awaits one that was closed, however starts and stops overtook each other
\* (startStream, #startStreamOnce, stopStream).
NoLostWait ==
  /\ \A c \in Calls :
       outcome[c] = "pending" => joined[c] # None /\ job[joined[c]] # "none"
  /\ \A c \in Calls :
       job[c] = "replacing" => session[c] # None /\ peer[session[c]] \notin Live
  /\ \A c \in Calls : job[c] = "connecting" => session[c] # None
  /\ stopPc = "draining" => stopTarget # None /\ peer[stopTarget] \notin Live

\* Every call of startStream settles, also one whose ticket was cancelled or
\* replaced while it waited (startStream, #startStreamOnce).
EveryStartSettles ==
  \A c \in Calls : outcome[c] = "pending" ~> outcome[c] # "pending"

\* stopStream returns, also when the session it closes is gone before it looks
\* again or a start replaces it (stopStream, #finalizeStream).
EveryStopReturns == stopPc # "none" ~> stopPc = "none"
=============================================================================
